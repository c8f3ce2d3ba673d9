------------------------ MODULE TimedFileLockProofs ------------------------
(***************************************************************************)
(* The locks of the promotion controller and of the scanner exclude until  *)
(* a takeover goes ahead without a guard, as long as the stale window is   *)
(* kept and wherever a process dies.  The inductive invariant says, up to  *)
(* that moment, that a live owner's file is at the path, and that what a   *)
(* takeover is about to remove is stale.                                   *)
(***************************************************************************)
EXTENDS TimedFileLock, TLAPS

Live(p, S) == alive[p] /\ pc[p] \in S

\* Between the creation of the lock file and its removal.
Owning == {"write", "rewrite", "unrecover", "holding", "unlink"}

\* Between the creation of the recovery file and its removal.
Recovering == {"recheck", "remove", "recreate", "rewrite", "unrecover", "lost"}

\* No live call has used up the stale window.
InTime == \A p \in Procs :
    alive[p] /\ pc[p] # "idle" => at[p] <= clock /\ clock <= at[p] + Window

\* A live owner's file is at the path, and full unless it is being filled.
Owned == \A p \in Procs : Live(p, Owning) =>
    /\ file # Nothing /\ file.pid = p /\ file.at = at[p]
    /\ pc[p] \in {"write", "rewrite"} => ~file.full
    /\ pc[p] \notin {"write", "rewrite"} => file.full

\* Who goes by the age of the file has read no record; what is taken over by its
\* record was stale when it was read.
Judged == \A p \in Procs :
    /\ Live(p, {"age"}) => current[p] = Nothing
    /\ Live(p, {"recover", "recheck"}) /\ current[p] # Nothing => current[p].at + Window < at[p]

\* What is about to be removed is stale, and one call at a time is about to.
Doomed == \A p \in Procs : Live(p, {"remove"}) =>
    /\ file # Nothing /\ file.at + Window < clock
    /\ \A q \in Procs : Live(q, {"remove"}) => p = q

\* One controller at a time is between the two ends of a takeover.
OneRecovers == kind = "controller" =>
    /\ \A p \in Procs : Live(p, Recovering) => recovery
    /\ \A p, q \in Procs : Live(p, Recovering) /\ Live(q, Recovering) => p = q

IInv ==
    /\ TypeOK /\ InTime /\ Judged /\ OneRecovers
    /\ ~unguarded => Owned /\ Doomed

USE DEF Times, Records, Files, Points, Creating, TakingOver

LEMMA InitInv == ASSUME Init PROVE IInv
<1> USE WindowAssumption, NothingAssumption DEF Init
<1>1. TypeOK
  <2>1. recovery \in BOOLEAN /\ unguarded \in BOOLEAN /\ kind \in {"controller", "scanner"}
    OBVIOUS
  <2>2. file \in Files \cup {Nothing} /\ current \in [Procs -> Records \cup {Nothing}]
    OBVIOUS
  <2>3. /\ alive \in [Procs -> BOOLEAN] /\ pc \in [Procs -> Points]
        /\ at \in [Procs -> Times] /\ clock \in Times
    OBVIOUS
  <2> QED
    BY <2>1, <2>2, <2>3 DEF TypeOK
<1>2. InTime /\ Owned /\ Judged /\ Doomed /\ OneRecovers
  BY DEF InTime, Owned, Judged, Doomed, OneRecovers, Live, Owning, Recovering
<1> QED
  BY <1>1, <1>2 DEF IInv

\* Every step keeps the invariant, one part after the other.
LEMMA StepInv ==
  ASSUME IInv, [TimelyNext]_vars PROVE IInv'
<1> USE WindowAssumption, NothingAssumption
<1> USE DEF IInv, Live, Owning, Recovering, Goto, At, ReadLock, OwnRecord, Stale, Takeover, Lost, Unguarded
<1>1. ASSUME NEW p \in Procs, Acquire(p)
       PROVE  IInv'
  <2>1. TypeOK'
    <3>1. recovery' \in BOOLEAN /\ unguarded' \in BOOLEAN /\ kind' \in {"controller", "scanner"}
      BY <1>1 DEF Acquire, TypeOK
    <3>2. file' \in Files \cup {Nothing}
      BY <1>1 DEF Acquire, TypeOK
    <3>3. current' \in [Procs -> Records \cup {Nothing}]
      BY <1>1 DEF Acquire, TypeOK
    <3>4. /\ alive' \in [Procs -> BOOLEAN] /\ pc' \in [Procs -> Points]
          /\ at' \in [Procs -> Times] /\ clock' \in Times
      BY <1>1 DEF Acquire, TypeOK
    <3> QED
      BY <3>1, <3>2, <3>3, <3>4 DEF TypeOK
  <2>2. InTime'
    BY <1>1 DEF Acquire, TypeOK, InTime
  <2>3. Judged'
    BY <1>1 DEF Acquire, TypeOK, Judged
  <2>4. OneRecovers'
    BY <1>1 DEF Acquire, TypeOK, OneRecovers
  <2>5. ASSUME ~unguarded' PROVE Owned'
    BY <1>1, <2>5 DEF Acquire, TypeOK, Owned
  <2>6. ASSUME ~unguarded' PROVE Doomed'
    BY <1>1, <2>6 DEF Acquire, TypeOK, InTime, Owned, Doomed
  <2> QED
    BY <2>1, <2>2, <2>3, <2>4, <2>5, <2>6
<1>2. ASSUME NEW p \in Procs, Create(p, "create", "write", "read")
       PROVE  IInv'
  <2>1. TypeOK'
    <3>1. recovery' \in BOOLEAN /\ unguarded' \in BOOLEAN /\ kind' \in {"controller", "scanner"}
      BY <1>2 DEF Create, TypeOK
    <3>2. file' \in Files \cup {Nothing}
      <4>1. at[p] \in Times /\ clock \in Times
        BY DEF TypeOK
      <4>2. [pid |-> p, at |-> at[p], full |-> FALSE, touched |-> clock] \in Files
        BY <4>1, Zenon
      <4>3. file' \in {file, [pid |-> p, at |-> at[p], full |-> FALSE, touched |-> clock]}
        BY <1>2 DEF Create
      <4> QED
        BY <4>2, <4>3 DEF TypeOK
    <3>3. current' \in [Procs -> Records \cup {Nothing}]
      BY <1>2 DEF Create, TypeOK
    <3>4. /\ alive' \in [Procs -> BOOLEAN] /\ pc' \in [Procs -> Points]
          /\ at' \in [Procs -> Times] /\ clock' \in Times
      BY <1>2 DEF Create, TypeOK
    <3> QED
      BY <3>1, <3>2, <3>3, <3>4 DEF TypeOK
  <2>2. InTime'
    BY <1>2 DEF Create, TypeOK, InTime
  <2>3. Judged'
    BY <1>2 DEF Create, TypeOK, Judged
  <2>4. OneRecovers'
    BY <1>2 DEF Create, TypeOK, OneRecovers
  <2>5. ASSUME ~unguarded' PROVE Owned'
    <3>1. CASE file = Nothing
      <4>1. file'.pid = p /\ file'.at = at'[p] /\ file' # Nothing /\ ~file'.full
        <5>1. file' = [pid |-> p, at |-> at[p], full |-> FALSE, touched |-> clock]
          BY <1>2, <3>1 DEF Create
        <5>2. at'[p] = at[p]
          BY <1>2, <3>1 DEF Create, TypeOK
        <5>3. file' \in Files
          BY <2>1, <5>1, Zenon DEF TypeOK
        <5> QED
          BY <5>1, <5>2, <5>3
      <4>2. \A q \in Procs : Live(q, Owning)' => q = p /\ pc'[q] \in {"write", "rewrite"}
        BY <1>2, <2>5, <3>1 DEF Create, Owned, TypeOK
      <4> QED
        BY <4>1, <4>2 DEF Owned
    <3>2. CASE file # Nothing
      BY <1>2, <2>5, <3>2 DEF Create, Owned, TypeOK
    <3> QED
      BY <3>1, <3>2
  <2>6. ASSUME ~unguarded' PROVE Doomed'
    BY <1>2, <2>6 DEF Create, TypeOK, InTime, Owned, Doomed
  <2> QED
    BY <2>1, <2>2, <2>3, <2>4, <2>5, <2>6
<1>3. ASSUME NEW p \in Procs, Fill(p, "write", "holding")
       PROVE  IInv'
  <2>1. TypeOK'
    <3>1. recovery' \in BOOLEAN /\ unguarded' \in BOOLEAN /\ kind' \in {"controller", "scanner"}
      BY <1>3 DEF Fill, TypeOK
    <3>2. file' \in Files \cup {Nothing}
      BY <1>3 DEF Fill, TypeOK
    <3>3. current' \in [Procs -> Records \cup {Nothing}]
      BY <1>3 DEF Fill, TypeOK
    <3>4. /\ alive' \in [Procs -> BOOLEAN] /\ pc' \in [Procs -> Points]
          /\ at' \in [Procs -> Times] /\ clock' \in Times
      BY <1>3 DEF Fill, TypeOK
    <3> QED
      BY <3>1, <3>2, <3>3, <3>4 DEF TypeOK
  <2>2. InTime'
    BY <1>3 DEF Fill, TypeOK, InTime
  <2>3. Judged'
    BY <1>3 DEF Fill, TypeOK, Judged
  <2>4. OneRecovers'
    BY <1>3 DEF Fill, TypeOK, OneRecovers
  <2>5. ASSUME ~unguarded' PROVE Owned'
    BY <1>3, <2>5 DEF Fill, TypeOK, Owned
  <2>6. ASSUME ~unguarded' PROVE Doomed'
    BY <1>3, <2>6 DEF Fill, TypeOK, InTime, Owned, Doomed
  <2> QED
    BY <2>1, <2>2, <2>3, <2>4, <2>5, <2>6
<1>4. ASSUME NEW p \in Procs, Read(p)
       PROVE  IInv'
  <2>1. TypeOK'
    <3>1. recovery' \in BOOLEAN /\ unguarded' \in BOOLEAN /\ kind' \in {"controller", "scanner"}
      BY <1>4 DEF Read, TypeOK
    <3>2. file' \in Files \cup {Nothing}
      BY <1>4 DEF Read, TypeOK
    <3>3. current' \in [Procs -> Records \cup {Nothing}]
      BY <1>4 DEF Read, TypeOK
    <3>4. /\ alive' \in [Procs -> BOOLEAN] /\ pc' \in [Procs -> Points]
          /\ at' \in [Procs -> Times] /\ clock' \in Times
      BY <1>4 DEF Read, TypeOK
    <3> QED
      BY <3>1, <3>2, <3>3, <3>4 DEF TypeOK
  <2>2. InTime'
    BY <1>4 DEF Read, TypeOK, InTime
  <2>3. Judged'
    BY <1>4 DEF Read, TypeOK, Judged
  <2>4. OneRecovers'
    BY <1>4 DEF Read, TypeOK, OneRecovers
  <2>5. ASSUME ~unguarded' PROVE Owned'
    BY <1>4, <2>5 DEF Read, TypeOK, Owned
  <2>6. ASSUME ~unguarded' PROVE Doomed'
    BY <1>4, <2>6 DEF Read, TypeOK, InTime, Owned, Doomed
  <2> QED
    BY <2>1, <2>2, <2>3, <2>4, <2>5, <2>6
<1>5. ASSUME NEW p \in Procs, Age(p)
       PROVE  IInv'
  <2>1. TypeOK'
    <3>1. recovery' \in BOOLEAN /\ unguarded' \in BOOLEAN /\ kind' \in {"controller", "scanner"}
      BY <1>5 DEF Age, TypeOK
    <3>2. file' \in Files \cup {Nothing}
      BY <1>5 DEF Age, TypeOK
    <3>3. current' \in [Procs -> Records \cup {Nothing}]
      BY <1>5 DEF Age, TypeOK
    <3>4. /\ alive' \in [Procs -> BOOLEAN] /\ pc' \in [Procs -> Points]
          /\ at' \in [Procs -> Times] /\ clock' \in Times
      BY <1>5 DEF Age, TypeOK
    <3> QED
      BY <3>1, <3>2, <3>3, <3>4 DEF TypeOK
  <2>2. InTime'
    BY <1>5 DEF Age, TypeOK, InTime
  <2>3. Judged'
    BY <1>5 DEF Age, TypeOK, Judged
  <2>4. OneRecovers'
    BY <1>5 DEF Age, TypeOK, OneRecovers
  <2>5. ASSUME ~unguarded' PROVE Owned'
    BY <1>5, <2>5 DEF Age, TypeOK, Owned
  <2>6. ASSUME ~unguarded' PROVE Doomed'
    BY <1>5, <2>6 DEF Age, TypeOK, InTime, Owned, Doomed
  <2> QED
    BY <2>1, <2>2, <2>3, <2>4, <2>5, <2>6
<1>6. ASSUME NEW p \in Procs, Recover(p)
       PROVE  IInv'
  <2>1. TypeOK'
    <3>1. recovery' \in BOOLEAN /\ unguarded' \in BOOLEAN /\ kind' \in {"controller", "scanner"}
      BY <1>6 DEF Recover, TypeOK
    <3>2. file' \in Files \cup {Nothing}
      BY <1>6 DEF Recover, TypeOK
    <3>3. current' \in [Procs -> Records \cup {Nothing}]
      BY <1>6 DEF Recover, TypeOK
    <3>4. /\ alive' \in [Procs -> BOOLEAN] /\ pc' \in [Procs -> Points]
          /\ at' \in [Procs -> Times] /\ clock' \in Times
      BY <1>6 DEF Recover, TypeOK
    <3> QED
      BY <3>1, <3>2, <3>3, <3>4 DEF TypeOK
  <2>2. InTime'
    BY <1>6 DEF Recover, TypeOK, InTime
  <2>3. Judged'
    BY <1>6 DEF Recover, TypeOK, Judged
  <2>4. OneRecovers'
    BY <1>6 DEF Recover, TypeOK, OneRecovers
  <2>5. ASSUME ~unguarded' PROVE Owned'
    BY <1>6, <2>5 DEF Recover, TypeOK, Owned
  <2>6. ASSUME ~unguarded' PROVE Doomed'
    BY <1>6, <2>6 DEF Recover, TypeOK, InTime, Owned, Doomed
  <2> QED
    BY <2>1, <2>2, <2>3, <2>4, <2>5, <2>6
<1>7. ASSUME NEW p \in Procs, Recheck(p)
       PROVE  IInv'
  <2>1. TypeOK'
    <3>1. recovery' \in BOOLEAN /\ unguarded' \in BOOLEAN /\ kind' \in {"controller", "scanner"}
      BY <1>7 DEF Recheck, TypeOK
    <3>2. file' \in Files \cup {Nothing}
      BY <1>7 DEF Recheck, TypeOK
    <3>3. current' \in [Procs -> Records \cup {Nothing}]
      BY <1>7 DEF Recheck, TypeOK
    <3>4. /\ alive' \in [Procs -> BOOLEAN] /\ pc' \in [Procs -> Points]
          /\ at' \in [Procs -> Times] /\ clock' \in Times
      BY <1>7 DEF Recheck, TypeOK
    <3> QED
      BY <3>1, <3>2, <3>3, <3>4 DEF TypeOK
  <2>2. InTime'
    BY <1>7 DEF Recheck, TypeOK, InTime
  <2>3. Judged'
    BY <1>7 DEF Recheck, TypeOK, Judged
  <2>4. OneRecovers'
    BY <1>7 DEF Recheck, TypeOK, OneRecovers
  <2>5. ASSUME ~unguarded' PROVE Owned'
    BY <1>7, <2>5 DEF Recheck, TypeOK, Owned
  <2>6. ASSUME ~unguarded' PROVE Doomed'
    <3>1. CASE ReadLock = current[p]
      <4>1. current[p] # Nothing
        BY <1>7, <2>6, <3>1 DEF Recheck
      <4>2. file # Nothing /\ file.at + Window < at[p]
        BY <1>7, <3>1, <4>1 DEF Recheck, Judged
      <4>3. file.at + Window < clock
        BY <1>7, <4>2 DEF Recheck, InTime, TypeOK
      <4>4. \A q \in Procs : ~Live(q, {"remove"})
        BY <1>7, <2>6, <3>1 DEF Recheck, OneRecovers, TypeOK
      <4>5. \A q \in Procs : Live(q, {"remove"})' => q = p
        BY <1>7, <4>4 DEF Recheck, TypeOK
      <4>6. file' = file /\ clock' = clock
        BY <1>7 DEF Recheck
      <4> QED
        BY <4>2, <4>3, <4>5, <4>6 DEF Doomed
    <3>2. CASE ReadLock # current[p]
      BY <1>7, <2>6, <3>2 DEF Recheck, TypeOK, Doomed
    <3> QED
      BY <3>1, <3>2
  <2> QED
    BY <2>1, <2>2, <2>3, <2>4, <2>5, <2>6
<1>8. ASSUME NEW p \in Procs, Remove(p)
       PROVE  IInv'
  <2>1. TypeOK'
    <3>1. recovery' \in BOOLEAN /\ unguarded' \in BOOLEAN /\ kind' \in {"controller", "scanner"}
      BY <1>8 DEF Remove, TypeOK
    <3>2. file' \in Files \cup {Nothing}
      BY <1>8 DEF Remove, TypeOK
    <3>3. current' \in [Procs -> Records \cup {Nothing}]
      BY <1>8 DEF Remove, TypeOK
    <3>4. /\ alive' \in [Procs -> BOOLEAN] /\ pc' \in [Procs -> Points]
          /\ at' \in [Procs -> Times] /\ clock' \in Times
      BY <1>8 DEF Remove, TypeOK
    <3> QED
      BY <3>1, <3>2, <3>3, <3>4 DEF TypeOK
  <2>2. InTime'
    BY <1>8 DEF Remove, TypeOK, InTime
  <2>3. Judged'
    BY <1>8 DEF Remove, TypeOK, Judged
  <2>4. OneRecovers'
    BY <1>8 DEF Remove, TypeOK, OneRecovers
  <2>5. ASSUME ~unguarded' PROVE Owned'
    <3>1. file.at + Window < clock
      BY <1>8, <2>5 DEF Remove, Doomed
    <3>2. \A q \in Procs : ~Live(q, Owning)
      BY <1>8, <2>5, <3>1 DEF Remove, Owned, InTime, TypeOK
    <3> QED
      BY <1>8, <3>2 DEF Remove, TypeOK, Owned
  <2>6. ASSUME ~unguarded' PROVE Doomed'
    BY <1>8, <2>6 DEF Remove, TypeOK, InTime, Owned, Doomed
  <2> QED
    BY <2>1, <2>2, <2>3, <2>4, <2>5, <2>6
<1>9. ASSUME NEW p \in Procs, Create(p, "recreate", "rewrite", Lost)
       PROVE  IInv'
  <2>1. TypeOK'
    <3>1. recovery' \in BOOLEAN /\ unguarded' \in BOOLEAN /\ kind' \in {"controller", "scanner"}
      BY <1>9 DEF Create, TypeOK
    <3>2. file' \in Files \cup {Nothing}
      <4>1. at[p] \in Times /\ clock \in Times
        BY DEF TypeOK
      <4>2. [pid |-> p, at |-> at[p], full |-> FALSE, touched |-> clock] \in Files
        BY <4>1, Zenon
      <4>3. file' \in {file, [pid |-> p, at |-> at[p], full |-> FALSE, touched |-> clock]}
        BY <1>9 DEF Create
      <4> QED
        BY <4>2, <4>3 DEF TypeOK
    <3>3. current' \in [Procs -> Records \cup {Nothing}]
      BY <1>9 DEF Create, TypeOK
    <3>4. /\ alive' \in [Procs -> BOOLEAN] /\ pc' \in [Procs -> Points]
          /\ at' \in [Procs -> Times] /\ clock' \in Times
      BY <1>9 DEF Create, TypeOK
    <3> QED
      BY <3>1, <3>2, <3>3, <3>4 DEF TypeOK
  <2>2. InTime'
    BY <1>9 DEF Create, TypeOK, InTime
  <2>3. Judged'
    BY <1>9 DEF Create, TypeOK, Judged
  <2>4. OneRecovers'
    BY <1>9 DEF Create, TypeOK, OneRecovers
  <2>5. ASSUME ~unguarded' PROVE Owned'
    <3>1. CASE file = Nothing
      <4>1. file'.pid = p /\ file'.at = at'[p] /\ file' # Nothing /\ ~file'.full
        <5>1. file' = [pid |-> p, at |-> at[p], full |-> FALSE, touched |-> clock]
          BY <1>9, <3>1 DEF Create
        <5>2. at'[p] = at[p]
          BY <1>9, <3>1 DEF Create, TypeOK
        <5>3. file' \in Files
          BY <2>1, <5>1, Zenon DEF TypeOK
        <5> QED
          BY <5>1, <5>2, <5>3
      <4>2. \A q \in Procs : Live(q, Owning)' => q = p /\ pc'[q] \in {"write", "rewrite"}
        BY <1>9, <2>5, <3>1 DEF Create, Owned, TypeOK
      <4> QED
        BY <4>1, <4>2 DEF Owned
    <3>2. CASE file # Nothing
      BY <1>9, <2>5, <3>2 DEF Create, Owned, TypeOK
    <3> QED
      BY <3>1, <3>2
  <2>6. ASSUME ~unguarded' PROVE Doomed'
    BY <1>9, <2>6 DEF Create, TypeOK, InTime, Owned, Doomed
  <2> QED
    BY <2>1, <2>2, <2>3, <2>4, <2>5, <2>6
<1>10. ASSUME NEW p \in Procs, Fill(p, "rewrite", IF kind = "controller" THEN "unrecover" ELSE "holding")
       PROVE  IInv'
  <2>1. TypeOK'
    <3>1. recovery' \in BOOLEAN /\ unguarded' \in BOOLEAN /\ kind' \in {"controller", "scanner"}
      BY <1>10 DEF Fill, TypeOK
    <3>2. file' \in Files \cup {Nothing}
      BY <1>10 DEF Fill, TypeOK
    <3>3. current' \in [Procs -> Records \cup {Nothing}]
      BY <1>10 DEF Fill, TypeOK
    <3>4. /\ alive' \in [Procs -> BOOLEAN] /\ pc' \in [Procs -> Points]
          /\ at' \in [Procs -> Times] /\ clock' \in Times
      BY <1>10 DEF Fill, TypeOK
    <3> QED
      BY <3>1, <3>2, <3>3, <3>4 DEF TypeOK
  <2>2. InTime'
    BY <1>10 DEF Fill, TypeOK, InTime
  <2>3. Judged'
    BY <1>10 DEF Fill, TypeOK, Judged
  <2>4. OneRecovers'
    BY <1>10 DEF Fill, TypeOK, OneRecovers
  <2>5. ASSUME ~unguarded' PROVE Owned'
    BY <1>10, <2>5 DEF Fill, TypeOK, Owned
  <2>6. ASSUME ~unguarded' PROVE Doomed'
    BY <1>10, <2>6 DEF Fill, TypeOK, InTime, Owned, Doomed
  <2> QED
    BY <2>1, <2>2, <2>3, <2>4, <2>5, <2>6
<1>11. ASSUME NEW p \in Procs, DropRecovery(p, "unrecover", "holding") \/ DropRecovery(p, "lost", "idle")
       PROVE  IInv'
  <2>1. TypeOK'
    <3>1. recovery' \in BOOLEAN /\ unguarded' \in BOOLEAN /\ kind' \in {"controller", "scanner"}
      BY <1>11 DEF DropRecovery, TypeOK
    <3>2. file' \in Files \cup {Nothing}
      BY <1>11 DEF DropRecovery, TypeOK
    <3>3. current' \in [Procs -> Records \cup {Nothing}]
      BY <1>11 DEF DropRecovery, TypeOK
    <3>4. /\ alive' \in [Procs -> BOOLEAN] /\ pc' \in [Procs -> Points]
          /\ at' \in [Procs -> Times] /\ clock' \in Times
      BY <1>11 DEF DropRecovery, TypeOK
    <3> QED
      BY <3>1, <3>2, <3>3, <3>4 DEF TypeOK
  <2>2. InTime'
    BY <1>11 DEF DropRecovery, TypeOK, InTime
  <2>3. Judged'
    BY <1>11 DEF DropRecovery, TypeOK, Judged
  <2>4. OneRecovers'
    BY <1>11 DEF DropRecovery, TypeOK, OneRecovers
  <2>5. ASSUME ~unguarded' PROVE Owned'
    BY <1>11, <2>5 DEF DropRecovery, TypeOK, Owned
  <2>6. ASSUME ~unguarded' PROVE Doomed'
    BY <1>11, <2>6 DEF DropRecovery, TypeOK, InTime, Owned, Doomed
  <2> QED
    BY <2>1, <2>2, <2>3, <2>4, <2>5, <2>6
<1>12. ASSUME NEW p \in Procs, Release(p)
       PROVE  IInv'
  <2>1. TypeOK'
    <3>1. recovery' \in BOOLEAN /\ unguarded' \in BOOLEAN /\ kind' \in {"controller", "scanner"}
      BY <1>12 DEF Release, TypeOK
    <3>2. file' \in Files \cup {Nothing}
      BY <1>12 DEF Release, TypeOK
    <3>3. current' \in [Procs -> Records \cup {Nothing}]
      BY <1>12 DEF Release, TypeOK
    <3>4. /\ alive' \in [Procs -> BOOLEAN] /\ pc' \in [Procs -> Points]
          /\ at' \in [Procs -> Times] /\ clock' \in Times
      BY <1>12 DEF Release, TypeOK
    <3> QED
      BY <3>1, <3>2, <3>3, <3>4 DEF TypeOK
  <2>2. InTime'
    BY <1>12 DEF Release, TypeOK, InTime
  <2>3. Judged'
    BY <1>12 DEF Release, TypeOK, Judged
  <2>4. OneRecovers'
    BY <1>12 DEF Release, TypeOK, OneRecovers
  <2>5. ASSUME ~unguarded' PROVE Owned'
    BY <1>12, <2>5 DEF Release, TypeOK, Owned
  <2>6. ASSUME ~unguarded' PROVE Doomed'
    BY <1>12, <2>6 DEF Release, TypeOK, InTime, Owned, Doomed
  <2> QED
    BY <2>1, <2>2, <2>3, <2>4, <2>5, <2>6
<1>13. ASSUME NEW p \in Procs, Unlink(p)
       PROVE  IInv'
  <2>1. TypeOK'
    <3>1. recovery' \in BOOLEAN /\ unguarded' \in BOOLEAN /\ kind' \in {"controller", "scanner"}
      BY <1>13 DEF Unlink, TypeOK
    <3>2. file' \in Files \cup {Nothing}
      BY <1>13 DEF Unlink, TypeOK
    <3>3. current' \in [Procs -> Records \cup {Nothing}]
      BY <1>13 DEF Unlink, TypeOK
    <3>4. /\ alive' \in [Procs -> BOOLEAN] /\ pc' \in [Procs -> Points]
          /\ at' \in [Procs -> Times] /\ clock' \in Times
      BY <1>13 DEF Unlink, TypeOK
    <3> QED
      BY <3>1, <3>2, <3>3, <3>4 DEF TypeOK
  <2>2. InTime'
    BY <1>13 DEF Unlink, TypeOK, InTime
  <2>3. Judged'
    BY <1>13 DEF Unlink, TypeOK, Judged
  <2>4. OneRecovers'
    BY <1>13 DEF Unlink, TypeOK, OneRecovers
  <2>5. ASSUME ~unguarded' PROVE Owned'
    BY <1>13, <2>5 DEF Unlink, TypeOK, Owned
  <2>6. ASSUME ~unguarded' PROVE Doomed'
    BY <1>13, <2>6 DEF Unlink, TypeOK, InTime, Owned, Doomed
  <2> QED
    BY <2>1, <2>2, <2>3, <2>4, <2>5, <2>6
<1>14. ASSUME NEW p \in Procs, Exit(p)
       PROVE  IInv'
  <2>1. TypeOK'
    <3>1. recovery' \in BOOLEAN /\ unguarded' \in BOOLEAN /\ kind' \in {"controller", "scanner"}
      BY <1>14 DEF Exit, TypeOK
    <3>2. file' \in Files \cup {Nothing}
      BY <1>14 DEF Exit, TypeOK
    <3>3. current' \in [Procs -> Records \cup {Nothing}]
      BY <1>14 DEF Exit, TypeOK
    <3>4. /\ alive' \in [Procs -> BOOLEAN] /\ pc' \in [Procs -> Points]
          /\ at' \in [Procs -> Times] /\ clock' \in Times
      BY <1>14 DEF Exit, TypeOK
    <3> QED
      BY <3>1, <3>2, <3>3, <3>4 DEF TypeOK
  <2>2. InTime'
    BY <1>14 DEF Exit, TypeOK, InTime
  <2>3. Judged'
    BY <1>14 DEF Exit, TypeOK, Judged
  <2>4. OneRecovers'
    BY <1>14 DEF Exit, TypeOK, OneRecovers
  <2>5. ASSUME ~unguarded' PROVE Owned'
    BY <1>14, <2>5 DEF Exit, TypeOK, Owned
  <2>6. ASSUME ~unguarded' PROVE Doomed'
    BY <1>14, <2>6 DEF Exit, TypeOK, InTime, Owned, Doomed
  <2> QED
    BY <2>1, <2>2, <2>3, <2>4, <2>5, <2>6
<1>15. ASSUME Timely, Tick PROVE IInv'
  BY <1>15 DEF Timely, Tick, TypeOK, InTime, Judged, OneRecovers, Owned, Doomed
<1>16. ASSUME UNCHANGED vars PROVE IInv'
  BY <1>16 DEF vars, TypeOK, InTime, Judged, OneRecovers, Owned, Doomed
<1> QED
  BY <1>1, <1>2, <1>3, <1>4, <1>5, <1>6, <1>7, <1>8, <1>9, <1>10, <1>11, <1>12, <1>13, <1>14, <1>15, <1>16
     DEF TimelyNext, ProcNext, AcquireNext, ReleaseNext

LEMMA Inductive == TimelySpec => []IInv
<1>1. Init => IInv
  BY InitInv
<1>2. IInv /\ [TimelyNext]_vars => IInv'
  BY StepInv
<1> QED
  BY <1>1, <1>2, PTL DEF TimelySpec

\* The state of either lock keeps its shape.
THEOREM TypeCorrect == TimelySpec => []TypeOK
<1>1. IInv => TypeOK
  BY DEF IInv
<1> QED
  BY <1>1, Inductive, PTL

\* Two live calls never both have the lock before an unguarded takeover, for
\* any number of processes and any stale window that is kept.
THEOREM Excludes == TimelySpec => []ExclusiveWhileGuarded
<1>1. IInv => ExclusiveWhileGuarded
  BY DEF IInv, Owned, Live, Owning, ExclusiveWhileGuarded, Holder, At
<1> QED
  BY <1>1, Inductive, PTL

\* Until then a takeover removes only a lock whose stale window is over.
THEOREM FreshOwnersStay == TimelySpec => FreshOwnerStays
<1>1. IInv /\ [TimelyNext]_vars =>
         [\A p \in Procs : ~unguarded /\ pc[p] = "remove" /\ pc'[p] = "recreate"
              => file # Nothing /\ clock > file.at + Window]_vars
  <2> SUFFICES ASSUME IInv, TimelyNext, NEW p \in Procs, ~unguarded, pc[p] = "remove",
                      pc'[p] = "recreate"
               PROVE  file # Nothing /\ clock > file.at + Window
    OBVIOUS
  <2>1. alive[p]
    BY DEF TimelyNext, ProcNext, AcquireNext, ReleaseNext, Acquire, Create, Fill, Read, Age, Recover,
       Recheck, Remove, DropRecovery, Release, Unlink, Exit, Tick, At, Goto, IInv, TypeOK
  <2>2. file # Nothing /\ file.at + Window < clock
    BY <2>1 DEF IInv, Doomed, Live
  <2>3. file.at \in Nat /\ clock \in Nat /\ Window \in Nat
    BY <2>2, WindowAssumption DEF IInv, TypeOK
  <2> QED
    BY <2>2, <2>3
<1> QED
  BY <1>1, Inductive, PTL DEF FreshOwnerStays, TimelySpec
=============================================================================
