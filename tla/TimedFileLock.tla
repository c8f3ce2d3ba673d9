--------------------------- MODULE TimedFileLock ---------------------------
(***************************************************************************)
(* The create-exclusive locks of the promotion controller                  *)
(* (promotion/controller-lock.mjs) and of the candidate scanner            *)
(* (promotion-scanner/lock.mjs).  The lock is a file that is created with  *)
(* "wx", filled by a second call, and taken over when its owner looks      *)
(* older than the stale window.  The two differ in one thing: the          *)
(* controller holds a second file, <lock>.recovery, during a takeover.     *)
(* Which of the two it is, is chosen at the start.                         *)
(*                                                                         *)
(* Every file system call is a step.  The clock counts in units in which   *)
(* the stale window is a small number.                                     *)
(***************************************************************************)
EXTENDS Naturals

CONSTANTS
    Procs,          \* the processes that use the lock
    Window,         \* staleAfterMs
    MaxClock,       \* bound: how far the clock goes
    Nothing         \* no file, or nothing readable in it

VARIABLES
    alive,      \* process -> it has not exited
    pc,         \* process -> where its acquire or release call is
    at,         \* process -> acquiredAt of its call
    current,    \* process -> the record its call read first
    file,       \* the lock file
    recovery,   \* the recovery file exists
    clock,
    kind,       \* whose lock it is
    unguarded   \* history: a takeover went ahead without a guard, see Unguarded

vars == <<alive, pc, at, current, file, recovery, clock, kind, unguarded>>

Times == 0..MaxClock
Records == [pid : Procs, at : Times]
\* full: the record has been written; touched: the file's mtime.
Files == [pid : Procs, at : Times, full : BOOLEAN, touched : Times]

ASSUME WindowAssumption == Window \in Nat /\ MaxClock \in Nat
ASSUME NothingAssumption == Nothing \notin Files /\ Nothing \notin Records

Creating == {"create", "write"}
TakingOver == {"recover", "recheck", "remove", "recreate", "rewrite", "unrecover"}
Points == {"idle", "read", "age", "lost", "holding", "unlink"} \cup Creating \cup TakingOver

TypeOK ==
    /\ alive \in [Procs -> BOOLEAN]
    /\ pc \in [Procs -> Points]
    /\ at \in [Procs -> Times]
    /\ current \in [Procs -> Records \cup {Nothing}]
    /\ file \in Files \cup {Nothing}
    /\ recovery \in BOOLEAN
    /\ clock \in Times
    /\ kind \in {"controller", "scanner"}
    /\ unguarded \in BOOLEAN

Init ==
    /\ alive = [p \in Procs |-> TRUE]
    /\ pc = [p \in Procs |-> "idle"]
    /\ at = [p \in Procs |-> 0]
    /\ current = [p \in Procs |-> Nothing]
    /\ file = Nothing /\ recovery = FALSE
    /\ clock = 0
    /\ kind \in {"controller", "scanner"}
    /\ unguarded = FALSE

At(p, l) == alive[p] /\ pc[p] = l

\* The call goes on at l, or ends and forgets what it knew.
Goto(p, l) ==
    /\ pc' = [pc EXCEPT ![p] = l]
    /\ at' = [at EXCEPT ![p] = IF l = "idle" THEN 0 ELSE @]
    /\ current' = [current EXCEPT ![p] = IF l \in TakingOver \cup {"lost"} THEN @ ELSE Nothing]

\* Fault: the text of the file is taken for a record.
ReadLockRaw == IF file # Nothing /\ file.full THEN file ELSE Nothing

\* readJsonTolerant of the lock file: a file that is gone and one that is
\* still empty read the same.
ReadLock == IF file # Nothing /\ file.full THEN [pid |-> file.pid, at |-> file.at] ELSE Nothing

OwnRecord(p) == [pid |-> p, at |-> at[p]]

\* Fault: the operands of the comparison are swapped.
StaleSwapped(p, since) == since > at[p] + Window

Stale(p, since) == at[p] > since + Window

\* Where a takeover starts, and where one that failed ends.
Takeover == IF kind = "controller" THEN "recover" ELSE "recheck"
Lost == IF kind = "controller" THEN "lost" ELSE "idle"

-----------------------------------------------------------------------------
Acquire(p) ==
    /\ At(p, "idle")
    /\ at' = [at EXCEPT ![p] = clock]
    /\ pc' = [pc EXCEPT ![p] = "create"]
    /\ UNCHANGED <<alive, current, file, recovery, clock, kind, unguarded>>

\* openSync(lockPath, "wx"), first and after a takeover.
Create(p, from, next, otherwise) ==
    /\ At(p, from)
    /\ IF file = Nothing
         THEN /\ file' = [pid |-> p, at |-> at[p], full |-> FALSE, touched |-> clock]
              /\ Goto(p, next)
         ELSE Goto(p, otherwise) /\ UNCHANGED file
    /\ UNCHANGED <<alive, recovery, clock, kind, unguarded>>

\* writeFileSync on the handle: when the file has been unlinked meanwhile the
\* record goes nowhere, and the call has the lock all the same.
Fill(p, from, next) ==
    /\ At(p, from)
    /\ file' = IF file # Nothing /\ file.pid = p /\ ~file.full
                 THEN [file EXCEPT !.full = TRUE, !.touched = clock] ELSE file
    /\ Goto(p, next)
    /\ UNCHANGED <<alive, recovery, clock, kind, unguarded>>

\* An owner with a date is judged by it.
Read(p) ==
    /\ At(p, "read")
    /\ LET next == IF ReadLock = Nothing THEN "age"
                   ELSE IF Stale(p, ReadLock.at) THEN Takeover ELSE "idle"
       IN  /\ pc' = [pc EXCEPT ![p] = next]
           /\ at' = [at EXCEPT ![p] = IF next = "idle" THEN 0 ELSE @]
           /\ current' = [current EXCEPT ![p] = IF next = "idle" THEN Nothing ELSE ReadLock]
    /\ UNCHANGED <<alive, file, recovery, clock, kind, unguarded>>

\* Without one, by the age of the file; a file that is gone is not stale.
Age(p) ==
    /\ At(p, "age")
    /\ Goto(p, IF file # Nothing /\ Stale(p, file.touched) THEN Takeover ELSE "idle")
    /\ UNCHANGED <<alive, file, recovery, clock, kind, unguarded>>

\* Fault: a recovery file that is there is written over.
RecoverAnyway(p) ==
    /\ At(p, "recover")
    /\ recovery' = TRUE
    /\ Goto(p, "recheck")
    /\ UNCHANGED <<alive, file, clock, kind, unguarded>>

\* openSync(recoveryPath, "wx"): one recoverer at a time.
Recover(p) ==
    /\ At(p, "recover")
    /\ recovery' = TRUE
    /\ Goto(p, IF recovery THEN "idle" ELSE "recheck")
    /\ UNCHANGED <<alive, file, clock, kind, unguarded>>

\* Fault: the owner is not read again.
RecheckNothing(p) ==
    /\ At(p, "recheck")
    /\ Goto(p, "remove")
    /\ UNCHANGED <<alive, file, recovery, clock, kind, unguarded>>

\* What the recheck cannot tell: two unreadable files from each other, or from
\* none; and, without the recovery file, that another takeover has come as far.
Unguarded(p) ==
    \/ current[p] = Nothing
    \/ kind = "scanner" /\ \E q \in Procs : At(q, "remove")

\* The owner must still be the one that was judged.
Recheck(p) ==
    /\ At(p, "recheck")
    /\ Goto(p, IF ReadLock = current[p] THEN "remove" ELSE Lost)
    /\ unguarded' = (unguarded \/ (ReadLock = current[p] /\ Unguarded(p)))
    /\ UNCHANGED <<alive, file, recovery, clock, kind>>

\* rmSync removes whatever is there now.
Remove(p) ==
    /\ At(p, "remove")
    /\ file' = Nothing
    /\ Goto(p, "recreate")
    /\ UNCHANGED <<alive, recovery, clock, kind, unguarded>>

\* The finally block.
DropRecovery(p, from, next) ==
    /\ At(p, from)
    /\ recovery' = FALSE
    /\ Goto(p, next)
    /\ UNCHANGED <<alive, file, clock, kind, unguarded>>

-----------------------------------------------------------------------------
\* release(): the record is compared, then the path is removed.
Release(p) ==
    /\ At(p, "holding")
    /\ Goto(p, IF ReadLock = OwnRecord(p) THEN "unlink" ELSE "idle")
    /\ UNCHANGED <<alive, file, recovery, clock, kind, unguarded>>

Unlink(p) ==
    /\ At(p, "unlink")
    /\ file' = Nothing
    /\ Goto(p, "idle")
    /\ UNCHANGED <<alive, recovery, clock, kind, unguarded>>

-----------------------------------------------------------------------------
\* A process exits or crashes anywhere; the files stay.
Exit(p) ==
    /\ alive[p]
    /\ alive' = [alive EXCEPT ![p] = FALSE]
    /\ Goto(p, "idle")
    /\ UNCHANGED <<file, recovery, clock, kind, unguarded>>

Tick ==
    /\ clock < MaxClock
    /\ clock' = clock + 1
    /\ UNCHANGED <<alive, pc, at, current, file, recovery, kind, unguarded>>

AcquireNext(p) ==
    \/ Acquire(p)
    \/ Create(p, "create", "write", "read")
    \/ Fill(p, "write", "holding")
    \/ Read(p) \/ Age(p) \/ Recover(p) \/ Recheck(p) \/ Remove(p)
    \/ Create(p, "recreate", "rewrite", Lost)
    \/ Fill(p, "rewrite", IF kind = "controller" THEN "unrecover" ELSE "holding")
    \/ DropRecovery(p, "unrecover", "holding")
    \/ DropRecovery(p, "lost", "idle")

ReleaseNext(p) == Release(p) \/ Unlink(p)

ProcNext(p) == AcquireNext(p) \/ ReleaseNext(p)

Next == (\E p \in Procs : ProcNext(p) \/ Exit(p)) \/ Tick

Spec == Init /\ [][Next]_vars

\* The stale window is long enough: no live process is still in the call or
\* at its work when its lock has become stale.
Timely == \A p \in Procs : alive[p] /\ pc[p] # "idle" => clock < at[p] + Window

TimelyNext == (\E p \in Procs : ProcNext(p) \/ Exit(p)) \/ (Timely /\ Tick)

TimelySpec == Init /\ [][TimelyNext]_vars

\* The clock goes on unless the window is at stake, a call that is running
\* goes on, and the lock is asked for again and again.
FairSpec ==
    /\ TimelySpec
    /\ WF_vars(Timely /\ Tick)
    /\ \A p \in Procs : WF_vars(AcquireNext(p) \/ Unlink(p))

-----------------------------------------------------------------------------
Holder(p) == At(p, "holding")

\* As long as the stale window is kept, whoever crashes wherever, two live calls
\* have the lock only after an unguarded takeover: in the controller after one
\* from a file with no record in it, in the scanner also after two takeovers
\* that overlapped.
ExclusiveWhileGuarded ==
    unguarded \/ \A p, q \in Procs : Holder(p) /\ Holder(q) => p = q

\* Until then a takeover removes a lock only after its stale window, never one
\* that was created since.
FreshOwnerStays ==
    [][\A p \in Procs :
          ~unguarded /\ pc[p] = "remove" /\ pc'[p] = "recreate"
              => file # Nothing /\ clock > file.at + Window]_vars

\* The lock of an owner that is gone is taken over, whether it wrote its record
\* or died before it could, as long as someone who wants it is left.  A
\* controller that dies during a takeover leaves its recovery file, which
\* nobody clears; then, and only then, the lock stays.
Orphaned(p, t) ==
    /\ file # Nothing /\ file.pid = p /\ file.at = t /\ ~alive[p]
    /\ file.touched + Window < MaxClock    \* it will be stale within the bound
Wanted == \E p \in Procs : alive[p]

\* The recovery file of a controller that died during a takeover.
Abandoned == recovery /\ \A p \in Procs : alive[p] => pc[p] \notin TakingOver \cup {"lost"}

OrphanIsTakenOver ==
    \A p \in Procs, t \in Times : Orphaned(p, t) ~> (~Orphaned(p, t) \/ ~Wanted \/ Abandoned)
=============================================================================
