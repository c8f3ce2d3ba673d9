---------------------- MODULE ExclusiveFileLockProofs ----------------------
(***************************************************************************)
(* Proofs about ExclusiveFileLock, for any set of processes and any number *)
(* of publications.  The lock excludes until a reclaimer is overtaken by a *)
(* release; the inductive invariant Inv says what a caller may rely on     *)
(* between its read of the owner and its rename until then.                *)
(***************************************************************************)
EXTENDS ExclusiveFileLock, TLAPS

Published(t) == t[2] < serial[t[1]]

\* Whatever is on disk, or was read from it, has been published.
TokensPublished ==
  /\ lockPath # NoToken => Published(lockPath)
  /\ \A q \in Procs : seen[q] # NoToken => Published(seen[q])
  /\ \A s \in stale : Published(s[1])

HasLock(p) == alive[p] /\ pc[p] \in {"holding", "relRename"}

\* A live process that has the lock finds its own token there, and a live
\* process whose token is there has the lock.
OwnersHaveTheLock ==
  /\ \A p \in Procs : HasLock(p) => lockPath = OwnToken(p)
  /\ lockPath # NoToken /\ alive[lockPath[1]] => HasLock(lockPath[1])

\* From readLockOwner to the rename, the owner that was read is still there,
\* has its tombstone, or released the lock.
ReadOwnerIsAccountedFor ==
  \A q \in Procs : alive[q] /\ pc[q] \in {"judge", "quarantine"} =>
    /\ seen[q] # NoToken
    /\ lockPath = seen[q] \/ Exists(stale, seen[q]) \/ seen[q] \in freed

\* Before the rename the owner is dead.
StaleOwnerIsDead ==
  \A q \in Procs : alive[q] /\ pc[q] = "quarantine" =>
    seen[q] # NoToken /\ ~alive[seen[q][1]]

Inv ==
  /\ TokensPublished
  /\ StaleOwnerIsDead
  /\ RecoverySlotHoldsItsOwner => OwnersHaveTheLock /\ ReadOwnerIsAccountedFor
  /\ DelayedReclaimersAreHarmless

-----------------------------------------------------------------------------
\* What makes TypeOK inductive: a call that acts on an owner has read one, and
\* a call that releases a token has published it.
CallsHaveTokens ==
  \A p \in Procs :
    /\ pc[p] \in {"judge", "quarantine", "verify"} => seen[p] \in Token
    /\ pc[p] \in {"holding", "relRename", "relVerify"} => OwnToken(p) \in Token

Typed == TypeOK /\ CallsHaveTokens

LEMMA TypeInit == Init => Typed
BY NoTokenAssumption
   DEF Init, Typed, TypeOK, CallsHaveTokens, Token, Dirs, Idle, Acquiring, Holding, Releasing

LEMMA TypeStep == Typed /\ [Next]_vars => Typed'
<1> SUFFICES ASSUME Typed, [Next]_vars
             PROVE  Typed'
  OBVIOUS
<1> USE NoTokenAssumption
    DEF Typed, TypeOK, CallsHaveTokens, OwnToken, Token, Dirs,
        Idle, Acquiring, Holding, Releasing, Goto
<1>1. ASSUME NEW p \in Procs, AcquireNext(p)
      PROVE  Typed'
  <2>1. CASE Acquire(p) BY <2>1 DEF Acquire
  <2>2. CASE Lstat(p) BY <2>2 DEF Lstat
  <2>3. CASE Publish(p) BY <2>3 DEF Publish, NextToken
  <2>4. CASE ReadOwner(p) BY <2>4 DEF ReadOwner
  <2>5. CASE Judge(p) BY <2>5 DEF Judge
  <2>6. CASE Quarantine(p)
    <3>1. CASE lockPath = NoToken \/ Exists(stale, seen[p])
      BY <2>6, <3>1 DEF Quarantine
    <3>2. CASE ~(lockPath = NoToken \/ Exists(stale, seen[p]))
      <4>1. seen[p] \in Token /\ lockPath \in Token
        BY <2>6, <3>2 DEF Quarantine
      <4>2. stale' \in Dirs
        BY <2>6, <3>2, <4>1 DEF Quarantine
      <4> QED BY <2>6, <3>2, <4>2 DEF Quarantine
    <3> QED BY <3>1, <3>2
  <2>7. CASE Verify(p) BY <2>7 DEF Verify
  <2> QED BY <1>1, <2>1, <2>2, <2>3, <2>4, <2>5, <2>6, <2>7 DEF AcquireNext
<1>2. ASSUME NEW p \in Procs, ReleaseNext(p)
      PROVE  Typed'
  <2>1. CASE Release(p) BY <2>1 DEF Release
  <2>2. CASE ReleaseRename(p) BY <2>2 DEF ReleaseRename
  <2>3. CASE ReleaseVerify(p) BY <2>3 DEF ReleaseVerify
  <2> QED BY <1>2, <2>1, <2>2, <2>3 DEF ReleaseNext
<1>3. ASSUME NEW p \in Procs, Exit(p)
      PROVE  Typed'
  BY <1>3 DEF Exit
<1>4. CASE UNCHANGED vars BY <1>4 DEF vars
<1> QED BY <1>1, <1>2, <1>3, <1>4 DEF Next, ProcNext

\* The state keeps its shape whatever the processes do, overtaken reclaimers included.
THEOREM TypeCorrect == Spec => []TypeOK
<1>1. Spec => []Typed
  BY TypeInit, TypeStep, PTL DEF Spec
<1>2. Typed => TypeOK BY DEF Typed
<1> QED BY <1>1, <1>2, PTL

-----------------------------------------------------------------------------
LEMMA InvInit == Init => Inv
BY NoTokenAssumption
   DEF Init, Inv, TokensPublished, OwnersHaveTheLock, HasLock, ReadOwnerIsAccountedFor,
       StaleOwnerIsDead, RecoverySlotHoldsItsOwner, DelayedReclaimersAreHarmless

\* An overtaken reclaimer leaves its trace for good.
LEMMA OvertakenStays == [Next]_vars /\ Overtaken => Overtaken'
<1> SUFFICES ASSUME [Next]_vars, NEW s \in stale, s[1] # s[2], s[1] \in freed
             PROVE  s \in stale' /\ s[1] \in freed'
  BY DEF Overtaken
<1> QED
  BY DEF Next, ProcNext, AcquireNext, ReleaseNext, Acquire, Lstat, Publish, ReadOwner, Judge,
         Quarantine, Verify, Release, ReleaseRename, ReleaseVerify, Exit, vars

\* The rename of a stale lock moves the lock of the owner that was read,
\* unless that owner has released.
LEMMA QuarantineMoves ==
  ASSUME Typed, Inv, RecoverySlotHoldsItsOwner, NEW p \in Procs, Quarantine(p),
         lockPath # NoToken, ~Exists(stale, seen[p])
  PROVE  /\ seen[p] \in Token /\ lockPath \in Token /\ ~alive[seen[p][1]]
         /\ stale' = stale \cup {<<seen[p], lockPath>>} /\ lockPath' = NoToken
         /\ pc' = [pc EXCEPT ![p] = "verify"]
         /\ UNCHANGED <<alive, serial, attempt, seen, released, freed>>
         /\ lockPath = seen[p] \/ seen[p] \in freed
BY NoTokenAssumption
   DEF Quarantine, Typed, TypeOK, CallsHaveTokens, Inv, StaleOwnerIsDead, ReadOwnerIsAccountedFor, Goto

LEMMA InvStep == Typed /\ Inv /\ [Next]_vars => Inv'
<1> SUFFICES ASSUME Typed, Inv, [Next]_vars
             PROVE  Inv'
  OBVIOUS
<1> USE NoTokenAssumption
    DEF Typed, TypeOK, CallsHaveTokens, Token, OwnToken, Goto, Published, HasLock, Exists,
        Inv, TokensPublished, OwnersHaveTheLock, ReadOwnerIsAccountedFor,
        StaleOwnerIsDead, RecoverySlotHoldsItsOwner, DelayedReclaimersAreHarmless
<1>0. Overtaken => Overtaken'
  BY OvertakenStays
<1>1. ASSUME NEW p \in Procs, AcquireNext(p)
      PROVE  Inv'
  <2>1. CASE Acquire(p) BY <2>1, <1>0 DEF Acquire
  <2>2. CASE Lstat(p) BY <2>2, <1>0 DEF Lstat
  <2>3. CASE Publish(p)
    <3>1. CASE lockPath = NoToken
      <4>1. /\ lockPath' = <<p, serial[p]>> /\ pc' = [pc EXCEPT ![p] = "holding"]
            /\ serial' = [serial EXCEPT ![p] = @ + 1]
            /\ UNCHANGED <<alive, attempt, seen, stale, released, freed>>
        BY <2>3, <3>1 DEF Publish, NextToken
      <4>2. \A q \in Procs : serial[q] \in Nat /\ serial'[q] \in Nat /\ serial[q] <= serial'[q]
        BY <4>1
      <4>3. TokensPublished'
        <5>1. \A s \in stale : s[1] \in Token BY DEF Dirs
        <5>2. \A t \in Token : Published(t) => Published(t)' BY <4>2
        <5>3. Published(lockPath)' BY <4>1
        <5> QED BY <4>1, <5>1, <5>2, <5>3
      <4>4. RecoverySlotHoldsItsOwner' => OwnersHaveTheLock' BY <3>1, <4>1
      <4>5. RecoverySlotHoldsItsOwner' => ReadOwnerIsAccountedFor' BY <3>1, <4>1
      <4>6. StaleOwnerIsDead' BY <3>1, <4>1
      <4>7. DelayedReclaimersAreHarmless' BY <4>1, <1>0
      <4> QED BY <4>3, <4>4, <4>5, <4>6, <4>7
    <3>2. CASE lockPath # NoToken BY <2>3, <3>2, <1>0 DEF Publish
    <3> QED BY <3>1, <3>2
  <2>4. CASE ReadOwner(p) BY <2>4, <1>0 DEF ReadOwner
  <2>5. CASE Judge(p) BY <2>5, <1>0 DEF Judge
  <2>6. CASE Quarantine(p)
    <3>1. CASE lockPath = NoToken \/ Exists(stale, seen[p])
      BY <2>6, <3>1, <1>0 DEF Quarantine
    <3>2. CASE ~(lockPath = NoToken \/ Exists(stale, seen[p])) /\ ~RecoverySlotHoldsItsOwner
      <4>1. /\ stale' = stale \cup {<<seen[p], lockPath>>} /\ lockPath' = NoToken
            /\ pc' = [pc EXCEPT ![p] = "verify"] /\ seen[p] \in Token
            /\ UNCHANGED <<alive, serial, attempt, seen, released, freed>>
        BY <2>6, <3>2 DEF Quarantine
      <4>2. Overtaken' BY <3>2, <1>0
      <4>3. ~RecoverySlotHoldsItsOwner' BY <3>2, <4>1
      <4>4. TokensPublished' BY <2>6, <4>1 DEF Quarantine
      <4>5. StaleOwnerIsDead' BY <4>1
      <4> QED BY <4>2, <4>3, <4>4, <4>5
    <3>3. CASE ~(lockPath = NoToken \/ Exists(stale, seen[p])) /\ RecoverySlotHoldsItsOwner
      <4>1. /\ seen[p] \in Token /\ lockPath \in Token /\ ~alive[seen[p][1]]
            /\ stale' = stale \cup {<<seen[p], lockPath>>} /\ lockPath' = NoToken
            /\ pc' = [pc EXCEPT ![p] = "verify"]
            /\ UNCHANGED <<alive, serial, attempt, seen, released, freed>>
            /\ lockPath = seen[p] \/ seen[p] \in freed
        BY <2>6, <3>3, QuarantineMoves
      <4>2. TokensPublished' BY <2>6, <4>1 DEF Quarantine
      <4>3. StaleOwnerIsDead' BY <4>1
      <4>4. CASE lockPath # seen[p]
        <5>1. Overtaken'
          <6>1. <<seen[p], lockPath>> \in stale' BY <4>1
          <6>2. \E s \in stale' : s = <<seen[p], lockPath>> BY <6>1
          <6> QED BY <6>2, <4>1, <4>4 DEF Overtaken
        <5>2. ~RecoverySlotHoldsItsOwner'
          <6>1. \E s \in stale' : s = <<seen[p], lockPath>> BY <4>1
          <6> QED BY <6>1, <4>4
        <5> QED BY <4>2, <4>3, <5>1, <5>2
      <4>5. CASE lockPath = seen[p]
        <5>1. \A t \in Token : Exists(stale, t) \/ t = seen[p] => Exists(stale', t)
          <6> SUFFICES ASSUME NEW t \in Token, Exists(stale, t) \/ t = seen[p]
                       PROVE  \E s \in stale' : s[1] = t
            OBVIOUS
          <6>1. CASE Exists(stale, t) BY <6>1, <4>1
          <6>2. CASE t = seen[p]
            <7>1. <<seen[p], seen[p]>> \in stale' BY <4>1, <4>5
            <7> QED BY <6>2, <7>1
          <6> QED BY <6>1, <6>2
        <5>2. OwnersHaveTheLock' BY <3>3, <4>1, <4>5
        <5>3. ReadOwnerIsAccountedFor' BY <3>3, <4>1, <4>5, <5>1
        <5>4. RecoverySlotHoldsItsOwner' BY <3>3, <4>1, <4>5
        <5> QED BY <4>2, <4>3, <5>2, <5>3, <5>4
      <4> QED BY <4>4, <4>5
    <3> QED BY <3>1, <3>2, <3>3
  <2>7. CASE Verify(p) BY <2>7, <1>0 DEF Verify
  <2> QED BY <1>1, <2>1, <2>2, <2>3, <2>4, <2>5, <2>6, <2>7 DEF AcquireNext
<1>2. ASSUME NEW p \in Procs, ReleaseNext(p)
      PROVE  Inv'
  <2>1. CASE Release(p) BY <2>1, <1>0 DEF Release
  <2>2. CASE ReleaseRename(p) BY <2>2, <1>0 DEF ReleaseRename
  <2>3. CASE ReleaseVerify(p) BY <2>3, <1>0 DEF ReleaseVerify
  <2> QED BY <1>2, <2>1, <2>2, <2>3 DEF ReleaseNext
<1>3. ASSUME NEW p \in Procs, Exit(p)
      PROVE  Inv'
  BY <1>3, <1>0 DEF Exit
<1>4. CASE UNCHANGED vars BY <1>4, <1>0 DEF vars
<1> QED BY <1>1, <1>2, <1>3, <1>4 DEF Next, ProcNext

LEMMA InvAlways == Spec => [](Typed /\ Inv)
BY TypeInit, TypeStep, InvInit, InvStep, PTL DEF Spec

\* Two live processes both hold the lock only after a reclaimer was overtaken
\* by a release, for any number of processes and acquisitions, through crashes
\* at any step and recoveries.
THEOREM Excludes == Spec => []ExclusiveUnlessOvertaken
<1>1. Typed /\ Inv => ExclusiveUnlessOvertaken
  BY DEF Inv, DelayedReclaimersAreHarmless, OwnersHaveTheLock, HasLock,
         ExclusiveUnlessOvertaken, Holder, OwnToken
<1> QED BY <1>1, InvAlways, PTL

\* The tombstone works for owners that died with the lock: the first wrong lock
\* in a recovery slot is in the slot of an owner that released.
THEOREM RecoveryIsSound == Spec => []DelayedReclaimersAreHarmless
BY InvAlways, PTL DEF Inv

\* No step of another process removes the lock of a live holder, unless a
\* reclaimer was overtaken.
THEOREM LockStaysWithHolder == Spec => HolderKeepsLock
<1> DEFINE Kept == \A p \in Procs :
                     Holder(p) /\ lockPath = OwnToken(p) => lockPath' = lockPath \/ Overtaken'
<1>1. ASSUME Typed, Inv, Inv', [Next]_vars
      PROVE  [Kept]_vars
  <2> SUFFICES ASSUME NEW p \in Procs, Holder(p), lockPath = OwnToken(p),
                      Next, ~Overtaken'
               PROVE  lockPath' = lockPath
    BY <1>1
  <2> USE <1>1, NoTokenAssumption DEF Holder, OwnToken, Typed, CallsHaveTokens, Token
  <2>1. lockPath # NoToken
    OBVIOUS
  <2>2. RecoverySlotHoldsItsOwner /\ RecoverySlotHoldsItsOwner'
    BY OvertakenStays DEF Inv, DelayedReclaimersAreHarmless
  <2>3. ASSUME NEW q \in Procs, Publish(q)
        PROVE  lockPath' = lockPath
    BY <2>1, <2>3 DEF Publish
  <2>4. ASSUME NEW q \in Procs, Quarantine(q)
        PROVE  lockPath' = lockPath
    <3>1. CASE Exists(stale, seen[q])
      BY <2>4, <3>1 DEF Quarantine
    <3>2. CASE ~Exists(stale, seen[q])
      <4>1. /\ seen[q] \in Token /\ ~alive[seen[q][1]]
            /\ <<seen[q], lockPath>> \in stale'
        BY <2>1, <2>2, <2>4, <3>2, QuarantineMoves
      <4>2. seen[q] = lockPath
        BY <2>2, <4>1 DEF RecoverySlotHoldsItsOwner
      <4> QED BY <4>1, <4>2
    <3> QED BY <3>1, <3>2
  <2>5. ASSUME NEW q \in Procs, ReleaseRename(q)
        PROVE  lockPath' = lockPath
    BY <2>1, <2>2, <2>5 DEF ReleaseRename, Inv, OwnersHaveTheLock, HasLock
  <2>6. ASSUME NEW q \in Procs,
               \/ Acquire(q) \/ Lstat(q) \/ ReadOwner(q) \/ Judge(q) \/ Verify(q)
               \/ Release(q) \/ ReleaseVerify(q) \/ Exit(q)
        PROVE  lockPath' = lockPath
    BY <2>6 DEF Acquire, Lstat, ReadOwner, Judge, Verify, Release, ReleaseVerify, Exit
  <2> QED BY <2>3, <2>4, <2>5, <2>6
        DEF Next, ProcNext, AcquireNext, ReleaseNext
<1> QED BY <1>1, InvAlways, PTL DEF Spec, HolderKeepsLock
=============================================================================
