------------------------- MODULE ExclusiveFileLock -------------------------
(***************************************************************************)
(* The cross-process lock of execution/engine/exclusive-file-lock.mjs.     *)
(* The lock is a directory at lockPath holding owner.json; it is published *)
(* by renaming a complete temporary directory, recovered from a dead owner *)
(* by renaming it to a tombstone whose name is derived from the dead       *)
(* owner's token, and released by renaming it to a name derived from the   *)
(* releaser's own token.  Every file system call is one step, so all       *)
(* interleavings of acquirers, releasers and exits are explored.           *)
(*                                                                         *)
(* Abstractions: a token is <<process, serial>>, the serial advancing when *)
(* the token is published (a token that was never renamed into place was   *)
(* seen by nobody); process identifiers are not reused; owner.json written *)
(* by a legacy version (a plain file) is left out.                         *)
(***************************************************************************)
EXTENDS Naturals, FiniteSets

CONSTANTS
  Procs,      \* the processes that use the lock
  MaxSerial,  \* bound: how often each process publishes
  NoToken     \* readLockOwner returned null, or nothing is at the path

Token == Procs \X Nat

ASSUME NoTokenAssumption == NoToken \notin Token
ASSUME MaxSerialAssumption == MaxSerial \in [Procs -> Nat]

VARIABLES
  alive,     \* process -> the operating system knows its pid
  pc,        \* process -> where its acquire or release call is
  serial,    \* process -> number of tokens it has published
  attempt,   \* process -> the loop variable of acquireExclusiveFileLock
  seen,      \* process -> the owner its acquire call read
  lockPath,  \* the token in lockPath/owner.json
  stale,     \* <<t, c>>: the directory lockPath.stale-<digest of t> holds c
  released,  \* <<t, c>>: the directory lockPath.released-<digest of t> holds c
  freed      \* history: the tokens whose owner has released the lock

vars == <<alive, pc, serial, attempt, seen, lockPath, stale, released, freed>>

Idle == {"idle"}
Acquiring == {"lstat", "publish", "readOwner", "judge", "quarantine", "verify"}
Holding == {"holding"}
Releasing == {"relRename", "relVerify"}
Dirs == SUBSET (Token \X Token)

\* The token process p is about to publish, and the one it published last.
NextToken(p) == <<p, serial[p]>>
OwnToken(p) == <<p, serial[p] - 1>>

\* Fault: the recovery slot has a name of its own each time, so that the
\* rename never meets a tombstone.
NoTombstone(slots, t) == FALSE

Exists(slots, t) == \E s \in slots : s[1] = t

Init ==
  /\ alive = [p \in Procs |-> TRUE]
  /\ pc = [p \in Procs |-> "idle"]
  /\ serial = [p \in Procs |-> 0]
  /\ attempt = [p \in Procs |-> 0]
  /\ seen = [p \in Procs |-> NoToken]
  /\ lockPath = NoToken
  /\ stale = {}
  /\ released = {} /\ freed = {}

Goto(p, l) == pc' = [pc EXCEPT ![p] = l]

-----------------------------------------------------------------------------
\* Faulty variants, used by the mutation runs.

\* The reader keeps the pid only.
ReadOwnerPidOnly(p) ==
  /\ alive[p] /\ pc[p] = "readOwner"
  /\ lockPath # NoToken
  /\ seen' = [seen EXCEPT ![p] = <<lockPath[1]>>]
  /\ Goto(p, "idle")
  /\ UNCHANGED <<alive, serial, attempt, lockPath, stale, released, freed>>

\* The rename replaces what is at lockPath.
PublishReplacing(p) ==
  /\ alive[p] /\ pc[p] = "publish"
  /\ lockPath' = NextToken(p)
  /\ serial' = [serial EXCEPT ![p] = @ + 1]
  /\ Goto(p, "holding")
  /\ UNCHANGED <<alive, attempt, seen, stale, released, freed>>

\* A pid that cannot be probed counts as gone.
JudgeUnknownAsDead(p) ==
  /\ alive[p] /\ pc[p] = "judge"
  /\ Goto(p, "quarantine")
  /\ UNCHANGED <<alive, serial, attempt, seen, lockPath, stale, released, freed>>

\* No owner is ever taken for dead.
JudgeNeverStale(p) ==
  /\ alive[p] /\ pc[p] = "judge"
  /\ Goto(p, "idle")
  /\ UNCHANGED <<alive, serial, attempt, seen, lockPath, stale, released, freed>>

-----------------------------------------------------------------------------
\* acquireExclusiveFileLock: a token is drawn and the owner file is written
\* to a private temporary directory.
Acquire(p) ==
  /\ alive[p] /\ pc[p] = "idle"
  /\ serial[p] < MaxSerial[p]
  /\ attempt' = [attempt EXCEPT ![p] = 0]
  /\ Goto(p, "lstat")
  /\ UNCHANGED <<alive, serial, seen, lockPath, stale, released, freed>>

\* installCompleteLock, the explicit lstat of lockPath: anything there is a
\* collision.
Lstat(p) ==
  /\ alive[p] /\ pc[p] = "lstat"
  /\ Goto(p, IF lockPath = NoToken THEN "publish" ELSE "readOwner")
  /\ UNCHANGED <<alive, serial, attempt, seen, lockPath, stale, released, freed>>

\* installCompleteLock, the rename: it fails on a non-empty directory.
Publish(p) ==
  /\ alive[p] /\ pc[p] = "publish"
  /\ IF lockPath = NoToken
     THEN /\ lockPath' = NextToken(p)
          /\ serial' = [serial EXCEPT ![p] = @ + 1]
          /\ Goto(p, "holding")
     ELSE /\ Goto(p, "readOwner")
          /\ UNCHANGED <<serial, lockPath>>
  /\ UNCHANGED <<alive, attempt, seen, stale, released, freed>>

\* After a collision, readLockOwner: no readable owner is never stale, so the
\* call returns lock_held.
ReadOwner(p) ==
  /\ alive[p] /\ pc[p] = "readOwner"
  /\ seen' = [seen EXCEPT ![p] = lockPath]
  /\ Goto(p, IF lockPath = NoToken THEN "idle" ELSE "judge")
  /\ UNCHANGED <<alive, serial, attempt, lockPath, stale, released, freed>>

\* isStaleOwner: only a pid that is provably gone makes the owner stale; any
\* other owner makes the call return lock_held.
Judge(p) ==
  /\ alive[p] /\ pc[p] = "judge"
  /\ Goto(p, IF alive[seen[p][1]] THEN "idle" ELSE "quarantine")
  /\ UNCHANGED <<alive, serial, attempt, seen, lockPath, stale, released, freed>>

\* quarantineStaleLock: whatever is at lockPath is renamed to the tombstone of
\* the owner that was read; the rename fails when lockPath is gone or the
\* tombstone exists, and the call returns lock_contended.
Quarantine(p) ==
  /\ alive[p] /\ pc[p] = "quarantine"
  /\ IF lockPath = NoToken \/ Exists(stale, seen[p])
     THEN /\ Goto(p, "idle")
          /\ UNCHANGED <<lockPath, stale>>
     ELSE /\ stale' = stale \cup {<<seen[p], lockPath>>}
          /\ lockPath' = NoToken
          /\ Goto(p, "verify")
  /\ UNCHANGED <<alive, serial, attempt, seen, released, freed>>

\* quarantineStaleLock, after the rename: the quarantined owner must be the
\* one that was read, or the call throws; otherwise the loop tries again, at
\* most twice in all.
Verify(p) ==
  /\ alive[p] /\ pc[p] = "verify"
  /\ attempt' = [attempt EXCEPT ![p] = @ + 1]
  /\ Goto(p, IF <<seen[p], seen[p]>> \in stale /\ attempt[p] = 0
             THEN "lstat" ELSE "idle")
  /\ UNCHANGED <<alive, serial, seen, lockPath, stale, released, freed>>

-----------------------------------------------------------------------------
\* releaseOwnedLock reads lockPath: a lock that is not the caller's is left
\* alone.
Release(p) ==
  /\ alive[p] /\ pc[p] = "holding"
  /\ Goto(p, IF lockPath = OwnToken(p) THEN "relRename" ELSE "idle")
  /\ UNCHANGED <<alive, serial, attempt, seen, lockPath, stale, released, freed>>

\* The rename of whatever is now at lockPath to released-<own digest>.
ReleaseRename(p) ==
  /\ alive[p] /\ pc[p] = "relRename"
  /\ IF lockPath = NoToken
     THEN /\ Goto(p, "idle")
          /\ UNCHANGED <<lockPath, released, freed>>
     ELSE /\ released' = released \cup {<<OwnToken(p), lockPath>>}
          /\ freed' = freed \cup {OwnToken(p)}
          /\ lockPath' = NoToken
          /\ Goto(p, "relVerify")
  /\ UNCHANGED <<alive, serial, attempt, seen, stale>>

\* The moved directory is removed only when it is the releaser's own.
ReleaseVerify(p) ==
  /\ alive[p] /\ pc[p] = "relVerify"
  /\ released' = released \ {<<OwnToken(p), OwnToken(p)>>}
  /\ Goto(p, "idle")
  /\ UNCHANGED <<alive, serial, attempt, seen, lockPath, stale, freed>>

-----------------------------------------------------------------------------
\* A process exits or crashes, wherever it is.
Exit(p) ==
  /\ alive[p]
  /\ alive' = [alive EXCEPT ![p] = FALSE]
  /\ UNCHANGED <<pc, serial, attempt, seen, lockPath, stale, released, freed>>

AcquireNext(p) ==
  \/ Acquire(p) \/ Lstat(p) \/ Publish(p) \/ ReadOwner(p) \/ Judge(p)
  \/ Quarantine(p) \/ Verify(p)

ReleaseNext(p) == Release(p) \/ ReleaseRename(p) \/ ReleaseVerify(p)

ProcNext(p) == AcquireNext(p) \/ ReleaseNext(p)

Next == \E p \in Procs : ProcNext(p) \/ Exit(p)

Spec == Init /\ [][Next]_vars

\* A process that wants the lock calls acquireExclusiveFileLock again and
\* again, and a call that is running goes on, be it an acquire or a release;
\* nobody is obliged to call release.
FairSpec ==
  /\ Spec
  /\ \A p \in Procs : WF_vars(AcquireNext(p) \/ ReleaseRename(p) \/ ReleaseVerify(p))

-----------------------------------------------------------------------------
\* The state the code keeps is of this shape.
TypeOK ==
  /\ alive \in [Procs -> BOOLEAN]
  /\ pc \in [Procs -> Idle \cup Acquiring \cup Holding \cup Releasing]
  /\ serial \in [Procs -> Nat]
  /\ attempt \in [Procs -> Nat]
  /\ seen \in [Procs -> Token \cup {NoToken}]
  /\ lockPath \in Token \cup {NoToken}
  /\ stale \in Dirs
  /\ released \in Dirs
  /\ freed \in SUBSET Token

Holder(p) == alive[p] /\ pc[p] = "holding"

\* "prevents a delayed stale reclaimer from moving a fresh owner into the old
\* owner's recovery slot" (the comment in installCompleteLock): a recovery slot
\* only ever receives the lock of the owner it is named after.  The code does
\* not keep it: see Overtaken.
RecoverySlotHoldsItsOwner ==
  \A s \in stale : s[1] = s[2]

\* A reclaimer was overtaken: it had read an owner that released the lock and
\* exited before the reclaimer asked whether it is alive, and moved the lock
\* of another into the slot of the one that had left.  quarantineStaleLock
\* sees it and throws, but does not put the lock back.
Overtaken == \E s \in stale : s[1] # s[2] /\ s[1] \in freed

\* Two live processes are between a successful acquireExclusiveFileLock and
\* its release() only after a reclaimer was overtaken by a release: no crash,
\* no recovery and no contention over a dead owner brings it about.
ExclusiveUnlessOvertaken ==
  Overtaken \/ \A p, q \in Procs : Holder(p) /\ Holder(q) => p = q

\* The "compare-and-swap witness" of quarantineStaleLock: of reclaimers of an
\* owner that died with the lock, however delayed, none moves another lock, so
\* the first lock in a wrong slot is in the slot of an owner that released.
DelayedReclaimersAreHarmless ==
  RecoverySlotHoldsItsOwner \/ Overtaken

\* The lock of a live holder leaves lockPath only through that holder's own
\* release, or after a reclaimer was overtaken.
HolderKeepsLock ==
  [][\A p \in Procs :
       Holder(p) /\ lockPath = OwnToken(p) => lockPath' = lockPath \/ Overtaken']_vars

\* A lock whose owner is gone never blocks the others for good: it leaves
\* lockPath unless nobody is left who asks for it, that is, who may still take
\* it and is not at work under a lock that was moved away.
Wanted == \E p \in Procs : alive[p] /\ serial[p] < MaxSerial[p] /\ pc[p] # "holding"

Orphaned(t) == lockPath = t /\ ~alive[t[1]]

OrphanIsRecovered ==
  \A p \in Procs : \A n \in 0 .. MaxSerial[p] :
    Orphaned(<<p, n>>) ~> (~Orphaned(<<p, n>>) \/ ~Wanted)
=============================================================================
