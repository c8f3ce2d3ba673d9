----------------------- MODULE DecompositionRunProofs -----------------------
(***************************************************************************)
(* What DecompositionRun guarantees for any number of runs, issues and     *)
(* dependencies, and any bounds on crashes, faults and moves.              *)
(***************************************************************************)
EXTENDS DecompositionRun, FiniteSetTheorems, TLAPS

\* The states in which the process works on a run.
Claimed == {"claimed", "eligible", "thinking", "recheck", "judged", "gate", "intent", "mark",
            "receipt", "terminal", "clear", "flag", "suppress"}
Committing == {"probe", "body", "issues", "relations", "move", "update", "verify"}
Pausing == {"comment", "escalate", "confirm"}
Busy == Claimed \cup Committing \cup Pausing \cup {"failed", "replayed"}

\* A fresh run between its claim and the end of its changes.
Early == {"eligible", "thinking", "recheck", "judged", "gate", "intent", "mark"}

Applied(r) == Present = Issues /\ relations = Deps /\ updates[r] > 0

\* What the process remembers of the run it works on is what is on disk.
Placed ==
    /\ pc \in Busy => run \in Runs
    /\ pc \in Claimed => mode = "fresh"
    /\ pc = "replayed" => mode = "replay"
    /\ pc \in {"gate", "intent", "mark", "receipt"} \cup Committing \cup Pausing =>
           outcome = artifact[run] /\ outcome # "none"
    /\ pc \in {"receipt"} \cup Committing => outcome = "commit"
    /\ pc \in Pausing => outcome # "commit"
    /\ pc \in {"recheck", "judged"} => outcome \in Outcomes \cup {"invalid"}
    /\ pc \in Busy /\ mode = "fresh" => seen \in Fingerprints

\* Where changes are made or have been made, the intent is there.
Intended ==
    /\ \A r \in intents : artifact[r] # "none" /\ wake[r].status # "none"
    /\ pc \in {"mark", "verify", "confirm", "replayed"} \cup Changing => run \in intents
    /\ pc = "probe" /\ mode = "replay" => run \in intents

\* The drain replays intents, and only when no fresh run is under way.
Queued ==
    /\ pc \notin {"recover"} => queue \subseteq intents
    /\ pc \in Busy => run \notin queue
    /\ pc \in {"idle", "decide", "down"} \cup Claimed => queue = {}
    /\ pc \in Busy /\ mode = "fresh" => queue = {}

\* A run that has an intent is marked as started, except between the two
\* writes, and after a crash between them until its wake has been recovered.
Marked ==
    /\ \A r \in intents : wake[r].started \/ wake[r].status = "running"
    /\ \A r \in intents : wake[r].started \/ (pc = "mark" /\ r = run) \/ pc = "down"
                              \/ (pc = "recover" /\ r \in queue)

\* A run with neither intent nor mark has changed nothing.
Untouched ==
    \A r \in Runs : r \notin intents /\ ~wake[r].started => updates[r] = 0 /\ comments[r] = 0

\* Where the wake of a fresh run stands.
InStep ==
    /\ \A r \in Runs : wake[r].status = "none" => ~wake[r].started /\ receipts[r] = "none"
    /\ pc = "claimed" => wake[run].status = "leased" /\ ~wake[run].started
    /\ pc \in Early \cup {"receipt", "terminal"} => wake[run].status = "running"
    /\ pc \in {"failed"} \cup Committing \cup Pausing /\ mode = "fresh" =>
           wake[run].status = "running" /\ receipts[run] = "none"
    /\ pc \in Early \cup {"claimed", "receipt"} => receipts[run] = "none"
    /\ pc \in Early \/ (pc = "probe" /\ mode = "fresh") => ~wake[run].started
    /\ pc \in {"probe", "gate"} /\ mode = "fresh" => run \notin intents
    /\ pc = "terminal" => (receipts[run] # "none" <=> outcome = "commit")

\* A receipt is for an applied commit whose wake is running or completed.
Receipted ==
    /\ \A r \in Runs : receipts[r] \in {"none", "completed"}
    /\ \A r \in Runs : receipts[r] # "none" =>
           /\ Applied(r) /\ artifact[r] = "commit" /\ wake[r].started
           /\ wake[r].reconciled \/ wake[r].status = "running"
    /\ \A r \in Runs : wake[r].reconciled \/ wake[r].status = "completed" =>
           receipts[r] = "completed" /\ wake[r].status = "completed"
    /\ pc = "receipt" => Applied(run) /\ wake[run].started

\* The runs that have decomposed the project, or may have: a commit whose
\* changes were begun or announced by an intent.
Decomposers == {r \in Runs : artifact[r] = "commit" /\ (wake[r].started \/ r \in intents)}

\* A fresh run on its way to its intent.
Unannounced == pc \in {"claimed", "eligible", "thinking", "recheck", "judged", "gate", "intent"}
                   \/ (pc = "probe" /\ mode = "fresh")

\* A run that has decomposed the project is known by its intent or by the
\* issues it left, and a fresh run that is about to write its intent has seen
\* neither.
Single ==
    /\ \A r, s \in Decomposers : r = s
    /\ \A r \in Decomposers : r \in intents \/ Present # {}
    /\ Unannounced => intents = {}
    /\ Unannounced /\ pc \in {"judged", "gate", "intent", "probe"} => Present = {}
    /\ pc = "clear" => receipts[run] # "none"
    /\ pc = "replayed" /\ artifact[run] = "commit" => Present # {}

\* A commit is made in order, and once it is all in Linear it can be shown to be.
Ordered ==
    /\ \A i \in filed \cap Issues : issues[i] > 0
    /\ filed \cap Deps \subseteq relations
    /\ pc \in {"relations", "move", "update", "verify"} => Present = Issues
    /\ pc \in {"move", "update", "verify"} => relations = Deps
    /\ relations # {} => Present = Issues
    /\ pc = "receipt" => run \in intents
    /\ pc = "replayed" /\ artifact[run] = "commit" => Applied(run)

IInv == /\ TypeOK /\ Placed /\ Intended /\ Queued /\ Marked /\ Untouched /\ InStep
        /\ Receipted /\ NothingTwice /\ Single /\ Ordered

-----------------------------------------------------------------------------
\* The actions that change Linear; every other step leaves it alone.
LEMMA LinearFrame == [Next]_vars =>
  \/ UNCHANGED linear
  \/ UpdateBody \/ (\E i \in Issues : FileIssue(i)) \/ (\E d \in Deps : Relate(d))
  \/ MoveToInProgress \/ PostUpdate \/ PostComment \/ Escalate \/ HumanMoves
  \/ HumanEdits
<1> USE DEF linear, disk, work, bounds
<1>1. CASE Polling
  BY <1>1 DEF Polling, ListPlanned, DecideReplay, Replay, DecideSuppress, DecideFresh,
         DecideNothing
<1>2. CASE Running
  BY <1>2 DEF Running, MarkRunning, CheckEligible, Think, Outcomes, FreezeArtifact,
         ApplyGate
<1>3. CASE Applying
  BY <1>3 DEF Applying, Probe, WriteIntent, MarkMutationStarted, AllFiled, AllRelated,
         Verify, ConfirmEscalated
<1>4. CASE Ending
  BY <1>4 DEF Ending, ReadFails, Refused, Fault, WriteReceipt, CompleteWake, Ended, Rest,
         NoRun, ClearIntent, FlagCleared, Suppress, FailRun, ReplayVerified, ReplayDegraded
<1>5. CASE Recovery
  BY <1>5 DEF Recovery, Start, RecoverNothing, Recovering, NextWake, RecoverIntentOnly,
         RecoverTerminal, SameWake, RecoverClear, Fault, RecoverFlag, Recovered, Drain,
         Replay
<1>6. CASE Crash \/ HumanMoves \/ HumanEdits \/ UNCHANGED vars
  BY <1>6 DEF Crash, Rest, NoRun, vars
<1> QED
  BY <1>1, <1>2, <1>3, <1>4, <1>5, <1>6 DEF Next, Gateway

\* The actions that write the files under the Teami home.
LEMMA DiskFrame == [Next]_vars =>
  \/ UNCHANGED disk
  \/ DecideFresh \/ MarkRunning \/ FreezeArtifact \/ WriteIntent \/ MarkMutationStarted
  \/ WriteReceipt \/ CompleteWake \/ ClearIntent \/ FlagCleared \/ Suppress \/ FailRun
  \/ ReplayVerified \/ (\E r \in Runs : RecoverIntentOnly(r))
  \/ (\E r \in Runs : RecoverTerminal(r)) \/ (\E r \in Runs : RecoverClear(r))
  \/ (\E r \in Runs : RecoverFlag(r))
<1> USE DEF linear, disk, work, bounds
<1>1. CASE Polling
  BY <1>1 DEF Polling, ListPlanned, DecideReplay, Replay, DecideSuppress, DecideNothing
<1>2. CASE Running
  BY <1>2 DEF Running, CheckEligible, Think, Outcomes, ApplyGate
<1>3. CASE Applying
  BY <1>3 DEF Applying, Probe, UpdateBody, Answered, Refused, Fault, FileIssue, AllFiled,
         Relate, AllRelated, MoveToInProgress, PostUpdate, Verify, PostComment, Escalate,
         ConfirmEscalated
<1>4. CASE Ending
  BY <1>4 DEF Ending, ReadFails, Refused, Fault, ReplayDegraded, Rest, NoRun
<1>5. CASE Recovery
  BY <1>5 DEF Recovery, Start, RecoverNothing, Recovering, NextWake, Recovered, Drain,
         Replay
<1>6. CASE Crash \/ HumanMoves \/ HumanEdits \/ UNCHANGED vars
  BY <1>6 DEF Crash, Rest, NoRun, HumanMoves, HumanEdits, vars
<1> QED
  BY <1>1, <1>2, <1>3, <1>4, <1>5, <1>6 DEF Next, Gateway

\* Every request leaves Linear in a state of its type.
LEMMA LinearStep == TypeOK /\ Placed /\ [Next]_vars => LinearOK'
<1> SUFFICES ASSUME TypeOK, Placed, [Next]_vars PROVE LinearOK'
  OBVIOUS
<1> USE RunsAssumption, DepsAssumption, BoundsAssumption DEF TypeOK, LinearOK, WorkOK,
         BoundsOK, linear, Contents, ProjectStatuses, Runs, NoRun, Placed, Claimed,
         Committing, Pausing, Busy
<1>1. CASE UNCHANGED linear
  BY <1>1
<1>2. CASE UpdateBody
  BY <1>2 DEF UpdateBody, Answered, Refused, Fault, disk, work
<1>3. ASSUME NEW i \in Issues, FileIssue(i) PROVE LinearOK'
  BY <1>3 DEF FileIssue, Answered, Refused, Fault, disk
<1>4. ASSUME NEW d \in Deps, Relate(d) PROVE LinearOK'
  BY <1>4 DEF Relate, Answered, Refused, Fault, disk
<1>5. CASE MoveToInProgress
  BY <1>5 DEF MoveToInProgress, Answered, Refused, Fault, disk, work
<1>6. CASE PostUpdate
  <2>1. run \in Runs
    BY <1>6 DEF PostUpdate
  <2>2. updates' \in [Runs -> Nat]
    <3>1. CASE updates' = updates
      BY <3>1
    <3>2. CASE updates' = [updates EXCEPT ![run] = IF @ = 0 THEN 1 ELSE @]
      BY <2>1, <3>2
    <3> QED
      BY <1>6, <3>1, <3>2 DEF PostUpdate
  <2> QED
    BY <1>6, <2>2 DEF PostUpdate
<1>7. CASE PostComment
  <2>1. run \in Runs
    BY <1>7 DEF PostComment
  <2>2. comments' \in [Runs -> Nat]
    <3>1. CASE comments' = comments
      BY <3>1
    <3>2. CASE comments' = [comments EXCEPT ![run] = IF @ = 0 THEN 1 ELSE @]
      BY <2>1, <3>2
    <3> QED
      BY <1>7, <3>1, <3>2 DEF PostComment
  <2> QED
    BY <1>7, <2>2 DEF PostComment
<1>8. CASE Escalate
  BY <1>8 DEF Escalate, Answered, Refused, Fault, disk, work
<1>9. CASE HumanMoves
  BY <1>9 DEF HumanMoves, disk, work
<1>10. CASE HumanEdits
  BY <1>10 DEF HumanEdits, disk, work
<1> QED
  BY <1>1, <1>2, <1>3, <1>4, <1>5, <1>6, <1>7, <1>8, <1>9, <1>10, LinearFrame

\* Every write leaves the files in a state of their type.
LEMMA DiskStep == TypeOK /\ Placed /\ [Next]_vars => DiskOK'
<1> SUFFICES ASSUME TypeOK, Placed, [Next]_vars PROVE DiskOK'
  OBVIOUS
<1> USE RunsAssumption, DepsAssumption, BoundsAssumption DEF TypeOK, LinearOK, DiskOK,
         WorkOK, disk, Wakes, WakeStatuses, TerminalStatuses, Outcomes, Placed, Claimed,
         Committing, Pausing, Busy
<1>1. CASE UNCHANGED disk
  BY <1>1
<1>2. CASE DecideFresh
  BY <1>2 DEF DecideFresh, NewWake, linear, bounds
<1>3. CASE MarkRunning
  BY <1>3 DEF MarkRunning, linear, work, bounds
<1>4. CASE FreezeArtifact
  BY <1>4 DEF FreezeArtifact, linear, work, bounds
<1>5. CASE WriteIntent
  BY <1>5 DEF WriteIntent, linear, work, bounds
<1>6. CASE MarkMutationStarted
  BY <1>6 DEF MarkMutationStarted, linear, work, bounds
<1>7. CASE WriteReceipt
  BY <1>7 DEF WriteReceipt, linear, work, bounds
<1>8. CASE CompleteWake
  <2>1. Ended(wake[run], outcome, receipts[run] # "none") \in Wakes
    BY <1>8 DEF CompleteWake, Ended, EndStatus
  <2> QED
    BY <1>8, <2>1 DEF CompleteWake
<1>9. CASE ClearIntent
  BY <1>9 DEF ClearIntent, Fault, Rest, NoRun, linear
<1>10. CASE FlagCleared
  BY <1>10 DEF FlagCleared, Rest, NoRun, linear, bounds
<1>11. CASE Suppress
  BY <1>11 DEF Suppress, Fault, Rest, NoRun, linear
<1>12. CASE FailRun
  BY <1>12 DEF FailRun, Rest, NoRun, linear, bounds
<1>13. CASE ReplayVerified
  BY <1>13 DEF ReplayVerified, Rest, NoRun, linear, bounds
<1>14. ASSUME NEW r \in Runs, RecoverIntentOnly(r) PROVE DiskOK'
  BY <1>14 DEF RecoverIntentOnly, Recovering, NextWake, linear, bounds
<1>15. ASSUME NEW r \in Runs, RecoverTerminal(r) PROVE DiskOK'
  BY <1>15 DEF RecoverTerminal, Recovering, SameWake, work, linear, bounds
<1>16. ASSUME NEW r \in Runs, RecoverClear(r) PROVE DiskOK'
  <2>1. CASE UNCHANGED wake
    BY <1>16, <2>1 DEF RecoverClear
  <2>2. CASE wake' = [wake EXCEPT ![r].clearPending = TRUE]
    <3>1. wake' \in [Runs -> Wakes]
      BY <2>2
    <3> QED
      BY <1>16, <3>1 DEF RecoverClear
  <2> QED
    BY <1>16, <2>1, <2>2 DEF RecoverClear
<1>17. ASSUME NEW r \in Runs, RecoverFlag(r) PROVE DiskOK'
  BY <1>17 DEF RecoverFlag, Recovering, NextWake, linear, bounds
<1> QED
  BY <1>1, <1>2, <1>3, <1>4, <1>5, <1>6, <1>7, <1>8, <1>9, <1>10, <1>11, <1>12, <1>13,
     <1>14, <1>15, <1>16, <1>17, DiskFrame

-----------------------------------------------------------------------------
\* What the poll computes is a fingerprint.
LEMMA FingerprintType == LinearOK => Fingerprint \in Fingerprints
  BY DEF LinearOK, Fingerprint, Fingerprints, Present

\* The process keeps the type of its own variables.
LEMMA WorkStep == TypeOK /\ Placed /\ [Next]_vars => WorkOK'
<1> SUFFICES ASSUME TypeOK, Placed, [Next]_vars PROVE WorkOK'
  OBVIOUS
<1> USE RunsAssumption, DepsAssumption, BoundsAssumption, FingerprintType DEF TypeOK,
         LinearOK, DiskOK, WorkOK, BoundsOK, linear, disk, work, bounds, Outcomes, Points,
         Changing, Reading, Runs
<1>1. CASE ListPlanned
  BY <1>1 DEF ListPlanned
<1>2. CASE DecideReplay
  BY <1>2 DEF DecideReplay, Replay
<1>3. CASE DecideSuppress
  BY <1>3 DEF DecideSuppress
<1>4. CASE DecideFresh
  BY <1>4 DEF DecideFresh
<1>5. CASE DecideNothing
  BY <1>5 DEF DecideNothing
<1>6. CASE Running
  BY <1>6 DEF Running, MarkRunning, CheckEligible, Think, FreezeArtifact, ApplyGate
<1>7. CASE Applying
  BY <1>7 DEF Applying, Probe, WriteIntent, MarkMutationStarted, StartOf, UpdateBody,
         Answered, Refused, Fault, FileIssue, AllFiled, Relate, AllRelated,
         MoveToInProgress, PostUpdate, Verify, PostComment, Escalate, ConfirmEscalated
<1>8. CASE Ending
  BY <1>8 DEF Ending, ReadFails, Refused, Fault, WriteReceipt, CompleteWake, Rest, NoRun,
         NotSeen, ClearIntent, FlagCleared, Suppress, FailRun, ReplayVerified,
         ReplayDegraded
<1>9. CASE Recovery
  BY <1>9 DEF Recovery, Start, RecoverNothing, Recovering, NextWake, RecoverIntentOnly,
         RecoverTerminal, SameWake, RecoverClear, Fault, RecoverFlag, Recovered, Drain,
         Replay
<1>10. CASE Crash
  BY <1>10 DEF Crash, Rest, NoRun, NotSeen
<1>11. CASE HumanMoves
  BY <1>11 DEF HumanMoves
<1>12. CASE HumanEdits
  BY <1>12 DEF HumanEdits
<1>13. CASE UNCHANGED vars
  BY <1>13 DEF vars
<1> QED
  BY <1>1, <1>2, <1>3, <1>4, <1>5, <1>6, <1>7, <1>8, <1>9, <1>10, <1>11, <1>12, <1>13 DEF Next, Gateway, Polling

\* The counters stay within their bounds.
LEMMA BoundsStep == TypeOK /\ [Next]_vars => BoundsOK'
<1> SUFFICES ASSUME TypeOK, [Next]_vars PROVE BoundsOK'
  OBVIOUS
<1> USE RunsAssumption, DepsAssumption, BoundsAssumption DEF TypeOK, BoundsOK, linear, disk,
         work, bounds
<1>1. CASE Polling
  BY <1>1 DEF Polling, ListPlanned, DecideReplay, Replay, DecideSuppress, DecideFresh,
         DecideNothing
<1>2. CASE Running
  BY <1>2 DEF Running, MarkRunning, CheckEligible, Think, Outcomes, FreezeArtifact,
         ApplyGate
<1>3. CASE Applying
  BY <1>3 DEF Applying, Probe, WriteIntent, MarkMutationStarted, StartOf, UpdateBody,
         Answered, Refused, Fault, FileIssue, AllFiled, Relate, AllRelated,
         MoveToInProgress, PostUpdate, Verify, PostComment, Escalate, ConfirmEscalated
<1>4. CASE Ending
  BY <1>4 DEF Ending, ReadFails, Refused, Fault, WriteReceipt, CompleteWake, Rest, NoRun,
         NotSeen, ClearIntent, FlagCleared, Suppress, FailRun, ReplayVerified,
         ReplayDegraded
<1>5. CASE Start
  BY <1>5 DEF Start
<1>6. ASSUME NEW r \in Runs, RecoverNothing(r) PROVE BoundsOK'
  BY <1>6 DEF RecoverNothing, Recovering, NextWake
<1>7. ASSUME NEW r \in Runs, RecoverIntentOnly(r) PROVE BoundsOK'
  BY <1>7 DEF RecoverIntentOnly, Recovering, NextWake
<1>8. ASSUME NEW r \in Runs, RecoverTerminal(r) PROVE BoundsOK'
  BY <1>8 DEF RecoverTerminal, Recovering, SameWake
<1>9. ASSUME NEW r \in Runs, RecoverClear(r) PROVE BoundsOK'
  BY <1>9 DEF RecoverClear, Recovering, SameWake, Fault, NextWake
<1>10. ASSUME NEW r \in Runs, RecoverFlag(r) PROVE BoundsOK'
  BY <1>10 DEF RecoverFlag, Recovering, NextWake
<1>11. CASE Recovered
  BY <1>11 DEF Recovered
<1>12. CASE Drain
  BY <1>12 DEF Drain, Replay
<1>13. CASE Crash \/ HumanMoves \/ HumanEdits \/ UNCHANGED vars
  BY <1>13 DEF Crash, Rest, NoRun, NotSeen, HumanMoves, HumanEdits, vars
<1> QED
  BY <1>1, <1>2, <1>3, <1>4, <1>5, <1>6, <1>7, <1>8, <1>9, <1>10, <1>11, <1>12, <1>13 DEF Next, Gateway, Recovery

-----------------------------------------------------------------------------
\* What the process remembers stays what is on disk.
LEMMA PlacedStep == TypeOK /\ Placed /\ Intended /\ Queued /\ [Next]_vars => Placed'
<1> SUFFICES ASSUME TypeOK, Placed, Intended, Queued, [Next]_vars PROVE Placed'
  OBVIOUS
<1> USE FingerprintType DEF TypeOK, LinearOK, DiskOK, WorkOK, linear, disk, work, bounds,
         Placed, Claimed, Committing, Pausing, Busy, Intended, Queued, Changing, Outcomes,
         Runs
<1>1. CASE ListPlanned
  BY <1>1 DEF ListPlanned
<1>2. CASE DecideReplay
  BY <1>2 DEF DecideReplay, Earliest, Replay
<1>3. CASE DecideSuppress
  BY <1>3 DEF DecideSuppress
<1>4. CASE DecideFresh
  BY <1>4 DEF DecideFresh
<1>5. CASE DecideNothing
  BY <1>5 DEF DecideNothing
<1>6. CASE Running
  BY <1>6 DEF Running, MarkRunning, CheckEligible, Think, FreezeArtifact, ApplyGate
<1>7. CASE Applying
  BY <1>7 DEF Applying, Probe, WriteIntent, MarkMutationStarted, StartOf, UpdateBody,
         Answered, Refused, Fault, FileIssue, AllFiled, Relate, AllRelated,
         MoveToInProgress, PostUpdate, Verify, PostComment, Escalate, ConfirmEscalated
<1>8. CASE Ending
  BY <1>8 DEF Ending, ReadFails, Reading, Refused, Fault, WriteReceipt, CompleteWake, Rest,
         NoRun, NotSeen, ClearIntent, FlagCleared, Suppress, FailRun, ReplayVerified,
         ReplayDegraded
<1>9. CASE Start
  BY <1>9 DEF Start
<1>10. ASSUME NEW r \in Runs, RecoverNothing(r) PROVE Placed'
  BY <1>10 DEF RecoverNothing, Recovering, Earliest, NextWake
<1>11. ASSUME NEW r \in Runs, RecoverIntentOnly(r) PROVE Placed'
  BY <1>11 DEF RecoverIntentOnly, Recovering, Earliest, NextWake
<1>12. ASSUME NEW r \in Runs, RecoverTerminal(r) PROVE Placed'
  BY <1>12 DEF RecoverTerminal, Recovering, Earliest, SameWake
<1>13. ASSUME NEW r \in Runs, RecoverClear(r) PROVE Placed'
  BY <1>13 DEF RecoverClear, Recovering, Earliest, SameWake, Fault, NextWake
<1>14. ASSUME NEW r \in Runs, RecoverFlag(r) PROVE Placed'
  BY <1>14 DEF RecoverFlag, Recovering, Earliest, NextWake
<1>15. CASE Recovered
  BY <1>15 DEF Recovered
<1>16. CASE Drain
  BY <1>16 DEF Drain, Earliest, Replay
<1>17. CASE Crash \/ HumanMoves \/ HumanEdits \/ UNCHANGED vars
  BY <1>17 DEF Crash, Rest, NoRun, NotSeen, HumanMoves, HumanEdits, vars
<1> QED
  BY <1>1, <1>2, <1>3, <1>4, <1>5, <1>6, <1>7, <1>8, <1>9, <1>10, <1>11, <1>12, <1>13,
     <1>14, <1>15, <1>16, <1>17 DEF Next, Gateway, Polling, Recovery

\* Where changes are made, the intent stays until they are verified.
LEMMA IntendedStep == TypeOK /\ Placed /\ Intended /\ Queued /\ InStep /\ [Next]_vars => Intended'
<1> SUFFICES ASSUME TypeOK, Placed, Intended, Queued, InStep, [Next]_vars PROVE Intended'
  OBVIOUS
<1> USE DEF TypeOK, LinearOK, DiskOK, WorkOK, linear, disk, work, bounds, Placed, Claimed,
         Committing, Pausing, Busy, Intended, Queued, Changing, Outcomes
<1>1. CASE ListPlanned
  BY <1>1 DEF ListPlanned
<1>2. CASE DecideReplay
  BY <1>2 DEF DecideReplay, Earliest, Replay
<1>3. CASE DecideSuppress
  BY <1>3 DEF DecideSuppress
<1>4. CASE DecideFresh
  BY <1>4 DEF DecideFresh
<1>5. CASE DecideNothing
  BY <1>5 DEF DecideNothing
<1>6. CASE MarkRunning
  BY <1>6 DEF MarkRunning
<1>7. CASE CheckEligible
  BY <1>7 DEF CheckEligible
<1>8. CASE Think
  BY <1>8 DEF Think
<1>9. CASE FreezeArtifact
  BY <1>9 DEF FreezeArtifact
<1>10. CASE ApplyGate
  BY <1>10 DEF ApplyGate
<1>11. CASE Probe
  BY <1>11 DEF Probe
<1>12. CASE WriteIntent
  BY <1>12 DEF WriteIntent, InStep, Early
<1>13. CASE MarkMutationStarted
  BY <1>13 DEF MarkMutationStarted, StartOf
<1>14. CASE UpdateBody
  BY <1>14 DEF UpdateBody, Answered, Refused, Fault
<1>15. ASSUME NEW i \in Issues, FileIssue(i) PROVE Intended'
  BY <1>15 DEF FileIssue, Answered, Refused, Fault
<1>16. CASE AllFiled
  BY <1>16 DEF AllFiled
<1>17. ASSUME NEW d \in Deps, Relate(d) PROVE Intended'
  BY <1>17 DEF Relate, Answered, Refused, Fault
<1>18. CASE AllRelated
  BY <1>18 DEF AllRelated
<1>19. CASE MoveToInProgress
  BY <1>19 DEF MoveToInProgress, Answered, Refused, Fault
<1>20. CASE PostUpdate
  BY <1>20 DEF PostUpdate, Answered, Refused, Fault
<1>21. CASE Verify
  BY <1>21 DEF Verify
<1>22. CASE PostComment
  BY <1>22 DEF PostComment, Answered, Refused, Fault
<1>23. CASE Escalate
  BY <1>23 DEF Escalate, Answered, Refused, Fault
<1>24. CASE ConfirmEscalated
  BY <1>24 DEF ConfirmEscalated
<1>25. CASE ReadFails
  BY <1>25 DEF ReadFails, Reading, Refused, Fault
<1>26. CASE WriteReceipt
  BY <1>26 DEF WriteReceipt
<1>27. CASE CompleteWake
  BY <1>27 DEF CompleteWake, Rest, Ended, EndStatus
<1>28. CASE ClearIntent
  BY <1>28 DEF ClearIntent, Fault, Rest, NoRun, NotSeen
<1>29. CASE FlagCleared
  BY <1>29 DEF FlagCleared, Rest, NoRun, NotSeen
<1>30. CASE Suppress
  BY <1>30 DEF Suppress, Fault, Rest, NoRun, NotSeen
<1>31. CASE FailRun
  BY <1>31 DEF FailRun, Rest, NoRun, NotSeen
<1>32. CASE ReplayVerified
  BY <1>32 DEF ReplayVerified, Rest, NoRun, NotSeen
<1>33. CASE ReplayDegraded
  BY <1>33 DEF ReplayDegraded, Fault, Rest, NoRun, NotSeen
<1>34. CASE Start
  BY <1>34 DEF Start
<1>35. ASSUME NEW r \in Runs, RecoverNothing(r) PROVE Intended'
  BY <1>35 DEF RecoverNothing, Recovering, Earliest, NextWake
<1>36. ASSUME NEW r \in Runs, RecoverIntentOnly(r) PROVE Intended'
  BY <1>36 DEF RecoverIntentOnly, Recovering, Earliest, NextWake
<1>37. ASSUME NEW r \in Runs, RecoverTerminal(r) PROVE Intended'
  BY <1>37 DEF RecoverTerminal, Recovering, Earliest, SameWake
<1>38. ASSUME NEW r \in Runs, RecoverClear(r) PROVE Intended'
  <2>1. CASE UNCHANGED wake
    BY <1>38, <2>1 DEF RecoverClear, Recovering, SameWake, NextWake, Fault
  <2>2. CASE wake' = [wake EXCEPT ![r].clearPending = TRUE]
    <3>1. \A s \in Runs : wake'[s].status = wake[s].status
      BY <2>2
    <3> QED
      BY <1>38, <3>1 DEF RecoverClear, Recovering, SameWake, NextWake
  <2> QED
    BY <1>38, <2>1, <2>2 DEF RecoverClear
<1>39. ASSUME NEW r \in Runs, RecoverFlag(r) PROVE Intended'
  BY <1>39 DEF RecoverFlag, Recovering, Earliest, NextWake
<1>40. CASE Recovered
  BY <1>40 DEF Recovered
<1>41. CASE Drain
  BY <1>41 DEF Drain, Earliest, Replay
<1>42. CASE Crash \/ HumanMoves \/ HumanEdits \/ UNCHANGED vars
  BY <1>42 DEF Crash, Rest, NoRun, NotSeen, HumanMoves, HumanEdits, vars
<1> QED
  BY <1>1, <1>2, <1>3, <1>4, <1>5, <1>6, <1>7, <1>8, <1>9, <1>10, <1>11, <1>12, <1>13,
     <1>14, <1>15, <1>16, <1>17, <1>18, <1>19, <1>20, <1>21, <1>22, <1>23, <1>24, <1>25,
     <1>26, <1>27, <1>28, <1>29, <1>30, <1>31, <1>32, <1>33, <1>34, <1>35, <1>36, <1>37,
     <1>38, <1>39, <1>40, <1>41, <1>42 DEF Next, Gateway, Polling, Running, Applying, Ending, Recovery

\* The drain goes through intents only, away from fresh runs.
LEMMA QueuedStep == TypeOK /\ Placed /\ Intended /\ Queued /\ [Next]_vars => Queued'
<1> SUFFICES ASSUME TypeOK, Placed, Intended, Queued, [Next]_vars PROVE Queued'
  OBVIOUS
<1> USE DEF TypeOK, LinearOK, DiskOK, WorkOK, linear, disk, work, bounds, Placed, Claimed,
         Committing, Pausing, Busy, Queued, Intended, Changing, Outcomes
<1>1. CASE Polling
  BY <1>1 DEF Polling, ListPlanned, DecideReplay, Replay, DecideSuppress, DecideFresh,
         DecideNothing
<1>2. CASE Running
  BY <1>2 DEF Running, MarkRunning, CheckEligible, Think, FreezeArtifact, ApplyGate
<1>3. CASE Applying
  BY <1>3 DEF Applying, Probe, WriteIntent, MarkMutationStarted, StartOf, UpdateBody,
         Answered, Refused, Fault, FileIssue, AllFiled, Relate, AllRelated,
         MoveToInProgress, PostUpdate, Verify, PostComment, Escalate, ConfirmEscalated
<1>4. CASE Ending
  BY <1>4 DEF Ending, ReadFails, Reading, Refused, Fault, WriteReceipt, CompleteWake, Rest,
         NoRun, NotSeen, ClearIntent, FlagCleared, Suppress, FailRun, ReplayVerified,
         ReplayDegraded
<1>5. CASE Recovery
  BY <1>5 DEF Recovery, Start, RecoverNothing, Recovering, NextWake, RecoverIntentOnly,
         RecoverTerminal, SameWake, RecoverClear, Fault, RecoverFlag, Recovered, Drain,
         Replay
<1>6. CASE Crash \/ HumanMoves \/ HumanEdits \/ UNCHANGED vars
  BY <1>6 DEF Crash, Rest, NoRun, NotSeen, HumanMoves, HumanEdits, vars
<1> QED
  BY <1>1, <1>2, <1>3, <1>4, <1>5, <1>6 DEF Next, Gateway

\* An intent without a mark is only left by a crash between the two writes,
\* and recovery marks it.
LEMMA MarkedStep == TypeOK /\ Placed /\ Intended /\ Queued /\ Marked /\ InStep /\ Receipted /\ [Next]_vars => Marked'
<1> SUFFICES ASSUME TypeOK, Placed, Intended, Queued, Marked, InStep, Receipted, [Next]_vars PROVE Marked'
  OBVIOUS
<1> USE DEF TypeOK, LinearOK, DiskOK, WorkOK, linear, disk, work, bounds, Placed, Claimed,
         Committing, Pausing, Busy, Intended, Queued, Marked, InStep, Receipted, Early,
         Changing, Outcomes
<1>1. CASE ListPlanned
  BY <1>1 DEF ListPlanned
<1>2. CASE DecideReplay
  BY <1>2 DEF DecideReplay, Earliest, Replay
<1>3. CASE DecideSuppress
  BY <1>3 DEF DecideSuppress
<1>4. CASE DecideFresh
  BY <1>4 DEF DecideFresh, NewWake
<1>5. CASE DecideNothing
  BY <1>5 DEF DecideNothing
<1>6. CASE MarkRunning
  BY <1>6 DEF MarkRunning
<1>7. CASE CheckEligible
  BY <1>7 DEF CheckEligible
<1>8. CASE Think
  BY <1>8 DEF Think
<1>9. CASE FreezeArtifact
  BY <1>9 DEF FreezeArtifact
<1>10. CASE ApplyGate
  BY <1>10 DEF ApplyGate
<1>11. CASE Probe
  BY <1>11 DEF Probe
<1>12. CASE WriteIntent
  BY <1>12 DEF WriteIntent
<1>13. CASE MarkMutationStarted
  BY <1>13 DEF MarkMutationStarted, StartOf
<1>14. CASE UpdateBody
  BY <1>14 DEF UpdateBody, Answered, Refused, Fault
<1>15. ASSUME NEW i \in Issues, FileIssue(i) PROVE Marked'
  BY <1>15 DEF FileIssue, Answered, Refused, Fault
<1>16. CASE AllFiled
  BY <1>16 DEF AllFiled
<1>17. ASSUME NEW d \in Deps, Relate(d) PROVE Marked'
  BY <1>17 DEF Relate, Answered, Refused, Fault
<1>18. CASE AllRelated
  BY <1>18 DEF AllRelated
<1>19. CASE MoveToInProgress
  BY <1>19 DEF MoveToInProgress, Answered, Refused, Fault
<1>20. CASE PostUpdate
  BY <1>20 DEF PostUpdate, Answered, Refused, Fault
<1>21. CASE Verify
  BY <1>21 DEF Verify
<1>22. CASE PostComment
  BY <1>22 DEF PostComment, Answered, Refused, Fault
<1>23. CASE Escalate
  BY <1>23 DEF Escalate, Answered, Refused, Fault
<1>24. CASE ConfirmEscalated
  BY <1>24 DEF ConfirmEscalated
<1>25. CASE ReadFails
  BY <1>25 DEF ReadFails, Reading, Refused, Fault
<1>26. CASE WriteReceipt
  BY <1>26 DEF WriteReceipt
<1>27. CASE CompleteWake
  BY <1>27 DEF CompleteWake, Ended, EndStatus, Rest, NoRun, NotSeen
<1>28. CASE ClearIntent
  BY <1>28 DEF ClearIntent, Fault, Rest, NoRun, NotSeen
<1>29. CASE FlagCleared
  BY <1>29 DEF FlagCleared, Rest, NoRun, NotSeen
<1>30. CASE Suppress
  BY <1>30 DEF Suppress, Fault, Rest, NoRun, NotSeen
<1>31. CASE FailRun
  BY <1>31 DEF FailRun, Rest, NoRun, NotSeen
<1>32. CASE ReplayVerified
  BY <1>32 DEF ReplayVerified, Rest, NoRun, NotSeen
<1>33. CASE ReplayDegraded
  BY <1>33 DEF ReplayDegraded, Fault, Rest, NoRun, NotSeen
<1>34. CASE Start
  BY <1>34 DEF Start
<1>35. ASSUME NEW r \in Runs, RecoverNothing(r) PROVE Marked'
  BY <1>35 DEF RecoverNothing, Recovering, Earliest, NextWake
<1>36. ASSUME NEW r \in Runs, RecoverIntentOnly(r) PROVE Marked'
  BY <1>36 DEF RecoverIntentOnly, Recovering, Earliest, NextWake
<1>37. ASSUME NEW r \in Runs, RecoverTerminal(r) PROVE Marked'
  BY <1>37 DEF RecoverTerminal, Recovering, Earliest, SameWake
<1>38. ASSUME NEW r \in Runs, RecoverClear(r) PROVE Marked'
  <2>1. CASE UNCHANGED wake
    BY <1>38, <2>1 DEF RecoverClear, Recovering, SameWake, NextWake, Fault, Earliest
  <2>2. CASE wake' = [wake EXCEPT ![r].clearPending = TRUE] /\ UNCHANGED intents /\ NextWake(r)
    <3>1. \A s \in Runs : /\ wake'[s].status = wake[s].status
                         /\ wake'[s].started = wake[s].started
                         /\ wake'[s].reconciled = wake[s].reconciled
      BY <2>2
    <3> QED
      BY <1>38, <2>2, <3>1 DEF RecoverClear, Recovering, NextWake, Earliest
  <2> QED
    BY <1>38, <2>1, <2>2 DEF RecoverClear
<1>39. ASSUME NEW r \in Runs, RecoverFlag(r) PROVE Marked'
  BY <1>39 DEF RecoverFlag, Recovering, Earliest, NextWake
<1>40. CASE Recovered
  BY <1>40 DEF Recovered
<1>41. CASE Drain
  BY <1>41 DEF Drain, Earliest, Replay
<1>42. CASE Crash \/ HumanMoves \/ HumanEdits \/ UNCHANGED vars
  BY <1>42 DEF Crash, Rest, NoRun, NotSeen, HumanMoves, HumanEdits, vars
<1> QED
  BY <1>1, <1>2, <1>3, <1>4, <1>5, <1>6, <1>7, <1>8, <1>9, <1>10, <1>11, <1>12, <1>13,
     <1>14, <1>15, <1>16, <1>17, <1>18, <1>19, <1>20, <1>21, <1>22, <1>23, <1>24, <1>25,
     <1>26, <1>27, <1>28, <1>29, <1>30, <1>31, <1>32, <1>33, <1>34, <1>35, <1>36, <1>37,
     <1>38, <1>39, <1>40, <1>41, <1>42 DEF Next, Gateway, Polling, Running, Applying, Ending, Recovery

\* Without intent and mark, nothing has been posted for the run.
LEMMA UntouchedStep == TypeOK /\ Placed /\ Intended /\ Marked /\ Untouched /\ InStep /\ Receipted /\ [Next]_vars => Untouched'
<1> SUFFICES ASSUME TypeOK, Placed, Intended, Marked, Untouched, InStep, Receipted, [Next]_vars PROVE Untouched'
  OBVIOUS
<1> USE DEF TypeOK, LinearOK, DiskOK, WorkOK, linear, disk, work, bounds, Placed, Claimed,
         Committing, Pausing, Busy, Intended, Marked, Untouched, InStep, Receipted, Changing
<1>1. CASE ListPlanned
  BY <1>1 DEF ListPlanned
<1>2. CASE DecideReplay
  BY <1>2 DEF DecideReplay, Earliest, Replay
<1>3. CASE DecideSuppress
  BY <1>3 DEF DecideSuppress
<1>4. CASE DecideFresh
  BY <1>4 DEF DecideFresh, NewWake
<1>5. CASE DecideNothing
  BY <1>5 DEF DecideNothing
<1>6. CASE MarkRunning
  BY <1>6 DEF MarkRunning
<1>7. CASE CheckEligible
  BY <1>7 DEF CheckEligible
<1>8. CASE Think
  BY <1>8 DEF Think, Outcomes
<1>9. CASE FreezeArtifact
  BY <1>9 DEF FreezeArtifact
<1>10. CASE ApplyGate
  BY <1>10 DEF ApplyGate
<1>11. CASE Probe
  BY <1>11 DEF Probe
<1>12. CASE WriteIntent
  BY <1>12 DEF WriteIntent
<1>13. CASE MarkMutationStarted
  BY <1>13 DEF MarkMutationStarted, StartOf
<1>14. CASE UpdateBody
  BY <1>14 DEF UpdateBody, Answered, Refused, Fault
<1>15. ASSUME NEW i \in Issues, FileIssue(i) PROVE Untouched'
  BY <1>15 DEF FileIssue, Answered, Refused, Fault
<1>16. CASE AllFiled
  BY <1>16 DEF AllFiled
<1>17. ASSUME NEW d \in Deps, Relate(d) PROVE Untouched'
  BY <1>17 DEF Relate, Answered, Refused, Fault
<1>18. CASE AllRelated
  BY <1>18 DEF AllRelated
<1>19. CASE MoveToInProgress
  BY <1>19 DEF MoveToInProgress, Answered, Refused, Fault
<1>20. CASE PostUpdate
  BY <1>20 DEF PostUpdate, Answered, Refused, Fault
<1>21. CASE Verify
  BY <1>21 DEF Verify
<1>22. CASE PostComment
  BY <1>22 DEF PostComment, Answered, Refused, Fault
<1>23. CASE Escalate
  BY <1>23 DEF Escalate, Answered, Refused, Fault
<1>24. CASE ConfirmEscalated
  BY <1>24 DEF ConfirmEscalated
<1>25. CASE ReadFails
  BY <1>25 DEF ReadFails, Reading, Refused, Fault
<1>26. CASE WriteReceipt
  BY <1>26 DEF WriteReceipt
<1>27. CASE CompleteWake
  BY <1>27 DEF CompleteWake, Ended, EndStatus, Rest, NoRun, NotSeen
<1>28. CASE ClearIntent
  BY <1>28 DEF ClearIntent, Fault, Rest, NoRun, NotSeen
<1>29. CASE FlagCleared
  BY <1>29 DEF FlagCleared, Rest, NoRun, NotSeen
<1>30. CASE Suppress
  BY <1>30 DEF Suppress, Fault, Rest, NoRun, NotSeen
<1>31. CASE FailRun
  BY <1>31 DEF FailRun, Rest, NoRun, NotSeen
<1>32. CASE ReplayVerified
  BY <1>32 DEF ReplayVerified, Rest, NoRun, NotSeen
<1>33. CASE ReplayDegraded
  BY <1>33 DEF ReplayDegraded, Fault, Rest, NoRun, NotSeen
<1>34. CASE Start
  BY <1>34 DEF Start
<1>35. ASSUME NEW r \in Runs, RecoverNothing(r) PROVE Untouched'
  BY <1>35 DEF RecoverNothing, Recovering, Earliest, NextWake
<1>36. ASSUME NEW r \in Runs, RecoverIntentOnly(r) PROVE Untouched'
  BY <1>36 DEF RecoverIntentOnly, Recovering, Earliest, NextWake
<1>37. ASSUME NEW r \in Runs, RecoverTerminal(r) PROVE Untouched'
  BY <1>37 DEF RecoverTerminal, Recovering, Earliest, SameWake
<1>38. ASSUME NEW r \in Runs, RecoverClear(r) PROVE Untouched'
  <2>1. CASE UNCHANGED wake
    BY <1>38, <2>1 DEF RecoverClear, Recovering, SameWake, NextWake, Fault, Earliest
  <2>2. CASE wake' = [wake EXCEPT ![r].clearPending = TRUE] /\ UNCHANGED intents /\ NextWake(r)
    <3>1. \A s \in Runs : /\ wake'[s].status = wake[s].status
                         /\ wake'[s].started = wake[s].started
                         /\ wake'[s].reconciled = wake[s].reconciled
      BY <2>2
    <3> QED
      BY <1>38, <2>2, <3>1 DEF RecoverClear, Recovering, NextWake, Earliest
  <2> QED
    BY <1>38, <2>1, <2>2 DEF RecoverClear
<1>39. ASSUME NEW r \in Runs, RecoverFlag(r) PROVE Untouched'
  BY <1>39 DEF RecoverFlag, Recovering, Earliest, NextWake
<1>40. CASE Recovered
  BY <1>40 DEF Recovered
<1>41. CASE Drain
  BY <1>41 DEF Drain, Earliest, Replay
<1>42. CASE Crash \/ HumanMoves \/ HumanEdits \/ UNCHANGED vars
  BY <1>42 DEF Crash, Rest, NoRun, NotSeen, HumanMoves, HumanEdits, vars
<1> QED
  BY <1>1, <1>2, <1>3, <1>4, <1>5, <1>6, <1>7, <1>8, <1>9, <1>10, <1>11, <1>12, <1>13,
     <1>14, <1>15, <1>16, <1>17, <1>18, <1>19, <1>20, <1>21, <1>22, <1>23, <1>24, <1>25,
     <1>26, <1>27, <1>28, <1>29, <1>30, <1>31, <1>32, <1>33, <1>34, <1>35, <1>36, <1>37,
     <1>38, <1>39, <1>40, <1>41, <1>42 DEF Next, Gateway, Polling, Running, Applying, Ending, Recovery

\* The wake of a fresh run keeps pace with the process.
LEMMA InStepHolds == TypeOK /\ Placed /\ Intended /\ Queued /\ Marked /\ InStep /\ Receipted /\ [Next]_vars => InStep'
<1> SUFFICES ASSUME TypeOK, Placed, Intended, Queued, Marked, InStep, Receipted, [Next]_vars PROVE InStep'
  OBVIOUS
<1> USE DEF TypeOK, LinearOK, DiskOK, WorkOK, linear, disk, work, bounds, Placed, Claimed,
         Committing, Pausing, Busy, Intended, Queued, Marked, InStep, Receipted, Early,
         Changing, Outcomes
<1>1. CASE ListPlanned
  BY <1>1 DEF ListPlanned
<1>2. CASE DecideReplay
  BY <1>2 DEF DecideReplay, Earliest, Replay
<1>3. CASE DecideSuppress
  BY <1>3 DEF DecideSuppress
<1>4. CASE DecideFresh
  BY <1>4 DEF DecideFresh, NewWake
<1>5. CASE DecideNothing
  BY <1>5 DEF DecideNothing
<1>6. CASE MarkRunning
  BY <1>6 DEF MarkRunning
<1>7. CASE CheckEligible
  BY <1>7 DEF CheckEligible
<1>8. CASE Think
  BY <1>8 DEF Think
<1>9. CASE FreezeArtifact
  BY <1>9 DEF FreezeArtifact
<1>10. CASE ApplyGate
  BY <1>10 DEF ApplyGate
<1>11. CASE Probe
  BY <1>11 DEF Probe
<1>12. CASE WriteIntent
  BY <1>12 DEF WriteIntent
<1>13. CASE MarkMutationStarted
  BY <1>13 DEF MarkMutationStarted, StartOf
<1>14. CASE UpdateBody
  BY <1>14 DEF UpdateBody, Answered, Refused, Fault
<1>15. ASSUME NEW i \in Issues, FileIssue(i) PROVE InStep'
  BY <1>15 DEF FileIssue, Answered, Refused, Fault
<1>16. CASE AllFiled
  BY <1>16 DEF AllFiled
<1>17. ASSUME NEW d \in Deps, Relate(d) PROVE InStep'
  BY <1>17 DEF Relate, Answered, Refused, Fault
<1>18. CASE AllRelated
  BY <1>18 DEF AllRelated
<1>19. CASE MoveToInProgress
  BY <1>19 DEF MoveToInProgress, Answered, Refused, Fault
<1>20. CASE PostUpdate
  BY <1>20 DEF PostUpdate, Answered, Refused, Fault
<1>21. CASE Verify
  BY <1>21 DEF Verify
<1>22. CASE PostComment
  BY <1>22 DEF PostComment, Answered, Refused, Fault
<1>23. CASE Escalate
  BY <1>23 DEF Escalate, Answered, Refused, Fault
<1>24. CASE ConfirmEscalated
  BY <1>24 DEF ConfirmEscalated
<1>25. CASE ReadFails
  BY <1>25 DEF ReadFails, Reading, Refused, Fault
<1>26. CASE WriteReceipt
  BY <1>26 DEF WriteReceipt
<1>27. CASE CompleteWake
  BY <1>27 DEF CompleteWake, Ended, EndStatus, Rest, NoRun, NotSeen
<1>28. CASE ClearIntent
  BY <1>28 DEF ClearIntent, Fault, Rest, NoRun, NotSeen
<1>29. CASE FlagCleared
  BY <1>29 DEF FlagCleared, Rest, NoRun, NotSeen
<1>30. CASE Suppress
  BY <1>30 DEF Suppress, Fault, Rest, NoRun, NotSeen
<1>31. CASE FailRun
  BY <1>31 DEF FailRun, Rest, NoRun, NotSeen
<1>32. CASE ReplayVerified
  BY <1>32 DEF ReplayVerified, Rest, NoRun, NotSeen
<1>33. CASE ReplayDegraded
  BY <1>33 DEF ReplayDegraded, Fault, Rest, NoRun, NotSeen
<1>34. CASE Start
  BY <1>34 DEF Start
<1>35. ASSUME NEW r \in Runs, RecoverNothing(r) PROVE InStep'
  BY <1>35 DEF RecoverNothing, Recovering, Earliest, NextWake
<1>36. ASSUME NEW r \in Runs, RecoverIntentOnly(r) PROVE InStep'
  BY <1>36 DEF RecoverIntentOnly, Recovering, Earliest, NextWake
<1>37. ASSUME NEW r \in Runs, RecoverTerminal(r) PROVE InStep'
  BY <1>37 DEF RecoverTerminal, Recovering, Earliest, SameWake
<1>38. ASSUME NEW r \in Runs, RecoverClear(r) PROVE InStep'
  <2>1. CASE UNCHANGED wake
    BY <1>38, <2>1 DEF RecoverClear, Recovering, SameWake, NextWake, Fault, Earliest
  <2>2. CASE wake' = [wake EXCEPT ![r].clearPending = TRUE] /\ UNCHANGED intents /\ NextWake(r)
    <3>1. \A s \in Runs : /\ wake'[s].status = wake[s].status
                         /\ wake'[s].started = wake[s].started
                         /\ wake'[s].reconciled = wake[s].reconciled
      BY <2>2
    <3> QED
      BY <1>38, <2>2, <3>1 DEF RecoverClear, Recovering, NextWake, Earliest
  <2> QED
    BY <1>38, <2>1, <2>2 DEF RecoverClear
<1>39. ASSUME NEW r \in Runs, RecoverFlag(r) PROVE InStep'
  BY <1>39 DEF RecoverFlag, Recovering, Earliest, NextWake
<1>40. CASE Recovered
  BY <1>40 DEF Recovered
<1>41. CASE Drain
  BY <1>41 DEF Drain, Earliest, Replay
<1>42. CASE Crash \/ HumanMoves \/ HumanEdits \/ UNCHANGED vars
  BY <1>42 DEF Crash, Rest, NoRun, NotSeen, HumanMoves, HumanEdits, vars
<1> QED
  BY <1>1, <1>2, <1>3, <1>4, <1>5, <1>6, <1>7, <1>8, <1>9, <1>10, <1>11, <1>12, <1>13,
     <1>14, <1>15, <1>16, <1>17, <1>18, <1>19, <1>20, <1>21, <1>22, <1>23, <1>24, <1>25,
     <1>26, <1>27, <1>28, <1>29, <1>30, <1>31, <1>32, <1>33, <1>34, <1>35, <1>36, <1>37,
     <1>38, <1>39, <1>40, <1>41, <1>42 DEF Next, Gateway, Polling, Running, Applying, Ending, Recovery

\* Nothing in the model takes an applied commit out of Linear again.
LEMMA AppliedStays == TypeOK /\ Placed /\ [Next]_vars => \A r \in Runs : Applied(r) => Applied(r)'
<1> SUFFICES ASSUME TypeOK, Placed, [Next]_vars, NEW r \in Runs, Applied(r) PROVE Applied(r)'
  OBVIOUS
<1> USE DEF TypeOK, LinearOK, DiskOK, WorkOK, Applied, linear
<1>1. CASE UNCHANGED linear
  BY <1>1 DEF Present
<1>2. CASE UpdateBody \/ MoveToInProgress \/ PostComment \/ Escalate \/ HumanMoves \/ HumanEdits
  BY <1>2 DEF UpdateBody, MoveToInProgress, PostComment, Escalate, HumanMoves, HumanEdits, Present
<1>3. ASSUME NEW i \in Issues, FileIssue(i) PROVE Applied(r)'
  <2>1. \A j \in Issues : issues[j] > 0 => issues'[j] > 0
    BY <1>3 DEF FileIssue
  <2> QED
    BY <1>3, <2>1 DEF FileIssue, Present
<1>4. ASSUME NEW d \in Deps, Relate(d) PROVE Applied(r)'
  BY <1>4 DEF Relate, Present
<1>5. CASE PostUpdate
  <2>1. updates'[r] > 0
    BY <1>5 DEF PostUpdate
  <2> QED
    BY <1>5, <2>1 DEF PostUpdate, Present
<1> QED
  BY <1>1, <1>2, <1>3, <1>4, <1>5, LinearFrame

\* What the read-back checks includes what a receipt stands for.
LEMMA EffectsApplied == \A r \in Runs : EffectsHold(r) => Applied(r)
  BY DEF EffectsHold, Applied

\* Receipts are written for applied commits only, before the wake completes.
LEMMA ReceiptedStep == TypeOK /\ Placed /\ Intended /\ Queued /\ Marked /\ Untouched /\ InStep /\ Receipted /\ [Next]_vars => Receipted'
<1> SUFFICES ASSUME TypeOK, Placed, Intended, Queued, Marked, Untouched, InStep, Receipted, [Next]_vars PROVE Receipted'
  OBVIOUS
<1> USE AppliedStays, EffectsApplied DEF TypeOK, LinearOK, DiskOK, WorkOK, linear, disk,
         work, bounds, Placed, Claimed, Committing, Pausing, Busy, Intended, InStep,
         Receipted, Early, Changing, Outcomes
<1>1. CASE ListPlanned
  BY <1>1 DEF ListPlanned
<1>2. CASE DecideReplay
  BY <1>2 DEF DecideReplay, Earliest, Replay
<1>3. CASE DecideSuppress
  BY <1>3 DEF DecideSuppress
<1>4. CASE DecideFresh
  BY <1>4 DEF DecideFresh, NewWake
<1>5. CASE DecideNothing
  BY <1>5 DEF DecideNothing
<1>6. CASE MarkRunning
  BY <1>6 DEF MarkRunning
<1>7. CASE CheckEligible
  BY <1>7 DEF CheckEligible
<1>8. CASE Think
  BY <1>8 DEF Think
<1>9. CASE FreezeArtifact
  BY <1>9 DEF FreezeArtifact
<1>10. CASE ApplyGate
  BY <1>10 DEF ApplyGate
<1>11. CASE Probe
  <2>1. mode = "fresh" => ~EffectsHold(run)
    BY <1>11 DEF Probe, Untouched, EffectsHold
  <2>2. pc' \notin {"receipt", "terminal"}
    BY <1>11, <2>1 DEF Probe
  <2> QED
    BY <1>11, <2>2 DEF Probe
<1>12. CASE WriteIntent
  BY <1>12 DEF WriteIntent
<1>13. CASE MarkMutationStarted
  BY <1>13 DEF MarkMutationStarted, StartOf
<1>14. CASE UpdateBody
  BY <1>14 DEF UpdateBody, Answered, Refused, Fault
<1>15. ASSUME NEW i \in Issues, FileIssue(i) PROVE Receipted'
  BY <1>15 DEF FileIssue, Answered, Refused, Fault
<1>16. CASE AllFiled
  BY <1>16 DEF AllFiled
<1>17. ASSUME NEW d \in Deps, Relate(d) PROVE Receipted'
  BY <1>17 DEF Relate, Answered, Refused, Fault
<1>18. CASE AllRelated
  BY <1>18 DEF AllRelated
<1>19. CASE MoveToInProgress
  BY <1>19 DEF MoveToInProgress, Answered, Refused, Fault
<1>20. CASE PostUpdate
  BY <1>20 DEF PostUpdate, Answered, Refused, Fault
<1>21. CASE Verify
  <2>1. pc' = "receipt" => Applied(run)
    BY <1>21 DEF Verify
  <2>2. wake[run].started
    BY <1>21 DEF Verify, Marked
  <2>3. pc' = "receipt" => Applied(run)' /\ wake'[run'].started
    BY <1>21, <2>1, <2>2 DEF Verify
  <2> QED
    BY <1>21, <2>3 DEF Verify
<1>22. CASE PostComment
  BY <1>22 DEF PostComment, Answered, Refused, Fault
<1>23. CASE Escalate
  BY <1>23 DEF Escalate, Answered, Refused, Fault
<1>24. CASE ConfirmEscalated
  BY <1>24 DEF ConfirmEscalated
<1>25. CASE ReadFails
  BY <1>25 DEF ReadFails, Reading, Refused, Fault
<1>26. CASE WriteReceipt
  BY <1>26 DEF WriteReceipt
<1>27. CASE CompleteWake
  BY <1>27 DEF CompleteWake, Ended, EndStatus, Rest, NoRun, NotSeen
<1>28. CASE ClearIntent
  BY <1>28 DEF ClearIntent, Fault, Rest, NoRun, NotSeen
<1>29. CASE FlagCleared
  BY <1>29 DEF FlagCleared, Rest, NoRun, NotSeen
<1>30. CASE Suppress
  BY <1>30 DEF Suppress, Fault, Rest, NoRun, NotSeen
<1>31. CASE FailRun
  BY <1>31 DEF FailRun, Rest, NoRun, NotSeen
<1>32. CASE ReplayVerified
  BY <1>32 DEF ReplayVerified, Rest, NoRun, NotSeen
<1>33. CASE ReplayDegraded
  BY <1>33 DEF ReplayDegraded, Fault, Rest, NoRun, NotSeen
<1>34. CASE Start
  BY <1>34 DEF Start
<1>35. ASSUME NEW r \in Runs, RecoverNothing(r) PROVE Receipted'
  BY <1>35 DEF RecoverNothing, Recovering, Earliest, NextWake
<1>36. ASSUME NEW r \in Runs, RecoverIntentOnly(r) PROVE Receipted'
  BY <1>36 DEF RecoverIntentOnly, Recovering, Earliest, NextWake
<1>37. ASSUME NEW r \in Runs, RecoverTerminal(r) PROVE Receipted'
  BY <1>37 DEF RecoverTerminal, Recovering, Earliest, SameWake
<1>38. ASSUME NEW r \in Runs, RecoverClear(r) PROVE Receipted'
  <2>1. CASE UNCHANGED wake
    BY <1>38, <2>1 DEF RecoverClear, Recovering, SameWake, NextWake, Fault, Earliest
  <2>2. CASE wake' = [wake EXCEPT ![r].clearPending = TRUE] /\ UNCHANGED intents /\ NextWake(r)
    <3>1. \A s \in Runs : /\ wake'[s].status = wake[s].status
                         /\ wake'[s].started = wake[s].started
                         /\ wake'[s].reconciled = wake[s].reconciled
      BY <2>2
    <3> QED
      BY <1>38, <2>2, <3>1 DEF RecoverClear, Recovering, NextWake, Earliest
  <2> QED
    BY <1>38, <2>1, <2>2 DEF RecoverClear
<1>39. ASSUME NEW r \in Runs, RecoverFlag(r) PROVE Receipted'
  BY <1>39 DEF RecoverFlag, Recovering, Earliest, NextWake
<1>40. CASE Recovered
  BY <1>40 DEF Recovered
<1>41. CASE Drain
  BY <1>41 DEF Drain, Earliest, Replay
<1>42. CASE Crash \/ HumanMoves \/ HumanEdits \/ UNCHANGED vars
  BY <1>42 DEF Crash, Rest, NoRun, NotSeen, HumanMoves, HumanEdits, vars
<1> QED
  BY <1>1, <1>2, <1>3, <1>4, <1>5, <1>6, <1>7, <1>8, <1>9, <1>10, <1>11, <1>12, <1>13,
     <1>14, <1>15, <1>16, <1>17, <1>18, <1>19, <1>20, <1>21, <1>22, <1>23, <1>24, <1>25,
     <1>26, <1>27, <1>28, <1>29, <1>30, <1>31, <1>32, <1>33, <1>34, <1>35, <1>36, <1>37,
     <1>38, <1>39, <1>40, <1>41, <1>42 DEF Next, Gateway, Polling, Running, Applying, Ending, Recovery

\* Nothing takes the issues of a project away.
LEMMA PresentStays == TypeOK /\ Placed /\ [Next]_vars => Present \subseteq Present'
<1> SUFFICES ASSUME TypeOK, Placed, [Next]_vars PROVE Present \subseteq Present'
  OBVIOUS
<1> USE DEF TypeOK, LinearOK, DiskOK, WorkOK, linear
<1>1. CASE UNCHANGED linear
  BY <1>1 DEF Present
<1>2. CASE UpdateBody \/ MoveToInProgress \/ PostComment \/ PostUpdate \/ Escalate \/ HumanMoves \/ HumanEdits
  BY <1>2 DEF UpdateBody, MoveToInProgress, PostComment, PostUpdate, Escalate, HumanMoves, HumanEdits, Present
<1>3. ASSUME NEW i \in Issues, FileIssue(i) PROVE Present \subseteq Present'
  <2>1. \A j \in Issues : issues[j] > 0 => issues'[j] > 0
    BY <1>3 DEF FileIssue
  <2> QED
    BY <2>1 DEF Present
<1>4. ASSUME NEW d \in Deps, Relate(d) PROVE Present \subseteq Present'
  BY <1>4 DEF Relate, Present
<1> QED
  BY <1>1, <1>2, <1>3, <1>4, LinearFrame

\* The issues of a project appear one request at a time.
LEMMA PresentFrame == [Next]_vars => UNCHANGED Present \/ \E i \in Issues : FileIssue(i)
<1> SUFFICES ASSUME [Next]_vars PROVE UNCHANGED Present \/ \E i \in Issues : FileIssue(i)
  OBVIOUS
<1>1. CASE UNCHANGED linear
  BY <1>1 DEF Present, linear
<1>2. CASE UpdateBody \/ MoveToInProgress \/ PostComment \/ PostUpdate \/ Escalate \/ HumanMoves \/ HumanEdits
  BY <1>2 DEF UpdateBody, MoveToInProgress, PostComment, PostUpdate, Escalate, HumanMoves, HumanEdits, Present
<1>3. CASE \E d \in Deps : Relate(d)
  BY <1>3 DEF Relate, Present
<1> QED
  BY <1>1, <1>2, <1>3, LinearFrame

\* A second run does not get as far as its intent: before its commit it sees
\* the first one's intent, or else the issues the first one left.
LEMMA SingleStep == TypeOK /\ Placed /\ Intended /\ Queued /\ Marked /\ Untouched /\ InStep /\ Receipted /\ Single /\ [Next]_vars => Single'
<1> SUFFICES ASSUME TypeOK, Placed, Intended, Queued, Marked, Untouched, InStep, Receipted, Single, [Next]_vars PROVE Single'
  OBVIOUS
<1>0. UNCHANGED Present \/ pc = "issues"
  BY PresentFrame DEF FileIssue
<1> USE <1>0 DEF TypeOK, DiskOK, WorkOK, linear, disk,
         work, bounds, Placed, Claimed, Committing, Pausing, Busy, Intended, InStep,
         Early, Changing, Outcomes, Single, Unannounced, Decomposers
<1>1. CASE ListPlanned
  BY <1>1 DEF ListPlanned
<1>2. CASE DecideReplay
  BY <1>2 DEF DecideReplay, Earliest, Replay
<1>3. CASE DecideSuppress
  BY <1>3 DEF DecideSuppress
<1>4. CASE DecideFresh
  BY <1>4 DEF DecideFresh, NewWake
<1>5. CASE DecideNothing
  BY <1>5 DEF DecideNothing
<1>6. CASE MarkRunning
  BY <1>6 DEF MarkRunning
<1>7. CASE CheckEligible
  BY <1>7 DEF CheckEligible, Eligible
<1>8. CASE Think
  BY <1>8 DEF Think
<1>9. CASE FreezeArtifact
  BY <1>9 DEF FreezeArtifact
<1>10. CASE ApplyGate
  BY <1>10 DEF ApplyGate
<1>11. CASE Probe
  <2>1. EffectsHold(run) => Present # {}
    BY IssuesAssumption DEF EffectsHold
  <2>2. mode = "fresh" => ~EffectsHold(run)
    BY <1>11, <2>1 DEF Probe
  <2>3. UNCHANGED <<disk, run, mode, Present>> /\ pc' \in {"replayed", "intent", "body"}
    BY <1>11, <2>2 DEF Probe
  <2>4. /\ pc' = "replayed" => Present # {}
        /\ pc' = "intent" => mode = "fresh"
    BY <1>11, <2>1, <2>2 DEF Probe
  <2> QED
    BY <1>11, <2>3, <2>4 DEF Probe
<1>12. CASE WriteIntent
  BY <1>12 DEF WriteIntent
<1>13. CASE MarkMutationStarted
  BY <1>13 DEF MarkMutationStarted, StartOf
<1>14. CASE UpdateBody
  BY <1>14 DEF UpdateBody, Answered, Refused, Fault
<1>15. ASSUME NEW i \in Issues, FileIssue(i) PROVE Single'
  BY <1>15 DEF FileIssue, Answered, Refused, Fault
<1>16. CASE AllFiled
  BY <1>16 DEF AllFiled
<1>17. ASSUME NEW d \in Deps, Relate(d) PROVE Single'
  BY <1>17 DEF Relate, Answered, Refused, Fault
<1>18. CASE AllRelated
  BY <1>18 DEF AllRelated
<1>19. CASE MoveToInProgress
  BY <1>19 DEF MoveToInProgress, Answered, Refused, Fault
<1>20. CASE PostUpdate
  BY <1>20 DEF PostUpdate, Answered, Refused, Fault
<1>21. CASE Verify
  <2>1. pc' = "replayed" => Present # {}
    BY <1>21, IssuesAssumption DEF Verify, EffectsHold
  <2>2. UNCHANGED <<disk, run, mode, Present>> /\ pc' \in {"failed", "receipt", "replayed"}
    BY <1>21 DEF Verify
  <2> QED
    BY <2>1, <2>2
<1>22. CASE PostComment
  BY <1>22 DEF PostComment, Answered, Refused, Fault
<1>23. CASE Escalate
  BY <1>23 DEF Escalate, Answered, Refused, Fault
<1>24. CASE ConfirmEscalated
  BY <1>24 DEF ConfirmEscalated
<1>25. CASE ReadFails
  BY <1>25 DEF ReadFails, Reading, Refused, Fault
<1>26. CASE WriteReceipt
  BY <1>26 DEF WriteReceipt
<1>27. CASE CompleteWake
  BY <1>27 DEF CompleteWake, Ended, EndStatus, Rest, NoRun, NotSeen
<1>28. CASE ClearIntent
  <2>1. Present # {}
    BY <1>28, IssuesAssumption DEF ClearIntent, Receipted, Applied
  <2>2. UNCHANGED <<wake, artifact, Present>> /\ intents' \subseteq intents /\ pc' \in {"flag", "idle"}
    BY <1>28 DEF ClearIntent
  <2> QED
    BY <2>1, <2>2
<1>29. CASE FlagCleared
  BY <1>29 DEF FlagCleared, Rest, NoRun, NotSeen
<1>30. CASE Suppress
  BY <1>30 DEF Suppress, Fault, Rest, NoRun, NotSeen
<1>31. CASE FailRun
  BY <1>31 DEF FailRun, Rest, NoRun, NotSeen
<1>32. CASE ReplayVerified
  BY <1>32 DEF ReplayVerified, Rest, NoRun, NotSeen
<1>33. CASE ReplayDegraded
  BY <1>33 DEF ReplayDegraded, Fault, Rest, NoRun, NotSeen
<1>34. CASE Start
  BY <1>34 DEF Start
<1>35. ASSUME NEW r \in Runs, RecoverNothing(r) PROVE Single'
  BY <1>35 DEF RecoverNothing, Recovering, Earliest, NextWake
<1>36. ASSUME NEW r \in Runs, RecoverIntentOnly(r) PROVE Single'
  BY <1>36 DEF RecoverIntentOnly, Recovering, Earliest, NextWake
<1>37. ASSUME NEW r \in Runs, RecoverTerminal(r) PROVE Single'
  <2>1. artifact[r] = "commit" /\ wake[r].started
    BY <1>37 DEF RecoverTerminal, Receipted
  <2>2. \A s \in Runs : wake'[s].started = wake[s].started
    BY <1>37, <2>1 DEF RecoverTerminal
  <2>3. UNCHANGED <<artifact, intents, Present, pc>> /\ pc = "recover"
    BY <1>37 DEF RecoverTerminal, Recovering, SameWake
  <2> QED
    BY <2>2, <2>3
<1>38. ASSUME NEW r \in Runs, RecoverClear(r) PROVE Single'
  <2>1. Present # {}
    BY <1>38, IssuesAssumption DEF RecoverClear, Receipted, Applied
  <2>2. \A s \in Runs : wake'[s].started = wake[s].started
    <3>1. wake' = wake \/ wake' = [wake EXCEPT ![r].clearPending = TRUE]
      BY <1>38 DEF RecoverClear
    <3>2. CASE wake' = [wake EXCEPT ![r].clearPending = TRUE]
      BY <3>2
    <3> QED
      BY <3>1, <3>2
  <2>3. UNCHANGED <<artifact, Present, pc>> /\ pc = "recover" /\ intents' \subseteq intents
    BY <1>38 DEF RecoverClear, Recovering, SameWake, NextWake
  <2> QED
    BY <2>1, <2>2, <2>3
<1>39. ASSUME NEW r \in Runs, RecoverFlag(r) PROVE Single'
  BY <1>39 DEF RecoverFlag, Recovering, Earliest, NextWake
<1>40. CASE Recovered
  BY <1>40 DEF Recovered
<1>41. CASE Drain
  BY <1>41 DEF Drain, Earliest, Replay
<1>42. CASE Crash \/ HumanMoves \/ HumanEdits \/ UNCHANGED vars
  BY <1>42 DEF Crash, Rest, NoRun, NotSeen, HumanMoves, HumanEdits, vars
<1> QED
  BY <1>1, <1>2, <1>3, <1>4, <1>5, <1>6, <1>7, <1>8, <1>9, <1>10, <1>11, <1>12, <1>13,
     <1>14, <1>15, <1>16, <1>17, <1>18, <1>19, <1>20, <1>21, <1>22, <1>23, <1>24, <1>25,
     <1>26, <1>27, <1>28, <1>29, <1>30, <1>31, <1>32, <1>33, <1>34, <1>35, <1>36, <1>37,
     <1>38, <1>39, <1>40, <1>41, <1>42 DEF Next, Gateway, Polling, Running, Applying, Ending, Recovery

\* The relations of a project appear one request at a time.
LEMMA RelationsFrame == [Next]_vars => UNCHANGED relations \/ \E d \in Deps : Relate(d)
<1> SUFFICES ASSUME [Next]_vars PROVE UNCHANGED relations \/ \E d \in Deps : Relate(d)
  OBVIOUS
<1>1. CASE UNCHANGED linear
  BY <1>1 DEF linear
<1>2. CASE UpdateBody \/ MoveToInProgress \/ PostComment \/ PostUpdate \/ Escalate \/ HumanMoves \/ HumanEdits
  BY <1>2 DEF UpdateBody, MoveToInProgress, PostComment, PostUpdate, Escalate, HumanMoves, HumanEdits
<1>3. CASE \E i \in Issues : FileIssue(i)
  BY <1>3 DEF FileIssue
<1> QED
  BY <1>1, <1>2, <1>3, LinearFrame

\* Relations come after every issue, the update after every relation, and
\* what ends a commit after everything else.
LEMMA OrderedStep == TypeOK /\ Placed /\ Intended /\ Untouched /\ InStep /\ Single /\ Ordered /\ [Next]_vars => Ordered'
<1> SUFFICES ASSUME TypeOK, Placed, Intended, Untouched, InStep, Single, Ordered, [Next]_vars PROVE Ordered'
  OBVIOUS
<1>a. UNCHANGED relations \/ pc = "relations"
  BY RelationsFrame DEF Relate
<1>b. Present \subseteq Present' /\ Present \subseteq Issues /\ Present' \subseteq Issues
  BY PresentStays DEF Present
<1>c. \A i \in Issues : (i \in Present <=> issues[i] > 0) /\ (i \in Present' <=> issues'[i] > 0)
  BY DEF Present
<1>d. \A r \in Runs : Applied(r) => Applied(r)'
  BY AppliedStays
<1> USE <1>a, <1>b, <1>c, <1>d, EffectsApplied DEF TypeOK, DiskOK, WorkOK, linear, disk,
         work, bounds, Placed, Claimed, Committing, Pausing, Busy, Intended,
         Changing, Outcomes, Ordered
<1>1. CASE ListPlanned
  BY <1>1 DEF ListPlanned
<1>2. CASE DecideReplay
  BY <1>2 DEF DecideReplay, Earliest, Replay
<1>3. CASE DecideSuppress
  BY <1>3 DEF DecideSuppress
<1>4. CASE DecideFresh
  BY <1>4 DEF DecideFresh, NewWake
<1>5. CASE DecideNothing
  BY <1>5 DEF DecideNothing
<1>6. CASE MarkRunning
  BY <1>6 DEF MarkRunning
<1>7. CASE CheckEligible
  BY <1>7 DEF CheckEligible
<1>8. CASE Think
  BY <1>8 DEF Think
<1>9. CASE FreezeArtifact
  BY <1>9 DEF FreezeArtifact
<1>10. CASE ApplyGate
  BY <1>10 DEF ApplyGate
<1>11. CASE Probe
  <2>1. EffectsHold(run) => Applied(run) /\ Present # {}
    BY <1>11, IssuesAssumption DEF EffectsHold, Applied
  <2>2. mode = "fresh" => ~EffectsHold(run)
    BY <1>11, <2>1 DEF Probe, Single, Unannounced
  <2>3. UNCHANGED <<disk, linear, run, mode, filed>> /\ pc' \in {"replayed", "intent", "body"}
    BY <1>11, <2>2 DEF Probe
  <2>4. pc' = "replayed" => Applied(run)
    BY <1>11, <2>1 DEF Probe
  <2> QED
    BY <1>11, <2>3, <2>4 DEF Applied, Present
<1>12. CASE WriteIntent
  BY <1>12 DEF WriteIntent
<1>13. CASE MarkMutationStarted
  BY <1>13 DEF MarkMutationStarted, StartOf
<1>14. CASE UpdateBody
  BY <1>14 DEF UpdateBody, Answered, Refused, Fault
<1>15. ASSUME NEW i \in Issues, FileIssue(i) PROVE Ordered'
  <2>1. UNCHANGED <<relations, disk, run>> /\ pc' \in {"issues", "failed"} /\ pc = "issues"
    BY <1>15 DEF FileIssue, Answered, Refused
  <2>2. \A j \in filed' \cap Issues : issues'[j] > 0
    <3>1. \/ filed' = filed /\ issues' = issues
          \/ filed' = filed \cup {i} /\ issues'[i] > 0 /\ \A j \in Issues : issues[j] > 0 => issues'[j] > 0
      BY <1>15 DEF FileIssue, LinearOK
    <3> QED
      BY <3>1
  <2>3. filed' \cap Deps \subseteq relations
    BY <1>15, KeysAssumption DEF FileIssue
  <2> QED
    BY <2>1, <2>2, <2>3
<1>16. CASE AllFiled
  <2>1. Present = Issues
    BY <1>16 DEF AllFiled
  <2> QED
    BY <1>16, <2>1 DEF AllFiled
<1>17. ASSUME NEW d \in Deps, Relate(d) PROVE Ordered'
  <2>1. UNCHANGED <<issues, disk, run>> /\ pc' \in {"relations", "failed"} /\ pc = "relations"
    BY <1>17 DEF Relate, Answered, Refused
  <2>2. filed' \cap Issues \subseteq filed /\ filed' \cap Deps \subseteq relations'
    BY <1>17, KeysAssumption DEF Relate
  <2>3. Present' = Issues
    BY <2>1
  <2> QED
    BY <2>1, <2>2, <2>3
<1>18. CASE AllRelated
  <2>1. relations = Deps
    BY <1>18 DEF AllRelated, LinearOK
  <2> QED
    BY <1>18, <2>1 DEF AllRelated
<1>19. CASE MoveToInProgress
  BY <1>19 DEF MoveToInProgress, Answered, Refused, Fault
<1>20. CASE PostUpdate
  BY <1>20 DEF PostUpdate, Answered, Refused, Fault
<1>21. CASE Verify
  <2>1. pc' = "replayed" => Applied(run)
    BY <1>21 DEF Verify
  <2>2. UNCHANGED <<disk, linear, run, mode, filed>> /\ pc' \in {"failed", "receipt", "replayed"}
    BY <1>21 DEF Verify
  <2> QED
    BY <1>21, <2>1, <2>2 DEF Verify
<1>22. CASE PostComment
  BY <1>22 DEF PostComment, Answered, Refused, Fault
<1>23. CASE Escalate
  BY <1>23 DEF Escalate, Answered, Refused, Fault
<1>24. CASE ConfirmEscalated
  BY <1>24 DEF ConfirmEscalated
<1>25. CASE ReadFails
  BY <1>25 DEF ReadFails, Reading, Refused, Fault
<1>26. CASE WriteReceipt
  BY <1>26 DEF WriteReceipt
<1>27. CASE CompleteWake
  BY <1>27 DEF CompleteWake, Ended, EndStatus, Rest, NoRun, NotSeen
<1>28. CASE ClearIntent
  BY <1>28 DEF ClearIntent, Fault, Rest, NoRun, NotSeen
<1>29. CASE FlagCleared
  BY <1>29 DEF FlagCleared, Rest, NoRun, NotSeen
<1>30. CASE Suppress
  BY <1>30 DEF Suppress, Fault, Rest, NoRun, NotSeen
<1>31. CASE FailRun
  BY <1>31 DEF FailRun, Rest, NoRun, NotSeen
<1>32. CASE ReplayVerified
  BY <1>32 DEF ReplayVerified, Rest, NoRun, NotSeen
<1>33. CASE ReplayDegraded
  BY <1>33 DEF ReplayDegraded, Fault, Rest, NoRun, NotSeen
<1>34. CASE Start
  BY <1>34 DEF Start
<1>35. ASSUME NEW r \in Runs, RecoverNothing(r) PROVE Ordered'
  BY <1>35 DEF RecoverNothing, Recovering, Earliest, NextWake
<1>36. ASSUME NEW r \in Runs, RecoverIntentOnly(r) PROVE Ordered'
  BY <1>36 DEF RecoverIntentOnly, Recovering, Earliest, NextWake
<1>37. ASSUME NEW r \in Runs, RecoverTerminal(r) PROVE Ordered'
  BY <1>37 DEF RecoverTerminal, Recovering, Earliest, SameWake
<1>38. ASSUME NEW r \in Runs, RecoverClear(r) PROVE Ordered'
  BY <1>38 DEF RecoverClear, Recovering, SameWake, NextWake, Fault, Earliest
<1>39. ASSUME NEW r \in Runs, RecoverFlag(r) PROVE Ordered'
  BY <1>39 DEF RecoverFlag, Recovering, Earliest, NextWake
<1>40. CASE Recovered
  BY <1>40 DEF Recovered
<1>41. CASE Drain
  BY <1>41 DEF Drain, Earliest, Replay
<1>42. CASE Crash \/ HumanMoves \/ HumanEdits \/ UNCHANGED vars
  BY <1>42 DEF Crash, Rest, NoRun, NotSeen, HumanMoves, HumanEdits, vars
<1> QED
  BY <1>1, <1>2, <1>3, <1>4, <1>5, <1>6, <1>7, <1>8, <1>9, <1>10, <1>11, <1>12, <1>13,
     <1>14, <1>15, <1>16, <1>17, <1>18, <1>19, <1>20, <1>21, <1>22, <1>23, <1>24, <1>25,
     <1>26, <1>27, <1>28, <1>29, <1>30, <1>31, <1>32, <1>33, <1>34, <1>35, <1>36, <1>37,
     <1>38, <1>39, <1>40, <1>41, <1>42 DEF Next, Gateway, Polling, Running, Applying, Ending, Recovery

\* Each request looks up its key or run id before it creates anything.
LEMMA NothingTwiceStep == TypeOK /\ Placed /\ NothingTwice /\ [Next]_vars => NothingTwice'
<1> SUFFICES ASSUME TypeOK, Placed, NothingTwice, [Next]_vars PROVE NothingTwice'
  OBVIOUS
<1> USE DEF TypeOK, LinearOK, DiskOK, WorkOK, linear, disk, work, bounds, Placed, Claimed,
         Committing, Pausing, Busy, NothingTwice, Changing
<1>1. CASE Polling
  BY <1>1 DEF Polling, ListPlanned, DecideReplay, Earliest, Replay, DecideSuppress,
         DecideFresh, NewWake, DecideNothing
<1>2. CASE Running
  BY <1>2 DEF Running, MarkRunning, CheckEligible, Think, Outcomes, FreezeArtifact,
         ApplyGate
<1>3. CASE Applying
  BY <1>3 DEF Applying, Probe, WriteIntent, MarkMutationStarted, StartOf, UpdateBody,
         Answered, Refused, Fault, FileIssue, AllFiled, Relate, AllRelated,
         MoveToInProgress, PostUpdate, Verify, PostComment, Escalate, ConfirmEscalated
<1>4. CASE Ending
  BY <1>4 DEF Ending, ReadFails, Reading, Refused, Fault, WriteReceipt, CompleteWake, Ended,
         EndStatus, Rest, NoRun, NotSeen, ClearIntent, FlagCleared, Suppress, FailRun,
         ReplayVerified, ReplayDegraded
<1>5. CASE Recovery
  BY <1>5 DEF Recovery, Start, RecoverNothing, Recovering, Earliest, NextWake,
         RecoverIntentOnly, RecoverTerminal, SameWake, RecoverClear, Fault, RecoverFlag,
         Recovered, Drain, Replay
<1>6. CASE Crash \/ HumanMoves \/ HumanEdits \/ UNCHANGED vars
  BY <1>6 DEF Crash, Rest, NoRun, NotSeen, HumanMoves, HumanEdits, vars
<1> QED
  BY <1>1, <1>2, <1>3, <1>4, <1>5, <1>6 DEF Next, Gateway

-----------------------------------------------------------------------------
\* The invariant holds when nothing has run.
LEMMA InitHolds == Init => IInv
<1> SUFFICES ASSUME Init PROVE IInv
  OBVIOUS
<1> USE DEF Init
<1>1. LinearOK
  BY BoundsAssumption DEF LinearOK, ProjectStatuses, Contents
<1>2. DiskOK
  <2>1. NoWake \in Wakes
    BY DEF NoWake, NewWake, Wakes, WakeStatuses
  <2> QED
    BY <2>1 DEF DiskOK
<1>3. WorkOK /\ BoundsOK
  BY BoundsAssumption DEF WorkOK, BoundsOK, Points
<1>4. Placed /\ Intended /\ Queued /\ Marked
  BY DEF Placed, Intended, Queued, Marked, Claimed, Committing, Pausing, Busy, Changing
<1>5. Untouched /\ NothingTwice
  BY DEF Untouched, NothingTwice
<1>6. InStep /\ Receipted
  BY DEF InStep, Receipted, NoWake, NewWake, Early, Committing, Pausing
<1>7. Single
  BY DEF Single, Decomposers, Unannounced, NoWake, NewWake
<1>8. Ordered
  BY DEF Ordered
<1> QED
  BY <1>1, <1>2, <1>3, <1>4, <1>5, <1>6, <1>7, <1>8 DEF IInv, TypeOK

\* Every step keeps the invariant.
LEMMA StepHolds == IInv /\ [Next]_vars => IInv'
<1> SUFFICES ASSUME IInv, [Next]_vars PROVE IInv'
  OBVIOUS
<1>1. TypeOK'
  BY LinearStep, DiskStep, WorkStep, BoundsStep DEF IInv, TypeOK
<1>2. Placed' /\ Intended' /\ Queued' /\ Marked'
  BY PlacedStep, IntendedStep, QueuedStep, MarkedStep DEF IInv
<1>3. Untouched' /\ InStep' /\ Receipted' /\ NothingTwice'
  BY UntouchedStep, InStepHolds, ReceiptedStep, NothingTwiceStep DEF IInv
<1>4. Single'
  BY SingleStep DEF IInv
<1>5. Ordered'
  BY OrderedStep DEF IInv
<1> QED
  BY <1>1, <1>2, <1>3, <1>4, <1>5 DEF IInv

\* The invariant holds throughout.
THEOREM Invariant == Spec => []IInv
  BY InitHolds, StepHolds, PTL DEF Spec

\* Every file and every variable of the process keeps its shape.
THEOREM TypeCorrect == Spec => []TypeOK
<1>1. IInv => TypeOK
  BY DEF IInv
<1> QED
  BY Invariant, <1>1, PTL

\* The drain never meets an intent whose artifact is not on disk.
THEOREM Replayable == Spec => []IntentHasArtifact
<1>1. IInv => IntentHasArtifact
  BY DEF IInv, Intended, IntentHasArtifact
<1> QED
  BY Invariant, <1>1, PTL

\* However often a commit or a pause is repeated, an issue key is filed once and
\* a run posts one update and one comment.
THEOREM NeverTwice == Spec => []NothingTwice
<1>1. IInv => NothingTwice
  BY DEF IInv
<1> QED
  BY Invariant, <1>1, PTL

\* However many runs start, crash and are replayed, one at most decomposes the
\* project: pending intents come first, and then prior_execution_issues.
THEOREM OneDecomposes == Spec => []OneDecomposition
<1>1. IInv => OneDecomposition
  <2> SUFFICES ASSUME IInv PROVE OneDecomposition
    OBVIOUS
  <2> DEFINE S == {r \in Runs : artifact[r] = "commit" /\ wake[r].started}
  <2>1. \A r, s \in S : r = s
    BY DEF IInv, Single, Decomposers
  <2>2. CASE S = {}
    BY <2>2, FS_EmptySet DEF OneDecomposition
  <2>3. CASE S # {}
    <3>1. PICK r \in S : TRUE
      BY <2>3
    <3>2. S = {r}
      BY <2>1, <3>1
    <3>3. Cardinality(S) = 1
      BY <3>2, FS_Singleton
    <3> QED
      BY <3>3 DEF OneDecomposition
  <2> QED
    BY <2>2, <2>3
<1> QED
  BY Invariant, <1>1, PTL

\* A reconciliation receipt stands for changes that are in Linear.
THEOREM ReceiptsAreTrue == Spec => []ReceiptIsTrue
<1>1. IInv => ReceiptIsTrue
  BY DEF IInv, Receipted, Applied, ReceiptIsTrue
<1> QED
  BY Invariant, <1>1, PTL

\* A completed wake has its receipt; a rejected one that never started has left
\* nothing in Linear and nothing to replay.
THEOREM TerminalsAreEarned == Spec => []TerminalIsEarned
<1>1. IInv => TerminalIsEarned
  BY DEF IInv, Receipted, Marked, Untouched, TerminalIsEarned
<1> QED
  BY Invariant, <1>1, PTL

\* No request changes Linear for a run without a durable intent.
THEOREM TracedChanges == Spec => ChangesUnderIntent
<1>1. IInv /\ [Next]_vars => [linear' # linear /\ moves' = moves => run \in intents]_vars
  <2> SUFFICES ASSUME IInv, Next, linear' # linear, moves' = moves PROVE run \in intents
    BY DEF vars, linear
  <2>1. CASE HumanMoves \/ HumanEdits
    BY <2>1 DEF HumanMoves, HumanEdits, IInv, TypeOK, BoundsOK
  <2>2. CASE pc \in Changing
    BY <2>2 DEF IInv, Intended
  <2> QED
    BY <2>1, <2>2, LinearFrame DEF UpdateBody, FileIssue, Relate, MoveToInProgress,
       PostUpdate, PostComment, Escalate, Changing
<1> QED
  BY Invariant, <1>1, PTL DEF Spec, ChangesUnderIntent

\* A terminal wake and a receipt are final: no retry, recovery or failed cleanup
\* turns them into something else.
THEOREM FinalWakes == Spec => TerminalStays
<1> DEFINE Stays == \A r \in Runs :
          /\ wake[r].status \in TerminalStatuses => wake'[r].status = wake[r].status
          /\ receipts[r] # "none" => receipts'[r] = receipts[r]
<1>1. IInv /\ [Next]_vars => Stays
  <2> SUFFICES ASSUME IInv, [Next]_vars PROVE Stays
    OBVIOUS
  <2> USE DEF IInv, TypeOK, LinearOK, DiskOK, WorkOK, Placed, Claimed, Committing, Pausing,
        Busy, InStep, Early, Receipted, TerminalStatuses
  <2>1. CASE UNCHANGED disk
    BY <2>1 DEF disk
  <2>2. CASE DecideFresh
    BY <2>2 DEF DecideFresh, linear, bounds
  <2>3. CASE MarkRunning
    BY <2>3 DEF MarkRunning, linear, work, bounds
  <2>4. CASE FreezeArtifact
    BY <2>4 DEF FreezeArtifact, linear, work, bounds
  <2>5. CASE WriteIntent
    BY <2>5 DEF WriteIntent, linear, work, bounds
  <2>6. CASE MarkMutationStarted
    BY <2>6 DEF MarkMutationStarted, StartOf, linear, work, bounds
  <2>7. CASE WriteReceipt
    BY <2>7 DEF WriteReceipt, linear, work, bounds
  <2>8. CASE CompleteWake
    BY <2>8 DEF CompleteWake, Ended, EndStatus, Rest, NoRun, NotSeen, linear, bounds
  <2>9. CASE ClearIntent
    BY <2>9 DEF ClearIntent, Fault, Rest, NoRun, NotSeen, linear
  <2>10. CASE FlagCleared
    BY <2>10 DEF FlagCleared, Rest, NoRun, NotSeen, linear, bounds
  <2>11. CASE Suppress
    BY <2>11 DEF Suppress, Fault, Rest, NoRun, NotSeen, linear
  <2>12. CASE FailRun
    BY <2>12 DEF FailRun, Rest, NoRun, NotSeen, linear, bounds
  <2>13. CASE ReplayVerified
    BY <2>13 DEF ReplayVerified, Rest, NoRun, NotSeen, linear, bounds
  <2>14. ASSUME NEW r \in Runs, RecoverIntentOnly(r) PROVE Stays
    BY <2>14 DEF RecoverIntentOnly, Recovering, Earliest, NextWake, linear, bounds
  <2>15. ASSUME NEW r \in Runs, RecoverTerminal(r) PROVE Stays
    BY <2>15 DEF RecoverTerminal, Recovering, Earliest, SameWake, work, linear, bounds
  <2>16. ASSUME NEW r \in Runs, RecoverClear(r) PROVE Stays
    <3>1. CASE UNCHANGED <<wake, receipts>>
      BY <3>1
    <3>2. CASE wake' = [wake EXCEPT ![r].clearPending = TRUE] /\ UNCHANGED receipts
      <4>1. \A s \in Runs : wake'[s].status = wake[s].status
        BY <3>2
      <4> QED
        BY <3>2, <4>1
    <3> QED
      BY <2>16, <3>1, <3>2 DEF RecoverClear
  <2>17. ASSUME NEW r \in Runs, RecoverFlag(r) PROVE Stays
    BY <2>17 DEF RecoverFlag, Recovering, Earliest, NextWake, linear, bounds
  <2> QED
    BY <2>1, <2>2, <2>3, <2>4, <2>5, <2>6, <2>7, <2>8, <2>9, <2>10, <2>11, <2>12, <2>13,
       <2>14, <2>15, <2>16, <2>17, DiskFrame
<1>2. IInv /\ [Next]_vars => [Stays]_vars
  BY <1>1
<1> QED
  BY Invariant, <1>2, PTL DEF Spec, TerminalStays
\* Seen through C, a step of the gateway is one step of a durable commit, or none.
LEMMA CommitStep == IInv /\ [Next]_vars => [C!Next]_(C!commit)
<1> DEFINE P == {r \in intents : artifact[r] = "commit"}
           A == {r \in Runs : receipts[r] # "none"}
<1> SUFFICES ASSUME IInv, [Next]_vars PROVE [C!Next]_(C!commit)
  OBVIOUS
<1> USE DEF IInv, TypeOK, LinearOK, DiskOK, WorkOK, Placed, Claimed, Committing, Pausing,
        Busy, Intended, Changing
<1>1. ASSUME UNCHANGED <<issues, relations, updates>>, P' = P, A' = A
      PROVE [C!Next]_(C!commit)
  BY <1>1 DEF C!commit
<1>2. ASSUME NEW r \in Runs, Applied(r), artifact[r] = "commit", intents' = intents \ {r},
             UNCHANGED <<linear, artifact, receipts>>
      PROVE [C!Next]_(C!commit)
  <2>1. CASE r \in intents
    <3>1. P' = P \ {r} /\ A' = A /\ r \in P
      BY <1>2, <2>1
    <3>2. C!Done(r)
      BY <1>2 DEF Applied, Present, C!Done, C!Filed
    <3>3. C!Release(r)
      BY <1>2, <3>1, <3>2 DEF C!Release, linear
    <3> QED
      BY <3>3 DEF C!Next
  <2>2. CASE r \notin intents
    BY <1>1, <1>2, <2>2 DEF linear
  <2> QED
    BY <2>1, <2>2
<1>3. ASSUME NEW i \in Issues, FileIssue(i) PROVE [C!Next]_(C!commit)
  <2>1. P' = P /\ A' = A /\ UNCHANGED <<relations, updates>>
    BY <1>3 DEF FileIssue, disk
  <2>2. run \in P
    BY <1>3 DEF FileIssue
  <2>3. CASE issues[i] = 0 /\ issues' = [issues EXCEPT ![i] = @ + 1]
    <3>1. issues' = [issues EXCEPT ![i] = 1]
      BY <2>3
    <3>2. C!File(i)
      BY <2>1, <2>2, <2>3, <3>1 DEF C!File
    <3> QED
      BY <3>2 DEF C!Next
  <2>4. CASE UNCHANGED issues
    BY <1>1, <2>1, <2>4
  <2> QED
    BY <1>3, <2>3, <2>4 DEF FileIssue
<1>4. ASSUME NEW d \in Deps, Relate(d) PROVE [C!Next]_(C!commit)
  <2>1. P' = P /\ A' = A /\ UNCHANGED <<issues, updates>>
    BY <1>4 DEF Relate, disk
  <2>2. run \in P /\ C!Filed
    BY <1>4 DEF Relate, Ordered, Present, C!Filed
  <2>3. CASE relations' = relations \cup {d}
    <3>1. C!Relate(d)
      BY <2>1, <2>2, <2>3 DEF C!Relate
    <3> QED
      BY <3>1 DEF C!Next
  <2>4. CASE UNCHANGED relations
    BY <1>1, <2>1, <2>4
  <2> QED
    BY <1>4, <2>3, <2>4 DEF Relate
<1>5. CASE PostUpdate
  <2>1. P' = P /\ A' = A /\ UNCHANGED <<issues, relations>>
    BY <1>5 DEF PostUpdate, disk
  <2>2. run \in P /\ run \in Runs /\ relations = Deps /\ C!Filed
    BY <1>5 DEF PostUpdate, Ordered, Present, C!Filed
  <2>3. CASE updates[run] = 0 /\ updates' = [updates EXCEPT ![run] = IF @ = 0 THEN 1 ELSE @]
    <3>1. updates' = [updates EXCEPT ![run] = 1]
      BY <2>3
    <3>2. C!Announce(run)
      BY <2>1, <2>2, <2>3, <3>1 DEF C!Announce
    <3> QED
      BY <2>2, <3>2 DEF C!Next
  <2>4. CASE UNCHANGED updates
    BY <1>1, <2>1, <2>4
  <2>5. updates[run] # 0 /\ updates' = [updates EXCEPT ![run] = IF @ = 0 THEN 1 ELSE @] => UNCHANGED updates
    BY <2>2
  <2> QED
    BY <1>5, <2>3, <2>4, <2>5 DEF PostUpdate
<1>6. CASE WriteIntent
  <2>1. /\ UNCHANGED <<issues, relations, updates>> /\ A' = A
        /\ intents = {} /\ P = {} /\ intents' = {run} /\ run \in Runs /\ artifact' = artifact
    BY <1>6 DEF WriteIntent, Single, Unannounced, linear
  <2>2. CASE artifact[run] = "commit"
    <3>1. Present = {}
      BY <1>6 DEF WriteIntent, Single, Unannounced
    <3>2. A = {} /\ relations = {}
      BY <3>1, IssuesAssumption DEF Receipted, Applied, Ordered
    <3>3. \A i \in Issues : issues[i] = 0
      BY <3>1 DEF Present
    <3>4. updates[run] = 0
      BY <1>6, <2>1 DEF WriteIntent, Untouched, InStep, Early
    <3>5. P' = {run}
      BY <2>1, <2>2
    <3>6. PICK r \in Runs : r = run
      BY <2>1
    <3>7. C!Promise(r)
      BY <2>1, <3>2, <3>3, <3>4, <3>5, <3>6 DEF C!Promise
    <3> QED
      BY <3>7 DEF C!Next
  <2>3. CASE artifact[run] # "commit"
    BY <1>1, <2>1, <2>3
  <2> QED
    BY <2>2, <2>3
<1>7. CASE WriteReceipt
  <2>1. UNCHANGED <<issues, relations, updates>> /\ P' = P /\ run \in P /\ run \in Runs
    BY <1>7 DEF WriteReceipt, Ordered, linear
  <2>2. Applied(run) /\ receipts' = [receipts EXCEPT ![run] = "completed"]
    BY <1>7 DEF WriteReceipt, Receipted
  <2>3. A' = A \cup {run}
    BY <2>1, <2>2
  <2>4. C!Done(run)
    BY <2>2 DEF Applied, Present, C!Done, C!Filed
  <2>5. PICK r \in Runs : r = run
    BY <2>1
  <2>6. C!Acknowledge(r)
    BY <2>1, <2>3, <2>4, <2>5 DEF C!Acknowledge
  <2> QED
    BY <2>6 DEF C!Next
<1>8. CASE ClearIntent
  <2>1. Applied(run) /\ artifact[run] = "commit" /\ run \in Runs
    BY <1>8 DEF ClearIntent, Single, Receipted
  <2>2. CASE intents' = intents \ {run}
    BY <1>2, <1>8, <2>1, <2>2 DEF ClearIntent
  <2>3. CASE UNCHANGED intents
    BY <1>1, <1>8, <2>3 DEF ClearIntent, linear
  <2> QED
    BY <1>8, <2>2, <2>3 DEF ClearIntent
<1>9. CASE ReplayVerified
  <2>1. run \in Runs /\ intents' = intents \ {run} /\ UNCHANGED <<linear, artifact, receipts>>
    BY <1>9 DEF ReplayVerified
  <2>2. CASE artifact[run] = "commit"
    BY <1>2, <1>9, <2>1, <2>2 DEF ReplayVerified, Ordered
  <2>3. CASE artifact[run] # "commit"
    BY <1>1, <2>1, <2>3 DEF linear
  <2> QED
    BY <2>2, <2>3
<1>10. ASSUME NEW r \in Runs, RecoverClear(r) PROVE [C!Next]_(C!commit)
  <2>1. Applied(r) /\ artifact[r] = "commit"
    BY <1>10 DEF RecoverClear, Receipted
  <2>2. UNCHANGED <<linear, artifact, receipts>>
    BY <1>10 DEF RecoverClear
  <2>3. CASE intents' = intents \ {r}
    BY <1>2, <2>1, <2>2, <2>3
  <2>4. CASE UNCHANGED intents
    BY <1>1, <2>2, <2>4 DEF linear
  <2> QED
    BY <1>10, <2>3, <2>4 DEF RecoverClear
<1>11. CASE FreezeArtifact
  <2>1. UNCHANGED <<linear, intents, receipts>> /\ intents = {}
    BY <1>11 DEF FreezeArtifact, Single, Unannounced
  <2> QED
    BY <1>1, <2>1 DEF linear
<1>12. CASE \/ DecideFresh \/ MarkRunning \/ MarkMutationStarted \/ CompleteWake \/ FlagCleared
            \/ Suppress \/ FailRun \/ (\E r \in Runs : RecoverIntentOnly(r))
            \/ (\E r \in Runs : RecoverTerminal(r)) \/ (\E r \in Runs : RecoverFlag(r))
  <2>1. UNCHANGED <<linear, intents, artifact, receipts>>
    BY <1>12 DEF DecideFresh, MarkRunning, MarkMutationStarted, CompleteWake, FlagCleared,
       Suppress, FailRun, RecoverIntentOnly, RecoverTerminal, RecoverFlag
  <2> QED
    BY <1>1, <2>1 DEF linear
<1>13. CASE UpdateBody \/ MoveToInProgress \/ PostComment \/ Escalate \/ HumanMoves \/ HumanEdits
  <2>1. UNCHANGED <<issues, relations, updates, disk>>
    BY <1>13 DEF UpdateBody, MoveToInProgress, PostComment, Escalate, HumanMoves, HumanEdits
  <2> QED
    BY <1>1, <2>1 DEF disk
<1>14. CASE UNCHANGED linear /\ UNCHANGED disk
  BY <1>1, <1>14 DEF linear, disk
<1> QED
  BY <1>3, <1>4, <1>5, <1>6, <1>7, <1>8, <1>9, <1>10, <1>11, <1>12, <1>13, <1>14,
     LinearFrame, DiskFrame

\* What the gateway does to a project and to its files is a durable commit:
\* promised before the first change, made once and in order, and shown to be
\* complete before its receipt and before its intent goes.
THEOREM ImplementsCommit == Spec => CommitIsDurable
<1>1. Init => C!Init
  BY DEF Init, C!Init
<1>2. IInv /\ [Next]_vars => [C!Next]_(C!commit)
  BY CommitStep
<1> QED
  BY Invariant, <1>1, <1>2, PTL DEF Spec, CommitIsDurable, C!Spec
=============================================================================
