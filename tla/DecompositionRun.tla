-------------------------- MODULE DecompositionRun --------------------------
(***************************************************************************)
(* One Linear project, the gateway process that decomposes it, and the     *)
(* durable evidence the process keeps so that a crash between two requests *)
(* to Linear can be repaired.                                              *)
(*                                                                         *)
(* A run is claimed as a wake, thinks (the orchestrator loop), freezes its *)
(* outcome as a run artifact, writes a mutation intent, changes Linear one *)
(* request at a time, re-reads what it changed, journals a reconciliation  *)
(* receipt, makes the wake terminal and removes the intent.  Whatever is   *)
(* left of an intent is replayed: by the startup drain, or by a poll that  *)
(* finds the project Planned.  People move and edit the project at any     *)
(* time, the process can crash between any two steps, and any request to   *)
(* Linear can fail, or take effect and lose its answer.                    *)
(***************************************************************************)
EXTENDS Naturals, FiniteSets

CONSTANTS
    NRuns,        \* bound: how many fresh runs the project gets
    Issues,       \* decomposition keys of the issues a commit files
    Deps,         \* <<blocking, dependent>> pairs of keys
    BodyRuns,     \* the runs whose commit carries a project_body_update
    MaxCrashes,   \* bound: crashes of the process
    MaxFaults,    \* bound: failed or unanswered requests
    MaxMoves      \* bound: moves and edits people make

ASSUME RunsAssumption == NRuns \in Nat \ {0}
\* validateFinalIssues refuses a commit without issues (empty_final_issues).
ASSUME IssuesAssumption == Issues # {}
ASSUME DepsAssumption == Deps \subseteq Issues \X Issues
\* A key is not a pair of keys.
ASSUME KeysAssumption == Issues \cap Deps = {}
ASSUME BoundsAssumption == MaxCrashes \in Nat /\ MaxFaults \in Nat /\ MaxMoves \in Nat

Runs == 1..NRuns
NoRun == 0

\* The kinds a terminal artifact freezes.  A failed-closed stop is persisted
\* as a pause artifact whose source is failed_closed.
Outcomes == {"commit", "pause", "failed_closed"}

VARIABLES
    \* Linear
    status,       \* status of the project
    content,      \* who wrote the project body: <<"human", n>> or <<"run", r>>
    issues,       \* how many issues carry each decomposition key
    relations,    \* the "blocks" relations between them
    updates,      \* how many project updates carry each run's id
    comments,     \* how many needs-principal comments carry each run's id
    \* the files under the Teami home
    wake,         \* the wake of each run, in the local trigger store
    artifact,     \* the terminal run artifact of each run
    intents,      \* runs that have a mutation intent file
    receipts,     \* status in the reconciliation journal, per run
    suppressed,   \* fingerprints that have a suppression note
    \* the process
    pc,
    run,          \* the run it works on
    mode,         \* "fresh" or "replay"
    outcome,      \* how the run ends
    seen,         \* fingerprint the poll computed before it decided
    filed,        \* keys and dependencies this pass has dealt with
    queue,        \* intents the startup drain has still to replay
    \* bounds
    crashes, faults, moves

linear == <<status, content, issues, relations, updates, comments>>
disk == <<wake, artifact, intents, receipts, suppressed>>
work == <<run, mode, outcome, seen, filed, queue>>
bounds == <<crashes, faults, moves>>
vars == <<linear, disk, pc, work, bounds>>

TerminalStatuses == {"completed", "paused", "rejected", "dead_letter"}
WakeStatuses == {"none", "leased", "running"} \cup TerminalStatuses
ProjectStatuses == {"backlog", "planned", "escalated", "in_progress"}

\* Where the process can be.  In the states of Reading it waits for an answer
\* that changes nothing in Linear.
Reading == {"decide", "eligible", "recheck", "probe", "verify", "confirm"}
Changing == {"body", "issues", "relations", "move", "update", "comment", "escalate"}
Points == Reading \cup Changing \cup
    {"down", "recover", "drain", "idle", "claimed", "thinking", "judged", "gate",
     "intent", "mark", "receipt", "terminal", "clear", "flag",
     "failed", "suppress", "replayed"}

NewWake == [status |-> "leased", started |-> FALSE, required |-> FALSE,
            reconciled |-> FALSE, clearPending |-> FALSE]
NoWake == [NewWake EXCEPT !.status = "none"]

Wakes == [status : WakeStatuses, started : BOOLEAN, required : BOOLEAN,
          reconciled : BOOLEAN, clearPending : BOOLEAN]

\* r is the earliest of a set of runs: runs are numbered in the order they start.
Earliest(r, S) == r \in S /\ \A s \in S : r <= s

Present == {i \in Issues : issues[i] > 0}

\* computeTriggerFingerprint: everything a decomposition reads of the project,
\* without its comments.
Fingerprint == <<status, content, Present>>

Contents == ({"human"} \X (0..MaxMoves)) \cup ({"run"} \X Runs)
Fingerprints == ProjectStatuses \X Contents \X SUBSET Issues
NotSeen == <<>>

\* Fault: prior execution issues do not count.
EligibleAgain == status = "planned"

\* evaluateEligibilityFromContext: still Planned, and never decomposed before.
Eligible == status = "planned" /\ Present = {}

\* readLinearIssuesEffectState: what must be readable in Linear for run r's
\* commit to count as applied.
EffectsHold(r) ==
    /\ Present = Issues
    /\ status = "in_progress"
    /\ r \in BodyRuns => content = <<"run", r>>
    /\ updates[r] > 0
    /\ relations = Deps

LinearOK ==
    /\ status \in ProjectStatuses
    /\ content \in Contents
    /\ issues \in [Issues -> Nat]
    /\ relations \subseteq Deps
    /\ updates \in [Runs -> Nat]
    /\ comments \in [Runs -> Nat]

DiskOK ==
    /\ wake \in [Runs -> Wakes]
    /\ artifact \in [Runs -> Outcomes \cup {"none"}]
    /\ intents \subseteq Runs
    /\ receipts \in [Runs -> TerminalStatuses \cup {"none"}]
    /\ suppressed \subseteq Fingerprints

WorkOK ==
    /\ pc \in Points
    /\ run \in Runs \cup {NoRun}
    /\ mode \in {"fresh", "replay"}
    /\ outcome \in Outcomes \cup {"none", "ineligible", "invalid", "error"}
    /\ seen \in Fingerprints \cup {NotSeen}
    /\ filed \subseteq Issues \cup Deps
    /\ queue \subseteq Runs

BoundsOK ==
    /\ crashes \in 0..MaxCrashes
    /\ faults \in 0..MaxFaults
    /\ moves \in 0..MaxMoves

TypeOK == LinearOK /\ DiskOK /\ WorkOK /\ BoundsOK

\* A person has just moved the project to Planned and no run has started.
Init ==
    /\ status = "planned"
    /\ content = <<"human", 0>>
    /\ issues = [i \in Issues |-> 0]
    /\ relations = {}
    /\ updates = [r \in Runs |-> 0]
    /\ comments = [r \in Runs |-> 0]
    /\ wake = [r \in Runs |-> NoWake]
    /\ artifact = [r \in Runs |-> "none"]
    /\ intents = {}
    /\ receipts = [r \in Runs |-> "none"]
    /\ suppressed = {}
    /\ pc = "idle" /\ run = NoRun /\ mode = "fresh" /\ outcome = "none"
    /\ seen = NotSeen /\ filed = {} /\ queue = {}
    /\ crashes = 0 /\ faults = 0 /\ moves = 0

-----------------------------------------------------------------------------
(***************************************************************************)
(* Requests to Linear.  An answer can get lost after the request took      *)
(* effect (Answered's second disjunct), or the request can be refused.     *)
(***************************************************************************)

Fault == faults < MaxFaults /\ faults' = faults + 1

Refused == pc' = "failed" /\ Fault

Answered(next) == \/ pc' = next /\ UNCHANGED faults
                  \/ Refused

\* A read that fails throws like a change that fails.
ReadFails ==
    /\ pc \in Reading /\ pc # "decide"
    /\ Refused
    /\ UNCHANGED <<linear, disk, work, crashes, moves>>

-----------------------------------------------------------------------------
(***************************************************************************)
(* The poll: list the Planned projects, snapshot one, decide.              *)
(***************************************************************************)

ListPlanned ==
    /\ pc = "idle" /\ status = "planned"
    /\ pc' = "decide"
    /\ UNCHANGED <<linear, disk, work, bounds>>

\* processReplayDecision: apply run r's persisted artifact once more.
Replay(r) ==
    /\ run' = r /\ mode' = "replay" /\ outcome' = artifact[r] /\ filed' = {}
    /\ pc' = IF artifact[r] = "commit" THEN "probe" ELSE "comment"

\* Fault: a replay takes the intent away when it starts.
DecideReplayTaking ==
    /\ pc = "decide"
    /\ \E r \in Runs : Earliest(r, intents) /\ Replay(r) /\ intents' = intents \ {r}
    /\ UNCHANGED <<linear, wake, artifact, receipts, suppressed, seen, queue, bounds>>

\* A pending intent of the project comes before anything else.
DecideReplay ==
    /\ pc = "decide"
    /\ \E r \in Runs : Earliest(r, intents) /\ Replay(r)
    /\ UNCHANGED <<linear, disk, seen, queue, bounds>>

\* Fault: any note of the project suppresses it, whatever its fingerprint.
DecideSuppressAny ==
    /\ pc = "decide" /\ intents = {} /\ suppressed # {}
    /\ pc' = "idle"
    /\ UNCHANGED <<linear, disk, work, bounds>>

DecideSuppress ==
    /\ pc = "decide" /\ intents = {} /\ Fingerprint \in suppressed
    /\ pc' = "idle"
    /\ UNCHANGED <<linear, disk, work, bounds>>

\* claimSyntheticWake: the wake is durable before the run does anything.
DecideFresh ==
    /\ pc = "decide" /\ intents = {} /\ Fingerprint \notin suppressed
    /\ \E r \in Runs :
        /\ wake[r].status = "none"
        /\ \A s \in Runs : s < r => wake[s].status # "none"
        /\ run' = r
        /\ wake' = [wake EXCEPT ![r] = NewWake]
    /\ mode' = "fresh"
    /\ outcome' = "none"
    /\ seen' = Fingerprint
    /\ filed' = {}
    /\ pc' = "claimed"
    /\ UNCHANGED <<linear, artifact, intents, receipts, suppressed, queue, bounds>>

\* The bound on runs is spent: the project stays as it is.
DecideNothing ==
    /\ pc = "decide" /\ intents = {} /\ Fingerprint \notin suppressed
    /\ \A r \in Runs : wake[r].status # "none"
    /\ pc' = "idle"
    /\ UNCHANGED <<linear, disk, work, bounds>>

-----------------------------------------------------------------------------
(***************************************************************************)
(* A fresh run up to its durable artifact.                                 *)
(***************************************************************************)

MarkRunning ==
    /\ pc = "claimed"
    /\ wake' = [wake EXCEPT ![run].status = "running"]
    /\ pc' = "eligible"
    /\ UNCHANGED <<linear, artifact, intents, receipts, suppressed, work, bounds>>

\* The first read, before the orchestrator starts, and the second, when it has
\* finished.  Nothing reads the project again before it is changed.
CheckEligible ==
    /\ pc \in {"eligible", "recheck"}
    /\ IF Eligible
         THEN /\ pc' = IF pc = "eligible" THEN "thinking" ELSE "judged"
              /\ UNCHANGED outcome
         ELSE /\ outcome' = "ineligible"
              /\ pc' = "terminal"
    /\ UNCHANGED <<linear, disk, run, mode, seen, filed, queue, bounds>>

\* The loop ends with an outcome, with output that does not validate, or
\* with an exception.
Think ==
    /\ pc = "thinking"
    /\ \/ \E o \in Outcomes \cup {"invalid"} : outcome' = o /\ pc' = "recheck"
       \/ outcome' = "error" /\ pc' = "failed"
    /\ UNCHANGED <<linear, disk, run, mode, seen, filed, queue, bounds>>

\* Output that does not validate ends the run after the second read.
FreezeArtifact ==
    /\ pc = "judged"
    /\ IF outcome = "invalid"
         THEN pc' = "terminal" /\ UNCHANGED artifact
         ELSE pc' = "gate" /\ artifact' = [artifact EXCEPT ![run] = outcome]
    /\ UNCHANGED <<linear, wake, intents, receipts, suppressed, work, bounds>>

\* canApplyTerminal can refuse a durable artifact (bounds, environment).
ApplyGate ==
    /\ pc = "gate"
    /\ \/ pc' = (IF outcome = "commit" THEN "probe" ELSE "intent") /\ UNCHANGED outcome
       \/ pc' = "terminal" /\ outcome' = "invalid"
    /\ UNCHANGED <<linear, disk, run, mode, seen, filed, queue, bounds>>

-----------------------------------------------------------------------------
(***************************************************************************)
(* Applying an artifact.  A fresh run writes the intent first; a replay    *)
(* passes no onBeforeLinearMutation, its intent is the one it replays.     *)
(***************************************************************************)

StartOf(o) == IF o = "commit" THEN "body" ELSE "comment"

Probe ==
    /\ pc = "probe"
    /\ pc' = IF EffectsHold(run)
             THEN IF mode = "fresh" THEN "receipt" ELSE "replayed"
             ELSE IF mode = "fresh" THEN "intent" ELSE "body"
    /\ UNCHANGED <<linear, disk, work, bounds>>

\* markMutationStarted writes the intent file, then the trigger store.
WriteIntent ==
    /\ pc = "intent"
    /\ intents' = intents \cup {run}
    /\ pc' = "mark"
    /\ UNCHANGED <<linear, wake, artifact, receipts, suppressed, work, bounds>>

MarkMutationStarted ==
    /\ pc = "mark"
    /\ wake' = [wake EXCEPT ![run].started = TRUE]
    /\ pc' = StartOf(outcome)
    /\ UNCHANGED <<linear, artifact, intents, receipts, suppressed, work, bounds>>

UpdateBody ==
    /\ pc = "body"
    /\ IF run \in BodyRuns
         THEN \/ content' = <<"run", run>> /\ Answered("issues")
              \/ content' = content /\ Refused
         ELSE pc' = "issues" /\ UNCHANGED <<content, faults>>
    /\ UNCHANGED <<status, issues, relations, updates, comments, disk, work, crashes, moves>>

\* Fault: issues are created without a lookup.
FileIssueBlindly(i) ==
    /\ pc = "issues" /\ i \notin filed
    /\ \/ /\ issues' = [issues EXCEPT ![i] = @ + 1]
          /\ filed' = filed \cup {i} /\ Answered("issues")
       \/ Refused /\ UNCHANGED <<issues, filed>>
    /\ UNCHANGED <<status, content, relations, updates, comments, disk,
                   run, mode, outcome, seen, queue, crashes, moves>>

\* Each key is looked up among the project's issues before one is created.
FileIssue(i) ==
    /\ pc = "issues" /\ i \notin filed
    /\ \/ /\ issues[i] > 0
          /\ filed' = filed \cup {i} /\ UNCHANGED <<issues, pc, faults>>
       \/ /\ issues[i] = 0
          /\ issues' = [issues EXCEPT ![i] = @ + 1]
          /\ filed' = filed \cup {i} /\ Answered("issues")
       \/ Refused /\ UNCHANGED <<issues, filed>>
    /\ UNCHANGED <<status, content, relations, updates, comments, disk,
                   run, mode, outcome, seen, queue, crashes, moves>>

AllFiled ==
    /\ pc = "issues" /\ Issues \subseteq filed
    /\ pc' = "relations"
    /\ UNCHANGED <<linear, disk, work, bounds>>

\* findOrCreateIssueRelation.
Relate(d) ==
    /\ pc = "relations" /\ d \notin filed
    /\ \/ /\ relations' = relations \cup {d}
          /\ filed' = filed \cup {d} /\ Answered("relations")
       \/ Refused /\ UNCHANGED <<relations, filed>>
    /\ UNCHANGED <<status, content, issues, updates, comments, disk,
                   run, mode, outcome, seen, queue, crashes, moves>>

AllRelated ==
    /\ pc = "relations" /\ Deps \subseteq filed
    /\ pc' = "move"
    /\ UNCHANGED <<linear, disk, work, bounds>>

MoveToInProgress ==
    /\ pc = "move"
    /\ \/ status' = "in_progress" /\ Answered("update")
       \/ status' = status /\ Refused
    /\ UNCHANGED <<content, issues, relations, updates, comments, disk, work, crashes, moves>>

\* The update carries the run id, which is looked up first.
PostUpdate ==
    /\ pc = "update"
    /\ \/ /\ updates' = [updates EXCEPT ![run] = IF @ = 0 THEN 1 ELSE @]
          /\ Answered("verify")
       \/ updates' = updates /\ Refused
    /\ UNCHANGED <<status, content, issues, relations, comments, disk, work, crashes, moves>>

\* The second read of everything the commit needs; a mismatch throws.
Verify ==
    /\ pc = "verify"
    /\ pc' = IF ~EffectsHold(run) THEN "failed"
             ELSE IF mode = "fresh" THEN "receipt" ELSE "replayed"
    /\ UNCHANGED <<linear, disk, work, bounds>>

\* Pause and failed-closed stops: one comment, then Principal Escalation.
PostComment ==
    /\ pc = "comment"
    /\ \/ /\ comments' = [comments EXCEPT ![run] = IF @ = 0 THEN 1 ELSE @]
          /\ Answered("escalate")
       \/ comments' = comments /\ Refused
    /\ UNCHANGED <<status, content, issues, relations, updates, disk, work, crashes, moves>>

Escalate ==
    /\ pc = "escalate"
    /\ \/ status' = "escalated" /\ Answered("confirm")
       \/ status' = status /\ Refused
    /\ UNCHANGED <<content, issues, relations, updates, comments, disk, work, crashes, moves>>

ConfirmEscalated ==
    /\ pc = "confirm"
    /\ pc' = IF status # "escalated" THEN "failed"
             ELSE IF mode = "fresh" THEN "terminal" ELSE "replayed"
    /\ UNCHANGED <<linear, disk, work, bounds>>

-----------------------------------------------------------------------------
(***************************************************************************)
(* How a run ends.                                                         *)
(***************************************************************************)

\* The process lets go of the run it worked on.
Rest == /\ run' = NoRun /\ mode' = "fresh" /\ outcome' = "none"
        /\ seen' = NotSeen /\ filed' = {}

\* completeWake journals a receipt before it touches the wake, but only for a
\* started mutation with provider ids: a pause has none (finishWakeFromRunnerResult).
WriteReceipt ==
    /\ pc = "receipt"
    /\ receipts' = [receipts EXCEPT ![run] = IF wake[run].started THEN "completed" ELSE @]
    /\ pc' = "terminal"
    /\ UNCHANGED <<linear, wake, artifact, intents, suppressed, work, bounds>>

\* Fault: the result's status is stored as it is.
EndStatusUnmapped(o) == CASE o = "commit" -> "completed"
                          [] o = "pause" -> "paused"
                          [] OTHER -> o

\* mapRunnerOutcomeToWake, with terminalApplyResult's turn of an applied
\* failed-closed pause into failed_closed.
EndStatus(o) == CASE o = "commit" -> "completed"
                  [] o = "pause" -> "paused"
                  [] OTHER -> "rejected"

\* What becomes of a wake that is completed with or without a proof.
Ended(w, o, proved) ==
    [status |-> EndStatus(o), started |-> w.started, reconciled |-> proved,
     clearPending |-> proved, required |-> w.required \/ (~proved /\ w.started)]

CompleteWake ==
    /\ pc = "terminal"
    /\ LET proved == receipts[run] # "none"
       IN  /\ wake' = [wake EXCEPT ![run] = Ended(wake[run], outcome, proved)]
           /\ pc' = IF proved THEN "clear"
                    ELSE IF EndStatus(outcome) = "rejected" THEN "suppress" ELSE "idle"
           /\ IF pc' = "idle" THEN Rest ELSE UNCHANGED <<run, mode, outcome, seen, filed>>
    /\ UNCHANGED <<linear, artifact, intents, receipts, suppressed, queue, bounds>>

\* clearMutationIntent's failure is swallowed: the wake stays terminal.
ClearIntent ==
    /\ pc = "clear"
    /\ \/ /\ intents' = intents \ {run} /\ pc' = "flag"
          /\ UNCHANGED <<run, mode, outcome, seen, filed, faults>>
       \/ Fault /\ pc' = "idle" /\ Rest /\ UNCHANGED intents
    /\ UNCHANGED <<linear, wake, artifact, receipts, suppressed, queue, crashes, moves>>

FlagCleared ==
    /\ pc = "flag"
    /\ wake' = [wake EXCEPT ![run].clearPending = FALSE]
    /\ pc' = "idle" /\ Rest
    /\ UNCHANGED <<linear, artifact, intents, receipts, suppressed, queue, bounds>>

\* maybeWriteFreshSuppression: the rejected project is read once more, and the
\* note is written only if nothing the run read has changed.
Suppress ==
    /\ pc = "suppress"
    /\ \/ /\ suppressed' = IF Fingerprint = seen /\ status = "planned"
                            THEN suppressed \cup {seen} ELSE suppressed
          /\ UNCHANGED faults
       \/ Fault /\ UNCHANGED suppressed
    /\ pc' = "idle" /\ Rest
    /\ UNCHANGED <<linear, wake, artifact, intents, receipts, queue, crashes, moves>>

\* The runner's catch: what may have reached Linear is never just rejected.
FailRun ==
    /\ pc = "failed" /\ mode = "fresh"
    /\ wake' = [wake EXCEPT ![run].status =
                  IF wake[run].started THEN "dead_letter" ELSE "rejected"]
    /\ pc' = "idle" /\ Rest
    /\ UNCHANGED <<linear, artifact, intents, receipts, suppressed, queue, bounds>>

\* replayPendingMutation: verified clears the intent, anything else keeps it.
\* The wake is not touched.
ReplayVerified ==
    /\ pc = "replayed"
    /\ intents' = intents \ {run}
    /\ pc' = IF queue = {} THEN "idle" ELSE "drain"
    /\ Rest
    /\ UNCHANGED <<linear, wake, artifact, receipts, suppressed, queue, bounds>>

\* Fault: a replay is tried once.
ReplayGivesUp ==
    /\ pc = "failed" /\ mode = "replay"
    /\ intents' = intents \ {run}
    /\ queue' = queue /\ pc' = IF queue = {} THEN "idle" ELSE "drain"
    /\ Rest
    /\ UNCHANGED <<linear, wake, artifact, receipts, suppressed, bounds>>

\* A failed replay is degraded; a rate limit also ends the drain.
ReplayDegraded ==
    /\ \/ pc = "failed" /\ mode = "replay" /\ UNCHANGED faults
       \/ pc = "replayed" /\ Fault
    /\ queue' \in IF faults' > 0 THEN {queue, {}} ELSE {queue}
    /\ pc' = IF queue' = {} THEN "idle" ELSE "drain"
    /\ Rest
    /\ UNCHANGED <<linear, disk, crashes, moves>>

-----------------------------------------------------------------------------
(***************************************************************************)
(* Startup: recoverLocalMutationReconciliation goes through the wakes, then *)
(* every intent left is replayed, before the first poll.                   *)
(***************************************************************************)

Start ==
    /\ pc = "down"
    /\ pc' = "recover"
    /\ queue' = {r \in Runs : wake[r].status # "none"}
    /\ UNCHANGED <<linear, disk, run, mode, outcome, seen, filed, bounds>>

Recovering(r) == pc = "recover" /\ Earliest(r, queue)
NextWake(r) == queue' = queue \ {r} /\ UNCHANGED <<pc, run, mode, outcome, seen, filed>>
SameWake == UNCHANGED <<pc, work>>

\* planMutationRecovery: none, or done with nothing left to tidy.
RecoverNothing(r) ==
    /\ Recovering(r)
    /\ r \notin intents
    /\ receipts[r] = "none" \/ (wake[r].reconciled /\ ~wake[r].clearPending)
    /\ NextWake(r)
    /\ UNCHANGED <<linear, disk, bounds>>

\* reconcile_external_effect: leave it to the replay, and say so.
RecoverIntentOnly(r) ==
    /\ Recovering(r)
    /\ r \in intents /\ receipts[r] = "none"
    /\ wake' = [wake EXCEPT ![r].started = TRUE, ![r].required = TRUE]
    /\ NextWake(r)
    /\ UNCHANGED <<linear, artifact, intents, receipts, suppressed, bounds>>

\* persist_terminal_then_clear_intent, reconstruct_terminal_from_receipt.
RecoverTerminal(r) ==
    /\ Recovering(r)
    /\ receipts[r] # "none" /\ ~wake[r].reconciled
    /\ wake' = [wake EXCEPT ![r] = [status |-> receipts[r], started |-> TRUE,
                                    required |-> FALSE, reconciled |-> TRUE,
                                    clearPending |-> r \in intents]]
    /\ SameWake
    /\ UNCHANGED <<linear, artifact, intents, receipts, suppressed, bounds>>

\* clear_redundant_intent.
RecoverClear(r) ==
    /\ Recovering(r)
    /\ r \in intents /\ receipts[r] # "none" /\ wake[r].reconciled
    /\ \/ intents' = intents \ {r} /\ SameWake /\ UNCHANGED <<wake, faults>>
       \/ /\ Fault
          /\ wake' = [wake EXCEPT ![r].clearPending = TRUE]
          /\ NextWake(r) /\ UNCHANGED intents
    /\ UNCHANGED <<linear, artifact, receipts, suppressed, crashes, moves>>

RecoverFlag(r) ==
    /\ Recovering(r)
    /\ r \notin intents /\ wake[r].reconciled /\ wake[r].clearPending
    /\ wake' = [wake EXCEPT ![r].clearPending = FALSE]
    /\ NextWake(r)
    /\ UNCHANGED <<linear, artifact, intents, receipts, suppressed, bounds>>

\* Fault: only interrupted runs are drained.
RecoveredRunning ==
    /\ pc = "recover" /\ queue = {}
    /\ queue' = {r \in intents : wake[r].status = "running"}
    /\ pc' = "drain"
    /\ UNCHANGED <<linear, disk, run, mode, outcome, seen, filed, bounds>>

Recovered ==
    /\ pc = "recover" /\ queue = {}
    /\ queue' = intents
    /\ pc' = "drain"
    /\ UNCHANGED <<linear, disk, run, mode, outcome, seen, filed, bounds>>

\* drainReplayPendingForTeam, earliest intent first.  The project's status is
\* not looked at.
Drain ==
    /\ pc = "drain"
    /\ IF queue = {}
         THEN pc' = "idle" /\ UNCHANGED work
         ELSE /\ \E r \in Runs : Earliest(r, queue) /\ Replay(r) /\ queue' = queue \ {r}
              /\ UNCHANGED seen
    /\ UNCHANGED <<linear, disk, bounds>>

Crash ==
    /\ pc # "down" /\ crashes < MaxCrashes
    /\ crashes' = crashes + 1
    /\ pc' = "down" /\ queue' = {} /\ Rest
    /\ UNCHANGED <<linear, disk, faults, moves>>

-----------------------------------------------------------------------------
(***************************************************************************)
(* People.                                                                 *)
(***************************************************************************)

HumanMoves ==
    /\ moves < MaxMoves /\ moves' = moves + 1
    /\ status' \in {"planned", "backlog"} \ {status}
    /\ UNCHANGED <<content, issues, relations, updates, comments, disk, pc, work, crashes, faults>>

HumanEdits ==
    /\ moves < MaxMoves /\ moves' = moves + 1
    /\ content' = <<"human", moves'>>
    /\ UNCHANGED <<status, issues, relations, updates, comments, disk, pc, work, crashes, faults>>

-----------------------------------------------------------------------------
Polling == ListPlanned \/ DecideReplay \/ DecideSuppress \/ DecideFresh \/ DecideNothing

Running == MarkRunning \/ CheckEligible \/ Think \/ FreezeArtifact \/ ApplyGate

Applying ==
    \/ Probe \/ WriteIntent \/ MarkMutationStarted \/ UpdateBody
    \/ \E i \in Issues : FileIssue(i)
    \/ AllFiled
    \/ \E d \in Deps : Relate(d)
    \/ AllRelated \/ MoveToInProgress \/ PostUpdate \/ Verify
    \/ PostComment \/ Escalate \/ ConfirmEscalated

Ending ==
    \/ ReadFails \/ WriteReceipt \/ CompleteWake \/ ClearIntent \/ FlagCleared
    \/ Suppress \/ FailRun \/ ReplayVerified \/ ReplayDegraded

Recovery ==
    \/ Start
    \/ \E r \in Runs : \/ RecoverNothing(r) \/ RecoverIntentOnly(r)
                      \/ RecoverTerminal(r) \/ RecoverClear(r) \/ RecoverFlag(r)
    \/ Recovered \/ Drain

Gateway == Polling \/ Running \/ Applying \/ Ending \/ Recovery

Next == Gateway \/ Crash \/ HumanMoves \/ HumanEdits

Spec == Init /\ [][Next]_vars

\* The process is never scheduled away for good, and someone starts it again.
FairSpec == Spec /\ WF_vars(Gateway)

-----------------------------------------------------------------------------
(***************************************************************************)
(* Properties.                                                             *)
(***************************************************************************)

\* An intent can always be replayed: the artifact it names is durable before
\* it is (listReplayPending throws otherwise and the whole poll fails).
IntentHasArtifact == \A r \in intents : artifact[r] # "none"

\* Whatever requests are repeated after a crash, a lost answer or a restart,
\* no key is filed twice and no run posts two updates or two comments.
NothingTwice ==
    /\ \A i \in Issues : issues[i] <= 1
    /\ \A r \in Runs : updates[r] <= 1 /\ comments[r] <= 1

\* The project is decomposed by at most one run: no second run gets as far as
\* a commit's changes (pending intents first, then prior_execution_issues).
OneDecomposition ==
    Cardinality({r \in Runs : artifact[r] = "commit" /\ wake[r].started}) <= 1

\* A receipt stands for a commit that is all in Linear.
ReceiptIsTrue ==
    \A r \in Runs : receipts[r] # "none" =>
        Present = Issues /\ relations = Deps /\ updates[r] > 0 /\ artifact[r] = "commit"

\* A wake that says completed can show the receipt, and one that was rejected
\* before its mutation started left nothing behind to replay or to explain.
TerminalIsEarned ==
    \A r \in Runs :
        /\ wake[r].status = "completed" => receipts[r] = "completed"
        /\ wake[r].status = "rejected" /\ ~wake[r].started =>
               r \notin intents /\ updates[r] = 0 /\ comments[r] = 0

\* No request changes Linear for a run that has no durable intent: a crash at
\* any point leaves the replay a trace of what may have happened.
ChangesUnderIntent ==
    [][linear' # linear /\ moves' = moves => run \in intents]_vars

\* A wake that has become terminal keeps its status through replays, failed
\* cleanups and recoveries, and a receipt is never taken back.
TerminalStays ==
    [][\A r \in Runs :
          /\ wake[r].status \in TerminalStatuses => wake'[r].status = wake[r].status
          /\ receipts[r] # "none" => receipts'[r] = receipts[r]]_vars

\* Seen from Linear and the files, a decomposition is one durable commit, whatever
\* crashes, lost answers and replays it takes: every change is under the promise
\* of the mutation intent, and neither the receipt nor the end of the intent
\* comes before the last change.
C == INSTANCE DurableCommit WITH
        promised <- {r \in intents : artifact[r] = "commit"},
        acknowledged <- {r \in Runs : receipts[r] # "none"}
CommitIsDurable == C!Spec

\* No more crashes, faults or moves are left in the bounds.
Quiet == crashes = MaxCrashes /\ faults = MaxFaults /\ moves = MaxMoves

\* A startup that meets no fault settles every intent it finds.
StartupDrains ==
    \A r \in Runs : (pc = "recover" /\ Quiet /\ r \in intents) ~> (r \notin intents)

\* A Planned project does not stay Planned unnoticed: it moves on, or a note
\* says why it is left alone, or the runs are used up.
PlannedIsServed ==
    status = "planned" ~>
        (status # "planned" \/ Fingerprint \in suppressed
            \/ \A r \in Runs : wake[r].status # "none")

\* The needs-principal comment says that a project moved back to Planned is
\* picked up: the run whose escalation was confirmed does not move it back to
\* Principal Escalation.
ReleaseIsRespected ==
    [][\A r \in Runs : wake[r].status = "paused" /\ run = r /\ status # "escalated"
                          => status' # "escalated"]_vars
=============================================================================
