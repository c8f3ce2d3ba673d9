--------------------------- MODULE OrchestratorLoop ---------------------------
(***************************************************************************)
(* The free loop of an orchestrator and its subagents                      *)
(* (orchestrator-loop.mjs, orchestrator-turn.mjs), over the runs of one    *)
(* issue: a run that ends leaves a row with a session handle, and what     *)
(* sends the issue back resumes that session or reconstructs it            *)
(* (gateway-loop.mjs, trigger-runner.mjs).                                 *)
(*                                                                         *)
(* A run is a number.  A session handle is the run_id stamped on it, 0 for *)
(* no handle.  An agent_turn_id n or "n.m" is <<n, 0>> or <<n, m>>.  A     *)
(* person, the reviews and the answers of the runtimes are the             *)
(* environment.                                                            *)
(***************************************************************************)
EXTENDS Naturals, Sequences

CONSTANTS
    MaxRounds,      \* resolveOrchestratorMaxRounds: floored, from 0 up
    MaxRuns         \* bound: runs of the issue

ASSUME BoundAssumption == MaxRounds \in Nat /\ MaxRuns \in Nat

VARIABLES
    issue,      \* where the issue is: with the gateway ("todo", "progress"), in a run, with a person
    pr,         \* it has a pull request
    row,        \* the latest run that is not rejected, as store and artifact have it
    runs,       \* how many runs were started, the latest is in flight
    kind,       \* why it was started
    conf,       \* the runtime configuration it reads
    pc,         \* where its loop is
    rounds,     \* roundsUsed
    invocations,
    warm,       \* pendingFirstTurnWarmStart
    using,      \* firstTurnWarmStart of the turn in flight
    handle,     \* orchestratorSessionHandle
    author,     \* lastProducedContentTurnId
    child,      \* childTurnCounter
    lineage,    \* lineageSidecar
    cursor,     \* lineageConsumedState.cursor
    outcome     \* what the loop returned

record == <<lineage, cursor>>
bounds == <<rounds, invocations>>
session == <<warm, using, handle>>
store == <<issue, pr, row>>
start == <<runs, kind, conf>>
vars == <<store, start, pc, bounds, session, author, child, record, outcome>>

Points == {"idle", "head", "turn", "repair", "spawn", "respawn", "returned"}
Ids == Nat \X Nat
Kinds == {"fresh", "warm", "cold"}
Rows == [run : Nat, handle : Nat, persisted : BOOLEAN, asked : BOOLEAN, kind : Kinds]
Turns == [id : Ids, took : SUBSET Ids, ran : BOOLEAN]

TypeOK ==
    /\ issue \in {"todo", "progress", "run", "person"} /\ pr \in BOOLEAN /\ row \in Rows
    /\ runs \in 0..MaxRuns /\ kind \in Kinds
    /\ conf \in [persisted : BOOLEAN, ready : BOOLEAN]
    /\ pc \in Points /\ rounds \in Nat /\ invocations \in Nat
    /\ warm \in Nat /\ using \in Nat /\ handle \in Nat
    /\ author \in Nat /\ child \in Nat
    /\ lineage \in Seq(Turns) /\ cursor \in Nat
    /\ outcome \in {"none", "commit", "pause", "failed_closed"}

NoRow == [run |-> 0, handle |-> 0, persisted |-> FALSE, asked |-> FALSE, kind |-> "fresh"]

Init ==
    /\ issue = "todo" /\ pr = FALSE /\ row = NoRow
    /\ runs = 0 /\ kind = "fresh" /\ conf = [persisted |-> FALSE, ready |-> FALSE]
    /\ pc = "idle" /\ rounds = 0 /\ invocations = 0
    /\ warm = 0 /\ using = 0 /\ handle = 0 /\ author = 0 /\ child = 0
    /\ lineage = <<>> /\ cursor = 0 /\ outcome = "none"

-----------------------------------------------------------------------------
(* What the gateway decides about the issue *)

\* runIsResumable and resolveDriverSessionHandle.
Resolved == row.run # 0 /\ row.handle # 0

\* warm_resume_prior_run_session_mismatch.
Mismatch == Resolved /\ row.handle # row.run

\* decideReadyIssueFixMode: no run to resume, and nothing left behind.
FreshOfTodo == row.run = 0 \/ (~Resolved /\ ~pr)

\* The locals of a call of runOrchestratorLoop.
Enter(k, w) ==
    /\ runs < MaxRuns /\ runs' = runs + 1 /\ kind' = k
    /\ conf' \in [persisted : BOOLEAN, ready : BOOLEAN]
    /\ issue' = "run" /\ pc' = "head"
    /\ warm' = w
    /\ UNCHANGED <<pr, row, bounds, using, handle, author, child, record, outcome>>

RunFresh == pc = "idle" /\ issue = "todo" /\ FreshOfTodo /\ Enter("fresh", 0)

\* A resumed run that paused is resumed from Todo only.
MayResume == pc = "idle" /\ pr /\ (issue = "todo" \/ (issue = "progress" /\ ~row.asked))

ResumeWarm ==
    /\ MayResume /\ Resolved /\ ~Mismatch /\ row.persisted
    /\ Enter("warm", row.handle)

\* A session that does not persist; in In Progress also one that is not there.
ResumeCold ==
    /\ MayResume
    /\ \/ Resolved /\ ~Mismatch /\ ~row.persisted
       \/ issue = "progress" /\ ~Resolved
    /\ Enter("cold", 0)

\* Fault: a status that the Team does not have.
EscalateByRole ==
    /\ pc = "idle"
    /\ issue = "progress" \/ (issue = "todo" /\ row.run # 0)
    /\ issue' = "human"
    /\ UNCHANGED <<pr, row, start, pc, bounds, session, author, child, record, outcome>>

\* Nothing to resume, a session of another run, no pull request, no failed
\* review of its head, or a read of these that fails.
Escalate ==
    /\ pc = "idle"
    /\ issue = "progress" \/ (issue = "todo" /\ row.run # 0)
    /\ issue' = "person"
    /\ UNCHANGED <<pr, row, start, pc, bounds, session, author, child, record, outcome>>

\* A person, or a review, sends the issue back.
SendBack ==
    /\ pc = "idle" /\ issue = "person" /\ issue' = "todo"
    /\ UNCHANGED <<pr, row, start, pc, bounds, session, author, child, record, outcome>>

-----------------------------------------------------------------------------
(* The loop *)

\* consumeLineageInputRefs and appendLineageSidecarTurn: a turn takes in every
\* turn that was recorded since the last one that did.
Record(id, ran) ==
    /\ lineage' = Append(lineage, [id |-> id, ran |-> ran,
                                   took |-> {lineage[i].id : i \in (cursor + 1)..Len(lineage)}])
    /\ cursor' = Len(lineage)

\* finishOrchestratorRun.
Return(o) == pc' = "returned" /\ outcome' = o

\* What the run leaves when it is over.
Over ==
    /\ pc' = "idle" /\ rounds' = 0 /\ invocations' = 0
    /\ warm' = 0 /\ using' = 0 /\ handle' = 0 /\ author' = 0 /\ child' = 0
    /\ lineage' = <<>> /\ cursor' = 0 /\ outcome' = "none"
    /\ UNCHANGED start

\* A commit may have opened the pull request, however it ended.
MayOpen == pr' \in IF outcome = "commit" THEN {pr, TRUE} ELSE {pr}

\* A rejected run is not seen again.
Reject == Over /\ MayOpen /\ issue' \in {"progress", "person"} /\ UNCHANGED row

BoundsBreach ==
    /\ pc = "head" /\ rounds >= MaxRounds
    /\ Record(<<rounds + 1, 0>>, FALSE) /\ Return("failed_closed")
    /\ UNCHANGED <<store, start, bounds, session, author, child>>

\* Fault: the bound is looked at after the turn.
BeginTurnLate ==
    /\ pc = "head" /\ rounds <= MaxRounds
    /\ pc' = "turn" /\ using' = warm /\ warm' = 0
    /\ UNCHANGED <<store, start, bounds, handle, author, child, record, outcome>>

\* The lease is renewed, the warm start is taken.
BeginTurn ==
    /\ pc = "head" /\ rounds < MaxRounds
    /\ pc' = "turn" /\ using' = warm /\ warm' = 0
    /\ UNCHANGED <<store, start, bounds, handle, author, child, record, outcome>>

\* The runtime cannot or does not go on with the session: no second attempt.
WarmUnavailable ==
    /\ pc = "turn" /\ using # 0
    /\ Record(<<rounds + 1, 0>>, FALSE) /\ Return("failed_closed")
    /\ using' = 0
    /\ UNCHANGED <<store, start, bounds, warm, handle, author, child>>

\* Nothing is refused before a session that cannot be continued is.
CanRun == using # 0 => conf.ready

\* Fault: a rejected turn is asked for again and not counted.
TurnUncounted ==
    /\ pc = "turn" /\ CanRun
    /\ pc' = "head" /\ using' = 0
    /\ UNCHANGED <<store, start, bounds, warm, handle, author, child, record, outcome>>

\* The turn throws: its control action is invalid, or its command failed.
TurnRejected ==
    /\ pc = "turn" /\ CanRun
    /\ pc' = "repair" /\ using' = 0
    /\ UNCHANGED <<store, start, bounds, warm, handle, author, child, record, outcome>>

RepairExhausted ==
    /\ pc = "repair" /\ rounds' = rounds + 1
    /\ Record(<<rounds + 1, 0>>, TRUE) /\ Return("failed_closed")
    /\ UNCHANGED <<store, start, invocations, session, author, child>>

\* The handle of a turn: that of the session it reports, stamped with the run
\* whose session it is; or the one it was given.
Stamped == IF using # 0 THEN {using} ELSE {runs, handle}

\* A good turn, with or without authored content.
TurnEnds ==
    /\ pc \in {"turn", "repair"} /\ CanRun
    /\ rounds' = rounds + 1 /\ Record(<<rounds + 1, 0>>, TRUE)
    /\ handle' \in Stamped
    /\ author' \in {author, rounds + 1}
    /\ using' = 0
    /\ UNCHANGED <<store, start, invocations, warm>>

\* A known subagent, in the library or improvised.
TurnInvokes == TurnEnds /\ pc' = "spawn" /\ child' = 0 /\ UNCHANGED outcome

\* A library target that is not there, or an unsafe instance: an evidence gap.
TurnMisses == TurnEnds /\ pc' = "head" /\ UNCHANGED <<child, outcome>>

TurnPauses == TurnEnds /\ Return("pause") /\ UNCHANGED child

\* validateOrchestratorOutput asks for what only an author can give.
TurnCommits == TurnEnds /\ author' # 0 /\ Return("commit") /\ UNCHANGED child

\* The output is invalid: the loop throws.
TurnSpoils == pc \in {"turn", "repair"} /\ CanRun /\ Reject

\* Fault: a retry takes the id of the spawn it repeats.
SpawnAgain ==
    /\ invocations' = invocations + 1 /\ child' = 1
    /\ Record(<<rounds, 1>>, TRUE)
    /\ UNCHANGED <<store, start, rounds, session, author>>

\* One spawn, recorded under the turn that asked for it.
Spawn ==
    /\ invocations' = invocations + 1 /\ child' = child + 1
    /\ Record(<<rounds, child + 1>>, TRUE)
    /\ UNCHANGED <<store, start, rounds, session, author>>

\* It answers, or its process fails: the orchestrator decides what that means.
SubagentEnds == pc = "spawn" /\ Spawn /\ pc' = "head" /\ UNCHANGED outcome

\* Its packet does not parse.
SubagentUnparsed == pc = "spawn" /\ Spawn /\ pc' = "respawn" /\ UNCHANGED outcome

RepairEnds == pc = "respawn" /\ Spawn /\ pc' = "head" /\ UNCHANGED outcome

RepairFails == pc = "respawn" /\ Spawn /\ Return("failed_closed")

\* An exception that nothing in the loop catches.
LoopThrows == pc \in {"spawn", "respawn"} /\ Reject

-----------------------------------------------------------------------------
(* The run around the loop *)

\* A renewal that finds the lease gone ends the run, and so does the death of
\* the process: the row stays as markWakeRunning wrote it.
LostRow == [NoRow EXCEPT !.run = runs, !.kind = kind]

RunIsLost ==
    /\ pc # "idle" /\ Over /\ MayOpen /\ row' = LostRow /\ issue' = "progress"

\* The row of a run that did something, or left an effect pending (then its
\* issue may be where it was): completeWake with its session pointer,
\* buildRuntimeMetadata in its artifact.
Leave(asked) ==
    /\ row' = [run |-> runs, handle |-> handle, persisted |-> conf.persisted,
               asked |-> asked, kind |-> kind]
    /\ issue' \in {"progress", "person"}

Commits == pc = "returned" /\ outcome = "commit" /\ Over /\ MayOpen /\ Leave(FALSE)
Pauses == pc = "returned" /\ outcome = "pause" /\ Over /\ MayOpen /\ Leave(kind # "fresh")

\* A terminal failure of the loop, of the gate or of an effect.
FailsClosed == pc = "returned" /\ Reject

Decide == RunFresh \/ ResumeWarm \/ ResumeCold \/ Escalate
Turn ==
    \/ BoundsBreach \/ BeginTurn \/ WarmUnavailable \/ TurnRejected \/ RepairExhausted
    \/ TurnInvokes \/ TurnMisses \/ TurnPauses \/ TurnCommits \/ TurnSpoils
Subagent == SubagentEnds \/ SubagentUnparsed \/ RepairEnds \/ RepairFails \/ LoopThrows
End == Commits \/ Pauses \/ FailsClosed
Next == Decide \/ SendBack \/ Turn \/ Subagent \/ End \/ RunIsLost

Spec == Init /\ [][Next]_vars

\* Every command of a runtime has a timeout, so a loop goes on.
FairSpec == Spec /\ WF_vars(Turn \/ Subagent \/ End)

-----------------------------------------------------------------------------
(* Properties *)

\* The loop takes no more decision turns than it may, the bound 0 included,
\* and no more than two spawns for each of them.
BoundsHold == rounds <= MaxRounds /\ invocations <= 2 * rounds

\* The lineage and the bounds of a run say the same: every turn and every
\* spawn, repaired ones included, is recorded once under an id of its own, and
\* every record takes in exactly the one before it, so that none is lost.  What
\* was authored is the content of a recorded turn of this run.
NotRun == lineage # <<>> /\ ~lineage[Len(lineage)].ran
LineageIsTrue ==
    /\ Len(lineage) = rounds + invocations + (IF NotRun THEN 1 ELSE 0)
    /\ \A i, j \in 1..Len(lineage) : lineage[i].id = lineage[j].id => i = j
    /\ \A i \in 1..Len(lineage) : lineage[i].took = IF i = 1 THEN {} ELSE {lineage[i - 1].id}
    /\ author # 0 => \E i \in 1..Len(lineage) : lineage[i].id = <<author, 0>> /\ lineage[i].ran

\* A warm start is used in the first turn of a resumed run and in no other, on
\* the session of the row it resumes; and the session on a row is the row's
\* own, except after a warm start that no later turn has replaced.
SessionIsOwn ==
    /\ using # 0 => kind = "warm" /\ pc = "turn" /\ rounds = 0 /\ using = row.run
    /\ Mismatch => row.kind = "warm" /\ row.handle < row.run

\* A run ends, whatever its agents do.
LoopEnds == pc # "idle" ~> pc = "idle"
=============================================================================
