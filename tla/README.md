# Teami in TLA+

This directory holds the formal model of Teami beside its code: TLA+ modules
translated from `src/execution`, the TLC configurations that check them on small
instances, and theorems about them that TLAPS proves for every value of the
constants. `PROJECT.json` ties every definition to the lines it stands for, and
lists the hazards of the code with the properties that watch them.

Paths below are relative to `src/`; `L/` abbreviates
`execution/integrations/linear/src/` and `E/` abbreviates `execution/engine/`.

## 1. The system

Teami lets a person run the delivery of a product in Linear and GitHub with
agents doing the work. Everything that decides runs on one machine: a *gateway*
process polls Linear, claims what it finds as a *wake*, runs a workflow of
agents for it, and applies the outcome to Linear and GitHub. Linear and GitHub
have no transactions, so the local files carry the evidence that lets a restart
tell what has been done.

```
person ──moves──▶ Linear ◀──poll── gateway loop ──claims──▶ trigger store (wakes)
                    ▲                   │
                    │                   ▼
                    │            trigger runner ──▶ orchestrator loop ──▶ agents
                    │                   │ artifact, intent (files)
                    └── commit effects ◀┤
        GitHub ◀── git effect, merge ───┘ receipt, terminal wake (files)
```

Three workflows go through that path:

* **decomposition**: a project moved to Planned becomes a set of issues, or a
  question to the person;
* **execution**: an issue moved to Ready becomes a branch and a pull request
  (the readiness manifest of the repository keeps this one switched off);
* **review**: a pull request gets an `af-review` status; a green one is merged,
  or parked for a person when the issue carries the human-review label.

Beside the gateway, the same machine runs CLI commands, an MCP server (planning
tools), a background listener that owns a gateway, and the promotion tools that
turn evaluation results into pull requests against the prompts. They share
files, and locks guard the files.

### Components

| Component | State | Operations | Made correct by |
|---|---|---|---|
| Cross-process file lock `E/exclusive-file-lock.mjs` | a directory with `owner.json`, tombstones | acquire, recover a dead owner, release | at most one live holder; a dead holder blocks nobody; a holder loses the lock only by releasing it (all three but for one window, see 3.1) |
| Local trigger store `L/local-trigger-store.mjs` | wakes with leases, intents, receipts, park records, merge outcomes (one JSON file and two directories) | enqueue, claim, mutation start, complete, reconcile, park, shed | a terminal wake stays; evidence is written before what it is evidence of |
| Gateway loop `L/gateway-loop.mjs` | in-flight keys, backoff, replay queue | startup recovery, drain, poll of eight targets, dispatch | everything polled is eventually decided; one job per issue; pending effects before new ones |
| Trigger runner `L/trigger-runner.mjs` | one run: workspace, artifact, lease | decomposition, execution and review runs, terminal commit | an outcome is frozen before it is applied; failures after mutation start are never "rejected" |
| Decomposition workflow `L/workflows/decomposition/` | the run artifact | eligibility, apply commit, apply pause | idempotent effects; nothing filed twice |
| Merge gate `L/human-review-gate.mjs`, `L/linear/merge-pr-effect.mjs` | park record, merge outcome | decide, park, bounce, merge | only a reviewed head that a person accepted is merged |
| Review workflow `L/review/`, `L/workflows/review/` | `af-review` status | discover, review, post, move | a verdict is posted on the head it is about |
| Execution workflow `L/workflows/execution/`, git effect `execution/integrations/git/` | branch, worktree, git intent | preflight, commit, push, pull request, fix, replay | one branch and one pull request per issue; nothing of others is overwritten |
| Orchestrator loop `E/orchestrator-loop.mjs` | turn, round and budget counters, transcript | turn, subagent round, continuation, terminal | bounded; every turn and spawn on record once; a session under the run it belongs to |
| Commit effects `E/commit-effects.mjs` | receipts of one commit | probe, apply, verify in order | no success without verification |
| OAuth and credential store `L/linear-oauth.mjs`, `L/linear-credential-store.mjs` | token set, a predecessor's, pending refresh | read, promote, refresh, clear, clean up | a rotated refresh token is not lost; a removed grant stays removed |
| Promotion `L/promotion/`, scanner `L/promotion-scanner/` | registry, ledger, branch, locks | lock, propose, publish | one proposal per candidate; one controller at a time |
| Background listener `L/background-listener.mjs` | gateway lock, start lock, metadata, ready files, stop requests | start, stop, sweep, status | only its own stop ends a listener; a failed start leaves none; a listener that got a request to stop ends |
| Team registry, setup, migration `L/` | team folders and registry | create, rename, remove | a crash leaves a team that can be completed or removed |

`PROJECT.json` lists the rest (configuration, traces, evaluation, CLI views, MCP
tools) with the reason each is left out.

### What is hard here

* **Interleaving.** Processes share files through locks that are themselves made
  of several file system calls; poll, gate and review job share an issue; people
  act in Linear and GitHub between any two requests.
* **Crashes.** The process can die between any two of: artifact, intent, request,
  receipt, wake, intent removal.
* **Unanswered requests.** A request can take effect and lose its answer; the
  replay repeats it.
* **Stale reads.** A decision is made on a snapshot of several reads; a person
  may have moved on.
* **Liveness.** A note, a record or a key that is left behind stops a project or
  an issue without a word.

The individual places are in `PROJECT.json` under `hazards`.

## 2. Plan

Letters name the modules; `PROJECT.json` uses them too.

| | Module | Models | Proofs | State |
|---|---|---|---|---|
| A | `ExclusiveFileLock` | the cross-process lock, one file system call per step | exclusion, recovery, type | done |
| B | `DecompositionRun` | a project, the gateway that decomposes it, its files, restart and drain | evidence invariants, refinement of `DurableCommit` | done |
| C | `MergeGate` | one issue under review: poll, gate, merge, park, review job | outcome and park invariants | done |
| D | `TimedFileLock` | the create-exclusive locks with time-based recovery of the promotion controller and the scanner | exclusion and fresh owners while takeovers are guarded | done |
| E | `TeamCredential` | one Team's grant: token provider, credential store, setup, cleanup | the stored grant works | done, but for the shared bootstrap secret |
| F | `ExecutionRun` | one issue, its branch and pull request, its runs, the intents before the push, replay and resume | the branch is kept, builds on its own, pushes are on record | done |
| G | `OrchestratorLoop` | turns, repair, subagents, bounds, lineage, sessions and their resume, over the runs of one issue | bounds, lineage, session stamps | done, but for evidence and outputs |
| H | `BackgroundListener` | start and stop commands, listeners, foreground gateways, their files | a started listener is kept | done |
| I | `PromotionRun` | registry, branch, pull request, ledger (uses D) | one proposal | planned |
| J | `TriggerStore` | two instances over one file, a dispatch that never returns | - | planned |

Abstract specification: `DurableCommit`, what a
decomposition promises (a commit is promised before its first change, each change
happens once and in order, and it is acknowledged and given up only when all of it
is there), is implemented by `DecompositionRun`.
A mutex as the abstract specification of the locks was dropped: neither of them
implements one, see 3.1 and 3.4.
## 3. The modules

Each component module declares its bounds as CONSTANTS, has one action per
operation, handler or file system or network call, and ends with its properties.
Operators under a "Fault" comment are changed forms of the operator below
them; nothing in `Next` uses them. They are what `PROJECT.json` swaps in to show
that each property can tell a bug from the code.

### 3.1 ExclusiveFileLock (A)

*State.* `lockPath` is the token in `owner.json` at the lock path, `stale` and
`released` are the tombstone and release directories with the token that is
really inside each; per process `pc`, the `attempt` of the acquire loop, the
owner it has `seen`, and `alive`. `freed` is history: the tokens whose owner has
released the lock.

*Actions.* `Acquire`, `Lstat`, `Publish`, `ReadOwner`, `Judge`, `Quarantine`,
`Verify` are the file system calls of `acquireExclusiveFileLock` in order;
`Release`, `ReleaseRename`, `ReleaseVerify` those of the release; `Exit` ends a
process anywhere. No order of them is excluded.

*Abstractions.* A token is `<<process, serial>>`, and `MaxSerial` bounds the
publications of each process. Pids are not reused. The
plain-file owner of an old version is left out.

*The window of the code.* A process reads an owner, that owner releases *and
exits*, and only then the reader asks whether its pid is alive. It is not, and no
tombstone of it exists, so the reader renames whatever is at the lock path, which
can be the lock of a third, live process. The check after the rename throws and the
lock is not put back: two processes hold it. The comment in `installCompleteLock`
(`E/exclusive-file-lock.mjs:58-60`) says that this cannot happen;
`RecoverySlotHoldsItsOwner` states the comment, and the run `lock_race` shows the
trace that violates it.

*What the code does promise.* `Overtaken` is that event, as one sees it in the
files: a lock in the slot of an owner that *released*. `DelayedReclaimersAreHarmless`
says that it is the only way in: reclaimers of an owner that died with the lock,
however many and however delayed, meet its tombstone, the "compare-and-swap
witness". `ExclusiveUnlessOvertaken` and `HolderKeepsLock` say that two hold the
lock, or a live holder loses it, only after that event.

*Fairness.* A process that wants the lock calls again, and a call that is
running goes on: weak fairness of each process's acquire steps and of the two
renaming steps of a release that has begun. Nobody has to begin a release.
`OrphanIsRecovered` holds in the window, too.

### 3.2 DecompositionRun (B)

*State.* Linear's project (status, who wrote the body, how many issues,
updates and comments carry which key, relations); the files (wake, artifact,
intents, receipts, suppression notes); the process (`pc`, its `run`, whether it
is a fresh run or a replay, `outcome`, what the poll has `seen`, what this pass
has `filed`, the startup `queue`).

*Actions.* `Polling` is list and decide: replay before suppression before a
fresh claim. `Running` goes up to the durable artifact and the apply gate.
`Applying` has one action for each request of a commit and of a pause, where each may be
refused, or done and unanswered. `Ending` is receipt, terminal wake, intent
removal, failure. `Recovery` is startup: `recoverLocalMutationReconciliation`
over the wakes, then the drain. `Crash` and the moves and edits of people may
come between any two steps.

*Abstractions.* One project at a time (the gateway runs one dispatch); the
outcome of the orchestrator loop is a choice of `Think`; a digest of an artifact
always matches; evaluation runs and behaviour candidates are left out.

*What it implements.* `DurableCommit`: `CommitIsDurable` is its `Spec`, where what is
promised are the intents whose artifact is a commit, and what is acknowledged are the
runs with a receipt; issues, relations and updates are those of Linear. A pause
promises nothing in this sense.

*Fairness.* `WF_vars(Gateway)`: the process is scheduled and someone starts it
again after a crash. Crashes, faults and moves are bounded, so "eventually" is
read after the last of them (`Quiet`).

### 3.3 MergeGate (C)

*State.* The issue (`status`, `label`), its pull request (`pr`, `head`, the
status of each head in `checks`), the store (`record`, `outcome`, `wake`), the
gateway (`inFlight` key, `pc`, the snapshot being `seen`, the snapshot the
dispatch was decided on in `first`, `goal`, `result`, `conflict`), the review job
(`stage`, `reviewing`). `accepted` and `byGate` are history: which heads a person
accepted, and that the gate asked for the merge.

*Actions.* `Scan` reads the snapshot in three requests and decides by the table
of `decideMergeGateAction`, one operator per row group (`Merges`, `Parks`,
`Invalidates`, `BouncesToTodo`, `BouncesToReview`, `Forgets`, `Leaves`). `Moving`
is the park record and the guarded move, guard and request apart. `Merging` is
the second snapshot, the request with its expected head, verification, outcome,
record removal, and the bridge to the fix loop after a conflict. `Review` runs
beside the gate. `Failures` and `People` interleave with all of it.

*Abstractions.* One pull request per issue; review texts, comments and labels
other than human-review are left out; a poll that finds no park record takes the
short cut of the code as part of `Leaves` and `DecideNothing` with the same
result.

*Fairness.* `WF(Gate)` and `WF(Review)`: the poll repeats and a dispatch runs to
its end. Which of the lists that name the issue asks next is left open.


### 3.4 TimedFileLock (D)

*State.* `file` is the lock file (owner, `acquiredAt`, whether the record has
been written, mtime), `recovery` the controller's second file, `clock` the time;
per process `alive`, `pc`, `at` (the `acquiredAt` of its call) and `current` (the
record it read and judged). `kind`, chosen at the start, says whose lock it is: the
controller's, with the recovery file, or the scanner's, without. `unguarded` is
history, see below.

*Actions.* `Acquire`, `Create` (open with `wx`), `Fill` (write the record), `Read`
and `Age` (the two judgements of staleness), `Recover`, `Recheck`, `Remove`, the
second `Create` and `Fill`, and `DropRecovery` are the calls of the acquire in
order; `Release` compares, `Unlink` removes; `Exit` ends a process anywhere, also
between creating its lock and writing its record; `Tick` is time. Every run has both
kinds.

*What is assumed.* These locks ask no one whether an owner is alive; they trust
the clock. `Timely` lets time pass only while every live process is inside its stale
window (`TimelySpec`); without it a slow owner is taken for a dead one, as the code
means it. Nothing else is assumed.

*Where a fresh owner is clobbered.* Both files say that the recheck before the
removal is there "so a fresh owner is not clobbered" (`L/promotion/controller-lock.mjs:80`,
`L/promotion-scanner/lock.mjs:75`). In two cases it cannot see one, and the model
records the takeover in `unguarded` (`Unguarded`):

* the stale lock has no record, because its owner died before it wrote one: the
  recheck compares nothing with nothing, also when a new owner has just created its
  file (`controller-lock.mjs:107`, after the mtime branch at :68-74);
* two scanners have rechecked one stale lock: without the recovery file the slower
  removes the lock of the faster.

Up to then two never hold the lock (`ExclusiveWhileGuarded`) and no takeover removes
a fresh owner (`FreshOwnerStays`); after it, either may happen, which the model
has and no property forbids.

*A recovery file that stays.* A controller that dies during a takeover leaves its
recovery file. Nothing clears it, and every later call that finds the lock stale answers
`promotion_in_progress`, although the comment at `controller-lock.mjs:126` says that a
stale recovery lock only causes a retry. `OrphanIsTakenOver` has this as its exception
(`Abandoned`); for every other orphan, with a record or without, it says that the
lock is taken over.

*Abstractions.* The record is `<<process, acquiredAt>>`; file system errors other
than "exists" and "missing" are left out.

*Fairness.* Time passes as long as `Timely` allows; a process that wants the
lock asks again, and a call that is running goes on.

### 3.5 TeamCredential (E)

*State.* `secret` is the Team's token set in the credential store, `prior` a
predecessor's that is promoted on first use, `lock` the credential promotion lock.
Per client: `pc`, `cached` (the provider's `cachedTokenSet`, which is also the
`pendingTokenSet` of a setup), `observed` (`observedStoredTokenSet`), `checked`
(`cleanupChecked`), `full` (may refresh and promote: a doctor without the operation
lock may not) and `attempt` of a setup. Linear: `honored` refresh tokens, `expired`
access tokens, `issued` numbers. `dropped` is a history variable: why a new refresh
token was never stored.

*Clients.* Gateways hold the gateway lock, doctors the operation lock if they get
it, setups the setup lock, cleanups all three, readers (the planning tools) none.
So a gateway, a doctor and a setup do refresh at the same time; what keeps them
apart is comparing before replacing or deleting, under the credential lock, and
Linear's taking a refresh token once.

*Actions.* `Resolve`, `ReadTokenSet`, `Promote`, `Promoted` are a read;
`RefreshOAuthToken`, `RefreshFailed`, `AnswerLost` the request; `Commit`,
`CommitBusy`, `Replace` the write. `Authorize`, `NotAuthorized`, `Reopen`,
`Verified`, `GiveUp`, `Clear`, `DeleteTokenSetIfEqual` are the setup of a saved Team:
first without the browser, then up to two times with it, its token held back until
the workspace is verified. `DeleteTokenSet`, `Wipe`, `Wiped` are the cleanup; `Crash`
and `Expire` the environment.

*Abstractions.* A token is the number of the exchange it came from. A read that
finds the lock taken has no effect but its error, so `Resolve` waits. The setup of a
*new* Team, the validation before it and the checkout-wide bootstrap secret that
several Teams share (never deleted by a promotion) are left out: the theorem
`RemovedIsRemoved` is about Teams without that one.

*Fairness.* A call or a setup that has begun goes on; a gateway's read of the store
does not collide with another one for ever (strong fairness of `Resolve`: the lock
is held for a read or a write, and the gateway polls again and again).

### 3.6 ExecutionRun (F)

*State.* The issue in Linear (`status`, whether a remediation issue `blocked` it,
whether its fingerprint is `suppressed`); GitHub (`head` of the issue branch, the
history `past` and the `maker` of each commit, the pull requests `prs`, the heads
with a failed review `red`); the files (`runs`: the state, resumable session and
produced pull request of each run, `lease` of the latest wake, `intent` and the
order `older` in which the intents were written); the job in flight (`pc`, why it
was started `kind`, its `run`, the intent `pend` it builds on, `tip` of its
clone, the status it has `loaded`). `blind` is history: runs whose intent was
cleared because a read of the branch failed.

*Actions.* `Decide` is a poll: a Todo issue is escalated, resumed, replayed or run
afresh (`FixOfTodo`), an In Progress issue resumed or escalated (`FixOfProgress`).
`RunStep` goes from the claimed wake through clone, preflight and claim to the end
of the agents' work or a pause. `EffectStep` is the git commit effect call by call:
ownership probe, intent, push, probe, second intent, clearing of the prior intent,
pull request, move, record, end of the wake. `ReplayStep` is what a poll does with
an intent that no run is going to use. `Crash`, `LeaseExpires`, `Sweep`, the review
(which is `MergeGate`'s subject and here only sends back, merges or asks) and a
person, who may move the issue, push, rewrite, delete the branch and close the pull
request, interleave with all of it.

*Abstractions.* A commit is a number. Each push may land and answer, land and lose
its answer, be refused, or not land. An escalation is its two requests at once: when
one fails, the issue stays and the next poll decides again. A rejected run that has
no intent and no commit leaves nothing that a decision reads, so its number is used
again. A push without an answer has landed by the next step of the gateway or never
will: one that lands right after the probe leaves what one leaves that landed before a
probe that failed, which the model has; one that lands after a later step is left out. Sessions are taken as persisted at the end of a run, the readiness manifest
as released, and nobody but the factory creates the branch.

*Exceptions of the liveness property.* `Stranded` names what the code leaves to a
person without telling: a branch that no intent has seen (every run then ends
rejected, and the poll starts another), an oldest intent without a head, and a
replay that is refused. The model shows each of them; no text in the
repository promises otherwise, so they are exceptions, not findings.

*A pause without a pull request.* The comment of a pause says to answer and to move
the issue back to Todo (`L/linear/needs-principal-comment.mjs:23`). In the model an
issue whose first run paused is escalated again at every such move: the run is
resumable, `decideReadyIssueFixMode` looks for its pull request, finds none and
returns `ready_fix_pr_missing` (`L/gateway-loop.mjs:2749`). So the comment promises
what the code does not do. `IssueIsAnswered` does not count that escalation as an
answer: it is about the issues that a run can take (`Workable`), and this one is not.

*Fairness.* The gateway polls (`WF(Decide)`), its job goes on or is lost in a crash
(`WF(Job)`), leases run out. Nothing is assumed of the review and of people.

### 3.7 BackgroundListener (H)

*State.* The files: who owns `gateway.lock` (`lock`) and `start.lock`
(`startLock`), whom `background-listener.json` describes (`metadata`), the `ready`
files and stop `requests`. The processes: `life` of every listener and foreground
gateway, whether its loop was told to end (`aborted`), `start` and `stop` the place
and the answer of each command, `target` what a stop has found. `asked` is history:
whom a request was written for.

*Actions.* A listener: `AcquireGateway`, `StartupDone` (writes the metadata),
`WriteReady`, `ConsumeStopRequest` (its watcher runs beside the loop), `LoopEnds`,
`LoopThrows`, `Exit`. A start: `Begin`, `AfterLock`, `SweepAndSpawn`, `ReadReady`,
`Verify`, `NotReady`, and `WaitForConcurrentStart`. A stop: `BeginStop`,
`RequestStop`, `AwaitRelease`, `AwaitExit`, `DropMetadata`, `StopSweeps`. Every
process may be killed at any of its steps.

*Abstractions.* A listener bears the name of the start that spawned it, for the
pid, the control token and the nonce. The locks are taken and given back in one step
and free when their owner is dead; the window of 3.1 is left out here. Two steps of a start that nothing can tell apart are one:
the first look at the gateway lock with the request for the start lock, the sweep
with the spawn. A timeout may come at any time.

*What a stop may miss.* The sweep of a start, or of another stop, removes all
request files, also one that was written a moment before for a listener that has not
read it. The stop then says "Teami is finishing current work before it stops
listening" (`L/cli/runner-command.mjs:224`) and the listener goes on, against
`README.md:260` ("`gateway stop` turns it off"). The model has it, and no property
claims the contrary: `TakenStopEnds` is about the requests and signals that a
listener got, wherever in its startup it got them.

*Fairness.* A process or a command that has begun goes on (`WF` of each one's
steps); nobody has to begin.

### 3.8 OrchestratorLoop (G)

*State.* The locals of `runOrchestratorLoop`: where it is (`pc`), `rounds`
(`roundsUsed`), `invocations`, the warm start that is waiting (`warm`) or in use
(`using`), the `handle` of the orchestrator's session, the turn that authored last
(`author`), the `child` counter of spawns, and `lineage` with its `cursor`. Around it
what one run leaves for the next: where the `issue` is, whether it has a pull
request (`pr`), the `row` of the latest run that is not rejected, and the run in
flight (`runs`, why it was started `kind`, its configuration `conf`).

*Actions.* `RunFresh`, `ResumeWarm`, `ResumeCold`, `Escalate` are what the gateway
decides of an issue that is sent back. A turn is `BeginTurn` and one of: it cannot go on with
the session (`WarmUnavailable`), it is rejected (`TurnRejected`) and repaired or not
(`RepairExhausted`), it invokes a subagent, misses one, pauses, commits, or spoils
the output. A spawn ends (`SubagentEnds`), or does not parse and is tried once more
(`SubagentUnparsed`, `RepairEnds`, `RepairFails`). `BoundsBreach` is the bound.
`RunIsLost` is a lease that could not be renewed, or the death of the process, at any
point; `Commits`, `Pauses`, `FailsClosed` are the terminal commit (which is
`ExecutionRun`'s subject).

*Abstractions.* A session is the `run_id` stamped on it. What an agent says is a
choice of the action that follows. That a lineage record is dropped when
its texts cannot be projected (the `catch` of `appendLineageSidecarTurn`) is left
out, and so are evidence, spans and the references that a turn names itself.

*What `SessionIsOwn` says of the code* (a theorem; no run checks it)*.* The first turn of a warm run stamps the
session it reports with the *prior* run (`L/orchestrator-turn.mjs:334`). If no later
turn reports a session, the row of this run holds one of another run, and the next
time the issue is sent back `warm_resume_prior_run_session_mismatch`
(`L/gateway-loop.mjs:3476`) escalates it, as the code stands. The second conjunct says that this is the
only way to such a row. It takes a runtime with persisted sessions and a warm
continuation that is switched on, which the shipped configuration has not.

*Fairness.* Every command of a runtime has a timeout, so a loop that runs goes on
(`WF` of its steps and its end); nobody has to send an issue back.
## 4. The runs

| Run | Instance | Shows |
|---|---|---|
| `lock` | 3 processes, one of them publishes twice, fair | two hold the lock, or a live holder loses it, only after a reclaimer was overtaken by a release; reclaimers of the dead do no harm; the lock of a dead owner leaves the path as long as anyone asks |
| `lock_race` | the same | **violation**: a fresh, live owner is moved into the recovery slot of one that released |
| `timed` | both kinds, 3 processes, window 2, clock to 4, fair | two hold it only after an unguarded takeover; no other takeover removes a fresh owner; an orphan is taken over unless a recovery file was abandoned |
| `run` | 2 runs, 2 issues and their relation, 2 crashes, 2 faults, 2 moves, fair | nothing twice, one decomposition, a `DurableCommit`, no change without an intent; startup settles what it finds; a Planned project is served |
| `run_release` | 2 runs, 1 move | **violation**: a project a person released is escalated again |
| `cred` | a gateway, a doctor, a setup, a cleanup; rotating tokens, 2 exchanges, 1 fault, fair | the grant is kept but for four named events; no refresh undoes a later grant; a gateway gets its token |
| `cred_busy` | also a reader, no faults | **violation**: a refresh that meets a reader loses the grant |
| `listener` | 2 starts, 1 stop, 1 foreground gateway, 1 kill or failing poll, fair | no overlap ends a listener that was started; a failed start leaves none; a listener that got a request or a signal to stop ends |
| `listener_stop` | 2 starts, 1 stop, no kill | **violation**: a listener that was started cannot be found by a stop |
| `gate` | 2 heads, 2 moves, 1 fault, 1 crash, fair | only accepted, reviewed heads are merged; outcomes are true; green heads are decided, acceptances land, records settle |
| `exec` | 3 runs, 4 commits, 2 reviews that send back, 2 faults, 2 acts of a person, fair | nothing is taken off the branch; what is built on is accounted for; completed means pushed; pushed means recorded; an issue that a run can take gets to a review or to a person |
| `loop` | 3 runs, 3 decision turns a run, fair | the bounds and the lineage; a loop ends |

*Why the bounds are enough.* The lock needs three processes for its race (an
owner, a reader and the third that is harmed) and a second publication so that a
token can be an old one of a live process. The timed locks need a window of more
than one unit, so that a young and an old lock differ, a clock that reaches two
windows, so that a taken-over lock can be old in its turn, and three processes:
an owner that is gone and two that recover at once. A run needs a second run to meet the
intents and issues of the first, two issues for a partial commit, a crash in the
commit and one in its replay. The gate needs two heads for drift, two moves for a
label and a status, one fault for a lost answer and one crash for a half-done
move. The credential needs two exchanges, so that a refresh can be overtaken by a
person's grant, and one fault for a crash or a lost answer; a second client of a
role adds nothing, as the cross-process lock of the role excludes it (a reader
only reads; the theorems hold for any number). An execution run needs a third run so that an
intent can be neither the oldest nor the newest, four commits for two runs and a
person on both sides of each, and two faults for a lost push and the crash after
it. The loop needs three turns for a subagent between two others, and three runs for
a row, its warm resume and what is made of that one's row. A listener needs a second start and a stop whose steps fall among those of the
first, a foreground gateway that takes the lock in between, and one kill; a second
stop would only repeat the first one's sweep. The runs that show
a violation are as small as they can be, so that their traces are short.

*Deadlock* is not checked: when the bounds are spent and nothing is left to poll,
the system rests.

### What the violations say

* `lock_race`: `installCompleteLock` says that a stable non-empty tombstone keeps a
  delayed reclaimer from moving a fresh owner into an old owner's slot. An owner that
  *released* leaves no tombstone; when it exits before the reader asks whether it
  is alive, the reader moves the next owner's lock away, throws, and a third gets it.
* `run_release`: the needs-principal comment tells the person to move the project
  back to Planned. A pause keeps its mutation intent (it never gets a receipt), and
  the next poll replays the pause and escalates the project again.
* `cred_busy`: a refresh exchanges the token first and asks for the credential
  lock afterwards, once. If a reader has it, the error says to retry after it
  finishes; but the new token set exists only in that process, nothing writes it
  later, and a retry exchanges a refresh token that Linear no longer takes. With
  refresh tokens that are not rotated it is harmless.
* `listener_stop`: `gateway start` says that the listener keeps running and that
  `gateway stop` ends it. A stop waits until the process that has released the
  lock is gone, up to two seconds; a listener that is started in that time writes
  its metadata, and the stop then removes the file without looking whose it is.
  Every later stop takes the running listener for one in a terminal.

Other disagreements of text and code that the models have, told in part 3 and under
`hazards`, and that no run states: a fresh owner that is clobbered by an unguarded
takeover and a recovery file that stays (3.4), a paused issue without a pull request
that is escalated again (3.6), a stop request that is swept (3.7), and an issue of a
merged pull request that goes back to Todo when the answer to the merge was lost
(`L/gateway-loop.mjs:2335`).
## 5. The proofs

| Module | Theorem | For every value of the constants |
|---|---|---|
| `ExclusiveFileLockProofs` | `TypeCorrect`, `Excludes`, `RecoveryIsSound`, `LockStaysWithHolder` | under `Spec`: at most one live holder, and a live holder keeps its lock, until a reclaimer is overtaken by a release; reclaimers of a dead owner never move another's lock |
| `TimedFileLockProofs` | `TypeCorrect`, `Excludes`, `FreshOwnersStay` | under `TimelySpec`, for both kinds: at most one holder, and a takeover removes only stale locks, until a takeover is unguarded |
| `DecompositionRunProofs` | `TypeCorrect`, `Replayable`, `NeverTwice`, `OneDecomposes`, `ReceiptsAreTrue`, `TerminalsAreEarned`, `TracedChanges`, `FinalWakes`, `ImplementsCommit` | the evidence invariants; one run at most decomposes the project; a terminal wake has earned its state and stays; the run refines `DurableCommit` |
| `TeamCredentialProofs` | `TypeCorrect`, `GrantKept`, `NewerTokensStay`, `RemovedIsRemoved` | the stored grant works unless one of four events dropped it; no refresh undoes a later grant or a removal |
| `ExecutionRunProofs` | `TypeCorrect`, `BranchKept`, `CompletedPushed`, `BuildsOnOwn`, `PushesRecorded` | no push takes a commit off the branch or builds on what is not accounted for; a completed run has pushed and has its pull request on record; what runs pushed is on record in the intents |
| `BackgroundListenerProofs` | `TypeCorrect`, `ListenerKept` | a listener that was started ends only by its own stop, a failure or a kill |
| `OrchestratorLoopProofs` | `TypeCorrect`, `BoundsAreKept`, `LineageHolds`, `SessionsAreOwn` | the bounds hold; everything that ran is on record once; only a warm resume leaves a session of another run |
| `MergeGateProofs` | `TypeCorrect`, `OutcomesAreTrue`, `MergesAccepted`, `DoneAfterMerge`, `ParkIsRecorded`, `RecordsKept` | outcomes, Done and park records are true; what the gate merges was reviewed and accepted |

The assumptions are the ones the modules name: `NoToken` is no token, the bounds
are naturals, a commit has issues, dependencies are pairs of issue keys and no keys themselves, the roles people use are roles.
No theorem assumes finiteness of the processes, issues or heads.

*Lock.* Mutual exclusion is not inductive. The invariant holds until a reclaimer is
overtaken: a live owner between its acquire and the rename of its release has its
token at the lock path (`OwnersHaveTheLock`); an owner that was read is at the path,
in its own tombstone, or has released (`ReadOwnerIsAccountedFor`); and one that was
judged stale is dead (`StaleOwnerIsDead`). So a rename that moves another's lock
either meets the tombstone, or is that of an owner in `freed`. That tokens are not
published twice (`TokensPublished`) keeps them apart.

*Timed lock.* A process about to remove the file must know it is stale still, and
that follows from no single step: `OneRecovers` (the recovery file is held by one
live process), `Judged` and `Doomed` (what was read as stale is still what is there),
`Owned` (a live owner's record is at the path, or being written), and `InTime`, which
is where `Timely` enters. `Owned` and `Doomed` hold until a takeover is unguarded; that
a guarded one keeps them is the recheck's doing in the scanner, and the recovery
file's in the controller.

*Run.* The invariant ties each program point to the files that must be there:
past `gate` the artifact is durable, past `intent` the intent is, past `receipt`
the effects hold. The recovery steps preserve it because each reads only files
the invariant speaks of. `Single` is what keeps a second run out: a run that has
decomposed the project is known by its intent or by the issues it left, and a fresh
run on its way to its intent has seen neither. It rests on `IssuesAssumption`, as
`validateFinalIssues` lets no commit without issues through.

*Durable commit.* `DurableCommit` has no crashes, faults or replays. Its promise is
the mutation intent of a run whose artifact is a commit, and a run is acknowledged
when it has a receipt. A request that is repeated, refused or that found its change
made is a stutter, and so is every read, crash and recovery that only touches wakes;
`WriteIntent` is the promise, and the three ways in which an intent goes (after the
receipt, in the recovery, after a verified replay) all release it. `Single` and
`Untouched` show that nothing is there when a promise is made; `Ordered` adds what a
pass of the commit has behind it at each point: what it has filed is in Linear, every
issue before the first relation, every relation before the update, and all of it
when a replay counts as verified.

*Gate.* `IInv` says that a dispatch is aimed at what it was decided on
(`Aimed`: a park has a green head, a Done move follows a merge), that what landed
stays landed (`Landed`), that a review's head is one that exists (`Reviewed`),
and that outcomes are true. That the merged head was accepted takes three more
parts. `Keyed`: while the gate holds the key, no review runs. `Followed`: no review
and no record is ahead of the branch. `Consented`: what a snapshot says of the label
or of Done was an acceptance of the head of that moment, and a head pushed after
that read has no review and gets none before the snapshot is used, so it is not
green and not merged.

*Credential.* That the grant works is not inductive: `PriorIsOld` (a predecessor's
copy is left only while nothing was exchanged), `Numbered` (tokens are numbered as
issued), `Newer` and `Private` (a token set on its way to the store works, is newer
than what it replaces, and nobody else has its refresh token) are what makes the
exchange and the replacement keep it. `LockKept` gives each step in the store the
store to itself.

*Execution.* `Owner` says whose the job is (a replay works for another run and only
opens and moves), `Headed` that an open pull request has a branch, `Progress` what a
run at a program point has behind it: past the push a commit of its own, past
`open` a pull request, past `record` its number. Each action moves the
branch, the pull requests, the run rows and the job in one of a few ways
(`BranchMoves`, `PullMoves`, `RowStep`, `JobMoves`, `IntentMoves`, `PlaceMoves`), and
the inductive step goes by those instead of by the actions.

That the factory builds on its own, and that what it pushed is on record, takes the
rest. `Grown`: a commit contains only earlier ones and all that those contain, and
`Known`: nobody remembers a commit that was not made, so a step leaves every history
that anyone holds as it was. `Written` and `Rowed` say where the intent and the row of
the run in flight stand at each point. `Based`: a working directory that has the
branch has the head of the intent in it, and what a person pushed since is not in it;
so a fast-forward can only land on the very head that the clone was made of. After
the push, whatever a run has made on the branch is in the run's own commit, which is why
the older intent may be cleared then (`Kept`). `Held` is the delicate part. A
replay whose intent has seen no head takes the branch as it finds it, and a person
may have replaced it: an intent may then hold a head with nothing of the
factory in it. No run builds on it, because the replay only takes an issue that no run
can take (`Replays`), and that stays so while the intent is there
(`Locked`): in Todo a run whose session is lost is replayed or shown to a person,
never resumed, and a fresh run needs that there is no intent. `Builds` is what is left
for the push: what a run builds on is accounted for.

*Listener.* `Placed` says where a start command's listener can be (a command that
has not spawned has none; a verified one has been announced), and `Aimed` that
only a listener that was asked to end, or whose start is failing, is told to: that
is what the step that ends a loop needs to know.

*Loop.* `Counted` adds to the bounds how many spawns a subagent has left, `Chained`
to the lineage that its cursor is one record behind and that the ids of a run grow,
`Stamps` to the sessions that a warm start is the session of the row it resumes and
is waiting only before the first turn. How the lineage goes on is three lemmas: a
turn that did not run, a turn, a spawn.

Some theorems are about properties that no run checks any more, as TLC has nothing to
add to the proof: `SessionsAreOwn`, `ReceiptsAreTrue` (its part of `CommitIsDurable`), `TerminalsAreEarned`, `FinalWakes`, `RecordsKept`
and `RemovedIsRemoved`.

*Only model-checked.* Liveness (with fairness), `OrphanIsTakenOver`, `IssueIsAnswered`, `FailedStartEnds`, `TakenStopEnds`, and
the violations.

## 6. Not modelled, and why

Rendering, prompts, screens and views hold no state another part relies on. The
classification of file changes and the promotion policy are decisions over texts,
for which a reference definition would repeat the code. Agent processes and
the two services are the environment. Evaluation and Phoenix measurements only
read. The rest is in the plan.
