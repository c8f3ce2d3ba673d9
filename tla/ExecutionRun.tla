---------------------------- MODULE ExecutionRun ----------------------------
(***************************************************************************)
(* One issue of the execution workflow, from Todo to In Review: what the   *)
(* gateway decides about it (gateway-loop.mjs), the run it starts          *)
(* (trigger-runner.mjs), the clone that run works in                       *)
(* (git-repo-materializer.mjs), its commit effect with the intent written  *)
(* before the push (git-repo-commit-effect.mjs), and the replay of what a  *)
(* crash left.  The review and a person are the environment.               *)
(*                                                                         *)
(* A commit is a number; past[c] is the history that it contains.  The     *)
(* number 0 stands for no branch, and as a local head for the base branch. *)
(* An intent holds the head the run has seen on GitHub, 0 before the push. *)
(* A rejected run leaves no trace that anything reads: its number is taken *)
(* again unless it has pushed or has an intent.                            *)
(***************************************************************************)
EXTENDS Naturals, FiniteSets, Sequences

CONSTANTS
    MaxRuns,        \* bound: runs that leave a trace
    MaxCommits,     \* bound: commits on the branch, of runs and of a person
    MaxRounds,      \* bound: reviews that send the issue back
    MaxFaults,      \* bound: crashes, failed requests, failed runs
    MaxEdits,       \* bound: acts of a person
    Nothing         \* no intent

ASSUME BoundAssumption ==
    /\ MaxRuns \in Nat \ {0} /\ MaxCommits \in Nat \ {0} /\ MaxRounds \in Nat
    /\ MaxFaults \in Nat /\ MaxEdits \in Nat

Runs == 1..MaxRuns
Commits == 1..MaxCommits
Heads == 0..MaxCommits

ASSUME NothingAssumption == Nothing \notin Heads /\ Nothing \notin [run : 0..MaxRuns, head : Heads]

VARIABLES
    status,     \* the status of the issue in Linear
    blocked,    \* an open remediation issue blocks it
    suppressed, \* its fingerprint is suppressed
    head,       \* GitHub: the head of the issue branch
    made,       \* how many commits there are
    past,       \* commit -> the commits it contains, itself included
    maker,      \* commit -> the run that pushed it, 0 for a person
    prs,        \* the pull requests of the branch
    red,        \* heads with a failed review
    runs,       \* the run rows and the artifacts they point to
    lease,      \* the wake of the latest run has a live lease
    intent,     \* run -> the head in its mutation intent
    older,      \* run -> the runs whose intents were written before its own
    pc,         \* where the job in flight is
    kind,       \* why it was started
    run,        \* its run
    pend,       \* pendingGitIntent: the intent it builds on
    tip,        \* HEAD of its working directory
    loaded,     \* the status it has read
    rounds, faults, edits,
    blind       \* history: runs whose intent was cleared unseen

linear == <<status, blocked, suppressed>>
branch == <<head, made, past, maker>>
github == <<branch, prs, red>>
intents == <<intent, older>>
job == <<pc, kind, run, pend, tip, loaded>>
local == <<runs, lease>>
history == <<rounds, faults, edits, blind>>
vars == <<linear, github, local, intents, job, history>>

Statuses == {"todo", "progress", "review", "principal", "done"}
Pendings == [run : 0..MaxRuns, head : Heads]
Points == {"idle", "start", "clone", "preflight", "claim", "work", "pause", "own", "push",
           "pushed", "timed", "failed", "prior", "open", "move", "record", "finish",
           "escalate", "replay"}
Rows == [state : {"none", "running", "completed", "paused", "rejected", "dead"},
         session : BOOLEAN, pr : Nat, asked : BOOLEAN]

TypeOK ==
    /\ status \in Statuses /\ blocked \in BOOLEAN /\ suppressed \in BOOLEAN
    /\ head \in Heads /\ made \in Heads /\ head <= made
    /\ past \in [Commits -> SUBSET Commits] /\ maker \in [Commits -> 0..MaxRuns]
    /\ prs \in Seq({"open", "closed", "merged"}) /\ red \subseteq Commits
    /\ runs \in [Runs -> Rows] /\ lease \in BOOLEAN
    /\ intent \in [Runs -> Heads \cup {Nothing}] /\ older \in [Runs -> SUBSET Runs]
    /\ pc \in Points /\ kind \in {"fresh", "warm", "cold", "replay"} /\ run \in 0..MaxRuns
    /\ pend \in Pendings \cup {Nothing} /\ tip \in Heads /\ loaded \in Statuses
    /\ rounds \in 0..MaxRounds /\ faults \in 0..MaxFaults /\ edits \in 0..MaxEdits
    /\ blind \subseteq Runs

NoRow == [state |-> "none", session |-> FALSE, pr |-> 0, asked |-> FALSE]

Idle ==
    /\ pc = "idle" /\ kind = "fresh" /\ run = 0 /\ pend = Nothing /\ tip = 0 /\ loaded = "todo"

\* A new issue; or one that another machine has worked on and whose review
\* has failed: its branch and its pull request are there, its runs are not.
Init ==
    /\ blocked = FALSE /\ suppressed = FALSE
    /\ past = [c \in Commits |-> {c}] /\ maker = [c \in Commits |-> 0]
    /\ \/ status = "todo" /\ head = 0 /\ made = 0 /\ prs = <<>> /\ red = {}
       \/ status = "progress" /\ head = 1 /\ made = 1 /\ prs = <<"open">> /\ red = {1}
    /\ runs = [r \in Runs |-> NoRow] /\ lease = FALSE
    /\ intent = [r \in Runs |-> Nothing] /\ older = [r \in Runs |-> {}]
    /\ Idle
    /\ rounds = 0 /\ faults = 0 /\ edits = 0 /\ blind = {}

-----------------------------------------------------------------------------
At(l) == pc = l
Goto(l) == pc' = l /\ UNCHANGED <<kind, run, pend, tip, loaded>>
Over == pc' = "idle" /\ kind' = "fresh" /\ run' = 0 /\ pend' = Nothing /\ tip' = 0 /\ loaded' = "todo"
Fault == faults < MaxFaults /\ faults' = faults + 1 /\ UNCHANGED <<rounds, edits, blind>>
Calm == UNCHANGED history

\* merge-base --is-ancestor; a commit contains itself.
Contains(c, h) == c # 0 /\ h \in past[c]

\* writeMutationIntent: one file per run, written anew at each call.
WriteIntent(r, h) ==
    /\ intent' = [intent EXCEPT ![r] = h]
    /\ older' = [q \in Runs |-> IF q = r THEN {p \in Runs \ {r} : intent[p] # Nothing} ELSE older[q] \ {r}]

ClearIntent(r) ==
    /\ intent' = [intent EXCEPT ![r] = Nothing]
    /\ older' = [q \in Runs |-> IF q = r THEN {} ELSE older[q] \ {r}]

\* readGitReplayPending.
Oldest(r) == intent[r] # Nothing /\ older[r] = {}
NoIntent == \A r \in Runs : intent[r] = Nothing

\* latestExecutionRunForReadyFix: rejected runs are passed over.
Seen(r) == runs[r].state \notin {"none", "rejected"}
Latest(r) == Seen(r) /\ \A q \in Runs : Seen(q) => q <= r
NoRun == \A r \in Runs : ~Seen(r)
\* runIsResumable and resolveDriverSessionHandle.
Resumable(r) == runs[r].session

\* latestProducedPrIdentityForReadyFix.
Produced(n) ==
    IF \A r \in Runs : runs[r].pr = 0 THEN n = 0
    ELSE \E r \in Runs : /\ runs[r].pr # 0 /\ n = runs[r].pr
                         /\ \/ Latest(r)
                            \/ /\ \A q \in Runs : Latest(q) => runs[q].pr = 0
                               /\ \A q \in Runs : q > r => runs[q].pr = 0

\* The number of a new run: after all that left a trace.
Traced(r) == Seen(r) \/ intent[r] # Nothing \/ \E c \in 1..made : maker[c] = r
New(r) == ~Traced(r) /\ \A q \in Runs : Traced(q) <=> q < r
Room == made < MaxCommits /\ \E r \in Runs : New(r)

-----------------------------------------------------------------------------
(* What the gateway decides *)

\* locatePullRequestForProducedIdentity and locatePullRequestForIssue.
ByNumber(n) == IF prs[n] = "open" THEN "found" ELSE "other"
ByBranch ==
    IF prs = <<>> THEN "absent" ELSE IF prs = <<"open">> THEN "found" ELSE "other"

\* A failed read of the produced one falls back on the branch name.
Locate(l) ==
    \/ \E n \in 0..Len(prs) : Produced(n) /\ l = (IF n = 0 THEN ByBranch ELSE ByNumber(n)) /\ Calm
    \/ l \in {ByBranch, "unread"} /\ Fault

\* decideReadyIssueFixMode of an issue in Todo.
FixOfTodo(l) ==
    LET defect == \E r \in Runs : Latest(r) /\ ~Resumable(r)
    IN  IF NoRun \/ (defect /\ Produced(0) /\ l = "absent") THEN "none"
        ELSE IF ~defect /\ l = "found" THEN "resume" ELSE "escalate"

\* And of one in In Progress: allowColdReconstruct.
FixOfProgress(l) ==
    IF (\E r \in Runs : Latest(r) /\ runs[r].asked) \/ l # "found" \/ head \notin red
    THEN "escalate" ELSE "resume"

Launch(k, l, p) ==
    /\ pc' = l /\ kind' = k /\ pend' = p
    /\ UNCHANGED <<run, tip, loaded>>

\* Fault: the name of a status that the Team does not have.
EscalateByRole == status' = "human" /\ UNCHANGED <<blocked, suppressed>>

\* applyReadyIssueNeedsPrincipalEscalation: the comment, then the status.  When
\* one of the two requests fails, the next poll decides again.
Escalate == status' = "principal" /\ UNCHANGED <<blocked, suppressed>>

EscalateTodo ==
    /\ At("idle") /\ status = "todo"
    /\ \E l \in {"found", "absent", "other", "unread"} : Locate(l) /\ FixOfTodo(l) = "escalate"
    /\ Escalate
    /\ UNCHANGED <<github, local, intents, job>>

ResumeTodo ==
    /\ At("idle") /\ status = "todo" /\ Room
    /\ Locate("found") /\ FixOfTodo("found") = "resume"
    /\ Launch("warm", "start", Nothing)
    /\ UNCHANGED <<linear, github, local, intents>>

\* Without a prior run GitHub is not asked.
ReplayTodo ==
    /\ At("idle") /\ status = "todo" /\ FixOfTodo(ByBranch) = "none"
    /\ \E r \in Runs : Oldest(r) /\ Launch("replay", "replay", [run |-> r, head |-> intent[r]])
    /\ Calm
    /\ UNCHANGED <<linear, github, local, intents>>

RunFresh ==
    /\ At("idle") /\ status = "todo" /\ FixOfTodo(ByBranch) = "none" /\ NoIntent
    /\ ~blocked /\ ~suppressed /\ Room
    /\ Launch("fresh", "start", Nothing)
    /\ Calm
    /\ UNCHANGED <<linear, github, local, intents>>

\* processInProgressIssueCandidate leaves a run with a live lease alone.  The
\* latest run has no pull request on record here: Record comes after MoveToReview.
ResumeProgress ==
    /\ At("idle") /\ status = "progress" /\ ~lease /\ Room
    /\ Locate("found") /\ FixOfProgress("found") = "resume"
    /\ \/ \E r \in Runs : Latest(r) /\ Resumable(r) /\ Launch("warm", "start", Nothing)
       \/ \E r \in Runs : Latest(r) /\ ~Resumable(r) /\ Launch("cold", "start", [run |-> 0, head |-> head])
       \/ NoRun /\ Launch("cold", "start", [run |-> 0, head |-> head])
    /\ UNCHANGED <<linear, github, local, intents>>

EscalateProgress ==
    /\ At("idle") /\ status = "progress" /\ ~lease
    /\ \E l \in {"found", "absent", "other", "unread"} : Locate(l) /\ FixOfProgress(l) = "escalate"
    /\ Escalate
    /\ UNCHANGED <<github, local, intents, job>>

-----------------------------------------------------------------------------
(* The run *)

\* The wake is claimed, the run row written, the issue and the intents read.
Start ==
    /\ At("start")
    /\ \E r \in Runs :
        /\ New(r) /\ run' = r
        /\ runs' = [runs EXCEPT ![r] = [NoRow EXCEPT !.state = "running"]]
    /\ lease' = TRUE /\ loaded' = status
    /\ \/ NoIntent /\ pend' = pend
       \/ \E q \in Runs : Oldest(q) /\ pend' = [run |-> q, head |-> intent[q]]
    /\ pc' = "clone" /\ Calm
    /\ UNCHANGED <<linear, github, intents, kind, tip>>

\* finishWakeFromRunnerResult and completeWake.
Complete(state, session) ==
    /\ runs' = [runs EXCEPT ![run].state = state, ![run].session = session]
    /\ lease' = FALSE

\* A replay has no wake and no run row of its own.
End(state, session) ==
    /\ IF kind = "replay" THEN UNCHANGED local ELSE Complete(state, session)
    /\ Over

\* A terminal result (failed_closed): the wake is rejected, and that is all.
Refuse == End("rejected", FALSE)

\* Fault: nobody is told.
ThrowSilently == Complete("rejected", FALSE) /\ Over

\* An exception before any mutation: a resume that ends so goes to a person.
Throw ==
    /\ Complete("rejected", FALSE)
    /\ IF kind = "fresh" THEN Over ELSE Goto("escalate")

\* A pending effect: the wake is dead, its session can be resumed.
Pend == End("dead", TRUE)

\* materializeGitRepo: the base branch, or the issue branch when the intent
\* has seen its head and the branch still contains it.
Resumes == pend # Nothing /\ pend.head # 0

Materialize ==
    /\ At("clone") /\ (Resumes => Contains(head, pend.head))
    /\ tip' = (IF Resumes THEN head ELSE 0)
    /\ pc' = "preflight" /\ Calm
    /\ UNCHANGED <<linear, github, local, intents, kind, run, pend, loaded>>

\* The branch is gone or was rewritten, or a request failed.
NotMaterialized ==
    /\ At("clone")
    /\ (Resumes /\ ~Contains(head, pend.head) /\ Calm) \/ Fault
    /\ Throw
    /\ UNCHANGED <<linear, github, intents>>

\* executionPreflightRemediationBlocked: a remediation issue blocks this one,
\* or after too many of them a person is asked; either may fail.
NotReady ==
    /\ At("preflight") /\ Fault
    /\ \/ blocked' = TRUE /\ UNCHANGED <<status, suppressed>> /\ End("completed", FALSE)
       \/ Escalate /\ End("completed", FALSE)
       \/ UNCHANGED linear /\ End("dead", FALSE)
    /\ UNCHANGED <<github, intents>>

Ready ==
    /\ At("preflight") /\ Goto("claim") /\ Calm
    /\ UNCHANGED <<linear, github, local, intents>>

\* claimExecutionIssueInProgress asks the status that was read at the start.
Claim ==
    /\ At("claim") /\ Goto("work") /\ Calm
    /\ status' = IF loaded = "progress" THEN status ELSE "progress"
    /\ UNCHANGED <<blocked, suppressed, github, local, intents>>

\* Any request up to here may fail.
RunFails ==
    /\ pc \in {"preflight", "claim", "work"} /\ Fault /\ Throw
    /\ UNCHANGED <<linear, github, intents>>

\* The loop ends without a commit or a question.
LoopFails ==
    /\ At("work") /\ Fault /\ Refuse
    /\ UNCHANGED <<linear, github, intents>>

WorkDone ==
    /\ At("work") /\ Goto("own") /\ Calm
    /\ UNCHANGED <<linear, github, local, intents>>

\* The artifact of a resumed run says that it paused.
WorkPauses ==
    /\ At("work") /\ Goto("pause") /\ Calm
    /\ runs' = [runs EXCEPT ![run].asked = kind # "fresh"]
    /\ UNCHANGED <<lease, linear, github, intents>>

\* The comment and the status: both served, one of them in doubt, or refused.
Pause ==
    /\ At("pause")
    /\ \/ Escalate /\ Complete("paused", TRUE) /\ Over /\ Calm
       \/ (Escalate \/ UNCHANGED linear) /\ Pend /\ Fault
       \/ UNCHANGED linear /\ Refuse /\ Fault
    /\ UNCHANGED <<github, intents>>

-----------------------------------------------------------------------------
(* The git commit effect *)

\* ensureRemoteBranchIsOwnedBeforePush.  The checkout knows the ancestry only
\* of the commits it has fetched.
Owned ==
    \/ head = 0
    \/ /\ Resumes
       /\ head = pend.head \/ (Contains(head, pend.head) /\ Contains(tip, head))

\* prepareCommit, then the intent before the push.
Own ==
    /\ At("own") /\ Owned
    /\ WriteIntent(run, 0) /\ Goto("push") /\ Calm
    /\ UNCHANGED <<linear, github, local>>

\* The branch is not the factory's, or there is nothing to commit or too much
\* of it; after such a diff a fresh run is not repeated.
NotOwned ==
    /\ At("own") /\ Refuse
    /\ \/ ~Owned /\ Calm /\ UNCHANGED suppressed
       \/ Fault /\ suppressed' \in {suppressed, suppressed \/ kind = "fresh"}
    /\ UNCHANGED <<status, blocked, github, intents>>

\* Fault: git push --force.
FastForwardForced == TRUE

\* A plain push lands only on what the new commit contains.
FastForward == head = 0 \/ Contains(tip, head)

Lands ==
    /\ FastForward /\ made < MaxCommits
    /\ made' = made + 1 /\ head' = made' /\ tip' = made'
    /\ past' = [past EXCEPT ![made'] = {made'} \cup (IF tip = 0 THEN {} ELSE past[tip])]
    /\ maker' = [maker EXCEPT ![made'] = run]
    /\ UNCHANGED <<kind, run, pend, loaded, prs, red>>

\* pushBranch: it lands and says so; it lands, but the answer is lost; it does
\* not land.  One without an answer that lands right after the probe of the
\* branch leaves what one leaves that landed before a probe that failed
\* (NotObserved with a fault, ForgetUnseen); one that lands after a later step
\* of the gateway is left out.
Push ==
    /\ At("push")
    /\ \/ Lands /\ pc' = "pushed" /\ Calm
       \/ Lands /\ pc' \in {"timed", "failed"} /\ Fault
       \/ ~FastForward /\ Goto("failed") /\ Calm /\ UNCHANGED github
       \/ pc' \in {"timed", "failed"} /\ Fault /\ UNCHANGED <<kind, run, pend, tip, loaded, github>>
    /\ UNCHANGED <<linear, local, intents>>

\* Fault: the push is taken for done when there is a branch.
LandedSomehow == pc \in {"pushed", "timed", "failed"} /\ head # 0

\* The push succeeded and the branch is what was pushed.
Landed == At("pushed") /\ head = tip

Observe ==
    /\ Landed
    /\ WriteIntent(run, head) /\ Goto("prior") /\ Calm
    /\ UNCHANGED <<linear, github, local>>

\* The push is in doubt, the branch moved again or could not be read.
NotObserved ==
    /\ pc \in {"pushed", "timed", "failed"}
    /\ \/ ~Landed /\ (head # 0 \/ ~At("failed")) /\ Calm
       \/ ~At("failed") /\ Fault
    /\ Pend
    /\ UNCHANGED <<linear, github, intents>>

\* Forgetting: the intent of a push that is believed not to have landed.
ForgetUnseen(r) ==
    /\ faults < MaxFaults /\ faults' = faults + 1 /\ blind' = blind \cup {r}
    /\ ClearIntent(r)
    /\ UNCHANGED <<rounds, edits>>

\* Fault: the branch is not read again.
PushFailedUnread ==
    /\ At("failed") /\ ClearIntent(run) /\ Calm /\ Refuse
    /\ UNCHANGED <<linear, github>>

PushFailed ==
    /\ At("failed")
    /\ (head = 0 /\ ClearIntent(run) /\ Calm) \/ ForgetUnseen(run)
    /\ Refuse
    /\ UNCHANGED <<linear, github>>

\* clearPriorDifferentRunGitIntent.
ClearPrior ==
    /\ At("prior") /\ Goto("open") /\ Calm
    /\ IF pend # Nothing /\ pend.run # 0 THEN ClearIntent(pend.run) ELSE UNCHANGED intents
    /\ UNCHANGED <<linear, github, local>>

OpenIs(n) == n # 0 /\ prs[n] = "open"

\* ensurePullRequest: the open one, or a new one.
EnsurePullRequest ==
    /\ head # 0
    /\ prs' = IF OpenIs(Len(prs)) THEN prs ELSE Append(prs, "open")

OpenPullRequest ==
    /\ At("open") /\ EnsurePullRequest /\ Goto("move") /\ Calm
    /\ UNCHANGED <<branch, red, linear, local, intents>>

\* The branch is gone, or a request failed, perhaps after it was served.
NotOpened ==
    /\ pc \in {"prior", "open"} /\ Pend
    /\ \/ At("open") /\ head = 0 /\ Calm /\ UNCHANGED prs
       \/ Fault /\ UNCHANGED prs
       \/ At("open") /\ Fault /\ EnsurePullRequest
    /\ UNCHANGED <<branch, red, linear, intents>>

\* The issue in review effect.
MoveToReview ==
    /\ At("move") /\ Calm
    /\ IF kind = "replay" THEN Over ELSE Goto("record")
    /\ status' = "review"
    /\ UNCHANGED <<blocked, suppressed, github, local, intents>>

\* The update fails, perhaps after it was served; or its target is not
\* resolved, which is terminal whatever the reason.
NotMoved ==
    /\ At("move") /\ Fault
    /\ \/ Pend /\ status' \in {status, "review"}
       \/ Refuse /\ UNCHANGED status
    /\ UNCHANGED <<blocked, suppressed, github, intents>>

\* The produced identities go to the artifact.  A branch has one open pull
\* request at most, the last one.
Record ==
    /\ At("record") /\ Goto("finish") /\ Calm
    /\ runs' = [runs EXCEPT ![run].pr = Len(prs)]
    /\ UNCHANGED <<lease, linear, github, intents>>

\* deadLetterWake keeps no session.
NotRecorded ==
    /\ At("record") /\ Fault /\ End("dead", FALSE)
    /\ UNCHANGED <<linear, github, intents>>

Finish ==
    /\ At("finish") /\ End("completed", TRUE) /\ Calm
    /\ UNCHANGED <<linear, github, intents>>

\* A resume that threw is shown to a person.
ShowResume ==
    /\ At("escalate") /\ Over
    /\ (Escalate /\ Calm) \/ (UNCHANGED linear /\ Fault)
    /\ UNCHANGED <<github, local, intents>>
-----------------------------------------------------------------------------
(* The replay of an intent: replayPendingExecutionIssue *)

\* Its working directory is gone, so only the head it has seen is its own.
Replay ==
    /\ At("replay") /\ head # 0 /\ pend.head \in {0, head}
    /\ IF pend.head = head /\ OpenIs(Len(prs))
       THEN Goto("move") /\ UNCHANGED intents
       ELSE Goto("open") /\ WriteIntent(pend.run, head)
    /\ Calm
    /\ UNCHANGED <<linear, github, local>>

ReplayRefused ==
    /\ At("replay") /\ head # 0 /\ pend.head \notin {0, head}
    /\ Over /\ Calm
    /\ UNCHANGED <<linear, github, local, intents>>

\* A branch that cannot be read is taken for one that is not there.
ReplayForgets ==
    /\ At("replay") /\ Over
    /\ (head = 0 /\ ClearIntent(pend.run) /\ Calm) \/ ForgetUnseen(pend.run)
    /\ UNCHANGED <<linear, github, local>>

-----------------------------------------------------------------------------
(* The rest of the gateway, and its environment *)

\* The row of the run stays as it is, and so does its lease.
Crash ==
    /\ ~At("idle") /\ Over /\ Fault
    /\ UNCHANGED <<linear, github, local, intents>>

LeaseExpires ==
    /\ At("idle") /\ lease /\ lease' = FALSE
    /\ UNCHANGED <<linear, github, runs, intents, job, history>>

\* sweepIssueReplayMarker; a parked issue is not done.
Sweep ==
    /\ At("idle") /\ status = "done"
    /\ \E r \in Runs : intent[r] # Nothing /\ ClearIntent(r)
    /\ UNCHANGED <<linear, github, local, job, history>>

\* The review fails and sends the issue back.
ReviewSendsBack ==
    /\ At("idle") /\ status = "review" /\ OpenIs(Len(prs))
    /\ rounds < MaxRounds /\ rounds' = rounds + 1
    /\ red' = red \cup {head} /\ status' = "todo"
    /\ UNCHANGED <<blocked, suppressed, branch, prs, local, intents, job, faults, edits, blind>>

\* It succeeds and the pull request is merged.
ReviewMerges ==
    /\ At("idle") /\ status = "review" /\ OpenIs(Len(prs))
    /\ prs' = [prs EXCEPT ![Len(prs)] = "merged"] /\ status' = "done"
    /\ UNCHANGED <<blocked, suppressed, branch, red, local, intents, job, history>>

ReviewAsks ==
    /\ At("idle") /\ status = "review" /\ Escalate
    /\ UNCHANGED <<github, local, intents, job, history>>

\* The issue that blocked this one is done.
Repaired ==
    /\ blocked /\ blocked' = FALSE
    /\ UNCHANGED <<status, suppressed, github, local, intents, job, history>>

Edit == edits < MaxEdits /\ edits' = edits + 1 /\ UNCHANGED <<rounds, faults, blind>>

\* A person answers, and perhaps rewrites the issue.
PersonMoves ==
    /\ status \in {"progress", "review", "principal"} /\ status' = "todo"
    /\ suppressed' \in {suppressed, FALSE} /\ Edit
    /\ UNCHANGED <<blocked, github, local, intents, job>>

\* A commit on top of the branch, or one that replaces it.
PersonPushes ==
    /\ head # 0 /\ made + 1 < MaxCommits /\ Edit
    /\ made' = made + 1 /\ head' = made'
    /\ \E below \in {{}, past[head]} : past' = [past EXCEPT ![made'] = {made'} \cup below]
    /\ UNCHANGED <<maker, prs, red, linear, local, intents, job>>

Closed == IF OpenIs(Len(prs)) THEN [prs EXCEPT ![Len(prs)] = "closed"] ELSE prs

\* GitHub closes the pull request of a branch that is deleted.
PersonDeletes ==
    /\ head # 0 /\ head' = 0 /\ prs' = Closed /\ Edit
    /\ UNCHANGED <<made, past, maker, red, linear, local, intents, job>>

PersonCloses ==
    /\ OpenIs(Len(prs)) /\ prs' = Closed /\ Edit
    /\ UNCHANGED <<branch, red, linear, local, intents, job>>

Decide == EscalateTodo \/ ResumeTodo \/ ReplayTodo \/ RunFresh \/ ResumeProgress \/ EscalateProgress
RunStep ==
    \/ Start \/ Materialize \/ NotMaterialized \/ NotReady \/ Ready \/ Claim \/ RunFails
    \/ LoopFails \/ WorkDone \/ WorkPauses \/ Pause
EffectStep ==
    \/ Own \/ NotOwned \/ Push \/ Observe \/ NotObserved \/ PushFailed \/ ClearPrior
    \/ OpenPullRequest \/ NotOpened \/ MoveToReview \/ NotMoved \/ Record \/ NotRecorded
    \/ Finish \/ ShowResume
ReplayStep == Replay \/ ReplayRefused \/ ReplayForgets
Job == RunStep \/ EffectStep \/ ReplayStep
Review == ReviewSendsBack \/ ReviewMerges \/ ReviewAsks
Person == Repaired \/ PersonMoves \/ PersonPushes \/ PersonDeletes \/ PersonCloses

Next == Decide \/ Job \/ Crash \/ LeaseExpires \/ Sweep \/ Review \/ Person

Spec == Init /\ [][Next]_vars

\* The gateway polls, its job goes on, and leases run out.
FairSpec == Spec /\ WF_vars(Decide) /\ WF_vars(Job) /\ WF_vars(LeaseExpires)

-----------------------------------------------------------------------------
(* Properties *)

\* No step of the gateway takes anything off the branch: what was there when it
\* pushed, a person's commits included, is in what it pushed.
BranchIsKept ==
    [][head' # head /\ edits' = edits => head' # 0 /\ (head = 0 \/ head \in past'[head'])]_vars

\* "The factory never builds on states it cannot account for": what a run
\* pushes onto a branch contains a commit of a run, or one whose review failed.
BuildsOnItsOwn ==
    [][head' # head /\ edits' = edits /\ head # 0 =>
        \E c \in past[head] : maker[c] # 0 \/ c \in red]_vars

\* A run that is completed has its commit on GitHub and its pull request on
\* record, whatever was lost between them.
CompletedIsPushed ==
    \A r \in Runs : runs[r].state = "completed" /\ runs[r].session =>
        runs[r].pr # 0 /\ \E c \in 1..made : maker[c] = r

\* What a run pushed stays on record until the issue is done: by its own
\* intent or by a later one that contains it.  A failed read of the branch is
\* the one thing that makes the gateway forget.
Recorded(c) ==
    \E r \in Runs : /\ intent[r] # Nothing
                    /\ r = maker[c] \/ (intent[r] # 0 /\ c \in past[intent[r]])
PushedIsRecorded ==
    status # "done" /\ head # 0 /\ blind = {} =>
        \A c \in past[head] : maker[c] # 0 => Recorded(c)

\* An issue in In Progress, or one in Todo that the gateway can start or resume,
\* gets to a review or to a person, unless its branch has no intent or an
\* oldest one that has not seen it (then every run ends rejected), or one whose
\* replay is refused, or it is suppressed or blocked, or the bounds are reached.
\* An issue that the gateway can only hand to a person again, such as one whose
\* run paused before it had a pull request, is not counted as answered.
Workable ==
    \/ status = "progress"
    \/ /\ status = "todo"
       /\ \E n \in 0..Len(prs) :
            Produced(n) /\ FixOfTodo(IF n = 0 THEN ByBranch ELSE ByNumber(n)) # "escalate"
Stranded ==
    /\ head # 0
    /\ \/ NoIntent
       \/ \E r \in Runs :
            Oldest(r) /\ (intent[r] = 0 \/ (intent[r] # head /\ FixOfTodo(ByBranch) = "none"))
IssueIsAnswered ==
    Workable ~>
        status \in {"review", "principal", "done"} \/ Stranded \/ suppressed \/ blocked \/ ~Room

=============================================================================
