------------------------- MODULE ExecutionRunProofs -------------------------
(***************************************************************************)
(* What ExecutionRun guarantees for any number of runs, commits, reviews,  *)
(* faults and acts of a person.                                            *)
(***************************************************************************)
EXTENDS ExecutionRun, SequenceTheorems, TLAPS

\* TypeOK by parts.
LinearOK == status \in Statuses /\ blocked \in BOOLEAN /\ suppressed \in BOOLEAN
BranchOK ==
    /\ head \in Heads /\ made \in Heads /\ head <= made
    /\ past \in [Commits -> SUBSET Commits] /\ maker \in [Commits -> 0..MaxRuns]
PullsOK == prs \in Seq({"open", "closed", "merged"}) /\ red \subseteq Commits
RunsOK == runs \in [Runs -> Rows] /\ lease \in BOOLEAN
IntentsOK == intent \in [Runs -> Heads \cup {Nothing}] /\ older \in [Runs -> SUBSET Runs]
JobOK ==
    /\ pc \in Points /\ kind \in {"fresh", "warm", "cold", "replay"} /\ run \in 0..MaxRuns
    /\ pend \in Pendings \cup {Nothing} /\ tip \in Heads /\ loaded \in Statuses
CountersOK ==
    /\ rounds \in 0..MaxRounds /\ faults \in 0..MaxFaults /\ edits \in 0..MaxEdits
    /\ blind \subseteq Runs

LEMMA Parts ==
    TypeOK <=> LinearOK /\ BranchOK /\ PullsOK /\ RunsOK /\ IntentsOK /\ JobOK /\ CountersOK
BY DEF TypeOK, LinearOK, BranchOK, PullsOK, RunsOK, IntentsOK, JobOK, CountersOK

\* Whose the job is: a run's own, or a replay of another one's intent, which
\* only opens the pull request and moves the issue.
Owner ==
    /\ kind = "replay" => pc \in {"replay", "open", "move"}
    /\ pc \notin {"idle", "start"} /\ kind # "replay" => run \in Runs
    /\ pc = "replay" => kind = "replay" /\ pend # Nothing /\ pend.run \in Runs

\* An open pull request has a branch.
Headed == OpenIs(Len(prs)) => head # 0

\* How far a run has got: it has pushed, its pull request is there, and on record.
MadeBy(r) == \E c \in 1..made : maker[c] = r
Progress ==
    /\ pc \in {"pushed", "prior", "open", "move", "record", "finish"} /\ kind # "replay"
           => MadeBy(run)
    /\ pc \in {"move", "record"} => Len(prs) # 0
    /\ pc \in {"record", "finish"} => kind # "replay"
    /\ pc = "finish" => runs[run].pr # 0

\* The history of the branch: a commit contains itself and only earlier ones,
\* all that they contain included; those not made yet are nobody's.
Grown ==
    /\ \A c \in 1..made : c \in past[c] /\ past[c] \subseteq 1..c
    /\ \A c \in 1..made : \A d \in past[c] : past[d] \subseteq past[c]
    /\ \A c \in Commits : c > made => maker[c] = 0

\* What the gateway remembers of commits are commits that were made.
Known ==
    /\ tip <= made
    /\ \A r \in Runs : intent[r] # Nothing => intent[r] <= made
    /\ pend # Nothing => pend.head <= made

\* Where the intent of the run in flight stands: none, written before the push,
\* written again with the head that was seen; and it builds on another one's.
Before == {"clone", "preflight", "claim", "work", "pause", "own"}
Pushes == {"push", "pushed", "timed", "failed"}
Written ==
    /\ pc \in Before => intent[run] = Nothing
    /\ pc \in Pushes => intent[run] = 0
    /\ pc = "prior" => intent[run] = tip
    /\ pc \in {"open", "move"} /\ kind # "replay" => intent[run] \notin {0, Nothing}
    /\ pc = "start" => pend = Nothing \/ pend.run = 0
    /\ pc \in Before \cup Pushes \cup {"prior"} => pend = Nothing \/ pend.run # run

\* Whose row is there: that of the run in flight, and that of an intent that
\* has not seen a head.  An issue that is done is done with.
RunInFlight == pc \notin {"idle", "start", "escalate"} /\ kind # "replay" => runs[run].state = "running"
UnseenHasRow == \A r \in Runs : intent[r] = 0 => Seen(r)
Rowed ==
    /\ RunInFlight
    /\ UnseenHasRow
    /\ status = "done" => pc = "idle"

\* A working directory that has the branch has it from the intent's head on, and
\* what was pushed since is not in it; what the run has pushed is all there is
\* of runs.
Based ==
    /\ pc \in {"preflight", "claim", "work", "pause", "own", "push"} /\ tip # 0 =>
          /\ Resumes /\ pend.head \in past[tip]
          /\ head = 0 \/ head = tip \/ head > tip
    /\ pc \in {"pushed", "prior"} =>
          /\ tip # 0 /\ maker[tip] = run
          /\ head # 0 => \A c \in past[head] : maker[c] # 0 => c \in past[tip]

\* Every commit of a run in the history of h is on record.
Covered(h) == h # 0 => \A c \in past[h] : maker[c] # 0 => Recorded(c)

Kept == status # "done" /\ blind = {} => Covered(head) /\ Covered(tip)

\* The latest run cannot be resumed, which sends an issue in Todo to a person
\* or to the replay: no run can start.
Defect == \E r \in Runs : Latest(r) /\ ~Resumable(r)
Locked == status # "progress" /\ (pc = "idle" \/ kind = "replay") /\ Defect

\* A replay is of an intent as it is, and of an issue that no run can take.
Replays ==
    pc = "replay" => intent[pend.run] = pend.head /\ status = "todo" /\ (NoRun \/ Defect)

\* The history of h has a commit of a run, or one whose review failed.
Ours(h) == \E c \in past[h] : maker[c] # 0 \/ c \in red

\* A replay may take over a head that is not ours, and then no run starts
\* until the intent is gone.
Held == \A r \in Runs : intent[r] \in Commits => Ours(intent[r]) \/ Locked
Builds == pc # "idle" /\ kind # "replay" /\ Resumes => Ours(pend.head)

IInv ==
    /\ TypeOK /\ Owner /\ Headed
    /\ Progress /\ CompletedIsPushed
    /\ Grown /\ Known /\ Written /\ Rowed /\ Based /\ Replays /\ Kept /\ Held /\ Builds

\* The wake ends, and not as a run that is done.
Dropped ==
    \/ Complete("rejected", FALSE) \/ Complete("dead", FALSE) \/ Complete("dead", TRUE)
    \/ Complete("paused", TRUE) \/ Complete("completed", FALSE)

\* The moves of a job that Progress tells apart.
JobMove ==
    \/ UNCHANGED <<pc, kind, run, runs>>
    \/ pc' \notin {"pushed", "prior", "open", "move", "record", "finish"}
    \/ Lands /\ pc' = "pushed" /\ pc = "push"
    \/ UNCHANGED <<kind, run>> /\ <<pc, pc'>> \in {<<"pushed", "prior">>, <<"prior", "open">>}
    \/ OpenPullRequest
    \/ MoveToReview /\ pc' = "record" /\ kind' = kind /\ kind # "replay" /\ run' = run
    \/ Record
    \/ Replay /\ pc' \in {"open", "move"} /\ kind' = "replay" /\ (pc' = "move" => OpenIs(Len(prs)))

-----------------------------------------------------------------------------
\* Reading the pull requests costs a fault at most.
LEMMA LocateTyped ==
    ASSUME CountersOK, NEW l, Locate(l)
    PROVE  faults' \in 0..MaxFaults /\ rounds' = rounds /\ edits' = edits /\ blind' = blind
BY BoundAssumption DEF Locate, Fault, Calm, history, CountersOK

\* What is counted.
LEMMA Counting ==
    ASSUME CountersOK, Fault \/ Calm \/ Edit
    PROVE  CountersOK'
BY BoundAssumption DEF CountersOK, Fault, Calm, Edit, history

\* The end of a job.
LEMMA Ending ==
    /\ \A st, se : End(st, se) => Over
    /\ Refuse => Over
    /\ Pend => Over
    /\ Throw => Over \/ Goto("escalate")
BY DEF End, Refuse, Pend, Throw

LEMMA Exits ==
    /\ NotReady \/ LoopFails \/ Pause \/ NotRecorded \/ Finish => Over
    /\ RunFails => Over \/ Goto("escalate")
BY Zenon DEF NotReady, LoopFails, Pause, NotRecorded, Finish, RunFails, End, Refuse, Pend, Throw

\* The end of a wake.
LEMMA Completing ==
    ASSUME RunsOK, NEW st \in {"completed", "paused", "rejected", "dead"}, NEW se \in BOOLEAN,
           Complete(st, se)
    PROVE  RunsOK'
<1> DEFINE g == [runs EXCEPT ![run] = [runs[run] EXCEPT !.state = st]]
<1>1. g \in [Runs -> Rows]
  <2>1. run \in Runs => [runs[run] EXCEPT !.state = st] \in Rows
    BY DEF RunsOK, Rows
  <2> QED
    BY <2>1 DEF RunsOK
<1>2. [g EXCEPT ![run] = [g[run] EXCEPT !.session = se]] \in [Runs -> Rows]
  <2>1. run \in Runs => [g[run] EXCEPT !.session = se] \in Rows
    BY <1>1 DEF Rows
  <2> HIDE DEF g
  <2> QED
    BY <1>1, <2>1
<1> QED
  BY <1>2 DEF Complete, RunsOK

\* A new commit.
LEMMA Commit ==
    ASSUME BranchOK, made < MaxCommits, made' = made + 1, head' = made',
           NEW P \in SUBSET Commits, past' = [past EXCEPT ![made'] = {made'} \cup P],
           maker' = maker \/ \E r \in 0..MaxRuns : maker' = [maker EXCEPT ![made'] = r]
    PROVE  BranchOK'
<1>1. made' \in Commits
  BY BoundAssumption DEF BranchOK, Commits, Heads
<1>2. past' \in [Commits -> SUBSET Commits]
  BY <1>1 DEF BranchOK
<1>3. maker' \in [Commits -> 0..MaxRuns]
  BY DEF BranchOK
<1> QED
  BY <1>1, <1>2, <1>3, BoundAssumption DEF BranchOK, Commits, Heads

LEMMA Pushing == ASSUME BranchOK, JobOK, Lands PROVE BranchOK'
<1>1. (IF tip = 0 THEN {} ELSE past[tip]) \in SUBSET Commits
  BY DEF BranchOK, JobOK, Heads, Commits
<1> QED
  BY <1>1, Commit DEF Lands, JobOK

\* The two operations on intents.
LEMMA Writing ==
    ASSUME IntentsOK, NEW r, NEW h \in Heads, WriteIntent(r, h)
    PROVE  IntentsOK'
BY DEF WriteIntent, IntentsOK

LEMMA Clearing ==
    ASSUME IntentsOK, NEW r, ClearIntent(r)
    PROVE  IntentsOK'
BY DEF ClearIntent, IntentsOK

\* The operations on the pull requests.
LEMMA Pulling ==
    ASSUME PullsOK
    PROVE  /\ Append(prs, "open") \in Seq({"open", "closed", "merged"})
           /\ Len(Append(prs, "open")) = Len(prs) + 1 /\ Len(prs) \in Nat
           /\ \A s \in {"closed", "merged"} : Len(prs) # 0 =>
                [prs EXCEPT ![Len(prs)] = s] \in Seq({"open", "closed", "merged"})
<1>1. Len(prs) \in Nat
  BY DEF PullsOK
<1>2. \A s \in {"closed", "merged"} : Len(prs) # 0 =>
        [prs EXCEPT ![Len(prs)] = s] \in Seq({"open", "closed", "merged"})
  BY <1>1, ExceptSeq DEF PullsOK
<1> QED
  BY <1>1, <1>2 DEF PullsOK

-----------------------------------------------------------------------------
\* The issue keeps its type.
LEMMA LinearTyping == LinearOK /\ JobOK /\ [Next]_vars => LinearOK'
<1> SUFFICES ASSUME LinearOK, JobOK, [Next]_vars PROVE LinearOK'
  OBVIOUS
<1> USE DEF LinearOK, JobOK, Statuses, linear, branch, github, intents, job,
  local, history, vars
<1>1. CASE EscalateTodo \/ ResumeTodo \/ ReplayTodo
  BY <1>1 DEF EscalateTodo, ResumeTodo, ReplayTodo, Escalate
<1>2. CASE RunFresh \/ ResumeProgress \/ EscalateProgress
  BY <1>2 DEF RunFresh, ResumeProgress, EscalateProgress, Escalate
<1>3. CASE Start \/ Materialize \/ NotMaterialized
  BY <1>3 DEF Start, Materialize, NotMaterialized, NoRow
<1>4. CASE NotReady \/ Ready \/ Claim \/ RunFails
  BY <1>4 DEF NotReady, Ready, Claim, RunFails, Escalate
<1>5. CASE LoopFails \/ WorkDone \/ WorkPauses \/ Pause
  BY <1>5 DEF LoopFails, WorkDone, WorkPauses, Pause, Escalate
<1>6. CASE Own \/ NotOwned
  BY <1>6 DEF Own, NotOwned
<1>7. CASE Push
  BY <1>7 DEF Push
<1>8. CASE Observe \/ NotObserved
  BY <1>8 DEF Observe, NotObserved
<1>9. CASE PushFailed \/ ClearPrior
  BY <1>9 DEF PushFailed, ClearPrior
<1>10. CASE OpenPullRequest \/ NotOpened
  BY <1>10 DEF OpenPullRequest, NotOpened
<1>11. CASE MoveToReview \/ NotMoved
  BY <1>11 DEF MoveToReview, NotMoved
<1>12. CASE Record \/ NotRecorded \/ Finish \/ ShowResume
  BY <1>12 DEF Record, NotRecorded, Finish, ShowResume, Escalate
<1>13. CASE Replay \/ ReplayRefused \/ ReplayForgets
  BY <1>13 DEF Replay, ReplayRefused, ReplayForgets, OpenIs
<1>14. CASE Crash \/ LeaseExpires \/ Sweep
  BY <1>14 DEF Crash, LeaseExpires, Sweep
<1>15. CASE ReviewSendsBack \/ ReviewMerges \/ ReviewAsks
  BY <1>15 DEF ReviewSendsBack, ReviewMerges, ReviewAsks, OpenIs, Escalate
<1>16. CASE Repaired \/ PersonMoves
  BY <1>16 DEF Repaired, PersonMoves, Edit
<1>17. CASE PersonPushes \/ PersonDeletes \/ PersonCloses
  BY <1>17 DEF PersonPushes, PersonDeletes, PersonCloses, Edit, Closed, OpenIs
<1>18. CASE UNCHANGED vars
  BY <1>18
<1> QED
  BY <1>1, <1>2, <1>3, <1>4, <1>5, <1>6, <1>7, <1>8, <1>9, <1>10, <1>11,
    <1>12, <1>13, <1>14, <1>15, <1>16, <1>17, <1>18 DEF Next, Decide, Job,
    RunStep, EffectStep, ReplayStep, Review, Person

\* The branch keeps its type.
LEMMA BranchTyping == BranchOK /\ JobOK /\ [Next]_vars => BranchOK'
<1> SUFFICES ASSUME BranchOK, JobOK, [Next]_vars PROVE BranchOK'
  OBVIOUS
<1> USE BoundAssumption DEF BranchOK, JobOK, Commits, Heads, linear, branch,
  github, intents, job, local, history, vars
<1>1. CASE EscalateTodo \/ ResumeTodo \/ ReplayTodo
  BY <1>1 DEF EscalateTodo, ResumeTodo, ReplayTodo, At
<1>2. CASE RunFresh \/ ResumeProgress \/ EscalateProgress
  BY <1>2 DEF RunFresh, ResumeProgress, EscalateProgress, At
<1>3. CASE Start \/ Materialize \/ NotMaterialized
  BY <1>3 DEF Start, Materialize, NotMaterialized, At, NoRow
<1>4. CASE NotReady \/ Ready \/ Claim \/ RunFails
  BY <1>4 DEF NotReady, Ready, Claim, RunFails, At
<1>5. CASE LoopFails \/ WorkDone \/ WorkPauses \/ Pause
  BY <1>5 DEF LoopFails, WorkDone, WorkPauses, Pause, At
<1>6. CASE Own \/ NotOwned
  BY <1>6 DEF Own, NotOwned, At
<1>7. CASE Push
  BY <1>7, Pushing DEF Push
<1>8. CASE Observe \/ NotObserved
  BY <1>8 DEF Observe, NotObserved, At
<1>9. CASE PushFailed \/ ClearPrior
  BY <1>9 DEF PushFailed, ClearPrior, At
<1>10. CASE OpenPullRequest \/ NotOpened
  BY <1>10 DEF OpenPullRequest, NotOpened, At
<1>11. CASE MoveToReview \/ NotMoved
  BY <1>11 DEF MoveToReview, NotMoved, At
<1>12. CASE Record \/ NotRecorded \/ Finish \/ ShowResume
  BY <1>12 DEF Record, NotRecorded, Finish, ShowResume, At
<1>13. CASE Replay \/ ReplayRefused \/ ReplayForgets
  BY <1>13 DEF Replay, ReplayRefused, ReplayForgets, At, OpenIs
<1>14. CASE Crash \/ LeaseExpires \/ Sweep
  BY <1>14 DEF Crash, LeaseExpires, Sweep, At
<1>15. CASE ReviewSendsBack \/ ReviewMerges \/ ReviewAsks
  BY <1>15 DEF ReviewSendsBack, ReviewMerges, ReviewAsks, At, OpenIs
<1>16. CASE Repaired \/ PersonMoves
  BY <1>16 DEF Repaired, PersonMoves, Edit
<1>17. CASE PersonPushes \/ PersonDeletes \/ PersonCloses
  <2>1. CASE PersonPushes
    <3>1. past[head] \in SUBSET Commits
      BY <2>1 DEF PersonPushes
    <3>2. made < MaxCommits
      BY <2>1 DEF PersonPushes
    <3> QED
      BY <2>1, <3>1, <3>2, Commit DEF PersonPushes
  <2>2. CASE PersonDeletes \/ PersonCloses
    BY <2>2 DEF PersonDeletes, PersonCloses
  <2> QED
    BY <1>17, <2>1, <2>2
<1>18. CASE UNCHANGED vars
  BY <1>18
<1> QED
  BY <1>1, <1>2, <1>3, <1>4, <1>5, <1>6, <1>7, <1>8, <1>9, <1>10, <1>11,
    <1>12, <1>13, <1>14, <1>15, <1>16, <1>17, <1>18 DEF Next, Decide, Job,
    RunStep, EffectStep, ReplayStep, Review, Person

\* The pull requests keep their type.
LEMMA PullsTyping == PullsOK /\ BranchOK /\ Headed /\ [Next]_vars => PullsOK'
<1> SUFFICES ASSUME PullsOK, BranchOK, Headed, [Next]_vars PROVE PullsOK'
  OBVIOUS
<1> USE Pulling DEF PullsOK, BranchOK, linear, branch, github, intents, job,
  local, history, vars
<1>1. CASE EscalateTodo \/ ResumeTodo \/ ReplayTodo
  BY <1>1 DEF EscalateTodo, ResumeTodo, ReplayTodo
<1>2. CASE RunFresh \/ ResumeProgress \/ EscalateProgress
  BY <1>2 DEF RunFresh, ResumeProgress, EscalateProgress
<1>3. CASE Start \/ Materialize \/ NotMaterialized
  BY <1>3 DEF Start, Materialize, NotMaterialized, NoRow
<1>4. CASE NotReady \/ Ready \/ Claim \/ RunFails
  BY <1>4 DEF NotReady, Ready, Claim, RunFails
<1>5. CASE LoopFails \/ WorkDone \/ WorkPauses \/ Pause
  BY <1>5 DEF LoopFails, WorkDone, WorkPauses, Pause
<1>6. CASE Own \/ NotOwned
  BY <1>6 DEF Own, NotOwned
<1>7. CASE Push
  BY <1>7 DEF Push, Lands
<1>8. CASE Observe \/ NotObserved
  BY <1>8 DEF Observe, NotObserved
<1>9. CASE PushFailed \/ ClearPrior
  BY <1>9 DEF PushFailed, ClearPrior
<1>10. CASE OpenPullRequest \/ NotOpened
  BY <1>10 DEF OpenPullRequest, NotOpened, EnsurePullRequest, OpenIs
<1>11. CASE MoveToReview \/ NotMoved
  BY <1>11 DEF MoveToReview, NotMoved
<1>12. CASE Record \/ NotRecorded \/ Finish \/ ShowResume
  BY <1>12 DEF Record, NotRecorded, Finish, ShowResume
<1>13. CASE Replay \/ ReplayRefused \/ ReplayForgets
  BY <1>13 DEF Replay, ReplayRefused, ReplayForgets, OpenIs
<1>14. CASE Crash \/ LeaseExpires \/ Sweep
  BY <1>14 DEF Crash, LeaseExpires, Sweep
<1>15. CASE ReviewSendsBack \/ ReviewMerges \/ ReviewAsks
  <2>1. CASE ReviewSendsBack
    BY <2>1 DEF ReviewSendsBack, Headed, Heads, Commits
  <2>2. CASE ReviewMerges \/ ReviewAsks
    BY <2>2, "merged" \in {"closed", "merged"} DEF ReviewMerges, ReviewAsks, OpenIs
  <2> QED
    BY <1>15, <2>1, <2>2
<1>16. CASE Repaired \/ PersonMoves
  BY <1>16 DEF Repaired, PersonMoves, Edit
<1>17. CASE PersonPushes \/ PersonDeletes \/ PersonCloses
  BY <1>17 DEF PersonPushes, PersonDeletes, PersonCloses, Edit, Closed, OpenIs
<1>18. CASE UNCHANGED vars
  BY <1>18
<1> QED
  BY <1>1, <1>2, <1>3, <1>4, <1>5, <1>6, <1>7, <1>8, <1>9, <1>10, <1>11,
    <1>12, <1>13, <1>14, <1>15, <1>16, <1>17, <1>18 DEF Next, Decide, Job,
    RunStep, EffectStep, ReplayStep, Review, Person

\* The run rows keep their type.
LEMMA RunsTyping == RunsOK /\ PullsOK /\ [Next]_vars => RunsOK'
<1> SUFFICES ASSUME RunsOK, PullsOK, [Next]_vars PROVE RunsOK'
  OBVIOUS
<1> USE Pulling DEF RunsOK, linear, branch, github, intents, job, local,
  history, vars
<1>1. CASE EscalateTodo \/ ResumeTodo \/ ReplayTodo
  BY <1>1 DEF EscalateTodo, ResumeTodo, ReplayTodo
<1>2. CASE RunFresh \/ ResumeProgress \/ EscalateProgress
  BY <1>2 DEF RunFresh, ResumeProgress, EscalateProgress
<1>3. CASE Start \/ Materialize \/ NotMaterialized
  <2>1. CASE Start
    <3>1. [NoRow EXCEPT !.state = "running"] \in Rows
      BY DEF NoRow, Rows
    <3> QED
      BY <2>1, <3>1 DEF Start
  <2>2. CASE Materialize \/ NotMaterialized
    BY <2>2, Completing DEF Materialize, NotMaterialized, Throw
  <2> QED
    BY <1>3, <2>1, <2>2
<1>4. CASE NotReady \/ Ready \/ Claim \/ RunFails
  BY <1>4, Completing DEF NotReady, Ready, Claim, RunFails, End, Throw
<1>5. CASE LoopFails \/ WorkDone \/ WorkPauses \/ Pause
  BY <1>5, Completing DEF LoopFails, WorkDone, WorkPauses, Pause, Refuse,
    Pend, End, Rows
<1>6. CASE Own \/ NotOwned
  BY <1>6, Completing DEF Own, NotOwned, Refuse, End
<1>7. CASE Push
  BY <1>7 DEF Push
<1>8. CASE Observe \/ NotObserved
  BY <1>8, Completing DEF Observe, NotObserved, Pend, End
<1>9. CASE PushFailed \/ ClearPrior
  BY <1>9, Completing DEF PushFailed, ClearPrior, Refuse, End
<1>10. CASE OpenPullRequest \/ NotOpened
  BY <1>10, Completing DEF OpenPullRequest, NotOpened, Pend, End
<1>11. CASE MoveToReview \/ NotMoved
  BY <1>11, Completing DEF MoveToReview, NotMoved, Pend, Refuse, End
<1>12. CASE Record \/ NotRecorded \/ Finish \/ ShowResume
  BY <1>12, Completing DEF Record, NotRecorded, Finish, ShowResume, End, Rows
<1>13. CASE Replay \/ ReplayRefused \/ ReplayForgets
  BY <1>13 DEF Replay, ReplayRefused, ReplayForgets, OpenIs
<1>14. CASE Crash \/ LeaseExpires \/ Sweep
  BY <1>14 DEF Crash, LeaseExpires, Sweep
<1>15. CASE ReviewSendsBack \/ ReviewMerges \/ ReviewAsks
  BY <1>15 DEF ReviewSendsBack, ReviewMerges, ReviewAsks, OpenIs
<1>16. CASE Repaired \/ PersonMoves
  BY <1>16 DEF Repaired, PersonMoves, Edit
<1>17. CASE PersonPushes \/ PersonDeletes \/ PersonCloses
  BY <1>17 DEF PersonPushes, PersonDeletes, PersonCloses, Edit, Closed, OpenIs
<1>18. CASE UNCHANGED vars
  BY <1>18
<1> QED
  BY <1>1, <1>2, <1>3, <1>4, <1>5, <1>6, <1>7, <1>8, <1>9, <1>10, <1>11,
    <1>12, <1>13, <1>14, <1>15, <1>16, <1>17, <1>18 DEF Next, Decide, Job,
    RunStep, EffectStep, ReplayStep, Review, Person

\* The intents keep their type.
LEMMA IntentsTyping == IntentsOK /\ BranchOK /\ [Next]_vars => IntentsOK'
<1> SUFFICES ASSUME IntentsOK, BranchOK, [Next]_vars PROVE IntentsOK'
  OBVIOUS
<1> USE BoundAssumption DEF IntentsOK, BranchOK, linear, branch, github,
  intents, job, local, history, vars
<1>1. CASE EscalateTodo \/ ResumeTodo \/ ReplayTodo
  BY <1>1 DEF EscalateTodo, ResumeTodo, ReplayTodo
<1>2. CASE RunFresh \/ ResumeProgress \/ EscalateProgress
  BY <1>2 DEF RunFresh, ResumeProgress, EscalateProgress
<1>3. CASE Start \/ Materialize \/ NotMaterialized
  BY <1>3 DEF Start, Materialize, NotMaterialized, NoRow
<1>4. CASE NotReady \/ Ready \/ Claim \/ RunFails
  BY <1>4 DEF NotReady, Ready, Claim, RunFails
<1>5. CASE LoopFails \/ WorkDone \/ WorkPauses \/ Pause
  BY <1>5 DEF LoopFails, WorkDone, WorkPauses, Pause
<1>6. CASE Own \/ NotOwned
  BY <1>6, Writing DEF Own, NotOwned, Heads
<1>7. CASE Push
  BY <1>7 DEF Push
<1>8. CASE Observe \/ NotObserved
  BY <1>8, Writing DEF Observe, NotObserved
<1>9. CASE PushFailed \/ ClearPrior
  BY <1>9, Clearing DEF PushFailed, ClearPrior, ForgetUnseen
<1>10. CASE OpenPullRequest \/ NotOpened
  BY <1>10 DEF OpenPullRequest, NotOpened
<1>11. CASE MoveToReview \/ NotMoved
  BY <1>11 DEF MoveToReview, NotMoved
<1>12. CASE Record \/ NotRecorded \/ Finish \/ ShowResume
  BY <1>12 DEF Record, NotRecorded, Finish, ShowResume
<1>13. CASE Replay \/ ReplayRefused \/ ReplayForgets
  BY <1>13, Writing, Clearing DEF Replay, ReplayRefused, ReplayForgets,
    OpenIs, ForgetUnseen
<1>14. CASE Crash \/ LeaseExpires \/ Sweep
  BY <1>14, Clearing DEF Crash, LeaseExpires, Sweep
<1>15. CASE ReviewSendsBack \/ ReviewMerges \/ ReviewAsks
  BY <1>15 DEF ReviewSendsBack, ReviewMerges, ReviewAsks, OpenIs
<1>16. CASE Repaired \/ PersonMoves
  BY <1>16 DEF Repaired, PersonMoves, Edit
<1>17. CASE PersonPushes \/ PersonDeletes \/ PersonCloses
  BY <1>17 DEF PersonPushes, PersonDeletes, PersonCloses, Edit, Closed, OpenIs
<1>18. CASE UNCHANGED vars
  BY <1>18
<1> QED
  BY <1>1, <1>2, <1>3, <1>4, <1>5, <1>6, <1>7, <1>8, <1>9, <1>10, <1>11,
    <1>12, <1>13, <1>14, <1>15, <1>16, <1>17, <1>18 DEF Next, Decide, Job,
    RunStep, EffectStep, ReplayStep, Review, Person

\* The job keeps its type.
LEMMA JobTyping == JobOK /\ BranchOK /\ LinearOK /\ IntentsOK /\ [Next]_vars
  => JobOK'
<1> SUFFICES ASSUME JobOK, BranchOK, LinearOK, IntentsOK, [Next]_vars PROVE
  JobOK'
  OBVIOUS
<1> USE BoundAssumption DEF JobOK, BranchOK, LinearOK, IntentsOK, Over, Goto,
  job, Points, Heads, Runs, Statuses
<1>1. CASE EscalateTodo \/ ResumeTodo \/ ReplayTodo
  BY <1>1, NothingAssumption DEF EscalateTodo, ResumeTodo, ReplayTodo, At,
    Launch, Oldest, Pendings
<1>2. CASE RunFresh \/ ResumeProgress \/ EscalateProgress
  BY <1>2 DEF RunFresh, ResumeProgress, EscalateProgress, At, Launch, Pendings
<1>3. CASE Start \/ Materialize \/ NotMaterialized
  BY <1>3, NothingAssumption, Ending DEF Start, Materialize, NotMaterialized,
    At, NoRow, Oldest, Pendings, Commits
<1>4. CASE NotReady \/ Ready \/ Claim \/ RunFails
  BY <1>4, Exits DEF Ready, Claim, At
<1>5. CASE LoopFails \/ WorkDone \/ WorkPauses \/ Pause
  BY <1>5, Exits DEF WorkDone, WorkPauses, At
<1>6. CASE Own \/ NotOwned
  BY <1>6, Ending DEF Own, NotOwned, At
<1>7. CASE Push
  BY <1>7 DEF Push, At, Lands
<1>8. CASE Observe \/ NotObserved
  BY <1>8, Ending DEF Observe, NotObserved, At
<1>9. CASE PushFailed \/ ClearPrior
  BY <1>9, Ending DEF PushFailed, ClearPrior, At
<1>10. CASE OpenPullRequest \/ NotOpened
  BY <1>10, Ending DEF OpenPullRequest, NotOpened, At
<1>11. CASE MoveToReview \/ NotMoved
  BY <1>11, Ending DEF MoveToReview, NotMoved, At
<1>12. CASE Record \/ NotRecorded \/ Finish \/ ShowResume
  BY <1>12, Exits DEF Record, ShowResume, At
<1>13. CASE Replay \/ ReplayRefused \/ ReplayForgets
  BY <1>13 DEF Replay, ReplayRefused, ReplayForgets, At, OpenIs
<1>14. CASE Crash \/ LeaseExpires \/ Sweep
  BY <1>14 DEF Crash, LeaseExpires, Sweep, At
<1>15. CASE ReviewSendsBack \/ ReviewMerges \/ ReviewAsks
  BY <1>15 DEF ReviewSendsBack, ReviewMerges, ReviewAsks, At, OpenIs
<1>16. CASE Repaired \/ PersonMoves
  BY <1>16 DEF Repaired, PersonMoves, Edit
<1>17. CASE PersonPushes \/ PersonDeletes \/ PersonCloses
  BY <1>17 DEF PersonPushes, PersonDeletes, PersonCloses, Edit, Closed, OpenIs
<1>18. CASE UNCHANGED vars
  BY <1>18 DEF vars
<1> QED
  BY <1>1, <1>2, <1>3, <1>4, <1>5, <1>6, <1>7, <1>8, <1>9, <1>10, <1>11,
    <1>12, <1>13, <1>14, <1>15, <1>16, <1>17, <1>18 DEF Next, Decide, Job,
    RunStep, EffectStep, ReplayStep, Review, Person

\* The bounds hold.
LEMMA CountersTyping == CountersOK /\ Owner /\ [Next]_vars => CountersOK'
<1> SUFFICES ASSUME CountersOK, Owner, [Next]_vars PROVE CountersOK'
  OBVIOUS
<1> USE Counting DEF At
<1>1. CASE EscalateTodo \/ ResumeTodo \/ ReplayTodo
  BY <1>1, LocateTyped DEF EscalateTodo, ResumeTodo, ReplayTodo, CountersOK
<1>2. CASE RunFresh \/ ResumeProgress \/ EscalateProgress
  BY <1>2, LocateTyped DEF RunFresh, ResumeProgress, EscalateProgress,
    CountersOK
<1>3. CASE Start \/ Materialize \/ NotMaterialized
  BY <1>3 DEF Start, Materialize, NotMaterialized, NoRow
<1>4. CASE NotReady \/ Ready \/ Claim \/ RunFails
  BY <1>4 DEF NotReady, Ready, Claim, RunFails
<1>5. CASE LoopFails \/ WorkDone \/ WorkPauses \/ Pause
  BY <1>5 DEF LoopFails, WorkDone, WorkPauses, Pause
<1>6. CASE Own \/ NotOwned
  BY <1>6 DEF Own, NotOwned
<1>7. CASE Push
  BY <1>7 DEF Push
<1>8. CASE Observe \/ NotObserved
  BY <1>8 DEF Observe, NotObserved
<1>9. CASE PushFailed \/ ClearPrior
  BY <1>9, BoundAssumption DEF PushFailed, ClearPrior, ForgetUnseen, Owner,
    CountersOK
<1>10. CASE OpenPullRequest \/ NotOpened
  BY <1>10 DEF OpenPullRequest, NotOpened
<1>11. CASE MoveToReview \/ NotMoved
  BY <1>11 DEF MoveToReview, NotMoved
<1>12. CASE Record \/ NotRecorded \/ Finish \/ ShowResume
  BY <1>12 DEF Record, NotRecorded, Finish, ShowResume
<1>13. CASE Replay \/ ReplayRefused \/ ReplayForgets
  BY <1>13, BoundAssumption DEF Replay, ReplayRefused, ReplayForgets, OpenIs,
    ForgetUnseen, Owner, CountersOK
<1>14. CASE Crash \/ LeaseExpires \/ Sweep
  BY <1>14 DEF Crash, LeaseExpires, Sweep, CountersOK, history
<1>15. CASE ReviewSendsBack \/ ReviewMerges \/ ReviewAsks
  <2>1. CASE ReviewSendsBack
    BY <2>1, BoundAssumption DEF ReviewSendsBack, CountersOK
  <2>2. CASE ReviewMerges \/ ReviewAsks
    BY <2>2 DEF ReviewMerges, ReviewAsks, Calm
  <2> QED
    BY <1>15, <2>1, <2>2
<1>16. CASE Repaired \/ PersonMoves
  BY <1>16 DEF Repaired, PersonMoves, CountersOK, history
<1>17. CASE PersonPushes \/ PersonDeletes \/ PersonCloses
  BY <1>17 DEF PersonPushes, PersonDeletes, PersonCloses, OpenIs
<1>18. CASE UNCHANGED vars
  BY <1>18 DEF vars, history, CountersOK
<1> QED
  BY <1>1, <1>2, <1>3, <1>4, <1>5, <1>6, <1>7, <1>8, <1>9, <1>10, <1>11,
    <1>12, <1>13, <1>14, <1>15, <1>16, <1>17, <1>18 DEF Next, Decide, Job,
    RunStep, EffectStep, ReplayStep, Review, Person

\* A job keeps its owner.
LEMMA OwnerStep == JobOK /\ IntentsOK /\ Owner /\ [Next]_vars => Owner'
<1> SUFFICES ASSUME JobOK, IntentsOK, Owner, [Next]_vars PROVE Owner'
  OBVIOUS
<1> USE DEF Owner, linear, branch, github, intents, job, local, history, vars
<1>1. CASE EscalateTodo \/ ResumeTodo \/ ReplayTodo
  BY <1>1, NothingAssumption DEF EscalateTodo, ResumeTodo, ReplayTodo, At,
    Launch, Oldest, IntentsOK, Runs
<1>2. CASE RunFresh \/ ResumeProgress \/ EscalateProgress
  BY <1>2 DEF RunFresh, ResumeProgress, EscalateProgress, At, Launch
<1>3. CASE Start \/ Materialize \/ NotMaterialized
  BY <1>3 DEF Start, Materialize, NotMaterialized, At, NoRow, Oldest, Throw,
    Over, Goto
<1>4. CASE NotReady \/ Ready \/ Claim \/ RunFails
  BY <1>4 DEF NotReady, Ready, Claim, RunFails, At, End, Goto, Throw, Over
<1>5. CASE LoopFails \/ WorkDone \/ WorkPauses \/ Pause
  BY <1>5 DEF LoopFails, WorkDone, WorkPauses, Pause, At, Refuse, Goto, Over,
    Pend, End
<1>6. CASE Own \/ NotOwned
  BY <1>6 DEF Own, NotOwned, At, Goto, Refuse, End, Over
<1>7. CASE Push
  BY <1>7 DEF Push, At, Lands, Goto
<1>8. CASE Observe \/ NotObserved
  BY <1>8 DEF Observe, NotObserved, Landed, Goto, At, Pend, End, Over
<1>9. CASE PushFailed \/ ClearPrior
  BY <1>9 DEF PushFailed, ClearPrior, At, Refuse, Goto, End, Over
<1>10. CASE OpenPullRequest \/ NotOpened
  BY <1>10 DEF OpenPullRequest, NotOpened, At, Goto, Pend, End, Over
<1>11. CASE MoveToReview \/ NotMoved
  BY <1>11 DEF MoveToReview, NotMoved, At, Over, Goto, Pend, Refuse, End
<1>12. CASE Record \/ NotRecorded \/ Finish \/ ShowResume
  BY <1>12 DEF Record, NotRecorded, Finish, ShowResume, At, Goto, End, Over
<1>13. CASE Replay \/ ReplayRefused \/ ReplayForgets
  BY <1>13 DEF Replay, ReplayRefused, ReplayForgets, At, OpenIs, Goto, Over
<1>14. CASE Crash \/ LeaseExpires \/ Sweep
  BY <1>14 DEF Crash, LeaseExpires, Sweep, At, Over
<1>15. CASE ReviewSendsBack \/ ReviewMerges \/ ReviewAsks
  BY <1>15 DEF ReviewSendsBack, ReviewMerges, ReviewAsks, At, OpenIs
<1>16. CASE Repaired \/ PersonMoves
  BY <1>16 DEF Repaired, PersonMoves, Edit
<1>17. CASE PersonPushes \/ PersonDeletes \/ PersonCloses
  BY <1>17 DEF PersonPushes, PersonDeletes, PersonCloses, Edit, Closed, OpenIs
<1>18. CASE UNCHANGED vars
  BY <1>18
<1> QED
  BY <1>1, <1>2, <1>3, <1>4, <1>5, <1>6, <1>7, <1>8, <1>9, <1>10, <1>11,
    <1>12, <1>13, <1>14, <1>15, <1>16, <1>17, <1>18 DEF Next, Decide, Job,
    RunStep, EffectStep, ReplayStep, Review, Person

\* An open pull request keeps its branch.
LEMMA HeadedStep == PullsOK /\ BranchOK /\ Headed /\ [Next]_vars => Headed'
<1> SUFFICES ASSUME PullsOK, BranchOK, Headed, [Next]_vars PROVE Headed'
  OBVIOUS
<1> USE Pulling DEF Headed, PullsOK, BranchOK, OpenIs, Heads, linear, branch,
  github, intents, job, local, history, vars
<1>1. CASE EscalateTodo \/ ResumeTodo \/ ReplayTodo
  BY <1>1 DEF EscalateTodo, ResumeTodo, ReplayTodo
<1>2. CASE RunFresh \/ ResumeProgress \/ EscalateProgress
  BY <1>2 DEF RunFresh, ResumeProgress, EscalateProgress
<1>3. CASE Start \/ Materialize \/ NotMaterialized
  BY <1>3 DEF Start, Materialize, NotMaterialized, NoRow
<1>4. CASE NotReady \/ Ready \/ Claim \/ RunFails
  BY <1>4 DEF NotReady, Ready, Claim, RunFails
<1>5. CASE LoopFails \/ WorkDone \/ WorkPauses \/ Pause
  BY <1>5 DEF LoopFails, WorkDone, WorkPauses, Pause
<1>6. CASE Own \/ NotOwned
  BY <1>6 DEF Own, NotOwned
<1>7. CASE Push
  BY <1>7 DEF Push, Lands
<1>8. CASE Observe \/ NotObserved
  BY <1>8 DEF Observe, NotObserved
<1>9. CASE PushFailed \/ ClearPrior
  BY <1>9 DEF PushFailed, ClearPrior
<1>10. CASE OpenPullRequest \/ NotOpened
  BY <1>10 DEF OpenPullRequest, NotOpened, EnsurePullRequest
<1>11. CASE MoveToReview \/ NotMoved
  BY <1>11 DEF MoveToReview, NotMoved
<1>12. CASE Record \/ NotRecorded \/ Finish \/ ShowResume
  BY <1>12 DEF Record, NotRecorded, Finish, ShowResume
<1>13. CASE Replay \/ ReplayRefused \/ ReplayForgets
  BY <1>13 DEF Replay, ReplayRefused, ReplayForgets
<1>14. CASE Crash \/ LeaseExpires \/ Sweep
  BY <1>14 DEF Crash, LeaseExpires, Sweep
<1>15. CASE ReviewSendsBack \/ ReviewMerges \/ ReviewAsks
  BY <1>15 DEF ReviewSendsBack, ReviewMerges, ReviewAsks
<1>16. CASE Repaired \/ PersonMoves
  BY <1>16 DEF Repaired, PersonMoves, Edit
<1>17. CASE PersonPushes \/ PersonDeletes \/ PersonCloses
  BY <1>17 DEF PersonPushes, PersonDeletes, PersonCloses, Edit, Closed
<1>18. CASE UNCHANGED vars
  BY <1>18
<1> QED
  BY <1>1, <1>2, <1>3, <1>4, <1>5, <1>6, <1>7, <1>8, <1>9, <1>10, <1>11,
    <1>12, <1>13, <1>14, <1>15, <1>16, <1>17, <1>18 DEF Next, Decide, Job,
    RunStep, EffectStep, ReplayStep, Review, Person

\* What happens to the run rows.
LEMMA RowStep == [Next]_vars => runs' = runs \/ (Dropped /\ UNCHANGED
  <<made, maker>>) \/ Start \/ WorkPauses \/ Record \/ Finish
<1> SUFFICES ASSUME [Next]_vars PROVE runs' = runs \/ (Dropped /\ UNCHANGED
  <<made, maker>>) \/ Start \/ WorkPauses \/ Record \/ Finish
  OBVIOUS
<1> USE DEF Dropped, linear, branch, github, intents, job, local, history,
  vars
<1>1. CASE EscalateTodo \/ ResumeTodo \/ ReplayTodo
  BY <1>1 DEF EscalateTodo, ResumeTodo, ReplayTodo
<1>2. CASE RunFresh \/ ResumeProgress \/ EscalateProgress
  BY <1>2 DEF RunFresh, ResumeProgress, EscalateProgress
<1>3. CASE Start \/ Materialize \/ NotMaterialized
  BY <1>3 DEF Start, Materialize, NotMaterialized, NoRow, Throw
<1>4. CASE NotReady \/ Ready \/ Claim \/ RunFails
  BY <1>4 DEF NotReady, Ready, Claim, RunFails, End, Throw
<1>5. CASE LoopFails \/ WorkDone \/ WorkPauses \/ Pause
  BY <1>5 DEF LoopFails, WorkDone, WorkPauses, Pause, Refuse, Pend, End
<1>6. CASE Own \/ NotOwned
  BY <1>6 DEF Own, NotOwned, Refuse, End
<1>7. CASE Push
  BY <1>7 DEF Push
<1>8. CASE Observe \/ NotObserved
  BY <1>8 DEF Observe, NotObserved, Pend, End
<1>9. CASE PushFailed \/ ClearPrior
  BY <1>9 DEF PushFailed, ClearPrior, Refuse, End
<1>10. CASE OpenPullRequest \/ NotOpened
  BY <1>10 DEF OpenPullRequest, NotOpened, Pend, End
<1>11. CASE MoveToReview \/ NotMoved
  BY <1>11 DEF MoveToReview, NotMoved, Pend, Refuse, End
<1>12. CASE Record \/ NotRecorded \/ Finish \/ ShowResume
  BY <1>12 DEF Record, NotRecorded, Finish, ShowResume, End
<1>13. CASE Replay \/ ReplayRefused \/ ReplayForgets
  BY <1>13 DEF Replay, ReplayRefused, ReplayForgets, OpenIs
<1>14. CASE Crash \/ LeaseExpires \/ Sweep
  BY <1>14 DEF Crash, LeaseExpires, Sweep
<1>15. CASE ReviewSendsBack \/ ReviewMerges \/ ReviewAsks
  BY <1>15 DEF ReviewSendsBack, ReviewMerges, ReviewAsks, OpenIs
<1>16. CASE Repaired \/ PersonMoves
  BY <1>16 DEF Repaired, PersonMoves
<1>17. CASE PersonPushes \/ PersonDeletes \/ PersonCloses
  BY <1>17 DEF PersonPushes, PersonDeletes, PersonCloses, OpenIs
<1>18. CASE UNCHANGED vars
  BY <1>18
<1> QED
  BY <1>1, <1>2, <1>3, <1>4, <1>5, <1>6, <1>7, <1>8, <1>9, <1>10, <1>11,
    <1>12, <1>13, <1>14, <1>15, <1>16, <1>17, <1>18 DEF Next, Decide, Job,
    RunStep, EffectStep, ReplayStep, Review, Person

\* What moves the branch.
LEMMA BranchMoves == [Next]_vars => UNCHANGED branch \/ (At("push") /\ Lands) \/
  PersonPushes \/ PersonDeletes
<1> SUFFICES ASSUME [Next]_vars PROVE UNCHANGED branch \/ (At("push") /\ Lands) \/
  PersonPushes \/ PersonDeletes
  OBVIOUS
<1> USE DEF linear, github, intents, job, local, history, vars
<1>1. CASE EscalateTodo \/ ResumeTodo \/ ReplayTodo
  BY <1>1 DEF EscalateTodo, ResumeTodo, ReplayTodo
<1>2. CASE RunFresh \/ ResumeProgress \/ EscalateProgress
  BY <1>2 DEF RunFresh, ResumeProgress, EscalateProgress
<1>3. CASE Start \/ Materialize \/ NotMaterialized
  BY <1>3 DEF Start, Materialize, NotMaterialized, NoRow
<1>4. CASE NotReady \/ Ready \/ Claim \/ RunFails
  BY <1>4 DEF NotReady, Ready, Claim, RunFails
<1>5. CASE LoopFails \/ WorkDone \/ WorkPauses \/ Pause
  BY <1>5 DEF LoopFails, WorkDone, WorkPauses, Pause
<1>6. CASE Own \/ NotOwned
  BY <1>6 DEF Own, NotOwned
<1>7. CASE Push
  BY <1>7 DEF Push
<1>8. CASE Observe \/ NotObserved
  BY <1>8 DEF Observe, NotObserved
<1>9. CASE PushFailed \/ ClearPrior
  BY <1>9 DEF PushFailed, ClearPrior
<1>10. CASE OpenPullRequest \/ NotOpened
  BY <1>10 DEF OpenPullRequest, NotOpened
<1>11. CASE MoveToReview \/ NotMoved
  BY <1>11 DEF MoveToReview, NotMoved
<1>12. CASE Record \/ NotRecorded \/ Finish \/ ShowResume
  BY <1>12 DEF Record, NotRecorded, Finish, ShowResume
<1>13. CASE Replay \/ ReplayRefused \/ ReplayForgets
  BY <1>13 DEF Replay, ReplayRefused, ReplayForgets, OpenIs
<1>14. CASE Crash \/ LeaseExpires \/ Sweep
  BY <1>14 DEF Crash, LeaseExpires, Sweep
<1>15. CASE ReviewSendsBack \/ ReviewMerges \/ ReviewAsks
  BY <1>15 DEF ReviewSendsBack, ReviewMerges, ReviewAsks
<1>16. CASE Repaired \/ PersonMoves
  BY <1>16 DEF Repaired, PersonMoves
<1>17. CASE PersonPushes \/ PersonDeletes \/ PersonCloses
  BY <1>17 DEF PersonPushes, PersonDeletes, PersonCloses, OpenIs
<1>18. CASE UNCHANGED vars
  BY <1>18
<1> QED
  BY <1>1, <1>2, <1>3, <1>4, <1>5, <1>6, <1>7, <1>8, <1>9, <1>10, <1>11,
    <1>12, <1>13, <1>14, <1>15, <1>16, <1>17, <1>18 DEF Next, Decide, Job,
    RunStep, EffectStep, ReplayStep, Review, Person

\* What changes the pull requests.
LEMMA PullMoves == [Next]_vars => prs' = prs \/ EnsurePullRequest \/
  ReviewMerges \/ PersonDeletes \/ PersonCloses
<1> SUFFICES ASSUME [Next]_vars PROVE prs' = prs \/ EnsurePullRequest \/
  ReviewMerges \/ PersonDeletes \/ PersonCloses
  OBVIOUS
<1> USE DEF linear, branch, github, intents, job, local, history, vars
<1>1. CASE EscalateTodo \/ ResumeTodo \/ ReplayTodo
  BY <1>1 DEF EscalateTodo, ResumeTodo, ReplayTodo
<1>2. CASE RunFresh \/ ResumeProgress \/ EscalateProgress
  BY <1>2 DEF RunFresh, ResumeProgress, EscalateProgress
<1>3. CASE Start \/ Materialize \/ NotMaterialized
  BY <1>3 DEF Start, Materialize, NotMaterialized, NoRow
<1>4. CASE NotReady \/ Ready \/ Claim \/ RunFails
  BY <1>4 DEF NotReady, Ready, Claim, RunFails
<1>5. CASE LoopFails \/ WorkDone \/ WorkPauses \/ Pause
  BY <1>5 DEF LoopFails, WorkDone, WorkPauses, Pause
<1>6. CASE Own \/ NotOwned
  BY <1>6 DEF Own, NotOwned
<1>7. CASE Push
  BY <1>7 DEF Push, Lands
<1>8. CASE Observe \/ NotObserved
  BY <1>8 DEF Observe, NotObserved
<1>9. CASE PushFailed \/ ClearPrior
  BY <1>9 DEF PushFailed, ClearPrior
<1>10. CASE OpenPullRequest \/ NotOpened
  BY <1>10 DEF OpenPullRequest, NotOpened
<1>11. CASE MoveToReview \/ NotMoved
  BY <1>11 DEF MoveToReview, NotMoved
<1>12. CASE Record \/ NotRecorded \/ Finish \/ ShowResume
  BY <1>12 DEF Record, NotRecorded, Finish, ShowResume
<1>13. CASE Replay \/ ReplayRefused \/ ReplayForgets
  BY <1>13 DEF Replay, ReplayRefused, ReplayForgets, OpenIs
<1>14. CASE Crash \/ LeaseExpires \/ Sweep
  BY <1>14 DEF Crash, LeaseExpires, Sweep
<1>15. CASE ReviewSendsBack \/ ReviewMerges \/ ReviewAsks
  BY <1>15 DEF ReviewSendsBack, ReviewMerges, ReviewAsks, OpenIs
<1>16. CASE Repaired \/ PersonMoves
  BY <1>16 DEF Repaired, PersonMoves
<1>17. CASE PersonPushes \/ PersonDeletes \/ PersonCloses
  BY <1>17 DEF PersonPushes, PersonDeletes, PersonCloses, OpenIs
<1>18. CASE UNCHANGED vars
  BY <1>18
<1> QED
  BY <1>1, <1>2, <1>3, <1>4, <1>5, <1>6, <1>7, <1>8, <1>9, <1>10, <1>11,
    <1>12, <1>13, <1>14, <1>15, <1>16, <1>17, <1>18 DEF Next, Decide, Job,
    RunStep, EffectStep, ReplayStep, Review, Person

\* How a job gets on.
LEMMA JobMoves == Owner /\ [Next]_vars => JobMove
<1> SUFFICES ASSUME Owner, [Next]_vars PROVE JobMove
  OBVIOUS
<1> USE DEF JobMove, Over, Goto, linear, branch, github, intents, job, local,
  history, vars
<1>1. CASE EscalateTodo \/ ResumeTodo \/ ReplayTodo
  BY <1>1 DEF EscalateTodo, ResumeTodo, ReplayTodo, At, Launch
<1>2. CASE RunFresh \/ ResumeProgress \/ EscalateProgress
  BY <1>2 DEF RunFresh, ResumeProgress, EscalateProgress, At, Launch
<1>3. CASE Start \/ Materialize \/ NotMaterialized
  BY <1>3, Ending DEF Start, Materialize, NotMaterialized, At, NoRow
<1>4. CASE NotReady \/ Ready \/ Claim \/ RunFails
  BY <1>4, Exits DEF Ready, Claim, At
<1>5. CASE LoopFails \/ WorkDone \/ WorkPauses \/ Pause
  BY <1>5, Exits DEF WorkDone, WorkPauses, At
<1>6. CASE Own \/ NotOwned
  BY <1>6, Ending DEF Own, NotOwned, At
<1>7. CASE Push
  BY <1>7 DEF Push, Lands, At
<1>8. CASE Observe \/ NotObserved
  BY <1>8, Ending DEF Observe, NotObserved, Landed, At
<1>9. CASE PushFailed \/ ClearPrior
  BY <1>9, Ending DEF PushFailed, ClearPrior, At
<1>10. CASE OpenPullRequest \/ NotOpened
  BY <1>10, Ending DEF OpenPullRequest, NotOpened, At
<1>11. CASE MoveToReview \/ NotMoved
  BY <1>11, Ending DEF MoveToReview, NotMoved, At
<1>12. CASE Record \/ NotRecorded \/ Finish \/ ShowResume
  BY <1>12, Exits DEF Record, ShowResume, At
<1>13. CASE Replay \/ ReplayRefused \/ ReplayForgets
  BY <1>13 DEF Replay, ReplayRefused, ReplayForgets, At, OpenIs, Owner
<1>14. CASE Crash \/ LeaseExpires \/ Sweep
  BY <1>14 DEF Crash, LeaseExpires, Sweep, At
<1>15. CASE ReviewSendsBack \/ ReviewMerges \/ ReviewAsks
  BY <1>15 DEF ReviewSendsBack, ReviewMerges, ReviewAsks, At, OpenIs
<1>16. CASE Repaired \/ PersonMoves
  BY <1>16 DEF Repaired, PersonMoves
<1>17. CASE PersonPushes \/ PersonDeletes \/ PersonCloses
  BY <1>17 DEF PersonPushes, PersonDeletes, PersonCloses, OpenIs
<1>18. CASE UNCHANGED vars
  BY <1>18
<1> QED
  BY <1>1, <1>2, <1>3, <1>4, <1>5, <1>6, <1>7, <1>8, <1>9, <1>10, <1>11,
    <1>12, <1>13, <1>14, <1>15, <1>16, <1>17, <1>18 DEF Next, Decide, Job,
    RunStep, EffectStep, ReplayStep, Review, Person


\* Whoever has pushed has pushed.
LEMMA MakerStep == BranchOK /\ [Next]_vars => \A r \in 0..MaxRuns : MadeBy(r) => MadeBy(r)'
<1> SUFFICES ASSUME BranchOK, [Next]_vars, NEW r \in 0..MaxRuns, NEW c \in 1..made, maker[c] = r
             PROVE  \E d \in 1..made' : maker'[d] = r
  BY DEF MadeBy
<1>1. c \in Commits /\ made \in Nat
  BY BoundAssumption DEF BranchOK, Commits, Heads
<1>2. CASE UNCHANGED branch
  BY <1>2 DEF branch
<1>3. CASE Lands
  <2>1. made' = made + 1 /\ maker' = [maker EXCEPT ![made'] = run]
    BY <1>3 DEF Lands
  <2>2. maker'[c] = maker[c] /\ c \in 1..made'
    BY <1>1, <2>1 DEF BranchOK
  <2> QED
    BY <2>2
<1>4. CASE PersonPushes \/ PersonDeletes
  <2>1. maker' = maker /\ made' \in {made, made + 1}
    BY <1>4 DEF PersonPushes, PersonDeletes
  <2>2. c \in 1..made'
    BY <1>1, <2>1
  <2> QED
    BY <2>1, <2>2
<1> QED
  BY <1>2, <1>3, <1>4, BranchMoves

\* No pull request disappears.
LEMMA LengthStep == PullsOK /\ [Next]_vars => Len(prs') >= Len(prs)
<1> SUFFICES ASSUME PullsOK, [Next]_vars PROVE Len(prs') >= Len(prs)
  OBVIOUS
<1>1. Len(prs) \in Nat
  BY DEF PullsOK
<1>2. CASE prs' = prs
  BY <1>1, <1>2
<1>3. CASE EnsurePullRequest
  BY <1>1, <1>3, Pulling DEF EnsurePullRequest
<1>4. CASE ReviewMerges \/ PersonDeletes \/ PersonCloses
  <2>1. prs' = prs \/ \E s : prs' = [prs EXCEPT ![Len(prs)] = s]
    BY <1>4 DEF ReviewMerges, PersonDeletes, PersonCloses, Closed
  <2>2. ASSUME NEW s PROVE Len([prs EXCEPT ![Len(prs)] = s]) = Len(prs)
    BY DEF PullsOK
  <2> QED
    BY <1>1, <2>1, <2>2
<1> QED
  BY <1>2, <1>3, <1>4, PullMoves

\* A run gets on.
LEMMA ProgressStep ==
    TypeOK /\ Owner /\ Headed /\ Progress /\ [Next]_vars => Progress'
<1> SUFFICES ASSUME TypeOK, Owner, Headed, Progress, [Next]_vars PROVE Progress'
  OBVIOUS
<1>1. /\ BranchOK /\ PullsOK /\ RunsOK /\ JobOK
      /\ \A r \in 0..MaxRuns : (\E c \in 1..made : maker[c] = r) => \E c \in 1..made' : maker'[c] = r
      /\ Len(prs') >= Len(prs) /\ Len(prs) \in Nat /\ Len(prs') \in Nat
  <2>1. BranchOK /\ PullsOK /\ RunsOK /\ JobOK
    BY Parts
  <2>2. PullsOK'
    BY <2>1, PullsTyping
  <2> QED
    BY <2>1, <2>2, MakerStep, LengthStep DEF PullsOK, MadeBy
<1>2. JobMove
  BY JobMoves
<1>3. MadeBy(run) /\ run' = run => \E c \in 1..made' : maker'[c] = run'
  BY <1>1 DEF JobOK, MadeBy
<1>4. CASE UNCHANGED <<pc, kind, run, runs>>
  BY <1>1, <1>3, <1>4 DEF Progress, MadeBy
<1>5. CASE pc' \notin {"pushed", "prior", "open", "move", "record", "finish"}
  BY <1>5 DEF Progress
<1>6. CASE Lands /\ pc' = "pushed" /\ pc = "push"
  <2>1. made' \in 1..made' /\ maker'[made'] = run /\ run' = run
    BY <1>1, <1>6, BoundAssumption DEF Lands, BranchOK, Commits, Heads
  <2> QED
    BY <1>6, <2>1 DEF Progress, MadeBy
<1>7. CASE UNCHANGED <<kind, run>> /\ <<pc, pc'>> \in {<<"pushed", "prior">>, <<"prior", "open">>}
  BY <1>3, <1>7 DEF Progress, MadeBy
<1>8. CASE OpenPullRequest
  <2>1. Len(prs') # 0
    <3>1. CASE OpenIs(Len(prs))
      BY <1>1, <1>8, <3>1 DEF OpenPullRequest, EnsurePullRequest, OpenIs
    <3>2. CASE ~OpenIs(Len(prs))
      <4>1. prs' = Append(prs, "open")
        BY <1>8, <3>2 DEF OpenPullRequest, EnsurePullRequest
      <4> QED
        BY <1>1, <4>1, Pulling
    <3> QED
      BY <3>1, <3>2
  <2> QED
    BY <1>3, <1>8, <2>1 DEF OpenPullRequest, Goto, At, Progress, MadeBy
<1>9. CASE MoveToReview /\ pc' = "record" /\ kind' = kind /\ kind # "replay" /\ run' = run
  <2>1. prs' = prs /\ Len(prs) # 0
    BY <1>9 DEF MoveToReview, At, Progress, github
  <2> QED
    BY <1>3, <1>9, <2>1 DEF MoveToReview, At, Progress, MadeBy
<1>10. CASE Record
  <2>1. run \in Runs /\ kind # "replay"
    BY <1>10 DEF Record, At, Owner, Progress
  <2>2. runs'[run].pr = Len(prs)
    <3>1. runs' = [runs EXCEPT ![run].pr = Len(prs)]
      BY <1>10 DEF Record
    <3>2. runs[run] \in Rows
      BY <1>1, <2>1 DEF RunsOK
    <3> QED
      BY <1>1, <2>1, <3>1, <3>2 DEF RunsOK, Rows
  <2> QED
    BY <1>1, <1>3, <1>10, <2>1, <2>2 DEF Record, Goto, At, Progress, MadeBy
<1>11. CASE Replay /\ pc' \in {"open", "move"} /\ kind' = "replay" /\ (pc' = "move" => OpenIs(Len(prs)))
  BY <1>1, <1>11 DEF Progress, OpenIs
<1> QED
  BY <1>2, <1>4, <1>5, <1>6, <1>7, <1>8, <1>9, <1>10, <1>11 DEF JobMove

\* A completed run stays one that has pushed.
LEMMA CompletedStep ==
    TypeOK /\ Owner /\ Progress /\ CompletedIsPushed /\ [Next]_vars => CompletedIsPushed'
<1> SUFFICES ASSUME TypeOK, Owner, Progress, CompletedIsPushed, [Next]_vars,
                    NEW r \in Runs, runs'[r].state = "completed", runs'[r].session
             PROVE  runs'[r].pr # 0 /\ MadeBy(r)'
  BY DEF CompletedIsPushed, MadeBy
<1>1. BranchOK /\ PullsOK /\ RunsOK /\ JobOK
  BY Parts
<1>2. runs[r] \in Rows /\ r \in 0..MaxRuns
  BY <1>1 DEF RunsOK, Runs
<1>3. ASSUME runs[r].state = "completed", runs[r].session
      PROVE  runs[r].pr # 0 /\ MadeBy(r)'
  BY <1>1, <1>2, <1>3, MakerStep DEF CompletedIsPushed, MadeBy
<1>4. CASE runs' = runs
  BY <1>3, <1>4
<1>5. CASE Dropped
  <2>1. runs'[r].pr = runs[r].pr
    BY <1>1, <1>2, <1>5 DEF Dropped, Complete, RunsOK, Rows
  <2>2. r # run
    BY <1>1, <1>2, <1>5 DEF Dropped, Complete, RunsOK, Rows
  <2>3. runs'[r] = runs[r]
    BY <1>1, <1>5, <2>2 DEF Dropped, Complete, RunsOK
  <2> QED
    BY <1>3, <2>3
<1>6. CASE Start
  <2>1. PICK q \in Runs : runs' = [runs EXCEPT ![q] = [NoRow EXCEPT !.state = "running"]]
    BY <1>6 DEF Start
  <2>2. r # q
    BY <1>1, <2>1 DEF RunsOK, NoRow
  <2> QED
    BY <1>1, <1>3, <2>1, <2>2 DEF RunsOK
<1>7. CASE WorkPauses
  <2>1. runs'[r].state = runs[r].state /\ runs'[r].session = runs[r].session /\ runs'[r].pr = runs[r].pr
    BY <1>1, <1>2, <1>7 DEF WorkPauses, RunsOK, Rows
  <2> QED
    BY <1>3, <2>1
<1>8. CASE Record
  <2>1. runs'[r].state = runs[r].state /\ runs'[r].session = runs[r].session
    BY <1>1, <1>2, <1>8 DEF Record, RunsOK, Rows
  <2>2. runs'[r].pr \in {runs[r].pr, Len(prs)} /\ Len(prs) # 0
    BY <1>1, <1>2, <1>8 DEF Record, At, Progress, RunsOK, Rows
  <2> QED
    BY <1>3, <2>1, <2>2
<1>9. CASE Finish
  <2>1. run \in Runs /\ kind # "replay" /\ runs[run].pr # 0 /\ MadeBy(run)
    BY <1>9 DEF Finish, At, Owner, Progress
  <2>2. Complete("completed", TRUE)
    BY <1>9, <2>1 DEF Finish, End
  <2>3. CASE r = run
    <3>1. runs'[r].pr = runs[r].pr
      BY <1>1, <1>2, <2>2 DEF Complete, RunsOK, Rows
    <3> QED
      BY <1>1, <1>2, <2>1, <2>3, <3>1, MakerStep
  <2>4. CASE r # run
    BY <1>1, <1>3, <2>2, <2>4 DEF Complete, RunsOK
  <2> QED
    BY <2>3, <2>4
<1> QED
  BY <1>4, <1>5, <1>6, <1>7, <1>8, <1>9, RowStep

-----------------------------------------------------------------------------
\* What writes and clears intents.
LEMMA IntentMoves ==
    [Next]_vars =>
        UNCHANGED intents \/ Own \/ Observe \/ PushFailed \/ ClearPrior \/ Replay
          \/ ReplayForgets \/ Sweep
<1> SUFFICES ASSUME [Next]_vars PROVE UNCHANGED intents \/ Own \/ Observe \/
  PushFailed \/ ClearPrior \/ Replay
          \/ ReplayForgets \/ Sweep
  OBVIOUS
<1> USE DEF linear, branch, github, intents, job, local, history, vars
<1>1. CASE EscalateTodo \/ ResumeTodo \/ ReplayTodo
  BY <1>1 DEF EscalateTodo, ResumeTodo, ReplayTodo
<1>2. CASE RunFresh \/ ResumeProgress \/ EscalateProgress
  BY <1>2 DEF RunFresh, ResumeProgress, EscalateProgress
<1>3. CASE Start \/ Materialize \/ NotMaterialized
  BY <1>3 DEF Start, Materialize, NotMaterialized, NoRow
<1>4. CASE NotReady \/ Ready \/ Claim \/ RunFails
  BY <1>4 DEF NotReady, Ready, Claim, RunFails
<1>5. CASE LoopFails \/ WorkDone \/ WorkPauses \/ Pause
  BY <1>5 DEF LoopFails, WorkDone, WorkPauses, Pause
<1>6. CASE Own \/ NotOwned
  BY <1>6 DEF Own, NotOwned
<1>7. CASE Push
  BY <1>7 DEF Push
<1>8. CASE Observe \/ NotObserved
  BY <1>8 DEF Observe, NotObserved
<1>9. CASE PushFailed \/ ClearPrior
  BY <1>9 DEF PushFailed, ClearPrior
<1>10. CASE OpenPullRequest \/ NotOpened
  BY <1>10 DEF OpenPullRequest, NotOpened
<1>11. CASE MoveToReview \/ NotMoved
  BY <1>11 DEF MoveToReview, NotMoved
<1>12. CASE Record \/ NotRecorded \/ Finish \/ ShowResume
  BY <1>12 DEF Record, NotRecorded, Finish, ShowResume
<1>13. CASE Replay \/ ReplayRefused \/ ReplayForgets
  BY <1>13 DEF Replay, ReplayRefused, ReplayForgets, OpenIs
<1>14. CASE Crash \/ LeaseExpires \/ Sweep
  BY <1>14 DEF Crash, LeaseExpires, Sweep
<1>15. CASE ReviewSendsBack \/ ReviewMerges \/ ReviewAsks
  BY <1>15 DEF ReviewSendsBack, ReviewMerges, ReviewAsks
<1>16. CASE Repaired \/ PersonMoves
  BY <1>16 DEF Repaired, PersonMoves
<1>17. CASE PersonPushes \/ PersonDeletes \/ PersonCloses
  BY <1>17 DEF PersonPushes, PersonDeletes, PersonCloses, OpenIs
<1>18. CASE UNCHANGED vars
  BY <1>18
<1> QED
  BY <1>1, <1>2, <1>3, <1>4, <1>5, <1>6, <1>7, <1>8, <1>9, <1>10, <1>11,
    <1>12, <1>13, <1>14, <1>15, <1>16, <1>17, <1>18 DEF Next, Decide, Job,
    RunStep, EffectStep, ReplayStep, Review, Person

\* What moves the working directory, and what the job builds on.
LEMMA PlaceMoves ==
    [Next]_vars =>
        UNCHANGED <<tip, pend>> \/ Over \/ Materialize \/ (At("push") /\ Lands) \/ Start
          \/ (tip' = tip /\ pend' = Nothing) \/ ReplayTodo \/ ResumeProgress
<1> SUFFICES ASSUME [Next]_vars PROVE UNCHANGED <<tip, pend>> \/ Over \/ Materialize
  \/ (At("push") /\ Lands) \/ Start
          \/ (tip' = tip /\ pend' = Nothing) \/
  ReplayTodo \/ ResumeProgress
  OBVIOUS
<1> USE Ending, Exits DEF Goto, linear, branch, github, intents, job, local, history,
  vars
<1>1. CASE EscalateTodo \/ ResumeTodo \/ ReplayTodo
  BY <1>1 DEF EscalateTodo, ResumeTodo, ReplayTodo, At, Launch
<1>2. CASE RunFresh \/ ResumeProgress \/ EscalateProgress
  BY <1>2 DEF RunFresh, ResumeProgress, EscalateProgress, Launch
<1>3. CASE Start \/ Materialize \/ NotMaterialized
  BY <1>3 DEF Start, Materialize, NotMaterialized, NoRow
<1>4. CASE NotReady \/ Ready \/ Claim \/ RunFails
  BY <1>4 DEF NotReady, Ready, Claim, RunFails
<1>5. CASE LoopFails \/ WorkDone \/ WorkPauses \/ Pause
  BY <1>5 DEF LoopFails, WorkDone, WorkPauses, Pause
<1>6. CASE Own \/ NotOwned
  BY <1>6 DEF Own, NotOwned
<1>7. CASE Push
  BY <1>7 DEF Push
<1>8. CASE Observe \/ NotObserved
  BY <1>8 DEF Observe, NotObserved
<1>9. CASE PushFailed \/ ClearPrior
  BY <1>9 DEF PushFailed, ClearPrior
<1>10. CASE OpenPullRequest \/ NotOpened
  BY <1>10 DEF OpenPullRequest, NotOpened
<1>11. CASE MoveToReview \/ NotMoved
  BY <1>11 DEF MoveToReview, NotMoved
<1>12. CASE Record \/ NotRecorded \/ Finish \/ ShowResume
  BY <1>12 DEF Record, NotRecorded, Finish, ShowResume
<1>13. CASE Replay \/ ReplayRefused \/ ReplayForgets
  BY <1>13 DEF Replay, ReplayRefused, ReplayForgets, OpenIs
<1>14. CASE Crash \/ LeaseExpires \/ Sweep
  BY <1>14 DEF Crash, LeaseExpires, Sweep
<1>15. CASE ReviewSendsBack \/ ReviewMerges \/ ReviewAsks
  BY <1>15 DEF ReviewSendsBack, ReviewMerges, ReviewAsks
<1>16. CASE Repaired \/ PersonMoves
  BY <1>16 DEF Repaired, PersonMoves
<1>17. CASE PersonPushes \/ PersonDeletes \/ PersonCloses
  BY <1>17 DEF PersonPushes, PersonDeletes, PersonCloses, OpenIs
<1>18. CASE UNCHANGED vars
  BY <1>18
<1> QED
  BY <1>1, <1>2, <1>3, <1>4, <1>5, <1>6, <1>7, <1>8, <1>9, <1>10, <1>11,
    <1>12, <1>13, <1>14, <1>15, <1>16, <1>17, <1>18 DEF Next, Decide, Job,
    RunStep, EffectStep, ReplayStep, Review, Person

\* What a move of the branch leaves alone, and what a new commit contains.
LEMMA PastStep ==
    BranchOK /\ JobOK /\ Grown /\ Known /\ [Next]_vars =>
        /\ made \in Nat /\ made' \in Nat /\ made <= made'
        /\ \A c \in 1..made : past'[c] = past[c] /\ maker'[c] = maker[c]
        /\ (made' = made /\ past' = past /\ maker' = maker /\ head' \in {head, 0})
           \/ /\ made' = made + 1 /\ made' \in Commits /\ head' = made'
              /\ \E P \in {{}, past[tip], past[head]} :
                    /\ past'[made'] = {made'} \cup P
                    /\ P \subseteq 1..made
                    /\ \A d \in P : past[d] \subseteq P
              /\ \A c \in Commits : c > made' => maker'[c] = 0
<1> SUFFICES ASSUME BranchOK, JobOK, Grown, Known, [Next]_vars
             PROVE  /\ made \in Nat /\ made' \in Nat /\ made <= made'
                    /\ \A c \in 1..made : past'[c] = past[c] /\ maker'[c] = maker[c]
                    /\ (made' = made /\ past' = past /\ maker' = maker /\ head' \in {head, 0})
                       \/ /\ made' = made + 1 /\ made' \in Commits /\ head' = made'
                          /\ \E P \in {{}, past[tip], past[head]} :
                                /\ past'[made'] = {made'} \cup P
                                /\ P \subseteq 1..made
                                /\ \A d \in P : past[d] \subseteq P
                          /\ \A c \in Commits : c > made' => maker'[c] = 0
  OBVIOUS
<1>1. made \in Nat /\ head \in 0..made /\ tip \in 0..made /\ Commits = 1..MaxCommits
  BY BoundAssumption DEF BranchOK, JobOK, Known, Heads, Commits
<1>2. \A h \in {tip, head} : h # 0 => past[h] \subseteq 1..made /\ \A d \in past[h] : past[d] \subseteq past[h]
  BY <1>1 DEF Grown
<1>3. CASE UNCHANGED branch
  BY <1>1, <1>3 DEF branch
<1>4. CASE At("push") /\ Lands
  <2>1. made' = made + 1 /\ head' = made' /\ made' \in Commits
    BY <1>1, <1>4, BoundAssumption DEF Lands
  <2> DEFINE P == IF tip = 0 THEN {} ELSE past[tip]
  <2>2. past' = [past EXCEPT ![made'] = {made'} \cup P] /\ maker' = [maker EXCEPT ![made'] = run]
    BY <1>4 DEF Lands
  <2>3. P \in {{}, past[tip], past[head]} /\ P \subseteq 1..made /\ \A d \in P : past[d] \subseteq P
    BY <1>2
  <2> HIDE DEF P
  <2>4. past'[made'] = {made'} \cup P
    BY <2>1, <2>2 DEF BranchOK
  <2>5. \A c \in 1..made : past'[c] = past[c] /\ maker'[c] = maker[c]
    BY <1>1, <2>1, <2>2 DEF BranchOK
  <2>6. \A c \in Commits : c > made' => maker'[c] = 0
    BY <1>1, <2>1, <2>2 DEF BranchOK, Grown
  <2>7. made \in Nat /\ made' \in Nat /\ made <= made'
    BY <1>1, <2>1
  <2>8. \E Q \in {{}, past[tip], past[head]} :
          past'[made'] = {made'} \cup Q /\ Q \subseteq 1..made /\ \A d \in Q : past[d] \subseteq Q
    BY <2>3, <2>4
  <2> QED
    BY <2>1, <2>5, <2>6, <2>7, <2>8
<1>5. CASE PersonPushes
  <2>1. made' = made + 1 /\ head' = made' /\ made' \in Commits /\ maker' = maker
    BY <1>1, <1>5, BoundAssumption DEF PersonPushes
  <2>2. PICK P \in {{}, past[head]} : past' = [past EXCEPT ![made'] = {made'} \cup P]
    BY <1>5 DEF PersonPushes
  <2>3. P \subseteq 1..made /\ \A d \in P : past[d] \subseteq P
    BY <1>2, <1>5 DEF PersonPushes
  <2>4. past'[made'] = {made'} \cup P
    BY <2>1, <2>2 DEF BranchOK
  <2>5. \A c \in 1..made : past'[c] = past[c] /\ maker'[c] = maker[c]
    BY <1>1, <2>1, <2>2 DEF BranchOK
  <2>6. \A c \in Commits : c > made' => maker'[c] = 0
    BY <1>1, <2>1 DEF Grown
  <2>7. made \in Nat /\ made' \in Nat /\ made <= made'
    BY <1>1, <2>1
  <2>8. \E Q \in {{}, past[tip], past[head]} :
          past'[made'] = {made'} \cup Q /\ Q \subseteq 1..made /\ \A d \in Q : past[d] \subseteq Q
    BY <2>3, <2>4
  <2> QED
    BY <2>1, <2>5, <2>6, <2>7, <2>8
<1>6. CASE PersonDeletes
  BY <1>1, <1>6 DEF PersonDeletes
<1> QED
  BY <1>3, <1>4, <1>5, <1>6, BranchMoves

\* The history of the branch only grows.
LEMMA GrownStep == BranchOK /\ JobOK /\ Grown /\ Known /\ [Next]_vars => Grown'
<1> SUFFICES ASSUME BranchOK, JobOK, Grown, Known, [Next]_vars PROVE Grown'
  OBVIOUS
<1>1. made \in Nat /\ \A c \in 1..made : past'[c] = past[c] /\ maker'[c] = maker[c]
  BY PastStep
<1>2. CASE made' = made /\ past' = past /\ maker' = maker
  BY <1>2 DEF Grown
<1>3. CASE made' # made \/ past' # past \/ maker' # maker
  <2>1. /\ made' = made + 1
        /\ \A c \in Commits : c > made' => maker'[c] = 0
    BY <1>3, PastStep
  <2>2. PICK P : past'[made'] = {made'} \cup P /\ P \subseteq 1..made /\ \A d \in P : past[d] \subseteq P
    BY <1>3, PastStep
  <2>3. ASSUME NEW c \in 1..made'
        PROVE  c \in past'[c] /\ past'[c] \subseteq 1..c /\ \A d \in past'[c] : past'[d] \subseteq past'[c]
    <3>1. CASE c = made'
      <4>1. c \in past'[c] /\ past'[c] \subseteq 1..c
        <5>1. {made'} \subseteq 1..made' /\ 1..made \subseteq 1..made'
          BY <1>1, <2>1
        <5> QED
          BY <2>2, <3>1, <5>1
      <4>2. ASSUME NEW d \in past'[c] PROVE past'[d] \subseteq past'[c]
        <5>1. CASE d = c
          BY <5>1
        <5>2. CASE d \in P
          <6>1. past'[d] = past[d] /\ past[d] \subseteq P
            BY <1>1, <2>2, <5>2
          <6> QED
            BY <2>2, <3>1, <6>1
        <5> QED
          BY <2>2, <3>1, <5>1, <5>2
      <4> QED
        BY <4>1, <4>2
    <3>2. CASE c # made'
      <4>1. c \in 1..made
        BY <1>1, <2>1, <3>2
      <4>2. past'[c] = past[c] /\ c \in past[c] /\ past[c] \subseteq 1..c
        BY <1>1, <4>1 DEF Grown
      <4>3. \A d \in past[c] : past'[d] = past[d] /\ past[d] \subseteq past[c]
        <5>1. \A d \in past[c] : d \in 1..made
          BY <1>1, <4>1, <4>2
        <5> QED
          BY <1>1, <4>1, <5>1 DEF Grown
      <4> QED
        BY <4>2, <4>3
    <3> QED
      BY <3>1, <3>2
  <2> QED
    BY <2>1, <2>3 DEF Grown
<1> QED
  BY <1>2, <1>3

\* No step learns of a commit that was not made.
LEMMA KnownStep == TypeOK /\ Grown /\ Known /\ [Next]_vars => Known'
<1> SUFFICES ASSUME TypeOK, Grown, Known, [Next]_vars PROVE Known'
  OBVIOUS
<1>1. BranchOK /\ JobOK /\ IntentsOK
  BY Parts
<1>2. BranchOK'
  BY <1>1, BranchTyping
<1>3. made <= made' /\ made \in Nat /\ made' \in Nat /\ head <= made /\ head \in Nat /\ tip \in Nat
  BY <1>1, PastStep, BoundAssumption DEF BranchOK, JobOK, Heads
<1>4. \A r \in Runs : intent[r] # Nothing => intent[r] \in Nat /\ intent[r] <= made
  BY <1>1, BoundAssumption DEF Known, IntentsOK, Heads
<1>5. tip' <= made'
  <2>1. CASE tip' = tip \/ tip' = 0
    BY <1>3, <2>1 DEF Known
  <2>2. CASE Materialize
    BY <1>3, <2>2 DEF Materialize, github, branch
  <2>3. CASE At("push") /\ Lands
    BY <1>3, <2>3 DEF Lands
  <2> QED
    BY <2>1, <2>2, <2>3, PlaceMoves DEF Over, Start, ReplayTodo, ResumeProgress, Launch
<1>6. \A r \in Runs : intent'[r] # Nothing => intent'[r] <= made'
  <2>1. CASE UNCHANGED intents
    BY <1>3, <1>4, <2>1 DEF intents
  <2>2. ASSUME NEW q, ClearIntent(q) PROVE \A r \in Runs : intent'[r] # Nothing => intent'[r] = intent[r]
    BY <1>1, <2>2 DEF ClearIntent, IntentsOK
  <2>3. ASSUME NEW q, NEW h \in {0, head}, WriteIntent(q, h)
        PROVE  \A r \in Runs : intent'[r] # Nothing => intent'[r] \in {intent[r], 0, head}
    BY <1>1, <2>3 DEF WriteIntent, IntentsOK
  <2>4. \A r \in Runs : intent'[r] # Nothing => intent'[r] \in {intent[r], 0, head}
    BY <2>1, <2>2, <2>3, IntentMoves DEF intents, Own, Observe, PushFailed, ForgetUnseen, ClearPrior, Replay,
       ReplayForgets, Sweep
  <2> QED
    BY <1>3, <1>4, <2>4
<1>7. pend' # Nothing => pend'.head <= made'
  <2>1. CASE pend' = pend \/ pend' = Nothing
    <3>1. pend # Nothing => pend.head \in Nat /\ pend.head <= made
      BY <1>1, BoundAssumption DEF Known, JobOK, Pendings, Heads
    <3> QED
      BY <1>3, <2>1, <3>1
  <2>2. CASE pend' # pend /\ pend' # Nothing
    <3>1. \/ \E q \in Runs : intent[q] # Nothing /\ pend' = [run |-> q, head |-> intent[q]]
          \/ pend' = [run |-> 0, head |-> head]
      BY <2>2, PlaceMoves DEF Over, Start, ReplayTodo, ResumeProgress, Launch, Oldest, Materialize, Lands
    <3>2. pend'.head \in Nat /\ pend'.head <= made
      BY <1>3, <1>4, <3>1
    <3> QED
      BY <1>3, <3>2
  <2> QED
    BY <2>1, <2>2
<1> QED
  BY <1>5, <1>6, <1>7 DEF Known

\* The intent of the run in flight is where the run is.
LEMMA WrittenStep ==
    JobOK /\ IntentsOK /\ BranchOK /\ Owner /\ Written /\ Based /\ [Next]_vars => Written'
<1> SUFFICES ASSUME JobOK, IntentsOK, BranchOK, Owner, Written, Based, [Next]_vars
  PROVE Written'
  OBVIOUS
<1> USE DEF Written, Before, Pushes, Over, Goto, At, linear, branch, github, intents,
  job, local, history, vars
<1>1. CASE EscalateTodo \/ ResumeTodo \/ ReplayTodo
  BY <1>1 DEF EscalateTodo, ResumeTodo, ReplayTodo, Launch
<1>2. CASE RunFresh \/ ResumeProgress \/ EscalateProgress
  BY <1>2 DEF RunFresh, ResumeProgress, EscalateProgress, Launch
<1>3. CASE Start \/ Materialize \/ NotMaterialized
  <2>1. CASE Materialize \/ NotMaterialized
    BY <2>1, Ending DEF Materialize, NotMaterialized, NoRow
  <2>2. CASE Start
  <3>1. PICK r \in Runs : New(r) /\ run' = r
    BY <2>2 DEF Start
  <3>2. intent' = intent /\ pc = "start" /\ pc' = "clone" /\ intent[r] = Nothing /\ r # 0
    BY <2>2, <3>1 DEF Start, New, Traced, Runs
  <3>3. pend' = Nothing \/ pend'.run # r
    <4>1. CASE pend' = pend
      BY <3>2, <4>1
    <4>2. CASE \E q \in Runs : Oldest(q) /\ pend' = [run |-> q, head |-> intent[q]]
      BY <3>2, <4>2 DEF Oldest
    <4> QED
      BY <2>2, <4>1, <4>2 DEF Start
  <3> QED
    BY <3>1, <3>2, <3>3
  <2> QED
    BY <1>3, <2>1, <2>2
<1>4. CASE NotReady \/ Ready \/ Claim \/ RunFails
  BY <1>4, Exits DEF NotReady, Ready, Claim, RunFails
<1>5. CASE LoopFails \/ WorkDone \/ WorkPauses \/ Pause
  BY <1>5, Exits DEF LoopFails, WorkDone, WorkPauses, Pause
<1>6. CASE Own \/ NotOwned
  <2>1. CASE NotOwned
    BY <2>1, Ending DEF NotOwned
  <2>2. CASE Own
  <3>1. run \in Runs
    BY <2>2 DEF Own, Owner
  <3>2. intent'[run] = 0
    BY <2>2, <3>1 DEF Own, WriteIntent, IntentsOK
  <3> QED
    BY <2>2, <3>2 DEF Own
  <2> QED
    BY <1>6, <2>1, <2>2
<1>7. CASE Push
  BY <1>7 DEF Push, Lands
<1>8. CASE Observe \/ NotObserved
  <2>1. CASE NotObserved
    BY <2>1, Ending DEF NotObserved
  <2>2. CASE Observe
  <3>1. run \in Runs
    BY <2>2 DEF Observe, Landed, Owner
  <3>2. intent'[run] = tip
    BY <2>2, <3>1 DEF Observe, Landed, WriteIntent, IntentsOK
  <3> QED
    BY <2>2, <3>2 DEF Observe, Landed
  <2> QED
    BY <1>8, <2>1, <2>2
<1>9. CASE PushFailed \/ ClearPrior
  <2>1. CASE PushFailed
  <3>1. pc' = "idle"
    BY <2>1, Ending DEF PushFailed
  <3> QED
    BY <3>1
  <2>2. CASE ClearPrior
  <3>1. run \in Runs /\ intent[run] = tip /\ tip # 0 /\ tip # Nothing
    BY <2>2, NothingAssumption DEF ClearPrior, Owner, Based, JobOK
  <3>2. intent'[run] = tip
    BY <2>2, <3>1 DEF ClearPrior, ClearIntent, IntentsOK
  <3> QED
    BY <2>2, <3>1, <3>2 DEF ClearPrior
  <2> QED
    BY <1>9, <2>1, <2>2
<1>10. CASE OpenPullRequest \/ NotOpened
  BY <1>10, Ending DEF OpenPullRequest, NotOpened
<1>11. CASE MoveToReview \/ NotMoved
  BY <1>11, Ending DEF MoveToReview, NotMoved
<1>12. CASE Record \/ NotRecorded \/ Finish \/ ShowResume
  BY <1>12, Exits DEF Record, NotRecorded, Finish, ShowResume
<1>13. CASE Replay \/ ReplayRefused \/ ReplayForgets
  BY <1>13 DEF Replay, ReplayRefused, ReplayForgets, OpenIs, Owner
<1>14. CASE Crash \/ LeaseExpires \/ Sweep
  BY <1>14 DEF Crash, LeaseExpires, Sweep, ClearIntent
<1>15. CASE ReviewSendsBack \/ ReviewMerges \/ ReviewAsks
  BY <1>15 DEF ReviewSendsBack, ReviewMerges, ReviewAsks
<1>16. CASE Repaired \/ PersonMoves
  BY <1>16 DEF Repaired, PersonMoves
<1>17. CASE PersonPushes \/ PersonDeletes \/ PersonCloses
  BY <1>17 DEF PersonPushes, PersonDeletes, PersonCloses, OpenIs
<1>18. CASE UNCHANGED vars
  BY <1>18
<1> QED
  BY <1>1, <1>2, <1>3, <1>4, <1>5, <1>6, <1>7, <1>8, <1>9, <1>10, <1>11,
    <1>12, <1>13, <1>14, <1>15, <1>16, <1>17, <1>18 DEF Next, Decide, Job,
    RunStep, EffectStep, ReplayStep, Review, Person

\* The end of a wake changes the row of the run and no other.
LEMMA CompletedRow ==
    ASSUME RunsOK, run \in Runs, NEW st, NEW se, Complete(st, se)
    PROVE  runs'[run].state = st /\ \A r \in Runs \ {run} : runs'[r] = runs[r]
BY DEF Complete, RunsOK, Rows

\* It leaves the row of an intent that has not seen a head where it was.
LEMMA CompletedSeen ==
    ASSUME RunsOK, IntentsOK, run \in Runs,
           NEW st \in {"completed", "paused", "rejected", "dead"}, NEW se, Complete(st, se),
           UnseenHasRow,
           (intent' = intent /\ (st # "rejected" \/ intent[run] # 0)) \/ ClearIntent(run)
    PROVE  UnseenHasRow'
<1>1. runs'[run].state = st /\ \A r \in Runs \ {run} : runs'[r] = runs[r]
  BY CompletedRow
<1>2. \A r \in Runs : intent'[r] = 0 => intent[r] = 0 /\ (r # run \/ st # "rejected")
  BY NothingAssumption, BoundAssumption DEF ClearIntent, IntentsOK, Heads
<1> QED
  BY <1>1, <1>2 DEF Seen, UnseenHasRow

\* An issue that is done has no job any more.
LEMMA DoneStep ==
    Owner /\ Rowed /\ [Next]_vars =>
        (status' = "done" => pc' = "idle") /\ (status = "done" => status' = "done")
<1> SUFFICES ASSUME Owner, status = "done" => pc = "idle", [Next]_vars PROVE (status' = "done" => pc' = "idle") /\ (status = "done" =>
  status' = "done")
  BY DEF Rowed
<1> USE DEF Over, Goto, At, Escalate, linear, branch, github, intents, job, local,
  history, vars
<1>1. CASE EscalateTodo \/ ResumeTodo \/ ReplayTodo
  BY <1>1 DEF EscalateTodo, ResumeTodo, ReplayTodo, Launch
<1>2. CASE RunFresh \/ ResumeProgress \/ EscalateProgress
  BY <1>2 DEF RunFresh, ResumeProgress, EscalateProgress, Launch
<1>3. CASE Start \/ Materialize \/ NotMaterialized
  BY <1>3, Ending DEF Start, Materialize, NotMaterialized, NoRow
<1>4. CASE NotReady \/ Ready \/ Claim \/ RunFails
  BY <1>4, Exits DEF NotReady, Ready, Claim, RunFails
<1>5. CASE LoopFails \/ WorkDone \/ WorkPauses \/ Pause
  BY <1>5, Exits DEF LoopFails, WorkDone, WorkPauses, Pause
<1>6. CASE Own \/ NotOwned
  BY <1>6, Ending DEF Own, NotOwned
<1>7. CASE Push
  BY <1>7 DEF Push, Lands
<1>8. CASE Observe \/ NotObserved
  BY <1>8, Ending DEF Observe, NotObserved, Landed
<1>9. CASE PushFailed \/ ClearPrior
  BY <1>9, Ending DEF PushFailed, ClearPrior
<1>10. CASE OpenPullRequest \/ NotOpened
  BY <1>10, Ending DEF OpenPullRequest, NotOpened
<1>11. CASE MoveToReview \/ NotMoved
  BY <1>11, Ending DEF MoveToReview, NotMoved
<1>12. CASE Record \/ NotRecorded \/ Finish \/ ShowResume
  BY <1>12, Exits DEF Record, NotRecorded, Finish, ShowResume
<1>13. CASE Replay \/ ReplayRefused \/ ReplayForgets
  BY <1>13 DEF Replay, ReplayRefused, ReplayForgets, OpenIs
<1>14. CASE Crash \/ LeaseExpires \/ Sweep
  BY <1>14 DEF Crash, LeaseExpires, Sweep
<1>15. CASE ReviewSendsBack \/ ReviewMerges \/ ReviewAsks
  BY <1>15 DEF ReviewSendsBack, ReviewMerges, ReviewAsks
<1>16. CASE Repaired \/ PersonMoves
  BY <1>16 DEF Repaired, PersonMoves
<1>17. CASE PersonPushes \/ PersonDeletes \/ PersonCloses
  BY <1>17 DEF PersonPushes, PersonDeletes, PersonCloses, OpenIs
<1>18. CASE UNCHANGED vars
  BY <1>18
<1> QED
  BY <1>1, <1>2, <1>3, <1>4, <1>5, <1>6, <1>7, <1>8, <1>9, <1>10, <1>11,
    <1>12, <1>13, <1>14, <1>15, <1>16, <1>17, <1>18 DEF Next, Decide, Job,
    RunStep, EffectStep, ReplayStep, Review, Person

\* The row of the run in flight says that it is running.
LEMMA RunningStep ==
    RunsOK /\ Owner /\ Rowed /\ [Next]_vars => RunInFlight'
<1> SUFFICES ASSUME RunsOK, Owner, RunInFlight, [Next]_vars PROVE RunInFlight'
  BY DEF Rowed
<1> USE DEF RunInFlight, Over, Goto, At, linear, branch, github, intents, job, local,
  history, vars
<1>1. CASE EscalateTodo \/ ResumeTodo \/ ReplayTodo
  BY <1>1 DEF EscalateTodo, ResumeTodo, ReplayTodo, Launch
<1>2. CASE RunFresh \/ ResumeProgress \/ EscalateProgress
  BY <1>2 DEF RunFresh, ResumeProgress, EscalateProgress, Launch
<1>3. CASE Start \/ Materialize \/ NotMaterialized
  <2>1. CASE Materialize \/ NotMaterialized
    BY <2>1, Ending DEF Materialize, NotMaterialized, NoRow
  <2>2. CASE Start
  <3>1. PICK r \in Runs : run' = r /\ runs' = [runs EXCEPT ![r] = [NoRow EXCEPT !.state = "running"]]
    BY <2>2 DEF Start
  <3> QED
    BY <3>1 DEF RunsOK, NoRow
  <2> QED
    BY <1>3, <2>1, <2>2
<1>4. CASE NotReady \/ Ready \/ Claim \/ RunFails
  BY <1>4, Exits DEF NotReady, Ready, Claim, RunFails
<1>5. CASE LoopFails \/ WorkDone \/ WorkPauses \/ Pause
  <2>1. CASE LoopFails \/ WorkDone \/ Pause
    BY <2>1, Exits DEF LoopFails, WorkDone, Pause
  <2>2. CASE WorkPauses
  <3>1. run \in Runs /\ runs'[run].state = runs[run].state
    BY <2>2 DEF WorkPauses, Owner, RunsOK, Rows
  <3> QED
    BY <2>2, <3>1 DEF WorkPauses
  <2> QED
    BY <1>5, <2>1, <2>2
<1>6. CASE Own \/ NotOwned
  BY <1>6, Ending DEF Own, NotOwned
<1>7. CASE Push
  BY <1>7 DEF Push, Lands
<1>8. CASE Observe \/ NotObserved
  BY <1>8, Ending DEF Observe, NotObserved, Landed
<1>9. CASE PushFailed \/ ClearPrior
  BY <1>9, Ending DEF PushFailed, ClearPrior
<1>10. CASE OpenPullRequest \/ NotOpened
  BY <1>10, Ending DEF OpenPullRequest, NotOpened
<1>11. CASE MoveToReview \/ NotMoved
  BY <1>11, Ending DEF MoveToReview, NotMoved
<1>12. CASE Record \/ NotRecorded \/ Finish \/ ShowResume
  <2>1. CASE NotRecorded \/ Finish \/ ShowResume
    BY <2>1, Exits DEF NotRecorded, Finish, ShowResume
  <2>2. CASE Record
  <3>1. run \in Runs /\ runs'[run].state = runs[run].state
    BY <2>2 DEF Record, Owner, RunsOK, Rows
  <3> QED
    BY <2>2, <3>1 DEF Record
  <2> QED
    BY <1>12, <2>1, <2>2
<1>13. CASE Replay \/ ReplayRefused \/ ReplayForgets
  BY <1>13 DEF Replay, ReplayRefused, ReplayForgets, OpenIs, Owner
<1>14. CASE Crash \/ LeaseExpires \/ Sweep
  BY <1>14 DEF Crash, LeaseExpires, Sweep
<1>15. CASE ReviewSendsBack \/ ReviewMerges \/ ReviewAsks
  BY <1>15 DEF ReviewSendsBack, ReviewMerges, ReviewAsks
<1>16. CASE Repaired \/ PersonMoves
  BY <1>16 DEF Repaired, PersonMoves
<1>17. CASE PersonPushes \/ PersonDeletes \/ PersonCloses
  BY <1>17 DEF PersonPushes, PersonDeletes, PersonCloses, OpenIs
<1>18. CASE UNCHANGED vars
  BY <1>18
<1> QED
  BY <1>1, <1>2, <1>3, <1>4, <1>5, <1>6, <1>7, <1>8, <1>9, <1>10, <1>11,
    <1>12, <1>13, <1>14, <1>15, <1>16, <1>17, <1>18 DEF Next, Decide, Job,
    RunStep, EffectStep, ReplayStep, Review, Person

\* An intent that has not seen a head keeps the row of its run.
LEMMA SeenStep ==
    RunsOK /\ IntentsOK /\ BranchOK /\ Owner /\ Written /\ Rowed /\ [Next]_vars => UnseenHasRow'
<1> SUFFICES ASSUME RunsOK, IntentsOK, BranchOK, Owner, Written, Rowed, [Next]_vars PROVE UnseenHasRow'
  OBVIOUS
<1>0. UnseenHasRow /\ Nothing # 0
  BY NothingAssumption, BoundAssumption DEF Rowed, Heads
<1> USE <1>0, CompletedSeen DEF UnseenHasRow, Seen, At, linear, branch, github, intents,
  job, local, history, vars
<1>1. CASE EscalateTodo \/ ResumeTodo \/ ReplayTodo
  BY <1>1 DEF EscalateTodo, ResumeTodo, ReplayTodo
<1>2. CASE RunFresh \/ ResumeProgress \/ EscalateProgress
  BY <1>2 DEF RunFresh, ResumeProgress, EscalateProgress
<1>3. CASE Start \/ Materialize \/ NotMaterialized
  <2>1. CASE Materialize \/ NotMaterialized
    BY <2>1 DEF Materialize, NotMaterialized, NoRow, Throw, Owner, Written, Before
  <2>2. CASE Start
  <3>1. PICK r \in Runs : runs' = [runs EXCEPT ![r] = [NoRow EXCEPT !.state = "running"]]
    BY <2>2 DEF Start
  <3> QED
    BY <2>2, <3>1 DEF Start, RunsOK, NoRow
  <2> QED
    BY <1>3, <2>1, <2>2
<1>4. CASE NotReady \/ Ready \/ Claim \/ RunFails
  BY <1>4 DEF NotReady, Ready, Claim, RunFails, End, Owner, Written, Before, Throw
<1>5. CASE LoopFails \/ WorkDone \/ WorkPauses \/ Pause
  <2>1. CASE LoopFails \/ WorkDone
    BY <2>1 DEF LoopFails, WorkDone, Refuse, End, Owner, Written, Before
  <2>2. CASE WorkPauses
  <3>1. \A r \in Runs : runs'[r].state = runs[r].state
    BY <2>2 DEF WorkPauses, RunsOK, Rows
  <3> QED
    BY <2>2, <3>1 DEF WorkPauses
  <2>3. CASE Pause
  <3>1. run \in Runs /\ kind # "replay" /\ intent[run] # 0
    BY <2>3 DEF Pause, Owner, Written, Before
  <3>2. \E st \in {"completed", "paused", "rejected", "dead"}, se \in BOOLEAN : Complete(st, se)
    BY <2>3, <3>1 DEF Pause, Pend, Refuse, End
  <3> QED
    BY <2>3, <3>1, <3>2 DEF Pause
  <2> QED
    BY <1>5, <2>1, <2>2, <2>3
<1>6. CASE Own \/ NotOwned
  <2>1. CASE NotOwned
    BY <2>1 DEF NotOwned, Refuse, End, Owner, Written, Before
  <2>2. CASE Own
  <3>1. run \in Runs /\ runs[run].state = "running"
    BY <2>2 DEF Own, Owner, Rowed, RunInFlight
  <3> QED
    BY <2>2, <3>1 DEF Own, WriteIntent, IntentsOK
  <2> QED
    BY <1>6, <2>1, <2>2
<1>7. CASE Push
  BY <1>7 DEF Push
<1>8. CASE Observe \/ NotObserved
  <2>1. CASE NotObserved
    BY <2>1 DEF NotObserved, Pend, End, Owner
  <2>2. CASE Observe
  <3>1. \A r \in Runs : intent'[r] = 0 => intent[r] = 0
    BY <2>2 DEF Observe, Landed, Owner, Written, Pushes, WriteIntent, IntentsOK
  <3> QED
    BY <2>2, <3>1 DEF Observe
  <2> QED
    BY <1>8, <2>1, <2>2
<1>9. CASE PushFailed \/ ClearPrior
  <2>1. CASE PushFailed
  <3>1. ClearIntent(run) /\ Complete("rejected", FALSE)
    BY <2>1 DEF PushFailed, ForgetUnseen, Refuse, End, Owner
  <3> QED
    BY <2>1, <3>1 DEF PushFailed, Owner
  <2>2. CASE ClearPrior
  <3>1. \A r \in Runs : intent'[r] = 0 => intent[r] = 0
    BY <2>2, NothingAssumption, BoundAssumption DEF ClearPrior, ClearIntent, IntentsOK, Heads
  <3> QED
    BY <2>2, <3>1 DEF ClearPrior
  <2> QED
    BY <1>9, <2>1, <2>2
<1>10. CASE OpenPullRequest \/ NotOpened
  BY <1>10 DEF OpenPullRequest, NotOpened, Pend, End, Owner
<1>11. CASE MoveToReview \/ NotMoved
  BY <1>11 DEF MoveToReview, NotMoved, Pend, Refuse, End, Owner, Written
<1>12. CASE Record \/ NotRecorded \/ Finish \/ ShowResume
  <2>1. CASE NotRecorded \/ Finish \/ ShowResume
    BY <2>1 DEF NotRecorded, Finish, ShowResume, End, Owner
  <2>2. CASE Record
  <3>1. \A r \in Runs : runs'[r].state = runs[r].state
    BY <2>2 DEF Record, RunsOK, Rows
  <3> QED
    BY <2>2, <3>1 DEF Record
  <2> QED
    BY <1>12, <2>1, <2>2
<1>13. CASE Replay \/ ReplayRefused \/ ReplayForgets
  <2>1. CASE ReplayRefused
    BY <2>1 DEF ReplayRefused, OpenIs
  <2>2. CASE Replay
  <3>1. \A r \in Runs : intent'[r] = 0 => intent[r] = 0
    BY <2>2 DEF Replay, WriteIntent, IntentsOK
  <3> QED
    BY <2>2, <3>1 DEF Replay
  <2>3. CASE ReplayForgets
  <3>1. \A r \in Runs : intent'[r] = 0 => intent[r] = 0
    BY <2>3, NothingAssumption, BoundAssumption DEF ReplayForgets, ForgetUnseen, ClearIntent, IntentsOK, Heads
  <3> QED
    BY <2>3, <3>1 DEF ReplayForgets
  <2> QED
    BY <1>13, <2>1, <2>2, <2>3
<1>14. CASE Crash \/ LeaseExpires \/ Sweep
  <2>1. CASE Crash \/ LeaseExpires
    BY <2>1 DEF Crash, LeaseExpires
  <2>2. CASE Sweep
  <3>1. \A r \in Runs : intent'[r] = 0 => intent[r] = 0
    BY <2>2, NothingAssumption, BoundAssumption DEF Sweep, ClearIntent, IntentsOK, Heads
  <3> QED
    BY <2>2, <3>1 DEF Sweep
  <2> QED
    BY <1>14, <2>1, <2>2
<1>15. CASE ReviewSendsBack \/ ReviewMerges \/ ReviewAsks
  BY <1>15 DEF ReviewSendsBack, ReviewMerges, ReviewAsks
<1>16. CASE Repaired \/ PersonMoves
  BY <1>16 DEF Repaired, PersonMoves
<1>17. CASE PersonPushes \/ PersonDeletes \/ PersonCloses
  BY <1>17 DEF PersonPushes, PersonDeletes, PersonCloses, OpenIs
<1>18. CASE UNCHANGED vars
  BY <1>18
<1> QED
  BY <1>1, <1>2, <1>3, <1>4, <1>5, <1>6, <1>7, <1>8, <1>9, <1>10, <1>11,
    <1>12, <1>13, <1>14, <1>15, <1>16, <1>17, <1>18 DEF Next, Decide, Job,
    RunStep, EffectStep, ReplayStep, Review, Person

\* What a run works on stays what it was.
LEMMA BasedStep ==
    BranchOK /\ JobOK /\ Owner /\ Grown /\ Known /\ Based /\ [Next]_vars => Based'
<1> SUFFICES ASSUME BranchOK, JobOK, Owner, Grown, Known, Based, [Next]_vars PROVE Based'
  OBVIOUS
<1> USE DEF Based, Resumes, Over, Goto, At, linear, branch, github, intents, job,
  local, history, vars
<1>1. CASE EscalateTodo \/ ResumeTodo \/ ReplayTodo
  BY <1>1 DEF EscalateTodo, ResumeTodo, ReplayTodo, Launch
<1>2. CASE RunFresh \/ ResumeProgress \/ EscalateProgress
  BY <1>2 DEF RunFresh, ResumeProgress, EscalateProgress, Launch
<1>3. CASE Start \/ Materialize \/ NotMaterialized
  <2>1. CASE Start \/ NotMaterialized
    BY <2>1, Ending DEF Start, NotMaterialized, NoRow
  <2>2. CASE Materialize
  <3>1. pend # Nothing /\ pend.head # 0 => pend.head \in past[head]
    BY <2>2 DEF Materialize, Contains
  <3> QED
    BY <2>2, <3>1 DEF Materialize
  <2> QED
    BY <1>3, <2>1, <2>2
<1>4. CASE NotReady \/ Ready \/ Claim \/ RunFails
  BY <1>4, Exits DEF NotReady, Ready, Claim, RunFails
<1>5. CASE LoopFails \/ WorkDone \/ WorkPauses \/ Pause
  BY <1>5, Exits DEF LoopFails, WorkDone, WorkPauses, Pause
<1>6. CASE Own \/ NotOwned
  BY <1>6, Ending DEF Own, NotOwned
<1>7. CASE Push
<2>1. CASE Lands /\ pc' = "pushed"
  <3>1. made' \in Commits /\ tip' = made' /\ head' = made' /\ made' # 0 /\ run' = run
    BY <2>1, BoundAssumption DEF Lands, BranchOK, Commits, Heads
  <3>2. maker'[made'] = run
    BY <2>1, <3>1 DEF Lands, BranchOK
  <3> QED
    BY <2>1, <3>1, <3>2
<2>2. CASE pc' \in {"timed", "failed"}
  BY <2>2
<2> QED
  BY <1>7, <2>1, <2>2 DEF Push
<1>8. CASE Observe \/ NotObserved
  BY <1>8, Ending DEF Observe, NotObserved, Landed
<1>9. CASE PushFailed \/ ClearPrior
  BY <1>9, Ending DEF PushFailed, ClearPrior
<1>10. CASE OpenPullRequest \/ NotOpened
  BY <1>10, Ending DEF OpenPullRequest, NotOpened
<1>11. CASE MoveToReview \/ NotMoved
  BY <1>11, Ending DEF MoveToReview, NotMoved
<1>12. CASE Record \/ NotRecorded \/ Finish \/ ShowResume
  BY <1>12, Exits DEF Record, NotRecorded, Finish, ShowResume
<1>13. CASE Replay \/ ReplayRefused \/ ReplayForgets
  BY <1>13 DEF Replay, ReplayRefused, ReplayForgets, OpenIs
<1>14. CASE Crash \/ LeaseExpires \/ Sweep
  BY <1>14 DEF Crash, LeaseExpires, Sweep
<1>15. CASE ReviewSendsBack \/ ReviewMerges \/ ReviewAsks
  BY <1>15 DEF ReviewSendsBack, ReviewMerges, ReviewAsks
<1>16. CASE Repaired \/ PersonMoves
  BY <1>16 DEF Repaired, PersonMoves
<1>17. CASE PersonPushes \/ PersonDeletes \/ PersonCloses
  <2>1. CASE PersonDeletes \/ PersonCloses
    BY <2>1 DEF PersonDeletes, PersonCloses, OpenIs
  <2>2. CASE PersonPushes
  <3>1. made' = made + 1 /\ head' = made' /\ tip' = tip /\ maker' = maker /\ job' = job
    BY <2>2 DEF PersonPushes
  <3>2. /\ made \in Nat /\ tip \in Nat /\ tip <= made /\ (tip # 0 => past'[tip] = past[tip])
        /\ head \in Nat /\ head <= made
    BY PastStep, BoundAssumption DEF BranchOK, JobOK, Known, Heads
  <3>3. \A c \in past'[head'] : maker'[c] # 0 => c \in past[head]
    <4>1. past' = [past EXCEPT ![made'] = {made'}] \/ past' = [past EXCEPT ![made'] = {made'} \cup past[head]]
      BY <2>2 DEF PersonPushes
    <4>2. made' \in Commits /\ made' > made
      BY <2>2, <3>1, <3>2, BoundAssumption DEF PersonPushes, Commits
    <4>3. maker[made'] = 0
      BY <4>2 DEF Grown
    <4> QED
      BY <3>1, <4>1, <4>2, <4>3 DEF BranchOK
  <3>4. head # 0 /\ head' # 0 /\ head' > tip
    BY <2>2, <3>1, <3>2 DEF PersonPushes
  <3>5. pc' = pc /\ run' = run /\ pend' = pend
    BY <3>1
  <3>6. ASSUME pc \in {"preflight", "claim", "work", "pause", "own", "push"}, tip # 0
        PROVE  pend # Nothing /\ pend.head # 0 /\ pend.head \in past'[tip]
    BY <3>2, <3>6
  <3>7. ASSUME pc \in {"pushed", "prior"}
        PROVE  tip # 0 /\ maker[tip] = run /\ \A c \in past'[head'] : maker'[c] # 0 => c \in past'[tip]
    BY <3>1, <3>2, <3>3, <3>4, <3>7
  <3> QED
    BY <3>1, <3>4, <3>5, <3>6, <3>7
  <2> QED
    BY <1>17, <2>1, <2>2
<1>18. CASE UNCHANGED vars
  BY <1>18
<1> QED
  BY <1>1, <1>2, <1>3, <1>4, <1>5, <1>6, <1>7, <1>8, <1>9, <1>10, <1>11,
    <1>12, <1>13, <1>14, <1>15, <1>16, <1>17, <1>18 DEF Next, Decide, Job,
    RunStep, EffectStep, ReplayStep, Review, Person

\* A review that failed has failed.
LEMMA RedStep ==
    [Next]_vars => red \subseteq red'
<1> SUFFICES ASSUME [Next]_vars PROVE red \subseteq red'
  OBVIOUS
<1> USE DEF linear, branch, github, intents, job, local, history, vars
<1>1. CASE EscalateTodo \/ ResumeTodo \/ ReplayTodo
  BY <1>1 DEF EscalateTodo, ResumeTodo, ReplayTodo
<1>2. CASE RunFresh \/ ResumeProgress \/ EscalateProgress
  BY <1>2 DEF RunFresh, ResumeProgress, EscalateProgress
<1>3. CASE Start \/ Materialize \/ NotMaterialized
  BY <1>3 DEF Start, Materialize, NotMaterialized, NoRow
<1>4. CASE NotReady \/ Ready \/ Claim \/ RunFails
  BY <1>4 DEF NotReady, Ready, Claim, RunFails
<1>5. CASE LoopFails \/ WorkDone \/ WorkPauses \/ Pause
  BY <1>5 DEF LoopFails, WorkDone, WorkPauses, Pause
<1>6. CASE Own \/ NotOwned
  BY <1>6 DEF Own, NotOwned
<1>7. CASE Push
  BY <1>7 DEF Push, Lands
<1>8. CASE Observe \/ NotObserved
  BY <1>8 DEF Observe, NotObserved
<1>9. CASE PushFailed \/ ClearPrior
  BY <1>9 DEF PushFailed, ClearPrior
<1>10. CASE OpenPullRequest \/ NotOpened
  BY <1>10 DEF OpenPullRequest, NotOpened
<1>11. CASE MoveToReview \/ NotMoved
  BY <1>11 DEF MoveToReview, NotMoved
<1>12. CASE Record \/ NotRecorded \/ Finish \/ ShowResume
  BY <1>12 DEF Record, NotRecorded, Finish, ShowResume
<1>13. CASE Replay \/ ReplayRefused \/ ReplayForgets
  BY <1>13 DEF Replay, ReplayRefused, ReplayForgets, OpenIs
<1>14. CASE Crash \/ LeaseExpires \/ Sweep
  BY <1>14 DEF Crash, LeaseExpires, Sweep
<1>15. CASE ReviewSendsBack \/ ReviewMerges \/ ReviewAsks
  BY <1>15 DEF ReviewSendsBack, ReviewMerges, ReviewAsks
<1>16. CASE Repaired \/ PersonMoves
  BY <1>16 DEF Repaired, PersonMoves
<1>17. CASE PersonPushes \/ PersonDeletes \/ PersonCloses
  BY <1>17 DEF PersonPushes, PersonDeletes, PersonCloses, OpenIs
<1>18. CASE UNCHANGED vars
  BY <1>18
<1> QED
  BY <1>1, <1>2, <1>3, <1>4, <1>5, <1>6, <1>7, <1>8, <1>9, <1>10, <1>11,
    <1>12, <1>13, <1>14, <1>15, <1>16, <1>17, <1>18 DEF Next, Decide, Job,
    RunStep, EffectStep, ReplayStep, Review, Person

\* What the gateway forgot unseen stays noted.
LEMMA BlindStep ==
    [Next]_vars => blind \subseteq blind'
<1> SUFFICES ASSUME [Next]_vars PROVE blind \subseteq blind'
  OBVIOUS
<1> USE DEF Fault, Calm, Edit, Locate, linear, branch, github, intents, job, local,
  history, vars
<1>1. CASE EscalateTodo \/ ResumeTodo \/ ReplayTodo
  BY <1>1 DEF EscalateTodo, ResumeTodo, ReplayTodo
<1>2. CASE RunFresh \/ ResumeProgress \/ EscalateProgress
  BY <1>2 DEF RunFresh, ResumeProgress, EscalateProgress
<1>3. CASE Start \/ Materialize \/ NotMaterialized
  BY <1>3 DEF Start, Materialize, NotMaterialized, NoRow
<1>4. CASE NotReady \/ Ready \/ Claim \/ RunFails
  BY <1>4 DEF NotReady, Ready, Claim, RunFails
<1>5. CASE LoopFails \/ WorkDone \/ WorkPauses \/ Pause
  BY <1>5 DEF LoopFails, WorkDone, WorkPauses, Pause
<1>6. CASE Own \/ NotOwned
  BY <1>6 DEF Own, NotOwned
<1>7. CASE Push
  BY <1>7 DEF Push
<1>8. CASE Observe \/ NotObserved
  BY <1>8 DEF Observe, NotObserved
<1>9. CASE PushFailed \/ ClearPrior
  BY <1>9 DEF PushFailed, ClearPrior, ForgetUnseen
<1>10. CASE OpenPullRequest \/ NotOpened
  BY <1>10 DEF OpenPullRequest, NotOpened
<1>11. CASE MoveToReview \/ NotMoved
  BY <1>11 DEF MoveToReview, NotMoved
<1>12. CASE Record \/ NotRecorded \/ Finish \/ ShowResume
  BY <1>12 DEF Record, NotRecorded, Finish, ShowResume
<1>13. CASE Replay \/ ReplayRefused \/ ReplayForgets
  BY <1>13 DEF Replay, ReplayRefused, ReplayForgets, OpenIs, ForgetUnseen
<1>14. CASE Crash \/ LeaseExpires \/ Sweep
  BY <1>14 DEF Crash, LeaseExpires, Sweep
<1>15. CASE ReviewSendsBack \/ ReviewMerges \/ ReviewAsks
  BY <1>15 DEF ReviewSendsBack, ReviewMerges, ReviewAsks
<1>16. CASE Repaired \/ PersonMoves
  BY <1>16 DEF Repaired, PersonMoves
<1>17. CASE PersonPushes \/ PersonDeletes \/ PersonCloses
  BY <1>17 DEF PersonPushes, PersonDeletes, PersonCloses, OpenIs
<1>18. CASE UNCHANGED vars
  BY <1>18
<1> QED
  BY <1>1, <1>2, <1>3, <1>4, <1>5, <1>6, <1>7, <1>8, <1>9, <1>10, <1>11,
    <1>12, <1>13, <1>14, <1>15, <1>16, <1>17, <1>18 DEF Next, Decide, Job,
    RunStep, EffectStep, ReplayStep, Review, Person

\* Where the head and the working directory can be after a step.
LEMMA PlaceStep ==
    BranchOK /\ JobOK /\ Grown /\ Known /\ [Next]_vars =>
        /\ head' \in {head, 0} \/ (head' = made' /\ made' = made + 1)
        /\ tip' \in {tip, head, 0} \/ (tip' = made' /\ made' = made + 1)
<1> SUFFICES ASSUME BranchOK, JobOK, Grown, Known, [Next]_vars
             PROVE  /\ head' \in {head, 0} \/ (head' = made' /\ made' = made + 1)
                    /\ tip' \in {tip, head, 0} \/ (tip' = made' /\ made' = made + 1)
  OBVIOUS
<1>1. head' \in {head, 0} \/ (head' = made' /\ made' = made + 1)
  BY PastStep
<1>2. tip' \in {tip, head, 0} \/ (tip' = made' /\ made' = made + 1)
  BY PlaceMoves DEF Over, Materialize, Lands, Start, ReplayTodo, ResumeProgress, Launch
<1> QED
  BY <1>1, <1>2

\* What is on record stays there, unless its run's intent is cleared.
LEMMA RecordedStep ==
    ASSUME TypeOK, Owner, Grown, Known, Written, Replays, [Next]_vars,
           UNCHANGED intents \/ Own \/ Observe \/ Replay,
           NEW c \in 1..made, Recorded(c)
    PROVE  Recorded(c)'
<1>1. BranchOK /\ JobOK /\ IntentsOK
  BY Parts
<1>2. made \in Nat /\ \A d \in 1..made : past'[d] = past[d] /\ maker'[d] = maker[d]
  BY <1>1, PastStep
<1>3. PICK r \in Runs : intent[r] # Nothing /\ (r = maker[c] \/ (intent[r] # 0 /\ c \in past[intent[r]]))
  BY DEF Recorded
<1>4. intent[r] # 0 => intent[r] \in 1..made
  BY <1>1, <1>2, <1>3, BoundAssumption DEF IntentsOK, Known, Heads
<1>5. intent'[r] # Nothing /\ (intent[r] # 0 => intent'[r] = intent[r])
  <2>1. Nothing \notin {0, head}
    BY <1>1, NothingAssumption, BoundAssumption DEF BranchOK, Heads
  <2>2. CASE UNCHANGED intents
    BY <1>3, <2>2 DEF intents
  <2>3. CASE Own
    <3>1. intent[run] = Nothing /\ WriteIntent(run, 0)
      BY <2>3 DEF Own, At, Written, Before
    <3> QED
      BY <1>1, <1>3, <3>1 DEF WriteIntent, IntentsOK
  <2>4. CASE Observe
    <3>1. intent[run] = 0 /\ WriteIntent(run, head)
      BY <2>4 DEF Observe, Landed, At, Written, Pushes
    <3> QED
      BY <1>1, <1>3, <2>1, <3>1 DEF WriteIntent, IntentsOK
  <2>5. CASE Replay
    <3>1. intent' = intent \/ (WriteIntent(pend.run, head) /\ intent[pend.run] \in {0, head})
      BY <2>5 DEF Replay, At, Replays, intents
    <3> QED
      BY <1>1, <1>3, <2>1, <3>1 DEF WriteIntent, IntentsOK
  <2> QED
    BY <2>2, <2>3, <2>4, <2>5
<1> QED
  BY <1>2, <1>3, <1>4, <1>5 DEF Recorded

\* What a run has pushed stays on record.
LEMMA KeptStep ==
    TypeOK /\ Owner /\ Grown /\ Known /\ Written /\ Rowed /\ Based /\ Replays /\ Kept /\ [Next]_vars
        => Kept'
<1> SUFFICES ASSUME TypeOK, Owner, Grown, Known, Written, Rowed, Based, Replays, Kept, [Next]_vars,
                    status' # "done", blind' = {}
             PROVE  Covered(head)' /\ Covered(tip)'
  BY DEF Kept
<1>1. BranchOK /\ JobOK /\ IntentsOK
  BY Parts
<1>2. status # "done" /\ blind = {}
  BY DoneStep, BlindStep
<1>3. Covered(head) /\ Covered(tip)
  BY <1>2 DEF Kept
<1>4. made \in Nat /\ head \in 0..made /\ tip \in 0..made
  BY <1>1, PastStep, BoundAssumption DEF BranchOK, JobOK, Known, Heads
<1>5. \A d \in 1..made : past'[d] = past[d] /\ maker'[d] = maker[d]
  BY <1>1, PastStep
<1>6. \A h \in {head, tip} : h # 0 => past'[h] = past[h] /\ past[h] \subseteq 1..made
  BY <1>4, <1>5 DEF Grown
<1>7. CASE (UNCHANGED intents \/ Own \/ Observe \/ Replay) /\ ~(At("push") /\ Lands)
  <2>1. \A c \in 1..made : maker'[c] # 0 /\ Recorded(c) => Recorded(c)'
    BY <1>7, RecordedStep
  <2>2. \A h \in {head, tip} : h # 0 => \A c \in past'[h] : maker'[c] # 0 => Recorded(c)'
    BY <1>3, <1>5, <1>6, <2>1 DEF Covered
  <2>3. made' = made + 1 => \A c \in past'[made'] : maker'[c] # 0 => Recorded(c)'
    <3> SUFFICES ASSUME made' = made + 1, NEW c \in past'[made'], maker'[c] # 0
                 PROVE  Recorded(c)'
      OBVIOUS
    <3>1. PersonPushes
      BY <1>4, <1>7, BranchMoves DEF branch, PersonDeletes
    <3>2. past' = [past EXCEPT ![made'] = {made'}] \/ past' = [past EXCEPT ![made'] = {made'} \cup past[head]]
      BY <3>1 DEF PersonPushes
    <3>3. made' \in Commits /\ made' > made
      BY <1>4, <3>1, BoundAssumption DEF PersonPushes, Commits
    <3>4. maker' = maker /\ maker[made'] = 0 /\ head # 0
      BY <3>1, <3>3 DEF Grown, PersonPushes
    <3>5. c \in past[head]
      BY <1>1, <3>2, <3>3, <3>4 DEF BranchOK
    <3> QED
      BY <1>6, <2>2, <3>4, <3>5
  <2> QED
    BY <1>1, <2>2, <2>3, PlaceStep DEF Covered
<1>8. CASE At("push") /\ Lands
  <2>1. UNCHANGED intents
    BY <1>8, IntentMoves DEF At, Own, Observe, Landed, PushFailed, ClearPrior, Replay, ReplayForgets, Sweep
  <2>2. \A c \in 1..made : Recorded(c) => Recorded(c)'
    BY <2>1, RecordedStep
  <2>3. made' \in Commits /\ made' = made + 1 /\ head' = made' /\ tip' = made'
    BY <1>4, <1>8, BoundAssumption DEF Lands, Commits
  <2>4. past' = [past EXCEPT ![made'] = {made'} \cup (IF tip = 0 THEN {} ELSE past[tip])]
        /\ maker' = [maker EXCEPT ![made'] = run]
    BY <1>8 DEF Lands
  <2>5. maker'[made'] = run /\ \A c \in past'[made'] : c = made' \/ (tip # 0 /\ c \in past[tip])
    BY <1>1, <2>3, <2>4 DEF BranchOK
  <2>6. run \in Runs /\ intent'[run] # Nothing
    BY <1>8, <2>1, NothingAssumption, BoundAssumption DEF At, Owner, Written, Pushes, intents, Heads
  <2>7. ASSUME NEW c \in past'[made'], maker'[c] # 0 PROVE Recorded(c)'
    <3>1. CASE c = made'
      BY <2>5, <2>6, <3>1 DEF Recorded
    <3>2. CASE tip # 0 /\ c \in past[tip]
      BY <1>3, <1>5, <1>6, <2>2, <2>7, <3>2 DEF Covered
    <3> QED
      BY <2>5, <3>1, <3>2
  <2> QED
    BY <2>3, <2>7 DEF Covered
<1>9. CASE PushFailed \/ ReplayForgets
  <2>1. head = 0 /\ head' = 0 /\ tip' = 0
    <3>1. ~(\E r : ForgetUnseen(r))
      BY DEF ForgetUnseen
    <3> QED
      BY <1>9, <3>1, Ending DEF PushFailed, ReplayForgets, Over, github, branch
  <2> QED
    BY <2>1 DEF Covered
<1>10. CASE ClearPrior
  <2>1. run \in Runs /\ intent[run] = tip /\ tip # 0 /\ tip # Nothing
    BY <1>1, <1>10, NothingAssumption DEF ClearPrior, At, Owner, Written, Based, JobOK
  <2>2. intent'[run] = tip
    BY <1>1, <1>10, <2>1 DEF ClearPrior, ClearIntent, IntentsOK, Written, At, Before, Pushes, intents
  <2>3. head' = head /\ past' = past /\ maker' = maker /\ tip' = tip
    BY <1>10 DEF ClearPrior, Goto, github, branch
  <2>4. \A c \in past[tip] : Recorded(c)'
    BY <2>1, <2>2, <2>3 DEF Recorded
  <2>5. head # 0 => \A c \in past[head] : maker[c] # 0 => c \in past[tip]
    BY <1>10 DEF ClearPrior, At, Based
  <2> QED
    BY <2>3, <2>4, <2>5 DEF Covered
<1> QED
  BY <1>2, <1>7, <1>8, <1>9, <1>10, IntentMoves DEF Sweep

\* Nothing changes under a replay.
LEMMA ReplaysStep ==
    JobOK /\ IntentsOK /\ Owner /\ Replays /\ [Next]_vars => Replays'
<1> SUFFICES ASSUME JobOK, IntentsOK, Owner, Replays, [Next]_vars PROVE Replays'
  OBVIOUS
<1> USE DEF Replays, Defect, Latest, Seen, NoRun, Resumable, Over, Goto, At, linear,
  branch, github, intents, job, local, history, vars
<1>1. CASE EscalateTodo \/ ResumeTodo \/ ReplayTodo
  <2>1. CASE EscalateTodo \/ ResumeTodo
    BY <2>1 DEF EscalateTodo, ResumeTodo, Launch
  <2>2. CASE ReplayTodo
  <3>1. PICK r \in Runs : pend' = [run |-> r, head |-> intent[r]]
    BY <2>2 DEF ReplayTodo, Launch
  <3>2. NoRun \/ Defect
    BY <2>2 DEF ReplayTodo, FixOfTodo
  <3> QED
    BY <2>2, <3>1, <3>2 DEF ReplayTodo
  <2> QED
    BY <1>1, <2>1, <2>2
<1>2. CASE RunFresh \/ ResumeProgress \/ EscalateProgress
  BY <1>2 DEF RunFresh, ResumeProgress, EscalateProgress, Launch
<1>3. CASE Start \/ Materialize \/ NotMaterialized
  BY <1>3, Ending DEF Start, Materialize, NotMaterialized, NoRow
<1>4. CASE NotReady \/ Ready \/ Claim \/ RunFails
  BY <1>4, Exits DEF NotReady, Ready, Claim, RunFails
<1>5. CASE LoopFails \/ WorkDone \/ WorkPauses \/ Pause
  BY <1>5, Exits DEF LoopFails, WorkDone, WorkPauses, Pause
<1>6. CASE Own \/ NotOwned
  BY <1>6, Ending DEF Own, NotOwned
<1>7. CASE Push
  BY <1>7 DEF Push, Lands
<1>8. CASE Observe \/ NotObserved
  BY <1>8, Ending DEF Observe, NotObserved, Landed
<1>9. CASE PushFailed \/ ClearPrior
  BY <1>9, Ending DEF PushFailed, ClearPrior
<1>10. CASE OpenPullRequest \/ NotOpened
  BY <1>10, Ending DEF OpenPullRequest, NotOpened
<1>11. CASE MoveToReview \/ NotMoved
  BY <1>11, Ending DEF MoveToReview, NotMoved
<1>12. CASE Record \/ NotRecorded \/ Finish \/ ShowResume
  BY <1>12, Exits DEF Record, NotRecorded, Finish, ShowResume
<1>13. CASE Replay \/ ReplayRefused \/ ReplayForgets
  BY <1>13 DEF Replay, ReplayRefused, ReplayForgets, OpenIs, Owner
<1>14. CASE Crash \/ LeaseExpires \/ Sweep
  BY <1>14 DEF Crash, LeaseExpires, Sweep
<1>15. CASE ReviewSendsBack \/ ReviewMerges \/ ReviewAsks
  BY <1>15 DEF ReviewSendsBack, ReviewMerges, ReviewAsks
<1>16. CASE Repaired \/ PersonMoves
  BY <1>16 DEF Repaired, PersonMoves
<1>17. CASE PersonPushes \/ PersonDeletes \/ PersonCloses
  BY <1>17 DEF PersonPushes, PersonDeletes, PersonCloses, OpenIs
<1>18. CASE UNCHANGED vars
  BY <1>18
<1> QED
  BY <1>1, <1>2, <1>3, <1>4, <1>5, <1>6, <1>7, <1>8, <1>9, <1>10, <1>11,
    <1>12, <1>13, <1>14, <1>15, <1>16, <1>17, <1>18 DEF Next, Decide, Job,
    RunStep, EffectStep, ReplayStep, Review, Person

\* No run starts for an issue whose latest run cannot be resumed, but a fresh one
\* when there is no intent.
LEMMA LockedStep ==
    Owner /\ Progress /\ Rowed /\ Locked /\ ~NoIntent /\ [Next]_vars => Locked'
<1> SUFFICES ASSUME Owner, Progress, Rowed, Locked, ~NoIntent, [Next]_vars PROVE Locked'
  OBVIOUS
<1> USE DEF Locked, Defect, Latest, Seen, Resumable, Over, Goto, At, Escalate,
  linear, branch, github, intents, job, local, history, vars
<1>1. CASE EscalateTodo \/ ResumeTodo \/ ReplayTodo
  <2>1. CASE EscalateTodo \/ ReplayTodo
    BY <2>1 DEF EscalateTodo, ReplayTodo, Launch
  <2>2. CASE ResumeTodo
  <3>1. FixOfTodo("found") # "resume"
    BY DEF FixOfTodo
  <3> QED
    BY <2>2, <3>1 DEF ResumeTodo
  <2> QED
    BY <1>1, <2>1, <2>2
<1>2. CASE RunFresh \/ ResumeProgress \/ EscalateProgress
  BY <1>2 DEF RunFresh, ResumeProgress, EscalateProgress, Launch
<1>3. CASE Start \/ Materialize \/ NotMaterialized
  BY <1>3 DEF Start, Materialize, NotMaterialized, NoRow, Owner
<1>4. CASE NotReady \/ Ready \/ Claim \/ RunFails
  BY <1>4 DEF NotReady, Ready, Claim, RunFails, Owner
<1>5. CASE LoopFails \/ WorkDone \/ WorkPauses \/ Pause
  BY <1>5 DEF LoopFails, WorkDone, WorkPauses, Pause, Owner
<1>6. CASE Own \/ NotOwned
  BY <1>6 DEF Own, NotOwned, Owner
<1>7. CASE Push
  BY <1>7 DEF Push, Owner
<1>8. CASE Observe \/ NotObserved
  BY <1>8 DEF Observe, NotObserved, Landed, Owner
<1>9. CASE PushFailed \/ ClearPrior
  BY <1>9 DEF PushFailed, ClearPrior, Owner
<1>10. CASE OpenPullRequest \/ NotOpened
  BY <1>10 DEF OpenPullRequest, NotOpened, Pend, End, Owner
<1>11. CASE MoveToReview \/ NotMoved
  BY <1>11 DEF MoveToReview, NotMoved, Pend, Refuse, End, Owner
<1>12. CASE Record \/ NotRecorded \/ Finish \/ ShowResume
  BY <1>12 DEF Record, NotRecorded, Finish, ShowResume, Owner
<1>13. CASE Replay \/ ReplayRefused \/ ReplayForgets
  BY <1>13 DEF Replay, ReplayRefused, ReplayForgets, OpenIs, Owner
<1>14. CASE Crash \/ LeaseExpires \/ Sweep
  BY <1>14 DEF Crash, LeaseExpires, Sweep
<1>15. CASE ReviewSendsBack \/ ReviewMerges \/ ReviewAsks
  BY <1>15 DEF ReviewSendsBack, ReviewMerges, ReviewAsks
<1>16. CASE Repaired \/ PersonMoves
  BY <1>16 DEF Repaired, PersonMoves
<1>17. CASE PersonPushes \/ PersonDeletes \/ PersonCloses
  BY <1>17 DEF PersonPushes, PersonDeletes, PersonCloses, OpenIs
<1>18. CASE UNCHANGED vars
  BY <1>18
<1> QED
  BY <1>1, <1>2, <1>3, <1>4, <1>5, <1>6, <1>7, <1>8, <1>9, <1>10, <1>11,
    <1>12, <1>13, <1>14, <1>15, <1>16, <1>17, <1>18 DEF Next, Decide, Job,
    RunStep, EffectStep, ReplayStep, Review, Person

\* What a job of a run can build on.
LEMMA BuildMoves ==
    [Next]_vars =>
        pc' = "idle" \/ kind' = "replay" \/ pend' = Nothing \/ Start \/ ResumeProgress
        \/ (pc # "idle" /\ kind # "replay" /\ pend' = pend)
<1> SUFFICES ASSUME [Next]_vars PROVE pc' = "idle" \/ kind' = "replay" \/ pend' = Nothing \/
  Start \/ ResumeProgress \/ (pc # "idle" /\ kind # "replay" /\ pend' = pend)
  OBVIOUS
<1> USE DEF Over, Goto, At, linear, branch, github, intents, job, local, history,
  vars
<1>1. CASE EscalateTodo \/ ResumeTodo \/ ReplayTodo
  BY <1>1 DEF EscalateTodo, ResumeTodo, ReplayTodo, Launch
<1>2. CASE RunFresh \/ ResumeProgress \/ EscalateProgress
  BY <1>2 DEF RunFresh, ResumeProgress, EscalateProgress, Launch
<1>3. CASE Start \/ Materialize \/ NotMaterialized
  BY <1>3, Ending DEF Start, Materialize, NotMaterialized, NoRow
<1>4. CASE NotReady \/ Ready \/ Claim \/ RunFails
  BY <1>4, Exits DEF NotReady, Ready, Claim, RunFails
<1>5. CASE LoopFails \/ WorkDone \/ WorkPauses \/ Pause
  BY <1>5, Exits DEF LoopFails, WorkDone, WorkPauses, Pause
<1>6. CASE Own \/ NotOwned
  BY <1>6, Ending DEF Own, NotOwned
<1>7. CASE Push
  BY <1>7 DEF Push, Lands
<1>8. CASE Observe \/ NotObserved
  BY <1>8, Ending DEF Observe, NotObserved, Landed
<1>9. CASE PushFailed \/ ClearPrior
  BY <1>9, Ending DEF PushFailed, ClearPrior
<1>10. CASE OpenPullRequest \/ NotOpened
  BY <1>10, Ending DEF OpenPullRequest, NotOpened
<1>11. CASE MoveToReview \/ NotMoved
  BY <1>11, Ending DEF MoveToReview, NotMoved
<1>12. CASE Record \/ NotRecorded \/ Finish \/ ShowResume
  BY <1>12, Exits DEF Record, NotRecorded, Finish, ShowResume
<1>13. CASE Replay \/ ReplayRefused \/ ReplayForgets
  BY <1>13 DEF Replay, ReplayRefused, ReplayForgets, OpenIs, Owner
<1>14. CASE Crash \/ LeaseExpires \/ Sweep
  BY <1>14 DEF Crash, LeaseExpires, Sweep
<1>15. CASE ReviewSendsBack \/ ReviewMerges \/ ReviewAsks
  BY <1>15 DEF ReviewSendsBack, ReviewMerges, ReviewAsks
<1>16. CASE Repaired \/ PersonMoves
  BY <1>16 DEF Repaired, PersonMoves
<1>17. CASE PersonPushes \/ PersonDeletes \/ PersonCloses
  BY <1>17 DEF PersonPushes, PersonDeletes, PersonCloses, OpenIs
<1>18. CASE UNCHANGED vars
  BY <1>18
<1> QED
  BY <1>1, <1>2, <1>3, <1>4, <1>5, <1>6, <1>7, <1>8, <1>9, <1>10, <1>11,
    <1>12, <1>13, <1>14, <1>15, <1>16, <1>17, <1>18 DEF Next, Decide, Job,
    RunStep, EffectStep, ReplayStep, Review, Person

\* What is ours stays ours.
LEMMA OursStep ==
    ASSUME BranchOK, JobOK, Grown, Known, [Next]_vars, NEW h \in 1..made, Ours(h)
    PROVE  Ours(h)'
<1>1. past'[h] = past[h] /\ \A c \in past[h] : c \in 1..made /\ maker'[c] = maker[c]
  <2>1. made \in Nat /\ past[h] \subseteq 1..h
    BY PastStep DEF Grown
  <2>2. \A c \in past[h] : c \in 1..made
    BY <2>1
  <2> QED
    BY <2>2, PastStep
<1> QED
  BY <1>1, RedStep DEF Ours

\* What the intents have seen stays accounted for.
LEMMA HeldStep ==
    TypeOK /\ Owner /\ Progress /\ Grown /\ Known /\ Written /\ Rowed /\ Based /\ Replays /\ Held /\ [Next]_vars
        => Held'
<1> SUFFICES ASSUME TypeOK, Owner, Progress, Grown, Known, Written, Rowed, Based, Replays, Held, [Next]_vars,
                    NEW r \in Runs, intent'[r] \in Commits, ~Locked'
             PROVE  \E h \in 1..made : h = intent'[r] /\ Ours(h)'
  BY DEF Held, Ours
<1>1. BranchOK /\ JobOK /\ IntentsOK
  BY Parts
<1>2. made \in Nat /\ head \in 0..made /\ tip \in 0..made /\ Nothing \notin Commits /\ Nothing # 0 /\ 0 \notin Commits
  BY <1>1, PastStep, NothingAssumption, BoundAssumption DEF BranchOK, JobOK, Known, Heads, Commits
<1>3. CASE intent'[r] = intent[r]
  <2>1. intent[r] \in 1..made /\ ~NoIntent
    BY <1>2, <1>3, BoundAssumption DEF Known, NoIntent, Commits
  <2>2. Ours(intent[r])
    BY <1>3, <2>1, LockedStep DEF Held
  <2> QED
    BY <1>1, <1>3, <2>1, <2>2, OursStep
<1>4. CASE Observe /\ intent'[r] # intent[r]
  <2>1. r = run /\ intent'[r] = head
    BY <1>1, <1>4 DEF Observe, WriteIntent, IntentsOK
  <2>2. head = tip /\ head # 0 /\ maker[head] = run /\ run # 0
    BY <1>4 DEF Observe, Landed, At, Based, Owner, Runs
  <2>3. Ours(head) /\ head \in 1..made
    BY <1>2, <2>2 DEF Ours, Grown
  <2> QED
    BY <1>1, <2>1, <2>3, OursStep
<1>5. CASE Replay /\ intent'[r] # intent[r]
  <2>1. r = pend.run /\ intent[r] = 0
    BY <1>1, <1>5 DEF Replay, At, Replays, WriteIntent, IntentsOK, intents
  <2>2. Locked /\ ~NoIntent
    BY <1>2, <1>5, <2>1 DEF Replay, At, Owner, Replays, Locked, NoRun, NoIntent, Rowed, UnseenHasRow
  <2> QED
    BY <2>2, LockedStep
<1>6. CASE Own \/ PushFailed \/ ClearPrior \/ ReplayForgets \/ Sweep
  <2>1. \A q : ClearIntent(q) => intent'[r] \in {intent[r], Nothing}
    BY <1>1 DEF ClearIntent, IntentsOK
  <2>2. WriteIntent(run, 0) => intent'[r] \in {intent[r], 0}
    BY <1>1 DEF WriteIntent, IntentsOK
  <2>3. intent'[r] \in {intent[r], 0, Nothing}
    BY <1>6, <2>1, <2>2 DEF Own, PushFailed, ForgetUnseen, ClearPrior, ReplayForgets, Sweep, intents
  <2> QED
    BY <1>2, <1>3, <2>3
<1> QED
  BY <1>3, <1>4, <1>5, <1>6, IntentMoves DEF intents

\* A run only ever builds on what is accounted for.
LEMMA BuildsStep ==
    TypeOK /\ Owner /\ Grown /\ Known /\ Held /\ Builds /\ [Next]_vars => Builds'
<1> SUFFICES ASSUME TypeOK, Owner, Grown, Known, Held, Builds, [Next]_vars,
                    pc' # "idle", kind' # "replay", pend' # Nothing, pend'.head # 0
             PROVE  \E h \in 1..made : h = pend'.head /\ Ours(h)'
  BY DEF Builds, Resumes, Ours
<1>1. BranchOK /\ JobOK /\ IntentsOK
  BY Parts
<1>2. made \in Nat /\ head \in 0..made /\ Nothing # 0
  BY <1>1, PastStep, NothingAssumption, BoundAssumption DEF BranchOK, Heads
<1> SUFFICES \E h \in 1..made : h = pend'.head /\ Ours(h)
  BY <1>1, OursStep
<1>3. CASE pc # "idle" /\ kind # "replay" /\ pend' = pend
  <2>1. pend.head \in 1..made
    BY <1>1, <1>2, <1>3, BoundAssumption DEF JobOK, Pendings, Heads, Known
  <2> QED
    BY <1>3, <2>1 DEF Builds, Resumes
<1>4. CASE Start /\ pend' # pend
  <2>1. PICK q \in Runs : Oldest(q) /\ pend' = [run |-> q, head |-> intent[q]]
    BY <1>4 DEF Start
  <2>2. intent[q] \in Commits /\ intent[q] \in 1..made /\ intent[q] = pend'.head
    BY <1>1, <1>2, <2>1, BoundAssumption DEF Oldest, IntentsOK, Heads, Commits, Known
  <2>3. ~Locked
    BY <1>4 DEF Start, At, Locked
  <2> QED
    BY <2>2, <2>3 DEF Held
<1>5. CASE Start /\ pend' = pend
  BY <1>3, <1>5 DEF Start, At
<1>6. CASE ResumeProgress
  <2>1. FixOfProgress("found") = "resume" /\ pend'.head = head
    BY <1>6 DEF ResumeProgress, Launch
  <2>2. head \in red
    BY <2>1 DEF FixOfProgress
  <2> QED
    BY <1>2, <2>1, <2>2 DEF Ours, Grown
<1> QED
  BY <1>3, <1>4, <1>5, <1>6, BuildMoves

-----------------------------------------------------------------------------
\* The initial states.
LEMMA Initially == Init => IInv
<1> SUFFICES ASSUME Init PROVE IInv
  OBVIOUS
<1>1. LinearOK /\ CountersOK /\ RunsOK
  <2>1. NoRow \in Rows
    BY DEF NoRow, Rows
  <2>2. LinearOK /\ RunsOK
    BY <2>1 DEF Init, LinearOK, RunsOK, Statuses
  <2> QED
    BY <2>2, BoundAssumption DEF Init, CountersOK
<1>2. BranchOK /\ PullsOK
  <2>1. /\ head \in {0, 1} /\ made = head /\ red \in {{}, {1}}
        /\ prs = <<>> \/ prs = <<"open">>
    BY DEF Init
  <2>2. BranchOK
    <3>1. head \in Heads /\ made \in Heads /\ head <= made
      BY <2>1, BoundAssumption DEF Heads
    <3>2. past \in [Commits -> SUBSET Commits]
      BY DEF Init
    <3>3. maker \in [Commits -> 0..MaxRuns]
      <4>1. 0 \in 0..MaxRuns
        BY BoundAssumption
      <4>2. maker = [c \in Commits |-> 0]
        BY DEF Init
      <4> QED
        BY <4>1, <4>2
    <3> QED
      BY <3>1, <3>2, <3>3 DEF BranchOK
  <2>3. prs \in Seq({"open", "closed", "merged"})
    <3>1. <<>> \in Seq({"open", "closed", "merged"})
      OBVIOUS
    <3>2. Append(<<>>, "open") \in Seq({"open", "closed", "merged"}) /\ Append(<<>>, "open") = <<"open">>
      OBVIOUS
    <3>3. prs = <<>> \/ prs = <<"open">>
      BY <2>1
    <3> QED
      BY ONLY <3>1, <3>2, <3>3
  <2>4. red \subseteq Commits
    BY <2>1, BoundAssumption DEF Commits
  <2> QED
    BY <2>2, <2>3, <2>4 DEF PullsOK
<1>3. IntentsOK /\ JobOK
  BY BoundAssumption DEF Init, Idle, IntentsOK, JobOK, Points, Heads, Statuses
<1>4. TypeOK
  BY <1>1, <1>2, <1>3, Parts
<1>5. Headed
  BY DEF Init, Headed, OpenIs
<1>6. Owner /\ Progress /\ CompletedIsPushed
  BY DEF Init, Idle, Owner, Progress, CompletedIsPushed, NoRow
<1>7. Grown /\ Known
  <2>1. made \in {0, 1} /\ head = made /\ tip = 0 /\ pend = Nothing /\ \A r \in Runs : intent[r] = Nothing
    BY DEF Init, Idle
  <2>2. \A c \in Commits : past[c] = {c} /\ maker[c] = 0
    BY DEF Init
  <2>3. 1..made \subseteq Commits /\ \A c \in 1..made : c = 1
    BY <2>1, BoundAssumption DEF Commits
  <2> QED
    BY <2>1, <2>2, <2>3 DEF Grown, Known
<1>8. Written /\ Rowed /\ Based /\ Replays /\ Builds
  BY NothingAssumption, BoundAssumption DEF Init, Idle, Written, Before, Pushes, Rowed, RunInFlight,
     UnseenHasRow, Based, Replays, Builds, Heads
<1>9. Kept /\ Held
  <2>1. \A c \in Commits : past[c] = {c} /\ maker[c] = 0
    BY DEF Init
  <2>2. tip = 0 /\ (head = 0 \/ head \in Commits) /\ \A r \in Runs : intent[r] \notin Commits
    BY NothingAssumption, BoundAssumption DEF Init, Idle, Heads, Commits
  <2> QED
    BY <2>1, <2>2 DEF Kept, Covered, Held
<1> QED
  BY <1>4, <1>5, <1>6, <1>7, <1>8, <1>9 DEF IInv

\* The inductive step.
LEMMA Inductive == IInv /\ [Next]_vars => IInv'
<1> SUFFICES ASSUME IInv, [Next]_vars PROVE IInv'
  OBVIOUS
<1>1. LinearOK /\ BranchOK /\ PullsOK /\ RunsOK /\ IntentsOK /\ JobOK /\ CountersOK
  BY Parts DEF IInv
<1>2. LinearOK' /\ BranchOK' /\ PullsOK' /\ RunsOK'
  BY <1>1, LinearTyping, BranchTyping, PullsTyping, RunsTyping DEF IInv
<1>3. IntentsOK' /\ JobOK' /\ CountersOK'
  BY <1>1, IntentsTyping, JobTyping, CountersTyping DEF IInv
<1>4. TypeOK'
  BY <1>2, <1>3 DEF TypeOK, LinearOK, BranchOK, PullsOK, RunsOK, IntentsOK, JobOK, CountersOK
<1>5. Owner' /\ Headed'
  BY <1>1, OwnerStep, HeadedStep DEF IInv
<1>6. Progress' /\ CompletedIsPushed'
  BY ProgressStep, CompletedStep DEF IInv
<1>7. Grown' /\ Known'
  BY <1>1, GrownStep, KnownStep DEF IInv
<1>8. Written' /\ Based' /\ Replays'
  BY <1>1, WrittenStep, BasedStep, ReplaysStep DEF IInv
<1>9. Rowed'
  BY <1>1, DoneStep, RunningStep, SeenStep DEF IInv, Rowed
<1>10. Kept' /\ Held' /\ Builds'
  BY KeptStep, HeldStep, BuildsStep DEF IInv
<1> QED
  BY <1>4, <1>5, <1>6, <1>7, <1>8, <1>9, <1>10 DEF IInv

LEMMA Invariant == Spec => []IInv
<1>1. IInv /\ UNCHANGED vars => IInv'
  BY Inductive
<1> QED
  BY Initially, Inductive, PTL DEF Spec

\* Every variable keeps its type: in particular no branch has more commits,
\* and no issue more runs, than there is room for.
THEOREM TypeCorrect == Spec => []TypeOK
<1>1. IInv => TypeOK
  BY DEF IInv
<1> QED
  BY <1>1, Invariant, PTL

\* A run that is recorded as completed has pushed a commit and has its pull
\* request on record, after any crash, lost answer, replay or act of a person.
THEOREM CompletedPushed == Spec => []CompletedIsPushed
<1>1. IInv => CompletedIsPushed
  BY DEF IInv
<1> QED
  BY <1>1, Invariant, PTL

\* What is on the branch stays, unless a person takes it away.
LEMMA BranchStep ==
    TypeOK /\ [Next]_vars =>
        (head' # head /\ edits' = edits => head' # 0 /\ (head = 0 \/ head \in past'[head']))
<1> SUFFICES ASSUME TypeOK, [Next]_vars, head' # head, edits' = edits
             PROVE  head' # 0 /\ (head = 0 \/ head \in past'[head'])
  OBVIOUS
<1>1. BranchOK /\ JobOK /\ CountersOK
  BY Parts
<1>2. Lands
  <2>1. ~PersonPushes /\ ~PersonDeletes
    BY <1>1 DEF PersonPushes, PersonDeletes, Edit, CountersOK
  <2> QED
    BY <2>1, BranchMoves DEF branch
<1>3. made' \in Commits /\ head' = made' /\ made' # 0
  BY <1>1, <1>2, BoundAssumption DEF Lands, BranchOK, Commits, Heads
<1>4. past'[made'] = {made'} \cup (IF tip = 0 THEN {} ELSE past[tip])
  BY <1>1, <1>2, <1>3 DEF Lands, BranchOK
<1>5. head = 0 \/ (tip # 0 /\ head \in past[tip])
  BY <1>2 DEF Lands, FastForward, Contains
<1> QED
  BY <1>3, <1>4, <1>5

\* No push of the factory takes a commit off the branch.
THEOREM BranchKept == Spec => BranchIsKept
<1>1. IInv /\ [Next]_vars =>
        [head' # head /\ edits' = edits => head' # 0 /\ (head = 0 \/ head \in past'[head'])]_vars
  BY BranchStep DEF IInv
<1> QED
  BY <1>1, Invariant, PTL DEF Spec, BranchIsKept

\* What a push of the factory lands on is the head that its working directory
\* was made of.
LEMMA OwnStep ==
    IInv /\ [Next]_vars =>
        (head' # head /\ edits' = edits /\ head # 0 => \E c \in past[head] : maker[c] # 0 \/ c \in red)
<1> SUFFICES ASSUME IInv, [Next]_vars, head' # head, edits' = edits, head # 0 PROVE Ours(head)
  BY DEF Ours
<1>1. BranchOK /\ JobOK /\ CountersOK
  BY Parts DEF IInv
<1>2. At("push") /\ Lands
  <2>1. ~PersonPushes /\ ~PersonDeletes
    BY <1>1 DEF PersonPushes, PersonDeletes, Edit, CountersOK
  <2> QED
    BY <2>1, BranchMoves DEF branch
<1>3. tip # 0 /\ head \in past[tip]
  BY <1>2 DEF Lands, FastForward, Contains
<1>4. tip \in 1..made /\ made \in Nat /\ past[tip] \subseteq 1..tip
  BY <1>1, <1>3, BoundAssumption DEF IInv, BranchOK, JobOK, Heads, Known, Grown
<1>5. pc = "push" /\ Resumes /\ pend.head \in past[tip] /\ (head = tip \/ head > tip)
  BY <1>2, <1>3 DEF At, IInv, Based
<1>6. head = tip
  BY <1>3, <1>4, <1>5
<1>7. Ours(pend.head)
  BY <1>2, <1>5 DEF At, IInv, Owner, Builds
<1>8. past[pend.head] \subseteq past[tip]
  BY <1>4, <1>5 DEF IInv, Grown
<1> QED
  BY <1>6, <1>7, <1>8 DEF Ours

\* "The factory never builds on states it cannot account for": whatever people
\* push or delete while it works, and whichever intent a crash has left, a run
\* pushes onto an empty branch, or onto one with a commit of a run or a head
\* whose review failed.
THEOREM BuildsOnOwn == Spec => BuildsOnItsOwn
<1>1. IInv /\ [Next]_vars =>
        [head' # head /\ edits' = edits /\ head # 0 =>
            \E c \in past[head] : maker[c] # 0 \/ c \in red]_vars
  BY OwnStep
<1> QED
  BY <1>1, Invariant, PTL DEF Spec, BuildsOnItsOwn

\* Until the issue is done, every commit of a run on the branch is on record in
\* an intent: a crash at any point, a lost answer of the push and a replay leave
\* it so, and only a failed read of the branch does not.
THEOREM PushesRecorded == Spec => []PushedIsRecorded
<1>1. IInv => PushedIsRecorded
  BY DEF IInv, Kept, Covered, PushedIsRecorded
<1> QED
  BY <1>1, Invariant, PTL

=============================================================================
