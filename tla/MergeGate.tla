------------------------------ MODULE MergeGate ------------------------------
(***************************************************************************)
(* The merge gate of one issue: the poll that reads the issue in Linear,   *)
(* its pull request and the af-review status in GitHub, decides, and then  *)
(* parks the issue for a person, takes it back, or merges the pull request.*)
(*                                                                         *)
(* A snapshot takes three reads, people act between any two of them, and   *)
(* the gate shares the issue with the review job of the same gateway       *)
(* through the in-flight set.  The park record and the merge run are       *)
(* durable; everything else dies with the gateway.                         *)
(***************************************************************************)
EXTENDS Naturals

CONSTANTS
    MaxHeads,     \* bound: head commits the pull request gets
    HumanRoles,   \* the statuses people and other workflows move the issue to
    MaxMoves,     \* bound: moves, label changes, closings and merges by people
    MaxFaults,    \* bound: failed or unanswered requests
    MaxCrashes    \* bound: crashes of the gateway

Roles == {"backlog", "todo", "in_progress", "in_review", "human_review",
          "needs_principal", "done"}
SendBackRoles == {"todo", "in_progress", "needs_principal"}

ASSUME HeadsAssumption == MaxHeads \in Nat \ {0}
ASSUME RolesAssumption == HumanRoles \subseteq Roles
ASSUME BoundsAssumption == MaxMoves \in Nat /\ MaxFaults \in Nat /\ MaxCrashes \in Nat

Heads == 1..MaxHeads
None == 0

VARIABLES
    status,     \* status role of the issue
    label,      \* does it carry the human-review label
    pr,         \* state of the pull request
    head,       \* its head commit; later heads have larger numbers
    checks,     \* the af-review status of each commit
    record,     \* head in the park record, or None
    outcome,    \* merge outcome recorded for each head, the latest one
    wake,       \* status of the latest merge wake
    inFlight,   \* who holds the issue's key: "none", "gate" or "review"
    pc,
    seen,       \* the snapshot that is being read or was read last
    first,      \* the snapshot the dispatch was decided on
    goal,       \* where a guarded move takes the issue
    result,     \* status of the effects of a merge, so far
    conflict,   \* the merge was refused as not mergeable
    stage,      \* where the review job is, or "none"
    reviewing,  \* head it works on; None when it found no open pull request
    accepted,   \* history: heads a person accepted, see Accept
    byGate,     \* history: the gate merged the pull request
    moves, faults, crashes

linear == <<status, label>>
github == <<pr, head, checks>>
store == <<record, outcome, wake>>
dispatch == <<first, goal, result, conflict>>
history == <<accepted, byGate>>
bounds == <<moves, faults, crashes>>
job == <<stage, reviewing>>
vars == <<linear, github, store, inFlight, pc, seen, dispatch, job, history, bounds>>

CheckStates == {"absent", "green", "red"}
PrStates == {"open", "merged", "closed"}
Results == {"completed", "paused", "rejected"}

\* listed: the poll of the In Review list asks for it.
Snapshots == [listed : BOOLEAN, role : Roles, label : BOOLEAN, record : Heads \cup {None},
              head : Heads, pr : PrStates, check : CheckStates]

\* A snapshot nothing has been read into.
Unread == [listed |-> FALSE, role |-> "backlog", label |-> FALSE, record |-> None,
           head |-> 1, pr |-> "open", check |-> "absent"]

Points == {"idle", "issue", "pr", "checks", "review", "decide", "forget", "park", "guard", "write", "claim",
           "final", "merge", "refused", "verify", "outcome", "shed", "settle"}

LinearOK == status \in Roles /\ label \in BOOLEAN
GithubOK == pr \in PrStates /\ head \in Heads /\ checks \in [Heads -> CheckStates]
StoreOK ==
    /\ record \in Heads \cup {None}
    /\ outcome \in [Heads -> {"none", "merged", "failed"}]
    /\ wake \in {"none", "running"} \cup Results
ScanOK == pc \in Points /\ seen \in Snapshots /\ inFlight \in {"none", "gate", "review"}
DispatchOK ==
    /\ first \in Snapshots /\ goal \in Roles \cup {"none"}
    /\ result \in Results \cup {"none"} /\ conflict \in BOOLEAN
JobOK ==
    /\ stage \in {"none", "thinking", "posting", "moving"}
    /\ reviewing \in Heads \cup {None}
HistoryOK == accepted \subseteq Heads /\ byGate \in BOOLEAN
BoundsOK == moves \in 0..MaxMoves /\ faults \in 0..MaxFaults /\ crashes \in 0..MaxCrashes

TypeOK == LinearOK /\ GithubOK /\ StoreOK /\ ScanOK /\ DispatchOK /\ JobOK /\ HistoryOK /\ BoundsOK

\* An issue that has just come into review; people label issues beforehand.
Init ==
    /\ status = "in_review" /\ label \in BOOLEAN
    /\ pr = "open" /\ head = 1 /\ checks = [h \in Heads |-> "absent"]
    /\ record = None /\ outcome = [h \in Heads |-> "none"] /\ wake = "none"
    /\ inFlight = "none" /\ pc = "idle" /\ seen = Unread /\ first = Unread
    /\ goal = "none" /\ result = "none" /\ conflict = FALSE
    /\ stage = "none" /\ reviewing = None
    /\ accepted = {h \in {1} : ~label} /\ byGate = FALSE
    /\ moves = 0 /\ faults = 0 /\ crashes = 0

-----------------------------------------------------------------------------
(***************************************************************************)
(* decideMergeGateAction, one operator per action.  Whatever is in none of *)
(* them is surfaced or left alone.  The check is that of the current head. *)
(***************************************************************************)

Green(s) == s.check = "green"
Parked(s) == s.record # None
AtParkedHead(s) == s.record = s.head

\* A record of a pull request that was closed without merging.
Dead(s) == Parked(s) /\ s.pr = "closed"

Merges(s) ==
    \/ s.role = "in_review" /\ ~Dead(s) /\ Green(s) /\ ~s.label
    \/ s.role = "human_review" /\ ~Dead(s) /\ AtParkedHead(s) /\ Green(s) /\ ~s.label
    \/ s.role = "done" /\ s.pr = "open" /\ AtParkedHead(s) /\ Green(s)

Parks(s) == s.role = "in_review" /\ ~Dead(s) /\ Green(s) /\ s.label

Invalidates(s) ==
    /\ s.role = "human_review" /\ Parked(s)
    /\ Dead(s) \/ ~AtParkedHead(s) \/ s.check = "absent"

BouncesToTodo(s) == s.role = "done" /\ Dead(s)

BouncesToReview(s) ==
    /\ s.role = "done" /\ Parked(s) /\ s.pr = "open"
    /\ ~AtParkedHead(s) \/ s.check = "absent"

\* Fault: the record of a landed head is left where it is.
ForgetsDeadOnly(s) == s.role \in {"in_review"} \cup SendBackRoles /\ Dead(s)

\* deleteParkRecord.
Forgets(s) ==
    \/ s.role \in {"in_review"} \cup SendBackRoles /\ Dead(s)
    \/ s.role = "done" /\ Parked(s) /\ s.pr = "merged" /\ (AtParkedHead(s) \/ ~s.label)

\* The rows that answer "none" and keep the record: the review loop stays in
\* control, a person is waited for, or the issue is being sent back.
Leaves(s) ==
    \/ s.role = "in_review" /\ ~Dead(s) /\ ~Green(s)
    \/ s.role = "human_review" /\ ~Dead(s) /\ AtParkedHead(s) /\ Green(s) /\ s.label
    \/ s.role \in SendBackRoles /\ Parked(s) /\ ~Dead(s)

Acts(s) == Merges(s) \/ Parks(s) \/ Invalidates(s) \/ BouncesToTodo(s)
               \/ BouncesToReview(s) \/ Forgets(s)

\* Where a move decided on s takes the issue.
Target(s) == CASE Parks(s) -> "human_review"
               [] BouncesToTodo(s) -> "todo"
               [] OTHER -> "in_review"

\* A merge the person has not closed by moving the issue to Done is paired
\* with the Done move.
PairsDone(s) == s.role = "in_review" \/ (s.role = "human_review" /\ ~s.label)

-----------------------------------------------------------------------------
(***************************************************************************)
(* The poll: list, read the snapshot in three requests, decide.  A scan    *)
(* does not hold the key of the issue; a dispatch does.                    *)
(***************************************************************************)

Fault == faults < MaxFaults /\ faults' = faults + 1

Rest ==
    /\ pc' = "idle" /\ seen' = Unread /\ first' = Unread
    /\ goal' = "none" /\ result' = "none" /\ conflict' = FALSE

Release == Rest /\ inFlight' = "none"

\* Fault: the park records are not polled.
ListStatuses ==
    /\ pc = "idle" /\ status \in {"in_review", "human_review"}
    /\ seen' = [seen EXCEPT !.listed = (status = "in_review")]
    /\ pc' = "issue"
    /\ UNCHANGED <<linear, github, store, inFlight, dispatch, job, history, bounds>>

\* Polls of In Review, of Principal Review, and of the park records.
List ==
    /\ pc = "idle"
    /\ \E l \in BOOLEAN :
          /\ l => status = "in_review"
          /\ ~l => status = "human_review" \/ record # None
          /\ seen' = [seen EXCEPT !.listed = l]
    /\ pc' = "issue"
    /\ UNCHANGED <<linear, github, store, inFlight, dispatch, job, history, bounds>>

ReadIssue ==
    /\ pc \in {"issue", "final"}
    /\ seen' = [seen EXCEPT !.role = status, !.label = label, !.record = record]
    /\ pc' = "pr"
    /\ UNCHANGED <<linear, github, store, inFlight, dispatch, job, history, bounds>>

ReadPull ==
    /\ pc = "pr"
    /\ seen' = [seen EXCEPT !.head = head, !.pr = pr]
    /\ pc' = "checks"
    /\ UNCHANGED <<linear, github, store, inFlight, dispatch, job, history, bounds>>

ReadChecks ==
    /\ pc = "checks"
    /\ seen' = [seen EXCEPT !.check = checks[seen.head]]
    /\ pc' = IF inFlight = "gate" THEN "merge" ELSE "decide"
    /\ UNCHANGED <<linear, github, store, inFlight, dispatch, job, history, bounds>>

\* A read that fails ends a merge for good; a scan of the In Review list goes
\* on to the review loop, any other one is surfaced.
ReadFails ==
    /\ pc \in {"issue", "final", "pr", "checks"} /\ Fault
    /\ CASE inFlight = "gate" -> pc' = "settle" /\ result' = "rejected"
                                    /\ UNCHANGED <<seen, first, goal, conflict>>
         [] inFlight # "gate" /\ seen.listed -> pc' = "review"
                                    /\ UNCHANGED <<seen, dispatch>>
         [] OTHER -> Rest
    /\ UNCHANGED <<linear, github, store, inFlight, job, history, moves, crashes>>

\* The dispatch holds the key until it ends, and keeps the snapshot it was
\* decided on.
DecideAct ==
    /\ pc = "decide" /\ Acts(seen) /\ inFlight = "none"
    /\ inFlight' = "gate" /\ first' = seen
    /\ CASE Forgets(seen) -> pc' = "forget" /\ UNCHANGED goal
         [] Parks(seen) -> pc' = "park" /\ UNCHANGED goal
         [] Merges(seen) -> pc' = "claim" /\ UNCHANGED goal
         [] OTHER -> pc' = "guard" /\ goal' = Target(seen)
    /\ UNCHANGED <<linear, github, store, seen, result, conflict, job, history, bounds>>

DecideReview ==
    /\ pc = "decide" /\ Leaves(seen) /\ seen.listed
    /\ pc' = "review"
    /\ UNCHANGED <<linear, github, store, inFlight, seen, dispatch, job, history, bounds>>

\* Surfaced, waiting for a person, or the key is taken.
DecideNothing ==
    /\ pc = "decide"
    /\ ~(Acts(seen) /\ inFlight = "none") /\ ~(Leaves(seen) /\ seen.listed)
    /\ Rest
    /\ UNCHANGED <<linear, github, store, inFlight, job, history, bounds>>

-----------------------------------------------------------------------------
(***************************************************************************)
(* Dispatch of a record cleanup, a park, and every guarded move.           *)
(***************************************************************************)

Forget ==
    /\ pc = "forget" /\ record' = None /\ Release
    /\ UNCHANGED <<linear, github, outcome, wake, job, history, bounds>>

Park ==
    /\ pc = "park" /\ record' = first.head
    /\ goal' = Target(first) /\ pc' = "guard"
    /\ UNCHANGED <<linear, github, outcome, wake, inFlight, seen, first, result, conflict,
                   job, history, bounds>>

\* After the move: a merge settles its run, anything else is over.
Moved(r) == IF result = "completed"
              THEN /\ pc' = "settle" /\ result' = r
                   /\ UNCHANGED <<inFlight, seen, first, goal, conflict>>
              ELSE Release

\* Fault: a move that is not due keeps the key.
GuardLeaking ==
    /\ pc = "guard"
    /\ IF status = first.role
         THEN pc' = "write" /\ UNCHANGED <<inFlight, seen, dispatch>>
         ELSE IF result = "completed" THEN Moved("completed") ELSE Rest /\ UNCHANGED inFlight
    /\ UNCHANGED <<linear, github, store, job, history, bounds>>

\* The fresh read before a move: only an issue that still has the status the
\* decision was made on is moved.
Guard ==
    /\ pc = "guard"
    /\ IF status = first.role
         THEN pc' = "write" /\ UNCHANGED <<inFlight, seen, dispatch>>
         ELSE Moved("completed")
    /\ UNCHANGED <<linear, github, store, job, history, bounds>>

Write ==
    /\ pc = "write" /\ status' = goal /\ Moved("completed")
    /\ UNCHANGED <<label, github, store, job, history, bounds>>

\* The read or the update failed, or was made and never answered.
MoveFails ==
    /\ pc \in {"guard", "write"} /\ Fault
    /\ status' = status \/ (pc = "write" /\ status' = goal)
    /\ Moved("paused")
    /\ UNCHANGED <<label, github, store, job, history, moves, crashes>>

-----------------------------------------------------------------------------
(***************************************************************************)
(* Dispatch of a merge: merge_pr, then the Done move when it is paired.    *)
(***************************************************************************)

\* startMergeGateRun.
Claim ==
    /\ pc = "claim" /\ wake' = "running" /\ pc' = "final"
    /\ UNCHANGED <<linear, github, record, outcome, inFlight, seen, dispatch, job, history, bounds>>

Settling(r) == pc' = "settle" /\ result' = r /\ UNCHANGED <<first, goal, conflict>>

\* Fault: any record that would be deleted counts as merged.
FinalCleanupAny ==
    /\ pc = "merge" /\ Forgets(seen) /\ pc' = "outcome"
    /\ UNCHANGED <<linear, github, store, inFlight, seen, dispatch, job, history, bounds>>

\* The pull request landed meanwhile: the books are closed.
FinalCleanup ==
    /\ pc = "merge" /\ Forgets(seen) /\ seen.pr = "merged"
    /\ pc' = "outcome"
    /\ UNCHANGED <<linear, github, store, inFlight, seen, dispatch, job, history, bounds>>

\* The second snapshot does not allow the merge any more.
FinalRefuses ==
    /\ pc = "merge" /\ ~Merges(seen) /\ ~(Forgets(seen) /\ seen.pr = "merged")
    /\ Settling("rejected")
    /\ UNCHANGED <<linear, github, store, inFlight, seen, job, history, bounds>>

Merged == pr' = "merged" /\ byGate' = TRUE /\ UNCHANGED <<head, checks, accepted>>
NotMerged == UNCHANGED <<github, history>>

\* Fault: the merge does not name the head it was decided on.
RequestAnyHead ==
    /\ pc = "merge" /\ Merges(seen) /\ pr = "open"
    /\ Merged /\ pc' = "verify"
    /\ UNCHANGED <<linear, store, inFlight, seen, dispatch, job, bounds>>

\* mergePullRequest with expectedHeadSha.
Request ==
    /\ pc = "merge" /\ Merges(seen) /\ pr = "open" /\ head = seen.head
    /\ Merged /\ pc' = "verify"
    /\ UNCHANGED <<linear, store, inFlight, seen, dispatch, job, bounds>>

\* GitHub refuses: 409 for another head, 405 for a pull request that is not
\* open, or that is and conflicts with its base.
RequestRefused ==
    /\ pc = "merge" /\ Merges(seen)
    /\ conflict' = (pr # "open" \/ head = seen.head)
    /\ pc' = "refused"
    /\ UNCHANGED <<linear, github, store, inFlight, seen, first, goal, result, job, history, bounds>>

\* No answer, whether it was merged or not.
RequestLost ==
    /\ pc = "merge" /\ Merges(seen) /\ Fault
    /\ NotMerged \/ (pr = "open" /\ head = seen.head /\ Merged)
    /\ Settling("paused")
    /\ UNCHANGED <<linear, store, inFlight, seen, job, moves, crashes>>

\* recordFailedMergeAndStop.
RecordFailed ==
    /\ pc = "refused" /\ outcome' = [outcome EXCEPT ![seen.head] = "failed"]
    /\ Settling("rejected")
    /\ UNCHANGED <<linear, github, record, wake, inFlight, seen, job, history, bounds>>

Verify ==
    /\ pc = "verify" /\ pr = "merged" /\ pc' = "outcome"
    /\ UNCHANGED <<linear, github, store, inFlight, seen, dispatch, job, history, bounds>>

\* The read failed, or GitHub does not show the merge yet.
VerifyFails ==
    /\ pc = "verify" /\ Fault /\ Settling("paused")
    /\ UNCHANGED <<linear, github, store, inFlight, seen, job, history, moves, crashes>>

\* finishMergedCleanup: two writes of the store.
RecordMerged ==
    /\ pc = "outcome" /\ outcome' = [outcome EXCEPT ![seen.head] = "merged"]
    /\ pc' = "shed"
    /\ UNCHANGED <<linear, github, record, wake, inFlight, seen, dispatch, job, history, bounds>>

ShedRecord ==
    /\ pc = "shed" /\ record' = None /\ result' = "completed"
    /\ IF PairsDone(first) THEN pc' = "guard" /\ goal' = "done"
                           ELSE pc' = "settle" /\ UNCHANGED goal
    /\ UNCHANGED <<linear, github, outcome, wake, inFlight, seen, first, conflict,
                   job, history, bounds>>

\* Fault: the commit outcome is stored as it is.
SettleUnmapped ==
    /\ pc = "settle" /\ wake' = (IF result = "rejected" THEN "failed_closed" ELSE result)
    /\ Release
    /\ UNCHANGED <<linear, github, record, outcome, job, history, bounds>>

\* completeWake, and the bridge back to the fix loop after a conflict.
Settle ==
    /\ pc = "settle" /\ wake' = result
    /\ IF result = "rejected" /\ conflict
         THEN /\ pc' = "guard" /\ goal' = "todo" /\ result' = "none"
              /\ UNCHANGED <<inFlight, seen, first, conflict>>
         ELSE Release
    /\ UNCHANGED <<linear, github, record, outcome, job, history, bounds>>

-----------------------------------------------------------------------------
(***************************************************************************)
(* The review job.  decideReviewIssue looks at the pull request and never  *)
(* at the status of the issue; the job then runs beside the poll.          *)
(***************************************************************************)

\* Under the key: an open pull request without a review at its head is
\* reviewed, one that is not open is escalated.
StartReview ==
    /\ pc = "review" /\ inFlight = "none"
    /\ pr = "open" => checks[head] = "absent"
    /\ inFlight' = "review"
    /\ IF pr = "open" THEN stage' = "thinking" /\ reviewing' = head
                      ELSE stage' = "moving" /\ reviewing' = None
    /\ Rest
    /\ UNCHANGED <<linear, github, store, history, bounds>>

\* A pull request that cannot be read is escalated like one that is not there.
StartEscalation ==
    /\ pc = "review" /\ inFlight = "none" /\ Fault
    /\ inFlight' = "review" /\ stage' = "moving" /\ reviewing' = None
    /\ Rest
    /\ UNCHANGED <<linear, github, store, history, moves, crashes>>

\* The key is taken, or the head has been reviewed.
SkipReview ==
    /\ pc = "review"
    /\ inFlight # "none" \/ (pr = "open" /\ checks[head] # "absent")
    /\ Rest
    /\ UNCHANGED <<linear, github, store, inFlight, job, history, bounds>>

EndReview == inFlight' = "none" /\ stage' = "none" /\ reviewing' = None

\* The verdict stands, and the head still is the reviewed one.
FindHead ==
    /\ stage = "thinking" /\ pr = "open" /\ head = reviewing
    /\ stage' = "posting"
    /\ UNCHANGED <<linear, github, store, inFlight, pc, seen, dispatch, reviewing, history, bounds>>

FindHeadMoved ==
    /\ stage = "thinking" /\ ~(pr = "open" /\ head = reviewing)
    /\ EndReview
    /\ UNCHANGED <<linear, github, store, pc, seen, dispatch, history, bounds>>

Approve ==
    /\ stage = "posting"
    /\ checks' = [checks EXCEPT ![reviewing] = "green"]
    /\ EndReview
    /\ UNCHANGED <<linear, pr, head, store, pc, seen, dispatch, history, bounds>>

Reject ==
    /\ stage = "posting"
    /\ checks' = [checks EXCEPT ![reviewing] = "red"]
    /\ stage' = "moving"
    /\ UNCHANGED <<linear, pr, head, store, inFlight, pc, seen, dispatch, reviewing,
                   history, bounds>>

\* Back to Todo, or to a person; neither move has a source guard.
ReviewMoves ==
    /\ stage = "moving"
    /\ \E r \in {"todo", "needs_principal"} :
          /\ reviewing = None => r = "needs_principal"
          /\ status' = r
    /\ EndReview
    /\ UNCHANGED <<label, github, store, pc, seen, dispatch, history, bounds>>

\* The job ends early; what it had asked for may have been done.
ReviewFails ==
    /\ stage # "none" /\ Fault
    /\ \/ UNCHANGED <<linear, github>>
       \/ /\ stage = "posting"
          /\ \E c \in {"green", "red"} : checks' = [checks EXCEPT ![reviewing] = c]
          /\ UNCHANGED <<linear, pr, head>>
       \/ /\ stage = "moving"
          /\ status' \in {"todo", "needs_principal"}
          /\ reviewing = None => status' = "needs_principal"
          /\ UNCHANGED <<label, github>>
    /\ EndReview
    /\ UNCHANGED <<store, pc, seen, dispatch, history, moves, crashes>>

-----------------------------------------------------------------------------
(***************************************************************************)
(* Crashes, people, and the other workflows that work on the issue.        *)
(***************************************************************************)

Crash ==
    /\ crashes < MaxCrashes /\ crashes' = crashes + 1
    /\ Rest /\ EndReview
    /\ UNCHANGED <<linear, github, store, history, moves, faults>>

Person == moves < MaxMoves /\ moves' = moves + 1

\* Moving the issue to Done accepts the head it has.
HumanMoves ==
    /\ Person
    /\ \E r \in HumanRoles \ {status} :
          /\ status' = r
          /\ accepted' = accepted \cup {h \in {head} : r = "done"}
    /\ UNCHANGED <<label, github, store, inFlight, pc, seen, dispatch, job, byGate,
                   faults, crashes>>

\* Removing the label accepts the head, and the ones pushed until it is back.
HumanLabels ==
    /\ Person /\ label' = ~label
    /\ accepted' = accepted \cup {h \in {head} : label}
    /\ UNCHANGED <<status, github, store, inFlight, pc, seen, dispatch, job, byGate,
                   faults, crashes>>

HumanEndsPull ==
    /\ Person /\ pr = "open" /\ pr' \in {"closed", "merged"}
    /\ UNCHANGED <<linear, head, checks, store, inFlight, pc, seen, dispatch, job, history,
                   faults, crashes>>

Push ==
    /\ pr = "open" /\ head < MaxHeads /\ head' = head + 1
    /\ accepted' = accepted \cup {h \in {head + 1} : ~label}
    /\ UNCHANGED <<linear, pr, checks, store, inFlight, pc, seen, dispatch, job, byGate, bounds>>

-----------------------------------------------------------------------------
Scan == List \/ ReadIssue \/ ReadPull \/ ReadChecks \/ DecideAct \/ DecideReview \/ DecideNothing

Moving == Forget \/ Park \/ Guard \/ Write

Merging ==
    \/ Claim \/ FinalCleanup \/ FinalRefuses \/ Request \/ RequestRefused
    \/ RecordFailed \/ Verify \/ RecordMerged \/ ShedRecord \/ Settle

Gate == Scan \/ Moving \/ Merging \/ StartReview \/ SkipReview

Review == FindHead \/ FindHeadMoved \/ Approve \/ Reject \/ ReviewMoves

Failures == ReadFails \/ MoveFails \/ RequestLost \/ VerifyFails \/ StartEscalation
                \/ ReviewFails \/ Crash

People == HumanMoves \/ HumanLabels \/ HumanEndsPull \/ Push

Next == Gate \/ Review \/ Failures \/ People

Spec == Init /\ [][Next]_vars

\* The poll is repeated for ever and each dispatch runs to its end; which list
\* asks for the issue next is left open.
FairSpec == Spec /\ WF_vars(Gate) /\ WF_vars(Review)

-----------------------------------------------------------------------------
\* merge_pr: the gate merges only a head that passed review and that a person
\* accepted, by keeping the label off it, taking it off, or moving the issue
\* to Done, whatever is pushed, moved and relabelled between its requests.
GateMergesAccepted == byGate => head \in accepted /\ checks[head] = "green"

\* recordMergeOutcome and completeWake: an outcome "merged" names the head
\* that landed, and a merge run is completed only when the request landed.
OutcomeIsTrue ==
    /\ \A h \in Heads : outcome[h] = "merged" => pr = "merged" /\ head = h
    /\ wake = "completed" => pr = "merged"

\* A step of the gateway, not of a person.
ByGateway == moves' = moves

\* issueDoneEffect is listed after mergePrEffect: the gateway moves an issue to
\* Done only when its pull request has been merged.
DoneIsMerged ==
    [][ByGateway /\ status # "done" /\ status' = "done" => pr = "merged"]_vars

\* dispatchMergeGateDecision, park: an issue is put before a person only
\* with a durable record of a head that passed review.
ParkedIsRecorded ==
    [][ByGateway /\ status # "human_review" /\ status' = "human_review"
          => record # None /\ checks[record] = "green"]_vars

\* deleteParkRecord: the record of a parked head outlives send-backs, drift
\* and crashes until its pull request is merged or closed.
RecordKept == [][record # None /\ record' = None => pr # "open"]_vars

\* Nobody acts on the issue any more and nothing fails.
Quiet == moves = MaxMoves /\ faults = MaxFaults /\ crashes = MaxCrashes /\ head = MaxHeads

\* A head that passed review is merged, parked for a person, or sent back.
GreenIsDecided ==
    (Quiet /\ status = "in_review" /\ pr = "open" /\ checks[head] = "green")
        ~> (pr = "merged" \/ status # "in_review")

\* A parked head that was accepted by moving the issue to Done lands, or the
\* issue leaves Done again.
AcceptanceLands ==
    (Quiet /\ status = "done" /\ pr = "open" /\ record = head /\ checks[head] = "green")
        ~> (pr = "merged" \/ status # "done")

\* The record of a pull request that was closed does not stay on the
\* watchlist, nor does that of a head that landed, unless the issue leaves Done.
RecordSettles ==
    (Quiet /\ (pr = "closed" \/ (pr = "merged" /\ status = "done" /\ record = head)))
        ~> (record = None \/ (pr = "merged" /\ status # "done"))

=============================================================================
