-------------------------- MODULE MergeGateProofs --------------------------
(***************************************************************************)
(* What MergeGate guarantees for any number of heads, and any bounds on    *)
(* moves, faults and crashes.                                              *)
(***************************************************************************)
EXTENDS MergeGate, TLAPS

\* A pull request that landed or was closed stays so, and what the gateway
\* concludes from having read it is still true when it acts on it.
Landed ==
    /\ seen.pr = "merged" => pr = "merged" /\ head = seen.head
    /\ seen.pr # "open" => pr # "open"
    /\ first.pr # "open" => pr # "open"
    /\ pc = "forget" => first.pr # "open"
    /\ pc \in {"verify", "outcome", "shed"} => pr = "merged" /\ head = seen.head
    /\ goal = "done" \/ result = "completed" => pr = "merged"

\* A commit gets its review once, and what the gateway read of it stays true.
Reviewed ==
    /\ stage \in {"thinking", "posting"} => reviewing \in Heads /\ checks[reviewing] = "absent"
    /\ pc \in {"decide", "merge"} /\ Green(seen) => checks[seen.head] = "green"
    /\ pc = "park" => checks[first.head] = "green"
    /\ record # None => checks[record] = "green"
    /\ pc \in {"guard", "write"} /\ goal = "human_review" => record # None

\* A move has a target.
Aimed == pc \in {"guard", "write"} => goal # "none"

\* Who holds the issue's key, by where the poll and the review job are.
AtDispatch == {"forget", "park", "guard", "write", "claim", "final", "merge", "refused",
               "verify", "outcome", "shed", "settle"}
Keyed ==
    /\ (stage # "none") = (inFlight = "review")
    /\ pc \in AtDispatch => inFlight = "gate"

\* No review is ahead of the branch, and no record.
Followed ==
    /\ \A h \in Heads : checks[h] # "absent" => h <= head
    /\ reviewing <= head /\ record <= head
    /\ pc \in {"pr", "checks", "decide", "merge"} => seen.record <= head
    /\ pc \in {"checks", "decide", "merge"} => seen.head <= head
    /\ pc = "park" => first.head <= head

\* No review has reached h, and none is on its way.
Unseen(h) == checks[h] = "absent" /\ reviewing # h

\* In Done by a person, an open pull request's head h was accepted.
DoneAccepts(h) == status = "done" /\ pr = "open" /\ head = h => h \in accepted

\* What was read of the label and of Done still says whom it accepted: a head
\* that was pushed after the read has no review, and gets none before the
\* snapshot is used.
Consented ==
    /\ ~label => head \in accepted
    /\ record # None => DoneAccepts(record)
    /\ pc = "park" => DoneAccepts(first.head)
    /\ pc = "pr" /\ seen.role = "in_review" => DoneAccepts(head) \/ Unseen(head)
    /\ pc = "checks" /\ seen.role = "in_review" => DoneAccepts(seen.head) \/ Unseen(seen.head)
    /\ pc = "decide" /\ seen.role = "in_review" /\ Green(seen) => DoneAccepts(seen.head)
    /\ pc = "pr" /\ inFlight = "gate" /\ ~seen.label => head \in accepted \/ Unseen(head)
    /\ pc = "pr" /\ seen.role = "done" /\ pr = "open" /\ seen.record = head => head \in accepted
    /\ pc \in {"checks", "merge"} /\ inFlight = "gate" /\ ~seen.label
          => seen.head \in accepted \/ Unseen(seen.head)
    /\ pc \in {"checks", "merge"} /\ seen.role = "done" /\ seen.pr = "open" /\ AtParkedHead(seen)
          => seen.head \in accepted
    /\ byGate => pr = "merged" /\ head \in accepted /\ checks[head] = "green"

IInv == TypeOK /\ Aimed /\ Landed /\ Reviewed /\ OutcomeIsTrue /\ Keyed /\ Followed /\ Consented

-----------------------------------------------------------------------------
\* The sentinels: no head is None, and an empty snapshot is a snapshot.
LEMMA Sentinels == 1 \in Heads /\ None \notin Heads /\ Unread \in Snapshots
<1>1. 1 \in Heads /\ None \notin Heads
  BY HeadsAssumption DEF Heads, None
<1> QED
  BY <1>1 DEF Unread, Snapshots, Roles, PrStates, CheckStates

\* The statuses the gateway moves issues to are roles.
LEMMA Targets == {"todo", "in_review", "human_review", "needs_principal", "done"} \subseteq Roles
BY DEF Roles

\* Every move goes to a status of its own decision.
LEMMA TargetOf == \A s \in Snapshots : Target(s) \in {"human_review", "todo", "in_review"}
BY DEF Target

\* Every step keeps the shape of the state.
LEMMA Typing == TypeOK /\ Aimed /\ [Next]_vars => TypeOK'
<1> SUFFICES ASSUME TypeOK, Aimed, [Next]_vars PROVE TypeOK'
  OBVIOUS
<1> USE Sentinels, Targets, RolesAssumption, BoundsAssumption
    DEF TypeOK, LinearOK, GithubOK, StoreOK, ScanOK, DispatchOK, JobOK, HistoryOK, BoundsOK,
        linear, github, store, dispatch, job, history, bounds,
        Results, CheckStates, PrStates, Points, Aimed
<1>1. CASE Scan
  <2>1. CASE List
    <3>1. seen' \in Snapshots
      BY <2>1 DEF List, Snapshots, ScanOK
    <3> QED
      BY <2>1, <3>1 DEF List
  <2>2. CASE ReadIssue
    <3>1. seen' \in Snapshots
      BY <2>2 DEF ReadIssue, Snapshots, ScanOK, LinearOK, StoreOK
    <3> QED
      BY <2>2, <3>1 DEF ReadIssue
  <2>3. CASE ReadPull
    <3>1. seen' \in Snapshots
      BY <2>3 DEF ReadPull, Snapshots, ScanOK, GithubOK, PrStates
    <3> QED
      BY <2>3, <3>1 DEF ReadPull
  <2>4. CASE ReadChecks
    <3>1. seen' \in Snapshots
      BY <2>4 DEF ReadChecks, Snapshots, ScanOK, GithubOK, CheckStates
    <3> QED
      BY <2>4, <3>1 DEF ReadChecks
  <2>5. CASE DecideAct
    <3>1. pc' \in {"forget", "park", "claim", "guard"} /\ goal' \in {goal, Target(seen)}
      BY <2>5 DEF DecideAct
    <3>2. goal' \in Roles \cup {"none"}
      BY <3>1, TargetOf DEF ScanOK, DispatchOK
    <3>3. inFlight' = "gate" /\ first' = seen
      BY <2>5 DEF DecideAct
    <3>4. UNCHANGED <<linear, github, store, seen, result, conflict, job, history, bounds>>
      BY <2>5 DEF DecideAct
    <3> QED
      BY <3>1, <3>2, <3>3, <3>4
  <2>6. CASE DecideReview
    BY <2>6 DEF DecideReview
  <2>7. CASE DecideNothing
    <3>1. UNCHANGED <<linear, github, store, inFlight, job, history, bounds>>
      BY <2>7 DEF DecideNothing
    <3>2. ScanOK'
      BY <2>7, <3>1 DEF DecideNothing, Rest
    <3>3. DispatchOK'
      BY <2>7 DEF DecideNothing, Rest
    <3> QED
      BY <3>1, <3>2, <3>3
  <2> QED
    BY <1>1, <2>1, <2>2, <2>3, <2>4, <2>5, <2>6, <2>7 DEF Scan
<1>2. CASE Moving
  <2>1. CASE Forget
    BY <2>1 DEF Forget, Release, Rest
  <2>2. CASE Park
    <3>1. (LinearOK /\ GithubOK /\ JobOK /\ HistoryOK /\ BoundsOK)'
      BY <2>2 DEF Park, Target
    <3>2. StoreOK'
      BY <2>2 DEF Park, Target, Snapshots
    <3>3. ScanOK'
      BY <2>2 DEF Park, Target
    <3>4. DispatchOK'
      BY <2>2 DEF Park, Target
    <3> QED
      BY <3>1, <3>2, <3>3, <3>4
  <2>3. CASE Guard
    <3>1. (LinearOK /\ GithubOK /\ StoreOK /\ JobOK /\ HistoryOK /\ BoundsOK)'
      BY <2>3 DEF Guard, Moved, Release, Rest
    <3>2. ScanOK'
      BY <2>3 DEF Guard, Moved, Release, Rest
    <3>3. DispatchOK'
      BY <2>3 DEF Guard, Moved, Release, Rest
    <3> QED
      BY <3>1, <3>2, <3>3
  <2>4. CASE Write
    <3>1. (GithubOK /\ StoreOK /\ JobOK /\ HistoryOK /\ BoundsOK)'
      BY <2>4 DEF Write, Moved, Release, Rest
    <3>2. LinearOK'
      BY <2>4 DEF Write, Moved, Release, Rest
    <3>3. ScanOK'
      BY <2>4 DEF Write, Moved, Release, Rest
    <3>4. DispatchOK'
      BY <2>4 DEF Write, Moved, Release, Rest
    <3> QED
      BY <3>1, <3>2, <3>3, <3>4
  <2> QED
    BY <1>2, <2>1, <2>2, <2>3, <2>4 DEF Moving
<1>3. CASE Merging
  <2>1. CASE Claim
    BY <2>1 DEF Claim
  <2>2. CASE FinalCleanup
    BY <2>2 DEF FinalCleanup
  <2>3. CASE FinalRefuses
    BY <2>3 DEF FinalRefuses, Settling
  <2>4. CASE Request
    BY <2>4 DEF Request, Merged
  <2>5. CASE RequestRefused
    BY <2>5 DEF RequestRefused
  <2>6. CASE RecordFailed
    <3>1. (LinearOK /\ GithubOK /\ JobOK /\ HistoryOK /\ BoundsOK)'
      BY <2>6 DEF RecordFailed, Settling
    <3>2. StoreOK'
      BY <2>6 DEF RecordFailed, Settling, Snapshots
    <3>3. ScanOK'
      BY <2>6 DEF RecordFailed, Settling
    <3>4. DispatchOK'
      BY <2>6 DEF RecordFailed, Settling
    <3> QED
      BY <3>1, <3>2, <3>3, <3>4
  <2>7. CASE Verify
    BY <2>7 DEF Verify
  <2>8. CASE RecordMerged
    <3>1. (LinearOK /\ GithubOK /\ DispatchOK /\ JobOK /\ HistoryOK /\ BoundsOK)'
      BY <2>8 DEF RecordMerged
    <3>2. StoreOK'
      BY <2>8 DEF RecordMerged, Snapshots
    <3>3. ScanOK'
      BY <2>8 DEF RecordMerged
    <3> QED
      BY <3>1, <3>2, <3>3
  <2>9. CASE ShedRecord
    BY <2>9 DEF ShedRecord
  <2>10. CASE Settle
    <3>1. (LinearOK /\ GithubOK /\ JobOK /\ HistoryOK /\ BoundsOK)'
      BY <2>10 DEF Settle, Release, Rest
    <3>2. StoreOK'
      BY <2>10 DEF Settle, Release, Rest
    <3>3. ScanOK'
      BY <2>10 DEF Settle, Release, Rest
    <3>4. DispatchOK'
      BY <2>10 DEF Settle, Release, Rest
    <3> QED
      BY <3>1, <3>2, <3>3, <3>4
  <2> QED
    BY <1>3, <2>1, <2>2, <2>3, <2>4, <2>5, <2>6, <2>7, <2>8, <2>9, <2>10 DEF Merging
<1>4. CASE StartReview \/ SkipReview
  <2>1. CASE StartReview
    <3>1. (LinearOK /\ GithubOK /\ JobOK /\ HistoryOK /\ BoundsOK)'
      BY <2>1 DEF StartReview, Rest
    <3>2. StoreOK'
      BY <2>1 DEF StartReview, Rest
    <3>3. ScanOK'
      BY <2>1 DEF StartReview, Rest
    <3>4. DispatchOK'
      BY <2>1 DEF StartReview, Rest
    <3> QED
      BY <3>1, <3>2, <3>3, <3>4
  <2>2. CASE SkipReview
    <3>1. (LinearOK /\ GithubOK /\ JobOK /\ HistoryOK /\ BoundsOK)'
      BY <2>2 DEF SkipReview, Rest
    <3>2. StoreOK'
      BY <2>2 DEF SkipReview, Rest
    <3>3. ScanOK'
      BY <2>2 DEF SkipReview, Rest
    <3>4. DispatchOK'
      BY <2>2 DEF SkipReview, Rest
    <3> QED
      BY <3>1, <3>2, <3>3, <3>4
  <2> QED
    BY <1>4, <2>1, <2>2
<1>5. CASE Review
  <2>1. CASE FindHead
    BY <2>1 DEF FindHead
  <2>2. CASE FindHeadMoved
    BY <2>2 DEF FindHeadMoved, EndReview
  <2>3. CASE Approve
    <3>1. (LinearOK /\ StoreOK /\ DispatchOK /\ HistoryOK /\ BoundsOK)'
      BY <2>3 DEF Approve, EndReview
    <3>2. GithubOK'
      BY <2>3 DEF Approve, EndReview
    <3>3. ScanOK'
      BY <2>3 DEF Approve, EndReview
    <3>4. JobOK'
      BY <2>3 DEF Approve, EndReview
    <3> QED
      BY <3>1, <3>2, <3>3, <3>4
  <2>4. CASE Reject
    <3>1. (LinearOK /\ StoreOK /\ ScanOK /\ DispatchOK /\ HistoryOK /\ BoundsOK)'
      BY <2>4 DEF Reject
    <3>2. GithubOK'
      BY <2>4 DEF Reject
    <3>3. JobOK'
      BY <2>4 DEF Reject
    <3> QED
      BY <3>1, <3>2, <3>3
  <2>5. CASE ReviewMoves
    BY <2>5 DEF ReviewMoves, EndReview
  <2> QED
    BY <1>5, <2>1, <2>2, <2>3, <2>4, <2>5 DEF Review
<1>6. CASE Failures
  <2>1. CASE ReadFails
    <3>1. (LinearOK /\ GithubOK /\ StoreOK /\ JobOK /\ HistoryOK)'
      BY <2>1 DEF ReadFails, Fault, Rest
    <3>2. ScanOK'
      BY <2>1 DEF ReadFails, Fault, Rest
    <3>3. DispatchOK'
      BY <2>1 DEF ReadFails, Fault, Rest
    <3>4. BoundsOK'
      BY <2>1 DEF ReadFails, Fault, Rest
    <3> QED
      BY <3>1, <3>2, <3>3, <3>4
  <2>2. CASE MoveFails
    <3>1. (GithubOK /\ StoreOK /\ JobOK /\ HistoryOK)'
      BY <2>2 DEF MoveFails, Fault, Moved, Release, Rest
    <3>2. LinearOK'
      BY <2>2 DEF MoveFails, Fault, Moved, Release, Rest
    <3>3. ScanOK'
      BY <2>2 DEF MoveFails, Fault, Moved, Release, Rest
    <3>4. DispatchOK'
      BY <2>2 DEF MoveFails, Fault, Moved, Release, Rest
    <3>5. BoundsOK'
      BY <2>2 DEF MoveFails, Fault, Moved, Release, Rest
    <3> QED
      BY <3>1, <3>2, <3>3, <3>4, <3>5
  <2>3. CASE RequestLost
    <3>1. (LinearOK /\ StoreOK /\ JobOK)'
      BY <2>3 DEF RequestLost, Fault, NotMerged, Merged, Settling
    <3>2. GithubOK'
      BY <2>3 DEF RequestLost, Fault, NotMerged, Merged, Settling
    <3>3. ScanOK'
      BY <2>3 DEF RequestLost, Fault, NotMerged, Merged, Settling
    <3>4. DispatchOK'
      BY <2>3 DEF RequestLost, Fault, NotMerged, Merged, Settling
    <3>5. HistoryOK'
      BY <2>3 DEF RequestLost, Fault, NotMerged, Merged, Settling
    <3>6. BoundsOK'
      BY <2>3 DEF RequestLost, Fault, NotMerged, Merged, Settling
    <3> QED
      BY <3>1, <3>2, <3>3, <3>4, <3>5, <3>6
  <2>4. CASE VerifyFails
    BY <2>4 DEF VerifyFails, Fault, Settling
  <2>5. CASE StartEscalation
    <3>1. (LinearOK /\ GithubOK /\ StoreOK /\ HistoryOK)'
      BY <2>5 DEF StartEscalation, Fault, Rest
    <3>2. ScanOK'
      BY <2>5 DEF StartEscalation, Fault, Rest
    <3>3. DispatchOK'
      BY <2>5 DEF StartEscalation, Fault, Rest
    <3>4. JobOK'
      BY <2>5 DEF StartEscalation, Fault, Rest
    <3>5. BoundsOK'
      BY <2>5 DEF StartEscalation, Fault, Rest
    <3> QED
      BY <3>1, <3>2, <3>3, <3>4, <3>5
  <2>6. CASE ReviewFails
    BY <2>6 DEF ReviewFails, Fault, EndReview
  <2>7. CASE Crash
    <3>1. (LinearOK /\ GithubOK /\ StoreOK /\ HistoryOK)'
      BY <2>7 DEF Crash, Rest, EndReview
    <3>2. ScanOK'
      BY <2>7 DEF Crash, Rest, EndReview
    <3>3. DispatchOK'
      BY <2>7 DEF Crash, Rest, EndReview
    <3>4. JobOK'
      BY <2>7 DEF Crash, Rest, EndReview
    <3>5. BoundsOK'
      BY <2>7 DEF Crash, Rest, EndReview
    <3> QED
      BY <3>1, <3>2, <3>3, <3>4, <3>5
  <2> QED
    BY <1>6, <2>1, <2>2, <2>3, <2>4, <2>5, <2>6, <2>7 DEF Failures
<1>7. CASE People
  <2>1. CASE HumanMoves
    BY <2>1 DEF HumanMoves, Person
  <2>2. CASE HumanLabels
    BY <2>2 DEF HumanLabels, Person
  <2>3. CASE HumanEndsPull
    BY <2>3 DEF HumanEndsPull, Person
  <2>4. CASE Push
    <3>1. head + 1 \in Heads
      BY <2>4, HeadsAssumption DEF Push, Heads
    <3> QED
      BY <2>4, <3>1 DEF Push
  <2> QED
    BY <1>7, <2>1, <2>2, <2>3, <2>4 DEF People
<1>8. CASE UNCHANGED vars
  BY <1>8 DEF vars, linear, github, store, dispatch, job, history, bounds, LinearOK,
       GithubOK, StoreOK, ScanOK, DispatchOK, JobOK, HistoryOK, BoundsOK
<1> QED
  BY <1>1, <1>2, <1>3, <1>4, <1>5, <1>6, <1>7, <1>8 DEF Next, Gate

\* Every action keeps Aimed: the target of a move is set when the move begins.
LEMMA AimedStep == TypeOK /\ Aimed /\ [Next]_vars => Aimed'
<1> SUFFICES ASSUME TypeOK, Aimed, [Next]_vars PROVE Aimed'
  OBVIOUS
<1> USE TargetOf DEF Aimed, TypeOK, ScanOK, DispatchOK, linear, github, store, dispatch, job, history, bounds
<1>1. CASE Scan
  <2>1. CASE List
    BY <2>1 DEF List
  <2>2. CASE ReadIssue
    BY <2>2 DEF ReadIssue
  <2>3. CASE ReadPull
    BY <2>3 DEF ReadPull
  <2>4. CASE ReadChecks
    BY <2>4 DEF ReadChecks
  <2>5. CASE DecideAct
    BY <2>5 DEF DecideAct
  <2>6. CASE DecideReview
    BY <2>6 DEF DecideReview
  <2>7. CASE DecideNothing
    BY <2>7 DEF DecideNothing, Rest
  <2> QED
    BY <1>1, <2>1, <2>2, <2>3, <2>4, <2>5, <2>6, <2>7 DEF Scan
<1>2. CASE Moving
  <2>1. CASE Forget
    BY <2>1 DEF Forget, Release, Rest
  <2>2. CASE Park
    BY <2>2 DEF Park
  <2>3. CASE Guard
    BY <2>3 DEF Guard, Moved, Release, Rest
  <2>4. CASE Write
    BY <2>4 DEF Write, Moved, Release, Rest
  <2> QED
    BY <1>2, <2>1, <2>2, <2>3, <2>4 DEF Moving
<1>3. CASE Merging
  <2>1. CASE Claim
    BY <2>1 DEF Claim
  <2>2. CASE FinalCleanup
    BY <2>2 DEF FinalCleanup
  <2>3. CASE FinalRefuses
    BY <2>3 DEF FinalRefuses, Settling
  <2>4. CASE Request
    BY <2>4 DEF Request, Merged
  <2>5. CASE RequestRefused
    BY <2>5 DEF RequestRefused
  <2>6. CASE RecordFailed
    BY <2>6 DEF RecordFailed, Settling
  <2>7. CASE Verify
    BY <2>7 DEF Verify
  <2>8. CASE RecordMerged
    BY <2>8 DEF RecordMerged
  <2>9. CASE ShedRecord
    BY <2>9 DEF ShedRecord
  <2>10. CASE Settle
    BY <2>10 DEF Settle, Release, Rest
  <2> QED
    BY <1>3, <2>1, <2>2, <2>3, <2>4, <2>5, <2>6, <2>7, <2>8, <2>9, <2>10 DEF Merging
<1>4. CASE StartReview \/ SkipReview
  <2>1. CASE StartReview
    BY <2>1 DEF StartReview, Rest
  <2>2. CASE SkipReview
    BY <2>2 DEF SkipReview, Rest
  <2> QED
    BY <1>4, <2>1, <2>2
<1>5. CASE Review
  <2>1. CASE FindHead
    BY <2>1 DEF FindHead
  <2>2. CASE FindHeadMoved
    BY <2>2 DEF FindHeadMoved, EndReview
  <2>3. CASE Approve
    BY <2>3 DEF Approve, EndReview
  <2>4. CASE Reject
    BY <2>4 DEF Reject
  <2>5. CASE ReviewMoves
    BY <2>5 DEF ReviewMoves, EndReview
  <2> QED
    BY <1>5, <2>1, <2>2, <2>3, <2>4, <2>5 DEF Review
<1>6. CASE Failures
  <2>1. CASE ReadFails
    BY <2>1 DEF ReadFails, Fault, Rest
  <2>2. CASE MoveFails
    BY <2>2 DEF MoveFails, Fault, Moved, Release, Rest
  <2>3. CASE RequestLost
    BY <2>3 DEF RequestLost, Fault, NotMerged, Merged, Settling
  <2>4. CASE VerifyFails
    BY <2>4 DEF VerifyFails, Fault, Settling
  <2>5. CASE StartEscalation
    BY <2>5 DEF StartEscalation, Fault, Rest
  <2>6. CASE ReviewFails
    BY <2>6 DEF ReviewFails, Fault, EndReview
  <2>7. CASE Crash
    BY <2>7 DEF Crash, Rest, EndReview
  <2> QED
    BY <1>6, <2>1, <2>2, <2>3, <2>4, <2>5, <2>6, <2>7 DEF Failures
<1>7. CASE People
  <2>1. CASE HumanMoves
    BY <2>1 DEF HumanMoves, Person
  <2>2. CASE HumanLabels
    BY <2>2 DEF HumanLabels, Person
  <2>3. CASE HumanEndsPull
    BY <2>3 DEF HumanEndsPull, Person
  <2>4. CASE Push
    BY <2>4 DEF Push
  <2> QED
    BY <1>7, <2>1, <2>2, <2>3, <2>4 DEF People
<1>8. CASE UNCHANGED vars
  BY <1>8 DEF vars
<1> QED
  BY <1>1, <1>2, <1>3, <1>4, <1>5, <1>6, <1>7, <1>8 DEF Next, Gate

\* What the gateway read of a pull request that is not open stays true.
LEMMA LandedStep == TypeOK /\ Aimed /\ Landed /\ [Next]_vars => Landed'
<1> SUFFICES ASSUME TypeOK, Aimed, Landed, [Next]_vars PROVE Landed'
  OBVIOUS
<1> USE Sentinels, TargetOf DEF Landed, Aimed, Unread, linear, github, store, dispatch, job, history, bounds
<1>1. CASE Scan
  <2>1. CASE List
    BY <2>1 DEF List
  <2>2. CASE ReadIssue
    BY <2>2 DEF ReadIssue
  <2>3. CASE ReadPull
    BY <2>3 DEF ReadPull, TypeOK, ScanOK, Snapshots
  <2>4. CASE ReadChecks
    BY <2>4 DEF ReadChecks
  <2>5. CASE DecideAct
    BY <2>5 DEF DecideAct, Forgets, Dead, TypeOK, ScanOK
  <2>6. CASE DecideReview
    BY <2>6 DEF DecideReview
  <2>7. CASE DecideNothing
    BY <2>7 DEF DecideNothing, Rest
  <2> QED
    BY <1>1, <2>1, <2>2, <2>3, <2>4, <2>5, <2>6, <2>7 DEF Scan
<1>2. CASE Moving
  <2>1. CASE Forget
    BY <2>1 DEF Forget, Release, Rest
  <2>2. CASE Park
    BY <2>2 DEF Park, TypeOK, DispatchOK
  <2>3. CASE Guard
    BY <2>3 DEF Guard, Moved, Release, Rest
  <2>4. CASE Write
    BY <2>4 DEF Write, Moved, Release, Rest
  <2> QED
    BY <1>2, <2>1, <2>2, <2>3, <2>4 DEF Moving
<1>3. CASE Merging
  <2>1. CASE Claim
    BY <2>1 DEF Claim
  <2>2. CASE FinalCleanup
    BY <2>2 DEF FinalCleanup
  <2>3. CASE FinalRefuses
    BY <2>3 DEF FinalRefuses, Settling
  <2>4. CASE Request
    BY <2>4 DEF Request, Merged
  <2>5. CASE RequestRefused
    BY <2>5 DEF RequestRefused
  <2>6. CASE RecordFailed
    BY <2>6 DEF RecordFailed, Settling
  <2>7. CASE Verify
    BY <2>7 DEF Verify
  <2>8. CASE RecordMerged
    BY <2>8 DEF RecordMerged
  <2>9. CASE ShedRecord
    BY <2>9 DEF ShedRecord
  <2>10. CASE Settle
    BY <2>10 DEF Settle, Release, Rest
  <2> QED
    BY <1>3, <2>1, <2>2, <2>3, <2>4, <2>5, <2>6, <2>7, <2>8, <2>9, <2>10 DEF Merging
<1>4. CASE StartReview \/ SkipReview
  <2>1. CASE StartReview
    BY <2>1 DEF StartReview, Rest
  <2>2. CASE SkipReview
    BY <2>2 DEF SkipReview, Rest
  <2> QED
    BY <1>4, <2>1, <2>2
<1>5. CASE Review
  <2>1. CASE FindHead
    BY <2>1 DEF FindHead
  <2>2. CASE FindHeadMoved
    BY <2>2 DEF FindHeadMoved, EndReview
  <2>3. CASE Approve
    BY <2>3 DEF Approve, EndReview
  <2>4. CASE Reject
    BY <2>4 DEF Reject
  <2>5. CASE ReviewMoves
    BY <2>5 DEF ReviewMoves, EndReview
  <2> QED
    BY <1>5, <2>1, <2>2, <2>3, <2>4, <2>5 DEF Review
<1>6. CASE Failures
  <2>1. CASE ReadFails
    BY <2>1 DEF ReadFails, Fault, Rest
  <2>2. CASE MoveFails
    BY <2>2 DEF MoveFails, Fault, Moved, Release, Rest
  <2>3. CASE RequestLost
    BY <2>3 DEF RequestLost, Fault, NotMerged, Merged, Settling
  <2>4. CASE VerifyFails
    BY <2>4 DEF VerifyFails, Fault, Settling
  <2>5. CASE StartEscalation
    BY <2>5 DEF StartEscalation, Fault, Rest
  <2>6. CASE ReviewFails
    BY <2>6 DEF ReviewFails, Fault, EndReview
  <2>7. CASE Crash
    BY <2>7 DEF Crash, Rest, EndReview
  <2> QED
    BY <1>6, <2>1, <2>2, <2>3, <2>4, <2>5, <2>6, <2>7 DEF Failures
<1>7. CASE People
  <2>1. CASE HumanMoves
    BY <2>1 DEF HumanMoves, Person
  <2>2. CASE HumanLabels
    BY <2>2 DEF HumanLabels, Person
  <2>3. CASE HumanEndsPull
    BY <2>3 DEF HumanEndsPull, Person
  <2>4. CASE Push
    BY <2>4 DEF Push
  <2> QED
    BY <1>7, <2>1, <2>2, <2>3, <2>4 DEF People
<1>8. CASE UNCHANGED vars
  BY <1>8 DEF vars
<1> QED
  BY <1>1, <1>2, <1>3, <1>4, <1>5, <1>6, <1>7, <1>8 DEF Next, Gate

\* A verdict is written once and what the gateway read of it stays true.
LEMMA ReviewedStep == TypeOK /\ Reviewed /\ [Next]_vars => Reviewed'
<1> SUFFICES ASSUME TypeOK, Reviewed, [Next]_vars PROVE Reviewed'
  OBVIOUS
<1> USE Sentinels DEF Reviewed, Green, Unread, linear, github, store, dispatch, job, history, bounds
<1>1. CASE Scan
  <2>1. CASE List
    BY <2>1 DEF List
  <2>2. CASE ReadIssue
    BY <2>2 DEF ReadIssue
  <2>3. CASE ReadPull
    BY <2>3 DEF ReadPull
  <2>4. CASE ReadChecks
    BY <2>4 DEF ReadChecks
  <2>5. CASE DecideAct
    <3>1. Parks(seen) => Green(seen)
      BY DEF Parks
    <3>2. pc' = "park" => first' = seen /\ Parks(seen)
      BY <2>5 DEF DecideAct
    <3>3. pc' = "guard" => ~Parks(seen) /\ goal' = Target(seen)
      BY <2>5 DEF DecideAct
    <3>4. ~Parks(seen) => Target(seen) # "human_review"
      BY DEF Target
    <3>5. UNCHANGED <<checks, seen, record, job>> /\ pc = "decide" /\ pc' \notin {"decide", "merge", "write"}
      BY <2>5 DEF DecideAct
    <3> QED
      BY <3>1, <3>2, <3>3, <3>4, <3>5
  <2>6. CASE DecideReview
    BY <2>6 DEF DecideReview
  <2>7. CASE DecideNothing
    BY <2>7 DEF DecideNothing, Rest
  <2> QED
    BY <1>1, <2>1, <2>2, <2>3, <2>4, <2>5, <2>6, <2>7 DEF Scan
<1>2. CASE Moving
  <2>1. CASE Forget
    BY <2>1 DEF Forget, Release, Rest
  <2>2. CASE Park
    <3>1. first.head \in Heads
      BY DEF TypeOK, DispatchOK, Snapshots
    <3> QED
      BY <2>2, <3>1 DEF Park
  <2>3. CASE Guard
    BY <2>3 DEF Guard, Moved, Release, Rest
  <2>4. CASE Write
    BY <2>4 DEF Write, Moved, Release, Rest
  <2> QED
    BY <1>2, <2>1, <2>2, <2>3, <2>4 DEF Moving
<1>3. CASE Merging
  <2>1. CASE Claim
    BY <2>1 DEF Claim
  <2>2. CASE FinalCleanup
    BY <2>2 DEF FinalCleanup
  <2>3. CASE FinalRefuses
    BY <2>3 DEF FinalRefuses, Settling
  <2>4. CASE Request
    BY <2>4 DEF Request, Merged
  <2>5. CASE RequestRefused
    BY <2>5 DEF RequestRefused
  <2>6. CASE RecordFailed
    BY <2>6 DEF RecordFailed, Settling
  <2>7. CASE Verify
    BY <2>7 DEF Verify
  <2>8. CASE RecordMerged
    BY <2>8 DEF RecordMerged
  <2>9. CASE ShedRecord
    BY <2>9 DEF ShedRecord
  <2>10. CASE Settle
    BY <2>10 DEF Settle, Release, Rest
  <2> QED
    BY <1>3, <2>1, <2>2, <2>3, <2>4, <2>5, <2>6, <2>7, <2>8, <2>9, <2>10 DEF Merging
<1>4. CASE StartReview \/ SkipReview
  <2>1. CASE StartReview
    BY <2>1 DEF StartReview, Rest, TypeOK, GithubOK
  <2>2. CASE SkipReview
    BY <2>2 DEF SkipReview, Rest
  <2> QED
    BY <1>4, <2>1, <2>2
<1>5. CASE Review
  <2>1. CASE FindHead
    BY <2>1 DEF FindHead
  <2>2. CASE FindHeadMoved
    BY <2>2 DEF FindHeadMoved, EndReview
  <2>3. CASE Approve
    BY <2>3 DEF Approve, EndReview
  <2>4. CASE Reject
    BY <2>4 DEF Reject
  <2>5. CASE ReviewMoves
    BY <2>5 DEF ReviewMoves, EndReview
  <2> QED
    BY <1>5, <2>1, <2>2, <2>3, <2>4, <2>5 DEF Review
<1>6. CASE Failures
  <2>1. CASE ReadFails
    BY <2>1 DEF ReadFails, Fault, Rest
  <2>2. CASE MoveFails
    BY <2>2 DEF MoveFails, Fault, Moved, Release, Rest
  <2>3. CASE RequestLost
    BY <2>3 DEF RequestLost, Fault, NotMerged, Merged, Settling
  <2>4. CASE VerifyFails
    BY <2>4 DEF VerifyFails, Fault, Settling
  <2>5. CASE StartEscalation
    BY <2>5 DEF StartEscalation, Fault, Rest
  <2>6. CASE ReviewFails
    <3>1. checks' = checks \/ (stage = "posting" /\ \E c \in {"green", "red"} :
                                  checks' = [checks EXCEPT ![reviewing] = c])
      BY <2>6 DEF ReviewFails
    <3>2. \A h \in Heads : checks[h] = "green" => checks'[h] = "green"
      BY <3>1 DEF TypeOK, GithubOK
    <3> QED
      BY <2>6, <3>2 DEF ReviewFails, EndReview, TypeOK, StoreOK, ScanOK, DispatchOK, Snapshots
  <2>7. CASE Crash
    BY <2>7 DEF Crash, Rest, EndReview
  <2> QED
    BY <1>6, <2>1, <2>2, <2>3, <2>4, <2>5, <2>6, <2>7 DEF Failures
<1>7. CASE People
  <2>1. CASE HumanMoves
    BY <2>1 DEF HumanMoves, Person
  <2>2. CASE HumanLabels
    BY <2>2 DEF HumanLabels, Person
  <2>3. CASE HumanEndsPull
    BY <2>3 DEF HumanEndsPull, Person
  <2>4. CASE Push
    BY <2>4 DEF Push
  <2> QED
    BY <1>7, <2>1, <2>2, <2>3, <2>4 DEF People
<1>8. CASE UNCHANGED vars
  BY <1>8 DEF vars
<1> QED
  BY <1>1, <1>2, <1>3, <1>4, <1>5, <1>6, <1>7, <1>8 DEF Next, Gate

\* The books say "merged" only of what landed.
LEMMA OutcomeStep == TypeOK /\ Landed /\ OutcomeIsTrue /\ [Next]_vars => OutcomeIsTrue'
<1> SUFFICES ASSUME TypeOK, Landed, OutcomeIsTrue, [Next]_vars PROVE OutcomeIsTrue'
  OBVIOUS
<1> USE DEF OutcomeIsTrue, linear, github, store, dispatch, job, history, bounds
<1>1. CASE Scan
  <2>1. CASE List
    BY <2>1 DEF List
  <2>2. CASE ReadIssue
    BY <2>2 DEF ReadIssue
  <2>3. CASE ReadPull
    BY <2>3 DEF ReadPull
  <2>4. CASE ReadChecks
    BY <2>4 DEF ReadChecks
  <2>5. CASE DecideAct
    BY <2>5 DEF DecideAct, Target
  <2>6. CASE DecideReview
    BY <2>6 DEF DecideReview
  <2>7. CASE DecideNothing
    BY <2>7 DEF DecideNothing, Rest
  <2> QED
    BY <1>1, <2>1, <2>2, <2>3, <2>4, <2>5, <2>6, <2>7 DEF Scan
<1>2. CASE Moving
  <2>1. CASE Forget
    BY <2>1 DEF Forget, Release, Rest
  <2>2. CASE Park
    BY <2>2 DEF Park, Target
  <2>3. CASE Guard
    BY <2>3 DEF Guard, Moved, Release, Rest
  <2>4. CASE Write
    BY <2>4 DEF Write, Moved, Release, Rest
  <2> QED
    BY <1>2, <2>1, <2>2, <2>3, <2>4 DEF Moving
<1>3. CASE Merging
  <2>1. CASE Claim
    BY <2>1 DEF Claim
  <2>2. CASE FinalCleanup
    BY <2>2 DEF FinalCleanup
  <2>3. CASE FinalRefuses
    BY <2>3 DEF FinalRefuses, Settling
  <2>4. CASE Request
    BY <2>4 DEF Request, Merged
  <2>5. CASE RequestRefused
    BY <2>5 DEF RequestRefused
  <2>6. CASE RecordFailed
    BY <2>6 DEF RecordFailed, Settling
  <2>7. CASE Verify
    BY <2>7 DEF Verify
  <2>8. CASE RecordMerged
    BY <2>8 DEF RecordMerged, Landed, TypeOK, StoreOK, GithubOK
  <2>9. CASE ShedRecord
    BY <2>9 DEF ShedRecord
  <2>10. CASE Settle
    BY <2>10 DEF Settle, Release, Rest, Landed
  <2> QED
    BY <1>3, <2>1, <2>2, <2>3, <2>4, <2>5, <2>6, <2>7, <2>8, <2>9, <2>10 DEF Merging
<1>4. CASE StartReview \/ SkipReview
  <2>1. CASE StartReview
    BY <2>1 DEF StartReview, Rest
  <2>2. CASE SkipReview
    BY <2>2 DEF SkipReview, Rest
  <2> QED
    BY <1>4, <2>1, <2>2
<1>5. CASE Review
  <2>1. CASE FindHead
    BY <2>1 DEF FindHead
  <2>2. CASE FindHeadMoved
    BY <2>2 DEF FindHeadMoved, EndReview
  <2>3. CASE Approve
    BY <2>3 DEF Approve, EndReview
  <2>4. CASE Reject
    BY <2>4 DEF Reject
  <2>5. CASE ReviewMoves
    BY <2>5 DEF ReviewMoves, EndReview
  <2> QED
    BY <1>5, <2>1, <2>2, <2>3, <2>4, <2>5 DEF Review
<1>6. CASE Failures
  <2>1. CASE ReadFails
    BY <2>1 DEF ReadFails, Fault, Rest
  <2>2. CASE MoveFails
    BY <2>2 DEF MoveFails, Fault, Moved, Release, Rest
  <2>3. CASE RequestLost
    BY <2>3 DEF RequestLost, Fault, NotMerged, Merged, Settling
  <2>4. CASE VerifyFails
    BY <2>4 DEF VerifyFails, Fault, Settling
  <2>5. CASE StartEscalation
    BY <2>5 DEF StartEscalation, Fault, Rest
  <2>6. CASE ReviewFails
    BY <2>6 DEF ReviewFails, Fault, EndReview
  <2>7. CASE Crash
    BY <2>7 DEF Crash, Rest, EndReview
  <2> QED
    BY <1>6, <2>1, <2>2, <2>3, <2>4, <2>5, <2>6, <2>7 DEF Failures
<1>7. CASE People
  <2>1. CASE HumanMoves
    BY <2>1 DEF HumanMoves, Person
  <2>2. CASE HumanLabels
    BY <2>2 DEF HumanLabels, Person
  <2>3. CASE HumanEndsPull
    BY <2>3 DEF HumanEndsPull, Person
  <2>4. CASE Push
    BY <2>4 DEF Push
  <2> QED
    BY <1>7, <2>1, <2>2, <2>3, <2>4 DEF People
<1>8. CASE UNCHANGED vars
  BY <1>8 DEF vars
<1> QED
  BY <1>1, <1>2, <1>3, <1>4, <1>5, <1>6, <1>7, <1>8 DEF Next, Gate

\* The key of the issue has one holder, and the holder lets go of it.
LEMMA KeyedStep == TypeOK /\ Keyed /\ [Next]_vars => Keyed'
<1> SUFFICES ASSUME TypeOK, Keyed, [Next]_vars PROVE Keyed'
  OBVIOUS
<1> USE DEF Keyed, AtDispatch, TypeOK, ScanOK, JobOK, linear, github, store, dispatch, job, history, bounds
<1>1. CASE Scan
  <2>1. CASE List
    BY <2>1 DEF List
  <2>2. CASE ReadIssue
    BY <2>2 DEF ReadIssue
  <2>3. CASE ReadPull
    BY <2>3 DEF ReadPull, TypeOK, ScanOK, Snapshots
  <2>4. CASE ReadChecks
    BY <2>4 DEF ReadChecks
  <2>5. CASE DecideAct
    BY <2>5 DEF DecideAct, Forgets, Dead, TypeOK, ScanOK
  <2>6. CASE DecideReview
    BY <2>6 DEF DecideReview
  <2>7. CASE DecideNothing
    BY <2>7 DEF DecideNothing, Rest
  <2> QED
    BY <1>1, <2>1, <2>2, <2>3, <2>4, <2>5, <2>6, <2>7 DEF Scan
<1>2. CASE Moving
  <2>1. CASE Forget
    BY <2>1 DEF Forget, Release, Rest
  <2>2. CASE Park
    BY <2>2 DEF Park, TypeOK, DispatchOK
  <2>3. CASE Guard
    BY <2>3 DEF Guard, Moved, Release, Rest
  <2>4. CASE Write
    BY <2>4 DEF Write, Moved, Release, Rest
  <2> QED
    BY <1>2, <2>1, <2>2, <2>3, <2>4 DEF Moving
<1>3. CASE Merging
  <2>1. CASE Claim
    BY <2>1 DEF Claim
  <2>2. CASE FinalCleanup
    BY <2>2 DEF FinalCleanup
  <2>3. CASE FinalRefuses
    BY <2>3 DEF FinalRefuses, Settling
  <2>4. CASE Request
    BY <2>4 DEF Request, Merged
  <2>5. CASE RequestRefused
    BY <2>5 DEF RequestRefused
  <2>6. CASE RecordFailed
    BY <2>6 DEF RecordFailed, Settling
  <2>7. CASE Verify
    BY <2>7 DEF Verify
  <2>8. CASE RecordMerged
    BY <2>8 DEF RecordMerged
  <2>9. CASE ShedRecord
    BY <2>9 DEF ShedRecord
  <2>10. CASE Settle
    BY <2>10 DEF Settle, Release, Rest
  <2> QED
    BY <1>3, <2>1, <2>2, <2>3, <2>4, <2>5, <2>6, <2>7, <2>8, <2>9, <2>10 DEF Merging
<1>4. CASE StartReview \/ SkipReview
  <2>1. CASE StartReview
    BY <2>1 DEF StartReview, Rest
  <2>2. CASE SkipReview
    BY <2>2 DEF SkipReview, Rest
  <2> QED
    BY <1>4, <2>1, <2>2
<1>5. CASE Review
  <2>1. CASE FindHead
    BY <2>1 DEF FindHead
  <2>2. CASE FindHeadMoved
    BY <2>2 DEF FindHeadMoved, EndReview
  <2>3. CASE Approve
    BY <2>3 DEF Approve, EndReview
  <2>4. CASE Reject
    BY <2>4 DEF Reject
  <2>5. CASE ReviewMoves
    BY <2>5 DEF ReviewMoves, EndReview
  <2> QED
    BY <1>5, <2>1, <2>2, <2>3, <2>4, <2>5 DEF Review
<1>6. CASE Failures
  <2>1. CASE ReadFails
    BY <2>1 DEF ReadFails, Fault, Rest
  <2>2. CASE MoveFails
    BY <2>2 DEF MoveFails, Fault, Moved, Release, Rest
  <2>3. CASE RequestLost
    BY <2>3 DEF RequestLost, Fault, NotMerged, Merged, Settling
  <2>4. CASE VerifyFails
    BY <2>4 DEF VerifyFails, Fault, Settling
  <2>5. CASE StartEscalation
    BY <2>5 DEF StartEscalation, Fault, Rest
  <2>6. CASE ReviewFails
    BY <2>6 DEF ReviewFails, Fault, EndReview
  <2>7. CASE Crash
    BY <2>7 DEF Crash, Rest, EndReview
  <2> QED
    BY <1>6, <2>1, <2>2, <2>3, <2>4, <2>5, <2>6, <2>7 DEF Failures
<1>7. CASE People
  <2>1. CASE HumanMoves
    BY <2>1 DEF HumanMoves, Person
  <2>2. CASE HumanLabels
    BY <2>2 DEF HumanLabels, Person
  <2>3. CASE HumanEndsPull
    BY <2>3 DEF HumanEndsPull, Person
  <2>4. CASE Push
    BY <2>4 DEF Push
  <2> QED
    BY <1>7, <2>1, <2>2, <2>3, <2>4 DEF People
<1>8. CASE UNCHANGED vars
  BY <1>8 DEF vars
<1> QED
  BY <1>1, <1>2, <1>3, <1>4, <1>5, <1>6, <1>7, <1>8 DEF Next, Gate

\* Reviews and records are of heads the branch has had.
LEMMA FollowedStep == TypeOK /\ Keyed /\ Reviewed /\ Followed /\ [Next]_vars => Followed'
<1> SUFFICES ASSUME TypeOK, Keyed, Reviewed, Followed, [Next]_vars PROVE Followed'
  OBVIOUS
<1>0. /\ head \in Nat /\ reviewing \in Nat /\ record \in Nat
       /\ seen.record \in Nat /\ seen.head \in Nat /\ first.head \in Nat
       /\ \A h \in Heads : h \in Nat
  BY HeadsAssumption DEF Heads, None, TypeOK, GithubOK, StoreOK, JobOK, ScanOK, DispatchOK, Snapshots
<1> USE Sentinels, <1>0 DEF Followed, Reviewed, Unread, None, TypeOK, GithubOK, linear, github, store, dispatch, job, history, bounds
<1>1. CASE Scan
  <2>1. CASE List
    BY <2>1 DEF List
  <2>2. CASE ReadIssue
    BY <2>2 DEF ReadIssue
  <2>3. CASE ReadPull
    BY <2>3 DEF ReadPull, TypeOK, ScanOK, Snapshots
  <2>4. CASE ReadChecks
    BY <2>4 DEF ReadChecks
  <2>5. CASE DecideAct
    BY <2>5 DEF DecideAct, Forgets, Dead, TypeOK, ScanOK
  <2>6. CASE DecideReview
    BY <2>6 DEF DecideReview
  <2>7. CASE DecideNothing
    BY <2>7 DEF DecideNothing, Rest
  <2> QED
    BY <1>1, <2>1, <2>2, <2>3, <2>4, <2>5, <2>6, <2>7 DEF Scan
<1>2. CASE Moving
  <2>1. CASE Forget
    BY <2>1 DEF Forget, Release, Rest
  <2>2. CASE Park
    BY <2>2 DEF Park, TypeOK, DispatchOK
  <2>3. CASE Guard
    BY <2>3 DEF Guard, Moved, Release, Rest
  <2>4. CASE Write
    BY <2>4 DEF Write, Moved, Release, Rest
  <2> QED
    BY <1>2, <2>1, <2>2, <2>3, <2>4 DEF Moving
<1>3. CASE Merging
  <2>1. CASE Claim
    BY <2>1 DEF Claim
  <2>2. CASE FinalCleanup
    BY <2>2 DEF FinalCleanup
  <2>3. CASE FinalRefuses
    BY <2>3 DEF FinalRefuses, Settling
  <2>4. CASE Request
    BY <2>4 DEF Request, Merged
  <2>5. CASE RequestRefused
    BY <2>5 DEF RequestRefused
  <2>6. CASE RecordFailed
    BY <2>6 DEF RecordFailed, Settling
  <2>7. CASE Verify
    BY <2>7 DEF Verify
  <2>8. CASE RecordMerged
    BY <2>8 DEF RecordMerged
  <2>9. CASE ShedRecord

    BY <2>9, 0 <= head DEF ShedRecord
  <2>10. CASE Settle
    BY <2>10 DEF Settle, Release, Rest
  <2> QED
    BY <1>3, <2>1, <2>2, <2>3, <2>4, <2>5, <2>6, <2>7, <2>8, <2>9, <2>10 DEF Merging
<1>4. CASE StartReview \/ SkipReview
  <2>1. CASE StartReview
    BY <2>1 DEF StartReview, Rest
  <2>2. CASE SkipReview
    BY <2>2 DEF SkipReview, Rest
  <2> QED
    BY <1>4, <2>1, <2>2
<1>5. CASE Review
  <2>1. CASE FindHead
    BY <2>1 DEF FindHead
  <2>2. CASE FindHeadMoved
    BY <2>2 DEF FindHeadMoved, EndReview
  <2>3. CASE Approve
    BY <2>3 DEF Approve, EndReview
  <2>4. CASE Reject
    BY <2>4 DEF Reject
  <2>5. CASE ReviewMoves
    BY <2>5 DEF ReviewMoves, EndReview
  <2> QED
    BY <1>5, <2>1, <2>2, <2>3, <2>4, <2>5 DEF Review
<1>6. CASE Failures
  <2>1. CASE ReadFails
    BY <2>1 DEF ReadFails, Fault, Rest
  <2>2. CASE MoveFails
    BY <2>2 DEF MoveFails, Fault, Moved, Release, Rest
  <2>3. CASE RequestLost
    BY <2>3 DEF RequestLost, Fault, NotMerged, Merged, Settling
  <2>4. CASE VerifyFails
    BY <2>4 DEF VerifyFails, Fault, Settling
  <2>5. CASE StartEscalation
    BY <2>5 DEF StartEscalation, Fault, Rest
  <2>6. CASE ReviewFails

    <3>1. stage # "posting" => checks' = checks
      BY <2>6 DEF ReviewFails
    <3>2. \A h \in Heads : h # reviewing => checks'[h] = checks[h]
      BY <2>6 DEF ReviewFails, TypeOK, GithubOK
    <3>3. UNCHANGED <<head, record, pc, seen, first>> /\ reviewing' = None
      BY <2>6 DEF ReviewFails, EndReview
    <3>4. 0 <= head
      OBVIOUS
    <3> HIDE DEF linear, github, store, dispatch, job, history, bounds
    <3> QED
      BY <3>1, <3>2, <3>3, <3>4
  <2>7. CASE Crash
    BY <2>7 DEF Crash, Rest, EndReview
  <2> QED
    BY <1>6, <2>1, <2>2, <2>3, <2>4, <2>5, <2>6, <2>7 DEF Failures
<1>7. CASE People
  <2>1. CASE HumanMoves
    BY <2>1 DEF HumanMoves, Person
  <2>2. CASE HumanLabels
    BY <2>2 DEF HumanLabels, Person
  <2>3. CASE HumanEndsPull
    BY <2>3 DEF HumanEndsPull, Person
  <2>4. CASE Push

    <3>1. head' = head + 1 /\ UNCHANGED <<checks, record, reviewing, pc, seen, first>>
      BY <2>4 DEF Push
    <3>2. \A n \in Nat : n <= head => n <= head + 1
      OBVIOUS
    <3> HIDE DEF linear, github, store, dispatch, job, history, bounds
    <3> QED
      BY <3>1, <3>2
  <2> QED
    BY <1>7, <2>1, <2>2, <2>3, <2>4 DEF People
<1>8. CASE UNCHANGED vars
  BY <1>8 DEF vars
<1> QED
  BY <1>1, <1>2, <1>3, <1>4, <1>5, <1>6, <1>7, <1>8 DEF Next, Gate

\* What the gate read says whom a person accepted until it acts on it.
LEMMA ConsentedStep == IInv /\ [Next]_vars => Consented'
<1> SUFFICES ASSUME IInv, [Next]_vars PROVE Consented'
  OBVIOUS
<1> USE Sentinels DEF IInv, Keyed, AtDispatch, Followed, Consented, DoneAccepts, Unseen, Reviewed, Landed, Green, AtParkedHead, linear, github, store, dispatch, job, history, bounds
<1>1. CASE Scan
  <2>1. CASE List
    BY <2>1 DEF List
  <2>2. CASE ReadIssue

    <3>1. /\ pc' = "pr" /\ seen'.role = status /\ seen'.label = label /\ seen'.record = record
          /\ UNCHANGED <<linear, github, store, inFlight, dispatch, job, history, bounds>>
      BY <2>2 DEF ReadIssue, TypeOK, ScanOK, Snapshots
    <3>2. record = head => record # None
      BY DEF TypeOK, GithubOK
    <3> QED
      BY <3>1, <3>2
  <2>3. CASE ReadPull
    BY <2>3 DEF ReadPull, TypeOK, ScanOK, Snapshots
  <2>4. CASE ReadChecks
    BY <2>4 DEF ReadChecks
  <2>5. CASE DecideAct

    <3>1. /\ pc = "decide" /\ first' = seen
          /\ pc' = "park" => seen.role = "in_review" /\ Green(seen)
          /\ pc' \notin {"pr", "checks", "decide", "merge"}
          /\ UNCHANGED <<linear, github, store, seen, job, history, bounds>>
      BY <2>5 DEF DecideAct, Parks
    <3> QED
      BY <3>1
  <2>6. CASE DecideReview
    BY <2>6 DEF DecideReview
  <2>7. CASE DecideNothing
    BY <2>7 DEF DecideNothing, Rest
  <2> QED
    BY <1>1, <2>1, <2>2, <2>3, <2>4, <2>5, <2>6, <2>7 DEF Scan
<1>2. CASE Moving
  <2>1. CASE Forget
    BY <2>1 DEF Forget, Release, Rest
  <2>2. CASE Park
    BY <2>2 DEF Park, TypeOK, DispatchOK
  <2>3. CASE Guard
    BY <2>3 DEF Guard, Moved, Release, Rest
  <2>4. CASE Write
    BY <2>4 DEF Write, Moved, Release, Rest
  <2> QED
    BY <1>2, <2>1, <2>2, <2>3, <2>4 DEF Moving
<1>3. CASE Merging
  <2>1. CASE Claim
    BY <2>1 DEF Claim
  <2>2. CASE FinalCleanup
    BY <2>2 DEF FinalCleanup
  <2>3. CASE FinalRefuses
    BY <2>3 DEF FinalRefuses, Settling
  <2>4. CASE Request

    <3>1. /\ pc = "merge" /\ Merges(seen) /\ pr = "open" /\ head = seen.head
          /\ pr' = "merged" /\ pc' = "verify"
          /\ UNCHANGED <<head, checks, accepted, linear, store, inFlight, seen, dispatch, job, bounds>>
      BY <2>4 DEF Request, Merged
    <3>2. Green(seen) /\ (~seen.label \/ (seen.role = "done" /\ seen.pr = "open" /\ AtParkedHead(seen)))
      BY <3>1 DEF Merges
    <3>3. checks[head] = "green" /\ head \in accepted
      BY <3>1, <3>2
    <3> QED
      BY <3>1, <3>3
  <2>5. CASE RequestRefused
    BY <2>5 DEF RequestRefused
  <2>6. CASE RecordFailed
    BY <2>6 DEF RecordFailed, Settling
  <2>7. CASE Verify
    BY <2>7 DEF Verify
  <2>8. CASE RecordMerged
    BY <2>8 DEF RecordMerged
  <2>9. CASE ShedRecord
    BY <2>9 DEF ShedRecord
  <2>10. CASE Settle
    BY <2>10 DEF Settle, Release, Rest
  <2> QED
    BY <1>3, <2>1, <2>2, <2>3, <2>4, <2>5, <2>6, <2>7, <2>8, <2>9, <2>10 DEF Merging
<1>4. CASE StartReview \/ SkipReview
  <2>1. CASE StartReview
    BY <2>1 DEF StartReview, Rest
  <2>2. CASE SkipReview
    BY <2>2 DEF SkipReview, Rest
  <2> QED
    BY <1>4, <2>1, <2>2
<1>5. CASE Review
  <2>1. CASE FindHead
    BY <2>1 DEF FindHead
  <2>2. CASE FindHeadMoved

    <3>1. /\ stage = "thinking" /\ reviewing' = None /\ inFlight' = "none"
          /\ UNCHANGED <<linear, github, store, pc, seen, dispatch, history, bounds>>
      BY <2>2 DEF FindHeadMoved, EndReview
    <3>2. seen.head # None /\ head # None
      BY DEF TypeOK, GithubOK, ScanOK, Snapshots
    <3>3. inFlight = "review" /\ pc # "merge"
      BY <3>1
    <3> QED
      BY <3>1, <3>2, <3>3
  <2>3. CASE Approve

    <3>1. /\ stage = "posting" /\ reviewing' = None /\ inFlight' = "none"
          /\ UNCHANGED <<linear, pr, head, store, pc, seen, dispatch, history, bounds>>
      BY <2>3 DEF Approve, EndReview
    <3>2. seen.head \in Heads /\ seen.head # None /\ head \in Heads /\ head # None
      BY DEF TypeOK, GithubOK, ScanOK, Snapshots
    <3>3. inFlight = "review" /\ pc # "merge" /\ checks[reviewing] = "absent"
      BY <3>1
    <3>4. \A h \in Heads : h # reviewing => checks'[h] = checks[h]
      BY <2>3 DEF Approve, TypeOK, GithubOK
    <3> QED
      BY <3>1, <3>2, <3>3, <3>4
  <2>4. CASE Reject
    BY <2>4 DEF Reject
  <2>5. CASE ReviewMoves
    BY <2>5 DEF ReviewMoves, EndReview
  <2> QED
    BY <1>5, <2>1, <2>2, <2>3, <2>4, <2>5 DEF Review
<1>6. CASE Failures
  <2>1. CASE ReadFails
    BY <2>1 DEF ReadFails, Fault, Rest
  <2>2. CASE MoveFails
    BY <2>2 DEF MoveFails, Fault, Moved, Release, Rest
  <2>3. CASE RequestLost

    <3>1. /\ pc = "merge" /\ Merges(seen) /\ pc' = "settle"
          /\ UNCHANGED <<head, checks, accepted, linear, store, inFlight, seen, job>>
          /\ \/ UNCHANGED <<pr, byGate>>
             \/ pr = "open" /\ head = seen.head /\ pr' = "merged"
      BY <2>3 DEF RequestLost, Merged, NotMerged, Settling
    <3>2. Green(seen) /\ (~seen.label \/ (seen.role = "done" /\ seen.pr = "open" /\ AtParkedHead(seen)))
      BY <3>1 DEF Merges
    <3>3. head = seen.head => checks[head] = "green" /\ head \in accepted
      BY <3>1, <3>2
    <3> QED
      BY <3>1, <3>3
  <2>4. CASE VerifyFails
    BY <2>4 DEF VerifyFails, Fault, Settling
  <2>5. CASE StartEscalation
    BY <2>5 DEF StartEscalation, Fault, Rest
  <2>6. CASE ReviewFails

    <3>1. /\ stage # "none" /\ reviewing' = None /\ inFlight' = "none"
          /\ status' # status => status' # "done"
          /\ UNCHANGED <<label, pr, head, store, pc, seen, dispatch, history>>
      BY <2>6 DEF ReviewFails, EndReview
    <3>2. seen.head \in Heads /\ seen.head # None /\ head \in Heads /\ head # None
      BY DEF TypeOK, GithubOK, ScanOK, Snapshots
    <3>3. inFlight = "review" /\ pc # "merge"
      BY <3>1
    <3>4. \A h \in Heads : h # reviewing => checks'[h] = checks[h]
      BY <2>6 DEF ReviewFails, TypeOK, GithubOK
    <3>5. checks' = checks \/ checks[reviewing] = "absent"
      BY <2>6 DEF ReviewFails
    <3>6. byGate => checks'[head] = "green"
      BY <3>2, <3>4, <3>5
    <3> QED
      BY <3>1, <3>2, <3>3, <3>4, <3>6
  <2>7. CASE Crash
    BY <2>7 DEF Crash, Rest, EndReview
  <2> QED
    BY <1>6, <2>1, <2>2, <2>3, <2>4, <2>5, <2>6, <2>7 DEF Failures
<1>7. CASE People
  <2>1. CASE HumanMoves
    BY <2>1 DEF HumanMoves, Person
  <2>2. CASE HumanLabels
    BY <2>2 DEF HumanLabels, Person
  <2>3. CASE HumanEndsPull
    BY <2>3 DEF HumanEndsPull, Person
  <2>4. CASE Push

    <3>1. /\ pr = "open" /\ head' = head + 1 /\ head + 1 \in Heads
          /\ accepted \subseteq accepted' /\ (~label => head + 1 \in accepted')
          /\ UNCHANGED <<label, status, pr, checks, record, reviewing, pc, seen, first, inFlight, byGate>>
      BY <2>4, HeadsAssumption DEF Push, Heads, TypeOK, GithubOK
    <3>2. head \in Nat /\ \A n \in Nat : n <= head => n # head + 1
      BY HeadsAssumption DEF Heads, TypeOK, GithubOK
    <3>3. checks[head + 1] = "absent" /\ reviewing # head + 1 /\ record # head + 1
      BY <3>1, <3>2, HeadsAssumption DEF Heads, None, TypeOK, StoreOK, JobOK, GithubOK, CheckStates
    <3>4. /\ pc \in {"pr", "checks", "decide", "merge"} => seen.record # head + 1
          /\ pc \in {"checks", "decide", "merge"} => seen.head # head + 1
          /\ pc = "park" => first.head # head + 1
      BY <3>2, HeadsAssumption DEF Heads, None, TypeOK, ScanOK, DispatchOK, Snapshots
    <3>5. ~byGate
      BY <3>1
    <3> HIDE DEF linear, github, store, dispatch, job, history, bounds, Followed, Landed, Reviewed, Keyed
    <3> QED
      BY <3>1, <3>3, <3>4, <3>5
  <2> QED
    BY <1>7, <2>1, <2>2, <2>3, <2>4 DEF People
<1>8. CASE UNCHANGED vars
  BY <1>8 DEF vars
<1> QED
  BY <1>1, <1>2, <1>3, <1>4, <1>5, <1>6, <1>7, <1>8 DEF Next, Gate

\* The state a gateway starts from.
LEMMA Initially == Init => IInv
<1> SUFFICES ASSUME Init PROVE IInv
  OBVIOUS
<1>1. TypeOK
  <2>1. LinearOK /\ GithubOK /\ StoreOK
    BY Sentinels DEF Init, LinearOK, GithubOK, StoreOK, Roles, CheckStates, PrStates
  <2>2. ScanOK
    BY Sentinels DEF Init, ScanOK, Points
  <2>3. DispatchOK
    BY Sentinels DEF Init, DispatchOK
  <2>4. JobOK
    BY Sentinels DEF Init, JobOK
  <2>5. HistoryOK
    <3>1. {h \in {1} : ~label} \subseteq Heads
      BY Sentinels
    <3> QED
      BY <3>1 DEF Init, HistoryOK
  <2>6. BoundsOK
    BY BoundsAssumption DEF Init, BoundsOK
  <2> QED
    BY <2>1, <2>2, <2>3, <2>4, <2>5, <2>6 DEF TypeOK
<1>2. Aimed /\ Landed /\ Reviewed /\ OutcomeIsTrue
  BY Sentinels DEF Init, Aimed, Landed, Reviewed, OutcomeIsTrue, Green, Unread
<1>3. Keyed /\ Followed
  BY Sentinels, HeadsAssumption DEF Init, Keyed, AtDispatch, Followed, None
<1>4. Consented
  BY Sentinels DEF Init, Consented, DoneAccepts, None
<1> QED
  BY <1>1, <1>2, <1>3, <1>4 DEF IInv

\* The invariant of the gate: what it read of a pull request that landed or was
\* reviewed is still true whenever it acts on it, whoever acted in between.
THEOREM Invariant == Spec => []IInv
<1>1. IInv /\ [Next]_vars => IInv'
  BY Typing, AimedStep, LandedStep, ReviewedStep, OutcomeStep, KeyedStep, FollowedStep, ConsentedStep DEF IInv
<1> QED
  BY Initially, <1>1, PTL DEF Spec

\* The state of the gate keeps its shape.
THEOREM TypeCorrect == Spec => []TypeOK
<1>1. IInv => TypeOK
  BY DEF IInv
<1> QED
  BY Invariant, <1>1, PTL

\* recordMergeOutcome and completeWake tell the truth: an outcome "merged" and a
\* completed run are only ever of the head that landed.
THEOREM OutcomesAreTrue == Spec => []OutcomeIsTrue
<1>1. IInv => OutcomeIsTrue
  BY DEF IInv
<1> QED
  BY Invariant, <1>1, PTL

\* merge_pr: a merge of the gate is of a head that passed review and that a
\* person accepted, whatever people and reviews do between its requests.
THEOREM MergesAccepted == Spec => []GateMergesAccepted
<1>1. IInv => GateMergesAccepted
  BY DEF IInv, Consented, GateMergesAccepted
<1> QED
  BY Invariant, <1>1, PTL

\* The gateway moves an issue to Done only when its pull request has landed: the goal
\* "done" is set after the merge, and no other move of the gateway goes there.
LEMMA DoneStep == TypeOK /\ Landed /\ [Next]_vars =>
    (ByGateway /\ status # "done" /\ status' = "done" => pr = "merged")
<1> SUFFICES ASSUME TypeOK, Landed, [Next]_vars
    PROVE (ByGateway /\ status # "done" /\ status' = "done" => pr = "merged")
  OBVIOUS
<1> USE DEF ByGateway, Landed, linear, github, store, dispatch, job, history, bounds
<1>1. CASE Scan
  <2>1. CASE List
    BY <2>1 DEF List
  <2>2. CASE ReadIssue
    BY <2>2 DEF ReadIssue
  <2>3. CASE ReadPull
    BY <2>3 DEF ReadPull
  <2>4. CASE ReadChecks
    BY <2>4 DEF ReadChecks
  <2>5. CASE DecideAct
    BY <2>5 DEF DecideAct
  <2>6. CASE DecideReview
    BY <2>6 DEF DecideReview
  <2>7. CASE DecideNothing
    BY <2>7 DEF DecideNothing
  <2> QED
    BY <1>1, <2>1, <2>2, <2>3, <2>4, <2>5, <2>6, <2>7 DEF Scan
<1>2. CASE Moving
  <2>1. CASE Forget
    BY <2>1 DEF Forget
  <2>2. CASE Park
    BY <2>2 DEF Park
  <2>3. CASE Guard
    BY <2>3 DEF Guard
  <2>4. CASE Write
    BY <2>4 DEF Write
  <2> QED
    BY <1>2, <2>1, <2>2, <2>3, <2>4 DEF Moving
<1>3. CASE Merging
  <2>1. CASE Claim
    BY <2>1 DEF Claim
  <2>2. CASE FinalCleanup
    BY <2>2 DEF FinalCleanup
  <2>3. CASE FinalRefuses
    BY <2>3 DEF FinalRefuses
  <2>4. CASE Request
    BY <2>4 DEF Request
  <2>5. CASE RequestRefused
    BY <2>5 DEF RequestRefused
  <2>6. CASE RecordFailed
    BY <2>6 DEF RecordFailed
  <2>7. CASE Verify
    BY <2>7 DEF Verify
  <2>8. CASE RecordMerged
    BY <2>8 DEF RecordMerged
  <2>9. CASE ShedRecord
    BY <2>9 DEF ShedRecord
  <2>10. CASE Settle
    BY <2>10 DEF Settle
  <2> QED
    BY <1>3, <2>1, <2>2, <2>3, <2>4, <2>5, <2>6, <2>7, <2>8, <2>9, <2>10 DEF Merging
<1>4. CASE StartReview \/ SkipReview
  <2>1. CASE StartReview
    BY <2>1 DEF StartReview
  <2>2. CASE SkipReview
    BY <2>2 DEF SkipReview
  <2> QED
    BY <1>4, <2>1, <2>2
<1>5. CASE Review
  <2>1. CASE FindHead
    BY <2>1 DEF FindHead
  <2>2. CASE FindHeadMoved
    BY <2>2 DEF FindHeadMoved
  <2>3. CASE Approve
    BY <2>3 DEF Approve
  <2>4. CASE Reject
    BY <2>4 DEF Reject
  <2>5. CASE ReviewMoves
    BY <2>5 DEF ReviewMoves
  <2> QED
    BY <1>5, <2>1, <2>2, <2>3, <2>4, <2>5 DEF Review
<1>6. CASE Failures
  <2>1. CASE ReadFails
    BY <2>1 DEF ReadFails, Fault
  <2>2. CASE MoveFails
    BY <2>2 DEF MoveFails, Fault
  <2>3. CASE RequestLost
    BY <2>3 DEF RequestLost, Fault
  <2>4. CASE VerifyFails
    BY <2>4 DEF VerifyFails, Fault
  <2>5. CASE StartEscalation
    BY <2>5 DEF StartEscalation, Fault
  <2>6. CASE ReviewFails
    BY <2>6 DEF ReviewFails, Fault
  <2>7. CASE Crash
    BY <2>7 DEF Crash
  <2> QED
    BY <1>6, <2>1, <2>2, <2>3, <2>4, <2>5, <2>6, <2>7 DEF Failures
<1>7. CASE People
  <2>1. CASE HumanMoves
    BY <2>1, BoundsAssumption DEF HumanMoves, Person, TypeOK, BoundsOK
  <2>2. CASE HumanLabels
    BY <2>2 DEF HumanLabels, Person
  <2>3. CASE HumanEndsPull
    BY <2>3 DEF HumanEndsPull, Person
  <2>4. CASE Push
    BY <2>4 DEF Push
  <2> QED
    BY <1>7, <2>1, <2>2, <2>3, <2>4 DEF People
<1>8. CASE UNCHANGED vars
  BY <1>8 DEF vars
<1> QED
  BY <1>1, <1>2, <1>3, <1>4, <1>5, <1>6, <1>7, <1>8 DEF Next, Gate

\* issueDoneEffect follows mergePrEffect: whatever people do meanwhile, and
\* however often the gateway dies, it closes no issue whose work has not landed.
THEOREM DoneAfterMerge == Spec => DoneIsMerged
<1>1. IInv /\ [Next]_vars =>
        [ByGateway /\ status # "done" /\ status' = "done" => pr = "merged"]_vars
  BY DoneStep DEF IInv
<1> QED
  BY Invariant, <1>1, PTL DEF Spec, DoneIsMerged

\* The gateway moves an issue to Principal Review only after Park wrote the record.
LEMMA ParkStep == TypeOK /\ Reviewed /\ [Next]_vars =>
    (ByGateway /\ status # "human_review" /\ status' = "human_review" => record # None /\ checks[record] = "green")
<1> SUFFICES ASSUME TypeOK, Reviewed, [Next]_vars
    PROVE (ByGateway /\ status # "human_review" /\ status' = "human_review" => record # None /\ checks[record] = "green")
  OBVIOUS
<1> USE DEF ByGateway, Reviewed, linear, github, store, dispatch, job, history, bounds
<1>1. CASE Scan
  <2>1. CASE List
    BY <2>1 DEF List
  <2>2. CASE ReadIssue
    BY <2>2 DEF ReadIssue
  <2>3. CASE ReadPull
    BY <2>3 DEF ReadPull
  <2>4. CASE ReadChecks
    BY <2>4 DEF ReadChecks
  <2>5. CASE DecideAct
    BY <2>5 DEF DecideAct
  <2>6. CASE DecideReview
    BY <2>6 DEF DecideReview
  <2>7. CASE DecideNothing
    BY <2>7 DEF DecideNothing
  <2> QED
    BY <1>1, <2>1, <2>2, <2>3, <2>4, <2>5, <2>6, <2>7 DEF Scan
<1>2. CASE Moving
  <2>1. CASE Forget
    BY <2>1 DEF Forget
  <2>2. CASE Park
    BY <2>2 DEF Park
  <2>3. CASE Guard
    BY <2>3 DEF Guard
  <2>4. CASE Write
    BY <2>4 DEF Write
  <2> QED
    BY <1>2, <2>1, <2>2, <2>3, <2>4 DEF Moving
<1>3. CASE Merging
  <2>1. CASE Claim
    BY <2>1 DEF Claim
  <2>2. CASE FinalCleanup
    BY <2>2 DEF FinalCleanup
  <2>3. CASE FinalRefuses
    BY <2>3 DEF FinalRefuses
  <2>4. CASE Request
    BY <2>4 DEF Request
  <2>5. CASE RequestRefused
    BY <2>5 DEF RequestRefused
  <2>6. CASE RecordFailed
    BY <2>6 DEF RecordFailed
  <2>7. CASE Verify
    BY <2>7 DEF Verify
  <2>8. CASE RecordMerged
    BY <2>8 DEF RecordMerged
  <2>9. CASE ShedRecord
    BY <2>9 DEF ShedRecord
  <2>10. CASE Settle
    BY <2>10 DEF Settle
  <2> QED
    BY <1>3, <2>1, <2>2, <2>3, <2>4, <2>5, <2>6, <2>7, <2>8, <2>9, <2>10 DEF Merging
<1>4. CASE StartReview \/ SkipReview
  <2>1. CASE StartReview
    BY <2>1 DEF StartReview
  <2>2. CASE SkipReview
    BY <2>2 DEF SkipReview
  <2> QED
    BY <1>4, <2>1, <2>2
<1>5. CASE Review
  <2>1. CASE FindHead
    BY <2>1 DEF FindHead
  <2>2. CASE FindHeadMoved
    BY <2>2 DEF FindHeadMoved
  <2>3. CASE Approve
    BY <2>3 DEF Approve
  <2>4. CASE Reject
    BY <2>4 DEF Reject
  <2>5. CASE ReviewMoves
    BY <2>5 DEF ReviewMoves
  <2> QED
    BY <1>5, <2>1, <2>2, <2>3, <2>4, <2>5 DEF Review
<1>6. CASE Failures
  <2>1. CASE ReadFails
    BY <2>1 DEF ReadFails, Fault
  <2>2. CASE MoveFails
    BY <2>2 DEF MoveFails, Fault
  <2>3. CASE RequestLost
    BY <2>3 DEF RequestLost, Fault
  <2>4. CASE VerifyFails
    BY <2>4 DEF VerifyFails, Fault
  <2>5. CASE StartEscalation
    BY <2>5 DEF StartEscalation, Fault
  <2>6. CASE ReviewFails
    BY <2>6 DEF ReviewFails, Fault
  <2>7. CASE Crash
    BY <2>7 DEF Crash
  <2> QED
    BY <1>6, <2>1, <2>2, <2>3, <2>4, <2>5, <2>6, <2>7 DEF Failures
<1>7. CASE People
  <2>1. CASE HumanMoves
    BY <2>1 DEF HumanMoves, Person, TypeOK, BoundsOK
  <2>2. CASE HumanLabels
    BY <2>2 DEF HumanLabels, Person
  <2>3. CASE HumanEndsPull
    BY <2>3 DEF HumanEndsPull, Person
  <2>4. CASE Push
    BY <2>4 DEF Push
  <2> QED
    BY <1>7, <2>1, <2>2, <2>3, <2>4 DEF People
<1>8. CASE UNCHANGED vars
  BY <1>8 DEF vars
<1> QED
  BY <1>1, <1>2, <1>3, <1>4, <1>5, <1>6, <1>7, <1>8 DEF Next, Gate

\* dispatchMergeGateDecision, park: the record is durable before the move, so
\* every issue the gateway put before a person has a reviewed head on record.
THEOREM ParkIsRecorded == Spec => ParkedIsRecorded
<1>1. IInv /\ [Next]_vars =>
        [ByGateway /\ status # "human_review" /\ status' = "human_review" => record # None /\ checks[record] = "green"]_vars
  BY ParkStep DEF IInv
<1> QED
  BY Invariant, <1>1, PTL DEF Spec, ParkedIsRecorded

\* Only the cleanup rows and a finished merge delete the record.
LEMMA RecordStep == TypeOK /\ Landed /\ [Next]_vars =>
    (record # None /\ record' = None => pr # "open")
<1> SUFFICES ASSUME TypeOK, Landed, [Next]_vars
    PROVE (record # None /\ record' = None => pr # "open")
  OBVIOUS
<1> USE Sentinels DEF Landed, linear, github, store, dispatch, job, history, bounds
<1>1. CASE Scan
  <2>1. CASE List
    BY <2>1 DEF List
  <2>2. CASE ReadIssue
    BY <2>2 DEF ReadIssue
  <2>3. CASE ReadPull
    BY <2>3 DEF ReadPull
  <2>4. CASE ReadChecks
    BY <2>4 DEF ReadChecks
  <2>5. CASE DecideAct
    BY <2>5 DEF DecideAct
  <2>6. CASE DecideReview
    BY <2>6 DEF DecideReview
  <2>7. CASE DecideNothing
    BY <2>7 DEF DecideNothing
  <2> QED
    BY <1>1, <2>1, <2>2, <2>3, <2>4, <2>5, <2>6, <2>7 DEF Scan
<1>2. CASE Moving
  <2>1. CASE Forget
    BY <2>1 DEF Forget
  <2>2. CASE Park
    BY <2>2 DEF Park, TypeOK, DispatchOK, Snapshots
  <2>3. CASE Guard
    BY <2>3 DEF Guard
  <2>4. CASE Write
    BY <2>4 DEF Write
  <2> QED
    BY <1>2, <2>1, <2>2, <2>3, <2>4 DEF Moving
<1>3. CASE Merging
  <2>1. CASE Claim
    BY <2>1 DEF Claim
  <2>2. CASE FinalCleanup
    BY <2>2 DEF FinalCleanup
  <2>3. CASE FinalRefuses
    BY <2>3 DEF FinalRefuses
  <2>4. CASE Request
    BY <2>4 DEF Request
  <2>5. CASE RequestRefused
    BY <2>5 DEF RequestRefused
  <2>6. CASE RecordFailed
    BY <2>6 DEF RecordFailed
  <2>7. CASE Verify
    BY <2>7 DEF Verify
  <2>8. CASE RecordMerged
    BY <2>8 DEF RecordMerged
  <2>9. CASE ShedRecord
    BY <2>9 DEF ShedRecord
  <2>10. CASE Settle
    BY <2>10 DEF Settle
  <2> QED
    BY <1>3, <2>1, <2>2, <2>3, <2>4, <2>5, <2>6, <2>7, <2>8, <2>9, <2>10 DEF Merging
<1>4. CASE StartReview \/ SkipReview
  <2>1. CASE StartReview
    BY <2>1 DEF StartReview
  <2>2. CASE SkipReview
    BY <2>2 DEF SkipReview
  <2> QED
    BY <1>4, <2>1, <2>2
<1>5. CASE Review
  <2>1. CASE FindHead
    BY <2>1 DEF FindHead
  <2>2. CASE FindHeadMoved
    BY <2>2 DEF FindHeadMoved
  <2>3. CASE Approve
    BY <2>3 DEF Approve
  <2>4. CASE Reject
    BY <2>4 DEF Reject
  <2>5. CASE ReviewMoves
    BY <2>5 DEF ReviewMoves
  <2> QED
    BY <1>5, <2>1, <2>2, <2>3, <2>4, <2>5 DEF Review
<1>6. CASE Failures
  <2>1. CASE ReadFails
    BY <2>1 DEF ReadFails, Fault
  <2>2. CASE MoveFails
    BY <2>2 DEF MoveFails, Fault
  <2>3. CASE RequestLost
    BY <2>3 DEF RequestLost, Fault
  <2>4. CASE VerifyFails
    BY <2>4 DEF VerifyFails, Fault
  <2>5. CASE StartEscalation
    BY <2>5 DEF StartEscalation, Fault
  <2>6. CASE ReviewFails
    BY <2>6 DEF ReviewFails, Fault
  <2>7. CASE Crash
    BY <2>7 DEF Crash
  <2> QED
    BY <1>6, <2>1, <2>2, <2>3, <2>4, <2>5, <2>6, <2>7 DEF Failures
<1>7. CASE People
  <2>1. CASE HumanMoves
    BY <2>1 DEF HumanMoves, Person
  <2>2. CASE HumanLabels
    BY <2>2 DEF HumanLabels, Person
  <2>3. CASE HumanEndsPull
    BY <2>3 DEF HumanEndsPull, Person
  <2>4. CASE Push
    BY <2>4 DEF Push
  <2> QED
    BY <1>7, <2>1, <2>2, <2>3, <2>4 DEF People
<1>8. CASE UNCHANGED vars
  BY <1>8 DEF vars
<1> QED
  BY <1>1, <1>2, <1>3, <1>4, <1>5, <1>6, <1>7, <1>8 DEF Next, Gate

\* deleteParkRecord: a crash, a drift or a send-back never loses the record of
\* a pull request that is still open.
THEOREM RecordsKept == Spec => RecordKept
<1>1. IInv /\ [Next]_vars =>
        [record # None /\ record' = None => pr # "open"]_vars
  BY RecordStep DEF IInv
<1> QED
  BY Invariant, <1>1, PTL DEF Spec, RecordKept

=============================================================================
