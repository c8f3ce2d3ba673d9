--------------------------- MODULE DurableCommit ---------------------------
(***************************************************************************)
(* What a decomposition commit promises: it is promised before anything    *)
(* changes, by one run and once; each of its changes is made once, in      *)
(* order; it is acknowledged, and the promise is given up, only when all   *)
(* of it is there.  There are no crashes, retries or lost answers here:    *)
(* DecompositionRun, which has them all, implements this specification.    *)
(***************************************************************************)
EXTENDS Naturals

CONSTANTS Runs, Issues, Deps

VARIABLES
    promised,       \* runs with a commit that is to be completed
    issues,         \* how often each issue has been filed
    relations,      \* the relations between them
    updates,        \* how often each run has announced its commit
    acknowledged    \* runs that count as having committed

commit == <<promised, issues, relations, updates, acknowledged>>

Filed == \A i \in Issues : issues[i] > 0
Done(r) == Filed /\ relations = Deps /\ updates[r] > 0

Init ==
    /\ promised = {} /\ acknowledged = {}
    /\ issues = [i \in Issues |-> 0] /\ relations = {} /\ updates = [r \in Runs |-> 0]

\* The first and only promise: nothing is there yet.
Promise(r) ==
    /\ promised = {} /\ acknowledged = {}
    /\ relations = {} /\ updates[r] = 0 /\ \A i \in Issues : issues[i] = 0
    /\ promised' = {r}
    /\ UNCHANGED <<issues, relations, updates, acknowledged>>

File(i) ==
    /\ promised # {} /\ issues[i] = 0
    /\ issues' = [issues EXCEPT ![i] = 1]
    /\ UNCHANGED <<promised, relations, updates, acknowledged>>

Relate(d) ==
    /\ promised # {} /\ Filed
    /\ relations' = relations \cup {d}
    /\ UNCHANGED <<promised, issues, updates, acknowledged>>

Announce(r) ==
    /\ r \in promised /\ Filed /\ relations = Deps /\ updates[r] = 0
    /\ updates' = [updates EXCEPT ![r] = 1]
    /\ UNCHANGED <<promised, issues, relations, acknowledged>>

Acknowledge(r) ==
    /\ r \in promised /\ Done(r)
    /\ acknowledged' = acknowledged \cup {r}
    /\ UNCHANGED <<promised, issues, relations, updates>>

Release(r) ==
    /\ r \in promised /\ Done(r)
    /\ promised' = promised \ {r}
    /\ UNCHANGED <<issues, relations, updates, acknowledged>>

Next ==
    \/ \E r \in Runs : Promise(r) \/ Announce(r) \/ Acknowledge(r) \/ Release(r)
    \/ \E i \in Issues : File(i)
    \/ \E d \in Deps : Relate(d)

Spec == Init /\ [][Next]_commit
=============================================================================
