------------------------ MODULE OrchestratorLoopProofs ------------------------
(***************************************************************************)
(* What the loop of the orchestrator guarantees for any bound of its       *)
(* rounds and any number of runs.                                          *)
(***************************************************************************)
EXTENDS OrchestratorLoop, TLAPS

\* A turn is begun only below the bound, and its subagent has two spawns.
Counted ==
    /\ BoundsHold
    /\ pc \in {"turn", "repair"} => rounds < MaxRounds
    /\ pc = "spawn" => invocations + 2 <= 2 * rounds
    /\ pc = "respawn" => invocations + 1 <= 2 * rounds

\* The cursor is one record behind, and the ids of a run grow.
Chained ==
    /\ cursor = (IF lineage = <<>> THEN 0 ELSE Len(lineage) - 1)
    /\ LineageIsTrue
    /\ pc # "returned" =>
        \A i \in 1..Len(lineage) : lineage[i].ran /\ lineage[i].id[1] <= rounds
    /\ pc \in {"spawn", "respawn"} =>
        \A i \in 1..Len(lineage) : lineage[i].id[1] = rounds => lineage[i].id[2] <= child

\* The sessions in a run are those of the run itself and of the row it resumes.
Stamps ==
    /\ SessionIsOwn
    /\ row.run <= runs
    /\ pc # "idle" => row.run < runs
    /\ pc = "idle" => rounds = 0 /\ warm = 0 /\ handle = 0
    /\ warm # 0 => kind = "warm" /\ pc \in {"head", "returned"} /\ rounds = 0 /\ warm = row.run
    /\ handle \in {0, runs} \/ (kind = "warm" /\ handle = row.run)

IInv == TypeOK /\ Counted /\ Chained /\ Stamps

-----------------------------------------------------------------------------
LEMMA NewIds == \A a, b \in Nat : <<a + 1, 0>> \in Ids /\ <<a, b + 1>> \in Ids
BY DEF Ids

\* What a run leaves has its types.
LEMMA OverType ==
    ASSUME TypeOK, Over
    PROVE  /\ pc' \in Points /\ rounds' \in Nat /\ invocations' \in Nat
           /\ warm' \in Nat /\ using' \in Nat /\ handle' \in Nat
           /\ author' \in Nat /\ child' \in Nat
           /\ lineage' \in Seq(Turns) /\ cursor' \in Nat /\ outcome' = "none"
           /\ runs' \in 0..MaxRuns /\ kind' \in Kinds
           /\ conf' \in [persisted : BOOLEAN, ready : BOOLEAN]
BY DEF TypeOK, Over, start, Points

LEMMA OpenType == TypeOK /\ MayOpen => pr' \in BOOLEAN
<1> SUFFICES ASSUME TypeOK, MayOpen PROVE pr' \in BOOLEAN
  OBVIOUS
<1>1. pr \in BOOLEAN
  BY DEF TypeOK
<1>2. pr' = pr \/ pr' = TRUE
  BY DEF MayOpen
<1> QED
  BY <1>1, <1>2

\* The row of a run that is over.
LEMMA RowType ==
    ASSUME TypeOK
    PROVE  LostRow \in Rows /\ \A a \in BOOLEAN :
            [run |-> runs, handle |-> handle, persisted |-> conf.persisted,
             asked |-> a, kind |-> kind] \in Rows
<1>1. runs \in Nat /\ handle \in Nat /\ conf.persisted \in BOOLEAN /\ kind \in Kinds
  BY BoundAssumption DEF TypeOK
<1> QED
  BY <1>1 DEF Rows, LostRow, NoRow, Kinds

\* A record keeps the lineage a sequence of turns.
LEMMA RecordType ==
    ASSUME TypeOK, NEW id \in Ids, NEW ran \in BOOLEAN, Record(id, ran)
    PROVE  lineage' \in Seq(Turns) /\ cursor' \in Nat
<1>a. lineage \in Seq(Turns) /\ cursor \in Nat /\ Len(lineage) \in Nat
  BY DEF TypeOK
<1>1. \A i \in 1..Len(lineage) : lineage[i].id \in Ids
  <2>1. \A i \in 1..Len(lineage) : lineage[i] \in Turns
    BY <1>a
  <2> QED
    BY <2>1 DEF Turns
<1>2. \A i \in (cursor + 1)..Len(lineage) : i \in 1..Len(lineage)
  BY <1>a
<1> DEFINE took == {lineage[i].id : i \in (cursor + 1)..Len(lineage)}
<1>3. took \subseteq Ids
  BY <1>1, <1>2
<1>4. [id |-> id, ran |-> ran, took |-> took] \in Turns
  <2> HIDE DEF took
  <2> QED
    BY <1>3 DEF Turns
<1>5. lineage' = Append(lineage, [id |-> id, ran |-> ran, took |-> took]) /\ cursor' = Len(lineage)
  BY DEF Record
<1> HIDE DEF took
<1> QED
  BY <1>a, <1>4, <1>5

\* A record of a new id takes in the one before it, and no other.
LEMMA RecordChain ==
    ASSUME TypeOK, Chained, NEW id \in Ids, NEW ran \in BOOLEAN, Record(id, ran),
           \A i \in 1..Len(lineage) : lineage[i].id # id
    PROVE  /\ Len(lineage') = Len(lineage) + 1 /\ lineage' # <<>>
           /\ cursor' = Len(lineage') - 1
           /\ \A i \in 1..Len(lineage) : lineage'[i] = lineage[i]
           /\ lineage'[Len(lineage')].id = id /\ lineage'[Len(lineage')].ran = ran
           /\ \A i, j \in 1..Len(lineage') : lineage'[i].id = lineage'[j].id => i = j
           /\ \A i \in 1..Len(lineage') :
                lineage'[i].took = IF i = 1 THEN {} ELSE {lineage'[i - 1].id}
<1> DEFINE n == Len(lineage)
<1> DEFINE took == {lineage[i].id : i \in (cursor + 1)..n}
<1> DEFINE e == [id |-> id, ran |-> ran, took |-> took]
<1>1. lineage' = Append(lineage, e) /\ cursor' = n
  BY DEF Record
<1>2. lineage \in Seq(Turns) /\ n \in Nat
  BY DEF TypeOK
<1>c. cursor' = n
  BY DEF Record
<1>3. took = IF n = 0 THEN {} ELSE {lineage[n].id}
  <2>1. CASE n = 0
    <3>1. (cursor + 1)..n = {}
      BY <1>2, <2>1 DEF TypeOK
    <3> QED
      BY <3>1, <2>1
  <2>2. CASE n # 0
    <3>1. cursor = n - 1
      BY <1>2, <2>2 DEF Chained
    <3>2. (cursor + 1)..n = {n}
      BY <1>2, <3>1
    <3> HIDE DEF n
    <3>3. took = {lineage[n].id}
      BY <3>2
    <3> QED
      BY <3>3, <2>2
  <2> QED
    BY <2>1, <2>2
<1>4. \A i, j \in 1..n : lineage[i].id = lineage[j].id => i = j
  BY DEF Chained, LineageIsTrue
<1>5. \A i \in 1..n : lineage[i].took = IF i = 1 THEN {} ELSE {lineage[i - 1].id}
  BY DEF Chained, LineageIsTrue
<1> HIDE DEF took
<1>6. /\ Len(lineage') = n + 1 /\ lineage'[n + 1] = e
      /\ \A i \in 1..n : lineage'[i] = lineage[i]
  BY <1>1, <1>2
<1> HIDE DEF n
<1>7. \A i, j \in 1..(n + 1) : lineage'[i].id = lineage'[j].id => i = j
  <2> SUFFICES ASSUME NEW i \in 1..(n + 1), NEW j \in 1..(n + 1), lineage'[i].id = lineage'[j].id
               PROVE  i = j
    OBVIOUS
  <2>1. CASE i = n + 1 /\ j = n + 1
    BY <2>1
  <2>2. CASE i = n + 1 /\ j # n + 1
    BY <2>2, <1>2, <1>6 DEF n
  <2>3. CASE i # n + 1 /\ j = n + 1
    BY <2>3, <1>2, <1>6 DEF n
  <2>4. CASE i # n + 1 /\ j # n + 1
    BY <2>4, <1>2, <1>4, <1>6
  <2> QED
    BY <2>1, <2>2, <2>3, <2>4
<1>8. \A i \in 1..(n + 1) : lineage'[i].took = IF i = 1 THEN {} ELSE {lineage'[i - 1].id}
  <2> SUFFICES ASSUME NEW i \in 1..(n + 1)
               PROVE  lineage'[i].took = IF i = 1 THEN {} ELSE {lineage'[i - 1].id}
    OBVIOUS
  <2>1. CASE i = n + 1 /\ n = 0
    BY <2>1, <1>3, <1>6
  <2>2. CASE i = n + 1 /\ n # 0
    <3>1. lineage'[n] = lineage[n]
      BY <2>2, <1>2, <1>6
    <3>2. i - 1 = n /\ i # 1
      BY <2>2, <1>2
    <3> QED
      BY <2>2, <3>1, <3>2, <1>3, <1>6
  <2>3. CASE i \in 1..n /\ i = 1
    BY <2>3, <1>5, <1>6
  <2>4. CASE i \in 1..n /\ i # 1
    <3>1. i - 1 \in 1..n
      BY <2>4, <1>2
    <3> QED
      BY <2>4, <3>1, <1>5, <1>6
  <2> QED
    BY <2>1, <2>2, <2>3, <2>4, <1>2
<1>d. lineage' # <<>> /\ cursor' = Len(lineage') - 1
  <2>1. Len(lineage') # 0
    BY <1>2, <1>6
  <2>2. Len(<<>>) = 0
    OBVIOUS
  <2> QED
    BY <2>1, <2>2, <1>c, <1>2, <1>6
<1>e. e.id = id /\ e.ran = ran
  OBVIOUS
<1> HIDE DEF e
<1>f. Len(lineage') = n + 1 /\ lineage'[Len(lineage')].id = id /\ lineage'[Len(lineage')].ran = ran
  BY <1>6, <1>e
<1>g. \A i \in 1..n : lineage'[i] = lineage[i]
  BY <1>6
<1> QED
  BY <1>f, <1>g, <1>7, <1>8, <1>d DEF n

\* Every step keeps the types.
LEMMA TypeStep ==
    TypeOK /\ [Next]_vars => TypeOK'
<1> SUFFICES ASSUME TypeOK, [Next]_vars PROVE TypeOK'
  OBVIOUS
<1>1. CASE RunFresh
  BY <1>1, BoundAssumption DEF TypeOK, Points, Rows, Kinds, RunFresh,
    FreshOfTodo, Enter, Resolved, bounds, record
<1>2. CASE ResumeWarm
  BY <1>2, BoundAssumption DEF TypeOK, Points, Rows, Kinds, ResumeWarm,
    MayResume, Resolved, Mismatch, Enter, bounds, record
<1>3. CASE ResumeCold
  BY <1>3, BoundAssumption DEF TypeOK, Points, Rows, Kinds, ResumeCold,
    MayResume, Resolved, Mismatch, Enter, bounds, record
<1>4. CASE Escalate
  BY <1>4, BoundAssumption DEF TypeOK, Points, Rows, Kinds, Escalate, start,
    bounds, session, record
<1>5. CASE SendBack
  BY <1>5, BoundAssumption DEF TypeOK, Points, Rows, Kinds, SendBack, start,
    bounds, session, record
<1>6. CASE BeginTurn
  BY <1>6, BoundAssumption DEF TypeOK, Points, Rows, Kinds, BeginTurn, store,
    start, bounds, record
<1>7. CASE TurnRejected
  BY <1>7, BoundAssumption DEF TypeOK, Points, Rows, Kinds, TurnRejected,
    CanRun, store, start, bounds, record
<1>8. CASE BoundsBreach
  <2>0. <<rounds + 1, 0>> \in Ids
    BY NewIds DEF TypeOK
  <2>1. Record(<<rounds + 1, 0>>, FALSE)
    BY <1>8 DEF BoundsBreach
  <2>2. lineage' \in Seq(Turns) /\ cursor' \in Nat
    BY <2>0, <2>1, RecordType DEF Ids
  <2> QED
    BY <1>8, <2>2, BoundAssumption DEF TypeOK, Points, Rows, Kinds, BoundsBreach,
      Return, store, start, bounds, session
<1>9. CASE WarmUnavailable
  <2>0. <<rounds + 1, 0>> \in Ids
    BY NewIds DEF TypeOK
  <2>1. Record(<<rounds + 1, 0>>, FALSE)
    BY <1>9 DEF WarmUnavailable
  <2>2. lineage' \in Seq(Turns) /\ cursor' \in Nat
    BY <2>0, <2>1, RecordType DEF Ids
  <2> QED
    BY <1>9, <2>2, BoundAssumption DEF TypeOK, Points, Rows, Kinds,
      WarmUnavailable, Return, store, start, bounds
<1>10. CASE RepairExhausted
  <2>0. <<rounds + 1, 0>> \in Ids
    BY NewIds DEF TypeOK
  <2>1. Record(<<rounds + 1, 0>>, TRUE)
    BY <1>10 DEF RepairExhausted
  <2>2. lineage' \in Seq(Turns) /\ cursor' \in Nat
    BY <2>0, <2>1, RecordType DEF Ids
  <2> QED
    BY <1>10, <2>2, BoundAssumption DEF TypeOK, Points, Rows, Kinds,
      RepairExhausted, Return, store, start, session
<1>11. CASE TurnInvokes
  <2>0. <<rounds + 1, 0>> \in Ids
    BY NewIds DEF TypeOK
  <2>1. Record(<<rounds + 1, 0>>, TRUE)
    BY <1>11 DEF TurnInvokes, TurnEnds
  <2>2. lineage' \in Seq(Turns) /\ cursor' \in Nat
    BY <2>0, <2>1, RecordType DEF Ids
  <2> QED
    BY <1>11, <2>2, BoundAssumption DEF TypeOK, Points, Rows, Kinds, TurnInvokes,
      TurnEnds, CanRun, Stamped, store, start
<1>12. CASE TurnMisses
  <2>0. <<rounds + 1, 0>> \in Ids
    BY NewIds DEF TypeOK
  <2>1. Record(<<rounds + 1, 0>>, TRUE)
    BY <1>12 DEF TurnMisses, TurnEnds
  <2>2. lineage' \in Seq(Turns) /\ cursor' \in Nat
    BY <2>0, <2>1, RecordType DEF Ids
  <2> QED
    BY <1>12, <2>2, BoundAssumption DEF TypeOK, Points, Rows, Kinds, TurnMisses,
      TurnEnds, CanRun, Stamped, store, start
<1>13. CASE TurnPauses
  <2>0. <<rounds + 1, 0>> \in Ids
    BY NewIds DEF TypeOK
  <2>1. Record(<<rounds + 1, 0>>, TRUE)
    BY <1>13 DEF TurnPauses, TurnEnds
  <2>2. lineage' \in Seq(Turns) /\ cursor' \in Nat
    BY <2>0, <2>1, RecordType DEF Ids
  <2> QED
    BY <1>13, <2>2, BoundAssumption DEF TypeOK, Points, Rows, Kinds, TurnPauses,
      TurnEnds, Return, CanRun, Stamped, store, start
<1>14. CASE TurnCommits
  <2>0. <<rounds + 1, 0>> \in Ids
    BY NewIds DEF TypeOK
  <2>1. Record(<<rounds + 1, 0>>, TRUE)
    BY <1>14 DEF TurnCommits, TurnEnds
  <2>2. lineage' \in Seq(Turns) /\ cursor' \in Nat
    BY <2>0, <2>1, RecordType DEF Ids
  <2> QED
    BY <1>14, <2>2, BoundAssumption DEF TypeOK, Points, Rows, Kinds, TurnCommits,
      TurnEnds, Return, CanRun, Stamped, store, start
<1>15. CASE SubagentEnds
  <2>0. <<rounds, child + 1>> \in Ids
    BY NewIds DEF TypeOK
  <2>1. Record(<<rounds, child + 1>>, TRUE)
    BY <1>15 DEF SubagentEnds, Spawn
  <2>2. lineage' \in Seq(Turns) /\ cursor' \in Nat
    BY <2>0, <2>1, RecordType DEF Ids
  <2> QED
    BY <1>15, <2>2, BoundAssumption DEF TypeOK, Points, Rows, Kinds, SubagentEnds,
      Spawn, store, start, session
<1>16. CASE SubagentUnparsed
  <2>0. <<rounds, child + 1>> \in Ids
    BY NewIds DEF TypeOK
  <2>1. Record(<<rounds, child + 1>>, TRUE)
    BY <1>16 DEF SubagentUnparsed, Spawn
  <2>2. lineage' \in Seq(Turns) /\ cursor' \in Nat
    BY <2>0, <2>1, RecordType DEF Ids
  <2> QED
    BY <1>16, <2>2, BoundAssumption DEF TypeOK, Points, Rows, Kinds,
      SubagentUnparsed, Spawn, store, start, session
<1>17. CASE RepairEnds
  <2>0. <<rounds, child + 1>> \in Ids
    BY NewIds DEF TypeOK
  <2>1. Record(<<rounds, child + 1>>, TRUE)
    BY <1>17 DEF RepairEnds, Spawn
  <2>2. lineage' \in Seq(Turns) /\ cursor' \in Nat
    BY <2>0, <2>1, RecordType DEF Ids
  <2> QED
    BY <1>17, <2>2, BoundAssumption DEF TypeOK, Points, Rows, Kinds, RepairEnds,
      Spawn, store, start, session
<1>18. CASE RepairFails
  <2>0. <<rounds, child + 1>> \in Ids
    BY NewIds DEF TypeOK
  <2>1. Record(<<rounds, child + 1>>, TRUE)
    BY <1>18 DEF RepairFails, Spawn
  <2>2. lineage' \in Seq(Turns) /\ cursor' \in Nat
    BY <2>0, <2>1, RecordType DEF Ids
  <2> QED
    BY <1>18, <2>2, BoundAssumption DEF TypeOK, Points, Rows, Kinds, RepairFails,
      Spawn, Return, store, start, session
<1>19. CASE TurnSpoils
  <2>1. Over /\ MayOpen /\ issue' \in {"progress", "person"} /\ row' = row
    BY <1>19 DEF TurnSpoils, Reject
  <2> QED
    BY <2>1, OverType, OpenType DEF TypeOK
<1>20. CASE LoopThrows
  <2>1. Over /\ MayOpen /\ issue' \in {"progress", "person"} /\ row' = row
    BY <1>20 DEF LoopThrows, Reject
  <2> QED
    BY <2>1, OverType, OpenType DEF TypeOK
<1>21. CASE RunIsLost
  <2>1. Over /\ MayOpen /\ row' = LostRow /\ issue' = "progress"
    BY <1>21 DEF RunIsLost
  <2> QED
    BY <2>1, OverType, OpenType, RowType DEF TypeOK
<1>22. CASE Commits
  <2>1. Over /\ MayOpen /\ issue' \in {"progress", "person"} /\ row' \in Rows
    <3>1. Over /\ MayOpen /\ \E q \in BOOLEAN : Leave(q)
      BY <1>22 DEF Commits
    <3> QED
      BY <3>1, RowType DEF Leave
  <2> QED
    BY <2>1, OverType, OpenType DEF TypeOK
<1>23. CASE Pauses
  <2>1. Over /\ MayOpen /\ issue' \in {"progress", "person"} /\ row' \in Rows
    <3>1. Over /\ MayOpen /\ \E q \in BOOLEAN : Leave(q)
      BY <1>23 DEF Pauses
    <3> QED
      BY <3>1, RowType DEF Leave
  <2> QED
    BY <2>1, OverType, OpenType DEF TypeOK
<1>24. CASE FailsClosed
  <2>1. Over /\ MayOpen /\ issue' \in {"progress", "person"} /\ row' = row
    BY <1>24 DEF FailsClosed, Reject
  <2> QED
    BY <2>1, OverType, OpenType DEF TypeOK
<1>25. CASE UNCHANGED vars
  BY <1>25 DEF TypeOK, Points, Rows, Kinds, record, bounds, session, store,
    start, vars
<1> QED
  BY <1>1, <1>2, <1>3, <1>4, <1>5, <1>6, <1>7, <1>8, <1>9, <1>10, <1>11,
    <1>12, <1>13, <1>14, <1>15, <1>16, <1>17, <1>18, <1>19, <1>20, <1>21,
    <1>22, <1>23, <1>24, <1>25 DEF Next, Decide, Turn, Subagent, End

\* No step goes beyond the bounds.
LEMMA CountStep ==
    TypeOK /\ Counted /\ [Next]_vars => Counted'
<1> SUFFICES ASSUME TypeOK, Counted, [Next]_vars PROVE Counted'
  OBVIOUS
<1> USE DEF Counted, BoundsHold
<1> USE DEF TypeOK
<1>1. CASE RunFresh
  BY <1>1, BoundAssumption DEF RunFresh, Enter, bounds, record
<1>2. CASE ResumeWarm
  BY <1>2, BoundAssumption DEF ResumeWarm, Enter, bounds, record
<1>3. CASE ResumeCold
  BY <1>3, BoundAssumption DEF ResumeCold, Enter, bounds, record
<1>4. CASE Escalate
  BY <1>4, BoundAssumption DEF Escalate, start, bounds, session, record
<1>5. CASE SendBack
  BY <1>5, BoundAssumption DEF SendBack, start, bounds, session, record
<1>6. CASE BeginTurn
  BY <1>6, BoundAssumption DEF BeginTurn, store, start, bounds, record
<1>7. CASE TurnRejected
  BY <1>7, BoundAssumption DEF TurnRejected, store, start, bounds, record
<1>8. CASE BoundsBreach
  BY <1>8, BoundAssumption DEF BoundsBreach, Return, store, start, bounds,
    session
<1>9. CASE WarmUnavailable
  BY <1>9, BoundAssumption DEF WarmUnavailable, Return, store, start, bounds
<1>10. CASE RepairExhausted
  BY <1>10, BoundAssumption DEF RepairExhausted, Return, store, start, session
<1>11. CASE TurnInvokes
  BY <1>11, BoundAssumption DEF TurnInvokes, TurnEnds, store, start
<1>12. CASE TurnMisses
  BY <1>12, BoundAssumption DEF TurnMisses, TurnEnds, store, start
<1>13. CASE TurnPauses
  BY <1>13, BoundAssumption DEF TurnPauses, TurnEnds, Return, store, start
<1>14. CASE TurnCommits
  BY <1>14, BoundAssumption DEF TurnCommits, TurnEnds, Return, store, start
<1>15. CASE SubagentEnds
  BY <1>15, BoundAssumption DEF SubagentEnds, Spawn, store, start, session
<1>16. CASE SubagentUnparsed
  BY <1>16, BoundAssumption DEF SubagentUnparsed, Spawn, store, start, session
<1>17. CASE RepairEnds
  BY <1>17, BoundAssumption DEF RepairEnds, Spawn, store, start, session
<1>18. CASE RepairFails
  BY <1>18, BoundAssumption DEF RepairFails, Spawn, Return, store, start,
    session
<1>19. CASE TurnSpoils
  BY <1>19, BoundAssumption DEF TurnSpoils, Reject, Over, start
<1>20. CASE LoopThrows
  BY <1>20, BoundAssumption DEF LoopThrows, Reject, Over, start
<1>21. CASE RunIsLost
  BY <1>21, BoundAssumption DEF RunIsLost, Over, start
<1>22. CASE Commits
  BY <1>22, BoundAssumption DEF Commits, Over, start
<1>23. CASE Pauses
  BY <1>23, BoundAssumption DEF Pauses, Over, start
<1>24. CASE FailsClosed
  BY <1>24, BoundAssumption DEF FailsClosed, Reject, Over, start
<1>25. CASE UNCHANGED vars
  BY <1>25 DEF record, bounds, session, store, start, vars
<1> QED
  BY <1>1, <1>2, <1>3, <1>4, <1>5, <1>6, <1>7, <1>8, <1>9, <1>10, <1>11,
    <1>12, <1>13, <1>14, <1>15, <1>16, <1>17, <1>18, <1>19, <1>20, <1>21,
    <1>22, <1>23, <1>24, <1>25 DEF Next, Decide, Turn, Subagent, End

LEMMA IdsTyped == TypeOK => \A i \in 1..Len(lineage) : lineage[i].id \in Nat \X Nat
<1> SUFFICES ASSUME TypeOK, NEW i \in 1..Len(lineage) PROVE lineage[i].id \in Nat \X Nat
  OBVIOUS
<1>1. lineage \in Seq(Turns)
  BY DEF TypeOK
<1>2. lineage[i] \in Turns
  BY <1>1
<1> QED
  BY <1>2 DEF Turns, Ids

\* How the lineage goes on: with a turn that did not run, a turn, a spawn.
LEMMA AddUnrun ==
    ASSUME TypeOK, Chained, pc # "returned", Record(<<rounds + 1, 0>>, FALSE),
           UNCHANGED <<rounds, invocations, author>>, pc' = "returned"
    PROVE  Chained'
<1> DEFINE new == <<rounds + 1, 0>>
<1>1. new \in Ids /\ \A i \in 1..Len(lineage) : lineage[i].id # new
  BY DEF TypeOK, Chained, Ids
<1>2. Len(lineage) \in Nat /\ Len(lineage) = rounds + invocations
  BY DEF TypeOK, Chained, LineageIsTrue, NotRun
<1> HIDE DEF new
<1>3. /\ Len(lineage') = Len(lineage) + 1 /\ lineage' # <<>>
      /\ cursor' = Len(lineage') - 1
      /\ \A i \in 1..Len(lineage) : lineage'[i] = lineage[i]
      /\ lineage'[Len(lineage')].id = new /\ lineage'[Len(lineage')].ran = FALSE
      /\ \A i, j \in 1..Len(lineage') : lineage'[i].id = lineage'[j].id => i = j
      /\ \A i \in 1..Len(lineage') :
            lineage'[i].took = IF i = 1 THEN {} ELSE {lineage'[i - 1].id}
  BY <1>1, RecordChain DEF new
<1>4. author # 0 => \E i \in 1..Len(lineage') : lineage'[i].id = <<author, 0>> /\ lineage'[i].ran
  BY <1>2, <1>3 DEF Chained, LineageIsTrue
<1>5. NotRun' /\ Len(lineage') = rounds' + invocations' + 1
  BY <1>2, <1>3 DEF NotRun
<1>6. LineageIsTrue'
  BY <1>3, <1>4, <1>5 DEF LineageIsTrue
<1> QED
  BY <1>3, <1>6 DEF Chained

LEMMA AddTurn ==
    ASSUME TypeOK, Chained, pc # "returned", Record(<<rounds + 1, 0>>, TRUE),
           rounds' = rounds + 1, invocations' = invocations, author' \in {author, rounds + 1},
           pc' = "spawn" => child' = 0, pc' # "respawn"
    PROVE  Chained'
<1> DEFINE new == <<rounds + 1, 0>>
<1>1. new \in Ids /\ \A i \in 1..Len(lineage) : lineage[i].id # new
  BY DEF TypeOK, Chained, Ids
<1>2. Len(lineage) \in Nat /\ Len(lineage) = rounds + invocations /\ rounds \in Nat
  BY DEF TypeOK, Chained, LineageIsTrue, NotRun
<1>b. \A i \in 1..Len(lineage) : lineage[i].id \in Nat \X Nat
  BY IdsTyped
<1>3. \A i \in 1..Len(lineage) : lineage[i].ran /\ lineage[i].id \in Nat \X Nat /\ lineage[i].id[1] <= rounds
  BY <1>b DEF Chained
<1>a. new[1] = rounds + 1 /\ new[2] = 0
  OBVIOUS
<1> HIDE DEF new
<1>4. /\ Len(lineage') = Len(lineage) + 1 /\ lineage' # <<>>
      /\ cursor' = Len(lineage') - 1
      /\ \A i \in 1..Len(lineage) : lineage'[i] = lineage[i]
      /\ lineage'[Len(lineage')].id = new /\ lineage'[Len(lineage')].ran = TRUE
      /\ \A i, j \in 1..Len(lineage') : lineage'[i].id = lineage'[j].id => i = j
      /\ \A i \in 1..Len(lineage') :
            lineage'[i].took = IF i = 1 THEN {} ELSE {lineage'[i - 1].id}
  BY <1>1, RecordChain DEF new
<1>5. \A i \in 1..Len(lineage') : i \in 1..Len(lineage) \/ i = Len(lineage')
  BY <1>2, <1>4
<1>6. author' # 0 => \E i \in 1..Len(lineage') : lineage'[i].id = <<author', 0>> /\ lineage'[i].ran
  <2>1. CASE author' = rounds + 1
    <3>1. Len(lineage') \in 1..Len(lineage')
      BY <1>2, <1>4
    <3> QED
      BY <2>1, <3>1, <1>4 DEF new
  <2>2. CASE author' = author
    BY <2>2, <1>2, <1>4 DEF Chained, LineageIsTrue
  <2> QED
    BY <2>1, <2>2
<1>7. ~NotRun' /\ Len(lineage') = rounds' + invocations'
  BY <1>2, <1>4 DEF NotRun, TypeOK
<1>8. LineageIsTrue'
  <2>1. Len(lineage') = rounds' + invocations' + (IF NotRun' THEN 1 ELSE 0)
    BY <1>2, <1>4, <1>7
  <2> QED
    BY <2>1, <1>4, <1>6 DEF LineageIsTrue
<1>9. \A i \in 1..Len(lineage') : lineage'[i].ran /\ lineage'[i].id[1] <= rounds'
  BY <1>2, <1>3, <1>4, <1>5, <1>a
<1>10. pc' = "spawn" => \A i \in 1..Len(lineage') : lineage'[i].id[1] = rounds' => lineage'[i].id[2] <= child'
  BY <1>2, <1>3, <1>4, <1>5, <1>a
<1> QED
  BY <1>4, <1>8, <1>9, <1>10 DEF Chained

LEMMA AddSpawn ==
    ASSUME TypeOK, Chained, pc \in {"spawn", "respawn"}, Record(<<rounds, child + 1>>, TRUE),
           rounds' = rounds, invocations' = invocations + 1, author' = author,
           child' = child + 1
    PROVE  Chained'
<1> DEFINE new == <<rounds, child + 1>>
<1>1. new \in Ids /\ \A i \in 1..Len(lineage) : lineage[i].id # new
  BY DEF TypeOK, Chained, Ids
<1>2. Len(lineage) \in Nat /\ Len(lineage) = rounds + invocations /\ rounds \in Nat /\ child \in Nat
  BY DEF TypeOK, Chained, LineageIsTrue, NotRun
<1>3. \A i \in 1..Len(lineage) :
        /\ lineage[i].ran /\ lineage[i].id \in Nat \X Nat /\ lineage[i].id[1] <= rounds
        /\ lineage[i].id[1] = rounds => lineage[i].id[2] <= child
  <2>1. \A i \in 1..Len(lineage) : lineage[i].id \in Nat \X Nat
    BY IdsTyped
  <2> QED
    BY <2>1 DEF Chained
<1>a. new[1] = rounds /\ new[2] = child + 1
  OBVIOUS
<1> HIDE DEF new
<1>4. /\ Len(lineage') = Len(lineage) + 1 /\ lineage' # <<>>
      /\ cursor' = Len(lineage') - 1
      /\ \A i \in 1..Len(lineage) : lineage'[i] = lineage[i]
      /\ lineage'[Len(lineage')].id = new /\ lineage'[Len(lineage')].ran = TRUE
      /\ \A i, j \in 1..Len(lineage') : lineage'[i].id = lineage'[j].id => i = j
      /\ \A i \in 1..Len(lineage') :
            lineage'[i].took = IF i = 1 THEN {} ELSE {lineage'[i - 1].id}
  BY <1>1, RecordChain DEF new
<1>5. \A i \in 1..Len(lineage') : i \in 1..Len(lineage) \/ i = Len(lineage')
  BY <1>2, <1>4
<1>6. author' # 0 => \E i \in 1..Len(lineage') : lineage'[i].id = <<author', 0>> /\ lineage'[i].ran
  BY <1>2, <1>4 DEF Chained, LineageIsTrue
<1>7. ~NotRun' /\ Len(lineage') = rounds' + invocations'
  BY <1>2, <1>4 DEF NotRun, TypeOK
<1>8. LineageIsTrue'
  <2>1. Len(lineage') = rounds' + invocations' + (IF NotRun' THEN 1 ELSE 0)
    BY <1>2, <1>4, <1>7
  <2> QED
    BY <2>1, <1>4, <1>6 DEF LineageIsTrue
<1>9. \A i \in 1..Len(lineage') :
        /\ lineage'[i].ran /\ lineage'[i].id[1] <= rounds'
        /\ lineage'[i].id[1] = rounds' => lineage'[i].id[2] <= child'
  <2> SUFFICES ASSUME NEW i \in 1..Len(lineage')
               PROVE  /\ lineage'[i].ran /\ lineage'[i].id[1] <= rounds'
                      /\ lineage'[i].id[1] = rounds' => lineage'[i].id[2] <= child'
    OBVIOUS
  <2>1. CASE i \in 1..Len(lineage)
    BY <2>1, <1>2, <1>3, <1>4
  <2>2. CASE i = Len(lineage')
    BY <2>2, <1>2, <1>4, <1>a
  <2> QED
    BY <2>1, <2>2, <1>5
<1> QED
  BY <1>4, <1>8, <1>9 DEF Chained

LEMMA SameChain ==
    ASSUME Chained, UNCHANGED <<lineage, cursor, rounds, invocations, author, child>>,
           (pc # "returned" /\ pc' \notin {"returned", "spawn", "respawn"}) \/ pc' = pc
    PROVE  Chained'
BY DEF Chained, LineageIsTrue, NotRun

LEMMA OverChain ==
    ASSUME Over PROVE Chained'
BY DEF Over, Chained, LineageIsTrue, NotRun

\* Every step keeps the lineage a chain.
LEMMA ChainStep ==
    TypeOK /\ Chained /\ [Next]_vars => Chained'
<1> SUFFICES ASSUME TypeOK, Chained, [Next]_vars PROVE Chained'
  OBVIOUS
<1> USE DEF vars
<1>1. CASE RunFresh
  <2>1. UNCHANGED <<lineage, cursor, rounds, invocations, author, child>>
    BY <1>1 DEF RunFresh, Enter, bounds, record
  <2>2. (pc # "returned" /\ pc' \notin {"returned", "spawn", "respawn"}) \/ pc' = pc
    BY <1>1 DEF RunFresh, Enter, bounds, record
  <2> QED
    BY <2>1, <2>2, SameChain
<1>2. CASE ResumeWarm
  <2>1. UNCHANGED <<lineage, cursor, rounds, invocations, author, child>>
    BY <1>2 DEF ResumeWarm, Enter, bounds, record
  <2>2. (pc # "returned" /\ pc' \notin {"returned", "spawn", "respawn"}) \/ pc' = pc
    BY <1>2 DEF ResumeWarm, MayResume, Enter, bounds, record
  <2> QED
    BY <2>1, <2>2, SameChain
<1>3. CASE ResumeCold
  <2>1. UNCHANGED <<lineage, cursor, rounds, invocations, author, child>>
    BY <1>3 DEF ResumeCold, Enter, bounds, record
  <2>2. (pc # "returned" /\ pc' \notin {"returned", "spawn", "respawn"}) \/ pc' = pc
    BY <1>3 DEF ResumeCold, MayResume, Enter, bounds, record
  <2> QED
    BY <2>1, <2>2, SameChain
<1>4. CASE Escalate
  <2>1. UNCHANGED <<lineage, cursor, rounds, invocations, author, child>>
    BY <1>4 DEF Escalate, start, bounds, session, record
  <2>2. pc' = pc
    BY <1>4 DEF Escalate, start, bounds, session, record
  <2> QED
    BY <2>1, <2>2, SameChain
<1>5. CASE SendBack
  <2>1. UNCHANGED <<lineage, cursor, rounds, invocations, author, child>>
    BY <1>5 DEF SendBack, start, bounds, session, record
  <2>2. pc' = pc
    BY <1>5 DEF SendBack, start, bounds, session, record
  <2> QED
    BY <2>1, <2>2, SameChain
<1>6. CASE BeginTurn
  <2>1. UNCHANGED <<lineage, cursor, rounds, invocations, author, child>>
    BY <1>6 DEF BeginTurn, store, start, bounds, record
  <2>2. (pc # "returned" /\ pc' \notin {"returned", "spawn", "respawn"}) \/ pc' = pc
    BY <1>6 DEF BeginTurn, store, start, bounds, record
  <2> QED
    BY <2>1, <2>2, SameChain
<1>7. CASE TurnRejected
  <2>1. UNCHANGED <<lineage, cursor, rounds, invocations, author, child>>
    BY <1>7 DEF TurnRejected, store, start, bounds, record
  <2>2. (pc # "returned" /\ pc' \notin {"returned", "spawn", "respawn"}) \/ pc' = pc
    BY <1>7 DEF TurnRejected, store, start, bounds, record
  <2> QED
    BY <2>1, <2>2, SameChain
<1>8. CASE BoundsBreach
  BY <1>8, AddUnrun DEF BoundsBreach, Return, store, start, bounds, session
<1>9. CASE WarmUnavailable
  BY <1>9, AddUnrun DEF WarmUnavailable, Return, store, start, bounds
<1>10. CASE RepairExhausted
  BY <1>10, AddTurn DEF RepairExhausted, Return, store, start, session
<1>11. CASE TurnInvokes
  BY <1>11, AddTurn DEF TurnInvokes, TurnEnds, store, start
<1>12. CASE TurnMisses
  BY <1>12, AddTurn DEF TurnMisses, TurnEnds, store, start
<1>13. CASE TurnPauses
  BY <1>13, AddTurn DEF TurnPauses, TurnEnds, Return, store, start
<1>14. CASE TurnCommits
  BY <1>14, AddTurn DEF TurnCommits, TurnEnds, Return, store, start
<1>15. CASE SubagentEnds
  BY <1>15, AddSpawn DEF SubagentEnds, Spawn, store, start, session
<1>16. CASE SubagentUnparsed
  BY <1>16, AddSpawn DEF SubagentUnparsed, Spawn, store, start, session
<1>17. CASE RepairEnds
  BY <1>17, AddSpawn DEF RepairEnds, Spawn, store, start, session
<1>18. CASE RepairFails
  BY <1>18, AddSpawn DEF RepairFails, Spawn, Return, store, start, session
<1>19. CASE TurnSpoils
  <2>1. Over
    BY <1>19 DEF TurnSpoils, Reject
  <2> QED
    BY <2>1, OverChain
<1>20. CASE LoopThrows
  <2>1. Over
    BY <1>20 DEF LoopThrows, Reject
  <2> QED
    BY <2>1, OverChain
<1>21. CASE RunIsLost
  <2>1. Over
    BY <1>21 DEF RunIsLost
  <2> QED
    BY <2>1, OverChain
<1>22. CASE Commits
  <2>1. Over
    BY <1>22 DEF Commits
  <2> QED
    BY <2>1, OverChain
<1>23. CASE Pauses
  <2>1. Over
    BY <1>23 DEF Pauses
  <2> QED
    BY <2>1, OverChain
<1>24. CASE FailsClosed
  <2>1. Over
    BY <1>24 DEF FailsClosed, Reject
  <2> QED
    BY <2>1, OverChain
<1>25. CASE UNCHANGED vars
  BY <1>25, SameChain DEF vars, record, bounds
<1> QED
  BY <1>1, <1>2, <1>3, <1>4, <1>5, <1>6, <1>7, <1>8, <1>9, <1>10, <1>11,
    <1>12, <1>13, <1>14, <1>15, <1>16, <1>17, <1>18, <1>19, <1>20, <1>21,
    <1>22, <1>23, <1>24, <1>25 DEF Next, Decide, Turn, Subagent, End

\* Every step keeps the stamps.
LEMMA StampStep ==
    TypeOK /\ Stamps /\ [Next]_vars => Stamps'
<1> SUFFICES ASSUME TypeOK, Stamps, [Next]_vars PROVE Stamps'
  OBVIOUS
<1> USE DEF Stamps, SessionIsOwn, Mismatch, Resolved
<1> USE DEF TypeOK, Rows, Kinds
<1>1. CASE RunFresh
  BY <1>1 DEF RunFresh, FreshOfTodo, Enter, bounds, record
<1>2. CASE ResumeWarm
  BY <1>2 DEF ResumeWarm, MayResume, Enter, bounds, record
<1>3. CASE ResumeCold
  BY <1>3 DEF ResumeCold, MayResume, Enter, bounds, record
<1>4. CASE Escalate
  BY <1>4 DEF Escalate, start, bounds, session, record
<1>5. CASE SendBack
  BY <1>5 DEF SendBack, start, bounds, session, record
<1>6. CASE BeginTurn
  BY <1>6 DEF BeginTurn, store, start, bounds, record
<1>7. CASE TurnRejected
  BY <1>7 DEF TurnRejected, CanRun, store, start, bounds, record
<1>8. CASE BoundsBreach
  <2>1. UNCHANGED <<row, runs, kind, rounds, warm, using, handle>> /\ pc = "head" /\ pc' = "returned"
    BY <1>8 DEF BoundsBreach, Return, store, start, bounds, session
  <2> QED
    BY <2>1
<1>9. CASE WarmUnavailable
  BY <1>9 DEF WarmUnavailable, Return, store, start, bounds
<1>10. CASE RepairExhausted
  BY <1>10 DEF RepairExhausted, Return, store, start, session
<1>11. CASE TurnInvokes
  BY <1>11 DEF TurnInvokes, TurnEnds, CanRun, Stamped, store, start
<1>12. CASE TurnMisses
  BY <1>12 DEF TurnMisses, TurnEnds, CanRun, Stamped, store, start
<1>13. CASE TurnPauses
  BY <1>13 DEF TurnPauses, TurnEnds, Return, CanRun, Stamped, store, start
<1>14. CASE TurnCommits
  BY <1>14 DEF TurnCommits, TurnEnds, Return, CanRun, Stamped, store, start
<1>15. CASE SubagentEnds
  BY <1>15 DEF SubagentEnds, Spawn, store, start, session
<1>16. CASE SubagentUnparsed
  BY <1>16 DEF SubagentUnparsed, Spawn, store, start, session
<1>17. CASE RepairEnds
  BY <1>17 DEF RepairEnds, Spawn, store, start, session
<1>18. CASE RepairFails
  BY <1>18 DEF RepairFails, Spawn, Return, store, start, session
<1>19. CASE TurnSpoils
  BY <1>19 DEF TurnSpoils, CanRun, Reject, Over, MayOpen, start
<1>20. CASE LoopThrows
  BY <1>20 DEF LoopThrows, Reject, Over, MayOpen, start
<1>21. CASE RunIsLost
  BY <1>21 DEF RunIsLost, Over, MayOpen, LostRow, start, NoRow
<1>22. CASE Commits
  BY <1>22 DEF Commits, Over, MayOpen, Leave, start
<1>23. CASE Pauses
  BY <1>23 DEF Pauses, Over, MayOpen, Leave, start
<1>24. CASE FailsClosed
  BY <1>24 DEF FailsClosed, Reject, Over, MayOpen, start
<1>25. CASE UNCHANGED vars
  BY <1>25 DEF record, bounds, session, store, start, vars
<1> QED
  BY <1>1, <1>2, <1>3, <1>4, <1>5, <1>6, <1>7, <1>8, <1>9, <1>10, <1>11,
    <1>12, <1>13, <1>14, <1>15, <1>16, <1>17, <1>18, <1>19, <1>20, <1>21,
    <1>22, <1>23, <1>24, <1>25 DEF Next, Decide, Turn, Subagent, End

-----------------------------------------------------------------------------
LEMMA Initially == Init => IInv
<1> SUFFICES ASSUME Init PROVE IInv
  OBVIOUS
<1>1. TypeOK
  <2>1. row \in Rows /\ conf \in [persisted : BOOLEAN, ready : BOOLEAN]
    BY DEF Init, Rows, Kinds, NoRow
  <2>2. lineage \in Seq(Turns) /\ runs \in 0..MaxRuns
    BY BoundAssumption DEF Init
  <2> QED
    BY <2>1, <2>2 DEF Init, TypeOK, Points, Kinds
<1>2. Counted
  BY BoundAssumption DEF Init, Counted, BoundsHold
<1>3. Chained
  BY DEF Init, Chained, LineageIsTrue, NotRun
<1>4. Stamps
  BY DEF Init, Stamps, SessionIsOwn, Mismatch, Resolved, NoRow
<1> QED
  BY <1>1, <1>2, <1>3, <1>4 DEF IInv

LEMMA Invariant == Spec => []IInv
<1>1. IInv /\ [Next]_vars => IInv'
  BY TypeStep, CountStep, ChainStep, StampStep DEF IInv
<1> QED
  BY Initially, <1>1, PTL DEF Spec

\* The variables of the loop and of the row keep their shape.
THEOREM TypeCorrect == Spec => []TypeOK
<1>1. IInv => TypeOK
  BY DEF IInv
<1> QED
  BY <1>1, Invariant, PTL

\* Whatever the agents do, a run takes no more turns than it may.
THEOREM BoundsAreKept == Spec => []BoundsHold
<1>1. IInv => BoundsHold
  BY DEF IInv, Counted
<1> QED
  BY <1>1, Invariant, PTL

\* Nothing that ran is missing in the lineage, and nothing is in it twice.
THEOREM LineageHolds == Spec => []LineageIsTrue
<1>1. IInv => LineageIsTrue
  BY DEF IInv, Chained
<1> QED
  BY <1>1, Invariant, PTL

\* Only a run that was resumed warm can leave a session that is not its own.
THEOREM SessionsAreOwn == Spec => []SessionIsOwn
<1>1. IInv => SessionIsOwn
  BY DEF IInv, Stamps
<1> QED
  BY <1>1, Invariant, PTL
=============================================================================
