------------------------ MODULE BackgroundListenerProofs ------------------------
(***************************************************************************)
(* What the background listener guarantees for any number of start and     *)
(* stop commands, foreground gateways and crashes.                         *)
(***************************************************************************)
EXTENDS BackgroundListener, TLAPS

\* A request is for a listener that a stop has asked for, and only such a
\* request or a start that failed ends a loop.
Aimed ==
    /\ requests \subseteq asked
    /\ \A s \in Starts : s \in aborted => s \in asked \/ start[s] = "failed"

\* A start command has its listener after the spawn; who holds the lock is past
\* the acquire, and so is who was reported as started; a stop that goes on has
\* found a listener.
Placed ==
    /\ \A s \in Starts : start[s] \in {"idle", "locked", "sweeps"} => life[s] = "none"
    /\ \A l \in Listeners : lock = l => life[l] \notin {"none", "launched"}
    /\ \A s \in Starts : start[s] = "started" => life[s] \notin {"none", "launched"}
    /\ \A l \in Listeners : life[l] = "announce" => l \in Starts
    /\ \A t \in Stops : stop[t] = "found" => target[t] # Nobody

IInv == TypeOK /\ Aimed /\ Placed

-----------------------------------------------------------------------------
\* The type invariant is preserved.
LEMMA TypeStep ==
    TypeOK /\ Placed /\ [Next]_vars => TypeOK'
<1> SUFFICES ASSUME TypeOK, Placed, [Next]_vars PROVE TypeOK'
  OBVIOUS
<1> USE NamesAssumption DEF TypeOK, StartAnswers, StopAnswers, Listeners,
  files, listeners, history, vars
<1>1. ASSUME NEW l \in Listeners, AcquireGateway(l) \/ StartupDone(l) \/
  WriteReady(l) PROVE TypeOK'
  <2>1. CASE AcquireGateway(l)
    <3>1. life' = [life EXCEPT ![l] = life'[l]] /\ life'[l] \in {"exited", "startup"}
      BY <2>1 DEF AcquireGateway, Go
    <3>2. lock' \in {lock, l}
      BY <2>1 DEF AcquireGateway
    <3>3. UNCHANGED <<files, startLock, aborted, start, stop, target, history>>
      BY <2>1 DEF AcquireGateway
    <3> QED
      BY <3>1, <3>2, <3>3
  <2>2. CASE StartupDone(l)
    BY <2>2 DEF StartupDone, Go
  <2>3. CASE WriteReady(l)
    <3>1. l \in Starts
      BY <2>3 DEF WriteReady, Placed
    <3> QED
      BY <2>3, <3>1 DEF WriteReady, Go
  <2> QED
    BY <1>1, <2>1, <2>2, <2>3
<1>2. ASSUME NEW l \in Listeners, (l \in Starts /\ ConsumeStopRequest(l)) \/
  LoopEnds(l) PROVE TypeOK'
  BY <1>2 DEF ConsumeStopRequest, LoopEnds, Go, Unlock
<1>3. ASSUME NEW l \in Listeners, LoopThrows(l) \/ Exit(l) \/ Kill(l) PROVE
  TypeOK'
  BY <1>3 DEF LoopThrows, Exit, Kill, Crash, Go, Unlock
<1>4. ASSUME NEW f \in Foregrounds, RunForeground(f) PROVE TypeOK'
  BY <1>4 DEF RunForeground, Go
<1>5. ASSUME NEW f \in Foregrounds, Interrupt(f) PROVE TypeOK'
  BY <1>5 DEF Interrupt, Terminate, Go, Unlock
<1>6. ASSUME NEW s \in Starts, Begin(s) \/ AfterLock(s) \/ SweepAndSpawn(s)
  PROVE TypeOK'
  BY <1>6 DEF Begin, AfterLock, SweepAndSpawn, StartGo, InStart, SweepFiles,
    Go
<1>7. ASSUME NEW s \in Starts, ReadReady(s) \/ NotReady(s) PROVE TypeOK'
  BY <1>7 DEF ReadReady, NotReady, StartGo, Fail, Terminate, Go, Unlock
<1>8. ASSUME NEW s \in Starts, Verify(s) PROVE TypeOK'
  BY <1>8 DEF Verify, Verified, StartGo, Fail, Background, Terminate, Go,
    Unlock
<1>9. ASSUME NEW s \in Starts, WaitForConcurrentStart(s) \/ KillStart(s) PROVE
  TypeOK'
  BY <1>9 DEF WaitForConcurrentStart, KillStart, StartGo, InStart, Crash
<1>10. ASSUME NEW t \in Stops, BeginStop(t) \/ RequestStop(t) PROVE TypeOK'
  <2>1. CASE BeginStop(t)
    BY <2>1 DEF BeginStop, StopGo, Running
  <2>2. CASE RequestStop(t)
    BY <2>2 DEF RequestStop, StopGo, Placed
  <2> QED
    BY <1>10, <2>1, <2>2
<1>11. ASSUME NEW t \in Stops, AwaitRelease(t) \/ AwaitExit(t) \/
  DropMetadata(t) \/ StopSweeps(t) \/ KillStop(t) PROVE TypeOK'
  BY <1>11 DEF AwaitRelease, AwaitExit, DropMetadata, StopSweeps, KillStop,
    StopGo, SweepFiles, Crash
<1>12. CASE UNCHANGED vars
  BY <1>12
<1> QED
  BY <1>1, <1>2, <1>3, <1>4, <1>5, <1>6, <1>7, <1>8, <1>9, <1>10, <1>11, <1>12
    DEF Next, ListenerStep, StartStep, StopStep

\* Requests are aimed.
LEMMA AimedStep ==
    TypeOK /\ Aimed /\ [Next]_vars => Aimed'
<1> SUFFICES ASSUME TypeOK, Aimed, [Next]_vars PROVE Aimed'
  OBVIOUS
<1> USE NamesAssumption DEF TypeOK, StartAnswers, StopAnswers, Listeners,
  files, listeners, history, vars, Aimed
<1>1. ASSUME NEW l \in Listeners, AcquireGateway(l) \/ StartupDone(l) \/
  WriteReady(l) PROVE Aimed'
  BY <1>1 DEF AcquireGateway, StartupDone, WriteReady, Running, Go, Alive
<1>2. ASSUME NEW l \in Listeners, (l \in Starts /\ ConsumeStopRequest(l)) \/
  LoopEnds(l) PROVE Aimed'
  BY <1>2 DEF ConsumeStopRequest, LoopEnds, Go, Unlock
<1>3. ASSUME NEW l \in Listeners, LoopThrows(l) \/ Exit(l) \/ Kill(l) PROVE
  Aimed'
  BY <1>3 DEF LoopThrows, Exit, Kill, Crash, Go, Unlock, Alive
<1>4. ASSUME NEW f \in Foregrounds, RunForeground(f) PROVE Aimed'
  BY <1>4 DEF RunForeground, Go
<1>5. ASSUME NEW f \in Foregrounds, Interrupt(f) PROVE Aimed'
  BY <1>5 DEF Interrupt, Alive, Terminate, Go, Unlock
<1>6. ASSUME NEW s \in Starts, Begin(s) \/ AfterLock(s) \/ SweepAndSpawn(s)
  PROVE Aimed'
  BY <1>6 DEF Begin, AfterLock, SweepAndSpawn, Running, StartGo, InStart,
    SweepFiles, Go, Alive
<1>7. ASSUME NEW s \in Starts, ReadReady(s) \/ NotReady(s) PROVE Aimed'
  BY <1>7 DEF ReadReady, NotReady, StartGo, Fail, Alive, Terminate, Go, Unlock
<1>8. ASSUME NEW s \in Starts, Verify(s) PROVE Aimed'
  BY <1>8 DEF Verify, Verified, StartGo, Fail, Background, Alive, Terminate,
    Running, Go, Unlock
<1>9. ASSUME NEW s \in Starts, WaitForConcurrentStart(s) \/ KillStart(s) PROVE
  Aimed'
  BY <1>9 DEF WaitForConcurrentStart, KillStart, StartGo, Running, InStart,
    Crash, Alive
<1>10. ASSUME NEW t \in Stops, BeginStop(t) \/ RequestStop(t) PROVE Aimed'
  BY <1>10 DEF BeginStop, RequestStop, StopGo, Running, Alive
<1>11. ASSUME NEW t \in Stops, AwaitRelease(t) \/ AwaitExit(t) \/
  DropMetadata(t) \/ StopSweeps(t) \/ KillStop(t) PROVE Aimed'
  BY <1>11 DEF AwaitRelease, AwaitExit, DropMetadata, StopSweeps, KillStop,
    Running, StopGo, Alive, SweepFiles, Crash
<1>12. CASE UNCHANGED vars
  BY <1>12
<1> QED
  BY <1>1, <1>2, <1>3, <1>4, <1>5, <1>6, <1>7, <1>8, <1>9, <1>10, <1>11, <1>12
    DEF Next, ListenerStep, StartStep, StopStep

\* Locks and answers follow the listeners.
LEMMA PlacedStep ==
    TypeOK /\ Placed /\ [Next]_vars => Placed'
<1> SUFFICES ASSUME TypeOK, Placed, [Next]_vars PROVE Placed'
  OBVIOUS
<1> USE NamesAssumption DEF TypeOK, StartAnswers, StopAnswers, Listeners,
  files, listeners, history, vars, Placed
<1>1. ASSUME NEW l \in Listeners, AcquireGateway(l) \/ StartupDone(l) \/
  WriteReady(l) PROVE Placed'
  BY <1>1 DEF AcquireGateway, StartupDone, WriteReady, Running, Go, Alive
<1>2. ASSUME NEW l \in Listeners, (l \in Starts /\ ConsumeStopRequest(l)) \/
  LoopEnds(l) PROVE Placed'
  BY <1>2 DEF ConsumeStopRequest, LoopEnds, Go, Unlock
<1>3. ASSUME NEW l \in Listeners, LoopThrows(l) \/ Exit(l) \/ Kill(l) PROVE
  Placed'
  BY <1>3 DEF LoopThrows, Exit, Kill, Crash, Go, Unlock, Alive
<1>4. ASSUME NEW f \in Foregrounds, RunForeground(f) PROVE Placed'
  BY <1>4 DEF RunForeground, Go
<1>5. ASSUME NEW f \in Foregrounds, Interrupt(f) PROVE Placed'
  BY <1>5 DEF Interrupt, Alive, Terminate, Go, Unlock
<1>6. ASSUME NEW s \in Starts, Begin(s) \/ AfterLock(s) \/ SweepAndSpawn(s)
  PROVE Placed'
  BY <1>6 DEF Begin, AfterLock, SweepAndSpawn, Running, StartGo, InStart,
    SweepFiles, Go, Alive
<1>7. ASSUME NEW s \in Starts, ReadReady(s) \/ NotReady(s) PROVE Placed'
  BY <1>7 DEF ReadReady, NotReady, StartGo, Fail, Alive, Terminate, Go, Unlock
<1>8. ASSUME NEW s \in Starts, Verify(s) PROVE Placed'
  BY <1>8 DEF Verify, Verified, StartGo, Fail, Background, Alive, Terminate,
    Running, Go, Unlock
<1>9. ASSUME NEW s \in Starts, WaitForConcurrentStart(s) \/ KillStart(s) PROVE
  Placed'
  BY <1>9 DEF WaitForConcurrentStart, KillStart, StartGo, Running, InStart,
    Crash, Alive
<1>10. ASSUME NEW t \in Stops, BeginStop(t) \/ RequestStop(t) PROVE Placed'
  BY <1>10 DEF BeginStop, RequestStop, StopGo, Running, Alive
<1>11. ASSUME NEW t \in Stops, AwaitRelease(t) \/ AwaitExit(t) \/
  DropMetadata(t) \/ StopSweeps(t) \/ KillStop(t) PROVE Placed'
  BY <1>11 DEF AwaitRelease, AwaitExit, DropMetadata, StopSweeps, KillStop,
    Running, StopGo, Alive, SweepFiles, Crash
<1>12. CASE UNCHANGED vars
  BY <1>12
<1> QED
  BY <1>1, <1>2, <1>3, <1>4, <1>5, <1>6, <1>7, <1>8, <1>9, <1>10, <1>11, <1>12
    DEF Next, ListenerStep, StartStep, StopStep

\* What KeepsListening says of a step.
Kept ==
    \A s \in Starts :
        start[s] = "started" /\ Alive(s) /\ (~Alive(s)' \/ life'[s] = "released")
            => s \in asked \/ crashes' # crashes \/ life[s] = "released"

\* No step breaks it.
LEMMA KeptStep ==
    TypeOK /\ Aimed /\ Placed /\ [Next]_vars => Kept
<1> SUFFICES ASSUME TypeOK, Aimed, Placed, [Next]_vars PROVE Kept
  OBVIOUS
<1> USE NamesAssumption DEF TypeOK, StartAnswers, StopAnswers, Listeners,
  files, listeners, history, vars, Kept, Aimed, Placed, Alive
<1>1. ASSUME NEW l \in Listeners, AcquireGateway(l) \/ StartupDone(l) \/
  WriteReady(l) PROVE Kept
  BY <1>1 DEF AcquireGateway, StartupDone, WriteReady, Running, Go
<1>2. ASSUME NEW l \in Listeners, (l \in Starts /\ ConsumeStopRequest(l)) \/
  LoopEnds(l) PROVE Kept
  BY <1>2 DEF ConsumeStopRequest, LoopEnds, Go, Unlock
<1>3. ASSUME NEW l \in Listeners, LoopThrows(l) \/ Exit(l) \/ Kill(l) PROVE
  Kept
  BY <1>3 DEF LoopThrows, Exit, Kill, Crash, Go, Unlock
<1>4. ASSUME NEW f \in Foregrounds, RunForeground(f) PROVE Kept
  BY <1>4 DEF RunForeground, Go
<1>5. ASSUME NEW f \in Foregrounds, Interrupt(f) PROVE Kept
  BY <1>5 DEF Interrupt, Terminate, Go, Unlock
<1>6. ASSUME NEW s \in Starts, Begin(s) \/ AfterLock(s) \/ SweepAndSpawn(s)
  PROVE Kept
  BY <1>6 DEF Begin, AfterLock, SweepAndSpawn, Running, StartGo, InStart,
    SweepFiles, Go
<1>7. ASSUME NEW s \in Starts, ReadReady(s) \/ NotReady(s) PROVE Kept
  BY <1>7 DEF ReadReady, NotReady, StartGo, Fail, Terminate, Go, Unlock
<1>8. ASSUME NEW s \in Starts, Verify(s) PROVE Kept
  BY <1>8 DEF Verify, Verified, StartGo, Fail, Background, Terminate, Running,
    Go, Unlock
<1>9. ASSUME NEW s \in Starts, WaitForConcurrentStart(s) \/ KillStart(s) PROVE
  Kept
  BY <1>9 DEF WaitForConcurrentStart, KillStart, StartGo, Running, InStart,
    Crash
<1>10. ASSUME NEW t \in Stops, BeginStop(t) \/ RequestStop(t) PROVE Kept
  BY <1>10 DEF BeginStop, RequestStop, StopGo, Running
<1>11. ASSUME NEW t \in Stops, AwaitRelease(t) \/ AwaitExit(t) \/
  DropMetadata(t) \/ StopSweeps(t) \/ KillStop(t) PROVE Kept
  BY <1>11 DEF AwaitRelease, AwaitExit, DropMetadata, StopSweeps, KillStop,
    Running, StopGo, SweepFiles, Crash
<1>12. CASE UNCHANGED vars
  BY <1>12
<1> QED
  BY <1>1, <1>2, <1>3, <1>4, <1>5, <1>6, <1>7, <1>8, <1>9, <1>10, <1>11, <1>12
    DEF Next, ListenerStep, StartStep, StopStep

-----------------------------------------------------------------------------
LEMMA Initially == Init => IInv
BY NamesAssumption DEF Init, IInv, TypeOK, Aimed, Placed, StartAnswers, StopAnswers, Listeners

LEMMA Invariant == Spec => []IInv
<1>1. IInv /\ [Next]_vars => IInv'
  BY TypeStep, AimedStep, PlacedStep DEF IInv
<1> QED
  BY Initially, <1>1, PTL DEF Spec

\* Commands, listeners and files keep their shape, whatever overlaps.
THEOREM TypeCorrect == Spec => []TypeOK
<1>1. IInv => TypeOK
  BY DEF IInv
<1> QED
  BY <1>1, Invariant, PTL

\* No command but a stop that asked for it, and no other listener, ends a
\* listener that was reported as started.
THEOREM ListenerKept == Spec => KeepsListening
<1>1. IInv /\ [Next]_vars => Kept
  BY KeptStep DEF IInv
<1>2. IInv /\ [Next]_vars => [Kept]_vars
  BY <1>1
<1> QED
  BY <1>2, Invariant, PTL DEF Spec, KeepsListening, Kept
=============================================================================
