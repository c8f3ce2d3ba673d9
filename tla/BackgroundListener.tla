------------------------- MODULE BackgroundListener -------------------------
(***************************************************************************)
(* `gateway start --background` and `gateway stop`: commands that come and *)
(* go, the detached listeners that they start and stop, foreground         *)
(* gateways, and the files through which they meet: the gateway lock, the  *)
(* start lock, the metadata of the listener, ready files, stop requests    *)
(* (background-listener.mjs, cli/runner-command.mjs, gateway-loop.mjs).    *)
(*                                                                         *)
(* Every start command is run once and the listener that it spawns bears   *)
(* its name: that stands for the pid, the control token and the nonce.     *)
(* The locks, which ExclusiveFileLock models, are taken in one step: they  *)
(* are free when nobody holds them, or when their holder is dead, and a    *)
(* reclaimer that is overtaken is left to that module.                     *)
(***************************************************************************)
EXTENDS Naturals

CONSTANTS
    Starts,         \* the start commands
    Stops,          \* the stop commands
    Foregrounds,    \* gateways in a terminal, and others that hold the lock
    MaxCrashes,     \* bound: processes that are killed, polls that throw
    Nobody

Listeners == Starts \cup Foregrounds

ASSUME NamesAssumption ==
    Nobody \notin Listeners /\ Starts \cap Foregrounds = {} /\ MaxCrashes \in Nat

VARIABLES
    lock,       \* the owner of gateway.lock
    startLock,  \* the owner of start.lock
    metadata,   \* whom background-listener.json describes
    ready,      \* ready files
    requests,   \* stop requests
    life,       \* where a listener is
    aborted,    \* listeners whose loop has been told to end
    start,      \* where a start command is, and its answer
    stop,       \* where a stop command is, and its answer
    target,     \* the listener that a stop command has found
    crashes,
    asked       \* history: whom a stop request was written for

files == <<metadata, ready, requests>>
listeners == <<lock, life, aborted>>
history == <<crashes, asked>>
vars == <<files, startLock, listeners, start, stop, target, history>>

StartAnswers == {"started", "already_running", "failed"}
StopAnswers == {"stopped", "stopping", "restarted", "foreground_owned"}

TypeOK ==
    /\ lock \in Listeners \cup {Nobody} /\ startLock \in Starts \cup {Nobody}
    /\ metadata \in Starts \cup {Nobody} /\ ready \subseteq Starts /\ requests \subseteq Starts
    /\ life \in [Listeners -> {"none", "launched", "startup", "announce", "polling",
                               "released", "exited"}]
    /\ aborted \subseteq Listeners
    /\ start \in [Starts -> {"idle", "locked", "sweeps", "waits", "seen", "concurrent",
                             "killed"} \cup StartAnswers]
    /\ stop \in [Stops -> {"idle", "found", "waits", "exits", "gone", "sweeps", "killed"}
                          \cup StopAnswers]
    /\ target \in [Stops -> Listeners \cup {Nobody}]
    /\ crashes \in 0..MaxCrashes /\ asked \subseteq Starts

Init ==
    /\ lock = Nobody /\ startLock = Nobody /\ metadata = Nobody /\ ready = {} /\ requests = {}
    /\ life = [l \in Listeners |-> "none"] /\ aborted = {}
    /\ start = [s \in Starts |-> "idle"] /\ stop = [t \in Stops |-> "idle"]
    /\ target = [t \in Stops |-> Nobody]
    /\ crashes = 0 /\ asked = {}

-----------------------------------------------------------------------------
Alive(l) == life[l] \notin {"none", "exited"}
Go(l, p) == life' = [life EXCEPT ![l] = p]
StartGo(s, p) == start' = [start EXCEPT ![s] = p]
StopGo(t, p) == stop' = [stop EXCEPT ![t] = p]
Unlock(l) == lock' = IF lock = l THEN Nobody ELSE lock

\* readGatewayLockLiveness and readBackgroundListenerStatus.
Running == lock # Nobody /\ Alive(lock)
Background == Running /\ metadata = lock

Crash == crashes < MaxCrashes /\ crashes' = crashes + 1 /\ UNCHANGED asked

\* sweepOrphanedControlFiles.
SweepFiles ==
    /\ ready' = {} /\ requests' = {}
    /\ UNCHANGED <<metadata, asked, crashes>>

-----------------------------------------------------------------------------
(* A listener: runGatewayLoopCommand and runGatewayLoop *)

RunForeground(f) ==
    /\ life[f] = "none" /\ Go(f, "launched")
    /\ UNCHANGED <<files, startLock, lock, aborted, start, stop, target, history>>

\* acquireGatewayLock; without the lock the command ends.
AcquireGateway(l) ==
    /\ life[l] = "launched"
    /\ IF Running THEN UNCHANGED lock /\ Go(l, "exited") ELSE lock' = l /\ Go(l, "startup")
    /\ UNCHANGED <<files, startLock, aborted, start, stop, target, history>>

\* Fault: the loop starts with a signal of its own.
StartupForgets(l) ==
    /\ life[l] = "startup" /\ Go(l, IF l \in Starts THEN "announce" ELSE "polling")
    /\ metadata' = (IF l \in Starts THEN l ELSE metadata)
    /\ aborted' = aborted \ {l}
    /\ UNCHANGED <<ready, requests, startLock, lock, start, stop, target, history>>

\* The recovery and the drain; then onReady, for a listener that was asked to
\* say so.
StartupDone(l) ==
    /\ life[l] = "startup" /\ Go(l, IF l \in Starts THEN "announce" ELSE "polling")
    /\ metadata' = (IF l \in Starts THEN l ELSE metadata)
    /\ UNCHANGED <<ready, requests, startLock, lock, aborted, start, stop, target, history>>

WriteReady(l) ==
    /\ life[l] = "announce" /\ Go(l, "polling")
    /\ ready' = ready \cup {l}
    /\ UNCHANGED <<metadata, requests, startLock, lock, aborted, start, stop, target, history>>

\* Fault: one request file for everybody.
ConsumeAnyRequest(l) ==
    /\ life[l] \in {"launched", "startup", "announce", "polling"} /\ requests # {}
    /\ requests' = {} /\ aborted' = aborted \cup {l}
    /\ UNCHANGED <<metadata, ready, startLock, lock, life, start, stop, target, history>>

\* The watcher runs beside the loop.
ConsumeStopRequest(l) ==
    /\ life[l] \in {"launched", "startup", "announce", "polling"} /\ l \in requests
    /\ requests' = requests \ {l} /\ aborted' = aborted \cup {l}
    /\ UNCHANGED <<metadata, ready, startLock, lock, life, start, stop, target, history>>

\* The iteration in progress ends first.
LoopEnds(l) ==
    /\ life[l] = "polling" /\ l \in aborted /\ Go(l, "released") /\ Unlock(l)
    /\ UNCHANGED <<files, startLock, aborted, start, stop, target, history>>

\* The startup or a poll throws: the lock is released all the same.
LoopThrows(l) ==
    /\ life[l] \in {"startup", "announce", "polling"} /\ Crash
    /\ Go(l, "released") /\ Unlock(l)
    /\ UNCHANGED <<files, startLock, aborted, start, stop, target>>

Exit(l) ==
    /\ life[l] = "released" /\ Go(l, "exited")
    /\ UNCHANGED <<files, startLock, lock, aborted, start, stop, target, history>>

Kill(l) ==
    /\ Alive(l) /\ Crash /\ Go(l, "exited")
    /\ UNCHANGED <<files, startLock, lock, aborted, start, stop, target>>

\* SIGTERM, and Ctrl-C in a terminal: before the lock is taken the loop is told
\* to end, unless the process is too young to have a handler; afterwards the
\* process releases the lock and exits at once.
Terminate(l) ==
    \/ life[l] = "launched" /\ aborted' = aborted \cup {l} /\ UNCHANGED <<life, lock>>
    \/ life[l] \in {"launched", "released"} /\ Go(l, "exited") /\ UNCHANGED <<aborted, lock>>
    \/ life[l] \in {"startup", "announce", "polling"} /\ Go(l, "exited") /\ Unlock(l) /\ UNCHANGED aborted
    \/ life[l] = "released" /\ UNCHANGED listeners

Interrupt(f) ==
    /\ Alive(f) /\ Terminate(f)
    /\ UNCHANGED <<files, startLock, start, stop, target, history>>

-----------------------------------------------------------------------------
(* startBackgroundListener *)

InStart(s) == start[s] \in {"locked", "sweeps", "waits", "seen"}

\* The first look at the gateway lock, and the request for the start lock.
Begin(s) ==
    /\ start[s] = "idle"
    /\ \/ Running /\ StartGo(s, "already_running") /\ UNCHANGED startLock
       \/ /\ ~Running /\ startLock # Nobody /\ InStart(startLock)
          /\ StartGo(s, "concurrent") /\ UNCHANGED startLock
       \/ /\ ~Running /\ ~(startLock # Nobody /\ InStart(startLock))
          /\ StartGo(s, "locked") /\ startLock' = s
    /\ UNCHANGED <<files, listeners, stop, target, history>>

AfterLock(s) ==
    /\ start[s] = "locked"
    /\ \/ Running /\ StartGo(s, "already_running") /\ startLock' = Nobody
       \/ ~Running /\ StartGo(s, "sweeps") /\ UNCHANGED startLock
    /\ UNCHANGED <<files, listeners, stop, target, history>>

SweepAndSpawn(s) ==
    /\ start[s] = "sweeps" /\ SweepFiles
    /\ StartGo(s, "waits") /\ Go(s, "launched")
    /\ UNCHANGED <<startLock, lock, aborted, stop, target>>

\* Fault: the listener of a start that failed is left alone.
FailLeavingIt(s) ==
    /\ StartGo(s, "failed") /\ startLock' = Nobody /\ ready' = ready \ {s}
    /\ UNCHANGED <<listeners, metadata, requests, stop, target, history>>

\* The finally blocks: a listener that is not verified is killed.
Fail(s) ==
    /\ StartGo(s, "failed") /\ startLock' = Nobody /\ ready' = ready \ {s}
    /\ IF Alive(s) THEN Terminate(s) ELSE UNCHANGED listeners
    /\ UNCHANGED <<metadata, requests, stop, target, history>>

ReadReady(s) ==
    /\ start[s] = "waits" /\ s \in ready /\ StartGo(s, "seen")
    /\ UNCHANGED <<files, startLock, listeners, stop, target, history>>

\* The listener has exited, or 30 seconds are over.
NotReady(s) == start[s] = "waits" /\ Fail(s)

Verified(s) == Background /\ lock = s

Verify(s) ==
    /\ start[s] = "seen"
    /\ \/ /\ Verified(s)
          /\ StartGo(s, "started") /\ startLock' = Nobody /\ ready' = ready \ {s}
          /\ UNCHANGED <<metadata, requests, listeners, stop, target, history>>
       \/ ~Verified(s) /\ Fail(s)

\* waitForConcurrentStart.
WaitForConcurrentStart(s) ==
    /\ start[s] = "concurrent"
    /\ StartGo(s, "failed") \/ (Running /\ StartGo(s, "already_running"))
    /\ UNCHANGED <<files, startLock, listeners, stop, target, history>>

\* The command is killed: its listener lives on, its start lock has a dead owner.
KillStart(s) ==
    /\ InStart(s) /\ StartGo(s, "killed") /\ Crash
    /\ UNCHANGED <<files, startLock, listeners, stop, target>>

-----------------------------------------------------------------------------
(* stopBackgroundListener *)

\* Fault: the lock is not looked at.
BeginStopAnyway(t) ==
    /\ stop[t] = "idle" /\ StopGo(t, "found") /\ target' = [target EXCEPT ![t] = lock]
    /\ UNCHANGED <<files, startLock, listeners, start, history>>

BeginStop(t) ==
    /\ stop[t] = "idle"
    /\ StopGo(t, IF Running THEN "found" ELSE "gone")
    /\ target' = (IF Running THEN [target EXCEPT ![t] = lock] ELSE target)
    /\ UNCHANGED <<files, startLock, listeners, start, history>>

RequestStop(t) ==
    /\ stop[t] = "found"
    /\ IF metadata = target[t]
       THEN /\ requests' = requests \cup {metadata} /\ asked' = asked \cup {metadata}
            /\ StopGo(t, "waits")
       ELSE UNCHANGED <<requests, asked>> /\ StopGo(t, "foreground_owned")
    /\ UNCHANGED <<metadata, ready, startLock, listeners, start, target, crashes>>

\* Each poll of the lock; or 30 seconds are over.
AwaitRelease(t) ==
    /\ stop[t] = "waits"
    /\ \/ ~Running /\ StopGo(t, "exits")
       \/ Running /\ lock # target[t] /\ StopGo(t, "restarted")
       \/ StopGo(t, "stopping")
    /\ UNCHANGED <<files, startLock, listeners, start, target, history>>

\* waitForProcessExit.
AwaitExit(t) ==
    /\ stop[t] = "exits"
    /\ StopGo(t, IF Alive(target[t]) THEN "stopping" ELSE "gone")
    /\ UNCHANGED <<files, startLock, listeners, start, target, history>>

DropMetadata(t) ==
    /\ stop[t] = "gone" /\ StopGo(t, "sweeps") /\ metadata' = Nobody
    /\ UNCHANGED <<ready, requests, startLock, listeners, start, target, history>>

StopSweeps(t) ==
    /\ stop[t] = "sweeps" /\ StopGo(t, "stopped") /\ SweepFiles
    /\ UNCHANGED <<startLock, listeners, start, target>>

KillStop(t) ==
    /\ stop[t] \in {"found", "waits", "exits", "gone", "sweeps"} /\ StopGo(t, "killed") /\ Crash
    /\ UNCHANGED <<files, startLock, listeners, start, target>>

-----------------------------------------------------------------------------
ListenerStep(l) ==
    \/ AcquireGateway(l) \/ StartupDone(l) \/ WriteReady(l) \/ LoopEnds(l) \/ Exit(l)
    \/ l \in Starts /\ ConsumeStopRequest(l)
StartStep(s) ==
    \/ AfterLock(s) \/ SweepAndSpawn(s) \/ ReadReady(s) \/ NotReady(s)
    \/ Verify(s) \/ WaitForConcurrentStart(s)
StopStep(t) ==
    RequestStop(t) \/ AwaitRelease(t) \/ AwaitExit(t) \/ DropMetadata(t) \/ StopSweeps(t)

Next ==
    \/ \E l \in Listeners : ListenerStep(l) \/ LoopThrows(l) \/ Kill(l)
    \/ \E f \in Foregrounds : RunForeground(f) \/ Interrupt(f)
    \/ \E s \in Starts : Begin(s) \/ StartStep(s) \/ KillStart(s)
    \/ \E t \in Stops : BeginStop(t) \/ StopStep(t) \/ KillStop(t)

Spec == Init /\ [][Next]_vars

\* Processes and commands that have begun go on.
FairSpec ==
    /\ Spec
    /\ \A l \in Listeners : WF_vars(ListenerStep(l))
    /\ \A s \in Starts : WF_vars(StartStep(s))
    /\ \A t \in Stops : WF_vars(StopStep(t))

-----------------------------------------------------------------------------
(* Properties *)

\* A listener that `gateway start` has reported as started goes on until it
\* fails, is killed, or a `gateway stop` has asked for that very listener: no
\* other command, however it overlaps, ends it.
KeepsListening ==
    [][\A s \in Starts :
        start[s] = "started" /\ Alive(s) /\ (~Alive(s)' \/ life'[s] = "released")
            => s \in asked \/ crashes' # crashes \/ life[s] = "released"]_vars

\* Of a start that reported a failure nothing remains: also a listener that
\* becomes ready while its start gives up ends.
FailedStartEnds == \A s \in Starts : start[s] = "failed" ~> ~Alive(s)

\* A listener that has taken a request to stop, or a signal before it had the
\* lock, ends, at whichever point of its startup it took it.
TakenStopEnds == \A l \in Listeners : l \in aborted ~> ~Alive(l)

\* "It keeps running after this terminal closes. Stop it with gateway stop": a
\* listener that has been reported as started can be found by a stop, also when
\* every start was served and every stop was for a listener that was running.
StartedCanBeStopped ==
    /\ \A s \in Starts : start[s] # "failed"
    /\ \A t \in Stops : stop[t] # "idle" => target[t] # Nobody
    => \A s \in Starts : start[s] = "started" /\ Running /\ lock = s => metadata = s
=============================================================================
