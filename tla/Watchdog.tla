------------------------------ MODULE Watchdog -------------------------------
(***************************************************************************)
(* ResourceWatchdog of src/resource.rs: beside every guarded run a thread  *)
(* sleeps, samples the host's memory and, when the policy trips, records   *)
(* the trip and cancels the run.  The run's CancellationToken is shared    *)
(* with whoever else may cancel it; the first reason given stays.          *)
(***************************************************************************)
EXTENDS ResourcePolicy

CONSTANTS
    Owner,      \* the runs, each with a token and at most one watchdog
    Sample      \* the snapshots the host may show

ASSUME SampleAssumption == Sample \subseteq Snapshots /\ \A s \in Sample : Valid(s)

VARIABLES
    token,      \* token[o]: CancellationToken::reason, "none" while not cancelled
    thread,     \* thread[o]: where the watchdog's thread is
    stop,       \* stop[o]: its stop flag
    trip,       \* trip[o]: the trip it has recorded
    state,      \* state[o]: its WatchdogState
    last        \* last[o]: ResourceObservation, the latest snapshot recorded

watchdogVars == <<token, thread, stop, trip, state, last>>

\* The observation before any snapshot: no valid snapshot looks like it.
NoSnapshot == [available |-> 0, reclaimable |-> 0, compressor |-> 0, total |-> 0,
               swapUsed |-> 0, swapTotal |-> 0]

Reasons == {"none", "user", "resource_pressure"}
Trips == {"none", "hard", "soft", "probe_failure"}

WatchdogTypeOK ==
    /\ token \in [Owner -> Reasons]
    /\ thread \in [Owner -> {"off", "asleep", "sampling", "tripped", "ended"}]
    /\ stop \in [Owner -> BOOLEAN]
    /\ trip \in [Owner -> Trips]
    /\ \A o \in Owner :
         /\ state[o].soft \in 0..ConsecutiveSamples
         /\ Len(state[o].window) <= TrendWindow
         /\ last[o] \in Sample \cup {NoSnapshot}

WatchdogInit ==
    /\ token = [o \in Owner |-> "none"]
    /\ thread = [o \in Owner |-> "off"]
    /\ stop = [o \in Owner |-> FALSE]
    /\ trip = [o \in Owner |-> "none"]
    /\ state = [o \in Owner |-> NewState]
    /\ last = [o \in Owner |-> NoSnapshot]

\* CancellationToken::set_reason: a compare-and-set from "not cancelled".
SetReason(o, reason) ==
    token' = [token EXCEPT ![o] = IF @ = "none" THEN reason ELSE @]

\* start_with_interval_and_observation, with the snapshot taken before the start.
StartThread(o, baseline) ==
    /\ thread' = [thread EXCEPT ![o] = "asleep"]
    /\ last' = [last EXCEPT ![o] = baseline]
    /\ UNCHANGED <<token, stop, trip, state>>

\* The WatchdogState lives as long as the thread.
EndThread(o) ==
    /\ thread' = [thread EXCEPT ![o] = "ended"]
    /\ state' = [state EXCEPT ![o] = NewState]

(***************************************************************************)
(* The thread.  Once awake it leaves if it was told to stop or if the user *)
(* has cancelled the run, and samples otherwise.                           *)
(***************************************************************************)
Wake(o) ==
    /\ thread[o] = "asleep"
    /\ \/ (stop[o] \/ token[o] = "user") /\ EndThread(o)
       \/ ~(stop[o] \/ token[o] = "user") /\ thread' = [thread EXCEPT ![o] = "sampling"]
          /\ UNCHANGED state
    /\ UNCHANGED <<token, stop, trip, last>>

Record(o, reason) == trip' = [trip EXCEPT ![o] = IF @ = "none" THEN reason ELSE @]

\* A sample succeeds: it is recorded, then the policy looks at it.
SampleHost(o, s) ==
    /\ thread[o] = "sampling"
    /\ LET w == Observe(state[o], s)
       IN  /\ state' = [state EXCEPT ![o] = [soft |-> w.soft, window |-> w.window]]
           /\ Record(o, w.trip)
           /\ thread' = [thread EXCEPT ![o] = IF w.trip = "none" THEN "asleep" ELSE "tripped"]
    /\ last' = [last EXCEPT ![o] = s]
    /\ UNCHANGED <<token, stop>>

\* The commands of the sample were cancelled by the user: the loop goes on.
SampleCancelled(o) ==
    /\ thread[o] = "sampling" /\ token[o] = "user"
    /\ thread' = [thread EXCEPT ![o] = "asleep"]
    /\ UNCHANGED <<token, stop, trip, state, last>>

\* A command of the sample failed, or its output made no sense.
SampleFails(o) ==
    /\ thread[o] = "sampling"
    /\ Record(o, "probe_failure")
    /\ thread' = [thread EXCEPT ![o] = "tripped"]
    /\ UNCHANGED <<token, stop, state, last>>

\* cancel_resource_pressure, after the trip was recorded.
CancelRun(o) ==
    /\ thread[o] = "tripped"
    /\ SetReason(o, "resource_pressure")
    /\ EndThread(o)
    /\ UNCHANGED <<stop, trip, last>>

ThreadStep(o) ==
    \/ Wake(o)
    \/ \E s \in Sample : SampleHost(o, s)
    \/ SampleCancelled(o)
    \/ SampleFails(o)
    \/ CancelRun(o)

\* The first half of stop_and_join; the second waits until the thread has ended.
TellToStop(o) ==
    /\ stop' = [stop EXCEPT ![o] = TRUE]
    /\ UNCHANGED <<token, thread, trip, state, last>>

Joinable(o) == thread[o] \in {"off", "ended"}
=============================================================================
