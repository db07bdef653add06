----------------------------- MODULE FleetMemory -----------------------------
(***************************************************************************)
(* Fleet memory: dreamers read the fleet from the broker and push what     *)
(* they saw back to it, where it is kept in memory and in the kv table.    *)
(* The watcher is one process with two goroutines, the NATS callback and   *)
(* the ticker, which share the slice of events without a lock; others run  *)
(* the one-shot dream. What they write to their machine's disk in between  *)
(* is in MemoryFiles.                                                      *)
(*                                                                         *)
(* A snapshot is the version of the fleet it lists; the recent events      *)
(* beside the peers, its layout and its time stamp are left out.           *)
(***************************************************************************)
EXTENDS Integers, FiniteSets

CONSTANTS
    Others,     \* one-shot dreams
    Threshold,  \* events that make the callback consolidate, 30 in the code
    MaxFleet,   \* bound on the versions of the fleet
    MaxStream   \* bound on the events in the FLEET stream

Watcher == {"callback", "ticker"}
Workers == Watcher \cup Others

ASSUME MemoryAssumption ==
    /\ Threshold \in Nat \ {0} /\ MaxFleet \in Nat \ {0} /\ MaxStream \in Nat
    /\ Watcher \cap Others = {}

None == -1   \* no fleet memory, ""
Empty == 0   \* "No active instances."
Snapshots == None .. MaxFleet
Places == {"idle", "append", "check", "fetch", "push"}

VARIABLES
    fleet,      \* the version of the peers the broker lists
    stream,     \* events in the FLEET stream the watcher has not acknowledged
    memory,     \* Broker.fleetMemory
    kv,         \* the row 'fleet_memory' of kv, or None
    up,         \* the watcher runs
    events,     \* the length of its slice of events
    pc,         \* where each worker is
    view,       \* the snapshot it carries
    appending,  \* the length of the slice the callback appends to
    clearing,   \* the ticker sets the slice to nil when it is through
    late,       \* a push whose dreamer has timed out and that waits at the broker, or None
    overtaken,  \* history: the dreamers whose fetch is older than a push
    unsaved     \* history: the kv table missed the last push

broker == <<memory, kv, unsaved>>
watch == <<up, events, appending, clearing, stream>>
vars == <<fleet, broker, watch, pc, view, late, overtaken>>

TypeOK ==
    /\ fleet \in 1 .. MaxFleet
    /\ stream \in 0 .. MaxStream
    /\ memory \in Snapshots /\ kv \in Snapshots /\ late \in Snapshots
    /\ up \in BOOLEAN /\ clearing \in BOOLEAN
    /\ events \in 0 .. Threshold /\ appending \in 0 .. Threshold - 1
    /\ pc \in [Workers -> Places]
    /\ view \in [Workers -> Snapshots]
    /\ overtaken \subseteq Workers
    /\ unsaved \in BOOLEAN

Init ==
    /\ fleet = 1 /\ stream = 0
    /\ memory = None /\ kv = None /\ unsaved = FALSE
    /\ up = TRUE
    /\ events = 0 /\ appending = 0 /\ clearing = FALSE
    /\ pc = [w \in Workers |-> "idle"]
    /\ view = [w \in Workers |-> None]
    /\ late = None /\ overtaken = {}

Goto(w, to) == pc' = [pc EXCEPT ![w] = to]

-----------------------------------------------------------------------------
(* What happens around the dreamers *)

\* A session joins, leaves or changes its summary, or a message is sent. The broker
\* publishes the event best effort; the durable consumer keeps it.
FleetChanges ==
    /\ fleet' \in {fleet, fleet + 1}
    /\ fleet' <= MaxFleet
    /\ stream' \in {stream, stream + 1}
    /\ stream' <= MaxStream
    /\ UNCHANGED <<broker, up, events, appending, clearing, pc, view, late, overtaken>>

\* The broker restarts and restores what the kv table has.
BrokerRestarts ==
    /\ memory' = kv
    /\ unsaved' = FALSE
    /\ late' = None
    /\ UNCHANGED <<fleet, kv, watch, pc, view, overtaken>>

\* The workers of one process stop where they are.
Stop(ws) ==
    /\ pc' = [w \in Workers |-> IF w \in ws THEN "idle" ELSE pc[w]]
    /\ view' = [w \in Workers |-> IF w \in ws THEN None ELSE view[w]]
    /\ overtaken' = overtaken \ ws
    /\ UNCHANGED <<fleet, broker, late>>

\* The watcher is killed, or dies of a slice header read while it was written.
WatcherDies ==
    /\ up
    /\ up' = FALSE
    /\ events' = 0 /\ appending' = 0 /\ clearing' = FALSE
    /\ Stop(Watcher)
    /\ UNCHANGED stream

\* cliDreamWatch: the consumer is durable, so that unacknowledged events come again.
\* Without NATS there is no callback, and dreamPollLoop does what the ticker does.
WatcherStarts ==
    /\ ~up
    /\ up' = TRUE
    /\ UNCHANGED <<fleet, broker, events, appending, clearing, stream, pc, view, late, overtaken>>

\* A one-shot dream is killed.
OtherDies(w) ==
    /\ pc[w] # "idle"
    /\ Stop({w})
    /\ UNCHANGED watch

-----------------------------------------------------------------------------
(* What starts a snapshot *)

\* subscribeFleet's handler: append reads the slice ...
CallbackReads ==
    /\ up /\ stream > 0
    /\ pc["callback"] = "idle"
    /\ appending' = events
    /\ Goto("callback", "append")
    /\ UNCHANGED <<fleet, broker, up, events, clearing, stream, view, late, overtaken>>

\* ... and stores it, whatever the ticker did in between ...
CallbackAppends ==
    /\ pc["callback"] = "append"
    /\ events' = appending + 1
    /\ appending' = 0
    /\ Goto("callback", "check")
    /\ UNCHANGED <<fleet, broker, up, clearing, stream, view, late, overtaken>>

\* Mutant of CallbackChecks: one event too many is collected.
CallbackChecksOver ==
    /\ pc["callback"] = "check"
    /\ IF events > Threshold
          THEN Goto("callback", "fetch") /\ UNCHANGED stream
          ELSE Goto("callback", "idle") /\ stream' = stream - 1
    /\ UNCHANGED <<fleet, broker, up, events, appending, clearing, view, late, overtaken>>

\* ... and looks at its length, again after what the ticker did. The message is
\* acknowledged when the handler returns.
CallbackChecks ==
    /\ pc["callback"] = "check"
    /\ IF events >= Threshold
          THEN Goto("callback", "fetch") /\ UNCHANGED stream
          ELSE Goto("callback", "idle") /\ stream' = stream - 1
    /\ UNCHANGED <<fleet, broker, up, events, appending, clearing, view, late, overtaken>>

\* Mutant of Tick: nothing is refreshed unless an event came.
TickWithEvents ==
    /\ up
    /\ pc["ticker"] = "idle"
    /\ events > 0
    /\ clearing' = (events > 0)
    /\ Goto("ticker", "fetch")
    /\ UNCHANGED <<fleet, broker, up, events, appending, stream, view, late, overtaken>>

\* The ticker of cliDreamWatch: with or without events it takes a snapshot.
Tick ==
    /\ up
    /\ pc["ticker"] = "idle"
    /\ clearing' = (events > 0)
    /\ Goto("ticker", "fetch")
    /\ UNCHANGED <<fleet, broker, up, events, appending, stream, view, late, overtaken>>

CliDream(w) ==
    /\ pc[w] = "idle"
    /\ Goto(w, "fetch")
    /\ UNCHANGED <<fleet, broker, watch, view, late, overtaken>>

-----------------------------------------------------------------------------
(* A snapshot, from the fetch to the push *)

\* fetchFleetState and buildFleetMemory. A failed request leaves peers nil, and
\* nobody looks at the error.
Fetch(w, seen) ==
    /\ pc[w] = "fetch"
    /\ seen \in {fleet, Empty}
    /\ view' = [view EXCEPT ![w] = seen]
    /\ overtaken' = overtaken \ {w}
    /\ Goto(w, "push")
    /\ UNCHANGED <<fleet, broker, watch, late>>

\* Mutant of SetFleetMemory: the row gets the memory as it was.
SetFleetMemoryLate(content, saved) ==
    /\ memory' = content
    /\ kv' = IF saved THEN memory ELSE kv
    /\ unsaved' = ~saved

\* The broker's setFleetMemory; the error of its Exec is ignored.
SetFleetMemory(content, saved) ==
    /\ memory' = content
    /\ kv' = IF saved THEN content ELSE kv
    /\ unsaved' = ~saved

\* The worker is through: the callback and the ticker drop the events, those that
\* came since the fetch included, and the callback's message is acknowledged.
Finish(w) ==
    /\ events' = IF w = "callback" \/ (w = "ticker" /\ clearing) THEN 0 ELSE events
    /\ clearing' = (clearing /\ w # "ticker")
    /\ stream' = IF w = "callback" THEN stream - 1 ELSE stream
    /\ view' = [view EXCEPT ![w] = None]
    /\ Goto(w, "idle")
    /\ UNCHANGED <<fleet, up, appending>>

\* The dreamers that carry a snapshot while another one's is stored.
Overtaken(w) == overtaken \cup {o \in Workers \ {w} : view[o] # None}

\* pushFleetMemoryToBroker reaches the broker ...
Push(w, saved) ==
    /\ pc[w] = "push"
    /\ SetFleetMemory(view[w], saved)
    /\ overtaken' = Overtaken(w) \ {w}
    /\ Finish(w)
    /\ UNCHANGED late

\* ... or not, or not within the 5 seconds of the client; nobody notices.
PushLost(w) ==
    /\ pc[w] = "push"
    /\ late' \in {late} \cup (IF late = None THEN {view[w]} ELSE {})
    /\ overtaken' = overtaken \ {w}
    /\ Finish(w)
    /\ UNCHANGED broker

\* A handler that waited for the broker's lock stores its snapshot after all.
LatePush(saved) ==
    /\ late # None
    /\ SetFleetMemory(late, saved)
    /\ late' = None
    /\ overtaken' = {o \in Workers : view[o] # None}
    /\ UNCHANGED <<fleet, watch, pc, view>>

WorkerStep(w) ==
    \/ \E seen \in Snapshots : Fetch(w, seen)
    \/ \E saved \in BOOLEAN : Push(w, saved)
    \/ PushLost(w)

Next ==
    \/ FleetChanges \/ BrokerRestarts
    \/ WatcherDies \/ WatcherStarts
    \/ \E w \in Others : OtherDies(w) \/ CliDream(w)
    \/ CallbackReads \/ CallbackAppends \/ CallbackChecks \/ Tick
    \/ \E w \in Workers : WorkerStep(w)
    \/ \E saved \in BOOLEAN : LatePush(saved)

\* The ticker goroutine runs on, and a broker that answers from time to time answers
\* a fetch and a push of the ticker's from time to time.
Fairness ==
    /\ WF_vars(Tick)
    /\ WF_vars(WorkerStep("ticker"))
    /\ SF_vars(Fetch("ticker", fleet))
    /\ SF_vars(view["ticker"] # Empty /\ \E saved \in BOOLEAN : Push("ticker", saved))

Spec == Init /\ [][Next]_vars

FairSpec == Spec /\ Fairness

-----------------------------------------------------------------------------
(* Properties *)

\* What the broker hands out goes back to an older fleet only for one of four
\* reasons: the dreamer's fetch had failed, another snapshot was stored between its
\* fetch and its push, the push came after its dreamer had given it up, or the broker
\* restarted after a write of kv that failed.
MemoryGoesBackOnlyFor ==
    [][memory' < memory =>
         \/ memory' = Empty
         \/ \E w \in overtaken : pc[w] = "push" /\ pc'[w] = "idle"
         \/ late # None /\ late' = None /\ memory' = late
         \/ unsaved]_vars

\* Whatever events are lost or dropped, and whatever other dreamers push, a running
\* watcher brings each version of the fleet, or a later one, into the broker's memory.
MemoryCatchesUp ==
    \A v \in 1 .. MaxFleet : fleet = v ~> (memory >= v \/ ~up)
=============================================================================
