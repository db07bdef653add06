------------------------- MODULE FleetMemoryProofs -------------------------
(***************************************************************************)
(* Proofs about FleetMemory, for any number of one-shot dreams beside the  *)
(* watcher, any threshold, and any number of versions and events.          *)
(*                                                                         *)
(* That the broker's memory goes back only for the four reasons needs what *)
(* the dreamers carry: a snapshot that nobody has overtaken is at least as *)
(* new as everything the broker has stored, in memory and in table kv.     *)
(***************************************************************************)
EXTENDS FleetMemory, TLAPS

\* An event the callback is busy with is not acknowledged yet.
CallbackHasEvent == pc["callback"] # "idle" => stream > 0

\* The slice is full only while the callback consolidates it.
RoomForEvents == pc["callback"] \in {"idle", "append"} => events < Threshold

\* A dreamer carries a snapshot from its fetch to its push.
CarriesToPush == \A w \in Workers : view[w] # None <=> pc[w] = "push"

\* Nothing lists a fleet that is still to come.
NothingAhead ==
    /\ memory <= fleet /\ kv <= fleet /\ late <= fleet
    /\ \A w \in Workers : view[w] <= fleet

\* Unless its fetch failed, a snapshot nobody has overtaken is at least as new as the
\* memory, and as the row of kv, which a restart would bring back.
FreshUnlessOvertaken ==
    \A w \in Workers \ overtaken :
        pc[w] = "push" => view[w] = Empty \/ (view[w] >= memory /\ view[w] >= kv)

\* Table kv has what the memory has, unless the last write failed.
SavedIsKept == ~unsaved => kv = memory

IInv ==
    /\ TypeOK
    /\ CallbackHasEvent
    /\ RoomForEvents
    /\ CarriesToPush
    /\ NothingAhead
    /\ FreshUnlessOvertaken
    /\ SavedIsKept

\* What a snapshot may be, as numbers.
LEMMA SnapshotsAreInts ==
    /\ Snapshots \subseteq Int
    /\ None \in Snapshots /\ Empty \in Snapshots /\ None # Empty
    /\ \A v \in Snapshots : v # None => v >= Empty
BY MemoryAssumption DEF Snapshots, None, Empty

\* The watcher's goroutines are no one-shot dreams.
LEMMA Goroutines ==
    /\ "callback" \in Workers /\ "ticker" \in Workers
    /\ \A w \in Others : w \in Workers /\ w # "callback" /\ w # "ticker"
BY MemoryAssumption DEF Workers, Watcher

\* A watcher that starts on an empty broker.
LEMMA InitInductive == Init => IInv
<1> SUFFICES ASSUME Init PROVE IInv
  OBVIOUS
<1>1. TypeOK
  <2>1. /\ fleet \in 1 .. MaxFleet /\ stream \in 0 .. MaxStream
        /\ events \in 0 .. Threshold /\ appending \in 0 .. Threshold - 1
    BY MemoryAssumption DEF Init
  <2>2. /\ memory \in Snapshots /\ kv \in Snapshots /\ late \in Snapshots
        /\ pc \in [Workers -> Places]
        /\ view \in [Workers -> Snapshots]
    BY SnapshotsAreInts DEF Init, Places
  <2>3. up \in BOOLEAN /\ clearing \in BOOLEAN /\ unsaved \in BOOLEAN /\ overtaken \subseteq Workers
    BY DEF Init
  <2>4. QED
    BY <2>1, <2>2, <2>3 DEF TypeOK
<1>2. \A w \in Workers : pc[w] = "idle" /\ view[w] = None
  BY DEF Init
<1>3. QED
  BY <1>1, <1>2, MemoryAssumption, SnapshotsAreInts, Goroutines
  DEF Init, IInv, CallbackHasEvent, RoomForEvents, CarriesToPush, NothingAhead,
      FreshUnlessOvertaken, SavedIsKept, None

-----------------------------------------------------------------------------
(* Around the dreamers *)

\* Stopping some workers leaves the others and what they carry alone.
LEMMA StopKeeps ==
    ASSUME IInv, NEW ws \in SUBSET Workers, Stop(ws)
    PROVE  /\ pc' \in [Workers -> Places]
           /\ view' \in [Workers -> Snapshots]
           /\ overtaken' \subseteq Workers
           /\ CarriesToPush' /\ NothingAhead' /\ FreshUnlessOvertaken' /\ SavedIsKept'
           /\ \A w \in Workers : pc'[w] = IF w \in ws THEN "idle" ELSE pc[w]
<1>0. TypeOK /\ CarriesToPush /\ NothingAhead /\ FreshUnlessOvertaken /\ SavedIsKept
  BY DEF IInv
<1>1. /\ pc' \in [Workers -> Places]
      /\ view' \in [Workers -> Snapshots]
      /\ overtaken' \subseteq Workers
  BY <1>0, SnapshotsAreInts DEF Places, Stop, TypeOK
<1>2. \A w \in Workers : /\ pc'[w] = IF w \in ws THEN "idle" ELSE pc[w]
                         /\ view'[w] = IF w \in ws THEN None ELSE view[w]
  BY DEF Stop
<1>3. UNCHANGED <<fleet, memory, kv, unsaved, late>> /\ overtaken' = overtaken \ ws
  BY DEF Stop, broker
<1>4. CarriesToPush'
  BY <1>0, <1>2 DEF CarriesToPush
<1>5. NothingAhead'
  BY <1>0, <1>2, <1>3 DEF NothingAhead, TypeOK, None
<1>6. FreshUnlessOvertaken' /\ SavedIsKept'
  BY <1>0, <1>2, <1>3 DEF FreshUnlessOvertaken, SavedIsKept
<1>7. QED
  BY <1>1, <1>2, <1>4, <1>5, <1>6

\* The fleet changes, the broker restarts, and dreamers start, stop and die.
LEMMA AroundKeeps ==
    ASSUME IInv,
           \/ FleetChanges \/ BrokerRestarts \/ WatcherDies \/ WatcherStarts
           \/ \E w \in Others : OtherDies(w)
    PROVE  IInv'
<1>0. /\ TypeOK /\ CallbackHasEvent /\ RoomForEvents /\ CarriesToPush /\ NothingAhead
      /\ FreshUnlessOvertaken /\ SavedIsKept
  BY DEF IInv
<1>1. CASE FleetChanges
  <2>1. /\ fleet' \in 1 .. MaxFleet /\ fleet <= fleet' /\ fleet \in Nat /\ fleet' \in Nat
        /\ stream' \in 0 .. MaxStream /\ stream <= stream'
    BY <1>0, <1>1, MemoryAssumption DEF FleetChanges, TypeOK
  <2>2. UNCHANGED <<memory, kv, unsaved, up, events, appending, clearing, pc, view, late, overtaken>>
    BY <1>1 DEF FleetChanges, broker
  <2>3. TypeOK' /\ CallbackHasEvent'
    BY <1>0, <2>1, <2>2 DEF TypeOK, CallbackHasEvent
  <2>4. NothingAhead'
    <3>1. /\ memory \in Int /\ kv \in Int /\ late \in Int
          /\ \A w \in Workers : view[w] \in Int
      BY <1>0, SnapshotsAreInts DEF TypeOK
    <3>2. \A n \in Int : n <= fleet => n <= fleet'
      BY <2>1
    <3>3. QED
      BY <1>0, <2>2, <3>1, <3>2 DEF NothingAhead
  <2>5. QED
    BY <1>0, <2>2, <2>3, <2>4
    DEF IInv, RoomForEvents, CarriesToPush, FreshUnlessOvertaken, SavedIsKept
<1>2. CASE BrokerRestarts
  <2>1. /\ memory' = kv /\ ~unsaved' /\ unsaved' \in BOOLEAN /\ late' = None
        /\ UNCHANGED <<fleet, kv, up, events, appending, clearing, stream, pc, view, overtaken>>
    BY <1>2 DEF BrokerRestarts, watch
  <2>2. TypeOK' /\ NothingAhead'
    BY <1>0, <2>1, SnapshotsAreInts DEF TypeOK, NothingAhead, None
  <2>3. QED
    BY <1>0, <2>1, <2>2
    DEF IInv, CallbackHasEvent, RoomForEvents, CarriesToPush, FreshUnlessOvertaken, SavedIsKept
<1>3. CASE WatcherDies
  <2>1. /\ up' \in BOOLEAN /\ clearing' \in BOOLEAN
        /\ events' = 0 /\ appending' = 0 /\ Stop(Watcher) /\ Watcher \subseteq Workers
        /\ UNCHANGED <<fleet, memory, kv, unsaved, late, stream>>
    BY <1>3 DEF WatcherDies, Stop, broker, Workers
  <2>2. pc'["callback"] = "idle"
    BY <2>1, StopKeeps, Goroutines DEF Watcher
  <2>3. TypeOK'
    BY <1>0, <2>1, StopKeeps, MemoryAssumption DEF TypeOK
  <2>4. CallbackHasEvent' /\ RoomForEvents'
    BY <2>1, <2>2, MemoryAssumption DEF CallbackHasEvent, RoomForEvents
  <2>5. QED
    BY <2>1, <2>3, <2>4, StopKeeps DEF IInv
<1>4. CASE WatcherStarts
  <2>1. /\ up' \in BOOLEAN
        /\ UNCHANGED <<fleet, memory, kv, unsaved, events, appending, clearing, stream, pc,
                       view, late, overtaken>>
    BY <1>4 DEF WatcherStarts, broker
  <2>2. QED
    BY <1>0, <2>1
    DEF IInv, TypeOK, CallbackHasEvent, RoomForEvents, CarriesToPush, NothingAhead,
        FreshUnlessOvertaken, SavedIsKept
<1>5. ASSUME NEW w \in Others, OtherDies(w) PROVE IInv'
  <2>1. /\ Stop({w}) /\ {w} \in SUBSET Workers /\ w # "callback"
        /\ UNCHANGED <<fleet, memory, kv, unsaved, late, up, events, appending, clearing, stream>>
    BY <1>5, Goroutines DEF OtherDies, Stop, broker, watch
  <2>2. pc'["callback"] = pc["callback"]
    BY <2>1, StopKeeps, Goroutines
  <2>3. TypeOK'
    BY <1>0, <2>1, StopKeeps DEF TypeOK
  <2>4. CallbackHasEvent' /\ RoomForEvents'
    BY <1>0, <2>1, <2>2 DEF CallbackHasEvent, RoomForEvents
  <2>5. QED
    BY <2>1, <2>3, <2>4, StopKeeps DEF IInv
<1>6. QED
  BY <1>1, <1>2, <1>3, <1>4, <1>5

-----------------------------------------------------------------------------
(* The dreamers *)

\* A dreamer that carries nothing moves on to a statement before the push.
LEMMA MovesOn ==
    ASSUME IInv, NEW w \in Workers, NEW to \in Places \ {"push"}, Goto(w, to),
           pc[w] # "push", UNCHANGED <<fleet, memory, kv, unsaved, view, late, overtaken>>
    PROVE  /\ pc' \in [Workers -> Places]
           /\ CarriesToPush' /\ NothingAhead' /\ FreshUnlessOvertaken' /\ SavedIsKept'
           /\ \A v \in Workers : pc'[v] = IF v = w THEN to ELSE pc[v]
<1>0. TypeOK /\ CarriesToPush /\ NothingAhead /\ FreshUnlessOvertaken /\ SavedIsKept
  BY DEF IInv
<1>1. /\ pc' \in [Workers -> Places]
      /\ \A v \in Workers : pc'[v] = IF v = w THEN to ELSE pc[v]
  BY <1>0 DEF Goto, TypeOK, Places
<1>2. CarriesToPush' /\ FreshUnlessOvertaken'
  BY <1>0, <1>1 DEF CarriesToPush, FreshUnlessOvertaken
<1>3. NothingAhead' /\ SavedIsKept'
  BY <1>0 DEF NothingAhead, SavedIsKept
<1>4. QED
  BY <1>1, <1>2, <1>3

\* What starts a snapshot: the callback, the ticker, a one-shot dream.
LEMMA StartsKeep ==
    ASSUME IInv,
           \/ CallbackReads \/ CallbackAppends \/ CallbackChecks \/ Tick
           \/ \E w \in Others : CliDream(w)
    PROVE  IInv'
<1>0. TypeOK /\ CallbackHasEvent /\ RoomForEvents
  BY DEF IInv
<1> USE DEF broker, watch, Places
<1>1. CASE CallbackReads
  <2>1. /\ pc' \in [Workers -> Places]
        /\ CarriesToPush' /\ NothingAhead' /\ FreshUnlessOvertaken' /\ SavedIsKept'
        /\ pc'["callback"] = "append"
    BY <1>1, MovesOn, Goroutines DEF CallbackReads
  <2>2. /\ events < Threshold /\ appending' = events /\ stream > 0
        /\ UNCHANGED <<fleet, memory, kv, unsaved, up, events, clearing, stream, view, late, overtaken>>
    BY <1>0, <1>1 DEF CallbackReads, RoomForEvents
  <2>3. appending' \in 0 .. Threshold - 1
    BY <1>0, <2>2, MemoryAssumption DEF TypeOK
  <2>4. QED
    BY <1>0, <2>1, <2>2, <2>3 DEF IInv, TypeOK, CallbackHasEvent, RoomForEvents
<1>2. CASE CallbackAppends
  <2>1. /\ pc["callback"] = "append" /\ stream > 0
        /\ events' = appending + 1 /\ appending' = 0 /\ Goto("callback", "check")
        /\ UNCHANGED <<fleet, memory, kv, unsaved, up, clearing, stream, view, late, overtaken>>
    BY <1>0, <1>2 DEF CallbackAppends, CallbackHasEvent
  <2>2. events' \in 0 .. Threshold /\ appending' \in 0 .. Threshold - 1
    BY <1>0, <2>1, MemoryAssumption DEF TypeOK
  <2>3. /\ pc' \in [Workers -> Places]
        /\ CarriesToPush' /\ NothingAhead' /\ FreshUnlessOvertaken' /\ SavedIsKept'
        /\ pc'["callback"] = "check"
    BY <2>1, MovesOn, Goroutines
  <2>4. CallbackHasEvent' /\ RoomForEvents'
    BY <2>1, <2>3 DEF CallbackHasEvent, RoomForEvents
  <2>5. QED
    BY <1>0, <2>1, <2>2, <2>3, <2>4 DEF IInv, TypeOK
<1>3. CASE CallbackChecks
  <2>1. /\ pc["callback"] = "check" /\ stream > 0
        /\ \/ events >= Threshold /\ Goto("callback", "fetch") /\ UNCHANGED stream
           \/ ~(events >= Threshold) /\ Goto("callback", "idle") /\ stream' = stream - 1
        /\ UNCHANGED <<fleet, memory, kv, unsaved, up, events, appending, clearing, view, late,
                       overtaken>>
    BY <1>0, <1>3 DEF CallbackChecks, CallbackHasEvent
  <2>2. stream' \in 0 .. MaxStream
    BY <1>0, <2>1, MemoryAssumption DEF TypeOK
  <2>3. /\ pc' \in [Workers -> Places]
        /\ CarriesToPush' /\ NothingAhead' /\ FreshUnlessOvertaken' /\ SavedIsKept'
        /\ \/ pc'["callback"] = "fetch" /\ UNCHANGED stream
           \/ ~(events >= Threshold) /\ pc'["callback"] = "idle"
    BY <2>1, MovesOn, Goroutines
  <2>4. CallbackHasEvent' /\ RoomForEvents'
    BY <1>0, <2>1, <2>2, <2>3, MemoryAssumption DEF CallbackHasEvent, RoomForEvents, TypeOK
  <2>5. QED
    BY <1>0, <2>1, <2>2, <2>3, <2>4 DEF IInv, TypeOK
<1>4. CASE Tick
  <2>1. /\ pc' \in [Workers -> Places]
        /\ CarriesToPush' /\ NothingAhead' /\ FreshUnlessOvertaken' /\ SavedIsKept'
        /\ pc'["callback"] = pc["callback"]
    BY <1>4, MovesOn, Goroutines DEF Tick
  <2>2. /\ clearing' \in BOOLEAN
        /\ UNCHANGED <<fleet, memory, kv, unsaved, up, events, appending, stream, view, late, overtaken>>
    BY <1>4 DEF Tick
  <2>3. QED
    BY <1>0, <2>1, <2>2 DEF IInv, TypeOK, CallbackHasEvent, RoomForEvents
<1>5. ASSUME NEW w \in Others, CliDream(w) PROVE IInv'
  <2>1. /\ pc' \in [Workers -> Places]
        /\ CarriesToPush' /\ NothingAhead' /\ FreshUnlessOvertaken' /\ SavedIsKept'
        /\ pc'["callback"] = pc["callback"]
    BY <1>5, MovesOn, Goroutines DEF CliDream
  <2>2. UNCHANGED <<fleet, memory, kv, unsaved, up, events, appending, clearing, stream, view,
                    late, overtaken>>
    BY <1>5 DEF CliDream
  <2>3. QED
    BY <1>0, <2>1, <2>2 DEF IInv, TypeOK, CallbackHasEvent, RoomForEvents
<1>6. QED
  BY <1>1, <1>2, <1>3, <1>4, <1>5

\* A fetch is as new as everything there is, or it has failed.
LEMMA FetchKeeps ==
    ASSUME IInv, NEW w \in Workers, NEW seen \in Snapshots, Fetch(w, seen)
    PROVE  IInv'
<1>0. /\ TypeOK /\ CallbackHasEvent /\ RoomForEvents /\ CarriesToPush /\ NothingAhead
      /\ FreshUnlessOvertaken /\ SavedIsKept
  BY DEF IInv
<1>1. /\ pc[w] = "fetch" /\ seen \in {fleet, Empty} /\ overtaken' = overtaken \ {w}
      /\ UNCHANGED <<fleet, memory, kv, unsaved, up, events, appending, clearing, stream, late>>
  BY DEF Fetch, broker, watch
<1>2. /\ pc' \in [Workers -> Places]
      /\ view' \in [Workers -> Snapshots]
      /\ \A v \in Workers : /\ pc'[v] = IF v = w THEN "push" ELSE pc[v]
                            /\ view'[v] = IF v = w THEN seen ELSE view[v]
  BY <1>0 DEF Places, Fetch, Goto, TypeOK
<1>3. seen # None /\ seen <= fleet /\ (seen = Empty \/ (seen >= memory /\ seen >= kv))
  BY <1>0, <1>1, SnapshotsAreInts, MemoryAssumption DEF TypeOK, NothingAhead, None, Empty
<1>4. TypeOK'
  BY <1>0, <1>1, <1>2 DEF TypeOK
<1>5. CallbackHasEvent' /\ RoomForEvents'
  BY <1>0, <1>1, <1>2, Goroutines DEF CallbackHasEvent, RoomForEvents
<1>6. CarriesToPush' /\ NothingAhead' /\ FreshUnlessOvertaken' /\ SavedIsKept'
  BY <1>0, <1>1, <1>2, <1>3 DEF CarriesToPush, NothingAhead, FreshUnlessOvertaken, SavedIsKept
<1>7. QED
  BY <1>4, <1>5, <1>6 DEF IInv

\* A dreamer that is through has handed over its snapshot and let go of its events.
LEMMA FinishKeeps ==
    ASSUME IInv, NEW w \in Workers, pc[w] = "push", Finish(w)
    PROVE  /\ pc' \in [Workers -> Places]
           /\ view' \in [Workers -> Snapshots]
           /\ \A v \in Workers : /\ pc'[v] = IF v = w THEN "idle" ELSE pc[v]
                                 /\ view'[v] = IF v = w THEN None ELSE view[v]
           /\ events' \in 0 .. Threshold /\ clearing' \in BOOLEAN /\ stream' \in 0 .. MaxStream
           /\ CallbackHasEvent' /\ RoomForEvents' /\ CarriesToPush'
<1>0. TypeOK /\ CallbackHasEvent /\ RoomForEvents /\ CarriesToPush
  BY DEF IInv
<1>1. /\ pc' \in [Workers -> Places]
      /\ view' \in [Workers -> Snapshots]
      /\ \A v \in Workers : /\ pc'[v] = IF v = w THEN "idle" ELSE pc[v]
                            /\ view'[v] = IF v = w THEN None ELSE view[v]
  BY <1>0, SnapshotsAreInts DEF Places, Finish, Goto, TypeOK
<1>2. clearing' \in BOOLEAN
  BY DEF Finish
<1>3. /\ events' \in {0, events}
      /\ w = "callback" => events' = 0
      /\ stream' = IF w = "callback" THEN stream - 1 ELSE stream
  BY DEF Finish
<1>4. CarriesToPush'
  BY <1>0, <1>1 DEF CarriesToPush
<1>5. CASE w = "callback"
  <2>1. pc'["callback"] = "idle" /\ stream > 0 /\ events' = 0 /\ stream' = stream - 1
    BY <1>0, <1>1, <1>3, <1>5 DEF CallbackHasEvent, Finish
  <2>2. QED
    BY <1>0, <1>1, <1>2, <1>4, <2>1, MemoryAssumption
    DEF TypeOK, CallbackHasEvent, RoomForEvents
<1>6. CASE w # "callback"
  <2>1. /\ pc'["callback"] = pc["callback"] /\ stream' = stream
        /\ events' \in {0, events}
    BY <1>1, <1>6, Goroutines DEF Finish
  <2>2. QED
    BY <1>0, <1>1, <1>2, <1>4, <2>1, MemoryAssumption
    DEF TypeOK, CallbackHasEvent, RoomForEvents
<1>7. QED
  BY <1>5, <1>6

\* The broker stores a snapshot, and everybody who carries one is overtaken.
LEMMA StoresKeep ==
    ASSUME IInv, NEW content \in Snapshots, NEW saved \in BOOLEAN,
           SetFleetMemory(content, saved), content <= fleet,
           UNCHANGED fleet, late' \in Snapshots, late' <= fleet,
           \A v \in Workers : view'[v] \in {None, view[v]} /\ (pc'[v] = "push" => view[v] # None),
           \A v \in Workers : pc'[v] = "push" => v \in overtaken'
    PROVE  /\ memory' \in Snapshots /\ kv' \in Snapshots /\ unsaved' \in BOOLEAN
           /\ NothingAhead' /\ FreshUnlessOvertaken' /\ SavedIsKept'
<1>0. TypeOK /\ NothingAhead
  BY DEF IInv
<1>1. memory' = content /\ kv' \in {content, kv} /\ unsaved' = ~saved /\ (saved => kv' = content)
  BY DEF SetFleetMemory
<1>2. NothingAhead'
  BY <1>0, <1>1, MemoryAssumption DEF TypeOK, NothingAhead, None
<1>3. FreshUnlessOvertaken' /\ SavedIsKept'
  BY <1>1 DEF FreshUnlessOvertaken, SavedIsKept
<1>4. QED
  BY <1>0, <1>1, <1>2, <1>3 DEF TypeOK

\* A push that reaches the broker, one that does not, and one that comes late.
LEMMA PushKeeps ==
    ASSUME IInv,
           \/ \E w \in Workers : PushLost(w) \/ \E saved \in BOOLEAN : Push(w, saved)
           \/ \E saved \in BOOLEAN : LatePush(saved)
    PROVE  IInv'
<1>0. /\ TypeOK /\ CallbackHasEvent /\ RoomForEvents /\ CarriesToPush /\ NothingAhead
      /\ FreshUnlessOvertaken /\ SavedIsKept
  BY DEF IInv
<1>1. ASSUME NEW w \in Workers, NEW saved \in BOOLEAN, Push(w, saved) PROVE IInv'
  <2>1. /\ pc[w] = "push" /\ Finish(w) /\ SetFleetMemory(view[w], saved)
        /\ overtaken' = Overtaken(w) \ {w} /\ UNCHANGED <<fleet, late, up, appending>>
    BY <1>1 DEF Push, Finish
  <2>2. \A v \in Workers : /\ pc'[v] = IF v = w THEN "idle" ELSE pc[v]
                           /\ view'[v] = IF v = w THEN None ELSE view[v]
    BY <2>1, FinishKeeps
  <2>3. \A v \in Workers : pc'[v] = "push" => view[v] # None /\ v \in overtaken'
    BY <1>0, <2>1, <2>2 DEF Overtaken, CarriesToPush
  <2>4. view[w] \in Snapshots /\ view[w] <= fleet /\ late' \in Snapshots /\ late' <= fleet
    BY <1>0, <2>1 DEF TypeOK, NothingAhead
  <2>5. /\ memory' \in Snapshots /\ kv' \in Snapshots /\ unsaved' \in BOOLEAN
        /\ NothingAhead' /\ FreshUnlessOvertaken' /\ SavedIsKept'
    <3>1. \A v \in Workers : view'[v] \in {None, view[v]}
      BY <2>2
    <3>2. QED
      BY <2>1, <2>3, <2>4, <3>1, StoresKeep
  <2>6. overtaken' \subseteq Workers
    BY <1>0, <2>1 DEF Overtaken, TypeOK
  <2>7. TypeOK'
    BY <1>0, <2>1, <2>5, <2>6, FinishKeeps DEF TypeOK
  <2>8. QED
    BY <2>1, <2>5, <2>7, FinishKeeps DEF IInv
<1>2. ASSUME NEW w \in Workers, PushLost(w) PROVE IInv'
  <2>1. /\ pc[w] = "push" /\ Finish(w) /\ late' \in {late, view[w]}
        /\ overtaken' = overtaken \ {w}
        /\ UNCHANGED <<fleet, memory, kv, unsaved, up, appending>>
    BY <1>2 DEF PushLost, Finish, broker
  <2>2. \A v \in Workers : /\ pc'[v] = IF v = w THEN "idle" ELSE pc[v]
                           /\ view'[v] = IF v = w THEN None ELSE view[v]
    BY <2>1, FinishKeeps
  <2>3. late' \in Snapshots /\ late' <= fleet
    BY <1>0, <2>1 DEF TypeOK, NothingAhead
  <2>4. NothingAhead'
    BY <1>0, <2>1, <2>2, <2>3, MemoryAssumption DEF NothingAhead, TypeOK, None
  <2>5. FreshUnlessOvertaken' /\ SavedIsKept'
    BY <1>0, <2>1, <2>2 DEF FreshUnlessOvertaken, SavedIsKept
  <2>6. TypeOK'
    BY <1>0, <2>1, <2>3, FinishKeeps DEF TypeOK
  <2>7. QED
    BY <2>1, <2>4, <2>5, <2>6, FinishKeeps DEF IInv
<1>3. ASSUME NEW saved \in BOOLEAN, LatePush(saved) PROVE IInv'
  <2>1. /\ SetFleetMemory(late, saved) /\ late' = None
        /\ overtaken' = {o \in Workers : view[o] # None}
        /\ UNCHANGED <<fleet, up, events, appending, clearing, stream, pc, view>>
    BY <1>3 DEF LatePush, watch
  <2>2. /\ late \in Snapshots /\ late <= fleet /\ late' \in Snapshots /\ late' <= fleet
    BY <1>0, <2>1, SnapshotsAreInts DEF TypeOK, NothingAhead, None
  <2>3. \A v \in Workers : pc'[v] = "push" => view[v] # None /\ v \in overtaken'
    BY <1>0, <2>1 DEF CarriesToPush
  <2>4. /\ memory' \in Snapshots /\ kv' \in Snapshots /\ unsaved' \in BOOLEAN
        /\ NothingAhead' /\ FreshUnlessOvertaken' /\ SavedIsKept'
    BY <2>1, <2>2, <2>3, StoresKeep
  <2>5. QED
    BY <1>0, <2>1, <2>2, <2>4
    DEF IInv, TypeOK, CallbackHasEvent, RoomForEvents, CarriesToPush
<1>4. QED
  BY <1>1, <1>2, <1>3

-----------------------------------------------------------------------------
(* The theorems *)

\* IInv holds whatever dreamers and broker do.
LEMMA InductiveInvariant == Spec => []IInv
<1>1. IInv /\ [Next]_vars => IInv'
  <2> SUFFICES ASSUME IInv, [Next]_vars PROVE IInv'
    OBVIOUS
  <2>1. CASE Next
    BY <2>1, AroundKeeps, StartsKeep, FetchKeeps, PushKeeps DEF Next, WorkerStep
  <2>2. CASE UNCHANGED vars
    BY <2>2
    DEF vars, broker, watch, IInv, TypeOK, CallbackHasEvent, RoomForEvents, CarriesToPush,
        NothingAhead, FreshUnlessOvertaken, SavedIsKept
  <2>3. QED
    BY <2>1, <2>2
<1>2. QED
  BY <1>1, InitInductive, PTL DEF Spec

\* The watcher's slice never outgrows the threshold although callback and ticker write
\* it without a lock, and no event is acknowledged that was not in the stream.
THEOREM TypeCorrect == Spec => []TypeOK
BY InductiveInvariant, PTL DEF IInv

\* With any number of dreamers, setFleetMemory replaces a snapshot by an older one only
\* when the fetch had failed, another push came in between, the dreamer had given the
\* push up, or a restart brought back a row of kv whose last write had failed.
THEOREM MemoryGoesBack == Spec => MemoryGoesBackOnlyFor
<1>1. IInv /\ [Next]_vars =>
         [memory' < memory =>
            \/ memory' = Empty
            \/ \E w \in overtaken : pc[w] = "push" /\ pc'[w] = "idle"
            \/ late # None /\ late' = None /\ memory' = late
            \/ unsaved]_vars
  <2> SUFFICES ASSUME IInv, Next, memory' < memory
               PROVE  \/ memory' = Empty
                      \/ \E w \in overtaken : pc[w] = "push" /\ pc'[w] = "idle"
                      \/ late # None /\ late' = None /\ memory' = late
                      \/ unsaved
    OBVIOUS
  <2>0. memory \in Int
    BY SnapshotsAreInts DEF IInv, TypeOK
  <2>1. CASE UNCHANGED memory
    BY <2>0, <2>1
  <2>2. CASE BrokerRestarts
    BY <2>0, <2>2 DEF BrokerRestarts, IInv, SavedIsKept
  <2>3. ASSUME NEW w \in Workers, NEW saved \in BOOLEAN, Push(w, saved), memory' # Empty
        PROVE  w \in overtaken /\ pc[w] = "push" /\ pc'[w] = "idle"
    <3>1. pc[w] = "push" /\ memory' = view[w] /\ Finish(w)
      BY <2>3 DEF Push, SetFleetMemory
    <3>2. pc'[w] = "idle"
      BY <3>1, FinishKeeps
    <3>3. view[w] \in Int
      BY SnapshotsAreInts DEF IInv, TypeOK
    <3>4. w \in overtaken
      BY <2>0, <2>3, <3>1, <3>3 DEF IInv, FreshUnlessOvertaken
    <3>5. QED
      BY <3>1, <3>2, <3>4
  <2>4. ASSUME NEW saved \in BOOLEAN, LatePush(saved)
        PROVE  late # None /\ late' = None /\ memory' = late
    BY <2>4 DEF LatePush, SetFleetMemory
  <2>5. QED
    BY <2>1, <2>2, <2>3, <2>4
    DEF Next, WorkerStep, broker, FleetChanges, WatcherDies, WatcherStarts, Stop,
        OtherDies, CliDream, CallbackReads, CallbackAppends, CallbackChecks,
        Tick, Fetch, PushLost
<1>2. QED
  BY <1>1, InductiveInvariant, PTL DEF Spec, MemoryGoesBackOnlyFor
=============================================================================
