---------------------------- MODULE FlowTracking ----------------------------
(***************************************************************************)
(* How internal/poller turns the conntrack table of one firewall into      *)
(* stored history.  A poller goroutine (Poller.Run) rebuilds its open-     *)
(* session map from the store, then polls for ever: it reads the device's  *)
(* table, applies every listed flow and closes every tracked session the   *)
(* listing lacks.  Every store call is a step of its own, so that anything *)
(* else may happen between two of them:                                    *)
(*   - the traffic on the firewall goes on;                                *)
(*   - the poller Manager stops the poller, or starts another one.  Stop   *)
(*     cancels a context that only Run's select looks at and does not wait *)
(*     for the goroutine, so a stopped poller finishes the poll it is in   *)
(*     and may overlap its successor;                                      *)
(*   - the Settings page clears the history, then restarts the poller;     *)
(*   - a store call fails (disk full, busy for longer than busy_timeout);  *)
(*   - the process dies and is started again.                              *)
(* A goroutine runs in a slot; the number of slots bounds how many overlap.*)
(***************************************************************************)
EXTENDS FlowStore, FiniteSetsExt

CONSTANTS
    Slots,         \* places a poller goroutine can run in
    NoSlot,        \* no poller is registered
    NoKey,         \* no flow is being applied
    CountersReset, \* may the device's byte counters go backwards?
    MaxCarried,    \* bound: bytes a service carries
    MaxRolledUp,   \* bound: no poll starts with more bytes than this in a bucket
    MaxMisreads,   \* bound: listings that are not read as they are
    MaxErrors,     \* bound: store calls that fail
    MaxStops,      \* bound: times Manager.Reload stops the poller
    MaxClears,     \* bound: uses of Clear database
    MaxCrashes     \* bound: deaths of the process

ASSUME SlotAssumption ==
    /\ NoSlot \notin Slots
    /\ NoKey \notin Keys

ASSUME BoundAssumption ==
    /\ CountersReset \in BOOLEAN
    /\ {MaxCarried, MaxRolledUp, MaxMisreads, MaxErrors, MaxStops, MaxClears, MaxCrashes} \subseteq Nat

VARIABLES
    live,       \* the device's conntrack table: key |-> flow
    carried,    \* observer: bytes each service ever carried
    pc,         \* where each poller goroutine is
    cancelled,  \* has the goroutine's context been cancelled?
    open,       \* Poller.open: key |-> tracked session
    snap,       \* the listing being applied: key |-> flow
    todo,       \* keys of it (then of open) not yet handled
    cur,        \* the key being applied
    newId,      \* the id InsertSession returned
    current,    \* the goroutine Manager.running refers to
    clearing,   \* is handleClearDatabase between its two calls?
    requested,  \* addresses a reputation lookup was requested for
    misreads, errors, stops, clears, crashes  \* uses made of the bounds

deviceVars == <<live, carried>>
pollerVars == <<pc, cancelled, open, snap, todo, cur, newId>>
managerVars == <<current, clearing>>
countVars == <<misreads, errors, stops, clears, crashes>>
vars == <<storeVars, deviceVars, pollerVars, managerVars, requested, countVars>>

Tracked == [id : Nat, bytes : Nat, state : TcpStates]
Locations == {"idle", "load", "poll", "apply", "start", "bumpNew", "track",
              "bump", "sample", "close", "wait"}

EmptyMap == [k \in {} |-> {}]

-----------------------------------------------------------------------------
(* The firewall.  Bytes of a service stay within MaxCarried.  A device step *)
(* touches nothing but the device and only a listing reads it, so it       *)
(* commutes with every other step: it is enough to let the device move     *)
(* while some poller is about to read the listing.                         *)

DeviceStep ==
    /\ \E p \in Slots : pc[p] = "poll"
    /\ UNCHANGED <<storeVars, pollerVars, managerVars, requested, countVars>>

Carry(key) ==
    /\ carried[key.service] < MaxCarried
    /\ carried' = [carried EXCEPT ![key.service] = @ + 1]

Grown(flow) == [flow EXCEPT !.bytes = @ + 1]
WithoutBytes(flow) == [flow EXCEPT !.bytes = 0]

FlowStarts(key) ==
    /\ key \notin DOMAIN live
    /\ Carry(key)
    /\ \E app \in Apps, state \in TcpStates :
         live' = [k \in DOMAIN live \cup {key} |->
                    IF k = key THEN [app |-> app, state |-> state, bytes |-> 1]
                               ELSE live[k]]
    /\ DeviceStep

FlowCarries(key) ==
    /\ key \in DOMAIN live
    /\ Carry(key)
    /\ live' = [live EXCEPT ![key] = Grown(@)]
    /\ DeviceStep

(* The TCP state moves, or DPI settles on another application. *)
FlowReclassified(key) ==
    /\ key \in DOMAIN live
    /\ \E app \in Apps, state \in TcpStates :
         /\ <<app, state>> # <<live[key].app, live[key].state>>
         /\ live' = [live EXCEPT ![key] = [@ EXCEPT !.app = app, !.state = state]]
    /\ UNCHANGED carried
    /\ DeviceStep

CounterResets(key) ==
    /\ CountersReset
    /\ key \in DOMAIN live
    /\ live[key].bytes > 0
    /\ live' = [live EXCEPT ![key] = WithoutBytes(@)]
    /\ UNCHANGED carried
    /\ DeviceStep

FlowEnds(key) ==
    /\ key \in DOMAIN live
    /\ live' = [k \in DOMAIN live \ {key} |-> live[k]]
    /\ UNCHANGED carried
    /\ DeviceStep

Device ==
    \E key \in Keys :
      \/ FlowStarts(key)
      \/ FlowCarries(key)
      \/ FlowReclassified(key)
      \/ CounterResets(key)
      \/ FlowEnds(key)

-----------------------------------------------------------------------------
(* A poller goroutine.                                                     *)

GoTo(p, location) == pc' = [pc EXCEPT ![p] = location]

AnyPollerFrame == UNCHANGED <<deviceVars, cancelled, managerVars, stops, clears, crashes>>
PollerFrame == AnyPollerFrame /\ UNCHANGED misreads

(* A store call of the poller returns an error and has no effect. *)
StoreFails ==
    /\ errors < MaxErrors
    /\ errors' = errors + 1
    /\ UNCHANGED storeVars

StoreSucceeds == UNCHANGED errors

(* Bug: the baseline of a resumed session is not restored. *)
ResumedSession_NoBaseline(id) ==
    [id |-> id, bytes |-> 0, state |-> sessions[id].state]

ResumedSession(id) ==
    [id |-> id, bytes |-> sessions[id].bytes, state |-> sessions[id].state]

(* Run carries on with an empty map when loading fails. *)
LoadOpenSessions(p) ==
    /\ pc[p] = "load"
    /\ \/ /\ \E found \in OpenSessions :
               open' = [open EXCEPT ![p] = [k \in DOMAIN found |-> ResumedSession(found[k])]]
          /\ UNCHANGED storeVars
          /\ StoreSucceeds
       \/ /\ StoreFails
          /\ UNCHANGED open
    /\ GoTo(p, "poll")
    /\ UNCHANGED <<snap, todo, cur, newId, requested>>
    /\ PollerFrame

(* pollOnce with both commands answered: the listing is what ApplyPoll is
   given, whatever the device does meanwhile. *)
PollSucceeds(p) ==
    /\ pc[p] = "poll"
    /\ \A b \in DOMAIN usage : usage[b].bytes <= MaxRolledUp
    /\ snap' = [snap EXCEPT ![p] = live]
    /\ todo' = [todo EXCEPT ![p] = DOMAIN live]
    /\ GoTo(p, "apply")
    /\ StoreSucceeds
    /\ UNCHANGED <<storeVars, open, cur, newId, requested>>
    /\ PollerFrame

(* The listing was damaged on its way, or other output came between its
   lines: ParseConntrackFlows skips a line that does not have the form of a
   flow, and reads a byte counter that is no number as zero. *)
PollMisreads(p) ==
    /\ pc[p] = "poll"
    /\ \A b \in DOMAIN usage : usage[b].bytes <= MaxRolledUp
    /\ misreads < MaxMisreads
    /\ misreads' = misreads + 1
    /\ \E read \in SUBSET DOMAIN live : \E garbled \in SUBSET read :
         /\ read # DOMAIN live \/ \E k \in garbled : live[k].bytes > 0
         /\ snap' = [snap EXCEPT ![p] =
                       [k \in read |-> IF k \in garbled THEN WithoutBytes(live[k]) ELSE live[k]]]
         /\ todo' = [todo EXCEPT ![p] = read]
    /\ GoTo(p, "apply")
    /\ StoreSucceeds
    /\ UNCHANGED <<storeVars, open, cur, newId, requested>>
    /\ AnyPollerFrame

(* Either command failed: the failure is recorded, nothing is applied. *)
PollFails(p) ==
    /\ pc[p] = "poll"
    /\ GoTo(p, "wait")
    /\ StoreSucceeds
    /\ UNCHANGED <<storeVars, open, snap, todo, cur, newId, requested>>
    /\ PollerFrame

(* applyFlow returns an error: ApplyPoll logs it and takes the next flow. *)
Abandon(p) ==
    /\ GoTo(p, "apply")
    /\ UNCHANGED <<open, requested>>

(* The first store call of applyFlow: INSERT for an unknown key. *)
ApplyNewFlow(p) ==
    /\ pc[p] = "apply"
    /\ \E key \in todo[p] :
         /\ key \notin DOMAIN open[p]
         /\ todo' = [todo EXCEPT ![p] = @ \ {key}]
         /\ cur' = [cur EXCEPT ![p] = key]
         /\ \/ /\ InsertSession(key, snap[p][key])
               /\ StoreSucceeds
               /\ newId' = [newId EXCEPT ![p] = nextId]
               /\ GoTo(p, "start")
               /\ UNCHANGED <<open, requested>>
            \/ /\ StoreFails
               /\ UNCHANGED newId
               /\ Abandon(p)
    /\ UNCHANGED snap
    /\ PollerFrame

(* The first store call of applyFlow for a tracked key: UPDATE. *)
ApplyKnownFlow(p) ==
    /\ pc[p] = "apply"
    /\ \E key \in todo[p] :
         /\ key \in DOMAIN open[p]
         /\ todo' = [todo EXCEPT ![p] = @ \ {key}]
         /\ cur' = [cur EXCEPT ![p] = key]
         /\ \/ /\ UpdateSession(open[p][key].id, snap[p][key])
               /\ StoreSucceeds
               /\ GoTo(p, "bump")
               /\ UNCHANGED <<open, requested>>
            \/ /\ StoreFails
               /\ Abandon(p)
    /\ UNCHANGED <<snap, newId>>
    /\ PollerFrame

(* New flow: its "start" sample, refused if the row was cleared meanwhile. *)
StartSample(p) ==
    /\ pc[p] = "start"
    /\ \/ /\ InsertSample(newId[p], "start", snap[p][cur[p]])
          /\ StoreSucceeds
          /\ GoTo(p, "bumpNew")
          /\ UNCHANGED <<open, requested>>
       \/ /\ ~SampleAllowed(newId[p])
          /\ UNCHANGED storeVars
          /\ StoreSucceeds
          /\ Abandon(p)
       \/ /\ StoreFails
          /\ Abandon(p)
    /\ UNCHANGED <<snap, todo, cur, newId>>
    /\ PollerFrame

(* Bug: the first listing of a flow is its baseline, without bytes of its own. *)
BumpNewSession_NoBytes(p) ==
    /\ pc[p] = "bumpNew"
    /\ BumpPortUsage(cur[p], snap[p][cur[p]].app, 0, TRUE)
    /\ GoTo(p, "track")
    /\ StoreSucceeds
    /\ UNCHANGED <<open, requested, snap, todo, cur, newId>>
    /\ PollerFrame

BumpNewSession(p) ==
    /\ pc[p] = "bumpNew"
    /\ LET flow == snap[p][cur[p]] IN
         \/ /\ BumpPortUsage(cur[p], flow.app, flow.bytes, TRUE)
            /\ StoreSucceeds
            /\ GoTo(p, "track")
            /\ UNCHANGED <<open, requested>>
         \/ /\ StoreFails
            /\ Abandon(p)
    /\ UNCHANGED <<snap, todo, cur, newId>>
    /\ PollerFrame

(* Bug: the check looks at the wrong end of the flow. *)
LookupsFor_Source(key) == IF IsPrivateOrReserved(key.src) THEN {} ELSE {key.dst}

LookupsFor(key) == IF IsPrivateOrReserved(key.dst) THEN {} ELSE {key.dst}

(* The reputation callback for a public destination, then the map entry. *)
TrackSession(p) ==
    /\ pc[p] = "track"
    /\ LET key == cur[p]
           flow == snap[p][key]
           tracked == [id |-> newId[p], bytes |-> flow.bytes, state |-> flow.state]
       IN  /\ requested' = requested \cup LookupsFor(key)
           /\ open' = [open EXCEPT ![p] = [k \in DOMAIN @ \cup {key} |->
                                             IF k = key THEN tracked ELSE @[k]]]
    /\ GoTo(p, "apply")
    /\ StoreSucceeds
    /\ UNCHANGED <<storeVars, snap, todo, cur, newId>>
    /\ PollerFrame

(* Bug: a difference that is not clamped. *)
Delta_Unclamped(p) == snap[p][cur[p]].bytes - open[p][cur[p]].bytes

(* Bytes since the tracked baseline; counters that went backwards count 0. *)
Delta(p) ==
    LET grown == snap[p][cur[p]].bytes - open[p][cur[p]].bytes
    IN  IF grown < 0 THEN 0 ELSE grown

BumpKnownSession(p) ==
    /\ pc[p] = "bump"
    /\ \/ /\ BumpPortUsage(cur[p], snap[p][cur[p]].app, Delta(p), FALSE)
          /\ StoreSucceeds
          /\ GoTo(p, "sample")
          /\ UNCHANGED <<open, requested>>
       \/ /\ StoreFails
          /\ Abandon(p)
    /\ UNCHANGED <<snap, todo, cur, newId>>
    /\ PollerFrame

Settled(tracked, flow) == [tracked EXCEPT !.bytes = flow.bytes, !.state = flow.state]

(* The end of applyFlow: the listing becomes the tracked baseline. *)
Settle(p) ==
    LET flow == snap[p][cur[p]] IN
      /\ open' = [open EXCEPT ![p][cur[p]] = Settled(@, flow)]
      /\ GoTo(p, "apply")
      /\ UNCHANGED requested

(* Bug: a failed sample is logged and the baseline moves all the same. *)
SampleAndSettle_Anyway(p) ==
    /\ pc[p] = "sample"
    /\ LET flow == snap[p][cur[p]]
           event == IF flow.state # open[p][cur[p]].state THEN "state_change" ELSE "heartbeat"
       IN  \/ InsertSample(open[p][cur[p]].id, event, flow) /\ StoreSucceeds
           \/ StoreFails
    /\ Settle(p)
    /\ UNCHANGED <<snap, todo, cur, newId>>
    /\ PollerFrame

(* A state change is always sampled; without one the sample is a heartbeat,
   written when HeartbeatInterval has passed, which may or may not be so. *)
SampleAndSettle(p) ==
    /\ pc[p] = "sample"
    /\ LET flow == snap[p][cur[p]]
           tracked == open[p][cur[p]]
           stateChanged == flow.state # tracked.state
           event == IF stateChanged THEN "state_change" ELSE "heartbeat"
       IN  \/ /\ InsertSample(tracked.id, event, flow)
              /\ StoreSucceeds
              /\ Settle(p)
           \/ /\ ~SampleAllowed(tracked.id)
              /\ UNCHANGED storeVars
              /\ StoreSucceeds
              /\ Abandon(p)
           \/ /\ StoreFails
              /\ Abandon(p)
           \/ /\ ~stateChanged
              /\ UNCHANGED storeVars
              /\ StoreSucceeds
              /\ Settle(p)
    /\ UNCHANGED <<snap, todo, cur, newId>>
    /\ PollerFrame

(* Every listed flow is done: closeMissing ranges over the tracked keys the
   listing lacks. *)
BeginClosing(p) ==
    /\ pc[p] = "apply"
    /\ todo[p] = {}
    /\ todo' = [todo EXCEPT ![p] = DOMAIN open[p] \ DOMAIN snap[p]]
    /\ GoTo(p, "close")
    /\ StoreSucceeds
    /\ UNCHANGED <<storeVars, open, snap, cur, newId, requested>>
    /\ PollerFrame

(* A session that could not be closed stays tracked, for the next poll. *)
CloseMissing(p) ==
    /\ pc[p] = "close"
    /\ \E key \in todo[p] :
         /\ todo' = [todo EXCEPT ![p] = @ \ {key}]
         /\ \/ /\ CloseSession(open[p][key].id)
               /\ StoreSucceeds
               /\ open' = [open EXCEPT ![p] = [k \in DOMAIN @ \ {key} |-> @[k]]]
            \/ /\ StoreFails
               /\ UNCHANGED open
    /\ UNCHANGED <<pc, snap, cur, newId, requested>>
    /\ PollerFrame

EndPoll(p) ==
    /\ pc[p] = "close"
    /\ todo[p] = {}
    /\ snap' = [snap EXCEPT ![p] = EmptyMap]
    /\ cur' = [cur EXCEPT ![p] = NoKey]
    /\ newId' = [newId EXCEPT ![p] = 0]
    /\ GoTo(p, "wait")
    /\ StoreSucceeds
    /\ UNCHANGED <<storeVars, open, todo, requested>>
    /\ PollerFrame

(* The select of Run: the ticker fires.  With the context cancelled as well,
   select picks either ready case. *)
TickerFires(p) ==
    /\ pc[p] = "wait"
    /\ GoTo(p, "poll")
    /\ StoreSucceeds
    /\ UNCHANGED <<storeVars, open, snap, todo, cur, newId, requested>>
    /\ PollerFrame

RunReturns(p) ==
    /\ pc[p] = "wait"
    /\ cancelled[p]
    /\ GoTo(p, "idle")
    /\ open' = [open EXCEPT ![p] = EmptyMap]
    /\ StoreSucceeds
    /\ UNCHANGED <<storeVars, snap, todo, cur, newId, requested>>
    /\ PollerFrame

Poller(p) ==
    \/ LoadOpenSessions(p)
    \/ PollSucceeds(p) \/ PollMisreads(p) \/ PollFails(p)
    \/ ApplyNewFlow(p) \/ StartSample(p) \/ BumpNewSession(p) \/ TrackSession(p)
    \/ ApplyKnownFlow(p) \/ BumpKnownSession(p) \/ SampleAndSettle(p)
    \/ BeginClosing(p) \/ CloseMissing(p) \/ EndPoll(p)
    \/ TickerFires(p) \/ RunReturns(p)

-----------------------------------------------------------------------------
(* The poller Manager and the Settings handlers that call it.              *)

ManagerFrame == UNCHANGED <<deviceVars, open, snap, todo, cur, newId, requested>>

(* startLocked: `go p.Run(ctx)' with a fresh context and an empty map. *)
Launch(p) ==
    /\ pc[p] = "idle"
    /\ current' = p
    /\ pc' = [pc EXCEPT ![p] = "load"]

(* Reload, at startup or for a firewall that is configured and not running. *)
StartPoller ==
    /\ current = NoSlot
    /\ \E p \in Slots :
         /\ Launch(p)
         /\ cancelled' = [cancelled EXCEPT ![p] = FALSE]
    /\ UNCHANGED <<storeVars, clearing, countVars>>
    /\ ManagerFrame

(* stopLocked, from Reload: the firewall was removed, or its connection
   details changed and Reload goes on to StartPoller. *)
StopPoller ==
    /\ current # NoSlot
    /\ stops < MaxStops
    /\ stops' = stops + 1
    /\ cancelled' = [cancelled EXCEPT ![current] = TRUE]
    /\ current' = NoSlot
    /\ UNCHANGED <<storeVars, pc, clearing, misreads, errors, clears, crashes>>
    /\ ManagerFrame

(* handleClearDatabase, first call. *)
ClearHistory ==
    /\ ~clearing
    /\ clears < MaxClears
    /\ clears' = clears + 1
    /\ ClearAllHistory
    /\ clearing' = TRUE
    /\ UNCHANGED <<pc, cancelled, current, misreads, errors, stops, crashes>>
    /\ ManagerFrame

(* handleClearDatabase, second call: stop the running poller and start it
   again, under the Manager's mutex.  Nothing restarts if none was running,
   or if the store refuses to register the firewall (SyncFirewall). *)
RestartAll ==
    /\ clearing
    /\ clearing' = FALSE
    /\ \/ /\ current = NoSlot
          /\ UNCHANGED <<pc, cancelled, current, errors>>
       \/ /\ current # NoSlot
          /\ \E p \in Slots :
               /\ Launch(p)
               /\ cancelled' = [cancelled EXCEPT ![current] = TRUE, ![p] = FALSE]
          /\ UNCHANGED errors
       \/ /\ current # NoSlot
          /\ errors < MaxErrors
          /\ errors' = errors + 1
          /\ cancelled' = [cancelled EXCEPT ![current] = TRUE]
          /\ current' = NoSlot
          /\ UNCHANGED pc
    /\ UNCHANGED <<storeVars, misreads, stops, clears, crashes>>
    /\ ManagerFrame

(* The process dies: memory is lost, committed rows are not. *)
Crash ==
    /\ crashes < MaxCrashes
    /\ crashes' = crashes + 1
    /\ pc' = [p \in Slots |-> "idle"]
    /\ cancelled' = [p \in Slots |-> FALSE]
    /\ open' = [p \in Slots |-> EmptyMap]
    /\ snap' = [p \in Slots |-> EmptyMap]
    /\ todo' = [p \in Slots |-> {}]
    /\ cur' = [p \in Slots |-> NoKey]
    /\ newId' = [p \in Slots |-> 0]
    /\ current' = NoSlot
    /\ clearing' = FALSE
    /\ UNCHANGED <<storeVars, deviceVars, requested, misreads, errors, stops, clears>>

-----------------------------------------------------------------------------

Init ==
    /\ StoreInit
    /\ live = EmptyMap
    /\ carried = [s \in Services |-> 0]
    /\ pc = [p \in Slots |-> "idle"]
    /\ cancelled = [p \in Slots |-> FALSE]
    /\ open = [p \in Slots |-> EmptyMap]
    /\ snap = [p \in Slots |-> EmptyMap]
    /\ todo = [p \in Slots |-> {}]
    /\ cur = [p \in Slots |-> NoKey]
    /\ newId = [p \in Slots |-> 0]
    /\ current = NoSlot
    /\ clearing = FALSE
    /\ requested = {}
    /\ misreads = 0 /\ errors = 0 /\ stops = 0 /\ clears = 0 /\ crashes = 0

Manager == StartPoller \/ StopPoller \/ ClearHistory \/ RestartAll

Next ==
    \/ Device
    \/ \E p \in Slots : Poller(p)
    \/ Manager
    \/ Crash

Spec == Init /\ [][Next]_vars

(* Fairness: goroutines are scheduled, the Manager starts a configured
   firewall, the device answers a poller again and again, and a select with
   two ready cases picks either of them infinitely often. *)
Fairness ==
    /\ \A p \in Slots : /\ WF_vars(Poller(p))
                        /\ SF_vars(PollSucceeds(p))
                        /\ SF_vars(RunReturns(p))
    /\ WF_vars(StartPoller)
    /\ WF_vars(RestartAll)

FairSpec == Spec /\ Fairness

-----------------------------------------------------------------------------
(* Invariants                                                              *)

(* What a goroutine may rely on where it is: the flow it applies is listed
   and, for an update, tracked; the keys it has left are listed or tracked. *)
LocalsOK ==
    \A p \in Slots :
      /\ pc[p] \notin {"close"} => todo[p] \subseteq DOMAIN snap[p]
      /\ pc[p] = "close" => todo[p] \subseteq DOMAIN open[p]
      /\ pc[p] \in {"start", "bumpNew", "track", "bump", "sample"} => cur[p] \in DOMAIN snap[p]
      /\ pc[p] \in {"bump", "sample"} => cur[p] \in DOMAIN open[p]

Typed ==
    /\ DOMAIN live \subseteq Keys /\ \A k \in DOMAIN live : live[k] \in Flow
    /\ carried \in [Services -> Nat]
    /\ pc \in [Slots -> Locations]
    /\ cancelled \in [Slots -> BOOLEAN]
    /\ open = [p \in Slots |-> open[p]]
    /\ \A p \in Slots : /\ DOMAIN open[p] \subseteq Keys
                        /\ \A k \in DOMAIN open[p] : open[p][k] \in Tracked
    /\ snap = [p \in Slots |-> snap[p]]
    /\ \A p \in Slots : /\ DOMAIN snap[p] \subseteq Keys
                        /\ \A k \in DOMAIN snap[p] : snap[p][k] \in Flow
    /\ todo \in [Slots -> SUBSET Keys]
    /\ cur \in [Slots -> Keys \cup {NoKey}]
    /\ newId \in [Slots -> Nat]
    /\ current \in Slots \cup {NoSlot}
    /\ clearing \in BOOLEAN
    /\ requested \subseteq Addresses
    /\ {misreads, errors, stops, clears, crashes} \subseteq Nat

(* The tables and variables have their types, and every goroutine has what
   its location needs to go on without a missing map entry. *)
TypeOK ==
    /\ StoreTypeOK
    /\ Typed
    /\ LocalsOK

(* A session id held in memory, by any goroutine, is the id of a row of the
   key it is held for, or of a row that is gone, and never of another flow's
   row: not after a clear, not from a stopped goroutine, not after a restart.
   This is why updating and closing by id alone cannot corrupt the history
   of another flow (UpdateSession and CloseSession look at nothing else). *)
IdsAreOurs ==
    /\ \A p \in Slots : \A k \in DOMAIN open[p] :
         LET id == open[p][k].id IN
           id \in DOMAIN sessions => sessions[id].key = k
    /\ \A p \in Slots : pc[p] \in {"start", "bumpNew", "track"} =>
         (newId[p] \in DOMAIN sessions => sessions[newId[p]].key = cur[p])

ScopeTotal(scope) ==
    scope["internal"] + scope["outbound"] + scope["inbound"] + scope["external"]

(* The two rollup tables agree in every state: distinct_dst_ips is the number
   of addresses recorded for the bucket, every recorded address has its
   bucket, and the scope counters add up to sample_count (BumpPortUsage and
   ClearAllHistory keep them so whatever the order of the calls). *)
RollupTablesAgree ==
    /\ \A pair \in dstIPs : pair[1] \in DOMAIN usage
    /\ \A b \in DOMAIN usage :
         /\ usage[b].distinct = Cardinality({pair \in dstIPs : pair[1] = b})
         /\ usage[b].count = ScopeTotal(usage[b].scope)

(* A five-tuple has at most one open session row.  Holds while goroutines do
   not overlap and no store call fails, across any crash. *)
OneOpenRow ==
    \A i, j \in OpenIds : sessions[i].key = sessions[j].key => i = j

(* What a goroutine tracks, the store does not have as closed. *)
TrackedIsOpen ==
    \A p \in Slots : \A k \in DOMAIN open[p] :
      open[p][k].id \in DOMAIN sessions => open[p][k].id \in OpenIds

(* The converse: an open row is tracked by the goroutine that waits for its
   next poll, which will close it once its flow is gone.  No row stays open
   for want of somebody who knows it, as retention would never take it.
   Holds under the conditions of OneOpenRow, across any crash. *)
OpenIsTracked ==
    \A p \in Slots : pc[p] = "wait" =>
      \A id \in OpenIds : \E k \in DOMAIN open[p] : open[p][k].id = id

RowsOf(service) == {id \in DOMAIN sessions : sessions[id].key.service = service}

BucketsOf(service) == {b \in DOMAIN usage : b.service = service}

BytesRolledUp(service) ==
    SumFunctionOnSet([b \in DOMAIN usage |-> usage[b].bytes], BucketsOf(service))

BytesShown(service) ==
    SumFunctionOnSet([id \in DOMAIN sessions |-> sessions[id].bytes], RowsOf(service))

SessionsRolledUp(service) ==
    SumFunctionOnSet([b \in DOMAIN usage |-> usage[b].count], BucketsOf(service))

(* The permanent rollup never claims more bytes than the service carried,
   whatever is lost in a crash: UpdateSession, which moves the baseline a
   restart resumes from, comes before the bytes are added.  Holds as long as
   every listing is read as it is. *)
NeverOvercounts ==
    misreads = 0 => \A s \in Services : BytesRolledUp(s) <= carried[s]

Between(p) == pc[p] \in {"idle", "load", "poll", "wait"}

(* Between polls the rollup says what the sessions say: as many sessions, and
   at least the bytes they show.  It has more where a counter went backwards,
   or where a flow ended and came back between two polls, which UpdateSession
   takes for one session (NeverOvercounts is the other bound).  Holds as long
   as no store call fails, with flows reclassified under way and pollers
   restarted. *)
RollupMatchesSessions ==
    errors = 0 /\ (\A p \in Slots : Between(p)) =>
      \A s \in Services :
        /\ SessionsRolledUp(s) = Cardinality(RowsOf(s))
        /\ BytesRolledUp(s) >= BytesShown(s)

(* The TCP state a poller compares the next listing with is on record: the
   history has a sample of the session in that state.  So no state change
   that a poll saw is lost to an error of the store, since the baseline moves
   only once the sample is written, nor to a restart of the poller; an error
   and a restart together may lose one, since the row has it already.  Of a
   process that lives, as long as the history is not cleared. *)
BaselineIsSampled ==
    clears = 0 /\ (errors = 0 \/ stops = 0) =>
      \A p \in Slots : \A k \in DOMAIN open[p] :
        \E s \in samples : s.session = open[p][k].id /\ s.state = open[p][k].state

(* Every public destination in the sessions table, that of a flow being
   inserted excepted, has had its reputation lookup requested, as long as no
   store call fails and the process lives. *)
PublicIsLookedUp ==
    errors = 0 => \A id \in DOMAIN sessions :
      \/ IsPrivateOrReserved(sessions[id].key.dst)
      \/ sessions[id].key.dst \in requested
      \/ \E p \in Slots : newId[p] = id /\ pc[p] \in {"start", "bumpNew", "track"}

-----------------------------------------------------------------------------
(* Action properties                                                       *)

(* A closed session is history: while its row is there, no step changes it or
   opens it again. *)
ClosedIsFinal ==
    [][\A id \in DOMAIN sessions :
         sessions[id].closed /\ id \in DOMAIN sessions' => sessions'[id] = sessions[id]]_vars

(* The rollup is permanent: but for clearing the history, no bucket
   disappears and no counter of one goes down, even when the device's own
   counters do. *)
RollupOnlyGrows == [][~ClearHistory => UsageGrows]_vars

-----------------------------------------------------------------------------
(* Liveness                                                                *)

HasOpenRow(key) == \E id \in OpenIds : sessions[id].key = key

(* A flow that stays in the device's table gets an open session, and one that
   stays out of it ends up with none, if the device answers polls again and
   again: one that goes silent while its shell is set up stops the poller for
   ever (SshClient, Waits). *)
HistoryFollowsDevice ==
    \A key \in Keys :
      /\ <>[](key \in DOMAIN live) => <>[]HasOpenRow(key)
      /\ <>[](key \notin DOMAIN live) => <>[]~HasOpenRow(key)

-----------------------------------------------------------------------------
(* What documents and comments say and the code does not keep: TLC refutes *)
(* each of these (README, Departures).                                     *)

(* What the schema notes say of every closed session: its samples end with
   an "end" event. *)
ClosedHasEnd ==
    \A id \in DOMAIN sessions :
      sessions[id].closed => \E s \in samples : s.session = id /\ s.event = "end"

(* What the comment on PortUsage.Scope says: no bucket written since scope
   tracking exists has all its scope counters at zero. *)
BucketsHaveScope ==
    \A b \in DOMAIN usage : \E s \in Scopes : usage[b].scope[s] > 0

(* What the comment on RestartAll says: after Clear database, restarting the
   pollers finds no open session. *)
RestartFindsNothing == [][RestartAll => OpenIds = {}]_vars
=============================================================================
