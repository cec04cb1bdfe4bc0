------------------------- MODULE FlowTrackingProofs -------------------------
(***************************************************************************)
(* For any set of flows, of poller slots, and any bounds on the failures:  *)
(* types, the identity of the session ids that pollers hold in memory, and *)
(* the two rollup tables.  For pollers that do not overlap: which rows are *)
(* open and who tracks them, the requested lookups, and the state changes  *)
(* on record.                                                              *)
(***************************************************************************)
EXTENDS FlowTracking, FlowStoreProofs

(* IdsAreOurs, and that the ids in memory have been issued: those of the rows
   to come are others. *)
IdsHeld ==
    /\ \A p \in Slots : \A k \in DOMAIN open[p] :
         LET id == open[p][k].id IN
           /\ id < nextId
           /\ id \in DOMAIN sessions => sessions[id].key = k
    /\ \A p \in Slots : pc[p] \in {"start", "bumpNew", "track"} =>
         /\ newId[p] < nextId
         /\ newId[p] \in DOMAIN sessions => sessions[newId[p]].key = cur[p]

(* The inductive invariant.  TypeOK alone is not inductive for the steps    *)
(* that use an id.                                                          *)
IInv == TypeOK /\ IdsHeld

Inserting == {"start", "bumpNew", "track"}

(* A step that puts no new id in memory keeps those there ours. *)
LEMMA IdsKept ==
    ASSUME StoreTypeOK, Typed, IdsHeld, StoreTypeOK', NoRenaming,
           \A q \in Slots : \A k \in DOMAIN open'[q] :
             k \in DOMAIN open[q] /\ open'[q][k].id = open[q][k].id,
           \A q \in Slots : pc'[q] \in Inserting =>
             pc[q] \in Inserting /\ cur'[q] = cur[q] /\ newId'[q] = newId[q]
    PROVE  IdsHeld'
  <1>1. nextId \in Nat /\ nextId' \in Nat /\ nextId' >= nextId
    BY DEF StoreTypeOK, NoRenaming
  <1>2. ASSUME NEW id \in Nat, NEW key,
               id < nextId, id \in DOMAIN sessions => sessions[id].key = key
        PROVE  id < nextId' /\ (id \in DOMAIN sessions' => sessions'[id].key = key)
    BY <1>1, <1>2 DEF NoRenaming
  <1>3. \A q \in Slots : \A k \in DOMAIN open[q] :
          /\ open[q][k].id \in Nat
          /\ open[q][k].id < nextId
          /\ open[q][k].id \in DOMAIN sessions => sessions[open[q][k].id].key = k
    BY DEF Typed, Tracked, IdsHeld
  <1>4. \A q \in Slots : \A k \in DOMAIN open'[q] :
          /\ open'[q][k].id < nextId'
          /\ open'[q][k].id \in DOMAIN sessions' => sessions'[open'[q][k].id].key = k
    <2> SUFFICES ASSUME NEW q \in Slots, NEW k \in DOMAIN open'[q]
                 PROVE  /\ open'[q][k].id < nextId'
                        /\ open'[q][k].id \in DOMAIN sessions' =>
                             sessions'[open'[q][k].id].key = k
      OBVIOUS
    <2> DEFINE id == open[q][k].id
    <2>1. k \in DOMAIN open[q] /\ open'[q][k].id = id
      OBVIOUS
    <2>2. id \in Nat /\ id < nextId /\ (id \in DOMAIN sessions => sessions[id].key = k)
      BY <2>1, <1>3
    <2> HIDE DEF id
    <2>3. id < nextId' /\ (id \in DOMAIN sessions' => sessions'[id].key = k)
      BY <2>2, <1>2
    <2> QED
      BY <2>1, <2>3
  <1>5. \A q \in Slots : pc'[q] \in Inserting =>
          /\ newId[q] \in Nat
          /\ newId[q] < nextId
          /\ newId[q] \in DOMAIN sessions => sessions[newId[q]].key = cur[q]
    BY DEF Typed, IdsHeld, Inserting
  <1>6. \A q \in Slots : pc'[q] \in Inserting =>
          /\ newId'[q] < nextId'
          /\ newId'[q] \in DOMAIN sessions' => sessions'[newId'[q]].key = cur'[q]
    BY <1>2, <1>5
  <1> QED
    BY <1>4, <1>6 DEF IdsHeld, Inserting

(* Loading the open sessions: OpenSessions gives each key a row of its own. *)
LEMMA LoadKeeps ==
    ASSUME IInv, NEW p \in Slots, LoadOpenSessions(p)
    PROVE  IInv'
  <1> USE DEF IInv, TypeOK
  <1>0. UNCHANGED storeVars /\ pc[p] = "load" /\ pc' = [pc EXCEPT ![p] = "poll"]
        /\ UNCHANGED <<snap, todo, cur, newId, requested, live, carried, cancelled,
                       current, clearing, misreads, stops, clears, crashes>>
    BY DEF LoadOpenSessions, StoreFails, GoTo, PollerFrame, AnyPollerFrame, deviceVars, managerVars
  <1>1. StoreTypeOK' /\ NoRenaming
    BY <1>0, StoreUnchangedKeeps
  <1>2. errors' \in Nat
    BY DEF LoadOpenSessions, StoreFails, StoreSucceeds, Typed
  <1>3. /\ open' = [open EXCEPT ![p] = open'[p]]
        /\ DOMAIN open'[p] \subseteq Keys
        /\ \A k \in DOMAIN open'[p] :
             /\ open'[p][k] \in Tracked
             /\ open'[p][k].id < nextId
             /\ open'[p][k].id \in DOMAIN sessions => sessions[open'[p][k].id].key = k
    <2>1. CASE UNCHANGED open
      BY <2>1 DEF Typed, IdsHeld
    <2>2. CASE \E found \in OpenSessions :
                 open' = [open EXCEPT ![p] = [k \in DOMAIN found |-> ResumedSession(found[k])]]
      <3>1. PICK found \in OpenSessions :
                 open' = [open EXCEPT ![p] = [k \in DOMAIN found |-> ResumedSession(found[k])]]
        BY <2>2
      <3>2. open'[p] = [k \in DOMAIN found |-> ResumedSession(found[k])]
        BY <3>1 DEF Typed
      <3>3. \A k \in DOMAIN found : k \in Keys /\ found[k] \in DOMAIN sessions
                                   /\ sessions[found[k]].key = k
        BY OpenSessionsPick
      <3> QED
        BY <3>1, <3>2, <3>3 DEF Typed, StoreTypeOK, SessionRow, ResumedSession, Tracked
    <2> QED
      BY <2>1, <2>2 DEF LoadOpenSessions
  <1>4. Typed'
    <2>1. \A q \in Slots : /\ DOMAIN open'[q] \subseteq Keys
                          /\ \A k \in DOMAIN open'[q] : open'[q][k] \in Tracked
      BY <1>3 DEF Typed
    <2>2. open' = [q \in Slots |-> open'[q]]
      BY <1>3 DEF Typed
    <2>3. pc' \in [Slots -> Locations]
      BY <1>0, <1>2 DEF Typed, Locations
    <2> QED
      BY <1>0, <1>2, <2>1, <2>2, <2>3 DEF Typed
  <1>5. LocalsOK'
    BY <1>0, <1>3 DEF LocalsOK, Typed
  <1>6. IdsHeld'
    BY <1>0, <1>1, <1>3 DEF IdsHeld, Typed, storeVars
  <1> QED
    BY <1>1, <1>4, <1>5, <1>6

(* The steps of the poll around the flows touch no table and no id. *)
LEMMA PollStepsKeep ==
    ASSUME IInv, NEW p \in Slots,
           \/ PollSucceeds(p) \/ PollMisreads(p) \/ PollFails(p) \/ BeginClosing(p)
           \/ EndPoll(p) \/ TickerFires(p) \/ RunReturns(p)
    PROVE  IInv'
  <1> USE DEF IInv, TypeOK
  <1> DEFINE Frame == UNCHANGED <<storeVars, live, carried, cancelled, current, clearing,
                                  requested, misreads, errors, stops, clears, crashes>>
  <1>1. StoreTypeOK' /\ NoRenaming
    BY StoreUnchangedKeeps
    DEF PollSucceeds, PollMisreads, PollFails, BeginClosing, EndPoll, TickerFires, RunReturns
  <1>2. ASSUME PollSucceeds(p)
        PROVE  IInv'
    <2>1. Typed' /\ LocalsOK'
      BY <1>2 DEF PollSucceeds, StoreSucceeds, PollerFrame, AnyPollerFrame, deviceVars, managerVars,
                  GoTo, Typed, Locations, LocalsOK
    <2>2. IdsHeld'
      BY <1>1, <1>2, IdsKept DEF PollSucceeds, GoTo, Typed, Inserting
    <2> QED
      BY <1>1, <2>1, <2>2
  <1>3. ASSUME PollFails(p) \/ TickerFires(p)
        PROVE  IInv'
    <2>1. Typed' /\ LocalsOK'
      BY <1>3 DEF PollFails, TickerFires, StoreSucceeds, PollerFrame, AnyPollerFrame, deviceVars,
                  managerVars, GoTo, Typed, Locations, LocalsOK
    <2>2. IdsHeld'
      BY <1>1, <1>3, IdsKept DEF PollFails, TickerFires, GoTo, Typed, Inserting
    <2> QED
      BY <1>1, <2>1, <2>2
  <1>4. ASSUME BeginClosing(p)
        PROVE  IInv'
    <2>1. Typed' /\ LocalsOK'
      BY <1>4 DEF BeginClosing, StoreSucceeds, PollerFrame, AnyPollerFrame, deviceVars, managerVars,
                  GoTo, Typed, Locations, LocalsOK
    <2>2. IdsHeld'
      BY <1>1, <1>4, IdsKept DEF BeginClosing, GoTo, Typed, Inserting
    <2> QED
      BY <1>1, <2>1, <2>2
  <1>5. ASSUME EndPoll(p)
        PROVE  IInv'
    <2>1. Typed' /\ LocalsOK'
      BY <1>5 DEF EndPoll, EmptyMap, StoreSucceeds, PollerFrame, AnyPollerFrame, deviceVars, managerVars,
                  GoTo, Typed, Locations, LocalsOK
    <2>2. IdsHeld'
      BY <1>1, <1>5, IdsKept DEF EndPoll, GoTo, Typed, Inserting
    <2> QED
      BY <1>1, <2>1, <2>2
  <1>6. ASSUME RunReturns(p)
        PROVE  IInv'
    <2>1. Typed' /\ LocalsOK'
      BY <1>6 DEF RunReturns, EmptyMap, StoreSucceeds, PollerFrame, AnyPollerFrame, deviceVars, managerVars,
                  GoTo, Typed, Locations, LocalsOK
    <2>2. IdsHeld'
      BY <1>1, <1>6, IdsKept DEF RunReturns, EmptyMap, GoTo, Typed, Inserting
    <2> QED
      BY <1>1, <2>1, <2>2
  <1>7. ASSUME PollMisreads(p)
        PROVE  IInv'
    <2>1. PICK read \in SUBSET DOMAIN live : \E garbled \in SUBSET read :
            /\ snap' = [snap EXCEPT ![p] =
                          [k \in read |-> IF k \in garbled THEN WithoutBytes(live[k]) ELSE live[k]]]
            /\ todo' = [todo EXCEPT ![p] = read]
      BY <1>7 DEF PollMisreads
    <2>2. \A k \in read : k \in Keys /\ live[k] \in Flow /\ WithoutBytes(live[k]) \in Flow
      BY DEF Typed, WithoutBytes, Flow
    <2>3. /\ misreads' \in Nat
          /\ UNCHANGED <<live, carried, cancelled, current, clearing, requested,
                         errors, stops, clears, crashes, open, cur, newId>>
          /\ pc[p] = "poll" /\ pc' = [pc EXCEPT ![p] = "apply"]
      BY <1>7 DEF PollMisreads, StoreSucceeds, AnyPollerFrame, deviceVars, managerVars, GoTo, Typed
    <2>4. /\ snap' = [snap EXCEPT ![p] = snap'[p]]
          /\ DOMAIN snap'[p] = read
          /\ \A k \in read : snap'[p][k] \in Flow
      BY <2>1, <2>2 DEF Typed
    <2>5. Typed' /\ LocalsOK'
      <3>1. \A q \in Slots : /\ DOMAIN snap'[q] \subseteq Keys
                            /\ \A k \in DOMAIN snap'[q] : snap'[q][k] \in Flow
        BY <2>2, <2>4 DEF Typed
      <3>2. /\ snap' = [q \in Slots |-> snap'[q]]
            /\ todo' \in [Slots -> SUBSET Keys]
        BY <2>1, <2>2, <2>4 DEF Typed
      <3>3. pc' \in [Slots -> Locations]
        BY <2>3 DEF Typed, Locations
      <3>4. Typed'
        BY <2>3, <3>1, <3>2, <3>3 DEF Typed
      <3>5. LocalsOK'
        BY <2>1, <2>3, <2>4 DEF Typed, LocalsOK
      <3> QED
        BY <3>4, <3>5
    <2>6. IdsHeld'
      BY <1>1, <2>3, IdsKept DEF Typed, Inserting
    <2> QED
      BY <1>1, <2>5, <2>6
  <1> QED
    BY <1>2, <1>3, <1>4, <1>5, <1>6, <1>7

(* InsertSession: the id it returns is new, so the row is the new flow's. *)
LEMMA ApplyNewFlowKeeps ==
    ASSUME IInv, NEW p \in Slots, ApplyNewFlow(p)
    PROVE  IInv'
  <1> USE DEF IInv, TypeOK
  <1>1. PICK key \in todo[p] :
          /\ key \notin DOMAIN open[p]
          /\ todo' = [todo EXCEPT ![p] = @ \ {key}]
          /\ cur' = [cur EXCEPT ![p] = key]
          /\ \/ /\ InsertSession(key, snap[p][key])
                /\ StoreSucceeds
                /\ newId' = [newId EXCEPT ![p] = nextId]
                /\ GoTo(p, "start")
                /\ UNCHANGED <<open, requested>>
             \/ /\ StoreFails
                /\ UNCHANGED newId
                /\ Abandon(p)
    BY DEF ApplyNewFlow
  <1>2. key \in Keys /\ key \in DOMAIN snap[p] /\ snap[p][key] \in Flow
    BY DEF ApplyNewFlow, LocalsOK, Typed
  <1>3. /\ UNCHANGED <<snap, live, carried, cancelled, current, clearing, misreads, stops, clears, crashes>>
        /\ pc[p] = "apply"
    BY DEF ApplyNewFlow, PollerFrame, AnyPollerFrame, deviceVars, managerVars
  <1>4. CASE InsertSession(key, snap[p][key]) /\ newId' = [newId EXCEPT ![p] = nextId]
             /\ StoreSucceeds /\ GoTo(p, "start") /\ UNCHANGED <<open, requested>>
    <2>1. StoreTypeOK' /\ NoRenaming /\ nextId < nextId' /\ sessions'[nextId].key = key
      BY <1>2, <1>4, InsertSessionKeeps
    <2>2. Typed' /\ LocalsOK'
      BY <1>1, <1>2, <1>3, <1>4 DEF StoreSucceeds, GoTo, Typed, Locations, LocalsOK, StoreTypeOK
    <2>3. ASSUME NEW q \in Slots, NEW k \in DOMAIN open'[q]
          PROVE  /\ open'[q][k].id < nextId'
                 /\ open'[q][k].id \in DOMAIN sessions' => sessions'[open'[q][k].id].key = k
      BY <1>4, <2>1, <2>3 DEF IdsHeld, NoRenaming, Typed, Tracked, StoreTypeOK
    <2>4. ASSUME NEW q \in Slots, pc'[q] \in Inserting
          PROVE  /\ newId'[q] < nextId'
                 /\ newId'[q] \in DOMAIN sessions' => sessions'[newId'[q]].key = cur'[q]
      <3>1. CASE q = p
        BY <1>1, <1>4, <2>1, <3>1 DEF Typed
      <3>2. CASE q # p
        <4>1. newId'[q] = newId[q] /\ cur'[q] = cur[q] /\ pc[q] \in Inserting
          BY <1>1, <1>4, <2>4, <3>2 DEF GoTo, Typed
        <4> QED
          BY <4>1, <2>1 DEF IdsHeld, NoRenaming, Typed, StoreTypeOK, Inserting
      <3> QED
        BY <3>1, <3>2
    <2>5. IdsHeld'
      BY <2>3, <2>4 DEF IdsHeld, Inserting
    <2> QED
      BY <2>1, <2>2, <2>5
  <1>5. CASE StoreFails /\ UNCHANGED newId /\ Abandon(p)
    <2>1. StoreTypeOK' /\ NoRenaming
      BY <1>5, StoreUnchangedKeeps DEF StoreFails
    <2>2. Typed' /\ LocalsOK'
      BY <1>1, <1>2, <1>3, <1>5 DEF StoreFails, Abandon, GoTo, Typed, Locations, LocalsOK
    <2>3. IdsHeld'
      BY <1>1, <1>3, <1>5, <2>1, IdsKept DEF Abandon, GoTo, Typed, Inserting
    <2> QED
      BY <2>1, <2>2, <2>3
  <1> QED
    BY <1>1, <1>4, <1>5

(* The other steps of applyFlow: one store call that succeeds, is refused or
   fails, and no id moves. *)
LEMMA ApplyKnownFlowKeeps ==
    ASSUME IInv, NEW p \in Slots, ApplyKnownFlow(p)
    PROVE  IInv'
  <1> USE DEF IInv, TypeOK
  <1>1. PICK key \in todo[p] :
          /\ key \in DOMAIN open[p]
          /\ todo' = [todo EXCEPT ![p] = @ \ {key}]
          /\ cur' = [cur EXCEPT ![p] = key]
          /\ \/ /\ UpdateSession(open[p][key].id, snap[p][key])
                /\ StoreSucceeds
                /\ GoTo(p, "bump")
                /\ UNCHANGED <<open, requested>>
             \/ /\ StoreFails
                /\ Abandon(p)
    BY DEF ApplyKnownFlow
  <1>2. /\ key \in Keys /\ key \in DOMAIN snap[p] /\ snap[p][key] \in Flow
        /\ pc[p] = "apply"
    BY DEF ApplyKnownFlow, LocalsOK, Typed
  <1>3. StoreTypeOK' /\ NoRenaming
    BY <1>1, <1>2, UpdateSessionKeeps, StoreUnchangedKeeps DEF StoreFails
  <1>4. \E location \in {"bump", "apply"} : pc' = [pc EXCEPT ![p] = location]
    BY <1>1 DEF GoTo, Abandon
  <1>5. UNCHANGED <<open, requested, snap, newId, live, carried, cancelled, current, clearing,
                    misreads, stops, clears, crashes>> /\ errors' \in Nat
    BY <1>1 DEF ApplyKnownFlow, PollerFrame, AnyPollerFrame, deviceVars, managerVars, Abandon,
                StoreSucceeds, StoreFails, Typed
  <1>6. Typed' /\ LocalsOK'
    BY <1>1, <1>2, <1>4, <1>5 DEF Typed, Locations, LocalsOK
  <1>7. IdsHeld'
    BY <1>1, <1>2, <1>3, <1>4, <1>5, IdsKept DEF Typed, Inserting
  <1> QED
    BY <1>3, <1>6, <1>7

LEMMA StartSampleKeeps ==
    ASSUME IInv, NEW p \in Slots, StartSample(p)
    PROVE  IInv'
  <1> USE DEF IInv, TypeOK
  <1>1. pc[p] = "start" /\ snap[p][cur[p]] \in Flow
    BY DEF StartSample, LocalsOK, Typed
  <1>2. StoreTypeOK' /\ NoRenaming
    BY <1>1, InsertSampleKeeps, StoreUnchangedKeeps DEF StartSample, StoreFails, Events
  <1>3. \E location \in {"bumpNew", "apply"} : pc' = [pc EXCEPT ![p] = location]
    BY DEF StartSample, GoTo, Abandon
  <1>4. UNCHANGED <<open, requested, snap, todo, cur, newId, live, carried, cancelled, current,
                    clearing, misreads, stops, clears, crashes>> /\ errors' \in Nat
    BY DEF StartSample, PollerFrame, AnyPollerFrame, deviceVars, managerVars, Abandon,
           StoreSucceeds, StoreFails, Typed
  <1>5. Typed' /\ LocalsOK'
    BY <1>1, <1>3, <1>4 DEF Typed, Locations, LocalsOK
  <1>6. IdsHeld'
    BY <1>1, <1>2, <1>3, <1>4, IdsKept DEF Typed, Inserting
  <1> QED
    BY <1>2, <1>5, <1>6

LEMMA BumpNewSessionKeeps ==
    ASSUME IInv, NEW p \in Slots, BumpNewSession(p)
    PROVE  IInv'
  <1> USE DEF IInv, TypeOK
  <1>1. /\ pc[p] = "bumpNew"
        /\ cur[p] \in Keys
        /\ snap[p][cur[p]].app \in Apps
        /\ snap[p][cur[p]].bytes \in Nat
    BY DEF BumpNewSession, LocalsOK, Typed, Flow
  <1>2. StoreTypeOK' /\ NoRenaming
    BY <1>1, BumpPortUsageKeeps, StoreUnchangedKeeps DEF BumpNewSession, StoreFails
  <1>3. pc' = [pc EXCEPT ![p] = "track"] \/ pc' = [pc EXCEPT ![p] = "apply"]
    BY Zenon DEF BumpNewSession, GoTo, Abandon
  <1>4. UNCHANGED <<open, requested, snap, todo, cur, newId, live, carried, cancelled, current,
                    clearing, misreads, stops, clears, crashes>> /\ errors' \in Nat
    <2>1. errors' = errors \/ errors' = errors + 1
      BY Zenon DEF BumpNewSession, StoreSucceeds, StoreFails
    <2>2. errors' \in Nat
      BY <2>1 DEF Typed
    <2>3. UNCHANGED <<open, requested, snap, todo, cur, newId>>
      BY Zenon DEF BumpNewSession, Abandon
    <2>4. UNCHANGED <<live, carried, cancelled, current, clearing, misreads, stops, clears, crashes>>
      BY Zenon DEF BumpNewSession, PollerFrame, AnyPollerFrame, deviceVars, managerVars
    <2> QED
      BY <2>2, <2>3, <2>4
  <1>5. Typed' /\ LocalsOK'
    BY <1>1, <1>3, <1>4 DEF Typed, Locations, LocalsOK
  <1>6. IdsHeld'
    BY <1>1, <1>2, <1>3, <1>4, IdsKept DEF Typed, Inserting
  <1> QED
    BY <1>2, <1>5, <1>6

LEMMA BumpKnownSessionKeeps ==
    ASSUME IInv, NEW p \in Slots, BumpKnownSession(p)
    PROVE  IInv'
  <1> USE DEF IInv, TypeOK
  <1>1. /\ pc[p] = "bump"
        /\ cur[p] \in Keys
        /\ snap[p][cur[p]].app \in Apps
        /\ Delta(p) \in Nat
    BY DEF BumpKnownSession, LocalsOK, Typed, Flow, Tracked, Delta
  <1>2. StoreTypeOK' /\ NoRenaming
    BY <1>1, BumpPortUsageKeeps, StoreUnchangedKeeps DEF BumpKnownSession, StoreFails
  <1>3. pc' = [pc EXCEPT ![p] = "sample"] \/ pc' = [pc EXCEPT ![p] = "apply"]
    BY Zenon DEF BumpKnownSession, GoTo, Abandon
  <1>4. UNCHANGED <<open, requested, snap, todo, cur, newId, live, carried, cancelled, current,
                    clearing, misreads, stops, clears, crashes>> /\ errors' \in Nat
    <2>1. errors' = errors \/ errors' = errors + 1
      BY Zenon DEF BumpKnownSession, StoreSucceeds, StoreFails
    <2>2. errors' \in Nat
      BY <2>1 DEF Typed
    <2>3. UNCHANGED <<open, requested, snap, todo, cur, newId>>
      BY Zenon DEF BumpKnownSession, Abandon
    <2>4. UNCHANGED <<live, carried, cancelled, current, clearing, misreads, stops, clears, crashes>>
      BY Zenon DEF BumpKnownSession, PollerFrame, AnyPollerFrame, deviceVars, managerVars
    <2> QED
      BY <2>2, <2>3, <2>4
  <1>5. Typed' /\ LocalsOK'
    BY <1>1, <1>3, <1>4 DEF Typed, Locations, LocalsOK
  <1>6. IdsHeld'
    BY <1>1, <1>2, <1>3, <1>4, IdsKept DEF Typed, Inserting
  <1> QED
    BY <1>2, <1>5, <1>6

(* The map entry takes the id InsertSession returned. *)
LEMMA TrackSessionKeeps ==
    ASSUME IInv, NEW p \in Slots, TrackSession(p)
    PROVE  IInv'
  <1> USE DEF IInv, TypeOK
  <1> DEFINE key == cur[p]
             tracked == [id |-> newId[p], bytes |-> snap[p][key].bytes,
                         state |-> snap[p][key].state]
  <1>1. pc[p] = "track" /\ key \in Keys /\ tracked \in Tracked
    BY DEF TrackSession, LocalsOK, Typed, Flow, Tracked
  <1>2. /\ UNCHANGED storeVars
        /\ UNCHANGED <<snap, todo, cur, newId, live, carried, cancelled, current, clearing,
                       misreads, errors, stops, clears, crashes>>
        /\ pc' = [pc EXCEPT ![p] = "apply"]
    BY DEF TrackSession, StoreSucceeds, PollerFrame, AnyPollerFrame, deviceVars, managerVars, GoTo
  <1>3. StoreTypeOK' /\ NoRenaming
    BY <1>2, StoreUnchangedKeeps
  <1>4. open' = [open EXCEPT ![p] = [k \in DOMAIN open[p] \cup {key} |->
                                       IF k = key THEN tracked ELSE open[p][k]]]
    BY DEF TrackSession
  <1>5. requested' \subseteq Addresses
    BY <1>1 DEF TrackSession, LookupsFor, Addresses, Typed
  <1> HIDE DEF tracked
  <1>6. Typed' /\ LocalsOK'
    BY <1>1, <1>2, <1>4, <1>5 DEF Typed, Locations, LocalsOK
  <1>7. tracked.id = newId[p]
    BY DEF tracked
  <1>8. IdsHeld'
    <2>1. UNCHANGED <<sessions, nextId, cur, newId>>
      BY <1>2 DEF storeVars
    <2>2. /\ open'[p] = [k \in DOMAIN open[p] \cup {key} |->
                           IF k = key THEN tracked ELSE open[p][k]]
          /\ \A q \in Slots \ {p} : open'[q] = open[q] /\ pc'[q] = pc[q]
          /\ pc'[p] = "apply"
      BY <1>2, <1>4 DEF Typed
    <2>3. ASSUME NEW q \in Slots, NEW k \in DOMAIN open'[q]
          PROVE  \/ k \in DOMAIN open[q] /\ open'[q][k].id = open[q][k].id
                 \/ q = p /\ k = key /\ open'[q][k].id = newId[p]
      BY <1>7, <2>2
    <2> QED
      BY <1>1, <2>1, <2>2, <2>3 DEF IdsHeld
  <1> QED
    BY <1>3, <1>6, <1>8

LEMMA SettledType ==
    ASSUME NEW tracked \in Tracked, NEW flow \in Flow
    PROVE  Settled(tracked, flow) \in Tracked /\ Settled(tracked, flow).id = tracked.id
  BY DEF Settled, Tracked, Flow

LEMMA SampleAndSettleKeeps ==
    ASSUME IInv, NEW p \in Slots, SampleAndSettle(p)
    PROVE  IInv'
  <1> USE DEF IInv, TypeOK
  <1>1. /\ pc[p] = "sample"
        /\ cur[p] \in DOMAIN open[p]
        /\ snap[p][cur[p]] \in Flow
    BY DEF SampleAndSettle, LocalsOK, Typed
  <1>2. StoreTypeOK' /\ NoRenaming
    BY <1>1, InsertSampleKeeps, StoreUnchangedKeeps DEF SampleAndSettle, StoreFails, Events
  <1>3. UNCHANGED <<requested, snap, todo, cur, newId, live, carried, cancelled, current,
                    clearing, misreads, stops, clears, crashes>> /\ errors' \in Nat
        /\ pc' = [pc EXCEPT ![p] = "apply"]
    BY DEF SampleAndSettle, PollerFrame, AnyPollerFrame, deviceVars, managerVars, Abandon, Settle, GoTo,
           StoreSucceeds, StoreFails, Typed
  <1>4. \/ UNCHANGED open
        \/ open' = [open EXCEPT ![p][cur[p]] = Settled(@, snap[p][cur[p]])]
    BY DEF SampleAndSettle, Abandon, Settle
  <1>5. /\ open' = [q \in Slots |-> open'[q]]
        /\ \A q \in Slots : DOMAIN open'[q] = DOMAIN open[q]
        /\ \A q \in Slots : \A k \in DOMAIN open'[q] :
             open'[q][k] \in Tracked /\ open'[q][k].id = open[q][k].id
    <2>1. CASE UNCHANGED open
      BY <2>1 DEF Typed
    <2>2. CASE open' = [open EXCEPT ![p][cur[p]] = Settled(@, snap[p][cur[p]])]
      <3>1. open[p][cur[p]] \in Tracked
        BY <1>1 DEF Typed
      <3> DEFINE settled == Settled(open[p][cur[p]], snap[p][cur[p]])
      <3>2. settled \in Tracked /\ settled.id = open[p][cur[p]].id
        BY <1>1, <3>1, SettledType
      <3>3. open' = [open EXCEPT ![p] = [open[p] EXCEPT ![cur[p]] = settled]]
        BY <2>2
      <3> HIDE DEF settled
      <3> QED
        BY <1>1, <3>2, <3>3 DEF Typed
    <2> QED
      BY <1>4, <2>1, <2>2
  <1>6. Typed' /\ LocalsOK'
    BY <1>1, <1>3, <1>5 DEF Typed, Locations, LocalsOK
  <1>7. IdsHeld'
    BY <1>2, <1>3, <1>5, IdsKept DEF Typed, Inserting
  <1> QED
    BY <1>2, <1>6, <1>7

LEMMA CloseMissingKeeps ==
    ASSUME IInv, NEW p \in Slots, CloseMissing(p)
    PROVE  IInv'
  <1> USE DEF IInv, TypeOK
  <1>1. PICK key \in todo[p] :
          /\ todo' = [todo EXCEPT ![p] = @ \ {key}]
          /\ \/ /\ CloseSession(open[p][key].id)
                /\ StoreSucceeds
                /\ open' = [open EXCEPT ![p] = [k \in DOMAIN @ \ {key} |-> @[k]]]
             \/ /\ StoreFails
                /\ UNCHANGED open
    BY DEF CloseMissing
  <1>2. StoreTypeOK' /\ NoRenaming
    BY <1>1, CloseSessionKeeps, StoreUnchangedKeeps DEF StoreFails
  <1>3. UNCHANGED <<pc, requested, snap, cur, newId, live, carried, cancelled, current,
                    clearing, misreads, stops, clears, crashes>> /\ errors' \in Nat /\ pc[p] = "close"
    BY <1>1 DEF CloseMissing, PollerFrame, AnyPollerFrame, deviceVars, managerVars,
                StoreSucceeds, StoreFails, Typed
  <1>4. /\ open' = [q \in Slots |-> open'[q]]
        /\ \A q \in Slots : DOMAIN open[q] \ (IF q = p THEN {key} ELSE {})
                              \subseteq DOMAIN open'[q]
        /\ \A q \in Slots : \A k \in DOMAIN open'[q] :
             k \in DOMAIN open[q] /\ open'[q][k] = open[q][k]
    BY <1>1 DEF Typed
  <1>5. Typed'
    BY <1>1, <1>3, <1>4 DEF Typed
  <1>6. LocalsOK'
    BY <1>1, <1>3, <1>4 DEF LocalsOK, Typed
  <1>7. IdsHeld'
    BY <1>2, <1>3, <1>4, IdsKept
  <1> QED
    BY <1>2, <1>5, <1>6, <1>7

-----------------------------------------------------------------------------

LEMMA DeviceKeeps ==
    ASSUME IInv, Device
    PROVE  IInv'
  <1> USE DEF IInv, TypeOK
  <1>1. UNCHANGED <<storeVars, pollerVars, managerVars, requested, countVars>>
    BY DEF Device, FlowStarts, FlowCarries, FlowReclassified, CounterResets, FlowEnds, DeviceStep
  <1>2. StoreTypeOK' /\ NoRenaming
    BY <1>1, StoreUnchangedKeeps
  <1>3. /\ DOMAIN live' \subseteq Keys
        /\ \A k \in DOMAIN live' : live'[k] \in Flow
        /\ carried' \in [Services -> Nat]
    <2>1. PICK key \in Keys : \/ FlowStarts(key) \/ FlowCarries(key) \/ FlowReclassified(key)
                              \/ CounterResets(key) \/ FlowEnds(key)
      BY DEF Device
    <2>2. CASE FlowStarts(key)
      BY <2>2 DEF FlowStarts, Carry, Typed, Flow, Services
    <2>3. CASE FlowCarries(key)
      <3>1. live' = [live EXCEPT ![key] = Grown(@)] /\ live[key] \in Flow
        BY <2>3 DEF FlowCarries, Typed
      <3>2. Grown(live[key]) \in Flow
        BY <3>1 DEF Grown, Flow
      <3>3. carried' \in [Services -> Nat]
        BY <2>3 DEF FlowCarries, Carry, Typed, Services
      <3> QED
        BY <3>1, <3>2, <3>3 DEF Typed
    <2>4. CASE FlowReclassified(key)
      <3>1. PICK app \in Apps, state \in TcpStates :
              live' = [live EXCEPT ![key] = [@ EXCEPT !.app = app, !.state = state]]
        BY <2>4 DEF FlowReclassified
      <3>2. live[key] \in Flow /\ UNCHANGED carried
        BY <2>4 DEF FlowReclassified, Typed
      <3>3. [live[key] EXCEPT !.app = app, !.state = state] \in Flow
        BY <3>2 DEF Flow
      <3> QED
        BY <3>1, <3>2, <3>3 DEF Typed
    <2>5. CASE CounterResets(key)
      <3>1. live' = [live EXCEPT ![key] = WithoutBytes(@)] /\ live[key] \in Flow
            /\ UNCHANGED carried
        BY <2>5 DEF CounterResets, Typed
      <3>2. WithoutBytes(live[key]) \in Flow
        BY <3>1 DEF WithoutBytes, Flow
      <3> QED
        BY <3>1, <3>2 DEF Typed
    <2>6. CASE FlowEnds(key)
      BY <2>6 DEF FlowEnds, Typed
    <2> QED
      BY <2>1, <2>2, <2>3, <2>4, <2>5, <2>6
  <1>4. Typed' /\ LocalsOK'
    BY <1>1, <1>3 DEF Typed, LocalsOK, pollerVars, managerVars, countVars
  <1>5. IdsHeld'
    BY <1>1 DEF IdsHeld, pollerVars, storeVars
  <1> QED
    BY <1>2, <1>4, <1>5

LEMMA ManagerKeeps ==
    ASSUME IInv, Manager
    PROVE  IInv'
  <1> USE DEF IInv, TypeOK
  <1>1. UNCHANGED <<live, carried, open, snap, todo, cur, newId, requested>>
    BY DEF Manager, StartPoller, StopPoller, ClearHistory, RestartAll, ManagerFrame, deviceVars
  <1>2. StoreTypeOK' /\ NoRenaming
    BY ClearAllHistoryKeeps, StoreUnchangedKeeps
    DEF Manager, StartPoller, StopPoller, ClearHistory, RestartAll
  <1>3. /\ pc' \in [Slots -> Locations]
        /\ \A q \in Slots : pc'[q] # pc[q] => pc[q] = "idle" /\ pc'[q] = "load"
    BY DEF Manager, StartPoller, StopPoller, ClearHistory, RestartAll, Launch, Typed, Locations
  <1>4. /\ cancelled' \in [Slots -> BOOLEAN]
        /\ current' \in Slots \cup {NoSlot}
        /\ clearing' \in BOOLEAN
        /\ {misreads', errors', stops', clears', crashes'} \subseteq Nat
    <2>1. CASE StartPoller
      BY <2>1 DEF StartPoller, Launch, Typed, countVars
    <2>2. CASE StopPoller
      BY <2>2 DEF StopPoller, Typed
    <2>3. CASE ClearHistory
      BY <2>3 DEF ClearHistory, Typed
    <2>4. CASE RestartAll
      <3>1. clearing' \in BOOLEAN /\ UNCHANGED <<misreads, stops, clears, crashes>>
        BY <2>4 DEF RestartAll
      <3>2. {misreads, errors, stops, clears, crashes} \subseteq Nat
        BY DEF Typed
      <3>3. errors' = errors \/ errors' = errors + 1
        BY <2>4 DEF RestartAll
      <3>4. errors' \in Nat
        BY <3>2, <3>3
      <3>5. cancelled' \in [Slots -> BOOLEAN] /\ current' \in Slots \cup {NoSlot}
        BY <2>4 DEF RestartAll, Launch, Typed
      <3> QED
        BY <3>1, <3>2, <3>4, <3>5
    <2> QED
      BY <2>1, <2>2, <2>3, <2>4 DEF Manager
  <1>5. Typed' /\ LocalsOK'
    BY <1>1, <1>3, <1>4 DEF Typed, LocalsOK
  <1>6. IdsHeld'
    BY <1>1, <1>2, <1>3, IdsKept DEF Inserting
  <1> QED
    BY <1>2, <1>5, <1>6

LEMMA CrashKeeps ==
    ASSUME IInv, Crash
    PROVE  IInv'
  <1> USE DEF IInv, TypeOK
  <1>1. StoreTypeOK' /\ NoRenaming
    BY StoreUnchangedKeeps DEF Crash
  <1>2. DOMAIN EmptyMap = {}
    BY DEF EmptyMap
  <1>3. Typed'
    <2>1. /\ UNCHANGED <<live, carried, requested, misreads, errors, stops, clears>>
          /\ crashes' \in Nat
      BY DEF Crash, Typed, deviceVars
    <2>2. /\ pc' \in [Slots -> Locations]
          /\ cancelled' \in [Slots -> BOOLEAN]
          /\ todo' \in [Slots -> SUBSET Keys]
          /\ cur' \in [Slots -> Keys \cup {NoKey}]
          /\ newId' \in [Slots -> Nat]
          /\ current' \in Slots \cup {NoSlot}
          /\ clearing' \in BOOLEAN
      BY DEF Crash, Locations
    <2>3. open' = [p \in Slots |-> EmptyMap] /\ snap' = [p \in Slots |-> EmptyMap]
      BY DEF Crash
    <2> QED
      BY <1>2, <2>1, <2>2, <2>3 DEF Typed
  <1>4. LocalsOK'
    BY <1>2 DEF Crash, LocalsOK
  <1>5. IdsHeld'
    BY <1>2 DEF Crash, IdsHeld
  <1> QED
    BY <1>1, <1>3, <1>4, <1>5

-----------------------------------------------------------------------------

LEMMA InitIInv == Init => IInv
  <1> SUFFICES ASSUME Init PROVE IInv
    OBVIOUS
  <1>1. StoreTypeOK
    BY StoreInitType DEF Init
  <1>2. DOMAIN EmptyMap = {}
    BY DEF EmptyMap
  <1>3. Typed
    <2>1. /\ carried \in [Services -> Nat]
          /\ requested \subseteq Addresses
          /\ {misreads, errors, stops, clears, crashes} \subseteq Nat
      BY DEF Init
    <2>2. /\ pc \in [Slots -> Locations]
          /\ cancelled \in [Slots -> BOOLEAN]
          /\ todo \in [Slots -> SUBSET Keys]
          /\ cur \in [Slots -> Keys \cup {NoKey}]
          /\ newId \in [Slots -> Nat]
          /\ current \in Slots \cup {NoSlot}
          /\ clearing \in BOOLEAN
      BY DEF Init, Locations
    <2>3. /\ live = EmptyMap
          /\ open = [p \in Slots |-> EmptyMap]
          /\ snap = [p \in Slots |-> EmptyMap]
      BY DEF Init
    <2> QED
      BY <1>2, <2>1, <2>2, <2>3 DEF Typed
  <1>4. LocalsOK
    BY <1>2 DEF Init, LocalsOK
  <1>5. IdsHeld
    BY <1>2 DEF Init, IdsHeld
  <1> QED
    BY <1>1, <1>3, <1>4, <1>5 DEF IInv, TypeOK

LEMMA NextIInv == IInv /\ [Next]_vars => IInv'
  <1> SUFFICES ASSUME IInv, [Next]_vars PROVE IInv'
    OBVIOUS
  <1>1. ASSUME NEW p \in Slots, Poller(p)
        PROVE  IInv'
    BY <1>1, LoadKeeps, PollStepsKeep, ApplyNewFlowKeeps, ApplyKnownFlowKeeps,
       StartSampleKeeps, BumpNewSessionKeeps, BumpKnownSessionKeeps, TrackSessionKeeps,
       SampleAndSettleKeeps, CloseMissingKeeps
    DEF Poller
  <1>2. CASE Device
    BY <1>2, DeviceKeeps
  <1>3. CASE Manager
    BY <1>3, ManagerKeeps
  <1>4. CASE Crash
    BY <1>4, CrashKeeps
  <1>5. CASE UNCHANGED vars
    <2>1. StoreTypeOK' /\ NoRenaming
      BY <1>5, StoreUnchangedKeeps DEF IInv, TypeOK, vars
    <2>2. Typed' /\ LocalsOK' /\ IdsHeld'
      BY <1>5 DEF IInv, TypeOK, Typed, LocalsOK, IdsHeld, vars, storeVars, deviceVars,
                  pollerVars, managerVars, countVars
    <2> QED
      BY <2>1, <2>2 DEF IInv, TypeOK
  <1> QED
    BY <1>1, <1>2, <1>3, <1>4, <1>5 DEF Next

(* What a poll adds to a bucket is never negative: the bytes of a listed flow,
   or a difference that Delta clamps. *)
LEMMA DeltaType ==
    ASSUME Typed, LocalsOK, NEW p \in Slots, pc[p] = "bump"
    PROVE  Delta(p) \in Nat
  <1>1. cur[p] \in DOMAIN snap[p] /\ cur[p] \in DOMAIN open[p]
    BY DEF LocalsOK
  <1>2. snap[p][cur[p]].bytes \in Nat /\ open[p][cur[p]].bytes \in Nat
    BY <1>1 DEF Typed, Flow, Tracked
  <1> QED
    BY <1>2 DEF Delta

(* Nothing but BumpPortUsage and Clear database writes the rollup. *)
LEMMA NextUsage ==
    ASSUME IInv, [Next]_vars
    PROVE  \/ UNCHANGED <<usage, dstIPs>>
           \/ ClearHistory /\ DOMAIN usage' = {} /\ dstIPs' = {}
           \/ \E key \in Keys, app \in Apps, delta \in Nat, isNew \in BOOLEAN :
                BumpPortUsage(key, app, delta, isNew)
  <1> USE DEF IInv, TypeOK
  <1>1. ASSUME NEW p \in Slots, BumpNewSession(p)
        PROVE  \/ UNCHANGED <<usage, dstIPs>>
               \/ \E key \in Keys, app \in Apps, delta \in Nat, isNew \in BOOLEAN :
                    BumpPortUsage(key, app, delta, isNew)
    <2> DEFINE flow == snap[p][cur[p]]
    <2>1. cur[p] \in DOMAIN snap[p]
      BY <1>1 DEF BumpNewSession, LocalsOK
    <2>2. cur[p] \in Keys /\ flow.app \in Apps /\ flow.bytes \in Nat /\ TRUE \in BOOLEAN
      BY <2>1 DEF Typed, Flow
    <2> QED
      BY <1>1, <2>2, Zenon DEF BumpNewSession, StoreFails, storeVars
  <1>2. ASSUME NEW p \in Slots, BumpKnownSession(p)
        PROVE  \/ UNCHANGED <<usage, dstIPs>>
               \/ \E key \in Keys, app \in Apps, delta \in Nat, isNew \in BOOLEAN :
                    BumpPortUsage(key, app, delta, isNew)
    <2> DEFINE flow == snap[p][cur[p]]
    <2>1. cur[p] \in DOMAIN snap[p] /\ Delta(p) \in Nat
      BY <1>2, DeltaType DEF BumpKnownSession, LocalsOK
    <2>2. cur[p] \in Keys /\ flow.app \in Apps /\ FALSE \in BOOLEAN
      BY <2>1 DEF Typed, Flow
    <2> QED
      BY <1>2, <2>1, <2>2, Zenon DEF BumpKnownSession, StoreFails, storeVars
  <1>3. ASSUME NEW p \in Slots, Poller(p), ~BumpNewSession(p), ~BumpKnownSession(p)
        PROVE  UNCHANGED <<usage, dstIPs>>
    <2>1. CASE \/ LoadOpenSessions(p) \/ PollSucceeds(p) \/ PollMisreads(p) \/ PollFails(p)
               \/ BeginClosing(p) \/ EndPoll(p) \/ TickerFires(p) \/ RunReturns(p) \/ TrackSession(p)
      BY <2>1 DEF LoadOpenSessions, PollSucceeds, PollMisreads, PollFails, BeginClosing, EndPoll,
                  TickerFires, RunReturns, TrackSession, StoreFails, storeVars
    <2>2. CASE \/ ApplyNewFlow(p) \/ ApplyKnownFlow(p) \/ CloseMissing(p)
      BY <2>2 DEF ApplyNewFlow, ApplyKnownFlow, CloseMissing, InsertSession, UpdateSession,
                  CloseSession, StoreFails, storeVars
    <2>3. CASE StartSample(p) \/ SampleAndSettle(p)
      BY <2>3 DEF StartSample, SampleAndSettle, InsertSample, StoreFails, storeVars
    <2> QED
      BY <1>3, <2>1, <2>2, <2>3 DEF Poller
  <1>4. CASE Device \/ UNCHANGED vars
    BY <1>4 DEF Device, FlowStarts, FlowCarries, FlowReclassified, CounterResets, FlowEnds,
                DeviceStep, storeVars, vars
  <1>5. CASE ClearHistory
    BY <1>5 DEF ClearHistory, ClearAllHistory
  <1>6. CASE StartPoller \/ StopPoller \/ RestartAll \/ Crash
    BY <1>6 DEF StartPoller, StopPoller, RestartAll, Crash, storeVars
  <1> QED
    BY <1>1, <1>2, <1>3, <1>4, <1>5, <1>6 DEF Next, Manager

LEMMA NextGrows == IInv /\ [Next]_vars /\ ~ClearHistory => UsageGrows
  <1> SUFFICES ASSUME IInv, [Next]_vars, ~ClearHistory PROVE UsageGrows
    OBVIOUS
  <1>1. StoreTypeOK
    BY DEF IInv, TypeOK
  <1>2. CASE UNCHANGED usage
    BY <1>1, <1>2, UsageKeptGrows
  <1>3. ASSUME NEW key \in Keys, NEW app \in Apps, NEW delta \in Nat, NEW isNew \in BOOLEAN,
               BumpPortUsage(key, app, delta, isNew)
        PROVE  UsageGrows
    BY <1>1, <1>3, BumpPortUsageGrows
  <1> QED
    BY <1>2, <1>3, NextUsage

(* Every table and variable keeps its type, and no goroutine ever looks up a
   flow its listing lacks or a session it does not track, whatever the
   interleaving of pollers, clears, store errors and crashes. *)
THEOREM TypeCorrect == Spec => []TypeOK
  <1>1. IInv => TypeOK
    BY DEF IInv
  <1> QED
    BY <1>1, InitIInv, NextIInv, PTL DEF Spec

(* An id in a poller's memory never designates another flow's row. *)
THEOREM IdentitySafe == Spec => []IdsAreOurs
  <1>1. IInv => IdsAreOurs
    BY DEF IInv, IdsHeld, IdsAreOurs
  <1> QED
    BY <1>1, InitIInv, NextIInv, PTL DEF Spec

(* The rollup only grows, whatever the device's counters do, pollers overlap,
   stores fail and processes crash: nothing but Clear database takes from it. *)
THEOREM RollupPermanent == Spec => RollupOnlyGrows
  <1>1. IInv /\ [Next]_vars => [~ClearHistory => UsageGrows]_vars
    BY NextGrows
  <1> QED
    BY <1>1, InitIInv, NextIInv, PTL DEF Spec, RollupOnlyGrows

-----------------------------------------------------------------------------
(* The rollup tables.                                                      *)

AddressesOf(b) == {pair \in dstIPs : pair[1] = b}

(* The invariant of RollupTablesAgree; Cardinality means something only of
   finite sets. *)
Agreeing == RollupTablesAgree /\ IsFiniteSet(dstIPs)

(* One session counts in one scope. *)
LEMMA BumpedScopes ==
    ASSUME NEW old \in UsageRow, NEW key, NEW delta \in Nat,
           NEW isNew \in BOOLEAN, NEW newAddress \in BOOLEAN,
           old.count = ScopeTotal(old.scope)
    PROVE  LET new == Bumped(old, key, delta, isNew, newAddress)
           IN  new.count = ScopeTotal(new.scope)
  <1> DEFINE more == IF isNew THEN 1 ELSE 0
             new == Bumped(old, key, delta, isNew, newAddress)
  <1>1. ScopeOf(key) \in Scopes
    <2> DEFINE src == IsPrivateOrReserved(key.src)
               dst == IsPrivateOrReserved(key.dst)
    <2>1. src \in BOOLEAN /\ dst \in BOOLEAN
      BY DEF IsPrivateOrReserved
    <2> HIDE DEF src, dst
    <2>2. ClassifyScope(src, dst) \in Scopes
      BY <2>1 DEF ClassifyScope, Scopes
    <2> QED
      BY <2>2 DEF ScopeOf, src, dst
  <1>2. new.count = old.count + more
    BY DEF Bumped
  <1>3. \A s \in Scopes : new.scope[s] = old.scope[s] + (IF s = ScopeOf(key) THEN more ELSE 0)
    BY DEF Bumped
  <1>4. \A s \in Scopes : old.scope[s] \in Nat
    BY DEF UsageRow
  <1>5. more \in Nat
    OBVIOUS
  <1> HIDE DEF new, more
  <1>6. \A s \in {"internal", "outbound", "inbound", "external"} :
          /\ old.scope[s] \in Nat
          /\ new.scope[s] = old.scope[s] + (IF s = ScopeOf(key) THEN more ELSE 0)
    BY <1>3, <1>4 DEF Scopes
  <1>7. ScopeTotal(new.scope) = ScopeTotal(old.scope) + more
    <2>1. CASE ScopeOf(key) = "internal"
      BY <1>5, <1>6, <2>1 DEF ScopeTotal
    <2>2. CASE ScopeOf(key) = "outbound"
      BY <1>5, <1>6, <2>2 DEF ScopeTotal
    <2>3. CASE ScopeOf(key) = "inbound"
      BY <1>5, <1>6, <2>3 DEF ScopeTotal
    <2>4. CASE ScopeOf(key) = "external"
      BY <1>5, <1>6, <2>4 DEF ScopeTotal
    <2> QED
      BY <1>1, <2>1, <2>2, <2>3, <2>4 DEF Scopes
  <1> QED
    BY <1>2, <1>7 DEF new

LEMMA BumpPortUsageAgrees ==
    ASSUME StoreTypeOK, Agreeing, NEW key \in Keys, NEW app \in Apps, NEW delta \in Nat,
           NEW isNew \in BOOLEAN, BumpPortUsage(key, app, delta, isNew)
    PROVE  Agreeing'
  <1>1. PICK b, pair : b = Bucket(key, app) /\ pair = <<b, key.dst>>
    OBVIOUS
  <1> DEFINE old == IF b \in DOMAIN usage THEN usage[b] ELSE NewBucket
             newAddress == pair \notin dstIPs
             new == Bumped(old, key, delta, isNew, newAddress)
  <1>2. /\ usage' = [x \in DOMAIN usage \cup {b} |-> IF x = b THEN new ELSE usage[x]]
        /\ dstIPs' = dstIPs \cup {pair}
    BY <1>1, Zenon DEF BumpPortUsage
  <1>3. pair[1] = b /\ newAddress \in BOOLEAN /\ old \in UsageRow
    BY <1>1, NewBucketType DEF StoreTypeOK
  <1>4. old.count = ScopeTotal(old.scope)
    <2>1. CASE b \in DOMAIN usage
      BY <2>1 DEF Agreeing, RollupTablesAgree
    <2>2. CASE b \notin DOMAIN usage
      BY <2>2 DEF NewBucket, ScopeTotal, Scopes
    <2> QED
      BY <2>1, <2>2
  <1>5. IsFiniteSet(AddressesOf(b)) /\ old.distinct = Cardinality(AddressesOf(b))
    <2>1. IsFiniteSet(AddressesOf(b))
      BY FS_Subset DEF Agreeing, AddressesOf
    <2>2. CASE b \in DOMAIN usage
      BY <2>1, <2>2 DEF Agreeing, RollupTablesAgree, AddressesOf
    <2>3. CASE b \notin DOMAIN usage
      <3>1. AddressesOf(b) = {}
        BY <2>3 DEF Agreeing, RollupTablesAgree, AddressesOf
      <3> QED
        BY <2>1, <2>3, <3>1, FS_EmptySet DEF NewBucket
    <2> QED
      BY <2>2, <2>3, <2>1
  <1>6. new.count = ScopeTotal(new.scope)
    <2> HIDE DEF old, newAddress
    <2> QED
      BY <1>3, <1>4, BumpedScopes, Zenon
  <1>7. new.distinct = Cardinality(AddressesOf(b) \cup {pair})
    <2>1. Cardinality(AddressesOf(b) \cup {pair}) =
            IF pair \in AddressesOf(b) THEN Cardinality(AddressesOf(b))
                                       ELSE Cardinality(AddressesOf(b)) + 1
      BY <1>5, FS_AddElement
    <2>2. pair \in AddressesOf(b) <=> pair \in dstIPs
      BY <1>3 DEF AddressesOf
    <2>3. new.distinct = old.distinct + (IF newAddress THEN 1 ELSE 0)
      BY DEF Bumped
    <2>4. old.distinct \in Nat
      BY <1>3 DEF UsageRow
    <2> QED
      BY <1>5, <2>1, <2>2, <2>3, <2>4
  <1> HIDE DEF new
  <1>8. \A x \in DOMAIN usage' :
          {p \in dstIPs' : p[1] = x} = IF x = b THEN AddressesOf(b) \cup {pair} ELSE AddressesOf(x)
    BY <1>2, <1>3 DEF AddressesOf
  <1>9. \A x \in DOMAIN usage' :
          /\ usage'[x].distinct = Cardinality({p \in dstIPs' : p[1] = x})
          /\ usage'[x].count = ScopeTotal(usage'[x].scope)
    <2> SUFFICES ASSUME NEW x \in DOMAIN usage'
                 PROVE  /\ usage'[x].distinct = Cardinality({p \in dstIPs' : p[1] = x})
                        /\ usage'[x].count = ScopeTotal(usage'[x].scope)
      OBVIOUS
    <2>1. CASE x = b
      BY <1>2, <1>6, <1>7, <1>8, <2>1
    <2>2. CASE x # b
      <3>1. x \in DOMAIN usage /\ usage'[x] = usage[x]
        BY <1>2, <2>2
      <3>2. {p \in dstIPs' : p[1] = x} = AddressesOf(x)
        BY <1>8, <2>2
      <3> QED
        BY <3>1, <3>2 DEF Agreeing, RollupTablesAgree, AddressesOf
    <2> QED
      BY <2>1, <2>2
  <1>10. \A p \in dstIPs' : p[1] \in DOMAIN usage'
    BY <1>2, <1>3 DEF Agreeing, RollupTablesAgree
  <1>11. IsFiniteSet(dstIPs')
    BY <1>2, FS_AddElement DEF Agreeing
  <1> QED
    BY <1>9, <1>10, <1>11 DEF Agreeing, RollupTablesAgree, ScopeTotal

LEMMA NextAgrees == IInv /\ Agreeing /\ [Next]_vars => Agreeing'
  <1> SUFFICES ASSUME IInv, Agreeing, [Next]_vars PROVE Agreeing'
    OBVIOUS
  <1>1. CASE UNCHANGED <<usage, dstIPs>>
    BY <1>1 DEF Agreeing, RollupTablesAgree
  <1>2. CASE DOMAIN usage' = {} /\ dstIPs' = {}
    BY <1>2, FS_EmptySet DEF Agreeing, RollupTablesAgree
  <1>3. ASSUME NEW key \in Keys, NEW app \in Apps, NEW delta \in Nat, NEW isNew \in BOOLEAN,
               BumpPortUsage(key, app, delta, isNew)
        PROVE  Agreeing'
    BY <1>3, BumpPortUsageAgrees DEF IInv, TypeOK
  <1> QED
    BY <1>1, <1>2, <1>3, NextUsage

LEMMA InitAgrees == Init => Agreeing
  BY FS_EmptySet DEF Init, StoreInit, Agreeing, RollupTablesAgree

(* The two rollup tables agree in every state, whatever the order of the
   calls, the overlap of goroutines, the errors and the crashes. *)
THEOREM RollupConsistent == Spec => []RollupTablesAgree
  <1>1. Agreeing => RollupTablesAgree
    BY DEF Agreeing
  <1> QED
    BY <1>1, InitIInv, NextIInv, InitAgrees, NextAgrees, PTL DEF Spec

-----------------------------------------------------------------------------
(* What a step does to the rows and to the ids in memory: one of seven kinds, *)
(* from which the properties of pollers that do not overlap follow.           *)

Loaded(location) == location \notin {"idle", "load"}

(* The sessions a goroutine works on: those it tracks and the one it inserts. *)
InHand(p) ==
    {open[p][k].id : k \in DOMAIN open[p]} \cup (IF pc[p] \in Inserting THEN {newId[p]} ELSE {})

(* No row comes, goes, closes or opens; only one in hand is rewritten or gets
   a sample. *)
SameRows ==
    /\ UNCHANGED nextId
    /\ DOMAIN sessions' = DOMAIN sessions
    /\ \A id \in DOMAIN sessions :
         /\ sessions'[id].key = sessions[id].key
         /\ sessions'[id].closed <=> sessions[id].closed
         /\ sessions'[id] = sessions[id] \/ \E q \in Slots : id \in InHand(q)
    /\ \A s \in samples' : s \in samples \/ \E q \in Slots : s.session \in InHand(q)

StoreFailed == errors' = errors + 1

(* The other goroutines stay where they are. *)
Elsewhere(p) ==
    \A q \in Slots \ {p} : /\ open'[q] = open[q] /\ pc'[q] = pc[q]
                           /\ cur'[q] = cur[q] /\ newId'[q] = newId[q]

Loads(p) ==
    /\ pc[p] = "load" /\ pc'[p] = "poll"
    /\ \/ open'[p] = open[p] /\ StoreFailed
       \/ /\ \E found \in OpenSessions :
               /\ DOMAIN open'[p] = DOMAIN found
               /\ \A k \in DOMAIN found : open'[p][k].id = found[k]
          /\ UNCHANGED errors
    /\ UNCHANGED <<sessions, nextId, samples, requested>>
    /\ Elsewhere(p)

Inserts(p) ==
    /\ pc[p] = "apply" /\ pc'[p] = "start"
    /\ \E key \in Keys :
         /\ key \notin DOMAIN open[p]
         /\ cur'[p] = key
         /\ DOMAIN sessions' = DOMAIN sessions \cup {nextId}
         /\ \A id \in DOMAIN sessions : sessions'[id] = sessions[id]
         /\ sessions'[nextId].key = key /\ ~sessions'[nextId].closed
    /\ newId'[p] = nextId /\ nextId' = nextId + 1
    /\ UNCHANGED <<open, samples, requested, errors>>
    /\ Elsewhere(p)

Tracks(p) ==
    /\ pc[p] = "track" /\ pc'[p] = "apply"
    /\ DOMAIN open'[p] = DOMAIN open[p] \cup {cur[p]}
    /\ open'[p][cur[p]].id = newId[p]
    /\ \A k \in DOMAIN open[p] \ {cur[p]} : open'[p][k] = open[p][k]
    /\ requested' = requested \cup LookupsFor(cur[p])
    /\ UNCHANGED <<sessions, nextId, samples, errors>>
    /\ Elsewhere(p)

Closes(p) ==
    /\ pc[p] = "close" /\ pc'[p] = "close"
    /\ \E key \in DOMAIN open[p] :
         /\ DOMAIN open'[p] = DOMAIN open[p] \ {key}
         /\ \A k \in DOMAIN open'[p] : open'[p][k] = open[p][k]
         /\ DOMAIN sessions' = DOMAIN sessions
         /\ \A id \in DOMAIN sessions :
              /\ sessions'[id].key = sessions[id].key
              /\ id # open[p][key].id => sessions'[id] = sessions[id]
              /\ id = open[p][key].id => sessions'[id].closed
    /\ UNCHANGED <<nextId, samples, requested, errors>>
    /\ Elsewhere(p)

Clears ==
    /\ DOMAIN sessions' = {} /\ samples' = {}
    /\ UNCHANGED <<nextId, open, pc, cur, newId, requested, errors>>
    /\ clears' = clears + 1

Dies ==
    /\ \A q \in Slots : DOMAIN open'[q] = {} /\ pc'[q] = "idle"
    /\ UNCHANGED <<sessions, nextId, samples, requested, errors>>
    /\ crashes' = crashes + 1

(* Any other step: a goroutine that returns forgets what it tracks, and one
   gives up an insertion only if a store call fails or the row was cleared. *)
GoesOn ==
    /\ SameRows
    /\ UNCHANGED requested
    /\ UNCHANGED errors \/ StoreFailed
    /\ \A q \in Slots :
         \/ DOMAIN open'[q] = {} /\ pc'[q] = "idle" /\ pc[q] = "wait"
         \/ /\ DOMAIN open'[q] = DOMAIN open[q]
            /\ \A k \in DOMAIN open[q] : open'[q][k].id = open[q][k].id
            /\ Loaded(pc'[q]) <=> Loaded(pc[q])
            /\ pc'[q] \in Inserting => pc[q] \in Inserting
            /\ pc[q] \in Inserting => cur'[q] = cur[q] /\ newId'[q] = newId[q]
            /\ pc[q] \in Inserting /\ pc'[q] \notin Inserting =>
                 StoreFailed \/ newId[q] \notin DOMAIN sessions

KindOfStep ==
    \/ /\ \/ \E p \in Slots : Loads(p) \/ Inserts(p) \/ Tracks(p) \/ Closes(p)
          \/ GoesOn
       /\ UNCHANGED <<clears, crashes>>
    \/ Clears /\ UNCHANGED crashes
    \/ Dies /\ UNCHANGED clears

(* No two goroutines run at the same time. *)
NoOverlap == \A p, q \in Slots : pc[p] # "idle" /\ pc[q] # "idle" => p = q

(* What is in hand is open, unless the history was cleared; a goroutine that
   has not loaded its sessions has none in hand. *)
HandsOpen ==
    \A p \in Slots :
      /\ InHand(p) \cap DOMAIN sessions \subseteq OpenIds
      /\ ~Loaded(pc[p]) => DOMAIN open[p] = {}

(* An open row is in hand of whoever has loaded the sessions, and a flow that
   is being inserted is not tracked. *)
RowsKnown ==
    \A p \in Slots :
      /\ Loaded(pc[p]) => OpenIds \subseteq InHand(p)
      /\ pc[p] \in Inserting => cur[p] \notin DOMAIN open[p]

Whole == errors = 0 => OneOpenRow /\ RowsKnown

LEMMA StoreKeptIsSameRows ==
    ASSUME UNCHANGED <<sessions, nextId, samples>>
    PROVE  SameRows
  BY DEF SameRows

LEMMA UpdateIsSameRows ==
    ASSUME StoreTypeOK, NEW p \in Slots, NEW k \in DOMAIN open[p], NEW flow \in Flow,
           UpdateSession(open[p][k].id, flow)
    PROVE  SameRows
  <1> DEFINE id == open[p][k].id
  <1>1. UNCHANGED <<nextId, samples>> /\ DOMAIN sessions' = DOMAIN sessions
    BY DEF UpdateSession
  <1>2. id \in InHand(p)
    BY DEF InHand
  <1>3. ASSUME NEW i \in DOMAIN sessions
        PROVE  /\ sessions'[i].key = sessions[i].key
               /\ sessions'[i].closed = sessions[i].closed
               /\ i # id => sessions'[i] = sessions[i]
    BY DEF UpdateSession, StoreTypeOK, SessionRow, Flow
  <1> HIDE DEF id
  <1> QED
    BY <1>1, <1>2, <1>3 DEF SameRows

LEMMA SampleIsSameRows ==
    ASSUME NEW p \in Slots, NEW id \in InHand(p), NEW event, NEW flow,
           InsertSample(id, event, flow)
    PROVE  SameRows
  BY DEF InsertSample, SameRows

(* A goroutine at work takes a step that leaves its ids alone. *)
LEMMA WorkGoesOn ==
    ASSUME Typed, NEW p \in Slots, NEW location,
           pc' = [pc EXCEPT ![p] = location], Loaded(pc[p]), Loaded(location),
           location \in Inserting => pc[p] \in Inserting,
           pc[p] \in Inserting =>
             /\ cur'[p] = cur[p] /\ newId'[p] = newId[p]
             /\ location \notin Inserting => StoreFailed \/ newId[p] \notin DOMAIN sessions,
           \A q \in Slots \ {p} : cur'[q] = cur[q] /\ newId'[q] = newId[q],
           \A q \in Slots : /\ DOMAIN open'[q] = DOMAIN open[q]
                            /\ \A k \in DOMAIN open[q] : open'[q][k].id = open[q][k].id,
           SameRows, UNCHANGED requested, UNCHANGED errors \/ StoreFailed
    PROVE  GoesOn
  <1>1. pc'[p] = location /\ \A q \in Slots \ {p} : pc'[q] = pc[q]
    BY DEF Typed
  <1>2. ASSUME NEW q \in Slots
        PROVE  /\ Loaded(pc'[q]) <=> Loaded(pc[q])
               /\ pc'[q] \in Inserting => pc[q] \in Inserting
               /\ pc[q] \in Inserting => cur'[q] = cur[q] /\ newId'[q] = newId[q]
               /\ pc[q] \in Inserting /\ pc'[q] \notin Inserting =>
                    StoreFailed \/ newId[q] \notin DOMAIN sessions
    <2>1. CASE q = p
      BY <1>1, <2>1
    <2>2. CASE q # p
      BY <1>1, <2>2
    <2> QED
      BY <2>1, <2>2
  <1> QED
    BY <1>2 DEF GoesOn

LEMMA LoadKind ==
    ASSUME IInv, NEW p \in Slots, LoadOpenSessions(p)
    PROVE  Loads(p) /\ UNCHANGED <<clears, crashes>>
  <1> USE DEF IInv, TypeOK
  <1>1. /\ pc[p] = "load" /\ pc' = [pc EXCEPT ![p] = "poll"]
        /\ UNCHANGED <<sessions, nextId, samples, cur, newId, requested, clears, crashes>>
    BY DEF LoadOpenSessions, StoreFails, GoTo, PollerFrame, AnyPollerFrame, storeVars
  <1>2. pc'[p] = "poll" /\ \A q \in Slots \ {p} : pc'[q] = pc[q]
    BY <1>1 DEF Typed
  <1>3. CASE UNCHANGED open /\ StoreFails
    BY <1>1, <1>2, <1>3 DEF Loads, Elsewhere, StoreFails, StoreFailed
  <1>4. CASE StoreSucceeds /\
             \E found \in OpenSessions :
               open' = [open EXCEPT ![p] = [k \in DOMAIN found |-> ResumedSession(found[k])]]
    <2>1. PICK found \in OpenSessions :
                open' = [open EXCEPT ![p] = [k \in DOMAIN found |-> ResumedSession(found[k])]]
      BY <1>4
    <2>2. /\ open'[p] = [k \in DOMAIN found |-> ResumedSession(found[k])]
          /\ \A q \in Slots \ {p} : open'[q] = open[q]
      BY <2>1 DEF Typed
    <2>3. DOMAIN open'[p] = DOMAIN found /\ \A k \in DOMAIN found : open'[p][k].id = found[k]
      BY <2>2 DEF ResumedSession
    <2> QED
      BY <1>1, <1>2, <1>4, <2>2, <2>3 DEF Loads, Elsewhere, StoreSucceeds
  <1> QED
    BY <1>3, <1>4 DEF LoadOpenSessions

LEMMA PollStepsKind ==
    ASSUME IInv, NEW p \in Slots,
           \/ PollSucceeds(p) \/ PollMisreads(p) \/ PollFails(p) \/ BeginClosing(p)
           \/ EndPoll(p) \/ TickerFires(p) \/ RunReturns(p)
    PROVE  GoesOn /\ UNCHANGED <<clears, crashes>>
  <1> USE DEF IInv, TypeOK
  <1>1. UNCHANGED <<storeVars, requested, errors, clears, crashes>>
    BY DEF PollSucceeds, PollMisreads, PollFails, BeginClosing, EndPoll, TickerFires, RunReturns,
           StoreSucceeds, PollerFrame, AnyPollerFrame
  <1>2. SameRows
    BY <1>1, StoreKeptIsSameRows DEF storeVars
  <1>3. CASE RunReturns(p)
    <2>1. /\ pc[p] = "wait" /\ pc'[p] = "idle" /\ DOMAIN open'[p] = {}
          /\ \A q \in Slots \ {p} : pc'[q] = pc[q] /\ open'[q] = open[q]
          /\ UNCHANGED <<cur, newId>>
      BY <1>3 DEF RunReturns, GoTo, EmptyMap, Typed
    <2>2. ASSUME NEW q \in Slots, q # p
          PROVE  /\ DOMAIN open'[q] = DOMAIN open[q]
                 /\ \A k \in DOMAIN open[q] : open'[q][k].id = open[q][k].id
                 /\ pc'[q] = pc[q] /\ cur'[q] = cur[q] /\ newId'[q] = newId[q]
      BY <2>1, <2>2
    <2> QED
      BY <1>1, <1>2, <2>1, <2>2 DEF GoesOn
  <1>4. CASE ~RunReturns(p)
    <2>1. UNCHANGED open
      BY <1>4 DEF PollSucceeds, PollMisreads, PollFails, BeginClosing, EndPoll, TickerFires
    <2>2. pc[p] \in {"poll", "apply", "close", "wait"}
      BY <1>4 DEF PollSucceeds, PollMisreads, PollFails, BeginClosing, EndPoll, TickerFires
    <2>3. PICK location \in {"poll", "apply", "close", "wait"} : pc' = [pc EXCEPT ![p] = location]
      BY <1>4 DEF PollSucceeds, PollMisreads, PollFails, BeginClosing, EndPoll, TickerFires, GoTo
    <2>4. \A q \in Slots \ {p} : cur'[q] = cur[q] /\ newId'[q] = newId[q]
      BY <1>4 DEF PollSucceeds, PollMisreads, PollFails, BeginClosing, EndPoll, TickerFires, Typed
    <2>5. Loaded(pc[p]) /\ Loaded(location) /\ pc[p] \notin Inserting /\ location \notin Inserting
      BY <2>2, <2>3 DEF Loaded, Inserting
    <2> QED
      BY <1>1, <1>2, <2>1, <2>3, <2>4, <2>5, WorkGoesOn
  <1> QED
    BY <1>1, <1>3, <1>4

LEMMA ApplyNewFlowKind ==
    ASSUME IInv, NEW p \in Slots, ApplyNewFlow(p)
    PROVE  (Inserts(p) \/ GoesOn) /\ UNCHANGED <<clears, crashes>>
  <1> USE DEF IInv, TypeOK
  <1>1. PICK key \in todo[p] :
          /\ key \notin DOMAIN open[p]
          /\ cur' = [cur EXCEPT ![p] = key]
          /\ \/ /\ InsertSession(key, snap[p][key])
                /\ StoreSucceeds
                /\ newId' = [newId EXCEPT ![p] = nextId]
                /\ GoTo(p, "start")
                /\ UNCHANGED <<open, requested>>
             \/ /\ StoreFails
                /\ UNCHANGED newId
                /\ Abandon(p)
    BY DEF ApplyNewFlow
  <1>2. /\ pc[p] = "apply" /\ key \in Keys
        /\ UNCHANGED <<clears, crashes>>
        /\ cur'[p] = key /\ \A q \in Slots \ {p} : cur'[q] = cur[q]
    BY <1>1 DEF ApplyNewFlow, PollerFrame, AnyPollerFrame, Typed
  <1>3. CASE InsertSession(key, snap[p][key]) /\ newId' = [newId EXCEPT ![p] = nextId]
             /\ StoreSucceeds /\ GoTo(p, "start") /\ UNCHANGED <<open, requested>>
    <2>1. /\ DOMAIN sessions' = DOMAIN sessions \cup {nextId}
          /\ sessions'[nextId].key = key /\ ~sessions'[nextId].closed
          /\ nextId' = nextId + 1 /\ UNCHANGED samples
      BY <1>3 DEF InsertSession
    <2>2. \A id \in DOMAIN sessions : sessions'[id] = sessions[id]
      BY <1>3 DEF InsertSession, StoreTypeOK
    <2>3. /\ pc'[p] = "start" /\ newId'[p] = nextId
          /\ Elsewhere(p)
      BY <1>2, <1>3 DEF GoTo, Typed, Elsewhere
    <2>4. UNCHANGED <<open, samples, requested, errors>>
      BY <1>3, <2>1 DEF StoreSucceeds
    <2>5. Inserts(p)
      BY <1>1, <1>2, <2>1, <2>2, <2>3, <2>4 DEF Inserts
    <2> QED
      BY <1>2, <2>5
  <1>4. CASE StoreFails /\ UNCHANGED newId /\ Abandon(p)
    <2>1. SameRows /\ StoreFailed
      BY <1>4, StoreKeptIsSameRows DEF StoreFails, StoreFailed, storeVars
    <2>2. pc' = [pc EXCEPT ![p] = "apply"] /\ UNCHANGED <<open, requested>>
      BY <1>4 DEF Abandon, GoTo
    <2>3. Loaded(pc[p]) /\ Loaded("apply") /\ pc[p] \notin Inserting /\ "apply" \notin Inserting
      BY <1>2 DEF Loaded, Inserting
    <2> QED
      BY <1>2, <1>4, <2>1, <2>2, <2>3, WorkGoesOn
  <1> QED
    BY <1>1, <1>3, <1>4

LEMMA ApplyKnownFlowKind ==
    ASSUME IInv, NEW p \in Slots, ApplyKnownFlow(p)
    PROVE  GoesOn /\ UNCHANGED <<clears, crashes>>
  <1> USE DEF IInv, TypeOK
  <1>1. PICK key \in todo[p] :
          /\ key \in DOMAIN open[p]
          /\ cur' = [cur EXCEPT ![p] = key]
          /\ \/ /\ UpdateSession(open[p][key].id, snap[p][key])
                /\ StoreSucceeds
                /\ GoTo(p, "bump")
                /\ UNCHANGED <<open, requested>>
             \/ /\ StoreFails
                /\ Abandon(p)
    BY DEF ApplyKnownFlow
  <1>2. /\ key \in DOMAIN snap[p] /\ snap[p][key] \in Flow
        /\ pc[p] = "apply"
        /\ UNCHANGED <<newId, clears, crashes>>
        /\ \A q \in Slots \ {p} : cur'[q] = cur[q]
    BY <1>1 DEF ApplyKnownFlow, LocalsOK, PollerFrame, AnyPollerFrame, Typed
  <1>3. SameRows
    BY <1>1, <1>2, UpdateIsSameRows, StoreKeptIsSameRows DEF StoreFails, storeVars
  <1>4. PICK location \in {"bump", "apply"} : pc' = [pc EXCEPT ![p] = location]
    BY <1>1 DEF GoTo, Abandon
  <1>5. /\ UNCHANGED <<open, requested>>
        /\ UNCHANGED errors \/ StoreFailed
    BY <1>1 DEF StoreSucceeds, StoreFails, StoreFailed, Abandon
  <1>6. Loaded(pc[p]) /\ Loaded(location) /\ pc[p] \notin Inserting /\ location \notin Inserting
    BY <1>2, <1>4 DEF Loaded, Inserting
  <1> QED
    BY <1>2, <1>3, <1>4, <1>5, <1>6, WorkGoesOn

LEMMA StartSampleKind ==
    ASSUME IInv, NEW p \in Slots, StartSample(p)
    PROVE  GoesOn /\ UNCHANGED <<clears, crashes>>
  <1> USE DEF IInv, TypeOK
  <1>1. pc[p] = "start" /\ UNCHANGED <<cur, newId, clears, crashes>>
    BY DEF StartSample, PollerFrame, AnyPollerFrame
  <1>2. newId[p] \in InHand(p)
    BY <1>1 DEF InHand, Inserting
  <1>3. SameRows
    BY <1>2, SampleIsSameRows, StoreKeptIsSameRows DEF StartSample, StoreFails, storeVars
  <1>4. PICK location \in {"bumpNew", "apply"} :
          /\ pc' = [pc EXCEPT ![p] = location]
          /\ location = "apply" => StoreFailed \/ newId[p] \notin DOMAIN sessions
    BY DEF StartSample, GoTo, Abandon, StoreFails, StoreFailed, SampleAllowed
  <1>5. UNCHANGED <<open, requested>> /\ (UNCHANGED errors \/ StoreFailed)
    BY DEF StartSample, Abandon, StoreSucceeds, StoreFails, StoreFailed
  <1>6. Loaded(pc[p]) /\ Loaded(location) /\ pc[p] \in Inserting
        /\ (location \notin Inserting => location = "apply")
    BY <1>1, <1>4 DEF Loaded, Inserting
  <1> QED
    BY <1>1, <1>3, <1>4, <1>5, <1>6, WorkGoesOn

LEMMA BumpSessionKind ==
    ASSUME IInv, NEW p \in Slots, BumpNewSession(p) \/ BumpKnownSession(p)
    PROVE  GoesOn /\ UNCHANGED <<clears, crashes>>
  <1> USE DEF IInv, TypeOK
  <1>1. UNCHANGED <<sessions, nextId, samples, cur, newId, open, requested, clears, crashes>>
    BY DEF BumpNewSession, BumpKnownSession, BumpPortUsage, StoreFails, storeVars, Abandon,
           PollerFrame, AnyPollerFrame
  <1>2. SameRows
    BY <1>1, StoreKeptIsSameRows
  <1>3. UNCHANGED errors \/ StoreFailed
    BY Zenon DEF BumpNewSession, BumpKnownSession, StoreSucceeds, StoreFails, StoreFailed
  <1>4. CASE BumpNewSession(p)
    <2>1. pc[p] = "bumpNew"
      BY <1>4, Zenon DEF BumpNewSession
    <2>2. \/ pc' = [pc EXCEPT ![p] = "track"]
          \/ pc' = [pc EXCEPT ![p] = "apply"] /\ StoreFailed
      BY <1>4, Zenon DEF BumpNewSession, GoTo, Abandon, StoreFails, StoreFailed
    <2>3. /\ Loaded(pc[p]) /\ Loaded("track") /\ Loaded("apply")
          /\ pc[p] \in Inserting /\ "track" \in Inserting
      BY <2>1 DEF Loaded, Inserting
    <2>4. CASE pc' = [pc EXCEPT ![p] = "track"]
      BY <1>1, <1>2, <1>3, <2>3, <2>4, WorkGoesOn
    <2>5. CASE pc' = [pc EXCEPT ![p] = "apply"] /\ StoreFailed
      BY <1>1, <1>2, <1>3, <2>3, <2>5, WorkGoesOn
    <2> QED
      BY <1>1, <2>2, <2>4, <2>5
  <1>5. CASE BumpKnownSession(p)
    <2>1. pc[p] = "bump"
      BY <1>5, Zenon DEF BumpKnownSession
    <2>2. \/ pc' = [pc EXCEPT ![p] = "sample"]
          \/ pc' = [pc EXCEPT ![p] = "apply"]
      BY <1>5, Zenon DEF BumpKnownSession, GoTo, Abandon
    <2>3. /\ Loaded(pc[p]) /\ Loaded("sample") /\ Loaded("apply")
          /\ pc[p] \notin Inserting /\ "sample" \notin Inserting /\ "apply" \notin Inserting
      BY <2>1 DEF Loaded, Inserting
    <2>4. CASE pc' = [pc EXCEPT ![p] = "sample"]
      BY <1>1, <1>2, <1>3, <2>3, <2>4, WorkGoesOn
    <2>5. CASE pc' = [pc EXCEPT ![p] = "apply"]
      BY <1>1, <1>2, <1>3, <2>3, <2>5, WorkGoesOn
    <2> QED
      BY <1>1, <2>2, <2>4, <2>5
  <1> QED
    BY <1>4, <1>5

LEMMA TrackSessionKind ==
    ASSUME IInv, NEW p \in Slots, TrackSession(p)
    PROVE  Tracks(p) /\ UNCHANGED <<clears, crashes>>
  <1> USE DEF IInv, TypeOK
  <1> DEFINE tracked == [id |-> newId[p], bytes |-> snap[p][cur[p]].bytes,
                         state |-> snap[p][cur[p]].state]
  <1>1. /\ pc[p] = "track" /\ pc' = [pc EXCEPT ![p] = "apply"]
        /\ requested' = requested \cup LookupsFor(cur[p])
        /\ open' = [open EXCEPT ![p] = [k \in DOMAIN @ \cup {cur[p]} |->
                                          IF k = cur[p] THEN tracked ELSE @[k]]]
        /\ UNCHANGED <<sessions, nextId, samples, errors, cur, newId, clears, crashes>>
    BY DEF TrackSession, GoTo, StoreSucceeds, PollerFrame, AnyPollerFrame, storeVars
  <1>2. tracked.id = newId[p]
    OBVIOUS
  <1> HIDE DEF tracked
  <1>3. /\ open'[p] = [k \in DOMAIN open[p] \cup {cur[p]} |->
                         IF k = cur[p] THEN tracked ELSE open[p][k]]
        /\ \A q \in Slots \ {p} : open'[q] = open[q]
    BY <1>1 DEF Typed
  <1>4. pc'[p] = "apply" /\ Elsewhere(p)
    BY <1>1, <1>3 DEF Typed, Elsewhere
  <1> QED
    BY <1>1, <1>2, <1>3, <1>4 DEF Tracks

LEMMA SampleAndSettleKind ==
    ASSUME IInv, NEW p \in Slots, SampleAndSettle(p)
    PROVE  GoesOn /\ UNCHANGED <<clears, crashes>>
  <1> USE DEF IInv, TypeOK
  <1>1. /\ pc[p] = "sample" /\ pc' = [pc EXCEPT ![p] = "apply"]
        /\ cur[p] \in DOMAIN open[p] /\ snap[p][cur[p]] \in Flow
        /\ UNCHANGED <<cur, newId, requested, clears, crashes>>
        /\ UNCHANGED errors \/ StoreFailed
    BY DEF SampleAndSettle, PollerFrame, AnyPollerFrame, Abandon, Settle, GoTo, LocalsOK, Typed,
           StoreSucceeds, StoreFails, StoreFailed
  <1>2. open[p][cur[p]].id \in InHand(p)
    BY <1>1 DEF InHand
  <1>3. SameRows
    BY <1>2, SampleIsSameRows, StoreKeptIsSameRows DEF SampleAndSettle, StoreFails, storeVars
  <1>4. \A q \in Slots : /\ DOMAIN open'[q] = DOMAIN open[q]
                         /\ \A k \in DOMAIN open[q] : open'[q][k].id = open[q][k].id
    <2>1. CASE UNCHANGED open
      BY <2>1
    <2>2. CASE open' = [open EXCEPT ![p][cur[p]] = Settled(@, snap[p][cur[p]])]
      <3>1. open[p][cur[p]] \in Tracked
        BY <1>1 DEF Typed
      <3> DEFINE settled == Settled(open[p][cur[p]], snap[p][cur[p]])
      <3>2. settled.id = open[p][cur[p]].id
        BY <1>1, <3>1, SettledType
      <3>3. open' = [open EXCEPT ![p] = [open[p] EXCEPT ![cur[p]] = settled]]
        BY <2>2
      <3> HIDE DEF settled
      <3> QED
        BY <1>1, <3>2, <3>3 DEF Typed
    <2> QED
      BY <2>1, <2>2 DEF SampleAndSettle, Abandon, Settle
  <1>5. Loaded(pc[p]) /\ Loaded("apply") /\ pc[p] \notin Inserting /\ "apply" \notin Inserting
    BY <1>1 DEF Loaded, Inserting
  <1> QED
    BY <1>1, <1>3, <1>4, <1>5, WorkGoesOn

LEMMA CloseMissingKind ==
    ASSUME IInv, NEW p \in Slots, CloseMissing(p)
    PROVE  (Closes(p) \/ GoesOn) /\ UNCHANGED <<clears, crashes>>
  <1> USE DEF IInv, TypeOK
  <1>1. PICK key \in todo[p] :
          \/ /\ CloseSession(open[p][key].id)
             /\ StoreSucceeds
             /\ open' = [open EXCEPT ![p] = [k \in DOMAIN @ \ {key} |-> @[k]]]
          \/ /\ StoreFails
             /\ UNCHANGED open
    BY DEF CloseMissing
  <1>2. /\ pc[p] = "close" /\ key \in DOMAIN open[p]
        /\ UNCHANGED <<pc, cur, newId, requested, clears, crashes>>
    BY DEF CloseMissing, LocalsOK, PollerFrame, AnyPollerFrame
  <1>3. CASE CloseSession(open[p][key].id) /\ StoreSucceeds
             /\ open' = [open EXCEPT ![p] = [k \in DOMAIN @ \ {key} |-> @[k]]]
    <2>1. /\ open'[p] = [k \in DOMAIN open[p] \ {key} |-> open[p][k]]
          /\ \A q \in Slots \ {p} : open'[q] = open[q]
      BY <1>3 DEF Typed
    <2>2. /\ DOMAIN open'[p] = DOMAIN open[p] \ {key}
          /\ \A k \in DOMAIN open'[p] : open'[p][k] = open[p][k]
          /\ Elsewhere(p)
      BY <1>2, <2>1 DEF Elsewhere
    <2> DEFINE id == open[p][key].id
    <2>3. CloseSession(id)
      BY <1>3
    <2> HIDE DEF id
    <2>4. /\ DOMAIN sessions' = DOMAIN sessions
          /\ UNCHANGED <<nextId, samples>>
          /\ \A i \in DOMAIN sessions : /\ sessions'[i].key = sessions[i].key
                                        /\ i # id => sessions'[i] = sessions[i]
                                        /\ i = id => sessions'[i].closed
      BY <2>3 DEF CloseSession, StoreTypeOK, SessionRow
    <2>5. Closes(p)
      BY <1>2, <1>3, <2>2, <2>4 DEF Closes, StoreSucceeds, id
    <2> QED
      BY <1>2, <2>5
  <1>4. CASE StoreFails /\ UNCHANGED open
    <2>1. SameRows /\ StoreFailed
      BY <1>4, StoreKeptIsSameRows DEF StoreFails, StoreFailed, storeVars
    <2>2. pc' = [pc EXCEPT ![p] = "close"]
      BY <1>2 DEF Typed
    <2>3. Loaded(pc[p]) /\ Loaded("close") /\ pc[p] \notin Inserting /\ "close" \notin Inserting
      BY <1>2 DEF Loaded, Inserting
    <2> QED
      BY <1>2, <1>4, <2>1, <2>2, <2>3, WorkGoesOn
  <1> QED
    BY <1>1, <1>3, <1>4

LEMMA ManagerKind ==
    ASSUME IInv, Manager
    PROVE  /\ \/ Clears
              \/ GoesOn /\ UNCHANGED clears
           /\ UNCHANGED crashes
  <1> USE DEF IInv, TypeOK
  <1>1. UNCHANGED <<open, cur, newId, requested, crashes>>
    BY DEF Manager, StartPoller, StopPoller, ClearHistory, RestartAll, ManagerFrame, countVars
  <1>2. CASE ClearHistory
    BY <1>1, <1>2 DEF ClearHistory, ClearAllHistory, Clears
  <1>3. CASE StartPoller \/ StopPoller \/ RestartAll
    <2>1. UNCHANGED <<storeVars, clears>>
      BY <1>3 DEF StartPoller, StopPoller, RestartAll, countVars
    <2>2. UNCHANGED errors \/ StoreFailed
      BY <1>3 DEF StartPoller, StopPoller, RestartAll, countVars, StoreFailed
    <2>3. \A q \in Slots : pc'[q] = pc[q] \/ (pc[q] = "idle" /\ pc'[q] = "load")
      BY <1>3 DEF StartPoller, StopPoller, RestartAll, Launch, Typed
    <2>4. SameRows
      BY <2>1, StoreKeptIsSameRows DEF storeVars
    <2>5. \A q \in Slots : /\ Loaded(pc'[q]) <=> Loaded(pc[q])
                           /\ pc'[q] \in Inserting <=> pc[q] \in Inserting
      BY <2>3 DEF Loaded, Inserting
    <2>6. GoesOn
      BY <1>1, <2>2, <2>4, <2>5 DEF GoesOn
    <2> QED
      BY <1>1, <2>1, <2>6
  <1> QED
    BY <1>1, <1>2, <1>3 DEF Manager

(* Whatever a step does, it is of one of the kinds. *)
LEMMA Kinds == IInv /\ [Next]_vars => KindOfStep
  <1> SUFFICES ASSUME IInv, [Next]_vars PROVE KindOfStep
    OBVIOUS
  <1> USE DEF IInv, TypeOK
  <1>1. ASSUME NEW p \in Slots, Poller(p)
        PROVE  KindOfStep
    BY <1>1, LoadKind, PollStepsKind, ApplyNewFlowKind, ApplyKnownFlowKind, StartSampleKind,
       BumpSessionKind, TrackSessionKind, SampleAndSettleKind, CloseMissingKind
    DEF Poller, KindOfStep
  <1>2. CASE Device \/ UNCHANGED vars
    <2>1. UNCHANGED <<storeVars, pollerVars, requested, errors, clears, crashes>>
      BY <1>2 DEF Device, FlowStarts, FlowCarries, FlowReclassified, CounterResets, FlowEnds,
                  DeviceStep, countVars, vars
    <2>2. SameRows
      BY <2>1, StoreKeptIsSameRows DEF storeVars
    <2> QED
      BY <2>1, <2>2 DEF KindOfStep, GoesOn, pollerVars
  <1>3. CASE Manager
    BY <1>3, ManagerKind DEF KindOfStep
  <1>4. CASE Crash
    BY <1>4 DEF Crash, EmptyMap, KindOfStep, Dies, storeVars
  <1> QED
    BY <1>1, <1>2, <1>3, <1>4 DEF Next

-----------------------------------------------------------------------------
(* Goroutines that do not overlap.                                         *)

(* Until the Settings page stops a poller or clears the history, whoever runs
   is the registered poller. *)
Sole ==
    stops = 0 /\ clears = 0 =>
      /\ ~clearing
      /\ \A p \in Slots : pc[p] # "idle" => p = current

LEMMA NextSole == IInv /\ Sole /\ [Next]_vars => Sole'
  <1> SUFFICES ASSUME IInv, Sole, [Next]_vars, stops' = 0, clears' = 0
               PROVE  ~clearing' /\ \A p \in Slots : pc'[p] # "idle" => p = current'
    BY DEF Sole
  <1> USE DEF IInv, TypeOK
  <1>1. stops \in Nat /\ clears \in Nat
    BY DEF Typed
  <1>2. CASE Device \/ UNCHANGED vars
    <2>1. UNCHANGED <<stops, clears, pc, current, clearing>>
      BY <1>2 DEF Device, FlowStarts, FlowCarries, FlowReclassified, CounterResets, FlowEnds,
                  DeviceStep, pollerVars, managerVars, countVars, vars
    <2>2. ~clearing /\ \A p \in Slots : pc[p] # "idle" => p = current
      BY <2>1, Zenon DEF Sole
    <2> QED
      BY <2>1, <2>2, Zenon
  <1>3. ASSUME NEW p \in Slots, Poller(p)
        PROVE  ~clearing' /\ \A q \in Slots : pc'[q] # "idle" => q = current'
    <2>1. UNCHANGED <<stops, clears, current, clearing>>
      BY <1>3 DEF Poller, LoadOpenSessions, PollSucceeds, PollMisreads, PollFails, ApplyNewFlow,
             StartSample, BumpNewSession, TrackSession, ApplyKnownFlow, BumpKnownSession,
             SampleAndSettle, BeginClosing, CloseMissing, EndPoll, TickerFires, RunReturns,
             PollerFrame, AnyPollerFrame, managerVars
    <2>2. pc[p] # "idle"
      BY <1>3 DEF Poller, LoadOpenSessions, PollSucceeds, PollMisreads, PollFails, ApplyNewFlow,
             StartSample, BumpNewSession, TrackSession, ApplyKnownFlow, BumpKnownSession,
             SampleAndSettle, BeginClosing, CloseMissing, EndPoll, TickerFires, RunReturns
    <2>3. \A q \in Slots \ {p} : pc'[q] = pc[q]
      <3>1. CASE \/ LoadOpenSessions(p) \/ PollSucceeds(p) \/ PollMisreads(p) \/ PollFails(p)
                 \/ BeginClosing(p) \/ EndPoll(p) \/ TickerFires(p) \/ RunReturns(p)
                 \/ CloseMissing(p) \/ TrackSession(p)
        BY <3>1 DEF LoadOpenSessions, PollSucceeds, PollMisreads, PollFails, BeginClosing, EndPoll,
                    TickerFires, RunReturns, CloseMissing, TrackSession, GoTo, Typed
      <3>2. CASE ApplyNewFlow(p) \/ StartSample(p) \/ BumpNewSession(p)
        BY <3>2 DEF ApplyNewFlow, StartSample, BumpNewSession, GoTo, Abandon, Typed
      <3>3. CASE ApplyKnownFlow(p) \/ BumpKnownSession(p)
        BY <3>3 DEF ApplyKnownFlow, BumpKnownSession, GoTo, Abandon, Typed
      <3>4. CASE SampleAndSettle(p)
        BY <3>4 DEF SampleAndSettle, Settle, GoTo, Abandon, Typed
      <3> QED
        BY <1>3, <3>1, <3>2, <3>3, <3>4 DEF Poller
    <2> QED
      BY <2>1, <2>2, <2>3 DEF Sole
  <1>4. CASE StartPoller
    BY <1>4, SlotAssumption DEF StartPoller, Launch, ManagerFrame, countVars, Typed, Sole
  <1>5. CASE StopPoller \/ ClearHistory
    BY <1>1, <1>5 DEF StopPoller, ClearHistory
  <1>6. CASE RestartAll
    <2>1. UNCHANGED <<stops, clears>> /\ clearing
      BY <1>6 DEF RestartAll
    <2>2. stops = 0 /\ clears = 0
      BY <2>1
    <2>3. ~clearing
      BY <2>2 DEF Sole
    <2> QED
      BY <2>1, <2>3
  <1>7. CASE Crash
    BY <1>7 DEF Crash
  <1> QED
    BY <1>2, <1>3, <1>4, <1>5, <1>6, <1>7 DEF Next, Manager

LEMMA InitSole == Init => Sole
  BY DEF Init, Sole

(* Only the Settings page makes pollers overlap: without a stop and without a
   clear they take turns, across every crash, store error and misread
   listing.  What is shown below under []NoOverlap holds in particular then,
   and whenever a stopped poller has ended before its successor starts. *)
THEOREM OverlapNeedsSettings ==
    Spec => [](stops = 0 /\ clears = 0 => NoOverlap)
  <1>1. Sole => (stops = 0 /\ clears = 0 => NoOverlap)
    BY DEF Sole, NoOverlap
  <1> QED
    BY <1>1, InitIInv, NextIInv, InitSole, NextSole, PTL DEF Spec

(* What TypeOK and IdsHeld say of the ids in hand. *)
LEMMA HandsAreOurs ==
    ASSUME IInv, NEW p \in Slots
    PROVE  /\ nextId \in Nat /\ nextId \notin DOMAIN sessions
           /\ nextId \notin InHand(p)
           /\ \A k \in DOMAIN open[p] :
                open[p][k].id \in DOMAIN sessions => sessions[open[p][k].id].key = k
           /\ pc[p] \in Inserting /\ newId[p] \in DOMAIN sessions =>
                sessions[newId[p]].key = cur[p]
  BY DEF IInv, TypeOK, IdsHeld, StoreTypeOK, Typed, Tracked, InHand, Inserting

(* While p works, nobody else has anything in hand. *)
LEMMA OthersEmptyHanded ==
    ASSUME NoOverlap, HandsOpen, NEW p \in Slots, pc[p] # "idle", NEW q \in Slots, q # p
    PROVE  pc[q] = "idle" /\ InHand(q) = {} /\ DOMAIN open[q] = {}
  BY DEF NoOverlap, HandsOpen, Loaded, InHand, Inserting

LEMMA LoadsKeepsHands ==
    ASSUME HandsOpen, NEW p \in Slots, Loads(p)
    PROVE  HandsOpen'
  <1>1. /\ pc'[p] = "poll" /\ UNCHANGED sessions
        /\ \A q \in Slots \ {p} : /\ open'[q] = open[q] /\ pc'[q] = pc[q]
                                  /\ cur'[q] = cur[q] /\ newId'[q] = newId[q]
    BY DEF Loads, Elsewhere
  <1>2. OpenIds' = OpenIds
    BY <1>1 DEF OpenIds
  <1>3. \A k \in DOMAIN open'[p] : \/ open'[p][k].id \in OpenIds
                                   \/ k \in DOMAIN open[p] /\ open'[p][k].id = open[p][k].id
    BY DEF Loads, OpenSessions
  <1>4. \A k \in DOMAIN open[p] : open[p][k].id \in DOMAIN sessions => open[p][k].id \in OpenIds
    BY DEF HandsOpen, InHand
  <1> QED
    BY <1>1, <1>2, <1>3, <1>4 DEF HandsOpen, InHand, Inserting, Loaded

LEMMA InsertsKeepsHands ==
    ASSUME IInv, HandsOpen, NEW p \in Slots, Inserts(p)
    PROVE  HandsOpen'
  <1>1. /\ pc[p] = "apply" /\ pc'[p] = "start" /\ UNCHANGED open
        /\ newId'[p] = nextId
        /\ DOMAIN sessions' = DOMAIN sessions \cup {nextId}
        /\ \A id \in DOMAIN sessions : sessions'[id] = sessions[id]
        /\ ~sessions'[nextId].closed
        /\ \A q \in Slots \ {p} : pc'[q] = pc[q] /\ newId'[q] = newId[q]
    BY DEF Inserts, Elsewhere
  <1>2. OpenIds' = OpenIds \cup {nextId}
    BY <1>1, HandsAreOurs DEF OpenIds
  <1>3. \A q \in Slots : InHand(q)' \subseteq InHand(q) \cup {nextId}
    BY <1>1 DEF InHand, Inserting
  <1>4. \A q \in Slots : InHand(q)' \cap DOMAIN sessions' \subseteq OpenIds'
    BY <1>1, <1>2, <1>3 DEF HandsOpen
  <1>5. \A q \in Slots : ~Loaded(pc'[q]) => DOMAIN open'[q] = {}
    BY <1>1 DEF HandsOpen, Loaded
  <1> QED
    BY <1>4, <1>5 DEF HandsOpen

LEMMA TracksKeepsHands ==
    ASSUME HandsOpen, NEW p \in Slots, Tracks(p)
    PROVE  HandsOpen'
  <1>1. /\ pc[p] = "track" /\ pc'[p] = "apply" /\ UNCHANGED sessions
        /\ DOMAIN open'[p] = DOMAIN open[p] \cup {cur[p]}
        /\ open'[p][cur[p]].id = newId[p]
        /\ \A k \in DOMAIN open[p] \ {cur[p]} : open'[p][k] = open[p][k]
        /\ \A q \in Slots \ {p} : /\ pc'[q] = pc[q] /\ newId'[q] = newId[q]
                                  /\ open'[q] = open[q]
    BY DEF Tracks, Elsewhere
  <1>2. OpenIds' = OpenIds
    BY <1>1 DEF OpenIds
  <1>3. \A q \in Slots : InHand(q)' \subseteq InHand(q)
    <2>1. InHand(p)' \subseteq InHand(p)
      BY <1>1 DEF InHand, Inserting
    <2>2. \A q \in Slots \ {p} : InHand(q)' = InHand(q)
      BY <1>1 DEF InHand
    <2> QED
      BY <2>1, <2>2
  <1>4. \A q \in Slots : ~Loaded(pc'[q]) => DOMAIN open'[q] = {}
    BY <1>1 DEF HandsOpen, Loaded
  <1> QED
    BY <1>1, <1>2, <1>3, <1>4 DEF HandsOpen

(* The key names the row, so closing it closes no other row in hand. *)
LEMMA ClosesKeepsHands ==
    ASSUME IInv, NoOverlap, HandsOpen, NEW p \in Slots, Closes(p)
    PROVE  HandsOpen'
  <1>1. PICK key \in DOMAIN open[p] :
          /\ DOMAIN open'[p] = DOMAIN open[p] \ {key}
          /\ \A k \in DOMAIN open'[p] : open'[p][k] = open[p][k]
          /\ DOMAIN sessions' = DOMAIN sessions
          /\ \A id \in DOMAIN sessions :
               /\ sessions'[id].key = sessions[id].key
               /\ id # open[p][key].id => sessions'[id] = sessions[id]
               /\ id = open[p][key].id => sessions'[id].closed
    BY DEF Closes
  <1>2. /\ pc[p] = "close" /\ pc'[p] = "close"
        /\ \A q \in Slots \ {p} : /\ pc'[q] = pc[q] /\ newId'[q] = newId[q]
                                  /\ open'[q] = open[q]
    BY DEF Closes, Elsewhere
  <1>3. OpenIds' = OpenIds \ {open[p][key].id}
    BY <1>1 DEF OpenIds
  <1>4. InHand(p)' \cap DOMAIN sessions' \subseteq OpenIds'
    <2>1. InHand(p) = {open[p][k].id : k \in DOMAIN open[p]}
      BY <1>2 DEF InHand, Inserting
    <2>2. InHand(p)' = {open[p][k].id : k \in DOMAIN open[p] \ {key}}
      BY <1>1, <1>2 DEF InHand, Inserting
    <2>3. \A k \in DOMAIN open[p] \ {key} :
            open[p][k].id \in DOMAIN sessions => open[p][k].id # open[p][key].id
      BY HandsAreOurs
    <2>4. InHand(p) \cap DOMAIN sessions \subseteq OpenIds
      BY DEF HandsOpen
    <2> QED
      BY <1>1, <1>3, <2>1, <2>2, <2>3, <2>4
  <1>5. \A q \in Slots \ {p} : InHand(q)' = {} /\ DOMAIN open'[q] = {}
    <2> SUFFICES ASSUME NEW q \in Slots \ {p} PROVE InHand(q)' = {} /\ DOMAIN open'[q] = {}
      OBVIOUS
    <2>1. InHand(q) = {} /\ DOMAIN open[q] = {}
      BY <1>2, OthersEmptyHanded
    <2> QED
      BY <1>2, <2>1 DEF InHand
  <1> QED
    BY <1>2, <1>4, <1>5 DEF HandsOpen, Loaded

LEMMA GoesOnKeepsHands ==
    ASSUME HandsOpen, GoesOn
    PROVE  HandsOpen'
  <1>1. DOMAIN sessions' = DOMAIN sessions /\ OpenIds' = OpenIds
    BY DEF GoesOn, SameRows, OpenIds
  <1>2. ASSUME NEW q \in Slots
        PROVE  /\ InHand(q)' \subseteq InHand(q)
               /\ ~Loaded(pc'[q]) => DOMAIN open'[q] = {}
    <2>1. CASE DOMAIN open'[q] = {} /\ pc'[q] = "idle"
      BY <2>1 DEF InHand, Inserting
    <2>2. CASE ~(DOMAIN open'[q] = {} /\ pc'[q] = "idle")
      <3>1. /\ DOMAIN open'[q] = DOMAIN open[q]
            /\ \A k \in DOMAIN open[q] : open'[q][k].id = open[q][k].id
            /\ Loaded(pc'[q]) <=> Loaded(pc[q])
            /\ pc'[q] \in Inserting => pc[q] \in Inserting /\ newId'[q] = newId[q]
        BY <2>2 DEF GoesOn
      <3>2. InHand(q)' \subseteq InHand(q)
        BY <3>1 DEF InHand
      <3>3. ~Loaded(pc'[q]) => DOMAIN open'[q] = {}
        BY <3>1 DEF HandsOpen
      <3> QED
        BY <3>2, <3>3
    <2> QED
      BY <2>1, <2>2
  <1> QED
    BY <1>1, <1>2 DEF HandsOpen

LEMMA NextHands ==
    IInv /\ NoOverlap /\ HandsOpen /\ [Next]_vars => HandsOpen'
  <1> SUFFICES ASSUME IInv, NoOverlap, HandsOpen, [Next]_vars PROVE HandsOpen'
    OBVIOUS
  <1>1. KindOfStep
    BY Kinds
  <1>2. CASE \E p \in Slots : Loads(p) \/ Inserts(p) \/ Tracks(p) \/ Closes(p)
    BY <1>2, LoadsKeepsHands, InsertsKeepsHands, TracksKeepsHands, ClosesKeepsHands
  <1>3. CASE GoesOn
    BY <1>3, GoesOnKeepsHands
  <1>4. CASE Clears
    BY <1>4 DEF Clears, HandsOpen
  <1>5. CASE Dies
    BY <1>5 DEF Dies, HandsOpen, InHand, Inserting
  <1> QED
    BY <1>1, <1>2, <1>3, <1>4, <1>5 DEF KindOfStep

LEMMA InitHands == Init => HandsOpen
  BY DEF Init, StoreInit, EmptyMap, HandsOpen, InHand, Inserting

LEMMA HandsAreTracked == HandsOpen => TrackedIsOpen
  BY DEF HandsOpen, InHand, TrackedIsOpen

(* While goroutines do not overlap, no poller tracks a closed row, across
   store errors, clears and crashes. *)
THEOREM TrackedIsOpenSafe == Spec /\ []NoOverlap => []TrackedIsOpen
  BY InitIInv, NextIInv, InitHands, NextHands, HandsAreTracked, PTL DEF Spec

LEMMA NextFinal ==
    IInv /\ HandsOpen /\ [Next]_vars =>
      [\A id \in DOMAIN sessions :
         sessions[id].closed /\ id \in DOMAIN sessions' => sessions'[id] = sessions[id]]_vars
  <1> SUFFICES ASSUME IInv, HandsOpen, [Next]_vars, NEW id \in DOMAIN sessions,
                      sessions[id].closed, id \in DOMAIN sessions'
               PROVE  sessions'[id] = sessions[id]
    OBVIOUS
  <1>1. KindOfStep
    BY Kinds
  <1>2. \A q \in Slots : id \notin InHand(q)
    BY DEF HandsOpen, OpenIds
  <1>3. \A q \in Slots : \A k \in DOMAIN open[q] : open[q][k].id # id
    BY <1>2 DEF InHand
  <1>4. CASE \E p \in Slots : Loads(p) \/ Inserts(p) \/ Tracks(p) \/ Closes(p)
    BY <1>3, <1>4 DEF Loads, Inserts, Tracks, Closes
  <1>5. CASE GoesOn
    BY <1>2, <1>5 DEF GoesOn, SameRows
  <1>6. CASE Clears \/ Dies
    BY <1>6 DEF Clears, Dies
  <1> QED
    BY <1>1, <1>4, <1>5, <1>6 DEF KindOfStep

(* Under the same condition a closed session is history: no step changes it
   or opens it again. *)
THEOREM ClosedIsFinalSafe == Spec /\ []NoOverlap => ClosedIsFinal
  BY InitIInv, NextIInv, InitHands, NextHands, NextFinal, PTL DEF Spec, ClosedIsFinal

-----------------------------------------------------------------------------
(* Goroutines that do not overlap, and no store call has failed.           *)

(* What is known of an open row when the goroutine p is at work: it is in
   hand, under its own key. *)
LEMMA OpenRowInHand ==
    ASSUME IInv, RowsKnown, NEW p \in Slots, Loaded(pc[p]), NEW id \in OpenIds
    PROVE  \/ sessions[id].key \in DOMAIN open[p] /\ open[p][sessions[id].key].id = id
           \/ /\ pc[p] \in Inserting /\ newId[p] = id /\ sessions[id].key = cur[p]
              /\ cur[p] \notin DOMAIN open[p]
  <1>1. id \in InHand(p) /\ id \in DOMAIN sessions
    BY DEF RowsKnown, OpenIds
  <1>2. CASE \E k \in DOMAIN open[p] : open[p][k].id = id
    BY <1>1, <1>2, HandsAreOurs
  <1>3. CASE pc[p] \in Inserting /\ newId[p] = id
    BY <1>1, <1>3, HandsAreOurs DEF RowsKnown
  <1> QED
    BY <1>1, <1>2, <1>3 DEF InHand

LEMMA LoadsKeepsWhole ==
    ASSUME NoOverlap, OneOpenRow, RowsKnown, NEW p \in Slots, Loads(p), ~StoreFailed
    PROVE  OneOpenRow' /\ RowsKnown'
  <1>1. /\ pc[p] = "load" /\ pc'[p] = "poll" /\ UNCHANGED sessions
        /\ \A q \in Slots \ {p} : pc'[q] = pc[q]
    BY DEF Loads, Elsewhere
  <1>2. PICK found \in OpenSessions : /\ DOMAIN open'[p] = DOMAIN found
                                      /\ \A k \in DOMAIN found : open'[p][k].id = found[k]
    BY DEF Loads
  <1>3. /\ DOMAIN found = {sessions[id].key : id \in OpenIds}
        /\ \A k \in DOMAIN found : found[k] \in OpenIds /\ sessions[found[k]].key = k
    BY DEF OpenSessions
  <1>4. OpenIds' = OpenIds /\ OneOpenRow'
    BY <1>1 DEF OpenIds, OneOpenRow
  <1>5. \A id \in OpenIds : id \in InHand(p)'
    <2> SUFFICES ASSUME NEW id \in OpenIds PROVE id \in InHand(p)'
      OBVIOUS
    <2>1. found[sessions[id].key] = id /\ sessions[id].key \in DOMAIN found
      BY <1>3 DEF OneOpenRow
    <2> QED
      BY <1>2, <2>1 DEF InHand
  <1>6. \A q \in Slots \ {p} : pc'[q] = "idle"
    BY <1>1 DEF NoOverlap
  <1> QED
    BY <1>1, <1>4, <1>5, <1>6 DEF RowsKnown, Loaded, Inserting

LEMMA InsertsKeepsWhole ==
    ASSUME IInv, NoOverlap, OneOpenRow, RowsKnown, NEW p \in Slots, Inserts(p)
    PROVE  OneOpenRow' /\ RowsKnown'
  <1>1. PICK key \in Keys :
          /\ key \notin DOMAIN open[p]
          /\ cur'[p] = key
          /\ DOMAIN sessions' = DOMAIN sessions \cup {nextId}
          /\ \A id \in DOMAIN sessions : sessions'[id] = sessions[id]
          /\ sessions'[nextId].key = key /\ ~sessions'[nextId].closed
    BY DEF Inserts
  <1>2. /\ pc[p] = "apply" /\ pc'[p] = "start" /\ UNCHANGED open /\ newId'[p] = nextId
        /\ \A q \in Slots \ {p} : pc'[q] = "idle"
    BY DEF Inserts, Elsewhere, NoOverlap
  <1>3. OpenIds' = OpenIds \cup {nextId} /\ nextId \notin DOMAIN sessions
    BY <1>1, HandsAreOurs DEF OpenIds
  <1>4. Loaded(pc[p]) /\ pc[p] \notin Inserting
    BY <1>2 DEF Loaded, Inserting
  <1>5. \A id \in OpenIds : /\ sessions[id].key \in DOMAIN open[p]
                            /\ open[p][sessions[id].key].id = id
                            /\ id \in DOMAIN sessions
    BY <1>4, OpenRowInHand DEF OpenIds
  <1>6. OneOpenRow'
    <2> SUFFICES ASSUME NEW i \in OpenIds', NEW j \in OpenIds',
                        sessions'[i].key = sessions'[j].key
                 PROVE  i = j
      BY DEF OneOpenRow
    <2>1. CASE i \in OpenIds /\ j \in OpenIds
      BY <1>1, <1>5, <2>1 DEF OneOpenRow
    <2>2. CASE i = nextId \/ j = nextId
      BY <1>1, <1>3, <1>5, <2>2
    <2> QED
      BY <1>3, <2>1, <2>2
  <1>7. OpenIds' \subseteq InHand(p)'
    BY <1>2, <1>3, <1>5 DEF InHand, Inserting
  <1> QED
    BY <1>1, <1>2, <1>6, <1>7 DEF RowsKnown, Loaded, Inserting

LEMMA TracksKeepsWhole ==
    ASSUME IInv, NoOverlap, OneOpenRow, RowsKnown, NEW p \in Slots, Tracks(p)
    PROVE  OneOpenRow' /\ RowsKnown'
  <1>1. /\ pc[p] = "track" /\ pc'[p] = "apply" /\ UNCHANGED sessions
        /\ DOMAIN open'[p] = DOMAIN open[p] \cup {cur[p]}
        /\ open'[p][cur[p]].id = newId[p]
        /\ \A k \in DOMAIN open[p] \ {cur[p]} : open'[p][k] = open[p][k]
        /\ \A q \in Slots \ {p} : pc'[q] = "idle"
    BY DEF Tracks, Elsewhere, NoOverlap
  <1>2. OpenIds' = OpenIds /\ OneOpenRow'
    BY <1>1 DEF OpenIds, OneOpenRow
  <1>3. Loaded(pc[p]) /\ cur[p] \notin DOMAIN open[p]
    BY <1>1 DEF Loaded, RowsKnown, Inserting
  <1>4. OpenIds \subseteq InHand(p)'
    <2> SUFFICES ASSUME NEW id \in OpenIds PROVE id \in InHand(p)'
      OBVIOUS
    <2>1. \/ sessions[id].key \in DOMAIN open[p] /\ open[p][sessions[id].key].id = id
          \/ newId[p] = id
      BY <1>3, OpenRowInHand
    <2>2. \E k \in DOMAIN open'[p] : open'[p][k].id = id
      BY <1>1, <1>3, <2>1
    <2> QED
      BY <2>2 DEF InHand
  <1> QED
    BY <1>1, <1>2, <1>4 DEF RowsKnown, Loaded, Inserting

LEMMA ClosesKeepsWhole ==
    ASSUME IInv, NoOverlap, OneOpenRow, RowsKnown, NEW p \in Slots, Closes(p)
    PROVE  OneOpenRow' /\ RowsKnown'
  <1>1. PICK key \in DOMAIN open[p] :
          /\ DOMAIN open'[p] = DOMAIN open[p] \ {key}
          /\ \A k \in DOMAIN open'[p] : open'[p][k] = open[p][k]
          /\ DOMAIN sessions' = DOMAIN sessions
          /\ \A id \in DOMAIN sessions :
               /\ sessions'[id].key = sessions[id].key
               /\ id # open[p][key].id => sessions'[id] = sessions[id]
               /\ id = open[p][key].id => sessions'[id].closed
    BY DEF Closes
  <1>2. /\ pc[p] = "close" /\ pc'[p] = "close"
        /\ \A q \in Slots \ {p} : pc'[q] = "idle"
    BY DEF Closes, Elsewhere, NoOverlap
  <1>3. OpenIds' = OpenIds \ {open[p][key].id}
    BY <1>1 DEF OpenIds
  <1>4. OneOpenRow'
    BY <1>1, <1>3 DEF OneOpenRow, OpenIds
  <1>5. OpenIds' \subseteq InHand(p)'
    <2> SUFFICES ASSUME NEW id \in OpenIds, id # open[p][key].id PROVE id \in InHand(p)'
      BY <1>3
    <2>1. Loaded(pc[p]) /\ pc[p] \notin Inserting
      BY <1>2 DEF Loaded, Inserting
    <2>2. sessions[id].key \in DOMAIN open[p] /\ open[p][sessions[id].key].id = id
      BY <2>1, OpenRowInHand
    <2>3. \E k \in DOMAIN open'[p] : open'[p][k].id = id
      BY <1>1, <2>2
    <2> QED
      BY <2>3 DEF InHand
  <1> QED
    BY <1>2, <1>4, <1>5 DEF RowsKnown, Inserting, Loaded

LEMMA GoesOnKeepsWhole ==
    ASSUME OneOpenRow, RowsKnown, GoesOn, ~StoreFailed
    PROVE  OneOpenRow' /\ RowsKnown'
  <1>1. /\ DOMAIN sessions' = DOMAIN sessions
        /\ OpenIds' = OpenIds
        /\ \A id \in DOMAIN sessions : sessions'[id].key = sessions[id].key
    BY DEF GoesOn, SameRows, OpenIds
  <1>2. OneOpenRow'
    BY <1>1 DEF OneOpenRow, OpenIds
  <1>3. ASSUME NEW q \in Slots
        PROVE  /\ Loaded(pc'[q]) => OpenIds \subseteq InHand(q)'
               /\ pc'[q] \in Inserting => cur'[q] \notin DOMAIN open'[q]
    <2>1. CASE pc'[q] = "idle"
      BY <2>1 DEF Loaded, Inserting
    <2>2. CASE pc'[q] # "idle"
      <3>1. /\ DOMAIN open'[q] = DOMAIN open[q]
            /\ \A k \in DOMAIN open[q] : open'[q][k].id = open[q][k].id
            /\ Loaded(pc'[q]) <=> Loaded(pc[q])
            /\ pc'[q] \in Inserting => pc[q] \in Inserting
            /\ pc[q] \in Inserting => cur'[q] = cur[q] /\ newId'[q] = newId[q]
            /\ pc[q] \in Inserting /\ pc'[q] \notin Inserting => newId[q] \notin DOMAIN sessions
        BY <2>2 DEF GoesOn
      <3>2. ASSUME NEW id \in InHand(q), id \in OpenIds
            PROVE  id \in InHand(q)'
        BY <3>1, <3>2 DEF InHand, OpenIds
      <3> QED
        BY <3>1, <3>2 DEF RowsKnown
    <2> QED
      BY <2>1, <2>2
  <1> QED
    BY <1>1, <1>2, <1>3 DEF RowsKnown

LEMMA NextWhole ==
    IInv /\ NoOverlap /\ Whole /\ [Next]_vars => Whole'
  <1> SUFFICES ASSUME IInv, NoOverlap, Whole, [Next]_vars, errors' = 0
               PROVE  OneOpenRow' /\ RowsKnown'
    BY DEF Whole
  <1>1. KindOfStep
    BY Kinds
  <1>2. errors \in Nat
    BY DEF IInv, TypeOK, Typed
  <1>3. errors' = errors \/ errors' = errors + 1
    BY <1>1 DEF KindOfStep, Loads, Inserts, Tracks, Closes, Clears, Dies, GoesOn, StoreFailed
  <1>4. ~StoreFailed /\ OneOpenRow /\ RowsKnown
    BY <1>2, <1>3 DEF StoreFailed, Whole
  <1>5. CASE \E p \in Slots : Loads(p) \/ Inserts(p) \/ Tracks(p) \/ Closes(p)
    BY <1>4, <1>5, LoadsKeepsWhole, InsertsKeepsWhole, TracksKeepsWhole, ClosesKeepsWhole
  <1>6. CASE GoesOn
    BY <1>4, <1>6, GoesOnKeepsWhole
  <1>7. CASE Clears
    BY <1>4, <1>7 DEF Clears, OneOpenRow, RowsKnown, OpenIds
  <1>8. CASE Dies
    BY <1>4, <1>8 DEF Dies, OneOpenRow, RowsKnown, OpenIds, Loaded, Inserting
  <1> QED
    BY <1>1, <1>5, <1>6, <1>7, <1>8 DEF KindOfStep

LEMMA InitWhole == Init => Whole
  BY DEF Init, StoreInit, Whole, OneOpenRow, RowsKnown, OpenIds, Loaded, Inserting

(* A five-tuple has at most one open session row, while goroutines do not
   overlap and as long as no store call failed, across clears and crashes. *)
THEOREM OneOpenRowSafe == Spec /\ []NoOverlap => [](errors = 0 => OneOpenRow)
  <1>1. Whole => (errors = 0 => OneOpenRow)
    BY DEF Whole
  <1> QED
    BY <1>1, InitIInv, NextIInv, InitWhole, NextWhole, PTL DEF Spec

LEMMA WholeIsTracked == Whole => (errors = 0 => OpenIsTracked)
  <1> SUFFICES ASSUME RowsKnown, NEW p \in Slots, pc[p] = "wait", NEW id \in OpenIds
               PROVE  \E k \in DOMAIN open[p] : open[p][k].id = id
    BY DEF Whole, OpenIsTracked
  <1>1. Loaded(pc[p]) /\ pc[p] \notin Inserting
    BY DEF Loaded, Inserting
  <1>2. id \in InHand(p)
    BY <1>1 DEF RowsKnown
  <1> QED
    BY <1>1, <1>2 DEF InHand

(* Under the same conditions no row is open that the waiting poller does not
   track: each is closed once its flow is gone. *)
THEOREM OpenIsTrackedSafe == Spec /\ []NoOverlap => [](errors = 0 => OpenIsTracked)
  BY WholeIsTracked, InitIInv, NextIInv, InitWhole, NextWhole, PTL DEF Spec

-----------------------------------------------------------------------------
(* Reputation lookups, with any overlap.                                   *)

(* Inductive as it stands: a row is inserted by a goroutine that tracks it,
   and requests the lookup, unless it dies or a store call fails. *)
LookedUp == crashes = 0 => PublicIsLookedUp

Reached(id) ==
    \/ IsPrivateOrReserved(sessions[id].key.dst)
    \/ sessions[id].key.dst \in requested
    \/ \E p \in Slots : newId[p] = id /\ pc[p] \in Inserting

LEMMA NextLookedUp ==
    IInv /\ LookedUp /\ [Next]_vars => LookedUp'
  <1> SUFFICES ASSUME IInv, LookedUp, [Next]_vars, crashes' = 0, errors' = 0,
                      NEW id \in DOMAIN sessions'
               PROVE  Reached(id)'
    BY DEF LookedUp, PublicIsLookedUp, Reached, Inserting
  <1>1. KindOfStep
    BY Kinds
  <1>2. errors \in Nat /\ crashes \in Nat
    BY DEF IInv, TypeOK, Typed
  <1>3. errors' = errors \/ errors' = errors + 1
    BY <1>1 DEF KindOfStep, Loads, Inserts, Tracks, Closes, Clears, Dies, GoesOn, StoreFailed
  <1>4. ~StoreFailed /\ ~Dies /\ UNCHANGED crashes
    BY <1>1, <1>2, <1>3 DEF StoreFailed, Dies, KindOfStep
  <1>5. \A i \in DOMAIN sessions : Reached(i)
    BY <1>2, <1>3, <1>4 DEF LookedUp, PublicIsLookedUp, Reached, Inserting
  <1>6. ASSUME NEW p \in Slots, Loads(p) \/ Closes(p)
        PROVE  Reached(id)'
    <2>1. /\ id \in DOMAIN sessions /\ sessions'[id].key = sessions[id].key
          /\ UNCHANGED requested
          /\ pc[p] \notin Inserting
          /\ \A q \in Slots \ {p} : pc'[q] = pc[q] /\ newId'[q] = newId[q]
      BY <1>6 DEF Loads, Closes, Elsewhere, Inserting
    <2> QED
      BY <1>5, <2>1 DEF Reached
  <1>7. ASSUME NEW p \in Slots, Inserts(p)
        PROVE  Reached(id)'
    <2>1. /\ UNCHANGED requested
          /\ pc[p] \notin Inserting /\ pc'[p] \in Inserting /\ newId'[p] = nextId
          /\ \A q \in Slots \ {p} : pc'[q] = pc[q] /\ newId'[q] = newId[q]
          /\ id # nextId => id \in DOMAIN sessions /\ sessions'[id] = sessions[id]
      BY <1>7 DEF Inserts, Elsewhere, Inserting
    <2>2. CASE id = nextId
      BY <2>1, <2>2 DEF Reached
    <2>3. CASE id # nextId
      BY <1>5, <2>1, <2>3 DEF Reached
    <2> QED
      BY <2>2, <2>3
  <1>8. ASSUME NEW p \in Slots, Tracks(p)
        PROVE  Reached(id)'
    <2>1. /\ UNCHANGED sessions /\ requested' = requested \cup LookupsFor(cur[p])
          /\ pc[p] \in Inserting
          /\ \A q \in Slots \ {p} : pc'[q] = pc[q] /\ newId'[q] = newId[q]
      BY <1>8 DEF Tracks, Elsewhere, Inserting
    <2>2. CASE newId[p] = id
      <3>1. sessions[id].key = cur[p]
        BY <2>1, <2>2, HandsAreOurs
      <3> QED
        BY <2>1, <3>1 DEF Reached, LookupsFor
    <2>3. CASE newId[p] # id
      BY <1>5, <2>1, <2>3 DEF Reached
    <2> QED
      BY <2>2, <2>3
  <1>9. CASE GoesOn
    <2>1. /\ id \in DOMAIN sessions /\ sessions'[id].key = sessions[id].key
          /\ UNCHANGED requested
          /\ \A q \in Slots : newId[q] = id /\ pc[q] \in Inserting =>
               newId'[q] = id /\ pc'[q] \in Inserting
      BY <1>4, <1>9 DEF GoesOn, SameRows, Inserting
    <2> QED
      BY <1>5, <2>1 DEF Reached
  <1>10. CASE Clears
    BY <1>10 DEF Clears
  <1> QED
    BY <1>1, <1>4, <1>6, <1>7, <1>8, <1>9, <1>10 DEF KindOfStep

(* Every public destination on record has had its lookup requested, or is
   about to, whatever pollers overlap and the history is cleared meanwhile, as
   long as no store call failed and the process lives. *)
THEOREM LookupsRequested == Spec => [](crashes = 0 => PublicIsLookedUp)
  <1>1. Init => LookedUp
    BY DEF Init, StoreInit, LookedUp, PublicIsLookedUp
  <1>2. LookedUp <=> (crashes = 0 => PublicIsLookedUp)
    BY DEF LookedUp
  <1> QED
    BY <1>1, <1>2, InitIInv, NextIInv, NextLookedUp, PTL DEF Spec

-----------------------------------------------------------------------------
(* The TCP states on record.                                               *)

Sampled(id, state) == \E s \in samples : s.session = id /\ s.state = state

(* The row that a goroutine has written and not yet sampled. *)
InFlight(p) ==
    CASE pc[p] = "start" -> {newId[p]}
      [] pc[p] \in {"bump", "sample"} -> {open[p][cur[p]].id}
      [] OTHER -> {}

(* What a goroutine compares the next listing with has been sampled, and what
   it is about to track; what it is about to sample is in the row. *)
SampledBy(p) ==
    /\ errors = 0 \/ stops = 0 =>
         \A k \in DOMAIN open[p] : Sampled(open[p][k].id, open[p][k].state)
    /\ pc[p] \in {"bumpNew", "track"} => Sampled(newId[p], snap[p][cur[p]].state)
    /\ errors = 0 => \A id \in InFlight(p) :
         id \in DOMAIN sessions => sessions[id].state = snap[p][cur[p]].state

(* A restarted poller resumes from the rows: their states are on record. *)
RowsSampled ==
    \A id \in OpenIds :
      Sampled(id, sessions[id].state) \/ \E p \in Slots : id \in InFlight(p)

(* A poller that is never restarted loads its sessions from an empty table. *)
FirstLoad ==
    /\ \A p \in Slots : pc[p] = "load" => DOMAIN sessions = {}
    /\ current = NoSlot => DOMAIN sessions = {} /\ \A p \in Slots : pc[p] = "idle"

OnRecord ==
    clears = 0 /\ crashes = 0 =>
      /\ \A p \in Slots : SampledBy(p)
      /\ errors = 0 => RowsSampled
      /\ stops = 0 => FirstLoad
      /\ ~clearing

(* A step of the goroutine p alone: it is enough to look at p and at the rows
   that were written. *)
LEMMA OnRecordByWork ==
    ASSUME OnRecord, NoOverlap, HandsOpen, NEW p \in Slots,
           pc[p] # "idle", pc'[p] # "load", Elsewhere(p),
           UNCHANGED <<current, clearing, stops, clears, crashes>>,
           clears = 0 /\ crashes = 0 => SampledBy(p)',
           clears = 0 /\ crashes = 0 /\ errors' = 0 =>
             /\ errors = 0
             /\ samples \subseteq samples'
             /\ \A id \in OpenIds' :
                  \/ Sampled(id, sessions[id].state)'
                  \/ id \in InFlight(p)'
                  \/ /\ id \in OpenIds /\ sessions'[id].state = sessions[id].state
                     /\ id \notin InFlight(p)
    PROVE  OnRecord'
  <1> SUFFICES ASSUME clears = 0, crashes = 0
               PROVE  /\ \A q \in Slots : SampledBy(q)'
                      /\ errors' = 0 => RowsSampled'
                      /\ stops = 0 => FirstLoad'
                      /\ ~clearing
    BY DEF OnRecord
  <1>1. ASSUME NEW q \in Slots, q # p
        PROVE  /\ pc[q] = "idle" /\ pc'[q] = "idle"
               /\ DOMAIN open[q] = {} /\ DOMAIN open'[q] = {}
               /\ InFlight(q) = {} /\ InFlight(q)' = {}
    <2>1. pc[q] = "idle" /\ DOMAIN open[q] = {} /\ pc'[q] = pc[q] /\ open'[q] = open[q]
      BY <1>1, OthersEmptyHanded DEF Elsewhere
    <2> QED
      BY <2>1 DEF InFlight
  <1>2. ASSUME NEW q \in Slots
        PROVE  SampledBy(q)'
    <2>1. CASE q = p
      BY <2>1
    <2>2. CASE q # p
      BY <1>1, <2>2 DEF SampledBy
    <2> QED
      BY <2>1, <2>2
  <1>3. ASSUME errors' = 0, NEW id \in OpenIds'
        PROVE  Sampled(id, sessions[id].state)' \/ \E q \in Slots : id \in InFlight(q)'
    <2>1. CASE id \in OpenIds /\ sessions'[id].state = sessions[id].state /\ id \notin InFlight(p)
      <3>1. RowsSampled
        BY <1>3 DEF OnRecord
      <3>2. \A q \in Slots : id \notin InFlight(q)
        BY <1>1, <2>1
      <3>3. Sampled(id, sessions[id].state)
        BY <2>1, <3>1, <3>2 DEF RowsSampled
      <3> QED
        BY <1>3, <2>1, <3>3 DEF Sampled
    <2> QED
      BY <1>3, <2>1
  <1>4. stops = 0 => FirstLoad'
    BY <1>1 DEF OnRecord, FirstLoad
  <1>5. ~clearing
    BY DEF OnRecord
  <1> QED
    BY <1>2, <1>3, <1>4, <1>5 DEF RowsSampled

(* Nothing that matters is touched. *)
LEMMA OnRecordKept ==
    ASSUME OnRecord, NEW p \in Slots, NoOverlap, HandsOpen,
           pc[p] \notin {"idle", "start", "bump", "sample"},
           pc'[p] \notin {"load", "start", "bumpNew", "track", "bump", "sample"},
           Elsewhere(p),
           UNCHANGED <<sessions, samples, current, clearing, errors, stops, clears, crashes>>,
           open'[p] = open[p] \/ DOMAIN open'[p] = {}
    PROVE  OnRecord'
  <1>1. InFlight(p) = {} /\ InFlight(p)' = {}
    BY DEF InFlight
  <1>2. OpenIds' = OpenIds
    BY DEF OpenIds
  <1>3. clears = 0 /\ crashes = 0 => SampledBy(p)'
    BY <1>1 DEF OnRecord, SampledBy, Sampled
  <1> QED
    BY <1>1, <1>2, <1>3, OnRecordByWork

LEMMA LoadOnRecord ==
    ASSUME IInv, NoOverlap, HandsOpen, OnRecord, NEW p \in Slots, LoadOpenSessions(p)
    PROVE  OnRecord'
  <1> USE DEF IInv, TypeOK
  <1>1. /\ pc[p] = "load" /\ pc'[p] = "poll"
        /\ UNCHANGED <<sessions, samples, current, clearing, stops, clears, crashes>>
        /\ Elsewhere(p)
    <2>1. Loads(p)
      BY LoadKind
    <2> QED
      BY <2>1 DEF Loads, LoadOpenSessions, PollerFrame, AnyPollerFrame, managerVars
  <1>2. InFlight(p) = {} /\ InFlight(p)' = {} /\ OpenIds' = OpenIds
    BY <1>1 DEF InFlight, OpenIds
  <1>3. \/ UNCHANGED open /\ errors' = errors + 1
        \/ /\ UNCHANGED errors
           /\ \E found \in OpenSessions :
                open' = [open EXCEPT ![p] = [k \in DOMAIN found |-> ResumedSession(found[k])]]
    BY DEF LoadOpenSessions, StoreFails, StoreSucceeds
  <1>4. errors \in Nat
    BY DEF Typed
  <1>5. ASSUME clears = 0, crashes = 0, errors' = 0 \/ stops = 0, NEW k \in DOMAIN open'[p]
        PROVE  Sampled(open[p][k].id, open[p][k].state)'
    <2>1. CASE UNCHANGED open /\ errors' = errors + 1
      <3>1. stops = 0 /\ DOMAIN open[p] = DOMAIN open'[p] /\ open'[p][k] = open[p][k]
        BY <1>4, <1>5, <2>1
      <3>2. Sampled(open[p][k].id, open[p][k].state)
        BY <1>5, <3>1 DEF OnRecord, SampledBy
      <3> QED
        BY <1>1, <3>1, <3>2 DEF Sampled
    <2>2. CASE UNCHANGED errors /\ \E found \in OpenSessions :
                 open' = [open EXCEPT ![p] = [i \in DOMAIN found |-> ResumedSession(found[i])]]
      <3>1. PICK found \in OpenSessions :
                 open' = [open EXCEPT ![p] = [i \in DOMAIN found |-> ResumedSession(found[i])]]
        BY <2>2
      <3>2. open'[p] = [i \in DOMAIN found |-> ResumedSession(found[i])]
        BY <3>1 DEF Typed
      <3>3. /\ k \in DOMAIN found
            /\ open'[p][k].id = found[k] /\ open'[p][k].state = sessions[found[k]].state
        BY <1>5, <3>2 DEF ResumedSession
      <3>4. found[k] \in OpenIds
        BY <3>3 DEF OpenSessions
      <3>5. found[k] \in DOMAIN sessions
        BY <3>4 DEF OpenIds
      <3>6. errors = 0
        BY <1>1, <1>5, <2>2, <3>5 DEF OnRecord, FirstLoad
      <3>7. \A q \in Slots \ {p} : pc[q] = "idle"
        BY <1>1 DEF NoOverlap
      <3>8. \A q \in Slots : InFlight(q) = {}
        BY <1>1, <3>7 DEF InFlight
      <3>9. Sampled(found[k], sessions[found[k]].state)
        BY <1>5, <3>4, <3>6, <3>8 DEF OnRecord, RowsSampled
      <3> QED
        BY <1>1, <3>3, <3>9 DEF Sampled
    <2> QED
      BY <1>3, <2>1, <2>2
  <1>6. clears = 0 /\ crashes = 0 => SampledBy(p)'
    BY <1>1, <1>2, <1>5 DEF SampledBy
  <1>7. errors' = 0 => errors = 0
    BY <1>3, <1>4
  <1> QED
    BY <1>1, <1>2, <1>6, <1>7, OnRecordByWork

LEMMA PollStepsOnRecord ==
    ASSUME IInv, NoOverlap, HandsOpen, OnRecord, NEW p \in Slots,
           \/ PollSucceeds(p) \/ PollMisreads(p) \/ PollFails(p) \/ BeginClosing(p)
           \/ EndPoll(p) \/ TickerFires(p) \/ RunReturns(p)
    PROVE  OnRecord'
  <1> USE DEF IInv, TypeOK
  <1>1. UNCHANGED <<sessions, samples, current, clearing, errors, stops, clears, crashes>>
    BY DEF PollSucceeds, PollMisreads, PollFails, BeginClosing, EndPoll, TickerFires, RunReturns,
           StoreSucceeds, PollerFrame, AnyPollerFrame, storeVars, managerVars
  <1>2. /\ pc[p] \in {"poll", "apply", "close", "wait"}
        /\ pc'[p] \in {"poll", "apply", "close", "wait", "idle"}
    BY DEF PollSucceeds, PollMisreads, PollFails, BeginClosing, EndPoll, TickerFires, RunReturns,
           GoTo, Typed
  <1>3. \/ open' = open
        \/ open' = [open EXCEPT ![p] = EmptyMap]
    BY DEF PollSucceeds, PollMisreads, PollFails, BeginClosing, EndPoll, TickerFires, RunReturns
  <1>4. open'[p] = open[p] \/ DOMAIN open'[p] = {}
    BY <1>3 DEF Typed, EmptyMap
  <1>5. Elsewhere(p)
    <2>1. \A q \in Slots \ {p} : pc'[q] = pc[q]
      BY DEF PollSucceeds, PollMisreads, PollFails, BeginClosing, EndPoll, TickerFires, RunReturns,
             GoTo, Typed
    <2>2. \A q \in Slots \ {p} : cur'[q] = cur[q] /\ newId'[q] = newId[q]
      BY DEF PollSucceeds, PollMisreads, PollFails, BeginClosing, EndPoll, TickerFires, RunReturns,
             Typed
    <2> QED
      BY <1>3, <2>1, <2>2 DEF Elsewhere, Typed
  <1> QED
    BY <1>1, <1>2, <1>4, <1>5, OnRecordKept

LEMMA ApplyNewFlowOnRecord ==
    ASSUME IInv, NoOverlap, HandsOpen, OnRecord, NEW p \in Slots, ApplyNewFlow(p)
    PROVE  OnRecord'
  <1> USE DEF IInv, TypeOK
  <1>1. PICK key \in todo[p] :
          /\ cur' = [cur EXCEPT ![p] = key]
          /\ \/ /\ InsertSession(key, snap[p][key])
                /\ StoreSucceeds
                /\ newId' = [newId EXCEPT ![p] = nextId]
                /\ GoTo(p, "start")
                /\ UNCHANGED <<open, requested>>
             \/ /\ StoreFails
                /\ UNCHANGED newId
                /\ Abandon(p)
    BY DEF ApplyNewFlow
  <1>2. /\ pc[p] = "apply" /\ cur'[p] = key
        /\ UNCHANGED <<open, snap, samples, current, clearing, stops, clears, crashes>>
        /\ pc'[p] \in {"start", "apply"}
        /\ Elsewhere(p)
    BY <1>1 DEF ApplyNewFlow, InsertSession, StoreFails, storeVars, Abandon, GoTo, PollerFrame,
                AnyPollerFrame, managerVars, Typed, Elsewhere
  <1>3. InFlight(p) = {} /\ nextId \notin DOMAIN sessions
    BY <1>2, HandsAreOurs DEF InFlight
  <1>4. errors' \in {errors, errors + 1} /\ errors \in Nat
    BY <1>1 DEF StoreSucceeds, StoreFails, Typed
  <1>5. clears = 0 /\ crashes = 0 /\ (errors' = 0 \/ stops = 0) =>
          \A k \in DOMAIN open'[p] : Sampled(open[p][k].id, open[p][k].state)'
    BY <1>2, <1>4 DEF OnRecord, SampledBy, Sampled
  <1>6. CASE InsertSession(key, snap[p][key]) /\ newId' = [newId EXCEPT ![p] = nextId]
             /\ GoTo(p, "start")
    <2>1. /\ DOMAIN sessions' = DOMAIN sessions \cup {nextId}
          /\ sessions'[nextId].state = snap[p][key].state
      BY <1>6 DEF InsertSession
    <2>2. \A id \in DOMAIN sessions : sessions'[id] = sessions[id]
      BY <1>3, <1>6 DEF InsertSession
    <2>3. pc'[p] = "start" /\ newId'[p] = nextId /\ InFlight(p)' = {nextId}
      BY <1>6 DEF GoTo, Typed, InFlight
    <2>4. clears = 0 /\ crashes = 0 => SampledBy(p)'
      BY <1>2, <1>5, <2>1, <2>3 DEF SampledBy
    <2>5. \A id \in OpenIds' : id = nextId \/ (id \in OpenIds /\ sessions'[id] = sessions[id])
      BY <2>1, <2>2 DEF OpenIds
    <2> QED
      BY <1>2, <1>3, <1>4, <2>3, <2>4, <2>5, OnRecordByWork
  <1>7. CASE StoreFails /\ Abandon(p)
    <2>1. errors' # 0 /\ pc'[p] = "apply" /\ InFlight(p)' = {}
      BY <1>4, <1>7 DEF StoreFails, Abandon, GoTo, Typed, InFlight
    <2>2. clears = 0 /\ crashes = 0 => SampledBy(p)'
      BY <1>2, <1>5, <2>1 DEF SampledBy
    <2> QED
      BY <1>2, <2>1, <2>2, OnRecordByWork
  <1> QED
    BY <1>1, <1>6, <1>7

LEMMA ApplyKnownFlowOnRecord ==
    ASSUME IInv, NoOverlap, HandsOpen, OnRecord, NEW p \in Slots, ApplyKnownFlow(p)
    PROVE  OnRecord'
  <1> USE DEF IInv, TypeOK
  <1>1. PICK key \in todo[p] :
          /\ key \in DOMAIN open[p]
          /\ cur' = [cur EXCEPT ![p] = key]
          /\ \/ /\ UpdateSession(open[p][key].id, snap[p][key])
                /\ StoreSucceeds
                /\ GoTo(p, "bump")
                /\ UNCHANGED <<open, requested>>
             \/ /\ StoreFails
                /\ Abandon(p)
    BY DEF ApplyKnownFlow
  <1>2. /\ pc[p] = "apply" /\ cur'[p] = key
        /\ UNCHANGED <<open, snap, samples, current, clearing, stops, clears, crashes>>
        /\ pc'[p] \in {"bump", "apply"}
        /\ Elsewhere(p)
    BY <1>1 DEF ApplyKnownFlow, UpdateSession, StoreFails, storeVars, Abandon, GoTo, PollerFrame,
                AnyPollerFrame, managerVars, Typed, Elsewhere
  <1>3. InFlight(p) = {} /\ snap[p][key] \in Flow
    BY <1>2 DEF InFlight, ApplyKnownFlow, LocalsOK, Typed
  <1>4. errors' \in {errors, errors + 1} /\ errors \in Nat
    BY <1>1 DEF StoreSucceeds, StoreFails, Typed
  <1>5. clears = 0 /\ crashes = 0 /\ (errors' = 0 \/ stops = 0) =>
          \A k \in DOMAIN open'[p] : Sampled(open[p][k].id, open[p][k].state)'
    BY <1>2, <1>4 DEF OnRecord, SampledBy, Sampled
  <1>6. CASE UpdateSession(open[p][key].id, snap[p][key]) /\ GoTo(p, "bump")
    <2> DEFINE written == open[p][key].id
    <2>1. pc'[p] = "bump" /\ InFlight(p)' = {written}
      BY <1>2, <1>6 DEF GoTo, Typed, InFlight
    <2>2. UpdateSession(written, snap[p][key])
      BY <1>6
    <2> HIDE DEF written
    <2>3. /\ DOMAIN sessions' = DOMAIN sessions
          /\ \A id \in DOMAIN sessions :
               /\ id = written => sessions'[id].state = snap[p][key].state
               /\ id # written => sessions'[id] = sessions[id]
      BY <2>2 DEF UpdateSession, StoreTypeOK, SessionRow
    <2>4. clears = 0 /\ crashes = 0 => SampledBy(p)'
      BY <1>2, <1>5, <2>1, <2>3 DEF SampledBy
    <2>5. \A id \in OpenIds' : id = written \/ (id \in OpenIds /\ sessions'[id] = sessions[id])
      BY <2>3 DEF OpenIds
    <2> QED
      BY <1>2, <1>3, <1>4, <2>1, <2>4, <2>5, OnRecordByWork
  <1>7. CASE StoreFails /\ Abandon(p)
    <2>1. errors' # 0 /\ pc'[p] = "apply" /\ InFlight(p)' = {}
      BY <1>4, <1>7 DEF StoreFails, Abandon, GoTo, Typed, InFlight
    <2>2. clears = 0 /\ crashes = 0 => SampledBy(p)'
      BY <1>2, <1>5, <2>1 DEF SampledBy
    <2> QED
      BY <1>2, <2>1, <2>2, OnRecordByWork
  <1> QED
    BY <1>1, <1>6, <1>7

LEMMA StartSampleOnRecord ==
    ASSUME IInv, NoOverlap, HandsOpen, OnRecord, NEW p \in Slots, StartSample(p)
    PROVE  OnRecord'
  <1> USE DEF IInv, TypeOK
  <1> DEFINE state == snap[p][cur[p]].state
  <1>1. /\ pc[p] = "start" /\ pc'[p] \in {"bumpNew", "apply"}
        /\ UNCHANGED <<sessions, open, snap, cur, newId, current, clearing, stops, clears, crashes>>
        /\ samples \subseteq samples'
        /\ Elsewhere(p)
        /\ errors' \in {errors, errors + 1} /\ errors \in Nat
    BY DEF StartSample, InsertSample, StoreSucceeds, StoreFails, storeVars, Abandon, GoTo, PollerFrame,
           AnyPollerFrame, managerVars, Typed, Elsewhere
  <1>2. InFlight(p) = {newId[p]} /\ InFlight(p)' = {} /\ OpenIds' = OpenIds
    BY <1>1 DEF InFlight, OpenIds
  <1>3. clears = 0 /\ crashes = 0 /\ (errors' = 0 \/ stops = 0) =>
          \A k \in DOMAIN open'[p] : Sampled(open[p][k].id, open[p][k].state)'
    BY <1>1 DEF OnRecord, SampledBy, Sampled
  <1>4. CASE InsertSample(newId[p], "start", snap[p][cur[p]])
    <2>1. Sampled(newId[p], state)'
      <3> DEFINE s == [session |-> newId[p], event |-> "start", state |-> state]
      <3>1. s \in samples' /\ s.session = newId[p] /\ s.state = state
        BY <1>4 DEF InsertSample
      <3> QED
        BY <1>1, <3>1 DEF Sampled
    <2>2. clears = 0 /\ crashes = 0 => SampledBy(p)'
      BY <1>1, <1>2, <1>3, <2>1 DEF SampledBy
    <2>3. clears = 0 /\ crashes = 0 /\ errors' = 0 =>
            \A id \in OpenIds' : id = newId[p] => Sampled(id, sessions[id].state)'
      BY <1>1, <1>2, <2>1 DEF OnRecord, SampledBy, OpenIds
    <2> QED
      BY <1>1, <1>2, <2>2, <2>3, OnRecordByWork
  <1>5. CASE newId[p] \notin DOMAIN sessions \/ errors' # 0
    <2>1. CASE pc'[p] = "apply"
      <3>1. clears = 0 /\ crashes = 0 => SampledBy(p)'
        BY <1>1, <1>2, <1>3, <2>1 DEF SampledBy
      <3>2. errors' = 0 => \A id \in OpenIds' : id # newId[p]
        BY <1>2, <1>5 DEF OpenIds
      <3> QED
        BY <1>1, <1>2, <3>1, <3>2, OnRecordByWork
    <2>2. CASE pc'[p] = "bumpNew"
      BY <1>4, <2>2 DEF StartSample, Abandon, GoTo, Typed
    <2> QED
      BY <1>1, <2>1, <2>2
  <1> QED
    BY <1>1, <1>4, <1>5 DEF StartSample, StoreFails, SampleAllowed

LEMMA BumpSessionOnRecord ==
    ASSUME IInv, NoOverlap, HandsOpen, OnRecord, NEW p \in Slots,
           BumpNewSession(p) \/ BumpKnownSession(p)
    PROVE  OnRecord'
  <1> USE DEF IInv, TypeOK
  <1>1. UNCHANGED <<sessions, samples, open, snap, cur, newId, current, clearing, stops, clears, crashes>>
    BY DEF BumpNewSession, BumpKnownSession, BumpPortUsage, StoreFails, storeVars, Abandon,
           PollerFrame, AnyPollerFrame, managerVars
  <1>2. \/ UNCHANGED errors
        \/ errors' = errors + 1 /\ pc' = [pc EXCEPT ![p] = "apply"]
    BY Zenon DEF BumpNewSession, BumpKnownSession, StoreSucceeds, StoreFails, Abandon, GoTo
  <1>3. \/ pc[p] = "bumpNew" /\ pc' = [pc EXCEPT ![p] = "track"]
        \/ pc[p] = "bump" /\ pc' = [pc EXCEPT ![p] = "sample"]
        \/ /\ pc[p] \in {"bumpNew", "bump"} /\ pc' = [pc EXCEPT ![p] = "apply"]
           /\ errors' = errors + 1
    BY Zenon DEF BumpNewSession, BumpKnownSession, Abandon, GoTo, StoreFails
  <1>4. OpenIds' = OpenIds /\ errors \in Nat /\ Elsewhere(p)
    BY <1>1, <1>3 DEF OpenIds, Typed, Elsewhere
  <1>5. clears = 0 /\ crashes = 0 /\ (errors' = 0 \/ stops = 0) =>
          \A k \in DOMAIN open'[p] : Sampled(open[p][k].id, open[p][k].state)'
    BY <1>1, <1>2, <1>4 DEF OnRecord, SampledBy, Sampled
  <1>6. CASE pc'[p] = "apply" /\ errors' = errors + 1
    <2>1. errors' # 0 /\ InFlight(p)' = {}
      BY <1>4, <1>6 DEF InFlight
    <2>2. clears = 0 /\ crashes = 0 => SampledBy(p)'
      BY <1>1, <1>5, <1>6, <2>1 DEF SampledBy
    <2> QED
      BY <1>1, <1>3, <1>4, <1>6, <2>1, <2>2, OnRecordByWork
  <1>7. CASE \/ pc[p] = "bumpNew" /\ pc'[p] = "track"
             \/ pc[p] = "bump" /\ pc'[p] = "sample"
    <2>1. InFlight(p)' = InFlight(p)
      BY <1>1, <1>7 DEF InFlight
    <2>2. errors' = 0 => errors = 0
      BY <1>2, <1>4
    <2>3. clears = 0 /\ crashes = 0 => SampledBy(p)'
      BY <1>1, <1>5, <1>7, <2>1, <2>2 DEF OnRecord, SampledBy, Sampled
    <2> QED
      BY <1>1, <1>4, <1>7, <2>1, <2>2, <2>3, OnRecordByWork
  <1> QED
    BY <1>3, <1>6, <1>7 DEF Typed

LEMMA TrackSessionOnRecord ==
    ASSUME IInv, NoOverlap, HandsOpen, OnRecord, NEW p \in Slots, TrackSession(p)
    PROVE  OnRecord'
  <1> USE DEF IInv, TypeOK
  <1> DEFINE tracked == [id |-> newId[p], bytes |-> snap[p][cur[p]].bytes,
                         state |-> snap[p][cur[p]].state]
  <1>1. /\ pc[p] = "track" /\ pc'[p] = "apply"
        /\ open' = [open EXCEPT ![p] = [k \in DOMAIN @ \cup {cur[p]} |->
                                          IF k = cur[p] THEN tracked ELSE @[k]]]
        /\ UNCHANGED <<sessions, samples, errors, current, clearing, stops, clears, crashes>>
        /\ Elsewhere(p)
    <2>1. Tracks(p)
      BY TrackSessionKind
    <2> QED
      BY <2>1 DEF Tracks, TrackSession, PollerFrame, AnyPollerFrame, managerVars
  <1>2. tracked.id = newId[p] /\ tracked.state = snap[p][cur[p]].state
    OBVIOUS
  <1> HIDE DEF tracked
  <1>3. open'[p] = [k \in DOMAIN open[p] \cup {cur[p]} |->
                      IF k = cur[p] THEN tracked ELSE open[p][k]]
    BY <1>1 DEF Typed
  <1>4. InFlight(p) = {} /\ InFlight(p)' = {} /\ OpenIds' = OpenIds
    BY <1>1 DEF InFlight, OpenIds
  <1>5. ASSUME clears = 0, crashes = 0, errors = 0 \/ stops = 0, NEW k \in DOMAIN open'[p]
        PROVE  Sampled(open[p][k].id, open[p][k].state)'
    <2>1. SampledBy(p)
      BY <1>5 DEF OnRecord
    <2>2. CASE k = cur[p]
      <3>1. open'[p][k] = tracked
        BY <1>3, <1>5, <2>2
      <3> QED
        BY <1>1, <1>2, <2>1, <3>1 DEF SampledBy, Sampled
    <2>3. CASE k # cur[p]
      <3>1. k \in DOMAIN open[p] /\ open'[p][k] = open[p][k]
        BY <1>3, <1>5, <2>3
      <3> QED
        BY <1>1, <1>5, <2>1, <3>1 DEF SampledBy, Sampled
    <2> QED
      BY <2>2, <2>3
  <1>6. clears = 0 /\ crashes = 0 => SampledBy(p)'
    BY <1>1, <1>4, <1>5 DEF SampledBy
  <1> QED
    BY <1>1, <1>4, <1>6, OnRecordByWork

LEMMA SampleAndSettleOnRecord ==
    ASSUME IInv, NoOverlap, HandsOpen, OnRecord, NEW p \in Slots, SampleAndSettle(p)
    PROVE  OnRecord'
  <1> USE DEF IInv, TypeOK
  <1>1. PICK key, id, flow, settled :
          /\ key = cur[p] /\ id = open[p][key].id /\ flow = snap[p][key]
          /\ settled = Settled(open[p][key], flow)
    OBVIOUS
  <1>2. /\ pc[p] = "sample" /\ pc'[p] = "apply"
        /\ UNCHANGED <<sessions, snap, cur, newId, current, clearing, stops, clears, crashes>>
        /\ samples \subseteq samples'
        /\ errors' \in {errors, errors + 1} /\ errors \in Nat
        /\ \A q \in Slots \ {p} : pc'[q] = pc[q]
    BY DEF SampleAndSettle, InsertSample, Settle, StoreSucceeds, StoreFails, storeVars, Abandon, GoTo,
           PollerFrame, AnyPollerFrame, managerVars, Typed
  <1>3. key \in DOMAIN open[p] /\ open[p][key] \in Tracked /\ flow \in Flow
    BY <1>1, <1>2 DEF LocalsOK, Typed
  <1>4. settled.id = id /\ settled.state = flow.state
    BY <1>1, <1>3 DEF Settled, Tracked, Flow
  <1>5. \/ open' = open
        \/ open' = [open EXCEPT ![p] = [open[p] EXCEPT ![key] = settled]]
    BY <1>1 DEF SampleAndSettle, Abandon, Settle
  <1>6. InFlight(p) = {id} /\ InFlight(p)' = {} /\ OpenIds' = OpenIds /\ Elsewhere(p)
    BY <1>1, <1>2, <1>5 DEF InFlight, OpenIds, Elsewhere, Typed
  <1> DEFINE Written == \E s \in samples' : s.session = id /\ s.state = flow.state
  <1>7. \/ Written /\ errors' = errors
        \/ open' = open /\ id \notin DOMAIN sessions
        \/ open' = open /\ errors' = errors + 1
        \/ flow.state = open[p][key].state /\ errors' = errors
    <2>1. CASE \E event : InsertSample(id, event, flow) /\ StoreSucceeds
      <3>1. PICK event : InsertSample(id, event, flow)
        BY <2>1
      <3> DEFINE sample == [session |-> id, event |-> event, state |-> flow.state]
      <3>2. sample \in samples' /\ sample.session = id /\ sample.state = flow.state
        BY <3>1 DEF InsertSample
      <3> QED
        BY <2>1, <3>2 DEF StoreSucceeds
    <2>2. CASE ~\E event : InsertSample(id, event, flow) /\ StoreSucceeds
      BY <1>1, <2>2 DEF SampleAndSettle, StoreSucceeds, StoreFails, SampleAllowed, Abandon
    <2> QED
      BY <2>1, <2>2
  <1>8. ASSUME clears = 0, crashes = 0, errors' = 0 \/ stops = 0
        PROVE  /\ \A k \in DOMAIN open'[p] : Sampled(open[p][k].id, open[p][k].state)'
               /\ open' = open \/ Written
    <2>1. \A k \in DOMAIN open[p] :
            \E s \in samples' : s.session = open[p][k].id /\ s.state = open[p][k].state
      BY <1>2, <1>8 DEF OnRecord, SampledBy, Sampled
    <2>2. open' = open \/ Written
      BY <1>1, <1>3, <1>7, <2>1
    <2>3. CASE open' = open
      BY <2>1, <2>2, <2>3 DEF Sampled
    <2>4. CASE open' = [open EXCEPT ![p] = [open[p] EXCEPT ![key] = settled]] /\ Written
      <3>1. open'[p] = [open[p] EXCEPT ![key] = settled]
        BY <2>4 DEF Typed
      <3>2. ASSUME NEW k \in DOMAIN open'[p]
            PROVE  \E s \in samples' : s.session = open'[p][k].id /\ s.state = open'[p][k].state
        <4>1. CASE k = key
          BY <1>3, <1>4, <2>4, <3>1, <4>1
        <4>2. CASE k # key
          BY <2>1, <3>1, <3>2, <4>2
        <4> QED
          BY <4>1, <4>2
      <3> QED
        BY <2>2, <3>2 DEF Sampled
    <2> QED
      BY <1>5, <2>2, <2>3, <2>4
  <1>9. clears = 0 /\ crashes = 0 => SampledBy(p)'
    BY <1>2, <1>6, <1>8 DEF SampledBy
  <1>10. ASSUME clears = 0, crashes = 0, errors' = 0
         PROVE  id \in OpenIds => Sampled(id, sessions[id].state)'
    <2>1. SampledBy(p) /\ errors = 0 /\ errors' # errors + 1
      BY <1>2, <1>10 DEF OnRecord
    <2>2. id \in DOMAIN sessions => sessions[id].state = flow.state
      BY <1>1, <1>6, <2>1 DEF SampledBy
    <2>3. id \notin DOMAIN sessions \/ Written
      <3>1. flow.state = open[p][key].state => Written
        BY <1>1, <1>2, <1>3, <2>1 DEF SampledBy, Sampled
      <3> QED
        BY <1>7, <2>1, <3>1
    <2> QED
      BY <1>2, <2>2, <2>3 DEF Sampled, OpenIds
  <1>11. ASSUME clears = 0, crashes = 0, errors' = 0, NEW i \in OpenIds'
         PROVE  \/ Sampled(i, sessions[i].state)'
                \/ /\ i \in OpenIds /\ sessions'[i].state = sessions[i].state
                   /\ i \notin InFlight(p)
    BY <1>2, <1>6, <1>10, <1>11
  <1>12. errors' = 0 => errors = 0
    BY <1>2
  <1> QED
    BY <1>2, <1>6, <1>9, <1>11, <1>12, OnRecordByWork

LEMMA CloseMissingOnRecord ==
    ASSUME IInv, NoOverlap, HandsOpen, OnRecord, NEW p \in Slots, CloseMissing(p)
    PROVE  OnRecord'
  <1> USE DEF IInv, TypeOK
  <1>1. PICK key \in todo[p] :
          \/ /\ CloseSession(open[p][key].id)
             /\ StoreSucceeds
             /\ open' = [open EXCEPT ![p] = [k \in DOMAIN @ \ {key} |-> @[k]]]
          \/ /\ StoreFails
             /\ UNCHANGED open
    BY DEF CloseMissing
  <1>2. /\ pc[p] = "close" /\ pc'[p] = "close" /\ Elsewhere(p)
        /\ UNCHANGED <<samples, current, clearing, stops, clears, crashes>>
        /\ errors' \in {errors, errors + 1} /\ errors \in Nat
    BY <1>1 DEF CloseMissing, CloseSession, StoreSucceeds, StoreFails, storeVars,
           PollerFrame, AnyPollerFrame, managerVars, Typed, Elsewhere
  <1>3. InFlight(p) = {} /\ InFlight(p)' = {}
    BY <1>2 DEF InFlight
  <1>4. \A k \in DOMAIN open'[p] : k \in DOMAIN open[p] /\ open'[p][k] = open[p][k]
    BY <1>1 DEF Typed
  <1>5. clears = 0 /\ crashes = 0 => SampledBy(p)'
    BY <1>2, <1>3, <1>4 DEF OnRecord, SampledBy, Sampled
  <1>6. \A id \in OpenIds' : id \in OpenIds /\ sessions'[id].state = sessions[id].state
    <2>1. CASE StoreFails
      BY <2>1 DEF StoreFails, storeVars, OpenIds
    <2>2. CASE CloseSession(open[p][key].id)
      <3>1. PICK closed : closed = open[p][key].id
        OBVIOUS
      <3>2. CloseSession(closed)
        BY <2>2, <3>1
      <3> QED
        BY <3>2 DEF CloseSession, OpenIds, StoreTypeOK, SessionRow
    <2> QED
      BY <1>1, <2>1, <2>2
  <1> QED
    BY <1>2, <1>3, <1>5, <1>6, OnRecordByWork

LEMMA ManagerOnRecord ==
    ASSUME IInv, HandsOpen, OnRecord, Manager
    PROVE  OnRecord'
  <1> USE DEF IInv, TypeOK
  <1> SUFFICES ASSUME clears' = 0, crashes' = 0 PROVE OnRecord'
    BY DEF OnRecord
  <1>1. {errors, stops, clears, crashes} \subseteq Nat
    BY DEF Typed
  <1>2. CASE ClearHistory
    BY <1>1, <1>2 DEF ClearHistory
  <1>3. CASE RestartAll
    BY <1>3 DEF RestartAll, OnRecord
  <1>4. CASE StartPoller \/ StopPoller
    <2>1. UNCHANGED <<sessions, samples, open, snap, cur, newId, clearing, errors, clears, crashes>>
      BY <1>4 DEF StartPoller, StopPoller, ManagerFrame, storeVars, countVars
    <2>2. \A q \in Slots : pc'[q] = pc[q] \/ (pc[q] = "idle" /\ pc'[q] = "load")
      BY <1>4 DEF StartPoller, StopPoller, Launch, Typed
    <2>3. stops' = 0 => stops = 0
      BY <1>1, <1>4 DEF StartPoller, StopPoller, countVars
    <2>4. OpenIds' = OpenIds /\ \A q \in Slots : InFlight(q)' = InFlight(q)
      BY <2>1, <2>2 DEF OpenIds, InFlight
    <2>5. \A q \in Slots : SampledBy(q)'
      BY <2>1, <2>2, <2>3, <2>4 DEF OnRecord, SampledBy, Sampled
    <2>6. errors' = 0 => RowsSampled'
      BY <2>1, <2>4 DEF OnRecord, RowsSampled, Sampled
    <2>7. stops' = 0 => FirstLoad'
      <3>1. CASE StartPoller
        <4>1. current' \in Slots /\ current = NoSlot
          BY <3>1 DEF StartPoller, Launch
        <4> QED
          BY <2>1, <2>2, <2>3, <4>1, SlotAssumption DEF OnRecord, FirstLoad
      <3>2. CASE StopPoller
        BY <1>1, <3>2 DEF StopPoller
      <3> QED
        BY <1>4, <3>1, <3>2
    <2> QED
      BY <2>1, <2>5, <2>6, <2>7 DEF OnRecord
  <1> QED
    BY <1>2, <1>3, <1>4 DEF Manager

LEMMA NextOnRecord ==
    IInv /\ NoOverlap /\ HandsOpen /\ OnRecord /\ [Next]_vars => OnRecord'
  <1> SUFFICES ASSUME IInv, NoOverlap, HandsOpen, OnRecord, [Next]_vars PROVE OnRecord'
    OBVIOUS
  <1>1. ASSUME NEW p \in Slots, Poller(p)
        PROVE  OnRecord'
    BY <1>1, LoadOnRecord, PollStepsOnRecord, ApplyNewFlowOnRecord, ApplyKnownFlowOnRecord,
       StartSampleOnRecord, BumpSessionOnRecord, TrackSessionOnRecord, SampleAndSettleOnRecord,
       CloseMissingOnRecord DEF Poller
  <1>2. CASE Device \/ UNCHANGED vars
    <2>1. UNCHANGED <<sessions, samples, pollerVars, managerVars, countVars>>
      BY <1>2 DEF Device, FlowStarts, FlowCarries, FlowReclassified, CounterResets, FlowEnds,
                  DeviceStep, storeVars, vars
    <2> QED
      BY <2>1 DEF OnRecord, SampledBy, RowsSampled, FirstLoad, InFlight, Sampled, OpenIds,
                  pollerVars, managerVars, countVars
  <1>3. CASE Manager
    BY <1>3, ManagerOnRecord
  <1>4. CASE Crash
    BY <1>4 DEF Crash, IInv, TypeOK, Typed, OnRecord
  <1> QED
    BY <1>1, <1>2, <1>3, <1>4 DEF Next

LEMMA InitOnRecord == Init => OnRecord
  BY DEF Init, StoreInit, EmptyMap, OnRecord, SampledBy, InFlight, RowsSampled, FirstLoad, OpenIds

(* No state change that a poll saw is lost to a store error or to a restart
   of the poller: what the next listing is compared with is on record. *)
THEOREM BaselineSafe == Spec /\ []NoOverlap => [](crashes = 0 => BaselineIsSampled)
  <1>1. OnRecord => (crashes = 0 => BaselineIsSampled)
    BY DEF OnRecord, SampledBy, Sampled, BaselineIsSampled
  <1> QED
    BY <1>1, InitIInv, NextIInv, InitHands, NextHands, InitOnRecord, NextOnRecord, PTL DEF Spec
=============================================================================
