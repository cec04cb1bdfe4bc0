--------------------------- MODULE FlowBytesProofs ---------------------------
(***************************************************************************)
(* The ledger: what the rollup claims against what the firewall carried    *)
(* and against what the sessions show, for pollers that do not overlap and *)
(* whose store calls succeed, across crashes, restarts and counters that   *)
(* go backwards.                                                           *)
(***************************************************************************)
EXTENDS FlowTrackingProofs

-----------------------------------------------------------------------------
(* Rows in hand.                                                           *)

(* What is in hand is in the table, unless the history was cleared. *)
HandsKept == clears = 0 => \A p \in Slots : InHand(p) \subseteq DOMAIN sessions

LEMMA NextHandsKept ==
    ASSUME IInv, HandsKept, [Next]_vars
    PROVE  HandsKept'
  <1> SUFFICES ASSUME clears' = 0, NEW q \in Slots
               PROVE  InHand(q)' \subseteq DOMAIN sessions'
    BY DEF HandsKept
  <1>1. KindOfStep
    BY Kinds
  <1>2. clears \in Nat
    BY DEF IInv, TypeOK, Typed
  <1>3. clears = 0 /\ ~Clears
    BY <1>1, <1>2 DEF KindOfStep, Clears
  <1>4. InHand(q) \subseteq DOMAIN sessions
    BY <1>3 DEF HandsKept
  <1>5. ASSUME NEW p \in Slots, Loads(p) \/ Inserts(p) \/ Tracks(p) \/ Closes(p)
        PROVE  InHand(q)' \subseteq DOMAIN sessions'
    <2>1. CASE q # p
      <3>1. /\ open'[q] = open[q] /\ pc'[q] = pc[q] /\ newId'[q] = newId[q]
            /\ DOMAIN sessions \subseteq DOMAIN sessions'
        BY <1>5, <2>1 DEF Loads, Inserts, Tracks, Closes, Elsewhere
      <3>2. InHand(q)' = InHand(q)
        BY <3>1 DEF InHand
      <3> QED
        BY <1>4, <3>1, <3>2
    <2>2. CASE q = p /\ Loads(p)
      <3>1. UNCHANGED sessions /\ pc'[p] \notin Inserting
        BY <2>2 DEF Loads, Inserting
      <3>2. \A k \in DOMAIN open'[p] :
              \/ open'[p][k].id \in DOMAIN sessions
              \/ k \in DOMAIN open[p] /\ open'[p][k].id = open[p][k].id
        BY <2>2 DEF Loads, OpenSessions, OpenIds
      <3> QED
        BY <1>4, <2>2, <3>1, <3>2 DEF InHand
    <2>3. CASE q = p /\ Inserts(p)
      BY <1>4, <2>3 DEF Inserts, InHand, Inserting
    <2>4. CASE q = p /\ Tracks(p)
      <3>1. /\ newId[p] \in InHand(p)
            /\ \A k \in DOMAIN open'[p] :
                 open'[p][k].id = newId[p] \/ \E i \in DOMAIN open[p] : open'[p][k].id = open[p][i].id
            /\ pc'[p] \notin Inserting /\ UNCHANGED sessions
        BY <2>4 DEF Tracks, InHand, Inserting
      <3> QED
        BY <1>4, <2>4, <3>1 DEF InHand
    <2>5. CASE q = p /\ Closes(p)
      BY <1>4, <2>5 DEF Closes, InHand, Inserting
    <2> QED
      BY <1>5, <2>1, <2>2, <2>3, <2>4, <2>5
  <1>6. CASE GoesOn
    <2>1. DOMAIN sessions' = DOMAIN sessions
      BY <1>6 DEF GoesOn, SameRows
    <2>2. InHand(q)' \subseteq InHand(q)
      <3>1. CASE DOMAIN open'[q] = {} /\ pc'[q] = "idle"
        BY <3>1 DEF InHand, Inserting
      <3>2. CASE ~(DOMAIN open'[q] = {} /\ pc'[q] = "idle")
        BY <1>6, <3>2 DEF GoesOn, InHand
      <3> QED
        BY <3>1, <3>2
    <2> QED
      BY <1>4, <2>1, <2>2
  <1>7. CASE Dies
    BY <1>7 DEF Dies, InHand, Inserting
  <1> QED
    BY <1>1, <1>3, <1>5, <1>6, <1>7 DEF KindOfStep

LEMMA InitHandsKept == Init => HandsKept
  BY DEF Init, EmptyMap, HandsKept, InHand, Inserting

(* So a row in hand is open, under its own key. *)
LEMMA HandsTrue ==
    ASSUME IInv, HandsOpen, HandsKept, clears = 0, NEW p \in Slots
    PROVE  /\ \A k \in DOMAIN open[p] :
                /\ open[p][k].id \in OpenIds /\ open[p][k].id \in DOMAIN sessions
                /\ sessions[open[p][k].id].key = k
           /\ pc[p] \in Inserting =>
                /\ newId[p] \in OpenIds /\ newId[p] \in DOMAIN sessions
                /\ sessions[newId[p]].key = cur[p]
  <1>1. InHand(p) \subseteq DOMAIN sessions /\ InHand(p) \subseteq OpenIds
    BY DEF HandsKept, HandsOpen
  <1>2. /\ \A k \in DOMAIN open[p] : open[p][k].id \in InHand(p)
        /\ pc[p] \in Inserting => newId[p] \in InHand(p)
    BY DEF InHand
  <1> QED
    BY <1>1, <1>2, HandsAreOurs

(* While a goroutine works nobody else does, and the device is read only. *)
LEMMA PollerAlone ==
    ASSUME IInv, NoOverlap, HandsOpen, NEW p \in Slots, Poller(p)
    PROVE  /\ pc[p] # "idle" /\ UNCHANGED <<live, carried, clears, crashes>>
           /\ \A q \in Slots \ {p} :
                /\ pc[q] = "idle" /\ pc'[q] = "idle"
                /\ open'[q] = open[q] /\ DOMAIN open[q] = {}
  <1>1. pc[p] # "idle"
    BY DEF Poller, LoadOpenSessions, PollSucceeds, PollMisreads, PollFails, ApplyNewFlow,
           StartSample, BumpNewSession, TrackSession, ApplyKnownFlow, BumpKnownSession,
           SampleAndSettle, BeginClosing, CloseMissing, EndPoll, TickerFires, RunReturns
  <1>2. UNCHANGED <<live, carried, clears, crashes>>
    BY DEF Poller, LoadOpenSessions, PollSucceeds, PollMisreads, PollFails, ApplyNewFlow,
           StartSample, BumpNewSession, TrackSession, ApplyKnownFlow, BumpKnownSession,
           SampleAndSettle, BeginClosing, CloseMissing, EndPoll, TickerFires, RunReturns,
           PollerFrame, AnyPollerFrame, deviceVars
  <1>3. /\ pc' = [pc EXCEPT ![p] = pc'[p]]
        /\ open' = [open EXCEPT ![p] = open'[p]]
    <2> USE DEF IInv, TypeOK, Typed
    <2>1. CASE \/ LoadOpenSessions(p) \/ PollSucceeds(p) \/ PollMisreads(p) \/ PollFails(p)
               \/ BeginClosing(p) \/ EndPoll(p) \/ TickerFires(p) \/ RunReturns(p)
      BY <2>1 DEF LoadOpenSessions, PollSucceeds, PollMisreads, PollFails, BeginClosing, EndPoll,
                  TickerFires, RunReturns, GoTo
    <2>2. CASE ApplyNewFlow(p) \/ StartSample(p) \/ BumpNewSession(p)
      BY <2>2 DEF ApplyNewFlow, StartSample, BumpNewSession, GoTo, Abandon
    <2>3. CASE ApplyKnownFlow(p) \/ BumpKnownSession(p)
      BY <2>3 DEF ApplyKnownFlow, BumpKnownSession, GoTo, Abandon
    <2>4. CASE CloseMissing(p)
      BY <2>4 DEF CloseMissing
    <2>5. CASE TrackSession(p)
      BY <2>5 DEF TrackSession, GoTo
    <2>6. CASE SampleAndSettle(p)
      BY <2>6 DEF SampleAndSettle, Settle, GoTo, Abandon
    <2> QED
      BY <2>1, <2>2, <2>3, <2>4, <2>5, <2>6 DEF Poller
  <1>4. \A q \in Slots \ {p} : pc[q] = "idle" /\ DOMAIN open[q] = {}
    BY <1>1, OthersEmptyHanded
  <1>5. \A q \in Slots \ {p} : pc'[q] = pc[q] /\ open'[q] = open[q]
    BY <1>3 DEF IInv, TypeOK, Typed
  <1> QED
    BY <1>1, <1>2, <1>4, <1>5

-----------------------------------------------------------------------------
(* What the rows say, and what each step does to the ledger.               *)

Opening == {"start", "bumpNew"}
Counting == {"start", "bumpNew", "bump"}

(* The baseline of a tracked session is in its row, where the listing is once
   the row is updated. *)
RowBytesOf(p, k) ==
    IF pc[p] \in {"bump", "sample"} /\ cur[p] = k THEN snap[p][k].bytes ELSE open[p][k].bytes

RowsMatchFor(p) ==
    /\ \A k \in DOMAIN open[p] : sessions[open[p][k].id].bytes = RowBytesOf(p, k)
    /\ pc[p] \in Inserting => sessions[newId[p]].bytes = snap[p][cur[p]].bytes
    /\ pc[p] = "close" => todo[p] \cap DOMAIN snap[p] = {}

RowsMatch == \A p \in Slots : RowsMatchFor(p)

(* Bytes written to the row and not yet counted. *)
Pending(p) == IF pc[p] = "bump" THEN Delta(p) ELSE snap[p][cur[p]].bytes

Quiet == errors = 0 /\ clears = 0

(* What the steps below start from. *)
Steady ==
    IInv /\ NoOverlap /\ HandsOpen /\ HandsKept /\ Quiet /\ OneOpenRow /\ RowsKnown /\ RowsMatch

(* A step that books nothing. *)
Rests ==
    /\ UNCHANGED <<sessions, usage, live, carried>>
    /\ \A q \in Slots :
         /\ pc'[q] \in Counting =>
              /\ pc[q] \in Counting /\ (pc'[q] \in Opening <=> pc[q] \in Opening)
              /\ cur'[q] = cur[q] /\ Pending(q)' = Pending(q)
         /\ pc[q] \in Counting /\ pc'[q] \notin Counting => crashes' = crashes + 1

(* The steps that book, each of a goroutine that is alone. *)
Solitary(p) ==
    /\ UNCHANGED <<live, carried, misreads, crashes>>
    /\ \A q \in Slots \ {p} : pc[q] = "idle" /\ pc'[q] = "idle"

(* The row of a new flow. *)
OpensRow(p) ==
    /\ Solitary(p) /\ pc[p] = "apply" /\ pc'[p] = "start"
    /\ cur'[p] \in DOMAIN snap[p]
    /\ \A id \in OpenIds : sessions[id].key # cur'[p]
    /\ sessions' = [id \in DOMAIN sessions \cup {nextId} |->
                      IF id = nextId THEN sessions'[nextId] ELSE sessions[id]]
    /\ sessions'[nextId].key = cur'[p] /\ ~sessions'[nextId].closed
    /\ sessions'[nextId].bytes = snap[p][cur'[p]].bytes
    /\ UNCHANGED <<snap, usage>>

(* The row of a known flow takes the listed bytes. *)
UpdatesRow(p) ==
    /\ Solitary(p) /\ pc[p] = "apply" /\ pc'[p] = "bump"
    /\ cur'[p] \in DOMAIN snap[p] /\ cur'[p] \in DOMAIN open[p]
    /\ LET id == open[p][cur'[p]].id IN
         /\ DOMAIN sessions' = DOMAIN sessions
         /\ id \in OpenIds /\ sessions[id].key = cur'[p]
         /\ sessions[id].bytes = open[p][cur'[p]].bytes
         /\ sessions'[id].bytes = snap[p][cur'[p]].bytes
         /\ sessions'[id].key = sessions[id].key /\ ~sessions'[id].closed
         /\ \A i \in DOMAIN sessions \ {id} : sessions'[i] = sessions[i]
    /\ UNCHANGED <<snap, open, usage>>

(* The rollup takes what is pending. *)
CountsBytes(p) ==
    /\ Solitary(p)
    /\ pc[p] \in {"bumpNew", "bump"} /\ pc'[p] \in {"track", "sample"}
    /\ cur[p] \in DOMAIN snap[p]
    /\ BumpPortUsage(cur[p], snap[p][cur[p]].app, Pending(p), pc[p] = "bumpNew")

(* A flow that is not listed is over. *)
ClosesRow(p) ==
    /\ Solitary(p) /\ pc[p] = "close" /\ pc'[p] = "close"
    /\ \E key \in DOMAIN open[p] \ DOMAIN snap[p] :
         /\ DOMAIN sessions' = DOMAIN sessions
         /\ open[p][key].id \in OpenIds
         /\ sessions[open[p][key].id].key = key
         /\ \A id \in DOMAIN sessions :
              /\ sessions'[id].key = sessions[id].key
              /\ sessions'[id].bytes = sessions[id].bytes
              /\ sessions'[id].closed <=> sessions[id].closed \/ id = open[p][key].id
    /\ UNCHANGED <<usage, snap>>

Books == \E p \in Slots : OpensRow(p) \/ UpdatesRow(p) \/ CountsBytes(p) \/ ClosesRow(p)

(* It is enough to look at the goroutine that moves. *)
LEMMA RowsMatchByWork ==
    ASSUME IInv, NoOverlap, HandsOpen, NEW p \in Slots, Poller(p), RowsMatchFor(p)'
    PROVE  RowsMatch'
  <1> SUFFICES ASSUME NEW q \in Slots, q # p PROVE RowsMatchFor(q)'
    BY DEF RowsMatch
  <1>1. pc'[q] = "idle" /\ open'[q] = open[q] /\ DOMAIN open[q] = {}
    BY PollerAlone
  <1> QED
    BY <1>1 DEF RowsMatchFor, Inserting

LEMMA RestsByWork ==
    ASSUME IInv, NoOverlap, HandsOpen, NEW p \in Slots, Poller(p),
           UNCHANGED <<sessions, usage>>,
           \/ pc'[p] \notin Counting /\ pc[p] \notin Counting
           \/ /\ pc[p] = "start" /\ pc'[p] = "bumpNew"
              /\ cur'[p] = cur[p] /\ snap'[p] = snap[p]
    PROVE  Rests
  <1>1. UNCHANGED <<live, carried>>
    BY PollerAlone
  <1>2. \A q \in Slots \ {p} : pc[q] = "idle" /\ pc'[q] = "idle"
    BY PollerAlone
  <1> QED
    BY <1>1, <1>2 DEF Rests, Counting, Opening, Pending

LEMMA LoadLedger ==
    ASSUME Steady, NEW p \in Slots, LoadOpenSessions(p), errors' = 0
    PROVE  RowsMatch' /\ Rests
  <1> USE DEF Steady, IInv, TypeOK
  <1>1. Poller(p)
    BY DEF Poller
  <1>2. pc[p] = "load" /\ pc'[p] = "poll" /\ UNCHANGED <<sessions, usage>>
    BY DEF LoadOpenSessions, StoreFails, storeVars, GoTo, Typed
  <1>3. PICK found \in OpenSessions :
          open' = [open EXCEPT ![p] = [k \in DOMAIN found |-> ResumedSession(found[k])]]
    BY DEF LoadOpenSessions, StoreFails, Quiet
  <1>4. open'[p] = [k \in DOMAIN found |-> ResumedSession(found[k])]
    BY <1>3 DEF Typed
  <1>5. RowsMatchFor(p)'
    BY <1>2, <1>4 DEF RowsMatchFor, RowBytesOf, ResumedSession, Inserting
  <1>6. Rests
    BY <1>1, <1>2, RestsByWork DEF Counting
  <1> QED
    BY <1>1, <1>5, <1>6, RowsMatchByWork

LEMMA PollStepsLedger ==
    ASSUME Steady, NEW p \in Slots,
           \/ PollSucceeds(p) \/ PollMisreads(p) \/ PollFails(p) \/ BeginClosing(p)
           \/ EndPoll(p) \/ TickerFires(p) \/ RunReturns(p)
    PROVE  RowsMatch' /\ Rests
  <1> USE DEF Steady, IInv, TypeOK
  <1>1. Poller(p)
    BY DEF Poller
  <1>2. UNCHANGED <<sessions, usage>>
    BY DEF PollSucceeds, PollMisreads, PollFails, BeginClosing, EndPoll, TickerFires, RunReturns,
           storeVars
  <1>3. /\ pc[p] \in {"poll", "apply", "close", "wait"}
        /\ pc'[p] \in {"poll", "apply", "close", "wait", "idle"}
    BY DEF PollSucceeds, PollMisreads, PollFails, BeginClosing, EndPoll, TickerFires, RunReturns,
           GoTo, Typed
  <1>4. open'[p] = open[p] \/ DOMAIN open'[p] = {}
    BY DEF PollSucceeds, PollMisreads, PollFails, BeginClosing, EndPoll, TickerFires, RunReturns,
           Typed, EmptyMap
  <1>5. pc'[p] = "close" => todo'[p] \cap DOMAIN snap'[p] = {}
    BY DEF PollSucceeds, PollMisreads, PollFails, BeginClosing, EndPoll, TickerFires, RunReturns,
           GoTo, Typed
  <1>6. RowsMatchFor(p)'
    BY <1>2, <1>3, <1>4, <1>5 DEF RowsMatch, RowsMatchFor, RowBytesOf, Inserting
  <1>7. Rests
    BY <1>1, <1>2, <1>3, RestsByWork DEF Counting
  <1> QED
    BY <1>1, <1>6, <1>7, RowsMatchByWork

LEMMA ApplyNewFlowLedger ==
    ASSUME Steady, NEW p \in Slots, ApplyNewFlow(p), errors' = 0
    PROVE  RowsMatch' /\ OpensRow(p)
  <1> USE DEF Steady, IInv, TypeOK
  <1>1. Poller(p)
    BY DEF Poller
  <1>2. PICK key \in todo[p] :
          /\ key \notin DOMAIN open[p]
          /\ cur' = [cur EXCEPT ![p] = key]
          /\ InsertSession(key, snap[p][key])
          /\ newId' = [newId EXCEPT ![p] = nextId]
          /\ GoTo(p, "start")
          /\ UNCHANGED open
    <2>1. ~StoreFails
      BY DEF StoreFails, Quiet
    <2> QED
      BY <2>1 DEF ApplyNewFlow
  <1>3. /\ pc[p] = "apply" /\ pc'[p] = "start" /\ cur'[p] = key /\ newId'[p] = nextId
        /\ UNCHANGED <<snap, usage, misreads>>
    BY <1>2 DEF ApplyNewFlow, InsertSession, GoTo, PollerFrame, Typed
  <1>4. key \in DOMAIN snap[p]
    BY <1>2, <1>3 DEF LocalsOK
  <1>5. nextId \notin DOMAIN sessions
    BY HandsAreOurs
  <1>6. /\ DOMAIN sessions' = DOMAIN sessions \cup {nextId}
        /\ sessions'[nextId].key = key /\ ~sessions'[nextId].closed
        /\ sessions'[nextId].bytes = snap[p][key].bytes
        /\ \A id \in DOMAIN sessions : sessions'[id] = sessions[id]
        /\ sessions' = [id \in DOMAIN sessions \cup {nextId} |->
                          IF id = nextId THEN sessions'[nextId] ELSE sessions[id]]
    BY <1>2, <1>5 DEF InsertSession
  <1>7. \A id \in OpenIds : sessions[id].key # key
    BY <1>2, <1>3, OpenRowInHand DEF Loaded, Inserting
  <1>8. Solitary(p)
    BY <1>1, <1>3, PollerAlone DEF Solitary
  <1>9. OpensRow(p)
    BY <1>3, <1>4, <1>6, <1>7, <1>8 DEF OpensRow
  <1>10. RowsMatchFor(p)'
    <2>1. \A k \in DOMAIN open[p] : sessions'[open[p][k].id] = sessions[open[p][k].id]
      BY <1>6, HandsTrue DEF Quiet
    <2> QED
      BY <1>2, <1>3, <1>6, <2>1 DEF RowsMatch, RowsMatchFor, RowBytesOf
  <1> QED
    BY <1>1, <1>9, <1>10, RowsMatchByWork

LEMMA ApplyKnownFlowLedger ==
    ASSUME Steady, NEW p \in Slots, ApplyKnownFlow(p), errors' = 0
    PROVE  RowsMatch' /\ UpdatesRow(p)
  <1> USE DEF Steady, IInv, TypeOK
  <1>1. Poller(p)
    BY DEF Poller
  <1>2. PICK key \in todo[p] :
          /\ key \in DOMAIN open[p]
          /\ cur' = [cur EXCEPT ![p] = key]
          /\ UpdateSession(open[p][key].id, snap[p][key])
          /\ GoTo(p, "bump")
          /\ UNCHANGED open
    <2>1. ~StoreFails
      BY DEF StoreFails, Quiet
    <2> QED
      BY <2>1 DEF ApplyKnownFlow
  <1>3. /\ pc[p] = "apply" /\ pc'[p] = "bump" /\ cur'[p] = key
        /\ UNCHANGED <<snap, usage, misreads>>
    BY <1>2 DEF ApplyKnownFlow, UpdateSession, GoTo, PollerFrame, Typed
  <1>4. key \in DOMAIN snap[p]
    BY <1>2, <1>3 DEF LocalsOK
  <1>5. /\ \A k \in DOMAIN open[p] :
             /\ open[p][k].id \in OpenIds /\ open[p][k].id \in DOMAIN sessions
             /\ sessions[open[p][k].id].key = k
        /\ sessions[open[p][key].id].bytes = open[p][key].bytes
    BY <1>2, <1>3, HandsTrue DEF Quiet, RowsMatch, RowsMatchFor, RowBytesOf
  <1>6. PICK written : written = open[p][key].id
    OBVIOUS
  <1>7. UpdateSession(written, snap[p][key])
    BY <1>2, <1>6
  <1>8. written \in OpenIds /\ written \in DOMAIN sessions /\ sessions[written].key = key
    BY <1>2, <1>5, <1>6
  <1>9. /\ DOMAIN sessions' = DOMAIN sessions
        /\ sessions'[written].bytes = snap[p][key].bytes
        /\ sessions'[written].key = key
        /\ sessions'[written].closed = sessions[written].closed
        /\ \A i \in DOMAIN sessions \ {written} : sessions'[i] = sessions[i]
    BY <1>7, <1>8 DEF UpdateSession, StoreTypeOK, SessionRow
  <1>10. Solitary(p)
    BY <1>1, <1>3, PollerAlone DEF Solitary
  <1>11. UpdatesRow(p)
    BY <1>2, <1>3, <1>4, <1>5, <1>6, <1>8, <1>9, <1>10 DEF UpdatesRow, OpenIds
  <1>12. RowsMatchFor(p)'
    <2>1. ASSUME NEW k \in DOMAIN open[p], k # key
          PROVE  sessions'[open[p][k].id] = sessions[open[p][k].id]
      BY <1>5, <1>8, <1>9, <2>1
    <2>2. ASSUME NEW k \in DOMAIN open[p]
          PROVE  sessions'[open[p][k].id].bytes = RowBytesOf(p, k)'
      <3>1. CASE k = key
        BY <1>3, <1>6, <1>9, <3>1 DEF RowBytesOf
      <3>2. CASE k # key
        BY <1>2, <1>3, <2>1, <3>2 DEF RowsMatch, RowsMatchFor, RowBytesOf
      <3> QED
        BY <3>1, <3>2
    <2> QED
      BY <1>2, <1>3, <2>2 DEF RowsMatchFor, Inserting
  <1> QED
    BY <1>1, <1>11, <1>12, RowsMatchByWork

LEMMA StartSampleLedger ==
    ASSUME Steady, NEW p \in Slots, StartSample(p), errors' = 0
    PROVE  RowsMatch' /\ Rests
  <1> USE DEF Steady, IInv, TypeOK
  <1>1. Poller(p)
    BY DEF Poller
  <1>2. ~StoreFails
    BY DEF StoreFails, Quiet
  <1>3. pc[p] = "start" /\ SampleAllowed(newId[p])
    <2>1. pc[p] = "start"
      BY DEF StartSample
    <2> QED
      BY <2>1, HandsTrue DEF Inserting, SampleAllowed, Quiet
  <1>4. /\ GoTo(p, "bumpNew")
        /\ UNCHANGED <<sessions, usage, open, snap, todo, cur, newId>>
    BY <1>2, <1>3 DEF StartSample, InsertSample
  <1>5. pc'[p] = "bumpNew"
    BY <1>4 DEF GoTo, Typed
  <1>6. RowsMatchFor(p)'
    BY <1>3, <1>4, <1>5 DEF RowsMatch, RowsMatchFor, RowBytesOf, Inserting
  <1>7. Rests
    BY <1>1, <1>3, <1>4, <1>5, RestsByWork
  <1> QED
    BY <1>1, <1>6, <1>7, RowsMatchByWork

LEMMA BumpSessionLedger ==
    ASSUME Steady, NEW p \in Slots, BumpNewSession(p) \/ BumpKnownSession(p), errors' = 0
    PROVE  RowsMatch' /\ CountsBytes(p)
  <1> USE DEF Steady, IInv, TypeOK
  <1>1. Poller(p)
    BY DEF Poller
  <1>2. ~StoreFails
    BY DEF StoreFails, Quiet
  <1>3. UNCHANGED <<snap, todo, cur, newId, open, misreads>>
    BY <1>2 DEF BumpNewSession, BumpKnownSession, PollerFrame
  <1>4. CASE BumpNewSession(p)
    <2>1. /\ pc[p] = "bumpNew" /\ pc'[p] = "track"
          /\ BumpPortUsage(cur[p], snap[p][cur[p]].app, snap[p][cur[p]].bytes, TRUE)
      BY <1>2, <1>4, Zenon DEF BumpNewSession, GoTo, Typed
    <2>2. cur[p] \in DOMAIN snap[p]
      BY <2>1 DEF LocalsOK
    <2>3. Pending(p) = snap[p][cur[p]].bytes /\ (pc[p] = "bumpNew") = TRUE
      BY <2>1 DEF Pending
    <2>4. BumpPortUsage(cur[p], snap[p][cur[p]].app, Pending(p), pc[p] = "bumpNew")
      BY <2>1, <2>3, Zenon
    <2>5. CountsBytes(p)
      BY <1>1, <1>3, <2>1, <2>2, <2>4, PollerAlone DEF CountsBytes, Solitary
    <2>6. UNCHANGED sessions
      BY <2>1, Zenon DEF BumpPortUsage
    <2>7. RowsMatchFor(p)'
      BY <1>3, <2>1, <2>6 DEF RowsMatch, RowsMatchFor, RowBytesOf, Inserting
    <2> QED
      BY <1>1, <2>5, <2>7, RowsMatchByWork
  <1>5. CASE BumpKnownSession(p)
    <2>1. /\ pc[p] = "bump" /\ pc'[p] = "sample"
          /\ BumpPortUsage(cur[p], snap[p][cur[p]].app, Delta(p), FALSE)
      BY <1>2, <1>5, Zenon DEF BumpKnownSession, GoTo, Typed
    <2>2. cur[p] \in DOMAIN snap[p]
      BY <2>1 DEF LocalsOK
    <2>3. Pending(p) = Delta(p) /\ (pc[p] = "bumpNew") = FALSE
      BY <2>1 DEF Pending
    <2>4. BumpPortUsage(cur[p], snap[p][cur[p]].app, Pending(p), pc[p] = "bumpNew")
      BY <2>1, <2>3, Zenon
    <2>5. CountsBytes(p)
      BY <1>1, <1>3, <2>1, <2>2, <2>4, PollerAlone DEF CountsBytes, Solitary
    <2>6. UNCHANGED sessions
      BY <2>1, Zenon DEF BumpPortUsage
    <2>7. RowsMatchFor(p)'
      BY <1>3, <2>1, <2>6 DEF RowsMatch, RowsMatchFor, RowBytesOf, Inserting
    <2> QED
      BY <1>1, <2>5, <2>7, RowsMatchByWork
  <1> QED
    BY <1>4, <1>5

LEMMA TrackSessionLedger ==
    ASSUME Steady, NEW p \in Slots, TrackSession(p)
    PROVE  RowsMatch' /\ Rests
  <1> USE DEF Steady, IInv, TypeOK
  <1>1. Poller(p)
    BY DEF Poller
  <1>2. PICK key : key = cur[p]
    OBVIOUS
  <1>3. /\ pc[p] = "track" /\ pc'[p] = "apply"
        /\ UNCHANGED <<sessions, usage, snap>>
        /\ open' = [open EXCEPT ![p] =
                      [k \in DOMAIN @ \cup {key} |->
                         IF k = key
                         THEN [id |-> newId[p], bytes |-> snap[p][key].bytes,
                               state |-> snap[p][key].state]
                         ELSE @[k]]]
    BY <1>2 DEF TrackSession, GoTo, storeVars, Typed
  <1>4. open'[p] = [k \in DOMAIN open[p] \cup {key} |->
                      IF k = key
                      THEN [id |-> newId[p], bytes |-> snap[p][key].bytes,
                            state |-> snap[p][key].state]
                      ELSE open[p][k]]
    BY <1>3 DEF Typed
  <1>5. sessions[newId[p]].bytes = snap[p][key].bytes
    BY <1>2, <1>3 DEF RowsMatch, RowsMatchFor, Inserting
  <1>6. RowsMatchFor(p)'
    <2>1. \A k \in DOMAIN open[p] : sessions[open[p][k].id].bytes = open[p][k].bytes
      BY <1>3 DEF RowsMatch, RowsMatchFor, RowBytesOf
    <2>2. ASSUME NEW k \in DOMAIN open'[p]
          PROVE  sessions[open'[p][k].id].bytes = open'[p][k].bytes
      <3>1. CASE k = key
        BY <1>4, <1>5, <3>1
      <3>2. CASE k # key
        BY <1>4, <2>1, <3>2
      <3> QED
        BY <3>1, <3>2
    <2>3. pc'[p] \notin Inserting \cup {"bump", "sample", "close"}
      BY <1>3 DEF Inserting
    <2>4. sessions' = sessions
      BY <1>3
    <2> HIDE DEF Steady, IInv, TypeOK
    <2>5. ASSUME NEW k \in DOMAIN open'[p]
          PROVE  sessions'[open'[p][k].id].bytes = RowBytesOf(p, k)'
      <3>1. RowBytesOf(p, k)' = open'[p][k].bytes
        BY <2>3 DEF RowBytesOf
      <3> QED
        BY <2>2, <2>4, <3>1
    <2> QED
      BY <2>3, <2>5 DEF RowsMatchFor
  <1>7. Rests
    BY <1>1, <1>3, RestsByWork DEF Counting
  <1> QED
    BY <1>1, <1>6, <1>7, RowsMatchByWork

LEMMA SampleAndSettleLedger ==
    ASSUME Steady, NEW p \in Slots, SampleAndSettle(p), errors' = 0
    PROVE  RowsMatch' /\ Rests
  <1> USE DEF Steady, IInv, TypeOK
  <1>1. Poller(p)
    BY DEF Poller
  <1>2. ~StoreFails
    BY DEF StoreFails, Quiet
  <1>3. PICK key : key = cur[p]
    OBVIOUS
  <1>4. pc[p] = "sample" /\ key \in DOMAIN open[p] /\ key \in DOMAIN snap[p]
    BY <1>3 DEF SampleAndSettle, LocalsOK
  <1>5. SampleAllowed(open[p][key].id)
    BY <1>4, HandsTrue DEF SampleAllowed, Quiet
  <1>6. /\ open' = [open EXCEPT ![p][key] = Settled(@, snap[p][key])]
        /\ pc'[p] = "apply"
        /\ UNCHANGED <<sessions, usage, snap, todo, cur, newId>>
    BY <1>2, <1>3, <1>5 DEF SampleAndSettle, Settle, InsertSample, storeVars, GoTo, Typed
  <1>7. /\ DOMAIN open'[p] = DOMAIN open[p]
        /\ open'[p][key] = Settled(open[p][key], snap[p][key])
        /\ \A k \in DOMAIN open[p] \ {key} : open'[p][k] = open[p][k]
    BY <1>4, <1>6 DEF Typed
  <1>8. /\ Settled(open[p][key], snap[p][key]).id = open[p][key].id
        /\ Settled(open[p][key], snap[p][key]).bytes = snap[p][key].bytes
    BY <1>4 DEF Settled, Typed, Tracked, Flow
  <1>9. RowsMatchFor(p)'
    <2>1. /\ sessions[open[p][key].id].bytes = snap[p][key].bytes
          /\ \A k \in DOMAIN open[p] \ {key} : sessions[open[p][k].id].bytes = open[p][k].bytes
      BY <1>3, <1>4 DEF RowsMatch, RowsMatchFor, RowBytesOf
    <2>2. ASSUME NEW k \in DOMAIN open'[p]
          PROVE  sessions[open'[p][k].id].bytes = open'[p][k].bytes
      <3>1. CASE k = key
        BY <1>7, <1>8, <2>1, <3>1
      <3>2. CASE k # key
        BY <1>7, <2>1, <2>2, <3>2
      <3> QED
        BY <3>1, <3>2
    <2> QED
      BY <1>6, <2>2 DEF RowsMatchFor, RowBytesOf, Inserting
  <1>10. Rests
    BY <1>1, <1>4, <1>6, RestsByWork DEF Counting
  <1> QED
    BY <1>1, <1>9, <1>10, RowsMatchByWork

LEMMA CloseMissingLedger ==
    ASSUME Steady, NEW p \in Slots, CloseMissing(p), errors' = 0
    PROVE  RowsMatch' /\ ClosesRow(p)
  <1> USE DEF Steady, IInv, TypeOK
  <1>1. Poller(p)
    BY DEF Poller
  <1>2. PICK key \in todo[p] :
          /\ todo' = [todo EXCEPT ![p] = @ \ {key}]
          /\ CloseSession(open[p][key].id)
          /\ open' = [open EXCEPT ![p] = [k \in DOMAIN @ \ {key} |-> @[k]]]
    <2>1. ~StoreFails
      BY DEF StoreFails, Quiet
    <2> QED
      BY <2>1 DEF CloseMissing
  <1>3. pc[p] = "close" /\ UNCHANGED <<pc, snap, cur, newId, usage, misreads>>
    BY <1>2 DEF CloseMissing, CloseSession, PollerFrame
  <1>4. key \in DOMAIN open[p] /\ key \notin DOMAIN snap[p]
    BY <1>2, <1>3 DEF LocalsOK, RowsMatch, RowsMatchFor
  <1>5. PICK written : written = open[p][key].id
    OBVIOUS
  <1>6. written \in OpenIds /\ written \in DOMAIN sessions /\ sessions[written].key = key
    BY <1>4, <1>5, HandsTrue DEF Quiet
  <1>7. CloseSession(written)
    BY <1>2, <1>5
  <1>8. /\ DOMAIN sessions' = DOMAIN sessions
        /\ \A id \in DOMAIN sessions :
              /\ sessions'[id].key = sessions[id].key
              /\ sessions'[id].bytes = sessions[id].bytes
              /\ sessions'[id].closed <=> sessions[id].closed \/ id = written
    BY <1>6, <1>7 DEF CloseSession, StoreTypeOK, SessionRow
  <1>9. open'[p] = [k \in DOMAIN open[p] \ {key} |-> open[p][k]]
    BY <1>2 DEF Typed
  <1>10. Solitary(p)
    BY <1>1, <1>3, PollerAlone DEF Solitary
  <1>11. ClosesRow(p)
    BY <1>3, <1>4, <1>5, <1>6, <1>8, <1>10 DEF ClosesRow
  <1>12. todo'[p] \subseteq todo[p]
    BY <1>2 DEF Typed
  <1>13. \A k \in DOMAIN open[p] : open[p][k].id \in DOMAIN sessions
    BY HandsTrue DEF Quiet
  <1>14. RowsMatchFor(p)'
    BY <1>3, <1>8, <1>9, <1>12, <1>13 DEF RowsMatch, RowsMatchFor, RowBytesOf, Inserting
  <1> QED
    BY <1>1, <1>11, <1>14, RowsMatchByWork

LEMMA DeviceLedger ==
    ASSUME Steady, Device
    PROVE  RowsMatch'
  <1>1. UNCHANGED <<sessions, open, pc, snap, todo, cur, newId>>
    BY DEF Device, FlowStarts, FlowCarries, FlowReclassified, CounterResets, FlowEnds, DeviceStep,
           storeVars, pollerVars
  <1> QED
    BY <1>1 DEF Steady, RowsMatch, RowsMatchFor, RowBytesOf

LEMMA ManagerLedger ==
    ASSUME Steady, Manager \/ UNCHANGED vars, clears' = 0
    PROVE  RowsMatch' /\ Rests
  <1> USE DEF Steady, IInv, TypeOK
  <1>1. ~ClearHistory
    BY DEF ClearHistory, Quiet
  <1>2. UNCHANGED <<sessions, usage, live, carried, open, snap, todo, cur, newId>>
    BY <1>1 DEF Manager, StartPoller, StopPoller, RestartAll, ManagerFrame, vars, storeVars,
                deviceVars, pollerVars
  <1>3. \A q \in Slots : pc'[q] = pc[q] \/ (pc[q] = "idle" /\ pc'[q] = "load")
    BY <1>1 DEF Manager, StartPoller, StopPoller, RestartAll, Launch, vars, pollerVars, Typed
  <1>4. RowsMatch'
    <2> SUFFICES ASSUME NEW q \in Slots PROVE RowsMatchFor(q)'
      BY DEF RowsMatch
    <2>1. pc[q] = "idle" => DOMAIN open[q] = {}
      BY DEF HandsOpen, Loaded
    <2> QED
      BY <1>2, <1>3, <2>1 DEF RowsMatch, RowsMatchFor, RowBytesOf, Inserting
  <1>5. Rests
    BY <1>2, <1>3 DEF Rests, Counting, Opening, Pending, Delta
  <1> QED
    BY <1>4, <1>5

LEMMA CrashLedger ==
    ASSUME Steady, Crash
    PROVE  RowsMatch' /\ Rests
  <1>1. \A q \in Slots : pc'[q] = "idle" /\ DOMAIN open'[q] = {}
    BY DEF Crash, EmptyMap
  <1>2. UNCHANGED <<sessions, usage, live, carried>> /\ crashes' = crashes + 1
    BY DEF Crash, storeVars, deviceVars
  <1> QED
    BY <1>1, <1>2 DEF RowsMatch, RowsMatchFor, Inserting, Rests, Counting

(* What the steps of pollers that do not overlap do to the ledger, as long as
   no store call fails and the history is not cleared. *)
LEMMA NextLedger ==
    ASSUME Steady, [Next]_vars, Quiet'
    PROVE  RowsMatch' /\ (Rests \/ Books \/ Device)
  <1>1. errors' = 0 /\ clears' = 0
    BY DEF Quiet
  <1>2. CASE Device
    BY <1>2, DeviceLedger
  <1>3. ASSUME NEW p \in Slots, Poller(p)
        PROVE  RowsMatch' /\ (Rests \/ Books)
    <2>1. CASE LoadOpenSessions(p)
      BY <1>1, <2>1, LoadLedger
    <2>2. CASE \/ PollSucceeds(p) \/ PollMisreads(p) \/ PollFails(p) \/ BeginClosing(p)
               \/ EndPoll(p) \/ TickerFires(p) \/ RunReturns(p)
      BY <2>2, PollStepsLedger
    <2>3. CASE ApplyNewFlow(p)
      BY <1>1, <2>3, ApplyNewFlowLedger DEF Books
    <2>4. CASE ApplyKnownFlow(p)
      BY <1>1, <2>4, ApplyKnownFlowLedger DEF Books
    <2>5. CASE StartSample(p)
      BY <1>1, <2>5, StartSampleLedger
    <2>6. CASE BumpNewSession(p) \/ BumpKnownSession(p)
      BY <1>1, <2>6, BumpSessionLedger DEF Books
    <2>7. CASE TrackSession(p)
      BY <2>7, TrackSessionLedger
    <2>8. CASE SampleAndSettle(p)
      BY <1>1, <2>8, SampleAndSettleLedger
    <2>9. CASE CloseMissing(p)
      BY <1>1, <2>9, CloseMissingLedger DEF Books
    <2> QED
      BY <1>3, <2>1, <2>2, <2>3, <2>4, <2>5, <2>6, <2>7, <2>8, <2>9 DEF Poller
  <1>4. CASE Manager \/ UNCHANGED vars
    BY <1>1, <1>4, ManagerLedger
  <1>5. CASE Crash
    BY <1>5, CrashLedger
  <1> QED
    BY <1>2, <1>3, <1>4, <1>5 DEF Next

(* Quiet ends for good. *)
LEMMA NextQuiet ==
    ASSUME IInv, [Next]_vars, Quiet'
    PROVE  Quiet
  <1>1. errors \in Nat /\ clears \in Nat
    BY DEF IInv, TypeOK, Typed
  <1>2. KindOfStep
    BY Kinds
  <1>3. errors' = errors \/ errors' = errors + 1
    BY <1>2 DEF KindOfStep, Loads, Inserts, Tracks, Closes, GoesOn, Clears, Dies, StoreFailed
  <1>4. clears' = clears \/ clears' = clears + 1
    BY <1>2 DEF KindOfStep, Clears
  <1> QED
    BY <1>1, <1>3, <1>4 DEF Quiet

RowsOK == Quiet => RowsMatch

LEMMA NextRowsOK ==
    IInv /\ NoOverlap /\ HandsOpen /\ HandsKept /\ Whole /\ RowsOK /\ [Next]_vars => RowsOK'
  <1> SUFFICES ASSUME IInv, NoOverlap, HandsOpen, HandsKept, Whole, RowsOK, [Next]_vars, Quiet'
               PROVE  RowsMatch'
    BY DEF RowsOK
  <1>1. Quiet
    BY NextQuiet
  <1>2. Steady
    BY <1>1 DEF Steady, Whole, RowsOK, Quiet
  <1> QED
    BY <1>2, NextLedger

LEMMA InitRowsOK == Init => RowsOK
  BY DEF Init, EmptyMap, RowsOK, RowsMatch, RowsMatchFor, Inserting

-----------------------------------------------------------------------------
(* Finite tables.                                                          *)

Finite == IsFiniteSet(DOMAIN live) /\ IsFiniteSet(DOMAIN usage)

LEMMA NextFinite == IInv /\ Finite /\ [Next]_vars => Finite'
  <1> SUFFICES ASSUME IInv, Finite, [Next]_vars PROVE Finite'
    OBVIOUS
  <1>1. IsFiniteSet(DOMAIN usage')
    <2>1. CASE UNCHANGED usage
      BY <2>1 DEF Finite
    <2>2. CASE DOMAIN usage' = {}
      BY <2>2, FS_EmptySet
    <2>3. ASSUME NEW key \in Keys, NEW app \in Apps, NEW delta \in Nat, NEW isNew \in BOOLEAN,
                 BumpPortUsage(key, app, delta, isNew)
          PROVE  IsFiniteSet(DOMAIN usage')
      <3>1. DOMAIN usage' = DOMAIN usage \cup {Bucket(key, app)}
        BY <2>3 DEF BumpPortUsage
      <3> QED
        BY <3>1, FS_AddElement DEF Finite
    <2> QED
      BY <2>1, <2>2, <2>3, NextUsage
  <1>2. \E key : DOMAIN live' \in {DOMAIN live, DOMAIN live \cup {key}, DOMAIN live \ {key}}
    <2>1. CASE Device
      BY <2>1 DEF Device, FlowStarts, FlowCarries, FlowReclassified, CounterResets, FlowEnds
    <2>2. ASSUME NEW p \in Slots, Poller(p)
          PROVE  UNCHANGED live
      BY <2>2 DEF Poller, LoadOpenSessions, PollSucceeds, PollMisreads, PollFails, ApplyNewFlow,
             StartSample, BumpNewSession, TrackSession, ApplyKnownFlow, BumpKnownSession,
             SampleAndSettle, BeginClosing, CloseMissing, EndPoll, TickerFires, RunReturns,
             PollerFrame, AnyPollerFrame, deviceVars
    <2>3. CASE Manager \/ Crash \/ UNCHANGED vars
      BY <2>3 DEF Manager, StartPoller, StopPoller, ClearHistory, RestartAll, Crash, ManagerFrame,
                  deviceVars, vars
    <2> QED
      BY <2>1, <2>2, <2>3 DEF Next
  <1> QED
    BY <1>1, <1>2, FS_AddElement, FS_RemoveElement DEF Finite

LEMMA InitFinite == Init => Finite
  BY FS_EmptySet DEF Init, StoreInit, EmptyMap, Finite

-----------------------------------------------------------------------------
(* Sums of the rollup.                                                     *)

(* BumpPortUsage adds to the service of the flow, and to no other. *)
LEMMA BumpAdds ==
    ASSUME IInv, Finite, NEW key \in Keys, NEW app \in Apps, NEW delta \in Nat,
           NEW isNew \in BOOLEAN, BumpPortUsage(key, app, delta, isNew), NEW s \in Services
    PROVE  /\ BytesRolledUp(s)' = BytesRolledUp(s) + (IF s = key.service THEN delta ELSE 0)
           /\ SessionsRolledUp(s)' =
                SessionsRolledUp(s) + (IF s = key.service /\ isNew THEN 1 ELSE 0)
  <1> DEFINE b == Bucket(key, app)
             bytes == [x \in DOMAIN usage |-> usage[x].bytes]
             bytes1 == [x \in DOMAIN usage' |-> usage'[x].bytes]
             count == [x \in DOMAIN usage |-> usage[x].count]
             count1 == [x \in DOMAIN usage' |-> usage'[x].count]
             added == IF isNew THEN 1 ELSE 0
             S == BucketsOf(s)
             T == BucketsOf(s)'
  <1>1. /\ DOMAIN usage' = DOMAIN usage \cup {b}
        /\ \A x \in DOMAIN usage \ {b} : usage'[x] = usage[x]
        /\ usage'[b].bytes = (IF b \in DOMAIN usage THEN usage[b].bytes ELSE 0) + delta
        /\ usage'[b].count = (IF b \in DOMAIN usage THEN usage[b].count ELSE 0) + added
    BY DEF BumpPortUsage, Bumped, NewBucket
  <1>2. b.service = key.service
    BY DEF Bucket
  <1>3. \A x \in DOMAIN usage : usage[x].bytes \in Int /\ usage[x].count \in Int
    BY DEF IInv, TypeOK, StoreTypeOK, UsageRow
  <1>4. /\ BytesRolledUp(s) = SumFunctionOnSet(bytes, S)
        /\ BytesRolledUp(s)' = SumFunctionOnSet(bytes1, T)
        /\ SessionsRolledUp(s) = SumFunctionOnSet(count, S)
        /\ SessionsRolledUp(s)' = SumFunctionOnSet(count1, T)
    BY Zenon DEF BytesRolledUp, SessionsRolledUp
  <1>5. S \subseteq DOMAIN usage /\ IsFiniteSet(S)
    BY FS_Subset DEF Finite, BucketsOf
  <1>6. /\ \A x \in S : bytes[x] = usage[x].bytes /\ count[x] = usage[x].count
        /\ \A x \in S : bytes[x] \in Int /\ count[x] \in Int
    BY <1>3, <1>5
  <1>7. \A x \in DOMAIN usage' : bytes1[x] = usage'[x].bytes /\ count1[x] = usage'[x].count
    OBVIOUS
  <1>8. CASE s = key.service
    <2>1. T = S \cup {b}
      BY <1>1, <1>2, <1>8 DEF BucketsOf
    <2>2. b \in S <=> b \in DOMAIN usage
      BY <1>2, <1>8 DEF BucketsOf
    <2>3. /\ bytes1[b] = (IF b \in S THEN bytes[b] ELSE 0) + delta
          /\ count1[b] = (IF b \in S THEN count[b] ELSE 0) + added
          /\ \A x \in S \ {b} : bytes1[x] = bytes[x] /\ count1[x] = count[x]
      BY <1>1, <1>5, <1>6, <1>7, <2>2
    <2>4. delta \in Int /\ added \in Int
      OBVIOUS
    <2> HIDE DEF b, bytes, bytes1, count, count1, added, S, T
    <2>5. SumFunctionOnSet(bytes1, S \cup {b}) = SumFunctionOnSet(bytes, S) + delta
      BY <1>5, <1>6, <2>3, <2>4, SumUpsert
    <2>6. SumFunctionOnSet(count1, S \cup {b}) = SumFunctionOnSet(count, S) + added
      <3>1. /\ \A x \in S : count[x] \in Int
            /\ \A x \in S \ {b} : count1[x] = count[x]
            /\ count1[b] = (IF b \in S THEN count[b] ELSE 0) + added
        BY <1>6, <2>3
      <3> QED
        BY <1>5, <2>4, <3>1, SumUpsert
    <2>7. added = IF s = key.service /\ isNew THEN 1 ELSE 0
      BY <1>8 DEF added
    <2> QED
      BY <1>4, <1>8, <2>1, <2>5, <2>6, <2>7
  <1>9. CASE s # key.service
    <2>1. T = S
      BY <1>1, <1>2, <1>9 DEF BucketsOf
    <2>2. \A x \in S : bytes1[x] = bytes[x] /\ count1[x] = count[x]
      BY <1>1, <1>2, <1>5, <1>6, <1>7, <1>9 DEF BucketsOf
    <2> HIDE DEF b, bytes, bytes1, count, count1, added, S, T
    <2>3. /\ SumFunctionOnSet(bytes1, T) = SumFunctionOnSet(bytes, S)
          /\ SumFunctionOnSet(count1, T) = SumFunctionOnSet(count, S)
      BY <1>5, <2>1, <2>2, SumSame
    <2>4. SumFunctionOnSet(bytes, S) \in Int /\ SumFunctionOnSet(count, S) \in Int
      BY <1>5, <1>6, SumType
    <2> QED
      BY <1>4, <1>9, <2>3, <2>4
  <1> QED
    BY <1>8, <1>9

-----------------------------------------------------------------------------
(* What may still be claimed.                                              *)

Working == {"apply", "start", "bumpNew", "track", "bump", "sample", "close"}

(* The listing that a goroutine works on is what the device would list now:
   the model lets the device move only before a listing is read. *)
Synced == \A p \in Slots : pc[p] \in Working => snap[p] = live

RowsOfKey(k) == {id \in OpenIds : sessions[id].key = k}

(* The bytes on record for a flow. *)
RowBytes(k) ==
    IF RowsOfKey(k) = {} THEN 0 ELSE sessions[CHOOSE id \in RowsOfKey(k) : TRUE].bytes

(* The bytes of a flow that no row shows yet. *)
UnreadOf(k) == IF live[k].bytes > RowBytes(k) THEN live[k].bytes - RowBytes(k) ELSE 0
Unread == [k \in DOMAIN live |-> UnreadOf(k)]

FlowsOf(service) == {k \in DOMAIN live : k.service = service}

UnreadBytes(service) == SumFunctionOnSet(Unread, FlowsOf(service))

(* What is claimed, is about to be claimed, or may still be, was carried. *)
Claims ==
    \A s \in Services :
      /\ BytesRolledUp(s) + UnreadBytes(s) <= carried[s]
      /\ \A p \in Slots : pc[p] \in Counting /\ cur[p].service = s =>
           BytesRolledUp(s) + UnreadBytes(s) + Pending(p) <= carried[s]

LEMMA NextSynced ==
    ASSUME IInv, NoOverlap, HandsOpen, Synced, [Next]_vars, misreads' = 0
    PROVE  Synced'
  <1> USE DEF IInv, TypeOK
  <1>1. CASE Device
    <2>1. PICK p \in Slots : pc[p] = "poll"
      BY <1>1 DEF Device, FlowStarts, FlowCarries, FlowReclassified, CounterResets, FlowEnds,
                  DeviceStep
    <2>2. \A q \in Slots : pc[q] \notin Working
      BY <2>1 DEF NoOverlap, Working
    <2>3. UNCHANGED pc
      BY <1>1 DEF Device, FlowStarts, FlowCarries, FlowReclassified, CounterResets, FlowEnds,
                  DeviceStep, pollerVars
    <2> QED
      BY <2>2, <2>3 DEF Synced
  <1>2. ASSUME NEW p \in Slots, Poller(p)
        PROVE  Synced'
    <2>1. UNCHANGED live /\ \A q \in Slots \ {p} : pc'[q] = "idle"
      BY <1>2, PollerAlone
    <2>2. misreads \in Nat
      BY DEF Typed
    <2>3. ~PollMisreads(p)
      BY <2>2 DEF PollMisreads
    <2>4. CASE PollSucceeds(p)
      <3>1. snap'[p] = live
        BY <2>4 DEF PollSucceeds, Typed
      <3> QED
        BY <2>1, <3>1 DEF Synced, Working
    <2>5. CASE EndPoll(p) \/ LoadOpenSessions(p) \/ PollFails(p) \/ TickerFires(p) \/ RunReturns(p)
      <3>1. pc'[p] \notin Working
        BY <2>5 DEF EndPoll, LoadOpenSessions, PollFails, TickerFires, RunReturns, GoTo, Typed,
                    Working
      <3> QED
        BY <2>1, <3>1 DEF Synced, Working
    <2>6. CASE ~PollSucceeds(p) /\ ~EndPoll(p) /\ ~LoadOpenSessions(p) /\ ~PollFails(p)
               /\ ~TickerFires(p) /\ ~RunReturns(p)
      <3>1. pc[p] \in Working /\ UNCHANGED snap
        BY <1>2, <2>3, <2>6 DEF Poller, ApplyNewFlow, StartSample, BumpNewSession, TrackSession,
             ApplyKnownFlow, BumpKnownSession, SampleAndSettle, BeginClosing, CloseMissing, Working
      <3> QED
        BY <2>1, <3>1 DEF Synced, Working
    <2> QED
      BY <2>4, <2>5, <2>6
  <1>3. CASE Manager \/ UNCHANGED vars
    <2>1. UNCHANGED <<live, snap>>
      BY <1>3 DEF Manager, StartPoller, StopPoller, ClearHistory, RestartAll, ManagerFrame,
                  deviceVars, vars, pollerVars
    <2>2. \A q \in Slots : pc'[q] = pc[q] \/ pc'[q] = "load"
      BY <1>3 DEF Manager, StartPoller, StopPoller, ClearHistory, RestartAll, Launch, vars,
                  pollerVars, Typed
    <2> QED
      BY <2>1, <2>2 DEF Synced, Working
  <1>4. CASE Crash
    BY <1>4 DEF Crash, Synced, Working
  <1> QED
    BY <1>1, <1>2, <1>3, <1>4 DEF Next

LEMMA RowBytesType ==
    ASSUME IInv, NEW k
    PROVE  RowBytes(k) \in Nat
  <1>1. \A id \in RowsOfKey(k) : sessions[id].bytes \in Nat
    BY DEF IInv, TypeOK, StoreTypeOK, SessionRow, RowsOfKey, OpenIds
  <1> QED
    BY <1>1 DEF RowBytes

LEMMA UnreadType ==
    ASSUME IInv, NEW k \in DOMAIN live
    PROVE  UnreadOf(k) \in Nat /\ live[k].bytes \in Nat
  <1>1. live[k].bytes \in Nat
    BY DEF IInv, TypeOK, Typed, Flow
  <1>2. RowBytes(k) \in Nat
    BY RowBytesType
  <1> QED
    BY <1>1, <1>2 DEF UnreadOf

LEMMA UnreadBytesType ==
    ASSUME IInv, Finite, NEW s
    PROVE  UnreadBytes(s) \in Int /\ FlowsOf(s) \subseteq DOMAIN live /\ IsFiniteSet(FlowsOf(s))
  <1>1. FlowsOf(s) \subseteq DOMAIN live /\ IsFiniteSet(FlowsOf(s))
    BY FS_Subset DEF FlowsOf, Finite
  <1>2. \A k \in FlowsOf(s) : Unread[k] \in Int
    BY <1>1, UnreadType DEF Unread
  <1> QED
    BY <1>1, <1>2, SumType DEF UnreadBytes

LEMMA BytesRolledUpType ==
    ASSUME IInv, Finite, NEW s
    PROVE  BytesRolledUp(s) \in Int /\ SessionsRolledUp(s) \in Int
  <1>1. BucketsOf(s) \subseteq DOMAIN usage /\ IsFiniteSet(BucketsOf(s))
    BY FS_Subset DEF BucketsOf, Finite
  <1>2. \A b \in BucketsOf(s) : usage[b].bytes \in Int /\ usage[b].count \in Int
    BY <1>1 DEF IInv, TypeOK, StoreTypeOK, UsageRow
  <1> DEFINE bytes == [b \in DOMAIN usage |-> usage[b].bytes]
             count == [b \in DOMAIN usage |-> usage[b].count]
  <1>3. \A b \in BucketsOf(s) : bytes[b] \in Int /\ count[b] \in Int
    BY <1>1, <1>2
  <1>4. SumFunctionOnSet(bytes, BucketsOf(s)) \in Int /\ SumFunctionOnSet(count, BucketsOf(s)) \in Int
    <2> HIDE DEF bytes, count
    <2> QED
      BY <1>1, <1>3, SumType
  <1> QED
    BY <1>4, Zenon DEF BytesRolledUp, SessionsRolledUp

(* The rows of a flow are looked at only through the open ones. *)
LEMMA RowBytesSame ==
    ASSUME NEW k, RowsOfKey(k)' = RowsOfKey(k),
           \A id \in RowsOfKey(k) : sessions'[id].bytes = sessions[id].bytes
    PROVE  RowBytes(k)' = RowBytes(k)
  <1>1. CASE RowsOfKey(k) = {}
    BY <1>1, Zenon DEF RowBytes
  <1>2. CASE RowsOfKey(k) # {}
    <2>1. (CHOOSE id \in RowsOfKey(k) : TRUE) \in RowsOfKey(k)
      BY <1>2
    <2>2. PICK chosen \in RowsOfKey(k) : chosen = CHOOSE id \in RowsOfKey(k) : TRUE
      BY <2>1
    <2>3. RowBytes(k) = sessions[chosen].bytes
      BY <1>2, <2>2, Zenon DEF RowBytes
    <2>4. RowBytes(k)' = sessions'[chosen].bytes
      BY <1>2, <2>2, Zenon DEF RowBytes
    <2> QED
      BY <2>2, <2>3, <2>4
  <1> QED
    BY <1>1, <1>2

LEMMA UnreadSame ==
    ASSUME DOMAIN live' = DOMAIN live, \A k \in DOMAIN live : UnreadOf(k)' = UnreadOf(k), NEW s
    PROVE  UnreadBytes(s)' = UnreadBytes(s)
  <1>1. FlowsOf(s)' = FlowsOf(s)
    BY DEF FlowsOf
  <1>2. Unread' = Unread
    BY DEF Unread
  <1> QED
    BY <1>1, <1>2, Zenon DEF UnreadBytes

(* One flow of the listing has more or less to be read, or is new. *)
LEMMA UnreadChange ==
    ASSUME IInv, Finite, NEW key, NEW d \in Int,
           DOMAIN live' = DOMAIN live \cup {key},
           \A k \in DOMAIN live \ {key} : UnreadOf(k)' = UnreadOf(k),
           UnreadOf(key)' = (IF key \in DOMAIN live THEN UnreadOf(key) ELSE 0) + d,
           NEW s
    PROVE  UnreadBytes(s)' = UnreadBytes(s) + (IF s = key.service THEN d ELSE 0)
  <1> DEFINE fun == Unread
             gun == Unread'
             S == FlowsOf(s)
  <1>1. S \subseteq DOMAIN live /\ IsFiniteSet(S) /\ SumFunctionOnSet(fun, S) \in Int
    BY UnreadBytesType DEF UnreadBytes
  <1>2. \A k \in DOMAIN live : fun[k] = UnreadOf(k) /\ fun[k] \in Int
    BY UnreadType DEF Unread
  <1>3. \A k \in DOMAIN live' : gun[k] = UnreadOf(k)'
    BY DEF Unread
  <1>4. UnreadBytes(s) = SumFunctionOnSet(fun, S) /\ UnreadBytes(s)' = SumFunctionOnSet(gun, FlowsOf(s)')
    BY Zenon DEF UnreadBytes
  <1>5. CASE s = key.service
    <2>1. FlowsOf(s)' = S \cup {key} /\ (key \in S <=> key \in DOMAIN live)
      BY <1>5 DEF FlowsOf
    <2>2. /\ \A k \in S : fun[k] \in Int
          /\ \A k \in S \ {key} : gun[k] = fun[k]
          /\ gun[key] = (IF key \in S THEN fun[key] ELSE 0) + d
      BY <1>1, <1>2, <1>3, <2>1
    <2> HIDE DEF fun, gun, S
    <2>3. SumFunctionOnSet(gun, S \cup {key}) = SumFunctionOnSet(fun, S) + d
      BY <1>1, <2>2, SumUpsert
    <2> QED
      BY <1>4, <1>5, <2>1, <2>3
  <1>6. CASE s # key.service
    <2>1. FlowsOf(s)' = S
      BY <1>6 DEF FlowsOf
    <2>2. \A k \in S : fun[k] = gun[k]
      BY <1>1, <1>2, <1>3, <1>6 DEF FlowsOf
    <2> HIDE DEF fun, gun, S
    <2>3. SumFunctionOnSet(fun, S) = SumFunctionOnSet(gun, S)
      BY <1>1, <2>2, SumSame
    <2> QED
      BY <1>1, <1>4, <1>6, <2>1, <2>3
  <1> QED
    BY <1>5, <1>6

(* A flow leaves the listing. *)
LEMMA UnreadGone ==
    ASSUME IInv, Finite, NEW key \in DOMAIN live, DOMAIN live' = DOMAIN live \ {key},
           \A k \in DOMAIN live' : UnreadOf(k)' = UnreadOf(k), NEW s
    PROVE  UnreadBytes(s)' \in Int /\ UnreadBytes(s)' <= UnreadBytes(s)
  <1> DEFINE fun == Unread
             gun == Unread'
             S == FlowsOf(s)
  <1>1. S \subseteq DOMAIN live /\ IsFiniteSet(S)
    BY UnreadBytesType
  <1>2. \A k \in DOMAIN live : fun[k] = UnreadOf(k) /\ fun[k] \in Nat
    BY UnreadType DEF Unread
  <1>3. \A k \in DOMAIN live' : gun[k] = fun[k]
    BY <1>2 DEF Unread
  <1>4. UnreadBytes(s) = SumFunctionOnSet(fun, S) /\ UnreadBytes(s)' = SumFunctionOnSet(gun, FlowsOf(s)')
    BY Zenon DEF UnreadBytes
  <1>5. FlowsOf(s)' = S \ {key} /\ IsFiniteSet(S \ {key})
    BY <1>1, FS_Subset DEF FlowsOf
  <1>6. \A k \in S : fun[k] \in Int
    BY <1>1, <1>2
  <1>7. \A k \in S \ {key} : fun[k] = gun[k] /\ fun[k] \in Int
    BY <1>1, <1>3, <1>6
  <1>8. key \in S => fun[key] \in Nat
    BY <1>2
  <1> HIDE DEF fun, gun, S
  <1>9. SumFunctionOnSet(fun, S \ {key}) = SumFunctionOnSet(gun, S \ {key})
    BY <1>5, <1>7, SumSame
  <1>10. PICK rest \in Int : rest = SumFunctionOnSet(fun, S \ {key})
    BY <1>5, <1>7, SumType
  <1>11. UnreadBytes(s)' = rest
    BY <1>4, <1>5, <1>9, <1>10
  <1>12. CASE key \in S
    <2>1. SumFunctionOnSet(fun, S) = fun[key] + rest
      BY <1>1, <1>6, <1>10, <1>12, SumRemove
    <2> QED
      BY <1>4, <1>8, <1>11, <1>12, <2>1
  <1>13. CASE key \notin S
    <2>1. S \ {key} = S
      BY <1>13
    <2> QED
      BY <1>4, <1>10, <1>11, <2>1
  <1> QED
    BY <1>12, <1>13

LEMMA RollupSame ==
    ASSUME UNCHANGED usage, NEW s
    PROVE  BytesRolledUp(s)' = BytesRolledUp(s) /\ SessionsRolledUp(s)' = SessionsRolledUp(s)
  BY Zenon DEF BytesRolledUp, SessionsRolledUp, BucketsOf

LEMMA AllRowBytesSame ==
    ASSUME UNCHANGED sessions, NEW k
    PROVE  RowBytes(k)' = RowBytes(k)
  <1>1. RowsOfKey(k)' = RowsOfKey(k)
    BY DEF RowsOfKey, OpenIds
  <1> QED
    BY <1>1, RowBytesSame

LEMMA PendingType ==
    ASSUME IInv, NEW p \in Slots, pc[p] \in Counting
    PROVE  Pending(p) \in Nat /\ cur[p] \in Keys /\ cur[p].service \in Services
  <1>1. cur[p] \in DOMAIN snap[p] /\ cur[p] \in Keys /\ snap[p][cur[p]].bytes \in Nat
    BY DEF IInv, TypeOK, Typed, LocalsOK, Counting, Flow
  <1>2. cur[p].service \in Services
    BY <1>1 DEF Services
  <1>3. pc[p] = "bump" => Delta(p) \in Nat
    BY DeltaType DEF IInv, TypeOK
  <1> QED
    BY <1>1, <1>2, <1>3 DEF Pending

LEMMA RestsClaims ==
    ASSUME Claims, Rests
    PROVE  Claims'
  <1> SUFFICES ASSUME NEW s \in Services
               PROVE  /\ BytesRolledUp(s)' + UnreadBytes(s)' <= carried'[s]
                      /\ \A p \in Slots : pc'[p] \in Counting /\ cur'[p].service = s =>
                           BytesRolledUp(s)' + UnreadBytes(s)' + Pending(p)' <= carried'[s]
    BY DEF Claims
  <1>1. UNCHANGED <<sessions, usage, live, carried>>
    BY DEF Rests
  <1>2. BytesRolledUp(s)' = BytesRolledUp(s)
    BY <1>1, RollupSame
  <1>3. \A k \in DOMAIN live : UnreadOf(k)' = UnreadOf(k)
    BY <1>1, AllRowBytesSame DEF UnreadOf
  <1>4. UnreadBytes(s)' = UnreadBytes(s)
    BY <1>1, <1>3, UnreadSame
  <1>5. \A p \in Slots : pc'[p] \in Counting =>
          pc[p] \in Counting /\ cur'[p] = cur[p] /\ Pending(p)' = Pending(p)
    BY DEF Rests
  <1> QED
    BY <1>1, <1>2, <1>4, <1>5 DEF Claims

(* The row is written: what was not read is pending. *)
LEMMA RowWrittenClaims ==
    ASSUME IInv, Finite, Claims, NEW p \in Slots, Solitary(p), UNCHANGED usage,
           NEW key \in DOMAIN live, cur'[p] = key,
           \A k \in DOMAIN live \ {key} : UnreadOf(k)' = UnreadOf(k),
           UnreadOf(key)' = 0, Pending(p)' = UnreadOf(key)
    PROVE  Claims'
  <1> SUFFICES ASSUME NEW s \in Services
               PROVE  /\ BytesRolledUp(s)' + UnreadBytes(s)' <= carried'[s]
                      /\ \A q \in Slots : pc'[q] \in Counting /\ cur'[q].service = s =>
                           BytesRolledUp(s)' + UnreadBytes(s)' + Pending(q)' <= carried'[s]
    BY DEF Claims
  <1>1. UNCHANGED <<live, carried>> /\ \A q \in Slots \ {p} : pc'[q] \notin Counting
    BY DEF Solitary, Counting
  <1>2. BytesRolledUp(s)' = BytesRolledUp(s)
    BY RollupSame
  <1>3. UnreadOf(key) \in Nat
    BY UnreadType
  <1>4. PICK d \in Int : d = 0 - UnreadOf(key)
    BY <1>3
  <1>5. DOMAIN live' = DOMAIN live \cup {key} /\ UnreadOf(key)' = UnreadOf(key) + d
    <2>1. DOMAIN live' = DOMAIN live \cup {key}
      BY <1>1
    <2>2. UnreadOf(key) + d = 0
      BY <1>3, <1>4
    <2> QED
      BY <2>1, <2>2
  <1>6. UnreadBytes(s)' = UnreadBytes(s) + (IF s = key.service THEN d ELSE 0)
    BY <1>5, UnreadChange
  <1>7. UnreadBytes(s) \in Int /\ BytesRolledUp(s) \in Int /\ carried'[s] \in Int
    <2>1. carried[s] \in Nat
      BY DEF IInv, TypeOK, Typed
    <2> QED
      BY <1>1, <2>1, UnreadBytesType, BytesRolledUpType
  <1>8. BytesRolledUp(s) + UnreadBytes(s) <= carried'[s]
    BY <1>1 DEF Claims
  <1>9. \A q \in Slots : pc'[q] \in Counting /\ cur'[q].service = s => q = p /\ s = key.service
    BY <1>1
  <1>10. PICK read \in Int, rolled \in Int, out \in Int :
           read = UnreadBytes(s) /\ rolled = BytesRolledUp(s) /\ out = carried'[s]
    BY <1>7
  <1>11. UnreadBytes(s)' = read + (IF s = key.service THEN d ELSE 0) /\ BytesRolledUp(s)' = rolled
    BY <1>2, <1>6, <1>10
  <1>12. rolled + read <= out
    BY <1>8, <1>10
  <1>13. rolled + (read + (IF s = key.service THEN d ELSE 0)) <= out
    BY <1>3, <1>4, <1>12
  <1>14. s = key.service => rolled + (read + d) + UnreadOf(key) <= out
    BY <1>3, <1>4, <1>12
  <1>15. BytesRolledUp(s)' + UnreadBytes(s)' <= carried'[s]
    BY <1>10, <1>11, <1>13
  <1>16. ASSUME NEW q \in Slots, pc'[q] \in Counting, cur'[q].service = s
         PROVE  BytesRolledUp(s)' + UnreadBytes(s)' + Pending(q)' <= carried'[s]
    <2>1. q = p /\ s = key.service
      BY <1>9, <1>16
    <2>2. Pending(q)' = UnreadOf(key)
      BY <2>1
    <2> QED
      BY <1>10, <1>11, <1>14, <2>1, <2>2
  <1> QED
    BY <1>15, <1>16

LEMMA OpensRowClaims ==
    ASSUME Steady, Finite, Synced, Claims, NEW p \in Slots, OpensRow(p)
    PROVE  Claims'
  <1> USE DEF Steady
  <1>1. PICK key : key = cur'[p]
    OBVIOUS
  <1>2. snap[p] = live /\ Solitary(p) /\ pc'[p] = "start" /\ UNCHANGED <<live, snap, usage>>
    BY DEF Synced, Working, OpensRow, Solitary
  <1>3. key \in DOMAIN live
    BY <1>1, <1>2 DEF OpensRow
  <1>4. nextId \notin DOMAIN sessions
    BY HandsAreOurs
  <1>5. /\ \A id \in OpenIds : sessions[id].key # key
        /\ DOMAIN sessions' = DOMAIN sessions \cup {nextId}
        /\ \A id \in DOMAIN sessions : sessions'[id] = sessions[id]
        /\ sessions'[nextId].key = key /\ ~sessions'[nextId].closed
        /\ sessions'[nextId].bytes = live[key].bytes
    BY <1>1, <1>2, <1>4 DEF OpensRow
  <1>6. OpenIds' = OpenIds \cup {nextId}
    BY <1>4, <1>5 DEF OpenIds
  <1>7. RowsOfKey(key) = {} /\ RowsOfKey(key)' = {nextId}
    BY <1>4, <1>5, <1>6 DEF RowsOfKey, OpenIds
  <1>8. live[key].bytes \in Nat
    BY <1>3, UnreadType
  <1>9. UnreadOf(key) = live[key].bytes
    BY <1>7, <1>8 DEF UnreadOf, RowBytes
  <1>10. UnreadOf(key)' = 0
    <2>1. RowBytes(key)' = live[key].bytes
      BY <1>5, <1>7 DEF RowBytes
    <2> QED
      BY <1>2, <1>8, <2>1 DEF UnreadOf
  <1>11. ASSUME NEW k \in DOMAIN live \ {key}
         PROVE  UnreadOf(k)' = UnreadOf(k)
    <2>1. RowsOfKey(k)' = RowsOfKey(k)
      BY <1>4, <1>5, <1>6 DEF RowsOfKey, OpenIds
    <2>2. \A id \in RowsOfKey(k) : sessions'[id].bytes = sessions[id].bytes
      BY <1>5 DEF RowsOfKey, OpenIds
    <2>3. RowBytes(k)' = RowBytes(k)
      BY <2>1, <2>2, RowBytesSame
    <2> QED
      BY <1>2, <2>3 DEF UnreadOf
  <1>12. Pending(p)' = UnreadOf(key)
    BY <1>1, <1>2, <1>9 DEF Pending
  <1> QED
    BY <1>1, <1>2, <1>3, <1>10, <1>11, <1>12, RowWrittenClaims

LEMMA UpdatesRowClaims ==
    ASSUME Steady, Finite, Synced, Claims, NEW p \in Slots, UpdatesRow(p)
    PROVE  Claims'
  <1> USE DEF Steady
  <1>1. PICK key : key = cur'[p]
    OBVIOUS
  <1>2. /\ snap[p] = live /\ Solitary(p) /\ pc'[p] = "bump"
        /\ UNCHANGED <<live, snap, usage, open>>
    BY DEF Synced, Working, UpdatesRow, Solitary
  <1>3. key \in DOMAIN live /\ key \in DOMAIN open[p]
    BY <1>1, <1>2 DEF UpdatesRow
  <1>4. PICK id : id = open[p][key].id
    OBVIOUS
  <1>5. /\ DOMAIN sessions' = DOMAIN sessions
        /\ id \in OpenIds /\ sessions[id].key = key
        /\ sessions[id].bytes = open[p][key].bytes
        /\ sessions'[id].bytes = live[key].bytes
        /\ sessions'[id].key = key /\ ~sessions'[id].closed
        /\ \A i \in DOMAIN sessions \ {id} : sessions'[i] = sessions[i]
    BY <1>1, <1>2, <1>4 DEF UpdatesRow
  <1>6. OpenIds' = OpenIds
    BY <1>5 DEF OpenIds
  <1>7. RowsOfKey(key) = {id} /\ RowsOfKey(key)' = {id}
    <2>1. RowsOfKey(key) = {id}
      BY <1>5 DEF RowsOfKey, OneOpenRow
    <2>2. \A i \in OpenIds : sessions'[i].key = sessions[i].key
      BY <1>5 DEF OpenIds
    <2> QED
      BY <1>6, <2>1, <2>2 DEF RowsOfKey
  <1>8. live[key].bytes \in Nat /\ open[p][key].bytes \in Nat
    BY <1>3, UnreadType DEF IInv, TypeOK, Typed, Tracked
  <1>9. RowBytes(key) = open[p][key].bytes
    BY <1>5, <1>7 DEF RowBytes
  <1>10. UnreadOf(key)' = 0
    <2>1. RowBytes(key)' = live[key].bytes
      BY <1>5, <1>7 DEF RowBytes
    <2> QED
      BY <1>2, <1>8, <2>1 DEF UnreadOf
  <1>11. ASSUME NEW k \in DOMAIN live \ {key}
         PROVE  UnreadOf(k)' = UnreadOf(k)
    <2>1. RowsOfKey(k)' = RowsOfKey(k)
      BY <1>5, <1>6 DEF RowsOfKey, OpenIds
    <2>2. \A i \in RowsOfKey(k) : sessions'[i].bytes = sessions[i].bytes
      BY <1>5 DEF RowsOfKey, OpenIds
    <2>3. RowBytes(k)' = RowBytes(k)
      BY <2>1, <2>2, RowBytesSame
    <2> QED
      BY <1>2, <2>3 DEF UnreadOf
  <1>12. Pending(p)' = UnreadOf(key)
    <2>1. Pending(p)' = IF live[key].bytes - open[p][key].bytes < 0 THEN 0
                        ELSE live[key].bytes - open[p][key].bytes
      BY <1>1, <1>2 DEF Pending, Delta
    <2> QED
      BY <1>8, <1>9, <2>1 DEF UnreadOf
  <1> QED
    BY <1>1, <1>2, <1>3, <1>10, <1>11, <1>12, RowWrittenClaims

LEMMA CountsBytesClaims ==
    ASSUME Steady, Finite, Claims, NEW p \in Slots, CountsBytes(p)
    PROVE  Claims'
  <1> USE DEF Steady
  <1> SUFFICES ASSUME NEW s \in Services
               PROVE  /\ BytesRolledUp(s)' + UnreadBytes(s)' <= carried'[s]
                      /\ \A q \in Slots : pc'[q] \in Counting /\ cur'[q].service = s =>
                           BytesRolledUp(s)' + UnreadBytes(s)' + Pending(q)' <= carried'[s]
    BY DEF Claims
  <1>1. UNCHANGED <<live, carried>> /\ \A q \in Slots : pc'[q] \notin Counting
    BY DEF CountsBytes, Solitary, Counting
  <1>2. pc[p] \in Counting /\ Pending(p) \in Nat /\ cur[p] \in Keys
    BY PendingType DEF CountsBytes, Counting
  <1>3. PICK app \in Apps : app = snap[p][cur[p]].app
    BY DEF CountsBytes, IInv, TypeOK, Typed, Flow
  <1>4. PICK isNew \in BOOLEAN : isNew = (pc[p] = "bumpNew")
    OBVIOUS
  <1>5. PICK key \in Keys, delta \in Nat : key = cur[p] /\ delta = Pending(p)
    BY <1>2
  <1>6. BumpPortUsage(key, app, delta, isNew)
    BY <1>3, <1>4, <1>5, Zenon DEF CountsBytes
  <1>7. UNCHANGED sessions
    BY <1>6 DEF BumpPortUsage
  <1>8. BytesRolledUp(s)' = BytesRolledUp(s) + (IF s = key.service THEN delta ELSE 0)
    BY <1>6, BumpAdds
  <1>9. UnreadBytes(s)' = UnreadBytes(s)
    <2>1. \A k \in DOMAIN live : UnreadOf(k)' = UnreadOf(k)
      BY <1>1, <1>7, AllRowBytesSame DEF UnreadOf
    <2> QED
      BY <1>1, <2>1, UnreadSame
  <1>10. /\ BytesRolledUp(s) + UnreadBytes(s) <= carried[s]
         /\ s = key.service => BytesRolledUp(s) + UnreadBytes(s) + delta <= carried[s]
    BY <1>2, <1>5 DEF Claims
  <1>11. UnreadBytes(s) \in Int /\ BytesRolledUp(s) \in Int
    BY UnreadBytesType, BytesRolledUpType
  <1>12. PICK read \in Int, rolled \in Int : read = UnreadBytes(s) /\ rolled = BytesRolledUp(s)
    BY <1>11
  <1>13. carried[s] \in Int
    BY DEF IInv, TypeOK, Typed
  <1>14. rolled + (IF s = key.service THEN delta ELSE 0) + read <= carried[s]
    BY <1>10, <1>12, <1>13
  <1> QED
    BY <1>1, <1>8, <1>9, <1>12, <1>14

LEMMA ClosesRowClaims ==
    ASSUME Steady, Synced, Claims, NEW p \in Slots, ClosesRow(p)
    PROVE  Claims'
  <1> USE DEF Steady
  <1> SUFFICES ASSUME NEW s \in Services
               PROVE  /\ BytesRolledUp(s)' + UnreadBytes(s)' <= carried'[s]
                      /\ \A q \in Slots : pc'[q] \in Counting /\ cur'[q].service = s =>
                           BytesRolledUp(s)' + UnreadBytes(s)' + Pending(q)' <= carried'[s]
    BY DEF Claims
  <1>1. /\ UNCHANGED <<live, carried, usage>> /\ \A q \in Slots : pc'[q] \notin Counting
        /\ snap[p] = live
    BY DEF ClosesRow, Solitary, Counting, Synced, Working
  <1>2. PICK key \in DOMAIN open[p] \ DOMAIN live, id \in {open[p][k].id : k \in DOMAIN open[p]} :
          /\ DOMAIN sessions' = DOMAIN sessions
          /\ sessions[id].key = key
          /\ \A i \in DOMAIN sessions :
               /\ sessions'[i].key = sessions[i].key
               /\ sessions'[i].bytes = sessions[i].bytes
               /\ sessions'[i].closed <=> sessions[i].closed \/ i = id
    BY <1>1 DEF ClosesRow
  <1>3. ASSUME NEW k \in DOMAIN live
        PROVE  UnreadOf(k)' = UnreadOf(k)
    <2>1. RowsOfKey(k)' = RowsOfKey(k)
      BY <1>2 DEF RowsOfKey, OpenIds
    <2>2. \A i \in RowsOfKey(k) : sessions'[i].bytes = sessions[i].bytes
      BY <1>2 DEF RowsOfKey, OpenIds
    <2>3. RowBytes(k)' = RowBytes(k)
      BY <2>1, <2>2, RowBytesSame
    <2> QED
      BY <1>1, <2>3 DEF UnreadOf
  <1>4. UnreadBytes(s)' = UnreadBytes(s)
    BY <1>1, <1>3, UnreadSame
  <1>5. BytesRolledUp(s)' = BytesRolledUp(s)
    BY <1>1, RollupSame
  <1> QED
    BY <1>1, <1>4, <1>5 DEF Claims

(* The firewall claims nothing: what it carries is what may be claimed. *)
LEMMA CarryMayBeClaimed ==
    ASSUME IInv, Finite, NEW key \in Keys, Carry(key), UNCHANGED sessions,
           DOMAIN live' = DOMAIN live \cup {key},
           \A k \in DOMAIN live \ {key} : live'[k] = live[k],
           live'[key].bytes = (IF key \in DOMAIN live THEN live[key].bytes ELSE 0) + 1,
           NEW s \in Services
    PROVE  /\ UnreadBytes(s)' \in Int /\ carried'[s] \in Int
           /\ UnreadBytes(s)' - UnreadBytes(s) <= carried'[s] - carried[s]
  <1>1. /\ carried[s] \in Nat
        /\ carried'[s] = carried[s] + (IF s = key.service THEN 1 ELSE 0)
    BY DEF IInv, TypeOK, Typed, Carry
  <1>2. \A k \in DOMAIN live \ {key} : UnreadOf(k)' = UnreadOf(k)
    BY AllRowBytesSame DEF UnreadOf
  <1>3. PICK r \in Nat : r = RowBytes(key)
    BY RowBytesType
  <1>4. RowBytes(key)' = r
    BY <1>3, AllRowBytesSame
  <1>5. PICK b \in Nat : b = IF key \in DOMAIN live THEN live[key].bytes ELSE 0
    BY UnreadType
  <1>6. PICK d \in {0, 1} :
          UnreadOf(key)' = (IF key \in DOMAIN live THEN UnreadOf(key) ELSE 0) + d
    <2>1. (IF key \in DOMAIN live THEN UnreadOf(key) ELSE 0) = IF b > r THEN b - r ELSE 0
      BY <1>3, <1>5 DEF UnreadOf
    <2>2. UnreadOf(key)' = IF b + 1 > r THEN (b + 1) - r ELSE 0
      BY <1>4, <1>5 DEF UnreadOf
    <2>3. \E d \in {0, 1} : (IF b + 1 > r THEN (b + 1) - r ELSE 0) = (IF b > r THEN b - r ELSE 0) + d
      OBVIOUS
    <2> QED
      BY <2>1, <2>2, <2>3
  <1>7. UnreadBytes(s)' = UnreadBytes(s) + (IF s = key.service THEN d ELSE 0)
    <2>1. d \in Int
      OBVIOUS
    <2> QED
      BY <1>2, <1>6, <2>1, UnreadChange
  <1>8. PICK read \in Int : read = UnreadBytes(s)
    BY UnreadBytesType
  <1> QED
    BY <1>1, <1>7, <1>8

LEMMA DeviceClaims ==
    ASSUME IInv, NoOverlap, Finite, Claims, Device
    PROVE  Claims'
  <1> SUFFICES ASSUME NEW s \in Services
               PROVE  /\ BytesRolledUp(s)' + UnreadBytes(s)' <= carried'[s]
                      /\ \A q \in Slots : pc'[q] \in Counting /\ cur'[q].service = s =>
                           BytesRolledUp(s)' + UnreadBytes(s)' + Pending(q)' <= carried'[s]
    BY DEF Claims
  <1>1. PICK key \in Keys :
          \/ FlowStarts(key) \/ FlowCarries(key) \/ FlowReclassified(key)
          \/ CounterResets(key) \/ FlowEnds(key)
    BY DEF Device
  <1>2. DeviceStep
    BY <1>1 DEF FlowStarts, FlowCarries, FlowReclassified, CounterResets, FlowEnds
  <1>3. UNCHANGED <<sessions, usage>> /\ \A q \in Slots : pc'[q] \notin Counting
    <2>1. PICK p \in Slots : pc[p] = "poll"
      BY <1>2 DEF DeviceStep
    <2>2. \A q \in Slots : pc[q] \notin Counting
      BY <2>1 DEF NoOverlap, Counting
    <2> QED
      BY <1>2, <2>2 DEF DeviceStep, storeVars, pollerVars
  <1>4. PICK rolled \in Int, read \in Int, out \in Int :
          rolled = BytesRolledUp(s) /\ read = UnreadBytes(s) /\ out = carried[s]
    BY BytesRolledUpType, UnreadBytesType DEF IInv, TypeOK, Typed
  <1>5. BytesRolledUp(s)' = rolled
    BY <1>3, <1>4, RollupSame
  <1>6. UnreadBytes(s)' \in Int /\ carried'[s] \in Int /\ UnreadBytes(s)' - read <= carried'[s] - out
    <2>1. CASE FlowStarts(key) \/ FlowCarries(key)
      <3>1. /\ Carry(key)
            /\ DOMAIN live' = DOMAIN live \cup {key}
            /\ \A k \in DOMAIN live \ {key} : live'[k] = live[k]
            /\ live'[key].bytes = (IF key \in DOMAIN live THEN live[key].bytes ELSE 0) + 1
        <4>1. CASE FlowStarts(key)
          BY <4>1 DEF FlowStarts
        <4>2. CASE FlowCarries(key)
          BY <4>2 DEF FlowCarries, Grown, IInv, TypeOK, Typed, Flow
        <4> QED
          BY <2>1, <4>1, <4>2
      <3> QED
        BY <1>3, <1>4, <3>1, CarryMayBeClaimed
    <2>2. CASE FlowReclassified(key)
      <3>1. /\ UNCHANGED carried /\ DOMAIN live' = DOMAIN live
            /\ \A k \in DOMAIN live : live'[k].bytes = live[k].bytes
        BY <2>2 DEF FlowReclassified, IInv, TypeOK, Typed, Flow
      <3>2. \A k \in DOMAIN live : UnreadOf(k)' = UnreadOf(k)
        BY <1>3, <3>1, AllRowBytesSame DEF UnreadOf
      <3>3. UnreadBytes(s)' = UnreadBytes(s)
        BY <3>1, <3>2, UnreadSame
      <3> QED
        BY <1>4, <3>1, <3>3
    <2>3. CASE CounterResets(key)
      <3>1. /\ UNCHANGED carried /\ key \in DOMAIN live /\ DOMAIN live' = DOMAIN live \cup {key}
            /\ live'[key].bytes = 0
            /\ \A k \in DOMAIN live \ {key} : live'[k] = live[k]
        BY <2>3 DEF CounterResets, WithoutBytes, IInv, TypeOK, Typed, Flow
      <3>2. \A k \in DOMAIN live \ {key} : UnreadOf(k)' = UnreadOf(k)
        BY <1>3, <3>1, AllRowBytesSame DEF UnreadOf
      <3>3. UnreadOf(key) \in Nat
        BY <3>1, UnreadType
      <3>4. PICK d \in Int : d = 0 - UnreadOf(key)
        BY <3>3
      <3>5. UnreadOf(key)' = 0
        <4>1. RowBytes(key)' \in Nat
          BY <1>3, AllRowBytesSame, RowBytesType
        <4> QED
          BY <3>1, <4>1 DEF UnreadOf
      <3>6. UnreadOf(key) + d = 0 /\ d <= 0
        BY <3>3, <3>4
      <3>7. UnreadBytes(s)' = UnreadBytes(s) + (IF s = key.service THEN d ELSE 0)
        BY <3>1, <3>2, <3>5, <3>6, UnreadChange
      <3> QED
        BY <1>4, <3>1, <3>6, <3>7
    <2>4. CASE FlowEnds(key)
      <3>1. /\ UNCHANGED carried /\ key \in DOMAIN live /\ DOMAIN live' = DOMAIN live \ {key}
            /\ \A k \in DOMAIN live' : live'[k] = live[k]
        BY <2>4 DEF FlowEnds
      <3>2. \A k \in DOMAIN live' : UnreadOf(k)' = UnreadOf(k)
        BY <1>3, <3>1, AllRowBytesSame DEF UnreadOf
      <3>3. UnreadBytes(s)' \in Int /\ UnreadBytes(s)' <= UnreadBytes(s)
        BY <3>1, <3>2, UnreadGone
      <3> QED
        BY <1>4, <3>1, <3>3
    <2> QED
      BY <1>1, <2>1, <2>2, <2>3, <2>4
  <1>7. rolled + read <= out
    BY <1>4 DEF Claims
  <1> QED
    BY <1>3, <1>5, <1>6, <1>7

(* The invariant of the ledger, while every listing is read as it is. *)
ClaimsOK == Quiet /\ misreads = 0 => Synced /\ Claims

LEMMA MisreadsStay ==
    ASSUME IInv, [Next]_vars, misreads' = 0
    PROVE  misreads = 0
  <1>1. misreads \in Nat
    BY DEF IInv, TypeOK, Typed
  <1>2. misreads' = misreads \/ misreads' = misreads + 1
    <2>1. CASE Device \/ Manager \/ Crash \/ UNCHANGED vars
      BY <2>1 DEF Device, FlowStarts, FlowCarries, FlowReclassified, CounterResets, FlowEnds,
                  DeviceStep, Manager, StartPoller, StopPoller, ClearHistory, RestartAll, Crash,
                  countVars, vars
    <2>2. ASSUME NEW p \in Slots, Poller(p)
          PROVE  misreads' = misreads \/ misreads' = misreads + 1
      BY <2>2 DEF Poller, LoadOpenSessions, PollSucceeds, PollMisreads, PollFails, ApplyNewFlow,
             StartSample, BumpNewSession, TrackSession, ApplyKnownFlow, BumpKnownSession,
             SampleAndSettle, BeginClosing, CloseMissing, EndPoll, TickerFires, RunReturns,
             PollerFrame
    <2> QED
      BY <2>1, <2>2 DEF Next
  <1> QED
    BY <1>1, <1>2

LEMMA NextClaimsOK ==
    /\ IInv /\ NoOverlap /\ HandsOpen /\ HandsKept /\ Whole /\ RowsOK
    /\ Finite /\ ClaimsOK /\ [Next]_vars
    => ClaimsOK'
  <1> SUFFICES ASSUME IInv, NoOverlap, HandsOpen, HandsKept, Whole, RowsOK, Finite, ClaimsOK,
                      [Next]_vars, Quiet', misreads' = 0
               PROVE  Synced' /\ Claims'
    BY DEF ClaimsOK
  <1>1. Quiet /\ misreads = 0
    BY NextQuiet, MisreadsStay
  <1>2. Steady /\ Synced /\ Claims
    BY <1>1 DEF Steady, Whole, RowsOK, Quiet, ClaimsOK
  <1>3. Synced'
    BY <1>2, NextSynced
  <1>4. Rests \/ Books \/ Device
    BY <1>2, NextLedger
  <1>5. CASE Rests
    BY <1>2, <1>3, <1>5, RestsClaims
  <1>6. CASE Device
    BY <1>2, <1>3, <1>6, DeviceClaims
  <1>7. CASE Books
    BY <1>2, <1>3, <1>7, OpensRowClaims, UpdatesRowClaims, CountsBytesClaims, ClosesRowClaims
       DEF Books
  <1> QED
    BY <1>4, <1>5, <1>6, <1>7

LEMMA InitClaimsOK == Init => ClaimsOK
  <1> SUFFICES ASSUME Init PROVE Synced /\ Claims
    BY DEF ClaimsOK
  <1>1. \A p \in Slots : pc[p] = "idle"
    BY DEF Init
  <1>2. \A s \in Services : BucketsOf(s) = {} /\ FlowsOf(s) = {} /\ carried[s] = 0
    BY DEF Init, StoreInit, EmptyMap, BucketsOf, FlowsOf
  <1>3. \A s \in Services : BytesRolledUp(s) = 0 /\ UnreadBytes(s) = 0
    BY <1>2, SumEmpty DEF BytesRolledUp, UnreadBytes
  <1> QED
    BY <1>1, <1>2, <1>3 DEF Synced, Working, Claims, Counting

LEMMA ClaimsBound ==
    ASSUME IInv, Finite, ClaimsOK, errors = 0, clears = 0
    PROVE  NeverOvercounts
  <1> SUFFICES ASSUME misreads = 0, NEW s \in Services
               PROVE  BytesRolledUp(s) <= carried[s]
    BY DEF NeverOvercounts
  <1>1. PICK rolled \in Int, out \in Int : rolled = BytesRolledUp(s) /\ out = carried[s]
    BY BytesRolledUpType DEF IInv, TypeOK, Typed
  <1>2. /\ FlowsOf(s) \subseteq DOMAIN live /\ IsFiniteSet(FlowsOf(s))
        /\ UnreadBytes(s) \in Int
    BY UnreadBytesType
  <1>3. UnreadBytes(s) >= 0
    <2> DEFINE fun == Unread
    <2>1. \A k \in FlowsOf(s) : fun[k] \in Nat
      BY <1>2, UnreadType DEF Unread
    <2> HIDE DEF fun
    <2>2. SumFunctionOnSet(fun, FlowsOf(s)) >= 0
      BY <1>2, <2>1, SumNat
    <2> QED
      BY <2>2 DEF UnreadBytes, fun
  <1>4. rolled + UnreadBytes(s) <= out
    BY <1>1 DEF ClaimsOK, Quiet, Claims
  <1> QED
    BY <1>1, <1>2, <1>3, <1>4

(* Everything the ledger rests on, as one invariant. *)
LedgerInv ==
    IInv /\ HandsOpen /\ HandsKept /\ Whole /\ RowsOK /\ Finite /\ ClaimsOK

LEMMA InitLedgerInv == Init => LedgerInv
  BY InitIInv, InitHands, InitHandsKept, InitWhole, InitRowsOK, InitFinite, InitClaimsOK
     DEF LedgerInv

LEMMA NextLedgerInv == LedgerInv /\ NoOverlap /\ [Next]_vars => LedgerInv'
  BY NextIInv, NextHands, NextHandsKept, NextWhole, NextRowsOK, NextFinite, NextClaimsOK
     DEF LedgerInv

LEMMA LedgerBound == LedgerInv => (errors = 0 /\ clears = 0 => NeverOvercounts)
  BY ClaimsBound DEF LedgerInv

(* The permanent rollup never claims more bytes of a service than it carried,
   across every crash, restart, counter that goes backwards and flow that
   comes back, as long as the listings are read as they are, no store call
   fails and the history is not cleared.  With a clear it does not hold: a
   poller whose row was cleared under it has its samples refused, and counts
   the same bytes again at each poll, until it is restarted. *)
THEOREM NeverOvercountsSafe ==
    Spec /\ []NoOverlap => [](errors = 0 /\ clears = 0 => NeverOvercounts)
  BY InitLedgerInv, NextLedgerInv, LedgerBound, PTL DEF Spec

-----------------------------------------------------------------------------
(* The rollup against the sessions, of a process that lives.               *)

Counts ==
    \A s \in Services :
      /\ (\A p \in Slots : ~(pc[p] \in Counting /\ cur[p].service = s)) =>
           BytesShown(s) <= BytesRolledUp(s)
      /\ (\A p \in Slots : ~(pc[p] \in Opening /\ cur[p].service = s)) =>
           Cardinality(RowsOf(s)) = SessionsRolledUp(s)
      /\ \A p \in Slots : pc[p] \in Counting /\ cur[p].service = s =>
           BytesShown(s) <= BytesRolledUp(s) + Pending(p)
      /\ \A p \in Slots : pc[p] \in Opening /\ cur[p].service = s =>
           Cardinality(RowsOf(s)) = SessionsRolledUp(s) + 1

LEMMA ShownType ==
    ASSUME IInv, NEW s
    PROVE  /\ BytesShown(s) \in Int /\ RowsOf(s) \subseteq DOMAIN sessions
           /\ IsFiniteSet(RowsOf(s)) /\ Cardinality(RowsOf(s)) \in Nat
  <1> DEFINE bytes == [id \in DOMAIN sessions |-> sessions[id].bytes]
  <1>1. RowsOf(s) \subseteq DOMAIN sessions /\ DOMAIN sessions \subseteq 1 .. nextId - 1
    BY DEF RowsOf, IInv, TypeOK, StoreTypeOK
  <1>2. IsFiniteSet(RowsOf(s))
    <2>1. IsFiniteSet(1 .. nextId - 1)
      BY FS_Interval DEF IInv, TypeOK, StoreTypeOK
    <2>2. RowsOf(s) \subseteq 1 .. nextId - 1
      BY <1>1
    <2> QED
      BY <2>1, <2>2, FS_Subset
  <1>3. \A id \in RowsOf(s) : bytes[id] \in Int
    BY <1>1 DEF IInv, TypeOK, StoreTypeOK, SessionRow
  <1>4. SumFunctionOnSet(bytes, RowsOf(s)) \in Int
    <2> HIDE DEF bytes
    <2> QED
      BY <1>2, <1>3, SumType
  <1>5. Cardinality(RowsOf(s)) \in Nat
    BY <1>2, FS_CardinalityType
  <1> QED
    BY <1>1, <1>2, <1>4, <1>5 DEF BytesShown

(* A row is new, or its bytes change. *)
LEMMA RowShown ==
    ASSUME IInv, NEW id, NEW d \in Int, NEW key,
           DOMAIN sessions' = DOMAIN sessions \cup {id},
           \A i \in DOMAIN sessions \ {id} :
             sessions'[i].key = sessions[i].key /\ sessions'[i].bytes = sessions[i].bytes,
           sessions'[id].key = key, id \in DOMAIN sessions => sessions[id].key = key,
           sessions'[id].bytes = (IF id \in DOMAIN sessions THEN sessions[id].bytes ELSE 0) + d,
           NEW s
    PROVE  /\ BytesShown(s)' = BytesShown(s) + (IF s = key.service THEN d ELSE 0)
           /\ RowsOf(s)' = IF s = key.service THEN RowsOf(s) \cup {id} ELSE RowsOf(s)
  <1> DEFINE fun == [i \in DOMAIN sessions |-> sessions[i].bytes]
             gun == [i \in DOMAIN sessions' |-> sessions'[i].bytes]
             S == RowsOf(s)
  <1>1. S \subseteq DOMAIN sessions /\ IsFiniteSet(S) /\ BytesShown(s) \in Int
    BY ShownType
  <1>2. BytesShown(s) = SumFunctionOnSet(fun, S) /\ BytesShown(s)' = SumFunctionOnSet(gun, RowsOf(s)')
    BY Zenon DEF BytesShown
  <1>3. \A i \in S : fun[i] \in Int
    BY <1>1 DEF IInv, TypeOK, StoreTypeOK, SessionRow
  <1>4. CASE s = key.service
    <2>1. RowsOf(s)' = S \cup {id} /\ (id \in S <=> id \in DOMAIN sessions)
      BY <1>4 DEF RowsOf
    <2>2. /\ \A i \in S \ {id} : gun[i] = fun[i]
          /\ gun[id] = (IF id \in S THEN fun[id] ELSE 0) + d
      BY <1>1, <2>1
    <2> HIDE DEF fun, gun, S
    <2>3. SumFunctionOnSet(gun, S \cup {id}) = SumFunctionOnSet(fun, S) + d
      BY <1>1, <1>3, <2>2, SumUpsert
    <2>4. RowsOf(s)' = RowsOf(s) \cup {id}
      BY <2>1 DEF S
    <2> QED
      BY <1>2, <1>4, <2>1, <2>3, <2>4
  <1>5. CASE s # key.service
    <2>1. RowsOf(s)' = S
      BY <1>5 DEF RowsOf
    <2>2. \A i \in S : fun[i] = gun[i]
      BY <1>1, <1>5 DEF RowsOf
    <2> HIDE DEF fun, gun, S
    <2>3. SumFunctionOnSet(fun, S) = SumFunctionOnSet(gun, S)
      BY <1>1, <2>2, SumSame
    <2>4. RowsOf(s)' = RowsOf(s)
      BY <2>1 DEF S
    <2> QED
      BY <1>1, <1>2, <1>5, <2>1, <2>3, <2>4
  <1> QED
    BY <1>4, <1>5

LEMMA RowsShownSame ==
    ASSUME IInv, DOMAIN sessions' = DOMAIN sessions,
           \A i \in DOMAIN sessions :
             sessions'[i].key = sessions[i].key /\ sessions'[i].bytes = sessions[i].bytes,
           NEW s
    PROVE  BytesShown(s)' = BytesShown(s) /\ RowsOf(s)' = RowsOf(s)
  <1> DEFINE fun == [i \in DOMAIN sessions |-> sessions[i].bytes]
             gun == [i \in DOMAIN sessions' |-> sessions'[i].bytes]
  <1>1. RowsOf(s)' = RowsOf(s)
    BY DEF RowsOf
  <1>2. fun = gun
    OBVIOUS
  <1>3. BytesShown(s) = SumFunctionOnSet(fun, RowsOf(s)) /\ BytesShown(s)' = SumFunctionOnSet(gun, RowsOf(s)')
    BY Zenon DEF BytesShown
  <1> QED
    BY <1>1, <1>2, <1>3, Zenon

(* Nothing is written, and whoever counts goes on counting the same. *)
LEMMA IdleCounts ==
    ASSUME IInv, Counts, UNCHANGED <<sessions, usage>>,
           \A q \in Slots :
             /\ pc'[q] \in Counting <=> pc[q] \in Counting
             /\ pc'[q] \in Opening <=> pc[q] \in Opening
             /\ pc[q] \in Counting => cur'[q] = cur[q] /\ Pending(q)' = Pending(q)
    PROVE  Counts'
  <1>1. \A s \in Services :
          /\ BytesShown(s)' = BytesShown(s) /\ RowsOf(s)' = RowsOf(s)
          /\ BytesRolledUp(s)' = BytesRolledUp(s)
          /\ SessionsRolledUp(s)' = SessionsRolledUp(s)
    BY RowsShownSame, RollupSame
  <1>2. \A q \in Slots : pc[q] \in Opening => pc[q] \in Counting
    BY DEF Opening, Counting
  <1> QED
    BY <1>1, <1>2 DEF Counts

LEMMA OpensRowCounts ==
    ASSUME Steady, Finite, Counts, NEW p \in Slots, OpensRow(p)
    PROVE  Counts'
  <1> USE DEF Steady
  <1>1. PICK key : key = cur'[p]
    OBVIOUS
  <1>2. nextId \notin DOMAIN sessions
    BY HandsAreOurs
  <1>3. PICK b \in Int : b = snap[p][key].bytes
    BY <1>1 DEF OpensRow, IInv, TypeOK, Typed, Flow
  <1>4. /\ DOMAIN sessions' = DOMAIN sessions \cup {nextId}
        /\ \A id \in DOMAIN sessions : sessions'[id] = sessions[id]
        /\ sessions'[nextId].key = key /\ sessions'[nextId].bytes = b
    BY <1>1, <1>2, <1>3 DEF OpensRow
  <1>5. /\ pc'[p] = "start" /\ UNCHANGED <<usage, snap>>
        /\ \A q \in Slots : pc[q] \notin Counting /\ pc[q] \notin Opening
        /\ \A q \in Slots \ {p} : pc'[q] \notin Counting /\ pc'[q] \notin Opening
    BY DEF OpensRow, Solitary, Counting, Opening
  <1>6. Pending(p)' = b
    BY <1>1, <1>3, <1>5 DEF Pending
  <1>7. ASSUME NEW s \in Services
        PROVE  /\ BytesShown(s)' <= BytesRolledUp(s)' + (IF s = key.service THEN b ELSE 0)
               /\ BytesRolledUp(s)' \in Int
               /\ Cardinality(RowsOf(s))' = SessionsRolledUp(s)' + (IF s = key.service THEN 1 ELSE 0)
               /\ SessionsRolledUp(s)' \in Int
    <2>1. PICK shown \in Int, rolled \in Int, n \in Int :
            shown = BytesShown(s) /\ rolled = BytesRolledUp(s) /\ n = SessionsRolledUp(s)
      BY ShownType, BytesRolledUpType
    <2>2. shown <= rolled /\ Cardinality(RowsOf(s)) = n
      BY <1>5, <2>1 DEF Counts
    <2>3. BytesRolledUp(s)' = rolled /\ SessionsRolledUp(s)' = n
      BY <1>5, <2>1, RollupSame
    <2>4. /\ BytesShown(s)' = BytesShown(s) + (IF s = key.service THEN b ELSE 0)
          /\ RowsOf(s)' = IF s = key.service THEN RowsOf(s) \cup {nextId} ELSE RowsOf(s)
      <3>1. /\ \A i \in DOMAIN sessions \ {nextId} :
                  sessions'[i].key = sessions[i].key /\ sessions'[i].bytes = sessions[i].bytes
            /\ sessions'[nextId].bytes =
                  (IF nextId \in DOMAIN sessions THEN sessions[nextId].bytes ELSE 0) + b
            /\ nextId \in DOMAIN sessions => sessions[nextId].key = key
        BY <1>2, <1>4
      <3>2. PICK id : id = nextId
        OBVIOUS
      <3>3. /\ DOMAIN sessions' = DOMAIN sessions \cup {id} /\ sessions'[id].key = key
            /\ id \in DOMAIN sessions => sessions[id].key = key
            /\ \A i \in DOMAIN sessions \ {id} :
                  sessions'[i].key = sessions[i].key /\ sessions'[i].bytes = sessions[i].bytes
            /\ sessions'[id].bytes =
                  (IF id \in DOMAIN sessions THEN sessions[id].bytes ELSE 0) + b
        BY <1>4, <3>1, <3>2
      <3>4. /\ BytesShown(s)' = BytesShown(s) + (IF s = key.service THEN b ELSE 0)
            /\ RowsOf(s)' = IF s = key.service THEN RowsOf(s) \cup {id} ELSE RowsOf(s)
        <4> HIDE <1>1, <1>2, <1>3, <1>4, <1>5, <1>6, <2>1, <2>2, <2>3, <3>1, <3>2
        <4> QED
          BY <3>3, RowShown, SMTT(30)
      <3> QED
        BY <3>2, <3>4
    <2>5. Cardinality(RowsOf(s) \cup {nextId}) = Cardinality(RowsOf(s)) + 1
      <3>1. nextId \notin RowsOf(s)
        BY <1>2, ShownType
      <3> QED
        BY <3>1, ShownType, FS_AddElement
    <2> QED
      BY <2>1, <2>2, <2>3, <2>4, <2>5
  <1>8. (\E q \in Slots : pc'[q] \in Counting /\ cur'[q].service = key.service)
        /\ (\E q \in Slots : pc'[q] \in Opening /\ cur'[q].service = key.service)
    BY <1>1, <1>5 DEF Counting, Opening
  <1>9. \A q \in Slots : pc'[q] \in Counting \/ pc'[q] \in Opening => q = p /\ cur'[q] = key
    BY <1>1, <1>5
  <1> QED
    BY <1>6, <1>7, <1>8, <1>9 DEF Counts

LEMMA UpdatesRowCounts ==
    ASSUME Steady, Finite, Counts, NEW p \in Slots, UpdatesRow(p)
    PROVE  Counts'
  <1> USE DEF Steady
  <1>1. PICK key : key = cur'[p]
    OBVIOUS
  <1>2. PICK id : id = open[p][key].id
    OBVIOUS
  <1>3. key \in DOMAIN snap[p] /\ key \in DOMAIN open[p]
    BY <1>1 DEF UpdatesRow
  <1>4. PICK b \in Int, o \in Int : b = snap[p][key].bytes /\ o = open[p][key].bytes
    BY <1>3 DEF IInv, TypeOK, Typed, Flow, Tracked
  <1>5. /\ DOMAIN sessions' = DOMAIN sessions /\ id \in DOMAIN sessions
        /\ sessions[id].key = key /\ sessions[id].bytes = o
        /\ sessions'[id].key = key /\ sessions'[id].bytes = b
        /\ \A i \in DOMAIN sessions \ {id} : sessions'[i] = sessions[i]
    BY <1>1, <1>2, <1>4 DEF UpdatesRow, OpenIds
  <1>6. /\ pc'[p] = "bump" /\ UNCHANGED <<usage, snap, open>>
        /\ \A q \in Slots : pc[q] \notin Counting /\ pc[q] \notin Opening
        /\ \A q \in Slots \ {p} : pc'[q] \notin Counting /\ pc'[q] \notin Opening
    BY DEF UpdatesRow, Solitary, Counting, Opening
  <1>7. PICK pend \in Int : pend = Pending(p)' /\ pend >= b - o
    <2>1. Pending(p)' = IF b - o < 0 THEN 0 ELSE b - o
      BY <1>1, <1>4, <1>6 DEF Pending, Delta
    <2> QED
      BY <2>1
  <1>8. ASSUME NEW s \in Services
        PROVE  /\ BytesShown(s)' <= BytesRolledUp(s)' + (IF s = key.service THEN pend ELSE 0)
               /\ BytesRolledUp(s)' \in Int
               /\ Cardinality(RowsOf(s))' = SessionsRolledUp(s)'
    <2>1. PICK shown \in Int, rolled \in Int, n \in Int :
            shown = BytesShown(s) /\ rolled = BytesRolledUp(s) /\ n = SessionsRolledUp(s)
      BY ShownType, BytesRolledUpType
    <2>2. shown <= rolled /\ Cardinality(RowsOf(s)) = n
      BY <1>6, <2>1 DEF Counts
    <2>3. BytesRolledUp(s)' = rolled /\ SessionsRolledUp(s)' = n
      BY <1>6, <2>1, RollupSame
    <2>4. PICK d \in Int : d = b - o
      OBVIOUS
    <2>5. /\ BytesShown(s)' = BytesShown(s) + (IF s = key.service THEN d ELSE 0)
          /\ RowsOf(s)' = IF s = key.service THEN RowsOf(s) \cup {id} ELSE RowsOf(s)
      <3>1. /\ DOMAIN sessions' = DOMAIN sessions \cup {id}
            /\ \A i \in DOMAIN sessions \ {id} :
                  sessions'[i].key = sessions[i].key /\ sessions'[i].bytes = sessions[i].bytes
            /\ sessions'[id].bytes =
                  (IF id \in DOMAIN sessions THEN sessions[id].bytes ELSE 0) + d
        <4>1. \A i \in DOMAIN sessions \ {id} :
                sessions'[i].key = sessions[i].key /\ sessions'[i].bytes = sessions[i].bytes
          BY <1>5
        <4>2. sessions'[id].bytes = o + d
          BY <1>4, <1>5, <2>4
        <4>3. DOMAIN sessions' = DOMAIN sessions \cup {id}
          BY <1>5
        <4> QED
          BY <1>5, <4>1, <4>2, <4>3
      <3> QED
        BY <1>5, <3>1, RowShown
    <2>6. RowsOf(s)' = RowsOf(s)
      BY <1>5, <2>5 DEF RowsOf
    <2> QED
      BY <1>7, <2>1, <2>2, <2>3, <2>4, <2>5, <2>6
  <1>9. \E q \in Slots : pc'[q] \in Counting /\ cur'[q].service = key.service
    BY <1>1, <1>6 DEF Counting
  <1>10. \A q \in Slots : pc'[q] \in Counting => q = p /\ cur'[q] = key
    BY <1>1, <1>6
  <1>11. \A q \in Slots : pc'[q] \notin Opening
    BY <1>6 DEF Opening
  <1> QED
    BY <1>7, <1>8, <1>9, <1>10, <1>11 DEF Counts

LEMMA CountsBytesCounts ==
    ASSUME Steady, Finite, Counts, NEW p \in Slots, CountsBytes(p)
    PROVE  Counts'
  <1> USE DEF Steady
  <1>1. /\ \A q \in Slots : pc'[q] \notin Counting /\ pc'[q] \notin Opening
        /\ \A q \in Slots : pc[q] \in Counting \/ pc[q] \in Opening => q = p
    BY DEF CountsBytes, Solitary, Counting, Opening
  <1>2. pc[p] \in Counting /\ Pending(p) \in Nat /\ cur[p] \in Keys
    BY PendingType DEF CountsBytes, Counting
  <1>3. PICK app \in Apps : app = snap[p][cur[p]].app
    BY DEF CountsBytes, IInv, TypeOK, Typed, Flow
  <1>4. PICK isNew \in BOOLEAN : isNew = (pc[p] = "bumpNew")
    OBVIOUS
  <1>5. PICK key \in Keys, delta \in Nat : key = cur[p] /\ delta = Pending(p)
    BY <1>2
  <1>6. BumpPortUsage(key, app, delta, isNew)
    BY <1>3, <1>4, <1>5, Zenon DEF CountsBytes
  <1>7. UNCHANGED sessions
    BY <1>6 DEF BumpPortUsage
  <1>8. isNew <=> pc[p] \in Opening
    BY <1>4 DEF CountsBytes, Opening
  <1>9. ASSUME NEW s \in Services
        PROVE  /\ BytesShown(s)' <= BytesRolledUp(s)'
               /\ Cardinality(RowsOf(s))' = SessionsRolledUp(s)'
    <2>1. PICK rolled \in Int, n \in Int : rolled = BytesRolledUp(s) /\ n = SessionsRolledUp(s)
      BY BytesRolledUpType
    <2>2. /\ BytesRolledUp(s)' = rolled + (IF s = key.service THEN delta ELSE 0)
          /\ SessionsRolledUp(s)' = n + (IF s = key.service /\ isNew THEN 1 ELSE 0)
      BY <1>6, <2>1, BumpAdds
    <2>3. BytesShown(s)' = BytesShown(s) /\ RowsOf(s)' = RowsOf(s)
      BY <1>7, RowsShownSame
    <2>4. BytesShown(s) <= rolled + (IF s = key.service THEN delta ELSE 0)
      <3>1. CASE s = key.service
        BY <1>2, <1>5, <2>1, <3>1 DEF Counts
      <3>2. CASE s # key.service
        <4>1. \A q \in Slots : ~(pc[q] \in Counting /\ cur[q].service = s)
          BY <1>1, <1>5, <3>2
        <4> QED
          BY <2>1, <3>2, <4>1 DEF Counts
      <3> QED
        BY <3>1, <3>2
    <2>5. Cardinality(RowsOf(s)) = n + (IF s = key.service /\ isNew THEN 1 ELSE 0)
      <3>1. CASE s = key.service /\ isNew
        BY <1>5, <1>8, <2>1, <3>1 DEF Counts
      <3>2. CASE ~(s = key.service /\ isNew)
        <4>1. \A q \in Slots : ~(pc[q] \in Opening /\ cur[q].service = s)
          BY <1>1, <1>5, <1>8, <3>2
        <4> QED
          BY <2>1, <3>2, <4>1 DEF Counts
      <3> QED
        BY <3>1, <3>2
    <2> QED
      BY <2>2, <2>3, <2>4, <2>5
  <1> QED
    BY <1>1, <1>9 DEF Counts

LEMMA ClosesRowCounts ==
    ASSUME IInv, Counts, NEW p \in Slots, ClosesRow(p)
    PROVE  Counts'
  <1>1. /\ DOMAIN sessions' = DOMAIN sessions /\ UNCHANGED usage
        /\ \A i \in DOMAIN sessions :
              sessions'[i].key = sessions[i].key /\ sessions'[i].bytes = sessions[i].bytes
    BY DEF ClosesRow
  <1>2. \A q \in Slots : /\ pc[q] \notin Counting /\ pc[q] \notin Opening
                          /\ pc'[q] \notin Counting /\ pc'[q] \notin Opening
    BY DEF ClosesRow, Solitary, Counting, Opening
  <1>3. \A s \in Services :
          /\ BytesShown(s)' = BytesShown(s) /\ RowsOf(s)' = RowsOf(s)
          /\ BytesRolledUp(s)' = BytesRolledUp(s)
          /\ SessionsRolledUp(s)' = SessionsRolledUp(s)
    BY <1>1, RowsShownSame, RollupSame
  <1> QED
    BY <1>2, <1>3 DEF Counts

CountsOK == Quiet /\ crashes = 0 => Counts

LEMMA NextCountsOK == LedgerInv /\ NoOverlap /\ CountsOK /\ [Next]_vars => CountsOK'
  <1> SUFFICES ASSUME LedgerInv, NoOverlap, CountsOK, [Next]_vars, Quiet', crashes' = 0
               PROVE  Counts'
    BY DEF CountsOK
  <1> USE DEF LedgerInv
  <1>1. crashes \in Nat /\ (crashes' = crashes \/ crashes' = crashes + 1)
    <2>1. KindOfStep
      BY Kinds
    <2> QED
      BY <2>1 DEF KindOfStep, Dies, IInv, TypeOK, Typed
  <1>2. crashes = 0 /\ crashes' # crashes + 1
    BY <1>1
  <1>3. Steady /\ Finite /\ Counts
    BY <1>2, NextQuiet DEF Steady, Whole, RowsOK, Quiet, CountsOK
  <1>4. Rests \/ Books \/ Device
    BY <1>3, NextLedger
  <1>5. CASE Rests
    BY <1>2, <1>3, <1>5, IdleCounts DEF Rests, Opening, Counting
  <1>6. CASE Device
    <2>1. UNCHANGED <<sessions, usage, pc, cur, snap, open>>
      BY <1>6 DEF Device, FlowStarts, FlowCarries, FlowReclassified, CounterResets, FlowEnds,
                  DeviceStep, storeVars, pollerVars
    <2>2. \A q \in Slots : Pending(q)' = Pending(q)
      BY <2>1 DEF Pending, Delta
    <2> QED
      BY <1>3, <2>1, <2>2, IdleCounts
  <1>7. CASE Books
    BY <1>3, <1>7, OpensRowCounts, UpdatesRowCounts, CountsBytesCounts, ClosesRowCounts
       DEF Books
  <1> QED
    BY <1>4, <1>5, <1>6, <1>7

LEMMA InitCountsOK == Init => CountsOK
  <1> SUFFICES ASSUME Init PROVE Counts
    BY DEF CountsOK
  <1>1. \A p \in Slots : pc[p] = "idle"
    BY DEF Init
  <1>2. \A s \in Services : BucketsOf(s) = {} /\ RowsOf(s) = {}
    BY DEF Init, StoreInit, BucketsOf, RowsOf
  <1>3. \A s \in Services : /\ BytesRolledUp(s) = 0 /\ SessionsRolledUp(s) = 0
                             /\ BytesShown(s) = 0 /\ Cardinality(RowsOf(s)) = 0
    BY <1>2, SumEmpty, FS_EmptySet DEF BytesRolledUp, SessionsRolledUp, BytesShown
  <1> QED
    BY <1>1, <1>3 DEF Counts, Counting, Opening

LEMMA CountsMatch == LedgerInv /\ CountsOK => (clears = 0 /\ crashes = 0 => RollupMatchesSessions)
  <1> SUFFICES ASSUME LedgerInv, CountsOK, clears = 0, crashes = 0, errors = 0,
                      \A p \in Slots : Between(p), NEW s \in Services
               PROVE  /\ SessionsRolledUp(s) = Cardinality(RowsOf(s))
                      /\ BytesRolledUp(s) >= BytesShown(s)
    BY DEF RollupMatchesSessions
  <1>1. \A p \in Slots : pc[p] \notin Counting /\ pc[p] \notin Opening
    BY DEF Between, Counting, Opening
  <1>2. BytesShown(s) <= BytesRolledUp(s) /\ Cardinality(RowsOf(s)) = SessionsRolledUp(s)
    BY <1>1 DEF CountsOK, Quiet, Counts
  <1>3. BytesShown(s) \in Int /\ BytesRolledUp(s) \in Int
    BY ShownType, BytesRolledUpType DEF LedgerInv
  <1> QED
    BY <1>2, <1>3

(* Between two polls the permanent rollup agrees with the sessions it was
   rolled up from: as many sessions of every service, and no byte of them
   missing, whatever is reclassified or restarted.  A crash between an INSERT
   and the rollup that follows it loses the count of one session, and a clear
   between the two leaves the rollup with a count too many. *)
THEOREM RollupMatchesSafe ==
    Spec /\ []NoOverlap => [](clears = 0 /\ crashes = 0 => RollupMatchesSessions)
  BY InitLedgerInv, NextLedgerInv, InitCountsOK, NextCountsOK, CountsMatch, PTL DEF Spec

-----------------------------------------------------------------------------
(* Before the Settings page intervenes.                                    *)

(* No poller has been stopped and the history has not been cleared. *)
Calm == stops = 0 /\ clears = 0

LEMMA CalmStays ==
    ASSUME IInv, [Next]_vars, Calm'
    PROVE  Calm
  <1>1. stops \in Nat /\ clears \in Nat
    BY DEF IInv, TypeOK, Typed
  <1>2. (stops' = stops \/ stops' = stops + 1) /\ (clears' = clears \/ clears' = clears + 1)
    <2>1. CASE Device \/ UNCHANGED vars
      BY <2>1 DEF Device, FlowStarts, FlowCarries, FlowReclassified, CounterResets, FlowEnds,
                  DeviceStep, countVars, vars
    <2>2. CASE Manager \/ Crash
      BY <2>2 DEF Manager, StartPoller, StopPoller, ClearHistory, RestartAll, ManagerFrame, Crash,
                  countVars
    <2>3. ASSUME NEW p \in Slots, Poller(p)
          PROVE  UNCHANGED <<stops, clears>>
      BY <2>3 DEF Poller, LoadOpenSessions, PollSucceeds, PollMisreads, PollFails, ApplyNewFlow,
             StartSample, BumpNewSession, TrackSession, ApplyKnownFlow, BumpKnownSession,
             SampleAndSettle, BeginClosing, CloseMissing, EndPoll, TickerFires, RunReturns,
             PollerFrame, AnyPollerFrame
    <2> QED
      BY <2>1, <2>2, <2>3 DEF Next
  <1> QED
    BY <1>1, <1>2 DEF Calm

(* A step towards a calm state starts in one, where pollers take turns. *)
CalmInv == IInv /\ Sole /\ (Calm => LedgerInv /\ CountsOK /\ OnRecord)

LEMMA InitCalm == Init => CalmInv
  BY InitSole, InitLedgerInv, InitCountsOK, InitOnRecord DEF CalmInv, LedgerInv

LEMMA NextCalm == CalmInv /\ [Next]_vars => CalmInv'
  <1> SUFFICES ASSUME CalmInv, [Next]_vars PROVE CalmInv'
    OBVIOUS
  <1>1. IInv' /\ Sole'
    BY NextIInv, NextSole DEF CalmInv
  <1>2. ASSUME Calm'
        PROVE  LedgerInv' /\ CountsOK' /\ OnRecord'
    <2>1. Calm
      BY <1>2, CalmStays DEF CalmInv
    <2>2. NoOverlap /\ LedgerInv /\ CountsOK /\ OnRecord
      BY <2>1 DEF CalmInv, Calm, Sole, NoOverlap
    <2> QED
      BY <2>2, NextLedgerInv, NextCountsOK, NextOnRecord DEF LedgerInv
  <1> QED
    BY <1>1, <1>2 DEF CalmInv

(* What the theorems above show under []NoOverlap holds of every run until
   the Settings page first stops a poller or clears the history, whatever
   crashes, fails and is misread: a poller tracks open rows only; unless a
   store call failed it tracks them all, one for each flow, and the rollup
   stays below what was carried; unless the process died its baselines are on
   record and the rollup matches the sessions. *)
THEOREM CalmSafe ==
    Spec => [](Calm =>
                 /\ TrackedIsOpen
                 /\ errors = 0 => OneOpenRow /\ OpenIsTracked /\ NeverOvercounts
                 /\ crashes = 0 => BaselineIsSampled /\ RollupMatchesSessions)
  <1>1. CalmInv => (Calm =>
          /\ TrackedIsOpen
          /\ errors = 0 => OneOpenRow /\ OpenIsTracked /\ NeverOvercounts
          /\ crashes = 0 => BaselineIsSampled /\ RollupMatchesSessions)
    <2> SUFFICES ASSUME Calm, LedgerInv, CountsOK, OnRecord
                 PROVE  /\ TrackedIsOpen
                        /\ errors = 0 => OneOpenRow /\ OpenIsTracked /\ NeverOvercounts
                        /\ crashes = 0 => BaselineIsSampled /\ RollupMatchesSessions
      BY DEF CalmInv
    <2>1. TrackedIsOpen
      BY HandsAreTracked DEF LedgerInv
    <2>2. errors = 0 => OneOpenRow /\ OpenIsTracked /\ NeverOvercounts
      BY WholeIsTracked, LedgerBound DEF LedgerInv, Whole, Calm
    <2>3. crashes = 0 => BaselineIsSampled
      BY DEF OnRecord, SampledBy, Sampled, BaselineIsSampled
    <2>4. crashes = 0 => RollupMatchesSessions
      BY CountsMatch DEF Calm
    <2> QED
      BY <2>1, <2>2, <2>3, <2>4
  <1> QED
    BY <1>1, InitCalm, NextCalm, PTL DEF Spec
=============================================================================
