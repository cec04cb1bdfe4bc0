---------------------------- MODULE RetentionProofs ----------------------------
(***************************************************************************)
(* Retention beside the pollers: what FlowTrackingProofs shows of the      *)
(* pollers survives the deletions, what a pass deletes nobody works on,    *)
(* and all of it together implements the history a reader sees.            *)
(***************************************************************************)
EXTENDS Retention, FlowBytesProofs

RInv == IInv /\ RetentionTypeOK

allVars == <<vars, retentionVars>>

-----------------------------------------------------------------------------
(* A batch.                                                                *)

(* A finite set has subsets of every smaller size. *)
LEMMA SubsetOfSize ==
    ASSUME NEW S, IsFiniteSet(S), NEW n \in Nat, n <= Cardinality(S)
    PROVE  \E T \in SUBSET S : Cardinality(T) = n
  <1>1. Cardinality(S) \in Nat /\ ExistsBijection(1 .. Cardinality(S), S)
    BY FS_CardinalityType
  <1>2. PICK f \in Bijection(1 .. Cardinality(S), S) : TRUE
    BY <1>1 DEF ExistsBijection
  <1>3. /\ f \in [1 .. Cardinality(S) -> S]
        /\ \A i, j \in 1 .. Cardinality(S) : f[i] = f[j] => i = j
    BY <1>2 DEF Bijection, Injection, IsInjective
  <1> DEFINE T == {f[i] : i \in 1 .. n}
             g == [i \in 1 .. n |-> f[i]]
  <1>4. \A i \in 1 .. n : i \in 1 .. Cardinality(S)
    BY <1>1
  <1>5. T \in SUBSET S
    BY <1>3, <1>4
  <1>6. g \in Bijection(1 .. n, T)
    BY <1>3, <1>4 DEF Bijection, Injection, Surjection, IsInjective
  <1>7. Cardinality(T) = n
    BY <1>6, FS_CountingElements DEF ExistsBijection
  <1> QED
    BY <1>5, <1>7

(* What a statement selects: expired rows, all of them or a full batch. *)
LEMMA SelectedExpired ==
    ASSUME RInv
    PROVE  /\ Selected \subseteq Expired /\ Expired \subseteq DOMAIN sessions
           /\ IsFiniteSet(Expired)
           /\ Cardinality(Selected) < Batch => Selected = Expired
  <1>1. Expired \subseteq DOMAIN sessions
    BY DEF RInv, RetentionTypeOK, Expired
  <1>2. IsFiniteSet(Expired)
    <2>1. nextId \in Nat /\ DOMAIN sessions \subseteq 1 .. nextId - 1
      BY DEF RInv, IInv, TypeOK, StoreTypeOK
    <2>2. IsFiniteSet(1 .. nextId - 1)
      BY <2>1, FS_Interval
    <2> QED
      BY <1>1, <2>1, <2>2, FS_Subset
  <1> DEFINE size == IF Cardinality(Expired) < Batch THEN Cardinality(Expired) ELSE Batch
  <1>3. Cardinality(Expired) \in Nat /\ Batch \in Nat
    BY <1>2, FS_CardinalityType, BatchAssumption
  <1>4. size \in Nat /\ size <= Cardinality(Expired)
    BY <1>3
  <1>5. \E ids \in SUBSET Expired : Cardinality(ids) = size
    <2> HIDE DEF size
    <2> QED
      BY <1>2, <1>4, SubsetOfSize
  <1>6. Selected \in SUBSET Expired /\ Cardinality(Selected) = size
    BY <1>5, Zenon DEF Selected
  <1>7. ASSUME Cardinality(Selected) < Batch
        PROVE  Selected = Expired
    <2>1. Cardinality(Selected) = Cardinality(Expired)
      BY <1>3, <1>6, <1>7
    <2> QED
      BY <1>2, <1>6, <2>1, FS_Subset
  <1> QED
    BY <1>1, <1>2, <1>6, <1>7

(* What a statement of a pass does to the rest: rows of the batch and samples
   go, and nothing else changes. *)
LEMMA PruneDeletes ==
    ASSUME RInv, Prune
    PROVE  /\ UNCHANGED <<deviceVars, pollerVars, managerVars, requested, countVars>>
           /\ UNCHANGED <<nextId, usage, dstIPs>>
           /\ samples' \subseteq samples
           /\ DOMAIN sessions' \subseteq DOMAIN sessions
           /\ DOMAIN sessions \ DOMAIN sessions' \subseteq Expired
           /\ \A id \in DOMAIN sessions' : sessions'[id] = sessions[id]
  <1>1. UNCHANGED <<deviceVars, pollerVars, managerVars, requested, countVars>>
    BY DEF Prune
  <1>2. CASE BeginPass \/ PruneFails
    BY <1>1, <1>2 DEF BeginPass, PruneFails, storeVars
  <1>3. CASE PruneSamples
    BY <1>1, <1>3 DEF PruneSamples
  <1>4. CASE PruneSessions
    BY <1>1, <1>4, SelectedExpired DEF PruneSessions, storeVars
  <1> QED
    BY <1>2, <1>3, <1>4 DEF Prune

LEMMA PruneKeepsOpen ==
    ASSUME RInv, Prune
    PROVE  OpenIds' = OpenIds /\ \A q \in Slots : InHand(q)' = InHand(q)
  <1>1. /\ DOMAIN sessions' \subseteq DOMAIN sessions
        /\ DOMAIN sessions \ DOMAIN sessions' \subseteq Expired
        /\ \A id \in DOMAIN sessions' : sessions'[id] = sessions[id]
    BY PruneDeletes
  <1>2. UNCHANGED <<open, pc, newId>>
    BY PruneDeletes DEF pollerVars
  <1> QED
    BY <1>1, <1>2 DEF Expired, OpenIds, InHand

-----------------------------------------------------------------------------
(* Types.                                                                  *)

LEMMA PruneIInv ==
    ASSUME RInv, Prune
    PROVE  IInv'
  <1>1. /\ UNCHANGED <<deviceVars, pollerVars, managerVars, requested, countVars>>
        /\ UNCHANGED <<nextId, usage, dstIPs>>
        /\ samples' \subseteq samples
        /\ DOMAIN sessions' \subseteq DOMAIN sessions
        /\ \A id \in DOMAIN sessions' : sessions'[id] = sessions[id]
    BY PruneDeletes
  <1>2. StoreTypeOK'
    BY <1>1 DEF RInv, IInv, TypeOK, StoreTypeOK
  <1>3. Typed' /\ LocalsOK'
    BY <1>1 DEF RInv, IInv, TypeOK, Typed, LocalsOK, deviceVars, pollerVars, managerVars, countVars
  <1>4. IdsHeld'
    BY <1>1 DEF RInv, IInv, IdsHeld, pollerVars
  <1> QED
    BY <1>2, <1>3, <1>4 DEF IInv, TypeOK

LEMMA NextRetentionTypeOK ==
    ASSUME RInv, [RetentionNext]_allVars
    PROVE  RetentionTypeOK'
  <1>1. CASE Next /\ PassGoesOn
    BY <1>1 DEF RInv, RetentionTypeOK, PassGoesOn
  <1>2. CASE Prune
    <2>1. CASE BeginPass
      BY <2>1 DEF BeginPass, RetentionTypeOK, storeVars
    <2>2. CASE PruneSamples
      BY <2>2 DEF PruneSamples, RInv, RetentionTypeOK
    <2>3. CASE PruneSessions
      BY <2>3 DEF PruneSessions, EndPass, RInv, RetentionTypeOK
    <2>4. CASE PruneFails
      BY <2>4 DEF PruneFails, EndPass, RetentionTypeOK
    <2> QED
      BY <1>2, <2>1, <2>2, <2>3, <2>4 DEF Prune
  <1>3. CASE UNCHANGED allVars
    BY <1>3 DEF allVars, vars, storeVars, retentionVars, RInv, RetentionTypeOK
  <1> QED
    BY <1>1, <1>2, <1>3 DEF RetentionNext

LEMMA NextOrPrune ==
    ASSUME [RetentionNext]_allVars
    PROVE  [Next]_vars \/ Prune
  BY DEF RetentionNext, allVars

LEMMA NextRInv == RInv /\ [RetentionNext]_allVars => RInv'
  <1> SUFFICES ASSUME RInv, [RetentionNext]_allVars PROVE RInv'
    OBVIOUS
  <1>1. IInv'
    BY NextOrPrune, NextIInv, PruneIInv DEF RInv
  <1> QED
    BY <1>1, NextRetentionTypeOK DEF RInv

LEMMA InitRInv == RetentionInit => RInv
  BY InitIInv DEF RetentionInit, RInv, RetentionTypeOK

(* A pass looks at rows that are there, and the tables keep their types,
   however the statements of pollers and retention interleave. *)
THEOREM RetentionTypeCorrect == RetentionSpec => [](TypeOK /\ RetentionTypeOK)
  <1>1. RInv => TypeOK /\ RetentionTypeOK
    BY DEF RInv, IInv
  <1> QED
    BY <1>1, InitRInv, NextRInv, PTL DEF RetentionSpec, allVars

(* An id in memory never designates another flow's row, deletions included. *)
THEOREM RetentionIdentitySafe == RetentionSpec => []IdsAreOurs
  <1>1. RInv => IdsAreOurs
    BY DEF RInv, IInv, IdsHeld, IdsAreOurs
  <1> QED
    BY <1>1, InitRInv, NextRInv, PTL DEF RetentionSpec, allVars

(* Retention takes nothing from the permanent rollup. *)
THEOREM RetentionRollupPermanent == RetentionSpec => RollupOnlyGrows
  <1>1. RInv /\ [RetentionNext]_allVars => [~ClearHistory => UsageGrows]_vars
    <2> SUFFICES ASSUME RInv, [RetentionNext]_allVars, ~ClearHistory PROVE UsageGrows
      OBVIOUS
    <2>1. CASE [Next]_vars
      BY <2>1, NextGrows DEF RInv
    <2>2. CASE Prune
      BY <2>2, PruneDeletes, UsageKeptGrows DEF RInv, IInv, TypeOK
    <2> QED
      BY <2>1, <2>2, NextOrPrune
  <1> QED
    BY <1>1, InitRInv, NextRInv, PTL DEF RetentionSpec, RollupOnlyGrows, allVars

-----------------------------------------------------------------------------
(* Pollers that do not overlap.                                            *)

LEMMA RetentionHands ==
    RInv /\ NoOverlap /\ HandsOpen /\ [RetentionNext]_allVars => HandsOpen'
  <1> SUFFICES ASSUME RInv, NoOverlap, HandsOpen, [RetentionNext]_allVars PROVE HandsOpen'
    OBVIOUS
  <1>1. CASE [Next]_vars
    BY <1>1, NextHands DEF RInv
  <1>2. CASE Prune
    <2>1. DOMAIN sessions' \subseteq DOMAIN sessions /\ UNCHANGED <<open, pc>>
      BY <1>2, PruneDeletes DEF pollerVars
    <2>2. OpenIds' = OpenIds /\ \A q \in Slots : InHand(q)' = InHand(q)
      BY <1>2, PruneKeepsOpen
    <2> QED
      BY <2>1, <2>2 DEF HandsOpen
  <1> QED
    BY <1>1, <1>2, NextOrPrune

LEMMA RetentionInitHands == RetentionInit => HandsOpen
  BY InitHands DEF RetentionInit

LEMMA RetentionWhole ==
    RInv /\ NoOverlap /\ Whole /\ [RetentionNext]_allVars => Whole'
  <1> SUFFICES ASSUME RInv, NoOverlap, Whole, [RetentionNext]_allVars PROVE Whole'
    OBVIOUS
  <1>1. CASE [Next]_vars
    BY <1>1, NextWhole DEF RInv
  <1>2. CASE Prune
    <2>1. UNCHANGED <<open, pc, cur, errors>>
      BY <1>2, PruneDeletes DEF pollerVars, countVars
    <2>2. OpenIds' = OpenIds /\ \A q \in Slots : InHand(q)' = InHand(q)
      BY <1>2, PruneKeepsOpen
    <2>3. \A id \in OpenIds : sessions'[id] = sessions[id]
      BY <1>2, <2>2, PruneDeletes DEF OpenIds
    <2> QED
      BY <2>1, <2>2, <2>3 DEF Whole, OneOpenRow, RowsKnown
  <1> QED
    BY <1>1, <1>2, NextOrPrune

LEMMA RetentionInitWhole == RetentionInit => Whole
  BY InitWhole DEF RetentionInit

(* What a poller tracks the store does not have as closed, with rows deleted
   under way. *)
THEOREM RetentionTrackedIsOpen == RetentionSpec /\ []NoOverlap => []TrackedIsOpen
  BY InitRInv, NextRInv, RetentionInitHands, RetentionHands, HandsAreTracked, PTL
  DEF RetentionSpec, allVars

(* And the converse, as long as no store call of a poller failed. *)
THEOREM RetentionOpenIsTracked ==
    RetentionSpec /\ []NoOverlap => [](errors = 0 => OpenIsTracked)
  BY InitRInv, NextRInv, RetentionInitWhole, RetentionWhole, WholeIsTracked, PTL
  DEF RetentionSpec, allVars

(* Closed sessions never change, from their end to their deletion. *)
THEOREM RetentionClosedIsFinal == RetentionSpec /\ []NoOverlap => ClosedIsFinal
  <1>1. RInv /\ HandsOpen /\ [RetentionNext]_allVars =>
          [\A id \in DOMAIN sessions :
             sessions[id].closed /\ id \in DOMAIN sessions' => sessions'[id] = sessions[id]]_vars
    <2> SUFFICES ASSUME RInv, HandsOpen, [RetentionNext]_allVars
                 PROVE  [\A id \in DOMAIN sessions :
                           sessions[id].closed /\ id \in DOMAIN sessions' =>
                             sessions'[id] = sessions[id]]_vars
      OBVIOUS
    <2>1. CASE [Next]_vars
      BY <2>1, NextFinal DEF RInv
    <2>2. CASE Prune
      BY <2>2, PruneDeletes
    <2> QED
      BY <2>1, <2>2, NextOrPrune
  <1> QED
    BY <1>1, InitRInv, NextRInv, RetentionInitHands, RetentionHands, PTL
    DEF RetentionSpec, ClosedIsFinal, allVars

LEMMA RetentionHandsKept ==
    RInv /\ HandsOpen /\ HandsKept /\ [RetentionNext]_allVars => HandsKept'
  <1> SUFFICES ASSUME RInv, HandsOpen, HandsKept, [RetentionNext]_allVars PROVE HandsKept'
    OBVIOUS
  <1>1. CASE [Next]_vars
    BY <1>1, NextHandsKept DEF RInv
  <1>2. CASE Prune
    <2>1. OpenIds' = OpenIds /\ \A q \in Slots : InHand(q)' = InHand(q)
      BY <1>2, PruneKeepsOpen
    <2>2. UNCHANGED clears
      BY <1>2, PruneDeletes DEF countVars
    <2>3. OpenIds' \subseteq DOMAIN sessions'
      BY DEF OpenIds
    <2>4. clears = 0 => \A q \in Slots : InHand(q) \subseteq OpenIds
      BY DEF HandsKept, HandsOpen
    <2> QED
      BY <2>1, <2>2, <2>3, <2>4 DEF HandsKept
  <1> QED
    BY <1>1, <1>2, NextOrPrune

(* A poller never loses a session that it tracks or inserts to retention. *)
THEOREM TrackedIsKeptSafe == RetentionSpec /\ []NoOverlap => []TrackedIsKept
  <1>1. RetentionInit => HandsKept
    BY InitHandsKept DEF RetentionInit
  <1>2. HandsKept => TrackedIsKept
    BY DEF HandsKept, TrackedIsKept, InHand, Inserting
  <1> QED
    BY <1>1, <1>2, InitRInv, NextRInv, RetentionInitHands, RetentionHands, RetentionHandsKept, PTL
    DEF RetentionSpec, allVars

-----------------------------------------------------------------------------
(* The two statements of a batch.                                          *)

(* Rows that a poller writes were open, or are gone: no expired row leaves the
   far side of the cutoff. *)
LEMMA WrittenWasOpen ==
    ASSUME HandsOpen, NEW p \in Slots
    PROVE  Written(p) \cap Expired \cap DOMAIN sessions = {}
  <1>1. InHand(p) \cap DOMAIN sessions \subseteq OpenIds
    BY DEF HandsOpen
  <1>2. Written(p) \subseteq OpenIds \cup InHand(p)
    <2>1. CASE pc[p] = "apply" /\ pc'[p] = "bump"
      BY <2>1 DEF Written
    <2>2. CASE pc[p] = "close" /\ pc'[p] = "close"
      <3>1. Written(p) = {open[p][k].id : k \in DOMAIN open[p] \ DOMAIN open'[p]}
        BY <2>2 DEF Written
      <3> QED
        BY <3>1 DEF InHand
    <2>3. CASE ~(pc[p] = "apply" /\ pc'[p] = "bump") /\ ~(pc[p] = "close" /\ pc'[p] = "close")
      BY <2>3 DEF Written
    <2> QED
      BY <2>1, <2>2, <2>3
  <1> QED
    BY <1>1, <1>2 DEF Expired

(* What the others do while a pass is under way neither adds to what has
   expired nor takes from it, unless all of it goes. *)
LEMMA ExpiredStands ==
    ASSUME RInv, HandsOpen, Next, PassGoesOn
    PROVE  Expired' = Expired \/ Expired' = {}
  <1> USE DEF RInv
  <1>1. old \subseteq DOMAIN sessions
    BY DEF RetentionTypeOK
  <1> DEFINE W == UNION {Written(p) : p \in Slots}
  <1>2. W \cap Expired = {}
    BY <1>1, WrittenWasOpen DEF Expired
  <1>3. CASE Crash
    BY <1>3 DEF PassGoesOn, Expired
  <1>4. CASE ~Crash
    <2>1. old' = (old \cap DOMAIN sessions') \ W
      BY <1>4 DEF PassGoesOn
    <2>2. KindOfStep
      BY Kinds
    <2>3. CASE Clears
      BY <2>1, <2>3 DEF Clears, Expired
    <2>4. CASE ~Clears
      <3>1. /\ DOMAIN sessions \subseteq DOMAIN sessions'
            /\ \A id \in DOMAIN sessions : sessions[id].closed => sessions'[id].closed
            /\ \A id \in DOMAIN sessions : ~sessions[id].closed /\ sessions'[id].closed => id \in W
        <4>1. ASSUME NEW p \in Slots, Closes(p)
              PROVE  /\ DOMAIN sessions \subseteq DOMAIN sessions'
                     /\ \A id \in DOMAIN sessions : sessions[id].closed => sessions'[id].closed
                     /\ \A id \in DOMAIN sessions :
                          ~sessions[id].closed /\ sessions'[id].closed => id \in W
          <5>1. PICK key \in DOMAIN open[p] :
                  /\ DOMAIN open'[p] = DOMAIN open[p] \ {key}
                  /\ DOMAIN sessions' = DOMAIN sessions
                  /\ \A id \in DOMAIN sessions :
                       /\ id # open[p][key].id => sessions'[id] = sessions[id]
                       /\ id = open[p][key].id => sessions'[id].closed
            BY <4>1 DEF Closes
          <5>2. open[p][key].id \in Written(p)
            <6>1. pc[p] = "close" /\ pc'[p] = "close"
              BY <4>1 DEF Closes
            <6>2. Written(p) = {open[p][k].id : k \in DOMAIN open[p] \ DOMAIN open'[p]}
              BY <6>1 DEF Written
            <6> QED
              BY <5>1, <6>2
          <5>3. open[p][key].id \in W
            BY <5>2
          <5> HIDE DEF W
          <5> QED
            BY <5>1, <5>3
        <4>2. ASSUME NEW p \in Slots, Loads(p) \/ Inserts(p) \/ Tracks(p)
              PROVE  /\ DOMAIN sessions \subseteq DOMAIN sessions'
                     /\ \A id \in DOMAIN sessions : sessions'[id] = sessions[id]
          BY <4>2 DEF Loads, Inserts, Tracks
        <4>3. CASE GoesOn
          BY <4>3 DEF GoesOn, SameRows
        <4>4. CASE Dies
          BY <4>4 DEF Dies
        <4> HIDE DEF W
        <4> QED
          BY <2>2, <2>4, <4>1, <4>2, <4>3, <4>4 DEF KindOfStep
      <3> HIDE DEF W
      <3>2. \A id \in old : id \in Expired <=> sessions[id].closed
        BY <1>1 DEF Expired, OpenIds
      <3>3. \A id \in old' : id \in Expired' <=> sessions'[id].closed
        BY <2>1 DEF Expired, OpenIds
      <3>4. Expired \subseteq Expired'
        <4> SUFFICES ASSUME NEW id \in Expired PROVE id \in Expired'
          OBVIOUS
        <4>1. id \in old /\ sessions[id].closed /\ id \in DOMAIN sessions
          BY <1>1, <3>2 DEF Expired
        <4>2. id \in old' /\ sessions'[id].closed
          BY <1>2, <2>1, <3>1, <4>1
        <4> QED
          BY <3>3, <4>2
      <3>5. Expired' \subseteq Expired
        <4> SUFFICES ASSUME NEW id \in Expired' PROVE id \in Expired
          OBVIOUS
        <4>1. id \in old' /\ sessions'[id].closed
          BY <3>3 DEF Expired
        <4>2. id \in old /\ id \notin W /\ id \in DOMAIN sessions
          BY <1>1, <2>1, <4>1
        <4> QED
          BY <3>1, <3>2, <4>1, <4>2
      <3> QED
        BY <3>4, <3>5
    <2> QED
      BY <2>3, <2>4
  <1> QED
    BY <1>3, <1>4

(* A sample that is written belongs to a session in hand. *)
LEMMA NewSamples ==
    ASSUME IInv, [Next]_vars, NEW s \in samples'
    PROVE  s \in samples \/ \E q \in Slots : s.session \in InHand(q)
  BY Kinds DEF KindOfStep, Loads, Inserts, Tracks, Closes, Clears, Dies, GoesOn, SameRows

LEMMA SelectedIsExpired == RInv => Selected \subseteq Expired
  BY SelectedExpired

LEMMA NextBatchesAgree ==
    RInv /\ HandsOpen /\ BatchesAgree /\ [RetentionNext]_allVars => BatchesAgree'
  <1> SUFFICES ASSUME RInv, HandsOpen, BatchesAgree, [RetentionNext]_allVars
               PROVE  BatchesAgree'
    OBVIOUS
  <1>1. RInv'
    BY NextRInv
  <1>2. Selected \subseteq Expired /\ Expired \subseteq DOMAIN sessions
    BY SelectedExpired
  <1>3. CASE Next /\ PassGoesOn
    <2> SUFFICES ASSUME prune' = "sessions", NEW s \in samples', s.session \in Selected'
                 PROVE  FALSE
      BY DEF BatchesAgree, Referenced
    <2>1. prune = "sessions"
      BY <1>3 DEF PassGoesOn
    <2>2. CASE Expired' = {}
      <3>1. (Selected \subseteq Expired)'
        BY <1>1, SelectedIsExpired, PTL
      <3> QED
        BY <2>2, <3>1
    <2>3. CASE Expired' = Expired
      <3>1. Selected' = Selected
        BY <2>3 DEF Selected
      <3>2. s.session \in Expired
        BY <1>2, <3>1
      <3>3. \A q \in Slots : s.session \notin InHand(q)
        BY <1>2, <3>2 DEF HandsOpen, Expired
      <3>4. s \in samples
        BY <1>3, <3>3, NewSamples DEF RInv
      <3> QED
        BY <2>1, <3>1, <3>4 DEF BatchesAgree, Referenced
    <2> QED
      BY <1>3, <2>2, <2>3, ExpiredStands
  <1>4. CASE Prune
    <2>1. CASE PruneSamples
      <3>1. Expired' = Expired
        BY <2>1 DEF PruneSamples, Expired, OpenIds
      <3>2. Selected' = Selected
        BY <3>1 DEF Selected
      <3> QED
        BY <2>1, <3>2 DEF PruneSamples, BatchesAgree, Referenced
    <2>2. CASE BeginPass \/ PruneSessions \/ PruneFails
      <3>1. prune' # "sessions"
        BY <2>2 DEF BeginPass, PruneSessions, PruneFails, EndPass
      <3> QED
        BY <3>1 DEF BatchesAgree
    <2> QED
      BY <1>4, <2>1, <2>2 DEF Prune
  <1>5. CASE UNCHANGED allVars
    <2>1. Expired' = Expired
      BY <1>5 DEF allVars, vars, storeVars, retentionVars, Expired, OpenIds
    <2>2. Selected' = Selected
      BY <2>1 DEF Selected
    <2> QED
      BY <1>5, <2>2 DEF allVars, vars, storeVars, retentionVars, BatchesAgree, Referenced
  <1> QED
    BY <1>3, <1>4, <1>5 DEF RetentionNext

LEMMA InitBatchesAgree == RetentionInit => BatchesAgree
  BY DEF RetentionInit, BatchesAgree

(* The samples of every session that a batch deletes are gone, whatever the
   pollers write between its two statements: the foreign key never stops a
   pass. *)
THEOREM BatchesAgreeSafe == RetentionSpec /\ []NoOverlap => []BatchesAgree
  BY InitRInv, NextRInv, RetentionInitHands, RetentionHands, InitBatchesAgree, NextBatchesAgree, PTL
  DEF RetentionSpec, allVars

(* A pass that ends by itself has deleted all that had expired. *)
THEOREM PassFinishesSafe == RetentionSpec /\ []NoOverlap => PassFinishes
  <1>1. RInv /\ BatchesAgree =>
          [prune = "sessions" /\ PruneSessions /\ prune' = "wait" =>
             Expired \cap DOMAIN sessions' = {}]_allVars
    <2> SUFFICES ASSUME RInv, BatchesAgree, prune = "sessions", PruneSessions, prune' = "wait"
                 PROVE  Expired \cap DOMAIN sessions' = {}
      OBVIOUS
    <2>1. ~Referenced(Selected)
      BY DEF BatchesAgree
    <2>2. Cardinality(Selected) < Batch
      BY <2>1 DEF PruneSessions
    <2>3. Selected = Expired
      BY <2>2, SelectedExpired
    <2> QED
      BY <2>1, <2>3 DEF PruneSessions
  <1> QED
    BY <1>1, InitRInv, NextRInv, RetentionInitHands, RetentionHands, InitBatchesAgree,
       NextBatchesAgree, PTL
    DEF RetentionSpec, PassFinishes, allVars

-----------------------------------------------------------------------------
(* The ledger, with rows deleted under way.                                *)

LEMMA PruneLedger ==
    ASSUME RInv, LedgerInv, Prune
    PROVE  RowsOK' /\ Finite' /\ ClaimsOK'
  <1> USE DEF LedgerInv
  <1>1. /\ UNCHANGED <<live, carried, pc, open, snap, todo, cur, newId, usage>>
        /\ UNCHANGED <<errors, clears, misreads>>
        /\ DOMAIN sessions' \subseteq DOMAIN sessions
        /\ \A id \in DOMAIN sessions' : sessions'[id] = sessions[id]
    BY PruneDeletes DEF deviceVars, pollerVars, countVars
  <1>2. OpenIds' = OpenIds /\ \A id \in OpenIds : sessions'[id] = sessions[id]
    BY <1>1, PruneKeepsOpen DEF OpenIds
  <1>3. RowsOK'
    <2> SUFFICES ASSUME Quiet, NEW p \in Slots PROVE RowsMatchFor(p)'
      BY <1>1 DEF RowsOK, RowsMatch, Quiet
    <2>1. /\ \A k \in DOMAIN open[p] : open[p][k].id \in OpenIds
          /\ pc[p] \in Inserting => newId[p] \in OpenIds
      BY HandsTrue DEF Quiet
    <2>2. RowsMatchFor(p)
      BY DEF RowsOK, RowsMatch
    <2> QED
      BY <1>1, <1>2, <2>1, <2>2 DEF RowsMatchFor, RowBytesOf
  <1>4. Finite'
    BY <1>1 DEF Finite
  <1>5. ASSUME NEW s \in Services
        PROVE  BytesRolledUp(s)' = BytesRolledUp(s) /\ UnreadBytes(s)' = UnreadBytes(s)
    <2>1. ASSUME NEW k \in DOMAIN live
          PROVE  UnreadOf(k)' = UnreadOf(k)
      <3>1. /\ RowsOfKey(k)' = RowsOfKey(k)
            /\ \A id \in RowsOfKey(k) : sessions'[id].bytes = sessions[id].bytes
        BY <1>2 DEF RowsOfKey
      <3>2. RowBytes(k)' = RowBytes(k)
        BY <3>1, RowBytesSame
      <3> QED
        BY <1>1, <3>2 DEF UnreadOf
    <2> QED
      BY <1>1, <2>1, RollupSame, UnreadSame
  <1>6. \A p \in Slots : Pending(p)' = Pending(p)
    BY <1>1 DEF Pending, Delta
  <1>7. ClaimsOK'
    BY <1>1, <1>5, <1>6 DEF ClaimsOK, Quiet, Synced, Claims
  <1> QED
    BY <1>3, <1>4, <1>7

LEMMA RetentionLedger ==
    RInv /\ LedgerInv /\ NoOverlap /\ [RetentionNext]_allVars => LedgerInv'
  <1> SUFFICES ASSUME RInv, LedgerInv, NoOverlap, [RetentionNext]_allVars PROVE LedgerInv'
    OBVIOUS
  <1>1. CASE [Next]_vars
    BY <1>1, NextLedgerInv
  <1>2. CASE Prune
    BY <1>2, PruneIInv, RetentionHands, RetentionWhole, RetentionHandsKept, PruneLedger DEF LedgerInv
  <1> QED
    BY <1>1, <1>2, NextOrPrune

LEMMA RetentionInitLedger == RetentionInit => LedgerInv
  BY InitLedgerInv DEF RetentionInit

(* The bound on the permanent rollup holds with sessions dropped under way,
   under the conditions of NeverOvercountsSafe. *)
THEOREM RetentionNeverOvercounts ==
    RetentionSpec /\ []NoOverlap => [](errors = 0 /\ clears = 0 => NeverOvercounts)
  BY InitRInv, NextRInv, RetentionInitLedger, RetentionLedger, LedgerBound, PTL
  DEF RetentionSpec, allVars

-----------------------------------------------------------------------------
(* What a reader sees.                                                     *)

(* A step that shows nothing. *)
LEMMA ShowsNothing ==
    ASSUME DOMAIN sessions' = DOMAIN sessions,
           \A id \in DOMAIN sessions :
             sessions'[id].key = sessions[id].key /\ sessions'[id].closed = sessions[id].closed,
           UNCHANGED <<nextId, usage, carried, misreads>>
    PROVE  UNCHANGED DisturbedHistory!vars
  BY DEF DisturbedHistory!vars

LEMMA StoreKeptShowsNothing ==
    ASSUME UNCHANGED <<sessions, nextId, usage, carried, misreads>>
    PROVE  UNCHANGED DisturbedHistory!vars
  BY ShowsNothing

LEMMA DeviceShows ==
    ASSUME IInv, Device
    PROVE  DisturbedHistory!Next \/ UNCHANGED DisturbedHistory!vars
  <1>1. PICK key \in Keys :
          \/ FlowStarts(key) \/ FlowCarries(key) \/ FlowReclassified(key)
          \/ CounterResets(key) \/ FlowEnds(key)
    BY DEF Device
  <1>2. UNCHANGED <<sessions, nextId, usage, misreads>>
    BY <1>1 DEF FlowStarts, FlowCarries, FlowReclassified, CounterResets, FlowEnds, DeviceStep,
                storeVars, countVars
  <1>3. CASE FlowStarts(key) \/ FlowCarries(key)
    <2>1. Carry(key)
      BY <1>3 DEF FlowStarts, FlowCarries
    <2>2. PICK s \in Services : carried' = [carried EXCEPT ![s] = carried[s] + 1]
      BY <2>1 DEF Carry, Services
    <2>3. DisturbedHistory!Carry
      BY <1>2, <2>2 DEF DisturbedHistory!Carry
    <2> QED
      BY <2>3 DEF DisturbedHistory!Next
  <1>4. CASE FlowReclassified(key) \/ CounterResets(key) \/ FlowEnds(key)
    <2>1. UNCHANGED carried
      BY <1>4 DEF FlowReclassified, CounterResets, FlowEnds
    <2> QED
      BY <1>2, <2>1, StoreKeptShowsNothing
  <1> QED
    BY <1>1, <1>3, <1>4

(* INSERT INTO flow_sessions opens a session. *)
LEMMA InsertShows ==
    ASSUME IInv, NEW key \in Keys, NEW flow, InsertSession(key, flow),
           UNCHANGED <<carried, misreads>>
    PROVE  DisturbedHistory!Next
  <1>1. nextId \notin DOMAIN sessions /\ nextId \in Nat
    BY HandsAreOurs DEF IInv, TypeOK, StoreTypeOK
  <1>2. /\ DOMAIN sessions' = DOMAIN sessions \cup {nextId}
        /\ sessions'[nextId].key = key /\ sessions'[nextId].closed = FALSE
        /\ \A id \in DOMAIN sessions : sessions'[id] = sessions[id]
        /\ nextId' = nextId + 1 /\ UNCHANGED usage
    BY <1>1 DEF InsertSession
  <1>3. nextId' - 1 = nextId /\ (nextId - 1) + 1 = nextId
    BY <1>1, <1>2
  <1>4. DisturbedHistory!Open(key)
    BY <1>1, <1>2, <1>3 DEF DisturbedHistory!Open
  <1> QED
    BY <1>4 DEF DisturbedHistory!Next

(* Closing a row that is there ends a session. *)
LEMMA CloseShows ==
    ASSUME IInv, NEW id, CloseSession(id), UNCHANGED <<carried, misreads>>
    PROVE  DisturbedHistory!Next \/ UNCHANGED DisturbedHistory!vars
  <1>1. CASE id \in DOMAIN sessions
    <2>1. /\ DOMAIN sessions' = DOMAIN sessions
          /\ sessions'[id].key = sessions[id].key /\ sessions'[id].closed = TRUE
          /\ \A i \in DOMAIN sessions \ {id} : sessions'[i] = sessions[i]
          /\ UNCHANGED <<nextId, usage>>
      BY <1>1 DEF CloseSession, IInv, TypeOK, StoreTypeOK, SessionRow
    <2>2. DisturbedHistory!Close(id)
      BY <1>1, <2>1 DEF DisturbedHistory!Close
    <2> QED
      BY <1>1, <2>2 DEF DisturbedHistory!Next
  <1>2. CASE id \notin DOMAIN sessions
    <2>1. UNCHANGED <<sessions, nextId, usage>>
      BY <1>2 DEF CloseSession
    <2> QED
      BY <2>1, StoreKeptShowsNothing
  <1> QED
    BY <1>1, <1>2

(* The upsert of a bucket counts bytes. *)
LEMMA BumpShows ==
    ASSUME IInv, NEW key \in Keys, NEW app \in Apps, NEW delta \in Nat, NEW isNew \in BOOLEAN,
           BumpPortUsage(key, app, delta, isNew), UNCHANGED <<carried, misreads>>
    PROVE  DisturbedHistory!Next
  <1>1. PICK b \in Buckets : b = Bucket(key, app)
    BY DEF Bucket, Buckets, Services
  <1>2. /\ DOMAIN usage' = DOMAIN usage \cup {b}
        /\ \A x \in DOMAIN usage \ {b} : usage'[x] = usage[x]
        /\ usage'[b].bytes = (IF b \in DOMAIN usage THEN usage[b].bytes ELSE 0) + delta
        /\ UNCHANGED <<sessions, nextId>>
    BY <1>1 DEF BumpPortUsage, Bumped, NewBucket
  <1>3. b \in DOMAIN usage => usage[b].bytes \in Nat
    BY DEF IInv, TypeOK, StoreTypeOK, UsageRow
  <1>4. DisturbedHistory!Count(b)
    BY <1>2, <1>3 DEF DisturbedHistory!Count
  <1> QED
    BY <1>4 DEF DisturbedHistory!Next

LEMMA PollerShows ==
    ASSUME IInv, NEW p \in Slots, Poller(p)
    PROVE  DisturbedHistory!Next \/ UNCHANGED DisturbedHistory!vars
  <1> USE DEF IInv, TypeOK
  <1>1. UNCHANGED carried /\ (PollMisreads(p) \/ UNCHANGED misreads)
    BY DEF Poller, LoadOpenSessions, PollSucceeds, PollMisreads, PollFails, ApplyNewFlow,
           StartSample, BumpNewSession, TrackSession, ApplyKnownFlow, BumpKnownSession,
           SampleAndSettle, BeginClosing, CloseMissing, EndPoll, TickerFires, RunReturns,
           PollerFrame, AnyPollerFrame, deviceVars
  <1>2. StoreFails => UNCHANGED <<sessions, nextId, usage>>
    BY DEF StoreFails, storeVars
  <1>3. CASE PollMisreads(p)
    <2>1. misreads \in Nat /\ misreads' = misreads + 1
      BY <1>3 DEF PollMisreads, Typed
    <2>2. UNCHANGED <<sessions, nextId, usage>>
      BY <1>3 DEF PollMisreads, storeVars
    <2>3. (misreads' = 0) = FALSE
      BY <2>1
    <2>4. DisturbedHistory!Misread
      BY <1>1, <2>2, <2>3 DEF DisturbedHistory!Misread
    <2> QED
      BY <2>4 DEF DisturbedHistory!Next
  <1>4. CASE /\ ~PollMisreads(p)
             /\ \/ LoadOpenSessions(p) \/ PollSucceeds(p) \/ PollFails(p) \/ StartSample(p)
                \/ TrackSession(p) \/ SampleAndSettle(p) \/ BeginClosing(p) \/ EndPoll(p)
                \/ TickerFires(p) \/ RunReturns(p)
    <2>1. UNCHANGED <<sessions, nextId, usage>>
      BY <1>2, <1>4 DEF LoadOpenSessions, PollSucceeds, PollFails, StartSample, TrackSession,
              SampleAndSettle, BeginClosing, EndPoll, TickerFires, RunReturns, InsertSample, storeVars
    <2> QED
      BY <1>1, <1>4, <2>1, StoreKeptShowsNothing
  <1>5. CASE ~PollMisreads(p) /\ ApplyNewFlow(p)
    <2>1. CASE StoreFails
      BY <1>1, <1>2, <1>5, <2>1, StoreKeptShowsNothing
    <2>2. CASE ~StoreFails
      <3>1. PICK key \in todo[p] : InsertSession(key, snap[p][key])
        BY <1>5, <2>2 DEF ApplyNewFlow
      <3>2. key \in Keys
        BY <3>1 DEF Typed
      <3> QED
        BY <1>1, <1>5, <3>1, <3>2, InsertShows
    <2> QED
      BY <2>1, <2>2
  <1>6. CASE ~PollMisreads(p) /\ ApplyKnownFlow(p)
    <2>1. CASE StoreFails
      BY <1>1, <1>2, <1>6, <2>1, StoreKeptShowsNothing
    <2>2. CASE ~StoreFails
      <3>1. PICK written : \E flow : UpdateSession(written, flow)
        BY <1>6, <2>2 DEF ApplyKnownFlow
      <3>2. /\ DOMAIN sessions' = DOMAIN sessions /\ UNCHANGED <<nextId, usage>>
            /\ \A id \in DOMAIN sessions : /\ sessions'[id].key = sessions[id].key
                                           /\ sessions'[id].closed = sessions[id].closed
        BY <3>1 DEF UpdateSession, StoreTypeOK, SessionRow
      <3> QED
        BY <1>1, <1>6, <3>2, ShowsNothing
    <2> QED
      BY <2>1, <2>2
  <1>7. CASE ~PollMisreads(p) /\ (BumpNewSession(p) \/ BumpKnownSession(p))
    <2>1. CASE StoreFails
      BY <1>1, <1>2, <1>7, <2>1, StoreKeptShowsNothing
    <2>2. CASE ~StoreFails
      <3>1. pc[p] \in {"bumpNew", "bump"}
        BY <1>7 DEF BumpNewSession, BumpKnownSession
      <3>2. PICK key \in Keys, app \in Apps, listed \in Nat :
              key = cur[p] /\ app = snap[p][cur[p]].app /\ listed = snap[p][cur[p]].bytes
        BY <3>1 DEF LocalsOK, Typed, Flow
      <3>3. CASE BumpNewSession(p)
        <4>1. BumpPortUsage(key, app, listed, TRUE)
          BY <2>2, <3>2, <3>3, Zenon DEF BumpNewSession
        <4> QED
          BY <1>1, <1>7, <4>1, BumpShows
      <3>4. CASE BumpKnownSession(p)
        <4>1. PICK delta \in Nat : delta = Delta(p)
          BY <3>4, DeltaType DEF BumpKnownSession
        <4>2. BumpPortUsage(key, app, delta, FALSE)
          BY <2>2, <3>2, <3>4, <4>1, Zenon DEF BumpKnownSession
        <4> QED
          BY <1>1, <1>7, <4>2, BumpShows
      <3> QED
        BY <1>7, <3>3, <3>4
    <2> QED
      BY <2>1, <2>2
  <1>8. CASE ~PollMisreads(p) /\ CloseMissing(p)
    <2>1. CASE StoreFails
      BY <1>1, <1>2, <1>8, <2>1, StoreKeptShowsNothing
    <2>2. CASE ~StoreFails
      <3>1. PICK id : CloseSession(id)
        BY <1>8, <2>2 DEF CloseMissing
      <3> QED
        BY <1>1, <1>8, <3>1, CloseShows
    <2> QED
      BY <2>1, <2>2
  <1> QED
    BY <1>3, <1>4, <1>5, <1>6, <1>7, <1>8 DEF Poller

LEMMA OthersShow ==
    ASSUME Manager \/ Crash \/ UNCHANGED vars
    PROVE  DisturbedHistory!Next \/ UNCHANGED DisturbedHistory!vars
  <1>1. UNCHANGED <<carried, misreads>>
    BY DEF Manager, StartPoller, StopPoller, ClearHistory, RestartAll, Crash, ManagerFrame,
           deviceVars, countVars, vars
  <1>2. CASE ClearHistory
    <2>1. DOMAIN sessions' = {} /\ DOMAIN usage' = {} /\ UNCHANGED nextId
      BY <1>2 DEF ClearHistory, ClearAllHistory
    <2>2. DisturbedHistory!Forget
      BY <1>1, <2>1 DEF DisturbedHistory!Forget
    <2> QED
      BY <2>2 DEF DisturbedHistory!Next
  <1>3. CASE ~ClearHistory
    <2>1. UNCHANGED <<sessions, nextId, usage>>
      BY <1>3 DEF Manager, StartPoller, StopPoller, RestartAll, Crash, storeVars, vars
    <2> QED
      BY <1>1, <2>1, StoreKeptShowsNothing
  <1> QED
    BY <1>2, <1>3

(* A batch that is deleted expires. *)
LEMMA PruneShows ==
    ASSUME RInv, Prune
    PROVE  DisturbedHistory!Next
  <1>1. /\ UNCHANGED <<carried, misreads, nextId, usage>>
        /\ DOMAIN sessions' \subseteq DOMAIN sessions
        /\ DOMAIN sessions \ DOMAIN sessions' \subseteq Expired
        /\ \A id \in DOMAIN sessions' : sessions'[id] = sessions[id]
    BY PruneDeletes DEF deviceVars, countVars
  <1>2. PICK ids \in SUBSET DOMAIN sessions : ids = DOMAIN sessions \ DOMAIN sessions'
    OBVIOUS
  <1>3. ids \cap OpenIds = {}
    BY <1>1, <1>2 DEF Expired
  <1>4. DisturbedHistory!Expire(ids)
    BY <1>1, <1>2, <1>3 DEF DisturbedHistory!Expire, DisturbedHistory!OpenRows, OpenIds
  <1> QED
    BY <1>4 DEF DisturbedHistory!Next

LEMMA EveryStepShows ==
    RInv /\ [RetentionNext]_allVars => [DisturbedHistory!Next]_(DisturbedHistory!vars)
  <1> SUFFICES ASSUME RInv, [RetentionNext]_allVars
               PROVE  DisturbedHistory!Next \/ UNCHANGED DisturbedHistory!vars
    OBVIOUS
  <1>1. CASE Prune
    BY <1>1, PruneShows
  <1>2. CASE [Next]_vars
    BY <1>2, DeviceShows, PollerShows, OthersShow DEF Next, RInv
  <1> QED
    BY <1>1, <1>2, NextOrPrune

LEMMA InitShows ==
    RetentionInit => DisturbedHistory!Init
  BY DEF RetentionInit, Init, StoreInit, DisturbedHistory!Init

(* Whatever overlaps, fails, is misread or is cleared, a reader of the
   database sees sessions that open under new ids, close and expire closed,
   and a rollup that only grows until it is cleared with them. *)
THEOREM DisturbedHistoryShown == RetentionSpec => ImplementsDisturbedHistory
  BY InitRInv, NextRInv, InitShows, EveryStepShows, PTL
  DEF RetentionSpec, allVars, ImplementsDisturbedHistory, DisturbedHistory!Spec

(* An instance has a sum operator of its own. *)
LEMMA SumsAgree ==
    \A fun, S : History!SumFunctionOnSet(fun, S) = SumFunctionOnSet(fun, S)
  BY Zenon DEF SumFunctionOnSet, FoldFunctionOnSet, MapThenFoldSet,
        History!SumFunctionOnSet, History!FoldFunctionOnSet, History!MapThenFoldSet

(* A step of the disturbed history that ends with one open row for a flow at
   most, and with a rollup that claims no more than was carried, is a step of
   the undisturbed one. *)
LEMMA UndisturbedStep ==
    ASSUME IInv, OneOpenRow', NeverOvercounts', DisturbedHistory!Next
    PROVE  History!Next
  <1>1. CASE DisturbedHistory!Carry
    BY <1>1 DEF DisturbedHistory!Carry, History!Carry, History!Next
  <1>2. CASE DisturbedHistory!Misread
    BY <1>2 DEF DisturbedHistory!Misread, History!Misread, History!Next
  <1>3. CASE DisturbedHistory!Forget
    BY <1>3 DEF DisturbedHistory!Forget, History!Forget, History!Next
  <1>4. ASSUME NEW key \in Keys, DisturbedHistory!Open(key)
        PROVE  History!Next
    <2> DEFINE rows == [id \in DOMAIN sessions |->
                          [key |-> sessions[id].key, closed |-> sessions[id].closed]]
               new == [key |-> key, closed |-> FALSE]
    <2>1. nextId \notin DOMAIN sessions /\ nextId \in Nat
      BY HandsAreOurs DEF IInv, TypeOK, StoreTypeOK
    <2>2. /\ nextId' - 1 = (nextId - 1) + 1
          /\ rows' = [id \in DOMAIN rows \cup {nextId' - 1} |->
                        IF id = nextId' - 1 THEN new ELSE rows[id]]
      BY <1>4 DEF DisturbedHistory!Open
    <2>3. nextId' - 1 = nextId
      BY <2>1, <2>2
    <2>4. DOMAIN sessions' = DOMAIN sessions \cup {nextId}
      BY <2>2, <2>3
    <2>5. rows'[nextId] = new /\ \A id \in DOMAIN sessions : rows'[id] = rows[id]
      BY <2>1, <2>2, <2>3
    <2>6. /\ sessions'[nextId].key = key /\ ~sessions'[nextId].closed
          /\ \A id \in DOMAIN sessions : /\ sessions'[id].key = sessions[id].key
                                         /\ sessions'[id].closed = sessions[id].closed
      BY <2>4, <2>5
    <2>7. \A id \in OpenIds : sessions[id].key # key
      BY <2>1, <2>4, <2>6 DEF OneOpenRow, OpenIds
    <2>8. \A id \in History!OpenRows : rows[id].key # key
      BY <2>7 DEF History!OpenRows, OpenIds
    <2>9. History!Open(key)
      BY <1>4, <2>8 DEF DisturbedHistory!Open, History!Open
    <2> QED
      BY <2>9 DEF History!Next
  <1>5. ASSUME NEW id \in DOMAIN sessions, DisturbedHistory!Close(id)
        PROVE  History!Next
    <2>1. History!Close(id)
      BY <1>5 DEF DisturbedHistory!Close, History!Close
    <2> QED
      BY <2>1 DEF History!Next
  <1>6. ASSUME NEW b \in Buckets, DisturbedHistory!Count(b)
        PROVE  History!Next
    <2>1. UNCHANGED carried /\ (misreads' = 0) = (misreads = 0)
      BY <1>6 DEF DisturbedHistory!Count
    <2>2. ASSUME NEW s \in Services
          PROVE  History!Total(s)' = BytesRolledUp(s)'
      <3> DEFINE shown == [x \in DOMAIN usage |-> usage[x].bytes]
                 S == {x \in DOMAIN shown : x.service = s}
      <3>1. History!Total(s)' = SumFunctionOnSet(shown', S')
        BY SumsAgree, Zenon DEF History!Total
      <3>2. BytesRolledUp(s)' = SumFunctionOnSet(shown', BucketsOf(s)')
        BY Zenon DEF BytesRolledUp
      <3>3. S' = BucketsOf(s)'
        BY DEF BucketsOf
      <3> QED
        BY <3>1, <3>2, <3>3, Zenon
    <2>3. misreads = 0 => \A s \in Services : History!Total(s)' <= carried[s]
      BY <2>1, <2>2 DEF NeverOvercounts
    <2>4. History!Count(b)
      BY <1>6, <2>3 DEF DisturbedHistory!Count, History!Count
    <2> QED
      BY <2>4 DEF History!Next
  <1>7. ASSUME NEW ids \in SUBSET DOMAIN sessions, DisturbedHistory!Expire(ids)
        PROVE  History!Next
    <2>1. History!Expire(ids)
      BY <1>7 DEF DisturbedHistory!Expire, DisturbedHistory!OpenRows, History!Expire, History!OpenRows
    <2> QED
      BY <2>1 DEF History!Next
  <1>8. DOMAIN [id \in DOMAIN sessions |->
                  [key |-> sessions[id].key, closed |-> sessions[id].closed]] = DOMAIN sessions
    OBVIOUS
  <1> QED
    BY <1>1, <1>2, <1>3, <1>4, <1>5, <1>6, <1>7, <1>8 DEF DisturbedHistory!Next

Undisturbed == errors = 0 /\ clears = 0

LEMMA UndisturbedShows ==
    RInv /\ LedgerInv /\ LedgerInv' /\ Undisturbed' /\ [RetentionNext]_allVars =>
      [History!Next]_(History!vars)
  <1> SUFFICES ASSUME RInv, LedgerInv, LedgerInv', Undisturbed', [RetentionNext]_allVars
               PROVE  History!Next \/ UNCHANGED History!vars
    OBVIOUS
  <1>1. CASE UNCHANGED DisturbedHistory!vars
    BY <1>1 DEF DisturbedHistory!vars, History!vars
  <1>2. CASE DisturbedHistory!Next
    <2>1. OneOpenRow'
      BY DEF LedgerInv, Whole, Undisturbed
    <2>2. LedgerInv' => (errors = 0 /\ clears = 0 => NeverOvercounts)'
      BY LedgerBound, PTL
    <2>3. NeverOvercounts'
      BY <2>2 DEF Undisturbed
    <2> QED
      BY <1>2, <2>1, <2>3, UndisturbedStep DEF RInv
  <1> QED
    BY <1>1, <1>2, EveryStepShows

LEMMA UndisturbedInit == RetentionInit => History!Init
  BY DEF RetentionInit, Init, StoreInit, History!Init

(* The refinement: pollers, store and retention show a reader the history
   that FlowHistory specifies, across every crash, restart, misread listing and
   failed deletion, as long as pollers take turns, their store calls succeed
   and the history is not cleared. *)
THEOREM HistoryImplemented ==
    RetentionSpec /\ []NoOverlap /\ []Undisturbed => ImplementsHistory
  BY InitRInv, NextRInv, RetentionInitLedger, RetentionLedger, UndisturbedInit, UndisturbedShows,
     PTL
  DEF RetentionSpec, allVars, ImplementsHistory, History!Spec

-----------------------------------------------------------------------------
(* Before the Settings page intervenes.                                    *)

RetentionCalmInv == RInv /\ Sole /\ (Calm => LedgerInv /\ BatchesAgree)

LEMMA InitRetentionCalm == RetentionInit => RetentionCalmInv
  BY InitRInv, InitSole, RetentionInitLedger, InitBatchesAgree DEF RetentionCalmInv, RetentionInit

LEMMA NextRetentionCalm ==
    RetentionCalmInv /\ [RetentionNext]_allVars => RetentionCalmInv'
  <1> SUFFICES ASSUME RetentionCalmInv, [RetentionNext]_allVars PROVE RetentionCalmInv'
    OBVIOUS
  <1> USE DEF RetentionCalmInv
  <1>1. RInv'
    BY NextRInv
  <1>2. Sole' /\ (Calm' => Calm)
    <2>1. CASE [Next]_vars
      BY <2>1, NextSole, CalmStays DEF RInv
    <2>2. CASE Prune
      BY <2>2, PruneDeletes DEF Sole, Calm, pollerVars, managerVars, countVars
    <2> QED
      BY <2>1, <2>2, NextOrPrune
  <1>3. ASSUME Calm'
        PROVE  LedgerInv' /\ BatchesAgree'
    <2>1. NoOverlap /\ LedgerInv /\ BatchesAgree
      BY <1>2, <1>3 DEF Calm, Sole, NoOverlap
    <2>2. HandsOpen
      BY <2>1 DEF LedgerInv
    <2> QED
      BY <2>1, <2>2, RetentionLedger, NextBatchesAgree
  <1> QED
    BY <1>1, <1>2, <1>3

LEMMA RetentionCalmHolds ==
    RetentionCalmInv /\ Calm => NoOverlap /\ TrackedIsOpen /\ TrackedIsKept /\ BatchesAgree
  <1> SUFFICES ASSUME RetentionCalmInv, Calm
               PROVE  NoOverlap /\ TrackedIsOpen /\ TrackedIsKept /\ BatchesAgree
    OBVIOUS
  <1>1. NoOverlap
    BY DEF RetentionCalmInv, Sole, Calm, NoOverlap
  <1>2. TrackedIsOpen
    BY HandsAreTracked DEF RetentionCalmInv, LedgerInv
  <1>3. TrackedIsKept
    BY DEF RetentionCalmInv, LedgerInv, HandsKept, TrackedIsKept, InHand, Inserting
  <1> QED
    BY <1>1, <1>2, <1>3 DEF RetentionCalmInv

(* With retention at work beside the pollers, and until the Settings page
   first stops a poller or clears the history, whatever crashes, fails and is
   misread: a poller's rows are open and kept, and no sample stops a batch. *)
THEOREM RetentionCalmSafe ==
    RetentionSpec => [](Calm => TrackedIsOpen /\ TrackedIsKept /\ BatchesAgree)
  BY InitRetentionCalm, NextRetentionCalm, RetentionCalmHolds, PTL DEF RetentionSpec, allVars

(* The refinement, for a run in which the Settings page stops no poller and
   clears nothing and the store calls of the pollers succeed. *)
THEOREM CalmHistoryImplemented ==
    RetentionSpec /\ [](Calm /\ errors = 0) => ImplementsHistory
  <1>1. Calm /\ errors = 0 => Undisturbed
    BY DEF Calm, Undisturbed
  <1> QED
    BY <1>1, InitRetentionCalm, NextRetentionCalm, RetentionCalmHolds, HistoryImplemented, PTL
    DEF RetentionSpec, allVars
=============================================================================
