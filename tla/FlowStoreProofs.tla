--------------------------- MODULE FlowStoreProofs ---------------------------
(***************************************************************************)
(* What a finite sum is, and what the statements of FlowStore keep: the    *)
(* types of the tables, and the identity of the rows.                      *)
(***************************************************************************)
EXTENDS FlowStore, FiniteSetsExt, FiniteSetTheorems, TLAPS

-----------------------------------------------------------------------------
(* Sums over finite sets.                                                  *)

(* Induction over the subsets of a finite set, stated with a set of them. *)
LEMMA SubsetInduction ==
    ASSUME NEW S, IsFiniteSet(S), NEW Good,
           \A T \in SUBSET S : (\A U \in SUBSET T : U # T => U \in Good) => T \in Good
    PROVE  \A T \in SUBSET S : T \in Good
  <1> DEFINE Bad == {T \in SUBSET S : T \notin Good}
  <1>1. SUFFICES ASSUME Bad # {} PROVE FALSE
    OBVIOUS
  <1>2. IsWellFoundedOn(StrictSubsetOrdering(S), SUBSET S)
    BY FS_StrictSubsetOrderingWellFounded, FS_FiniteSubsetsOfFinite
  <1>3. PICK T \in Bad : \A U \in Bad : <<U, T>> \notin StrictSubsetOrdering(S)
    <2>1. Bad \subseteq SUBSET S
      OBVIOUS
    <2> HIDE DEF Bad
    <2> QED
      BY <1>1, <1>2, <2>1, WFMin
  <1>4. \A U \in SUBSET T : U # T => U \in Good
    BY <1>3 DEF StrictSubsetOrdering
  <1> QED
    BY <1>3, <1>4

(* g is the function that a sum of fun over S recurs through. *)
Element(s) == CHOOSE x \in s : TRUE
Summation(fun, S, g) ==
    g = [s \in SUBSET S |-> IF s = {} THEN 0 ELSE fun[Element(s)] + g[s \ {Element(s)}]]

LEMMA SumIsChosen ==
    ASSUME NEW fun, NEW S
    PROVE  SumFunctionOnSet(fun, S) = (CHOOSE g : Summation(fun, S, g))[S]
  BY DEF SumFunctionOnSet, FoldFunctionOnSet, MapThenFoldSet, Summation, Element

LEMMA SummationUnique ==
    ASSUME NEW fun, NEW S, IsFiniteSet(S), NEW R, NEW g, NEW h,
           Summation(fun, S, g), Summation(fun, R, h)
    PROVE  \A T \in SUBSET S : T \subseteq R => g[T] = h[T]
  <1> DEFINE Good == {T \in SUBSET S : T \subseteq R => g[T] = h[T]}
  <1>1. ASSUME NEW T \in SUBSET S, \A U \in SUBSET T : U # T => U \in Good
        PROVE  T \in Good
    <2> SUFFICES ASSUME T \subseteq R PROVE g[T] = h[T]
      OBVIOUS
    <2>1. g[T] = IF T = {} THEN 0 ELSE fun[Element(T)] + g[T \ {Element(T)}]
      BY Zenon DEF Summation
    <2>2. h[T] = IF T = {} THEN 0 ELSE fun[Element(T)] + h[T \ {Element(T)}]
      BY Zenon DEF Summation
    <2>3. CASE T = {}
      BY <2>1, <2>2, <2>3
    <2>4. CASE T # {}
      <3>1. Element(T) \in T
        BY <2>4 DEF Element
      <3>2. g[T \ {Element(T)}] = h[T \ {Element(T)}]
        BY <1>1, <3>1
      <3> QED
        BY <2>1, <2>2, <2>4, <3>2, Zenon
    <2> QED
      BY <2>3, <2>4
  <1>2. \A T \in SUBSET S : T \in Good
    <2> HIDE DEF Good
    <2> QED
      BY <1>1, SubsetInduction
  <1> QED
    BY <1>2

LEMMA SummationExists ==
    ASSUME NEW fun, NEW S, IsFiniteSet(S)
    PROVE  \E g : Summation(fun, S, g)
  <1> DEFINE Good == {T \in SUBSET S : \E g : Summation(fun, T, g)}
             chosen(T) == CHOOSE g : Summation(fun, T, g)
             total(T) == chosen(T)[T]
             step(T) == IF T = {} THEN 0 ELSE fun[Element(T)] + total(T \ {Element(T)})
  <1>1. ASSUME NEW T \in SUBSET S, \A U \in SUBSET T : U # T => U \in Good
        PROVE  T \in Good
    <2> DEFINE g == [s \in SUBSET T |-> step(s)]
    <2>1. ASSUME NEW U \in SUBSET T, U # T
          PROVE  step(U) = total(U)
      <3>1. Summation(fun, U, chosen(U))
        BY <1>1, <2>1
      <3>2. chosen(U)[U] = IF U = {} THEN 0 ELSE fun[Element(U)] + chosen(U)[U \ {Element(U)}]
        <4> HIDE DEF chosen
        <4> QED
          BY <3>1, Zenon DEF Summation
      <3>3. CASE U = {}
        BY <3>2, <3>3
      <3>4. CASE U # {}
        <4> DEFINE V == U \ {Element(U)}
        <4>1. Element(U) \in U
          BY <3>4 DEF Element
        <4>2. V \in SUBSET T /\ V # T /\ V \subseteq U /\ V \in SUBSET S
          BY <4>1
        <4>3. Summation(fun, V, chosen(V))
          BY <1>1, <4>2
        <4>4. IsFiniteSet(V)
          BY <4>2, FS_Subset
        <4>5. chosen(U)[V] = chosen(V)[V]
          <5> HIDE DEF chosen, V
          <5> QED
            BY <3>1, <4>2, <4>3, <4>4, SummationUnique
        <4> QED
          BY <3>2, <3>4, <4>5
      <3> QED
        BY <3>3, <3>4
    <2>2. ASSUME NEW s \in SUBSET T
          PROVE  g[s] = IF s = {} THEN 0 ELSE fun[Element(s)] + g[s \ {Element(s)}]
      <3>1. CASE s = {}
        BY <3>1
      <3>2. CASE s # {}
        <4>1. Element(s) \in s
          BY <3>2 DEF Element
        <4> DEFINE V == s \ {Element(s)}
        <4>2. V \in SUBSET T /\ V # T
          BY <4>1
        <4>3. g[V] = total(V)
          BY <2>1, <4>2
        <4> QED
          BY <3>2, <4>3
      <3> QED
        BY <3>1, <3>2
    <2>3. Summation(fun, T, g)
      <3>1. g = [s \in SUBSET T |-> g[s]]
        OBVIOUS
      <3> HIDE DEF g
      <3> QED
        BY <2>2, <3>1, Zenon DEF Summation
    <2> QED
      BY <2>3
  <1>2. \A T \in SUBSET S : T \in Good
    <2> HIDE DEF Good
    <2> QED
      BY <1>1, SubsetInduction
  <1> QED
    BY <1>2

LEMMA SumRecurs ==
    ASSUME NEW fun, NEW S, IsFiniteSet(S), S # {}
    PROVE  /\ Element(S) \in S
           /\ SumFunctionOnSet(fun, S) = fun[Element(S)] + SumFunctionOnSet(fun, S \ {Element(S)})
  <1> DEFINE R == S \ {Element(S)}
             g == CHOOSE f : Summation(fun, S, f)
             h == CHOOSE f : Summation(fun, R, f)
  <1>1. Element(S) \in S
    BY DEF Element
  <1>2. Summation(fun, S, g)
    BY SummationExists
  <1>3. IsFiniteSet(R) /\ R \subseteq S
    BY FS_Subset
  <1>4. Summation(fun, R, h)
    BY <1>3, SummationExists
  <1>5. SumFunctionOnSet(fun, S) = g[S] /\ SumFunctionOnSet(fun, R) = h[R]
    BY SumIsChosen
  <1> HIDE DEF g, h
  <1>6. g[S] = fun[Element(S)] + g[R]
    BY <1>2, Zenon DEF Summation
  <1>7. g[R] = h[R]
    <2> HIDE DEF R
    <2> QED
      BY <1>2, <1>3, <1>4, SummationUnique
  <1> QED
    BY <1>1, <1>5, <1>6, <1>7

LEMMA SumEmpty ==
    ASSUME NEW fun PROVE SumFunctionOnSet(fun, {}) = 0
  <1> DEFINE g == CHOOSE f : Summation(fun, {}, f)
  <1>1. Summation(fun, {}, g)
    BY SummationExists, FS_EmptySet
  <1>2. SumFunctionOnSet(fun, {}) = g[{}]
    BY SumIsChosen
  <1> HIDE DEF g
  <1>3. {} \in SUBSET {}
    OBVIOUS
  <1>4. g[{}] = 0
    BY <1>1, <1>3, Zenon DEF Summation
  <1> QED
    BY <1>2, <1>4

LEMMA SumType ==
    ASSUME NEW fun, NEW S, IsFiniteSet(S), \A x \in S : fun[x] \in Int
    PROVE  SumFunctionOnSet(fun, S) \in Int
  <1> DEFINE Good == {T \in SUBSET S : SumFunctionOnSet(fun, T) \in Int}
  <1>1. ASSUME NEW T \in SUBSET S, \A U \in SUBSET T : U # T => U \in Good
        PROVE  T \in Good
    <2>1. CASE T = {}
      BY <2>1, SumEmpty
    <2>2. CASE T # {}
      <3>1. IsFiniteSet(T)
        BY FS_Subset
      <3>2. Element(T) \in T /\ SumFunctionOnSet(fun, T) =
                                fun[Element(T)] + SumFunctionOnSet(fun, T \ {Element(T)})
        BY <2>2, <3>1, SumRecurs
      <3>3. SumFunctionOnSet(fun, T \ {Element(T)}) \in Int
        BY <1>1, <3>2
      <3> QED
        BY <3>2, <3>3
    <2> QED
      BY <2>1, <2>2
  <1>2. \A T \in SUBSET S : T \in Good
    <2> HIDE DEF Good
    <2> QED
      BY <1>1, SubsetInduction
  <1> QED
    BY <1>2

(* Any element may be taken first. *)
LEMMA SumRemove ==
    ASSUME NEW fun, NEW S, IsFiniteSet(S), \A x \in S : fun[x] \in Int, NEW e \in S
    PROVE  SumFunctionOnSet(fun, S) = fun[e] + SumFunctionOnSet(fun, S \ {e})
  <1> DEFINE Sum(T) == SumFunctionOnSet(fun, T)
             Good == {T \in SUBSET S : \A x \in T : Sum(T) = fun[x] + Sum(T \ {x})}
  <1>1. ASSUME NEW T \in SUBSET S, \A U \in SUBSET T : U # T => U \in Good
        PROVE  T \in Good
    <2> SUFFICES ASSUME NEW x \in T PROVE Sum(T) = fun[x] + Sum(T \ {x})
      OBVIOUS
    <2>0. PICK c : c = Element(T)
      OBVIOUS
    <2>1. IsFiniteSet(T) /\ IsFiniteSet(T \ {x})
      BY FS_Subset
    <2>2. c \in T /\ Sum(T) = fun[c] + Sum(T \ {c})
      BY <2>0, <2>1, SumRecurs
    <2>3. CASE c = x
      BY <2>2, <2>3
    <2>4. CASE c # x
      <3>1. T \ {c} \in Good /\ T \ {x} \in Good
        BY <1>1, <2>2
      <3>2. Sum(T \ {c}) = fun[x] + Sum((T \ {c}) \ {x})
        BY <2>4, <3>1
      <3>3. Sum(T \ {x}) = fun[c] + Sum((T \ {x}) \ {c})
        BY <2>2, <2>4, <3>1
      <3>4. (T \ {c}) \ {x} = (T \ {x}) \ {c}
        OBVIOUS
      <3>5. IsFiniteSet((T \ {x}) \ {c})
        BY <2>1, FS_Subset
      <3>6. Sum((T \ {x}) \ {c}) \in Int
        BY <3>5, SumType
      <3>7. fun[x] \in Int /\ fun[c] \in Int
        BY <2>2
      <3>8. PICK rest \in Int : rest = Sum((T \ {x}) \ {c})
        BY <3>6
      <3>9. Sum(T \ {c}) = fun[x] + rest
        BY <3>2, <3>4, <3>8, Zenon
      <3>10. Sum(T) = fun[c] + (fun[x] + rest)
        BY <2>2, <3>9, Zenon
      <3>11. Sum(T \ {x}) = fun[c] + rest
        BY <3>3, <3>8, Zenon
      <3>12. fun[c] + (fun[x] + rest) = fun[x] + (fun[c] + rest)
        BY <3>7
      <3> QED
        BY <3>10, <3>11, <3>12, Zenon
    <2> QED
      BY <2>3, <2>4
  <1>2. \A T \in SUBSET S : T \in Good
    <2> HIDE DEF Good
    <2> QED
      BY <1>1, SubsetInduction
  <1> QED
    BY <1>2

(* What a sum depends on. *)
LEMMA SumSame ==
    ASSUME NEW fun, NEW gun, NEW S, IsFiniteSet(S), \A x \in S : fun[x] = gun[x]
    PROVE  SumFunctionOnSet(fun, S) = SumFunctionOnSet(gun, S)
  <1> DEFINE Good == {T \in SUBSET S : SumFunctionOnSet(fun, T) = SumFunctionOnSet(gun, T)}
  <1>1. ASSUME NEW T \in SUBSET S, \A U \in SUBSET T : U # T => U \in Good
        PROVE  T \in Good
    <2>1. CASE T = {}
      BY <2>1, SumEmpty
    <2>2. CASE T # {}
      <3>1. IsFiniteSet(T)
        BY FS_Subset
      <3>2. /\ Element(T) \in T
            /\ SumFunctionOnSet(fun, T) =
                  fun[Element(T)] + SumFunctionOnSet(fun, T \ {Element(T)})
            /\ SumFunctionOnSet(gun, T) =
                  gun[Element(T)] + SumFunctionOnSet(gun, T \ {Element(T)})
        BY <2>2, <3>1, SumRecurs
      <3>3. SumFunctionOnSet(fun, T \ {Element(T)}) = SumFunctionOnSet(gun, T \ {Element(T)})
        BY <1>1, <3>2
      <3> QED
        BY <3>2, <3>3
    <2> QED
      BY <2>1, <2>2
  <1>2. \A T \in SUBSET S : T \in Good
    <2> HIDE DEF Good
    <2> QED
      BY <1>1, SubsetInduction
  <1> QED
    BY <1>2

LEMMA SumChange ==
    ASSUME NEW fun, NEW gun, NEW S, IsFiniteSet(S), NEW e \in S,
           \A x \in S : fun[x] \in Int /\ gun[x] \in Int,
           \A x \in S \ {e} : fun[x] = gun[x]
    PROVE  SumFunctionOnSet(gun, S) = SumFunctionOnSet(fun, S) - fun[e] + gun[e]
  <1>1. IsFiniteSet(S \ {e})
    BY FS_Subset
  <1>2. SumFunctionOnSet(fun, S \ {e}) = SumFunctionOnSet(gun, S \ {e})
    BY <1>1, SumSame
  <1>3. SumFunctionOnSet(fun, S \ {e}) \in Int
    BY <1>1, SumType
  <1>4. SumFunctionOnSet(fun, S) = fun[e] + SumFunctionOnSet(fun, S \ {e})
    BY SumRemove
  <1>5. SumFunctionOnSet(gun, S) = gun[e] + SumFunctionOnSet(gun, S \ {e})
    BY SumRemove
  <1> QED
    BY <1>2, <1>3, <1>4, <1>5

LEMMA SumNat ==
    ASSUME NEW fun, NEW S, IsFiniteSet(S), \A x \in S : fun[x] \in Nat
    PROVE  SumFunctionOnSet(fun, S) \in Nat
  <1> DEFINE Good == {T \in SUBSET S : SumFunctionOnSet(fun, T) \in Nat}
  <1>1. ASSUME NEW T \in SUBSET S, \A U \in SUBSET T : U # T => U \in Good
        PROVE  T \in Good
    <2>1. CASE T = {}
      BY <2>1, SumEmpty
    <2>2. CASE T # {}
      <3>1. IsFiniteSet(T)
        BY FS_Subset
      <3>2. Element(T) \in T /\ SumFunctionOnSet(fun, T) =
                                fun[Element(T)] + SumFunctionOnSet(fun, T \ {Element(T)})
        BY <2>2, <3>1, SumRecurs
      <3>3. SumFunctionOnSet(fun, T \ {Element(T)}) \in Nat
        BY <1>1, <3>2
      <3> QED
        BY <3>2, <3>3
    <2> QED
      BY <2>1, <2>2
  <1>2. \A T \in SUBSET S : T \in Good
    <2> HIDE DEF Good
    <2> QED
      BY <1>1, SubsetInduction
  <1> QED
    BY <1>2

(* An entry is added to, or is new. *)
LEMMA SumUpsert ==
    ASSUME NEW fun, NEW gun, NEW S, IsFiniteSet(S), NEW e, NEW d \in Int,
           \A x \in S : fun[x] \in Int,
           \A x \in S \ {e} : gun[x] = fun[x],
           gun[e] = (IF e \in S THEN fun[e] ELSE 0) + d
    PROVE  SumFunctionOnSet(gun, S \cup {e}) = SumFunctionOnSet(fun, S) + d
  <1>1. \A x \in S \cup {e} : gun[x] \in Int
    OBVIOUS
  <1>2. CASE e \in S
    <2>1. S \cup {e} = S
      BY <1>2
    <2>2. SumFunctionOnSet(gun, S) = SumFunctionOnSet(fun, S) - fun[e] + gun[e]
      BY <1>1, <1>2, SumChange
    <2>3. PICK before \in Int : before = SumFunctionOnSet(fun, S)
      BY SumType
    <2>4. before - fun[e] + gun[e] = before + d
      BY <1>2
    <2> QED
      BY <2>1, <2>2, <2>3, <2>4, Zenon
  <1>3. CASE e \notin S
    <2>1. (S \cup {e}) \ {e} = S /\ IsFiniteSet(S \cup {e})
      BY <1>3, FS_AddElement
    <2>2. SumFunctionOnSet(gun, S \cup {e}) =
            gun[e] + SumFunctionOnSet(gun, (S \cup {e}) \ {e})
      BY <1>1, <2>1, SumRemove
    <2>3. SumFunctionOnSet(gun, S) = SumFunctionOnSet(fun, S)
      BY <1>3, SumSame
    <2>4. PICK before \in Int : before = SumFunctionOnSet(fun, S)
      BY SumType
    <2>5. gun[e] + before = before + d
      BY <1>3
    <2> QED
      BY <2>1, <2>2, <2>3, <2>4, <2>5, Zenon
  <1> QED
    BY <1>2, <1>3

-----------------------------------------------------------------------------
(* Statements.                                                             *)

(* A step invents no id below the counter and gives no row another key. *)
NoRenaming ==
    /\ nextId' >= nextId
    /\ \A id \in DOMAIN sessions' :
         id < nextId => id \in DOMAIN sessions /\ sessions'[id].key = sessions[id].key

(* Types of the bucket's row after BumpPortUsage. *)
LEMMA BumpedType ==
    ASSUME NEW old \in UsageRow, NEW key, NEW delta \in Nat,
           NEW isNew \in BOOLEAN, NEW newAddress \in BOOLEAN
    PROVE  Bumped(old, key, delta, isNew, newAddress) \in UsageRow
  BY DEF Bumped, UsageRow

LEMMA NewBucketType == NewBucket \in UsageRow
  BY DEF NewBucket, UsageRow

(* Every map OpenSessions returns sends a key to an open row of that key. *)
LEMMA OpenSessionsPick ==
    ASSUME StoreTypeOK, NEW found \in OpenSessions, NEW k \in DOMAIN found
    PROVE  /\ k \in Keys
           /\ found[k] \in DOMAIN sessions
           /\ sessions[found[k]].key = k
  BY DEF OpenSessions, OpenIds, StoreTypeOK, SessionRow

LEMMA InsertSessionKeeps ==
    ASSUME StoreTypeOK, NEW key \in Keys, NEW flow \in Flow, InsertSession(key, flow)
    PROVE  /\ StoreTypeOK'
           /\ NoRenaming
           /\ nextId < nextId' /\ sessions'[nextId].key = key
  <1>1. nextId' = nextId + 1 /\ nextId \in Nat
    BY DEF InsertSession, StoreTypeOK
  <1>2. DOMAIN sessions' = DOMAIN sessions \cup {nextId}
    BY DEF InsertSession
  <1>3. ASSUME NEW id \in DOMAIN sessions'
        PROVE  /\ sessions'[id] \in SessionRow
               /\ id # nextId => id \in DOMAIN sessions /\ sessions'[id] = sessions[id]
               /\ id = nextId => sessions'[id].key = key
    BY DEF InsertSession, StoreTypeOK, SessionRow, Flow
  <1>4. DOMAIN sessions' \subseteq 1 .. nextId' - 1
    BY <1>1, <1>2 DEF StoreTypeOK
  <1>5. UNCHANGED <<samples, usage, dstIPs>>
    BY DEF InsertSession
  <1>6. StoreTypeOK'
    BY <1>1, <1>3, <1>4, <1>5 DEF StoreTypeOK
  <1>7. NoRenaming
    BY <1>1, <1>3 DEF NoRenaming
  <1> QED
    BY <1>1, <1>2, <1>3, <1>6, <1>7

LEMMA UpdateSessionKeeps ==
    ASSUME StoreTypeOK, NEW id, NEW flow \in Flow, UpdateSession(id, flow)
    PROVE  StoreTypeOK' /\ NoRenaming
  <1>1. UNCHANGED <<nextId, samples, usage, dstIPs>> /\ nextId \in Nat
    BY DEF UpdateSession, StoreTypeOK
  <1>2. DOMAIN sessions' = DOMAIN sessions
    BY DEF UpdateSession
  <1>3. ASSUME NEW i \in DOMAIN sessions'
        PROVE  sessions'[i] \in SessionRow /\ sessions'[i].key = sessions[i].key
    BY <1>2 DEF UpdateSession, StoreTypeOK, SessionRow, Flow
  <1> QED
    BY <1>1, <1>2, <1>3 DEF StoreTypeOK, NoRenaming

LEMMA CloseSessionKeeps ==
    ASSUME StoreTypeOK, NEW id, CloseSession(id)
    PROVE  StoreTypeOK' /\ NoRenaming
  <1>1. UNCHANGED <<nextId, samples, usage, dstIPs>> /\ nextId \in Nat
    BY DEF CloseSession, StoreTypeOK
  <1>2. DOMAIN sessions' = DOMAIN sessions
    BY DEF CloseSession
  <1>3. ASSUME NEW i \in DOMAIN sessions'
        PROVE  sessions'[i] \in SessionRow /\ sessions'[i].key = sessions[i].key
    BY <1>2 DEF CloseSession, StoreTypeOK, SessionRow
  <1> QED
    BY <1>1, <1>2, <1>3 DEF StoreTypeOK, NoRenaming

LEMMA InsertSampleKeeps ==
    ASSUME StoreTypeOK, NEW id, NEW event \in Events, NEW flow \in Flow,
           InsertSample(id, event, flow)
    PROVE  StoreTypeOK' /\ NoRenaming
  <1>1. UNCHANGED <<sessions, nextId, usage, dstIPs>> /\ id \in Nat /\ nextId \in Nat
    BY DEF InsertSample, SampleAllowed, StoreTypeOK
  <1>2. samples' \subseteq Sample
    BY <1>1 DEF InsertSample, StoreTypeOK, Sample, Flow
  <1> QED
    BY <1>1, <1>2 DEF StoreTypeOK, NoRenaming

LEMMA BumpPortUsageKeeps ==
    ASSUME StoreTypeOK, NEW key \in Keys, NEW app \in Apps, NEW delta \in Nat,
           NEW isNew \in BOOLEAN, BumpPortUsage(key, app, delta, isNew)
    PROVE  StoreTypeOK' /\ NoRenaming
  <1> DEFINE b == Bucket(key, app)
             old == IF b \in DOMAIN usage THEN usage[b] ELSE NewBucket
  <1>1. UNCHANGED <<sessions, nextId, samples>> /\ nextId \in Nat
    BY DEF BumpPortUsage, StoreTypeOK
  <1>2. b \in Buckets /\ key.dst \in Addresses
    BY DEF Bucket, Buckets, Services, Addresses
  <1>3. old \in UsageRow
    BY NewBucketType DEF StoreTypeOK
  <1>4. (<<b, key.dst>> \notin dstIPs) \in BOOLEAN
    OBVIOUS
  <1>5. Bumped(old, key, delta, isNew, <<b, key.dst>> \notin dstIPs) \in UsageRow
    BY <1>3, <1>4, BumpedType
  <1>6. usage' = [x \in DOMAIN usage \cup {b} |->
                    IF x = b THEN Bumped(old, key, delta, isNew, <<b, key.dst>> \notin dstIPs)
                             ELSE usage[x]]
    BY DEF BumpPortUsage
  <1>7. DOMAIN usage' \subseteq Buckets /\ \A x \in DOMAIN usage' : usage'[x] \in UsageRow
    BY <1>2, <1>5, <1>6 DEF StoreTypeOK
  <1>8. dstIPs' \subseteq Buckets \X Addresses
    BY <1>2 DEF BumpPortUsage, StoreTypeOK
  <1> QED
    BY <1>1, <1>7, <1>8 DEF StoreTypeOK, NoRenaming

(* A counter of a bucket goes up by what BumpPortUsage is given, or stays. *)
LEMMA BumpedGrows ==
    ASSUME NEW old \in UsageRow, NEW key, NEW delta \in Nat,
           NEW isNew \in BOOLEAN, NEW newAddress \in BOOLEAN
    PROVE  LET new == Bumped(old, key, delta, isNew, newAddress)
           IN  new.count >= old.count /\ new.bytes >= old.bytes /\ new.distinct >= old.distinct
  BY DEF Bumped, UsageRow

LEMMA BumpPortUsageGrows ==
    ASSUME StoreTypeOK, NEW key \in Keys, NEW app \in Apps, NEW delta \in Nat,
           NEW isNew \in BOOLEAN, BumpPortUsage(key, app, delta, isNew)
    PROVE  UsageGrows
  <1> DEFINE b == Bucket(key, app)
             old == IF b \in DOMAIN usage THEN usage[b] ELSE NewBucket
             new == Bumped(old, key, delta, isNew, <<b, key.dst>> \notin dstIPs)
  <1>1. old \in UsageRow /\ (<<b, key.dst>> \notin dstIPs) \in BOOLEAN
    BY NewBucketType DEF StoreTypeOK
  <1>2. new.count >= old.count /\ new.bytes >= old.bytes /\ new.distinct >= old.distinct
    BY <1>1, BumpedGrows
  <1>3. usage' = [x \in DOMAIN usage \cup {b} |-> IF x = b THEN new ELSE usage[x]]
    BY DEF BumpPortUsage
  <1>4. \A x \in DOMAIN usage : usage[x] \in UsageRow
    BY DEF StoreTypeOK
  <1> HIDE DEF new
  <1> QED
    BY <1>2, <1>3, <1>4 DEF UsageGrows, UsageRow

LEMMA UsageKeptGrows ==
    ASSUME StoreTypeOK, UNCHANGED usage
    PROVE  UsageGrows
  BY DEF StoreTypeOK, UsageRow, UsageGrows

LEMMA ClearAllHistoryKeeps ==
    ASSUME StoreTypeOK, ClearAllHistory
    PROVE  StoreTypeOK' /\ NoRenaming
  <1>1. UNCHANGED nextId /\ nextId \in Nat \ {0}
    BY DEF ClearAllHistory, StoreTypeOK
  <1>2. DOMAIN sessions' = {} /\ samples' = {} /\ DOMAIN usage' = {} /\ dstIPs' = {}
    BY DEF ClearAllHistory
  <1> QED
    BY <1>1, <1>2 DEF StoreTypeOK, NoRenaming

LEMMA StoreUnchangedKeeps ==
    ASSUME StoreTypeOK, UNCHANGED storeVars
    PROVE  StoreTypeOK' /\ NoRenaming
  BY DEF StoreTypeOK, NoRenaming, storeVars

LEMMA StoreInitType == StoreInit => StoreTypeOK
  BY DEF StoreInit, StoreTypeOK
=============================================================================
