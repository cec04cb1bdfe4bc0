------------------------- MODULE RulePreviewProofs -------------------------
(***************************************************************************)
(* The rule preview, for any buckets, verdicts and changes of the tables   *)
(* meanwhile: what a malicious destination does to the scores, that        *)
(* Generate's insertion sort sorts, and what a preview shows.              *)
(***************************************************************************)
EXTENDS RulePreview, FiniteSetTheorems, TLAPS

-----------------------------------------------------------------------------
(* Scores.                                                                 *)

(* What the port, the application and the count add is never a discount. *)
LEMMA PortPointsType ==
    ASSUME NEW port \in Int, NEW app, NEW count \in Nat
    PROVE  PortPoints(port, app, count) \in 0 .. 90
  <1>1. Points(port \in legacyAdminPorts, 30) \in {0, 30}  BY DEF Points
  <1>2. Points(port \in cleartextPorts, 25) \in {0, 25}  BY DEF Points
  <1>3. Points(port = cleartextHTTPPort, 10) \in {0, 10}  BY DEF Points
  <1>4. Points(app = NoApp /\ port \notin wellKnownPorts, 20) \in {0, 20}  BY DEF Points
  <1>5. Points(0 < count /\ count < LowConfidenceSampleCount, 5) \in {0, 5}  BY DEF Points
  <1> QED
    BY <1>1, <1>2, <1>3, <1>4, <1>5 DEF PortPoints

(* From 25 points on a score is not in the bucket "low". *)
LEMMA NotLow ==
    ASSUME NEW score \in Int, score >= 25
    PROVE  bucketFor(Clamp(score)) # "low"
  BY DEF bucketFor, Clamp

(* A port usage bucket with one malicious destination is never rated low,
   whatever its other destinations, its port and its traffic are: the rule
   preview, which leaves out what is low, cannot lose it. *)
THEOREM MaliciousUsageNotLow ==
    ASSUME NEW port \in Int, NEW app,
           NEW u, u.count \in Nat, u.distinct \in Nat, u.heavy \in BOOLEAN,
           NEW old \in BOOLEAN, NEW found \in SUBSET ReputationInfo,
           AnyMalicious(found)
    PROVE  bucketFor(ScorePortUsage(port, app, u, old, found)) # "low"
  <1> DEFINE malicious == Points(AnyMalicious(found), 50)
             noise     == Points(\E r \in found : NoiseUnknown(r), 15)
             cloud     == Points(~AnyMalicious(found) /\ \E r \in found : r.riot, -10)
             longLived == Points(found = {} /\ u.distinct > 0 /\ old, 10)
             ports     == PortPoints(port, app, u.count)
             volume    == Points(u.heavy /\ u.distinct <= 1, 15)
  <1>1. malicious = 50  BY DEF Points
  <1>2. noise \in {0, 15}  BY DEF Points
  <1>3. cloud = 0  BY DEF Points
  <1>4. longLived \in {0, 10}  BY DEF Points
  <1>5. ports \in 0 .. 90  BY PortPointsType
  <1>6. volume \in {0, 15}  BY DEF Points
  <1>7. ScorePortUsage(port, app, u, old, found)
          = Clamp(malicious + noise + cloud + longLived + ports + volume)
    BY DEF ScorePortUsage
  <1> HIDE DEF malicious, noise, cloud, longLived, ports, volume
  <1> QED
    BY <1>1, <1>2, <1>3, <1>4, <1>5, <1>6, <1>7, NotLow

(* A score is between 0 and 100. *)
LEMMA ScoreType ==
    ASSUME NEW port \in Int, NEW app,
           NEW u, u.count \in Nat, u.distinct \in Nat, u.heavy \in BOOLEAN,
           NEW old \in BOOLEAN, NEW found
    PROVE  ScorePortUsage(port, app, u, old, found) \in 0 .. 100
  <1> DEFINE malicious == Points(AnyMalicious(found), 50)
             noise     == Points(\E r \in found : NoiseUnknown(r), 15)
             cloud     == Points(~AnyMalicious(found) /\ \E r \in found : r.riot, -10)
             longLived == Points(found = {} /\ u.distinct > 0 /\ old, 10)
             ports     == PortPoints(port, app, u.count)
             volume    == Points(u.heavy /\ u.distinct <= 1, 15)
  <1>1. /\ malicious \in Int /\ noise \in Int /\ cloud \in Int
        /\ longLived \in Int /\ volume \in Int
    BY DEF Points
  <1>2. ports \in Int
    BY PortPointsType
  <1>3. ScorePortUsage(port, app, u, old, found)
          = Clamp(malicious + noise + cloud + longLived + ports + volume)
    BY DEF ScorePortUsage
  <1> HIDE DEF malicious, noise, cloud, longLived, ports, volume
  <1> QED
    BY <1>1, <1>2, <1>3 DEF Clamp

(* Nor is a connection to a malicious destination, although here the discounts
   for a cloud service and for traffic inside the LAN count too. *)
THEOREM MaliciousConnectionNotLow ==
    ASSUME NEW c \in [known : BOOLEAN, dstPrivate : BOOLEAN, old : BOOLEAN, port : Int,
                      app : STRING, count : Nat, heavy : BOOLEAN,
                      firstContact : BOOLEAN, lanToLan : BOOLEAN],
           NEW r \in ReputationInfo,
           c.known, Malicious(r)
    PROVE  bucketFor(ScoreConnection(c, r)) # "low"
  <1> DEFINE malicious == Points(Malicious(r), 60)
             noise     == Points(NoiseUnknown(r), 15)
             cloud     == Points(r.riot, -10)
             ports     == PortPoints(c.port, c.app, c.count)
             volume    == Points(c.heavy /\ c.firstContact, 15)
             internal  == Points(c.lanToLan, -5)
  <1>1. malicious = 60  BY DEF Points
  <1>2. noise = 0  BY DEF Points, NoiseUnknown, Malicious
  <1>3. cloud \in {0, -10}  BY DEF Points
  <1>4. ports \in 0 .. 90  BY PortPointsType
  <1>5. volume \in {0, 15}  BY DEF Points
  <1>6. internal \in {0, -5}  BY DEF Points
  <1>7. ScoreConnection(c, r)
          = Clamp(malicious + noise + cloud + ports + volume + internal)
    BY DEF ScoreConnection
  <1> HIDE DEF malicious, noise, cloud, ports, volume, internal
  <1> QED
    BY <1>1, <1>2, <1>3, <1>4, <1>5, <1>6, <1>7, NotLow

-----------------------------------------------------------------------------
(* Sorting: the fold that Generate inserts the candidates with.            *)

(* Induction over the subsets of a finite set, stated with a set of them. *)
LEMMA SubsetInduction ==
    ASSUME NEW S, IsFiniteSet(S), NEW Good,
           \A T \in SUBSET S : (\A U \in SUBSET T : U # T => U \in Good) => T \in Good
    PROVE  \A T \in SUBSET S : T \in Good
  <1> DEFINE Bad == {T \in SUBSET S : T \notin Good}
  <1>1. SUFFICES ASSUME Bad # {} PROVE FALSE
    OBVIOUS
  <1>2. IsWellFoundedOn(StrictSubsetOrdering(S), SUBSET S)
    BY FS_StrictSubsetOrderingWellFounded, FS_FiniteSubsetsOfFinite
  <1>3. PICK T \in Bad : \A U \in Bad : <<U, T>> \notin StrictSubsetOrdering(S)
    <2>1. Bad \subseteq SUBSET S
      OBVIOUS
    <2> HIDE DEF Bad
    <2> QED
      BY <1>1, <1>2, <2>1, WFMin
  <1>4. \A U \in SUBSET T : U # T => U \in Good
    BY <1>3 DEF StrictSubsetOrdering
  <1> QED
    BY <1>3, <1>4

(* A set of places has a last one. *)
LEMMA LastPlace ==
    ASSUME NEW n \in Nat, NEW S \in SUBSET (1 .. n), S # {}
    PROVE  Max(S) \in S /\ \A x \in S : x <= Max(S)
  <1> DEFINE Good == {T \in SUBSET (1 .. n) : T # {} => \E m \in T : \A x \in T : x <= m}
  <1>1. IsFiniteSet(1 .. n)
    BY FS_Interval
  <1>2. ASSUME NEW T \in SUBSET (1 .. n), \A U \in SUBSET T : U # T => U \in Good
        PROVE  T \in Good
    <2> SUFFICES ASSUME T # {} PROVE \E m \in T : \A x \in T : x <= m
      OBVIOUS
    <2>1. PICK e \in T : TRUE
      OBVIOUS
    <2>2. T \ {e} \in Good
      BY <1>2, <2>1
    <2>3. CASE T \ {e} = {}
      BY <2>3
    <2>4. CASE T \ {e} # {}
      <3>1. PICK m \in T \ {e} : \A x \in T \ {e} : x <= m
        BY <2>2, <2>4
      <3>2. CASE e <= m
        BY <3>1, <3>2
      <3>3. CASE m <= e
        BY <3>1, <3>3
      <3> QED
        BY <3>2, <3>3
    <2> QED
      BY <2>3, <2>4
  <1>3. \A T \in SUBSET (1 .. n) : T \in Good
    <2> HIDE DEF Good
    <2>1. \A T \in SUBSET (1 .. n) : (\A U \in SUBSET T : U # T => U \in Good) => T \in Good
      BY <1>2, Zenon
    <2> QED
      BY <1>1, <2>1, SubsetInduction, ZenonT(60)
  <1>4. PICK m \in S : \A x \in S : x <= m
    BY <1>3
  <1>5. m \in S /\ \A x \in S : m >= x
    BY <1>4
  <1>6. Max(S) \in S /\ \A x \in S : Max(S) >= x
    BY <1>5 DEF Max
  <1> QED
    BY <1>6

(* What InsertAt puts where. *)
LEMMA InsertAtPlaces ==
    ASSUME NEW Elems, NEW s \in Seq(Elems), NEW c \in Elems, NEW n \in 0 .. Len(s)
    PROVE  /\ InsertAt(s, n + 1, c) \in Seq(Elems)
           /\ Len(InsertAt(s, n + 1, c)) = Len(s) + 1
           /\ \A i \in 1 .. Len(s) + 1 :
                InsertAt(s, n + 1, c)[i] =
                  IF i <= n THEN s[i] ELSE IF i = n + 1 THEN c ELSE s[i - 1]
  <1> DEFINE front == SubSeq(s, 1, n)
             back  == SubSeq(s, n + 1, Len(s))
  <1>1. /\ front \in Seq(Elems) /\ Len(front) = n
        /\ \A i \in 1 .. n : front[i] = s[i]
    OBVIOUS
  <1>2. /\ back \in Seq(Elems) /\ Len(back) = Len(s) - n
        /\ \A i \in 1 .. Len(s) - n : back[i] = s[n + i]
    OBVIOUS
  <1>3. InsertAt(s, n + 1, c) = front \o <<c>> \o back
    <2>1. (n + 1) - 1 = n
      OBVIOUS
    <2> QED
      BY <2>1, Zenon DEF InsertAt
  <1> DEFINE most == front \o <<c>>
  <1> HIDE DEF front, back
  <1>4. /\ most \in Seq(Elems) /\ Len(most) = n + 1
        /\ \A i \in 1 .. n + 1 : most[i] = IF i <= n THEN s[i] ELSE c
    BY <1>1
  <1>7. InsertAt(s, n + 1, c) = most \o back
    BY <1>3
  <1> HIDE DEF most
  <1> DEFINE whole == most \o back
  <1>5. /\ whole \in Seq(Elems) /\ Len(whole) = Len(s) + 1
        /\ \A i \in 1 .. n + 1 : whole[i] = most[i]
        /\ \A i \in n + 2 .. Len(s) + 1 : whole[i] = back[i - (n + 1)]
    BY <1>2, <1>4
  <1> HIDE DEF whole
  <1>6. \A i \in 1 .. Len(s) + 1 :
          whole[i] = IF i <= n THEN s[i] ELSE IF i = n + 1 THEN c ELSE s[i - 1]
    <2> TAKE i \in 1 .. Len(s) + 1
    <2>1. CASE i \in 1 .. n + 1
      <3>1. whole[i] = IF i <= n THEN s[i] ELSE c
        BY <1>4, <1>5, <2>1
      <3> QED
        BY <2>1, <3>1
    <2>2. CASE i \in n + 2 .. Len(s) + 1
      <3>1. i - (n + 1) \in 1 .. Len(s) - n /\ n + (i - (n + 1)) = i - 1
        BY <2>2
      <3>2. back[i - (n + 1)] = s[n + (i - (n + 1))]
        BY <1>2, <3>1
      <3>3. whole[i] = s[i - 1]
        BY <1>5, <2>2, <3>1, <3>2
      <3> QED
        BY <2>2, <3>3
    <2> QED
      BY <2>1, <2>2
  <1>8. InsertAt(s, n + 1, c) = whole
    BY <1>7 DEF whole
  <1> QED
    BY <1>5, <1>6, <1>8

Scored == [bucket : Buckets, score : 0 .. 100, place : Nat]

Ranked(s) == \A i, j \in DOMAIN s : i < j => less(s[i], s[j])

(* less is a strict order, and total where the places differ. *)
LEMMA LessOrders ==
    ASSUME NEW a \in Scored, NEW b \in Scored
    PROVE  /\ ~less(a, a)
           /\ a.place # b.place => less(a, b) \/ less(b, a)
           /\ \A c \in Scored : less(a, b) /\ less(b, c) => less(a, c)
  <1>1. \A x \in Scored : x.score \in Int /\ x.place \in Int
    BY DEF Scored
  <1>2. PICK sa \in Int, pa \in Int, sb \in Int, pb \in Int :
          sa = a.score /\ pa = a.place /\ sb = b.score /\ pb = b.place
    BY <1>1
  <1>3. ~less(a, a)
    BY <1>2 DEF less
  <1>4. a.place # b.place => less(a, b) \/ less(b, a)
    BY <1>2 DEF less
  <1>5. ASSUME NEW c \in Scored, less(a, b), less(b, c)
        PROVE  less(a, c)
    <2>1. PICK sc \in Int, qc \in Int : sc = c.score /\ qc = c.place
      BY <1>1
    <2>2. /\ sa > sb \/ (sa = sb /\ pa < pb)
          /\ sb > sc \/ (sb = sc /\ pb < qc)
      BY <1>2, <1>5, <2>1 DEF less
    <2>3. sa > sc \/ (sa = sc /\ pa < qc)
      BY <2>2
    <2> QED
      BY <1>2, <2>1, <2>3 DEF less
  <1> QED
    BY <1>3, <1>4, <1>5

(* A candidate that comes to a sorted sequence comes to where it belongs. *)
LEMMA InsertedRanked ==
    ASSUME NEW s \in Seq(Scored), Ranked(s), NEW c \in Scored,
           \A i \in DOMAIN s : s[i].place # c.place
    PROVE  /\ Inserted(s, c) \in Seq(Scored)
           /\ Ranked(Inserted(s, c))
           /\ Range(Inserted(s, c)) = Range(s) \cup {c}
  <1> DEFINE stays == {i \in DOMAIN s : ~less(c, s[i])}
             n     == IF stays = {} THEN 0 ELSE Max(stays)
             t     == InsertAt(s, n + 1, c)
  <1>1. Inserted(s, c) = t
    BY DEF Inserted
  <1>2. /\ n \in 0 .. Len(s)
        /\ n # 0 => n \in DOMAIN s /\ ~less(c, s[n])
        /\ \A i \in DOMAIN s : i > n => less(c, s[i])
    <2>1. stays \in SUBSET (1 .. Len(s)) /\ Len(s) \in Nat /\ DOMAIN s = 1 .. Len(s)
      OBVIOUS
    <2>2. CASE stays = {}
      <3>1. n = 0
        BY <2>2
      <3> HIDE DEF n
      <3> QED
        BY <2>1, <2>2, <3>1
    <2>3. CASE stays # {}
      <3>1. Max(stays) \in stays /\ \A x \in stays : x <= Max(stays)
        <4> HIDE DEF stays
        <4> QED
          BY <2>1, <2>3, LastPlace
      <3>2. n = Max(stays)
        BY <2>3
      <3> HIDE DEF n
      <3>3. n \in stays /\ \A x \in stays : x <= n
        BY <3>1, <3>2
      <3>4. n \in 1 .. Len(s)
        BY <2>1, <3>3
      <3>5. \A i \in DOMAIN s : i > n => i \notin stays
        <4> HIDE DEF stays
        <4> QED
          BY <2>1, <3>3, <3>4
      <3> QED
        BY <3>3, <3>4, <3>5
    <2> QED
      BY <2>2, <2>3
  <1> HIDE DEF n
  <1>3. \A i \in 1 .. n : less(s[i], c)
    <2> SUFFICES ASSUME NEW i \in 1 .. n PROVE less(s[i], c)
      OBVIOUS
    <2>1. n \in DOMAIN s /\ i \in DOMAIN s
      BY <1>2
    <2>2. s[n] \in Scored /\ s[i] \in Scored
      BY <2>1
    <2>3. less(s[n], c)
      BY <1>2, <2>1, <2>2, LessOrders
    <2>4. i = n \/ less(s[i], s[n])
      BY <2>1 DEF Ranked
    <2> QED
      BY <2>2, <2>3, <2>4, LessOrders
  <1>4. /\ t \in Seq(Scored) /\ Len(t) = Len(s) + 1
        /\ \A i \in 1 .. Len(s) + 1 :
             t[i] = IF i <= n THEN s[i] ELSE IF i = n + 1 THEN c ELSE s[i - 1]
    BY <1>2, InsertAtPlaces
  <1> HIDE DEF t, stays
  <1>5. Ranked(t)
    <2> SUFFICES ASSUME NEW i \in 1 .. Len(s) + 1, NEW j \in 1 .. Len(s) + 1, i < j
                 PROVE  less(t[i], t[j])
      BY <1>4 DEF Ranked
    <2>1. CASE j <= n
      <3>1. i \in DOMAIN s /\ j \in DOMAIN s
        BY <1>2, <2>1
      <3>2. t[i] = s[i] /\ t[j] = s[j]
        BY <1>2, <1>4, <2>1
      <3> QED
        BY <3>1, <3>2 DEF Ranked
    <2>2. CASE j = n + 1
      <3>1. t[i] = s[i] /\ t[j] = c /\ i \in 1 .. n
        BY <1>2, <1>4, <2>2
      <3> QED
        BY <1>3, <3>1
    <2>3. CASE j > n + 1
      <3>1. t[j] = s[j - 1] /\ j - 1 > n /\ j - 1 \in DOMAIN s
        BY <1>2, <1>4, <2>3
      <3>2. CASE i <= n
        <4>1. i \in DOMAIN s /\ i < j - 1
          BY <1>2, <2>3, <3>2
        <4>2. t[i] = s[i]
          BY <1>4, <3>2
        <4> QED
          BY <3>1, <4>1, <4>2 DEF Ranked
      <3>3. CASE i = n + 1
        BY <1>2, <1>4, <3>1, <3>3
      <3>4. CASE i > n + 1
        <4>1. t[i] = s[i - 1] /\ i - 1 \in DOMAIN s /\ i - 1 < j - 1
          BY <1>2, <1>4, <3>4
        <4> QED
          BY <3>1, <4>1 DEF Ranked
      <3> QED
        BY <1>2, <3>2, <3>3, <3>4
    <2> QED
      BY <1>2, <2>1, <2>2, <2>3
  <1>6. Range(t) = Range(s) \cup {c}
    <2>1. ASSUME NEW i \in DOMAIN t PROVE t[i] \in Range(s) \cup {c}
      <3>1. i \in 1 .. Len(s) + 1
        BY <1>4
      <3>2. CASE i <= n
        <4>1. t[i] = s[i] /\ i \in DOMAIN s
          BY <1>2, <1>4, <3>1, <3>2
        <4> QED
          BY <4>1 DEF Range
      <3>3. CASE i = n + 1
        BY <1>2, <1>4, <3>1, <3>3
      <3>4. CASE i > n + 1
        <4>1. t[i] = s[i - 1] /\ i - 1 \in DOMAIN s
          BY <1>2, <1>4, <3>1, <3>4
        <4> QED
          BY <4>1 DEF Range
      <3> QED
        BY <1>2, <3>1, <3>2, <3>3, <3>4
    <2>2. ASSUME NEW i \in DOMAIN s PROVE s[i] \in Range(t)
      <3>1. CASE i <= n
        <4>1. i \in DOMAIN t /\ t[i] = s[i]
          BY <1>2, <1>4, <2>2, <3>1
        <4> QED
          BY <4>1 DEF Range
      <3>2. CASE i > n
        <4>1. i + 1 \in DOMAIN t /\ t[i + 1] = s[i]
          BY <1>2, <1>4, <2>2, <3>2
        <4> QED
          BY <4>1 DEF Range
      <3> QED
        BY <1>2, <3>1, <3>2
    <2>3. c \in Range(t)
      <3>1. n + 1 \in DOMAIN t /\ t[n + 1] = c
        BY <1>2, <1>4
      <3> QED
        BY <3>1 DEF Range
    <2> QED
      BY <2>1, <2>2, <2>3 DEF Range
  <1> QED
    BY <1>1, <1>4, <1>5, <1>6

(* g is the function that FoldLeft recurs through when Generate inserts the
   members of S. *)
Inserting(cs, S, g) ==
    g = [s \in SUBSET S |-> IF s = {} THEN <<>>
                            ELSE Inserted(g[s \ {Max(s)}], cs[Max(s)])]

LEMMA InsertingUnique ==
    ASSUME NEW n \in Nat, NEW cs, NEW S \in SUBSET (1 .. n), NEW R \in SUBSET (1 .. n),
           NEW g, NEW h, Inserting(cs, S, g), Inserting(cs, R, h)
    PROVE  \A T \in SUBSET S : T \subseteq R => g[T] = h[T]
  <1> DEFINE Good == {T \in SUBSET S : T \subseteq R => g[T] = h[T]}
  <1>1. ASSUME NEW T \in SUBSET S, \A U \in SUBSET T : U # T => U \in Good
        PROVE  T \in Good
    <2> SUFFICES ASSUME T \subseteq R PROVE g[T] = h[T]
      OBVIOUS
    <2>1. g[T] = IF T = {} THEN <<>> ELSE Inserted(g[T \ {Max(T)}], cs[Max(T)])
      BY Zenon DEF Inserting
    <2>2. h[T] = IF T = {} THEN <<>> ELSE Inserted(h[T \ {Max(T)}], cs[Max(T)])
      BY Zenon DEF Inserting
    <2>3. CASE T = {}
      BY <2>1, <2>2, <2>3, Zenon
    <2>4. CASE T # {}
      <3>1. Max(T) \in T
        BY <2>4, LastPlace
      <3>2. g[T \ {Max(T)}] = h[T \ {Max(T)}]
        BY <1>1, <3>1
      <3> QED
        BY <2>1, <2>2, <2>4, <3>2, Zenon
    <2> QED
      BY <2>3, <2>4
  <1>2. IsFiniteSet(S)
    <2>1. IsFiniteSet(1 .. n)
      BY FS_Interval
    <2> QED
      BY <2>1, FS_Subset
  <1>3. \A T \in SUBSET S : T \in Good
    <2> HIDE DEF Good
    <2> QED
      BY <1>1, <1>2, SubsetInduction
  <1> QED
    BY <1>3

LEMMA InsertingExists ==
    ASSUME NEW n \in Nat, NEW cs, NEW S \in SUBSET (1 .. n)
    PROVE  \E g : Inserting(cs, S, g)
  <1> DEFINE Good == {T \in SUBSET S : \E g : Inserting(cs, T, g)}
             chosen(T) == CHOOSE g : Inserting(cs, T, g)
             sorted(T) == chosen(T)[T]
             step(T) == IF T = {} THEN <<>>
                        ELSE Inserted(sorted(T \ {Max(T)}), cs[Max(T)])
  <1>1. ASSUME NEW T \in SUBSET S, \A U \in SUBSET T : U # T => U \in Good
        PROVE  T \in Good
    <2> DEFINE g == [s \in SUBSET T |-> step(s)]
    <2>1. ASSUME NEW U \in SUBSET T, U # T
          PROVE  step(U) = sorted(U)
      <3>1. Inserting(cs, U, chosen(U))
        BY <1>1, <2>1
      <3>2. chosen(U)[U] = IF U = {} THEN <<>>
                           ELSE Inserted(chosen(U)[U \ {Max(U)}], cs[Max(U)])
        <4> HIDE DEF chosen
        <4> QED
          BY <3>1, Zenon DEF Inserting
      <3>3. CASE U = {}
        BY <3>2, <3>3, Zenon
      <3>4. CASE U # {}
        <4> DEFINE V == U \ {Max(U)}
        <4>1. Max(U) \in U
          BY <3>4, LastPlace
        <4>2. V \in SUBSET T /\ V # T /\ V \subseteq U /\ V \in SUBSET (1 .. n)
          BY <4>1
        <4>3. Inserting(cs, V, chosen(V))
          BY <1>1, <4>2
        <4>4. chosen(U)[V] = chosen(V)[V]
          <5>1. U \in SUBSET (1 .. n) /\ V \in SUBSET U /\ V \subseteq V
            BY <4>1
          <5> HIDE DEF chosen, V
          <5> QED
            BY <3>1, <4>2, <4>3, <5>1, InsertingUnique
        <4> QED
          BY <3>2, <3>4, <4>4, Zenon
      <3> QED
        BY <3>3, <3>4
    <2>2. ASSUME NEW s \in SUBSET T
          PROVE  g[s] = IF s = {} THEN <<>> ELSE Inserted(g[s \ {Max(s)}], cs[Max(s)])
      <3>1. CASE s = {}
        BY <3>1, Zenon
      <3>2. CASE s # {}
        <4>1. Max(s) \in s
          BY <3>2, LastPlace
        <4> DEFINE V == s \ {Max(s)}
        <4>2. V \in SUBSET T /\ V # T
          BY <4>1
        <4>3. g[V] = sorted(V)
          BY <2>1, <4>2, Zenon
        <4>4. g[s] = step(s)
          OBVIOUS
        <4>5. step(s) = Inserted(sorted(V), cs[Max(s)])
          BY <3>2, Zenon
        <4> HIDE DEF g, step, sorted
        <4> QED
          BY <3>2, <4>3, <4>4, <4>5, Zenon
      <3> QED
        BY <3>1, <3>2
    <2>3. Inserting(cs, T, g)
      <3>1. g = [s \in SUBSET T |-> g[s]]
        OBVIOUS
      <3> HIDE DEF g
      <3> QED
        BY <2>2, <3>1, Zenon DEF Inserting
    <2> QED
      BY <2>3
  <1>2. IsFiniteSet(S)
    <2>1. IsFiniteSet(1 .. n)
      BY FS_Interval
    <2> QED
      BY <2>1, FS_Subset
  <1>3. \A T \in SUBSET S : T \in Good
    <2> HIDE DEF Good
    <2> QED
      BY <1>1, <1>2, SubsetInduction
  <1> QED
    BY <1>3

(* Generate sorts its candidates, loses none and makes none up. *)
LEMMA GeneratedRanked ==
    ASSUME NEW cs \in Seq(Scored),
           \A i, j \in DOMAIN cs : i # j => cs[i].place # cs[j].place
    PROVE  /\ FoldLeft(Inserted, <<>>, cs) \in Seq(Scored)
           /\ Ranked(FoldLeft(Inserted, <<>>, cs))
           /\ Range(FoldLeft(Inserted, <<>>, cs)) = Range(cs)
  <1> DEFINE S == DOMAIN cs
             g == CHOOSE f : Inserting(cs, S, f)
             of(T) == {cs[i] : i \in T}
             Good == {T \in SUBSET S : g[T] \in Seq(Scored) /\ Ranked(g[T]) /\ Range(g[T]) = of(T)}
  <1>1. S \in SUBSET (1 .. Len(cs)) /\ Len(cs) \in Nat
    OBVIOUS
  <1>2. FoldLeft(Inserted, <<>>, cs) = g[S]
    BY Zenon DEF FoldLeft, MapThenFoldSet, Inserting
  <1>3. Inserting(cs, S, g)
    BY <1>1, InsertingExists
  <1> HIDE DEF g
  <1>4. \A T \in SUBSET S : g[T] = IF T = {} THEN <<>>
                                  ELSE Inserted(g[T \ {Max(T)}], cs[Max(T)])
    BY <1>3, Zenon DEF Inserting
  <1>5. ASSUME NEW T \in SUBSET S, \A U \in SUBSET T : U # T => U \in Good
        PROVE  T \in Good
    <2>1. CASE T = {}
      <3>1. g[T] = <<>>
        BY <1>4, <2>1, Zenon
      <3>2. <<>> \in Seq(Scored) /\ Ranked(<<>>) /\ Range(<<>>) = {}
        BY DEF Ranked, Range
      <3> QED
        BY <2>1, <3>1, <3>2
    <2>2. CASE T # {}
      <3> DEFINE U == T \ {Max(T)}
                 c == cs[Max(T)]
      <3>1. Max(T) \in T
        BY <1>1, <2>2, LastPlace
      <3>2. U \in Good
        BY <1>5, <3>1
      <3>3. g[T] = Inserted(g[U], c)
        BY <1>4, <2>2, Zenon
      <3>4. c \in Scored
        BY <3>1
      <3>5. of(T) = of(U) \cup {c}
        BY <3>1
      <3>6. \A i \in DOMAIN g[U] : g[U][i].place # c.place
        <4> SUFFICES ASSUME NEW i \in DOMAIN g[U] PROVE g[U][i].place # c.place
          OBVIOUS
        <4>1. g[U][i] \in Range(g[U])
          BY DEF Range
        <4>2. PICK k \in U : g[U][i] = cs[k]
          BY <3>2, <4>1
        <4> QED
          BY <3>1, <4>2
      <3> HIDE DEF U, c
      <3>7. /\ Inserted(g[U], c) \in Seq(Scored)
            /\ Ranked(Inserted(g[U], c))
            /\ Range(Inserted(g[U], c)) = Range(g[U]) \cup {c}
        BY <3>2, <3>4, <3>6, InsertedRanked
      <3> QED
        BY <3>2, <3>3, <3>5, <3>7
    <2> QED
      BY <2>1, <2>2
  <1>6. IsFiniteSet(S)
    BY <1>1, FS_Interval, FS_Subset
  <1>7. \A T \in SUBSET S : T \in Good
    <2> HIDE DEF Good, S
    <2> QED
      BY <1>5, <1>6, SubsetInduction
  <1>8. of(S) = Range(cs)
    BY DEF Range
  <1> QED
    BY <1>2, <1>7, <1>8

-----------------------------------------------------------------------------
(* The inductive invariant.                                                *)

Rows == [bucket : Buckets, count : Nat, distinct : Nat, heavy : BOOLEAN]

OneEach(rows) == \A i, j \in DOMAIN rows : rows[i].bucket = rows[j].bucket => i = j

(* The request has read what is approved and not yet replied. *)
Scoring == pc \in {"row", "verdicts", "shown"}

(* What is kept for the request is empty outside it. *)
StagesOK ==
    /\ ~Scoring => place = 1 /\ candidates = <<>>
    /\ pc = "idle" => kept = {} /\ due = {}
    /\ pc # "verdicts" => reps = {}
    /\ pc = "verdicts" => place <= Len(listed) /\ ~Skipped(listed[place])
    /\ pc # "shown" => rules = <<>>
    /\ pc = "shown" => place > Len(listed)

ListedOK == listed \in Seq(Rows) /\ OneEach(listed)

(* A candidate is of a row that was come to and whose bucket is unapproved, and
   candidates are in the order of the rows. *)
CandidatesOK ==
    /\ candidates \in Seq(Scored)
    /\ \A i \in DOMAIN candidates :
         /\ candidates[i].place \in 1 .. place - 1
         /\ candidates[i].bucket = listed[candidates[i].place].bucket
         /\ candidates[i].bucket \notin allowed
    /\ \A i, j \in DOMAIN candidates : i < j => candidates[i].place < candidates[j].place

(* The preview is the candidates, sorted. *)
RulesOK == pc = "shown" => /\ rules \in Seq(Scored)
                           /\ Ranked(rules)
                           /\ Range(rules) = Range(candidates)

KeptOK ==
    /\ kept \subseteq approved
    /\ Scoring => kept \subseteq allowed

(* A row that is due is on the list and unapproved; when the request has come
   past it, it is a candidate; while it scores it, the malicious address is
   still to be looked up or its verdict has been read. *)
DueOK ==
    /\ due \subseteq AllDue
    /\ \A d \in due :
         /\ \E i \in DOMAIN listed :
              listed[i].bucket = d[1] /\ listed[i].count >= MinSampleCount
         /\ Scoring => d[1] \notin allowed
         /\ ~blind => \A i \in 1 .. place - 1 : listed[i].bucket = d[1] =>
                        \E j \in DOMAIN candidates : candidates[j].bucket = d[1]
         /\ pc = "verdicts" /\ ~blind /\ listed[place].bucket = d[1] =>
              d[2] \in todo \/ AnyMalicious(reps)

IInv == TypeOK /\ StagesOK /\ ListedOK /\ CandidatesOK /\ RulesOK /\ KeptOK /\ DueOK

(* What each step leaves of it besides the types. *)
RestOK == StagesOK /\ ListedOK /\ CandidatesOK /\ RulesOK /\ KeptOK /\ DueOK

LEMMA InitIInv == Init => IInv
  <1> SUFFICES ASSUME Init PROVE IInv
    OBVIOUS
  <1>1. TypeOK
    <2>1. /\ usage \in Seq([bucket : Buckets, count : Nat, distinct : Nat, heavy : BOOLEAN])
          /\ DOMAIN usage = {}
      BY DEF Init
    <2>2. candidates = <<>> /\ listed = <<>> /\ place \in 1 .. Len(listed) + 1
      BY DEF Init
    <2>3. verdict \in [Addresses -> Verdicts \cup {NoVerdict}]
      BY DEF Init
    <2> QED
      BY <2>1, <2>2, <2>3 DEF Init, TypeOK
  <1>2. StagesOK /\ ListedOK /\ CandidatesOK /\ RulesOK /\ KeptOK
    BY DEF Init, StagesOK, ListedOK, CandidatesOK, RulesOK, KeptOK, OneEach, Scoring
  <1>3. DueOK
    BY DEF Init, DueOK
  <1> QED
    BY <1>1, <1>2, <1>3 DEF IInv

-----------------------------------------------------------------------------
(* Steps that change the tables.                                           *)

(* What RemoveAt leaves where. *)
LEMMA RemoveAtPlaces ==
    ASSUME NEW Elems, NEW s \in Seq(Elems), NEW k \in DOMAIN s
    PROVE  /\ RemoveAt(s, k) \in Seq(Elems)
           /\ Len(RemoveAt(s, k)) = Len(s) - 1
           /\ \A i \in 1 .. Len(s) - 1 :
                RemoveAt(s, k)[i] = IF i < k THEN s[i] ELSE s[i + 1]
  <1> DEFINE front == SubSeq(s, 1, k - 1)
             back  == SubSeq(s, k + 1, Len(s))
             whole == front \o back
  <1>1. /\ front \in Seq(Elems) /\ Len(front) = k - 1
        /\ \A i \in 1 .. k - 1 : front[i] = s[i]
    OBVIOUS
  <1>2. /\ back \in Seq(Elems) /\ Len(back) = Len(s) - k
        /\ \A i \in 1 .. Len(s) - k : back[i] = s[k + i]
    OBVIOUS
  <1>3. RemoveAt(s, k) = whole
    BY DEF RemoveAt
  <1> HIDE DEF front, back
  <1>4. /\ whole \in Seq(Elems) /\ Len(whole) = Len(s) - 1
        /\ \A i \in 1 .. k - 1 : whole[i] = front[i]
        /\ \A i \in k .. Len(s) - 1 : whole[i] = back[i - (k - 1)]
    BY <1>1, <1>2
  <1> HIDE DEF whole
  <1>5. \A i \in 1 .. Len(s) - 1 : whole[i] = IF i < k THEN s[i] ELSE s[i + 1]
    <2> TAKE i \in 1 .. Len(s) - 1
    <2>1. CASE i \in 1 .. k - 1
      BY <1>1, <1>4, <2>1
    <2>2. CASE i \in k .. Len(s) - 1
      <3>1. i - (k - 1) \in 1 .. Len(s) - k /\ k + (i - (k - 1)) = i + 1
        BY <2>2
      <3>2. back[i - (k - 1)] = s[k + (i - (k - 1))]
        BY <1>2, <3>1
      <3> QED
        BY <1>4, <2>2, <3>1, <3>2
    <2> QED
      BY <2>1, <2>2
  <1> QED
    BY <1>3, <1>4, <1>5

(* The upsert keeps one row for each bucket. *)
LEMMA UpsertedRows ==
    ASSUME usage \in Seq(Rows), OneEach(usage), NEW row \in Rows
    PROVE  Upserted(row) \in Seq(Rows) /\ OneEach(Upserted(row))
  <1> DEFINE others == IF RowsOf(row.bucket) = {} THEN usage
                       ELSE RemoveAt(usage, RowOf(row.bucket))
  <1>1. /\ others \in Seq(Rows) /\ OneEach(others)
        /\ \A i \in DOMAIN others : others[i].bucket # row.bucket
    <2>1. CASE RowsOf(row.bucket) = {}
      BY <2>1 DEF RowsOf
    <2>2. CASE RowsOf(row.bucket) # {}
      <3> DEFINE k == RowOf(row.bucket)
      <3>1. k \in DOMAIN usage /\ usage[k].bucket = row.bucket
        BY <2>2 DEF RowOf, RowsOf
      <3>2. others = RemoveAt(usage, k)
        BY <2>2
      <3> HIDE DEF k, others
      <3>3. /\ others \in Seq(Rows) /\ Len(others) = Len(usage) - 1
            /\ \A i \in 1 .. Len(usage) - 1 :
                 others[i] = IF i < k THEN usage[i] ELSE usage[i + 1]
        BY <3>1, <3>2, RemoveAtPlaces
      <3>4. OneEach(others)
        <4> SUFFICES ASSUME NEW i \in 1 .. Len(usage) - 1, NEW j \in 1 .. Len(usage) - 1,
                            others[i].bucket = others[j].bucket
                     PROVE  i = j
          BY <3>3 DEF OneEach
        <4>1. /\ others[i] = IF i < k THEN usage[i] ELSE usage[i + 1]
              /\ others[j] = IF j < k THEN usage[j] ELSE usage[j + 1]
          BY <3>3
        <4> QED
          BY <3>1, <4>1 DEF OneEach
      <3>5. ASSUME NEW i \in 1 .. Len(usage) - 1
            PROVE  others[i].bucket # row.bucket
        <4>1. Len(usage) \in Nat /\ DOMAIN usage = 1 .. Len(usage) /\ k \in 1 .. Len(usage)
          BY <3>1
        <4>2. PICK j \in DOMAIN usage : j # k /\ others[i] = usage[j]
          <5>1. CASE i < k
            <6>1. others[i] = usage[i]
              BY <3>3, <5>1
            <6>2. i \in DOMAIN usage /\ i # k
              BY <4>1, <5>1
            <6> QED
              BY <6>1, <6>2
          <5>2. CASE ~(i < k)
            <6>1. others[i] = usage[i + 1]
              BY <3>3, <5>2
            <6>2. i + 1 \in DOMAIN usage /\ i + 1 # k
              BY <4>1, <5>2
            <6> QED
              BY <6>1, <6>2
          <5> QED
            BY <5>1, <5>2
        <4> QED
          BY <3>1, <4>2 DEF OneEach
      <3>6. DOMAIN others = 1 .. Len(usage) - 1
        BY <3>3
      <3> QED
        BY <3>3, <3>4, <3>5, <3>6
    <2> QED
      BY <2>1, <2>2
  <1>2. Upserted(row) = <<row>> \o others
    BY DEF Upserted
  <1> HIDE DEF others
  <1> DEFINE whole == <<row>> \o others
  <1>3. /\ whole \in Seq(Rows) /\ Len(whole) = Len(others) + 1 /\ Len(others) \in Nat
        /\ whole[1] = row
        /\ \A i \in 2 .. Len(others) + 1 : whole[i] = others[i - 1]
    BY <1>1
  <1> HIDE DEF whole
  <1>4. OneEach(whole)
    <2> SUFFICES ASSUME NEW i \in 1 .. Len(others) + 1, NEW j \in 1 .. Len(others) + 1,
                        whole[i].bucket = whole[j].bucket
                 PROVE  i = j
      BY <1>3 DEF OneEach
    <2>1. ASSUME NEW m \in 2 .. Len(others) + 1
          PROVE  m - 1 \in DOMAIN others /\ whole[m] = others[m - 1]
      BY <1>1, <1>3
    <2>2. CASE i = 1 /\ j # 1
      BY <1>1, <1>3, <2>1, <2>2
    <2>3. CASE i # 1 /\ j = 1
      BY <1>1, <1>3, <2>1, <2>3
    <2>4. CASE i # 1 /\ j # 1
      <3>1. i \in 2 .. Len(others) + 1 /\ j \in 2 .. Len(others) + 1
        BY <1>3, <2>4
      <3>2. others[i - 1].bucket = others[j - 1].bucket /\ i - 1 = j - 1
        BY <1>1, <2>1, <3>1 DEF OneEach
      <3> QED
        BY <3>1, <3>2
    <2> QED
      BY <2>2, <2>3, <2>4
  <1> QED
    BY <1>2, <1>3, <1>4 DEF whole

(* Whatever the tables become, the request goes on from what it has read. *)
LEMMA TablesChange ==
    ASSUME IInv, UNCHANGED progress, Observe
    PROVE  RestOK'
  <1>1. kept' \subseteq kept /\ due' \subseteq due /\ kept' \subseteq approved' /\ due' \subseteq AllDue'
    BY DEF Observe
  <1>2. UNCHANGED <<pc, listed, allowed, place, todo, reps, candidates, rules, blind>>
    BY DEF progress
  <1>3. StagesOK' /\ ListedOK' /\ CandidatesOK' /\ RulesOK'
    BY <1>1, <1>2 DEF IInv, StagesOK, ListedOK, CandidatesOK, RulesOK, Scoring, OneEach, Skipped
  <1>4. KeptOK' /\ DueOK'
    BY <1>1, <1>2 DEF IInv, KeptOK, DueOK, Scoring
  <1> QED
    BY <1>3, <1>4 DEF RestOK

LEMMA TablesKeep ==
    ASSUME IInv, Tables
    PROVE  IInv'
  <1>1. UNCHANGED progress /\ Observe /\ TypeOK
    BY DEF Tables, TableFrame, BumpPortUsage, VerdictArrives, VerdictExpires, ApprovePort,
           UnapprovePort, ClearAllHistory, IInv
  <1>2. RestOK'
    BY <1>1, TablesChange
  <1>3. /\ usage' \in Seq(Rows) /\ OneEach(usage')
        /\ dstIPs' \subseteq Buckets \X Addresses
        /\ approved' \subseteq Buckets
        /\ verdict' \in [Addresses -> Verdicts \cup {NoVerdict}]
    <2>0. /\ usage \in Seq(Rows) /\ OneEach(usage)
          /\ dstIPs \subseteq Buckets \X Addresses
          /\ approved \subseteq Buckets
          /\ verdict \in [Addresses -> Verdicts \cup {NoVerdict}]
      BY <1>1 DEF TypeOK, Rows, OneEach
    <2>1. CASE BumpPortUsage
      <3>1. PICK b \in Buckets, address \in Addresses, new \in BOOLEAN, heavy \in Volumes :
              LET old == IF RowsOf(b) = {}
                         THEN [bucket |-> b, count |-> 0, distinct |-> 0, heavy |-> FALSE]
                         ELSE usage[RowOf(b)]
                  row == [bucket   |-> b,
                          count    |-> old.count + (IF new THEN 1 ELSE 0),
                          distinct |-> old.distinct
                                         + (IF <<b, address>> \in dstIPs THEN 0 ELSE 1),
                          heavy    |-> old.heavy \/ heavy]
              IN  /\ usage' = Upserted(row)
                  /\ dstIPs' = dstIPs \cup {<<b, address>>}
        BY <2>1 DEF BumpPortUsage
      <3> DEFINE old == IF RowsOf(b) = {}
                        THEN [bucket |-> b, count |-> 0, distinct |-> 0, heavy |-> FALSE]
                        ELSE usage[RowOf(b)]
                 row == [bucket   |-> b,
                         count    |-> old.count + (IF new THEN 1 ELSE 0),
                         distinct |-> old.distinct
                                        + (IF <<b, address>> \in dstIPs THEN 0 ELSE 1),
                         heavy    |-> old.heavy \/ heavy]
      <3>2. old \in Rows
        <4>1. CASE RowsOf(b) = {}
          <5>1. old = [bucket |-> b, count |-> 0, distinct |-> 0, heavy |-> FALSE]
            BY <4>1, Zenon
          <5> HIDE DEF old
          <5> QED
            BY <5>1 DEF Rows
        <4>2. CASE RowsOf(b) # {}
          <5>1. RowOf(b) \in DOMAIN usage
            BY <4>2 DEF RowOf, RowsOf
          <5>2. old = usage[RowOf(b)]
            BY <4>2, Zenon
          <5> HIDE DEF old
          <5> QED
            BY <2>0, <5>1, <5>2
        <4> QED
          BY <4>1, <4>2
      <3> HIDE DEF old
      <3>3. row \in Rows
        <4>1. (old.heavy \/ heavy) \in BOOLEAN
          OBVIOUS
        <4>2. old.count + (IF new THEN 1 ELSE 0) \in Nat
          BY <3>2 DEF Rows
        <4>3. old.distinct + (IF <<b, address>> \in dstIPs THEN 0 ELSE 1) \in Nat
          BY <3>2 DEF Rows
        <4> QED
          BY <4>1, <4>2, <4>3 DEF Rows
      <3>4. usage' = Upserted(row)
        BY <3>1 DEF old
      <3>5. dstIPs' = dstIPs \cup {<<b, address>>}
        BY <3>1
      <3> HIDE DEF row
      <3>6. usage' \in Seq(Rows) /\ OneEach(usage')
        BY <2>0, <3>3, <3>4, UpsertedRows
      <3> QED
        BY <2>0, <2>1, <3>5, <3>6 DEF BumpPortUsage
    <2>2. CASE VerdictArrives \/ VerdictExpires \/ ApprovePort \/ UnapprovePort
      BY <2>0, <2>2 DEF VerdictArrives, VerdictExpires, ApprovePort, UnapprovePort
    <2>3. CASE ClearAllHistory
      BY <2>3 DEF ClearAllHistory, OneEach
    <2> QED
      BY <2>1, <2>2, <2>3 DEF Tables
  <1>4. TypeOK'
    BY <1>1, <1>3 DEF TypeOK, progress, Rows, OneEach
  <1> QED
    BY <1>2, <1>4 DEF IInv, RestOK

-----------------------------------------------------------------------------
(* Steps of the request.                                                   *)

LEMMA ForgetKeeps ==
    ASSUME IInv, Forget, pc' = "idle", UNCHANGED tables
    PROVE  IInv'
  <1>1. TypeOK'
    <2>1. candidates' = <<>> /\ listed' = <<>> /\ place' \in 1 .. Len(listed') + 1
      BY DEF Forget
    <2>2. UNCHANGED <<usage, dstIPs, approved, verdict>>
      BY DEF tables
    <2>3. /\ allowed' \subseteq Buckets /\ todo' \subseteq Addresses \ Private
          /\ reps' \subseteq Verdicts /\ blind' \in BOOLEAN
      BY DEF Forget
    <2> QED
      BY <2>1, <2>2, <2>3 DEF IInv, TypeOK
  <1>2. StagesOK' /\ ListedOK' /\ CandidatesOK' /\ RulesOK' /\ KeptOK'
    BY DEF Forget, StagesOK, ListedOK, CandidatesOK, RulesOK, KeptOK, OneEach, Scoring
  <1>3. DueOK'
    BY DEF Forget, DueOK
  <1> QED
    BY <1>1, <1>2, <1>3 DEF IInv

LEMMA ListKeeps ==
    ASSUME IInv, ListPortUsage
    PROVE  IInv'
  <1>1. /\ pc = "idle" /\ pc' = "approved" /\ listed' = usage /\ kept' = approved /\ due' = AllDue
        /\ UNCHANGED <<usage, dstIPs, approved, verdict>>
        /\ UNCHANGED <<allowed, place, todo, reps, candidates, rules, blind>>
    BY DEF ListPortUsage, RequestFrame, tables
  <1>2. place = 1 /\ candidates = <<>> /\ rules = <<>> /\ reps = {}
    BY <1>1 DEF IInv, StagesOK, Scoring
  <1>3. usage \in Seq(Rows) /\ OneEach(usage)
    BY DEF IInv, TypeOK, Rows, OneEach
  <1>4. TypeOK'
    <2>1. place' \in 1 .. Len(listed') + 1
      BY <1>1, <1>2, <1>3
    <2> QED
      BY <1>1, <2>1 DEF IInv, TypeOK
  <1>5. StagesOK' /\ ListedOK' /\ CandidatesOK' /\ RulesOK' /\ KeptOK'
    BY <1>1, <1>2, <1>3
    DEF StagesOK, ListedOK, CandidatesOK, RulesOK, KeptOK, OneEach, Scoring
  <1>6. DueOK'
    <2>1. due' \subseteq AllDue'
      BY <1>1 DEF AllDue, AsksForRule, RowsOf
    <2>2. \A d \in due' : \E i \in DOMAIN listed' :
            listed'[i].bucket = d[1] /\ listed'[i].count >= MinSampleCount
      BY <1>1 DEF AllDue, AsksForRule, RowsOf
    <2> QED
      BY <1>1, <1>2, <2>1, <2>2 DEF DueOK, Scoring
  <1> QED
    BY <1>4, <1>5, <1>6 DEF IInv

(* What a step of the request that only goes on leaves to the observers. *)
LEMMA Observed ==
    ASSUME Observe, UNCHANGED tables
    PROVE  /\ kept' \subseteq kept /\ kept' \subseteq approved'
           /\ due' \subseteq due /\ due' \subseteq AllDue'
           /\ UNCHANGED <<usage, dstIPs, approved, verdict>>
  BY DEF Observe, tables

LEMMA ApprovedSetKeeps ==
    ASSUME IInv, ApprovedSet
    PROVE  IInv'
  <1>1. /\ pc = "approved" /\ UNCHANGED tables
        /\ \/ /\ pc' = "row" /\ allowed' = approved
              /\ UNCHANGED <<listed, place, todo, reps, candidates, rules, blind>>
              /\ Observe
           \/ pc' = "idle" /\ Forget
    BY DEF ApprovedSet, RequestFrame
  <1>2. CASE pc' = "idle" /\ Forget
    BY <1>1, <1>2, ForgetKeeps
  <1>3. CASE /\ pc' = "row" /\ allowed' = approved
             /\ UNCHANGED <<listed, place, todo, reps, candidates, rules, blind>>
             /\ Observe
    <2>1. /\ kept' \subseteq kept /\ kept' \subseteq approved'
          /\ due' \subseteq due /\ due' \subseteq AllDue'
          /\ UNCHANGED <<usage, dstIPs, approved, verdict>>
      BY <1>1, <1>3, Observed
    <2>2. place = 1 /\ candidates = <<>> /\ rules = <<>> /\ reps = {}
      BY <1>1 DEF IInv, StagesOK, Scoring
    <2>3. TypeOK'
      BY <1>3, <2>1 DEF IInv, TypeOK
    <2>4. StagesOK' /\ ListedOK' /\ CandidatesOK' /\ RulesOK' /\ KeptOK'
      BY <1>1, <1>3, <2>1, <2>2
      DEF IInv, StagesOK, ListedOK, CandidatesOK, RulesOK, KeptOK, OneEach, Scoring
    <2>5. \A d \in due' : d[1] \notin allowed'
      BY <1>3, <2>1 DEF AllDue, AsksForRule
    <2>6. DueOK'
      BY <1>3, <2>1, <2>2, <2>5 DEF IInv, DueOK
    <2> QED
      BY <2>3, <2>4, <2>6 DEF IInv
  <1> QED
    BY <1>1, <1>2, <1>3

LEMMA SkipKeeps ==
    ASSUME IInv, SkipRow
    PROVE  IInv'
  <1>1. /\ pc = "row" /\ place <= Len(listed) /\ Skipped(listed[place]) /\ place' = place + 1
        /\ UNCHANGED tables
        /\ UNCHANGED <<pc, listed, allowed, todo, reps, candidates, rules, blind>> /\ Observe
    BY DEF SkipRow, RequestFrame
  <1>2. /\ kept' \subseteq kept /\ kept' \subseteq approved'
        /\ due' \subseteq due /\ due' \subseteq AllDue'
        /\ UNCHANGED <<usage, dstIPs, approved, verdict>>
    BY <1>1, Observed
  <1>3. place \in 1 .. Len(listed) /\ listed \in Seq(Rows) /\ OneEach(listed)
    BY <1>1 DEF IInv, TypeOK, ListedOK
  <1>4. TypeOK'
    BY <1>1, <1>2, <1>3 DEF IInv, TypeOK
  <1>5. StagesOK' /\ ListedOK' /\ RulesOK' /\ KeptOK'
    BY <1>1, <1>2 DEF IInv, StagesOK, ListedOK, RulesOK, KeptOK, OneEach, Scoring
  <1>6. CandidatesOK'
    BY <1>1, <1>3 DEF IInv, CandidatesOK
  <1>7. \A d \in due : listed[place].bucket # d[1]
    <2> SUFFICES ASSUME NEW d \in due, listed[place].bucket = d[1] PROVE FALSE
      OBVIOUS
    <2>1. d[1] \notin allowed
      BY <1>1 DEF IInv, DueOK, Scoring
    <2>2. PICK i \in DOMAIN listed :
            listed[i].bucket = d[1] /\ listed[i].count >= MinSampleCount
      BY DEF IInv, DueOK
    <2>3. i = place
      BY <1>3, <2>2 DEF OneEach
    <2>4. listed[place].count < MinSampleCount
      BY <1>1, <2>1 DEF Skipped
    <2>5. listed[place].count \in Nat /\ MinSampleCount \in Nat
      <3>1. listed[place] \in Rows
        BY <1>3
      <3> QED
        BY <3>1, PreviewConstants DEF Rows
    <2> QED
      BY <2>2, <2>3, <2>4, <2>5
  <1>8. DueOK'
    BY <1>1, <1>2, <1>3, <1>7 DEF IInv, DueOK, Scoring
  <1> QED
    BY <1>4, <1>5, <1>6, <1>8 DEF IInv

LEMMA DistinctKeeps ==
    ASSUME IInv, DistinctDstIPsForBucket
    PROVE  IInv'
  <1>1. /\ pc = "row" /\ place <= Len(listed) /\ ~Skipped(listed[place]) /\ pc' = "verdicts"
        /\ \/ /\ todo' = {a \in Addresses \ Private : <<listed[place].bucket, a>> \in dstIPs}
              /\ blind' = blind
           \/ todo' = {} /\ blind' = TRUE
        /\ UNCHANGED tables
        /\ UNCHANGED <<listed, allowed, place, reps, candidates, rules>> /\ Observe
    BY DEF DistinctDstIPsForBucket, RequestFrame
  <1>2. /\ kept' \subseteq kept /\ kept' \subseteq approved'
        /\ due' \subseteq due /\ due' \subseteq AllDue'
        /\ UNCHANGED <<usage, dstIPs, approved, verdict>>
    BY <1>1, Observed
  <1>3. TypeOK'
    BY <1>1, <1>2 DEF IInv, TypeOK
  <1>4. StagesOK' /\ ListedOK' /\ CandidatesOK' /\ RulesOK' /\ KeptOK'
    BY <1>1, <1>2
    DEF IInv, StagesOK, ListedOK, CandidatesOK, RulesOK, KeptOK, OneEach, Scoring, Skipped
  <1>5. ASSUME NEW d \in due', ~blind', listed[place].bucket = d[1]
        PROVE  d[2] \in todo'
    <2>1. d \in AllDue
      BY <1>2 DEF IInv, DueOK
    <2>2. d \in Buckets \X Addresses /\ <<d[1], d[2]>> \in dstIPs /\ d[2] \notin Private
      BY <2>1 DEF AllDue, AsksForRule
    <2>3. todo' = {a \in Addresses \ Private : <<listed[place].bucket, a>> \in dstIPs}
      BY <1>1, <1>5
    <2> QED
      BY <1>5, <2>2, <2>3
  <1>6. ~blind' => ~blind
    BY <1>1
  <1>7. DueOK'
    BY <1>1, <1>2, <1>5, <1>6 DEF IInv, DueOK, Scoring
  <1> QED
    BY <1>3, <1>4, <1>7 DEF IInv

LEMMA CachedKeeps ==
    ASSUME IInv, CachedReputation
    PROVE  IInv'
  <1>1. PICK address \in todo :
          /\ todo' = todo \ {address}
          /\ \/ /\ reps' = IF verdict[address] = NoVerdict THEN reps
                           ELSE reps \cup {verdict[address]}
                /\ blind' = blind
             \/ reps' = reps /\ blind' = TRUE
    BY DEF CachedReputation
  <1>2. /\ pc = "verdicts" /\ UNCHANGED tables
        /\ UNCHANGED <<pc, listed, allowed, place, candidates, rules>> /\ Observe
    BY DEF CachedReputation, RequestFrame
  <1>3. /\ kept' \subseteq kept /\ kept' \subseteq approved'
        /\ due' \subseteq due /\ due' \subseteq AllDue'
        /\ UNCHANGED <<usage, dstIPs, approved, verdict>>
    BY <1>2, Observed
  <1>4. address \in Addresses /\ verdict[address] \in Verdicts \cup {NoVerdict}
    BY DEF IInv, TypeOK
  <1>5. reps' \subseteq Verdicts /\ reps \subseteq reps' /\ todo' \subseteq Addresses \ Private
        /\ blind' \in BOOLEAN /\ (~blind' => ~blind)
    BY <1>1, <1>4 DEF IInv, TypeOK
  <1>6. TypeOK'
    BY <1>2, <1>3, <1>5 DEF IInv, TypeOK
  <1>7. StagesOK' /\ ListedOK' /\ CandidatesOK' /\ RulesOK' /\ KeptOK'
    BY <1>2, <1>3
    DEF IInv, StagesOK, ListedOK, CandidatesOK, RulesOK, KeptOK, OneEach, Scoring, Skipped
  <1>8. ASSUME NEW d \in due', ~blind', listed[place].bucket = d[1]
        PROVE  d[2] \in todo' \/ AnyMalicious(reps')
    <2>1. d[2] \in todo \/ AnyMalicious(reps)
      BY <1>2, <1>3, <1>5, <1>8 DEF IInv, DueOK
    <2>2. CASE AnyMalicious(reps)
      BY <1>5, <2>2 DEF AnyMalicious
    <2>3. CASE d[2] \in todo /\ d[2] # address
      BY <1>1, <2>3
    <2>4. CASE d[2] = address
      <3>1. Malicious(verdict[address])
        BY <1>3, <2>4 DEF IInv, DueOK, AllDue, AsksForRule
      <3>2. verdict[address] # NoVerdict
        BY <3>1 DEF Malicious, NoVerdict
      <3>3. verdict[address] \in reps'
        BY <1>1, <1>8, <3>2
      <3> QED
        BY <3>1, <3>3 DEF AnyMalicious
    <2> QED
      BY <2>1, <2>2, <2>3, <2>4
  <1>9. DueOK'
    BY <1>2, <1>3, <1>5, <1>8 DEF IInv, DueOK, Scoring
  <1> QED
    BY <1>6, <1>7, <1>9 DEF IInv

LEMMA ScoreKeeps ==
    ASSUME IInv, ScoreRow
    PROVE  IInv'
  <1> DEFINE u == listed[place]
  <1>1. /\ pc = "verdicts" /\ todo = {} /\ pc' = "row" /\ place' = place + 1 /\ reps' = {}
        /\ UNCHANGED tables
        /\ UNCHANGED <<listed, allowed, todo, rules, blind>> /\ Observe
    BY DEF ScoreRow, RequestFrame
  <1>2. /\ kept' \subseteq kept /\ kept' \subseteq approved'
        /\ due' \subseteq due /\ due' \subseteq AllDue'
        /\ UNCHANGED <<usage, dstIPs, approved, verdict>>
    BY <1>1, Observed
  <1>3. /\ place \in 1 .. Len(listed) /\ listed \in Seq(Rows) /\ OneEach(listed)
        /\ ~Skipped(u) /\ reps \in SUBSET ReputationInfo
    BY <1>1, PreviewConstants DEF IInv, TypeOK, ListedOK, StagesOK
  <1>4. u \in Rows /\ u.bucket \in Buckets /\ u.bucket.port \in Int /\ u.bucket \notin allowed
    <2>1. u \in Rows
      BY <1>3
    <2>2. u.bucket \in Buckets
      BY <2>1 DEF Rows
    <2> QED
      BY <1>3, <2>1, <2>2, PreviewConstants DEF Skipped
  <1>5. PICK old \in BOOLEAN :
          candidates' =
            IF bucketFor(ScorePortUsage(u.bucket.port, u.bucket.app, u, old, reps)) = "low"
                 /\ ~IncludeLowRisk
            THEN candidates
            ELSE Append(candidates,
                        [bucket |-> u.bucket,
                         score  |-> ScorePortUsage(u.bucket.port, u.bucket.app, u, old, reps),
                         place  |-> place])
    BY DEF ScoreRow
  <1> DEFINE score == ScorePortUsage(u.bucket.port, u.bucket.app, u, old, reps)
             c == [bucket |-> u.bucket, score |-> score, place |-> place]
  <1>6. u.count \in Nat /\ u.distinct \in Nat /\ u.heavy \in BOOLEAN
    BY <1>4 DEF Rows
  <1>7. score \in 0 .. 100
    <2> HIDE DEF u
    <2> QED
      BY <1>4, <1>6, ScoreType
  <1>8. AnyMalicious(reps) => bucketFor(score) # "low"
    <2> HIDE DEF u
    <2> QED
      BY <1>3, <1>4, <1>6, MaliciousUsageNotLow
  <1>9. /\ candidates' = candidates \/ candidates' = Append(candidates, c)
        /\ AnyMalicious(reps) => candidates' = Append(candidates, c)
    <2> HIDE DEF u
    <2> QED
      BY <1>5, <1>8
  <1> HIDE DEF score
  <1>10. c \in Scored /\ c.place = place /\ c.bucket = u.bucket
    BY <1>3, <1>4, <1>7 DEF Scored
  <1> HIDE DEF c
  <1>11. /\ candidates \in Seq(Scored) /\ candidates' \in Seq(Scored)
         /\ \A i \in DOMAIN candidates : i \in DOMAIN candidates' /\ candidates'[i] = candidates[i]
         /\ \A i \in DOMAIN candidates' \ DOMAIN candidates :
              i = Len(candidates) + 1 /\ candidates'[i] = c
         /\ AnyMalicious(reps) => \E i \in DOMAIN candidates' : candidates'[i] = c
    <2>1. candidates \in Seq(Scored)
      BY DEF IInv, CandidatesOK
    <2> QED
      BY <1>9, <1>10, <2>1
  <1>12. TypeOK'
    <2>0. \A i \in DOMAIN candidates' : candidates'[i] \in Scored
      BY <1>11
    <2>1. \A i \in DOMAIN candidates' : candidates'[i].score \in 0 .. 100
      BY <2>0 DEF Scored
    <2> QED
      BY <1>1, <1>2, <1>3, <2>1 DEF IInv, TypeOK
  <1>13. StagesOK' /\ ListedOK' /\ RulesOK' /\ KeptOK'
    BY <1>1, <1>2 DEF IInv, StagesOK, ListedOK, RulesOK, KeptOK, OneEach, Scoring
  <1>14. CandidatesOK'
    <2>1. \A i \in DOMAIN candidates :
            /\ candidates[i].place \in 1 .. place - 1
            /\ candidates[i].bucket = listed[candidates[i].place].bucket
            /\ candidates[i].bucket \notin allowed
      BY DEF IInv, CandidatesOK
    <2>2. \A i \in DOMAIN candidates' :
            /\ candidates'[i].place \in 1 .. place
            /\ candidates'[i].bucket = listed[candidates'[i].place].bucket
            /\ candidates'[i].bucket \notin allowed
      <3> TAKE i \in DOMAIN candidates'
      <3>1. CASE i \in DOMAIN candidates
        BY <1>3, <1>11, <2>1, <3>1
      <3>2. CASE i \notin DOMAIN candidates
        BY <1>3, <1>4, <1>10, <1>11, <3>2
      <3> QED
        BY <3>1, <3>2
    <2>3. ASSUME NEW i \in DOMAIN candidates', NEW j \in DOMAIN candidates', i < j
          PROVE  candidates'[i].place < candidates'[j].place
      <3>1. i \in DOMAIN candidates
        BY <1>11, <2>3
      <3>2. CASE j \in DOMAIN candidates
        BY <1>11, <2>3, <3>1, <3>2 DEF IInv, CandidatesOK
      <3>3. CASE j \notin DOMAIN candidates
        <4>1. candidates'[j].place = place /\ candidates'[i].place \in 1 .. place - 1
          BY <1>10, <1>11, <2>1, <3>1, <3>3
        <4> QED
          BY <1>3, <4>1
      <3> QED
        BY <3>2, <3>3
    <2> QED
      BY <1>1, <1>3, <1>11, <2>2, <2>3 DEF CandidatesOK
  <1>15. ASSUME NEW d \in due', ~blind, NEW i \in 1 .. place, listed[i].bucket = d[1]
         PROVE  \E j \in DOMAIN candidates' : candidates'[j].bucket = d[1]
    <2>1. CASE i = place
      <3>1. AnyMalicious(reps)
        BY <1>1, <1>2, <1>15, <2>1 DEF IInv, DueOK
      <3> QED
        BY <1>10, <1>11, <1>15, <2>1, <3>1
    <2>2. CASE i # place
      <3>1. i \in 1 .. place - 1
        BY <1>3, <2>2
      <3>2. PICK j \in DOMAIN candidates : candidates[j].bucket = d[1]
        BY <1>2, <1>15, <3>1 DEF IInv, DueOK
      <3> QED
        BY <1>11, <3>2
    <2> QED
      BY <2>1, <2>2
  <1>16. place' - 1 = place
    BY <1>1, <1>3
  <1>17. DueOK'
    BY <1>1, <1>2, <1>15, <1>16 DEF IInv, DueOK, Scoring
  <1> QED
    BY <1>12, <1>13, <1>14, <1>17 DEF IInv

LEMMA GenerateKeeps ==
    ASSUME IInv, Generate
    PROVE  IInv'
  <1>1. /\ pc = "row" /\ place > Len(listed) /\ pc' = "shown"
        /\ rules' = FoldLeft(Inserted, <<>>, candidates)
        /\ UNCHANGED tables
        /\ UNCHANGED <<listed, allowed, place, todo, reps, candidates, blind>> /\ Observe
    BY DEF Generate, RequestFrame
  <1>2. /\ kept' \subseteq kept /\ kept' \subseteq approved'
        /\ due' \subseteq due /\ due' \subseteq AllDue'
        /\ UNCHANGED <<usage, dstIPs, approved, verdict>>
    BY <1>1, Observed
  <1>3. rules' \in Seq(Scored) /\ Ranked(rules') /\ Range(rules') = Range(candidates)
    <2>1. candidates \in Seq(Scored)
      BY DEF IInv, CandidatesOK
    <2>2. \A i, j \in DOMAIN candidates : i # j => candidates[i].place # candidates[j].place
      <3>1. \A i \in DOMAIN candidates : candidates[i].place \in Int /\ i \in Int
        <4>1. \A i \in DOMAIN candidates : candidates[i] \in Scored /\ i \in Int
          BY <2>1
        <4> QED
          BY <4>1 DEF Scored
      <3>2. \A i, j \in DOMAIN candidates : i < j => candidates[i].place < candidates[j].place
        BY DEF IInv, CandidatesOK
      <3> QED
        BY <3>1, <3>2
    <2> QED
      BY <1>1, <2>1, <2>2, GeneratedRanked
  <1>4. TypeOK'
    BY <1>1, <1>2 DEF IInv, TypeOK
  <1>5. StagesOK' /\ ListedOK' /\ CandidatesOK' /\ KeptOK'
    BY <1>1, <1>2 DEF IInv, StagesOK, ListedOK, CandidatesOK, KeptOK, OneEach, Scoring
  <1>6. RulesOK'
    <2>1. candidates' = candidates
      BY <1>1
    <2> QED
      BY <1>3, <2>1, Zenon DEF RulesOK
  <1>7. DueOK'
    BY <1>1, <1>2 DEF IInv, DueOK, Scoring
  <1> QED
    BY <1>4, <1>5, <1>6, <1>7 DEF IInv

LEMMA NextIInv == IInv /\ [Next]_vars => IInv'
  <1> SUFFICES ASSUME IInv, [Next]_vars PROVE IInv'
    OBVIOUS
  <1>1. CASE Request
    <2>1. CASE Reply
      <3>1. Forget /\ pc' = "idle" /\ UNCHANGED tables
        BY <2>1 DEF Reply, RequestFrame
      <3> QED
        BY <3>1, ForgetKeeps
    <2> QED
      BY <1>1, <2>1, ListKeeps, ApprovedSetKeeps, SkipKeeps, DistinctKeeps, CachedKeeps,
         ScoreKeeps, GenerateKeeps DEF Request
  <1>2. CASE UNCHANGED vars
    <2>1. UNCHANGED <<usage, dstIPs, approved, verdict, pc, listed, allowed, place, todo, reps,
                      candidates, rules, blind, kept, due>>
      BY <1>2 DEF vars, tables, progress, observers
    <2>2. TypeOK'
      BY <2>1 DEF IInv, TypeOK
    <2>3. StagesOK' /\ ListedOK' /\ CandidatesOK' /\ RulesOK' /\ KeptOK'
      BY <2>1
      DEF IInv, StagesOK, ListedOK, CandidatesOK, RulesOK, KeptOK, OneEach, Scoring, Skipped
    <2>4. AllDue' = AllDue
      BY <2>1 DEF AllDue, AsksForRule, RowsOf
    <2>5. DueOK'
      BY <2>1, <2>4 DEF IInv, DueOK, Scoring
    <2> QED
      BY <2>2, <2>3, <2>5 DEF IInv
  <1> QED
    BY <1>1, <1>2, TablesKeep DEF Next

-----------------------------------------------------------------------------

(* Every variable has its type, a bucket has one row, and every score is
   between 0 and 100. *)
THEOREM TypeCorrect == Spec => []TypeOK
  <1>1. IInv => TypeOK
    BY DEF IInv
  <1> QED
    BY <1>1, InitIInv, NextIInv, PTL DEF Spec

(* A bucket that was approved all along gets no rule, whatever else is approved
   and unapproved between the queries of the request. *)
THEOREM ApprovedSafe == Spec => []ApprovedNotDenied
  <1>1. IInv => ApprovedNotDenied
    <2> SUFFICES ASSUME IInv, pc = "shown", NEW b \in kept, NEW i \in DOMAIN rules,
                        rules[i].bucket = b
                 PROVE  FALSE
      BY DEF ApprovedNotDenied, Shown
    <2>1. rules[i] \in Range(candidates)
      BY DEF IInv, RulesOK, Range
    <2>2. b \in allowed
      BY DEF IInv, KeptOK, Scoring
    <2> QED
      BY <2>1, <2>2 DEF IInv, CandidatesOK, Range
  <1> QED
    BY <1>1, InitIInv, NextIInv, PTL DEF Spec

(* A bucket with a destination that is malicious all along is in the preview
   unless a query failed: its row is on the list, its verdict is found when it
   is scored, no discount outweighs it, and the sort does not lose it. *)
THEOREM MaliciousSafe == Spec => []MaliciousIsShown
  <1>1. IInv => MaliciousIsShown
    <2> SUFFICES ASSUME IInv, pc = "shown", ~blind, NEW d \in due
                 PROVE  Shown(d[1])
      BY DEF MaliciousIsShown
    <2>1. PICK i \in DOMAIN listed : listed[i].bucket = d[1]
      BY DEF IInv, DueOK
    <2>2. i \in 1 .. place - 1
      BY DEF IInv, ListedOK, StagesOK, TypeOK
    <2>3. PICK j \in DOMAIN candidates : candidates[j].bucket = d[1]
      BY <2>1, <2>2 DEF IInv, DueOK
    <2>4. candidates[j] \in Range(rules)
      BY DEF IInv, RulesOK, Range
    <2> QED
      BY <2>3, <2>4 DEF Shown, Range
  <1> QED
    BY <1>1, InitIInv, NextIInv, PTL DEF Spec

(* Rules come by descending score, the latest first where scores are equal, and
   no bucket has two. *)
THEOREM RankedSafe == Spec => []RankedByRisk
  <1>1. IInv => RankedByRisk
    <2> SUFFICES ASSUME IInv, NEW i \in DOMAIN rules, NEW j \in DOMAIN rules, i < j
                 PROVE  less(rules[i], rules[j]) /\ rules[i].bucket # rules[j].bucket
      BY DEF RankedByRisk
    <2>1. pc = "shown"
      BY DEF IInv, StagesOK
    <2>2. rules \in Seq(Scored) /\ less(rules[i], rules[j])
      BY <2>1 DEF IInv, RulesOK, Ranked
    <2>3. rules[i] # rules[j]
      BY <2>2, LessOrders
    <2>4. /\ \E k \in DOMAIN candidates : rules[i] = candidates[k]
          /\ \E l \in DOMAIN candidates : rules[j] = candidates[l]
      BY <2>1 DEF IInv, RulesOK, Range
    <2>5. PICK k \in DOMAIN candidates : rules[i] = candidates[k]
      BY <2>4
    <2>6. PICK l \in DOMAIN candidates : rules[j] = candidates[l]
      BY <2>4
    <2>7. candidates[k].place # candidates[l].place
      <3>1. k # l
        BY <2>3, <2>5, <2>6
      <3>2. candidates \in Seq(Scored)
        BY DEF IInv, CandidatesOK
      <3>3. k < l \/ l < k
        BY <3>1, <3>2
      <3>4. candidates[k] \in Scored /\ candidates[l] \in Scored
        BY <3>2
      <3>5. candidates[k].place \in Nat /\ candidates[l].place \in Nat
        BY <3>4 DEF Scored
      <3> QED
        BY <3>3, <3>5 DEF IInv, CandidatesOK
    <2>8. /\ candidates[k].place \in DOMAIN listed /\ candidates[l].place \in DOMAIN listed
          /\ candidates[k].bucket = listed[candidates[k].place].bucket
          /\ candidates[l].bucket = listed[candidates[l].place].bucket
      BY DEF IInv, CandidatesOK, ListedOK, TypeOK
    <2> QED
      BY <2>2, <2>5, <2>6, <2>7, <2>8 DEF IInv, ListedOK, OneEach
  <1> QED
    BY <1>1, InitIInv, NextIInv, PTL DEF Spec
=============================================================================
