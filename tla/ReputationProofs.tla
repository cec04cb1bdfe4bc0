-------------------------- MODULE ReputationProofs --------------------------
(***************************************************************************)
(* For any addresses, callers, budget and bounds: the types (an address is *)
(* queued once), what a full counter stops, how far the budget can be      *)
(* exceeded before any dashboard request and fault, and that no address is *)
(* forgotten.                                                              *)
(***************************************************************************)
EXTENDS Reputation, TLAPS

QueueItem == [ip : Ips, priority : 0 .. MaxPriority]

(* The worker holds an item from the pop to the end of the tick; one that was
   refused may be put back once more. *)
Types ==
    /\ TypeOK
    /\ queue \in Seq(QueueItem)
    /\ statuses \in Nat /\ faults \in Nat
    /\ item = NoItem <=> pc["worker"] \in {"rest", "create", "reset", "pop"}
    /\ pc["worker"] \in {"pin", "requeue"} => item.priority < MaxPriority

(* The counter never passes the budget, since the worker counts only what it
   popped under a count below the budget. *)
Counter ==
    /\ limit.used <= Budget
    /\ pc["worker"] \in {"pop", "ask", "cache", "count", "pin"} => limit.used < Budget

(* With the worker alone and no fault, the lookups of the day are those counted,
   one that is not counted yet, and one of a tick that began before midnight.
   That one is over when the counter restarts. *)
Alone ==
    /\ pc["status"] = "rest"
    /\ limit = NoRow => spent = 0 /\ pc["worker"] \in {"rest", "create"}
    /\ pc["worker"] = "create" => limit = NoRow
    /\ pc["worker"] = "reset" => ~limit.current
    /\ pc["worker"] \in {"create", "reset"} /\ ~onTime["worker"] => spent = 0
    /\ limit # NoRow /\ limit.current =>
         spent <= limit.used + (IF pc["worker"] \in {"cache", "count"} THEN 2 ELSE 1)
    /\ limit # NoRow /\ ~limit.current =>
         spent <= (IF pc["worker"] \in {"pop", "ask"} THEN 0 ELSE 1)

Spending == statuses = 0 /\ faults = 0 => Alone

(* An answered address is cached before the worker lets go of it. *)
Kept ==
    /\ NothingForgotten
    /\ faults = 0 /\ pc["worker"] = "count" => cache[item.ip] # "none"

IInv == Types /\ Counter /\ Spending /\ Kept

-----------------------------------------------------------------------------
(* Operators                                                               *)

(* RemoveAt, index by index. *)
LEMMA Removed ==
    ASSUME NEW S, NEW s \in Seq(S), NEW i \in 1 .. Len(s)
    PROVE  /\ RemoveAt(s, i) \in Seq(S) /\ Len(RemoveAt(s, i)) = Len(s) - 1
           /\ \A j \in 1 .. i - 1 : RemoveAt(s, i)[j] = s[j]
           /\ \A j \in i .. Len(s) - 1 : RemoveAt(s, i)[j] = s[j + 1]
  <1> DEFINE left == SubSeq(s, 1, i - 1)
             right == SubSeq(s, i + 1, Len(s))
  <1>1. Len(s) \in Nat /\ i \in Nat /\ 1 <= i /\ i <= Len(s)
    OBVIOUS
  <1>2. /\ left \in Seq(S) /\ Len(left) = i - 1
        /\ \A j \in 1 .. i - 1 : left[j] = s[j]
    BY <1>1
  <1>3. /\ right \in Seq(S) /\ Len(right) = Len(s) - i
        /\ \A j \in 1 .. Len(s) - i : right[j] = s[i + j]
    BY <1>1
  <1>4. RemoveAt(s, i) = left \o right
    BY DEF RemoveAt
  <1> HIDE DEF left, right
  <1>5. left \o right \in Seq(S) /\ Len(left \o right) = Len(s) - 1
    <2>1. left \o right \in Seq(S)
      BY <1>2, <1>3
    <2>2. Len(left \o right) = Len(left) + Len(right)
      <3>1. left \in Seq(S) /\ right \in Seq(S)
        BY <1>2, <1>3
      <3> QED
        BY <3>1
    <2> QED
      BY <1>1, <1>2, <1>3, <2>1, <2>2
  <1>6. \A j \in 1 .. i - 1 : (left \o right)[j] = s[j]
    BY <1>1, <1>2, <1>3
  <1>7. ASSUME NEW j \in i .. Len(s) - 1
        PROVE  (left \o right)[j] = s[j + 1]
    <2>1. (left \o right)[j] = right[j - (i - 1)]
      BY <1>1, <1>2, <1>3
    <2>2. right[j - (i - 1)] = s[i + (j - (i - 1))]
      BY <1>1, <1>3
    <2>3. i + (j - (i - 1)) = j + 1
      BY <1>1
    <2> QED
      BY <2>1, <2>2, <2>3
  <1> QED
    BY <1>4, <1>5, <1>6, <1>7

(* Every other item stays, and none appears. *)
LEMMA RemovedOne ==
    ASSUME NEW S, NEW s \in Seq(S), NEW i \in 1 .. Len(s)
    PROVE  /\ \A j \in 1 .. Len(s) : j # i =>
                \E l \in 1 .. Len(RemoveAt(s, i)) : RemoveAt(s, i)[l] = s[j]
           /\ \A l, m \in 1 .. Len(RemoveAt(s, i)) : l # m =>
                \E j, k \in 1 .. Len(s) :
                  j # k /\ RemoveAt(s, i)[l] = s[j] /\ RemoveAt(s, i)[m] = s[k]
  <1> DEFINE t == RemoveAt(s, i)
             Old(l) == IF l < i THEN l ELSE l + 1
  <1>1. Len(s) \in Nat /\ i \in Nat /\ 1 <= i /\ i <= Len(s)
    OBVIOUS
  <1>2. /\ Len(t) = Len(s) - 1 /\ \A j \in 1 .. i - 1 : t[j] = s[j]
        /\ \A j \in i .. Len(s) - 1 : t[j] = s[j + 1]
    BY Removed
  <1> HIDE DEF t
  <1>3. ASSUME NEW j \in 1 .. Len(s), j # i
        PROVE  \E l \in 1 .. Len(t) : t[l] = s[j]
    <2>1. CASE j < i
      <3>1. j \in 1 .. Len(t) /\ j \in 1 .. i - 1
        BY <1>1, <1>2, <2>1
      <3> QED
        BY <1>2, <3>1
    <2>2. CASE j > i
      <3>1. j - 1 \in 1 .. Len(t) /\ j - 1 \in i .. Len(s) - 1 /\ (j - 1) + 1 = j
        BY <1>1, <1>2, <2>2
      <3>2. t[j - 1] = s[j]
        BY <1>2, <3>1
      <3> QED
        BY <3>1, <3>2
    <2> QED
      BY <1>1, <1>3, <2>1, <2>2
  <1>4. \A l \in 1 .. Len(t) : Old(l) \in 1 .. Len(s) /\ t[l] = s[Old(l)]
    BY <1>1, <1>2
  <1>5. \A l, m \in 1 .. Len(t) : l # m => Old(l) # Old(m)
    BY <1>1, <1>2
  <1> HIDE DEF Old
  <1>6. ASSUME NEW l \in 1 .. Len(t), NEW m \in 1 .. Len(t), l # m
        PROVE  \E j, k \in 1 .. Len(s) : j # k /\ t[l] = s[j] /\ t[m] = s[k]
    BY <1>4, <1>5, <1>6
  <1> QED
    BY <1>3, <1>6 DEF t

(* INSERT OR IGNORE queues an address once; what is queued stays. *)
LEMMA Inserted ==
    ASSUME Types, NEW ip \in Ips, NEW priority \in 0 .. MaxPriority,
           InsertOrIgnore(ip, priority)
    PROVE  /\ queue' \in Seq(QueueItem) /\ UNCHANGED <<cache, limit>>
           /\ \A i, j \in DOMAIN queue' : queue'[i].ip = queue'[j].ip => i = j
           /\ Queued(ip)'
           /\ \A other : Queued(other) => Queued(other)'
  <1> DEFINE new == [ip |-> ip, priority |-> priority]
  <1>1. /\ queue \in Seq(QueueItem) /\ new \in QueueItem /\ new.ip = ip
        /\ \A i, j \in DOMAIN queue : queue[i].ip = queue[j].ip => i = j
    BY DEF Types, TypeOK, QueueItem
  <1> HIDE DEF new
  <1>2. CASE Queued(ip)
    <2>1. queue' = queue
      BY <1>2 DEF InsertOrIgnore
    <2> QED
      BY <1>1, <1>2, <2>1 DEF InsertOrIgnore, Queued
  <1>3. CASE ~Queued(ip)
    <2>1. queue' = Append(queue, new)
      BY <1>3 DEF InsertOrIgnore, new
    <2>2. /\ queue' \in Seq(QueueItem) /\ Len(queue') = Len(queue) + 1 /\ Len(queue) \in Nat
          /\ queue'[Len(queue) + 1] = new
          /\ \A i \in 1 .. Len(queue) : queue'[i] = queue[i]
      BY <1>1, <2>1
    <2>3. DOMAIN queue = 1 .. Len(queue) /\ DOMAIN queue' = 1 .. Len(queue) + 1
      BY <1>1, <2>2
    <2>4. \A i \in DOMAIN queue : queue[i].ip # ip
      BY <1>3 DEF Queued
    <2>5. ASSUME NEW i \in DOMAIN queue', NEW j \in DOMAIN queue',
                 queue'[i].ip = queue'[j].ip
          PROVE  i = j
      <3>1. CASE i = Len(queue) + 1 \/ j = Len(queue) + 1
        BY <1>1, <2>2, <2>3, <2>4, <2>5, <3>1
      <3>2. CASE i \in DOMAIN queue /\ j \in DOMAIN queue
        BY <1>1, <2>2, <2>3, <2>5, <3>2
      <3> QED
        BY <2>2, <2>3, <3>1, <3>2
    <2>6. Queued(ip)'
      <3>1. Len(queue) + 1 \in DOMAIN queue' /\ queue'[Len(queue) + 1].ip = ip
        BY <1>1, <2>2, <2>3
      <3> QED
        BY <3>1 DEF Queued
    <2>7. ASSUME NEW other, Queued(other) PROVE Queued(other)'
      <3>1. PICK i \in DOMAIN queue : queue[i].ip = other
        BY <2>7 DEF Queued
      <3>2. i \in DOMAIN queue' /\ queue'[i].ip = other
        BY <2>2, <2>3, <3>1
      <3> QED
        BY <3>2 DEF Queued
    <2> QED
      BY <2>2, <2>5, <2>6, <2>7 DEF InsertOrIgnore
  <1> QED
    BY <1>2, <1>3

(* IncrementRateLimit adds one, or fills the counter; the day stays. *)
LEMMA Incremented ==
    ASSUME TypeOK
    PROVE  /\ IncrementRateLimit(FALSE) =>
                /\ limit = NoRow => limit' = NoRow
                /\ limit # NoRow => /\ limit' \in [used : Nat, current : BOOLEAN]
                                    /\ limit'.used = limit.used + 1
                                    /\ limit'.current = limit.current
           /\ IncrementRateLimit(TRUE) =>
                /\ limit = NoRow => limit' = NoRow
                /\ limit # NoRow => /\ limit' \in [used : Nat, current : BOOLEAN]
                                    /\ limit'.used = Budget
                                    /\ limit'.current = limit.current
  BY RepConstants DEF TypeOK, IncrementRateLimit

LEMMA NoRowIsNoRow ==
    /\ NoRow.used = -1 /\ NoRow.current = FALSE
    /\ NoRow \notin [used : Nat, current : BOOLEAN]
    /\ [NoRow EXCEPT !.current = FALSE] = NoRow
  <1>1. NoRow.used = -1 /\ NoRow.current = FALSE
    BY DEF NoRow
  <1>2. [NoRow EXCEPT !.current = FALSE] = NoRow
    <2>1. NoRow \in [used : Int, current : BOOLEAN]
      BY DEF NoRow
    <2>2. /\ [NoRow EXCEPT !.current = FALSE] \in [used : Int, current : BOOLEAN]
          /\ [NoRow EXCEPT !.current = FALSE].used = NoRow.used
          /\ [NoRow EXCEPT !.current = FALSE].current = NoRow.current
      BY <1>1, <2>1
    <2>3. \A r, s \in [used : Int, current : BOOLEAN] :
            r.used = s.used /\ r.current = s.current => r = s
      OBVIOUS
    <2> QED
      BY <2>1, <2>2, <2>3
  <1>3. \A row \in [used : Nat, current : BOOLEAN] : row.used # -1
    OBVIOUS
  <1> QED
    BY <1>1, <1>2, <1>3

LEMMA NoItemIsNoItem == NoItem.ip = NoIp /\ NoItem \notin QueueItem
  BY RepConstants DEF NoItem, QueueItem

-----------------------------------------------------------------------------
(* Types                                                                   *)

Locations == {"rest", "create", "reset", "pop", "ask", "cache", "count", "pin", "requeue"}

LEMMA Goes ==
    ASSUME TypeOK, NEW r \in Readers, NEW location \in Locations, GoTo(r, location)
    PROVE  /\ pc' \in [Readers -> Locations] /\ pc'[r] = location
           /\ \A q \in Readers \ {r} : pc'[q] = pc[q]
  BY DEF TypeOK, GoTo, Locations

(* What a reader of the counter does, whatever it finds: a new row counts
   nothing, and the worker pops only under a count below the budget. *)
LEMMA ReaderStep ==
    ASSUME TypeOK, statuses \in Nat, faults \in Nat, NEW r \in Readers,
           ReadLimit(r) \/ CreateLimit(r) \/ ResetLimit(r)
    PROVE  /\ UNCHANGED <<queue, cache, item, call, spent, asked>>
           /\ statuses' \in Nat /\ faults' \in Nat
           /\ onTime' \in [Readers -> BOOLEAN]
           /\ limit' = limit \/ limit' \in [used : {0}, current : BOOLEAN]
           /\ pc[r] \in {"rest", "create", "reset"}
           /\ pc' \in [Readers -> Locations]
           /\ pc'[r] \in {"rest", "create", "reset", "pop"}
           /\ pc'[r] = "pop" => r = "worker" /\ limit'.used < Budget
           /\ \A q \in Readers \ {r} : pc'[q] = pc[q]
  <1>1. /\ UNCHANGED <<queue, cache, item, call, spent, asked>>
        /\ pc[r] \in {"rest", "create", "reset"}
    BY DEF ReadLimit, CreateLimit, ResetLimit, ReaderFrame, StoreFails, tables, observers
  <1>2. statuses' \in Nat /\ faults' \in Nat
    BY DEF ReadLimit, CreateLimit, ResetLimit, StoreFails, StoreSucceeds, Fault
  <1>3. onTime' \in [Readers -> BOOLEAN]
    BY DEF ReadLimit, CreateLimit, ResetLimit, TypeOK
  <1>4. limit' = limit \/ limit' \in [used : {0}, current : BOOLEAN]
    <2>1. onTime[r] \in BOOLEAN
      BY DEF TypeOK
    <2>2. [used |-> 0, current |-> onTime[r]] \in [used : {0}, current : BOOLEAN]
      BY <2>1
    <2>3. \/ UNCHANGED tables
          \/ limit' = NoRow /\ limit = NoRow
          \/ limit' = [used |-> 0, current |-> onTime[r]]
      BY DEF ReadLimit, CreateLimit, ResetLimit, StoreFails
    <2> QED
      BY <2>2, <2>3 DEF tables
  <1>5. \E location \in {"rest", "create", "reset", "pop"} :
          GoTo(r, location) /\ (location = "pop" => r = "worker" /\ limit'.used < Budget)
    <2>1. ASSUME NEW used, Decide(r, used), limit'.used = used
          PROVE  \E location \in {"rest", "pop"} :
                   GoTo(r, location) /\ (location = "pop" => r = "worker" /\ limit'.used < Budget)
      BY <2>1 DEF Decide
    <2>2. pc' = pc => GoTo(r, pc[r])
      BY DEF GoTo, TypeOK
    <2>3. CASE ReadLimit(r)
      <3>1. pc[r] = "rest"
        BY <2>3 DEF ReadLimit
      <3>2. CASE UNCHANGED pc
        BY <2>2, <3>1, <3>2
      <3>3. CASE GoTo(r, "create") \/ GoTo(r, "reset")
        BY <3>3
      <3>4. CASE Decide(r, limit.used) /\ UNCHANGED tables
        BY <2>1, <3>4 DEF tables
      <3> QED
        BY <2>3, <3>2, <3>3, <3>4 DEF ReadLimit
    <2>4. CASE CreateLimit(r)
      <3>1. CASE GoTo(r, "rest")
        BY <3>1
      <3>2. CASE Decide(r, 0) /\ limit' = [used |-> 0, current |-> onTime[r]]
        BY <2>1, <3>2
      <3> QED
        BY <2>4, <3>1, <3>2 DEF CreateLimit
    <2>5. CASE ResetLimit(r)
      <3>1. CASE GoTo(r, "rest")
        BY <3>1
      <3>2. CASE Decide(r, 0) /\ limit' = [used |-> 0, current |-> onTime[r]]
        BY <2>1, <3>2
      <3>3. CASE Decide(r, 0) /\ limit' = NoRow
        BY <3>3, NoRowIsNoRow, RepConstants DEF Decide
      <3> QED
        BY <2>5, <3>1, <3>2, <3>3 DEF ResetLimit
    <2> QED
      BY <2>3, <2>4, <2>5
  <1>6. PICK location \in {"rest", "create", "reset", "pop"} :
          GoTo(r, location) /\ (location = "pop" => r = "worker" /\ limit'.used < Budget)
    BY <1>5
  <1>7. /\ pc' \in [Readers -> Locations] /\ pc'[r] = location
        /\ \A q \in Readers \ {r} : pc'[q] = pc[q]
    BY <1>6, Goes DEF Locations
  <1> QED
    BY <1>1, <1>2, <1>3, <1>4, <1>6, <1>7

(* The item the worker pops is the only one that leaves the queue. *)
LEMMA PopStep ==
    ASSUME Types, NEW i \in DOMAIN queue, queue' = RemoveAt(queue, i)
    PROVE  /\ queue[i] \in QueueItem /\ queue' \in Seq(QueueItem)
           /\ \A l, m \in DOMAIN queue' : queue'[l].ip = queue'[m].ip => l = m
           /\ \A other : Queued(other) /\ other # queue[i].ip => Queued(other)'
  <1>1. /\ queue \in Seq(QueueItem) /\ DOMAIN queue = 1 .. Len(queue) /\ i \in 1 .. Len(queue)
        /\ \A j, k \in DOMAIN queue : queue[j].ip = queue[k].ip => j = k
    BY DEF Types, TypeOK
  <1>2. queue' \in Seq(QueueItem) /\ DOMAIN queue' = 1 .. Len(queue')
    BY <1>1, Removed
  <1>3. /\ \A j \in 1 .. Len(queue) : j # i => \E l \in 1 .. Len(queue') : queue'[l] = queue[j]
        /\ \A l, m \in 1 .. Len(queue') : l # m =>
             \E j, k \in 1 .. Len(queue) :
               j # k /\ queue'[l] = queue[j] /\ queue'[m] = queue[k]
    <2> DEFINE t == RemoveAt(queue, i)
    <2>1. /\ \A j \in 1 .. Len(queue) : j # i => \E l \in 1 .. Len(t) : t[l] = queue[j]
          /\ \A l, m \in 1 .. Len(t) : l # m =>
               \E j, k \in 1 .. Len(queue) : j # k /\ t[l] = queue[j] /\ t[m] = queue[k]
      <3>1. queue \in Seq(QueueItem) /\ i \in 1 .. Len(queue)
        BY <1>1
      <3> QED
        BY <3>1, RemovedOne
    <2>2. queue' = t
      OBVIOUS
    <2> HIDE DEF t
    <2>3. \A j \in 1 .. Len(queue) : j # i => \E l \in 1 .. Len(queue') : queue'[l] = queue[j]
      BY <2>1, <2>2, Zenon
    <2>4. ASSUME NEW l \in 1 .. Len(queue'), NEW m \in 1 .. Len(queue'), l # m
          PROVE  \E j, k \in 1 .. Len(queue) :
                   j # k /\ queue'[l] = queue[j] /\ queue'[m] = queue[k]
      <3>1. l \in 1 .. Len(t) /\ m \in 1 .. Len(t)
        BY <2>2
      <3>2. PICK j \in 1 .. Len(queue), k \in 1 .. Len(queue) :
              j # k /\ t[l] = queue[j] /\ t[m] = queue[k]
        BY <2>1, <2>4, <3>1
      <3> QED
        BY <2>2, <3>2
    <2> QED
      BY <2>3, <2>4
  <1>4. ASSUME NEW other, Queued(other), other # queue[i].ip PROVE Queued(other)'
    <2>1. PICK j \in DOMAIN queue : queue[j].ip = other
      BY <1>4 DEF Queued
    <2>2. PICK l \in 1 .. Len(queue') : queue'[l] = queue[j]
      BY <1>1, <1>3, <1>4, <2>1
    <2> QED
      BY <1>2, <2>1, <2>2 DEF Queued
  <1>5. ASSUME NEW l \in DOMAIN queue', NEW m \in DOMAIN queue', l # m
        PROVE  queue'[l].ip # queue'[m].ip
    <2>1. PICK j, k \in 1 .. Len(queue) :
            j # k /\ queue'[l] = queue[j] /\ queue'[m] = queue[k]
      <3>1. l \in 1 .. Len(queue') /\ m \in 1 .. Len(queue')
        BY <1>2
      <3> QED
        BY <1>3, <1>5, <3>1, Zenon
    <2> QED
      BY <1>1, <2>1
  <1>6. queue[i] \in QueueItem
    BY <1>1
  <1> QED
    BY <1>2, <1>4, <1>5, <1>6

LEMMA TypesInit == Init => Types
  BY NoItemIsNoItem, NoRowIsNoRow DEF Init, Types, TypeOK, Readers, NoItem

LEMMA TypesNext ==
    ASSUME Types, [Next]_vars
    PROVE  Types'
  <1>1. /\ TypeOK /\ queue \in Seq(QueueItem) /\ statuses \in Nat /\ faults \in Nat
        /\ item = NoItem \/ item \in QueueItem
        /\ item = NoItem <=> pc["worker"] \in {"rest", "create", "reset", "pop"}
        /\ pc["worker"] \in {"pin", "requeue"} => item.priority < MaxPriority
    BY DEF Types, TypeOK, QueueItem
  <1>2. "worker" \in Readers /\ pc["worker"] \in Locations
    BY <1>1 DEF Readers, TypeOK, Locations
  <1>3. StoreFails => UNCHANGED tables /\ faults' \in Nat
    BY <1>1 DEF StoreFails, Fault
  <1>4. StoreSucceeds => faults' \in Nat
    BY <1>1 DEF StoreSucceeds
  <1>5. ASSUME NEW r \in Readers, ReadLimit(r) \/ CreateLimit(r) \/ ResetLimit(r)
        PROVE  Types'
    <2>1. /\ UNCHANGED <<queue, cache, item, call, spent, asked>>
          /\ statuses' \in Nat /\ faults' \in Nat /\ onTime' \in [Readers -> BOOLEAN]
          /\ limit' = limit \/ limit' \in [used : {0}, current : BOOLEAN]
          /\ pc[r] \in {"rest", "create", "reset"}
          /\ pc' \in [Readers -> Locations]
          /\ pc'[r] \in {"rest", "create", "reset", "pop"}
          /\ \A q \in Readers \ {r} : pc'[q] = pc[q]
      BY <1>1, <1>5, ReaderStep
    <2>2. limit' = NoRow \/ limit' \in [used : Nat, current : BOOLEAN]
      BY <1>1, <2>1 DEF TypeOK
    <2>3. \/ pc'["worker"] = pc["worker"]
          \/ /\ pc["worker"] \in {"rest", "create", "reset", "pop"}
             /\ pc'["worker"] \in {"rest", "create", "reset", "pop"}
      BY <1>2, <2>1
    <2>4. TypeOK'
      BY <1>1, <2>1, <2>2, <2>3 DEF TypeOK, Locations
    <2> QED
      BY <1>1, <2>1, <2>3, <2>4 DEF Types
  <1>6. ASSUME NEW c \in Callers, EnqueueChecksCache(c)
        PROVE  Types'
    <2>1. /\ call' \in [Callers -> Ips \cup {NoIp}] /\ asked' \subseteq Ips
          /\ faults' \in Nat
          /\ UNCHANGED <<queue, cache, limit, pc, onTime, item, spent, statuses>>
      BY <1>1, <1>3, <1>4, <1>6 DEF EnqueueChecksCache, TypeOK, tables
    <2> QED
      BY <1>1, <2>1 DEF Types, TypeOK
  <1>7. ASSUME NEW c \in Callers, EnqueueInserts(c)
        PROVE  Types'
    <2>1. /\ call' \in [Callers -> Ips \cup {NoIp}] /\ faults' \in Nat
          /\ UNCHANGED <<cache, limit, pc, onTime, item, spent, asked, statuses>>
      BY <1>1, <1>3, <1>4, <1>7 DEF EnqueueInserts, InsertOrIgnore, TypeOK, tables, observers
    <2>2. call[c] \in Ips /\ 0 \in 0 .. MaxPriority
      BY <1>1, <1>7, RepConstants DEF EnqueueInserts, TypeOK
    <2>3. /\ queue' \in Seq(QueueItem)
          /\ \A i, j \in DOMAIN queue' : queue'[i].ip = queue'[j].ip => i = j
      <3>1. CASE UNCHANGED tables
        BY <1>1, <3>1 DEF tables, TypeOK
      <3>2. CASE InsertOrIgnore(call[c], 0)
        BY <2>2, <3>2, Inserted
      <3> QED
        BY <1>3, <1>7, <3>1, <3>2 DEF EnqueueInserts
    <2>4. \A i \in DOMAIN queue' : queue'[i] \in QueueItem
      BY <2>3
    <2> QED
      BY <1>1, <2>1, <2>3, <2>4 DEF Types, TypeOK, QueueItem
  <1>8. CASE PopNext
    <2>1. UNCHANGED <<cache, limit, onTime, call, asked, statuses, spent>> /\ faults' \in Nat
      BY <1>3, <1>4, <1>8 DEF PopNext, WorkerFrame, tables
    <2>2. ASSUME NEW i \in DOMAIN queue, item' = queue[i], queue' = RemoveAt(queue, i),
                 GoTo("worker", "ask")
          PROVE  Types'
      <3>1. /\ queue[i] \in QueueItem /\ queue' \in Seq(QueueItem)
            /\ \A l, m \in DOMAIN queue' : queue'[l].ip = queue'[m].ip => l = m
        BY <2>2, PopStep
      <3>2. pc' \in [Readers -> Locations] /\ pc'["worker"] = "ask"
        BY <1>1, <1>2, <2>2, Goes DEF Locations
      <3>3. \A j \in DOMAIN queue' : queue'[j] \in QueueItem
        BY <3>1
      <3>4. item' # NoItem /\ item' \in QueueItem
        BY <2>2, <3>1, NoItemIsNoItem
      <3> QED
        BY <1>1, <2>1, <3>1, <3>2, <3>3, <3>4 DEF Types, TypeOK, QueueItem, Locations
    <2>3. CASE UNCHANGED <<queue, item>> /\ GoTo("worker", "rest")
      <3>1. pc' \in [Readers -> Locations] /\ pc'["worker"] = "rest"
        BY <1>1, <1>2, <2>3, Goes DEF Locations
      <3>2. item = NoItem
        BY <1>1, <1>8 DEF PopNext
      <3> QED
        BY <1>1, <2>1, <2>3, <3>1, <3>2 DEF Types, TypeOK, Locations
    <2> QED
      BY <1>3, <1>8, <2>2, <2>3 DEF PopNext, tables
  <1>9. CASE LookupAnswered
    <2>1. GoTo("worker", "cache") /\ spent' = spent + 1 /\ pc["worker"] = "ask"
      BY <1>9 DEF LookupAnswered
    <2>2. pc' \in [Readers -> Locations] /\ pc'["worker"] = "cache"
      BY <1>1, <1>2, <2>1, Goes DEF Locations
    <2>3. UNCHANGED <<queue, cache, limit, onTime, item, call, asked, statuses, faults>>
      BY <1>9 DEF LookupAnswered, WorkerFrame, StoreSucceeds, tables
    <2> QED
      BY <1>1, <2>1, <2>2, <2>3 DEF Types, TypeOK, Locations
  <1>10. CASE LookupRefused
    <2>1. /\ GoTo("worker", "pin") /\ pc["worker"] = "ask" /\ item.priority < MaxPriority
      BY <1>10 DEF LookupRefused
    <2>2. pc' \in [Readers -> Locations] /\ pc'["worker"] = "pin"
      BY <1>1, <1>2, <2>1, Goes DEF Locations
    <2>3. UNCHANGED <<queue, cache, limit, onTime, item, call, spent, asked, statuses, faults>>
      BY <1>10 DEF LookupRefused, WorkerFrame, StoreSucceeds, tables
    <2> QED
      BY <1>1, <2>1, <2>2, <2>3 DEF Types, TypeOK, Locations
  <1>11. CASE PutReputation
    <2>1. GoTo("worker", "count") /\ pc["worker"] = "cache"
      BY <1>11 DEF PutReputation
    <2>2. pc' \in [Readers -> Locations] /\ pc'["worker"] = "count"
      BY <1>1, <1>2, <2>1, Goes DEF Locations
    <2>3. UNCHANGED <<queue, limit, onTime, item, call, spent, asked, statuses>> /\ faults' \in Nat
      BY <1>3, <1>4, <1>11 DEF PutReputation, WorkerFrame, tables
    <2>4. cache' \in [Ips -> {"none", "fresh", "expired"}]
      BY <1>1, <1>3, <1>11 DEF PutReputation, TypeOK, tables
    <2> QED
      BY <1>1, <2>1, <2>2, <2>3, <2>4 DEF Types, TypeOK, Locations
  <1>12. CASE CountLookup
    <2>1. GoTo("worker", "rest") /\ item' = NoItem
      BY <1>12 DEF CountLookup
    <2>2. pc' \in [Readers -> Locations] /\ pc'["worker"] = "rest"
      BY <1>1, <1>2, <2>1, Goes DEF Locations
    <2>3. UNCHANGED <<queue, cache, onTime, call, spent, asked, statuses>> /\ faults' \in Nat
      BY <1>3, <1>4, <1>12 DEF CountLookup, IncrementRateLimit, WorkerFrame, tables
    <2>4. limit' = NoRow \/ limit' \in [used : Nat, current : BOOLEAN]
      BY <1>1, <1>3, <1>12, Incremented DEF CountLookup, TypeOK, tables
    <2> QED
      BY <1>1, <2>1, <2>2, <2>3, <2>4 DEF Types, TypeOK, Locations
  <1>13. CASE PinLimit
    <2>1. GoTo("worker", "requeue") /\ pc["worker"] = "pin"
      BY <1>13 DEF PinLimit
    <2>2. pc' \in [Readers -> Locations] /\ pc'["worker"] = "requeue"
      BY <1>1, <1>2, <2>1, Goes DEF Locations
    <2>3. UNCHANGED <<queue, cache, onTime, item, call, spent, asked, statuses>> /\ faults' \in Nat
      BY <1>3, <1>4, <1>13 DEF PinLimit, IncrementRateLimit, WorkerFrame, tables
    <2>4. limit' = NoRow \/ limit' \in [used : Nat, current : BOOLEAN]
      BY <1>1, <1>3, <1>13, Incremented DEF PinLimit, TypeOK, tables
    <2> QED
      BY <1>1, <2>1, <2>2, <2>3, <2>4 DEF Types, TypeOK, Locations
  <1>14. CASE Requeue
    <2>1. GoTo("worker", "rest") /\ item' = NoItem /\ pc["worker"] = "requeue"
      BY <1>14 DEF Requeue
    <2>2. pc' \in [Readers -> Locations] /\ pc'["worker"] = "rest"
      BY <1>1, <1>2, <2>1, Goes DEF Locations
    <2>3. UNCHANGED <<cache, limit, onTime, call, spent, asked, statuses>> /\ faults' \in Nat
      BY <1>3, <1>4, <1>14 DEF Requeue, InsertOrIgnore, WorkerFrame, tables
    <2>4. item.ip \in Ips /\ item.priority + 1 \in 0 .. MaxPriority
      BY <1>1, <2>1, RepConstants DEF QueueItem
    <2>5. /\ queue' \in Seq(QueueItem)
          /\ \A i, j \in DOMAIN queue' : queue'[i].ip = queue'[j].ip => i = j
      <3>1. CASE UNCHANGED tables
        BY <1>1, <3>1 DEF tables, TypeOK
      <3>2. CASE InsertOrIgnore(item.ip, item.priority + 1)
        BY <2>4, <3>2, Inserted
      <3> QED
        BY <1>3, <1>14, <3>1, <3>2 DEF Requeue
    <2>6. \A i \in DOMAIN queue' : queue'[i] \in QueueItem
      BY <2>5
    <2> QED
      BY <1>1, <2>1, <2>2, <2>3, <2>5, <2>6 DEF Types, TypeOK, Locations, QueueItem
  <1>15. CASE DayPasses
    <2>1. limit' = NoRow \/ limit' \in [used : Nat, current : BOOLEAN]
      BY <1>1, <1>15, NoRowIsNoRow DEF DayPasses, TypeOK
    <2>2. /\ onTime' \in [Readers -> BOOLEAN] /\ spent' = 0
          /\ UNCHANGED <<queue, cache, pc, item, call, asked, statuses, faults>>
      BY <1>15 DEF DayPasses, counts
    <2> QED
      BY <1>1, <2>1, <2>2 DEF Types, TypeOK
  <1>16. CASE EntryExpires
    <2>1. /\ cache' \in [Ips -> {"none", "fresh", "expired"}]
          /\ UNCHANGED <<queue, limit, pc, onTime, item, call, spent, asked, statuses, faults>>
      BY <1>1, <1>16 DEF EntryExpires, TypeOK, observers, counts
    <2> QED
      BY <1>1, <2>1 DEF Types, TypeOK
  <1>17. CASE ClearAllHistory
    <2>1. /\ queue' = <<>> /\ cache' \in [Ips -> {"none", "fresh", "expired"}] /\ limit' = NoRow
          /\ faults' \in Nat
          /\ UNCHANGED <<pc, onTime, item, call, spent, asked, statuses>>
      BY <1>1, <1>17 DEF ClearAllHistory, Fault, observers
    <2> QED
      BY <1>1, <2>1 DEF Types, TypeOK
  <1>18. CASE Crash
    <2>1. /\ pc' = [r \in Readers |-> "rest"] /\ onTime' = [r \in Readers |-> FALSE]
          /\ item' = NoItem /\ call' = [c \in Callers |-> NoIp] /\ faults' \in Nat
          /\ UNCHANGED <<queue, cache, limit, spent, asked, statuses>>
      BY <1>1, <1>18 DEF Crash, Fault, tables, observers
    <2> QED
      BY <1>1, <1>2, <2>1 DEF Types, TypeOK
  <1>19. CASE UNCHANGED vars
    BY <1>1, <1>19 DEF vars, tables, observers, counts, Types, TypeOK
  <1> QED
    BY <1>2, <1>5, <1>6, <1>7, <1>8, <1>9, <1>10, <1>11, <1>12, <1>13, <1>14, <1>15, <1>16,
       <1>17, <1>18, <1>19 DEF Next, Worker, Status, Caller, Readers

-----------------------------------------------------------------------------
(* The counter                                                             *)

LEMMA CounterInit == Init => Counter
  BY NoRowIsNoRow, RepConstants DEF Init, Counter, Readers

LEMMA CounterNext ==
    ASSUME Types, Counter, [Next]_vars
    PROVE  Counter'
  <1>1. /\ TypeOK /\ statuses \in Nat /\ faults \in Nat /\ Budget \in Nat \ {0}
        /\ limit = NoRow \/ limit \in [used : Nat, current : BOOLEAN]
        /\ NoRow.used = -1 /\ limit.used \in Int /\ "worker" \in Readers
    BY NoRowIsNoRow, RepConstants DEF Types, TypeOK, Readers
  <1>2. /\ limit.used <= Budget
        /\ pc["worker"] \in {"pop", "ask", "cache", "count", "pin"} => limit.used < Budget
    BY DEF Counter
  <1>3. ASSUME NEW r \in Readers, ReadLimit(r) \/ CreateLimit(r) \/ ResetLimit(r)
        PROVE  Counter'
    <2>1. /\ limit' = limit \/ limit' \in [used : {0}, current : BOOLEAN]
          /\ pc'[r] \in {"rest", "create", "reset", "pop"}
          /\ pc'[r] = "pop" => r = "worker" /\ limit'.used < Budget
          /\ \A q \in Readers \ {r} : pc'[q] = pc[q]
      BY <1>1, <1>3, ReaderStep
    <2>2. limit' = limit \/ limit'.used = 0
      BY <2>1
    <2> QED
      BY <1>1, <1>2, <2>1, <2>2 DEF Counter
  <1>4. CASE PopNext
    <2>1. UNCHANGED limit /\ pc["worker"] = "pop"
      BY <1>4 DEF PopNext, StoreFails, tables
    <2> QED
      BY <1>2, <2>1 DEF Counter
  <1>5. CASE LookupAnswered \/ LookupRefused
    <2>1. UNCHANGED limit /\ pc["worker"] = "ask"
      BY <1>5 DEF LookupAnswered, LookupRefused, tables
    <2> QED
      BY <1>2, <2>1 DEF Counter
  <1>6. CASE PutReputation
    <2>1. UNCHANGED limit /\ pc["worker"] = "cache"
      BY <1>6 DEF PutReputation, StoreFails, tables
    <2> QED
      BY <1>2, <2>1 DEF Counter
  <1>7. CASE CountLookup
    <2>1. pc["worker"] = "count" /\ GoTo("worker", "rest")
      BY <1>7 DEF CountLookup
    <2>2. pc'["worker"] = "rest"
      BY <1>1, <2>1, Goes DEF Locations
    <2>3. limit'.used = limit.used \/ limit'.used = limit.used + 1
      BY <1>1, <1>7, Incremented DEF CountLookup, StoreFails, tables
    <2> QED
      BY <1>1, <1>2, <2>1, <2>2, <2>3 DEF Counter
  <1>8. CASE PinLimit
    <2>1. GoTo("worker", "requeue")
      BY <1>8 DEF PinLimit
    <2>2. pc'["worker"] = "requeue"
      BY <1>1, <2>1, Goes DEF Locations
    <2>3. limit'.used = limit.used \/ limit'.used = Budget
      BY <1>1, <1>8, Incremented DEF PinLimit, StoreFails, tables
    <2> QED
      BY <1>1, <1>2, <2>2, <2>3 DEF Counter
  <1>9. CASE Requeue
    <2>1. GoTo("worker", "rest") /\ UNCHANGED limit
      BY <1>9 DEF Requeue, InsertOrIgnore, StoreFails, tables
    <2>2. pc'["worker"] = "rest"
      BY <1>1, <2>1, Goes DEF Locations
    <2> QED
      BY <1>2, <2>1, <2>2 DEF Counter
  <1>10. CASE DayPasses
    <2>1. limit'.used = limit.used /\ UNCHANGED pc
      BY <1>1, <1>10, NoRowIsNoRow DEF DayPasses
    <2> QED
      BY <1>2, <2>1 DEF Counter
  <1>11. CASE ClearAllHistory
    <2>1. limit' = NoRow /\ UNCHANGED pc
      BY <1>11 DEF ClearAllHistory
    <2> QED
      BY <1>1, <2>1 DEF Counter
  <1>12. CASE Crash
    BY <1>1, <1>2, <1>12 DEF Crash, Counter, tables
  <1>13. ASSUME \/ \E c \in Callers : EnqueueChecksCache(c)
                \/ \E c \in Callers : EnqueueInserts(c)
                \/ EntryExpires \/ UNCHANGED vars
         PROVE  Counter'
    <2>1. UNCHANGED <<limit, pc>>
      BY <1>13 DEF EnqueueChecksCache, EnqueueInserts, InsertOrIgnore, EntryExpires,
                   StoreFails, vars, tables
    <2> QED
      BY <1>2, <2>1 DEF Counter
  <1> QED
    BY <1>3, <1>4, <1>5, <1>6, <1>7, <1>8, <1>9, <1>10, <1>11, <1>12, <1>13
       DEF Next, Worker, Status, Caller, Readers

-----------------------------------------------------------------------------
(* The budget                                                              *)

(* The bounds are counted upwards. *)
LEMMA CountsGrow ==
    ASSUME Types, [Next]_vars
    PROVE  /\ statuses' = 0 => statuses = 0
           /\ faults' = 0 => faults = 0 /\ ~StoreFails /\ ~Fault
  <1>1. statuses \in Nat /\ faults \in Nat
    BY DEF Types
  <1>2. Fault \/ StoreFails => faults' = faults + 1
    BY DEF StoreFails, Fault
  <1>3. faults' = faults \/ Fault \/ StoreFails
    BY DEF Next, Worker, Status, Caller, ReadLimit, CreateLimit, ResetLimit, PopNext,
           LookupAnswered, LookupRefused, PutReputation, CountLookup, PinLimit, Requeue,
           EnqueueChecksCache, EnqueueInserts, DayPasses, EntryExpires, ClearAllHistory,
           Crash, StoreSucceeds, vars, counts
  <1>4. statuses' = statuses \/ statuses' = statuses + 1
    BY DEF Next, Worker, Status, Caller, ReadLimit, CreateLimit, ResetLimit, PopNext,
           LookupAnswered, LookupRefused, PutReputation, CountLookup, PinLimit, Requeue,
           EnqueueChecksCache, EnqueueInserts, DayPasses, EntryExpires, ClearAllHistory,
           Crash, WorkerFrame, vars, counts
  <1> QED
    BY <1>1, <1>2, <1>3, <1>4

LEMMA SpendingInit == Init => Spending
  BY NoRowIsNoRow DEF Init, Spending, Alone, Readers

LEMMA SpendingNext ==
    ASSUME Types, Counter, Spending, [Next]_vars
    PROVE  Spending'
  <1> SUFFICES ASSUME statuses' = 0, faults' = 0
               PROVE  Alone'
    BY DEF Spending
  <1>1. /\ statuses = 0 /\ faults = 0 /\ ~StoreFails /\ ~Fault
    BY CountsGrow
  <1>2. Alone /\ TypeOK
    BY <1>1 DEF Spending, Types
  <1>3. /\ limit = NoRow \/ limit \in [used : Nat, current : BOOLEAN]
        /\ NoRow \notin [used : Nat, current : BOOLEAN] /\ NoRow.current = FALSE
        /\ spent \in Nat /\ onTime \in [Readers -> BOOLEAN] /\ Budget \in Nat \ {0}
        /\ "worker" \in Readers /\ "status" \in Readers /\ "status" # "worker"
        /\ pc["worker"] \in Locations
    BY <1>2, NoRowIsNoRow, RepConstants DEF TypeOK, Readers, Locations
  <1>4. ASSUME NEW location \in Locations, GoTo("worker", location)
        PROVE  pc'["worker"] = location /\ pc'["status"] = pc["status"]
    BY <1>2, <1>3, <1>4, Goes
  <1>5. CASE Status
    <2>1. ReadLimit("status")
      BY <1>2, <1>5 DEF Status, CreateLimit, ResetLimit, Alone
    <2> QED
      BY <1>1, <2>1 DEF ReadLimit
  <1>6. CASE ReadLimit("worker")
    <2>1. /\ UNCHANGED <<limit, spent>> /\ onTime'["worker"] = TRUE /\ pc["worker"] = "rest"
          /\ IF limit = NoRow THEN GoTo("worker", "create")
             ELSE IF ~limit.current THEN GoTo("worker", "reset")
             ELSE Decide("worker", limit.used)
      BY <1>1, <1>3, <1>6 DEF ReadLimit, ReaderFrame, observers, tables
    <2>2. CASE limit = NoRow
      <3>1. pc'["worker"] = "create" /\ pc'["status"] = pc["status"]
        BY <1>4, <2>1, <2>2 DEF Locations
      <3> QED
        BY <1>2, <2>1, <2>2, <3>1 DEF Alone
    <2>3. CASE limit # NoRow /\ ~limit.current
      <3>1. pc'["worker"] = "reset" /\ pc'["status"] = pc["status"]
        BY <1>4, <2>1, <2>3 DEF Locations
      <3> QED
        BY <1>2, <2>1, <2>3, <3>1 DEF Alone
    <2>4. CASE limit # NoRow /\ limit.current
      <3>1. pc'["worker"] \in {"pop", "rest"} /\ pc'["status"] = pc["status"]
        BY <1>4, <2>1, <2>4 DEF Locations, Decide
      <3> QED
        BY <1>2, <2>1, <2>4, <3>1 DEF Alone
    <2> QED
      BY <2>2, <2>3, <2>4
  <1>7. CASE CreateLimit("worker") \/ ResetLimit("worker")
    <2>1. limit' = [used |-> 0, current |-> onTime["worker"]] /\ Decide("worker", 0)
      <3>1. CASE CreateLimit("worker")
        BY <1>1, <1>2, <3>1 DEF CreateLimit, Alone
      <3>2. CASE ResetLimit("worker")
        BY <1>1, <1>2, <3>2 DEF ResetLimit, Alone
      <3> QED
        BY <1>7, <3>1, <3>2
    <2>2. spent' = spent /\ pc["worker"] \in {"create", "reset"}
      BY <1>7 DEF CreateLimit, ResetLimit, ReaderFrame, observers
    <2>3. pc'["worker"] = "pop" /\ pc'["status"] = pc["status"]
      BY <1>3, <1>4, <2>1 DEF Locations, Decide
    <2>4. /\ limit' # NoRow /\ limit'.used = 0 /\ limit'.current = onTime["worker"]
      BY <1>3, <2>1
    <2>5. spent <= 1 /\ (~onTime["worker"] => spent = 0)
      BY <1>2, <1>3, <2>2 DEF Alone
    <2> QED
      BY <1>2, <1>3, <2>2, <2>3, <2>4, <2>5 DEF Alone
  <1>8. CASE PopNext
    <2>1. UNCHANGED <<limit, spent>> /\ pc["worker"] = "pop"
      BY <1>1, <1>8 DEF PopNext, tables
    <2>2. pc'["worker"] \in {"ask", "rest"} /\ pc'["status"] = pc["status"]
      BY <1>1, <1>4, <1>8 DEF PopNext, Locations
    <2> QED
      BY <1>2, <1>3, <2>1, <2>2 DEF Alone
  <1>9. CASE LookupAnswered
    <2>1. UNCHANGED limit /\ pc["worker"] = "ask" /\ spent' = spent + 1
      BY <1>9 DEF LookupAnswered, tables
    <2>2. pc'["worker"] = "cache" /\ pc'["status"] = pc["status"]
      BY <1>4, <1>9 DEF LookupAnswered, Locations
    <2> QED
      BY <1>2, <1>3, <2>1, <2>2 DEF Alone
  <1>10. CASE LookupRefused
    <2>1. UNCHANGED <<limit, spent>> /\ pc["worker"] = "ask"
      BY <1>10 DEF LookupRefused, tables
    <2>2. pc'["worker"] = "pin" /\ pc'["status"] = pc["status"]
      BY <1>4, <1>10 DEF LookupRefused, Locations
    <2> QED
      BY <1>2, <1>3, <2>1, <2>2 DEF Alone
  <1>11. CASE PutReputation
    <2>1. UNCHANGED <<limit, spent>> /\ pc["worker"] = "cache"
      BY <1>1, <1>11 DEF PutReputation
    <2>2. pc'["worker"] = "count" /\ pc'["status"] = pc["status"]
      BY <1>4, <1>11 DEF PutReputation, Locations
    <2> QED
      BY <1>2, <2>1, <2>2 DEF Alone
  <1>12. CASE CountLookup
    <2>1. UNCHANGED spent /\ pc["worker"] = "count" /\ IncrementRateLimit(FALSE)
      BY <1>1, <1>12 DEF CountLookup
    <2>2. pc'["worker"] = "rest" /\ pc'["status"] = pc["status"]
      BY <1>4, <1>12 DEF CountLookup, Locations
    <2>3. /\ limit # NoRow /\ limit' \in [used : Nat, current : BOOLEAN]
          /\ limit'.used = limit.used + 1 /\ limit'.current = limit.current
      BY <1>2, <2>1, Incremented DEF Alone
    <2> QED
      BY <1>2, <1>3, <2>1, <2>2, <2>3 DEF Alone
  <1>13. CASE PinLimit
    <2>1. UNCHANGED spent /\ pc["worker"] = "pin" /\ IncrementRateLimit(TRUE)
      BY <1>1, <1>13 DEF PinLimit
    <2>2. pc'["worker"] = "requeue" /\ pc'["status"] = pc["status"]
      BY <1>4, <1>13 DEF PinLimit, Locations
    <2>3. /\ limit # NoRow /\ limit' \in [used : Nat, current : BOOLEAN]
          /\ limit'.used = Budget /\ limit'.current = limit.current
      BY <1>2, <2>1, Incremented DEF Alone
    <2>4. limit.used < Budget
      BY <2>1 DEF Counter
    <2> QED
      BY <1>2, <1>3, <2>1, <2>2, <2>3, <2>4 DEF Alone
  <1>14. CASE Requeue
    <2>1. UNCHANGED <<limit, spent>> /\ pc["worker"] = "requeue"
      BY <1>1, <1>14 DEF Requeue, InsertOrIgnore
    <2>2. pc'["worker"] = "rest" /\ pc'["status"] = pc["status"]
      BY <1>4, <1>14 DEF Requeue, Locations
    <2> QED
      BY <1>2, <2>1, <2>2 DEF Alone
  <1>15. CASE DayPasses
    <2>1. UNCHANGED pc /\ spent' = 0 /\ (limit = NoRow => limit' = NoRow)
          /\ limit'.current = FALSE
      BY <1>3, <1>15, NoRowIsNoRow DEF DayPasses
    <2>2. limit' = NoRow => limit = NoRow
      BY <1>3, <1>15 DEF DayPasses
    <2> QED
      BY <1>2, <2>1, <2>2 DEF Alone
  <1>16. CASE \/ \E c \in Callers : EnqueueChecksCache(c) \/ EnqueueInserts(c)
              \/ EntryExpires \/ UNCHANGED vars
    <2>1. UNCHANGED <<limit, pc, spent, onTime>>
      BY <1>1, <1>16 DEF EnqueueChecksCache, EnqueueInserts, InsertOrIgnore, EntryExpires,
                         vars, tables, observers
    <2> QED
      BY <1>2, <2>1 DEF Alone
  <1>17. ~ClearAllHistory /\ ~Crash
    BY <1>1 DEF ClearAllHistory, Crash
  <1> QED
    BY <1>5, <1>6, <1>7, <1>8, <1>9, <1>10, <1>11, <1>12, <1>13, <1>14, <1>15, <1>16,
       <1>17 DEF Next, Worker, Caller

-----------------------------------------------------------------------------
(* The addresses                                                           *)

LEMMA KeptInit == Init => Kept
  BY DEF Init, Kept, NothingForgotten, Readers

(* Where an address whose lookup was requested can be. *)
Known(ip) ==
    \/ \E c \in Callers : call[c] = ip
    \/ Queued(ip)
    \/ item.ip = ip
    \/ cache[ip] # "none"

LEMMA KeptNext ==
    ASSUME Types, Kept, [Next]_vars
    PROVE  Kept'
  <1> SUFFICES ASSUME faults' = 0
               PROVE  /\ \A ip \in asked' : Known(ip)'
                      /\ pc'["worker"] = "count" => cache'[item'.ip] # "none"
    BY DEF Kept, NothingForgotten, Known
  <1>1. faults = 0 /\ ~StoreFails /\ ~Fault
    BY CountsGrow
  <1>2. /\ TypeOK
        /\ item = NoItem \/ item \in QueueItem
        /\ item = NoItem <=> pc["worker"] \in {"rest", "create", "reset", "pop"}
        /\ asked \subseteq Ips /\ cache \in [Ips -> {"none", "fresh", "expired"}]
        /\ call \in [Callers -> Ips \cup {NoIp}]
        /\ NoIp \notin Ips /\ NoItem.ip = NoIp /\ "worker" \in Readers
    BY NoItemIsNoItem, RepConstants DEF Types, TypeOK, QueueItem, Readers
  <1>3. /\ \A ip \in asked : Known(ip)
        /\ pc["worker"] = "count" => cache[item.ip] # "none"
    BY <1>1 DEF Kept, NothingForgotten, Known
  <1>4. ASSUME NEW location \in Locations, GoTo("worker", location)
        PROVE  pc'["worker"] = location
    BY <1>2, <1>4, Goes
  <1>5. ASSUME NEW r \in Readers, ReadLimit(r) \/ CreateLimit(r) \/ ResetLimit(r)
        PROVE  /\ UNCHANGED <<queue, cache, item, call, asked>>
               /\ pc'["worker"] = "count" => pc["worker"] = "count"
    <2>1. statuses \in Nat /\ faults \in Nat
      BY DEF Types
    <2>2. /\ UNCHANGED <<queue, cache, item, call, asked>>
          /\ pc'[r] \in {"rest", "create", "reset", "pop"}
          /\ \A q \in Readers \ {r} : pc'[q] = pc[q]
      BY <1>2, <1>5, <2>1, ReaderStep
    <2> QED
      BY <1>2, <2>2
  <1>6. ASSUME UNCHANGED <<queue, cache, item, call, asked>>,
               pc'["worker"] = "count" => pc["worker"] = "count"
        PROVE  /\ \A ip \in asked' : Known(ip)'
               /\ pc'["worker"] = "count" => cache'[item'.ip] # "none"
    BY <1>3, <1>6 DEF Known, Queued
  <1>7. ASSUME NEW c \in Callers, EnqueueChecksCache(c)
        PROVE  /\ \A ip \in asked' : Known(ip)'
               /\ pc'["worker"] = "count" => cache'[item'.ip] # "none"
    <2>1. PICK ip \in Ips : /\ asked' = asked \cup {ip}
                            /\ call' = [call EXCEPT ![c] = IF cache[ip] = "fresh" THEN NoIp ELSE ip]
      BY <1>1, <1>7 DEF EnqueueChecksCache
    <2>2. UNCHANGED <<queue, cache, item, pc>> /\ call[c] = NoIp
      BY <1>1, <1>7 DEF EnqueueChecksCache, tables
    <2>3. \A d \in Callers : d # c => call'[d] = call[d]
      BY <1>2, <2>1
    <2>4. ASSUME NEW other \in asked PROVE Known(other)'
      <3>1. CASE \E d \in Callers : call[d] = other
        <4>1. PICK d \in Callers : call[d] = other
          BY <3>1
        <4>2. call'[d] = other
          BY <1>2, <2>2, <2>3, <4>1
        <4> QED
          BY <4>2 DEF Known
      <3>2. CASE ~\E d \in Callers : call[d] = other
        BY <1>3, <2>2, <3>2 DEF Known, Queued
      <3> QED
        BY <3>1, <3>2
    <2>5. Known(ip)'
      <3>1. CASE cache[ip] = "fresh"
        BY <2>2, <3>1 DEF Known
      <3>2. CASE cache[ip] # "fresh"
        <4>1. call'[c] = ip
          BY <1>2, <2>1, <3>2
        <4> QED
          BY <4>1 DEF Known
      <3> QED
        BY <3>1, <3>2
    <2> QED
      BY <1>3, <2>1, <2>2, <2>4, <2>5
  <1>8. ASSUME NEW c \in Callers, EnqueueInserts(c)
        PROVE  /\ \A ip \in asked' : Known(ip)'
               /\ pc'["worker"] = "count" => cache'[item'.ip] # "none"
    <2>1. /\ InsertOrIgnore(call[c], 0) /\ call' = [call EXCEPT ![c] = NoIp] /\ call[c] # NoIp
          /\ UNCHANGED <<cache, item, pc, asked>>
      BY <1>1, <1>8 DEF EnqueueInserts, InsertOrIgnore, observers
    <2>2. call[c] \in Ips /\ 0 \in 0 .. MaxPriority
      BY <1>2, <2>1, RepConstants
    <2>3. PICK ip \in Ips : ip = call[c]
      BY <2>2
    <2>5. Queued(ip)' /\ \A other : Queued(other) => Queued(other)'
      BY <2>1, <2>2, <2>3, Inserted
    <2>4. ASSUME NEW other \in asked PROVE Known(other)'
      <3>1. CASE \E d \in Callers : call[d] = other
        <4>1. PICK d \in Callers : call[d] = other
          BY <3>1
        <4>2. CASE d = c
          BY <2>3, <2>5, <4>1, <4>2 DEF Known
        <4>3. CASE d # c
          <5>1. call'[d] = other
            BY <1>2, <2>1, <4>1, <4>3
          <5> QED
            BY <5>1 DEF Known
        <4> QED
          BY <4>2, <4>3
      <3>2. CASE ~\E d \in Callers : call[d] = other
        BY <1>3, <2>1, <2>5, <3>2 DEF Known
      <3> QED
        BY <3>1, <3>2
    <2> QED
      BY <1>3, <2>1, <2>4
  <1>9. CASE PopNext
    <2>1. UNCHANGED <<cache, call, asked>>
      BY <1>1, <1>9 DEF PopNext, WorkerFrame, tables
    <2>2. ASSUME NEW i \in DOMAIN queue, item' = queue[i], queue' = RemoveAt(queue, i),
                 GoTo("worker", "ask")
          PROVE  /\ \A ip \in asked' : Known(ip)'
                 /\ pc'["worker"] = "count" => cache'[item'.ip] # "none"
      <3>1. \A other : Queued(other) /\ other # queue[i].ip => Queued(other)'
        BY <2>2, PopStep
      <3>2. pc'["worker"] = "ask" /\ item.ip = NoIp
        BY <1>2, <1>4, <1>9, <2>2 DEF PopNext, Locations
      <3>3. ASSUME NEW other \in asked PROVE Known(other)'
        BY <1>2, <1>3, <2>1, <2>2, <3>1, <3>2 DEF Known
      <3> QED
        BY <2>1, <3>2, <3>3
    <2>3. CASE UNCHANGED <<queue, item>> /\ GoTo("worker", "rest")
      <3>1. pc'["worker"] = "rest"
        BY <1>4, <2>3 DEF Locations
      <3> QED
        BY <1>6, <2>1, <2>3, <3>1
    <2> QED
      BY <1>1, <1>9, <2>2, <2>3 DEF PopNext, tables
  <1>10. CASE LookupAnswered \/ LookupRefused \/ PinLimit
    <2>1. UNCHANGED <<queue, cache, item, call, asked>>
      BY <1>1, <1>10 DEF LookupAnswered, LookupRefused, PinLimit, IncrementRateLimit,
                         WorkerFrame, tables
    <2>2. pc'["worker"] \in {"cache", "pin", "requeue"}
      BY <1>4, <1>10 DEF LookupAnswered, LookupRefused, PinLimit, Locations
    <2> QED
      BY <1>6, <2>1, <2>2
  <1>11. CASE PutReputation
    <2>1. /\ cache' = [cache EXCEPT ![item.ip] = "fresh"] /\ pc["worker"] = "cache"
          /\ UNCHANGED <<queue, item, call, asked>>
      BY <1>1, <1>11 DEF PutReputation, WorkerFrame
    <2>2. item.ip \in Ips
      BY <1>2, <2>1 DEF QueueItem
    <2>3. cache'[item'.ip] = "fresh" /\ \A ip \in Ips : cache[ip] # "none" => cache'[ip] # "none"
      BY <1>2, <2>1, <2>2
    <2> QED
      BY <1>2, <1>3, <2>1, <2>3 DEF Known, Queued
  <1>12. CASE CountLookup
    <2>1. /\ item' = NoItem /\ pc["worker"] = "count"
          /\ UNCHANGED <<queue, cache, call, asked>>
      BY <1>1, <1>12 DEF CountLookup, IncrementRateLimit, WorkerFrame
    <2>2. pc'["worker"] = "rest"
      BY <1>4, <1>12 DEF CountLookup, Locations
    <2> QED
      BY <1>3, <2>1, <2>2 DEF Known, Queued
  <1>13. CASE Requeue
    <2>1. /\ InsertOrIgnore(item.ip, item.priority + 1) /\ item' = NoItem
          /\ pc["worker"] = "requeue" /\ UNCHANGED <<cache, call, asked>>
      BY <1>1, <1>13 DEF Requeue, InsertOrIgnore, WorkerFrame
    <2>2. item.ip \in Ips /\ item.priority + 1 \in 0 .. MaxPriority
      BY <1>2, <2>1, RepConstants DEF QueueItem, Types
    <2>3. PICK ip \in Ips : ip = item.ip
      BY <2>2
    <2>4. Queued(ip)' /\ \A other : Queued(other) => Queued(other)'
      BY <2>1, <2>2, <2>3, Inserted
    <2>5. pc'["worker"] = "rest"
      BY <1>4, <1>13 DEF Requeue, Locations
    <2> QED
      BY <1>3, <2>1, <2>3, <2>4, <2>5 DEF Known
  <1>14. CASE DayPasses \/ UNCHANGED vars
    BY <1>6, <1>14 DEF DayPasses, vars, tables, observers
  <1>15. CASE EntryExpires
    <2>1. UNCHANGED <<queue, item, call, asked, pc>>
      BY <1>15 DEF EntryExpires, observers
    <2>2. \A ip \in Ips : cache[ip] # "none" => cache'[ip] # "none"
      BY <1>2, <1>15 DEF EntryExpires
    <2>3. pc["worker"] = "count" => item.ip \in Ips
      BY <1>2 DEF QueueItem
    <2> QED
      BY <1>2, <1>3, <2>1, <2>2, <2>3 DEF Known, Queued
  <1>16. ~ClearAllHistory /\ ~Crash
    BY <1>1 DEF ClearAllHistory, Crash
  <1> QED
    BY <1>5, <1>6, <1>7, <1>8, <1>9, <1>10, <1>11, <1>12, <1>13, <1>14, <1>15, <1>16
       DEF Next, Worker, Status, Caller, Readers

-----------------------------------------------------------------------------

LEMMA AlwaysIInv == Spec => []IInv
  <1>1. Init => IInv
    BY TypesInit, CounterInit, SpendingInit, KeptInit DEF IInv
  <1>2. IInv /\ [Next]_vars => IInv'
    BY TypesNext, CounterNext, SpendingNext, KeptNext DEF IInv
  <1> QED
    BY <1>1, <1>2, PTL DEF Spec

(* Whoever enqueues, pops or puts back, clears or crashes, an address is queued
   once, and the worker holds an item where it uses one. *)
THEOREM TypeCorrect == Spec => []TypeOK
  <1>1. IInv => TypeOK
    BY DEF IInv, Types
  <1> QED
    BY <1>1, AlwaysIInv, PTL

(* Between its reading of the counter and its count nobody fills the counter
   under the worker, the dashboard and every fault included. *)
THEOREM FullCounterSafe == Spec => []FullCounterStops
  <1>1. IInv => FullCounterStops
    BY DEF IInv, Counter, FullCounterStops
  <1> QED
    BY <1>1, AlwaysIInv, PTL

(* For any budget, the worker alone exceeds it by one lookup at most. *)
THEOREM BudgetSafe == Spec => []OverspendsByOneAtMost
  <1>1. IInv => OverspendsByOneAtMost
    <2> SUFFICES ASSUME IInv, statuses = 0, faults = 0
                 PROVE  spent <= Budget + 1
      BY DEF OverspendsByOneAtMost
    <2>1. Alone /\ Counter /\ TypeOK
      BY DEF IInv, Spending, Types
    <2>2. /\ limit = NoRow \/ limit \in [used : Nat, current : BOOLEAN]
          /\ spent \in Nat /\ Budget \in Nat
      BY <2>1, RepConstants DEF TypeOK
    <2> QED
      BY <2>1, <2>2 DEF Alone, Counter
  <1> QED
    BY <1>1, AlwaysIInv, PTL

(* Before any fault every address that was asked for is somewhere. *)
THEOREM NothingForgottenSafe == Spec => []NothingForgotten
  <1>1. IInv => NothingForgotten
    BY DEF IInv, Kept
  <1> QED
    BY <1>1, AlwaysIInv, PTL

=============================================================================
