----------------------------- MODULE Reputation -----------------------------
(***************************************************************************)
(* Threat-intel lookups for one provider: the durable queue, the verdict   *)
(* cache and the daily counter of internal/store/reputation.go, with the   *)
(* three kinds of goroutine that use them:                                 *)
(*   - pollers, which Enqueue an address (check the cache, then insert);   *)
(*   - the drip worker, whose tick reads the counter, pops an address,     *)
(*     asks the provider and records the answer;                           *)
(*   - the dashboard's GetStatus, which reads the counter and, like the    *)
(*     worker, creates or resets it in a second statement.                 *)
(* Every statement or transaction is one step.                             *)
(*                                                                         *)
(* Time is relative: the counter's row is of today or not, a cached entry  *)
(* is fresh or expired, and a goroutine's notion of `today' may go out of  *)
(* date under it.  How often the worker wakes is left open, since its      *)
(* comment says that the counter alone keeps it within the budget.         *)
(***************************************************************************)
EXTENDS Integers, Sequences, SequencesExt

CONSTANTS
    Ips,          \* public addresses
    NoIp,
    Callers,      \* poller goroutines calling Enqueue
    Budget,       \* dailyBudget
    MaxPriority,  \* bound: times one address is put back after a 429
    MaxSpent,     \* bound: lookups a day
    MaxStatus,    \* bound: GetStatus calls
    MaxFaults     \* bound: failing store calls, uses of Clear database, crashes

ASSUME RepConstants ==
    /\ NoIp \notin Ips
    /\ Budget \in Nat \ {0}
    /\ {MaxPriority, MaxSpent, MaxStatus, MaxFaults} \subseteq Nat

VARIABLES
    queue,     \* reputation_queue in insertion order: sequence of [ip, priority]
    cache,     \* ip_reputation_cache: ip |-> "none", "fresh" or "expired"
    limit,     \* provider_rate_limit: NoRow or [used, current]
    pc,        \* where the worker and the status handler are
    onTime,    \* is the date they computed still today's?
    item,      \* the queue item the worker holds
    call,      \* what each caller is about to insert
    spent,     \* observer: lookups the provider answered today
    asked,     \* observer: addresses Enqueue was called for
    statuses, faults  \* uses made of the bounds

tables == <<queue, cache, limit>>
observers == <<spent, asked>>
counts == <<statuses, faults>>
vars == <<tables, pc, onTime, item, call, observers, counts>>

Readers == {"worker", "status"}
NoRow == [used |-> -1, current |-> FALSE]
NoItem == [ip |-> NoIp, priority |-> 0]

Queued(ip) == \E i \in DOMAIN queue : queue[i].ip = ip

(* The state of a goroutine goes on to `location'. *)
GoTo(r, location) == pc' = [pc EXCEPT ![r] = location]

Fault ==
    /\ faults < MaxFaults
    /\ faults' = faults + 1

(* A store call fails, without effect on the tables. *)
StoreFails == Fault /\ UNCHANGED tables

StoreSucceeds == UNCHANGED faults

-----------------------------------------------------------------------------
(* Manager.Enqueue                                                         *)

(* GetReputation: only a fresh entry ends the call; an error of the store
   does not. *)
EnqueueChecksCache(c) ==
    /\ call[c] = NoIp
    /\ \E ip \in Ips :
         /\ asked' = asked \cup {ip}
         /\ \/ /\ call' = [call EXCEPT ![c] = IF cache[ip] = "fresh" THEN NoIp ELSE ip]
               /\ UNCHANGED tables
               /\ StoreSucceeds
            \/ /\ call' = [call EXCEPT ![c] = ip]
               /\ StoreFails
    /\ UNCHANGED <<pc, onTime, item, spent, statuses>>

(* Bug: a plain INSERT without the unique key. *)
InsertOrIgnore_Duplicates(ip, priority) ==
    /\ queue' = Append(queue, [ip |-> ip, priority |-> priority])
    /\ UNCHANGED <<cache, limit>>

(* INSERT OR IGNORE on (provider, ip); the priority of an item that is
   already queued does not change. *)
InsertOrIgnore(ip, priority) ==
    /\ queue' = IF Queued(ip) THEN queue
                ELSE Append(queue, [ip |-> ip, priority |-> priority])
    /\ UNCHANGED <<cache, limit>>

EnqueueInserts(c) ==
    /\ call[c] # NoIp
    /\ \/ InsertOrIgnore(call[c], 0) /\ StoreSucceeds
       \/ StoreFails
    /\ call' = [call EXCEPT ![c] = NoIp]
    /\ UNCHANGED <<pc, onTime, item, observers, statuses>>

-----------------------------------------------------------------------------
(* Store.RateLimitStatus, in two statements, for the worker's tick and for *)
(* GetStatus.                                                              *)

ReaderFrame == UNCHANGED <<item, call, observers>>

(* Bug: one lookup more than the budget. *)
Decide_OffByOne(r, used) == GoTo(r, IF r = "worker" /\ used <= Budget THEN "pop" ELSE "rest")

(* Where a reader goes with the count: GetStatus is done (reading the queue
   depth changes nothing), the worker pops if the budget is not used up. *)
Decide(r, used) == GoTo(r, IF r = "worker" /\ used < Budget THEN "pop" ELSE "rest")

(* The worker wakes, or someone opens the dashboard: SELECT. *)
ReadLimit(r) ==
    /\ pc[r] = "rest"
    /\ statuses' = IF r = "status" THEN statuses + 1 ELSE statuses
    /\ statuses' <= MaxStatus
    /\ onTime' = [onTime EXCEPT ![r] = TRUE]
    /\ \/ /\ UNCHANGED tables
          /\ StoreSucceeds
          /\ IF limit = NoRow THEN GoTo(r, "create")
             ELSE IF ~limit.current THEN GoTo(r, "reset")
             ELSE Decide(r, limit.used)
       \/ /\ StoreFails
          /\ UNCHANGED pc
    /\ ReaderFrame

(* INSERT: refused when the other reader was faster. *)
CreateLimit(r) ==
    /\ pc[r] = "create"
    /\ \/ /\ limit = NoRow
          /\ limit' = [used |-> 0, current |-> onTime[r]]
          /\ UNCHANGED <<queue, cache>>
          /\ StoreSucceeds
          /\ Decide(r, 0)
       \/ /\ limit # NoRow
          /\ UNCHANGED tables
          /\ StoreSucceeds
          /\ GoTo(r, "rest")
       \/ /\ StoreFails
          /\ GoTo(r, "rest")
    /\ UNCHANGED <<onTime, statuses>>
    /\ ReaderFrame

(* UPDATE: the count restarts, whatever happened to the row since it was
   read; a row that is gone is not updated. *)
ResetLimit(r) ==
    /\ pc[r] = "reset"
    /\ \/ /\ limit' = IF limit = NoRow THEN NoRow
                      ELSE [used |-> 0, current |-> onTime[r]]
          /\ UNCHANGED <<queue, cache>>
          /\ StoreSucceeds
          /\ Decide(r, 0)
       \/ /\ StoreFails
          /\ GoTo(r, "rest")
    /\ UNCHANGED <<onTime, statuses>>
    /\ ReaderFrame

-----------------------------------------------------------------------------
(* Manager.tick, after RateLimitStatus                                     *)

WorkerFrame == UNCHANGED <<onTime, call, asked, statuses>>

(* Bug: the newest of the highest priority. *)
IsFirst_Newest(i) ==
    \A j \in DOMAIN queue : \/ queue[i].priority > queue[j].priority
                            \/ queue[i].priority = queue[j].priority /\ i >= j

(* ORDER BY priority DESC, enqueued_at ASC *)
IsFirst(i) ==
    \A j \in DOMAIN queue : \/ queue[i].priority > queue[j].priority
                            \/ queue[i].priority = queue[j].priority /\ i <= j

(* One transaction: read the first item and delete it. *)
PopNext ==
    /\ pc["worker"] = "pop"
    /\ \/ /\ \E i \in DOMAIN queue : /\ IsFirst(i)
                                     /\ item' = queue[i]
                                     /\ queue' = RemoveAt(queue, i)
          /\ UNCHANGED <<cache, limit>>
          /\ StoreSucceeds
          /\ GoTo("worker", "ask")
       \/ /\ queue = <<>>
          /\ UNCHANGED <<tables, item>>
          /\ StoreSucceeds
          /\ GoTo("worker", "rest")
       \/ /\ StoreFails
          /\ UNCHANGED item
          /\ GoTo("worker", "rest")
    /\ UNCHANGED spent
    /\ WorkerFrame

(* The provider answers, with a verdict or an error: either is cached. *)
LookupAnswered ==
    /\ pc["worker"] = "ask"
    /\ spent < MaxSpent
    /\ spent' = spent + 1
    /\ GoTo("worker", "cache")
    /\ StoreSucceeds
    /\ UNCHANGED <<tables, item>>
    /\ WorkerFrame

(* The provider answers 429. *)
LookupRefused ==
    /\ pc["worker"] = "ask"
    /\ item.priority < MaxPriority
    /\ GoTo("worker", "pin")
    /\ StoreSucceeds
    /\ UNCHANGED <<tables, item, spent>>
    /\ WorkerFrame

PutReputation ==
    /\ pc["worker"] = "cache"
    /\ \/ /\ cache' = [cache EXCEPT ![item.ip] = "fresh"]
          /\ UNCHANGED <<queue, limit>>
          /\ StoreSucceeds
       \/ StoreFails
    /\ GoTo("worker", "count")
    /\ UNCHANGED <<item, spent>>
    /\ WorkerFrame

(* The counter of whatever day the row is of; no row, no count. *)
IncrementRateLimit(exhausted) ==
    /\ limit' = IF limit = NoRow THEN NoRow
                ELSE [limit EXCEPT !.used = IF exhausted THEN Budget ELSE @ + 1]
    /\ UNCHANGED <<queue, cache>>

CountLookup ==
    /\ pc["worker"] = "count"
    /\ \/ IncrementRateLimit(FALSE) /\ StoreSucceeds
       \/ StoreFails
    /\ item' = NoItem
    /\ GoTo("worker", "rest")
    /\ UNCHANGED spent
    /\ WorkerFrame

(* Bug: a refused address is not put back. *)
PinLimit_NoRequeue ==
    /\ pc["worker"] = "pin"
    /\ IncrementRateLimit(TRUE)
    /\ StoreSucceeds
    /\ item' = NoItem
    /\ GoTo("worker", "rest")
    /\ UNCHANGED spent
    /\ WorkerFrame

PinLimit ==
    /\ pc["worker"] = "pin"
    /\ \/ IncrementRateLimit(TRUE) /\ StoreSucceeds
       \/ StoreFails
    /\ GoTo("worker", "requeue")
    /\ UNCHANGED <<item, spent>>
    /\ WorkerFrame

Requeue ==
    /\ pc["worker"] = "requeue"
    /\ \/ InsertOrIgnore(item.ip, item.priority + 1) /\ StoreSucceeds
       \/ StoreFails
    /\ item' = NoItem
    /\ GoTo("worker", "rest")
    /\ UNCHANGED spent
    /\ WorkerFrame

-----------------------------------------------------------------------------
(* Around them                                                             *)

(* Midnight, UTC. *)
DayPasses ==
    /\ limit' = [limit EXCEPT !.current = FALSE]
    /\ onTime' = [r \in Readers |-> FALSE]
    /\ spent' = 0
    /\ UNCHANGED <<queue, cache, pc, item, call, asked, counts>>

EntryExpires ==
    /\ \E ip \in Ips : /\ cache[ip] = "fresh"
                       /\ cache' = [cache EXCEPT ![ip] = "expired"]
    /\ UNCHANGED <<queue, limit, pc, onTime, item, call, observers, counts>>

(* ClearAllHistory empties the three tables in one transaction. *)
ClearAllHistory ==
    /\ Fault
    /\ queue' = <<>>
    /\ cache' = [ip \in Ips |-> "none"]
    /\ limit' = NoRow
    /\ UNCHANGED <<pc, onTime, item, call, observers, statuses>>

Crash ==
    /\ Fault
    /\ pc' = [r \in Readers |-> "rest"]
    /\ onTime' = [r \in Readers |-> FALSE]
    /\ item' = NoItem
    /\ call' = [c \in Callers |-> NoIp]
    /\ UNCHANGED <<tables, observers, statuses>>

Init ==
    /\ queue = <<>>
    /\ cache = [ip \in Ips |-> "none"]
    /\ limit = NoRow
    /\ pc = [r \in Readers |-> "rest"]
    /\ onTime = [r \in Readers |-> FALSE]
    /\ item = NoItem
    /\ call = [c \in Callers |-> NoIp]
    /\ spent = 0
    /\ asked = {}
    /\ statuses = 0 /\ faults = 0

Worker ==
    \/ ReadLimit("worker") \/ CreateLimit("worker") \/ ResetLimit("worker")
    \/ PopNext \/ LookupAnswered \/ LookupRefused
    \/ PutReputation \/ CountLookup \/ PinLimit \/ Requeue

Status == ReadLimit("status") \/ CreateLimit("status") \/ ResetLimit("status")

Caller(c) == EnqueueChecksCache(c) \/ EnqueueInserts(c)

Next ==
    \/ Worker
    \/ Status
    \/ \E c \in Callers : Caller(c)
    \/ DayPasses
    \/ EntryExpires
    \/ ClearAllHistory
    \/ Crash

Spec == Init /\ [][Next]_vars

(* Fairness: the worker keeps ticking, a call of Enqueue gets to its insert,
   days pass, and the provider does not refuse the same address for ever. *)
FairSpec ==
    /\ Spec
    /\ WF_vars(Worker)
    /\ \A ip \in Ips : SF_vars(LookupAnswered /\ item.ip = ip)
    /\ \A c \in Callers : WF_vars(EnqueueInserts(c))
    /\ WF_vars(DayPasses)

-----------------------------------------------------------------------------

TypeOK ==
    /\ \A i \in DOMAIN queue : queue[i] \in [ip : Ips, priority : 0 .. MaxPriority]
    /\ \A i, j \in DOMAIN queue : queue[i].ip = queue[j].ip => i = j
    /\ cache \in [Ips -> {"none", "fresh", "expired"}]
    /\ limit = NoRow \/ limit \in [used : Nat, current : BOOLEAN]
    /\ pc \in [Readers -> {"rest", "create", "reset", "pop", "ask", "cache", "count",
                            "pin", "requeue"}]
    /\ onTime \in [Readers -> BOOLEAN]
    /\ item = NoItem \/ item \in [ip : Ips, priority : 0 .. MaxPriority]
    /\ call \in [Callers -> Ips \cup {NoIp}]
    /\ spent \in Nat
    /\ asked \subseteq Ips
    /\ pc["worker"] \in {"ask", "cache", "count", "pin", "requeue"} => item # NoItem

(* What the counter does guarantee before any dashboard request and fault:
   the day's lookups exceed the budget by one at most, the lookup of a tick
   that read the counter before midnight. *)
OverspendsByOneAtMost == statuses = 0 /\ faults = 0 => spent <= Budget + 1

(* A full counter stops the worker, in spite of every failure: once the
   count it read let it pop an address, nobody but itself raises the count. *)
FullCounterStops ==
    pc["worker"] \in {"pop", "ask", "cache"} => limit.used < Budget

(* Before any fault an address whose lookup was requested is not forgotten: it
   is about to be inserted, queued, in the worker's hands, or was answered. *)
NothingForgotten ==
    faults = 0 => \A ip \in asked :
      \/ \E c \in Callers : call[c] = ip
      \/ Queued(ip)
      \/ item.ip = ip
      \/ cache[ip] # "none"

(* A queued address is looked up in the end, whatever else is queued, unless
   another fault occurs: the worker wakes for ever and the counter restarts
   every day, after faults of the past and with the dashboard in use too. *)
QueuedIsLookedUp ==
    \A ip \in Ips : \A f \in 0 .. MaxFaults :
      Queued(ip) /\ faults = f ~> cache[ip] # "none" \/ faults > f

-----------------------------------------------------------------------------
(* What comments say and the code does not keep: TLC refutes each of these *)
(* (README, Departures).                                                   *)

(* The comment of RunDripWorker: the counter never lets a day's lookups
   exceed the budget.  A tick across midnight is enough to break it, by one
   lookup (OverspendsByOneAtMost). *)
NeverOverspends == spent <= Budget

(* What is left of that comment if it is granted the tick across midnight: no
   day has two lookups too many.  Reading the counter, on the dashboard, makes
   the worker spend more than that. *)
NeverOverspendsByTwo == spent <= Budget + 1

(* The queue is durable: an address the worker took out of it has been
   answered, or is queued again, when the worker lets go of it. *)
WorkerReturnsWhatItTook ==
    [][item.ip # NoIp /\ item'.ip = NoIp =>
         \/ cache'[item.ip] # "none"
         \/ \E i \in DOMAIN queue' : queue'[i].ip = item.ip]_vars

(* The comment of Manager: Enqueue is a no-op for an address that is cached,
   so that the scarce budget is never spent on one. *)
NeverAsksForFresh == [][LookupAnswered => cache[item.ip] # "fresh"]_vars

(* The comment in tick: a refused address goes back to the front. *)
RequeuedInFront ==
    [][pc["worker"] = "requeue" /\ pc'["worker"] = "rest" =>
         \E i \in DOMAIN queue' : IsFirst(i)' /\ queue'[i].ip = item.ip]_vars
=============================================================================
