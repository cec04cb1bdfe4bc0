----------------------------- MODULE FlowStore -----------------------------
(***************************************************************************)
(* The traffic tables of internal/store for one firewall: flow_sessions,   *)
(* flow_samples, port_usage and port_usage_dst_ips, with one action per    *)
(* method of Store that writes them.  The store writes through one         *)
(* connection, so a call is one atomic step; what interleaves is the       *)
(* order of the calls, which the modules that EXTEND this one decide.      *)
(*                                                                         *)
(* Abstractions.  A session key is a record of its five-tuple (protocol    *)
(* and destination port together are the `service').  tx_bytes and         *)
(* rx_bytes are kept as their sum, the only thing the code computes with.  *)
(* Timestamps, packet counters, host names, NAT and TTL columns are left   *)
(* out: no statement reads them back to decide anything.                   *)
(***************************************************************************)
EXTENDS Integers, FiniteSets

CONSTANTS
    Keys,        \* session keys: records with fields src, sport, dst, service
    Private,     \* the addresses IsPrivateOrReserved accepts
    Apps,        \* DPI application names
    TcpStates    \* values of the TCP state column

VARIABLES
    sessions,    \* flow_sessions: id |-> row
    nextId,      \* the AUTOINCREMENT counter of flow_sessions
    samples,     \* flow_samples, as the set of (session, event, state)
    usage,       \* port_usage: bucket |-> row
    dstIPs       \* port_usage_dst_ips: pairs (bucket, address)

storeVars == <<sessions, nextId, samples, usage, dstIPs>>

-----------------------------------------------------------------------------
(* Columns                                                                 *)

Events == {"start", "heartbeat", "state_change"}
Scopes == {"internal", "outbound", "inbound", "external"}

Services == {k.service : k \in Keys}
Addresses == {k.dst : k \in Keys}
Buckets == [service : Services, app : Apps]

(* A line of the device's conntrack listing, its key apart. *)
Flow == [app : Apps, state : TcpStates, bytes : Nat]

SessionRow == [key : Keys, app : Apps, state : TcpStates, bytes : Nat, closed : BOOLEAN]
Sample == [session : Nat, event : Events, state : TcpStates]
UsageRow == [count : Nat, bytes : Nat, distinct : Nat, scope : [Scopes -> Nat]]

IsPrivateOrReserved(address) == address \in Private

ClassifyScope(srcPrivate, dstPrivate) ==
    CASE srcPrivate /\ dstPrivate   -> "internal"
      [] srcPrivate /\ ~dstPrivate  -> "outbound"
      [] ~srcPrivate /\ dstPrivate  -> "inbound"
      [] ~srcPrivate /\ ~dstPrivate -> "external"

ScopeOf(key) == ClassifyScope(IsPrivateOrReserved(key.src), IsPrivateOrReserved(key.dst))

Bucket(key, app) == [service |-> key.service, app |-> app]

-----------------------------------------------------------------------------
(* Queries                                                                 *)

(* The rows OpenSessions selects. *)
OpenIds == {id \in DOMAIN sessions : ~sessions[id].closed}

(* Bugs this query could have: `closed_at = NULL' selects no row at all; no
   condition on closed_at selects the closed rows too.  The specifications
   use neither; they show that the properties notice. *)
OpenSessions_None == {[k \in {} |-> 0]}

OpenSessions_ClosedToo ==
    LET keys == {sessions[id].key : id \in DOMAIN sessions}
    IN  {pick \in [keys -> DOMAIN sessions] : \A k \in keys : sessions[pick[k]].key = k}

(* The maps OpenSessions may return: one open row for every key that has
   one.  Nothing in the query orders the rows, and a later row of the same
   key replaces an earlier one. *)
OpenSessions ==
    LET keys == {sessions[id].key : id \in OpenIds}
    IN  {pick \in [keys -> OpenIds] : \A k \in keys : sessions[pick[k]].key = k}

-----------------------------------------------------------------------------
(* Statements                                                              *)

StoreInit ==
    /\ sessions = [id \in {} |-> {}]
    /\ nextId = 1
    /\ samples = {}
    /\ usage = [b \in {} |-> {}]
    /\ dstIPs = {}

(* INSERT INTO flow_sessions: the new row's id is nextId, never one that was
   used before. *)
InsertSession(key, flow) ==
    /\ sessions' = [id \in DOMAIN sessions \cup {nextId} |->
                      IF id = nextId
                      THEN [key |-> key, app |-> flow.app, state |-> flow.state,
                            bytes |-> flow.bytes, closed |-> FALSE]
                      ELSE sessions[id]]
    /\ nextId' = nextId + 1
    /\ UNCHANGED <<samples, usage, dstIPs>>

(* UPDATE ... WHERE id = ?: whether the row is open is not looked at, and a
   row that is gone is silently not updated. *)
UpdateSession(id, flow) ==
    /\ sessions' = IF id \in DOMAIN sessions
                   THEN [sessions EXCEPT ![id] = [@ EXCEPT !.app = flow.app,
                                                            !.state = flow.state,
                                                            !.bytes = flow.bytes]]
                   ELSE sessions
    /\ UNCHANGED <<nextId, samples, usage, dstIPs>>

CloseSession(id) ==
    /\ sessions' = IF id \in DOMAIN sessions
                   THEN [sessions EXCEPT ![id] = [@ EXCEPT !.closed = TRUE]]
                   ELSE sessions
    /\ UNCHANGED <<nextId, samples, usage, dstIPs>>

(* The foreign key on session_id refuses a sample of a row that is gone. *)
SampleAllowed(id) == id \in DOMAIN sessions

InsertSample(id, event, flow) ==
    /\ SampleAllowed(id)
    /\ samples' = samples \cup {[session |-> id, event |-> event, state |-> flow.state]}
    /\ UNCHANGED <<sessions, nextId, usage, dstIPs>>

NewBucket == [count |-> 0, bytes |-> 0, distinct |-> 0, scope |-> [s \in Scopes |-> 0]]

(* The row a bucket has after the upsert and, when the address is new to the
   bucket, the increment of distinct_dst_ips. *)
Bumped(old, key, delta, isNewSession, newAddress) ==
    [count    |-> old.count + (IF isNewSession THEN 1 ELSE 0),
     bytes    |-> old.bytes + delta,
     distinct |-> old.distinct + (IF newAddress THEN 1 ELSE 0),
     scope    |-> [s \in Scopes |->
                     old.scope[s] + (IF isNewSession /\ s = ScopeOf(key) THEN 1 ELSE 0)]]

(* One transaction: the upsert of the bucket, the INSERT OR IGNORE of the
   destination address and the increment that follows it. *)
BumpPortUsage(key, app, delta, isNewSession) ==
    LET b   == Bucket(key, app)
        old == IF b \in DOMAIN usage THEN usage[b] ELSE NewBucket
    IN  /\ usage' = [x \in DOMAIN usage \cup {b} |->
                       IF x = b
                       THEN Bumped(old, key, delta, isNewSession, <<b, key.dst>> \notin dstIPs)
                       ELSE usage[x]]
        /\ dstIPs' = dstIPs \cup {<<b, key.dst>>}
        /\ UNCHANGED <<sessions, nextId, samples>>

(* Bugs: the table created without AUTOINCREMENT (ids start again), and a
   table missing from the list. *)
ClearAllHistory_IdsReused ==
    /\ sessions' = [id \in {} |-> {}]
    /\ samples' = {}
    /\ usage' = [b \in {} |-> {}]
    /\ dstIPs' = {}
    /\ nextId' = 1

ClearAllHistory_KeepsAddresses ==
    /\ sessions' = [id \in {} |-> {}]
    /\ samples' = {}
    /\ usage' = [b \in {} |-> {}]
    /\ UNCHANGED <<nextId, dstIPs>>

(* One transaction that empties every history table.  The AUTOINCREMENT
   counter lives in sqlite_sequence and is not reset. *)
ClearAllHistory ==
    /\ sessions' = [id \in {} |-> {}]
    /\ samples' = {}
    /\ usage' = [b \in {} |-> {}]
    /\ dstIPs' = {}
    /\ UNCHANGED nextId

-----------------------------------------------------------------------------

StoreTypeOK ==
    /\ nextId \in Nat \ {0}
    /\ DOMAIN sessions \subseteq 1 .. nextId - 1
    /\ \A id \in DOMAIN sessions : sessions[id] \in SessionRow
    /\ samples \subseteq Sample
    /\ DOMAIN usage \subseteq Buckets
    /\ \A b \in DOMAIN usage : usage[b] \in UsageRow
    /\ dstIPs \subseteq Buckets \X Addresses

(* A step that loses no bucket and lowers no counter of one. *)
UsageGrows ==
    \A b \in DOMAIN usage :
      /\ b \in DOMAIN usage'
      /\ usage'[b].count >= usage[b].count
      /\ usage'[b].bytes >= usage[b].bytes
      /\ usage'[b].distinct >= usage[b].distinct
=============================================================================
