----------------------------- MODULE FlowHistory -----------------------------
(***************************************************************************)
(* What the poller, its store and retention promise together to whoever    *)
(* reads the history of a firewall, without how they do it: sessions that  *)
(* are opened, closed and dropped, and a permanent rollup.  Each action is *)
(* one change that a reader of the database can see.                       *)
(***************************************************************************)
EXTENDS Integers, FiniteSetsExt

CONSTANTS
    Keys,       \* five-tuples
    Buckets,    \* buckets of the rollup
    Services,   \* what traffic is counted by
    Undisturbed \* one writer at a time, whose calls succeed?

VARIABLES
    rows,      \* sessions: id |-> [key, closed]
    issued,    \* the last id that was given out
    rollup,    \* bucket |-> bytes
    carried,   \* service |-> bytes it really carried
    faithful   \* has every listing been read as it is?

vars == <<rows, issued, rollup, carried, faithful>>

OpenRows == {id \in DOMAIN rows : ~rows[id].closed}

Total(service) ==
    SumFunctionOnSet(rollup, {b \in DOMAIN rollup : b.service = service})

Init ==
    /\ rows = [id \in {} |-> {}]
    /\ issued = 0
    /\ rollup = [b \in {} |-> 0]
    /\ carried = [s \in Services |-> 0]
    /\ faithful = TRUE

(* The firewall carries traffic. *)
Carry ==
    /\ \E s \in Services : carried' = [carried EXCEPT ![s] = @ + 1]
    /\ UNCHANGED <<rows, issued, rollup, faithful>>

(* A listing was not read as it is. *)
Misread ==
    /\ faithful' = FALSE
    /\ UNCHANGED <<rows, issued, rollup, carried>>

(* A flow gets a session, under an id never used before. *)
Open(key) ==
    /\ Undisturbed => \A id \in OpenRows : rows[id].key # key
    /\ issued' = issued + 1
    /\ rows' = [id \in DOMAIN rows \cup {issued'} |->
                  IF id = issued' THEN [key |-> key, closed |-> FALSE] ELSE rows[id]]
    /\ UNCHANGED <<rollup, carried, faithful>>

(* A session ends, for good. *)
Close(id) ==
    /\ rows' = [rows EXCEPT ![id].closed = TRUE]
    /\ UNCHANGED <<issued, rollup, carried, faithful>>

(* Bytes are added to a bucket, never more than the service carried. *)
Count(bucket) ==
    /\ DOMAIN rollup' = DOMAIN rollup \cup {bucket}
    /\ rollup'[bucket] >= (IF bucket \in DOMAIN rollup THEN rollup[bucket] ELSE 0)
    /\ \A b \in DOMAIN rollup \ {bucket} : rollup'[b] = rollup[b]
    /\ Undisturbed /\ faithful => \A s \in Services : Total(s)' <= carried[s]
    /\ UNCHANGED <<rows, issued, carried, faithful>>

(* Retention drops sessions, only closed ones, and nothing of the rollup. *)
Expire(ids) ==
    /\ ids \cap OpenRows = {}
    /\ rows' = [id \in DOMAIN rows \ ids |-> rows[id]]
    /\ UNCHANGED <<issued, rollup, carried, faithful>>

(* Clear database: sessions and rollup go together, ids stay used. *)
Forget ==
    /\ rows' = [id \in {} |-> {}]
    /\ rollup' = [b \in {} |-> 0]
    /\ UNCHANGED <<issued, carried, faithful>>

Next ==
    \/ Carry \/ Misread \/ Forget
    \/ \E key \in Keys : Open(key)
    \/ \E id \in DOMAIN rows : Close(id)
    \/ \E bucket \in Buckets : Count(bucket)
    \/ \E ids \in SUBSET DOMAIN rows : Expire(ids)

Spec == Init /\ [][Next]_vars
=============================================================================
