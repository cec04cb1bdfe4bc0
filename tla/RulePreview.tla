---------------------------- MODULE RulePreview ----------------------------
(***************************************************************************)
(* The deny rule preview of one firewall: handleRulesPreview reads the     *)
(* port usage, the approved ports and, to score each bucket, its addresses *)
(* and their cached verdicts, in as many queries, and has Generate make    *)
(* deny rules of what is unapproved, frequent and risky.  Meanwhile the    *)
(* poller adds to the usage, verdicts arrive and expire, and other         *)
(* requests approve and unapprove ports or clear the database.             *)
(*                                                                         *)
(* Abstractions.  A rule is its bucket and score: the other fields are     *)
(* constants or texts made of these, and its precedence is its place in    *)
(* the sequence.  `usage' is in the order of last_seen, latest first, the  *)
(* order in which ListPortUsage returns it, and in some order where a poll *)
(* gave two rows the same last_seen.  Whether a row is old enough for a    *)
(* score to count its age is left open, as is any error of the store.  A   *)
(* provider of verdicts is configured.                                     *)
(***************************************************************************)
EXTENDS RiskScore, Sequences, SequencesExt

CONSTANTS
    Buckets,         \* records with fields protocol, port and app
    Addresses,       \* destination addresses
    Private,         \* those IsPrivateOrReserved accepts
    Verdicts,        \* verdicts the provider gives
    MinSampleCount,  \* options of the request
    IncludeLowRisk,
    Volumes,         \* may a poll add bytes up to the threshold?
    MaxCount,        \* bound: sessions of a bucket
    MaxChanges       \* bound: changes of the tables

NoVerdict == [classification |-> "none", noise |-> FALSE, riot |-> FALSE]

ASSUME PreviewConstants ==
    /\ \A b \in Buckets : b.port \in Nat
    /\ Verdicts \subseteq ReputationInfo
    /\ MinSampleCount \in Nat \ {0}
    /\ IncludeLowRisk \in BOOLEAN
    /\ Volumes \subseteq BOOLEAN
    /\ {MaxCount, MaxChanges} \subseteq Nat

VARIABLES
    usage,      \* port_usage: sequence of rows
    dstIPs,     \* port_usage_dst_ips: pairs (bucket, address)
    approved,   \* approved_ports
    verdict,    \* ip_reputation_cache: address |-> fresh verdict or NoVerdict
    pc,         \* where the request is
    listed,     \* the usage it read
    allowed,    \* the approved ports it read
    place,      \* the row of `listed' it has come to
    todo,       \* addresses of that row whose verdict it has yet to read
    reps,       \* verdicts read for that row
    candidates, \* scored rows
    rules,      \* the preview
    blind,      \* observer: has a query for the score failed?
    kept,       \* observer: buckets approved ever since the request began
    due,        \* observer: <<bucket, address>> that ask for a rule since then
    changes     \* use made of the bound

tables == <<usage, dstIPs, approved, verdict>>
progress == <<pc, listed, allowed, place, todo, reps, candidates, rules, blind>>
observers == <<kept, due>>
vars == <<tables, progress, observers, changes>>

RowsOf(b) == {i \in DOMAIN usage : usage[i].bucket = b}
RowOf(b) == CHOOSE i \in RowsOf(b) : TRUE

(* Bucket b ought to be denied on account of `address'. *)
AsksForRule(b, address) ==
    /\ b \notin approved
    /\ \E i \in RowsOf(b) : usage[i].count >= MinSampleCount
    /\ <<b, address>> \in dstIPs
    /\ address \notin Private
    /\ Malicious(verdict[address])

AllDue == {d \in Buckets \X Addresses : AsksForRule(d[1], d[2])}

(* What held since the request began and still does. *)
Observe ==
    /\ kept' = kept \cap approved'
    /\ due' = due \cap AllDue'

-----------------------------------------------------------------------------
(* What changes the tables meanwhile                                       *)

TableFrame ==
    /\ changes < MaxChanges
    /\ changes' = changes + 1
    /\ UNCHANGED progress
    /\ Observe

RequestFrame == UNCHANGED <<tables, changes>>

(* Bug: an INSERT that does not look for the bucket's row. *)
Upserted_Inserts(row) == <<row>> \o usage

(* The upsert: a bucket has one row, which becomes the latest. *)
Upserted(row) ==
    <<row>> \o (IF RowsOf(row.bucket) = {} THEN usage
                ELSE RemoveAt(usage, RowOf(row.bucket)))

(* Store.BumpPortUsage *)
BumpPortUsage ==
    /\ \E b \in Buckets, address \in Addresses, new \in BOOLEAN, heavy \in Volumes :
         LET old == IF RowsOf(b) = {}
                    THEN [bucket |-> b, count |-> 0, distinct |-> 0, heavy |-> FALSE]
                    ELSE usage[RowOf(b)]
             row == [bucket   |-> b,
                     count    |-> old.count + (IF new THEN 1 ELSE 0),
                     distinct |-> old.distinct
                                    + (IF <<b, address>> \in dstIPs THEN 0 ELSE 1),
                     heavy    |-> old.heavy \/ heavy]
         IN  /\ row.count <= MaxCount
             /\ usage' = Upserted(row)
             /\ dstIPs' = dstIPs \cup {<<b, address>>}
    /\ UNCHANGED <<approved, verdict>>
    /\ TableFrame

VerdictArrives ==
    /\ \E address \in Addresses \ Private, v \in Verdicts :
         verdict' = [verdict EXCEPT ![address] = v]
    /\ UNCHANGED <<usage, dstIPs, approved>>
    /\ TableFrame

VerdictExpires ==
    /\ \E address \in Addresses :
         /\ verdict[address] # NoVerdict
         /\ verdict' = [verdict EXCEPT ![address] = NoVerdict]
    /\ UNCHANGED <<usage, dstIPs, approved>>
    /\ TableFrame

ApprovePort ==
    /\ \E b \in Buckets : approved' = approved \cup {b}
    /\ UNCHANGED <<usage, dstIPs, verdict>>
    /\ TableFrame

UnapprovePort ==
    /\ \E b \in Buckets : approved' = approved \ {b}
    /\ UNCHANGED <<usage, dstIPs, verdict>>
    /\ TableFrame

ClearAllHistory ==
    /\ usage' = <<>>
    /\ dstIPs' = {}
    /\ approved' = {}
    /\ verdict' = [address \in Addresses |-> NoVerdict]
    /\ TableFrame

-----------------------------------------------------------------------------
(* handleRulesPreview                                                      *)

Forget ==
    /\ listed' = <<>> /\ allowed' = {} /\ place' = 1
    /\ todo' = {} /\ reps' = {}
    /\ candidates' = <<>> /\ rules' = <<>>
    /\ blind' = FALSE
    /\ kept' = {} /\ due' = {}

(* The request begins with ListPortUsage; if that fails it is over. *)
ListPortUsage ==
    /\ pc = "idle"
    /\ pc' = "approved"
    /\ listed' = usage
    /\ kept' = approved
    /\ due' = AllDue
    /\ RequestFrame /\ UNCHANGED <<allowed, place, todo, reps, candidates, rules, blind>>

ApprovedSet ==
    /\ pc = "approved"
    /\ RequestFrame
    /\ \/ /\ pc' = "row"
          /\ allowed' = approved
          /\ UNCHANGED <<listed, place, todo, reps, candidates, rules, blind>>
          /\ Observe
       \/ /\ pc' = "idle"
          /\ Forget

(* Bug: the approval is looked for without the application. *)
Skipped_PortOnly(u) ==
    \/ [u.bucket EXCEPT !.app = NoApp] \in allowed
    \/ u.count < MinSampleCount

(* Generate looks at the next row ... *)
Skipped(u) == u.bucket \in allowed \/ u.count < MinSampleCount

SkipRow ==
    /\ pc = "row"
    /\ place <= Len(listed)
    /\ Skipped(listed[place])
    /\ place' = place + 1
    /\ RequestFrame /\ UNCHANGED <<pc, listed, allowed, todo, reps, candidates, rules, blind>>
    /\ Observe

(* ... and scores it: DistinctDstIPsForBucket, without which the row is
   scored as one without verdicts. *)
DistinctDstIPsForBucket ==
    /\ pc = "row"
    /\ place <= Len(listed)
    /\ ~Skipped(listed[place])
    /\ pc' = "verdicts"
    /\ \/ /\ todo' = {a \in Addresses \ Private : <<listed[place].bucket, a>> \in dstIPs}
          /\ UNCHANGED blind
       \/ /\ todo' = {}
          /\ blind' = TRUE
    /\ RequestFrame /\ UNCHANGED <<listed, allowed, place, reps, candidates, rules>>
    /\ Observe

(* CachedReputation of one of the addresses; an error of the store is like
   no verdict. *)
CachedReputation ==
    /\ pc = "verdicts"
    /\ \E address \in todo :
         /\ todo' = todo \ {address}
         /\ \/ /\ reps' = IF verdict[address] = NoVerdict THEN reps
                          ELSE reps \cup {verdict[address]}
               /\ UNCHANGED blind
            \/ /\ UNCHANGED reps
               /\ blind' = TRUE
    /\ RequestFrame /\ UNCHANGED <<pc, listed, allowed, place, candidates, rules>>
    /\ Observe

ScoreRow ==
    /\ pc = "verdicts"
    /\ todo = {}
    /\ \E old \in BOOLEAN :
         LET u     == listed[place]
             score == ScorePortUsage(u.bucket.port, u.bucket.app, u, old, reps)
         IN  candidates' =
               IF bucketFor(score) = "low" /\ ~IncludeLowRisk THEN candidates
               ELSE Append(candidates,
                           [bucket |-> u.bucket, score |-> score, place |-> place])
    /\ pc' = "row"
    /\ place' = place + 1
    /\ reps' = {}
    /\ RequestFrame /\ UNCHANGED <<listed, allowed, todo, rules, blind>>
    /\ Observe

(* Rows were read latest first: the one that came earlier was seen later. *)
less(a, b) == a.score > b.score \/ (a.score = b.score /\ a.place < b.place)

(* Bug: the inner loop ends one too early. *)
Inserted_NeverFirst(sorted, c) ==
    LET stays == {i \in DOMAIN sorted : i = 1 \/ ~less(c, sorted[i])}
        n     == IF stays = {} THEN 0 ELSE Max(stays)
    IN  InsertAt(sorted, n + 1, c)

(* One round of the insertion sort: c moves up past all that it is less
   than, until the first that it is not. *)
Inserted(sorted, c) ==
    LET stays == {i \in DOMAIN sorted : ~less(c, sorted[i])}
        n     == IF stays = {} THEN 0 ELSE Max(stays)
    IN  InsertAt(sorted, n + 1, c)

Generate ==
    /\ pc = "row"
    /\ place > Len(listed)
    /\ rules' = FoldLeft(Inserted, <<>>, candidates)
    /\ pc' = "shown"
    /\ RequestFrame /\ UNCHANGED <<listed, allowed, place, todo, reps, candidates, blind>>
    /\ Observe

Reply ==
    /\ pc = "shown"
    /\ pc' = "idle"
    /\ Forget
    /\ RequestFrame

-----------------------------------------------------------------------------

Init ==
    /\ usage = <<>>
    /\ dstIPs = {}
    /\ approved = {}
    /\ verdict = [address \in Addresses |-> NoVerdict]
    /\ pc = "idle"
    /\ listed = <<>> /\ allowed = {} /\ place = 1
    /\ todo = {} /\ reps = {}
    /\ candidates = <<>> /\ rules = <<>>
    /\ blind = FALSE
    /\ kept = {} /\ due = {}
    /\ changes = 0

Tables ==
    \/ BumpPortUsage
    \/ VerdictArrives \/ VerdictExpires
    \/ ApprovePort \/ UnapprovePort
    \/ ClearAllHistory

Request ==
    \/ ListPortUsage \/ ApprovedSet
    \/ SkipRow \/ DistinctDstIPsForBucket \/ CachedReputation \/ ScoreRow
    \/ Generate \/ Reply

Next == Tables \/ Request

Spec == Init /\ [][Next]_vars

-----------------------------------------------------------------------------

(* Types; a bucket has one row; the request scores a row that it has read. *)
TypeOK ==
    /\ usage \in Seq([bucket : Buckets, count : Nat, distinct : Nat, heavy : BOOLEAN])
    /\ \A i, j \in DOMAIN usage : usage[i].bucket = usage[j].bucket => i = j
    /\ dstIPs \subseteq Buckets \X Addresses
    /\ approved \subseteq Buckets /\ allowed \subseteq Buckets
    /\ verdict \in [Addresses -> Verdicts \cup {NoVerdict}]
    /\ pc \in {"idle", "approved", "row", "verdicts", "shown"}
    /\ place \in 1 .. Len(listed) + 1
    /\ pc = "verdicts" => place <= Len(listed)
    /\ todo \subseteq Addresses \ Private
    /\ reps \subseteq Verdicts
    /\ \A i \in DOMAIN candidates : candidates[i].score \in 0 .. 100
    /\ blind \in BOOLEAN

Shown(b) == \E i \in DOMAIN rules : rules[i].bucket = b

(* No rule is for a bucket that was approved before the request and still is
   when the preview is shown, whatever else was approved or unapproved. *)
ApprovedNotDenied == pc = "shown" => \A b \in kept : ~Shown(b)

(* A bucket that was in need of a rule all the time, unapproved, frequent and
   with a destination that the cache calls malicious, is in the preview,
   though usage, addresses and verdicts are read one after the other and
   whatever else is in the score - unless one of these queries failed, which
   the handler does not tell. *)
MaliciousIsShown == pc = "shown" /\ ~blind => \A d \in due : Shown(d[1])

(* Rules come by descending score and, for equal scores, the latest first; one
   bucket has one rule. *)
RankedByRisk ==
    \A i, j \in DOMAIN rules : i < j =>
      /\ less(rules[i], rules[j])
      /\ rules[i].bucket # rules[j].bucket

-----------------------------------------------------------------------------
(* What comments say and the code does not keep: TLC refutes each of these *)
(* (README, Departures).                                                   *)

(* The comment of package ruleset: rules are for specific unapproved
   combinations of protocol, port and application.  A rule names protocol and
   port only, and an approved application may use that port too. *)
ApprovedNotBlocked ==
    pc = "shown" =>
      \A i \in DOMAIN rules : \A b \in kept :
        ~(b.protocol = rules[i].bucket.protocol /\ b.port = rules[i].bucket.port)
=============================================================================
