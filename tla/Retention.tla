------------------------------ MODULE Retention ------------------------------
(***************************************************************************)
(* Retention beside the pollers of FlowTracking: runPruneLoop of           *)
(* internal/appserver and Store.PruneOlderThan.  A pass goes over the      *)
(* closed sessions in batches; each batch is two DELETE statements, the    *)
(* samples first, that select their sessions independently of each other   *)
(* and with the pollers' own statements in between.                        *)
(*                                                                         *)
(* Abstraction.  Time is the set `old' of the rows that a pass sees on the *)
(* far side of its cutoff, 90 days ago: a closed row by its closed_at, an  *)
(* open one by its last_seen.  A row that is written after the pass began  *)
(* is not on that side any more.  A pass that finds no such row is left    *)
(* out.                                                                    *)
(***************************************************************************)
EXTENDS FlowTracking

CONSTANT Batch  \* sessions that a statement deletes at most

ASSUME BatchAssumption == Batch \in Nat \ {0}

VARIABLES
    old,    \* ids of the rows last written before the cutoff of the pass
    prune   \* the next statement of the pass, or "wait" between passes

retentionVars == <<old, prune>>

(* Bug: last_seen is compared instead of closed_at, so that a session that
   was not seen for 90 days goes even if it is open. *)
Expired_ByLastSeen == old

(* closed_at IS NOT NULL AND closed_at < cutoff *)
Expired == old \ OpenIds

(* ... LIMIT Batch.  Nothing orders the rows, but both statements run the same
   query: on the same rows it selects the same ones. *)
Selected ==
    LET size == IF Cardinality(Expired) < Batch THEN Cardinality(Expired) ELSE Batch
    IN  CHOOSE ids \in SUBSET Expired : Cardinality(ids) = size

(* The ticker fires and at least one row is beyond the cutoff: some of the
   closed ones, or every row if no poll has succeeded for as long. *)
BeginPass ==
    /\ prune = "wait"
    /\ old' \in {DOMAIN sessions} \cup SUBSET (DOMAIN sessions \ OpenIds)
    /\ old' # {}
    /\ prune' = "samples"
    /\ UNCHANGED storeVars

(* Bug: the limit is put on the samples, rather than on their sessions. *)
PruneSamples_LimitOutside ==
    /\ prune = "samples"
    /\ \E some \in SUBSET {s \in samples : s.session \in Selected} :
         /\ Cardinality(some) <= Batch
         /\ samples' = samples \ some
    /\ prune' = "sessions"
    /\ UNCHANGED <<sessions, nextId, usage, dstIPs, old>>

PruneSamples ==
    /\ prune = "samples"
    /\ samples' = {s \in samples : s.session \notin Selected}
    /\ prune' = "sessions"
    /\ UNCHANGED <<sessions, nextId, usage, dstIPs, old>>

EndPass == prune' = "wait" /\ old' = {}

Referenced(ids) == \E s \in samples : s.session \in ids

(* Bug: a batch that was deleted in full ends the pass too. *)
PruneSessions_OneBatch ==
    /\ prune = "sessions"
    /\ ~Referenced(Selected)
    /\ sessions' = [id \in DOMAIN sessions \ Selected |-> sessions[id]]
    /\ EndPass
    /\ UNCHANGED <<nextId, samples, usage, dstIPs>>

(* The foreign key of flow_samples has no ON DELETE clause: the statement fails
   and the pass ends if a selected row still has a sample.  A full batch means
   that there may be more. *)
PruneSessions ==
    /\ prune = "sessions"
    /\ \/ /\ ~Referenced(Selected)
          /\ sessions' = [id \in DOMAIN sessions \ Selected |-> sessions[id]]
          /\ UNCHANGED <<nextId, samples, usage, dstIPs>>
          /\ IF Cardinality(Selected) < Batch
             THEN EndPass
             ELSE prune' = "samples" /\ old' = old \ Selected
       \/ /\ Referenced(Selected)
          /\ UNCHANGED storeVars
          /\ EndPass

(* A statement fails: runPruneLoop logs it and waits for the next day. *)
PruneFails ==
    /\ prune \in {"samples", "sessions"}
    /\ UNCHANGED storeVars
    /\ EndPass

Prune ==
    /\ BeginPass \/ PruneSamples \/ PruneSessions \/ PruneFails
    /\ UNCHANGED <<deviceVars, pollerVars, managerVars, requested, countVars>>

(* The rows that a step of a poller takes off the far side of the cutoff:
   applyFlow moves last_seen, which counts as long as a row is open, and
   closeMissing sets closed_at. *)
Written(p) ==
    CASE pc[p] = "apply" /\ pc'[p] = "bump" -> {open[p][cur'[p]].id} \cap OpenIds
      [] pc[p] = "close" /\ pc'[p] = "close" ->
           {open[p][k].id : k \in DOMAIN open[p] \ DOMAIN open'[p]}
      [] OTHER -> {}

(* What the steps of the other components mean to a pass under way: none of
   its business, but that rows are written or gone, or that it dies. *)
PassGoesOn ==
    /\ prune' = IF Crash THEN "wait" ELSE prune
    /\ old' = IF Crash THEN {}
              ELSE (old \cap DOMAIN sessions') \ UNION {Written(p) : p \in Slots}

RetentionInit == Init /\ old = {} /\ prune = "wait"

RetentionNext ==
    \/ Next /\ PassGoesOn
    \/ Prune

RetentionSpec == RetentionInit /\ [][RetentionNext]_<<vars, retentionVars>>

FairRetentionSpec == RetentionSpec /\ Fairness

-----------------------------------------------------------------------------

(* Of the pass: it looks at rows that are there, with a cutoff of its own. *)
RetentionTypeOK ==
    /\ old \subseteq DOMAIN sessions
    /\ prune \in {"wait", "samples", "sessions"}
    /\ prune = "wait" => old = {}

(* A poller never loses a session it tracks, or has just inserted, to
   retention: its next sample would be refused for ever, and the bytes counted
   again at every poll, because the baseline moves only after the sample.
   Holds while pollers do not overlap: a row that a stopped poller closed
   while its successor tracks it expires under the successor. *)
TrackedIsKept ==
    clears = 0 => \A p \in Slots :
      /\ \A k \in DOMAIN open[p] : open[p][k].id \in DOMAIN sessions
      /\ pc[p] \in {"start", "bumpNew", "track"} => newId[p] \in DOMAIN sessions

(* The two statements of a batch agree on its sessions, whatever the pollers
   write between them: the foreign key never stops a pass.  Under the same
   condition. *)
BatchesAgree == prune = "sessions" => ~Referenced(Selected)

(* A pass that no failure cuts short leaves nothing behind that had expired
   when it began and is still expired. *)
PassFinishes ==
    [][prune = "sessions" /\ PruneSessions /\ prune' = "wait" =>
         Expired \cap DOMAIN sessions' = {}]_<<vars, retentionVars>>

-----------------------------------------------------------------------------
(* The history that the tables stand for, with pollers that take turns and
   whose calls succeed. *)
History ==
    INSTANCE FlowHistory WITH
        rows <- [id \in DOMAIN sessions |->
                   [key |-> sessions[id].key, closed |-> sessions[id].closed]],
        issued <- nextId - 1,
        rollup <- [b \in DOMAIN usage |-> usage[b].bytes],
        faithful <- misreads = 0,
        Undisturbed <- TRUE

(* The same tables, whatever overlaps, fails or is cleared. *)
DisturbedHistory ==
    INSTANCE FlowHistory WITH
        rows <- [id \in DOMAIN sessions |->
                   [key |-> sessions[id].key, closed |-> sessions[id].closed]],
        issued <- nextId - 1,
        rollup <- [b \in DOMAIN usage |-> usage[b].bytes],
        faithful <- misreads = 0,
        Undisturbed <- FALSE

(* Pollers, store and retention together, across crashes and damaged listings,
   show a reader the history that FlowHistory specifies. *)
ImplementsHistory == History!Spec

(* What is left of it without any condition. *)
ImplementsDisturbedHistory == DisturbedHistory!Spec
=============================================================================
