----------------------------- MODULE Migrations -----------------------------
(***************************************************************************)
(* Opening the database: Store.Open and Store.migrate of internal/store.   *)
(* The two programs of the repository, conntrackd and conntrack-app, share *)
(* one database file, and either may be started while the other opens it.  *)
(* A migration is checked for outside the transaction that applies and     *)
(* records it, so that both may find it missing.                           *)
(*                                                                         *)
(* Abstractions.  SQLite lets one connection write at a time; a statement  *)
(* that waits for longer than busy_timeout fails like any other.  A        *)
(* migration is its number.  The first one creates what does not exist     *)
(* yet; the others add columns, which fails where the column is there.     *)
(***************************************************************************)
EXTENDS Integers, Sequences

CONSTANTS
    Programs,    \* processes that open the database
    Latest,      \* number of the last embedded migration
    Additive     \* migrations that cannot be applied twice

ASSUME MigrationAssumption ==
    /\ Latest \in Nat \ {0}
    /\ Additive \subseteq 1 .. Latest

VARIABLES
    applied,   \* migrations the tables have, in the order they got them
    recorded,  \* schema_migrations
    stage,     \* program |-> where Open is
    at         \* program |-> the migration it looks at

migrationVars == <<applied, recorded, stage, at>>

InTransaction == {"record", "commit"}
Stages == {"down", "check", "apply", "open"} \cup InTransaction

(* Bug: the journal mode lets two connections write at a time. *)
MayWrite_Both == TRUE

(* The write lock is held from the first statement of a transaction. *)
MayWrite == \A p \in Programs : stage[p] \notin InTransaction

HasApplied(v) == \E i \in DOMAIN applied : applied[i] = v

GoToStage(p, s) == stage' = [stage EXCEPT ![p] = s]

(* Open: the handles, and schema_migrations if it does not exist. *)
Launch(p) ==
    /\ stage[p] = "down"
    /\ MayWrite
    /\ GoToStage(p, "check")
    /\ UNCHANGED <<applied, recorded, at>>

(* Bug: the count is that of all recorded migrations. *)
Check_AnyVersion(p) ==
    /\ stage[p] = "check"
    /\ IF recorded = {} THEN GoToStage(p, "apply") ELSE GoToStage(p, "open")
    /\ UNCHANGED <<applied, recorded, at>>

(* SELECT COUNT: a migration that is recorded is skipped. *)
Check(p) ==
    /\ stage[p] = "check"
    /\ \/ /\ at[p] > Latest
          /\ GoToStage(p, "open")
          /\ UNCHANGED at
       \/ /\ at[p] \in recorded
          /\ at' = [at EXCEPT ![p] = @ + 1]
          /\ UNCHANGED stage
       \/ /\ at[p] \in (1 .. Latest) \ recorded
          /\ GoToStage(p, "apply")
          /\ UNCHANGED at
    /\ UNCHANGED <<applied, recorded>>

(* The statements of the migration begin to write. *)
Apply(p) ==
    /\ stage[p] = "apply"
    /\ MayWrite
    /\ ~(at[p] \in Additive /\ HasApplied(at[p]))
    /\ GoToStage(p, "record")
    /\ UNCHANGED <<applied, recorded, at>>

(* INSERT INTO schema_migrations, whose key is the version. *)
Record(p) ==
    /\ stage[p] = "record"
    /\ at[p] \notin recorded
    /\ GoToStage(p, "commit")
    /\ UNCHANGED <<applied, recorded, at>>

(* Bug: the migration is committed first and recorded on its own. *)
Commit_RecordsLater(p) ==
    /\ stage[p] = "commit"
    /\ IF HasApplied(at[p])
       THEN /\ recorded' = recorded \cup {at[p]}
            /\ GoToStage(p, "check")
            /\ UNCHANGED applied
       ELSE /\ applied' = Append(applied, at[p])
            /\ UNCHANGED <<recorded, stage>>
    /\ UNCHANGED at

Commit(p) ==
    /\ stage[p] = "commit"
    /\ applied' = Append(applied, at[p])
    /\ recorded' = recorded \cup {at[p]}
    /\ GoToStage(p, "check")
    /\ UNCHANGED at

(* A statement fails, the process dies, or it ends: what was not committed is
   rolled back, and Open, if it was still at it, returns an error. *)
Leave(p) ==
    /\ stage[p] # "down"
    /\ GoToStage(p, "down")
    /\ at' = [at EXCEPT ![p] = 1]
    /\ UNCHANGED <<applied, recorded>>

(* A statement is refused because of what the other program did: the column
   is there already, or the version is. *)
Refused(p) ==
    \/ stage[p] = "apply" /\ MayWrite /\ at[p] \in Additive /\ HasApplied(at[p])
    \/ stage[p] = "record" /\ at[p] \in recorded

Open(p) == Check(p) \/ Apply(p) \/ Record(p) \/ Commit(p) \/ (Refused(p) /\ Leave(p))

MigrationInit ==
    /\ applied = <<>>
    /\ recorded = {}
    /\ stage = [p \in Programs |-> "down"]
    /\ at = [p \in Programs |-> 1]

-----------------------------------------------------------------------------

MigrationTypeOK ==
    /\ applied \in Seq(1 .. Latest)
    /\ recorded \subseteq 1 .. Latest
    /\ stage \in [Programs -> Stages]
    /\ at \in [Programs -> 1 .. Latest + 1]
    /\ \A p, q \in Programs : {stage[p], stage[q]} \subseteq InTransaction => p = q

(* The tables have had the migrations one after the other, none twice and none
   left out, and what is recorded is what was applied, whoever applied it and
   wherever it was cut off: otherwise a column is added a second time and the
   database does not open any more. *)
AppliedAsRecorded ==
    /\ \A i \in DOMAIN applied : applied[i] = i
    /\ recorded = 1 .. Len(applied)

(* A program that has the database open finds every table and column. *)
OpenIsMigrated == \A p \in Programs : stage[p] = "open" => Len(applied) = Latest
=============================================================================
