----------------------------- MODULE SchemaLedger -----------------------------
(* The opening of the database (storage/database.py, connect; the ledger of   *)
(* schema versions in storage/schema_version.py; storage/transactions.py):    *)
(* processes with code of different ages open one file, and each migrates it  *)
(* to its own version, one transaction to a version.                          *)
EXTENDS Integers, FiniteSets

CONSTANTS
  Starter,      \* processes that open the database
  Nobody,
  MaxVersion,   \* bound: the newest code
  Code,         \* CURRENT_SCHEMA_VERSION of each; it knows the migrations 1..Code[p]
  MaxFailures   \* bound: failed and crashed attempts altogether

Version == 1..MaxVersion

ASSUME SchemaAssumption ==
  /\ MaxVersion \in Nat /\ Code \in [Starter -> Version]
  /\ MaxFailures \in Nat /\ Nobody \notin Starter

VARIABLES
  legacy,       \* history: the versions that were recorded at the start
  ledger,       \* the committed rows of schema_version
  ran,          \* history: how often the effect of each migration was committed
  starter,      \* the processes, with what each found to be pending
  lock,         \* who has the write lock
  failures

schemaVars == <<legacy, ledger, ran, starter, lock, failures>>

Pc == {"idle", "checked", "migrating", "begun", "worked",
       "open", "refused", "collided", "failed"}

SchemaTypeOK ==
  /\ legacy \in SUBSET Version
  /\ ledger \in SUBSET Version
  /\ ran \in [Version -> Nat]
  /\ starter \in [Starter -> [pc : Pc, pending : SUBSET Version]]
  /\ lock \in Starter \cup {Nobody}
  /\ failures \in 0..MaxFailures

(* Any versions: an interrupted or manual legacy database may have a gap.     *)
SchemaInit ==
  /\ legacy \in SUBSET Version /\ ledger = legacy
  /\ ran = [v \in Version |-> 0]
  /\ starter = [p \in Starter |-> [pc |-> "idle", pending |-> {}]]
  /\ lock = Nobody
  /\ failures = 0

At(p, pc) == starter' = [starter EXCEPT ![p].pc = pc]

(* The connection is gone, and with it a transaction that was not committed.  *)
Quit(p, pc) ==
  /\ failures < MaxFailures
  /\ failures' = failures + 1
  /\ starter' = [starter EXCEPT ![p] = [pc |-> pc, pending |-> {}]]
  /\ lock' = IF lock = p THEN Nobody ELSE lock
  /\ UNCHANGED <<legacy, ledger, ran>>

-----------------------------------------------------------------------------
(* check_schema_not_forward_versioned: the greatest version decides.          *)
CheckVersion(p) ==
  /\ starter[p].pc = "idle"
  /\ At(p, IF ledger \subseteq 1..Code[p] THEN "checked" ELSE "refused")
  /\ UNCHANGED <<legacy, ledger, ran, lock, failures>>

(* A mutant: the versions beyond the greatest are pending.                    *)
MutMissing(p) == {v \in 1..Code[p] : \A w \in ledger : w < v}

(* After the additive scripts, what is missing in the ledger is pending.      *)
Missing(p) == {v \in 1..Code[p] : v \notin ledger}

FindPending(p) ==
  /\ starter[p].pc = "checked"
  /\ starter' = [starter EXCEPT ![p] = [pc |-> "migrating", pending |-> Missing(p)]]
  /\ UNCHANGED <<legacy, ledger, ran, lock, failures>>

(* They are taken in ascending order.                                         *)
IsNext(p, v) == v \in starter[p].pending /\ \A w \in starter[p].pending : v <= w

(* BEGIN IMMEDIATE, which waits for the write lock; connect returns when      *)
(* nothing is left.                                                           *)
Begin(p) ==
  /\ starter[p].pc = "migrating"
  /\ IF starter[p].pending = {}
       THEN At(p, "open") /\ UNCHANGED lock
       ELSE lock = Nobody /\ lock' = p /\ At(p, "begun")
  /\ UNCHANGED <<legacy, ledger, ran, failures>>

(* The migration runs, and the others see nothing of it yet.                  *)
Work(p) ==
  /\ starter[p].pc = "begun"
  /\ At(p, "worked")
  /\ UNCHANGED <<legacy, ledger, ran, lock, failures>>

(* The row is inserted and both are committed, unless the version is there    *)
(* already: then the insert raises and both are rolled back.                  *)
Commit(p, v) ==
  /\ starter[p].pc = "worked" /\ IsNext(p, v)
  /\ \/ /\ v \notin ledger
        /\ ledger' = ledger \cup {v}
        /\ ran' = [ran EXCEPT ![v] = @ + 1]
        /\ starter' = [starter EXCEPT ![p] = [pc |-> "migrating", pending |-> @.pending \ {v}]]
        /\ lock' = Nobody
        /\ UNCHANGED <<legacy, failures>>
     \/ v \in ledger /\ Quit(p, "collided")

(* A migration raises, the lock is not to be had in time, or the process      *)
(* dies, anywhere before connect returns.                                     *)
Fail(p) ==
  /\ starter[p].pc \in {"checked", "migrating", "begun", "worked"}
  /\ Quit(p, "failed")

(* The program is started again; one that had opened it has ended.            *)
StartAgain(p) ==
  /\ starter[p].pc \in {"open", "refused", "collided", "failed"}
  /\ At(p, "idle")
  /\ UNCHANGED <<legacy, ledger, ran, lock, failures>>

SchemaNext ==
  \E p \in Starter :
    \/ CheckVersion(p) \/ FindPending(p) \/ Begin(p) \/ Work(p)
    \/ \E v \in Version : Commit(p, v)
    \/ Fail(p) \/ StartAgain(p)

SchemaSpec == SchemaInit /\ [][SchemaNext]_schemaVars

-----------------------------------------------------------------------------
(* Properties.                                                                *)

(* "apply any pending": who has the database open finds every migration it    *)
(* knows of in the ledger, whatever gaps there were and whoever failed.       *)
OpenIsMigrated == \A p \in Starter : starter[p].pc = "open" => 1..Code[p] \subseteq ledger

(* "run it exactly once": a migration was committed once if it was recorded   *)
(* by a process, and never otherwise.                                         *)
RecordedRanOnce ==
  \A v \in Version : ran[v] = IF v \in ledger \ legacy THEN 1 ELSE 0

(* "explicit, ordered": what a process ran found every earlier one applied.   *)
RanInOrder == \A v \in Version : ran[v] > 0 => 1..v \subseteq ledger

(* The ledger of schema versions is sound.                                    *)
LedgerIsSound == OpenIsMigrated /\ RecordedRanOnce /\ RanInOrder

(* "a database written by a newer version of this code than the currently     *)
(* running code understands is refused rather than silently opened": not so   *)
(* when the newer process migrates between the check and the opening.         *)
NewerIsRefused ==
  [][\A p \in Starter : starter[p].pc # "open" /\ starter'[p].pc = "open"
       => ledger' \subseteq 1..Code[p]]_schemaVars

(* Two processes that start at once both migrate, and one of them fails.      *)
NoneCollides == \A p \in Starter : starter[p].pc # "collided"
=============================================================================
