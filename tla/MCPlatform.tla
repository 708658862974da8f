------------------------------ MODULE MCPlatform ------------------------------
(* What the rest of the program stands on: the lease of an order, the opening *)
(* of the database, and the child process of a model provider.  Nothing is    *)
(* shared between them; each is a scene of its own.                           *)
EXTENDS OrderLease, SchemaLedger, BoundedProcess, TLC

CONSTANTS p1, p2, p3
VARIABLE scene

(* Two processes have the newest code and one is older.                       *)
TheCode == p1 :> MaxVersion @@ p2 :> MaxVersion @@ p3 :> MaxVersion - 1

MCInit ==
  /\ Init /\ SchemaInit /\ ProcessInit
  /\ scene \in {"lease", "ledger", "process"}
  /\ scene # "ledger" => ledger = {}

MCNext ==
  /\ UNCHANGED scene
  /\ \/ scene = "lease" /\ Next /\ UNCHANGED <<schemaVars, processVars>>
     \/ scene = "ledger" /\ SchemaNext /\ UNCHANGED <<vars, processVars>>
     \/ scene = "process" /\ ProcessNext /\ UNCHANGED <<vars, schemaVars>>

(* Fairness is the process's: RunEnds is asked of its scene alone, in which   *)
(* nothing moves that the symmetry of the calls permutes.                     *)
MCSpec ==
  MCInit /\ [][MCNext]_<<vars, schemaVars, processVars, scene>> /\ ProcessFairness

RunEndsThere == scene = "process" => RunEnds

CallSymmetry == Permutations(Calls)
=============================================================================
