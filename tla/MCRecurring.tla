------------------------------ MODULE MCRecurring ------------------------------
(* The scheduler's runs, the activation table and the position that the daily *)
(* lifecycle looks after, each explored on its own: the initial state picks a *)
(* part, and what the others are about stays at rest.  One pair of            *)
(* interchangeable values names the processes, callers or entries of a part.  *)
EXTENDS RecurringScheduler, ActivationLog, PositionLifecycle

CONSTANTS x, y, c1, r1

(* scheduler, activation: all of what they can do;                            *)
(* gaps:    one entry, a day without a price or an ATR, exits that an operator *)
(*          asks for, and a process that dies;                                *)
(* entries: two entries, with a price and an ATR on every day.                *)
VARIABLE part

Lacking(d) == market[d].price = 0 \/ market[d].atr = 0
Known == \A d \in Days : ~Lacking(d)
OneGap == Cardinality({d \in 1..today : Lacking(d)}) <= 1

MCInit ==
  /\ Init /\ LogInit /\ ExitInit
  /\ part \in {"scheduler", "activation", "gaps", "entries"}
  /\ part # "gaps" => Known
  /\ part \in {"scheduler", "activation"} => \A p \in Price : p <= market[1].price

MCNext ==
  /\ UNCHANGED part
  /\ \/ part = "scheduler" /\ Next /\ UNCHANGED <<logVars, exitVars>>
     \/ part = "activation" /\ LogNext /\ UNCHANGED <<vars, exitVars>>
     \/ /\ ExitNext /\ UNCHANGED <<vars, logVars>>
        /\ \/ part = "gaps" /\ Cardinality({e \in Entry : bought'[e].status # "NONE"}) <= 1 /\ OneGap'
           \/ part = "entries" /\ Known' /\ UNCHANGED <<asked, kills>>

MCSpec == MCInit /\ [][MCNext]_<<vars, logVars, exitVars, part>>

Symmetry == Permutations({x, y})
=============================================================================
