-------------------------- MODULE MCExternalOrder --------------------------
(* Model values and symmetry for checking ExternalOrder.                   *)
EXTENDS ExternalOrder, TLC

\* Operator calls are interchangeable.
ProcSymmetry == Permutations(Procs)

\* A SELL is a BUY with more refusals: one misfortune is enough for it.
MCSpec == Init /\ [][Next /\ (side = "SELL" => faults' <= 1)]_vars
=============================================================================
