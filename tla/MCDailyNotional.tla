-------------------------- MODULE MCDailyNotional --------------------------
(* Two orders of different size under a cap that only one of them fits.    *)
EXTENDS DailyNotional, TLC

CONSTANTS small, large

Sizes == small :> 1 @@ large :> 2

CallSymmetry == Permutations(Calls)
=============================================================================
