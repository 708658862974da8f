------------------------------ MODULE MCResearch ------------------------------
(* Two workers over one run with one analyst and the manager.  Each scene     *)
(* bounds another part of the whole:                                          *)
(*   race      two workers at once on one date, no crash, no operator         *)
(*   midnight  two workers over midnight, up to the analyst's outcome         *)
(*   rerun     one worker after another, over midnight, after a crash         *)
(*   cycle     two processes at the symbols of a scheduled cycle              *)
EXTENDS ResearchCommittee, ResearchCycle, TLC
CONSTANTS w1, w2, a1, mgr
VARIABLE scene

TheAnalysts == <<a1>>
Busy == {w \in Worker : work'[w].pc # "idle"}

MCInit ==
  /\ Init /\ CycleInit
  /\ scene \in {"race", "midnight", "rerun", "cycle"}
  /\ scene # "race" => ~scheduled
  /\ scene # "cycle" => ~goOn

MCNext ==
  /\ UNCHANGED scene
  /\ \/ /\ Next /\ UNCHANGED cycleVars
        /\ \/ scene = "race" /\ now' = 0 /\ crashes' = 0
           \/ scene = "midnight" /\ crashes' = 0 /\ \A w \in Worker : work'[w].at = 1
           \/ scene = "rerun" /\ Cardinality(Busy) <= 1
     \/ CycleNext /\ scene = "cycle" /\ UNCHANGED vars

MCSpec == MCInit /\ [][MCNext]_<<vars, cycleVars, scene>>
Symmetry == Permutations({w1, w2})
=============================================================================
