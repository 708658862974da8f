------------------------------- MODULE MCShadow -------------------------------
(* The invocations, the health evaluations and the alerts of shadow           *)
(* operations.  The first two work on the same pause row; each scene bounds   *)
(* another part of the whole:                                                 *)
(*   day         invocations of one day, with an operator at the command line *)
(*   calendar    invocations over the calendar, nobody there and no pause, a  *)
(*               run of at most one call, fewer when one outlives its lease   *)
(*   alone       evaluations one after another, of the first dimension, with  *)
(*               an operator, one policy and no structural check              *)
(*   policies    the same with several policies and nobody there              *)
(*   dimensions  two evaluations after one another, of all the dimensions     *)
(*   together    evaluations that interleave, of the first dimension          *)
(*   alerts      three reports of two conditions, without a sink              *)
(*   sinks       two reports of one condition, nothing resolved               *)
EXTENDS ShadowCycle, ShadowHealth, AlertLog, TLC
CONSTANTS r1, r2, u1, a1, a2, a3, DayRows
VARIABLE scene

Evaluating == Cardinality({r \in Runner : eval'[r].pc # "idle"})
OneDimension ==
  \A r \in Runner : \A s \in DOMAIN eval'[r].verdict : s > 1 => eval'[r].verdict[s] = "NONE"
OnePolicy == \A r \in Runner : eval'[r].policy \in {"none", "p1"}
NothingStructural == \A r \in Runner : ~eval'[r].structural
SinksGiven(n) == \A a \in Report : report'[a].sinks <= n
InTurn ==   \* the calls are alike: a later one starts after an earlier one
  LET begun == {a \in Report : report'[a].pc # "idle"} IN begun \in {{}, {a1}, {a1, a2}, Report}
OneCall == \A r \in Runner : proc'[r].calls <= 1
WorstCase ==   \* a call that costs nothing is as good as none
  \A r \in Runner : proc[r].pc = "calling" /\ proc'[r].pc = "work" => resv' # resv
NobodyThere == \A o \in Operator : asked'[o] = "none"

MCInit ==
  /\ Init /\ HealthInit /\ AlertInit
  /\ scene \in {"day", "calendar", "alone", "policies", "dimensions", "together", "alerts", "sinks"}

MCNext ==
  /\ UNCHANGED scene
  /\ \/ /\ scene \in {"day", "calendar"}
        /\ Next /\ UNCHANGED <<healthVars, alertVars>>
        /\ \/ scene = "day" /\ now' <= 5 /\ Len(rows') <= DayRows
           \/ /\ scene = "calendar" /\ UNCHANGED <<pauseVars, distrust>> /\ OneCall /\ WorstCase
              /\ (outlived' => Len(rows') <= DayRows)
     \/ /\ scene \in {"alone", "policies", "dimensions", "together"}
        /\ HealthNext /\ UNCHANGED <<cycleVars, alertVars>>
        /\ \/ scene = "alone" /\ Evaluating <= 1 /\ OneDimension /\ NothingStructural /\ OnePolicy
           \/ scene = "policies" /\ Evaluating <= 1 /\ OneDimension /\ NothingStructural /\ NobodyThere
           \/ scene = "dimensions" /\ Evaluating <= 1 /\ evals' <= 2 /\ OnePolicy /\ NobodyThere
           \/ scene = "together" /\ evals' <= 2 /\ OneDimension /\ OnePolicy /\ NobodyThere
              /\ NothingStructural
     \/ /\ scene \in {"alerts", "sinks"}
        /\ AlertNext /\ InTurn /\ UNCHANGED <<vars, healthVars>>
        /\ \/ scene = "alerts" /\ SinksGiven(0)
           \/ scene = "sinks" /\ About("c1") = Report /\ report'[a3].pc = "idle"
              /\ \A a \in Report : alert'[a].resolved = Unresolved

MCSpec == MCInit /\ [][MCNext]_<<vars, healthVars, alertVars, scene>>
Symmetry == Permutations({r1, r2})
=============================================================================
