------------------------------ MODULE ShadowPause ------------------------------
(* The pause and kill switch of shadow operations: one current row, which the *)
(* operators' commands and the automatic health rules rewrite.  Every         *)
(* transition first reads the current state and may refuse; the row is        *)
(* written by a later statement, with no transaction around the two.          *)
EXTENDS Naturals

CONSTANTS
  Operator,      \* operators at the command line
  Runner         \* invocations of the shadow scheduler, which pause for health

ASSUME PauseAssumption == Operator \cap Runner = {}

VARIABLES
  pause,         \* the current row of shadow_pause_state
  asked          \* the transition that a process has checked and not yet written

pauseVars == <<pause, asked>>

(* PAUSED_AUTO stands for the four states that only health rules request.     *)
Paused == {"PAUSED_MANUAL", "PAUSED_AUTO"}
PauseState == {"ACTIVE", "KILLED"} \cup Paused

(* What each operation accepts and what it writes: a kill is never refused,   *)
(* and force_clear_kill accepts nothing but KILLED.                           *)
Transition ==
  [request_pause    |-> [from |-> {"ACTIVE"} \cup Paused, to |-> "PAUSED_MANUAL"],
   automatic_pause  |-> [from |-> {"ACTIVE"} \cup Paused, to |-> "PAUSED_AUTO"],
   resume           |-> [from |-> Paused, to |-> "ACTIVE"],
   kill             |-> [from |-> PauseState, to |-> "KILLED"],
   force_clear_kill |-> [from |-> {"KILLED"}, to |-> "ACTIVE"]]

Command == DOMAIN Transition \ {"automatic_pause"}

PauseInit == pause = "ACTIVE" /\ asked = [p \in Operator \cup Runner |-> "none"]

Ask(p, kind) ==
  /\ asked[p] = "none"
  /\ pause \in Transition[kind].from
  /\ asked' = [asked EXCEPT ![p] = kind]
  /\ UNCHANGED pause

(* _write_transition: the newest row is the current one.                      *)
Write(p) ==
  /\ asked[p] # "none"
  /\ pause' = Transition[asked[p]].to
  /\ asked' = [asked EXCEPT ![p] = "none"]

(* What an operator does in one step, and whether it lets work go on again.   *)
Operate(o) == (\E kind \in Command : Ask(o, kind)) \/ Write(o)
Reopens(o) == asked[o] \in {"resume", "force_clear_kill"}

PauseTypeOK ==
  /\ pause \in PauseState
  /\ asked \in [Operator \cup Runner -> DOMAIN Transition \cup {"none"}]

(* pause.py of force_clear_kill: "The only way to leave KILLED."              *)
KilledOnlyCleared ==
  [][pause = "KILLED" /\ pause' # "KILLED" =>
       \E o \in Operator : asked[o] = "force_clear_kill"]_pauseVars
=============================================================================
