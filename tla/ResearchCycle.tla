---------------------------- MODULE ResearchCycle ----------------------------
(* The scheduled research cycle (research/scheduled_cycle.py): processes work *)
(* through the symbols of one cycle, each saved by a commit of its own, and   *)
(* mark the cycle at the end.  A cycle is run again with all its symbols, or  *)
(* resumed with those it has rows of.  The committee's run of a symbol is     *)
(* ResearchCommittee; here a symbol completes or fails.                       *)
EXTENDS Integers, FiniteSets

CONSTANTS
  Process,     \* processes that run or resume the cycle
  Symbols,     \* number of symbols, in the order they are worked through
  MaxPasses,   \* bound on the runs and resumptions
  MaxDeaths    \* bound on the processes that die

ASSUME CycleAssumption == Symbols \in Nat /\ MaxPasses \in Nat /\ MaxDeaths \in Nat

VARIABLES
  cycle,       \* research_cycles.status
  result,      \* research_cycle_symbol_results.status, by symbol
  pass,        \* where each process is
  goOn,        \* continue_on_symbol_failure
  passes, deaths,
  overlapped   \* history: two processes were at the cycle at once

cycleVars == <<cycle, result, pass, goOn, passes, deaths, overlapped>>

Symbol == 1..Symbols
AtRest == [pc |-> "idle", left |-> {}, done |-> 0, failed |-> 0]

CycleInit ==
  /\ cycle = "NONE" /\ result = [s \in Symbol |-> "NONE"]
  /\ pass = [p \in Process |-> AtRest]
  /\ goOn \in BOOLEAN
  /\ passes = 0 /\ deaths = 0 /\ overlapped = FALSE

Begins(p, symbols) ==
  /\ pass[p].pc = "idle" /\ passes < MaxPasses
  /\ passes' = passes + 1
  /\ pass' = [pass EXCEPT ![p].pc = "symbol", ![p].left = symbols]
  /\ overlapped' = (overlapped \/ \E q \in Process : pass[q].pc # "idle")
  /\ UNCHANGED <<result, deaths>>

(* run_scheduled_research_cycle with the configured symbols.                  *)
Run(p) ==
  /\ Begins(p, Symbol)
  /\ cycle' = IF cycle = "NONE" THEN "RUNNING" ELSE cycle
  /\ UNCHANGED goOn

(* resume_research_cycle_cli: the symbols that have a row, and never an end   *)
(* at the first failure.                                                      *)
Resume(p) ==
  /\ cycle # "NONE"
  /\ Begins(p, {s \in Symbol : result[s] # "NONE"})
  /\ goOn' = TRUE
  /\ UNCHANGED cycle

MutFinished(s) == FALSE

This(p) == CHOOSE s \in pass[p].left : \A t \in pass[p].left : s <= t
Finished(s) == result[s] = "COMPLETED"

(* A symbol is passed over or gone into.                                      *)
Look(p) ==
  LET s == This(p) IN
  /\ pass[p].pc = "symbol" /\ pass[p].left # {}
  /\ pass' = IF Finished(s)
             THEN [pass EXCEPT ![p].left = @ \ {s}, ![p].done = @ + 1]
             ELSE [pass EXCEPT ![p].pc = "run"]
  /\ UNCHANGED <<cycle, result, goOn, passes, deaths, overlapped>>

(* _run_symbol returns or raises, and save_symbol_result replaces the row.    *)
Save(p) ==
  LET s == This(p) IN
  /\ pass[p].pc = "run"
  /\ \/ /\ result' = [result EXCEPT ![s] = "COMPLETED"]
        /\ pass' = [pass EXCEPT ![p].pc = "symbol", ![p].left = @ \ {s}, ![p].done = @ + 1]
     \/ /\ result' = [result EXCEPT ![s] = "FAILED"]
        /\ pass' = [pass EXCEPT ![p].pc = IF goOn THEN "symbol" ELSE "abort",
                                ![p].left = @ \ {s}, ![p].failed = @ + 1]
  /\ UNCHANGED <<cycle, goOn, passes, deaths, overlapped>>

Verdict(p) ==
  CASE pass[p].pc = "abort" -> "FAILED"
    [] pass[p].pc # "abort" /\ pass[p].failed = 0 -> "COMPLETED"
    [] pass[p].pc # "abort" /\ pass[p].failed > 0 ->
         IF pass[p].done > 0 THEN "PARTIALLY_COMPLETE" ELSE "FAILED"

(* mark_cycle_finished.                                                       *)
Mark(p) ==
  /\ pass[p].pc = "abort" \/ (pass[p].pc = "symbol" /\ pass[p].left = {})
  /\ cycle' = Verdict(p)
  /\ pass' = [pass EXCEPT ![p] = AtRest]
  /\ UNCHANGED <<result, goOn, passes, deaths, overlapped>>

Die(p) ==
  /\ pass[p].pc # "idle" /\ deaths < MaxDeaths
  /\ deaths' = deaths + 1
  /\ pass' = [pass EXCEPT ![p] = AtRest]
  /\ UNCHANGED <<cycle, result, goOn, passes, overlapped>>

CycleNext ==
  \E p \in Process : Run(p) \/ Resume(p) \/ Look(p) \/ Save(p) \/ Mark(p) \/ Die(p)

CycleSpec == CycleInit /\ [][CycleNext]_cycleVars

-----------------------------------------------------------------------------
(* Properties.                                                                *)

CycleTypeOK ==
  /\ cycle \in {"NONE", "RUNNING", "COMPLETED", "PARTIALLY_COMPLETE", "FAILED"}
  /\ result \in [Symbol -> {"NONE", "COMPLETED", "FAILED"}]
  /\ \A p \in Process : /\ pass[p].pc \in {"idle", "symbol", "run", "abort"}
                        /\ pass[p].left \subseteq Symbol
                        /\ pass[p].done + pass[p].failed + Cardinality(pass[p].left) <= Symbols

(* Runs and resumptions after one another, with any crash between, keep every *)
(* completed symbol, and the mark they leave agrees with the rows: a cycle is *)
(* called COMPLETED when no row says otherwise.                               *)
CycleTellsTruth ==
  [][/\ CycleTypeOK'
     /\ ~overlapped' =>
          /\ \A s \in Symbol : result[s] = "COMPLETED" => result'[s] = "COMPLETED"
          /\ \A p \in Process : pass[p].pc # "idle" /\ cycle' # cycle =>
               (cycle' = "COMPLETED" <=> \A s \in Symbol : result[s] # "FAILED")]_cycleVars

(* What "resumable" asks of a completed cycle: every symbol has its result.   *)
CompletedCoversAll == cycle = "COMPLETED" => \A s \in Symbol : result[s] = "COMPLETED"
=============================================================================
