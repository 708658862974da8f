-------------------------- MODULE ResearchCommittee --------------------------
(* The research committee over one evidence snapshot (research/               *)
(* orchestration.py): each worker analyses the run role by role, retries a    *)
(* role within its attempts, and saves attempts, reports, the decision and    *)
(* the run's status one commit at a time (storage/research_repositories.py).  *)
(* Every call of the provider is an invocation of ResearchTokens.             *)
EXTENDS ResearchTokens, Sequences

CONSTANTS
  Analysts,    \* the analyst roles, in order
  Manager,     \* MANAGER_ROLE
  MaxRuns,     \* bound on the analyses the workers start
  MaxCrashes   \* bound on the processes that die

ASSUME CommitteeAssumption ==
  /\ Analysts \in Seq(Role) /\ Manager \in Role
  /\ \A i \in DOMAIN Analysts : Analysts[i] # Manager
  /\ MaxRuns \in Nat /\ MaxCrashes \in Nat

VARIABLES
  run,        \* research_committee_runs.status
  attempts,   \* research_attempts: the ids saved
  reports,    \* research_role_reports: the roles with a saved report
  decided,    \* research_decisions: whether the decision is saved
  work,       \* where each worker is
  scheduled,  \* the analyses run under the shadow scheduler, whose run id is in each attempt id
  runs, crashes

runVars == <<run, attempts, reports, decided>>
committeeVars == <<runVars, work, scheduled, runs, crashes>>
vars == <<tokenVars, committeeVars>>

Idle == [pc |-> "idle", at |-> 1, attempt |-> 1, saved |-> 0, good |-> FALSE, failed |-> FALSE]

Init ==
  /\ TokenInit
  /\ run = "NONE" /\ attempts = {} /\ reports = {} /\ decided = FALSE
  /\ work = [w \in Worker |-> Idle]
  /\ scheduled \in BOOLEAN
  /\ runs = 0 /\ crashes = 0

Step(w, to) == work' = [work EXCEPT ![w].pc = to]
RoleOf(w) == IF work[w].at <= Len(Analysts) THEN Analysts[work[w].at] ELSE Manager

(* The next analyst's turn, as the loop over the analysts takes it.           *)
NextTurn(w, failed) ==
  work' = [work EXCEPT ![w] = [Idle EXCEPT !.pc = "turn", !.at = work[w].at + 1, !.failed = failed]]

(* An exception that the committee does not catch leaves the run as it is:    *)
(* the cycle records a FAILED symbol.                                         *)
Fails(w) == work' = [work EXCEPT ![w] = Idle]

-----------------------------------------------------------------------------
(* A finished run is reused, anything else is worked on; save_run_started     *)
(* reads the status once more.                                                *)
Start(w) ==
  /\ work[w].pc = "idle" /\ run \in {"NONE", "RUNNING"} /\ runs < MaxRuns
  /\ Step(w, "begin")
  /\ runs' = runs + 1
  /\ UNCHANGED <<tokenVars, runVars, scheduled, crashes>>

Begin(w) ==
  /\ work[w].pc = "begin"
  /\ run' = IF run = "NONE" THEN "RUNNING" ELSE run
  /\ Step(w, "turn")
  /\ UNCHANGED <<tokenVars, attempts, reports, decided, scheduled, runs, crashes>>

(* A role's turn: an analyst with a saved report is skipped, any other role   *)
(* is asked, the manager only when no analyst failed.                         *)
Turn(w) ==
  LET role == RoleOf(w) IN
  /\ work[w].pc = "turn"
  /\ \/ /\ role # Manager /\ role \in reports
        /\ NextTurn(w, work[w].failed) /\ UNCHANGED call
     \/ /\ IF role = Manager THEN ~work[w].failed ELSE role \notin reports
        /\ Asks(w, role, 1, Today)
        /\ Step(w, "hear")
     \/ /\ role = Manager /\ work[w].failed
        /\ Step(w, "incomplete") /\ UNCHANGED call
  /\ UNCHANGED <<now, row, sent, byHand, straddled, runVars, scheduled, runs, crashes>>

(* What an attempt ended with: valid output, output or an error that may be   *)
(* retried within the role's attempts, one that may not, or an exception that *)
(* takes the attempts of the role with it.                                    *)
Hear(w) ==
  LET n == work[w].attempt IN
  /\ work[w].pc = "hear" /\ call[w].pc = "done"
  /\ \/ /\ call[w].outcome \in {"answered", "retryable"} /\ n < MaxAttempt
        /\ Asks(w, RoleOf(w), n + 1, call[w].key[3])
        /\ work' = [work EXCEPT ![w].attempt = n + 1]
     \/ /\ call' = [call EXCEPT ![w] = NoCall]
        /\ \/ /\ call[w].outcome = "answered"
              /\ \E good \in BOOLEAN : work' = [work EXCEPT ![w].pc = "save", ![w].good = good]
           \/ /\ \/ call[w].outcome = "unavailable"
                 \/ call[w].outcome = "retryable" /\ n = MaxAttempt
              /\ Step(w, "save")
           \/ /\ call[w].outcome = "raised"
              /\ Fails(w)
  /\ UNCHANGED <<now, row, sent, byHand, straddled, runVars, scheduled, runs, crashes>>

(* A mutant: an id that is there already is written over.                     *)
MutTaken(w, n) == FALSE

(* save_attempt, a plain INSERT, for each attempt of the role: an id that is  *)
(* already there raises.  A scheduled run's ids are its own.                  *)
Taken(w, n) == ~scheduled /\ <<RoleOf(w), n>> \in attempts

SaveAttempt(w) ==
  LET n == work[w].saved + 1 IN
  /\ work[w].pc = "save" /\ n <= work[w].attempt
  /\ \/ /\ Taken(w, n)
        /\ Fails(w) /\ UNCHANGED attempts
     \/ /\ ~Taken(w, n)
        /\ attempts' = attempts \cup {<<RoleOf(w), n>>}
        /\ work' = [work EXCEPT ![w].saved = n]
  /\ UNCHANGED <<tokenVars, run, reports, decided, scheduled, runs, crashes>>

(* save_role_report or, for the manager, save_decision.                       *)
SaveOutcome(w) ==
  /\ work[w].pc = "save" /\ work[w].saved = work[w].attempt
  /\ \/ /\ work[w].good /\ RoleOf(w) # Manager
        /\ reports' = reports \cup {RoleOf(w)}
        /\ NextTurn(w, work[w].failed) /\ UNCHANGED decided
     \/ /\ ~work[w].good /\ RoleOf(w) # Manager
        /\ NextTurn(w, TRUE) /\ UNCHANGED <<reports, decided>>
     \/ /\ work[w].good /\ RoleOf(w) = Manager
        /\ decided' = TRUE
        /\ \E rated \in {"complete", "incomplete"} : Step(w, rated)
        /\ UNCHANGED reports
     \/ /\ ~work[w].good /\ RoleOf(w) = Manager
        /\ Step(w, "incomplete") /\ UNCHANGED <<reports, decided>>
  /\ UNCHANGED <<tokenVars, run, attempts, scheduled, runs, crashes>>

(* mark_run_finished, whatever the row says.  The analyses modelled are past  *)
(* the refusals that end a run before its first role (a token cap without a   *)
(* controller, a snapshot that fails its preconditions): one configuration    *)
(* refuses all workers alike.                                                 *)
Finish(w) ==
  /\ work[w].pc \in {"complete", "incomplete"}
  /\ run' = IF work[w].pc = "complete" THEN "COMPLETED" ELSE "ANALYSIS_INCOMPLETE"
  /\ work' = [work EXCEPT ![w] = Idle]
  /\ UNCHANGED <<tokenVars, attempts, reports, decided, scheduled, runs, crashes>>

(* The process dies, before or after its request was sent.                    *)
Crash(w) ==
  /\ work[w].pc # "idle" /\ crashes < MaxCrashes
  /\ crashes' = crashes + 1
  /\ work' = [work EXCEPT ![w] = Idle]
  /\ call' = [call EXCEPT ![w] = NoCall]
  /\ UNCHANGED <<now, row, sent, byHand, straddled, runVars, scheduled, runs>>

Next ==
  \/ \E w \in Worker :
       \/ Start(w) \/ Begin(w) \/ Turn(w) \/ Hear(w)
       \/ SaveAttempt(w) \/ SaveOutcome(w) \/ Finish(w) \/ Crash(w)
  \/ TokenNext /\ UNCHANGED committeeVars

Spec == Init /\ [][Next]_vars

-----------------------------------------------------------------------------
(* Properties.                                                                *)

TypeOK ==
  /\ TokenTypeOK
  /\ run \in {"NONE", "RUNNING", "COMPLETED", "ANALYSIS_INCOMPLETE"}
  /\ attempts \subseteq Role \X Attempt /\ reports \subseteq Role /\ decided \in BOOLEAN
  /\ \A w \in Worker :
       /\ work[w].pc \in {"idle", "begin", "turn", "hear", "save", "complete", "incomplete"}
       /\ work[w].at \in 1..(Len(Analysts) + 1)
       /\ work[w].attempt \in Attempt /\ work[w].saved \in 0..work[w].attempt

(* A run is COMPLETED only when the decision is saved and every analyst's     *)
(* report is, through crashes, reruns and concurrent workers.                 *)
CompletedIsFounded ==
  /\ TypeOK
  /\ run = "COMPLETED" => /\ decided
                          /\ \A i \in DOMAIN Analysts : Analysts[i] \in reports

(* Where the attempts of all workers share their ids, a completed run is not  *)
(* taken back by a worker that lost the race for an attempt.                  *)
VerdictKept ==
  [][~scheduled /\ run = "COMPLETED" => run' = "COMPLETED"]_vars

(* A completed run rests on all its reports and stays completed.              *)
CompletionStands == []CompletedIsFounded /\ VerdictKept

(* "resumable per symbol": a worker alone, after one that died, gets past     *)
(* what was saved before.                                                     *)
ResumeNotRefused ==
  [][\A w \in Worker :
       work[w].pc = "save" /\ work'[w].pc = "idle" => crashes' > crashes \/ Cardinality({v \in Worker : work[v].pc # "idle"}) > 1]_vars
=============================================================================
