------------------------------ MODULE ShadowHealth ------------------------------
(* The health of shadow operations: after its cycle a run folds the verdict   *)
(* of every rate-based dimension into that dimension's persistent streaks,    *)
(* and asks for a pause when the combined decision requires one.  A streak is *)
(* read before the transaction that saves it, so two runs may interleave.     *)
EXTENDS ShadowPause, Sequences, FiniteSets

CONSTANTS
  Scopes,            \* the dimensions are 1..Scopes, evaluated in this order
  WarnAfter,         \* warning_after_n_failures
  RecommendAfter,    \* pause_recommended_after_n_failures
  RequireAfter,      \* pause_required_after_m_failures
  RecoveryStreak,    \* recovery_streak
  Policy,            \* the policy hashes a dimension may be evaluated under
  MaxEvals           \* bound: cycles whose health is evaluated

(* PersistentHealthPolicyConfig.__post_init__.                                *)
ASSUME HealthAssumption ==
  /\ Scopes \in Nat \ {0} /\ MaxEvals \in Nat
  /\ {WarnAfter, RecommendAfter, RequireAfter, RecoveryStreak} \subseteq Nat \ {0}
  /\ WarnAfter <= RecommendAfter /\ RecommendAfter <= RequireAfter

VARIABLES
  hyst,       \* shadow_health_hysteresis_state, by dimension
  history,    \* shadow_health_hysteresis_evaluations, by dimension
  eval,       \* the evaluation that each run is in
  evals,      \* the evaluations begun, for MaxEvals
  lost,       \* history: dimensions with a streak saved over one not read
  reopened    \* history: an operator has let work go on since an evaluation began

healthVars == <<hyst, history, eval, evals, lost, reopened>>

Scope == 1..Scopes

(* What a cycle's check of a dimension concluded: NONE for too small a sample *)
(* or a check that does not apply, SEVERE for a failure that needs no sample. *)
Verdict == {"NONE", "PASS", "WARNING", "FAIL", "SEVERE"}
Failing == {"WARNING", "FAIL", "SEVERE"}
Breach == {"FAIL", "SEVERE"}

Rank == [HEALTHY |-> 0, DEGRADED |-> 1, PAUSE_RECOMMENDED |-> 2, PAUSE_REQUIRED |-> 3]

Worse(a, b) == IF Rank[a] >= Rank[b] THEN a ELSE b

(* _initial_state, of a dimension with no row or with the row of another      *)
(* policy.                                                                    *)
Fresh(policy) == [decision |-> "HEALTHY", fails |-> 0, recoveries |-> 0, policy |-> policy]

Under(state, policy) == IF state.policy = policy THEN state ELSE Fresh(policy)

Quiet == [pc |-> "idle", scope |-> 0, verdict |-> <<>>, policy |-> "none", structural |-> FALSE,
          read |-> Fresh("none"), seen |-> 0, worst |-> "HEALTHY"]

HealthInit ==
  /\ PauseInit
  /\ hyst = [s \in Scope |-> Fresh("none")]
  /\ history = [s \in Scope |-> <<>>]
  /\ eval = [r \in Runner |-> Quiet]
  /\ evals = 0 /\ lost = {} /\ reopened = FALSE

HealthOperator(o) ==
  /\ Operate(o)
  /\ reopened' = (reopened \/ Reopens(o))
  /\ UNCHANGED <<hyst, history, eval, evals, lost>>

(* evaluate_cycle_health: a verdict for every dimension, and whether one of   *)
(* the structural checks failed.                                              *)
BeginEvaluation(r) ==
  /\ eval[r].pc = "idle" /\ evals < MaxEvals
  /\ \E verdict \in [Scope -> Verdict], policy \in Policy, structural \in BOOLEAN :
       eval' = [eval EXCEPT ![r] = [Quiet EXCEPT !.pc = "read", !.scope = 1, !.verdict = verdict,
                                                 !.policy = policy, !.structural = structural]]
  /\ evals' = evals + 1
  /\ reopened' = FALSE
  /\ UNCHANGED <<pauseVars, hyst, history, lost>>

(* evaluate_and_persist_hysteresis, the reads: another policy starts afresh.  *)
ReadStreak(r) ==
  LET s == eval[r].scope IN
  /\ eval[r].pc = "read"
  /\ eval' = [eval EXCEPT ![r].pc = "save", ![r].read = Under(hyst[s], eval[r].policy),
                          ![r].seen = Len(history[s])]
  /\ UNCHANGED <<pauseVars, hyst, history, evals, lost, reopened>>

MutCounted(state, fails) ==
  IF fails + 1 >= RequireAfter THEN "PAUSE_REQUIRED"
  ELSE IF fails >= RecommendAfter THEN "PAUSE_RECOMMENDED"
  ELSE IF fails >= WarnAfter THEN "DEGRADED"
  ELSE state.decision

(* The streaks and the decision after one more verdict.                       *)
Counted(state, fails) ==
  IF fails >= RequireAfter THEN "PAUSE_REQUIRED"
  ELSE IF fails >= RecommendAfter THEN "PAUSE_RECOMMENDED"
  ELSE IF fails >= WarnAfter THEN "DEGRADED"
  ELSE state.decision

Advance(state, verdict) ==
  CASE verdict = "NONE" -> state
    [] verdict = "SEVERE" ->
         [state EXCEPT !.fails = @ + 1, !.recoveries = 0, !.decision = "PAUSE_REQUIRED"]
    [] verdict \in {"WARNING", "FAIL"} ->
         [state EXCEPT !.fails = @ + 1, !.recoveries = 0,
                       !.decision = Counted(state, state.fails + 1)]
    [] verdict = "PASS" ->
         [state EXCEPT !.fails = 0, !.recoveries = @ + 1,
                       !.decision = IF state.recoveries + 1 >= RecoveryStreak
                                    THEN "HEALTHY" ELSE @]

(* The transaction, and what the evaluation returns: a system that an         *)
(* operator paused or killed is never reported better than PAUSE_REQUIRED.    *)
SaveStreak(r) ==
  LET s == eval[r].scope
      verdict == eval[r].verdict[s]
      next == Advance(eval[r].read, verdict)
      decision == IF pause \in {"PAUSED_MANUAL", "KILLED"} THEN "PAUSE_REQUIRED" ELSE next.decision
  IN
  /\ eval[r].pc = "save"
  /\ hyst' = [hyst EXCEPT ![s] = next]
  /\ history' = [history EXCEPT ![s] = Append(@, [verdict |-> verdict, policy |-> eval[r].policy])]
  /\ lost' = IF Len(history[s]) # eval[r].seen THEN lost \cup {s} ELSE lost
  /\ eval' = [eval EXCEPT ![r].worst = Worse(@, decision), ![r].scope = s + 1,
                          ![r].pc = IF s = Scopes THEN "apply" ELSE "read"]
  /\ UNCHANGED <<pauseVars, evals, reopened>>

(* combine_effective_health_decision.                                         *)
Verdicts(r) == {eval[r].verdict[s] : s \in Scope}

Flagged(r) == eval[r].structural \/ Verdicts(r) \cap Breach # {}

Single(r) == IF Flagged(r) THEN "PAUSE_REQUIRED"
             ELSE IF "WARNING" \in Verdicts(r) THEN "DEGRADED" ELSE "HEALTHY"

Effective(r) ==
  IF eval[r].structural \/ "SEVERE" \in Verdicts(r) THEN "PAUSE_REQUIRED"
  ELSE IF Single(r) = "PAUSE_REQUIRED" THEN eval[r].worst
  ELSE Worse(Single(r), eval[r].worst)

(* apply_health_result: it acts on a required pause that a check of this very *)
(* cycle has triggered; a KILLED system refuses, and that is ignored.         *)
ApplyHealth(r) ==
  /\ eval[r].pc = "apply"
  /\ IF Effective(r) = "PAUSE_REQUIRED" /\ Flagged(r) /\ pause # "KILLED"
     THEN Ask(r, "automatic_pause") /\ eval' = [eval EXCEPT ![r].pc = "write"]
     ELSE UNCHANGED pauseVars /\ eval' = [eval EXCEPT ![r] = Quiet]
  /\ UNCHANGED <<hyst, history, evals, lost, reopened>>

WritePause(r) ==
  /\ eval[r].pc = "write"
  /\ Write(r)
  /\ eval' = [eval EXCEPT ![r] = Quiet]
  /\ UNCHANGED <<hyst, history, evals, lost, reopened>>

(* The process dies, between any two commits.                                 *)
CrashEvaluation(r) ==
  /\ eval[r].pc # "idle"
  /\ eval' = [eval EXCEPT ![r] = Quiet]
  /\ asked' = [asked EXCEPT ![r] = "none"]
  /\ reopened' = TRUE
  /\ UNCHANGED <<pause, hyst, history, evals, lost>>

HealthNext ==
  \/ \E o \in Operator : HealthOperator(o)
  \/ \E r \in Runner :
       \/ BeginEvaluation(r) \/ ReadStreak(r) \/ SaveStreak(r)
       \/ ApplyHealth(r) \/ WritePause(r) \/ CrashEvaluation(r)

HealthSpec == HealthInit /\ [][HealthNext]_<<pauseVars, healthVars>>

-----------------------------------------------------------------------------
(* Properties.                                                                *)

HealthTypeOK ==
  /\ PauseTypeOK
  /\ \A s \in Scope : /\ hyst[s].decision \in DOMAIN Rank /\ hyst[s].policy \in Policy \cup {"none"}
                      /\ hyst[s].fails = 0 \/ hyst[s].recoveries = 0
                      /\ hyst[s].fails + hyst[s].recoveries <= Len(history[s])
  /\ \A r \in Runner : /\ eval[r].pc = "write" => asked[r] = "automatic_pause"
                       /\ eval[r].pc \in {"read", "save"} => eval[r].scope \in Scope

(* What counts of a history: the verdicts under the policy of its last        *)
(* evaluation, without a break, that had enough data.                         *)
Counting(h) ==
  {i \in DOMAIN h : h[i].verdict # "NONE" /\ \A j \in i..Len(h) : h[j].policy = h[Len(h)].policy}

(* The unbroken row of such verdicts, all in a set, that ends at a place.     *)
Streak(h, S, to) ==
  {i \in Counting(h) : i <= to /\ \A j \in Counting(h) : j \in i..to => h[j].verdict \in S}
Length(h, S, to) == Cardinality(Streak(h, S, to))

(* The streaks of a dimension are those of its own recorded history, across   *)
(* restarts and policies, as long as no save was lost.                        *)
StreaksMatchHistory ==
  \A s \in Scope \ lost :
    LET h == history[s] IN
    /\ hyst[s].fails = Length(h, Failing, Len(h))
    /\ hyst[s].recoveries = Length(h, {"PASS"}, Len(h))

(* A pause is required only after a severe verdict or enough failures in a    *)
(* row, which no full recovery has followed.                                  *)
Earned(h) ==
  \E i \in Counting(h) :
    /\ h[i].verdict = "SEVERE" \/ Length(h, Failing, i) >= RequireAfter
    /\ \A j \in Counting(h) : j >= i => Length(h, {"PASS"}, j) < RecoveryStreak

RequiredIsEarned ==
  \A s \in Scope \ lost : hyst[s].decision = "PAUSE_REQUIRED" => Earned(history[s])

(* What the streaks ask for, the recorded verdicts bear out.                  *)
StreaksAreEarned == HealthTypeOK /\ StreaksMatchHistory /\ RequiredIsEarned

(* An outage blocks: when a dimension's checks have failed so often that a    *)
(* pause is required, and the evaluations are over, no work starts until an   *)
(* operator has let it go on.                                                 *)
OutageBlocks ==
  (\A r \in Runner : eval[r].pc = "idle") /\ ~reopened =>
    \A s \in Scope \ lost :
      LET h == history[s] IN
      Length(h, Failing, Len(h)) >= RequireAfter /\ h[Len(h)].verdict \in Breach => pause # "ACTIVE"

(* The streaks decide, and are what they should be: no pause without enough   *)
(* failures, no work after them.                                              *)
StreaksDecide == StreaksAreEarned /\ OutageBlocks
=============================================================================
