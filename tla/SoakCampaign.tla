------------------------------ MODULE SoakCampaign ------------------------------
(* The soak campaign runner: a manifest of dates, attempts over it, and one   *)
(* immutable record per attempt and date.  A process that runs the campaign   *)
(* may die between any two commits of a date's stages; what it left behind    *)
(* (the lifecycle run, the operator run, the date's record) decides what the  *)
(* next call does with the date.                                              *)
EXTENDS Naturals, Sequences, FiniteSets

CONSTANTS
  Runner,        \* processes that run paper-soak-campaign-run or -resume
  Reviewer,      \* an operator with a reason, as given for a continuation
  NoOperator,    \* a call without --operator and --reason
  MaxDay,        \* the dates of the manifest, in order
  StopConfig,    \* paper_books.soak_campaign.stop_on_blocker
  MinDays,       \* paper_books.soak_campaign.minimum_market_days
  MaxAttempt,    \* bound: attempts of the campaign
  MaxCrashes,    \* bound: processes that die
  MaxPauses      \* bound: changes of the shadow pause state

ASSUME CampaignAssumption ==
  /\ NoOperator \notin Reviewer
  /\ MaxDay \in Nat \ {0} /\ MinDays \in Nat /\ StopConfig \in BOOLEAN
  /\ MaxAttempt \in Nat /\ MaxCrashes \in Nat /\ MaxPauses \in Nat

VARIABLES
  defined,       \* rows of the campaign and its definition dates; 0: no campaign
  attempts,      \* paper_soak_campaign_attempts, each with its dates' records
  legacyDays,    \* paper_soak_campaign_days, the records of attempt one
  life,          \* paper_book_lifecycle_runs, by date
  op,            \* paper_soak_operator_runs, by date
  begun,         \* history: a lifecycle has begun to change the date's books
  paused,        \* the shadow pause state blocks
  pauses,        \* the changes of it so far, for MaxPauses
  process,       \* the processes
  crashes        \* the crashes so far, for MaxCrashes

campaignVars == <<defined, attempts, legacyDays, life, op, begun, paused, pauses, process, crashes>>

Day == 1..MaxDay
Blocker == {"BLOCKED", "FAILED", "RECOVERY"}

(* A date's record: its day_status (COMPLETED stands for the one with         *)
(* warnings too), whether its controlled readiness is the activation-review   *)
(* one, and whether it names a lifecycle run.                                 *)
Record(status, ready, ran) == [status |-> status, ready |-> ready, ran |-> ran]
NoRecord == Record("NONE", FALSE, FALSE)
Recorded(f) == {d \in Day : f[d].status # "NONE"}

NoOp == [out |-> "none", reasons |-> FALSE]

(* A process between two commits: the attempt and the dates it works on, what *)
(* it read of the attempt's records and of the earlier ones at its start, and *)
(* its own blocked flag and first blocking date.                              *)
Idle == [pc |-> "idle", att |-> 0, day |-> 0, dates |-> {}, own |-> {},
         prior |-> [d \in Day |-> "NONE"], blocked |-> FALSE, first |-> 0, stop |-> TRUE,
         who |-> NoOperator, failed |-> FALSE, res |-> NoRecord]

CampaignInit ==
  /\ defined = 0 /\ attempts = <<>>
  /\ legacyDays = [d \in Day |-> NoRecord]
  /\ life = [d \in Day |-> "none"]
  /\ op = [d \in Day |-> NoOp]
  /\ begun = [d \in Day |-> FALSE]
  /\ paused \in BOOLEAN /\ pauses = 0
  /\ process = [r \in Runner |-> Idle] /\ crashes = 0

Set(r, new) == process' = [process EXCEPT ![r] = new]
GoOn(r, pc) == Set(r, [process[r] EXCEPT !.pc = pc])

(* The result of a date up to an attempt: the last one recorded, where a      *)
(* continuation's skip does not replace an earlier result.                    *)
Effective(n) ==
  [d \in Day |->
    LET said == {a \in 1..n : attempts[a].day[d].status \notin {"NONE", "SKIPPED"}}
        skip == {a \in 1..n : attempts[a].day[d].status = "SKIPPED"}
    IN IF said # {} THEN attempts[CHOOSE a \in said : \A b \in said : b <= a].day[d]
       ELSE IF legacyDays[d].status # "NONE" THEN legacyDays[d]
       ELSE IF skip # {} THEN Record("SKIPPED", FALSE, FALSE) ELSE NoRecord]

(* paper-soak-campaign-run with a manifest: the campaign row and then one row *)
(* per date are committed one by one, by the call that finds no campaign.     *)
Run(r, stop, who) ==
  /\ process[r].pc = "idle"
  /\ stop \/ who # NoOperator \/ ~StopConfig
  /\ Set(r, [Idle EXCEPT !.pc = IF defined = 0 THEN "define" ELSE "open",
                         !.dates = Day, !.stop = stop, !.who = who])
  /\ defined' = IF defined = 0 THEN 1 ELSE defined
  /\ UNCHANGED <<attempts, legacyDays, life, op, begun, paused, pauses, crashes>>

DefineDate(r) ==
  /\ process[r].pc = "define"
  /\ IF defined <= MaxDay
     THEN defined' = defined + 1 /\ UNCHANGED process
     ELSE UNCHANGED defined /\ GoOn(r, "open")
  /\ UNCHANGED <<attempts, legacyDays, life, op, begun, paused, pauses, crashes>>

(* manifest_from_persisted_campaign: the definition dates that are there, or  *)
(* else those that the first attempt recorded.                                *)
Persisted ==
  IF defined > 1 THEN 1..(defined - 1)
  ELSE IF attempts # <<>> THEN Recorded(attempts[1].day) ELSE Recorded(legacyDays)

(* paper-soak-campaign-resume: without a manifest, and never stopping.        *)
Resume(r, who) ==
  /\ process[r].pc = "idle" /\ who # NoOperator
  /\ defined > 0 /\ Persisted # {}
  /\ Set(r, [Idle EXCEPT !.pc = "open", !.dates = Persisted, !.stop = FALSE, !.who = who])
  /\ UNCHANGED <<defined, attempts, legacyDays, life, op, begun, paused, pauses, crashes>>

MutRunning == {}

Running == {a \in DOMAIN attempts : attempts[a].status = "RUNNING"}

(* A new attempt is due for a campaign without one, and for a continuation by *)
(* an operator unless the latest attempt is that very continuation.           *)
NewAttempt(w) ==
  \/ attempts = <<>>
  \/ /\ attempts # <<>> /\ ~w.stop /\ w.who # NoOperator
     /\ LET last == attempts[Len(attempts)] IN ~(last.again /\ last.who = w.who)

MutEntered(w, n) ==
  LET own == Recorded(attempts[n].day)
      eff == Effective(n)
  IN [w EXCEPT !.pc = "day", !.att = n, !.day = 1, !.own = own,
               !.who = NoOperator, !.stop = IF n = 1 THEN @ ELSE TRUE,
               !.prior = [d \in Day |-> IF d \in own THEN "NONE" ELSE eff[d].status],
               !.blocked = FALSE, !.first = attempts[n].first]

(* What a process knows when it enters attempt n.                             *)
Entered(w, n) ==
  LET own == Recorded(attempts[n].day)
      eff == Effective(n)
  IN [w EXCEPT !.pc = "day", !.att = n, !.day = 1, !.own = own,
               !.who = NoOperator, !.stop = IF n = 1 THEN @ ELSE TRUE,
               !.prior = [d \in Day |-> IF d \in own THEN "NONE" ELSE eff[d].status],
               !.blocked = \E d \in own : attempts[n].day[d].status \in Blocker,
               !.first = attempts[n].first]

(* An attempt that is RUNNING is taken up again by any call; else a new one   *)
(* is committed if it is due, and a call that finds neither only shows the    *)
(* campaign.                                                                  *)
Open(r) ==
  LET w == process[r] IN
  /\ w.pc = "open"
  /\ \/ /\ Running # {}
        /\ Set(r, Entered(w, CHOOSE a \in Running : \A b \in Running : a <= b))
        /\ UNCHANGED attempts
     \/ /\ Running = {} /\ NewAttempt(w) /\ Len(attempts) < MaxAttempt
        /\ attempts' = Append(attempts,
             [status |-> "RUNNING", again |-> attempts # <<>> /\ ~w.stop, who |-> w.who,
              first |-> 0, day |-> [d \in Day |-> NoRecord]])
        /\ Set(r, [w EXCEPT !.pc = "enter", !.att = Len(attempts) + 1])
     \/ /\ Running = {} /\ ~NewAttempt(w)
        /\ Set(r, Idle) /\ UNCHANGED attempts
  /\ UNCHANGED <<defined, legacyDays, life, op, begun, paused, pauses, crashes>>

EnterAttempt(r) ==
  /\ process[r].pc = "enter"
  /\ Set(r, Entered(process[r], process[r].att))
  /\ UNCHANGED <<defined, attempts, legacyDays, life, op, begun, paused, pauses, crashes>>

(* INSERT OR IGNORE of the record of a date into the process's attempt.       *)
SaveRecord(w, rec) ==
  attempts' = [attempts EXCEPT ![w.att].day[w.day] = IF @.status = "NONE" THEN rec ELSE @]

(* The process's flags after its record of the date: every blocker sets       *)
(* blocked, and the first one its date.                                       *)
After(w, rec) ==
  [w EXCEPT !.day = @ + 1, !.pc = "day", !.res = NoRecord, !.failed = FALSE,
            !.blocked = @ \/ rec.status \in Blocker,
            !.first = IF @ = 0 /\ rec.status \in Blocker THEN w.day ELSE @]

(* The conditions of the loop over the manifest's dates, in their order.      *)
AtDate(w) == w.pc = "day" /\ w.day <= MaxDay

Passed(w) == w.day \notin w.dates \/ w.day \in w.own \/ w.prior[w.day] = "COMPLETED"

StopsHere(w) == w.blocked /\ (IF w.att = 1 THEN w.stop ELSE StopConfig)

Unrecorded(w) == w.prior[w.day] = "NONE"

HasOp(w) == op[w.day].out # "none" /\ Unrecorded(w)

MutHasLife(w) == HasOp(w)

HasLife(w) == life[w.day] # "none" /\ Unrecorded(w)

PassOver(r) ==
  /\ AtDate(process[r]) /\ Passed(process[r])
  /\ Set(r, [process[r] EXCEPT !.day = @ + 1])
  /\ UNCHANGED <<defined, attempts, legacyDays, life, op, begun, paused, pauses, crashes>>

(* A date that failed in an earlier attempt is not retried by this one.       *)
ReviewFailed(r) ==
  LET w == process[r]
      rec == Record("RECOVERY", FALSE, FALSE)
  IN /\ AtDate(w) /\ ~Passed(w) /\ w.prior[w.day] = "FAILED"
     /\ SaveRecord(w, rec)
     /\ Set(r, [After(w, rec) EXCEPT !.first = w.first])
     /\ UNCHANGED <<defined, legacyDays, life, op, begun, paused, pauses, crashes>>

SkipDate(r) ==
  LET w == process[r]
      rec == Record("SKIPPED", FALSE, FALSE)
  IN /\ AtDate(w) /\ ~Passed(w) /\ w.prior[w.day] # "FAILED" /\ StopsHere(w)
     /\ SaveRecord(w, rec)
     /\ Set(r, IF w.att = 1 THEN [w EXCEPT !.pc = "legacy", !.res = rec] ELSE After(w, rec))
     /\ UNCHANGED <<defined, legacyDays, life, op, begun, paused, pauses, crashes>>

(* A date whose operator run is there is recorded from it, without a          *)
(* lifecycle; it is blocked by the operator run's status or failure reasons.  *)
FromOp(w) ==
  Record(IF op[w.day].out = "hard" \/ op[w.day].reasons THEN "BLOCKED" ELSE "COMPLETED",
         op[w.day].out = "ready", TRUE)

(* A lifecycle run without its operator run leaves the date for a review.     *)
FromLife(w) == Record("RECOVERY", FALSE, TRUE)

Recover(r) ==
  LET w == process[r]
      rec == IF HasOp(w) THEN FromOp(w) ELSE FromLife(w)
  IN /\ AtDate(w) /\ ~Passed(w) /\ w.prior[w.day] # "FAILED" /\ ~StopsHere(w)
     /\ HasOp(w) \/ HasLife(w)
     /\ SaveRecord(w, rec)
     /\ Set(r, After(w, rec))
     /\ UNCHANGED <<defined, legacyDays, life, op, begun, paused, pauses, crashes>>

(* run_controlled_soak_day begins with the shadow pause state.                *)
StartDay(r) ==
  LET w == process[r] IN
  /\ AtDate(w) /\ ~Passed(w) /\ w.prior[w.day] # "FAILED" /\ ~StopsHere(w)
  /\ ~HasOp(w) /\ ~HasLife(w)
  /\ GoOn(r, IF paused THEN "judge" ELSE "life")
  /\ UNCHANGED <<defined, attempts, legacyDays, life, op, begun, paused, pauses, crashes>>

(* The controlled readiness of a date: a pause blocks hard, and a lifecycle   *)
(* with failures up to the date never lets it be ready, though its status is  *)
(* not one of the hard ones.                                                  *)
FailedUpTo(d) == \E e \in 1..d : life[e] = "failed"
Readiness(d) ==
  IF paused THEN {"hard"}
  ELSE IF FailedUpTo(d) THEN {"hard", "soft"} ELSE {"hard", "soft", "ready"}

(* The day_status of a date that ran: _hard_blocker also sees the failed      *)
(* check of lifecycles with failures.                                         *)
Judged(d, out, ran) ==
  Record(IF out = "hard" \/ FailedUpTo(d) THEN "BLOCKED" ELSE "COMPLETED", out = "ready", ran)

(* The day that found the pause: no lifecycle, but readiness is read anew.    *)
JudgePaused(r) ==
  LET w == process[r] IN
  /\ w.pc = "judge"
  /\ \E out \in Readiness(w.day) :
       Set(r, [w EXCEPT !.pc = "save", !.res = Judged(w.day, out, FALSE)])
  /\ UNCHANGED <<defined, attempts, legacyDays, life, op, begun, paused, pauses, crashes>>

(* run_paper_book_lifecycle changes the books in many commits; only then is   *)
(* its run saved, and an earlier run of the same date is kept.                *)
BeginLifecycle(r) ==
  LET w == process[r] IN
  /\ w.pc = "life"
  /\ begun' = [begun EXCEPT ![w.day] = TRUE]
  /\ GoOn(r, "books")
  /\ UNCHANGED <<defined, attempts, legacyDays, life, op, paused, pauses, crashes>>

SaveLifecycle(r) ==
  LET w == process[r] IN
  /\ w.pc = "books"
  /\ \E failed \in BOOLEAN :
       /\ life' = [life EXCEPT ![w.day] =
            IF @ # "none" THEN @ ELSE IF failed THEN "failed" ELSE "clean"]
       /\ Set(r, [w EXCEPT !.pc = "verify", !.failed = failed])
  /\ UNCHANGED <<defined, attempts, legacyDays, op, begun, paused, pauses, crashes>>

(* Verification, readiness, and the operator run (an earlier one is kept).    *)
SaveOperatorRun(r) ==
  LET w == process[r] IN
  /\ w.pc = "verify"
  /\ \E out \in Readiness(w.day) :
       /\ op' = [op EXCEPT ![w.day] =
            IF @.out # "none" THEN @ ELSE [out |-> out, reasons |-> w.failed]]
       /\ Set(r, [w EXCEPT !.pc = "save", !.failed = FALSE, !.res = Judged(w.day, out, TRUE)])
  /\ UNCHANGED <<defined, attempts, legacyDays, life, begun, paused, pauses, crashes>>

(* A domain error of the verification or the readiness fails the date.        *)
KnownError(r) ==
  /\ process[r].pc \in {"judge", "verify"}
  /\ Set(r, [process[r] EXCEPT !.pc = "save", !.failed = FALSE,
                               !.res = Record("FAILED", FALSE, FALSE)])
  /\ UNCHANGED <<defined, attempts, legacyDays, life, op, begun, paused, pauses, crashes>>

SaveDay(r) ==
  LET w == process[r] IN
  /\ w.pc = "save"
  /\ SaveRecord(w, w.res)
  /\ Set(r, IF w.att = 1 THEN [w EXCEPT !.pc = "legacy"] ELSE After(w, w.res))
  /\ UNCHANGED <<defined, legacyDays, life, op, begun, paused, pauses, crashes>>

(* The first attempt's records are written a second time, for older readers.  *)
SaveLegacyDay(r) ==
  LET w == process[r] IN
  /\ w.pc = "legacy"
  /\ legacyDays' = [legacyDays EXCEPT ![w.day] = IF @.status = "NONE" THEN w.res ELSE @]
  /\ Set(r, After(w, w.res))
  /\ UNCHANGED <<defined, attempts, life, op, begun, paused, pauses, crashes>>

Finalize(a, status, first) ==
  attempts' = [attempts EXCEPT ![a] =
    IF @.status # "RUNNING" THEN @ ELSE [@ EXCEPT !.status = status, !.first = first]]

(* Any other exception inside a date ends the attempt without its record.     *)
UnexpectedError(r) ==
  LET w == process[r] IN
  /\ w.pc \in {"judge", "life", "books", "verify", "save", "legacy"}
  /\ Finalize(w.att, "FAILED", IF w.first # 0 THEN w.first ELSE w.day)
  /\ Set(r, Idle)
  /\ UNCHANGED <<defined, legacyDays, life, op, begun, paused, pauses, crashes>>

(* After its dates an attempt is judged by the effective results, and what a  *)
(* review finds there may promote it.                                         *)
MutUnclear(n) == \E d \in Day : Effective(n)[d].status \in {"BLOCKED", "FAILED"}

Unclear(n) == \E d \in Day : Effective(n)[d].status \in Blocker

Finish(r) ==
  LET w == process[r] IN
  /\ w.pc = "day" /\ w.day > MaxDay
  /\ Finalize(w.att, IF Unclear(w.att) THEN "BLOCKED" ELSE "COMPLETED_NOT_READY", w.first)
  /\ Set(r, [Idle EXCEPT !.pc = "review", !.att = w.att])
  /\ UNCHANGED <<defined, legacyDays, life, op, begun, paused, pauses, crashes>>

(* build_activation_review: no date BLOCKED or FAILED, the floors of the      *)
(* sample met, and the last date that was not skipped ready.                  *)
Recommends(n) ==
  LET eff == Effective(n)
      told == {d \in Day : eff[d].status \notin {"NONE", "SKIPPED"}}
      ran == {d \in Day : eff[d].ran /\ life[d] # "none"}
  IN /\ \A d \in Day : eff[d].status \notin {"BLOCKED", "FAILED"}
     /\ ran # {} /\ Cardinality(ran) >= MinDays
     /\ \E d \in told : (\A e \in told : e <= d) /\ eff[d].ready

(* The other floors (cycles, providers, warnings) may be met or not.          *)
Review(r) ==
  LET w == process[r] IN
  /\ w.pc = "review"
  /\ \/ Recommends(w.att) /\ GoOn(r, "promote")
     \/ Set(r, Idle)
  /\ UNCHANGED <<defined, attempts, legacyDays, life, op, begun, paused, pauses, crashes>>

Promoted(status) == IF status = "COMPLETED_NOT_READY" THEN "COMPLETED_READY" ELSE status

Promote(r) ==
  LET w == process[r] IN
  /\ w.pc = "promote"
  /\ attempts' = [attempts EXCEPT ![w.att].status = Promoted(@)]
  /\ Set(r, Idle)
  /\ UNCHANGED <<defined, legacyDays, life, op, begun, paused, pauses, crashes>>

CrashCampaign(r) ==
  /\ process[r].pc # "idle" /\ crashes < MaxCrashes
  /\ crashes' = crashes + 1
  /\ Set(r, Idle)
  /\ UNCHANGED <<defined, attempts, legacyDays, life, op, begun, paused, pauses>>

(* Operators and health rules pause and resume the shadow operations.         *)
TogglePause ==
  /\ pauses < MaxPauses
  /\ pauses' = pauses + 1 /\ paused' = ~paused
  /\ UNCHANGED <<defined, attempts, legacyDays, life, op, begun, process, crashes>>

Call(r) ==
  \E who \in Reviewer \cup {NoOperator} :
    Run(r, StopConfig, who) \/ Run(r, FALSE, who) \/ Resume(r, who)

Step(r) ==
  \/ DefineDate(r) \/ Open(r) \/ EnterAttempt(r)
  \/ PassOver(r) \/ ReviewFailed(r) \/ SkipDate(r) \/ Recover(r)
  \/ StartDay(r) \/ JudgePaused(r) \/ BeginLifecycle(r) \/ SaveLifecycle(r)
  \/ SaveOperatorRun(r) \/ KnownError(r) \/ SaveDay(r) \/ SaveLegacyDay(r)
  \/ UnexpectedError(r) \/ Finish(r) \/ Review(r) \/ Promote(r)

CampaignNext == (\E r \in Runner : Call(r) \/ Step(r) \/ CrashCampaign(r)) \/ TogglePause

CampaignSpec == CampaignInit /\ [][CampaignNext]_campaignVars

(* A process that is not killed goes on, and an operator calls again after    *)
(* one that died: the runbook's "Resume an interrupted RUNNING attempt".      *)
CampaignFairness == \A r \in Runner : WF_campaignVars(Step(r)) /\ WF_campaignVars(Call(r))

CampaignFairSpec == CampaignSpec /\ CampaignFairness
-----------------------------------------------------------------------------
RecordType ==
  [status : {"NONE", "COMPLETED", "BLOCKED", "SKIPPED", "FAILED", "RECOVERY"},
   ready : BOOLEAN, ran : BOOLEAN]

AttemptType ==
  [status : {"RUNNING", "BLOCKED", "COMPLETED_NOT_READY", "COMPLETED_READY", "FAILED"},
   again : BOOLEAN, who : Reviewer \cup {NoOperator}, first : 0..MaxDay, day : [Day -> RecordType]]

(* The tables hold records of their columns, and only the last attempt may    *)
(* still be RUNNING.                                                          *)
CampaignTypeOK ==
  /\ defined \in 0..(MaxDay + 1)
  /\ attempts \in Seq(AttemptType)
  /\ \A a \in DOMAIN attempts : attempts[a].status = "RUNNING" => a = Len(attempts)
  /\ legacyDays \in [Day -> RecordType]
  /\ life \in [Day -> {"none", "clean", "failed"}]
  /\ op \in [Day -> [out : {"none", "hard", "soft", "ready"}, reasons : BOOLEAN]]
  /\ begun \in [Day -> BOOLEAN]
  /\ paused \in BOOLEAN /\ pauses \in 0..MaxPauses /\ crashes \in 0..MaxCrashes

(* The verdict of an attempt agrees with its evidence through every crash,    *)
(* resumption and continuation: a completed attempt has no date whose latest  *)
(* result is blocked, failed or waiting for review, and a blocked one has.    *)
Settled(a) == \A d \in Day : Effective(a)[d].status \notin Blocker

VerdictMatchesEvidence ==
  \A a \in DOMAIN attempts :
    /\ attempts[a].status = "COMPLETED_NOT_READY" => Settled(a)
    /\ attempts[a].status = "BLOCKED" => ~Settled(a)

(* What a human may activate on: a READY attempt ran its books on at least    *)
(* the floor of dates, without failures on any of them, although its review   *)
(* does not look for dates that wait for review.                              *)
ReadyMeansClean ==
  \A a \in DOMAIN attempts : attempts[a].status = "COMPLETED_READY" =>
    LET eff == Effective(a) IN
    /\ Settled(a)
    /\ Cardinality({d \in Day : eff[d].ran}) >= MinDays
    /\ \A d \in Day : eff[d].ran => life[d] = "clean"

(* A verdict rests on the recorded days, and the best one on clean books.     *)
VerdictIsEarned == CampaignTypeOK /\ VerdictMatchesEvidence /\ ReadyMeansClean

(* The blocker that stops an attempt is remembered across a crash: only dates *)
(* after one are skipped, and in a continuation under stop_on_blocker no date *)
(* after one is run.                                                          *)
StopsAtBlocker ==
  \A a \in DOMAIN attempts :
    LET day == attempts[a].day
        blocks(d) == day[d].status \in Blocker
    IN /\ \A d \in Day : day[d].status = "SKIPPED" => \E e \in 1..(d - 1) : blocks(e)
       /\ a > 1 /\ StopConfig => \A d \in Recorded(day) :
            (\E e \in 1..(d - 1) : blocks(e)) => day[d].status \in {"SKIPPED", "RECOVERY"}

(* A date's lifecycle that has been saved is not run again by a resumption:   *)
(* only by a later attempt, for a date that an earlier one blocked, skipped   *)
(* or left for review.                                                        *)
RepeatNeedsReview ==
  [][\A r \in Runner :
       LET d == process[r].day IN
       process[r].pc = "life" /\ process'[r].pc = "books" /\ life[d] # "none" =>
         /\ process[r].att > 1
         /\ Effective(process[r].att - 1)[d].status
              \in {"BLOCKED", "SKIPPED", "RECOVERY"}]_campaignVars

(* A completed result of a date is never replaced, by any later attempt.      *)
CompletedKept ==
  [][\A d \in Day :
       Effective(Len(attempts))[d].status = "COMPLETED" =>
         Effective(Len(attempts))'[d] = Effective(Len(attempts))[d]]_campaignVars

(* Neither a date's mutation nor its completed result is done over by chance. *)
NothingDoneOver == RepeatNeedsReview /\ CompletedKept

(* An attempt that is RUNNING is finalised in the end, whatever its processes *)
(* left of its dates when they died.                                          *)
AttemptEnds ==
  \A a \in 1..MaxAttempt :
    (Len(attempts) >= a /\ attempts[a].status = "RUNNING")
      ~> (Len(attempts) >= a /\ attempts[a].status # "RUNNING")

(* The runbook: "A hard blocker records the blocking date".                   *)
BlockingDateKept ==
  \A a \in DOMAIN attempts : attempts[a].status = "BLOCKED" =>
    \A d \in Day : attempts[a].day[d].status = "BLOCKED" => attempts[a].first \in 1..d

(* "uncertain mutation is never silently repeated": a lifecycle that has      *)
(* begun on a date is repeated only by a later attempt.                       *)
UncertainNotRepeated ==
  [][\A r \in Runner :
       process[r].pc = "life" /\ process'[r].pc = "books" /\ begun[process[r].day]
         => process[r].att > 1]_campaignVars

(* A date recorded as completed after its books ran has no lifecycle failure  *)
(* at or before it, as _hard_blocker demands of a date that did not crash.    *)
RecoveredAsLive ==
  [][\A a \in DOMAIN attempts : \A d \in Day :
       attempts[a].day[d].status = "NONE" /\ attempts'[a].day[d].status = "COMPLETED"
         /\ attempts'[a].day[d].ran => ~FailedUpTo(d)]_campaignVars

(* The manifest that a resumption recovers is the whole one: a completed      *)
(* attempt has a result of every date.                                        *)
ManifestCovered ==
  \A a \in DOMAIN attempts : attempts[a].status \in {"COMPLETED_NOT_READY", "COMPLETED_READY"} =>
    Recorded(Effective(a)) = Day
=============================================================================
