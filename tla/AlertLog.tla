------------------------------- MODULE AlertLog -------------------------------
(* The operational alerts of shadow operations (shadow/alerts.py, raise_alert, *)
(* over storage/shadow_alerts_repositories.py): a condition that is reported   *)
(* again within a window is counted on the row it has, otherwise it gets a row *)
(* and is delivered to every sink.  Every statement commits by itself, and     *)
(* nothing keeps two reports apart.                                            *)
EXTENDS Naturals, Sequences, FiniteSets, Functions

CONSTANTS
  Report,       \* calls of raise_alert; a row has the name of the call that made it
  Condition,    \* what compute_dedup_key tells apart
  NoReport,
  MaxSinks,     \* bound: the sinks a call is given, tried one after another
  MaxTries,     \* max_delivery_attempts
  DedupWindow,  \* dedup_window_seconds
  MaxInstant    \* bound: the clock

ASSUME AlertAssumption ==
  /\ NoReport \notin Report /\ IsFiniteSet(Report)
  /\ {MaxSinks, DedupWindow, MaxInstant} \subseteq Nat /\ MaxTries \in Nat \ {0}

VARIABLES
  instant,      \* the clock
  report,       \* the calls
  alert,        \* the rows of shadow_alerts, and the calls that have none
  delivered     \* the rows of shadow_alert_deliveries

alertVars == <<instant, report, alert, delivered>>

Unresolved == MaxInstant + 1
Absent == [stored |-> FALSE, suppressed |-> 0, resolved |-> Unresolved]

AlertTypeOK ==
  /\ instant \in 0..MaxInstant
  /\ report \in [Report -> [pc : {"idle", "look", "count", "store", "send", "record",
                                  "told", "counted", "dead"},
                            about : Condition, at : 0..MaxInstant,
                            original : Report \cup {NoReport},
                            sinks : 0..MaxSinks, sink : 0..MaxSinks,
                            tries : UNION {[1..n -> BOOLEAN] : n \in 0..MaxTries},
                            recorded : 0..MaxTries]]
  /\ alert \in [Report -> [stored : BOOLEAN, suppressed : 0..Cardinality(Report),
                           resolved : 0..Unresolved]]
  /\ delivered \subseteq
       [of : Report, sink : 1..MaxSinks, try : 1..MaxTries, success : BOOLEAN]

AlertInit ==
  /\ instant = 0
  /\ report = [a \in Report |-> [pc |-> "idle", about |-> CHOOSE k \in Condition : TRUE, at |-> 0,
                                 original |-> NoReport, sinks |-> 0, sink |-> 0, tries |-> <<>>, recorded |-> 0]]
  /\ alert = [a \in Report |-> Absent]
  /\ delivered = {}

Onto(a, pc) == report' = [report EXCEPT ![a].pc = pc]

(* The call is over, one way or the other, and its locals are gone.           *)
Over(a, pc) == [report[a] EXCEPT !.pc = pc, !.sink = 0, !.tries = <<>>, !.recorded = 0]

Stored == {a \in Report : alert[a].stored}

-----------------------------------------------------------------------------
(* raise_alert.                                                               *)

(* The alert is made and the clock is read.                                   *)
RaiseAlert(a, k, n) ==
  /\ report[a].pc = "idle"
  /\ report' = [report EXCEPT ![a].pc = "look", ![a].about = k, ![a].at = instant,
                               ![a].sinks = n]
  /\ UNCHANGED <<instant, alert, delivered>>

(* A mutant: any alert within the window will do.                             *)
MutRecent(a) == {b \in Stored : report[b].at + DedupWindow >= report[a].at}

(* find_recent_alerts_by_dedup_key: whether resolved or not.                  *)
Recent(a) ==
  {b \in Stored : report[b].about = report[a].about /\ report[b].at + DedupWindow >= report[a].at}

Look(a) ==
  /\ report[a].pc = "look"
  /\ \/ Recent(a) = {} /\ Onto(a, "store")
     \/ \E b \in Recent(a) :
          /\ \A c \in Recent(a) : report[c].at <= report[b].at
          /\ report' = [report EXCEPT ![a].pc = "count", ![a].original = b]
  /\ UNCHANGED <<instant, alert, delivered>>

(* increment_alert_suppressed_count, and nothing is delivered.                *)
Count(a) ==
  /\ report[a].pc = "count"
  /\ alert' = [alert EXCEPT ![report[a].original].suppressed = @ + 1]
  /\ Onto(a, "counted")
  /\ UNCHANGED <<instant, delivered>>

NextSink(a) ==
  IF report[a].sink < report[a].sinks
    THEN [report[a] EXCEPT !.pc = "send", !.sink = @ + 1, !.tries = <<>>, !.recorded = 0]
    ELSE Over(a, "told")

(* insert_alert, before any sink is tried.                                    *)
Store(a) ==
  /\ report[a].pc = "store"
  /\ alert' = [alert EXCEPT ![a].stored = TRUE]
  /\ report' = [report EXCEPT ![a] = NextSink(a)]
  /\ UNCHANGED <<instant, delivered>>

(* _deliver_with_bounded_retry: a sink is tried until it succeeds or for the  *)
(* last time; one that raises has failed.                                     *)
Send(a) ==
  /\ report[a].pc = "send"
  /\ \E success \in BOOLEAN :
       LET tries == Append(report[a].tries, success) IN
       report' = [report EXCEPT ![a].tries = tries,
                    ![a].pc = IF success \/ Len(tries) = MaxTries THEN "record" ELSE "send"]
  /\ UNCHANGED <<instant, alert, delivered>>

(* insert_alert_delivery, for every attempt, after the last of them.          *)
Record(a) ==
  LET n == report[a].recorded + 1 IN
  /\ report[a].pc = "record"
  /\ delivered' = delivered \cup
       {[of |-> a, sink |-> report[a].sink, try |-> n, success |-> report[a].tries[n]]}
  /\ report' = [report EXCEPT ![a] = IF n = Len(@.tries) THEN NextSink(a) ELSE [@ EXCEPT !.recorded = n]]
  /\ UNCHANGED <<instant, alert>>

(* The process dies, or a statement fails.                                    *)
Die(a) ==
  /\ report[a].pc \in {"look", "count", "store", "send", "record"}
  /\ report' = [report EXCEPT ![a] = Over(a, "dead")]
  /\ UNCHANGED <<instant, alert, delivered>>

(* resolve_alert, by an operator and once; the condition may persist.         *)
Resolve(b) ==
  /\ b \in Stored /\ alert[b].resolved = Unresolved
  /\ alert' = [alert EXCEPT ![b].resolved = instant]
  /\ UNCHANGED <<instant, report, delivered>>

Pass ==
  /\ instant < MaxInstant
  /\ instant' = instant + 1
  /\ UNCHANGED <<report, alert, delivered>>

AlertNext ==
  \/ \E a \in Report :
       \/ \E k \in Condition, n \in 0..MaxSinks : RaiseAlert(a, k, n)
       \/ Look(a) \/ Count(a) \/ Store(a) \/ Send(a) \/ Record(a)
       \/ Die(a) \/ Resolve(a)
  \/ Pass

AlertSpec == AlertInit /\ [][AlertNext]_alertVars

-----------------------------------------------------------------------------
(* Properties.                                                                *)

About(k) == {a \in Report : report[a].about = k}

(* "it is never a silent drop": of every condition the rows count each report *)
(* that made none, also when reports overlap, and such a report has a row of  *)
(* its own condition that is no older than the window.                        *)
EveryReportCounts ==
  /\ \A k \in Condition :
       SumFunctionOnSet([b \in Report |-> alert[b].suppressed], Stored \cap About(k))
         = Cardinality({a \in About(k) : report[a].pc = "counted"})
  /\ \A a \in Report : report[a].pc = "counted" =>
       /\ report[a].original \in Stored \cap About(report[a].about)
       /\ report[report[a].original].at + DedupWindow >= report[a].at

Tries(a, s) == {d \in delivered : d.of = a /\ d.sink = s}

(* The deliveries of a row tell a true story: for each sink they are its      *)
(* attempts from the first on, nothing follows a success, and once the report *)
(* is done every sink has succeeded or was tried as often as allowed.         *)
DeliveriesTell ==
  \A a \in Report : \A s \in 1..report[a].sinks :
    LET last == Cardinality(Tries(a, s)) IN
    /\ {d.try : d \in Tries(a, s)} = 1..last
    /\ \A d \in Tries(a, s) : a \in Stored /\ (d.success => d.try = last)
    /\ report[a].pc = "told" => last = MaxTries \/ \E d \in Tries(a, s) : d.success

NothingIsLost == EveryReportCounts /\ DeliveriesTell

(* "Duplicate alerts deduplicate without hiding distinct violations": what is *)
(* reported after an operator resolved the row is counted on that row within  *)
(* the window, and those who ask for unresolved rows see nothing.             *)
RecurrenceIsSeen ==
  \A a \in Report : report[a].pc = "counted" =>
    \E b \in Stored \cap About(report[a].about) :
      alert[b].resolved = Unresolved \/ alert[b].resolved > report[a].at

(* Two reports that overlap get a row each, and after a crash between the row *)
(* and its delivery the condition is reported as known and never delivered.   *)
OneRowPerWindow ==
  \A a, b \in Stored :
    a # b /\ report[a].about = report[b].about /\ report[a].at <= report[b].at =>
      report[a].at + DedupWindow < report[b].at
KnownIsDelivered ==
  \A a \in Report : report[a].pc = "counted" /\ report[report[a].original].pc = "dead" =>
    Tries(report[a].original, report[report[a].original].sinks) # {}
=============================================================================
