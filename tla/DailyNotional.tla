--------------------------- MODULE DailyNotional ---------------------------
(***************************************************************************)
(* The account-wide daily notional budget of paper_books/external_broker.py *)
(* (_reserve_daily_notional and the attempt reservations it works on):     *)
(* several orders of one account share a cap per UTC date, each submission *)
(* attempt has a reservation of its own, and a call keeps the date it read *)
(* when it started, also past midnight.                                    *)
(*                                                                         *)
(* An order's events, lease and broker are kept to what the budget depends *)
(* on; ExternalOrder has their detail. A reconciliation is one step here.  *)
(***************************************************************************)
EXTENDS Naturals, FiniteSets, Functions

CONSTANTS
    Orders,         \* client_order_ids of the account
    Notional,       \* quantity * limit_price of each order
    Cap,            \* external_broker.maximum_daily_notional_usd
    Calls,          \* operator calls that may run at the same time
    NoCall,         \* the order's lease is free
    MaxAttempt,     \* external_broker.maximum_retry_attempts
    LastDay         \* bound: the last UTC date

ASSUME NotionalAssumption ==
    /\ NoCall \notin Calls
    /\ Orders # {} /\ IsFiniteSet(Orders)
    /\ Notional \in [Orders -> Nat \ {0}]
    /\ Cap \in Nat
    /\ MaxAttempt \in Nat
    /\ LastDay \in Nat

VARIABLES
    today,          \* the UTC date
    row,            \* state of each attempt reservation, by its identity
    chain,          \* state and attempt of each order's current event
    evidence,       \* unconsumed NOT_FOUND for the order's current event
    missing,        \* orders whose latest reconciliation is ORDER_MISSING_AT_BROKER
    broker,         \* each order at the broker
    wire,           \* orders with a request under way to the broker
    holder,         \* whose lease each order is under
    call            \* the operator calls

order == <<chain, evidence, missing>>
remote == <<broker, wire>>
vars == <<today, row, order, remote, holder, call>>

Days == 0 .. LastDay
Attempts == 0 .. MaxAttempt
Active == {"RESERVED", "RECONCILIATION_REQUIRED", "SUBMITTED"}
Ids == Orders \X Attempts \X Days

Idle == [pc |-> "idle", op |-> "NONE", day |-> 0, id |-> CHOOSE i \in Ids : TRUE]

TypeOK ==
    /\ today \in Days
    /\ row \in [Ids -> Active \cup {"NONE", "RELEASED", "SUPERSEDED_BY_RETRY"}]
    /\ chain \in [Orders -> [state : {"PREVIEWED", "SUBMISSION_REQUESTED", "UNKNOWN",
                                      "ACCEPTED", "REJECTED"},
                             attempt : Attempts]]
    /\ evidence \subseteq Orders
    /\ missing \subseteq Orders
    /\ broker \in [Orders -> {"NONE", "ACCEPTED", "REJECTED"}]
    /\ wire \subseteq Orders
    /\ holder \in [Orders -> Calls \cup {NoCall}]
    /\ call \in [Calls -> [pc : {"idle", "entering", "begun", "reserved", "calling", "awaiting"},
                           op : {"NONE", "SUBMIT", "RETRY", "RECONCILE"},
                           day : Days,
                           id : Ids]]

Init ==
    /\ today = 0
    /\ row = [i \in Ids |-> "NONE"]
    /\ chain = [o \in Orders |-> [state |-> "PREVIEWED", attempt |-> 0]]
    /\ evidence = {}
    /\ missing = {}
    /\ broker = [o \in Orders |-> "NONE"]
    /\ wire = {}
    /\ holder = [o \in Orders |-> NoCall]
    /\ call = [c \in Calls |-> Idle]

-----------------------------------------------------------------------------
(* The reservation rows.                                                   *)

\* load_active_attempt_reservation, and the rows of one lineage.
ActiveOf(o, a) == {i \in Ids : i[1] = o /\ i[2] = a /\ row[i] \in Active}

\* Mutant: an ambiguous attempt no longer counts.
CountsIfCertain(state) == state \in {"RESERVED", "SUBMITTED"}

\* sum_attempt_reservations_by_date counts a row in this state.
Counts(state) == state \notin {"NONE", "RELEASED", "SUPERSEDED_BY_RETRY"}

\* The notional a row reserves is its order's.
Cost == [i \in Ids |-> Notional[i[1]]]

Reserved(rows, day) == SumFunctionOnSet(Cost, {i \in Ids : i[3] = day /\ Counts(rows[i])})

\* The cap check and the insert of _reserve_daily_notional_locked, on rows in
\* which a retry has already superseded the prior attempt.
Insert(id, rows) ==
    /\ Reserved(rows, id[3]) + Notional[id[1]] <= Cap
    /\ row' = [rows EXCEPT ![id] = "RESERVED"]

\* Mutant: a lineage is looked up by its full identity only.
ReserveAttemptByIdentity(id, rows, found) ==
    IF row[id] # "NONE"
      THEN found = id /\ UNCHANGED row
      ELSE found = id /\ Insert(id, rows)

\* _reserve_daily_notional_locked: reuse this identity, or the unstarted
\* reservation of an earlier date, else insert.  Not enabled where it raises.
ReserveAttempt(id, rows, found) ==
    IF row[id] # "NONE"
      THEN found = id /\ UNCHANGED row
      ELSE IF ActiveOf(id[1], id[2]) # {}
             THEN /\ found \in ActiveOf(id[1], id[2])
                  /\ row[found] = "RESERVED"
                  /\ UNCHANGED row
             ELSE found = id /\ Insert(id, rows)

\* The prior attempt, superseded where its state allows.
Superseded(o) ==
    [i \in Ids |-> IF i \in ActiveOf(o, chain[o].attempt) THEN "SUPERSEDED_BY_RETRY" ELSE row[i]]

Supersedable(o) ==
    \E i \in ActiveOf(o, chain[o].attempt) : row[i] \in {"RESERVED", "RECONCILIATION_REQUIRED"}

\* _settle_daily_reservation, by reservation_id.
Settle(id, state) ==
    /\ row[id] \in {"RESERVED", "RECONCILIATION_REQUIRED", state}
    /\ row' = [row EXCEPT ![id] = state]

\* Mutants: an order the broker does not know was never submitted, and the
\* event's state is stored as the reservation's.
RepairFreeing(o, state) ==
    \E i \in ActiveOf(o, chain[o].attempt) :
        row' = [row EXCEPT ![i] = IF state = "SUBMITTED" THEN state ELSE "RELEASED"]

\* _reconcile_attempt_reservation: an active row is moved on but never back
\* from SUBMITTED; without one, nothing is left to repair.  Not enabled where
\* it raises, for the row ended otherwise.
Repair(o, state) ==
    LET lineage == {i \in Ids : i[1] = o /\ i[2] = chain[o].attempt}
    IN \/ \E i \in ActiveOf(o, chain[o].attempt) :
            row' = [row EXCEPT ![i] = IF @ = "SUBMITTED" THEN @ ELSE state]
       \/ /\ ActiveOf(o, chain[o].attempt) = {}
          /\ \/ \E i \in lineage : row[i] = state
             \/ chain[o].state = "PREVIEWED" /\ \A i \in lineage : row[i] = "NONE"
          /\ UNCHANGED row

-----------------------------------------------------------------------------
(* The calls.                                                              *)

Owner(c) == call[c].id[1]
Fenced(c) == holder[Owner(c)] = c
At(c, op, label) == call[c].op = op /\ call[c].pc = label
Goto(c, label) == call' = [call EXCEPT ![c].pc = label]

\* Back to idle, giving up the lease if it is still this call's.
End(c) ==
    /\ holder' = [holder EXCEPT ![Owner(c)] = IF @ = c THEN NoCall ELSE @]
    /\ call' = [call EXCEPT ![c] = Idle]

\* The call reads its `now`, the date it will reserve against, and a
\* submission checks that no order of the book is missing at the broker.
Start(c, o) ==
    /\ call[c].pc = "idle"
    /\ \E op \in {"SUBMIT", "RETRY", "RECONCILE"} :
         /\ op = "SUBMIT" => missing = {}
         /\ call' = [call EXCEPT ![c] =
              [pc |-> "entering", op |-> op, day |-> today, id |-> <<o, 0, today>>]]
    /\ UNCHANGED <<today, row, order, remote, holder>>

\* The lease is free, or a call that started no later let it expire; then the
\* operation's own checks under the lease.
Begin(c) ==
    LET o == Owner(c)
    IN /\ call[c].pc = "entering"
       /\ holder[o] # NoCall => call[holder[o]].day <= call[c].day
       /\ call[c].op = "SUBMIT" => chain[o].state = "PREVIEWED"
       /\ call[c].op = "RETRY" => /\ chain[o].state = "UNKNOWN"
                                  /\ o \in evidence
                                  /\ missing \subseteq {o}
                                  /\ chain[o].attempt < MaxAttempt
       /\ holder' = [holder EXCEPT ![o] = c]
       /\ Goto(c, "begun")
       /\ UNCHANGED <<today, row, order, remote>>

\* submit_external_paper_order: the reservation, not fenced by the lease.
Reserve(c) ==
    /\ At(c, "SUBMIT", "begun")
    /\ \E found \in Ids :
         /\ ReserveAttempt(call[c].id, row, found)
         /\ call' = [call EXCEPT ![c].pc = "reserved", ![c].id = found]
    /\ UNCHANGED <<today, order, remote, holder>>

Checkpoint(c) ==
    LET o == Owner(c)
    IN /\ At(c, "SUBMIT", "reserved")
       /\ Fenced(c)
       /\ chain[o].state = "PREVIEWED"
       /\ chain' = [chain EXCEPT ![o].state = "SUBMISSION_REQUESTED"]
       /\ Goto(c, "calling")
       /\ evidence' = evidence \ {o}
       /\ UNCHANGED <<today, row, missing, remote, holder>>

\* _prepare_external_retry_attempt: one fenced transaction.
PrepareRetry(c) ==
    LET o == Owner(c)
        next == chain[o].attempt + 1
        id == <<o, next, call[c].day>>
    IN /\ At(c, "RETRY", "begun")
       /\ Fenced(c)
       /\ Supersedable(o)
       /\ ReserveAttempt(id, Superseded(o), id)
       /\ chain' = [chain EXCEPT ![o] = [state |-> "SUBMISSION_REQUESTED", attempt |-> next]]
       /\ evidence' = evidence \ {o}
       /\ call' = [call EXCEPT ![c].pc = "calling", ![c].id = id]
       /\ UNCHANGED <<today, missing, remote, holder>>

CallBroker(c) ==
    /\ call[c].pc = "calling"
    /\ wire' = wire \cup {Owner(c)}
    /\ Goto(c, "awaiting")
    /\ UNCHANGED <<today, row, order, broker, holder>>

\* The broker's answer, or an ambiguous outcome: event and reservation in one
\* fenced transaction (_submit_checkpointed_attempt, _record_unknown).  A
\* definite answer is followed by a reconciliation that finds the order.
Answer(c) ==
    LET o == Owner(c)
    IN /\ call[c].pc = "awaiting"
       /\ Fenced(c)
       /\ \/ /\ broker[o] # "NONE"
             /\ chain' = [chain EXCEPT ![o].state = broker[o]]
             /\ Settle(call[c].id, IF broker[o] = "REJECTED" THEN "RELEASED" ELSE "SUBMITTED")
             /\ missing' = missing \ {o}
          \/ /\ chain' = [chain EXCEPT ![o].state = "UNKNOWN"]
             /\ Settle(call[c].id, "RECONCILIATION_REQUIRED")
             /\ UNCHANGED missing
       /\ evidence' = evidence \ {o}
       /\ End(c)
       /\ UNCHANGED <<today, remote>>

\* _run_reconciliation: a lookup, its evidence, the event and the repair.
Reconcile(c) ==
    LET o == Owner(c)
        seen == broker[o]
        ambiguous == chain[o].state \in {"SUBMISSION_REQUESTED", "UNKNOWN"}
    IN /\ At(c, "RECONCILE", "begun")
       /\ Fenced(c)
       /\ chain' = [chain EXCEPT ![o].state =
                       IF ~ambiguous THEN @ ELSE IF seen = "NONE" THEN "UNKNOWN" ELSE seen]
       /\ evidence' = IF seen = "NONE" THEN evidence \cup {o} ELSE evidence \ {o}
       /\ missing' = IF seen = "NONE" THEN missing \cup {o} ELSE missing \ {o}
       /\ Repair(o, CASE seen = "NONE" -> "RECONCILIATION_REQUIRED"
                      [] seen = "REJECTED" -> "RELEASED"
                      [] OTHER -> "SUBMITTED")
       /\ End(c)
       /\ UNCHANGED <<today, remote>>

\* A refusal, a lost lease, any exception, or a crash whose lease expires.
Abort(c) ==
    /\ call[c].pc # "idle"
    /\ End(c)
    /\ UNCHANGED <<today, row, order, remote>>

-----------------------------------------------------------------------------
\* One broker order per client_order_id; requests may be lost.
Deliver(o) ==
    /\ o \in wire
    /\ wire' = wire \ {o}
    /\ broker' \in {[broker EXCEPT ![o] = IF @ = "NONE" THEN s ELSE @] :
                      s \in {"NONE", "ACCEPTED", "REJECTED"}}
    /\ UNCHANGED <<today, row, order, holder, call>>

Midnight ==
    /\ today < LastDay
    /\ today' = today + 1
    /\ UNCHANGED <<row, order, remote, holder, call>>

Next ==
    \/ \E c \in Calls :
         \/ \E o \in Orders : Start(c, o)
         \/ Begin(c) \/ Reserve(c) \/ Checkpoint(c) \/ PrepareRetry(c)
         \/ CallBroker(c) \/ Answer(c) \/ Reconcile(c) \/ Abort(c)
    \/ \E o \in Orders : Deliver(o)
    \/ Midnight

Spec == Init /\ [][Next]_vars

-----------------------------------------------------------------------------
(* Properties.                                                             *)

\* Every attempt that is reserved, ambiguous or accepted counts, and no mix of
\* concurrent submissions, retries and repairs takes a date over the cap
\* (the check-and-insert of _reserve_daily_notional_locked).
CapRespected ==
    \A day \in Days :
        SumFunctionOnSet(Cost, {i \in Ids : i[3] = day /\ row[i] \in Active}) <= Cap

\* An order the broker holds, or may yet receive, counts against some date.
ExposureCounted ==
    \A o \in Orders :
        broker[o] = "ACCEPTED" \/ (broker[o] = "NONE" /\ o \in wire) =>
            \E i \in Ids : i[1] = o /\ row[i] \in Active

\* A lineage has one active reservation, whatever dates the calls that
\* reserve for it started on (load_active_attempt_reservation raises on two).
OneActivePerLineage ==
    \A o \in Orders, a \in Attempts : Cardinality(ActiveOf(o, a)) <= 1

\* Whatever may still execute counts, and counts once.
ExposureCountedOnce == TypeOK /\ ExposureCounted /\ OneActivePerLineage

\* Budget is given back by a rejection, or by a retry that charges the date of
\* its own call in the same step; a new day alone frees nothing.
FreedOnlyByOutcome ==
    [][\A i \in Ids :
          row[i] \in Active /\ row'[i] \notin Active =>
             \/ row'[i] = "RELEASED" /\ broker[i[1]] = "REJECTED"
             \/ /\ row'[i] = "SUPERSEDED_BY_RETRY"
                /\ \E c \in Calls : row'[<<i[1], i[2] + 1, call[c].day>>] = "RESERVED"]_vars

-----------------------------------------------------------------------------
(* A claim of the documentation that the code does not meet.               *)

\* "proven pre-acceptance rejection releases it": once a rejection has been
\* recorded and every call has returned, no reservation of the order counts
\* against the current date (Reserve is not fenced by the order lease).
RejectionReleases ==
    \A o \in Orders :
        chain[o].state = "REJECTED" /\ (\A c \in Calls : call[c].pc = "idle") =>
            \A i \in ActiveOf(o, chain[o].attempt) : i[3] # today
=============================================================================
