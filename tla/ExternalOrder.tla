--------------------------- MODULE ExternalOrder ---------------------------
(***************************************************************************)
(* One external paper order of paper_books/external_broker.py: its durable *)
(* rows (event chain, latest lookup, attempt reservations, cash or share   *)
(* hold, booked fills, latest reconciliation), the operator calls that     *)
(* work on it concurrently, and the broker behind the runtime client.      *)
(*                                                                         *)
(* A process is one operator call at a time.  Its steps are cut where the  *)
(* code gives up atomicity: between two transactions, and around every     *)
(* call of the runtime.  The order-scope lease is used by what OrderLease  *)
(* establishes: a fenced write happens only while the call still holds the *)
(* latest grant.  heartbeat_or_raise is left out: it only makes a displaced*)
(* call stop earlier than at its next fenced write.                        *)
(***************************************************************************)
EXTENDS Naturals, FiniteSets, FiniteSetsExt

CONSTANTS
    Procs,          \* operator calls that may run at the same time
    Ops,            \* the operations they may be
    Nobody,         \* the lease is free, or its owner crashed and it expires
    MaxAttempt,     \* external_broker.maximum_retry_attempts
    Quantity,       \* approved quantity of the frozen intent
    LimitPrice,     \* its limit price; 1 for a SELL, whose hold is of shares
    Sides,          \* the sides the intent may have
    Spare,          \* shares the book holds beyond those a SELL is for
    Cumulative,     \* the runtime reports one cumulative fill, not activities
    MaxFaults       \* bound: crashes, takeovers, failed reads, exceptions, pauses
                    \* and what expires

ASSUME OrderAssumption ==
    /\ Nobody \notin Procs
    /\ Ops \subseteq {"PREVIEW", "SUBMIT", "RETRY", "RECOVER", "RECONCILE", "CANCEL", "REFRESH"}
    /\ MaxAttempt \in Nat
    /\ Quantity \in Nat \ {0}
    /\ LimitPrice \in Nat \ {0}
    /\ Sides \subseteq {"BUY", "SELL"}
    /\ "SELL" \in Sides => LimitPrice = 1
    /\ Spare \in Nat
    /\ Cumulative \in BOOLEAN
    /\ MaxFaults \in Nat

VARIABLES
    chain,          \* state and attempt_number of the current order event
    preview,        \* an APPROVED, unexpired preview of the payload exists
    namespace,      \* paper_order_execution_claims
    lookup,         \* the latest broker lookup
    reservation,    \* attempt reservation of the daily notional, by attempt
    hold,           \* what remains of the order's cash or share reservation
    held,           \* the order's reservation event exists
    booked,         \* fill identities booked in the local ledgers
    applied,        \* quantity those fills add up to
    orderStatus,    \* paper_book_orders.status
    recon,          \* the latest reconciliation of this order's scope
    holder,         \* whom the order lease was granted to last
    proc,           \* the operator calls
    broker,         \* the order at the broker
    inflight,       \* submit requests sent and not yet delivered or lost
    side,           \* the intent's side
    fresh,          \* it is no older than risk.reject_stale_market_price_seconds
    barred,         \* a pause, a CRITICAL alert or a critical reconciliation of
                    \* another order or of the book is in force
    calls,          \* history: submit requests sent, by attempt
    faults          \* misfortunes so far

local == <<chain, preview, namespace, lookup, reservation, hold, held,
           booked, applied, orderStatus, recon>>
admission == <<side, fresh, barred>>
world == <<broker, inflight, admission>>
vars == <<local, holder, proc, world, calls, faults>>

-----------------------------------------------------------------------------
Attempts == 0 .. MaxAttempt
Terminal == {"FILLED", "CANCELLED", "REJECTED", "EXPIRED"}
Working == {"SUBMITTED", "PARTIALLY_FILLED", "CANCEL_REQUESTED"}
OrderStates == Terminal \cup Working \cup
    {"NOT_SUBMITTED", "PREVIEWED", "SUBMISSION_REQUESTED",
     "UNKNOWN_REQUIRES_RECONCILIATION"}
Unknown == "UNKNOWN_REQUIRES_RECONCILIATION"

Transitions ==
    [s \in OrderStates |->
       CASE s = "NOT_SUBMITTED" -> {"PREVIEWED"}
         [] s = "PREVIEWED" -> {"PREVIEWED", "SUBMISSION_REQUESTED"}
         [] s = "SUBMISSION_REQUESTED" ->
              Terminal \cup {"SUBMITTED", "PARTIALLY_FILLED", Unknown}
         [] s = "SUBMITTED" -> Terminal \cup Working \cup {Unknown}
         [] s = "PARTIALLY_FILLED" ->
              {"PARTIALLY_FILLED", "FILLED", "CANCEL_REQUESTED", "CANCELLED", Unknown}
         [] s = "CANCEL_REQUESTED" ->
              {"CANCEL_REQUESTED", "CANCELLED", "PARTIALLY_FILLED", "FILLED", Unknown}
         [] s = Unknown ->
              Terminal \cup Working \cup {Unknown, "SUBMISSION_REQUESTED"}
         [] OTHER -> {}]

ActiveReservation == {"RESERVED", "RECONCILIATION_REQUIRED", "SUBMITTED"}
ReservationStates == ActiveReservation \cup {"NONE", "RELEASED", "SUPERSEDED_BY_RETRY"}

NoOrder == [status |-> "NONE", filled |-> 0]
Snapshots == [status : Terminal \cup Working \cup {"NONE", "ERROR", "MALFORMED"},
              filled : 0 .. Quantity]

Idle == [pc |-> "idle", op |-> "NONE", attempt |-> 0, stranded |-> FALSE,
         seen |-> NoOrder, report |-> 0, total |-> 0]

Labels == {"idle", "entering", "held", "previewing", "reserving", "preparing",
           "checkpoint", "calling", "awaiting", "answered", "ambiguous",
           "cancelling", "cancelSent", "cancelAnswered", "cancelFailed",
           "sweep", "booking", "settling", "closing",
           "reconcile", "lookup", "looked", "evidence", "synchronise",
           "bridging", "verdict", "failed", "leaving"}

TypeOK ==
    /\ chain \in [state : OrderStates, attempt : Attempts]
    /\ preview \in BOOLEAN
    /\ namespace \in {"UNCLAIMED", "EXTERNAL_PAPER", "LOCAL_SIMULATED"}
    /\ lookup \in [result : {"NONE", "FOUND", "NOT_FOUND"},
                   authoritative : BOOLEAN, current : BOOLEAN]
    /\ reservation \in [Attempts -> ReservationStates]
    /\ hold \in 0 .. Quantity * LimitPrice
    /\ held \in BOOLEAN
    /\ booked \subseteq 1 .. Quantity
    /\ applied \in Nat
    /\ orderStatus \in OrderStates \cup {"PENDING_SUBMISSION"}
    /\ recon \in {"NONE", "MATCHED", "ORDER_MISSING_AT_BROKER", "CRITICAL"}
    /\ holder \in Procs \cup {Nobody}
    /\ proc \in [Procs -> [pc : Labels, op : Ops \cup {"NONE", "RECONCILE"},
                           attempt : Attempts, stranded : BOOLEAN,
                           seen : Snapshots, report : 0 .. Quantity,
                           total : 0 .. Quantity]]
    /\ broker \in [status : Terminal \cup Working \cup {"NONE"}, filled : 0 .. Quantity]
    /\ inflight \subseteq Attempts
    /\ side \in Sides /\ fresh \in BOOLEAN /\ barred \in BOOLEAN
    /\ calls \in [Attempts -> Nat]
    /\ faults \in 0 .. MaxFaults

Init ==
    /\ chain = [state |-> "NOT_SUBMITTED", attempt |-> 0]
    /\ preview = FALSE
    /\ namespace = "UNCLAIMED"
    /\ lookup = [result |-> "NONE", authoritative |-> FALSE, current |-> FALSE]
    /\ reservation = [a \in Attempts |-> "NONE"]
    /\ hold = 0
    /\ held = FALSE
    /\ booked = {}
    /\ applied = 0
    /\ orderStatus = "PENDING_SUBMISSION"
    /\ recon = "NONE"
    /\ holder = Nobody
    /\ proc = [p \in Procs |-> Idle]
    /\ broker = NoOrder
    /\ inflight = {}
    /\ side \in Sides /\ fresh = TRUE /\ barred = FALSE
    /\ calls = [a \in Attempts |-> 0]
    /\ faults = 0

-----------------------------------------------------------------------------
(* Helpers.                                                                *)

At(p, label) == proc[p].pc = label
Goto(p, label) == proc' = [proc EXCEPT ![p].pc = label]

\* The call is over but for its `finally`, or for persisting its failure.
Exit(p, label) == proc' = [proc EXCEPT ![p] = [Idle EXCEPT !.pc = label]]

\* Mutant: protected writes are not fenced.
Unfenced(p) == TRUE

\* OrderLeaseHandle.verify, under the write lock of fenced_write.
Fenced(p) == holder = p

\* _append_event: a later event outdates the evidence bound to this one.
AppendEvent(state, attempt) ==
    /\ state \in Transitions[chain.state]
    /\ chain' = [state |-> state, attempt |-> attempt]
    /\ lookup' = [lookup EXCEPT !.current = FALSE]

\* reserve_for_order, reserve_shares_for_sell: once per intent.
ReserveOrder ==
    /\ held' = TRUE
    /\ hold' = IF held THEN hold ELSE Quantity * LimitPrice

\* Mutant: an ambiguous outcome counts as accepted.
SettledAcceptingUnknown(current, status) ==
    IF status = "REJECTED" THEN "RELEASED" ELSE "SUBMITTED"

\* _settle_daily_reservation over transition_attempt_reservation_state.
Settled(current, status) ==
    CASE status = Unknown -> "RECONCILIATION_REQUIRED"
      [] status = "REJECTED" -> "RELEASED"
      [] OTHER -> "SUBMITTED"

Settle(attempt, status) ==
    LET target == Settled(reservation[attempt], status)
        sources == IF status = Unknown THEN {"RESERVED"}
                                       ELSE {"RESERVED", "RECONCILIATION_REQUIRED"}
    IN /\ reservation[attempt] \in sources \cup {target}
       /\ reservation' = [reservation EXCEPT ![attempt] = target]

\* _reservation_target_for_broker_state.
RepairTarget(status) ==
    CASE status = "REJECTED" -> "RELEASED"
      [] status \in {"NONE", "ERROR", "MALFORMED"} -> "RECONCILIATION_REQUIRED"
      [] OTHER -> "SUBMITTED"

\* _reconcile_attempt_reservation: repair without downgrading exposure; any
\* other target conflicts with a reservation that has ended.
Unsettled(r) == r \in {"RESERVED", "RECONCILIATION_REQUIRED"}

Repairable(target) ==
    LET r == reservation[chain.attempt]
    IN \/ Unsettled(r)
       \/ r \in {"SUBMITTED", target}
       \/ r = "NONE" /\ chain.state \in {"NOT_SUBMITTED", "PREVIEWED"}

Repair(target) ==
    /\ Repairable(target)
    /\ reservation' = [reservation EXCEPT ![chain.attempt] =
                          IF Unsettled(@) THEN target ELSE @]

\* _safety_checks: the latest reconciliation of the order is critical.
Blocked == recon \in {"ORDER_MISSING_AT_BROKER", "CRITICAL"}

\* A SELL asks for more than the book's available shares, which do not include
\* what the order itself has reserved or sold.
Oversold == side = "SELL" /\ applied + hold > Spare

\* _intent: not claimed or ended elsewhere, not too old, not oversold.
Eligible ==
    /\ namespace # "LOCAL_SIMULATED"
    /\ orderStatus \notin Terminal
    /\ fresh
    /\ ~Oversold

\* What is checked before the lease; a retry's _safety_checks come after it.
MayEnter(o) ==
    CASE o \in {"PREVIEW", "SUBMIT"} -> Eligible /\ ~Blocked /\ ~barred
      [] o \in {"RETRY", "REFRESH"} -> Eligible
      [] o = "RECOVER" -> chain.state = "SUBMISSION_REQUESTED"
      [] OTHER -> TRUE

\* Authoritative NOT_FOUND bound to the current event; consuming it appends
\* an event in the same transaction, so a consumed lookup is never current.
RetryEvidence ==
    /\ chain.state = Unknown
    /\ lookup.result = "NOT_FOUND"
    /\ lookup.authoritative
    /\ lookup.current

RetriesLeft == chain.attempt < MaxAttempt

\* Mutant: confirmed NOT_FOUND evidence does not exempt the retry.
RetrySafeUnlessBlocked == ~Blocked /\ ~barred

\* _safety_checks with allow_confirmed_not_found_retry.
RetrySafe == recon # "CRITICAL" /\ ~barred

\* What each operation requires once it holds the lease.
MayBegin(o) ==
    CASE o = "PREVIEW" -> /\ chain.state \in {"NOT_SUBMITTED", "PREVIEWED"}
                          /\ namespace # "LOCAL_SIMULATED"
      [] o = "SUBMIT" -> chain.state = "PREVIEWED" /\ preview
      [] o = "RETRY" -> /\ RetryEvidence
                        /\ RetrySafe
                        /\ RetriesLeft
                        /\ preview
                        /\ reservation[chain.attempt] \in ActiveReservation
      [] o = "REFRESH" -> RetryEvidence /\ RetriesLeft
      [] o = "RECOVER" -> chain.state = "SUBMISSION_REQUESTED"
      [] o = "RECONCILE" -> TRUE
      [] OTHER -> /\ chain.state # Unknown
                  /\ "CANCEL_REQUESTED" \in Transitions[chain.state]

\* Fill identities the last list_order_fills reported and not yet booked: a
\* cumulative report is one identity per total, activities are one each.
Unbooked(p) ==
    IF Cumulative
      THEN {f \in {proc[p].report} : f > proc[p].total} \ booked
      ELSE (1 .. proc[p].report) \ booked

FillSize(p, fill) == IF Cumulative THEN fill - proc[p].total ELSE 1

Live == broker.status \in Working

-----------------------------------------------------------------------------
(* The lease around a call, and the ways a call ends early.                *)

\* The call is made; what it checks before the lease is checked here.
Enter(p, o) ==
    /\ At(p, "idle")
    /\ MayEnter(o)
    /\ proc' = [proc EXCEPT ![p].pc = "entering", ![p].op = o]
    /\ UNCHANGED <<local, holder, world, calls, faults>>

\* _order_lease: granted when nobody holds it.
Acquire(p) ==
    /\ At(p, "entering")
    /\ holder = Nobody
    /\ holder' = p
    /\ Goto(p, "held")
    /\ UNCHANGED <<local, world, calls, faults>>

\* Granted because a call that is still running let it expire.
TakeOver(p) ==
    /\ At(p, "entering")
    /\ holder # Nobody
    /\ faults < MaxFaults
    /\ faults' = faults + 1
    /\ holder' = p
    /\ Goto(p, "held")
    /\ UNCHANGED <<local, world, calls>>

\* ORDER_LEASE_HELD, or the operation's own checks fail under the lease.
Refuse(p) ==
    /\ \/ At(p, "entering") /\ holder # Nobody
       \/ At(p, "held") /\ ~MayBegin(proc[p].op)
    /\ Exit(p, "leaving")
    /\ UNCHANGED <<local, holder, world, calls, faults>>

\* A heartbeat or a fencing check fails: ORDER_LEASE_LOST.
Displaced(p) ==
    /\ proc[p].pc \notin {"idle", "entering", "leaving"}
    /\ ~Fenced(p)
    /\ Exit(p, "leaving")
    /\ UNCHANGED <<local, holder, world, calls, faults>>

\* A storage or runtime error, or a response that fails validation.  A fill
\* sweep that fails inside a reconciliation is a critical status of it, any
\* other exception there is caught by _reconcile_locked; the sweep of a
\* submission or a cancellation persists its failure before it is raised.
Fail(p) ==
    LET sweeping == proc[p].pc \in {"sweep", "booking", "settling"}
        reconciling == proc[p].op = "RECONCILE" \/ At(p, "reconcile")
    IN /\ proc[p].pc \notin {"idle", "entering", "awaiting", "cancelSent", "leaving"}
       /\ faults < MaxFaults
       /\ faults' = faults + 1
       /\ IF sweeping /\ reconciling
            THEN proc' = [proc EXCEPT ![p].pc = "bridging", ![p].seen.status = "ERROR"]
            ELSE Exit(p, IF sweeping \/ reconciling THEN "failed" ELSE "leaving")
       /\ UNCHANGED <<local, holder, world, calls>>

\* _persist_reconciliation from an except clause, or for an order without
\* a local chain.
PersistFailure(p) ==
    /\ At(p, "failed")
    /\ Fenced(p)
    /\ recon' = "CRITICAL"
    /\ Exit(p, "leaving")
    /\ UNCHANGED <<chain, preview, namespace, lookup, reservation, hold, held,
                   booked, applied, orderStatus, holder, world, calls, faults>>

\* INVALID_STATE_TRANSITION while a broker response is being recorded.
InvalidResponse(p) ==
    /\ proc[p].pc \in {"answered", "cancelAnswered"}
    /\ proc[p].seen.status \notin Transitions[chain.state]
    /\ Exit(p, "leaving")
    /\ UNCHANGED <<local, holder, world, calls, faults>>

\* The `finally` of _order_lease.
Return(p) ==
    /\ At(p, "leaving")
    /\ holder' = IF holder = p THEN Nobody ELSE holder
    /\ proc' = [proc EXCEPT ![p] = Idle]
    /\ UNCHANGED <<local, world, calls, faults>>

\* The process dies.  Its lease row stays ACTIVE until it expires; until then
\* no call is admitted, so the wait itself changes nothing.
Crash(p) ==
    /\ ~At(p, "idle")
    /\ faults < MaxFaults
    /\ faults' = faults + 1
    /\ holder' = IF holder = p THEN Nobody ELSE holder
    /\ proc' = [proc EXCEPT ![p] = Idle]
    /\ UNCHANGED <<local, world, calls>>

-----------------------------------------------------------------------------
(* preview_external_paper_order, refresh_retry_preview.                    *)

ClaimNamespace(p) ==
    /\ At(p, "held") /\ proc[p].op = "PREVIEW"
    /\ MayBegin("PREVIEW")
    /\ Fenced(p)
    /\ namespace' = "EXTERNAL_PAPER"
    /\ Goto(p, "previewing")
    /\ UNCHANGED <<chain, preview, lookup, reservation, hold, held, booked, applied,
                   orderStatus, recon, holder, world, calls, faults>>

\* The runtime approved the preflight: preview row and event together.
SavePreview(p) ==
    /\ At(p, "previewing")
    /\ Fenced(p)
    /\ preview' = TRUE
    /\ AppendEvent("PREVIEWED", 0)
    /\ Exit(p, "leaving")
    /\ UNCHANGED <<namespace, reservation, hold, held, booked, applied, orderStatus,
                   recon, holder, world, calls, faults>>

RefreshPreview(p) ==
    /\ At(p, "held") /\ proc[p].op = "REFRESH"
    /\ MayBegin("REFRESH")
    /\ Fenced(p)
    /\ preview' = TRUE
    /\ Exit(p, "leaving")
    /\ UNCHANGED <<chain, namespace, lookup, reservation, hold, held, booked, applied,
                   orderStatus, recon, holder, world, calls, faults>>

\* require_recent_preview_seconds elapse.
PreviewExpires ==
    /\ preview
    /\ faults < MaxFaults
    /\ faults' = faults + 1
    /\ preview' = FALSE
    /\ UNCHANGED <<chain, namespace, lookup, reservation, hold, held, booked, applied,
                   orderStatus, recon, holder, proc, world, calls>>

\* The intent's as_of passes the limit of _intent, for good.
IntentAges ==
    /\ fresh
    /\ faults < MaxFaults
    /\ faults' = faults + 1
    /\ fresh' = FALSE
    /\ UNCHANGED <<local, holder, proc, broker, inflight, side, barred, calls>>

\* Work is paused, or another operation raises what _safety_checks refuses.
Bar ==
    /\ ~barred
    /\ faults < MaxFaults
    /\ faults' = faults + 1
    /\ barred' = TRUE
    /\ UNCHANGED <<local, holder, proc, broker, inflight, side, fresh, calls>>

\* An operator resumes, or resolves it.
Unbar ==
    /\ barred
    /\ barred' = FALSE
    /\ UNCHANGED <<local, holder, proc, broker, inflight, side, fresh, calls, faults>>

\* submit_and_simulate claims the intent first and fills it locally.
FillLocally ==
    /\ namespace = "UNCLAIMED"
    /\ namespace' = "LOCAL_SIMULATED"
    /\ orderStatus' = "FILLED"
    /\ UNCHANGED <<chain, preview, lookup, reservation, hold, held, booked, applied,
                   recon, holder, proc, world, calls, faults>>

-----------------------------------------------------------------------------
(* submit_external_paper_order, retry_external_paper_order.                *)

BeginSubmit(p) ==
    /\ At(p, "held") /\ proc[p].op = "SUBMIT"
    /\ MayBegin("SUBMIT")
    /\ Goto(p, "reserving")
    /\ UNCHANGED <<local, holder, world, calls, faults>>

\* _reserve_daily_notional in a transaction of its own, not fenced.
Reserve(p) ==
    /\ At(p, "reserving")
    /\ reservation' = [reservation EXCEPT ![0] = IF @ = "NONE" THEN "RESERVED" ELSE @]
    /\ Goto(p, "checkpoint")
    /\ UNCHANGED <<chain, preview, namespace, lookup, hold, held, booked, applied,
                   orderStatus, recon, holder, world, calls, faults>>

\* Mutant: the order is held but the request is not recorded before the call.
CheckpointWithoutEvent(p) ==
    /\ At(p, "checkpoint")
    /\ Fenced(p)
    /\ ReserveOrder
    /\ Goto(p, "calling")
    /\ UNCHANGED <<chain, lookup, preview, namespace, reservation, booked, applied,
                   orderStatus, recon, holder, world, calls, faults>>

\* _submit_once: order hold and SUBMISSION_REQUESTED, before the broker call.
Checkpoint(p) ==
    /\ At(p, "checkpoint")
    /\ Fenced(p)
    /\ ReserveOrder
    /\ AppendEvent("SUBMISSION_REQUESTED", 0)
    /\ Goto(p, "calling")
    /\ UNCHANGED <<preview, namespace, reservation, booked, applied, orderStatus, recon,
                   holder, world, calls, faults>>

BeginRetry(p) ==
    /\ At(p, "held") /\ proc[p].op = "RETRY"
    /\ MayBegin("RETRY")
    /\ Goto(p, "preparing")
    /\ UNCHANGED <<local, holder, world, calls, faults>>

\* _prepare_external_retry_attempt: supersede, reserve, checkpoint, consume.
PrepareRetry(p) ==
    LET next == chain.attempt + 1
    IN /\ At(p, "preparing")
       /\ Fenced(p)
       /\ Unsettled(reservation[chain.attempt])
       /\ reservation' = [reservation EXCEPT ![chain.attempt] = "SUPERSEDED_BY_RETRY",
                                             ![next] = "RESERVED"]
       /\ ReserveOrder
       /\ AppendEvent("SUBMISSION_REQUESTED", next)
       /\ proc' = [proc EXCEPT ![p].pc = "calling", ![p].attempt = next]
       /\ UNCHANGED <<preview, namespace, booked, applied, orderStatus, recon, holder,
                      world, calls, faults>>

\* _submit_checkpointed_attempt: the request leaves, outside any transaction.
CallBroker(p) ==
    /\ At(p, "calling")
    /\ inflight' = inflight \cup {proc[p].attempt}
    /\ calls' = [calls EXCEPT ![proc[p].attempt] = @ + 1]
    /\ Goto(p, "awaiting")
    /\ UNCHANGED <<local, holder, broker, admission, faults>>

\* A valid response: whatever the broker holds under this client_order_id.
BrokerAnswers(p) ==
    /\ At(p, "awaiting")
    /\ broker.status # "NONE"
    /\ proc' = [proc EXCEPT ![p].pc = "answered", ![p].seen = broker]
    /\ UNCHANGED <<local, holder, world, calls, faults>>

\* A timeout, a broken transport or a malformed response, delivered or not.
CallFails(p) ==
    /\ At(p, "awaiting")
    /\ Goto(p, "ambiguous")
    /\ UNCHANGED <<local, holder, world, calls, faults>>

\* _record_unknown.
RecordUnknown(p) ==
    /\ At(p, "ambiguous")
    /\ Fenced(p)
    /\ AppendEvent(Unknown, proc[p].attempt)
    /\ Settle(proc[p].attempt, Unknown)
    /\ Exit(p, "leaving")
    /\ UNCHANGED <<preview, namespace, hold, held, booked, applied, orderStatus, recon,
                   holder, world, calls, faults>>

\* Event, order status and attempt reservation in one transaction.
RecordResponse(p) ==
    /\ At(p, "answered")
    /\ Fenced(p)
    /\ AppendEvent(proc[p].seen.status, proc[p].attempt)
    /\ orderStatus' = proc[p].seen.status
    /\ Settle(proc[p].attempt, proc[p].seen.status)
    /\ Goto(p, "sweep")
    /\ UNCHANGED <<preview, namespace, hold, held, booked, applied, recon, holder, world,
                   calls, faults>>

-----------------------------------------------------------------------------
(* apply_external_fills and _release_terminal_reservation: the fill sweep  *)
(* that follows a submission, a cancellation or a broker lookup.           *)

\* list_order_fills re-reads the order; the activities may lag behind it.
ReadFills(p) ==
    /\ At(p, "sweep")
    /\ \E visible \in 0 .. broker.filled :
         /\ Cumulative => visible = broker.filled
         /\ proc' = [proc EXCEPT ![p].pc = "booking", ![p].report = visible,
                                 ![p].total = applied]
    /\ UNCHANGED <<local, holder, world, calls, faults>>

\* One fill: broker fill, local fill, ledgers and hold in one transaction.
ApplyFill(p) ==
    /\ At(p, "booking")
    /\ Unbooked(p) # {}
    /\ Fenced(p)
    /\ LET fill == Min(Unbooked(p))
           size == FillSize(p, fill)
       IN /\ proc[p].total + size <= Quantity
          /\ booked' = booked \cup {fill}
          /\ applied' = applied + size
          /\ \E price \in 1 .. LimitPrice :
               hold' = hold - Min({hold, size * price})
          /\ proc' = [proc EXCEPT ![p].total = @ + size]
    /\ UNCHANGED <<chain, preview, namespace, lookup, reservation, held, orderStatus,
                   recon, holder, world, calls, faults>>

\* The event the booked total calls for, unless the chain has ended.
RecordFills(p) ==
    LET state == IF proc[p].total = Quantity THEN "FILLED" ELSE "PARTIALLY_FILLED"
    IN /\ At(p, "booking")
       /\ Unbooked(p) = {}
       /\ IF proc[p].total > 0 /\ chain.state \notin Terminal \cup {state}
            THEN /\ Fenced(p)
                 /\ AppendEvent(state, chain.attempt)
                 /\ orderStatus' = state
            ELSE UNCHANGED <<chain, lookup, orderStatus>>
       /\ Goto(p, "settling")
       /\ UNCHANGED <<preview, namespace, reservation, hold, held, booked, applied, recon,
                      holder, world, calls, faults>>

\* "fully-filled": the rest of the hold is released.
ReleaseFilled(p) ==
    /\ At(p, "settling")
    /\ IF proc[p].total = Quantity
         THEN Fenced(p) /\ hold' = 0
         ELSE UNCHANGED hold
    /\ Goto(p, "closing")
    /\ UNCHANGED <<chain, preview, namespace, lookup, reservation, held, booked, applied,
                   orderStatus, recon, holder, world, calls, faults>>

\* Mutant: a requested cancellation releases the hold like a final one.
ReleasesOnRequest(status) ==
    status \in {"CANCEL_REQUESTED", "CANCELLED", "REJECTED", "EXPIRED"}

\* _RELEASE_EVENT_TYPE_FOR_STATE: FILLED is left to ReleaseFilled.
Releases(status) == status \in Terminal \ {"FILLED"}

\* "terminal-closed": no more fills are expected.  A cancellation also
\* writes the broker's answer back to the order row.
CloseSweep(p) ==
    /\ At(p, "closing")
    /\ Fenced(p)
    /\ hold' = IF Releases(proc[p].seen.status) THEN 0 ELSE hold
    /\ orderStatus' = IF proc[p].op = "CANCEL" THEN proc[p].seen.status ELSE orderStatus
    /\ CASE proc[p].op = "CANCEL" -> Exit(p, "leaving")
         [] proc[p].op \in {"SUBMIT", "RETRY"} -> Exit(p, "reconcile")
         [] OTHER -> Goto(p, "bridging")
    /\ UNCHANGED <<chain, preview, namespace, lookup, reservation, held, booked, applied,
                   recon, holder, world, calls, faults>>

-----------------------------------------------------------------------------
(* _run_reconciliation, under reconcile, recover, submit and retry.        *)

\* No local chain at all is ORDER_MISSING_LOCALLY, a critical verdict.
BeginReconcile(p) ==
    /\ \/ At(p, "reconcile")
       \/ /\ At(p, "held") /\ proc[p].op \in {"RECOVER", "RECONCILE"}
          /\ MayBegin(proc[p].op)
    /\ Fenced(p)
    /\ proc' = [proc EXCEPT ![p] =
         IF chain.state = "NOT_SUBMITTED"
           THEN [Idle EXCEPT !.pc = "failed"]
           ELSE [Idle EXCEPT !.pc = "lookup", !.op = "RECONCILE",
                             !.stranded = chain.state = "SUBMISSION_REQUESTED"]]
    /\ UNCHANGED <<local, holder, world, calls, faults>>

\* get_order_by_client_order_id.
LookUp(p) ==
    /\ At(p, "lookup")
    /\ proc' = [proc EXCEPT ![p].pc = IF broker.status = "NONE" THEN "looked" ELSE "evidence",
                            ![p].seen = broker]
    /\ UNCHANGED <<local, holder, world, calls, faults>>

\* The lookup raises, or its answer fails _validate_order_response.
LookUpFails(p) ==
    /\ At(p, "lookup")
    /\ faults < MaxFaults
    /\ faults' = faults + 1
    /\ \/ proc' = [proc EXCEPT ![p].pc = "looked",
                               ![p].seen = [NoOrder EXCEPT !.status = "ERROR"]]
       \/ /\ broker.status # "NONE"
          /\ proc' = [proc EXCEPT ![p].pc = "evidence",
                                  ![p].seen = [NoOrder EXCEPT !.status = "MALFORMED"]]
    /\ UNCHANGED <<local, holder, world, calls>>

\* _bridge_stranded_submission_requested, before the evidence is saved or at
\* the end of the run.
Bridge(p) ==
    /\ proc[p].pc \in {"looked", "bridging"}
    /\ IF proc[p].stranded /\ chain.state = "SUBMISSION_REQUESTED"
         THEN Fenced(p) /\ AppendEvent(Unknown, chain.attempt)
         ELSE UNCHANGED <<chain, lookup>>
    /\ Goto(p, IF At(p, "looked") THEN "evidence" ELSE "verdict")
    /\ UNCHANGED <<preview, namespace, reservation, hold, held, booked, applied,
                   orderStatus, recon, holder, world, calls, faults>>

\* save_external_lookup, bound to the event that is current by now.
SaveLookup(p) ==
    LET missing == proc[p].seen.status \in {"NONE", "ERROR"}
    IN /\ At(p, "evidence")
       /\ Fenced(p)
       /\ lookup' = [result |-> IF missing THEN "NOT_FOUND" ELSE "FOUND",
                     authoritative |-> proc[p].seen.status = "NONE", current |-> TRUE]
       /\ IF missing THEN Repair(RepairTarget(proc[p].seen.status)) ELSE UNCHANGED reservation
       /\ Goto(p, IF missing THEN "verdict" ELSE "synchronise")
       /\ UNCHANGED <<chain, preview, namespace, hold, held, booked, applied, orderStatus,
                      recon, holder, world, calls, faults>>

\* A found order repairs the chain, where the transition is allowed, and the
\* reservation; an invalid one only marks the reservation.
Synchronise(p) ==
    LET status == proc[p].seen.status
    IN /\ At(p, "synchronise")
       /\ Fenced(p)
       /\ IF status # chain.state /\ status \in Transitions[chain.state]
            THEN AppendEvent(status, chain.attempt)
            ELSE UNCHANGED <<chain, lookup>>
       /\ Repair(RepairTarget(status))
       /\ Goto(p, IF status = "MALFORMED" THEN "bridging" ELSE "sweep")
       /\ UNCHANGED <<preview, namespace, hold, held, booked, applied, orderStatus, recon,
                      holder, world, calls, faults>>

\* RESERVATION_STATE_CONFLICT undoes either transaction.
ConflictingEvidence(p) ==
    /\ \/ At(p, "evidence") /\ proc[p].seen.status \in {"NONE", "ERROR"}
       \/ At(p, "synchronise")
    /\ Fenced(p)
    /\ ~Repairable(RepairTarget(proc[p].seen.status))
    /\ Exit(p, "failed")
    /\ UNCHANGED <<local, holder, world, calls, faults>>

\* Booked quantity against the answer, positions and cash against the broker.
Verdict(p) ==
    CASE proc[p].seen.status = "NONE" -> "ORDER_MISSING_AT_BROKER"
      [] /\ proc[p].seen.status \notin {"ERROR", "MALFORMED"}
         /\ applied = proc[p].seen.filled
         /\ applied = broker.filled -> "MATCHED"
      [] OTHER -> "CRITICAL"

\* _persist_reconciliation.
PersistVerdict(p) ==
    /\ At(p, "verdict")
    /\ Fenced(p)
    /\ recon' = Verdict(p)
    /\ Exit(p, "leaving")
    /\ UNCHANGED <<chain, preview, namespace, lookup, reservation, hold, held, booked,
                   applied, orderStatus, holder, world, calls, faults>>

-----------------------------------------------------------------------------
(* cancel_external_paper_order.                                            *)

RequestCancel(p) ==
    /\ At(p, "held") /\ proc[p].op = "CANCEL"
    /\ MayBegin("CANCEL")
    /\ Fenced(p)
    /\ AppendEvent("CANCEL_REQUESTED", chain.attempt)
    /\ proc' = [proc EXCEPT ![p].pc = "cancelling", ![p].attempt = chain.attempt]
    /\ UNCHANGED <<preview, namespace, reservation, hold, held, booked, applied,
                   orderStatus, recon, holder, world, calls, faults>>

\* The broker refuses to cancel an order that is no longer open.
CancelAtBroker(p) ==
    /\ At(p, "cancelling")
    /\ IF Live
         THEN /\ broker' \in {broker, [broker EXCEPT !.status = "CANCEL_REQUESTED"],
                              [broker EXCEPT !.status = "CANCELLED"]}
              /\ Goto(p, "cancelSent")
         ELSE /\ Goto(p, "cancelFailed")
              /\ UNCHANGED broker
    /\ UNCHANGED <<local, holder, inflight, admission, calls, faults>>

\* The runtime re-reads the order and shows an open one as CANCEL_REQUESTED.
CancelAnswers(p) ==
    /\ At(p, "cancelSent")
    /\ LET shown == IF broker.status = "SUBMITTED" THEN "CANCEL_REQUESTED" ELSE broker.status
       IN proc' = [proc EXCEPT ![p].pc = "cancelAnswered",
                               ![p].seen = [broker EXCEPT !.status = shown]]
    /\ UNCHANGED <<local, holder, world, calls, faults>>

CancelTimesOut(p) ==
    /\ At(p, "cancelSent")
    /\ Goto(p, "cancelFailed")
    /\ UNCHANGED <<local, holder, world, calls, faults>>

\* Mutant: an accepted cancellation is taken for a completed one.
RecordCancelAsDone(p) ==
    /\ At(p, "cancelAnswered")
    /\ Fenced(p)
    /\ AppendEvent("CANCELLED", proc[p].attempt)
    /\ Goto(p, "sweep")
    /\ UNCHANGED <<preview, namespace, reservation, hold, held, booked, applied,
                   orderStatus, recon, holder, world, calls, faults>>

RecordCancel(p) ==
    /\ At(p, "cancelAnswered")
    /\ Fenced(p)
    /\ AppendEvent(proc[p].seen.status, proc[p].attempt)
    /\ Goto(p, "sweep")
    /\ UNCHANGED <<preview, namespace, reservation, hold, held, booked, applied,
                   orderStatus, recon, holder, world, calls, faults>>

\* _record_unknown is called without its reservation_id: TypeError, no event.
CancelUnknown(p) ==
    /\ At(p, "cancelFailed")
    /\ Fenced(p)
    /\ Exit(p, "leaving")
    /\ UNCHANGED <<local, holder, world, calls, faults>>

-----------------------------------------------------------------------------
(* The broker: one order per client_order_id, whatever arrives and when.   *)

Deliver(a) ==
    /\ a \in inflight
    /\ inflight' = inflight \ {a}
    /\ IF broker.status = "NONE"
         THEN broker' \in {[broker EXCEPT !.status = s] : s \in {"SUBMITTED", "REJECTED"}}
         ELSE UNCHANGED broker
    /\ UNCHANGED <<local, holder, proc, admission, calls, faults>>

Lose(a) ==
    /\ a \in inflight
    /\ inflight' = inflight \ {a}
    /\ UNCHANGED <<local, holder, proc, broker, admission, calls, faults>>

FillAtBroker ==
    /\ Live
    /\ \E total \in broker.filled + 1 .. Quantity :
         broker' = [status |-> IF total = Quantity THEN "FILLED"
                               ELSE IF broker.status = "CANCEL_REQUESTED"
                                      THEN "CANCEL_REQUESTED" ELSE "PARTIALLY_FILLED",
                    filled |-> total]
    /\ UNCHANGED <<local, holder, proc, inflight, admission, calls, faults>>

CloseAtBroker ==
    /\ Live
    /\ broker' \in {[broker EXCEPT !.status = s] : s \in {"CANCELLED", "EXPIRED"}}
    /\ UNCHANGED <<local, holder, proc, inflight, admission, calls, faults>>

-----------------------------------------------------------------------------
\* What a call does by itself, once it runs.
Step(p) ==
    \/ Acquire(p) \/ Refuse(p) \/ Displaced(p) \/ PersistFailure(p) \/ InvalidResponse(p) \/ Return(p)
    \/ ClaimNamespace(p) \/ SavePreview(p) \/ RefreshPreview(p)
    \/ BeginSubmit(p) \/ Reserve(p) \/ Checkpoint(p)
    \/ BeginRetry(p) \/ PrepareRetry(p)
    \/ CallBroker(p) \/ BrokerAnswers(p) \/ CallFails(p)
    \/ RecordUnknown(p) \/ RecordResponse(p)
    \/ ReadFills(p) \/ ApplyFill(p) \/ RecordFills(p) \/ ReleaseFilled(p) \/ CloseSweep(p)
    \/ BeginReconcile(p) \/ LookUp(p) \/ Bridge(p) \/ SaveLookup(p) \/ Synchronise(p)
    \/ ConflictingEvidence(p) \/ PersistVerdict(p)
    \/ RequestCancel(p) \/ CancelAtBroker(p) \/ CancelAnswers(p) \/ CancelTimesOut(p)
    \/ RecordCancel(p) \/ CancelUnknown(p)

Misfortune(p) == TakeOver(p) \/ Fail(p) \/ LookUpFails(p) \/ Crash(p)

BrokerStep == FillAtBroker \/ CloseAtBroker \/ \E a \in Attempts : Deliver(a) \/ Lose(a)

Next ==
    \/ \E p \in Procs : \/ \E o \in Ops : Enter(p, o)
                        \/ Step(p)
                        \/ Misfortune(p)
    \/ PreviewExpires \/ IntentAges
    \/ Bar \/ Unbar
    \/ FillLocally
    \/ BrokerStep

Spec == Init /\ [][Next]_vars

\* A running call takes its steps, and operators come back to an order: an
\* operation that repairs one and stays possible is called again and again,
\* and does not find the lease held every time.
Repairs == Ops \cap {"RETRY", "REFRESH", "RECOVER", "RECONCILE"}

Fairness ==
    /\ \A p \in Procs : WF_vars(Step(p))
    /\ \A o \in Repairs :
         []<>MayEnter(o) => []<><<\E p \in Procs : proc[p].op = o /\ Acquire(p)>>_vars

FairSpec == Spec /\ Fairness
-----------------------------------------------------------------------------
(* Safety.                                                                 *)

\* However often an order is submitted, retried, recovered or taken over,
\* each attempt sends the broker at most one request (_submit_once and
\* _prepare_external_retry_attempt checkpoint before the call).
NoAttemptSentTwice == \A a \in Attempts : calls[a] <= 1

\* The books never run ahead of the broker: overlapping fill sweeps, replays
\* and cumulative reports never book a share twice (apply_external_fills).
BookedAtBroker == applied <= broker.filled

\* A chain that has ended, has ended the way the broker's order did: no stale
\* answer and no sweep of a displaced call closes an order that is still
\* open, or closes it with another outcome.
EndsAgree == chain.state \in Terminal => broker.status = chain.state

\* Neither the booked fills nor the recorded end departs from the broker's
\* order (apply_external_fills, cancel_external_paper_order).
BooksFollowBroker == BookedAtBroker /\ EndsAgree

\* The order may still fill: it is open, or a request is under way for it.
MayFill == Live \/ (broker.status = "NONE" /\ inflight # {})

\* Whatever may still reach or fill at the broker counts against the daily
\* cap exactly once, through every timeout, retry and recovery.
ExposureReserved ==
    LET active == {a \in Attempts : reservation[a] \in ActiveReservation}
    IN Cardinality(active) <= 1 /\ (MayFill => active # {})

\* The hold of cash or shares covers every share that may still fill, and
\* every share filled at the broker and not yet booked: no fill ever settles
\* against money another order may use (_release_terminal_reservation).
HoldCoversExposure ==
    LET atRisk == IF MayFill THEN Quantity ELSE broker.filled
    IN applied < atRisk => hold >= (atRisk - applied) * LimitPrice

\* An ambiguous order keeps a reservation that a retry can supersede.
UnknownKeepsBudget ==
    chain.state = Unknown =>
        reservation[chain.attempt] \in {"RESERVED", "RECONCILIATION_REQUIRED"}

\* What may still execute is paid for once, and what is ambiguous keeps the
\* budget its retry needs.
BudgetHeld == TypeOK /\ ExposureReserved /\ UnknownKeepsBudget

\* An intent filled by the local simulator never reaches the broker, and one
\* that reached it is never filled locally (claim_execution_namespace).
OneNamespace ==
    namespace = "LOCAL_SIMULATED" =>
        /\ \A a \in Attempts : calls[a] = 0
        /\ broker = NoOrder
        /\ applied = 0

\* One intent is executed once: in one place, and there by one request.
ExecutedOnce == NoAttemptSentTwice /\ OneNamespace

\* The retry's attempt is committed only while the evidence its checks read
\* earlier still stands: authoritative NOT_FOUND for the current event.
RetryRestsOnEvidence ==
    [][chain'.attempt # chain.attempt => RetryEvidence]_vars

-----------------------------------------------------------------------------
(* Liveness, under FairSpec.                                               *)

\* No crash leaves an order stranded between its checkpoint and the answer
\* of the broker (recover_stranded_submission).
StrandedIsResolved ==
    chain.state = "SUBMISSION_REQUESTED" ~> chain.state # "SUBMISSION_REQUESTED"

\* An ambiguous order that is at the broker is found, whatever failed lookups,
\* exceptions, pauses, critical verdicts or the age of the intent refuse
\* (reconcile_external_paper_order has none of their checks).
FoundIsResolved ==
    (chain.state = Unknown /\ broker.status # "NONE") ~> chain.state # Unknown

\* Any ambiguous order is found or retried, as far as the retries go and the
\* intent stays admissible: critical verdicts of the order itself and expired
\* previews never stop it (retry_external_paper_order, refresh_retry_preview).
Admissible == fresh /\ ~barred /\ ~Oversold

LostIsRetried ==
    chain.state = Unknown ~>
        (chain.state # Unknown \/ chain.attempt = MaxAttempt \/ ~Admissible)

UnknownIsResolved == FoundIsResolved /\ LostIsRetried

\* Neither a crash nor an ambiguous answer stops an admissible order for good.
AmbiguityEnds == StrandedIsResolved /\ UnknownIsResolved

\* Once the broker has closed the order, the hold is given back.
HoldIsReleased == broker.status \in Terminal ~> hold = 0

\* Operators who keep repairing end what is ambiguous and free what is held.
RepairEnds == AmbiguityEnds /\ HoldIsReleased

-----------------------------------------------------------------------------
(* Claims of the documentation that the code does not meet.                *)

\* "A timeout or ambiguous response becomes UNKNOWN_REQUIRES_RECONCILIATION":
\* for a cancellation that still owns its lease (cancel_external_paper_order).
AmbiguousCancelIsUnknown ==
    [][\A p \in Procs :
          At(p, "cancelFailed") /\ Fenced(p) /\ At(p, "leaving")' /\ faults' = faults
             => chain'.state = Unknown]_vars

\* "A found order repairs state": a reconciliation that reports MATCHED for
\* an order the broker has closed leaves the chain closed as well.
MatchedChainHasEnded ==
    [][\A p \in Procs :
          At(p, "verdict") /\ recon' = "MATCHED" /\ At(p, "leaving")'
             /\ proc[p].seen.status \in Terminal
             => chain.state = proc[p].seen.status]_vars

\* "Correct the external condition, then rerun reconciliation": the block that
\* a reconciliation puts on an order the broker was never asked for is lifted
\* by running it again (_run_reconciliation, ORDER_MISSING_LOCALLY).
NeverSent == namespace # "LOCAL_SIMULATED" /\ \A a \in Attempts : calls[a] = 0

RerunLiftsBlock == (Blocked /\ NeverSent) ~> (~Blocked \/ ~NeverSent)

\* "without which a confirmed-safe-to-retry order could become permanently
\* stuck": what is ambiguous is found or retried, but for its age or a pause
\* (refresh_retry_preview).
RefreshKeepsRetryable ==
    chain.state = Unknown ~>
        (chain.state # Unknown \/ chain.attempt = MaxAttempt \/ ~fresh \/ barred)

\* "a terminal status always means done": it is never taken back.
TerminalStatusIsFinal ==
    [][(orderStatus \in Terminal) => orderStatus' = orderStatus]_vars
=============================================================================
