--------------------------- MODULE LocalExecution ---------------------------
(***************************************************************************)
(* The local simulator of paper_books/execution.py working on the orders,  *)
(* cash ledger and position of one book, called by the scheduled           *)
(* integration, the daily lifecycle and the command line, which share the  *)
(* database and no lock.  Steps are cut where the code commits: creation   *)
(* and fill are transactions, the other statements commit one by one.      *)
(*                                                                         *)
(* Every intent is for one share of one symbol.  What an externally scoped *)
(* order goes through after its claim is ExternalOrder's.                  *)
(***************************************************************************)
EXTENDS Integers, FiniteSets, Functions

CONSTANTS
    Calls,          \* services that may work on the book at the same time
    Buys, Sells,    \* order intents, by side
    None,           \* no intent
    Cash,           \* starting cash of the book
    Shares,         \* shares held to begin with
    Notional,       \* quantity * limit_price of each intent
    Slippage,       \* slippage_usd of a simulated fill
    Reasons,        \* how a pending intent may be closed: expired, cancelled
    Again,          \* an intent may be submitted again, whatever its status
    Unpriced,       \* a cycle may find no market input for an approved intent
    External        \* the book may be enabled for the external broker

Intents == Buys \cup Sells

ASSUME LocalAssumption ==
    /\ Buys \cap Sells = {}
    /\ IsFiniteSet(Buys) /\ IsFiniteSet(Sells)
    /\ None \notin Intents
    /\ Cash \in Nat /\ Shares \in Nat
    /\ Notional \in Nat \ {0}
    /\ Slippage \in Nat
    /\ Reasons \subseteq {"EXPIRED", "CANCELLED"}
    /\ {Again, Unpriced, External} \subseteq BOOLEAN

VARIABLES
    status,         \* paper_book_orders.status, NONE without a row
    claim,          \* paper_order_execution_claims
    queued,         \* intents with external execution evidence
    reserved,       \* BUY_RESERVATION entry of an intent
    released,       \* its ORDER_RELEASE entries, by reason
    settled,        \* settled cash: the sum of the settled entries
    fills,          \* intents with a fill row
    shares,         \* the position's quantity
    call            \* the running calls

ledger == <<reserved, released, settled>>
vars == <<status, claim, queued, ledger, fills, shares, call>>

Pending == "PENDING_SUBMISSION"
Closed == {"EXPIRED", "CANCELLED"}
Statuses == {"NONE", Pending, "FILLED", "REJECTED"} \cup Closed
Records == [pc : {"idle", "taken", "create", "claim", "claimLate", "check", "price",
                  "fill", "release", "close", "enqueue"},
            intent : Intents \cup {None},
            seen : Statuses,
            reason : Closed \cup {"NONE"}]
Idle == [pc |-> "idle", intent |-> None, seen |-> "NONE", reason |-> "NONE"]

TypeOK ==
    /\ status \in [Intents -> Statuses]
    /\ claim \in [Intents -> {"NONE", "LOCAL_SIMULATED", "EXTERNAL_PAPER"}]
    /\ queued \subseteq Intents
    /\ reserved \in [Buys -> BOOLEAN]
    /\ released \in [Buys -> SUBSET ({"FILLED"} \cup Closed)]
    /\ settled \in Int
    /\ fills \subseteq Intents
    /\ shares \in Int
    /\ call \in [Calls -> Records]

Init ==
    /\ status = [i \in Intents |-> "NONE"]
    /\ claim = [i \in Intents |-> "NONE"]
    /\ queued = {}
    /\ reserved = [i \in Buys |-> FALSE]
    /\ released = [i \in Buys |-> {}]
    /\ settled = Cash
    /\ fills = {}
    /\ shares = Shares
    /\ call = [c \in Calls |-> Idle]

-----------------------------------------------------------------------------
(* The cash ledger.                                                        *)

\* remaining_buy_reservation: every release is of the whole notional.
Remaining(i) ==
    (IF reserved[i] THEN Notional ELSE 0) - Notional * Cardinality(released[i])

\* reserved_cash and available_cash.
ReservedCash == SumFunction([i \in Buys |-> Remaining(i)])

Available == settled - ReservedCash

\* Mutant: open reservations of other intents are not counted.
AffordableFromSettled == Notional <= settled

\* The check of _reserve_for_order_locked.
Affordable == Notional <= Available

\* release_reservation: once per intent and reason.
ReleaseReservation(i, reason) ==
    released' = IF i \in Buys THEN [released EXCEPT ![i] = @ \cup {reason}] ELSE released

-----------------------------------------------------------------------------
At(c, label) == call[c].pc = label
Goto(c, label) == call' = [call EXCEPT ![c].pc = label]
Return(c) == call' = [call EXCEPT ![c] = Idle]

\* A service comes to an intent: a new one, one it listed as pending, or, on a
\* replayed cycle or a repeated command, any.
Take(c, i) ==
    /\ At(c, "idle")
    /\ status[i] \in {"NONE", Pending} \/ Again
    /\ call' = [call EXCEPT ![c] = [Idle EXCEPT !.pc = "taken", !.intent = i]]
    /\ UNCHANGED <<status, claim, queued, ledger, fills, shares>>

\* submit_and_simulate: load_order_intent.
Load(c) ==
    LET i == call[c].intent
    IN /\ At(c, "taken")
       /\ call' = [call EXCEPT ![c] =
              [@ EXCEPT !.pc = IF status[i] = "NONE" THEN "create" ELSE "claim",
                        !.seen = status[i]]]
       /\ UNCHANGED <<status, claim, queued, ledger, fills, shares>>

\* Claim, intent and BUY reservation in one transaction; when another call
\* inserted the intent meanwhile, only the claim is checked.  Not enabled
\* where it raises.
Create(c) ==
    LET i == call[c].intent
        new == status[i] = "NONE"
    IN /\ At(c, "create")
       /\ claim[i] # "EXTERNAL_PAPER"
       /\ claim' = [claim EXCEPT ![i] = "LOCAL_SIMULATED"]
       /\ status' = IF new THEN [status EXCEPT ![i] = Pending] ELSE status
       /\ IF new /\ i \in Buys
            THEN Affordable /\ reserved' = [reserved EXCEPT ![i] = TRUE]
            ELSE UNCHANGED reserved
       /\ Goto(c, "price")
       /\ UNCHANGED <<queued, released, settled, fills, shares>>

\* An existing intent: its claim must be local, or is made now unless there
\* is external evidence.
CheckClaim(c) ==
    LET i == call[c].intent
    IN /\ At(c, "claim")
       /\ \/ claim[i] = "LOCAL_SIMULATED" /\ Goto(c, "check")
          \/ claim[i] = "NONE" /\ i \notin queued /\ Goto(c, "claimLate")
       /\ UNCHANGED <<status, claim, queued, ledger, fills, shares>>

\* claim_execution_namespace, in a statement of its own.
ClaimLate(c) ==
    LET i == call[c].intent
    IN /\ At(c, "claimLate")
       /\ claim[i] # "EXTERNAL_PAPER"
       /\ claim' = [claim EXCEPT ![i] = "LOCAL_SIMULATED"]
       /\ Goto(c, "check")
       /\ UNCHANGED <<status, queued, ledger, fills, shares>>

\* A BUY that was pending when it was loaded must have its whole reservation.
CheckReservation(c) ==
    LET i == call[c].intent
    IN /\ At(c, "check")
       /\ i \in Buys /\ call[c].seen = Pending => Remaining(i) = Notional
       /\ Goto(c, "price")
       /\ UNCHANGED <<status, claim, queued, ledger, fills, shares>>

\* A SELL without a position is rejected, whatever became of the order.
RejectSell(c) ==
    LET i == call[c].intent
    IN /\ At(c, "price")
       /\ i \in Sells /\ shares < 1
       /\ status' = [status EXCEPT ![i] = "REJECTED"]
       /\ Return(c)
       /\ UNCHANGED <<claim, queued, ledger, fills, shares>>

\* simulate_fill crosses the limit, or the order stays as it is.
Simulate(c) ==
    /\ At(c, "price")
    /\ call[c].intent \in Sells => shares >= 1
    /\ \/ Goto(c, "fill")
       \/ Return(c)
    /\ UNCHANGED <<status, claim, queued, ledger, fills, shares>>

\* Mutant: the fill row is not looked up again under the write lock.
NotFilledUnchecked(i) == TRUE

\* fill_exists and save_fill inside the transaction.
NotFilled(i) == i \notin fills

\* Mutant: the position is not checked again under the write lock.
CoveredUnchecked(i) == TRUE

\* apply_sell_fill: never more than the position.
Covered(i) == i \in Sells => shares >= 1

\* Fill, position, settlement, release and status in one transaction.
Fill(c) ==
    LET i == call[c].intent
    IN /\ At(c, "fill")
       /\ NotFilled(i)
       /\ Covered(i)
       /\ fills' = fills \cup {i}
       /\ shares' = shares + (IF i \in Buys THEN 1 ELSE -1)
       /\ settled' = settled + (IF i \in Buys THEN -Notional ELSE Notional) - Slippage
       /\ ReleaseReservation(i, "FILLED")
       /\ status' = [status EXCEPT ![i] = "FILLED"]
       /\ Return(c)
       /\ UNCHANGED <<claim, queued, reserved>>

-----------------------------------------------------------------------------
(* cancel_pending_intent, expire_pending_intent.                           *)

\* Mutant: the status is written before the release.
LoadToCloseAndMark(c, reason) ==
    LET i == call[c].intent
    IN /\ At(c, "taken")
       /\ i \notin queued
       /\ status[i] = Pending
       /\ status' = [status EXCEPT ![i] = reason]
       /\ call' = [call EXCEPT ![c] = [@ EXCEPT !.pc = "release", !.reason = reason]]
       /\ UNCHANGED <<claim, queued, ledger, fills, shares>>

LoadToClose(c, reason) ==
    LET i == call[c].intent
    IN /\ At(c, "taken")
       /\ i \notin queued
       /\ status[i] = Pending
       /\ call' = [call EXCEPT ![c] = [@ EXCEPT !.pc = "release", !.reason = reason]]
       /\ UNCHANGED <<status, claim, queued, ledger, fills, shares>>

Release(c) ==
    /\ At(c, "release")
    /\ ReleaseReservation(call[c].intent, call[c].reason)
    /\ Goto(c, "close")
    /\ UNCHANGED <<status, claim, queued, reserved, settled, fills, shares>>

Close(c) ==
    /\ At(c, "close")
    /\ status' = [status EXCEPT ![call[c].intent] = call[c].reason]
    /\ Return(c)
    /\ UNCHANGED <<claim, queued, ledger, fills, shares>>

-----------------------------------------------------------------------------
(* An intent that the scheduled cycle does not simulate.                   *)

\* persist_order_intent of the integration, without claim or reservation: the
\* book is enabled for the external broker, or there is no market input.
Persist(c) ==
    LET i == call[c].intent
    IN /\ At(c, "taken")
       /\ status[i] \in {"NONE", Pending}
       /\ status' = [status EXCEPT ![i] = Pending]
       /\ \/ External /\ Goto(c, "enqueue")
          \/ Unpriced /\ Return(c)
       /\ UNCHANGED <<claim, queued, ledger, fills, shares>>

\* enqueue_external_submission.
Enqueue(c) ==
    /\ At(c, "enqueue")
    /\ queued' = queued \cup {call[c].intent}
    /\ Return(c)
    /\ UNCHANGED <<status, claim, ledger, fills, shares>>

\* preview_external_paper_order claims the intent.
ClaimExternally(i) ==
    /\ External
    /\ status[i] = Pending
    /\ claim[i] = "NONE"
    /\ claim' = [claim EXCEPT ![i] = "EXTERNAL_PAPER"]
    /\ UNCHANGED <<status, queued, ledger, fills, shares, call>>

\* Any exception, an early return without effect, or a crash.
Abort(c) ==
    /\ ~At(c, "idle")
    /\ Return(c)
    /\ UNCHANGED <<status, claim, queued, ledger, fills, shares>>

Step(c) ==
    \/ \E i \in Intents : Take(c, i)
    \/ Load(c) \/ Create(c) \/ CheckClaim(c) \/ ClaimLate(c) \/ CheckReservation(c)
    \/ RejectSell(c) \/ Simulate(c) \/ Fill(c)
    \/ \E reason \in Reasons : LoadToClose(c, reason)
    \/ Release(c) \/ Close(c)
    \/ Persist(c) \/ Enqueue(c)
    \/ Abort(c)

Next ==
    \/ \E c \in Calls : Step(c)
    \/ \E i \in Intents : ClaimExternally(i)

Spec == Init /\ [][Next]_vars

-----------------------------------------------------------------------------
(* Properties.                                                             *)

\* Each fill moves the position once, whoever simulates it and however often
\* (the fill row and the position are written in one transaction).
PositionMatchesFills ==
    shares = Shares + Cardinality(fills \cap Buys) - Cardinality(fills \cap Sells)

\* Sells that were priced against the same shares never sell them twice
\* (the check in apply_sell_fill repeats the one made before the lock).
LongOnly == shares >= 0

\* An intent is filled locally under a local claim only, although the claim
\* is read long before the fill (claim_execution_namespace).
LocalFillIsClaimed == \A i \in fills : claim[i] = "LOCAL_SIMULATED"

\* The position is what the fills make of it and never short, and every fill
\* is claimed, whoever simulates which intent at the same time (fill_exists,
\* save_fill, claim_execution_namespace).
PositionSound == PositionMatchesFills /\ LongOnly /\ LocalFillIsClaimed

\* Services that reserve, fill, expire and replay each other's intents never
\* commit cash that is not there: what is available falls below zero by the
\* slippage of the fills and nothing else, which no reservation includes.  A
\* repeated release counts as available here; ReleasedOnce is about that
\* (_reserve_for_order_locked, release_reservation, the transaction of a fill).
NeverOverdrawn == Available + Slippage * Cardinality(fills) >= 0

\* A step of a service that works alone: it begins with intents that are new or
\* pending, and creates none without its claim and reservation.
WorksAlone ==
    /\ \A c, d \in Calls : call'[c] # Idle /\ call'[d] # Idle => c = d
    /\ \A c \in Calls : call'[c].pc = "taken" => status[call'[c].intent] \in {"NONE", Pending}
    /\ \A i \in Intents : status[i] = "NONE" /\ status'[i] = Pending => claim'[i] # "NONE"

AloneSpec == Init /\ [][Next /\ WorksAlone]_vars

\* One service at a time, every intent created with its reservation: whatever
\* step a crash interrupts, a reservation is released at most once, and an
\* ended intent holds nothing back (submit_and_simulate, expire_pending_intent).
ReleasedOnce ==
    \A i \in Buys :
        /\ Remaining(i) \in {0, Notional}
        /\ status[i] \in {"FILLED"} \cup Closed => Remaining(i) = 0

-----------------------------------------------------------------------------
(* Claims of the documentation that the code does not meet.                *)

\* "Expired/cancelled BUY reservations are released exactly once": no intent
\* gives back cash it never held (expire_pending_intent).
ReleaseNeedsReservation == \A i \in Buys : Remaining(i) >= 0

\* "Never fill an expired or cancelled order."
ClosedIsNeverFilled ==
    [][\A i \in Intents : status[i] \in Closed => i \notin fills' \ fills]_vars

\* "re-running this against an already-resolved order is always a safe no-op"
FilledStaysFilled ==
    [][\A i \in Intents : status[i] = "FILLED" => status'[i] = "FILLED"]_vars

\* "No function here ever produces negative available cash"
NoNegativeCash == Available >= 0
=============================================================================
