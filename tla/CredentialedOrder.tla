--------------------------- MODULE CredentialedOrder ---------------------------
(* One order of the credentialed paper path: its submission                   *)
(* (services/submit_credentialed_paper_order.py), the polling that books its  *)
(* fills (services/sync_paper_orders.py, execution/ledger_events.py) into the *)
(* paper ledger (paper/ledger.py), and the broker behind the runtime client.  *)
(* Connections commit statement by statement, so a step is one commit; a      *)
(* command may die between any two.  The order is a BUY, its price 1.         *)
EXTENDS Integers, FiniteSets, Functions

CONSTANTS
  Submitter,   \* commands that submit the intent
  Syncer,      \* commands that poll
  Quantity,    \* shares ordered
  Funds,       \* amounts of settled cash the ledger may start with
  MaxCrashes   \* bound: commands that die or are stopped by an error

ASSUME OrderAssumption ==
  /\ Submitter \cap Syncer = {}
  /\ Quantity \in Nat \ {0}
  /\ Funds \subseteq Nat
  /\ MaxCrashes \in Nat

VARIABLES
  broker,    \* the order at the broker
  flight,    \* a submission whose sender has given up may still arrive
  row,       \* paper_broker_submissions.submission_status
  events,    \* paper_execution_events of the intent
  applied,   \* the ids of those marked ledger_applied
  keys,      \* idempotency keys of simulated_orders
  position,  \* the ledger's position
  funds,     \* the settled cash it started with
  cash,      \* the settled cash it has
  result,    \* paper_execution_results
  command,   \* the command each process is in
  crashes

ledgerVars == <<keys, position, funds, cash>>
eventVars == <<events, applied>>
orderVars == <<broker, flight, row, eventVars, ledgerVars, result, command, crashes>>

Process == Submitter \cup Syncer

MutTerminal == {"FILLED", "CANCELLED", "EXPIRED", "PARTIALLY_FILLED"}

(* TERMINAL_SUBMISSION_STATES.                                                *)
Terminal == {"FILLED", "CANCELLED", "EXPIRED"}

Open == {"ACCEPTED", "PARTIALLY_FILLED"}

MutUnresolved == {"PENDING_SUBMISSION"} \cup Open

(* What list_unresolved_submissions returns.                                  *)
Unresolved == {"PENDING_SUBMISSION", "SUBMISSION_UNKNOWN"} \cup Open

Filled == 0..Quantity
NoOrder == [status |-> "NONE", filled |-> 0]
Snapshots == [status : {"NONE", "SUBMISSION_UNKNOWN"} \cup Open \cup Terminal, filled : Filled]

(* event_id is the event type with the cumulative quantity.                   *)
EventId == [type : {"PARTIALLY_FILLED", "FILLED", "CANCELLED"}, total : Filled]
NoEvent == [id |-> [type |-> "CANCELLED", total |-> 0], filled |-> 0]
NoCommand == [pc |-> "idle", seen |-> NoOrder, event |-> NoEvent, position |-> 0, cash |-> 0]

OrderTypeOK ==
  /\ broker \in Snapshots
  /\ flight \in BOOLEAN
  /\ row \in {"NONE", "PENDING_SUBMISSION", "SUBMISSION_UNKNOWN"} \cup Open \cup Terminal
  /\ \A e \in events : e.id \in EventId /\ e.filled \in Nat
  /\ applied \in SUBSET EventId
  /\ keys \in SUBSET EventId
  /\ position \in Int /\ funds \in Funds /\ cash \in Int
  /\ result \in Snapshots
  /\ \A p \in Process : command[p].seen \in Snapshots
  /\ crashes \in 0..MaxCrashes

OrderInit ==
  /\ broker = NoOrder /\ flight = FALSE
  /\ row = "NONE"
  /\ events = {} /\ applied = {}
  /\ keys = {} /\ position = 0
  /\ funds \in Funds /\ cash = funds
  /\ result = NoOrder
  /\ command = [p \in Process |-> NoCommand]
  /\ crashes = 0

In(p, pc) == command[p].pc = pc
Proceed(p, pc) == command' = [command EXCEPT ![p].pc = pc]
Keep(p, pc, seen) == command' = [command EXCEPT ![p].pc = pc, ![p].seen = seen]
Finish(p) == command' = [command EXCEPT ![p] = NoCommand]

Known == broker.status # "NONE"
Accepted == [status |-> "ACCEPTED", filled |-> 0]

-----------------------------------------------------------------------------
(* The broker: one order per client order id, filled in any portions.         *)

BrokerFills ==
  /\ broker.status \in Open
  /\ \E total \in Filled :
       /\ total > broker.filled
       /\ broker' = [status |-> IF total = Quantity THEN "FILLED" ELSE "PARTIALLY_FILLED",
                     filled |-> total]
  /\ UNCHANGED <<flight, row, eventVars, ledgerVars, result, command, crashes>>

BrokerCloses ==
  /\ broker.status \in Open
  /\ \E status \in {"CANCELLED", "EXPIRED"} : broker' = [broker EXCEPT !.status = status]
  /\ UNCHANGED <<flight, row, eventVars, ledgerVars, result, command, crashes>>

(* The runtime looks the order up before it submits (lumibot_gateway.py).     *)
LateArrival ==
  /\ flight
  /\ flight' = FALSE
  /\ broker' = IF Known THEN broker ELSE Accepted
  /\ UNCHANGED <<row, eventVars, ledgerVars, result, command, crashes>>

-----------------------------------------------------------------------------
(* submit_credentialed_paper_order.                                           *)

BeginSubmit(p) ==
  /\ In(p, "idle") /\ row \notin Terminal
  /\ row' = IF row = "NONE" THEN "PENDING_SUBMISSION" ELSE row
  /\ Proceed(p, "lookup")
  /\ UNCHANGED <<broker, flight, eventVars, ledgerVars, result, crashes>>

(* The lookup before any submission: an order is taken as it stands, a        *)
(* runtime that does not answer makes the outcome unknown.                    *)
Lookup(p) ==
  /\ In(p, "lookup")
  /\ \/ Known /\ Keep(p, "record", broker)
     \/ ~Known /\ Proceed(p, "submit")
     \/ Keep(p, "record", [NoOrder EXCEPT !.status = "SUBMISSION_UNKNOWN"])
  /\ UNCHANGED <<broker, flight, row, eventVars, ledgerVars, result, crashes>>

(* submit_order: answered, or failed with the request on its way or lost.     *)
Submit(p) ==
  /\ In(p, "submit")
  /\ \/ /\ broker' = IF Known THEN broker ELSE Accepted
        /\ Keep(p, "record", broker')
        /\ UNCHANGED flight
     \/ /\ flight' = TRUE
        /\ Proceed(p, "recover")
        /\ UNCHANGED broker
  /\ UNCHANGED <<row, eventVars, ledgerVars, result, crashes>>

(* One recovery lookup, never a second submission.                            *)
Recover(p) ==
  /\ In(p, "recover")
  /\ \/ Known /\ Keep(p, "record", broker)
     \/ Keep(p, "record", [NoOrder EXCEPT !.status = "SUBMISSION_UNKNOWN"])
  /\ UNCHANGED <<broker, flight, row, eventVars, ledgerVars, result, crashes>>

Record(p) ==
  /\ In(p, "record")
  /\ row' = command[p].seen.status
  /\ Finish(p)
  /\ UNCHANGED <<broker, flight, eventVars, ledgerVars, result, crashes>>

-----------------------------------------------------------------------------
(* sync_paper_orders, _sync_one.                                              *)

(* The submission is listed, and asked for afterwards.                        *)
List(p) ==
  /\ In(p, "idle")
  /\ row \in Unresolved
  /\ Proceed(p, "poll")
  /\ UNCHANGED <<broker, flight, row, eventVars, ledgerVars, result, crashes>>

Poll(p) ==
  /\ In(p, "poll")
  /\ IF Known THEN Keep(p, "events", broker) ELSE Finish(p)
  /\ UNCHANGED <<broker, flight, row, eventVars, ledgerVars, result, crashes>>

(* EXPIRED is booked as CANCELLED.                                            *)
Projected(status) == IF status = "EXPIRED" THEN "CANCELLED" ELSE status

(* The shares that the events of a set fill.                                  *)
Fills(es) == SumFunctionOnSet([e \in es |-> e.filled], es)
Recognized == Fills(events)

(* _build_event, from the fills that no event has recognized.                 *)
Derived(seen) ==
  LET delta == seen.filled - Recognized IN
  [id |-> [type |-> IF delta > 0
                    THEN IF seen.filled >= Quantity THEN "FILLED" ELSE "PARTIALLY_FILLED"
                    ELSE Projected(seen.status),
           total |-> seen.filled],
   filled |-> IF delta > 0 THEN delta ELSE 0]

BuildEvent(p) ==
  LET seen == command[p].seen IN
  /\ In(p, "events")
  /\ IF seen.filled > Recognized \/ seen.status \in Terminal
     THEN command' = [command EXCEPT ![p].pc = "save", ![p].event = Derived(seen)]
     ELSE Proceed(p, "status")
  /\ UNCHANGED <<broker, flight, row, eventVars, ledgerVars, result, crashes>>

Exists(id) == \E e \in events : e.id = id
Applied(id) == id \in applied

(* save_event keeps an event that exists.                                     *)
SaveEvent(p) ==
  LET event == command[p].event IN
  /\ In(p, "save")
  /\ events' = IF Exists(event.id) THEN events ELSE events \cup {event}
  /\ Proceed(p, "apply")
  /\ UNCHANGED <<broker, flight, row, applied, ledgerVars, result, crashes>>

(* An event that the ledger has not seen and that fills something.            *)
WantsLedger(event) == event.filled > 0 /\ ~Applied(event.id) /\ event.id \notin keys

(* apply_paper_execution_event up to the ledger's reads; too little settled   *)
(* cash raises, and ends the command.                                         *)
ApplyEvent(p) ==
  LET event == command[p].event IN
  /\ In(p, "apply")
  /\ \/ Applied(event.id) /\ Proceed(p, "status")
     \/ ~Applied(event.id) /\ ~WantsLedger(event) /\ Proceed(p, "mark")
     \/ /\ WantsLedger(event) /\ event.filled <= cash
        /\ command' = [command EXCEPT ![p].pc = "order", ![p].position = position, ![p].cash = cash]
     \/ WantsLedger(event) /\ event.filled > cash /\ Finish(p)
  /\ UNCHANGED <<broker, flight, row, eventVars, ledgerVars, result, crashes>>

(* _apply_fill: the order with its idempotency key, the position, the cash;   *)
(* both are written as they follow from what was read.                        *)
InsertOrder(p) ==
  /\ In(p, "order")
  /\ IF command[p].event.id \in keys
     THEN Finish(p) /\ UNCHANGED keys
     ELSE keys' = keys \cup {command[p].event.id} /\ Proceed(p, "position")
  /\ UNCHANGED <<broker, flight, row, eventVars, position, funds, cash, result, crashes>>

WritePosition(p) ==
  /\ In(p, "position")
  /\ IF command[p].position = 0 /\ position # 0
     THEN Finish(p) /\ UNCHANGED position
     ELSE position' = command[p].position + command[p].event.filled /\ Proceed(p, "cash")
  /\ UNCHANGED <<broker, flight, row, eventVars, keys, funds, cash, result, crashes>>

WriteCash(p) ==
  /\ In(p, "cash")
  /\ cash' = command[p].cash - command[p].event.filled
  /\ Proceed(p, "mark")
  /\ UNCHANGED <<broker, flight, row, eventVars, keys, position, funds, result, crashes>>

MarkApplied(p) ==
  /\ In(p, "mark")
  /\ applied' = applied \cup {command[p].event.id}
  /\ Proceed(p, "status")
  /\ UNCHANGED <<broker, flight, row, events, ledgerVars, result, crashes>>

WriteStatus(p) ==
  /\ In(p, "status")
  /\ row' = command[p].seen.status
  /\ IF row' \in Terminal THEN Proceed(p, "result") ELSE Finish(p)
  /\ UNCHANGED <<broker, flight, eventVars, ledgerVars, result, crashes>>

(* _finalize_result.                                                          *)
SaveResult(p) ==
  /\ In(p, "result")
  /\ result' = [command[p].seen EXCEPT !.status = Projected(@)]
  /\ Finish(p)
  /\ UNCHANGED <<broker, flight, row, eventVars, ledgerVars, crashes>>

(* The process dies, or an error nobody catches ends the command.             *)
Crash(p) ==
  /\ ~In(p, "idle") /\ crashes < MaxCrashes
  /\ crashes' = crashes + 1
  /\ Finish(p)
  /\ UNCHANGED <<broker, flight, row, eventVars, ledgerVars, result>>

SyncStep(p) ==
  \/ List(p) \/ Poll(p) \/ BuildEvent(p) \/ SaveEvent(p) \/ ApplyEvent(p) \/ InsertOrder(p)
  \/ WritePosition(p) \/ WriteCash(p) \/ MarkApplied(p) \/ WriteStatus(p) \/ SaveResult(p)

OrderNext ==
  \/ BrokerFills \/ BrokerCloses \/ LateArrival
  \/ \E p \in Submitter :
       BeginSubmit(p) \/ Lookup(p) \/ Submit(p) \/ Recover(p) \/ Record(p) \/ Crash(p)
  \/ \E p \in Syncer : SyncStep(p) \/ Crash(p)

OrderSpec == OrderInit /\ [][OrderNext]_orderVars

-----------------------------------------------------------------------------
(* Properties.                                                                *)

(* With one polling command at a time, whatever crashes between its commits   *)
(* and however often it is repeated: no share is booked that the broker has   *)
(* not filled, none twice, and cash is debited for booked shares only (event  *)
(* ids, idempotency keys, the order of the ledger's writes); and the result   *)
(* that closes an intent tells what the broker did, although submitter and    *)
(* poller overwrite each other's status with older answers                    *)
(* (update_submission_status, _finalize_result).                              *)
NeverOverbooked == position <= broker.filled /\ funds - cash <= position

ResultIsTrue ==
  result # NoOrder =>
    /\ result = [broker EXCEPT !.status = Projected(@)]
    /\ Recognized = result.filled

BookedAsFilled == OrderTypeOK /\ NeverOverbooked /\ ResultIsTrue

(* Commands that run take their next statement, and whoever polls comes back  *)
(* while an order is unresolved.                                              *)
OrderFairness ==
  /\ \A p \in Syncer : WF_orderVars(SyncStep(p))
  /\ \A p \in Submitter : WF_orderVars(Lookup(p) \/ Submit(p) \/ Recover(p) \/ Record(p))

(* An order the broker has closed is recorded as closed in the end: neither a *)
(* crash, an unknown outcome, a ledger that refuses the fill nor a late       *)
(* overwrite leaves its submission unresolved for good                        *)
(* (list_unresolved_submissions, update_submission_status).                   *)
OrderIsResolved == broker.status \in Terminal /\ row # "NONE" ~> row \in Terminal

(* "Apply newly observed fills to the internal paper ledger": an order that   *)
(* counts as complete has all of its fills there.                             *)
CompleteIsBooked ==
  row \in Terminal /\ (\A p \in Process : In(p, "idle")) => position = broker.filled
=============================================================================
