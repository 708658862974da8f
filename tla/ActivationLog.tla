----------------------------- MODULE ActivationLog -----------------------------
(* The activation of the recurring scheduler: an append-only table of events, *)
(* whose replay in the order of created_at is the current state.  Every       *)
(* operation takes its time stamp when it is called, reads the state, and     *)
(* inserts its event later, with no transaction around the three.             *)
EXTENDS Naturals, Sequences, SequencesExt

CONSTANTS
  Caller,        \* operators, and schedulers that pause for safety
  MaxLogTime,    \* bound: the clock
  MaxEvents      \* bound: events in the table

ASSUME ActivationAssumption == MaxLogTime \in Nat /\ MaxEvents \in Nat

VARIABLES
  clock,     \* the time a call would capture
  events,    \* paper_recurring_activation_events in the order of created_at, rowid
  call,      \* the calls in flight
  raced      \* history: an event was inserted while another call was in flight

logVars == <<clock, events, call, raced>>

Inactive == [state |-> "INACTIVE", id |-> 0, req |-> 0]
NoCall == [pc |-> "idle", kind |-> "none", at |-> 0, req |-> 0, prev |-> "INACTIVE"]

AllowedPrevious ==
  [ACTIVATION_REQUESTED |-> {"INACTIVE", "PAUSED_BY_SAFETY", "DEACTIVATED"},
   ACTIVE               |-> {"ACTIVATION_REQUESTED"},
   PAUSED_BY_SAFETY     |-> {"ACTIVE"},
   DEACTIVATED          |-> {"ACTIVATION_REQUESTED", "ACTIVE", "PAUSED_BY_SAFETY"}]

(* current_activation_state: an event whose previous state is not the one the *)
(* replay has reached is passed over.                                         *)
Apply(current, event) ==
  IF event.prev = current.state /\ current.state \in AllowedPrevious[event.new]
  THEN [state |-> event.new, id |-> event.id, req |-> event.req]
  ELSE current

Current == FoldLeft(Apply, Inactive, events)

LogInit == clock = 0 /\ events = <<>> /\ call = [p \in Caller |-> NoCall] /\ raced = FALSE

LogTick ==
  /\ clock < MaxLogTime /\ clock' = clock + 1
  /\ UNCHANGED <<events, call, raced>>

(* The call: an approval names a request that is in the table.                *)
Call(p, kind, req) ==
  /\ call[p].pc = "idle"
  /\ Len(events) < MaxEvents
  /\ call' = [call EXCEPT ![p] = [NoCall EXCEPT !.pc = "read", !.kind = kind, !.at = clock, !.req = req]]
  /\ UNCHANGED <<clock, events, raced>>

Requests == {events[i].id : i \in {j \in DOMAIN events : events[j].new = "ACTIVATION_REQUESTED"}}

(* Mutant: any request in the table may be approved while one is pending.     *)
MutMay(p) ==
  /\ Current.state \in AllowedPrevious[call[p].kind]

(* What each operation asks of the state it reads: an approval must be for    *)
(* the request in force, and no request is approved twice.                    *)
May(p) ==
  /\ Current.state \in AllowedPrevious[call[p].kind]
  /\ call[p].kind = "ACTIVE" =>
       /\ Current.id = call[p].req
       /\ \A i \in DOMAIN events : ~(events[i].new = "ACTIVE" /\ events[i].req = call[p].req)

Read(p) ==
  /\ call[p].pc = "read"
  /\ May(p)
  /\ call' = [call EXCEPT ![p].pc = "save", ![p].prev = Current.state,
                          ![p].req = IF call[p].kind = "ACTIVE" THEN @ ELSE Current.req]
  /\ UNCHANGED <<clock, events, raced>>

(* An operation that the state does not allow raises, and so does one whose   *)
(* activation review is not valid; a pause returns without an event.          *)
Refuse(p) ==
  /\ call[p].pc = "read"
  /\ call' = [call EXCEPT ![p] = NoCall]
  /\ UNCHANGED <<clock, events, raced>>

(* save_recurring_activation_event.                                           *)
Save(p) ==
  /\ call[p].pc = "save" /\ Len(events) < MaxEvents
  /\ LET place == Cardinality({i \in DOMAIN events : events[i].at <= call[p].at}) + 1
         new == call[p].kind
         event == [id |-> Len(events) + 1, new |-> new, prev |-> call[p].prev, at |-> call[p].at,
                   req |-> IF new = "ACTIVATION_REQUESTED" THEN 0 ELSE call[p].req]
     IN events' = InsertAt(events, place, event)
  /\ call' = [call EXCEPT ![p] = NoCall]
  /\ raced' = (raced \/ \E q \in Caller \ {p} : call[q].pc # "idle")
  /\ UNCHANGED clock

LogNext ==
  \/ LogTick
  \/ \E p \in Caller :
       \/ \E kind \in {"ACTIVATION_REQUESTED", "PAUSED_BY_SAFETY", "DEACTIVATED"} : Call(p, kind, 0)
       \/ \E r \in Requests : Call(p, "ACTIVE", r)
       \/ Read(p) \/ Refuse(p) \/ Save(p)

LogSpec == LogInit /\ [][LogNext]_logVars

-----------------------------------------------------------------------------
(* Properties.                                                                *)

LogTypeOK ==
  LET state == DOMAIN AllowedPrevious \cup {"INACTIVE"} IN
  /\ clock \in 0..MaxLogTime /\ raced \in BOOLEAN
  /\ Len(events) <= MaxEvents
  /\ \A i \in DOMAIN events :
       /\ events[i].id \in 1..Len(events) /\ events[i].new \in DOMAIN AllowedPrevious
       /\ events[i].prev \in state /\ events[i].at \in 0..clock /\ events[i].req \in 0..Len(events)
  /\ \A p \in Caller : /\ call[p].pc \in {"idle", "read", "save"} /\ call[p].at \in 0..clock
                       /\ call[p].prev \in state /\ call[p].req \in 0..Len(events)

(* As long as no two calls overlapped, every event that a call inserted took  *)
(* effect: the replay is in the state of the last one.                        *)
LastCallStands ==
  ~raced /\ events # <<>> => Current.id = Len(events)

(* As long as no two calls overlapped, an activation in force approves the    *)
(* request made last, with no deactivation in between.                        *)
ApprovesLastRequest ==
  ~raced /\ Current.state = "ACTIVE" =>
    \E i \in DOMAIN events : /\ events[i].new = "ACTIVATION_REQUESTED"
                             /\ events[i].id = Current.req /\ Current.id = Current.req + 1

(* The replayed state is what the calls, taken in order, left.                *)
ReplayFollowsCalls == LogTypeOK /\ LastCallStands /\ ApprovesLastRequest

(* The runbook, of a safety pause or a deactivation: it "requires a new       *)
(* request and explicit activation; there is no automatic resume".            *)
NoAutomaticResume ==
  [][Current.state \in {"PAUSED_BY_SAFETY", "DEACTIVATED"} => Current'.state # "ACTIVE"]_logVars
=============================================================================
