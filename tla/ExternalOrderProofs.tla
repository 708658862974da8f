------------------------ MODULE ExternalOrderProofs ------------------------
(***************************************************************************)
(* Theorems about one external paper order, for any number of operator     *)
(* calls, retries, misfortunes and shares, at any limit price.             *)
(***************************************************************************)
EXTENDS ExternalOrder, FiniteSetTheorems, WellFoundedInduction, TLAPS

\* Nothing was sent yet; no answer of the broker was recorded yet.
Unsent == {"NOT_SUBMITTED", "PREVIEWED"}
Unanswered == Unsent \cup {"SUBMISSION_REQUESTED", Unknown}

-----------------------------------------------------------------------------
(* What a call found under its lease, before it acts on it, stays true     *)
(* while the lease is its own: the evidence of a retry, and the books a    *)
(* fill sweep read.                                                        *)

HolderRuns == \A p \in Procs : holder = p => proc[p].pc \notin {"idle", "entering"}

RetryStands ==
    \A p \in Procs :
        holder = p /\ proc[p].pc = "preparing" => RetryEvidence /\ RetriesLeft

BrokerSound ==
    /\ broker.status = "NONE" => broker.filled = 0
    /\ broker.filled = Quantity => broker.status = "FILLED"

SweepIsCurrent ==
    \A p \in Procs :
        holder = p /\ proc[p].pc \in {"booking", "settling", "closing"} =>
            proc[p].total = applied

\* A sweep follows an answer of the broker.
SweepIsAnswered ==
    \A p \in Procs :
        /\ proc[p].pc = "synchronise" => proc[p].seen.status \notin {"NONE", "ERROR"}
        /\ proc[p].pc \in {"sweep", "booking", "settling", "closing"} =>
              proc[p].seen.status \in Terminal \cup Working

ReportsAreReal == \A p \in Procs : proc[p].report <= broker.filled

FillsAreBooked ==
    IF Cumulative
      THEN booked \subseteq 1 .. applied
      ELSE booked \subseteq 1 .. broker.filled /\ applied = Cardinality(booked)

BaseInv ==
    /\ TypeOK
    /\ HolderRuns
    /\ RetryStands
    /\ BrokerSound
    /\ SweepIsCurrent
    /\ SweepIsAnswered
    /\ ReportsAreReal
    /\ FillsAreBooked
    /\ BookedAtBroker

-----------------------------------------------------------------------------
(* The chain: what a call found under its lease stays true while the lease *)
(* is its own, and what it saw at the broker does not come undone.         *)

FenceKeepsChain ==
    \A p \in Procs : holder = p =>
        /\ proc[p].pc \in {"reserving", "checkpoint"} => chain.state = "PREVIEWED"
        /\ proc[p].pc \in {"calling", "awaiting", "answered", "ambiguous"} =>
              chain = [state |-> "SUBMISSION_REQUESTED", attempt |-> proc[p].attempt]
        /\ proc[p].pc \in {"cancelling", "cancelSent", "cancelAnswered"} =>
              chain = [state |-> "CANCEL_REQUESTED", attempt |-> proc[p].attempt]

FirstAttempt ==
    \A p \in Procs :
        proc[p].pc \in {"idle", "entering", "held", "reserving", "checkpoint"} =>
            proc[p].attempt = 0

SeenIsReal ==
    \A p \in Procs :
        LET status == proc[p].seen.status
        IN /\ status \in Terminal => broker.status = status
           /\ status \in Working \cup {"MALFORMED"} => broker.status # "NONE"
           /\ status = "CANCEL_REQUESTED" => chain.state \notin Unanswered

CancelsAreAnswered ==
    /\ broker.status = "CANCEL_REQUESTED" => chain.state \notin Unanswered
    /\ \A p \in Procs :
          proc[p].pc \in {"cancelling", "cancelSent", "cancelAnswered"} =>
              chain.state \notin Unanswered

UnsentIsClean ==
    chain.state \in Unsent =>
        /\ chain.attempt = 0
        /\ broker = NoOrder
        /\ inflight = {}
        /\ \A a \in Attempts : calls[a] = 0
        /\ \A p \in Procs : proc[p].pc # "calling"

NamespaceIsClaimed ==
    /\ chain.state # "NOT_SUBMITTED" => namespace = "EXTERNAL_PAPER"
    /\ \A p \in Procs : proc[p].pc = "previewing" => namespace = "EXTERNAL_PAPER"

CallsFollowChain ==
    /\ \A a \in Attempts : calls[a] <= 1 /\ (calls[a] > 0 => a <= chain.attempt)
    /\ \A p \in Procs : proc[p].pc = "calling" =>
          /\ calls[proc[p].attempt] = 0
          /\ proc[p].attempt <= chain.attempt
          /\ \A q \in Procs \ {p} :
                proc[q].pc = "calling" => proc[q].attempt # proc[p].attempt

ChainInv ==
    /\ FenceKeepsChain
    /\ FirstAttempt
    /\ SeenIsReal
    /\ CancelsAreAnswered
    /\ UnsentIsClean
    /\ NamespaceIsClaimed
    /\ CallsFollowChain
    /\ EndsAgree

-----------------------------------------------------------------------------
(* The budget: one attempt reservation is current, and it ends only once   *)
(* the broker has rejected the order or a retry takes over.                *)

OthersInactive ==
    \A a \in Attempts : /\ a < chain.attempt => reservation[a] = "SUPERSEDED_BY_RETRY"
                        /\ a > chain.attempt => reservation[a] = "NONE"

CurrentFollowsChain ==
    LET r == reservation[chain.attempt]
    IN /\ r # "SUPERSEDED_BY_RETRY"
       /\ r = "NONE" => chain.state \in Unsent
       /\ r = "RELEASED" => broker.status = "REJECTED"
       /\ r \in {"RELEASED", "SUBMITTED"} => chain.state \notin Unanswered

CheckpointReserved ==
    \A p \in Procs : proc[p].pc = "checkpoint" => reservation[0] # "NONE"

BudgetInv == OthersInactive /\ CurrentFollowsChain /\ CheckpointReserved

-----------------------------------------------------------------------------
(* The hold, where the runtime reports one cumulative fill.                *)

SentIsHeld == chain.state \notin Unsent => held

SweepIsComplete ==
    \A p \in Procs :
        holder = p /\ proc[p].seen.status \in Terminal =>
            /\ proc[p].pc = "booking" => proc[p].report = broker.filled
            /\ proc[p].pc \in {"settling", "closing"} => applied = broker.filled

HoldKept ==
    held => \/ hold >= (Quantity - applied) * LimitPrice
            \/ broker.status \in Terminal /\ applied = broker.filled

HoldInv == SentIsHeld /\ SweepIsComplete /\ HoldKept

-----------------------------------------------------------------------------
\* The least of two numbers, and of any set of numbers (FiniteSetsExt).
LEMMA MinOfSet ==
    ASSUME NEW S, S \subseteq Nat, S # {}
    PROVE  Min(S) \in S /\ \A n \in S : Min(S) <= n
<1>1. PICK m \in S : \A n \in S : ~ (<<n, m>> \in OpToRel(<, Nat))
  BY NatLessThanWellFounded, WFMin
<1>2. \A n \in S : m <= n
  <2> SUFFICES ASSUME NEW n \in S PROVE m <= n
    OBVIOUS
  <2>1. n \in Nat /\ m \in Nat /\ ~ (<<n, m>> \in OpToRel(<, Nat))
    BY <1>1
  <2> QED
    BY <2>1 DEF OpToRel
<1> QED
  BY <1>2 DEF Min

LEMMA MinOfPair ==
    ASSUME NEW a \in Nat, NEW b \in Nat
    PROVE  Min({a, b}) \in Nat /\ Min({a, b}) <= a /\ Min({a, b}) <= b
BY MinOfSet

\* The record of one call changes, the others stay.
Records == [pc : Labels, op : Ops \cup {"NONE", "RECONCILE"}, attempt : Attempts,
            stranded : BOOLEAN, seen : Snapshots, report : 0 .. Quantity,
            total : 0 .. Quantity]

LEMMA IdleTyped == Idle \in Records /\ \A l \in Labels : [Idle EXCEPT !.pc = l] \in Records
<1>1. NoOrder \in Snapshots /\ 0 \in Attempts /\ 0 \in 0 .. Quantity
  BY OrderAssumption DEF NoOrder, Snapshots, Attempts
<1>2. Idle \in Records
  BY <1>1 DEF Idle, Records, Labels
<1> QED
  BY <1>2 DEF Records

\* What a fill sweep has not booked yet are fills the runtime reported.
LEMMA UnbookedAreReported ==
    ASSUME TypeOK, NEW p \in Procs, Unbooked(p) # {}
    PROVE  LET fill == Min(Unbooked(p))
           IN /\ fill \in 1 .. proc[p].report
              /\ fill \notin booked
              /\ FillSize(p, fill) \in Nat \ {0}
              /\ Cumulative => fill = proc[p].report /\ fill > proc[p].total
<1>0. proc[p].report \in 0 .. Quantity /\ proc[p].total \in 0 .. Quantity
  BY DEF TypeOK
<1>1. Unbooked(p) \subseteq Nat
  BY <1>0, OrderAssumption DEF Unbooked
<1>2. Min(Unbooked(p)) \in Unbooked(p)
  BY <1>1, MinOfSet
<1> QED
  BY <1>0, <1>2, OrderAssumption DEF Unbooked, FillSize

-----------------------------------------------------------------------------
(* How a step changes the record of its call.                              *)

\* p's record becomes r, and no other call's changes.
Becomes(p, r) ==
    /\ proc' \in [Procs -> Records]
    /\ proc'[p] = r
    /\ \A q \in Procs \ {p} : proc'[q] = proc[q]

LEMMA BecomesRecord ==
    ASSUME proc \in [Procs -> Records], NEW p \in Procs, NEW r \in Records,
           proc' = [proc EXCEPT ![p] = r]
    PROVE  Becomes(p, r)
BY DEF Becomes

\* Goto moves the label alone.
LEMMA GotoMoves ==
    ASSUME proc \in [Procs -> Records], NEW p \in Procs, NEW l \in Labels, Goto(p, l)
    PROVE  /\ Becomes(p, proc'[p])
           /\ proc'[p].pc = l
           /\ proc'[p].op = proc[p].op
           /\ proc'[p].attempt = proc[p].attempt
           /\ proc'[p].stranded = proc[p].stranded
           /\ proc'[p].seen = proc[p].seen
           /\ proc'[p].report = proc[p].report
           /\ proc'[p].total = proc[p].total
<1>1. proc[p] \in Records
  OBVIOUS
<1>2. [proc[p] EXCEPT !.pc = l] \in Records
  BY <1>1 DEF Records
<1>3. proc' = [proc EXCEPT ![p] = [proc[p] EXCEPT !.pc = l]]
  BY DEF Goto
<1>4. Becomes(p, [proc[p] EXCEPT !.pc = l])
  BY <1>2, <1>3, BecomesRecord
<1> QED
  BY <1>1, <1>4 DEF Becomes, Records

\* Exit forgets all but the label.
LEMMA ExitMoves ==
    ASSUME proc \in [Procs -> Records], NEW p \in Procs, NEW l \in Labels,
           proc' = [proc EXCEPT ![p] = [Idle EXCEPT !.pc = l]]
    PROVE  /\ Becomes(p, proc'[p])
           /\ proc'[p].pc = l
           /\ proc'[p].op = "NONE"
           /\ proc'[p].attempt = 0
           /\ ~ proc'[p].stranded
           /\ proc'[p].seen = NoOrder
           /\ proc'[p].report = 0
           /\ proc'[p].total = 0
<1>1. [Idle EXCEPT !.pc = l] \in Records
  BY IdleTyped
<1>2. Becomes(p, [Idle EXCEPT !.pc = l])
  BY <1>1, BecomesRecord
<1> QED
  BY <1>2 DEF Becomes, Idle

\* The steps that set more than the label.
LEMMA AttemptMoves ==
    ASSUME proc \in [Procs -> Records], NEW p \in Procs, NEW l \in Labels,
           NEW a \in Attempts,
           proc' = [proc EXCEPT ![p].pc = l, ![p].attempt = a]
    PROVE  /\ Becomes(p, proc'[p])
           /\ proc'[p].pc = l
           /\ proc'[p].attempt = a
           /\ proc'[p].seen = proc[p].seen
           /\ proc'[p].report = proc[p].report
           /\ proc'[p].total = proc[p].total
<1>1. proc[p] \in Records
  OBVIOUS
<1> DEFINE r == [proc[p] EXCEPT !.pc = l, !.attempt = a]
<1>2. r \in Records /\ r.pc = l /\ r.attempt = a /\ r.seen = proc[p].seen
      /\ r.report = proc[p].report /\ r.total = proc[p].total
  BY <1>1 DEF Records
<1>3. proc' = [proc EXCEPT ![p] = r]
  OBVIOUS
<1> HIDE DEF r
<1>4. Becomes(p, r)
  BY <1>2, <1>3, BecomesRecord
<1> QED
  BY <1>2, <1>4 DEF Becomes

LEMMA SeenMoves ==
    ASSUME proc \in [Procs -> Records], NEW p \in Procs, NEW l \in Labels,
           NEW s \in Snapshots,
           proc' = [proc EXCEPT ![p].pc = l, ![p].seen = s]
    PROVE  /\ Becomes(p, proc'[p])
           /\ proc'[p].pc = l
           /\ proc'[p].attempt = proc[p].attempt
           /\ proc'[p].seen = s
           /\ proc'[p].report = proc[p].report
           /\ proc'[p].total = proc[p].total
<1>1. proc[p] \in Records
  OBVIOUS
<1> DEFINE r == [proc[p] EXCEPT !.pc = l, !.seen = s]
<1>2. r \in Records /\ r.pc = l /\ r.attempt = proc[p].attempt /\ r.seen = s
      /\ r.report = proc[p].report /\ r.total = proc[p].total
  BY <1>1 DEF Records
<1>3. proc' = [proc EXCEPT ![p] = r]
  OBVIOUS
<1> HIDE DEF r
<1>4. Becomes(p, r)
  BY <1>2, <1>3, BecomesRecord
<1> QED
  BY <1>2, <1>4 DEF Becomes

LEMMA ReadMoves ==
    ASSUME proc \in [Procs -> Records], NEW p \in Procs,
           NEW visible \in 0 .. Quantity, applied \in 0 .. Quantity,
           proc' = [proc EXCEPT ![p].pc = "booking", ![p].report = visible,
                                ![p].total = applied]
    PROVE  /\ Becomes(p, proc'[p])
           /\ proc'[p].pc = "booking"
           /\ proc'[p].attempt = proc[p].attempt
           /\ proc'[p].seen = proc[p].seen
           /\ proc'[p].report = visible
           /\ proc'[p].total = applied
<1>1. proc[p] \in Records /\ "booking" \in Labels
  BY DEF Labels
<1> DEFINE r == [proc[p] EXCEPT !.pc = "booking", !.report = visible, !.total = applied]
<1>2. r \in Records /\ r.pc = "booking" /\ r.attempt = proc[p].attempt
      /\ r.seen = proc[p].seen /\ r.report = visible /\ r.total = applied
  BY <1>1 DEF Records
<1>3. proc' = [proc EXCEPT ![p] = r]
  OBVIOUS
<1> HIDE DEF r
<1>4. Becomes(p, r)
  BY <1>2, <1>3, BecomesRecord
<1> QED
  BY <1>2, <1>4 DEF Becomes

LEMMA TotalMoves ==
    ASSUME proc \in [Procs -> Records], NEW p \in Procs, NEW n \in 0 .. Quantity,
           proc' = [proc EXCEPT ![p].total = n]
    PROVE  /\ Becomes(p, proc'[p])
           /\ proc'[p].pc = proc[p].pc
           /\ proc'[p].attempt = proc[p].attempt
           /\ proc'[p].seen = proc[p].seen
           /\ proc'[p].report = proc[p].report
           /\ proc'[p].total = n
<1>1. proc[p] \in Records
  OBVIOUS
<1> DEFINE r == [proc[p] EXCEPT !.total = n]
<1>2. r \in Records /\ r.pc = proc[p].pc /\ r.attempt = proc[p].attempt
      /\ r.seen = proc[p].seen /\ r.report = proc[p].report /\ r.total = n
  BY <1>1 DEF Records
<1>3. proc' = [proc EXCEPT ![p] = r]
  OBVIOUS
<1> HIDE DEF r
<1>4. Becomes(p, r)
  BY <1>2, <1>3, BecomesRecord
<1> QED
  BY <1>2, <1>4 DEF Becomes

LEMMA EnterMoves ==
    ASSUME proc \in [Procs -> Records], NEW p \in Procs, NEW o \in Ops,
           proc' = [proc EXCEPT ![p].pc = "entering", ![p].op = o]
    PROVE  /\ Becomes(p, proc'[p])
           /\ proc'[p].pc = "entering"
           /\ proc'[p].attempt = proc[p].attempt
           /\ proc'[p].seen = proc[p].seen
           /\ proc'[p].report = proc[p].report
           /\ proc'[p].total = proc[p].total
<1>1. proc[p] \in Records /\ "entering" \in Labels
  BY DEF Labels
<1> DEFINE r == [proc[p] EXCEPT !.pc = "entering", !.op = o]
<1>2. r \in Records /\ r.pc = "entering" /\ r.attempt = proc[p].attempt
      /\ r.seen = proc[p].seen /\ r.report = proc[p].report
  BY <1>1 DEF Records
<1>3. proc' = [proc EXCEPT ![p] = r]
  OBVIOUS
<1> HIDE DEF r
<1>4. Becomes(p, r)
  BY <1>2, <1>3, BecomesRecord
<1> QED
  BY <1>2, <1>4 DEF Becomes

\* A reconciliation starts afresh.
LEMMA ReconcileMoves ==
    ASSUME proc \in [Procs -> Records], NEW p \in Procs, BeginReconcile(p)
    PROVE  /\ Becomes(p, proc'[p])
           /\ proc'[p].pc \in {"failed", "lookup"}
           /\ proc'[p].attempt = 0
           /\ proc'[p].seen = NoOrder
           /\ proc'[p].report = 0
           /\ proc'[p].total = 0
<1>1. Idle \in Records /\ "failed" \in Labels /\ "lookup" \in Labels
  BY IdleTyped DEF Labels
<1> DEFINE r == IF chain.state = "NOT_SUBMITTED"
                  THEN [Idle EXCEPT !.pc = "failed"]
                  ELSE [Idle EXCEPT !.pc = "lookup", !.op = "RECONCILE",
                                    !.stranded = chain.state = "SUBMISSION_REQUESTED"]
<1>2. r \in Records
  BY <1>1 DEF Records
<1>3. /\ r.pc \in {"failed", "lookup"}
      /\ r.attempt = 0
      /\ r.seen = NoOrder
      /\ r.report = 0
      /\ r.total = 0
  BY DEF Idle
<1>4. proc' = [proc EXCEPT ![p] = r]
  BY DEF BeginReconcile
<1> HIDE DEF r
<1>5. Becomes(p, r)
  BY <1>2, <1>4, BecomesRecord
<1> QED
  BY <1>3, <1>5 DEF Becomes

-----------------------------------------------------------------------------
(* Types.                                                                  *)

RowsTyped ==
    /\ chain \in [state : OrderStates, attempt : Attempts]
    /\ preview \in BOOLEAN
    /\ namespace \in {"UNCLAIMED", "EXTERNAL_PAPER", "LOCAL_SIMULATED"}
    /\ lookup \in [result : {"NONE", "FOUND", "NOT_FOUND"},
                   authoritative : BOOLEAN, current : BOOLEAN]
    /\ reservation \in [Attempts -> ReservationStates]
    /\ hold \in 0 .. Quantity * LimitPrice
    /\ held \in BOOLEAN
    /\ booked \subseteq 1 .. Quantity
    /\ applied \in Nat
    /\ orderStatus \in OrderStates \cup {"PENDING_SUBMISSION"}
    /\ recon \in {"NONE", "MATCHED", "ORDER_MISSING_AT_BROKER", "CRITICAL"}

LEMMA TypeOKSplits ==
    TypeOK <=> /\ RowsTyped
               /\ holder \in Procs \cup {Nobody}
               /\ proc \in [Procs -> Records]
               /\ broker \in [status : Terminal \cup Working \cup {"NONE"},
                              filled : 0 .. Quantity]
               /\ inflight \subseteq Attempts
               /\ side \in Sides /\ fresh \in BOOLEAN /\ barred \in BOOLEAN
               /\ calls \in [Attempts -> Nat]
               /\ faults \in 0 .. MaxFaults
BY DEF TypeOK, RowsTyped, Records

LEMMA TransitionsTyped ==
    ASSUME NEW s \in OrderStates
    PROVE  Transitions[s] \subseteq OrderStates
BY DEF Transitions, OrderStates, Terminal, Working, Unknown

\* _append_event.
LEMMA AppendMoves ==
    ASSUME RowsTyped, NEW s, NEW a \in Attempts, AppendEvent(s, a)
    PROVE  /\ s \in Transitions[chain.state]
           /\ chain' \in [state : OrderStates, attempt : Attempts]
           /\ chain'.state = s
           /\ chain'.attempt = a
           /\ lookup' \in [result : {"NONE", "FOUND", "NOT_FOUND"},
                           authoritative : BOOLEAN, current : BOOLEAN]
<1>1. chain.state \in OrderStates
  BY DEF RowsTyped
<1>2. s \in OrderStates
  BY <1>1, TransitionsTyped DEF AppendEvent
<1> QED
  BY <1>2 DEF AppendEvent, RowsTyped

\* reserve_for_order, reserve_shares_for_sell.
LEMMA ReserveOrderTyped ==
    ASSUME RowsTyped, ReserveOrder
    PROVE  held' \in BOOLEAN /\ hold' \in 0 .. Quantity * LimitPrice
<1>1. Quantity * LimitPrice \in Nat
  BY OrderAssumption
<1> QED
  BY <1>1 DEF ReserveOrder, RowsTyped

LEMMA SettledTyped ==
    ASSUME NEW r, NEW s
    PROVE  Settled(r, s) \in ReservationStates
BY DEF Settled, ReservationStates, ActiveReservation

LEMMA SettleTyped ==
    ASSUME RowsTyped, NEW a \in Attempts, NEW s, Settle(a, s)
    PROVE  reservation' \in [Attempts -> ReservationStates]
BY SettledTyped DEF Settle, RowsTyped

LEMMA RepairTyped ==
    ASSUME RowsTyped, NEW s, Repair(RepairTarget(s))
    PROVE  reservation' \in [Attempts -> ReservationStates]
<1>1. RepairTarget(s) \in ReservationStates
  BY DEF RepairTarget, ReservationStates, ActiveReservation
<1> QED
  BY <1>1 DEF Repair, RowsTyped

\* No statement of a call leaves a row out of type.
LEMMA CallKeepsRows ==
    ASSUME TypeOK, NEW p \in Procs, Step(p), RetryStands, SweepIsAnswered
    PROVE  RowsTyped'
<1>0. RowsTyped /\ proc[p] \in Records
  BY TypeOKSplits
<1>1. ASSUME UNCHANGED local PROVE RowsTyped'
  BY <1>0, <1>1 DEF local, RowsTyped
<1>2. chain.attempt \in Attempts /\ proc[p].attempt \in Attempts /\ 0 \in Attempts
  BY <1>0, OrderAssumption DEF RowsTyped, Records, Attempts
<1>3. CASE \/ Acquire(p) \/ Refuse(p) \/ Displaced(p) \/ InvalidResponse(p) \/ Return(p)
           \/ BeginSubmit(p) \/ BeginRetry(p) \/ CallBroker(p) \/ BrokerAnswers(p)
           \/ CallFails(p) \/ ReadFills(p) \/ BeginReconcile(p) \/ LookUp(p)
           \/ ConflictingEvidence(p) \/ CancelAtBroker(p) \/ CancelAnswers(p)
           \/ CancelTimesOut(p) \/ CancelUnknown(p)
  BY <1>1, <1>3
  DEF Acquire, Refuse, Displaced, InvalidResponse, Return, BeginSubmit, BeginRetry,
      CallBroker, BrokerAnswers, CallFails, ReadFills, BeginReconcile, LookUp,
      ConflictingEvidence, CancelAtBroker, CancelAnswers, CancelTimesOut, CancelUnknown
<1>4. CASE PersistFailure(p) \/ PersistVerdict(p)
  <2>1. recon' \in {"NONE", "MATCHED", "ORDER_MISSING_AT_BROKER", "CRITICAL"}
    BY <1>4 DEF PersistFailure, PersistVerdict, Verdict
  <2> QED
    BY <1>0, <1>4, <2>1 DEF PersistFailure, PersistVerdict, RowsTyped
<1>5. CASE ClaimNamespace(p) \/ RefreshPreview(p)
  BY <1>0, <1>5 DEF ClaimNamespace, RefreshPreview, RowsTyped
<1>6. CASE SavePreview(p)
  BY <1>0, <1>2, <1>6, AppendMoves DEF SavePreview, RowsTyped
<1>7. CASE Reserve(p)
  BY <1>0, <1>2, <1>7 DEF Reserve, RowsTyped, ReservationStates, ActiveReservation
<1>8. CASE Checkpoint(p)
  BY <1>0, <1>2, <1>8, AppendMoves, ReserveOrderTyped DEF Checkpoint, RowsTyped
<1>9. CASE PrepareRetry(p)
  <2>1. chain.attempt + 1 \in Attempts
    BY <1>2, <1>9, OrderAssumption
    DEF PrepareRetry, At, Fenced, RetryStands, RetriesLeft, Attempts
  <2>2. reservation' \in [Attempts -> ReservationStates]
    BY <1>0, <1>9 DEF PrepareRetry, RowsTyped, ReservationStates, ActiveReservation
  <2> QED
    BY <1>0, <1>9, <2>1, <2>2, AppendMoves, ReserveOrderTyped DEF PrepareRetry, RowsTyped
<1>10. CASE RecordUnknown(p)
  BY <1>0, <1>2, <1>10, AppendMoves, SettleTyped DEF RecordUnknown, RowsTyped
<1>11. CASE RecordResponse(p)
  <2>1. chain.state \in OrderStates
    BY <1>0 DEF RowsTyped
  <2> QED
    BY <1>0, <1>2, <1>11, <2>1, AppendMoves, SettleTyped, TransitionsTyped
    DEF RecordResponse, RowsTyped
<1>12. CASE ApplyFill(p)
  <2>1. proc[p].total \in 0 .. Quantity /\ proc[p].report \in 0 .. Quantity
    BY <1>0 DEF Records
  <2> DEFINE fill == Min(Unbooked(p))
             size == FillSize(p, fill)
  <2>2. fill \in 1 .. proc[p].report /\ size \in Nat
    BY <1>12, UnbookedAreReported DEF ApplyFill
  <2>3. booked' = booked \cup {fill} /\ applied' = applied + size
    BY <1>12 DEF ApplyFill
  <2>4. PICK price \in 1 .. LimitPrice : hold' = hold - Min({hold, size * price})
    BY <1>12 DEF ApplyFill
  <2> HIDE DEF fill, size
  <2>5. fill \in 1 .. Quantity /\ booked' \subseteq 1 .. Quantity /\ applied' \in Nat
    <3>1. fill \in 1 .. Quantity
      BY <2>1, <2>2, OrderAssumption
    <3> QED
      BY <1>0, <2>2, <2>3, <3>1 DEF RowsTyped
  <2>6. hold' \in 0 .. Quantity * LimitPrice
    <3>1. hold \in Nat /\ hold <= Quantity * LimitPrice /\ Quantity * LimitPrice \in Nat
      BY <1>0, OrderAssumption DEF RowsTyped
    <3>2. size * price \in Nat
      BY <2>2, <2>4, OrderAssumption
    <3> QED
      BY <2>4, <3>1, <3>2, MinOfPair
  <2> QED
    BY <1>0, <1>12, <2>5, <2>6 DEF ApplyFill, RowsTyped
<1>13. CASE RecordFills(p)
  BY <1>0, <1>2, <1>13, AppendMoves DEF RecordFills, RowsTyped, OrderStates, Terminal, Working
<1>14. CASE ReleaseFilled(p)
  BY <1>0, <1>14, OrderAssumption DEF ReleaseFilled, RowsTyped
<1>15. CASE CloseSweep(p)
  <2>1. 0 \in 0 .. Quantity * LimitPrice
    BY OrderAssumption
  <2>2. orderStatus' \in OrderStates \cup {"PENDING_SUBMISSION"}
    BY <1>0, <1>15
    DEF CloseSweep, At, RowsTyped, SweepIsAnswered, OrderStates
  <2> QED
    BY <1>0, <1>15, <2>1, <2>2 DEF CloseSweep, RowsTyped
<1>16. CASE Bridge(p)
  BY <1>0, <1>2, <1>16, AppendMoves DEF Bridge, RowsTyped
<1>17. CASE SaveLookup(p)
  BY <1>0, <1>17, RepairTyped DEF SaveLookup, RowsTyped
<1>18. CASE Synchronise(p)
  BY <1>0, <1>2, <1>18, AppendMoves, RepairTyped DEF Synchronise, RowsTyped
<1>19. CASE RequestCancel(p)
  BY <1>0, <1>2, <1>19, AppendMoves DEF RequestCancel, RowsTyped
<1>20. CASE RecordCancel(p)
  BY <1>0, <1>2, <1>20, AppendMoves DEF RecordCancel, RowsTyped
<1> QED
  BY <1>3, <1>4, <1>5, <1>6, <1>7, <1>8, <1>9, <1>10, <1>11, <1>12, <1>13, <1>14, <1>15,
     <1>16, <1>17, <1>18, <1>19, <1>20
  DEF Step

BrokerStates == [status : Terminal \cup Working \cup {"NONE"}, filled : 0 .. Quantity]

\* What the calls saw of the broker is a snapshot.
LEMMA BrokerIsSnapshot ==
    ASSUME broker \in BrokerStates
    PROVE  /\ broker \in Snapshots
           /\ NoOrder \in Snapshots
           /\ \A s \in {"CANCEL_REQUESTED", "ERROR", "MALFORMED"} :
                 /\ [broker EXCEPT !.status = s] \in Snapshots
                 /\ [NoOrder EXCEPT !.status = s] \in Snapshots
BY OrderAssumption DEF BrokerStates, Snapshots, NoOrder, Working

\* A step of a call changes the record of that call alone.
LEMMA CallMoves ==
    ASSUME BaseInv, NEW p \in Procs, Step(p)
    PROVE  Becomes(p, proc'[p])
<1>0. /\ proc \in [Procs -> Records] /\ proc[p] \in Records
      /\ broker \in BrokerStates
      /\ chain.attempt \in Attempts
      /\ applied \in 0 .. Quantity
  <2>1. broker \in BrokerStates /\ proc \in [Procs -> Records] /\ RowsTyped
    BY TypeOKSplits DEF BaseInv, BrokerStates
  <2> QED
    BY <2>1, OrderAssumption DEF BaseInv, BookedAtBroker, BrokerStates, RowsTyped
<1>1. CASE \/ Acquire(p) \/ ClaimNamespace(p) \/ BeginSubmit(p) \/ Reserve(p) \/ Checkpoint(p)
           \/ BeginRetry(p) \/ CallBroker(p) \/ CallFails(p) \/ RecordResponse(p)
           \/ RecordFills(p) \/ ReleaseFilled(p) \/ SaveLookup(p) \/ Synchronise(p)
           \/ Bridge(p) \/ CancelAtBroker(p) \/ CancelTimesOut(p) \/ RecordCancel(p)
  <2>1. PICK l \in Labels : Goto(p, l)
    BY <1>1
    DEF Acquire, ClaimNamespace, BeginSubmit, Reserve, Checkpoint, BeginRetry, CallBroker,
        CallFails, RecordResponse, RecordFills, ReleaseFilled, SaveLookup, Synchronise,
        Bridge, CancelAtBroker, CancelTimesOut, RecordCancel, Labels
  <2> QED
    BY <1>0, <2>1, GotoMoves
<1>2. CASE \/ Refuse(p) \/ Displaced(p) \/ InvalidResponse(p) \/ PersistFailure(p)
           \/ SavePreview(p) \/ RefreshPreview(p) \/ RecordUnknown(p)
           \/ ConflictingEvidence(p) \/ PersistVerdict(p) \/ CancelUnknown(p)
  <2>1. PICK l \in Labels : Exit(p, l)
    BY <1>2
    DEF Refuse, Displaced, InvalidResponse, PersistFailure, SavePreview, RefreshPreview,
        RecordUnknown, ConflictingEvidence, PersistVerdict, CancelUnknown, Labels
  <2> QED
    BY <1>0, <2>1, ExitMoves DEF Exit
<1>3. CASE Return(p)
  BY <1>0, <1>3, IdleTyped, BecomesRecord DEF Return, Becomes
<1>4. CASE PrepareRetry(p)
  <2>1. chain.attempt + 1 \in Attempts /\ "calling" \in Labels
    BY <1>0, <1>4, OrderAssumption
    DEF BaseInv, PrepareRetry, At, Fenced, RetryStands, RetriesLeft, Attempts, Labels
  <2> QED
    BY <1>0, <1>4, <2>1, AttemptMoves DEF PrepareRetry
<1>5. CASE BrokerAnswers(p) \/ LookUp(p) \/ CancelAnswers(p)
  <2>1. PICK l \in Labels, s \in Snapshots :
           proc' = [proc EXCEPT ![p].pc = l, ![p].seen = s]
    <3>1. broker \in Snapshots /\ [broker EXCEPT !.status = "CANCEL_REQUESTED"] \in Snapshots
      BY <1>0, BrokerIsSnapshot
    <3>2. broker = [broker EXCEPT !.status = broker.status]
      BY <1>0 DEF BrokerStates
    <3>3. CASE BrokerAnswers(p)
      BY <3>1, <3>3 DEF BrokerAnswers, Labels
    <3>4. CASE LookUp(p)
      BY <3>1, <3>4 DEF LookUp, Labels
    <3>5. CASE CancelAnswers(p)
      BY <3>1, <3>2, <3>5 DEF CancelAnswers, Labels
    <3> QED
      BY <1>5, <3>3, <3>4, <3>5
  <2> QED
    BY <1>0, <2>1, SeenMoves
<1>6. CASE ReadFills(p)
  <2>1. PICK visible \in 0 .. broker.filled :
           proc' = [proc EXCEPT ![p].pc = "booking", ![p].report = visible,
                                ![p].total = applied]
    BY <1>6 DEF ReadFills
  <2>2. visible \in 0 .. Quantity
    BY <1>0, <2>1, OrderAssumption DEF BrokerStates
  <2> QED
    BY <1>0, <2>1, <2>2, ReadMoves
<1>7. CASE ApplyFill(p)
  <2>1. PICK size : /\ proc[p].total + size <= Quantity
                    /\ size \in Nat
                    /\ proc' = [proc EXCEPT ![p].total = @ + size]
    BY <1>7, UnbookedAreReported DEF ApplyFill, BaseInv
  <2>2. proc[p].total + size \in 0 .. Quantity
    BY <1>0, <2>1, OrderAssumption DEF Records
  <2> QED
    BY <1>0, <2>1, <2>2, TotalMoves
<1>8. CASE CloseSweep(p)
  <2>1. PICK l \in Labels : Exit(p, l) \/ Goto(p, l)
    BY <1>8 DEF CloseSweep, Labels
  <2> QED
    BY <1>0, <2>1, ExitMoves, GotoMoves DEF Exit
<1>9. CASE BeginReconcile(p)
  BY <1>0, <1>9, ReconcileMoves
<1>10. CASE RequestCancel(p)
  BY <1>0, <1>10, AttemptMoves DEF RequestCancel, Labels
<1> QED
  BY <1>1, <1>2, <1>3, <1>4, <1>5, <1>6, <1>7, <1>8, <1>9, <1>10 DEF Step

\* What a step of a call leaves alone: only the holder of the lease writes
\* the chain, the lookup and the books; only two steps reach the broker.
LEMMA CallFrames ==
    ASSUME NEW p \in Procs, Step(p)
    PROVE  /\ \/ holder' = holder
              \/ At(p, "entering") /\ holder' = p /\ Goto(p, "held")
              \/ holder = p /\ holder' = Nobody /\ proc' = [proc EXCEPT ![p] = Idle]
           /\ faults' = faults
           /\ CallBroker(p) \/ CancelAtBroker(p) \/ UNCHANGED <<world, calls>>
           /\ admission' = admission
           /\ Fenced(p) \/ UNCHANGED <<chain, lookup>>
           /\ (Fenced(p) /\ ApplyFill(p)) \/ UNCHANGED <<applied, booked>>
<1> USE DEF Fenced, local, world
<1>1. CASE Acquire(p) \/ Refuse(p) \/ Displaced(p) \/ PersistFailure(p) \/ InvalidResponse(p)
  BY <1>1 DEF Acquire, Refuse, Displaced, PersistFailure, InvalidResponse
<1>2. CASE Return(p) \/ ClaimNamespace(p) \/ SavePreview(p) \/ RefreshPreview(p) \/ BeginSubmit(p)
  BY <1>2 DEF Return, ClaimNamespace, SavePreview, RefreshPreview, BeginSubmit, AppendEvent
<1>3. CASE Reserve(p) \/ Checkpoint(p) \/ BeginRetry(p) \/ PrepareRetry(p) \/ CallBroker(p)
  BY <1>3 DEF Reserve, Checkpoint, BeginRetry, PrepareRetry, CallBroker, AppendEvent
<1>4. CASE BrokerAnswers(p) \/ CallFails(p) \/ RecordUnknown(p) \/ RecordResponse(p) \/ ReadFills(p)
  BY <1>4 DEF BrokerAnswers, CallFails, RecordUnknown, RecordResponse, ReadFills
<1>5. CASE ApplyFill(p) \/ RecordFills(p) \/ ReleaseFilled(p) \/ CloseSweep(p) \/ BeginReconcile(p)
  BY <1>5 DEF ApplyFill, RecordFills, ReleaseFilled, CloseSweep, BeginReconcile
<1>6. CASE LookUp(p) \/ Bridge(p) \/ SaveLookup(p) \/ Synchronise(p) \/ ConflictingEvidence(p)
  BY <1>6 DEF LookUp, Bridge, SaveLookup, Synchronise, ConflictingEvidence
<1>7. CASE PersistVerdict(p) \/ RequestCancel(p) \/ CancelAtBroker(p) \/ CancelAnswers(p) \/ CancelTimesOut(p)
  BY <1>7 DEF PersistVerdict, RequestCancel, CancelAtBroker, CancelAnswers, CancelTimesOut
<1>8. CASE RecordCancel(p) \/ CancelUnknown(p)
  BY <1>8 DEF RecordCancel, CancelUnknown
<1> QED
  BY <1>1, <1>2, <1>3, <1>4, <1>5, <1>6, <1>7, <1>8 DEF Step

\* A step of a call leaves everything in type.
LEMMA CallKeepsTypes ==
    ASSUME BaseInv, NEW p \in Procs, Step(p)
    PROVE  TypeOK'
<1>0. TypeOK /\ RetryStands /\ SweepIsAnswered
  BY DEF BaseInv
<1>1. RowsTyped' /\ proc' \in [Procs -> Records]
  BY <1>0, CallKeepsRows, CallMoves DEF Becomes
<1>2. /\ holder' \in Procs \cup {Nobody}
      /\ broker' \in BrokerStates
      /\ inflight' \subseteq Attempts
      /\ calls' \in [Attempts -> Nat]
      /\ faults' \in 0 .. MaxFaults
  <2>0. /\ holder \in Procs \cup {Nobody}
        /\ broker \in BrokerStates
        /\ inflight \subseteq Attempts
        /\ calls \in [Attempts -> Nat]
        /\ faults \in 0 .. MaxFaults
        /\ proc[p].attempt \in Attempts
    BY <1>0, TypeOKSplits DEF BrokerStates, Records
  <2>1. CASE CallBroker(p)
    BY <2>0, <2>1 DEF CallBroker, local
  <2>2. CASE CancelAtBroker(p)
    BY <2>0, <2>2 DEF CancelAtBroker, BrokerStates, Terminal, Working
  <2>3. CASE UNCHANGED <<world, calls>>
    BY <1>0, <2>0, <2>3, CallFrames DEF world
  <2> QED
    BY <2>1, <2>2, <2>3, CallFrames
<1>3. side' \in Sides /\ fresh' \in BOOLEAN /\ barred' \in BOOLEAN
  BY <1>0, CallFrames, TypeOKSplits DEF admission
<1> QED
  BY <1>1, <1>2, <1>3 DEF TypeOK, RowsTyped, Records, BrokerStates

-----------------------------------------------------------------------------
\* Where a step of a call takes it: the steps by which each label is reached.
Arrives(p) ==
    LET l == proc'[p].pc
    IN /\ l # "entering"
       /\ l = "idle" => Return(p)
       /\ l = "held" => Acquire(p)
       /\ l = "previewing" => ClaimNamespace(p)
       /\ l = "reserving" => BeginSubmit(p)
       /\ l = "checkpoint" => Reserve(p)
       /\ l = "preparing" => BeginRetry(p)
       /\ l = "calling" => Checkpoint(p) \/ PrepareRetry(p)
       /\ l = "awaiting" => CallBroker(p)
       /\ l = "answered" => BrokerAnswers(p)
       /\ l = "ambiguous" => CallFails(p)
       /\ l = "sweep" => RecordResponse(p) \/ RecordCancel(p) \/ Synchronise(p)
       /\ l = "booking" => ReadFills(p) \/ ApplyFill(p)
       /\ l = "settling" => RecordFills(p)
       /\ l = "closing" => ReleaseFilled(p)
       /\ l = "synchronise" => SaveLookup(p)
       /\ l = "cancelling" => RequestCancel(p)
       /\ l = "cancelSent" => CancelAtBroker(p)
       /\ l = "cancelAnswered" => CancelAnswers(p)

\* What a step of a call remembers: the fields other than the label are kept,
\* but by the steps that set them, or all cleared.
Fresh == {"idle", "reconcile", "lookup", "failed", "leaving"}

Remembers(p) ==
    LET old == proc[p]
        new == proc'[p]
    IN IF new.pc \in Fresh
         THEN new.attempt = 0 /\ new.seen = NoOrder /\ new.report = 0 /\ new.total = 0
         ELSE /\ new.attempt = IF old.pc = "preparing" THEN chain.attempt + 1
                               ELSE IF new.pc = "cancelling" THEN chain.attempt
                               ELSE old.attempt
              /\ new.seen = IF old.pc \in {"awaiting", "lookup"} /\ new.pc # "ambiguous"
                              THEN broker
                            ELSE IF new.pc = "cancelAnswered"
                              THEN [broker EXCEPT !.status =
                                      IF @ = "SUBMITTED" THEN "CANCEL_REQUESTED" ELSE @]
                            ELSE old.seen
              /\ IF old.pc = "sweep"
                   THEN /\ new.report <= broker.filled
                        /\ Cumulative => new.report = broker.filled
                        /\ new.total = applied
                   ELSE /\ new.report = old.report
                        /\ new.total = IF new.pc = "booking"
                                         THEN old.total + (applied' - applied)
                                         ELSE old.total

LEMMA CallArrives ==
    ASSUME BaseInv, NEW p \in Procs, Step(p)
    PROVE  Arrives(p) /\ Remembers(p)
<1>0. /\ proc \in [Procs -> Records] /\ proc[p] \in Records
      /\ broker \in BrokerStates
      /\ chain.attempt \in Attempts
      /\ applied \in 0 .. Quantity
  <2>1. broker \in BrokerStates /\ proc \in [Procs -> Records] /\ RowsTyped
    BY TypeOKSplits DEF BaseInv, BrokerStates
  <2> QED
    BY <2>1, OrderAssumption DEF BaseInv, BookedAtBroker, BrokerStates, RowsTyped
<1>1. \A l \in Labels : Goto(p, l) =>
         /\ proc'[p].pc = l
         /\ proc'[p].attempt = proc[p].attempt
         /\ proc'[p].seen = proc[p].seen
         /\ proc'[p].report = proc[p].report
         /\ proc'[p].total = proc[p].total
  BY <1>0, GotoMoves
<1>2. \A l \in Labels : Exit(p, l) =>
         /\ proc'[p].pc = l
         /\ proc'[p].attempt = 0
         /\ proc'[p].seen = NoOrder
         /\ proc'[p].report = 0
         /\ proc'[p].total = 0
  BY <1>0, ExitMoves DEF Exit
<1>3. CASE Acquire(p) \/ ClaimNamespace(p) \/ BeginSubmit(p) \/ Reserve(p) \/ Checkpoint(p) \/ BeginRetry(p)
  BY <1>1, <1>2, <1>3 DEF Arrives, Remembers, Fresh, Labels, At, Acquire, ClaimNamespace, BeginSubmit, Reserve, Checkpoint, BeginRetry
<1>4. CASE CallBroker(p) \/ CallFails(p) \/ RecordResponse(p) \/ RecordFills(p) \/ ReleaseFilled(p) \/ SaveLookup(p)
  BY <1>1, <1>2, <1>4 DEF Arrives, Remembers, Fresh, Labels, At, CallBroker, CallFails, RecordResponse, RecordFills, ReleaseFilled, SaveLookup
<1>5. CASE Synchronise(p) \/ Bridge(p) \/ CancelAtBroker(p) \/ CancelTimesOut(p) \/ RecordCancel(p)
  BY <1>1, <1>2, <1>5 DEF Arrives, Remembers, Fresh, Labels, At, Synchronise, Bridge, CancelAtBroker, CancelTimesOut, RecordCancel
<1>6. CASE Refuse(p) \/ Displaced(p) \/ InvalidResponse(p) \/ PersistFailure(p) \/ SavePreview(p) \/ RefreshPreview(p)
  BY <1>1, <1>2, <1>6 DEF Arrives, Remembers, Fresh, Labels, At, Refuse, Displaced, InvalidResponse, PersistFailure, SavePreview, RefreshPreview
<1>7. CASE RecordUnknown(p) \/ ConflictingEvidence(p) \/ PersistVerdict(p) \/ CancelUnknown(p) \/ CloseSweep(p)
  BY <1>1, <1>2, <1>7 DEF Arrives, Remembers, Fresh, Labels, At, RecordUnknown, ConflictingEvidence, PersistVerdict, CancelUnknown, CloseSweep
<1>20. CASE Return(p)
  <2>1. proc'[p] = Idle
    BY <1>0, <1>20 DEF Return
  <2> QED
    BY <1>20, <2>1 DEF Arrives, Remembers, Fresh, Idle
<1>21. CASE PrepareRetry(p)
  <2>1. chain.attempt + 1 \in Attempts /\ "calling" \in Labels
    BY <1>0, <1>21, OrderAssumption
    DEF BaseInv, PrepareRetry, At, Fenced, RetryStands, RetriesLeft, Attempts, Labels
  <2>2. proc'[p].pc = "calling" /\ proc'[p].seen = proc[p].seen
        /\ proc'[p].attempt = chain.attempt + 1
        /\ proc'[p].report = proc[p].report /\ proc'[p].total = proc[p].total
    <3> DEFINE next == chain.attempt + 1
    <3>1. proc' = [proc EXCEPT ![p].pc = "calling", ![p].attempt = next]
      BY <1>21 DEF PrepareRetry
    <3> HIDE DEF next
    <3>2. next \in Attempts
      BY <2>1 DEF next
    <3>3. /\ proc'[p].pc = "calling" /\ proc'[p].seen = proc[p].seen
          /\ proc'[p].report = proc[p].report /\ proc'[p].total = proc[p].total
      BY <1>0, <2>1, <3>1, <3>2, AttemptMoves
    <3>4. proc'[p].attempt = next
      BY <1>0, <3>1
    <3> QED
      BY <3>3, <3>4 DEF next
  <2> QED
    BY <1>21, <2>2 DEF Arrives, Remembers, Fresh, At, PrepareRetry
<1>22. CASE RequestCancel(p)
  <2> DEFINE current == chain.attempt
  <2>1. proc' = [proc EXCEPT ![p].pc = "cancelling", ![p].attempt = current]
    BY <1>22 DEF RequestCancel
  <2>2. current \in Attempts /\ "cancelling" \in Labels
    BY <1>0 DEF Labels
  <2> HIDE DEF current
  <2>3. proc'[p].pc = "cancelling" /\ proc'[p].seen = proc[p].seen
        /\ proc'[p].report = proc[p].report /\ proc'[p].total = proc[p].total
    BY <1>0, <2>1, <2>2, AttemptMoves
  <2>4. proc'[p].attempt = current
    BY <1>0, <2>1
  <2> QED
    BY <1>22, <2>3, <2>4 DEF Arrives, Remembers, Fresh, At, RequestCancel, current
<1>23. CASE BrokerAnswers(p)
  <2>1. /\ proc'[p].pc = "answered" /\ proc'[p].seen = broker
        /\ proc'[p].attempt = proc[p].attempt
        /\ proc'[p].report = proc[p].report /\ proc'[p].total = proc[p].total
    BY <1>0, <1>23, SeenMoves, BrokerIsSnapshot DEF BrokerAnswers, Labels
  <2> QED
    BY <1>23, <2>1 DEF Arrives, Remembers, Fresh, At, BrokerAnswers
<1>24. CASE LookUp(p)
  <2>1. PICK l \in {"looked", "evidence"} : proc' = [proc EXCEPT ![p].pc = l, ![p].seen = broker]
    BY <1>24 DEF LookUp
  <2>2. /\ proc'[p].pc = l /\ proc'[p].seen = broker
        /\ proc'[p].attempt = proc[p].attempt
        /\ proc'[p].report = proc[p].report /\ proc'[p].total = proc[p].total
    BY <1>0, <2>1, SeenMoves, BrokerIsSnapshot DEF Labels
  <2> QED
    BY <1>24, <2>2 DEF Arrives, Remembers, Fresh, At, LookUp
<1>25. CASE CancelAnswers(p)
  <2> DEFINE s == [broker EXCEPT !.status = IF @ = "SUBMITTED" THEN "CANCEL_REQUESTED" ELSE @]
  <2>1. proc' = [proc EXCEPT ![p].pc = "cancelAnswered", ![p].seen = s]
    BY <1>25 DEF CancelAnswers
  <2>2. s \in Snapshots
    <3>1. broker \in Snapshots /\ [broker EXCEPT !.status = "CANCEL_REQUESTED"] \in Snapshots
      BY <1>0, BrokerIsSnapshot
    <3>2. broker = [broker EXCEPT !.status = broker.status]
      BY <1>0 DEF BrokerStates
    <3> QED
      BY <3>1, <3>2
  <2> HIDE DEF s
  <2>3. /\ proc'[p].pc = "cancelAnswered"
        /\ proc'[p].attempt = proc[p].attempt
        /\ proc'[p].seen = s
        /\ proc'[p].report = proc[p].report /\ proc'[p].total = proc[p].total
    BY <1>0, <2>1, <2>2, SeenMoves DEF Labels
  <2> QED
    BY <1>25, <2>3 DEF Arrives, Remembers, Fresh, At, CancelAnswers, s
<1>26. CASE ReadFills(p)
  <2>1. PICK visible \in 0 .. broker.filled :
           /\ proc' = [proc EXCEPT ![p].pc = "booking", ![p].report = visible,
                                   ![p].total = applied]
           /\ Cumulative => visible = broker.filled
    BY <1>26 DEF ReadFills
  <2>2. visible \in 0 .. Quantity
    BY <1>0, <2>1, OrderAssumption DEF BrokerStates
  <2>3. /\ proc'[p].pc = "booking" /\ proc'[p].attempt = proc[p].attempt
        /\ proc'[p].seen = proc[p].seen /\ proc'[p].report = visible
        /\ proc'[p].total = applied
    BY <1>0, <2>1, <2>2, ReadMoves
  <2>4. visible <= broker.filled /\ proc[p].pc = "sweep"
    BY <1>0, <1>26, <2>1 DEF BrokerStates, ReadFills, At
  <2> QED
    BY <1>26, <2>1, <2>3, <2>4 DEF Arrives, Remembers, Fresh
<1>27. CASE ApplyFill(p)
  <2>1. PICK size : /\ proc[p].total + size <= Quantity
                    /\ size \in Nat
                    /\ applied' = applied + size
                    /\ proc' = [proc EXCEPT ![p].total = @ + size]
    BY <1>27, UnbookedAreReported DEF ApplyFill, BaseInv
  <2>2. proc[p].total + size \in 0 .. Quantity
    BY <1>0, <2>1, OrderAssumption DEF Records
  <2>3. /\ proc'[p].pc = proc[p].pc /\ proc'[p].attempt = proc[p].attempt
        /\ proc'[p].seen = proc[p].seen /\ proc'[p].report = proc[p].report
        /\ proc'[p].total = proc[p].total + size
    BY <1>0, <2>1, <2>2, TotalMoves
  <2>4. size = applied' - applied
    BY <1>0, <2>1
  <2>5. proc[p].pc = "booking"
    BY <1>27 DEF ApplyFill, At
  <2> QED
    BY <1>27, <2>3, <2>4, <2>5 DEF Arrives, Remembers, Fresh, At, ApplyFill
<1>28. CASE BeginReconcile(p)
  <2>1. /\ proc'[p].pc \in {"failed", "lookup"} /\ proc'[p].attempt = 0
        /\ proc'[p].seen = NoOrder /\ proc'[p].report = 0 /\ proc'[p].total = 0
    BY <1>0, <1>28, ReconcileMoves
  <2> QED
    BY <2>1 DEF Arrives, Remembers, Fresh, At, BeginReconcile
<1> QED
  BY <1>3, <1>4, <1>5, <1>6, <1>7, <1>20, <1>21, <1>22, <1>23, <1>24, <1>25, <1>26, <1>27, <1>28 DEF Step

-----------------------------------------------------------------------------
\* Each step of a call keeps what calls rely on.
LEMMA CallKeepsBase ==
    ASSUME BaseInv, NEW p \in Procs, Step(p)
    PROVE  BaseInv'
<1>1. TypeOK /\ TypeOK' /\ proc \in [Procs -> Records] /\ proc' \in [Procs -> Records]
  BY CallKeepsTypes, CallMoves, TypeOKSplits DEF BaseInv, Becomes
<1>2. \A q \in Procs \ {p} :
         /\ proc'[q] = proc[q]
         /\ holder' = q => holder = q /\ UNCHANGED <<chain, lookup, applied, booked>>
  BY <1>1, CallMoves, CallFrames, OrderAssumption DEF Becomes, Fenced
<1>3. Arrives(p) /\ Remembers(p)
  BY CallArrives
<1>4. broker' \in BrokerStates /\ broker \in BrokerStates /\ broker'.filled = broker.filled
  <2>1. broker' \in BrokerStates /\ broker \in BrokerStates
    BY <1>1 DEF TypeOK, BrokerStates
  <2>2. CASE CallBroker(p)
    BY <2>1, <2>2 DEF CallBroker
  <2>3. CASE CancelAtBroker(p)
    BY <2>1, <2>3 DEF CancelAtBroker, BrokerStates
  <2> QED
    BY <2>1, <2>2, <2>3, CallFrames DEF world
<1>5. HolderRuns'
  <2>1. holder' = p => proc'[p].pc \notin {"idle", "entering"}
    BY <1>1, <1>3, OrderAssumption DEF Arrives, Return
  <2> QED
    BY <1>2, <2>1 DEF HolderRuns, BaseInv
<1>6. RetryStands'
  <2>1. proc'[p].pc = "preparing" => (RetryEvidence /\ RetriesLeft)'
    BY <1>3 DEF Arrives, BeginRetry, MayBegin, RetryEvidence, RetriesLeft, local
  <2> QED
    BY <1>2, <2>1 DEF RetryStands, BaseInv, RetryEvidence, RetriesLeft
<1>7. BrokerSound'
  <2>1. CASE CancelAtBroker(p)
    BY <1>1, <2>1, OrderAssumption
    DEF CancelAtBroker, BaseInv, BrokerSound, Live, Working, TypeOK
  <2>2. CASE broker' = broker
    BY <2>2 DEF BaseInv, BrokerSound
  <2> QED
    BY <2>1, <2>2, CallFrames DEF CallBroker, world
<1>8. SweepIsCurrent'
  <2>1. holder' = p /\ proc'[p].pc = "booking" => proc'[p].total = applied'
    <3>1. CASE ReadFills(p)
      BY <1>3, <3>1 DEF Remembers, Fresh, ReadFills, ApplyFill, At, local
    <3>2. CASE ApplyFill(p)
      <4>1. applied \in Nat /\ applied' \in Nat /\ proc[p].total = applied
        BY <1>1, <3>2 DEF TypeOK, BaseInv, SweepIsCurrent, ApplyFill, At, Fenced
      <4>2. proc[p].pc = "booking"
        BY <3>2 DEF ApplyFill, At
      <4> QED
        BY <1>3, <3>2, <4>1, <4>2 DEF Remembers, Fresh, ReadFills, At
    <3> QED
      BY <1>3, <3>1, <3>2 DEF Arrives
  <2>2. holder' = p /\ proc'[p].pc \in {"settling", "closing"} => proc'[p].total = applied'
    <3> SUFFICES ASSUME holder' = p, proc'[p].pc \in {"settling", "closing"}
                 PROVE  proc'[p].total = applied'
      OBVIOUS
    <3>1. RecordFills(p) \/ ReleaseFilled(p)
      BY <1>3 DEF Arrives
    <3>2. proc'[p].total = proc[p].total
      BY <1>3, <3>1 DEF Remembers, Fresh, ReadFills, ApplyFill, RecordFills, ReleaseFilled, At
    <3>3. holder = p /\ applied' = applied /\ proc[p].pc \in {"booking", "settling"}
      BY <3>1 DEF RecordFills, ReleaseFilled, At
    <3> QED
      BY <3>2, <3>3 DEF BaseInv, SweepIsCurrent
  <2> QED
    BY <1>2, <2>1, <2>2 DEF SweepIsCurrent, BaseInv
<1>9. SweepIsAnswered'
  <2>1. proc'[p].pc = "synchronise" => proc'[p].seen.status \notin {"NONE", "ERROR"}
    <3> SUFFICES ASSUME proc'[p].pc = "synchronise"
                 PROVE  proc'[p].seen.status \notin {"NONE", "ERROR"}
      OBVIOUS
    <3>1. SaveLookup(p)
      BY <1>3 DEF Arrives
    <3>2. proc'[p].seen = proc[p].seen
      BY <1>3, <3>1 DEF Remembers, Fresh, SaveLookup, At
    <3>3. proc[p].seen.status \notin {"NONE", "ERROR"}
      <4>1. ASSUME proc[p].seen.status \in {"NONE", "ERROR"} PROVE Goto(p, "verdict")
        BY <3>1, <4>1 DEF SaveLookup
      <4> QED
        BY <1>1, <4>1, GotoMoves DEF Labels
    <3> QED
      BY <3>2, <3>3
  <2>2. proc'[p].pc \in {"sweep", "booking", "settling", "closing"} =>
           proc'[p].seen.status \in Terminal \cup Working
    <3> SUFFICES ASSUME proc'[p].pc \in {"sweep", "booking", "settling", "closing"}
                 PROVE  proc'[p].seen.status \in Terminal \cup Working
      OBVIOUS
    <3>1. \/ RecordResponse(p) \/ RecordCancel(p) \/ Synchronise(p)
          \/ ReadFills(p) \/ ApplyFill(p) \/ RecordFills(p) \/ ReleaseFilled(p)
      BY <1>3 DEF Arrives
    <3>2. proc'[p].seen = proc[p].seen
      BY <1>3, <3>1
      DEF Remembers, Fresh, BrokerAnswers, LookUp, CancelAnswers, At, RecordResponse,
          RecordCancel, Synchronise, ReadFills, ApplyFill, RecordFills, ReleaseFilled
    <3>3. proc[p].seen.status \in Terminal \cup Working
                                    \cup {"NONE", "ERROR", "MALFORMED"}
      BY <1>1 DEF Records, Snapshots
    <3>4. CASE RecordResponse(p) \/ RecordCancel(p)
      <4>1. chain.state \in OrderStates /\ proc[p].seen.status \in Transitions[chain.state]
        BY <1>1, <3>4 DEF TypeOK, RecordResponse, RecordCancel, AppendEvent
      <4>2. proc[p].seen.status \in OrderStates
        BY <4>1, TransitionsTyped
      <4> QED
        BY <3>2, <3>3, <4>2 DEF OrderStates, Unknown, Terminal, Working
    <3>5. CASE Synchronise(p)
      <4>1. proc[p].seen.status # "MALFORMED"
        BY <1>1, <3>5, GotoMoves DEF Synchronise, Labels
      <4>2. proc[p].seen.status \notin {"NONE", "ERROR"}
        BY <3>5 DEF Synchronise, At, BaseInv, SweepIsAnswered
      <4> QED
        BY <3>2, <3>3, <4>1, <4>2
    <3>6. CASE ReadFills(p) \/ ApplyFill(p) \/ RecordFills(p) \/ ReleaseFilled(p)
      BY <3>2, <3>6
      DEF ReadFills, ApplyFill, RecordFills, ReleaseFilled, At, BaseInv, SweepIsAnswered
    <3> QED
      BY <3>1, <3>4, <3>5, <3>6
  <2> QED
    BY <1>2, <2>1, <2>2 DEF SweepIsAnswered, BaseInv
<1>10. ReportsAreReal'
  <2>1. proc[p].report <= broker.filled /\ 0 <= broker.filled
    BY <1>4 DEF BaseInv, ReportsAreReal, BrokerStates
  <2>2. proc'[p].report <= broker'.filled
    BY <1>3, <1>4, <2>1 DEF Remembers
  <2> QED
    BY <1>2, <1>4, <2>2 DEF ReportsAreReal, BaseInv
<1>11. FillsAreBooked' /\ BookedAtBroker'
  <2>1. CASE UNCHANGED <<applied, booked>>
    BY <1>4, <2>1 DEF BaseInv, FillsAreBooked, BookedAtBroker
  <2>2. CASE Fenced(p) /\ ApplyFill(p)
    <3> DEFINE fill == Min(Unbooked(p))
               size == FillSize(p, fill)
    <3>1. /\ fill \in 1 .. proc[p].report
          /\ fill \notin booked
          /\ Cumulative => fill = proc[p].report /\ fill > proc[p].total
      BY <1>1, <2>2, UnbookedAreReported DEF ApplyFill
    <3>2. booked' = booked \cup {fill} /\ applied' = applied + size
      BY <2>2 DEF ApplyFill
    <3>3. /\ proc[p].total = applied
          /\ proc[p].report <= broker.filled
          /\ proc[p].report \in Nat /\ applied \in Nat /\ broker.filled \in Nat
          /\ booked \subseteq 1 .. Quantity
      BY <1>1, <1>4, <2>2, OrderAssumption
      DEF ApplyFill, At, Fenced, BaseInv, SweepIsCurrent, ReportsAreReal, TypeOK, Records,
          BrokerStates
    <3>4. size = IF Cumulative THEN fill - applied ELSE 1
      BY <3>3 DEF FillSize
    <3> HIDE DEF fill, size
    <3>5. fill \in Nat /\ 1 <= fill /\ fill <= broker.filled
      BY <3>1, <3>3
    <3>6. CASE Cumulative
      <4>1. applied' = fill
        BY <3>2, <3>3, <3>4, <3>5, <3>6
      <4>2. booked \subseteq 1 .. applied /\ applied < fill
        BY <3>1, <3>3, <3>6 DEF BaseInv, FillsAreBooked
      <4>3. booked' \subseteq 1 .. fill
        <5>1. fill \in 1 .. fill /\ 1 .. applied \subseteq 1 .. fill
          BY <3>3, <3>5, <4>2
        <5> QED
          BY <3>2, <4>2, <5>1
      <4> QED
        BY <1>4, <3>5, <3>6, <4>1, <4>3 DEF FillsAreBooked, BookedAtBroker
    <3>7. CASE ~ Cumulative
      <4>1. booked \subseteq 1 .. broker.filled /\ applied = Cardinality(booked)
        BY <3>7 DEF BaseInv, FillsAreBooked
      <4>2. booked' \subseteq 1 .. broker.filled
        BY <3>2, <3>3, <3>5, <4>1
      <4>3. /\ IsFiniteSet(1 .. broker.filled)
            /\ Cardinality(1 .. broker.filled) = broker.filled
        BY <3>3, FS_Interval
      <4>4. IsFiniteSet(booked) /\ IsFiniteSet(booked')
        BY <4>1, <4>2, <4>3, FS_Subset
      <4>5. applied' = Cardinality(booked')
        BY <3>1, <3>2, <3>4, <3>7, <4>1, <4>4, FS_AddElement
      <4>6. Cardinality(booked') <= broker.filled
        BY <4>2, <4>3, FS_Subset
      <4> QED
        BY <1>4, <3>7, <4>2, <4>5, <4>6 DEF FillsAreBooked, BookedAtBroker
    <3> QED
      BY <3>6, <3>7
  <2> QED
    BY <2>1, <2>2, CallFrames
<1> QED
  BY <1>1, <1>5, <1>6, <1>7, <1>8, <1>9, <1>10, <1>11 DEF BaseInv

-----------------------------------------------------------------------------
\* A call that is made, or meets a misfortune, touches no row and no order.
Incident(p) == (\E o \in Ops : Enter(p, o)) \/ Misfortune(p)

LEMMA IncidentMoves ==
    ASSUME BaseInv, NEW p \in Procs, Incident(p)
    PROVE  /\ Becomes(p, proc'[p])
           /\ UNCHANGED <<local, world, calls>>
           /\ faults' \in 0 .. MaxFaults
           /\ \/ holder' = holder
              \/ holder' = p /\ proc'[p].pc = "held"
              \/ holder = p /\ holder' = Nobody
           /\ proc'[p].pc \in {"entering", "held", "idle", "bridging", "looked", "evidence",
                               "leaving", "failed"}
           /\ proc'[p].pc = "entering" => proc[p].pc = "idle"
           /\ proc'[p].pc = "idle" => holder' # p
           /\ \/ proc'[p].attempt = 0
              \/ /\ proc'[p].attempt = proc[p].attempt
                 /\ proc'[p].pc # "idle"
                 /\ proc'[p].pc \in {"entering", "held"} => proc[p].pc \in {"idle", "entering"}
           /\ \/ proc'[p].seen = proc[p].seen
              \/ proc'[p].seen.status \in {"NONE", "ERROR"}
              \/ proc'[p].seen.status = "MALFORMED" /\ broker.status # "NONE"
           /\ proc'[p].report \in {proc[p].report, 0}
<1>0. /\ proc \in [Procs -> Records] /\ proc[p] \in Records /\ proc[p].seen \in Snapshots
      /\ broker \in BrokerStates
      /\ faults \in 0 .. MaxFaults
      /\ p # Nobody
  BY TypeOKSplits, OrderAssumption DEF BaseInv, BrokerStates, Records
<1>1. faults' \in 0 .. MaxFaults
  BY <1>0, OrderAssumption
  DEF Incident, Enter, Misfortune, TakeOver, Fail, LookUpFails, Crash
<1>2. UNCHANGED <<local, world, calls>>
  BY DEF Incident, Enter, Misfortune, TakeOver, Fail, LookUpFails, Crash
<1>3. ASSUME NEW o \in Ops, Enter(p, o)
      PROVE  /\ Becomes(p, proc'[p])
             /\ holder' = holder
             /\ proc[p].pc = "idle" /\ proc'[p].pc = "entering"
             /\ proc'[p].attempt = proc[p].attempt
             /\ proc'[p].seen = proc[p].seen
             /\ proc'[p].report = proc[p].report
  BY <1>0, <1>3, EnterMoves DEF Enter, At
<1>4. CASE TakeOver(p)
  <2>1. /\ Becomes(p, proc'[p])
        /\ holder' = p
        /\ proc[p].pc = "entering" /\ proc'[p].pc = "held"
        /\ proc'[p].attempt = proc[p].attempt
        /\ proc'[p].seen = proc[p].seen
        /\ proc'[p].report = proc[p].report
    BY <1>0, <1>4, GotoMoves DEF TakeOver, At, Labels
  <2> QED
    BY <1>1, <1>2, <2>1
<1>5. CASE Crash(p)
  <2>1. holder' = (IF holder = p THEN Nobody ELSE holder) /\ proc' = [proc EXCEPT ![p] = Idle]
    BY <1>5 DEF Crash
  <2>2. Becomes(p, Idle)
    BY <1>0, <2>1, IdleTyped, BecomesRecord
  <2>3. Becomes(p, proc'[p]) /\ proc'[p] = Idle
    BY <2>2 DEF Becomes
  <2> QED
    BY <1>0, <1>1, <1>2, <2>1, <2>3 DEF Idle, NoOrder
<1>6. CASE Fail(p)
  <2>1. holder' = holder
    BY <1>6 DEF Fail
  <2>2. CASE \E l \in {"failed", "leaving"} : Exit(p, l)
    <3>1. /\ Becomes(p, proc'[p])
          /\ proc'[p].pc \in {"failed", "leaving"}
          /\ proc'[p].attempt = 0 /\ proc'[p].seen = NoOrder /\ proc'[p].report = 0
      BY <1>0, <2>2, ExitMoves DEF Exit, Labels
    <3> QED
      BY <1>1, <1>2, <2>1, <3>1 DEF NoOrder
  <2>3. CASE proc' = [proc EXCEPT ![p].pc = "bridging", ![p].seen.status = "ERROR"]
    <3> DEFINE s == [proc[p].seen EXCEPT !.status = "ERROR"]
    <3>1. s \in Snapshots /\ s.status = "ERROR" /\ "bridging" \in Labels
      BY <1>0 DEF Snapshots, Labels
    <3>2. proc' = [proc EXCEPT ![p].pc = "bridging", ![p].seen = s]
      BY <1>0, <2>3 DEF Records
    <3> HIDE DEF s
    <3>3. Becomes(p, proc'[p]) /\ proc'[p].pc = "bridging"
      BY <1>0, <3>1, <3>2, SeenMoves
    <3>4. proc'[p].attempt = proc[p].attempt /\ proc'[p].report = proc[p].report
          /\ proc'[p].seen = s
      BY <1>0, <3>2
    <3> QED
      BY <1>1, <1>2, <2>1, <3>1, <3>3, <3>4
  <2> QED
    BY <1>6, <2>2, <2>3 DEF Fail
<1>7. CASE LookUpFails(p)
  <2>1. PICK l \in {"looked", "evidence"}, t \in {"ERROR", "MALFORMED"} :
           /\ proc' = [proc EXCEPT ![p].pc = l, ![p].seen = [NoOrder EXCEPT !.status = t]]
           /\ t = "MALFORMED" => broker.status # "NONE"
    BY <1>7 DEF LookUpFails
  <2> DEFINE s == [NoOrder EXCEPT !.status = t]
  <2>2. s \in Snapshots /\ l \in Labels
    BY <1>0, BrokerIsSnapshot DEF Labels
  <2>3. s.status = t
    BY DEF NoOrder
  <2>4. proc' = [proc EXCEPT ![p].pc = l, ![p].seen = s]
    BY <2>1
  <2> HIDE DEF s
  <2>5. Becomes(p, proc'[p]) /\ proc'[p].pc = l
    BY <1>0, <2>2, <2>4, SeenMoves
  <2>6. proc'[p].attempt = proc[p].attempt /\ proc'[p].report = proc[p].report
        /\ proc'[p].seen = s
    BY <1>0, <2>4
  <2>7. holder' = holder
    BY <1>7 DEF LookUpFails
  <2> QED
    BY <1>1, <1>2, <2>1, <2>3, <2>5, <2>6, <2>7
<1> QED
  BY <1>1, <1>2, <1>3, <1>4, <1>5, <1>6, <1>7 DEF Incident, Misfortune

\* What the broker does by itself never takes back a fill or an end.
LEMMA BrokerMoves ==
    ASSUME BaseInv, BrokerStep
    PROVE  /\ UNCHANGED <<local, holder, proc, admission, calls, faults>>
           /\ inflight' \subseteq inflight
           /\ broker' \in BrokerStates
           /\ BrokerSound'
           /\ broker.filled <= broker'.filled
           /\ broker.status \in Terminal => broker' = broker
           /\ broker'.status = "NONE" => broker' = broker
           /\ broker'.status = "CANCEL_REQUESTED" => broker.status = "CANCEL_REQUESTED"
           /\ broker.status = "NONE" /\ inflight = {} => broker' = broker
<1>0. /\ broker \in BrokerStates /\ broker.filled \in Nat /\ broker.filled <= Quantity
      /\ BrokerSound
      /\ Quantity \in Nat \ {0}
  BY OrderAssumption DEF BaseInv, TypeOK, BrokerStates
<1>1. CASE FillAtBroker
  <2>1. PICK total \in broker.filled + 1 .. Quantity :
           broker' = [status |-> IF total = Quantity THEN "FILLED"
                                 ELSE IF broker.status = "CANCEL_REQUESTED"
                                        THEN "CANCEL_REQUESTED" ELSE "PARTIALLY_FILLED",
                      filled |-> total]
    BY <1>1 DEF FillAtBroker
  <2>2. /\ UNCHANGED <<local, holder, proc, inflight, admission, calls, faults>>
        /\ broker.status \in Working
    BY <1>1 DEF FillAtBroker, Live
  <2>3. total \in Nat /\ broker.filled <= total /\ total \in 0 .. Quantity
    BY <1>0, <2>1
  <2>4. broker'.filled = total /\ broker'.status \in Terminal \cup Working
    BY <2>1 DEF Terminal, Working
  <2>5. broker' \in BrokerStates
    BY <2>1, <2>3 DEF BrokerStates, Terminal, Working
  <2>6. BrokerSound' /\ (broker'.status = "CANCEL_REQUESTED" => broker.status = "CANCEL_REQUESTED")
        /\ broker'.status # "NONE"
    BY <2>1, <2>4 DEF BrokerSound
  <2> QED
    BY <2>2, <2>3, <2>4, <2>5, <2>6 DEF Working, Terminal
<1>2. CASE CloseAtBroker
  BY <1>0, <1>2, OrderAssumption
  DEF CloseAtBroker, Live, BrokerStates, BrokerSound, Working, Terminal
<1>3. ASSUME NEW a \in Attempts, Deliver(a)
      PROVE  /\ UNCHANGED <<local, holder, proc, admission, calls, faults>>
             /\ inflight' \subseteq inflight /\ inflight # {}
             /\ broker' = broker \/ /\ broker.status = "NONE"
                                    /\ broker' \in BrokerStates
                                    /\ broker'.status \in {"SUBMITTED", "REJECTED"}
                                    /\ broker'.filled = broker.filled
  BY <1>0, <1>3 DEF Deliver, BrokerStates, Working, Terminal
<1>4. ASSUME NEW a \in Attempts, Deliver(a)
      PROVE  BrokerSound'
  BY <1>0, <1>3, <1>4 DEF BrokerSound
<1>5. ASSUME NEW a \in Attempts, Lose(a)
      PROVE  /\ UNCHANGED <<local, holder, proc, admission, calls, faults, broker>>
             /\ inflight' \subseteq inflight
             /\ BrokerSound'
  BY <1>0, <1>5 DEF Lose, BrokerSound
<1> QED
  BY <1>0, <1>1, <1>2, <1>3, <1>4, <1>5 DEF BrokerStep, Terminal

LEMMA IncidentKeepsBase ==
    ASSUME BaseInv, NEW p \in Procs, Incident(p)
    PROVE  BaseInv'
<1>1. /\ \A q \in Procs \ {p} : proc'[q] = proc[q] /\ (holder' = q => holder = q)
      /\ proc' \in [Procs -> Records]
      /\ UNCHANGED <<chain, lookup, booked, applied, broker>>
  BY IncidentMoves, OrderAssumption DEF Becomes, local, world
<1>2. TypeOK'
  <2>1. RowsTyped' /\ holder' \in Procs \cup {Nobody}
    BY IncidentMoves, TypeOKSplits DEF BaseInv, local, RowsTyped, TypeOK
  <2> QED
    BY <1>1, <2>1, IncidentMoves, TypeOKSplits
    DEF BaseInv, world, admission, TypeOK, RowsTyped, Records
<1>3. HolderRuns'
  <2>1. holder' = p => proc'[p].pc \notin {"idle", "entering"}
    BY IncidentMoves, OrderAssumption DEF BaseInv, HolderRuns
  <2> QED
    BY <1>1, <2>1 DEF HolderRuns, BaseInv
<1>4. RetryStands' /\ SweepIsCurrent' /\ BrokerSound' /\ FillsAreBooked' /\ BookedAtBroker'
  BY <1>1, IncidentMoves
  DEF BaseInv, RetryStands, SweepIsCurrent, RetryEvidence, RetriesLeft, BrokerSound,
      FillsAreBooked, BookedAtBroker
<1>5. SweepIsAnswered'
  BY <1>1, IncidentMoves DEF BaseInv, SweepIsAnswered
<1>6. ReportsAreReal'
  <2>1. proc[p].report \in Nat /\ proc[p].report <= broker.filled
    BY OrderAssumption DEF BaseInv, TypeOK, ReportsAreReal
  <2>2. proc'[p].report <= broker'.filled
    BY <1>1, <2>1, IncidentMoves DEF BaseInv, TypeOK
  <2> QED
    BY <1>1, <2>2 DEF BaseInv, ReportsAreReal
<1> QED
  BY <1>2, <1>3, <1>4, <1>5, <1>6 DEF BaseInv

LEMMA BrokerKeepsBase ==
    ASSUME BaseInv, BrokerStep
    PROVE  BaseInv'
<1>1. /\ UNCHANGED <<local, holder, proc, admission, calls, faults>>
      /\ broker' \in BrokerStates /\ broker \in BrokerStates
      /\ broker.filled <= broker'.filled
      /\ inflight' \subseteq inflight
  BY BrokerMoves DEF BaseInv, TypeOK, BrokerStates
<1>2. TypeOK'
  BY <1>1, TypeOKSplits DEF BaseInv, TypeOK, BrokerStates, local, admission
<1>3. /\ broker.filled \in Nat /\ broker'.filled \in Nat /\ applied \in Nat
      /\ \A p \in Procs : proc[p].report \in Nat
  BY <1>1, OrderAssumption DEF BrokerStates, BaseInv, TypeOK
<1>4. HolderRuns' /\ RetryStands' /\ SweepIsCurrent' /\ SweepIsAnswered'
  BY <1>1
  DEF BaseInv, HolderRuns, RetryStands, SweepIsCurrent, SweepIsAnswered, RetryEvidence,
      RetriesLeft, local
<1>5. ReportsAreReal' /\ BookedAtBroker'
  BY <1>1, <1>3 DEF BaseInv, ReportsAreReal, BookedAtBroker, local
<1>6. FillsAreBooked'
  <2>1. 1 .. broker.filled \subseteq 1 .. broker'.filled
    BY <1>1, <1>3
  <2> QED
    BY <1>1, <2>1 DEF BaseInv, FillsAreBooked, local
<1> QED
  BY <1>2, <1>4, <1>5, <1>6, BrokerMoves DEF BaseInv

\* What happens to the intent outside the calls: its preview expires, a local
\* fill takes it, it ages, and work is paused and resumed.
Elsewhere ==
    PreviewExpires \/ FillLocally \/ IntentAges \/ Bar \/ Unbar \/ UNCHANGED vars

\* It touches nothing that calls rely on.
LEMMA ElsewhereMoves ==
    ASSUME Elsewhere
    PROVE  UNCHANGED <<chain, lookup, reservation, hold, held, booked, applied, recon, holder,
                       proc, broker, inflight, side, calls>>
BY DEF Elsewhere, PreviewExpires, FillLocally, IntentAges, Bar, Unbar, vars, local, world,
       admission

LEMMA ElsewhereKeepsBase ==
    ASSUME BaseInv, Elsewhere
    PROVE  BaseInv'
<1>1. UNCHANGED <<chain, lookup, reservation, hold, held, booked, applied, recon, holder,
                  proc, broker, inflight, side, calls>>
  BY ElsewhereMoves
<1>2. TypeOK'
  <2>0. faults \in 0 .. MaxFaults /\ MaxFaults \in Nat
    BY OrderAssumption DEF BaseInv, TypeOK
  <2>1. /\ preview' \in BOOLEAN
        /\ namespace' \in {"UNCLAIMED", "EXTERNAL_PAPER", "LOCAL_SIMULATED"}
        /\ orderStatus' \in OrderStates \cup {"PENDING_SUBMISSION"}
        /\ fresh' \in BOOLEAN /\ barred' \in BOOLEAN
        /\ faults' \in 0 .. MaxFaults
    <3>0. PreviewExpires \/ IntentAges \/ Bar => faults' \in 0 .. MaxFaults
      BY <2>0 DEF PreviewExpires, IntentAges, Bar
    <3>1. CASE PreviewExpires
      BY <3>0, <3>1 DEF BaseInv, TypeOK, PreviewExpires, world, admission
    <3>2. CASE FillLocally
      BY <2>0, <3>2 DEF BaseInv, TypeOK, FillLocally, OrderStates, Terminal, world, admission
    <3>3. CASE UNCHANGED vars
      BY <2>0, <3>3 DEF BaseInv, TypeOK, vars, local, world, admission
    <3>4. CASE IntentAges
      BY <3>0, <3>4 DEF BaseInv, TypeOK, IntentAges, local
    <3>5. CASE Bar
      BY <3>0, <3>5 DEF BaseInv, TypeOK, Bar, local
    <3>6. CASE Unbar
      BY <2>0, <3>6 DEF BaseInv, TypeOK, Unbar, local
    <3> QED
      BY <3>1, <3>2, <3>3, <3>4, <3>5, <3>6 DEF Elsewhere
  <2> QED
    BY <1>1, <2>1 DEF BaseInv, TypeOK
<1> QED
  BY <1>1, <1>2
  DEF BaseInv, HolderRuns, RetryStands, BrokerSound, SweepIsCurrent, SweepIsAnswered,
      ReportsAreReal, FillsAreBooked, BookedAtBroker, RetryEvidence, RetriesLeft

\* Every step is a call's own, an incident of one, or somebody else's.
LEMMA NextSplits ==
    ASSUME [Next]_vars
    PROVE  \/ \E p \in Procs : Step(p) \/ Incident(p)
           \/ BrokerStep
           \/ Elsewhere
BY DEF Next, Incident, Elsewhere

LEMMA BaseStands == Spec => []BaseInv
<1>1. Init => BaseInv
  <2> SUFFICES ASSUME Init PROVE BaseInv
    OBVIOUS
  <2> USE OrderAssumption
  <2>1. Idle \in Records /\ NoOrder \in BrokerStates
    BY IdleTyped DEF NoOrder, BrokerStates
  <2>2. RowsTyped
    <3>1. Quantity * LimitPrice \in Nat
      OBVIOUS
    <3>2. 0 \in Attempts /\ chain \in [state : OrderStates, attempt : Attempts]
          /\ reservation \in [Attempts -> ReservationStates]
      BY DEF Init, OrderStates, Attempts, ReservationStates
    <3>3. lookup \in [result : {"NONE", "FOUND", "NOT_FOUND"},
                      authoritative : BOOLEAN, current : BOOLEAN]
      BY DEF Init
    <3>4. hold \in 0 .. Quantity * LimitPrice
      BY <3>1 DEF Init
    <3> QED
      BY <3>2, <3>3, <3>4 DEF Init, RowsTyped
  <2>3. TypeOK
    <3>1. /\ holder \in Procs \cup {Nobody} /\ proc \in [Procs -> Records]
          /\ broker \in BrokerStates /\ inflight \subseteq Attempts
          /\ calls \in [Attempts -> Nat] /\ faults \in 0 .. MaxFaults
      BY <2>1 DEF Init
    <3>2. side \in Sides /\ fresh \in BOOLEAN /\ barred \in BOOLEAN
      BY DEF Init
    <3> QED
      BY <2>2, <3>1, <3>2, TypeOKSplits DEF BrokerStates
  <2>4. \A p \in Procs : proc[p].pc = "idle" /\ proc[p].report = 0
    BY DEF Init, Idle
  <2>5. broker.status = "NONE" /\ broker.filled = 0 /\ applied = 0 /\ booked = {}
    BY DEF Init, NoOrder
  <2>6. FillsAreBooked
    BY <2>5, FS_EmptySet DEF FillsAreBooked
  <2>7. \A p \in Procs : holder # p
    BY DEF Init
  <2> QED
    BY <2>3, <2>4, <2>5, <2>6, <2>7
    DEF BaseInv, HolderRuns, RetryStands, BrokerSound, SweepIsCurrent, SweepIsAnswered,
        ReportsAreReal, BookedAtBroker
<1>2. BaseInv /\ [Next]_vars => BaseInv'
  BY NextSplits, CallKeepsBase, IncidentKeepsBase, BrokerKeepsBase, ElsewhereKeepsBase
<1> QED
  BY <1>1, <1>2, PTL DEF Spec

\* Every behaviour keeps the rows, the calls and the broker's order in type.
THEOREM OrderTypeCorrect == Spec => []TypeOK
<1>1. BaseInv => TypeOK
  BY DEF BaseInv
<1> QED
  BY <1>1, BaseStands, PTL

-----------------------------------------------------------------------------
\* How the chain moves: a preview, a checkpoint, a retry on its evidence, an
\* ambiguous outcome, or an answer of the broker recorded for its attempt.
ChainMoves(p) ==
    \/ chain' = chain
    \/ /\ SavePreview(p)
       /\ chain.state \in Unsent
       /\ chain' = [state |-> "PREVIEWED", attempt |-> 0]
    \/ /\ Checkpoint(p)
       /\ chain.state = "PREVIEWED"
       /\ chain' = [state |-> "SUBMISSION_REQUESTED", attempt |-> 0]
    \/ /\ PrepareRetry(p)
       /\ RetryEvidence
       /\ chain' = [state |-> "SUBMISSION_REQUESTED", attempt |-> chain.attempt + 1]
    \/ /\ RecordUnknown(p) \/ Bridge(p)
       /\ chain.state = "SUBMISSION_REQUESTED"
       /\ chain' = [state |-> Unknown, attempt |-> chain.attempt]
    \/ /\ RecordResponse(p) \/ RecordFills(p) \/ Synchronise(p) \/ RequestCancel(p)
            \/ RecordCancel(p)
       /\ chain.state \notin Unsent
       /\ chain'.attempt = chain.attempt
       /\ chain'.state \in Terminal \cup Working
       /\ chain'.state \in Terminal => broker.status = chain'.state
       /\ chain'.state = "CANCEL_REQUESTED" => chain.state \notin Unanswered

\* Where the transition table leads.
LEMMA TransitionsLead ==
    ASSUME NEW s \in OrderStates, NEW t \in Transitions[s]
    PROVE  /\ t = "PREVIEWED" => s \in Unsent
           /\ t \in Terminal \cup Working \cup {Unknown} => s \notin Unsent
           /\ t = "CANCEL_REQUESTED" => s \notin {"NOT_SUBMITTED", "PREVIEWED", "SUBMISSION_REQUESTED"}
           /\ s \notin Terminal
BY DEF Transitions, OrderStates, Terminal, Working, Unknown, Unsent

LEMMA ChainMovesSo ==
    ASSUME BaseInv, ChainInv, NEW p \in Procs, Step(p)
    PROVE  ChainMoves(p)
<1>0. /\ chain \in [state : OrderStates, attempt : Attempts]
      /\ chain.state \in OrderStates
      /\ proc[p].seen.status \in Terminal \cup Working \cup {"NONE", "ERROR", "MALFORMED"}
      /\ proc[p] \in Records
      /\ p # Nobody
  BY TypeOKSplits, OrderAssumption DEF BaseInv, RowsTyped, Records, Snapshots
<1>1. ASSUME NEW a, AppendEvent(proc[p].seen.status, a)
      PROVE  /\ proc[p].seen.status \in Terminal \cup Working
             /\ chain.state \notin Unsent
             /\ chain' = [state |-> proc[p].seen.status, attempt |-> a]
             /\ chain'.state \in Terminal => broker.status = chain'.state
             /\ chain'.state = "CANCEL_REQUESTED" => chain.state \notin Unanswered
  <2>1. proc[p].seen.status \in Transitions[chain.state]
        /\ chain' = [state |-> proc[p].seen.status, attempt |-> a]
    BY <1>1 DEF AppendEvent
  <2>2. proc[p].seen.status \in OrderStates
    BY <1>0, <2>1, TransitionsTyped
  <2>3. proc[p].seen.status \in Terminal \cup Working
    BY <1>0, <2>2 DEF OrderStates, Terminal, Working, Unknown
  <2> QED
    BY <1>0, <2>1, <2>3, TransitionsLead DEF ChainInv, SeenIsReal
<1>2. CASE SavePreview(p)
  <2>1. /\ "PREVIEWED" \in Transitions[chain.state]
        /\ chain' = [state |-> "PREVIEWED", attempt |-> 0]
    BY <1>2 DEF SavePreview, AppendEvent
  <2> QED
    BY <1>0, <1>2, <2>1, TransitionsLead DEF ChainMoves
<1>3. CASE Checkpoint(p)
  BY <1>3 DEF Checkpoint, AppendEvent, ChainMoves, At, Fenced, ChainInv, FenceKeepsChain
<1>4. CASE PrepareRetry(p)
  BY <1>4 DEF PrepareRetry, AppendEvent, ChainMoves, At, Fenced, BaseInv, RetryStands
<1>5. CASE RecordUnknown(p)
  BY <1>5 DEF RecordUnknown, AppendEvent, ChainMoves, At, Fenced, ChainInv, FenceKeepsChain
<1>6. CASE Bridge(p)
  BY <1>6 DEF Bridge, AppendEvent, ChainMoves
<1>7. CASE RecordResponse(p)
  <2>1. chain.attempt = proc[p].attempt /\ AppendEvent(proc[p].seen.status, proc[p].attempt)
    BY <1>7 DEF RecordResponse, At, Fenced, ChainInv, FenceKeepsChain
  <2> QED
    BY <1>1, <1>7, <2>1 DEF ChainMoves
<1>8. CASE RecordCancel(p)
  <2>1. chain.attempt = proc[p].attempt /\ AppendEvent(proc[p].seen.status, proc[p].attempt)
    BY <1>8 DEF RecordCancel, At, Fenced, ChainInv, FenceKeepsChain
  <2> QED
    BY <1>1, <1>8, <2>1 DEF ChainMoves
<1>9. CASE Synchronise(p)
  <2>1. chain' = chain \/ AppendEvent(proc[p].seen.status, chain.attempt)
    BY <1>9 DEF Synchronise
  <2> QED
    BY <1>1, <1>9, <2>1 DEF ChainMoves
<1>10. CASE RequestCancel(p)
  <2>1. /\ "CANCEL_REQUESTED" \in Transitions[chain.state]
        /\ chain' = [state |-> "CANCEL_REQUESTED", attempt |-> chain.attempt]
        /\ chain.state # Unknown
    BY <1>10 DEF RequestCancel, AppendEvent, MayBegin
  <2>2. chain.state \notin Unanswered
    BY <1>0, <2>1, TransitionsLead DEF Unanswered, Unsent
  <2> QED
    BY <1>10, <2>1, <2>2 DEF ChainMoves, Unanswered, Terminal, Working
<1>11. CASE RecordFills(p)
  <2> DEFINE state == IF proc[p].total = Quantity THEN "FILLED" ELSE "PARTIALLY_FILLED"
  <2>1. chain' = chain \/ (Fenced(p) /\ At(p, "booking") /\ AppendEvent(state, chain.attempt))
    BY <1>11 DEF RecordFills
  <2>2. CASE Fenced(p) /\ At(p, "booking") /\ AppendEvent(state, chain.attempt)
    <3>1. state = "FILLED" => broker.status = "FILLED"
      BY <2>2, OrderAssumption
      DEF BaseInv, TypeOK, SweepIsCurrent, BookedAtBroker, BrokerSound, Fenced, At
    <3>2. /\ state \in Transitions[chain.state]
          /\ chain' = [state |-> state, attempt |-> chain.attempt]
          /\ state \in {"FILLED", "PARTIALLY_FILLED"}
      BY <2>2 DEF AppendEvent
    <3> HIDE DEF state
    <3> QED
      BY <1>0, <1>11, <3>1, <3>2, TransitionsLead DEF ChainMoves, Terminal, Working
  <2> QED
    BY <2>1, <2>2 DEF ChainMoves
<1>12. ASSUME ~ SavePreview(p), ~ Checkpoint(p), ~ PrepareRetry(p), ~ RecordUnknown(p),
              ~ Bridge(p), ~ RecordResponse(p), ~ RecordCancel(p), ~ Synchronise(p),
              ~ RequestCancel(p), ~ RecordFills(p)
       PROVE  chain' = chain
  BY <1>12
  DEF Step, Acquire, Refuse, Displaced, PersistFailure, InvalidResponse, Return,
      ClaimNamespace, RefreshPreview, BeginSubmit, Reserve, BeginRetry, CallBroker,
      BrokerAnswers, CallFails, ReadFills, ApplyFill, ReleaseFilled, CloseSweep,
      BeginReconcile, LookUp, SaveLookup, ConflictingEvidence, PersistVerdict,
      CancelAtBroker, CancelAnswers, CancelTimesOut, CancelUnknown, local
<1> QED
  BY <1>2, <1>3, <1>4, <1>5, <1>6, <1>7, <1>8, <1>9, <1>10, <1>11, <1>12 DEF ChainMoves

\* A chain that was sent stays sent, one that was answered stays answered,
\* and the attempt never goes back.
LEMMA ChainGoesOn ==
    ASSUME BaseInv, ChainInv, NEW p \in Procs, ChainMoves(p)
    PROVE  /\ chain.state \notin Unanswered => chain'.state \notin Unanswered
           /\ chain'.state \in Unsent =>
                 chain.state \in Unsent /\ (chain' = chain \/ SavePreview(p))
           /\ chain'.state = "NOT_SUBMITTED" => chain' = chain
           /\ chain.attempt <= chain'.attempt
           /\ chain'.state \in Terminal => broker.status = chain'.state
<1>1. chain.attempt \in Nat /\ (chain.state \in Unsent => chain.attempt = 0)
  BY OrderAssumption DEF BaseInv, TypeOK, Attempts, ChainInv, UnsentIsClean
<1>2. chain.state \in Terminal => broker.status = chain.state
  BY DEF ChainInv, EndsAgree
<1> QED
  BY <1>1, <1>2
  DEF ChainMoves, Unanswered, Unsent, Unknown, Terminal, Working, RetryEvidence

\* Each step of a call keeps the chain's protocol.
LEMMA CallKeepsChain ==
    ASSUME BaseInv, ChainInv, NEW p \in Procs, Step(p)
    PROVE  ChainInv'
<1>0. /\ p # Nobody
      /\ proc \in [Procs -> Records] /\ proc' \in [Procs -> Records]
      /\ broker \in BrokerStates /\ broker' \in BrokerStates
      /\ chain.attempt \in Attempts /\ chain'.attempt \in Attempts
      /\ calls \in [Attempts -> Nat]
  BY OrderAssumption, CallKeepsTypes, CallMoves, TypeOKSplits
  DEF BaseInv, BrokerStates, RowsTyped, Becomes, TypeOK
<1>1. ChainMoves(p)
  BY ChainMovesSo
<1>2. /\ chain.state \notin Unanswered => chain'.state \notin Unanswered
      /\ chain'.state \in Unsent => chain.state \in Unsent /\ (chain' = chain \/ SavePreview(p))
      /\ chain'.state = "NOT_SUBMITTED" => chain' = chain
      /\ chain.attempt <= chain'.attempt
      /\ chain'.state \in Terminal => broker.status = chain'.state
  BY <1>1, ChainGoesOn
<1>3. \A q \in Procs \ {p} :
         /\ proc'[q] = proc[q]
         /\ holder' = q => holder = q /\ chain' = chain
  BY <1>0, CallMoves, CallFrames, OrderAssumption DEF Becomes, Fenced
<1>4. Arrives(p) /\ Remembers(p)
  BY CallArrives
<1>5. \/ UNCHANGED <<broker, inflight, calls>>
      \/ UNCHANGED broker /\ CallBroker(p)
      \/ UNCHANGED <<inflight, calls>> /\ CancelAtBroker(p)
  BY CallFrames DEF CallBroker, CancelAtBroker, world
<1>6. FenceKeepsChain'
  <2>1. holder' = p /\ proc'[p].pc \in {"reserving", "checkpoint"} => chain'.state = "PREVIEWED"
    BY <1>4
    DEF Arrives, BeginSubmit, MayBegin, Reserve, At, local, ChainInv, FenceKeepsChain
  <2>2. holder' = p /\ proc'[p].pc = "calling" =>
           chain' = [state |-> "SUBMISSION_REQUESTED", attempt |-> proc'[p].attempt]
    <3>1. CASE Checkpoint(p) /\ proc'[p].pc = "calling"
      <4>1. proc[p].pc = "checkpoint" /\ proc[p].attempt = 0
        BY <3>1 DEF Checkpoint, At, ChainInv, FirstAttempt
      <4>2. proc'[p].attempt = 0
        BY <1>4, <3>1, <4>1 DEF Remembers, Fresh
      <4> QED
        BY <3>1, <4>2 DEF Checkpoint, AppendEvent
    <3>2. CASE PrepareRetry(p) /\ proc'[p].pc = "calling"
      <4>1. proc'[p].attempt = chain.attempt + 1
        BY <1>4, <3>2 DEF Remembers, Fresh, PrepareRetry, At
      <4> QED
        BY <3>2, <4>1 DEF PrepareRetry, AppendEvent
    <3> QED
      BY <1>4, <3>1, <3>2 DEF Arrives
  <2>3. holder' = p /\ proc'[p].pc \in {"awaiting", "answered", "ambiguous"} =>
           chain' = [state |-> "SUBMISSION_REQUESTED", attempt |-> proc'[p].attempt]
    BY <1>4
    DEF Arrives, Remembers, Fresh, CallBroker, BrokerAnswers, CallFails, At, local, ChainInv,
        FenceKeepsChain
  <2>4. holder' = p /\ proc'[p].pc = "cancelling" =>
           chain' = [state |-> "CANCEL_REQUESTED", attempt |-> proc'[p].attempt]
    BY <1>4 DEF Arrives, Remembers, Fresh, RequestCancel, At, AppendEvent
  <2>5. holder' = p /\ proc'[p].pc \in {"cancelSent", "cancelAnswered"} =>
           chain' = [state |-> "CANCEL_REQUESTED", attempt |-> proc'[p].attempt]
    BY <1>4
    DEF Arrives, Remembers, Fresh, CancelAtBroker, CancelAnswers, At, local, ChainInv,
        FenceKeepsChain
  <2> QED
    BY <1>3, <2>1, <2>2, <2>3, <2>4, <2>5 DEF FenceKeepsChain, ChainInv
<1>7. FirstAttempt'
  <2>1. proc'[p].pc \in {"idle", "entering", "held", "reserving", "checkpoint"} =>
           proc'[p].attempt = 0
    BY <1>4
    DEF Arrives, Remembers, Fresh, Acquire, BeginSubmit, Reserve, At, ChainInv, FirstAttempt
  <2> QED
    BY <1>3, <2>1 DEF FirstAttempt, ChainInv
<1>8. /\ broker'.status \in Terminal \/ broker.status = "NONE" \/ broker' = broker
           \/ broker'.status \in Working
      /\ broker.status \in Terminal => broker' = broker
      /\ broker'.status = "NONE" => broker.status = "NONE"
      /\ broker'.status = "CANCEL_REQUESTED" =>
            broker.status = "CANCEL_REQUESTED" \/ At(p, "cancelling")
  BY <1>0, <1>5 DEF CancelAtBroker, Live, Working, Terminal, BrokerStates
<1>9. SeenIsReal'
  <2>1. ASSUME NEW q \in Procs, proc'[q].seen = proc[q].seen
        PROVE  LET status == proc'[q].seen.status
               IN /\ status \in Terminal => broker'.status = status
                  /\ status \in Working \cup {"MALFORMED"} => broker'.status # "NONE"
                  /\ status = "CANCEL_REQUESTED" => chain'.state \notin Unanswered
    BY <1>2, <1>8, <2>1 DEF ChainInv, SeenIsReal
  <2>2. ASSUME proc'[p].seen # proc[p].seen
        PROVE  LET status == proc'[p].seen.status
               IN /\ status \in Terminal => broker'.status = status
                  /\ status \in Working \cup {"MALFORMED"} => broker'.status # "NONE"
                  /\ status = "CANCEL_REQUESTED" => chain'.state \notin Unanswered
    <3>1. CASE proc'[p].seen = NoOrder
      BY <3>1 DEF NoOrder, Terminal, Working
    <3>2. CASE proc'[p].seen = broker /\ proc[p].pc \in {"awaiting", "lookup"}
      <4>1. broker' = broker
        BY <1>5, <3>2 DEF CancelAtBroker, At
      <4>2. broker.status \in Terminal \cup Working \cup {"NONE"}
        BY <1>0 DEF BrokerStates
      <4> QED
        BY <1>2, <3>2, <4>1, <4>2
        DEF ChainInv, CancelsAreAnswered, Terminal, Working
    <3>3. CASE proc'[p].pc = "cancelAnswered"
      <4>1. CancelAnswers(p) /\ proc[p].pc = "cancelSent"
        BY <1>4, <3>3 DEF Arrives, CancelAnswers, At
      <4>2. proc'[p].seen = [broker EXCEPT !.status =
                                IF @ = "SUBMITTED" THEN "CANCEL_REQUESTED" ELSE @]
        BY <1>4, <3>3, <4>1 DEF Remembers, Fresh
      <4>3. broker' = broker /\ chain'.state \notin Unanswered
        BY <1>2, <4>1 DEF CancelAnswers, world, ChainInv, CancelsAreAnswered
      <4>4. broker.status \in Terminal \cup Working \cup {"NONE"}
        BY <1>0 DEF BrokerStates
      <4>5. proc'[p].seen.status =
               IF broker.status = "SUBMITTED" THEN "CANCEL_REQUESTED" ELSE broker.status
        BY <1>0, <4>2 DEF BrokerStates
      <4> QED
        BY <4>3, <4>4, <4>5 DEF Terminal, Working
    <3> QED
      BY <1>4, <2>2, <3>1, <3>2, <3>3 DEF Remembers
  <2> QED
    BY <1>3, <2>1, <2>2 DEF SeenIsReal
<1>10. CancelsAreAnswered'
  <2>1. proc'[p].pc \in {"cancelling", "cancelSent", "cancelAnswered"} =>
           chain'.state \notin Unanswered
    <3>1. CASE RequestCancel(p)
      BY <3>1 DEF RequestCancel, AppendEvent, Unanswered, Unsent, Unknown
    <3>2. CASE CancelAtBroker(p) \/ CancelAnswers(p)
      BY <1>2, <3>2 DEF CancelAtBroker, CancelAnswers, At, ChainInv, CancelsAreAnswered
    <3> QED
      BY <1>4, <3>1, <3>2 DEF Arrives
  <2> QED
    BY <1>2, <1>3, <1>8, <2>1 DEF CancelsAreAnswered, ChainInv, At
<1>11. UnsentIsClean'
  <2> SUFFICES ASSUME chain'.state \in Unsent
               PROVE  /\ chain'.attempt = 0 /\ broker' = NoOrder /\ inflight' = {}
                      /\ \A a \in Attempts : calls'[a] = 0
                      /\ \A q \in Procs : proc'[q].pc # "calling"
    BY DEF UnsentIsClean
  <2>1. /\ chain.attempt = 0 /\ broker = NoOrder /\ inflight = {}
        /\ \A a \in Attempts : calls[a] = 0
        /\ \A q \in Procs : proc[q].pc # "calling"
    BY <1>2 DEF ChainInv, UnsentIsClean
  <2>2. UNCHANGED <<broker, inflight, calls>>
    BY <1>5, <2>1
    DEF CallBroker, CancelAtBroker, At, Live, NoOrder, Working, ChainInv, CancelsAreAnswered
  <2>3. chain'.attempt = 0
    BY <1>2, <2>1 DEF SavePreview, AppendEvent
  <2>4. proc'[p].pc # "calling"
    BY <1>4 DEF Arrives, Checkpoint, PrepareRetry, AppendEvent, Unsent
  <2> QED
    BY <1>3, <2>1, <2>2, <2>3, <2>4
<1>12. NamespaceIsClaimed'
  <2>1. namespace' = namespace \/ namespace' = "EXTERNAL_PAPER"
    BY DEF Step, Acquire, Refuse, Displaced, PersistFailure, InvalidResponse, Return,
      ClaimNamespace, SavePreview, RefreshPreview, BeginSubmit, Reserve, Checkpoint,
      BeginRetry, PrepareRetry, CallBroker, BrokerAnswers, CallFails, RecordUnknown,
      RecordResponse, ReadFills, ApplyFill, RecordFills, ReleaseFilled, CloseSweep,
      BeginReconcile, LookUp, Bridge, SaveLookup, Synchronise, ConflictingEvidence,
      PersistVerdict, RequestCancel, CancelAtBroker, CancelAnswers, CancelTimesOut,
      RecordCancel, CancelUnknown, local
  <2>2. proc'[p].pc = "previewing" => namespace' = "EXTERNAL_PAPER"
    BY <1>4 DEF Arrives, ClaimNamespace
  <2>3. chain' # chain => namespace = "EXTERNAL_PAPER"
    <3>1. CASE SavePreview(p)
      BY <3>1 DEF SavePreview, At, ChainInv, NamespaceIsClaimed
    <3>2. CASE chain.state # "NOT_SUBMITTED"
      BY <3>2 DEF ChainInv, NamespaceIsClaimed
    <3> QED
      BY <1>1, <3>1, <3>2 DEF ChainMoves, Unsent, RetryEvidence, Unknown
  <2> QED
    BY <1>3, <2>1, <2>2, <2>3 DEF NamespaceIsClaimed, ChainInv
<1>13. CallsFollowChain'
  <2>0. /\ \A a \in Attempts : a \in Nat /\ calls[a] \in Nat
        /\ \A q \in Procs : proc[q].attempt \in Attempts /\ proc'[q].attempt \in Attempts
        /\ 0 \in Attempts
    <3>1. /\ \A a \in Attempts : a \in Nat
          /\ 0 \in Attempts
      BY OrderAssumption DEF Attempts
    <3>2. \A r \in Records : r.attempt \in Attempts
      BY DEF Records
    <3> QED
      BY <1>0, <3>1, <3>2
  <2>1. CASE CallBroker(p)
    <3>1. /\ calls' = [calls EXCEPT ![proc[p].attempt] = @ + 1]
          /\ proc[p].pc = "calling" /\ chain' = chain
          /\ calls[proc[p].attempt] = 0 /\ proc[p].attempt <= chain.attempt
          /\ \A q \in Procs \ {p} :
                proc[q].pc = "calling" => proc[q].attempt # proc[p].attempt
      BY <2>1 DEF CallBroker, At, local, ChainInv, CallsFollowChain
    <3>2. proc'[p].pc # "calling"
      BY <1>4, <2>1 DEF Arrives, Checkpoint, PrepareRetry, CallBroker, At
    <3>3. \A a \in Attempts : calls'[a] = IF a = proc[p].attempt THEN 1 ELSE calls[a]
      BY <1>0, <2>0, <3>1
    <3> QED
      BY <1>3, <2>0, <3>1, <3>2, <3>3 DEF CallsFollowChain, ChainInv
  <2>2. CASE calls' = calls /\ proc'[p].pc # "calling"
    BY <1>0, <1>2, <1>3, <2>0, <2>2 DEF CallsFollowChain, ChainInv, Attempts
  <2>3. CASE proc'[p].pc = "calling" /\ ~ CallBroker(p)
    <3>1. calls' = calls /\ proc'[p].attempt = chain'.attempt /\ holder' = p
      <4>1. CASE Checkpoint(p)
        <5>1. proc[p].pc = "checkpoint" /\ proc[p].attempt = 0
          BY <4>1 DEF Checkpoint, At, ChainInv, FirstAttempt
        <5>2. proc'[p].attempt = 0
          BY <1>4, <2>3, <5>1 DEF Remembers, Fresh
        <5> QED
          BY <4>1, <5>2 DEF Checkpoint, AppendEvent, Fenced
      <4>2. CASE PrepareRetry(p)
        <5>1. proc'[p].attempt = chain.attempt + 1
          BY <1>4, <2>3, <4>2 DEF Remembers, Fresh, PrepareRetry, At
        <5> QED
          BY <4>2, <5>1 DEF PrepareRetry, AppendEvent, Fenced
      <4> QED
        BY <1>4, <2>3, <4>1, <4>2 DEF Arrives
    <3>2. /\ \A a \in Attempts : calls[a] > 0 => a < chain'.attempt
          /\ \A q \in Procs \ {p} : proc[q].pc = "calling" => proc[q].attempt < chain'.attempt
      <4>1. CASE Checkpoint(p)
        <5>1. chain.state \in Unsent
          BY <4>1 DEF Checkpoint, At, Fenced, ChainInv, FenceKeepsChain, Unsent
        <5> QED
          BY <2>0, <5>1 DEF ChainInv, UnsentIsClean
      <4>2. CASE PrepareRetry(p)
        <5>1. chain'.attempt = chain.attempt + 1
          BY <4>2 DEF PrepareRetry, AppendEvent
        <5>2. /\ \A a \in Attempts : calls[a] > 0 => a <= chain.attempt
              /\ \A q \in Procs : proc[q].pc = "calling" => proc[q].attempt <= chain.attempt
          BY DEF ChainInv, CallsFollowChain
        <5> QED
          BY <1>0, <2>0, <5>1, <5>2
      <4> QED
        BY <1>4, <2>3, <4>1, <4>2 DEF Arrives
    <3> QED
      BY <1>0, <1>3, <2>0, <3>1, <3>2 DEF CallsFollowChain, ChainInv
  <2> QED
    BY <1>5, <2>1, <2>2, <2>3
<1>14. EndsAgree'
  BY <1>2, <1>8 DEF EndsAgree
<1> QED
  BY <1>6, <1>7, <1>9, <1>10, <1>11, <1>12, <1>13, <1>14 DEF ChainInv

\* Neither a new call, a misfortune nor a takeover disturbs the protocol.
LEMMA IncidentKeepsChain ==
    ASSUME BaseInv, ChainInv, NEW p \in Procs, Incident(p)
    PROVE  ChainInv'
<1>1. /\ \A q \in Procs \ {p} : proc'[q] = proc[q] /\ (holder' = q => holder = q)
      /\ UNCHANGED <<chain, namespace, broker, inflight, calls>>
  BY IncidentMoves, OrderAssumption DEF Becomes, local, world
<1>2. proc'[p].pc \in {"entering", "held", "idle", "bridging", "looked", "evidence",
                       "leaving", "failed"}
  BY IncidentMoves
<1>3. FenceKeepsChain' /\ CancelsAreAnswered' /\ UnsentIsClean' /\ NamespaceIsClaimed'
      /\ EndsAgree'
  BY <1>1, <1>2
  DEF ChainInv, FenceKeepsChain, CancelsAreAnswered, UnsentIsClean, NamespaceIsClaimed,
      EndsAgree
<1>4. FirstAttempt'
  <2>1. proc'[p].pc \in {"idle", "entering", "held", "reserving", "checkpoint"} =>
           proc'[p].attempt = 0
    BY <1>2, IncidentMoves DEF ChainInv, FirstAttempt
  <2> QED
    BY <1>1, <2>1 DEF ChainInv, FirstAttempt
<1>5. SeenIsReal'
  BY <1>1, IncidentMoves DEF ChainInv, SeenIsReal, Terminal, Working
<1>6. CallsFollowChain'
  BY <1>1, <1>2 DEF ChainInv, CallsFollowChain
<1> QED
  BY <1>3, <1>4, <1>5, <1>6 DEF ChainInv

LEMMA BrokerKeepsChain ==
    ASSUME BaseInv, ChainInv, BrokerStep
    PROVE  ChainInv'
<1>1. UNCHANGED <<chain, lookup, namespace, holder, proc, calls>>
  BY BrokerMoves DEF local
<1>2. FenceKeepsChain' /\ FirstAttempt' /\ NamespaceIsClaimed' /\ CallsFollowChain'
  BY <1>1
  DEF ChainInv, FenceKeepsChain, FirstAttempt, NamespaceIsClaimed, CallsFollowChain
<1>3. SeenIsReal'
  BY <1>1, BrokerMoves DEF ChainInv, SeenIsReal, BrokerStates
<1>4. CancelsAreAnswered' /\ EndsAgree'
  BY <1>1, BrokerMoves DEF ChainInv, CancelsAreAnswered, EndsAgree
<1>5. UnsentIsClean'
  BY <1>1, BrokerMoves DEF ChainInv, UnsentIsClean, NoOrder
<1> QED
  BY <1>2, <1>3, <1>4, <1>5 DEF ChainInv

\* A local fill takes the intent only before a preview has claimed it.
LEMMA ElsewhereKeepsChain ==
    ASSUME BaseInv, ChainInv, Elsewhere
    PROVE  ChainInv'
<1>1. UNCHANGED <<chain, lookup, holder, proc, broker, inflight, calls>>
  BY ElsewhereMoves
<1>2. NamespaceIsClaimed'
  BY <1>1
  DEF ChainInv, NamespaceIsClaimed, Elsewhere, PreviewExpires, FillLocally, IntentAges, Bar,
      Unbar, vars, local
<1> QED
  BY <1>1, <1>2
  DEF ChainInv, FenceKeepsChain, FirstAttempt, SeenIsReal, CancelsAreAnswered, UnsentIsClean,
      CallsFollowChain, EndsAgree

LEMMA ChainStands == Spec => []ChainInv
<1>1. Init => ChainInv
  <2> SUFFICES ASSUME Init PROVE ChainInv
    OBVIOUS
  <2>1. \A p \in Procs : proc[p] = Idle /\ holder # p
    BY OrderAssumption DEF Init
  <2>2. \A a \in Attempts : calls[a] = 0
    BY DEF Init
  <2>3. /\ chain.state = "NOT_SUBMITTED" /\ chain.attempt = 0 /\ broker = NoOrder
        /\ inflight = {}
    BY DEF Init
  <2> QED
    BY <2>1, <2>2, <2>3
    DEF ChainInv, FenceKeepsChain, FirstAttempt, SeenIsReal, CancelsAreAnswered,
        UnsentIsClean, NamespaceIsClaimed, CallsFollowChain, EndsAgree, Idle, NoOrder,
        Terminal, Working
<1>2. BaseInv /\ ChainInv /\ [Next]_vars => ChainInv'
  BY NextSplits, CallKeepsChain, IncidentKeepsChain, BrokerKeepsChain, ElsewhereKeepsChain
<1> QED
  BY <1>1, <1>2, BaseStands, PTL DEF Spec

-----------------------------------------------------------------------------
\* However calls overlap, retry, crash and are taken over, and whatever the
\* network does, an intent is executed in one place, and there by at most one
\* request per attempt.
THEOREM OrderExecutedOnce == Spec => []ExecutedOnce
<1>1. BaseInv /\ ChainInv => ExecutedOnce
  <2> SUFFICES ASSUME BaseInv, ChainInv PROVE ExecutedOnce
    OBVIOUS
  <2>1. NoAttemptSentTwice
    BY DEF ChainInv, CallsFollowChain, NoAttemptSentTwice
  <2>2. OneNamespace
    BY OrderAssumption
    DEF BaseInv, TypeOK, BookedAtBroker, ChainInv, NamespaceIsClaimed, UnsentIsClean, Unsent,
        OneNamespace, NoOrder
  <2> QED
    BY <2>1, <2>2 DEF ExecutedOnce
<1> QED
  BY <1>1, BaseStands, ChainStands, PTL

\* The attempt number moves only on authoritative NOT_FOUND evidence that
\* still stands when the retry commits.
THEOREM RetriesRestOnEvidence == Spec => RetryRestsOnEvidence
<1>1. BaseInv /\ ChainInv /\ [Next]_vars => [chain'.attempt # chain.attempt => RetryEvidence]_vars
  <2> SUFFICES ASSUME BaseInv, ChainInv, [Next]_vars, chain'.attempt # chain.attempt
               PROVE  RetryEvidence
    OBVIOUS
  <2>1. PICK p \in Procs : Step(p)
    BY NextSplits, IncidentMoves, BrokerMoves, ElsewhereMoves DEF local
  <2>2. ChainMoves(p)
    BY <2>1, ChainMovesSo
  <2> QED
    BY <2>2 DEF ChainMoves, ChainInv, UnsentIsClean, Unsent
<1> QED
  BY <1>1, BaseStands, ChainStands, PTL DEF Spec, RetryRestsOnEvidence

\* The books never run ahead of the broker, and the chain ends only the way
\* the broker's order did.
THEOREM BooksAlwaysFollowBroker == Spec => []BooksFollowBroker
<1>1. BaseInv /\ ChainInv => BooksFollowBroker
  BY DEF BaseInv, ChainInv, BooksFollowBroker
<1> QED
  BY <1>1, BaseStands, ChainStands, PTL

-----------------------------------------------------------------------------
(* The attempt reservations.                                               *)

\* The steps that write an attempt reservation.
LEMMA ReservationMoves ==
    ASSUME NEW p \in Procs, Step(p)
    PROVE  \/ reservation' = reservation
           \/ Reserve(p) \/ PrepareRetry(p) \/ RecordUnknown(p) \/ RecordResponse(p)
           \/ SaveLookup(p) \/ Synchronise(p)
BY DEF Step, Acquire, Refuse, Displaced, PersistFailure, InvalidResponse, Return,
      ClaimNamespace, SavePreview, RefreshPreview, BeginSubmit, Checkpoint, BeginRetry,
      CallBroker, BrokerAnswers, CallFails, ReadFills, ApplyFill, RecordFills,
      ReleaseFilled, CloseSweep, BeginReconcile, LookUp, Bridge, ConflictingEvidence,
      PersistVerdict, RequestCancel, CancelAtBroker, CancelAnswers, CancelTimesOut,
      RecordCancel, CancelUnknown, local

\* Each step of a call keeps the budget: the current attempt alone may be
\* active, and it stays so while the broker may still execute the order.
LEMMA CallKeepsBudget ==
    ASSUME BaseInv, ChainInv, BudgetInv, NEW p \in Procs, Step(p)
    PROVE  BudgetInv'
<1>0. /\ chain.attempt \in Attempts /\ chain'.attempt \in Attempts
      /\ reservation \in [Attempts -> ReservationStates]
      /\ 0 \in Attempts /\ \A a \in Attempts : a \in Nat
      /\ proc[p].seen.status \in Terminal \cup Working \cup {"NONE", "ERROR", "MALFORMED"}
  <2>1. TypeOK /\ TypeOK' /\ proc[p] \in Records
    BY CallKeepsTypes, TypeOKSplits DEF BaseInv
  <2>2. /\ chain.attempt \in Attempts /\ chain'.attempt \in Attempts
        /\ reservation \in [Attempts -> ReservationStates]
    BY <2>1 DEF TypeOK
  <2>3. 0 \in Attempts /\ \A a \in Attempts : a \in Nat
    BY OrderAssumption DEF Attempts
  <2>4. proc[p].seen.status \in Terminal \cup Working \cup {"NONE", "ERROR", "MALFORMED"}
    BY <2>1 DEF Records, Snapshots
  <2> QED
    BY <2>2, <2>3, <2>4
<1>1. ChainMoves(p)
  BY ChainMovesSo
<1>2. broker.status \in Terminal => broker' = broker
  BY CallFrames DEF CancelAtBroker, CallBroker, Live, Working, Terminal, world
<1>3. Arrives(p)
  BY CallArrives
<1>4. \A q \in Procs \ {p} : proc'[q] = proc[q]
  BY CallMoves DEF Becomes
<1>5. CASE reservation' = reservation
  <2>1. chain'.attempt = chain.attempt
    <3>1. ~ PrepareRetry(p)
      <4> SUFFICES ASSUME PrepareRetry(p) PROVE FALSE
        OBVIOUS
      <4>1. /\ chain.attempt # chain.attempt + 1
            /\ reservation' = [reservation EXCEPT ![chain.attempt] = "SUPERSEDED_BY_RETRY",
                                                  ![chain.attempt + 1] = "RESERVED"]
        BY <1>0 DEF PrepareRetry
      <4>2. reservation'[chain.attempt] = "SUPERSEDED_BY_RETRY"
        BY <1>0, <4>1
      <4> QED
        BY <1>5, <4>2 DEF PrepareRetry, Unsettled
    <3>2. chain.state \in Unsent => chain.attempt = 0
      BY DEF ChainInv, UnsentIsClean
    <3> QED
      BY <1>1, <3>1, <3>2 DEF ChainMoves, Unsent
  <2>2. CheckpointReserved'
    <3>1. ASSUME proc'[p].pc = "checkpoint" PROVE reservation'[0] # "NONE"
      <4>1. reservation' = [reservation EXCEPT ![0] = IF @ = "NONE" THEN "RESERVED" ELSE @]
        BY <1>3, <3>1 DEF Arrives, Reserve
      <4> QED
        BY <1>0, <4>1
    <3> QED
      BY <1>4, <1>5, <3>1 DEF BudgetInv, CheckpointReserved
  <2>3. chain'.state \in Unsent \/ chain.state \notin Unsent
           \/ reservation[chain.attempt] # "NONE"
    <3>1. CASE Checkpoint(p)
      BY <3>1
      DEF Checkpoint, At, Fenced, BudgetInv, CheckpointReserved, ChainInv, FenceKeepsChain,
          UnsentIsClean, Unsent
    <3> QED
      BY <1>1, <3>1 DEF ChainMoves, Unsent, RetryEvidence, Unknown
  <2>4. chain.state \notin Unanswered => chain'.state \notin Unanswered
    BY <1>1, ChainGoesOn
  <2>5. CurrentFollowsChain'
    BY <1>2, <1>5, <2>1, <2>3, <2>4 DEF BudgetInv, CurrentFollowsChain, Terminal
  <2> QED
    BY <1>5, <2>1, <2>2, <2>5 DEF BudgetInv, OthersInactive
<1>6. CASE Reserve(p)
  <2>1. /\ reservation' = [reservation EXCEPT ![0] = IF @ = "NONE" THEN "RESERVED" ELSE @]
        /\ chain' = chain /\ broker' = broker
    BY <1>6 DEF Reserve, world
  <2>2. OthersInactive'
    BY <1>0, <2>1 DEF BudgetInv, OthersInactive
  <2>3. CurrentFollowsChain' /\ CheckpointReserved'
    BY <1>0, <2>1, <1>3, <1>4
    DEF BudgetInv, CurrentFollowsChain, CheckpointReserved, Arrives
  <2> QED
    BY <2>2, <2>3 DEF BudgetInv
<1>7. CASE PrepareRetry(p)
  <2>1. /\ reservation' = [reservation EXCEPT ![chain.attempt] = "SUPERSEDED_BY_RETRY",
                                              ![chain.attempt + 1] = "RESERVED"]
        /\ chain' = [state |-> "SUBMISSION_REQUESTED", attempt |-> chain.attempt + 1]
    BY <1>7 DEF PrepareRetry, AppendEvent
  <2>2. chain.attempt + 1 \in Attempts
    BY <1>0, <2>1
  <2>3. \A a \in Attempts :
           reservation'[a] = IF a = chain.attempt + 1 THEN "RESERVED"
                             ELSE IF a = chain.attempt THEN "SUPERSEDED_BY_RETRY"
                             ELSE reservation[a]
    BY <1>0, <2>1, <2>2
  <2>4. OthersInactive'
    BY <1>0, <2>1, <2>3 DEF BudgetInv, OthersInactive
  <2>5. CurrentFollowsChain'
    <3>1. reservation'[chain'.attempt] = "RESERVED"
      BY <2>1, <2>2, <2>3
    <3> QED
      BY <3>1 DEF CurrentFollowsChain
  <2>6. CheckpointReserved'
    BY <1>0, <1>3, <1>4, <1>7, <2>3
    DEF BudgetInv, CheckpointReserved, Arrives, Reserve, PrepareRetry, At
  <2> QED
    BY <2>4, <2>5, <2>6 DEF BudgetInv
<1>8. ASSUME NEW target \in {"RELEASED", "SUBMITTED", "RECONCILIATION_REQUIRED"},
             NEW r \in ReservationStates,
             r = target \/ r = reservation[chain.attempt],
             reservation' = [reservation EXCEPT ![chain.attempt] = r],
             reservation[chain.attempt] = "NONE" => chain.state \in Unsent /\ chain' = chain,
             chain'.attempt = chain.attempt,
             r = "RELEASED" => broker.status = "REJECTED",
             r \in {"RELEASED", "SUBMITTED"} => chain'.state \notin Unanswered,
             proc'[p].pc # "checkpoint"
      PROVE  BudgetInv'
  <2>1. OthersInactive'
    BY <1>0, <1>8 DEF BudgetInv, OthersInactive
  <2>2. CurrentFollowsChain'
    BY <1>0, <1>2, <1>8 DEF BudgetInv, CurrentFollowsChain, Terminal
  <2>3. CheckpointReserved'
    BY <1>0, <1>4, <1>8 DEF BudgetInv, CheckpointReserved
  <2> QED
    BY <2>1, <2>2, <2>3 DEF BudgetInv
<1>9. proc'[p].pc = "checkpoint" => Reserve(p)
  BY <1>3 DEF Arrives
<1>10. CASE RecordUnknown(p)
  <2>1. /\ chain = [state |-> "SUBMISSION_REQUESTED", attempt |-> proc[p].attempt]
        /\ chain' = [state |-> Unknown, attempt |-> chain.attempt]
        /\ reservation' = [reservation EXCEPT ![chain.attempt] = "RECONCILIATION_REQUIRED"]
    <3>1. chain = [state |-> "SUBMISSION_REQUESTED", attempt |-> proc[p].attempt]
      BY <1>10 DEF RecordUnknown, At, Fenced, ChainInv, FenceKeepsChain
    <3>2. proc[p].attempt = chain.attempt
      BY <3>1
    <3>3. chain' = [state |-> Unknown, attempt |-> chain.attempt] /\ Settle(chain.attempt, Unknown)
      BY <1>10, <3>2 DEF RecordUnknown, AppendEvent
    <3>4. Settled(reservation[chain.attempt], Unknown) = "RECONCILIATION_REQUIRED"
      BY DEF Settled, Unknown
    <3>5. reservation' = [reservation EXCEPT ![chain.attempt] = "RECONCILIATION_REQUIRED"]
      BY <3>3, <3>4 DEF Settle
    <3> QED
      BY <3>1, <3>3, <3>5
  <2>2. reservation[chain.attempt] # "NONE"
    BY <2>1 DEF BudgetInv, CurrentFollowsChain, Unsent
  <2>3. "RECONCILIATION_REQUIRED" \in ReservationStates /\ proc'[p].pc # "checkpoint"
    BY <1>9, <1>10 DEF ReservationStates, ActiveReservation, RecordUnknown, Reserve, At
  <2> QED
    BY <1>8, <2>1, <2>2, <2>3
<1>11. CASE RecordResponse(p)
  <2> DEFINE target == IF proc[p].seen.status = "REJECTED" THEN "RELEASED" ELSE "SUBMITTED"
  <2>1. chain = [state |-> "SUBMISSION_REQUESTED", attempt |-> proc[p].attempt]
    BY <1>11 DEF RecordResponse, At, Fenced, ChainInv, FenceKeepsChain
  <2>2. chain' = [state |-> proc[p].seen.status, attempt |-> chain.attempt]
    BY <1>11, <2>1 DEF RecordResponse, AppendEvent
  <2>3. chain'.state \in Terminal \cup Working
    BY <1>1, <1>11, <2>1, <2>2, <1>0
    DEF ChainMoves, RecordResponse, At, SavePreview, Checkpoint, PrepareRetry, RecordUnknown,
        Bridge, Unsent, Terminal, Working
  <2>4. reservation' = [reservation EXCEPT ![chain.attempt] = target]
    BY <1>11, <2>1, <2>2, <2>3
    DEF RecordResponse, Settle, Settled, Unknown, Terminal, Working
  <2>5. reservation[chain.attempt] # "NONE"
    BY <2>1 DEF BudgetInv, CurrentFollowsChain, Unsent
  <2>6. target = "RELEASED" => broker.status = "REJECTED"
    BY DEF ChainInv, SeenIsReal, Terminal
  <2>7. chain'.state \notin Unanswered
    BY <2>3 DEF Unanswered, Unsent, Unknown, Terminal, Working
  <2>8. /\ target \in {"RELEASED", "SUBMITTED"} /\ target \in ReservationStates
        /\ proc'[p].pc # "checkpoint"
    BY <1>9, <1>11
    DEF ReservationStates, ActiveReservation, RecordResponse, Reserve, At
  <2> HIDE DEF target
  <2> QED
    BY <1>8, <2>2, <2>4, <2>5, <2>6, <2>7, <2>8
<1>12. CASE SaveLookup(p)
  <2> DEFINE r == IF Unsettled(reservation[chain.attempt])
                    THEN "RECONCILIATION_REQUIRED" ELSE reservation[chain.attempt]
  <2>1. chain' = chain /\ proc'[p].pc # "checkpoint"
    BY <1>9, <1>12 DEF SaveLookup, Reserve, At
  <2>2. reservation' = reservation \/ reservation' = [reservation EXCEPT ![chain.attempt] = r]
    BY <1>12 DEF SaveLookup, Repair, RepairTarget
  <2>3. r \in ReservationStates
    BY <1>0 DEF ReservationStates, ActiveReservation
  <2>4. /\ reservation[chain.attempt] = "NONE" => chain.state \in Unsent
        /\ r = "RELEASED" => broker.status = "REJECTED"
        /\ r \in {"RELEASED", "SUBMITTED"} => chain.state \notin Unanswered
    BY DEF BudgetInv, CurrentFollowsChain
  <2>5. r = "RECONCILIATION_REQUIRED" \/ r = reservation[chain.attempt]
    OBVIOUS
  <2> HIDE DEF r
  <2> QED
    BY <1>5, <1>8, <2>1, <2>2, <2>3, <2>4, <2>5
<1>13. CASE Synchronise(p)
  <2> DEFINE status == proc[p].seen.status
             target == RepairTarget(status)
             r == IF Unsettled(reservation[chain.attempt])
                    THEN target ELSE reservation[chain.attempt]
  <2>1. reservation' = [reservation EXCEPT ![chain.attempt] = r]
    BY <1>13 DEF Synchronise, Repair
  <2>2. /\ status \in Terminal \cup Working \cup {"MALFORMED"}
        /\ broker.status # "NONE"
    <3>1. status \notin {"NONE", "ERROR"}
      BY <1>13 DEF Synchronise, At, BaseInv, SweepIsAnswered
    <3>2. status \in Terminal => broker.status = status
      BY DEF ChainInv, SeenIsReal
    <3>3. status \in Working \cup {"MALFORMED"} => broker.status # "NONE"
      BY DEF ChainInv, SeenIsReal
    <3> QED
      BY <1>0, <3>1, <3>2, <3>3 DEF Terminal
  <2>3. chain.state \notin Unsent
    BY <2>2 DEF ChainInv, UnsentIsClean, NoOrder
  <2>4. chain'.attempt = chain.attempt
    BY <1>13 DEF Synchronise, AppendEvent
  <2>5. status \in Terminal \cup Working => chain'.state \notin Unanswered
    <3> SUFFICES ASSUME status \in Terminal \cup Working
                 PROVE  chain'.state \notin Unanswered
      OBVIOUS
    <3>1. CASE chain.state \notin Unanswered
      BY <1>1, <3>1, ChainGoesOn
    <3>2. CASE chain.state \in Unanswered
      <4>1. chain.state \in {"SUBMISSION_REQUESTED", Unknown}
        BY <2>3, <3>2 DEF Unanswered
      <4>2. status # "CANCEL_REQUESTED"
        BY <3>2 DEF ChainInv, SeenIsReal
      <4>3. status \in Transitions[chain.state] /\ status # chain.state
        BY <4>1, <4>2 DEF Transitions, OrderStates, Terminal, Working, Unknown
      <4>4. chain'.state = status
        BY <1>13, <4>3 DEF Synchronise, AppendEvent
      <4> QED
        BY <4>4 DEF Unanswered, Unsent, Unknown, Terminal, Working
    <3> QED
      BY <3>1, <3>2
  <2>6. /\ target = "RELEASED" => status = "REJECTED"
        /\ target # "RECONCILIATION_REQUIRED" => status \in Terminal \cup Working
        /\ target \in {"RELEASED", "SUBMITTED", "RECONCILIATION_REQUIRED"}
    BY <2>2 DEF RepairTarget
  <2>7. r = "RELEASED" => broker.status = "REJECTED"
    BY <2>6 DEF ChainInv, SeenIsReal, Terminal, BudgetInv, CurrentFollowsChain
  <2>8. r \in {"RELEASED", "SUBMITTED"} => chain'.state \notin Unanswered
    <3>1. chain.state \notin Unanswered => chain'.state \notin Unanswered
      BY <1>1, ChainGoesOn
    <3> QED
      BY <2>5, <2>6, <3>1 DEF BudgetInv, CurrentFollowsChain
  <2>9. reservation[chain.attempt] # "NONE"
    BY <2>3 DEF BudgetInv, CurrentFollowsChain
  <2>10. proc'[p].pc # "checkpoint" /\ r \in ReservationStates
    BY <1>0, <1>9, <1>13, <2>6
    DEF Synchronise, Reserve, At, ReservationStates, ActiveReservation
  <2>11. r = target \/ r = reservation[chain.attempt]
    OBVIOUS
  <2> HIDE DEF status, target, r
  <2> QED
    BY <1>8, <2>1, <2>4, <2>6, <2>7, <2>8, <2>9, <2>10, <2>11
<1> QED
  BY <1>5, <1>6, <1>7, <1>10, <1>11, <1>12, <1>13, ReservationMoves

\* Misfortunes leave the reservations alone; the broker may end an order it
\* has, but one it rejected stays rejected.
LEMMA OthersKeepBudget ==
    ASSUME BaseInv, ChainInv, BudgetInv,
           \/ \E p \in Procs : Incident(p)
           \/ BrokerStep
           \/ Elsewhere
    PROVE  BudgetInv'
<1>1. /\ UNCHANGED <<chain, reservation>>
      /\ broker.status = "REJECTED" => broker' = broker
  BY IncidentMoves, BrokerMoves, ElsewhereMoves DEF local, world, Terminal
<1>2. \A p \in Procs : proc'[p].pc = "checkpoint" => proc[p].pc = "checkpoint"
  <2>1. CASE \E p \in Procs : Incident(p)
    BY <2>1, IncidentMoves DEF Becomes
  <2>2. CASE proc' = proc
    BY <2>2
  <2> QED
    BY <2>1, <2>2, BrokerMoves, ElsewhereMoves
<1> QED
  BY <1>1, <1>2
  DEF BudgetInv, OthersInactive, CurrentFollowsChain, CheckpointReserved

LEMMA BudgetStands == Spec => []BudgetInv
<1>1. Init => BudgetInv
  <2> SUFFICES ASSUME Init PROVE BudgetInv
    OBVIOUS
  <2>1. /\ \A a \in Attempts : a \in Nat /\ reservation[a] = "NONE"
        /\ 0 \in Attempts
        /\ chain.state \in Unsent /\ chain.attempt = 0
    BY OrderAssumption DEF Init, Attempts, Unsent
  <2>2. \A p \in Procs : proc[p].pc = "idle"
    BY DEF Init, Idle
  <2> QED
    BY <2>1, <2>2 DEF BudgetInv, OthersInactive, CurrentFollowsChain, CheckpointReserved
<1>2. BaseInv /\ ChainInv /\ BudgetInv /\ [Next]_vars => BudgetInv'
  BY NextSplits, CallKeepsBudget, OthersKeepBudget
<1> QED
  BY <1>1, <1>2, BaseStands, ChainStands, PTL DEF Spec

-----------------------------------------------------------------------------
\* Whatever may still reach or fill at the broker counts against the daily
\* cap exactly once, through every timeout, retry, recovery and crash, and an
\* ambiguous order keeps the reservation that its retry supersedes.
THEOREM BudgetAlwaysHeld == Spec => []BudgetHeld
<1>1. BaseInv /\ ChainInv /\ BudgetInv => BudgetHeld
  <2> SUFFICES ASSUME BaseInv, ChainInv, BudgetInv PROVE BudgetHeld
    OBVIOUS
  <2> DEFINE active == {a \in Attempts : reservation[a] \in ActiveReservation}
             r == reservation[chain.attempt]
  <2>1. /\ chain.attempt \in Attempts
        /\ r \in ReservationStates
        /\ \A a \in Attempts : a \in Nat
    <3>1. TypeOK
      BY DEF BaseInv
    <3>2. \A a \in Attempts : a \in Nat
      BY OrderAssumption DEF Attempts
    <3> QED
      BY <3>1, <3>2 DEF TypeOK
  <2>2. active \subseteq {chain.attempt}
    <3>1. ASSUME NEW a \in Attempts, a # chain.attempt
          PROVE  reservation[a] \in {"SUPERSEDED_BY_RETRY", "NONE"}
      BY <2>1, <3>1 DEF BudgetInv, OthersInactive
    <3> QED
      BY <3>1 DEF ActiveReservation
  <2>3. Cardinality(active) <= 1
    <3>1. IsFiniteSet({chain.attempt}) /\ Cardinality({chain.attempt}) = 1
      BY FS_Singleton
    <3> QED
      BY <2>2, <3>1, FS_Subset, FS_CardinalityType
  <2>4. ASSUME MayFill PROVE r \in ActiveReservation
    <3>1. r # "NONE"
      BY <2>4
      DEF MayFill, Live, BudgetInv, CurrentFollowsChain, ChainInv, UnsentIsClean, NoOrder, Working
    <3>2. r # "RELEASED"
      BY <2>4 DEF MayFill, Live, BudgetInv, CurrentFollowsChain, Working
    <3>3. r # "SUPERSEDED_BY_RETRY"
      BY DEF BudgetInv, CurrentFollowsChain
    <3> QED
      BY <2>1, <3>1, <3>2, <3>3 DEF ReservationStates
  <2>5. UnknownKeepsBudget
    <3>1. ASSUME chain.state = Unknown PROVE r \in {"RESERVED", "RECONCILIATION_REQUIRED"}
      <4>1. r \notin {"NONE", "RELEASED", "SUBMITTED", "SUPERSEDED_BY_RETRY"}
        BY <3>1 DEF BudgetInv, CurrentFollowsChain, Unanswered, Unsent, Unknown
      <4> QED
        BY <2>1, <4>1 DEF ReservationStates, ActiveReservation
    <3> QED
      BY <3>1 DEF UnknownKeepsBudget
  <2>6. ExposureReserved
    BY <2>1, <2>3, <2>4 DEF ExposureReserved
  <2> QED
    BY <2>5, <2>6 DEF BudgetHeld, BaseInv
<1> QED
  BY <1>1, BaseStands, ChainStands, BudgetStands, PTL

-----------------------------------------------------------------------------
(* The hold of cash or shares, where fills are reported cumulatively.      *)

LEMMA TimesMonotone ==
    ASSUME NEW a \in Nat, NEW b \in Nat, NEW c \in Nat, a <= b
    PROVE  a * c \in Nat /\ a * c <= b * c
<1>1. PICK d \in Nat : b = a + d
  <2>1. b - a \in Nat /\ b = a + (b - a)
    OBVIOUS
  <2> QED
    BY <2>1
<1>2. d * c \in Nat /\ a * c \in Nat
  OBVIOUS
<1>3. (a + d) * c = a * c + d * c
  OBVIOUS
<1> QED
  BY <1>1, <1>2, <1>3

\* The steps that write the order's hold.
LEMMA HoldMoves ==
    ASSUME NEW p \in Procs, Step(p)
    PROVE  \/ UNCHANGED <<hold, held>>
           \/ (Checkpoint(p) \/ PrepareRetry(p)) /\ ReserveOrder
           \/ ApplyFill(p) \/ ReleaseFilled(p) \/ CloseSweep(p)
BY DEF Step, Acquire, Refuse, Displaced, PersistFailure, InvalidResponse, Return,
      ClaimNamespace, SavePreview, RefreshPreview, BeginSubmit, Reserve, Checkpoint, BeginRetry,
      PrepareRetry, CallBroker, BrokerAnswers, CallFails, RecordUnknown, RecordResponse,
      ReadFills, RecordFills, BeginReconcile, LookUp, Bridge, SaveLookup, Synchronise,
      ConflictingEvidence, PersistVerdict, RequestCancel, CancelAtBroker, CancelAnswers,
      CancelTimesOut, RecordCancel, CancelUnknown, local

\* A fill takes no more than its size at the limit price from the hold.
LEMMA FillKeepsHold ==
    ASSUME Cumulative, BaseInv, HoldKept, NEW p \in Procs, Fenced(p), ApplyFill(p)
    PROVE  held => hold' >= (Quantity - applied') * LimitPrice
<1> SUFFICES ASSUME held PROVE hold' >= (Quantity - applied') * LimitPrice
  OBVIOUS
<1> DEFINE fill == Min(Unbooked(p))
           size == FillSize(p, fill)
<1>1. /\ fill \in 1 .. proc[p].report
      /\ fill = proc[p].report /\ fill > proc[p].total
      /\ size \in Nat
  <2>1. TypeOK
    BY DEF BaseInv
  <2> QED
    BY <2>1, UnbookedAreReported DEF ApplyFill
<1>2. applied' = applied + size /\ proc[p].total + size <= Quantity
  BY DEF ApplyFill
<1>3. PICK price \in 1 .. LimitPrice : hold' = hold - Min({hold, size * price})
  BY DEF ApplyFill
<1> HIDE DEF fill, size
<1>4. /\ proc[p].total = applied
      /\ proc[p].report <= broker.filled
      /\ applied \in Nat /\ broker.filled \in Nat
      /\ hold \in Nat /\ LimitPrice \in Nat /\ Quantity \in Nat
  <2>1. TypeOK
    BY DEF BaseInv
  <2>2. hold \in Nat /\ LimitPrice \in Nat /\ Quantity \in Nat /\ Quantity * LimitPrice \in Nat
    BY <2>1, OrderAssumption DEF TypeOK
  <2>3. applied \in Nat /\ broker.filled \in Nat
    BY <2>1, <2>2 DEF TypeOK
  <2>4. proc[p].total = applied
    BY DEF ApplyFill, At, Fenced, BaseInv, SweepIsCurrent
  <2> QED
    BY <2>2, <2>3, <2>4 DEF BaseInv, ReportsAreReal
<1>5. applied # broker.filled
  BY <1>1, <1>4
<1>6. hold >= (Quantity - applied) * LimitPrice
  BY <1>5 DEF HoldKept
<1>7. /\ size * price \in Nat /\ size * price <= size * LimitPrice
      /\ size * LimitPrice \in Nat
  <2>1. price \in Nat /\ price <= LimitPrice
    BY <1>3, <1>4
  <2>2. price * size \in Nat /\ price * size <= LimitPrice * size
    BY <1>1, <1>4, <2>1, TimesMonotone
  <2>3. price * size = size * price /\ LimitPrice * size = size * LimitPrice
    BY <1>1, <1>4, <2>1
  <2> QED
    BY <1>1, <1>4, <2>1, <2>2, <2>3
<1>8. hold - hold' <= size * price /\ hold' \in Nat
  BY <1>3, <1>4, <1>7, MinOfPair
<1>9. (Quantity - applied) * LimitPrice =
         (Quantity - applied') * LimitPrice + size * LimitPrice
  <2>1. Quantity - applied = (Quantity - applied') + size
    BY <1>1, <1>2, <1>4
  <2>2. Quantity - applied' \in Int /\ size \in Int /\ LimitPrice \in Int
    BY <1>1, <1>2, <1>4
  <2>3. \A m, n, k \in Int : (m + n) * k = m * k + n * k
    OBVIOUS
  <2> QED
    BY <2>1, <2>2, <2>3
<1>10. (Quantity - applied') * LimitPrice \in Int
  BY <1>1, <1>2, <1>4
<1> QED
  BY <1>4, <1>6, <1>7, <1>8, <1>9, <1>10

\* Each step of a call keeps the hold over what may still fill.
LEMMA CallKeepsHold ==
    ASSUME Cumulative, BaseInv, ChainInv, HoldInv, NEW p \in Procs, Step(p)
    PROVE  HoldInv'
<1>0. /\ TypeOK /\ p # Nobody
      /\ applied \in Nat /\ applied <= broker.filled /\ broker.filled \in Nat
      /\ broker.filled <= Quantity
      /\ Quantity \in Nat /\ LimitPrice \in Nat
      /\ hold \in Nat
  <2>1. TypeOK
    BY DEF BaseInv
  <2>2. Quantity \in Nat /\ LimitPrice \in Nat /\ p # Nobody
    BY OrderAssumption
  <2>3. applied \in Nat /\ broker.filled \in 0 .. Quantity
    BY <2>1 DEF TypeOK
  <2>4. hold \in Nat
    <3>1. Quantity * LimitPrice \in Nat
      BY <2>2
    <3> QED
      BY <2>1, <3>1 DEF TypeOK
  <2> QED
    BY <2>1, <2>2, <2>3, <2>4 DEF BaseInv, BookedAtBroker
<1>1. ChainMoves(p)
  BY ChainMovesSo
<1>2. Arrives(p) /\ Remembers(p)
  BY CallArrives
<1>3. \A q \in Procs \ {p} : proc'[q] = proc[q] /\ (holder' = q => holder = q)
  BY <1>0, CallMoves, CallFrames, OrderAssumption DEF Becomes
<1>4. /\ broker'.filled = broker.filled
      /\ broker.status \in Terminal => broker' = broker
  <2>1. CASE CancelAtBroker(p)
    <3>1. broker \in BrokerStates
      BY <1>0 DEF TypeOK, BrokerStates
    <3> QED
      BY <2>1, <3>1 DEF CancelAtBroker, Live, Working, Terminal, BrokerStates
  <2>2. CASE broker' = broker
    BY <2>2
  <2> QED
    BY <2>1, <2>2, CallFrames DEF CallBroker, world
<1>5. held => held'
  BY HoldMoves DEF ReserveOrder, ApplyFill, ReleaseFilled, CloseSweep
<1>6. SentIsHeld'
  <2>1. CASE Checkpoint(p)
    BY <2>1 DEF Checkpoint, ReserveOrder, SentIsHeld
  <2>2. CASE chain.state \notin Unsent
    BY <1>5, <2>2 DEF HoldInv, SentIsHeld
  <2>3. CASE chain.state \in Unsent /\ ~ Checkpoint(p)
    <3>1. chain'.state \in Unsent
      BY <1>1, <2>3 DEF ChainMoves, Unsent, RetryEvidence, Unknown
    <3> QED
      BY <3>1 DEF SentIsHeld
  <2> QED
    BY <2>1, <2>2, <2>3
<1>7. SweepIsComplete'
  <2>1. ASSUME holder' = p, proc'[p].seen.status \in Terminal, proc'[p].pc = "booking"
        PROVE  proc'[p].report = broker'.filled
    <3>1. CASE ReadFills(p)
      BY <1>2, <1>4, <2>1, <3>1 DEF Remembers, Fresh, ReadFills, At
    <3>2. CASE ApplyFill(p)
      <4>1. proc[p].pc = "booking" /\ holder = p
        BY <3>2 DEF ApplyFill, At, Fenced
      <4>2. proc'[p].seen = proc[p].seen /\ proc'[p].report = proc[p].report
        BY <1>2, <2>1, <4>1 DEF Remembers, Fresh
      <4> QED
        BY <1>4, <2>1, <4>1, <4>2 DEF HoldInv, SweepIsComplete
    <3> QED
      BY <1>2, <2>1, <3>1, <3>2 DEF Arrives
  <2>2. ASSUME holder' = p, proc'[p].seen.status \in Terminal, proc'[p].pc = "settling"
        PROVE  applied' = broker'.filled
    <3>1. RecordFills(p)
      BY <1>2, <2>2 DEF Arrives
    <3>2. /\ proc[p].pc = "booking" /\ holder = p /\ applied' = applied
          /\ Unbooked(p) = {}
      BY <2>2, <3>1 DEF RecordFills, At
    <3>3. proc'[p].seen = proc[p].seen
      BY <1>2, <2>2, <3>2 DEF Remembers, Fresh
    <3>4. proc[p].report = broker.filled /\ proc[p].total = applied
      BY <2>2, <3>2, <3>3 DEF HoldInv, SweepIsComplete, BaseInv, SweepIsCurrent
    <3>5. ~ (broker.filled > applied) \/ broker.filled \in booked
      BY <3>2, <3>4 DEF Unbooked
    <3>6. booked \subseteq 1 .. applied
      BY DEF BaseInv, FillsAreBooked
    <3>7. broker.filled <= applied
      BY <1>0, <3>5, <3>6
    <3> QED
      BY <1>0, <1>4, <3>2, <3>7
  <2>3. ASSUME holder' = p, proc'[p].seen.status \in Terminal, proc'[p].pc = "closing"
        PROVE  applied' = broker'.filled
    <3>1. ReleaseFilled(p)
      BY <1>2, <2>3 DEF Arrives
    <3>2. proc[p].pc = "settling" /\ holder = p /\ applied' = applied
      BY <2>3, <3>1 DEF ReleaseFilled, At
    <3>3. proc'[p].seen = proc[p].seen
      BY <1>2, <2>3, <3>2 DEF Remembers, Fresh
    <3> QED
      BY <1>4, <2>3, <3>2, <3>3 DEF HoldInv, SweepIsComplete
  <2>4. ASSUME NEW q \in Procs \ {p}, holder' = q PROVE applied' = applied
    <3>1. ~ Fenced(p)
      BY <1>3, <2>4 DEF Fenced
    <3> QED
      BY <3>1, CallFrames
  <2> QED
    BY <1>3, <1>4, <2>1, <2>2, <2>3, <2>4 DEF HoldInv, SweepIsComplete
<1>8. HoldKept'
  <2>1. CASE Fenced(p) /\ ApplyFill(p)
    <3>1. held' => hold' >= (Quantity - applied') * LimitPrice
      BY <2>1, FillKeepsHold DEF HoldInv, ApplyFill
    <3> QED
      BY <3>1 DEF HoldKept
  <2>2. ASSUME UNCHANGED <<hold, held, applied>> PROVE HoldKept'
    BY <1>4, <2>2 DEF HoldInv, HoldKept
  <2>3. ASSUME ReserveOrder, applied' = applied PROVE HoldKept'
    <3>1. CASE held
      <4>1. held' /\ hold' = hold
        BY <2>3, <3>1 DEF ReserveOrder
      <4> QED
        BY <1>4, <2>3, <3>1, <4>1 DEF HoldInv, HoldKept
    <3>2. CASE ~ held
      <4>1. hold' = Quantity * LimitPrice
        BY <2>3, <3>2 DEF ReserveOrder
      <4>2. Quantity - applied \in Nat /\ Quantity - applied <= Quantity
        BY <1>0
      <4>3. /\ (Quantity - applied) * LimitPrice \in Nat
            /\ (Quantity - applied) * LimitPrice <= Quantity * LimitPrice
        BY <1>0, <4>2, TimesMonotone
      <4>4. Quantity * LimitPrice \in Nat
        BY <1>0
      <4>5. hold' >= (Quantity - applied) * LimitPrice
        BY <4>1, <4>3, <4>4
      <4> QED
        BY <2>3, <4>5 DEF HoldKept
    <3> QED
      BY <3>1, <3>2
  <2>4. CASE (Checkpoint(p) \/ PrepareRetry(p)) /\ ReserveOrder
    BY <2>3, <2>4 DEF Checkpoint, PrepareRetry
  <2>5. CASE ReleaseFilled(p)
    <3>1. CASE proc[p].total = Quantity
      <4>1. /\ hold' = 0 /\ applied' = applied /\ applied = Quantity
        BY <2>5, <3>1 DEF ReleaseFilled, At, Fenced, BaseInv, SweepIsCurrent
      <4>2. (Quantity - applied') * LimitPrice = 0
        <5>1. Quantity - applied' = 0 /\ 0 * LimitPrice = 0
          BY <1>0, <4>1
        <5> QED
          BY <5>1
      <4>3. hold' >= (Quantity - applied') * LimitPrice
        BY <4>1, <4>2
      <4> QED
        BY <4>3 DEF HoldKept
    <3>2. CASE proc[p].total # Quantity
      BY <2>2, <2>5, <3>2 DEF ReleaseFilled
    <3> QED
      BY <3>1, <3>2
  <2>6. CASE CloseSweep(p)
    <3>1. CASE Releases(proc[p].seen.status)
      <4>1. /\ proc[p].seen.status \in Terminal /\ holder = p /\ proc[p].pc = "closing"
            /\ applied' = applied
        BY <2>6, <3>1 DEF CloseSweep, Releases, At, Fenced
      <4>2. broker.status \in Terminal /\ applied = broker.filled
        BY <4>1 DEF ChainInv, SeenIsReal, HoldInv, SweepIsComplete
      <4> QED
        BY <1>4, <4>1, <4>2 DEF HoldKept
    <3>2. CASE ~ Releases(proc[p].seen.status)
      BY <2>2, <2>6, <3>2 DEF CloseSweep
    <3> QED
      BY <3>1, <3>2
  <2>7. (Fenced(p) /\ ApplyFill(p)) \/ applied' = applied
    BY CallFrames
  <2>8. ApplyFill(p) => Fenced(p)
    BY DEF ApplyFill
  <2> QED
    BY <2>1, <2>2, <2>4, <2>5, <2>6, <2>7, <2>8, HoldMoves
<1> QED
  BY <1>6, <1>7, <1>8 DEF HoldInv

\* Nothing but a call touches the hold, and the broker's order does not move
\* once it has ended.
LEMMA OthersKeepHold ==
    ASSUME BaseInv, ChainInv, HoldInv,
           \/ \E p \in Procs : Incident(p)
           \/ BrokerStep
           \/ Elsewhere
    PROVE  HoldInv'
<1>1. /\ UNCHANGED <<chain, hold, held, applied>>
      /\ broker.status \in Terminal => broker' = broker
  BY IncidentMoves, BrokerMoves, ElsewhereMoves DEF local, world
<1>2. SentIsHeld' /\ HoldKept'
  BY <1>1 DEF HoldInv, SentIsHeld, HoldKept
<1>3. ASSUME NEW p \in Procs, holder' = p, proc'[p].seen.status \in Terminal,
             proc'[p].pc \in {"booking", "settling", "closing"}
      PROVE  holder = p /\ proc'[p] = proc[p] /\ broker' = broker
  <2>1. holder = p /\ proc'[p] = proc[p]
    <3>1. CASE \E q \in Procs : Incident(q)
      <4>1. PICK q \in Procs : Incident(q)
        BY <3>1
      <4>2. p # q
        BY <1>3, <4>1, IncidentMoves
      <4>3. p # Nobody
        BY OrderAssumption
      <4> QED
        BY <1>3, <4>1, <4>2, <4>3, IncidentMoves DEF Becomes
    <3>2. CASE proc' = proc /\ holder' = holder
      BY <1>3, <3>2
    <3> QED
      BY <3>1, <3>2, BrokerMoves, ElsewhereMoves
  <2>2. broker.status \in Terminal
    BY <1>3, <2>1 DEF ChainInv, SeenIsReal
  <2> QED
    BY <1>1, <2>1, <2>2
<1>4. SweepIsComplete'
  BY <1>1, <1>3 DEF HoldInv, SweepIsComplete
<1> QED
  BY <1>2, <1>4 DEF HoldInv

LEMMA HoldStands == ASSUME Cumulative PROVE Spec => []HoldInv
<1>1. Init => HoldInv
  BY OrderAssumption
  DEF Init, HoldInv, SentIsHeld, SweepIsComplete, HoldKept, Unsent
<1>2. BaseInv /\ ChainInv /\ HoldInv /\ [Next]_vars => HoldInv'
  BY NextSplits, CallKeepsHold, OthersKeepHold
<1> QED
  BY <1>1, <1>2, BaseStands, ChainStands, PTL DEF Spec

-----------------------------------------------------------------------------
\* Where the runtime reports one cumulative fill, the hold of cash or shares
\* covers every share that may still fill and every share filled and not yet
\* booked: no fill settles against money another order may use.
THEOREM HoldAlwaysCovers == ASSUME Cumulative PROVE Spec => []HoldCoversExposure
<1>1. BaseInv /\ ChainInv /\ HoldInv => HoldCoversExposure
  <2> SUFFICES ASSUME BaseInv, ChainInv, HoldInv PROVE HoldCoversExposure
    OBVIOUS
  <2> DEFINE atRisk == IF MayFill THEN Quantity ELSE broker.filled
  <2>1. /\ applied \in Nat /\ atRisk \in Nat /\ atRisk <= Quantity
        /\ Quantity \in Nat /\ LimitPrice \in Nat /\ hold \in Nat
    <3>1. TypeOK
      BY DEF BaseInv
    <3>2. Quantity \in Nat /\ LimitPrice \in Nat /\ Quantity * LimitPrice \in Nat
      BY OrderAssumption
    <3>3. applied \in Nat /\ broker.filled \in 0 .. Quantity
      BY <3>1 DEF TypeOK
    <3>4. hold \in Nat
      BY <3>1, <3>2 DEF TypeOK
    <3> QED
      BY <3>2, <3>3, <3>4
  <2> SUFFICES ASSUME applied < atRisk PROVE hold >= (atRisk - applied) * LimitPrice
    BY DEF HoldCoversExposure
  <2>2. chain.state \notin Unsent
    <3> SUFFICES ASSUME chain.state \in Unsent PROVE FALSE
      OBVIOUS
    <3>1. broker = NoOrder /\ inflight = {}
      BY DEF ChainInv, UnsentIsClean
    <3>2. ~ MayFill /\ broker.filled = 0
      BY <3>1 DEF MayFill, Live, NoOrder, Working
    <3> QED
      BY <2>1, <3>2
  <2>3. ~ (broker.status \in Terminal /\ applied = broker.filled)
    <3>1. broker.status \in Terminal => ~ MayFill
      BY DEF MayFill, Live, Terminal, Working
    <3> QED
      BY <2>1, <3>1
  <2>4. hold >= (Quantity - applied) * LimitPrice
    BY <2>2, <2>3 DEF HoldInv, SentIsHeld, HoldKept
  <2> HIDE DEF atRisk
  <2>5. /\ atRisk - applied \in Nat /\ Quantity - applied \in Nat
        /\ atRisk - applied <= Quantity - applied
    BY <2>1
  <2>6. /\ (atRisk - applied) * LimitPrice \in Nat
        /\ (atRisk - applied) * LimitPrice <= (Quantity - applied) * LimitPrice
    BY <2>1, <2>5, TimesMonotone
  <2>7. (Quantity - applied) * LimitPrice \in Nat
    BY <2>1, <2>5
  <2> QED
    BY <2>1, <2>4, <2>6, <2>7
<1> QED
  BY <1>1, BaseStands, ChainStands, HoldStands, PTL
=============================================================================
