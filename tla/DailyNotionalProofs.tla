------------------------ MODULE DailyNotionalProofs ------------------------
(***************************************************************************)
(* Theorems about the attempt reservations, for any number of orders,      *)
(* calls, attempts and dates, the cap on a date's sum included.            *)
(***************************************************************************)
EXTENDS DailyNotional, SumTheorems

Records ==
    [pc : {"idle", "entering", "begun", "reserved", "calling", "awaiting"},
     op : {"NONE", "SUBMIT", "RETRY", "RECONCILE"}, day : Days, id : Ids]

\* A retry that holds the lease still has an attempt left: the chain moves
\* under the lease only.
RetryMayAdvance ==
    \A c \in Calls :
        At(c, "RETRY", "begun") /\ Fenced(c) => chain[Owner(c)].attempt < MaxAttempt

\* The types of the state; a retry's next attempt stays in them.
TypedCalls == TypeOK /\ RetryMayAdvance

Charged(o) == \E i \in Ids : i[1] = o /\ row[i] \in Active
Touched(o) == \E i \in Ids : i[1] = o /\ row[i] # "NONE"

\* An order that has ever been reserved for counts, until the broker refused it.
TouchedIsCharged ==
    \A o \in Orders : Touched(o) => Charged(o) \/ broker[o] = "REJECTED"

\* Nothing is under way to the broker, or known there, that was not reserved
\* for; and a call past its reservation has its row.
SentIsTouched ==
    /\ \A o \in Orders : o \in wire \/ broker[o] # "NONE" => Touched(o)
    /\ \A c \in Calls : call[c].pc \in {"reserved", "calling", "awaiting"} => row[call[c].id] # "NONE"

\* Two active rows of a lineage are the same row.
LineageIsUnique ==
    \A i, j \in Ids :
        i[1] = j[1] /\ i[2] = j[2] /\ row[i] \in Active /\ row[j] \in Active => i = j

NotionalInv == TypedCalls /\ TouchedIsCharged /\ SentIsTouched /\ LineageIsUnique

-----------------------------------------------------------------------------
\* How a step may change the rows: not at all, by one insertion into a lineage
\* without active rows, by moving one row on, or by a retry's supersession.
Kept == UNCHANGED row

Inserted ==
    \E id \in Ids :
        /\ row[id] = "NONE"
        /\ ActiveOf(id[1], id[2]) = {}
        /\ Insert(id, row)

Moved ==
    \E id \in Ids, state \in {"RECONCILIATION_REQUIRED", "SUBMITTED", "RELEASED"} :
        /\ row[id] \in Active \cup {state}
        /\ state = "RELEASED" => broker[id[1]] = "REJECTED"
        /\ row' = [row EXCEPT ![id] = state]

Replaced ==
    \E id \in Ids, o \in Orders, c \in Calls :
        /\ row[id] = "NONE"
        /\ ActiveOf(id[1], id[2]) = {}
        /\ id = <<o, chain[o].attempt + 1, call[c].day>>
        /\ Insert(id, Superseded(o))

RowStep == Kept \/ Inserted \/ Moved \/ Replaced

-----------------------------------------------------------------------------
LEMMA InitTyped == Init => TypedCalls
<1> SUFFICES ASSUME Init PROVE TypedCalls
  OBVIOUS
<1> USE NotionalAssumption DEF NotionalAssumption
<1>1. 0 \in Days /\ 0 \in Attempts
  BY DEF Days, Attempts
<1>2. Ids # {}
  <2>1. PICK o \in Orders : TRUE
    OBVIOUS
  <2>2. <<o, 0, 0>> \in Ids
    BY <1>1 DEF Ids
  <2> QED
    BY <2>2
<1>3. Idle \in Records
  BY <1>1, <1>2 DEF Idle, Records
<1>4. TypeOK
  BY <1>1, <1>3 DEF Init, TypeOK, Records
<1> QED
  BY <1>4 DEF Init, TypedCalls, RetryMayAdvance, At, Idle

\* A retry reserves for an attempt the configuration allows.
LEMMA RetryIdTyped ==
    ASSUME TypedCalls, NEW c \in Calls, PrepareRetry(c)
    PROVE  /\ Owner(c) \in Orders
           /\ chain[Owner(c)].attempt + 1 \in Attempts
           /\ <<Owner(c), chain[Owner(c)].attempt + 1, call[c].day>> \in Ids
<1>1. Owner(c) \in Orders /\ call[c].day \in Days
  BY DEF TypedCalls, TypeOK, Owner, Ids
<1>2. chain[Owner(c)].attempt < MaxAttempt
  BY DEF PrepareRetry, TypedCalls, RetryMayAdvance
<1>3. chain[Owner(c)].attempt \in Attempts
  BY <1>1 DEF TypedCalls, TypeOK
<1>4. chain[Owner(c)].attempt + 1 \in Attempts
  BY <1>2, <1>3, NotionalAssumption DEF Attempts, NotionalAssumption
<1> QED
  BY <1>1, <1>4 DEF Ids

\* Every action changes the rows in one of the four ways.
LEMMA ActionsAreRowSteps ==
    TypedCalls /\ [Next]_vars => RowStep
<1> SUFFICES ASSUME TypedCalls, [Next]_vars PROVE RowStep
  OBVIOUS
<1>1. CASE UNCHANGED vars \/ Midnight \/ \E o \in Orders : Deliver(o)
  BY <1>1 DEF vars, Midnight, Deliver, RowStep, Kept
<1>2. ASSUME NEW c \in Calls,
             \/ \E o \in Orders : Start(c, o)
             \/ Begin(c) \/ Checkpoint(c) \/ CallBroker(c) \/ Abort(c)
      PROVE  RowStep
  BY <1>2 DEF Start, Begin, Checkpoint, CallBroker, Abort, RowStep, Kept
<1>3. ASSUME NEW c \in Calls, Reserve(c) PROVE RowStep
  <2>1. call[c].id \in Ids
    BY DEF TypedCalls, TypeOK
  <2>2. PICK found \in Ids : ReserveAttempt(call[c].id, row, found)
    BY <1>3 DEF Reserve
  <2> QED
    BY <2>1, <2>2 DEF ReserveAttempt, Insert, RowStep, Kept, Inserted
<1>4. ASSUME NEW c \in Calls, PrepareRetry(c) PROVE RowStep
  <2> DEFINE o == Owner(c)
             id == <<o, chain[o].attempt + 1, call[c].day>>
  <2>1. o \in Orders /\ id \in Ids
    BY <1>4, RetryIdTyped
  <2>2. ReserveAttempt(id, Superseded(o), id)
    BY <1>4 DEF PrepareRetry
  <2>3. Kept \/ (row[id] = "NONE" /\ ActiveOf(id[1], id[2]) = {} /\ Insert(id, Superseded(o)))
    BY <2>2 DEF ReserveAttempt, Kept
  <2>4. CASE row[id] = "NONE" /\ ActiveOf(id[1], id[2]) = {} /\ Insert(id, Superseded(o))
    <3> HIDE DEF id
    <3> QED
      BY <1>4, <2>1, <2>4 DEF RowStep, Replaced, id
  <2> QED
    BY <2>3, <2>4 DEF RowStep
<1>5. ASSUME NEW c \in Calls, Answer(c) PROVE RowStep
  <2>1. call[c].id \in Ids /\ call[c].id[1] = Owner(c) /\ Owner(c) \in Orders
    BY DEF TypedCalls, TypeOK, Owner, Ids
  <2>2. PICK state \in {"RECONCILIATION_REQUIRED", "SUBMITTED", "RELEASED"} :
           Settle(call[c].id, state) /\ (state = "RELEASED" => broker[Owner(c)] = "REJECTED")
    BY <1>5, <2>1 DEF Answer
  <2> QED
    BY <2>1, <2>2 DEF Settle, RowStep, Moved, Active
<1>6. ASSUME NEW c \in Calls, Reconcile(c) PROVE RowStep
  <2>1. PICK state \in {"RECONCILIATION_REQUIRED", "SUBMITTED", "RELEASED"} :
           Repair(Owner(c), state) /\ (state = "RELEASED" => broker[Owner(c)] = "REJECTED")
    BY <1>6 DEF Reconcile
  <2>2. ASSUME NEW i \in ActiveOf(Owner(c), chain[Owner(c)].attempt),
               row' = [row EXCEPT ![i] = IF @ = "SUBMITTED" THEN @ ELSE state]
        PROVE  RowStep
    <3>1. i \in Ids /\ row[i] \in Active /\ i[1] = Owner(c)
      BY DEF ActiveOf
    <3>2. CASE row[i] = "SUBMITTED"
      BY <2>2, <3>1, <3>2 DEF RowStep, Moved
    <3>3. CASE row[i] # "SUBMITTED"
      BY <2>1, <2>2, <3>1, <3>3 DEF RowStep, Moved
    <3> QED
      BY <3>2, <3>3
  <2> QED
    BY <2>1, <2>2 DEF Repair, RowStep, Kept
<1> QED
  BY <1>1, <1>2, <1>3, <1>4, <1>5, <1>6 DEF Next

-----------------------------------------------------------------------------
\* Rows stay in type whatever way they change.
LEMMA RowStepTyped ==
    TypeOK /\ RowStep => row' \in [Ids -> Active \cup {"NONE", "RELEASED", "SUPERSEDED_BY_RETRY"}]
<1> SUFFICES ASSUME TypeOK, RowStep
             PROVE  row' \in [Ids -> Active \cup {"NONE", "RELEASED", "SUPERSEDED_BY_RETRY"}]
  OBVIOUS
<1>1. CASE Kept
  BY <1>1 DEF Kept, TypeOK
<1>2. CASE Inserted
  BY <1>2 DEF Inserted, Insert, TypeOK, Active
<1>3. CASE Moved
  BY <1>3 DEF Moved, TypeOK, Active
<1>4. CASE Replaced
  <2>1. PICK id \in Ids, o \in Orders : row' = [Superseded(o) EXCEPT ![id] = "RESERVED"]
    BY <1>4 DEF Replaced, Insert
  <2>2. Superseded(o) \in [Ids -> Active \cup {"NONE", "RELEASED", "SUPERSEDED_BY_RETRY"}]
    BY DEF Superseded, TypeOK
  <2> QED
    BY <2>1, <2>2 DEF Active
<1> QED
  BY <1>1, <1>2, <1>3, <1>4 DEF RowStep

\* A call's record after one of its fields is set.
LEMMA LabelledRecord ==
    ASSUME NEW r \in Records,
           NEW label \in {"idle", "entering", "begun", "reserved", "calling", "awaiting"},
           NEW i \in Ids
    PROVE  /\ [r EXCEPT !.pc = label] \in Records
           /\ [r EXCEPT !.pc = label, !.id = i] \in Records
<1>1. [r EXCEPT !.pc = label] \in Records
  BY DEF Records
<1>2. [[r EXCEPT !.pc = label] EXCEPT !.id = i] \in Records
  BY <1>1 DEF Records
<1> QED
  BY <1>1, <1>2

LEMMA GotoTyped ==
    ASSUME call \in [Calls -> Records], NEW c \in Calls,
           NEW label \in {"idle", "entering", "begun", "reserved", "calling", "awaiting"},
           Goto(c, label)
    PROVE  call' \in [Calls -> Records]
<1>1. call[c] \in Records /\ call' = [call EXCEPT ![c].pc = label]
  BY DEF Goto
<1>2. [call[c] EXCEPT !.pc = label] \in Records
  BY <1>1 DEF Records
<1> QED
  BY <1>1, <1>2

\* Ending a call keeps the leases and the calls in type.
LEMMA EndTyped ==
    ASSUME TypeOK, NEW c \in Calls, End(c)
    PROVE  /\ holder' \in [Orders -> Calls \cup {NoCall}]
           /\ call' \in [Calls -> Records]
<1>1. Idle \in Records
  <2>1. 0 \in Days
    BY NotionalAssumption DEF Days, NotionalAssumption
  <2>2. call[c].id \in Ids
    BY DEF TypeOK
  <2>3. (CHOOSE i \in Ids : TRUE) \in Ids
    BY <2>2
  <2> QED
    BY <2>1, <2>3 DEF Idle, Records
<1> QED
  BY <1>1 DEF TypeOK, End, Records

LEMMA StepTyped == TypedCalls /\ [Next]_vars => TypeOK'
<1> SUFFICES ASSUME TypedCalls, [Next]_vars PROVE TypeOK'
  OBVIOUS
<1> USE NotionalAssumption
<1>0. TypeOK /\ call \in [Calls -> Records]
  BY DEF TypedCalls, TypeOK, Records
<1>1. row' \in [Ids -> Active \cup {"NONE", "RELEASED", "SUPERSEDED_BY_RETRY"}]
  BY <1>0, ActionsAreRowSteps, RowStepTyped
<1>2. CASE UNCHANGED vars
  BY <1>0, <1>2 DEF vars, order, remote, TypeOK
<1>3. CASE Midnight
  BY <1>0, <1>3 DEF Midnight, order, remote, TypeOK, Days, NotionalAssumption
<1>4. ASSUME NEW o \in Orders, Deliver(o) PROVE TypeOK'
  <2>1. broker' \in [Orders -> {"NONE", "ACCEPTED", "REJECTED"}]
    BY <1>0, <1>4 DEF Deliver, TypeOK
  <2>2. wire' \subseteq Orders /\ UNCHANGED <<today, row, order, holder, call>>
    BY <1>0, <1>4 DEF Deliver, TypeOK
  <2> QED
    BY <1>0, <2>1, <2>2 DEF order, TypeOK
<1>5. ASSUME NEW c \in Calls, NEW o \in Orders, Start(c, o) PROVE TypeOK'
  <2>1. <<o, 0, today>> \in Ids
    BY <1>0 DEF Ids, TypeOK, Attempts, NotionalAssumption
  <2>2. call' \in [Calls -> Records]
    BY <1>0, <1>5, <2>1 DEF Start, Records, TypeOK
  <2> QED
    BY <1>0, <1>5, <2>2 DEF Start, order, remote, TypeOK, Records
<1>6. ASSUME NEW c \in Calls, Begin(c) PROVE TypeOK'
  <2>1. call' \in [Calls -> Records]
    BY <1>0, <1>6, GotoTyped DEF Begin
  <2>2. holder' \in [Orders -> Calls \cup {NoCall}]
    BY <1>0, <1>6 DEF Begin, TypeOK
  <2> QED
    BY <1>0, <1>6, <2>1, <2>2 DEF Begin, order, remote, TypeOK, Records
<1>7. ASSUME NEW c \in Calls, Reserve(c) PROVE TypeOK'
  <2>1. PICK found \in Ids : call' = [call EXCEPT ![c].pc = "reserved", ![c].id = found]
    BY <1>7 DEF Reserve
  <2>2. call' \in [Calls -> Records]
    BY <1>0, <2>1, LabelledRecord
  <2> QED
    BY <1>0, <1>1, <1>7, <2>2 DEF Reserve, order, remote, TypeOK, Records
<1>8. ASSUME NEW c \in Calls, Checkpoint(c) PROVE TypeOK'
  <2>1. call' \in [Calls -> Records]
    BY <1>0, <1>8, GotoTyped DEF Checkpoint
  <2>2. chain' \in [Orders -> [state : {"PREVIEWED", "SUBMISSION_REQUESTED", "UNKNOWN",
                                       "ACCEPTED", "REJECTED"},
                              attempt : Attempts]]
    BY <1>0, <1>8 DEF Checkpoint, TypeOK
  <2> QED
    BY <1>0, <1>8, <2>1, <2>2 DEF Checkpoint, remote, TypeOK, Records
<1>9. ASSUME NEW c \in Calls, PrepareRetry(c) PROVE TypeOK'
  <2> DEFINE next == chain[Owner(c)].attempt + 1
             id == <<Owner(c), next, call[c].day>>
  <2>1. Owner(c) \in Orders /\ next \in Attempts /\ id \in Ids
    BY <1>9, RetryIdTyped
  <2>2. /\ chain' = [chain EXCEPT ![Owner(c)] = [state |-> "SUBMISSION_REQUESTED", attempt |-> next]]
        /\ call' = [call EXCEPT ![c].pc = "calling", ![c].id = id]
    BY <1>9 DEF PrepareRetry
  <2> HIDE DEF next, id
  <2>3. call' \in [Calls -> Records]
    BY <1>0, <2>1, <2>2, LabelledRecord
  <2>4. chain' \in [Orders -> [state : {"PREVIEWED", "SUBMISSION_REQUESTED", "UNKNOWN",
                                       "ACCEPTED", "REJECTED"},
                              attempt : Attempts]]
    BY <1>0, <2>1, <2>2 DEF TypeOK
  <2> QED
    BY <1>0, <1>1, <1>9, <2>3, <2>4 DEF PrepareRetry, remote, TypeOK, Records
<1>10. ASSUME NEW c \in Calls, CallBroker(c) PROVE TypeOK'
  <2>1. call' \in [Calls -> Records]
    BY <1>0, <1>10, GotoTyped DEF CallBroker
  <2>2. Owner(c) \in Orders
    BY <1>0 DEF TypeOK, Owner, Ids
  <2> QED
    BY <1>0, <1>10, <2>1, <2>2 DEF CallBroker, order, TypeOK, Records
<1>11. ASSUME NEW c \in Calls, Answer(c) PROVE TypeOK'
  <2>1. holder' \in [Orders -> Calls \cup {NoCall}] /\ call' \in [Calls -> Records]
    BY <1>0, <1>11, EndTyped DEF Answer
  <2>2. Owner(c) \in Orders
    BY <1>0 DEF TypeOK, Owner, Ids
  <2>3. PICK state \in {"UNKNOWN", "ACCEPTED", "REJECTED"} :
           chain' = [chain EXCEPT ![Owner(c)].state = state]
    BY <1>0, <1>11, <2>2 DEF Answer, TypeOK
  <2>4. chain' \in [Orders -> [state : {"PREVIEWED", "SUBMISSION_REQUESTED", "UNKNOWN",
                                       "ACCEPTED", "REJECTED"},
                              attempt : Attempts]]
    BY <1>0, <2>3 DEF TypeOK
  <2>5. evidence' \subseteq Orders /\ missing' \subseteq Orders
    BY <1>0, <1>11 DEF Answer, TypeOK
  <2> QED
    BY <1>0, <1>1, <1>11, <2>1, <2>4, <2>5 DEF Answer, remote, TypeOK, Records
<1>12. ASSUME NEW c \in Calls, Reconcile(c) PROVE TypeOK'
  <2>1. holder' \in [Orders -> Calls \cup {NoCall}] /\ call' \in [Calls -> Records]
    BY <1>0, <1>12, EndTyped DEF Reconcile
  <2>2. Owner(c) \in Orders
    BY <1>0 DEF TypeOK, Owner, Ids
  <2>3. PICK state \in {chain[Owner(c)].state, "UNKNOWN", "ACCEPTED", "REJECTED"} :
           chain' = [chain EXCEPT ![Owner(c)].state = state]
    BY <1>0, <1>12, <2>2 DEF Reconcile, TypeOK
  <2>4. chain' \in [Orders -> [state : {"PREVIEWED", "SUBMISSION_REQUESTED", "UNKNOWN",
                                       "ACCEPTED", "REJECTED"},
                              attempt : Attempts]]
    BY <1>0, <2>2, <2>3 DEF TypeOK
  <2>5. evidence' \subseteq Orders /\ missing' \subseteq Orders
    BY <1>0, <1>12, <2>2 DEF Reconcile, TypeOK
  <2> QED
    BY <1>0, <1>1, <1>12, <2>1, <2>4, <2>5 DEF Reconcile, remote, TypeOK, Records
<1>13. ASSUME NEW c \in Calls, Abort(c) PROVE TypeOK'
  BY <1>0, <1>13, EndTyped DEF Abort, order, remote, TypeOK, Records
<1> QED
  BY <1>2, <1>3, <1>4, <1>5, <1>6, <1>7, <1>8, <1>9, <1>10, <1>11, <1>12, <1>13 DEF Next

\* The chain moves under the lease only, so that the attempt a retry found
\* below the limit stays there while the retry holds the lease.
LEMMA RetryStaysPossible == TypedCalls /\ [Next]_vars => RetryMayAdvance'
<1> SUFFICES ASSUME TypedCalls, [Next]_vars, NEW d \in Calls,
                    At(d, "RETRY", "begun")', Fenced(d)'
             PROVE  (chain[Owner(d)].attempt < MaxAttempt)'
  BY DEF RetryMayAdvance
<1>0. /\ call \in [Calls -> Records] /\ chain \in [Orders -> [state : {"PREVIEWED",
             "SUBMISSION_REQUESTED", "UNKNOWN", "ACCEPTED", "REJECTED"}, attempt : Attempts]]
      /\ holder \in [Orders -> Calls \cup {NoCall}]
      /\ NoCall \notin Calls
      /\ \A c \in Calls : Owner(c) \in Orders
  BY NotionalAssumption DEF TypedCalls, TypeOK, Records, Owner, Ids, NotionalAssumption
<1> DEFINE before == At(d, "RETRY", "begun") /\ Fenced(d)
<1>1. before => chain[Owner(d)].attempt < MaxAttempt
  BY DEF TypedCalls, RetryMayAdvance
<1> USE DEF At, Fenced, Owner
<1>2. CASE UNCHANGED vars \/ Midnight \/ \E o \in Orders : Deliver(o)
  BY <1>1, <1>2 DEF vars, order, Midnight, Deliver
<1>3. ASSUME NEW c \in Calls, NEW o \in Orders, Start(c, o)
      PROVE  (chain[Owner(d)].attempt < MaxAttempt)'
  BY <1>0, <1>1, <1>3 DEF Start, order
<1>4. ASSUME NEW c \in Calls, Begin(c) PROVE (chain[Owner(d)].attempt < MaxAttempt)'
  BY <1>0, <1>1, <1>4 DEF Begin, Goto, order, Records
<1>5. ASSUME NEW c \in Calls, Reserve(c) \/ CallBroker(c) PROVE (chain[Owner(d)].attempt < MaxAttempt)'
  BY <1>0, <1>1, <1>5 DEF Reserve, CallBroker, Goto, order, Records
<1>6. ASSUME NEW c \in Calls, Checkpoint(c) \/ PrepareRetry(c)
      PROVE  (chain[Owner(d)].attempt < MaxAttempt)'
  <2>1. c # d
    BY <1>0, <1>6 DEF Checkpoint, PrepareRetry, Goto, Records
  <2>2. call'[d] = call[d] /\ holder' = holder
    BY <1>0, <1>6, <2>1 DEF Checkpoint, PrepareRetry, Goto
  <2>3. Owner(c) # Owner(d)
    BY <1>0, <1>6, <2>1, <2>2 DEF Checkpoint, PrepareRetry
  <2>4. chain'[Owner(d)] = chain[Owner(d)]
    BY <1>0, <1>6, <2>3 DEF Checkpoint, PrepareRetry
  <2> QED
    BY <1>1, <2>2, <2>4
<1>7. ASSUME NEW c \in Calls, Answer(c) \/ Reconcile(c)
      PROVE  (chain[Owner(d)].attempt < MaxAttempt)'
  <2>1. /\ Fenced(c) /\ End(c)
        /\ \A o \in Orders : o # Owner(c) => chain'[o] = chain[o]
    BY <1>0, <1>7 DEF Answer, Reconcile
  <2>2. c # d
    BY <1>0, <2>1 DEF End, Idle
  <2>3. call'[d] = call[d] /\ Owner(c) # Owner(d) /\ holder'[Owner(d)] = holder[Owner(d)]
    BY <1>0, <2>1, <2>2 DEF End
  <2> QED
    BY <1>0, <1>1, <2>1, <2>3
<1>8. ASSUME NEW c \in Calls, Abort(c) PROVE (chain[Owner(d)].attempt < MaxAttempt)'
  <2>1. c # d
    BY <1>0, <1>8 DEF Abort, End, Idle
  <2>2. call'[d] = call[d] /\ holder'[Owner(d)] \in {holder[Owner(d)], NoCall}
    BY <1>0, <1>8, <2>1 DEF Abort, End
  <2> QED
    BY <1>0, <1>1, <1>8, <2>2 DEF Abort, order
<1> QED
  BY <1>2, <1>3, <1>4, <1>5, <1>6, <1>7, <1>8 DEF Next

LEMMA StepKeepsCalls == TypedCalls /\ [Next]_vars => TypedCalls'
BY StepTyped, RetryStaysPossible DEF TypedCalls

\* The types of rows, calls, orders and leases.
THEOREM NotionalTypeCorrect == Spec => []TypeOK
<1>1. TypedCalls => TypeOK
  BY DEF TypedCalls
<1> QED
  BY <1>1, InitTyped, StepKeepsCalls, PTL DEF Spec

-----------------------------------------------------------------------------
\* A lineage is inserted into only while it has no active row.
LEMMA StepKeepsLineage == TypeOK /\ LineageIsUnique /\ RowStep => LineageIsUnique'
<1> SUFFICES ASSUME TypeOK, LineageIsUnique, RowStep,
                    NEW i \in Ids, NEW j \in Ids, i[1] = j[1], i[2] = j[2],
                    row'[i] \in Active, row'[j] \in Active
             PROVE  i = j
  BY DEF LineageIsUnique
<1>0. row \in [Ids -> Active \cup {"NONE", "RELEASED", "SUPERSEDED_BY_RETRY"}]
  BY DEF TypeOK
<1>1. CASE Kept
  BY <1>1 DEF Kept, LineageIsUnique
<1>2. CASE Inserted
  <2>1. PICK id \in Ids : /\ ActiveOf(id[1], id[2]) = {}
                          /\ row' = [row EXCEPT ![id] = "RESERVED"]
    BY <1>2 DEF Inserted, Insert
  <2>2. \A k \in Ids : k[1] = id[1] /\ k[2] = id[2] => row[k] \notin Active
    BY <2>1 DEF ActiveOf
  <2> QED
    BY <1>0, <2>1, <2>2 DEF LineageIsUnique
<1>3. CASE Moved
  <2>1. PICK id \in Ids, state \in {"RECONCILIATION_REQUIRED", "SUBMITTED", "RELEASED"} :
             row[id] \in Active \cup {state} /\ row' = [row EXCEPT ![id] = state]
    BY <1>3 DEF Moved
  <2>2. \A k \in Ids : row'[k] \in Active => row[k] \in Active
    BY <1>0, <2>1 DEF Active
  <2> QED
    BY <2>2 DEF LineageIsUnique
<1>4. CASE Replaced
  <2>1. PICK id \in Ids, o \in Orders :
             /\ ActiveOf(id[1], id[2]) = {}
             /\ row' = [Superseded(o) EXCEPT ![id] = "RESERVED"]
    BY <1>4 DEF Replaced, Insert
  <2>2. \A k \in Ids : k[1] = id[1] /\ k[2] = id[2] => row[k] \notin Active
    BY <2>1 DEF ActiveOf
  <2>3. \A k \in Ids : row'[k] \in Active => k = id \/ row[k] \in Active
    BY <1>0, <2>1 DEF Superseded, Active
  <2> QED
    BY <2>2, <2>3 DEF LineageIsUnique
<1> QED
  BY <1>1, <1>2, <1>3, <1>4 DEF RowStep

\* A row leaves the active states only with the broker's refusal, or for a row
\* of the same order that takes its place.
LEMMA StepKeepsCharge ==
    ASSUME TypeOK, RowStep, NEW i \in Ids, row[i] \in Active, row'[i] \notin Active
    PROVE  \/ row'[i] = "RELEASED" /\ broker[i[1]] = "REJECTED"
           \/ /\ row'[i] = "SUPERSEDED_BY_RETRY"
              /\ \E c \in Calls : /\ <<i[1], i[2] + 1, call[c].day>> \in Ids
                                 /\ row'[<<i[1], i[2] + 1, call[c].day>>] = "RESERVED"
<1>0. row \in [Ids -> Active \cup {"NONE", "RELEASED", "SUPERSEDED_BY_RETRY"}]
  BY DEF TypeOK
<1>1. CASE Kept
  BY <1>1 DEF Kept
<1>2. CASE Inserted
  BY <1>0, <1>2 DEF Inserted, Insert, Active
<1>3. CASE Moved
  BY <1>0, <1>3 DEF Moved, Active
<1>4. CASE Replaced
  <2>1. PICK id \in Ids, o \in Orders, c \in Calls :
             /\ id = <<o, chain[o].attempt + 1, call[c].day>>
             /\ row' = [Superseded(o) EXCEPT ![id] = "RESERVED"]
    BY <1>4 DEF Replaced, Insert
  <2>2. i # id /\ row'[i] = Superseded(o)[i] /\ row'[id] = "RESERVED"
    BY <1>0, <2>1 DEF Superseded, Active
  <2>3. i \in ActiveOf(o, chain[o].attempt) /\ row'[i] = "SUPERSEDED_BY_RETRY"
    BY <2>2 DEF Superseded
  <2>4. i[1] = o /\ i[2] = chain[o].attempt
    BY <2>3 DEF ActiveOf
  <2> QED
    BY <2>1, <2>2, <2>3, <2>4
<1> QED
  BY <1>1, <1>2, <1>3, <1>4 DEF RowStep

\* A row that was ever written stays written.
LEMMA WrittenStays ==
    TypeOK /\ RowStep => \A i \in Ids : row[i] # "NONE" => row'[i] # "NONE"
<1> SUFFICES ASSUME TypeOK, RowStep, NEW i \in Ids, row[i] # "NONE" PROVE row'[i] # "NONE"
  OBVIOUS
<1>0. row \in [Ids -> Active \cup {"NONE", "RELEASED", "SUPERSEDED_BY_RETRY"}]
  BY DEF TypeOK
<1>1. CASE Kept \/ Inserted \/ Moved
  BY <1>0, <1>1 DEF Kept, Inserted, Insert, Moved
<1>2. CASE Replaced
  BY <1>0, <1>2 DEF Replaced, Insert, Superseded
<1> QED
  BY <1>1, <1>2 DEF RowStep

\* The broker's refusal of an order is final.
LEMMA RefusalIsFinal ==
    TypeOK /\ [Next]_vars => \A o \in Orders : broker[o] = "REJECTED" => broker'[o] = "REJECTED"
<1> SUFFICES ASSUME TypeOK, [Next]_vars, NEW o \in Orders, broker[o] = "REJECTED"
             PROVE  broker'[o] = "REJECTED"
  OBVIOUS
<1>1. ASSUME NEW q \in Orders, Deliver(q) PROVE broker'[o] = "REJECTED"
  BY <1>1 DEF Deliver, TypeOK
<1>2. ASSUME UNCHANGED broker PROVE broker'[o] = "REJECTED"
  BY <1>2
<1> QED
  BY <1>1, <1>2 DEF Next, vars, remote, Start, Begin, Reserve, Checkpoint, PrepareRetry,
                    CallBroker, Answer, Reconcile, Abort, Midnight

LEMMA StepKeepsTouched ==
    TypeOK /\ TouchedIsCharged /\ RowStep /\ [Next]_vars => TouchedIsCharged'
<1> SUFFICES ASSUME TypeOK, TouchedIsCharged, RowStep, [Next]_vars, NEW o \in Orders,
                    Touched(o)', broker'[o] # "REJECTED"
             PROVE  Charged(o)'
  BY DEF TouchedIsCharged
<1>1. broker[o] # "REJECTED"
  BY RefusalIsFinal
<1>2. PICK i \in Ids : i[1] = o /\ row'[i] # "NONE"
  BY DEF Touched
<1>3. CASE row[i] # "NONE"
  <2>1. PICK j \in Ids : j[1] = o /\ row[j] \in Active
    BY <1>1, <1>2, <1>3 DEF TouchedIsCharged, Touched, Charged
  <2>2. CASE row'[j] \in Active
    BY <2>1, <2>2 DEF Charged
  <2>3. CASE row'[j] \notin Active
    <3>1. PICK c \in Calls : /\ <<j[1], j[2] + 1, call[c].day>> \in Ids
                             /\ row'[<<j[1], j[2] + 1, call[c].day>>] = "RESERVED"
      BY <1>1, <2>1, <2>3, StepKeepsCharge
    <3> QED
      BY <2>1, <3>1 DEF Charged, Active
  <2> QED
    BY <2>2, <2>3
<1>4. CASE row[i] = "NONE"
  <2>1. row \in [Ids -> Active \cup {"NONE", "RELEASED", "SUPERSEDED_BY_RETRY"}]
    BY DEF TypeOK
  <2>2. Kept => FALSE
    BY <1>2, <1>4 DEF Kept
  <2>3. Moved => row'[i] \in Active \/ broker[i[1]] = "REJECTED"
    BY <1>2, <1>4, <2>1 DEF Moved, Active
  <2>4. Inserted => row'[i] \in Active
    BY <1>2, <1>4, <2>1 DEF Inserted, Insert, Active
  <2>5. Replaced => row'[i] \in Active
    BY <1>2, <1>4, <2>1 DEF Replaced, Insert, Superseded, ActiveOf, Active
  <2> QED
    BY <1>1, <1>2, <2>2, <2>3, <2>4, <2>5 DEF RowStep, Charged
<1> QED
  BY <1>3, <1>4

\* A request leaves only for an order that was reserved for, also when the call
\* that sends it lost the lease meanwhile.
LEMMA StepKeepsSent ==
    TypedCalls /\ SentIsTouched /\ RowStep /\ [Next]_vars => SentIsTouched'
<1> SUFFICES ASSUME TypedCalls, SentIsTouched, RowStep, [Next]_vars PROVE SentIsTouched'
  OBVIOUS
<1> DEFINE Past(c) == call[c].pc \in {"reserved", "calling", "awaiting"} => row[call[c].id] # "NONE"
           Sent(o) == o \in wire \/ broker[o] # "NONE" => Touched(o)
<1>0. /\ call \in [Calls -> Records] /\ broker \in [Orders -> {"NONE", "ACCEPTED", "REJECTED"}]
      /\ row \in [Ids -> Active \cup {"NONE", "RELEASED", "SUPERSEDED_BY_RETRY"}]
      /\ wire \subseteq Orders /\ \A c \in Calls : call[c].id \in Ids /\ Owner(c) \in Orders
  BY DEF TypedCalls, TypeOK, Records, Owner, Ids
<1>1. \A i \in Ids : row[i] # "NONE" => row'[i] # "NONE"
  BY WrittenStays DEF TypedCalls
<1>2. \A o \in Orders : Touched(o) => Touched(o)'
  BY <1>1 DEF Touched
<1>3. (\A c \in Calls : Past(c)) /\ (\A o \in Orders : Sent(o))
  BY DEF SentIsTouched
<1>4. \A o \in Orders : Sent(o)'
  <2>1. ASSUME NEW c \in Calls, CallBroker(c), NEW o \in Orders PROVE Sent(o)'
    <3>1. Past(c) /\ call[c].pc = "calling"
      BY <1>3, <2>1 DEF CallBroker
    <3>2. Touched(Owner(c))
      BY <1>0, <3>1 DEF Touched, Owner
    <3> QED
      BY <1>2, <1>3, <2>1, <3>2 DEF CallBroker
  <2>2. ASSUME NEW q \in Orders, Deliver(q), NEW o \in Orders PROVE Sent(o)'
    BY <1>0, <1>2, <1>3, <2>2 DEF Deliver
  <2>3. ASSUME UNCHANGED remote, NEW o \in Orders PROVE Sent(o)'
    BY <1>2, <1>3, <2>3 DEF remote
  <2> QED
    BY <2>1, <2>2, <2>3 DEF Next, vars, Start, Begin, Reserve, Checkpoint, PrepareRetry,
                    Answer, Reconcile, Abort, Midnight
<1>5. ASSUME NEW d \in Calls PROVE Past(d)'
  <2>0. Past(d) /\ call[d].id \in Ids /\ call[d] \in Records
    BY <1>0, <1>3
  <2>1. ASSUME call'[d] = call[d] PROVE Past(d)'
    BY <1>1, <2>0, <2>1
  <2>2. CASE UNCHANGED vars \/ Midnight \/ \E o \in Orders : Deliver(o)
    BY <2>1, <2>2 DEF vars, Midnight, Deliver
  <2>3. ASSUME NEW c \in Calls,
               (\E o \in Orders : Start(c, o)) \/ Begin(c) \/ Abort(c) \/ Answer(c) \/ Reconcile(c)
        PROVE  Past(d)'
    <3>1. CASE c # d
      BY <1>0, <2>1, <2>3, <3>1 DEF Start, Begin, Abort, Answer, Reconcile, End, Goto
    <3>2. CASE c = d
      <4>1. call'[d].pc \in {"entering", "begun", "idle"}
        BY <1>0, <2>3, <3>2 DEF Start, Begin, Abort, Answer, Reconcile, End, Goto, Idle, Records
      <4> QED
        BY <4>1
    <3> QED
      BY <3>1, <3>2
  <2>4. ASSUME NEW c \in Calls, Checkpoint(c) \/ CallBroker(c) PROVE Past(d)'
    <3>1. CASE c # d
      BY <1>0, <2>1, <2>4, <3>1 DEF Checkpoint, CallBroker, Goto
    <3>2. CASE c = d
      <4>1. call'[d].id = call[d].id /\ call[d].pc \in {"reserved", "calling"}
        BY <1>0, <2>4, <3>2 DEF Checkpoint, CallBroker, Goto, At, Records
      <4> QED
        BY <1>1, <2>0, <4>1
    <3> QED
      BY <3>1, <3>2
  <2>5. ASSUME NEW c \in Calls, Reserve(c) PROVE Past(d)'
    <3>1. CASE c # d
      BY <1>0, <2>1, <2>5, <3>1 DEF Reserve
    <3>2. CASE c = d
      <4>1. PICK found \in Ids : /\ ReserveAttempt(call[d].id, row, found)
                                 /\ call' = [call EXCEPT ![d].pc = "reserved", ![d].id = found]
        BY <2>5, <3>2 DEF Reserve
      <4>2. row'[found] # "NONE"
        BY <1>0, <4>1 DEF ReserveAttempt, Insert
      <4>3. call'[d].id = found
        BY <1>0, <4>1 DEF Records
      <4> QED
        BY <4>2, <4>3
    <3> QED
      BY <3>1, <3>2
  <2>6. ASSUME NEW c \in Calls, PrepareRetry(c) PROVE Past(d)'
    <3>1. CASE c # d
      BY <1>0, <2>1, <2>6, <3>1 DEF PrepareRetry
    <3>2. CASE c = d
      <4> DEFINE id == <<Owner(d), chain[Owner(d)].attempt + 1, call[d].day>>
      <4>1. /\ ReserveAttempt(id, Superseded(Owner(d)), id)
            /\ call' = [call EXCEPT ![d].pc = "calling", ![d].id = id]
        BY <2>6, <3>2 DEF PrepareRetry
      <4>2. id \in Ids
        BY <2>6, <3>2, RetryIdTyped
      <4> HIDE DEF id
      <4>3. Superseded(Owner(d)) \in [Ids -> {"SUPERSEDED_BY_RETRY"} \cup Active \cup {"NONE", "RELEASED"}]
        BY <1>0 DEF Superseded
      <4>4. row'[id] # "NONE"
        BY <1>0, <4>1, <4>2, <4>3 DEF ReserveAttempt, Insert, ActiveOf, Active
      <4>5. call'[d].id = id
        BY <1>0, <4>1 DEF Records
      <4> QED
        BY <4>4, <4>5
    <3> QED
      BY <3>1, <3>2
  <2> QED
    BY <2>2, <2>3, <2>4, <2>5, <2>6 DEF Next
<1> QED
  BY <1>4, <1>5 DEF SentIsTouched

-----------------------------------------------------------------------------
LEMMA NotionalAlways == Spec => []NotionalInv
<1>1. Init => NotionalInv
  <2> SUFFICES ASSUME Init PROVE NotionalInv
    OBVIOUS
  <2>1. \A i \in Ids : row[i] = "NONE"
    BY DEF Init
  <2>2. (\A o \in Orders : broker[o] = "NONE") /\ wire = {} /\ \A c \in Calls : call[c].pc = "idle"
    BY DEF Init, Idle
  <2> QED
    BY <2>1, <2>2, InitTyped
       DEF NotionalInv, TouchedIsCharged, SentIsTouched, LineageIsUnique, Touched, Active
<1>2. NotionalInv /\ [Next]_vars => NotionalInv'
  <2> SUFFICES ASSUME NotionalInv, [Next]_vars PROVE NotionalInv'
    OBVIOUS
  <2>1. TypedCalls /\ TypeOK /\ TouchedIsCharged /\ SentIsTouched /\ LineageIsUnique
    BY DEF NotionalInv, TypedCalls
  <2>2. RowStep
    BY <2>1, ActionsAreRowSteps
  <2> QED
    BY <2>1, <2>2, StepKeepsCalls, StepKeepsLineage, StepKeepsTouched, StepKeepsSent DEF NotionalInv
<1> QED
  BY <1>1, <1>2, PTL DEF Spec

\* Whatever the broker holds or may yet receive counts against a date, and each
\* attempt counts once, for any number of orders, calls, attempts and dates
\* (_reserve_daily_notional_locked, load_active_attempt_reservation).
THEOREM ExposureIsCountedOnce == Spec => []ExposureCountedOnce
<1>1. NotionalInv => ExposureCountedOnce
  <2> SUFFICES ASSUME NotionalInv PROVE ExposureCountedOnce
    OBVIOUS
  <2>1. ExposureCounted
    BY DEF NotionalInv, TouchedIsCharged, SentIsTouched, Charged, ExposureCounted
  <2>2. OneActivePerLineage
    <3> SUFFICES ASSUME NEW o \in Orders, NEW a \in Attempts PROVE Cardinality(ActiveOf(o, a)) <= 1
      BY DEF OneActivePerLineage
    <3>1. \A i, j \in ActiveOf(o, a) : i = j
      BY DEF NotionalInv, LineageIsUnique, ActiveOf
    <3>2. CASE ActiveOf(o, a) = {}
      BY <3>2, FS_EmptySet
    <3>3. CASE ActiveOf(o, a) # {}
      <4>1. PICK i : ActiveOf(o, a) = {i}
        BY <3>1, <3>3
      <4> QED
        BY <4>1, FS_Singleton
    <3> QED
      BY <3>2, <3>3
  <2> QED
    BY <2>1, <2>2 DEF ExposureCountedOnce, NotionalInv, TypedCalls
<1> QED
  BY <1>1, NotionalAlways, PTL

\* Budget is freed by the broker's refusal, or by a retry that charges the date
\* of its own call in the same step (_settle_daily_reservation,
\* _reconcile_attempt_reservation, _prepare_external_retry_attempt).
THEOREM FreeingIsSound == Spec => FreedOnlyByOutcome
<1>1. NotionalInv /\ [Next]_vars =>
        [\A i \in Ids :
           row[i] \in Active /\ row'[i] \notin Active =>
             \/ row'[i] = "RELEASED" /\ broker[i[1]] = "REJECTED"
             \/ /\ row'[i] = "SUPERSEDED_BY_RETRY"
                /\ \E c \in Calls : row'[<<i[1], i[2] + 1, call[c].day>>] = "RESERVED"]_vars
  BY ActionsAreRowSteps, StepKeepsCharge DEF NotionalInv, TypedCalls
<1> QED
  BY <1>1, NotionalAlways, PTL DEF Spec, FreedOnlyByOutcome

-----------------------------------------------------------------------------
(* The cap.                                                                *)

\* The rows that count against a date.
Against(day) == {i \in Ids : i[3] = day /\ row[i] \in Active}

LEMMA IdsAreFinite == IsFiniteSet(Ids)
<1> DEFINE Pairs == (Orders \X Attempts) \X Days
           pair == [i \in Ids |-> <<<<i[1], i[2]>>, i[3]>>]
<1>1. IsFiniteSet(Attempts) /\ IsFiniteSet(Days)
  BY NotionalAssumption, FS_Interval DEF NotionalAssumption, Attempts, Days
<1>2. IsFiniteSet(Pairs)
  BY <1>1, NotionalAssumption, FS_Product DEF NotionalAssumption
<1>3. pair \in Injection(Ids, Pairs)
  BY DEF Ids, Injection, IsInjective
<1> QED
  BY <1>2, <1>3, FS_Injection

\* A date's rows are finitely many, and each of them costs a natural number.
LEMMA ChargesAreNatural ==
    ASSUME NEW S \in SUBSET Ids
    PROVE  IsFiniteSet(S) /\ (\A i \in S : Cost[i] \in Nat) /\ SumFunctionOnSet(Cost, S) \in Nat
<1>1. \A i \in Ids : Cost[i] \in Nat
  BY NotionalAssumption DEF NotionalAssumption, Cost, Ids
<1>2. IsFiniteSet(S)
  BY IdsAreFinite, FS_Subset
<1> QED
  BY <1>1, <1>2, SumType

\* A row inserted under the check of the cap leaves its date within it.
LEMMA InsertIsWithinCap ==
    ASSUME NEW id \in Ids, NEW rows \in [Ids -> Active \cup {"NONE", "RELEASED", "SUPERSEDED_BY_RETRY"}],
           rows[id] \notin Active, Insert(id, rows)
    PROVE  SumFunctionOnSet(Cost, Against(id[3])') <= Cap
<1> DEFINE before == {i \in Ids : i[3] = id[3] /\ Counts(rows[i])}
<1>1. \A i \in Ids : Counts(rows[i]) <=> rows[i] \in Active
  BY DEF Counts, Active
<1>2. before \in SUBSET Ids /\ id \notin before
  BY <1>1
<1>3. Against(id[3])' = before \cup {id}
  BY <1>1 DEF Against, Insert, Active
<1>4. IsFiniteSet(before) /\ \A i \in before \cup {id} : Cost[i] \in Int
  BY <1>2, ChargesAreNatural
<1>5. SumFunctionOnSet(Cost, before \cup {id}) = Cost[id] + SumFunctionOnSet(Cost, before)
  BY <1>2, <1>4, SumPutsIn
<1>6. SumFunctionOnSet(Cost, before) + Notional[id[1]] <= Cap
  BY DEF Insert, Reserved
<1>7. Cost[id] = Notional[id[1]] /\ Cost[id] \in Int /\ SumFunctionOnSet(Cost, before) \in Int
  BY <1>2, <1>4, ChargesAreNatural DEF Cost
<1> QED
  BY <1>3, <1>5, <1>6, <1>7

\* A date that gains no row stays within the cap.
LEMMA FewerIsWithinCap ==
    ASSUME NEW day \in Days, CapRespected, Against(day)' \subseteq Against(day)
    PROVE  SumFunctionOnSet(Cost, Against(day)') <= Cap
<1>1. Against(day) \in SUBSET Ids /\ Against(day)' \in SUBSET Ids
  BY DEF Against
<1>2. SumFunctionOnSet(Cost, Against(day)) <= Cap
  BY DEF CapRespected, Against
<1>3. SumFunctionOnSet(Cost, Against(day)') <= SumFunctionOnSet(Cost, Against(day))
  BY <1>1, ChargesAreNatural, SumGrows
<1>4. /\ SumFunctionOnSet(Cost, Against(day)) \in Nat
      /\ SumFunctionOnSet(Cost, Against(day)') \in Nat
  BY <1>1, ChargesAreNatural
<1> QED
  BY <1>2, <1>3, <1>4, NotionalAssumption DEF NotionalAssumption

LEMMA StepKeepsCap == TypeOK /\ CapRespected /\ RowStep => CapRespected'
<1> SUFFICES ASSUME TypeOK, CapRespected, RowStep, NEW day \in Days
             PROVE  SumFunctionOnSet(Cost, Against(day)') <= Cap
  BY DEF CapRespected, Against, Cost
<1>0. row \in [Ids -> Active \cup {"NONE", "RELEASED", "SUPERSEDED_BY_RETRY"}]
  BY DEF TypeOK
<1>1. CASE Kept
  <2>1. Against(day)' = Against(day)
    BY <1>1 DEF Kept, Against
  <2> QED
    BY <2>1, FewerIsWithinCap
<1>2. CASE Inserted
  <2>1. PICK id \in Ids : row[id] = "NONE" /\ Insert(id, row)
    BY <1>2 DEF Inserted
  <2>2. CASE id[3] = day
    BY <1>0, <2>1, <2>2, InsertIsWithinCap DEF Active
  <2>3. CASE id[3] # day
    <3>1. Against(day)' \subseteq Against(day)
      BY <1>0, <2>1, <2>3 DEF Against, Insert
    <3> QED
      BY <3>1, FewerIsWithinCap
  <2> QED
    BY <2>2, <2>3
<1>3. CASE Moved
  <2>1. Against(day)' \subseteq Against(day)
    BY <1>0, <1>3 DEF Moved, Against, Active
  <2> QED
    BY <2>1, FewerIsWithinCap
<1>4. CASE Replaced
  <2>1. PICK id \in Ids, o \in Orders : row[id] = "NONE" /\ Insert(id, Superseded(o))
    BY <1>4 DEF Replaced
  <2>2. /\ Superseded(o) \in [Ids -> Active \cup {"NONE", "RELEASED", "SUPERSEDED_BY_RETRY"}]
        /\ \A i \in Ids : Superseded(o)[i] \in Active => row[i] \in Active
    BY <1>0 DEF Superseded, Active
  <2>3. CASE id[3] = day
    BY <2>1, <2>2, <2>3, InsertIsWithinCap DEF Active
  <2>4. CASE id[3] # day
    <3>1. Against(day)' \subseteq Against(day)
      BY <2>1, <2>2, <2>4 DEF Against, Insert
    <3> QED
      BY <3>1, FewerIsWithinCap
  <2> QED
    BY <2>3, <2>4
<1> QED
  BY <1>1, <1>2, <1>3, <1>4 DEF RowStep

\* No mix of concurrent submissions, retries and repairs takes a date over the
\* cap, for any number of orders, calls, attempts and dates
\* (_reserve_daily_notional_locked).
THEOREM CapAlwaysRespected == Spec => []CapRespected
<1>1. Init => CapRespected
  <2> SUFFICES ASSUME Init, NEW day \in Days PROVE SumFunctionOnSet(Cost, Against(day)) <= Cap
    BY DEF CapRespected, Against
  <2>1. Against(day) = {}
    BY DEF Init, Against, Active
  <2> QED
    BY <2>1, SumEmpty, NotionalAssumption DEF NotionalAssumption
<1>2. NotionalInv /\ CapRespected /\ [Next]_vars => CapRespected'
  BY ActionsAreRowSteps, StepKeepsCap DEF NotionalInv, TypedCalls
<1> QED
  BY <1>1, <1>2, NotionalAlways, PTL DEF Spec
=============================================================================
