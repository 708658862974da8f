----------------------------- MODULE ShadowProofs -----------------------------
(* Theorems about ShadowCycle, for any runners and operators, any calendar,   *)
(* catch-up window, lease and caps, and about AlertLog, for any reports,      *)
(* conditions, window and number of attempts, and about ShadowHealth, for any *)
(* runs, dimensions, thresholds and policies.                                 *)
EXTENDS ShadowCycle, ShadowHealth, AlertLog, SumTheorems

-----------------------------------------------------------------------------
(* The greatest and the least of a bounded set of integers, and the days.     *)

LEMMA LeastNumber ==
  ASSUME NEW S, S # {}, S \subseteq Nat PROVE \E m \in S : \A n \in S : m <= n
<1>1. PICK m \in S : \A n \in S : ~ (<<n, m>> \in OpToRel(<, Nat))
  BY NatLessThanWellFounded, WFMin
<1>2. \A n \in S : ~ (n < m)
  BY <1>1 DEF OpToRel
<1> QED
  BY <1>2

LEMMA MaxIs ==
  ASSUME NEW S, S # {}, S \subseteq Int, NEW b \in Int, \A x \in S : x <= b
  PROVE  Max(S) \in S /\ \A y \in S : y <= Max(S)
<1> DEFINE D == {b - x : x \in S}
<1>0. \A x \in S : x \in Int /\ b - x \in Nat
  OBVIOUS
<1>1. D # {} /\ D \subseteq Nat
  BY <1>0
<1>2. PICK d \in D : \A e \in D : d <= e
  BY <1>1, LeastNumber
<1>3. PICK x \in S : d = b - x
  OBVIOUS
<1>4. \A y \in S : d <= b - y
  BY <1>2
<1>5. \A y \in S : x >= y
  BY <1>0, <1>3, <1>4
<1> QED
  BY <1>5 DEF Max

LEMMA MinIs ==
  ASSUME NEW S, S # {}, S \subseteq Int, NEW b \in Int, \A x \in S : b <= x
  PROVE  Min(S) \in S /\ \A y \in S : Min(S) <= y
<1> DEFINE D == {x - b : x \in S}
<1>0. \A x \in S : x \in Int /\ x - b \in Nat
  OBVIOUS
<1>1. D # {} /\ D \subseteq Nat
  BY <1>0
<1>2. PICK d \in D : \A e \in D : d <= e
  BY <1>1, LeastNumber
<1>3. PICK x \in S : d = x - b
  OBVIOUS
<1>4. \A y \in S : d <= y - b
  BY <1>2
<1>5. \A y \in S : x <= y
  BY <1>0, <1>3, <1>4
<1> QED
  BY <1>5 DEF Min

LEMMA DayTurns ==
  ASSUME NEW n \in Nat
  PROVE  /\ n % 3 \in {0, 1, 2} /\ n \div 3 \in Nat
         /\ (n + 1) % 3 # 0 => (n + 1) \div 3 = n \div 3
         /\ (n + 1) % 3 = 0 => (n + 1) \div 3 = n \div 3 + 1
         /\ (n + 1) % 3 = 1 => n % 3 = 0
         /\ (n + 1) \div 3 >= n \div 3
BY SMT

-----------------------------------------------------------------------------
(* Types.                                                                     *)

Stage == {"idle", "acquire", "reserve", "insert", "start", "work", "calling", "charge",
          "trip", "tripWrite", "settle", "update", "health", "healthWrite", "release"}

\* An invocation that has its slot to itself, one with a running row, and one
\* whose call has not been charged yet.
Running == {"work", "calling", "charge", "trip", "tripWrite", "settle", "update"}
Active == {"reserve", "insert", "start"} \cup Running
Owing == {"calling", "charge", "trip", "tripWrite"}

RowRecord == [slot : Slot, status : {"RUNNING", "BUDGET_REJECTED", "COMPLETED", "FAILED"}]
LeaseRecord == [owner : Runner \cup {"none"}, until : Int, held : BOOLEAN]
Reservation == [status : {"NONE", "RESERVED", "SETTLED"}, used : Nat]
Process == [pc : Stage, slot : Int, row : Nat, calls : Nat, final : {"COMPLETED", "FAILED"},
            known : BOOLEAN]

Typed ==
  /\ now \in Nat /\ 4 <= now /\ now <= 3 * Days + 1
  /\ rows \in Seq(RowRecord)
  /\ lease \in [Slot -> LeaseRecord]
  /\ resv \in [Slot -> Reservation]
  /\ proc \in [Runner -> Process]
  /\ \A r \in Runner : proc[r].pc # "idle" => proc[r].slot \in Slot
  /\ raced \subseteq Slot

LEMMA SlotIsFinite ==
  /\ Slot \subseteq Int /\ IsFiniteSet(Slot)
  /\ {MaxCatchUp, Lookback, LeaseTtl, MaxCalls, MaxRows, Cap, SlotCost, CallCost} \subseteq Nat
  /\ Days \in Nat
<1>1. MaxCatchUp \in Nat /\ Days \in Nat
  BY CycleAssumption
<1>2. 1 - MaxCatchUp \in Int /\ Days \in Int
  BY <1>1
<1>3. IsFiniteSet((1 - MaxCatchUp)..Days)
  BY <1>2, FS_Interval
<1> QED
  BY <1>2, <1>3, CycleAssumption DEF Slot

(* A slot whose newest row is COMPLETED was completed.                        *)
LEMMA CompletedMeans ==
  ASSUME Typed, NEW s \in Slot
  PROVE  /\ Completed(s) => EverCompleted(s)
         /\ \A i \in RowsOf(s) : (\A j \in RowsOf(s) : j <= i) /\ rows[i].status = "COMPLETED"
              => Completed(s)
<1>1. RowsOf(s) \subseteq Int /\ Len(rows) \in Int /\ \A i \in RowsOf(s) : i <= Len(rows)
  BY DEF RowsOf, Typed
<1>2. RowsOf(s) # {} => /\ Max(RowsOf(s)) \in RowsOf(s)
                        /\ \A i \in RowsOf(s) : i <= Max(RowsOf(s))
  BY <1>1, MaxIs
<1>3. Completed(s) => EverCompleted(s)
  BY <1>2 DEF Completed, EverCompleted
<1>4. ASSUME NEW i \in RowsOf(s), \A j \in RowsOf(s) : j <= i, rows[i].status = "COMPLETED"
      PROVE  Completed(s)
  <2>1. Max(RowsOf(s)) = i
    BY <1>1, <1>2, <1>4
  <2> QED
    BY <1>4, <2>1 DEF Completed
<1> QED
  BY <1>3, <1>4

-----------------------------------------------------------------------------
(* What a step of an invocation does to its place, the rows, the leases and   *)
(* the reservations.                                                          *)

Others(r) == \A q \in Runner : q # r => proc'[q] = proc[q]
SameSlot(r) == proc'[r].slot = proc[r].slot /\ proc'[r].known = proc[r].known
SameRow(r) == proc'[r].row = proc[r].row

\* The oldest open slot of the window is taken.
Picked(r) ==
  /\ proc[r].pc = "idle" /\ proc'[r].pc = "acquire" /\ proc'[r].row = 0 /\ proc'[r].calls = 0
  /\ InWindow /\ proc'[r].slot \in Window \cap TradingDay
  /\ ~Completed(proc'[r].slot)
  /\ \A t \in Window \cap TradingDay : t < proc'[r].slot => \E c \in Seen : t <= c
  /\ proc'[r].known = EverCompleted(proc'[r].slot)
  /\ UNCHANGED <<rows, lease, resv, raced>>

Left(r) ==
  /\ proc'[r] = Idle
  /\ \/ UNCHANGED lease
     \/ /\ Inside(r) /\ lease[proc[r].slot].owner = r
        /\ lease' = [lease EXCEPT ![proc[r].slot] = Released]
  /\ UNCHANGED <<rows, resv, raced>>

Acquired(r) ==
  /\ Acquire(r) /\ proc'[r].pc = "reserve" /\ SameSlot(r) /\ SameRow(r)

\* From one stage to a later one.
Walked(r) ==
  LET s == proc[r].slot IN
  /\ Inside(r) /\ proc'[r].pc \notin {"idle", "acquire"} /\ SameSlot(r) /\ SameRow(r)
  /\ proc'[r].pc \in Active => proc[r].pc \in Active
  /\ proc'[r].pc \in Running => proc[r].pc \in Running
  /\ proc'[r].pc \in Owing => proc[r].pc \in Owing \/ CallCost <= SlotCost - resv[s].used
  /\ proc'[r].pc = "insert" => SlotCost <= Cap - Used - Live
  /\ proc'[r].pc = "start" => resv[s].status # "NONE"
  /\ UNCHANGED <<rows, lease, resv, raced>>

Added(r, status) ==
  /\ rows' = Append(rows, [slot |-> proc[r].slot, status |-> status])
  /\ proc'[r].row = Len(rows) + 1 /\ SameSlot(r)
  /\ UNCHANGED <<lease, resv, raced>>

Rejected(r) == proc[r].pc = "reserve" /\ proc'[r].pc = "release" /\ Added(r, "BUDGET_REJECTED")
Started(r) == proc[r].pc = "start" /\ proc'[r].pc = "work" /\ Added(r, "RUNNING")

Inserted(r) ==
  /\ proc[r].pc = "insert" /\ proc'[r].pc = "start" /\ SameSlot(r) /\ SameRow(r)
  /\ resv[proc[r].slot].status = "NONE"
  /\ resv' = [resv EXCEPT ![proc[r].slot].status = "RESERVED"]
  /\ UNCHANGED <<rows, lease, raced>>

Charged(r) ==
  /\ proc[r].pc \in {"calling", "charge"} /\ proc'[r].pc = "work" /\ SameSlot(r) /\ SameRow(r)
  /\ \E cost \in 0..CallCost : resv' = [resv EXCEPT ![proc[r].slot].used = @ + cost]
  /\ UNCHANGED <<rows, lease, raced>>

Settled(r) ==
  /\ proc[r].pc = "settle" /\ proc'[r].pc = "update" /\ SameSlot(r) /\ SameRow(r)
  /\ resv' = [resv EXCEPT ![proc[r].slot].status = "SETTLED"]
  /\ UNCHANGED <<rows, lease, raced>>

Updated(r) ==
  /\ proc[r].pc = "update" /\ proc'[r].pc = "health" /\ SameSlot(r) /\ SameRow(r)
  /\ \E final \in {"COMPLETED", "FAILED"} : rows' = [rows EXCEPT ![proc[r].row].status = final]
  /\ UNCHANGED <<lease, resv, raced>>

Move(r) ==
  /\ Others(r) /\ UNCHANGED <<now, outlived>>
  /\ \/ Picked(r) \/ Left(r) \/ Acquired(r) \/ Walked(r) \/ Rejected(r) \/ Started(r)
     \/ Inserted(r) \/ Charged(r) \/ Settled(r) \/ Updated(r)

Resting == UNCHANGED <<now, outlived, rows, lease, resv, raced, proc>>

(* The slot that is due is the oldest that is open.                           *)
LEMMA DueIsOldest ==
  ASSUME Typed, Resolution.status = "DUE"
  PROVE  LET s == Resolution.slot IN
           /\ InWindow /\ s \in Window \cap TradingDay
           /\ \A t \in Window \cap TradingDay : t < s => \E c \in Seen : t <= c
<1> DEFINE open == Open(Window)
<1>1. InWindow /\ open # {} /\ Resolution.slot = Min(open)
  BY DEF Resolution
<1>2. open \subseteq Window \cap TradingDay /\ Window \subseteq Slot
  BY DEF Open, Window
<1>3. open \subseteq Int /\ 1 - MaxCatchUp \in Int /\ \A s \in open : 1 - MaxCatchUp <= s
  <2>1. MaxCatchUp \in Nat /\ Days \in Nat
    BY SlotIsFinite
  <2>2. \A s \in Slot : s \in Int /\ 1 - MaxCatchUp <= s
    BY <2>1 DEF Slot
  <2> QED
    BY <1>2, <2>1, <2>2
<1>4. Min(open) \in open /\ \A s \in open : Min(open) <= s
  BY <1>1, <1>3, MinIs
<1>5. Seen \subseteq Int
  BY SlotIsFinite DEF Seen, Window, Margin
<1>6. ASSUME NEW t \in Window \cap TradingDay, t < Min(open) PROVE \E c \in Seen : t <= c
  <2>1. t \in Int /\ Min(open) \in Int
    BY <1>2, <1>3, <1>4, SlotIsFinite
  <2>2. t \notin open
    BY <1>4, <1>6, <2>1
  <2> QED
    BY <1>5, <2>1, <2>2 DEF Open
<1> HIDE DEF open
<1> QED
  BY <1>1, <1>2, <1>4, <1>6

LEMMA InvocationMoves ==
  ASSUME Typed, NEW r \in Runner, Invocation(r) PROVE Move(r) \/ Resting
<1>1. proc \in [Runner -> Process] /\ resv \in [Slot -> Reservation]
  BY DEF Typed
<1>2. CASE Invoke(r)
  <2>1. CASE UNCHANGED proc
    BY <1>2, <2>1 DEF Invoke, Resting
  <2>2. CASE ~(UNCHANGED proc)
    <3>1. /\ Resolution.status = "DUE" /\ ~Completed(Resolution.slot)
          /\ proc' = [proc EXCEPT ![r] = [Idle EXCEPT !.pc = "acquire", !.slot = Resolution.slot,
                                                     !.known = EverCompleted(Resolution.slot)]]
          /\ proc[r].pc = "idle"
          /\ UNCHANGED <<rows, lease, resv, raced, now, outlived>>
      BY <1>2, <2>2 DEF Invoke
    <3>2. /\ proc'[r].pc = "acquire" /\ proc'[r].slot = Resolution.slot /\ proc'[r].row = 0
          /\ proc'[r].calls = 0 /\ proc'[r].known = EverCompleted(Resolution.slot)
          /\ Others(r)
      BY <1>1, <3>1 DEF Idle, Others
    <3>3. Picked(r)
      BY <3>1, <3>2, DueIsOldest DEF Picked
    <3> QED
      BY <3>1, <3>2, <3>3 DEF Move
  <2> QED
    BY <2>1, <2>2
<1>3. CASE LeaseHeld(r) \/ Release(r) \/ Crash(r)
  BY <1>1, <1>3 DEF LeaseHeld, Release, Crash, Left, Others, Move, Inside
<1>4. CASE Acquire(r)
  BY <1>1, <1>4 DEF Acquire, Goto, Acquired, SameSlot, SameRow, Process, Others, Move
<1>5. CASE Reserve(r)
  BY <1>1, <1>5 DEF Reserve, Goto, Walked, SameSlot, SameRow, Process, Others, Move, Inside,
     Active, Running, Owing
<1>6. CASE Reject(r)
  BY <1>1, <1>6 DEF Reject, Rejected, Added, SameSlot, Process, Others, Move, Typed
<1>7. CASE InsertReservation(r)
  BY <1>1, <1>7 DEF InsertReservation, Goto, Inserted, Walked, SameSlot, SameRow, Process, Others,
     Move, Inside, Active, Running, Owing
<1>8. CASE StartRun(r)
  BY <1>1, <1>8 DEF StartRun, Started, Added, SameSlot, Process, Others, Move, Typed
<1>9. CASE BeforeAttempt(r)
  BY <1>1, <1>9 DEF BeforeAttempt, Walked, SameSlot, SameRow, Process, Others, Move,
     Inside, Active, Running, Owing
<1>10. CASE AfterAttempt(r)
  BY <1>1, <1>10 DEF AfterAttempt, Charge, Goto, Charged, SameSlot, SameRow, Process, Others, Move
<1>11. CASE StructuralFailure(r) \/ Trip(r) \/ TripWrite(r)
  BY <1>1, <1>11 DEF StructuralFailure, Trip, TripWrite, Goto, Walked, SameSlot, SameRow, Process,
     Others, Move, Inside, Active, Running, Owing
<1>12. CASE EndCycle(r) \/ Raise(r)
  BY <1>1, <1>12 DEF EndCycle, Raise, Goto, Walked, SameSlot, SameRow, Process, Others, Move,
     Inside, Active, Running, Owing
<1>13. CASE Settle(r)
  BY <1>1, <1>13 DEF Settle, Settled, Goto, SameSlot, SameRow, Process, Others, Move
<1>14. CASE UpdateRun(r)
  BY <1>1, <1>14 DEF UpdateRun, Updated, Goto, SameSlot, SameRow, Process, Others, Move
<1> QED
  BY <1>2, <1>3, <1>4, <1>5, <1>6, <1>7, <1>8, <1>9, <1>10, <1>11, <1>12, <1>13, <1>14
  DEF Invocation

LEMMA GotoTyped ==
  ASSUME proc \in [Runner -> Process], NEW r \in Runner, NEW pc \in Stage, Goto(r, pc)
  PROVE  proc' \in [Runner -> Process]
BY DEF Goto, Process

LEMMA RowTyped ==
  ASSUME NEW w \in Process, NEW pc \in Stage, NEW n \in Nat
  PROVE  [w EXCEPT !.pc = pc, !.row = n] \in Process /\ [w EXCEPT !.pc = pc, !.calls = n] \in Process
BY DEF Process

LEMMA GoneTyped ==
  ASSUME proc \in [Runner -> Process], NEW r \in Runner, NEW w \in Process,
         proc' = [proc EXCEPT ![r] = w]
  PROVE  proc' \in [Runner -> Process]
OBVIOUS

(* Every step keeps the types.                                                *)
LEMMA TypesKept == ASSUME Typed, [Next]_vars PROVE Typed'
<1>1. ASSUME NEW r \in Runner, Invocation(r) PROVE proc' \in [Runner -> Process]
  <2>1. CASE Invoke(r)
    <3>1. ASSUME proc' # proc
          PROVE  /\ Resolution.slot \in Int
                 /\ proc' = [proc EXCEPT ![r] = [Idle EXCEPT !.pc = "acquire",
                       !.slot = Resolution.slot, !.known = EverCompleted(Resolution.slot)]]
      <4>1. Resolution.status = "DUE"
        BY <2>1, <3>1 DEF Invoke
      <4>2. Resolution.slot \in Slot
        BY <4>1, DueIsOldest DEF Window
      <4> QED
        BY <2>1, <3>1, <4>2, SlotIsFinite DEF Invoke
    <3>2. EverCompleted(Resolution.slot) \in BOOLEAN
      BY DEF EverCompleted
    <3> DEFINE w == [Idle EXCEPT !.pc = "acquire", !.slot = Resolution.slot,
                                 !.known = EverCompleted(Resolution.slot)]
    <3>3. proc' # proc => w \in Process
      BY <3>1, <3>2 DEF Process, Stage, Idle
    <3> HIDE DEF w
    <3> QED
      BY <3>1, <3>3, GoneTyped DEF Typed, w
  <2>2. CASE Acquire(r) \/ Reserve(r) \/ InsertReservation(r)
    <3>1. \E pc \in Stage : Goto(r, pc)
      BY <2>2 DEF Acquire, Reserve, InsertReservation, Stage
    <3> QED
      BY <3>1, GotoTyped DEF Typed
  <2>3. CASE LeaseHeld(r) \/ Release(r) \/ Crash(r)
    <3>1. Idle \in Process
      BY DEF Idle, Process, Stage
    <3> QED
      BY <2>3, <3>1, GoneTyped DEF LeaseHeld, Release, Crash, Typed
  <2>4. CASE Reject(r) \/ StartRun(r)
    <3>1. /\ Len(rows') \in Nat
          /\ \E pc \in Stage : proc' = [proc EXCEPT ![r].pc = pc, ![r].row = Len(rows')]
      <4>1. \E row \in [slot : {proc[r].slot}, status : {"BUDGET_REJECTED", "RUNNING"}] :
               rows' = Append(rows, row)
        BY <2>4 DEF Reject, StartRun
      <4>2. Len(rows') \in Nat
        BY <4>1 DEF Typed
      <4> QED
        BY <2>4, <4>2 DEF Reject, StartRun, Stage
    <3>2. PICK pc \in Stage : proc' = [proc EXCEPT ![r].pc = pc, ![r].row = Len(rows')]
      BY <3>1
    <3>3. [proc[r] EXCEPT !.pc = pc, !.row = Len(rows')] \in Process
      BY <3>1, RowTyped DEF Typed
    <3> QED
      BY <3>2, <3>3, GoneTyped DEF Typed
  <2>5. CASE BeforeAttempt(r)
    <3>1. \E pc \in Stage : proc' = [proc EXCEPT ![r].pc = pc, ![r].calls = @ + 1]
      BY <2>5 DEF BeforeAttempt, Stage
    <3>2. PICK pc \in Stage : proc' = [proc EXCEPT ![r].pc = pc, ![r].calls = @ + 1]
      BY <3>1
    <3>3. proc[r] \in Process /\ proc[r].calls + 1 \in Nat
      BY DEF Typed, Process
    <3>4. [proc[r] EXCEPT !.pc = pc, !.calls = @ + 1] \in Process
      BY <3>3, RowTyped
    <3> QED
      BY <3>2, <3>4, GoneTyped DEF Typed
  <2>6. CASE EndCycle(r)
    <3>1. \E pc \in Stage : \E final \in {"COMPLETED", "FAILED"} :
            proc' = [proc EXCEPT ![r].pc = pc, ![r].final = final]
      BY <2>6 DEF EndCycle, Stage
    <3>2. PICK pc \in Stage, final \in {"COMPLETED", "FAILED"} :
            proc' = [proc EXCEPT ![r].pc = pc, ![r].final = final]
      BY <3>1
    <3>3. [proc[r] EXCEPT !.pc = pc, !.final = final] \in Process
      BY DEF Typed, Process
    <3> QED
      BY <3>2, <3>3, GoneTyped DEF Typed
  <2>7. CASE AfterAttempt(r) \/ StructuralFailure(r) \/ Trip(r) \/ TripWrite(r)
    <3>1. \E pc \in Stage : Goto(r, pc)
      BY <2>7 DEF AfterAttempt, StructuralFailure, Trip, TripWrite, Stage
    <3> QED
      BY <3>1, GotoTyped DEF Typed
  <2>8. CASE Raise(r) \/ Settle(r) \/ UpdateRun(r)
    <3>1. \E pc \in Stage : Goto(r, pc)
      BY <2>8 DEF Raise, Settle, UpdateRun, Stage
    <3> QED
      BY <3>1, GotoTyped DEF Typed
  <2> QED
    BY <1>1, <2>1, <2>2, <2>3, <2>4, <2>5, <2>6, <2>7, <2>8 DEF Invocation
<1>2. ASSUME NEW r \in Runner, Invocation(r) PROVE Typed'
  <2>1. CASE Resting
    BY <2>1 DEF Resting, Typed
  <2>2. CASE Move(r)
    <3>1. now' = now /\ Others(r)
      BY <2>2 DEF Move
    <3>0. proc[r].pc # "idle" => proc[r].slot \in Slot
      BY DEF Typed
    <3>2. proc'[r].pc # "idle" => proc'[r].slot \in Slot
      BY <2>2 DEF Move, Picked, Left, Acquired, Walked, Rejected, Started, Added, Inserted, Charged,
         Settled, Updated, SameSlot, Typed, Window, Idle, Inside, Acquire
    <3>3. rows' \in Seq(RowRecord)
      <4>1. CASE Added(r, "BUDGET_REJECTED") /\ proc[r].pc = "reserve"
        BY <4>1 DEF Added, Typed, RowRecord
      <4>2. CASE Added(r, "RUNNING") /\ proc[r].pc = "start"
        BY <4>2 DEF Added, Typed, RowRecord
      <4>3. CASE Updated(r)
        <5>1. PICK final \in {"COMPLETED", "FAILED"} : rows' = [rows EXCEPT ![proc[r].row].status = final]
          BY <4>3 DEF Updated
        <5>2. [rows EXCEPT ![proc[r].row].status = final] \in [1..Len(rows) -> RowRecord]
          <6>1. rows \in [1..Len(rows) -> RowRecord]
            BY DEF Typed
          <6>2. \A x \in RowRecord : [x EXCEPT !.status = final] \in RowRecord
            BY DEF RowRecord
          <6> QED
            BY <6>1, <6>2
        <5>3. [rows EXCEPT ![proc[r].row].status = final] \in Seq(RowRecord)
          BY <5>2, Len(rows) \in Nat DEF Typed
        <5> QED
          BY <5>1, <5>3
      <4> QED
        BY <2>2, <4>1, <4>2, <4>3 DEF Move, Picked, Left, Acquired, Acquire, Walked, Rejected, Started,
           Inserted, Charged, Settled, Typed
    <3>4. lease' \in [Slot -> LeaseRecord]
      <4>1. now + LeaseTtl \in Int
        BY SlotIsFinite DEF Typed
      <4>2. CASE Acquired(r)
        <5>1. [owner |-> r, until |-> now + LeaseTtl, held |-> TRUE] \in LeaseRecord
          BY <4>1 DEF LeaseRecord
        <5> QED
          BY <4>2, <5>1, <3>0 DEF Acquired, Acquire, Typed
      <4>3. CASE Left(r)
        <5>1. Released \in LeaseRecord
          BY DEF LeaseRecord, Released
        <5> QED
          BY <4>3, <5>1, <3>0 DEF Left, Typed, Inside
      <4> QED
        BY <2>2, <4>2, <4>3 DEF Move, Picked, Walked, Rejected, Started, Added,
           Inserted, Charged, Settled, Updated, Typed
    <3>5. resv' \in [Slot -> Reservation]
      <4>1. \A cost \in 0..CallCost : cost \in Nat
        BY SlotIsFinite
      <4>2. CASE Charged(r)
        <5>1. PICK cost \in Nat : resv' = [resv EXCEPT ![proc[r].slot].used = @ + cost]
          BY <4>1, <4>2 DEF Charged
        <5>2. /\ resv \in [Slot -> Reservation] /\ proc[r].slot \in Slot
              /\ resv[proc[r].slot].used + cost \in Nat
          BY <4>2, <3>0 DEF Charged, Typed, Reservation
        <5> QED
          BY <5>1, <5>2 DEF Reservation
      <4>3. CASE Inserted(r) \/ Settled(r)
        <5>1. resv \in [Slot -> Reservation] /\ proc[r].slot \in Slot
          BY <4>3, <3>0 DEF Inserted, Settled, Typed
        <5> QED
          BY <4>3, <5>1 DEF Inserted, Settled, Reservation
      <4> QED
        BY <2>2, <4>2, <4>3 DEF Move, Picked, Left, Acquired, Acquire, Walked, Rejected, Started,
           Added, Updated, Typed
    <3>6. raced' \subseteq Slot
      BY <2>2 DEF Move, Picked, Left, Acquired, Acquire, Walked, Rejected, Started, Added,
         Inserted, Charged, Settled, Updated, Typed
    <3> QED
      BY <1>1, <1>2, <3>1, <3>2, <3>3, <3>4, <3>5, <3>6 DEF Typed, Others
  <2> QED
    BY <1>2, <2>1, <2>2, InvocationMoves
<1>3. CASE Tick
  BY <1>3, SlotIsFinite DEF Tick, Typed
<1>4. ASSUME NEW o \in Operator, OperatorStep(o) PROVE Typed'
  BY <1>4 DEF OperatorStep, Typed
<1>5. CASE UNCHANGED vars
  BY <1>5 DEF vars, cycleVars, Typed
<1> QED
  BY <1>2, <1>3, <1>4, <1>5 DEF Next

LEMMA InitTyped == Init => Typed
<1> SUFFICES ASSUME Init PROVE Typed
  OBVIOUS
<1>1. now \in Nat /\ 4 <= now /\ now <= 3 * Days + 1
  BY CycleAssumption DEF Init
<1>2. rows \in Seq(RowRecord) /\ raced \subseteq Slot
  BY DEF Init
<1>3. lease \in [Slot -> LeaseRecord] /\ resv \in [Slot -> Reservation]
  BY DEF Init, LeaseRecord, Reservation, Released
<1>4. proc \in [Runner -> Process] /\ \A r \in Runner : proc[r].pc = "idle"
  BY DEF Init, Process, Idle, Stage
<1> QED
  BY <1>1, <1>2, <1>3, <1>4 DEF Typed

-----------------------------------------------------------------------------
(* The invariant.                                                             *)

(* A running row is its invocation's own.                                     *)
RowsOwned ==
  \A r \in Runner :
    /\ proc[r].row \in 0..Len(rows)
    /\ proc[r].row # 0 => rows[proc[r].row].slot = proc[r].slot
    /\ proc[r].pc \in Running =>
         /\ proc[r].row # 0 /\ rows[proc[r].row].status = "RUNNING"
         /\ \A q \in Runner : proc[q].pc \in Running /\ q # r => proc[q].row # proc[r].row

(* Of what the catch-up window still has, all before a slot that was picked   *)
(* was completed.                                                             *)
Pending(r, s) == proc[r].pc # "idle" /\ proc[r].slot = s
Touched(s) == RowsOf(s) # {} \/ resv[s].status # "NONE" \/ \E r \in Runner : Pending(r, s)
OldestFirst ==
  \A s \in Slot : Touched(s) =>
    /\ s \in TradingDay
    /\ \A t \in Slot \cap TradingDay : t < s /\ Today - MaxCatchUp <= t => EverCompleted(t)

(* An invocation that has not outlived its lease holds it.                    *)
LeasesHeld ==
  ~outlived => \A r \in Runner : Inside(r) =>
    LET l == lease[proc[r].slot] IN
      /\ l.held /\ l.owner = r
      /\ now <= l.until /\ l.until <= now + LeaseTtl

(* A slot that was not raced for is worked on by one invocation at a time,    *)
(* whose row is the newest, and by none once it was completed.                *)
RunsOnce ==
  /\ \A q, r \in Runner : Inside(q) /\ Inside(r) /\ proc[q].slot = proc[r].slot /\ q # r =>
       proc[r].slot \in raced
  /\ \A r \in Runner :
       \/ proc[r].slot \in raced
       \/ /\ proc[r].pc \in Active => ~EverCompleted(proc[r].slot)
          /\ proc[r].pc # "idle" => ~proc[r].known
          /\ proc[r].pc \in Running => \A i \in RowsOf(proc[r].slot) : i <= proc[r].row
  /\ \A s \in Slot \ raced : \A i, j \in RowsOf(s) : rows[i].status = "COMPLETED" => j <= i

(* What is left of a reservation pays for the call that is under way.         *)
CallsArePaid ==
  /\ \A s \in Slot : resv[s].status = "NONE" => resv[s].used = 0
  /\ \A s \in Slot \ raced : resv[s].used <= SlotCost
  /\ \A r \in Runner :
       /\ proc[r].pc \in {"start"} \cup Running => resv[proc[r].slot].status # "NONE"
       /\ proc[r].pc \in Owing =>
            resv[proc[r].slot].used + CallCost <= SlotCost \/ proc[r].slot \in raced

CycleInv == Typed /\ RowsOwned /\ OldestFirst /\ LeasesHeld /\ RunsOnce /\ CallsArePaid

(* Where a lease is shorter than what is left of a day after the window, and  *)
(* nothing was raced for or outlived.                                         *)
Calm == ~outlived /\ raced = {}
Past(s) == s < Today - MaxCatchUp

(* Whoever has a slot took it today, or has to give it up before the window   *)
(* of the day.                                                                *)
SlotsAreTodays ==
  \A r \in Runner : proc[r].pc # "idle" =>
    \/ ~Past(proc[r].slot)
    \/ BeforeIntended /\ Inside(r) /\ lease[proc[r].slot].until <= now

(* Slots are taken in their order.                                            *)
TakenInOrder ==
  \A r \in Runner, s \in Slot : proc[r].pc # "idle" =>
    /\ proc[r].slot < s /\ (resv[s].status # "NONE" \/ \E q \in Runner : Pending(q, s)) =>
         EverCompleted(proc[r].slot)
    /\ s < proc[r].slot /\ resv[s].status # "NONE" => EverCompleted(s) \/ Past(s)

(* What is committed stays within the cap, with a reservation about to be     *)
(* inserted, and with the rest of any that may still be spent from.           *)
Closed(s) ==
  \/ EverCompleted(s)
  \/ Past(s) /\ \A r \in Runner : ~(proc[r].pc \in Active /\ proc[r].slot = s)
CapKept ==
  /\ Committed <= Cap
  /\ \A r \in Runner : proc[r].pc = "insert" /\ resv[proc[r].slot].status = "NONE" =>
       Committed + SlotCost <= Cap
  /\ \A s \in Slot : resv[s].status = "SETTLED" =>
       Closed(s) \/ Committed - resv[s].used + SlotCost <= Cap

CapInv == Calm => SlotsAreTodays /\ TakenInOrder /\ CapKept

(* Until an operator reopens, the system is paused for who distrusts it.      *)
PauseStands ==
  /\ distrust \subseteq Runner
  /\ \A r \in Runner : /\ asked[r] \in {"none", "automatic_pause"}
                       /\ proc[r].pc \in {"tripWrite", "healthWrite"} => asked[r] = "automatic_pause"
  /\ \A r \in distrust : pause # "ACTIVE" \/ proc[r].pc \in {"trip", "tripWrite"}

-----------------------------------------------------------------------------
(* What a step does to the rows of a slot.                                    *)

LEMMA AddedRows ==
  ASSUME Typed, NEW r \in Runner, NEW status \in {"BUDGET_REJECTED", "RUNNING"},
         Added(r, status), proc[r].slot \in Slot
  PROVE  /\ Len(rows') = Len(rows) + 1 /\ Len(rows) \in Nat
         /\ \A i \in 1..Len(rows) : rows'[i] = rows[i]
         /\ rows'[Len(rows) + 1].slot = proc[r].slot /\ rows'[Len(rows) + 1].status = status
         /\ \A s \in Slot : s # proc[r].slot => RowsOf(s)' = RowsOf(s)
         /\ \A s \in Slot : s = proc[r].slot => RowsOf(s)' = RowsOf(s) \cup {Len(rows) + 1}
<1> DEFINE n == Len(rows) + 1
           x == [slot |-> proc[r].slot, status |-> status]
<1>1. rows \in Seq(RowRecord) /\ x \in RowRecord /\ rows' = Append(rows, x)
  BY DEF Typed, RowRecord, Added
<1>2. x.slot = proc[r].slot /\ x.status = status
  OBVIOUS
<1> HIDE DEF x
<1>3. /\ Len(rows') = n /\ Len(rows) \in Nat /\ DOMAIN rows = 1..Len(rows) /\ DOMAIN rows' = 1..n
      /\ \A i \in 1..Len(rows) : rows'[i] = rows[i]
      /\ rows'[n] = x
  BY <1>1
<1> HIDE DEF n
<1>4. \A i : i \in 1..n <=> i \in 1..Len(rows) \/ i = n
  BY <1>3 DEF n
<1>5. n \notin 1..Len(rows)
  BY <1>3 DEF n
<1>6. \A s \in Slot : RowsOf(s)' = {i \in 1..n : rows'[i].slot = s}
  BY <1>3 DEF RowsOf
<1>7. \A s \in Slot : RowsOf(s) = {i \in 1..Len(rows) : rows[i].slot = s}
  BY <1>3 DEF RowsOf
<1>8. \A s \in Slot : s # proc[r].slot => RowsOf(s)' = RowsOf(s)
  <2>1. ASSUME NEW s \in Slot, s # proc[r].slot, NEW i PROVE i \in RowsOf(s)' <=> i \in RowsOf(s)
    BY <1>2, <1>3, <1>4, <1>6, <1>7, <2>1
  <2> QED
    BY <2>1
<1>9. \A s \in Slot : s = proc[r].slot => RowsOf(s)' = RowsOf(s) \cup {n}
  <2>1. ASSUME NEW s \in Slot, s = proc[r].slot, NEW i
        PROVE  i \in RowsOf(s)' <=> i \in RowsOf(s) \cup {n}
    BY <1>2, <1>3, <1>4, <1>6, <1>7, <2>1
  <2> QED
    BY <2>1
<1> QED
  BY <1>2, <1>3, <1>8, <1>9 DEF n

LEMMA UpdatedRows ==
  ASSUME Typed, RowsOwned, NEW r \in Runner, Updated(r)
  PROVE  /\ Len(rows') = Len(rows) /\ proc[r].row \in 1..Len(rows)
         /\ \A i \in 1..Len(rows) : rows'[i].slot = rows[i].slot
         /\ \A i \in 1..Len(rows) : i # proc[r].row => rows'[i] = rows[i]
         /\ rows[proc[r].row].slot = proc[r].slot /\ rows[proc[r].row].status = "RUNNING"
         /\ \A s \in Slot : RowsOf(s)' = RowsOf(s)
<1>1. PICK final \in {"COMPLETED", "FAILED"} : rows' = [rows EXCEPT ![proc[r].row].status = final]
  BY DEF Updated
<1>2. proc[r].pc \in Running
  BY DEF Updated, Running
<1>3. Len(rows) \in Nat /\ rows \in [1..Len(rows) -> RowRecord] /\ DOMAIN rows = 1..Len(rows)
  BY DEF Typed
<1>4. /\ proc[r].row \in 1..Len(rows)
      /\ rows[proc[r].row].slot = proc[r].slot /\ rows[proc[r].row].status = "RUNNING"
  BY <1>2, <1>3 DEF RowsOwned
<1>5. /\ DOMAIN rows' = 1..Len(rows)
      /\ \A i \in 1..Len(rows) : i # proc[r].row => rows'[i] = rows[i]
      /\ \A i \in 1..Len(rows) : rows'[i].slot = rows[i].slot
  BY <1>1, <1>3, <1>4 DEF RowRecord
<1>6. Len(rows') = Len(rows)
  BY <1>1, <1>3
<1>7. \A s \in Slot : RowsOf(s)' = RowsOf(s)
  BY <1>3, <1>5 DEF RowsOf
<1> QED
  BY <1>4, <1>5, <1>6, <1>7

\* Rows stay their slot's, and what is COMPLETED stays so.
RowsKept(r) ==
  /\ Len(rows) <= Len(rows')
  /\ \A i \in 1..Len(rows) : rows'[i].slot = rows[i].slot
  /\ \A s \in Slot : RowsOf(s) \subseteq RowsOf(s)'
  /\ \A s \in Slot : s # proc[r].slot => RowsOf(s)' = RowsOf(s)
  /\ \A s \in Slot : EverCompleted(s) => EverCompleted(s)'
  /\ \A s \in Slot : EverCompleted(s)' => EverCompleted(s) \/ (Updated(r) /\ s = proc[r].slot)
  /\ ~Started(r) /\ ~Rejected(r) => \A s \in Slot : RowsOf(s)' = RowsOf(s)

LEMMA MoveKeepsRows ==
  ASSUME Typed, RowsOwned, NEW r \in Runner, Move(r) PROVE RowsKept(r)
<1>1. \A s \in Slot : RowsOf(s) \subseteq 1..Len(rows)
  BY DEF RowsOf, Typed
<1>2. CASE Updated(r)
  <2>1. ~Started(r) /\ ~Rejected(r)
    BY <1>2 DEF Updated, Started, Rejected
  <2>2. \A s \in Slot : EverCompleted(s) => EverCompleted(s)'
    <3>1. ASSUME NEW s \in Slot, NEW i \in RowsOf(s), rows[i].status = "COMPLETED"
          PROVE  i \in RowsOf(s)' /\ rows'[i].status = "COMPLETED"
      BY <1>1, <1>2, <3>1, UpdatedRows
    <3> QED
      BY <3>1 DEF EverCompleted
  <2>3. \A s \in Slot : EverCompleted(s)' => EverCompleted(s) \/ s = proc[r].slot
    <3>1. ASSUME NEW s \in Slot, s # proc[r].slot, NEW i \in RowsOf(s)', rows'[i].status = "COMPLETED"
          PROVE  i \in RowsOf(s) /\ rows[i].status = "COMPLETED"
      <4>1. i \in RowsOf(s)
        BY <1>2, UpdatedRows
      <4>2. rows[i].slot = s
        BY <4>1 DEF RowsOf
      <4> QED
        BY <1>1, <1>2, <3>1, <4>1, <4>2, UpdatedRows
    <3> QED
      BY <3>1 DEF EverCompleted
  <2>4. /\ Len(rows) <= Len(rows')
        /\ \A i \in 1..Len(rows) : rows'[i].slot = rows[i].slot
        /\ \A s \in Slot : RowsOf(s)' = RowsOf(s)
    BY <1>2, UpdatedRows, Len(rows) \in Nat DEF Typed
  <2> QED
    BY <1>2, <2>1, <2>2, <2>3, <2>4 DEF RowsKept
<1>3. ASSUME NEW status \in {"BUDGET_REJECTED", "RUNNING"}, Added(r, status), proc[r].pc # "idle"
      PROVE  /\ Len(rows) <= Len(rows')
             /\ \A i \in 1..Len(rows) : rows'[i].slot = rows[i].slot
             /\ \A s \in Slot : RowsOf(s) \subseteq RowsOf(s)'
             /\ \A s \in Slot : s # proc[r].slot => RowsOf(s)' = RowsOf(s)
             /\ \A s \in Slot : EverCompleted(s)' <=> EverCompleted(s)
  <2>1. proc[r].slot \in Slot
    BY <1>3 DEF Typed
  <2>2. \A s \in Slot : EverCompleted(s) => EverCompleted(s)'
    <3>1. ASSUME NEW s \in Slot, NEW i \in RowsOf(s), rows[i].status = "COMPLETED"
          PROVE  i \in RowsOf(s)' /\ rows'[i].status = "COMPLETED"
      BY <1>1, <1>3, <2>1, <3>1, AddedRows
    <3> QED
      BY <3>1 DEF EverCompleted
  <2>3. \A s \in Slot : EverCompleted(s)' => EverCompleted(s)
    <3>1. ASSUME NEW s \in Slot, NEW i \in RowsOf(s)', rows'[i].status = "COMPLETED"
          PROVE  i \in RowsOf(s) /\ rows[i].status = "COMPLETED"
      <4>1. i # Len(rows) + 1
        BY <1>3, <2>1, <3>1, AddedRows
      <4>2. i \in RowsOf(s)
        BY <1>3, <2>1, <4>1, AddedRows
      <4> QED
        BY <1>1, <1>3, <2>1, <3>1, <4>2, AddedRows
    <3> QED
      BY <3>1 DEF EverCompleted
  <2>4. Len(rows) <= Len(rows') /\ \A i \in 1..Len(rows) : rows'[i].slot = rows[i].slot
    BY <1>3, <2>1, AddedRows
  <2>5. \A s \in Slot : RowsOf(s) \subseteq RowsOf(s)' /\ (s # proc[r].slot => RowsOf(s)' = RowsOf(s))
    BY <1>3, <2>1, AddedRows
  <2> QED
    BY <2>2, <2>3, <2>4, <2>5
<1>4. CASE Started(r)
  <2>1. Added(r, "RUNNING") /\ proc[r].pc # "idle"
    BY <1>4 DEF Started
  <2> QED
    BY <1>3, <1>4, <2>1 DEF RowsKept
<1>5. CASE Rejected(r)
  <2>1. Added(r, "BUDGET_REJECTED") /\ proc[r].pc # "idle"
    BY <1>5 DEF Rejected
  <2> QED
    BY <1>3, <1>5, <2>1 DEF RowsKept
<1>6. CASE UNCHANGED rows
  <2>1. \A s \in Slot : RowsOf(s)' = RowsOf(s) /\ (EverCompleted(s)' <=> EverCompleted(s))
    BY <1>6 DEF RowsOf, EverCompleted
  <2>2. Len(rows) <= Len(rows') /\ \A i \in 1..Len(rows) : rows'[i].slot = rows[i].slot
    BY <1>6 DEF Typed
  <2> QED
    BY <2>1, <2>2 DEF RowsKept
<1> QED
  BY <1>2, <1>4, <1>5, <1>6 DEF Move, Picked, Left, Acquired, Acquire, Walked, Inserted, Charged, Settled

-----------------------------------------------------------------------------
(* An invocation keeps each part of the invariant.                            *)

LEMMA StagesOfMoves ==
  ASSUME Typed, NEW r \in Runner, Move(r)
  PROVE  /\ Inside(r) /\ proc'[r].pc # "idle" =>
              /\ proc'[r].pc # "acquire" /\ SameSlot(r)
              /\ proc'[r].pc \in Active => proc[r].pc \in Active
              /\ proc'[r].pc \in Running => proc[r].pc \in Running \/ Started(r)
         /\ proc[r].pc = "idle" => Picked(r) \/ Left(r)
         /\ proc[r].pc = "acquire" => Left(r) \/ Acquired(r)
BY DEF Move, Picked, Left, Acquired, Acquire, Walked, Rejected, Started, Added, Inserted, Charged,
   Settled, Updated, Inside, Idle, Active, Running, SameSlot

LEMMA MoveKeepsOwnRows ==
  ASSUME Typed, RowsOwned, NEW r \in Runner, Move(r) PROVE RowsOwned'
<1>1. RowsKept(r) /\ Len(rows) \in Nat /\ \A q \in Runner : q # r => proc'[q] = proc[q]
  BY MoveKeepsRows DEF Move, Typed, Others
<1>2. ASSUME NEW q \in Runner
      PROVE  /\ proc[q].row \in 0..Len(rows)
             /\ proc[q].row # 0 => rows[proc[q].row].slot = proc[q].slot
             /\ proc[q].pc \in Running =>
                  /\ proc[q].row # 0 /\ rows[proc[q].row].status = "RUNNING"
                  /\ \A p \in Runner : proc[p].pc \in Running /\ p # q => proc[p].row # proc[q].row
  BY DEF RowsOwned
<1>3. CASE Started(r) \/ Rejected(r)
  <2>1. \E status \in {"BUDGET_REJECTED", "RUNNING"} :
          /\ Added(r, status) /\ SameSlot(r) /\ proc'[r].row = Len(rows) + 1
          /\ proc'[r].pc \in Running => status = "RUNNING"
    BY <1>3 DEF Started, Rejected, Added, Running
  <2>2. proc[r].slot \in Slot
    BY <1>3 DEF Started, Rejected, Typed
  <2>3. /\ Len(rows') = Len(rows) + 1
        /\ \A i \in 1..Len(rows) : rows'[i] = rows[i]
        /\ rows'[Len(rows) + 1].slot = proc[r].slot
        /\ proc'[r].pc \in Running => rows'[Len(rows) + 1].status = "RUNNING"
    BY <2>1, <2>2, AddedRows
  <2>4. proc'[r].row = Len(rows) + 1 /\ proc'[r].slot = proc[r].slot
    BY <2>1 DEF SameSlot
  <2>5. ASSUME NEW q \in Runner, q # r
        PROVE  /\ proc'[q] = proc[q] /\ proc[q].row \in 0..Len(rows')
               /\ proc[q].row # 0 => rows'[proc[q].row] = rows[proc[q].row]
               /\ proc[q].row # Len(rows) + 1
    BY <1>1, <1>2, <2>3, <2>5
  <2> QED
    BY <1>1, <1>2, <2>3, <2>4, <2>5 DEF RowsOwned
<1>4. CASE Updated(r)
  <2>1. /\ proc'[r].pc \notin Running /\ proc[r].pc \in Running
        /\ proc'[r].row = proc[r].row /\ proc'[r].slot = proc[r].slot
    BY <1>4 DEF Updated, Running, SameRow, SameSlot
  <2>2. /\ Len(rows') = Len(rows)
        /\ \A i \in 1..Len(rows) : rows'[i].slot = rows[i].slot
        /\ \A i \in 1..Len(rows) : i # proc[r].row => rows'[i] = rows[i]
    BY <1>4, UpdatedRows
  <2>3. ASSUME NEW q \in Runner, q # r, proc[q].pc \in Running PROVE rows'[proc[q].row].status = "RUNNING"
    BY <1>1, <1>2, <2>1, <2>2, <2>3
  <2> QED
    BY <1>1, <1>2, <2>1, <2>2, <2>3 DEF RowsOwned
<1>5. CASE UNCHANGED rows
  <2>1. \/ proc'[r].row = 0 /\ proc'[r].pc \notin Running
        \/ /\ proc'[r].row = proc[r].row /\ proc'[r].slot = proc[r].slot
           /\ proc'[r].pc \in Running => proc[r].pc \in Running
    <3>1. ~Started(r) /\ ~Rejected(r)
      <4>1. \A x : Append(rows, x) # rows
        BY <1>1 DEF Typed
      <4> QED
        BY <1>5, <4>1 DEF Started, Rejected, Added
    <3> QED
      BY <3>1 DEF Move, Picked, Left, Idle, Acquired, Acquire, Walked, Inserted, Charged,
         Settled, Updated, SameRow, SameSlot, Running
  <2> QED
    BY <1>1, <1>2, <1>5, <2>1 DEF RowsOwned
<1> QED
  BY <1>3, <1>4, <1>5 DEF Move, Picked, Left, Acquired, Acquire, Walked, Inserted, Charged, Settled

LEMMA MoveTouches ==
  ASSUME Typed, RowsOwned, CallsArePaid, NEW r \in Runner, Move(r), NEW s \in Slot
  PROVE  /\ Touched(s)' => Touched(s) \/ (Picked(r) /\ s = proc'[r].slot)
         /\ resv'[s].status # "NONE" => resv[s].status # "NONE" \/ (Inserted(r) /\ s = proc[r].slot)
<1>1. /\ RowsKept(r) /\ \A q \in Runner : q # r => proc'[q] = proc[q]
      /\ resv \in [Slot -> Reservation]
  BY MoveKeepsRows DEF Move, Typed, Others
<1>2. RowsOf(s)' # {} => RowsOf(s) # {} \/ Pending(r, s)
  <2>1. ASSUME RowsOf(s)' # RowsOf(s) PROVE Pending(r, s)
    BY <1>1, <2>1 DEF RowsKept, Started, Rejected, Pending
  <2> QED
    BY <2>1
<1>3. resv'[s].status # "NONE" => resv[s].status # "NONE" \/ (Inserted(r) /\ s = proc[r].slot)
  <2>1. ASSUME Charged(r) PROVE resv'[s].status = resv[s].status
    BY <1>1, <2>1 DEF Charged, Reservation
  <2>2. ASSUME Inserted(r), s # proc[r].slot PROVE resv'[s].status = resv[s].status
    BY <1>1, <2>2 DEF Inserted, Reservation
  <2>3. ASSUME Settled(r) 
      PROVE  resv'[s].status = resv[s].status \/ resv[s].status # "NONE"
    BY <1>1, <2>3 DEF Settled, Reservation, CallsArePaid, Running
  <2> QED
    BY <2>1, <2>2, <2>3 DEF Move, Picked, Left, Acquired, Acquire, Walked, Rejected, Started, Added, Updated
<1>4. Inserted(r) => proc[r].pc # "idle"
  BY DEF Inserted
<1>5. ASSUME NEW q \in Runner, Pending(q, s)'
      PROVE  Pending(q, s) \/ (Picked(r) /\ s = proc'[r].slot)
  <2>1. CASE q # r
    BY <1>1, <1>5, <2>1 DEF Pending
  <2>2. CASE q = r
    BY <1>5, <2>2 DEF Pending, Move, Picked, Left, Idle, Acquired, Acquire, Walked, Rejected, Started,
       Added, Inserted, Charged, Settled, Updated, SameSlot, Inside
  <2> QED
    BY <2>1, <2>2
<1> QED
  BY <1>2, <1>3, <1>4, <1>5 DEF Touched, Pending

LEMMA OldestIsPicked ==
  ASSUME Typed, OldestFirst, NEW r \in Runner, Picked(r)
  PROVE  /\ proc'[r].slot \in Slot \cap TradingDay /\ ~Past(proc'[r].slot)
         /\ \A t \in Slot \cap TradingDay : t < proc'[r].slot /\ ~Past(t) => EverCompleted(t)
         /\ \A t \in Window \cap TradingDay : t < proc'[r].slot => EverCompleted(t)
<1> DEFINE s == proc'[r].slot
<1>1. /\ s \in Window \cap TradingDay
      /\ \A t \in Window \cap TradingDay : t < s => \E c \in Seen : t <= c
  BY DEF Picked
<1>2. Slot \subseteq Int /\ MaxCatchUp \in Nat /\ Today \in Nat
  BY SlotIsFinite, DayTurns DEF Today, Typed
<1>3. \A t \in Window : t \in Slot /\ Today - MaxCatchUp <= t /\ t <= Today
  BY <1>2 DEF Window
<1>4. \A t \in Slot : Today - MaxCatchUp <= t /\ t <= Today => t \in Window
  BY <1>2 DEF Window
<1>5. ASSUME NEW t \in Window \cap TradingDay, t < s PROVE EverCompleted(t)
  <2>1. PICK c \in Seen : t <= c
    BY <1>1, <1>5
  <2>2. c \in Slot /\ Completed(c)
    BY <2>1 DEF Seen, Window, Margin
  <2>3. EverCompleted(c) /\ RowsOf(c) # {}
    BY <2>2, CompletedMeans DEF EverCompleted
  <2>4. t = c \/ t < c
    <3>1. t \in Int /\ c \in Int
      BY <1>2, <1>3, <2>2
    <3> QED
      BY <2>1, <3>1
  <2>5. t \in Slot \cap TradingDay /\ Today - MaxCatchUp <= t
    BY <1>3
  <2> QED
    BY <2>2, <2>3, <2>4, <2>5 DEF OldestFirst, Touched
<1>6. ASSUME NEW t \in Slot \cap TradingDay, t < s, ~Past(t) PROVE EverCompleted(t)
  <2>1. s \in Int /\ s <= Today
    BY <1>1, <1>2, <1>3
  <2>2. t \in Int /\ Today - MaxCatchUp <= t /\ t <= Today
    BY <1>2, <1>6, <2>1 DEF Past
  <2> QED
    BY <1>4, <1>5, <1>6, <2>2
<1>7. s \in Slot \cap TradingDay /\ ~Past(s)
  <2>1. s \in Slot /\ s \in Int /\ Today - MaxCatchUp <= s
    BY <1>1, <1>2, <1>3
  <2> QED
    BY <1>1, <1>2, <2>1 DEF Past
<1> QED
  BY <1>5, <1>6, <1>7

LEMMA MoveKeepsOrder ==
  ASSUME Typed, RowsOwned, CallsArePaid, OldestFirst, NEW r \in Runner, Move(r) PROVE OldestFirst'
<1>1. RowsKept(r) /\ Today' = Today
  BY MoveKeepsRows DEF Move, Today
<1>2. \A t \in Slot : EverCompleted(t) => EverCompleted(t)'
  BY <1>1 DEF RowsKept
<1>3. Slot \subseteq Int /\ MaxCatchUp \in Nat /\ Today \in Nat
  BY SlotIsFinite, DayTurns DEF Today, Typed
<1>4. ASSUME NEW s \in Slot, Touched(s)'
      PROVE  /\ s \in TradingDay
             /\ \A t \in Slot \cap TradingDay : t < s /\ Today - MaxCatchUp <= t => EverCompleted(t)
  <2>1. CASE Touched(s)
    BY <2>1 DEF OldestFirst
  <2>2. CASE Picked(r) /\ s = proc'[r].slot
    <3>1. \A t \in Slot : Today - MaxCatchUp <= t => ~Past(t)
      BY <1>3 DEF Past
    <3> QED
      BY <2>2, <3>1, OldestIsPicked
  <2> QED
    BY <1>4, <2>1, <2>2, MoveTouches
<1> QED
  BY <1>1, <1>2, <1>4 DEF OldestFirst

LEMMA MoveKeepsLeases ==
  ASSUME Typed, LeasesHeld, NEW r \in Runner, Move(r) PROVE LeasesHeld'
<1> SUFFICES ASSUME ~outlived', NEW q \in Runner, Inside(q)'
             PROVE  LET l == lease'[proc'[q].slot] IN
                      /\ l.held /\ l.owner = q
                      /\ now' <= l.until /\ l.until <= now' + LeaseTtl
  BY DEF LeasesHeld
<1>1. /\ ~outlived /\ now' = now /\ \A p \in Runner : p # r => proc'[p] = proc[p]
      /\ lease \in [Slot -> LeaseRecord] /\ now \in Int /\ LeaseTtl \in Nat
  BY SlotIsFinite DEF Move, Others, Typed
<1>2. CASE Acquired(r)
  <2>1. /\ Free(proc[r].slot) /\ proc[r].slot \in Slot /\ proc'[r].slot = proc[r].slot
        /\ lease' = [lease EXCEPT ![proc[r].slot] = [owner |-> r, until |-> now + LeaseTtl, held |-> TRUE]]
    BY <1>2 DEF Acquired, Acquire, SameSlot, Typed
  <2>2. CASE q = r
    BY <1>1, <2>1, <2>2
  <2>3. CASE q # r
    <3>1. Inside(q) /\ proc'[q].slot = proc[q].slot
      BY <1>1, <2>3 DEF Inside
    <3>2. /\ lease[proc[q].slot].held /\ lease[proc[q].slot].owner = q
          /\ now <= lease[proc[q].slot].until /\ lease[proc[q].slot].until <= now + LeaseTtl
          /\ lease[proc[q].slot].until \in Int /\ proc[q].slot \in Slot
      BY <1>1, <3>1 DEF LeasesHeld, Typed, LeaseRecord, Inside
    <3>3. proc[q].slot # proc[r].slot
      BY <1>1, <2>1, <3>2 DEF Free
    <3> QED
      BY <1>1, <2>1, <3>1, <3>2, <3>3
  <2> QED
    BY <2>2, <2>3
<1>3. CASE ~Acquired(r)
  <2>1. Inside(q) /\ proc'[q].slot = proc[q].slot
    BY <1>1, <1>3 DEF Move, Picked, Left, Idle, Walked, Rejected, Started, Added, Inserted, Charged,
       Settled, Updated, SameSlot, Inside
  <2>2. /\ lease[proc[q].slot].held /\ lease[proc[q].slot].owner = q
        /\ now <= lease[proc[q].slot].until /\ lease[proc[q].slot].until <= now + LeaseTtl
        /\ proc[q].slot \in Slot
    BY <1>1, <2>1 DEF LeasesHeld, Typed, Inside
  <2>3. lease'[proc[q].slot] = lease[proc[q].slot]
    <3>1. CASE Left(r)
      <4>1. q # r
        BY <3>1 DEF Left, Idle, Inside
      <4>2. \/ UNCHANGED lease
            \/ /\ lease[proc[r].slot].owner = r
               /\ lease' = [lease EXCEPT ![proc[r].slot] = Released]
        BY <3>1 DEF Left
      <4> QED
        BY <1>1, <2>2, <4>1, <4>2
    <3> QED
      BY <1>3, <3>1 DEF Move, Picked, Walked, Rejected, Started, Added, Inserted, Charged, Settled, Updated
  <2> QED
    BY <1>1, <2>1, <2>2, <2>3
<1> QED
  BY <1>2, <1>3

LEMMA MoveKeepsRunsOnce ==
  ASSUME Typed, RowsOwned, RunsOnce, NEW r \in Runner, Move(r) PROVE RunsOnce'
<1>1. /\ RowsKept(r) /\ \A q \in Runner : q # r => proc'[q] = proc[q]
      /\ raced \subseteq raced'
      /\ \A q \in Runner : proc[q].pc # "idle" => proc[q].slot \in Slot
      /\ \A q \in Runner : proc[q].pc \in Active => Inside(q)
  BY MoveKeepsRows DEF Move, Others, Typed, Acquired, Acquire, Picked, Left, Walked, Rejected, Started,
     Added, Inserted, Charged, Settled, Updated, Inside, Active, Running
<1>2. ASSUME NEW p \in Runner, NEW q \in Runner, Inside(p), Inside(q), proc[p].slot = proc[q].slot, p # q
      PROVE  proc[q].slot \in raced
  BY <1>2 DEF RunsOnce
<1>3. ASSUME NEW q \in Runner, proc[q].slot \notin raced
      PROVE  /\ proc[q].pc \in Active => ~EverCompleted(proc[q].slot)
             /\ proc[q].pc # "idle" => ~proc[q].known
             /\ proc[q].pc \in Running => \A i \in RowsOf(proc[q].slot) : i <= proc[q].row
  BY <1>3 DEF RunsOnce
<1>4. CASE Acquired(r)
  <2> DEFINE s == proc[r].slot
  <2>1. /\ proc'[r].slot = s /\ proc'[r].known = proc[r].known /\ proc'[r].pc = "reserve"
        /\ proc[r].pc = "acquire" /\ rows' = rows
        /\ s \notin raced' => /\ ~(EverCompleted(s) /\ ~proc[r].known)
                              /\ ~\E q \in Runner : Inside(q) /\ proc[q].slot = s
    BY <1>4 DEF Acquired, Acquire, SameSlot
  <2>2. s \notin raced' => ~EverCompleted(s) /\ ~proc[r].known
    BY <1>1, <1>3, <2>1
  <2>3. \A t \in Slot : RowsOf(t)' = RowsOf(t) /\ (EverCompleted(t)' <=> EverCompleted(t))
    BY <2>1 DEF RowsOf, EverCompleted
  <2>4. ASSUME NEW q \in Runner, q # r PROVE Inside(q)' => Inside(q)
    BY <1>1, <2>4 DEF Inside
  <2>5. ASSUME NEW p \in Runner, NEW q \in Runner, Inside(p)', Inside(q)', proc'[p].slot = proc'[q].slot,
               p # q
        PROVE  proc'[q].slot \in raced'
    BY <1>1, <1>2, <2>1, <2>4, <2>5
  <2>6. ASSUME NEW q \in Runner, proc'[q].slot \notin raced'
        PROVE  /\ proc'[q].pc \in Active => ~EverCompleted(proc[q].slot)'
               /\ proc'[q].pc # "idle" => ~proc'[q].known
               /\ proc'[q].pc \in Running => \A i \in RowsOf(proc[q].slot)' : i <= proc'[q].row
    <3>1. CASE q = r
      <4>1. s \in Slot /\ "reserve" \notin Running
        BY <1>1, <2>1 DEF Running
      <4> QED
        BY <2>1, <2>2, <2>3, <2>6, <3>1, <4>1
    <3>2. CASE q # r
      <4>1. proc[q].slot \notin raced /\ proc'[q] = proc[q]
        BY <1>1, <2>6, <3>2
      <4>2. proc[q].pc \in Active \/ proc[q].pc \in Running => proc[q].slot \in Slot
        BY <1>1 DEF Active, Running
      <4> QED
        BY <1>3, <2>3, <4>1, <4>2
    <3> QED
      BY <3>1, <3>2
  <2>7. \A t \in Slot \ raced' : \A i, j \in RowsOf(t)' : rows'[i].status = "COMPLETED" => j <= i
    BY <1>1, <2>1, <2>3 DEF RunsOnce
  <2> QED
    BY <2>5, <2>6, <2>7 DEF RunsOnce
<1>5. CASE ~Acquired(r)
  <2>1. raced' = raced
    BY <1>5 DEF Move, Picked, Left, Walked, Rejected, Started, Added, Inserted, Charged, Settled, Updated
  <2>2. Inside(r)' => Inside(r) /\ SameSlot(r)
    BY <1>5, StagesOfMoves DEF Inside, Picked, Left, Idle
  <2>3. \A q \in Runner : Inside(q)' => Inside(q) /\ proc'[q].slot = proc[q].slot
    BY <1>1, <2>2 DEF Inside, SameSlot
  <2>4. ASSUME NEW p \in Runner, NEW q \in Runner, Inside(p)', Inside(q)', proc'[p].slot = proc'[q].slot,
               p # q
        PROVE  proc'[q].slot \in raced'
    BY <1>2, <2>1, <2>3, <2>4
  <2>5. ASSUME NEW q \in Runner, proc'[q].slot \notin raced, proc'[q].pc \in Active
        PROVE  ~EverCompleted(proc[q].slot)'
    <3>1. Inside(q) /\ proc'[q].slot = proc[q].slot /\ proc[q].pc \in Active /\ proc[q].slot \in Slot
      <4>1. Inside(q)'
        BY <2>5 DEF Inside, Active, Running
      <4> QED
        BY <1>1, <2>3, <2>5, <4>1, StagesOfMoves DEF Active, Running, Inside
    <3>2. ~EverCompleted(proc[q].slot)
      BY <1>3, <2>5, <3>1
    <3>3. ~(Updated(r) /\ proc[q].slot = proc[r].slot)
      <4>1. CASE q = r
        BY <2>5, <4>1 DEF Updated, Active, Running
      <4>2. CASE q # r
        <5>1. Updated(r) => Inside(r)
          BY DEF Updated, Inside
        <5> QED
          BY <1>2, <2>5, <3>1, <4>2, <5>1
      <4> QED
        BY <4>1, <4>2
    <3>4. \A t \in Slot : EverCompleted(t)' => EverCompleted(t) \/ (Updated(r) /\ t = proc[r].slot)
      BY <1>1 DEF RowsKept
    <3> QED
      BY <3>1, <3>2, <3>3, <3>4
  <2>6. ASSUME NEW q \in Runner, proc'[q].slot \notin raced, proc'[q].pc # "idle" PROVE ~proc'[q].known
    <3>1. CASE Picked(r) /\ q = r
      <4>1. /\ proc'[r].slot \in Slot /\ ~Completed(proc'[r].slot)
            /\ proc'[r].known = EverCompleted(proc'[r].slot)
        BY <3>1 DEF Picked, Window
      <4>2. ~EverCompleted(proc'[r].slot)
        BY <2>6, <3>1, <4>1, CompletedMeans DEF RunsOnce, EverCompleted
      <4> QED
        BY <3>1, <4>1, <4>2
    <3>2. CASE ~(Picked(r) /\ q = r)
      <4>1. proc'[q].slot = proc[q].slot /\ proc'[q].known = proc[q].known /\ proc[q].pc # "idle"
        BY <1>1, <1>5, <2>6, <3>2, StagesOfMoves DEF SameSlot, Inside, Left, Idle
      <4> QED
        BY <1>3, <2>6, <4>1
    <3> QED
      BY <3>1, <3>2
  <2>7. ASSUME NEW q \in Runner, proc'[q].slot \notin raced, proc'[q].pc \in Running
        PROVE  \A i \in RowsOf(proc[q].slot)' : i <= proc'[q].row
    <3>1. Inside(q) /\ proc'[q].slot = proc[q].slot /\ proc[q].slot \in Slot
      <4>1. Inside(q)'
        BY <2>7 DEF Inside, Running
      <4> QED
        BY <1>1, <2>3, <4>1 DEF Inside
    <3>2. CASE q # r
      <4>1. proc'[q] = proc[q]
        BY <1>1, <3>2
      <4>2. Inside(r) => proc[q].slot # proc[r].slot
        BY <1>2, <2>7, <3>1, <3>2
      <4>3. Started(r) \/ Rejected(r) => Inside(r)
        BY DEF Started, Rejected, Inside
      <4>4. RowsOf(proc[q].slot)' = RowsOf(proc[q].slot)
        BY <1>1, <3>1, <4>2, <4>3 DEF RowsKept
      <4> QED
        BY <1>3, <2>7, <4>1, <4>4
    <3>3. CASE q = r /\ Started(r)
      <4>1. /\ Added(r, "RUNNING") /\ proc'[r].row = Len(rows) + 1
        BY <3>3 DEF Started, Added
      <4>2. RowsOf(proc[r].slot)' = RowsOf(proc[r].slot) \cup {Len(rows) + 1} /\ Len(rows) \in Nat
        BY <3>1, <3>3, <4>1, AddedRows
      <4>3. RowsOf(proc[r].slot) \subseteq 1..Len(rows)
        BY DEF RowsOf, Typed
      <4> QED
        BY <3>1, <3>3, <4>1, <4>2, <4>3
    <3>4. CASE q = r /\ ~Started(r)
      <4>1. proc[r].pc \in Running /\ ~Rejected(r)
        BY <2>7, <3>1, <3>4, StagesOfMoves DEF Rejected, Running
      <4>2. proc'[r].row = proc[r].row
        BY <1>5, <2>7, <3>4, <4>1 DEF Move, Picked, Left, Idle, Walked, Inserted, Charged, Settled,
           Updated, SameRow, Running
      <4>3. \A t \in Slot : RowsOf(t)' = RowsOf(t)
        BY <1>1, <3>4, <4>1 DEF RowsKept
      <4> QED
        BY <1>3, <2>7, <3>1, <3>4, <4>1, <4>2, <4>3
    <3> QED
      BY <3>2, <3>3, <3>4
  <2>8. ASSUME NEW s \in Slot \ raced, NEW i \in RowsOf(s)', NEW j \in RowsOf(s)', rows'[i].status = "COMPLETED"
        PROVE  j <= i
    <3>1. EverCompleted(s)'
      BY <2>8 DEF EverCompleted
    <3>2. RowsOf(s) \subseteq 1..Len(rows) /\ \A k \in RowsOf(s) : rows[k].slot = s
      BY DEF RowsOf, Typed
    <3>3. CASE Started(r) \/ Rejected(r)
      <4>1. /\ proc[r].pc \in Active
            /\ \E status \in {"BUDGET_REJECTED", "RUNNING"} : Added(r, status)
        BY <3>3 DEF Started, Rejected, Active
      <4>2. ~Updated(r)
        BY <3>3 DEF Started, Rejected, Updated
      <4>3. EverCompleted(s)
        BY <1>1, <3>1, <4>2 DEF RowsKept
      <4>4. s # proc[r].slot
        BY <1>3, <4>1, <4>3
      <4>5. proc[r].slot \in Slot /\ RowsOf(s)' = RowsOf(s)
        BY <1>1, <4>1, <4>4 DEF RowsKept, Inside
      <4>6. \A k \in 1..Len(rows) : rows'[k] = rows[k]
        BY <4>1, <4>5, AddedRows
      <4> QED
        BY <2>8, <3>2, <4>5, <4>6 DEF RunsOnce
    <3>4. CASE Updated(r)
      <4>1. /\ RowsOf(s)' = RowsOf(s)
            /\ \A k \in 1..Len(rows) : k # proc[r].row => rows'[k] = rows[k]
            /\ rows[proc[r].row].slot = proc[r].slot
        BY <3>4, UpdatedRows
      <4>2. CASE i = proc[r].row
        <5>1. s = proc[r].slot /\ proc[r].pc \in Running
          BY <3>2, <3>4, <4>1, <4>2 DEF Updated, Running
        <5> QED
          BY <1>3, <4>1, <4>2, <5>1
      <4>3. CASE i # proc[r].row
        BY <2>8, <3>2, <4>1, <4>3 DEF RunsOnce
      <4> QED
        BY <4>2, <4>3
    <3>5. CASE UNCHANGED rows
      BY <2>8, <3>5 DEF RunsOnce, RowsOf
    <3> QED
      BY <1>5, <3>3, <3>4, <3>5 DEF Move, Picked, Left, Walked, Inserted, Charged, Settled
  <2> QED
    BY <2>1, <2>4, <2>5, <2>6, <2>7, <2>8 DEF RunsOnce
<1> QED
  BY <1>4, <1>5

LEMMA MovePaysCalls ==
  ASSUME Typed, RunsOnce, CallsArePaid, NEW r \in Runner, Move(r) PROVE CallsArePaid'
<1>1. /\ \A q \in Runner : q # r => proc'[q] = proc[q]
      /\ raced \subseteq raced' /\ resv \in [Slot -> Reservation]
      /\ SlotCost \in Nat /\ CallCost \in Nat
  BY SlotIsFinite DEF Move, Others, Typed, Acquired, Acquire, Picked, Left, Walked, Rejected, Started,
     Added, Inserted, Charged, Settled, Updated
<1>2. ASSUME NEW q \in Runner
      PROVE  /\ proc[q].pc \in {"start"} \cup Running => resv[proc[q].slot].status # "NONE"
             /\ proc[q].pc \in Owing =>
                  resv[proc[q].slot].used + CallCost <= SlotCost \/ proc[q].slot \in raced
             /\ proc[q].pc \in {"start"} \cup Running \/ proc[q].pc \in Owing =>
                  Inside(q) /\ proc[q].slot \in Slot
  BY DEF CallsArePaid, Typed, Inside, Running, Owing
<1>3. \A s \in Slot : /\ resv[s].used \in Nat
                      /\ resv[s].status = "NONE" => resv[s].used = 0
                      /\ s \notin raced => resv[s].used <= SlotCost
  BY <1>1 DEF CallsArePaid, Reservation
<1>4. CASE UNCHANGED resv
  <2>1. /\ proc'[r].pc \in {"start"} \cup Running => resv[proc'[r].slot].status # "NONE"
        /\ proc'[r].pc \in Owing =>
             resv[proc'[r].slot].used + CallCost <= SlotCost \/ proc'[r].slot \in raced
    <3>1. CASE Walked(r)
      <4>1. /\ proc'[r].slot = proc[r].slot /\ proc[r].slot \in Slot
            /\ proc'[r].pc \in Running => proc[r].pc \in Running
            /\ proc'[r].pc = "start" => resv[proc[r].slot].status # "NONE"
            /\ proc'[r].pc \in Owing => \/ proc[r].pc \in Owing
                                        \/ CallCost <= SlotCost - resv[proc[r].slot].used
        BY <3>1 DEF Walked, SameSlot, Typed, Inside
      <4>2. resv[proc[r].slot].used \in Nat
        BY <1>3, <4>1
      <4> QED
        BY <1>1, <1>2, <4>1, <4>2
    <3>2. CASE ~Walked(r)
      <4>1. \/ proc'[r].pc \notin {"start"} \cup Running \cup Owing
            \/ proc'[r].slot = proc[r].slot /\ proc'[r].pc \notin Owing /\ proc[r].pc \in {"start"} \cup Running
        <5>1. (~Inserted(r) /\ ~Charged(r) /\ ~Settled(r)) \/ proc[r].pc \in Running \/ proc'[r].pc = "start"
          BY DEF Charged, Settled, Inserted, Running
        <5>2. ~Inserted(r)
          <6>1. ASSUME Inserted(r) PROVE FALSE
            <7>1. proc[r].slot \in Slot /\ resv'[proc[r].slot].status = "RESERVED"
              BY <1>1, <6>1 DEF Inserted, Typed, Reservation
            <7> QED
              BY <1>4, <6>1, <7>1 DEF Inserted
          <6> QED
            BY <6>1
        <5> QED
          BY <3>2, <5>2 DEF Move, Picked, Left, Idle, Acquired, Acquire, Rejected, Started, Added,
             Charged, Settled, Updated, SameSlot, Running, Owing
      <4> QED
        BY <1>2, <4>1
    <3> QED
      BY <3>1, <3>2
  <2>2. ASSUME NEW q \in Runner
        PROVE  /\ proc'[q].pc \in {"start"} \cup Running => resv'[proc'[q].slot].status # "NONE"
               /\ proc'[q].pc \in Owing =>
                    resv'[proc'[q].slot].used + CallCost <= SlotCost \/ proc'[q].slot \in raced'
    BY <1>1, <1>2, <1>4, <2>1
  <2> QED
    BY <1>1, <1>3, <1>4, <2>2 DEF CallsArePaid
<1>5. ASSUME Inserted(r) \/ Charged(r) \/ Settled(r) PROVE CallsArePaid'
  <2> DEFINE s == proc[r].slot
  <2>1. /\ s \in Slot /\ Inside(r) /\ proc'[r].slot = s /\ raced' = raced
        /\ proc'[r].pc \notin Owing /\ proc'[r].pc # "idle"
    BY <1>5 DEF Inserted, Charged, Settled, SameSlot, Typed, Inside, Owing
  <2>2. \A t \in Slot : t # s => resv'[t] = resv[t]
    BY <1>1, <1>5, <2>1 DEF Inserted, Charged, Settled
  <2>3. /\ resv'[s].status # "NONE"
        /\ resv'[s].used \in Nat
        /\ s \notin raced => resv'[s].used <= SlotCost
    <3>1. CASE Inserted(r) \/ Settled(r)
      BY <1>1, <1>3, <2>1, <3>1 DEF Inserted, Settled, Reservation
    <3>2. CASE Charged(r)
      <4>1. PICK cost \in 0..CallCost : resv' = [resv EXCEPT ![s].used = @ + cost]
        BY <3>2 DEF Charged
      <4>2. proc[r].pc \in {"start"} \cup Running /\ proc[r].pc \in Owing
        BY <3>2 DEF Charged, Running, Owing
      <4>3. resv'[s].status = resv[s].status /\ resv'[s].used = resv[s].used + cost /\ cost \in Nat /\ cost <= CallCost
        BY <1>1, <2>1, <4>1 DEF Reservation
      <4>4. s \notin raced => resv[s].used + CallCost <= SlotCost
        BY <1>2, <4>2
      <4>5. resv[s].status # "NONE" /\ resv[s].used \in Nat
        BY <1>2, <1>3, <2>1, <4>2
      <4> QED
        BY <1>1, <4>3, <4>4, <4>5
    <3> QED
      BY <1>5, <3>1, <3>2
  <2>4. ASSUME NEW q \in Runner, q # r
        PROVE  /\ proc'[q].pc \in {"start"} \cup Running => resv'[proc'[q].slot].status # "NONE"
               /\ proc'[q].pc \in Owing =>
                    resv'[proc'[q].slot].used + CallCost <= SlotCost \/ proc'[q].slot \in raced'
    <3>1. proc'[q] = proc[q]
      BY <1>1, <2>4
    <3>2. CASE proc[q].slot = s
      <4>1. Inside(q) => s \in raced
        BY <2>1, <2>4, <3>2 DEF RunsOnce
      <4> QED
        BY <1>2, <2>1, <2>3, <3>1, <3>2, <4>1
    <3>3. CASE proc[q].slot # s
      BY <1>2, <2>1, <2>2, <3>1, <3>3
    <3> QED
      BY <3>2, <3>3
  <2> HIDE DEF s
  <2>5. /\ \A t \in Slot : resv'[t].status = "NONE" => resv'[t].used = 0
        /\ \A t \in Slot \ raced' : resv'[t].used <= SlotCost
    BY <1>3, <2>1, <2>2, <2>3
  <2>6. ASSUME NEW q \in Runner
        PROVE  /\ proc'[q].pc \in {"start"} \cup Running => resv'[proc'[q].slot].status # "NONE"
               /\ proc'[q].pc \in Owing =>
                    resv'[proc'[q].slot].used + CallCost <= SlotCost \/ proc'[q].slot \in raced'
    BY <2>1, <2>3, <2>4
  <2> QED
    BY <2>5, <2>6 DEF CallsArePaid
<1> QED
  BY <1>4, <1>5 DEF Move, Picked, Left, Acquired, Acquire, Walked, Rejected, Started, Added, Updated

-----------------------------------------------------------------------------
(* The invariant holds.                                                       *)

LEMMA LaterDay ==
  ASSUME NEW d \in Nat, NEW e \in Nat, e >= d, NEW m \in Nat, NEW t \in Int, e - m <= t
  PROVE  d - m <= t
OBVIOUS

(* The clock alone, or nothing that the invariant speaks of.                  *)
LEMMA TickKeeps == ASSUME CycleInv, Tick PROVE CycleInv'
<1>1. Typed'
  BY TypesKept DEF CycleInv, Next
<1>2. /\ now' = now + 1 /\ now \in Nat
      /\ UNCHANGED <<rows, lease, resv, proc, raced>>
      /\ ~outlived' => ~outlived
  BY DEF Tick, CycleInv, Typed
<1>0. Today' >= Today /\ Today \in Nat /\ Today' \in Nat
  <2>1. now + 1 \in Nat
    BY <1>2
  <2>2. now \div 3 \in Nat /\ (now + 1) \div 3 \in Nat /\ (now + 1) \div 3 >= now \div 3
    BY <1>2, <2>1, DayTurns
  <2> QED
    BY <1>2, <2>2 DEF Today
<1>3. RowsOwned' /\ RunsOnce' /\ CallsArePaid'
  BY <1>2 DEF CycleInv, RowsOwned, RunsOnce, CallsArePaid, Inside, EverCompleted, RowsOf
<1>4. OldestFirst'
  <2>1. Slot \subseteq Int /\ MaxCatchUp \in Nat
    BY SlotIsFinite
  <2>2. ASSUME NEW t \in Slot, Today' - MaxCatchUp <= t PROVE Today - MaxCatchUp <= t
    <3>1. t \in Int /\ MaxCatchUp \in Nat
      BY <2>1
    <3> QED
      BY <1>0, <2>2, <3>1, LaterDay
  <2>3. \A t \in Slot : (EverCompleted(t)' <=> EverCompleted(t)) /\ (Touched(t)' <=> Touched(t))
    BY <1>2 DEF EverCompleted, Touched, Pending, RowsOf
  <2> QED
    BY <2>2, <2>3 DEF CycleInv, OldestFirst
<1>5. LeasesHeld'
  <2> SUFFICES ASSUME ~outlived', NEW q \in Runner, Inside(q)
               PROVE  /\ lease[proc[q].slot].held /\ lease[proc[q].slot].owner = q
                      /\ now' <= lease[proc[q].slot].until
                      /\ lease[proc[q].slot].until <= now' + LeaseTtl
    BY <1>2 DEF LeasesHeld, Inside
  <2>1. ~(lease[proc[q].slot].until < now')
    BY DEF Tick
  <2>2. /\ lease[proc[q].slot].held /\ lease[proc[q].slot].owner = q
        /\ lease[proc[q].slot].until <= now + LeaseTtl
    BY <1>2 DEF CycleInv, LeasesHeld
  <2>3. lease[proc[q].slot].until \in Int /\ LeaseTtl \in Nat
    BY SlotIsFinite DEF CycleInv, Typed, LeaseRecord, Inside
  <2> QED
    BY <1>2, <2>1, <2>2, <2>3
<1> QED
  BY <1>1, <1>3, <1>4, <1>5 DEF CycleInv

LEMMA RestKeeps == ASSUME CycleInv, Resting, Typed' PROVE CycleInv'
<1>1. UNCHANGED <<now, outlived, rows, lease, resv, raced, proc>>
  BY DEF Resting
<1>2. RowsOwned' /\ RunsOnce' /\ CallsArePaid' /\ LeasesHeld'
  BY <1>1 DEF CycleInv, RowsOwned, RunsOnce, CallsArePaid, LeasesHeld, Inside, EverCompleted, RowsOf
<1>3. OldestFirst'
  BY <1>1 DEF CycleInv, OldestFirst, Touched, Pending, EverCompleted, RowsOf, Today
<1> QED
  BY <1>2, <1>3 DEF CycleInv

LEMMA StepsAreMoves ==
  ASSUME Typed, [Next]_vars
  PROVE  Tick \/ Resting \/ \E r \in Runner : Invocation(r) /\ Move(r)
<1>1. ASSUME NEW o \in Operator, OperatorStep(o) PROVE Resting
  BY <1>1 DEF OperatorStep, Resting
<1>2. CASE UNCHANGED vars
  BY <1>2 DEF vars, cycleVars, Resting
<1> QED
  BY <1>1, <1>2, InvocationMoves DEF Next

LEMMA StepKeeps == ASSUME CycleInv, [Next]_vars PROVE CycleInv'
<1>1. Typed'
  BY TypesKept DEF CycleInv
<1>2. ASSUME NEW r \in Runner, Move(r) PROVE CycleInv'
  BY <1>1, <1>2, MoveKeepsOwnRows, MoveKeepsOrder, MoveKeepsLeases, MoveKeepsRunsOnce, MovePaysCalls
  DEF CycleInv
<1> QED
  BY <1>1, <1>2, StepsAreMoves, TickKeeps, RestKeeps DEF CycleInv

LEMMA InitHolds == ASSUME Init PROVE CycleInv
<1>1. /\ rows = <<>> /\ raced = {} /\ \A r \in Runner : proc[r] = Idle
      /\ \A s \in Slot : resv[s] = [status |-> "NONE", used |-> 0]
  BY DEF Init
<1>2. \A r \in Runner : proc[r].pc = "idle" /\ proc[r].row = 0
  BY <1>1 DEF Idle
<1>3. \A s \in Slot : RowsOf(s) = {}
  BY <1>1 DEF RowsOf
<1>4. RowsOwned
  BY <1>1, <1>2 DEF RowsOwned, Running
<1>5. OldestFirst
  BY <1>1, <1>2, <1>3 DEF OldestFirst, Touched, Pending
<1>6. LeasesHeld
  BY <1>2 DEF LeasesHeld, Inside
<1>7. RunsOnce
  BY <1>2, <1>3 DEF RunsOnce, Inside, Active, Running
<1>8. CallsArePaid
  BY <1>1, <1>2, SlotIsFinite DEF CallsArePaid, Running, Owing
<1> QED
  BY <1>4, <1>5, <1>6, <1>7, <1>8, InitTyped DEF CycleInv

LEMMA CycleInvHolds == Spec => []CycleInv
BY InitHolds, StepKeeps, PTL DEF Spec

(* A slot is worked on by one invocation at a time unless one has outlived    *)
(* its lease, and by none that knows it completed (run_due_shadow_cycle,      *)
(* acquire_lease), for any runners, calendar, catch-up window and lease.      *)
THEOREM SlotAlwaysWorkedOnce == Spec => []SlotWorkedOnce
<1>1. CycleInv => OneInvocationPerSlot
  BY DEF CycleInv, LeasesHeld, OneInvocationPerSlot
<1>2. CycleInv => SequentialRunsOnce
  <2> SUFFICES ASSUME CycleInv, NEW r \in Runner, Inside(r), proc[r].known PROVE proc[r].slot \in raced
    BY DEF SequentialRunsOnce
  <2>1. proc[r].pc # "idle"
    BY DEF Inside
  <2> QED
    BY <2>1 DEF CycleInv, RunsOnce
<1> QED
  BY <1>1, <1>2, CycleInvHolds, PTL DEF SlotWorkedOnce

(* An invocation that takes a slot finds every older one of the catch-up      *)
(* window completed (resolve_due_status), for any calendar and window.        *)
THEOREM OldestServedFirst == Spec => ServesOldestFirst
<1>1. ASSUME CycleInv, [Next]_vars, NEW r \in Runner, proc[r].pc = "idle", proc'[r].pc = "acquire"
      PROVE  \A s \in Window \cap TradingDay : s < proc'[r].slot => EverCompleted(s)
  <2>1. ~Tick /\ ~Resting
    BY <1>1 DEF Tick, Resting
  <2>2. PICK q \in Runner : Move(q)
    BY <1>1, <2>1, StepsAreMoves DEF CycleInv
  <2>3. q = r
    BY <1>1, <2>2 DEF Move, Others
  <2>4. Picked(r)
    BY <1>1, <2>2, <2>3 DEF Move, Picked, Left, Idle, Acquired, Acquire, Walked, Rejected, Started, Inserted,
       Charged, Settled, Updated, Inside
  <2> QED
    BY <1>1, <2>4, OldestIsPicked DEF CycleInv
<1>2. CycleInv /\ [Next]_vars =>
        [\A r \in Runner : proc[r].pc = "idle" /\ proc'[r].pc = "acquire" =>
           \A s \in Window \cap TradingDay : s < proc'[r].slot => EverCompleted(s)]_vars
  BY <1>1
<1> QED
  BY <1>2, CycleInvHolds, PTL DEF ServesOldestFirst, Spec

-----------------------------------------------------------------------------
(* The pause.                                                                 *)

LEMMA TransitionIs ==
  /\ DOMAIN Transition = {"request_pause", "automatic_pause", "resume", "kill", "force_clear_kill"}
  /\ \A kind \in DOMAIN Transition : Transition[kind].to \in PauseState
  /\ \A kind \in DOMAIN Transition :
       Transition[kind].to = "ACTIVE" => kind \in {"resume", "force_clear_kill"}
  /\ Transition["automatic_pause"].to = "PAUSED_AUTO"
BY DEF Transition, PauseState, Paused

PauseInv == PauseTypeOK /\ PauseStands

LEMMA AskKeeps ==
  ASSUME PauseTypeOK, NEW p \in Operator \cup Runner, NEW kind \in DOMAIN Transition, Ask(p, kind)
  PROVE  /\ PauseTypeOK' /\ pause' = pause /\ asked'[p] = kind
         /\ \A q \in Operator \cup Runner : q # p => asked'[q] = asked[q]
BY DEF PauseTypeOK, Ask

LEMMA WriteKeeps ==
  ASSUME PauseTypeOK, NEW p \in Operator \cup Runner, Write(p)
  PROVE  /\ PauseTypeOK' /\ asked'[p] = "none" /\ pause' = Transition[asked[p]].to
         /\ asked[p] \in DOMAIN Transition
         /\ \A q \in Operator \cup Runner : q # p => asked'[q] = asked[q]
<1>1. asked[p] \in DOMAIN Transition /\ pause' = Transition[asked[p]].to
  BY DEF PauseTypeOK, Write
<1>2. pause' \in PauseState
  BY <1>1, TransitionIs
<1> QED
  BY <1>1, <1>2 DEF PauseTypeOK, Write

LEMMA OperatorKeepsPause ==
  ASSUME PauseInv, NEW o \in Operator, OperatorStep(o) PROVE PauseInv'
<1>1. o \in Operator \cup Runner /\ o \notin Runner /\ proc' = proc
  BY PauseAssumption DEF OperatorStep
<1>2. ASSUME NEW kind \in Command, Ask(o, kind) PROVE PauseInv'
  <2>1. kind \in DOMAIN Transition
    BY DEF Command
  <2>2. PauseTypeOK' /\ pause' = pause /\ \A r \in Runner : asked'[r] = asked[r]
    BY <1>1, <1>2, <2>1, AskKeeps DEF PauseInv
  <2>3. distrust' \subseteq distrust
    BY DEF OperatorStep
  <2> QED
    BY <1>1, <2>2, <2>3 DEF PauseInv, PauseStands
<1>3. CASE Write(o)
  <2>1. PauseTypeOK' /\ \A r \in Runner : asked'[r] = asked[r]
    BY <1>1, <1>3, WriteKeeps DEF PauseInv
  <2>2. pause' = "ACTIVE" => distrust' = {}
    <3>1. asked[o] \in DOMAIN Transition /\ pause' = Transition[asked[o]].to
      BY <1>1, <1>3, WriteKeeps DEF PauseInv
    <3>2. pause' = "ACTIVE" => Reopens(o)
      BY <3>1, TransitionIs DEF Reopens
    <3> QED
      BY <3>2 DEF OperatorStep
  <2>3. distrust' \subseteq distrust
    BY DEF OperatorStep
  <2> QED
    BY <1>1, <2>1, <2>2, <2>3 DEF PauseInv, PauseStands
<1> QED
  BY <1>2, <1>3 DEF OperatorStep, Operate

LEMMA InvocationKeepsPause ==
  ASSUME Typed, PauseInv, NEW r \in Runner, Invocation(r) PROVE PauseInv'
<1> DEFINE Halting == {"trip", "tripWrite"}
           Writing == {"tripWrite", "healthWrite"}
<1>1. /\ proc \in [Runner -> Process] /\ r \in Operator \cup Runner
      /\ distrust \subseteq Runner
  BY DEF Typed, PauseInv, PauseStands
<1>2. ASSUME UNCHANGED <<pause, asked>>, \A q \in Runner : q # r => proc'[q] = proc[q],
             proc'[r].pc \notin Writing,
             \/ distrust' \subseteq distrust /\ proc[r].pc \notin Halting
             \/ distrust' \subseteq distrust \cup {r} /\ (pause # "ACTIVE" \/ proc'[r].pc \in Halting)
      PROVE  PauseInv'
  BY <1>1, <1>2 DEF PauseInv, PauseStands, PauseTypeOK
<1>3. CASE Invoke(r)
  <2>1. UNCHANGED proc \/ (proc[r].pc = "idle" /\ proc'[r].pc = "acquire")
    BY <1>1, <1>3 DEF Invoke, Idle
  <2>2. /\ UNCHANGED <<pause, asked, distrust>> /\ proc[r].pc = "idle"
        /\ \A q \in Runner : q # r => proc'[q] = proc[q]
    BY <1>1, <1>3 DEF Invoke, pauseVars
  <2> QED
    BY <1>2, <2>1, <2>2
<1>4. CASE Acquire(r) \/ LeaseHeld(r) \/ Reserve(r) \/ Reject(r) \/ InsertReservation(r)
  BY <1>1, <1>2, <1>4 DEF Acquire, LeaseHeld, Reserve, Reject, InsertReservation, Goto, Idle, pauseVars,
     Process
<1>5. CASE StartRun(r) \/ BeforeAttempt(r) \/ AfterAttempt(r) \/ EndCycle(r)
  BY <1>1, <1>2, <1>5 DEF StartRun, BeforeAttempt, AfterAttempt, EndCycle, Goto, pauseVars, Process
<1>6. CASE Settle(r) \/ UpdateRun(r) \/ Release(r)
  BY <1>1, <1>2, <1>6 DEF Settle, UpdateRun, Release, Goto, Idle, pauseVars, Process
<1>7. CASE StructuralFailure(r)
  BY <1>1, <1>2, <1>7 DEF StructuralFailure, Goto, pauseVars, Process
<1>8. CASE Raise(r)
  <2>1. proc[r].pc \notin Halting
    BY <1>8 DEF Raise, PauseInv, PauseStands
  <2> QED
    BY <1>1, <1>2, <1>8, <2>1 DEF Raise, Goto, pauseVars, Process
<1>9. CASE Crash(r)
  <2>1. /\ pause' = pause /\ proc'[r].pc = "idle" /\ asked'[r] = "none"
        /\ distrust' = distrust \ {r}
        /\ \A q \in Runner : q # r => proc'[q] = proc[q] /\ asked'[q] = asked[q]
    BY <1>1, <1>9 DEF Crash, Idle, PauseInv, PauseTypeOK
  <2>2. PauseTypeOK'
    BY <1>9 DEF Crash, PauseInv, PauseTypeOK
  <2> QED
    BY <2>1, <2>2 DEF PauseInv, PauseStands
<1>10. CASE Trip(r)
  <2>1. /\ distrust' = distrust /\ \A q \in Runner : q # r => proc'[q] = proc[q]
    BY <1>1, <1>10 DEF Trip, Goto
  <2>2. CASE Ask(r, "automatic_pause")
    <3>1. /\ proc'[r].pc \in Writing /\ (proc[r].pc \in Halting => proc'[r].pc \in Halting)
      <4>1. \/ proc[r].pc = "trip" /\ Goto(r, "tripWrite")
            \/ proc[r].pc = "trip" /\ pause = "KILLED" /\ UNCHANGED pauseVars
            \/ proc[r].pc = "health" /\ Goto(r, "healthWrite")
            \/ proc[r].pc = "health" /\ UNCHANGED pauseVars
        BY <1>10 DEF Trip
      <4>2. asked' # asked
        BY <1>1, <2>2 DEF Ask, PauseInv, PauseTypeOK
      <4> QED
        BY <1>1, <4>1, <4>2 DEF Goto, pauseVars, Process
    <3>2. /\ PauseTypeOK' /\ pause' = pause /\ asked'[r] = "automatic_pause"
          /\ \A q \in Runner : q # r => asked'[q] = asked[q]
      BY <1>1, <2>2, TransitionIs, AskKeeps DEF PauseInv
    <3> QED
      BY <2>1, <3>1, <3>2 DEF PauseInv, PauseStands
  <2>3. CASE ~Ask(r, "automatic_pause")
    <3>1. /\ UNCHANGED <<pause, asked>> /\ proc'[r].pc \in {"settle", "release"}
          /\ proc[r].pc \in Halting => pause = "KILLED"
      BY <1>1, <1>10, <2>3 DEF Trip, Goto, pauseVars, Process
    <3> QED
      BY <1>2, <2>1, <3>1
  <2> QED
    BY <2>2, <2>3
<1>11. CASE TripWrite(r)
  <2>1. /\ asked[r] = "automatic_pause" /\ distrust' = distrust
        /\ proc'[r].pc \in {"charge", "release"} /\ \A q \in Runner : q # r => proc'[q] = proc[q]
    BY <1>1, <1>11 DEF TripWrite, Goto, PauseInv, PauseStands, Process
  <2>2. /\ PauseTypeOK' /\ asked'[r] = "none" /\ pause' = "PAUSED_AUTO"
        /\ \A q \in Runner : q # r => asked'[q] = asked[q]
    BY <1>1, <1>11, <2>1, WriteKeeps, TransitionIs DEF TripWrite, PauseInv
  <2> QED
    BY <2>1, <2>2 DEF PauseInv, PauseStands
<1> QED
  BY <1>3, <1>4, <1>5, <1>6, <1>7, <1>8, <1>9, <1>10, <1>11 DEF Invocation

LEMMA PauseInvHolds == Spec => [](Typed /\ PauseInv)
<1>1. Init => Typed /\ PauseInv
  <2>1. ASSUME Init PROVE PauseInv
    BY <2>1 DEF Init, PauseInit, PauseInv, PauseTypeOK, PauseStands, PauseState, Idle
  <2> QED
    BY <2>1, InitTyped
<1>2. Typed /\ PauseInv /\ [Next]_vars => (Typed /\ PauseInv)'
  <2> SUFFICES ASSUME Typed, PauseInv, [Next]_vars PROVE PauseInv'
    BY TypesKept
  <2>1. CASE Tick
    BY <2>1 DEF Tick, pauseVars, PauseInv, PauseTypeOK, PauseStands
  <2>2. CASE UNCHANGED vars
    BY <2>2 DEF vars, pauseVars, cycleVars, PauseInv, PauseTypeOK, PauseStands
  <2> QED
    BY <2>1, <2>2, OperatorKeepsPause, InvocationKeepsPause DEF Next
<1> QED
  BY <1>1, <1>2, PTL DEF Spec

(* A runner whose call failed structurally makes no further call until an     *)
(* operator resumes or clears the kill (after_attempt, before_attempt,        *)
(* request_pause), for any runners, operators and order of their steps.       *)
THEOREM StructuralFailureAlwaysStops == Spec => StructuralFailureStops
<1>1. ASSUME Typed, PauseInv, [Next]_vars, NEW r \in Runner, proc[r].pc = "work", proc'[r].pc = "calling"
      PROVE  r \notin distrust
  <2>1. PICK q \in Runner : Invocation(q)
    BY <1>1 DEF Next, Tick, OperatorStep, vars, cycleVars
  <2>2. CASE pause = "ACTIVE"
    BY <1>1, <2>2 DEF PauseInv, PauseStands
  <2>3. CASE pause # "ACTIVE"
    <3>1. proc \in [Runner -> Process]
      BY <1>1 DEF Typed
    <3>2. ~Invoke(q)
      BY <1>1, <3>1 DEF Invoke, Idle
    <3>3. ~(Acquire(q) \/ LeaseHeld(q) \/ Reserve(q) \/ Reject(q) \/ InsertReservation(q) \/ StartRun(q))
      BY <1>1, <3>1 DEF Acquire, LeaseHeld, Reserve, Reject, InsertReservation, StartRun, Goto, Idle, Process
    <3>4. ~(BeforeAttempt(q) \/ AfterAttempt(q) \/ StructuralFailure(q) \/ Trip(q) \/ TripWrite(q))
      BY <1>1, <2>3, <3>1 DEF BeforeAttempt, AfterAttempt, StructuralFailure, Trip, TripWrite, Goto, Process
    <3>5. ~(EndCycle(q) \/ Settle(q) \/ UpdateRun(q) \/ Release(q) \/ Raise(q) \/ Crash(q))
      BY <1>1, <3>1 DEF EndCycle, Settle, UpdateRun, Release, Raise, Crash, Goto, Idle, Process
    <3> QED
      BY <2>1, <3>2, <3>3, <3>4, <3>5 DEF Invocation
  <2> QED
    BY <2>2, <2>3
<1>2. Typed /\ PauseInv /\ [Next]_vars =>
        [\A r \in Runner : proc[r].pc = "work" /\ proc'[r].pc = "calling" => r \notin distrust]_vars
  BY <1>1
<1> QED
  BY <1>2, PauseInvHolds, PTL DEF StructuralFailureStops, Spec

-----------------------------------------------------------------------------
(* The cap.                                                                   *)

\* The slots that have a reservation, and what it takes to insert one.
Reserved == {s \in Slot : resv[s].status = "RESERVED"}

LEMMA CommitmentIs ==
  ASSUME Typed, NEW s \in Slot
  PROVE  /\ Commitment[s] \in Nat /\ resv[s].used \in Nat
         /\ resv[s].status \in {"NONE", "RESERVED", "SETTLED"}
         /\ resv[s].status = "RESERVED" => Commitment[s] = SlotCost
         /\ resv[s].status # "RESERVED" => Commitment[s] = resv[s].used
BY SlotIsFinite DEF Commitment, Typed, Reservation

LEMMA CommittedTyped == ASSUME Typed PROVE Committed \in Int
<1>1. \A s \in Slot : Commitment[s] \in Int
  BY CommitmentIs
<1> QED
  BY <1>1, SlotIsFinite, SumType DEF Committed

(* What is committed is no more than what is used and what is still held.     *)
LEMMA CommittedIsCovered ==
  ASSUME Typed
  PROVE  Used \in Int /\ Live \in Int /\ Committed <= Used + Live
<1> DEFINE used == [s \in Slot |-> resv[s].used]
<1>1. IsFiniteSet(Slot) /\ Reserved \in SUBSET Slot /\ SlotCost \in Int
  BY SlotIsFinite DEF Reserved
<1>2. \A s \in Slot : Commitment[s] \in Int /\ used[s] \in Int
  BY CommitmentIs
<1>3. \A s \in Slot \ Reserved : Commitment[s] <= used[s]
  BY CommitmentIs DEF Reserved
<1>4. ASSUME NEW s \in Reserved PROVE Commitment[s] <= used[s] + SlotCost
  <2>1. s \in Slot /\ Commitment[s] = SlotCost /\ used[s] \in Nat
    BY <1>4, CommitmentIs DEF Reserved
  <2> QED
    BY <1>1, <2>1
<1> HIDE DEF used
<1>5. SumFunctionOnSet(Commitment, Slot) <= SumFunctionOnSet(used, Slot) + SlotCost * Cardinality(Reserved)
  BY <1>1, <1>2, <1>3, <1>4, SumWithMarked
<1>6. SumFunctionOnSet(used, Slot) \in Int /\ SlotCost * Cardinality(Reserved) \in Int
  <2>1. Cardinality(Reserved) \in Nat
    BY <1>1, FS_Subset, FS_CardinalityType
  <2>2. SumFunctionOnSet(used, Slot) \in Int
    BY <1>1, <1>2, SumType
  <2> QED
    BY <1>1, <2>1, <2>2
<1> QED
  BY <1>5, <1>6 DEF Committed, Used, Live, used, Reserved

LEMMA CommittedChanges ==
  ASSUME Typed, Typed', NEW x \in Slot, \A s \in Slot : s # x => resv'[s] = resv[s]
  PROVE  Committed' = Committed + Commitment'[x] - Commitment[x]
<1>1. \A s \in Slot : Commitment[s] \in Int
  BY CommitmentIs
<1>2. \A s \in Slot : Commitment'[s] \in Int
  BY SlotIsFinite DEF Commitment, Typed, Reservation
<1>3. \A s \in Slot : s # x => Commitment'[s] = Commitment[s]
  BY DEF Commitment
<1> QED
  BY <1>1, <1>2, <1>3, SlotIsFinite, SumChangesBy DEF Committed

(* While calm, no two are at work, and none on a slot that was completed.     *)
LEMMA OneIsActive ==
  ASSUME Typed, RunsOnce, TakenInOrder, raced = {},
         NEW q \in Runner, proc[q].pc \in Active, NEW r \in Runner, proc[r].pc \in Active
  PROVE  q = r /\ ~EverCompleted(proc[r].slot)
<1>1. /\ Inside(q) /\ Inside(r) /\ proc[q].pc # "idle" /\ proc[r].pc # "idle"
      /\ proc[q].slot \in Slot /\ proc[r].slot \in Slot
  BY DEF Active, Running, Inside, Typed
<1>2. ~EverCompleted(proc[q].slot) /\ ~EverCompleted(proc[r].slot)
  BY DEF RunsOnce
<1>3. proc[q].slot = proc[r].slot => q = r
  BY <1>1 DEF RunsOnce
<1>4. Pending(q, proc[q].slot) /\ Pending(r, proc[r].slot)
  BY <1>1 DEF Pending
<1>5. ~(proc[q].slot < proc[r].slot) /\ ~(proc[r].slot < proc[q].slot)
  BY <1>1, <1>2, <1>4 DEF TakenInOrder
<1>6. proc[q].slot \in Int /\ proc[r].slot \in Int
  BY <1>1, SlotIsFinite
<1> QED
  BY <1>2, <1>3, <1>5, <1>6

(* A slot settled before is closed to whoever is at work on another.          *)
LEMMA OthersAreClosed ==
  ASSUME Typed, RunsOnce, TakenInOrder, raced = {}, NEW r \in Runner, proc[r].pc \in Active,
         NEW s \in Slot, resv[s].status # "NONE", s # proc[r].slot
  PROVE  Closed(s)
<1>1. proc[r].pc # "idle" /\ proc[r].slot \in Slot
  BY DEF Active, Running, Typed
<1>2. ~EverCompleted(proc[r].slot)
  BY OneIsActive
<1>3. s \in Int /\ proc[r].slot \in Int
  BY <1>1, SlotIsFinite
<1>4. s < proc[r].slot
  BY <1>1, <1>2, <1>3 DEF TakenInOrder
<1>5. EverCompleted(s) \/ Past(s)
  BY <1>1, <1>4 DEF TakenInOrder
<1>6. ASSUME NEW q \in Runner, proc[q].pc \in Active PROVE proc[q].slot # s
  BY <1>6, OneIsActive
<1> QED
  BY <1>5, <1>6 DEF Closed

LEMMA DayOfMove == ASSUME NEW r \in Runner, Move(r)
  PROVE  /\ \A s : Past(s)' <=> Past(s)
         /\ BeforeIntended' <=> BeforeIntended
         /\ Calm' => Calm
<1>1. now' = now /\ outlived' = outlived
  BY DEF Move
<1>2. raced \subseteq raced'
  BY DEF Move, Acquired, Acquire, Picked, Left, Walked, Rejected, Started,
     Added, Inserted, Charged, Settled, Updated
<1> QED
  BY <1>1, <1>2 DEF Past, Today, BeforeIntended, Calm

LEMMA MoveKeepsDays ==
  ASSUME Typed, OldestFirst, LeasesHeld, SlotsAreTodays, NEW r \in Runner, Move(r), Calm'
  PROVE  SlotsAreTodays'
<1>1. /\ \A q \in Runner : q # r => proc'[q] = proc[q]
      /\ lease \in [Slot -> LeaseRecord] /\ ~outlived /\ raced' = {} /\ now' = now /\ Today' = Today
  BY DayOfMove DEF Move, Others, Typed, Calm, Today
<1>2. ASSUME NEW q \in Runner, proc'[q].pc # "idle", proc[q].pc # "idle"
      PROVE  ~Past(proc[q].slot)' \/ (BeforeIntended' /\ Inside(q)' /\ lease'[proc'[q].slot].until <= now')
  <2>1. proc'[q].slot = proc[q].slot /\ (Inside(q) => Inside(q)')
    BY <1>1, <1>2 DEF Move, Picked, Left, Idle, Acquired, Walked, Rejected, Started,
       Added, Inserted, Charged, Settled, Updated, SameSlot, Inside
  <2>2. CASE ~Past(proc[q].slot)
    BY <1>1, <2>1, <2>2 DEF Past
  <2>3. CASE Past(proc[q].slot)
    <3>1. /\ BeforeIntended /\ Inside(q) /\ lease[proc[q].slot].until <= now /\ proc[q].slot \in Slot
          /\ lease[proc[q].slot].owner = q
      BY <1>1, <1>2, <2>3 DEF SlotsAreTodays, LeasesHeld, Typed
    <3>2. lease'[proc[q].slot] = lease[proc[q].slot]
      <4>1. CASE Acquired(r)
        <5>1. proc[r].pc = "acquire" /\ proc[q].slot # proc[r].slot
          BY <1>1, <3>1, <4>1 DEF Acquired, Acquire
        <5> QED
          BY <1>1, <3>1, <4>1, <5>1 DEF Acquired, Acquire
      <4>2. CASE Left(r)
        <5>1. q # r
          BY <1>2, <4>2 DEF Left, Idle
        <5> QED
          BY <1>1, <3>1, <4>2, <5>1 DEF Left
      <4> QED
        BY <4>1, <4>2 DEF Move, Picked, Walked, Rejected, Started, Added, Inserted, Charged, Settled, Updated
    <3> QED
      BY <1>1, <2>1, <3>1, <3>2, DayOfMove
  <2> QED
    BY <2>2, <2>3
<1>3. ASSUME NEW q \in Runner, proc'[q].pc # "idle", proc[q].pc = "idle" PROVE ~Past(proc[q].slot)'
  <2>1. q = r /\ Picked(r)
    BY <1>1, <1>3, StagesOfMoves DEF Left, Idle
  <2> QED
    BY <1>1, <2>1, OldestIsPicked DEF Past
<1> QED
  BY <1>2, <1>3 DEF SlotsAreTodays

LEMMA MoveKeepsTaken ==
  ASSUME Typed, RowsOwned, OldestFirst, RunsOnce, CallsArePaid, SlotsAreTodays, TakenInOrder,
         NEW r \in Runner, Move(r), Calm'
  PROVE  TakenInOrder'
<1>1. /\ \A q \in Runner : q # r => proc'[q] = proc[q]
      /\ Today' = Today /\ Slot \subseteq Int
      /\ raced = {} /\ RowsKept(r)
  BY DayOfMove, MoveKeepsRows, SlotIsFinite DEF Move, Others, Calm, Today
<1>2. /\ \A t \in Slot : EverCompleted(t) => EverCompleted(t)'
      /\ \A t \in Slot : Past(t) => Past(t)'
  BY <1>1 DEF RowsKept, Past
<1>3. \A q \in Runner : proc[q].pc # "idle" => proc[q].slot \in Slot /\ Touched(proc[q].slot)
  BY DEF Typed, Touched, Pending
<1>4. ASSUME NEW q \in Runner, NEW s \in Slot, proc'[q].pc # "idle", ~(Picked(r) /\ q = r)
      PROVE  proc[q].pc # "idle" /\ proc'[q].slot = proc[q].slot /\ proc[q].slot \in Slot
  <2>1. proc[q].pc # "idle" /\ proc'[q].slot = proc[q].slot
    BY <1>1, <1>4 DEF Move, Picked, Left, Idle, Acquired, Acquire, Walked, Rejected, Started,
       Added, Inserted, Charged, Settled, Updated, SameSlot, Inside
  <2> QED
    BY <1>3, <2>1
<1>5. CASE Picked(r)
  <2> DEFINE p == proc'[r].slot
  <2>1. /\ p \in Slot \cap TradingDay /\ ~Past(p) /\ InWindow
        /\ \A t \in Slot \cap TradingDay : t < p /\ ~Past(t) => EverCompleted(t)
        /\ ~Completed(p) /\ UNCHANGED <<rows, resv>>
    BY <1>5, OldestIsPicked DEF Picked
  <2>2. ~EverCompleted(p)
    BY <1>1, <2>1, CompletedMeans DEF RunsOnce, EverCompleted
  <2> HIDE DEF p
  <2>3. ASSUME NEW s \in Slot, Touched(s) PROVE s \in TradingDay /\ ~(p < s)
    <3>1. p \in Int /\ MaxCatchUp \in Nat /\ Today \in Nat
      BY <1>1, <2>1, SlotIsFinite, DayTurns DEF Today, Typed
    <3>2. Today - MaxCatchUp <= p
      BY <2>1, <3>1 DEF Past
    <3> QED
      BY <2>1, <2>2, <2>3, <3>2 DEF OldestFirst
  <2>4. ASSUME NEW s \in Slot, Touched(s), s < p PROVE EverCompleted(s) \/ Past(s)
    BY <2>1, <2>3, <2>4
  <2>5. ASSUME NEW q \in Runner, q # r, proc'[q].pc # "idle", proc[q].slot < p
        PROVE  EverCompleted(proc[q].slot)
    <3>1. proc[q].pc # "idle" /\ proc[q].slot \in Slot /\ Touched(proc[q].slot)
      BY <1>1, <1>3, <2>5
    <3>2. ~Past(proc[q].slot)
      BY <2>1, <3>1 DEF SlotsAreTodays, InWindow, BeforeIntended
    <3> QED
      BY <2>4, <2>5, <3>1, <3>2
  <2>6. ASSUME NEW q \in Runner, NEW s \in Slot, Pending(q, s)' PROVE Pending(q, s) \/ s = p
    BY <1>1, <1>5, <2>6 DEF Pending, p
  <2>7. ASSUME NEW q \in Runner, NEW s \in Slot, proc'[q].pc # "idle", proc'[q].slot < s,
               resv'[s].status # "NONE" \/ \E w \in Runner : Pending(w, s)'
        PROVE  q # r /\ EverCompleted(proc[q].slot)
    <3>1. Touched(s) \/ s = p
      BY <2>1, <2>6, <2>7 DEF Touched
    <3>2. q # r
      <4>1. p \in Int
        BY <1>1, <2>1
      <4> QED
        BY <2>3, <2>7, <3>1, <4>1 DEF p
    <3>3. proc'[q] = proc[q]
      BY <1>1, <3>2
    <3>4. CASE s = p
      BY <2>5, <2>7, <3>2, <3>3, <3>4
    <3>5. CASE s # p
      <4>1. resv[s].status # "NONE" \/ \E w \in Runner : Pending(w, s)
        BY <2>1, <2>6, <2>7, <3>5
      <4>2. proc[q].pc # "idle" /\ proc[q].slot < s
        BY <2>7, <3>3
      <4> QED
        BY <3>2, <4>1, <4>2 DEF TakenInOrder
    <3> QED
      BY <3>4, <3>5
  <2>8. ASSUME NEW q \in Runner, NEW s \in Slot, proc'[q].pc # "idle", s < proc'[q].slot,
               resv'[s].status # "NONE"
        PROVE  EverCompleted(s) \/ Past(s)
    <3>1. CASE q = r
      BY <2>1, <2>4, <2>8, <3>1 DEF Touched, p
    <3>2. CASE q # r
      BY <1>1, <2>1, <2>8, <3>2 DEF TakenInOrder
    <3> QED
      BY <3>1, <3>2
  <2>9. ASSUME NEW q \in Runner, NEW s \in Slot, proc'[q].pc # "idle", proc'[q].slot < s,
               resv'[s].status # "NONE" \/ \E w \in Runner : Pending(w, s)'
        PROVE  EverCompleted(proc[q].slot)'
    <3>1. proc'[q] = proc[q] /\ EverCompleted(proc[q].slot) /\ proc[q].slot \in Slot
      BY <1>1, <1>4, <2>7, <2>9
    <3> QED
      BY <1>2, <3>1
  <2> QED
    BY <1>2, <2>8, <2>9 DEF TakenInOrder
<1>6. CASE ~Picked(r)
  <2>1. ASSUME NEW s \in Slot, resv'[s].status # "NONE" \/ \E w \in Runner : Pending(w, s)'
        PROVE  resv[s].status # "NONE" \/ \E w \in Runner : Pending(w, s)
    <3>1. ASSUME NEW w \in Runner, Pending(w, s)' PROVE Pending(w, s)
      BY <1>4, <1>6, <3>1 DEF Pending
    <3>2. Inserted(r) /\ s = proc[r].slot => Pending(r, s)
      BY DEF Inserted, Pending
    <3> QED
      BY <2>1, <3>1, <3>2, MoveTouches
  <2>2. ASSUME NEW q \in Runner, NEW s \in Slot, proc'[q].pc # "idle", proc'[q].slot < s,
               resv'[s].status # "NONE" \/ \E w \in Runner : Pending(w, s)'
        PROVE  EverCompleted(proc[q].slot)'
    <3>1. proc[q].pc # "idle" /\ proc'[q].slot = proc[q].slot /\ proc[q].slot \in Slot
      BY <1>4, <1>6, <2>2
    <3>2. EverCompleted(proc[q].slot)
      BY <2>1, <2>2, <3>1 DEF TakenInOrder
    <3> QED
      BY <1>2, <3>1, <3>2
  <2>3. ASSUME NEW q \in Runner, NEW s \in Slot, proc'[q].pc # "idle", s < proc'[q].slot,
               resv'[s].status # "NONE"
        PROVE  EverCompleted(s) \/ Past(s)
    <3>1. proc[q].pc # "idle" /\ proc'[q].slot = proc[q].slot /\ proc[q].slot \in Slot
      BY <1>4, <1>6, <2>3
    <3>2. CASE resv[s].status # "NONE"
      BY <2>3, <3>1, <3>2 DEF TakenInOrder
    <3>3. CASE Inserted(r) /\ s = proc[r].slot
      <4>1. proc[r].pc # "idle" /\ Pending(q, proc[q].slot)
        BY <3>1, <3>3 DEF Inserted, Pending
      <4> QED
        BY <2>3, <3>1, <3>3, <4>1 DEF TakenInOrder
    <3> QED
      BY <2>3, <3>2, <3>3, MoveTouches
  <2> QED
    BY <1>2, <2>2, <2>3 DEF TakenInOrder
<1> QED
  BY <1>5, <1>6

(* What was closed to spending stays so.                                      *)
LEMMA ClosedStays ==
  ASSUME Typed, RowsOwned, SlotsAreTodays, NEW r \in Runner, Move(r), NEW s \in Slot, Closed(s)
  PROVE  Closed(s)'
<1>1. /\ \A q \in Runner : q # r => proc'[q] = proc[q]
      /\ Past(s) => Past(s)'
      /\ EverCompleted(s) => EverCompleted(s)'
  BY DayOfMove, MoveKeepsRows DEF Move, Others, RowsKept
<1>2. CASE EverCompleted(s)
  BY <1>1, <1>2 DEF Closed
<1>3. CASE Past(s) /\ \A q \in Runner : ~(proc[q].pc \in Active /\ proc[q].slot = s)
  <2>1. ~(proc'[r].pc \in Active /\ proc'[r].slot = s)
    <3>1. CASE Acquired(r)
      <4>1. proc[r].pc = "acquire" /\ proc'[r].slot = proc[r].slot
        BY <3>1 DEF Acquired, Acquire, SameSlot
      <4>2. ~Past(proc[r].slot)
        BY <4>1 DEF SlotsAreTodays, Inside
      <4> QED
        BY <1>3, <4>1, <4>2
    <3>2. CASE ~Acquired(r)
      <4>1. proc'[r].pc \in Active => proc[r].pc \in Active /\ proc'[r].slot = proc[r].slot
        BY <3>2, StagesOfMoves DEF Picked, Left, Idle, Active, Running, Inside, SameSlot
      <4> QED
        BY <1>3, <4>1
    <3> QED
      BY <3>1, <3>2
  <2> QED
    BY <1>1, <1>3, <2>1 DEF Closed
<1> QED
  BY <1>2, <1>3 DEF Closed

LEMMA MoveKeepsCap ==
  ASSUME CycleInv, CycleInv', SlotsAreTodays, TakenInOrder, CapKept, NEW r \in Runner, Move(r), Calm'
  PROVE  CapKept'
<1>1. /\ Typed /\ Typed' /\ RowsOwned /\ RunsOnce /\ CallsArePaid /\ raced = {}
      /\ \A q \in Runner : q # r => proc'[q] = proc[q]
      /\ resv \in [Slot -> Reservation] /\ Committed \in Int
      /\ Cap \in Nat /\ SlotCost \in Nat /\ CallCost \in Nat
  BY DayOfMove, CommittedTyped, SlotIsFinite DEF CycleInv, Calm, Move, Others, Typed
<1>2. \A s \in Slot : Closed(s) => Closed(s)'
  BY <1>1, ClosedStays
<1>3. \A s \in Slot : /\ resv[s].used \in Nat
                      /\ resv[s].status \in {"NONE", "RESERVED", "SETTLED"}
                      /\ resv[s].status = "RESERVED" => Commitment[s] = SlotCost
                      /\ resv[s].status # "RESERVED" => Commitment[s] = resv[s].used
  BY <1>1, CommitmentIs
<1>4. CASE UNCHANGED resv
  <2>1. Committed' = Committed
    BY <1>4 DEF Committed, Commitment
  <2>2. ASSUME NEW q \in Runner, proc'[q].pc = "insert", resv'[proc'[q].slot].status = "NONE"
        PROVE  Committed + SlotCost <= Cap
    <3>1. CASE proc[q].pc = "insert" /\ proc'[q].slot = proc[q].slot
      BY <1>4, <2>2, <3>1 DEF CapKept
    <3>2. CASE ~(proc[q].pc = "insert" /\ proc'[q].slot = proc[q].slot)
      <4>1. q = r /\ Walked(r)
        BY <1>1, <2>2, <3>2 DEF Move, Picked, Left, Idle, Acquired, Acquire, Rejected, Started,
           Added, Inserted, Charged, Settled, Updated
      <4>2. SlotCost <= Cap - Used - Live
        BY <2>2, <4>1 DEF Walked
      <4>3. Used \in Int /\ Live \in Int /\ Committed <= Used + Live
        BY <1>1, CommittedIsCovered
      <4> QED
        BY <1>1, <4>2, <4>3
    <3> QED
      BY <3>1, <3>2
  <2>3. \A s \in Slot : resv'[s].status = "SETTLED" =>
          Closed(s)' \/ Committed - resv'[s].used + SlotCost <= Cap
    BY <1>2, <1>4 DEF CapKept
  <2> QED
    BY <2>1, <2>2, <2>3 DEF CapKept
<1>5. ASSUME Inserted(r) \/ Charged(r) \/ Settled(r) PROVE CapKept'
  <2> DEFINE p == proc[r].slot
             new == resv'[p]
  <2>1. /\ proc[r].pc \in Active /\ p \in Slot /\ proc'[r].slot = p
        /\ proc'[r].pc # "insert"
    BY <1>1, <1>5 DEF Inserted, Charged, Settled, Active, Running, SameSlot, Typed
  <2>2. \A s \in Slot : s # p => resv'[s] = resv[s]
    BY <1>1, <1>5, <2>1 DEF Inserted, Charged, Settled
  <2>3. \A q \in Runner : proc[q].pc \in Active => q = r
    BY <1>1, <2>1, OneIsActive
  <2>4. ~EverCompleted(p) /\ ~Closed(p)
    BY <1>1, <2>1, OneIsActive DEF Closed
  <2>5. \A s \in Slot : s # p /\ resv[s].status # "NONE" => Closed(s)
    BY <1>1, <2>1, OthersAreClosed
  <2>6. Committed' = Committed + Commitment'[p] - Commitment[p]
    BY <1>1, <2>1, <2>2, CommittedChanges
  <2>7. \A q \in Runner : proc'[q].pc # "insert"
    BY <1>1, <2>1, <2>3 DEF Active
  <2>8. /\ new.used \in Nat /\ new.status \in {"NONE", "RESERVED", "SETTLED"}
        /\ Commitment'[p] = IF new.status = "RESERVED" THEN SlotCost ELSE new.used
    BY <1>1, <2>1 DEF Commitment, Typed, Reservation
  <2>9. /\ Committed' <= Cap
        /\ new.status = "SETTLED" => Committed' - new.used + SlotCost <= Cap
    <3>1. CASE Inserted(r)
      <4>1. /\ resv[p].status = "NONE" /\ resv[p].used = 0
            /\ new.status = "RESERVED"
            /\ Committed + SlotCost <= Cap
        BY <1>1, <2>1, <3>1 DEF Inserted, CallsArePaid, CapKept, Reservation
      <4> HIDE DEF p, new
      <4> QED
        BY <1>1, <1>3, <2>1, <2>6, <2>8, <4>1
    <3>2. CASE Charged(r)
      <4>1. PICK cost \in 0..CallCost : resv' = [resv EXCEPT ![p].used = @ + cost]
        BY <3>2 DEF Charged
      <4>2. /\ new.status = resv[p].status /\ new.used = resv[p].used + cost
            /\ cost \in Nat /\ cost <= CallCost
        BY <1>1, <2>1, <4>1 DEF Reservation
      <4>3. resv[p].status # "NONE" /\ resv[p].used + CallCost <= SlotCost
        BY <1>1, <3>2 DEF Charged, CallsArePaid, Owing, Running
      <4>4. /\ Committed <= Cap
            /\ resv[p].status = "SETTLED" => Committed - resv[p].used + SlotCost <= Cap
        BY <2>1, <2>4 DEF CapKept
      <4> HIDE DEF p, new
      <4> QED
        BY <1>1, <1>3, <2>1, <2>6, <2>8, <4>2, <4>3, <4>4
    <3>3. CASE Settled(r)
      <4>1. /\ new.status = "SETTLED" /\ new.used = resv[p].used
        BY <1>1, <2>1, <3>3 DEF Settled, Reservation
      <4>2. resv[p].status # "NONE" /\ resv[p].used <= SlotCost
        BY <1>1, <2>1, <3>3 DEF Settled, CallsArePaid, Running
      <4>3. /\ Committed <= Cap
            /\ resv[p].status = "SETTLED" => Committed - resv[p].used + SlotCost <= Cap
        BY <2>1, <2>4 DEF CapKept
      <4> HIDE DEF p, new
      <4> QED
        BY <1>1, <1>3, <2>1, <2>6, <2>8, <4>1, <4>2, <4>3
    <3> QED
      BY <1>5, <3>1, <3>2, <3>3
  <2>10. ASSUME NEW s \in Slot, resv'[s].status = "SETTLED"
         PROVE  Closed(s)' \/ Committed' - resv'[s].used + SlotCost <= Cap
    <3>1. CASE s = p
      BY <2>9, <2>10, <3>1
    <3>2. CASE s # p
      BY <1>2, <2>2, <2>5, <2>10, <3>2
    <3> QED
      BY <3>1, <3>2
  <2> HIDE DEF p, new
  <2> QED
    BY <2>7, <2>9, <2>10 DEF CapKept
<1> QED
  BY <1>4, <1>5 DEF Move, Picked, Left, Acquired, Acquire, Walked, Rejected, Started, Added, Updated

(* A lease that ends before the next day's window: the clock takes no slot    *)
(* out of the window from under an invocation that may still hold it then.    *)
LEMMA TickKeepsCap ==
  ASSUME LeaseTtl <= 1, CycleInv, SlotsAreTodays, TakenInOrder, CapKept, Tick, Calm'
  PROVE  SlotsAreTodays' /\ TakenInOrder' /\ CapKept'
<1>1. /\ now' = now + 1 /\ now \in Nat /\ Typed /\ LeaseTtl \in Nat /\ MaxCatchUp \in Nat /\ Slot \subseteq Int
      /\ UNCHANGED <<rows, lease, resv, proc>> /\ ~outlived /\ ~outlived'
  BY SlotIsFinite DEF Tick, CycleInv, Typed, Calm
<1>2. /\ Today \in Nat /\ Today' \in Nat /\ Today' >= Today
      /\ Today' # Today => BeforeIntended'
  <2>1. now + 1 \in Nat
    BY <1>1
  <2>2. now \div 3 \in Nat /\ (now + 1) \div 3 \in Nat /\ (now + 1) \div 3 >= now \div 3
        /\ ((now + 1) % 3 # 0 => (now + 1) \div 3 = now \div 3)
    BY <1>1, <2>1, DayTurns
  <2> QED
    BY <1>1, <2>2 DEF Today, BeforeIntended
<1>3. ASSUME NEW s \in Slot, Past(s) PROVE Past(s)'
  <2>1. s \in Int
    BY <1>1
  <2>2. s < Today - MaxCatchUp
    BY <1>3 DEF Past
  <2>3. s < Today' - MaxCatchUp
    <3> DEFINE d == Today
               e == Today'
    <3>1. d \in Nat /\ e \in Nat /\ e >= d /\ s < d - MaxCatchUp
      BY <1>2, <2>2
    <3> HIDE DEF d, e
    <3>2. s < e - MaxCatchUp
      BY <1>1, <2>1, <3>1
    <3> QED
      BY <3>2 DEF e
  <2> QED
    BY <2>3 DEF Past
<1>4. \A s \in Slot : EverCompleted(s)' <=> EverCompleted(s)
  BY <1>1 DEF EverCompleted, RowsOf
<1>5. SlotsAreTodays'
  <2> SUFFICES ASSUME NEW q \in Runner, proc[q].pc # "idle", Past(proc[q].slot)'
               PROVE  BeforeIntended' /\ Inside(q) /\ lease[proc[q].slot].until <= now'
    BY <1>1 DEF SlotsAreTodays, Inside
  <2>1. ~(proc[q].pc = "acquire" /\ now' % 3 = 0) /\ ~(Inside(q) /\ lease[proc[q].slot].until < now')
    BY <1>1 DEF Tick
  <2>2. proc[q].slot \in Slot /\ (Inside(q) => lease[proc[q].slot].until \in Int)
    BY <1>1 DEF Typed, LeaseRecord
  <2>3. CASE ~Past(proc[q].slot)
    <3>1. Today' # Today
      BY <1>1, <2>3 DEF Past
    <3>2. BeforeIntended' /\ now' % 3 = 0
      BY <1>2, <3>1 DEF BeforeIntended
    <3>3. Inside(q)
      BY <2>1, <3>2 DEF Inside
    <3>4. lease[proc[q].slot].until <= now + LeaseTtl
      BY <1>1, <3>3 DEF CycleInv, LeasesHeld
    <3> QED
      BY <1>1, <2>2, <3>2, <3>3, <3>4
  <2>4. CASE Past(proc[q].slot)
    <3>1. Inside(q) /\ lease[proc[q].slot].until <= now
      BY <2>4 DEF SlotsAreTodays
    <3>2. lease[proc[q].slot].until < now'
      BY <1>1, <2>2, <3>1
    <3> QED
      BY <2>1, <3>1, <3>2
  <2> QED
    BY <2>3, <2>4
<1>6. TakenInOrder'
  BY <1>1, <1>3, <1>4 DEF TakenInOrder, Pending, Typed
<1>7. CapKept'
  <2>1. Committed' = Committed
    BY <1>1 DEF Committed, Commitment
  <2>2. \A s \in Slot : Closed(s) => Closed(s)'
    BY <1>1, <1>3, <1>4 DEF Closed
  <2> QED
    BY <1>1, <2>1, <2>2 DEF CapKept
<1> QED
  BY <1>5, <1>6, <1>7

LEMMA InitIsCalm == ASSUME Init PROVE CapInv
<1>1. /\ \A r \in Runner : proc[r].pc = "idle"
      /\ \A s \in Slot : resv[s].status = "NONE" /\ resv[s].used = 0
  BY DEF Init, Idle
<1>2. SlotsAreTodays /\ TakenInOrder
  BY <1>1 DEF SlotsAreTodays, TakenInOrder
<1>3. Committed = 0
  <2>1. \A s \in Slot : Commitment[s] = 0
    BY <1>1 DEF Commitment
  <2>2. Cardinality({}) = 0 /\ IsFiniteSet({})
    BY FS_EmptySet
  <2> DEFINE none == [s \in Slot |-> 0]
  <2> QED
    BY <2>1, SlotIsFinite, SumZero DEF Committed
<1>4. CapKept
  BY <1>1, <1>3, SlotIsFinite DEF CapKept
<1> QED
  BY <1>2, <1>4 DEF CapInv

(* The steps keep it, while nothing is raced for or outlived.                 *)
LEMMA StepKeepsCap ==
  ASSUME LeaseTtl <= 1, CycleInv, CycleInv', CapInv, [Next]_vars PROVE CapInv'
<1> SUFFICES ASSUME Calm' PROVE SlotsAreTodays' /\ TakenInOrder' /\ CapKept'
  BY DEF CapInv
<1>1. CASE Tick
  <2>1. Calm
    BY <1>1 DEF Tick, Calm
  <2> QED
    BY <1>1, <2>1, TickKeepsCap DEF CapInv
<1>2. CASE Resting
  <2>1. UNCHANGED <<now, outlived, rows, lease, resv, raced, proc>>
    BY <1>2 DEF Resting
  <2>2. Calm
    BY <2>1 DEF Calm
  <2>3. SlotsAreTodays' /\ TakenInOrder'
    BY <2>1, <2>2 DEF CapInv, SlotsAreTodays, TakenInOrder, Past, Today, BeforeIntended, Inside,
       Pending, EverCompleted, RowsOf
  <2>4. CapKept'
    BY <2>1, <2>2 DEF CapInv, CapKept, Committed, Commitment, Closed, Past, Today, EverCompleted, RowsOf
  <2> QED
    BY <2>3, <2>4
<1>3. ASSUME NEW r \in Runner, Move(r) PROVE SlotsAreTodays' /\ TakenInOrder' /\ CapKept'
  <2>1. Calm
    BY <1>3, DayOfMove
  <2> QED
    BY <1>3, <2>1, MoveKeepsDays, MoveKeepsTaken, MoveKeepsCap DEF CapInv, CycleInv
<1> QED
  BY <1>1, <1>2, <1>3, StepsAreMoves DEF CycleInv

-----------------------------------------------------------------------------
(* The types that the invariant leaves out, and what is spent.                *)

Bounded ==
  /\ \A s \in Slot : lease[s].held => lease[s].owner \in Runner
  /\ \A r \in Runner : proc[r].calls <= MaxCalls

LEMMA StepKeepsBounds == ASSUME Typed, Bounded, [Next]_vars PROVE Bounded'
<1>1. proc \in [Runner -> Process] /\ lease \in [Slot -> LeaseRecord] /\ MaxCalls \in Nat
  BY SlotIsFinite DEF Typed
<1>2. ASSUME NEW r \in Runner, Invocation(r), Move(r) PROVE Bounded'
  <2>1. /\ \A q \in Runner : q # r => proc'[q] = proc[q]
        /\ proc[r].calls \in Nat /\ proc[r].calls <= MaxCalls
        /\ proc[r].pc # "idle" => proc[r].slot \in Slot
    BY <1>1, <1>2 DEF Move, Others, Bounded, Process, Typed
  <2>2. proc'[r].calls <= MaxCalls
    <3>1. CASE Invoke(r)
      <4>1. Picked(r) \/ Left(r)
        BY <1>2, <3>1, StagesOfMoves DEF Invoke
      <4> QED
        BY <1>1, <4>1 DEF Picked, Left, Idle
    <3>2. CASE Acquire(r) \/ LeaseHeld(r) \/ Reserve(r) \/ InsertReservation(r)
      BY <1>1, <2>1, <3>2 DEF Acquire, LeaseHeld, Reserve, InsertReservation, Goto, Idle, Process
    <3>6. CASE Reject(r) \/ StartRun(r)
      <4>1. proc'[r].calls = proc[r].calls
        BY <1>1, <3>6 DEF Reject, StartRun, Process
      <4> QED
        BY <2>1, <4>1
    <3>3. CASE BeforeAttempt(r)
      BY <1>1, <2>1, <3>3 DEF BeforeAttempt, Process
    <3>4. CASE AfterAttempt(r) \/ StructuralFailure(r) \/ Trip(r) \/ TripWrite(r)
      BY <1>1, <2>1, <3>4 DEF AfterAttempt, StructuralFailure, Trip, TripWrite, Goto, Process
    <3>5. CASE EndCycle(r) \/ Settle(r) \/ UpdateRun(r) \/ Release(r) \/ Raise(r) \/ Crash(r)
      BY <1>1, <2>1, <3>5 DEF EndCycle, Settle, UpdateRun, Release, Raise, Crash, Goto, Idle, Process
    <3> QED
      BY <1>2, <3>1, <3>2, <3>3, <3>4, <3>5, <3>6 DEF Invocation
  <2>3. ASSUME NEW s \in Slot, lease'[s].held PROVE lease'[s].owner \in Runner
    <3>1. CASE Acquired(r)
      BY <1>1, <2>1, <2>3, <3>1 DEF Acquired, Acquire, Bounded
    <3>2. CASE Left(r)
      BY <1>1, <2>1, <2>3, <3>2 DEF Left, Released, Bounded, Inside
    <3>3. CASE UNCHANGED lease
      BY <2>3, <3>3 DEF Bounded
    <3> QED
      BY <1>2, <3>1, <3>2, <3>3 DEF Move, Picked, Walked, Rejected, Started, Added, Inserted, Charged,
         Settled, Updated
  <2> QED
    BY <2>1, <2>2, <2>3 DEF Bounded
<1>3. CASE Tick \/ Resting
  BY <1>3 DEF Tick, Resting, Bounded
<1> QED
  BY <1>2, <1>3, StepsAreMoves

(* Neither the cap of the month nor a reservation is overspent while no slot  *)
(* is raced for and no lease or day outlived (reserve_budget, before_attempt, *)
(* after_attempt, settle_reservation), for any runners, calendar, costs and   *)
(* cap, where a lease ends before the window of the next day opens.           *)
THEOREM SpendingAlwaysBounded == LeaseTtl <= 1 => (Spec => []SpendingBounded)
<1> SUFFICES ASSUME LeaseTtl <= 1 PROVE Spec => []SpendingBounded
  OBVIOUS
<1>1. Init => CycleInv /\ CapInv /\ Bounded
  <2>1. 0 <= MaxCalls
    BY SlotIsFinite
  <2>2. Init => Bounded
    BY <2>1 DEF Init, Bounded, Released, Idle
  <2> QED
    BY <2>2, InitHolds, InitIsCalm
<1>2. CycleInv /\ CapInv /\ Bounded /\ [Next]_vars => (CycleInv /\ CapInv /\ Bounded)'
  BY StepKeeps, StepKeepsCap, StepKeepsBounds DEF CycleInv
<1>3. CycleInv /\ CapInv /\ Bounded /\ PauseInv => SpendingBounded
  <2> SUFFICES ASSUME CycleInv, CapInv, Bounded, PauseInv PROVE SpendingBounded
    OBVIOUS
  <2>1. CapRespected /\ UsageWithinReservation
    BY DEF CapInv, Calm, CapKept, CapRespected, CycleInv, CallsArePaid, UsageWithinReservation
  <2>2. now \in 4..(3 * Days + 1)
    BY SlotIsFinite DEF CycleInv, Typed
  <2>3. \A i \in DOMAIN rows : /\ rows[i].slot \in Slot
                               /\ rows[i].status \in {"RUNNING", "BUDGET_REJECTED", "COMPLETED", "FAILED"}
    <3>1. \A i \in DOMAIN rows : rows[i] \in RowRecord
      BY DEF CycleInv, Typed
    <3> QED
      BY <3>1 DEF RowRecord
  <2>4. \A s \in Slot : /\ lease[s].held => lease[s].owner \in Runner
                        /\ resv[s].status = "NONE" => resv[s].used = 0
                        /\ resv[s].status \in {"NONE", "RESERVED", "SETTLED"}
    BY DEF CycleInv, Typed, Reservation, CallsArePaid, Bounded
  <2>5. \A r \in Runner :
          /\ proc[r].pc \in {"tripWrite", "healthWrite"} => asked[r] = "automatic_pause"
          /\ proc[r].calls <= MaxCalls
          /\ proc[r].row \in 0..Len(rows)
          /\ proc[r].pc \in {"work", "calling", "charge", "settle", "update"} => proc[r].row # 0
          /\ proc[r].row # 0 => rows[proc[r].row].slot = proc[r].slot
    BY DEF CycleInv, RowsOwned, Running, Bounded, PauseInv, PauseStands
  <2> QED
    BY <2>1, <2>2, <2>3, <2>4, <2>5 DEF SpendingBounded, TypeOK, PauseInv
<1> QED
  BY <1>1, <1>2, <1>3, PauseInvHolds, PTL DEF Spec

-----------------------------------------------------------------------------
(* The alerts.                                                               *)

AlertPlace == {"idle", "look", "count", "store", "send", "record", "told", "counted", "dead"}
AlertRow == [stored : BOOLEAN, suppressed : Nat, resolved : Nat]
Delivery == [of : Report, sink : Nat, try : Nat, success : BOOLEAN]
ReportCall == [pc : AlertPlace, about : Condition \cup {CHOOSE k \in Condition : TRUE}, at : Nat,
               original : Report \cup {NoReport}, sinks : Nat, sink : Nat, tries : Seq(BOOLEAN), recorded : Nat]

AlertsTyped ==
  /\ instant \in Nat
  /\ report \in [Report -> ReportCall]
  /\ alert \in [Report -> AlertRow]
  /\ delivered \in SUBSET Delivery

(* A row is there from its report's insertion on, and only a row is counted on.*)
RowsAreReports ==
  \A a \in Report :
    /\ alert[a].stored => report[a].pc \in {"send", "record", "told", "dead"}
    /\ report[a].pc \in {"send", "record", "told"} => alert[a].stored
    /\ ~alert[a].stored => alert[a].suppressed = 0

(* Who counts on a row has found one of its own condition within the window.  *)
OriginalsAreRows ==
  \A a \in Report : report[a].pc \in {"count", "counted"} =>
    /\ report[a].original \in Stored \cap About(report[a].about)
    /\ report[report[a].original].at + DedupWindow >= report[a].at

Suppressions == [b \in Report |-> alert[b].suppressed]
CountedOn(k) == {a \in About(k) : report[a].pc = "counted"}

CountsAgree ==
  \A k \in Condition : SumFunctionOnSet(Suppressions, Stored \cap About(k)) = Cardinality(CountedOn(k))

(* Deliveries to one sink: its first n attempts, each once, and nothing after *)
(* a success.                                                                 *)
Attempts(T, n) ==
  /\ \A i \in 1..n : \E d \in T : d.try = i
  /\ \A d \in T : d.try \in 1..n /\ (d.success => d.try = n)
  /\ \A d, e \in T : d.try = e.try => d = e

SinkSettled(T) == \E n \in Nat : Attempts(T, n) /\ (n = MaxTries \/ \E d \in T : d.success)

(* How far a report is with its deliveries: the sinks before the one it tries *)
(* are settled, of that one the recorded attempts are the first of its tries, *)
(* of which only the last may have succeeded.                                 *)
Delivering(a) ==
  LET w == report[a] IN
  /\ w.sink \in 1..w.sinks /\ w.recorded \in Nat
  /\ \A s \in 1..(w.sink - 1) : SinkSettled(Tries(a, s))
  /\ \A s \in Nat : s > w.sink => Tries(a, s) = {}
  /\ Attempts(Tries(a, w.sink), w.recorded)
  /\ \A d \in Tries(a, w.sink) : d.success = w.tries[d.try]
  /\ Len(w.tries) <= MaxTries /\ w.recorded <= Len(w.tries)
  /\ \A i \in 1..(Len(w.tries) - 1) : ~w.tries[i]
  /\ w.pc = "send" => w.recorded = 0 /\ Len(w.tries) < MaxTries /\ \A i \in 1..Len(w.tries) : ~w.tries[i]
  /\ w.pc = "record" => w.recorded < Len(w.tries) /\ (w.tries[Len(w.tries)] \/ Len(w.tries) = MaxTries)

DeliveryStands(a) ==
  /\ \A s \in Nat : \E n \in Nat : Attempts(Tries(a, s), n)
  /\ report[a].pc \in {"idle", "look", "count", "store", "counted"} => \A s \in Nat : Tries(a, s) = {}
  /\ report[a].pc \in {"idle", "look", "store"} => report[a].sink = 0
  /\ report[a].pc \in {"send", "record"} => Delivering(a)
  /\ report[a].pc = "told" => \A s \in 1..report[a].sinks : SinkSettled(Tries(a, s))

DeliveriesStand ==
  /\ \A d \in delivered : alert[d.of].stored
  /\ \A a \in Report : DeliveryStands(a)

AlertInv == AlertsTyped /\ RowsAreReports /\ OriginalsAreRows /\ CountsAgree /\ DeliveriesStand

-----------------------------------------------------------------------------
LEMMA NoAttempts == Attempts({}, 0) /\ \A n \in Nat : Attempts({}, n) => n = 0
  BY DEF Attempts

(* As many deliveries as attempts.                                            *)
LEMMA AttemptsCounted ==
  ASSUME NEW T, NEW n \in Nat, Attempts(T, n)
  PROVE  Cardinality(T) = n /\ {d.try : d \in T} = 1..n
<1> DEFINE f == [i \in 1..n |-> CHOOSE d \in T : d.try = i]
<1>1. \A i \in 1..n : f[i] \in T /\ f[i].try = i
  BY DEF Attempts
<1>2. f \in [1..n -> T]
  BY <1>1
<1> HIDE DEF f
<1>3. \A i, j \in 1..n : f[i] = f[j] => i = j
  BY <1>1
<1>4. \A d \in T : d.try \in 1..n /\ f[d.try] = d
  BY <1>1 DEF Attempts
<1>5. f \in Bijection(1..n, T)
  BY <1>2, <1>3, <1>4 DEF Bijection, Injection, Surjection, IsInjective
<1>6. ExistsBijection(1..n, T)
  BY <1>5 DEF ExistsBijection
<1> QED
  BY <1>1, <1>4, <1>6, FS_CountingElements

LEMMA AlertsInitially == AlertInit => AlertInv
<1> SUFFICES ASSUME AlertInit PROVE AlertInv
  OBVIOUS
<1>1. AlertsTyped
  <2>1. <<>> \in Seq(BOOLEAN) /\ Unresolved \in Nat
    BY AlertAssumption DEF Unresolved
  <2> QED
    BY <2>1 DEF AlertInit, AlertsTyped, ReportCall, AlertRow, Absent, AlertPlace
<1>2. RowsAreReports /\ OriginalsAreRows
  BY DEF AlertInit, RowsAreReports, OriginalsAreRows, Absent
<1>3. CountsAgree
  <2> SUFFICES ASSUME NEW k \in Condition
               PROVE  SumFunctionOnSet(Suppressions, Stored \cap About(k)) = Cardinality(CountedOn(k))
    BY DEF CountsAgree
  <2>1. Stored \cap About(k) = {} /\ CountedOn(k) = {}
    BY DEF AlertInit, Stored, About, CountedOn, Absent
  <2> QED
    BY <2>1, SumEmpty, FS_EmptySet
<1>4. DeliveriesStand
  <2>1. \A a \in Report, s \in Nat : Tries(a, s) = {}
    BY DEF AlertInit, Tries
  <2>2. \A a \in Report : report[a].pc = "idle"
    BY DEF AlertInit
  <2> QED
    BY <2>1, <2>2, NoAttempts DEF DeliveriesStand, DeliveryStands, AlertInit
<1> QED
  BY <1>1, <1>2, <1>3, <1>4 DEF AlertInv

(* What the invariant gives the property.                                     *)
LEMMA AlertInvTells == AlertInv => NothingIsLost
<1> SUFFICES ASSUME AlertInv PROVE NothingIsLost
  OBVIOUS
<1>1. EveryReportCounts
  BY DEF AlertInv, CountsAgree, OriginalsAreRows, EveryReportCounts, Suppressions, CountedOn
<1>2. ASSUME NEW a \in Report, NEW s \in 1..report[a].sinks
      PROVE  LET last == Cardinality(Tries(a, s)) IN
             /\ {d.try : d \in Tries(a, s)} = 1..last
             /\ \A d \in Tries(a, s) : a \in Stored /\ (d.success => d.try = last)
             /\ report[a].pc = "told" => last = MaxTries \/ \E d \in Tries(a, s) : d.success
  <2>1. s \in Nat
    OBVIOUS
  <2>2. PICK n \in Nat : Attempts(Tries(a, s), n)
    BY <2>1 DEF AlertInv, DeliveriesStand, DeliveryStands
  <2>3. Cardinality(Tries(a, s)) = n /\ {d.try : d \in Tries(a, s)} = 1..n
    BY <2>2, AttemptsCounted
  <2>4. \A d \in Tries(a, s) : a \in Stored /\ (d.success => d.try = n)
    BY <2>2 DEF Attempts, Tries, Stored, AlertInv, DeliveriesStand
  <2>5. report[a].pc = "told" => n = MaxTries \/ \E d \in Tries(a, s) : d.success
    <3> SUFFICES ASSUME report[a].pc = "told" PROVE n = MaxTries \/ \E d \in Tries(a, s) : d.success
      OBVIOUS
    <3>1. PICK m \in Nat : Attempts(Tries(a, s), m) /\ (m = MaxTries \/ \E d \in Tries(a, s) : d.success)
      BY DEF AlertInv, DeliveriesStand, DeliveryStands, SinkSettled
    <3>2. m = n
      BY <2>3, <3>1, AttemptsCounted
    <3> QED
      BY <3>1, <3>2
  <2> QED
    BY <2>3, <2>4, <2>5
<1> QED
  BY <1>1, <1>2 DEF NothingIsLost, DeliveriesTell
-----------------------------------------------------------------------------
(* What a step does to a call.                                                *)
Changes(a, new) == report' = [report EXCEPT ![a] = new]

LEMMA NextSinkTyped ==
  ASSUME AlertsTyped, NEW a \in Report
  PROVE  /\ NextSink(a) \in ReportCall
         /\ NextSink(a).about = report[a].about /\ NextSink(a).at = report[a].at
         /\ NextSink(a).sinks = report[a].sinks
         /\ \/ /\ report[a].sink < report[a].sinks /\ NextSink(a).pc = "send"
               /\ NextSink(a).sink = report[a].sink + 1
               /\ NextSink(a).tries = <<>> /\ NextSink(a).recorded = 0
            \/ ~ (report[a].sink < report[a].sinks) /\ NextSink(a).pc = "told"
<1>1. report[a] \in ReportCall /\ <<>> \in Seq(BOOLEAN)
  BY DEF AlertsTyped
<1>2. CASE report[a].sink < report[a].sinks
  <2> DEFINE sink == report[a].sink + 1
             new == [report[a] EXCEPT !.pc = "send", !.sink = sink, !.tries = <<>>, !.recorded = 0]
  <2>1. NextSink(a) = new
    BY <1>2 DEF NextSink
  <2>3. sink = report[a].sink + 1 /\ sink \in Nat
    BY <1>1 DEF ReportCall
  <2> HIDE DEF sink
  <2>2. new \in ReportCall /\ new.about = report[a].about /\ new.at = report[a].at
        /\ new.sinks = report[a].sinks /\ new.pc = "send" /\ new.sink = sink
        /\ new.tries = <<>> /\ new.recorded = 0
    BY <1>1, <2>3 DEF ReportCall, AlertPlace
  <2> HIDE DEF new
  <2> QED
    BY <1>2, <2>1, <2>2, <2>3
<1>3. CASE ~ (report[a].sink < report[a].sinks)
  <2> DEFINE new == [report[a] EXCEPT !.pc = "told", !.sink = 0, !.tries = <<>>, !.recorded = 0]
  <2>1. NextSink(a) = new
    BY <1>3 DEF NextSink, Over
  <2>2. new \in ReportCall /\ new.about = report[a].about /\ new.at = report[a].at
        /\ new.sinks = report[a].sinks /\ new.pc = "told"
    BY <1>1 DEF ReportCall, AlertPlace
  <2> HIDE DEF new
  <2> QED
    BY <1>3, <2>1, <2>2
<1> QED
  BY <1>2, <1>3

(* A call of raise_alert moves from place to place and keeps what it is about *)
(* once it has begun.                                                         *)
CallKept(a) == report'[a].about = report[a].about /\ report'[a].at = report[a].at
               /\ report'[a].sinks = report[a].sinks

Moves(a) ==
  \/ report[a].pc = "idle" /\ report'[a].pc = "look" /\ report'[a].sink = report[a].sink
     /\ alert' = alert /\ delivered' = delivered
  \/ /\ CallKept(a) /\ report[a].pc = "look" /\ alert' = alert /\ delivered' = delivered
     /\ \/ report'[a].pc = "store" /\ report'[a].sink = report[a].sink
        \/ /\ report'[a].pc = "count" /\ report'[a].original \in Recent(a)
  \/ /\ CallKept(a) /\ report[a].pc = "count" /\ report'[a].pc = "counted"
     /\ report'[a].original = report[a].original /\ delivered' = delivered
     /\ alert' = [alert EXCEPT ![report[a].original].suppressed = @ + 1]
  \/ /\ CallKept(a) /\ report[a].pc = "store" /\ delivered' = delivered
     /\ alert' = [alert EXCEPT ![a].stored = TRUE] /\ report'[a] = NextSink(a)
  \/ /\ CallKept(a) /\ report[a].pc = "send" /\ delivered' = delivered /\ alert' = alert
     /\ report'[a].sink = report[a].sink /\ report'[a].recorded = report[a].recorded
     /\ \E success \in BOOLEAN :
          /\ report'[a].tries = Append(report[a].tries, success)
          /\ report'[a].pc = IF success \/ Len(report'[a].tries) = MaxTries THEN "record" ELSE "send"
  \/ /\ CallKept(a) /\ report[a].pc = "record" /\ alert' = alert
     /\ LET n == report[a].recorded + 1 IN
        /\ delivered' = delivered \cup
             {[of |-> a, sink |-> report[a].sink, try |-> n, success |-> report[a].tries[n]]}
        /\ \/ n = Len(report[a].tries) /\ report'[a] = NextSink(a)
           \/ /\ n # Len(report[a].tries) /\ report'[a].pc = "record" /\ report'[a].recorded = n
              /\ report'[a].sink = report[a].sink /\ report'[a].tries = report[a].tries
  \/ /\ CallKept(a) /\ report[a].pc \in {"look", "count", "store", "send", "record"}
     /\ report'[a].pc = "dead" /\ alert' = alert /\ delivered' = delivered

LEMMA CallMoves ==
  ASSUME AlertsTyped, NEW a \in Report,
         \/ \E k \in Condition, n \in 0..MaxSinks : RaiseAlert(a, k, n)
         \/ Look(a) \/ Count(a) \/ Store(a) \/ Send(a) \/ Record(a) \/ Die(a)
  PROVE  /\ Moves(a) /\ report' \in [Report -> ReportCall]
         /\ \A b \in Report : b # a => report'[b] = report[b]
         /\ instant' = instant
<1> DEFINE w == report[a]
<1>0. w \in ReportCall /\ instant \in Nat /\ report \in [Report -> ReportCall]
  BY DEF AlertsTyped
<1>1. ASSUME NEW new \in ReportCall, Changes(a, new)
      PROVE  /\ report' \in [Report -> ReportCall] /\ report'[a] = new
             /\ \A b \in Report : b # a => report'[b] = report[b]
  BY <1>0, <1>1 DEF Changes
<1>2. ASSUME NEW k \in Condition, NEW n \in 0..MaxSinks, RaiseAlert(a, k, n)
      PROVE  /\ Moves(a) /\ report' \in [Report -> ReportCall]
             /\ \A b \in Report : b # a => report'[b] = report[b]
             /\ instant' = instant
  <2> DEFINE new == [w EXCEPT !.pc = "look", !.about = k, !.at = instant, !.sinks = n]
  <2>1. n \in Nat
    BY AlertAssumption
  <2>2. new \in ReportCall /\ new.pc = "look" /\ new.sink = w.sink
    BY <1>0, <2>1 DEF ReportCall, AlertPlace
  <2>3. Changes(a, new)
    BY <1>0, <1>2 DEF RaiseAlert, Changes
  <2> HIDE DEF new
  <2> QED
    BY <1>1, <1>2, <2>2, <2>3 DEF RaiseAlert, Moves
<1>3. ASSUME Look(a)
      PROVE  /\ Moves(a) /\ report' \in [Report -> ReportCall]
             /\ \A b \in Report : b # a => report'[b] = report[b]
             /\ instant' = instant
  <2>1. CASE Onto(a, "store")
    <3> DEFINE new == [w EXCEPT !.pc = "store"]
    <3>1. new \in ReportCall /\ new.pc = "store" /\ new.about = w.about /\ new.at = w.at
          /\ new.sinks = w.sinks /\ new.sink = w.sink
      BY <1>0 DEF ReportCall, AlertPlace
    <3>2. Changes(a, new)
      BY <1>0, <2>1 DEF Onto, Changes
    <3> HIDE DEF new
    <3> QED
      BY <1>1, <1>3, <3>1, <3>2 DEF Look, Moves, CallKept
  <2>2. ASSUME NEW o \in Recent(a), report' = [report EXCEPT ![a].pc = "count", ![a].original = o]
        PROVE  /\ Moves(a) /\ report' \in [Report -> ReportCall]
               /\ \A b \in Report : b # a => report'[b] = report[b]
               /\ instant' = instant
    <3> DEFINE new == [w EXCEPT !.pc = "count", !.original = o]
    <3>0. o \in Report
      BY DEF Recent, Stored
    <3>1. new \in ReportCall /\ new.pc = "count" /\ new.about = w.about /\ new.at = w.at
          /\ new.sinks = w.sinks /\ new.original = o
      BY <1>0, <3>0 DEF ReportCall, AlertPlace
    <3>2. Changes(a, new)
      BY <1>0, <2>2 DEF Changes
    <3> HIDE DEF new
    <3> QED
      BY <1>1, <1>3, <3>1, <3>2 DEF Look, Moves, CallKept
  <2> QED
    BY <1>3, <2>1, <2>2 DEF Look
<1>4. ASSUME Count(a)
      PROVE  /\ Moves(a) /\ report' \in [Report -> ReportCall]
             /\ \A b \in Report : b # a => report'[b] = report[b]
             /\ instant' = instant
  <2> DEFINE new == [w EXCEPT !.pc = "counted"]
  <2>1. new \in ReportCall /\ new.pc = "counted" /\ new.about = w.about /\ new.at = w.at
        /\ new.sinks = w.sinks /\ new.original = w.original
    BY <1>0 DEF ReportCall, AlertPlace
  <2>2. Changes(a, new)
    BY <1>0, <1>4 DEF Count, Onto, Changes
  <2> HIDE DEF new
  <2> QED
    BY <1>1, <1>4, <2>1, <2>2 DEF Count, Moves, CallKept
<1>5. ASSUME Store(a)
      PROVE  /\ Moves(a) /\ report' \in [Report -> ReportCall]
             /\ \A b \in Report : b # a => report'[b] = report[b]
             /\ instant' = instant
  <2>1. Changes(a, NextSink(a))
    BY <1>5 DEF Store, Changes
  <2> QED
    BY <1>1, <1>5, <2>1, NextSinkTyped DEF Store, Moves, CallKept
<1>6. ASSUME Send(a)
      PROVE  /\ Moves(a) /\ report' \in [Report -> ReportCall]
             /\ \A b \in Report : b # a => report'[b] = report[b]
             /\ instant' = instant
  <2>1. PICK success \in BOOLEAN :
          report' = [report EXCEPT ![a].tries = Append(w.tries, success),
                       ![a].pc = IF success \/ Len(Append(w.tries, success)) = MaxTries THEN "record" ELSE "send"]
    BY <1>6 DEF Send
  <2> DEFINE tries == Append(w.tries, success)
             pc == IF success \/ Len(tries) = MaxTries THEN "record" ELSE "send"
             new == [w EXCEPT !.tries = tries, !.pc = pc]
  <2>2. w.tries \in Seq(BOOLEAN)
    BY <1>0 DEF ReportCall
  <2>3. tries \in Seq(BOOLEAN) /\ pc \in AlertPlace
    BY <2>2 DEF AlertPlace
  <2>4. Changes(a, new)
    BY <1>0, <2>1 DEF Changes
  <2>0. pc = IF success \/ Len(tries) = MaxTries THEN "record" ELSE "send"
    OBVIOUS
  <2> HIDE DEF pc
  <2>7. tries = Append(w.tries, success)
    OBVIOUS
  <2> HIDE DEF tries
  <2>5. new \in ReportCall /\ new.pc = pc /\ new.about = w.about /\ new.at = w.at
        /\ new.sinks = w.sinks /\ new.sink = w.sink /\ new.recorded = w.recorded /\ new.tries = tries
    BY <1>0, <2>3 DEF ReportCall
  <2> HIDE DEF new
  <2>6. report' \in [Report -> ReportCall] /\ report'[a] = new
        /\ \A b \in Report : b # a => report'[b] = report[b]
    BY <1>1, <2>4, <2>5
  <2> QED
    BY <1>6, <2>0, <2>5, <2>6, <2>7 DEF Send, Moves, CallKept
<1>7. ASSUME Record(a)
      PROVE  /\ Moves(a) /\ report' \in [Report -> ReportCall]
             /\ \A b \in Report : b # a => report'[b] = report[b]
             /\ instant' = instant
  <2> DEFINE n == w.recorded + 1
             new == IF n = Len(w.tries) THEN NextSink(a) ELSE [w EXCEPT !.recorded = n]
  <2>1. Changes(a, new)
    BY <1>0, <1>7 DEF Record, Changes
  <2>2. CASE n = Len(w.tries)
    BY <1>1, <1>7, <2>1, <2>2, NextSinkTyped DEF Record, Moves, CallKept
  <2>3. CASE n # Len(w.tries)
    <3>1. n \in Nat
      BY <1>0 DEF ReportCall
    <3>2. new \in ReportCall /\ new.pc = w.pc /\ new.about = w.about /\ new.at = w.at
          /\ new.sinks = w.sinks /\ new.sink = w.sink /\ new.tries = w.tries /\ new.recorded = n
      BY <1>0, <2>3, <3>1 DEF ReportCall
    <3> HIDE DEF new
    <3> QED
      BY <1>1, <1>7, <2>1, <2>3, <3>2 DEF Record, Moves, CallKept
  <2> QED
    BY <2>2, <2>3
<1>8. ASSUME Die(a)
      PROVE  /\ Moves(a) /\ report' \in [Report -> ReportCall]
             /\ \A b \in Report : b # a => report'[b] = report[b]
             /\ instant' = instant
  <2> DEFINE new == [w EXCEPT !.pc = "dead", !.sink = 0, !.tries = <<>>, !.recorded = 0]
  <2>1. <<>> \in Seq(BOOLEAN)
    OBVIOUS
  <2>2. new \in ReportCall /\ new.pc = "dead" /\ new.about = w.about /\ new.at = w.at /\ new.sinks = w.sinks
    BY <1>0, <2>1 DEF ReportCall, AlertPlace
  <2>3. Changes(a, new)
    BY <1>0, <1>8 DEF Die, Over, Changes
  <2> HIDE DEF new
  <2> QED
    BY <1>1, <1>8, <2>2, <2>3 DEF Die, Moves, CallKept
<1> QED
  BY <1>2, <1>3, <1>4, <1>5, <1>6, <1>7, <1>8
-----------------------------------------------------------------------------
(* One step of the reports, an operator's or the clock's.                     *)
LEMMA StepsOfAlerts ==
  ASSUME AlertsTyped, [AlertNext]_alertVars
  PROVE  \/ \E a \in Report : /\ Moves(a) /\ instant' = instant
                              /\ report' \in [Report -> ReportCall]
                              /\ \A b \in Report : b # a => report'[b] = report[b]
         \/ \E b \in Report : Resolve(b)
         \/ report' = report /\ alert' = alert /\ delivered' = delivered /\ instant' \in Nat
<1>1. ASSUME NEW a \in Report,
             \/ \E k \in Condition, n \in 0..MaxSinks : RaiseAlert(a, k, n)
             \/ Look(a) \/ Count(a) \/ Store(a) \/ Send(a) \/ Record(a) \/ Die(a)
      PROVE  /\ Moves(a) /\ instant' = instant
             /\ report' \in [Report -> ReportCall]
             /\ \A b \in Report : b # a => report'[b] = report[b]
  BY <1>1, CallMoves
<1>2. CASE Pass \/ UNCHANGED alertVars
  BY <1>2 DEF Pass, alertVars, AlertsTyped
<1> QED
  BY <1>1, <1>2 DEF AlertNext

LEMMA RowsStep ==
  ASSUME AlertInv, NEW a \in Report, Moves(a), instant' = instant,
         report' \in [Report -> ReportCall], \A b \in Report : b # a => report'[b] = report[b]
  PROVE  AlertsTyped' /\ RowsAreReports' /\ OriginalsAreRows'
<1> USE DEF AlertInv
<1>0. /\ report \in [Report -> ReportCall] /\ alert \in [Report -> AlertRow] /\ delivered \subseteq Delivery
      /\ report[a] \in ReportCall /\ report'[a] \in ReportCall
  BY DEF AlertsTyped
<1>1. CASE report[a].pc = "count" /\ report'[a].pc = "counted"
           /\ alert' = [alert EXCEPT ![report[a].original].suppressed = @ + 1]
           /\ delivered' = delivered /\ CallKept(a) /\ report'[a].original = report[a].original
  <2> DEFINE o == report[a].original
  <2>1. o \in Report /\ alert[o].stored /\ report[o].about = report[a].about
        /\ report[o].at + DedupWindow >= report[a].at
    BY <1>1 DEF OriginalsAreRows, Stored, About
  <2>2. alert' \in [Report -> AlertRow]
    BY <1>0, <1>1, <2>1 DEF AlertRow
  <2>3. \A b \in Report : alert'[b].stored = alert[b].stored /\ (b # o => alert'[b] = alert[b])
    BY <1>0, <1>1, <2>1 DEF AlertRow
  <2>4. AlertsTyped'
    BY <1>0, <1>1, <2>2 DEF AlertsTyped
  <2>5. RowsAreReports'
    BY <1>1, <2>1, <2>3 DEF RowsAreReports
  <2>6. \A b \in Report : report'[b].about = report[b].about /\ report'[b].at = report[b].at
                          /\ report'[b].original = report[b].original
                          /\ (report'[b].pc \in {"count", "counted"} => report[b].pc \in {"count", "counted"})
    BY <1>1 DEF CallKept
  <2>7. OriginalsAreRows'
    BY <2>3, <2>6 DEF OriginalsAreRows, Stored, About
  <2> QED
    BY <2>4, <2>5, <2>7
<1>2. CASE /\ report[a].pc = "store" /\ alert' = [alert EXCEPT ![a].stored = TRUE]
           /\ report'[a] = NextSink(a) /\ delivered' = delivered /\ CallKept(a)
  <2>1. report'[a].pc \in {"send", "told"}
    BY <1>2, NextSinkTyped
  <2>2. alert' \in [Report -> AlertRow] /\ alert'[a].stored
        /\ \A b \in Report : (b # a => alert'[b] = alert[b]) /\ (alert[b].stored => alert'[b].stored)
    BY <1>0, <1>2 DEF AlertRow
  <2>3. AlertsTyped'
    BY <1>0, <1>2, <2>2 DEF AlertsTyped
  <2>4. RowsAreReports'
    BY <1>2, <2>1, <2>2 DEF RowsAreReports
  <2>5. \A b \in Report : report'[b].about = report[b].about /\ report'[b].at = report[b].at
    BY <1>2 DEF CallKept
  <2>6. OriginalsAreRows'
    BY <2>1, <2>2, <2>5 DEF OriginalsAreRows, Stored, About
  <2> QED
    BY <2>3, <2>4, <2>6
<1>3. CASE /\ alert' = alert /\ CallKept(a)
           /\ report[a].pc = "record" /\ report'[a].pc \in {"send", "record", "told"}
           /\ delivered' = delivered \cup {[of |-> a, sink |-> report[a].sink, try |-> report[a].recorded + 1,
                                            success |-> report[a].tries[report[a].recorded + 1]]}
           /\ report[a].recorded < Len(report[a].tries)
  <2>1. report[a].recorded + 1 \in 1..Len(report[a].tries) /\ report[a].tries \in Seq(BOOLEAN)
    BY <1>0, <1>3 DEF ReportCall
  <2>2. report[a].tries[report[a].recorded + 1] \in BOOLEAN
    BY <2>1
  <2>3. delivered' \subseteq Delivery
    BY <1>0, <1>3, <2>1, <2>2 DEF ReportCall, Delivery
  <2>4. AlertsTyped'
    BY <1>0, <1>3, <2>3 DEF AlertsTyped
  <2>5. RowsAreReports'
    BY <1>3 DEF RowsAreReports
  <2>6. OriginalsAreRows'
    BY <1>3 DEF OriginalsAreRows, Stored, About, CallKept
  <2> QED
    BY <2>4, <2>5, <2>6
<1>4. CASE /\ alert' = alert /\ delivered' = delivered
           /\ \/ report[a].pc = "idle" /\ report'[a].pc = "look"
              \/ CallKept(a) /\ report[a].pc = "look" /\ report'[a].pc = "store"
              \/ CallKept(a) /\ report[a].pc = "send" /\ report'[a].pc \in {"send", "record"}
              \/ CallKept(a) /\ report[a].pc \in {"look", "count", "store", "send", "record"} /\ report'[a].pc = "dead"
  <2>1. AlertsTyped'
    BY <1>0, <1>4 DEF AlertsTyped
  <2>2. RowsAreReports'
    BY <1>4 DEF RowsAreReports
  <2>3. ~alert[a].stored \/ CallKept(a)
    BY <1>4 DEF RowsAreReports
  <2>4. \A b \in Report : alert[b].stored => report'[b].about = report[b].about /\ report'[b].at = report[b].at
    BY <2>3 DEF CallKept
  <2>5. \A b \in Report : report'[b].pc \in {"count", "counted"} => report'[b] = report[b]
    BY <1>4
  <2>6. OriginalsAreRows'
    BY <1>4, <2>4, <2>5 DEF OriginalsAreRows, Stored, About
  <2> QED
    BY <2>1, <2>2, <2>6
<1>5. CASE /\ alert' = alert /\ delivered' = delivered /\ CallKept(a) /\ report[a].pc = "look"
           /\ report'[a].pc = "count" /\ report'[a].original \in Recent(a)
  <2>1. AlertsTyped'
    BY <1>0, <1>5 DEF AlertsTyped
  <2>2. RowsAreReports'
    BY <1>5 DEF RowsAreReports
  <2>3. \A b \in Report : report'[b].about = report[b].about /\ report'[b].at = report[b].at
    BY <1>5 DEF CallKept
  <2>4. OriginalsAreRows'
    BY <1>5, <2>3 DEF OriginalsAreRows, Stored, About, Recent
  <2> QED
    BY <2>1, <2>2, <2>4
<1>6. report[a].pc = "record" => report[a].recorded < Len(report[a].tries)
  BY DEF DeliveriesStand, DeliveryStands, Delivering
<1> QED
  BY <1>1, <1>2, <1>3, <1>4, <1>5, <1>6, NextSinkTyped DEF Moves

LEMMA SameCounts ==
  ASSUME AlertsTyped, CountsAgree, AlertsTyped',
         \A b \in Report : alert'[b].suppressed = alert[b].suppressed,
         \A b \in Report : \A k \in Condition : (alert[b].stored /\ report[b].about = k) <=> (alert'[b].stored /\ report'[b].about = k),
         \A b \in Report : \A k \in Condition : (report[b].pc = "counted" /\ report[b].about = k)
                             <=> (report'[b].pc = "counted" /\ report'[b].about = k)
  PROVE  CountsAgree'
<1> SUFFICES ASSUME NEW k \in Condition
             PROVE  SumFunctionOnSet(Suppressions', (Stored \cap About(k))') = Cardinality(CountedOn(k)')
  BY DEF CountsAgree
<1>1. (Stored \cap About(k))' = Stored \cap About(k)
  BY DEF Stored, About
<1>2. CountedOn(k)' = CountedOn(k)
  BY DEF CountedOn, About
<1>3. Suppressions' = Suppressions
  BY DEF Suppressions
<1> QED
  BY <1>1, <1>2, <1>3 DEF CountsAgree

LEMMA CountsStep ==
  ASSUME AlertInv, NEW a \in Report, Moves(a), AlertsTyped',
         report' \in [Report -> ReportCall], \A b \in Report : b # a => report'[b] = report[b]
  PROVE  CountsAgree'
<1> USE DEF AlertInv
<1>1. CASE report[a].pc = "count" /\ report'[a].pc = "counted"
           /\ alert' = [alert EXCEPT ![report[a].original].suppressed = @ + 1]
           /\ CallKept(a)
  <2> SUFFICES ASSUME NEW k \in Condition
               PROVE  SumFunctionOnSet(Suppressions', (Stored \cap About(k))') = Cardinality(CountedOn(k)')
    BY DEF CountsAgree
  <2> DEFINE o == report[a].original
             S == Stored \cap About(k)
  <2>1. o \in Report /\ o \in Stored /\ report[o].about = report[a].about
    BY <1>1 DEF OriginalsAreRows, Stored, About
  <2>2. \A b \in Report : /\ alert'[b].stored = alert[b].stored /\ report'[b].about = report[b].about
                          /\ alert'[b].suppressed = IF b = o THEN alert[b].suppressed + 1 ELSE alert[b].suppressed
    BY <1>1, <2>1 DEF AlertsTyped, AlertRow, CallKept
  <2>3. S' = S
    BY <2>2 DEF Stored, About
  <2>4. \A b \in Report : Suppressions[b] \in Int /\ Suppressions'[b] \in Int
                          /\ Suppressions'[b] = IF b = o THEN Suppressions[b] + 1 ELSE Suppressions[b]
    BY <2>2 DEF Suppressions, AlertsTyped, AlertRow
  <2>5. IsFiniteSet(S) /\ IsFiniteSet(CountedOn(k)) /\ S \subseteq Report
    BY AlertAssumption, FS_Subset DEF Stored, About, CountedOn
  <2>6. SumFunctionOnSet(Suppressions, S) = Cardinality(CountedOn(k)) /\ Cardinality(CountedOn(k)) \in Nat
    BY <2>5, FS_CardinalityType DEF CountsAgree
  <2> HIDE DEF S
  <2>7. CASE report[a].about = k
    <3>1. o \in S
      BY <2>1, <2>7 DEF S, About, Stored
    <3>2. SumFunctionOnSet(Suppressions', S) = SumFunctionOnSet(Suppressions, S) + Suppressions'[o] - Suppressions[o]
      BY <2>4, <2>5, <3>1, SumChangesBy
    <3>3. CountedOn(k)' = CountedOn(k) \cup {a} /\ a \notin CountedOn(k)
      BY <1>1, <2>2, <2>7 DEF CountedOn, About
    <3>4. Cardinality(CountedOn(k)') = Cardinality(CountedOn(k)) + 1
      BY <2>5, <3>3, FS_AddElement
    <3>5. Suppressions'[o] = Suppressions[o] + 1 /\ Suppressions[o] \in Int
      BY <2>1, <2>4
    <3> DEFINE x == SumFunctionOnSet(Suppressions, S)
               y == SumFunctionOnSet(Suppressions', S)
    <3>6. y = x + Suppressions'[o] - Suppressions[o] /\ x = Cardinality(CountedOn(k)) /\ x \in Nat
      BY <2>6, <3>2
    <3> HIDE DEF x, y
    <3>7. y = Cardinality(CountedOn(k)')
      BY <3>4, <3>5, <3>6
    <3> QED
      BY <2>3, <3>7 DEF S, y
  <2>8. CASE report[a].about # k
    <3>1. o \notin S
      BY <2>1, <2>8 DEF S, About
    <3>2. SumFunctionOnSet(Suppressions', S) = SumFunctionOnSet(Suppressions, S)
      BY <2>4, <2>5, <3>1, SumSame
    <3>3. CountedOn(k)' = CountedOn(k)
      BY <1>1, <2>2, <2>8 DEF CountedOn, About
    <3> QED
      BY <2>3, <2>6, <3>2, <3>3 DEF S
  <2> QED
    BY <2>7, <2>8
<1>2. CASE /\ report[a].pc = "store" /\ alert' = [alert EXCEPT ![a].stored = TRUE]
           /\ report'[a].pc \in {"send", "told"} /\ CallKept(a)
  <2> SUFFICES ASSUME NEW k \in Condition
               PROVE  SumFunctionOnSet(Suppressions', (Stored \cap About(k))') = Cardinality(CountedOn(k)')
    BY DEF CountsAgree
  <2> DEFINE S == Stored \cap About(k)
  <2>1. ~alert[a].stored /\ alert[a].suppressed = 0
    BY <1>2 DEF RowsAreReports
  <2>2. \A b \in Report : /\ alert'[b].stored = (alert[b].stored \/ b = a)
                          /\ report'[b].about = report[b].about
                          /\ alert'[b].suppressed = alert[b].suppressed
    BY <1>2 DEF AlertsTyped, AlertRow, CallKept
  <2>3. Suppressions' = Suppressions
    BY <2>2 DEF Suppressions
  <2>4. CountedOn(k)' = CountedOn(k)
    BY <1>2, <2>2 DEF CountedOn, About
  <2>5. IsFiniteSet(S) /\ S \subseteq Report /\ a \notin S
        /\ S' = IF report[a].about = k THEN S \cup {a} ELSE S
    BY <2>1, <2>2, AlertAssumption, FS_Subset DEF Stored, About
  <2>6. \A b \in Report : Suppressions[b] \in Int
    BY DEF Suppressions, AlertsTyped, AlertRow
  <2>7. Suppressions[a] = 0
    BY <2>1 DEF Suppressions
  <2>8. SumFunctionOnSet(Suppressions, S) = Cardinality(CountedOn(k))
    BY DEF CountsAgree
  <2> HIDE DEF S
  <2>9. SumFunctionOnSet(Suppressions, S \cup {a}) = Suppressions[a] + SumFunctionOnSet(Suppressions, S)
    BY <2>5, <2>6, SumPutsIn
  <2>10. SumFunctionOnSet(Suppressions, S) \in Int
    BY <2>5, <2>6, SumType
  <2>11. SumFunctionOnSet(Suppressions, S') = SumFunctionOnSet(Suppressions, S)
    BY <2>5, <2>7, <2>9, <2>10
  <2> QED
    BY <2>3, <2>4, <2>8, <2>11 DEF S
<1>3. CASE /\ alert' = alert /\ report[a].pc # "counted" /\ report'[a].pc # "counted"
           /\ CallKept(a) \/ report[a].pc = "idle"
  <2>1. ~alert[a].stored \/ CallKept(a)
    BY <1>3 DEF RowsAreReports
  <2> QED
    BY <1>3, <2>1, SameCounts DEF CallKept
<1> QED
  BY <1>1, <1>2, <1>3, NextSinkTyped DEF Moves
-----------------------------------------------------------------------------
(* The deliveries.                                                            *)
LEMMA AttemptsGrow ==
  ASSUME NEW T, NEW n \in Nat, Attempts(T, n), \A d \in T : ~d.success,
         NEW e, e.try = n + 1
  PROVE  Attempts(T \cup {e}, n + 1)
<1>1. 1..(n + 1) = (1..n) \cup {n + 1} /\ n + 1 \notin 1..n
  OBVIOUS
<1>2. \A i \in 1..(n + 1) : \E d \in T \cup {e} : d.try = i
  BY <1>1 DEF Attempts
<1>3. \A d \in T \cup {e} : d.try \in 1..(n + 1) /\ (d.success => d.try = n + 1)
  BY <1>1 DEF Attempts
<1>4. \A d, g \in T \cup {e} : d.try = g.try => d = g
  BY <1>1 DEF Attempts
<1> QED
  BY <1>2, <1>3, <1>4 DEF Attempts

(* A call whose record and deliveries stay keeps what holds of it.            *)
LEMMA SameDeliveries ==
  ASSUME NEW b \in Report, DeliveryStands(b), report'[b] = report[b],
         \A s \in Nat : Tries(b, s)' = Tries(b, s), AlertsTyped
  PROVE  DeliveryStands(b)'
<1>0. report[b].sink \in Nat /\ report[b].sinks \in Nat
  BY DEF AlertsTyped, ReportCall
<1>1. (\A s \in Nat : \E n \in Nat : Attempts(Tries(b, s), n))'
  <2> SUFFICES ASSUME NEW s \in Nat PROVE \E n \in Nat : Attempts(Tries(b, s)', n)
    BY DEF Attempts
  <2>1. \E n \in Nat : Attempts(Tries(b, s), n)
    BY DEF DeliveryStands
  <2>2. Tries(b, s)' = Tries(b, s)
    OBVIOUS
  <2> QED
    BY <2>1, <2>2
<1>4. \A s \in Nat : SinkSettled(Tries(b, s)) => SinkSettled(Tries(b, s))'
  BY DEF SinkSettled, Attempts
<1>2. (\A s \in 1..report[b].sinks : SinkSettled(Tries(b, s))) => (\A s \in 1..report[b].sinks : SinkSettled(Tries(b, s)))'
  <2>1. \A s \in 1..report[b].sinks : s \in Nat
    BY <1>0
  <2> QED
    BY <1>4, <2>1
<1>3. Delivering(b) => Delivering(b)'
  <2> SUFFICES ASSUME Delivering(b) PROVE Delivering(b)'
    OBVIOUS
  <2>0. \A s \in 1..(report[b].sink - 1) : s \in Nat
    BY <1>0
  <2>1. (\A s \in 1..(report[b].sink - 1) : SinkSettled(Tries(b, s)))'
    BY <1>4, <2>0 DEF Delivering
  <2>2. Tries(b, report[b].sink)' = Tries(b, report[b].sink)
    BY <1>0 DEF Tries
  <2>3. Attempts(Tries(b, report[b].sink), report[b].recorded)'
    BY <2>2 DEF Delivering, Attempts
  <2> QED
    BY <2>1, <2>2, <2>3 DEF Delivering
<1> QED
  BY <1>1, <1>2, <1>3 DEF DeliveryStands

LEMMA SinksTyped ==
  ASSUME AlertsTyped, NEW a \in Report
  PROVE  report[a].sink \in Nat /\ report[a].sinks \in Nat /\ MaxTries \in Nat /\ MaxTries > 0
<1>1. MaxTries \in Nat /\ MaxTries > 0
  BY AlertAssumption
<1>2. report[a].sink \in Nat /\ report[a].sinks \in Nat
  BY DEF AlertsTyped, ReportCall
<1> QED
  BY <1>1, <1>2

LEMMA NextIsOneOf == \A m, n \in Nat : m < n => m + 1 \in 1..n
  OBVIOUS

(* A call that goes on to its next sink, or to none.                          *)
LEMMA SinkBegins ==
  ASSUME AlertsTyped, NEW a \in Report, report'[a] = NextSink(a),
         \A s \in Nat : \E n \in Nat : Attempts(Tries(a, s)', n),
         \A s \in Nat : s > report[a].sink => Tries(a, s)' = {},
         report[a].sink <= report[a].sinks,
         \A s \in 1..report[a].sink : SinkSettled(Tries(a, s)')
  PROVE  DeliveryStands(a)'
<1> DEFINE w == report[a]
<1>0. w.sink \in Nat /\ w.sinks \in Nat /\ MaxTries \in Nat /\ MaxTries > 0
  BY SinksTyped
<1>1. (\A s \in Nat : \E n \in Nat : Attempts(Tries(a, s), n))'
  BY DEF Attempts
<1>2. CASE /\ w.sink < w.sinks /\ NextSink(a).pc = "send" /\ NextSink(a).sink = w.sink + 1
           /\ NextSink(a).tries = <<>> /\ NextSink(a).recorded = 0
  <2>0. report'[a].sink = w.sink + 1 /\ report'[a].sinks = w.sinks
        /\ report'[a].tries = <<>> /\ report'[a].recorded = 0 /\ report'[a].pc = "send"
    BY <1>2, NextSinkTyped
  <2>1. (\A s \in 1..(report[a].sink - 1) : SinkSettled(Tries(a, s)))'
    <3>1. 1..(report'[a].sink - 1) = 1..w.sink
      BY <1>0, <2>0
    <3> QED
      BY <3>1 DEF SinkSettled, Attempts
  <2>2. Tries(a, report[a].sink)' = {}
    <3>1. w.sink + 1 \in Nat /\ w.sink + 1 > w.sink
      BY <1>0
    <3> QED
      BY <2>0, <3>1 DEF Tries
  <2>3. Attempts(Tries(a, report[a].sink), report[a].recorded)'
    BY <2>0, <2>2 DEF Attempts
  <2>4. \A s \in Nat : s > report'[a].sink => Tries(a, s)' = {}
    <3>1. \A s \in Nat : s > report'[a].sink => s > w.sink
      BY <1>0, <2>0
    <3> QED
      BY <3>1
  <2>5. Len(<<>>) = 0
    OBVIOUS
  <2>6. report'[a].sink \in 1..report'[a].sinks /\ report'[a].recorded \in Nat
        /\ Len(report'[a].tries) <= MaxTries /\ report'[a].recorded <= Len(report'[a].tries)
        /\ (\A i \in 1..(Len(report'[a].tries) - 1) : ~report'[a].tries[i])
        /\ Len(report'[a].tries) < MaxTries /\ \A i \in 1..Len(report'[a].tries) : ~report'[a].tries[i]
    <3> DEFINE sink == report'[a].sink
               sinks == report'[a].sinks
               tries == report'[a].tries
               recorded == report'[a].recorded
    <3>1. sink = w.sink + 1 /\ sinks = w.sinks /\ tries = <<>> /\ recorded = 0
      BY <2>0
    <3> HIDE DEF sink, sinks, tries, recorded
    <3>5. w.sink < w.sinks
      BY <1>2
    <3>6. w.sink + 1 \in 1..w.sinks
      BY <1>0, <3>5, NextIsOneOf
    <3>2. sink \in 1..sinks /\ recorded \in Nat
      BY <3>1, <3>6
    <3>3. Len(tries) = 0
      BY <2>5, <3>1
    <3>4. /\ Len(tries) <= MaxTries /\ recorded <= Len(tries)
          /\ (\A i \in 1..(Len(tries) - 1) : ~tries[i])
          /\ Len(tries) < MaxTries /\ \A i \in 1..Len(tries) : ~tries[i]
      BY <1>0, <3>1, <3>3
    <3> QED
      BY <3>2, <3>4 DEF sink, sinks, tries, recorded
  <2>7. Delivering(a)'
    BY <2>0, <2>1, <2>2, <2>3, <2>4, <2>6 DEF Delivering
  <2> QED
    BY <1>1, <2>0, <2>7 DEF DeliveryStands
<1>3. CASE ~ (w.sink < w.sinks) /\ NextSink(a).pc = "told"
  <2>0. NextSink(a).sinks = w.sinks
    BY NextSinkTyped
  <2>1. report'[a].pc = "told" /\ report'[a].sinks = w.sinks
    BY <1>3, <2>0
  <2>3. w.sinks = w.sink
    BY <1>0, <1>3
  <2>2. (\A s \in 1..report[a].sinks : SinkSettled(Tries(a, s)))'
    BY <2>1, <2>3 DEF SinkSettled, Attempts
  <2> QED
    BY <1>1, <2>1, <2>2 DEF DeliveryStands
<1> QED
  BY <1>2, <1>3, NextSinkTyped

(* What a call does to its own deliveries, move by move.                      *)
LEMMA SendDelivers ==
  ASSUME AlertInv, NEW a \in Report, Moves(a), report[a].pc = "send", report'[a].pc # "dead",
         report' \in [Report -> ReportCall]
  PROVE  DeliveryStands(a)'
<1> DEFINE w == report[a]
           v == report'[a]
<1>1. /\ CallKept(a) /\ delivered' = delivered /\ v.sink = w.sink /\ v.recorded = w.recorded
      /\ \E success \in BOOLEAN :
           /\ v.tries = Append(w.tries, success)
           /\ v.pc = IF success \/ Len(v.tries) = MaxTries THEN "record" ELSE "send"
  BY DEF Moves
<1>2. PICK success \in BOOLEAN :
        /\ v.tries = Append(w.tries, success)
        /\ v.pc = IF success \/ Len(v.tries) = MaxTries THEN "record" ELSE "send"
  BY <1>1
<1>3. DeliveryStands(a) /\ Delivering(a)
  BY DEF AlertInv, DeliveriesStand, DeliveryStands
<1>4. w.recorded = 0 /\ Len(w.tries) < MaxTries /\ \A i \in 1..Len(w.tries) : ~w.tries[i]
  BY <1>3 DEF Delivering
<1>5. w.tries \in Seq(BOOLEAN) /\ w.sink \in Nat /\ w.sinks \in Nat /\ MaxTries \in Nat
  BY AlertAssumption DEF AlertInv, AlertsTyped, ReportCall
<1>6. /\ Len(v.tries) = Len(w.tries) + 1 /\ Len(w.tries) \in Nat
      /\ \A i \in 1..Len(w.tries) : v.tries[i] = w.tries[i]
      /\ v.tries[Len(w.tries) + 1] = success
  <2> DEFINE t == w.tries
  <2>1. t \in Seq(BOOLEAN)
    BY <1>5
  <2> HIDE DEF t
  <2>2. /\ Len(Append(t, success)) = Len(t) + 1 /\ Len(t) \in Nat
        /\ \A i \in 1..Len(t) : Append(t, success)[i] = t[i]
        /\ Append(t, success)[Len(t) + 1] = success
    BY <2>1
  <2> QED
    BY <1>2, <2>2 DEF t
<1>7. \A s \in Nat : Tries(a, s)' = Tries(a, s)
  BY <1>1 DEF Tries
<1>8. Tries(a, report[a].sink)' = Tries(a, w.sink)
  BY <1>1 DEF Tries
<1>9. Tries(a, w.sink) = {}
  BY <1>3, <1>4 DEF Delivering, Attempts
<1>10. /\ Len(v.tries) <= MaxTries /\ v.recorded <= Len(v.tries) /\ v.recorded = 0
       /\ \A i \in 1..(Len(v.tries) - 1) : ~v.tries[i]
  BY <1>1, <1>4, <1>5, <1>6
<1>11. v.pc = "send" => Len(v.tries) < MaxTries /\ \A i \in 1..Len(v.tries) : ~v.tries[i]
  <2> SUFFICES ASSUME v.pc = "send" PROVE Len(v.tries) < MaxTries /\ \A i \in 1..Len(v.tries) : ~v.tries[i]
    OBVIOUS
  <2>1. ~success /\ Len(v.tries) # MaxTries
    BY <1>2
  <2>2. Len(v.tries) < MaxTries
    BY <1>4, <1>5, <1>6, <2>1
  <2>3. \A i \in 1..Len(v.tries) : i \in 1..Len(w.tries) \/ i = Len(w.tries) + 1
    BY <1>6
  <2> QED
    BY <1>4, <1>6, <2>1, <2>2, <2>3
<1>12. v.pc = "record" => v.recorded < Len(v.tries) /\ (v.tries[Len(v.tries)] \/ Len(v.tries) = MaxTries)
  BY <1>2, <1>6, <1>10
<1>13. v.sink \in 1..v.sinks /\ v.sinks = w.sinks
  BY <1>1, <1>3 DEF Delivering, CallKept
<1>14. (\A s \in Nat : \E n \in Nat : Attempts(Tries(a, s), n))'
  <2> SUFFICES ASSUME NEW s \in Nat PROVE \E n \in Nat : Attempts(Tries(a, s)', n)
    BY DEF Attempts
  <2>1. \E n \in Nat : Attempts(Tries(a, s), n)
    BY <1>3 DEF DeliveryStands
  <2>2. Tries(a, s)' = Tries(a, s)
    BY <1>7
  <2> QED
    BY <2>1, <2>2
<1>15. (\A s \in 1..(report[a].sink - 1) : SinkSettled(Tries(a, s)))'
  <2>1. \A s \in 1..(w.sink - 1) : s \in Nat
    BY <1>5
  <2>2. \A s \in Nat : SinkSettled(Tries(a, s)) => SinkSettled(Tries(a, s))'
    BY <1>7 DEF SinkSettled, Attempts
  <2>3. \A s \in 1..(w.sink - 1) : SinkSettled(Tries(a, s))
    BY <1>3 DEF Delivering
  <2> QED
    BY <1>1, <2>1, <2>2, <2>3
<1>16. \A s \in Nat : s > v.sink => Tries(a, s)' = {}
  BY <1>1, <1>3, <1>7 DEF Delivering
<1>17. Attempts(Tries(a, report[a].sink), report[a].recorded)'
  BY <1>8, <1>9, <1>10 DEF Attempts
<1>18. Delivering(a)'
  BY <1>8, <1>9, <1>10, <1>11, <1>12, <1>13, <1>15, <1>16, <1>17 DEF Delivering
<1> QED
  BY <1>2, <1>14, <1>18 DEF DeliveryStands

LEMMA RecordDelivers ==
  ASSUME AlertInv, NEW a \in Report, Moves(a), report[a].pc = "record", report'[a].pc # "dead",
         report' \in [Report -> ReportCall]
  PROVE  DeliveryStands(a)'
<1> DEFINE w == report[a]
           n == w.recorded + 1
           d == [of |-> a, sink |-> w.sink, try |-> n, success |-> w.tries[n]]
<1>1. /\ delivered' = delivered \cup {d} /\ CallKept(a)
      /\ \/ n = Len(w.tries) /\ report'[a] = NextSink(a)
         \/ /\ n # Len(w.tries) /\ report'[a].pc = "record" /\ report'[a].recorded = n
            /\ report'[a].sink = w.sink /\ report'[a].tries = w.tries
  BY DEF Moves
<1>2. DeliveryStands(a) /\ Delivering(a)
  BY DEF AlertInv, DeliveriesStand, DeliveryStands
<1>3. w.tries \in Seq(BOOLEAN) /\ w.sink \in Nat /\ w.sinks \in Nat /\ w.recorded \in Nat /\ MaxTries \in Nat
      /\ n \in Nat
  BY AlertAssumption DEF AlertInv, AlertsTyped, ReportCall
<1>4. d.of = a /\ d.sink = w.sink /\ d.try = n /\ d.success = w.tries[n]
  OBVIOUS
<1>0. n = w.recorded + 1
  OBVIOUS
<1> HIDE DEF d, n
<1>5. /\ \A s \in Nat : Tries(a, s)' = IF s = w.sink THEN Tries(a, s) \cup {d} ELSE Tries(a, s)
  BY <1>1, <1>3, <1>4 DEF Tries
<1>6. w.sink \in 1..w.sinks /\ w.recorded < Len(w.tries) /\ Len(w.tries) <= MaxTries
      /\ (w.tries[Len(w.tries)] \/ Len(w.tries) = MaxTries)
  BY <1>2 DEF Delivering
<1>7. Len(w.tries) \in Nat /\ n <= Len(w.tries)
  BY <1>0, <1>3, <1>6
<1>8. \A e \in Tries(a, w.sink) : ~e.success
  <2> SUFFICES ASSUME NEW e \in Tries(a, w.sink) PROVE ~e.success
    OBVIOUS
  <2>1. e.try \in 1..w.recorded /\ e.success = w.tries[e.try]
    BY <1>2 DEF Delivering, Attempts
  <2>2. e.try \in 1..(Len(w.tries) - 1)
    BY <1>3, <1>6, <1>7, <2>1
  <2> QED
    BY <1>2, <2>1, <2>2 DEF Delivering
<1>9. Attempts(Tries(a, w.sink) \cup {d}, n)
  <2>1. Attempts(Tries(a, w.sink), w.recorded)
    BY <1>2 DEF Delivering
  <2> QED
    BY <1>0, <1>3, <1>4, <1>8, <2>1, AttemptsGrow
<1>10. \A s \in Nat : \E m \in Nat : Attempts(Tries(a, s)', m)
  <2> SUFFICES ASSUME NEW s \in Nat PROVE \E m \in Nat : Attempts(Tries(a, s)', m)
    OBVIOUS
  <2>1. CASE s = w.sink
    BY <1>3, <1>5, <1>9, <2>1
  <2>2. CASE s # w.sink
    BY <1>2, <1>5, <2>2 DEF DeliveryStands
  <2> QED
    BY <2>1, <2>2
<1>11. \A s \in Nat : s > w.sink => Tries(a, s)' = {}
  <2> SUFFICES ASSUME NEW s \in Nat, s > w.sink PROVE Tries(a, s)' = {}
    OBVIOUS
  <2>1. s # w.sink
    BY <1>3
  <2> QED
    BY <1>2, <1>5, <2>1 DEF Delivering
<1>12. \A s \in 1..(w.sink - 1) : SinkSettled(Tries(a, s)')
  <2> SUFFICES ASSUME NEW s \in 1..(w.sink - 1) PROVE SinkSettled(Tries(a, s)')
    OBVIOUS
  <2>1. s \in Nat /\ s # w.sink
    BY <1>3
  <2>2. Tries(a, s)' = Tries(a, s)
    BY <1>5, <2>1
  <2> QED
    BY <1>2, <2>2 DEF Delivering
<1>13. CASE n = Len(w.tries) /\ report'[a] = NextSink(a)
  <2>1. SinkSettled(Tries(a, w.sink) \cup {d})
    BY <1>3, <1>4, <1>6, <1>9, <1>13 DEF SinkSettled
  <2>2. \A s \in 1..w.sink : SinkSettled(Tries(a, s)')
    <3> SUFFICES ASSUME NEW s \in 1..w.sink PROVE SinkSettled(Tries(a, s)')
      OBVIOUS
    <3>1. s \in Nat /\ (s = w.sink \/ s \in 1..(w.sink - 1))
      BY <1>3
    <3>2. CASE s = w.sink
      <4>1. Tries(a, s)' = Tries(a, w.sink) \cup {d}
        BY <1>5, <3>1, <3>2
      <4> QED
        BY <2>1, <4>1
    <3> QED
      BY <1>12, <3>1, <3>2
  <2>3. w.sink <= w.sinks
    BY <1>3, <1>6
  <2>4. report'[a] = NextSink(a) /\ AlertsTyped
    BY <1>13 DEF AlertInv
  <2> QED
    BY <1>10, <1>11, <2>2, <2>3, <2>4, SinkBegins
<1>14. CASE /\ n # Len(w.tries) /\ report'[a].pc = "record" /\ report'[a].recorded = n
            /\ report'[a].sink = w.sink /\ report'[a].tries = w.tries
  <2>1. n < Len(w.tries)
    BY <1>3, <1>7, <1>14
  <2>2. report'[a].sinks = w.sinks
    BY <1>1 DEF CallKept
  <2>3. Tries(a, report[a].sink)' = Tries(a, w.sink) \cup {d}
    BY <1>1, <1>4, <1>14 DEF Tries
  <2>4. Attempts(Tries(a, report[a].sink), report[a].recorded)'
    BY <1>9, <1>14, <2>3 DEF Attempts
  <2>5. (\A s \in 1..(report[a].sink - 1) : SinkSettled(Tries(a, s)))'
    BY <1>12, <1>14 DEF SinkSettled, Attempts
  <2>6. \A s \in Nat : s > report'[a].sink => Tries(a, s)' = {}
    BY <1>11, <1>14
  <2>7. \A e \in Tries(a, w.sink) \cup {d} : e.success = w.tries[e.try]
    BY <1>2, <1>4 DEF Delivering
  <2>8. \A i \in 1..(Len(w.tries) - 1) : ~w.tries[i]
    BY <1>2 DEF Delivering
  <2>9. n \in Nat /\ n <= Len(w.tries)
    BY <1>3, <1>7
  <2>10. Delivering(a)'
    BY <1>6, <1>14, <2>1, <2>2, <2>3, <2>4, <2>5, <2>6, <2>7, <2>8, <2>9 DEF Delivering
  <2>11. (\A s \in Nat : \E m \in Nat : Attempts(Tries(a, s), m))'
    BY <1>10 DEF Attempts
  <2> QED
    BY <1>14, <2>10, <2>11 DEF DeliveryStands
<1> QED
  BY <1>1, <1>13, <1>14

LEMMA StoreDelivers ==
  ASSUME AlertInv, NEW a \in Report, Moves(a), report[a].pc = "store", report'[a].pc # "dead",
         report' \in [Report -> ReportCall]
  PROVE  DeliveryStands(a)'
<1>1. report'[a] = NextSink(a) /\ delivered' = delivered
  BY DEF Moves
<1>2. report[a].sink = 0 /\ AlertsTyped /\ \A s \in Nat : Tries(a, s) = {}
  BY DEF AlertInv, DeliveriesStand, DeliveryStands
<1>3. \A s \in Nat : Tries(a, s)' = {}
  BY <1>1, <1>2 DEF Tries
<1>4. \A s \in Nat : \E n \in Nat : Attempts(Tries(a, s)', n)
  BY <1>3, NoAttempts
<1>5. report[a].sink <= report[a].sinks
  BY <1>2 DEF AlertsTyped, ReportCall
<1>6. \A s \in 1..report[a].sink : SinkSettled(Tries(a, s)')
  BY <1>2
<1> QED
  BY <1>1, <1>2, <1>3, <1>4, <1>5, <1>6, SinkBegins

LEMMA OtherwiseDelivers ==
  ASSUME AlertInv, NEW a \in Report, Moves(a),
         report[a].pc \in {"idle", "look", "count"} \/ report'[a].pc = "dead"
  PROVE  DeliveryStands(a)'
<1>1. delivered' = delivered
  BY NextSinkTyped DEF Moves, AlertInv
<1>2. \A s \in Nat : Tries(a, s)' = Tries(a, s)
  BY <1>1 DEF Tries
<1>3. DeliveryStands(a)
  BY DEF AlertInv, DeliveriesStand
<1>7. \A s \in Nat : \E n \in Nat : Attempts(Tries(a, s), n)
  BY <1>3 DEF DeliveryStands
<1>4. (\A s \in Nat : \E n \in Nat : Attempts(Tries(a, s), n))'
  <2> SUFFICES ASSUME NEW s \in Nat PROVE \E n \in Nat : Attempts(Tries(a, s)', n)
    BY DEF Attempts
  <2>1. Tries(a, s)' = Tries(a, s) /\ \E n \in Nat : Attempts(Tries(a, s), n)
    BY <1>2, <1>7
  <2> QED
    BY <2>1
<1>5. CASE report'[a].pc = "dead"
  BY <1>4, <1>5 DEF DeliveryStands
<1>6. CASE /\ report[a].pc \in {"idle", "look", "count"} /\ report'[a].pc \in {"look", "store", "count", "counted"}
           /\ report'[a].pc \in {"look", "store"} => report'[a].sink = report[a].sink /\ report[a].pc \in {"idle", "look"}
  <2>1. \A s \in Nat : Tries(a, s)' = {}
    BY <1>2, <1>3, <1>6 DEF DeliveryStands
  <2>2. report'[a].pc \in {"look", "store"} => report'[a].sink = 0
    BY <1>3, <1>6 DEF DeliveryStands
  <2> QED
    BY <1>4, <1>6, <2>1, <2>2 DEF DeliveryStands
<1> QED
  BY <1>5, <1>6 DEF Moves

LEMMA DeliveriesStep ==
  ASSUME AlertInv, NEW a \in Report, Moves(a), RowsAreReports',
         report' \in [Report -> ReportCall], \A b \in Report : b # a => report'[b] = report[b]
  PROVE  DeliveriesStand'
<1>1. DeliveryStands(a)'
  <2>1. report[a].pc \in {"idle", "look", "count", "store", "send", "record"}
    BY DEF Moves
  <2> QED
    BY <2>1, StoreDelivers, SendDelivers, RecordDelivers, OtherwiseDelivers
<1>2. \A d \in delivered' : d \in delivered \/ (d.of = a /\ report[a].pc = "record" /\ alert' = alert)
  BY DEF Moves
<1>3. \A b \in Report : alert[b].stored => alert'[b].stored
  BY DEF Moves, AlertInv, AlertsTyped, AlertRow, OriginalsAreRows
<1>4. ASSUME NEW b \in Report, b # a
      PROVE  DeliveryStands(b)'
  <2>1. \A s \in Nat : Tries(b, s)' = Tries(b, s)
    <3>1. \A d \in delivered' : d.of = b => d \in delivered
      BY <1>2, <1>4
    <3>2. delivered \subseteq delivered'
      BY DEF Moves
    <3> QED
      BY <3>1, <3>2 DEF Tries
  <2>2. DeliveryStands(b) /\ AlertsTyped /\ report'[b] = report[b]
    BY <1>4 DEF AlertInv, DeliveriesStand
  <2> QED
    BY <2>1, <2>2, SameDeliveries
<1>5. \A d \in delivered' : alert'[d.of].stored
  <2> SUFFICES ASSUME NEW d \in delivered' PROVE alert'[d.of].stored
    OBVIOUS
  <2>1. CASE d \in delivered
    <3>1. d.of \in Report /\ alert[d.of].stored
      BY <2>1 DEF AlertInv, AlertsTyped, Delivery, DeliveriesStand
    <3> QED
      BY <1>3, <3>1
  <2>2. CASE d.of = a /\ report[a].pc = "record" /\ alert' = alert
    BY <2>2 DEF AlertInv, RowsAreReports
  <2> QED
    BY <1>2, <2>1, <2>2
<1> QED
  BY <1>1, <1>4, <1>5 DEF DeliveriesStand

LEMMA ResolveKeeps == ASSUME AlertInv, NEW b \in Report, Resolve(b) PROVE AlertInv'
<1>1. report' = report /\ delivered' = delivered /\ instant' = instant
      /\ alert' = [alert EXCEPT ![b].resolved = instant]
  BY DEF Resolve
<1>2. alert' \in [Report -> AlertRow]
      /\ \A c \in Report : alert'[c].stored = alert[c].stored /\ alert'[c].suppressed = alert[c].suppressed
  BY <1>1 DEF AlertInv, AlertsTyped, AlertRow
<1>3. AlertsTyped'
  BY <1>1, <1>2 DEF AlertInv, AlertsTyped
<1>4. RowsAreReports' /\ OriginalsAreRows'
  BY <1>1, <1>2 DEF AlertInv, RowsAreReports, OriginalsAreRows, Stored, About
<1>5. CountsAgree'
  BY <1>1, <1>2, <1>3, SameCounts DEF AlertInv
<1>6. \A a \in Report : DeliveryStands(a)'
  <2> SUFFICES ASSUME NEW a \in Report PROVE DeliveryStands(a)'
    OBVIOUS
  <2>1. \A s \in Nat : Tries(a, s)' = Tries(a, s)
    BY <1>1 DEF Tries
  <2>2. DeliveryStands(a) /\ AlertsTyped /\ report'[a] = report[a]
    BY <1>1 DEF AlertInv, DeliveriesStand
  <2> QED
    BY <2>1, <2>2, SameDeliveries
<1>7. DeliveriesStand'
  BY <1>1, <1>2, <1>6 DEF AlertInv, DeliveriesStand, AlertsTyped, Delivery
<1> QED
  BY <1>3, <1>4, <1>5, <1>7 DEF AlertInv

LEMMA QuietKeeps ==
  ASSUME AlertInv, report' = report, alert' = alert, delivered' = delivered, instant' \in Nat
  PROVE  AlertInv'
<1>1. AlertsTyped' /\ RowsAreReports' /\ OriginalsAreRows'
  BY DEF AlertInv, AlertsTyped, RowsAreReports, OriginalsAreRows, Stored, About
<1>2. CountsAgree'
  BY <1>1, SameCounts DEF AlertInv
<1>3. \A a \in Report : DeliveryStands(a)'
  <2> SUFFICES ASSUME NEW a \in Report PROVE DeliveryStands(a)'
    OBVIOUS
  <2>1. \A s \in Nat : Tries(a, s)' = Tries(a, s)
    BY DEF Tries
  <2>2. DeliveryStands(a) /\ AlertsTyped /\ report'[a] = report[a]
    BY DEF AlertInv, DeliveriesStand
  <2> QED
    BY <2>1, <2>2, SameDeliveries
<1>4. DeliveriesStand'
  BY <1>3 DEF AlertInv, DeliveriesStand
<1> QED
  BY <1>1, <1>2, <1>4 DEF AlertInv

(* "It is never a silent drop" (alerts.py): whatever reports overlap, crash or *)
(* are resolved by an operator, the rows of a condition count every report that *)
(* got no row of its own, each of these has a row of its condition within the  *)
(* window, and the recorded deliveries of a row are, sink by sink, its attempts *)
(* from the first on, with nothing after a success.                            *)
THEOREM NothingIsEverLost == AlertSpec => []NothingIsLost
<1>1. AlertInit => AlertInv
  BY AlertsInitially
<1>2. AlertInv /\ [AlertNext]_alertVars => AlertInv'
  <2> SUFFICES ASSUME AlertInv, [AlertNext]_alertVars PROVE AlertInv'
    OBVIOUS
  <2>1. ASSUME NEW a \in Report, Moves(a), instant' = instant, report' \in [Report -> ReportCall],
               \A b \in Report : b # a => report'[b] = report[b]
        PROVE  AlertInv'
    <3>1. AlertsTyped' /\ RowsAreReports' /\ OriginalsAreRows'
      BY <2>1, RowsStep
    <3>2. CountsAgree'
      BY <2>1, <3>1, CountsStep
    <3>3. DeliveriesStand'
      BY <2>1, <3>1, DeliveriesStep
    <3> QED
      BY <3>1, <3>2, <3>3 DEF AlertInv
  <2>2. AlertsTyped
    BY DEF AlertInv
  <2> QED
    BY <2>1, <2>2, StepsOfAlerts, ResolveKeeps, QuietKeeps
<1> QED
  BY <1>1, <1>2, AlertInvTells, PTL DEF AlertSpec

-----------------------------------------------------------------------------
(* The health of shadow operations.                                           *)
HealthDecision == {"HEALTHY", "DEGRADED", "PAUSE_RECOMMENDED", "PAUSE_REQUIRED"}
PolicyHash == Policy \cup {"none"}
StreakState == [decision : HealthDecision, fails : Nat, recoveries : Nat, policy : PolicyHash]
Entry == [verdict : Verdict, policy : PolicyHash]
Evaluation ==
  [pc : {"idle", "read", "save", "apply", "write"}, scope : Nat, verdict : [Scope -> Verdict] \cup {<<>>},
   policy : PolicyHash, structural : BOOLEAN, read : StreakState, seen : Nat, worst : HealthDecision]

HealthTyped ==
  /\ PauseTypeOK
  /\ hyst \in [Scope -> StreakState]
  /\ history \in [Scope -> Seq(Entry)]
  /\ eval \in [Runner -> Evaluation]
  /\ lost \subseteq Scope /\ reopened \in BOOLEAN

OneStreak(state, n) == (state.fails = 0 \/ state.recoveries = 0) /\ state.fails + state.recoveries <= n

(* Where an evaluation is, and what it read of its dimension's streaks.        *)
EvaluationStands(r) ==
  LET e == eval[r] s == e.scope IN
  /\ e.pc \in {"read", "save"} => s \in Scope
  /\ e.pc = "apply" => s = Scopes + 1
  /\ e.pc \in {"read", "save", "apply"} => e.verdict \in [Scope -> Verdict]
  /\ e.pc = "save" =>
       /\ e.read.policy = e.policy /\ e.seen <= Len(history[s]) /\ OneStreak(e.read, e.seen)
       /\ e.seen = Len(history[s]) => e.read = Under(hyst[s], e.policy)
  /\ e.pc = "write" => asked[r] = "automatic_pause"

(* What a row says of its history, and what it says as long as no save of its *)
(* dimension was lost.                                                        *)
Follows(state, h) ==
  /\ OneStreak(state, Len(h))
  /\ IF h = <<>> THEN state = Fresh("none") ELSE state.policy = h[Len(h)].policy
Agrees(state, h) ==
  /\ state.fails = Length(h, Failing, Len(h)) /\ state.recoveries = Length(h, {"PASS"}, Len(h))
  /\ state.decision = "PAUSE_REQUIRED" => Earned(h)

RowsFollowHistory ==
  /\ \A s \in Scope : Follows(hyst[s], history[s])
  /\ \A s \in Scope \ lost : Agrees(hyst[s], history[s])

(* Whose pause a dimension that blocks can still count on: an evaluation that *)
(* comes to it yet, that has seen it, or that is about to pause.              *)
Answers(r, s) ==
  LET e == eval[r] IN
  \/ e.pc \in {"read", "save"} /\ e.scope <= s
  \/ e.pc \in {"read", "save", "apply"} /\ e.scope > s
     /\ e.worst = "PAUSE_REQUIRED" /\ e.verdict[s] \in Breach
  \/ e.pc = "write"

Blocks(h) == Length(h, Failing, Len(h)) >= RequireAfter /\ h[Len(h)].verdict \in Breach

BlocksAreAnswered ==
  ~reopened => \A s \in Scope \ lost :
    Blocks(history[s]) => pause # "ACTIVE" \/ \E r \in Runner : Answers(r, s)

HealthInv ==
  /\ HealthTyped /\ (\A r \in Runner : EvaluationStands(r)) /\ RowsFollowHistory
  /\ BlocksAreAnswered
-----------------------------------------------------------------------------
(* One more evaluation of a history.                                          *)
Continues(h, e) == h # <<>> /\ h[Len(h)].policy = e.policy

LEMMA Appended ==
  ASSUME NEW h \in Seq(Entry), NEW e \in Entry
  PROVE  /\ Append(h, e) \in Seq(Entry) /\ Append(h, e) # <<>>
         /\ Len(h) \in Nat /\ Len(Append(h, e)) = Len(h) + 1
         /\ Append(h, e)[Len(h) + 1] = e
         /\ \A i \in 1..Len(h) : Append(h, e)[i] = h[i]
         /\ DOMAIN h = 1..Len(h) /\ DOMAIN Append(h, e) = 1..(Len(h) + 1)
  OBVIOUS

LEMMA CountingAfter ==
  ASSUME NEW h \in Seq(Entry), NEW e \in Entry
  PROVE  Counting(Append(h, e)) = (IF Continues(h, e) THEN Counting(h) ELSE {})
                                    \cup (IF e.verdict = "NONE" THEN {} ELSE {Len(h) + 1})
<1> DEFINE H == Append(h, e)
           n == Len(h) + 1
           Old == IF Continues(h, e) THEN Counting(h) ELSE {}
           Add == IF e.verdict = "NONE" THEN {} ELSE {n}
<1>1. /\ Len(h) \in Nat /\ Len(H) = n /\ H[n] = e /\ DOMAIN h = 1..Len(h) /\ DOMAIN H = 1..n
      /\ \A i \in 1..Len(h) : H[i] = h[i]
  BY Appended
<1>2. n = Len(h) + 1
  OBVIOUS
<1> HIDE DEF H, n
<1>3. \A i \in 1..n : i \in 1..Len(h) \/ i = n
  BY <1>1, <1>2
<1>4. ASSUME NEW i \in Counting(H) PROVE i \in Old \cup Add
  <2>1. i \in 1..n /\ H[i].verdict # "NONE" /\ \A j \in i..n : H[j].policy = e.policy
    BY <1>1 DEF Counting
  <2>2. CASE i = n
    BY <1>1, <2>1, <2>2
  <2>3. CASE i \in 1..Len(h)
    <3>1. Len(h) \in i..n /\ Len(h) \in 1..Len(h)
      BY <1>1, <1>2, <2>3
    <3>2. h # <<>> /\ h[Len(h)].policy = e.policy
      BY <1>1, <2>1, <3>1
    <3>3. \A j \in i..Len(h) : j \in i..n /\ j \in 1..Len(h)
      BY <1>1, <1>2, <2>3
    <3>4. \A j \in i..Len(h) : h[j].policy = h[Len(h)].policy
      BY <1>1, <2>1, <3>2, <3>3
    <3>5. h[i].verdict # "NONE"
      BY <1>1, <2>1, <2>3
    <3>6. i \in Counting(h)
      BY <1>1, <2>3, <3>4, <3>5 DEF Counting
    <3> QED
      BY <3>2, <3>6 DEF Continues
  <2> QED
    BY <1>3, <2>1, <2>2, <2>3
<1>5. ASSUME NEW i \in Old PROVE i \in Counting(H)
  <2>1. Continues(h, e) /\ i \in Counting(h)
    OBVIOUS
  <2>2. i \in 1..Len(h) /\ h[i].verdict # "NONE" /\ \A j \in i..Len(h) : h[j].policy = e.policy
    BY <1>1, <2>1 DEF Counting, Continues
  <2>3. \A j \in i..n : j = n \/ (j \in i..Len(h) /\ j \in 1..Len(h))
    BY <1>1, <1>2, <2>2
  <2>4. \A j \in i..n : H[j].policy = e.policy
    BY <1>1, <2>2, <2>3
  <2>5. i \in 1..n
    BY <1>1, <1>2, <2>2
  <2> QED
    BY <1>1, <2>2, <2>4, <2>5 DEF Counting
<1>6. ASSUME NEW i \in Add PROVE i \in Counting(H)
  <2>1. i = n /\ e.verdict # "NONE"
    OBVIOUS
  <2>2. n \in 1..n /\ \A j \in n..n : j = n
    BY <1>1, <1>2
  <2> QED
    BY <1>1, <2>1, <2>2 DEF Counting
<1>7. Counting(H) = Old \cup Add
  BY <1>4, <1>5, <1>6
<1> QED
  BY <1>7 DEF H, n

LEMMA StreakIsFinite ==
  ASSUME NEW h \in Seq(Entry), NEW S, NEW to \in Int
  PROVE  /\ Streak(h, S, to) \subseteq 1..Len(h) /\ IsFiniteSet(Streak(h, S, to))
         /\ Length(h, S, to) \in Nat
<1>1. Streak(h, S, to) \subseteq 1..Len(h) /\ Len(h) \in Nat
  BY DEF Streak, Counting
<1>2. IsFiniteSet(1..Len(h))
  BY <1>1, FS_Interval
<1> QED
  BY <1>1, <1>2, FS_Subset, FS_CardinalityType DEF Length

(* What was counted stays as long as the policy does.                         *)
LEMMA OldStreaks ==
  ASSUME NEW h \in Seq(Entry), NEW e \in Entry, Continues(h, e), NEW S, NEW i \in 1..Len(h)
  PROVE  Streak(Append(h, e), S, i) = Streak(h, S, i)
<1> DEFINE H == Append(h, e)
           n == Len(h) + 1
<1>1. Len(h) \in Nat /\ \A j \in 1..Len(h) : H[j] = h[j]
  BY Appended
<1>2. \A j : j \in Counting(h) => j \in 1..Len(h)
  BY Appended DEF Counting
<1>3. \A j : j \in Counting(H) <=> (j \in Counting(h) \/ (j = n /\ e.verdict # "NONE"))
  BY CountingAfter
<1>4. i < n /\ n \in Nat /\ i \in Nat
  BY <1>1
<1> HIDE DEF H, n
<1>5. \A j : j \in Counting(H) /\ j <= i => j \in Counting(h)
  BY <1>3, <1>4
<1>6. \A j, k : k \in Counting(H) /\ k \in j..i => k \in Counting(h) /\ k <= i
  BY <1>3, <1>4
<1>7. Streak(H, S, i) \subseteq Streak(h, S, i)
  BY <1>1, <1>2, <1>3, <1>5 DEF Streak
<1>8. Streak(h, S, i) \subseteq Streak(H, S, i)
  BY <1>1, <1>2, <1>3, <1>6 DEF Streak
<1> QED
  BY <1>7, <1>8 DEF H

LEMMA NewStreak ==
  ASSUME NEW h \in Seq(Entry), NEW e \in Entry, NEW S, "NONE" \notin S
  PROVE  Streak(Append(h, e), S, Len(h) + 1) =
           IF e.verdict = "NONE" THEN IF Continues(h, e) THEN Streak(h, S, Len(h)) ELSE {}
           ELSE IF e.verdict \in S THEN (IF Continues(h, e) THEN Streak(h, S, Len(h)) ELSE {}) \cup {Len(h) + 1}
           ELSE {}
<1> DEFINE H == Append(h, e)
           n == Len(h) + 1
           C == IF Continues(h, e) THEN Counting(h) ELSE {}
           Old == IF Continues(h, e) THEN Streak(h, S, Len(h)) ELSE {}
<1>1. Len(h) \in Nat /\ H[n] = e /\ \A j \in 1..Len(h) : H[j] = h[j]
  BY Appended
<1>2. \A j \in C : j \in 1..Len(h) /\ j \in Nat
  BY Appended DEF Counting
<1>3. Counting(H) = C \cup (IF e.verdict = "NONE" THEN {} ELSE {n})
  BY CountingAfter
<1>4. n \in Nat /\ n = Len(h) + 1
  BY <1>1
<1>5. \A j : j \in Old <=> (j \in C /\ \A k \in C : k >= j => h[k].verdict \in S)
  <2>1. \A j \in Counting(h) : j \in 1..Len(h)
    BY Appended DEF Counting
  <2>2. \A j, k \in 1..Len(h) : k >= j <=> k \in j..Len(h)
    BY <1>1
  <2>3. \A j \in 1..Len(h) : j <= Len(h)
    BY <1>1
  <2> QED
    BY <2>1, <2>2, <2>3 DEF Streak
<1> HIDE DEF H, n, C, Old
<1>6. \A j : j \in Streak(H, S, n) <=> (j \in Counting(H) /\ \A k \in Counting(H) : k >= j => H[k].verdict \in S)
  <2>1. \A j \in Counting(H) : j \in Nat /\ j <= n
    BY <1>1, <1>2, <1>3, <1>4
  <2>2. \A j, k \in Counting(H) : k >= j <=> k \in j..n
    BY <1>4, <2>1
  <2> QED
    BY <2>1, <2>2 DEF Streak
<1>7. CASE e.verdict = "NONE"
  <2>1. Counting(H) = C
    BY <1>3, <1>7
  <2>2. \A j : j \in Streak(H, S, n) <=> j \in Old
    BY <1>1, <1>2, <1>5, <1>6, <2>1
  <2>3. Streak(H, S, n) = Old
    BY <2>2 DEF Streak, Old
  <2> QED
    BY <1>7, <2>3 DEF H, n, Old
<1>8. CASE e.verdict # "NONE" /\ e.verdict \in S
  <2>1. \A j : j \in Counting(H) <=> (j \in C \/ j = n)
    BY <1>3, <1>8
  <2>2. \A j \in C : n >= j /\ j # n
    BY <1>1, <1>2, <1>4
  <2>3. \A j : j \in Streak(H, S, n) <=> (j \in Old \/ j = n)
    <3>1. ASSUME NEW j \in Old PROVE j \in Streak(H, S, n)
      BY <1>1, <1>2, <1>5, <1>6, <1>8, <2>1
    <3>2. \A k \in C : ~ (k >= n)
      BY <1>1, <1>2, <1>4
    <3>3. n \in Streak(H, S, n)
      BY <1>1, <1>6, <1>8, <2>1, <3>2
    <3>4. ASSUME NEW j \in Streak(H, S, n), j # n PROVE j \in Old
      <4>1. j \in C /\ \A k \in C : k >= j => H[k].verdict \in S
        BY <1>6, <2>1, <3>4
      <4> QED
        BY <1>1, <1>2, <1>5, <4>1
    <3> QED
      BY <3>1, <3>3, <3>4
  <2>4. Streak(H, S, n) = Old \cup {n}
    BY <2>3
  <2> QED
    BY <1>8, <2>4 DEF H, n, Old
<1>9. CASE e.verdict # "NONE" /\ e.verdict \notin S
  <2>1. n \in Counting(H) /\ \A j \in Counting(H) : n >= j
    BY <1>1, <1>2, <1>3, <1>4, <1>9
  <2>2. Streak(H, S, n) = {}
    BY <1>1, <1>6, <1>9, <2>1
  <2> QED
    BY <1>9, <2>2 DEF H, n
<1> QED
  BY <1>7, <1>8, <1>9

(* How long the last streak of a kind is after one more evaluation.           *)
LEMMA LengthAfter ==
  ASSUME NEW h \in Seq(Entry), NEW e \in Entry, NEW S, "NONE" \notin S
  PROVE  LET base == IF Continues(h, e) THEN Length(h, S, Len(h)) ELSE 0 IN
         Length(Append(h, e), S, Len(h) + 1) =
           IF e.verdict = "NONE" THEN base ELSE IF e.verdict \in S THEN base + 1 ELSE 0
<1> DEFINE Old == IF Continues(h, e) THEN Streak(h, S, Len(h)) ELSE {}
           base == IF Continues(h, e) THEN Length(h, S, Len(h)) ELSE 0
<1>1. Len(h) \in Int
  OBVIOUS
<1>2. Old \subseteq 1..Len(h) /\ IsFiniteSet(Old) /\ Cardinality(Old) = base
  BY <1>1, StreakIsFinite, FS_EmptySet DEF Length
<1>3. Len(h) + 1 \notin Old
  BY <1>1, <1>2
<1>4. Cardinality(Old \cup {Len(h) + 1}) = base + 1
  BY <1>2, <1>3, FS_AddElement
<1>5. Cardinality({}) = 0
  BY FS_EmptySet
<1>6. Streak(Append(h, e), S, Len(h) + 1) =
        IF e.verdict = "NONE" THEN Old ELSE IF e.verdict \in S THEN Old \cup {Len(h) + 1} ELSE {}
  BY NewStreak
<1> HIDE DEF Old, base
<1>7. Length(Append(h, e), S, Len(h) + 1) =
        IF e.verdict = "NONE" THEN base ELSE IF e.verdict \in S THEN base + 1 ELSE 0
  BY <1>2, <1>4, <1>5, <1>6 DEF Length
<1> QED
  BY <1>7 DEF base
-----------------------------------------------------------------------------
(* One more verdict on a dimension's streaks.                                 *)
LEMMA CountedIs ==
  ASSUME NEW state \in StreakState, NEW fails \in Nat
  PROVE  /\ Counted(state, fails) \in HealthDecision
         /\ fails >= RequireAfter => Counted(state, fails) = "PAUSE_REQUIRED"
         /\ Counted(state, fails) = "PAUSE_REQUIRED" => fails >= RequireAfter \/ state.decision = "PAUSE_REQUIRED"
<1>1. state.decision \in HealthDecision
  BY DEF StreakState
<1> QED
  BY <1>1 DEF Counted, HealthDecision

LEMMA AdvanceIs ==
  ASSUME NEW state \in StreakState, NEW verdict \in Verdict
  PROVE  LET next == Advance(state, verdict) IN
         /\ next \in StreakState /\ next.policy = state.policy
         /\ next.fails = IF verdict = "NONE" THEN state.fails
                         ELSE IF verdict \in Failing THEN state.fails + 1 ELSE 0
         /\ next.recoveries = IF verdict = "NONE" THEN state.recoveries
                              ELSE IF verdict \in {"PASS"} THEN state.recoveries + 1 ELSE 0
         /\ next.decision = "PAUSE_REQUIRED" =>
              \/ verdict = "SEVERE" \/ (verdict \in Failing /\ next.fails >= RequireAfter)
              \/ /\ state.decision = "PAUSE_REQUIRED"
                 /\ verdict = "PASS" => next.recoveries < RecoveryStreak
         /\ verdict = "SEVERE" \/ (verdict \in Failing /\ next.fails >= RequireAfter)
              => next.decision = "PAUSE_REQUIRED"
<1> DEFINE next == Advance(state, verdict)
<1>0. /\ state.fails \in Nat /\ state.recoveries \in Nat /\ state.decision \in HealthDecision
      /\ RecoveryStreak \in Nat
  BY HealthAssumption DEF StreakState
<1>1. CASE verdict = "NONE"
  BY <1>0, <1>1 DEF Advance, Failing
<1>2. CASE verdict = "SEVERE"
  <2> DEFINE fails == state.fails + 1
  <2>1. next = [state EXCEPT !.fails = fails, !.recoveries = 0, !.decision = "PAUSE_REQUIRED"]
    BY <1>2 DEF Advance
  <2>2. fails = state.fails + 1 /\ fails \in Nat /\ "PAUSE_REQUIRED" \in HealthDecision
    BY <1>0 DEF HealthDecision
  <2> HIDE DEF next, fails
  <2>3. next \in StreakState /\ next.policy = state.policy /\ next.fails = fails /\ next.recoveries = 0
        /\ next.decision = "PAUSE_REQUIRED"
    BY <2>1, <2>2 DEF StreakState
  <2> QED
    BY <1>2, <2>2, <2>3 DEF next, Failing
<1>3. CASE verdict \in {"WARNING", "FAIL"}
  <2> DEFINE fails == state.fails + 1
             decision == Counted(state, fails)
  <2>1. next = [state EXCEPT !.fails = fails, !.recoveries = 0, !.decision = decision]
    BY <1>3 DEF Advance
  <2>2. fails = state.fails + 1 /\ fails \in Nat
    BY <1>0
  <2> HIDE DEF fails
  <2>4. /\ decision \in HealthDecision
        /\ fails >= RequireAfter => decision = "PAUSE_REQUIRED"
        /\ decision = "PAUSE_REQUIRED" => fails >= RequireAfter \/ state.decision = "PAUSE_REQUIRED"
    BY <2>2, CountedIs
  <2> HIDE DEF next, decision
  <2>3. next \in StreakState /\ next.policy = state.policy /\ next.fails = fails /\ next.recoveries = 0
        /\ next.decision = decision
    BY <2>1, <2>2, <2>4 DEF StreakState
  <2> QED
    BY <1>3, <2>2, <2>3, <2>4 DEF next, Failing
<1>4. CASE verdict = "PASS"
  <2> DEFINE recoveries == state.recoveries + 1
             decision == IF state.recoveries + 1 >= RecoveryStreak THEN "HEALTHY" ELSE state.decision
  <2>1. next = [state EXCEPT !.fails = 0, !.recoveries = recoveries, !.decision = decision]
    BY <1>4 DEF Advance
  <2>2. recoveries = state.recoveries + 1 /\ recoveries \in Nat
    BY <1>0
  <2>4. /\ decision \in HealthDecision
        /\ decision = "PAUSE_REQUIRED" => recoveries < RecoveryStreak /\ state.decision = "PAUSE_REQUIRED"
    BY <1>0, <2>2 DEF HealthDecision
  <2> HIDE DEF next, decision, recoveries
  <2>3. next \in StreakState /\ next.policy = state.policy /\ next.fails = 0 /\ next.recoveries = recoveries
        /\ next.decision = decision
    BY <2>1, <2>2, <2>4 DEF StreakState
  <2> QED
    BY <1>4, <2>2, <2>3, <2>4 DEF next, Failing
<1> QED
  BY <1>1, <1>2, <1>3, <1>4 DEF Verdict

(* The streaks one has who starts afresh under another policy.                *)
LEMMA UnderIs ==
  ASSUME NEW state \in StreakState, NEW policy \in PolicyHash
  PROVE  /\ Under(state, policy) \in StreakState /\ Under(state, policy).policy = policy
         /\ Under(state, policy).fails = IF state.policy = policy THEN state.fails ELSE 0
         /\ Under(state, policy).recoveries = IF state.policy = policy THEN state.recoveries ELSE 0
         /\ Under(state, policy).decision = IF state.policy = policy THEN state.decision ELSE "HEALTHY"
<1>1. Fresh(policy) \in StreakState /\ Fresh(policy).policy = policy /\ Fresh(policy).fails = 0
      /\ Fresh(policy).recoveries = 0 /\ Fresh(policy).decision = "HEALTHY"
  BY DEF Fresh, StreakState, HealthDecision
<1> QED
  BY <1>1 DEF Under

(* A save over the row that was read.                                         *)
LEMMA AgreesAfter ==
  ASSUME NEW state \in StreakState, NEW h \in Seq(Entry), NEW e \in Entry,
         Agrees(state, h), Follows(state, h)
  PROVE  Agrees(Advance(Under(state, e.policy), e.verdict), Append(h, e))
<1> DEFINE read == Under(state, e.policy)
           next == Advance(read, e.verdict)
           H == Append(h, e)
           n == Len(h) + 1
<1>0. e.verdict \in Verdict /\ e.policy \in PolicyHash /\ "NONE" \notin Failing /\ "NONE" \notin {"PASS"}
  BY DEF Entry, Failing
<1>1. Len(h) \in Nat /\ Len(H) = n /\ H[n] = e /\ \A i \in 1..Len(h) : H[i] = h[i]
  BY Appended
<1>2. /\ read \in StreakState
      /\ read.fails = IF state.policy = e.policy THEN state.fails ELSE 0
      /\ read.recoveries = IF state.policy = e.policy THEN state.recoveries ELSE 0
      /\ read.decision = IF state.policy = e.policy THEN state.decision ELSE "HEALTHY"
  BY <1>0, UnderIs
<1>3. Continues(h, e) => state.policy = e.policy
  BY DEF Continues, Follows
<1>4. ~Continues(h, e) => \/ state.policy # e.policy
                          \/ state.fails = 0 /\ state.recoveries = 0 /\ state.decision = "HEALTHY"
  BY DEF Continues, Follows, Fresh
<1>5. /\ read.fails = IF Continues(h, e) THEN Length(h, Failing, Len(h)) ELSE 0
      /\ read.recoveries = IF Continues(h, e) THEN Length(h, {"PASS"}, Len(h)) ELSE 0
      /\ read.decision = "PAUSE_REQUIRED" => Continues(h, e) /\ Earned(h)
  BY <1>2, <1>3, <1>4 DEF Agrees
<1> HIDE DEF read
<1>6. /\ next.fails = IF e.verdict = "NONE" THEN read.fails
                      ELSE IF e.verdict \in Failing THEN read.fails + 1 ELSE 0
      /\ next.recoveries = IF e.verdict = "NONE" THEN read.recoveries
                           ELSE IF e.verdict \in {"PASS"} THEN read.recoveries + 1 ELSE 0
      /\ next.decision = "PAUSE_REQUIRED" =>
           \/ e.verdict = "SEVERE" \/ (e.verdict \in Failing /\ next.fails >= RequireAfter)
           \/ /\ read.decision = "PAUSE_REQUIRED"
              /\ e.verdict = "PASS" => next.recoveries < RecoveryStreak
  BY <1>0, <1>2, AdvanceIs
<1> HIDE DEF next
<1>7. next.fails = Length(H, Failing, n)
  <2>1. LET base == IF Continues(h, e) THEN Length(h, Failing, Len(h)) ELSE 0 IN
        Length(H, Failing, n) =
           IF e.verdict = "NONE" THEN base ELSE IF e.verdict \in Failing THEN base + 1 ELSE 0
    BY <1>0, LengthAfter
  <2> QED
    BY <1>5, <1>6, <2>1
<1>8. next.recoveries = Length(H, {"PASS"}, n)
  <2>1. LET base == IF Continues(h, e) THEN Length(h, {"PASS"}, Len(h)) ELSE 0 IN
        Length(H, {"PASS"}, n) =
           IF e.verdict = "NONE" THEN base ELSE IF e.verdict \in {"PASS"} THEN base + 1 ELSE 0
    BY <1>0, LengthAfter
  <2> QED
    BY <1>5, <1>6, <2>1
<1>9. Counting(H) = (IF Continues(h, e) THEN Counting(h) ELSE {}) \cup (IF e.verdict = "NONE" THEN {} ELSE {n})
  BY CountingAfter
<1>10. \A j \in Counting(h) : j \in 1..Len(h)
  BY Appended DEF Counting
<1>11. n \in Nat /\ (\A j \in 1..Len(h) : j < n) /\ RecoveryStreak \in Nat /\ RecoveryStreak > 0
  BY <1>1, HealthAssumption
<1> HIDE DEF H, n
<1>12. ASSUME next.decision = "PAUSE_REQUIRED" PROVE Earned(H)
  <2>1. CASE e.verdict = "SEVERE" \/ (e.verdict \in Failing /\ next.fails >= RequireAfter)
    <3>1. e.verdict # "NONE" /\ e.verdict \notin {"PASS"} /\ n \in Counting(H)
      BY <1>9, <2>1 DEF Failing
    <3>2. \A j \in Counting(H) : j >= n => j = n
      BY <1>9, <1>10, <1>11
    <3>3. Length(H, {"PASS"}, n) = 0
      BY <1>6, <1>8, <3>1
    <3>4. H[n].verdict = "SEVERE" \/ Length(H, Failing, n) >= RequireAfter
      BY <1>1, <1>7, <2>1
    <3>5. \A j \in Counting(H) : j >= n => Length(H, {"PASS"}, j) < RecoveryStreak
      BY <1>11, <3>2, <3>3
    <3> QED
      BY <3>1, <3>4, <3>5 DEF Earned
  <2>2. CASE read.decision = "PAUSE_REQUIRED" /\ (e.verdict = "PASS" => next.recoveries < RecoveryStreak)
    <3>1. Continues(h, e) /\ Earned(h)
      BY <1>5, <2>2
    <3>2. PICK i \in Counting(h) :
            /\ h[i].verdict = "SEVERE" \/ Length(h, Failing, i) >= RequireAfter
            /\ \A j \in Counting(h) : j >= i => Length(h, {"PASS"}, j) < RecoveryStreak
      BY <3>1 DEF Earned
    <3>3. \A j \in 1..Len(h) : Length(H, Failing, j) = Length(h, Failing, j)
                               /\ Length(H, {"PASS"}, j) = Length(h, {"PASS"}, j)
      BY <3>1, OldStreaks DEF Length, H
    <3>4. i \in Counting(H) /\ i \in 1..Len(h)
      BY <1>9, <1>10, <3>1
    <3>5. H[i].verdict = "SEVERE" \/ Length(H, Failing, i) >= RequireAfter
      BY <1>1, <3>2, <3>3, <3>4
    <3>6. e.verdict # "NONE" => Length(H, {"PASS"}, n) < RecoveryStreak
      BY <1>6, <1>8, <1>11, <2>2
    <3>7. \A j \in Counting(H) : j >= i => Length(H, {"PASS"}, j) < RecoveryStreak
      BY <1>9, <1>10, <3>1, <3>2, <3>3, <3>6
    <3> QED
      BY <3>4, <3>5, <3>7 DEF Earned
  <2> QED
    BY <1>6, <1>12, <2>1, <2>2
<1>13. Agrees(next, H)
  BY <1>1, <1>7, <1>8, <1>12 DEF Agrees, n
<1> QED
  BY <1>13 DEF next, read, H
-----------------------------------------------------------------------------
LEMMA QuietIs ==
  /\ Quiet \in Evaluation /\ Quiet.pc = "idle"
<1>1. Fresh("none") \in StreakState
  BY DEF Fresh, StreakState, HealthDecision, PolicyHash
<1> QED
  BY <1>1 DEF Quiet, Evaluation, HealthDecision, PolicyHash

LEMMA HealthInitially == HealthInit => HealthInv
<1> SUFFICES ASSUME HealthInit PROVE HealthInv
  OBVIOUS
<1>1. Fresh("none") \in StreakState /\ Fresh("none").fails = 0 /\ Fresh("none").recoveries = 0
      /\ Fresh("none").decision = "HEALTHY"
  BY DEF Fresh, StreakState, HealthDecision, PolicyHash
<1>2. HealthTyped
  <2>1. PauseTypeOK
    BY DEF HealthInit, PauseInit, PauseTypeOK, PauseState
  <2>2. <<>> \in Seq(Entry)
    OBVIOUS
  <2> QED
    BY <1>1, <2>1, <2>2, QuietIs DEF HealthInit, HealthTyped
<1>3. \A r \in Runner : EvaluationStands(r)
  BY QuietIs DEF HealthInit, EvaluationStands
<1>4. Len(<<>>) = 0 /\ Counting(<<>>) = {}
  BY DEF Counting
<1>5. \A S, to : Length(<<>>, S, to) = 0
  BY <1>4, FS_EmptySet DEF Length, Streak
<1>6. RowsFollowHistory
  BY <1>1, <1>4, <1>5 DEF HealthInit, RowsFollowHistory, Follows, Agrees, OneStreak
<1>7. BlocksAreAnswered
  <2>1. ~ (0 >= RequireAfter)
    BY HealthAssumption
  <2> QED
    BY <1>4, <1>5, <2>1 DEF HealthInit, BlocksAreAnswered, Blocks
<1> QED
  BY <1>2, <1>3, <1>6, <1>7 DEF HealthInv

LEMMA HealthInvDecides == HealthInv => StreaksDecide
<1> SUFFICES ASSUME HealthInv PROVE StreaksDecide
  OBVIOUS
<1>1. HealthTypeOK
  <2>1. DOMAIN Rank = HealthDecision
    BY DEF Rank, HealthDecision
  <2>2. \A s \in Scope : hyst[s] \in StreakState
    BY DEF HealthInv, HealthTyped
  <2>3. PauseTypeOK
    BY DEF HealthInv, HealthTyped
  <2>4. ASSUME NEW s \in Scope
        PROVE  /\ hyst[s].decision \in DOMAIN Rank /\ hyst[s].policy \in Policy \cup {"none"}
               /\ hyst[s].fails = 0 \/ hyst[s].recoveries = 0
               /\ hyst[s].fails + hyst[s].recoveries <= Len(history[s])
    <3>1. OneStreak(hyst[s], Len(history[s]))
      BY DEF HealthInv, RowsFollowHistory, Follows
    <3> QED
      BY <2>1, <2>2, <3>1 DEF StreakState, PolicyHash, OneStreak
  <2>5. \A r \in Runner : /\ eval[r].pc = "write" => asked[r] = "automatic_pause"
                          /\ eval[r].pc \in {"read", "save"} => eval[r].scope \in Scope
    BY DEF HealthInv, EvaluationStands
  <2> QED
    BY <2>3, <2>4, <2>5 DEF HealthTypeOK
<1>2. StreaksMatchHistory /\ RequiredIsEarned
  BY DEF HealthInv, RowsFollowHistory, Agrees, StreaksMatchHistory, RequiredIsEarned
<1>3. OutageBlocks
  BY DEF HealthInv, BlocksAreAnswered, Answers, Blocks, OutageBlocks
<1> QED
  BY <1>1, <1>2, <1>3 DEF StreaksDecide, StreaksAreEarned

(* What the others' evaluations stand on.                                     *)
LEMMA OthersStand ==
  ASSUME NEW q \in Runner, EvaluationStands(q), eval'[q] = eval[q],
         eval[q].pc = "write" => asked'[q] = asked[q],
         hyst' = hyst /\ history' = history
  PROVE  EvaluationStands(q)'
  BY DEF EvaluationStands, Under, Fresh, OneStreak

LEMMA SameRows == ASSUME RowsFollowHistory, hyst' = hyst, history' = history, lost' = lost PROVE RowsFollowHistory'
<1>1. \A s \in Scope : Follows(hyst'[s], history'[s])
  BY DEF RowsFollowHistory
<1>2. \A s \in Scope \ lost' : Agrees(hyst'[s], history'[s])
  BY DEF RowsFollowHistory
<1> QED
  BY <1>1, <1>2 DEF RowsFollowHistory, Follows, Agrees, OneStreak, Fresh, Earned, Length, Streak, Counting

(* The pauses of a step that saves nothing.                                   *)
LEMMA SameBlocks ==
  ASSUME BlocksAreAnswered, history' = history, lost' = lost, ~reopened' => ~reopened,
         reopened' \/ (pause # "ACTIVE" => pause' # "ACTIVE"),
         \A r \in Runner, s \in Scope :
           Answers(r, s) /\ Blocks(history[s]) => Answers(r, s)' \/ pause' # "ACTIVE" \/ reopened'
  PROVE  BlocksAreAnswered'
<1> SUFFICES ASSUME ~reopened', NEW s \in Scope \ lost, Blocks(history[s])
             PROVE  pause' # "ACTIVE" \/ \E r \in Runner : Answers(r, s)'
  BY DEF BlocksAreAnswered, Blocks, Length, Streak, Counting
<1>1. pause # "ACTIVE" \/ \E r \in Runner : Answers(r, s)
  BY DEF BlocksAreAnswered
<1> QED
  BY <1>1

LEMMA OperatorKeepsHealth == ASSUME HealthInv, NEW o \in Operator, HealthOperator(o) PROVE HealthInv'
<1>1. Operate(o) /\ reopened' = (reopened \/ Reopens(o))
      /\ hyst' = hyst /\ history' = history /\ eval' = eval /\ lost' = lost
  BY DEF HealthOperator
<1>2. HealthTyped /\ PauseTypeOK /\ asked[o] \in DOMAIN Transition \cup {"none"} /\ o \notin Runner
  BY PauseAssumption DEF HealthInv, HealthTyped, PauseTypeOK
<1>3. (\E kind \in Command : asked' = [asked EXCEPT ![o] = kind] /\ pause' = pause)
      \/ (asked[o] # "none" /\ pause' = Transition[asked[o]].to /\ asked' = [asked EXCEPT ![o] = "none"])
  BY <1>1 DEF Operate, Ask, Write
<1>4. PauseTypeOK' /\ \A r \in Runner : asked'[r] = asked[r]
  BY <1>2, <1>3, TransitionIs DEF PauseTypeOK, Command
<1>5. HealthTyped'
  BY <1>1, <1>2, <1>4 DEF HealthTyped, Reopens
<1>6. \A r \in Runner : EvaluationStands(r)'
  BY <1>1, <1>4, OthersStand DEF HealthInv
<1>7. RowsFollowHistory'
  BY <1>1, SameRows DEF HealthInv
<1>8. reopened' \/ (pause # "ACTIVE" => pause' # "ACTIVE")
  BY <1>1, <1>2, <1>3, TransitionIs DEF Reopens
<1>9. \A r \in Runner, s \in Scope : Answers(r, s) => Answers(r, s)'
  BY <1>1 DEF Answers
<1>10. BlocksAreAnswered'
  BY <1>1, <1>8, <1>9, SameBlocks DEF HealthInv
<1> QED
  BY <1>5, <1>6, <1>7, <1>10 DEF HealthInv

LEMMA BeginKeepsHealth == ASSUME HealthInv, NEW r \in Runner, BeginEvaluation(r) PROVE HealthInv'
<1>1. PICK verdict \in [Scope -> Verdict], policy \in Policy, structural \in BOOLEAN :
        eval' = [eval EXCEPT ![r] = [Quiet EXCEPT !.pc = "read", !.scope = 1, !.verdict = verdict,
                                                  !.policy = policy, !.structural = structural]]
  BY DEF BeginEvaluation
<1>2. hyst' = hyst /\ history' = history /\ lost' = lost /\ reopened' = FALSE /\ pause' = pause /\ asked' = asked
  BY DEF BeginEvaluation, pauseVars
<1> DEFINE new == [Quiet EXCEPT !.pc = "read", !.scope = 1, !.verdict = verdict,
                                !.policy = policy, !.structural = structural]
<1>3. new \in Evaluation /\ new.pc = "read" /\ new.scope = 1 /\ new.verdict = verdict
  BY QuietIs DEF Evaluation, PolicyHash
<1> HIDE DEF new
<1>4. eval' = [eval EXCEPT ![r] = new] /\ eval \in [Runner -> Evaluation]
  BY <1>1 DEF new, HealthInv, HealthTyped
<1>5. eval'[r] = new /\ eval' \in [Runner -> Evaluation] /\ \A q \in Runner : q # r => eval'[q] = eval[q]
  BY <1>3, <1>4
<1>6. HealthTyped'
  BY <1>2, <1>5 DEF HealthInv, HealthTyped, PauseTypeOK
<1>7. EvaluationStands(r)'
  <2>1. 1 \in Scope
    BY HealthAssumption DEF Scope
  <2> QED
    BY <1>3, <1>5, <2>1 DEF EvaluationStands
<1>8. \A q \in Runner : EvaluationStands(q)'
  BY <1>2, <1>5, <1>7, OthersStand DEF HealthInv
<1>9. RowsFollowHistory'
  BY <1>2, SameRows DEF HealthInv
<1>10. \A s \in Scope : Answers(r, s)'
  <2>1. \A s \in Scope : 1 <= s
    BY HealthAssumption DEF Scope
  <2> QED
    BY <1>3, <1>5, <2>1 DEF Answers
<1>11. BlocksAreAnswered'
  BY <1>10 DEF BlocksAreAnswered
<1> QED
  BY <1>6, <1>8, <1>9, <1>11 DEF HealthInv

LEMMA ReadKeepsHealth == ASSUME HealthInv, NEW r \in Runner, ReadStreak(r) PROVE HealthInv'
<1> DEFINE e == eval[r]
           s == e.scope
           read == Under(hyst[s], e.policy)
           seen == Len(history[s])
           new == [e EXCEPT !.pc = "save", !.read = read, !.seen = seen]
<1>1. e.pc = "read" /\ eval' = [eval EXCEPT ![r] = new]
      /\ hyst' = hyst /\ history' = history /\ lost' = lost /\ reopened' = reopened /\ pause' = pause /\ asked' = asked
  BY DEF ReadStreak, pauseVars, HealthInv, HealthTyped
<1>2. e \in Evaluation /\ s \in Scope /\ hyst[s] \in StreakState /\ history[s] \in Seq(Entry)
      /\ e.policy \in PolicyHash /\ e.verdict \in [Scope -> Verdict] /\ eval \in [Runner -> Evaluation]
  BY <1>1 DEF HealthInv, HealthTyped, EvaluationStands, Evaluation
<1>3. seen \in Nat /\ read \in StreakState /\ read.policy = e.policy /\ OneStreak(read, seen)
  <2>1. OneStreak(hyst[s], seen) /\ seen \in Nat
    BY <1>2 DEF HealthInv, RowsFollowHistory, Follows
  <2>2. read \in StreakState /\ read.policy = e.policy
        /\ read.fails = (IF hyst[s].policy = e.policy THEN hyst[s].fails ELSE 0)
        /\ read.recoveries = IF hyst[s].policy = e.policy THEN hyst[s].recoveries ELSE 0
    BY <1>2, UnderIs
  <2> QED
    BY <2>1, <2>2 DEF OneStreak
<1>0. read = Under(hyst[s], e.policy) /\ seen = Len(history[s])
  OBVIOUS
<1> HIDE DEF read, seen
<1>4. new \in Evaluation /\ new.pc = "save" /\ new.scope = s /\ new.policy = e.policy /\ new.read = read
      /\ new.seen = seen /\ new.verdict = e.verdict /\ new.worst = e.worst
  BY <1>2, <1>3 DEF Evaluation
<1> HIDE DEF new
<1>5. eval'[r] = new /\ eval' \in [Runner -> Evaluation] /\ \A q \in Runner : q # r => eval'[q] = eval[q]
  BY <1>1, <1>2, <1>4
<1>6. HealthTyped'
  BY <1>1, <1>5 DEF HealthInv, HealthTyped, PauseTypeOK
<1>7. EvaluationStands(r)'
  <2>1. OneStreak(eval'[r].read, eval'[r].seen)
    BY <1>3, <1>4, <1>5
  <2>2. eval'[r].scope = s /\ eval'[r].seen = seen /\ history'[s] = history[s] /\ hyst'[s] = hyst[s]
    BY <1>1, <1>4, <1>5
  <2>3. seen <= Len(history[s]) /\ eval'[r].read = Under(hyst'[s], eval'[r].policy)
    BY <1>0, <1>3, <1>4, <1>5, <2>2
  <2>4. eval'[r].read.policy = eval'[r].policy /\ eval'[r].verdict \in [Scope -> Verdict] /\ eval'[r].pc = "save"
    BY <1>2, <1>3, <1>4, <1>5
  <2>5. OneStreak(eval[r].read, eval[r].seen)'
    BY <2>1 DEF OneStreak
  <2>6. (eval[r].read = Under(hyst[eval[r].scope], eval[r].policy))'
    BY <2>2, <2>3 DEF Under, Fresh
  <2> QED
    BY <1>1, <1>2, <2>2, <2>3, <2>4, <2>5, <2>6 DEF EvaluationStands
<1>8. \A q \in Runner : EvaluationStands(q)'
  BY <1>1, <1>5, <1>7, OthersStand DEF HealthInv
<1>9. RowsFollowHistory'
  BY <1>1, SameRows DEF HealthInv
<1>10. \A q \in Runner, t \in Scope : Answers(q, t) => Answers(q, t)'
  BY <1>1, <1>4, <1>5 DEF Answers
<1>11. BlocksAreAnswered'
  BY <1>1, <1>10, SameBlocks DEF HealthInv
<1> QED
  BY <1>6, <1>8, <1>9, <1>11 DEF HealthInv

LEMMA CrashKeepsHealth == ASSUME HealthInv, NEW r \in Runner, CrashEvaluation(r) PROVE HealthInv'
<1>1. eval' = [eval EXCEPT ![r] = Quiet] /\ asked' = [asked EXCEPT ![r] = "none"] /\ reopened' = TRUE
      /\ hyst' = hyst /\ history' = history /\ lost' = lost /\ pause' = pause
  BY DEF CrashEvaluation
<1>2. eval \in [Runner -> Evaluation] /\ asked \in [Operator \cup Runner -> DOMAIN Transition \cup {"none"}]
  BY DEF HealthInv, HealthTyped, PauseTypeOK
<1>3. /\ eval'[r] = Quiet /\ eval' \in [Runner -> Evaluation]
      /\ \A q \in Runner : q # r => eval'[q] = eval[q] /\ asked'[q] = asked[q]
  BY <1>1, <1>2, QuietIs
<1>4. HealthTyped'
  BY <1>1, <1>2, <1>3 DEF HealthInv, HealthTyped, PauseTypeOK
<1>5. \A q \in Runner : EvaluationStands(q)'
  <2>1. EvaluationStands(r)'
    BY <1>3, QuietIs DEF EvaluationStands
  <2> QED
    BY <1>1, <1>3, <2>1, OthersStand DEF HealthInv
<1>6. RowsFollowHistory'
  BY <1>1, SameRows DEF HealthInv
<1> QED
  BY <1>1, <1>4, <1>5, <1>6 DEF HealthInv, BlocksAreAnswered

LEMMA WriteKeepsHealth == ASSUME HealthInv, NEW r \in Runner, WritePause(r) PROVE HealthInv'
<1>1. eval[r].pc = "write" /\ asked[r] = "automatic_pause"
  BY DEF HealthInv, EvaluationStands, WritePause
<1>2. pause' = "PAUSED_AUTO"
  BY <1>1, TransitionIs DEF WritePause, Write
<1>3. eval' = [eval EXCEPT ![r] = Quiet] /\ asked' = [asked EXCEPT ![r] = "none"]
      /\ hyst' = hyst /\ history' = history /\ lost' = lost /\ reopened' = reopened
  BY DEF WritePause, Write
<1>4. eval \in [Runner -> Evaluation] /\ asked \in [Operator \cup Runner -> DOMAIN Transition \cup {"none"}]
  BY DEF HealthInv, HealthTyped, PauseTypeOK
<1>5. /\ eval'[r] = Quiet /\ eval' \in [Runner -> Evaluation]
      /\ \A q \in Runner : q # r => eval'[q] = eval[q] /\ asked'[q] = asked[q]
  BY <1>3, <1>4, QuietIs
<1>6. HealthTyped'
  BY <1>2, <1>3, <1>4, <1>5 DEF HealthInv, HealthTyped, PauseTypeOK, PauseState, Paused
<1>7. \A q \in Runner : EvaluationStands(q)'
  <2>1. EvaluationStands(r)'
    BY <1>5, QuietIs DEF EvaluationStands
  <2> QED
    BY <1>3, <1>5, <2>1, OthersStand DEF HealthInv
<1>8. RowsFollowHistory'
  BY <1>3, SameRows DEF HealthInv
<1> QED
  BY <1>2, <1>6, <1>7, <1>8 DEF HealthInv, BlocksAreAnswered

LEMMA ApplyKeepsHealth == ASSUME HealthInv, NEW r \in Runner, ApplyHealth(r) PROVE HealthInv'
<1> DEFINE e == eval[r]
           asks == Effective(r) = "PAUSE_REQUIRED" /\ Flagged(r) /\ pause # "KILLED"
           new == IF asks THEN [e EXCEPT !.pc = "write"] ELSE Quiet
<1>1. e.pc = "apply" /\ hyst' = hyst /\ history' = history /\ lost' = lost /\ reopened' = reopened /\ pause' = pause
      /\ asked' = IF asks THEN [asked EXCEPT ![r] = "automatic_pause"] ELSE asked
  BY DEF ApplyHealth, Ask, pauseVars
<1>2. eval \in [Runner -> Evaluation] /\ asked \in [Operator \cup Runner -> DOMAIN Transition \cup {"none"}]
      /\ e \in Evaluation /\ e.scope = Scopes + 1 /\ e.verdict \in [Scope -> Verdict]
  BY <1>1 DEF HealthInv, HealthTyped, PauseTypeOK, EvaluationStands
<1>3. eval' = [eval EXCEPT ![r] = new]
  BY <1>2 DEF ApplyHealth
<1>4. new \in Evaluation /\ new.pc = IF asks THEN "write" ELSE "idle"
  BY <1>2, QuietIs DEF Evaluation
<1> HIDE DEF new
<1>5. eval'[r] = new /\ eval' \in [Runner -> Evaluation] /\ \A q \in Runner : q # r => eval'[q] = eval[q]
  BY <1>2, <1>3, <1>4
<1>6. asked' \in [Operator \cup Runner -> DOMAIN Transition \cup {"none"}]
      /\ (\A q \in Runner : q # r => asked'[q] = asked[q]) /\ (asks => asked'[r] = "automatic_pause")
  BY <1>1, <1>2, TransitionIs
<1>7. HealthTyped'
  BY <1>1, <1>5, <1>6 DEF HealthInv, HealthTyped, PauseTypeOK
<1>8. EvaluationStands(r)'
  BY <1>4, <1>5, <1>6 DEF EvaluationStands
<1>9. \A q \in Runner : EvaluationStands(q)'
  BY <1>1, <1>5, <1>6, <1>8, OthersStand DEF HealthInv
<1>10. RowsFollowHistory'
  BY <1>1, SameRows DEF HealthInv
<1>11. ASSUME NEW s \in Scope, Answers(r, s)
       PROVE  Answers(r, s)' \/ pause' # "ACTIVE"
  <2>1. e.worst = "PAUSE_REQUIRED" /\ e.verdict[s] \in Breach
    BY <1>1, <1>2, <1>11, HealthAssumption DEF Answers, Scope
  <2>2. Flagged(r)
    BY <2>1 DEF Flagged, Verdicts
  <2>3. Effective(r) = "PAUSE_REQUIRED"
    BY <2>1, <2>2 DEF Effective, Single
  <2>4. CASE pause = "KILLED"
    BY <1>1, <2>4
  <2>5. CASE pause # "KILLED"
    BY <1>4, <1>5, <2>2, <2>3, <2>5 DEF Answers
  <2> QED
    BY <2>4, <2>5
<1>12. \A q \in Runner, s \in Scope : q # r /\ Answers(q, s) => Answers(q, s)'
  BY <1>5 DEF Answers
<1>13. BlocksAreAnswered'
  BY <1>1, <1>11, <1>12, SameBlocks DEF HealthInv
<1> QED
  BY <1>7, <1>9, <1>10, <1>13 DEF HealthInv

LEMMA WorseIs ==
  ASSUME NEW a \in HealthDecision, NEW b \in HealthDecision
  PROVE  Worse(a, b) \in HealthDecision /\ (a = "PAUSE_REQUIRED" \/ b = "PAUSE_REQUIRED" => Worse(a, b) = "PAUSE_REQUIRED")
  BY DEF Worse, Rank, HealthDecision

(* What a saved dimension has of its row and its history, lost or not.        *)
LEMMA FollowsAfter ==
  ASSUME NEW read \in StreakState, NEW h \in Seq(Entry), NEW e \in Entry,
         read.policy = e.policy, NEW seen \in Nat, seen <= Len(h), OneStreak(read, seen)
  PROVE  Follows(Advance(read, e.verdict), Append(h, e))
<1> DEFINE next == Advance(read, e.verdict)
<1>1. e.verdict \in Verdict
  BY DEF Entry
<1>2. /\ next \in StreakState /\ next.policy = read.policy
      /\ next.fails = IF e.verdict = "NONE" THEN read.fails
                      ELSE IF e.verdict \in Failing THEN read.fails + 1 ELSE 0
      /\ next.recoveries = IF e.verdict = "NONE" THEN read.recoveries
                           ELSE IF e.verdict \in {"PASS"} THEN read.recoveries + 1 ELSE 0
  BY <1>1, AdvanceIs
<1>3. Len(h) \in Nat /\ Append(h, e) # <<>> /\ Len(Append(h, e)) = Len(h) + 1 /\ Append(h, e)[Len(h) + 1] = e
  BY Appended
<1>4. read.fails \in Nat /\ read.recoveries \in Nat
  BY DEF StreakState
<1> HIDE DEF next
<1>5. OneStreak(next, Len(h) + 1)
  <2>1. "PASS" \notin Failing
    BY DEF Failing
  <2>2. /\ read.fails = 0 \/ read.recoveries = 0
        /\ read.fails + read.recoveries <= Len(h)
    BY <1>3, <1>4 DEF OneStreak
  <2>3. next.fails = 0 \/ next.recoveries = 0
    BY <1>2, <2>1, <2>2
  <2>4. next.fails + next.recoveries <= Len(h) + 1
    BY <1>2, <1>3, <1>4, <2>1, <2>2
  <2> QED
    BY <2>3, <2>4 DEF OneStreak
<1>6. Follows(next, Append(h, e))
  BY <1>2, <1>3, <1>5 DEF Follows
<1> QED
  BY <1>6 DEF next

LEMMA SaveKeepsHealth == ASSUME HealthInv, NEW r \in Runner, SaveStreak(r) PROVE HealthInv'
<1> DEFINE w == eval[r]
           s == w.scope
           verdict == w.verdict[s]
           entry == [verdict |-> verdict, policy |-> w.policy]
           next == Advance(w.read, verdict)
           decision == IF pause \in {"PAUSED_MANUAL", "KILLED"} THEN "PAUSE_REQUIRED" ELSE next.decision
           scope == s + 1
           worst == Worse(w.worst, decision)
           pc == IF s = Scopes THEN "apply" ELSE "read"
           new == [w EXCEPT !.worst = worst, !.scope = scope, !.pc = pc]
<1>1. /\ w.pc = "save" /\ hyst' = [hyst EXCEPT ![s] = next] /\ history' = [history EXCEPT ![s] = Append(@, entry)]
      /\ lost' = (IF Len(history[s]) # w.seen THEN lost \cup {s} ELSE lost)
      /\ pause' = pause /\ asked' = asked /\ reopened' = reopened
  BY DEF SaveStreak, pauseVars
<1>2. /\ w \in Evaluation /\ s \in Scope /\ hyst \in [Scope -> StreakState] /\ history \in [Scope -> Seq(Entry)]
      /\ w.verdict \in [Scope -> Verdict] /\ eval \in [Runner -> Evaluation] /\ lost \subseteq Scope
      /\ w.policy \in PolicyHash /\ w.read \in StreakState /\ w.seen \in Nat /\ w.worst \in HealthDecision
  BY <1>1 DEF HealthInv, HealthTyped, EvaluationStands, Evaluation
<1>3. eval' = [eval EXCEPT ![r] = new]
  BY <1>2 DEF SaveStreak
<1>4. w.read.policy = w.policy /\ w.seen <= Len(history[s]) /\ OneStreak(w.read, w.seen)
      /\ (w.seen = Len(history[s]) => w.read = Under(hyst[s], w.policy))
  BY <1>1 DEF HealthInv, EvaluationStands
<1>5. verdict \in Verdict /\ entry \in Entry /\ entry.verdict = verdict /\ entry.policy = w.policy
  BY <1>2 DEF Entry
<1>6. next \in StreakState
  BY <1>2, <1>5, AdvanceIs
<1>7. decision \in HealthDecision /\ (next.decision = "PAUSE_REQUIRED" => decision = "PAUSE_REQUIRED")
  BY <1>6 DEF StreakState, HealthDecision
<1>8. worst \in HealthDecision
      /\ (w.worst = "PAUSE_REQUIRED" \/ next.decision = "PAUSE_REQUIRED" => worst = "PAUSE_REQUIRED")
  BY <1>2, <1>7, WorseIs
<1>9. scope \in Nat /\ scope = s + 1 /\ s \in 1..Scopes /\ Scopes \in Nat
  BY <1>2, HealthAssumption DEF Scope
<1>10. pc \in {"read", "apply"} /\ (pc = "read" => scope \in Scope) /\ (pc = "apply" => scope = Scopes + 1)
       /\ (scope \in Scope => pc = "read")
  BY <1>9 DEF Scope
<1>0. next = Advance(w.read, verdict)
  OBVIOUS
<1> HIDE DEF next, decision, worst, scope, pc, verdict, entry
<1>11. new \in Evaluation /\ new.pc = pc /\ new.scope = scope /\ new.worst = worst /\ new.verdict = w.verdict
  BY <1>2, <1>8, <1>9, <1>10 DEF Evaluation
<1> HIDE DEF new
<1>12. eval'[r] = new /\ eval' \in [Runner -> Evaluation] /\ \A q \in Runner : q # r => eval'[q] = eval[q]
  BY <1>2, <1>3, <1>11
<1>13. /\ hyst' \in [Scope -> StreakState] /\ hyst'[s] = next /\ history'[s] = Append(history[s], entry)
       /\ \A t \in Scope : t # s => hyst'[t] = hyst[t] /\ history'[t] = history[t]
       /\ history' \in [Scope -> Seq(Entry)]
  BY <1>1, <1>2, <1>5, <1>6
<1>14. history[s] \in Seq(Entry) /\ Len(history'[s]) = Len(history[s]) + 1 /\ Len(history[s]) \in Nat
       /\ history'[s][Len(history[s]) + 1] = entry
  BY <1>2, <1>5, <1>13, Appended
<1>15. HealthTyped'
  <2>1. lost' \subseteq Scope
    BY <1>1, <1>2
  <2> QED
    BY <1>1, <1>12, <1>13, <2>1 DEF HealthInv, HealthTyped, PauseTypeOK
<1>16. ASSUME NEW q \in Runner PROVE EvaluationStands(q)'
  <2>1. CASE q = r
    BY <1>2, <1>10, <1>11, <1>12, <2>1 DEF EvaluationStands
  <2>2. CASE q # r
    <3>1. eval'[q] = eval[q] /\ asked' = asked /\ EvaluationStands(q)
      BY <1>1, <1>12, <2>2 DEF HealthInv
    <3>2. CASE eval[q].pc = "save" /\ eval[q].scope = s
      <4>1. eval[q].seen \in Nat /\ eval[q].seen <= Len(history[s])
        BY <1>2, <3>1, <3>2 DEF EvaluationStands, Evaluation
      <4>2. eval[q].seen <= Len(history'[s]) /\ eval[q].seen # Len(history'[s])
        BY <1>14, <4>1
      <4>3. OneStreak(eval[q].read, eval[q].seen)'
        BY <3>1, <3>2 DEF EvaluationStands, OneStreak
      <4>4. (eval[q].seen <= Len(history[eval[q].scope]))' /\ (eval[q].seen # Len(history[eval[q].scope]))'
        BY <3>1, <3>2, <4>2
      <4> QED
        BY <3>1, <3>2, <4>3, <4>4 DEF EvaluationStands
    <3>3. CASE eval[q].pc = "save" /\ eval[q].scope # s
      <4>1. eval[q].scope \in Scope
        BY <3>1, <3>3 DEF EvaluationStands
      <4>2. history'[eval[q].scope] = history[eval[q].scope] /\ hyst'[eval[q].scope] = hyst[eval[q].scope]
        BY <1>13, <3>3, <4>1
      <4> QED
        BY <3>1, <3>3, <4>2 DEF EvaluationStands, Under, Fresh, OneStreak
    <3>4. CASE eval[q].pc # "save"
      BY <3>1, <3>4 DEF EvaluationStands
    <3> QED
      BY <3>2, <3>3, <3>4
  <2> QED
    BY <2>1, <2>2
<1>17. ASSUME s \notin lost' PROVE w.read = Under(hyst[s], w.policy) /\ s \notin lost
  BY <1>1, <1>4, <1>17
<1>18. s \notin lost' => Agrees(next, history'[s])
  <2> SUFFICES ASSUME s \notin lost' PROVE Agrees(next, history'[s])
    OBVIOUS
  <2>1. Agrees(hyst[s], history[s]) /\ Follows(hyst[s], history[s]) /\ hyst[s] \in StreakState
    BY <1>2, <1>17 DEF HealthInv, RowsFollowHistory
  <2>2. Agrees(Advance(Under(hyst[s], entry.policy), entry.verdict), Append(history[s], entry))
    BY <1>5, <1>14, <2>1, AgreesAfter
  <2> QED
    BY <1>0, <1>5, <1>13, <1>17, <2>2
<1>19. Follows(next, history'[s])
  <2>1. w.read.policy = entry.policy
    BY <1>4, <1>5
  <2>2. Follows(Advance(w.read, entry.verdict), Append(history[s], entry))
    BY <1>2, <1>4, <1>5, <1>14, <2>1, FollowsAfter
  <2> QED
    BY <1>0, <1>5, <1>13, <2>2
<1>20. RowsFollowHistory'
  <2>1. \A t \in Scope : Follows(hyst'[t], history'[t])
    BY <1>13, <1>19 DEF HealthInv, RowsFollowHistory
  <2>2. \A t \in Scope \ lost' : Agrees(hyst'[t], history'[t])
    BY <1>1, <1>13, <1>18 DEF HealthInv, RowsFollowHistory
  <2> QED
    BY <2>1, <2>2 DEF RowsFollowHistory, Follows, Agrees, OneStreak, Fresh, Earned, Length, Streak, Counting
<1>21. ASSUME s \notin lost', Blocks(history'[s]) PROVE next.decision = "PAUSE_REQUIRED" /\ verdict \in Breach
  <2>1. verdict \in Breach
    BY <1>5, <1>14, <1>21 DEF Blocks
  <2>2. next.fails >= RequireAfter
    BY <1>18, <1>21 DEF Blocks, Agrees
  <2>3. verdict = "SEVERE" \/ (verdict \in Failing /\ next.fails >= RequireAfter)
          => next.decision = "PAUSE_REQUIRED"
    BY <1>0, <1>2, <1>5, AdvanceIs
  <2> QED
    BY <2>1, <2>2, <2>3 DEF Breach, Failing
<1>22. ASSUME ~reopened', NEW t \in Scope \ lost', Blocks(history'[t])
       PROVE  pause' # "ACTIVE" \/ \E q \in Runner : Answers(q, t)'
  <2>1. t \in Nat /\ t <= Scopes /\ s \in Nat
    BY <1>9, <1>22 DEF Scope
  <2>2. CASE t = s
    <3>1. worst = "PAUSE_REQUIRED" /\ verdict \in Breach
      BY <1>8, <1>21, <1>22, <2>2
    <3>2. scope > t
      BY <1>9, <2>1, <2>2
    <3>3. w.verdict[t] \in Breach
      BY <2>2, <3>1 DEF verdict
    <3>4. Answers(r, t)'
      BY <1>10, <1>11, <1>12, <3>1, <3>2, <3>3 DEF Answers
    <3> QED
      BY <3>4
  <2>3. CASE t # s
    <3>1. t \in Scope \ lost /\ Blocks(history[t]) /\ ~reopened
      BY <1>1, <1>13, <1>22, <2>3
    <3>2. pause # "ACTIVE" \/ \E q \in Runner : Answers(q, t)
      BY <3>1 DEF HealthInv, BlocksAreAnswered
    <3>3. ASSUME NEW q \in Runner, q # r, Answers(q, t) PROVE Answers(q, t)'
      BY <1>12, <3>3 DEF Answers
    <3>4. ASSUME Answers(r, t) PROVE Answers(r, t)'
      <4>1. CASE s <= t
        <5>1. scope <= t /\ scope \in Scope
          BY <1>9, <2>1, <2>3, <4>1 DEF Scope
        <5> QED
          BY <1>10, <1>11, <1>12, <5>1 DEF Answers
      <4>2. CASE s > t
        <5>1. w.worst = "PAUSE_REQUIRED" /\ w.verdict[t] \in Breach
          BY <1>1, <2>1, <3>4, <4>2 DEF Answers
        <5>2. scope > t /\ worst = "PAUSE_REQUIRED"
          BY <1>8, <1>9, <2>1, <4>2, <5>1
        <5> QED
          BY <1>10, <1>11, <1>12, <5>1, <5>2 DEF Answers
      <4> QED
        BY <2>1, <4>1, <4>2
    <3> QED
      BY <1>1, <3>2, <3>3, <3>4
  <2> QED
    BY <2>2, <2>3
<1>23. BlocksAreAnswered'
  BY <1>22 DEF BlocksAreAnswered, Blocks, Length, Streak, Counting
<1> QED
  BY <1>15, <1>16, <1>20, <1>23 DEF HealthInv

LEMMA HealthRests ==
  ASSUME HealthInv, UNCHANGED <<pauseVars, healthVars>> PROVE HealthInv'
<1>1. hyst' = hyst /\ history' = history /\ eval' = eval /\ lost' = lost /\ reopened' = reopened
      /\ pause' = pause /\ asked' = asked
  BY DEF pauseVars, healthVars
<1>2. HealthTyped'
  BY <1>1 DEF HealthInv, HealthTyped, PauseTypeOK
<1>3. \A q \in Runner : EvaluationStands(q)'
  BY <1>1, OthersStand DEF HealthInv
<1>4. RowsFollowHistory'
  BY <1>1, SameRows DEF HealthInv
<1>5. \A q \in Runner, s \in Scope : Answers(q, s) => Answers(q, s)'
  BY <1>1 DEF Answers
<1>6. BlocksAreAnswered'
  BY <1>1, <1>5, SameBlocks DEF HealthInv
<1> QED
  BY <1>2, <1>3, <1>4, <1>6 DEF HealthInv

(* "evaluate_and_persist_hysteresis" and "apply_health_result": for any runs   *)
(* that interleave, crash and are overruled, the streaks of a dimension none   *)
(* of whose saves was lost are those of its recorded history, a pause is only  *)
(* required when that history bears it out, and once it is so for a breach and *)
(* the evaluations are over, no work starts before an operator lets it.        *)
THEOREM StreaksAlwaysDecide == HealthSpec => []StreaksDecide
<1>1. HealthInit => HealthInv
  BY HealthInitially
<1>2. HealthInv /\ [HealthNext]_<<pauseVars, healthVars>> => HealthInv'
  BY OperatorKeepsHealth, BeginKeepsHealth, ReadKeepsHealth, SaveKeepsHealth, ApplyKeepsHealth,
     WriteKeepsHealth, CrashKeepsHealth, HealthRests DEF HealthNext
<1> QED
  BY <1>1, <1>2, HealthInvDecides, PTL DEF HealthSpec
=============================================================================
