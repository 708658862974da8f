--------------------------- MODULE LocalBooksProofs ---------------------------
(* Theorems about the parts that MCLocalBooks runs side by side: the local    *)
(* simulator, for any number of intents, calls, prices and fees and for every *)
(* combination of the behaviours that the constants of LocalExecution admit;  *)
(* the process client, for any number of children and requests; and the       *)
(* credentialed order, for any quantity, submitters, cash and crashes.        *)
EXTENDS MCLocalBooks, SumTheorems, SequenceTheorems

-----------------------------------------------------------------------------
\* The local simulator.


\* A call that has passed the claim checks works under a local claim, which
\* nobody takes back.
ClaimedWhilePricing ==
    \A c \in Calls :
        call[c].pc \in {"check", "price", "fill"} =>
            claim[call[c].intent] = "LOCAL_SIMULATED"

\* Every call but an idle one is about an intent, and one that closes an
\* intent has a reason to.
BusyHasIntent ==
    \A c \in Calls :
        /\ call[c].pc # "idle" => call[c].intent \in Intents
        /\ call[c].pc \in {"release", "close"} => call[c].reason \in Closed

ClaimInv == TypeOK /\ BusyHasIntent /\ ClaimedWhilePricing /\ LocalFillIsClaimed

PositionInv == TypeOK /\ BusyHasIntent /\ PositionMatchesFills /\ LongOnly

-----------------------------------------------------------------------------
\* A release keeps the ledger's set of release reasons in type.
LEMMA ReleaseTyped ==
    ASSUME TypeOK, NEW i \in Intents, NEW reason \in {"FILLED"} \cup Closed,
           ReleaseReservation(i, reason)
    PROVE  released' \in [Buys -> SUBSET ({"FILLED"} \cup Closed)]
BY DEF TypeOK, ReleaseReservation

\* Two fields of a call's record set at once, by Load and by LoadToClose.
LEMMA LoadedRecord ==
    ASSUME NEW r \in Records, NEW seen \in Statuses, NEW label \in {"create", "claim"}
    PROVE  LET s == [r EXCEPT !.pc = label, !.seen = seen]
           IN s \in Records /\ s.pc = label /\ s.intent = r.intent
<1>1. [r EXCEPT !.pc = label] \in Records
  BY DEF Records
<1> QED
  BY <1>1 DEF Records

LEMMA ClosingRecord ==
    ASSUME NEW r \in Records, NEW reason \in Closed
    PROVE  LET s == [r EXCEPT !.pc = "release", !.reason = reason]
           IN s \in Records /\ s.intent = r.intent /\ s.reason = reason
<1>1. [r EXCEPT !.pc = "release"] \in Records
  BY DEF Records
<1> QED
  BY <1>1 DEF Records

\* Each commit of a service keeps the rows and the calls in type.
LEMMA StepPreservesTypes ==
    TypeOK /\ BusyHasIntent /\ [Next]_vars => TypeOK' /\ BusyHasIntent'
<1> SUFFICES ASSUME TypeOK, BusyHasIntent, [Next]_vars
             PROVE  TypeOK' /\ BusyHasIntent'
  OBVIOUS
<1> USE LocalAssumption
<1>1. CASE UNCHANGED vars
  BY <1>1 DEF vars, ledger, TypeOK, BusyHasIntent
<1>2. ASSUME NEW i \in Intents, ClaimExternally(i)
      PROVE  TypeOK' /\ BusyHasIntent'
  BY <1>2 DEF ClaimExternally, ledger, TypeOK, BusyHasIntent
<1>3. ASSUME NEW c \in Calls, Step(c)
      PROVE  TypeOK' /\ BusyHasIntent'
  <2> USE DEF At, Goto, Return, Idle, Statuses, Records, Pending, Closed, ledger
  <2>1. ASSUME NEW i \in Intents, Take(c, i) PROVE TypeOK' /\ BusyHasIntent'
    <3> DEFINE taken == [Idle EXCEPT !.pc = "taken", !.intent = i]
    <3>1. /\ taken \in [pc : {"taken"}, intent : Intents, seen : {"NONE"}, reason : {"NONE"}]
          /\ taken.pc = "taken" /\ taken.intent = i
      OBVIOUS
    <3>2. call' = [call EXCEPT ![c] = taken]
      BY <2>1 DEF Take
    <3> HIDE DEF taken
    <3> QED
      BY <2>1, <3>1, <3>2 DEF Take, TypeOK, BusyHasIntent
  <2>2. CASE Load(c)
    <3>1. status[call[c].intent] \in Statuses
      BY <2>2 DEF Load, TypeOK, BusyHasIntent
    <3>2. PICK label \in {"create", "claim"} :
            call' = [call EXCEPT ![c] =
                       [call[c] EXCEPT !.pc = label, !.seen = status[call[c].intent]]]
      BY <2>2 DEF Load
    <3> DEFINE old == call[c]
               seen == status[call[c].intent]
               loaded == [old EXCEPT !.pc = label, !.seen = seen]
    <3>3. /\ call' = [call EXCEPT ![c] = loaded]
          /\ old \in Records /\ old.intent = call[c].intent /\ seen \in Statuses
      BY <3>1, <3>2 DEF TypeOK
    <3> HIDE DEF old, seen
    <3>4. loaded \in Records /\ loaded.pc = label /\ loaded.intent = old.intent
      BY <3>3, LoadedRecord
    <3> HIDE DEF loaded
    <3>5. call' \in [Calls -> Records]
      BY <3>4, <3>3 DEF TypeOK
    <3>6. BusyHasIntent'
      BY <2>2, <3>4, <3>3 DEF Load, TypeOK, BusyHasIntent
    <3> QED
      BY <2>2, <3>5, <3>6 DEF Load, TypeOK
  <2>3. CASE Create(c)
    <3>1. call[c].intent \in Intents
      BY <2>3 DEF Create, BusyHasIntent
    <3>2. call' = [call EXCEPT ![c].pc = "price"]
      BY <2>3 DEF Create
    <3>3. reserved' \in [Buys -> BOOLEAN]
      BY <2>3, <3>1 DEF Create, TypeOK
    <3>4. /\ status' \in [Intents -> Statuses]
          /\ claim' \in [Intents -> {"NONE", "LOCAL_SIMULATED", "EXTERNAL_PAPER"}]
      BY <2>3, <3>1 DEF Create, TypeOK
    <3>5. UNCHANGED <<queued, released, settled, fills, shares>>
      BY <2>3 DEF Create
    <3>6. call' \in [Calls -> Records]
      BY <3>2 DEF TypeOK
    <3> QED
      BY <3>1, <3>2, <3>3, <3>4, <3>5, <3>6 DEF TypeOK, BusyHasIntent
  <2>4. CASE CheckClaim(c) \/ CheckReservation(c)
    BY <2>4 DEF CheckClaim, CheckReservation, TypeOK, BusyHasIntent
  <2>5. CASE ClaimLate(c)
    BY <2>5 DEF ClaimLate, TypeOK, BusyHasIntent
  <2>6. CASE RejectSell(c)
    BY <2>6 DEF RejectSell, TypeOK, BusyHasIntent
  <2>7. CASE Simulate(c) \/ Abort(c)
    BY <2>7 DEF Simulate, Abort, TypeOK, BusyHasIntent
  <2>8. CASE Fill(c)
    <3>1. call[c].intent \in Intents
      BY <2>8 DEF Fill, BusyHasIntent
    <3>2. released' \in [Buys -> SUBSET ({"FILLED"} \cup Closed)]
      BY <2>8, <3>1, ReleaseTyped DEF Fill
    <3>3. settled' \in Int /\ shares' \in Int
      BY <2>8 DEF Fill, TypeOK
    <3> QED
      BY <2>8, <3>1, <3>2, <3>3 DEF Fill, TypeOK, BusyHasIntent
  <2>9. ASSUME NEW reason \in Reasons, LoadToClose(c, reason)
        PROVE  TypeOK' /\ BusyHasIntent'
    <3>1. /\ call' = [call EXCEPT ![c] = [call[c] EXCEPT !.pc = "release", !.reason = reason]]
          /\ reason \in Closed
      BY <2>9 DEF LoadToClose
    <3>2. call[c].intent \in Intents
      BY <2>9 DEF LoadToClose, BusyHasIntent
    <3> DEFINE closing == [call[c] EXCEPT !.pc = "release", !.reason = reason]
    <3>3. closing \in Records /\ closing.intent = call[c].intent /\ closing.reason = reason
      <4> HIDE DEF Records, Statuses, Closed
      <4> QED
        BY <3>1, ClosingRecord DEF TypeOK
    <3>4. call' = [call EXCEPT ![c] = closing]
      BY <3>1
    <3> HIDE DEF closing
    <3>5. call' \in [Calls -> Records]
      BY <3>3, <3>4 DEF TypeOK
    <3>6. BusyHasIntent'
      BY <3>1, <3>2, <3>3, <3>4 DEF TypeOK, BusyHasIntent
    <3> QED
      BY <2>9, <3>5, <3>6 DEF LoadToClose, TypeOK
  <2>10. CASE Release(c)
    <3>1. call[c].intent \in Intents /\ call[c].reason \in Closed \cup {"NONE"}
      BY <2>10 DEF Release, BusyHasIntent, TypeOK
    <3>2. released' \in [Buys -> SUBSET ({"FILLED"} \cup Closed)]
      BY <2>10, <3>1, ReleaseTyped DEF Release, BusyHasIntent
    <3> QED
      BY <2>10, <3>2 DEF Release, TypeOK, BusyHasIntent
  <2>11. CASE Close(c)
    BY <2>11 DEF Close, TypeOK, BusyHasIntent
  <2>12. CASE Persist(c) \/ Enqueue(c)
    BY <2>12 DEF Persist, Enqueue, TypeOK, BusyHasIntent
  <2> QED
    BY <1>3, <2>1, <2>2, <2>3, <2>4, <2>5, <2>6, <2>7, <2>8, <2>9, <2>10, <2>11, <2>12
    DEF Step
<1> QED
  BY <1>1, <1>2, <1>3 DEF Next

LEMMA InitTyped == Init => TypeOK /\ BusyHasIntent
  BY LocalAssumption
  DEF Init, TypeOK, BusyHasIntent, Idle, Statuses, Records, Pending, Closed

\* Every behaviour keeps the order rows, ledger entries and calls in type.
THEOREM LocalTypeCorrect == Spec => []TypeOK
<1>1. TypeOK /\ BusyHasIntent /\ [Next]_vars => (TypeOK /\ BusyHasIntent)'
  BY StepPreservesTypes
<1> QED
  BY <1>1, InitTyped, PTL DEF Spec

-----------------------------------------------------------------------------
\* A local claim stays, and it stands from the claim checks to the fill.
LEMMA StepPreservesClaims == ClaimInv /\ [Next]_vars => ClaimInv'
<1> SUFFICES ASSUME ClaimInv, [Next]_vars PROVE ClaimInv'
  OBVIOUS
<1>0. TypeOK /\ BusyHasIntent /\ TypeOK' /\ BusyHasIntent'
  BY StepPreservesTypes DEF ClaimInv
<1> SUFFICES ClaimedWhilePricing' /\ LocalFillIsClaimed'
  BY <1>0 DEF ClaimInv
<1>1. ClaimedWhilePricing /\ LocalFillIsClaimed
  BY DEF ClaimInv
<1> USE DEF ClaimedWhilePricing, LocalFillIsClaimed
<1>2. CASE UNCHANGED vars
  BY <1>1, <1>2 DEF vars
<1>3. ASSUME NEW i \in Intents, ClaimExternally(i)
      PROVE  ClaimedWhilePricing' /\ LocalFillIsClaimed'
  BY <1>0, <1>1, <1>3 DEF ClaimExternally, TypeOK
<1>4. ASSUME NEW c \in Calls, Step(c)
      PROVE  ClaimedWhilePricing' /\ LocalFillIsClaimed'
  <2> USE DEF At, Goto, Return
  <2>1. CASE Fill(c)
    <3>1. /\ call' = [call EXCEPT ![c] = Idle] /\ claim' = claim
          /\ fills' = fills \cup {call[c].intent} /\ call[c].pc = "fill"
      BY <2>1 DEF Fill
    <3> QED
      BY <1>0, <1>1, <3>1 DEF TypeOK, Idle
  <2>2. CASE Create(c) \/ ClaimLate(c)
    <3>1. PICK label \in {"price", "check"} :
             /\ call' = [call EXCEPT ![c].pc = label]
             /\ claim' = [claim EXCEPT ![call[c].intent] = "LOCAL_SIMULATED"]
             /\ fills' = fills
             /\ call[c].pc # "idle"
      BY <2>2 DEF Create, ClaimLate
    <3>2. call[c].intent \in Intents
      BY <1>0, <3>1 DEF BusyHasIntent
    <3>3. \A d \in Calls : call'[d].intent = call[d].intent
      BY <1>0, <3>1 DEF TypeOK, Records
    <3>4. \A d \in Calls : d # c => call'[d] = call[d]
      BY <1>0, <3>1 DEF TypeOK
    <3>5. \A i \in Intents : claim[i] = "LOCAL_SIMULATED" => claim'[i] = "LOCAL_SIMULATED"
      BY <1>0, <3>1 DEF TypeOK
    <3>6. claim'[call[c].intent] = "LOCAL_SIMULATED"
      BY <1>0, <3>1, <3>2 DEF TypeOK
    <3>7. ClaimedWhilePricing'
      BY <1>0, <1>1, <3>3, <3>4, <3>5, <3>6 DEF BusyHasIntent
    <3>8. LocalFillIsClaimed'
      BY <1>0, <1>1, <3>1, <3>5 DEF TypeOK
    <3> QED
      BY <3>7, <3>8
  <2>3. CASE CheckClaim(c)
    BY <1>0, <1>1, <2>3 DEF CheckClaim, TypeOK, Records
  <2>4. CASE CheckReservation(c) \/ Simulate(c)
    BY <1>0, <1>1, <2>4 DEF CheckReservation, Simulate, TypeOK, Records, Idle
  <2>5. CASE Load(c)
    <3>1. /\ claim' = claim /\ fills' = fills
          /\ \A d \in Calls : call'[d].pc \in {"check", "price", "fill"} => call'[d] = call[d]
      BY <1>0, <2>5 DEF Load, TypeOK, Records
    <3> QED
      BY <1>1, <3>1
  <2>6. CASE \E reason \in Reasons : LoadToClose(c, reason)
    <3>1. /\ claim' = claim /\ fills' = fills
          /\ \A d \in Calls : call'[d].pc \in {"check", "price", "fill"} => call'[d] = call[d]
      BY <1>0, <2>6 DEF LoadToClose, TypeOK, Records
    <3> QED
      BY <1>1, <3>1
  <2>7. CASE \E i \in Intents : Take(c, i)
    <3>1. /\ claim' = claim /\ fills' = fills
          /\ \A d \in Calls : call'[d].pc \in {"check", "price", "fill"} => call'[d] = call[d]
      BY <1>0, <2>7 DEF Take, TypeOK, Idle
    <3> QED
      BY <1>1, <3>1
  <2>8. CASE RejectSell(c) \/ Release(c) \/ Close(c) \/ Persist(c) \/ Enqueue(c) \/ Abort(c)
    <3>1. /\ claim' = claim /\ fills' = fills
          /\ \A d \in Calls : call'[d].pc \in {"check", "price", "fill"} => call'[d] = call[d]
      BY <1>0, <2>8
      DEF RejectSell, Release, Close, Persist, Enqueue, Abort, TypeOK, Records, Idle
    <3> QED
      BY <1>1, <3>1
  <2> QED
    BY <1>4, <2>1, <2>2, <2>3, <2>4, <2>5, <2>6, <2>7, <2>8 DEF Step
<1> QED
  BY <1>2, <1>3, <1>4 DEF Next

\* The local simulator only fills what it holds a local claim on, although it
\* reads the claim several commits before the fill (submit_and_simulate).
THEOREM LocalFillsAreClaimed == Spec => []LocalFillIsClaimed
<1>1. Init => ClaimInv
  BY InitTyped DEF Init, ClaimInv, ClaimedWhilePricing, LocalFillIsClaimed, Idle
<1>2. ClaimInv => LocalFillIsClaimed
  BY DEF ClaimInv
<1> QED
  BY <1>1, <1>2, StepPreservesClaims, PTL DEF Spec

-----------------------------------------------------------------------------
\* One more fill on one side of the book.
LEMMA FillCounts ==
    ASSUME NEW S, IsFiniteSet(S), NEW T \in SUBSET (Buys \cup Sells), NEW i
    PROVE  /\ Cardinality(T \cap S) \in Nat
           /\ i \in S /\ i \notin T =>
                Cardinality((T \cup {i}) \cap S) = Cardinality(T \cap S) + 1
           /\ i \notin S => Cardinality((T \cup {i}) \cap S) = Cardinality(T \cap S)
<1>1. IsFiniteSet(T \cap S)
  BY FS_Intersection
<1>2. Cardinality(T \cap S) \in Nat
  BY <1>1, FS_CardinalityType
<1>3. ASSUME i \in S, i \notin T
      PROVE  Cardinality((T \cup {i}) \cap S) = Cardinality(T \cap S) + 1
  <2>1. (T \cup {i}) \cap S = (T \cap S) \cup {i} /\ i \notin T \cap S
    BY <1>3
  <2> QED
    BY <1>1, <2>1, FS_AddElement
<1>4. ASSUME i \notin S
      PROVE  Cardinality((T \cup {i}) \cap S) = Cardinality(T \cap S)
  <2>1. (T \cup {i}) \cap S = T \cap S
    BY <1>4
  <2> QED
    BY <2>1
<1> QED
  BY <1>2, <1>3, <1>4

\* Only a fill moves the position, once for each intent, and never below 0.
LEMMA StepPreservesPosition == PositionInv /\ [Next]_vars => PositionInv'
<1> SUFFICES ASSUME PositionInv, [Next]_vars PROVE PositionInv'
  OBVIOUS
<1>0. TypeOK /\ BusyHasIntent /\ TypeOK' /\ BusyHasIntent'
  BY StepPreservesTypes DEF PositionInv
<1>1. PositionMatchesFills /\ LongOnly
  BY DEF PositionInv
<1> SUFFICES PositionMatchesFills' /\ LongOnly'
  BY <1>0 DEF PositionInv
<1>2. CASE UNCHANGED <<fills, shares>>
  BY <1>1, <1>2 DEF PositionMatchesFills, LongOnly
<1>3. ASSUME NEW c \in Calls, Fill(c) PROVE PositionMatchesFills' /\ LongOnly'
  <2> DEFINE i == call[c].intent
             bought == Cardinality(fills \cap Buys)
             sold == Cardinality(fills \cap Sells)
  <2>1. /\ i \in Intents /\ i \notin fills /\ (i \in Sells => shares >= 1)
        /\ fills' = fills \cup {i}
        /\ shares' = shares + (IF i \in Buys THEN 1 ELSE -1)
    BY <1>0, <1>3 DEF Fill, At, NotFilled, Covered, BusyHasIntent
  <2>2. /\ shares \in Int /\ Shares \in Int /\ fills \in SUBSET (Buys \cup Sells)
        /\ IsFiniteSet(Buys) /\ IsFiniteSet(Sells) /\ Buys \cap Sells = {}
    BY <1>0, LocalAssumption DEF TypeOK, Intents
  <2>3. bought \in Nat /\ sold \in Nat /\ shares = Shares + bought - sold
    BY <1>1, <2>2, FillCounts DEF PositionMatchesFills
  <2>4. CASE i \in Buys
    <3>1. /\ Cardinality(fills' \cap Buys) = bought + 1
          /\ Cardinality(fills' \cap Sells) = sold
      BY <2>1, <2>2, <2>4, FillCounts
    <3>2. shares' = shares + 1
      BY <2>1, <2>4
    <3> HIDE DEF bought, sold, i
    <3> QED
      BY <1>1, <2>2, <2>3, <3>1, <3>2 DEF PositionMatchesFills, LongOnly
  <2>5. CASE i \in Sells
    <3>1. /\ Cardinality(fills' \cap Buys) = bought
          /\ Cardinality(fills' \cap Sells) = sold + 1
      BY <2>1, <2>2, <2>5, FillCounts
    <3>2. shares' = shares - 1 /\ shares >= 1
      BY <2>1, <2>2, <2>5
    <3> HIDE DEF bought, sold, i
    <3> QED
      BY <1>1, <2>2, <2>3, <3>1, <3>2 DEF PositionMatchesFills, LongOnly
  <2> QED
    BY <2>1, <2>4, <2>5 DEF Intents
<1>4. \A c \in Calls : Step(c) => Fill(c) \/ UNCHANGED <<fills, shares>>
  BY DEF Step, Take, Load, Create, CheckClaim, ClaimLate, CheckReservation, RejectSell,
         Simulate, LoadToClose, Release, Close, Persist, Enqueue, Abort
<1> QED
  BY <1>2, <1>3, <1>4 DEF Next, ClaimExternally, vars

LEMMA PositionAlways == Spec => []PositionInv
<1>1. Init => PositionInv
  <2>1. ASSUME Init PROVE PositionMatchesFills /\ LongOnly
    <3>1. fills = {} /\ shares = Shares /\ Shares \in Nat
      BY <2>1, LocalAssumption DEF Init
    <3>2. Cardinality(fills \cap Buys) = 0 /\ Cardinality(fills \cap Sells) = 0
      BY <3>1, FS_EmptySet
    <3> QED
      BY <3>1, <3>2 DEF PositionMatchesFills, LongOnly
  <2> QED
    BY <2>1, InitTyped DEF PositionInv
<1> QED
  BY <1>1, StepPreservesPosition, PTL DEF Spec

\* Whatever number of services simulates the same intents, each fill moves the
\* position exactly once (fill_exists and save_fill in the transaction).
THEOREM PositionIsExact == Spec => []PositionMatchesFills
<1>1. PositionInv => PositionMatchesFills
  BY DEF PositionInv
<1> QED
  BY <1>1, PositionAlways, PTL

\* No interleaving of sells takes the position below zero (apply_sell_fill).
THEOREM NeverShort == Spec => []LongOnly
<1>1. PositionInv => LongOnly
  BY DEF PositionInv
<1> QED
  BY <1>1, PositionAlways, PTL

\* The position follows the fills, is never short and rests on claims, for any
\* number of services and intents (fill_exists, save_fill).
THEOREM PositionIsSound == Spec => []PositionSound
<1>1. PositionMatchesFills /\ LongOnly /\ LocalFillIsClaimed => PositionSound
  BY DEF PositionSound
<1> QED
  BY <1>1, PositionIsExact, NeverShort, LocalFillsAreClaimed, PTL

-----------------------------------------------------------------------------
\* What was given back, and what an intent holds back, are integers.
LEMMA ReleasedFinite ==
    ASSUME TypeOK, NEW i \in Buys
    PROVE  IsFiniteSet(released[i]) /\ Cardinality(released[i]) \in Nat
<1>1. released[i] \in SUBSET {"FILLED", "EXPIRED", "CANCELLED"}
  BY DEF TypeOK, Closed
<1>2. IsFiniteSet({"FILLED", "EXPIRED", "CANCELLED"})
  <2> DEFINE closed == {"EXPIRED"} \cup {"CANCELLED"}
  <2>1. {"FILLED", "EXPIRED", "CANCELLED"} = closed \cup {"FILLED"}
    OBVIOUS
  <2>2. IsFiniteSet(closed)
    BY FS_Singleton, FS_Union
  <2> HIDE DEF closed
  <2>3. IsFiniteSet(closed \cup {"FILLED"})
    BY <2>2, FS_AddElement
  <2> QED
    BY <2>1, <2>3
<1> QED
  BY <1>1, <1>2, FS_Subset, FS_CardinalityType

LEMMA ReleasedTyped ==
    ASSUME TypeOK, NEW i \in Buys PROVE Notional * Cardinality(released[i]) \in Int
BY ReleasedFinite, LocalAssumption DEF LocalAssumption

LEMMA RemainingTyped == TypeOK => \A i \in Buys : Remaining(i) \in Int
<1> SUFFICES ASSUME TypeOK, NEW i \in Buys PROVE Remaining(i) \in Int
  OBVIOUS
<1> DEFINE n == Notional * Cardinality(released[i])
<1>1. n \in Int /\ Notional \in Int
  BY ReleasedTyped, LocalAssumption DEF LocalAssumption
<1>2. Remaining(i) = (IF reserved[i] THEN Notional ELSE 0) - n
  BY DEF Remaining
<1> HIDE DEF n
<1> QED
  BY <1>1, <1>2

LEMMA RemainingStaysTyped == TypeOK' => \A i \in Buys : Remaining(i)' \in Int
<1>1. TypeOK' => (\A i \in Buys : Remaining(i) \in Int)'
  BY RemainingTyped, PTL
<1> QED
  BY <1>1

\* What a step does to one intent's entries moves the reserved cash by as much.
LEMMA ReservedCashMoves ==
    ASSUME TypeOK, TypeOK', NEW i \in Buys,
           \A j \in Buys \ {i} : reserved'[j] = reserved[j] /\ released'[j] = released[j]
    PROVE  /\ ReservedCash \in Int /\ ReservedCash' \in Int
           /\ Remaining(i) \in Int /\ Remaining(i)' \in Int
           /\ ReservedCash' - ReservedCash = Remaining(i)' - Remaining(i)
<1> DEFINE before == [j \in Buys |-> Remaining(j)]
           after == [j \in Buys |-> Remaining(j)']
<1>1. IsFiniteSet(Buys)
  BY LocalAssumption DEF LocalAssumption
<1>2. \A j \in Buys : Remaining(j) \in Int /\ Remaining(j)' \in Int
  BY RemainingTyped, RemainingStaysTyped
<1>3. \A j \in Buys : j # i => Remaining(j)' = Remaining(j)
  BY DEF Remaining
<1>4. ReservedCash = SumFunctionOnSet(before, Buys) /\ ReservedCash' = SumFunctionOnSet(after, Buys)
  BY DEF ReservedCash, SumFunction
<1>5. /\ \A j \in Buys : before[j] \in Int /\ after[j] \in Int
      /\ \A j \in Buys : j # i => after[j] = before[j]
  BY <1>2, <1>3
<1>6. before[i] = Remaining(i) /\ after[i] = Remaining(i)'
  OBVIOUS
<1> HIDE DEF before, after
<1>7. /\ SumFunctionOnSet(before, Buys) \in Int
      /\ SumFunctionOnSet(after, Buys) = SumFunctionOnSet(before, Buys) + after[i] - before[i]
  BY <1>1, <1>5, SumChangesBy
<1> QED
  BY <1>2, <1>4, <1>6, <1>7

LEMMA ReservedCashTyped == TypeOK => ReservedCash \in Int
<1> SUFFICES ASSUME TypeOK PROVE ReservedCash \in Int
  OBVIOUS
<1> DEFINE f == [j \in Buys |-> Remaining(j)]
<1>1. IsFiniteSet(Buys) /\ \A j \in Buys : f[j] \in Int
  BY RemainingTyped, LocalAssumption DEF LocalAssumption
<1>2. ReservedCash = SumFunctionOnSet(f, Buys)
  BY DEF ReservedCash, SumFunction
<1> HIDE DEF f
<1> QED
  BY <1>1, <1>2, SumType

\* Giving back for a reason not given back before frees one notional; for one
\* that was, nothing.
LEMMA ReleaseFrees ==
    ASSUME TypeOK, NEW i \in Buys, NEW reason \in {"FILLED"} \cup Closed,
           ReleaseReservation(i, reason), reserved' = reserved
    PROVE  /\ reason \notin released[i] => Remaining(i)' = Remaining(i) - Notional
           /\ reason \in released[i] => Remaining(i)' = Remaining(i)
           /\ \A j \in Buys \ {i} : released'[j] = released[j]
<1> DEFINE k == Cardinality(released[i])
<1>1. released'[i] = released[i] \cup {reason} /\ \A j \in Buys \ {i} : released'[j] = released[j]
  BY DEF TypeOK, ReleaseReservation
<1>2. IsFiniteSet(released[i]) /\ k \in Nat
  BY ReleasedFinite
<1>3. Remaining(i) = (IF reserved[i] THEN Notional ELSE 0) - Notional * k
  BY DEF Remaining
<1>4. Remaining(i)' = (IF reserved[i] THEN Notional ELSE 0) - Notional * Cardinality(released'[i])
  BY DEF Remaining
<1>5. Notional \in Nat
  BY LocalAssumption DEF LocalAssumption
<1>6. CASE reason \notin released[i]
  <2>1. Cardinality(released'[i]) = k + 1
    BY <1>1, <1>2, <1>6, FS_AddElement
  <2>2. Notional * (k + 1) = Notional * k + Notional /\ Notional * k \in Int
    BY <1>2, <1>5
  <2> HIDE DEF k
  <2> QED
    BY <1>1, <1>3, <1>4, <1>5, <1>6, <2>1, <2>2
<1>7. CASE reason \in released[i]
  <2>1. released'[i] = released[i]
    BY <1>1, <1>7
  <2> QED
    BY <1>1, <1>3, <1>4, <1>7, <2>1
<1> QED
  BY <1>6, <1>7

-----------------------------------------------------------------------------
\* Only a fill releases as filled, once: what it takes from the settled cash
\* it gives back from the reserved.
OverdraftInv ==
    /\ TypeOK /\ BusyHasIntent
    /\ IsFiniteSet(fills)
    /\ \A i \in Buys : "FILLED" \in released[i] => i \in fills
    /\ NeverOverdrawn

LEMMA OneMoreFill ==
    ASSUME IsFiniteSet(fills), NEW i, i \notin fills, fills' = fills \cup {i}
    PROVE  /\ IsFiniteSet(fills')
           /\ Slippage * Cardinality(fills) \in Nat
           /\ Slippage * Cardinality(fills') = Slippage * Cardinality(fills) + Slippage
<1>1. IsFiniteSet(fills') /\ Cardinality(fills') = Cardinality(fills) + 1
  BY FS_AddElement
<1>2. Cardinality(fills) \in Nat /\ Slippage \in Nat
  BY FS_CardinalityType, LocalAssumption DEF LocalAssumption
<1> QED
  BY <1>1, <1>2

LEMMA StepKeepsCash == OverdraftInv /\ [Next]_vars => OverdraftInv'
<1> SUFFICES ASSUME OverdraftInv, [Next]_vars PROVE OverdraftInv'
  OBVIOUS
<1>0. TypeOK /\ BusyHasIntent /\ TypeOK' /\ BusyHasIntent'
  BY StepPreservesTypes DEF OverdraftInv
<1>1. /\ settled \in Int /\ Notional \in Nat /\ Slippage \in Nat
      /\ Slippage * Cardinality(fills) \in Nat
      /\ ReservedCash \in Int
      /\ settled - ReservedCash + Slippage * Cardinality(fills) >= 0
  <2>1. Cardinality(fills) \in Nat /\ Slippage \in Nat /\ Notional \in Nat
    BY FS_CardinalityType, LocalAssumption DEF OverdraftInv, LocalAssumption
  <2>2. settled \in Int
    BY <1>0 DEF TypeOK
  <2>3. Slippage * Cardinality(fills) \in Nat
    BY <2>1
  <2> QED
    BY <1>0, <2>1, <2>2, <2>3, ReservedCashTyped DEF OverdraftInv, NeverOverdrawn, Available
<1>2. ASSUME UNCHANGED <<ledger, fills>>
      PROVE  OverdraftInv'
  <2>1. Available' = Available
    BY <1>2 DEF Available, ReservedCash, Remaining, ledger
  <2> QED
    BY <1>0, <1>2, <2>1 DEF OverdraftInv, NeverOverdrawn, ledger
<1>3. ASSUME NEW c \in Calls, Create(c)
      PROVE  OverdraftInv'
  <2>0. PICK i \in Intents : i = call[c].intent
    BY <1>0, <1>3 DEF Create, At, BusyHasIntent
  <2>1. CASE UNCHANGED reserved
    BY <1>2, <1>3, <2>1 DEF Create, ledger
  <2>2. CASE /\ i \in Buys /\ Affordable
             /\ reserved' = [reserved EXCEPT ![i] = TRUE]
    <3>1. UNCHANGED <<released, settled, fills>>
      BY <1>3 DEF Create
    <3>2. \A j \in Buys \ {i} : reserved'[j] = reserved[j] /\ released'[j] = released[j]
      BY <1>0, <2>2, <3>1 DEF TypeOK
    <3>3. /\ ReservedCash \in Int /\ ReservedCash' \in Int
          /\ Remaining(i) \in Int /\ Remaining(i)' \in Int
          /\ ReservedCash' - ReservedCash = Remaining(i)' - Remaining(i)
      BY <1>0, <2>2, <3>2, ReservedCashMoves
    <3>4. Remaining(i)' <= Remaining(i) + Notional
      <4> DEFINE n == Notional * Cardinality(released[i])
      <4>1. n \in Int
        BY <1>0, <2>2, ReleasedTyped
      <4>2. /\ Remaining(i) = (IF reserved[i] THEN Notional ELSE 0) - n
            /\ Remaining(i)' = Notional - n
        BY <1>0, <2>2, <3>1 DEF Remaining, TypeOK
      <4> HIDE DEF n
      <4> QED
        BY <1>1, <4>1, <4>2
    <3>5. Notional <= settled - ReservedCash
      BY <2>2 DEF Affordable, Available
    <3>6. NeverOverdrawn'
      <4> DEFINE before == ReservedCash
                 after == ReservedCash'
                 spent == Slippage * Cardinality(fills)
      <4>1. settled \in Int /\ Notional \in Int /\ spent \in Nat /\ before \in Int /\ after \in Int
        BY <1>1, <3>3
      <4>2. after <= before + Notional /\ Notional <= settled - before
        BY <1>1, <3>3, <3>4, <3>5
      <4>3. NeverOverdrawn' <=> settled - after + spent >= 0
        BY <3>1 DEF NeverOverdrawn, Available
      <4> HIDE DEF before, after, spent
      <4> QED
        BY <4>1, <4>2, <4>3
    <3> QED
      BY <1>0, <3>1, <3>6 DEF OverdraftInv
  <2> QED
    BY <1>3, <2>0, <2>1, <2>2 DEF Create
<1>4. ASSUME NEW c \in Calls, Release(c)
      PROVE  OverdraftInv'
  <2>0. PICK i \in Intents, reason \in Closed : i = call[c].intent /\ reason = call[c].reason
    BY <1>0, <1>4 DEF Release, At, BusyHasIntent
  <2>1. UNCHANGED <<reserved, settled, fills>> /\ ReleaseReservation(i, reason)
    BY <1>4, <2>0 DEF Release
  <2>2. CASE i \notin Buys
    BY <1>2, <2>1, <2>2 DEF ReleaseReservation, ledger
  <2>3. CASE i \in Buys
    <3>1. /\ Remaining(i)' = Remaining(i) - Notional \/ Remaining(i)' = Remaining(i)
          /\ \A j \in Buys \ {i} : released'[j] = released[j]
      BY <1>0, <2>1, <2>3, ReleaseFrees
    <3>2. /\ ReservedCash' \in Int /\ Remaining(i) \in Int
          /\ ReservedCash' - ReservedCash = Remaining(i)' - Remaining(i)
      BY <1>0, <2>1, <2>3, <3>1, ReservedCashMoves
    <3>3. NeverOverdrawn'
      BY <1>1, <2>1, <3>1, <3>2 DEF NeverOverdrawn, Available
    <3>4. released'[i] = released[i] \cup {reason} /\ reason # "FILLED"
      BY <1>0, <2>1, <2>3 DEF ReleaseReservation, TypeOK, Closed
    <3> QED
      BY <1>0, <2>1, <3>1, <3>3, <3>4 DEF OverdraftInv
  <2> QED
    BY <2>2, <2>3
<1>5. ASSUME NEW c \in Calls, Fill(c)
      PROVE  OverdraftInv'
  <2>0. PICK i \in Intents : i = call[c].intent
    BY <1>0, <1>5 DEF Fill, At, BusyHasIntent
  <2>1. /\ i \notin fills /\ fills' = fills \cup {i}
        /\ settled' = settled + (IF i \in Buys THEN -Notional ELSE Notional) - Slippage
        /\ ReleaseReservation(i, "FILLED") /\ reserved' = reserved
    BY <1>5, <2>0 DEF Fill, NotFilled
  <2>2. /\ IsFiniteSet(fills')
        /\ Slippage * Cardinality(fills') = Slippage * Cardinality(fills) + Slippage
    BY <2>1, OneMoreFill DEF OverdraftInv
  <2>3. CASE i \in Buys
    <3>1. "FILLED" \notin released[i]
      BY <2>1, <2>3 DEF OverdraftInv
    <3>2. /\ Remaining(i)' = Remaining(i) - Notional
          /\ \A j \in Buys \ {i} : released'[j] = released[j]
      BY <1>0, <2>1, <2>3, <3>1, ReleaseFrees
    <3>3. /\ ReservedCash' \in Int /\ Remaining(i) \in Int
          /\ ReservedCash' - ReservedCash = Remaining(i)' - Remaining(i)
      BY <1>0, <2>1, <2>3, <3>2, ReservedCashMoves
    <3>4. settled' = settled - Notional - Slippage
      BY <1>1, <2>1, <2>3
    <3>5. NeverOverdrawn'
      BY <1>1, <2>2, <3>2, <3>3, <3>4 DEF NeverOverdrawn, Available
    <3>6. \A j \in Buys : "FILLED" \in released'[j] => j \in fills'
      BY <2>1, <3>2 DEF OverdraftInv
    <3> QED
      BY <1>0, <2>2, <3>5, <3>6 DEF OverdraftInv
  <2>4. CASE i \notin Buys
    <3>1. released' = released /\ settled' = settled + Notional - Slippage
      BY <2>1, <2>4 DEF ReleaseReservation
    <3>2. ReservedCash' = ReservedCash
      BY <2>1, <3>1 DEF ReservedCash, Remaining
    <3>3. NeverOverdrawn'
      BY <1>1, <2>2, <3>1, <3>2 DEF NeverOverdrawn, Available
    <3> QED
      BY <1>0, <2>1, <2>2, <3>1, <3>3 DEF OverdraftInv
  <2> QED
    BY <2>3, <2>4
<1>6. ASSUME NEW c \in Calls, Step(c), ~Create(c), ~Release(c), ~Fill(c)
      PROVE  UNCHANGED <<ledger, fills>>
  BY <1>6 DEF Step, ledger, Take, Load, CheckClaim, ClaimLate, CheckReservation, RejectSell,
      Simulate, LoadToClose, Close, Persist, Enqueue, Abort
<1>7. ASSUME NEW i \in Intents, ClaimExternally(i)
      PROVE  UNCHANGED <<ledger, fills>>
  BY <1>7 DEF ClaimExternally
<1>8. CASE UNCHANGED vars
  BY <1>2, <1>8 DEF vars
<1> QED
  BY <1>2, <1>3, <1>4, <1>5, <1>6, <1>7, <1>8 DEF Next

\* However services reserve, fill, expire and replay each other's intents, for
\* any number of services, intents and prices, what is available falls below
\* zero by the slippage of the fills and nothing else (_reserve_for_order_locked,
\* release_reservation, the transaction of a fill).
THEOREM CashNeverOverdrawn == Spec => []NeverOverdrawn
<1>1. Init => OverdraftInv
  <2> SUFFICES ASSUME Init PROVE OverdraftInv
    OBVIOUS
  <2>1. TypeOK /\ BusyHasIntent
    BY InitTyped
  <2>2. IsFiniteSet(fills) /\ Cardinality(fills) = 0 /\ Slippage \in Nat /\ Cash \in Nat
    BY FS_EmptySet, LocalAssumption DEF Init, LocalAssumption
  <2>3. ReservedCash = 0
    <3> DEFINE f == [j \in Buys |-> Remaining(j)]
               zero == [j \in Buys |-> 0]
    <3>1. \A j \in Buys : Remaining(j) = 0
      BY FS_EmptySet, LocalAssumption DEF Init, Remaining, LocalAssumption
    <3>2. f = zero
      BY <3>1
    <3>3. ReservedCash = SumFunctionOnSet(f, Buys)
      BY DEF ReservedCash, SumFunction
    <3>4. SumFunctionOnSet(zero, Buys) = 0
      BY SumZero, LocalAssumption DEF LocalAssumption
    <3> QED
      BY <3>2, <3>3, <3>4
  <2>4. NeverOverdrawn
    BY <2>2, <2>3 DEF Init, NeverOverdrawn, Available
  <2> QED
    BY <2>1, <2>2, <2>4 DEF Init, OverdraftInv
<1>2. OverdraftInv => NeverOverdrawn
  BY DEF OverdraftInv
<1> QED
  BY <1>1, <1>2, StepKeepsCash, PTL DEF Spec

-----------------------------------------------------------------------------
\* What a service that works alone releases.

\* Nothing but the expiry of the daily lifecycle closes an intent: the
\* cancellation of execution.py has no caller.
OneReason == \A q, r \in Reasons : q = r

\* What the ledger holds for an intent, by its status.  A crash between the
\* release and the close leaves a pending intent that was released.
LedgerFits(i) ==
    /\ reserved[i] <=> status[i] # "NONE"
    /\ status[i] = "NONE" => released[i] = {}
    /\ status[i] = Pending => released[i] = {} \/ \E r \in Reasons : released[i] = {r}
    /\ status[i] \in {"FILLED"} \cup Closed => \E r \in {"FILLED"} \cup Closed : released[i] = {r}
    /\ status[i] # "REJECTED"

\* What a service that works alone may rely on, commit by commit.
ServiceKnows(c) ==
    LET i == call[c].intent
    IN /\ call[c].pc = "taken" => status[i] \in {"NONE", Pending}
       /\ call[c].pc = "create" => status[i] = "NONE"
       /\ call[c].pc \in {"claim", "claimLate", "check", "price", "fill", "release", "close"} => status[i] = Pending
       /\ call[c].pc \in {"claim", "claimLate", "check"} => call[c].seen = Pending
       /\ call[c].pc \in {"price", "fill"} /\ i \in Buys => released[i] = {}
       /\ call[c].pc \in {"release", "close"} => call[c].reason \in Reasons
       /\ call[c].pc = "close" /\ i \in Buys => released[i] = {call[c].reason}

AloneInv ==
    /\ TypeOK /\ BusyHasIntent
    /\ \A c, d \in Calls : call[c] # Idle /\ call[d] # Idle => c = d
    /\ \A i \in Intents : claim[i] # "NONE" => status[i] # "NONE"
    /\ \A i \in Buys : LedgerFits(i)
    /\ \A c \in Calls : ServiceKnows(c)

\* A ledger that fits an intent's status keeps back the whole or nothing.
LEMMA FitsRelease ==
    ASSUME TypeOK, \A i \in Buys : LedgerFits(i)
    PROVE  ReleasedOnce
<1> SUFFICES ASSUME NEW i \in Buys
             PROVE  /\ Remaining(i) \in {0, Notional}
                    /\ status[i] \in {"FILLED"} \cup Closed => Remaining(i) = 0
  BY DEF ReleasedOnce
<1>1. Cardinality({}) = 0 /\ \A r : Cardinality({r}) = 1
  BY FS_EmptySet, FS_Singleton
<1>2. i \in Intents /\ status[i] \in Statuses /\ Notional \in Nat
  BY LocalAssumption DEF TypeOK, Intents, LocalAssumption
<1>3. CASE released[i] = {}
  BY <1>1, <1>2, <1>3 DEF Remaining, LedgerFits
<1>4. ASSUME NEW r, released[i] = {r}
      PROVE  /\ Remaining(i) \in {0, Notional}
             /\ status[i] \in {"FILLED"} \cup Closed => Remaining(i) = 0
  <2>1. Cardinality(released[i]) = 1
    BY <1>1, <1>4
  <2>2. status[i] # "NONE" => Remaining(i) = 0
    BY <1>2, <2>1 DEF Remaining, LedgerFits
  <2>3. released[i] # {}
    BY <1>4
  <2> QED
    BY <1>2, <2>2, <2>3 DEF LedgerFits, Closed
<1> QED
  BY <1>2, <1>3, <1>4 DEF LedgerFits, Statuses, Pending, Closed

LEMMA AloneStarts == Init => AloneInv
<1> SUFFICES ASSUME Init PROVE AloneInv
  OBVIOUS
<1>1. TypeOK /\ BusyHasIntent
  BY InitTyped
<1> QED
  BY <1>1 DEF Init, AloneInv, LedgerFits, ServiceKnows, Idle, Pending, Closed, Intents

\* A step of one service leaves every other one where it was: idle.
LEMMA OthersIdle ==
    ASSUME AloneInv, WorksAlone, NEW c \in Calls, NEW s, s.pc # "idle" \/ call[c] # Idle,
           call' = [call EXCEPT ![c] = s]
    PROVE  /\ \A d \in Calls \ {c} : call[d] = Idle /\ call'[d] = Idle
           /\ call'[c] = s
           /\ \A d, e \in Calls : call'[d] # Idle /\ call'[e] # Idle => d = e
<1>1. call \in [Calls -> Records]
  BY DEF AloneInv, TypeOK
<1>2. call'[c] = s /\ \A d \in Calls \ {c} : call'[d] = call[d]
  BY <1>1
<1>3. ASSUME NEW d \in Calls \ {c} PROVE call[d] = Idle
  <2>1. CASE call[c] # Idle
    BY <2>1 DEF AloneInv
  <2>2. CASE s.pc # "idle"
    <3>1. call'[c] # Idle
      BY <2>2, <1>2 DEF Idle
    <3> QED
      BY <3>1, <1>2 DEF WorksAlone
  <2> QED
    BY <2>1, <2>2
<1> QED
  BY <1>2, <1>3 DEF WorksAlone

\* The step of a service keeps the invariant if it keeps the rows in order and
\* its own call tells the truth about them.
LEMMA ServiceKeeps ==
    ASSUME AloneInv, WorksAlone, TypeOK', BusyHasIntent',
           NEW c \in Calls, NEW s, s.pc # "idle" \/ call[c] # Idle,
           call' = [call EXCEPT ![c] = s],
           \A i \in Intents : claim'[i] # "NONE" => status'[i] # "NONE",
           \A i \in Buys : LedgerFits(i)',
           call'[c] = s => ServiceKnows(c)'
    PROVE  AloneInv'
<1>1. /\ \A d \in Calls \ {c} : call[d] = Idle /\ call'[d] = Idle
      /\ call'[c] = s
      /\ \A d, e \in Calls : call'[d] # Idle /\ call'[e] # Idle => d = e
  BY OthersIdle
<1>2. ASSUME NEW d \in Calls PROVE ServiceKnows(d)'
  <2>1. CASE d = c
    BY <2>1, <1>1
  <2>2. CASE d # c
    BY <2>2, <1>1 DEF ServiceKnows, Idle
  <2> QED
    BY <2>1, <2>2
<1> QED
  BY <1>1, <1>2 DEF AloneInv

\* A step that changes no row of an intent.
LEMMA RowsStay ==
    ASSUME AloneInv, UNCHANGED <<status, claim, ledger>>
    PROVE  /\ \A i \in Intents : claim'[i] # "NONE" => status'[i] # "NONE"
           /\ \A i \in Buys : LedgerFits(i)'
BY DEF AloneInv, LedgerFits, ledger

\* The rows of the other intents.
LEMMA OtherRowsStay ==
    ASSUME AloneInv, NEW i \in Intents,
           \A j \in Intents \ {i} : status'[j] = status[j] /\ claim'[j] = claim[j],
           \A j \in Buys \ {i} : reserved'[j] = reserved[j] /\ released'[j] = released[j],
           claim'[i] # "NONE" => status'[i] # "NONE",
           i \in Buys => LedgerFits(i)'
    PROVE  /\ \A j \in Intents : claim'[j] # "NONE" => status'[j] # "NONE"
           /\ \A j \in Buys : LedgerFits(j)'
BY DEF AloneInv, LedgerFits, Intents

\* Loading an intent, submitting it or closing it.
LEMMA SettlesNothing ==
    ASSUME AloneInv, OneReason, WorksAlone, TypeOK', BusyHasIntent', NEW c \in Calls,
           \/ \E i \in Intents : Take(c, i)
           \/ Load(c) \/ CheckClaim(c) \/ CheckReservation(c) \/ Simulate(c)
           \/ \E reason \in Reasons : LoadToClose(c, reason)
           \/ Enqueue(c) \/ Abort(c)
    PROVE  AloneInv'
<1> USE DEF At, Goto, Return, Idle
<1>0. call \in [Calls -> Records]
  BY DEF AloneInv, TypeOK
<1>1. ServiceKnows(c) /\ BusyHasIntent /\ TypeOK
  BY DEF AloneInv
<1>2. UNCHANGED <<status, claim, ledger>>
  BY DEF Take, Load, CheckClaim, CheckReservation, Simulate, LoadToClose, Enqueue, Abort
<1>3. /\ \A i \in Intents : claim'[i] # "NONE" => status'[i] # "NONE"
      /\ \A i \in Buys : LedgerFits(i)'
  BY <1>2, RowsStay
<1>4. call'[c].pc = "taken" => status'[call'[c].intent] \in {"NONE", Pending}
  BY <1>2 DEF WorksAlone
<1>5. ASSUME NEW i \in Intents, Take(c, i) PROVE AloneInv'
  <2>1. PICK s : s = [Idle EXCEPT !.pc = "taken", !.intent = i]
    OBVIOUS
  <2>2. s.pc = "taken" /\ call' = [call EXCEPT ![c] = s]
    BY <1>5, <2>1 DEF Take
  <2>3. call'[c] = s => ServiceKnows(c)'
    BY <2>2, <1>4 DEF ServiceKnows
  <2> QED
    BY <1>3, <2>2, <2>3, ServiceKeeps
<1>6. CASE Load(c)
  <2>1. PICK s : s = [call[c] EXCEPT !.pc = IF status[call[c].intent] = "NONE" THEN "create" ELSE "claim",
                                     !.seen = status[call[c].intent]]
    OBVIOUS
  <2>2. call' = [call EXCEPT ![c] = s] /\ call[c] # Idle
    BY <1>6, <2>1 DEF Load
  <2>3. /\ s.pc = IF status[call[c].intent] = "NONE" THEN "create" ELSE "claim"
        /\ s.seen = status[call[c].intent] /\ s.intent = call[c].intent
    BY <1>0, <2>1 DEF Records
  <2>4. call'[c] = s => ServiceKnows(c)'
    BY <1>6, <1>1, <1>2, <2>3 DEF Load, ServiceKnows
  <2> QED
    BY <1>3, <2>2, <2>4, ServiceKeeps
<1>7. CASE CheckClaim(c) \/ Simulate(c) \/ CheckReservation(c)
  <2>1. PICK label \in {"check", "claimLate", "price", "fill", "idle"} :
          /\ call' = [call EXCEPT ![c] = IF label = "idle" THEN Idle ELSE [call[c] EXCEPT !.pc = label]]
          /\ label \in {"check", "claimLate"} => call[c].pc = "claim"
          /\ label = "price" => CheckReservation(c)
          /\ label = "fill" => call[c].pc = "price"
    BY <1>7 DEF CheckClaim, Simulate, CheckReservation
  <2>2. call[c] # Idle
    BY <1>7 DEF CheckClaim, Simulate, CheckReservation
  <2>3. PICK s : s = IF label = "idle" THEN Idle ELSE [call[c] EXCEPT !.pc = label]
    OBVIOUS
  <2>4. /\ s.pc = label
        /\ label # "idle" => s.intent = call[c].intent /\ s.seen = call[c].seen
    BY <1>0, <2>3 DEF Records
  <2>5. label = "price" /\ call[c].intent \in Buys => released[call[c].intent] = {}
    <3> SUFFICES ASSUME CheckReservation(c), call[c].intent \in Buys
                 PROVE  released[call[c].intent] = {}
      BY <2>1
    <3>1. PICK i \in Buys : i = call[c].intent
      OBVIOUS
    <3>2. status[i] = Pending /\ Remaining(i) = Notional /\ LedgerFits(i)
      BY <1>1, <3>1 DEF CheckReservation, ServiceKnows, AloneInv
    <3>3. ASSUME NEW r, released[i] = {r} PROVE FALSE
      <4>1. Cardinality(released[i]) = 1
        BY <3>3, FS_Singleton
      <4> QED
        BY <3>2, <4>1, LocalAssumption DEF Remaining, LocalAssumption, LedgerFits, Pending
    <3> QED
      BY <3>1, <3>2, <3>3 DEF LedgerFits
  <2>6. call'[c] = s => ServiceKnows(c)'
    <3>1. label # "idle" => status[call[c].intent] = Pending
      BY <1>1, <2>1 DEF ServiceKnows, CheckReservation
    <3>2. label \in {"check", "claimLate"} => call[c].seen = Pending
      BY <1>1, <2>1 DEF ServiceKnows
    <3>3. label = "fill" /\ call[c].intent \in Buys => released[call[c].intent] = {}
      BY <1>1, <2>1 DEF ServiceKnows
    <3> QED
      BY <1>2, <2>1, <2>4, <2>5, <3>1, <3>2, <3>3 DEF ServiceKnows, ledger
  <2> QED
    BY <1>3, <2>1, <2>2, <2>3, <2>6, ServiceKeeps
<1>8. ASSUME NEW reason \in Reasons, LoadToClose(c, reason) PROVE AloneInv'
  <2>1. PICK s : s = [call[c] EXCEPT !.pc = "release", !.reason = reason]
    OBVIOUS
  <2>2. call' = [call EXCEPT ![c] = s]
    BY <1>8, <2>1 DEF LoadToClose
  <2>5. call[c] # Idle
    <3>1. call[c].pc = "taken"
      BY <1>8 DEF LoadToClose
    <3> QED
      BY <3>1
  <2>3. s.pc = "release" /\ s.reason = reason /\ s.intent = call[c].intent
    BY <1>0, <2>1 DEF Records
  <2>4. call'[c] = s => ServiceKnows(c)'
    BY <1>8, <1>2, <2>3 DEF LoadToClose, ServiceKnows
  <2> QED
    BY <1>3, <2>2, <2>4, <2>5, ServiceKeeps
<1>9. CASE Enqueue(c) \/ Abort(c)
  <2>1. call' = [call EXCEPT ![c] = Idle] /\ call[c] # Idle
    BY <1>9 DEF Enqueue, Abort
  <2>2. call'[c] = Idle => ServiceKnows(c)'
    BY DEF ServiceKnows
  <2> QED
    BY <1>3, <2>1, <2>2, ServiceKeeps
<1> QED
  BY <1>5, <1>6, <1>7, <1>8, <1>9

\* Creating, claiming, booking, releasing and closing an intent.
LEMMA SettlesIntent ==
    ASSUME AloneInv, OneReason, WorksAlone, TypeOK', BusyHasIntent', NEW c \in Calls,
           \/ Create(c) \/ ClaimLate(c) \/ RejectSell(c) \/ Fill(c)
           \/ Release(c) \/ Close(c) \/ Persist(c)
    PROVE  AloneInv'
<1> USE DEF At, Goto, Return
<1>0. call \in [Calls -> Records] /\ call[c].pc # "idle" /\ call[c] # Idle
  BY DEF AloneInv, TypeOK, Create, ClaimLate, RejectSell, Fill, Release, Close, Persist, Idle
<1>1. PICK i \in Intents : i = call[c].intent
  BY <1>0 DEF AloneInv, BusyHasIntent
<1>2. /\ ServiceKnows(c) /\ TypeOK
      /\ i \in Buys => LedgerFits(i)
      /\ claim[i] # "NONE" => status[i] # "NONE"
  BY <1>1 DEF AloneInv
<1>3. /\ \A j \in Intents \ {i} : status'[j] = status[j] /\ claim'[j] = claim[j]
      /\ \A j \in Buys \ {i} : reserved'[j] = reserved[j] /\ released'[j] = released[j]
  BY <1>1, <1>2 DEF TypeOK, Create, ClaimLate, RejectSell, Fill, Release, Close, Persist,
     ReleaseReservation, ledger
<1>4. ASSUME NEW s, call' = [call EXCEPT ![c] = s], s.pc = "idle" \/ s.intent = i,
             claim'[i] # "NONE" => status'[i] # "NONE",
             i \in Buys => LedgerFits(i)',
             s.pc \in {"idle", "check", "price", "close", "enqueue"},
             s.pc \in {"check", "price", "close"} => status'[i] = Pending,
             s.pc = "check" => s.seen = Pending,
             s.pc = "price" /\ i \in Buys => released'[i] = {},
             s.pc = "close" => s.reason \in Reasons /\ (i \in Buys => released'[i] = {s.reason})
      PROVE  AloneInv'
  <2>1. /\ \A j \in Intents : claim'[j] # "NONE" => status'[j] # "NONE"
        /\ \A j \in Buys : LedgerFits(j)'
    BY <1>3, <1>4, OtherRowsStay
  <2>2. call'[c] = s => ServiceKnows(c)'
    BY <1>4 DEF ServiceKnows
  <2> QED
    BY <1>0, <1>4, <2>1, <2>2, ServiceKeeps
<1>5. CASE Create(c)
  <2>1. PICK s : s = [call[c] EXCEPT !.pc = "price"]
    OBVIOUS
  <2>2. call' = [call EXCEPT ![c] = s] /\ s.pc = "price" /\ s.intent = i
    BY <1>0, <1>1, <1>5, <2>1 DEF Create, Records
  <2>3. status[i] = "NONE" /\ status'[i] = Pending
    BY <1>1, <1>2, <1>5 DEF Create, ServiceKnows, TypeOK
  <2>4. i \in Buys => reserved'[i] = TRUE /\ released'[i] = {}
    BY <1>1, <1>2, <1>5, <2>3 DEF Create, LedgerFits, TypeOK
  <2>5. i \in Buys => LedgerFits(i)'
    BY <2>3, <2>4 DEF LedgerFits, Pending, Closed
  <2> QED
    BY <1>4, <2>2, <2>3, <2>4, <2>5 DEF Pending
<1>6. CASE ClaimLate(c)
  <2>1. PICK s : s = [call[c] EXCEPT !.pc = "check"]
    OBVIOUS
  <2>2. call' = [call EXCEPT ![c] = s] /\ s.pc = "check" /\ s.intent = i /\ s.seen = call[c].seen
    BY <1>0, <1>1, <1>6, <2>1 DEF ClaimLate, Records
  <2>3. /\ status' = status /\ UNCHANGED ledger
        /\ status[i] = Pending /\ s.seen = Pending
    BY <1>1, <1>2, <1>6, <2>2 DEF ClaimLate, ServiceKnows
  <2>4. i \in Buys => LedgerFits(i)'
    BY <1>2, <2>3 DEF LedgerFits, ledger
  <2> QED
    BY <1>4, <2>2, <2>3, <2>4 DEF Pending
<1>7. CASE RejectSell(c)
  <2>1. i \notin Buys /\ call' = [call EXCEPT ![c] = Idle]
    BY <1>1, <1>7, LocalAssumption DEF RejectSell, LocalAssumption
  <2>2. claim'[i] # "NONE" => status'[i] # "NONE"
    BY <1>1, <1>2, <1>7 DEF RejectSell, TypeOK
  <2> QED
    BY <1>4, <2>1, <2>2 DEF Idle
<1>8. CASE Fill(c)
  <2>1. call' = [call EXCEPT ![c] = Idle] /\ status'[i] = "FILLED"
    BY <1>1, <1>2, <1>8 DEF Fill, TypeOK
  <2>2. i \in Buys => reserved'[i] = reserved[i] /\ released'[i] = released[i] \cup {"FILLED"}
    BY <1>1, <1>2, <1>8 DEF Fill, ReleaseReservation, TypeOK
  <2>3. i \in Buys => reserved[i] = TRUE /\ released[i] = {}
    BY <1>1, <1>2, <1>8 DEF Fill, ServiceKnows, LedgerFits, TypeOK, Pending
  <2>4. i \in Buys => LedgerFits(i)'
    BY <2>1, <2>2, <2>3 DEF LedgerFits, Pending
  <2> QED
    BY <1>4, <2>1, <2>4 DEF Idle
<1>9. CASE Release(c)
  <2>1. PICK s : s = [call[c] EXCEPT !.pc = "close"]
    OBVIOUS
  <2>2. /\ call' = [call EXCEPT ![c] = s] /\ s.pc = "close" /\ s.intent = i
        /\ s.reason = call[c].reason
    BY <1>0, <1>1, <1>9, <2>1 DEF Release, Records
  <2>3. /\ status' = status /\ UNCHANGED <<claim, reserved>>
        /\ status[i] = Pending /\ s.reason \in Reasons
    BY <1>1, <1>2, <1>9, <2>2 DEF Release, ServiceKnows
  <2>4. i \in Buys => released'[i] = released[i] \cup {s.reason}
    BY <1>1, <1>2, <1>9, <2>2 DEF Release, ReleaseReservation, TypeOK
  <2>5. i \in Buys => released'[i] = {s.reason}
    BY <1>2, <2>3, <2>4 DEF LedgerFits, OneReason
  <2>6. i \in Buys => LedgerFits(i)'
    BY <1>2, <2>3, <2>5 DEF LedgerFits, Pending, Closed
  <2> QED
    BY <1>4, <2>2, <2>3, <2>5, <2>6 DEF Pending
<1>10. CASE Close(c)
  <2>1. /\ call' = [call EXCEPT ![c] = Idle] /\ status'[i] = call[c].reason
        /\ UNCHANGED <<claim, ledger>> /\ call[c].reason \in Reasons /\ status[i] = Pending
    BY <1>1, <1>2, <1>10 DEF Close, TypeOK, ServiceKnows
  <2>2. call[c].reason \in Closed
    BY <2>1, LocalAssumption DEF LocalAssumption, Closed
  <2>3. i \in Buys => released[i] = {call[c].reason}
    BY <1>1, <1>2, <1>10 DEF Close, ServiceKnows
  <2>4. i \in Buys => LedgerFits(i)'
    BY <1>2, <2>1, <2>2, <2>3 DEF LedgerFits, Pending, Closed, ledger
  <2> QED
    BY <1>4, <2>1, <2>2, <2>4 DEF Idle, Closed
<1>11. CASE Persist(c)
  <2>1. PICK s : s \in {Idle, [call[c] EXCEPT !.pc = "enqueue"]} /\ call' = [call EXCEPT ![c] = s]
    BY <1>11 DEF Persist
  <2>2. s.pc \in {"idle", "enqueue"} /\ (s.pc = "idle" \/ s.intent = i)
    BY <1>0, <1>1, <2>1 DEF Idle, Records
  <2>3. status'[i] = Pending /\ status[i] \in {"NONE", Pending} /\ UNCHANGED <<claim, ledger>>
    BY <1>1, <1>2, <1>11 DEF Persist, TypeOK
  <2>4. status[i] = Pending
    BY <1>2, <2>3 DEF WorksAlone
  <2>5. i \in Buys => LedgerFits(i)'
    BY <1>2, <2>3, <2>4 DEF LedgerFits, ledger
  <2> QED
    BY <1>4, <2>1, <2>2, <2>3, <2>5 DEF Pending
<1> QED
  BY <1>5, <1>6, <1>7, <1>8, <1>9, <1>10, <1>11

\* Each step of a service that works alone keeps the invariant.
LEMMA AloneKeeps ==
    ASSUME AloneInv, OneReason, [Next /\ WorksAlone]_vars
    PROVE  AloneInv'
<1>1. TypeOK' /\ BusyHasIntent'
  BY StepPreservesTypes DEF AloneInv
<1>2. CASE UNCHANGED vars
  BY <1>1, <1>2 DEF vars, ledger, AloneInv, LedgerFits, ServiceKnows
<1>3. ASSUME WorksAlone, NEW c \in Calls, Step(c) PROVE AloneInv'
  BY <1>1, <1>3, SettlesNothing, SettlesIntent DEF Step
<1>4. ASSUME WorksAlone, NEW i \in Intents, ClaimExternally(i) PROVE AloneInv'
  <2>1. UNCHANGED <<status, ledger, call>> /\ \A j \in Intents : claim'[j] # claim[j] => status[j] = Pending
    BY <1>4 DEF ClaimExternally, AloneInv, TypeOK
  <2>2. \A j \in Intents : claim'[j] # "NONE" => status'[j] # "NONE"
    BY <2>1 DEF AloneInv, Pending
  <2> QED
    BY <1>1, <2>1, <2>2 DEF AloneInv, LedgerFits, ServiceKnows, ledger
<1> QED
  BY <1>2, <1>3, <1>4 DEF Next

\* A service that works alone releases a reservation at most once, and what it
\* ended keeps nothing back, whichever step a crash interrupts
\* (submit_and_simulate, expire_pending_intent).
THEOREM AloneReleasesOnce == OneReason => (AloneSpec => []ReleasedOnce)
<1> SUFFICES ASSUME OneReason PROVE AloneSpec => []ReleasedOnce
  OBVIOUS
<1>1. AloneInv /\ [Next /\ WorksAlone]_vars => AloneInv'
  BY AloneKeeps
<1>2. AloneInv => ReleasedOnce
  BY FitsRelease DEF AloneInv
<1> QED
  BY <1>1, <1>2, AloneStarts, PTL DEF AloneSpec

\* So it does in the scene of MCLocalBooks in which services work alone, next to
\* the client and the credentialed order (submit_and_simulate,
\* expire_pending_intent).
THEOREM AloneSceneReleasesOnce == OneReason => (MCSpec => []ReleasedOnceAlone)
<1> SUFFICES ASSUME OneReason PROVE MCSpec => []ReleasedOnceAlone
  OBVIOUS
<1> DEFINE Inv == scene = "alone" => AloneInv
<1>1. MCInit => Inv
  BY AloneStarts DEF MCInit
<1>2. Inv /\ [MCNext]_<<vars, clientVars, orderVars, scene>> => Inv'
  <2> SUFFICES ASSUME Inv, [MCNext]_<<vars, clientVars, orderVars, scene>>, scene' = "alone"
               PROVE  AloneInv'
    OBVIOUS
  <2>1. scene = "alone" /\ AloneInv
    BY DEF MCNext
  <2>2. [Next /\ WorksAlone]_vars
    BY <2>1 DEF MCNext, Allowed
  <2> QED
    BY <2>1, <2>2, AloneKeeps
<1>3. Inv => ReleasedOnceAlone
  BY FitsRelease DEF AloneInv, ReleasedOnceAlone
<1> QED
  <2> HIDE DEF Inv
  <2> QED
    BY <1>1, <1>2, <1>3, PTL DEF MCSpec

-----------------------------------------------------------------------------
\* The process client.


(* While a transport is in use the two ends are in step: at most the request  *)
(* that is waited for, or one line for it, is under way.                      *)
InStep ==
  transport # 0 /\ ~unhealthy =>
    \/ inbox[transport] = <<>> /\ outbox[transport] = <<>>
    \/ Awaiting /\ inbox[transport] = <<api.waits>> /\ outbox[transport] = <<>>
    \/ /\ Awaiting /\ inbox[transport] = <<>>
       /\ \E line \in Answer : line.id \in {api.waits, Garbled} /\ outbox[transport] = <<line>>

(* A call works on a transport that is in use; children not started yet and   *)
(* children that ended have nothing to do.                                    *)
InUse ==
  /\ api # NoApi => transport # 0 /\ ~unhealthy
  /\ api.stage = "idle" <=> api = NoApi
  /\ verified # 0 => transport # 0

Quiet ==
  /\ \A i \in Child : i \notin alive => inbox[i] = <<>>
  /\ \A i \in Child : i > transport => inbox[i] = <<>> /\ outbox[i] = <<>>

ClientInv == ClientTypeOK /\ InStep /\ InUse /\ Quiet

LEMMA ClientInitially == ClientInit => ClientInv
<1> SUFFICES ASSUME ClientInit PROVE ClientInv
  OBVIOUS
<1>1. ClientTypeOK
  <2>1. api \in [op : {"none", "start", Read, Mutate},
                 stage : {"idle", "health", "capabilities", "op"},
                 waits : {NotWaiting} \cup RequestId]
    BY DEF ClientInit, NoApi
  <2>2. requests \in 0..MaxRequests
    BY ClientAssumption DEF ClientInit, ClientAssumption
  <2>3. inbox \in [Child -> Seq(RequestId)] /\ outbox \in [Child -> Seq(Answer)]
    BY DEF ClientInit
  <2> QED
    BY <2>1, <2>2, <2>3 DEF ClientInit, ClientTypeOK
<1>2. InStep /\ InUse /\ Quiet
  BY DEF ClientInit, InStep, InUse, Quiet, NoApi
<1> QED
  BY <1>1, <1>2 DEF ClientInv

LEMMA LaunchKeeps ==
  ASSUME ClientInv, NEW op \in {"start", Read}, Launch(op)
  PROVE  ClientInv'
<1>1. transport + 1 \in Child /\ transport' = transport + 1 /\ transport \in Nat
  BY ClientAssumption DEF ClientAssumption, ClientInv, ClientTypeOK, Launch, Child
<1>2. inbox[transport + 1] = <<>> /\ outbox[transport + 1] = <<>>
  BY <1>1 DEF ClientInv, Quiet
<1>3. ClientTypeOK'
  <2>1. api' \in [op : {"none", "start", Read, Mutate},
                  stage : {"idle", "health", "capabilities", "op"},
                  waits : {NotWaiting} \cup RequestId]
    BY DEF Launch
  <2>2. transport' \in Child /\ alive' \in SUBSET Child /\ unhealthy' \in BOOLEAN
    BY <1>1 DEF ClientInv, ClientTypeOK, Launch
  <2>3. UNCHANGED <<requests, inbox, outbox, verified>>
    BY DEF Launch
  <2> QED
    BY <2>1, <2>2, <2>3 DEF ClientInv, ClientTypeOK
<1>4. (InStep /\ InUse)'
  BY <1>1, <1>2 DEF ClientInv, InStep, InUse, Launch, NoApi, Awaiting, NotWaiting, Read
<1>5. Quiet'
  BY <1>1 DEF ClientInv, Quiet, Launch, Child
<1> QED
  BY <1>3, <1>4, <1>5 DEF ClientInv

LEMMA GiveUpKeeps ==
  ASSUME ClientInv, Awaiting, GiveUp, UNCHANGED <<transport, requests, verified>>,
         outbox' \in [Child -> Seq(Answer)],
         \A i \in Child : i # transport => outbox'[i] = outbox[i]
  PROVE  ClientInv'
<1>1. transport \in Child
  BY DEF ClientInv, ClientTypeOK, InUse, Awaiting, NoApi, NotWaiting
<1>2. ClientTypeOK'
  <2>1. api' \in [op : {"none", "start", Read, Mutate},
                  stage : {"idle", "health", "capabilities", "op"},
                  waits : {NotWaiting} \cup RequestId]
    BY DEF GiveUp, NoApi
  <2>2. alive' \in SUBSET Child /\ unhealthy' \in BOOLEAN
    BY DEF ClientInv, ClientTypeOK, GiveUp
  <2>3. inbox' \in [Child -> Seq(RequestId)]
    <3>1. <<>> \in Seq(RequestId)
      OBVIOUS
    <3> QED
      BY <3>1 DEF ClientInv, ClientTypeOK, GiveUp
  <2> QED
    BY <2>1, <2>2, <2>3 DEF ClientInv, ClientTypeOK
<1>3. (InStep /\ InUse /\ Quiet)'
  BY <1>1 DEF ClientInv, ClientTypeOK, InStep, InUse, Quiet, GiveUp, NoApi, Child
<1> QED
  BY <1>2, <1>3 DEF ClientInv

LEMMA SendKeeps ==
  ASSUME ClientInv, Send
  PROVE  ClientInv'
<1>1. api # NoApi /\ ~Awaiting /\ transport \in Child /\ ~unhealthy
  BY DEF Send, ClientInv, ClientTypeOK, InUse
<1>2. inbox[transport] = <<>> /\ outbox[transport] = <<>>
  BY <1>1 DEF ClientInv, InStep, Child
<1>3. CASE transport \in alive /\ requests < MaxRequests
  <2>1. /\ requests' = requests + 1 /\ requests + 1 \in RequestId
        /\ inbox' = [inbox EXCEPT ![transport] = Append(@, requests + 1)]
        /\ api' = [api EXCEPT !.waits = requests + 1]
        /\ UNCHANGED <<transport, unhealthy, alive, outbox, verified>>
    BY <1>3, ClientAssumption DEF ClientAssumption, Send, ClientInv, ClientTypeOK, RequestId
  <2>2. Append(inbox[transport], requests + 1) = <<requests + 1>>
    BY <1>2
  <2>3. <<requests + 1>> \in Seq(RequestId)
    BY <2>1
  <2>4. inbox' \in [Child -> Seq(RequestId)] /\ inbox'[transport] = <<requests + 1>>
    BY <1>1, <2>1, <2>2, <2>3 DEF ClientInv, ClientTypeOK
  <2>5. /\ api' \in [op : {"none", "start", Read, Mutate},
                     stage : {"idle", "health", "capabilities", "op"},
                     waits : {NotWaiting} \cup RequestId]
        /\ api'.waits = requests + 1 /\ api'.stage = api.stage /\ api'.op = api.op
    BY <2>1 DEF ClientInv, ClientTypeOK
  <2>6. ClientTypeOK'
    BY <2>1, <2>4, <2>5 DEF ClientInv, ClientTypeOK, RequestId
  <2>7. Awaiting' /\ api' # NoApi
    BY <2>1, <2>5 DEF Awaiting, NotWaiting, NoApi, RequestId
  <2>8. InStep' /\ InUse'
    BY <1>1, <1>2, <2>1, <2>4, <2>5, <2>7 DEF ClientInv, InStep, InUse
  <2>9. Quiet'
    BY <1>1, <1>3, <2>1 DEF ClientInv, ClientTypeOK, Quiet, Child
  <2> QED
    BY <2>6, <2>8, <2>9 DEF ClientInv
<1>4. CASE transport \notin alive /\ api' = NoApi /\ UNCHANGED <<requests, inbox>>
  <2>1. ClientTypeOK'
    BY <1>4 DEF Send, ClientInv, ClientTypeOK, NoApi
  <2>2. (InStep /\ InUse /\ Quiet)'
    BY <1>1, <1>2, <1>4 DEF Send, ClientInv, InStep, InUse, Quiet, NoApi
  <2> QED
    BY <2>1, <2>2 DEF ClientInv
<1> QED
  BY <1>3, <1>4 DEF Send

LEMMA ReceiveKeeps ==
  ASSUME ClientInv, Receive
  PROVE  ClientInv'
<1> DEFINE line == Head(outbox[transport])
<1>1. Awaiting /\ outbox[transport] # <<>> /\ transport \in Child /\ ~unhealthy /\ api # NoApi
  BY DEF Receive, ClientInv, ClientTypeOK, InUse, Awaiting, NoApi
<1>2. inbox[transport] = <<>> /\ \E l \in Answer : outbox[transport] = <<l>>
  BY <1>1 DEF ClientInv, InStep, Child
<1>3. Tail(outbox[transport]) = <<>>
  BY <1>2
<1>4. /\ outbox' = [outbox EXCEPT ![transport] = <<>>]
      /\ UNCHANGED <<transport, requests>>
  BY <1>3 DEF Receive
<1>5. outbox' \in [Child -> Seq(Answer)] /\ outbox'[transport] = <<>>
  <2>1. <<>> \in Seq(Answer)
    OBVIOUS
  <2> QED
    BY <1>1, <1>4, <2>1 DEF ClientInv, ClientTypeOK
<1>6. CASE line.id # api.waits
  <2>1. GiveUp /\ UNCHANGED verified
    BY <1>6 DEF Receive
  <2> QED
    BY <1>1, <1>4, <1>5, <2>1, GiveUpKeeps DEF ClientInv, ClientTypeOK
<1>7. CASE line.id = api.waits
  <2>1. /\ api' \in {Advance, NoApi} /\ verified' \in {transport, verified}
        /\ UNCHANGED <<unhealthy, alive, inbox>>
    BY <1>7 DEF Receive
  <2>2. /\ api' \in [op : {"none", "start", Read, Mutate},
                     stage : {"idle", "health", "capabilities", "op"},
                     waits : {NotWaiting} \cup RequestId]
        /\ api' = NoApi \/ api'.stage # "idle"
    <3>1. CASE api' = NoApi
      BY <3>1 DEF NoApi
    <3>2. CASE api' = [api EXCEPT !.stage = "capabilities", !.waits = NotWaiting]
      BY <3>2 DEF ClientInv, ClientTypeOK
    <3>3. CASE api' = [api EXCEPT !.stage = "op", !.waits = NotWaiting]
      BY <3>3 DEF ClientInv, ClientTypeOK
    <3> QED
      BY <2>1, <3>1, <3>2, <3>3 DEF Advance
  <2>3. ClientTypeOK'
    BY <1>1, <1>4, <1>5, <2>1, <2>2 DEF ClientInv, ClientTypeOK
  <2>4. InUse'
    <3>1. NoApi.stage = "idle"
      BY DEF NoApi
    <3>2. transport # 0
      BY <1>1 DEF Child
    <3> QED
      BY <1>1, <1>4, <2>1, <2>2, <3>1, <3>2 DEF InUse
  <2>5. InStep' /\ Quiet'
    BY <1>1, <1>2, <1>4, <1>5, <2>1 DEF ClientInv, ClientTypeOK, InStep, Quiet, Child
  <2> QED
    BY <2>3, <2>4, <2>5 DEF ClientInv
<1> QED
  BY <1>6, <1>7

LEMMA RespondKeeps ==
  ASSUME ClientInv, NEW i \in Child, Respond(i)
  PROVE  ClientInv'
<1>1. PICK id \in {Head(inbox[i]), Garbled}, success \in BOOLEAN :
        outbox' = [outbox EXCEPT ![i] = Append(@, [id |-> id, success |-> success])]
  BY DEF Respond
<1> DEFINE written == [id |-> id, success |-> success]
<1>2. /\ i \in alive /\ inbox[i] # <<>>
      /\ inbox' = [inbox EXCEPT ![i] = Tail(@)]
      /\ UNCHANGED <<transport, unhealthy, api, requests, alive, verified>>
  BY DEF Respond
<1>3. inbox[i] \in Seq(RequestId) /\ outbox[i] \in Seq(Answer)
  BY DEF ClientInv, ClientTypeOK
<1>4. Head(inbox[i]) \in RequestId /\ Tail(inbox[i]) \in Seq(RequestId)
  BY <1>2, <1>3, HeadTailProperties
<1>5. written \in Answer
  BY <1>4 DEF Answer
<1>6. Append(outbox[i], written) \in Seq(Answer)
  BY <1>3, <1>5
<1>7. ClientTypeOK'
  BY <1>1, <1>2, <1>4, <1>6 DEF ClientInv, ClientTypeOK
<1>8. InUse'
  BY <1>2 DEF ClientInv, InUse
<1>9. Quiet'
  BY <1>1, <1>2 DEF ClientInv, ClientTypeOK, Quiet
<1>10. InStep'
  <2>1. CASE i # transport
    BY <1>1, <1>2, <2>1 DEF ClientInv, ClientTypeOK, InStep, Awaiting
  <2>2. CASE i = transport /\ unhealthy
    BY <1>2, <2>2 DEF InStep
  <2>3. CASE i = transport /\ ~unhealthy
    <3>1. Awaiting /\ inbox[i] = <<api.waits>> /\ outbox[i] = <<>>
      BY <1>2, <2>3 DEF ClientInv, InStep, Child
    <3>2. Tail(inbox[i]) = <<>> /\ Head(inbox[i]) = api.waits
      BY <3>1
    <3>3. Append(outbox[i], written) = <<written>>
      BY <3>1
    <3>4. inbox'[i] = <<>> /\ outbox'[i] = <<written>>
      BY <1>1, <1>2, <3>2, <3>3 DEF ClientInv, ClientTypeOK
    <3>5. written.id \in {api.waits, Garbled}
      BY <3>2
    <3>6. \E line \in Answer : line.id \in {api.waits, Garbled} /\ outbox'[i] = <<line>>
      BY <1>5, <3>4, <3>5
    <3> QED
      BY <1>2, <2>3, <3>1, <3>4, <3>6 DEF InStep, Awaiting
  <2> QED
    BY <2>1, <2>2, <2>3
<1> QED
  BY <1>7, <1>8, <1>9, <1>10 DEF ClientInv

LEMMA ExitKeeps ==
  ASSUME ClientInv, NEW i \in Child, Exit(i)
  PROVE  ClientInv'
<1>1. <<>> \in Seq(RequestId)
  OBVIOUS
<1>2. ClientTypeOK'
  BY <1>1 DEF Exit, ClientInv, ClientTypeOK
<1>3. (InUse /\ Quiet)'
  BY DEF Exit, ClientInv, ClientTypeOK, InUse, Quiet
<1>4. InStep'
  BY DEF Exit, ClientInv, ClientTypeOK, InStep, Awaiting
<1> QED
  BY <1>2, <1>3, <1>4 DEF ClientInv

LEMMA ClientStepKeeps == ClientInv /\ [ClientNext]_clientVars => ClientInv'
<1> SUFFICES ASSUME ClientInv, [ClientNext]_clientVars PROVE ClientInv'
  OBVIOUS
<1>1. CASE Start
  BY <1>1, LaunchKeeps DEF Start
<1>2. ASSUME NEW op \in {Read, Mutate}, Request(op) PROVE ClientInv'
  <2>1. CASE op = Read /\ Launch(op)
    BY <2>1, LaunchKeeps
  <2>2. CASE /\ ~unhealthy
             /\ api' = [op |-> op, stage |-> "op", waits |-> NotWaiting]
             /\ UNCHANGED <<transport, unhealthy, requests, alive, inbox, outbox, verified>>
    <3>1. api = NoApi /\ verified # 0
      BY <1>2 DEF Request
    <3>2. ~Awaiting /\ ~Awaiting' /\ api' # NoApi /\ api'.stage # "idle"
      BY <2>2, <3>1 DEF Awaiting, NoApi, NotWaiting
    <3>3. ClientTypeOK'
      BY <2>2 DEF ClientInv, ClientTypeOK, Read, Mutate, NotWaiting
    <3>4. (InStep /\ InUse /\ Quiet)'
      BY <2>2, <3>1, <3>2 DEF ClientInv, InStep, InUse, Quiet
    <3> QED
      BY <3>3, <3>4 DEF ClientInv
  <2> QED
    BY <1>2, <2>1, <2>2 DEF Request
<1>3. CASE Send
  BY <1>3, SendKeeps
<1>4. CASE Timeout
  BY <1>4, GiveUpKeeps DEF Timeout, ClientInv, ClientTypeOK
<1>5. CASE EndOfFile
  <2>1. Awaiting /\ transport \in Child /\ inbox[transport] = <<>> /\ outbox[transport] = <<>>
    BY <1>5 DEF EndOfFile, ClientInv, ClientTypeOK, InUse, Quiet, Awaiting, NoApi
  <2>2. ClientTypeOK'
    BY <1>5 DEF EndOfFile, ClientInv, ClientTypeOK, NoApi
  <2>3. (InStep /\ InUse /\ Quiet)'
    BY <1>5, <2>1 DEF EndOfFile, ClientInv, InStep, InUse, Quiet, NoApi
  <2> QED
    BY <2>2, <2>3 DEF ClientInv
<1>6. CASE Receive
  BY <1>6, ReceiveKeeps
<1>7. CASE \E i \in Child : Respond(i) \/ Exit(i)
  BY <1>7, RespondKeeps, ExitKeeps
<1>8. CASE UNCHANGED clientVars
  BY <1>8 DEF clientVars, ClientInv, ClientTypeOK, InStep, InUse, Quiet, Awaiting
<1> QED
  BY <1>1, <1>2, <1>3, <1>4, <1>5, <1>6, <1>7, <1>8 DEF ClientNext, ClientStep

LEMMA ClientInvariant == ClientSpec => []ClientInv
BY ClientInitially, ClientStepKeeps, PTL DEF ClientSpec

\* Client, children and the lines between them stay in type.
THEOREM ClientTypeCorrect == ClientSpec => []ClientTypeOK
<1>1. ClientInv => ClientTypeOK
  BY DEF ClientInv
<1> QED
  BY <1>1, ClientInvariant, PTL

\* However many requests time out and however many children are started, a
\* request is never answered by what an earlier one left behind
\* (_mark_unhealthy_after_timeout).
THEOREM AnswersBelong == ClientSpec => []NoStaleAnswer
<1>1. ASSUME ClientInv PROVE NoStaleAnswer
  <2>1. SUFFICES ASSUME Awaiting, outbox[transport] # <<>>
                 PROVE  Head(outbox[transport]).id \in {api.waits, Garbled}
    BY DEF NoStaleAnswer
  <2>2. transport # 0 /\ ~unhealthy
    BY <1>1, <2>1 DEF ClientInv, InUse, Awaiting, NoApi
  <2>3. PICK line \in Answer : line.id \in {api.waits, Garbled} /\ outbox[transport] = <<line>>
    BY <1>1, <2>1, <2>2 DEF ClientInv, InStep
  <2> QED
    BY <2>3
<1> QED
  BY <1>1, ClientInvariant, PTL

-----------------------------------------------------------------------------
\* The credentialed order.

\* The theorem is about one polling command at a time.
OneSyncer == \A p, q \in Syncer : p = q

Events == [id : EventId, filled : Nat]

Applying == {"apply", "order", "position", "cash", "mark"}
Booking == {"order", "position", "cash"}
Answered == Applying \cup {"events", "save", "status", "result"}

Commands ==
    [pc : Answered \cup {"idle", "lookup", "submit", "recover", "record", "poll"},
     seen : Snapshots, event : Events, position : Int, cash : Int]

CommandsTyped ==
    /\ command \in [Process -> Commands]
    /\ events \subseteq Events /\ IsFiniteSet(events)
    /\ broker.status = "NONE" => broker.filled = 0

\* The events tell fills of the broker, each of them once: an id stands for the
\* quantity that was recognized when its event was saved.
EventsTell ==
    /\ \A e, f \in events : e.id = f.id => e = f
    /\ \A e \in events : e.id.total <= Recognized
    /\ Recognized <= broker.filled

\* What a polling command may rely on: an answer can only fall behind the broker,
\* and a terminal one not even that; its event follows from the answer, and
\* after it has been saved all fills of a terminal answer are recognized.
AnswerHolds(w) ==
    /\ w.pc \in Answered =>
         /\ w.seen.filled <= broker.filled
         /\ w.seen.status \in Terminal => w.seen = broker
    /\ w.pc = "save" => /\ w.event = Derived(w.seen)
                        /\ w.seen.filled > Recognized \/ w.seen.status \in Terminal
    /\ w.pc \in Applying \cup {"status", "result"} /\ w.seen.status \in Terminal
         => Recognized = w.seen.filled
    /\ w.pc = "result" => w.seen.status \in Terminal
    /\ w.pc \in Applying /\ w.event.filled > 0 => w.event \in events

ResultStands ==
    result # NoOrder =>
      /\ broker.status \in Terminal
      /\ result = [broker EXCEPT !.status = Projected(@)]
      /\ Recognized = result.filled

AnswerInv ==
    /\ OrderTypeOK /\ CommandsTyped /\ EventsTell /\ ResultStands
    /\ \A p \in Syncer : AnswerHolds(command[p])

\* The shares of the events that the ledger has a simulated order of.
Ordered == Fills({e \in events : e.id \in keys})

\* A booking in progress: what was read of the ledger still holds, and its event
\* is counted in Ordered before it is in the position, and there before it is
\* in the cash.
BookingHolds(w) ==
    /\ w.pc \in Booking => w.event.filled > 0 /\ w.cash = cash
    /\ w.pc = "order" => w.event.id \notin keys
    /\ w.pc \in {"order", "position"} => w.position = position
    /\ w.pc = "position" => position + w.event.filled <= Ordered
    /\ w.pc = "cash" => funds - cash + w.event.filled <= position

BookInv ==
    /\ position <= Ordered /\ funds - cash <= position
    /\ \A p \in Syncer : BookingHolds(command[p])

-----------------------------------------------------------------------------
\* The fills of a set of events.
LEMMA FillsTyped ==
    ASSUME NEW es \in SUBSET Events, IsFiniteSet(es)
    PROVE  Fills(es) \in Nat
<1> DEFINE f == [e \in es |-> e.filled]
<1>1. \A e \in es : f[e] \in Nat
  BY DEF Events
<1> HIDE DEF f
<1>2. SumFunctionOnSet(f, es) \in Nat
  BY <1>1, SumType
<1> QED
  BY <1>2 DEF Fills, f

LEMMA FillsAdd ==
    ASSUME NEW es \in SUBSET Events, IsFiniteSet(es), NEW x \in Events, x \notin es
    PROVE  Fills(es \cup {x}) = x.filled + Fills(es)
<1> DEFINE f == [e \in es |-> e.filled]
           g == [e \in es \cup {x} |-> e.filled]
<1>1. /\ \A e \in es : f[e] \in Int /\ f[e] = g[e]
      /\ \A e \in es \cup {x} : g[e] \in Int
      /\ g[x] = x.filled
  BY DEF Events
<1>2. Fills(es) = SumFunctionOnSet(f, es) /\ Fills(es \cup {x}) = SumFunctionOnSet(g, es \cup {x})
  BY DEF Fills
<1> HIDE DEF f, g
<1>3. SumFunctionOnSet(f, es) = SumFunctionOnSet(g, es)
  BY <1>1, SumSame
<1>4. SumFunctionOnSet(g, es \cup {x}) = g[x] + SumFunctionOnSet(g, es)
  BY <1>1, SumPutsIn
<1> QED
  BY <1>1, <1>2, <1>3, <1>4

LEMMA FillsGrow ==
    ASSUME NEW es \in SUBSET Events, IsFiniteSet(es), NEW fs \in SUBSET es
    PROVE  Fills(fs) <= Fills(es)
<1> DEFINE f == [e \in es |-> e.filled]
           g == [e \in fs |-> e.filled]
<1>1. \A e \in es : f[e] \in Nat
  BY DEF Events
<1>2. /\ \A e \in fs : g[e] \in Int /\ g[e] = f[e]
      /\ IsFiniteSet(fs)
  BY FS_Subset DEF Events
<1>3. Fills(es) = SumFunctionOnSet(f, es) /\ Fills(fs) = SumFunctionOnSet(g, fs)
  BY DEF Fills
<1> HIDE DEF f, g
<1>4. SumFunctionOnSet(g, fs) = SumFunctionOnSet(f, fs)
  BY <1>2, SumSame
<1>5. SumFunctionOnSet(f, fs) <= SumFunctionOnSet(f, es)
  BY <1>1, SumGrows
<1> QED
  BY <1>3, <1>4, <1>5

\* What the updates of a command write.
LEMMA Proceeds ==
    ASSUME CommandsTyped, NEW p \in Process,
           NEW pc \in Answered \cup {"idle", "lookup", "submit", "recover", "record", "poll"},
           Proceed(p, pc)
    PROVE  LET w == command[p]
               v == command'[p]
           IN /\ command' \in [Process -> Commands]
              /\ v.pc = pc /\ v.seen = w.seen /\ v.event = w.event
              /\ v.position = w.position /\ v.cash = w.cash
              /\ \A q \in Process : q # p => command'[q] = command[q]
BY DEF CommandsTyped, Commands, Proceed

LEMMA Keeps ==
    ASSUME CommandsTyped, NEW p \in Process,
           NEW pc \in Answered \cup {"idle", "lookup", "submit", "recover", "record", "poll"},
           NEW seen \in Snapshots, Keep(p, pc, seen)
    PROVE  LET v == command'[p]
           IN /\ command' \in [Process -> Commands]
              /\ v.pc = pc /\ v.seen = seen
              /\ \A q \in Process : q # p => command'[q] = command[q]
BY DEF CommandsTyped, Commands, Keep

LEMMA Finishes ==
    ASSUME CommandsTyped, NEW p \in Process, Finish(p)
    PROVE  /\ command' \in [Process -> Commands] /\ command'[p].pc = "idle"
           /\ \A q \in Process : q # p => command'[q] = command[q]
BY OrderAssumption DEF CommandsTyped, Commands, Finish, NoCommand, NoEvent, NoOrder, Snapshots,
   Events, EventId, Filled, Open, Terminal

LEMMA Builds ==
    ASSUME CommandsTyped, NEW p \in Process, NEW event \in Events,
           command' = [command EXCEPT ![p].pc = "save", ![p].event = event]
    PROVE  LET w == command[p]
               v == command'[p]
           IN /\ command' \in [Process -> Commands]
              /\ v.pc = "save" /\ v.seen = w.seen /\ v.event = event
              /\ \A q \in Process : q # p => command'[q] = command[q]
BY DEF CommandsTyped, Commands, Answered, Applying

LEMMA Reads ==
    ASSUME CommandsTyped, NEW p \in Process, position \in Int, cash \in Int,
           command' = [command EXCEPT ![p].pc = "order", ![p].position = position, ![p].cash = cash]
    PROVE  LET w == command[p]
               v == command'[p]
           IN /\ command' \in [Process -> Commands]
              /\ v.pc = "order" /\ v.seen = w.seen /\ v.event = w.event
              /\ v.position = position /\ v.cash = cash
              /\ \A q \in Process : q # p => command'[q] = command[q]
BY DEF CommandsTyped, Commands, Answered, Applying

\* Types.
LEMMA AnswerTyped ==
    ASSUME OrderTypeOK, CommandsTyped, NEW p \in Syncer, In(p, "events"),
           command[p].seen.filled > Recognized \/ command[p].seen.status \in Terminal
    PROVE  Derived(command[p].seen) \in Events
<1> DEFINE seen == command[p].seen
<1>1. seen \in Snapshots /\ seen.filled \in 0..Quantity /\ Quantity \in Nat /\ Recognized \in Int
  BY FillsTyped, OrderAssumption DEF CommandsTyped, Commands, Snapshots, Filled, Recognized, Process
<1> SUFFICES Derived(seen) \in Events
  OBVIOUS
<1>2. CASE seen.filled - Recognized > 0
  BY <1>1, <1>2 DEF Derived, Events, EventId, Filled
<1>3. CASE ~ (seen.filled - Recognized > 0)
  <2>1. seen.status \in Terminal
    BY <1>1, <1>3
  <2>2. Projected(seen.status) \in {"FILLED", "CANCELLED"}
    BY <2>1 DEF Terminal, Projected
  <2> QED
    BY <1>1, <1>3, <2>2 DEF Derived, Events, EventId, Filled
<1> QED
  BY <1>2, <1>3

LEMMA EnvironmentTypes ==
    ASSUME OrderTypeOK, CommandsTyped, BrokerFills \/ BrokerCloses \/ LateArrival
    PROVE  OrderTypeOK' /\ CommandsTyped'
<1>0. Accepted \in Snapshots /\ Accepted.status # "NONE"
  BY OrderAssumption DEF Accepted, Snapshots, Filled, Open
<1>1. broker' \in Snapshots /\ (broker'.status = "NONE" => broker'.filled = 0)
  <2>1. CASE BrokerFills
    <3>1. PICK total \in Filled :
            broker' = [status |-> IF total = Quantity THEN "FILLED" ELSE "PARTIALLY_FILLED",
                       filled |-> total]
      BY <2>1 DEF BrokerFills
    <3> QED
      BY <2>1, <3>1 DEF BrokerFills, OrderTypeOK, Snapshots, Open, Terminal
  <2>2. CASE BrokerCloses
    BY <2>2 DEF BrokerCloses, OrderTypeOK, Snapshots, Terminal
  <2>3. CASE LateArrival
    BY <1>0, <2>3 DEF LateArrival, OrderTypeOK, CommandsTyped
  <2> QED
    BY <2>1, <2>2, <2>3
<1>2. flight' \in BOOLEAN
  BY DEF BrokerFills, BrokerCloses, LateArrival, OrderTypeOK
<1> QED
  BY <1>1, <1>2 DEF BrokerFills, BrokerCloses, LateArrival, OrderTypeOK, CommandsTyped, eventVars, ledgerVars

LEMMA SubmitterTypes ==
    ASSUME OrderTypeOK, CommandsTyped, NEW p \in Submitter,
           BeginSubmit(p) \/ Lookup(p) \/ Submit(p) \/ Recover(p) \/ Record(p) \/ Crash(p)
    PROVE  /\ OrderTypeOK' /\ CommandsTyped'
           /\ \A q \in Process : q # p => command'[q] = command[q]
<1>0. p \in Process /\ command[p].seen \in Snapshots
  BY DEF Process, OrderTypeOK
<1>1. NoOrder \in Snapshots /\ [NoOrder EXCEPT !.status = "SUBMISSION_UNKNOWN"] \in Snapshots /\ Accepted \in Snapshots
  BY OrderAssumption DEF NoOrder, Accepted, Snapshots, Filled, Open
<1>2. /\ command' \in [Process -> Commands]
      /\ \A q \in Process : q # p => command'[q] = command[q]
  <2>1. CASE BeginSubmit(p)
    BY <1>0, <2>1, Proceeds DEF BeginSubmit
  <2>2. CASE Lookup(p)
    BY <1>0, <1>1, <2>2, Proceeds, Keeps DEF Lookup, OrderTypeOK
  <2>3. CASE Submit(p)
    <3>1. CASE Proceed(p, "recover")
      BY <1>0, <3>1, Proceeds
    <3>2. CASE broker' \in Snapshots /\ Keep(p, "record", broker')
      BY <1>0, <3>2, Keeps
    <3> QED
      BY <1>1, <2>3, <3>1, <3>2 DEF Submit, OrderTypeOK
  <2>4. CASE Recover(p)
    BY <1>0, <1>1, <2>4, Keeps DEF Recover, OrderTypeOK
  <2>5. CASE Record(p)
    BY <1>0, <2>5, Finishes DEF Record
  <2>6. CASE Crash(p)
    BY <1>0, <2>6, Finishes DEF Crash
  <2> QED
    BY <2>1, <2>2, <2>3, <2>4, <2>5, <2>6
<1>3. broker' \in Snapshots /\ (broker'.status = "NONE" => broker'.filled = 0)
  <2>1. broker' = broker \/ broker' = Accepted
    BY DEF BeginSubmit, Lookup, Submit, Recover, Record, Crash
  <2> QED
    BY <1>1, <2>1 DEF OrderTypeOK, CommandsTyped, Accepted
<1>8. flight' \in BOOLEAN
  BY DEF BeginSubmit, Lookup, Submit, Recover, Record, Crash, OrderTypeOK
<1>4. row' \in {"NONE", "PENDING_SUBMISSION", "SUBMISSION_UNKNOWN"} \cup Open \cup Terminal
  BY <1>0 DEF BeginSubmit, Lookup, Submit, Recover, Record, Crash, OrderTypeOK, Snapshots
<1>5. crashes' \in 0..MaxCrashes
  BY OrderAssumption DEF BeginSubmit, Lookup, Submit, Recover, Record, Crash, OrderTypeOK
<1>6. UNCHANGED <<events, applied, keys, position, funds, cash, result>>
  BY DEF BeginSubmit, Lookup, Submit, Recover, Record, Crash, eventVars, ledgerVars
<1>7. \A q \in Process : command'[q].seen \in Snapshots
  BY <1>2 DEF Commands
<1> QED
  BY <1>2, <1>3, <1>4, <1>5, <1>6, <1>7, <1>8 DEF OrderTypeOK, CommandsTyped

LEMMA SyncerTypes ==
    ASSUME OrderTypeOK, CommandsTyped, NEW p \in Syncer, SyncStep(p) \/ Crash(p),
           AnswerHolds(command[p])
    PROVE  /\ OrderTypeOK' /\ CommandsTyped'
           /\ \A q \in Process : q # p => command'[q] = command[q]
<1> DEFINE w == command[p]
<1>0. p \in Process /\ w \in Commands /\ w.seen \in Snapshots /\ w.event \in Events
  BY DEF Process, CommandsTyped, Commands
<1>1. /\ command' \in [Process -> Commands]
      /\ \A q \in Process : q # p => command'[q] = command[q]
  <2>1. CASE List(p) \/ SaveEvent(p) \/ MarkApplied(p) \/ WriteCash(p)
    BY <1>0, <2>1, Proceeds DEF List, SaveEvent, MarkApplied, WriteCash, Answered, Applying
  <2>2. CASE Poll(p)
    BY <1>0, <2>2, Keeps, Finishes DEF Poll, Answered, OrderTypeOK
  <2>3. CASE BuildEvent(p)
    BY <1>0, <2>3, Proceeds, Builds, AnswerTyped DEF BuildEvent, Answered
  <2>4. CASE ApplyEvent(p)
    BY <1>0, <2>4, Proceeds, Reads, Finishes DEF ApplyEvent, Answered, Applying, OrderTypeOK
  <2>5. CASE InsertOrder(p) \/ WritePosition(p) \/ WriteStatus(p)
    BY <1>0, <2>5, Proceeds, Finishes DEF InsertOrder, WritePosition, WriteStatus, Answered, Applying
  <2>6. CASE SaveResult(p) \/ Crash(p)
    BY <1>0, <2>6, Finishes DEF SaveResult, Crash
  <2> QED
    BY <2>1, <2>2, <2>3, <2>4, <2>5, <2>6 DEF SyncStep
<1>2. broker' = broker /\ flight' = flight /\ funds' = funds
  BY DEF SyncStep, List, Poll, BuildEvent, SaveEvent, ApplyEvent, InsertOrder, WritePosition,
     WriteCash, MarkApplied, WriteStatus, SaveResult, Crash, ledgerVars
<1>3. row' \in {"NONE", "PENDING_SUBMISSION", "SUBMISSION_UNKNOWN"} \cup Open \cup Terminal
  BY <1>0 DEF SyncStep, List, Poll, BuildEvent, SaveEvent, ApplyEvent, InsertOrder, WritePosition,
     WriteCash, MarkApplied, WriteStatus, SaveResult, Crash, OrderTypeOK, Snapshots
<1>4. crashes' \in 0..MaxCrashes
  BY OrderAssumption DEF SyncStep, List, Poll, BuildEvent, SaveEvent, ApplyEvent, InsertOrder, WritePosition,
     WriteCash, MarkApplied, WriteStatus, SaveResult, Crash, OrderTypeOK
<1>5. events' \subseteq Events /\ IsFiniteSet(events')
  <2>1. events' \in {events, events \cup {w.event}}
    BY DEF SyncStep, List, Poll, BuildEvent, SaveEvent, ApplyEvent, InsertOrder, WritePosition,
       WriteCash, MarkApplied, WriteStatus, SaveResult, Crash, eventVars
  <2> HIDE DEF w
  <2> QED
    BY <1>0, <2>1, FS_AddElement DEF CommandsTyped
<1>6. applied' \in SUBSET EventId /\ keys' \in SUBSET EventId
  <2>1. applied' \in {applied, applied \cup {w.event.id}} /\ keys' \in {keys, keys \cup {w.event.id}}
    BY DEF SyncStep, List, Poll, BuildEvent, SaveEvent, ApplyEvent, InsertOrder, WritePosition,
       WriteCash, MarkApplied, WriteStatus, SaveResult, Crash, eventVars, ledgerVars
  <2>2. w.event.id \in EventId
    BY <1>0 DEF Events
  <2> QED
    BY <2>1, <2>2 DEF OrderTypeOK
<1>7. position' \in Int /\ cash' \in Int
  <2>1. position' \in {position, w.position + w.event.filled} /\ cash' \in {cash, w.cash - w.event.filled}
    BY DEF SyncStep, List, Poll, BuildEvent, SaveEvent, ApplyEvent, InsertOrder, WritePosition,
       WriteCash, MarkApplied, WriteStatus, SaveResult, Crash, ledgerVars
  <2>2. w.event.filled \in Nat /\ w.position \in Int /\ w.cash \in Int
    BY <1>0 DEF Events, Commands
  <2> QED
    BY <2>1, <2>2 DEF OrderTypeOK
<1>8. result' \in Snapshots
  <2>1. CASE SaveResult(p)
    BY <1>0, <2>1 DEF SaveResult, Snapshots, Projected, Terminal
  <2>2. CASE ~SaveResult(p)
    BY <2>2 DEF SyncStep, List, Poll, BuildEvent, SaveEvent, ApplyEvent, InsertOrder, WritePosition,
     WriteCash, MarkApplied, WriteStatus, Crash, OrderTypeOK
  <2> QED
    BY <2>1, <2>2
<1>9. \A q \in Process : command'[q].seen \in Snapshots
  BY <1>1 DEF Commands
<1>10. \A e \in events' : e.id \in EventId /\ e.filled \in Nat
  BY <1>5 DEF Events
<1> QED
  BY <1>1, <1>2, <1>3, <1>4, <1>5, <1>6, <1>7, <1>8, <1>9, <1>10 DEF OrderTypeOK, CommandsTyped

\* The answers, the events and the result.
LEMMA RecognizedTyped ==
    ASSUME CommandsTyped
    PROVE  Recognized \in Nat
BY FillsTyped DEF CommandsTyped, Recognized

LEMMA BrokerMovesOn ==
    ASSUME AnswerInv, OrderTypeOK', CommandsTyped', UNCHANGED <<events, result>>,
           broker.status \in Terminal => broker' = broker, broker.filled <= broker'.filled,
           \A p \in Syncer : command'[p] = command[p]
    PROVE  AnswerInv'
<1>1. /\ Recognized' = Recognized /\ Recognized \in Nat
      /\ broker.filled \in Nat /\ broker'.filled \in Nat
  BY RecognizedTyped, OrderAssumption
     DEF Recognized, AnswerInv, OrderTypeOK, CommandsTyped, Snapshots, Filled
<1>2. EventsTell'
  BY <1>1 DEF AnswerInv, EventsTell
<1>3. ResultStands'
  BY <1>1 DEF AnswerInv, ResultStands
<1>4. ASSUME NEW p \in Syncer PROVE AnswerHolds(command[p])'
  <2> DEFINE w == command[p]
  <2>1. AnswerHolds(w) /\ w' = w /\ w.seen.filled \in Nat
    BY OrderAssumption DEF AnswerInv, CommandsTyped, Commands, Snapshots, Filled, Process
  <2>3. Derived(w.seen)' = Derived(w.seen)
    BY <1>1, <2>1 DEF Derived
  <2> HIDE DEF w
  <2>4. w.pc \in Answered => w.seen.filled <= broker'.filled
    BY <1>1, <2>1 DEF AnswerHolds
  <2>5. w.pc \in Answered /\ w.seen.status \in Terminal => w.seen = broker'
    BY <2>1 DEF AnswerHolds
  <2>6. AnswerHolds(w)'
    BY <1>1, <2>1, <2>3, <2>4, <2>5 DEF AnswerHolds
  <2> QED
    BY <2>6 DEF w
<1> QED
  BY <1>2, <1>3, <1>4 DEF AnswerInv

LEMMA OutsideAnswer ==
    ASSUME AnswerInv,
           \/ BrokerFills \/ BrokerCloses \/ LateArrival
           \/ \E p \in Submitter :
                BeginSubmit(p) \/ Lookup(p) \/ Submit(p) \/ Recover(p) \/ Record(p) \/ Crash(p)
    PROVE  AnswerInv'
<1>1. broker \in Snapshots /\ (broker.status = "NONE" => broker.filled = 0) /\ broker.filled \in Nat
  BY OrderAssumption DEF AnswerInv, OrderTypeOK, CommandsTyped, Snapshots, Filled
<1>2. Open \cap Terminal = {} /\ "NONE" \notin Terminal
  BY DEF Open, Terminal
<1>3. CASE BrokerFills \/ BrokerCloses \/ LateArrival
  <2>1. OrderTypeOK' /\ CommandsTyped'
    BY <1>3, EnvironmentTypes DEF AnswerInv
  <2>2. broker.status \in Terminal => broker' = broker
    BY <1>2, <1>3 DEF BrokerFills, BrokerCloses, LateArrival, Known
  <2>3. broker.filled <= broker'.filled
    <3>1. CASE BrokerFills
      <4>1. PICK total \in Filled :
              /\ total > broker.filled
              /\ broker' = [status |-> IF total = Quantity THEN "FILLED" ELSE "PARTIALLY_FILLED",
                            filled |-> total]
        BY <3>1 DEF BrokerFills
      <4>2. broker'.filled = total /\ total \in Nat
        BY <4>1, OrderAssumption DEF Filled
      <4> QED
        BY <1>1, <4>1, <4>2
    <3>2. CASE BrokerCloses
      BY <1>1, <3>2 DEF BrokerCloses, Snapshots
    <3>3. CASE LateArrival
      BY <1>1, <3>3 DEF LateArrival, Known, Accepted
    <3> QED
      BY <1>3, <3>1, <3>2, <3>3
  <2>4. UNCHANGED <<events, result, command>>
    BY <1>3 DEF BrokerFills, BrokerCloses, LateArrival, eventVars
  <2> QED
    BY <2>1, <2>2, <2>3, <2>4, BrokerMovesOn
<1>4. CASE \E p \in Submitter :
             BeginSubmit(p) \/ Lookup(p) \/ Submit(p) \/ Recover(p) \/ Record(p) \/ Crash(p)
  <2>1. PICK p \in Submitter :
          BeginSubmit(p) \/ Lookup(p) \/ Submit(p) \/ Recover(p) \/ Record(p) \/ Crash(p)
    BY <1>4
  <2>2. OrderTypeOK' /\ CommandsTyped' /\ \A q \in Process : q # p => command'[q] = command[q]
    BY <2>1, SubmitterTypes DEF AnswerInv
  <2>3. broker' = broker \/ (~Known /\ broker' = Accepted)
    BY <2>1 DEF BeginSubmit, Lookup, Submit, Recover, Record, Crash
  <2>4. (broker.status \in Terminal => broker' = broker) /\ broker.filled <= broker'.filled
    BY <1>1, <1>2, <2>3 DEF Known, Accepted
  <2>5. UNCHANGED <<events, result>>
    BY <2>1 DEF BeginSubmit, Lookup, Submit, Recover, Record, Crash, eventVars
  <2>6. \A q \in Syncer : command'[q] = command[q]
    BY <2>2, OrderAssumption DEF Process
  <2> QED
    BY <2>2, <2>4, <2>5, <2>6, BrokerMovesOn
<1> QED
  BY <1>3, <1>4

\* An event that is derived from new fills has an id that no event has.
LEMMA NewFillsAreNew ==
    ASSUME AnswerInv, NEW seen \in Snapshots, seen.filled > Recognized
    PROVE  /\ ~Exists(Derived(seen).id)
           /\ Derived(seen).filled = seen.filled - Recognized
           /\ Derived(seen).id.total = seen.filled
<1>1. Recognized \in Nat /\ seen.filled \in Nat
  BY RecognizedTyped, OrderAssumption DEF AnswerInv, Snapshots, Filled
<1>2. Derived(seen).filled = seen.filled - Recognized /\ Derived(seen).id.total = seen.filled
  BY <1>1 DEF Derived
<1>3. \A e \in events : e.id.total <= Recognized /\ e.id.total \in Nat
  BY OrderAssumption DEF AnswerInv, EventsTell, OrderTypeOK, EventId, Filled
<1> QED
  BY <1>1, <1>2, <1>3 DEF Exists

LEMMA NoNewFills ==
    ASSUME AnswerInv, NEW seen \in Snapshots, ~ (seen.filled > Recognized)
    PROVE  Derived(seen).filled = 0 /\ Derived(seen).id.total = seen.filled
<1>1. Recognized \in Nat /\ seen.filled \in Nat
  BY RecognizedTyped, OrderAssumption DEF AnswerInv, Snapshots, Filled
<1> QED
  BY <1>1 DEF Derived

\* What a saved event changes.
LEMMA SavingTells ==
    ASSUME AnswerInv, NEW p \in Syncer, SaveEvent(p)
    PROVE  LET w == command[p] IN
           /\ EventsTell'
           /\ Recognized <= Recognized'
           /\ w.seen.status \in Terminal => Recognized' = w.seen.filled
           /\ w.event.filled > 0 => w.event \in events' /\ w.event \notin events
<1> DEFINE w == command[p]
           seen == w.seen
<1>1. /\ w.event = Derived(seen) /\ (seen.filled > Recognized \/ seen.status \in Terminal)
      /\ seen.filled <= broker.filled /\ (seen.status \in Terminal => seen = broker)
      /\ w.event \in Events /\ seen \in Snapshots /\ broker' = broker
  BY DEF SaveEvent, In, AnswerInv, AnswerHolds, Answered, Applying, CommandsTyped, Commands, Process
<1>2. /\ Recognized \in Nat /\ seen.filled \in Nat /\ broker.filled \in Nat /\ Recognized <= broker.filled
      /\ \A e \in events : e.id.total <= Recognized /\ e.id.total \in Nat
  BY <1>1, RecognizedTyped, OrderAssumption
     DEF AnswerInv, EventsTell, OrderTypeOK, EventId, Snapshots, Filled
<1>3. CASE Exists(w.event.id)
  <2>1. events' = events /\ Recognized' = Recognized
    BY <1>3 DEF SaveEvent, Recognized
  <2>2. ~ (seen.filled > Recognized)
    BY <1>1, <1>3, NewFillsAreNew
  <2>3. w.event.filled = 0
    BY <1>1, <2>2, NoNewFills
  <2>4. EventsTell'
    BY <1>1, <2>1 DEF AnswerInv, EventsTell
  <2> HIDE DEF w
  <2> QED
    BY <1>1, <1>2, <2>1, <2>2, <2>3, <2>4 DEF w
<1>4. CASE ~Exists(w.event.id)
  <2>1. events' = events \cup {w.event} /\ w.event \notin events
    BY <1>4 DEF SaveEvent, Exists
  <2>2. Recognized' = w.event.filled + Recognized
    BY <1>1, <2>1, FillsAdd DEF AnswerInv, CommandsTyped, Recognized
  <2>3. w.event.filled \in Nat
    BY <1>1 DEF Events
  <2>4. CASE seen.filled > Recognized
    <3>1. w.event.filled = seen.filled - Recognized /\ w.event.id.total = seen.filled
      BY <1>1, <2>4, NewFillsAreNew
    <3>2. Recognized' = seen.filled
      BY <1>2, <2>2, <3>1
    <3>3. \A e \in events' : e.id.total <= Recognized'
      <4> HIDE DEF w, seen
      <4> QED
        BY <1>2, <2>1, <2>4, <3>1, <3>2
    <3>4. \A e, f \in events' : e.id = f.id => e = f
      BY <1>4, <2>1 DEF AnswerInv, EventsTell, Exists
    <3> HIDE DEF w, seen
    <3>5. EventsTell'
      BY <1>1, <3>2, <3>3, <3>4 DEF EventsTell
    <3> QED
      BY <1>2, <2>1, <2>4, <3>2, <3>5 DEF w, seen
  <2>5. CASE ~ (seen.filled > Recognized)
    <3>1. w.event.filled = 0 /\ w.event.id.total = seen.filled
      BY <1>1, <2>5, NoNewFills
    <3>2. Recognized' = Recognized
      BY <1>2, <2>2, <3>1
    <3>3. \A e \in events' : e.id.total <= Recognized'
      <4> HIDE DEF w, seen
      <4> QED
        BY <1>2, <2>1, <2>5, <3>1, <3>2
    <3>4. \A e, f \in events' : e.id = f.id => e = f
      BY <1>4, <2>1 DEF AnswerInv, EventsTell, Exists
    <3> HIDE DEF w, seen
    <3>5. EventsTell'
      BY <1>1, <1>2, <3>2, <3>3, <3>4 DEF EventsTell
    <3> QED
      BY <1>1, <1>2, <2>5, <3>1, <3>2, <3>5 DEF w, seen
  <2> QED
    BY <2>4, <2>5
<1> QED
  BY <1>3, <1>4

\* A step of the only polling command.
LEMMA SyncerAnswer ==
    ASSUME OneSyncer, AnswerInv, NEW p \in Syncer, SyncStep(p) \/ Crash(p)
    PROVE  AnswerInv'
<1> DEFINE w == command[p]
           v == command'[p]
<1>0. /\ p \in Process /\ w \in Commands /\ w.seen \in Snapshots /\ w.event \in Events
      /\ AnswerHolds(w) /\ OrderTypeOK /\ CommandsTyped
  BY DEF Process, AnswerInv, CommandsTyped, Commands
<1>1. OrderTypeOK' /\ CommandsTyped'
  BY <1>0, SyncerTypes
<1>2. broker' = broker
  BY DEF SyncStep, List, Poll, BuildEvent, SaveEvent, ApplyEvent, InsertOrder, WritePosition,
     WriteCash, MarkApplied, WriteStatus, SaveResult, Crash
<1>3. /\ Recognized \in Nat /\ w.seen.filled \in Nat /\ broker.filled \in Nat
      /\ Recognized <= broker.filled /\ w.event.filled \in Nat
  BY <1>0, RecognizedTyped, OrderAssumption DEF AnswerInv, EventsTell, Snapshots, Filled, OrderTypeOK, Events
<1>4. AnswerHolds(w)' => \A q \in Syncer : AnswerHolds(command[q])'
  BY DEF OneSyncer
<1>5. CASE SaveEvent(p)
  <2>1. /\ v.pc = "apply" /\ v.seen = w.seen /\ v.event = w.event /\ w.pc = "save"
    BY <1>0, <1>5, Proceeds DEF SaveEvent, In, Answered, Applying
  <2>2. /\ EventsTell' /\ Recognized <= Recognized' /\ Recognized' <= broker.filled
        /\ w.seen.status \in Terminal => Recognized' = w.seen.filled
        /\ w.event.filled > 0 => w.event \in events'
    BY <1>2, <1>5, SavingTells DEF EventsTell
  <2>3. AnswerHolds(w)'
    BY <1>0, <1>2, <2>1, <2>2 DEF AnswerHolds, Answered, Applying
  <2>4. ResultStands'
    <3>1. result' = result
      BY <1>5 DEF SaveEvent
    <3>2. Recognized' \in Nat
      BY <1>1, FillsTyped DEF CommandsTyped, Recognized
    <3>3. result # NoOrder => result.filled = broker.filled
      BY <1>0 DEF AnswerInv, ResultStands, OrderTypeOK, Snapshots
    <3> QED
      BY <1>2, <1>3, <2>2, <3>1, <3>2, <3>3 DEF AnswerInv, ResultStands
  <2> QED
    BY <1>1, <1>4, <2>2, <2>3, <2>4 DEF AnswerInv
<1>6. CASE ~SaveEvent(p)
  <2>1. events' = events
    BY <1>6 DEF SyncStep, List, Poll, BuildEvent, ApplyEvent, InsertOrder, WritePosition,
       WriteCash, MarkApplied, WriteStatus, SaveResult, Crash, eventVars
  <2>2. Recognized' = Recognized
    BY <2>1 DEF Recognized
  <2>3. EventsTell'
    BY <1>2, <2>1, <2>2 DEF AnswerInv, EventsTell
  <2>5. ResultStands'
    <3>1. CASE SaveResult(p)
      <4>1. /\ w.seen.status \in Terminal /\ w.seen = broker /\ Recognized = w.seen.filled
        BY <1>0, <3>1 DEF SaveResult, In, AnswerHolds, Answered, Applying
      <4>2. result' = [broker EXCEPT !.status = Projected(@)]
        BY <3>1, <4>1 DEF SaveResult
      <4>3. result'.filled = broker.filled
        BY <1>0, <4>2 DEF OrderTypeOK, Snapshots
      <4> QED
        BY <1>2, <2>2, <4>1, <4>2, <4>3 DEF ResultStands
    <3>2. CASE ~SaveResult(p)
      <4>1. result' = result
        BY <1>6, <3>2 DEF SyncStep, List, Poll, BuildEvent, ApplyEvent, InsertOrder, WritePosition,
           WriteCash, MarkApplied, WriteStatus, Crash
      <4> QED
        BY <1>2, <2>2, <4>1 DEF AnswerInv, ResultStands
    <3> QED
      BY <3>1, <3>2
  <2>6. AnswerHolds(w)'
    <3>1. CASE List(p)
      <4>1. v.pc = "poll"
        BY <1>0, <3>1, Proceeds DEF List
      <4> QED
        BY <4>1 DEF AnswerHolds, Answered, Applying
    <3>2. CASE SaveResult(p) \/ Crash(p)
      <4>1. v.pc = "idle"
        BY <1>0, <3>2, Finishes DEF SaveResult, Crash
      <4> QED
        BY <4>1 DEF AnswerHolds, Answered, Applying
    <3>3. CASE Poll(p)
      <4>1. v.pc = "idle" \/ (v.pc = "events" /\ v.seen = broker)
        BY <1>0, <3>3, Keeps, Finishes DEF Poll, Answered, OrderTypeOK
      <4> QED
        BY <1>2, <1>3, <4>1 DEF AnswerHolds, Answered, Applying
    <3>4. CASE BuildEvent(p)
      <4>1. CASE w.seen.filled > Recognized \/ w.seen.status \in Terminal
        <5>1. v.pc = "save" /\ v.seen = w.seen /\ v.event = Derived(w.seen) /\ w.pc = "events"
          BY <1>0, <3>4, <4>1, Builds, AnswerTyped DEF BuildEvent, In
        <5>2. Derived(w.seen)' = Derived(w.seen)
          BY <2>2, <5>1 DEF Derived
        <5> QED
          BY <1>0, <1>2, <2>2, <4>1, <5>1, <5>2 DEF AnswerHolds, Answered, Applying
      <4>2. CASE ~ (w.seen.filled > Recognized \/ w.seen.status \in Terminal)
        <5>1. v.pc = "status" /\ v.seen = w.seen /\ w.pc = "events"
          BY <1>0, <3>4, <4>2, Proceeds DEF BuildEvent, In, Answered
        <5> QED
          BY <1>0, <1>2, <2>2, <4>2, <5>1 DEF AnswerHolds, Answered, Applying
      <4> QED
        BY <4>1, <4>2
    <3>5. CASE ApplyEvent(p) \/ InsertOrder(p) \/ WritePosition(p) \/ WriteCash(p) \/ MarkApplied(p)
      <4>1. /\ w.pc \in Applying
            /\ \/ v.pc = "idle"
               \/ v.pc \in Applying \cup {"status"} /\ v.seen = w.seen /\ v.event = w.event
        <5>1. CASE ApplyEvent(p)
          BY <1>0, <5>1, Proceeds, Reads, Finishes DEF ApplyEvent, In, Answered, Applying, OrderTypeOK
        <5>2. CASE InsertOrder(p) \/ WritePosition(p)
          BY <1>0, <5>2, Proceeds, Finishes DEF InsertOrder, WritePosition, In, Answered, Applying
        <5>3. CASE WriteCash(p) \/ MarkApplied(p)
          BY <1>0, <5>3, Proceeds DEF WriteCash, MarkApplied, In, Answered, Applying
        <5> QED
          BY <3>5, <5>1, <5>2, <5>3
      <4> QED
        BY <1>0, <1>2, <2>1, <2>2, <4>1 DEF AnswerHolds, Answered, Applying
    <3>6. CASE WriteStatus(p)
      <4>1. w.pc = "status" /\ (v.pc = "idle" \/ (v.pc = "result" /\ v.seen = w.seen /\ w.seen.status \in Terminal))
        BY <1>0, <3>6, Proceeds, Finishes DEF WriteStatus, In, Answered
      <4> QED
        BY <1>0, <1>2, <2>2, <4>1 DEF AnswerHolds, Answered, Applying
    <3> QED
      BY <1>6, <3>1, <3>2, <3>3, <3>4, <3>5, <3>6 DEF SyncStep
  <2> QED
    BY <1>1, <1>4, <2>3, <2>5, <2>6 DEF AnswerInv
<1> QED
  BY <1>5, <1>6

\* The ledger.
LEMMA OrderedTyped ==
    ASSUME CommandsTyped
    PROVE  Ordered \in Nat /\ Ordered <= Recognized
<1> DEFINE es == {e \in events : e.id \in keys}
<1>1. es \in SUBSET events /\ es \in SUBSET Events /\ IsFiniteSet(es)
  BY FS_Subset DEF CommandsTyped
<1> QED
  BY <1>1, FillsTyped, FillsGrow DEF CommandsTyped, Ordered, Recognized

LEMMA OrderedGrows ==
    ASSUME CommandsTyped', events \subseteq events', keys \subseteq keys'
    PROVE  Ordered <= Ordered'
<1> DEFINE es == {e \in events : e.id \in keys}
           fs == {e \in events' : e.id \in keys'}
<1>1. es \in SUBSET fs /\ fs \in SUBSET Events /\ IsFiniteSet(fs)
  BY FS_Subset DEF CommandsTyped
<1>2. Ordered = Fills(es) /\ Ordered' = Fills(fs)
  BY DEF Ordered, Fills
<1> HIDE DEF es, fs
<1> QED
  BY <1>1, <1>2, FillsGrow

LEMMA OrderedAdds ==
    ASSUME AnswerInv, NEW x \in events, x.id \notin keys, events' = events, keys' = keys \cup {x.id}
    PROVE  Ordered' = x.filled + Ordered
<1> DEFINE es == {e \in events : e.id \in keys}
           fs == {e \in events' : e.id \in keys'}
<1>1. es \in SUBSET Events /\ IsFiniteSet(es) /\ x \in Events /\ x \notin es
  BY FS_Subset DEF AnswerInv, CommandsTyped
<1>2. fs = es \cup {x}
  BY DEF AnswerInv, EventsTell
<1>3. Ordered = Fills(es) /\ Ordered' = Fills(fs)
  BY DEF Ordered, Fills
<1> HIDE DEF es, fs
<1> QED
  BY <1>1, <1>2, <1>3, FillsAdd

\* Steps of others, and of the polling command outside of a booking.
LEMMA NotBooking ==
    ASSUME AnswerInv, BookInv, CommandsTyped', events \subseteq events',
           UNCHANGED ledgerVars,
           \A p \in Syncer : command'[p] = command[p] \/ command'[p].pc \notin Booking
    PROVE  BookInv'
<1>1. Ordered <= Ordered' /\ Ordered \in Nat /\ Ordered' \in Nat /\ position \in Int
  BY OrderedGrows, OrderedTyped, FillsTyped, FS_Subset
     DEF AnswerInv, OrderTypeOK, ledgerVars, CommandsTyped, Ordered
<1>2. position' <= Ordered' /\ (funds - cash <= position)'
  BY <1>1 DEF BookInv, ledgerVars
<1>3. ASSUME NEW p \in Syncer PROVE BookingHolds(command[p])'
  <2> DEFINE w == command[p]
  <2>1. BookingHolds(w) /\ w.event.filled \in Nat
    BY DEF BookInv, AnswerInv, CommandsTyped, Commands, Events, Process
  <2>2. CASE w' = w
    <3> HIDE DEF w
    <3>1. BookingHolds(w)'
      BY <1>1, <2>1, <2>2 DEF BookingHolds, ledgerVars
    <3> QED
      BY <3>1 DEF w
  <2>3. CASE w'.pc \notin Booking
    BY <2>3 DEF BookingHolds, Booking
  <2> QED
    BY <2>2, <2>3
<1> QED
  BY <1>2, <1>3 DEF BookInv

LEMMA SyncerBooks ==
    ASSUME OneSyncer, AnswerInv, BookInv, NEW p \in Syncer, SyncStep(p) \/ Crash(p)
    PROVE  BookInv'
<1> DEFINE w == command[p]
           v == command'[p]
<1>0. /\ p \in Process /\ w \in Commands /\ w.event \in Events
      /\ AnswerHolds(w) /\ BookingHolds(w) /\ OrderTypeOK /\ CommandsTyped
  BY DEF Process, AnswerInv, CommandsTyped, Commands, BookInv
<1>1. OrderTypeOK' /\ CommandsTyped'
  BY <1>0, SyncerTypes
<1>2. /\ w.event.filled \in Nat /\ position \in Int /\ cash \in Int /\ funds \in Int
      /\ Ordered \in Nat
  BY <1>0, OrderedTyped, OrderAssumption DEF Events, OrderTypeOK
<1>3. BookingHolds(w)' => \A q \in Syncer : BookingHolds(command[q])'
  BY DEF OneSyncer
<1>4. CASE \/ List(p) \/ Poll(p) \/ BuildEvent(p) \/ SaveEvent(p) \/ MarkApplied(p)
           \/ WriteStatus(p) \/ SaveResult(p) \/ Crash(p)
  <2>1. v.pc \notin Booking
    <3>1. CASE List(p) \/ SaveEvent(p) \/ MarkApplied(p)
      BY <1>0, <3>1, Proceeds DEF List, SaveEvent, MarkApplied, Answered, Applying, Booking
    <3>2. CASE Poll(p)
      BY <1>0, <3>2, Keeps, Finishes DEF Poll, Answered, OrderTypeOK, Booking
    <3>3. CASE BuildEvent(p)
      BY <1>0, <3>3, Proceeds, Builds, AnswerTyped DEF BuildEvent, Answered, Booking
    <3>4. CASE WriteStatus(p)
      BY <1>0, <3>4, Proceeds, Finishes DEF WriteStatus, Answered, Booking
    <3>5. CASE SaveResult(p) \/ Crash(p)
      BY <1>0, <3>5, Finishes DEF SaveResult, Crash, Booking
    <3> QED
      BY <1>4, <3>1, <3>2, <3>3, <3>4, <3>5
  <2>2. UNCHANGED ledgerVars /\ events \subseteq events'
    BY <1>4 DEF List, Poll, BuildEvent, SaveEvent, MarkApplied, WriteStatus, SaveResult, Crash,
       ledgerVars, eventVars
  <2>3. \A q \in Syncer : command'[q].pc \notin Booking
    BY <2>1 DEF OneSyncer
  <2> QED
    BY <1>1, <2>2, <2>3, NotBooking
<1>5. CASE ApplyEvent(p)
  <2>1. UNCHANGED ledgerVars /\ Ordered' = Ordered
    BY <1>5 DEF ApplyEvent, ledgerVars, eventVars, Ordered
  <2>2. \/ v.pc \notin Booking
        \/ /\ v.pc = "order" /\ v.event = w.event /\ v.position = position /\ v.cash = cash
           /\ w.event.filled > 0 /\ w.event.id \notin keys
    <3>1. CASE Proceed(p, "status") \/ Proceed(p, "mark")
      BY <1>0, <3>1, Proceeds DEF Answered, Applying, Booking
    <3>2. CASE /\ WantsLedger(w.event)
               /\ command' = [command EXCEPT ![p].pc = "order", ![p].position = position, ![p].cash = cash]
      BY <1>0, <1>2, <3>2, Reads DEF WantsLedger
    <3>3. CASE Finish(p)
      BY <1>0, <3>3, Finishes DEF Booking
    <3> QED
      BY <1>5, <3>1, <3>2, <3>3 DEF ApplyEvent
  <2>3. BookingHolds(w)'
    BY <2>1, <2>2 DEF BookingHolds, Booking, ledgerVars
  <2> QED
    BY <1>3, <2>1, <2>3 DEF BookInv, ledgerVars
<1>6. CASE InsertOrder(p)
  <2>1. /\ w.pc = "order" /\ w.event.filled > 0 /\ w.cash = cash /\ w.position = position
        /\ w.event.id \notin keys /\ w.event \in events
    BY <1>0, <1>6 DEF InsertOrder, In, BookingHolds, AnswerHolds, Booking, Applying
  <2>2. keys' = keys \cup {w.event.id} /\ UNCHANGED <<events, position, funds, cash>>
    BY <1>6, <2>1 DEF InsertOrder, eventVars
  <2>3. v.pc = "position" /\ v.event = w.event /\ v.cash = w.cash /\ v.position = w.position
    BY <1>0, <1>6, <2>1, Proceeds DEF InsertOrder, Answered, Applying
  <2>4. Ordered' = w.event.filled + Ordered
    BY <2>1, <2>2, OrderedAdds
  <2>5. position <= Ordered /\ funds - cash <= position
    BY DEF BookInv
  <2>6. position' <= Ordered' /\ position' + w.event.filled <= Ordered' /\ (funds - cash <= position)'
    BY <1>2, <2>2, <2>4, <2>5
  <2>7. BookingHolds(w)'
    BY <2>1, <2>2, <2>3, <2>6 DEF BookingHolds, Booking
  <2> QED
    BY <1>3, <2>6, <2>7 DEF BookInv
<1>7. CASE WritePosition(p)
  <2>1. /\ w.pc = "position" /\ w.event.filled > 0 /\ w.cash = cash /\ w.position = position
        /\ position + w.event.filled <= Ordered
    BY <1>0, <1>7 DEF WritePosition, In, BookingHolds, Booking
  <2>2. position' = position + w.event.filled /\ UNCHANGED <<events, keys, funds, cash>>
    BY <1>7, <2>1 DEF WritePosition, eventVars
  <2>3. v.pc = "cash" /\ v.event = w.event /\ v.cash = w.cash
    BY <1>0, <1>7, <2>1, Proceeds DEF WritePosition, Answered, Applying
  <2>4. Ordered' = Ordered
    BY <2>2 DEF Ordered
  <2>5. funds - cash <= position
    BY DEF BookInv
  <2>6. /\ position' <= Ordered' /\ (funds - cash <= position)'
        /\ funds' - cash' + w.event.filled <= position'
    BY <1>2, <2>1, <2>2, <2>4, <2>5
  <2>7. BookingHolds(w)'
    BY <2>1, <2>2, <2>3, <2>6 DEF BookingHolds, Booking
  <2> QED
    BY <1>3, <2>6, <2>7 DEF BookInv
<1>8. CASE WriteCash(p)
  <2>1. w.pc = "cash" /\ w.cash = cash /\ funds - cash + w.event.filled <= position
    BY <1>0, <1>8 DEF WriteCash, In, BookingHolds, Booking
  <2>2. cash' = cash - w.event.filled /\ UNCHANGED <<events, keys, position, funds>>
    BY <1>8, <2>1 DEF WriteCash, eventVars
  <2>3. v.pc = "mark"
    BY <1>0, <1>8, Proceeds DEF WriteCash, Answered, Applying
  <2>4. Ordered' = Ordered
    BY <2>2 DEF Ordered
  <2>5. position' <= Ordered' /\ (funds - cash <= position)'
    BY <1>2, <2>1, <2>2, <2>4 DEF BookInv
  <2>6. BookingHolds(w)'
    BY <2>3 DEF BookingHolds, Booking
  <2> QED
    BY <1>3, <2>5, <2>6 DEF BookInv
<1> QED
  BY <1>4, <1>5, <1>6, <1>7, <1>8 DEF SyncStep

\* While one command polls at a time, whatever submits, fills, closes or dies
\* beside it: the position never exceeds the broker's fills, cash is debited for
\* no more than the position, and a saved result is the broker's last word with
\* all of its fills recognized (sync_paper_orders, PaperLedger._apply_fill).
THEOREM CredentialedBooksHold == OneSyncer => (OrderSpec => []BookedAsFilled)
<1> SUFFICES ASSUME OneSyncer PROVE OrderSpec => []BookedAsFilled
  OBVIOUS
<1>1. OrderInit => AnswerInv /\ BookInv
  <2> SUFFICES ASSUME OrderInit PROVE AnswerInv /\ BookInv
    OBVIOUS
  <2>1. /\ NoOrder \in Snapshots /\ NoOrder.filled = 0 /\ NoCommand.pc = "idle"
        /\ NoCommand \in Commands /\ NoCommand.seen = NoOrder
    BY OrderAssumption DEF NoOrder, Snapshots, Filled, NoCommand, NoEvent, Commands, Events, EventId
  <2>2. OrderTypeOK /\ CommandsTyped
    <3>1. funds \in Funds /\ cash \in Int /\ crashes \in 0..MaxCrashes
      BY OrderAssumption DEF OrderInit
    <3>2. command \in [Process -> Commands] /\ \A p \in Process : command[p].seen = NoOrder
      BY <2>1 DEF OrderInit
    <3>3. CommandsTyped
      BY <2>1, <3>2, FS_EmptySet DEF OrderInit, CommandsTyped
    <3> QED
      <4>1. flight \in BOOLEAN
        BY DEF OrderInit
      <4>2. /\ broker \in Snapshots /\ result \in Snapshots /\ row = "NONE" /\ events = {}
            /\ applied \in SUBSET EventId /\ keys \in SUBSET EventId /\ position \in Int
        BY <2>1 DEF OrderInit
      <4> QED
        BY <2>1, <3>1, <3>2, <3>3, <4>1, <4>2 DEF OrderTypeOK
  <2>3. Fills({}) = 0
    BY SumEmpty DEF Fills
  <2>4. EventsTell /\ ResultStands
    BY <2>1, <2>3 DEF OrderInit, EventsTell, ResultStands, Recognized
  <2>5. \A p \in Syncer : AnswerHolds(command[p]) /\ BookingHolds(command[p])
    BY <2>1 DEF OrderInit, Process, AnswerHolds, BookingHolds, Answered, Applying, Booking
  <2>6. Ordered = 0
    <3>1. {e \in events : e.id \in keys} = {}
      BY DEF OrderInit
    <3> QED
      BY <2>3, <3>1 DEF Ordered
  <2>7. position <= Ordered /\ funds - cash <= position
    BY <2>6, OrderAssumption DEF OrderInit
  <2> QED
    BY <2>2, <2>4, <2>5, <2>7 DEF AnswerInv, BookInv
<1>2. AnswerInv /\ BookInv /\ [OrderNext]_orderVars => (AnswerInv /\ BookInv)'
  <2> SUFFICES ASSUME AnswerInv, BookInv, [OrderNext]_orderVars PROVE (AnswerInv /\ BookInv)'
    OBVIOUS
  <2>1. CASE \/ BrokerFills \/ BrokerCloses \/ LateArrival
             \/ \E p \in Submitter :
                  BeginSubmit(p) \/ Lookup(p) \/ Submit(p) \/ Recover(p) \/ Record(p) \/ Crash(p)
    <3>1. AnswerInv'
      BY <2>1, OutsideAnswer
    <3>2. UNCHANGED ledgerVars /\ events' = events
      BY <2>1 DEF BrokerFills, BrokerCloses, LateArrival, BeginSubmit, Lookup, Submit, Recover,
         Record, Crash, eventVars, ledgerVars
    <3>3. \A q \in Syncer : command'[q] = command[q]
      <4>1. CASE BrokerFills \/ BrokerCloses \/ LateArrival
        BY <4>1 DEF BrokerFills, BrokerCloses, LateArrival
      <4>2. ASSUME NEW p \in Submitter,
                   BeginSubmit(p) \/ Lookup(p) \/ Submit(p) \/ Recover(p) \/ Record(p) \/ Crash(p)
            PROVE  \A q \in Syncer : command'[q] = command[q]
        BY <4>2, SubmitterTypes, OrderAssumption DEF AnswerInv, Process
      <4> QED
        BY <2>1, <4>1, <4>2
    <3> QED
      BY <3>1, <3>2, <3>3, NotBooking DEF AnswerInv
  <2>2. CASE \E p \in Syncer : SyncStep(p) \/ Crash(p)
    BY <2>2, SyncerAnswer, SyncerBooks
  <2>3. CASE UNCHANGED orderVars
    <3>1. /\ UNCHANGED <<broker, flight, row, events, applied, keys, position, funds, cash, result,
                         command, crashes>>
      BY <2>3 DEF orderVars, eventVars, ledgerVars
    <3>2. OrderTypeOK' /\ CommandsTyped'
      BY <3>1 DEF AnswerInv, OrderTypeOK, CommandsTyped
    <3>3. broker \in Snapshots /\ broker.filled \in Nat
      BY OrderAssumption DEF AnswerInv, OrderTypeOK, Snapshots, Filled
    <3> QED
      BY <3>1, <3>2, <3>3, BrokerMovesOn, NotBooking DEF ledgerVars
  <2> QED
    BY <2>1, <2>2, <2>3 DEF OrderNext
<1>3. AnswerInv /\ BookInv => BookedAsFilled
  <2> SUFFICES ASSUME AnswerInv, BookInv PROVE BookedAsFilled
    OBVIOUS
  <2>1. /\ position \in Int /\ Ordered \in Nat /\ Ordered <= Recognized /\ Recognized \in Nat
        /\ broker.filled \in Nat
    BY OrderedTyped, RecognizedTyped, OrderAssumption DEF AnswerInv, OrderTypeOK, Snapshots, Filled
  <2>2. position <= Ordered /\ Recognized <= broker.filled /\ funds - cash <= position
    BY DEF AnswerInv, BookInv, EventsTell
  <2>3. position <= broker.filled
    BY <2>1, <2>2
  <2> QED
    BY <2>2, <2>3 DEF BookedAsFilled, NeverOverbooked, ResultIsTrue, AnswerInv, ResultStands
<1> QED
  BY <1>1, <1>2, <1>3, PTL DEF OrderSpec
=============================================================================
