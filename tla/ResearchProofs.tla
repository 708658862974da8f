---------------------------- MODULE ResearchProofs ----------------------------
(* Theorems about the research committee and its token budget, for any number *)
(* of workers, analysts, attempts, dates and tokens, and about the scheduled  *)
(* cycle, for any number of processes, symbols, passes and deaths.            *)
EXTENDS ResearchCommittee, ResearchCycle, SumTheorems

RowSet == [status : Live \cup {"NONE", "RELEASED"}, owner : Worker \cup {NoWorker},
           until : 0..(MaxTime + Lease), used : Usage \cup {0}]

CallSet == [pc : {"idle", "reserve", "claim", "calling", "waiting", "done"},
            key : {<<>>} \cup (Role \X Attempt) \cup Key,
            last : Date,
            outcome : {"none", "answered", "retryable", "unavailable", "raised"}]

WorkSet == [pc : {"idle", "begin", "turn", "hear", "save", "complete", "incomplete"},
            at : 1..(Len(Analysts) + 1), attempt : Attempt, saved : Nat,
            good : BOOLEAN, failed : BOOLEAN]

TokensTyped ==
  /\ now \in 0..MaxTime /\ straddled \in BOOLEAN
  /\ row \in [Key -> RowSet]
  /\ sent \in SUBSET Key /\ byHand \in SUBSET Key

(* A call is about the attempt its worker is at; it has a key of the table    *)
(* once its reservation was found or made.                                    *)
CallsTyped ==
  /\ call \in [Worker -> CallSet]
  /\ \A w \in Worker :
       /\ call[w].pc = "reserve" => call[w].key \in Role \X Attempt
       /\ call[w].pc \in {"claim", "calling", "waiting"} => call[w].key \in Key
       /\ call[w].pc = "done" /\ call[w].outcome \in {"answered", "retryable"} => call[w].key \in Key
       /\ call[w].pc # "idle" => /\ work[w].pc = "hear"
                                 /\ call[w].key[1] = RoleOf(w)
                                 /\ call[w].key[2] = work[w].attempt

(* What a worker carries at a place: nothing of a role before its turn, and   *)
(* nothing saved before the role was heard.                                   *)
Placed(at) ==
  /\ at.saved <= at.attempt
  /\ at.pc \in {"idle", "begin"} => at.at = 1 /\ ~at.failed
  /\ at.pc \in {"idle", "begin", "turn"} => at.attempt = 1
  /\ at.pc \in {"idle", "begin", "turn", "hear"} => at.saved = 0

CommitteeTyped ==
  /\ run \in {"NONE", "RUNNING", "COMPLETED", "ANALYSIS_INCOMPLETE"}
  /\ attempts \in SUBSET (Role \X Attempt) /\ reports \in SUBSET Role /\ decided \in BOOLEAN
  /\ scheduled \in BOOLEAN
  /\ work \in [Worker -> WorkSet]
  /\ \A w \in Worker : Placed(work[w])

Typed == TokensTyped /\ CallsTyped /\ CommitteeTyped

-----------------------------------------------------------------------------
(* How a step may change the reservations.                                    *)

Kept == UNCHANGED row

GivenUp == \E keys \in SUBSET Key : row' = Recovered(keys)

Reserved ==
  \E key \in Key :
    /\ row[key].status = "NONE" /\ key[3] = Today
    /\ ~Refused(key, Recovered(OfRole(key[1])))
    /\ row' = [Recovered(OfRole(key[1])) EXCEPT ![key].status = "RESERVED"]
    /\ \E w \in Worker : /\ call[w].pc = "reserve" /\ call[w].key = <<key[1], key[2]>>
                         /\ straddled' = (straddled \/ call[w].last # Today)

Claimed ==
  \E w \in Worker, key \in Key :
    /\ call[w].pc = "claim" /\ call[w].key = key
    /\ row[key].status = "RESERVED"
    /\ row' = [row EXCEPT ![key].status = "IN_FLIGHT", ![key].owner = w, ![key].until = now + Lease]
    /\ straddled' = (straddled \/ key[3] # Today)

Ended ==
  \E key \in Key, status \in {"SETTLED", "AMBIGUOUS", "RELEASED"}, used \in Usage \cup {0} :
    /\ row[key].status \in Unresolved
    /\ row' = [row EXCEPT ![key].status = status, ![key].used = used]

RowStep == Kept \/ GivenUp \/ Reserved \/ Claimed \/ Ended

-----------------------------------------------------------------------------
(* Numbers: the date of a clock within its bound is one of the dates.         *)
LEMMA QuotientMonotone ==
  ASSUME NEW a \in Nat, NEW b \in Nat, NEW d \in Nat \ {0}, a <= b
  PROVE  a \div d \in Nat /\ a \div d <= b \div d
<1> DEFINE p == a \div d
           q == b \div d
<1>1. /\ p \in Int /\ a = d * p + (a % d) /\ a % d \in 0..(d - 1)
      /\ q \in Int /\ b = d * q + (b % d) /\ b % d \in 0..(d - 1)
  OBVIOUS
<1> HIDE DEF p, q
<1>2. p >= 0 /\ q >= 0
  BY <1>1
<1>3. p <= q
  BY <1>1
<1> QED
  BY <1>2, <1>3 DEF p, q

LEMMA KeysAreNumbered ==
  /\ MaxTime \div DayLength \in Nat /\ MaxAttempt \in Nat
  /\ \A k \in Key : k[2] \in Nat /\ k[3] \in Nat
<1>1. MaxAttempt \in Nat /\ MaxTime \in Nat /\ DayLength \in Nat \ {0} /\ MaxTime <= MaxTime
  BY TokenAssumption DEF TokenAssumption
<1>2. MaxTime \div DayLength \in Nat
  BY <1>1, QuotientMonotone
<1>3. Attempt \subseteq Nat /\ Date \subseteq Nat
  BY <1>1, <1>2 DEF Attempt, Date
<1> QED
  BY <1>1, <1>2, <1>3 DEF Key

LEMMA TodayIsDate ==
  ASSUME Typed
  PROVE  Today \in Date /\ 0 \in Date /\ now + Lease \in 0..(MaxTime + Lease) /\ now \in Nat
<1>1. /\ now \in Nat /\ MaxTime \in Nat /\ DayLength \in Nat \ {0} /\ Lease \in Nat
      /\ now <= MaxTime
  BY TokenAssumption DEF TokenAssumption, Typed, TokensTyped
<1>2. /\ now \div DayLength \in Nat /\ now \div DayLength <= MaxTime \div DayLength
      /\ MaxTime \div DayLength \in Nat
  BY <1>1, QuotientMonotone
<1>3. Today \in Date /\ 0 \in Date
  BY <1>2 DEF Today, Date
<1>4. now + Lease \in 0..(MaxTime + Lease)
  BY <1>1
<1> QED
  BY <1>1, <1>3, <1>4

LEMMA RoleOfTyped ==
  ASSUME Typed, NEW w \in Worker
  PROVE  /\ RoleOf(w) \in Role
         /\ work[w].at \in 1..(Len(Analysts) + 1) /\ Len(Analysts) \in Nat
         /\ RoleOf(w) = Manager <=> work[w].at = Len(Analysts) + 1
<1>1. /\ Analysts \in Seq(Role) /\ Manager \in Role
      /\ \A i \in DOMAIN Analysts : Analysts[i] # Manager
  BY CommitteeAssumption DEF CommitteeAssumption
<1>2. Len(Analysts) \in Nat /\ DOMAIN Analysts = 1..Len(Analysts)
      /\ \A i \in 1..Len(Analysts) : Analysts[i] \in Role
  BY <1>1
<1>3. work[w].at \in 1..(Len(Analysts) + 1)
  BY DEF Typed, CommitteeTyped, WorkSet
<1> QED
  BY <1>1, <1>2, <1>3 DEF RoleOf

(* Giving up expired claims moves them to AMBIGUOUS and touches nothing else. *)
LEMMA RecoveredTyped ==
  ASSUME Typed, NEW keys
  PROVE  /\ Recovered(keys) \in [Key -> RowSet]
         /\ \A k \in Key :
              /\ Recovered(keys)[k].used = row[k].used
              /\ \/ Recovered(keys)[k].status = row[k].status
                 \/ row[k].status = "IN_FLIGHT" /\ Recovered(keys)[k].status = "AMBIGUOUS"
<1>1. \A k \in Key : row[k] \in RowSet
  BY DEF Typed, TokensTyped
<1>2. \A k \in Key : [row[k] EXCEPT !.status = "AMBIGUOUS"] \in RowSet
  BY <1>1 DEF RowSet, Live
<1>3. Recovered(keys) \in [Key -> RowSet]
  BY <1>1, <1>2 DEF Recovered
<1>4. ASSUME NEW k \in Key
      PROVE  /\ Recovered(keys)[k].used = row[k].used
             /\ \/ Recovered(keys)[k].status = row[k].status
                \/ row[k].status = "IN_FLIGHT" /\ Recovered(keys)[k].status = "AMBIGUOUS"
  <2>1. CASE ~ (k \in keys /\ Expired(k))
    BY <2>1 DEF Recovered
  <2>2. CASE k \in keys /\ Expired(k)
    <3>1. Recovered(keys)[k] = [row[k] EXCEPT !.status = "AMBIGUOUS"]
      BY <2>2 DEF Recovered
    <3>2. row[k] \in RowSet /\ row[k].status = "IN_FLIGHT"
      BY <1>1, <2>2 DEF Expired
    <3> QED
      BY <3>1, <3>2 DEF RowSet
  <2> QED
    BY <2>1, <2>2
<1> QED
  BY <1>3, <1>4

-----------------------------------------------------------------------------
LEMMA ActionsAreRowSteps ==
  ASSUME Typed, [Next]_vars
  PROVE  RowStep
<1>1. CASE UNCHANGED row
  BY <1>1 DEF RowStep, Kept
<1>2. ASSUME NEW w \in Worker, Reserve(w) PROVE RowStep
  <2> DEFINE key == <<call[w].key[1], call[w].key[2], Today>>
             rows == Recovered(OfRole(key[1]))
  <2>1. key \in Key
    <3>1. call[w].key \in Role \X Attempt
      BY <1>2 DEF Reserve, Typed, CallsTyped
    <3> QED
      BY <3>1, TodayIsDate DEF Key
  <2>2. /\ \/ UNCHANGED row
           \/ row' = rows
           \/ /\ row[key].status = "NONE" /\ ~Refused(key, rows)
              /\ row' = [rows EXCEPT ![key].status = "RESERVED"]
        /\ call[w].pc = "reserve" /\ straddled' = (straddled \/ call[w].last # Today)
    BY <1>2 DEF Reserve
  <2>3. /\ OfRole(key[1]) \in SUBSET Key /\ key[3] = Today
        /\ call[w].key = <<key[1], key[2]>>
    BY <1>2 DEF OfRole, Reserve, Typed, CallsTyped
  <2> HIDE DEF key
  <2> QED
    BY <2>1, <2>2, <2>3 DEF RowStep, Kept, GivenUp, Reserved
<1>3. ASSUME NEW w \in Worker, Claim(w) PROVE RowStep
  <2>1. call[w].key \in Key
    BY <1>3 DEF Claim, Typed, CallsTyped
  <2>2. UNCHANGED row \/ Claimed
    BY <1>3, <2>1 DEF Claim, MayClaim, Claimed
  <2> QED
    BY <2>2 DEF RowStep, Kept
<1>4. ASSUME NEW w \in Worker, NEW status \in {"SETTLED", "AMBIGUOUS", "RELEASED"},
             NEW used \in Usage \cup {0}, NEW outcome,
             call[w].pc \in {"calling", "waiting"}, Resolve(w, status, used, outcome)
      PROVE  RowStep
  <2>1. call[w].key \in Key
    BY <1>4 DEF Typed, CallsTyped
  <2> QED
    BY <1>4, <2>1 DEF Resolve, Holds, RowStep, Kept, Ended, Unresolved
<1>5. ASSUME NEW w \in Worker, Answered(w) \/ Unclear(w) \/ Unavailable(w) PROVE RowStep
  BY <1>4, <1>5 DEF Answered, Unclear, Unavailable
<1>6. CASE Recover
  BY <1>6 DEF Recover, RowStep, GivenUp
<1>7. ASSUME NEW k \in Key, Reconcile(k) PROVE RowStep
  <2>1. row[k] \in RowSet /\ row[k].status = "AMBIGUOUS"
    BY <1>7 DEF Typed, TokensTyped, Reconcile
  <2>2. row[k].used \in Usage \cup {0}
    BY <2>1 DEF RowSet
  <2>3. [row EXCEPT ![k].status = "RELEASED"] =
          [row EXCEPT ![k].status = "RELEASED", ![k].used = row[k].used]
    <3>1. [row[k] EXCEPT !.status = "RELEASED"] =
            [[row[k] EXCEPT !.status = "RELEASED"] EXCEPT !.used = row[k].used]
      BY <2>1 DEF RowSet
    <3>2. [row EXCEPT ![k].status = "RELEASED", ![k].used = row[k].used] =
            [row EXCEPT ![k] = [[row[k] EXCEPT !.status = "RELEASED"] EXCEPT !.used = row[k].used]]
      BY DEF Typed, TokensTyped
    <3> QED
      BY <3>1, <3>2
  <2> QED
    BY <1>7, <2>1, <2>2, <2>3 DEF Reconcile, RowStep, Ended, Unresolved
<1> QED
  BY <1>1, <1>2, <1>3, <1>5, <1>6, <1>7
     DEF Next, TokenNext, Start, Begin, Turn, Hear, SaveAttempt, SaveOutcome, Finish, Crash,
         Transmit, Tick, vars, tokenVars

(* A reservation that has not been claimed yet.                               *)
Fresh(k) == row[k].status \in {"NONE", "RESERVED"}

(* What every change of the reservations keeps: the types, a claim once made  *)
(* and a settlement.  Only a claim makes a reservation unresolved, and only a *)
(* new one is written down as reserved.                                       *)
LEMMA RowStepEffect ==
  ASSUME Typed, RowStep
  PROVE  /\ row' \in [Key -> RowSet]
         /\ \A k \in Key :
              /\ ~Fresh(k) => ~Fresh(k)'
              /\ row[k].status = "SETTLED" => row'[k].status = "SETTLED" /\ row'[k].used = row[k].used
              /\ row[k].status = "RESERVED" => row'[k].status # "NONE"
<1> DEFINE Keeps(k) ==
             /\ ~Fresh(k) => row'[k].status \notin {"NONE", "RESERVED"}
             /\ row[k].status = "SETTLED" => row'[k].status = "SETTLED" /\ row'[k].used = row[k].used
             /\ row[k].status = "RESERVED" => row'[k].status # "NONE"
<1> SUFFICES row' \in [Key -> RowSet] /\ \A k \in Key : Keeps(k)
  BY DEF Fresh
<1>0. row \in [Key -> RowSet]
  BY DEF Typed, TokensTyped
<1>1. CASE Kept
  BY <1>0, <1>1 DEF Kept, Fresh
<1>2. CASE GivenUp
  BY <1>2, RecoveredTyped DEF GivenUp, Fresh
<1>3. CASE Reserved
  <2>1. PICK key \in Key : /\ row[key].status = "NONE"
                           /\ row' = [Recovered(OfRole(key[1])) EXCEPT ![key].status = "RESERVED"]
    BY <1>3 DEF Reserved
  <2> DEFINE rows == Recovered(OfRole(key[1]))
  <2>2. /\ rows \in [Key -> RowSet]
        /\ \A k \in Key : /\ rows[k].used = row[k].used
                          /\ \/ rows[k].status = row[k].status
                             \/ row[k].status = "IN_FLIGHT" /\ rows[k].status = "AMBIGUOUS"
    BY RecoveredTyped
  <2> HIDE DEF rows
  <2>3. /\ row' \in [Key -> RowSet] /\ row'[key].status = "RESERVED"
        /\ \A k \in Key \ {key} : row'[k] = rows[k]
    BY <2>1, <2>2 DEF rows, RowSet, Live
  <2> QED
    BY <2>1, <2>2, <2>3 DEF Fresh
<1>4. CASE Claimed
  <2>1. PICK w \in Worker, key \in Key :
          /\ row[key].status = "RESERVED"
          /\ row' = [row EXCEPT ![key].status = "IN_FLIGHT", ![key].owner = w, ![key].until = now + Lease]
    BY <1>4 DEF Claimed
  <2> DEFINE one == [row[key] EXCEPT !.status = "IN_FLIGHT"]
             two == [one EXCEPT !.owner = w]
             new == [two EXCEPT !.until = now + Lease]
  <2>2. row' = [row EXCEPT ![key] = new]
    BY <2>1
  <2>3. now + Lease \in 0..(MaxTime + Lease)
    BY TodayIsDate
  <2>4. one \in RowSet /\ one.status = "IN_FLIGHT"
    BY <1>0 DEF RowSet, Live
  <2> HIDE DEF one
  <2>5. two \in RowSet /\ two.status = "IN_FLIGHT"
    BY <2>4 DEF RowSet
  <2> HIDE DEF two
  <2>6. new \in RowSet /\ new.status = "IN_FLIGHT"
    BY <2>3, <2>5 DEF RowSet
  <2> HIDE DEF new
  <2> QED
    BY <1>0, <2>1, <2>2, <2>6 DEF Fresh
<1>5. CASE Ended
  <2>1. PICK key \in Key, status \in {"SETTLED", "AMBIGUOUS", "RELEASED"}, used \in Usage \cup {0} :
          /\ row[key].status \in Unresolved
          /\ row' = [row EXCEPT ![key].status = status, ![key].used = used]
    BY <1>5 DEF Ended
  <2> DEFINE one == [row[key] EXCEPT !.status = status]
             new == [one EXCEPT !.used = used]
  <2>2. row' = [row EXCEPT ![key] = new]
    BY <2>1
  <2>3. one \in RowSet /\ one.status = status
    BY <1>0 DEF RowSet, Live
  <2> HIDE DEF one
  <2>4. new \in RowSet /\ new.status = status
    BY <2>3 DEF RowSet
  <2> HIDE DEF new
  <2> QED
    BY <1>0, <2>1, <2>2, <2>4 DEF Fresh, Unresolved
<1> QED
  BY <1>1, <1>2, <1>3, <1>4, <1>5 DEF RowStep

-----------------------------------------------------------------------------
(* How a step may change the calls.                                           *)

LEMMA EndsCall ==
  ASSUME Typed, NEW w \in Worker, NEW outcome \in {"answered", "retryable", "unavailable", "raised"},
         Ends(w, outcome)
  PROVE  /\ call' \in [Worker -> CallSet]
         /\ call'[w].pc = "done" /\ call'[w].outcome = outcome /\ call'[w].key = call[w].key
         /\ \A v \in Worker \ {w} : call'[v] = call[v]
<1> DEFINE one == [call[w] EXCEPT !.pc = "done"]
           new == [one EXCEPT !.outcome = outcome]
<1>0. call \in [Worker -> CallSet]
  BY DEF Typed, CallsTyped
<1>1. call' = [call EXCEPT ![w] = new]
  BY DEF Ends
<1>2. one \in CallSet /\ one.pc = "done" /\ one.key = call[w].key
  BY <1>0 DEF CallSet
<1> HIDE DEF one
<1>3. new \in CallSet /\ new.pc = "done" /\ new.key = call[w].key /\ new.outcome = outcome
  BY <1>2 DEF CallSet
<1> HIDE DEF new
<1> QED
  BY <1>0, <1>1, <1>3

LEMMA AsksCall ==
  ASSUME Typed, NEW w \in Worker, NEW role \in Role, NEW attempt \in Attempt, NEW last \in Date,
         Asks(w, role, attempt, last)
  PROVE  /\ call' \in [Worker -> CallSet]
         /\ call'[w].pc = "reserve" /\ call'[w].key = <<role, attempt>> /\ call'[w].last = last
         /\ \A v \in Worker \ {w} : call'[v] = call[v]
<1> DEFINE one == [NoCall EXCEPT !.pc = "reserve"]
           two == [one EXCEPT !.key = <<role, attempt>>]
           new == [two EXCEPT !.last = last]
<1>0. call \in [Worker -> CallSet]
  BY DEF Typed, CallsTyped
<1>1. call' = [call EXCEPT ![w] = new]
  BY DEF Asks
<1>2. NoCall \in CallSet
  BY TodayIsDate DEF NoCall, CallSet
<1>3. one \in CallSet /\ one.pc = "reserve"
  BY <1>2 DEF CallSet
<1> HIDE DEF one
<1>4. two \in CallSet /\ two.pc = "reserve" /\ two.key = <<role, attempt>>
  BY <1>3 DEF CallSet
<1> HIDE DEF two
<1>5. new \in CallSet /\ new.pc = "reserve" /\ new.key = <<role, attempt>> /\ new.last = last
  BY <1>4 DEF CallSet
<1> HIDE DEF new
<1> QED
  BY <1>0, <1>1, <1>5

LEMMA FoundCall ==
  ASSUME Typed, NEW w \in Worker, NEW key \in Key,
         call' = [call EXCEPT ![w].pc = "claim", ![w].key = key]
  PROVE  /\ call' \in [Worker -> CallSet]
         /\ call'[w].pc = "claim" /\ call'[w].key = key
         /\ \A v \in Worker \ {w} : call'[v] = call[v]
<1> DEFINE one == [call[w] EXCEPT !.pc = "claim"]
           new == [one EXCEPT !.key = key]
<1>0. call \in [Worker -> CallSet]
  BY DEF Typed, CallsTyped
<1>1. call' = [call EXCEPT ![w] = new]
  OBVIOUS
<1>2. one \in CallSet /\ one.pc = "claim"
  BY <1>0 DEF CallSet
<1> HIDE DEF one
<1>3. new \in CallSet /\ new.pc = "claim" /\ new.key = key
  BY <1>2 DEF CallSet
<1> HIDE DEF new
<1> QED
  BY <1>0, <1>1, <1>3

LEMMA MovedCall ==
  ASSUME Typed, NEW w \in Worker, NEW pc \in {"calling", "waiting"},
         call' = [call EXCEPT ![w].pc = pc]
  PROVE  /\ call' \in [Worker -> CallSet]
         /\ call'[w].pc = pc /\ call'[w].key = call[w].key
         /\ \A v \in Worker \ {w} : call'[v] = call[v]
<1> DEFINE new == [call[w] EXCEPT !.pc = pc]
<1>0. call \in [Worker -> CallSet]
  BY DEF Typed, CallsTyped
<1>1. call' = [call EXCEPT ![w] = new]
  OBVIOUS
<1>2. new \in CallSet /\ new.pc = pc /\ new.key = call[w].key
  BY <1>0 DEF CallSet
<1> HIDE DEF new
<1> QED
  BY <1>0, <1>1, <1>2

LEMMA DroppedCall ==
  ASSUME Typed, NEW w \in Worker, call' = [call EXCEPT ![w] = NoCall]
  PROVE  /\ call' \in [Worker -> CallSet] /\ call'[w].pc = "idle"
         /\ \A v \in Worker \ {w} : call'[v] = call[v]
<1>0. call \in [Worker -> CallSet]
  BY DEF Typed, CallsTyped
<1>1. NoCall \in CallSet /\ NoCall.pc = "idle"
  BY TodayIsDate DEF NoCall, CallSet
<1> QED
  BY <1>0, <1>1

(* What CallsTyped asks of one worker.                                        *)
CallFits(w) ==
  /\ call[w].pc = "reserve" => call[w].key \in Role \X Attempt
  /\ call[w].pc \in {"claim", "calling", "waiting"} => call[w].key \in Key
  /\ call[w].pc = "done" /\ call[w].outcome \in {"answered", "retryable"} => call[w].key \in Key
  /\ call[w].pc # "idle" => /\ work[w].pc = "hear"
                            /\ call[w].key[1] = RoleOf(w)
                            /\ call[w].key[2] = work[w].attempt

LEMMA FitsWhileUnchanged ==
  ASSUME NEW w \in Worker, CallFits(w), call'[w] = call[w], work'[w] = work[w]
  PROVE  CallFits(w)'
BY DEF CallFits, RoleOf

(* A worker's step of the provider operation.                                 *)
LEMMA TokenStepKeepsCalls ==
  ASSUME Typed, NEW w \in Worker, UNCHANGED work,
         \/ Reserve(w) \/ Claim(w) \/ Transmit(w) \/ Answered(w) \/ Unclear(w) \/ Unavailable(w)
  PROVE  call' \in [Worker -> CallSet] /\ CallFits(w)' /\ \A v \in Worker \ {w} : call'[v] = call[v]
<1>0. CallFits(w)
  BY DEF Typed, CallsTyped, CallFits
<1>1. RoleOf(w)' = RoleOf(w) /\ work'[w] = work[w]
  BY DEF RoleOf
<1>2. CASE Reserve(w)
  <2> DEFINE key == <<call[w].key[1], call[w].key[2], Today>>
  <2>1. call[w].pc = "reserve" /\ call[w].key \in Role \X Attempt
    BY <1>0, <1>2 DEF Reserve, CallFits
  <2>2. key \in Key /\ key[1] = call[w].key[1] /\ key[2] = call[w].key[2]
    BY <2>1, TodayIsDate DEF Key
  <2>3. \/ call' = [call EXCEPT ![w].pc = "claim", ![w].key = key]
        \/ Ends(w, "unavailable")
    BY <1>2 DEF Reserve
  <2> HIDE DEF key
  <2>4. CASE Ends(w, "unavailable")
    BY <1>0, <1>1, <2>1, <2>4, EndsCall DEF CallFits
  <2>5. CASE call' = [call EXCEPT ![w].pc = "claim", ![w].key = key]
    BY <1>0, <1>1, <2>1, <2>2, <2>5, FoundCall DEF CallFits
  <2> QED
    BY <2>3, <2>4, <2>5
<1>3. CASE Claim(w)
  <2>1. call[w].pc = "claim"
    BY <1>3 DEF Claim
  <2>2. call' = [call EXCEPT ![w].pc = "calling"] \/ Ends(w, "unavailable")
    BY <1>3 DEF Claim
  <2>3. CASE Ends(w, "unavailable")
    BY <1>0, <1>1, <2>1, <2>3, EndsCall DEF CallFits
  <2>4. CASE call' = [call EXCEPT ![w].pc = "calling"]
    BY <1>0, <1>1, <2>1, <2>4, MovedCall DEF CallFits
  <2> QED
    BY <2>2, <2>3, <2>4
<1>4. CASE Transmit(w)
  <2>1. call[w].pc = "calling" /\ call' = [call EXCEPT ![w].pc = "waiting"]
    BY <1>4 DEF Transmit
  <2> QED
    BY <1>0, <1>1, <2>1, MovedCall DEF CallFits
<1>5. CASE Answered(w) \/ Unclear(w) \/ Unavailable(w)
  <2>1. /\ call[w].pc \in {"calling", "waiting"}
        /\ \E outcome \in {"answered", "retryable", "unavailable", "raised"} : Ends(w, outcome)
    BY <1>5 DEF Answered, Unclear, Unavailable, Resolve
  <2> QED
    BY <1>0, <1>1, <2>1, EndsCall DEF CallFits
<1> QED
  BY <1>2, <1>3, <1>4, <1>5

-----------------------------------------------------------------------------
(* How a step may change where a worker is.                                   *)

WorkTyped == work \in [Worker -> WorkSet] /\ \A w \in Worker : Placed(work[w])

Places == {"begin", "turn", "hear", "save", "complete", "incomplete"}

(* All that a worker carries besides its place is as it was.                  *)
SameRole(w) == work'[w].at = work[w].at /\ work'[w].failed = work[w].failed
Alone(w) == \A v \in Worker \ {w} : work'[v] = work[v]

LEMMA WorkIsTyped ==
  ASSUME Typed
  PROVE  /\ WorkTyped
         /\ \A w \in Worker : work[w] \in WorkSet /\ work[w].attempt \in Nat \ {0} /\ work[w].saved \in Nat
BY TokenAssumption DEF Typed, CommitteeTyped, WorkTyped, WorkSet, Attempt, TokenAssumption

(* One worker's place replaced by another keeps the types.                    *)
LEMMA WorkReplaced ==
  ASSUME Typed, NEW w \in Worker, NEW new \in WorkSet, Placed(new),
         work' = [work EXCEPT ![w] = new]
  PROVE  WorkTyped' /\ work'[w] = new /\ Alone(w)
BY WorkIsTyped DEF WorkTyped, Alone

LEMMA StepWork ==
  ASSUME Typed, NEW w \in Worker, NEW to \in Places, Step(w, to),
         to = "begin" => work[w].pc = "idle",
         work[w].pc \in {"idle", "begin", "turn"} \/ to \in {"save", "complete", "incomplete"},
         to = "turn" => work[w].pc = "begin"
  PROVE  /\ WorkTyped' /\ Alone(w) /\ SameRole(w) /\ work'[w].pc = to
         /\ work'[w].attempt = work[w].attempt /\ work'[w].saved = work[w].saved
         /\ work'[w].good = work[w].good
<1> DEFINE new == [work[w] EXCEPT !.pc = to]
<1>1. work' = [work EXCEPT ![w] = new]
  BY DEF Step
<1>2. /\ new \in WorkSet /\ new.pc = to /\ new.at = work[w].at /\ new.attempt = work[w].attempt
      /\ new.saved = work[w].saved /\ new.good = work[w].good /\ new.failed = work[w].failed
  BY WorkIsTyped DEF WorkSet, Places
<1>3. Placed(new)
  BY <1>2, WorkIsTyped DEF WorkTyped, Placed, Places
<1> HIDE DEF new
<1> QED
  BY <1>1, <1>2, <1>3, WorkReplaced DEF SameRole

LEMMA IdleIsTyped ==
  ASSUME Typed
  PROVE  Idle \in WorkSet /\ Idle.saved = 0 /\ Idle.attempt = 1 /\ Idle.pc = "idle" /\ Idle.failed = FALSE
<1>1. /\ 1 \in Attempt /\ Len(Analysts) \in Nat
  BY TokenAssumption, CommitteeAssumption DEF TokenAssumption, CommitteeAssumption, Attempt
<1>2. 1 \in 1..(Len(Analysts) + 1)
  BY <1>1
<1> QED
  BY <1>1, <1>2 DEF Idle, WorkSet

LEMMA IdleWork ==
  ASSUME Typed, NEW w \in Worker, work' = [work EXCEPT ![w] = Idle]
  PROVE  WorkTyped' /\ Alone(w) /\ work'[w].pc = "idle"
<1>1. Idle \in WorkSet /\ Idle.pc = "idle" /\ Idle.saved = 0 /\ Idle.attempt = 1
  BY IdleIsTyped
<1>2. Placed(Idle)
  BY <1>1 DEF Placed, Idle
<1> QED
  BY <1>1, <1>2, WorkReplaced

LEMMA TurnWork ==
  ASSUME Typed, NEW w \in Worker, NEW failed \in BOOLEAN, RoleOf(w) # Manager, NextTurn(w, failed)
  PROVE  /\ WorkTyped' /\ Alone(w) /\ work'[w].pc = "turn" /\ work'[w].at = work[w].at + 1
         /\ work'[w].failed = failed
<1> DEFINE one == [Idle EXCEPT !.pc = "turn"]
           two == [one EXCEPT !.at = work[w].at + 1]
           new == [two EXCEPT !.failed = failed]
<1>1. work' = [work EXCEPT ![w] = new]
  BY DEF NextTurn
<1>2. work[w].at + 1 \in 1..(Len(Analysts) + 1)
  <2>1. /\ work[w].at \in 1..(Len(Analysts) + 1) /\ Len(Analysts) \in Nat
        /\ work[w].at # Len(Analysts) + 1
    BY RoleOfTyped
  <2> QED
    BY <2>1
<1>3. one \in WorkSet /\ one.pc = "turn" /\ one.saved = 0 /\ one.attempt = 1
  BY IdleIsTyped DEF WorkSet
<1> HIDE DEF one
<1>4. two \in WorkSet /\ two.pc = "turn" /\ two.saved = 0 /\ two.attempt = 1 /\ two.at = work[w].at + 1
  BY <1>2, <1>3 DEF WorkSet
<1> HIDE DEF two
<1>5. /\ new \in WorkSet /\ new.pc = "turn" /\ new.saved = 0 /\ new.attempt = 1
      /\ new.at = work[w].at + 1 /\ new.failed = failed
  BY <1>4 DEF WorkSet
<1>6. Placed(new)
  BY <1>5 DEF Placed
<1> HIDE DEF new
<1> QED
  BY <1>1, <1>5, <1>6, WorkReplaced

LEMMA RetryWork ==
  ASSUME Typed, NEW w \in Worker, work[w].pc = "hear", work[w].attempt < MaxAttempt,
         work' = [work EXCEPT ![w].attempt = work[w].attempt + 1]
  PROVE  /\ WorkTyped' /\ Alone(w) /\ SameRole(w) /\ work'[w].pc = work[w].pc
         /\ work'[w].attempt = work[w].attempt + 1 /\ work'[w].saved = work[w].saved
<1> DEFINE n == work[w].attempt + 1
           new == [work[w] EXCEPT !.attempt = n]
<1>1. work' = [work EXCEPT ![w] = new]
  OBVIOUS
<1>2. work[w] \in WorkSet /\ n \in Attempt /\ work[w].saved = 0
  BY WorkIsTyped, TokenAssumption DEF WorkTyped, Placed, Attempt, TokenAssumption
<1> HIDE DEF n
<1>3. /\ new \in WorkSet /\ new.pc = work[w].pc /\ new.at = work[w].at /\ new.attempt = n
      /\ new.saved = work[w].saved /\ new.failed = work[w].failed
  BY <1>2 DEF WorkSet
<1>4. Placed(new)
  BY <1>2, <1>3 DEF Placed, Attempt
<1> HIDE DEF new
<1>5. WorkTyped' /\ work'[w] = new /\ Alone(w)
  BY <1>1, <1>3, <1>4, WorkReplaced
<1> QED
  BY <1>3, <1>5 DEF SameRole, n

LEMMA JudgeWork ==
  ASSUME Typed, NEW w \in Worker, NEW good \in BOOLEAN,
         work' = [work EXCEPT ![w].pc = "save", ![w].good = good]
  PROVE  /\ WorkTyped' /\ Alone(w) /\ SameRole(w) /\ work'[w].pc = "save"
         /\ work'[w].attempt = work[w].attempt /\ work'[w].saved = work[w].saved
<1> DEFINE one == [work[w] EXCEPT !.pc = "save"]
           new == [one EXCEPT !.good = good]
<1>1. work' = [work EXCEPT ![w] = new]
  OBVIOUS
<1>2. /\ one \in WorkSet /\ one.pc = "save" /\ one.at = work[w].at /\ one.attempt = work[w].attempt
      /\ one.saved = work[w].saved /\ one.failed = work[w].failed
  BY WorkIsTyped DEF WorkSet
<1> HIDE DEF one
<1>3. /\ new \in WorkSet /\ new.pc = "save" /\ new.at = work[w].at /\ new.attempt = work[w].attempt
      /\ new.saved = work[w].saved /\ new.failed = work[w].failed
  BY <1>2 DEF WorkSet
<1>4. Placed(new)
  BY <1>3, WorkIsTyped DEF WorkTyped, Placed
<1> HIDE DEF new
<1> QED
  BY <1>1, <1>3, <1>4, WorkReplaced DEF SameRole

LEMMA SavedWork ==
  ASSUME Typed, NEW w \in Worker, work[w].pc = "save", work[w].saved + 1 <= work[w].attempt,
         work' = [work EXCEPT ![w].saved = work[w].saved + 1]
  PROVE  /\ WorkTyped' /\ Alone(w) /\ SameRole(w) /\ work'[w].pc = work[w].pc
         /\ work'[w].attempt = work[w].attempt /\ work'[w].saved = work[w].saved + 1
<1> DEFINE n == work[w].saved + 1
           new == [work[w] EXCEPT !.saved = n]
<1>1. work' = [work EXCEPT ![w] = new]
  OBVIOUS
<1>2. work[w] \in WorkSet /\ n \in Nat /\ n <= work[w].attempt
  BY WorkIsTyped
<1> HIDE DEF n
<1>3. /\ new \in WorkSet /\ new.pc = work[w].pc /\ new.at = work[w].at /\ new.saved = n
      /\ new.attempt = work[w].attempt /\ new.failed = work[w].failed
  BY <1>2 DEF WorkSet
<1>4. Placed(new)
  BY <1>2, <1>3 DEF Placed
<1> HIDE DEF new
<1>5. WorkTyped' /\ work'[w] = new /\ Alone(w)
  BY <1>1, <1>3, <1>4, WorkReplaced
<1> QED
  BY <1>3, <1>5 DEF SameRole, n

-----------------------------------------------------------------------------
(* The types hold in every state.                                             *)

(* A worker that is not in a call may move without one.                       *)
LEMMA FitsOutsideCall ==
  ASSUME NEW w \in Worker, call'[w].pc = "idle"
  PROVE  CallFits(w)'
BY DEF CallFits

LEMMA CallsOfOthers ==
  ASSUME Typed, NEW w \in Worker, CallFits(w)', Alone(w), call' \in [Worker -> CallSet],
         \A v \in Worker \ {w} : call'[v] = call[v]
  PROVE  CallsTyped'
<1>1. \A v \in Worker : CallFits(v)
  BY DEF Typed, CallsTyped, CallFits
<1>2. \A v \in Worker \ {w} : CallFits(v)'
  BY <1>1, FitsWhileUnchanged DEF Alone
<1> QED
  BY <1>2 DEF CallsTyped, CallFits

LEMMA NowMoves ==
  ASSUME [Next]_vars
  PROVE  UNCHANGED now \/ Tick
<1>1. ASSUME NEW w \in Worker,
             \/ Reserve(w) \/ Claim(w) \/ Transmit(w)
             \/ Answered(w) \/ Unclear(w) \/ Unavailable(w)
      PROVE  UNCHANGED now
  BY <1>1 DEF Reserve, Claim, Transmit, Answered, Unclear, Unavailable, Resolve
<1>2. ASSUME NEW w \in Worker,
             \/ Start(w) \/ Begin(w) \/ Turn(w) \/ Hear(w)
             \/ SaveAttempt(w) \/ SaveOutcome(w) \/ Finish(w) \/ Crash(w)
      PROVE  UNCHANGED now
  BY <1>2 DEF Start, Begin, Turn, Hear, SaveAttempt, SaveOutcome, Finish, Crash, tokenVars
<1> QED
  BY <1>1, <1>2 DEF Next, TokenNext, Recover, Reconcile, vars, tokenVars

LEMMA TokensStayTyped ==
  ASSUME Typed, [Next]_vars
  PROVE  TokensTyped'
<1>1. row' \in [Key -> RowSet]
  BY ActionsAreRowSteps, RowStepEffect
<1>2. now' \in 0..MaxTime
  <2>1. now \in 0..MaxTime /\ MaxTime \in Nat
    BY TokenAssumption DEF TokenAssumption, Typed, TokensTyped
  <2>2. UNCHANGED now \/ Tick
    BY NowMoves
  <2> QED
    BY <2>1, <2>2 DEF Tick
<1>3. straddled' \in BOOLEAN
  <2>1. straddled \in BOOLEAN
    BY DEF Typed, TokensTyped
  <2> QED
    BY <2>1 DEF Next, TokenNext, Start, Begin, Turn, Hear, SaveAttempt, SaveOutcome, Finish, Crash, Reserve,
         Claim, Transmit, Answered, Unclear, Unavailable, Resolve, Recover, Reconcile, Tick, vars, tokenVars
<1>4. sent' \in SUBSET Key
  <2>1. sent \in SUBSET Key
    BY DEF Typed, TokensTyped
  <2>2. UNCHANGED sent \/ \E w \in Worker : Transmit(w)
    BY DEF Next, TokenNext, Start, Begin, Turn, Hear, SaveAttempt, SaveOutcome, Finish, Crash, Reserve, Claim,
           Answered, Unclear, Unavailable, Resolve, Recover, Reconcile, Tick, vars, tokenVars
  <2>3. ASSUME NEW w \in Worker, Transmit(w) PROVE sent' = sent \cup {call[w].key} /\ call[w].key \in Key
    BY <2>3 DEF Transmit, Typed, CallsTyped
  <2> QED
    BY <2>1, <2>2, <2>3
<1>5. byHand' \in SUBSET Key
  <2>1. byHand \in SUBSET Key
    BY DEF Typed, TokensTyped
  <2> QED
    BY <2>1 DEF Next, TokenNext, Start, Begin, Turn, Hear, SaveAttempt, SaveOutcome, Finish, Crash, Reserve,
         Claim, Transmit, Answered, Unclear, Unavailable, Resolve, Recover, Reconcile, Tick, vars, tokenVars
<1> QED
  BY <1>1, <1>2, <1>3, <1>4, <1>5 DEF TokensTyped

LEMMA WorkerStaysTyped ==
  ASSUME Typed, NEW w \in Worker,
         \/ Start(w) \/ Begin(w) \/ Turn(w) \/ Hear(w)
         \/ SaveAttempt(w) \/ SaveOutcome(w) \/ Finish(w) \/ Crash(w)
  PROVE  CommitteeTyped' /\ CallsTyped'
<1>0. /\ CallFits(w) /\ WorkTyped /\ call \in [Worker -> CallSet]
      /\ work[w].attempt \in Attempt /\ work[w].saved \in Nat /\ work[w].failed \in BOOLEAN
      /\ RoleOf(w) \in Role
      /\ run \in {"NONE", "RUNNING", "COMPLETED", "ANALYSIS_INCOMPLETE"}
      /\ attempts \in SUBSET (Role \X Attempt) /\ reports \in SUBSET Role /\ decided \in BOOLEAN
      /\ scheduled \in BOOLEAN
  BY RoleOfTyped, WorkIsTyped DEF Typed, CallsTyped, CallFits, CommitteeTyped, WorkTyped, WorkSet
<1> SUFFICES /\ run' \in {"NONE", "RUNNING", "COMPLETED", "ANALYSIS_INCOMPLETE"}
             /\ attempts' \in SUBSET (Role \X Attempt) /\ reports' \in SUBSET Role /\ decided' \in BOOLEAN
             /\ scheduled' \in BOOLEAN /\ WorkTyped' /\ CallsTyped'
  BY DEF CommitteeTyped, WorkTyped
<1>a. ASSUME work[w].pc # "hear", UNCHANGED call, Alone(w) PROVE CallsTyped'
  <2>1. call'[w].pc = "idle"
    BY <1>0, <1>a DEF CallFits
  <2> QED
    BY <1>0, <1>a, <2>1, FitsOutsideCall, CallsOfOthers
<1>b. ASSUME call' = [call EXCEPT ![w] = NoCall], Alone(w) PROVE CallsTyped'
  BY <1>b, DroppedCall, FitsOutsideCall, CallsOfOthers
<1>c. ASSUME NEW attempt \in Attempt, NEW last \in Date, Asks(w, RoleOf(w), attempt, last),
             Alone(w), SameRole(w), work'[w].pc = "hear", work'[w].attempt = attempt
      PROVE  CallsTyped'
  <2>1. RoleOf(w)' = RoleOf(w)
    BY <1>c DEF RoleOf, SameRole
  <2>2. /\ call' \in [Worker -> CallSet] /\ call'[w].pc = "reserve"
        /\ call'[w].key = <<RoleOf(w), attempt>> /\ \A v \in Worker \ {w} : call'[v] = call[v]
    BY <1>0, <1>c, AsksCall
  <2>3. CallFits(w)'
    BY <1>0, <1>c, <2>1, <2>2 DEF CallFits
  <2> QED
    BY <1>c, <2>2, <2>3, CallsOfOthers
<1>1. CASE Start(w)
  <2>1. Step(w, "begin") /\ work[w].pc = "idle" /\ UNCHANGED <<call, run, attempts, reports, decided, scheduled>>
    BY <1>1 DEF Start, tokenVars, runVars
  <2> QED
    BY <1>0, <1>a, <2>1, StepWork DEF Places
<1>2. CASE Begin(w)
  <2>1. /\ Step(w, "turn") /\ work[w].pc = "begin" /\ UNCHANGED <<call, attempts, reports, decided, scheduled>>
        /\ run' \in {"RUNNING", run}
    BY <1>2 DEF Begin, tokenVars
  <2> QED
    BY <1>0, <1>a, <2>1, StepWork DEF Places
<1>3. CASE Turn(w)
  <2>1. work[w].pc = "turn" /\ UNCHANGED <<run, attempts, reports, decided, scheduled>>
    BY <1>3 DEF Turn, runVars
  <2>2. \/ RoleOf(w) # Manager /\ NextTurn(w, work[w].failed) /\ UNCHANGED call
        \/ Asks(w, RoleOf(w), 1, Today) /\ Step(w, "hear")
        \/ Step(w, "incomplete") /\ UNCHANGED call
    BY <1>3 DEF Turn
  <2>3. CASE RoleOf(w) # Manager /\ NextTurn(w, work[w].failed) /\ UNCHANGED call
    BY <1>0, <1>a, <2>1, <2>3, TurnWork
  <2>4. CASE Asks(w, RoleOf(w), 1, Today) /\ Step(w, "hear")
    <3>1. /\ WorkTyped' /\ Alone(w) /\ SameRole(w) /\ work'[w].pc = "hear"
          /\ work'[w].attempt = work[w].attempt
      BY <2>1, <2>4, StepWork DEF Places
    <3>2. 1 \in Attempt /\ Today \in Date
      BY TokenAssumption, TodayIsDate DEF TokenAssumption, Attempt
    <3>3. work[w].attempt = 1
      BY <1>0, <2>1 DEF WorkTyped, Placed
    <3> QED
      BY <1>0, <1>c, <2>1, <2>4, <3>1, <3>2, <3>3
  <2>5. CASE Step(w, "incomplete") /\ UNCHANGED call
    BY <1>0, <1>a, <2>1, <2>5, StepWork DEF Places
  <2> QED
    BY <2>2, <2>3, <2>4, <2>5
<1>4. CASE Hear(w)
  <2>1. /\ work[w].pc = "hear" /\ call[w].pc = "done"
        /\ UNCHANGED <<run, attempts, reports, decided, scheduled>>
    BY <1>4 DEF Hear, runVars
  <2>2. \/ /\ call[w].outcome \in {"answered", "retryable"} /\ work[w].attempt < MaxAttempt
           /\ Asks(w, RoleOf(w), work[w].attempt + 1, call[w].key[3])
           /\ work' = [work EXCEPT ![w].attempt = work[w].attempt + 1]
        \/ /\ call' = [call EXCEPT ![w] = NoCall]
           /\ \/ \E good \in BOOLEAN : work' = [work EXCEPT ![w].pc = "save", ![w].good = good]
              \/ Step(w, "save")
              \/ work' = [work EXCEPT ![w] = Idle]
    BY <1>4 DEF Hear, Fails
  <2>3. CASE /\ call[w].outcome \in {"answered", "retryable"} /\ work[w].attempt < MaxAttempt
             /\ Asks(w, RoleOf(w), work[w].attempt + 1, call[w].key[3])
             /\ work' = [work EXCEPT ![w].attempt = work[w].attempt + 1]
    <3>1. /\ WorkTyped' /\ Alone(w) /\ SameRole(w) /\ work'[w].pc = "hear"
          /\ work'[w].attempt = work[w].attempt + 1
      BY <2>1, <2>3, RetryWork
    <3>2. work[w].attempt + 1 \in Attempt
      BY <1>0, <2>3, TokenAssumption DEF Attempt, TokenAssumption
    <3>3. call[w].key[3] \in Date
      BY <1>0, <2>1, <2>3 DEF CallFits, Key
    <3> QED
      BY <1>0, <1>c, <2>1, <2>3, <3>1, <3>2, <3>3
  <2>4. CASE call' = [call EXCEPT ![w] = NoCall] /\ Step(w, "save")
    BY <1>0, <1>b, <2>1, <2>4, StepWork DEF Places
  <2>5. CASE /\ call' = [call EXCEPT ![w] = NoCall]
             /\ \E good \in BOOLEAN : work' = [work EXCEPT ![w].pc = "save", ![w].good = good]
    BY <1>0, <1>b, <2>1, <2>5, JudgeWork
  <2>6. CASE call' = [call EXCEPT ![w] = NoCall] /\ work' = [work EXCEPT ![w] = Idle]
    BY <1>0, <1>b, <2>1, <2>6, IdleWork
  <2> QED
    BY <2>2, <2>3, <2>4, <2>5, <2>6
<1>5. CASE SaveAttempt(w)
  <2>1. /\ work[w].pc = "save" /\ work[w].saved + 1 <= work[w].attempt
        /\ UNCHANGED <<call, run, reports, decided, scheduled>>
    BY <1>5 DEF SaveAttempt, tokenVars
  <2>2. \/ work' = [work EXCEPT ![w] = Idle] /\ UNCHANGED attempts
        \/ /\ attempts' = attempts \cup {<<RoleOf(w), work[w].saved + 1>>}
           /\ work' = [work EXCEPT ![w].saved = work[w].saved + 1]
    BY <1>5 DEF SaveAttempt, Fails
  <2>3. work[w].saved + 1 \in Attempt
    BY <1>0, <2>1, TokenAssumption DEF Attempt, TokenAssumption
  <2>4. attempts' \in SUBSET (Role \X Attempt)
    BY <1>0, <2>2, <2>3
  <2>5. WorkTyped' /\ Alone(w)
    BY <2>1, <2>2, IdleWork, SavedWork
  <2> QED
    BY <1>0, <1>a, <2>1, <2>4, <2>5
<1>6. CASE SaveOutcome(w)
  <2>1. work[w].pc = "save" /\ UNCHANGED <<call, run, attempts, scheduled>>
    BY <1>6 DEF SaveOutcome, tokenVars
  <2>2. /\ decided' \in {TRUE, decided} /\ (reports' = reports \/ reports' = reports \cup {RoleOf(w)})
        /\ \/ \E failed \in BOOLEAN : RoleOf(w) # Manager /\ NextTurn(w, failed)
           \/ \E to \in {"complete", "incomplete"} : Step(w, to)
    BY <1>0, <1>6 DEF SaveOutcome
  <2>3. WorkTyped' /\ Alone(w)
    BY <2>2, TurnWork, StepWork DEF Places
  <2> QED
    BY <1>0, <1>a, <2>1, <2>2, <2>3
<1>7. CASE Finish(w)
  <2>1. /\ work[w].pc # "hear" /\ work' = [work EXCEPT ![w] = Idle]
        /\ UNCHANGED <<call, attempts, reports, decided, scheduled>>
        /\ run' \in {"COMPLETED", "ANALYSIS_INCOMPLETE"}
    BY <1>7 DEF Finish, tokenVars
  <2> QED
    BY <1>0, <1>a, <2>1, IdleWork
<1>8. CASE Crash(w)
  <2>1. /\ work' = [work EXCEPT ![w] = Idle] /\ call' = [call EXCEPT ![w] = NoCall]
        /\ UNCHANGED <<run, attempts, reports, decided, scheduled>>
    BY <1>8 DEF Crash, runVars
  <2> QED
    BY <1>0, <1>b, <2>1, IdleWork
<1> QED
  BY <1>1, <1>2, <1>3, <1>4, <1>5, <1>6, <1>7, <1>8

(* A step of the budget alone leaves every worker's place as it is.           *)
LEMMA BudgetStaysTyped ==
  ASSUME Typed, TokenNext, UNCHANGED committeeVars
  PROVE  CommitteeTyped' /\ CallsTyped'
<1>0. UNCHANGED <<run, attempts, reports, decided, work, scheduled>>
  BY DEF committeeVars, runVars
<1>1. CommitteeTyped'
  BY <1>0 DEF Typed, CommitteeTyped
<1>2. CASE UNCHANGED call
  <2>1. \A w \in Worker : CallFits(w) /\ call'[w] = call[w] /\ work'[w] = work[w]
    BY <1>0, <1>2 DEF Typed, CallsTyped, CallFits
  <2>2. \A w \in Worker : CallFits(w)'
    BY <2>1, FitsWhileUnchanged
  <2> QED
    BY <1>1, <1>2, <2>2 DEF Typed, CallsTyped, CallFits
<1>3. ASSUME NEW w \in Worker,
             \/ Reserve(w) \/ Claim(w) \/ Transmit(w)
             \/ Answered(w) \/ Unclear(w) \/ Unavailable(w)
      PROVE  CallsTyped'
  <2>1. call' \in [Worker -> CallSet] /\ CallFits(w)' /\ \A v \in Worker \ {w} : call'[v] = call[v]
    BY <1>0, <1>3, TokenStepKeepsCalls
  <2> QED
    BY <1>0, <2>1, CallsOfOthers DEF Alone
<1> QED
  BY <1>1, <1>2, <1>3 DEF TokenNext, Recover, Reconcile, Tick

LEMMA StartsTyped ==
  ASSUME Init
  PROVE  Typed
<1>1. /\ MaxTime \in Nat /\ DayLength \in Nat \ {0} /\ Lease \in Nat /\ MaxAttempt \in Nat \ {0}
      /\ Len(Analysts) \in Nat
  BY TokenAssumption, CommitteeAssumption DEF TokenAssumption, CommitteeAssumption
<1>2. 0 \in Date
  <2>1. 0 \div DayLength \in Nat /\ 0 \div DayLength <= MaxTime \div DayLength /\ MaxTime \div DayLength \in Nat
    BY <1>1, QuotientMonotone
  <2> QED
    BY <2>1 DEF Date
<1>3. now = 0 /\ 0 \in 0..MaxTime /\ 0 \in 0..(MaxTime + Lease)
  BY <1>1 DEF Init, TokenInit
<1>4. NoRow \in RowSet /\ NoCall \in CallSet
  BY <1>2, <1>3 DEF NoRow, RowSet, NoCall, CallSet
<1>5. Idle \in WorkSet /\ Placed(Idle)
  <2>1. 1 \in Attempt /\ 1 \in 1..(Len(Analysts) + 1)
    BY <1>1 DEF Attempt
  <2> QED
    BY <2>1 DEF Idle, WorkSet, Placed
<1>6. TokensTyped
  BY <1>3, <1>4 DEF Init, TokenInit, TokensTyped
<1>7. CallsTyped
  BY <1>4 DEF Init, TokenInit, CallsTyped, NoCall
<1>8. CommitteeTyped
  BY <1>5 DEF Init, CommitteeTyped
<1> QED
  BY <1>6, <1>7, <1>8 DEF Typed

LEMMA StepKeepsTypes ==
  ASSUME Typed, [Next]_vars
  PROVE  Typed'
<1>1. TokensTyped'
  BY TokensStayTyped
<1>2. CASE UNCHANGED vars
  BY <1>2 DEF Typed, TokensTyped, CallsTyped, CommitteeTyped, RoleOf, vars, tokenVars, committeeVars, runVars
<1>3. CASE Next
  BY <1>1, <1>3, WorkerStaysTyped, BudgetStaysTyped DEF Next, Typed
<1> QED
  BY <1>2, <1>3

LEMMA AlwaysTyped == Spec => []Typed
<1>1. Init => Typed
  BY StartsTyped
<1>2. Typed /\ [Next]_vars => Typed'
  BY StepKeepsTypes
<1> QED
  BY <1>1, <1>2, PTL DEF Spec

(* The reservations, the calls and the places of the workers have their       *)
(* types: a key is a role's attempt of a date, and a role's saved attempts    *)
(* are never more than the ones it made (research/token_budget.py,            *)
(* research/orchestration.py).                                                *)
THEOREM ResearchTypeCorrect == Spec => []TypeOK
<1>1. ASSUME Typed PROVE TypeOK
  <2>1. TokenTypeOK
    BY <1>1 DEF Typed, TokensTyped, CallsTyped, RowSet, CallSet, TokenTypeOK
  <2>2. \A w \in Worker : work[w].saved \in 0..work[w].attempt
    BY <1>1, WorkIsTyped DEF WorkTyped, Placed
  <2> QED
    BY <1>1, <2>1, <2>2 DEF Typed, CommitteeTyped, WorkSet, TypeOK
<1> QED
  BY <1>1, AlwaysTyped, PTL

-----------------------------------------------------------------------------
(* The cap of a date.                                                         *)

Amount == [k \in Key |-> Counted(k)]
LiveOf(date) == {k \in OfDate(date) : row[k].status \in Live}

LEMMA KeysAreFinite == IsFiniteSet(Key)
<1> DEFINE Pairs == (Role \X Attempt) \X Date
           pair == [k \in Key |-> <<<<k[1], k[2]>>, k[3]>>]
<1>1. IsFiniteSet(Attempt) /\ IsFiniteSet(Date)
  <2>1. MaxAttempt \in Int /\ MaxTime \div DayLength \in Int
    BY KeysAreNumbered
  <2> QED
    BY <2>1, FS_Interval DEF Attempt, Date
<1>2. IsFiniteSet(Pairs)
  BY <1>1, TokenAssumption, FS_Product DEF TokenAssumption
<1>3. pair \in Injection(Key, Pairs)
  BY DEF Key, Injection, IsInjective
<1> QED
  BY <1>2, <1>3, FS_Injection

(* Every reservation holds a natural number of tokens.                        *)
LEMMA AmountTyped ==
  ASSUME row \in [Key -> RowSet]
  PROVE  /\ \A k \in Key : Amount[k] \in Nat /\ Amount[k] = Counted(k)
         /\ \A date : /\ LiveOf(date) \in SUBSET Key /\ IsFiniteSet(LiveOf(date))
                      /\ LiveTokens(date) = SumFunctionOnSet(Amount, LiveOf(date))
                      /\ LiveTokens(date) \in Nat
<1>1. \A k \in Key : Amount[k] \in Nat /\ Amount[k] = Counted(k)
  BY TokenAssumption DEF TokenAssumption, RowSet, Amount, Counted
<1>2. ASSUME NEW date
      PROVE  /\ LiveOf(date) \in SUBSET Key /\ IsFiniteSet(LiveOf(date))
             /\ LiveTokens(date) = SumFunctionOnSet(Amount, LiveOf(date))
  <2>1. LiveOf(date) \in SUBSET Key
    BY DEF LiveOf, OfDate
  <2> QED
    BY <2>1, KeysAreFinite, FS_Subset DEF LiveTokens, LiveOf, Amount
<1>3. ASSUME NEW date PROVE LiveTokens(date) \in Nat
  BY <1>1, <1>2, SumType
<1> QED
  BY <1>1, <1>2, <1>3

(* What the rows of the next state hold, from the same lemma of that state.   *)
LEMMA AmountTypedNext ==
  ASSUME (row \in [Key -> RowSet])'
  PROVE  /\ \A k \in Key : Amount'[k] \in Nat /\ Amount'[k] = Counted(k)'
         /\ \A date : /\ LiveOf(date)' \in SUBSET Key /\ IsFiniteSet(LiveOf(date)')
                      /\ LiveTokens(date)' = SumFunctionOnSet(Amount', LiveOf(date)')
                      /\ LiveTokens(date)' \in Nat
<1>1. \A k \in Key : Amount'[k] \in Nat /\ Amount'[k] = Counted(k)'
  BY TokenAssumption DEF TokenAssumption, RowSet, Amount, Counted
<1>2. ASSUME NEW date
      PROVE  /\ LiveOf(date)' \in SUBSET Key /\ IsFiniteSet(LiveOf(date)')
             /\ LiveTokens(date)' = SumFunctionOnSet(Amount', LiveOf(date)')
  <2>1. LiveOf(date)' \in SUBSET Key
    BY DEF LiveOf, OfDate
  <2> QED
    BY <2>1, KeysAreFinite, FS_Subset DEF LiveTokens, LiveOf, Amount
<1>3. ASSUME NEW date PROVE LiveTokens(date)' \in Nat
  BY <1>1, <1>2, SumType
<1> QED
  BY <1>1, <1>2, <1>3

(* A date whose live reservations were all live before, and hold no more than *)
(* they did, holds no more than it did.                                       *)
LEMMA HoldsNoMore ==
  ASSUME Typed, row' \in [Key -> RowSet], NEW date, NEW L \in SUBSET LiveOf(date),
         \A k \in L : Counted(k)' <= Counted(k)
  PROVE  SumFunctionOnSet(Amount', L) <= LiveTokens(date)
<1>1. row \in [Key -> RowSet]
  BY DEF Typed, TokensTyped
<1>2. /\ IsFiniteSet(L) /\ L \subseteq Key /\ IsFiniteSet(LiveOf(date))
      /\ \A k \in LiveOf(date) : Amount[k] \in Nat
      /\ LiveTokens(date) = SumFunctionOnSet(Amount, LiveOf(date))
  BY <1>1, AmountTyped, FS_Subset
<1>3. \A k \in L : Amount[k] \in Int /\ Amount'[k] \in Int /\ Amount'[k] <= Amount[k]
  BY <1>1, <1>2, AmountTyped, AmountTypedNext
<1>4. SumFunctionOnSet(Amount', L) <= SumFunctionOnSet(Amount, L)
  BY <1>2, <1>3, SumIsMonotone
<1>5. SumFunctionOnSet(Amount, L) <= SumFunctionOnSet(Amount, LiveOf(date))
  BY <1>2, SumGrows
<1>6. /\ SumFunctionOnSet(Amount', L) \in Int /\ SumFunctionOnSet(Amount, L) \in Int
      /\ LiveTokens(date) \in Int
  BY <1>1, <1>2, <1>3, AmountTyped, SumType
<1> QED
  BY <1>2, <1>4, <1>5, <1>6

(* Apart from a new reservation, what a step leaves live was live and held as *)
(* much, or an answer used more than it reserved.                             *)
LEMMA LivesOn ==
  ASSUME Typed, Kept \/ GivenUp \/ Claimed \/ Ended, NEW date, ~Breached(date)',
         NEW k \in OfDate(date), row'[k].status \in Live
  PROVE  row[k].status \in Live /\ Counted(k)' <= Counted(k)
<1>0. /\ k \in Key /\ row \in [Key -> RowSet] /\ Request \in Nat
      /\ \A used \in Usage \cup {0} : used \in Nat
      /\ row[k].used \in Nat
  BY TokenAssumption DEF OfDate, Typed, TokensTyped, TokenAssumption, RowSet
<1>1. CASE Kept
  BY <1>0, <1>1 DEF Kept, Counted
<1>2. CASE GivenUp
  <2>1. /\ row'[k].used = row[k].used
        /\ \/ row'[k].status = row[k].status
           \/ row[k].status = "IN_FLIGHT" /\ row'[k].status = "AMBIGUOUS"
    BY <1>0, <1>2, RecoveredTyped DEF GivenUp
  <2> QED
    BY <1>0, <2>1 DEF Counted, Live
<1>3. CASE Claimed
  <2>1. PICK w \in Worker, key \in Key :
          /\ row[key].status = "RESERVED"
          /\ row' = [row EXCEPT ![key].status = "IN_FLIGHT", ![key].owner = w, ![key].until = now + Lease]
    BY <1>3 DEF Claimed
  <2>2. CASE k # key
    BY <1>0, <2>1, <2>2 DEF Counted
  <2>3. CASE k = key
    <3>1. row'[k].status = "IN_FLIGHT"
      BY <1>0, <2>1, <2>3 DEF RowSet
    <3> QED
      BY <1>0, <2>1, <2>3, <3>1 DEF Counted, Live
  <2> QED
    BY <2>2, <2>3
<1>4. CASE Ended
  <2>1. PICK key \in Key, status \in {"SETTLED", "AMBIGUOUS", "RELEASED"}, used \in Usage \cup {0} :
          /\ row[key].status \in Unresolved
          /\ row' = [row EXCEPT ![key].status = status, ![key].used = used]
    BY <1>4 DEF Ended
  <2>2. CASE k # key
    BY <1>0, <2>1, <2>2 DEF Counted
  <2>3. CASE k = key
    <3>1. row[k].status \in {"IN_FLIGHT", "AMBIGUOUS"} /\ Counted(k) = Request
      BY <2>1, <2>3 DEF Unresolved, Counted
    <3>2. row'[k].status = "SETTLED" => row'[k].used <= Request
      <4>1. row' \in [Key -> RowSet]
        BY <1>4, RowStepEffect DEF RowStep
      <4>2. row'[k] \in RowSet
        BY <1>0, <4>1
      <4>3. row'[k].used \in Usage \cup {0}
        BY <4>2 DEF RowSet
      <4>4. row'[k].used \in Nat
        BY <1>0, <4>3
      <4> QED
        BY <1>0, <4>4 DEF Breached
    <3>3. Counted(k)' <= Request
      BY <1>0, <3>2 DEF Counted
    <3> QED
      BY <3>1, <3>3 DEF Live
  <2> QED
    BY <2>2, <2>3
<1> QED
  BY <1>1, <1>2, <1>3, <1>4

(* A reservation is made while what its date holds leaves room for it.        *)
LEMMA ReservedWithinCap ==
  ASSUME Typed, Reserved, CapKept, NEW date \in Date
  PROVE  Breached(date)' \/ LiveTokens(date)' <= Cap
<1>1. PICK key \in Key :
        /\ row[key].status = "NONE" /\ ~Refused(key, Recovered(OfRole(key[1])))
        /\ row' = [Recovered(OfRole(key[1])) EXCEPT ![key].status = "RESERVED"]
  BY DEF Reserved
<1> DEFINE rows == Recovered(OfRole(key[1]))
<1>2. /\ rows \in [Key -> RowSet]
      /\ \A k \in Key : /\ rows[k].used = row[k].used
                        /\ \/ rows[k].status = row[k].status
                           \/ row[k].status = "IN_FLIGHT" /\ rows[k].status = "AMBIGUOUS"
  BY RecoveredTyped
<1>3. /\ row' = [rows EXCEPT ![key].status = "RESERVED"]
      /\ ~Breached(key[3]) /\ ~ (Request > Cap - LiveTokens(key[3]))
  BY <1>1 DEF Refused
<1> HIDE DEF rows
<1>4. /\ row' \in [Key -> RowSet] /\ row'[key].status = "RESERVED"
      /\ \A k \in Key \ {key} : row'[k] = rows[k]
  BY <1>2, <1>3, RowStepEffect DEF RowStep
<1>5. row \in [Key -> RowSet] /\ Request \in Nat /\ Cap \in Nat /\ LiveTokens(date) \in Nat
  BY TokenAssumption, AmountTyped DEF TokenAssumption, Typed, TokensTyped
<1>6. \A k \in Key \ {key} : /\ row'[k].status \in Live <=> row[k].status \in Live
                             /\ Counted(k)' = Counted(k) /\ Counted(k) \in Nat
                             /\ row'[k].status = "SETTLED" <=> row[k].status = "SETTLED"
                             /\ row'[k].used = row[k].used
  <2>1. ASSUME NEW k \in Key \ {key}
        PROVE  /\ \/ row'[k].status = row[k].status
                  \/ row[k].status = "IN_FLIGHT" /\ row'[k].status = "AMBIGUOUS"
               /\ row'[k].used = row[k].used
    BY <1>2, <1>4
  <2>2. \A k \in Key : Counted(k) \in Nat
    BY <1>5, AmountTyped
  <2> QED
    BY <2>1, <2>2 DEF Live, Counted
<1> DEFINE L == LiveOf(date)' \ {key}
<1>7. L \subseteq LiveOf(date) /\ L \in SUBSET Key /\ IsFiniteSet(L)
  <2>1. L \subseteq LiveOf(date) /\ L \in SUBSET Key
    BY <1>6 DEF LiveOf, OfDate
  <2> QED
    BY <2>1, KeysAreFinite, FS_Subset
<1>8. SumFunctionOnSet(Amount', L) <= LiveTokens(date)
  <2>1. \A k \in L : Counted(k)' <= Counted(k)
    BY <1>6 DEF LiveOf, OfDate
  <2> QED
    BY <1>4, <1>7, <2>1, HoldsNoMore
<1>9. /\ \A k \in Key : Amount'[k] \in Nat /\ Amount'[k] = Counted(k)'
      /\ LiveTokens(date)' = SumFunctionOnSet(Amount', LiveOf(date)')
  BY <1>4, AmountTypedNext
<1>10. SumFunctionOnSet(Amount', L) \in Nat
  BY <1>7, <1>9, SumType
<1>11. CASE key \in LiveOf(date)'
  <2>1. key[3] = date /\ LiveOf(date)' = L \cup {key} /\ key \notin L
    BY <1>11 DEF LiveOf, OfDate
  <2>2. SumFunctionOnSet(Amount', L \cup {key}) = Amount'[key] + SumFunctionOnSet(Amount', L)
    BY <1>7, <1>9, <2>1, SumPutsIn
  <2>3. Amount'[key] = Request
    BY <1>4, <1>9 DEF Counted
  <2>4. LiveTokens(date)' = Request + SumFunctionOnSet(Amount', L)
    BY <1>9, <2>1, <2>2, <2>3
  <2>5. ~ (Request > Cap - LiveTokens(date))
    BY <1>3, <2>1
  <2> HIDE DEF L
  <2> QED
    BY <1>5, <1>8, <1>10, <2>4, <2>5
<1>12. CASE key \notin LiveOf(date)'
  <2>1. LiveOf(date)' = L
    BY <1>12
  <2>2. LiveTokens(date)' = SumFunctionOnSet(Amount', L)
    BY <1>9, <2>1
  <2>3. Breached(date) => Breached(date)'
    BY <1>1, <1>6 DEF Breached, OfDate
  <2>4. Breached(date) \/ LiveTokens(date) <= Cap
    BY DEF CapKept
  <2> HIDE DEF L
  <2> QED
    BY <1>5, <1>8, <1>10, <2>2, <2>3, <2>4
<1> QED
  BY <1>11, <1>12

LEMMA StepKeepsCap ==
  ASSUME Typed, CapKept, [Next]_vars
  PROVE  CapKept'
<1> SUFFICES ASSUME NEW date \in Date, ~Breached(date)'
             PROVE  LiveTokens(date)' <= Cap
  BY DEF CapKept
<1>1. RowStep /\ row' \in [Key -> RowSet] /\ row \in [Key -> RowSet] /\ Cap \in Nat
  BY ActionsAreRowSteps, RowStepEffect, TokenAssumption DEF TokenAssumption, Typed, TokensTyped
<1>2. CASE Reserved
  BY <1>2, ReservedWithinCap
<1>3. CASE Kept \/ GivenUp \/ Claimed \/ Ended
  <2>1. \A k \in LiveOf(date)' : k \in LiveOf(date) /\ Counted(k)' <= Counted(k)
    BY <1>3, LivesOn DEF LiveOf, OfDate
  <2>2. SumFunctionOnSet(Amount', LiveOf(date)') <= LiveTokens(date)
    BY <1>1, <2>1, HoldsNoMore
  <2>3. LiveTokens(date)' = SumFunctionOnSet(Amount', LiveOf(date)') /\ LiveTokens(date)' \in Nat
    BY <1>1, AmountTypedNext
  <2>4. LiveTokens(date) \in Nat
    BY <1>1, AmountTyped
  <2>5. ~Breached(date)
    BY <1>1, RowStepEffect DEF Breached, OfDate
  <2>6. LiveTokens(date) <= Cap
    BY <2>5 DEF CapKept
  <2> QED
    BY <1>1, <2>2, <2>3, <2>4, <2>6
<1> QED
  BY <1>1, <1>2, <1>3 DEF RowStep

(* What is held and was used of a date stays within daily_token_cap until an  *)
(* answer uses more than its request reserved, for any number of workers,     *)
(* roles, attempts and dates, through expiry, crashes and reconciliation      *)
(* (reserve_research_tokens).                                                 *)
THEOREM TokenCapKept == Spec => []CapKept
<1>1. ASSUME Init PROVE CapKept
  <2>1. Typed
    BY <1>1, StartsTyped
  <2>2. ASSUME NEW date \in Date PROVE LiveTokens(date) = 0
    <3>1. LiveOf(date) = {}
      BY <1>1 DEF Init, TokenInit, LiveOf, OfDate, NoRow, Live
    <3>2. LiveTokens(date) = SumFunctionOnSet(Amount, LiveOf(date))
      BY <2>1, AmountTyped DEF Typed, TokensTyped
    <3> QED
      BY <3>1, <3>2, SumEmpty
  <2> QED
    BY <2>2, TokenAssumption DEF CapKept, TokenAssumption
<1>2. Typed /\ CapKept /\ [Next]_vars => CapKept'
  BY StepKeepsCap
<1> QED
  BY <1>1, <1>2, AlwaysTyped, PTL DEF Spec

-----------------------------------------------------------------------------
(* What a worker does to the run: the moves its actions come down to.         *)

Analysed == \A i \in DOMAIN Analysts : Analysts[i] \in reports
HeardTo(n) == \A i \in DOMAIN Analysts : i < n => Analysts[i] \in reports

(* The attempts of a role are this worker's: it has saved the first of them,  *)
(* and is not done with the role's outcome.                                   *)
Owns(w, role) ==
  \/ work[w].pc = "save" /\ RoleOf(w) = role /\ work[w].saved > 0
  \/ work[w].pc \in {"complete", "incomplete"} /\ ~work[w].failed /\ role = Manager

Dropped(w) == work'[w].pc = "idle" /\ UNCHANGED runVars

Walked(w) ==
  /\ SameRole(w) /\ work[w].pc \in {"idle", "begin", "turn", "hear"}
  /\ work'[w].pc \in {"begin", "turn", "hear", "save"} /\ work'[w].saved = 0
  /\ work'[w].pc \in {"hear", "save"} => work[w].pc \in {"turn", "hear"}
  /\ work[w].pc = "turn" /\ RoleOf(w) = Manager => ~work[w].failed
  /\ run' \in {run, "RUNNING"} /\ (run = "COMPLETED" => run' = run)
  /\ UNCHANGED <<attempts, reports, decided>>

Skipped(w) ==
  /\ work[w].pc = "turn" /\ RoleOf(w) \in reports /\ RoleOf(w) # Manager
  /\ work'[w].pc = "turn" /\ work'[w].at = work[w].at + 1 /\ work'[w].failed = work[w].failed
  /\ UNCHANGED runVars

GaveUp(w) ==
  /\ work[w].failed /\ SameRole(w) /\ work'[w].pc = "incomplete"
  /\ UNCHANGED runVars

Noted(w) ==
  /\ work[w].pc = "save" /\ work'[w].pc = "save" /\ SameRole(w)
  /\ work'[w].saved = work[w].saved + 1 /\ ~Taken(w, work[w].saved + 1)
  /\ attempts' = attempts \cup {<<RoleOf(w), work[w].saved + 1>>}
  /\ UNCHANGED <<run, reports, decided>>

Reported(w) ==
  /\ work[w].pc = "save" /\ work[w].saved > 0 /\ RoleOf(w) # Manager
  /\ work'[w].pc = "turn" /\ work'[w].at = work[w].at + 1
  /\ \/ work'[w].failed = work[w].failed /\ reports' = reports \cup {RoleOf(w)}
     \/ work'[w].failed /\ UNCHANGED reports
  /\ UNCHANGED <<run, attempts, decided>>

Rated(w) ==
  /\ work[w].pc = "save" /\ work[w].saved > 0 /\ RoleOf(w) = Manager /\ SameRole(w)
  /\ \/ work'[w].pc \in {"complete", "incomplete"} /\ decided'
     \/ work'[w].pc = "incomplete" /\ UNCHANGED decided
  /\ UNCHANGED <<run, attempts, reports>>

RunFinished(w) ==
  /\ work'[w].pc = "idle" /\ UNCHANGED <<attempts, reports, decided>>
  /\ \/ work[w].pc = "complete" /\ run' = "COMPLETED"
     \/ work[w].pc = "incomplete" /\ run' = "ANALYSIS_INCOMPLETE"

Move(w) ==
  /\ Alone(w) /\ WorkTyped'
  /\ \/ Dropped(w) \/ Walked(w) \/ Skipped(w) \/ GaveUp(w)
     \/ Noted(w) \/ Reported(w) \/ Rated(w) \/ RunFinished(w)

LEMMA ActionsAreMoves ==
  ASSUME Typed, NEW w \in Worker,
         \/ Start(w) \/ Begin(w) \/ Turn(w) \/ Hear(w)
         \/ SaveAttempt(w) \/ SaveOutcome(w) \/ Finish(w) \/ Crash(w)
  PROVE  Move(w) /\ UNCHANGED scheduled
<1>0. /\ Placed(work[w]) /\ work[w].attempt \in Nat \ {0} /\ work[w].saved \in Nat
      /\ work[w].failed \in BOOLEAN /\ RoleOf(w) \in Role
  BY WorkIsTyped, RoleOfTyped DEF WorkTyped, WorkSet
<1>1. CASE Start(w)
  <2>1. Step(w, "begin") /\ work[w].pc = "idle" /\ UNCHANGED <<runVars, scheduled>>
    BY <1>1 DEF Start
  <2> QED
    BY <1>0, <2>1, StepWork DEF Places, Placed, Move, Walked, runVars
<1>2. CASE Begin(w)
  <2>1. /\ Step(w, "turn") /\ work[w].pc = "begin" /\ UNCHANGED <<attempts, reports, decided, scheduled>>
        /\ run' = IF run = "NONE" THEN "RUNNING" ELSE run
    BY <1>2 DEF Begin
  <2> QED
    BY <1>0, <2>1, StepWork DEF Places, Placed, Move, Walked
<1>3. CASE Turn(w)
  <2>1. work[w].pc = "turn" /\ UNCHANGED <<runVars, scheduled>>
    BY <1>3 DEF Turn
  <2>2. \/ RoleOf(w) # Manager /\ RoleOf(w) \in reports /\ NextTurn(w, work[w].failed)
        \/ (RoleOf(w) = Manager => ~work[w].failed) /\ Step(w, "hear")
        \/ work[w].failed /\ Step(w, "incomplete")
    BY <1>3 DEF Turn
  <2>3. CASE RoleOf(w) # Manager /\ RoleOf(w) \in reports /\ NextTurn(w, work[w].failed)
    BY <1>0, <2>1, <2>3, TurnWork DEF Move, Skipped
  <2>4. CASE (RoleOf(w) = Manager => ~work[w].failed) /\ Step(w, "hear")
    BY <1>0, <2>1, <2>4, StepWork DEF Places, Placed, Move, Walked, runVars
  <2>5. CASE work[w].failed /\ Step(w, "incomplete")
    BY <1>0, <2>1, <2>5, StepWork DEF Places, Move, GaveUp
  <2> QED
    BY <2>2, <2>3, <2>4, <2>5
<1>4. CASE Hear(w)
  <2>1. work[w].pc = "hear" /\ UNCHANGED <<runVars, scheduled>>
    BY <1>4 DEF Hear
  <2>2. \/ /\ work[w].attempt < MaxAttempt
           /\ work' = [work EXCEPT ![w].attempt = work[w].attempt + 1]
        \/ \E good \in BOOLEAN : work' = [work EXCEPT ![w].pc = "save", ![w].good = good]
        \/ Step(w, "save")
        \/ work' = [work EXCEPT ![w] = Idle]
    BY <1>4 DEF Hear, Fails
  <2>3. CASE /\ work[w].attempt < MaxAttempt
             /\ work' = [work EXCEPT ![w].attempt = work[w].attempt + 1]
    BY <1>0, <2>1, <2>3, RetryWork DEF Placed, Move, Walked, runVars
  <2>4. CASE \E good \in BOOLEAN : work' = [work EXCEPT ![w].pc = "save", ![w].good = good]
    BY <1>0, <2>1, <2>4, JudgeWork DEF Placed, Move, Walked, runVars
  <2>5. CASE Step(w, "save")
    BY <1>0, <2>1, <2>5, StepWork DEF Places, Placed, Move, Walked, runVars
  <2>6. CASE work' = [work EXCEPT ![w] = Idle]
    BY <2>1, <2>6, IdleWork DEF Move, Dropped
  <2> QED
    BY <2>2, <2>3, <2>4, <2>5, <2>6
<1>5. CASE SaveAttempt(w)
  <2>1. /\ work[w].pc = "save" /\ work[w].saved + 1 <= work[w].attempt
        /\ UNCHANGED <<run, reports, decided, scheduled>>
    BY <1>5 DEF SaveAttempt
  <2>2. \/ work' = [work EXCEPT ![w] = Idle] /\ UNCHANGED attempts
        \/ /\ ~Taken(w, work[w].saved + 1)
           /\ attempts' = attempts \cup {<<RoleOf(w), work[w].saved + 1>>}
           /\ work' = [work EXCEPT ![w].saved = work[w].saved + 1]
    BY <1>5 DEF SaveAttempt, Fails
  <2>3. CASE work' = [work EXCEPT ![w] = Idle] /\ UNCHANGED attempts
    BY <2>1, <2>3, IdleWork DEF Move, Dropped, runVars
  <2>4. CASE /\ ~Taken(w, work[w].saved + 1)
             /\ attempts' = attempts \cup {<<RoleOf(w), work[w].saved + 1>>}
             /\ work' = [work EXCEPT ![w].saved = work[w].saved + 1]
    BY <2>1, <2>4, SavedWork DEF Move, Noted
  <2> QED
    BY <2>2, <2>3, <2>4
<1>6. CASE SaveOutcome(w)
  <2>1. work[w].pc = "save" /\ work[w].saved > 0 /\ UNCHANGED <<run, attempts, scheduled>>
    BY <1>0, <1>6 DEF SaveOutcome
  <2>2. \/ /\ RoleOf(w) # Manager /\ UNCHANGED decided
           /\ \/ NextTurn(w, work[w].failed) /\ reports' = reports \cup {RoleOf(w)}
              \/ NextTurn(w, TRUE) /\ UNCHANGED reports
        \/ /\ RoleOf(w) = Manager /\ UNCHANGED reports
           /\ \/ decided' /\ \E rated \in {"complete", "incomplete"} : Step(w, rated)
              \/ UNCHANGED decided /\ Step(w, "incomplete")
    BY <1>6 DEF SaveOutcome
  <2>3. CASE /\ RoleOf(w) # Manager /\ UNCHANGED decided
             /\ \/ NextTurn(w, work[w].failed) /\ reports' = reports \cup {RoleOf(w)}
                \/ NextTurn(w, TRUE) /\ UNCHANGED reports
    BY <1>0, <2>1, <2>3, TurnWork DEF Move, Reported
  <2>4. CASE /\ RoleOf(w) = Manager /\ UNCHANGED reports
             /\ \/ decided' /\ \E rated \in {"complete", "incomplete"} : Step(w, rated)
                \/ UNCHANGED decided /\ Step(w, "incomplete")
    BY <2>1, <2>4, StepWork DEF Places, Move, Rated
  <2> QED
    BY <2>2, <2>3, <2>4
<1>7. CASE Finish(w)
  <2>1. /\ work[w].pc \in {"complete", "incomplete"} /\ work' = [work EXCEPT ![w] = Idle]
        /\ UNCHANGED <<attempts, reports, decided, scheduled>>
        /\ run' = IF work[w].pc = "complete" THEN "COMPLETED" ELSE "ANALYSIS_INCOMPLETE"
    BY <1>7 DEF Finish
  <2> QED
    BY <2>1, IdleWork DEF Move, RunFinished
<1>8. CASE Crash(w)
  <2>1. work' = [work EXCEPT ![w] = Idle] /\ UNCHANGED <<runVars, scheduled>>
    BY <1>8 DEF Crash
  <2> QED
    BY <2>1, IdleWork DEF Move, Dropped
<1> QED
  BY <1>1, <1>2, <1>3, <1>4, <1>5, <1>6, <1>7, <1>8

LEMMA StepsAreMoves ==
  ASSUME Typed, [Next]_vars
  PROVE  /\ UNCHANGED scheduled
         /\ UNCHANGED <<runVars, work>> \/ \E w \in Worker : Move(w)
BY ActionsAreMoves DEF Next, vars, committeeVars

(* A worker none of whose analysts failed it has a saved report of each of    *)
(* them, and only such a worker asks the manager.                             *)
Follows(w) ==
  /\ work[w].pc \in {"turn", "hear", "save"} /\ ~work[w].failed => HeardTo(work[w].at)
  /\ work[w].pc = "complete" => ~work[w].failed /\ decided /\ Analysed
  /\ work[w].pc \in {"hear", "save"} /\ RoleOf(w) = Manager => ~work[w].failed

Founded ==
  /\ \A w \in Worker : Follows(w)
  /\ run = "COMPLETED" => decided /\ Analysed

LEMMA MoveKeepsFounded ==
  ASSUME Typed, Founded, NEW w \in Worker, Move(w)
  PROVE  Founded'
<1>0. /\ Placed(work[w]) /\ Follows(w) /\ WorkTyped' /\ Alone(w)
      /\ work[w].at \in 1..(Len(Analysts) + 1) /\ Len(Analysts) \in Nat
      /\ DOMAIN Analysts = 1..Len(Analysts)
      /\ RoleOf(w) = Manager <=> work[w].at = Len(Analysts) + 1
  BY WorkIsTyped, RoleOfTyped, CommitteeAssumption DEF WorkTyped, Founded, Move, CommitteeAssumption
<1>1. /\ reports \subseteq reports' /\ (decided => decided')
      /\ Analysed => Analysed'
  BY DEF Move, Dropped, Walked, Skipped, GaveUp, Noted, Reported, Rated, RunFinished, runVars, Analysed
<1>2. \A v \in Worker \ {w} : Follows(v)'
  <2> SUFFICES ASSUME NEW v \in Worker \ {w} PROVE Follows(v)'
    OBVIOUS
  <2>1. Follows(v) /\ work'[v] = work[v] /\ RoleOf(v)' = RoleOf(v)
    BY <1>0 DEF Founded, Alone, RoleOf
  <2>2. HeardTo(work[v].at) => HeardTo(work[v].at)'
    BY <1>1, <2>1 DEF HeardTo
  <2> QED
    BY <1>1, <2>1, <2>2 DEF Follows
<1>3. Follows(w)' /\ (run' = "COMPLETED" => decided' /\ Analysed')
  <2>0. /\ run = "COMPLETED" => decided /\ Analysed
        /\ SameRole(w) => RoleOf(w)' = RoleOf(w) /\ (HeardTo(work[w].at) => HeardTo(work[w].at)')
    BY <1>1 DEF Founded, SameRole, RoleOf, HeardTo
  <2>1. CASE Dropped(w)
    BY <1>1, <2>0, <2>1 DEF Dropped, Follows, runVars
  <2>2. CASE Walked(w)
    <3>1. work[w].at = 1 => HeardTo(work[w].at)
      BY <1>0 DEF HeardTo
    <3>2. work[w].pc \in {"idle", "begin"} => HeardTo(work[w].at) /\ ~work[w].failed
      BY <1>0, <3>1 DEF Placed
    <3>3. ~work[w].failed => HeardTo(work[w].at)
      BY <1>0, <2>2, <3>2 DEF Walked, Follows
    <3>4. work'[w].pc \in {"hear", "save"} /\ RoleOf(w) = Manager => ~work[w].failed
      BY <1>0, <2>2 DEF Walked, Follows
    <3> QED
      BY <1>1, <2>0, <2>2, <3>3, <3>4 DEF Walked, Follows, SameRole
  <2>3. CASE Skipped(w)
    <3>1. work[w].at \in DOMAIN Analysts /\ RoleOf(w) = Analysts[work[w].at]
      BY <1>0, <2>3 DEF Skipped, RoleOf
    <3>2. HeardTo(work[w].at) => HeardTo(work[w].at)'
      BY <1>0, <1>1, <2>3, <3>1 DEF Skipped, HeardTo
    <3> QED
      BY <1>0, <1>1, <2>0, <2>3, <3>2 DEF Skipped, Follows, runVars
  <2>4. CASE GaveUp(w)
    BY <1>1, <2>0, <2>4 DEF GaveUp, Follows, runVars
  <2>5. CASE Noted(w)
    BY <1>0, <1>1, <2>0, <2>5 DEF Noted, Follows, SameRole
  <2>6. CASE Reported(w)
    <3>1. work[w].at \in DOMAIN Analysts /\ RoleOf(w) = Analysts[work[w].at]
      BY <1>0, <2>6 DEF Reported, RoleOf
    <3>2. HeardTo(work[w].at) /\ RoleOf(w) \in reports' => HeardTo(work[w].at)'
      BY <1>0, <1>1, <2>6, <3>1 DEF Reported, HeardTo
    <3>3. ~work'[w].failed => RoleOf(w) \in reports' /\ ~work[w].failed
      BY <2>6 DEF Reported
    <3>4. ~work'[w].failed => HeardTo(work[w].at)'
      BY <1>0, <2>6, <3>2, <3>3 DEF Reported, Follows
    <3> QED
      BY <1>1, <2>0, <2>6, <3>4 DEF Reported, Follows
  <2>7. CASE Rated(w)
    <3>1. ~work[w].failed /\ Analysed
      BY <1>0, <2>7 DEF Rated, Follows, HeardTo, Analysed
    <3> QED
      BY <1>1, <2>0, <2>7, <3>1 DEF Rated, Follows, SameRole
  <2>8. CASE RunFinished(w)
    BY <1>0, <1>1, <2>0, <2>8 DEF RunFinished, Follows
  <2> QED
    BY <2>1, <2>2, <2>3, <2>4, <2>5, <2>6, <2>7, <2>8 DEF Move
<1> QED
  BY <1>2, <1>3 DEF Founded

(* While the attempts' ids are shared: a role's attempts are one worker's at  *)
(* a time, and of a role that was given up nobody can save an attempt again.  *)
Lost(role) ==
  /\ role \notin reports /\ <<role, 1>> \in attempts
  /\ \A v \in Worker : ~Owns(v, role)

OwnedOnce ==
  \A w \in Worker, role \in Role :
    Owns(w, role) => /\ <<role, 1>> \in attempts
                     /\ role # Manager => role \notin reports
                     /\ \A v \in Worker : Owns(v, role) => v = w

LossStands ==
  \A w \in Worker : work[w].failed => \E i \in DOMAIN Analysts : i < work[w].at /\ Lost(Analysts[i])

Settled ==
  /\ OwnedOnce
  /\ \A role \in reports : <<role, 1>> \in attempts
  /\ LossStands
  /\ run = "COMPLETED" => <<Manager, 1>> \in attempts /\ \A v \in Worker : ~Owns(v, Manager)

(* A move that adds neither an attempt nor a report, nor an owner, nor a      *)
(* failure.                                                                   *)
LEMMA FewerOwners ==
  ASSUME Typed, Settled, UNCHANGED <<attempts, reports>>, run' = "COMPLETED" => run = "COMPLETED",
         \A v \in Worker, role \in Role : Owns(v, role)' => Owns(v, role),
         \A v \in Worker : work'[v].failed => work[v].failed /\ work[v].at <= work'[v].at,
         WorkTyped'
  PROVE  Settled'
<1>0. /\ Manager \in Role /\ \A i \in DOMAIN Analysts : Analysts[i] \in Role /\ i \in Int
      /\ \A v \in Worker : work[v].at \in Int /\ work'[v].at \in Int
  BY CommitteeAssumption, RoleOfTyped DEF CommitteeAssumption, WorkTyped, WorkSet
<1>1. OwnedOnce'
  BY DEF Settled, OwnedOnce
<1>2. \A role \in Role : Lost(role) => Lost(role)'
  BY DEF Lost
<1>3. LossStands'
  <2> SUFFICES ASSUME NEW v \in Worker, work'[v].failed
               PROVE  \E i \in DOMAIN Analysts : i < work'[v].at /\ Lost(Analysts[i])'
    BY DEF LossStands
  <2>1. PICK i \in DOMAIN Analysts : i < work[v].at /\ Lost(Analysts[i])
    BY DEF Settled, LossStands
  <2>2. work[v].at <= work'[v].at
    OBVIOUS
  <2>3. i < work'[v].at
    BY <1>0, <2>1, <2>2
  <2> QED
    BY <1>0, <1>2, <2>1, <2>3
<1> QED
  BY <1>0, <1>1, <1>3 DEF Settled

LEMMA MoveKeepsSettled ==
  ASSUME Typed, Founded, Settled, ~scheduled, NEW w \in Worker, Move(w)
  PROVE  Settled'
<1>0. /\ Placed(work[w]) /\ Follows(w) /\ WorkTyped' /\ Alone(w) /\ Placed(work'[w])
      /\ work[w].at \in 1..(Len(Analysts) + 1) /\ Len(Analysts) \in Nat
      /\ DOMAIN Analysts = 1..Len(Analysts)
      /\ RoleOf(w) = Manager <=> work[w].at = Len(Analysts) + 1
      /\ RoleOf(w) \in Role /\ Manager \in Role
      /\ \A i \in DOMAIN Analysts : Analysts[i] \in Role /\ Analysts[i] # Manager
      /\ work[w].saved \in Nat /\ \A v \in Worker : work[v].at \in Nat
  BY WorkIsTyped, RoleOfTyped, CommitteeAssumption
     DEF WorkTyped, Founded, Move, CommitteeAssumption
<1>1. \A v \in Worker \ {w} : /\ work'[v] = work[v]
                              /\ \A role \in Role : Owns(v, role)' <=> Owns(v, role)
  BY <1>0 DEF Alone, Owns, RoleOf
<1>2. SameRole(w) => RoleOf(w)' = RoleOf(w)
  BY DEF SameRole, RoleOf
<1>3. ASSUME UNCHANGED <<attempts, reports>>, run' = "COMPLETED" => run = "COMPLETED",
             \A role \in Role : Owns(w, role)' => Owns(w, role),
             work'[w].failed => work[w].failed /\ work[w].at <= work'[w].at
      PROVE  Settled'
  <2>1. \A v \in Worker, role \in Role : Owns(v, role)' => Owns(v, role)
    BY <1>1, <1>3
  <2>2. \A v \in Worker : work'[v].failed => work[v].failed /\ work[v].at <= work'[v].at
    <3>1. \A v \in Worker \ {w} : work[v].at <= work'[v].at
      BY <1>0, <1>1
    <3> QED
      BY <1>1, <1>3, <3>1
  <2> QED
    BY <1>0, <1>3, <2>1, <2>2, FewerOwners
<1>4. CASE Dropped(w)
  BY <1>0, <1>3, <1>4 DEF Dropped, Owns, Placed, runVars
<1>5. CASE Walked(w)
  <2>1. \A role \in Role : ~Owns(w, role)'
    BY <1>5 DEF Walked, Owns
  <2>2. work'[w].failed => work[w].failed /\ work[w].at <= work'[w].at
    BY <1>0, <1>5 DEF Walked, SameRole
  <2> QED
    BY <1>3, <1>5, <2>1, <2>2 DEF Walked
<1>6. CASE Skipped(w)
  <2>1. \A role \in Role : ~Owns(w, role)'
    BY <1>6 DEF Skipped, Owns
  <2>2. work'[w].failed => work[w].failed /\ work[w].at <= work'[w].at
    BY <1>0, <1>6 DEF Skipped
  <2> QED
    BY <1>3, <1>6, <2>1, <2>2 DEF Skipped, runVars
<1>7. CASE GaveUp(w)
  <2>1. \A role \in Role : ~Owns(w, role)'
    BY <1>7 DEF GaveUp, Owns, SameRole
  <2>2. work'[w].failed => work[w].failed /\ work[w].at <= work'[w].at
    BY <1>0, <1>7 DEF GaveUp, SameRole
  <2> QED
    BY <1>3, <1>7, <2>1, <2>2 DEF GaveUp, runVars
<1>8. CASE Noted(w)
  <2>1. /\ \A role \in Role : Owns(w, role)' <=> role = RoleOf(w)
        /\ \A role \in Role : Owns(w, role) <=> role = RoleOf(w) /\ work[w].saved > 0
    BY <1>0, <1>2, <1>8 DEF Noted, Owns
  <2>2. CASE work[w].saved > 0
    <3>1. /\ <<RoleOf(w), 1>> \in attempts /\ attempts \subseteq attempts'
          /\ \A role \in Role : <<role, 1>> \in attempts' <=> <<role, 1>> \in attempts
      BY <1>0, <1>8, <2>1, <2>2 DEF Noted, Settled, OwnedOnce
    <3>2. \A v \in Worker, role \in Role : Owns(v, role)' <=> Owns(v, role)
      BY <1>1, <2>1, <2>2
    <3>3. \A role \in Role : Lost(role) => Lost(role)'
      BY <1>8, <3>1, <3>2 DEF Noted, Lost
    <3>4. \A v \in Worker : work'[v].failed = work[v].failed /\ work'[v].at = work[v].at
      BY <1>1, <1>8 DEF Noted, SameRole
    <3>5. LossStands'
      BY <1>0, <3>3, <3>4 DEF Settled, LossStands
    <3>6. OwnedOnce'
      BY <1>8, <3>1, <3>2 DEF Noted, Settled, OwnedOnce
    <3> QED
      BY <1>0, <1>8, <3>1, <3>2, <3>5, <3>6 DEF Noted, Settled
  <2>3. CASE work[w].saved = 0
    <3>1. <<RoleOf(w), 1>> \notin attempts /\ attempts' = attempts \cup {<<RoleOf(w), 1>>}
      BY <1>8, <2>3 DEF Noted, Taken
    <3>2. \A v \in Worker : ~Owns(v, RoleOf(w))
      BY <1>0, <3>1 DEF Settled, OwnedOnce
    <3>3. RoleOf(w) \notin reports
      BY <3>1 DEF Settled
    <3>4. \A role \in Role : Lost(role) => Lost(role)'
      BY <1>1, <1>8, <2>1, <3>1 DEF Noted, Lost
    <3>5. \A v \in Worker : work'[v].failed = work[v].failed /\ work'[v].at = work[v].at
      BY <1>1, <1>8 DEF Noted, SameRole
    <3>6. LossStands'
      BY <1>0, <3>4, <3>5 DEF Settled, LossStands
    <3>7. OwnedOnce'
      BY <1>1, <1>8, <2>1, <3>1, <3>2, <3>3 DEF Noted, Settled, OwnedOnce
    <3>8. run' = "COMPLETED" => <<Manager, 1>> \in attempts' /\ \A v \in Worker : ~Owns(v, Manager)'
      BY <1>0, <1>1, <1>8, <2>1, <3>1 DEF Noted, Settled
    <3> QED
      BY <1>8, <3>1, <3>6, <3>7, <3>8 DEF Noted, Settled
  <2> QED
    BY <1>0, <2>2, <2>3
<1>9. CASE Reported(w)
  <2>1. /\ \A role \in Role : ~Owns(w, role)'
        /\ Owns(w, RoleOf(w)) /\ RoleOf(w) # Manager
        /\ <<RoleOf(w), 1>> \in attempts /\ RoleOf(w) \notin reports
        /\ \A v \in Worker : Owns(v, RoleOf(w)) => v = w
        /\ UNCHANGED <<run, attempts>>
    BY <1>0, <1>9 DEF Reported, Owns, Settled, OwnedOnce
  <2>2. \A v \in Worker, role \in Role : Owns(v, role)' => Owns(v, role) /\ v # w /\ role # RoleOf(w)
    BY <1>1, <2>1
  <2>3. reports \subseteq reports' /\ \A role \in reports' : role \in reports \/ role = RoleOf(w)
    BY <1>9 DEF Reported
  <2>4. \A role \in Role : Lost(role) => Lost(role)' /\ role # RoleOf(w)
    BY <2>1, <2>2, <2>3 DEF Lost
  <2>5. work[w].at \in DOMAIN Analysts /\ Analysts[work[w].at] = RoleOf(w)
    BY <1>0, <2>1 DEF RoleOf
  <2>6. ASSUME NEW i \in DOMAIN Analysts, Analysts[i] = RoleOf(w), Analysts[i] \notin reports'
        PROVE  Lost(Analysts[i])'
    BY <1>0, <2>1, <2>2, <2>6 DEF Lost
  <2>7. LossStands'
    <3> SUFFICES ASSUME NEW v \in Worker, work'[v].failed
                 PROVE  \E i \in DOMAIN Analysts : i < work'[v].at /\ Lost(Analysts[i])'
      BY DEF LossStands
    <3>1. CASE v # w
      <4>1. PICK i \in DOMAIN Analysts : i < work[v].at /\ Lost(Analysts[i])
        BY <1>1, <3>1 DEF Settled, LossStands
      <4> QED
        BY <1>0, <1>1, <2>4, <3>1, <4>1
    <3>2. CASE v = w /\ work[w].failed
      <4>1. PICK i \in DOMAIN Analysts : i < work[w].at /\ Lost(Analysts[i])
        BY <3>2 DEF Settled, LossStands
      <4>2. i < work[w].at + 1
        BY <1>0, <4>1
      <4> QED
        BY <1>0, <1>9, <2>4, <3>2, <4>1, <4>2 DEF Reported
    <3>3. CASE v = w /\ ~work[w].failed
      <4>1. reports' = reports /\ work'[w].at = work[w].at + 1
        BY <1>9, <3>3 DEF Reported
      <4>2. work[w].at < work'[w].at
        BY <1>0, <4>1
      <4> QED
        BY <2>1, <2>5, <2>6, <3>3, <4>1, <4>2
    <3> QED
      BY <3>1, <3>2, <3>3
  <2>8. OwnedOnce'
    BY <2>1, <2>2, <2>3 DEF Settled, OwnedOnce
  <2>9. run' = "COMPLETED" => <<Manager, 1>> \in attempts' /\ \A v \in Worker : ~Owns(v, Manager)'
    BY <1>0, <2>1, <2>2 DEF Settled
  <2> QED
    BY <2>1, <2>3, <2>7, <2>8, <2>9 DEF Settled
<1>10. CASE Rated(w)
  <2>1. \A role \in Role : Owns(w, role)' => Owns(w, role)
    BY <1>0, <1>10 DEF Rated, Owns
  <2>2. work'[w].failed => work[w].failed /\ work[w].at <= work'[w].at
    BY <1>0, <1>10 DEF Rated, SameRole
  <2> QED
    BY <1>3, <1>10, <2>1, <2>2 DEF Rated
<1>11. CASE RunFinished(w)
  <2>1. \A role \in Role : ~Owns(w, role)'
    BY <1>11 DEF RunFinished, Owns
  <2>2. ~work'[w].failed
    BY <1>0, <1>11 DEF RunFinished, Placed
  <2>3. CASE work[w].pc = "incomplete"
    BY <1>3, <1>11, <2>1, <2>2, <2>3 DEF RunFinished
  <2>4. CASE work[w].pc = "complete"
    <3>1. Owns(w, Manager)
      BY <1>0, <2>4 DEF Follows, Owns
    <3>2. <<Manager, 1>> \in attempts /\ \A v \in Worker : Owns(v, Manager) => v = w
      BY <1>0, <3>1 DEF Settled, OwnedOnce
    <3>3. \A v \in Worker : ~Owns(v, Manager)'
      BY <1>0, <1>1, <2>1, <3>2
    <3>4. UNCHANGED <<attempts, reports>>
      BY <1>11 DEF RunFinished
    <3>5. \A v \in Worker, role \in Role : Owns(v, role)' => Owns(v, role)
      BY <1>1, <2>1
    <3>6. OwnedOnce'
      BY <3>4, <3>5 DEF Settled, OwnedOnce
    <3>7. \A role \in Role : Lost(role) => Lost(role)'
      BY <3>4, <3>5 DEF Lost
    <3>8. LossStands'
      BY <1>0, <1>1, <2>2, <3>7 DEF Settled, LossStands
    <3> QED
      BY <3>2, <3>3, <3>4, <3>6, <3>8 DEF Settled
  <2> QED
    BY <1>11, <2>3, <2>4 DEF RunFinished
<1> QED
  BY <1>4, <1>5, <1>6, <1>7, <1>8, <1>9, <1>10, <1>11 DEF Move

(* The two invariants of the run, and what a step does to its status.         *)
Standing == Founded /\ (~scheduled => Settled)

LEMMA StepKeepsStanding ==
  ASSUME Typed, Standing, [Next]_vars
  PROVE  Standing' /\ (~scheduled /\ run = "COMPLETED" => run' = "COMPLETED")
<1>1. CASE UNCHANGED <<runVars, work>>
  <2>1. UNCHANGED <<run, attempts, reports, decided, work, scheduled>>
    BY <1>1, StepsAreMoves DEF runVars
  <2> QED
    BY <2>1 DEF Standing, Founded, Follows, HeardTo, Analysed, RoleOf, Settled, OwnedOnce, LossStands, Lost, Owns
<1>2. ASSUME NEW w \in Worker, Move(w)
      PROVE  Standing' /\ (~scheduled /\ run = "COMPLETED" => run' = "COMPLETED")
  <2>1. Founded' /\ scheduled' = scheduled
    BY <1>2, MoveKeepsFounded, StepsAreMoves DEF Standing
  <2>2. ~scheduled => Settled'
    BY <1>2, MoveKeepsSettled DEF Standing
  <2>3. ASSUME ~scheduled, run = "COMPLETED", work[w].pc = "incomplete" PROVE FALSE
    <3>1. Analysed /\ Settled /\ \A v \in Worker : ~Owns(v, Manager)
      BY <2>3 DEF Standing, Founded, Settled
    <3>2. work[w].failed
      BY <2>3, <3>1 DEF Owns
    <3>3. PICK i \in DOMAIN Analysts : Lost(Analysts[i])
      BY <3>1, <3>2 DEF Settled, LossStands
    <3> QED
      BY <3>1, <3>3 DEF Lost, Analysed
  <2>4. ~scheduled /\ run = "COMPLETED" => run' = "COMPLETED"
    BY <1>2, <2>3 DEF Move, Dropped, Walked, Skipped, GaveUp, Noted, Reported, Rated, RunFinished, runVars
  <2> QED
    BY <2>1, <2>2, <2>4 DEF Standing
<1> QED
  BY <1>1, <1>2, StepsAreMoves

(* A run is COMPLETED only with a decision that a saved report of every       *)
(* analyst went into, through crashes, reruns and concurrent workers, and     *)
(* where attempts share their ids nothing takes the verdict back              *)
(* (research/orchestration.py, storage/research_repositories.py).             *)
THEOREM CompletedRunStands == Spec => CompletionStands
<1>1. ASSUME Init PROVE Standing
  <2>1. /\ run = "NONE" /\ reports = {} /\ \A w \in Worker : work[w] = Idle
    BY <1>1 DEF Init
  <2>2. Idle.pc = "idle" /\ Idle.failed = FALSE
    BY DEF Idle
  <2>3. \A w \in Worker : work[w].pc = "idle" /\ ~work[w].failed
    BY <2>1, <2>2
  <2> QED
    BY <2>1, <2>3 DEF Standing, Founded, Follows, Settled, OwnedOnce, LossStands, Owns
<1>2. Typed /\ Standing /\ [Next]_vars => Standing'
  BY StepKeepsStanding
<1>3. Spec => []Standing
  BY <1>1, <1>2, AlwaysTyped, PTL DEF Spec
<1>4. TypeOK /\ Standing => CompletedIsFounded
  BY DEF Standing, Founded, CompletedIsFounded, Analysed
<1>5. Typed /\ Standing /\ [Next]_vars => [~scheduled /\ run = "COMPLETED" => run' = "COMPLETED"]_vars
  BY StepKeepsStanding
<1> QED
  BY <1>3, <1>4, <1>5, AlwaysTyped, ResearchTypeCorrect, PTL DEF Spec, CompletionStands, VerdictKept

-----------------------------------------------------------------------------
(* The provider is not asked twice.                                           *)

(* What an action does to the calls: it passes over the provider, claims,     *)
(* transmits, ends, or asks for an attempt.                                   *)
CallMove(w) ==
  /\ \A v \in Worker \ {w} : call'[v] = call[v]
  /\ \/ /\ \/ call'[w].pc \in {"idle", "claim"}
           \/ call'[w].pc = "done" /\ call'[w].outcome \in {"unavailable", "raised"}
        /\ UNCHANGED sent
     \/ /\ call[w].pc = "claim" /\ call'[w].pc = "calling" /\ call'[w].key = call[w].key
        /\ row[call[w].key].status = "RESERVED" /\ row'[call[w].key].status = "IN_FLIGHT"
        /\ UNCHANGED sent
     \/ /\ call[w].pc = "calling" /\ call'[w].pc = "waiting" /\ call'[w].key = call[w].key
        /\ sent' = sent \cup {call[w].key}
     \/ /\ call[w].pc = "waiting" /\ call'[w].pc = "done" /\ call'[w].key = call[w].key
        /\ UNCHANGED sent
     \/ /\ call'[w].pc = "reserve" /\ call'[w].key \in Role \X Attempt
        /\ call'[w].key[2] > 1 =>
             /\ call[w].pc = "done" /\ call[w].outcome \in {"answered", "retryable"}
             /\ call[w].key = <<call'[w].key[1], call'[w].key[2] - 1, call'[w].last>>
        /\ UNCHANGED sent

LEMMA BudgetStepsAreCallMoves ==
  ASSUME Typed, NEW w \in Worker,
         \/ Reserve(w) \/ Claim(w) \/ Transmit(w) \/ Answered(w) \/ Unclear(w) \/ Unavailable(w)
  PROVE  CallMove(w)
<1>0. CallFits(w) /\ row \in [Key -> RowSet]
  BY DEF Typed, CallsTyped, CallFits, TokensTyped
<1>1. CASE Reserve(w)
  <2> DEFINE key == <<call[w].key[1], call[w].key[2], Today>>
  <2>1. call[w].key \in Role \X Attempt
    BY <1>0, <1>1 DEF Reserve, CallFits
  <2>2. key \in Key
    BY <2>1, TodayIsDate DEF Key
  <2>3. /\ \/ call' = [call EXCEPT ![w].pc = "claim", ![w].key = key]
           \/ Ends(w, "unavailable")
        /\ UNCHANGED sent
    BY <1>1 DEF Reserve
  <2> HIDE DEF key
  <2> QED
    BY <2>2, <2>3, FoundCall, EndsCall DEF CallMove
<1>2. CASE Claim(w)
  <2>1. call[w].pc = "claim" /\ call[w].key \in Key /\ UNCHANGED sent
    BY <1>0, <1>2 DEF Claim, CallFits
  <2>2. CASE Ends(w, "unavailable")
    BY <2>1, <2>2, EndsCall DEF CallMove
  <2>3. CASE /\ MayClaim(w) /\ call' = [call EXCEPT ![w].pc = "calling"]
             /\ row' = [row EXCEPT ![call[w].key].status = "IN_FLIGHT", ![call[w].key].owner = w,
                                   ![call[w].key].until = now + Lease]
    <3> DEFINE key == call[w].key
               one == [row[key] EXCEPT !.status = "IN_FLIGHT"]
               two == [one EXCEPT !.owner = w]
               new == [two EXCEPT !.until = now + Lease]
    <3>1. row' = [row EXCEPT ![key] = new] /\ row[key].status = "RESERVED"
      BY <2>3 DEF MayClaim
    <3>2. one \in RowSet /\ one.status = "IN_FLIGHT"
      BY <1>0, <2>1 DEF RowSet, Live
    <3> HIDE DEF one
    <3>3. two \in RowSet /\ two.status = "IN_FLIGHT"
      BY <3>2 DEF RowSet
    <3> HIDE DEF two
    <3>4. new.status = "IN_FLIGHT"
      BY <3>3 DEF RowSet
    <3> HIDE DEF new
    <3>5. row'[key].status = "IN_FLIGHT"
      BY <1>0, <2>1, <3>1, <3>4
    <3>6. /\ call'[w].pc = "calling" /\ call'[w].key = call[w].key
          /\ \A v \in Worker \ {w} : call'[v] = call[v]
      BY <2>3, MovedCall
    <3> QED
      BY <2>1, <3>1, <3>5, <3>6 DEF CallMove
  <2> QED
    BY <1>2, <2>2, <2>3 DEF Claim
<1>3. CASE Transmit(w)
  <2>1. /\ call[w].pc = "calling" /\ call' = [call EXCEPT ![w].pc = "waiting"]
        /\ sent' = sent \cup {call[w].key}
    BY <1>3 DEF Transmit
  <2> QED
    BY <2>1, MovedCall DEF CallMove
<1>4. CASE Answered(w) \/ Unclear(w)
  <2>1. /\ call[w].pc = "waiting" /\ UNCHANGED sent
        /\ \E outcome \in {"answered", "retryable", "unavailable", "raised"} : Ends(w, outcome)
    BY <1>4 DEF Answered, Unclear, Resolve
  <2> QED
    BY <2>1, EndsCall DEF CallMove
<1>5. CASE Unavailable(w)
  <2>1. UNCHANGED sent /\ \E outcome \in {"unavailable", "raised"} : Ends(w, outcome)
    BY <1>5 DEF Unavailable, Resolve
  <2> QED
    BY <2>1, EndsCall DEF CallMove
<1> QED
  BY <1>1, <1>2, <1>3, <1>4, <1>5

LEMMA StepsAreCallMoves ==
  ASSUME Typed, [Next]_vars
  PROVE  UNCHANGED <<call, sent>> \/ \E w \in Worker : CallMove(w)
<1>1. CASE UNCHANGED vars
  BY <1>1 DEF vars, tokenVars
<1>2. ASSUME NEW w \in Worker, Start(w) \/ Begin(w) \/ SaveAttempt(w) \/ SaveOutcome(w) \/ Finish(w)
      PROVE  UNCHANGED <<call, sent>>
  BY <1>2 DEF Start, Begin, SaveAttempt, SaveOutcome, Finish, tokenVars
<1>3. ASSUME NEW w \in Worker, Turn(w) PROVE UNCHANGED <<call, sent>> \/ CallMove(w)
  <2>1. UNCHANGED sent /\ (UNCHANGED call \/ Asks(w, RoleOf(w), 1, Today))
    BY <1>3 DEF Turn
  <2>2. RoleOf(w) \in Role /\ 1 \in Attempt /\ Today \in Date
    BY RoleOfTyped, TodayIsDate, TokenAssumption DEF Attempt, TokenAssumption
  <2>3. CASE Asks(w, RoleOf(w), 1, Today)
    <3>1. /\ call'[w].pc = "reserve" /\ call'[w].key = <<RoleOf(w), 1>>
          /\ \A v \in Worker \ {w} : call'[v] = call[v]
      BY <2>2, <2>3, AsksCall
    <3>2. call'[w].key \in Role \X Attempt /\ ~ (call'[w].key[2] > 1)
      BY <2>2, <3>1
    <3> QED
      BY <2>1, <3>1, <3>2 DEF CallMove
  <2> QED
    BY <2>1, <2>3
<1>4. ASSUME NEW w \in Worker, Hear(w) PROVE UNCHANGED <<call, sent>> \/ CallMove(w)
  <2>1. /\ UNCHANGED sent /\ call[w].pc = "done"
        /\ \/ /\ call[w].outcome \in {"answered", "retryable"} /\ work[w].attempt < MaxAttempt
              /\ Asks(w, RoleOf(w), work[w].attempt + 1, call[w].key[3])
           \/ call' = [call EXCEPT ![w] = NoCall]
    BY <1>4 DEF Hear
  <2>2. CASE call' = [call EXCEPT ![w] = NoCall]
    BY <2>1, <2>2, DroppedCall DEF CallMove
  <2>3. CASE /\ call[w].outcome \in {"answered", "retryable"} /\ work[w].attempt < MaxAttempt
             /\ Asks(w, RoleOf(w), work[w].attempt + 1, call[w].key[3])
    <3> DEFINE n == work[w].attempt
    <3>1. /\ call[w].key \in Key /\ call[w].key[1] = RoleOf(w) /\ call[w].key[2] = n
          /\ RoleOf(w) \in Role /\ n \in Nat \ {0} /\ n + 1 \in Attempt
      BY <2>1, <2>3, WorkIsTyped, RoleOfTyped, TokenAssumption
         DEF Typed, CallsTyped, Attempt, TokenAssumption
    <3>2. call[w].key = <<RoleOf(w), n, call[w].key[3]>> /\ call[w].key[3] \in Date
      BY <3>1 DEF Key
    <3>3. /\ call'[w].pc = "reserve" /\ call'[w].key = <<RoleOf(w), n + 1>>
          /\ call'[w].last = call[w].key[3]
          /\ \A v \in Worker \ {w} : call'[v] = call[v]
      BY <2>3, <3>1, <3>2, AsksCall
    <3>4. /\ call'[w].key \in Role \X Attempt /\ call'[w].key[1] = RoleOf(w)
          /\ call'[w].key[2] - 1 = n
      BY <3>1, <3>3
    <3> HIDE DEF n
    <3> QED
      BY <2>1, <2>3, <3>2, <3>3, <3>4 DEF CallMove
  <2> QED
    BY <2>1, <2>2, <2>3
<1>5. ASSUME NEW w \in Worker, Crash(w) PROVE CallMove(w)
  <2>1. UNCHANGED sent /\ call' = [call EXCEPT ![w] = NoCall]
    BY <1>5 DEF Crash
  <2> QED
    BY <2>1, DroppedCall DEF CallMove
<1>6. CASE TokenNext
  BY <1>6, BudgetStepsAreCallMoves DEF TokenNext, Recover, Reconcile, Tick
<1> QED
  BY <1>1, <1>2, <1>3, <1>4, <1>5, <1>6 DEF Next

(* A claim is made once: whoever calls or has called under a reservation is   *)
(* alone with it, and what was sent was claimed.                              *)
CallKnown(w) ==
  /\ call[w].pc \in {"calling", "waiting"} => ~Fresh(call[w].key)
  /\ call[w].pc = "calling" => call[w].key \notin sent
  /\ call[w].pc = "done" /\ call[w].outcome \in {"answered", "retryable"} => ~Fresh(call[w].key)
  /\ call[w].pc = "reserve" /\ call[w].key[2] > 1 =>
       ~Fresh(<<call[w].key[1], call[w].key[2] - 1, call[w].last>>)

ClaimedOnce ==
  /\ \A w \in Worker : CallKnown(w)
  /\ \A k \in sent : ~Fresh(k)
  /\ \A v, w \in Worker :
       /\ call[v].pc \in {"calling", "waiting"} /\ call[w].pc \in {"calling", "waiting"}
       /\ call[v].key = call[w].key
       => v = w

(* A retry asks for the attempt after a key of the table.                     *)
LEMMA AskedAfter ==
  ASSUME Typed, NEW w \in Worker, call[w].pc = "reserve", call[w].key[2] > 1
  PROVE  <<call[w].key[1], call[w].key[2] - 1, call[w].last>> \in Key
<1>1. call[w].key \in Role \X Attempt /\ call[w].last \in Date
  BY DEF Typed, CallsTyped, CallSet
<1>2. call[w].key[1] \in Role /\ call[w].key[2] \in 1..MaxAttempt /\ MaxAttempt \in Nat
  BY <1>1, TokenAssumption DEF Attempt, TokenAssumption
<1>3. call[w].key[2] - 1 \in 1..MaxAttempt
  BY <1>2
<1> QED
  BY <1>1, <1>2, <1>3 DEF Key, Attempt

LEMMA StepKeepsClaims ==
  ASSUME Typed, ClaimedOnce, [Next]_vars
  PROVE  ClaimedOnce'
<1>0. /\ \A k \in Key : ~Fresh(k) => ~Fresh(k)'
      /\ sent \in SUBSET Key
      /\ \A v \in Worker : CallFits(v) /\ CallKnown(v)
  BY ActionsAreRowSteps, RowStepEffect DEF Typed, TokensTyped, CallsTyped, CallFits, ClaimedOnce
<1>1. ASSUME NEW v \in Worker, call'[v] = call[v], call[v].pc = "calling" => call[v].key \notin sent'
      PROVE  CallKnown(v)'
  <2>1. /\ call[v].pc \in {"calling", "waiting"} => ~Fresh(call[v].key)'
        /\ call[v].pc = "done" /\ call[v].outcome \in {"answered", "retryable"} => ~Fresh(call[v].key)'
    BY <1>0, <1>1 DEF CallFits, CallKnown, Fresh
  <2>2. ASSUME call[v].pc = "reserve", call[v].key[2] > 1
        PROVE  ~Fresh(<<call[v].key[1], call[v].key[2] - 1, call[v].last>>)'
    BY <1>0, <1>1, <2>2, AskedAfter DEF CallKnown, Fresh
  <2> QED
    BY <1>1, <2>1, <2>2 DEF CallKnown
<1>2. CASE UNCHANGED <<call, sent>>
  <2>1. \A v \in Worker : CallKnown(v)'
    BY <1>0, <1>1, <1>2 DEF CallKnown
  <2> QED
    BY <1>0, <1>2, <2>1 DEF ClaimedOnce
<1>3. ASSUME NEW w \in Worker, CallMove(w) PROVE ClaimedOnce'
  <2>0. \A v \in Worker \ {w} : call'[v] = call[v]
    BY <1>3 DEF CallMove
  <2>1. CASE /\ \/ call'[w].pc \in {"idle", "claim"}
                \/ call'[w].pc = "done" /\ call'[w].outcome \in {"unavailable", "raised"}
             /\ UNCHANGED sent
    <3>1. \A v \in Worker \ {w} : CallKnown(v)'
      BY <1>0, <1>1, <2>0, <2>1 DEF CallKnown
    <3>2. CallKnown(w)'
      BY <2>1 DEF CallKnown
    <3>3. \A v \in Worker : call'[v].pc \in {"calling", "waiting"} => v # w
      BY <2>1
    <3> QED
      BY <1>0, <2>0, <2>1, <3>1, <3>2, <3>3 DEF ClaimedOnce
  <2>2. CASE /\ call[w].pc = "claim" /\ call'[w].pc = "calling" /\ call'[w].key = call[w].key
             /\ row[call[w].key].status = "RESERVED" /\ row'[call[w].key].status = "IN_FLIGHT"
             /\ UNCHANGED sent
    <3>1. \A v \in Worker \ {w} : CallKnown(v)'
      BY <1>0, <1>1, <2>0, <2>2 DEF CallKnown
    <3>2. Fresh(call[w].key)
      BY <2>2 DEF Fresh
    <3>3. CallKnown(w)'
      BY <2>2, <3>2 DEF CallKnown, Fresh, ClaimedOnce
    <3>4. \A v \in Worker \ {w} : call[v].pc \in {"calling", "waiting"} => call[v].key # call[w].key
      BY <1>0, <3>2 DEF CallKnown
    <3> QED
      BY <1>0, <2>0, <2>2, <3>1, <3>3, <3>4 DEF ClaimedOnce
  <2>3. CASE /\ call[w].pc = "calling" /\ call'[w].pc = "waiting" /\ call'[w].key = call[w].key
             /\ sent' = sent \cup {call[w].key}
    <3>1. \A v \in Worker \ {w} : call[v].pc = "calling" => call[v].key \notin sent'
      BY <1>0, <2>3 DEF ClaimedOnce, CallKnown
    <3>2. \A v \in Worker \ {w} : CallKnown(v)'
      BY <1>1, <2>0, <3>1
    <3>3. call[w].key \in Key /\ ~Fresh(call[w].key)
      BY <1>0, <2>3 DEF CallFits, CallKnown
    <3>4. row'[call[w].key].status \notin {"NONE", "RESERVED"}
      BY <1>0, <3>3 DEF Fresh
    <3>5. CallKnown(w)'
      BY <2>3, <3>4 DEF CallKnown, Fresh
    <3>6. \A k \in sent' : ~Fresh(k)'
      BY <1>0, <2>3, <3>3 DEF ClaimedOnce
    <3> QED
      BY <2>0, <2>3, <3>2, <3>5, <3>6 DEF ClaimedOnce
  <2>4. CASE /\ call[w].pc = "waiting" /\ call'[w].pc = "done" /\ call'[w].key = call[w].key
             /\ UNCHANGED sent
    <3>1. \A v \in Worker \ {w} : CallKnown(v)'
      BY <1>0, <1>1, <2>0, <2>4 DEF CallKnown
    <3>2. call[w].key \in Key /\ ~Fresh(call[w].key)
      BY <1>0, <2>4 DEF CallFits, CallKnown
    <3>3. row'[call[w].key].status \notin {"NONE", "RESERVED"}
      BY <1>0, <3>2 DEF Fresh
    <3>4. CallKnown(w)'
      BY <2>4, <3>3 DEF CallKnown, Fresh
    <3>5. \A v \in Worker : call'[v].pc \in {"calling", "waiting"} => v # w
      BY <2>4
    <3> QED
      BY <1>0, <2>0, <2>4, <3>1, <3>4, <3>5 DEF ClaimedOnce
  <2>5. CASE /\ call'[w].pc = "reserve" /\ call'[w].key \in Role \X Attempt
             /\ call'[w].key[2] > 1 =>
                  /\ call[w].pc = "done" /\ call[w].outcome \in {"answered", "retryable"}
                  /\ call[w].key = <<call'[w].key[1], call'[w].key[2] - 1, call'[w].last>>
             /\ UNCHANGED sent
    <3>1. \A v \in Worker \ {w} : CallKnown(v)'
      BY <1>0, <1>1, <2>0, <2>5 DEF CallKnown
    <3>2. ASSUME call'[w].key[2] > 1
          PROVE  row'[<<call'[w].key[1], call'[w].key[2] - 1, call'[w].last>>].status
                   \notin {"NONE", "RESERVED"}
      <4>1. call[w].key \in Key /\ ~Fresh(call[w].key)
        BY <1>0, <2>5, <3>2 DEF CallFits, CallKnown
      <4>2. row'[call[w].key].status \notin {"NONE", "RESERVED"}
        BY <1>0, <4>1 DEF Fresh
      <4> QED
        BY <2>5, <3>2, <4>2
    <3>3. CallKnown(w)'
      BY <2>5, <3>2 DEF CallKnown, Fresh
    <3>4. \A v \in Worker : call'[v].pc \in {"calling", "waiting"} => v # w
      BY <2>5
    <3> QED
      BY <1>0, <2>0, <2>5, <3>1, <3>3, <3>4 DEF ClaimedOnce
  <2> QED
    BY <1>3, <2>1, <2>2, <2>3, <2>4, <2>5 DEF CallMove
<1> QED
  BY <1>2, <1>3, StepsAreCallMoves

(* While nobody took a reservation or a role's attempts over midnight: a date *)
(* of the table is not after today, an attempt is reserved after the one      *)
(* before it was claimed, a role has one outcome that is not known yet, and a *)
(* reservation of that role that still waits is of an earlier date.           *)
NoneAhead == \A k \in Key : row[k].status # "NONE" => k[3] <= Today

InTurn ==
  \A k, j \in Key : k[1] = j[1] /\ k[3] = j[3] /\ j[2] < k[2] /\ row[k].status # "NONE" => ~Fresh(j)

OneOpen ==
  \A k, j \in Key : k[1] = j[1] /\ row[k].status \in Unresolved /\ row[j].status \in Unresolved => k = j

OlderWaits ==
  \A k, j \in Key :
    k[1] = j[1] /\ row[k].status \in Unresolved /\ row[j].status = "RESERVED" => j[3] < k[3]

Orderly == InTurn /\ OneOpen /\ OlderWaits

(* A step that neither reserves nor claims.                                   *)
LEMMA SameShape ==
  ASSUME Orderly,
         \A k \in Key : /\ row'[k].status # "NONE" => row[k].status # "NONE"
                        /\ ~Fresh(k) => ~Fresh(k)'
                        /\ row'[k].status \in Unresolved => row[k].status \in Unresolved
                        /\ row'[k].status = "RESERVED" => row[k].status = "RESERVED"
  PROVE  Orderly'
<1>1. InTurn'
  BY DEF Orderly, InTurn, Fresh
<1>2. OneOpen' /\ OlderWaits'
  BY DEF Orderly, OneOpen, OlderWaits
<1> QED
  BY <1>1, <1>2 DEF Orderly

LEMMA ReservedInOrder ==
  ASSUME Typed, ClaimedOnce, Orderly, Reserved, ~straddled'
  PROVE  Orderly'
<1>1. PICK key \in Key :
        /\ row[key].status = "NONE" /\ key[3] = Today
        /\ ~Refused(key, Recovered(OfRole(key[1])))
        /\ row' = [Recovered(OfRole(key[1])) EXCEPT ![key].status = "RESERVED"]
        /\ \E w \in Worker : /\ call[w].pc = "reserve" /\ call[w].key = <<key[1], key[2]>>
                             /\ straddled' = (straddled \/ call[w].last # Today)
  BY DEF Reserved
<1> DEFINE rows == Recovered(OfRole(key[1]))
<1>2. /\ rows \in [Key -> RowSet]
      /\ \A k \in Key : \/ rows[k].status = row[k].status
                        \/ row[k].status = "IN_FLIGHT" /\ rows[k].status = "AMBIGUOUS"
  BY RecoveredTyped
<1>3. /\ row' = [rows EXCEPT ![key].status = "RESERVED"]
      /\ \A k \in Key : k[1] = key[1] => rows[k].status \notin Unresolved
  BY <1>1 DEF Refused, OfRole
<1> HIDE DEF rows
<1>4. row'[key].status = "RESERVED" /\ \A k \in Key \ {key} : row'[k] = rows[k]
  <2> DEFINE new == [rows[key] EXCEPT !.status = "RESERVED"]
  <2>1. row' = [rows EXCEPT ![key] = new] /\ new.status = "RESERVED"
    BY <1>2, <1>3 DEF RowSet
  <2> HIDE DEF new
  <2> QED
    BY <1>2, <2>1
<1>5. \A k \in Key \ {key} : \/ row'[k].status = row[k].status
                             \/ row[k].status = "IN_FLIGHT" /\ row'[k].status = "AMBIGUOUS"
  BY <1>2, <1>4
<1>6. \A k \in Key : ~Fresh(k) => ~Fresh(k)'
  BY <1>1, <1>5 DEF Fresh
<1>7. ASSUME NEW j \in Key, j[1] = key[1], j[3] = key[3], j[2] < key[2] PROVE ~Fresh(j)
  <2>1. PICK w \in Worker : /\ call[w].pc = "reserve" /\ call[w].key = <<key[1], key[2]>>
                            /\ call[w].last = key[3]
    BY <1>1
  <2>2. j[2] \in Nat \ {0} /\ key[2] \in Nat /\ key[2] > 1 /\ j[2] <= key[2] - 1
    BY <1>7, TokenAssumption DEF Key, Attempt, TokenAssumption
  <2> DEFINE i == <<key[1], key[2] - 1, key[3]>>
  <2>3. i \in Key /\ ~Fresh(i)
    BY <2>1, <2>2, AskedAfter DEF ClaimedOnce, CallKnown
  <2>4. CASE j[2] = key[2] - 1
    <3>1. j = i
      BY <1>7, <2>4 DEF Key
    <3> QED
      BY <2>3, <3>1
  <2>5. CASE j[2] < key[2] - 1
    <3>1. i[1] = j[1] /\ i[3] = j[3] /\ j[2] < i[2] /\ row[i].status # "NONE"
      BY <1>7, <2>3, <2>5 DEF Fresh
    <3> QED
      BY <2>3, <3>1 DEF Orderly, InTurn
  <2> QED
    BY <2>2, <2>4, <2>5
<1>8. InTurn'
  <2> SUFFICES ASSUME NEW k \in Key, NEW j \in Key, k[1] = j[1], k[3] = j[3], j[2] < k[2],
                      row'[k].status # "NONE"
               PROVE  ~Fresh(j)'
    BY DEF InTurn, Fresh
  <2>1. CASE k = key
    BY <1>6, <1>7, <2>1
  <2>2. CASE k # key
    BY <1>5, <1>6, <2>2 DEF Orderly, InTurn
  <2> QED
    BY <2>1, <2>2
<1>9. \A k \in Key : row'[k].status \in Unresolved => row[k].status \in Unresolved /\ k[1] # key[1]
  BY <1>2, <1>3, <1>4, <1>5 DEF Unresolved
<1>10. OneOpen'
  BY <1>9 DEF Orderly, OneOpen
<1>11. OlderWaits'
  BY <1>5, <1>9 DEF Orderly, OlderWaits
<1> QED
  BY <1>8, <1>10, <1>11 DEF Orderly

LEMMA ClaimedInOrder ==
  ASSUME Typed, NoneAhead, Orderly, Claimed, ~straddled'
  PROVE  Orderly'
<1>1. PICK w \in Worker, key \in Key :
        /\ row[key].status = "RESERVED"
        /\ row' = [row EXCEPT ![key].status = "IN_FLIGHT", ![key].owner = w, ![key].until = now + Lease]
        /\ straddled' = (straddled \/ key[3] # Today)
  BY DEF Claimed
<1>2. key[3] = Today /\ row \in [Key -> RowSet]
  BY <1>1 DEF Typed, TokensTyped
<1>3. /\ row'[key].status \notin {"NONE", "RESERVED"}
      /\ \A k \in Key \ {key} : row'[k] = row[k]
  <2>1. row'[key].status = "IN_FLIGHT"
    BY <1>1, <1>2 DEF RowSet
  <2> QED
    BY <1>1, <1>2, <2>1
<1>4. \A k \in Key : k[2] \in Int /\ k[3] \in Int
  BY KeysAreNumbered
<1>5. \A k \in Key : k[1] = key[1] => row[k].status \notin Unresolved
  <2> SUFFICES ASSUME NEW k \in Key, k[1] = key[1], row[k].status \in Unresolved PROVE FALSE
    OBVIOUS
  <2>1. key[3] < k[3] /\ k[3] <= Today
    BY <1>1 DEF Orderly, OlderWaits, NoneAhead, Unresolved
  <2> QED
    BY <1>2, <1>4, <2>1
<1>6. \A k \in Key : row'[k].status \in Unresolved => k = key \/ row[k].status \in Unresolved
  BY <1>3
<1>7. InTurn'
  BY <1>1, <1>3 DEF Orderly, InTurn, Fresh
<1>8. OneOpen'
  <2> SUFFICES ASSUME NEW k \in Key, NEW j \in Key, k[1] = j[1],
                      row'[k].status \in Unresolved, row'[j].status \in Unresolved
               PROVE  k = j
    BY DEF OneOpen
  <2> QED
    BY <1>5, <1>6 DEF Orderly, OneOpen
<1>9. OlderWaits'
  <2> SUFFICES ASSUME NEW k \in Key, NEW j \in Key, k[1] = j[1],
                      row'[k].status \in Unresolved, row'[j].status = "RESERVED"
               PROVE  j[3] < k[3]
    BY DEF OlderWaits
  <2>1. j # key /\ row[j].status = "RESERVED"
    BY <1>3
  <2>2. CASE k # key
    BY <1>3, <2>1, <2>2 DEF Orderly, OlderWaits
  <2>3. CASE k = key
    <3>1. j[3] <= k[3]
      BY <1>2, <2>1, <2>3 DEF NoneAhead
    <3>2. j[3] # k[3]
      <4> SUFFICES ASSUME j[3] = k[3] PROVE FALSE
        OBVIOUS
      <4>1. j[2] # k[2]
        BY <2>1, <2>3 DEF Key
      <4>2. j[2] < k[2] \/ k[2] < j[2]
        BY <1>4, <4>1
      <4>3. ~Fresh(j) \/ ~Fresh(k)
        BY <1>1, <2>1, <2>3, <4>2 DEF Orderly, InTurn
      <4> QED
        BY <1>1, <2>1, <2>3, <4>3 DEF Fresh
    <3> QED
      BY <1>4, <3>1, <3>2
  <2> QED
    BY <2>2, <2>3
<1> QED
  BY <1>7, <1>8, <1>9 DEF Orderly

(* A row that appears is of today.                                            *)
LEMMA NewRowsAreOfToday ==
  ASSUME Typed, [Next]_vars, NEW k \in Key, row'[k].status # "NONE", row[k].status = "NONE"
  PROVE  k[3] = Today
<1>0. row \in [Key -> RowSet]
  BY DEF Typed, TokensTyped
<1>1. CASE Kept
  BY <1>1 DEF Kept
<1>2. CASE GivenUp
  BY <1>2, RecoveredTyped DEF GivenUp
<1>3. CASE Reserved
  <2>1. PICK key \in Key :
          key[3] = Today /\ row' = [Recovered(OfRole(key[1])) EXCEPT ![key].status = "RESERVED"]
    BY <1>3 DEF Reserved
  <2> QED
    BY <2>1, RecoveredTyped
<1>4. CASE Claimed
  <2>1. PICK w \in Worker, key \in Key :
          /\ row[key].status = "RESERVED"
          /\ row' = [row EXCEPT ![key].status = "IN_FLIGHT", ![key].owner = w, ![key].until = now + Lease]
    BY <1>4 DEF Claimed
  <2> QED
    BY <1>0, <2>1
<1>5. CASE Ended
  <2>1. PICK key \in Key, status \in {"SETTLED", "AMBIGUOUS", "RELEASED"}, used \in Usage \cup {0} :
          /\ row[key].status \in Unresolved
          /\ row' = [row EXCEPT ![key].status = status, ![key].used = used]
    BY <1>5 DEF Ended
  <2> QED
    BY <1>0, <2>1 DEF Unresolved
<1> QED
  BY <1>1, <1>2, <1>3, <1>4, <1>5, ActionsAreRowSteps DEF RowStep

LEMMA StepKeepsOrder ==
  ASSUME Typed, ClaimedOnce, NoneAhead, ~straddled => Orderly, [Next]_vars
  PROVE  NoneAhead' /\ (~straddled' => Orderly')
<1>0. RowStep /\ row \in [Key -> RowSet]
  BY ActionsAreRowSteps DEF Typed, TokensTyped
<1>1. ~straddled' => ~straddled
  BY DEF Next, TokenNext, Start, Begin, Turn, Hear, SaveAttempt, SaveOutcome, Finish, Crash, Reserve, Claim,
         Transmit, Answered, Unclear, Unavailable, Resolve, Recover, Reconcile, Tick, vars, tokenVars
<1>2. NoneAhead'
  <2>1. Today <= Today' /\ Today \in Int /\ Today' \in Int
    <3>1. now \in Nat /\ DayLength \in Nat \ {0} /\ now' \in {now, now + 1}
      BY NowMoves, TokenAssumption DEF Tick, TokenAssumption, Typed, TokensTyped
    <3>2. now' \in Nat /\ now <= now'
      BY <3>1
    <3>3. /\ now \div DayLength \in Nat /\ now \div DayLength <= now' \div DayLength
          /\ now' \div DayLength \in Nat
      <4>1. \A m, n \in Nat : m <= n => m \div DayLength \in Nat /\ m \div DayLength <= n \div DayLength
        BY <3>1, QuotientMonotone
      <4>2. now' \div DayLength \in Nat
        BY <3>2, <4>1
      <4> QED
        BY <3>1, <3>2, <4>1, <4>2
    <3> QED
      BY <3>3 DEF Today
  <2>2. \A k \in Key : row'[k].status # "NONE" => row[k].status # "NONE" \/ k[3] = Today
    BY NewRowsAreOfToday
  <2>3. \A k \in Key : k[3] \in Int
    BY KeysAreNumbered
  <2> QED
    BY <2>1, <2>2, <2>3 DEF NoneAhead
<1>3. ASSUME ~straddled' PROVE Orderly'
  <2>0. Orderly
    BY <1>1, <1>3
  <2>1. CASE Kept
    BY <2>0, <2>1, SameShape DEF Kept, Fresh
  <2>2. CASE GivenUp
    BY <2>0, <2>2, RecoveredTyped, SameShape DEF GivenUp, Fresh, Unresolved
  <2>3. CASE Ended
    <3>1. PICK key \in Key, status \in {"SETTLED", "AMBIGUOUS", "RELEASED"}, used \in Usage \cup {0} :
            /\ row[key].status \in Unresolved
            /\ row' = [row EXCEPT ![key].status = status, ![key].used = used]
      BY <2>3 DEF Ended
    <3>2. row'[key].status = status /\ \A k \in Key \ {key} : row'[k] = row[k]
      BY <1>0, <3>1 DEF RowSet
    <3> QED
      BY <2>0, <3>1, <3>2, SameShape DEF Fresh, Unresolved
  <2> QED
    BY <1>0, <1>3, <2>0, <2>1, <2>2, <2>3, ReservedInOrder, ClaimedInOrder DEF RowStep
<1> QED
  BY <1>2, <1>3

(* No request is sent twice under one reservation, by any number of workers,  *)
(* crashes and reruns; and while the outcome of a role's call is unknown,     *)
(* nobody who holds its claim calls for that role again, unless a reservation *)
(* or a role's attempts were taken over midnight (reserve_research_tokens,    *)
(* claim_research_token_attempt).                                             *)
THEOREM ProviderNotAskedAgain == Spec => NotAskedAgain
<1> DEFINE Known == ClaimedOnce /\ NoneAhead /\ (~straddled => Orderly)
<1>1. ASSUME Init PROVE Known
  <2>1. /\ \A k \in Key : row[k].status = "NONE"
        /\ \A w \in Worker : call[w].pc = "idle"
        /\ sent = {}
    BY <1>1 DEF Init, TokenInit, NoRow, NoCall
  <2>2. ClaimedOnce
    BY <2>1 DEF ClaimedOnce, CallKnown
  <2> QED
    BY <2>1, <2>2 DEF NoneAhead, Orderly, InTurn, OneOpen, OlderWaits, Unresolved
<1>2. Typed /\ Known /\ [Next]_vars => Known'
  <2> SUFFICES ASSUME Typed, Known, [Next]_vars PROVE Known'
    OBVIOUS
  <2>1. ClaimedOnce'
    BY StepKeepsClaims
  <2>2. NoneAhead' /\ (~straddled' => Orderly')
    BY StepKeepsOrder
  <2> QED
    BY <2>1, <2>2
<1>3. ASSUME Typed, Known, NEW w \in Worker, call[w].pc = "calling"
      PROVE  call[w].key \notin sent /\ (~straddled /\ Holds(w) => ~Blind(call[w].key))
  <2>1. call[w].key \notin sent /\ call[w].key \in Key
    BY <1>3 DEF ClaimedOnce, CallKnown, Typed, CallsTyped
  <2>2. ASSUME ~straddled, Holds(w), Blind(call[w].key) PROVE FALSE
    <3>1. PICK k \in OfRole(call[w].key[1]) \ {call[w].key} : row[k].status \in Unresolved
      BY <2>2 DEF Blind
    <3>2. k \in Key /\ k[1] = call[w].key[1] /\ row[call[w].key].status \in Unresolved
      BY <2>2, <3>1 DEF OfRole, Holds, Unresolved
    <3> QED
      BY <1>3, <2>1, <2>2, <3>1, <3>2 DEF Orderly, OneOpen
  <2> QED
    BY <2>1, <2>2
<1>4. Spec => []Known
  <2> HIDE DEF Known
  <2> QED
    BY <1>1, <1>2, AlwaysTyped, PTL DEF Spec
<1>5. Typed /\ Known =>
        [\A w \in Worker :
           call[w].pc = "calling" /\ call'[w].pc = "waiting" =>
             /\ call[w].key \notin sent
             /\ ~straddled /\ Holds(w) => ~Blind(call[w].key)]_tokenVars
  BY <1>3
<1> HIDE DEF Known
<1> QED
  BY <1>4, <1>5, AlwaysTyped, PTL DEF NotAskedAgain

-----------------------------------------------------------------------------
\* The scheduled cycle.

Passes == [pc : {"idle", "symbol", "run", "abort"}, left : SUBSET Symbol, done : Nat, failed : Nat]

\* How many symbols a pass has been through, and that it ends up where it began.
PassesCount ==
    /\ cycle \in {"NONE", "RUNNING", "COMPLETED", "PARTIALLY_COMPLETE", "FAILED"}
    /\ result \in [Symbol -> {"NONE", "COMPLETED", "FAILED"}]
    /\ pass \in [Process -> Passes]
    /\ \A p \in Process :
         /\ pass[p].done + pass[p].failed + Cardinality(pass[p].left) <= Symbols
         /\ pass[p].pc = "idle" => pass[p] = AtRest
         /\ pass[p].pc = "run" => pass[p].left # {}

\* A pass that nobody overlaps knows the rows of the symbols it is through with,
\* and is only at a symbol that is not completed.
Tells(p) ==
    /\ pass[p].pc = "run" => result[This(p)] # "COMPLETED"
    /\ pass[p].pc = "abort" => \E s \in Symbol : result[s] = "FAILED"
    /\ pass[p].failed = 0 => \A s \in Symbol \ pass[p].left : result[s] # "FAILED"
    /\ pass[p].failed > 0 => \E s \in Symbol \ pass[p].left : result[s] = "FAILED"

OnePass ==
    \A p, q \in Process : pass[p].pc # "idle" /\ pass[q].pc # "idle" => p = q

PassesTell ==
    ~overlapped =>
      /\ OnePass
      /\ \A p \in Process : pass[p].pc # "idle" => Tells(p)

CycleInv == PassesCount /\ PassesTell

\* A nonempty set of naturals has a least member.
LEMMA LeastExists ==
    ASSUME NEW S \in SUBSET Nat, S # {}
    PROVE  \E m \in S : \A n \in S : m <= n
<1>1. PICK m \in S : \A n \in S : ~ (<<n, m>> \in OpToRel(<, Nat))
  BY NatLessThanWellFounded, WFMin
<1>2. \A n \in S : ~ (n < m)
  BY <1>1 DEF OpToRel
<1> QED
  BY <1>2

LEMMA ThisIsLeft ==
    ASSUME PassesCount, NEW p \in Process, pass[p].left # {}
    PROVE  This(p) \in pass[p].left
<1>1. pass[p].left \in SUBSET Nat
  BY CycleAssumption DEF PassesCount, Passes, Symbol
<1>2. \E s \in pass[p].left : \A t \in pass[p].left : s <= t
  BY <1>1, LeastExists
<1> QED
  BY <1>2 DEF This

LEMMA SymbolsFinite == IsFiniteSet(Symbol) /\ Cardinality(Symbol) = Symbols
BY CycleAssumption, FS_Interval DEF Symbol

LEMMA LeftSmaller ==
    ASSUME NEW left \in SUBSET Symbol, NEW s \in left
    PROVE  /\ Cardinality(left) \in Nat
           /\ Cardinality(left \ {s}) = Cardinality(left) - 1
BY SymbolsFinite, FS_Subset, FS_RemoveElement, FS_CardinalityType

LEMMA CountsHold == CycleInit => CycleInv
<1> SUFFICES ASSUME CycleInit PROVE CycleInv
  OBVIOUS
<1>1. AtRest \in Passes /\ Cardinality({}) = 0 /\ Symbols \in Nat
  BY FS_EmptySet, CycleAssumption DEF AtRest, Passes
<1>2. PassesCount
  BY <1>1 DEF CycleInit, PassesCount, AtRest
<1>3. PassesTell
  BY DEF CycleInit, PassesTell, OnePass, AtRest
<1> QED
  BY <1>2, <1>3 DEF CycleInv

\* What a step makes of the pass of its process.
LEMMA PassMoves ==
    ASSUME PassesCount, NEW p \in Process,
           NEW pc \in {"idle", "symbol", "run", "abort"}, NEW left \in SUBSET Symbol, NEW n \in Nat, NEW m \in Nat
    PROVE  /\ [pass EXCEPT ![p].pc = pc] \in [Process -> Passes]
           /\ [pass EXCEPT ![p].left = left, ![p].done = n] \in [Process -> Passes]
           /\ [pass EXCEPT ![p].pc = pc, ![p].left = left] \in [Process -> Passes]
           /\ [pass EXCEPT ![p].pc = pc, ![p].left = left, ![p].done = n] \in [Process -> Passes]
           /\ [pass EXCEPT ![p].pc = pc, ![p].left = left, ![p].failed = m] \in [Process -> Passes]
           /\ [pass EXCEPT ![p] = AtRest] \in [Process -> Passes]
BY CycleAssumption DEF PassesCount, Passes, AtRest

\* Counting: a step changes one pass, by a symbol or not at all.
LEMMA StepCounts ==
    ASSUME PassesCount, NEW p \in Process,
           Run(p) \/ Resume(p) \/ Look(p) \/ Save(p) \/ Mark(p) \/ Die(p)
    PROVE  /\ PassesCount'
           /\ \A q \in Process : q # p => pass'[q] = pass[q]
<1> DEFINE w == pass[p]
           s == This(p)
<1>0. /\ w \in Passes /\ w.left \in SUBSET Symbol /\ w.done \in Nat /\ w.failed \in Nat
      /\ w.done + w.failed + Cardinality(w.left) <= Symbols
  BY DEF PassesCount, Passes
<1>1. \A q \in Process : q # p => pass'[q] = pass[q]
  BY DEF PassesCount, Run, Resume, Begins, Look, Save, Mark, Die
<1>2. cycle' \in {"NONE", "RUNNING", "COMPLETED", "PARTIALLY_COMPLETE", "FAILED"}
  BY DEF PassesCount, Passes, Run, Resume, Begins, Look, Save, Mark, Die, Verdict
<1>3. ASSUME pass' \in [Process -> Passes],
             pass'[p].done + pass'[p].failed + Cardinality(pass'[p].left) <= Symbols,
             pass'[p].pc = "idle" => pass'[p] = AtRest,
             pass'[p].pc = "run" => pass'[p].left # {},
             result' \in [Symbol -> {"NONE", "COMPLETED", "FAILED"}]
      PROVE  PassesCount'
  BY <1>1, <1>2, <1>3 DEF PassesCount
<1>4. CASE Run(p) \/ Resume(p)
  <2>1. PICK symbols \in SUBSET Symbol : Begins(p, symbols)
    BY <1>4 DEF Run, Resume
  <2>2. /\ pass' = [pass EXCEPT ![p].pc = "symbol", ![p].left = symbols]
        /\ result' = result /\ w.done = 0 /\ w.failed = 0
    BY <2>1 DEF Begins, PassesCount, AtRest
  <2>3. pass' \in [Process -> Passes]
    BY <2>2, PassMoves
  <2>4. pass'[p].pc = "symbol" /\ pass'[p].left = symbols /\ pass'[p].done = 0 /\ pass'[p].failed = 0
    BY <2>2 DEF PassesCount, Passes
  <2>5. Cardinality(symbols) \in Nat /\ Cardinality(symbols) <= Symbols
    BY SymbolsFinite, FS_Subset, FS_CardinalityType
  <2> QED
    BY <1>3, <2>2, <2>3, <2>4, <2>5 DEF PassesCount
<1>5. CASE Look(p) \/ Save(p)
  <2>1. w.left # {} /\ s \in w.left /\ w.pc # "idle"
    BY <1>5, ThisIsLeft DEF Look, Save, PassesCount
  <2>2. /\ Cardinality(w.left) \in Nat
        /\ Cardinality(w.left \ {s}) = Cardinality(w.left) - 1
    BY <1>0, <2>1, LeftSmaller
  <2>6. w.left \ {s} \in SUBSET Symbol /\ w.done + 1 \in Nat /\ w.failed + 1 \in Nat
    BY <1>0
  <2>3. CASE Look(p) /\ Finished(s)
    <3>1. pass' = [pass EXCEPT ![p].left = @ \ {s}, ![p].done = @ + 1] /\ result' = result /\ w.pc = "symbol"
      BY <2>3 DEF Look
    <3>2. pass' \in [Process -> Passes]
      BY <2>6, <3>1, PassMoves
    <3>3. /\ pass'[p].left = w.left \ {s} /\ pass'[p].done = w.done + 1 /\ pass'[p].failed = w.failed
          /\ pass'[p].pc = "symbol"
      BY <3>1 DEF PassesCount, Passes
    <3> QED
      BY <1>0, <1>3, <2>2, <3>1, <3>2, <3>3 DEF PassesCount
  <2>4. CASE Look(p) /\ ~Finished(s)
    <3>1. pass' = [pass EXCEPT ![p].pc = "run"] /\ result' = result
      BY <2>4 DEF Look
    <3>2. pass' \in [Process -> Passes]
      BY <3>1, PassMoves
    <3>3. /\ pass'[p].left = w.left /\ pass'[p].done = w.done /\ pass'[p].failed = w.failed
          /\ pass'[p].pc = "run"
      BY <3>1 DEF PassesCount, Passes
    <3> QED
      BY <1>0, <1>3, <2>1, <3>1, <3>2, <3>3 DEF PassesCount
  <2>5. CASE Save(p)
    <3>1. result' \in [Symbol -> {"NONE", "COMPLETED", "FAILED"}]
      BY <2>5 DEF Save, PassesCount
    <3>2. \/ pass' = [pass EXCEPT ![p].pc = "symbol", ![p].left = @ \ {s}, ![p].done = @ + 1]
          \/ \E pc \in {"symbol", "abort"} :
               pass' = [pass EXCEPT ![p].pc = pc, ![p].left = @ \ {s}, ![p].failed = @ + 1]
      BY <2>5 DEF Save
    <3>3. pass' \in [Process -> Passes]
      <4>1. ASSUME NEW pc \in {"symbol", "abort"},
                   pass' = [pass EXCEPT ![p].pc = pc, ![p].left = @ \ {s}, ![p].failed = @ + 1]
            PROVE  pass' \in [Process -> Passes]
        BY <2>6, <4>1, PassMoves
      <4>2. CASE pass' = [pass EXCEPT ![p].pc = "symbol", ![p].left = @ \ {s}, ![p].done = @ + 1]
        BY <2>6, <4>2, PassMoves
      <4> QED
        BY <3>2, <4>1, <4>2
    <3>4. /\ pass'[p].left = w.left \ {s} /\ pass'[p].pc \in {"symbol", "abort"}
          /\ pass'[p].done + pass'[p].failed = w.done + w.failed + 1
      BY <1>0, <3>2 DEF PassesCount, Passes
    <3>5. pass'[p].done + pass'[p].failed + Cardinality(pass'[p].left) <= Symbols
      BY <1>0, <2>2, <3>4
    <3> QED
      BY <1>1, <1>3, <3>1, <3>3, <3>4, <3>5
  <2> QED
    BY <1>5, <2>3, <2>4, <2>5
<1>6. CASE Mark(p) \/ Die(p)
  <2>1. pass' = [pass EXCEPT ![p] = AtRest] /\ result' = result
    BY <1>6 DEF Mark, Die
  <2>2. pass' \in [Process -> Passes] /\ pass'[p] = AtRest
    BY <2>1, PassMoves DEF PassesCount
  <2>3. AtRest.pc = "idle" /\ AtRest.done + AtRest.failed + Cardinality(AtRest.left) <= Symbols
    BY FS_EmptySet, CycleAssumption DEF AtRest
  <2> QED
    BY <1>3, <2>1, <2>2, <2>3 DEF PassesCount
<1> QED
  BY <1>1, <1>4, <1>5, <1>6

LEMMA OverlapStays ==
    ASSUME NEW p \in Process, Run(p) \/ Resume(p) \/ Look(p) \/ Save(p) \/ Mark(p) \/ Die(p),
           ~overlapped'
    PROVE  ~overlapped
<1>1. CASE Run(p) \/ Resume(p)
  BY <1>1, Zenon DEF Run, Resume, Begins
<1>2. CASE Look(p) \/ Save(p) \/ Mark(p) \/ Die(p)
  BY <1>2, Zenon DEF Look, Save, Mark, Die
<1> QED
  BY <1>1, <1>2

\* Telling: nobody else writes a row while a pass is alone.
LEMMA StepTells ==
    ASSUME CycleInv, NEW p \in Process,
           Run(p) \/ Resume(p) \/ Look(p) \/ Save(p) \/ Mark(p) \/ Die(p)
    PROVE  PassesTell'
<1> DEFINE w == pass[p]
           s == This(p)
<1> SUFFICES ASSUME ~overlapped'
             PROVE  OnePass' /\ \A q \in Process : pass'[q].pc # "idle" => Tells(q)'
  BY DEF PassesTell
<1>0. /\ PassesCount /\ PassesCount' /\ \A q \in Process : q # p => pass'[q] = pass[q]
      /\ w \in Passes /\ w.left \in SUBSET Symbol /\ w.done \in Nat /\ w.failed \in Nat
      /\ ~overlapped
  <2>1. ~overlapped
    BY OverlapStays
  <2> QED
    BY <2>1, StepCounts DEF CycleInv, PassesCount, Passes
<1>1. OnePass /\ \A q \in Process : pass[q].pc # "idle" => Tells(q)
  BY <1>0 DEF CycleInv, PassesTell
<1>2. \A q \in Process : q # p => pass'[q].pc = "idle"
  BY <1>0, <1>1 DEF Run, Resume, Begins, Look, Save, Mark, Die, OnePass
<1>3. OnePass'
  BY <1>2 DEF OnePass
<1>4. pass'[p].pc # "idle" => Tells(p)'
  <2>1. CASE Run(p) \/ Resume(p)
    <3>1. PICK symbols \in SUBSET Symbol :
            /\ Begins(p, symbols)
            /\ \A t \in Symbol \ symbols : result[t] = "NONE"
      BY <2>1 DEF Run, Resume
    <3>2. /\ pass' = [pass EXCEPT ![p].pc = "symbol", ![p].left = symbols]
          /\ result' = result /\ w.failed = 0
      BY <1>0, <3>1 DEF Begins, PassesCount, AtRest
    <3>3. pass'[p].pc = "symbol" /\ pass'[p].left = symbols /\ pass'[p].failed = 0
      BY <1>0, <3>2 DEF PassesCount, Passes
    <3>4. pass'[p].failed = 0 /\ ~ (pass'[p].failed > 0) /\ pass'[p].pc # "run" /\ pass'[p].pc # "abort"
      BY <3>3
    <3>5. \A t \in Symbol \ pass'[p].left : result'[t] # "FAILED"
      BY <3>1, <3>2, <3>3
    <3> QED
      BY <3>4, <3>5 DEF Tells
  <2>2. CASE Look(p)
    <3>1. Tells(p) /\ result' = result /\ w.pc = "symbol" /\ s \in w.left
      BY <1>0, <1>1, <2>2, ThisIsLeft DEF Look
    <3>2. CASE Finished(s)
      <4>1. pass'[p].pc = "symbol" /\ pass'[p].left = w.left \ {s} /\ pass'[p].failed = w.failed
        BY <1>0, <2>2, <3>2 DEF Look, PassesCount, Passes
      <4>2. result[s] = "COMPLETED"
        BY <3>2 DEF Finished
      <4> HIDE DEF w, s
      <4> QED
        BY <3>1, <4>1, <4>2 DEF Tells, w
    <3>3. CASE ~Finished(s)
      <4>1. pass'[p].pc = "run" /\ pass'[p].left = w.left /\ pass'[p].failed = w.failed
        BY <1>0, <2>2, <3>3 DEF Look, PassesCount, Passes
      <4>2. This(p)' = s
        BY <4>1 DEF This
      <4>3. result'[This(p)'] # "COMPLETED"
        BY <3>1, <3>3, <4>2 DEF Finished
      <4> QED
        BY <3>1, <4>1, <4>3 DEF Tells
    <3> QED
      BY <3>2, <3>3
  <2>3. CASE Save(p)
    <3>1. Tells(p) /\ w.pc = "run" /\ s \in w.left /\ s \in Symbol
      BY <1>0, <1>1, <2>3, ThisIsLeft DEF Save, PassesCount
    <3>2. CASE /\ result' = [result EXCEPT ![s] = "COMPLETED"]
               /\ pass' = [pass EXCEPT ![p].pc = "symbol", ![p].left = @ \ {s}, ![p].done = @ + 1]
      <4>1. pass'[p].pc = "symbol" /\ pass'[p].left = w.left \ {s} /\ pass'[p].failed = w.failed
        BY <1>0, <3>2 DEF PassesCount, Passes
      <4>2. \A t \in Symbol : result'[t] = IF t = s THEN "COMPLETED" ELSE result[t]
        BY <1>0, <3>1, <3>2 DEF PassesCount
      <4> HIDE DEF s, w
      <4> QED
        BY <3>1, <4>1, <4>2 DEF Tells, w
    <3>3. CASE /\ result' = [result EXCEPT ![s] = "FAILED"]
               /\ pass' = [pass EXCEPT ![p].pc = IF goOn THEN "symbol" ELSE "abort",
                                       ![p].left = @ \ {s}, ![p].failed = @ + 1]
      <4>1. pass'[p].pc # "run" /\ pass'[p].left = w.left \ {s} /\ pass'[p].failed > 0
        BY <1>0, <3>3 DEF PassesCount, Passes
      <4>2. result'[s] = "FAILED" /\ s \in Symbol \ pass'[p].left
        BY <1>0, <3>1, <3>3, <4>1 DEF PassesCount
      <4>3. pass'[p].failed # 0
        BY <4>1
      <4> QED
        BY <3>1, <4>1, <4>2, <4>3 DEF Tells
    <3> QED
      BY <2>3, <3>2, <3>3 DEF Save
  <2>4. CASE Mark(p) \/ Die(p)
    BY <1>0, <2>4 DEF Mark, Die, PassesCount, AtRest
  <2> QED
    BY <2>1, <2>2, <2>3, <2>4
<1> QED
  BY <1>2, <1>3, <1>4

LEMMA CycleInvHolds == CycleSpec => []CycleInv
<1>1. CycleInv /\ [CycleNext]_cycleVars => CycleInv'
  <2> SUFFICES ASSUME CycleInv, [CycleNext]_cycleVars PROVE CycleInv'
    OBVIOUS
  <2>1. CASE CycleNext
    BY <2>1, StepCounts, StepTells DEF CycleNext, CycleInv
  <2>2. CASE UNCHANGED cycleVars
    BY <2>2 DEF cycleVars, CycleInv, PassesCount, PassesTell, OnePass, Tells, This
  <2> QED
    BY <2>1, <2>2
<1> QED
  BY <1>1, CountsHold, PTL DEF CycleSpec

\* A pass that finds nothing left and has counted no failure leaves no failed
\* row behind, one that stops at a failure or has counted one leaves one: so
\* the mark of the cycle (mark_cycle_finished) agrees with the rows, and no
\* completed symbol is run again, whatever passes are cut off in between.
THEOREM CycleAlwaysTells == CycleSpec => CycleTellsTruth
<1>1. CycleInv => CycleTypeOK
  BY DEF CycleInv, PassesCount, CycleTypeOK, Passes
<1>2. ASSUME CycleInv, CycleInv', [CycleNext]_cycleVars, ~overlapped'
      PROVE  /\ \A s \in Symbol : result[s] = "COMPLETED" => result'[s] = "COMPLETED"
             /\ \A p \in Process : pass[p].pc # "idle" /\ cycle' # cycle =>
                  (cycle' = "COMPLETED" <=> \A s \in Symbol : result[s] # "FAILED")
  <2>1. CASE UNCHANGED cycleVars
    BY <2>1 DEF cycleVars
  <2>2. ASSUME NEW p \in Process,
               Run(p) \/ Resume(p) \/ Look(p) \/ Save(p) \/ Mark(p) \/ Die(p)
        PROVE  /\ \A s \in Symbol : result[s] = "COMPLETED" => result'[s] = "COMPLETED"
               /\ \A q \in Process : pass[q].pc # "idle" /\ cycle' # cycle =>
                    (cycle' = "COMPLETED" <=> \A s \in Symbol : result[s] # "FAILED")
    <3>1. ~overlapped /\ PassesCount
      BY <1>2, <2>2, OverlapStays DEF CycleInv
    <3>2. OnePass /\ (pass[p].pc # "idle" => Tells(p))
      BY <1>2, <3>1 DEF CycleInv, PassesTell
    <3>3. CASE Run(p) \/ Resume(p)
      <4>1. result' = result /\ \A q \in Process : pass[q].pc = "idle"
        BY <1>2, <3>3 DEF Run, Resume, Begins
      <4> QED
        BY <4>1
    <3>4. CASE Look(p) \/ Die(p)
      BY <3>4 DEF Look, Die
    <3>5. CASE Save(p)
      <4>1. cycle' = cycle /\ result[This(p)] # "COMPLETED"
        BY <3>2, <3>5 DEF Save, Tells
      <4>2. \A s \in Symbol : s # This(p) => result'[s] = result[s]
        BY <3>1, <3>5 DEF Save, PassesCount
      <4> QED
        BY <4>1, <4>2
    <3>6. CASE Mark(p)
      <4>1. result' = result /\ pass[p].pc # "idle" /\ Tells(p) /\ pass[p].failed \in Nat
        BY <3>1, <3>2, <3>6 DEF Mark, PassesCount, Passes
      <4>2. CASE pass[p].pc = "abort"
        BY <3>6, <4>1, <4>2 DEF Mark, Verdict, Tells
      <4>3. CASE pass[p].pc # "abort" /\ pass[p].failed = 0
        BY <3>6, <4>1, <4>3 DEF Mark, Verdict, Tells
      <4>4. CASE pass[p].pc # "abort" /\ pass[p].failed > 0
        <5>1. cycle' # "COMPLETED"
          BY <3>6, <4>4 DEF Mark, Verdict
        <5> QED
          BY <4>1, <4>4, <5>1 DEF Tells
      <4> QED
        BY <4>1, <4>2, <4>3, <4>4
    <3> QED
      BY <2>2, <3>3, <3>4, <3>5, <3>6
  <2> QED
    BY <1>2, <2>1, <2>2 DEF CycleNext
<1>3. CycleInv /\ CycleInv' /\ [CycleNext]_cycleVars =>
        [/\ CycleTypeOK'
         /\ ~overlapped' =>
              /\ \A s \in Symbol : result[s] = "COMPLETED" => result'[s] = "COMPLETED"
              /\ \A p \in Process : pass[p].pc # "idle" /\ cycle' # cycle =>
                   (cycle' = "COMPLETED" <=> \A s \in Symbol : result[s] # "FAILED")]_cycleVars
  <2>1. CycleInv' => CycleTypeOK'
    BY <1>1, PTL
  <2> QED
    BY <1>2, <2>1
<1> QED
  BY <1>3, CycleInvHolds, PTL DEF CycleSpec, CycleTellsTruth
=============================================================================
