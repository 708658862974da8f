------------------------------ MODULE ShadowCycle ------------------------------
(* run_due_shadow_cycle: one invocation resolves one slot of the calendar,    *)
(* and runs its research cycle under a lease and a budget reservation, both   *)
(* named after the slot.  Each commit of the code is one action: invocations  *)
(* interleave between commits and may die after any of them.                  *)
EXTENDS ShadowPause, Integers, Sequences, FiniteSets, FiniteSetsExt

CONSTANTS
  Days,          \* bound: the calendar has the days 1..Days, one slot a day
  TradingDay,    \* the days on which the market is open
  MaxCatchUp,    \* shadow_operations.max_catch_up_cycles
  Lookback,      \* _TOO_OLD_LOOKBACK_MARGIN_DAYS
  LeaseTtl,      \* shadow_operations.lease_ttl_seconds, in ticks
  Cap,           \* the cost cap of the month
  SlotCost,      \* the worst case of a cycle, which its reservation holds
  CallCost,      \* the worst case of one model call
  MaxCalls,      \* bound: model calls of one run
  MaxRows        \* bound: rows of shadow_scheduler_runs

ASSUME CycleAssumption ==
  /\ Days \in Nat \ {0} /\ TradingDay \subseteq Int
  /\ {MaxCatchUp, Lookback, LeaseTtl, MaxCalls, MaxRows} \subseteq Nat
  /\ {Cap, SlotCost, CallCost} \subseteq Nat

VARIABLES
  now,           \* the clock: three ticks a day
  rows,          \* shadow_scheduler_runs in the order of created_at
  lease,         \* shadow_run_leases, by slot
  resv,          \* shadow_budget_reservations, by slot, with their usage rows
  proc,          \* the invocations
  outlived,      \* history: an invocation has gone on past the end of its lease,
                 \* or of its day before it had one
  raced,         \* history: slots that were run again, or by two at a time
  distrust,      \* history: runners whose call failed structurally since the
                 \* last operator command that lets work go on
  tooOld         \* history: days on which MISSED_TOO_OLD was reported

cycleVars == <<now, rows, lease, resv, proc, outlived, raced, distrust, tooOld>>
vars == <<pauseVars, cycleVars>>

Slot == (1 - MaxCatchUp)..Days

(* The ticks of a day: before its intended time, inside its run window, and   *)
(* after the window.                                                          *)
Today == now \div 3
InWindow == now % 3 = 1
BeforeIntended == now % 3 = 0

Idle == [pc |-> "idle", slot |-> 0, row |-> 0, calls |-> 0, final |-> "FAILED", known |-> FALSE]

Inside(r) == proc[r].pc \notin {"idle", "acquire"}
Goto(r, pc) == proc' = [proc EXCEPT ![r].pc = pc]

(* A row that is not HELD: its owner and its times are not read.              *)
Released == [owner |-> "none", until |-> 0, held |-> FALSE]

RowsOf(s) == {i \in DOMAIN rows : rows[i].slot = s}

MutAnyEnd(s) == RowsOf(s) # {} /\ rows[Max(RowsOf(s))].status # "RUNNING"

(* find_scheduler_run_by_intended_schedule: the newest row of the slot.       *)
Completed(s) == RowsOf(s) # {} /\ rows[Max(RowsOf(s))].status = "COMPLETED"

EverCompleted(s) == \E i \in RowsOf(s) : rows[i].status = "COMPLETED"

-----------------------------------------------------------------------------
(* resolve_due_status.                                                        *)

Window == {s \in Slot : s \in (Today - MaxCatchUp)..Today}

Margin == {s \in Slot : s \in (Today - MaxCatchUp - Lookback)..(Today - MaxCatchUp - 1)}

(* The completed slots that _last_completed_intended_time can see, and the    *)
(* slots it leaves open: the newest completed one stands for all before it.   *)
Seen == {s \in Window \cup Margin : Completed(s)}

Open(days) == {s \in days \cap TradingDay : \A c \in Seen : c < s}

Resolution ==
  LET late == Open(Margin) open == Open(Window) IN
  IF BeforeIntended THEN [status |-> "NOT_DUE", slot |-> 0]
  ELSE IF Seen # {} /\ late # {} THEN [status |-> "MISSED_TOO_OLD", slot |-> Max(late)]
  ELSE IF open = {} THEN [status |-> "ALREADY_COMPLETED", slot |-> Today]
  ELSE IF ~InWindow THEN [status |-> "OUTSIDE_RUN_WINDOW", slot |-> Min(open)]
  ELSE [status |-> "DUE", slot |-> Min(open)]

Init ==
  /\ PauseInit
  /\ now = 4 /\ rows = <<>>
  /\ lease = [s \in Slot |-> Released]
  /\ resv = [s \in Slot |-> [status |-> "NONE", used |-> 0]]
  /\ proc = [r \in Runner |-> Idle]
  /\ outlived = FALSE /\ raced = {} /\ distrust = {} /\ tooOld = {}

(* A process whose lease has run out is not told, and nothing renews it; nor  *)
(* is one that has looked and not yet taken its lease told of the next day.   *)
Tick ==
  /\ now < 3 * Days + 1 /\ now' = now + 1
  /\ outlived' = (outlived \/ \E r \in Runner :
                    \/ Inside(r) /\ lease[proc[r].slot].until < now'
                    \/ proc[r].pc = "acquire" /\ now' % 3 = 0)
  /\ UNCHANGED <<pauseVars, rows, lease, resv, proc, raced, distrust, tooOld>>

OperatorStep(o) ==
  /\ Operate(o)
  /\ distrust' = IF Reopens(o) THEN {} ELSE distrust
  /\ UNCHANGED <<now, rows, lease, resv, proc, outlived, raced, tooOld>>

-----------------------------------------------------------------------------
(* Steps 1 to 5 of an invocation.                                             *)

(* The slot is resolved, and the run goes on when no row of the slot is       *)
(* COMPLETED and the system is neither paused nor killed.  known: whether the *)
(* cycle of the slot had been completed when this invocation looked.          *)
Invoke(r) ==
  /\ proc[r].pc = "idle"
  /\ Len(rows) + Cardinality({q \in Runner : proc[q].pc # "idle" /\ proc[q].row = 0}) < MaxRows
  /\ LET due == Resolution IN
     /\ tooOld' = IF due.status = "MISSED_TOO_OLD" THEN tooOld \cup {Today} ELSE tooOld
     /\ IF due.status = "DUE" /\ ~Completed(due.slot) /\ pause = "ACTIVE"
        THEN proc' = [proc EXCEPT ![r] = [Idle EXCEPT !.pc = "acquire", !.slot = due.slot,
                                                      !.known = EverCompleted(due.slot)]]
        ELSE UNCHANGED proc
  /\ UNCHANGED <<pauseVars, now, rows, lease, resv, outlived, raced, distrust>>

MutFree(s) == ~lease[s].held \/ lease[s].until <= now

(* Free: released, or held past its expiry.                                   *)
Free(s) == ~lease[s].held \/ lease[s].until < now

Acquire(r) ==
  LET s == proc[r].slot IN
  /\ proc[r].pc = "acquire" /\ Free(s)
  /\ lease' = [lease EXCEPT ![s] = [owner |-> r, until |-> now + LeaseTtl, held |-> TRUE]]
  /\ Goto(r, "reserve")
  /\ raced' = IF \/ EverCompleted(s) /\ ~proc[r].known
                 \/ \E q \in Runner : Inside(q) /\ proc[q].slot = s
              THEN raced \cup {s} ELSE raced
  /\ UNCHANGED <<pauseVars, now, rows, resv, outlived, distrust, tooOld>>

LeaseHeld(r) ==
  /\ proc[r].pc = "acquire" /\ ~Free(proc[r].slot)
  /\ proc' = [proc EXCEPT ![r] = Idle]
  /\ UNCHANGED <<pauseVars, now, rows, lease, resv, outlived, raced, distrust, tooOld>>

(* What the reservations have used, and what they still hold.                *)
Used == SumFunctionOnSet([s \in Slot |-> resv[s].used], Slot)

Live == SlotCost * Cardinality({s \in Slot : resv[s].status = "RESERVED"})

(* reserve_budget.  A reservation of the slot is used again whatever its      *)
(* status; for a new one the caps are read, and it is inserted afterwards.    *)
Reserve(r) ==
  LET s == proc[r].slot IN
  /\ proc[r].pc = "reserve"
  /\ IF resv[s].status # "NONE" THEN Goto(r, "start")
     ELSE /\ SlotCost <= Cap - Used - Live
          /\ Goto(r, "insert")
  /\ UNCHANGED <<pauseVars, now, rows, lease, resv, outlived, raced, distrust, tooOld>>

(* A cap would be exceeded, or no price is configured.                        *)
Reject(r) ==
  LET s == proc[r].slot IN
  /\ proc[r].pc = "reserve"
  /\ rows' = Append(rows, [slot |-> s, status |-> "BUDGET_REJECTED"])
  /\ proc' = [proc EXCEPT ![r].pc = "release", ![r].row = Len(rows')]
  /\ UNCHANGED <<pauseVars, now, lease, resv, outlived, raced, distrust, tooOld>>

(* The idempotency key is unique: the loser of two inserts raises.            *)
InsertReservation(r) ==
  LET s == proc[r].slot IN
  /\ proc[r].pc = "insert"
  /\ IF resv[s].status = "NONE"
     THEN resv' = [resv EXCEPT ![s].status = "RESERVED"] /\ Goto(r, "start")
     ELSE Goto(r, "release") /\ UNCHANGED resv
  /\ UNCHANGED <<pauseVars, now, rows, lease, outlived, raced, distrust, tooOld>>

-----------------------------------------------------------------------------
(* Steps 6 to 10.                                                             *)

StartRun(r) ==
  /\ proc[r].pc = "start"
  /\ rows' = Append(rows, [slot |-> proc[r].slot, status |-> "RUNNING"])
  /\ proc' = [proc EXCEPT ![r].pc = "work", ![r].row = Len(rows')]
  /\ UNCHANGED <<pauseVars, now, lease, resv, outlived, raced, distrust, tooOld>>

MutBeforeAttempt(r) ==
  /\ proc[r].pc = "work" /\ proc[r].calls < MaxCalls
  /\ pause = "ACTIVE"
  /\ CallCost <= SlotCost
  /\ proc' = [proc EXCEPT ![r].pc = "calling", ![r].calls = @ + 1]
  /\ UNCHANGED <<pauseVars, now, rows, lease, resv, outlived, raced, distrust, tooOld>>

MutPauseNotRead(r) ==
  /\ proc[r].pc = "work" /\ proc[r].calls < MaxCalls
  /\ CallCost <= SlotCost - resv[proc[r].slot].used
  /\ proc' = [proc EXCEPT ![r].pc = "calling", ![r].calls = @ + 1]
  /\ UNCHANGED <<pauseVars, now, rows, lease, resv, outlived, raced, distrust, tooOld>>

(* before_attempt, deciding PROCEED: the pause state is read afresh, and the  *)
(* call's worst case must fit in what the reservation has left.               *)
BeforeAttempt(r) ==
  /\ proc[r].pc = "work" /\ proc[r].calls < MaxCalls
  /\ pause = "ACTIVE"
  /\ CallCost <= SlotCost - resv[proc[r].slot].used
  /\ proc' = [proc EXCEPT ![r].pc = "calling", ![r].calls = @ + 1]
  /\ UNCHANGED <<pauseVars, now, rows, lease, resv, outlived, raced, distrust, tooOld>>

(* after_attempt: a structural failure first asks for a pause if the system   *)
(* is ACTIVE; what the provider reported is charged.                          *)
Charge(r, cost) == resv' = [resv EXCEPT ![proc[r].slot].used = @ + cost]

AfterAttempt(r) ==
  /\ proc[r].pc \in {"calling", "charge"}
  /\ \E cost \in 0..CallCost : Charge(r, cost)
  /\ Goto(r, "work")
  /\ UNCHANGED <<pauseVars, now, rows, lease, outlived, raced, distrust, tooOld>>

StructuralFailure(r) ==
  /\ proc[r].pc = "calling"
  /\ distrust' = distrust \cup {r}
  /\ Goto(r, IF pause = "ACTIVE" THEN "trip" ELSE "charge")
  /\ UNCHANGED <<pauseVars, now, rows, lease, resv, outlived, raced, tooOld>>

(* request_pause, after a call or after the health evaluation: it is refused  *)
(* when the system is KILLED, which in the first case fails what is left of   *)
(* the cycle, whose further calls would be refused, and else is ignored.      *)
Trip(r) ==
  /\ \/ /\ proc[r].pc = "trip"
        /\ \/ Ask(r, "automatic_pause") /\ Goto(r, "tripWrite")
           \/ pause = "KILLED" /\ Goto(r, "settle") /\ UNCHANGED pauseVars
     \/ /\ proc[r].pc = "health"
        /\ \/ Ask(r, "automatic_pause") /\ Goto(r, "healthWrite")
           \/ Goto(r, "release") /\ UNCHANGED pauseVars
  /\ UNCHANGED <<now, rows, lease, resv, outlived, raced, distrust, tooOld>>

TripWrite(r) ==
  /\ \/ proc[r].pc = "tripWrite" /\ Goto(r, "charge")
     \/ proc[r].pc = "healthWrite" /\ Goto(r, "release")
  /\ Write(r)
  /\ UNCHANGED <<now, rows, lease, resv, outlived, raced, distrust, tooOld>>

(* The cycle is over, by its result or by an exception; FAILED stands for     *)
(* PARTIALLY_COMPLETE too, which is treated alike.                            *)
EndCycle(r) ==
  /\ proc[r].pc = "work"
  /\ \E final \in {"COMPLETED", "FAILED"} :
       proc' = [proc EXCEPT ![r].pc = "settle", ![r].final = final]
  /\ UNCHANGED <<pauseVars, now, rows, lease, resv, outlived, raced, distrust, tooOld>>

(* settle_reservation, of a reservation in any status.                        *)
Settle(r) ==
  /\ proc[r].pc = "settle"
  /\ resv' = [resv EXCEPT ![proc[r].slot].status = "SETTLED"]
  /\ Goto(r, "update")
  /\ UNCHANGED <<pauseVars, now, rows, lease, outlived, raced, distrust, tooOld>>

(* update_scheduler_run.                                                      *)
UpdateRun(r) ==
  /\ proc[r].pc = "update"
  /\ rows' = [rows EXCEPT ![proc[r].row].status = proc[r].final]
  /\ Goto(r, "health")
  /\ UNCHANGED <<pauseVars, now, lease, resv, outlived, raced, distrust, tooOld>>

(* The finally clause: the lease is released if it is still this owner's.     *)
Release(r) ==
  LET s == proc[r].slot IN
  /\ proc[r].pc = "release"
  /\ lease' = IF lease[s].held /\ lease[s].owner = r
              THEN [lease EXCEPT ![s] = Released] ELSE lease
  /\ proc' = [proc EXCEPT ![r] = Idle]
  /\ UNCHANGED <<pauseVars, now, rows, resv, outlived, raced, distrust, tooOld>>

(* An exception that no except clause catches: the row keeps its status.      *)
Raise(r) ==
  /\ Inside(r) /\ asked[r] = "none" /\ proc[r].pc \notin {"work", "calling", "charge", "trip", "release"}
  /\ Goto(r, "release")
  /\ UNCHANGED <<pauseVars, now, rows, lease, resv, outlived, raced, distrust, tooOld>>

(* The process dies: nothing is undone, and the lease stays until it expires. *)
Crash(r) ==
  /\ proc[r].pc # "idle"
  /\ proc' = [proc EXCEPT ![r] = Idle]
  /\ asked' = [asked EXCEPT ![r] = "none"]
  /\ distrust' = distrust \ {r}
  /\ UNCHANGED <<pause, now, rows, lease, resv, outlived, raced, tooOld>>

Invocation(r) ==
  \/ Invoke(r) \/ Acquire(r) \/ LeaseHeld(r)
  \/ Reserve(r) \/ Reject(r) \/ InsertReservation(r)
  \/ StartRun(r) \/ BeforeAttempt(r) \/ AfterAttempt(r) \/ StructuralFailure(r)
  \/ Trip(r) \/ TripWrite(r) \/ EndCycle(r)
  \/ Settle(r) \/ UpdateRun(r) \/ Release(r) \/ Raise(r) \/ Crash(r)

Next ==
  \/ Tick
  \/ \E o \in Operator : OperatorStep(o)
  \/ \E r \in Runner : Invocation(r)

Spec == Init /\ [][Next]_vars

-----------------------------------------------------------------------------
(* Properties.                                                                *)

TypeOK ==
  /\ PauseTypeOK
  /\ now \in 4..(3 * Days + 1)
  /\ \A i \in DOMAIN rows : /\ rows[i].slot \in Slot
                            /\ rows[i].status \in {"RUNNING", "BUDGET_REJECTED", "COMPLETED", "FAILED"}
  /\ \A s \in Slot : /\ lease[s].held => lease[s].owner \in Runner
                     /\ resv[s].status = "NONE" => resv[s].used = 0
                     /\ resv[s].status \in {"NONE", "RESERVED", "SETTLED"}
  /\ \A r \in Runner :
       /\ proc[r].pc \in {"tripWrite", "healthWrite"} => asked[r] = "automatic_pause"
       /\ proc[r].calls <= MaxCalls
       /\ proc[r].row \in 0..Len(rows)
       /\ proc[r].pc \in {"work", "calling", "charge", "settle", "update"} => proc[r].row # 0
       /\ proc[r].row # 0 => rows[proc[r].row].slot = proc[r].slot

(* While no invocation has gone on past the end of its lease, no slot is      *)
(* worked on by two: neither a crash, nor a lease taken back, nor a release   *)
(* that comes late lets a second one in.                                      *)
OneInvocationPerSlot ==
  ~outlived => \A q, r \in Runner : Inside(q) /\ Inside(r) /\ proc[q].slot = proc[r].slot => q = r

(* As long as no slot was raced for and no invocation outlived its lease or   *)
(* its day, what is spent and what the live reservations may still spend stay *)
(* within the cap, though a retried slot spends from a reservation already    *)
(* settled.                                                                   *)
Commitment == [s \in Slot |-> IF resv[s].status = "RESERVED" THEN SlotCost ELSE resv[s].used]
Committed == SumFunctionOnSet(Commitment, Slot)
CapRespected == ~outlived /\ raced = {} => Committed <= Cap

(* While no slot has been worked on by two, no reservation is overspent, over *)
(* all the runs that share it.                                                *)
UsageWithinReservation ==
  \A s \in Slot \ raced : resv[s].used <= SlotCost

(* Neither the cap nor a reservation is overspent.                            *)
SpendingBounded == TypeOK /\ CapRespected /\ UsageWithinReservation

(* The runbook's FAQ, of an invocation after another: the cycle of a slot     *)
(* that was completed before it began is not run again, unless the slot has   *)
(* been raced for before.                                                     *)
SequentialRunsOnce ==
  \A r \in Runner : Inside(r) /\ proc[r].known => proc[r].slot \in raced

(* A slot is worked on by one invocation, at a time and after its completion. *)
SlotWorkedOnce == OneInvocationPerSlot /\ SequentialRunsOnce

(* The newest completed slot stands for all before it, and hides none that    *)
(* may still be run: an invocation that picks a slot finds every older one of *)
(* the catch-up window completed.                                             *)
ServesOldestFirst ==
  [][\A r \in Runner : proc[r].pc = "idle" /\ proc'[r].pc = "acquire" =>
       \A s \in Window \cap TradingDay : s < proc'[r].slot => EverCompleted(s)]_vars

(* A runner whose call failed structurally makes no further call, by any      *)
(* order of its pause with the operators' commands, until an operator lets    *)
(* work go on.                                                                *)
StructuralFailureStops ==
  [][\A r \in Runner : proc[r].pc = "work" /\ proc'[r].pc = "calling" => r \notin distrust]_vars

(* milestone-7.md: "Do not create two cycles for the same intended schedule   *)
(* time."                                                                     *)
CompletedNotRerun ==
  [][\A r \in Runner : proc[r].pc = "start" /\ proc'[r].pc = "work" =>
       outlived \/ ~EverCompleted(proc[r].slot)]_vars

(* milestone-7.md: "skip old cycles beyond the catch-up window".              *)
OldCyclesSkipped == outlived \/ \A d \in tooOld : d + 1 \notin tooOld
=============================================================================
