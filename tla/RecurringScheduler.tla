--------------------------- MODULE RecurringScheduler ---------------------------
(* The recurring local paper scheduler: one run row per schedule slot, a      *)
(* singleton lease in a table, and a queue of explicitly named research       *)
(* cycles.  Every process runs run_recurring_paper_scheduler; each commit of  *)
(* the code is one action, so that two processes interleave between commits   *)
(* and a process may die after any of them.                                   *)
EXTENDS Naturals, Sequences, FiniteSets

CONSTANTS
  Owner,            \* the scheduler processes, each with its own --owner-id
  Cycle,            \* completed research cycles an operator may enqueue
  NoOwner,          \* the owner column of a lease row nobody has written
  MaxSlot,          \* bound: local dates (one intended slot each)
  MaxTime,          \* bound: the audit clock
  LeaseTtl,         \* recurring.lease_ttl_seconds
  MaxRuntime,       \* recurring.maximum_runtime_seconds
  CyclesPerRun,     \* recurring.maximum_cycles_per_run
  MaxItems,         \* bound: queue rows per cycle (retries)
  MaxStarts         \* bound: runs of the scheduler that reach the lease

ASSUME SchedulerAssumption ==
  /\ NoOwner \notin Owner
  /\ MaxSlot \in Nat \ {0} /\ MaxTime \in Nat /\ MaxItems \in Nat
  /\ MaxStarts \in Nat
  /\ MaxRuntime \in Nat \ {0} /\ LeaseTtl \in Nat /\ LeaseTtl >= MaxRuntime
  /\ CyclesPerRun \in Nat \ {0}

VARIABLES
  now,          \* the audit clock
  slot,         \* the local date's intended slot
  active,       \* current_activation_state(conn).is_active
  lease,        \* the row of paper_recurring_scheduler_leases
  run,          \* paper_recurring_scheduler_runs, by slot
  queue,        \* paper_recurring_cycle_queue: the rows of a cycle, oldest first
  integrated,   \* cycles the paper books have integrated
  proc,         \* the scheduler processes
  starts,       \* the runs so far, for MaxStarts
  overlapped    \* history: two processes have worked at the same time

vars == <<now, slot, active, lease, run, queue, integrated, proc, starts, overlapped>>

Slot == 1..MaxSlot
TerminalRun == {"COMPLETED", "COMPLETED_WITH_WARNINGS", "BLOCKED_SAFETY", "FAILED"}
TerminalItem == {"PROCESSED", "FAILED", "CANCELLED"}

(* A process between two of its commits: the slot and the times it captured,  *)
(* what it read of the slot's run before the lease, the expiry of its lease   *)
(* as it last wrote it, and the cycles it claimed and integrated.             *)
Idle == [pc |-> "idle", slot |-> 0, started |-> 0, until |-> 0, seen |-> "NONE",
         claimed |-> {}, left |-> {}, done |-> {}]
NoRun == [status |-> "NONE", processed |-> {}]

(* A process works from the moment its gates passed until its last write but  *)
(* the lease: it may claim, integrate and finalise.                           *)
Working(o) == proc[o].pc \in
  {"claim", "heartbeat", "soak", "finalizeRun", "failQueue", "failRun"}

Goto(o, pc) == proc' = [proc EXCEPT ![o].pc = pc]
Holds(o) == lease.held /\ lease.owner = o

(* The queue rows, named by their cycle and their place among its retries; an *)
(* UPDATE ... WHERE changes every row that the condition holds of.            *)
Rows(q) == {r \in Cycle \X (1..MaxItems) : r[2] <= Len(q[r[1]])}
WithStatus(q, S) == {r \in Rows(q) : q[r[1]][r[2]].status \in S}
Row(q, r) == q[r[1]][r[2]]
Update(q, new) ==
  [c \in Cycle |-> [k \in DOMAIN q[c] |-> IF <<c, k>> \in DOMAIN new THEN new[<<c, k>>] ELSE q[c][k]]]

Requeued(q, rows) ==
  Update(q, [r \in rows |-> [Row(q, r) EXCEPT !.status = "QUEUED", !.by = 0, !.claimedAt = 0]])

(* A terminal row: its claim, its place in the queue and its hash are kept by *)
(* the code but never read again.                                             *)
Settled(status) == [status |-> status, by |-> 0, claimedAt |-> 0, at |-> 0, fresh |-> TRUE]

Init ==
  /\ now = 0 /\ slot = 1 /\ active = TRUE
  /\ starts = 0
  /\ lease = [owner |-> NoOwner, expires |-> 0, held |-> FALSE]
  /\ run = [s \in Slot |-> NoRun]
  /\ queue = [c \in Cycle |-> <<>>]
  /\ integrated = {}
  /\ proc = [o \in Owner |-> Idle]
  /\ overlapped = FALSE

-----------------------------------------------------------------------------
(* Operators and the rest of the system.                                      *)

(* enqueue_recurring_cycle: an active row is returned as it is, a processed   *)
(* cycle is not queued again, a failed or cancelled one may be retried.       *)
Enqueue(c) ==
  /\ Len(queue[c]) < MaxItems
  /\ \A r \in WithStatus(queue, {"QUEUED", "CLAIMED", "PROCESSED"}) : r[1] # c
  /\ queue' = [queue EXCEPT ![c] =
                 Append(@, [status |-> "QUEUED", by |-> 0, claimedAt |-> 0,
                            at |-> now, fresh |-> TRUE])]
  /\ UNCHANGED <<now, slot, active, lease, run, integrated, proc, starts, overlapped>>

(* Mutant: the status is checked when the item is loaded, not by the update.  *)
MutCancel(c) ==
  /\ \E r \in WithStatus(queue, {"QUEUED", "CLAIMED"}) :
       /\ r[1] = c
       /\ queue' = [queue EXCEPT ![c][r[2]] = Settled("CANCELLED")]
  /\ UNCHANGED <<now, slot, active, lease, run, integrated, proc, starts, overlapped>>

(* cancel_recurring_cycle: a conditional update of a row that is QUEUED.      *)
Cancel(c) ==
  /\ \E r \in WithStatus(queue, {"QUEUED"}) :
       /\ r[1] = c
       /\ queue' = [queue EXCEPT ![c][r[2]] = Settled("CANCELLED")]
  /\ UNCHANGED <<now, slot, active, lease, run, integrated, proc, starts, overlapped>>

(* Another part of the system rewrites persisted rows of the cycle: their     *)
(* hash is no longer the frozen one of its waiting row.                       *)
Rewrite(c) ==
  /\ \E r \in WithStatus(queue, {"QUEUED", "CLAIMED"}) :
       /\ r[1] = c /\ queue[c][r[2]].fresh
       /\ queue' = [queue EXCEPT ![c][r[2]].fresh = FALSE]
  /\ UNCHANGED <<now, slot, active, lease, run, integrated, proc, starts, overlapped>>

(* A new request and its approval (ActivationLog has their steps).  That an   *)
(* operator deactivates is one of the gates that fail in BeginRun.            *)
Reactivate ==
  /\ ~active /\ active' = TRUE
  /\ UNCHANGED <<now, slot, lease, run, queue, integrated, proc, starts, overlapped>>

Tick ==
  /\ now < MaxTime /\ now' = now + 1
  /\ UNCHANGED <<slot, active, lease, run, queue, integrated, proc, starts, overlapped>>

NextDay ==
  /\ slot < MaxSlot /\ now < MaxTime
  /\ slot' = slot + 1 /\ now' = now + 1
  /\ UNCHANGED <<active, lease, run, queue, integrated, proc, starts, overlapped>>

-----------------------------------------------------------------------------
(* run_recurring_paper_scheduler.                                             *)

(* Before the lease: the slot is computed, an inactive scheduler and a slot   *)
(* with a terminal run are skipped, and what the run row says is remembered.  *)
Start(o) ==
  /\ proc[o].pc = "idle"
  /\ active
  /\ starts < MaxStarts /\ starts' = starts + 1
  /\ run[slot].status \notin TerminalRun
  /\ proc' = [proc EXCEPT ![o] = [Idle EXCEPT !.pc = "acquire", !.slot = slot, !.started = now,
                                             !.seen = run[slot].status]]
  /\ UNCHANGED <<now, slot, active, lease, run, queue, integrated, overlapped>>

(* Mutant: a lease that has not expired is taken by another owner.            *)
MutLeaseConflict(o) == lease.held /\ lease.expires < proc[o].started

(* acquire_recurring_lease, whose clock is the time the process started.      *)
LeaseConflict(o) == lease.held /\ lease.expires > proc[o].started

Acquire(o) ==
  /\ proc[o].pc = "acquire"
  /\ ~LeaseConflict(o)
  /\ lease' = [owner |-> o, expires |-> proc[o].started + LeaseTtl, held |-> TRUE]
  /\ proc' = [proc EXCEPT ![o].pc = "begin", ![o].until = proc[o].started + LeaseTtl]
  /\ UNCHANGED <<now, slot, active, run, queue, integrated, starts, overlapped>>

SkipHeld(o) ==
  /\ proc[o].pc = "acquire"
  /\ LeaseConflict(o)
  /\ proc' = [proc EXCEPT ![o] = Idle]
  /\ UNCHANGED <<now, slot, active, lease, run, queue, integrated, starts, overlapped>>

(* evaluate_pre_run_safety_gates: an inactive scheduler never passes, and     *)
(* the gates on reviews, pauses, alerts, history and verification may fail.   *)
GatesMayPass == active

(* Under the lease every gate is evaluated again, then the run row is written *)
(* (or, if a run was seen before the lease, its RUNNING row is taken over).    *)
BeginRun(o) ==
  /\ proc[o].pc = "begin"
  /\ LET s == proc[o].slot IN
     run' = IF proc[o].seen = "NONE" /\ run[s].status = "NONE"
            THEN [run EXCEPT ![s].status = "RUNNING"] ELSE run
  /\ \/ /\ GatesMayPass
        /\ overlapped' = (overlapped \/ \E p \in Owner \ {o} : Working(p))
        /\ Goto(o, "claim")
     \/ Goto(o, "block") /\ UNCHANGED overlapped
  /\ UNCHANGED <<now, slot, active, lease, queue, integrated, starts>>

(* Mutant: the update does not ask for a RUNNING row.                         *)
MutFinalized(s, status, cycles) ==
  [run EXCEPT ![s].status = status, ![s].processed = cycles]

(* finalize_recurring_scheduler_run changes a RUNNING row only.               *)
Finalized(s, status, cycles) ==
  [run EXCEPT ![s] = IF @.status = "RUNNING"
                     THEN [@ EXCEPT !.status = status, !.processed = cycles] ELSE @]

Block(o) ==
  /\ proc[o].pc = "block"
  /\ run' = Finalized(proc[o].slot, "BLOCKED_SAFETY", {})
  /\ Goto(o, "pause")
  /\ UNCHANGED <<now, slot, active, lease, queue, integrated, starts, overlapped>>

(* pause_recurring_for_safety: an ACTIVE scheduler is paused, any other state *)
(* is left alone.                                                             *)
Pause(o) ==
  /\ proc[o].pc = "pause"
  /\ active' = FALSE
  /\ Goto(o, "release")
  /\ UNCHANGED <<now, slot, lease, run, queue, integrated, starts, overlapped>>

(* _claim_queue_items, one transaction: abandoned claims go back to QUEUED,   *)
(* then the oldest rows are claimed, or fail if their cycle has changed.      *)
Abandoned(o) ==
  {r \in WithStatus(queue, {"CLAIMED"}) :
     LET row == Row(queue, r) IN
     \/ row.by = proc[o].slot
     \/ row.claimedAt + LeaseTtl <= proc[o].started
     \/ run[row.by].status = "FAILED"}

Oldest(q) ==
  LET queued == WithStatus(q, {"QUEUED"})
      at(r) == q[r[1]][r[2]].at
  IN {S \in SUBSET queued :
        /\ Cardinality(S) = (IF Cardinality(queued) < CyclesPerRun
                             THEN Cardinality(queued) ELSE CyclesPerRun)
        /\ \A r \in S, other \in queued \ S : at(r) <= at(other)}

Claim(o) ==
  /\ proc[o].pc = "claim"
  /\ LET q == Requeued(queue, Abandoned(o))
         claim(row) == [row EXCEPT !.status = "CLAIMED", !.by = proc[o].slot,
                                   !.claimedAt = proc[o].started]
     IN \E S \in Oldest(q) :
          LET kept == {r \in S : Row(q, r).fresh} IN
          /\ queue' = Update(q, [r \in S |-> IF r \in kept THEN claim(Row(q, r))
                                                          ELSE Settled("FAILED")])
          /\ proc' = [proc EXCEPT ![o].pc = "heartbeat", ![o].claimed = kept,
                                   ![o].left = {r[1] : r \in kept}]
  /\ UNCHANGED <<now, slot, active, lease, run, integrated, starts, overlapped>>

(* heartbeat_recurring_lease renews a lease this owner still holds, expired   *)
(* or not; a lost lease or an exceeded runtime raises.                        *)
Heartbeat(o) ==
  /\ proc[o].pc = "heartbeat"
  /\ lease' = IF Holds(o) THEN [lease EXCEPT !.expires = now + LeaseTtl] ELSE lease
  /\ proc' = [proc EXCEPT
       ![o].pc = IF Holds(o) /\ now <= proc[o].started + MaxRuntime THEN "soak" ELSE "failQueue",
       ![o].until = IF Holds(o) THEN now + LeaseTtl ELSE @]
  /\ UNCHANGED <<now, slot, active, run, queue, integrated, starts, overlapped>>

(* run_controlled_soak_day integrates the claimed cycles one after the other; *)
(* a cycle whose integration fails is not reported as processed.              *)
Integrate(o) ==
  /\ proc[o].pc = "soak"
  /\ \E c \in proc[o].left :
       \/ /\ integrated' = integrated \cup {c}
          /\ proc' = [proc EXCEPT ![o].left = @ \ {c}, ![o].done = @ \cup {c}]
       \/ /\ proc' = [proc EXCEPT ![o].left = @ \ {c}]
          /\ UNCHANGED integrated
  /\ UNCHANGED <<now, slot, active, lease, run, queue, starts, overlapped>>

(* _finalize_queue_items: the rows are found by id, and only while CLAIMED.   *)
Unsettled(o) == proc[o].claimed \cap WithStatus(queue, {"CLAIMED"})

FinalizeQueue(o) ==
  /\ proc[o].pc = "soak" /\ proc[o].left = {}
  /\ queue' = Update(queue, [r \in Unsettled(o) |->
                 Settled(IF r[1] \in proc[o].done THEN "PROCESSED" ELSE "FAILED")])
  /\ Goto(o, "finalizeRun")
  /\ UNCHANGED <<now, slot, active, lease, run, integrated, starts, overlapped>>

(* The run's terminal status: a safety block on any post-run failure (the     *)
(* maximum runtime, the verification, a reconciliation), warnings, or success.*)
FinalizeRun(o) ==
  /\ proc[o].pc = "finalizeRun"
  /\ \E status \in {"COMPLETED", "COMPLETED_WITH_WARNINGS", "BLOCKED_SAFETY"} :
       /\ run' = Finalized(proc[o].slot, status, proc[o].done)
       /\ Goto(o, IF status = "BLOCKED_SAFETY" THEN "pause" ELSE "release")
  /\ UNCHANGED <<now, slot, active, lease, queue, integrated, starts, overlapped>>

(* The except branch, taken when the heartbeat or, at any point, the day      *)
(* raises: _release_claims_after_failure, then the run is FAILED.             *)
FailQueue(o) ==
  /\ proc[o].pc \in {"soak", "failQueue"}
  /\ queue' = Requeued(queue, Unsettled(o))
  /\ Goto(o, "failRun")
  /\ UNCHANGED <<now, slot, active, lease, run, integrated, starts, overlapped>>

FailRun(o) ==
  /\ proc[o].pc = "failRun"
  /\ run' = Finalized(proc[o].slot, "FAILED", {})
  /\ Goto(o, "release")
  /\ UNCHANGED <<now, slot, active, lease, queue, integrated, starts, overlapped>>

(* The finally branch: release_recurring_lease gives back only its own.       *)
Release(o) ==
  /\ proc[o].pc = "release"
  /\ lease' = IF Holds(o) THEN [lease EXCEPT !.held = FALSE] ELSE lease
  /\ proc' = [proc EXCEPT ![o] = Idle]
  /\ UNCHANGED <<now, slot, active, run, queue, integrated, starts, overlapped>>

(* The process dies: its rows stay as the last commit left them.  (Before the *)
(* lease it has none.)                                                        *)
Crash(o) ==
  /\ proc[o].pc \notin {"idle", "acquire"}
  /\ proc' = [proc EXCEPT ![o] = Idle]
  /\ UNCHANGED <<now, slot, active, lease, run, queue, integrated, starts, overlapped>>

Scheduler(o) ==
  \/ Start(o) \/ Acquire(o) \/ SkipHeld(o) \/ BeginRun(o) \/ Block(o) \/ Pause(o)
  \/ Claim(o) \/ Heartbeat(o) \/ Integrate(o) \/ FinalizeQueue(o)
  \/ FinalizeRun(o) \/ FailQueue(o) \/ FailRun(o) \/ Release(o)

Next ==
  \/ \E c \in Cycle : Enqueue(c) \/ Cancel(c) \/ Rewrite(c)
  \/ Reactivate \/ Tick \/ NextDay
  \/ \E o \in Owner : Scheduler(o) \/ Crash(o)

Spec == Init /\ [][Next]_vars

-----------------------------------------------------------------------------
(* Properties.                                                                *)

ItemStatus == {"QUEUED", "CLAIMED"} \cup TerminalItem
Time == 0..(MaxTime + LeaseTtl)

TypeOK ==
  /\ now \in 0..MaxTime /\ slot \in Slot
  /\ active \in BOOLEAN /\ starts \in 0..MaxStarts
  /\ lease \in [owner : Owner \cup {NoOwner}, expires : Time, held : BOOLEAN]
  /\ run \in [Slot -> [status : TerminalRun \cup {"NONE", "RUNNING"},
                       processed : SUBSET Cycle]]
  /\ \A c \in Cycle : /\ Len(queue[c]) <= MaxItems
                      /\ \A k \in DOMAIN queue[c] :
                           queue[c][k] \in [status : ItemStatus, by : 0..MaxSlot, claimedAt : 0..MaxTime,
                                            at : 0..MaxTime, fresh : BOOLEAN]
  /\ integrated \subseteq Cycle
  /\ \A o \in Owner : /\ proc[o].left \cup proc[o].done \subseteq Cycle
                      /\ proc[o].claimed \subseteq Rows(queue)
                      /\ proc[o].slot \in 0..MaxSlot /\ proc[o].started \in 0..now
  /\ overlapped \in BOOLEAN

(* A process whose lease has not run out still holds the row: nobody takes    *)
(* over, and nobody gives back, a lease that is not theirs                    *)
(* (acquire_, heartbeat_ and release_recurring_lease).                        *)
LiveLeaseKept ==
  \A o \in Owner : Working(o) /\ now < proc[o].until => Holds(o)

(* Of two processes that work at the same time one has outlived its lease:    *)
(* the lease is not a fence, but it excludes every overlap of runs that keep  *)
(* within it.  (That the other started after the first one's expiry does not  *)
(* follow: the lease is taken with the clock the process started with.)       *)
OverlapOnlyAfterExpiry ==
  \A o, p \in Owner :
    o # p /\ Working(o) /\ Working(p) => proc[o].until <= now \/ proc[p].until <= now

(* The lease excludes whoever keeps within it.                                *)
LeaseExcludes == TypeOK /\ LiveLeaseKept /\ OverlapOnlyAfterExpiry

(* Whatever is reclaimed, released or retried, a cycle has at most one row    *)
(* that a scheduler may still work on, and none once it is processed          *)
(* (uq_paper_recurring_queue_active_cycle and the conditional updates).       *)
OneActiveItem ==
  \A c \in Cycle :
    Cardinality({r \in WithStatus(queue, {"QUEUED", "CLAIMED", "PROCESSED"}) : r[1] = c}) <= 1

(* A queue row is PROCESSED only if the paper books integrated its cycle,     *)
(* whichever of two overlapping processes wrote the status.                   *)
ProcessedWasIntegrated ==
  \A r \in WithStatus(queue, {"PROCESSED"}) : r[1] \in integrated

(* Unless two processes overlapped, a cycle that a run reports as processed   *)
(* has a PROCESSED queue row: crashes, retries and reclaimed claims do not    *)
(* separate the run's evidence from the queue's.                              *)
ReportedIsSettled ==
  ~overlapped =>
    \A s \in Slot : \A c \in run[s].processed :
      \E r \in WithStatus(queue, {"PROCESSED"}) : r[1] = c

(* The paper books, the queue and the run's evidence tell the same story.     *)
QueueIsSound == OneActiveItem /\ ProcessedWasIntegrated /\ ReportedIsSettled

(* A terminal run row and a terminal queue row never change again.            *)
TerminalRowsStay ==
  [][/\ \A s \in Slot : run[s].status \in TerminalRun => run'[s] = run[s]
     /\ \A r \in WithStatus(queue, TerminalItem) : queue'[r[1]][r[2]] = queue[r[1]][r[2]]]_vars

(* What the runbook promises of a replay, "Replaying a terminal slot returns  *)
(* SKIPPED_ALREADY_COMPLETED without lifecycle mutation": no process enters   *)
(* the soak day of a slot whose run row is terminal.                          *)
TerminalSlotNotReplayed ==
  [][\A o \in Owner :
       proc[o].pc = "heartbeat" /\ proc'[o].pc = "soak" =>
         run[proc[o].slot].status \notin TerminalRun]_vars
=============================================================================
