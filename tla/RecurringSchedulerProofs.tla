----------------------- MODULE RecurringSchedulerProofs -----------------------
(* Theorems about the recurring scheduler, for any number of processes,       *)
(* cycles, slots and retries, and every length of lease and run;              *)
(* about the table of its activations, for any history of calls; and about    *)
(* the levels and the exits of the positions that its cycles open.            *)
EXTENDS RecurringScheduler, ActivationLog, PositionLifecycle, SequenceTheorems, FiniteSetTheorems,
        WellFoundedInduction, SumTheorems, TLAPS

Item == [status : ItemStatus, by : 0..MaxSlot, claimedAt : 0..MaxTime, at : 0..MaxTime, fresh : BOOLEAN]
Place == Cycle \X (1..MaxItems)
Label == {"idle", "acquire", "begin", "block", "pause", "claim", "heartbeat", "soak",
          "finalizeRun", "failQueue", "failRun", "release"}
Process == [pc : Label, slot : 0..MaxSlot, started : 0..MaxTime, until : Time, seen : {"NONE", "RUNNING"},
            claimed : SUBSET Place, left : SUBSET Cycle, done : SUBSET Cycle]

(* TypeOK, with the queue's sequences and the processes' records in full.     *)
Typed ==
  /\ now \in 0..MaxTime /\ slot \in Slot
  /\ active \in BOOLEAN /\ starts \in 0..MaxStarts
  /\ lease \in [owner : Owner \cup {NoOwner}, expires : Time, held : BOOLEAN]
  /\ run \in [Slot -> [status : TerminalRun \cup {"NONE", "RUNNING"}, processed : SUBSET Cycle]]
  /\ queue \in [Cycle -> Seq(Item)]
  /\ \A c \in Cycle : Len(queue[c]) <= MaxItems
  /\ integrated \in SUBSET Cycle
  /\ proc \in [Owner -> Process]
  /\ \A o \in Owner : /\ proc[o].started <= now
                      /\ proc[o].pc # "idle" => proc[o].slot \in Slot
                      /\ proc[o].claimed \subseteq Rows(queue)
  /\ overlapped \in BOOLEAN

LEMMA TypedIsTypeOK == Typed => TypeOK
<1> SUFFICES ASSUME Typed PROVE TypeOK
  OBVIOUS
<1>1. ASSUME NEW c \in Cycle
      PROVE  /\ Len(queue[c]) <= MaxItems
             /\ \A k \in DOMAIN queue[c] :
                  queue[c][k] \in [status : ItemStatus, by : 0..MaxSlot, claimedAt : 0..MaxTime,
                                   at : 0..MaxTime, fresh : BOOLEAN]
  <2>1. queue[c] \in Seq(Item)
    BY DEF Typed
  <2> QED
    <3>1. DOMAIN queue[c] = 1..Len(queue[c])
      BY <2>1, LenProperties
    <3>2. \A k \in 1..Len(queue[c]) : queue[c][k] \in Item
      BY <2>1, ElementOfSeq
    <3> QED
      BY <3>1, <3>2 DEF Typed, Item
<1>2. ASSUME NEW o \in Owner
      PROVE  /\ proc[o].left \cup proc[o].done \subseteq Cycle
             /\ proc[o].claimed \subseteq Rows(queue)
             /\ proc[o].slot \in 0..MaxSlot /\ proc[o].started \in 0..now
  BY DEF Typed, Process
<1> QED
  BY <1>1, <1>2 DEF Typed, TypeOK

-----------------------------------------------------------------------------
(* The queue.                                                                 *)

Queues == {q \in [Cycle -> Seq(Item)] : \A c \in Cycle : Len(q[c]) <= MaxItems}

LEMMA RowTyped ==
  ASSUME NEW q \in Queues, NEW r \in Rows(q)
  PROVE  /\ r \in Place /\ r[1] \in Cycle /\ r[2] \in 1..Len(q[r[1]]) /\ r = <<r[1], r[2]>>
         /\ Row(q, r) \in Item
<1>1. r \in Place /\ r[1] \in Cycle /\ r[2] \in 1..MaxItems /\ r = <<r[1], r[2]>>
  BY DEF Rows, Place
<1>2. q[r[1]] \in Seq(Item)
  BY <1>1 DEF Queues
<1>3. r[2] \in 1..Len(q[r[1]])
  BY <1>1, <1>2, LenProperties, SchedulerAssumption DEF Rows, SchedulerAssumption
<1> QED
  BY <1>1, <1>2, <1>3, ElementOfSeq DEF Row

(* An update keeps the rows and changes the ones it is given.                 *)
LEMMA Updated ==
  ASSUME NEW q \in Queues, NEW new, \A r \in DOMAIN new : new[r] \in Item
  PROVE  /\ Update(q, new) \in Queues
         /\ Rows(Update(q, new)) = Rows(q)
         /\ \A r \in Rows(q) :
              Row(Update(q, new), r) = IF r \in DOMAIN new THEN new[r] ELSE Row(q, r)
<1> DEFINE p == Update(q, new)
<1>1. ASSUME NEW c \in Cycle
      PROVE  /\ p[c] \in Seq(Item) /\ Len(p[c]) = Len(q[c])
             /\ \A k \in 1..Len(q[c]) : p[c][k] = IF <<c, k>> \in DOMAIN new THEN new[<<c, k>>] ELSE q[c][k]
  <2>1. q[c] \in Seq(Item) /\ Len(q[c]) \in Nat /\ DOMAIN q[c] = 1..Len(q[c])
    BY LenProperties DEF Queues
  <2>2. p[c] = [k \in 1..Len(q[c]) |-> IF <<c, k>> \in DOMAIN new THEN new[<<c, k>>] ELSE q[c][k]]
    BY <2>1 DEF Update
  <2>3. \A k \in 1..Len(q[c]) : q[c][k] \in Item
    BY <2>1, ElementOfSeq
  <2>4. p[c] \in [1..Len(q[c]) -> Item]
    BY <2>2, <2>3
  <2>5. p[c] \in Seq(Item)
    BY <2>1, <2>4, SeqDef
  <2>6. Len(p[c]) = Len(q[c])
    BY <2>1, <2>4, <2>5, LenProperties
  <2> QED
    BY <2>2, <2>5, <2>6
<1>2. p \in Queues
  <2>1. p \in [Cycle -> Seq(Item)]
    BY <1>1 DEF Update
  <2> QED
    BY <1>1, <2>1 DEF Queues
<1>3. Rows(p) = Rows(q)
  BY <1>1 DEF Rows
<1>4. ASSUME NEW r \in Rows(q)
      PROVE  Row(p, r) = IF r \in DOMAIN new THEN new[r] ELSE Row(q, r)
  BY <1>1, RowTyped DEF Row
<1> QED
  BY <1>2, <1>3, <1>4

(* One row is replaced, as a conditional UPDATE by id does.                   *)
Put(q, r, item) == [q EXCEPT ![r[1]][r[2]] = item]

LEMMA Replaced ==
  ASSUME NEW q \in Queues, NEW r \in Rows(q), NEW item \in Item
  PROVE  /\ Put(q, r, item) \in Queues /\ Rows(Put(q, r, item)) = Rows(q)
         /\ \A s \in Rows(q) : Row(Put(q, r, item), s) = IF s = r THEN item ELSE Row(q, s)
<1> DEFINE c == r[1]
           p == Put(q, r, item)
<1>1. c \in Cycle /\ r[2] \in 1..Len(q[c]) /\ r = <<c, r[2]>> /\ q[c] \in Seq(Item)
  BY RowTyped DEF Queues
<1>2. p = [q EXCEPT ![c] = [q[c] EXCEPT ![r[2]] = item]]
  BY <1>1 DEF Queues, Put
<1> HIDE DEF p
<1>3. /\ [q[c] EXCEPT ![r[2]] = item] \in Seq(Item)
      /\ Len([q[c] EXCEPT ![r[2]] = item]) = Len(q[c])
      /\ \A j \in 1..Len(q[c]) : [q[c] EXCEPT ![r[2]] = item][j] = IF j = r[2] THEN item ELSE q[c][j]
  BY <1>1, ExceptSeq
<1>4. p \in Queues
  BY <1>1, <1>2, <1>3 DEF Queues
<1>5. Rows(p) = Rows(q)
  BY <1>1, <1>2, <1>3 DEF Rows, Queues
<1>6. ASSUME NEW s \in Rows(q) PROVE Row(p, s) = IF s = r THEN item ELSE Row(q, s)
  <2>1. s[1] \in Cycle /\ s[2] \in 1..Len(q[s[1]]) /\ s = <<s[1], s[2]>>
    BY RowTyped
  <2>2. CASE s[1] # c
    BY <1>1, <1>2, <2>1, <2>2 DEF Row, Queues
  <2>3. CASE s[1] = c
    BY <1>1, <1>2, <1>3, <2>1, <2>3 DEF Row, Queues
  <2> QED
    BY <2>2, <2>3
<1> QED
  BY <1>4, <1>5, <1>6 DEF p

(* A row is appended to the retries of a cycle.                               *)
Grown(q, c, item) == [q EXCEPT ![c] = Append(@, item)]
NextPlace(q, c) == <<c, Len(q[c]) + 1>>

LEMMA Appended ==
  ASSUME NEW q \in Queues, NEW c \in Cycle, NEW item \in Item, Len(q[c]) < MaxItems
  PROVE  /\ NextPlace(q, c) \in Place /\ NextPlace(q, c)[1] = c
         /\ NextPlace(q, c) \notin Rows(q)
         /\ Grown(q, c, item) \in Queues
         /\ Rows(Grown(q, c, item)) = Rows(q) \cup {NextPlace(q, c)}
         /\ \A s \in Rows(q) : Row(Grown(q, c, item), s) = Row(q, s)
         /\ Row(Grown(q, c, item), NextPlace(q, c)) = item
<1> DEFINE n == Len(q[c])
           p == Grown(q, c, item)
           r == <<c, n + 1>>
<1>1. q[c] \in Seq(Item) /\ n \in Nat /\ MaxItems \in Nat
  BY LenProperties, SchedulerAssumption DEF Queues, SchedulerAssumption
<1>2. /\ p[c] \in Seq(Item) /\ Len(p[c]) = n + 1 /\ p[c][n + 1] = item
      /\ \A k \in 1..n : p[c][k] = q[c][k]
      /\ \A d \in Cycle : d # c => p[d] = q[d]
  BY <1>1, AppendProperties DEF Queues, Grown
<1>3. p \in Queues
  <2>1. p \in [Cycle -> Seq(Item)]
    BY <1>2 DEF Queues, Grown
  <2>2. \A d \in Cycle : Len(p[d]) <= MaxItems
    BY <1>1, <1>2 DEF Queues
  <2> QED
    BY <2>1, <2>2 DEF Queues
<1>4. \A s \in Place : s = <<s[1], s[2]>> /\ s[1] \in Cycle /\ s[2] \in 1..MaxItems
  BY DEF Place
<1>5. r \in Place /\ r \notin Rows(q)
  BY <1>1 DEF Place, Rows
<1>6. ASSUME NEW s \in Place PROVE s \in Rows(p) <=> s \in Rows(q) \/ s = r
  <2>1. CASE s[1] # c
    BY <1>2, <1>4, <2>1 DEF Rows, Place
  <2>2. CASE s[1] = c
    BY <1>1, <1>2, <1>4, <2>2 DEF Rows, Place
  <2> QED
    BY <2>1, <2>2
<1>7. Rows(p) = Rows(q) \cup {r}
  BY <1>5, <1>6 DEF Rows, Place
<1>8. ASSUME NEW s \in Rows(q) PROVE Row(p, s) = Row(q, s)
  <2>1. s[1] \in Cycle /\ s[2] \in 1..Len(q[s[1]])
    BY RowTyped
  <2> QED
    BY <1>2, <2>1 DEF Row
<1> HIDE DEF p
<1>9. Row(p, r) = item
  BY <1>2 DEF Row
<1> QED
  BY <1>3, <1>5, <1>7, <1>8, <1>9 DEF p, NextPlace

-----------------------------------------------------------------------------
(* The steps of a process, as changes of its record.                          *)

LEMMA IdleTyped == Idle \in Process /\ Idle.pc = "idle" /\ Idle.claimed = {} /\ Idle.left = {} /\ Idle.done = {}
BY SchedulerAssumption DEF Idle, Process, Label, Time, SchedulerAssumption

LEMMA SchedulerMoves ==
  ASSUME Typed, NEW o \in Owner, Scheduler(o) \/ Crash(o)
  PROVE  /\ proc'[o] \in Process
         /\ proc' = [proc EXCEPT ![o] = proc'[o]]
         /\ proc'[o].started <= now
         /\ proc'[o].pc # "idle" => proc'[o].slot \in Slot
<1> DEFINE Goal == /\ proc'[o] \in Process
                   /\ proc' = [proc EXCEPT ![o] = proc'[o]]
                   /\ proc'[o].started <= now
                   /\ proc'[o].pc # "idle" => proc'[o].slot \in Slot
<1> USE SchedulerAssumption DEF SchedulerAssumption
<1>0. /\ proc \in [Owner -> Process] /\ proc[o] \in Process /\ now \in 0..MaxTime /\ slot \in Slot
      /\ proc[o].started <= now /\ (proc[o].pc # "idle" => proc[o].slot \in Slot)
  BY DEF Typed
<1>1. ASSUME NEW new \in Process, new.started <= now, new.pc # "idle" => new.slot \in Slot,
             proc' = [proc EXCEPT ![o] = new]
      PROVE  Goal
  BY <1>0, <1>1
<1>2. ASSUME NEW pc \in Label, Goto(o, pc), proc[o].pc # "idle" PROVE Goal
  <2> DEFINE new == [proc[o] EXCEPT !.pc = pc]
  <2>1. new \in Process /\ new.started = proc[o].started /\ new.slot = proc[o].slot
    BY <1>0 DEF Process
  <2>2. proc' = [proc EXCEPT ![o] = new]
    BY <1>0, <1>2 DEF Goto
  <2> QED
    BY <1>0, <1>1, <1>2, <2>1, <2>2
<1>3. ASSUME proc' = [proc EXCEPT ![o] = Idle] PROVE Goal
  BY <1>0, <1>1, <1>3, IdleTyped DEF Idle
<1>4. CASE Start(o)
  <2> DEFINE new == [Idle EXCEPT !.pc = "acquire", !.slot = slot, !.started = now,
                                 !.seen = run[slot].status]
  <2>1. proc' = [proc EXCEPT ![o] = new]
    BY <1>4 DEF Start
  <2>2. new \in Process
    <3>1. run[slot].status \in {"NONE", "RUNNING"}
      BY <1>0, <1>4 DEF Start, Typed
    <3>2. slot \in 0..MaxSlot /\ "acquire" \in Label
      BY <1>0 DEF Slot, Label
    <3>3. PICK seen \in {"NONE", "RUNNING"} : seen = run[slot].status
      BY <3>1
    <3>4. PICK base \in Process : base = Idle
      BY IdleTyped
    <3>5. [base EXCEPT !.pc = "acquire", !.slot = slot, !.started = now, !.seen = seen] \in Process
      BY <1>0, <3>2 DEF Process
    <3> QED
      BY <3>3, <3>4, <3>5
  <2>3. new.started = now /\ new.slot = slot
    BY DEF Idle
  <2>4. proc' = [proc EXCEPT ![o] = new]
    BY <2>1
  <2> HIDE DEF new
  <2> QED
    BY <1>0, <1>1, <2>2, <2>3, <2>4
<1>5. CASE Acquire(o)
  <2> DEFINE until == proc[o].started + LeaseTtl
             new == [proc[o] EXCEPT !.pc = "begin", !.until = until]
  <2>1. until \in Time /\ "begin" \in Label
    BY <1>0 DEF Process, Time, Label
  <2>2. proc' = [proc EXCEPT ![o] = new]
    BY <1>0, <1>5 DEF Acquire
  <2>3. new \in Process /\ new.started = proc[o].started /\ new.slot = proc[o].slot
    <3> HIDE DEF until
    <3> QED
      BY <1>0, <2>1 DEF Process
  <2> HIDE DEF new
  <2> QED
    BY <1>0, <1>1, <1>5, <2>2, <2>3 DEF Acquire
<1>6. CASE SkipHeld(o) \/ Release(o) \/ Crash(o)
  BY <1>3, <1>6 DEF SkipHeld, Release, Crash
<1>7. CASE BeginRun(o) \/ Block(o) \/ Pause(o) \/ FinalizeQueue(o) \/ FinalizeRun(o) \/ FailQueue(o) \/ FailRun(o)
  <2>1. \E pc \in Label : Goto(o, pc)
    BY <1>7 DEF BeginRun, Block, Pause, FinalizeQueue, FinalizeRun, FailQueue, FailRun, Label
  <2>2. proc[o].pc # "idle"
    BY <1>7 DEF BeginRun, Block, Pause, FinalizeQueue, FinalizeRun, FailQueue, FailRun
  <2> QED
    BY <1>2, <2>1, <2>2
<1>8. CASE Claim(o)
  <2>1. PICK S \in Oldest(Requeued(queue, Abandoned(o))) :
          LET kept == {r \in S : Row(Requeued(queue, Abandoned(o)), r).fresh} IN
            proc' = [proc EXCEPT ![o].pc = "heartbeat", ![o].claimed = kept,
                                 ![o].left = {r[1] : r \in kept}]
    BY <1>8 DEF Claim
  <2> DEFINE kept == {r \in S : Row(Requeued(queue, Abandoned(o)), r).fresh}
             new == [proc[o] EXCEPT !.pc = "heartbeat", !.claimed = kept, !.left = {r[1] : r \in kept}]
  <2>2. S \subseteq Place
    BY DEF Oldest, WithStatus, Rows, Place
  <2>3. kept \in SUBSET Place /\ {r[1] : r \in kept} \in SUBSET Cycle
    BY <2>2 DEF Place
  <2>4. proc' = [proc EXCEPT ![o] = new]
    BY <1>0, <2>1
  <2>5. new \in Process /\ new.started = proc[o].started /\ new.slot = proc[o].slot
    <3> HIDE DEF kept
    <3> QED
      BY <1>0, <2>3 DEF Process, Label
  <2> HIDE DEF new
  <2> QED
    BY <1>0, <1>1, <1>8, <2>4, <2>5 DEF Claim
<1>9. CASE Heartbeat(o)
  <2> DEFINE pc == IF Holds(o) /\ now <= proc[o].started + MaxRuntime THEN "soak" ELSE "failQueue"
             until == IF Holds(o) THEN now + LeaseTtl ELSE proc[o].until
             new == [proc[o] EXCEPT !.pc = pc, !.until = until]
  <2>1. pc \in Label /\ until \in Time
    BY <1>0 DEF Label, Time, Process
  <2>2. proc' = [proc EXCEPT ![o] = new]
    BY <1>0, <1>9 DEF Heartbeat
  <2>3. new \in Process /\ new.started = proc[o].started /\ new.slot = proc[o].slot
    <3> HIDE DEF pc, until
    <3> QED
      BY <1>0, <2>1 DEF Process
  <2> HIDE DEF new
  <2> QED
    BY <1>0, <1>1, <1>9, <2>2, <2>3 DEF Heartbeat
<1>10. CASE Integrate(o)
  <2>0. PICK c \in proc[o].left :
             \/ proc' = [proc EXCEPT ![o].left = @ \ {c}, ![o].done = @ \cup {c}]
             \/ proc' = [proc EXCEPT ![o].left = @ \ {c}]
    BY <1>10 DEF Integrate
  <2>1. PICK done \in {proc[o].done \cup {c}, proc[o].done} :
          proc' = [proc EXCEPT ![o] = [proc[o] EXCEPT !.left = @ \ {c}, !.done = done]]
    <3>2. CASE proc' = [proc EXCEPT ![o].left = @ \ {c}, ![o].done = @ \cup {c}]
      BY <1>0, <3>2
    <3>3. CASE proc' = [proc EXCEPT ![o].left = @ \ {c}]
      <4>1. [proc[o] EXCEPT !.left = @ \ {c}] = [proc[o] EXCEPT !.left = @ \ {c}, !.done = proc[o].done]
        BY <1>0 DEF Process
      <4> QED
        BY <1>0, <3>3, <4>1
    <3> QED
      BY <2>0, <3>2, <3>3
  <2> DEFINE new == [proc[o] EXCEPT !.left = @ \ {c}, !.done = done]
  <2>2. new \in Process /\ new.started = proc[o].started /\ new.slot = proc[o].slot
    BY <1>0 DEF Process
  <2> HIDE DEF new
  <2>3. proc' = [proc EXCEPT ![o] = new]
    BY <2>1 DEF new
  <2> QED
    BY <1>0, <1>1, <1>10, <2>2, <2>3 DEF Integrate
<1> QED
  BY <1>4, <1>5, <1>6, <1>7, <1>8, <1>9, <1>10 DEF Scheduler

-----------------------------------------------------------------------------
(* What the steps of a process leave of its record.                           *)

LEMMA GotoKeeps ==
  ASSUME proc \in [Owner -> Process], NEW o \in Owner, NEW pc, Goto(o, pc)
  PROVE  /\ proc'[o].pc = pc /\ proc'[o].slot = proc[o].slot /\ proc'[o].started = proc[o].started
         /\ proc'[o].until = proc[o].until /\ proc'[o].seen = proc[o].seen
         /\ proc'[o].claimed = proc[o].claimed /\ proc'[o].left = proc[o].left
         /\ proc'[o].done = proc[o].done
BY DEF Goto, Process

(* The program counter after a step that only moves it.                       *)
LEMMA GotoSteps ==
  ASSUME NEW o \in Owner,
         BeginRun(o) \/ Block(o) \/ Pause(o) \/ FinalizeQueue(o) \/ FinalizeRun(o) \/ FailQueue(o) \/ FailRun(o)
  PROVE  \E pc \in Label :
           /\ Goto(o, pc)
           /\ \/ BeginRun(o) /\ pc \in {"claim", "block"}
              \/ Block(o) /\ pc = "pause"
              \/ Pause(o) /\ pc = "release"
              \/ FinalizeQueue(o) /\ pc = "finalizeRun"
              \/ FinalizeRun(o) /\ pc \in {"pause", "release"}
              \/ FailQueue(o) /\ pc = "failRun"
              \/ FailRun(o) /\ pc = "release"
<1>1. CASE BeginRun(o)
  BY <1>1 DEF BeginRun, Label
<1>2. CASE FinalizeRun(o)
  BY <1>2 DEF FinalizeRun, Label
<1>3. CASE Block(o) \/ Pause(o) \/ FinalizeQueue(o) \/ FailQueue(o) \/ FailRun(o)
  BY <1>3 DEF Block, Pause, FinalizeQueue, FailQueue, FailRun, Label
<1> QED
  BY <1>1, <1>2, <1>3

LEMMA AcquireKeeps ==
  ASSUME proc \in [Owner -> Process], NEW o \in Owner, Acquire(o)
  PROVE  /\ proc'[o].pc = "begin" /\ proc'[o].until = proc[o].started + LeaseTtl
         /\ proc'[o].claimed = proc[o].claimed /\ proc'[o].left = proc[o].left
         /\ proc'[o].done = proc[o].done
BY DEF Acquire, Process

LEMMA HeartbeatKeeps ==
  ASSUME proc \in [Owner -> Process], NEW o \in Owner, Heartbeat(o)
  PROVE  /\ proc'[o].pc \in {"soak", "failQueue"}
         /\ proc'[o].until = IF Holds(o) THEN now + LeaseTtl ELSE proc[o].until
         /\ proc'[o].claimed = proc[o].claimed /\ proc'[o].left = proc[o].left
         /\ proc'[o].done = proc[o].done
<1> DEFINE pc == IF Holds(o) /\ now <= proc[o].started + MaxRuntime THEN "soak" ELSE "failQueue"
           until == IF Holds(o) THEN now + LeaseTtl ELSE proc[o].until
<1>1. proc' = [proc EXCEPT ![o] = [proc[o] EXCEPT !.pc = pc, !.until = until]]
  BY DEF Heartbeat
<1>2. pc \in {"soak", "failQueue"}
  OBVIOUS
<1> HIDE DEF pc, until
<1>3. proc'[o].pc = pc /\ proc'[o].until = until /\ proc'[o].claimed = proc[o].claimed
      /\ proc'[o].left = proc[o].left /\ proc'[o].done = proc[o].done
  BY <1>1 DEF Process
<1> QED
  BY <1>2, <1>3 DEF until

LEMMA IntegrateKeeps ==
  ASSUME proc \in [Owner -> Process], NEW o \in Owner, Integrate(o)
  PROVE  /\ proc'[o].pc = proc[o].pc /\ proc'[o].until = proc[o].until
         /\ proc'[o].claimed = proc[o].claimed
         /\ \E c \in proc[o].left :
              /\ proc'[o].left = proc[o].left \ {c}
              /\ \/ proc'[o].done = proc[o].done \cup {c} /\ integrated' = integrated \cup {c}
                 \/ proc'[o].done = proc[o].done /\ integrated' = integrated
<1>1. PICK c \in proc[o].left :
           \/ /\ integrated' = integrated \cup {c}
              /\ proc' = [proc EXCEPT ![o].left = @ \ {c}, ![o].done = @ \cup {c}]
           \/ /\ proc' = [proc EXCEPT ![o].left = @ \ {c}]
              /\ UNCHANGED integrated
  BY DEF Integrate
<1>2. CASE /\ integrated' = integrated \cup {c}
           /\ proc' = [proc EXCEPT ![o].left = @ \ {c}, ![o].done = @ \cup {c}]
  <2>1. proc' = [proc EXCEPT ![o] = [proc[o] EXCEPT !.left = @ \ {c}, !.done = @ \cup {c}]]
    BY <1>2
  <2> QED
    BY <1>2, <2>1 DEF Process
<1>3. CASE proc' = [proc EXCEPT ![o].left = @ \ {c}] /\ UNCHANGED integrated
  BY <1>3 DEF Process
<1> QED
  BY <1>1, <1>2, <1>3

LEMMA IdleAgain ==
  ASSUME proc \in [Owner -> Process], NEW o \in Owner, SkipHeld(o) \/ Release(o) \/ Crash(o)
  PROVE  proc'[o] = Idle
BY DEF SkipHeld, Release, Crash

LEMMA StartKeeps ==
  ASSUME proc \in [Owner -> Process], NEW o \in Owner, Start(o)
  PROVE  /\ proc'[o].pc = "acquire" /\ proc'[o].claimed = {} /\ proc'[o].left = {}
         /\ proc'[o].done = {}
BY DEF Start, Idle

-----------------------------------------------------------------------------
(* What a step may do to the queue.                                           *)

Open == {"QUEUED", "CLAIMED"}
Occupied == {"QUEUED", "CLAIMED", "PROCESSED"}

DoneIsIntegrated == \A o \in Owner : proc[o].done \subseteq integrated

(* Rows that are still open move on, to PROCESSED only for an integrated cycle.*)
QueueMoves ==
  /\ queue' \in Queues /\ Rows(queue') = Rows(queue)
  /\ \A r \in Rows(queue) :
       \/ Row(queue', r) = Row(queue, r)
       \/ /\ Row(queue, r).status \in Open
          /\ Row(queue', r).status = "PROCESSED" => r[1] \in integrated

(* A cycle without a row that counts gets a queued one.                       *)
QueueGrows ==
  \E r \in Place :
    /\ queue' \in Queues /\ Rows(queue') = Rows(queue) \cup {r} /\ r \notin Rows(queue)
    /\ Row(queue', r).status = "QUEUED"
    /\ \A s \in Rows(queue) : Row(queue', s) = Row(queue, s)
                              /\ (s[1] = r[1] => Row(queue, s).status \notin Occupied)

LEMMA WithStatusRows ==
  ASSUME NEW q, NEW S
  PROVE  \A r : r \in WithStatus(q, S) <=> r \in Rows(q) /\ Row(q, r).status \in S
BY DEF WithStatus, Row

LEMMA SettledTyped ==
  ASSUME NEW status \in TerminalItem PROVE Settled(status) \in Item /\ Settled(status).status = status
<1>1. 0 \in 0..MaxSlot /\ 0 \in 0..MaxTime
  BY SchedulerAssumption DEF SchedulerAssumption
<1>2. status \in ItemStatus
  BY DEF ItemStatus
<1> QED
  BY <1>1, <1>2 DEF Settled, Item

LEMMA QueueTyped == Typed => queue \in Queues
BY DEF Typed, Queues

LEMMA RequeuedRows ==
  ASSUME NEW q \in Queues, NEW A, A \subseteq WithStatus(q, {"CLAIMED"})
  PROVE  /\ Requeued(q, A) \in Queues /\ Rows(Requeued(q, A)) = Rows(q)
         /\ \A r \in Rows(q) :
              IF r \in A THEN Row(Requeued(q, A), r).status = "QUEUED" ELSE Row(Requeued(q, A), r) = Row(q, r)
<1> DEFINE new == [r \in A |-> [Row(q, r) EXCEPT !.status = "QUEUED", !.by = 0, !.claimedAt = 0]]
<1>1. A \subseteq Rows(q)
  BY WithStatusRows
<1>2. \A r \in DOMAIN new : new[r] \in Item /\ new[r].status = "QUEUED"
  <2> SUFFICES ASSUME NEW r \in A PROVE new[r] \in Item /\ new[r].status = "QUEUED"
    OBVIOUS
  <2>1. Row(q, r) \in Item
    BY <1>1, RowTyped
  <2>2. 0 \in 0..MaxSlot /\ 0 \in 0..MaxTime /\ "QUEUED" \in ItemStatus
    BY SchedulerAssumption DEF SchedulerAssumption, ItemStatus
  <2> QED
    BY <2>1, <2>2 DEF Item
<1>3. Requeued(q, A) = Update(q, new)
  BY DEF Requeued
<1> HIDE DEF new
<1>4. DOMAIN new = A
  BY DEF new
<1> QED
  BY <1>2, <1>3, <1>4, Updated

(* The operators' transactions touch no claim.                                *)
ClaimsStand == \A r \in Rows(queue) : Row(queue, r).status = "CLAIMED" => Row(queue', r).status = "CLAIMED"

LEMMA OperatorSteps ==
  ASSUME Typed, NEW c \in Cycle, Enqueue(c) \/ Cancel(c) \/ Rewrite(c)
  PROVE  (QueueMoves \/ QueueGrows) /\ ClaimsStand
<1> USE SchedulerAssumption DEF SchedulerAssumption
<1>0. queue \in Queues
  BY QueueTyped
<1>1. ASSUME Enqueue(c) PROVE QueueGrows /\ ClaimsStand
  <2> DEFINE item == [status |-> "QUEUED", by |-> 0, claimedAt |-> 0, at |-> now, fresh |-> TRUE]
  <2>1. item \in Item
    BY DEF Item, ItemStatus, Typed
  <2>2. item.status = "QUEUED"
    OBVIOUS
  <2>3. queue' = Grown(queue, c, item) /\ Len(queue[c]) < MaxItems
    BY <1>1 DEF Enqueue, Grown
  <2> HIDE DEF item
  <2> DEFINE r == NextPlace(queue, c)
  <2>4. /\ r \in Place /\ r[1] = c /\ r \notin Rows(queue)
        /\ queue' \in Queues /\ Rows(queue') = Rows(queue) \cup {r}
        /\ \A s \in Rows(queue) : Row(queue', s) = Row(queue, s)
        /\ Row(queue', r) = item
    BY <1>0, <2>1, <2>3, Appended
  <2>5. \A s \in Rows(queue) : s[1] = c => Row(queue, s).status \notin Occupied
    BY <1>1, WithStatusRows DEF Enqueue, Occupied
  <2> HIDE DEF r
  <2>6. Row(queue', r).status = "QUEUED"
    BY <2>2, <2>4
  <2> QED
    BY <2>4, <2>5, <2>6 DEF QueueGrows, ClaimsStand
<1>2. ASSUME Cancel(c) PROVE QueueMoves /\ ClaimsStand
  <2>1. PICK r \in WithStatus(queue, {"QUEUED"}) :
           r[1] = c /\ queue' = [queue EXCEPT ![c][r[2]] = Settled("CANCELLED")]
    BY <1>2 DEF Cancel
  <2>2. r \in Rows(queue) /\ Row(queue, r).status = "QUEUED"
    BY WithStatusRows
  <2>3. Settled("CANCELLED") \in Item /\ Settled("CANCELLED").status = "CANCELLED"
    BY SettledTyped DEF TerminalItem
  <2>4. queue' = Put(queue, r, Settled("CANCELLED"))
    BY <2>1 DEF Put
  <2>5. /\ queue' \in Queues /\ Rows(queue') = Rows(queue)
        /\ \A s \in Rows(queue) : Row(queue', s) = IF s = r THEN Settled("CANCELLED") ELSE Row(queue, s)
    BY <1>0, <2>2, <2>3, <2>4, Replaced
  <2> QED
    BY <2>2, <2>3, <2>5 DEF QueueMoves, Open, ClaimsStand
<1>3. ASSUME Rewrite(c) PROVE QueueMoves /\ ClaimsStand
  <2>1. PICK r \in WithStatus(queue, Open) :
           r[1] = c /\ queue' = [queue EXCEPT ![c][r[2]].fresh = FALSE]
    BY <1>3 DEF Rewrite, Open
  <2>2. r \in Rows(queue) /\ Row(queue, r).status \in Open
    BY WithStatusRows
  <2> DEFINE item == [Row(queue, r) EXCEPT !.fresh = FALSE]
  <2>3. Row(queue, r) \in Item
    BY <1>0, <2>2, RowTyped
  <2>4. item \in Item /\ item.status = Row(queue, r).status
    BY <2>3 DEF Item
  <2>5. queue' = Put(queue, r, item)
    BY <2>1 DEF Row, Put
  <2> HIDE DEF item
  <2>6. /\ queue' \in Queues /\ Rows(queue') = Rows(queue)
        /\ \A s \in Rows(queue) : Row(queue', s) = IF s = r THEN item ELSE Row(queue, s)
    BY <1>0, <2>2, <2>4, <2>5, Replaced
  <2> QED
    BY <2>2, <2>4, <2>6 DEF QueueMoves, Open, ClaimsStand
<1> QED
  BY <1>1, <1>2, <1>3

LEMMA QueueSteps ==
  ASSUME Typed, DoneIsIntegrated, [Next]_vars
  PROVE  QueueMoves \/ QueueGrows
<1> USE SchedulerAssumption DEF SchedulerAssumption
<1>0. queue \in Queues
  BY QueueTyped
<1>1. ASSUME UNCHANGED queue PROVE QueueMoves
  BY <1>0, <1>1 DEF QueueMoves
<1>3. ASSUME NEW o \in Owner, Claim(o) PROVE QueueMoves
  <2> DEFINE A == Abandoned(o)
             q == Requeued(queue, A)
             claim(row) == [row EXCEPT !.status = "CLAIMED", !.by = proc[o].slot,
                                       !.claimedAt = proc[o].started]
  <2>1. A \subseteq WithStatus(queue, {"CLAIMED"})
    BY DEF Abandoned
  <2>2. /\ q \in Queues /\ Rows(q) = Rows(queue)
        /\ \A r \in Rows(queue) :
             IF r \in A THEN Row(q, r).status = "QUEUED" ELSE Row(q, r) = Row(queue, r)
    BY <1>0, <2>1, RequeuedRows
  <2> HIDE DEF A
  <2>3. PICK S \in Oldest(q) :
           LET kept == {r \in S : Row(q, r).fresh} IN
           queue' = Update(q, [r \in S |-> IF r \in kept THEN claim(Row(q, r)) ELSE Settled("FAILED")])
    BY <1>3 DEF Claim, A
  <2> DEFINE kept == {r \in S : Row(q, r).fresh}
             new == [r \in S |-> IF r \in kept THEN claim(Row(q, r)) ELSE Settled("FAILED")]
  <2>4. \A r \in S : r \in Rows(queue) /\ Row(q, r).status = "QUEUED"
    BY <2>2, WithStatusRows DEF Oldest
  <2>5. ASSUME NEW r \in S PROVE new[r] \in Item /\ new[r].status \in {"CLAIMED", "FAILED"}
    <3>1. Row(q, r) \in Item
      BY <2>2, <2>4, RowTyped
    <3>2. proc[o].slot \in 0..MaxSlot /\ proc[o].started \in 0..MaxTime /\ "CLAIMED" \in ItemStatus
      BY DEF Typed, Process, ItemStatus
    <3>3. claim(Row(q, r)) \in Item /\ claim(Row(q, r)).status = "CLAIMED"
      BY <3>1, <3>2 DEF Item
    <3>4. Settled("FAILED") \in Item /\ Settled("FAILED").status = "FAILED"
      BY SettledTyped DEF TerminalItem
    <3> HIDE DEF claim, kept
    <3> QED
      BY <3>3, <3>4
  <2>6. DOMAIN new = S /\ queue' = Update(q, new)
    BY <2>3
  <2> HIDE DEF new, q
  <2>7. /\ queue' \in Queues /\ Rows(queue') = Rows(queue)
        /\ \A r \in Rows(queue) : Row(queue', r) = IF r \in S THEN new[r] ELSE Row(q, r)
    BY <2>2, <2>5, <2>6, Updated
  <2>8. \A r \in Rows(queue) : r \in A => Row(queue, r).status = "CLAIMED"
    BY <2>1, WithStatusRows
  <2> QED
    BY <2>2, <2>4, <2>5, <2>7, <2>8 DEF QueueMoves, Open
<1>4. ASSUME NEW o \in Owner, FinalizeQueue(o) PROVE QueueMoves
  <2> DEFINE U == Unsettled(o)
             new == [r \in U |-> Settled(IF r[1] \in proc[o].done THEN "PROCESSED" ELSE "FAILED")]
  <2>1. \A r \in U : r \in Rows(queue) /\ Row(queue, r).status = "CLAIMED"
    BY WithStatusRows DEF Unsettled
  <2>2. ASSUME NEW r \in U
        PROVE  new[r] \in Item /\ (new[r].status = "PROCESSED" => r[1] \in integrated)
    <3>1. new[r] = Settled(IF r[1] \in proc[o].done THEN "PROCESSED" ELSE "FAILED")
      OBVIOUS
    <3>2. CASE r[1] \in proc[o].done
      BY <3>1, <3>2, SettledTyped DEF TerminalItem, DoneIsIntegrated
    <3>3. CASE r[1] \notin proc[o].done
      BY <3>1, <3>3, SettledTyped DEF TerminalItem
    <3> QED
      BY <3>2, <3>3
  <2>3. DOMAIN new = U /\ queue' = Update(queue, new)
    BY <1>4 DEF FinalizeQueue
  <2> HIDE DEF new, U
  <2>4. /\ queue' \in Queues /\ Rows(queue') = Rows(queue)
        /\ \A r \in Rows(queue) : Row(queue', r) = IF r \in U THEN new[r] ELSE Row(queue, r)
    BY <1>0, <2>2, <2>3, Updated
  <2> QED
    BY <2>1, <2>2, <2>4 DEF QueueMoves, Open
<1>5. ASSUME NEW o \in Owner, FailQueue(o) PROVE QueueMoves
  <2>1. Unsettled(o) \subseteq WithStatus(queue, {"CLAIMED"})
    BY DEF Unsettled
  <2>2. queue' = Requeued(queue, Unsettled(o))
    BY <1>5 DEF FailQueue
  <2>3. \A r \in Rows(queue) : r \in Unsettled(o) => Row(queue, r).status = "CLAIMED"
    BY <2>1, WithStatusRows
  <2> QED
    BY <1>0, <2>1, <2>2, <2>3, RequeuedRows DEF QueueMoves, Open
<1>2. ASSUME NEW c \in Cycle, Enqueue(c) \/ Cancel(c) \/ Rewrite(c) PROVE QueueMoves \/ QueueGrows
  BY <1>2, OperatorSteps
<1> QED
  BY <1>1, <1>2, <1>3, <1>4, <1>5
     DEF Next, vars, Reactivate, Tick, NextDay, Scheduler, Crash, Start, Acquire, SkipHeld,
         BeginRun, Block, Pause, Heartbeat, Integrate, FinalizeRun, FailRun, Release

LEMMA RowsStay ==
  ASSUME QueueMoves \/ QueueGrows
  PROVE  /\ queue' \in Queues /\ Rows(queue) \subseteq Rows(queue')
         /\ \A r \in Rows(queue) : Row(queue, r).status \in TerminalItem => Row(queue', r) = Row(queue, r)
<1>1. CASE QueueMoves
  BY <1>1 DEF QueueMoves, TerminalItem, Open
<1>2. CASE QueueGrows
  BY <1>2 DEF QueueGrows
<1> QED
  BY <1>1, <1>2

-----------------------------------------------------------------------------
(* The types.                                                                 *)

(* What a claiming process holds is a row of the queue.                       *)
LEMMA ClaimTakesRows ==
  ASSUME Typed, NEW o \in Owner, Claim(o)
  PROVE  /\ proc'[o].claimed \subseteq Rows(queue)
         /\ proc'[o].left = {r[1] : r \in proc'[o].claimed} /\ proc'[o].done = proc[o].done
         /\ proc'[o].pc = "heartbeat" /\ proc'[o].until = proc[o].until
         /\ \A r \in proc'[o].claimed : Row(queue', r).status = "CLAIMED"
<1> DEFINE q == Requeued(queue, Abandoned(o))
           claim(row) == [row EXCEPT !.status = "CLAIMED", !.by = proc[o].slot,
                                     !.claimedAt = proc[o].started]
<1>0. proc \in [Owner -> Process] /\ proc[o] \in Process
  BY DEF Typed
<1>1. q \in Queues /\ Rows(q) = Rows(queue)
  BY QueueTyped, RequeuedRows DEF Abandoned
<1> HIDE DEF q
<1>2. PICK S \in Oldest(q) :
        LET kept == {r \in S : Row(q, r).fresh} IN
        /\ queue' = Update(q, [r \in S |-> IF r \in kept THEN claim(Row(q, r)) ELSE Settled("FAILED")])
        /\ proc' = [proc EXCEPT ![o].pc = "heartbeat", ![o].claimed = kept,
                                 ![o].left = {r[1] : r \in kept}]
  BY DEF Claim, q
<1> DEFINE kept == {r \in S : Row(q, r).fresh}
           new == [r \in S |-> IF r \in kept THEN claim(Row(q, r)) ELSE Settled("FAILED")]
<1>3. S \subseteq Rows(q)
  BY WithStatusRows DEF Oldest
<1>4. /\ proc'[o].claimed = kept /\ proc'[o].left = {r[1] : r \in kept} /\ proc'[o].done = proc[o].done
      /\ proc'[o].pc = "heartbeat" /\ proc'[o].until = proc[o].until
  <2> HIDE DEF kept, new
  <2>1. proc' = [proc EXCEPT ![o].pc = "heartbeat", ![o].claimed = kept, ![o].left = {r[1] : r \in kept}]
    BY <1>2 DEF kept
  <2> QED
    BY <1>0, <2>1 DEF Process
<1>5. ASSUME NEW r \in S PROVE new[r] \in Item /\ (r \in kept => new[r].status = "CLAIMED")
  <2>1. Row(q, r) \in Item
    BY <1>1, <1>3, RowTyped
  <2>2. proc[o].slot \in 0..MaxSlot /\ proc[o].started \in 0..MaxTime /\ "CLAIMED" \in ItemStatus
    BY <1>0 DEF Process, ItemStatus
  <2>3. claim(Row(q, r)) \in Item /\ claim(Row(q, r)).status = "CLAIMED"
    BY <2>1, <2>2 DEF Item
  <2>4. Settled("FAILED") \in Item
    BY SettledTyped DEF TerminalItem
  <2> HIDE DEF claim, kept
  <2> QED
    BY <2>3, <2>4
<1>6. DOMAIN new = S /\ queue' = Update(q, new)
  BY <1>2
<1>7. \A r \in DOMAIN new : new[r] \in Item
  BY <1>5, <1>6
<1>8. kept \subseteq S
  OBVIOUS
<1> HIDE DEF new, kept
<1>9. \A r \in Rows(q) : Row(queue', r) = IF r \in S THEN new[r] ELSE Row(q, r)
  BY <1>1, <1>6, <1>7, Updated
<1> QED
  BY <1>1, <1>3, <1>4, <1>5, <1>8, <1>9

LEMMA FinalizedTyped ==
  ASSUME run \in [Slot -> [status : TerminalRun \cup {"NONE", "RUNNING"}, processed : SUBSET Cycle]],
         NEW s \in Slot, NEW status \in TerminalRun, NEW cycles \in SUBSET Cycle
  PROVE  Finalized(s, status, cycles)
           \in [Slot -> [status : TerminalRun \cup {"NONE", "RUNNING"}, processed : SUBSET Cycle]]
BY DEF Finalized

LEMMA ClockRuns == Typed /\ [Next]_vars => now' \in 0..MaxTime /\ now' >= now
<1> SUFFICES ASSUME Typed, [Next]_vars PROVE now' \in 0..MaxTime /\ now' >= now
  OBVIOUS
<1>1. now \in 0..MaxTime /\ MaxTime \in Nat
  BY SchedulerAssumption DEF Typed, SchedulerAssumption
<1>2. now' = now \/ Tick \/ NextDay
  BY DEF Next, vars, Enqueue, Cancel, Rewrite, Reactivate, Scheduler, Crash, Start,
       Acquire, SkipHeld, BeginRun, Block, Pause, Claim, Heartbeat, Integrate, FinalizeQueue,
       FinalizeRun, FailQueue, FailRun, Release
<1> QED
  BY <1>1, <1>2 DEF Tick, NextDay

LEMMA StepTyped == Typed /\ DoneIsIntegrated /\ [Next]_vars => Typed' /\ DoneIsIntegrated'
<1> SUFFICES ASSUME Typed, DoneIsIntegrated, [Next]_vars PROVE Typed' /\ DoneIsIntegrated'
  OBVIOUS
<1> USE SchedulerAssumption DEF SchedulerAssumption
<1>0. /\ proc \in [Owner -> Process] /\ now \in 0..MaxTime /\ slot \in Slot
      /\ lease \in [owner : Owner \cup {NoOwner}, expires : Time, held : BOOLEAN]
      /\ run \in [Slot -> [status : TerminalRun \cup {"NONE", "RUNNING"}, processed : SUBSET Cycle]]
      /\ starts \in 0..MaxStarts
  BY DEF Typed
<1>1. /\ queue' \in Queues /\ Rows(queue) \subseteq Rows(queue')
  BY QueueSteps, RowsStay
<1>2. now' \in 0..MaxTime /\ now' >= now /\ slot' \in Slot /\ active' \in BOOLEAN /\ starts' \in 0..MaxStarts
  <2>3. ASSUME NEW o \in Owner, Start(o) PROVE starts' \in 0..MaxStarts
    BY <1>0, <2>3 DEF Start
  <2>5. slot' = slot \/ NextDay
    BY DEF Next, vars, Enqueue, Cancel, Rewrite, Reactivate, Tick, Scheduler, Crash, Start,
         Acquire, SkipHeld, BeginRun, Block, Pause, Claim, Heartbeat, Integrate, FinalizeQueue,
         FinalizeRun, FailQueue, FailRun, Release
  <2>6. UNCHANGED active \/ active' = TRUE \/ active' = FALSE
    BY DEF Next, vars, Enqueue, Cancel, Rewrite, Reactivate, Tick, NextDay, Scheduler, Crash, Start,
         Acquire, SkipHeld, BeginRun, Block, Pause, Claim, Heartbeat, Integrate, FinalizeQueue,
         FinalizeRun, FailQueue, FailRun, Release
  <2>7. starts' = starts \/ \E o \in Owner : Start(o)
    BY DEF Next, vars, Enqueue, Cancel, Rewrite, Reactivate, Tick, NextDay, Scheduler, Crash,
         Acquire, SkipHeld, BeginRun, Block, Pause, Claim, Heartbeat, Integrate, FinalizeQueue,
         FinalizeRun, FailQueue, FailRun, Release
  <2>8. active' \in BOOLEAN
    BY <2>6, Zenon DEF Typed
  <2>9. now' \in 0..MaxTime /\ now' >= now
    BY ClockRuns
  <2>10. slot' \in Slot
    BY <1>0, <2>5 DEF NextDay, Slot
  <2>11. starts' \in 0..MaxStarts
    BY <1>0, <2>3, <2>7
  <2> QED
    BY <2>8, <2>9, <2>10, <2>11
<1>3. overlapped' \in BOOLEAN
  <2>1. ASSUME NEW o \in Owner, BeginRun(o) PROVE overlapped' \in BOOLEAN
    <3>1. overlapped' = overlapped \/ overlapped' = (overlapped \/ \E p \in Owner \ {o} : Working(p))
      BY <2>1 DEF BeginRun
    <3> QED
      BY <3>1, Zenon DEF Typed
  <2>2. ASSUME UNCHANGED overlapped PROVE overlapped' \in BOOLEAN
    BY <2>2, Zenon DEF Typed
  <2> QED
    BY <2>1, <2>2 DEF Next, vars, Enqueue, Cancel, Rewrite, Reactivate, Tick, NextDay, Scheduler, Crash, Start,
         Acquire, SkipHeld, Block, Pause, Claim, Heartbeat, Integrate, FinalizeQueue,
         FinalizeRun, FailQueue, FailRun, Release
<1>4. lease' \in [owner : Owner \cup {NoOwner}, expires : Time, held : BOOLEAN]
  <2>1. ASSUME NEW o \in Owner, Acquire(o)
        PROVE  lease' \in [owner : Owner \cup {NoOwner}, expires : Time, held : BOOLEAN]
    <3>1. proc[o].started \in 0..MaxTime
      BY <1>0 DEF Process
    <3>2. proc[o].started + LeaseTtl \in Time
      BY <3>1 DEF Time
    <3> QED
      BY <2>1, <3>2 DEF Acquire
  <2>2. ASSUME NEW o \in Owner, Heartbeat(o)
        PROVE  lease' \in [owner : Owner \cup {NoOwner}, expires : Time, held : BOOLEAN]
    <3>1. now + LeaseTtl \in Time
      BY <1>0 DEF Time
    <3> QED
      BY <1>0, <2>2, <3>1 DEF Heartbeat
  <2>3. ASSUME NEW o \in Owner, Release(o)
        PROVE  lease' \in [owner : Owner \cup {NoOwner}, expires : Time, held : BOOLEAN]
    BY <1>0, <2>3 DEF Release
  <2>4. ASSUME UNCHANGED lease
        PROVE  lease' \in [owner : Owner \cup {NoOwner}, expires : Time, held : BOOLEAN]
    BY <1>0, <2>4
  <2> QED
    BY <2>1, <2>2, <2>3, <2>4 DEF Next, vars, Enqueue, Cancel, Rewrite, Reactivate, Tick, NextDay,
         Scheduler, Crash, Start, SkipHeld, BeginRun, Block, Pause, Claim, Integrate, FinalizeQueue,
         FinalizeRun, FailQueue, FailRun
<1>5. run' \in [Slot -> [status : TerminalRun \cup {"NONE", "RUNNING"}, processed : SUBSET Cycle]]
  <2> DEFINE Runs == [Slot -> [status : TerminalRun \cup {"NONE", "RUNNING"}, processed : SUBSET Cycle]]
  <2>1. ASSUME NEW o \in Owner, BeginRun(o) PROVE run' \in Runs
    BY <1>0, <2>1 DEF BeginRun
  <2>2. ASSUME NEW o \in Owner, Block(o) \/ FailRun(o) \/ FinalizeRun(o) PROVE run' \in Runs
    <3>1. proc[o].slot \in Slot /\ proc[o].done \in SUBSET Cycle
      BY <1>0, <2>2 DEF Typed, Process, Block, FailRun, FinalizeRun
    <3>2. \E status \in TerminalRun, cycles \in SUBSET Cycle : run' = Finalized(proc[o].slot, status, cycles)
      BY <2>2, <3>1 DEF Block, FailRun, FinalizeRun, TerminalRun
    <3> QED
      BY <1>0, <3>1, <3>2, FinalizedTyped
  <2>3. ASSUME UNCHANGED run PROVE run' \in Runs
    BY <1>0, <2>3
  <2> QED
    BY <2>1, <2>2, <2>3 DEF Next, vars, Enqueue, Cancel, Rewrite, Reactivate, Tick, NextDay,
         Scheduler, Crash, Start, Acquire, SkipHeld, Pause, Claim, Heartbeat, Integrate, FinalizeQueue,
         FailQueue, Release
<1>6. ASSUME UNCHANGED proc, UNCHANGED integrated PROVE Typed' /\ DoneIsIntegrated'
  <2>1. proc' \in [Owner -> Process] /\ integrated' \in SUBSET Cycle /\ DoneIsIntegrated'
    BY <1>0, <1>6 DEF Typed, DoneIsIntegrated
  <2>2. ASSUME NEW p \in Owner
        PROVE  /\ proc'[p].started <= now'
               /\ proc'[p].pc # "idle" => proc'[p].slot \in Slot
               /\ proc'[p].claimed \subseteq Rows(queue')
    <3>1. proc[p].started \in 0..MaxTime
      BY <1>0 DEF Process
    <3> QED
      BY <1>0, <1>1, <1>2, <1>6, <3>1 DEF Typed
  <2> QED
    BY <1>1, <1>2, <1>3, <1>4, <1>5, <2>1, <2>2 DEF Typed, Queues
<1>7. ASSUME NEW o \in Owner, Scheduler(o) \/ Crash(o) PROVE Typed' /\ DoneIsIntegrated'
  <2>1. /\ proc'[o] \in Process /\ proc' = [proc EXCEPT ![o] = proc'[o]]
        /\ proc'[o].started <= now /\ (proc'[o].pc # "idle" => proc'[o].slot \in Slot)
    BY <1>7, SchedulerMoves
  <2>2. proc'[o].claimed \subseteq Rows(queue)
    <3>1. CASE Claim(o)
      BY <3>1, ClaimTakesRows
    <3>2. ASSUME proc'[o] = Idle PROVE proc'[o].claimed \subseteq Rows(queue)
      BY <3>2, IdleTyped
    <3>3. CASE Start(o)
      BY <1>0, <3>3, StartKeeps
    <3>4. ASSUME proc'[o].claimed = proc[o].claimed PROVE proc'[o].claimed \subseteq Rows(queue)
      BY <3>4 DEF Typed
    <3>5. proc[o] \in Process
      BY <1>0
    <3>6. CASE SkipHeld(o) \/ Release(o) \/ Crash(o)
      BY <1>0, <3>2, <3>6 DEF SkipHeld, Release, Crash
    <3>7. CASE Acquire(o) \/ Heartbeat(o) \/ Integrate(o)
      BY <1>0, <3>4, <3>7, AcquireKeeps, HeartbeatKeeps, IntegrateKeeps
    <3>8. CASE BeginRun(o) \/ Block(o) \/ Pause(o) \/ FinalizeQueue(o) \/ FinalizeRun(o) \/ FailQueue(o) \/ FailRun(o)
      BY <1>0, <3>4, <3>8, GotoSteps, GotoKeeps
    <3> QED
      BY <1>7, <3>1, <3>3, <3>6, <3>7, <3>8 DEF Scheduler
  <2>3. integrated' \in SUBSET Cycle /\ integrated \subseteq integrated' /\ proc'[o].done \subseteq integrated'
    <3>1. integrated \in SUBSET Cycle /\ proc[o].done \subseteq integrated /\ proc[o] \in Process
      BY <1>0 DEF Typed, DoneIsIntegrated
    <3>2. CASE Integrate(o)
      <4>1. proc[o].left \subseteq Cycle
        BY <3>1 DEF Process
      <4> QED
        BY <1>0, <3>1, <3>2, <4>1, IntegrateKeeps
    <3>3. CASE Claim(o)
      BY <3>1, <3>3, ClaimTakesRows DEF Claim
    <3>4. ASSUME UNCHANGED integrated, proc'[o].done \in {proc[o].done, {}}
          PROVE  integrated' \in SUBSET Cycle /\ integrated \subseteq integrated' /\ proc'[o].done \subseteq integrated'
      BY <3>1, <3>4
    <3>5. CASE Start(o)
      BY <1>0, <3>4, <3>5, StartKeeps DEF Start
    <3>6. CASE SkipHeld(o) \/ Release(o) \/ Crash(o)
      BY <1>0, <3>4, <3>6, IdleTyped DEF SkipHeld, Release, Crash
    <3>7. CASE Acquire(o) \/ Heartbeat(o)
      BY <1>0, <3>4, <3>7, AcquireKeeps, HeartbeatKeeps DEF Acquire, Heartbeat
    <3>8. CASE BeginRun(o) \/ Block(o) \/ Pause(o) \/ FinalizeQueue(o) \/ FinalizeRun(o) \/ FailQueue(o) \/ FailRun(o)
      <4>1. UNCHANGED integrated
        BY <3>8 DEF BeginRun, Block, Pause, FinalizeQueue, FinalizeRun, FailQueue, FailRun
      <4> QED
        BY <1>0, <3>4, <3>8, <4>1, GotoSteps, GotoKeeps
    <3> QED
      BY <1>7, <3>2, <3>3, <3>5, <3>6, <3>7, <3>8 DEF Scheduler
  <2>4. proc' \in [Owner -> Process] /\ \A p \in Owner \ {o} : proc'[p] = proc[p]
    BY <1>0, <2>1
  <2>5. ASSUME NEW p \in Owner
        PROVE  /\ proc'[p].started <= now'
               /\ proc'[p].pc # "idle" => proc'[p].slot \in Slot
               /\ proc'[p].claimed \subseteq Rows(queue')
               /\ proc'[p].done \subseteq integrated'
    <3>1. CASE p = o
      <4>1. proc'[o].started \in 0..MaxTime
        BY <2>1 DEF Process
      <4> QED
        BY <1>0, <1>1, <1>2, <2>1, <2>2, <2>3, <3>1, <4>1
    <3>2. CASE p # o
      <4>1. proc[p].started \in 0..MaxTime
        BY <1>0 DEF Process
      <4> QED
        BY <1>0, <1>1, <1>2, <2>3, <2>4, <3>2, <4>1 DEF Typed, DoneIsIntegrated
    <3> QED
      BY <3>1, <3>2
  <2> QED
    BY <1>1, <1>2, <1>3, <1>4, <1>5, <2>3, <2>4, <2>5 DEF Typed, DoneIsIntegrated, Queues
<1> QED
  BY <1>6, <1>7 DEF Next, vars, Enqueue, Cancel, Rewrite, Reactivate, Tick, NextDay
-----------------------------------------------------------------------------
(* The lease.                                                                 *)

Under(o) == proc[o].pc = "begin" \/ Working(o)

(* Whoever works under a lease that has not run out has the row, and whoever  *)
(* has the row knows when it runs out.                                        *)
LeaseInv ==
  \A o \in Owner : Under(o) => /\ now < proc[o].until => Holds(o)
                               /\ Holds(o) => lease.expires = proc[o].until

LEMMA LeaseSteps ==
  ASSUME Typed, LeaseInv, NEW o \in Owner, Scheduler(o) \/ Crash(o), NEW p \in Owner, Under(p)'
  PROVE  /\ now < proc'[p].until => Holds(p)'
         /\ Holds(p)' => lease'.expires = proc'[p].until
<1> DEFINE Goal == /\ now < proc'[p].until => Holds(p)'
                   /\ Holds(p)' => lease'.expires = proc'[p].until
<1> USE SchedulerAssumption DEF SchedulerAssumption
<1>0. /\ proc \in [Owner -> Process] /\ now \in Nat
      /\ proc[p].until \in Nat /\ proc[o].until \in Nat
      /\ proc[o].started \in Nat /\ proc[o].started <= now
      /\ lease \in [owner : Owner \cup {NoOwner}, expires : Time, held : BOOLEAN]
      /\ lease.expires \in Nat
  BY DEF Typed, Process, Time
<1>1. Under(p)' => proc'[p].pc \in {"begin", "claim", "heartbeat", "soak", "finalizeRun", "failQueue", "failRun"}
  BY DEF Under, Working
<1>2. proc[p].pc \in {"begin", "claim", "heartbeat", "soak", "finalizeRun", "failQueue", "failRun"} => Under(p)
  BY DEF Under, Working
<1>3. p # o => proc'[p] = proc[p]
  BY <1>0, SchedulerMoves
<1>4. ASSUME UNCHANGED lease PROVE Holds(p)' <=> Holds(p)
  BY <1>4 DEF Holds
<1>5. ASSUME UNCHANGED lease, proc'[o].until = proc[o].until, p = o => Under(p) PROVE Goal
  BY <1>1, <1>2, <1>3, <1>4, <1>5 DEF LeaseInv
<1>6. CASE Start(o) \/ SkipHeld(o) \/ Crash(o)
  <2>1. UNCHANGED lease /\ proc'[o].pc \in {"acquire", "idle"}
    BY <1>0, <1>6, StartKeeps, IdleAgain, IdleTyped DEF Start, SkipHeld, Crash
  <2> QED
    BY <1>1, <1>2, <1>3, <1>4, <2>1 DEF LeaseInv
<1>7. CASE BeginRun(o) \/ Block(o) \/ Pause(o) \/ FinalizeQueue(o) \/ FinalizeRun(o) \/ FailQueue(o) \/ FailRun(o)
  <2>0. PICK pc \in Label :
           /\ Goto(o, pc)
           /\ \/ BeginRun(o) /\ pc \in {"claim", "block"}
              \/ Block(o) /\ pc = "pause"
              \/ Pause(o) /\ pc = "release"
              \/ FinalizeQueue(o) /\ pc = "finalizeRun"
              \/ FinalizeRun(o) /\ pc \in {"pause", "release"}
              \/ FailQueue(o) /\ pc = "failRun"
              \/ FailRun(o) /\ pc = "release"
    BY <1>7, GotoSteps
  <2>1. UNCHANGED lease
    BY <1>7 DEF BeginRun, Block, Pause, FinalizeQueue, FinalizeRun, FailQueue, FailRun
  <2>2. proc[o].pc \in {"begin", "block", "pause", "soak", "finalizeRun", "failQueue", "failRun"}
    BY <1>7 DEF BeginRun, Block, Pause, FinalizeQueue, FinalizeRun, FailQueue, FailRun
  <2>3. /\ proc'[o].until = proc[o].until
        /\ proc[o].pc \in {"block", "pause"} => proc'[o].pc \in {"pause", "release"}
    <3>1. proc'[o].until = proc[o].until /\ proc'[o].pc = pc
      BY <1>0, <2>0, GotoKeeps
    <3>2. proc[o].pc \in {"block", "pause"} => pc \in {"pause", "release"}
      BY <2>0 DEF BeginRun, Block, Pause, FinalizeQueue, FinalizeRun, FailQueue, FailRun
    <3> QED
      BY <3>1, <3>2
  <2> QED
    BY <1>1, <1>2, <1>5, <2>1, <2>2, <2>3
<1>8. CASE Claim(o)
  <2>1. proc[o].pc = "claim" /\ UNCHANGED lease
    BY <1>8, Zenon DEF Claim
  <2>2. proc'[o].until = proc[o].until
    BY <1>8, ClaimTakesRows
  <2> QED
    BY <1>2, <1>5, <2>1, <2>2
<1>9. CASE Integrate(o)
  BY <1>0, <1>2, <1>5, <1>9, IntegrateKeeps DEF Integrate
<1>10. CASE Acquire(o)
  <2>1. lease'.owner = o /\ lease'.expires = proc[o].started + LeaseTtl /\ lease'.held
    BY <1>10 DEF Acquire
  <2>2. CASE p = o
    BY <1>0, <1>10, <2>1, <2>2, AcquireKeeps DEF Holds
  <2>3. CASE p # o
    <3>1. ~Holds(p)'
      BY <2>1, <2>3 DEF Holds
    <3>2. proc'[p] = proc[p] /\ Under(p)
      BY <1>1, <1>2, <1>3, <2>3
    <3>3. Holds(p) => ~(now < proc[p].until)
      <4>1. lease.held => ~(lease.expires > proc[o].started)
        BY <1>10 DEF Acquire, LeaseConflict
      <4>2. Holds(p) => lease.held
        BY DEF Holds
      <4>3. Holds(p) => lease.expires = proc[p].until
        BY <3>2 DEF LeaseInv
      <4> QED
        BY <1>0, <4>1, <4>2, <4>3
    <3> QED
      BY <3>1, <3>2, <3>3 DEF LeaseInv
  <2> QED
    BY <2>2, <2>3
<1>11. CASE Heartbeat(o)
  <2>1. CASE Holds(o)
    <3>1. lease' = [lease EXCEPT !.expires = now + LeaseTtl]
      BY <1>11, <2>1 DEF Heartbeat
    <3>2. lease'.expires = now + LeaseTtl /\ lease'.owner = lease.owner /\ (lease'.held <=> lease.held)
      BY <1>0, <3>1
    <3>3. Holds(p)' <=> Holds(p)
      BY <3>2 DEF Holds
    <3>4. CASE p = o
      BY <1>0, <1>11, <2>1, <3>2, <3>3, <3>4, HeartbeatKeeps
    <3>5. CASE p # o
      <4>1. ~Holds(p)
        BY <2>1, <3>5 DEF Holds
      <4> QED
        BY <1>1, <1>2, <1>3, <3>3, <3>5, <4>1 DEF LeaseInv
    <3> QED
      BY <3>4, <3>5
  <2>2. CASE ~Holds(o)
    <3>1. UNCHANGED lease
      BY <1>11, <2>2, Zenon DEF Heartbeat
    <3>2. proc[o].pc = "heartbeat"
      BY <1>11, Zenon DEF Heartbeat
    <3>3. proc'[o].until = proc[o].until
      BY <1>0, <1>11, <2>2, HeartbeatKeeps
    <3> QED
      BY <1>2, <1>5, <3>1, <3>2, <3>3
  <2> QED
    BY <2>1, <2>2
<1>12. CASE Release(o)
  <2>1. p # o
    BY <1>0, <1>1, <1>12, IdleAgain, IdleTyped
  <2>2. CASE Holds(o)
    <3>1. ~Holds(p) /\ ~Holds(p)'
      <4>1. lease' = [lease EXCEPT !.held = FALSE]
        BY <1>12, <2>2 DEF Release
      <4>2. lease'.owner = lease.owner
        BY <1>0, <4>1
      <4> QED
        BY <2>1, <2>2, <4>2 DEF Holds
    <3> QED
      BY <1>1, <1>2, <1>3, <2>1, <3>1 DEF LeaseInv
  <2>3. CASE ~Holds(o)
    <3>1. UNCHANGED lease
      BY <1>12, <2>3 DEF Release
    <3> QED
      BY <1>1, <1>2, <1>3, <1>4, <2>1, <3>1 DEF LeaseInv
  <2> QED
    BY <2>2, <2>3
<1> QED
  BY <1>6, <1>7, <1>8, <1>9, <1>10, <1>11, <1>12 DEF Scheduler

SafeLease == Typed /\ DoneIsIntegrated /\ LeaseInv

LEMMA InitSafe == Init => SafeLease
<1> SUFFICES ASSUME Init PROVE SafeLease
  OBVIOUS
<1> USE SchedulerAssumption DEF SchedulerAssumption
<1>1. proc \in [Owner -> Process] /\ \A o \in Owner : proc[o] = Idle
  BY IdleTyped DEF Init
<1>2. queue \in [Cycle -> Seq(Item)] /\ \A c \in Cycle : Len(queue[c]) <= MaxItems
  BY DEF Init
<1>3. run \in [Slot -> [status : TerminalRun \cup {"NONE", "RUNNING"}, processed : SUBSET Cycle]]
  BY DEF Init, NoRun
<1>4. lease \in [owner : Owner \cup {NoOwner}, expires : Time, held : BOOLEAN]
  BY DEF Init, Time
<1>5. now \in 0..MaxTime /\ slot \in Slot /\ starts \in 0..MaxStarts /\ integrated \in SUBSET Cycle
  BY DEF Init, Slot
<1>6. active \in BOOLEAN /\ overlapped \in BOOLEAN
  BY DEF Init
<1>7. \A o \in Owner : /\ proc[o].started <= now
                        /\ proc[o].pc = "idle"
                        /\ proc[o].claimed = {} /\ proc[o].done = {}
  BY <1>1 DEF Init, Idle
<1>8. LeaseInv /\ DoneIsIntegrated
  BY <1>7 DEF LeaseInv, Under, Working, DoneIsIntegrated
<1> QED
  BY <1>1, <1>2, <1>3, <1>4, <1>5, <1>6, <1>7, <1>8 DEF SafeLease, Typed

LEMMA StepSafe == SafeLease /\ [Next]_vars => SafeLease'
<1> SUFFICES ASSUME SafeLease, [Next]_vars PROVE SafeLease'
  OBVIOUS
<1>0. Typed /\ DoneIsIntegrated /\ LeaseInv
  BY DEF SafeLease
<1>1. Typed' /\ DoneIsIntegrated' /\ now' >= now
  BY <1>0, StepTyped, ClockRuns
<1>2. ASSUME NEW o \in Owner, Scheduler(o) \/ Crash(o) PROVE LeaseInv'
  <2>1. UNCHANGED now
    BY <1>2 DEF Scheduler, Crash, Start, Acquire, SkipHeld, BeginRun, Block, Pause, Claim, Heartbeat,
         Integrate, FinalizeQueue, FinalizeRun, FailQueue, FailRun, Release
  <2> QED
    BY <1>0, <1>2, <2>1, LeaseSteps DEF LeaseInv
<1>3. ASSUME UNCHANGED <<lease, proc>> PROVE LeaseInv'
  <2>1. ASSUME NEW o \in Owner, Under(o)'
        PROVE  (now' < proc'[o].until => Holds(o)') /\ (Holds(o)' => lease'.expires = proc'[o].until)
    <3>1. Under(o) /\ (Holds(o)' <=> Holds(o)) /\ proc'[o] = proc[o] /\ lease' = lease
      BY <1>3, <2>1 DEF Under, Working, Holds
    <3>2. now \in Nat /\ now' \in Nat /\ proc[o].until \in Nat
      BY <1>0, <1>1, SchedulerAssumption DEF Typed, Process, Time, SchedulerAssumption
    <3> QED
      BY <1>0, <1>1, <3>1, <3>2 DEF LeaseInv
  <2> QED
    BY <2>1 DEF LeaseInv
<1>4. UNCHANGED <<lease, proc>> \/ \E o \in Owner : Scheduler(o) \/ Crash(o)
  BY DEF Next, vars, Enqueue, Cancel, Rewrite, Reactivate, Tick, NextDay
<1> QED
  BY <1>0, <1>1, <1>2, <1>3, <1>4 DEF SafeLease

LEMMA SafeExcludes == SafeLease => LeaseExcludes
<1> SUFFICES ASSUME SafeLease PROVE LeaseExcludes
  OBVIOUS
<1>1. \A o \in Owner : Working(o) => Under(o)
  BY DEF Under
<1>2. LiveLeaseKept
  BY <1>1 DEF SafeLease, LeaseInv, LiveLeaseKept
<1>3. ASSUME NEW o \in Owner, NEW p \in Owner, o # p, Working(o), Working(p)
      PROVE  proc[o].until <= now \/ proc[p].until <= now
  <2>1. ~Holds(o) \/ ~Holds(p)
    BY <1>3 DEF Holds
  <2>2. now \in Nat /\ proc[o].until \in Nat /\ proc[p].until \in Nat
    BY SchedulerAssumption DEF SafeLease, Typed, Process, Time, SchedulerAssumption
  <2> QED
    BY <1>2, <1>3, <2>1, <2>2 DEF LiveLeaseKept
<1> QED
  BY <1>2, <1>3, TypedIsTypeOK DEF LeaseExcludes, OverlapOnlyAfterExpiry, SafeLease

LEMMA AlwaysSafe == Spec => []SafeLease
BY InitSafe, StepSafe, PTL DEF Spec

(* Whatever the processes, the clock and the crashes do: every row, run and   *)
(* process keeps its type, a process whose lease has not run out has the row, *)
(* and of two processes that work at the same time one has outlived its lease *)
(* (acquire_, heartbeat_ and release_recurring_lease).                        *)
THEOREM LeaseIsExclusive == Spec => []LeaseExcludes
BY AlwaysSafe, SafeExcludes, PTL

-----------------------------------------------------------------------------
(* The queue and the evidence of the runs.                                    *)

OneOpen ==
  \A r, s \in Rows(queue) :
    Row(queue, r).status \in Occupied /\ Row(queue, s).status \in Occupied /\ r[1] = s[1] => r = s

Processed(c) == \E r \in Rows(queue) : r[1] = c /\ Row(queue, r).status = "PROCESSED"
ProcessedIsIntegrated == \A c \in Cycle : Processed(c) => c \in integrated

(* What a process has left and done are cycles of the rows it claimed.        *)
ClaimsCover ==
  \A o \in Owner :
    /\ \A c \in proc[o].left \cup proc[o].done : \E r \in proc[o].claimed : r[1] = c
    /\ proc[o].pc \in {"acquire", "begin", "claim"} => proc[o].done = {}

(* As long as no two processes worked at the same time there is one worker,   *)
(* its claims stand until it settles them, and what it reports is settled.    *)
Alone == \A o, p \in Owner : Working(o) /\ Working(p) => o = p
ClaimsHold ==
  \A o \in Owner : proc[o].pc \in {"heartbeat", "soak"} =>
    \A r \in proc[o].claimed : Row(queue, r).status = "CLAIMED"
DoneIsProcessed == \A o \in Owner : proc[o].pc = "finalizeRun" => \A c \in proc[o].done : Processed(c)
RunsAreBacked == \A s \in Slot : \A c \in run[s].processed : Processed(c)

SoundQueue ==
  /\ SafeLease /\ OneOpen /\ ProcessedIsIntegrated /\ ClaimsCover
  /\ ~overlapped => Alone /\ ClaimsHold /\ DoneIsProcessed /\ RunsAreBacked

LEMMA ProcessedStays ==
  ASSUME QueueMoves \/ QueueGrows, NEW c, Processed(c)
  PROVE  Processed(c)'
<1>1. PICK r \in Rows(queue) : r[1] = c /\ Row(queue, r).status = "PROCESSED"
  BY DEF Processed
<1>2. r \in Rows(queue') /\ Row(queue', r) = Row(queue, r)
  BY <1>1, RowsStay DEF TerminalItem
<1> QED
  BY <1>1, <1>2 DEF Processed

LEMMA OneOpenStays == OneOpen /\ (QueueMoves \/ QueueGrows) => OneOpen'
<1>1. ASSUME OneOpen, QueueMoves PROVE OneOpen'
  <2>1. \A r \in Rows(queue) : Row(queue', r).status \in Occupied => Row(queue, r).status \in Occupied
    BY <1>1 DEF QueueMoves, Open, Occupied
  <2> QED
    BY <1>1, <2>1 DEF QueueMoves, OneOpen
<1>2. ASSUME OneOpen, QueueGrows PROVE OneOpen'
  BY <1>2 DEF QueueGrows, OneOpen
<1> QED
  BY <1>1, <1>2

LEMMA ProcessedComesFromIntegration ==
  ASSUME ProcessedIsIntegrated, QueueMoves \/ QueueGrows, integrated \subseteq integrated'
  PROVE  ProcessedIsIntegrated'
<1> SUFFICES ASSUME NEW c \in Cycle, Processed(c)' PROVE c \in integrated'
  BY DEF ProcessedIsIntegrated
<1>1. PICK r \in Rows(queue') : r[1] = c /\ Row(queue', r).status = "PROCESSED"
  BY DEF Processed
<1>2. CASE QueueMoves
  <2>1. r \in Rows(queue)
    BY <1>2 DEF QueueMoves
  <2>2. Row(queue, r).status = "PROCESSED" \/ c \in integrated
    BY <1>1, <1>2, <2>1 DEF QueueMoves
  <2> QED
    BY <1>1, <2>1, <2>2 DEF Processed, ProcessedIsIntegrated
<1>3. CASE QueueGrows
  <2>1. r \in Rows(queue) /\ Row(queue, r).status = "PROCESSED"
    BY <1>1, <1>3 DEF QueueGrows
  <2> QED
    BY <1>1, <2>1 DEF Processed, ProcessedIsIntegrated
<1> QED
  BY <1>2, <1>3

(* A process that finalises while its claims stand settles all it integrated. *)
LEMMA FinalizeSettles ==
  ASSUME Typed, NEW o \in Owner, FinalizeQueue(o), NEW r \in proc[o].claimed,
         Row(queue, r).status = "CLAIMED", r[1] \in proc[o].done
  PROVE  r \in Rows(queue) /\ Row(queue', r).status = "PROCESSED"
<1> DEFINE U == Unsettled(o)
           new == [s \in U |-> Settled(IF s[1] \in proc[o].done THEN "PROCESSED" ELSE "FAILED")]
<1>1. r \in Rows(queue)
  BY DEF Typed
<1>2. r \in U
  BY <1>1, WithStatusRows DEF Unsettled
<1>3. \A s \in U : new[s] \in Item
  <2> SUFFICES ASSUME NEW s \in U PROVE new[s] \in Item
    OBVIOUS
  <2>1. new[s] = Settled("PROCESSED") \/ new[s] = Settled("FAILED")
    OBVIOUS
  <2> QED
    BY <2>1, SettledTyped DEF TerminalItem
<1>4. new[r] = Settled("PROCESSED") /\ DOMAIN new = U
  BY <1>2
<1>5. queue' = Update(queue, new)
  BY DEF FinalizeQueue
<1>6. queue \in Queues
  BY QueueTyped
<1> HIDE DEF new, U
<1>7. Row(queue', r) = new[r]
  BY <1>1, <1>2, <1>3, <1>4, <1>5, <1>6, Updated
<1> QED
  BY <1>1, <1>4, <1>7, SettledTyped DEF TerminalItem

(* The program counter after a step of its process.                           *)
LEMMA CounterSteps ==
  ASSUME Typed, NEW o \in Owner, Scheduler(o) \/ Crash(o)
  PROVE  /\ \/ Claim(o) /\ proc'[o].pc = "heartbeat"
            \/ Heartbeat(o) /\ proc'[o].pc \in {"soak", "failQueue"}
            \/ Integrate(o) /\ proc'[o].pc = "soak"
            \/ FinalizeQueue(o) /\ proc'[o].pc = "finalizeRun" /\ proc'[o].done = proc[o].done
            \/ FailQueue(o) /\ proc'[o].pc = "failRun"
            \/ UNCHANGED queue /\ proc'[o].pc \notin {"heartbeat", "soak", "finalizeRun"}
         /\ Working(o)' => Working(o) \/ (BeginRun(o) /\ proc'[o].pc = "claim")
<1>0. proc \in [Owner -> Process]
  BY DEF Typed
<1>1. CASE Start(o) \/ SkipHeld(o) \/ Release(o) \/ Crash(o)
  <2>1. UNCHANGED queue
    BY <1>1 DEF Start, SkipHeld, Release, Crash
  <2>2. proc'[o].pc \in {"acquire", "idle"}
    BY <1>0, <1>1, StartKeeps, IdleAgain, IdleTyped
  <2> QED
    BY <2>1, <2>2 DEF Working
<1>2. CASE Acquire(o)
  <2>1. UNCHANGED queue /\ proc'[o].pc = "begin"
    BY <1>0, <1>2, AcquireKeeps DEF Acquire
  <2> QED
    BY <2>1 DEF Working
<1>3. CASE Claim(o)
  <2>1. proc[o].pc = "claim"
    BY <1>3, Zenon DEF Claim
  <2> QED
    BY <1>3, <2>1, ClaimTakesRows DEF Working
<1>4. CASE Heartbeat(o)
  <2>1. proc[o].pc = "heartbeat"
    BY <1>4, Zenon DEF Heartbeat
  <2> QED
    BY <1>0, <1>4, <2>1, HeartbeatKeeps DEF Working
<1>5. CASE Integrate(o)
  <2>1. proc[o].pc = "soak"
    BY <1>5, Zenon DEF Integrate
  <2> QED
    BY <1>0, <1>5, <2>1, IntegrateKeeps DEF Working
<1>6. CASE BeginRun(o) \/ Block(o) \/ Pause(o) \/ FinalizeQueue(o) \/ FinalizeRun(o) \/ FailQueue(o) \/ FailRun(o)
  <2>1. PICK pc \in Label :
           /\ Goto(o, pc)
           /\ \/ BeginRun(o) /\ pc \in {"claim", "block"}
              \/ Block(o) /\ pc = "pause"
              \/ Pause(o) /\ pc = "release"
              \/ FinalizeQueue(o) /\ pc = "finalizeRun"
              \/ FinalizeRun(o) /\ pc \in {"pause", "release"}
              \/ FailQueue(o) /\ pc = "failRun"
              \/ FailRun(o) /\ pc = "release"
    BY <1>6, GotoSteps
  <2>2. proc'[o].pc = pc /\ proc'[o].done = proc[o].done
    BY <1>0, <2>1, GotoKeeps
  <2>3. CASE BeginRun(o) /\ pc \in {"claim", "block"}
    BY <2>2, <2>3 DEF Working, BeginRun
  <2>4. CASE FinalizeQueue(o) /\ pc = "finalizeRun"
    <3>1. proc[o].pc = "soak"
      BY <2>4, Zenon DEF FinalizeQueue
    <3> QED
      BY <2>2, <2>4, <3>1 DEF Working
  <2>5. CASE FailQueue(o) /\ pc = "failRun"
    <3>1. proc[o].pc \in {"soak", "failQueue"}
      BY <2>5, Zenon DEF FailQueue
    <3> QED
      BY <2>2, <2>5, <3>1 DEF Working
  <2>6. CASE (Block(o) \/ Pause(o) \/ FinalizeRun(o) \/ FailRun(o)) /\ pc \in {"pause", "release"}
    <3>1. UNCHANGED queue
      BY <2>6 DEF Block, Pause, FinalizeRun, FailRun
    <3> QED
      BY <2>2, <2>6, <3>1 DEF Working
  <2> QED
    BY <2>1, <2>3, <2>4, <2>5, <2>6
<1> QED
  BY <1>1, <1>2, <1>3, <1>4, <1>5, <1>6 DEF Scheduler

(* What a step may do to a run row.                                           *)
LEMMA RunSteps ==
  ASSUME Typed, [Next]_vars, NEW s \in Slot
  PROVE  /\ run[s].status \in TerminalRun => run'[s] = run[s]
         /\ \/ run'[s].processed \in {run[s].processed, {}}
            \/ \E o \in Owner : FinalizeRun(o) /\ run'[s].processed = proc[o].done
<1> DEFINE Runs == [Slot -> [status : TerminalRun \cup {"NONE", "RUNNING"}, processed : SUBSET Cycle]]
<1>0. run \in Runs /\ proc \in [Owner -> Process]
  BY DEF Typed
<1>1. ASSUME NEW t \in Slot, NEW status \in TerminalRun, NEW cycles \in SUBSET Cycle,
             run' = Finalized(t, status, cycles)
      PROVE  /\ run[s].status \in TerminalRun => run'[s] = run[s]
             /\ run'[s].processed \in {run[s].processed, cycles}
  BY <1>0, <1>1 DEF Finalized, TerminalRun
<1>2. ASSUME NEW o \in Owner, Block(o) \/ FailRun(o) \/ FinalizeRun(o)
      PROVE  /\ run[s].status \in TerminalRun => run'[s] = run[s]
             /\ \/ run'[s].processed \in {run[s].processed, {}}
                \/ FinalizeRun(o) /\ run'[s].processed = proc[o].done
  <2>1. proc[o].slot \in Slot /\ proc[o].done \in SUBSET Cycle
    BY <1>0, <1>2 DEF Typed, Process, Block, FailRun, FinalizeRun
  <2>2. CASE Block(o) \/ FailRun(o)
    <3>1. \E status \in TerminalRun : run' = Finalized(proc[o].slot, status, {})
      BY <2>2 DEF Block, FailRun, TerminalRun
    <3> QED
      BY <1>1, <2>1, <3>1
  <2>3. CASE FinalizeRun(o)
    <3>1. \E status \in TerminalRun : run' = Finalized(proc[o].slot, status, proc[o].done)
      BY <2>3 DEF FinalizeRun, TerminalRun
    <3> QED
      BY <1>1, <2>1, <2>3, <3>1
  <2> QED
    BY <1>2, <2>2, <2>3
<1>3. ASSUME NEW o \in Owner, BeginRun(o)
      PROVE  /\ run[s].status \in TerminalRun => run'[s] = run[s]
             /\ run'[s].processed = run[s].processed
  BY <1>0, <1>3 DEF BeginRun, TerminalRun
<1>4. UNCHANGED run \/ \E o \in Owner : BeginRun(o) \/ Block(o) \/ FailRun(o) \/ FinalizeRun(o)
  BY DEF Next, vars, Enqueue, Cancel, Rewrite, Reactivate, Tick, NextDay, Scheduler, Crash, Start,
       Acquire, SkipHeld, Pause, Claim, Heartbeat, Integrate, FinalizeQueue, FailQueue, Release
<1> QED
  BY <1>2, <1>3, <1>4

LEMMA ClaimsCovered == Typed /\ ClaimsCover /\ [Next]_vars => ClaimsCover'
<1> DEFINE Covered(r) == /\ \A c \in r.left \cup r.done : \E k \in r.claimed : k[1] = c
                         /\ r.pc \in {"acquire", "begin", "claim"} => r.done = {}
<1> SUFFICES ASSUME Typed, ClaimsCover, [Next]_vars, NEW p \in Owner PROVE Covered(proc'[p])
  BY DEF ClaimsCover
<1>0. proc \in [Owner -> Process] /\ \A o \in Owner : Covered(proc[o])
  BY DEF Typed, ClaimsCover
<1>1. CASE UNCHANGED proc
  BY <1>0, <1>1
<1>2. ASSUME NEW o \in Owner, Scheduler(o) \/ Crash(o) PROVE Covered(proc'[p])
  <2>1. CASE p # o
    <3>1. proc'[p] = proc[p]
      BY <1>0, <1>2, <2>1, SchedulerMoves
    <3> QED
      BY <1>0, <3>1
  <2>2. CASE p = o
    <3>1. CASE Start(o)
      BY <1>0, <2>2, <3>1, StartKeeps
    <3>2. CASE SkipHeld(o) \/ Release(o) \/ Crash(o)
      BY <1>0, <2>2, <3>2, IdleAgain, IdleTyped
    <3>3. CASE Acquire(o)
      <4>1. proc[o].pc = "acquire"
        BY <3>3, Zenon DEF Acquire
      <4> QED
        BY <1>0, <2>2, <3>3, <4>1, AcquireKeeps
    <3>4. CASE Claim(o)
      <4>1. proc[o].pc = "claim"
        BY <3>4, Zenon DEF Claim
      <4>2. proc'[o].left = {r[1] : r \in proc'[o].claimed} /\ proc'[o].done = {}
        BY <1>0, <3>4, <4>1, ClaimTakesRows
      <4> QED
        BY <2>2, <4>2
    <3>5. CASE Heartbeat(o)
      BY <1>0, <2>2, <3>5, HeartbeatKeeps
    <3>6. CASE Integrate(o)
      <4>1. proc[o].pc = "soak"
        BY <3>6, Zenon DEF Integrate
      <4>2. proc'[o].left \cup proc'[o].done \subseteq proc[o].left \cup proc[o].done
        BY <1>0, <3>6, IntegrateKeeps
      <4>3. proc'[o].pc = "soak" /\ proc'[o].claimed = proc[o].claimed
        BY <1>0, <3>6, <4>1, IntegrateKeeps
      <4> QED
        BY <1>0, <2>2, <4>2, <4>3
    <3>7. CASE BeginRun(o) \/ Block(o) \/ Pause(o) \/ FinalizeQueue(o) \/ FinalizeRun(o) \/ FailQueue(o) \/ FailRun(o)
      <4>1. PICK pc \in Label :
               /\ Goto(o, pc)
               /\ \/ BeginRun(o) /\ pc \in {"claim", "block"}
                  \/ Block(o) /\ pc = "pause"
                  \/ Pause(o) /\ pc = "release"
                  \/ FinalizeQueue(o) /\ pc = "finalizeRun"
                  \/ FinalizeRun(o) /\ pc \in {"pause", "release"}
                  \/ FailQueue(o) /\ pc = "failRun"
                  \/ FailRun(o) /\ pc = "release"
        BY <3>7, GotoSteps
      <4>2. pc = "claim" => proc[o].pc = "begin"
        BY <4>1 DEF BeginRun
      <4>3. pc \notin {"acquire", "begin"}
        BY <4>1
      <4>4. /\ proc'[o].pc = pc /\ proc'[o].claimed = proc[o].claimed
            /\ proc'[o].left = proc[o].left /\ proc'[o].done = proc[o].done
        BY <1>0, <4>1, GotoKeeps
      <4> QED
        BY <1>0, <2>2, <4>2, <4>3, <4>4
    <3> QED
      BY <1>2, <3>1, <3>2, <3>3, <3>4, <3>5, <3>6, <3>7 DEF Scheduler
  <2> QED
    BY <2>1, <2>2
<1> QED
  BY <1>1, <1>2 DEF Next, vars, Enqueue, Cancel, Rewrite, Reactivate, Tick, NextDay

(* Without overlap, a step of the only worker, or of anybody else.            *)
LEMMA StepIsSound ==
  ASSUME SoundQueue, [Next]_vars, ~overlapped'
  PROVE  (Alone /\ ClaimsHold /\ DoneIsProcessed /\ RunsAreBacked)'
<1>0. /\ Typed /\ DoneIsIntegrated /\ ClaimsCover
      /\ proc \in [Owner -> Process]
  BY DEF SoundQueue, SafeLease, Typed
<1>1. QueueMoves \/ QueueGrows
  BY <1>0, QueueSteps
<1>2. ~overlapped
  <2>1. ASSUME NEW o \in Owner, BeginRun(o) PROVE ~overlapped
    <3>1. overlapped' = overlapped \/ overlapped' = (overlapped \/ \E p \in Owner \ {o} : Working(p))
      BY <2>1 DEF BeginRun
    <3> QED
      BY <3>1, Zenon
  <2>2. (\E o \in Owner : BeginRun(o)) \/ UNCHANGED overlapped
    BY DEF Next, vars, Enqueue, Cancel, Rewrite, Reactivate, Tick, NextDay, Scheduler, Crash, Start,
         Acquire, SkipHeld, Block, Pause, Claim, Heartbeat, Integrate, FinalizeQueue,
         FinalizeRun, FailQueue, FailRun, Release
  <2> QED
    BY <2>1, <2>2, Zenon
<1>3. Alone /\ ClaimsHold /\ DoneIsProcessed /\ RunsAreBacked
  BY <1>2 DEF SoundQueue
<1>4. \A o, p \in Owner : (Scheduler(o) \/ Crash(o)) /\ p # o => proc'[p] = proc[p]
  BY <1>0, SchedulerMoves
<1>5. (UNCHANGED proc /\ ClaimsStand) \/ \E o \in Owner : Scheduler(o) \/ Crash(o)
  <2>1. ASSUME NEW c \in Cycle, Enqueue(c) \/ Cancel(c) \/ Rewrite(c) PROVE UNCHANGED proc /\ ClaimsStand
    BY <1>0, <2>1, OperatorSteps DEF Enqueue, Cancel, Rewrite
  <2>2. ASSUME UNCHANGED <<queue, proc>> PROVE UNCHANGED proc /\ ClaimsStand
    BY <2>2 DEF ClaimsStand
  <2> QED
    BY <2>1, <2>2 DEF Next, vars, Reactivate, Tick, NextDay
<1>6. Alone'
  <2> SUFFICES ASSUME NEW p \in Owner, NEW q \in Owner, Working(p)', Working(q)', p # q PROVE FALSE
    BY DEF Alone
  <2>1. CASE UNCHANGED proc
    BY <1>3, <2>1 DEF Alone, Working
  <2>2. ASSUME NEW o \in Owner, Scheduler(o) \/ Crash(o) PROVE FALSE
    <3>1. \A r \in Owner \ {o} : Working(r)' => Working(r)
      BY <1>4, <2>2 DEF Working
    <3>2. CASE Working(o)' => Working(o)
      BY <1>3, <3>1, <3>2 DEF Alone
    <3>3. CASE BeginRun(o) /\ proc'[o].pc = "claim"
      <4>1. overlapped' = (overlapped \/ \E r \in Owner \ {o} : Working(r))
        <5>1. \/ overlapped' = (overlapped \/ \E r \in Owner \ {o} : Working(r))
              \/ Goto(o, "block")
          BY <3>3, Zenon DEF BeginRun
        <5>2. ~Goto(o, "block")
          BY <1>0, <3>3, GotoKeeps
        <5> QED
          BY <5>1, <5>2, Zenon
      <4>2. \A r \in Owner \ {o} : ~Working(r)
        BY <4>1, Zenon
      <4> QED
        BY <3>1, <4>2
    <3> QED
      BY <1>0, <2>2, <3>2, <3>3, CounterSteps
  <2> QED
    BY <1>5, <2>1, <2>2
<1>7. ClaimsHold'
  <2> SUFFICES ASSUME NEW p \in Owner, proc'[p].pc \in {"heartbeat", "soak"}, NEW r \in proc'[p].claimed
               PROVE  Row(queue', r).status = "CLAIMED"
    BY DEF ClaimsHold
  <2>1. CASE UNCHANGED proc /\ ClaimsStand
    BY <1>0, <1>3, <2>1 DEF ClaimsHold, ClaimsStand, Typed
  <2>2. ASSUME NEW o \in Owner, Scheduler(o) \/ Crash(o) PROVE Row(queue', r).status = "CLAIMED"
    <3>1. CASE p = o
      <4>1. Claim(o) \/ Heartbeat(o) \/ Integrate(o)
        BY <1>0, <2>2, <3>1, CounterSteps
      <4>2. CASE Claim(o)
        BY <1>0, <3>1, <4>2, ClaimTakesRows
      <4>3. CASE Heartbeat(o) \/ Integrate(o)
        <5>1. proc'[o].claimed = proc[o].claimed
          BY <1>0, <4>3, HeartbeatKeeps, IntegrateKeeps
        <5>2. UNCHANGED queue /\ proc[o].pc \in {"heartbeat", "soak"}
          BY <4>3, Zenon DEF Heartbeat, Integrate
        <5> QED
          BY <1>3, <3>1, <5>1, <5>2 DEF ClaimsHold
      <4> QED
        BY <4>1, <4>2, <4>3
    <3>2. CASE p # o
      <4>1. proc'[p] = proc[p]
        BY <1>4, <2>2, <3>2
      <4>2. Working(p)
        BY <4>1 DEF Working
      <4>3. ~Working(o)
        BY <1>3, <3>2, <4>2 DEF Alone
      <4>4. UNCHANGED queue
        <5>1. proc[o].pc \notin {"claim", "heartbeat", "soak", "finalizeRun", "failQueue", "failRun"}
          BY <4>3 DEF Working
        <5>2. ~Claim(o) /\ ~Heartbeat(o) /\ ~Integrate(o) /\ ~FinalizeQueue(o) /\ ~FailQueue(o)
          BY <5>1, Zenon DEF Claim, Heartbeat, Integrate, FinalizeQueue, FailQueue
        <5> QED
          BY <1>0, <2>2, <5>2, CounterSteps
      <4> QED
        BY <1>3, <4>1, <4>4 DEF ClaimsHold
    <3> QED
      BY <3>1, <3>2
  <2> QED
    BY <1>5, <2>1, <2>2
<1>8. DoneIsProcessed'
  <2> SUFFICES ASSUME NEW p \in Owner, proc'[p].pc = "finalizeRun", NEW c \in proc'[p].done PROVE Processed(c)'
    BY DEF DoneIsProcessed
  <2>1. ASSUME proc'[p] = proc[p] PROVE Processed(c)'
    BY <1>1, <1>3, <2>1, ProcessedStays DEF DoneIsProcessed
  <2>2. ASSUME NEW o \in Owner, Scheduler(o) \/ Crash(o), p = o PROVE Processed(c)'
    <3>1. FinalizeQueue(o) /\ proc'[o].done = proc[o].done
      BY <1>0, <2>2, CounterSteps
    <3>2. proc[o].pc = "soak"
      BY <3>1, Zenon DEF FinalizeQueue
    <3>3. PICK r \in proc[o].claimed : r[1] = c
      BY <1>0, <2>2, <3>1 DEF ClaimsCover
    <3>4. Row(queue, r).status = "CLAIMED"
      BY <1>3, <3>2 DEF ClaimsHold
    <3>5. r \in Rows(queue) /\ Row(queue', r).status = "PROCESSED"
      BY <1>0, <2>2, <3>1, <3>3, <3>4, FinalizeSettles
    <3>6. r \in Rows(queue')
      BY <1>1, <3>5, RowsStay
    <3> QED
      BY <3>3, <3>5, <3>6 DEF Processed
  <2> QED
    BY <1>4, <1>5, <2>1, <2>2
<1>9. RunsAreBacked'
  <2> SUFFICES ASSUME NEW s \in Slot, NEW c \in run'[s].processed PROVE Processed(c)'
    BY DEF RunsAreBacked
  <2>1. CASE c \in run[s].processed
    BY <1>1, <1>3, <2>1, ProcessedStays DEF RunsAreBacked
  <2>2. ASSUME NEW o \in Owner, FinalizeRun(o), c \in proc[o].done PROVE Processed(c)'
    BY <1>1, <1>3, <2>2, ProcessedStays DEF DoneIsProcessed, FinalizeRun
  <2> QED
    BY <1>0, <2>1, <2>2, RunSteps
<1> QED
  BY <1>6, <1>7, <1>8, <1>9

LEMMA InitSound == Init => SoundQueue
<1> SUFFICES ASSUME Init PROVE SoundQueue
  OBVIOUS
<1>1. \A o \in Owner : proc[o].pc = "idle" /\ proc[o].left = {} /\ proc[o].done = {}
  BY DEF Init, Idle
<1>2. Rows(queue) = {}
  <2>1. \A c \in Cycle : Len(queue[c]) = 0
    BY DEF Init
  <2> QED
    BY <2>1, SchedulerAssumption DEF Rows, SchedulerAssumption
<1>3. \A s \in Slot : run[s].processed = {}
  BY DEF Init, NoRun
<1>4. OneOpen /\ ProcessedIsIntegrated
  BY <1>2 DEF OneOpen, ProcessedIsIntegrated, Processed
<1>5. ClaimsCover /\ Alone /\ ClaimsHold /\ DoneIsProcessed
  BY <1>1 DEF ClaimsCover, Alone, Working, ClaimsHold, DoneIsProcessed
<1>6. RunsAreBacked
  BY <1>3 DEF RunsAreBacked
<1> QED
  BY <1>4, <1>5, <1>6, InitSafe DEF SoundQueue

LEMMA StepSound == SoundQueue /\ [Next]_vars => SoundQueue'
<1> SUFFICES ASSUME SoundQueue, [Next]_vars PROVE SoundQueue'
  OBVIOUS
<1>1. SafeLease' /\ Typed /\ DoneIsIntegrated /\ (QueueMoves \/ QueueGrows)
  BY StepSafe, QueueSteps DEF SoundQueue, SafeLease
<1>2. integrated \subseteq integrated'
  BY DEF Next, vars, Enqueue, Cancel, Rewrite, Reactivate, Tick, NextDay, Scheduler, Crash, Start,
       Acquire, SkipHeld, BeginRun, Block, Pause, Claim, Heartbeat, Integrate, FinalizeQueue,
       FinalizeRun, FailQueue, FailRun, Release
<1>3. OneOpen' /\ ProcessedIsIntegrated' /\ ClaimsCover'
  BY <1>1, <1>2, OneOpenStays, ProcessedComesFromIntegration, ClaimsCovered DEF SoundQueue
<1> QED
  BY <1>1, <1>3, StepIsSound DEF SoundQueue

LEMMA SoundIsSound == SoundQueue => QueueIsSound
<1> SUFFICES ASSUME SoundQueue PROVE QueueIsSound
  OBVIOUS
<1>1. OneActiveItem
  <2> SUFFICES ASSUME NEW c \in Cycle
               PROVE  Cardinality({r \in WithStatus(queue, Occupied) : r[1] = c}) <= 1
    BY DEF OneActiveItem, Occupied
  <2> DEFINE A == {r \in WithStatus(queue, Occupied) : r[1] = c}
  <2>1. \A r, s \in A : r = s
    BY WithStatusRows DEF SoundQueue, OneOpen
  <2>2. CASE A = {}
    BY <2>2, FS_EmptySet
  <2>3. ASSUME NEW r \in A PROVE Cardinality(A) <= 1
    <3>1. A = {r}
      BY <2>1, <2>3
    <3> QED
      BY <3>1, FS_Singleton
  <2> QED
    BY <2>2, <2>3
<1>2. ProcessedWasIntegrated
  <2> SUFFICES ASSUME NEW r \in WithStatus(queue, {"PROCESSED"}) PROVE r[1] \in integrated
    BY DEF ProcessedWasIntegrated
  <2>1. r \in Rows(queue) /\ Row(queue, r).status = "PROCESSED"
    BY WithStatusRows
  <2>2. r[1] \in Cycle
    BY <2>1 DEF Rows
  <2> QED
    BY <2>1, <2>2 DEF SoundQueue, ProcessedIsIntegrated, Processed
<1>3. ReportedIsSettled
  BY WithStatusRows DEF SoundQueue, RunsAreBacked, Processed, ReportedIsSettled
<1> QED
  BY <1>1, <1>2, <1>3 DEF QueueIsSound

LEMMA AlwaysSound == Spec => []SoundQueue
BY InitSound, StepSound, PTL DEF Spec

(* Reclaims, retries, crashes and overlapping processes included, a cycle has *)
(* one row that counts, no row is PROCESSED before its integration, and what  *)
(* a run reports is settled unless two processes worked at the same time      *)
(* (_claim_queue_items, _finalize_queue_items, _release_claims_after_failure).*)
THEOREM QueueStaysSound == Spec => []QueueIsSound
BY AlwaysSound, SoundIsSound, PTL

(* No step of any process rewrites a terminal run row or a terminal queue row *)
(* (the conditional updates of finalize_recurring_scheduler_run and the queue).*)
THEOREM TerminalRowsAreFinal == Spec => TerminalRowsStay
<1> DEFINE Stay == /\ \A s \in Slot : run[s].status \in TerminalRun => run'[s] = run[s]
                   /\ \A r \in WithStatus(queue, TerminalItem) : queue'[r[1]][r[2]] = queue[r[1]][r[2]]
<1>1. ASSUME SafeLease, [Next]_vars PROVE Stay
  <2>1. Typed /\ (QueueMoves \/ QueueGrows)
    BY <1>1, QueueSteps DEF SafeLease
  <2>2. ASSUME NEW r \in WithStatus(queue, TerminalItem) PROVE queue'[r[1]][r[2]] = queue[r[1]][r[2]]
    <3>1. r \in Rows(queue) /\ Row(queue, r).status \in TerminalItem
      BY WithStatusRows
    <3> QED
      BY <2>1, <3>1, RowsStay DEF Row
  <2> QED
    BY <1>1, <2>1, <2>2, RunSteps
<1>2. SafeLease /\ [Next]_vars => [Stay]_vars
  BY <1>1
<1> QED
  BY <1>2, AlwaysSafe, PTL DEF Spec, TerminalRowsStay

-----------------------------------------------------------------------------
(* The levels of a position (PositionLifecycle).                              *)

(* A book has one lifecycle run at a time.                                    *)
OneDailyRun == \A c, d \in Daily : c = d

(* The shape of a row of levels and of a run, whatever is in the fields that  *)
(* the stop does not depend on.                                               *)
IsLevels(row) ==
  /\ row = [entry |-> row.entry, original |-> row.original, remaining |-> row.remaining,
            average |-> row.average, first |-> row.first, stop |-> row.stop, target |-> row.target,
            high |-> row.high, at |-> row.at]
  /\ row.original \in Int /\ row.average \in Int /\ row.stop \in Int /\ row.high \in Int /\ row.at \in Int

RunFields == {"pc", "day", "todo", "held", "paid", "over", "opened", "row", "wish", "what", "shares"}

IsRun(k) == k = [f \in RunFields |-> k[f]]

Heads(r, i) == \A j \in DOMAIN r : r[j].at < r[i].at \/ (r[j].at = r[i].at /\ j <= i)

StopTyped ==
  /\ today \in Days
  /\ market \in [Days -> [price : Price, atr : Atr]]
  /\ bought \in [Entry -> [status : {"NONE", "FILLED", "PENDING_SUBMISSION", "EXPIRED"}, filled : BOOLEAN,
                           shares : Nat, limit : Nat, day : Days \cup {0}, why : {"NONE", "ENTRY"},
                           of : Entry \cup {NoBuyer}]]
  /\ buyer \in Entry \cup {NoBuyer}
  /\ sweep = [c \in Daily |-> sweep[c]]
  /\ \A c \in Daily : IsRun(sweep[c]) /\ (sweep[c].pc # "idle" => sweep[c].day \in Days)

(* The rows are levels of entries that were bought; one of them is in force.  *)
RowsInForce ==
  /\ rows \in Seq({rows[i] : i \in DOMAIN rows})
  /\ \A i \in DOMAIN rows :
       /\ IsLevels(rows[i])
       /\ rows[i].entry \in Entry /\ bought[rows[i].entry].status # "NONE"
  /\ rows # <<>> => \E i \in DOMAIN rows : Heads(rows, i)

(* An entry between its fill and its levels has no row yet.                   *)
BuyerIsNew ==
  buyer # NoBuyer =>
    /\ bought[buyer].status # "NONE" /\ bought[buyer].day \in Days
    /\ \A i \in DOMAIN rows : rows[i].entry # buyer

(* What a run is about to advance is in force, or another entry's levels are. *)
AdvancesCurrent ==
  \A c \in Daily : sweep[c].pc = "advance" =>
    /\ rows # <<>> /\ IsLevels(sweep[c].row)
    /\ \E i \in DOMAIN rows : rows[i].entry = sweep[c].row.entry
    /\ Latest(rows) = sweep[c].row \/ Latest(rows).entry # sweep[c].row.entry

StopInv == StopTyped /\ RowsInForce /\ BuyerIsNew /\ AdvancesCurrent

-----------------------------------------------------------------------------
(* One row heads a sequence, so that Latest is that row.                      *)
LEMMA LatestHeads ==
  ASSUME NEW r, NEW i \in DOMAIN r, Heads(r, i), DOMAIN r \subseteq Nat,
         \A j \in DOMAIN r : r[j].at \in Int
  PROVE  Latest(r) = r[i]
<1>1. \A j \in DOMAIN r : Heads(r, j) => j = i
  <2> SUFFICES ASSUME NEW j \in DOMAIN r, Heads(r, j) PROVE j = i
    OBVIOUS
  <2>1. i \in Nat /\ j \in Nat /\ r[i].at \in Int /\ r[j].at \in Int
    OBVIOUS
  <2>2. r[j].at < r[i].at \/ (r[j].at = r[i].at /\ j <= i)
    BY DEF Heads
  <2>3. r[i].at < r[j].at \/ (r[i].at = r[j].at /\ i <= j)
    BY DEF Heads
  <2> QED
    BY <2>1, <2>2, <2>3
<1>2. (CHOOSE j \in DOMAIN r : Heads(r, j)) = i
  BY <1>1
<1> QED
  BY <1>2 DEF Latest, Heads

LEMMA LevelsAreInts ==
  \A row : IsLevels(row) => row.at \in Int /\ row.stop \in Int /\ row.average \in Int /\ row.high \in Int
  BY DEF IsLevels

LEMMA RowsType == RowsInForce => /\ Len(rows) \in Nat /\ DOMAIN rows = 1..Len(rows)
                                 /\ rows = <<>> <=> Len(rows) = 0
  BY DEF RowsInForce

(* Whatever row is saved: one is in force, the new or the old one.            *)
LEMMA SavedHeads ==
  ASSUME RowsInForce, NEW row, IsLevels(row)
  PROVE  LET r == Saved(row) IN
         /\ r \in Seq({r[i] : i \in DOMAIN r})
         /\ \A i \in DOMAIN r : r[i] = row \/ (i \in DOMAIN rows /\ r[i] = rows[i])
         /\ \A i \in DOMAIN rows : i \in DOMAIN r /\ r[i] = rows[i]
         /\ r # <<>>
         /\ \E i \in DOMAIN r : Heads(r, i)
         /\ Latest(r) = row \/ (rows # <<>> /\ Latest(r) = Latest(rows))
<1> DEFINE r == Append(rows, row)
<1>1. CASE \E i \in DOMAIN rows : rows[i].at = row.at /\ rows[i].stop = row.stop /\ rows[i].remaining = row.remaining
  <2>1. Saved(row) = rows
    BY <1>1 DEF Saved
  <2>2. rows # <<>>
    BY <1>1
  <2> QED
    BY <2>1, <2>2 DEF RowsInForce
<1>2. CASE ~ \E i \in DOMAIN rows : rows[i].at = row.at /\ rows[i].stop = row.stop /\ rows[i].remaining = row.remaining
  <2>1. Saved(row) = r
    BY <1>2 DEF Saved
  <2>2. /\ rows \in Seq({rows[i] : i \in DOMAIN rows})
        /\ Len(rows) \in Nat /\ DOMAIN rows = 1..Len(rows)
    BY RowsType DEF RowsInForce
  <2>3. /\ DOMAIN r = 1..(Len(rows) + 1) /\ Len(r) = Len(rows) + 1
        /\ r[Len(rows) + 1] = row /\ \A i \in 1..Len(rows) : r[i] = rows[i]
    BY <2>2
  <2>4. r \in Seq({r[i] : i \in DOMAIN r})
    <3> DEFINE S == {rows[i] : i \in DOMAIN rows} \cup {row}
    <3>1. rows \in Seq(S)
      BY <2>2, SeqDef
    <3>2. r \in Seq(S)
      BY <3>1
    <3> HIDE DEF r, S
    <3>3. r \in [1..Len(r) -> {r[i] : i \in DOMAIN r}] /\ Len(r) \in Nat
      BY <3>2
    <3> QED
      BY <3>3, SeqDef
  <2>5. Len(rows) + 1 \in DOMAIN r /\ r # <<>>
    BY <2>2, <2>3
  <2>6. \A i \in DOMAIN r : r[i] = row \/ (i \in DOMAIN rows /\ r[i] = rows[i])
    BY <2>2, <2>3
  <2>7. \A i \in DOMAIN rows : i \in DOMAIN r /\ r[i] = rows[i]
    BY <2>2, <2>3
  <2>8. DOMAIN r \subseteq Nat /\ \A j \in DOMAIN r : r[j].at \in Int
    BY <2>2, <2>3, <2>6, LevelsAreInts DEF RowsInForce
  <2> HIDE DEF r
  <2>9. \/ Heads(r, Len(rows) + 1)
        \/ rows # <<>> /\ \E i \in DOMAIN rows : Heads(rows, i) /\ Heads(r, i)
    <3>1. CASE rows = <<>>
      <4>1. DOMAIN r = {Len(rows) + 1}
        BY <2>2, <2>3, <3>1
      <4> QED
        BY <4>1, <2>8, <2>2 DEF Heads
    <3>2. CASE rows # <<>>
      <4>1. PICK i \in DOMAIN rows : Heads(rows, i)
        BY <3>2 DEF RowsInForce
      <4>2. rows[i].at \in Int /\ row.at \in Int /\ i \in Nat /\ i < Len(rows) + 1 /\ r[i] = rows[i]
        BY <2>2, <2>3, LevelsAreInts DEF RowsInForce
      <4>3. \A j \in DOMAIN rows : rows[j].at \in Int /\ j \in Nat /\ j <= Len(rows)
        BY <2>2, LevelsAreInts DEF RowsInForce
      <4>4. \A j \in DOMAIN rows : rows[j].at < rows[i].at \/ (rows[j].at = rows[i].at /\ j <= i)
        BY <4>1 DEF Heads
      <4>5. \A j \in DOMAIN r : j = Len(rows) + 1 \/ (j \in DOMAIN rows /\ r[j] = rows[j])
        BY <2>2, <2>3
      <4>6. CASE row.at < rows[i].at
        <5>1. \A j \in DOMAIN r : r[j].at < r[i].at \/ (r[j].at = r[i].at /\ j <= i)
          BY <2>3, <4>2, <4>3, <4>4, <4>5, <4>6
        <5> QED
          BY <3>2, <4>1, <5>1 DEF Heads
      <4>7. CASE ~(row.at < rows[i].at)
        <5>1. \A j \in DOMAIN r : r[j].at < row.at \/ (r[j].at = row.at /\ j <= Len(rows) + 1)
          BY <2>2, <2>3, <4>2, <4>3, <4>4, <4>5, <4>7
        <5> QED
          BY <2>3, <5>1 DEF Heads
      <4> QED
        BY <4>6, <4>7
    <3> QED
      BY <3>1, <3>2
  <2>10. CASE Heads(r, Len(rows) + 1)
    <3>1. Latest(r) = row
      BY <2>3, <2>5, <2>8, <2>10, LatestHeads
    <3> QED
      BY <2>1, <2>4, <2>5, <2>6, <2>7, <2>10, <3>1
  <2>11. ASSUME rows # <<>>, NEW i \in DOMAIN rows, Heads(rows, i), Heads(r, i)
         PROVE  i \in DOMAIN r /\ Latest(r) = Latest(rows)
    <3>1. i \in DOMAIN r /\ r[i] = rows[i]
      BY <2>7, <2>11
    <3>2. Latest(r) = r[i]
      BY <2>8, <2>11, <3>1, LatestHeads
    <3>3. DOMAIN rows \subseteq Nat /\ \A j \in DOMAIN rows : rows[j].at \in Int
      BY <2>2, LevelsAreInts DEF RowsInForce
    <3>4. Latest(rows) = rows[i]
      BY <2>11, <3>3, LatestHeads
    <3> QED
      BY <3>1, <3>2, <3>4
  <2> QED
    BY <2>1, <2>4, <2>5, <2>6, <2>7, <2>9, <2>10, <2>11
<1> QED
  BY <1>1, <1>2

(* The row in force is one of the rows.                                       *)
LEMMA LatestIsRow ==
  ASSUME RowsInForce, rows # <<>>
  PROVE  \E i \in DOMAIN rows : Latest(rows) = rows[i]
<1>1. PICK i \in DOMAIN rows : Heads(rows, i)
  BY DEF RowsInForce
<1>2. DOMAIN rows \subseteq Nat /\ \A j \in DOMAIN rows : rows[j].at \in Int
  BY RowsType, LevelsAreInts DEF RowsInForce
<1> QED
  BY <1>1, <1>2, LatestHeads

(* The greatest of a stop and at most two others.                             *)
LEMMA MaxAdds ==
  ASSUME NEW s \in Int, NEW A \in {{}} \cup {{a} : a \in Int},
         NEW B \in {{}} \cup {{b} : b \in Int}
  PROVE  Max({s} \cup A \cup B) \in Int /\ Max({s} \cup A \cup B) >= s
<1> DEFINE S == {s} \cup A \cup B
<1>1. \E m \in S : \A y \in S : m >= y
  OBVIOUS
<1>2. Max(S) \in S /\ \A y \in S : Max(S) >= y
  BY <1>1 DEF Max
<1>3. S \subseteq Int /\ s \in S
  OBVIOUS
<1> HIDE DEF S
<1>4. Max(S) \in Int /\ Max(S) >= s
  BY <1>2, <1>3
<1> QED
  BY <1>4 DEF S
(* A day's advance keeps the entry and never lowers the stop.                 *)
LEMMA AdvanceRaises ==
  ASSUME StopTyped, NEW row, IsLevels(row), NEW n, NEW d \in Days
  PROVE  /\ IsLevels(Advanced(row, n, d))
         /\ Advanced(row, n, d).entry = row.entry
         /\ Advanced(row, n, d).stop >= row.stop
<1> DEFINE p == market[d].price
           up == p - row.average
           risk == row.average - row.first
           high == Max({row.high, p})
           low == high - market[d].atr * TrailMultiple
           even == IF up >= BreakevenAt * risk THEN {row.average} ELSE {}
           trail == IF up >= TrailAt * risk /\ market[d].atr > 0 THEN {low} ELSE {}
           stop == Max({row.stop} \cup even \cup trail)
<1>1. p \in Int /\ market[d].atr \in Int /\ TrailMultiple \in Int
  BY LifecycleAssumption DEF StopTyped
<1>2. row.average \in Int /\ row.stop \in Int /\ row.high \in Int
  BY LevelsAreInts
<1>3. high \in Int
  <2>1. {row.high, p} = {row.high} \cup {p} \cup {}
    OBVIOUS
  <2>2. Max({row.high} \cup {p} \cup {}) \in Int
    <3>1. {p} \in {{}} \cup {{a} : a \in Int} /\ {} \in {{}} \cup {{b} : b \in Int}
      BY <1>1
    <3> HIDE DEF p
    <3> QED
      BY <1>2, <3>1, MaxAdds
  <2> QED
    BY <2>1, <2>2
<1>4. low \in Int
  <2> HIDE DEF high
  <2> QED
    BY <1>1, <1>3
<1>5. stop \in Int /\ stop >= row.stop
  <2> HIDE DEF low, up, risk
  <2>1. even \in {{}} \cup {{a} : a \in Int} /\ trail \in {{}} \cup {{b} : b \in Int}
    BY <1>2, <1>4
  <2> HIDE DEF even, trail
  <2> QED
    BY <1>2, <2>1, MaxAdds
<1>6. Advanced(row, n, d) =
        [row EXCEPT !.remaining = n, !.stop = stop, !.high = high, !.at = d]
  BY DEF Advanced
<1>7. d \in Int
  BY LifecycleAssumption DEF Days
<1> HIDE DEF stop, high
<1>8. Advanced(row, n, d) =
        [entry |-> row.entry, original |-> row.original, remaining |-> n, average |-> row.average,
         first |-> row.first, stop |-> stop, target |-> row.target, high |-> high, at |-> d]
  BY <1>6 DEF IsLevels
<1> QED
  BY <1>2, <1>3, <1>5, <1>7, <1>8 DEF IsLevels

-----------------------------------------------------------------------------
LEMMA StopInitially == ExitInit => StopInv
<1> SUFFICES ASSUME ExitInit PROVE StopInv
  OBVIOUS
<1>1. StopTyped
  <2>1. today \in Days /\ market \in [Days -> [price : Price, atr : Atr]]
    BY LifecycleAssumption DEF ExitInit, Days
  <2>2. /\ sweep = [c \in Daily |-> sweep[c]]
        /\ \A c \in Daily : sweep[c] = Resting
    BY DEF ExitInit
  <2>3. IsRun(Resting) /\ Resting.pc = "idle"
    BY DEF IsRun, RunFields, Resting
  <2> QED
    BY <2>1, <2>2, <2>3 DEF StopTyped, ExitInit, NoOrder
<1>2. RowsInForce
  BY DEF ExitInit, RowsInForce
<1>3. BuyerIsNew /\ AdvancesCurrent
  BY DEF ExitInit, BuyerIsNew, AdvancesCurrent, Resting
<1> QED
  BY <1>1, <1>2, <1>3 DEF StopInv

(* What the other steps leave of the rows: they are kept, and so is who has   *)
(* been bought.                                                               *)
BoughtStays == \A e \in Entry : bought[e].status # "NONE" => bought'[e].status # "NONE" /\ bought'[e].day = bought[e].day

LEMMA RunsBecome ==
  ASSUME StopTyped, NEW c \in Daily, NEW new, Become(c, new), IsRun(new), new.pc # "idle" => new.day \in Days
  PROVE  /\ sweep' = [d \in Daily |-> sweep'[d]]
         /\ \A d \in Daily : IsRun(sweep'[d]) /\ (sweep'[d].pc # "idle" => sweep'[d].day \in Days)
         /\ sweep'[c] = new /\ \A d \in Daily : d # c => sweep'[d] = sweep[d]
<1>1. \A d \in Daily : sweep'[d] = IF d = c THEN new ELSE sweep[d]
  BY DEF Become, StopTyped
<1>2. sweep' = [d \in Daily |-> sweep'[d]]
  BY DEF Become, StopTyped
<1> QED
  BY <1>1, <1>2 DEF StopTyped

LEMMA TypedSteps ==
  ASSUME StopInv, [ExitNext]_exitVars PROVE StopTyped' /\ BoughtStays
<1> DEFINE Orders == [status : {"NONE", "FILLED", "PENDING_SUBMISSION", "EXPIRED"}, filled : BOOLEAN,
                      shares : Nat, limit : Nat, day : Days \cup {0}, why : {"NONE", "ENTRY"},
                      of : Entry \cup {NoBuyer}]
<1> USE DEF StopInv
<1>1. today' \in Days /\ market' \in [Days -> [price : Price, atr : Atr]]
  <2>1. CASE DayEnds
    <3>1. today' \in Days
      <4>1. LastDay \in Nat
        BY LifecycleAssumption
      <4>2. today \in Days /\ today < LastDay /\ today' = today + 1
        BY <2>1 DEF DayEnds, StopTyped
      <4> QED
        BY <4>1, <4>2 DEF Days
    <3> QED
      BY <2>1, <3>1 DEF DayEnds, StopTyped
  <2>2. CASE ~DayEnds
    <3>1. today' = today /\ market' = market
      BY <2>2 DEF ExitNext, exitVars, Protect, RequestExit, Die, Buy, RunStep, Begin, BuyListed, SellListed,
                  ExpireListed, Look, Advance, Decide, Order
    <3> QED
      BY <3>1 DEF StopTyped
  <2> QED
    BY <2>1, <2>2
<1>2. bought' \in [Entry -> Orders] /\ buyer' \in Entry \cup {NoBuyer} /\ BoughtStays
  <2>1. ASSUME NEW e \in Entry, Buy(e) PROVE <1>2!:
    <3>1. market[today].price \in Nat /\ Size \in Nat /\ today \in Days
      BY LifecycleAssumption DEF StopTyped
    <3>2. PICK quoted \in BOOLEAN :
            /\ bought' = [bought EXCEPT ![e] =
                 [status |-> IF quoted THEN "FILLED" ELSE "PENDING_SUBMISSION", filled |-> quoted,
                  shares |-> Size, limit |-> market[today].price, day |-> today, why |-> "ENTRY", of |-> e]]
            /\ buyer' = IF quoted THEN e ELSE buyer
      BY <2>1 DEF Buy
    <3>3. bought[e].status = "NONE"
      BY <2>1 DEF Buy
    <3>4. bought' \in [Entry -> Orders]
      BY <3>1, <3>2 DEF StopTyped
    <3> QED
      BY <3>2, <3>3, <3>4 DEF StopTyped, BoughtStays
  <2>2. ASSUME NEW c \in Daily, NEW e \in Entry, BuyListed(c, e) PROVE <1>2!:
    BY <2>2 DEF BuyListed, StopTyped, BoughtStays
  <2>3. ASSUME NEW c \in Daily, NEW o, ExpireListed(c, o) PROVE <1>2!:
    BY <2>3 DEF ExpireListed, StopTyped, BoughtStays
  <2>4. CASE UNCHANGED bought /\ buyer' \in {buyer, NoBuyer}
    BY <2>4 DEF StopTyped, BoughtStays
  <2>5. ASSUME ~ \E e \in Entry : Buy(e),
               ~ \E c \in Daily, e \in Entry : BuyListed(c, e),
               ~ \E c \in Daily : \E o \in sweep[c].todo : ExpireListed(c, o)
        PROVE  UNCHANGED bought /\ buyer' \in {buyer, NoBuyer}
    BY <2>5 DEF ExitNext, exitVars, bookVars, DayEnds, Protect, RequestExit, Die, RunStep, Begin, SellListed,
                Look, Advance, Decide, Order
  <2> QED
    BY <2>1, <2>2, <2>3, <2>4, <2>5
<1>3. /\ sweep' = [d \in Daily |-> sweep'[d]]
      /\ \A d \in Daily : IsRun(sweep'[d]) /\ (sweep'[d].pc # "idle" => sweep'[d].day \in Days)
  <2>1. ASSUME NEW c \in Daily, RunStep(c) PROVE <1>3!:
    <3> DEFINE k == sweep[c]
    <3>1. IsRun(k) /\ (k.pc # "idle" => k.day \in Days)
      BY DEF StopTyped
    <3>2. CASE Begin(c)
      <4> DEFINE new == [Resting EXCEPT !.pc = "orders", !.day = today,
                                        !.todo = {<<"BUY", e>> : e \in Unfilled(bought)}
                                                   \cup {<<"SELL", d>> : d \in Unfilled(sold)}]
      <4>1. Become(c, new)
        BY <3>2 DEF Begin
      <4>5. IsRun(new) /\ new.day = today
        BY DEF IsRun, RunFields, Resting
      <4>3. today \in Days
        BY DEF StopTyped
      <4> HIDE DEF new
      <4> QED
        BY <4>1, <4>3, <4>5, RunsBecome
    <3>3. ASSUME NEW new, Become(c, new), IsRun(new), new.day = k.day, new.pc = "idle" \/ k.pc # "idle"
          PROVE  <1>3!:
      <4> HIDE DEF k
      <4> QED
        BY <3>1, <3>3, RunsBecome DEF k
    <3>4. ASSUME NEW o,
                 Become(c, [k EXCEPT !.todo = @ \ {o}]) PROVE <1>3!:
      <4> DEFINE new == [k EXCEPT !.todo = @ \ {o}]
      <4>1. IsRun(new) /\ new.day = k.day /\ new.pc = k.pc
        BY <3>1 DEF IsRun, RunFields
      <4> HIDE DEF new
      <4> QED
        BY <3>1, <3>4, <4>1, RunsBecome DEF new
    <3>5. ASSUME NEW pc, k.pc # "idle", Proceed(c, pc) PROVE <1>3!:
      <4> DEFINE new == [k EXCEPT !.pc = pc]
      <4>1. IsRun(new) /\ new.day = k.day
        BY <3>1 DEF IsRun, RunFields
      <4>2. Become(c, new)
        BY <3>5 DEF Proceed
      <4> HIDE DEF new
      <4> QED
        BY <3>3, <3>5, <4>1, <4>2
    <3>6. CASE \/ \E e \in Entry : BuyListed(c, e)
               \/ \E s \in Days : SellListed(c, s)
               \/ \E o \in sweep[c].todo : ExpireListed(c, o)
      BY <3>4, <3>6 DEF BuyListed, SellListed, ExpireListed
    <3>7. CASE Look(c)
      <4> DEFINE pc == IF rows # <<>> /\ market[k.day].price > 0 THEN "advance" ELSE "decide"
                 row == IF rows = <<>> THEN NoRow ELSE Latest(rows)
                 wish == asked /\ \A d \in Days : decided[d] # "MANUAL"
                 new == [k EXCEPT !.pc = pc, !.held = position.held, !.paid = position.paid,
                                  !.over = position.over, !.opened = lots[Min(OpenLots)].day, !.row = row, !.wish = wish]
      <4>1. k.pc = "orders" /\ (Proceed(c, "done") \/ Proceed(c, "failed") \/ Become(c, new))
        BY <3>7 DEF Look
      <4> HIDE DEF pc, row, wish
      <4>2. IsRun(new) /\ new.day = k.day
        BY <3>1 DEF IsRun, RunFields
      <4> HIDE DEF new
      <4> QED
        BY <3>3, <3>5, <4>1, <4>2
    <3>8. CASE Advance(c)
      <4> DEFINE row == Advanced(k.row, k.held, k.day)
                 new == [k EXCEPT !.pc = "decide", !.row = row]
      <4>1. k.pc = "advance" /\ Become(c, new)
        BY <3>8 DEF Advance
      <4> HIDE DEF row, k
      <4>2. IsRun(new) /\ new.day = k.day
        BY <3>1 DEF IsRun, RunFields
      <4> HIDE DEF new
      <4> QED
        BY <3>3, <4>1, <4>2
    <3>9. CASE Decide(c)
      <4> DEFINE what == Decision(k)
                 n == IF what = "PARTIAL" THEN Part(k) ELSE k.held
                 held == [k EXCEPT !.pc = "done"]
                 new == [k EXCEPT !.pc = "order", !.what = what, !.shares = n]
      <4>1. k.pc = "decide" /\ (Become(c, held) \/ Become(c, new))
        BY <3>9 DEF Decide
      <4> HIDE DEF what, n, k
      <4>2. IsRun(new) /\ new.day = k.day /\ IsRun(held) /\ held.day = k.day
        BY <3>1 DEF IsRun, RunFields
      <4> HIDE DEF new, held
      <4> QED
        BY <3>3, <4>1, <4>2
    <3>10. CASE Order(c)
      BY <3>5, <3>10 DEF Order
    <3> QED
      BY <2>1, <3>2, <3>6, <3>7, <3>8, <3>9, <3>10 DEF RunStep
  <2>2. CASE Die
    <3>1. IsRun(Resting) /\ Resting.pc = "idle"
      BY DEF IsRun, RunFields, Resting
    <3>2. sweep' = sweep \/ \E c \in Daily : Become(c, Resting)
      BY <2>2 DEF Die, Become
    <3>3. CASE sweep' = sweep
      BY <3>3 DEF StopTyped
    <3> QED
      BY <3>1, <3>2, <3>3, RunsBecome
  <2>3. CASE UNCHANGED sweep
    BY <2>3 DEF StopTyped
  <2> QED
    BY <2>1, <2>2, <2>3 DEF ExitNext, exitVars, DayEnds, Protect, RequestExit, Buy
<1> QED
  BY <1>1, <1>2, <1>3 DEF StopTyped
-----------------------------------------------------------------------------
(* A row that is saved is the one a cycle owes its entry, or what a run makes  *)
(* of the levels it looked up: levels of somebody who was bought.             *)
LEMMA ProtectSaves ==
  ASSUME StopInv, Protect
  PROVE  \E row : /\ IsLevels(row) /\ row.entry = buyer /\ rows' = Saved(row)
                  /\ buyer \in Entry /\ buyer # NoBuyer /\ bought[buyer].status # "NONE"
<1> DEFINE o == bought[buyer]
           stop == o.limit - StopMultiple * market[o.day].atr
           target == o.limit + TargetMultiple * market[o.day].atr
           row == [entry |-> buyer, original |-> o.shares, remaining |-> o.shares,
                   average |-> o.limit, first |-> stop, stop |-> stop, target |-> target,
                   high |-> o.limit, at |-> o.day]
<1>1. buyer \in Entry /\ buyer # NoBuyer /\ o.status # "NONE" /\ o.day \in Days
  BY DEF Protect, StopInv, StopTyped, BuyerIsNew
<1>2. o.limit \in Int /\ o.day \in Int /\ o.shares \in Int
  <2>1. o.limit \in Nat /\ o.shares \in Nat
    BY <1>1 DEF StopInv, StopTyped
  <2>2. o.day \in Nat
    BY <1>1, LifecycleAssumption DEF Days
  <2> QED
    BY <2>1, <2>2
<1>3. market[o.day].atr \in Int /\ StopMultiple \in Int /\ TargetMultiple \in Int
  BY <1>1, LifecycleAssumption DEF StopInv, StopTyped
<1>4. rows' = Saved(row)
  BY DEF Protect
<1>5. stop \in Int
  <2> HIDE DEF o
  <2> QED
    BY <1>2, <1>3
<1> HIDE DEF o, stop, target
<1>6. IsLevels(row) /\ row.entry = buyer
  BY <1>2, <1>5 DEF IsLevels
<1> HIDE DEF row
<1> QED
  BY <1>1, <1>4, <1>6 DEF o

LEMMA AdvanceSaves ==
  ASSUME StopInv, NEW c \in Daily, Advance(c)
  PROVE  \E row : /\ IsLevels(row) /\ row.entry = sweep[c].row.entry /\ row.stop >= sweep[c].row.stop
                  /\ rows' = Saved(row)
                  /\ \E i \in DOMAIN rows : rows[i].entry = row.entry
<1> DEFINE k == sweep[c]
           row == Advanced(k.row, k.held, k.day)
<1>1. k.pc = "advance" /\ rows' = Saved(row)
  BY DEF Advance
<1>2. IsLevels(k.row) /\ k.day \in Days /\ \E i \in DOMAIN rows : rows[i].entry = k.row.entry
  BY <1>1 DEF StopInv, AdvancesCurrent, StopTyped
<1>3. IsLevels(row) /\ row.entry = k.row.entry /\ row.stop >= k.row.stop
  BY <1>2, AdvanceRaises DEF StopInv
<1> HIDE DEF row
<1> QED
  BY <1>1, <1>2, <1>3

LEMMA OthersKeepRows ==
  [ExitNext]_exitVars /\ ~Protect /\ (\A c \in Daily : ~Advance(c)) => rows' = rows
BY DEF ExitNext, exitVars, DayEnds, RequestExit, Die, Buy, RunStep, Begin, BuyListed, SellListed,
       ExpireListed, Look, Decide, Order

(* Only a look makes a run ready to advance, with the levels in force.        *)
LEMMA LookBeforeAdvance ==
  ASSUME StopTyped, [ExitNext]_exitVars, NEW d \in Daily, sweep'[d].pc = "advance"
  PROVE  \/ sweep[d].pc = "advance" /\ sweep'[d].row = sweep[d].row /\ ~Advance(d)
         \/ rows' = rows /\ rows # <<>> /\ sweep'[d].row = Latest(rows)
<1> DEFINE k == sweep[d]
           Kept == sweep[d].pc = "advance" /\ sweep'[d].row = sweep[d].row
           Looked == rows' = rows /\ rows # <<>> /\ sweep'[d].row = Latest(rows)
<1>1. IsRun(k) /\ d \in DOMAIN sweep
  BY DEF StopTyped
<1>2. ASSUME NEW c \in Daily, NEW new, Become(c, new) PROVE sweep'[d] = IF c = d THEN new ELSE sweep[d]
  BY <1>1, <1>2 DEF Become
<1>3. ~Advance(d)
  <2> SUFFICES ASSUME Advance(d) PROVE FALSE
    OBVIOUS
  <2> DEFINE row == Advanced(k.row, k.held, k.day)
             new == [k EXCEPT !.pc = "decide", !.row = row]
  <2>1. sweep'[d] = new
    BY <1>2 DEF Advance
  <2> HIDE DEF row
  <2>2. new.pc = "decide"
    BY <1>1 DEF IsRun, RunFields
  <2> QED
    BY <2>1, <2>2
<1>4. ASSUME NEW o, Become(d, [k EXCEPT !.todo = @ \ {o}]) PROVE Kept
  <2> DEFINE new == [k EXCEPT !.todo = @ \ {o}]
  <2>1. new.pc = k.pc /\ new.row = k.row
    BY <1>1 DEF IsRun, RunFields
  <2>2. sweep'[d] = new
    BY <1>2, <1>4
  <2> HIDE DEF new
  <2> QED
    BY <2>1, <2>2
<1>5. ASSUME NEW pc, pc # "advance", Proceed(d, pc) PROVE FALSE
  <2> DEFINE new == [k EXCEPT !.pc = pc]
  <2>1. new.pc = pc
    BY <1>1 DEF IsRun, RunFields
  <2>2. sweep'[d] = new
    BY <1>2, <1>5 DEF Proceed
  <2> HIDE DEF new
  <2> QED
    BY <1>5, <2>1, <2>2
<1>6. ASSUME RunStep(d) PROVE Kept \/ Looked
  <2>1. CASE Begin(d)
    <3> DEFINE new == [Resting EXCEPT !.pc = "orders", !.day = today,
                                      !.todo = {<<"BUY", e>> : e \in Unfilled(bought)}
                                                 \cup {<<"SELL", s>> : s \in Unfilled(sold)}]
    <3>1. sweep'[d] = new
      BY <1>2, <2>1 DEF Begin
    <3>2. new.pc # "advance"
      BY DEF Resting
    <3> HIDE DEF new
    <3> QED
      BY <3>1, <3>2
  <2>2. CASE \/ \E e \in Entry : BuyListed(d, e)
             \/ \E s \in Days : SellListed(d, s)
             \/ \E o \in sweep[d].todo : ExpireListed(d, o)
    BY <1>4, <2>2 DEF BuyListed, SellListed, ExpireListed
  <2>3. CASE Look(d)
    <3> DEFINE pc == IF rows # <<>> /\ market[k.day].price > 0 THEN "advance" ELSE "decide"
               row == IF rows = <<>> THEN NoRow ELSE Latest(rows)
               wish == asked /\ \A e \in Days : decided[e] # "MANUAL"
               new == [k EXCEPT !.pc = pc, !.held = position.held, !.paid = position.paid,
                                !.over = position.over, !.opened = lots[Min(OpenLots)].day, !.row = row, !.wish = wish]
    <3>1. rows' = rows /\ (Proceed(d, "done") \/ Proceed(d, "failed") \/ Become(d, new))
      BY <2>3 DEF Look
    <3>2. Become(d, new)
      BY <1>5, <3>1
    <3>3. sweep'[d] = new
      <4> HIDE DEF new
      <4> QED
        BY <1>2, <3>2
    <3>4. pc = "advance" => rows # <<>> /\ row = Latest(rows)
      OBVIOUS
    <3> HIDE DEF pc, row, wish
    <3>5. new.pc = pc /\ new.row = row
      BY <1>1 DEF IsRun, RunFields
    <3> HIDE DEF new
    <3> QED
      BY <3>1, <3>3, <3>4, <3>5
  <2>4. CASE Decide(d)
    <3> DEFINE what == Decision(k)
               n == IF what = "PARTIAL" THEN Part(k) ELSE k.held
               held == [k EXCEPT !.pc = "done"]
               new == [k EXCEPT !.pc = "order", !.what = what, !.shares = n]
    <3>1. Become(d, held) \/ Become(d, new)
      BY <2>4 DEF Decide
    <3> HIDE DEF what, n
    <3>2. held.pc = "done" /\ new.pc = "order"
      BY <1>1 DEF IsRun, RunFields
    <3> HIDE DEF held, new
    <3>3. sweep'[d] = held \/ sweep'[d] = new
      BY <1>2, <3>1
    <3> QED
      BY <3>2, <3>3
  <2>5. CASE Order(d)
    BY <1>5, <2>5 DEF Order
  <2> QED
    BY <1>3, <1>6, <2>1, <2>2, <2>3, <2>4, <2>5 DEF RunStep
<1>7. ASSUME NEW c \in Daily, c # d, RunStep(c) PROVE Kept
  <2>1. \E new : Become(c, new)
    BY <1>7 DEF RunStep, Begin, BuyListed, SellListed, ExpireListed, Look, Advance, Decide, Order, Proceed
  <2> QED
    BY <1>2, <1>7, <2>1
<1>8. CASE Die
  <2>1. sweep' = sweep \/ \E c \in Daily : Become(c, Resting)
    BY <1>8 DEF Die, Become
  <2>2. Resting.pc # "advance"
    BY DEF Resting
  <2> QED
    BY <1>2, <1>3, <2>1, <2>2
<1>9. CASE UNCHANGED sweep
  BY <1>3, <1>9
<1> QED
  BY <1>3, <1>6, <1>7, <1>8, <1>9 DEF ExitNext, exitVars, DayEnds, Protect, RequestExit, Buy

-----------------------------------------------------------------------------
LEMMA RowsSteps ==
  ASSUME StopInv, [ExitNext]_exitVars, BoughtStays PROVE RowsInForce' /\ BuyerIsNew'
<1> USE DEF StopInv
<1>1. ASSUME NEW row, IsLevels(row), rows' = Saved(row), row.entry \in Entry, bought[row.entry].status # "NONE"
      PROVE  RowsInForce'
  <2> DEFINE r == Saved(row)
  <2>1. /\ r \in Seq({r[i] : i \in DOMAIN r})
        /\ \A i \in DOMAIN r : r[i] = row \/ (i \in DOMAIN rows /\ r[i] = rows[i])
        /\ \E i \in DOMAIN r : Heads(r, i)
    BY <1>1, SavedHeads
  <2>2. rows' = r
    BY <1>1
  <2> HIDE DEF r
  <2>3. \A i \in DOMAIN rows' : /\ IsLevels(rows'[i]) /\ rows'[i].entry \in Entry
                                /\ bought'[rows'[i].entry].status # "NONE"
    BY <1>1, <2>1, <2>2 DEF RowsInForce, BoughtStays
  <2> QED
    BY <2>1, <2>2, <2>3 DEF RowsInForce
<1>2. CASE Protect
  <2>1. PICK row : /\ IsLevels(row) /\ row.entry = buyer /\ rows' = Saved(row)
                   /\ buyer \in Entry /\ buyer # NoBuyer /\ bought[buyer].status # "NONE"
    BY <1>2, ProtectSaves
  <2>2. BuyerIsNew'
    BY <1>2 DEF Protect, BuyerIsNew
  <2> QED
    BY <1>1, <2>1, <2>2
<1>3. ASSUME NEW c \in Daily, Advance(c) PROVE RowsInForce' /\ BuyerIsNew'
  <2>1. PICK row : /\ IsLevels(row) /\ rows' = Saved(row) /\ \E i \in DOMAIN rows : rows[i].entry = row.entry
    BY <1>3, AdvanceSaves
  <2>2. row.entry \in Entry /\ bought[row.entry].status # "NONE"
    BY <2>1 DEF RowsInForce
  <2>3. \A i \in DOMAIN rows' : rows'[i] = row \/ (i \in DOMAIN rows /\ rows'[i] = rows[i])
    BY <2>1, SavedHeads
  <2>4. buyer' = buyer /\ bought' = bought
    BY <1>3 DEF Advance, bookVars
  <2>5. BuyerIsNew'
    BY <2>1, <2>3, <2>4 DEF BuyerIsNew
  <2> QED
    BY <1>1, <2>1, <2>2, <2>5
<1>4. CASE ~Protect /\ \A c \in Daily : ~Advance(c)
  <2>1. rows' = rows
    BY <1>4, OthersKeepRows
  <2>2. RowsInForce'
    BY <2>1 DEF RowsInForce, BoughtStays, Heads, IsLevels
  <2>3. ASSUME NEW e \in Entry, Buy(e) PROVE BuyerIsNew'
    <3>1. buyer = NoBuyer /\ bought[e].status = "NONE" /\ buyer' \in {buyer, e}
      BY <2>3 DEF Buy
    <3>2. bought'[e].status # "NONE" /\ bought'[e].day = today
      BY <2>3 DEF Buy, StopTyped
    <3>3. \A i \in DOMAIN rows : rows[i].entry # e
      BY <3>1 DEF RowsInForce
    <3> QED
      BY <2>1, <3>1, <3>2, <3>3 DEF BuyerIsNew, StopTyped
  <2>4. CASE buyer' \in {buyer, NoBuyer}
    <3>1. buyer \in Entry \cup {NoBuyer}
      BY DEF StopTyped
    <3>2. CASE buyer' # NoBuyer
      <4>1. buyer' = buyer /\ buyer \in Entry /\ buyer # NoBuyer
        BY <2>4, <3>1, <3>2
      <4>2. /\ bought[buyer].status # "NONE" /\ bought[buyer].day \in Days
            /\ \A i \in DOMAIN rows : rows[i].entry # buyer
        BY <4>1 DEF BuyerIsNew
      <4>3. bought'[buyer].status # "NONE" /\ bought'[buyer].day = bought[buyer].day
        BY <4>1, <4>2 DEF BoughtStays
      <4> QED
        BY <2>1, <2>2, <4>1, <4>2, <4>3 DEF BuyerIsNew
    <3>3. CASE buyer' = NoBuyer
      BY <2>2, <3>3 DEF BuyerIsNew
    <3> QED
      BY <3>2, <3>3
  <2>5. (\E e \in Entry : Buy(e)) \/ buyer' \in {buyer, NoBuyer}
    BY DEF ExitNext, exitVars, DayEnds, Protect, RequestExit, Die, RunStep, Begin, BuyListed, SellListed,
           ExpireListed, Look, Advance, Decide, Order
  <2> QED
    BY <2>2, <2>3, <2>4, <2>5
<1> QED
  BY <1>2, <1>3, <1>4

LEMMA AdvanceSteps ==
  ASSUME StopInv, [ExitNext]_exitVars, OneDailyRun, RowsInForce' PROVE AdvancesCurrent'
<1> USE DEF StopInv
<1> SUFFICES ASSUME NEW d \in Daily, sweep'[d].pc = "advance"
             PROVE  /\ rows' # <<>> /\ IsLevels(sweep'[d].row)
                    /\ \E i \in DOMAIN rows' : rows'[i].entry = sweep'[d].row.entry
                    /\ Latest(rows') = sweep'[d].row \/ Latest(rows').entry # sweep'[d].row.entry
  BY DEF AdvancesCurrent, IsLevels, Latest
<1>1. CASE rows' = rows /\ rows # <<>> /\ sweep'[d].row = Latest(rows)
  <2>1. PICK i \in DOMAIN rows : Latest(rows) = rows[i]
    BY <1>1, LatestIsRow
  <2> QED
    BY <1>1, <2>1 DEF RowsInForce
<1>2. CASE sweep[d].pc = "advance" /\ sweep'[d].row = sweep[d].row /\ ~Advance(d)
  <2> DEFINE k == sweep[d]
  <2>1. /\ rows # <<>> /\ IsLevels(k.row)
        /\ \E i \in DOMAIN rows : rows[i].entry = k.row.entry
        /\ Latest(rows) = k.row \/ Latest(rows).entry # k.row.entry
    BY <1>2 DEF AdvancesCurrent
  <2>2. \A c \in Daily : ~Advance(c)
    BY <1>2 DEF OneDailyRun
  <2>3. CASE Protect
    <3>1. PICK row : IsLevels(row) /\ row.entry = buyer /\ rows' = Saved(row) /\ buyer # NoBuyer
      BY <2>3, ProtectSaves
    <3>2. buyer # k.row.entry
      BY <2>1, <3>1 DEF BuyerIsNew
    <3>3. /\ \A i \in DOMAIN rows : i \in DOMAIN rows' /\ rows'[i] = rows[i]
          /\ rows' # <<>>
          /\ Latest(rows') = row \/ Latest(rows') = Latest(rows)
      BY <3>1, SavedHeads
    <3> QED
      BY <1>2, <2>1, <3>1, <3>2, <3>3
  <2>4. CASE ~Protect
    BY <1>2, <2>1, <2>2, <2>4, OthersKeepRows
  <2> QED
    BY <2>3, <2>4
<1> QED
  BY <1>1, <1>2, LookBeforeAdvance

LEMMA StopInvHolds == OneDailyRun => (ExitSpec => []StopInv)
<1> SUFFICES ASSUME OneDailyRun PROVE ExitSpec => []StopInv
  OBVIOUS
<1>1. StopInv /\ [ExitNext]_exitVars => StopInv'
  <2> SUFFICES ASSUME StopInv, [ExitNext]_exitVars PROVE StopInv'
    OBVIOUS
  <2>1. StopTyped' /\ BoughtStays
    BY TypedSteps
  <2>2. RowsInForce' /\ BuyerIsNew'
    BY <2>1, RowsSteps
  <2>3. AdvancesCurrent'
    BY <2>2, AdvanceSteps
  <2> QED
    BY <2>1, <2>2, <2>3 DEF StopInv
<1> QED
  BY <1>1, StopInitially, PTL DEF ExitSpec

\* Where a book has one lifecycle run at a time, the stop in force for an entry
\* never goes down: a run advances the levels in force, or levels that another
\* entry's have replaced meanwhile (advance_lifecycle_state,
\* latest_position_lifecycle_state).
THEOREM StopNeverFalls == OneDailyRun => (ExitSpec => StopNeverLoosens)
<1> SUFFICES ASSUME OneDailyRun PROVE ExitSpec => StopNeverLoosens
  OBVIOUS
<1>1. StopInv /\ [ExitNext]_exitVars =>
        [rows # <<>> /\ Latest(rows').entry = Latest(rows).entry
           => Latest(rows').stop >= Latest(rows).stop]_exitVars
  <2> SUFFICES ASSUME StopInv, [ExitNext]_exitVars, rows # <<>>, Latest(rows').entry = Latest(rows).entry
               PROVE  Latest(rows').stop >= Latest(rows).stop
    OBVIOUS
  <2> USE DEF StopInv
  <2>1. PICK i \in DOMAIN rows : Latest(rows) = rows[i]
    BY LatestIsRow
  <2>2. Latest(rows).stop \in Int
    BY <2>1, LevelsAreInts DEF RowsInForce
  <2>3. CASE Protect
    <3>1. PICK row : IsLevels(row) /\ row.entry = buyer /\ rows' = Saved(row) /\ buyer # NoBuyer
      BY <2>3, ProtectSaves
    <3>2. Latest(rows') = row \/ Latest(rows') = Latest(rows)
      BY <3>1, SavedHeads
    <3>3. Latest(rows).entry # buyer
      BY <2>1, <3>1 DEF BuyerIsNew
    <3> QED
      BY <2>2, <3>1, <3>2, <3>3
  <2>4. ASSUME NEW c \in Daily, Advance(c) PROVE Latest(rows').stop >= Latest(rows).stop
    <3>1. PICK row : /\ IsLevels(row) /\ row.entry = sweep[c].row.entry /\ row.stop >= sweep[c].row.stop
                     /\ rows' = Saved(row)
      BY <2>4, AdvanceSaves
    <3>2. Latest(rows') = row \/ Latest(rows') = Latest(rows)
      BY <3>1, SavedHeads
    <3>3. Latest(rows) = sweep[c].row \/ Latest(rows).entry # sweep[c].row.entry
      BY <2>4 DEF Advance, AdvancesCurrent
    <3> QED
      BY <2>2, <3>1, <3>2, <3>3
  <2>5. CASE ~Protect /\ \A c \in Daily : ~Advance(c)
    BY <2>2, <2>5, OthersKeepRows
  <2> QED
    BY <2>3, <2>4, <2>5
<1> QED
  BY <1>1, StopInvHolds, PTL DEF ExitSpec, StopNeverLoosens

-----------------------------------------------------------------------------
(* ActivationLog: replaying its events one by one.                            *)

(* A set that has zero, and with a number the next, has every number.         *)
LEMMA AllNumbers ==
  ASSUME NEW S, 0 \in S, \A n \in Nat : n \in S => n + 1 \in S
  PROVE  \A n \in Nat : n \in S
<1> DEFINE B == Nat \ S
<1> SUFFICES ASSUME B # {} PROVE FALSE
  OBVIOUS
<1>1. PICK m \in B : \A n \in B : ~ (<<n, m>> \in OpToRel(<, Nat))
  BY NatLessThanWellFounded, WFMin
<1>2. m \in Nat /\ m # 0
  OBVIOUS
<1>3. m - 1 \in Nat /\ m - 1 < m /\ (m - 1) + 1 = m
  BY <1>2
<1>4. m - 1 \notin B
  BY <1>1, <1>2, <1>3 DEF OpToRel
<1> QED
  BY <1>3, <1>4

(* The largest of a set of numbers up to k.                                   *)
LEMMA MaxUpTo ==
  ASSUME NEW k \in Nat, NEW s \in SUBSET (1..k), s # {}
  PROVE  Max(s) \in s /\ \A y \in s : Max(s) >= y
<1> DEFINE Has == {n \in Nat : \A d \in SUBSET (1..n) : d # {} => \E x \in d : \A y \in d : x >= y}
<1>1. 0 \in Has
  <2>1. 1..0 = {}
    OBVIOUS
  <2> QED
    BY <2>1
<1>2. ASSUME NEW n \in Nat, n \in Has PROVE n + 1 \in Has
  <2> SUFFICES ASSUME NEW d \in SUBSET (1..(n + 1)), d # {}
               PROVE  \E x \in d : \A y \in d : x >= y
    OBVIOUS
  <2>1. CASE n + 1 \in d
    BY <2>1
  <2>2. CASE n + 1 \notin d
    <3>1. d \in SUBSET (1..n)
      BY <2>2
    <3> QED
      BY <1>2, <3>1
  <2> QED
    BY <2>1, <2>2
<1>3. k \in Has
  <2> HIDE DEF Has
  <2> QED
    BY <1>1, <1>2, AllNumbers
<1>4. \E x \in s : \A y \in s : x >= y
  BY <1>3
<1> QED
  BY <1>4 DEF Max

(* Replaying the events up to place k, the way FoldLeft does.                 *)
Replays(g, l, k) ==
  g = [s \in SUBSET (1..k) |-> IF s = {} THEN Inactive ELSE Apply(g[s \ {Max(s)}], l[Max(s)])]

Replay(l) == FoldLeft(Apply, Inactive, l)

(* A replay is the value of the recursive function of these folds.            *)
LEMMA ReplayIsRecursive ==
  ASSUME NEW l, NEW k, DOMAIN l = 1..k
  PROVE  Replay(l) = (CHOOSE g : Replays(g, l, k))[1..k]
  BY DEF Replay, FoldLeft, MapThenFoldSet, Replays

(* That function at a set of places.                                          *)
LEMMA ReplaysUnfold ==
  ASSUME NEW l, NEW k, NEW g, Replays(g, l, k), NEW s \in SUBSET (1..k)
  PROVE  g[s] = IF s = {} THEN Inactive ELSE Apply(g[s \ {Max(s)}], l[Max(s)])
  BY DEF Replays

(* If it exists up to k it exists up to k + 1.                                *)
LEMMA ReplaysOneMore ==
  ASSUME NEW l, NEW k \in Nat, NEW g, Replays(g, l, k)
  PROVE  \E h : Replays(h, l, k + 1)
<1> DEFINE h == [s \in SUBSET (1..(k + 1)) |->
                   IF k + 1 \in s THEN Apply(g[s \ {k + 1}], l[k + 1]) ELSE g[s]]
<1>1. ASSUME NEW s \in SUBSET (1..(k + 1))
      PROVE  h[s] = IF s = {} THEN Inactive ELSE Apply(h[s \ {Max(s)}], l[Max(s)])
  <2>1. CASE k + 1 \in s
    <3>1. Max(s) = k + 1
      <4>1. Max(s) \in s /\ \A y \in s : Max(s) >= y
        <5>1. PICK n \in Nat : n = k + 1
          OBVIOUS
        <5>2. s \in SUBSET (1..n) /\ s # {}
          BY <2>1, <5>1
        <5> QED
          BY <5>2, MaxUpTo
      <4>2. PICK x : x = Max(s)
        OBVIOUS
      <4>3. x \in 1..(k + 1) /\ x >= k + 1
        BY <2>1, <4>1, <4>2
      <4> QED
        BY <4>2, <4>3
    <3>2. s \ {k + 1} \in SUBSET (1..(k + 1)) /\ k + 1 \notin s \ {k + 1}
      OBVIOUS
    <3>3. h[s \ {k + 1}] = g[s \ {k + 1}]
      BY <3>2
    <3>4. h[s] = Apply(g[s \ {k + 1}], l[k + 1])
      BY <2>1
    <3> QED
      BY <2>1, <3>1, <3>3, <3>4
  <2>2. CASE k + 1 \notin s
    <3>1. s \in SUBSET (1..k) /\ h[s] = g[s]
      BY <2>2
    <3>2. CASE s = {}
      BY <3>1, <3>2, ReplaysUnfold
    <3>3. CASE s # {}
      <4>1. s \ {Max(s)} \in SUBSET (1..(k + 1)) /\ k + 1 \notin s \ {Max(s)}
        BY <2>2
      <4>2. h[s \ {Max(s)}] = g[s \ {Max(s)}]
        BY <4>1
      <4>3. g[s] = IF s = {} THEN Inactive ELSE Apply(g[s \ {Max(s)}], l[Max(s)])
        BY <3>1 DEF Replays
      <4> QED
        BY <3>1, <3>3, <4>2, <4>3
    <3> QED
      BY <3>2, <3>3
  <2> QED
    BY <2>1, <2>2
<1>2. Replays(h, l, k + 1)
  BY <1>1 DEF Replays
<1> QED
  BY <1>2

(* It exists for every length.                                                *)
LEMMA ReplaysExist ==
  ASSUME NEW l, NEW k \in Nat
  PROVE  Replays(CHOOSE g : Replays(g, l, k), l, k)
<1> DEFINE Has == {n \in Nat : \E g : Replays(g, l, n)}
<1>1. 0 \in Has
  <2> DEFINE g == [s \in SUBSET (1..0) |-> Inactive]
  <2>1. \A s \in SUBSET (1..0) : s = {}
    OBVIOUS
  <2>2. Replays(g, l, 0)
    BY <2>1 DEF Replays
  <2> QED
    BY <2>2
<1>2. ASSUME NEW n \in Nat, n \in Has PROVE n + 1 \in Has
  BY <1>2, ReplaysOneMore
<1>3. k \in Has
  <2> HIDE DEF Has
  <2> QED
    BY <1>1, <1>2, AllNumbers
<1> QED
  BY <1>3

(* What a replay does with the events one after another.                      *)
LEMMA ReplaySteps ==
  ASSUME NEW l, NEW k \in Nat, NEW g, Replays(g, l, k), NEW j \in Nat, j < k
  PROVE  g[1..(j + 1)] = Apply(g[1..j], l[j + 1])
<1>1. 1..(j + 1) \in SUBSET (1..k) /\ 1..(j + 1) # {}
  OBVIOUS
<1>2. Max(1..(j + 1)) = j + 1
  <2>1. Max(1..(j + 1)) \in 1..(j + 1) /\ \A y \in 1..(j + 1) : Max(1..(j + 1)) >= y
    <3>1. PICK n \in Nat : n = j + 1
      OBVIOUS
    <3>2. 1..n \in SUBSET (1..n) /\ 1..n # {}
      BY <3>1
    <3>3. Max(1..n) \in 1..n /\ \A y \in 1..n : Max(1..n) >= y
      BY <3>2, MaxUpTo
    <3> QED
      BY <3>1, <3>3
  <2> QED
    BY <2>1
<1>3. (1..(j + 1)) \ {j + 1} = 1..j
  OBVIOUS
<1>4. PICK s : s = 1..(j + 1)
  OBVIOUS
<1>5. g[s] = IF s = {} THEN Inactive ELSE Apply(g[s \ {Max(s)}], l[Max(s)])
  BY <1>1, <1>4 DEF Replays
<1> QED
  BY <1>1, <1>2, <1>3, <1>4, <1>5

(* No event leaves the scheduler inactive.                                    *)
LEMMA ReplayEmpty == Replay(<<>>) = Inactive
<1> DEFINE g == CHOOSE f : Replays(f, <<>>, 0)
<1>1. Replays(g, <<>>, 0) /\ Replay(<<>>) = g[1..0]
  BY ReplaysExist, ReplayIsRecursive
<1>2. 1..0 = {} /\ {} \in SUBSET (1..0)
  OBVIOUS
<1> HIDE DEF g
<1> QED
  BY <1>1, <1>2, ReplaysUnfold

(* An event at the end is applied last.                                       *)
LEMMA ReplayAppends ==
  ASSUME NEW k \in Nat, NEW l, NEW m, DOMAIN l = 1..k, DOMAIN m = 1..(k + 1),
         \A i \in 1..k : m[i] = l[i]
  PROVE  Replay(m) = Apply(Replay(l), m[k + 1])
<1> DEFINE g == CHOOSE f : Replays(f, l, k)
           h == CHOOSE f : Replays(f, m, k + 1)
<1>1. Replays(g, l, k) /\ Replay(l) = g[1..k]
  BY ReplaysExist, ReplayIsRecursive
<1>2. Replays(h, m, k + 1) /\ Replay(m) = h[1..(k + 1)]
  BY ReplaysExist, ReplayIsRecursive, k + 1 \in Nat
<1> HIDE DEF g, h
<1> DEFINE Same == {j \in Nat : j <= k => g[1..j] = h[1..j]}
<1>3. 0 \in Same
  <2>1. 1..0 = {} /\ {} \in SUBSET (1..k) /\ {} \in SUBSET (1..(k + 1))
    OBVIOUS
  <2>2. g[{}] = Inactive
    BY <1>1, <2>1, ReplaysUnfold
  <2>3. h[{}] = Inactive
    BY <1>2, <2>1, ReplaysUnfold
  <2> QED
    BY <2>1, <2>2, <2>3
<1>4. ASSUME NEW j \in Nat, j \in Same PROVE j + 1 \in Same
  <2> SUFFICES ASSUME j + 1 <= k PROVE g[1..(j + 1)] = h[1..(j + 1)]
    OBVIOUS
  <2>1. g[1..j] = h[1..j] /\ m[j + 1] = l[j + 1]
    BY <1>4
  <2>2. g[1..(j + 1)] = Apply(g[1..j], l[j + 1])
    BY <1>1, ReplaySteps
  <2>3. h[1..(j + 1)] = Apply(h[1..j], m[j + 1])
    BY <1>2, ReplaySteps, k + 1 \in Nat
  <2> QED
    BY <2>1, <2>2, <2>3
<1>5. k \in Same
  <2> HIDE DEF Same
  <2> QED
    BY <1>3, <1>4, AllNumbers
<1>6. h[1..(k + 1)] = Apply(h[1..k], m[k + 1])
  BY <1>2, ReplaySteps, k + 1 \in Nat
<1> QED
  BY <1>1, <1>2, <1>5, <1>6

(* A replay ends in what one of the events says, or where it began.           *)
Outcome(event) == [state |-> event.new, id |-> event.id, req |-> event.req]

(* What it ends in.                                                           *)
LEMMA ReplayEnds ==
  ASSUME NEW k \in Nat, NEW l, DOMAIN l = 1..k
  PROVE  Replay(l) = Inactive \/ \E i \in 1..k : Replay(l) = Outcome(l[i])
<1> DEFINE g == CHOOSE f : Replays(f, l, k)
           Has == {j \in Nat : j <= k => g[1..j] = Inactive \/ \E i \in 1..k : g[1..j] = Outcome(l[i])}
<1>1. Replays(g, l, k) /\ Replay(l) = g[1..k]
  BY ReplaysExist, ReplayIsRecursive
<1> HIDE DEF g
<1>2. 0 \in Has
  <2>1. 1..0 = {} /\ {} \in SUBSET (1..k)
    OBVIOUS
  <2> QED
    BY <1>1, <2>1, ReplaysUnfold
<1>3. ASSUME NEW j \in Nat, j \in Has PROVE j + 1 \in Has
  <2> SUFFICES ASSUME j + 1 <= k
               PROVE  g[1..(j + 1)] = Inactive \/ \E i \in 1..k : g[1..(j + 1)] = Outcome(l[i])
    OBVIOUS
  <2>1. g[1..(j + 1)] = Apply(g[1..j], l[j + 1])
    <3>1. j < k
      OBVIOUS
    <3>2. Replays(g, l, k)
      BY <1>1
    <3> HIDE <1>1, <1>3
    <3> QED
      BY <3>1, <3>2, ReplaySteps
  <2>2. g[1..(j + 1)] = g[1..j] \/ g[1..(j + 1)] = Outcome(l[j + 1])
    BY <2>1 DEF Apply, Outcome
  <2> QED
    BY <1>3, <2>2
<1>4. k \in Has
  <2> HIDE DEF Has
  <2> QED
    BY <1>2, <1>3, AllNumbers
<1> QED
  BY <1>1, <1>4

-----------------------------------------------------------------------------
(* The activation table.                                                      *)

Activations == DOMAIN AllowedPrevious
Phase == Activations \cup {"INACTIVE"}
EventType == [id : Nat, new : Activations, prev : Phase, at : Nat, req : Nat]
CallType == [pc : {"idle", "read", "save"}, kind : Activations \cup {"none"}, at : Nat, req : Nat, prev : Phase]

(* LogTypeOK, with the calls and the events in full.                          *)
LogTyped ==
  /\ LogTypeOK
  /\ events \in Seq(EventType) /\ call \in [Caller -> CallType]
  /\ \A p \in Caller : call[p].pc # "idle" => call[p].kind \in Activations

(* Until two calls overlap, a call in flight has seen every event's instant,  *)
(* and what it read is what the replay still says.                            *)
StampsFollow == \A p \in Caller : call[p].pc # "idle" => \A i \in DOMAIN events : events[i].at <= call[p].at

ReadStands ==
  \A p \in Caller : call[p].pc = "save" =>
    /\ call[p].prev = Current.state /\ Current.state \in AllowedPrevious[call[p].kind]
    /\ call[p].kind = "ACTIVE" => call[p].req = Current.id

(* The inductive invariant.                                                   *)
LogInv ==
  /\ LogTyped
  /\ ~raced => StampsFollow /\ ReadStands /\ LastCallStands /\ ApprovesLastRequest

(* The empty table.                                                           *)
LEMMA LogInitially == LogInit => LogInv
<1> SUFFICES ASSUME LogInit PROVE LogInv
  OBVIOUS
<1>1. Current = Inactive
  BY ReplayEmpty DEF LogInit, Current, Replay
<1>2. events \in Seq(EventType) /\ DOMAIN events = {} /\ Len(events) = 0
  BY DEF LogInit
<1>3. NoCall \in CallType /\ NoCall.pc = "idle" /\ NoCall.at = 0 /\ NoCall.req = 0
  BY DEF NoCall, CallType, Phase
<1>4. call \in [Caller -> CallType] /\ \A p \in Caller : call[p] = NoCall
  BY <1>3 DEF LogInit
<1>5. LogTypeOK
  <2>1. clock \in 0..MaxLogTime /\ raced \in BOOLEAN /\ clock = 0
    <3>1. clock = 0 /\ raced = FALSE
      BY DEF LogInit
    <3>2. clock \in 0..MaxLogTime
      BY <3>1, ActivationAssumption
    <3>3. raced \in BOOLEAN
      BY <3>1
    <3> QED
      BY <3>1, <3>2, <3>3
  <2>2. Len(events) <= MaxEvents /\ DOMAIN events = {}
    BY <1>2, ActivationAssumption
  <2>3. ASSUME NEW p \in Caller
        PROVE  /\ call[p].pc \in {"idle", "read", "save"} /\ call[p].at \in 0..clock
               /\ call[p].prev \in DOMAIN AllowedPrevious \cup {"INACTIVE"} /\ call[p].req \in 0..Len(events)
    <3>1. call[p] = NoCall /\ NoCall.prev = "INACTIVE" /\ NoCall.pc = "idle" /\ NoCall.at = 0 /\ NoCall.req = 0
      BY <1>4 DEF NoCall
    <3>2. 0 \in 0..clock /\ 0 \in 0..Len(events)
      BY <1>2, <2>1
    <3> QED
      BY <3>1, <3>2
  <2> QED
    BY <2>1, <2>2, <2>3 DEF LogTypeOK
<1>6. Current.state = "INACTIVE" /\ events = <<>>
  BY <1>1 DEF Inactive, LogInit
<1> QED
  BY <1>2, <1>3, <1>4, <1>5, <1>6 DEF LogInv, LogTyped, StampsFollow, ReadStands, LastCallStands, ApprovesLastRequest

(* Numbers that the provers need.                                             *)
LEMMA LogNumbers == LogTyped => clock \in Nat /\ Len(events) \in Nat /\ 0 \in 0..clock /\ clock \in 0..clock /\ 0 \in 0..Len(events)
<1> SUFFICES ASSUME LogTyped PROVE clock \in Nat /\ Len(events) \in Nat
  OBVIOUS
<1>1. clock \in 0..MaxLogTime /\ MaxLogTime \in Nat
  BY ActivationAssumption DEF LogTyped, LogTypeOK
<1> QED
  BY <1>1 DEF LogTyped

(* The table as a sequence.                                                   *)
LEMMA LogSeq == LogTyped => Len(events) \in Nat /\ DOMAIN events = 1..Len(events) /\ \A i \in DOMAIN events : events[i] \in EventType
BY DEF LogTyped

(* The state the replay reaches is a state, and one that an event left.       *)
LEMMA CurrentIs ==
  ASSUME LogTyped
  PROVE  /\ Current.state \in Phase /\ Current.id \in 0..Len(events) /\ Current.req \in 0..Len(events)
         /\ Current.state # "INACTIVE" =>
              \E i \in DOMAIN events : events[i].new = Current.state /\ events[i].id = Current.id
<1>1. Current = Inactive \/ \E i \in DOMAIN events : Current = Outcome(events[i])
  <2>1. PICK n \in Nat : n = Len(events) /\ DOMAIN events = 1..n
    BY LogSeq
  <2> QED
    BY <2>1, ReplayEnds DEF Current, Replay
<1>2. CASE Current = Inactive
  BY <1>2, LogSeq DEF Inactive, Phase
<1>3. ASSUME NEW i \in DOMAIN events, Current = Outcome(events[i])
      PROVE  /\ Current.state \in Phase /\ Current.id \in 0..Len(events) /\ Current.req \in 0..Len(events)
             /\ events[i].new = Current.state /\ events[i].id = Current.id
  BY <1>3, LogSeq DEF Outcome, Phase, LogTyped, LogTypeOK, Activations
<1> QED
  BY <1>1, <1>2, <1>3

(* The rows do not change, and a call goes on.                                *)
LEMMA CallMoves ==
  ASSUME LogTyped, NEW p \in Caller, NEW s \in CallType, call' = [call EXCEPT ![p] = s],
         UNCHANGED <<clock, events, raced>>,
         s.at \in 0..clock, s.req \in 0..Len(events), s.pc # "idle" => s.kind \in Activations
  PROVE  LogTyped'
<1>1. call' \in [Caller -> CallType] /\ call'[p] = s /\ \A q \in Caller \ {p} : call'[q] = call[q]
  BY DEF LogTyped
<1> QED
  BY <1>1 DEF LogTyped, LogTypeOK, CallType, Phase, Activations

(* An operation is called.                                                    *)
LEMMA CallKeeps ==
  ASSUME LogInv, NEW p \in Caller, NEW kind \in Activations, NEW req \in 0..Len(events), Call(p, kind, req)
  PROVE  LogInv'
<1>1. PICK s : s = [NoCall EXCEPT !.pc = "read", !.kind = kind, !.at = clock, !.req = req]
  OBVIOUS
<1>2. call' = [call EXCEPT ![p] = s] /\ UNCHANGED <<clock, events, raced>>
  BY <1>1 DEF Call
<1>0. clock \in Nat /\ req \in Nat /\ clock \in 0..clock
  BY LogNumbers DEF LogInv
<1>3. s = [pc |-> "read", kind |-> kind, at |-> clock, req |-> req, prev |-> "INACTIVE"]
  BY <1>1 DEF NoCall
<1>4. s \in CallType /\ s.pc = "read" /\ s.at = clock /\ s.req = req /\ s.kind = kind
  BY <1>0, <1>3 DEF CallType, Phase
<1>5. LogTyped'
  BY <1>0, <1>2, <1>4, CallMoves DEF LogInv
<1>6. call'[p] = s /\ \A q \in Caller \ {p} : call'[q] = call[q]
  BY <1>2 DEF LogInv, LogTyped
<1>7. Current' = Current
  BY <1>2 DEF Current
<1>8. ~raced => StampsFollow'
  BY <1>2, <1>4, <1>6 DEF LogInv, StampsFollow, LogTyped, LogTypeOK
<1>9. ~raced => ReadStands'
  BY <1>4, <1>6, <1>7 DEF LogInv, ReadStands
<1> QED
  BY <1>2, <1>5, <1>7, <1>8, <1>9 DEF LogInv, LastCallStands, ApprovesLastRequest

(* It reads the state, and what it may then save is what the replay says.     *)
LEMMA ReadKeeps ==
  ASSUME LogInv, NEW p \in Caller, Read(p)
  PROVE  LogInv'
<1>1. PICK s : s = [call[p] EXCEPT !.pc = "save", !.prev = Current.state,
                            !.req = IF call[p].kind = "ACTIVE" THEN @ ELSE Current.req]
  OBVIOUS
<1>2. call' = [call EXCEPT ![p] = s] /\ UNCHANGED <<clock, events, raced>>
  BY <1>1 DEF Read, LogInv, LogTyped
<1>3. /\ call[p] \in CallType /\ call[p].pc = "read" /\ call[p].kind \in Activations
      /\ Current.state \in Phase /\ Current.req \in 0..Len(events)
      /\ call[p].at \in 0..clock /\ call[p].req \in 0..Len(events)
  BY CurrentIs DEF LogInv, LogTyped, LogTypeOK, Read
<1>4. PICK r : r = IF call[p].kind = "ACTIVE" THEN call[p].req ELSE Current.req
  OBVIOUS
<1>5. s = [pc |-> "save", kind |-> call[p].kind, at |-> call[p].at, req |-> r, prev |-> Current.state]
  BY <1>1, <1>3, <1>4 DEF CallType
<1>6. r \in 0..Len(events) /\ r \in Nat
  BY <1>3, <1>4, LogSeq DEF LogInv
<1>7. /\ s \in CallType /\ s.pc = "save" /\ s.at = call[p].at /\ s.req = r /\ s.kind = call[p].kind
      /\ s.prev = Current.state
  BY <1>3, <1>5, <1>6 DEF CallType
<1>8. LogTyped'
  BY <1>2, <1>3, <1>6, <1>7, CallMoves DEF LogInv
<1>9. call'[p] = s /\ \A q \in Caller \ {p} : call'[q] = call[q]
  BY <1>2 DEF LogInv, LogTyped
<1>10. Current' = Current
  BY <1>2 DEF Current
<1>11. ~raced => StampsFollow'
  BY <1>2, <1>3, <1>7, <1>9 DEF LogInv, StampsFollow
<1>12. ~raced => ReadStands'
  <2> SUFFICES ASSUME ~raced, NEW q \in Caller, call'[q].pc = "save"
               PROVE  /\ call'[q].prev = Current.state /\ Current.state \in AllowedPrevious[call'[q].kind]
                      /\ call'[q].kind = "ACTIVE" => call'[q].req = Current.id
    BY <1>10 DEF ReadStands
  <2>1. CASE q = p
    BY <1>4, <1>7, <1>9, <2>1 DEF Read, May
  <2>2. CASE q # p
    BY <1>9, <2>2 DEF LogInv, ReadStands
  <2> QED
    BY <2>1, <2>2
<1> QED
  BY <1>2, <1>8, <1>10, <1>11, <1>12 DEF LogInv, LastCallStands, ApprovesLastRequest

(* It ends without an event.                                                  *)
LEMMA RefuseKeeps ==
  ASSUME LogInv, NEW p \in Caller, Refuse(p)
  PROVE  LogInv'
<1>1. call' = [call EXCEPT ![p] = NoCall] /\ UNCHANGED <<clock, events, raced>>
  BY DEF Refuse
<1>2. NoCall \in CallType /\ NoCall.pc = "idle" /\ NoCall.at = 0 /\ NoCall.req = 0
  BY DEF NoCall, CallType, Phase
<1>3. LogTyped'
  BY <1>1, <1>2, CallMoves, LogNumbers DEF LogInv
<1>4. call'[p] = NoCall /\ \A q \in Caller \ {p} : call'[q] = call[q]
  BY <1>1 DEF LogInv, LogTyped
<1>5. Current' = Current
  BY <1>1 DEF Current
<1> QED
  BY <1>1, <1>2, <1>3, <1>4, <1>5 DEF LogInv, StampsFollow, ReadStands, LastCallStands, ApprovesLastRequest

(* A new row goes in somewhere and the others keep their order.               *)
LEMMA Inserted ==
  ASSUME NEW T, NEW l \in Seq(T), NEW e \in T, NEW k \in 1..(Len(l) + 1)
  PROVE  LET m == InsertAt(l, k, e)
         IN /\ m \in Seq(T) /\ Len(m) = Len(l) + 1
            /\ \A i \in DOMAIN m : m[i] = e \/ \E j \in DOMAIN l : m[i] = l[j]
            /\ k = Len(l) + 1 => m[k] = e /\ \A i \in 1..Len(l) : m[i] = l[i]
<1> DEFINE a == SubSeq(l, 1, k - 1)
           b == <<e>>
           c == SubSeq(l, k, Len(l))
           m == InsertAt(l, k, e)
<1>0. Len(l) \in Nat /\ DOMAIN l = 1..Len(l) /\ \A i \in 1..Len(l) : l[i] \in T
  OBVIOUS
<1>1. /\ a \in Seq(T) /\ Len(a) = k - 1
      /\ \A i \in 1..(k - 1) : a[i] = l[i]
  <2>1. \A i \in 1..(k - 1) : l[i] \in T
    BY <1>0
  <2>2. /\ a \in Seq(T) /\ Len(a) = IF 1 <= k - 1 THEN (k - 1) - 1 + 1 ELSE 0
        /\ \A i \in 1..((k - 1) - 1 + 1) : a[i] = l[1 + i - 1]
    BY <1>0, <2>1, SubSeqProperties, k - 1 \in Int, 1 \in Int
  <2> HIDE DEF a
  <2> QED
    BY <1>0, <2>2
<1>2. b \in Seq(T) /\ Len(b) = 1 /\ b[1] = e
  OBVIOUS
<1>3. /\ c \in Seq(T) /\ Len(c) = Len(l) - k + 1
      /\ \A i \in 1..(Len(l) - k + 1) : c[i] = l[k + i - 1]
  <2>1. \A i \in k..Len(l) : l[i] \in T
    BY <1>0
  <2>2. /\ c \in Seq(T) /\ Len(c) = IF k <= Len(l) THEN Len(l) - k + 1 ELSE 0
        /\ \A i \in 1..(Len(l) - k + 1) : c[i] = l[k + i - 1]
    BY <1>0, <2>1, SubSeqProperties, k \in Int, Len(l) \in Int
  <2> HIDE DEF c
  <2> QED
    BY <1>0, <2>2
<1>4. m = (a \o b) \o c
  BY DEF InsertAt
<1> HIDE DEF a, b, c, m
<1>5. /\ a \o b \in Seq(T) /\ Len(a \o b) = k
      /\ \A i \in 1..k : (a \o b)[i] = IF i <= k - 1 THEN a[i] ELSE b[i - (k - 1)]
  <2>1. /\ a \o b \in Seq(T) /\ Len(a \o b) = Len(a) + Len(b)
        /\ \A i \in 1..(Len(a) + Len(b)) : (a \o b)[i] = IF i <= Len(a) THEN a[i] ELSE b[i - Len(a)]
    BY <1>1, <1>2, ConcatProperties
  <2> QED
    BY <1>0, <1>1, <1>2, <2>1
<1>6. /\ (a \o b)[k] = e
      /\ \A i \in 1..(k - 1) : (a \o b)[i] = l[i]
  BY <1>0, <1>1, <1>2, <1>5
<1> DEFINE d == a \o b
<1> HIDE DEF d
<1>7. /\ m \in Seq(T) /\ Len(m) = Len(l) + 1
      /\ \A i \in 1..(Len(l) + 1) : m[i] = IF i <= k THEN d[i] ELSE c[i - k]
  <2>1. d \in Seq(T) /\ Len(d) = k /\ m = d \o c
    BY <1>4, <1>5 DEF d
  <2>2. /\ d \o c \in Seq(T) /\ Len(d \o c) = Len(d) + Len(c)
        /\ \A i \in 1..(Len(d) + Len(c)) : (d \o c)[i] = IF i <= Len(d) THEN d[i] ELSE c[i - Len(d)]
    BY <1>3, <2>1, ConcatProperties
  <2> QED
    BY <1>0, <1>3, <2>1, <2>2
<1>8. d[k] = e /\ \A i \in 1..(k - 1) : d[i] = l[i]
  BY <1>6 DEF d
<1>9. DOMAIN m = 1..(Len(l) + 1)
  BY <1>7
<1>10. ASSUME NEW i \in DOMAIN m PROVE m[i] = e \/ \E j \in DOMAIN l : m[i] = l[j]
  <2>1. CASE i < k
    BY <1>0, <1>7, <1>8, <1>9, <2>1
  <2>2. CASE i = k
    BY <1>0, <1>7, <1>8, <1>9, <2>2
  <2>3. CASE i > k
    <3>1. i - k \in 1..(Len(l) - k + 1) /\ m[i] = c[i - k] /\ k + (i - k) - 1 = i - 1
      BY <1>0, <1>7, <1>9, <2>3
    <3>2. m[i] = l[i - 1] /\ i - 1 \in DOMAIN l
      BY <1>0, <1>3, <1>9, <2>3, <3>1
    <3> QED
      BY <3>2
  <2> QED
    BY <1>0, <1>9, <2>1, <2>2, <2>3
<1>11. k = Len(l) + 1 => m[k] = e /\ \A i \in 1..Len(l) : m[i] = l[i]
  BY <1>0, <1>7, <1>8
<1> QED
  BY <1>7, <1>10, <1>11 DEF m

(* The numbers up to n are n.                                                 *)
LEMMA UpToCounts ==
  ASSUME NEW n \in Nat
  PROVE  IsFiniteSet(1..n) /\ Cardinality(1..n) = n
<1>1. n \in Int /\ 1 \in Int
  OBVIOUS
<1>2. IsFiniteSet(1..n) /\ Cardinality(1..n) = IF 1 > n THEN 0 ELSE n - 1 + 1
  BY <1>1, FS_Interval
<1> QED
  BY <1>2

(* Until calls overlap, the call that inserts is the only one, and its event  *)
(* is the last and takes effect.                                              *)
LEMMA SaveKeeps ==
  ASSUME LogInv, NEW p \in Caller, Save(p)
  PROVE  LogInv'
<1> DEFINE n == Len(events)
           k == Cardinality({i \in DOMAIN events : events[i].at <= call[p].at}) + 1
           e == [id |-> n + 1, new |-> call[p].kind, prev |-> call[p].prev, at |-> call[p].at,
                 req |-> IF call[p].kind = "ACTIVATION_REQUESTED" THEN 0 ELSE call[p].req]
<1>1. /\ events' = InsertAt(events, k, e) /\ call' = [call EXCEPT ![p] = NoCall] /\ UNCHANGED clock
      /\ raced' = (raced \/ \E q \in Caller \ {p} : call[q].pc # "idle")
      /\ call[p].pc = "save" /\ n < MaxEvents
  BY DEF Save
<1>2. /\ n \in Nat /\ DOMAIN events = 1..n /\ events \in Seq(EventType) /\ clock \in Nat
      /\ \A i \in DOMAIN events : events[i] \in EventType /\ events[i].at \in 0..clock /\ events[i].id \in 1..n
                                  /\ events[i].req \in 0..n
      /\ n + 1 <= MaxEvents
  <2>1. LogTyped /\ MaxEvents \in Nat
    BY ActivationAssumption DEF LogInv
  <2>2. n \in Nat /\ DOMAIN events = 1..n /\ clock \in Nat /\ \A i \in DOMAIN events : events[i] \in EventType
    BY <2>1, LogSeq, LogNumbers
  <2> QED
    BY <1>1, <2>1, <2>2 DEF LogTyped, LogTypeOK
<1>3. /\ call[p] \in CallType /\ call[p].kind \in Activations
      /\ call[p].at \in 0..clock /\ call[p].req \in 0..n
  BY <1>1 DEF LogInv, LogTyped, LogTypeOK
<1>4. /\ e \in EventType /\ e.id = n + 1 /\ e.new = call[p].kind /\ e.prev = call[p].prev /\ e.at = call[p].at
      /\ e.req \in 0..n /\ (call[p].kind # "ACTIVATION_REQUESTED" => e.req = call[p].req)
  <2>1. PICK r : r = IF call[p].kind = "ACTIVATION_REQUESTED" THEN 0 ELSE call[p].req
    OBVIOUS
  <2>2. r \in 0..n /\ r \in Nat
    BY <1>2, <1>3, <2>1
  <2>3. e = [id |-> n + 1, new |-> call[p].kind, prev |-> call[p].prev, at |-> call[p].at, req |-> r]
    BY <2>1
  <2>4. n + 1 \in Nat /\ call[p].at \in Nat /\ call[p].prev \in Phase
    BY <1>2, <1>3 DEF CallType
  <2> HIDE DEF n
  <2> QED
    BY <1>3, <2>1, <2>2, <2>3, <2>4 DEF EventType
<1>5. k \in 1..(n + 1)
  <2> DEFINE S == {i \in DOMAIN events : events[i].at <= call[p].at}
  <2>1. IsFiniteSet(1..n) /\ Cardinality(1..n) = n
    BY <1>2, UpToCounts
  <2>2. S \in SUBSET (1..n)
    BY <1>2
  <2>3. IsFiniteSet(S) /\ Cardinality(S) <= n
    BY <2>1, <2>2, FS_Subset
  <2>4. Cardinality(S) \in Nat
    BY <2>3, FS_CardinalityType
  <2> QED
    BY <1>2, <2>3, <2>4
<1>6. StampsFollow => k = n + 1
  <2> SUFFICES ASSUME StampsFollow PROVE k = n + 1
    OBVIOUS
  <2>1. {i \in DOMAIN events : events[i].at <= call[p].at} = 1..n
    BY <1>1, <1>2 DEF StampsFollow
  <2>2. Cardinality(1..n) = n
    BY <1>2, UpToCounts
  <2> QED
    BY <2>1, <2>2
<1> HIDE DEF k, e
<1>7. /\ events' \in Seq(EventType) /\ Len(events') = n + 1 /\ DOMAIN events' = 1..(n + 1)
      /\ \A i \in DOMAIN events' : events'[i] = e \/ \E j \in DOMAIN events : events'[i] = events[j]
      /\ k = n + 1 => events'[n + 1] = e /\ \A i \in 1..n : events'[i] = events[i]
  <2>1. LET m == InsertAt(events, k, e)
        IN /\ m \in Seq(EventType) /\ Len(m) = n + 1
           /\ \A i \in DOMAIN m : m[i] = e \/ \E j \in DOMAIN events : m[i] = events[j]
           /\ k = n + 1 => m[k] = e /\ \A i \in 1..n : m[i] = events[i]
    <3>1. PICK l : l = events
      OBVIOUS
    <3>2. PICK x : x = e
      OBVIOUS
    <3>3. PICK m \in Nat : m = k
      BY <1>2, <1>5
    <3>4. l \in Seq(EventType) /\ x \in EventType /\ m \in 1..(Len(l) + 1)
      BY <1>2, <1>4, <1>5, <3>1, <3>2, <3>3
    <3> QED
      BY <3>1, <3>2, <3>3, <3>4, Inserted
  <2> HIDE DEF n
  <2> QED
    BY <1>1, <2>1
<1>8. /\ call'[p] = NoCall /\ \A q \in Caller \ {p} : call'[q] = call[q]
      /\ call' \in [Caller -> CallType]
      /\ NoCall.pc = "idle" /\ NoCall.at = 0 /\ NoCall.req = 0 /\ NoCall.prev = "INACTIVE"
  <2>1. NoCall \in CallType
    BY DEF NoCall, CallType, Phase
  <2> QED
    BY <1>1, <2>1 DEF LogInv, LogTyped, NoCall
<1>9. LogTyped'
  <2>1. \A i \in DOMAIN events' :
          /\ events'[i].id \in 1..(n + 1) /\ events'[i].new \in Activations /\ events'[i].prev \in Phase
          /\ events'[i].at \in 0..clock /\ events'[i].req \in 0..(n + 1)
    <3> SUFFICES ASSUME NEW i \in DOMAIN events', NEW f, f = events'[i]
                 PROVE  /\ f.id \in 1..(n + 1) /\ f.new \in Activations /\ f.prev \in Phase
                        /\ f.at \in 0..clock /\ f.req \in 0..(n + 1)
      OBVIOUS
    <3>1. CASE f = e
      <4>1. f.id = n + 1 /\ f.new \in Activations /\ f.prev \in Phase /\ f.at = call[p].at /\ f.req \in 0..n
        BY <1>4, <3>1 DEF EventType
      <4> HIDE DEF n
      <4> QED
        BY <1>2, <1>3, <4>1
    <3>2. CASE \E j \in DOMAIN events : f = events[j]
      <4>1. PICK j \in DOMAIN events : f = events[j]
        BY <3>2
      <4>2. f \in EventType /\ f.at \in 0..clock /\ f.id \in 1..n /\ f.req \in 0..n
        BY <1>2, <4>1
      <4>3. f.new \in Activations /\ f.prev \in Phase
        BY <4>2 DEF EventType
      <4> HIDE DEF n
      <4> QED
        BY <1>2, <4>2, <4>3
    <3> QED
      BY <1>7, <3>1, <3>2
  <2>2. \A q \in Caller : /\ call'[q].pc \in {"idle", "read", "save"} /\ call'[q].at \in 0..clock
                          /\ call'[q].prev \in Phase /\ call'[q].req \in 0..(n + 1)
                          /\ call'[q].pc # "idle" => call'[q].kind \in Activations
    <3> SUFFICES ASSUME NEW q \in Caller
                 PROVE  /\ call'[q].pc \in {"idle", "read", "save"} /\ call'[q].at \in 0..clock
                        /\ call'[q].prev \in Phase /\ call'[q].req \in 0..(n + 1)
                        /\ call'[q].pc # "idle" => call'[q].kind \in Activations
      OBVIOUS
    <3>1. CASE q = p
      BY <1>2, <1>8, <3>1 DEF Phase
    <3>2. CASE q # p
      <4>1. /\ call[q].at \in 0..clock /\ call[q].req \in 0..n
            /\ call[q].pc # "idle" => call[q].kind \in Activations
        BY DEF LogInv, LogTyped, LogTypeOK
      <4>2. call[q] \in CallType
        BY DEF LogInv, LogTyped
      <4> QED
        BY <1>2, <1>8, <3>2, <4>1, <4>2 DEF CallType
    <3> QED
      BY <3>1, <3>2
  <2>3. LogTypeOK'
    <3>1. clock' \in 0..MaxLogTime /\ raced' \in BOOLEAN
      BY <1>1 DEF LogInv, LogTyped, LogTypeOK
    <3> QED
      BY <1>1, <1>2, <1>7, <2>1, <2>2, <3>1 DEF LogTypeOK, Activations, Phase
  <2> QED
    BY <1>7, <1>8, <2>2, <2>3 DEF LogTyped
<1>10. ASSUME ~raced' PROVE (StampsFollow /\ ReadStands /\ LastCallStands /\ ApprovesLastRequest)'
  <2>1. /\ ~raced /\ \A q \in Caller : call'[q].pc = "idle"
        /\ StampsFollow /\ ReadStands /\ LastCallStands
    BY <1>1, <1>8, <1>10 DEF LogInv
  <2>2. Current' = Apply(Current, e)
    <3>1. DOMAIN events' = 1..(n + 1) /\ events'[n + 1] = e /\ \A i \in 1..n : events'[i] = events[i]
      BY <1>6, <1>7, <2>1
    <3>2. Replay(events') = Apply(Replay(events), events'[n + 1])
      BY <1>2, <3>1, ReplayAppends
    <3> QED
      BY <3>1, <3>2 DEF Current, Replay
  <2>3. /\ e.prev = Current.state /\ Current.state \in AllowedPrevious[e.new]
        /\ e.new = "ACTIVE" => e.req = Current.id
    BY <1>1, <1>4, <2>1 DEF ReadStands
  <2>4. Current'.state = e.new /\ Current'.id = n + 1 /\ Current'.req = e.req
    BY <1>4, <2>2, <2>3 DEF Apply
  <2>5. LastCallStands'
    BY <1>7, <2>4 DEF LastCallStands
  <2>6. ApprovesLastRequest'
    <3> SUFFICES ASSUME e.new = "ACTIVE"
                 PROVE  \E i \in DOMAIN events' : /\ events'[i].new = "ACTIVATION_REQUESTED"
                                                  /\ events'[i].id = e.req /\ n + 1 = e.req + 1
      BY <2>4 DEF ApprovesLastRequest
    <3>1. Current.state = "ACTIVATION_REQUESTED"
      BY <2>3 DEF AllowedPrevious
    <3>2. PICK i \in DOMAIN events : events[i].new = "ACTIVATION_REQUESTED" /\ events[i].id = Current.id
      BY <3>1, CurrentIs DEF LogInv
    <3>3. Current.id = n
      BY <1>2, <2>1, <3>2 DEF LastCallStands
    <3>4. i \in DOMAIN events' /\ events'[i] = events[i]
      BY <1>2, <1>6, <1>7, <2>1
    <3> QED
      BY <1>2, <2>3, <3>2, <3>3, <3>4
  <2> QED
    BY <2>1, <2>5, <2>6 DEF StampsFollow, ReadStands
<1> QED
  BY <1>9, <1>10 DEF LogInv

(* Time passes.                                                               *)
LEMMA TickKeeps == ASSUME LogInv, LogTick PROVE LogInv'
<1>1. Current' = Current
  BY DEF LogTick, Current
<1>2. clock \in Nat /\ clock' = clock + 1 /\ clock' <= MaxLogTime
  BY LogNumbers, ActivationAssumption DEF LogInv, LogTick
<1>3. LogTypeOK'
  BY <1>2, ActivationAssumption DEF LogTick, LogInv, LogTyped, LogTypeOK
<1> QED
  BY <1>1, <1>3 DEF LogTick, LogInv, LogTyped, StampsFollow, ReadStands, LastCallStands, ApprovesLastRequest

(* One case per operation on the activation.                                  *)
LEMMA LogKeeps == LogInv /\ [LogNext]_logVars => LogInv'
<1> SUFFICES ASSUME LogInv, [LogNext]_logVars PROVE LogInv'
  OBVIOUS
<1>1. CASE UNCHANGED logVars
  <2>1. Current' = Current
    BY <1>1 DEF logVars, Current
  <2> QED
    BY <1>1, <2>1 DEF logVars, LogInv, LogTyped, LogTypeOK, StampsFollow, ReadStands, LastCallStands, ApprovesLastRequest
<1>2. ASSUME NEW p \in Caller, NEW kind \in {"ACTIVATION_REQUESTED", "PAUSED_BY_SAFETY", "DEACTIVATED"}, Call(p, kind, 0)
      PROVE  LogInv'
  <2>1. kind \in Activations /\ 0 \in 0..Len(events)
    BY LogNumbers DEF LogInv, Activations, AllowedPrevious
  <2> QED
    BY <1>2, <2>1, CallKeeps
<1>3. ASSUME NEW p \in Caller, NEW r \in Requests, Call(p, "ACTIVE", r) PROVE LogInv'
  <2>1. "ACTIVE" \in Activations
    BY DEF Activations, AllowedPrevious
  <2>2. r \in 0..Len(events)
    BY LogNumbers DEF Requests, LogInv, LogTyped, LogTypeOK
  <2> QED
    BY <1>3, <2>1, <2>2, CallKeeps
<1> QED
  BY <1>1, <1>2, <1>3, TickKeeps, ReadKeeps, RefuseKeeps, SaveKeeps DEF LogNext

(* As long as no two operations on the activation overlap, the replay of the  *)
(* table is what they left (current_activation_state,                         *)
(* save_recurring_activation_event).                                          *)
THEOREM ReplayAlwaysFollows == LogSpec => []ReplayFollowsCalls
<1>1. LogInv => ReplayFollowsCalls
  BY DEF LogInv, LogTyped, ReplayFollowsCalls, LastCallStands, ApprovesLastRequest
<1> QED
  BY <1>1, LogInitially, LogKeeps, PTL DEF LogSpec

-----------------------------------------------------------------------------
(* The exits of a position (PositionLifecycle).                               *)

(* The lesser and the greater of two numbers (consumed, in apply_sell_fill).  *)
LEMMA OfTwo ==
  ASSUME NEW a \in Int, NEW b \in Int
  PROVE  /\ Min({a, b}) = (IF a <= b THEN a ELSE b)
         /\ Max({a, b}) = (IF a >= b THEN a ELSE b)
<1>1. \E x \in {a, b} : \A y \in {a, b} : x <= y
  OBVIOUS
<1>2. Min({a, b}) \in {a, b} /\ \A y \in {a, b} : Min({a, b}) <= y
  BY <1>1 DEF Min
<1>3. \E x \in {a, b} : \A y \in {a, b} : x >= y
  OBVIOUS
<1>4. Max({a, b}) \in {a, b} /\ \A y \in {a, b} : Max({a, b}) >= y
  BY <1>3 DEF Max
<1> QED
  BY <1>2, <1>4

(* A lot.                                                                     *)
Lot == [shares : Nat, day : Days]

(* The shares of the first lots, of the first one more.                       *)
LEMMA FirstShares ==
  ASSUME NEW f, NEW j \in Nat, \A i \in 1..(j + 1) : f[i] \in Int
  PROVE  SumFunctionOnSet(f, 1..(j + 1)) = f[j + 1] + SumFunctionOnSet(f, 1..j)
<1>1. IsFiniteSet(1..j) /\ j + 1 \notin 1..j /\ 1..(j + 1) = (1..j) \cup {j + 1}
  BY UpToCounts
<1>2. \A i \in (1..j) \cup {j + 1} : f[i] \in Int
  BY <1>1
<1>3. SumFunctionOnSet(f, (1..j) \cup {j + 1}) = f[j + 1] + SumFunctionOnSet(f, 1..j)
  BY <1>1, <1>2, SumPutsIn
<1> QED
  BY <1>1, <1>3

(* The shares of all lots are natural numbers.                                *)
LEMMA SharesAreSum ==
  ASSUME NEW l, NEW m \in Nat, l \in [1..m -> Lot]
  PROVE  /\ SharesIn(l) = SumFunctionOnSet(Shares(l), 1..m)
         /\ \A i \in 1..m : Shares(l)[i] = l[i].shares /\ Shares(l)[i] \in Nat
         /\ SharesIn(l) \in Nat
<1>1. DOMAIN Shares(l) = 1..m /\ \A i \in 1..m : Shares(l)[i] = l[i].shares /\ Shares(l)[i] \in Nat
  BY DEF Shares, Lot
<1>2. SharesIn(l) = SumFunctionOnSet(Shares(l), 1..m)
  BY <1>1 DEF SharesIn, SumFunction
<1>3. SumFunctionOnSet(Shares(l), 1..m) \in Nat
  BY <1>1, UpToCounts, SumType
<1> QED
  BY <1>1, <1>2, <1>3

(* A new lot adds its shares (save_lot).                                      *)
LEMMA AppendedShares ==
  ASSUME NEW l, NEW m \in Nat, l \in [1..m -> Lot], NEW k, k \in [1..(m + 1) -> Lot],
         \A i \in 1..m : k[i] = l[i]
  PROVE  SharesIn(k) = SharesIn(l) + k[m + 1].shares
<1>1. m + 1 \in Nat
  OBVIOUS
<1>2. /\ SharesIn(k) = SumFunctionOnSet(Shares(k), 1..(m + 1))
      /\ \A i \in 1..(m + 1) : Shares(k)[i] = k[i].shares /\ Shares(k)[i] \in Nat
  <2>1. PICK n \in Nat : n = m + 1
    OBVIOUS
  <2>2. /\ SharesIn(k) = SumFunctionOnSet(Shares(k), 1..n)
        /\ \A i \in 1..n : Shares(k)[i] = k[i].shares /\ Shares(k)[i] \in Nat
    BY <2>1, SharesAreSum
  <2> QED
    BY <2>1, <2>2
<1>3. /\ SharesIn(l) = SumFunctionOnSet(Shares(l), 1..m) /\ SharesIn(l) \in Nat
      /\ \A i \in 1..m : Shares(l)[i] = l[i].shares /\ Shares(l)[i] \in Nat
  BY SharesAreSum
<1>4. SumFunctionOnSet(Shares(k), 1..(m + 1)) = Shares(k)[m + 1] + SumFunctionOnSet(Shares(k), 1..m)
  BY <1>2, FirstShares
<1>5. SumFunctionOnSet(Shares(k), 1..m) = SumFunctionOnSet(Shares(l), 1..m)
  <2>1. \A i \in 1..m : Shares(k)[i] \in Int /\ Shares(k)[i] = Shares(l)[i]
    BY <1>2, <1>3
  <2> QED
    BY <2>1, UpToCounts, SumSame
<1>6. Shares(k)[m + 1] = k[m + 1].shares /\ Shares(k)[m + 1] \in Nat
  BY <1>2
<1> QED
  BY <1>2, <1>3, <1>4, <1>5, <1>6

(* A sale takes its shares from the lots, and from none more than it has.     *)
LEMMA ConsumedShares ==
  ASSUME NEW l, NEW m \in Nat, l \in [1..m -> Lot], NEW n \in Nat, n <= SharesIn(l)
  PROVE  Consumed(l, n) \in [1..m -> Lot] /\ SharesIn(Consumed(l, n)) = SharesIn(l) - n
<1> DEFINE k == Consumed(l, n)
           P == [j \in 0..m |-> SumFunctionOnSet(Shares(l), 1..j)]
           taken == [i \in 1..m |-> Min({l[i].shares, Max({0, n - P[i - 1]})})]
<1>1. /\ SharesIn(l) = SumFunctionOnSet(Shares(l), 1..m)
      /\ \A i \in 1..m : Shares(l)[i] = l[i].shares /\ Shares(l)[i] \in Nat
      /\ SharesIn(l) \in Nat
  BY SharesAreSum
<1>2. /\ \A j \in 0..m : P[j] \in Nat
      /\ \A j \in 0..m : P[j] = SumFunctionOnSet(Shares(l), 1..j)
  <2>1. ASSUME NEW j \in 0..m PROVE SumFunctionOnSet(Shares(l), 1..j) \in Nat
    <3>1. \A i \in 1..j : Shares(l)[i] \in Nat
      BY <1>1
    <3> QED
      BY <3>1, UpToCounts, SumType
  <2> QED
    BY <2>1
<1>3. \A i \in 1..m : P[i - 1] \in Nat /\ P[i] = l[i].shares + P[i - 1] /\ l[i].shares \in Nat
  <2> SUFFICES ASSUME NEW i \in 1..m PROVE P[i - 1] \in Nat /\ P[i] = l[i].shares + P[i - 1] /\ l[i].shares \in Nat
    OBVIOUS
  <2>1. PICK j \in Nat : j = i - 1
    OBVIOUS
  <2>2. j \in 0..m /\ j + 1 = i /\ \A x \in 1..(j + 1) : Shares(l)[x] \in Int
    BY <1>1, <2>1
  <2>3. SumFunctionOnSet(Shares(l), 1..(j + 1)) = Shares(l)[j + 1] + SumFunctionOnSet(Shares(l), 1..j)
    BY <2>2, FirstShares
  <2> HIDE DEF P
  <2> QED
    BY <1>1, <1>2, <2>1, <2>2, <2>3
<1>4. P[0] = 0
  <2>1. 1..0 = {}
    OBVIOUS
  <2> QED
    BY <2>1, SumEmpty
<1>5. P[m] = SharesIn(l)
  BY <1>1
<1>6. k = [i \in 1..m |-> [l[i] EXCEPT !.shares = @ - taken[i]]]
  <2>1. \A i \in 1..m : P[i - 1] = SumFunctionOnSet(Shares(l), 1..(i - 1))
    <3> SUFFICES ASSUME NEW i \in 1..m PROVE P[i - 1] = SumFunctionOnSet(Shares(l), 1..(i - 1))
      OBVIOUS
    <3>1. i - 1 \in 0..m
      OBVIOUS
    <3> QED
      BY <3>1
  <2>2. \A i \in 1..m : Min({l[i].shares, Max({0, n - SumFunctionOnSet(Shares(l), 1..(i - 1))})}) = taken[i]
    <3> HIDE DEF P
    <3> QED
      BY <2>1
  <2> HIDE DEF taken, P
  <2> QED
    BY <2>2 DEF Consumed
<1> HIDE DEF P
<1>7. \A i \in 1..m : taken[i] \in Nat /\ taken[i] = IF n <= P[i - 1] THEN 0
                                       ELSE IF l[i].shares <= n - P[i - 1] THEN l[i].shares ELSE n - P[i - 1]
  <2> SUFFICES ASSUME NEW i \in 1..m
               PROVE  taken[i] \in Nat /\ taken[i] = IF n <= P[i - 1] THEN 0
                        ELSE IF l[i].shares <= n - P[i - 1] THEN l[i].shares ELSE n - P[i - 1]
    OBVIOUS
  <2> HIDE DEF taken
  <2>0. PICK p \in Nat : p = P[i - 1]
    BY <1>3
  <2>1. PICK r \in Int : r = n - p
    OBVIOUS
  <2>2. PICK s \in Nat : s = l[i].shares
    BY <1>3
  <2>3. PICK x : x = Max({0, r})
    OBVIOUS
  <2>6. x = (IF 0 >= r THEN 0 ELSE r) /\ x \in Nat
    <3>1. PICK z \in Int : z = 0
      OBVIOUS
    <3>2. Max({z, r}) = IF z >= r THEN z ELSE r
      BY OfTwo
    <3> QED
      BY <2>3, <3>1, <3>2
  <2>4. Min({s, x}) = IF s <= x THEN s ELSE x
    BY <2>6, OfTwo
  <2>5. taken[i] = Min({s, x})
    BY <2>0, <2>1, <2>2, <2>3 DEF taken
  <2> QED
    BY <2>0, <2>1, <2>2, <2>4, <2>5, <2>6
<1> HIDE DEF taken
<1>8. \A i \in 1..m : k[i] = [shares |-> l[i].shares - taken[i], day |-> l[i].day]
  BY <1>6 DEF Lot
<1>9. \A i \in 1..m : l[i].shares - taken[i] \in Nat
  <2> SUFFICES ASSUME NEW i \in 1..m PROVE l[i].shares - taken[i] \in Nat
    OBVIOUS
  <2>1. PICK p \in Nat : p = P[i - 1]
    BY <1>3
  <2>2. PICK s \in Nat : s = l[i].shares
    BY <1>3
  <2>3. taken[i] \in Nat /\ taken[i] = IF n <= p THEN 0 ELSE IF s <= n - p THEN s ELSE n - p
    BY <1>7, <2>1, <2>2
  <2> QED
    BY <2>2, <2>3
<1>10. k \in [1..m -> Lot]
  <2>1. \A i \in 1..m : k[i] \in Lot
    <3> SUFFICES ASSUME NEW i \in 1..m PROVE k[i] \in Lot
      OBVIOUS
    <3>1. PICK s \in Nat : s = l[i].shares - taken[i]
      BY <1>9
    <3>2. k[i] = [shares |-> s, day |-> l[i].day] /\ l[i].day \in Days
      BY <1>8, <3>1 DEF Lot
    <3> HIDE DEF k
    <3> QED
      BY <3>2 DEF Lot
  <2>2. k = [i \in 1..m |-> k[i]]
    BY <1>6
  <2> HIDE DEF k
  <2> QED
    BY <2>1, <2>2
<1> HIDE DEF k
<1>11. /\ SharesIn(k) = SumFunctionOnSet(Shares(k), 1..m)
       /\ \A i \in 1..m : Shares(k)[i] = k[i].shares /\ Shares(k)[i] \in Nat
  BY <1>10, SharesAreSum
<1>12. \A i \in 1..m : Shares(k)[i] = l[i].shares - taken[i]
  <2> SUFFICES ASSUME NEW i \in 1..m PROVE Shares(k)[i] = l[i].shares - taken[i]
    OBVIOUS
  <2>1. k[i] = [shares |-> l[i].shares - taken[i], day |-> l[i].day]
    BY <1>8
  <2>2. k[i].shares = l[i].shares - taken[i]
    BY <2>1
  <2> QED
    BY <1>11, <2>2
<1> DEFINE Q(j) == SumFunctionOnSet(Shares(k), 1..j)
           Left == {j \in Nat : j <= m => Q(j) = IF P[j] >= n THEN P[j] - n ELSE 0}
<1>13. 0 \in Left
  <2>1. 1..0 = {}
    OBVIOUS
  <2>2. Q(0) = 0
    BY <2>1, SumEmpty
  <2> HIDE DEF Q
  <2> QED
    BY <1>4, <2>2
<1>14. ASSUME NEW j \in Nat, j \in Left PROVE j + 1 \in Left
  <2> SUFFICES ASSUME j + 1 <= m PROVE Q(j + 1) = IF P[j + 1] >= n THEN P[j + 1] - n ELSE 0
    OBVIOUS
  <2>1. j + 1 \in 1..m /\ (j + 1) - 1 = j
    OBVIOUS
  <2>2. \A x \in 1..(j + 1) : Shares(k)[x] \in Int
    BY <1>11
  <2>3. Q(j + 1) = Shares(k)[j + 1] + Q(j)
    BY <2>2, FirstShares
  <2> HIDE DEF Q
  <2>4. PICK p \in Nat : p = P[j]
    BY <1>3, <2>1
  <2>5. PICK s \in Nat : s = l[j + 1].shares
    BY <1>3, <2>1
  <2>6. P[j + 1] = s + p
    BY <1>3, <2>1, <2>4, <2>5
  <2>7. taken[j + 1] = IF n <= p THEN 0 ELSE IF s <= n - p THEN s ELSE n - p
    BY <1>7, <2>1, <2>4, <2>5
  <2>8. Shares(k)[j + 1] = s - taken[j + 1]
    BY <1>12, <2>1, <2>5
  <2>9. Q(j) = IF p >= n THEN p - n ELSE 0
    BY <1>14, <2>4
  <2> QED
    BY <2>3, <2>6, <2>7, <2>8, <2>9
<1>15. m \in Left
  <2> HIDE DEF Left
  <2> QED
    BY <1>13, <1>14, AllNumbers
<1>16. Q(m) = SharesIn(l) - n
  <2> HIDE DEF Q
  <2> QED
    BY <1>1, <1>5, <1>15
<1> QED
  BY <1>10, <1>11, <1>16 DEF k
-----------------------------------------------------------------------------
(* The fields of an order of the simulator.                                   *)
OrderFields == {"status", "filled", "shares", "limit", "day", "why", "of"}
IsOrder(o) == o = [f \in OrderFields |-> o[f]] /\ o.shares \in Nat /\ o.limit \in Nat

(* The aggregate row, the lots and the exits.                                 *)
BookTyped ==
  /\ position \in [held : Nat, paid : Int, over : Nat \ {0}]
  /\ \E m \in Nat : lots \in [1..m -> Lot]
  /\ sold = [d \in Days |-> sold[d]] /\ \A d \in Days : IsOrder(sold[d])
  /\ \A e \in Entry : bought[e].limit # 0 => bought[e].shares = Size

(* The exits: an order's day is its key; today's rests at today's price; one  *)
(* rests at most, for no more than is held.                                   *)
ExitsRest ==
  /\ \A d \in Days : sold[d].status # "NONE" => sold[d].day = d /\ d <= today
  /\ sold[today].status \in {"NONE", "PENDING_SUBMISSION"}
  /\ sold[today].status # "NONE" => sold[today].limit = market[today].price
  /\ \A d, s \in Unfilled(sold) : d = s
  /\ \A d \in Unfilled(sold) : sold[d].shares <= position.held

(* Today's price is above the fixed stop of a position of this cost.          *)
AboveStop(paid, over) == market[today].price * over > paid - FixedStop * over

(* A run: the exits it has listed still rest; past its look none does, and     *)
(* unless the day ended, the position is still above its stop if it was.      *)
RunHolds(k) ==
  /\ k.pc # "idle" => k.day \in Days /\ k.day <= today
  /\ k.todo \subseteq ({"BUY"} \X Entry) \cup ({"SELL"} \X {s \in Unfilled(sold) : s <= k.day})
  /\ k.pc # "orders" => k.todo = {}
  /\ k.pc \in {"advance", "decide", "order"} =>
       Unfilled(sold) = {} /\ k.held \in Nat /\ k.held <= position.held
  /\ k.pc \in {"advance", "decide"} =>
       /\ k.paid \in Int /\ k.over \in Nat \ {0} /\ k.row.original \in Int
       /\ k.day = today /\ AboveStop(k.paid, k.over) => AboveStop(position.paid, position.over)
  /\ k.pc = "order" => k.shares \in Nat /\ k.shares <= k.held
  /\ k.pc = "done" /\ k.day = today /\ market[today].price > 0 /\ Unfilled(sold) = {} /\ position.held > 0 =>
       AboveStop(position.paid, position.over)

(* The inductive invariant, next to StopInv.                                  *)
ExitsInv ==
  /\ BookTyped
  /\ position.held = SharesIn(lots)
  /\ ExitsRest
  /\ \A c \in Daily : RunHolds(sweep[c])

(* Numbers that the provers need.                                             *)
LEMMA BookNumbers ==
  ASSUME StopTyped, BookTyped
  PROVE  /\ today \in Nat /\ today \in Days /\ LastDay \in Nat /\ Days \subseteq Nat
         /\ \A d \in Days : market[d].price \in Nat
         /\ position.held \in Nat /\ position.paid \in Int /\ position.over \in Nat \ {0}
         /\ Size \in Nat \ {0} /\ FixedStop \in Nat \ {0} /\ ExpireAfter \in Nat \ {0}
         /\ \A d \in Days : sold[d].shares \in Nat /\ sold[d].limit \in Nat
<1>1. LastDay \in Nat /\ Days \subseteq Nat /\ today \in Days
  BY LifecycleAssumption DEF StopTyped, Days
<1>2. \A d \in Days : market[d].price \in Nat
  BY LifecycleAssumption DEF StopTyped
<1>3. Size \in Nat \ {0} /\ FixedStop \in Nat \ {0} /\ ExpireAfter \in Nat \ {0}
  BY LifecycleAssumption
<1> QED
  BY <1>1, <1>2, <1>3 DEF BookTyped, IsOrder

(* A buy makes the aggregate row and the lots more by its shares.             *)
LEMMA BuysAgree ==
  ASSUME StopTyped, BookTyped, position.held = SharesIn(lots),
         NEW n \in Nat \ {0}, NEW p \in Nat, NEW d \in Days, BuyFill(n, p, d)
  PROVE  /\ position' \in [held : Nat, paid : Int, over : Nat \ {0}]
         /\ \E m \in Nat : lots' \in [1..m -> Lot]
         /\ position'.held = position.held + n
         /\ position'.paid = position.held * position.paid + n * p * position.over
         /\ position'.over = position.over * (position.held + n)
         /\ position'.held = SharesIn(lots')
<1>1. PICK m \in Nat : lots \in [1..m -> Lot]
  BY DEF BookTyped
<1> DEFINE x == [shares |-> n, day |-> d]
<1>2. x \in Lot /\ x.shares = n
  BY DEF Lot
<1> HIDE DEF x
<1>3. lots \in Seq(Lot) /\ Len(lots) = m
  BY <1>1, SeqDef
<1>4. lots' = Append(lots, x)
  BY DEF BuyFill, x
<1>5. lots' \in [1..(m + 1) -> Lot] /\ lots'[m + 1] = x /\ \A i \in 1..m : lots'[i] = lots[i]
  <2>1. /\ lots' \in Seq(Lot) /\ Len(lots') = m + 1 /\ lots'[m + 1] = x
        /\ \A i \in 1..m : lots'[i] = lots[i]
    BY <1>2, <1>3, <1>4, AppendProperties
  <2> QED
    BY <2>1
<1>6. SharesIn(lots') = SharesIn(lots) + n
  BY <1>1, <1>2, <1>5, AppendedShares
<1>7. PICK h \in Nat, q \in Int, o \in Nat \ {0} : position.held = h /\ position.paid = q /\ position.over = o
  BY DEF BookTyped
<1>8. h + n \in Nat \ {0} /\ h * q + n * p * o \in Int /\ o * (h + n) \in Nat \ {0}
  <2>1. PICK y \in Nat \ {0} : y = h + n
    OBVIOUS
  <2>2. o * y \in Nat \ {0}
    OBVIOUS
  <2>3. h * q \in Int /\ n * p \in Int
    OBVIOUS
  <2>4. PICK z \in Int : z = n * p
    BY <2>3
  <2>5. z * o \in Int
    OBVIOUS
  <2> QED
    BY <2>1, <2>2, <2>3, <2>4, <2>5
<1>9. position' = [held |-> h + n, paid |-> h * q + n * p * o, over |-> o * (h + n)]
  BY <1>7 DEF BuyFill
<1>10. position' \in [held : Nat, paid : Int, over : Nat \ {0}] /\ m + 1 \in Nat
  BY <1>8, <1>9
<1> QED
  BY <1>5, <1>6, <1>7, <1>9, <1>10

(* A sale makes both less by its shares.                                      *)
LEMMA SalesAgree ==
  ASSUME StopTyped, BookTyped, position.held = SharesIn(lots),
         NEW n \in Nat, n <= position.held, SellFill(n)
  PROVE  /\ position' \in [held : Nat, paid : Int, over : Nat \ {0}]
         /\ \E m \in Nat : lots' \in [1..m -> Lot]
         /\ position'.held = SharesIn(lots')
<1>1. PICK m \in Nat : lots \in [1..m -> Lot]
  BY DEF BookTyped
<1>2. lots' \in [1..m -> Lot] /\ SharesIn(lots') = SharesIn(lots) - n
  BY <1>1, ConsumedShares DEF SellFill
<1>3. PICK h \in Nat, q \in Int, o \in Nat \ {0} : position = [held |-> h, paid |-> q, over |-> o]
  BY DEF BookTyped
<1>4. position' = IF h = n THEN [held |-> 0, paid |-> 0, over |-> 1] ELSE [held |-> h - n, paid |-> q, over |-> o]
  BY <1>3 DEF SellFill
<1>5. h - n \in Nat
  BY <1>3
<1>6. position' \in [held : Nat, paid : Int, over : Nat \ {0}] /\ position'.held = h - n
  BY <1>3, <1>4, <1>5
<1> QED
  BY <1>2, <1>3, <1>6

(* Buying at today's price leaves a position that today's price is above the  *)
(* stop of: the average moves to the price.                                   *)
LEMMA AverageMoves ==
  ASSUME NEW h \in Nat, NEW q \in Int, NEW o \in Nat \ {0}, NEW n \in Nat \ {0}, NEW p \in Nat,
         NEW f \in Nat \ {0}, h > 0 => p * o > q - f * o
  PROVE  p * (o * (h + n)) > h * q + n * p * o - f * (o * (h + n))
<1>1. PICK a \in Int, b \in Nat \ {0} : a = p * o /\ b = f * o
  <2>1. p * o \in Int /\ f * o \in Nat \ {0}
    OBVIOUS
  <2> QED
    BY <2>1
<1>2. PICK r \in Int : r = a - q + b
  OBVIOUS
<1>3. h * r >= 0
  <2>1. CASE h = 0
    BY <2>1
  <2>2. CASE h > 0
    <3>1. r > 0
      BY <1>1, <1>2, <2>2
    <3> QED
      BY <2>2, <3>1
  <2> QED
    BY <2>1, <2>2
<1>4. n * b > 0
  OBVIOUS
<1>5. h * r = h * a - h * q + h * b
  BY <1>2
<1>6. p * (o * (h + n)) = h * a + n * a
  BY <1>1
<1>7. f * (o * (h + n)) = h * b + n * b
  BY <1>1
<1>8. n * p * o = n * a
  BY <1>1
<1>9. h * a \in Int /\ n * a \in Int /\ h * b \in Int /\ n * b \in Int /\ h * q \in Int
  OBVIOUS
<1> QED
  BY <1>3, <1>4, <1>5, <1>6, <1>7, <1>8, <1>9

(* The same for the position and the fixed stop.                              *)
LEMMA BuyStaysAbove ==
  ASSUME StopTyped, BookTyped, position.held = SharesIn(lots),
         NEW n \in Nat \ {0}, BuyFill(n, market[today].price, today), UNCHANGED <<today, market>>,
         position.held > 0 => AboveStop(position.paid, position.over)
  PROVE  AboveStop(position.paid, position.over)'
<1>1. PICK p \in Nat : p = market[today].price
  BY BookNumbers
<1>2. PICK h \in Nat, q \in Int, o \in Nat \ {0} : position.held = h /\ position.paid = q /\ position.over = o
  BY BookNumbers
<1>3. PICK f \in Nat \ {0} : f = FixedStop
  BY BookNumbers
<1>4. h > 0 => p * o > q - f * o
  BY <1>1, <1>2, <1>3 DEF AboveStop
<1>5. p * (o * (h + n)) > h * q + n * p * o - f * (o * (h + n))
  BY <1>4, AverageMoves
<1>6. position'.paid = h * q + n * p * o /\ position'.over = o * (h + n)
  BY <1>1, <1>2, BuysAgree, BookNumbers
<1> QED
  BY <1>1, <1>3, <1>5, <1>6 DEF AboveStop

(* There is one run, and it becomes what a step makes of it.                  *)
LEMMA OneRunBecomes ==
  ASSUME StopTyped, OneDailyRun, NEW c \in Daily, NEW new, Become(c, new)
  PROVE  sweep'[c] = new /\ \A d \in Daily : d = c
BY DEF Become, StopTyped, OneDailyRun

(* A run as a record.                                                         *)
LEMMA RunFieldsOf ==
  ASSUME StopTyped, NEW c \in Daily
  PROVE  LET k == sweep[c] IN
         k = [pc |-> k.pc, day |-> k.day, todo |-> k.todo, held |-> k.held, paid |-> k.paid, over |-> k.over,
              opened |-> k.opened, row |-> k.row, wish |-> k.wish, what |-> k.what, shares |-> k.shares]
<1> DEFINE k == sweep[c]
<1>1. k = [f \in RunFields |-> k[f]]
  BY DEF StopTyped, IsRun
<1> HIDE DEF k
<1>2. k = [pc |-> k.pc, day |-> k.day, todo |-> k.todo, held |-> k.held, paid |-> k.paid, over |-> k.over,
           opened |-> k.opened, row |-> k.row, wish |-> k.wish, what |-> k.what, shares |-> k.shares]
  BY <1>1 DEF RunFields
<1> QED
  BY <1>2 DEF k

(* Where a step only moves the run on.                                        *)
LEMMA RunOnly ==
  ASSUME StopTyped, OneDailyRun, ExitsInv, UNCHANGED <<today, market, bookVars>>,
         NEW c \in Daily, NEW new, Become(c, new), RunHolds(new)
  PROVE  ExitsInv'
<1>1. sweep'[c] = new /\ \A d \in Daily : d = c
  BY OneRunBecomes
<1>2. today' = today /\ market' = market /\ bought' = bought /\ sold' = sold /\ position' = position /\ lots' = lots
  BY DEF bookVars
<1>3. BookTyped' /\ (position.held = SharesIn(lots))' /\ ExitsRest'
  <2>1. BookTyped'
    BY <1>2 DEF ExitsInv, BookTyped, IsOrder, Lot
  <2>2. (position.held = SharesIn(lots))'
    BY <1>2 DEF ExitsInv
  <2>3. ExitsRest'
    BY <1>2 DEF ExitsInv, ExitsRest, Unfilled
  <2> QED
    BY <2>1, <2>2, <2>3
<1>4. RunHolds(new)'
  BY <1>2 DEF RunHolds, Unfilled, AboveStop
<1>5. \A d \in Daily : RunHolds(sweep[d])'
  BY <1>1, <1>4
<1> QED
  BY <1>3, <1>5 DEF ExitsInv

(* A step that leaves the run and the book.                                   *)
LEMMA NothingMoves ==
  ASSUME ExitsInv, UNCHANGED <<today, market, bookVars, sweep>>
  PROVE  ExitsInv'
<1>1. today' = today /\ market' = market /\ bought' = bought /\ sold' = sold /\ position' = position /\ lots' = lots
      /\ sweep' = sweep
  BY DEF bookVars
<1>2. BookTyped'
  BY <1>1 DEF ExitsInv, BookTyped, IsOrder, Lot
<1>3. (position.held = SharesIn(lots))'
  BY <1>1 DEF ExitsInv
<1>4. ExitsRest'
  BY <1>1 DEF ExitsInv, ExitsRest, Unfilled
<1>5. \A d \in Daily : RunHolds(sweep[d])'
  BY <1>1 DEF ExitsInv, RunHolds, Unfilled, AboveStop
<1> QED
  BY <1>2, <1>3, <1>4, <1>5 DEF ExitsInv

(* A run that has not begun, or died.                                         *)
LEMMA RestingHolds == RunHolds(Resting)
BY DEF RunHolds, Resting

(* A run lists what rests.                                                    *)
LEMMA BeginHolds ==
  ASSUME StopInv, OneDailyRun, ExitsInv, NEW c \in Daily, Begin(c)
  PROVE  ExitsInv'
<1> DEFINE todo == {<<"BUY", e>> : e \in Unfilled(bought)} \cup {<<"SELL", d>> : d \in Unfilled(sold)}
           new == [Resting EXCEPT !.pc = "orders", !.day = today, !.todo = todo]
<1>1. Become(c, new) /\ UNCHANGED <<today, market, bookVars>>
  BY DEF Begin
<1>2. \A d \in Unfilled(sold) : d <= today
  BY DEF ExitsInv, ExitsRest, BookTyped, Unfilled
<1>3. Unfilled(bought) \subseteq Entry
  BY DEF Unfilled, StopInv, StopTyped
<1>4. todo \subseteq ({"BUY"} \X Entry) \cup ({"SELL"} \X {s \in Unfilled(sold) : s <= today})
  BY <1>2, <1>3
<1>5. today \in Days /\ today <= today
  BY BookNumbers DEF StopInv, ExitsInv
<1> HIDE DEF todo
<1>6. new.pc = "orders" /\ new.day = today /\ new.todo = todo
  BY DEF Resting
<1> HIDE DEF new
<1>7. RunHolds(new)
  BY <1>4, <1>5, <1>6 DEF RunHolds
<1> QED
  BY <1>1, <1>7, RunOnly DEF StopInv

(* A process dies.                                                            *)
LEMMA DieHolds ==
  ASSUME StopInv, OneDailyRun, ExitsInv, Die
  PROVE  ExitsInv'
<1>1. UNCHANGED <<today, market, bookVars>> /\ (sweep' = sweep \/ \E c \in Daily : Become(c, Resting))
  BY DEF Die, Become
<1>2. CASE sweep' = sweep
  BY <1>1, <1>2, NothingMoves
<1> QED
  BY <1>1, <1>2, RestingHolds, RunOnly DEF StopInv

(* What the run reads of the position is the position.                        *)
LEMMA LookHolds ==
  ASSUME StopInv, OneDailyRun, ExitsInv, NEW c \in Daily, Look(c)
  PROVE  ExitsInv'
<1> DEFINE k == sweep[c]
           pc == IF rows # <<>> /\ market[k.day].price > 0 THEN "advance" ELSE "decide"
           row == IF rows = <<>> THEN NoRow ELSE Latest(rows)
           wish == asked /\ \A e \in Days : decided[e] # "MANUAL"
           opened == lots[Min(OpenLots)].day
           done == [k EXCEPT !.pc = "done"]
           failed == [k EXCEPT !.pc = "failed"]
           new == [k EXCEPT !.pc = pc, !.held = position.held, !.paid = position.paid,
                            !.over = position.over, !.opened = opened, !.row = row, !.wish = wish]
<1>1. /\ k.pc = "orders" /\ k.todo = {} /\ UNCHANGED <<today, market, bookVars>>
      /\ \/ (position.held = 0 \/ Unresolved) /\ Become(c, done)
         \/ Become(c, failed)
         \/ position.held > 0 /\ ~Unresolved /\ Become(c, new)
  BY DEF Look, Proceed
<1>2. k = [pc |-> k.pc, day |-> k.day, todo |-> k.todo, held |-> k.held, paid |-> k.paid, over |-> k.over,
           opened |-> k.opened, row |-> k.row, wish |-> k.wish, what |-> k.what, shares |-> k.shares]
  BY RunFieldsOf DEF StopInv
<1>3. RunHolds(k)
  BY DEF ExitsInv
<1>4. row.original \in Int
  <2>1. CASE rows = <<>>
    BY <2>1 DEF NoRow
  <2>2. CASE rows # <<>>
    <3>1. PICK i \in DOMAIN rows : Latest(rows) = rows[i]
      BY <2>2, LatestIsRow DEF StopInv
    <3>2. IsLevels(rows[i])
      BY DEF StopInv, RowsInForce
    <3> QED
      BY <2>2, <3>1, <3>2 DEF IsLevels
  <2> QED
    BY <2>1, <2>2
<1>5. pc \in {"advance", "decide"}
  OBVIOUS
<1>6. position.held \in Nat /\ position.paid \in Int /\ position.over \in Nat \ {0}
  BY BookNumbers DEF StopInv, ExitsInv
<1> HIDE DEF k, pc, row, wish, opened
<1>7. done.pc = "done" /\ done.day = k.day /\ done.todo = {} /\ failed.pc = "failed" /\ failed.day = k.day /\ failed.todo = {}
  BY <1>1, <1>2
<1>8. /\ new.pc = pc /\ new.day = k.day /\ new.todo = {} /\ new.held = position.held /\ new.paid = position.paid
      /\ new.over = position.over /\ new.row = row
  BY <1>1, <1>2
<1> HIDE DEF done, failed, new
<1>9. k.day \in Days /\ k.day <= today
  BY <1>1, <1>3 DEF RunHolds
<1>10. CASE (position.held = 0 \/ Unresolved) /\ Become(c, done)
  <2>1. RunHolds(done)
    BY <1>6, <1>7, <1>9, <1>10 DEF RunHolds, Unresolved
  <2> QED
    BY <1>1, <1>10, <2>1, RunOnly DEF StopInv
<1>11. CASE Become(c, failed)
  <2>1. RunHolds(failed)
    BY <1>7, <1>9 DEF RunHolds
  <2> QED
    BY <1>1, <1>11, <2>1, RunOnly DEF StopInv
<1>12. CASE position.held > 0 /\ ~Unresolved /\ Become(c, new)
  <2>1. position.held <= position.held
    BY <1>6
  <2>2. RunHolds(new)
    BY <1>4, <1>5, <1>6, <1>8, <1>9, <1>12, <2>1 DEF RunHolds, Unresolved
  <2> QED
    BY <1>1, <1>12, <2>2, RunOnly DEF StopInv
<1> QED
  BY <1>1, <1>10, <1>11, <1>12

(* The levels move, not the position.                                         *)
LEMMA AdvanceHolds ==
  ASSUME StopInv, OneDailyRun, ExitsInv, NEW c \in Daily, Advance(c)
  PROVE  ExitsInv'
<1> DEFINE k == sweep[c]
           row == Advanced(k.row, k.held, k.day)
           new == [k EXCEPT !.pc = "decide", !.row = row]
<1>1. k.pc = "advance" /\ Become(c, new) /\ UNCHANGED <<today, market, bookVars>>
  BY DEF Advance
<1>2. k = [pc |-> k.pc, day |-> k.day, todo |-> k.todo, held |-> k.held, paid |-> k.paid, over |-> k.over,
           opened |-> k.opened, row |-> k.row, wish |-> k.wish, what |-> k.what, shares |-> k.shares]
  BY RunFieldsOf DEF StopInv
<1>3. RunHolds(k)
  BY DEF ExitsInv
<1>4. row.original \in Int
  <2>1. IsLevels(k.row) /\ k.day \in Days
    BY <1>1 DEF StopInv, AdvancesCurrent, StopTyped
  <2>2. IsLevels(row)
    BY <2>1, AdvanceRaises DEF StopInv
  <2> QED
    BY <2>2 DEF IsLevels
<1> HIDE DEF k, row
<1>5. /\ new.pc = "decide" /\ new.day = k.day /\ new.todo = k.todo /\ new.held = k.held /\ new.paid = k.paid
      /\ new.over = k.over /\ new.row = row
  BY <1>2
<1> HIDE DEF new
<1>6. RunHolds(new)
  BY <1>1, <1>3, <1>4, <1>5 DEF RunHolds
<1> QED
  BY <1>1, <1>6, RunOnly DEF StopInv

(* A run that holds found today's price above the fixed stop, or none.        *)
LEMMA HoldIsAbove ==
  ASSUME NEW k, NEW p \in Nat, NEW q \in Int, NEW o \in Nat \ {0}, NEW f \in Nat \ {0},
         p = market[k.day].price, q = k.paid, o = k.over, f = FixedStop, p > 0, Decision(k) = "HOLD"
  PROVE  p * o > q - f * o
<1> DEFINE applies == [MANUAL  |-> k.wish,
                  STOP    |-> p * k.over <= k.paid - FixedStop * k.over \/ (k.row # NoRow /\ p <= k.row.stop),
                  AGED    |-> k.day - k.opened >= MaxHold,
                  PARTIAL |-> /\ k.row # NoRow /\ Part(k) > 0
                              /\ p - k.row.average >= StageAt * (k.row.average - k.row.first),
                  TARGET  |-> IF k.row # NoRow THEN p >= k.row.target
                              ELSE p * k.over >= k.paid + FixedTarget * k.over]
           reasons == {i \in DOMAIN Priority : applies[Priority[i]]}
<1>1. Decision(k) = IF p = 0 \/ reasons = {} THEN "HOLD" ELSE Priority[Min(reasons)]
  BY DEF Decision
<1>2. SUFFICES ASSUME p * o <= q - f * o PROVE FALSE
  <2>1. p * o \in Int /\ f * o \in Int
    OBVIOUS
  <2> QED
    BY <2>1
<1>3. applies.STOP
  BY <1>2
<1>4. DOMAIN Priority = 1..5 /\ Priority[2] = "STOP" /\ \A i \in 1..5 : Priority[i] # "HOLD"
  BY DEF Priority
<1>5. 2 \in reasons
  <2>1. applies["STOP"]
    BY <1>3
  <2> HIDE DEF applies
  <2> QED
    BY <1>4, <2>1
<1>6. reasons \subseteq 1..5
  <2> HIDE DEF applies
  <2> QED
    BY <1>4
<1> HIDE DEF reasons
<1>7. Min(reasons) \in 1..5
  <2>1. \E x \in reasons : \A y \in reasons : x <= y
    <3>1. CASE 1 \in reasons
      BY <1>6, <3>1
    <3>2. CASE 1 \notin reasons
      BY <1>5, <1>6, <3>2
    <3> QED
      BY <3>1, <3>2
  <2>2. Min(reasons) \in reasons
    BY <2>1 DEF Min
  <2> QED
    BY <1>6, <2>2
<1> QED
  BY <1>1, <1>4, <1>5, <1>7

(* A part is no more than the whole.                                          *)
LEMMA PartFits ==
  ASSUME NEW k, k.held \in Nat, k.row.original \in Int
  PROVE  Part(k) \in Nat /\ Part(k) <= k.held
<1>1. PICK h \in Nat : h = k.held
  OBVIOUS
<1>2. PICK x \in Int : x = (k.row.original * ClosePercent) \div 100
  BY LifecycleAssumption
<1>3. PICK y \in Int : y = h - KeepShares
  BY LifecycleAssumption
<1>4. \E m \in {x, h, y} : \A z \in {x, h, y} : m <= z
  OBVIOUS
<1>5. Min({x, h, y}) \in {x, h, y} /\ Min({x, h, y}) <= h
  BY <1>4 DEF Min
<1>6. PICK m \in Int : m = Min({x, h, y}) /\ m <= h
  BY <1>5
<1>7. PICK z \in Int : z = 0
  OBVIOUS
<1>8. Max({z, m}) = IF z >= m THEN z ELSE m
  BY OfTwo
<1>9. Part(k) = Max({z, m})
  BY <1>1, <1>2, <1>3, <1>6, <1>7 DEF Part
<1> QED
  BY <1>1, <1>6, <1>7, <1>8, <1>9

(* A run decides: HOLD ends it, and anything else becomes an order.           *)
LEMMA DecideHolds ==
  ASSUME StopInv, OneDailyRun, ExitsInv, NEW c \in Daily, Decide(c)
  PROVE  ExitsInv'
<1> DEFINE k == sweep[c]
           what == Decision(k)
           n == IF what = "PARTIAL" THEN Part(k) ELSE k.held
           done == [k EXCEPT !.pc = "done"]
           new == [k EXCEPT !.pc = "order", !.what = what, !.shares = n]
<1>1. /\ k.pc = "decide" /\ UNCHANGED <<today, market, bookVars>>
      /\ IF what = "HOLD" THEN Become(c, done) ELSE Become(c, new)
  BY DEF Decide
<1>2. k = [pc |-> k.pc, day |-> k.day, todo |-> k.todo, held |-> k.held, paid |-> k.paid, over |-> k.over,
           opened |-> k.opened, row |-> k.row, wish |-> k.wish, what |-> k.what, shares |-> k.shares]
  BY RunFieldsOf DEF StopInv
<1>3. RunHolds(k)
  BY DEF ExitsInv
<1>4. /\ k.held \in Nat /\ k.held <= position.held /\ k.paid \in Int /\ k.over \in Nat \ {0}
      /\ k.row.original \in Int /\ k.todo = {} /\ k.day \in Days /\ k.day <= today
  BY <1>1, <1>3 DEF RunHolds
<1>5. n \in Nat /\ n <= k.held
  BY <1>4, PartFits
<1>6. what = "HOLD" /\ k.day = today /\ market[today].price > 0 => AboveStop(k.paid, k.over)
  <2> SUFFICES ASSUME what = "HOLD", k.day = today, market[today].price > 0 PROVE AboveStop(k.paid, k.over)
    OBVIOUS
  <2>1. PICK p \in Nat : p = market[k.day].price
    BY <1>4, BookNumbers DEF StopInv, ExitsInv
  <2>2. PICK q \in Int, o \in Nat \ {0}, f \in Nat \ {0} : q = k.paid /\ o = k.over /\ f = FixedStop
    BY <1>4, BookNumbers DEF StopInv, ExitsInv
  <2>3. Decision(k) = "HOLD" /\ p > 0
    BY <2>1
  <2> HIDE DEF k
  <2>4. p * o > q - f * o
    BY <2>1, <2>2, <2>3, HoldIsAbove
  <2> QED
    BY <2>1, <2>2, <2>4 DEF AboveStop
<1> HIDE DEF k, what, n
<1>7. /\ done.pc = "done" /\ done.day = k.day /\ done.todo = {}
      /\ new.pc = "order" /\ new.day = k.day /\ new.todo = {} /\ new.held = k.held /\ new.shares = n
  BY <1>2, <1>4
<1> HIDE DEF done, new
<1>8. CASE what = "HOLD"
  <2>1. RunHolds(done)
    BY <1>1, <1>3, <1>4, <1>6, <1>7, <1>8 DEF RunHolds
  <2> QED
    BY <1>1, <1>8, <2>1, RunOnly DEF StopInv
<1>9. CASE what # "HOLD"
  <2>1. RunHolds(new)
    BY <1>1, <1>3, <1>4, <1>5, <1>7 DEF RunHolds
  <2> QED
    BY <1>1, <1>9, <2>1, RunOnly DEF StopInv
<1> QED
  BY <1>8, <1>9

(* Where a step moves the run on and the book with it.                        *)
LEMMA RunAndBook ==
  ASSUME StopTyped, OneDailyRun, NEW c \in Daily, NEW new, Become(c, new),
         BookTyped', (position.held = SharesIn(lots))', ExitsRest', RunHolds(new)'
  PROVE  ExitsInv'
<1>1. sweep'[c] = new /\ \A d \in Daily : d = c
  BY OneRunBecomes
<1>2. \A d \in Daily : RunHolds(sweep[d])'
  BY <1>1
<1> QED
  BY <1>2 DEF ExitsInv

(* The exit that a run decided on rests, whatever was bought meanwhile.       *)
LEMMA OrderHolds ==
  ASSUME StopInv, OneDailyRun, ExitsInv, NEW c \in Daily, Order(c)
  PROVE  ExitsInv'
<1> DEFINE k == sweep[c]
           old == sold[k.day]
           new == [status |-> "PENDING_SUBMISSION", filled |-> FALSE, shares |-> k.shares,
                   limit |-> market[k.day].price, day |-> k.day, why |-> k.what, of |-> k.row.entry]
           own == IF old.status = "NONE" THEN new ELSE old
           kept == [own EXCEPT !.status = IF k.shares > position.held THEN "REJECTED" ELSE @]
           done == [k EXCEPT !.pc = "done"]
<1>1. /\ k.pc = "order" /\ Become(c, done) /\ sold' = [sold EXCEPT ![k.day] = kept]
      /\ UNCHANGED <<today, market, bought, position, lots>>
  BY DEF Order, Proceed
<1>2. k = [pc |-> k.pc, day |-> k.day, todo |-> k.todo, held |-> k.held, paid |-> k.paid, over |-> k.over,
           opened |-> k.opened, row |-> k.row, wish |-> k.wish, what |-> k.what, shares |-> k.shares]
  BY RunFieldsOf DEF StopInv
<1>3. RunHolds(k)
  BY DEF ExitsInv
<1>4. /\ Unfilled(sold) = {} /\ k.todo = {} /\ k.day \in Days /\ k.day <= today
      /\ k.shares \in Nat /\ k.shares <= k.held /\ k.held \in Nat /\ k.held <= position.held
  BY <1>1, <1>3 DEF RunHolds
<1>5. k.shares <= position.held /\ position.held \in Nat /\ today \in Days /\ market[k.day].price \in Nat
      /\ Days \subseteq Nat
  BY <1>4, BookNumbers DEF StopInv, ExitsInv
<1>6. IsOrder(old) /\ old.status # "PENDING_SUBMISSION" /\ sold = [d \in Days |-> sold[d]]
  BY <1>4 DEF ExitsInv, BookTyped, Unfilled
<1> HIDE DEF k
<1>7. IsOrder(new)
  BY <1>4, <1>5 DEF IsOrder, OrderFields
<1>8. IsOrder(own)
  BY <1>6, <1>7
<1>9. own.status = "PENDING_SUBMISSION" => own = new
  BY <1>6
<1>10. old.status = "NONE" => own = new
  OBVIOUS
<1>11. kept = own
  <2>1. ~(k.shares > position.held)
    BY <1>4, <1>5
  <2> HIDE DEF own
  <2> QED
    BY <1>8, <2>1 DEF IsOrder, OrderFields
<1>12. old.status # "NONE" => kept = old
  BY <1>11
<1>13. /\ new.status = "PENDING_SUBMISSION" /\ new.shares = k.shares /\ new.limit = market[k.day].price
       /\ new.day = k.day
  OBVIOUS
<1> HIDE DEF new, own, old, kept
<1>14. sold'[k.day] = own /\ \A d \in Days : d # k.day => sold'[d] = sold[d]
  BY <1>1, <1>4, <1>6, <1>11
<1>15. BookTyped'
  <2>1. sold' = [d \in Days |-> sold'[d]]
    BY <1>1, <1>4, <1>6
  <2>2. \A d \in Days : IsOrder(sold'[d])
    BY <1>8, <1>14 DEF ExitsInv, BookTyped
  <2> QED
    BY <1>1, <2>1, <2>2 DEF ExitsInv, BookTyped, IsOrder, Lot
<1>16. Unfilled(sold)' \subseteq {k.day} /\ (k.day \in Unfilled(sold)' => own = new)
  <2>1. DOMAIN sold' = Days /\ DOMAIN sold = Days
    BY <1>1, <1>6
  <2> QED
    BY <1>4, <1>9, <1>14, <2>1 DEF Unfilled
<1>17. k.day = today => own = new
  <2> SUFFICES ASSUME k.day = today PROVE old.status = "NONE"
    BY <1>10
  <2> QED
    BY <1>6 DEF ExitsInv, ExitsRest, old
<1>18. ExitsRest'
  <2>1. \A d \in Days : sold'[d].status # "NONE" => sold'[d].day = d /\ d <= today
    <3> SUFFICES ASSUME NEW d \in Days, sold'[d].status # "NONE" PROVE sold'[d].day = d /\ d <= today
      OBVIOUS
    <3>1. CASE d # k.day
      BY <1>14, <3>1 DEF ExitsInv, ExitsRest
    <3>2. CASE d = k.day
      <4>1. own = new \/ own = old
        BY DEF own
      <4>2. CASE own = new
        BY <1>4, <1>13, <1>14, <3>2, <4>2
      <4>3. CASE own = old
        BY <1>14, <3>2, <4>3 DEF ExitsInv, ExitsRest, old
      <4> QED
        BY <4>1, <4>2, <4>3
    <3> QED
      BY <3>1, <3>2
  <2>2. /\ sold'[today].status \in {"NONE", "PENDING_SUBMISSION"}
        /\ sold'[today].status # "NONE" => sold'[today].limit = market[today].price
    BY <1>5, <1>13, <1>14, <1>17 DEF ExitsInv, ExitsRest
  <2>3. \A d, s \in Unfilled(sold)' : d = s
    BY <1>16
  <2>4. \A d \in Unfilled(sold)' : sold'[d].shares <= position.held
    BY <1>5, <1>13, <1>14, <1>16
  <2> QED
    BY <1>1, <2>1, <2>2, <2>3, <2>4 DEF ExitsRest
<1>19. PICK r : Become(c, r) /\ r.pc = "done" /\ r.day = k.day /\ r.todo = {}
  <2>1. done.pc = "done" /\ done.day = k.day /\ done.todo = {}
    BY <1>2, <1>4
  <2> HIDE DEF done
  <2> QED
    BY <1>1, <2>1
<1>20. RunHolds(r)'
  <2>1. k.day = today => Unfilled(sold)' # {}
    BY <1>1, <1>4, <1>6, <1>13, <1>14, <1>17 DEF Unfilled
  <2> QED
    BY <1>1, <1>4, <1>19, <2>1 DEF RunHolds
<1>21. (position.held = SharesIn(lots))'
  BY <1>1 DEF ExitsInv
<1> QED
  BY <1>15, <1>18, <1>19, <1>20, <1>21, RunAndBook DEF StopInv

(* A step about a listed order: what else is listed still rests.              *)
LEMMA ListedGoesOn ==
  ASSUME StopTyped, OneDailyRun, ExitsInv, NEW c \in Daily, NEW o \in sweep[c].todo,
         Become(c, [sweep[c] EXCEPT !.todo = @ \ {o}]), UNCHANGED <<today, market>>,
         BookTyped', (position.held = SharesIn(lots))', ExitsRest',
         \A s \in Unfilled(sold) : o # <<"SELL", s>> => s \in Unfilled(sold)'
  PROVE  ExitsInv'
<1> DEFINE k == sweep[c]
           new == [k EXCEPT !.todo = @ \ {o}]
<1>1. k = [pc |-> k.pc, day |-> k.day, todo |-> k.todo, held |-> k.held, paid |-> k.paid, over |-> k.over,
           opened |-> k.opened, row |-> k.row, wish |-> k.wish, what |-> k.what, shares |-> k.shares]
  BY RunFieldsOf
<1>2. RunHolds(k) /\ Become(c, new) /\ o \in k.todo
  BY DEF ExitsInv
<1> HIDE DEF k
<1>3. new.pc = k.pc /\ new.day = k.day /\ new.todo = k.todo \ {o}
  BY <1>1
<1> HIDE DEF new
<1>4. PICK r, d, todo : /\ Become(c, r) /\ r.pc = "orders" /\ r.day = d /\ r.todo = todo \ {o} /\ d \in Days /\ d <= today
                        /\ todo \subseteq ({"BUY"} \X Entry) \cup ({"SELL"} \X {s \in Unfilled(sold) : s <= d})
  BY <1>2, <1>3 DEF RunHolds
<1>5. todo \ {o} \subseteq ({"BUY"} \X Entry) \cup ({"SELL"} \X {s \in Unfilled(sold)' : s <= d})
  <2> SUFFICES ASSUME NEW x \in todo, x # o
               PROVE  x \in ({"BUY"} \X Entry) \cup ({"SELL"} \X {s \in Unfilled(sold)' : s <= d})
    OBVIOUS
  <2>1. CASE x \in {"BUY"} \X Entry
    BY <2>1
  <2>2. CASE x \in {"SELL"} \X {s \in Unfilled(sold) : s <= d}
    <3>1. PICK s \in Unfilled(sold) : x = <<"SELL", s>> /\ s <= d
      BY <2>2
    <3>2. s \in Unfilled(sold)'
      BY <3>1
    <3> QED
      BY <3>1, <3>2
  <2> QED
    BY <1>4, <2>1, <2>2
<1>6. RunHolds(r)'
  BY <1>4, <1>5 DEF RunHolds
<1> QED
  BY <1>4, <1>6, RunAndBook

(* An order and the exits after one of them changed its status alone, or was  *)
(* marked as filled too.                                                      *)
LEMMA SoldChanges ==
  ASSUME StopInv, ExitsInv, NEW s \in Unfilled(sold), s < today, NEW x, IsOrder(x),
         x.status \notin {"NONE", "PENDING_SUBMISSION"}, x.day = sold[s].day,
         sold' = [sold EXCEPT ![s] = x], UNCHANGED <<today, market, bought>>
  PROVE  /\ Unfilled(sold)' = {}
         /\ sold' = [d \in Days |-> sold'[d]] /\ \A d \in Days : IsOrder(sold'[d])
         /\ ExitsRest'
<1>1. s \in Days /\ sold[s].status = "PENDING_SUBMISSION" /\ sold = [d \in Days |-> sold[d]]
  BY DEF ExitsInv, BookTyped, Unfilled
<1>2. sold'[s] = x /\ (\A d \in Days : d # s => sold'[d] = sold[d]) /\ sold' = [d \in Days |-> sold'[d]]
  BY <1>1
<1>3. \A d \in Days : IsOrder(sold'[d])
  BY <1>2 DEF ExitsInv, BookTyped
<1>4. \A d \in Days : sold[d].status = "PENDING_SUBMISSION" => d = s
  <2> SUFFICES ASSUME NEW d \in Days, sold[d].status = "PENDING_SUBMISSION" PROVE d = s
    OBVIOUS
  <2>1. d \in Unfilled(sold)
    BY <1>1 DEF Unfilled
  <2> QED
    BY <2>1 DEF ExitsInv, ExitsRest
<1>5. Unfilled(sold)' = {}
  BY <1>2, <1>4 DEF Unfilled
<1>6. today \in Days /\ today \in Nat /\ s \in Nat
  BY <1>1, BookNumbers DEF StopInv, ExitsInv
<1>7. ExitsRest'
  <2>1. \A d \in Days : sold'[d].status # "NONE" => sold'[d].day = d /\ d <= today
    BY <1>1, <1>2 DEF ExitsInv, ExitsRest
  <2>2. /\ sold'[today].status \in {"NONE", "PENDING_SUBMISSION"}
        /\ sold'[today].status # "NONE" => sold'[today].limit = market[today].price
    BY <1>2, <1>6 DEF ExitsInv, ExitsRest
  <2> QED
    BY <1>5, <2>1, <2>2 DEF ExitsRest
<1> QED
  BY <1>2, <1>3, <1>5, <1>7

(* What a run has listed.                                                     *)
LEMMA ListedIs ==
  ASSUME StopInv, ExitsInv, NEW c \in Daily, NEW o \in sweep[c].todo
  PROVE  /\ sweep[c].day \in Days /\ sweep[c].day <= today
         /\ \/ \E e \in Entry : o = <<"BUY", e>>
            \/ \E s \in Unfilled(sold) : o = <<"SELL", s>> /\ s <= sweep[c].day
<1>1. RunHolds(sweep[c])
  BY DEF ExitsInv
<1>2. sweep[c].pc = "orders"
  BY <1>1 DEF RunHolds
<1> QED
  BY <1>1, <1>2 DEF RunHolds

(* A listed order expires, on a later day than its own.                       *)
LEMMA ExpireHolds ==
  ASSUME StopInv, OneDailyRun, ExitsInv, NEW c \in Daily, NEW o \in sweep[c].todo, ExpireListed(c, o)
  PROVE  ExitsInv'
<1>1. /\ UNCHANGED <<today, market, position, lots>>
      /\ Become(c, [sweep[c] EXCEPT !.todo = @ \ {o}])
  BY DEF ExpireListed
<1>2. (position.held = SharesIn(lots))'
  BY <1>1 DEF ExitsInv
<1>3. ASSUME NEW e \in Entry, o = <<"BUY", e>> PROVE ExitsInv'
  <2>1. PICK st : sold' = sold /\ bought' = [bought EXCEPT ![e].status = st]
    BY <1>3 DEF ExpireListed
  <2>2. \A x \in Entry : bought'[x].limit = bought[x].limit /\ bought'[x].shares = bought[x].shares
    BY <2>1 DEF StopInv, StopTyped
  <2>3. BookTyped'
    BY <1>1, <2>1, <2>2 DEF ExitsInv, BookTyped, IsOrder, Lot
  <2>4. ExitsRest' /\ Unfilled(sold)' = Unfilled(sold)
    BY <1>1, <2>1 DEF ExitsInv, ExitsRest, Unfilled
  <2> QED
    BY <1>1, <1>2, <2>3, <2>4, ListedGoesOn DEF StopInv
<1>4. ASSUME NEW s \in Unfilled(sold), o = <<"SELL", s>>, s <= sweep[c].day PROVE ExitsInv'
  <2> DEFINE x == [sold[s] EXCEPT !.status = "EXPIRED"]
  <2>1. s \in Days /\ sold[s].status = "PENDING_SUBMISSION" /\ IsOrder(sold[s])
    BY DEF ExitsInv, BookTyped, Unfilled
  <2>2. bought' = bought /\ sweep[c].day - sold[s].day >= ExpireAfter /\ sold' = [sold EXCEPT ![s] = x]
    <3>1. /\ o[1] = "SELL" /\ o[2] = s /\ bought' = bought /\ sweep[c].day - sold[s].day >= ExpireAfter
          /\ sold' = [sold EXCEPT ![s].status = IF @ = "PENDING_SUBMISSION" THEN "EXPIRED" ELSE @]
      BY <1>4 DEF ExpireListed
    <3> QED
      BY <2>1, <3>1
  <2>3. s < today
    <3>1. sold[s].day = s
      BY <2>1 DEF ExitsInv, ExitsRest
    <3>2. sweep[c].day \in Nat /\ sweep[c].day <= today /\ s \in Nat /\ today \in Nat /\ ExpireAfter \in Nat \ {0}
      BY <2>1, ListedIs, BookNumbers DEF StopInv, ExitsInv
    <3> QED
      BY <2>2, <3>1, <3>2
  <2>4. IsOrder(x) /\ x.status = "EXPIRED" /\ x.day = sold[s].day
    BY <2>1 DEF IsOrder, OrderFields
  <2> HIDE DEF x
  <2>5. /\ Unfilled(sold)' = {} /\ ExitsRest'
        /\ sold' = [d \in Days |-> sold'[d]] /\ \A d \in Days : IsOrder(sold'[d])
    BY <1>1, <2>2, <2>3, <2>4, SoldChanges
  <2>6. BookTyped'
    BY <1>1, <2>2, <2>5 DEF ExitsInv, BookTyped, IsOrder, Lot
  <2>7. \A d \in Unfilled(sold) : d = s
    BY DEF ExitsInv, ExitsRest
  <2> QED
    BY <1>1, <1>2, <1>4, <2>5, <2>6, <2>7, ListedGoesOn DEF StopInv
<1> QED
  BY <1>3, <1>4, ListedIs

(* A listed exit is filled on a later day, never refused.                     *)
LEMMA SellHolds ==
  ASSUME StopInv, OneDailyRun, ExitsInv, NEW c \in Daily, NEW s \in Days, SellListed(c, s)
  PROVE  ExitsInv'
<1> DEFINE p == market[sweep[c].day].price
           o == <<"SELL", s>>
<1>1. /\ UNCHANGED <<today, market, bought>> /\ o \in sweep[c].todo
      /\ Become(c, [sweep[c] EXCEPT !.todo = @ \ {o}])
  BY DEF SellListed
<1>2. s \in Unfilled(sold) /\ s <= sweep[c].day /\ sweep[c].day \in Days /\ sweep[c].day <= today
  BY <1>1, ListedIs
<1>3. sold[s].status = "PENDING_SUBMISSION" /\ IsOrder(sold[s]) /\ sold[s].shares <= position.held
  BY <1>2 DEF ExitsInv, ExitsRest, BookTyped, Unfilled
<1>4. s \in Nat /\ sweep[c].day \in Nat /\ today \in Nat /\ p \in Nat /\ sold[s].shares \in Nat /\ position.held \in Nat
      /\ sold[s].limit \in Nat
  BY <1>2, BookNumbers DEF StopInv, ExitsInv
<1>5. CASE UNCHANGED <<sold, position, lots>>
  <2>1. BookTyped'
    BY <1>1, <1>5 DEF ExitsInv, BookTyped, IsOrder, Lot
  <2>2. ExitsRest' /\ Unfilled(sold)' = Unfilled(sold)
    BY <1>1, <1>5 DEF ExitsInv, ExitsRest, Unfilled
  <2>3. (position.held = SharesIn(lots))'
    BY <1>5 DEF ExitsInv
  <2> QED
    BY <1>1, <2>1, <2>2, <2>3, ListedGoesOn DEF StopInv
<1>6. CASE p > sold[s].limit /\ SellFill(sold[s].shares) /\ sold' = [sold EXCEPT ![s].status = "FILLED", ![s].filled = TRUE]
  <2> DEFINE x == [sold[s] EXCEPT !.status = "FILLED", !.filled = TRUE]
  <2>1. sold' = [sold EXCEPT ![s] = x]
    BY <1>3, <1>6 DEF ExitsInv, BookTyped
  <2>2. IsOrder(x) /\ x.status = "FILLED" /\ x.day = sold[s].day
    BY <1>3 DEF IsOrder, OrderFields
  <2> HIDE DEF x
  <2>3. s < today
    <3>1. CASE s = today
      <4>1. sweep[c].day = today /\ sold[s].limit = market[today].price
        BY <1>2, <1>3, <1>4, <3>1 DEF ExitsInv, ExitsRest
      <4> QED
        BY <1>4, <1>6, <3>1, <4>1
    <3> QED
      BY <1>2, <1>4, <3>1
  <2>4. /\ Unfilled(sold)' = {} /\ ExitsRest'
        /\ sold' = [d \in Days |-> sold'[d]] /\ \A d \in Days : IsOrder(sold'[d])
    BY <1>1, <1>2, <2>1, <2>2, <2>3, SoldChanges
  <2>5. /\ position' \in [held : Nat, paid : Int, over : Nat \ {0}] /\ (\E m \in Nat : lots' \in [1..m -> Lot])
        /\ position'.held = SharesIn(lots')
    BY <1>3, <1>4, <1>6, SalesAgree DEF StopInv, ExitsInv
  <2>6. BookTyped'
    BY <1>1, <2>4, <2>5 DEF ExitsInv, BookTyped, IsOrder, Lot
  <2>7. \A d \in Unfilled(sold) : d = s
    BY <1>2 DEF ExitsInv, ExitsRest
  <2> QED
    BY <1>1, <2>4, <2>5, <2>6, <2>7, ListedGoesOn DEF StopInv
<1>7. ~(sold[s].shares > position.held)
  BY <1>3, <1>4
<1> QED
  BY <1>5, <1>6, <1>7 DEF SellListed

(* More shares held leave what the exits ask for.                             *)
LEMMA HeldGrows ==
  ASSUME StopInv, ExitsInv, UNCHANGED <<today, market, sold>>,
         position'.held \in Nat, position.held <= position'.held
  PROVE  ExitsRest' /\ Unfilled(sold)' = Unfilled(sold)
<1>1. \A d \in Unfilled(sold) : sold[d].shares \in Nat /\ sold[d].shares <= position.held
  BY BookNumbers DEF StopInv, ExitsInv, ExitsRest, BookTyped, Unfilled
<1>2. position.held \in Nat
  BY BookNumbers DEF StopInv, ExitsInv
<1>3. \A d \in Unfilled(sold) : sold[d].shares <= position'.held
  BY <1>1, <1>2
<1> QED
  BY <1>3 DEF ExitsInv, ExitsRest, Unfilled

(* A listed entry is filled.                                                  *)
LEMMA BuyListedHolds ==
  ASSUME StopInv, OneDailyRun, ExitsInv, NEW c \in Daily, NEW e \in Entry, BuyListed(c, e)
  PROVE  ExitsInv'
<1> DEFINE p == market[sweep[c].day].price
           o == <<"BUY", e>>
<1>1. /\ UNCHANGED <<today, market, sold>> /\ o \in sweep[c].todo
      /\ Become(c, [sweep[c] EXCEPT !.todo = @ \ {o}])
  BY DEF BuyListed
<1>2. sweep[c].day \in Days /\ p \in Nat
  BY <1>1, ListedIs, BookNumbers DEF StopInv, ExitsInv
<1>3. CASE UNCHANGED <<position, lots, bought>>
  <2>1. BookTyped'
    BY <1>1, <1>3 DEF ExitsInv, BookTyped, IsOrder, Lot
  <2>2. ExitsRest' /\ Unfilled(sold)' = Unfilled(sold)
    BY <1>1, <1>3 DEF ExitsInv, ExitsRest, Unfilled
  <2>3. (position.held = SharesIn(lots))'
    BY <1>3 DEF ExitsInv
  <2> QED
    BY <1>1, <2>1, <2>2, <2>3, ListedGoesOn DEF StopInv
<1>4. CASE /\ p > 0 /\ p < bought[e].limit /\ BuyFill(bought[e].shares, p, sweep[c].day)
           /\ bought' = [bought EXCEPT ![e].status = "FILLED", ![e].filled = TRUE]
  <2>1. bought[e].limit \in Nat /\ bought[e].limit # 0
    BY <1>2, <1>4 DEF StopInv, StopTyped
  <2>2. bought[e].shares = Size /\ Size \in Nat \ {0}
    BY <2>1, BookNumbers DEF StopInv, ExitsInv, BookTyped
  <2>3. /\ position' \in [held : Nat, paid : Int, over : Nat \ {0}] /\ (\E m \in Nat : lots' \in [1..m -> Lot])
        /\ position'.held = position.held + Size /\ position'.held = SharesIn(lots')
    BY <1>2, <1>4, <2>2, BuysAgree DEF StopInv, ExitsInv
  <2>4. \A x \in Entry : bought'[x].limit = bought[x].limit /\ bought'[x].shares = bought[x].shares
    BY <1>4 DEF StopInv, StopTyped
  <2>5. BookTyped'
    BY <1>1, <2>3, <2>4 DEF ExitsInv, BookTyped, IsOrder, Lot
  <2>6. position.held \in Nat /\ position'.held \in Nat /\ position.held <= position'.held
    BY <2>2, <2>3, BookNumbers DEF StopInv, ExitsInv
  <2>7. ExitsRest' /\ Unfilled(sold)' = Unfilled(sold)
    BY <1>1, <2>6, HeldGrows
  <2> QED
    BY <1>1, <2>3, <2>5, <2>7, ListedGoesOn DEF StopInv
<1> QED
  BY <1>3, <1>4 DEF BuyListed

(* An integration cycle buys while a run is under way, or after it.           *)
LEMMA BuyHolds ==
  ASSUME StopInv, ExitsInv, NEW e \in Entry, Buy(e)
  PROVE  ExitsInv'
<1>1. UNCHANGED <<today, market, sold, sweep>>
  BY DEF Buy
<1>2. PICK quoted \in BOOLEAN :
        /\ bought' = [bought EXCEPT ![e] =
             [status |-> IF quoted THEN "FILLED" ELSE "PENDING_SUBMISSION", filled |-> quoted,
              shares |-> Size, limit |-> market[today].price, day |-> today, why |-> "ENTRY", of |-> e]]
        /\ IF quoted THEN BuyFill(Size, market[today].price, today) ELSE UNCHANGED <<position, lots>>
  BY DEF Buy
<1>3. \A x \in Entry : \/ x = e /\ bought'[x].shares = Size
                       \/ bought'[x].limit = bought[x].limit /\ bought'[x].shares = bought[x].shares
  BY <1>2 DEF StopInv, StopTyped
<1>4. \A x \in Entry : bought'[x].limit # 0 => bought'[x].shares = Size
  BY <1>3 DEF ExitsInv, BookTyped
<1>5. CASE UNCHANGED <<position, lots>>
  <2>1. BookTyped'
    BY <1>1, <1>4, <1>5 DEF ExitsInv, BookTyped, IsOrder, Lot
  <2>2. ExitsRest'
    BY <1>1, <1>5 DEF ExitsInv, ExitsRest, Unfilled
  <2>3. (position.held = SharesIn(lots))'
    BY <1>5 DEF ExitsInv
  <2>4. \A c \in Daily : RunHolds(sweep[c])'
    BY <1>1, <1>5 DEF ExitsInv, RunHolds, Unfilled, AboveStop
  <2> QED
    BY <2>1, <2>2, <2>3, <2>4 DEF ExitsInv
<1>6. CASE BuyFill(Size, market[today].price, today)
  <2>1. today \in Days /\ market[today].price \in Nat /\ Size \in Nat \ {0} /\ position.held \in Nat
    BY BookNumbers DEF StopInv, ExitsInv
  <2>2. /\ position' \in [held : Nat, paid : Int, over : Nat \ {0}] /\ (\E m \in Nat : lots' \in [1..m -> Lot])
        /\ position'.held = position.held + Size /\ position'.held = SharesIn(lots')
    BY <1>6, <2>1, BuysAgree DEF StopInv, ExitsInv
  <2>3. BookTyped'
    BY <1>1, <1>4, <2>2 DEF ExitsInv, BookTyped, IsOrder, Lot
  <2>4. position'.held \in Nat /\ position.held <= position'.held
    BY <2>1, <2>2
  <2>5. ExitsRest' /\ Unfilled(sold)' = Unfilled(sold)
    BY <1>1, <2>4, HeldGrows
  <2>6. (position.held > 0 => AboveStop(position.paid, position.over)) => AboveStop(position.paid, position.over)'
    BY <1>1, <1>6, <2>1, BuyStaysAbove DEF StopInv, ExitsInv
  <2>7. ASSUME NEW c \in Daily PROVE RunHolds(sweep[c])'
    <3>1. PICK k : k = sweep[c]
      OBVIOUS
    <3>2. sweep'[c] = k /\ RunHolds(k)
      BY <1>1, <3>1 DEF ExitsInv
    <3>3. AboveStop(k.paid, k.over)' <=> AboveStop(k.paid, k.over)
      BY <1>1 DEF AboveStop
    <3>4. k.held \in Nat /\ k.held <= position.held => k.held <= position'.held
      BY <2>1, <2>4
    <3>5. /\ k.pc # "idle" => k.day \in Days /\ k.day <= today
          /\ k.todo \subseteq ({"BUY"} \X Entry) \cup ({"SELL"} \X {s \in Unfilled(sold)' : s <= k.day})
          /\ k.pc # "orders" => k.todo = {}
          /\ k.pc = "order" => k.shares \in Nat /\ k.shares <= k.held
      BY <2>5, <3>2 DEF RunHolds
    <3>6. k.pc \in {"advance", "decide", "order"} => Unfilled(sold)' = {} /\ k.held \in Nat /\ k.held <= position'.held
      BY <2>5, <3>2, <3>4 DEF RunHolds
    <3>7. k.pc \in {"advance", "decide"} =>
            /\ k.paid \in Int /\ k.over \in Nat \ {0} /\ k.row.original \in Int
            /\ k.day = today /\ AboveStop(k.paid, k.over) => AboveStop(position.paid, position.over)'
      BY <2>6, <3>2 DEF RunHolds
    <3>8. k.pc = "done" /\ k.day = today /\ market[today].price > 0 /\ Unfilled(sold)' = {} =>
            AboveStop(position.paid, position.over)'
      BY <2>5, <2>6, <3>2 DEF RunHolds
    <3>9. RunHolds(k)'
      BY <1>1, <3>3, <3>5, <3>6, <3>7, <3>8 DEF RunHolds
    <3> QED
      BY <3>2, <3>9
  <2> QED
    BY <2>2, <2>3, <2>5, <2>7 DEF ExitsInv
<1> QED
  BY <1>2, <1>5, <1>6

(* A day ends: no run is of the new one yet, nor an exit.                     *)
LEMMA DayHolds ==
  ASSUME StopInv, ExitsInv, DayEnds
  PROVE  ExitsInv'
<1>1. today' = today + 1 /\ today < LastDay /\ UNCHANGED <<bookVars, sweep>> /\ today \in Nat /\ today' \in Days
      /\ LastDay \in Nat /\ Days \subseteq Nat
  <2>1. today \in Nat /\ LastDay \in Nat /\ Days \subseteq Nat
    BY BookNumbers DEF StopInv, ExitsInv
  <2> QED
    BY <2>1 DEF DayEnds, Days
<1>2. bought' = bought /\ sold' = sold /\ position' = position /\ lots' = lots /\ sweep' = sweep
  BY <1>1 DEF bookVars
<1>3. BookTyped'
  BY <1>2 DEF ExitsInv, BookTyped, IsOrder, Lot
<1>4. (position.held = SharesIn(lots))'
  BY <1>2 DEF ExitsInv
<1> DEFINE Past(d) == d <= today' /\ d # today'
<1>7. \A d \in Days : d <= today => Past(d)
  <2> SUFFICES ASSUME NEW d \in Days, d <= today PROVE Past(d)
    OBVIOUS
  <2>1. d \in Nat
    BY <1>1
  <2> QED
    BY <1>1, <2>1
<1> HIDE DEF Past
<1>5. ExitsRest'
  <2>1. \A d \in Days : sold[d].status # "NONE" => sold[d].day = d /\ d <= today /\ d <= today' /\ d # today'
    BY <1>7 DEF ExitsInv, ExitsRest, Past
  <2>2. sold[today'].status = "NONE"
    BY <1>1, <2>1
  <2> QED
    BY <1>2, <2>1, <2>2 DEF ExitsInv, ExitsRest, Unfilled
<1>6. ASSUME NEW c \in Daily PROVE RunHolds(sweep[c])'
  <2>1. PICK k : k = sweep[c]
    OBVIOUS
  <2>2. sweep'[c] = k /\ RunHolds(k)
    BY <1>2, <2>1 DEF ExitsInv
  <2>3. k.pc # "idle" => k.day \in Days /\ k.day <= today' /\ k.day # today'
    BY <1>7, <2>2 DEF RunHolds, Past
  <2>4. RunHolds(k)'
    BY <1>2, <2>2, <2>3 DEF RunHolds, Unfilled
  <2> QED
    BY <2>2, <2>4
<1> QED
  BY <1>3, <1>4, <1>5, <1>6 DEF ExitsInv

(* The empty book.                                                            *)
LEMMA ExitsInitially == ExitInit => ExitsInv
<1> SUFFICES ASSUME ExitInit PROVE ExitsInv
  OBVIOUS
<1>1. /\ today = 1 /\ position = [held |-> 0, paid |-> 0, over |-> 1] /\ lots = <<>>
      /\ bought = [e \in Entry |-> NoOrder] /\ sold = [d \in Days |-> NoOrder]
      /\ sweep = [c \in Daily |-> Resting]
  BY DEF ExitInit
<1>2. today \in Days
  BY <1>1, LifecycleAssumption DEF Days
<1>3. /\ \A d \in Days : sold[d] = NoOrder
      /\ \A e \in Entry : bought[e].limit = 0
      /\ NoOrder.status = "NONE" /\ IsOrder(NoOrder)
  BY <1>1 DEF NoOrder, IsOrder, OrderFields
<1>4. lots \in [1..0 -> Lot]
  BY <1>1
<1>5. BookTyped
  <2>1. position \in [held : Nat, paid : Int, over : Nat \ {0}]
    BY <1>1
  <2>2. sold = [d \in Days |-> sold[d]] /\ \A d \in Days : IsOrder(sold[d])
    BY <1>1, <1>3
  <2> QED
    BY <1>3, <1>4, <2>1, <2>2 DEF BookTyped
<1>6. SharesIn(lots) = 0
  <2>1. 1..0 = {}
    OBVIOUS
  <2>2. PICK m \in Nat : m = 0
    OBVIOUS
  <2>3. SharesIn(lots) = SumFunctionOnSet(Shares(lots), 1..m)
    BY <1>4, <2>2, SharesAreSum
  <2> QED
    BY <2>1, <2>2, <2>3, SumEmpty
<1>7. Unfilled(sold) = {}
  BY <1>1, <1>3 DEF Unfilled
<1>8. ExitsRest
  BY <1>2, <1>3, <1>7 DEF ExitsRest
<1>9. \A c \in Daily : RunHolds(sweep[c])
  BY <1>1, RestingHolds
<1> QED
  BY <1>1, <1>5, <1>6, <1>8, <1>9 DEF ExitsInv

(* One case per action.                                                       *)
LEMMA ExitsKeep ==
  ASSUME StopInv, OneDailyRun, ExitsInv, [ExitNext]_exitVars
  PROVE  ExitsInv'
<1>1. CASE UNCHANGED exitVars
  BY <1>1, NothingMoves DEF exitVars, bookVars
<1>2. CASE Protect
  BY <1>2, NothingMoves DEF Protect
<1>3. CASE RequestExit
  BY <1>3, NothingMoves DEF RequestExit
<1>4. ASSUME NEW c \in Daily, RunStep(c) PROVE ExitsInv'
  <2>1. CASE \/ \E e \in Entry : BuyListed(c, e)
             \/ \E s \in Days : SellListed(c, s)
             \/ \E o \in sweep[c].todo : ExpireListed(c, o)
    BY <2>1, BuyListedHolds, SellHolds, ExpireHolds
  <2> QED
    BY <1>4, <2>1, BeginHolds, LookHolds, AdvanceHolds, DecideHolds, OrderHolds DEF RunStep
<1> QED
  BY <1>1, <1>2, <1>3, <1>4, DayHolds, DieHolds, BuyHolds DEF ExitNext

(* What the invariant says of the property.                                   *)
LEMMA ExitsInvIsSound == StopInv /\ ExitsInv => ExitsAreSound
<1> SUFFICES ASSUME StopInv, ExitsInv PROVE ExitsAreSound
  OBVIOUS
<1>1. Cardinality(Unfilled(sold)) <= 1
  <2>1. CASE Unfilled(sold) = {}
    BY <2>1, FS_EmptySet
  <2>2. CASE Unfilled(sold) # {}
    <3>1. PICK s \in Unfilled(sold) : TRUE
      BY <2>2
    <3>2. Unfilled(sold) = {s}
      BY <3>1 DEF ExitsInv, ExitsRest
    <3> QED
      BY <3>2, FS_Singleton
  <2> QED
    BY <2>1, <2>2
<1>2. ASSUME NEW c \in Daily, Breached(c), Unfilled(sold) = {} PROVE FALSE
  <2>1. AboveStop(position.paid, position.over)
    BY <1>2 DEF ExitsInv, RunHolds, Breached
  <2>2. PICK p \in Nat, q \in Int, o \in Nat, f \in Nat :
          p = market[today].price /\ q = position.paid /\ o = position.over /\ f = FixedStop
    BY BookNumbers DEF StopInv, ExitsInv
  <2>3. p * o \in Int /\ f * o \in Int
    OBVIOUS
  <2>4. p * o <= q - f * o /\ p * o > q - f * o
    BY <1>2, <2>1, <2>2 DEF Breached, AboveStop
  <2> QED
    BY <2>3, <2>4
<1> QED
  BY <1>1, <1>2 DEF ExitsInv, ExitsRest, ExitsAreSound, Unresolved

\* Where a book has one lifecycle run at a time, through expiries, fills on later
\* days, buys between the commits of a run and runs that die, the aggregate row is
\* the sum of the lots (apply_buy_fill, apply_sell_fill), one exit rests at most,
\* for no more than is held, and a position at or below its fixed stop after the
\* day's run has one (run_paper_book_lifecycle).
THEOREM ExitsStaySound == OneDailyRun => (ExitSpec => []ExitsAreSound)
<1> SUFFICES ASSUME OneDailyRun PROVE ExitSpec => []ExitsAreSound
  OBVIOUS
<1>1. StopInv /\ ExitsInv /\ [ExitNext]_exitVars => ExitsInv'
  BY ExitsKeep
<1> QED
  BY <1>1, StopInvHolds, ExitsInitially, ExitsInvIsSound, PTL DEF ExitSpec
=============================================================================
