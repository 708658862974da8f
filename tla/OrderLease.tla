----------------------------- MODULE OrderLease -----------------------------
(***************************************************************************)
(* The order-scope lease of paper_books/external_broker.py (OrderLeaseHandle,*)
(* _order_lease) over its row in paper_external_order_leases               *)
(* (acquire / heartbeat / verify / release in paper_books_repositories.py).*)
(* One row is modelled: rows of different orders never meet.               *)
(*                                                                         *)
(* A call is one run of `with _order_lease(...)`; its owner_id is a fresh  *)
(* uuid, so a call takes the lease at most once. Every SQL statement and   *)
(* every read of the clock outside a transaction is a step of its own, so  *)
(* a takeover can fall between any two of them. fenced_write is one step:  *)
(* BEGIN IMMEDIATE holds SQLite's write lock from the check to the commit. *)
(***************************************************************************)
EXTENDS Integers, Sequences

CONSTANTS
    Calls,          \* the calls that compete for this order's lease
    NoCall,         \* owner_id of a row that does not exist yet
    Ttl,            \* external_broker.order_lease_ttl_seconds
    MaxClock,       \* bound: last instant of the modelled wall clock
    MaxRegress,     \* how far one clock adjustment may set the clock back
    MaxWrites       \* bound: protected writes in one behaviour

ASSUME LeaseAssumption ==
    /\ NoCall \notin Calls
    /\ Ttl \in Nat \ {0}
    /\ MaxClock \in Nat
    /\ MaxRegress \in Nat
    /\ MaxWrites \in Nat

VARIABLES
    clock,          \* the host's wall clock
    row,            \* the lease row
    pc,             \* where each call stands
    now,            \* the clock value each call read last
    generation,     \* OrderLeaseHandle.generation of each call, 0 before
    log             \* generation each protected write was made under

vars == <<clock, row, pc, now, generation, log>>

Instants == 0 .. MaxClock

\* Where a call holds an OrderLeaseHandle.
Inside == {"holding", "beating", "releasing"}

TypeOK ==
    /\ clock \in Instants
    /\ row \in [status : {"ABSENT", "ACTIVE", "RELEASED"},
                owner : Calls \cup {NoCall},
                generation : Nat,
                expires : Nat]
    /\ pc \in [Calls -> {"idle", "entering", "acquired", "refused", "done", "dead"} \cup Inside]
    /\ now \in [Calls -> Instants]
    /\ generation \in [Calls -> Nat]
    /\ log \in Seq(Nat)

Init ==
    /\ clock = 0
    /\ row = [status |-> "ABSENT", owner |-> NoCall, generation |-> 0, expires |-> 0]
    /\ pc = [c \in Calls |-> "idle"]
    /\ now = [c \in Calls |-> 0]
    /\ generation = [c \in Calls |-> 0]
    /\ log = <<>>

-----------------------------------------------------------------------------
(* Helper state formulae: the WHERE clauses of the lease statements.       *)

\* acquire_external_order_lease: no row, a row not ACTIVE, or one expired.
Available(instant) == row.status # "ACTIVE" \/ row.expires <= instant

\* owner_id and generation match an ACTIVE row.
Owns(c) ==
    /\ row.status = "ACTIVE"
    /\ row.owner = c
    /\ row.generation = generation[c]

\* Mutant: the fencing check forgets whose lease it is.
VerifiedByExpiryOnly(c, instant) == row.status = "ACTIVE" /\ row.expires > instant

\* verify_external_order_lease and the guard of heartbeat_external_order_lease.
Verified(c, instant) == Owns(c) /\ row.expires > instant

Goto(c, label) == pc' = [pc EXCEPT ![c] = label]

-----------------------------------------------------------------------------
\* The operation reads its `now`, used later by the acquisition.
Enter(c) ==
    /\ pc[c] = "idle"
    /\ now' = [now EXCEPT ![c] = clock]
    /\ Goto(c, "entering")
    /\ UNCHANGED <<clock, row, generation, log>>

\* Mutant: a takeover keeps the generation of the row it replaces.
AcquireSameGeneration(c) ==
    /\ pc[c] = "entering"
    /\ Available(now[c])
    /\ row' = [status |-> "ACTIVE", owner |-> c,
               generation |-> IF row.status = "ABSENT" THEN 1 ELSE row.generation,
               expires |-> now[c] + Ttl]
    /\ Goto(c, "acquired")
    /\ UNCHANGED <<clock, now, generation, log>>

\* The conditional upsert: insert with generation 1, or take the row over.
Acquire(c) ==
    /\ pc[c] = "entering"
    /\ Available(now[c])
    /\ row' = [status |-> "ACTIVE", owner |-> c,
               generation |-> row.generation + 1, expires |-> now[c] + Ttl]
    /\ Goto(c, "acquired")
    /\ UNCHANGED <<clock, now, generation, log>>

\* The upsert changed no row: ORDER_LEASE_HELD is raised at once.
RefuseHeld(c) ==
    /\ pc[c] = "entering"
    /\ ~Available(now[c])
    /\ Goto(c, "refused")
    /\ UNCHANGED <<clock, row, now, generation, log>>

\* The generation is read back in a second statement, by owner_id.
ReadBack(c) ==
    /\ pc[c] = "acquired"
    /\ row.owner = c
    /\ generation' = [generation EXCEPT ![c] = row.generation]
    /\ Goto(c, "holding")
    /\ UNCHANGED <<clock, row, now, log>>

\* Taken over between the two statements: reported as ORDER_LEASE_HELD.
ReadBackLost(c) ==
    /\ pc[c] = "acquired"
    /\ row.owner # c
    /\ Goto(c, "refused")
    /\ UNCHANGED <<clock, row, now, generation, log>>

\* heartbeat(): a fresh clock read ...
HeartbeatClock(c) ==
    /\ pc[c] = "holding"
    /\ now' = [now EXCEPT ![c] = clock]
    /\ Goto(c, "beating")
    /\ UNCHANGED <<clock, row, generation, log>>

\* ... then the conditional renewal; heartbeat_or_raise leaves on failure.
Heartbeat(c) ==
    /\ pc[c] = "beating"
    /\ IF Verified(c, now[c])
         THEN /\ row' = [row EXCEPT !.expires = now[c] + Ttl]
              /\ Goto(c, "holding")
         ELSE /\ row' = row
              /\ Goto(c, "releasing")
    /\ UNCHANGED <<clock, now, generation, log>>

\* fenced_write(): check and write under SQLite's write lock.
FencedWrite(c) ==
    /\ pc[c] = "holding"
    /\ Len(log) < MaxWrites
    /\ Verified(c, clock)
    /\ log' = Append(log, generation[c])
    /\ UNCHANGED <<clock, row, pc, now, generation>>

\* verify_or_raise() fails: the transaction is rolled back and the call leaves.
FencingFails(c) ==
    /\ pc[c] = "holding"
    /\ ~Verified(c, clock)
    /\ Goto(c, "releasing")
    /\ UNCHANGED <<clock, row, now, generation, log>>

\* The operation returns or raises for a reason of its own.
Leave(c) ==
    /\ pc[c] = "holding"
    /\ Goto(c, "releasing")
    /\ UNCHANGED <<clock, row, now, generation, log>>

\* The `finally` of _order_lease: release_external_order_lease, fenced.
Release(c) ==
    /\ pc[c] = "releasing"
    /\ row' = IF Owns(c) THEN [row EXCEPT !.status = "RELEASED"] ELSE row
    /\ Goto(c, "done")
    /\ UNCHANGED <<clock, now, generation, log>>

\* The process dies: nothing runs for this call again, the row stays.
Crash(c) ==
    /\ pc[c] \in {"entering", "acquired"} \cup Inside
    /\ Goto(c, "dead")
    /\ UNCHANGED <<clock, row, now, generation, log>>

\* Time passes, or the wall clock is adjusted by at most MaxRegress.
Tick ==
    /\ clock' \in {t \in Instants : t <= clock + 1 /\ clock <= t + MaxRegress}
    /\ clock' # clock
    /\ UNCHANGED <<row, pc, now, generation, log>>

CallStep(c) ==
    \/ Enter(c)
    \/ Acquire(c) \/ RefuseHeld(c)
    \/ ReadBack(c) \/ ReadBackLost(c)
    \/ HeartbeatClock(c) \/ Heartbeat(c)
    \/ FencedWrite(c) \/ FencingFails(c)
    \/ Leave(c) \/ Release(c)
    \/ Crash(c)

Next == Tick \/ \E c \in Calls : CallStep(c)

Spec == Init /\ [][Next]_vars

-----------------------------------------------------------------------------
(* Properties.                                                             *)

\* Protected writes land in the order of the generations they were made
\* under: once a later owner has written, a call it displaced never writes
\* again, whatever it was doing when it lost the lease (fenced_write).
WritesFollowGenerations ==
    \A i, j \in 1 .. Len(log) : i <= j => log[i] <= log[j]

\* A call that has not been displaced still finds its row ACTIVE and its own:
\* no other call's heartbeat, release or crash takes the lease out from
\* under it (the owner and generation test of the release in `finally`).
UndisturbedUntilDisplaced ==
    \A c \in Calls :
        pc[c] \in Inside /\ generation[c] = row.generation => Owns(c)

\* Displaced calls write no more, and only displacement takes a lease away
\* (verify_external_order_lease, release_external_order_lease).
FencingSound == WritesFollowGenerations /\ UndisturbedUntilDisplaced

-----------------------------------------------------------------------------
(* The lease implements FencedLease: expiry only decides when a grant or a *)
(* write is refused, never who may write.                                  *)

Fenced == INSTANCE FencedLease WITH
    holder <- IF row.status = "ACTIVE" THEN row.owner ELSE NoCall,
    token <- row.generation

ImplementsFencedLease == Fenced!Spec
=============================================================================
