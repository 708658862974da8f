--------------------------- MODULE PlatformProofs ---------------------------
(* Theorems about what the program stands on: the order-scope lease, for any  *)
(* set of calls, any TTL and any clock adjustment; and the ledger of schema   *)
(* versions, for any processes with any code, any gaps in the ledger they     *)
(* find and any failures; the child process of a model provider, whatever it  *)
(* does; and the soak campaign, for any manifest, attempts, crashes and       *)
(* pauses.  The modules share nothing.                                        *)
EXTENDS OrderLease, SchemaLedger, BoundedProcess, SoakCampaign, FiniteSetTheorems,
        WellFoundedInduction, TLAPS

-----------------------------------------------------------------------------
(* The lease of an order.                                                     *)


\* No handle and no write is ahead of the row's generation.
GenerationsBounded ==
    /\ \A c \in Calls : generation[c] <= row.generation
    /\ \A i \in 1 .. Len(log) : log[i] <= row.generation

\* A call between the two statements of the acquisition either was taken
\* over already or is the owner of an ACTIVE row.
AcquiredIsActive ==
    \A c \in Calls : pc[c] = "acquired" /\ row.owner = c => row.status = "ACTIVE"

IInv ==
    /\ TypeOK
    /\ GenerationsBounded
    /\ AcquiredIsActive
    /\ UndisturbedUntilDisplaced
    /\ WritesFollowGenerations

-----------------------------------------------------------------------------
\* Each statement of a call keeps the row, the handles and the log in type.
LEMMA StepPreservesTypes == TypeOK /\ [Next]_vars => TypeOK'
<1> SUFFICES ASSUME TypeOK, [Next]_vars PROVE TypeOK'
  OBVIOUS
<1> USE LeaseAssumption DEF TypeOK, Instants, Inside, Goto
<1>1. CASE Tick
  BY <1>1 DEF Tick
<1>2. CASE UNCHANGED vars
  BY <1>2 DEF vars
<1>3. ASSUME NEW c \in Calls, CallStep(c) PROVE TypeOK'
  <2>1. CASE Enter(c) \/ Leave(c) \/ FencingFails(c) \/ Crash(c) \/ RefuseHeld(c)
    BY <2>1 DEF Enter, Leave, FencingFails, Crash, RefuseHeld
  <2>2. CASE Acquire(c)
    BY <2>2 DEF Acquire
  <2>3. CASE Release(c)
    BY <2>3 DEF Release
  <2>4. CASE ReadBack(c) \/ ReadBackLost(c)
    BY <2>4 DEF ReadBack, ReadBackLost
  <2>5. CASE HeartbeatClock(c)
    BY <2>5 DEF HeartbeatClock
  <2>6. CASE Heartbeat(c)
    <3>1. CASE Verified(c, now[c])
      <4>1. row' = [row EXCEPT !.expires = now[c] + Ttl] /\ now[c] + Ttl \in Nat
        BY <2>6, <3>1 DEF Heartbeat
      <4>2. row' \in [status : {"ABSENT", "ACTIVE", "RELEASED"},
                      owner : Calls \cup {NoCall}, generation : Nat, expires : Nat]
        BY <4>1
      <4> QED
        BY <2>6, <3>1, <4>2 DEF Heartbeat
    <3>2. CASE ~Verified(c, now[c])
      BY <2>6, <3>2 DEF Heartbeat
    <3> QED
      BY <3>1, <3>2
  <2>7. CASE FencedWrite(c)
    BY <2>7 DEF FencedWrite
  <2> QED
    BY <1>3, <2>1, <2>2, <2>3, <2>4, <2>5, <2>6, <2>7 DEF CallStep
<1> QED
  BY <1>1, <1>2, <1>3 DEF Next

\* Every behaviour keeps the types of the lease row, the handles and the log.
THEOREM TypeCorrect == Spec => []TypeOK
<1>1. Init => TypeOK
  BY LeaseAssumption DEF Init, TypeOK, Instants, Inside
<1> QED
  BY <1>1, StepPreservesTypes, PTL DEF Spec

-----------------------------------------------------------------------------
\* Before the first call the strengthening holds: no handle, no write.
LEMMA InitEstablishesIInv == Init => IInv
  BY LeaseAssumption
  DEF Init, IInv, TypeOK, Instants, Inside, GenerationsBounded, AcquiredIsActive,
      UndisturbedUntilDisplaced, WritesFollowGenerations

\* Every step of a call and every clock adjustment keeps the strengthening.
LEMMA StepPreservesIInv == IInv /\ [Next]_vars => IInv'
<1> SUFFICES ASSUME IInv, [Next]_vars PROVE IInv'
  OBVIOUS
<1>0. TypeOK /\ TypeOK'
  BY StepPreservesTypes DEF IInv
<1>1. GenerationsBounded /\ AcquiredIsActive /\ UndisturbedUntilDisplaced
      /\ WritesFollowGenerations
  BY DEF IInv
<1>2. CASE UNCHANGED <<row, pc, generation, log>>
  BY <1>0, <1>1, <1>2
  DEF IInv, GenerationsBounded, AcquiredIsActive, UndisturbedUntilDisplaced,
      WritesFollowGenerations, Owns
<1>3. ASSUME NEW c \in Calls, CallStep(c) PROVE IInv'
  <2> DEFINE Quiet == /\ UNCHANGED <<row, generation, log>>
                      /\ \E l \in {"entering", "refused", "holding", "beating",
                                   "releasing", "dead"} :
                            /\ Goto(c, l)
                            /\ l \in Inside => pc[c] \in Inside
  <2>1. CASE Quiet
    <3>1. \A d \in Calls : pc'[d] \in Inside => pc[d] \in Inside
      BY <1>0, <2>1 DEF TypeOK, Goto
    <3>2. \A d \in Calls : pc'[d] = "acquired" => pc[d] = "acquired"
      BY <1>0, <2>1 DEF TypeOK, Goto
    <3> QED
      BY <1>0, <1>1, <2>1, <3>1, <3>2
      DEF IInv, GenerationsBounded, AcquiredIsActive, UndisturbedUntilDisplaced,
          WritesFollowGenerations, Owns
  <2>2. CASE Acquire(c)
    <3> USE <1>0, <1>1, <2>2 DEF Acquire, TypeOK, Goto
    <3>1. GenerationsBounded'
      BY DEF GenerationsBounded
    <3>2. AcquiredIsActive'
      BY DEF AcquiredIsActive
    <3>3. UndisturbedUntilDisplaced'
      <4>1. \A d \in Calls : generation'[d] # row'.generation
        BY DEF GenerationsBounded
      <4> QED
        BY <4>1 DEF UndisturbedUntilDisplaced
    <3>4. WritesFollowGenerations'
      BY DEF WritesFollowGenerations
    <3> QED
      BY <3>1, <3>2, <3>3, <3>4 DEF IInv
  <2>3. CASE ReadBack(c)
    <3> USE <1>0, <1>1, <2>3 DEF ReadBack, TypeOK, Goto
    <3>1. GenerationsBounded'
      BY DEF GenerationsBounded
    <3>2. AcquiredIsActive'
      BY DEF AcquiredIsActive
    <3>3. UndisturbedUntilDisplaced'
      BY DEF AcquiredIsActive, UndisturbedUntilDisplaced, Owns, Inside
    <3>4. WritesFollowGenerations'
      BY DEF WritesFollowGenerations
    <3> QED
      BY <3>1, <3>2, <3>3, <3>4 DEF IInv
  <2>4. CASE Heartbeat(c)
    <3> USE <1>0, <1>1, <2>4 DEF Heartbeat, TypeOK, Goto
    <3>1. /\ row'.status = row.status /\ row'.owner = row.owner
          /\ row'.generation = row.generation
      OBVIOUS
    <3>2. \A d \in Calls : /\ pc'[d] \in Inside => pc[d] \in Inside
                           /\ pc'[d] = "acquired" => pc[d] = "acquired"
      BY DEF Inside
    <3> QED
      BY <3>1, <3>2
      DEF IInv, GenerationsBounded, AcquiredIsActive, UndisturbedUntilDisplaced,
          WritesFollowGenerations, Owns
  <2>5. CASE FencedWrite(c)
    <3> USE <1>0, <1>1, <2>5 DEF FencedWrite, TypeOK
    <3>1. /\ generation[c] = row.generation
          /\ Len(log') = Len(log) + 1
          /\ \A i \in 1 .. Len(log) : log'[i] = log[i]
          /\ log'[Len(log) + 1] = row.generation
      BY DEF Verified, Owns
    <3>2. GenerationsBounded'
      BY <3>1 DEF GenerationsBounded
    <3>3. WritesFollowGenerations'
      BY <3>1 DEF WritesFollowGenerations, GenerationsBounded
    <3> QED
      BY <3>2, <3>3
      DEF IInv, AcquiredIsActive, UndisturbedUntilDisplaced, Owns
  <2>6. CASE Release(c)
    <3> USE <1>0, <1>1, <2>6 DEF Release, TypeOK, Goto
    <3>1. GenerationsBounded'
      BY DEF GenerationsBounded
    <3>2. AcquiredIsActive'
      BY DEF AcquiredIsActive, Owns
    <3>3. UndisturbedUntilDisplaced'
      BY DEF UndisturbedUntilDisplaced, Owns, Inside
    <3>4. WritesFollowGenerations'
      BY DEF WritesFollowGenerations
    <3> QED
      BY <3>1, <3>2, <3>3, <3>4 DEF IInv
  <2>7. CASE Enter(c) \/ RefuseHeld(c) \/ ReadBackLost(c) \/ HeartbeatClock(c)
             \/ FencingFails(c) \/ Leave(c) \/ Crash(c)
    <3>1. Quiet
      BY <2>7
      DEF Enter, RefuseHeld, ReadBackLost, HeartbeatClock, FencingFails, Leave,
          Crash, Inside
    <3> QED
      BY <2>1, <3>1
  <2> QED
    BY <1>3, <2>2, <2>3, <2>4, <2>5, <2>6, <2>7 DEF CallStep
<1> QED
  BY <1>2, <1>3 DEF Next, Tick, vars

LEMMA IInvAlways == Spec => []IInv
  BY InitEstablishesIInv, StepPreservesIInv, PTL DEF Spec

\* A displaced call never writes again: protected writes are ordered by the
\* generation they were made under (fenced_write, acquire_external_order_lease).
THEOREM FencingCorrect == Spec => []WritesFollowGenerations
<1>1. IInv => WritesFollowGenerations
  BY DEF IInv
<1> QED
  BY <1>1, IInvAlways, PTL

\* Nobody takes the lease out from under a call that was not displaced
\* (the owner and generation test of heartbeat and release).
THEOREM LeaseUndisturbed == Spec => []UndisturbedUntilDisplaced
<1>1. IInv => UndisturbedUntilDisplaced
  BY DEF IInv
<1> QED
  BY <1>1, IInvAlways, PTL

\* Both halves of the fencing, for any calls, any TTL and any clock
\* (verify_external_order_lease, release_external_order_lease).
THEOREM FencingIsSound == Spec => []FencingSound
<1>1. WritesFollowGenerations /\ UndisturbedUntilDisplaced => FencingSound
  BY DEF FencingSound
<1> QED
  BY <1>1, FencingCorrect, LeaseUndisturbed, PTL

-----------------------------------------------------------------------------
\* A step of the lease is a step of FencedLease, or a step it does not see.
LEMMA StepRefinesFencedLease == IInv /\ [Next]_vars => [Fenced!Next]_(Fenced!vars)
<1> SUFFICES ASSUME IInv, [Next]_vars PROVE [Fenced!Next]_(Fenced!vars)
  OBVIOUS
<1> USE DEF Fenced!vars
<1>0. TypeOK /\ UndisturbedUntilDisplaced
  BY DEF IInv
<1>1. CASE UNCHANGED <<row, log>>
  BY <1>1
<1>2. ASSUME NEW c \in Calls, CallStep(c) PROVE [Fenced!Next]_(Fenced!vars)
  <2>1. CASE Acquire(c)
    BY <2>1 DEF Acquire, Fenced!Next, Fenced!Grant
  <2>2. CASE Heartbeat(c)
    <3>1. /\ row'.status = row.status /\ row'.owner = row.owner
          /\ row'.generation = row.generation /\ log' = log
      BY <1>0, <2>2 DEF Heartbeat, TypeOK
    <3> QED
      BY <3>1
  <2>3. CASE FencedWrite(c)
    BY <1>0, <2>3
    DEF FencedWrite, Verified, Owns, Fenced!Next, Fenced!Write, TypeOK
  <2>4. CASE Release(c)
    <3>1. CASE Owns(c)
      <4>1. row'.status = "RELEASED" /\ row'.generation = row.generation /\ log' = log
        BY <1>0, <2>4, <3>1 DEF Release, TypeOK
      <4>2. row.status = "ACTIVE" /\ row.owner = c
        BY <3>1 DEF Owns
      <4>3. Fenced!Return
        BY <4>1, <4>2 DEF Fenced!Return
      <4> QED
        BY <4>3 DEF Fenced!Next
    <3>2. CASE ~Owns(c)
      BY <1>1, <2>4, <3>2 DEF Release
    <3> QED
      BY <3>1, <3>2
  <2>5. CASE UNCHANGED <<row, log>>
    BY <1>1, <2>5
  <2> QED
    BY <1>2, <2>1, <2>2, <2>3, <2>4, <2>5
    DEF CallStep, Enter, RefuseHeld, ReadBack, ReadBackLost, HeartbeatClock,
        FencingFails, Leave, Crash
<1> QED
  BY <1>1, <1>2 DEF Next, Tick, vars

\* The clocked, fenced row implements the lease the order operations rely on.
THEOREM LeaseImplementsFencedLease == Spec => ImplementsFencedLease
<1>1. Init => Fenced!Init
  BY DEF Init, Fenced!Init
<1> QED
  BY <1>1, IInvAlways, StepRefinesFencedLease, PTL DEF Spec, ImplementsFencedLease, Fenced!Spec

-----------------------------------------------------------------------------
(* The ledger of schema versions.                                             *)


(* What a process has still to do covers what the ledger lacks.               *)
CoversMissing ==
  \A p \in Starter : starter[p].pc \in {"migrating", "begun", "worked"} =>
    /\ starter[p].pending \subseteq 1..Code[p]
    /\ 1..Code[p] \subseteq ledger \cup starter[p].pending

LedgerInv ==
  /\ SchemaTypeOK
  /\ legacy \subseteq ledger
  /\ LedgerIsSound
  /\ CoversMissing

-----------------------------------------------------------------------------

LEMMA InitLedger == SchemaInit => LedgerInv
  BY SchemaAssumption DEF SchemaInit, LedgerInv, SchemaTypeOK, LedgerIsSound, OpenIsMigrated,
     RecordedRanOnce, RanInOrder, CoversMissing, Version, Pc

(* A step that commits nothing, and after which nobody but p has moved.       *)
LEMMA NothingCommitted ==
  ASSUME NEW p \in Starter, LedgerInv,
         UNCHANGED <<legacy, ledger, ran>>,
         SchemaTypeOK',
         \A q \in Starter \ {p} : starter'[q] = starter[q],
         starter'[p].pc = "open" => 1..Code[p] \subseteq ledger,
         starter'[p].pc \in {"migrating", "begun", "worked"} =>
           /\ starter'[p].pending \subseteq 1..Code[p]
           /\ 1..Code[p] \subseteq ledger \cup starter'[p].pending
  PROVE  LedgerInv'
  BY DEF LedgerInv, LedgerIsSound, OpenIsMigrated, RecordedRanOnce, RanInOrder, CoversMissing

(* A connection that is lost commits nothing.                                 *)
LEMMA QuitLedger ==
  ASSUME NEW p \in Starter, NEW end \in {"collided", "failed"}, LedgerInv, Quit(p, end)
  PROVE  LedgerInv'
<1>1. SchemaTypeOK'
  BY SchemaAssumption DEF LedgerInv, SchemaTypeOK, Quit, Pc
<1>2. /\ \A q \in Starter \ {p} : starter'[q] = starter[q]
      /\ starter'[p].pc = end
      /\ UNCHANGED <<legacy, ledger, ran>>
  BY DEF LedgerInv, SchemaTypeOK, Quit
<1> QED
  BY <1>1, <1>2, NothingCommitted

(* The commit of the least pending version.                                   *)
LEMMA CommitLedger ==
  ASSUME NEW p \in Starter, NEW v \in Version, LedgerInv, Commit(p, v)
  PROVE  LedgerInv'
<1>1. CASE v \in ledger /\ Quit(p, "collided")
  BY <1>1, QuitLedger
<1>2. CASE v \notin ledger
  <2>1. /\ ledger' = ledger \cup {v}
        /\ ran' = [ran EXCEPT ![v] = @ + 1]
        /\ starter' = [starter EXCEPT ![p] = [pc |-> "migrating", pending |-> @.pending \ {v}]]
        /\ lock' = Nobody
        /\ UNCHANGED <<legacy, failures>>
    BY <1>2 DEF Commit
  <2>2. /\ SchemaTypeOK /\ legacy \subseteq ledger
        /\ starter[p].pc = "worked" /\ starter[p].pending \in SUBSET Version
        /\ starter[p].pending \subseteq 1..Code[p]
        /\ 1..Code[p] \subseteq ledger \cup starter[p].pending
        /\ v \in starter[p].pending /\ \A w \in starter[p].pending : v <= w
    BY DEF LedgerInv, CoversMissing, Commit, IsNext, SchemaTypeOK
  <2>3. SchemaTypeOK'
    BY <2>1, <2>2, SchemaAssumption DEF SchemaTypeOK, Pc
  <2>4. OpenIsMigrated'
    BY <2>1, <2>2 DEF LedgerInv, LedgerIsSound, OpenIsMigrated, SchemaTypeOK
  <2>5. RecordedRanOnce'
    <3>1. ran[v] = 0 /\ \A w \in Version \ {v} : ran'[w] = ran[w]
      BY <1>2, <2>1, <2>2 DEF LedgerInv, LedgerIsSound, RecordedRanOnce, SchemaTypeOK
    <3>2. ran'[v] = 1 /\ v \notin legacy
      BY <1>2, <2>1, <2>2, <3>1 DEF SchemaTypeOK
    <3> QED
      BY <2>1, <3>1, <3>2 DEF LedgerInv, LedgerIsSound, RecordedRanOnce
  <2>6. RanInOrder'
    <3>1. 1..v \subseteq ledger'
      <4> SUFFICES ASSUME NEW w \in 1..v PROVE w \in ledger'
        OBVIOUS
      <4>1. v \in 1..Code[p] /\ Code[p] \in Nat /\ v \in Nat
        BY <2>2, SchemaAssumption DEF Version
      <4>2. w \in 1..Code[p] /\ (w \in starter[p].pending => w = v)
        BY <2>2, <4>1
      <4> QED
        BY <2>1, <2>2, <4>2
    <3>2. ASSUME NEW w \in Version \ {v}, ran'[w] > 0 PROVE 1..w \subseteq ledger'
      BY <2>1, <2>2, <3>2 DEF LedgerInv, LedgerIsSound, RanInOrder, SchemaTypeOK
    <3> QED
      BY <3>1, <3>2 DEF RanInOrder
  <2>7. CoversMissing'
    <3>1. ASSUME NEW q \in Starter \ {p},
                 starter'[q].pc \in {"migrating", "begun", "worked"}
          PROVE  /\ starter'[q].pending \subseteq 1..Code[q]
                 /\ 1..Code[q] \subseteq ledger' \cup starter'[q].pending
      BY <2>1, <2>2, <3>1 DEF LedgerInv, CoversMissing, SchemaTypeOK
    <3>2. starter'[p].pending = starter[p].pending \ {v}
      BY <2>1, <2>2 DEF SchemaTypeOK
    <3>3. /\ starter'[p].pending \subseteq 1..Code[p]
          /\ 1..Code[p] \subseteq ledger' \cup starter'[p].pending
      BY <2>1, <2>2, <3>2
    <3> QED
      BY <3>1, <3>3 DEF CoversMissing
  <2> QED
    BY <2>1, <2>2, <2>3, <2>4, <2>5, <2>6, <2>7 DEF LedgerInv, LedgerIsSound
<1> QED
  BY <1>1, <1>2 DEF Commit

LEMMA StepLedger ==
  ASSUME LedgerInv, [SchemaNext]_schemaVars
  PROVE  LedgerInv'
<1>1. ASSUME NEW p \in Starter, CheckVersion(p) PROVE LedgerInv'
  <2>1. SchemaTypeOK'
    BY <1>1 DEF LedgerInv, SchemaTypeOK, CheckVersion, At, Pc
  <2>2. /\ \A q \in Starter \ {p} : starter'[q] = starter[q]
        /\ starter'[p].pc \in {"checked", "refused"}
        /\ UNCHANGED <<legacy, ledger, ran>>
    BY <1>1 DEF LedgerInv, SchemaTypeOK, CheckVersion, At
  <2> QED
    BY <2>1, <2>2, NothingCommitted
<1>2. ASSUME NEW p \in Starter, FindPending(p) PROVE LedgerInv'
  <2>1. Missing(p) \subseteq Version
    BY SchemaAssumption DEF Missing, Version
  <2>2. SchemaTypeOK'
    BY <1>2, <2>1 DEF LedgerInv, SchemaTypeOK, FindPending, Pc
  <2>3. /\ \A q \in Starter \ {p} : starter'[q] = starter[q]
        /\ starter'[p].pc = "migrating" /\ starter'[p].pending = Missing(p)
        /\ UNCHANGED <<legacy, ledger, ran>>
    BY <1>2 DEF LedgerInv, SchemaTypeOK, FindPending
  <2>4. Missing(p) \subseteq 1..Code[p] /\ 1..Code[p] \subseteq ledger \cup Missing(p)
    BY DEF Missing
  <2> QED
    BY <2>2, <2>3, <2>4, NothingCommitted
<1>3. ASSUME NEW p \in Starter, Begin(p) \/ Work(p) PROVE LedgerInv'
  <2>1. SchemaTypeOK'
    BY <1>3 DEF LedgerInv, SchemaTypeOK, Begin, Work, At, Pc
  <2>2. /\ starter[p].pc \in {"migrating", "begun"}
        /\ starter'[p].pending = starter[p].pending
        /\ starter'[p].pc = "open" => starter[p].pending = {}
        /\ \A q \in Starter \ {p} : starter'[q] = starter[q]
        /\ UNCHANGED <<legacy, ledger, ran>>
    BY <1>3 DEF LedgerInv, SchemaTypeOK, Begin, Work, At
  <2>3. /\ starter[p].pending \subseteq 1..Code[p]
        /\ 1..Code[p] \subseteq ledger \cup starter[p].pending
    BY <2>2 DEF LedgerInv, CoversMissing
  <2> QED
    BY <2>1, <2>2, <2>3, NothingCommitted
<1>4. ASSUME NEW p \in Starter, Fail(p) PROVE LedgerInv'
  BY <1>4, QuitLedger DEF Fail
<1>5. ASSUME NEW p \in Starter, StartAgain(p) PROVE LedgerInv'
  <2>1. SchemaTypeOK'
    BY <1>5 DEF LedgerInv, SchemaTypeOK, StartAgain, At, Pc
  <2>2. /\ \A q \in Starter \ {p} : starter'[q] = starter[q]
        /\ starter'[p].pc = "idle"
        /\ UNCHANGED <<legacy, ledger, ran>>
    BY <1>5 DEF LedgerInv, SchemaTypeOK, StartAgain, At
  <2> QED
    BY <2>1, <2>2, NothingCommitted
<1>6. CASE UNCHANGED schemaVars
  BY <1>6 DEF schemaVars, LedgerInv, SchemaTypeOK, LedgerIsSound, OpenIsMigrated,
     RecordedRanOnce, RanInOrder, CoversMissing
<1> QED
  BY <1>1, <1>2, <1>3, <1>4, <1>5, <1>6, CommitLedger DEF SchemaNext

(* What is open is migrated, each migration ran once and in its order         *)
(* (apply_pending_schema_migrations), for any number of processes.            *)
THEOREM LedgerStaysSound == SchemaSpec => []LedgerIsSound
<1>1. SchemaInit => LedgerInv
  BY InitLedger
<1>2. LedgerInv /\ [SchemaNext]_schemaVars => LedgerInv'
  BY StepLedger
<1>3. LedgerInv => LedgerIsSound
  BY DEF LedgerInv
<1> QED
  BY <1>1, <1>2, <1>3, PTL DEF SchemaSpec
-----------------------------------------------------------------------------
(* A run of a provider's process.                                             *)

(* What is read is kept until there is too much of it, and a reader that came *)
(* to the end of the file has read everything there will be.                  *)
ReadIsKept ==
  /\ pipe.read <= pipe.written
  /\ pump # "overflow" => buffer = pipe.read
  /\ pump = "ended" => pipe.read = pipe.written /\ ~Held

(* A signal is only sent when the run will end in an exception.               *)
SignalsRaise ==
  /\ runner.after = "close" => runner.error # "none"
  /\ runner.pc = "poll" => runner.after = "join" /\ runner.error = "none" /\ ~signalled
  /\ runner.pc = "term" \/ signalled => runner.error # "none" \/ pump = "overflow"

(* Past a termination nobody is left, and past the joins a run without an     *)
(* exception has the end of the file.                                         *)
EndsInOrder ==
  /\ runner.pc = "join" => child = "reaped"
  /\ runner.pc = "close" => GroupEmpty /\ runner.error # "none"
  /\ runner.pc = "done" => IF runner.error = "none" THEN pump = "ended" ELSE GroupEmpty

ProcessInv == ProcessTypeOK /\ ReadIsKept /\ SignalsRaise /\ EndsInOrder

LEMMA InitProcess == ASSUME ProcessInit PROVE ProcessInv
<1>1. ProcessTypeOK
  <2>1. pipe \in [written : 0..MaxBlocks, read : 0..MaxBlocks] /\ buffer \in 0..Limit
    BY ProcessAssumption DEF ProcessInit
  <2>2. runner \in [pc : {"poll", "term", "grace", "join", "close", "done"},
                   after : {"join", "close"},
                   error : {"none", "timeout", "overflow", "shutdown"}]
    BY DEF ProcessInit
  <2>3. helper \in [is : {"none", "grouped", "away", "gone"}, holds : BOOLEAN]
    BY DEF ProcessInit
  <2> QED
    BY <2>1, <2>2, <2>3 DEF ProcessInit, ProcessTypeOK
<1>2. ReadIsKept /\ EndsInOrder
  BY DEF ProcessInit, ReadIsKept, EndsInOrder
<1>3. SignalsRaise
  BY DEF ProcessInit, SignalsRaise
<1> QED
  BY <1>1, <1>2, <1>3 DEF ProcessInv

(* The child and its helper: a pipe that nobody holds is held by nobody       *)
(* again, and a group that is empty stays so.                                 *)
LEMMA ChildStep ==
  ASSUME ProcessInv, Write \/ ChildExits \/ Help PROVE ProcessInv'
<1>1. ProcessTypeOK'
  <2>1. CASE Write
    <3>1. pipe.written + 1 \in 0..MaxBlocks
      BY <2>1, ProcessAssumption DEF ProcessInv, ProcessTypeOK, Write
    <3> QED
      BY <2>1, <3>1 DEF ProcessInv, ProcessTypeOK, Write
  <2>2. CASE ChildExits
    BY <2>2 DEF ProcessInv, ProcessTypeOK, ChildExits
  <2>3. CASE Help
    BY <2>3 DEF ProcessInv, ProcessTypeOK, Help
  <2> QED
    BY <2>1, <2>2, <2>3
<1>2. /\ Held' => Held
      /\ ~Held => UNCHANGED pipe
  BY DEF ProcessInv, ProcessTypeOK, Write, ChildExits, Help, HelperLives, Held
<1>3. /\ GroupEmpty => GroupEmpty'
      /\ child = "reaped" => child' = "reaped"
  BY DEF ProcessInv, ProcessTypeOK, Write, ChildExits, Help, HelperLives, GroupEmpty
<1>4. /\ UNCHANGED <<runner, buffer, pump, feed, signalled>>
      /\ pipe'.read = pipe.read /\ pipe'.written >= pipe.written
  BY DEF ProcessInv, ProcessTypeOK, Write, ChildExits, Help
<1>5. ReadIsKept'
  BY <1>1, <1>2, <1>4 DEF ProcessInv, ProcessTypeOK, ReadIsKept
<1>6. SignalsRaise' /\ EndsInOrder'
  BY <1>3, <1>4 DEF ProcessInv, SignalsRaise, EndsInOrder
<1> QED
  BY <1>1, <1>5, <1>6 DEF ProcessInv

(* The threads.                                                               *)
LEMMA ThreadStep == ASSUME ProcessInv, Pump \/ EndFeed PROVE ProcessInv'
<1>1. ProcessTypeOK'
  BY ProcessAssumption DEF ProcessInv, ProcessTypeOK, ReadIsKept, Pump, EndFeed
<1>2. /\ UNCHANGED <<runner, child, helper, signalled>>
      /\ Held' <=> Held
      /\ GroupEmpty' <=> GroupEmpty
  BY DEF Pump, EndFeed, Held, HelperLives, GroupEmpty
<1>3. pump # "reading" => UNCHANGED <<pump, pipe, buffer>>
  BY DEF Pump, EndFeed
<1>4. ReadIsKept'
  BY <1>2 DEF ProcessInv, ProcessTypeOK, ReadIsKept, Pump, EndFeed
<1>5. SignalsRaise' /\ EndsInOrder'
  BY <1>2, <1>3 DEF ProcessInv, ProcessTypeOK, SignalsRaise, EndsInOrder
<1> QED
  BY <1>1, <1>4, <1>5 DEF ProcessInv

(* run() itself: a child that was terminated is reaped with its group.        *)
LEMMA RunnerMoves == ASSUME ProcessInv, RunnerStep PROVE ProcessInv'
<1> USE DEF ProcessInv
<1>1. ProcessTypeOK'
  <2>1. runner' \in [pc : {"poll", "term", "grace", "join", "close", "done"},
                    after : {"join", "close"},
                    error : {"none", "timeout", "overflow", "shutdown"}]
    <3>1. CASE PollChild \/ Deadline
      BY <3>1 DEF ProcessTypeOK, PollChild, Deadline
    <3>2. CASE Terminate \/ Kill
      BY <3>2 DEF ProcessTypeOK, Terminate, Kill
    <3>3. CASE Join \/ ClosePipes
      BY <3>3 DEF ProcessTypeOK, Join, Raise, ClosePipes
    <3> QED
      BY <3>1, <3>2, <3>3 DEF RunnerStep
  <2>2. helper' \in [is : {"none", "grouped", "away", "gone"}, holds : BOOLEAN]
    BY DEF ProcessTypeOK, RunnerStep, PollChild, Deadline, Terminate, Kill, Join, ClosePipes
  <2>3. UNCHANGED <<pipe, buffer, pump, feed>> /\ signalled' \in BOOLEAN
        /\ child' \in {"running", "exited", "reaped"}
    BY DEF ProcessTypeOK, RunnerStep, PollChild, Deadline, Terminate, Kill, Join, ClosePipes
  <2> QED
    BY <2>1, <2>2, <2>3 DEF ProcessTypeOK
<1>2. UNCHANGED <<pipe, buffer, pump, feed>> /\ (Held' => Held)
  BY DEF RunnerStep, PollChild, Deadline, Terminate, Kill, Join, ClosePipes, Held, HelperLives,
     ProcessTypeOK
<1>3. ReadIsKept'
  BY <1>2 DEF ReadIsKept
<1>4. CASE PollChild \/ Deadline
  BY <1>1, <1>3, <1>4 DEF PollChild, Deadline, ProcessTypeOK, SignalsRaise, EndsInOrder
<1>5. CASE Terminate
  BY <1>1, <1>3, <1>5 DEF Terminate, ProcessTypeOK, SignalsRaise, EndsInOrder, GroupEmpty
<1>6. CASE Kill
  <2>1. GroupEmpty' /\ child' = "reaped"
    BY <1>6 DEF Kill, GroupEmpty, ProcessTypeOK
  <2>2. SignalsRaise' /\ EndsInOrder'
    BY <1>6, <2>1 DEF Kill, ProcessTypeOK, SignalsRaise, EndsInOrder
  <2> QED
    BY <1>1, <1>3, <2>2
<1>7. CASE Join
  BY <1>1, <1>3, <1>7 DEF Join, Raise, ThreadsEnded, ProcessTypeOK, SignalsRaise, EndsInOrder
<1>8. CASE ClosePipes
  BY <1>1, <1>3, <1>8 DEF ClosePipes, ProcessTypeOK, SignalsRaise, EndsInOrder, GroupEmpty
<1> QED
  BY <1>4, <1>5, <1>6, <1>7, <1>8 DEF RunnerStep

(* A result is everything that was written, by a child nobody interrupted,    *)
(* and an exception leaves nobody in the group (BoundedProcessRunner.run),    *)
(* for any limit and whatever the child and its helper do.                    *)
THEOREM ResultIsAlwaysWhole == ProcessSpec => []ResultIsWhole
<1>1. ProcessInit => ProcessInv
  BY InitProcess
<1>2. ProcessInv /\ [ProcessNext]_processVars => ProcessInv'
  <2>1. CASE UNCHANGED processVars
    BY <2>1 DEF processVars, ProcessInv, ProcessTypeOK, ReadIsKept, SignalsRaise, EndsInOrder,
       Held, HelperLives, GroupEmpty
  <2> QED
    BY <2>1, ChildStep, ThreadStep, RunnerMoves DEF ProcessNext
<1>3. ProcessInv => ResultIsWhole
  BY DEF ProcessInv, ReadIsKept, SignalsRaise, EndsInOrder, ResultIsWhole, Returned, Raised
<1> QED
  BY <1>1, <1>2, <1>3, PTL DEF ProcessSpec
-----------------------------------------------------------------------------
(* The soak campaign, run by one process at a time: what its tables hold, and *)
(* what a process knows of them at each of its commits.                       *)

(* A date that some attempt has a record of.                                  *)
Said(d) == \E a \in DOMAIN attempts : attempts[a].day[d].status # "NONE"

(* The dates an attempt has a record of.                                      *)
Noted(a) == Recorded(attempts[a].day)

(* A completed record of a date that ran rests on a clean lifecycle.          *)
Stands(rec, d) ==
  /\ rec.ran => rec.status \notin {"NONE", "SKIPPED"}
  /\ rec.ran /\ rec.status = "COMPLETED" => life[d] = "clean"

RecordsStand ==
  \A d \in Day : Stands(legacyDays[d], d) /\ \A a \in DOMAIN attempts : Stands(attempts[a].day[d], d)

(* The old table holds no date that the first attempt has no record of.       *)
LegacyFollows ==
  \A d \in Day : legacyDays[d].status # "NONE" =>
    attempts # <<>> /\ attempts[1].day[d].status # "NONE"

(* What an operator run says of a date that no attempt has recorded yet.      *)
RunsTell == \A d \in Day : op[d].out # "none" /\ ~op[d].reasons => life[d] = "clean" \/ Said(d)

(* An attempt records its dates in order: it leaves out completed ones only.  *)
Dealt(a, d) == d \in Noted(a) \/ Effective(a)[d].status = "COMPLETED"

InOrder == \A a \in DOMAIN attempts : \A d \in Noted(a) : \A e \in 1..(d - 1) : Dealt(a, e)

(* What the tables say of each other.                                         *)
CampaignTables == RecordsStand /\ LegacyFollows /\ RunsTell /\ InOrder

(* The stages of a date, and all of a campaign's day loop.                    *)
Working == {"judge", "life", "books", "verify", "save", "legacy"}
InDates == Working \cup {"day"}

(* Where the attempt has records and the process has not counted them yet.    *)
Counted(w) == IF w.pc = "legacy" THEN Noted(w.att) \ {w.day} ELSE Noted(w.att)
Ahead(w, d) == d > w.day \/ (d = w.day /\ w.pc # "legacy")

(* A set of dates that lacks none before its last.                            *)
Closed(dates) == \A d \in dates : \A e \in 1..(d - 1) : e \in dates

(* The attempt a process works on is the newest, and still runs.              *)
Attempting(w) ==
  w.att \in DOMAIN attempts /\ w.att = Len(attempts) /\ attempts[w.att].status = "RUNNING"

(* What a process read when it entered its attempt still holds of the dates   *)
(* it has not come to.                                                        *)
Remembers(w) ==
  /\ w.day >= 1
  /\ \A d \in w.own : d \in Noted(w.att)
  /\ \A d \in Noted(w.att) : Ahead(w, d) => d \in w.own
  /\ \A d \in Day : d \notin w.own /\ Ahead(w, d) => w.prior[d] = Effective(w.att)[d].status
  /\ \A d \in w.dates : d < w.day => Dealt(w.att, d)
  /\ w.blocked <=> \E d \in Counted(w) : attempts[w.att].day[d].status \in Blocker

(* What a process in the middle of a date may rely on.                        *)
AtWork(w) ==
  /\ w.day \in w.dates /\ w.day \notin w.own /\ w.prior[w.day] # "COMPLETED"
  /\ w.pc # "legacy" => w.prior[w.day] # "FAILED" /\ (w.att = 1 \/ ~StopConfig \/ ~w.blocked)
  /\ w.pc = "legacy" => w.att = 1 /\ attempts[1].day[w.day] = w.res /\ w.res.status # "NONE"
  /\ w.pc \in {"life", "books"} /\ life[w.day] # "none" => Said(w.day)
  /\ w.pc = "verify" => life[w.day] # "none" /\ (~w.failed => life[w.day] = "clean" \/ Said(w.day))
  /\ w.pc = "save" => Stands(w.res, w.day) /\ w.res.status \notin {"NONE", "SKIPPED"}

(* A process about to promote has seen the floor of dates run.                *)
Reviewing(w) ==
  /\ w.att \in DOMAIN attempts /\ attempts[w.att].status # "RUNNING"
  /\ w.pc = "promote" => Cardinality({d \in Day : Effective(w.att)[d].ran}) >= MinDays

(* What a process holds between two of its commits.                           *)
WorkType ==
  [pc : InDates \cup {"idle", "define", "open", "enter", "review", "promote"},
   att : Nat, day : 0..(MaxDay + 1), dates : SUBSET Day, own : SUBSET Day,
   prior : [Day -> {"NONE", "COMPLETED", "BLOCKED", "SKIPPED", "FAILED", "RECOVERY"}],
   blocked : BOOLEAN, first : 0..MaxDay, stop : BOOLEAN, who : Reviewer \cup {NoOperator},
   failed : BOOLEAN, res : RecordType]

(* What is true of a process, by the stage it is at.                          *)
ProcessOK(w) ==
  /\ w.pc \in InDates \cup {"define", "open", "enter"} => Closed(w.dates)
  /\ w.pc \in InDates \cup {"enter"} => Attempting(w)
  /\ w.pc \in InDates => Remembers(w)
  /\ w.pc \in Working => AtWork(w)
  /\ w.pc \in {"review", "promote"} => Reviewing(w)

(* What is true of the tables, whatever the processes do.                     *)
CampaignFacts ==
  VerdictMatchesEvidence /\ ReadyMeansClean /\ StopsAtBlocker /\ CampaignTables

(* The inductive invariant of the campaign.                                   *)
CampaignIInv ==
  /\ CampaignTypeOK /\ CampaignFacts
  /\ process \in [Runner -> WorkType]
  /\ \A r \in Runner : ProcessOK(process[r])

(* A set of numbers up to n has a largest one.                                *)
LEMMA LargestUpTo ==
  ASSUME NEW n \in Nat, NEW S \in SUBSET (1..n), S # {}
  PROVE  \E a \in S : \A b \in S : b <= a
<1> DEFINE Gaps == {n - a : a \in S}
<1>1. Gaps \in SUBSET Nat /\ Gaps # {}
  <2>1. \A a \in S : a \in 1..n /\ n - a \in Nat
    OBVIOUS
  <2> QED
    BY <2>1
<1>2. PICK g \in Gaps : \A h \in Gaps : ~ (<<h, g>> \in OpToRel(<, Nat))
  BY <1>1, NatLessThanWellFounded, WFMin
<1>3. PICK a \in S : g = n - a
  BY <1>2
<1>4. ASSUME NEW b \in S PROVE b <= a
  <2>1. n - b \in Gaps /\ n - b \in Nat /\ g \in Nat
    BY <1>1, <1>2
  <2>2. ~ (<<n - b, g>> \in OpToRel(<, Nat))
    BY <2>1, <1>2
  <2>3. ~ (n - b < g)
    BY <2>1, <2>2 DEF OpToRel
  <2> QED
    BY <2>3, <1>3
<1> QED
  BY <1>4

(* The first n attempts that say something of a date, and those that left it  *)
(* out; the latest of a set of attempts.                                      *)
Told(n, d) == {a \in 1..n : attempts[a].day[d].status \notin {"NONE", "SKIPPED"}}
Skipped(n, d) == {a \in 1..n : attempts[a].day[d].status = "SKIPPED"}
Last(S) == CHOOSE a \in S : \A b \in S : b <= a

(* The latest attempt that says something of a date decides; then the old     *)
(* table; then whether the date was left out.                                 *)
LEMMA EffectiveOf ==
  ASSUME NEW n \in Nat, NEW d \in Day
  PROVE  Effective(n)[d] =
           IF Told(n, d) # {} THEN attempts[Last(Told(n, d))].day[d]
           ELSE IF legacyDays[d].status # "NONE" THEN legacyDays[d]
           ELSE IF Skipped(n, d) # {} THEN Record("SKIPPED", FALSE, FALSE) ELSE NoRecord
  BY DEF Effective, Told, Skipped, Last

(* The latest of the attempts that say something is one of them.              *)
LEMMA LastTold ==
  ASSUME NEW n \in Nat, NEW d \in Day, Told(n, d) # {}
  PROVE  Last(Told(n, d)) \in Told(n, d)
<1> DEFINE S == Told(n, d)
<1>1. S \in SUBSET (1..n)
  BY DEF Told
<1>0. S # {}
  OBVIOUS
<1> HIDE DEF S
<1>2. \E a \in S : \A b \in S : b <= a
  BY <1>0, <1>1, LargestUpTo
<1> QED
  BY <1>2 DEF S, Last

(* What the tables hold is of its type.                                       *)
LEMMA DaysTyped ==
  ASSUME CampaignTypeOK
  PROVE  /\ \A a \in DOMAIN attempts : attempts[a] \in AttemptType
         /\ \A a \in DOMAIN attempts : \A d \in Day : attempts[a].day[d] \in RecordType
         /\ \A d \in Day : legacyDays[d] \in RecordType
         /\ DOMAIN attempts = 1..Len(attempts) /\ Len(attempts) \in Nat
<1>1. attempts \in Seq(AttemptType) /\ legacyDays \in [Day -> RecordType]
  BY DEF CampaignTypeOK
<1>2. \A a \in DOMAIN attempts : attempts[a] \in AttemptType
  BY <1>1
<1>3. \A x \in AttemptType : x.day \in [Day -> RecordType]
  BY DEF AttemptType
<1>4. \A a \in DOMAIN attempts : \A d \in Day : attempts[a].day[d] \in RecordType
  BY <1>2, <1>3
<1> QED
  BY <1>1, <1>2, <1>4

(* A date's effective result is one of its records, or a plain one.           *)
LEMMA EffectiveRecord ==
  ASSUME CampaignTypeOK, NEW n \in 0..Len(attempts), NEW d \in Day
  PROVE  \/ \E a \in DOMAIN attempts : /\ Effective(n)[d] = attempts[a].day[d]
                                       /\ a <= n /\ attempts[a].day[d].status \notin {"NONE", "SKIPPED"}
         \/ Effective(n)[d] = legacyDays[d]
         \/ Effective(n)[d] = Record("SKIPPED", FALSE, FALSE) /\ Skipped(n, d) # {}
         \/ Effective(n)[d] = NoRecord
<1>1. n \in Nat /\ DOMAIN attempts = 1..Len(attempts) /\ Len(attempts) \in Nat
  BY DaysTyped
<1>2. CASE Told(n, d) # {}
  <2>1. Last(Told(n, d)) \in 1..n /\ attempts[Last(Told(n, d))].day[d].status \notin {"NONE", "SKIPPED"}
    BY <1>1, <1>2, LastTold DEF Told
  <2>2. Effective(n)[d] = attempts[Last(Told(n, d))].day[d]
    BY <1>1, <1>2, EffectiveOf
  <2>3. Last(Told(n, d)) \in DOMAIN attempts /\ Last(Told(n, d)) <= n
    BY <1>1, <2>1
  <2> QED
    BY <2>1, <2>2, <2>3
<1>3. CASE Told(n, d) = {}
  BY <1>1, <1>3, EffectiveOf
<1> QED
  BY <1>2, <1>3

LEMMA EffectiveTyped ==
  ASSUME CampaignTypeOK, NEW n \in 0..Len(attempts), NEW d \in Day
  PROVE  Effective(n)[d] \in RecordType
<1>1. Record("SKIPPED", FALSE, FALSE) \in RecordType /\ NoRecord \in RecordType
  BY DEF Record, NoRecord, RecordType
<1>2. \A a \in DOMAIN attempts : attempts[a].day[d] \in RecordType
  BY DaysTyped
<1>3. legacyDays[d] \in RecordType
  BY DaysTyped
<1> QED
  BY <1>1, <1>2, <1>3, EffectiveRecord

(* What a completed effective result that ran says of the books.              *)
LEMMA EffectiveStands ==
  ASSUME CampaignTypeOK, RecordsStand, NEW n \in 0..Len(attempts), NEW d \in Day
  PROVE  Stands(Effective(n)[d], d)
<1>1. Stands(Record("SKIPPED", FALSE, FALSE), d) /\ Stands(NoRecord, d)
  BY DEF Record, NoRecord, Stands
<1>2. (\A a \in DOMAIN attempts : Stands(attempts[a].day[d], d)) /\ Stands(legacyDays[d], d)
  BY DEF RecordsStand
<1> QED
  BY <1>1, <1>2, EffectiveRecord

(* The latest attempt's effective results are empty where nothing is recorded. *)
LEMMA EffectiveNone ==
  ASSUME CampaignTypeOK, LegacyFollows, NEW d \in Day
  PROVE  Effective(Len(attempts))[d].status = "NONE" <=> ~Said(d)
<1> DEFINE n == Len(attempts)
<1>1. n \in Nat /\ DOMAIN attempts = 1..n
  BY DaysTyped
<1>2. CASE Told(n, d) # {}
  <2>1. Last(Told(n, d)) \in 1..n /\ attempts[Last(Told(n, d))].day[d].status \notin {"NONE", "SKIPPED"}
    BY <1>1, <1>2, LastTold DEF Told
  <2>2. Effective(n)[d] = attempts[Last(Told(n, d))].day[d]
    BY <1>1, <1>2, EffectiveOf
  <2> QED
    BY <2>1, <2>2, <1>1 DEF Said
<1>3. CASE Told(n, d) = {} /\ Said(d)
  <2>1. \A a \in 1..n : attempts[a].day[d].status \in {"NONE", "SKIPPED"}
    BY <1>3 DEF Told
  <2>2. PICK a \in 1..n : attempts[a].day[d].status = "SKIPPED"
    BY <2>1, <1>1, <1>3 DEF Said
  <2>3. Skipped(n, d) # {}
    BY <2>2 DEF Skipped
  <2>4. Effective(n)[d] = IF legacyDays[d].status # "NONE" THEN legacyDays[d] ELSE Record("SKIPPED", FALSE, FALSE)
    BY <1>1, <1>3, <2>3, EffectiveOf
  <2> QED
    BY <2>4, <1>3 DEF Record
<1>4. CASE Told(n, d) = {} /\ ~Said(d)
  <2>1. Skipped(n, d) = {}
    BY <1>1, <1>4 DEF Said, Skipped
  <2>2. legacyDays[d].status = "NONE"
    BY <1>1, <1>4 DEF Said, LegacyFollows
  <2>3. Effective(n)[d] = NoRecord
    BY <1>1, <1>4, <2>1, <2>2, EffectiveOf
  <2> QED
    BY <2>3, <1>4 DEF NoRecord, Record
<1> QED
  BY <1>2, <1>3, <1>4

(* Results up to an attempt change only with their own date's records.        *)
LEMMA EffectiveKept ==
  ASSUME NEW n \in Nat, NEW d \in Day,
         \A a \in 1..n : attempts'[a].day[d] = attempts[a].day[d],
         legacyDays'[d] = legacyDays[d]
  PROVE  Effective(n)'[d] = Effective(n)[d]
<1>1. Told(n, d)' = Told(n, d) /\ Skipped(n, d)' = Skipped(n, d)
  BY DEF Told, Skipped
<1>2. Last(Told(n, d))' = Last(Told(n, d))
  BY <1>1 DEF Last
<1>3. Told(n, d) # {} => Last(Told(n, d)) \in 1..n
  BY LastTold DEF Told
<1>4. Effective(n)'[d] =
           IF Told(n, d)' # {} THEN attempts'[Last(Told(n, d))'].day[d]
           ELSE IF legacyDays'[d].status # "NONE" THEN legacyDays'[d]
           ELSE IF Skipped(n, d)' # {} THEN Record("SKIPPED", FALSE, FALSE) ELSE NoRecord
  BY DEF Effective, Told, Skipped, Last, Day
<1> HIDE DEF Told, Skipped, Last
<1> QED
  BY <1>1, <1>2, <1>3, <1>4, EffectiveOf

(* The attempts of two states have the same records.                          *)
DaysKept ==
  /\ DOMAIN attempts' = DOMAIN attempts
  /\ \A a \in DOMAIN attempts : attempts'[a].day = attempts[a].day
  /\ legacyDays' = legacyDays

LEMMA DaysKeptEffective ==
  ASSUME CampaignTypeOK, DaysKept, NEW a \in DOMAIN attempts, NEW d \in Day
  PROVE  Effective(a)'[d] = Effective(a)[d]
<1>1. a \in Nat /\ 1..a \subseteq DOMAIN attempts
  BY DaysTyped
<1>2. \A b \in 1..a : attempts'[b].day[d] = attempts[b].day[d]
  BY <1>1 DEF DaysKept
<1>3. legacyDays'[d] = legacyDays[d]
  BY DEF DaysKept
<1> QED
  BY <1>1, <1>2, <1>3, EffectiveKept

LEMMA DaysKeptSaid ==
  ASSUME DaysKept
  PROVE  /\ \A d \in Day : Said(d)' <=> Said(d)
         /\ \A a \in DOMAIN attempts : Noted(a)' = Noted(a)
<1>1. \A d \in Day : Said(d)' <=> Said(d)
  BY DEF DaysKept, Said
<1>2. \A a \in DOMAIN attempts : Noted(a)' = Noted(a)
  BY DEF DaysKept, Noted, Recorded, Day
<1> QED
  BY <1>1, <1>2

LEMMA DaysKeptDealt ==
  ASSUME CampaignTypeOK, DaysKept, NEW a \in DOMAIN attempts, NEW d \in Day
  PROVE  Dealt(a, d)' <=> Dealt(a, d)
<1>1. Effective(a)'[d] = Effective(a)[d]
  BY DaysKeptEffective
<1>2. Noted(a)' = Noted(a)
  BY DaysKeptSaid
<1> QED
  BY <1>1, <1>2 DEF Dealt

LEMMA DaysKeptOrder ==
  ASSUME CampaignTypeOK, DaysKept, InOrder
  PROVE  InOrder'
<1> SUFFICES ASSUME NEW a \in DOMAIN attempts', NEW d \in Noted(a)', NEW e \in 1..(d - 1)
             PROVE  Dealt(a, e)'
  BY DEF InOrder
<1>1. a \in DOMAIN attempts /\ d \in Noted(a) /\ d \in Day
  BY DaysKeptSaid DEF DaysKept, Noted, Recorded
<1>2. Dealt(a, e) /\ e \in Day
  BY <1>1, CampaignAssumption DEF InOrder, Day
<1> QED
  BY <1>1, <1>2, DaysKeptDealt

LEMMA DaysKeptStops ==
  ASSUME DaysKept, StopsAtBlocker
  PROVE  StopsAtBlocker'
<1> SUFFICES ASSUME NEW a \in DOMAIN attempts
             PROVE  /\ \A d \in Day : attempts'[a].day[d].status = "SKIPPED" =>
                         \E e \in 1..(d - 1) : attempts'[a].day[e].status \in Blocker
                    /\ a > 1 /\ StopConfig => \A d \in Recorded(attempts'[a].day) :
                         (\E e \in 1..(d - 1) : attempts'[a].day[e].status \in Blocker)
                           => attempts'[a].day[d].status \in {"SKIPPED", "RECOVERY"}
  BY DEF StopsAtBlocker, Day, Recorded, Blocker, DaysKept
<1>1. attempts'[a].day = attempts[a].day
  BY DEF DaysKept
<1>2. /\ \A d \in Day : attempts[a].day[d].status = "SKIPPED" =>
             \E e \in 1..(d - 1) : attempts[a].day[e].status \in Blocker
      /\ a > 1 /\ StopConfig => \A d \in Recorded(attempts[a].day) :
             (\E e \in 1..(d - 1) : attempts[a].day[e].status \in Blocker)
               => attempts[a].day[d].status \in {"SKIPPED", "RECOVERY"}
  BY DEF StopsAtBlocker
<1> QED
  BY <1>1, <1>2

(* A lifecycle run that is there is kept.                                     *)
LifeKept == \A d \in Day : life[d] # "none" => life'[d] = life[d]

LEMMA StandsKept ==
  ASSUME LifeKept, NEW rec, NEW d \in Day, Stands(rec, d)
  PROVE  /\ rec.ran => rec.status \notin {"NONE", "SKIPPED"}
         /\ rec.ran /\ rec.status = "COMPLETED" => life'[d] = "clean"
  BY DEF LifeKept, Stands

LEMMA DaysKeptStand ==
  ASSUME DaysKept, LifeKept, RecordsStand
  PROVE  RecordsStand'
<1> SUFFICES ASSUME NEW d \in Day
             PROVE  Stands(legacyDays[d], d)' /\ \A a \in DOMAIN attempts' : Stands(attempts[a].day[d], d)'
  BY DEF RecordsStand, Day
<1>1. Stands(legacyDays[d], d)'
  BY StandsKept DEF RecordsStand, DaysKept, Stands
<1>2. ASSUME NEW a \in DOMAIN attempts PROVE Stands(attempts[a].day[d], d)'
  <2>1. Stands(attempts[a].day[d], d)
    BY DEF RecordsStand
  <2>2. attempts'[a].day[d] = attempts[a].day[d]
    BY DEF DaysKept
  <2> QED
    BY <2>1, <2>2, StandsKept DEF Stands
<1> QED
  BY <1>1, <1>2 DEF DaysKept

LEMMA DaysKeptLegacy ==
  ASSUME CampaignTypeOK, DaysKept, LegacyFollows
  PROVE  LegacyFollows'
<1> SUFFICES ASSUME NEW d \in Day, legacyDays'[d].status # "NONE"
             PROVE  attempts' # <<>> /\ attempts'[1].day[d].status # "NONE"
  BY DEF LegacyFollows, Day
<1>1. attempts # <<>> /\ attempts[1].day[d].status # "NONE"
  BY DEF LegacyFollows, DaysKept
<1>2. 1 \in DOMAIN attempts
  BY <1>1, DaysTyped DEF CampaignTypeOK
<1> QED
  BY <1>1, <1>2 DEF DaysKept

(* An attempt's verdict, where its records and its status are kept.           *)
VerdictOf(a) ==
  /\ attempts[a].status = "COMPLETED_NOT_READY" => Settled(a)
  /\ attempts[a].status = "BLOCKED" => ~Settled(a)
  /\ attempts[a].status = "COMPLETED_READY" =>
       /\ Settled(a)
       /\ Cardinality({d \in Day : Effective(a)[d].ran}) >= MinDays
       /\ \A d \in Day : Effective(a)[d].ran => life[d] = "clean"

LEMMA VerdictsAre ==
  VerdictMatchesEvidence /\ ReadyMeansClean <=> \A a \in DOMAIN attempts : VerdictOf(a)
  BY DEF VerdictMatchesEvidence, ReadyMeansClean, VerdictOf

LEMMA VerdictKept ==
  ASSUME NEW a \in DOMAIN attempts, VerdictOf(a), LifeKept,
         \A d \in Day : Effective(a)'[d] = Effective(a)[d],
         attempts'[a].status = attempts[a].status
  PROVE  VerdictOf(a)'
<1>1. Settled(a)' <=> Settled(a)
  BY DEF Settled, Blocker, Day
<1>2. {d \in Day : Effective(a)'[d].ran} = {d \in Day : Effective(a)[d].ran}
  OBVIOUS
<1>3. (\A d \in Day : Effective(a)[d].ran => life[d] = "clean")
        => \A d \in Day : Effective(a)'[d].ran => life'[d] = "clean"
  BY DEF LifeKept
<1> QED
  BY <1>1, <1>2, <1>3 DEF VerdictOf, Day

(* The tables' facts where the attempts keep their records.                   *)
LEMMA FactsKept ==
  ASSUME CampaignTypeOK, CampaignFacts, DaysKept, LifeKept, RunsTell',
         \A a \in DOMAIN attempts : VerdictOf(a)'
  PROVE  CampaignFacts'
<1>1. (VerdictMatchesEvidence /\ ReadyMeansClean)'
  BY DEF VerdictMatchesEvidence, ReadyMeansClean, VerdictOf, DaysKept
<1>2. StopsAtBlocker'
  BY DaysKeptStops DEF CampaignFacts
<1>3. RecordsStand' /\ LegacyFollows' /\ InOrder'
  BY DaysKeptStand, DaysKeptLegacy, DaysKeptOrder DEF CampaignFacts, CampaignTables
<1> QED
  BY <1>1, <1>2, <1>3 DEF CampaignFacts, CampaignTables

LEMMA QuietFacts ==
  ASSUME CampaignTypeOK, CampaignFacts, UNCHANGED <<attempts, legacyDays, life, op>>
  PROVE  CampaignFacts'
<1>1. DaysKept /\ LifeKept
  BY DEF DaysKept, LifeKept
<1>2. RunsTell'
  BY <1>1, DaysKeptSaid DEF RunsTell, CampaignFacts, CampaignTables, Day
<1>3. ASSUME NEW a \in DOMAIN attempts PROVE VerdictOf(a)'
  <2>1. VerdictOf(a)
    BY VerdictsAre DEF CampaignFacts
  <2>2. \A d \in Day : Effective(a)'[d] = Effective(a)[d]
    BY <1>1, DaysKeptEffective
  <2> QED
    BY <1>1, <2>1, <2>2, VerdictKept
<1> QED
  BY <1>1, <1>2, <1>3, FactsKept

(* A record is inserted: one date of one attempt.                             *)
LEMMA SavedDays ==
  ASSUME CampaignTypeOK, NEW w \in WorkType, NEW rec \in RecordType,
         w.att \in DOMAIN attempts, w.day \in Day,
         attempts[w.att].day[w.day].status = "NONE", SaveRecord(w, rec)
  PROVE  /\ attempts' \in Seq(AttemptType)
         /\ DOMAIN attempts' = DOMAIN attempts /\ Len(attempts') = Len(attempts)
         /\ \A a \in DOMAIN attempts : attempts'[a].status = attempts[a].status
         /\ \A a \in DOMAIN attempts : \A d \in Day :
              attempts'[a].day[d] = IF a = w.att /\ d = w.day THEN rec ELSE attempts[a].day[d]
<1> DEFINE old == attempts[w.att]
           days == [old.day EXCEPT ![w.day] = rec]
           new == [old EXCEPT !.day = days]
<1>1. attempts \in Seq(AttemptType) /\ old \in AttemptType /\ old.day \in [Day -> RecordType]
  BY DaysTyped DEF CampaignTypeOK, AttemptType
<1>2. days \in [Day -> RecordType]
  BY <1>1
<1>3. attempts' = [attempts EXCEPT ![w.att] = new]
  BY <1>1 DEF SaveRecord
<1>4. \A d \in Day : days[d] = IF d = w.day THEN rec ELSE old.day[d]
  BY <1>1
<1> HIDE DEF days
<1>5. new \in AttemptType /\ new.status = old.status /\ new.day = days
  BY <1>1, <1>2 DEF AttemptType
<1> HIDE DEF new
<1>6. attempts' \in Seq(AttemptType) /\ DOMAIN attempts' = DOMAIN attempts /\ Len(attempts') = Len(attempts)
  BY <1>1, <1>3, <1>5
<1>7. \A a \in DOMAIN attempts : attempts'[a] = IF a = w.att THEN new ELSE attempts[a]
  BY <1>1, <1>3
<1>8. \A a \in DOMAIN attempts : attempts'[a].status = attempts[a].status
  BY <1>5, <1>7
<1>9. \A a \in DOMAIN attempts : \A d \in Day :
        attempts'[a].day[d] = IF a = w.att /\ d = w.day THEN rec ELSE attempts[a].day[d]
  BY <1>4, <1>5, <1>7
<1> QED
  BY <1>6, <1>8, <1>9

(* What a record changes of the results, and what it does not.                *)
OneRecord(n, x, rec) ==
  /\ DOMAIN attempts' = DOMAIN attempts
  /\ \A a \in DOMAIN attempts : attempts'[a].status = attempts[a].status
  /\ \A a \in DOMAIN attempts : \A d \in Day :
       attempts'[a].day[d] = IF a = n /\ d = x THEN rec ELSE attempts[a].day[d]
  /\ attempts[n].day[x].status = "NONE" /\ rec.status # "NONE"
  /\ UNCHANGED <<legacyDays, life, op>>

LEMMA OneEffective ==
  ASSUME CampaignTypeOK, NEW n \in DOMAIN attempts, NEW x \in Day, NEW rec \in RecordType,
         OneRecord(n, x, rec), NEW a \in DOMAIN attempts, NEW d \in Day, a < n \/ d # x
  PROVE  Effective(a)'[d] = Effective(a)[d]
<1>1. a \in Nat /\ n \in Nat /\ 1..a \subseteq DOMAIN attempts
  BY DaysTyped
<1>2. \A b \in 1..a : attempts'[b].day[d] = attempts[b].day[d]
  BY <1>1 DEF OneRecord
<1>3. legacyDays'[d] = legacyDays[d]
  BY DEF OneRecord
<1> QED
  BY <1>1, <1>2, <1>3, EffectiveKept

LEMMA OneNoted ==
  ASSUME CampaignTypeOK, NEW n \in DOMAIN attempts, NEW x \in Day, NEW rec \in RecordType,
         OneRecord(n, x, rec)
  PROVE  /\ \A a \in DOMAIN attempts : Noted(a)' = IF a = n THEN Noted(a) \cup {x} ELSE Noted(a)
         /\ \A d \in Day : Said(d) => Said(d)'
  BY DEF OneRecord, Noted, Recorded, Said, Day

LEMMA OneDealt ==
  ASSUME CampaignTypeOK, NEW n \in DOMAIN attempts, NEW x \in Day, NEW rec \in RecordType,
         OneRecord(n, x, rec), n = Len(attempts), NEW a \in DOMAIN attempts, NEW e \in Day, Dealt(a, e)
  PROVE  Dealt(a, e)'
<1>1. CASE a = n /\ e = x
  BY <1>1, OneNoted DEF Dealt
<1>2. CASE ~(a = n /\ e = x)
  <2>1. a < n \/ e # x
    BY <1>2, DaysTyped
  <2>2. Effective(a)'[e] = Effective(a)[e]
    BY <2>1, OneEffective
  <2>3. e \in Noted(a) => e \in Noted(a)'
    BY OneNoted
  <2> QED
    BY <2>2, <2>3 DEF Dealt
<1> QED
  BY <1>1, <1>2

(* The record of a date by the attempt's own process, in its turn.            *)
InTurn(n, x, rec) ==
  /\ n = Len(attempts) /\ attempts[n].status = "RUNNING"
  /\ Stands(rec, x)
  /\ \A d \in Noted(n) : d < x
  /\ \A d \in 1..(x - 1) : Dealt(n, d)
  /\ rec.status = "SKIPPED" => \E e \in Noted(n) : attempts[n].day[e].status \in Blocker
  /\ n > 1 /\ StopConfig /\ rec.status \notin {"SKIPPED", "RECOVERY"} =>
       \A e \in Noted(n) : attempts[n].day[e].status \notin Blocker

LEMMA OneStand ==
  ASSUME CampaignTypeOK, NEW n \in DOMAIN attempts, NEW x \in Day, NEW rec \in RecordType,
         OneRecord(n, x, rec), Stands(rec, x), RecordsStand
  PROVE  RecordsStand'
<1> SUFFICES ASSUME NEW d \in Day
             PROVE  Stands(legacyDays[d], d)' /\ \A a \in DOMAIN attempts : Stands(attempts[a].day[d], d)'
  BY DEF RecordsStand, Day, OneRecord
<1>1. life' = life /\ legacyDays' = legacyDays
  BY DEF OneRecord
<1>2. Stands(legacyDays[d], d)'
  BY <1>1 DEF RecordsStand, Stands
<1>3. ASSUME NEW a \in DOMAIN attempts PROVE Stands(attempts[a].day[d], d)'
  <2>1. Stands(attempts[a].day[d], d)
    BY DEF RecordsStand
  <2>2. attempts'[a].day[d] = IF a = n /\ d = x THEN rec ELSE attempts[a].day[d]
    BY DEF OneRecord
  <2> QED
    BY <1>1, <2>1, <2>2 DEF Stands
<1> QED
  BY <1>2, <1>3

LEMMA OneLegacy ==
  ASSUME CampaignTypeOK, NEW n \in DOMAIN attempts, NEW x \in Day, NEW rec \in RecordType,
         OneRecord(n, x, rec), LegacyFollows
  PROVE  LegacyFollows'
<1> SUFFICES ASSUME NEW d \in Day, legacyDays'[d].status # "NONE"
             PROVE  attempts' # <<>> /\ attempts'[1].day[d].status # "NONE"
  BY DEF LegacyFollows, Day
<1>1. attempts # <<>> /\ attempts[1].day[d].status # "NONE"
  BY DEF LegacyFollows, OneRecord
<1>2. 1 \in DOMAIN attempts
  BY <1>1, DaysTyped DEF CampaignTypeOK
<1> QED
  BY <1>1, <1>2 DEF OneRecord

LEMMA OneOrder ==
  ASSUME CampaignTypeOK, NEW n \in DOMAIN attempts, NEW x \in Day, NEW rec \in RecordType,
         OneRecord(n, x, rec), InTurn(n, x, rec), InOrder
  PROVE  InOrder'
<1> SUFFICES ASSUME NEW a \in DOMAIN attempts, NEW d \in Noted(a)', NEW e \in 1..(d - 1)
             PROVE  Dealt(a, e)'
  BY DEF InOrder, OneRecord
<1>1. d \in Noted(a) \/ (a = n /\ d = x)
  BY OneNoted
<1>2. Dealt(a, e)
  BY <1>1 DEF InOrder, InTurn
<1>3. d \in Day
  BY DEF Noted, Recorded, Day
<1>4. e \in Day
  BY <1>3, CampaignAssumption DEF Day
<1> QED
  BY <1>2, <1>4, OneDealt DEF InTurn

LEMMA OneStops ==
  ASSUME CampaignTypeOK, NEW n \in DOMAIN attempts, NEW x \in Day, NEW rec \in RecordType,
         OneRecord(n, x, rec), InTurn(n, x, rec), StopsAtBlocker
  PROVE  StopsAtBlocker'
<1> SUFFICES ASSUME NEW a \in DOMAIN attempts, NEW d \in Day
             PROVE  /\ attempts'[a].day[d].status = "SKIPPED" =>
                         \E e \in 1..(d - 1) : attempts'[a].day[e].status \in Blocker
                    /\ a > 1 /\ StopConfig /\ attempts'[a].day[d].status # "NONE"
                         /\ (\E e \in 1..(d - 1) : attempts'[a].day[e].status \in Blocker)
                       => attempts'[a].day[d].status \in {"SKIPPED", "RECOVERY"}
  BY DEF StopsAtBlocker, Day, Recorded, Blocker, OneRecord
<1>1. /\ attempts[a].day[d].status = "SKIPPED" =>
           \E e \in 1..(d - 1) : attempts[a].day[e].status \in Blocker
      /\ a > 1 /\ StopConfig /\ attempts[a].day[d].status # "NONE"
           /\ (\E e \in 1..(d - 1) : attempts[a].day[e].status \in Blocker)
         => attempts[a].day[d].status \in {"SKIPPED", "RECOVERY"}
  BY DEF StopsAtBlocker, Recorded
<1>2. \A e \in 1..(d - 1) : e \in Day /\ e < d
  BY CampaignAssumption DEF Day
<1>3. \A e \in Day : attempts'[a].day[e] = IF a = n /\ e = x THEN rec ELSE attempts[a].day[e]
  BY DEF OneRecord
<1>4. attempts[n].day[x].status \notin Blocker
  BY DEF OneRecord, Blocker
<1>5. CASE a # n
  BY <1>1, <1>2, <1>3, <1>5
<1>6. CASE a = n /\ d # x
  <2>1. attempts'[a].day[d] = attempts[a].day[d]
    BY <1>3, <1>6
  <2>2. attempts[a].day[d].status # "NONE" => d < x
    BY <1>6 DEF InTurn, Noted, Recorded
  <2>3. d < x => \A e \in 1..(d - 1) : attempts'[a].day[e] = attempts[a].day[e]
    BY <1>2, <1>3 DEF Day
  <2> QED
    BY <1>1, <2>1, <2>2, <2>3
<1>7. CASE a = n /\ d = x
  <2>1. attempts'[a].day[d] = rec
    BY <1>3, <1>7
  <2>2. \A e \in 1..(d - 1) : attempts'[a].day[e] = attempts[a].day[e]
    BY <1>2, <1>3, <1>7
  <2>3. \A e \in Noted(n) : e \in 1..(d - 1)
    BY <1>7 DEF InTurn, Noted, Recorded, Day
  <2>4. \A e \in 1..(d - 1) : attempts[a].day[e].status \in Blocker => e \in Noted(n)
    BY <1>2, <1>7 DEF Noted, Recorded, Blocker
  <2> QED
    BY <1>7, <2>1, <2>2, <2>3, <2>4 DEF InTurn
<1> QED
  BY <1>5, <1>6, <1>7

LEMMA OneVerdict ==
  ASSUME CampaignTypeOK, NEW n \in DOMAIN attempts, NEW x \in Day, NEW rec \in RecordType,
         OneRecord(n, x, rec), InTurn(n, x, rec), NEW a \in DOMAIN attempts, VerdictOf(a)
  PROVE  VerdictOf(a)'
<1>1. CASE a = n
  BY <1>1 DEF InTurn, OneRecord, VerdictOf
<1>2. CASE a # n
  <2>1. a < n
    BY <1>2, DaysTyped DEF InTurn
  <2>2. \A d \in Day : Effective(a)'[d] = Effective(a)[d]
    BY <2>1, OneEffective
  <2>3. LifeKept /\ attempts'[a].status = attempts[a].status
    BY DEF OneRecord, LifeKept
  <2> QED
    BY <2>2, <2>3, VerdictKept
<1> QED
  BY <1>1, <1>2

LEMMA OneFacts ==
  ASSUME CampaignTypeOK, NEW n \in DOMAIN attempts, NEW x \in Day, NEW rec \in RecordType,
         OneRecord(n, x, rec), InTurn(n, x, rec), CampaignFacts
  PROVE  CampaignFacts'
<1>1. \A a \in DOMAIN attempts : VerdictOf(a)'
  BY VerdictsAre, OneVerdict DEF CampaignFacts
<1>2. (VerdictMatchesEvidence /\ ReadyMeansClean)'
  BY <1>1 DEF VerdictMatchesEvidence, ReadyMeansClean, VerdictOf, OneRecord
<1>3. RunsTell'
  BY OneNoted DEF RunsTell, CampaignFacts, CampaignTables, OneRecord, Day
<1>4. RecordsStand' /\ LegacyFollows' /\ InOrder'
  BY OneStand, OneLegacy, OneOrder DEF InTurn, CampaignFacts, CampaignTables
<1>5. StopsAtBlocker'
  BY OneStops DEF CampaignFacts
<1> QED
  BY <1>2, <1>3, <1>4, <1>5 DEF CampaignFacts, CampaignTables

LEMMA SetTo ==
  ASSUME process \in [Runner -> WorkType], NEW r \in Runner, NEW new \in WorkType, Set(r, new)
  PROVE  process' \in [Runner -> WorkType] /\ process'[r] = new
  BY DEF Set

LEMMA IdleTyped == Idle \in WorkType /\ Idle.pc = "idle"
<1>1. [d \in Day |-> "NONE"] \in [Day -> {"NONE", "COMPLETED", "BLOCKED", "SKIPPED", "FAILED", "RECOVERY"}]
  OBVIOUS
<1>2. NoRecord \in RecordType
  BY DEF NoRecord, Record, RecordType
<1>3. 0 \in 0..(MaxDay + 1) /\ 0 \in 0..MaxDay
  BY CampaignAssumption
<1> DEFINE none == [d \in Day |-> "NONE"]
<1> HIDE DEF none
<1>4. Idle = [pc |-> "idle", att |-> 0, day |-> 0, dates |-> {}, own |-> {}, prior |-> none,
         blocked |-> FALSE, first |-> 0, stop |-> TRUE, who |-> NoOperator, failed |-> FALSE, res |-> NoRecord]
  BY DEF Idle, none
<1>5. none \in [Day -> {"NONE", "COMPLETED", "BLOCKED", "SKIPPED", "FAILED", "RECOVERY"}]
  BY <1>1 DEF none
<1> QED
  BY <1>2, <1>3, <1>4, <1>5 DEF WorkType, InDates, Working

(* The same process elsewhere.                                                *)
SameWork(v, w) ==
  /\ v.att = w.att /\ v.day = w.day /\ v.dates = w.dates /\ v.own = w.own
  /\ v.prior = w.prior /\ v.blocked = w.blocked

Pcs == InDates \cup {"idle", "define", "open", "enter", "review", "promote"}

LEMMA Moved ==
  ASSUME NEW w \in WorkType, NEW at \in Pcs
  PROVE  LET v == [w EXCEPT !.pc = at] IN
         /\ v \in WorkType /\ v.pc = at /\ SameWork(v, w)
         /\ v.res = w.res /\ v.failed = w.failed
  BY DEF WorkType, SameWork, Pcs

LEMMA AfterIs ==
  ASSUME NEW w \in WorkType, NEW rec \in RecordType, w.day \in Day
  PROVE  LET v == After(w, rec) IN
         /\ v \in WorkType /\ v.pc = "day" /\ v.att = w.att /\ v.day = w.day + 1
         /\ v.dates = w.dates /\ v.own = w.own /\ v.prior = w.prior
         /\ v.blocked = (w.blocked \/ rec.status \in Blocker)
<1> DEFINE first == IF w.first = 0 /\ rec.status \in Blocker THEN w.day ELSE w.first
           blocked == w.blocked \/ rec.status \in Blocker
           next == w.day + 1
<1>1. first \in 0..MaxDay /\ next \in 0..(MaxDay + 1)
  BY CampaignAssumption DEF WorkType, Day
<1>2. blocked \in BOOLEAN
  OBVIOUS
<1>3. NoRecord \in RecordType
  BY DEF NoRecord, Record, RecordType
<1>4. After(w, rec) = [w EXCEPT !.day = next, !.pc = "day", !.res = NoRecord, !.failed = FALSE,
                                !.blocked = blocked, !.first = first]
  BY DEF After, WorkType
<1> HIDE DEF first, blocked, next
<1>5. LET v == [w EXCEPT !.day = next, !.pc = "day", !.res = NoRecord, !.failed = FALSE,
                                !.blocked = blocked, !.first = first] IN
      /\ v \in WorkType /\ v.pc = "day" /\ v.att = w.att /\ v.day = next
      /\ v.dates = w.dates /\ v.own = w.own /\ v.prior = w.prior /\ v.blocked = blocked
  BY <1>1, <1>2, <1>3 DEF WorkType, InDates
<1> QED
  BY <1>4, <1>5 DEF next, blocked

(* A process that goes on with the same date.                                 *)
LEMMA Carried ==
  ASSUME CampaignTypeOK, DaysKept, NEW r \in Runner,
         SameWork(process'[r], process[r]), process[r].dates \in SUBSET Day, process[r].att \in DOMAIN attempts,
         process'[r].pc = "legacy" <=> process[r].pc = "legacy", Remembers(process[r])
  PROVE  Remembers(process[r])'
<1>0. PICK w, v, n, x : w = process[r] /\ v = process'[r] /\ n = w.att /\ x = w.day
  OBVIOUS
<1>1. n \in DOMAIN attempts /\ v.att = n /\ v.day = x
  BY <1>0 DEF SameWork
<1>2. Noted(n)' = Noted(n) /\ Noted(n) \in SUBSET Day
  BY <1>1, DaysKeptSaid DEF Noted, Recorded
<1>3. \A d \in Day : Effective(n)'[d] = Effective(n)[d]
  BY <1>1, DaysKeptEffective
<1>4. \A d \in Day : Dealt(n, d)' <=> Dealt(n, d)
  BY <1>2, <1>3 DEF Dealt
<1>5. attempts'[n].day = attempts[n].day
  BY <1>1 DEF DaysKept
<1>6. /\ x >= 1
      /\ \A d \in w.own : d \in Noted(n)
      /\ \A d \in Noted(n) : Ahead(w, d) => d \in w.own
      /\ \A d \in Day : d \notin w.own /\ Ahead(w, d) => w.prior[d] = Effective(n)[d].status
      /\ \A d \in w.dates : d < x => Dealt(n, d)
      /\ w.blocked <=> \E d \in Counted(w) : attempts[n].day[d].status \in Blocker
  BY <1>0 DEF Remembers
<1>7. \A d : Ahead(v, d) <=> Ahead(w, d)
  BY <1>0, <1>1 DEF Ahead
<1>8. Counted(process[r])' = Counted(w)
  BY <1>0, <1>1, <1>2 DEF Counted
<1>9. /\ x >= 1
      /\ \A d \in v.own : d \in Noted(n)'
      /\ \A d \in Noted(n)' : Ahead(v, d) => d \in v.own
      /\ \A d \in Day : d \notin v.own /\ Ahead(v, d) => v.prior[d] = Effective(n)'[d].status
      /\ v.blocked <=> \E d \in Counted(w) : attempts'[n].day[d].status \in Blocker
  BY <1>0, <1>2, <1>3, <1>5, <1>6, <1>7 DEF SameWork
<1>10. \A d \in v.dates : d < x => Dealt(n, d)'
  <2>1. \A d \in v.dates : d < x => d \in Day
    BY <1>0 DEF SameWork
  <2> QED
    BY <1>0, <1>4, <1>6, <2>1 DEF SameWork
<1> QED
  BY <1>0, <1>1, <1>8, <1>9, <1>10 DEF Remembers, Ahead, Blocker, Day

(* A process that passes over a date.                                         *)
LEMMA PassedOn ==
  ASSUME CampaignTypeOK, DaysKept, NEW r \in Runner, NEW n \in DOMAIN attempts, NEW x \in Day,
         process[r].att = n, process[r].day = x, process[r].dates \in SUBSET Day,
         process[r].pc = "day", Passed(process[r]), Remembers(process[r]),
         LET v == process'[r]
             w == process[r]
         IN /\ v.pc = "day" /\ v.att = n /\ v.day = x + 1 /\ v.dates = w.dates /\ v.own = w.own
            /\ v.prior = w.prior /\ v.blocked = w.blocked
  PROVE  Remembers(process[r])'
<1>0. PICK w, v : w = process[r] /\ v = process'[r]
  OBVIOUS
<1>2. Noted(n)' = Noted(n) /\ Noted(n) \in SUBSET Day
  BY DaysKeptSaid DEF Noted, Recorded
<1>3. \A d \in Day : Effective(n)'[d] = Effective(n)[d]
  BY DaysKeptEffective
<1>4. \A d \in Day : Dealt(n, d)' <=> Dealt(n, d)
  BY <1>2, <1>3 DEF Dealt
<1>5. attempts'[n].day = attempts[n].day
  BY DEF DaysKept
<1>6. /\ x >= 1
      /\ \A d \in w.own : d \in Noted(n)
      /\ \A d \in Noted(n) : d > x \/ d = x => d \in w.own
      /\ \A d \in Day : d \notin w.own /\ (d > x \/ d = x) => w.prior[d] = Effective(n)[d].status
      /\ \A d \in w.dates : d < x => Dealt(n, d)
      /\ w.blocked <=> \E d \in Noted(n) : attempts[n].day[d].status \in Blocker
  BY <1>0 DEF Remembers, Ahead, Counted
<1>7. \A d \in Day : d > x + 1 \/ d = x + 1 => d > x
  BY DEF Day
<1>8. /\ x + 1 >= 1
      /\ \A d \in v.own : d \in Noted(n)'
      /\ \A d \in Noted(n)' : d > x + 1 \/ d = x + 1 => d \in v.own
      /\ \A d \in Day : d \notin v.own /\ (d > x + 1 \/ d = x + 1) => v.prior[d] = Effective(n)'[d].status
      /\ v.blocked <=> \E d \in Noted(n)' : attempts'[n].day[d].status \in Blocker
  BY <1>0, <1>2, <1>3, <1>5, <1>6, <1>7 DEF Day
<1>9. x \in w.dates => Dealt(n, x)
  <2>1. CASE x \in w.own
    BY <2>1, <1>6 DEF Dealt
  <2>2. CASE x \notin w.own /\ w.prior[x] = "COMPLETED"
    BY <2>2, <1>6 DEF Dealt
  <2> QED
    BY <2>1, <2>2, <1>0 DEF Passed
<1>10. \A d \in v.dates : d < x + 1 => Dealt(n, d)'
  <2>1. \A d \in v.dates : d \in Day /\ d \in w.dates
    BY <1>0
  <2>2. \A d \in Day : d < x + 1 => d < x \/ d = x
    BY DEF Day
  <2> QED
    BY <2>1, <2>2, <1>4, <1>6, <1>9
<1> QED
  BY <1>0, <1>8, <1>10 DEF Remembers, Ahead, Counted, Blocker, Day

(* A process that has counted the record of its date.                         *)
LEMMA NextDay ==
  ASSUME NEW r \in Runner, NEW n \in DOMAIN attempts, NEW x \in Day, NEW rec \in RecordType,
         process[r].att = n, process[r].day = x, process[r].dates \in SUBSET Day,
         x \notin process[r].own, x \notin Counted(process[r]), Remembers(process[r]),
         LET v == process'[r]
             w == process[r]
         IN /\ v.pc = "day" /\ v.att = n /\ v.day = x + 1 /\ v.dates = w.dates /\ v.own = w.own
            /\ v.prior = w.prior /\ v.blocked = (w.blocked \/ rec.status \in Blocker),
         Noted(n)' = Counted(process[r]) \cup {x},
         attempts'[n].day[x] = rec,
         \A e \in Day : e # x => attempts'[n].day[e] = attempts[n].day[e],
         \A e \in Day : e # x => Effective(n)'[e] = Effective(n)[e]
  PROVE  Remembers(process[r])'
<1>0. PICK w, v, C : w = process[r] /\ v = process'[r] /\ C = Counted(w)
  OBVIOUS
<1>1. C \in SUBSET Day /\ x \notin C /\ \A d \in Noted(n) : d # x => d \in C
  BY <1>0 DEF Counted, Noted, Recorded
<1>2. Noted(n)' = C \cup {x}
  BY <1>0
<1>3. \A d \in Day : d > x \/ d < x => d # x
  BY DEF Day
<1>4. /\ x >= 1
      /\ \A d \in w.own : d \in Noted(n)
      /\ \A d \in Noted(n) : d > x => d \in w.own
      /\ \A d \in Day : d \notin w.own /\ d > x => w.prior[d] = Effective(n)[d].status
      /\ \A d \in w.dates : d < x => Dealt(n, d)
      /\ w.blocked <=> \E d \in C : attempts[n].day[d].status \in Blocker
  BY <1>0 DEF Remembers, Ahead, Counted
<1>5. \A d \in Day : d > x + 1 \/ d = x + 1 => d > x
  BY DEF Day
<1>6. \A d \in v.own : d \in Noted(n)'
  BY <1>0, <1>1, <1>2, <1>4
<1>7. \A d \in Noted(n)' : d > x + 1 \/ d = x + 1 => d \in v.own
  <2>1. \A d \in C : d \in Noted(n)
    BY <1>0 DEF Counted
  <2> QED
    BY <2>1, <1>0, <1>1, <1>2, <1>3, <1>4, <1>5
<1>8. \A d \in Day : d \notin v.own /\ (d > x + 1 \/ d = x + 1) => v.prior[d] = Effective(n)'[d].status
  BY <1>0, <1>3, <1>4, <1>5
<1>9. v.blocked <=> \E d \in Noted(n)' : attempts'[n].day[d].status \in Blocker
  BY <1>0, <1>1, <1>2, <1>4
<1>10. \A d \in v.dates : d < x + 1 => Dealt(n, d)'
  <2> SUFFICES ASSUME NEW d \in v.dates, d < x + 1 PROVE Dealt(n, d)'
    OBVIOUS
  <2>1. d \in Day /\ d \in w.dates
    BY <1>0
  <2>2. CASE d = x
    BY <2>2, <1>2 DEF Dealt
  <2>3. CASE d # x
    <3>1. d < x
      BY <2>1, <2>3 DEF Day
    <3>2. Dealt(n, d) /\ Effective(n)'[d] = Effective(n)[d]
      BY <3>1, <2>1, <2>3, <1>4
    <3> QED
      BY <3>2, <2>3, <1>1, <1>2 DEF Dealt
  <2> QED
    BY <2>2, <2>3
<1>11. x + 1 >= 1
  BY DEF Day
<1> QED
  BY <1>0, <1>6, <1>7, <1>8, <1>9, <1>10, <1>11 DEF Remembers, Ahead, Counted, Blocker, Day

(* A process that still has to write the record to the old table.             *)
LEMMA ToLegacy ==
  ASSUME NEW r \in Runner, NEW n \in DOMAIN attempts, NEW x \in Day,
         process[r].att = n, process[r].day = x, process[r].dates \in SUBSET Day,
         x \notin process[r].own, x \notin Noted(n), Remembers(process[r]),
         process[r].pc # "legacy", process'[r].pc = "legacy", SameWork(process'[r], process[r]),
         Noted(n)' = Noted(n) \cup {x},
         \A e \in Day : e # x => attempts'[n].day[e] = attempts[n].day[e],
         \A e \in Day : e # x => Effective(n)'[e] = Effective(n)[e]
  PROVE  Remembers(process[r])'
<1>0. PICK w, v : w = process[r] /\ v = process'[r]
  OBVIOUS
<1>1. /\ v.att = n /\ v.day = x /\ v.dates = w.dates /\ v.own = w.own
      /\ v.prior = w.prior /\ v.blocked = w.blocked
  BY <1>0 DEF SameWork
<1>2. Noted(n) \in SUBSET Day /\ Noted(n)' \ {x} = Noted(n)
  BY DEF Noted, Recorded
<1>3. \A d \in Day : d > x \/ d < x => d # x
  BY DEF Day
<1>4. /\ x >= 1
      /\ \A d \in w.own : d \in Noted(n)
      /\ \A d \in Noted(n) : d > x => d \in w.own
      /\ \A d \in Day : d \notin w.own /\ d > x => w.prior[d] = Effective(n)[d].status
      /\ \A d \in w.dates : d < x => Dealt(n, d)
      /\ w.blocked <=> \E d \in Noted(n) : attempts[n].day[d].status \in Blocker
  BY <1>0 DEF Remembers, Ahead, Counted
<1>5. \A d \in Noted(n)' : d > x => d \in v.own
  BY <1>1, <1>2, <1>3, <1>4
<1>6. \A d \in Day : d \notin v.own /\ d > x => v.prior[d] = Effective(n)'[d].status
  BY <1>1, <1>3, <1>4
<1>7. v.blocked <=> \E d \in Noted(n) : attempts'[n].day[d].status \in Blocker
  BY <1>1, <1>2, <1>4
<1>8. \A d \in v.dates : d < x => Dealt(n, d)'
  <2> SUFFICES ASSUME NEW d \in v.dates, d < x PROVE Dealt(n, d)'
    OBVIOUS
  <2>1. d \in Day /\ d \in w.dates /\ d # x
    BY <1>0, <1>1, <1>3
  <2>2. Dealt(n, d) /\ Effective(n)'[d] = Effective(n)[d]
    BY <2>1, <1>4
  <2> QED
    BY <2>2 DEF Dealt
<1> QED
  BY <1>0, <1>1, <1>2, <1>4, <1>5, <1>6, <1>7, <1>8 DEF Remembers, Ahead, Counted, Blocker, Day

CampaignGood(r) ==
  /\ CampaignTypeOK /\ CampaignFacts
  /\ process \in [Runner -> WorkType]
  /\ ProcessOK(process[r])

LEMMA WorkOf ==
  ASSUME NEW r \in Runner, process \in [Runner -> WorkType]
  PROVE  /\ process[r] \in WorkType
         /\ process[r].pc \in Pcs /\ process[r].att \in Nat /\ process[r].day \in 0..(MaxDay + 1)
         /\ process[r].dates \in SUBSET Day /\ process[r].own \in SUBSET Day
         /\ process[r].blocked \in BOOLEAN /\ process[r].res \in RecordType
         /\ process[r].failed \in BOOLEAN
  BY DEF WorkType, Pcs

(* A step that leaves the campaign's tables alone.                            *)
LEMMA QuietTables ==
  ASSUME CampaignTypeOK, CampaignFacts, UNCHANGED <<attempts, legacyDays, life, op>>,
         defined' \in 0..(MaxDay + 1), begun' \in [Day -> BOOLEAN], paused' \in BOOLEAN,
         pauses' \in 0..MaxPauses, crashes' \in 0..MaxCrashes
  PROVE  CampaignTypeOK' /\ CampaignFacts' /\ DaysKept
<1>1. CampaignTypeOK'
  BY DEF CampaignTypeOK, AttemptType, RecordType, Day
<1> QED
  BY <1>1, QuietFacts DEF DaysKept

LEMMA Rests ==
  ASSUME NEW r \in Runner, process'[r].pc = "idle"
  PROVE  ProcessOK(process[r])'
  BY DEF ProcessOK, InDates, Working

LEMMA GetsReady ==
  ASSUME NEW r \in Runner, process'[r].pc \in {"define", "open"}, Closed(process'[r].dates)
  PROVE  ProcessOK(process[r])'
  BY DEF ProcessOK, InDates, Working, Closed

LEMMA QuietAttempting ==
  ASSUME NEW r \in Runner, UNCHANGED attempts, process'[r].att = process[r].att, Attempting(process[r])
  PROVE  Attempting(process[r])'
  BY DEF Attempting

LEMMA RunStep ==
  ASSUME NEW r \in Runner, CampaignGood(r), NEW stop \in BOOLEAN,
         NEW who \in Reviewer \cup {NoOperator}, Run(r, stop, who)
  PROVE  CampaignGood(r)'
<1> DEFINE at == IF defined = 0 THEN "define" ELSE "open"
           new == [Idle EXCEPT !.pc = at, !.dates = Day, !.stop = stop, !.who = who]
<1>1. at \in Pcs /\ at \in {"define", "open"}
  BY DEF Pcs
<1> HIDE DEF at
<1>2. new \in WorkType /\ new.pc = at /\ new.dates = Day
  BY <1>1, IdleTyped DEF WorkType, Pcs
<1>3. Set(r, new)
  BY DEF Run, at
<1> HIDE DEF new
<1>4. process' \in [Runner -> WorkType] /\ process'[r] = new
  BY <1>2, <1>3, SetTo DEF CampaignGood
<1>5. Closed(Day)
  BY CampaignAssumption DEF Closed, Day
<1>6. ProcessOK(process[r])'
  BY <1>1, <1>2, <1>4, <1>5, GetsReady
<1>7. defined' \in 0..(MaxDay + 1)
  BY CampaignAssumption DEF Run, CampaignGood, CampaignTypeOK
<1>8. CampaignTypeOK' /\ CampaignFacts'
  BY <1>7, QuietTables DEF Run, CampaignGood, CampaignTypeOK
<1> QED
  BY <1>4, <1>6, <1>8 DEF CampaignGood

(* The manifest of a resumption is an initial part of the campaign's.         *)
LEMMA PersistedClosed ==
  ASSUME CampaignTypeOK, LegacyFollows, InOrder
  PROVE  Persisted \in SUBSET Day /\ Closed(Persisted)
<1>1. CASE defined > 1
  BY <1>1, CampaignAssumption DEF CampaignTypeOK, Persisted, Day, Closed
<1>2. CASE ~(defined > 1) /\ attempts # <<>>
  <2>1. Persisted = Noted(1) /\ 1 \in DOMAIN attempts
    BY <1>2, DaysTyped DEF Persisted, Noted, CampaignTypeOK
  <2>2. ASSUME NEW d \in Noted(1), NEW e \in 1..(d - 1) PROVE e \in Noted(1)
    <3>1. Dealt(1, e)
      BY <2>1 DEF InOrder
    <3>2. e \in Day
      BY CampaignAssumption DEF Noted, Recorded, Day
    <3>3. ASSUME Effective(1)[e].status = "COMPLETED" PROVE attempts[1].day[e].status # "NONE"
      <4>1. 1 \in 0..Len(attempts)
        BY <2>1, DaysTyped
      <4>2. CASE \E a \in DOMAIN attempts : /\ Effective(1)[e] = attempts[a].day[e]
                                            /\ a <= 1 /\ attempts[a].day[e].status \notin {"NONE", "SKIPPED"}
        BY <4>2, DaysTyped
      <4>3. CASE Effective(1)[e] = legacyDays[e]
        BY <3>2, <3>3, <4>3 DEF LegacyFollows
      <4>4. CASE Effective(1)[e] = Record("SKIPPED", FALSE, FALSE) \/ Effective(1)[e] = NoRecord
        BY <3>3, <4>4 DEF Record, NoRecord
      <4> QED
        BY <3>2, <4>1, <4>2, <4>3, <4>4, EffectiveRecord
    <3> QED
      BY <3>1, <3>2, <3>3 DEF Dealt, Noted, Recorded
  <2>3. Noted(1) \in SUBSET Day
    BY DEF Noted, Recorded
  <2> QED
    BY <2>1, <2>2, <2>3 DEF Closed
<1>3. CASE ~(defined > 1) /\ attempts = <<>>
  <2>1. Persisted = {}
    BY <1>3 DEF Persisted, Recorded, LegacyFollows
  <2> QED
    BY <2>1 DEF Closed
<1> QED
  BY <1>1, <1>2, <1>3

LEMMA ResumeStep ==
  ASSUME NEW r \in Runner, CampaignGood(r), NEW who \in Reviewer \cup {NoOperator}, Resume(r, who)
  PROVE  CampaignGood(r)'
<1> DEFINE dates == Persisted
           new == [Idle EXCEPT !.pc = "open", !.dates = dates, !.stop = FALSE, !.who = who]
<1>1. dates \in SUBSET Day /\ Closed(dates)
  BY PersistedClosed DEF CampaignGood, CampaignFacts, CampaignTables
<1>2. Set(r, new)
  BY DEF Resume
<1> HIDE DEF dates
<1>3. new \in WorkType /\ new.pc = "open" /\ new.dates = dates
  BY <1>1, IdleTyped DEF WorkType
<1> HIDE DEF new
<1>4. process' \in [Runner -> WorkType] /\ process'[r] = new
  BY <1>2, <1>3, SetTo DEF CampaignGood
<1>5. ProcessOK(process[r])'
  BY <1>1, <1>3, <1>4, GetsReady
<1>6. CampaignTypeOK' /\ CampaignFacts'
  BY QuietTables DEF Resume, CampaignGood, CampaignTypeOK
<1> QED
  BY <1>4, <1>5, <1>6 DEF CampaignGood

LEMMA DefineDateStep ==
  ASSUME NEW r \in Runner, CampaignGood(r), DefineDate(r)
  PROVE  CampaignGood(r)'
<1>1. process[r] \in WorkType /\ process[r].pc = "define" /\ Closed(process[r].dates)
  BY WorkOf DEF CampaignGood, ProcessOK, DefineDate
<1>2. defined' \in 0..(MaxDay + 1)
  BY CampaignAssumption DEF DefineDate, CampaignGood, CampaignTypeOK
<1>3. CampaignTypeOK' /\ CampaignFacts'
  BY <1>2, QuietTables DEF DefineDate, CampaignGood, CampaignTypeOK
<1>4. CASE UNCHANGED process
  <2>1. ProcessOK(process[r])'
    BY <1>1, <1>4, GetsReady
  <2> QED
    BY <1>3, <1>4, <2>1 DEF CampaignGood, WorkType, InDates, Working, Day, RecordType
<1>5. CASE GoOn(r, "open")
  <2> DEFINE new == [process[r] EXCEPT !.pc = "open"]
  <2>1. new \in WorkType /\ new.pc = "open" /\ new.dates = process[r].dates
    BY <1>1, Moved DEF SameWork, Pcs
  <2>2. Set(r, new)
    BY <1>5 DEF GoOn
  <2> HIDE DEF new
  <2>3. process' \in [Runner -> WorkType] /\ process'[r] = new
    BY <2>1, <2>2, SetTo DEF CampaignGood
  <2>4. ProcessOK(process[r])'
    BY <1>1, <2>1, <2>3, GetsReady
  <2> QED
    BY <1>3, <2>3, <2>4 DEF CampaignGood
<1> QED
  BY <1>4, <1>5 DEF DefineDate

LEMMA EnteredIs ==
  ASSUME CampaignTypeOK, NEW w \in WorkType, NEW n \in DOMAIN attempts
  PROVE  LET v == Entered(w, n) IN
         /\ v \in WorkType /\ v.pc = "day" /\ v.att = n /\ v.day = 1 /\ v.dates = w.dates
         /\ v.own = Noted(n)
         /\ \A d \in Day : d \notin Noted(n) => v.prior[d] = Effective(n)[d].status
         /\ v.blocked <=> \E d \in Noted(n) : attempts[n].day[d].status \in Blocker
<1> DEFINE own == Noted(n)
           prior == [d \in Day |-> IF d \in own THEN "NONE" ELSE Effective(n)[d].status]
           blocked == \E d \in own : attempts[n].day[d].status \in Blocker
           first == attempts[n].first
           stop == IF n = 1 THEN w.stop ELSE TRUE
           Status == {"NONE", "COMPLETED", "BLOCKED", "SKIPPED", "FAILED", "RECOVERY"}
<1>1. Entered(w, n) = [w EXCEPT !.pc = "day", !.att = n, !.day = 1, !.own = own,
               !.who = NoOperator, !.stop = stop, !.prior = prior, !.blocked = blocked, !.first = first]
  BY DEF Entered, Noted, WorkType
<1>2. own \in SUBSET Day /\ n \in Nat
  BY DaysTyped DEF Noted, Recorded
<1>3. \A d \in Day : Effective(n)[d].status \in Status
  <2>1. n \in 0..Len(attempts)
    BY DaysTyped
  <2> QED
    BY <2>1, EffectiveTyped DEF RecordType
<1>4. prior \in [Day -> Status] /\ \A d \in Day : d \notin own => prior[d] = Effective(n)[d].status
  BY <1>3
<1>5. first \in 0..MaxDay /\ stop \in BOOLEAN /\ blocked \in BOOLEAN /\ 1 \in 0..(MaxDay + 1)
  <2>1. attempts[n] \in AttemptType
    BY DaysTyped
  <2>2. first \in 0..MaxDay
    BY <2>1 DEF AttemptType
  <2>3. stop \in BOOLEAN
    BY DEF WorkType
  <2>4. 1 \in 0..(MaxDay + 1)
    BY CampaignAssumption
  <2> QED
    BY <2>2, <2>3, <2>4
<1>6. blocked <=> \E d \in Noted(n) : attempts[n].day[d].status \in Blocker
  OBVIOUS
<1> HIDE DEF prior, blocked, first, stop
<1>7. LET v == [w EXCEPT !.pc = "day", !.att = n, !.day = 1, !.own = own,
               !.who = NoOperator, !.stop = stop, !.prior = prior, !.blocked = blocked, !.first = first] IN
      /\ v \in WorkType /\ v.pc = "day" /\ v.att = n /\ v.day = 1 /\ v.dates = w.dates
      /\ v.own = own /\ v.prior = prior /\ v.blocked = blocked
  BY <1>2, <1>4, <1>5 DEF WorkType, InDates
<1> QED
  BY <1>1, <1>4, <1>6, <1>7

LEMMA EnteredOK ==
  ASSUME CampaignTypeOK, NEW r \in Runner, NEW n \in DOMAIN attempts, process[r] \in WorkType,
         n = Len(attempts), attempts[n].status = "RUNNING", Closed(process[r].dates),
         process'[r] = Entered(process[r], n), UNCHANGED <<attempts, legacyDays>>
  PROVE  ProcessOK(process[r])'
<1>0. PICK v : v = process'[r]
  OBVIOUS
<1>1. DaysKept
  BY DEF DaysKept
<1>2. Noted(n)' = Noted(n) /\ Noted(n) \in SUBSET Day
  BY <1>1, DaysKeptSaid DEF Noted, Recorded
<1>3. \A d \in Day : Effective(n)'[d] = Effective(n)[d]
  BY <1>1, DaysKeptEffective
<1>4. /\ v \in WorkType /\ v.pc = "day" /\ v.att = n /\ v.day = 1 /\ v.dates = process[r].dates
      /\ v.own = Noted(n)
      /\ \A d \in Day : d \notin Noted(n) => v.prior[d] = Effective(n)[d].status
      /\ v.blocked <=> \E d \in Noted(n) : attempts[n].day[d].status \in Blocker
  BY <1>0, EnteredIs
<1>5. \A d \in v.dates : ~(d < 1)
  BY <1>4 DEF WorkType, Day
<1>6. Remembers(process[r])'
  BY <1>0, <1>2, <1>3, <1>4, <1>5 DEF Remembers, Ahead, Counted, Blocker, Day
<1>7. Attempting(process[r])'
  BY <1>0, <1>4 DEF Attempting
<1>8. Closed(process'[r].dates)
  BY <1>0, <1>4
<1> QED
  BY <1>0, <1>4, <1>6, <1>7, <1>8 DEF ProcessOK, InDates, Working, Closed

LEMMA EnterStep ==
  ASSUME NEW r \in Runner, CampaignGood(r), EnterAttempt(r)
  PROVE  CampaignGood(r)'
<1> DEFINE n == process[r].att
<1>1. process[r] \in WorkType /\ process[r].pc = "enter"
  BY WorkOf DEF CampaignGood, EnterAttempt
<1>2. Closed(process[r].dates) /\ n \in DOMAIN attempts /\ n = Len(attempts) /\ attempts[n].status = "RUNNING"
  BY <1>1 DEF CampaignGood, ProcessOK, Attempting
<1>3. Entered(process[r], n) \in WorkType
  BY <1>1, <1>2, EnteredIs DEF CampaignGood
<1>4. process' \in [Runner -> WorkType] /\ process'[r] = Entered(process[r], n)
  BY <1>3, SetTo DEF CampaignGood, EnterAttempt
<1>5. CampaignTypeOK' /\ CampaignFacts'
  BY QuietTables DEF EnterAttempt, CampaignGood, CampaignTypeOK
<1>6. ProcessOK(process[r])'
  BY <1>1, <1>2, <1>4, EnteredOK DEF EnterAttempt, CampaignGood
<1> QED
  BY <1>4, <1>5, <1>6 DEF CampaignGood

LEMMA IdleStep ==
  ASSUME NEW r \in Runner, CampaignGood(r), Set(r, Idle), CampaignTypeOK', CampaignFacts'
  PROVE  CampaignGood(r)'
<1>1. process' \in [Runner -> WorkType] /\ process'[r] = Idle
  BY IdleTyped, SetTo DEF CampaignGood
<1>2. ProcessOK(process[r])'
  BY <1>1, IdleTyped, Rests
<1> QED
  BY <1>1, <1>2 DEF CampaignGood

(* A call that takes up the running attempt, or that finds nothing to do.     *)
LEMMA OpenOldStep ==
  ASSUME NEW r \in Runner, CampaignGood(r), process[r].pc = "open", Running # {},
         Set(r, Entered(process[r], CHOOSE a \in Running : \A b \in Running : a <= b)),
         UNCHANGED <<defined, attempts, legacyDays, life, op, begun, paused, pauses, crashes>>
  PROVE  CampaignGood(r)'
<1> DEFINE n == Len(attempts)
<1>1. process[r] \in WorkType /\ Closed(process[r].dates)
  BY WorkOf DEF CampaignGood, ProcessOK
<1>2. \A a \in Running : a = n /\ a \in DOMAIN attempts
  BY DEF CampaignGood, CampaignTypeOK, Running
<1>3. Running = {n} /\ n \in DOMAIN attempts /\ attempts[n].status = "RUNNING" /\ n \in Nat
  BY <1>2, DaysTyped DEF CampaignGood, Running
<1>4. (CHOOSE a \in Running : \A b \in Running : a <= b) = n
  BY <1>3
<1>5. Entered(process[r], n) \in WorkType
  BY <1>1, <1>3, EnteredIs DEF CampaignGood
<1>6. process' \in [Runner -> WorkType] /\ process'[r] = Entered(process[r], n)
  BY <1>4, <1>5, SetTo DEF CampaignGood
<1>7. CampaignTypeOK' /\ CampaignFacts'
  BY QuietTables DEF CampaignGood, CampaignTypeOK
<1>8. ProcessOK(process[r])'
  BY <1>1, <1>3, <1>6, EnteredOK DEF CampaignGood
<1> QED
  BY <1>6, <1>7, <1>8 DEF CampaignGood

LEMMA PassOverStep ==
  ASSUME NEW r \in Runner, CampaignGood(r), PassOver(r)
  PROVE  CampaignGood(r)'
<1> DEFINE w == process[r]
           v == [w EXCEPT !.day = @ + 1]
<1>1. w \in WorkType /\ w.pc = "day" /\ w.day <= MaxDay /\ Passed(w)
  BY WorkOf DEF CampaignGood, PassOver, AtDate
<1>2. Closed(w.dates) /\ Attempting(w) /\ Remembers(w)
  BY <1>1 DEF CampaignGood, ProcessOK, InDates
<1>3. w.day \in Day /\ w.day + 1 \in 0..(MaxDay + 1)
  BY <1>1, <1>2, CampaignAssumption DEF Remembers, Day, WorkType
<1>4. /\ v \in WorkType /\ v.pc = "day" /\ v.att = w.att /\ v.day = w.day + 1 /\ v.dates = w.dates
      /\ v.own = w.own /\ v.prior = w.prior /\ v.blocked = w.blocked
  BY <1>1, <1>3 DEF WorkType
<1>5. process' \in [Runner -> WorkType] /\ process'[r] = v
  BY <1>4, SetTo DEF CampaignGood, PassOver
<1>6. CampaignTypeOK' /\ CampaignFacts' /\ DaysKept
  BY QuietTables DEF PassOver, CampaignGood, CampaignTypeOK
<1> HIDE DEF v
<1>7. w.dates \in SUBSET Day /\ w.att \in DOMAIN attempts
  BY <1>1, <1>2 DEF WorkType, Attempting
<1>8. Remembers(process[r])'
  BY <1>1, <1>2, <1>3, <1>4, <1>5, <1>6, <1>7, PassedOn DEF CampaignGood
<1>9. Attempting(process[r])'
  BY <1>2, <1>4, <1>5, QuietAttempting DEF PassOver
<1>10. Closed(process'[r].dates)
  BY <1>2, <1>4, <1>5
<1>11. ProcessOK(process[r])'
  BY <1>4, <1>5, <1>8, <1>9, <1>10 DEF ProcessOK, InDates, Working, Closed
<1> QED
  BY <1>5, <1>6, <1>11 DEF CampaignGood

(* A process that goes on with its date, the tables as they were.             *)
LEMMA WorkGoesOn ==
  ASSUME NEW r \in Runner, CampaignGood(r), CampaignTypeOK', CampaignFacts', DaysKept,
         process' \in [Runner -> WorkType], SameWork(process'[r], process[r]),
         \A a \in DOMAIN attempts : attempts'[a].status = attempts[a].status,
         process[r].pc \in InDates \ {"legacy"}, process'[r].pc \in Working \ {"legacy"},
         AtWork(process[r])'
  PROVE  CampaignGood(r)'
<1>1. process[r] \in WorkType
  BY WorkOf DEF CampaignGood
<1>2. Closed(process[r].dates) /\ Attempting(process[r]) /\ Remembers(process[r])
  BY DEF CampaignGood, ProcessOK
<1>3. Remembers(process[r])'
  BY <1>1, <1>2, Carried DEF CampaignGood, WorkType, Attempting
<1>4. DOMAIN attempts' = DOMAIN attempts /\ Len(attempts') = Len(attempts)
  BY DaysTyped DEF DaysKept, CampaignGood, CampaignTypeOK
<1>5. Attempting(process[r])'
  BY <1>2, <1>4 DEF Attempting, SameWork
<1>6. Closed(process[r].dates)'
  BY <1>2 DEF Closed, SameWork
<1>7. ProcessOK(process[r])'
  BY <1>3, <1>5, <1>6 DEF ProcessOK, InDates, Working
<1> QED
  BY <1>7 DEF CampaignGood

(* A date the loop neither passes over nor skips.                             *)
LEMMA AtDateIs ==
  ASSUME NEW r \in Runner, CampaignGood(r), AtDate(process[r]), ~Passed(process[r])
  PROVE  /\ process[r] \in WorkType /\ process[r].pc = "day" /\ process[r].day \in Day
         /\ process[r].day \in process[r].dates /\ process[r].day \notin process[r].own
         /\ process[r].prior[process[r].day] # "COMPLETED"
         /\ process[r].prior[process[r].day] = Effective(process[r].att)[process[r].day].status
         /\ Attempting(process[r]) /\ Remembers(process[r]) /\ Closed(process[r].dates)
<1>1. process[r] \in WorkType /\ process[r].pc = "day" /\ process[r].day <= MaxDay
  BY WorkOf DEF CampaignGood, AtDate
<1>2. Attempting(process[r]) /\ Remembers(process[r]) /\ Closed(process[r].dates)
  BY <1>1 DEF CampaignGood, ProcessOK, InDates
<1>3. process[r].day \in Day
  BY <1>1, <1>2, CampaignAssumption DEF Remembers, Day, WorkType
<1>4. /\ process[r].day \in process[r].dates /\ process[r].day \notin process[r].own
      /\ process[r].prior[process[r].day] # "COMPLETED"
  BY DEF Passed
<1>5. process[r].prior[process[r].day] = Effective(process[r].att)[process[r].day].status
  BY <1>1, <1>2, <1>3, <1>4 DEF Remembers, Ahead
<1> QED
  BY <1>1, <1>2, <1>3, <1>4, <1>5

(* A date that nothing is recorded of: the process reads so of the attempt.   *)
LEMMA UnrecordedIs ==
  ASSUME NEW r \in Runner, CampaignGood(r), AtDate(process[r]), ~Passed(process[r])
  PROVE  Unrecorded(process[r]) <=> ~Said(process[r].day)
<1>1. /\ process[r].prior[process[r].day] = Effective(process[r].att)[process[r].day].status
      /\ process[r].day \in Day /\ process[r].att = Len(attempts)
  BY AtDateIs DEF Attempting
<1> QED
  BY <1>1, EffectiveNone DEF CampaignGood, CampaignFacts, CampaignTables, Unrecorded

LEMMA SaidKept ==
  ASSUME UNCHANGED attempts, NEW d
  PROVE  Said(d)' <=> Said(d)
  BY DEF Said

LEMMA StartDayStep ==
  ASSUME NEW r \in Runner, CampaignGood(r), StartDay(r)
  PROVE  CampaignGood(r)'
<1> DEFINE at == IF paused THEN "judge" ELSE "life"
           v == [process[r] EXCEPT !.pc = at]
<1>1. PICK w : w = process[r]
  OBVIOUS
<1>2. AtDate(w) /\ ~Passed(w) /\ ~StopsHere(w) /\ ~HasLife(w)
  BY <1>1 DEF StartDay
<1>3. /\ w \in WorkType /\ w.pc = "day" /\ w.day \in Day
      /\ w.day \in w.dates /\ w.day \notin w.own /\ w.prior[w.day] # "COMPLETED"
  BY <1>1, <1>2, AtDateIs
<1>4. at \in Pcs /\ at \in Working \ {"legacy", "verify", "save"}
  BY DEF Pcs, InDates, Working
<1> HIDE DEF at
<1>5. v \in WorkType /\ v.pc = at /\ SameWork(v, w)
  BY <1>1, <1>3, <1>4, Moved
<1> HIDE DEF v
<1>6. process' \in [Runner -> WorkType] /\ process'[r] = v
  BY <1>1, <1>5, SetTo DEF CampaignGood, StartDay, GoOn, v, at
<1>7. CampaignTypeOK' /\ CampaignFacts' /\ DaysKept
  BY QuietTables DEF StartDay, CampaignGood, CampaignTypeOK
<1>8. w.prior[w.day] # "FAILED" /\ (w.att = 1 \/ ~StopConfig \/ ~w.blocked)
  BY <1>1, <1>2 DEF StopsHere, StartDay
<1>9. life[w.day] # "none" => Said(w.day)
  BY <1>1, <1>2, UnrecordedIs DEF HasLife
<1>10. life'[w.day] # "none" => Said(w.day)'
  BY <1>9, SaidKept DEF StartDay
<1>11. AtWork(process[r])'
  BY <1>3, <1>4, <1>5, <1>6, <1>8, <1>10 DEF AtWork, SameWork
<1> QED
  BY <1>1, <1>3, <1>4, <1>5, <1>6, <1>7, <1>11, WorkGoesOn DEF InDates, StartDay

(* A process at work on a date.                                               *)
LEMMA AtWorkIs ==
  ASSUME NEW r \in Runner, CampaignGood(r), process[r].pc \in Working
  PROVE  /\ process[r] \in WorkType /\ process[r].day \in Day /\ process[r].att \in DOMAIN attempts
         /\ AtWork(process[r]) /\ Attempting(process[r])
<1>1. process[r] \in WorkType
  BY WorkOf DEF CampaignGood
<1>2. AtWork(process[r]) /\ Attempting(process[r])
  BY DEF CampaignGood, ProcessOK, InDates
<1>3. process[r].day \in Day
  BY <1>1, <1>2 DEF AtWork, WorkType
<1> QED
  BY <1>1, <1>2, <1>3 DEF Attempting

LEMMA BeginLifecycleStep ==
  ASSUME NEW r \in Runner, CampaignGood(r), BeginLifecycle(r)
  PROVE  CampaignGood(r)'
<1> DEFINE v == [process[r] EXCEPT !.pc = "books"]
<1>1. PICK w : w = process[r]
  OBVIOUS
<1>2. w \in WorkType /\ w.pc = "life" /\ w.day \in Day /\ AtWork(w)
  BY <1>1, AtWorkIs DEF BeginLifecycle, Working
<1>3. v \in WorkType /\ v.pc = "books" /\ SameWork(v, w)
  BY <1>1, <1>2, Moved DEF Pcs, InDates, Working
<1> HIDE DEF v
<1>4. process' \in [Runner -> WorkType] /\ process'[r] = v
  BY <1>3, SetTo DEF CampaignGood, BeginLifecycle, GoOn, v
<1>5. begun' \in [Day -> BOOLEAN]
  BY <1>1, <1>2 DEF BeginLifecycle, CampaignGood, CampaignTypeOK
<1>6. CampaignTypeOK' /\ CampaignFacts' /\ DaysKept
  BY <1>5, QuietTables DEF BeginLifecycle, CampaignGood, CampaignTypeOK
<1>7. life'[w.day] # "none" => Said(w.day)'
  BY <1>2, SaidKept DEF AtWork, BeginLifecycle
<1>8. AtWork(process[r])'
  BY <1>2, <1>3, <1>4, <1>7 DEF AtWork, SameWork
<1> QED
  BY <1>1, <1>2, <1>3, <1>4, <1>6, <1>8, WorkGoesOn DEF InDates, Working, BeginLifecycle

LEMMA PlainRecord ==
  ASSUME NEW status \in {"COMPLETED", "BLOCKED", "SKIPPED", "FAILED", "RECOVERY"},
         NEW ready \in BOOLEAN, NEW did \in BOOLEAN
  PROVE  /\ Record(status, ready, did) \in RecordType
         /\ Record(status, ready, did).status = status /\ Record(status, ready, did).ran = did
  BY DEF Record, RecordType

LEMMA KnownErrorStep ==
  ASSUME NEW r \in Runner, CampaignGood(r), KnownError(r)
  PROVE  CampaignGood(r)'
<1> DEFINE res == Record("FAILED", FALSE, FALSE)
           v == [process[r] EXCEPT !.pc = "save", !.failed = FALSE, !.res = res]
<1>1. PICK w : w = process[r]
  OBVIOUS
<1>2. w \in WorkType /\ w.pc \in {"judge", "verify"} /\ w.day \in Day /\ AtWork(w)
  BY <1>1, AtWorkIs DEF KnownError, Working
<1>3. res \in RecordType /\ res.status = "FAILED" /\ ~res.ran
  BY PlainRecord
<1> HIDE DEF res
<1>4. v \in WorkType /\ v.pc = "save" /\ SameWork(v, w) /\ v.res = res
  <2>1. "save" \in Pcs
    BY DEF Pcs, InDates, Working
  <2> QED
    BY <1>1, <1>2, <1>3, <2>1 DEF WorkType, SameWork, Pcs
<1> HIDE DEF v
<1>5. process' \in [Runner -> WorkType] /\ process'[r] = v
  BY <1>4, SetTo DEF CampaignGood, KnownError, v, res
<1>6. CampaignTypeOK' /\ CampaignFacts' /\ DaysKept
  BY QuietTables DEF KnownError, CampaignGood, CampaignTypeOK
<1>7. AtWork(process[r])'
  BY <1>2, <1>3, <1>4, <1>5 DEF AtWork, SameWork, Stands
<1> QED
  BY <1>1, <1>2, <1>4, <1>5, <1>6, <1>7, WorkGoesOn DEF InDates, Working, KnownError

(* A record of a date that ran: completed only on clean books.                *)
LEMMA JudgedIs ==
  ASSUME CampaignTypeOK, NEW d \in Day, NEW out \in {"hard", "soft", "ready"}, NEW did \in BOOLEAN
  PROVE  LET rec == Judged(d, out, did) IN
         /\ rec \in RecordType /\ rec.status \in {"BLOCKED", "COMPLETED"} /\ rec.ran = did
         /\ rec.status = "COMPLETED" => life[d] # "failed"
<1> DEFINE status == IF out = "hard" \/ FailedUpTo(d) THEN "BLOCKED" ELSE "COMPLETED"
           ready == out = "ready"
<1>1. Judged(d, out, did) = Record(status, ready, did)
  BY DEF Judged
<1>2. status = "COMPLETED" => life[d] # "failed"
  BY DEF FailedUpTo, Day
<1>3. status \in {"BLOCKED", "COMPLETED"} /\ ready \in BOOLEAN
  OBVIOUS
<1> HIDE DEF status, ready
<1> QED
  BY <1>1, <1>2, <1>3, PlainRecord

LEMMA JudgePausedStep ==
  ASSUME NEW r \in Runner, CampaignGood(r), JudgePaused(r)
  PROVE  CampaignGood(r)'
<1>1. PICK w : w = process[r]
  OBVIOUS
<1>2. w \in WorkType /\ w.pc = "judge" /\ w.day \in Day /\ AtWork(w)
  BY <1>1, AtWorkIs DEF JudgePaused, Working
<1>3. PICK out \in Readiness(w.day) :
        Set(r, [w EXCEPT !.pc = "save", !.res = Judged(w.day, out, FALSE)])
  BY <1>1 DEF JudgePaused
<1>4. out \in {"hard", "soft", "ready"}
  BY <1>3 DEF Readiness
<1> DEFINE res == Judged(w.day, out, FALSE)
           v == [w EXCEPT !.pc = "save", !.res = res]
<1>5. res \in RecordType /\ res.status \in {"BLOCKED", "COMPLETED"} /\ ~res.ran
  BY <1>2, <1>4, JudgedIs DEF CampaignGood
<1> HIDE DEF res
<1>6. v \in WorkType /\ v.pc = "save" /\ SameWork(v, w) /\ v.res = res
  <2>1. "save" \in Pcs
    BY DEF Pcs, InDates, Working
  <2> QED
    BY <1>2, <1>5, <2>1 DEF WorkType, SameWork, Pcs
<1> HIDE DEF v
<1>7. process' \in [Runner -> WorkType] /\ process'[r] = v
  BY <1>3, <1>6, SetTo DEF CampaignGood, v, res
<1>8. CampaignTypeOK' /\ CampaignFacts' /\ DaysKept
  BY QuietTables DEF JudgePaused, CampaignGood, CampaignTypeOK
<1>9. AtWork(process[r])'
  BY <1>2, <1>5, <1>6, <1>7 DEF AtWork, SameWork, Stands
<1> QED
  BY <1>1, <1>2, <1>6, <1>7, <1>8, <1>9, WorkGoesOn DEF InDates, Working, JudgePaused

(* The lifecycle run of a date is saved, if it has none.                      *)
LEMMA LifeSaved ==
  ASSUME CampaignTypeOK, CampaignFacts, NEW d \in Day, NEW failed \in BOOLEAN,
         life' = [life EXCEPT ![d] = IF @ # "none" THEN @ ELSE IF failed THEN "failed" ELSE "clean"],
         UNCHANGED <<defined, attempts, legacyDays, op, begun, paused, pauses, crashes>>
  PROVE  /\ CampaignTypeOK' /\ CampaignFacts' /\ DaysKept
         /\ life'[d] # "none"
         /\ life[d] = "none" => life'[d] = IF failed THEN "failed" ELSE "clean"
<1>1. life \in [Day -> {"none", "clean", "failed"}]
  BY DEF CampaignTypeOK
<1>2. LifeKept /\ DaysKept
  BY <1>1 DEF LifeKept, DaysKept
<1>3. life' \in [Day -> {"none", "clean", "failed"}]
  BY <1>1
<1>4. CampaignTypeOK'
  BY <1>3 DEF CampaignTypeOK, AttemptType, RecordType, Day
<1>5. ASSUME NEW a \in DOMAIN attempts PROVE VerdictOf(a)'
  <2>1. VerdictOf(a)
    BY VerdictsAre DEF CampaignFacts
  <2>2. \A e \in Day : Effective(a)'[e] = Effective(a)[e]
    BY <1>2, DaysKeptEffective
  <2> QED
    BY <1>2, <2>1, <2>2, VerdictKept
<1>6. RunsTell'
  <2> SUFFICES ASSUME NEW e \in Day, op[e].out # "none", ~op[e].reasons
               PROVE  life'[e] = "clean" \/ Said(e)'
    BY DEF RunsTell, Day
  <2>1. life[e] = "clean" \/ Said(e)
    BY DEF CampaignFacts, CampaignTables, RunsTell
  <2> QED
    BY <1>2, <2>1, SaidKept DEF LifeKept
<1>7. CampaignFacts'
  BY <1>2, <1>5, <1>6, FactsKept
<1> QED
  BY <1>1, <1>2, <1>4, <1>7

LEMMA SaveLifecycleStep ==
  ASSUME NEW r \in Runner, CampaignGood(r), SaveLifecycle(r)
  PROVE  CampaignGood(r)'
<1>1. PICK w : w = process[r]
  OBVIOUS
<1>2. w \in WorkType /\ w.pc = "books" /\ w.day \in Day /\ AtWork(w)
  BY <1>1, AtWorkIs DEF SaveLifecycle, Working
<1>3. PICK failed \in BOOLEAN :
        /\ life' = [life EXCEPT ![w.day] = IF @ # "none" THEN @ ELSE IF failed THEN "failed" ELSE "clean"]
        /\ Set(r, [w EXCEPT !.pc = "verify", !.failed = failed])
  BY <1>1 DEF SaveLifecycle
<1> DEFINE v == [w EXCEPT !.pc = "verify", !.failed = failed]
<1>4. v \in WorkType /\ v.pc = "verify" /\ SameWork(v, w) /\ v.failed = failed
  BY <1>2 DEF WorkType, SameWork, InDates, Working
<1> HIDE DEF v
<1>5. process' \in [Runner -> WorkType] /\ process'[r] = v
  BY <1>3, <1>4, SetTo DEF CampaignGood, v
<1>6. /\ CampaignTypeOK' /\ CampaignFacts' /\ DaysKept
      /\ life'[w.day] # "none"
      /\ life[w.day] = "none" => life'[w.day] = IF failed THEN "failed" ELSE "clean"
  BY <1>2, <1>3, LifeSaved DEF SaveLifecycle, CampaignGood
<1>7. life[w.day] # "none" => Said(w.day)'
  BY <1>2, SaidKept DEF AtWork, SaveLifecycle
<1>8. AtWork(process[r])'
  BY <1>2, <1>4, <1>5, <1>6, <1>7 DEF AtWork, SameWork
<1> QED
  BY <1>1, <1>2, <1>4, <1>5, <1>6, <1>8, WorkGoesOn DEF InDates, Working, SaveLifecycle

LEMMA RunSaved ==
  ASSUME CampaignTypeOK, CampaignFacts, NEW d \in Day, NEW failed \in BOOLEAN,
         NEW out \in {"hard", "soft", "ready"},
         op' = [op EXCEPT ![d] = IF @.out # "none" THEN @ ELSE [out |-> out, reasons |-> failed]],
         ~failed => life[d] = "clean" \/ Said(d),
         UNCHANGED <<defined, attempts, legacyDays, life, begun, paused, pauses, crashes>>
  PROVE  CampaignTypeOK' /\ CampaignFacts' /\ DaysKept
<1> DEFINE new == [out |-> out, reasons |-> failed]
<1>1. op \in [Day -> [out : {"none", "hard", "soft", "ready"}, reasons : BOOLEAN]]
  BY DEF CampaignTypeOK
<1>2. new \in [out : {"none", "hard", "soft", "ready"}, reasons : BOOLEAN] /\ new.reasons = failed
  OBVIOUS
<1>3. op' = [op EXCEPT ![d] = IF op[d].out # "none" THEN op[d] ELSE new]
  BY <1>1
<1> HIDE DEF new
<1>4. op' \in [Day -> [out : {"none", "hard", "soft", "ready"}, reasons : BOOLEAN]]
  BY <1>1, <1>2, <1>3
<1>5. CampaignTypeOK'
  BY <1>4 DEF CampaignTypeOK, AttemptType, RecordType, Day
<1>6. LifeKept /\ DaysKept
  BY DEF LifeKept, DaysKept
<1>7. ASSUME NEW a \in DOMAIN attempts PROVE VerdictOf(a)'
  <2>1. VerdictOf(a)
    BY VerdictsAre DEF CampaignFacts
  <2>2. \A e \in Day : Effective(a)'[e] = Effective(a)[e]
    BY <1>6, DaysKeptEffective
  <2> QED
    BY <1>6, <2>1, <2>2, VerdictKept
<1>8. RunsTell'
  <2> SUFFICES ASSUME NEW e \in Day, op'[e].out # "none", ~op'[e].reasons
               PROVE  life[e] = "clean" \/ Said(e)
    BY SaidKept DEF RunsTell, Day
  <2>1. CASE op'[e] = op[e]
    BY <2>1 DEF CampaignFacts, CampaignTables, RunsTell
  <2>2. CASE e = d /\ op'[e] = new
    BY <1>2, <2>2
  <2> QED
    BY <2>1, <2>2, <1>1, <1>3
<1>9. CampaignFacts'
  BY <1>6, <1>7, <1>8, FactsKept
<1> QED
  BY <1>5, <1>6, <1>9

LEMMA SaveOperatorRunStep ==
  ASSUME NEW r \in Runner, CampaignGood(r), SaveOperatorRun(r)
  PROVE  CampaignGood(r)'
<1>1. PICK w : w = process[r]
  OBVIOUS
<1>2. w \in WorkType /\ w.pc = "verify" /\ w.day \in Day /\ AtWork(w)
  BY <1>1, AtWorkIs DEF SaveOperatorRun, Working
<1>3. PICK out \in Readiness(w.day) :
        /\ op' = [op EXCEPT ![w.day] = IF @.out # "none" THEN @ ELSE [out |-> out, reasons |-> w.failed]]
        /\ Set(r, [w EXCEPT !.pc = "save", !.failed = FALSE, !.res = Judged(w.day, out, TRUE)])
  BY <1>1 DEF SaveOperatorRun
<1>4. out \in {"hard", "soft", "ready"}
  BY <1>3 DEF Readiness
<1> DEFINE res == Judged(w.day, out, TRUE)
           v == [w EXCEPT !.pc = "save", !.failed = FALSE, !.res = res]
<1>5. /\ res \in RecordType /\ res.status \in {"BLOCKED", "COMPLETED"}
      /\ res.status = "COMPLETED" => life[w.day] # "failed"
  BY <1>2, <1>4, JudgedIs DEF CampaignGood
<1> HIDE DEF res
<1>6. v \in WorkType /\ v.pc = "save" /\ SameWork(v, w) /\ v.res = res
  BY <1>2, <1>5 DEF WorkType, SameWork, InDates, Working
<1> HIDE DEF v
<1>7. process' \in [Runner -> WorkType] /\ process'[r] = v
  BY <1>3, <1>6, SetTo DEF CampaignGood, v, res
<1>8. life[w.day] # "none" /\ (~w.failed => life[w.day] = "clean" \/ Said(w.day)) /\ w.failed \in BOOLEAN
  BY <1>2 DEF AtWork, WorkType
<1>9. CampaignTypeOK' /\ CampaignFacts' /\ DaysKept
  BY <1>2, <1>3, <1>4, <1>8, RunSaved DEF SaveOperatorRun, CampaignGood
<1>10. life[w.day] \in {"none", "clean", "failed"} /\ life' = life
  BY <1>2 DEF CampaignGood, CampaignTypeOK, SaveOperatorRun
<1>11. AtWork(process[r])'
  BY <1>2, <1>5, <1>6, <1>7, <1>8, <1>10 DEF AtWork, SameWork, Stands
<1> QED
  BY <1>1, <1>2, <1>6, <1>7, <1>9, <1>11, WorkGoesOn DEF InDates, Working, SaveOperatorRun

(* The record of a date in its turn: nothing is recorded ahead of it.         *)
LEMMA OnTurn ==
  ASSUME NEW r \in Runner, CampaignGood(r), process[r].pc \in InDates \ {"legacy"},
         process[r].day \in process[r].dates, process[r].day \notin process[r].own,
         process[r].prior[process[r].day] # "COMPLETED"
  PROVE  LET w == process[r]
             n == w.att
         IN /\ n \in DOMAIN attempts /\ n = Len(attempts) /\ attempts[n].status = "RUNNING"
            /\ w \in WorkType /\ w.day \in Day /\ w.dates \in SUBSET Day
            /\ Remembers(w) /\ Closed(w.dates)
            /\ w.day \notin Noted(n) /\ attempts[n].day[w.day].status = "NONE"
            /\ \A d \in Noted(n) : d < w.day
            /\ \A d \in 1..(w.day - 1) : Dealt(n, d)
            /\ w.blocked <=> \E e \in Noted(n) : attempts[n].day[e].status \in Blocker
<1>0. PICK w, n, x : w = process[r] /\ n = w.att /\ x = w.day
  OBVIOUS
<1>1. w \in WorkType /\ Closed(w.dates) /\ Attempting(w) /\ Remembers(w)
  BY <1>0, WorkOf DEF CampaignGood, ProcessOK
<1>2. w.dates \in SUBSET Day /\ x \in Day /\ w.pc # "legacy"
  BY <1>0, <1>1 DEF WorkType
<1>3. n \in DOMAIN attempts /\ n = Len(attempts) /\ attempts[n].status = "RUNNING"
  BY <1>0, <1>1 DEF Attempting
<1>4. /\ \A d \in Noted(n) : d > x \/ d = x => d \in w.own
      /\ \A d \in Day : d \notin w.own /\ (d > x \/ d = x) => w.prior[d] = Effective(n)[d].status
      /\ \A d \in w.dates : d < x => Dealt(n, d)
      /\ w.blocked <=> \E d \in Noted(n) : attempts[n].day[d].status \in Blocker
  BY <1>0, <1>1, <1>2 DEF Remembers, Ahead, Counted
<1>5. x \notin Noted(n) /\ w.prior[x] = Effective(n)[x].status /\ w.prior[x] # "COMPLETED"
  BY <1>0, <1>2, <1>4
<1>6. ~Dealt(n, x)
  BY <1>5 DEF Dealt
<1>7. ASSUME NEW d \in Noted(n) PROVE d < x
  <2>1. d \in Day /\ x \in Nat /\ d \in Nat /\ x >= 1
    BY <1>2 DEF Noted, Recorded, Day
  <2>2. x \in 1..(d - 1) => Dealt(n, x)
    BY <1>3 DEF CampaignGood, CampaignFacts, CampaignTables, InOrder
  <2> QED
    BY <2>1, <2>2, <1>5, <1>6
<1>8. ASSUME NEW d \in 1..(x - 1) PROVE Dealt(n, d)
  <2>1. d \in w.dates /\ d < x
    BY <1>0, <1>1, <1>2 DEF Closed, Day
  <2> QED
    BY <2>1, <1>4
<1>9. attempts[n].day[x].status = "NONE"
  BY <1>2, <1>5 DEF Noted, Recorded
<1> QED
  BY <1>0, <1>1, <1>2, <1>3, <1>4, <1>5, <1>7, <1>8, <1>9

(* A process that may record its date: the date is its own, in its turn.      *)
MayRecord(w) ==
  /\ w.pc \in InDates \ {"legacy"}
  /\ w.day \in w.dates /\ w.day \notin w.own /\ w.prior[w.day] # "COMPLETED"

(* What it may record: skips after a blocker only, and for a continuation     *)
(* that stops at one nothing else.                                            *)
RecordOf(w, rec) ==
  /\ rec \in RecordType /\ rec.status # "NONE" /\ Stands(rec, w.day)
  /\ rec.status = "SKIPPED" => w.blocked
  /\ w.att > 1 /\ StopConfig /\ rec.status \notin {"SKIPPED", "RECOVERY"} => ~w.blocked

(* What saving a record of date x in attempt n makes of the tables.           *)
Made(n, x, rec) ==
  /\ CampaignTypeOK' /\ CampaignFacts'
  /\ n \in DOMAIN attempts /\ x \in Day /\ x \notin Noted(n) /\ rec \in RecordType
  /\ DOMAIN attempts' = DOMAIN attempts /\ Len(attempts') = Len(attempts)
  /\ attempts'[n].status = "RUNNING" /\ n = Len(attempts)
  /\ Noted(n)' = Noted(n) \cup {x} /\ attempts'[n].day[x] = rec
  /\ \A e \in Day : e # x => attempts'[n].day[e] = attempts[n].day[e]
  /\ \A e \in Day : e # x => Effective(n)'[e] = Effective(n)[e]

LEMMA RecordMade ==
  ASSUME NEW r \in Runner, CampaignGood(r), MayRecord(process[r]), NEW rec, RecordOf(process[r], rec),
         NEW n, NEW x, n = process[r].att, x = process[r].day, SaveRecord(process[r], rec),
         UNCHANGED <<defined, legacyDays, life, op, begun, paused, pauses, crashes>>
  PROVE  Made(n, x, rec)
<1>0. PICK w : w = process[r]
  OBVIOUS
<1>1. /\ n \in DOMAIN attempts /\ n = Len(attempts) /\ attempts[n].status = "RUNNING"
      /\ w \in WorkType /\ x \in Day
      /\ x \notin Noted(n) /\ attempts[n].day[x].status = "NONE"
      /\ \A d \in Noted(n) : d < x
      /\ \A d \in 1..(x - 1) : Dealt(n, d)
      /\ w.blocked <=> \E e \in Noted(n) : attempts[n].day[e].status \in Blocker
  BY <1>0, OnTurn DEF MayRecord
<1>2. rec \in RecordType /\ rec.status # "NONE"
  BY DEF RecordOf
<1>3. CampaignTypeOK /\ CampaignFacts
  BY DEF CampaignGood
<1>4. /\ attempts' \in Seq(AttemptType)
      /\ DOMAIN attempts' = DOMAIN attempts /\ Len(attempts') = Len(attempts)
      /\ \A a \in DOMAIN attempts : attempts'[a].status = attempts[a].status
      /\ \A a \in DOMAIN attempts : \A d \in Day :
              attempts'[a].day[d] = IF a = n /\ d = x THEN rec ELSE attempts[a].day[d]
  <2>1. w.att \in DOMAIN attempts /\ w.day \in Day /\ attempts[w.att].day[w.day].status = "NONE"
    BY <1>0, <1>1
  <2>2. SaveRecord(w, rec)
    BY <1>0
  <2>3. /\ attempts' \in Seq(AttemptType)
        /\ DOMAIN attempts' = DOMAIN attempts /\ Len(attempts') = Len(attempts)
        /\ \A a \in DOMAIN attempts : attempts'[a].status = attempts[a].status
        /\ \A a \in DOMAIN attempts : \A d \in Day :
              attempts'[a].day[d] = IF a = w.att /\ d = w.day THEN rec ELSE attempts[a].day[d]
    BY <1>1, <1>2, <1>3, <2>1, <2>2, SavedDays
  <2>4. w.att = n /\ w.day = x
    BY <1>0
  <2> QED
    BY <2>3, <2>4
<1>5. OneRecord(n, x, rec)
  BY <1>1, <1>2, <1>4 DEF OneRecord
<1>6. InTurn(n, x, rec)
  BY <1>0, <1>1 DEF InTurn, RecordOf
<1>7. CampaignFacts'
  BY <1>1, <1>2, <1>3, <1>5, <1>6, OneFacts
<1>8. CampaignTypeOK'
  BY <1>3, <1>4 DEF CampaignTypeOK, AttemptType, RecordType, Day
<1>9. Noted(n)' = Noted(n) \cup {x}
  BY <1>1, <1>2, <1>3, <1>5, OneNoted
<1>10. \A e \in Day : e # x => Effective(n)'[e] = Effective(n)[e]
  BY <1>1, <1>2, <1>3, <1>5, OneEffective
<1> QED
  BY <1>1, <1>2, <1>4, <1>7, <1>8, <1>9, <1>10 DEF Made

(* The process counts its record, and turns to the next date.                 *)
Counts(v, w, rec) ==
  /\ v.pc = "day" /\ v.att = w.att /\ v.day = w.day + 1 /\ v.dates = w.dates /\ v.own = w.own
  /\ v.prior = w.prior /\ v.blocked = (w.blocked \/ rec.status \in Blocker)

LEMMA RecordedNext ==
  ASSUME NEW r \in Runner, CampaignGood(r), MayRecord(process[r]), NEW rec, RecordOf(process[r], rec),
         SaveRecord(process[r], rec),
         UNCHANGED <<defined, legacyDays, life, op, begun, paused, pauses, crashes>>,
         process' \in [Runner -> WorkType], Counts(process'[r], process[r], rec)
  PROVE  CampaignGood(r)'
<1>0. PICK w, v, n, x : w = process[r] /\ v = process'[r] /\ n = w.att /\ x = w.day
  OBVIOUS
<1>1. Made(n, x, rec)
  BY <1>0, RecordMade
<1>2. Remembers(w) /\ Closed(w.dates) /\ w.dates \in SUBSET Day
  BY <1>0, OnTurn DEF MayRecord
<1>3. Counted(w) = Noted(n) /\ x \notin w.own
  BY <1>0 DEF Counted, MayRecord
<1>4. /\ v.pc = "day" /\ v.att = n /\ v.day = x + 1 /\ v.dates = w.dates /\ v.own = w.own
      /\ v.prior = w.prior /\ v.blocked = (w.blocked \/ rec.status \in Blocker)
  BY <1>0 DEF Counts
<1>5. Remembers(process[r])'
  <2>1. /\ process[r].att = n /\ process[r].day = x /\ process[r].dates \in SUBSET Day
        /\ x \notin process[r].own /\ x \notin Counted(process[r]) /\ Remembers(process[r])
        /\ Noted(n)' = Counted(process[r]) \cup {x}
    BY <1>0, <1>1, <1>2, <1>3 DEF Made
  <2>2. LET z == process'[r]
            y == process[r]
        IN /\ z.pc = "day" /\ z.att = n /\ z.day = x + 1 /\ z.dates = y.dates /\ z.own = y.own
           /\ z.prior = y.prior /\ z.blocked = (y.blocked \/ rec.status \in Blocker)
    BY <1>0, <1>4
  <2>3. /\ n \in DOMAIN attempts /\ x \in Day /\ rec \in RecordType
        /\ attempts'[n].day[x] = rec
        /\ \A e \in Day : e # x => attempts'[n].day[e] = attempts[n].day[e]
        /\ \A e \in Day : e # x => Effective(n)'[e] = Effective(n)[e]
    BY <1>1 DEF Made
  <2> QED
    BY <2>1, <2>2, <2>3, NextDay
<1>6. Attempting(process[r])'
  BY <1>0, <1>1, <1>4 DEF Attempting, Made
<1>7. Closed(process[r].dates)'
  BY <1>0, <1>2, <1>4 DEF Closed
<1>8. ProcessOK(process[r])'
  BY <1>0, <1>4, <1>5, <1>6, <1>7 DEF ProcessOK, InDates, Working
<1> QED
  BY <1>1, <1>8 DEF CampaignGood, Made

LEMMA RecordedLegacy ==
  ASSUME NEW r \in Runner, CampaignGood(r), MayRecord(process[r]), NEW rec, RecordOf(process[r], rec),
         SaveRecord(process[r], rec), process[r].att = 1,
         UNCHANGED <<defined, legacyDays, life, op, begun, paused, pauses, crashes>>,
         process' \in [Runner -> WorkType], SameWork(process'[r], process[r]),
         process'[r].pc = "legacy", process'[r].res = rec
  PROVE  CampaignGood(r)'
<1>0. PICK w, v, n, x : w = process[r] /\ v = process'[r] /\ n = w.att /\ x = w.day
  OBVIOUS
<1>1. Made(n, x, rec)
  BY <1>0, RecordMade
<1>2. Remembers(w) /\ Closed(w.dates) /\ w.dates \in SUBSET Day
  BY <1>0, OnTurn DEF MayRecord
<1>3. /\ w.pc # "legacy" /\ x \in w.dates /\ x \notin w.own /\ w.prior[x] # "COMPLETED"
      /\ rec.status # "NONE"
  BY <1>0 DEF MayRecord, RecordOf
<1>4. /\ v.att = n /\ v.day = x /\ v.dates = w.dates /\ v.own = w.own
      /\ v.prior = w.prior /\ v.pc = "legacy" /\ v.res = rec
  BY <1>0 DEF SameWork
<1>5. Remembers(process[r])'
  BY <1>0, <1>1, <1>2, <1>3, ToLegacy DEF Made
<1>6. Attempting(process[r])'
  BY <1>0, <1>1, <1>4 DEF Attempting, Made
<1>7. Closed(process[r].dates)'
  BY <1>0, <1>2, <1>4 DEF Closed
<1>8. AtWork(process[r])'
  BY <1>0, <1>1, <1>3, <1>4 DEF AtWork, Made
<1>9. ProcessOK(process[r])'
  BY <1>0, <1>4, <1>5, <1>6, <1>7, <1>8 DEF ProcessOK, InDates, Working
<1> QED
  BY <1>1, <1>9 DEF CampaignGood, Made

LEMMA AfterCounts ==
  ASSUME NEW w \in WorkType, NEW rec \in RecordType, w.day \in Day
  PROVE  After(w, rec) \in WorkType /\ Counts(After(w, rec), w, rec)
  BY AfterIs DEF Counts

LEMMA ReviewFailedStep ==
  ASSUME NEW r \in Runner, CampaignGood(r), ReviewFailed(r)
  PROVE  CampaignGood(r)'
<1> DEFINE rec == Record("RECOVERY", FALSE, FALSE)
           after == After(process[r], rec)
           v == [after EXCEPT !.first = process[r].first]
<1>1. PICK w : w = process[r]
  OBVIOUS
<1>2. AtDate(w) /\ ~Passed(w)
  BY <1>1 DEF ReviewFailed
<1>3. /\ w \in WorkType /\ w.pc = "day" /\ w.day \in Day
      /\ w.day \in w.dates /\ w.day \notin w.own /\ w.prior[w.day] # "COMPLETED"
  BY <1>1, <1>2, AtDateIs
<1>4. rec \in RecordType /\ rec.status = "RECOVERY" /\ ~rec.ran
  BY PlainRecord
<1>5. SaveRecord(w, rec) /\ Set(r, v)
  BY <1>1 DEF ReviewFailed
<1> HIDE DEF rec
<1>6. after \in WorkType /\ Counts(after, w, rec)
  BY <1>1, <1>3, <1>4, AfterCounts
<1> HIDE DEF after
<1>7. v \in WorkType /\ Counts(v, w, rec)
  BY <1>1, <1>3, <1>6 DEF WorkType, Counts
<1> HIDE DEF v
<1>8. process' \in [Runner -> WorkType] /\ process'[r] = v
  BY <1>5, <1>7, SetTo DEF CampaignGood
<1>9. MayRecord(w) /\ RecordOf(w, rec)
  BY <1>3, <1>4 DEF MayRecord, RecordOf, InDates, Stands
<1> QED
  BY <1>1, <1>5, <1>7, <1>8, <1>9, RecordedNext DEF ReviewFailed

LEMMA SkipDateStep ==
  ASSUME NEW r \in Runner, CampaignGood(r), SkipDate(r)
  PROVE  CampaignGood(r)'
<1> DEFINE rec == Record("SKIPPED", FALSE, FALSE)
<1>1. PICK w : w = process[r]
  OBVIOUS
<1>2. AtDate(w) /\ ~Passed(w) /\ StopsHere(w)
  BY <1>1 DEF SkipDate
<1>3. /\ w \in WorkType /\ w.pc = "day" /\ w.day \in Day
      /\ w.day \in w.dates /\ w.day \notin w.own /\ w.prior[w.day] # "COMPLETED"
  BY <1>1, <1>2, AtDateIs
<1>4. rec \in RecordType /\ rec.status = "SKIPPED" /\ ~rec.ran
  BY PlainRecord
<1>5. SaveRecord(w, rec) /\ Set(r, IF w.att = 1 THEN [w EXCEPT !.pc = "legacy", !.res = rec] ELSE After(w, rec))
  BY <1>1 DEF SkipDate
<1> HIDE DEF rec
<1>6. MayRecord(w) /\ RecordOf(w, rec)
  BY <1>2, <1>3, <1>4 DEF MayRecord, RecordOf, InDates, Stands, StopsHere
<1>7. CASE w.att = 1
  <2> DEFINE v == [w EXCEPT !.pc = "legacy", !.res = rec]
  <2>1. v \in WorkType /\ v.pc = "legacy" /\ SameWork(v, w) /\ v.res = rec
    BY <1>3, <1>4 DEF WorkType, SameWork, InDates, Working
  <2>2. Set(r, v)
    BY <1>5, <1>7
  <2> HIDE DEF v
  <2>3. process' \in [Runner -> WorkType] /\ process'[r] = v
    BY <2>1, <2>2, SetTo DEF CampaignGood
  <2> QED
    BY <1>1, <1>5, <1>6, <1>7, <2>1, <2>3, RecordedLegacy DEF SkipDate
<1>8. CASE w.att # 1
  <2>1. After(w, rec) \in WorkType /\ Counts(After(w, rec), w, rec)
    BY <1>3, <1>4, AfterCounts
  <2>2. process' \in [Runner -> WorkType] /\ process'[r] = After(w, rec)
    BY <1>5, <1>8, <2>1, SetTo DEF CampaignGood
  <2> QED
    BY <1>1, <1>5, <1>6, <2>1, <2>2, RecordedNext DEF SkipDate
<1> QED
  BY <1>7, <1>8

(* A completed record made of an operator run rests on clean books.           *)
LEMMA RecoverStep ==
  ASSUME NEW r \in Runner, CampaignGood(r), Recover(r)
  PROVE  CampaignGood(r)'
<1>1. PICK w : w = process[r]
  OBVIOUS
<1> DEFINE rec == IF HasOp(w) THEN FromOp(w) ELSE FromLife(w)
<1>2. AtDate(w) /\ ~Passed(w) /\ ~StopsHere(w) /\ SaveRecord(w, rec) /\ Set(r, After(w, rec))
  BY <1>1 DEF Recover
<1>3. /\ w \in WorkType /\ w.pc = "day" /\ w.day \in Day
      /\ w.day \in w.dates /\ w.day \notin w.own /\ w.prior[w.day] # "COMPLETED"
  BY <1>1, <1>2, AtDateIs
<1>6. /\ rec \in RecordType /\ rec.status \in {"BLOCKED", "COMPLETED", "RECOVERY"}
      /\ rec.status = "COMPLETED" => life[w.day] = "clean"
  <2>1. CASE HasOp(w)
    <3> DEFINE status == IF op[w.day].out = "hard" \/ op[w.day].reasons THEN "BLOCKED" ELSE "COMPLETED"
               ready == op[w.day].out = "ready"
    <3>1. rec = Record(status, ready, TRUE)
      BY <2>1 DEF FromOp
    <3>2. op[w.day].reasons \in BOOLEAN
      BY <1>3 DEF CampaignGood, CampaignTypeOK
    <3>3. op[w.day].out # "none" /\ ~Said(w.day)
      BY <1>1, <1>2, <2>1, UnrecordedIs DEF HasOp
    <3>4. status = "COMPLETED" => life[w.day] = "clean"
      BY <3>2, <3>3, <1>3 DEF CampaignGood, CampaignFacts, CampaignTables, RunsTell
    <3>5. status \in {"BLOCKED", "COMPLETED"} /\ ready \in BOOLEAN
      OBVIOUS
    <3> HIDE DEF status, ready, rec
    <3>6. rec \in RecordType /\ rec.status = status
      BY <3>1, <3>5 DEF Record, RecordType
    <3> QED
      BY <3>4, <3>5, <3>6
  <2>2. CASE ~HasOp(w)
    <3>1. rec = Record("RECOVERY", FALSE, TRUE)
      BY <2>2 DEF FromLife
    <3> QED
      BY <3>1, PlainRecord
  <2> QED
    BY <2>1, <2>2
<1> HIDE DEF rec
<1>7. MayRecord(w) /\ RecordOf(w, rec)
  BY <1>2, <1>3, <1>6 DEF MayRecord, RecordOf, InDates, Stands, StopsHere
<1>8. After(w, rec) \in WorkType /\ Counts(After(w, rec), w, rec)
  BY <1>3, <1>6, AfterCounts
<1>9. process' \in [Runner -> WorkType] /\ process'[r] = After(w, rec)
  BY <1>2, <1>8, SetTo DEF CampaignGood
<1> QED
  BY <1>1, <1>2, <1>7, <1>8, <1>9, RecordedNext DEF Recover

LEMMA SaveDayStep ==
  ASSUME NEW r \in Runner, CampaignGood(r), SaveDay(r)
  PROVE  CampaignGood(r)'
<1>1. PICK w : w = process[r]
  OBVIOUS
<1>2. w \in WorkType /\ w.pc = "save" /\ w.day \in Day /\ AtWork(w)
  BY <1>1, AtWorkIs DEF SaveDay, Working
<1>3. w.res \in RecordType
  BY <1>2 DEF WorkType
<1>4. SaveRecord(w, w.res) /\ Set(r, IF w.att = 1 THEN [w EXCEPT !.pc = "legacy"] ELSE After(w, w.res))
  BY <1>1 DEF SaveDay
<1>5. MayRecord(w) /\ RecordOf(w, w.res)
  BY <1>2, <1>3 DEF MayRecord, RecordOf, InDates, Working, AtWork
<1>6. CASE w.att = 1
  <2> DEFINE v == [w EXCEPT !.pc = "legacy"]
  <2>1. v \in WorkType /\ v.pc = "legacy" /\ SameWork(v, w) /\ v.res = w.res
    BY <1>2 DEF WorkType, SameWork, InDates, Working
  <2>2. Set(r, v)
    BY <1>4, <1>6
  <2> HIDE DEF v
  <2>3. process' \in [Runner -> WorkType] /\ process'[r] = v
    BY <2>1, <2>2, SetTo DEF CampaignGood
  <2> QED
    BY <1>1, <1>4, <1>5, <1>6, <2>1, <2>3, RecordedLegacy DEF SaveDay
<1>7. CASE w.att # 1
  <2>1. After(w, w.res) \in WorkType /\ Counts(After(w, w.res), w, w.res)
    BY <1>2, <1>3, AfterCounts
  <2>2. process' \in [Runner -> WorkType] /\ process'[r] = After(w, w.res)
    BY <1>4, <1>7, <2>1, SetTo DEF CampaignGood
  <2> QED
    BY <1>1, <1>4, <1>5, <2>1, <2>2, RecordedNext DEF SaveDay
<1> QED
  BY <1>6, <1>7

(* The old table gets the first attempt's record of a date.                   *)
LEMMA LegacySaved ==
  ASSUME CampaignTypeOK, CampaignFacts, NEW x \in Day, NEW rec \in RecordType,
         1 = Len(attempts), attempts[1].status = "RUNNING", attempts[1].day[x] = rec, rec.status # "NONE",
         legacyDays' = [legacyDays EXCEPT ![x] = IF @.status = "NONE" THEN rec ELSE @],
         UNCHANGED <<defined, attempts, life, op, begun, paused, pauses, crashes>>
  PROVE  /\ CampaignTypeOK' /\ CampaignFacts'
         /\ \A d \in Day : d # x => Effective(1)'[d] = Effective(1)[d]
<1>1. DOMAIN attempts = {1} /\ attempts # <<>>
  BY DaysTyped DEF CampaignTypeOK
<1>2. legacyDays \in [Day -> RecordType]
  BY DEF CampaignTypeOK
<1>3. legacyDays' \in [Day -> RecordType] /\ \A d \in Day : d # x => legacyDays'[d] = legacyDays[d]
  BY <1>2
<1>4. legacyDays'[x] = legacyDays[x] \/ legacyDays'[x] = rec
  BY <1>2
<1>5. CampaignTypeOK'
  BY <1>3 DEF CampaignTypeOK, AttemptType, RecordType, Day
<1>6. ASSUME NEW d \in Day, d # x PROVE Effective(1)'[d] = Effective(1)[d]
  BY <1>3, <1>6, EffectiveKept
<1>7. (VerdictMatchesEvidence /\ ReadyMeansClean)'
  BY <1>1 DEF VerdictMatchesEvidence, ReadyMeansClean
<1>8. StopsAtBlocker'
  BY DEF CampaignFacts, StopsAtBlocker, Day, Recorded, Blocker
<1>9. RecordsStand'
  <2>1. RecordsStand
    BY DEF CampaignFacts, CampaignTables
  <2>2. \A d \in Day : Stands(legacyDays'[d], d)
    BY <1>1, <1>3, <1>4, <2>1 DEF RecordsStand
  <2> QED
    BY <2>1, <2>2 DEF RecordsStand, Stands, Day
<1>10. LegacyFollows'
  BY <1>1, <1>3, <1>4 DEF CampaignFacts, CampaignTables, LegacyFollows, Day
<1>11. RunsTell'
  BY SaidKept DEF CampaignFacts, CampaignTables, RunsTell, Day
<1>12. InOrder'
  <2> SUFFICES ASSUME NEW d \in Noted(1)', NEW e \in 1..(d - 1) PROVE Dealt(1, e)'
    BY <1>1 DEF InOrder
  <2>1. Noted(1)' = Noted(1) /\ x \in Noted(1)
    BY DEF Noted, Recorded, Day
  <2>2. Dealt(1, e)
    BY <1>1, <2>1 DEF CampaignFacts, CampaignTables, InOrder
  <2>3. e \in Day
    BY <2>1, CampaignAssumption DEF Noted, Recorded, Day
  <2>4. CASE e = x
    BY <2>1, <2>4 DEF Dealt
  <2>5. CASE e # x
    BY <1>6, <2>1, <2>2, <2>3, <2>5 DEF Dealt
  <2> QED
    BY <2>4, <2>5
<1> QED
  BY <1>5, <1>6, <1>7, <1>8, <1>9, <1>10, <1>11, <1>12 DEF CampaignFacts, CampaignTables

LEMMA SaveLegacyDayStep ==
  ASSUME NEW r \in Runner, CampaignGood(r), SaveLegacyDay(r)
  PROVE  CampaignGood(r)'
<1>0. PICK w, x, rec : w = process[r] /\ x = w.day /\ rec = w.res
  OBVIOUS
<1>1. w \in WorkType /\ w.pc = "legacy" /\ x \in Day /\ AtWork(w) /\ Attempting(w)
  BY <1>0, AtWorkIs DEF SaveLegacyDay, Working
<1>2. Remembers(w) /\ Closed(w.dates)
  BY <1>0, <1>1 DEF CampaignGood, ProcessOK, InDates, Working
<1>3. /\ w.att = 1 /\ attempts[1].day[x] = rec /\ rec.status # "NONE" /\ rec \in RecordType
      /\ 1 = Len(attempts) /\ 1 \in DOMAIN attempts /\ attempts[1].status = "RUNNING"
      /\ x \notin w.own /\ w.dates \in SUBSET Day
  BY <1>0, <1>1 DEF AtWork, Attempting, WorkType
<1>4. /\ CampaignTypeOK' /\ CampaignFacts'
      /\ \A d \in Day : d # x => Effective(1)'[d] = Effective(1)[d]
  BY <1>0, <1>1, <1>3, LegacySaved DEF SaveLegacyDay, CampaignGood
<1>5. After(w, rec) \in WorkType /\ Counts(After(w, rec), w, rec)
  BY <1>0, <1>1, <1>3, AfterCounts
<1>6. process' \in [Runner -> WorkType] /\ process'[r] = After(w, rec)
  BY <1>0, <1>5, SetTo DEF CampaignGood, SaveLegacyDay
<1>7. PICK v : v = process'[r] /\ Counts(v, w, rec)
  BY <1>5, <1>6
<1>8. attempts' = attempts
  BY DEF SaveLegacyDay
<1>9. Noted(1)' = Counted(w) \cup {x} /\ x \notin Counted(w)
  <2>1. Noted(1)' = Noted(1) /\ x \in Noted(1)
    BY <1>1, <1>3, <1>8 DEF Noted, Recorded, Day
  <2>2. Counted(w) = Noted(1) \ {x}
    BY <1>0, <1>1, <1>3 DEF Counted
  <2> QED
    BY <2>1, <2>2
<1>10. Remembers(process[r])'
  <2>1. /\ process[r].att = 1 /\ process[r].day = x /\ process[r].dates \in SUBSET Day
        /\ x \notin process[r].own /\ x \notin Counted(process[r]) /\ Remembers(process[r])
        /\ Noted(1)' = Counted(process[r]) \cup {x}
    BY <1>0, <1>2, <1>3, <1>9
  <2>2. LET z == process'[r]
            y == process[r]
        IN /\ z.pc = "day" /\ z.att = 1 /\ z.day = x + 1 /\ z.dates = y.dates /\ z.own = y.own
           /\ z.prior = y.prior /\ z.blocked = (y.blocked \/ rec.status \in Blocker)
    BY <1>0, <1>3, <1>7 DEF Counts
  <2>3. /\ attempts'[1].day[x] = rec
        /\ \A e \in Day : e # x => attempts'[1].day[e] = attempts[1].day[e]
    BY <1>3, <1>8
  <2> QED
    BY <1>1, <1>3, <1>4, <2>1, <2>2, <2>3, NextDay
<1>11. Attempting(process[r])'
  BY <1>3, <1>7, <1>8 DEF Attempting, Counts
<1>12. Closed(process[r].dates)'
  BY <1>2, <1>7 DEF Closed, Counts
<1>13. ProcessOK(process[r])'
  BY <1>7, <1>10, <1>11, <1>12 DEF ProcessOK, InDates, Working, Counts
<1> QED
  BY <1>4, <1>6, <1>13 DEF CampaignGood

(* An attempt's row gets another status: its records are kept.                *)
LEMMA RowSet ==
  ASSUME CampaignTypeOK, CampaignFacts, NEW n \in DOMAIN attempts, NEW new \in AttemptType,
         new.day = attempts[n].day, new.status # "RUNNING",
         attempts' = [attempts EXCEPT ![n] = new],
         UNCHANGED <<defined, legacyDays, life, op, begun, paused, pauses, crashes>>
  PROVE  /\ CampaignTypeOK' /\ DaysKept
         /\ DOMAIN attempts' = DOMAIN attempts /\ Len(attempts') = Len(attempts)
         /\ attempts'[n] = new
         /\ VerdictOf(n)' => CampaignFacts'
<1>1. attempts \in Seq(AttemptType)
  BY DEF CampaignTypeOK
<1>2. attempts' \in Seq(AttemptType) /\ DOMAIN attempts' = DOMAIN attempts /\ Len(attempts') = Len(attempts)
  BY <1>1
<1>3. \A a \in DOMAIN attempts : attempts'[a] = IF a = n THEN new ELSE attempts[a]
  BY <1>1
<1>4. DaysKept
  BY <1>2, <1>3 DEF DaysKept
<1>5. CampaignTypeOK'
  BY <1>2, <1>3 DEF CampaignTypeOK, AttemptType, RecordType, Day
<1>6. ASSUME NEW a \in DOMAIN attempts, a # n PROVE VerdictOf(a)'
  <2>1. VerdictOf(a) /\ LifeKept
    BY VerdictsAre DEF CampaignFacts, LifeKept
  <2>2. \A e \in Day : Effective(a)'[e] = Effective(a)[e]
    BY <1>4, DaysKeptEffective
  <2>3. attempts'[a].status = attempts[a].status
    BY <1>3, <1>6
  <2> QED
    BY <2>1, <2>2, <2>3, VerdictKept
<1>7. RunsTell' /\ LifeKept
  BY <1>4, DaysKeptSaid DEF RunsTell, CampaignFacts, CampaignTables, LifeKept, Day
<1>8. ASSUME VerdictOf(n)' PROVE CampaignFacts'
  <2>1. \A a \in DOMAIN attempts : VerdictOf(a)'
    BY <1>6, <1>8
  <2> QED
    BY <1>4, <1>7, <2>1, FactsKept
<1> QED
  BY <1>2, <1>3, <1>4, <1>5, <1>8

LEMMA Finalized ==
  ASSUME CampaignTypeOK, CampaignFacts, NEW n \in DOMAIN attempts, attempts[n].status = "RUNNING",
         NEW status \in {"BLOCKED", "COMPLETED_NOT_READY", "FAILED"}, NEW first \in 0..MaxDay,
         Finalize(n, status, first),
         UNCHANGED <<defined, legacyDays, life, op, begun, paused, pauses, crashes>>
  PROVE  /\ CampaignTypeOK' /\ DaysKept
         /\ DOMAIN attempts' = DOMAIN attempts /\ attempts'[n].status = status
         /\ VerdictOf(n)' => CampaignFacts'
<1> DEFINE new == [attempts[n] EXCEPT !.status = status, !.first = first]
<1>1. attempts[n] \in AttemptType /\ attempts \in Seq(AttemptType)
  BY DaysTyped DEF CampaignTypeOK
<1>2. new \in AttemptType /\ new.day = attempts[n].day /\ new.status = status
  BY <1>1 DEF AttemptType
<1>3. attempts' = [attempts EXCEPT ![n] = new]
  BY <1>1 DEF Finalize
<1> HIDE DEF new
<1> QED
  BY <1>2, <1>3, RowSet

LEMMA UnexpectedErrorStep ==
  ASSUME NEW r \in Runner, CampaignGood(r), UnexpectedError(r)
  PROVE  CampaignGood(r)'
<1>0. PICK w, n : w = process[r] /\ n = w.att
  OBVIOUS
<1>1. w \in WorkType /\ w.day \in Day /\ n \in DOMAIN attempts /\ attempts[n].status = "RUNNING"
  BY <1>0, AtWorkIs DEF UnexpectedError, Working, Attempting
<1> DEFINE first == IF w.first # 0 THEN w.first ELSE w.day
<1>2. first \in 0..MaxDay
  BY <1>1, CampaignAssumption DEF WorkType, Day
<1>3. Finalize(n, "FAILED", first)
  BY <1>0 DEF UnexpectedError
<1> HIDE DEF first
<1>4. /\ CampaignTypeOK' /\ attempts'[n].status = "FAILED"
      /\ VerdictOf(n)' => CampaignFacts'
  BY <1>1, <1>2, <1>3, Finalized DEF UnexpectedError, CampaignGood
<1>5. VerdictOf(n)'
  BY <1>4 DEF VerdictOf
<1> QED
  BY <1>4, <1>5, IdleStep DEF UnexpectedError

(* A process that has judged its attempt, and reviews it.                     *)
LEMMA Judging ==
  ASSUME NEW r \in Runner, NEW n \in DOMAIN attempts', process'[r].att = n,
         attempts'[n].status # "RUNNING", process'[r].pc \in {"review", "promote"},
         process'[r].pc = "promote" =>
           Cardinality({d \in Day : Effective(n)'[d].ran}) >= MinDays
  PROVE  ProcessOK(process[r])'
<1>1. PICK v : v = process'[r]
  OBVIOUS
<1>2. Reviewing(process[r])'
  BY <1>1 DEF Reviewing, Day
<1> QED
  BY <1>1, <1>2 DEF ProcessOK, InDates, Working

LEMMA FinishStep ==
  ASSUME NEW r \in Runner, CampaignGood(r), Finish(r)
  PROVE  CampaignGood(r)'
<1>0. PICK w, n : w = process[r] /\ n = w.att
  OBVIOUS
<1>1. w \in WorkType /\ Attempting(w) /\ w.pc = "day"
  BY <1>0, WorkOf DEF CampaignGood, ProcessOK, Finish, InDates
<1>2. n \in DOMAIN attempts /\ n \in Nat /\ attempts[n].status = "RUNNING" /\ w.first \in 0..MaxDay
  BY <1>0, <1>1 DEF Attempting, WorkType
<1> DEFINE status == IF Unclear(n) THEN "BLOCKED" ELSE "COMPLETED_NOT_READY"
           v == [Idle EXCEPT !.pc = "review", !.att = n]
<1>3. Finalize(n, status, w.first) /\ Set(r, v)
  BY <1>0 DEF Finish
<1>4. Unclear(n) <=> ~Settled(n)
  BY DEF Unclear, Settled
<1>5. status \in {"BLOCKED", "COMPLETED_NOT_READY"} /\ (status = "BLOCKED" <=> ~Settled(n))
  BY <1>4
<1> HIDE DEF status
<1>6. /\ CampaignTypeOK' /\ DaysKept
      /\ DOMAIN attempts' = DOMAIN attempts /\ attempts'[n].status = status
      /\ VerdictOf(n)' => CampaignFacts'
  BY <1>2, <1>3, <1>5, Finalized DEF Finish, CampaignGood
<1>7. VerdictOf(n)'
  <2>1. \A d \in Day : Effective(n)'[d] = Effective(n)[d]
    BY <1>2, <1>6, DaysKeptEffective DEF CampaignGood
  <2>2. Settled(n)' <=> Settled(n)
    BY <2>1 DEF Settled, Blocker, Day
  <2> QED
    BY <1>5, <1>6, <2>2 DEF VerdictOf
<1>8. v \in WorkType /\ v.pc = "review" /\ v.att = n
  BY <1>2, IdleTyped DEF WorkType
<1> HIDE DEF v
<1>9. process' \in [Runner -> WorkType] /\ process'[r] = v
  BY <1>3, <1>8, SetTo DEF CampaignGood
<1>10. ProcessOK(process[r])'
  BY <1>2, <1>5, <1>6, <1>8, <1>9, Judging
<1> QED
  BY <1>6, <1>7, <1>9, <1>10 DEF CampaignGood

(* A review that recommends has counted the dates that ran.                   *)
LEMMA RecommendsRan ==
  ASSUME NEW n, Recommends(n)
  PROVE  Cardinality({d \in Day : Effective(n)[d].ran}) >= MinDays
<1> DEFINE all == {d \in Day : Effective(n)[d].ran}
           did == {d \in Day : Effective(n)[d].ran /\ life[d] # "none"}
<1>1. Cardinality(did) >= MinDays
  BY DEF Recommends
<1>2. IsFiniteSet(Day)
  BY FS_Interval, CampaignAssumption DEF Day
<1>3. IsFiniteSet(all)
  BY <1>2, FS_Subset
<1>4. Cardinality(did) <= Cardinality(all) /\ IsFiniteSet(did)
  BY <1>3, FS_Subset
<1>5. Cardinality(did) \in Nat /\ Cardinality(all) \in Nat
  BY <1>3, <1>4, FS_CardinalityType
<1> QED
  BY <1>1, <1>4, <1>5, CampaignAssumption

LEMMA ReviewStep ==
  ASSUME NEW r \in Runner, CampaignGood(r), Review(r)
  PROVE  CampaignGood(r)'
<1>0. PICK w, n : w = process[r] /\ n = w.att
  OBVIOUS
<1>1. w \in WorkType /\ w.pc = "review" /\ Reviewing(w)
  BY <1>0, WorkOf DEF CampaignGood, ProcessOK, Review
<1>2. n \in DOMAIN attempts /\ attempts[n].status # "RUNNING"
  BY <1>0, <1>1 DEF Reviewing
<1>3. CampaignTypeOK' /\ CampaignFacts' /\ DaysKept
  BY QuietTables DEF Review, CampaignGood, CampaignTypeOK
<1>4. CASE Recommends(n) /\ GoOn(r, "promote")
  <2> DEFINE v == [w EXCEPT !.pc = "promote"]
  <2>1. v \in WorkType /\ v.pc = "promote" /\ v.att = n
    BY <1>0, <1>1 DEF WorkType
  <2>2. Set(r, v)
    BY <1>0, <1>4 DEF GoOn
  <2> HIDE DEF v
  <2>3. process' \in [Runner -> WorkType] /\ process'[r] = v
    BY <2>1, <2>2, SetTo DEF CampaignGood
  <2>4. \A d \in Day : Effective(n)'[d] = Effective(n)[d]
    BY <1>2, <1>3, DaysKeptEffective DEF CampaignGood
  <2>5. {d \in Day : Effective(n)'[d].ran} = {d \in Day : Effective(n)[d].ran}
    BY <2>4
  <2>6. Cardinality({d \in Day : Effective(n)'[d].ran}) >= MinDays
    BY <1>4, <2>5, RecommendsRan
  <2>7. n \in DOMAIN attempts' /\ attempts'[n].status # "RUNNING"
    BY <1>2 DEF Review
  <2>8. ProcessOK(process[r])'
    BY <2>1, <2>3, <2>6, <2>7, Judging
  <2> QED
    BY <1>3, <2>3, <2>8 DEF CampaignGood
<1>5. CASE Set(r, Idle)
  BY <1>3, <1>5, IdleStep
<1> QED
  BY <1>0, <1>4, <1>5 DEF Review

(* A promotion makes an attempt ready: its review saw settled, clean dates.   *)
LEMMA PromoteStep ==
  ASSUME NEW r \in Runner, CampaignGood(r), Promote(r)
  PROVE  CampaignGood(r)'
<1>0. PICK w, n : w = process[r] /\ n = w.att
  OBVIOUS
<1>1. w \in WorkType /\ w.pc = "promote" /\ Reviewing(w)
  BY <1>0, WorkOf DEF CampaignGood, ProcessOK, Promote
<1>2. /\ n \in DOMAIN attempts /\ attempts[n].status # "RUNNING"
      /\ Cardinality({d \in Day : Effective(n)[d].ran}) >= MinDays
  BY <1>0, <1>1 DEF Reviewing
<1> DEFINE new == [attempts[n] EXCEPT !.status = Promoted(@)]
<1>3. attempts[n] \in AttemptType /\ attempts \in Seq(AttemptType)
  BY <1>2, DaysTyped DEF CampaignGood, CampaignTypeOK
<1>4. /\ new \in AttemptType /\ new.day = attempts[n].day /\ new.status = Promoted(attempts[n].status)
      /\ new.status # "RUNNING"
  BY <1>2, <1>3 DEF AttemptType, Promoted
<1>5. attempts' = [attempts EXCEPT ![n] = new]
  BY <1>0, <1>2, <1>3 DEF Promote
<1> HIDE DEF new
<1>6. /\ CampaignTypeOK' /\ DaysKept /\ attempts'[n] = new
      /\ VerdictOf(n)' => CampaignFacts'
  BY <1>2, <1>4, <1>5, RowSet DEF Promote, CampaignGood
<1>7. VerdictOf(n)
  BY <1>2, VerdictsAre DEF CampaignGood, CampaignFacts
<1>8. \A d \in Day : Effective(n)'[d] = Effective(n)[d]
  BY <1>2, <1>6, DaysKeptEffective DEF CampaignGood
<1>9. Settled(n)' <=> Settled(n)
  BY <1>8 DEF Settled, Blocker, Day
<1>10. {d \in Day : Effective(n)'[d].ran} = {d \in Day : Effective(n)[d].ran}
  BY <1>8
<1>11. ASSUME Settled(n), NEW d \in Day, Effective(n)[d].ran PROVE life[d] = "clean"
  <2>1. n \in 0..Len(attempts)
    BY <1>2, DaysTyped DEF CampaignGood
  <2>2. Stands(Effective(n)[d], d) /\ Effective(n)[d] \in RecordType
    BY <2>1, EffectiveStands, EffectiveTyped DEF CampaignGood, CampaignFacts, CampaignTables
  <2> QED
    BY <1>11, <2>2 DEF Stands, Settled, Blocker, RecordType
<1>12. life' = life
  BY DEF Promote
<1>13. Settled(n) => \A d \in Day : Effective(n)'[d].ran => life'[d] = "clean"
  BY <1>8, <1>11, <1>12
<1>14. /\ attempts[n].status = "COMPLETED_NOT_READY" => new.status = "COMPLETED_READY"
       /\ attempts[n].status # "COMPLETED_NOT_READY" => new.status = attempts[n].status
  BY <1>4 DEF Promoted
<1>15. VerdictOf(n)'
  <2>1. new.status = "COMPLETED_READY" => Settled(n)
    BY <1>7, <1>14 DEF VerdictOf
  <2>2. new.status = "BLOCKED" => ~Settled(n)
    BY <1>7, <1>14 DEF VerdictOf
  <2>3. new.status # "COMPLETED_NOT_READY"
    BY <1>14
  <2>4. Cardinality({d \in Day : Effective(n)'[d].ran}) >= MinDays
    BY <1>2, <1>10
  <2> QED
    BY <1>6, <1>9, <1>13, <2>1, <2>2, <2>3, <2>4 DEF VerdictOf, Day
<1> QED
  BY <1>6, <1>15, IdleStep DEF Promote

(* A new attempt: nothing is recorded in it, and the earlier ones are kept.   *)
LEMMA Appended ==
  ASSUME CampaignTypeOK, CampaignFacts, Running = {}, NEW new \in AttemptType,
         new.status = "RUNNING", new.day = [d \in Day |-> NoRecord],
         attempts' = Append(attempts, new),
         UNCHANGED <<defined, legacyDays, life, op, begun, paused, pauses, crashes>>
  PROVE  /\ CampaignTypeOK' /\ CampaignFacts'
         /\ Len(attempts') = Len(attempts) + 1 /\ Len(attempts') \in DOMAIN attempts'
         /\ attempts'[Len(attempts')].status = "RUNNING"
<1>0. PICK n : n = Len(attempts) + 1
  OBVIOUS
<1>1. attempts \in Seq(AttemptType) /\ Len(attempts) \in Nat /\ DOMAIN attempts = 1..Len(attempts)
  BY DaysTyped DEF CampaignTypeOK
<1>2. /\ attempts' \in Seq(AttemptType) /\ Len(attempts') = n /\ DOMAIN attempts' = 1..n
      /\ attempts'[n] = new /\ \A a \in DOMAIN attempts : attempts'[a] = attempts[a]
  BY <1>0, <1>1
<1>3. \A a \in DOMAIN attempts' : a \in DOMAIN attempts \/ a = n
  BY <1>0, <1>1, <1>2
<1>4. n \in DOMAIN attempts' /\ n \in Nat /\ \A a \in DOMAIN attempts : a # n /\ a \in DOMAIN attempts'
  BY <1>0, <1>1, <1>2
<1>5. CampaignTypeOK'
  <2>1. \A a \in DOMAIN attempts' : attempts'[a].status = "RUNNING" => a = Len(attempts')
    BY <1>2, <1>3 DEF Running
  <2> QED
    BY <1>2, <2>1 DEF CampaignTypeOK, AttemptType, RecordType, Day
<1>6. \A d \in Day : attempts'[n].day[d] = NoRecord
  BY <1>2
<1>7. NoRecord.status = "NONE" /\ ~NoRecord.ran
  BY DEF NoRecord, Record
<1>8. ASSUME NEW a \in DOMAIN attempts, NEW d \in Day PROVE Effective(a)'[d] = Effective(a)[d]
  <2>1. a \in Nat /\ \A b \in 1..a : attempts'[b].day[d] = attempts[b].day[d]
    BY <1>1, <1>2
  <2> QED
    BY <2>1, EffectiveKept
<1>9. \A a \in DOMAIN attempts : Noted(a)' = Noted(a)
  BY <1>2 DEF Noted, Recorded, Day
<1>10. Noted(n)' = {}
  BY <1>6, <1>7 DEF Noted, Recorded, Day
<1>11. LifeKept
  BY DEF LifeKept
<1>12. (VerdictMatchesEvidence /\ ReadyMeansClean)'
  <2>1. ASSUME NEW a \in DOMAIN attempts PROVE VerdictOf(a)'
    <3>1. VerdictOf(a)
      BY VerdictsAre DEF CampaignFacts
    <3> QED
      BY <3>1, <1>2, <1>8, <1>11, VerdictKept
  <2>2. VerdictOf(n)'
    BY <1>2 DEF VerdictOf
  <2>3. \A a \in DOMAIN attempts' : VerdictOf(a)'
    BY <1>3, <2>1, <2>2
  <2> QED
    BY <2>3 DEF VerdictMatchesEvidence, ReadyMeansClean, VerdictOf
<1>13. StopsAtBlocker'
  <2> SUFFICES ASSUME NEW a \in DOMAIN attempts'
               PROVE  /\ \A d \in Day : attempts'[a].day[d].status = "SKIPPED" =>
                         \E e \in 1..(d - 1) : attempts'[a].day[e].status \in Blocker
                      /\ a > 1 /\ StopConfig => \A d \in Recorded(attempts'[a].day) :
                         (\E e \in 1..(d - 1) : attempts'[a].day[e].status \in Blocker)
                           => attempts'[a].day[d].status \in {"SKIPPED", "RECOVERY"}
    BY DEF StopsAtBlocker, Day, Recorded, Blocker
  <2>1. CASE a \in DOMAIN attempts
    <3>1. attempts'[a] = attempts[a]
      BY <1>2, <2>1
    <3> QED
      BY <2>1, <3>1 DEF CampaignFacts, StopsAtBlocker
  <2>2. CASE a = n
    <3>1. Recorded(attempts'[a].day) = {}
      BY <1>6, <1>7, <2>2 DEF Recorded
    <3> QED
      BY <1>6, <1>7, <2>2, <3>1
  <2> QED
    BY <1>3, <2>1, <2>2
<1>14. RecordsStand'
  <2> SUFFICES ASSUME NEW d \in Day
               PROVE  Stands(legacyDays[d], d)' /\ \A a \in DOMAIN attempts' : Stands(attempts[a].day[d], d)'
    BY DEF RecordsStand, Day
  <2>1. RecordsStand
    BY DEF CampaignFacts, CampaignTables
  <2>2. Stands(legacyDays[d], d)'
    BY <2>1 DEF RecordsStand, Stands
  <2>3. ASSUME NEW a \in DOMAIN attempts PROVE Stands(attempts[a].day[d], d)'
    BY <1>2, <2>1 DEF RecordsStand, Stands
  <2>4. Stands(attempts[n].day[d], d)'
    BY <1>6, <1>7 DEF Stands
  <2> QED
    BY <1>3, <2>2, <2>3, <2>4
<1>15. LegacyFollows'
  <2> SUFFICES ASSUME NEW d \in Day, legacyDays[d].status # "NONE"
               PROVE  attempts' # <<>> /\ attempts'[1].day[d].status # "NONE"
    BY DEF LegacyFollows, Day
  <2>1. attempts # <<>> /\ attempts[1].day[d].status # "NONE"
    BY DEF CampaignFacts, CampaignTables, LegacyFollows
  <2>2. 1 \in DOMAIN attempts
    BY <1>1, <2>1
  <2> QED
    BY <1>1, <1>2, <2>1, <2>2
<1>16. RunsTell'
  <2>1. \A d \in Day : Said(d) => Said(d)'
    BY <1>2, <1>4 DEF Said
  <2> QED
    BY <2>1 DEF CampaignFacts, CampaignTables, RunsTell, Day
<1>17. InOrder'
  <2> SUFFICES ASSUME NEW a \in DOMAIN attempts', NEW d \in Noted(a)', NEW e \in 1..(d - 1)
               PROVE  Dealt(a, e)'
    BY DEF InOrder
  <2>1. a \in DOMAIN attempts /\ d \in Noted(a)
    BY <1>3, <1>9, <1>10
  <2>2. e \in Day
    BY <2>1, CampaignAssumption DEF Noted, Recorded, Day
  <2>3. Dealt(a, e)
    BY <2>1 DEF CampaignFacts, CampaignTables, InOrder
  <2> QED
    BY <1>8, <1>9, <2>1, <2>2, <2>3 DEF Dealt
<1>18. CampaignFacts'
  BY <1>12, <1>13, <1>14, <1>15, <1>16, <1>17 DEF CampaignFacts, CampaignTables
<1> QED
  BY <1>0, <1>2, <1>4, <1>5, <1>18

LEMMA OpenNewStep ==
  ASSUME NEW r \in Runner, CampaignGood(r), process[r].pc = "open", Running = {},
         attempts' = Append(attempts,
             [status |-> "RUNNING", again |-> attempts # <<>> /\ ~process[r].stop, who |-> process[r].who,
              first |-> 0, day |-> [d \in Day |-> NoRecord]]),
         Set(r, [process[r] EXCEPT !.pc = "enter", !.att = Len(attempts) + 1]),
         UNCHANGED <<defined, legacyDays, life, op, begun, paused, pauses, crashes>>
  PROVE  CampaignGood(r)'
<1>0. PICK w : w = process[r]
  OBVIOUS
<1>1. w \in WorkType /\ w.pc = "open" /\ Closed(w.dates)
  BY <1>0, WorkOf DEF CampaignGood, ProcessOK
<1> DEFINE again == attempts # <<>> /\ ~w.stop
           none == [d \in Day |-> NoRecord]
           new == [status |-> "RUNNING", again |-> again, who |-> w.who, first |-> 0, day |-> none]
           n == Len(attempts) + 1
           v == [w EXCEPT !.pc = "enter", !.att = n]
<1>2. attempts' = Append(attempts, new) /\ Set(r, v)
  BY <1>0
<1>3. again \in BOOLEAN
  OBVIOUS
<1>4. none \in [Day -> RecordType]
  BY DEF NoRecord, Record, RecordType
<1>5. w.who \in Reviewer \cup {NoOperator} /\ 0 \in 0..MaxDay
  BY <1>1, CampaignAssumption DEF WorkType
<1> HIDE DEF again, none
<1>6. new \in AttemptType /\ new.status = "RUNNING" /\ new.day = none
  BY <1>3, <1>4, <1>5 DEF AttemptType
<1> HIDE DEF new
<1>7. /\ CampaignTypeOK' /\ CampaignFacts'
      /\ Len(attempts') = n /\ Len(attempts') \in DOMAIN attempts'
      /\ attempts'[Len(attempts')].status = "RUNNING"
  BY <1>2, <1>6, Appended DEF none, CampaignGood
<1>8. n \in Nat
  BY DaysTyped DEF CampaignGood
<1> HIDE DEF n
<1>9. v \in WorkType /\ v.pc = "enter" /\ v.att = n /\ v.dates = w.dates
  BY <1>1, <1>8 DEF WorkType
<1> HIDE DEF v
<1>10. process' \in [Runner -> WorkType] /\ process'[r] = v
  BY <1>2, <1>9, SetTo DEF CampaignGood
<1>11. Attempting(process[r])'
  BY <1>7, <1>9, <1>10 DEF Attempting
<1>12. Closed(process[r].dates)'
  BY <1>1, <1>9, <1>10 DEF Closed
<1>13. ProcessOK(process[r])'
  BY <1>9, <1>10, <1>11, <1>12 DEF ProcessOK, InDates, Working
<1> QED
  BY <1>7, <1>10, <1>13 DEF CampaignGood

LEMMA OpenStep ==
  ASSUME NEW r \in Runner, CampaignGood(r), Open(r)
  PROVE  CampaignGood(r)'
<1>1. CASE Running # {} /\ UNCHANGED attempts
           /\ Set(r, Entered(process[r], CHOOSE a \in Running : \A b \in Running : a <= b))
  BY <1>1, OpenOldStep DEF Open
<1>2. CASE Running = {} /\ Set(r, Idle) /\ UNCHANGED attempts
  <2>1. CampaignTypeOK' /\ CampaignFacts'
    BY <1>2, QuietTables DEF Open, CampaignGood, CampaignTypeOK
  <2> QED
    BY <1>2, <2>1, IdleStep
<1>3. CASE /\ Running = {}
           /\ attempts' = Append(attempts,
                [status |-> "RUNNING", again |-> attempts # <<>> /\ ~process[r].stop, who |-> process[r].who,
                 first |-> 0, day |-> [d \in Day |-> NoRecord]])
           /\ Set(r, [process[r] EXCEPT !.pc = "enter", !.att = Len(attempts) + 1])
  BY <1>3, OpenNewStep DEF Open
<1> QED
  BY <1>1, <1>2, <1>3 DEF Open

LEMMA CrashStep ==
  ASSUME NEW r \in Runner, CampaignGood(r), CrashCampaign(r)
  PROVE  CampaignGood(r)'
<1>1. crashes' \in 0..MaxCrashes
  BY CampaignAssumption DEF CrashCampaign, CampaignGood, CampaignTypeOK
<1>2. CampaignTypeOK' /\ CampaignFacts'
  BY <1>1, QuietTables DEF CrashCampaign, CampaignGood, CampaignTypeOK
<1> QED
  BY <1>2, IdleStep DEF CrashCampaign

(* A step of the shadow operations, or none: the campaign stays as it was.    *)
LEMMA StillStep ==
  ASSUME NEW r \in Runner, CampaignGood(r), UNCHANGED <<attempts, legacyDays, life, op, process>>,
         CampaignTypeOK', CampaignFacts'
  PROVE  CampaignGood(r)'
<1>0. PICK w : w = process[r]
  OBVIOUS
<1>1. DaysKept /\ SameWork(process'[r], process[r]) /\ process' = process
  BY DEF DaysKept, SameWork
<1>2. process' \in [Runner -> WorkType]
  BY <1>1 DEF CampaignGood, WorkType, InDates, Working, Day, RecordType
<1>3. w \in WorkType
  BY <1>0, WorkOf DEF CampaignGood
<1>4. Attempting(w) => Attempting(process[r])'
  BY <1>0, <1>1 DEF Attempting
<1>5. Attempting(w) /\ Remembers(w) => Remembers(process[r])'
  BY <1>0, <1>1, <1>3, Carried DEF CampaignGood, Attempting, WorkType
<1>6. AtWork(w) => AtWork(process[r])'
  <2>1. Said(w.day)' <=> Said(w.day)
    BY SaidKept
  <2> QED
    BY <1>0, <1>1, <2>1 DEF AtWork, Stands
<1>7. Reviewing(w) => Reviewing(process[r])'
  <2> SUFFICES ASSUME Reviewing(w) PROVE Reviewing(process[r])'
    OBVIOUS
  <2>1. PICK n : n = w.att
    OBVIOUS
  <2>2. n \in DOMAIN attempts
    BY <2>1 DEF Reviewing
  <2>3. \A d \in Day : Effective(n)'[d] = Effective(n)[d]
    BY <1>1, <2>2, DaysKeptEffective DEF CampaignGood
  <2>4. {d \in Day : Effective(n)'[d].ran} = {d \in Day : Effective(n)[d].ran}
    BY <2>3
  <2> QED
    BY <1>0, <1>1, <2>1, <2>4 DEF Reviewing, Day
<1>8. Closed(w.dates) => Closed(process[r].dates)'
  BY <1>0, <1>1 DEF Closed
<1>9. ProcessOK(process[r])'
  BY <1>0, <1>1, <1>4, <1>5, <1>6, <1>7, <1>8 DEF CampaignGood, ProcessOK, InDates, Working
<1> QED
  BY <1>2, <1>9 DEF CampaignGood

(* Every step of a process keeps the facts and its own part of the invariant. *)
LEMMA CampaignStep ==
  ASSUME NEW r \in Runner, CampaignGood(r), Call(r) \/ Step(r) \/ CrashCampaign(r)
  PROVE  CampaignGood(r)'
<1>1. CASE Call(r)
  <2>1. StopConfig \in BOOLEAN /\ FALSE \in BOOLEAN
    BY CampaignAssumption
  <2> QED
    BY <1>1, <2>1, RunStep, ResumeStep DEF Call
<1>2. CASE Step(r)
  BY <1>2, DefineDateStep, OpenStep, EnterStep, PassOverStep, ReviewFailedStep, SkipDateStep,
     RecoverStep, StartDayStep, JudgePausedStep, BeginLifecycleStep, SaveLifecycleStep,
     SaveOperatorRunStep, KnownErrorStep, SaveDayStep, SaveLegacyDayStep, UnexpectedErrorStep,
     FinishStep, ReviewStep, PromoteStep DEF Step
<1>3. CASE CrashCampaign(r)
  BY <1>3, CrashStep
<1> QED
  BY <1>1, <1>2, <1>3

(* One process at a time runs the campaign: the runner takes no lock.         *)
OneAtATime == \A q, r \in Runner : q = r

LEMMA CampaignStarts == CampaignInit => CampaignIInv
<1> SUFFICES ASSUME CampaignInit PROVE CampaignIInv
  OBVIOUS
<1>1. NoRecord \in RecordType /\ NoRecord.status = "NONE" /\ ~NoRecord.ran
  BY DEF NoRecord, Record, RecordType
<1>2. DOMAIN attempts = {} /\ attempts \in Seq(AttemptType)
  BY DEF CampaignInit
<1>3. [out |-> "none", reasons |-> FALSE] \in [out : {"none", "hard", "soft", "ready"}, reasons : BOOLEAN]
  OBVIOUS
<1>4. CampaignTypeOK
  BY <1>1, <1>2, <1>3, CampaignAssumption DEF CampaignInit, CampaignTypeOK, NoOp
<1>5. CampaignFacts
  BY <1>1, <1>2 DEF CampaignInit, CampaignFacts, CampaignTables, VerdictMatchesEvidence, ReadyMeansClean,
     StopsAtBlocker, RecordsStand, Stands, LegacyFollows, RunsTell, InOrder, NoOp
<1>6. process \in [Runner -> WorkType] /\ \A r \in Runner : process[r].pc = "idle"
  BY IdleTyped DEF CampaignInit
<1>7. \A r \in Runner : ProcessOK(process[r])
  BY <1>6 DEF ProcessOK, InDates, Working
<1> QED
  BY <1>4, <1>5, <1>6, <1>7 DEF CampaignIInv

LEMMA CampaignKeeps ==
  ASSUME OneAtATime, CampaignIInv, [CampaignNext]_campaignVars
  PROVE  CampaignIInv'
<1>1. \A r \in Runner : CampaignGood(r)
  BY DEF CampaignIInv, CampaignGood
<1>2. CASE \E r \in Runner : Call(r) \/ Step(r) \/ CrashCampaign(r)
  <2>1. PICK r \in Runner : Call(r) \/ Step(r) \/ CrashCampaign(r)
    BY <1>2
  <2>2. CampaignGood(r)'
    BY <1>1, <2>1, CampaignStep
  <2>3. \A q \in Runner : q = r
    BY <2>1 DEF OneAtATime
  <2> QED
    BY <2>2, <2>3 DEF CampaignGood, CampaignIInv
<1>3. CASE TogglePause \/ UNCHANGED campaignVars
  <2>1. /\ UNCHANGED <<defined, attempts, legacyDays, life, op, begun, process, crashes>>
        /\ paused' \in BOOLEAN /\ pauses' \in 0..MaxPauses
    <3>1. paused \in BOOLEAN /\ pauses \in 0..MaxPauses
      BY DEF CampaignIInv, CampaignTypeOK
    <3>2. CASE TogglePause
      <4>1. pauses' \in 0..MaxPauses
        BY <3>1, <3>2, CampaignAssumption DEF TogglePause
      <4>2. paused' \in BOOLEAN
        BY <3>2 DEF TogglePause
      <4> QED
        BY <3>2, <4>1, <4>2 DEF TogglePause
    <3>3. CASE UNCHANGED campaignVars
      BY <3>1, <3>3 DEF campaignVars
    <3> QED
      BY <1>3, <3>2, <3>3
  <2>2. CampaignTypeOK' /\ CampaignFacts'
    BY <2>1, QuietTables DEF CampaignIInv, CampaignTypeOK
  <2>3. ASSUME NEW r \in Runner PROVE CampaignGood(r)'
    BY <1>1, <2>1, <2>2, StillStep
  <2>4. process' \in [Runner -> WorkType]
    BY <2>1 DEF CampaignIInv, WorkType, InDates, Working, Day, RecordType
  <2> QED
    BY <2>2, <2>3, <2>4 DEF CampaignGood, CampaignIInv
<1> QED
  BY <1>2, <1>3 DEF CampaignNext

(* Every verdict of an attempt is earned: it agrees with the records it       *)
(* leaves, and a ready one ran clean books on the floor of dates.             *)
THEOREM VerdictsAreEarned ==
  ASSUME OneAtATime
  PROVE  CampaignSpec => []VerdictIsEarned
<1>1. CampaignInit => CampaignIInv
  BY CampaignStarts
<1>2. CampaignIInv /\ [CampaignNext]_campaignVars => CampaignIInv'
  BY CampaignKeeps
<1>3. CampaignIInv => VerdictIsEarned
  BY DEF CampaignIInv, CampaignFacts, VerdictIsEarned
<1> QED
  BY <1>1, <1>2, <1>3, PTL DEF CampaignSpec

(* An attempt skips dates only after a blocker, and a continuation that       *)
(* stops at one runs no later date.                                           *)
THEOREM BlockersAlwaysStop ==
  ASSUME OneAtATime
  PROVE  CampaignSpec => []StopsAtBlocker
<1>1. CampaignInit => CampaignIInv
  BY CampaignStarts
<1>2. CampaignIInv /\ [CampaignNext]_campaignVars => CampaignIInv'
  BY CampaignKeeps
<1>3. CampaignIInv => StopsAtBlocker
  BY DEF CampaignIInv, CampaignFacts
<1> QED
  BY <1>1, <1>2, <1>3, PTL DEF CampaignSpec

(* A completed result of a date is kept by a step.                            *)
KeepsCompleted ==
  \A d \in Day : Effective(Len(attempts))[d].status = "COMPLETED" =>
    Effective(Len(attempts))'[d] = Effective(Len(attempts))[d]

(* What an attempt has no record of, it does not change the result of.        *)
LEMMA UnrecordedSame ==
  ASSUME NEW n \in Nat, NEW d \in Day, attempts[n + 1].day[d].status = "NONE"
  PROVE  Effective(n + 1)[d] = Effective(n)[d]
<1>1. \A a : a \in 1..(n + 1) <=> a \in 1..n \/ a = n + 1
  OBVIOUS
<1>2. Told(n + 1, d) = Told(n, d) /\ Skipped(n + 1, d) = Skipped(n, d)
  BY <1>1 DEF Told, Skipped
<1>3. n + 1 \in Nat
  OBVIOUS
<1> HIDE DEF Told, Skipped
<1> QED
  BY <1>2, <1>3, EffectiveOf

LEMMA KeptKeeps ==
  ASSUME CampaignTypeOK, DaysKept, Len(attempts') = Len(attempts)
  PROVE  KeepsCompleted
<1>0. PICK n : n = Len(attempts)
  OBVIOUS
<1>1. n \in Nat /\ 1..n = DOMAIN attempts
  BY <1>0, DaysTyped
<1>2. ASSUME NEW d \in Day PROVE Effective(n)'[d] = Effective(n)[d]
  BY <1>1, EffectiveKept DEF DaysKept
<1> QED
  BY <1>0, <1>2 DEF KeepsCompleted

LEMMA QuietKeeps ==
  ASSUME CampaignTypeOK, UNCHANGED <<attempts, legacyDays>>
  PROVE  KeepsCompleted
  BY KeptKeeps DEF DaysKept

LEMMA SaveKeeps ==
  ASSUME NEW r \in Runner, CampaignGood(r), MayRecord(process[r]),
         NEW rec \in RecordType, rec.status # "NONE", SaveRecord(process[r], rec),
         UNCHANGED <<legacyDays, life, op>>
  PROVE  KeepsCompleted
<1>0. PICK w, n, x : w = process[r] /\ n = w.att /\ x = w.day
  OBVIOUS
<1>1. /\ n \in DOMAIN attempts /\ n = Len(attempts) /\ w \in WorkType /\ x \in Day
      /\ x \notin Noted(n) /\ attempts[n].day[x].status = "NONE" /\ Remembers(w)
  BY <1>0, OnTurn DEF MayRecord
<1>2. CampaignTypeOK /\ w.pc # "legacy" /\ x \notin w.own /\ w.prior[x] # "COMPLETED"
  BY <1>0 DEF CampaignGood, MayRecord
<1>3. Effective(n)[x].status # "COMPLETED"
  BY <1>0, <1>1, <1>2 DEF Remembers, Ahead
<1>4. /\ DOMAIN attempts' = DOMAIN attempts /\ Len(attempts') = Len(attempts)
      /\ \A a \in DOMAIN attempts : attempts'[a].status = attempts[a].status
      /\ \A a \in DOMAIN attempts : \A d \in Day :
              attempts'[a].day[d] = IF a = w.att /\ d = w.day THEN rec ELSE attempts[a].day[d]
  <2>1. w.att \in DOMAIN attempts /\ w.day \in Day /\ attempts[w.att].day[w.day].status = "NONE"
    BY <1>0, <1>1
  <2>2. SaveRecord(w, rec)
    BY <1>0
  <2> QED
    BY <1>1, <1>2, <2>1, <2>2, SavedDays
<1>5. OneRecord(n, x, rec)
  BY <1>0, <1>1, <1>4 DEF OneRecord
<1>6. \A d \in Day : d # x => Effective(n)'[d] = Effective(n)[d]
  BY <1>1, <1>2, <1>5, OneEffective
<1>7. \A d \in Day : Effective(n)[d].status = "COMPLETED" => Effective(n)'[d] = Effective(n)[d]
  BY <1>3, <1>6
<1> QED
  BY <1>1, <1>4, <1>7 DEF KeepsCompleted

LEMMA DateKeeps ==
  ASSUME NEW r \in Runner, CampaignGood(r), ReviewFailed(r) \/ SkipDate(r) \/ Recover(r)
  PROVE  KeepsCompleted
<1>1. AtDate(process[r]) /\ ~Passed(process[r])
  BY DEF ReviewFailed, SkipDate, Recover
<1>2. MayRecord(process[r])
  BY <1>1, AtDateIs DEF MayRecord, InDates
<1>3. CASE ReviewFailed(r)
  <2>1. Record("RECOVERY", FALSE, FALSE) \in RecordType /\ Record("RECOVERY", FALSE, FALSE).status # "NONE"
    BY PlainRecord
  <2> QED
    BY <1>2, <1>3, <2>1, SaveKeeps DEF ReviewFailed
<1>4. CASE SkipDate(r)
  <2>1. Record("SKIPPED", FALSE, FALSE) \in RecordType /\ Record("SKIPPED", FALSE, FALSE).status # "NONE"
    BY PlainRecord
  <2> QED
    BY <1>2, <1>4, <2>1, SaveKeeps DEF SkipDate
<1>5. CASE Recover(r)
  <2>1. FromOp(process[r]) \in RecordType /\ FromOp(process[r]).status # "NONE"
    BY DEF FromOp, Record, RecordType
  <2>2. FromLife(process[r]) \in RecordType /\ FromLife(process[r]).status # "NONE"
    BY DEF FromLife, Record, RecordType
  <2>3. PICK rec : /\ rec \in RecordType /\ rec.status # "NONE" /\ SaveRecord(process[r], rec)
    BY <1>5, <2>1, <2>2 DEF Recover
  <2> QED
    BY <1>2, <1>5, <2>3, SaveKeeps DEF Recover
<1> QED
  BY <1>3, <1>4, <1>5

LEMMA SaveDayKeeps ==
  ASSUME NEW r \in Runner, CampaignGood(r), SaveDay(r)
  PROVE  KeepsCompleted
<1>1. process[r] \in WorkType /\ process[r].pc = "save" /\ AtWork(process[r])
  BY AtWorkIs DEF SaveDay, Working
<1>2. MayRecord(process[r]) /\ process[r].res \in RecordType /\ process[r].res.status # "NONE"
  BY <1>1 DEF AtWork, MayRecord, InDates, Working, WorkType
<1> QED
  BY <1>2, SaveKeeps DEF SaveDay

LEMMA LegacyKeeps ==
  ASSUME NEW r \in Runner, CampaignGood(r), SaveLegacyDay(r)
  PROVE  KeepsCompleted
<1>0. PICK w, x, rec : w = process[r] /\ x = w.day /\ rec = w.res
  OBVIOUS
<1>1. w \in WorkType /\ w.pc = "legacy" /\ x \in Day /\ AtWork(w) /\ Attempting(w)
  BY <1>0, AtWorkIs DEF SaveLegacyDay, Working
<1>2. attempts' = attempts /\ Len(attempts) = 1
  BY <1>1 DEF SaveLegacyDay, AtWork, Attempting
<1>3. legacyDays \in [Day -> RecordType]
  BY DEF CampaignGood, CampaignTypeOK
<1>4. \A d \in Day : d # x \/ legacyDays[d].status # "NONE" => legacyDays'[d] = legacyDays[d]
  BY <1>0, <1>1, <1>3 DEF SaveLegacyDay
<1>5. ASSUME NEW d \in Day, Effective(1)[d].status = "COMPLETED"
      PROVE  Effective(1)'[d] = Effective(1)[d]
  <2>1. CASE d # x \/ legacyDays[d].status # "NONE"
    BY <1>2, <1>4, <2>1, EffectiveKept
  <2>2. CASE d = x /\ legacyDays[d].status = "NONE"
    <3>1. Told(1, d) # {}
      BY <1>5, <2>2, EffectiveOf DEF Record, NoRecord
    <3>2. Effective(1)[d] = attempts[Last(Told(1, d))].day[d]
      BY <3>1, EffectiveOf
    <3>3. Told(1, d)' = Told(1, d)
      BY <1>2 DEF Told
    <3>4. Effective(1)'[d] = attempts'[Last(Told(1, d))].day[d]
      BY <3>1, <3>3, <1>2 DEF Effective, Told, Last, Day
    <3> QED
      BY <1>2, <3>2, <3>4
  <2> QED
    BY <2>1, <2>2
<1> QED
  BY <1>2, <1>5 DEF KeepsCompleted

LEMMA RowKeeps ==
  ASSUME NEW r \in Runner, CampaignGood(r), UnexpectedError(r) \/ Finish(r) \/ Promote(r)
  PROVE  KeepsCompleted
<1>1. PICK n, new : attempts' = [attempts EXCEPT ![n] = new] /\ new.day = attempts[n].day
  <2>1. CASE Promote(r)
    <3> DEFINE n == process[r].att
               new == [attempts[n] EXCEPT !.status = Promoted(@)]
    <3>0. process[r].pc = "promote" /\ ProcessOK(process[r])
      BY <2>1 DEF CampaignGood, Promote
    <3>1. n \in DOMAIN attempts
      BY <3>0 DEF ProcessOK, Reviewing
    <3>2. attempts[n] \in AttemptType
      BY <3>1, DaysTyped DEF CampaignGood
    <3>3. new.day = attempts[n].day
      BY <3>2 DEF AttemptType
    <3>4. attempts' = [attempts EXCEPT ![n] = new]
      BY <2>1 DEF Promote
    <3> QED
      BY <3>3, <3>4
  <2>2. CASE UnexpectedError(r) \/ Finish(r)
    <3>1. PICK n, status, first : n = process[r].att /\ Finalize(n, status, first)
      BY <2>2 DEF UnexpectedError, Finish
    <3>2. Attempting(process[r])
      BY <2>2 DEF CampaignGood, ProcessOK, InDates, Working, UnexpectedError, Finish
    <3>3. n \in DOMAIN attempts /\ attempts[n].status = "RUNNING" /\ attempts[n] \in AttemptType
      BY <3>1, <3>2, DaysTyped DEF Attempting, CampaignGood
    <3> DEFINE new == [attempts[n] EXCEPT !.status = status, !.first = first]
    <3>4. new.day = attempts[n].day
      BY <3>3 DEF AttemptType
    <3>5. attempts' = [attempts EXCEPT ![n] = new]
      BY <3>1, <3>3 DEF Finalize
    <3> QED
      BY <3>4, <3>5
  <2> QED
    BY <2>1, <2>2
<1>2. attempts \in Seq(AttemptType) /\ CampaignTypeOK
  BY DEF CampaignGood, CampaignTypeOK
<1>3. DOMAIN attempts' = DOMAIN attempts /\ \A a \in DOMAIN attempts : attempts'[a].day = attempts[a].day
  BY <1>1, <1>2
<1>4. legacyDays' = legacyDays
  BY DEF UnexpectedError, Finish, Promote
<1>5. Len(attempts') = Len(attempts)
  BY <1>1, <1>2
<1>6. DaysKept
  BY <1>3, <1>4 DEF DaysKept
<1> QED
  BY <1>2, <1>5, <1>6, KeptKeeps

LEMMA OpenKeeps ==
  ASSUME NEW r \in Runner, CampaignGood(r), Open(r)
  PROVE  KeepsCompleted
<1>1. CampaignTypeOK /\ attempts \in Seq(AttemptType)
  BY DEF CampaignGood, CampaignTypeOK
<1>2. CASE UNCHANGED attempts
  BY <1>1, <1>2, QuietKeeps DEF Open
<1>3. ASSUME NEW new, attempts' = Append(attempts, new), new.day = [d \in Day |-> NoRecord]
      PROVE  KeepsCompleted
  <2>0. PICK n : n = Len(attempts)
    OBVIOUS
  <2>1. /\ n \in Nat /\ Len(attempts') = n + 1 /\ attempts'[n + 1] = new
        /\ \A a \in 1..n : attempts'[a] = attempts[a]
    BY <1>1, <1>3, <2>0
  <2>2. ASSUME NEW d \in Day PROVE Effective(n + 1)'[d] = Effective(n)[d]
    <3>1. attempts'[n + 1].day[d].status = "NONE"
      BY <1>3, <2>1 DEF NoRecord, Record
    <3>2. Told(n + 1, d)' = Told(n, d) /\ Skipped(n + 1, d)' = Skipped(n, d)
      <4>1. \A a : a \in 1..(n + 1) <=> a \in 1..n \/ a = n + 1
        BY <2>1
      <4> QED
        BY <2>1, <3>1, <4>1 DEF Told, Skipped
    <3>3. legacyDays' = legacyDays
      BY DEF Open
    <3>4. Told(n, d) # {} => Last(Told(n, d)) \in 1..n
      BY <2>1, LastTold DEF Told
    <3>5. Last(Told(n + 1, d))' = Last(Told(n, d))
      BY <3>2 DEF Last
    <3>6. Effective(n + 1)'[d] =
           IF Told(n + 1, d)' # {} THEN attempts'[Last(Told(n + 1, d))'].day[d]
           ELSE IF legacyDays'[d].status # "NONE" THEN legacyDays'[d]
           ELSE IF Skipped(n + 1, d)' # {} THEN Record("SKIPPED", FALSE, FALSE) ELSE NoRecord
      BY DEF Effective, Told, Skipped, Last, Day
    <3> HIDE DEF Told, Skipped, Last
    <3> QED
      BY <2>1, <3>2, <3>3, <3>4, <3>5, <3>6, EffectiveOf
  <2>3. ASSUME NEW d \in Day PROVE Effective(Len(attempts))'[d] = Effective(n + 1)'[d]
    BY <2>1
  <2> QED
    BY <2>0, <2>2, <2>3 DEF KeepsCompleted
<1>4. UNCHANGED attempts \/ \E new : attempts' = Append(attempts, new) /\ new.day = [d \in Day |-> NoRecord]
  BY DEF Open
<1> QED
  BY <1>2, <1>3, <1>4

LEMMA StepKeeps ==
  ASSUME CampaignIInv, [CampaignNext]_campaignVars
  PROVE  KeepsCompleted
<1>1. CampaignTypeOK /\ \A r \in Runner : CampaignGood(r)
  BY DEF CampaignIInv, CampaignGood
<1>2. ASSUME NEW r \in Runner, Call(r) \/ Step(r) \/ CrashCampaign(r) PROVE KeepsCompleted
  <2>1. CASE Call(r) \/ CrashCampaign(r)
    <3>1. UNCHANGED <<attempts, legacyDays>>
      BY <2>1 DEF Call, Run, Resume, CrashCampaign
    <3> QED
      BY <1>1, <3>1, QuietKeeps
  <2>2. CASE \/ DefineDate(r) \/ EnterAttempt(r) \/ PassOver(r) \/ StartDay(r) \/ JudgePaused(r)
             \/ BeginLifecycle(r) \/ SaveLifecycle(r) \/ SaveOperatorRun(r) \/ KnownError(r) \/ Review(r)
    <3>1. UNCHANGED <<attempts, legacyDays>>
      BY <2>2 DEF DefineDate, EnterAttempt, PassOver, StartDay, JudgePaused, BeginLifecycle,
         SaveLifecycle, SaveOperatorRun, KnownError, Review
    <3> QED
      BY <1>1, <3>1, QuietKeeps
  <2>3. CASE Open(r)
    BY <1>1, <2>3, OpenKeeps
  <2>4. CASE ReviewFailed(r) \/ SkipDate(r) \/ Recover(r)
    BY <1>1, <2>4, DateKeeps
  <2>5. CASE SaveDay(r)
    BY <1>1, <2>5, SaveDayKeeps
  <2>6. CASE SaveLegacyDay(r)
    BY <1>1, <2>6, LegacyKeeps
  <2>7. CASE UnexpectedError(r) \/ Finish(r) \/ Promote(r)
    BY <1>1, <2>7, RowKeeps
  <2> QED
    BY <1>2, <2>1, <2>2, <2>3, <2>4, <2>5, <2>6, <2>7 DEF Step
<1>3. CASE TogglePause \/ UNCHANGED campaignVars
  BY <1>1, <1>3, QuietKeeps DEF TogglePause, campaignVars
<1> QED
  BY <1>2, <1>3 DEF CampaignNext

(* A date whose books have run and that is run again was left for it.         *)
LEMMA RepeatsReviewed ==
  ASSUME CampaignIInv, NEW r \in Runner, process[r].pc = "life", life[process[r].day] # "none"
  PROVE  /\ process[r].att > 1
         /\ Effective(process[r].att - 1)[process[r].day].status \in {"BLOCKED", "SKIPPED", "RECOVERY"}
<1>0. PICK w, n, x : w = process[r] /\ n = w.att /\ x = w.day
  OBVIOUS
<1>1. CampaignGood(r)
  BY DEF CampaignIInv, CampaignGood
<1>2. AtWork(w) /\ w.pc = "life"
  BY <1>0, <1>1, AtWorkIs DEF Working
<1>3. /\ x \in w.dates /\ x \notin w.own /\ w.prior[x] # "COMPLETED" /\ w.prior[x] # "FAILED"
      /\ Said(x)
  BY <1>0, <1>2 DEF AtWork
<1>4. /\ n \in DOMAIN attempts /\ n = Len(attempts) /\ x \in Day /\ Remembers(w)
      /\ attempts[n].day[x].status = "NONE"
  BY <1>0, <1>1, <1>2, <1>3, OnTurn DEF InDates, Working
<1>5. CampaignTypeOK /\ LegacyFollows
  BY DEF CampaignIInv, CampaignFacts, CampaignTables
<1>6. DOMAIN attempts = 1..n /\ n \in Nat
  BY <1>4, <1>5, DaysTyped
<1>7. PICK a \in 1..n : attempts[a].day[x].status # "NONE"
  BY <1>3, <1>6 DEF Said
<1>8. a # n /\ n > 1 /\ n - 1 \in Nat /\ n - 1 \in 0..n /\ (n - 1) + 1 = n
  BY <1>4, <1>6, <1>7
<1>9. w.prior[x] = Effective(n)[x].status
  BY <1>0, <1>2, <1>3, <1>4 DEF Remembers, Ahead
<1>10. Effective(n)[x].status # "NONE"
  BY <1>3, <1>4, <1>5, EffectiveNone
<1>11. Effective((n - 1) + 1)[x] = Effective(n - 1)[x]
  <2>1. PICK m \in Nat : m = n - 1
    BY <1>8
  <2>2. attempts[m + 1].day[x].status = "NONE"
    BY <1>4, <1>8, <2>1
  <2>3. Effective(m + 1)[x] = Effective(m)[x]
    BY <1>4, <2>2, UnrecordedSame
  <2> QED
    BY <2>1, <2>3
<1>12. Effective(n - 1)[x] \in RecordType
  BY <1>4, <1>5, <1>8, EffectiveTyped
<1>13. Effective(n - 1)[x].status \notin {"NONE", "COMPLETED", "FAILED"}
  BY <1>3, <1>8, <1>9, <1>10, <1>11
<1>14. Effective(n - 1)[x].status \in {"BLOCKED", "SKIPPED", "RECOVERY"}
  BY <1>12, <1>13 DEF RecordType
<1> QED
  BY <1>0, <1>8, <1>14

(* Neither a date's mutation nor its completed result is done over, unless a  *)
(* review left the date to a later attempt.                                   *)
THEOREM NothingIsDoneOver ==
  ASSUME OneAtATime
  PROVE  CampaignSpec => NothingDoneOver
<1> DEFINE Reviewed == \A r \in Runner :
             LET d == process[r].day IN
             process[r].pc = "life" /\ process'[r].pc = "books" /\ life[d] # "none" =>
               /\ process[r].att > 1
               /\ Effective(process[r].att - 1)[d].status \in {"BLOCKED", "SKIPPED", "RECOVERY"}
<1>1. CampaignInit => CampaignIInv
  BY CampaignStarts
<1>2. CampaignIInv /\ [CampaignNext]_campaignVars => CampaignIInv'
  BY CampaignKeeps
<1>3. CampaignIInv /\ [CampaignNext]_campaignVars => KeepsCompleted
  BY StepKeeps
<1>4. CampaignIInv => Reviewed
  BY RepeatsReviewed
<1>5. CampaignSpec => [][KeepsCompleted]_campaignVars /\ [][Reviewed]_campaignVars
  <2> HIDE DEF Reviewed
  <2> QED
    BY <1>1, <1>2, <1>3, <1>4, PTL DEF CampaignSpec
<1>6. [][KeepsCompleted]_campaignVars /\ [][Reviewed]_campaignVars => NothingDoneOver
  BY DEF NothingDoneOver, RepeatNeedsReview, CompletedKept, KeepsCompleted
<1> QED
  BY <1>5, <1>6
=============================================================================
