---------------------------- MODULE FencedLease ----------------------------
(***************************************************************************)
(* What the order-scope lease promises to the operations that write under  *)
(* it, with no clock, no expiry and no database row: every grant carries a *)
(* fresh token, only the latest grant can write, and each write records    *)
(* the token it was made under.                                            *)
(***************************************************************************)
EXTENDS Naturals, Sequences

CONSTANTS
    Calls,      \* the operations that may be granted the lease
    NoCall      \* nobody holds the lease

VARIABLES
    holder,     \* the call the lease is granted to, or NoCall
    token,      \* number of grants so far: the token of the latest one
    log         \* the token of each protected write, in order

vars == <<holder, token, log>>

TypeOK ==
    /\ holder \in Calls \cup {NoCall}
    /\ token \in Nat
    /\ log \in Seq(Nat)

Init ==
    /\ holder = NoCall
    /\ token = 0
    /\ log = <<>>

\* The lease is granted to c, taking it from whoever had it.
Grant(c) ==
    /\ holder' = c
    /\ token' = token + 1
    /\ UNCHANGED log

\* The holder writes under its token.
Write ==
    /\ holder \in Calls
    /\ log' = Append(log, token)
    /\ UNCHANGED <<holder, token>>

\* The holder gives the lease back.
Return ==
    /\ holder \in Calls
    /\ holder' = NoCall
    /\ UNCHANGED <<token, log>>

Next ==
    \/ \E c \in Calls : Grant(c)
    \/ Write
    \/ Return

Spec == Init /\ [][Next]_vars
=============================================================================
