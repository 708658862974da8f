---------------------------- MODULE ResearchTokens ----------------------------
(* The daily token budget of the research provider: one reservation row per   *)
(* role, attempt and UTC date of one research run (strategies/                *)
(* research_budget.py), and the operation that reserves, claims, calls the    *)
(* provider and resolves (research/token_budget.py, invoke) as several        *)
(* workers run it, with claims that expire, crashes, and an operator who      *)
(* reconciles what is ambiguous.  Each database transaction is one step.      *)
EXTENDS Integers, FiniteSets, Functions

CONSTANTS
  Worker,      \* processes that analyse the run's snapshot
  NoWorker,    \* the claim owner of a row that was never claimed
  Role,        \* the roles of the committee
  MaxAttempt,  \* max_attempts_per_role
  Cap,         \* daily_token_cap
  Request,     \* the worst-case tokens a request reserves
  Usage,       \* the tokens an answer may report
  Lease,       \* claim_lease_seconds
  DayLength,   \* clock units of a UTC date
  MaxTime      \* bound on the clock

ASSUME TokenAssumption ==
  /\ NoWorker \notin Worker
  /\ IsFiniteSet(Role)
  /\ {MaxAttempt, Lease, DayLength} \subseteq Nat \ {0}
  /\ {Cap, Request, MaxTime} \cup Usage \subseteq Nat

VARIABLES
  now,        \* the clock
  row,        \* shadow_budget_reservations, by idempotency key
  call,       \* the invocation each worker is in
  sent,       \* history: the keys whose request has reached the provider
  byHand,     \* history: the keys an operator released
  straddled   \* history: a worker took a reservation, or a role's attempts, over midnight

tokenVars == <<now, row, call, sent, byHand, straddled>>

Attempt == 1..MaxAttempt
Date == 0..(MaxTime \div DayLength)
Key == Role \X Attempt \X Date
Today == now \div DayLength

NoRow == [status |-> "NONE", owner |-> NoWorker, until |-> 0, used |-> 0]
NoCall == [pc |-> "idle", key |-> <<>>, last |-> 0, outcome |-> "none"]

Live == {"RESERVED", "IN_FLIGHT", "SETTLED", "AMBIGUOUS"}
Unresolved == {"IN_FLIGHT", "AMBIGUOUS"}

TokenInit ==
  /\ now = 0
  /\ row = [k \in Key |-> NoRow]
  /\ call = [w \in Worker |-> NoCall]
  /\ sent = {} /\ byHand = {} /\ straddled = FALSE

-----------------------------------------------------------------------------
(* Reading the rows.                                                          *)

OfRole(role) == {k \in Key : k[1] = role}
OfDate(date) == {k \in Key : k[3] = date}

Counted(k) == IF row[k].status = "SETTLED" THEN row[k].used ELSE Request

LiveTokens(date) ==
  SumFunctionOnSet([k \in Key |-> Counted(k)], {k \in OfDate(date) : row[k].status \in Live})

Breached(date) == \E k \in OfDate(date) : row[k].status = "SETTLED" /\ row[k].used > Request

Expired(k) == row[k].status = "IN_FLIGHT" /\ row[k].until < now

(* The rows after the expired claims among keys are given up as ambiguous.    *)
Recovered(keys) ==
  [k \in Key |-> IF k \in keys /\ Expired(k) THEN [row[k] EXCEPT !.status = "AMBIGUOUS"] ELSE row[k]]

-----------------------------------------------------------------------------
(* One invocation.                                                            *)

(* What a worker asks for: an attempt of a role, with the date of the one     *)
(* before it.                                                                 *)
Asks(w, role, attempt, last) ==
  call' = [call EXCEPT ![w] = [NoCall EXCEPT !.pc = "reserve", !.key = <<role, attempt>>, !.last = last]]

Ends(w, outcome) == call' = [call EXCEPT ![w].pc = "done", ![w].outcome = outcome]

MutRefused(key, rows) ==
  \/ \E k \in OfRole(key[1]) : rows[k].status \in Unresolved
  \/ Breached(key[3])
  \/ LiveTokens(key[3]) > Cap

(* What a new reservation must not find: another attempt of the role whose    *)
(* outcome is unknown, a breach of the date, or too little left of its cap.   *)
Refused(key, rows) ==
  \/ \E k \in OfRole(key[1]) : rows[k].status \in Unresolved
  \/ Breached(key[3])
  \/ Request > Cap - LiveTokens(key[3])

(* reserve_research_tokens: an existing row is reused, whatever the others    *)
(* say, but only a RESERVED one leads on, and only for the prompt that it was *)
(* reserved for: a repair prompt follows the failures before it, the          *)
(* manager's the reports.                                                     *)
Reserve(w) ==
  LET asked == call[w].key
      key == <<asked[1], asked[2], Today>>
      known == row[key].status # "NONE"
      rows == Recovered(OfRole(key[1]))
  IN
  /\ call[w].pc = "reserve"
  /\ \/ /\ known /\ row[key].status = "RESERVED"
        /\ call' = [call EXCEPT ![w].pc = "claim", ![w].key = key]
        /\ UNCHANGED row
     \/ /\ known
        /\ Ends(w, "unavailable")
        /\ UNCHANGED row
     \/ /\ ~known /\ Refused(key, rows)
        /\ row' = rows
        /\ Ends(w, "unavailable")
     \/ /\ ~known /\ ~Refused(key, rows)
        /\ row' = [rows EXCEPT ![key].status = "RESERVED"]
        /\ call' = [call EXCEPT ![w].pc = "claim", ![w].key = key]
  /\ straddled' = (straddled \/ call[w].last # Today)
  /\ UNCHANGED <<now, sent, byHand>>

MutMayClaim(w) == row[call[w].key].status # "IN_FLIGHT"

(* claim_research_token_attempt: only a reserved row is claimed, by whoever   *)
(* is first.                                                                  *)
MayClaim(w) == row[call[w].key].status = "RESERVED"

Claim(w) ==
  LET key == call[w].key IN
  /\ call[w].pc = "claim"
  /\ \/ /\ MayClaim(w)
        /\ row' = [row EXCEPT ![key].status = "IN_FLIGHT", ![key].owner = w, ![key].until = now + Lease]
        /\ call' = [call EXCEPT ![w].pc = "calling"]
        /\ straddled' = (straddled \/ key[3] # Today)
     \/ /\ ~MayClaim(w)
        /\ Ends(w, "unavailable")
        /\ UNCHANGED <<row, straddled>>
  /\ UNCHANGED <<now, sent, byHand>>

(* The request reaches the provider.                                          *)
Transmit(w) ==
  /\ call[w].pc = "calling"
  /\ call' = [call EXCEPT ![w].pc = "waiting"]
  /\ sent' = sent \cup {call[w].key}
  /\ UNCHANGED <<now, row, byHand, straddled>>

(* _transition_reservation, fenced by the claim: it takes effect while the    *)
(* row is IN_FLIGHT under this claim, is passed over when somebody else has   *)
(* brought the row to the same end, and raises TokenBudgetError otherwise.    *)
Holds(w) == row[call[w].key].status = "IN_FLIGHT" /\ row[call[w].key].owner = w

Resolve(w, status, used, outcome) ==
  LET key == call[w].key IN
  /\ \/ /\ Holds(w)
        /\ row' = [row EXCEPT ![key].status = status, ![key].used = used]
        /\ Ends(w, outcome)
     \/ /\ ~Holds(w) /\ UNCHANGED row
        /\ IF row[key].status = status /\ row[key].used = used
           THEN Ends(w, outcome) ELSE Ends(w, "raised")
  /\ UNCHANGED <<now, sent, byHand, straddled>>

(* The answer reports its usage: settle_research_tokens.                      *)
Answered(w) ==
  /\ call[w].pc = "waiting"
  /\ \E used \in Usage : Resolve(w, "SETTLED", used, "answered")

(* Nothing, no usage or an error came back: mark_research_tokens_ambiguous.   *)
Unclear(w) ==
  /\ call[w].pc = "waiting"
  /\ \E outcome \in {"retryable", "unavailable", "raised"} : Resolve(w, "AMBIGUOUS", 0, outcome)

(* ProviderUnavailableError, before the request was sent or, for an adapter   *)
(* whose child process exits with an error, after: release_research_tokens.   *)
Unavailable(w) ==
  /\ call[w].pc \in {"calling", "waiting"}
  /\ Resolve(w, "RELEASED", 0, "unavailable")

-----------------------------------------------------------------------------
(* Operators and time.                                                        *)

(* The command recover-expired-token-claims.                                  *)
Recover ==
  /\ \E k \in Key : Expired(k)
  /\ row' = Recovered(Key)
  /\ UNCHANGED <<now, call, sent, byHand, straddled>>

(* reconcile_ambiguous_research_tokens, with the usage an operator found or   *)
(* as a release.                                                              *)
Reconcile(k) ==
  /\ row[k].status = "AMBIGUOUS"
  /\ \/ /\ \E used \in Usage :
             row' = [row EXCEPT ![k].status = "SETTLED", ![k].used = used]
        /\ UNCHANGED byHand
     \/ /\ row' = [row EXCEPT ![k].status = "RELEASED"]
        /\ byHand' = byHand \cup {k}
  /\ UNCHANGED <<now, call, sent, straddled>>

Tick ==
  /\ now < MaxTime
  /\ now' = now + 1
  /\ UNCHANGED <<row, call, sent, byHand, straddled>>

TokenNext ==
  \/ \E w \in Worker :
       \/ Reserve(w) \/ Claim(w) \/ Transmit(w)
       \/ Answered(w) \/ Unclear(w) \/ Unavailable(w)
  \/ Recover
  \/ \E k \in Key : Reconcile(k)
  \/ Tick

-----------------------------------------------------------------------------
(* Properties.                                                                *)

TokenTypeOK ==
  /\ now \in 0..MaxTime /\ straddled \in BOOLEAN
  /\ sent \subseteq Key /\ byHand \subseteq Key
  /\ \A k \in Key :
       /\ row[k].status \in Live \cup {"NONE", "RELEASED"}
       /\ row[k].owner \in Worker \cup {NoWorker}
       /\ row[k].until \in 0..(MaxTime + Lease) /\ row[k].used \in Usage \cup {0}
  /\ \A w \in Worker :
       /\ call[w].pc \in {"idle", "reserve", "claim", "calling", "waiting", "done"}
       /\ call[w].outcome \in {"none", "answered", "retryable", "unavailable", "raised"}

(* A role's call of which nobody knows the outcome yet.                       *)
Blind(key) == \E k \in OfRole(key[1]) \ {key} : k \in sent /\ row[k].status \in Unresolved

(* The provider is not asked again for what it may have done already          *)
(* (claim_research_token_attempt, reserve_research_tokens): no request is     *)
(* sent twice under one reservation, by any number of workers, crashes and    *)
(* reruns; and while the outcome of a role's call is unknown, no worker that  *)
(* still holds its claim calls for that role under another attempt or date,   *)
(* unless a worker took its attempts of a role, or a reservation that it had  *)
(* not yet claimed, over midnight.                                            *)
NotAskedAgain ==
  [][\A w \in Worker :
       call[w].pc = "calling" /\ call'[w].pc = "waiting" =>
         /\ call[w].key \notin sent
         /\ ~straddled /\ Holds(w) => ~Blind(call[w].key)]_tokenVars

(* What is held and what was used of a date stay within its cap, until an     *)
(* answer uses more than its request reserved.                                *)
CapKept == \A date \in Date : Breached(date) \/ LiveTokens(date) <= Cap

(* The docstring of release_research_tokens: a claim is released "only when   *)
(* the provider adapter proves the request was never transmitted".            *)
ReleasedNeverSent == \A k \in sent : row[k].status = "RELEASED" => k \in byHand

(* The comment of reserve_research_tokens: "an unresolved attempt anywhere    *)
(* in this role's provider work must block every further attempt for it".     *)
UnresolvedBlocks ==
  [][\A w \in Worker :
       call[w].pc = "calling" /\ call'[w].pc = "waiting" /\ Holds(w) =>
         ~Blind(call[w].key)]_tokenVars
=============================================================================
