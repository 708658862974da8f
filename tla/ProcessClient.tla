----------------------------- MODULE ProcessClient -----------------------------
(* The client of the paper runtime (runtime/client/process_client.py,         *)
(* RuntimeClient) and the child processes it starts one after another.  A     *)
(* request is a line on the child's stdin and its answer a line on stdout,    *)
(* which the client matches by request id only after it has taken the line.   *)
(* One thread uses a client; a child works its requests off in their order    *)
(* (paper_runtime/src/trading_paper_runtime/main.py, run).                    *)
EXTENDS Naturals, Sequences

CONSTANTS
  MaxStarts,    \* bound: child processes
  MaxRequests   \* bound: request lines written

ASSUME ClientAssumption == MaxStarts \in Nat \ {0} /\ MaxRequests \in Nat

VARIABLES
  transport,  \* the child the client talks to, 0 before the first start()
  unhealthy,  \* _unhealthy
  api,        \* the operation the caller is in, and how far it has come
  requests,   \* the request ids given out so far
  alive,      \* the children whose process runs
  inbox,      \* the requests a child has not answered
  outbox,     \* the lines of a child that were not taken
  verified    \* history: the last child for which start() succeeded

clientVars == <<transport, unhealthy, api, requests, alive, inbox, outbox, verified>>

Child == 1..MaxStarts
RequestId == 1..MaxRequests
Garbled == 0                       \* the id of a line that is no answer at all
Answer == [id : {Garbled} \cup RequestId, success : BOOLEAN]
Read == "read"                     \* an operation of _RETRYABLE_ON_TIMEOUT
Mutate == "mutate"                 \* submission and cancellation

NotWaiting == 0
NoApi == [op |-> "none", stage |-> "idle", waits |-> NotWaiting]

ClientTypeOK ==
  /\ transport \in {0} \cup Child
  /\ unhealthy \in BOOLEAN
  /\ api \in [op : {"none", "start", Read, Mutate},
              stage : {"idle", "health", "capabilities", "op"},
              waits : {NotWaiting} \cup RequestId]
  /\ requests \in 0..MaxRequests
  /\ alive \in SUBSET Child
  /\ inbox \in [Child -> Seq(RequestId)]
  /\ outbox \in [Child -> Seq(Answer)]
  /\ verified \in {0} \cup Child

ClientInit ==
  /\ transport = 0 /\ unhealthy = FALSE
  /\ api = NoApi
  /\ requests = 0
  /\ alive = {}
  /\ inbox = [i \in Child |-> <<>>]
  /\ outbox = [i \in Child |-> <<>>]
  /\ verified = 0

-----------------------------------------------------------------------------
(* The operations of the client.                                              *)

Awaiting == api.waits # NotWaiting

(* start(): a new child, whose health and capabilities are asked for first.   *)
(* It may be called on behalf of an operation.                                *)
Launch(op) ==
  /\ transport < MaxStarts
  /\ transport' = transport + 1
  /\ unhealthy' = FALSE
  /\ alive' = alive \cup {transport + 1}
  /\ api' = [op |-> op, stage |-> "health", waits |-> NotWaiting]
  /\ UNCHANGED <<requests, inbox, outbox, verified>>

(* A command starts its client once.                                          *)
Start == transport = 0 /\ Launch("start")

(* After a timeout a read restarts on a clean child; a mutation is refused.   *)
(* Commands go no further when their own start() fails.                       *)
Request(op) ==
  /\ api = NoApi /\ verified # 0
  /\ \/ /\ ~unhealthy
        /\ api' = [op |-> op, stage |-> "op", waits |-> NotWaiting]
        /\ UNCHANGED <<transport, unhealthy, requests, alive, inbox, outbox, verified>>
     \/ unhealthy /\ op = Read /\ Launch(op)

(* The request line, if the child is running.                                 *)
Send ==
  /\ api # NoApi /\ ~Awaiting
  /\ \/ /\ transport \in alive
        /\ requests < MaxRequests
        /\ requests' = requests + 1
        /\ inbox' = [inbox EXCEPT ![transport] = Append(@, requests + 1)]
        /\ api' = [api EXCEPT !.waits = requests + 1]
     \/ /\ transport \notin alive
        /\ api' = NoApi
        /\ UNCHANGED <<requests, inbox>>
  /\ UNCHANGED <<transport, unhealthy, alive, outbox, verified>>

MutGiveUp == api' = NoApi /\ UNCHANGED <<unhealthy, alive, inbox>>

(* _mark_unhealthy_after_timeout: the child is terminated and its transport   *)
(* never used again; the call raises.                                         *)
GiveUp ==
  /\ api' = NoApi
  /\ unhealthy' = TRUE
  /\ alive' = alive \ {transport}
  /\ inbox' = [inbox EXCEPT ![transport] = <<>>]

Timeout ==
  /\ Awaiting /\ outbox[transport] = <<>>
  /\ GiveUp
  /\ UNCHANGED <<transport, requests, outbox, verified>>

(* The child exited: the call raises, and the transport stays as it is.       *)
EndOfFile ==
  /\ Awaiting /\ outbox[transport] = <<>> /\ transport \notin alive
  /\ api' = NoApi
  /\ UNCHANGED <<transport, unhealthy, requests, alive, inbox, outbox, verified>>

(* What follows a good answer.                                                *)
Advance ==
  IF api.stage = "health" THEN [api EXCEPT !.stage = "capabilities", !.waits = NotWaiting]
  ELSE IF api.stage = "capabilities" /\ api.op # "start"
       THEN [api EXCEPT !.stage = "op", !.waits = NotWaiting]
       ELSE NoApi

(* The next line of the child: taken, then matched with the request, then     *)
(* checked.  A refused health or capability check raises like any error.      *)
Receive ==
  /\ Awaiting /\ outbox[transport] # <<>>
  /\ outbox' = [outbox EXCEPT ![transport] = Tail(@)]
  /\ LET line == Head(outbox[transport]) IN
     \/ line.id # api.waits /\ GiveUp /\ UNCHANGED verified
     \/ /\ line.id = api.waits
        /\ api' = IF line.success THEN Advance ELSE NoApi
        /\ verified' = IF line.success /\ api.stage = "capabilities" THEN transport ELSE verified
        /\ UNCHANGED <<unhealthy, alive, inbox>>
  /\ UNCHANGED <<transport, requests>>

-----------------------------------------------------------------------------
(* The child.                                                                 *)

(* One response per request; the write may be cut off or overlaid.            *)
Respond(i) ==
  /\ i \in alive /\ inbox[i] # <<>>
  /\ inbox' = [inbox EXCEPT ![i] = Tail(@)]
  /\ \E id \in {Head(inbox[i]), Garbled}, success \in BOOLEAN :
       outbox' = [outbox EXCEPT ![i] = Append(@, [id |-> id, success |-> success])]
  /\ UNCHANGED <<transport, unhealthy, api, requests, alive, verified>>

Exit(i) ==
  /\ i \in alive
  /\ alive' = alive \ {i}
  /\ inbox' = [inbox EXCEPT ![i] = <<>>]
  /\ UNCHANGED <<transport, unhealthy, api, requests, outbox, verified>>

ClientStep ==
  \/ Start \/ \E op \in {Read, Mutate} : Request(op)
  \/ Send \/ Timeout \/ EndOfFile \/ Receive

ClientNext == ClientStep \/ \E i \in Child : Respond(i) \/ Exit(i)

ClientSpec == ClientInit /\ [][ClientNext]_clientVars

-----------------------------------------------------------------------------
(* Properties.                                                                *)

(* A request never finds the answer to an earlier one: whatever was late when *)
(* the client gave up, the next line on the transport in use answers the      *)
(* request that is waiting, or nothing (_mark_unhealthy_after_timeout).       *)
NoStaleAnswer ==
  Awaiting /\ outbox[transport] # <<>> =>
    Head(outbox[transport]).id \in {api.waits, Garbled}

(* "start() must succeed (...) before any other operation is attempted": not  *)
(* so after a read restarted the child and the capability check refused it.   *)
UsedOnlyVerified == Awaiting /\ api.stage = "op" => verified = transport
=============================================================================
