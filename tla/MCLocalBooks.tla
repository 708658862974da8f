----------------------------- MODULE MCLocalBooks -----------------------------
(* The two paths that book fills into a local ledger, the simulator of a paper *)
(* book and the credentialed order with the runtime client it goes through.    *)
(* Nothing is shared between them: the initial state picks a scene, and the    *)
(* scene restricts which steps are taken, so that each hazard has a small      *)
(* instance of its own.                                                        *)
EXTENDS LocalExecution, ProcessClient, CredentialedOrder

CONSTANTS b1, b2, s1

(* buys:   two services and two purchases that together exceed the cash, with  *)
(*         everything else the simulator can do to them;                       *)
(* sells:  two services, two sales of one share and a purchase, none of them   *)
(*         submitted again and no external broker;                             *)
(* alone:  one service at a time, which reserves for every intent it creates;  *)
(* client: the runtime client and its children;                                *)
(* order:  one order, a command that submits it and one that polls.            *)
VARIABLE scene

Offered == [buys |-> Buys, sells |-> {b1} \cup Sells, alone |-> {b1, b2, s1}]

Allowed ==
  /\ \A c \in Calls : call'[c].intent \in Offered[scene] \cup {None}
  /\ \A i \in Intents \ Offered[scene] : claim'[i] = "NONE"
  /\ scene # "buys" =>
       /\ \A i \in Intents : claim'[i] # "EXTERNAL_PAPER"
       /\ \A c \in Calls : /\ call'[c].pc # "enqueue"
                           /\ call'[c].pc = "taken" => status[call'[c].intent] \in {"NONE", Pending}
  /\ scene = "alone" => WorksAlone

MCInit ==
  /\ Init /\ ClientInit /\ OrderInit
  /\ scene \in DOMAIN Offered \cup {"client", "order"}
  /\ scene # "order" => \A n \in Funds : n <= funds

MCNext ==
  /\ UNCHANGED scene
  /\ \/ scene \in DOMAIN Offered /\ Next /\ Allowed /\ UNCHANGED <<clientVars, orderVars>>
     \/ scene = "client" /\ ClientNext /\ UNCHANGED <<vars, orderVars>>
     \/ scene = "order" /\ OrderNext /\ UNCHANGED <<vars, clientVars>>

MCSpec == MCInit /\ [][MCNext]_<<vars, clientVars, orderVars, scene>>
MCFairSpec == MCSpec /\ OrderFairness

\* ReleasedOnce is about a service that works alone.
ReleasedOnceAlone == scene = "alone" => ReleasedOnce
=============================================================================
