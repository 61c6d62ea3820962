--------------------------- MODULE ObserveServer ---------------------------
(***************************************************************************)
(* What the sensor node promises the clients that observe its resources,   *)
(* without the pools, lists, timers and message layer of ErCoap.           *)
(*                                                                         *)
(* A client has at most one relation with a resource and only a client     *)
(* that has one is notified.  A relation ends when the client ends or      *)
(* resets it, or when the client left a confirmable notification           *)
(* unanswered.                                                             *)
(***************************************************************************)
EXTENDS Integers, FiniteSets

CONSTANTS
  Clients, Urls,
  Capacity,         \* relations the node can hold
  MaxMid            \* bound: notifications the node can send

VARIABLES
  relations,        \* who observes what
  sent,             \* the notifications sent so far
  awaiting          \* ids of those whose answer is awaited

obsServerVars == <<relations, sent, awaiting>>

Mids(notifications) == {m.mid : m \in notifications}

Init == relations = {} /\ sent = {} /\ awaiting = {}

Register(c, u) ==
  /\ relations' = relations \cup {<<c, u>>}
  /\ Cardinality(relations') <= Capacity
  /\ UNCHANGED <<sent, awaiting>>

Deregister(c, u) ==
  /\ relations' = relations \ {<<c, u>>}
  /\ UNCHANGED <<sent, awaiting>>

\* Ids are fresh; a confirmable notification is awaited from now on.
Notify(c, u, mid, con) ==
  /\ <<c, u>> \in relations
  /\ mid \notin Mids(sent)
  /\ sent' = sent \cup {[mid |-> mid, client |-> c, url |-> u, con |-> con]}
  /\ awaiting' = IF con THEN awaiting \cup {mid} ELSE awaiting
  /\ UNCHANGED relations

Acknowledge(m) ==
  /\ m.con
  /\ awaiting' = awaiting \ {m.mid}
  /\ UNCHANGED <<relations, sent>>

\* A reset ends the relation the notification belonged to, unless the client
\* was notified or registered again in the meantime.
Reset(m) ==
  /\ awaiting' = awaiting \ {m.mid}
  /\ relations' \in {relations, relations \ {<<m.client, m.url>>}}
  /\ UNCHANGED sent

\* No answer came: the node forgets the notification and one relation of the
\* client, if it has any left.
GiveUp(m) ==
  /\ m.mid \in awaiting
  /\ awaiting' = awaiting \ {m.mid}
  /\ LET ofClient == {r \in relations : r[1] = m.client}
     IN  IF ofClient = {}
         THEN relations' = relations
         ELSE \E r \in ofClient : relations' = relations \ {r}
  /\ UNCHANGED sent

\* The node may stop waiting for an answer without a reason its clients see.
Forget(m) ==
  /\ m.mid \in awaiting
  /\ awaiting' = awaiting \ {m.mid}
  /\ UNCHANGED <<relations, sent>>

Resolve(m) == Acknowledge(m) \/ Reset(m) \/ GiveUp(m) \/ Forget(m)

Next ==
  \/ \E c \in Clients, u \in Urls : Register(c, u) \/ Deregister(c, u)
  \/ \E c \in Clients, u \in Urls, mid \in 1..MaxMid, con \in BOOLEAN :
       Notify(c, u, mid, con)
  \/ \E m \in sent : Resolve(m)

Spec == Init /\ [][Next]_obsServerVars
=============================================================================
