------------------------------- MODULE ErCoap -------------------------------
(***************************************************************************)
(* The CoAP engine of the sensor node (contiki/apps/er-coap-13): its pool  *)
(* of transactions, its pool of observers, the event timers that drive     *)
(* retransmission, and coap_receive().                                     *)
(*                                                                         *)
(* Contiki schedules processes cooperatively: a handler runs to its end    *)
(* before the next event is taken.  Every action below is a whole handler, *)
(* except the two loops that touch every element of a list, which are one  *)
(* step per iteration (check_cursor, notify_cursor): while a loop runs no  *)
(* other action is enabled.                                                *)
(*                                                                         *)
(* The pools and lists are those of Pools.  Message ids start at 1 and     *)
(* stop at MaxMid, so the wrap of the 16-bit counter is out of the model.  *)
(***************************************************************************)
EXTENDS Integers, Sequences, FiniteSets, Pools

CONSTANTS
  Clients,                     \* endpoints: an address and a port
  Urls,                        \* the observable resources
  EventUrls,                   \* those that notify with CON (event resources)
  COAP_MAX_OPEN_TRANSACTIONS,
  COAP_MAX_OBSERVERS,
  COAP_MAX_RETRANSMIT,
  PROCESS_CONF_NUMEVENTS,      \* length of the kernel's event queue
  MaxMid                       \* bound: message ids the node may draw

ASSUME ErCoapAssumption ==
  /\ EventUrls \subseteq Urls
  /\ COAP_MAX_OPEN_TRANSACTIONS \in Nat \ {0}
  /\ COAP_MAX_OBSERVERS \in Nat \ {0}
  /\ COAP_MAX_RETRANSMIT \in Nat \ {0}
  /\ PROCESS_CONF_NUMEVENTS \in Nat \ {0}
  /\ MaxMid \in Nat

VARIABLES
  current_mid,        \* the last message id drawn
  trans,              \* transactions_memb with the contents of its blocks
  transactions_list,
  armed,              \* the blocks whose retrans_timer is running
  transaction,        \* the static pointer of coap_receive()
  obs,                \* observers_memb with the contents of its blocks
  observers_list,
  timer_events,       \* PROCESS_EVENT_TIMERs queued for coap_receiver
  check_cursor,       \* where coap_check_transactions() stands, 0: not running
  notify_cursor,      \* where coap_notify_observers() stands, per resource
  sent                \* every notification ever handed to the network

transVars  == <<trans, transactions_list, armed>>
obsVars    == <<obs, observers_list>>
cursorVars == <<check_cursor, notify_cursor>>
vars == <<current_mid, transVars, transaction, obsVars, timer_events,
          cursorVars, sent>>

TransactionSlot == 1..COAP_MAX_OPEN_TRANSACTIONS
ObserverSlot    == 1..COAP_MAX_OBSERVERS

Transaction  == [mid : 1..MaxMid, client : Clients,
                 retrans : 0..(COAP_MAX_RETRANSMIT - 1)]
Observer     == [client : Clients, url : Urls, last_mid : 0..MaxMid]
Notification == [mid : 1..MaxMid, client : Clients, url : Urls, con : BOOLEAN]

\* Mutants: an observer found whatever its address or its last message id.
ObserversOfAnyone(c)       == DOMAIN obs
ObserversAnyMid(c, m)      == {o \in DOMAIN obs : obs[o].client = c}

\* What the loops of coap_remove_observer_by_client(), _by_url() and _by_mid()
\* look for.  list_remove() clears obs->next, the pointer these loops advance
\* by, so they remove the first match only (FirstMatch).
ObserversOf(c)          == {o \in DOMAIN obs : obs[o].client = c}
ObserversOfUrl(c, u)    == {o \in ObserversOf(c) : obs[o].url = u}
ObserversLastMid(c, m)  == {o \in ObserversOf(c) : obs[o].last_mid = m}

\* Mutant: the id of the reply is not looked at.
OpenWithAnyMid(m) == DOMAIN trans

\* What coap_get_transaction_by_mid() looks for: the address is not compared.
OpenWithMid(m) == {s \in DOMAIN trans : trans[s].mid = m}

Idle == check_cursor = 0 /\ \A u \in Urls : notify_cursor[u] = 0

\* obs = obs->next, t = t->next
Advance(i, list) == IF i < Len(list) THEN i + 1 ELSE 0

Init ==
  /\ current_mid = 0
  /\ trans = << >>
  /\ transactions_list = << >>
  /\ armed = {}
  /\ transaction = NULL
  /\ obs = << >>
  /\ observers_list = << >>
  /\ timer_events = 0
  /\ check_cursor = 0
  /\ notify_cursor = [u \in Urls |-> 0]
  /\ sent = {}

-----------------------------------------------------------------------------
(***************************************************************************)
(* Transactions.                                                           *)
(***************************************************************************)

\* Mutants: the timer left running, or the block never given back.
ClearWithTimerRunning(s) ==
  /\ transactions_list' = list_remove(transactions_list, s)
  /\ trans' = memb_free(trans, s)
  /\ UNCHANGED armed

ClearWithoutFree(s) ==
  /\ armed' = armed \ {s}
  /\ transactions_list' = list_remove(transactions_list, s)
  /\ UNCHANGED trans

\* coap_clear_transaction()
coap_clear_transaction(s) ==
  /\ armed' = armed \ {s}
  /\ transactions_list' = list_remove(transactions_list, s)
  /\ trans' = memb_free(trans, s)

\* A transaction that carries anything but a CON is freed by the call of
\* coap_send_transaction() that follows coap_new_transaction() in the same
\* handler.  What is left is the timer of a block that had been free.
TransientTransaction(s) ==
  /\ armed' = armed \ {s}
  /\ UNCHANGED <<trans, transactions_list>>

\* coap_new_transaction() and coap_send_transaction() for a CON notification.
OpenTransaction(s, mid, c) ==
  /\ trans' = Filled(trans, s, [mid |-> mid, client |-> c, retrans |-> 0])
  /\ transactions_list' = Append(transactions_list, s)
  /\ armed' = armed \cup {s}

\* coap_remove_observer(), for the slot FirstMatch found.
RemoveObserver(o) ==
  /\ observers_list' = list_remove(observers_list, o)
  /\ obs' = memb_free(obs, o)

\* Mutant: one retransmission too many.
MayRetransmitOnceMore(n) == n <= COAP_MAX_RETRANSMIT

MayRetransmit(n) == n < COAP_MAX_RETRANSMIT

\* Mutant: the timer leaves the list even if its event finds no room.
EtimerExpiresUnnoticed(s) ==
  /\ Idle
  /\ s \in armed
  /\ armed' = armed \ {s}
  /\ timer_events' = IF timer_events < PROCESS_CONF_NUMEVENTS
                     THEN timer_events + 1 ELSE timer_events
  /\ UNCHANGED <<current_mid, trans, transactions_list, transaction, obsVars,
                 cursorVars, sent>>

\* etimer_process posts the event of an expired retrans_timer.  A full event
\* queue leaves the timer on its list, to be tried again.
EtimerExpires(s) ==
  /\ Idle
  /\ s \in armed
  /\ timer_events < PROCESS_CONF_NUMEVENTS
  /\ armed' = armed \ {s}
  /\ timer_events' = timer_events + 1
  /\ UNCHANGED <<current_mid, trans, transactions_list, transaction, obsVars,
                 cursorVars, sent>>

\* coap_receiver takes a PROCESS_EVENT_TIMER and enters
\* coap_check_transactions().
CheckTransactions ==
  /\ Idle
  /\ timer_events > 0
  /\ timer_events' = timer_events - 1
  /\ check_cursor' = Advance(0, transactions_list)
  /\ UNCHANGED <<current_mid, transVars, transaction, obsVars, notify_cursor,
                 sent>>

\* One iteration of coap_check_transactions(): an expired transaction is sent
\* again, or has timed out, which also ends the loop (t->next was cleared).
CheckTransaction ==
  /\ check_cursor > 0
  /\ LET s == transactions_list[check_cursor]
         n == trans[s].retrans + 1
     IN  \/ /\ s \in armed
            /\ check_cursor' = Advance(check_cursor, transactions_list)
            /\ UNCHANGED <<transVars, obsVars>>
         \/ /\ s \notin armed
            /\ MayRetransmit(n)
            /\ trans' = [trans EXCEPT ![s].retrans = n]
            /\ armed' = armed \cup {s}
            /\ check_cursor' = Advance(check_cursor, transactions_list)
            /\ UNCHANGED <<transactions_list, obsVars>>
         \/ /\ s \notin armed
            /\ ~MayRetransmit(n)
            /\ RemoveObserver(FirstMatch(observers_list,
                                         ObserversOf(trans[s].client)))
            /\ coap_clear_transaction(s)
            /\ check_cursor' = 0
  /\ UNCHANGED <<current_mid, transaction, timer_events, notify_cursor, sent>>

-----------------------------------------------------------------------------
(***************************************************************************)
(* Observers.                                                              *)
(***************************************************************************)

\* Mutant: the relation the client already has is not replaced.
AddAnotherObserver(c, u) ==
  LET new == memb_alloc(ObserverSlot, DOMAIN obs)
  IN  IF new = NULL
      THEN UNCHANGED obsVars
      ELSE /\ obs' = Filled(obs, new, [client |-> c, url |-> u, last_mid |-> 0])
           /\ observers_list' = Append(observers_list, new)

\* coap_add_observer()
coap_add_observer(c, u) ==
  LET old  == FirstMatch(observers_list, ObserversOfUrl(c, u))
      pool == memb_free(obs, old)
      list == list_remove(observers_list, old)
      new  == memb_alloc(ObserverSlot, DOMAIN pool)
  IN  IF new = NULL
      THEN obs' = pool /\ observers_list' = list
      ELSE /\ obs' = Filled(pool, new, [client |-> c, url |-> u, last_mid |-> 0])
           /\ observers_list' = Append(list, new)

\* A resource has something to tell: its periodic or event handler enters
\* coap_notify_observers().
NotifyObservers(u) ==
  /\ Idle
  /\ observers_list # << >>
  /\ current_mid + Len(observers_list) <= MaxMid
  /\ notify_cursor' = [notify_cursor EXCEPT ![u] = 1]
  /\ UNCHANGED <<current_mid, transVars, transaction, obsVars, timer_events,
                 check_cursor, sent>>

\* One iteration of coap_notify_observers().  refresh is stimer_expired(): the
\* notification of a resource that prefers NON goes out as CON when 60 s have
\* passed since the last one that did.  Without a free transaction the id is
\* drawn and the observer is left out.
NotifyObserver(u, refresh) ==
  /\ notify_cursor[u] > 0
  /\ LET o   == observers_list[notify_cursor[u]]
         mid == current_mid + 1
         s   == memb_alloc(TransactionSlot, DOMAIN trans)
         con == refresh \/ u \in EventUrls
     IN  \/ /\ obs[o].url # u
            /\ UNCHANGED <<current_mid, transVars, obs, sent>>
         \/ /\ obs[o].url = u
            /\ s = NULL
            /\ current_mid' = mid
            /\ UNCHANGED <<transVars, obs, sent>>
         \/ /\ obs[o].url = u
            /\ s # NULL
            /\ current_mid' = mid
            /\ obs' = [obs EXCEPT ![o].last_mid = mid]
            /\ sent' = sent \cup {[mid |-> mid, client |-> obs[o].client,
                                   url |-> u, con |-> con]}
            /\ IF con THEN OpenTransaction(s, mid, obs[o].client)
                      ELSE TransientTransaction(s)
  /\ notify_cursor' =
       [notify_cursor EXCEPT ![u] = Advance(@, observers_list)]
  /\ UNCHANGED <<transaction, observers_list, timer_events, check_cursor>>

-----------------------------------------------------------------------------
(***************************************************************************)
(* coap_receive().                                                         *)
(***************************************************************************)

\* coap_observe_handler(), which acts on a GET that its resource answered without
\* an error code (ok).
coap_observe_handler(c, u, observe, ok) ==
  \/ /\ ok /\ observe
     /\ coap_add_observer(c, u)
  \/ /\ ok /\ ~observe
     /\ RemoveObserver(FirstMatch(observers_list, ObserversOfUrl(c, u)))
  \/ /\ ~ok
     /\ UNCHANGED obsVars

\* A request for u, with or without the Observe option (whatever its value).
\* con: it is confirmable, and its id answers it; a NON answer draws its own.
ReceiveRequest(c, u, observe, ok, con) ==
  LET s == memb_alloc(TransactionSlot, DOMAIN trans)
  IN  /\ Idle
      /\ con \/ current_mid < MaxMid
      /\ transaction' = s
      /\ \/ /\ s = NULL                              \* 5.03 NoFreeTraBuffer
            /\ UNCHANGED <<current_mid, transVars, obsVars>>
         \/ /\ s # NULL
            /\ TransientTransaction(s)
            /\ current_mid' = IF con THEN current_mid ELSE current_mid + 1
            /\ coap_observe_handler(c, u, observe, ok)
      /\ UNCHANGED <<timer_events, cursorVars, sent>>

\* An empty ACK or RST that answers notification m.  It may come late, or
\* twice, or not at all.
ReceiveReply(m, rst) ==
  /\ Idle
  /\ rst \/ m.con
  /\ IF rst
     THEN RemoveObserver(FirstMatch(observers_list,
                                    ObserversLastMid(m.client, m.mid)))
     ELSE UNCHANGED obsVars
  /\ coap_clear_transaction(FirstMatch(transactions_list, OpenWithMid(m.mid)))
  /\ transaction' = NULL
  /\ UNCHANGED <<current_mid, timer_events, cursorVars, sent>>

\* A datagram that coap_parse_message() answers with an error, as it does for a
\* critical option it does not know.  The static pointer still holds what the
\* last datagram left there.
ReceiveRejected ==
  /\ Idle
  /\ coap_clear_transaction(transaction)
  /\ UNCHANGED <<current_mid, transaction, obsVars, timer_events, cursorVars,
                 sent>>

-----------------------------------------------------------------------------

Next ==
  \/ \E s \in TransactionSlot : EtimerExpires(s)
  \/ CheckTransactions
  \/ CheckTransaction
  \/ \E u \in Urls : NotifyObservers(u)
  \/ \E u \in Urls, refresh \in BOOLEAN : NotifyObserver(u, refresh)
  \/ \E c \in Clients, u \in Urls, observe, ok, con \in BOOLEAN :
       ReceiveRequest(c, u, observe, ok, con)
  \/ \E m \in sent, rst \in BOOLEAN : ReceiveReply(m, rst)
  \/ ReceiveRejected

Spec == Init /\ [][Next]_vars

\* The clock runs, the kernel polls etimer_process before every event and serves
\* its queue in order, and a handler that runs ends.  A running handler disables
\* the other two, hence strong fairness.  Clients and resources owe nothing.
Fairness ==
  /\ \A s \in TransactionSlot : SF_vars(EtimerExpires(s))
  /\ SF_vars(CheckTransactions)
  /\ WF_vars(CheckTransaction)
  /\ \A u \in Urls : WF_vars(\E refresh \in BOOLEAN : NotifyObserver(u, refresh))

FairSpec == Spec /\ Fairness

-----------------------------------------------------------------------------
(***************************************************************************)
(* Properties.                                                             *)
(***************************************************************************)

TypeOK ==
  /\ current_mid \in 0..MaxMid
  /\ DOMAIN trans \subseteq TransactionSlot
  /\ trans \in [DOMAIN trans -> Transaction]
  /\ transactions_list \in Seq(TransactionSlot)
  /\ armed \subseteq TransactionSlot
  /\ transaction \in TransactionSlot \cup {NULL}
  /\ DOMAIN obs \subseteq ObserverSlot
  /\ obs \in [DOMAIN obs -> Observer]
  /\ observers_list \in Seq(ObserverSlot)
  /\ timer_events \in 0..PROCESS_CONF_NUMEVENTS
  /\ check_cursor \in 0..Len(transactions_list)
  /\ notify_cursor \in [Urls -> 0..Len(observers_list)]
  /\ sent \subseteq Notification

\* The blocks on a list are exactly the allocated blocks of its pool, each once:
\* no block leaks, none is on a list or has its timer running once it is free,
\* though coap_receive() may free a block it no longer owns.
PoolsMatchLists ==
  /\ IsInjective(transactions_list)
  /\ ToSet(transactions_list) = DOMAIN trans
  /\ armed \subseteq DOMAIN trans
  /\ IsInjective(observers_list)
  /\ ToSet(observers_list) = DOMAIN obs

\* Every open transaction whose timer has expired has a timer event to come
\* that will reach it.  coap_check_transactions() stops at the first
\* transaction it frees, so one event does not always serve all that expired.
NoStrandedTransaction ==
  Idle => Cardinality(DOMAIN trans \ armed) <= timer_events

\* A client observes a resource at most once, however often it registers.
OneRelationPerUrl ==
  \A o, p \in DOMAIN obs :
    obs[o].client = obs[p].client /\ obs[o].url = obs[p].url => o = p

\* A late or repeated answer finds only what it answers: coap_receive() looks a
\* transaction up by its message id alone, and an observer by its last one, yet
\* no transaction and no relation but those of the notification are touched.
ReplyIsSelective ==
  [][\A m \in sent, rst \in BOOLEAN : ReceiveReply(m, rst) =>
       /\ \A s \in DOMAIN trans \ DOMAIN trans' : trans[s].client = m.client
       /\ \A o \in DOMAIN obs \ DOMAIN obs' :
            obs[o].client = m.client /\ obs[o].url = m.url]_vars

\* Every open transaction is closed in the end, whatever the clients do.
TransactionsEnd ==
  \A m \in 1..MaxMid : OpenWithMid(m) # {} ~> OpenWithMid(m) = {}

\* A CON notification stays stored for retransmission until its client answers
\* or COAP_MAX_RETRANSMIT retransmissions went out.
StoredUntilAnswered ==
  [][\A s \in DOMAIN trans \ DOMAIN trans' :
       \/ \E m \in sent, rst \in BOOLEAN :
             m.mid = trans[s].mid /\ ReceiveReply(m, rst)
       \/ trans[s].retrans + 1 = COAP_MAX_RETRANSMIT /\ CheckTransaction]_vars

\* A client whose CON notification timed out is no longer an observer.
TimedOutClientForgotten ==
  [][\A s \in DOMAIN trans : check_cursor > 0 /\ s \notin DOMAIN trans' =>
       \A o \in DOMAIN obs' : obs'[o].client # trans[s].client]_vars

\* The engine keeps the node's promise to its observers: ObserveServer, with
\* the relations and the awaited answers read off the two pools.
Promise == INSTANCE ObserveServer WITH
  Capacity  <- COAP_MAX_OBSERVERS,
  relations <- {<<obs[o].client, obs[o].url>> : o \in DOMAIN obs},
  awaiting  <- {trans[s].mid : s \in DOMAIN trans}

KeepsPromise == Promise!Spec

\* StoredUntilAnswered but for datagrams that are rejected: nothing else frees the
\* transaction of a CON notification than an answer with its message id and the
\* timeout after its last retransmission.
StoredUnlessRejected ==
  [][ReceiveRejected \/ \A s \in DOMAIN trans \ DOMAIN trans' :
       \/ \E m \in sent, rst \in BOOLEAN :
            m.mid = trans[s].mid /\ ReceiveReply(m, rst)
       \/ trans[s].retrans + 1 = COAP_MAX_RETRANSMIT /\ CheckTransaction]_vars
=============================================================================
