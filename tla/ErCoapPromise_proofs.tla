------------------------- MODULE ErCoapPromise_proofs -------------------------
(***************************************************************************)
(* The engine keeps the node's promise (ErCoap implements ObserveServer),  *)
(* and answers touch what they answer only, for every value of the         *)
(* constants.                                                              *)
(*                                                                         *)
(* coap_receive() finds transactions and observers by message id.  What    *)
(* makes that enough is Linked: no id is drawn twice, so the notification  *)
(* a block's id stands for is unique, and block and notification agree on  *)
(* client and resource.                                                    *)
(***************************************************************************)
EXTENDS ErCoap_proofs

\* Ids are drawn once.
SentLinked ==
  /\ \A m, n \in sent : m.mid = n.mid => m = n
  /\ \A m \in sent : m.mid <= current_mid

\* A transaction has the id and the client of a notification that was sent.
TransLinked ==
  /\ \A s, t \in DOMAIN trans : trans[s].mid = trans[t].mid => s = t
  /\ \A s \in DOMAIN trans :
       \E m \in sent : m.mid = trans[s].mid /\ m.client = trans[s].client

\* An observer has the id of the last notification that was sent to it.
ObsLinked ==
  \A o \in DOMAIN obs : obs[o].last_mid # 0 =>
    \E m \in sent : /\ m.mid = obs[o].last_mid
                    /\ m.client = obs[o].client /\ m.url = obs[o].url

Linked == SentLinked /\ TransLinked /\ ObsLinked

-----------------------------------------------------------------------------
(***************************************************************************)
(* Linked is invariant.                                                    *)
(***************************************************************************)

LEMMA SentLinkedKept ==
  ASSUME SentLinked, UNCHANGED sent, current_mid \in Nat, current_mid' \in Nat,
         current_mid <= current_mid', sent \subseteq Notification
  PROVE  SentLinked'
BY ErCoapAssumption DEF SentLinked, Notification

\* No transaction is opened.
LEMMA TransLinkedKept ==
  ASSUME TransLinked, sent \subseteq sent', DOMAIN trans' \subseteq DOMAIN trans,
         \A s \in DOMAIN trans' : /\ trans'[s].mid = trans[s].mid
                                  /\ trans'[s].client = trans[s].client
  PROVE  TransLinked'
BY DEF TransLinked

\* No observer is notified.
LEMMA ObsLinkedKept ==
  ASSUME ObsLinked, sent \subseteq sent',
         \A o \in DOMAIN obs' : obs'[o].last_mid = 0 \/ (o \in DOMAIN obs /\ obs'[o] = obs[o])
  PROVE  ObsLinked'
BY DEF ObsLinked

LEMMA CheckTransactionLinked ==
  ASSUME IInv, Linked, CheckTransaction
  PROVE  Linked'
<1> DEFINE s == transactions_list[check_cursor]
           n == trans[s].retrans + 1
<1>1. s \in DOMAIN trans /\ trans[s] \in Transaction
  BY CheckedIsOpen DEF CheckTransaction
<1>2. UNCHANGED <<sent, current_mid>> /\ SentLinked'
  BY DEF CheckTransaction, Linked, SentLinked
<1>3. CASE UNCHANGED trans /\ UNCHANGED obs
  BY <1>2, <1>3, TransLinkedKept, ObsLinkedKept DEF Linked
<1>4. CASE trans' = [trans EXCEPT ![s].retrans = n] /\ UNCHANGED obs
  <2>1. /\ DOMAIN trans' = DOMAIN trans
        /\ \A x \in DOMAIN trans : /\ trans'[x].mid = trans[x].mid
                                   /\ trans'[x].client = trans[x].client
    BY <1>1, <1>4 DEF Transaction, IInv, TransOK
  <2>. QED
    BY <1>2, <1>4, <2>1, TransLinkedKept, ObsLinkedKept DEF Linked
<1>5. CASE \E o : RemoveObserver(o) /\ coap_clear_transaction(s)
  BY <1>2, <1>5, ClearTransaction, RemovedObserver, TransLinkedKept, ObsLinkedKept
     DEF Linked, IInv
<1>. QED
  BY <1>3, <1>4, <1>5 DEF CheckTransaction, transVars, obsVars

LEMMA NotifyObserverLinked ==
  ASSUME IInv, Linked, NEW u \in Urls, NEW refresh \in BOOLEAN, NotifyObserver(u, refresh)
  PROVE  Linked'
<1> DEFINE o   == observers_list[notify_cursor[u]]
           mid == current_mid + 1
           s   == memb_alloc(TransactionSlot, DOMAIN trans)
           con == refresh \/ u \in EventUrls
           new == [mid |-> mid, client |-> obs[o].client, url |-> u, con |-> con]
<1>1. /\ o \in DOMAIN obs /\ obs[o] \in Observer /\ mid \in 1..MaxMid
      /\ obs \in [DOMAIN obs -> Observer]
  BY NotifiedIsRegistered DEF NotifyObserver, IInv, ObsOK
<1>2. current_mid \in Nat /\ sent \subseteq Notification
  BY ErCoapAssumption DEF IInv, MidsOK, RestOK
<1>3. s # NULL => s \in TransactionSlot /\ s \notin DOMAIN trans
  BY MembAlloc, ErCoapAssumption DEF TransactionSlot
<1>4. CASE UNCHANGED <<transVars, obs, sent>> /\ current_mid' \in {current_mid, mid}
  <2>1. current_mid' \in Nat /\ current_mid <= current_mid'
    BY <1>2, <1>4
  <2>2. SentLinked'
    BY <1>2, <1>4, <2>1, SentLinkedKept DEF Linked
  <2>. QED
    BY <1>4, <2>2, TransLinkedKept, ObsLinkedKept DEF Linked, transVars
<1>5. CASE /\ obs[o].url = u /\ s # NULL
           /\ current_mid' = mid
           /\ obs' = [obs EXCEPT ![o].last_mid = mid]
           /\ sent' = sent \cup {new}
           /\ IF con THEN OpenTransaction(s, mid, obs[o].client)
                     ELSE TransientTransaction(s)
  <2>1. \A m \in sent : m.mid \in Nat /\ m.mid # mid
    BY <1>2, ErCoapAssumption DEF Linked, SentLinked, Notification
  <2>2. /\ new.mid = mid /\ new.client = obs[o].client /\ new.url = u
        /\ new \in sent' /\ sent \subseteq sent'
        /\ \A m \in sent' : m \in sent \/ m = new
    BY <1>5
  <2>3. obs[o].client \in Clients
    BY <1>1 DEF Observer
  <2>4. /\ DOMAIN obs' = DOMAIN obs
        /\ \A x \in DOMAIN obs \ {o} : obs'[x] = obs[x]
        /\ obs'[o].last_mid = mid
        /\ obs'[o].client = obs[o].client /\ obs'[o].url = obs[o].url
    BY <1>1, <1>5 DEF Observer
  <2>. HIDE DEF new, o
  <2>5. SentLinked'
    BY <1>2, <1>5, <2>1, <2>2 DEF Linked, SentLinked
  <2>6. TransLinked'
    <3>1. CASE con
      <4>1. OpenTransaction(s, mid, obs[o].client)
        BY <1>5, <3>1
      <4>. HIDE DEF mid, s
      <4>2. /\ DOMAIN trans' = DOMAIN trans \cup {s}
            /\ trans'[s] = [mid |-> mid, client |-> obs[o].client, retrans |-> 0]
            /\ \A x \in DOMAIN trans : trans'[x] = trans[x]
        BY <1>1, <1>3, <1>5, <2>3, <4>1, OpenedTransaction DEF IInv
      <4>3. trans'[s].mid = mid /\ trans'[s].client = obs[o].client
        BY <4>2
      <4>4. \A x \in DOMAIN trans : trans[x].mid # mid
        BY <2>1 DEF Linked, TransLinked
      <4>. QED
        BY <1>3, <1>5, <2>2, <4>2, <4>3, <4>4 DEF Linked, TransLinked
    <3>2. CASE ~con
      BY <1>5, <2>2, <3>2, TransLinkedKept DEF Linked, TransientTransaction
    <3>. QED
      BY <3>1, <3>2
  <2>7. ObsLinked'
    BY <1>5, <2>2, <2>4 DEF Linked, ObsLinked
  <2>. QED
    BY <2>5, <2>6, <2>7 DEF Linked
<1>. QED
  BY <1>4, <1>5 DEF NotifyObserver

\* A registration begins without a last notification.
LEMMA AddedIsUnnotified ==
  ASSUME ObsOK, NEW c \in Clients, NEW u \in Urls, coap_add_observer(c, u)
  PROVE  \A o \in DOMAIN obs' : obs'[o].last_mid = 0 \/ (o \in DOMAIN obs /\ obs'[o] = obs[o])
<1> DEFINE old == FirstMatch(observers_list, ObserversOfUrl(c, u))
<1>1. /\ \A x \in DOMAIN obs \ {old} : x \in DOMAIN obs' /\ obs'[x] = obs[x]
      /\ \A x \in DOMAIN obs' :
           \/ x \in DOMAIN obs \ {old}
           \/ obs'[x] = [client |-> c, url |-> u, last_mid |-> 0]
  BY AddedObserver
<1>. HIDE DEF old
<1>. QED
  BY <1>1

LEMMA ReceiveRequestLinked ==
  ASSUME IInv, Linked, NEW c \in Clients, NEW u \in Urls,
         NEW observe \in BOOLEAN, NEW ok \in BOOLEAN, NEW con \in BOOLEAN,
         ReceiveRequest(c, u, observe, ok, con)
  PROVE  Linked'
<1>1. UNCHANGED <<sent, trans>>
  BY DEF ReceiveRequest, TransientTransaction, transVars
<1>2. /\ current_mid \in Nat /\ current_mid' \in {current_mid, current_mid + 1}
      /\ sent \subseteq Notification
  BY ErCoapAssumption DEF IInv, MidsOK, RestOK, ReceiveRequest
<1>3. current_mid' \in Nat /\ current_mid <= current_mid'
  BY <1>2
<1>4. SentLinked' /\ TransLinked'
  BY <1>1, <1>2, <1>3, SentLinkedKept, TransLinkedKept DEF Linked
<1>5. \/ UNCHANGED obsVars
      \/ coap_add_observer(c, u)
      \/ RemoveObserver(FirstMatch(observers_list, ObserversOfUrl(c, u)))
  BY DEF ReceiveRequest, coap_observe_handler
<1>6. ObsLinked'
  BY <1>1, <1>5, AddedIsUnnotified, RemovedObserver, ObsLinkedKept DEF Linked, IInv, obsVars
<1>. QED
  BY <1>4, <1>6 DEF Linked

LEMMA ReceiveReplyLinked ==
  ASSUME IInv, Linked, NEW m \in sent, NEW rst \in BOOLEAN, ReceiveReply(m, rst)
  PROVE  Linked'
<1>1. UNCHANGED <<sent, current_mid>> /\ SentLinked'
  BY DEF ReceiveReply, Linked, SentLinked
<1>2. TransLinked'
  BY <1>1, ClearTransaction, TransLinkedKept DEF ReceiveReply, Linked, IInv
<1>3. ObsLinked'
  BY <1>1, RemovedObserver, ObsLinkedKept DEF ReceiveReply, Linked, IInv, obsVars
<1>. QED
  BY <1>1, <1>2, <1>3 DEF Linked

LEMMA NextLinked == Linked /\ IInv /\ [Next]_vars => Linked'
<1> SUFFICES ASSUME Linked, IInv, [Next]_vars
             PROVE  Linked'
  OBVIOUS
<1>1. CASE UNCHANGED <<current_mid, trans, obs, sent>>
  BY <1>1 DEF Linked, SentLinked, TransLinked, ObsLinked
<1>2. CASE \/ \E s \in TransactionSlot : EtimerExpires(s)
           \/ CheckTransactions
           \/ \E u \in Urls : NotifyObservers(u)
           \/ UNCHANGED vars
  BY <1>1, <1>2 DEF EtimerExpires, CheckTransactions, NotifyObservers, vars,
                    transVars, obsVars
<1>3. CASE CheckTransaction
  BY <1>3, CheckTransactionLinked
<1>4. CASE \E u \in Urls, refresh \in BOOLEAN : NotifyObserver(u, refresh)
  BY <1>4, NotifyObserverLinked
<1>5. CASE \E c \in Clients, u \in Urls, observe, ok, con \in BOOLEAN :
             ReceiveRequest(c, u, observe, ok, con)
  BY <1>5, ReceiveRequestLinked
<1>6. CASE \E m \in sent, rst \in BOOLEAN : ReceiveReply(m, rst)
  BY <1>6, ReceiveReplyLinked
<1>7. CASE ReceiveRejected
  <2>1. UNCHANGED <<sent, current_mid, obs>> /\ coap_clear_transaction(transaction)
    BY <1>7 DEF ReceiveRejected, obsVars
  <2>2. TransLinked'
    BY <2>1, ClearTransaction, TransLinkedKept DEF Linked, IInv
  <2>. QED
    BY <2>1, <2>2 DEF Linked, SentLinked, ObsLinked
<1>. QED
  BY <1>2, <1>3, <1>4, <1>5, <1>6, <1>7 DEF Next

LEMMA LinkedHolds == Spec => []Linked
<1>1. Init => Linked
  BY DEF Init, Linked, SentLinked, TransLinked, ObsLinked
<1>. QED
  BY <1>1, NextLinked, Invariance, PTL DEF Spec

-----------------------------------------------------------------------------
(***************************************************************************)
(* Answers.                                                                *)
(***************************************************************************)

LEMMA FoundTransaction ==
  ASSUME IInv, NEW S
  PROVE  LET s == FirstMatch(transactions_list, S)
         IN  s \in DOMAIN trans => s \in S
<1>1. NULL \notin TransactionSlot /\ transactions_list \in Seq(1..COAP_MAX_OPEN_TRANSACTIONS)
  BY ErCoapAssumption DEF IInv, TransOK, TransactionSlot, NULL
<1>. QED
  BY <1>1, FirstMatchFound, ErCoapAssumption DEF IInv, TransOK

LEMMA FoundObserver ==
  ASSUME ObsOK, NEW S \in SUBSET DOMAIN obs
  PROVE  LET o == FirstMatch(observers_list, S)
         IN  IF S = {} THEN o \notin DOMAIN obs ELSE o \in S
<1>1. NULL \notin ObserverSlot /\ observers_list \in Seq(1..COAP_MAX_OBSERVERS)
  BY ErCoapAssumption DEF ObsOK, ObserverSlot, NULL
<1>. QED
  BY <1>1, FirstMatchFound, ErCoapAssumption DEF ObsOK

\* The transaction with the id of a notification is for its client.
LEMMA AnsweredTransaction ==
  ASSUME Linked, NEW m \in sent, NEW s \in DOMAIN trans, trans[s].mid = m.mid
  PROVE  trans[s].client = m.client
BY DEF Linked, TransLinked, SentLinked

\* The observer whose last id is that of a notification is who it was sent to.
LEMMA AnsweredObserver ==
  ASSUME IInv, Linked, NEW m \in sent, NEW o \in DOMAIN obs, obs[o].last_mid = m.mid
  PROVE  obs[o].client = m.client /\ obs[o].url = m.url
<1>1. m.mid # 0
  BY ErCoapAssumption DEF IInv, RestOK, Notification
<1>. QED
  BY <1>1 DEF Linked, ObsLinked, SentLinked

\* coap_receive() looks a transaction up by its message id alone and an observer by
\* its last one; a late or repeated answer touches nevertheless no transaction of
\* another client and no relation but that of the notification it answers.
THEOREM SelectiveCorrect == Spec => ReplyIsSelective
<1>1. ASSUME IInv, Linked, NEW m \in sent, NEW rst \in BOOLEAN, ReceiveReply(m, rst)
      PROVE  /\ \A s \in DOMAIN trans \ DOMAIN trans' : trans[s].client = m.client
             /\ \A o \in DOMAIN obs \ DOMAIN obs' :
                  obs[o].client = m.client /\ obs[o].url = m.url
  <2> DEFINE t == FirstMatch(transactions_list, OpenWithMid(m.mid))
             p == FirstMatch(observers_list, ObserversLastMid(m.client, m.mid))
  <2>1. ASSUME NEW s \in DOMAIN trans \ DOMAIN trans'
        PROVE  trans[s].client = m.client
    <3>1. DOMAIN trans' = DOMAIN trans \ {t}
      BY <1>1, ClearTransaction DEF IInv, ReceiveReply
    <3>2. s \in OpenWithMid(m.mid)
      BY <1>1, <3>1, FoundTransaction
    <3>. QED
      BY <1>1, <3>2, AnsweredTransaction DEF OpenWithMid
  <2>2. ASSUME NEW o \in DOMAIN obs \ DOMAIN obs'
        PROVE  obs[o].client = m.client /\ obs[o].url = m.url
    <3>1. rst /\ RemoveObserver(p)
      BY <1>1, <2>2 DEF ReceiveReply, obsVars
    <3>2. DOMAIN obs' = DOMAIN obs \ {p}
      BY <1>1, <3>1, RemovedObserver DEF IInv
    <3>3. ObserversLastMid(m.client, m.mid) \subseteq DOMAIN obs
      BY DEF ObserversLastMid, ObserversOf
    <3>. HIDE DEF p
    <3>4. o \in ObserversLastMid(m.client, m.mid)
      BY <1>1, <2>2, <3>2, <3>3, FoundObserver DEF IInv, p
    <3>. QED
      BY <1>1, <3>4, AnsweredObserver DEF ObserversLastMid, ObserversOf
  <2>. QED
    BY <2>1, <2>2
<1>2. IInv /\ Linked /\ [Next]_vars =>
        [\A m \in sent, rst \in BOOLEAN : ReceiveReply(m, rst) =>
           /\ \A s \in DOMAIN trans \ DOMAIN trans' : trans[s].client = m.client
           /\ \A o \in DOMAIN obs \ DOMAIN obs' :
                obs[o].client = m.client /\ obs[o].url = m.url]_vars
  BY <1>1
<1>. QED
  BY <1>2, Invariance, LinkedHolds, PTL DEF Spec, ReplyIsSelective

-----------------------------------------------------------------------------
(***************************************************************************)
(* The engine implements ObserveServer.                                    *)
(***************************************************************************)

\* What the promise sees of the two pools.
Relations == {<<obs[o].client, obs[o].url>> : o \in DOMAIN obs}
Awaiting  == {trans[s].mid : s \in DOMAIN trans}

PromiseVars == <<Relations, sent, Awaiting>>

\* The node holds no more relations than it has blocks for observers.
LEMMA RelationsFit ==
  ASSUME NEW pool, DOMAIN pool \subseteq ObserverSlot
  PROVE  Cardinality({<<pool[o].client, pool[o].url>> : o \in DOMAIN pool})
           <= COAP_MAX_OBSERVERS
<1> DEFINE f == [o \in DOMAIN pool |-> <<pool[o].client, pool[o].url>>]
           R == {<<pool[o].client, pool[o].url>> : o \in DOMAIN pool}
<1>1. IsFiniteSet(ObserverSlot) /\ Cardinality(ObserverSlot) = COAP_MAX_OBSERVERS
  BY FS_Interval, ErCoapAssumption DEF ObserverSlot
<1>2. /\ IsFiniteSet(DOMAIN pool) /\ Cardinality(DOMAIN pool) <= COAP_MAX_OBSERVERS
      /\ Cardinality(DOMAIN pool) \in Nat
  BY <1>1, FS_Subset, FS_CardinalityType
<1>3. f \in Surjection(DOMAIN pool, R)
  BY DEF Surjection
<1>. HIDE DEF f, R
<1>4. IsFiniteSet(R) /\ Cardinality(R) <= Cardinality(DOMAIN pool)
  BY <1>2, <1>3, FS_Surjection
<1>5. Cardinality(R) \in Nat
  BY <1>4, FS_CardinalityType
<1>6. Cardinality(R) <= COAP_MAX_OBSERVERS
  BY <1>2, <1>4, <1>5, ErCoapAssumption
<1>. QED
  BY <1>6 DEF R

\* A transaction that is closed is no longer awaited.
LEMMA ClearedIsNotAwaited ==
  ASSUME IInv, Linked, NEW s, coap_clear_transaction(s)
  PROVE  Awaiting' = IF s \in DOMAIN trans THEN Awaiting \ {trans[s].mid} ELSE Awaiting
<1>1. /\ DOMAIN trans' = DOMAIN trans \ {s}
      /\ \A x \in DOMAIN trans \ {s} : trans'[x] = trans[x]
  BY ClearTransaction DEF IInv
<1>2. Awaiting' = {trans[x].mid : x \in DOMAIN trans \ {s}}
  BY <1>1 DEF Awaiting
<1>3. CASE s \in DOMAIN trans
  <2>1. \A x \in DOMAIN trans \ {s} : trans[x].mid # trans[s].mid
    BY <1>3 DEF Linked, TransLinked
  <2>. QED
    BY <1>2, <1>3, <2>1 DEF Awaiting
<1>4. CASE s \notin DOMAIN trans
  BY <1>2, <1>4 DEF Awaiting
<1>. QED
  BY <1>3, <1>4

\* An observer that is removed takes its relation with it.
LEMMA RemovedIsUnrelated ==
  ASSUME IInv, OneRelationPerUrl, NEW o, RemoveObserver(o)
  PROVE  Relations' = IF o \in DOMAIN obs
                      THEN Relations \ {<<obs[o].client, obs[o].url>>} ELSE Relations
<1>1. /\ DOMAIN obs' = DOMAIN obs \ {o}
      /\ \A x \in DOMAIN obs \ {o} : obs'[x] = obs[x]
  BY RemovedObserver DEF IInv
<1>2. Relations' = {<<obs[x].client, obs[x].url>> : x \in DOMAIN obs \ {o}}
  BY <1>1 DEF Relations
<1>. QED
  BY <1>2 DEF Relations, OneRelationPerUrl

LEMMA RelatedObserver ==
  ASSUME NEW o \in DOMAIN obs
  PROVE  <<obs[o].client, obs[o].url>> \in Relations
BY DEF Relations

\* A timed out transaction: the node gives up.
LEMMA CheckTransactionPromise ==
  ASSUME IInv, OneRelationPerUrl, Linked, CheckTransaction
  PROVE  UNCHANGED PromiseVars \/ \E m \in sent : Promise!GiveUp(m)
<1> DEFINE s == transactions_list[check_cursor]
           n == trans[s].retrans + 1
           c == trans[s].client
           o == FirstMatch(observers_list, ObserversOf(c))
<1>1. s \in DOMAIN trans /\ trans[s] \in Transaction
  BY CheckedIsOpen DEF CheckTransaction
<1>2. sent' = sent
  BY DEF CheckTransaction
<1>3. CASE UNCHANGED <<trans, obs>>
  BY <1>2, <1>3 DEF PromiseVars, Relations, Awaiting
<1>4. CASE trans' = [trans EXCEPT ![s].retrans = n] /\ UNCHANGED obs
  <2>1. /\ DOMAIN trans' = DOMAIN trans
        /\ \A x \in DOMAIN trans : trans'[x].mid = trans[x].mid
    BY <1>1, <1>4 DEF Transaction, IInv, TransOK
  <2>2. Awaiting' = Awaiting
    BY <2>1 DEF Awaiting
  <2>. QED
    BY <1>2, <1>4, <2>2 DEF PromiseVars, Relations
<1>5. CASE RemoveObserver(o) /\ coap_clear_transaction(s)
  <2>1. PICK m \in sent : m.mid = trans[s].mid /\ m.client = c
    BY <1>1 DEF Linked, TransLinked
  <2>2. m.mid \in Awaiting /\ Awaiting' = Awaiting \ {m.mid}
    BY <1>1, <1>5, <2>1, ClearedIsNotAwaited DEF Awaiting
  <2>3. /\ ObserversOf(c) \subseteq DOMAIN obs
        /\ \A x \in DOMAIN obs : x \in ObserversOf(c) <=> obs[x].client = c
    BY DEF ObserversOf
  <2>4. IF ObserversOf(c) = {} THEN o \notin DOMAIN obs ELSE o \in ObserversOf(c)
    BY <2>3, FoundObserver DEF IInv
  <2>5. Relations' = IF o \in DOMAIN obs
                     THEN Relations \ {<<obs[o].client, obs[o].url>>} ELSE Relations
    BY <1>5, RemovedIsUnrelated
  <2> DEFINE ofClient == {r \in Relations : r[1] = m.client}
  <2>. HIDE DEF o, s
  <2>6. IF ofClient = {} THEN Relations' = Relations
                         ELSE \E r \in ofClient : Relations' = Relations \ {r}
    <3>1. CASE ObserversOf(c) = {}
      <4>1. ofClient = {}
        BY <2>1, <2>3, <3>1 DEF Relations
      <4>. QED
        BY <2>4, <2>5, <3>1, <4>1
    <3>2. CASE ObserversOf(c) # {}
      <4>1. o \in DOMAIN obs /\ obs[o].client = c
        BY <2>3, <2>4, <3>2
      <4>2. <<obs[o].client, obs[o].url>> \in ofClient
        BY <2>1, <4>1, RelatedObserver
      <4>. QED
        BY <2>5, <4>1, <4>2
    <3>. QED
      BY <3>1, <3>2
  <2>7. Promise!GiveUp(m)
    BY <1>2, <2>2, <2>6 DEF Promise!GiveUp, Relations, Awaiting
  <2>. QED
    BY <2>1, <2>7
<1>. QED
  BY <1>3, <1>4, <1>5 DEF CheckTransaction, transVars, obsVars

\* A notification.
LEMMA NotifyObserverPromise ==
  ASSUME IInv, Linked, NEW u \in Urls, NEW refresh \in BOOLEAN, NotifyObserver(u, refresh)
  PROVE  \/ UNCHANGED PromiseVars
         \/ \E c \in Clients, mid \in 1..MaxMid, con \in BOOLEAN :
              Promise!Notify(c, u, mid, con)
<1> DEFINE o   == observers_list[notify_cursor[u]]
           mid == current_mid + 1
           s   == memb_alloc(TransactionSlot, DOMAIN trans)
           con == refresh \/ u \in EventUrls
           c   == obs[o].client
           new == [mid |-> mid, client |-> c, url |-> u, con |-> con]
<1>1. /\ o \in DOMAIN obs /\ obs[o] \in Observer /\ mid \in 1..MaxMid /\ c \in Clients
      /\ obs \in [DOMAIN obs -> Observer]
  BY NotifiedIsRegistered DEF NotifyObserver, IInv, ObsOK, Observer
<1>2. s # NULL => s \in TransactionSlot /\ s \notin DOMAIN trans
  BY MembAlloc, ErCoapAssumption DEF TransactionSlot
<1>3. CASE UNCHANGED <<transVars, obs, sent>>
  BY <1>3 DEF PromiseVars, Relations, Awaiting, transVars
<1>4. CASE /\ obs[o].url = u /\ s # NULL
           /\ obs' = [obs EXCEPT ![o].last_mid = mid]
           /\ sent' = sent \cup {new}
           /\ IF con THEN OpenTransaction(s, mid, c)
                     ELSE TransientTransaction(s)
  <2>1. <<c, u>> \in Relations
    BY <1>1, <1>4, RelatedObserver
  <2>2. mid \notin {m.mid : m \in sent}
    <3>1. \A m \in sent : m.mid \in Nat /\ m.mid <= current_mid
      BY ErCoapAssumption DEF IInv, RestOK, Linked, SentLinked, Notification
    <3>. QED
      BY <1>1, <3>1, ErCoapAssumption DEF IInv, MidsOK
  <2>3. Relations' = Relations
    <3>1. /\ DOMAIN obs' = DOMAIN obs
          /\ \A x \in DOMAIN obs : /\ obs'[x].client = obs[x].client
                                   /\ obs'[x].url = obs[x].url
      BY <1>1, <1>4 DEF Observer
    <3>. QED
      BY <3>1 DEF Relations
  <2>4. Awaiting' = IF con THEN Awaiting \cup {mid} ELSE Awaiting
    <3>1. CASE con
      <4>1. OpenTransaction(s, mid, c)
        BY <1>4, <3>1
      <4>. HIDE DEF mid, s, c
      <4>2. /\ DOMAIN trans' = DOMAIN trans \cup {s}
            /\ trans'[s] = [mid |-> mid, client |-> c, retrans |-> 0]
            /\ \A x \in DOMAIN trans : trans'[x] = trans[x]
        BY <1>1, <1>2, <1>4, <4>1, OpenedTransaction DEF IInv
      <4>3. trans'[s].mid = mid
        BY <4>2
      <4>4. Awaiting' = {trans[x].mid : x \in DOMAIN trans} \cup {mid}
        BY <1>2, <1>4, <4>2, <4>3 DEF Awaiting
      <4>. QED
        BY <3>1, <4>4 DEF Awaiting
    <3>2. CASE ~con
      BY <1>4, <3>2 DEF TransientTransaction, Awaiting
    <3>. QED
      BY <3>1, <3>2
  <2>5. con \in BOOLEAN
    OBVIOUS
  <2>. HIDE DEF mid, c, con
  <2>6. Promise!Notify(c, u, mid, con)
    BY <1>4, <2>1, <2>2, <2>3, <2>4
       DEF Promise!Notify, Promise!Mids, Relations, Awaiting
  <2>. QED
    BY <1>1, <2>5, <2>6
<1>. QED
  BY <1>3, <1>4 DEF NotifyObserver

\* A request.
LEMMA ReceiveRequestPromise ==
  ASSUME IInv, OneRelationPerUrl, NEW c \in Clients, NEW u \in Urls,
         NEW observe \in BOOLEAN, NEW ok \in BOOLEAN, NEW con \in BOOLEAN,
         ReceiveRequest(c, u, observe, ok, con)
  PROVE  UNCHANGED PromiseVars \/ Promise!Register(c, u) \/ Promise!Deregister(c, u)
<1> DEFINE old == FirstMatch(observers_list, ObserversOfUrl(c, u))
<1>1. UNCHANGED <<sent, trans>>
  BY DEF ReceiveRequest, TransientTransaction, transVars
<1>2. Awaiting' = Awaiting
  BY <1>1 DEF Awaiting
<1>3. ObsOK'
  BY ReceiveRequestIInv DEF IInv
<1>4. /\ ObserversOfUrl(c, u) \subseteq DOMAIN obs
      /\ \A x \in DOMAIN obs :
           x \in ObserversOfUrl(c, u) <=> <<obs[x].client, obs[x].url>> = <<c, u>>
  BY DEF ObserversOfUrl, ObserversOf
<1>5. IF ObserversOfUrl(c, u) = {} THEN old \notin DOMAIN obs
                                   ELSE old \in ObserversOfUrl(c, u)
  BY <1>4, FoundObserver DEF IInv
<1>6. CASE UNCHANGED obsVars
  BY <1>1, <1>2, <1>6 DEF PromiseVars, Relations, obsVars
<1>7. CASE coap_add_observer(c, u)
  <2>1. /\ \A x \in DOMAIN obs \ {old} : x \in DOMAIN obs' /\ obs'[x] = obs[x]
        /\ \A x \in DOMAIN obs' :
             \/ x \in DOMAIN obs \ {old}
             \/ obs'[x] = [client |-> c, url |-> u, last_mid |-> 0]
        /\ \A x, y \in DOMAIN obs' \ (DOMAIN obs \ {old}) : x = y
    BY <1>7, AddedObserver DEF IInv
  <2>. HIDE DEF old
  <2>2. \A x \in DOMAIN obs' :
          \/ <<obs'[x].client, obs'[x].url>> = <<c, u>>
          \/ x \in DOMAIN obs \ {old} /\ obs'[x] = obs[x]
    BY <2>1
  <2>3. Relations \ {<<c, u>>} \subseteq Relations'
    <3>1. ASSUME NEW x \in DOMAIN obs, <<obs[x].client, obs[x].url>> # <<c, u>>
          PROVE  <<obs[x].client, obs[x].url>> \in Relations'
      <4>1. x # old \/ old \notin DOMAIN obs
        BY <1>4, <1>5, <3>1
      <4>2. x \in DOMAIN obs' /\ obs'[x] = obs[x]
        BY <2>1, <4>1
      <4>. QED
        BY <4>2 DEF Relations
    <3>. QED
      BY <3>1 DEF Relations
  <2>4. Relations' \subseteq Relations \cup {<<c, u>>}
    BY <2>2 DEF Relations
  <2>5. Cardinality(Relations') <= COAP_MAX_OBSERVERS
    BY <1>3, RelationsFit DEF ObsOK, Relations
  <2>6. CASE <<c, u>> \in Relations'
    <3>1. Relations' = Relations \cup {<<c, u>>}
      BY <2>3, <2>4, <2>6
    <3>2. Promise!Register(c, u)
      BY <1>1, <1>2, <2>5, <3>1 DEF Promise!Register, Promise!Cardinality, Cardinality, Relations, Awaiting
    <3>. QED
      BY <3>2
  <2>7. CASE <<c, u>> \notin Relations'
    <3>1. Relations' = Relations \ {<<c, u>>}
      BY <2>3, <2>4, <2>7
    <3>2. Promise!Deregister(c, u)
      BY <1>1, <1>2, <3>1 DEF Promise!Deregister, Relations, Awaiting
    <3>. QED
      BY <3>2
  <2>. QED
    BY <2>6, <2>7
<1>8. CASE RemoveObserver(old)
  <2>1. Relations' = IF old \in DOMAIN obs
                     THEN Relations \ {<<obs[old].client, obs[old].url>>} ELSE Relations
    BY <1>8, RemovedIsUnrelated
  <2>. HIDE DEF old
  <2>2. Relations' = Relations \ {<<c, u>>}
    <3>1. CASE ObserversOfUrl(c, u) = {}
      <4>1. <<c, u>> \notin Relations
        BY <1>4, <3>1 DEF Relations
      <4>. QED
        BY <1>5, <2>1, <3>1, <4>1
    <3>2. CASE ObserversOfUrl(c, u) # {}
      BY <1>4, <1>5, <2>1, <3>2
    <3>. QED
      BY <3>1, <3>2
  <2>3. Promise!Deregister(c, u)
    BY <1>1, <1>2, <2>2 DEF Promise!Deregister, Relations, Awaiting
  <2>. QED
    BY <2>3
<1>. QED
  BY <1>6, <1>7, <1>8 DEF ReceiveRequest, coap_observe_handler

\* An answer.
LEMMA ReceiveReplyPromise ==
  ASSUME IInv, OneRelationPerUrl, Linked, NEW m \in sent, NEW rst \in BOOLEAN,
         ReceiveReply(m, rst)
  PROVE  Promise!Acknowledge(m) \/ Promise!Reset(m)
<1> DEFINE t == FirstMatch(transactions_list, OpenWithMid(m.mid))
           o == FirstMatch(observers_list, ObserversLastMid(m.client, m.mid))
<1>1. sent' = sent /\ (rst \/ m.con) /\ coap_clear_transaction(t)
  BY DEF ReceiveReply
<1>2. IF OpenWithMid(m.mid) = {} THEN t \notin DOMAIN trans ELSE t \in OpenWithMid(m.mid)
  <2>1. NULL \notin DOMAIN trans /\ ToSet(transactions_list) = DOMAIN trans
        /\ transactions_list \in Seq(1..COAP_MAX_OPEN_TRANSACTIONS)
    BY ErCoapAssumption DEF IInv, TransOK, TransactionSlot, NULL
  <2>2. OpenWithMid(m.mid) \subseteq DOMAIN trans
    BY DEF OpenWithMid
  <2>. QED
    BY <2>1, <2>2, FirstMatchFound, ErCoapAssumption
<1>3. Awaiting' = IF t \in DOMAIN trans THEN Awaiting \ {trans[t].mid} ELSE Awaiting
  BY <1>1, ClearedIsNotAwaited
<1>. HIDE DEF t
<1>4. Awaiting' = Awaiting \ {m.mid}
  <2>1. CASE OpenWithMid(m.mid) = {}
    BY <1>2, <1>3, <2>1 DEF OpenWithMid, Awaiting
  <2>2. CASE OpenWithMid(m.mid) # {}
    BY <1>2, <1>3, <2>2 DEF OpenWithMid
  <2>. QED
    BY <2>1, <2>2
<1>5. CASE ~rst
  <2>1. m.con /\ Relations' = Relations
    BY <1>1, <1>5 DEF ReceiveReply, obsVars, Relations
  <2>2. Promise!Acknowledge(m)
    BY <1>1, <1>4, <2>1 DEF Promise!Acknowledge, Relations, Awaiting
  <2>. QED
    BY <2>2
<1>6. CASE rst
  <2>1. Relations' = IF o \in DOMAIN obs
                     THEN Relations \ {<<obs[o].client, obs[o].url>>} ELSE Relations
    BY <1>6, RemovedIsUnrelated DEF ReceiveReply
  <2>2. ObserversLastMid(m.client, m.mid) \subseteq DOMAIN obs
    BY DEF ObserversLastMid, ObserversOf
  <2>3. o \in DOMAIN obs => o \in ObserversLastMid(m.client, m.mid)
    BY <2>2, FoundObserver DEF IInv
  <2>. HIDE DEF o
  <2>4. o \in DOMAIN obs => obs[o].client = m.client /\ obs[o].url = m.url
    BY <2>3, AnsweredObserver DEF ObserversLastMid, ObserversOf
  <2>5. Relations' \in {Relations, Relations \ {<<m.client, m.url>>}}
    BY <2>1, <2>4
  <2>6. Promise!Reset(m)
    BY <1>1, <1>4, <2>5 DEF Promise!Reset, Relations, Awaiting
  <2>. QED
    BY <2>6
<1>. QED
  BY <1>5, <1>6

\* A datagram that is rejected: the node may forget that it waits for an answer.
LEMMA ReceiveRejectedPromise ==
  ASSUME IInv, Linked, ReceiveRejected
  PROVE  UNCHANGED PromiseVars \/ \E m \in sent : Promise!Forget(m)
<1>1. UNCHANGED <<sent, obs>> /\ coap_clear_transaction(transaction)
  BY DEF ReceiveRejected, obsVars
<1>2. Relations' = Relations
  BY <1>1 DEF Relations
<1>3. Awaiting' = IF transaction \in DOMAIN trans
                  THEN Awaiting \ {trans[transaction].mid} ELSE Awaiting
  BY <1>1, ClearedIsNotAwaited
<1>4. CASE transaction \in DOMAIN trans
  <2>1. PICK m \in sent : m.mid = trans[transaction].mid
    BY <1>4 DEF Linked, TransLinked
  <2>2. m.mid \in Awaiting /\ Awaiting' = Awaiting \ {m.mid}
    BY <1>3, <1>4, <2>1 DEF Awaiting
  <2>3. Promise!Forget(m)
    BY <1>1, <1>2, <2>2 DEF Promise!Forget, Relations, Awaiting
  <2>. QED
    BY <2>1, <2>3
<1>5. CASE transaction \notin DOMAIN trans
  BY <1>1, <1>2, <1>3, <1>5 DEF PromiseVars
<1>. QED
  BY <1>4, <1>5

LEMMA NextPromise ==
  ASSUME IInv, OneRelationPerUrl, Linked, [Next]_vars
  PROVE  [Promise!Next]_PromiseVars
<1>1. CASE UNCHANGED <<trans, obs, sent>>
  BY <1>1 DEF PromiseVars, Relations, Awaiting
<1>2. CASE \/ \E s \in TransactionSlot : EtimerExpires(s)
           \/ CheckTransactions
           \/ \E u \in Urls : NotifyObservers(u)
           \/ UNCHANGED vars
  BY <1>1, <1>2 DEF EtimerExpires, CheckTransactions, NotifyObservers, vars,
                    transVars, obsVars
<1>3. CASE CheckTransaction
  BY <1>3, CheckTransactionPromise DEF Promise!Next, Promise!Resolve
<1>4. CASE \E u \in Urls, refresh \in BOOLEAN : NotifyObserver(u, refresh)
  BY <1>4, NotifyObserverPromise DEF Promise!Next
<1>5. CASE \E c \in Clients, u \in Urls, observe, ok, con \in BOOLEAN :
             ReceiveRequest(c, u, observe, ok, con)
  BY <1>5, ReceiveRequestPromise DEF Promise!Next
<1>6. CASE \E m \in sent, rst \in BOOLEAN : ReceiveReply(m, rst)
  BY <1>6, ReceiveReplyPromise DEF Promise!Next, Promise!Resolve
<1>7. CASE ReceiveRejected
  BY <1>7, ReceiveRejectedPromise DEF Promise!Next, Promise!Resolve
<1>. QED
  BY <1>2, <1>3, <1>4, <1>5, <1>6, <1>7 DEF Next

\* The engine, with its pools, lists, timers and lookups by message id, implements
\* ObserveServer: whom it notifies is registered, a client has one relation with a
\* resource, and a relation or a wait for an answer ends only for a reason the
\* promise names.
THEOREM PromiseCorrect == Spec => KeepsPromise
<1>1. Init => Promise!Init
  BY DEF Init, Promise!Init
<1>2. IInv /\ OneRelationPerUrl /\ Linked /\ [Next]_vars => [Promise!Next]_(Promise!obsServerVars)
  BY NextPromise DEF PromiseVars, Promise!obsServerVars, Relations, Awaiting
<1>. QED
  BY <1>1, <1>2, Invariance, OneRelationCorrect, LinkedHolds, PTL
     DEF Spec, KeepsPromise, Promise!Spec
=============================================================================
