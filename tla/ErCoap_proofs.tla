---------------------------- MODULE ErCoap_proofs ----------------------------
(***************************************************************************)
(* Theorems about ErCoap, for every value of its constants.                *)
(*                                                                         *)
(* The inductive invariant IInv joins the type invariant and the           *)
(* agreement of pools and lists, which the loops need to index their lists *)
(* safely, with two facts about the loops: they exclude each other, and a  *)
(* notification loop has enough message ids left for its iterations.       *)
(***************************************************************************)
EXTENDS ErCoap, TLAPS, WellFoundedInduction, SequenceTheorems, FiniteSetTheorems

(***************************************************************************)
(* What the operators of Pools return.                                     *)
(***************************************************************************)

\* A non-empty set of naturals has a least element and Min returns it.
LEMMA MinOfNats ==
  ASSUME NEW S \in SUBSET Nat, S # {}
  PROVE  Min(S) \in S /\ \A x \in S : Min(S) <= x
<1> DEFINE R == {ss \in Nat \X Nat : ss[1] < ss[2]}
<1>1. PICK x \in S : \A y \in S : ~(<<y, x>> \in R)
  <2>1. IsWellFoundedOn(R, Nat)
    BY NatLessThanWellFounded, Zenon DEF OpToRel
  <2>. HIDE DEF R
  <2>. QED
    BY <2>1, WFMin
<1>2. ASSUME NEW y \in S
      PROVE  x <= y
  <2>1. ~(<<y, x>> \in R)
    BY <1>1
  <2>. QED
    BY <2>1
<1>. QED
  BY <1>2 DEF Min

\* memb_alloc() returns a block that was free, or NULL when none was.
LEMMA MembAlloc ==
  ASSUME NEW n \in Nat, NEW used
  PROVE  LET b == memb_alloc(1..n, used)
         IN  IF 1..n \subseteq used THEN b = NULL
                                    ELSE b \in 1..n /\ b \notin used /\ b # NULL
<1>1. CASE 1..n \subseteq used
  BY <1>1 DEF memb_alloc
<1>2. CASE ~(1..n \subseteq used)
  <2>1. (1..n) \ used # {} /\ (1..n) \ used \subseteq Nat
    BY <1>2
  <2>2. Min((1..n) \ used) \in (1..n) \ used
    BY <2>1, MinOfNats
  <2>. QED
    BY <1>2, <2>2 DEF memb_alloc, NULL
<1>. QED
  BY <1>1, <1>2

\* Freeing a block takes it out of the pool and keeps the others.
LEMMA MembFree ==
  ASSUME NEW T, NEW pool, pool \in [DOMAIN pool -> T], NEW b
  PROVE  /\ memb_free(pool, b) \in [DOMAIN memb_free(pool, b) -> T]
         /\ DOMAIN memb_free(pool, b) = DOMAIN pool \ {b}
         /\ \A x \in DOMAIN pool \ {b} : memb_free(pool, b)[x] = pool[x]
BY DEF memb_free, Restrict

\* The sequence without the element at index k.
LEMMA RemoveAtSeq ==
  ASSUME NEW S, NEW list \in Seq(S), NEW k \in 1..Len(list)
  PROVE  /\ RemoveAt(list, k) \in Seq(S)
         /\ Len(RemoveAt(list, k)) = Len(list) - 1
         /\ \A j \in 1..(Len(list) - 1) :
              RemoveAt(list, k)[j] = IF j < k THEN list[j] ELSE list[j + 1]
<1> DEFINE front == SubSeq(list, 1, k - 1)
           back  == SubSeq(list, k + 1, Len(list))
<1>1. /\ front \in Seq(S) /\ Len(front) = k - 1
      /\ \A j \in 1..(k - 1) : front[j] = list[j]
  OBVIOUS
<1>2. /\ back \in Seq(S) /\ Len(back) = Len(list) - k
      /\ \A j \in 1..(Len(list) - k) : back[j] = list[j + k]
  OBVIOUS
<1>3. RemoveAt(list, k) = front \o back
  BY DEF RemoveAt
<1>. HIDE DEF front, back
<1>4. /\ front \o back \in Seq(S)
      /\ Len(front \o back) = Len(front) + Len(back)
      /\ \A j \in 1..(Len(front) + Len(back)) : (front \o back)[j] =
            IF j <= Len(front) THEN front[j] ELSE back[j - Len(front)]
  BY <1>1, <1>2, ConcatProperties, Zenon
<1>5. Len(front) + Len(back) = Len(list) - 1
  BY <1>1, <1>2
<1>6. ASSUME NEW j \in 1..(Len(list) - 1)
      PROVE  (front \o back)[j] = IF j < k THEN list[j] ELSE list[j + 1]
  <2>1. (front \o back)[j] =
          IF j <= Len(front) THEN front[j] ELSE back[j - Len(front)]
    BY <1>4, <1>5, Zenon
  <2>2. CASE j < k
    BY <1>1, <2>1, <2>2
  <2>3. CASE j >= k
    <3>1. j - (k - 1) \in 1..(Len(list) - k) /\ (j - (k - 1)) + k = j + 1
      BY <2>3
    <3>. QED
      BY <1>1, <1>2, <2>1, <2>3, <3>1
  <2>4. j \in Int /\ k \in Int
    OBVIOUS
  <2>5. j < k \/ j >= k
    BY <2>4
  <2>. QED
    BY <2>2, <2>3, <2>5
<1>. QED
  BY <1>3, <1>4, <1>5, <1>6

\* list_remove() takes the item out of a list that holds it once at most and
\* keeps the rest.
LEMMA ListRemove ==
  ASSUME NEW S, NEW list \in Seq(S), IsInjective(list), NEW item
  PROVE  /\ list_remove(list, item) \in Seq(S)
         /\ IsInjective(list_remove(list, item))
         /\ ToSet(list_remove(list, item)) = ToSet(list) \ {item}
<1>1. CASE item \notin ToSet(list)
  <2>1. ~ \E i \in 1..Len(list) : list[i] = item
    BY <1>1 DEF ToSet
  <2>2. list_remove(list, item) = list
    BY <2>1 DEF list_remove, RemoveFirst
  <2>. QED
    BY <1>1, <2>2
<1>2. CASE item \in ToSet(list)
  <2> DEFINE I == {i \in 1..Len(list) : list[i] = item}
             k == Min(I)
             new == [j \in 1..(Len(list) - 1) |->
                       IF j < k THEN list[j] ELSE list[j + 1]]
  <2>1. I # {} /\ I \subseteq Nat
    BY <1>2 DEF ToSet
  <2>2. k \in 1..Len(list) /\ list[k] = item
    <3>1. k \in I
      BY <2>1, MinOfNats
    <3>. QED
      BY <3>1
  <2>3. list_remove(list, item) = RemoveAt(list, k)
    BY <2>1 DEF list_remove, RemoveFirst, SelectInSeq
  <2>. HIDE DEF k
  <2>4. RemoveAt(list, k) = new
    <3>1. new \in Seq(S) /\ Len(new) = Len(list) - 1
      BY <2>2
    <3>2. \A j \in 1..(Len(list) - 1) : RemoveAt(list, k)[j] = new[j]
      BY <2>2, RemoveAtSeq
    <3>. HIDE DEF new
    <3>. QED
      BY <2>2, <3>1, <3>2, RemoveAtSeq, SeqEqual
  <2>5. new \in Seq(S)
    BY <2>2
  <2>6. DOMAIN new = 1..(Len(list) - 1) /\ DOMAIN list = 1..Len(list)
    OBVIOUS
  <2>7. \A i, j \in 1..Len(list) : list[i] = list[j] => i = j
    BY <2>6 DEF IsInjective
  <2>8. IsInjective(new)
    BY <2>2, <2>6, <2>7 DEF IsInjective
  <2>9. ToSet(new) = ToSet(list) \ {item}
    <3>1. ASSUME NEW i \in 1..Len(list), list[i] # item
          PROVE  \E j \in 1..(Len(list) - 1) : new[j] = list[i]
      <4>1. CASE i < k
        <5>1. i \in 1..(Len(list) - 1) /\ new[i] = list[i]
          BY <2>2, <4>1
        <5>. QED
          BY <5>1
      <4>2. CASE i > k
        <5>1. i - 1 \in 1..(Len(list) - 1) /\ new[i - 1] = list[i]
          BY <2>2, <4>2
        <5>. QED
          BY <5>1
      <4>. QED
        BY <2>2, <3>1, <4>1, <4>2
    <3>2. \A j \in 1..(Len(list) - 1) :
            new[j] \in {list[i] : i \in 1..Len(list)} /\ new[j] # item
      BY <2>2, <2>7
    <3>3. ToSet(new) = {new[j] : j \in 1..(Len(list) - 1)}
      BY <2>6, Zenon DEF ToSet
    <3>4. ToSet(list) = {list[i] : i \in 1..Len(list)}
      BY <2>6, Zenon DEF ToSet
    <3>. HIDE DEF new
    <3>. QED
      BY <3>1, <3>2, <3>3, <3>4, SMTT(30)
  <2>. QED
    BY <2>3, <2>4, <2>5, <2>8, <2>9
<1>. QED
  BY <1>1, <1>2

\* list_add() puts an item that is not on the list at its end.
LEMMA ListAdd ==
  ASSUME NEW S, NEW list \in Seq(S), IsInjective(list),
         NEW item \in S, item \notin ToSet(list)
  PROVE  /\ Append(list, item) \in Seq(S)
         /\ IsInjective(Append(list, item))
         /\ ToSet(Append(list, item)) = ToSet(list) \cup {item}
<1>1. DOMAIN list = 1..Len(list) /\ DOMAIN Append(list, item) = 1..(Len(list) + 1)
  OBVIOUS
<1>2. /\ \A i \in 1..Len(list) : Append(list, item)[i] = list[i]
      /\ Append(list, item)[Len(list) + 1] = item
  OBVIOUS
<1>3. \A i \in 1..Len(list) : list[i] # item
  BY <1>1 DEF ToSet
<1>4. IsInjective(Append(list, item))
  BY <1>1, <1>2, <1>3 DEF IsInjective
<1>5. ToSet(Append(list, item)) = ToSet(list) \cup {item}
  BY <1>1, <1>2 DEF ToSet
<1>. QED
  BY <1>4, <1>5

\* The element the loops over a list settle on.
LEMMA FirstMatchFound ==
  ASSUME NEW n \in Nat, NEW list \in Seq(1..n), NEW S
  PROVE  LET x == FirstMatch(list, S)
         IN  IF ToSet(list) \cap S = {} THEN x = NULL
                                        ELSE x \in ToSet(list) \cap S
<1>1. CASE ToSet(list) \cap S = {}
  BY <1>1 DEF FirstMatch
<1>2. CASE ToSet(list) \cap S # {}
  <2> DEFINE I == {i \in DOMAIN list : list[i] \in S}
  <2>1. DOMAIN list = 1..Len(list)
    OBVIOUS
  <2>2. I # {} /\ I \subseteq Nat
    BY <1>2, <2>1 DEF ToSet
  <2>3. Min(I) \in I
    BY <2>2, MinOfNats
  <2>. QED
    BY <1>2, <2>3 DEF FirstMatch, ToSet
<1>. QED
  BY <1>1, <1>2

(***************************************************************************)
(* The inductive invariant.                                                *)
(***************************************************************************)

\* The transactions: blocks, list and timers agree.
TransOK ==
  /\ DOMAIN trans \subseteq TransactionSlot
  /\ trans \in [DOMAIN trans -> Transaction]
  /\ transactions_list \in Seq(TransactionSlot)
  /\ IsInjective(transactions_list)
  /\ ToSet(transactions_list) = DOMAIN trans
  /\ armed \subseteq DOMAIN trans

\* The observers: blocks and list agree.
ObsOK ==
  /\ DOMAIN obs \subseteq ObserverSlot
  /\ obs \in [DOMAIN obs -> Observer]
  /\ observers_list \in Seq(ObserverSlot)
  /\ IsInjective(observers_list)
  /\ ToSet(observers_list) = DOMAIN obs

\* Where the loops stand, one at a time.
LoopsOK ==
  /\ check_cursor \in 0..Len(transactions_list)
  /\ notify_cursor \in [Urls -> 0..Len(observers_list)]
  /\ \A u \in Urls : notify_cursor[u] > 0 => check_cursor = 0
  /\ \A u, v \in Urls : notify_cursor[u] > 0 /\ notify_cursor[v] > 0 => u = v

\* The ids drawn, with those the loop that runs may still draw.
MidsOK ==
  /\ current_mid \in 0..MaxMid
  /\ \A u \in Urls : notify_cursor[u] > 0 =>
       current_mid + Len(observers_list) - notify_cursor[u] + 1 <= MaxMid

RestOK ==
  /\ transaction \in TransactionSlot \cup {NULL}
  /\ timer_events \in 0..PROCESS_CONF_NUMEVENTS
  /\ sent \subseteq Notification

IInv == TransOK /\ ObsOK /\ LoopsOK /\ MidsOK /\ RestOK

-----------------------------------------------------------------------------
(***************************************************************************)
(* The handlers' parts.                                                    *)
(***************************************************************************)

\* coap_clear_transaction() frees one block at most and keeps the others.
LEMMA ClearTransaction ==
  ASSUME TransOK, NEW s, coap_clear_transaction(s)
  PROVE  /\ TransOK'
         /\ DOMAIN trans' = DOMAIN trans \ {s}
         /\ \A x \in DOMAIN trans \ {s} : trans'[x] = trans[x]
         /\ armed' = armed \ {s}
<1>1. /\ trans' \in [DOMAIN trans' -> Transaction]
      /\ DOMAIN trans' = DOMAIN trans \ {s}
      /\ \A x \in DOMAIN trans \ {s} : trans'[x] = trans[x]
  BY MembFree DEF TransOK, coap_clear_transaction
<1>2. /\ transactions_list' \in Seq(TransactionSlot)
      /\ IsInjective(transactions_list')
      /\ ToSet(transactions_list') = ToSet(transactions_list) \ {s}
  BY ListRemove DEF TransOK, coap_clear_transaction
<1>. QED
  BY <1>1, <1>2 DEF TransOK, coap_clear_transaction

\* Opening a transaction in a free block adds it and keeps the others.
LEMMA OpenedTransaction ==
  ASSUME TransOK, NEW s \in TransactionSlot, s \notin DOMAIN trans,
         NEW mid \in 1..MaxMid, NEW c \in Clients, OpenTransaction(s, mid, c)
  PROVE  /\ TransOK'
         /\ DOMAIN trans' = DOMAIN trans \cup {s}
         /\ trans'[s] = [mid |-> mid, client |-> c, retrans |-> 0]
         /\ \A x \in DOMAIN trans : trans'[x] = trans[x]
         /\ armed' = armed \cup {s}
         /\ Len(transactions_list') = Len(transactions_list) + 1
<1> DEFINE content == [mid |-> mid, client |-> c, retrans |-> 0]
<1>1. content \in Transaction
  BY ErCoapAssumption DEF Transaction
<1>2. /\ trans' \in [DOMAIN trans' -> Transaction]
      /\ DOMAIN trans' = DOMAIN trans \cup {s}
      /\ trans'[s] = content
      /\ \A x \in DOMAIN trans : trans'[x] = trans[x]
  <2>1. trans' = Filled(trans, s, content)
    BY DEF OpenTransaction
  <2>2. trans \in [DOMAIN trans -> Transaction]
    BY DEF TransOK
  <2>. HIDE DEF content
  <2>3. /\ Filled(trans, s, content)
             \in [DOMAIN Filled(trans, s, content) -> Transaction]
        /\ DOMAIN Filled(trans, s, content) = DOMAIN trans \cup {s}
        /\ Filled(trans, s, content)[s] = content
        /\ \A x \in DOMAIN trans : Filled(trans, s, content)[x] = trans[x]
    BY <1>1, <2>2 DEF Filled
  <2>. QED
    BY <2>1, <2>3
<1>3. /\ transactions_list' \in Seq(TransactionSlot)
      /\ IsInjective(transactions_list')
      /\ ToSet(transactions_list') = ToSet(transactions_list) \cup {s}
  BY ListAdd DEF TransOK, OpenTransaction
<1>. QED
  BY <1>2, <1>3 DEF TransOK, OpenTransaction

\* A transaction that is freed where it was opened leaves everything as it was.
LEMMA Transient ==
  ASSUME TransOK, NEW s, TransientTransaction(s)
  PROVE  TransOK'
BY DEF TransOK, TransientTransaction

\* coap_remove_observer() frees one block at most and keeps the others.
LEMMA RemovedObserver ==
  ASSUME ObsOK, NEW o, RemoveObserver(o)
  PROVE  /\ ObsOK'
         /\ DOMAIN obs' = DOMAIN obs \ {o}
         /\ \A x \in DOMAIN obs \ {o} : obs'[x] = obs[x]
<1>1. /\ obs' \in [DOMAIN obs' -> Observer]
      /\ DOMAIN obs' = DOMAIN obs \ {o}
      /\ \A x \in DOMAIN obs \ {o} : obs'[x] = obs[x]
  BY MembFree DEF ObsOK, RemoveObserver
<1>2. /\ observers_list' \in Seq(ObserverSlot)
      /\ IsInjective(observers_list')
      /\ ToSet(observers_list') = ToSet(observers_list) \ {o}
  BY ListRemove DEF ObsOK, RemoveObserver
<1>. QED
  BY <1>1, <1>2 DEF ObsOK, RemoveObserver

\* coap_add_observer() drops the relation the client had with the resource and
\* adds the new one if there is a free block.
LEMMA AddedObserver ==
  ASSUME ObsOK, NEW c \in Clients, NEW u \in Urls, coap_add_observer(c, u)
  PROVE  /\ ObsOK'
         /\ LET old == FirstMatch(observers_list, ObserversOfUrl(c, u))
            IN  /\ \A x \in DOMAIN obs \ {old} :
                     x \in DOMAIN obs' /\ obs'[x] = obs[x]
                /\ \A x \in DOMAIN obs' :
                     \/ x \in DOMAIN obs \ {old}
                     \/ obs'[x] = [client |-> c, url |-> u, last_mid |-> 0]
                /\ \A x, y \in DOMAIN obs' \ (DOMAIN obs \ {old}) : x = y
<1> DEFINE old  == FirstMatch(observers_list, ObserversOfUrl(c, u))
           pool == memb_free(obs, old)
           list == list_remove(observers_list, old)
           new  == memb_alloc(ObserverSlot, DOMAIN pool)
           content == [client |-> c, url |-> u, last_mid |-> 0]
<1>1. /\ pool \in [DOMAIN pool -> Observer]
      /\ DOMAIN pool = DOMAIN obs \ {old}
      /\ \A x \in DOMAIN obs \ {old} : pool[x] = obs[x]
  BY MembFree DEF ObsOK
<1>2. /\ list \in Seq(ObserverSlot)
      /\ IsInjective(list)
      /\ ToSet(list) = DOMAIN obs \ {old}
  BY ListRemove DEF ObsOK
<1>3. content \in Observer
  BY ErCoapAssumption DEF Observer
<1>. HIDE DEF old, pool, list
<1>4. CASE new = NULL
  <2>1. obs' = pool /\ observers_list' = list
    BY <1>4 DEF coap_add_observer, old, pool, list
  <2>. QED
    BY <1>1, <1>2, <2>1 DEF ObsOK, old
<1>5. CASE new # NULL
  <2>1. obs' = Filled(pool, new, content) /\ observers_list' = Append(list, new)
    BY <1>5 DEF coap_add_observer, old, pool, list
  <2>2. new \in ObserverSlot /\ new \notin DOMAIN pool
    BY <1>5, MembAlloc, ErCoapAssumption DEF ObserverSlot
  <2>. HIDE DEF new, content
  <2>3. /\ obs' \in [DOMAIN obs' -> Observer]
        /\ DOMAIN obs' = DOMAIN pool \cup {new}
        /\ obs'[new] = content
        /\ \A x \in DOMAIN pool : obs'[x] = pool[x]
    <3>1. /\ Filled(pool, new, content)
               \in [DOMAIN Filled(pool, new, content) -> Observer]
          /\ DOMAIN Filled(pool, new, content) = DOMAIN pool \cup {new}
          /\ Filled(pool, new, content)[new] = content
          /\ \A x \in DOMAIN pool : Filled(pool, new, content)[x] = pool[x]
      BY <1>1, <1>3, <2>2 DEF Filled
    <3>. QED
      BY <2>1, <3>1
  <2>4. /\ observers_list' \in Seq(ObserverSlot)
        /\ IsInjective(observers_list')
        /\ ToSet(observers_list') = ToSet(list) \cup {new}
    <3>1. new \notin ToSet(list)
      BY <1>1, <1>2, <2>2
    <3>2. /\ Append(list, new) \in Seq(ObserverSlot)
          /\ IsInjective(Append(list, new))
          /\ ToSet(Append(list, new)) = ToSet(list) \cup {new}
      BY <1>2, <2>2, <3>1, ListAdd
    <3>. QED
      BY <2>1, <3>2
  <2>5. ObsOK'
    BY <1>1, <1>2, <2>2, <2>3, <2>4 DEF ObsOK
  <2>6. /\ \A x \in DOMAIN obs \ {old} : x \in DOMAIN obs' /\ obs'[x] = obs[x]
        /\ \A x \in DOMAIN obs' : x \in DOMAIN obs \ {old} \/ obs'[x] = content
        /\ \A x, y \in DOMAIN obs' \ (DOMAIN obs \ {old}) : x = y
    BY <1>1, <2>3
  <2>. QED
    BY <2>5, <2>6 DEF content, old
<1>. QED
  BY <1>4, <1>5

\* While no loop runs, a handler may change the lists.
LEMMA IdleKeepsLoops ==
  ASSUME LoopsOK, Idle, UNCHANGED cursorVars,
         transactions_list' \in Seq(TransactionSlot),
         observers_list' \in Seq(ObserverSlot),
         current_mid' \in 0..MaxMid
  PROVE  LoopsOK' /\ MidsOK'
<1>1. Len(transactions_list') \in Nat /\ Len(observers_list') \in Nat
  OBVIOUS
<1>2. check_cursor' = 0 /\ notify_cursor' = notify_cursor
  BY DEF Idle, cursorVars
<1>3. \A u \in Urls : notify_cursor[u] = 0
  BY DEF Idle
<1>4. notify_cursor' \in [Urls -> 0..Len(observers_list')]
  BY <1>1, <1>2, <1>3 DEF LoopsOK
<1>. QED
  BY <1>1, <1>2, <1>3, <1>4 DEF LoopsOK, MidsOK

\* t->next and obs->next stay on the list.
LEMMA AdvanceInList ==
  ASSUME NEW S, NEW list \in Seq(S), NEW i \in 0..Len(list)
  PROVE  /\ Advance(i, list) \in 0..Len(list)
         /\ Advance(i, list) > 0 => Advance(i, list) = i + 1
BY DEF Advance

-----------------------------------------------------------------------------
(***************************************************************************)
(* The inductive invariant: one lemma per handler.                         *)
(***************************************************************************)

LEMMA InitIInv == Init => IInv
<1> SUFFICES ASSUME Init
             PROVE  IInv
  OBVIOUS
<1>1. DOMAIN << >> = {} /\ ToSet(<< >>) = {} /\ IsInjective(<< >>)
  BY DEF ToSet, IsInjective
<1>2. TransOK /\ ObsOK
  BY <1>1 DEF Init, TransOK, ObsOK
<1>. QED
  BY <1>2, ErCoapAssumption DEF Init, IInv, LoopsOK, MidsOK, RestOK

LEMMA EtimerExpiresIInv ==
  ASSUME IInv, NEW s \in TransactionSlot, EtimerExpires(s)
  PROVE  IInv'
<1>1. TransOK'
  BY DEF IInv, TransOK, EtimerExpires
<1>2. ObsOK'
  BY DEF IInv, ObsOK, EtimerExpires, obsVars
<1>3. LoopsOK' /\ MidsOK'
  BY DEF IInv, LoopsOK, MidsOK, EtimerExpires, cursorVars, obsVars
<1>4. RestOK'
  BY ErCoapAssumption DEF IInv, RestOK, EtimerExpires
<1>. QED
  BY <1>1, <1>2, <1>3, <1>4 DEF IInv

LEMMA CheckTransactionsIInv ==
  ASSUME IInv, CheckTransactions
  PROVE  IInv'
<1>1. TransOK' /\ ObsOK'
  BY DEF IInv, TransOK, ObsOK, CheckTransactions, transVars, obsVars
<1>2. check_cursor' \in 0..Len(transactions_list)
  BY AdvanceInList DEF IInv, TransOK, CheckTransactions
<1>3. LoopsOK' /\ MidsOK'
  BY <1>2 DEF IInv, LoopsOK, MidsOK, CheckTransactions, Idle, transVars, obsVars
<1>4. RestOK'
  BY ErCoapAssumption DEF IInv, RestOK, CheckTransactions
<1>. QED
  BY <1>1, <1>3, <1>4 DEF IInv

\* The transaction the loop stands at is open.
LEMMA CheckedIsOpen ==
  ASSUME IInv, check_cursor > 0
  PROVE  /\ transactions_list[check_cursor] \in DOMAIN trans
         /\ trans[transactions_list[check_cursor]] \in Transaction
<1>1. check_cursor \in 1..Len(transactions_list)
  BY DEF IInv, LoopsOK
<1>2. transactions_list[check_cursor] \in ToSet(transactions_list)
  BY <1>1 DEF IInv, TransOK, ToSet
<1>. QED
  BY <1>2 DEF IInv, TransOK

LEMMA CheckTransactionIInv ==
  ASSUME IInv, CheckTransaction
  PROVE  IInv'
<1> DEFINE s == transactions_list[check_cursor]
           n == trans[s].retrans + 1
<1>1. s \in DOMAIN trans /\ trans[s] \in Transaction
  BY CheckedIsOpen DEF CheckTransaction
<1>2. RestOK'
  BY DEF IInv, RestOK, CheckTransaction
<1>3. /\ current_mid' = current_mid /\ notify_cursor' = notify_cursor
      /\ \A u \in Urls : notify_cursor[u] = 0
  BY DEF IInv, LoopsOK, CheckTransaction
<1>4. Advance(check_cursor, transactions_list) \in 0..Len(transactions_list)
  BY AdvanceInList DEF IInv, TransOK, LoopsOK
<1>5. CASE s \in armed
  <2>1. /\ UNCHANGED <<transVars, obsVars>>
        /\ check_cursor' = Advance(check_cursor, transactions_list)
    BY <1>5 DEF CheckTransaction
  <2>2. TransOK' /\ ObsOK'
    BY <2>1 DEF IInv, TransOK, ObsOK, transVars, obsVars
  <2>3. LoopsOK' /\ MidsOK'
    BY <1>3, <1>4, <2>1 DEF IInv, LoopsOK, MidsOK, transVars, obsVars
  <2>. QED
    BY <1>2, <2>2, <2>3 DEF IInv
<1>6. CASE s \notin armed /\ MayRetransmit(n)
  <2>1. /\ trans' = [trans EXCEPT ![s].retrans = n]
        /\ armed' = armed \cup {s}
        /\ UNCHANGED <<transactions_list, obsVars>>
        /\ check_cursor' = Advance(check_cursor, transactions_list)
    BY <1>6 DEF CheckTransaction
  <2>2. [trans[s] EXCEPT !.retrans = n] \in Transaction
    BY <1>1, <1>6, ErCoapAssumption DEF Transaction, MayRetransmit
  <2>3. TransOK'
    BY <1>1, <2>1, <2>2 DEF IInv, TransOK
  <2>4. ObsOK'
    BY <2>1 DEF IInv, ObsOK, obsVars
  <2>5. LoopsOK' /\ MidsOK'
    BY <1>3, <1>4, <2>1 DEF IInv, LoopsOK, MidsOK, obsVars
  <2>. QED
    BY <1>2, <2>3, <2>4, <2>5 DEF IInv
<1>7. CASE s \notin armed /\ ~MayRetransmit(n)
  <2>1. /\ RemoveObserver(FirstMatch(observers_list, ObserversOf(trans[s].client)))
        /\ coap_clear_transaction(s)
        /\ check_cursor' = 0
    BY <1>7 DEF CheckTransaction
  <2>2. TransOK' /\ ObsOK'
    BY <2>1, ClearTransaction, RemovedObserver DEF IInv
  <2>3. Len(transactions_list') \in Nat /\ Len(observers_list') \in Nat
    BY <2>2 DEF TransOK, ObsOK
  <2>4. notify_cursor' \in [Urls -> 0..Len(observers_list')]
    BY <1>3, <2>3 DEF IInv, LoopsOK
  <2>5. LoopsOK' /\ MidsOK'
    BY <1>3, <2>1, <2>3, <2>4 DEF IInv, LoopsOK, MidsOK
  <2>. QED
    BY <1>2, <2>2, <2>5 DEF IInv
<1>. QED
  BY <1>5, <1>6, <1>7

LEMMA NotifyObserversIInv ==
  ASSUME IInv, NEW u \in Urls, NotifyObservers(u)
  PROVE  IInv'
<1>1. TransOK' /\ ObsOK' /\ RestOK'
  BY DEF IInv, TransOK, ObsOK, RestOK, NotifyObservers, transVars, obsVars
<1>2. Len(observers_list) \in Nat \ {0}
  BY DEF IInv, ObsOK, NotifyObservers
<1>3. notify_cursor' \in [Urls -> 0..Len(observers_list)]
  BY <1>2 DEF IInv, LoopsOK, NotifyObservers
<1>4. /\ \A v \in Urls : notify_cursor'[v] > 0 => v = u
      /\ notify_cursor'[u] = 1
  BY DEF IInv, LoopsOK, Idle, NotifyObservers
<1>5. LoopsOK'
  BY <1>3, <1>4 DEF IInv, LoopsOK, Idle, NotifyObservers, transVars, obsVars
<1>6. MidsOK'
  BY <1>2, <1>4 DEF IInv, MidsOK, NotifyObservers, obsVars
<1>. QED
  BY <1>1, <1>5, <1>6 DEF IInv

\* The observer a notification loop stands at is registered, and an id is left
\* for it.
LEMMA NotifiedIsRegistered ==
  ASSUME IInv, NEW u \in Urls, notify_cursor[u] > 0
  PROVE  /\ observers_list[notify_cursor[u]] \in DOMAIN obs
         /\ obs[observers_list[notify_cursor[u]]] \in Observer
         /\ current_mid + 1 \in 1..MaxMid
<1>1. notify_cursor[u] \in 1..Len(observers_list)
  BY DEF IInv, LoopsOK
<1>2. observers_list[notify_cursor[u]] \in ToSet(observers_list)
  BY <1>1 DEF IInv, ObsOK, ToSet
<1>3. current_mid + 1 \in 1..MaxMid
  BY <1>1, ErCoapAssumption DEF IInv, MidsOK
<1>. QED
  BY <1>2, <1>3 DEF IInv, ObsOK

LEMMA NotifyObserverIInv ==
  ASSUME IInv, NEW u \in Urls, NEW refresh \in BOOLEAN, NotifyObserver(u, refresh)
  PROVE  IInv'
<1> DEFINE o    == observers_list[notify_cursor[u]]
           mid  == current_mid + 1
           s    == memb_alloc(TransactionSlot, DOMAIN trans)
           con  == refresh \/ u \in EventUrls
           next == Advance(notify_cursor[u], observers_list)
<1>1. /\ o \in DOMAIN obs /\ obs[o] \in Observer
      /\ mid \in 1..MaxMid
  BY NotifiedIsRegistered DEF NotifyObserver
<1>2. /\ notify_cursor' = [notify_cursor EXCEPT ![u] = next]
      /\ observers_list' = observers_list
      /\ check_cursor' = check_cursor
  BY DEF NotifyObserver
<1>3. /\ next \in 0..Len(observers_list)
      /\ next > 0 => next = notify_cursor[u] + 1
  BY AdvanceInList DEF IInv, LoopsOK, ObsOK
<1>4. /\ check_cursor = 0
      /\ \A v \in Urls : notify_cursor[v] > 0 => v = u
      /\ notify_cursor \in [Urls -> 0..Len(observers_list)]
  BY DEF IInv, LoopsOK, NotifyObserver
<1>5. s # NULL => s \in TransactionSlot /\ s \notin DOMAIN trans
  BY MembAlloc, ErCoapAssumption DEF TransactionSlot
<1>. HIDE DEF s, next
<1>6. current_mid' \in {current_mid, mid}
  BY DEF NotifyObserver, s
<1>7. TransOK'
  <2>1. CASE UNCHANGED transVars
    BY <2>1 DEF IInv, TransOK, transVars
  <2>2. CASE s # NULL /\ TransientTransaction(s)
    BY <2>2, Transient DEF IInv
  <2>3. CASE s # NULL /\ OpenTransaction(s, mid, obs[o].client)
    <3>1. obs[o].client \in Clients
      BY <1>1 DEF Observer
    <3>. HIDE DEF mid, o
    <3>. QED
      BY <1>1, <1>5, <2>3, <3>1, OpenedTransaction DEF IInv
  <2>. QED
    BY <2>1, <2>2, <2>3 DEF NotifyObserver, s
<1>8. ObsOK'
  <2>1. obs' = obs \/ obs' = [obs EXCEPT ![o].last_mid = mid]
    BY DEF NotifyObserver
  <2>2. [obs[o] EXCEPT !.last_mid = mid] \in Observer
    BY <1>1 DEF Observer
  <2>. QED
    BY <1>1, <1>2, <2>1, <2>2 DEF IInv, ObsOK
<1>9. LoopsOK'
  <2>1. notify_cursor' \in [Urls -> 0..Len(observers_list')]
    BY <1>2, <1>3, <1>4
  <2>2. \A v \in Urls : notify_cursor'[v] > 0 => v = u
    BY <1>2, <1>4
  <2>3. check_cursor' = 0 /\ Len(transactions_list') \in Nat
    BY <1>2, <1>4, <1>7 DEF TransOK
  <2>. QED
    BY <2>1, <2>2, <2>3 DEF LoopsOK
<1>10. MidsOK'
  <2>1. current_mid \in 0..MaxMid
    BY DEF IInv, MidsOK
  <2>2. current_mid' \in 0..MaxMid
    BY <1>1, <1>6, <2>1, ErCoapAssumption
  <2>3. ASSUME NEW v \in Urls, notify_cursor'[v] > 0
        PROVE  current_mid' + Len(observers_list') - notify_cursor'[v] + 1 <= MaxMid
    <3>1. v = u /\ notify_cursor'[v] = next /\ next = notify_cursor[u] + 1
      BY <1>2, <1>3, <1>4, <2>3
    <3>2. current_mid + Len(observers_list) - notify_cursor[u] + 1 <= MaxMid
      BY DEF IInv, MidsOK, NotifyObserver
    <3>3. Len(observers_list) \in Nat /\ notify_cursor[u] \in Int
      BY <1>4 DEF IInv, ObsOK
    <3>. QED
      BY <1>2, <1>6, <2>1, <3>1, <3>2, <3>3, ErCoapAssumption, SMTT(30)
  <2>. QED
    BY <2>2, <2>3 DEF MidsOK
<1>11. RestOK'
  <2>1. /\ transaction' = transaction /\ timer_events' = timer_events
        /\ \/ sent' = sent
           \/ sent' = sent \cup {[mid |-> mid, client |-> obs[o].client,
                                  url |-> u, con |-> con]}
    BY DEF NotifyObserver
  <2>2. [mid |-> mid, client |-> obs[o].client, url |-> u, con |-> con] \in Notification
    BY <1>1 DEF Notification, Observer
  <2>. QED
    BY <2>1, <2>2 DEF IInv, RestOK
<1>. QED
  BY <1>7, <1>8, <1>9, <1>10, <1>11 DEF IInv

LEMMA ReceiveRequestIInv ==
  ASSUME IInv, NEW c \in Clients, NEW u \in Urls,
         NEW observe \in BOOLEAN, NEW ok \in BOOLEAN, NEW con \in BOOLEAN,
         ReceiveRequest(c, u, observe, ok, con)
  PROVE  IInv'
<1> DEFINE s == memb_alloc(TransactionSlot, DOMAIN trans)
<1>1. s = NULL \/ s \in TransactionSlot
  BY MembAlloc, ErCoapAssumption DEF TransactionSlot
<1>. HIDE DEF s
<1>2. TransOK'
  BY Transient DEF IInv, ReceiveRequest, s, TransOK, transVars
<1>3. ObsOK'
  <2>1. CASE UNCHANGED obsVars
    BY <2>1 DEF IInv, ObsOK, obsVars
  <2>2. CASE coap_add_observer(c, u)
    BY <2>2, AddedObserver DEF IInv
  <2>3. CASE RemoveObserver(FirstMatch(observers_list, ObserversOfUrl(c, u)))
    BY <2>3, RemovedObserver DEF IInv
  <2>. QED
    BY <2>1, <2>2, <2>3 DEF ReceiveRequest, coap_observe_handler
<1>4. current_mid' \in 0..MaxMid
  BY ErCoapAssumption DEF IInv, MidsOK, ReceiveRequest
<1>5. LoopsOK' /\ MidsOK'
  BY <1>2, <1>3, <1>4, IdleKeepsLoops
     DEF IInv, ReceiveRequest, TransOK, ObsOK
<1>6. RestOK'
  BY <1>1 DEF IInv, RestOK, ReceiveRequest, s
<1>. QED
  BY <1>2, <1>3, <1>5, <1>6 DEF IInv

LEMMA ReceiveReplyIInv ==
  ASSUME IInv, NEW m \in sent, NEW rst \in BOOLEAN, ReceiveReply(m, rst)
  PROVE  IInv'
<1>1. TransOK'
  BY ClearTransaction DEF IInv, ReceiveReply
<1>2. ObsOK'
  <2>1. CASE rst
    BY <2>1, RemovedObserver DEF IInv, ReceiveReply
  <2>2. CASE ~rst
    BY <2>2 DEF IInv, ObsOK, ReceiveReply, obsVars
  <2>. QED
    BY <2>1, <2>2
<1>3. LoopsOK' /\ MidsOK'
  BY <1>1, <1>2, IdleKeepsLoops DEF IInv, ReceiveReply, TransOK, ObsOK, MidsOK
<1>4. RestOK'
  BY DEF IInv, RestOK, ReceiveReply
<1>. QED
  BY <1>1, <1>2, <1>3, <1>4 DEF IInv

LEMMA ReceiveRejectedIInv ==
  ASSUME IInv, ReceiveRejected
  PROVE  IInv'
<1>1. TransOK'
  BY ClearTransaction DEF IInv, ReceiveRejected
<1>2. ObsOK'
  BY DEF IInv, ObsOK, ReceiveRejected, obsVars
<1>3. LoopsOK' /\ MidsOK'
  BY <1>1, <1>2, IdleKeepsLoops DEF IInv, ReceiveRejected, TransOK, ObsOK, MidsOK
<1>4. RestOK'
  BY DEF IInv, RestOK, ReceiveRejected
<1>. QED
  BY <1>1, <1>2, <1>3, <1>4 DEF IInv

LEMMA NextIInv == IInv /\ [Next]_vars => IInv'
<1> SUFFICES ASSUME IInv, [Next]_vars
             PROVE  IInv'
  OBVIOUS
<1>1. CASE \E s \in TransactionSlot : EtimerExpires(s)
  BY <1>1, EtimerExpiresIInv
<1>2. CASE CheckTransactions
  BY <1>2, CheckTransactionsIInv
<1>3. CASE CheckTransaction
  BY <1>3, CheckTransactionIInv
<1>4. CASE \E u \in Urls : NotifyObservers(u)
  BY <1>4, NotifyObserversIInv
<1>5. CASE \E u \in Urls, refresh \in BOOLEAN : NotifyObserver(u, refresh)
  BY <1>5, NotifyObserverIInv
<1>6. CASE \E c \in Clients, u \in Urls, observe, ok, con \in BOOLEAN :
             ReceiveRequest(c, u, observe, ok, con)
  BY <1>6, ReceiveRequestIInv
<1>7. CASE \E m \in sent, rst \in BOOLEAN : ReceiveReply(m, rst)
  BY <1>7, ReceiveReplyIInv
<1>8. CASE ReceiveRejected
  BY <1>8, ReceiveRejectedIInv
<1>9. CASE UNCHANGED vars
  BY <1>9 DEF vars, transVars, obsVars, cursorVars, IInv, TransOK, ObsOK,
              LoopsOK, MidsOK, RestOK
<1>. QED
  BY <1>1, <1>2, <1>3, <1>4, <1>5, <1>6, <1>7, <1>8, <1>9 DEF Next

LEMMA Invariance == Spec => []IInv
BY InitIInv, NextIInv, PTL DEF Spec

-----------------------------------------------------------------------------

\* Every variable keeps its type: the loops never index past their lists, the
\* counters stay in their bounds and no transaction is retransmitted beyond
\* COAP_MAX_RETRANSMIT.
THEOREM TypeCorrect == Spec => []TypeOK
<1>1. IInv => TypeOK
  BY DEF IInv, TransOK, ObsOK, LoopsOK, MidsOK, RestOK, TypeOK
<1>. QED
  BY <1>1, Invariance, PTL

\* No block of the two pools leaks, is listed twice, or is on a list or timed
\* while it is free.
THEOREM PoolsCorrect == Spec => []PoolsMatchLists
<1>1. IInv => PoolsMatchLists
  BY DEF IInv, TransOK, ObsOK, PoolsMatchLists
<1>. QED
  BY <1>1, Invariance, PTL

-----------------------------------------------------------------------------
(***************************************************************************)
(* One relation per client and resource.                                   *)
(***************************************************************************)

\* A pool of observers that only shrank, or kept clients and urls, keeps it.
LEMMA FewerRelations ==
  ASSUME OneRelationPerUrl, DOMAIN obs' \subseteq DOMAIN obs,
         \A o \in DOMAIN obs' : /\ obs'[o].client = obs[o].client
                                /\ obs'[o].url = obs[o].url
  PROVE  OneRelationPerUrl'
BY DEF OneRelationPerUrl

\* coap_remove_observer() frees one observer at most.
LEMMA RemovalKeepsOneRelation ==
  ASSUME OneRelationPerUrl, ObsOK, NEW o, RemoveObserver(o)
  PROVE  OneRelationPerUrl'
<1>1. /\ DOMAIN obs' = DOMAIN obs \ {o}
      /\ \A x \in DOMAIN obs \ {o} : obs'[x] = obs[x]
  BY RemovedObserver
<1>. QED
  BY <1>1, FewerRelations

\* The one relation a registration can clash with is the one it replaces.
LEMMA RegistrationKeepsOneRelation ==
  ASSUME OneRelationPerUrl, ObsOK, NEW c \in Clients, NEW u \in Urls,
         coap_add_observer(c, u)
  PROVE  OneRelationPerUrl'
<1> DEFINE old   == FirstMatch(observers_list, ObserversOfUrl(c, u))
           kept  == DOMAIN obs \ {old}
           fresh == [client |-> c, url |-> u, last_mid |-> 0]
<1>1. /\ \A x \in kept : x \in DOMAIN obs' /\ obs'[x] = obs[x]
      /\ \A x \in DOMAIN obs' : x \in kept \/ obs'[x] = fresh
      /\ \A x, y \in DOMAIN obs' \ kept : x = y
  BY AddedObserver
<1>2. \A x \in kept : ~(obs[x].client = c /\ obs[x].url = u)
  <2>1. IF ToSet(observers_list) \cap ObserversOfUrl(c, u) = {}
        THEN old = NULL
        ELSE old \in ToSet(observers_list) \cap ObserversOfUrl(c, u)
    BY FirstMatchFound, ErCoapAssumption DEF ObsOK, ObserverSlot
  <2>2. ObserversOfUrl(c, u)
          = {x \in DOMAIN obs : obs[x].client = c /\ obs[x].url = u}
    BY DEF ObserversOfUrl, ObserversOf
  <2>3. ToSet(observers_list) = DOMAIN obs
    BY DEF ObsOK
  <2>. HIDE DEF old
  <2>. QED
    BY <2>1, <2>2, <2>3 DEF OneRelationPerUrl
<1>3. ASSUME NEW x \in DOMAIN obs', NEW y \in DOMAIN obs',
             obs'[x].client = obs'[y].client, obs'[x].url = obs'[y].url
      PROVE  x = y
  <2>1. fresh.client = c /\ fresh.url = u
    OBVIOUS
  <2>2. CASE x \in kept /\ y \in kept
    BY <1>1, <1>3, <2>2 DEF OneRelationPerUrl
  <2>3. CASE x \in kept /\ y \notin kept
    BY <1>1, <1>2, <1>3, <2>1, <2>3
  <2>4. CASE x \notin kept /\ y \in kept
    BY <1>1, <1>2, <1>3, <2>1, <2>4
  <2>5. CASE x \notin kept /\ y \notin kept
    BY <1>1, <2>5
  <2>. QED
    BY <2>2, <2>3, <2>4, <2>5
<1>. QED
  BY <1>3 DEF OneRelationPerUrl

LEMMA NextOneRelation == OneRelationPerUrl /\ IInv /\ [Next]_vars => OneRelationPerUrl'
<1> SUFFICES ASSUME OneRelationPerUrl, IInv, [Next]_vars
             PROVE  OneRelationPerUrl'
  OBVIOUS
<1>1. CASE UNCHANGED obsVars
  BY <1>1, FewerRelations DEF obsVars
<1>2. CASE CheckTransaction
  <2>1. CASE UNCHANGED obsVars
    BY <2>1, <1>1
  <2>2. CASE \E o : RemoveObserver(o)
    BY <2>2, RemovalKeepsOneRelation DEF IInv
  <2>. QED
    BY <1>2, <2>1, <2>2 DEF CheckTransaction
<1>3. CASE \E u \in Urls, refresh \in BOOLEAN : NotifyObserver(u, refresh)
  <2>1. PICK u \in Urls, refresh \in BOOLEAN : NotifyObserver(u, refresh)
    BY <1>3
  <2> DEFINE o == observers_list[notify_cursor[u]]
  <2>2. o \in DOMAIN obs /\ obs[o] \in Observer
    BY <2>1, NotifiedIsRegistered DEF NotifyObserver
  <2>3. obs' = obs \/ obs' = [obs EXCEPT ![o].last_mid = current_mid + 1]
    BY <2>1 DEF NotifyObserver
  <2>4. [obs[o] EXCEPT !.last_mid = current_mid + 1].client = obs[o].client
        /\ [obs[o] EXCEPT !.last_mid = current_mid + 1].url = obs[o].url
    BY <2>2 DEF Observer
  <2>. HIDE DEF o
  <2>5. /\ DOMAIN obs' = DOMAIN obs
        /\ \A x \in DOMAIN obs : /\ obs'[x].client = obs[x].client
                                 /\ obs'[x].url = obs[x].url
    BY <2>2, <2>3, <2>4 DEF IInv, ObsOK
  <2>. QED
    BY <2>5, FewerRelations
<1>4. CASE \E c \in Clients, u \in Urls, observe, ok, con \in BOOLEAN :
             ReceiveRequest(c, u, observe, ok, con)
  <2>1. PICK c \in Clients, u \in Urls, observe, ok, con \in BOOLEAN :
               ReceiveRequest(c, u, observe, ok, con)
    BY <1>4
  <2>2. \/ UNCHANGED obsVars
        \/ coap_add_observer(c, u)
        \/ RemoveObserver(FirstMatch(observers_list, ObserversOfUrl(c, u)))
    BY <2>1 DEF ReceiveRequest, coap_observe_handler
  <2>. QED
    BY <1>1, <2>2, RegistrationKeepsOneRelation, RemovalKeepsOneRelation DEF IInv
<1>5. CASE \E m \in sent, rst \in BOOLEAN : ReceiveReply(m, rst)
  <2>1. PICK m \in sent, rst \in BOOLEAN : ReceiveReply(m, rst)
    BY <1>5
  <2>2. UNCHANGED obsVars \/ RemoveObserver(FirstMatch(observers_list,
                                 ObserversLastMid(m.client, m.mid)))
    BY <2>1 DEF ReceiveReply
  <2>. QED
    BY <1>1, <2>2, RemovalKeepsOneRelation DEF IInv
<1>6. CASE \/ \E s \in TransactionSlot : EtimerExpires(s)
           \/ CheckTransactions
           \/ \E u \in Urls : NotifyObservers(u)
           \/ ReceiveRejected
           \/ UNCHANGED vars
  BY <1>1, <1>6 DEF EtimerExpires, CheckTransactions, NotifyObservers,
                    ReceiveRejected, vars
<1>. QED
  BY <1>2, <1>3, <1>4, <1>5, <1>6 DEF Next

\* However often a client registers, and however its registrations mix with
\* notifications, resets and timeouts, it observes a resource at most once:
\* coap_add_observer() replaces the only relation it could clash with.
THEOREM OneRelationCorrect == Spec => []OneRelationPerUrl
<1>1. Init => OneRelationPerUrl
  BY DEF Init, OneRelationPerUrl
<1>. QED
  BY <1>1, NextOneRelation, Invariance, PTL DEF Spec

-----------------------------------------------------------------------------
(***************************************************************************)
(* No stranded transaction.  While coap_check_transactions() runs, the     *)
(* event it was entered for still counts, and it has re-armed every        *)
(* transaction it has left behind: the loop ends with none expired, or by  *)
(* freeing the one the event stood for.                                    *)
(***************************************************************************)

Expired == DOMAIN trans \ armed

EventsSuffice ==
  /\ check_cursor = 0 => Cardinality(Expired) <= timer_events
  /\ check_cursor > 0 =>
       /\ Cardinality(Expired) <= timer_events + 1
       /\ \A i \in 1..Len(transactions_list) :
            transactions_list[i] \in Expired => i >= check_cursor

LEMMA ExpiredIsFinite ==
  ASSUME TransOK
  PROVE  IsFiniteSet(Expired) /\ Cardinality(Expired) \in Nat
<1>1. IsFiniteSet(TransactionSlot)
  BY FS_Interval, ErCoapAssumption DEF TransactionSlot
<1>2. Expired \subseteq TransactionSlot
  BY DEF TransOK, Expired
<1>3. IsFiniteSet(Expired)
  BY <1>1, <1>2, FS_Subset
<1>. QED
  BY <1>3, FS_CardinalityType

\* Outside the check loop, a handler that lets no transaction expire and takes
\* no event keeps the balance.
LEMMA FewerExpired ==
  ASSUME TransOK, RestOK, EventsSuffice, check_cursor = 0, check_cursor' = 0,
         timer_events' = timer_events, Expired' \subseteq Expired
  PROVE  EventsSuffice'
<1>1. Cardinality(Expired') <= Cardinality(Expired) /\ Cardinality(Expired') \in Nat
  BY ExpiredIsFinite, FS_Subset, FS_CardinalityType
<1>2. Cardinality(Expired) <= timer_events /\ Cardinality(Expired) \in Nat
  BY ExpiredIsFinite DEF EventsSuffice
<1>3. timer_events \in Nat
  BY ErCoapAssumption DEF RestOK
<1>. QED
  BY <1>1, <1>2, <1>3 DEF EventsSuffice

LEMMA EtimerExpiresKeepsEvents ==
  ASSUME IInv, EventsSuffice, NEW s \in TransactionSlot, EtimerExpires(s)
  PROVE  EventsSuffice'
<1>1. Expired' = Expired \cup {s}
  BY DEF IInv, TransOK, EtimerExpires, Expired
<1>2. Cardinality(Expired') <= Cardinality(Expired) + 1 /\ Cardinality(Expired') \in Nat
  <2>1. /\ IsFiniteSet(Expired) /\ Cardinality(Expired) \in Nat
        /\ IsFiniteSet(Expired \cup {s})
        /\ Cardinality(Expired \cup {s}) = IF s \in Expired THEN Cardinality(Expired)
                                           ELSE Cardinality(Expired) + 1
    BY ExpiredIsFinite, FS_AddElement DEF IInv
  <2>. QED
    BY <1>1, <2>1
<1>3. /\ check_cursor = 0 /\ check_cursor' = 0
      /\ timer_events' = timer_events + 1 /\ timer_events \in Nat
  BY ErCoapAssumption DEF IInv, RestOK, EtimerExpires, Idle, cursorVars
<1>4. Cardinality(Expired) <= timer_events /\ Cardinality(Expired) \in Nat
  BY <1>3, ExpiredIsFinite DEF EventsSuffice, IInv
<1>. QED
  BY <1>2, <1>3, <1>4 DEF EventsSuffice

LEMMA CheckTransactionsKeepsEvents ==
  ASSUME IInv, EventsSuffice, CheckTransactions
  PROVE  EventsSuffice'
<1>1. /\ check_cursor = 0 /\ check_cursor' = Advance(0, transactions_list)
      /\ timer_events' = timer_events - 1 /\ timer_events \in Nat \ {0}
      /\ transactions_list' = transactions_list
      /\ Expired' = Expired
  BY ErCoapAssumption
     DEF IInv, RestOK, CheckTransactions, Idle, transVars, Expired
<1>2. Cardinality(Expired) <= timer_events /\ Cardinality(Expired) \in Nat
  BY <1>1, ExpiredIsFinite DEF EventsSuffice, IInv
<1>3. Len(transactions_list) \in Nat
  BY DEF IInv, TransOK
<1>4. CASE Len(transactions_list) = 0
  <2>1. Expired = {}
    BY <1>4 DEF IInv, TransOK, Expired, ToSet
  <2>2. check_cursor' = 0 /\ Cardinality(Expired') = 0
    BY <1>1, <1>4, <2>1, FS_EmptySet DEF Advance
  <2>. QED
    BY <1>1, <2>2 DEF EventsSuffice
<1>5. CASE Len(transactions_list) > 0
  <2>1. check_cursor' = 1
    BY <1>1, <1>3, <1>5 DEF Advance
  <2>. QED
    BY <1>1, <1>2, <2>1 DEF EventsSuffice
<1>. QED
  BY <1>3, <1>4, <1>5

LEMMA CheckTransactionKeepsEvents ==
  ASSUME IInv, EventsSuffice, CheckTransaction
  PROVE  EventsSuffice'
<1> DEFINE s == transactions_list[check_cursor]
           i == check_cursor
<1>1. /\ i \in 1..Len(transactions_list)
      /\ Len(transactions_list) \in Nat
      /\ timer_events \in Nat /\ timer_events' = timer_events
  BY ErCoapAssumption DEF IInv, LoopsOK, TransOK, RestOK, CheckTransaction
<1>2. /\ Cardinality(Expired) <= timer_events + 1
      /\ \A j \in 1..Len(transactions_list) :
           transactions_list[j] \in Expired => j >= i
  BY <1>1 DEF EventsSuffice
<1>3. s \in DOMAIN trans /\ IsFiniteSet(Expired) /\ Cardinality(Expired) \in Nat
  BY CheckedIsOpen, ExpiredIsFinite DEF IInv, CheckTransaction
\* Whichever way the loop goes on, it leaves no expired transaction behind.
<1>4. ASSUME transactions_list' = transactions_list,
             check_cursor' = Advance(i, transactions_list),
             Expired' \subseteq Expired, s \notin Expired'
      PROVE  EventsSuffice'
  <2>1. \A j \in 1..Len(transactions_list) :
          transactions_list[j] \in Expired' => j >= i + 1
    BY <1>1, <1>2, <1>4
  <2>2. Cardinality(Expired') <= timer_events + 1 /\ Cardinality(Expired') \in Nat
    BY <1>1, <1>2, <1>3, <1>4, FS_Subset, FS_CardinalityType
  <2>3. CASE i < Len(transactions_list)
    BY <1>1, <1>4, <2>1, <2>2, <2>3 DEF EventsSuffice, Advance
  <2>4. CASE i = Len(transactions_list)
    <3>1. Expired' = {}
      <4>1. Expired' \subseteq ToSet(transactions_list)
        BY <1>4 DEF Expired, IInv, TransOK
      <4>. QED
        BY <1>1, <2>1, <2>4, <4>1 DEF ToSet
    <3>2. Cardinality(Expired') = 0 /\ check_cursor' = 0
      BY <1>1, <1>4, <2>4, <3>1, FS_EmptySet DEF Advance
    <3>. QED
      BY <1>1, <3>2 DEF EventsSuffice
  <2>. QED
    BY <1>1, <2>3, <2>4
<1>5. CASE s \in armed
  <2>1. /\ UNCHANGED transVars
        /\ check_cursor' = Advance(i, transactions_list)
    BY <1>5 DEF CheckTransaction
  <2>. QED
    BY <1>4, <1>5, <2>1 DEF transVars, Expired
<1>6. CASE s \notin armed /\ MayRetransmit(trans[s].retrans + 1)
  <2>1. /\ DOMAIN trans' = DOMAIN trans
        /\ armed' = armed \cup {s}
        /\ transactions_list' = transactions_list
        /\ check_cursor' = Advance(i, transactions_list)
    BY <1>6 DEF CheckTransaction
  <2>. QED
    BY <1>4, <2>1 DEF Expired
<1>7. CASE s \notin armed /\ ~MayRetransmit(trans[s].retrans + 1)
  <2>1. coap_clear_transaction(s) /\ check_cursor' = 0
    BY <1>7 DEF CheckTransaction
  <2>2. /\ DOMAIN trans' = DOMAIN trans \ {s}
        /\ armed' = armed \ {s}
    BY <2>1, ClearTransaction DEF IInv
  <2>3. s \in Expired /\ Expired' = Expired \ {s}
    BY <1>3, <1>7, <2>2 DEF Expired
  <2>4. Cardinality(Expired') = Cardinality(Expired) - 1
    <3>. HIDE DEF s
    <3>. QED
      BY <1>3, <2>3, FS_RemoveElement
  <2>. QED
    BY <1>1, <1>2, <1>3, <2>1, <2>4 DEF EventsSuffice
<1>. QED
  BY <1>5, <1>6, <1>7

LEMMA ClearingKeepsEvents ==
  ASSUME TransOK, NEW s, coap_clear_transaction(s)
  PROVE  Expired' \subseteq Expired
BY ClearTransaction DEF Expired

LEMMA NotifyObserverKeepsEvents ==
  ASSUME IInv, EventsSuffice, NEW u \in Urls, NEW refresh \in BOOLEAN,
         NotifyObserver(u, refresh)
  PROVE  EventsSuffice'
<1> DEFINE s == memb_alloc(TransactionSlot, DOMAIN trans)
           o == observers_list[notify_cursor[u]]
<1>1. check_cursor = 0 /\ check_cursor' = 0 /\ timer_events' = timer_events
  BY DEF IInv, LoopsOK, NotifyObserver
<1>2. Expired' \subseteq Expired
  <2>1. CASE UNCHANGED transVars
    BY <2>1 DEF transVars, Expired
  <2>2. s # NULL => s \in TransactionSlot /\ s \notin DOMAIN trans
    BY MembAlloc, ErCoapAssumption DEF TransactionSlot
  <2>. HIDE DEF s
  <2>3. CASE s # NULL /\ TransientTransaction(s)
    BY <2>2, <2>3 DEF TransientTransaction, Expired
  <2>4. CASE s # NULL /\ OpenTransaction(s, current_mid + 1, obs[o].client)
    <3>1. DOMAIN trans' = DOMAIN trans \cup {s} /\ armed' = armed \cup {s}
      BY <2>4 DEF OpenTransaction, Filled
    <3>. QED
      BY <3>1 DEF Expired
  <2>. QED
    BY <2>1, <2>3, <2>4 DEF NotifyObserver, s
<1>. QED
  BY <1>1, <1>2, FewerExpired DEF IInv

LEMMA ReceiveRequestKeepsEvents ==
  ASSUME IInv, EventsSuffice, NEW c \in Clients, NEW u \in Urls,
         NEW observe \in BOOLEAN, NEW ok \in BOOLEAN, NEW con \in BOOLEAN,
         ReceiveRequest(c, u, observe, ok, con)
  PROVE  EventsSuffice'
<1> DEFINE s == memb_alloc(TransactionSlot, DOMAIN trans)
<1>1. check_cursor = 0 /\ check_cursor' = 0 /\ timer_events' = timer_events
  BY DEF ReceiveRequest, Idle, cursorVars
<1>2. s # NULL => s \notin DOMAIN trans
  BY MembAlloc, ErCoapAssumption DEF TransactionSlot
<1>. HIDE DEF s
<1>3. Expired' \subseteq Expired
  BY <1>2 DEF ReceiveRequest, TransientTransaction, transVars, Expired, s
<1>. QED
  BY <1>1, <1>3, FewerExpired DEF IInv

LEMMA NextEventsSuffice == IInv /\ EventsSuffice /\ [Next]_vars => EventsSuffice'
<1> SUFFICES ASSUME IInv, EventsSuffice, [Next]_vars
             PROVE  EventsSuffice'
  OBVIOUS
<1>1. CASE \E s \in TransactionSlot : EtimerExpires(s)
  BY <1>1, EtimerExpiresKeepsEvents
<1>2. CASE CheckTransactions
  BY <1>2, CheckTransactionsKeepsEvents
<1>3. CASE CheckTransaction
  BY <1>3, CheckTransactionKeepsEvents
<1>4. CASE \E u \in Urls : NotifyObservers(u)
  BY <1>4 DEF NotifyObservers, transVars, EventsSuffice, Expired
<1>5. CASE \E u \in Urls, refresh \in BOOLEAN : NotifyObserver(u, refresh)
  BY <1>5, NotifyObserverKeepsEvents
<1>6. CASE \E c \in Clients, u \in Urls, observe, ok, con \in BOOLEAN :
             ReceiveRequest(c, u, observe, ok, con)
  BY <1>6, ReceiveRequestKeepsEvents
<1>7. CASE (\E m \in sent, rst \in BOOLEAN : ReceiveReply(m, rst)) \/ ReceiveRejected
  <2>1. /\ \E s : coap_clear_transaction(s)
        /\ check_cursor = 0 /\ check_cursor' = 0 /\ timer_events' = timer_events
    BY <1>7 DEF ReceiveReply, ReceiveRejected, Idle, cursorVars
  <2>2. Expired' \subseteq Expired
    BY <2>1, ClearingKeepsEvents DEF IInv
  <2>. QED
    BY <2>1, <2>2, FewerExpired DEF IInv
<1>8. CASE UNCHANGED vars
  BY <1>8 DEF vars, transVars, cursorVars, EventsSuffice, Expired
<1>. QED
  BY <1>1, <1>2, <1>3, <1>4, <1>5, <1>6, <1>7, <1>8 DEF Next

\* No open transaction is ever left without a timer that runs or an event that
\* will reach it, in spite of the check loop that ends at the first transaction
\* it frees.
THEOREM NoStrandedCorrect == Spec => []NoStrandedTransaction
<1>1. Init => EventsSuffice
  BY FS_EmptySet DEF Init, EventsSuffice, Expired
<1>2. EventsSuffice => NoStrandedTransaction
  BY DEF EventsSuffice, NoStrandedTransaction, Idle, Expired
<1>. QED
  BY <1>1, <1>2, NextEventsSuffice, Invariance, PTL DEF Spec

-----------------------------------------------------------------------------
(***************************************************************************)
(* Who frees a transaction.                                                *)
(***************************************************************************)

Freed == DOMAIN trans \ DOMAIN trans'

\* The two ways in which the transaction of a CON notification should end.
Answered(s) ==
  \E m \in sent, rst \in BOOLEAN : m.mid = trans[s].mid /\ ReceiveReply(m, rst)
GivenUp(s) == trans[s].retrans + 1 = COAP_MAX_RETRANSMIT /\ CheckTransaction

\* A reply frees no transaction but one with its message id.
LEMMA ReplyFreesItsOwn ==
  ASSUME IInv, NEW m \in sent, NEW rst \in BOOLEAN, ReceiveReply(m, rst), NEW s \in Freed
  PROVE  m.mid = trans[s].mid
<1> DEFINE x == FirstMatch(transactions_list, OpenWithMid(m.mid))
<1>1. s = x
  <2>1. coap_clear_transaction(x)
    BY DEF ReceiveReply
  <2>. HIDE DEF x
  <2>. QED
    BY <2>1, ClearTransaction DEF IInv, Freed
<1>2. x = NULL \/ x \in OpenWithMid(m.mid)
  BY FirstMatchFound, ErCoapAssumption DEF IInv, TransOK, TransactionSlot
<1>3. s \in TransactionSlot /\ s # NULL
  BY ErCoapAssumption DEF IInv, TransOK, Freed, TransactionSlot, NULL
<1>. QED
  BY <1>1, <1>2, <1>3 DEF OpenWithMid

\* The loop frees the transaction it stands at, and only after its last
\* retransmission.
LEMMA LoopFreesGivenUp ==
  ASSUME IInv, CheckTransaction, NEW s \in Freed
  PROVE  trans[s].retrans + 1 = COAP_MAX_RETRANSMIT
<1> DEFINE x == transactions_list[check_cursor]
<1>1. x \in DOMAIN trans /\ trans[x] \in Transaction
  BY CheckedIsOpen DEF CheckTransaction
<1>2. coap_clear_transaction(x) /\ ~MayRetransmit(trans[x].retrans + 1)
  BY DEF CheckTransaction, Freed, transVars
<1>3. s = x
  <2>. HIDE DEF x
  <2>. QED
    BY <1>2, ClearTransaction DEF IInv, Freed
<1>. QED
  BY <1>1, <1>2, <1>3, ErCoapAssumption DEF ErCoapAssumption, MayRetransmit, Transaction

LEMMA NextFrees ==
  ASSUME IInv, [Next]_vars, NEW s \in Freed
  PROVE  ReceiveRejected \/ Answered(s) \/ GivenUp(s)
<1>1. CASE \/ \E b \in TransactionSlot : EtimerExpires(b)
           \/ CheckTransactions
           \/ \E u \in Urls : NotifyObservers(u)
           \/ UNCHANGED vars
  BY <1>1 DEF Freed, EtimerExpires, CheckTransactions, NotifyObservers, transVars, vars
<1>2. CASE CheckTransaction
  BY <1>2, LoopFreesGivenUp DEF GivenUp
<1>3. CASE \E u \in Urls, refresh \in BOOLEAN : NotifyObserver(u, refresh)
  BY <1>3 DEF Freed, NotifyObserver, OpenTransaction, TransientTransaction, Filled,
       transVars
<1>4. CASE \E c \in Clients, u \in Urls, observe, ok, con \in BOOLEAN :
             ReceiveRequest(c, u, observe, ok, con)
  BY <1>4 DEF Freed, ReceiveRequest, TransientTransaction, transVars
<1>5. CASE \E m \in sent, rst \in BOOLEAN : ReceiveReply(m, rst)
  BY <1>5, ReplyFreesItsOwn DEF Answered
<1>. QED
  BY <1>1, <1>2, <1>3, <1>4, <1>5 DEF Next

\* A CON notification stays stored until its client answers or its retransmissions
\* are used up: a rejected datagram is the only other thing that frees one, whatever
\* blocks, message ids and timers there are.
THEOREM StoredCorrect == Spec => StoredUnlessRejected
<1>1. IInv /\ [Next]_vars =>
        [ReceiveRejected \/ \A s \in DOMAIN trans \ DOMAIN trans' :
           \/ \E m \in sent, rst \in BOOLEAN :
                m.mid = trans[s].mid /\ ReceiveReply(m, rst)
           \/ trans[s].retrans + 1 = COAP_MAX_RETRANSMIT /\ CheckTransaction]_vars
  BY NextFrees DEF Freed, Answered, GivenUp
<1>. QED
  BY <1>1, Invariance, PTL DEF Spec, StoredUnlessRejected
=============================================================================
