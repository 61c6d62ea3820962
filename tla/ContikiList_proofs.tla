-------------------------- MODULE ContikiList_proofs --------------------------
(***************************************************************************)
(* The list of processes is sound, and no protothread is entered while it  *)
(* runs, for every number of processes and every nesting of calls, exits   *)
(* and restarts, provided threads do not exit themselves and post no       *)
(* PROCESS_EVENT_INIT.                                                     *)
(*                                                                         *)
(* The pointers make a chain without repetition (Chain), which is what     *)
(* Walk, a recursive function, follows (ChainWalk, by induction on the     *)
(* least place where they would differ).  Whether a process is on it       *)
(* follows from its state and from the frames on the C stack (Sound): a    *)
(* process has at most one frame, but for the thread that exit_process()   *)
(* tells, and loops lie below all threads, so that do_poll() only ever     *)
(* finds its next process on the list.  What a loop over the list has      *)
(* before it (Ahead) survives processes that start and exit, so that a     *)
(* poll, once asked for, is not lost.                                      *)
(***************************************************************************)
EXTENDS ContikiProcess_proofs, WellFoundedInduction, FunctionTheorems, FiniteSetTheorems

\* The list that the pointers make.
Chain(l) ==
  /\ l \in Seq(Process)
  /\ \A i, j \in 1..Len(l) : l[i] = l[j] => i = j
  /\ process_list = IF l = << >> THEN NULL ELSE l[1]
  /\ \A i \in 1..Len(l) : next[l[i]] = IF i = Len(l) THEN NULL ELSE l[i + 1]

-----------------------------------------------------------------------------
(***************************************************************************)
(* The list.                                                               *)
(***************************************************************************)

LEMMA Least ==
  ASSUME NEW T \in SUBSET Nat, T # {}
  PROVE  \E m \in T : \A k \in T : m <= k
<1>1. PICK m \in T : \A k \in T : <<k, m>> \notin OpToRel(<, Nat)
  BY NatLessThanWellFounded, WFMin
<1>2. \A k \in T : ~(k < m)
  BY <1>1, Zenon DEF OpToRel
<1>. QED
  BY <1>2

LEMMA ChainWalk ==
  ASSUME NEW l, Chain(l)
  PROVE  /\ DOMAIN Walk = 1..(Cardinality(Process) + 1)
         /\ \A i \in DOMAIN Walk : Walk[i] = IF i <= Len(l) THEN l[i] ELSE NULL
<1> DEFINE D == 1..(Cardinality(Process) + 1)
           Step(w) == [i \in D |-> IF i = 1 THEN process_list
                                   ELSE IF w[i - 1] = NULL THEN NULL ELSE next[w[i - 1]]]
           v == [i \in D |-> IF i <= Len(l) THEN l[i] ELSE NULL]
<1>0. l \in Seq(Process) /\ Len(l) \in Nat /\ Cardinality(Process) \in Nat
  BY ContikiProcessAssumption, FS_CardinalityType DEF Chain
<1>1. v = Step(v)
  <2> SUFFICES ASSUME NEW i \in D
               PROVE  v[i] = Step(v)[i]
    OBVIOUS
  <2>1. CASE i = 1
    BY <1>0, <2>1 DEF Chain
  <2>2. CASE i # 1 
    <3>1. i \in Nat /\ i - 1 \in D /\ i > 1
      BY <1>0, <2>2
    <3>2. v[i - 1] = IF i - 1 <= Len(l) THEN l[i - 1] ELSE NULL
      BY <3>1
    <3>3. CASE i - 1 <= Len(l)
      <4>1. l[i - 1] \in Process /\ i - 1 \in 1..Len(l) /\ v[i - 1] # NULL
        BY <1>0, <3>1, <3>2, <3>3, ContikiProcessAssumption
      <4>2. next[l[i - 1]] = IF i - 1 = Len(l) THEN NULL ELSE l[i]
        BY <3>1, <4>1 DEF Chain
      <4>. QED
        BY <1>0, <2>2, <3>1, <3>2, <3>3, <4>1, <4>2
    <3>4. CASE ~(i - 1 <= Len(l))
      BY <1>0, <2>2, <3>1, <3>2, <3>4
    <3>. QED
      BY <3>3, <3>4
  <2>. QED
    BY <2>1, <2>2
<1>. HIDE DEF v
<1>2. Walk = Step(Walk)
  <2>1. Walk = CHOOSE w : w = Step(w)
    BY DEF Walk
  <2>. HIDE DEF Step
  <2>. QED
    BY <1>1, <2>1
<1>3. DOMAIN Walk = D
  BY <1>2
<1> DEFINE T == {i \in D : Walk[i] # v[i]}
<1>4. T = {}
  <2> SUFFICES ASSUME T # {}
               PROVE  FALSE
    OBVIOUS
  <2>1. T \in SUBSET Nat
    BY <1>0
  <2>2. PICK m \in T : \A k \in T : m <= k
    <3>. HIDE DEF T
    <3>. QED BY <2>1, Least
  <2>3. m \in D /\ Walk[m] # v[m]
    BY <2>2
  <2>4. Walk[m] = Step(Walk)[m] /\ v[m] = Step(v)[m]
    BY <1>1, <1>2
  <2>5. m # 1
    BY <2>3, <2>4
  <2>6. m - 1 \in D /\ m - 1 \notin T
    BY <1>0, <2>1, <2>2, <2>3, <2>5
  <2>7. Walk[m - 1] = v[m - 1]
    BY <2>6
  <2>. QED
    BY <2>3, <2>4, <2>5, <2>7
<1>. QED
  BY <1>3, <1>4 DEF v

LEMMA ChainFits ==
  ASSUME NEW l, Chain(l)
  PROVE  Len(l) \in Nat /\ Len(l) <= Cardinality(Process) /\ Cardinality(Process) \in Nat
<1>1. /\ l \in Seq(Process) /\ Len(l) \in Nat /\ IsFiniteSet(Process)
      /\ Cardinality(Process) \in Nat
  BY ContikiProcessAssumption, FS_CardinalityType DEF Chain
<1>2. l \in Injection(1..Len(l), Process)
  <2>1. l \in [1..Len(l) -> Process]
    BY <1>1, LenProperties
  <2>2. \A i, j \in 1..Len(l) : l[i] = l[j] => i = j
    BY DEF Chain
  <2>. QED
    BY <2>1, <2>2, Zenon DEF Injection, IsInjective
<1>3. Cardinality(1..Len(l)) <= Cardinality(Process)
  BY <1>1, <1>2, FS_Injection
<1>4. Cardinality(1..Len(l)) = Len(l)
  <2>1. 1 \in Int /\ Len(l) \in Int
    BY <1>1
  <2>2. Cardinality(1..Len(l)) = IF 1 > Len(l) THEN 0 ELSE Len(l) - 1 + 1
    BY <2>1, FS_Interval
  <2>. QED
    BY <1>1, <2>2
<1>. QED
  BY <1>1, <1>3, <1>4

\* The processes on the list.
ListSet == {p \in Process : OnList(p)}

LEMMA ChainSet == \A l : Chain(l) => ListSet = {l[i] : i \in 1..Len(l)}
<1> SUFFICES ASSUME NEW l, Chain(l)
             PROVE  ListSet = {l[i] : i \in 1..Len(l)}
  OBVIOUS
<1>1. /\ Len(l) \in Nat /\ Cardinality(Process) \in Nat /\ Len(l) <= Cardinality(Process)
      /\ \A i \in 1..Len(l) : l[i] \in Process
  BY ChainFits, ElementOfSeq DEF Chain
<1>2. /\ DOMAIN Walk = 1..(Cardinality(Process) + 1)
      /\ \A i \in DOMAIN Walk : Walk[i] = IF i <= Len(l) THEN l[i] ELSE NULL
  BY ChainWalk
<1>3. ASSUME NEW p \in Process
      PROVE  OnList(p) <=> \E i \in 1..Len(l) : l[i] = p
  BY <1>1, <1>2, ContikiProcessAssumption DEF OnList
<1>. QED
  BY <1>1, <1>3 DEF ListSet

LEMMA ChainSetPrime == (\A l : Chain(l) => ListSet = {l[i] : i \in 1..Len(l)})'
BY ChainSet, PTL

ListInv == \E l : Chain(l)

\* What the pointers of the list lead to is on it.
LEMMA ListLinks ==
  ASSUME ListInv
  PROVE  /\ process_list = NULL \/ process_list \in ListSet
         /\ \A p \in ListSet : next[p] = NULL \/ next[p] \in ListSet \ {p}
<1>1. PICK l : Chain(l)
  BY DEF ListInv
<1>2. ListSet = {l[i] : i \in 1..Len(l)} /\ Len(l) \in Nat
  BY <1>1, ChainSet, ChainFits
<1>3. process_list = NULL \/ process_list \in ListSet
  BY <1>1, <1>2 DEF Chain
<1>4. ASSUME NEW p \in ListSet
      PROVE  next[p] = NULL \/ next[p] \in ListSet \ {p}
  <2>1. PICK i \in 1..Len(l) : l[i] = p
    BY <1>2
  <2>2. CASE i = Len(l)
    BY <1>1, <2>1, <2>2 DEF Chain
  <2>3. CASE i # Len(l)
    <3>1. i + 1 \in 1..Len(l) /\ i + 1 # i
      BY <1>2, <2>3
    <3>. QED
      BY <1>1, <1>2, <2>1, <2>3, <3>1 DEF Chain
  <2>. QED
    BY <2>2, <2>3
<1>. QED
  BY <1>3, <1>4

LEMMA SameList ==
  ASSUME ListInv, UNCHANGED listVars
  PROVE  ListInv' /\ ListSet' = ListSet
<1>1. PICK l : Chain(l)
  BY DEF ListInv
<1>2. Chain(l)'
  BY <1>1 DEF Chain, listVars
<1>. QED
  BY <1>1, <1>2, ChainSet, ChainSetPrime DEF ListInv

\* process_start() puts p at the head.
LEMMA LinkedList ==
  ASSUME ListInv, NEW p \in Process, p \notin ListSet, ProcessTypeOK,
         process_list' = p, next' = [next EXCEPT ![p] = process_list]
  PROVE  ListInv' /\ ListSet' = ListSet \cup {p}
<1>1. PICK l : Chain(l)
  BY DEF ListInv
<1> DEFINE m == << p >> \o l
<1>2. l \in Seq(Process) /\ Len(l) \in Nat
  BY <1>1, ChainFits DEF Chain
<1>3. /\ m \in Seq(Process) /\ Len(m) = Len(l) + 1 /\ m[1] = p
      /\ \A i \in 2..Len(m) : m[i] = l[i - 1] /\ i - 1 \in 1..Len(l)
      /\ \A i \in 1..Len(l) : i + 1 \in 2..Len(m) /\ m[i + 1] = l[i]
  BY <1>2
<1>. HIDE DEF m
<1>4. ListSet = {l[i] : i \in 1..Len(l)} /\ \A i \in 1..Len(l) : l[i] # p
  BY <1>1, ChainSet
<1>5. \A i, j \in 1..Len(m) : m[i] = m[j] => i = j
  <2> SUFFICES ASSUME NEW i \in 1..Len(m), NEW j \in 1..Len(m), m[i] = m[j]
               PROVE  i = j
    OBVIOUS
  <2>1. \A n \in 1..Len(m) : n = 1 \/ n \in 2..Len(m)
    BY <1>2, <1>3
  <2>2. ASSUME NEW n \in 2..Len(m)
        PROVE  m[n] # p
    <3>1. m[n] = l[n - 1] /\ n - 1 \in 1..Len(l)
      BY <1>3
    <3>. QED
      BY <1>4, <3>1
  <2>3. CASE i = 1 \/ j = 1
    BY <1>3, <2>1, <2>2, <2>3, Zenon
  <2>4. CASE i # 1 /\ j # 1
    <3>1. i - 1 \in 1..Len(l) /\ j - 1 \in 1..Len(l) /\ l[i - 1] = l[j - 1]
      BY <1>2, <1>3, <2>4
    <3>2. i - 1 = j - 1
      BY <1>1, <3>1 DEF Chain
    <3>3. i \in Int /\ j \in Int
      BY <1>2, <1>3
    <3>4. \A a, b \in Int : a - 1 = b - 1 => a = b
      OBVIOUS
    <3>. QED
      BY <3>2, <3>3, <3>4, Zenon
  <2>. QED
    BY <2>3, <2>4
<1>6. ASSUME NEW i \in 1..Len(m)
      PROVE  next'[m[i]] = IF i = Len(m) THEN NULL ELSE m[i + 1]
  <2>1. CASE i = 1
    <3>1. next'[p] = process_list
      BY DEF ProcessTypeOK
    <3>2. process_list = IF l = << >> THEN NULL ELSE l[1]
      BY <1>1 DEF Chain
    <3>3. CASE l = << >>
      BY <1>2, <1>3, <2>1, <3>1, <3>2, <3>3
    <3>4. CASE l # << >>
      <4>1. Len(l) > 0 /\ 1 \in 1..Len(l)
        BY <1>2, <3>4
      <4>. QED
        BY <1>2, <1>3, <2>1, <3>1, <3>2, <3>4, <4>1
    <3>. QED
      BY <3>3, <3>4
  <2>2. CASE i # 1
    <3>1. i \in 2..Len(m) /\ i - 1 \in 1..Len(l) /\ m[i] = l[i - 1]
      BY <1>2, <1>3, <2>2
    <3>2. next'[m[i]] = next[l[i - 1]]
      BY <1>2, <1>4, <3>1 DEF ProcessTypeOK
    <3>3. next[l[i - 1]] = IF i - 1 = Len(l) THEN NULL ELSE l[(i - 1) + 1]
      BY <1>1, <3>1 DEF Chain
    <3>4. i # Len(m) => i \in 1..Len(l) /\ m[i + 1] = l[i] /\ (i - 1) + 1 = i
      BY <1>2, <1>3, <3>1
    <3>. QED
      BY <1>2, <1>3, <3>1, <3>2, <3>3, <3>4
  <2>. QED
    BY <2>1, <2>2
<1>7. Chain(m)'
  <2>1. process_list' = IF m = << >> THEN NULL ELSE m[1]
    BY <1>2, <1>3
  <2>. QED
    BY <1>3, <1>5, <1>6, <2>1 DEF Chain
<1>8. {m[i] : i \in 1..Len(m)} = {l[i] : i \in 1..Len(l)} \cup {p}
  <2>1. \A i \in 1..Len(m) : i = 1 \/ i \in 2..Len(m)
    BY <1>2, <1>3
  <2>2. 1 \in 1..Len(m) /\ 2..Len(m) \subseteq 1..Len(m)
    BY <1>2, <1>3
  <2>3. \A x \in {m[i] : i \in 1..Len(m)} : x \in {l[i] : i \in 1..Len(l)} \cup {p}
    BY <1>3, <2>1
  <2>4. \A x \in {l[i] : i \in 1..Len(l)} \cup {p} : x \in {m[i] : i \in 1..Len(m)}
    BY <1>3, <2>2
  <2>. QED
    BY <2>3, <2>4
<1>. QED
  BY <1>4, <1>7, <1>8, ChainSetPrime DEF ListInv

\* exit_process() takes p out.
LEMMA UnlinkedList ==
  ASSUME ListInv, NEW p \in Process, p \in ListSet, ProcessTypeOK, Unlink(p)
  PROVE  ListInv' /\ ListSet' = ListSet \ {p} /\ next'[p] = next[p]
<1>1. PICK l : Chain(l)
  BY DEF ListInv
<1>2. /\ l \in Seq(Process) /\ Len(l) \in Nat
      /\ ListSet = {l[i] : i \in 1..Len(l)}
      /\ \A i \in 1..Len(l) : l[i] \in Process
      /\ \A i, j \in 1..Len(l) : l[i] = l[j] => i = j
  BY <1>1, ChainFits, ChainSet, ElementOfSeq DEF Chain
<1>3. PICK k \in 1..Len(l) : l[k] = p
  BY <1>2
<1> DEFINE place(i) == IF i < k THEN i ELSE i + 1
           m == [i \in 1..(Len(l) - 1) |-> l[place(i)]]
<1>4. \A i \in 1..(Len(l) - 1) : place(i) \in 1..Len(l) /\ place(i) # k
  BY <1>2
<1>5. \A i, j \in 1..(Len(l) - 1) : place(i) = place(j) => i = j
  BY <1>2
<1>6. \A n \in 1..Len(l) : n # k => \E i \in 1..(Len(l) - 1) : place(i) = n
  <2> SUFFICES ASSUME NEW n \in 1..Len(l), n # k
               PROVE  \E i \in 1..(Len(l) - 1) : place(i) = n
    OBVIOUS
  <2>1. CASE n < k
    <3>1. n \in 1..(Len(l) - 1) /\ place(n) = n
      BY <1>2, <2>1
    <3>. QED
      BY <3>1
  <2>2. CASE ~(n < k)
    <3>1. n - 1 \in 1..(Len(l) - 1) /\ place(n - 1) = n
      BY <1>2, <2>2
    <3>. QED
      BY <3>1
  <2>. QED
    BY <2>1, <2>2
<1>7. /\ m \in Seq(Process) /\ Len(m) = Len(l) - 1
      /\ \A i \in 1..Len(m) : m[i] = l[place(i)]
  <2>1. Len(l) - 1 \in Nat /\ \A i \in 1..(Len(l) - 1) : l[place(i)] \in Process
    BY <1>2, <1>4
  <2>. HIDE DEF place
  <2>. QED
    BY <2>1
<1>8. \A i, j \in 1..Len(m) : m[i] = m[j] => i = j
  <2>. HIDE DEF place, m
  <2> SUFFICES ASSUME NEW i \in 1..Len(m), NEW j \in 1..Len(m), m[i] = m[j]
               PROVE  i = j
    OBVIOUS
  <2>1. i \in 1..(Len(l) - 1) /\ j \in 1..(Len(l) - 1)
    BY <1>7
  <2>2. l[place(i)] = l[place(j)]
    BY <1>7
  <2>3. place(i) = place(j)
    BY <1>2, <1>4, <2>1, <2>2
  <2>. QED
    BY <1>5, <2>1, <2>3
<1>9. {m[i] : i \in 1..Len(m)} = ListSet \ {p}
  <2>. HIDE DEF place, m
  <2>1. \A i \in 1..Len(m) : m[i] \in ListSet /\ m[i] # p
    BY <1>2, <1>3, <1>4, <1>7
  <2>2. ASSUME NEW q \in ListSet, q # p
        PROVE  q \in {m[i] : i \in 1..Len(m)}
    <3>1. PICK n \in 1..Len(l) : l[n] = q
      BY <1>2
    <3>2. PICK i \in 1..(Len(l) - 1) : place(i) = n
      BY <1>3, <1>6, <2>2, <3>1
    <3>. QED
      BY <1>7, <3>1, <3>2
  <2>. QED
    BY <2>1, <2>2
\* What p leads to is now where p was.
<1>10. next[p] = IF k = Len(l) THEN NULL ELSE l[k + 1]
  BY <1>1, <1>3 DEF Chain
<1>11. \A q \in Process : OnList(q) <=> \E i \in 1..Len(l) : l[i] = q
  BY <1>2 DEF ListSet
<1>12. \A i \in 1..Len(l) : next[l[i]] = p <=> i + 1 = k
  <2> SUFFICES ASSUME NEW i \in 1..Len(l)
               PROVE  next[l[i]] = p <=> i + 1 = k
    OBVIOUS
  <2>1. next[l[i]] = IF i = Len(l) THEN NULL ELSE l[i + 1]
    BY <1>1 DEF Chain
  <2>2. CASE i = Len(l)
    BY <1>2, <2>1, <2>2, ContikiProcessAssumption
  <2>3. CASE i # Len(l)
    <3>1. i + 1 \in 1..Len(l)
      BY <1>2, <2>3
    <3>. QED
      BY <1>2, <1>3, <2>1, <2>3, <3>1
  <2>. QED
    BY <2>2, <2>3
<1>13. CASE k = 1
  <2>1. process_list = p /\ process_list' = next[p] /\ UNCHANGED next
    <3>1. Len(l) > 0 /\ l # << >>
      BY <1>2, <1>13
    <3>2. process_list = p
      BY <1>1, <1>3, <1>13, <3>1 DEF Chain
    <3>. QED
      BY <3>2 DEF Unlink
  <2>2. ASSUME NEW i \in 1..Len(m)
        PROVE  next[m[i]] = IF i = Len(m) THEN NULL ELSE m[i + 1]
    <3>1. m[i] = l[i + 1] /\ i + 1 \in 1..Len(l) /\ i \in Int
      BY <1>2, <1>7, <1>13
    <3>2. next[l[i + 1]] = IF i + 1 = Len(l) THEN NULL ELSE l[i + 2]
      BY <1>1, <3>1 DEF Chain
    <3>3. i # Len(m) => m[i + 1] = l[i + 2]
      <4>1. i # Len(m) => i + 1 \in 1..Len(m) /\ place(i + 1) = i + 2
        <5>1. Len(m) \in Int /\ i \in 1..Len(m)
          BY <1>2, <1>7
        <5>. HIDE DEF m
        <5>2. i # Len(m) => i + 1 \in 1..Len(m)
          BY <5>1
        <5>3. place(i + 1) = i + 2
          BY <1>13, <5>1
        <5>. QED
          BY <5>2, <5>3
      <4>. HIDE DEF m, place
      <4>. QED
        BY <1>7, <4>1
    <3>. QED
      BY <1>2, <1>7, <3>1, <3>2, <3>3
  <2>3. process_list' = IF m = << >> THEN NULL ELSE m[1]
    <3>1. CASE Len(l) = 1
      BY <1>7, <1>10, <1>13, <2>1, <3>1
    <3>2. CASE Len(l) # 1
      <4>1. Len(m) > 0 /\ m[1] = l[2] /\ k # Len(l)
        <5>1. 1 \in 1..Len(m) /\ place(1) = 2 /\ k # Len(l) /\ Len(m) > 0
          BY <1>2, <1>7, <1>13, <3>2
        <5>. HIDE DEF m, place
        <5>. QED
          BY <1>7, <5>1
      <4>2. m # << >>
        <5>. HIDE DEF m
        <5>. QED
          BY <1>7, <4>1
      <4>. QED
        BY <1>10, <1>13, <2>1, <4>1, <4>2
    <3>. QED
      BY <3>1, <3>2
  <2>. HIDE DEF place, m
  <2>4. Chain(m)'
    BY <1>7, <1>8, <2>1, <2>2, <2>3 DEF Chain
  <2>. QED
    BY <1>9, <2>1, <2>4, ChainSetPrime DEF ListInv
<1>14. CASE k # 1
  <2>1. process_list = l[1] /\ l[1] # p /\ 1 \in 1..Len(l) /\ k - 1 \in 1..Len(l)
    <3>1. Len(l) > 0 /\ l # << >> /\ 1 \in 1..Len(l) /\ k - 1 \in 1..Len(l)
      BY <1>2, <1>14
    <3>. QED
      BY <1>1, <1>2, <1>3, <1>14, <3>1 DEF Chain
  <2>2. /\ process_list' = l[1]
        /\ next' = [q \in Process |->
                     IF OnList(q) /\ next[q] = p THEN next[p] ELSE next[q]]
    BY <2>1 DEF Unlink
  <2>3. ASSUME NEW i \in 1..Len(l)
        PROVE  next'[l[i]] = IF i + 1 = k THEN next[p] ELSE next[l[i]]
    <3>1. OnList(l[i]) /\ l[i] \in Process
      BY <1>2, <1>11
    <3>. QED
      BY <1>12, <2>2, <3>1
  <2>4. next'[p] = next[p]
    BY <1>2, <1>3, <2>3
  <2>5. ASSUME NEW i \in 1..Len(m)
        PROVE  next'[m[i]] = IF i = Len(m) THEN NULL ELSE m[i + 1]
    <3>1. CASE i + 1 < k
      <4>1. m[i] = l[i] /\ i \in 1..Len(l) /\ i # Len(l) /\ i + 1 # k /\ i # Len(m)
            /\ m[i + 1] = l[i + 1]
        BY <1>2, <1>7, <3>1
      <4>. QED
        BY <1>1, <2>3, <4>1 DEF Chain
    <3>2. CASE i + 1 = k
      <4>1. m[i] = l[i] /\ i \in 1..Len(l) /\ (i = Len(m) <=> k = Len(l))
        BY <1>2, <1>7, <3>2
      <4>2. i # Len(m) => m[i + 1] = l[k + 1]
        BY <1>2, <1>7, <3>2
      <4>. QED
        BY <1>10, <2>3, <3>2, <4>1, <4>2
    <3>3. CASE i + 1 > k
      <4>1. m[i] = l[i + 1] /\ i + 1 \in 1..Len(l) /\ (i = Len(m) <=> i + 1 = Len(l))
            /\ (i + 1) + 1 # k
        BY <1>2, <1>7, <3>3
      <4>2. i # Len(m) => m[i + 1] = l[(i + 1) + 1]
        BY <1>2, <1>7, <3>3
      <4>3. next[l[i + 1]] = IF i + 1 = Len(l) THEN NULL ELSE l[(i + 1) + 1]
        BY <1>1, <4>1 DEF Chain
      <4>. QED
        BY <2>3, <4>1, <4>2, <4>3
    <3>. QED
      <4>1. i \in Int /\ k \in Int
        BY <1>2, <1>7
      <4>. QED
        BY <3>1, <3>2, <3>3, <4>1
  <2>6. process_list' = IF m = << >> THEN NULL ELSE m[1]
    <3>1. Len(m) > 0 /\ m[1] = l[1]
      BY <1>2, <1>7, <1>14
    <3>2. m # << >>
      <4>. HIDE DEF m
      <4>. QED
        BY <1>7, <3>1
    <3>. QED
      BY <2>2, <3>1, <3>2
  <2>. HIDE DEF place, m
  <2>7. Chain(m)'
    BY <1>7, <1>8, <2>5, <2>6 DEF Chain
  <2>. QED
    BY <1>9, <2>4, <2>7, ChainSetPrime DEF ListInv
<1>. QED
  BY <1>13, <1>14

-----------------------------------------------------------------------------
(***************************************************************************)
(* The stack.                                                              *)
(***************************************************************************)

Loops == {"main", "event", "poll", "broadcast", "deliver"}
Walking == {"poll", "exit"}
Frames(s) == {s[i] : i \in 1..Len(s)}

\* How frames may lie on each other: of the loops only do_poll() runs on another.
Nested(s) ==
  \A i \in 1..Len(s) :
    /\ s[i].op \in Loops <=> s[i].p = NULL
    /\ s[i].op \in Loops \ {"poll"} => i = Len(s)
    /\ s[i].op = "told" =>
         i + 1 \in 1..Len(s) /\ s[i + 1].op = "unlink" /\ s[i + 1].p = s[i].p
    /\ i # 1 /\ s[i].op \in Walking => s[i - 1].p = s[i].at
    /\ \A j \in 1..Len(s) : i < j =>
         /\ s[i].op \in Loops => s[j].op \in Loops
         /\ s[i].p = s[j].p /\ s[i].p # NULL => j = i + 1 /\ s[i].op = "told"

\* The frame f, pushed on s, is nested like that.
MayLieOn(f, s) ==
  /\ f.op \in Loops <=> f.p = NULL
  /\ f.op \in Loops \ {"poll"} => s = << >>
  /\ f.op = "told" => s # << >> /\ s[1].op = "unlink" /\ s[1].p = f.p
  /\ s # << >> /\ s[1].op \in Walking => f.p = s[1].at
  /\ f.op \in Loops => \A g \in Frames(s) : g.op \in Loops
  /\ f.p # NULL => \A j \in 1..Len(s) : s[j].p = f.p => j = 1 /\ f.op = "told"

\* The frames of s, the states st and the processes L on the list.
Fits(s, st, L) ==
  /\ \A f \in Frames(s) :
       /\ f.op = "thread" => st[f.p] = "CALLED"
       /\ f.op \in {"told", "exit", "unlink"} => st[f.p] = "NONE"
  /\ \A p \in Process :
       p \in L <=> \/ st[p] # "NONE"
                   \/ \E f \in Frames(s) : f.op \in {"exit", "unlink"} /\ f.p = p
  /\ \A p \in Process : st[p] = "CALLED" => \E f \in Frames(s) : f.op = "thread" /\ f.p = p

LEMMA PushedSeq ==
  ASSUME NEW s \in Seq(Frame), NEW f \in Frame
  PROVE  LET t == << f >> \o s
         IN  /\ t \in Seq(Frame) /\ Len(t) = Len(s) + 1 /\ Len(s) \in Nat /\ t[1] = f
             /\ t # << >> /\ Head(t) = f /\ Tail(t) = s
             /\ \A i \in 1..Len(s) : i + 1 \in 1..Len(t) /\ t[i + 1] = s[i]
             /\ \A i \in 1..Len(t) : i # 1 => i - 1 \in 1..Len(s) /\ t[i] = s[i - 1]
             /\ Frames(t) = Frames(s) \cup {f}
<1> DEFINE t == << f >> \o s
<1>1. /\ t \in Seq(Frame) /\ Len(t) = Len(s) + 1 /\ Len(s) \in Nat /\ t[1] = f
      /\ t # << >> /\ Head(t) = f
      /\ \A i \in 1..Len(s) : i + 1 \in 1..Len(t) /\ t[i + 1] = s[i]
      /\ \A i \in 1..Len(t) : i # 1 => i - 1 \in 1..Len(s) /\ t[i] = s[i - 1]
  OBVIOUS
<1>. HIDE DEF t
<1>2. Tail(t) = s
  <2>1. Tail(t) \in Seq(Frame) /\ Len(Tail(t)) = Len(s)
        /\ \A i \in 1..Len(Tail(t)) : Tail(t)[i] = t[i + 1]
    BY <1>1
  <2>2. \A i \in 1..Len(Tail(t)) : Tail(t)[i] = s[i]
    BY <1>1, <2>1
  <2>. QED
    BY <2>1, <2>2, SeqEqual
<1>3. Frames(t) = Frames(s) \cup {f}
  <2>1. \A i \in 1..Len(t) : t[i] \in Frames(s) \cup {f}
    BY <1>1 DEF Frames
  <2>2. 1 \in 1..Len(t)
    BY <1>1
  <2>3. ASSUME NEW g \in Frames(s)
        PROVE  g \in Frames(t)
    <3>1. PICK i \in 1..Len(s) : s[i] = g
      BY DEF Frames
    <3>. QED
      BY <1>1, <3>1 DEF Frames
  <2>4. f \in Frames(t)
    BY <1>1, <2>2 DEF Frames
  <2>. QED
    BY <2>1, <2>3, <2>4 DEF Frames
<1>. QED
  BY <1>1, <1>2, <1>3 DEF t

LEMMA PoppedSeq ==
  ASSUME NEW s \in Seq(Frame), s # << >>
  PROVE  /\ Tail(s) \in Seq(Frame) /\ Len(s) \in Nat /\ Len(Tail(s)) = Len(s) - 1
         /\ s[1] \in Frame /\ Head(s) = s[1] /\ 1 \in 1..Len(s)
         /\ \A i \in 1..Len(Tail(s)) : i + 1 \in 1..Len(s) /\ Tail(s)[i] = s[i + 1]
         /\ \A i \in 1..Len(s) : i # 1 => i - 1 \in 1..Len(Tail(s)) /\ s[i] = Tail(s)[i - 1]
         /\ Frames(s) = Frames(Tail(s)) \cup {s[1]}
<1> DEFINE t == Tail(s)
<1>1. /\ t \in Seq(Frame) /\ Len(s) \in Nat /\ Len(t) = Len(s) - 1 /\ Len(s) > 0
      /\ s[1] \in Frame /\ Head(s) = s[1] /\ 1 \in 1..Len(s)
      /\ \A i \in 1..Len(t) : i + 1 \in 1..Len(s) /\ t[i] = s[i + 1]
  OBVIOUS
<1>. HIDE DEF t
<1>2. \A i \in 1..Len(s) : i # 1 => i - 1 \in 1..Len(t) /\ s[i] = t[i - 1]
  <2> SUFFICES ASSUME NEW i \in 1..Len(s), i # 1
               PROVE  i - 1 \in 1..Len(t) /\ s[i] = t[i - 1]
    OBVIOUS
  <2>1. i - 1 \in 1..Len(t) /\ (i - 1) + 1 = i
    BY <1>1
  <2>. QED
    BY <1>1, <2>1
<1>3. Frames(s) = Frames(t) \cup {s[1]}
  <2>1. \A i \in 1..Len(s) : s[i] \in Frames(t) \cup {s[1]}
    BY <1>2 DEF Frames
  <2>2. \A g \in Frames(t) \cup {s[1]} : g \in Frames(s)
    BY <1>1 DEF Frames
  <2>. QED
    BY <2>1, <2>2 DEF Frames
<1>. QED
  BY <1>1, <1>2, <1>3 DEF t

LEMMA NestedPop ==
  ASSUME NEW s \in Seq(Frame), s # << >>, Nested(s)
  PROVE  Nested(Tail(s)) /\ MayLieOn(s[1], Tail(s))
<1> DEFINE t == Tail(s)
<1>1. /\ t \in Seq(Frame) /\ Len(s) \in Nat /\ Len(t) = Len(s) - 1 /\ 1 \in 1..Len(s)
      /\ \A i \in 1..Len(t) : i + 1 \in 1..Len(s) /\ t[i] = s[i + 1]
      /\ \A i \in 1..Len(s) : i # 1 => i - 1 \in 1..Len(t) /\ s[i] = t[i - 1]
      /\ Frames(s) = Frames(t) \cup {s[1]}
  BY PoppedSeq
<1>. HIDE DEF t
<1>2. Nested(t)
  <2> SUFFICES ASSUME NEW i \in 1..Len(t)
               PROVE  /\ t[i].op \in Loops <=> t[i].p = NULL
                      /\ t[i].op \in Loops \ {"poll"} => i = Len(t)
                      /\ t[i].op = "told" =>
                           i + 1 \in 1..Len(t) /\ t[i + 1].op = "unlink" /\ t[i + 1].p = t[i].p
                      /\ i # 1 /\ t[i].op \in Walking => t[i - 1].p = t[i].at
                      /\ \A j \in 1..Len(t) : i < j =>
                           /\ t[i].op \in Loops => t[j].op \in Loops
                           /\ t[i].p = t[j].p /\ t[i].p # NULL => j = i + 1 /\ t[i].op = "told"
    BY DEF Nested
  <2>1. i + 1 \in 1..Len(s) /\ t[i] = s[i + 1] /\ i + 1 # 1 /\ i \in Int
    BY <1>1
  <2>2. /\ t[i].op \in Loops <=> t[i].p = NULL
        /\ t[i].op \in Loops \ {"poll"} => i = Len(t)
    BY <1>1, <2>1 DEF Nested
  <2>3. ASSUME t[i].op = "told"
        PROVE  i + 1 \in 1..Len(t) /\ t[i + 1].op = "unlink" /\ t[i + 1].p = t[i].p
    <3>1. (i + 1) + 1 \in 1..Len(s) /\ s[(i + 1) + 1].op = "unlink"
          /\ s[(i + 1) + 1].p = s[i + 1].p
      BY <2>1, <2>3 DEF Nested
    <3>2. i + 1 \in 1..Len(t)
      BY <1>1, <3>1
    <3>. QED
      BY <1>1, <2>1, <3>1, <3>2
  <2>4. ASSUME i # 1, t[i].op \in Walking
        PROVE  t[i - 1].p = t[i].at
    <3>1. s[(i + 1) - 1].p = s[i + 1].at
      BY <2>1, <2>4 DEF Nested
    <3>2. i \in 1..Len(s) /\ (i + 1) - 1 = i
      BY <1>1
    <3>3. s[i] = t[i - 1]
      BY <1>1, <2>4, <3>2
    <3>. QED
      BY <2>1, <3>1, <3>2, <3>3
  <2>5. ASSUME NEW j \in 1..Len(t), i < j
        PROVE  /\ t[i].op \in Loops => t[j].op \in Loops
               /\ t[i].p = t[j].p /\ t[i].p # NULL => j = i + 1 /\ t[i].op = "told"
    <3>1. j + 1 \in 1..Len(s) /\ t[j] = s[j + 1] /\ i + 1 < j + 1
      BY <1>1, <2>5
    <3>2. /\ s[i + 1].op \in Loops => s[j + 1].op \in Loops
          /\ s[i + 1].p = s[j + 1].p /\ s[i + 1].p # NULL
               => j + 1 = (i + 1) + 1 /\ s[i + 1].op = "told"
      BY <2>1, <3>1 DEF Nested
    <3>3. j + 1 = (i + 1) + 1 => j = i + 1
      BY <1>1
    <3>. QED
      BY <2>1, <3>1, <3>2, <3>3
  <2>. QED
    BY <2>2, <2>3, <2>4, <2>5
<1>3. MayLieOn(s[1], t)
  <2>1. /\ s[1].op \in Loops <=> s[1].p = NULL
        /\ s[1].op \in Loops \ {"poll"} => t = << >>
    BY <1>1 DEF Nested
  <2>2. s[1].op = "told" => t # << >> /\ t[1].op = "unlink" /\ t[1].p = s[1].p
    <3> SUFFICES ASSUME s[1].op = "told"
                 PROVE  t # << >> /\ t[1].op = "unlink" /\ t[1].p = s[1].p
      OBVIOUS
    <3>1. 2 \in 1..Len(s) /\ s[2].op = "unlink" /\ s[2].p = s[1].p
      BY <1>1 DEF Nested
    <3>2. 2 - 1 \in 1..Len(t) /\ s[2] = t[2 - 1]
      BY <1>1, <3>1
    <3>3. t # << >> /\ s[2] = t[1]
      BY <1>1, <3>2
    <3>. QED
      BY <3>1, <3>3
  <2>3. t # << >> /\ t[1].op \in Walking => s[1].p = t[1].at
    <3> SUFFICES ASSUME t # << >>, t[1].op \in Walking
                 PROVE  s[1].p = t[1].at
      OBVIOUS
    <3>1. 1 \in 1..Len(t)
      BY <1>1
    <3>2. 2 \in 1..Len(s) /\ t[1] = s[2]
      BY <1>1, <3>1
    <3>3. s[2 - 1].p = s[2].at
      BY <3>2 DEF Nested
    <3>. QED
      BY <3>2, <3>3
  <2>4. ASSUME NEW i \in 1..Len(t)
        PROVE  /\ s[1].op \in Loops => t[i].op \in Loops
               /\ s[1].p # NULL /\ t[i].p = s[1].p => i = 1 /\ s[1].op = "told"
    <3>1. i + 1 \in 1..Len(s) /\ t[i] = s[i + 1] /\ 1 < i + 1
      BY <1>1
    <3>2. /\ s[1].op \in Loops => s[i + 1].op \in Loops
          /\ s[1].p = s[i + 1].p /\ s[1].p # NULL => i + 1 = 1 + 1 /\ s[1].op = "told"
      BY <1>1, <3>1 DEF Nested
    <3>3. i + 1 = 1 + 1 => i = 1
      BY <1>1
    <3>. QED
      BY <3>1, <3>2, <3>3
  <2>. QED
    BY <2>1, <2>2, <2>3, <2>4 DEF MayLieOn, Frames
<1>. QED
  BY <1>2, <1>3 DEF t

LEMMA NestedPush ==
  ASSUME NEW s \in Seq(Frame), NEW f \in Frame, Nested(s), MayLieOn(f, s)
  PROVE  Nested(<< f >> \o s)
<1> DEFINE t == << f >> \o s
<1>1. /\ t \in Seq(Frame) /\ Len(t) = Len(s) + 1 /\ Len(s) \in Nat /\ t[1] = f
      /\ \A i \in 1..Len(s) : i + 1 \in 1..Len(t) /\ t[i + 1] = s[i]
      /\ \A i \in 1..Len(t) : i # 1 => i - 1 \in 1..Len(s) /\ t[i] = s[i - 1]
  BY PushedSeq
<1>. HIDE DEF t
<1>. SUFFICES ASSUME NEW i \in 1..Len(t)
              PROVE  /\ t[i].op \in Loops <=> t[i].p = NULL
                     /\ t[i].op \in Loops \ {"poll"} => i = Len(t)
                     /\ t[i].op = "told" =>
                          i + 1 \in 1..Len(t) /\ t[i + 1].op = "unlink" /\ t[i + 1].p = t[i].p
                     /\ i # 1 /\ t[i].op \in Walking => t[i - 1].p = t[i].at
                     /\ \A j \in 1..Len(t) : i < j =>
                          /\ t[i].op \in Loops => t[j].op \in Loops
                          /\ t[i].p = t[j].p /\ t[i].p # NULL => j = i + 1 /\ t[i].op = "told"
  BY DEF Nested, t
<1>2. CASE i = 1
  <2>1. t[i] = f
    BY <1>1, <1>2
  <2>2. f.op = "told" => 2 \in 1..Len(t) /\ t[2].op = "unlink" /\ t[2].p = f.p
    <3> SUFFICES ASSUME f.op = "told"
                 PROVE  2 \in 1..Len(t) /\ t[2].op = "unlink" /\ t[2].p = f.p
      OBVIOUS
    <3>1. s # << >> /\ s[1].op = "unlink" /\ s[1].p = f.p
      BY DEF MayLieOn
    <3>2. 1 \in 1..Len(s)
      BY <1>1, <3>1
    <3>3. 1 + 1 \in 1..Len(t) /\ t[1 + 1] = s[1]
      BY <1>1, <3>2
    <3>. QED
      BY <3>1, <3>3
  <2>3. ASSUME NEW j \in 1..Len(t), 1 < j
        PROVE  /\ f.op \in Loops => t[j].op \in Loops
               /\ f.p = t[j].p /\ f.p # NULL => j = 1 + 1 /\ f.op = "told"
    <3>1. j - 1 \in 1..Len(s) /\ t[j] = s[j - 1] /\ (j - 1 = 1 => j = 1 + 1)
      BY <1>1, <2>3
    <3>2. s[j - 1] \in Frames(s)
      BY <3>1 DEF Frames
    <3>. QED
      BY <3>1, <3>2 DEF MayLieOn
  <2>4. f.op \in Loops \ {"poll"} => 1 = Len(t)
    BY <1>1 DEF MayLieOn
  <2>. QED
    BY <1>2, <2>1, <2>2, <2>3, <2>4 DEF MayLieOn
<1>3. CASE i # 1
  <2>1. i - 1 \in 1..Len(s) /\ t[i] = s[i - 1] /\ i \in Int
    BY <1>1, <1>3
  <2>2. /\ t[i].op \in Loops <=> t[i].p = NULL
        /\ t[i].op \in Loops \ {"poll"} => i = Len(t)
    <3>1. /\ t[i].op \in Loops <=> t[i].p = NULL
          /\ t[i].op \in Loops \ {"poll"} => i - 1 = Len(s)
      BY <2>1 DEF Nested
    <3>. QED
      BY <1>1, <2>1, <3>1
  <2>3. ASSUME t[i].op = "told"
        PROVE  i + 1 \in 1..Len(t) /\ t[i + 1].op = "unlink" /\ t[i + 1].p = t[i].p
    <3>1. (i - 1) + 1 \in 1..Len(s) /\ s[(i - 1) + 1].op = "unlink"
          /\ s[(i - 1) + 1].p = s[i - 1].p
      BY <2>1, <2>3 DEF Nested
    <3>2. i \in 1..Len(s) /\ (i - 1) + 1 = i
      BY <2>1, <3>1
    <3>3. i + 1 \in 1..Len(t) /\ t[i + 1] = s[i]
      BY <1>1, <3>2
    <3>. QED
      BY <2>1, <3>1, <3>2, <3>3
  <2>4. ASSUME t[i].op \in Walking
        PROVE  t[i - 1].p = t[i].at
    <3>1. CASE i - 1 = 1
      <4>1. s # << >> /\ s[1].op \in Walking /\ t[i] = s[1]
        BY <1>1, <2>1, <2>4, <3>1
      <4>. QED
        BY <1>1, <3>1, <4>1 DEF MayLieOn
    <3>2. CASE i - 1 # 1
      <4>1. s[(i - 1) - 1].p = s[i - 1].at
        BY <2>1, <2>4, <3>2 DEF Nested
      <4>2. i - 1 \in 1..Len(t)
        BY <1>1, <2>1
      <4>3. t[i - 1] = s[(i - 1) - 1]
        BY <1>1, <3>2, <4>2
      <4>. QED
        BY <2>1, <4>1, <4>3
    <3>. QED
      BY <3>1, <3>2
  <2>5. ASSUME NEW j \in 1..Len(t), i < j
        PROVE  /\ t[i].op \in Loops => t[j].op \in Loops
               /\ t[i].p = t[j].p /\ t[i].p # NULL => j = i + 1 /\ t[i].op = "told"
    <3>1. j # 1
      BY <2>1, <2>5, <1>1
    <3>2. j - 1 \in 1..Len(s) /\ t[j] = s[j - 1] /\ i - 1 < j - 1
      BY <1>1, <2>1, <2>5, <3>1
    <3>3. /\ s[i - 1].op \in Loops => s[j - 1].op \in Loops
          /\ s[i - 1].p = s[j - 1].p /\ s[i - 1].p # NULL
               => j - 1 = (i - 1) + 1 /\ s[i - 1].op = "told"
      BY <2>1, <3>2 DEF Nested
    <3>4. j - 1 = (i - 1) + 1 => j = i + 1
      BY <2>1, <1>1
    <3>. QED
      BY <2>1, <3>2, <3>3, <3>4
  <2>. QED
    BY <2>2, <2>3, <2>4, <2>5
<1>. QED
  BY <1>2, <1>3

Shape(s, st, L) ==
  /\ s \in Seq(Frame) /\ st \in [Process -> {"NONE", "RUNNING", "CALLED"}]
  /\ Nested(s) /\ Fits(s, st, L)

\* The shape of the stack below the top, and what lies on it.
LEMMA ShapeTop ==
  ASSUME NEW s, NEW st, NEW L, Shape(s, st, L), s # << >>
  PROVE  /\ Tail(s) \in Seq(Frame) /\ Nested(Tail(s)) /\ MayLieOn(s[1], Tail(s))
         /\ s[1] \in Frame /\ Head(s) = s[1] /\ s[1] \in Frames(s)
         /\ Frames(s) = Frames(Tail(s)) \cup {s[1]}
         /\ s[1].p # NULL /\ s[1].op # "told" => \A f \in Frames(Tail(s)) : f.p # s[1].p
         /\ s[1].op \in Loops => \A f \in Frames(s) : f.op \in Loops
<1>1. s \in Seq(Frame) /\ Nested(s)
  BY DEF Shape
<1>2. /\ Tail(s) \in Seq(Frame) /\ Nested(Tail(s)) /\ MayLieOn(s[1], Tail(s))
      /\ s[1] \in Frame /\ Head(s) = s[1] /\ s[1] \in Frames(s)
      /\ Frames(s) = Frames(Tail(s)) \cup {s[1]}
  BY <1>1, NestedPop, PoppedSeq
<1>. QED
  BY <1>2 DEF MayLieOn, Frames

\* A process that waits, or is not on the list, has no frame.
LEMMA Absent ==
  ASSUME NEW s, NEW st, NEW L, Shape(s, st, L), NEW p \in Process,
         st[p] = "RUNNING" \/ p \notin L
  PROVE  \A f \in Frames(s) : f.p # p
<1> SUFFICES ASSUME NEW i \in 1..Len(s), s[i].p = p
             PROVE  FALSE
  BY DEF Frames
<1>1. s[i] \in Frame /\ s[i] \in Frames(s) /\ p # NULL
  BY ElementOfSeq, ContikiProcessAssumption DEF Shape, Frames
<1>2. s[i].op \in {"thread", "told", "exit", "unlink"}
  <2>1. s[i].op \notin Loops
    BY <1>1 DEF Shape, Nested
  <2>. QED
    BY <1>1, <2>1 DEF Frame, Loops
<1>3. st[p] = "RUNNING" => FALSE
  BY <1>1, <1>2 DEF Shape, Fits
<1>4. ASSUME p \notin L
      PROVE  FALSE
  <2>1. st[p] = "NONE" /\ \A f \in Frames(s) : f.op \in {"exit", "unlink"} => f.p # p
    BY <1>4 DEF Shape, Fits
  <2>2. s[i].op = "told"
    BY <1>1, <1>2, <2>1 DEF Shape, Fits
  <2>3. i + 1 \in 1..Len(s) /\ s[i + 1].op = "unlink" /\ s[i + 1].p = p
    BY <2>2 DEF Shape, Nested
  <2>4. s[i + 1] \in Frames(s)
    BY <2>3 DEF Frames
  <2>. QED
    BY <2>1, <2>3, <2>4
<1>. QED
  BY <1>3, <1>4

LEMMA ShapeCall ==
  ASSUME NEW s, NEW st, NEW L, Shape(s, st, L), NEW p \in Process, st[p] = "RUNNING",
         NEW f \in Frame, f.op = "thread", f.p = p,
         s # << >> /\ s[1].op \in Walking => s[1].at = p
  PROVE  Shape(<< f >> \o s, [st EXCEPT ![p] = "CALLED"], L)
<1>1. s \in Seq(Frame) /\ Nested(s) /\ st \in [Process -> {"NONE", "RUNNING", "CALLED"}]
  BY DEF Shape
<1>2. << f >> \o s \in Seq(Frame) /\ Frames(<< f >> \o s) = Frames(s) \cup {f}
  BY <1>1, PushedSeq
<1>3. \A g \in Frames(s) : g.p # p
  BY Absent
<1>4. MayLieOn(f, s)
  BY <1>3, ContikiProcessAssumption DEF MayLieOn, Loops, Frames
<1>5. Fits(<< f >> \o s, [st EXCEPT ![p] = "CALLED"], L)
  <2>1. Fits(s, st, L)
    BY DEF Shape
  <2>2. \A g \in Frames(s) \cup {f} :
          /\ g.op = "thread" => [st EXCEPT ![p] = "CALLED"][g.p] = "CALLED"
          /\ g.op \in {"told", "exit", "unlink"} => [st EXCEPT ![p] = "CALLED"][g.p] = "NONE"
    BY <1>1, <1>3, <2>1 DEF Fits
  <2>3. \A q \in Process : q \in L <=>
          \/ [st EXCEPT ![p] = "CALLED"][q] # "NONE"
          \/ \E g \in Frames(s) \cup {f} : g.op \in {"exit", "unlink"} /\ g.p = q
    BY <1>1, <2>1 DEF Fits
  <2>4. \A q \in Process : [st EXCEPT ![p] = "CALLED"][q] = "CALLED" =>
          \E g \in Frames(s) \cup {f} : g.op = "thread" /\ g.p = q
    BY <1>1, <2>1 DEF Fits
  <2>. QED
    BY <1>2, <2>2, <2>3, <2>4 DEF Fits
<1>6. Nested(<< f >> \o s)
  BY <1>1, <1>4, NestedPush
<1>. QED
  BY <1>1, <1>2, <1>5, <1>6 DEF Shape

\* The frame on top is replaced by another one of the same loop or exit.
LEMMA ShapeMove ==
  ASSUME NEW s, NEW st, NEW L, Shape(s, st, L), s # << >>, NEW f \in Frame,
         f.p = s[1].p,
         \/ f.op \in Loops /\ s[1].op \in Loops /\ (s[1].op = "poll" => f.op = "poll")
         \/ f.op \in {"exit", "unlink"} /\ s[1].op \in {"exit", "unlink"}
  PROVE  Shape(<< f >> \o Tail(s), st, L)
<1> DEFINE t == Tail(s)
<1>1. /\ t \in Seq(Frame) /\ Nested(t) /\ MayLieOn(s[1], t)
      /\ Frames(s) = Frames(t) \cup {s[1]}
  BY ShapeTop
<1>. HIDE DEF t
<1>2. << f >> \o t \in Seq(Frame) /\ Frames(<< f >> \o t) = Frames(t) \cup {f}
  BY <1>1, PushedSeq
<1>3. MayLieOn(f, t)
  BY <1>1 DEF MayLieOn, Loops
<1>4. Fits(<< f >> \o t, st, L)
  BY <1>1, <1>2 DEF Shape, Fits, Loops
<1>5. Nested(<< f >> \o t)
  BY <1>1, <1>3, NestedPush
<1>. QED
  BY <1>2, <1>4, <1>5 DEF Shape, t

\* The thread on top ends, and its exit begins.
LEMMA ShapeEnd ==
  ASSUME NEW s, NEW st, NEW L, Shape(s, st, L), s # << >>, NEW p \in Process,
         s[1].op = "thread", s[1].p = p, NEW f \in Frame, f.op = "exit", f.p = p
  PROVE  p \in L /\ Shape(<< f >> \o Tail(s), [st EXCEPT ![p] = "NONE"], L)
<1> DEFINE t == Tail(s)
<1>1. /\ t \in Seq(Frame) /\ Nested(t) /\ MayLieOn(s[1], t)
      /\ Frames(s) = Frames(t) \cup {s[1]} /\ \A g \in Frames(t) : g.p # p
      /\ st \in [Process -> {"NONE", "RUNNING", "CALLED"}]
  BY ShapeTop, ContikiProcessAssumption DEF Shape
<1>. HIDE DEF t
<1>2. << f >> \o t \in Seq(Frame) /\ Frames(<< f >> \o t) = Frames(t) \cup {f}
  BY <1>1, PushedSeq
<1>3. MayLieOn(f, t)
  BY <1>1, ContikiProcessAssumption DEF MayLieOn, Loops
<1>4. p \in L
  BY <1>1 DEF Shape, Fits
<1>5. Fits(<< f >> \o t, [st EXCEPT ![p] = "NONE"], L)
  <2>1. Fits(s, st, L)
    BY DEF Shape
  <2>2. \A g \in Frames(t) \cup {f} :
          /\ g.op = "thread" => [st EXCEPT ![p] = "NONE"][g.p] = "CALLED"
          /\ g.op \in {"told", "exit", "unlink"} => [st EXCEPT ![p] = "NONE"][g.p] = "NONE"
    BY <1>1, <2>1 DEF Fits
  <2>3. \A q \in Process : q \in L <=>
          \/ [st EXCEPT ![p] = "NONE"][q] # "NONE"
          \/ \E g \in Frames(t) \cup {f} : g.op \in {"exit", "unlink"} /\ g.p = q
    BY <1>1, <1>4, <2>1 DEF Fits
  <2>4. \A q \in Process : [st EXCEPT ![p] = "NONE"][q] = "CALLED" =>
          \E g \in Frames(t) \cup {f} : g.op = "thread" /\ g.p = q
    BY <1>1, <2>1 DEF Fits
  <2>. QED
    BY <1>2, <2>2, <2>3, <2>4 DEF Fits
<1>6. Nested(<< f >> \o t)
  BY <1>1, <1>3, NestedPush
<1>. QED
  BY <1>1, <1>2, <1>4, <1>5, <1>6 DEF Shape, t

\* Another process, that has no frame, is exited.
LEMMA ShapeExit ==
  ASSUME NEW s, NEW st, NEW L, Shape(s, st, L), NEW p \in Process, p \in L,
         \A g \in Frames(s) : g.p # p, s # << >> => s[1].op \notin Walking,
         NEW f \in Frame, f.op = "exit", f.p = p
  PROVE  Shape(<< f >> \o s, [st EXCEPT ![p] = "NONE"], L)
<1>1. s \in Seq(Frame) /\ Nested(s) /\ st \in [Process -> {"NONE", "RUNNING", "CALLED"}]
  BY DEF Shape
<1>2. << f >> \o s \in Seq(Frame) /\ Frames(<< f >> \o s) = Frames(s) \cup {f}
  BY <1>1, PushedSeq
<1>3. MayLieOn(f, s)
  BY ContikiProcessAssumption DEF MayLieOn, Loops, Frames
<1>5. Fits(<< f >> \o s, [st EXCEPT ![p] = "NONE"], L)
  <2>1. Fits(s, st, L)
    BY DEF Shape
  <2>2. \A g \in Frames(s) \cup {f} :
          /\ g.op = "thread" => [st EXCEPT ![p] = "NONE"][g.p] = "CALLED"
          /\ g.op \in {"told", "exit", "unlink"} => [st EXCEPT ![p] = "NONE"][g.p] = "NONE"
    BY <1>1, <2>1 DEF Fits
  <2>3. \A q \in Process : q \in L <=>
          \/ [st EXCEPT ![p] = "NONE"][q] # "NONE"
          \/ \E g \in Frames(s) \cup {f} : g.op \in {"exit", "unlink"} /\ g.p = q
    BY <1>1, <2>1 DEF Fits
  <2>4. \A q \in Process : [st EXCEPT ![p] = "NONE"][q] = "CALLED" =>
          \E g \in Frames(s) \cup {f} : g.op = "thread" /\ g.p = q
    BY <1>1, <2>1 DEF Fits
  <2>. QED
    BY <1>2, <2>2, <2>3, <2>4 DEF Fits
<1>6. Nested(<< f >> \o s)
  BY <1>1, <1>3, NestedPush
<1>. QED
  BY <1>1, <1>2, <1>5, <1>6 DEF Shape

\* The process that is exiting is told so.
LEMMA ShapeTell ==
  ASSUME NEW s, NEW st, NEW L, Shape(s, st, L), s # << >>, s[1].op = "unlink",
         s[1].p \in Process, NEW f \in Frame, f.op = "told", f.p = s[1].p
  PROVE  Shape(<< f >> \o s, st, L)
<1>1. s \in Seq(Frame) /\ Nested(s) /\ st \in [Process -> {"NONE", "RUNNING", "CALLED"}]
  BY DEF Shape
<1>2. << f >> \o s \in Seq(Frame) /\ Frames(<< f >> \o s) = Frames(s) \cup {f}
  BY <1>1, PushedSeq
<1>3. MayLieOn(f, s)
  <2>1. \A i \in 1..Len(s) : s[i].p = f.p => i = 1
    <3> SUFFICES ASSUME NEW i \in 1..Len(s), s[i].p = f.p, i # 1
                 PROVE  FALSE
      OBVIOUS
    <3>1. 1 \in 1..Len(s) /\ 1 < i
      BY <1>1
    <3>. QED
      BY <1>1, <3>1, ContikiProcessAssumption DEF Nested
  <2>. QED
    BY <2>1, ContikiProcessAssumption DEF Walking, MayLieOn, Loops
<1>4. Fits(<< f >> \o s, st, L)
  <2>1. Fits(s, st, L) /\ s[1] \in Frames(s)
    BY ShapeTop DEF Shape
  <2>. QED
    BY <1>2, <2>1 DEF Fits
<1>5. Nested(<< f >> \o s)
  BY <1>1, <1>3, NestedPush
<1>. QED
  BY <1>1, <1>2, <1>4, <1>5 DEF Shape

LEMMA ShapeYield ==
  ASSUME NEW s, NEW st, NEW L, Shape(s, st, L), s # << >>, NEW p \in Process,
         s[1].op = "thread", s[1].p = p
  PROVE  Shape(Tail(s), [st EXCEPT ![p] = "RUNNING"], L)
<1> DEFINE t == Tail(s)
<1>1. /\ t \in Seq(Frame) /\ Nested(t)
      /\ Frames(s) = Frames(t) \cup {s[1]} /\ \A g \in Frames(t) : g.p # p
      /\ st \in [Process -> {"NONE", "RUNNING", "CALLED"}]
  BY ShapeTop, ContikiProcessAssumption DEF Shape
<1>. HIDE DEF t
<1>2. Fits(s, st, L)
  BY DEF Shape
<1>3. \A g \in Frames(t) :
        /\ g.op = "thread" => [st EXCEPT ![p] = "RUNNING"][g.p] = "CALLED"
        /\ g.op \in {"told", "exit", "unlink"} => [st EXCEPT ![p] = "RUNNING"][g.p] = "NONE"
  BY <1>1, <1>2 DEF Fits
<1>4. \A q \in Process : q \in L <=>
        \/ [st EXCEPT ![p] = "RUNNING"][q] # "NONE"
        \/ \E g \in Frames(t) : g.op \in {"exit", "unlink"} /\ g.p = q
  BY <1>1, <1>2 DEF Fits
<1>5. \A q \in Process : [st EXCEPT ![p] = "RUNNING"][q] = "CALLED" =>
        \E g \in Frames(t) : g.op = "thread" /\ g.p = q
  BY <1>1, <1>2 DEF Fits
<1>. QED
  BY <1>1, <1>3, <1>4, <1>5 DEF Shape, Fits, t

LEMMA ShapeTold ==
  ASSUME NEW s, NEW st, NEW L, Shape(s, st, L), s # << >>, s[1].op = "told"
  PROVE  Shape(Tail(s), st, L)
<1>1. /\ Tail(s) \in Seq(Frame) /\ Nested(Tail(s))
      /\ Frames(s) = Frames(Tail(s)) \cup {s[1]}
  BY ShapeTop
<1>. QED
  BY <1>1 DEF Shape, Fits

\* The process that was exiting has left the list.
LEMMA ShapeUnlink ==
  ASSUME NEW s, NEW st, NEW L, Shape(s, st, L), s # << >>, NEW p \in Process,
         s[1].op \in {"exit", "unlink"}, s[1].p = p
  PROVE  p \in L /\ Shape(Tail(s), st, L \ {p})
<1> DEFINE t == Tail(s)
<1>1. /\ t \in Seq(Frame) /\ Nested(t) /\ s[1] \in Frames(s)
      /\ Frames(s) = Frames(t) \cup {s[1]} /\ \A g \in Frames(t) : g.p # p
  BY ShapeTop, ContikiProcessAssumption
<1>. HIDE DEF t
<1>2. Fits(s, st, L) /\ st \in [Process -> {"NONE", "RUNNING", "CALLED"}]
  BY DEF Shape
<1>3. st[p] = "NONE" /\ p \in L
  BY <1>1, <1>2 DEF Fits
<1>4. \A q \in Process : q \in L \ {p} <=>
        \/ st[q] # "NONE"
        \/ \E g \in Frames(t) : g.op \in {"exit", "unlink"} /\ g.p = q
  BY <1>1, <1>2, <1>3 DEF Fits
<1>5. Fits(t, st, L \ {p})
  BY <1>1, <1>2, <1>4 DEF Fits
<1>. QED
  BY <1>1, <1>2, <1>3, <1>5 DEF Shape, t

\* No thread is under way, and none is after the step.
LEMMA ShapeLoops ==
  ASSUME NEW s, NEW st, NEW L, Shape(s, st, L), s # << >> => s[1].op \in Loops,
         NEW t \in Seq(Frame), Nested(t), \A f \in Frames(t) : f.op \in Loops
  PROVE  Shape(t, st, L)
<1>1. \A f \in Frames(s) : f.op \in Loops
  BY ShapeTop DEF Frames
<1>. QED
  BY <1>1 DEF Shape, Fits, Loops

LEMMA ShapeStart ==
  ASSUME NEW s, NEW st, NEW L, Shape(s, st, L), NEW p \in Process, p \notin L
  PROVE  Shape(s, [st EXCEPT ![p] = "RUNNING"], L \cup {p})
<1>1. \A f \in Frames(s) : f.p # p
  BY Absent
<1>. QED
  BY <1>1 DEF Shape, Fits

\* do_poll() finds a process on the list.
LEMMA ShapePoll ==
  ASSUME NEW s, NEW st, NEW L, Shape(s, st, L), NEW p \in Process, p \in L,
         s # << >>, s[1].op \in Loops
  PROVE  Shape(s, [st EXCEPT ![p] = "RUNNING"], L)
<1>1. \A f \in Frames(s) : f.op \in Loops
  BY ShapeTop
<1>2. Fits(s, [st EXCEPT ![p] = "RUNNING"], L)
  BY <1>1 DEF Shape, Fits, Loops
<1>. QED
  BY <1>2 DEF Shape

-----------------------------------------------------------------------------
(***************************************************************************)
(* The steps.                                                              *)
(***************************************************************************)

\* do_poll(), if it is on top of the stack s, finds its next process on the list.
Ready(s) ==
  s # << >> /\ s[1].op = "poll" => After(s[1].at) \in ListSet \cup {NULL}

ShapeInv == ListInv /\ Shape(stack, state, ListSet) /\ Ready(stack)

LEMMA AfterListed ==
  ASSUME ListInv, NEW at \in ListSet \cup {NULL}
  PROVE  After(at) \in ListSet \cup {NULL}
BY ListLinks DEF After

\* Steps that leave the list alone.
LEMMA Kept ==
  ASSUME ListInv, UNCHANGED listVars, Shape(stack', state', ListSet), Ready(stack')
  PROVE  ShapeInv'
<1>1. ListInv' /\ ListSet' = ListSet
  BY SameList
<1>2. Shape(stack, state, ListSet)'
  BY <1>1
<1>3. Ready(stack)'
  BY <1>1 DEF Ready, After, listVars
<1>. QED
  BY <1>1, <1>2, <1>3 DEF ShapeInv

LEMMA CallShape ==
  ASSUME NEW st, NEW rest, NEW L, Shape(rest, st, L), NEW p \in Process,
         NEW ev \in Event \cup {"NONE"}, NEW data \in Process \cup {NULL},
         NEW back \in Process \cup {NULL, "keep"},
         rest # << >> /\ rest[1].op \in Walking => rest[1].at = p,
         call_process(st, p, ev, data, back, rest)
  PROVE  /\ Shape(stack', state', L)
         /\ stack' = rest \/ (stack' # << >> /\ stack'[1].op = "thread")
         /\ st[p] = "RUNNING" => stack' # << >> /\ stack'[1].op = "thread"
<1>1. CASE st[p] = "RUNNING"
  <2> DEFINE f == ThreadFrame("thread", p, ev, data, back)
  <2>1. f \in Frame /\ f.op = "thread" /\ f.p = p
    BY DEF Frame, ThreadFrame
  <2>2. stack' = << f >> \o rest /\ state' = [st EXCEPT ![p] = "CALLED"]
    BY <1>1 DEF call_process
  <2>. HIDE DEF f
  <2>3. rest \in Seq(Frame)
    BY DEF Shape
  <2>4. (<< f >> \o rest)[1] = f /\ << f >> \o rest # << >>
    BY <2>1, <2>3, PushedSeq
  <2>5. Shape(<< f >> \o rest, [st EXCEPT ![p] = "CALLED"], L)
    BY <1>1, <2>1, ShapeCall
  <2>. QED
    BY <2>1, <2>2, <2>4, <2>5
<1>2. CASE st[p] # "RUNNING"
  BY <1>2 DEF call_process
<1>. QED
  BY <1>1, <1>2

\* A loop frame lies alone, or on loops.
LEMMA LoopOn ==
  ASSUME NEW s \in Seq(Frame), Nested(s), \A g \in Frames(s) : g.op \in Loops,
         s # << >> => s[1].op # "poll",
         NEW f \in Frame, f.op \in Loops, f.p = NULL, s # << >> => f.op = "poll"
  PROVE  LET t == << f >> \o s
         IN  /\ t \in Seq(Frame) /\ Nested(t) /\ t[1] = f /\ t # << >>
             /\ \A g \in Frames(t) : g.op \in Loops
<1>1. MayLieOn(f, s)
  <2>1. s # << >> => s[1].op \in Loops
    BY PoppedSeq
  <2>. QED
    BY <2>1 DEF MayLieOn, Loops, Walking
<1>. QED
  BY <1>1, NestedPush, PushedSeq

LEMMA NoFrames ==
  << >> \in Seq(Frame) /\ Nested(<< >>) /\ \A g \in Frames(<< >>) : g.op \in Loops
BY DEF Nested, Frames

LEMMA OneLoop ==
  ASSUME NEW f \in Frame, f.op \in Loops, f.p = NULL
  PROVE  /\ << f >> \in Seq(Frame) /\ Nested(<< f >>) /\ << f >>[1] = f /\ << f >> # << >>
         /\ \A g \in Frames(<< f >>) : g.op \in Loops
<1>1. << f >> \o << >> = << f >>
  BY OneFrame
<1>. QED
  BY <1>1, LoopOn, NoFrames

\* What the step finds on top of the stack.
LEMMA TopShape ==
  ASSUME CallsInv, ShapeInv, stack # << >>
  PROVE  /\ Top = stack[1] /\ Callers = Tail(stack) /\ FrameOK(Top) /\ Top \in Frame
         /\ Callers \in Seq(Frame) /\ Nested(Callers) /\ MayLieOn(Top, Callers)
         /\ Top.at \in Process \cup {NULL} /\ Top.ev \in Event \cup {"NONE"}
         /\ Top.op \in Loops => Top.p = NULL /\ \A f \in Frames(Callers) : f.op \in Loops
         /\ After(Top.at) \in Process \cup {NULL}
<1>1. Top = stack[1] /\ Callers = Tail(stack) /\ FrameOK(Top) /\ Top \in Frame
  BY TopOfStack DEF FrameOK
<1>2. Callers \in Seq(Frame) /\ Nested(Callers) /\ MayLieOn(Top, Callers)
  BY <1>1, ShapeTop DEF ShapeInv
<1>3. Top.at \in Process \cup {NULL} /\ Top.ev \in Event \cup {"NONE"}
  BY <1>1 DEF Frame
<1>4. After(Top.at) \in Process \cup {NULL}
  BY <1>3, WalkType DEF CallsInv
<1>. QED
  BY <1>1, <1>2, <1>3, <1>4 DEF MayLieOn

LEMMA InformExitedShape ==
  ASSUME CallsInv, ShapeInv, InformExited
  PROVE  ShapeInv'
<1> DEFINE at == After(Top.at)
           f == [Top EXCEPT !.at = at]
           here == << f >> \o Callers
<1>1. stack # << >> /\ Top.op = "exit" /\ at # NULL /\ UNCHANGED listVars
  BY DEF InformExited, InLoop
<1>2. at \in Process /\ f \in Frame /\ f.op = "exit" /\ f.p = Top.p /\ f.at = at /\ Top.p \in Process \cup {NULL}
  BY <1>1, TopShape DEF Frame
<1>3. \/ stack' = here /\ state' = state
      \/ call_process(state, at, "EXITED", Top.p, "keep", here)
  BY DEF InformExited
<1>4. "EXITED" \in Event \cup {"NONE"}
  BY DEF Event
<1>. HIDE DEF at, f
<1>5. Shape(here, state, ListSet)
  BY <1>1, <1>2, TopShape, ShapeMove DEF ShapeInv
<1>6. here # << >> /\ here[1] = f
  BY <1>1, <1>2, TopShape, PushedSeq
<1>. HIDE DEF here
<1>7. Shape(stack', state', ListSet) /\ Ready(stack')
  <2>1. CASE stack' = here /\ state' = state
    BY <1>2, <1>5, <1>6, <2>1 DEF Ready
  <2>2. CASE call_process(state, at, "EXITED", Top.p, "keep", here)
    <3>1. /\ Shape(stack', state', ListSet)
          /\ stack' = here \/ (stack' # << >> /\ stack'[1].op = "thread")
      BY <1>2, <1>4, <1>5, <1>6, <2>2, CallShape DEF Walking
    <3>. QED
      BY <1>2, <1>6, <3>1 DEF Ready
  <2>. QED
    BY <1>3, <2>1, <2>2
<1>. QED
  BY <1>1, <1>7, Kept DEF ShapeInv

LEMMA FinishExitShape ==
  ASSUME CallsInv, ShapeInv, FinishExit
  PROVE  ShapeInv'
<1>1. stack # << >> /\ Top.op \in {"exit", "unlink"} /\ UNCHANGED state
  BY DEF FinishExit, InLoop
<1>2. Top.p \in Process
  BY <1>1, TopShape DEF FrameOK
<1>3. CASE /\ UNCHANGED listVars
           /\ stack' = << ThreadFrame("told", Top.p, "EXIT", NULL, "keep"),
                          [Top EXCEPT !.op = "unlink"] >> \o Callers
  <2> DEFINE f == [Top EXCEPT !.op = "unlink"]
             g == ThreadFrame("told", Top.p, "EXIT", NULL, "keep")
             rest == << f >> \o Callers
  <2>1. f \in Frame /\ f.op = "unlink" /\ f.p = Top.p
    BY <1>1, TopShape DEF Frame
  <2>2. g \in Frame /\ g.op = "told" /\ g.p = Top.p
    BY <1>2 DEF Frame, ThreadFrame, Event
  <2>3. stack' = << g, f >> \o Callers
    BY <1>3
  <2>. HIDE DEF f, g
  <2>4. Shape(rest, state, ListSet) /\ rest[1] = f /\ rest # << >> /\ rest \in Seq(Frame)
    <3>1. /\ Callers = Tail(stack) /\ Top = stack[1] /\ Callers \in Seq(Frame)
          /\ f.op \in {"exit", "unlink"} /\ f.p = stack[1].p
      BY <1>1, <2>1, TopShape
    <3>2. rest[1] = f /\ rest # << >> /\ rest \in Seq(Frame)
      BY <2>1, <3>1, PushedSeq
    <3>3. Shape(rest, state, ListSet)
      BY <1>1, <2>1, <3>1, ShapeMove DEF ShapeInv
    <3>. QED
      BY <3>2, <3>3
  <2>5. stack' = << g >> \o rest
    BY <1>1, <2>1, <2>2, <2>3, TopShape, JoinSeq
  <2>. HIDE DEF rest
  <2>6. Shape(<< g >> \o rest, state, ListSet)
    BY <1>2, <2>1, <2>2, <2>4, ShapeTell
  <2>7. (<< g >> \o rest)[1] = g
    BY <2>2, <2>4, PushedSeq
  <2>8. Ready(stack')
    BY <2>2, <2>5, <2>7 DEF Ready
  <2>. QED
    BY <1>1, <1>3, <2>5, <2>6, <2>8, Kept DEF ShapeInv
<1>4. CASE Unlink(Top.p) /\ stack' = Callers
  <2>1. PICK p \in Process : p = Top.p
    BY <1>2, Zenon
  <2>2. p \in ListSet /\ Shape(Callers, state, ListSet \ {p})
    <3>1. /\ stack[1].op \in {"exit", "unlink"} /\ stack[1].p = p /\ Callers = Tail(stack)
          /\ Shape(stack, state, ListSet)
      BY <1>1, <2>1, TopShape DEF ShapeInv
    <3>2. p \in ListSet /\ Shape(Tail(stack), state, ListSet \ {p})
      BY <1>1, <3>1, ShapeUnlink
    <3>. QED
      BY <3>1, <3>2
  <2>3. ListInv' /\ ListSet' = ListSet \ {p} /\ next'[p] = next[p]
    <3>1. Unlink(p) /\ ListInv /\ ProcessTypeOK
      BY <1>4, <2>1 DEF ShapeInv, CallsInv
    <3>. QED
      BY <2>2, <3>1, UnlinkedList
  <2>4. next[p] = NULL \/ next[p] \in ListSet \ {p}
    BY <2>2, ListLinks DEF ShapeInv
  <2>5. Callers # << >> /\ Callers[1].op = "poll" => Callers[1].at = p
    BY <1>1, <2>1, TopShape DEF Walking, MayLieOn
  <2>6. After(p)' \in (ListSet \cup {NULL})'
    BY <2>3, <2>4, ContikiProcessAssumption DEF After
  <2>7. Ready(stack)'
    BY <1>4, <2>5, <2>6 DEF Ready, After
  <2>8. Shape(stack, state, ListSet)'
    BY <1>1, <1>4, <2>2, <2>3
  <2>. QED
    BY <2>3, <2>7, <2>8 DEF ShapeInv
<1>. QED
  BY <1>3, <1>4 DEF FinishExit

LEMMA PollShape ==
  ASSUME CallsInv, ShapeInv, Poll
  PROVE  ShapeInv'
<1> DEFINE at == After(Top.at)
           f == [Top EXCEPT !.at = at]
           here == << f >> \o Callers
<1>1. stack # << >> /\ Top.op = "poll" /\ Top.op \in Loops /\ UNCHANGED listVars
  BY DEF Poll, InLoop, Loops
<1>2. at \in ListSet \cup {NULL} /\ ListInv
  BY <1>1, TopShape DEF ShapeInv, Ready
<1>3. f \in Frame /\ f.op = "poll" /\ f.p = Top.p /\ f.at = at
  BY <1>1, TopShape DEF Frame
<1>4. \/ stack' = Callers /\ state' = state
      \/ stack' = here /\ state' = state
      \/ /\ at # NULL
         /\ call_process([state EXCEPT ![at] = "RUNNING"], at, "POLL", NULL, "keep", here)
  BY DEF Poll
<1>5. "POLL" \in Event \cup {"NONE"}
  BY DEF Event
<1>. HIDE DEF at, f
<1>6. Shape(here, state, ListSet)
  BY <1>1, <1>3, TopShape, ShapeMove DEF ShapeInv, Loops
<1>7. here # << >> /\ here[1] = f
  BY <1>1, <1>3, TopShape, PushedSeq
<1>. HIDE DEF here
<1>8. Ready(here)
  BY <1>2, <1>3, <1>7, AfterListed DEF Ready
<1>9. CASE stack' = Callers /\ state' = state
  <2>1. Shape(Callers, state, ListSet)
    BY <1>1, TopShape, ShapeLoops DEF ShapeInv
  <2>2. Callers # << >> /\ Callers[1].op = "poll" => Callers[1].at = NULL
    BY <1>1, TopShape DEF Walking, MayLieOn
  <2>3. Ready(Callers)
    BY <1>2, <2>2, AfterListed DEF Ready
  <2>. QED
    BY <1>1, <1>2, <1>9, <2>1, <2>3, Kept
<1>10. CASE stack' = here /\ state' = state
  BY <1>1, <1>2, <1>6, <1>8, <1>10, Kept
<1>11. CASE /\ at # NULL
            /\ call_process([state EXCEPT ![at] = "RUNNING"], at, "POLL", NULL, "keep", here)
  <2>1. at \in Process /\ at \in ListSet
    BY <1>2, <1>11 DEF ListSet
  <2>2. Shape(here, [state EXCEPT ![at] = "RUNNING"], ListSet)
    BY <1>1, <1>3, <1>6, <1>7, <2>1, ShapePoll
  <2>3. /\ Shape(stack', state', ListSet)
        /\ stack' = here \/ (stack' # << >> /\ stack'[1].op = "thread")
    BY <1>3, <1>5, <1>7, <1>11, <2>1, <2>2, CallShape
  <2>4. Ready(stack')
    BY <1>8, <2>3 DEF Ready
  <2>. QED
    BY <1>1, <1>2, <2>3, <2>4, Kept
<1>. QED
  BY <1>4, <1>9, <1>10, <1>11

LEMMA RunPollsShape ==
  ASSUME CallsInv, ShapeInv, RunPolls
  PROVE  ShapeInv'
<1> DEFINE e == LoopFrame("event", "NONE")
           f == LoopFrame("poll", "NONE")
<1>1. /\ stack = << >> /\ stack' = << f, e >> /\ state' = state /\ UNCHANGED listVars
  BY DEF RunPolls
<1>2. /\ e \in Frame /\ e.op = "event" /\ e.op \in Loops /\ e.p = NULL
      /\ f \in Frame /\ f.op \in Loops /\ f.op = "poll" /\ f.p = NULL /\ f.at = NULL
  BY DEF Frame, LoopFrame, Loops
<1>. HIDE DEF e, f
<1>3. << f >> \o << e >> = << f, e >>
  BY TwoFrames
<1>4. /\ << e >> \in Seq(Frame) /\ Nested(<< e >>) /\ << e >>[1] = e /\ << e >> # << >>
      /\ \A g \in Frames(<< e >>) : g.op \in Loops
  BY <1>2, OneLoop
<1>5. /\ << f, e >> \in Seq(Frame) /\ Nested(<< f, e >>) /\ << f, e >>[1] = f
      /\ \A g \in Frames(<< f, e >>) : g.op \in Loops
  BY <1>2, <1>3, <1>4, LoopOn
<1>6. Shape(stack', state', ListSet)
  BY <1>1, <1>5, ShapeLoops DEF ShapeInv
<1>7. Ready(stack')
  BY <1>1, <1>2, <1>5, AfterListed DEF Ready, ShapeInv
<1>. QED
  BY <1>1, <1>6, <1>7, Kept DEF ShapeInv

\* No PROCESS_EVENT_INIT waits in the queue: process_start() delivers its own.
NoInit == \A i \in 0..(NumEvents - 1) : events[i].ev # "INIT"

LEMMA DoEventShape ==
  ASSUME CallsInv, ShapeInv, QueueTypeOK, NoInit, do_event
  PROVE  ShapeInv'
<1> DEFINE e == events[fevent]
<1>1. /\ e.p \in Process \cup {NULL} /\ e.ev \in Event \cup {"NONE"} /\ e.ev # "INIT"
      /\ UNCHANGED listVars
  BY ContikiProcessAssumption DEF QueueTypeOK, NoInit, do_event, Slot, PROCESS_BROADCAST
<1>2. stack # << >> => stack[1].op \in Loops
  BY TopShape DEF do_event, InLoop, Loops
<1>3. CASE e.p = NULL
  <2> DEFINE f == LoopFrame("broadcast", e.ev)
  <2>1. f \in Frame /\ f.op = "broadcast" /\ f.op \in Loops /\ f.p = NULL
    BY <1>1 DEF Frame, LoopFrame, Loops
  <2>2. stack' = << f >> /\ state' = state
    BY <1>3 DEF do_event, PROCESS_BROADCAST
  <2>. HIDE DEF f
  <2>3. /\ << f >> \in Seq(Frame) /\ Nested(<< f >>) /\ << f >>[1] = f
        /\ \A g \in Frames(<< f >>) : g.op \in Loops
    BY <2>1, OneLoop
  <2>4. Shape(stack', state', ListSet)
    BY <1>2, <2>2, <2>3, ShapeLoops DEF ShapeInv
  <2>5. Ready(stack')
    BY <2>1, <2>2, <2>3 DEF Ready
  <2>. QED
    BY <1>1, <2>4, <2>5, Kept DEF ShapeInv
<1>4. CASE e.p # NULL
  <2>1. call_process(state, e.p, e.ev, NULL, "keep", << >>) /\ e.p \in Process
    BY <1>1, <1>4 DEF do_event, PROCESS_BROADCAST
  <2>2. Shape(<< >>, state, ListSet)
    BY <1>2, NoFrames, ShapeLoops DEF ShapeInv
  <2>. HIDE DEF e
  <2>3. /\ Shape(stack', state', ListSet)
        /\ stack' = << >> \/ (stack' # << >> /\ stack'[1].op = "thread")
    BY <1>1, <2>1, <2>2, CallShape
  <2>4. Ready(stack')
    BY <2>3 DEF Ready
  <2>. QED
    BY <1>1, <2>3, <2>4, Kept DEF ShapeInv
<1>. QED
  BY <1>3, <1>4

LEMMA BroadcastShape ==
  ASSUME CallsInv, ShapeInv, Broadcast
  PROVE  ShapeInv'
<1> DEFINE at == After(Top.at)
           f(op) == [Top EXCEPT !.at = at, !.op = op]
<1>1. stack # << >> /\ Top.op = "broadcast" /\ Top.op \in Loops /\ UNCHANGED listVars
  BY DEF Broadcast, InLoop, Loops
<1>2. at \in Process \cup {NULL} /\ Top.ev \in Event \cup {"NONE"} /\ stack[1].op \in Loops
  BY <1>1, TopShape
<1>3. ASSUME NEW op \in {"broadcast", "deliver"}
      PROVE  f(op) \in Frame /\ f(op).op = op /\ f(op).op \in Loops /\ f(op).p = NULL
  BY <1>1, <1>2, TopShape DEF Frame, Loops
<1>4. \/ stack' = << >> /\ state' = state
      \/ /\ stack' = << LoopFrame("poll", "NONE") >> \o << f("deliver") >>
         /\ state' = state
      \/ at # NULL /\ call_process(state, at, Top.ev, NULL, "keep", << f("broadcast") >>)
  BY DEF Broadcast
<1>. HIDE DEF at, f
<1>5. ASSUME NEW op \in {"broadcast", "deliver"}
      PROVE  /\ << f(op) >> \in Seq(Frame) /\ Nested(<< f(op) >>) /\ << f(op) >>[1] = f(op)
             /\ \A g \in Frames(<< f(op) >>) : g.op \in Loops
  BY <1>3, OneLoop
<1>6. CASE stack' = << >> /\ state' = state
  <2>1. Shape(stack', state', ListSet)
    BY <1>2, <1>6, NoFrames, ShapeLoops DEF ShapeInv
  <2>2. Ready(stack')
    BY <1>6 DEF Ready
  <2>. QED
    BY <1>1, <2>1, <2>2, Kept DEF ShapeInv
<1>7. CASE /\ stack' = << LoopFrame("poll", "NONE") >> \o << f("deliver") >>
           /\ state' = state
  <2> DEFINE e == LoopFrame("poll", "NONE")
             d == f("deliver")
  <2>1. e \in Frame /\ e.op \in Loops /\ e.op = "poll" /\ e.p = NULL /\ e.at = NULL
    BY DEF Frame, LoopFrame, Loops
  <2>2. stack' = << e >> \o << d >>
    BY <1>7
  <2>3. d.op = "deliver" /\ << d >> \in Seq(Frame) /\ Nested(<< d >>) /\ << d >>[1] = d
        /\ \A g \in Frames(<< d >>) : g.op \in Loops
    BY <1>3, <1>5
  <2>. HIDE DEF e, d
  <2>4. /\ stack' \in Seq(Frame) /\ Nested(stack') /\ stack'[1] = e
        /\ \A g \in Frames(stack') : g.op \in Loops
    BY <2>1, <2>2, <2>3, LoopOn
  <2>5. Shape(stack', state', ListSet)
    BY <1>2, <1>7, <2>4, ShapeLoops DEF ShapeInv
  <2>6. Ready(stack')
    BY <2>1, <2>4, AfterListed DEF Ready, ShapeInv
  <2>. QED
    BY <1>1, <2>5, <2>6, Kept DEF ShapeInv
<1>8. CASE at # NULL /\ call_process(state, at, Top.ev, NULL, "keep", << f("broadcast") >>)
  <2> DEFINE rest == << f("broadcast") >>
  <2>1. /\ rest \in Seq(Frame) /\ Nested(rest) /\ rest[1].op = "broadcast"
        /\ \A g \in Frames(rest) : g.op \in Loops
    BY <1>3, <1>5
  <2>2. at \in Process /\ call_process(state, at, Top.ev, NULL, "keep", rest)
    BY <1>2, <1>8
  <2>. HIDE DEF rest
  <2>3. Shape(rest, state, ListSet)
    BY <1>2, <2>1, ShapeLoops DEF ShapeInv
  <2>4. /\ Shape(stack', state', ListSet)
        /\ stack' = rest \/ (stack' # << >> /\ stack'[1].op = "thread")
    BY <1>2, <2>1, <2>2, <2>3, CallShape DEF Walking
  <2>5. Ready(stack')
    BY <2>1, <2>4 DEF Ready
  <2>. QED
    BY <1>1, <2>4, <2>5, Kept DEF ShapeInv
<1>. QED
  BY <1>4, <1>6, <1>7, <1>8

LEMMA DeliverShape ==
  ASSUME CallsInv, ShapeInv, Deliver
  PROVE  ShapeInv'
<1> DEFINE f == [Top EXCEPT !.op = "broadcast"]
           rest == << f >>
<1>1. stack # << >> /\ Top.op = "deliver" /\ Top.op \in Loops /\ UNCHANGED listVars
  BY DEF Deliver, InLoop, Loops
<1>2. /\ Top.at \in Process /\ Top.ev \in Event \cup {"NONE"} /\ stack[1].op \in Loops
      /\ f \in Frame /\ f.op = "broadcast" /\ f.op \in Loops /\ f.p = NULL
  BY <1>1, TopShape DEF FrameOK, Frame, Loops
<1>3. call_process(state, Top.at, Top.ev, NULL, "keep", rest)
  BY DEF Deliver
<1>. HIDE DEF f
<1>4. /\ rest \in Seq(Frame) /\ Nested(rest) /\ rest[1].op = "broadcast"
      /\ \A g \in Frames(rest) : g.op \in Loops
  BY <1>2, OneLoop
<1>. HIDE DEF rest
<1>5. Shape(rest, state, ListSet)
  BY <1>2, <1>4, ShapeLoops DEF ShapeInv
<1>6. /\ Shape(stack', state', ListSet)
      /\ stack' = rest \/ (stack' # << >> /\ stack'[1].op = "thread")
  BY <1>2, <1>3, <1>4, <1>5, CallShape DEF Walking
<1>7. Ready(stack')
  BY <1>4, <1>6 DEF Ready
<1>. QED
  BY <1>1, <1>6, <1>7, Kept DEF ShapeInv

\* The end of main()'s initialisation, and of do_event().
LEMMA EmptiedShape ==
  ASSUME CallsInv, ShapeInv, MainLoop \/ Idle
  PROVE  ShapeInv'
<1>1. /\ stack # << >> /\ Top.op \in Loops /\ stack' = << >> /\ state' = state
      /\ UNCHANGED listVars
  BY DEF MainLoop, Idle, InLoop, Loops
<1>2. Shape(stack', state', ListSet)
  BY <1>1, TopShape, NoFrames, ShapeLoops DEF ShapeInv
<1>3. Ready(stack')
  BY <1>1 DEF Ready
<1>. QED
  BY <1>1, <1>2, <1>3, Kept DEF ShapeInv

\* What a thread, or main(), calls from is no loop over the list.
LEMMA StartShape ==
  ASSUME CallsInv, ShapeInv, stack # << >>, stack[1].op \notin Walking,
         NEW p \in Process, process_start(p)
  PROVE  ShapeInv'
<1>1. p \notin ListSet
  BY DEF process_start, ListSet
<1>2. ListInv' /\ ListSet' = ListSet \cup {p}
  BY <1>1, LinkedList DEF process_start, ShapeInv, CallsInv
<1>3. Shape(stack, [state EXCEPT ![p] = "RUNNING"], ListSet \cup {p})
  BY <1>1, ShapeStart DEF ShapeInv
<1>4. /\ call_process([state EXCEPT ![p] = "RUNNING"], p, "INIT", NULL, process_current, stack)
      /\ [state EXCEPT ![p] = "RUNNING"][p] = "RUNNING"
      /\ "INIT" \in Event \cup {"NONE"} /\ process_current \in Process \cup {NULL, "keep"}
  BY DEF process_start, Event, CallsInv, ProcessTypeOK
<1>5. /\ Shape(stack', state', ListSet \cup {p})
      /\ stack' # << >> /\ stack'[1].op = "thread"
  <2> DEFINE st == [state EXCEPT ![p] = "RUNNING"]
             L == ListSet \cup {p}
  <2>1. Shape(stack, st, L) /\ st[p] = "RUNNING" /\ NULL \in Process \cup {NULL}
        /\ call_process(st, p, "INIT", NULL, process_current, stack)
    BY <1>3, <1>4
  <2>. HIDE DEF st, L
  <2>2. Shape(stack', state', L) /\ stack' # << >> /\ stack'[1].op = "thread"
    BY <1>4, <2>1, CallShape
  <2>. QED
    BY <2>2 DEF L
<1>6. Ready(stack)'
  BY <1>5 DEF Ready
<1>7. Shape(stack, state, ListSet)'
  BY <1>2, <1>5
<1>. QED
  BY <1>2, <1>6, <1>7 DEF ShapeInv

LEMMA PostSynchShape ==
  ASSUME CallsInv, ShapeInv, stack # << >>, stack[1].op \notin Walking,
         NEW p \in Process, NEW ev \in Event, process_post_synch(p, ev)
  PROVE  ShapeInv'
<1>1. /\ call_process(state, p, ev, NULL, process_current, stack)
      /\ process_current \in Process \cup {NULL, "keep"} /\ UNCHANGED listVars
  BY DEF process_post_synch, CallsInv, ProcessTypeOK
<1>2. /\ Shape(stack', state', ListSet)
      /\ stack' = stack \/ (stack' # << >> /\ stack'[1].op = "thread")
  BY <1>1, CallShape DEF ShapeInv
<1>3. Ready(stack')
  BY <1>2 DEF Walking, Ready
<1>. QED
  BY <1>1, <1>2, <1>3, Kept DEF ShapeInv

LEMMA ProcessExitShape ==
  ASSUME CallsInv, ShapeInv, stack # << >>, stack[1].op \notin Walking,
         NEW p \in Process, ~Busy(p), process_exit(p)
  PROVE  ShapeInv'
<1> DEFINE ev == IF p = process_current THEN "NONE" ELSE "EXIT"
           f == ExitFrame(p, ev, process_current)
<1>1. f \in Frame /\ f.op = "exit" /\ f.p = p /\ process_current # "keep"
  BY ContikiProcessAssumption DEF Frame, ExitFrame, Event, CallsInv, ProcessTypeOK
<1>2. \A g \in Frames(stack) : g.p # p
  BY DEF Busy, Frames
<1>3. exit_process(p, ev, "keep", stack)
  BY DEF process_exit
<1>4. \/ stack' = stack /\ UNCHANGED <<listVars, state>>
      \/ /\ p \in ListSet /\ stack' = << f >> \o stack
         /\ state' = [state EXCEPT ![p] = "NONE"] /\ UNCHANGED listVars
      \/ p \in ListSet /\ state[p] = "NONE"
  BY <1>3 DEF exit_process, ListSet
<1>. HIDE DEF f
<1>5. CASE stack' = stack /\ UNCHANGED <<listVars, state>>
  BY <1>5, Kept DEF ShapeInv
<1>6. CASE /\ p \in ListSet /\ stack' = << f >> \o stack
           /\ state' = [state EXCEPT ![p] = "NONE"] /\ UNCHANGED listVars
  <2>1. Shape(stack', state', ListSet)
    BY <1>1, <1>2, <1>6, ShapeExit DEF ShapeInv
  <2>2. stack'[1] = f
    BY <1>1, <1>6, PushedSeq DEF ShapeInv, Shape
  <2>3. Ready(stack')
    BY <1>1, <2>2 DEF Ready
  <2>. QED
    BY <1>6, <2>1, <2>3, Kept DEF ShapeInv
<1>7. CASE p \in ListSet /\ state[p] = "NONE"
  BY <1>2, <1>7 DEF ShapeInv, Shape, Fits
<1>. QED
  BY <1>4, <1>5, <1>6, <1>7

\* A thread goes on later.
LEMMA YieldedShape ==
  ASSUME CallsInv, ShapeInv, NEW p \in Process, InThread(p), Top.op = "thread",
         state' = [state EXCEPT ![p] = "RUNNING"], stack' = Callers, UNCHANGED listVars
  PROVE  ShapeInv'
<1>1. stack # << >> /\ Top.op \in {"thread", "told"} /\ Top.p = p
  BY DEF InThread
<1>2. /\ Top = stack[1] /\ Callers = Tail(stack) /\ Callers \in Seq(Frame)
      /\ Top.back \in Process \cup {NULL, "keep"} /\ Top \in Frames(stack)
      /\ Callers # << >> /\ Callers[1].op = "poll" => Callers[1].at = p
  BY <1>1, TopShape, ShapeTop DEF Walking, MayLieOn, Frame, ShapeInv
<1>3. Shape(stack', state', ListSet)
  BY <1>1, <1>2, ShapeYield DEF ShapeInv
<1>4. p \in ListSet
  BY <1>1, <1>2 DEF ShapeInv, Shape, Fits
<1>5. Ready(stack')
  BY <1>2, <1>4, AfterListed DEF Ready, ShapeInv
<1>. QED
  BY <1>3, <1>5, Kept DEF ShapeInv

LEMMA ReturnShape ==
  ASSUME CallsInv, ShapeInv, NEW p \in Process, InThread(p), Yield(p) \/ End(p)
  PROVE  ShapeInv'
<1>1. stack # << >> /\ Top.op \in {"thread", "told"} /\ Top.p = p
  BY DEF InThread
<1>2. /\ Top = stack[1] /\ Callers = Tail(stack) /\ Callers \in Seq(Frame)
      /\ Top.back \in Process \cup {NULL, "keep"} /\ Top \in Frames(stack)
      /\ Callers # << >> /\ Callers[1].op = "poll" => Callers[1].at = p
  BY <1>1, TopShape, ShapeTop DEF Walking, MayLieOn, Frame, ShapeInv
<1>3. CASE Yield(p) /\ Top.op = "thread"
  BY <1>3, YieldedShape DEF Yield
<1>4. CASE Yield(p) /\ Top.op = "told"
  <2>1. state' = state /\ stack' = Callers /\ UNCHANGED listVars
    BY <1>4 DEF Yield
  <2>2. Shape(stack', state', ListSet)
    BY <1>1, <1>2, <1>4, <2>1, ShapeTold DEF ShapeInv
  <2>3. Callers # << >> /\ Callers[1].op = "unlink"
    BY <1>1, <1>4, TopShape DEF MayLieOn
  <2>4. Ready(stack')
    BY <2>1, <2>3 DEF Ready
  <2>. QED
    BY <2>1, <2>2, <2>4, Kept DEF ShapeInv
<1>5. CASE End(p)
  <2> DEFINE b == IF Top.back = "keep" THEN process_current ELSE Top.back
             f == ExitFrame(p, "NONE", b)
  <2>1. f \in Frame /\ f.op = "exit" /\ f.p = p
    BY <1>2 DEF Frame, ExitFrame, CallsInv, ProcessTypeOK
  <2>2. Top.op = "thread" /\ exit_process(p, "NONE", Top.back, Callers)
    BY <1>5 DEF End
  <2>3. state[p] = "CALLED"
    BY <1>1, <1>2, <2>2 DEF ShapeInv, Shape, Fits
  <2>4. p \in ListSet /\ Shape(<< f >> \o Callers, [state EXCEPT ![p] = "NONE"], ListSet)
    <3>. HIDE DEF f
    <3>. QED
      BY <1>1, <1>2, <2>1, <2>2, ShapeEnd DEF ShapeInv
  <2>5. /\ stack' = << f >> \o Callers /\ state' = [state EXCEPT ![p] = "NONE"]
        /\ UNCHANGED listVars
    BY <2>2, <2>3, <2>4 DEF exit_process, ListSet
  <2>. HIDE DEF f
  <2>6. stack'[1] = f
    BY <1>2, <2>1, <2>5, PushedSeq
  <2>7. Ready(stack')
    BY <2>1, <2>6 DEF Ready
  <2>. QED
    BY <2>4, <2>5, <2>7, Kept DEF ShapeInv
<1>. QED
  BY <1>1, <1>3, <1>4, <1>5

LEMMA ThreadShape ==
  ASSUME CallsInv, ShapeInv, ~MayExitBusy, NEW p \in Process, Thread(p)
  PROVE  ShapeInv'
<1>1. InThread(p) /\ stack # << >> /\ stack[1].op \notin Walking
  BY TopShape DEF Walking, Thread, InThread
<1>2. ASSUME NEW q \in Process \cup {PROCESS_BROADCAST}, NEW ev \in Posted, Post(q, ev)
      PROVE  ShapeInv'
  BY <1>2, Kept DEF Post, ShapeInv
<1>3. ASSUME NEW q \in Process, NEW ev \in Posted, process_post_synch(q, ev)
      PROVE  ShapeInv'
  <2>1. ev \in Event
    BY ContikiProcessAssumption
  <2>. QED
    BY <1>1, <1>3, <2>1, PostSynchShape
<1>4. ASSUME NEW q \in Process, process_start(q)
      PROVE  ShapeInv'
  BY <1>1, <1>4, StartShape
<1>5. ASSUME NEW q \in Process, ~Busy(q), process_exit(q)
      PROVE  ShapeInv'
  BY <1>1, <1>5, ProcessExitShape
<1>6. CASE Yield(p) \/ End(p)
  BY <1>1, <1>6, ReturnShape
<1>. QED
  BY <1>2, <1>3, <1>4, <1>5, <1>6 DEF Thread

LEMMA NoInitStays ==
  ASSUME QueueTypeOK, NoInit, "INIT" \notin Posted, [Next]_vars
  PROVE  NoInit'
<1>1. CASE UNCHANGED events
  BY <1>1 DEF NoInit
<1>2. ASSUME NEW p \in Process \cup {NULL}, NEW ev \in Posted, process_post(p, ev)
      PROVE  NoInit'
  BY <1>2 DEF process_post, QueueTypeOK, NoInit
<1>3. ASSUME NEW p \in Process, Thread(p)
      PROVE  \/ UNCHANGED events
             \/ \E q \in Process \cup {NULL}, ev \in Posted : process_post(q, ev)
  BY <1>3 DEF Thread, Post, process_post_synch, process_start, process_exit, Yield, End,
     queueVars, PROCESS_BROADCAST
<1>4. CASE Kernel
  BY <1>1, <1>4 DEF Kernel, InformExited, FinishExit, Poll, RunPolls, do_event, TakeEvent,
     Idle, Broadcast, Deliver, queueVars
<1>5. CASE MainLoop \/ \E p \in Process : MainStarts(p) \/ process_poll(p)
  BY <1>1, <1>5 DEF MainLoop, MainStarts, process_start, process_poll, queueVars
<1>6. CASE UNCHANGED vars
  BY <1>1, <1>6 DEF vars, queueVars
<1>. QED
  BY <1>1, <1>2, <1>3, <1>4, <1>5, <1>6 DEF Next

-----------------------------------------------------------------------------
(***************************************************************************)
(* The theorems.                                                           *)
(***************************************************************************)

SoundInv == KernelInv /\ ShapeInv /\ NoInit

LEMMA SoundInvInit == Init => SoundInv
<1>. SUFFICES ASSUME Init PROVE SoundInv
  OBVIOUS
<1> DEFINE l == << >>
           f == LoopFrame("main", "NONE")
<1>1. KernelInv /\ NoInit
  BY KernelInvInit DEF Init, NoInit
<1>2. Chain(l)
  BY DEF Init, Chain
<1>3. ListInv /\ ListSet = {}
  BY <1>2, ChainSet DEF ListInv
<1>4. f \in Frame /\ f.op = "main" /\ f.op \in Loops /\ f.p = NULL /\ stack = << f >>
  BY DEF Frame, LoopFrame, Loops, Init
<1>. HIDE DEF f
<1>5. /\ stack \in Seq(Frame) /\ Nested(stack) /\ stack[1] = f
      /\ \A g \in Frames(stack) : g.op \in Loops
  BY <1>4, OneLoop
<1>6. Fits(stack, state, ListSet)
  BY <1>3, <1>5 DEF Fits, Loops, Init
<1>7. Shape(stack, state, ListSet)
  BY <1>1, <1>5, <1>6 DEF Shape, KernelInv, CallsInv, ProcessTypeOK
<1>8. Ready(stack)
  BY <1>4, <1>5 DEF Ready
<1>. QED
  BY <1>1, <1>3, <1>7, <1>8 DEF SoundInv, ShapeInv

LEMMA ShapeInvNext ==
  ASSUME ~MayExitBusy, CallsInv, ShapeInv, QueueTypeOK, NoInit, [Next]_vars
  PROVE  ShapeInv'
<1>1. CASE Kernel
  BY <1>1, InformExitedShape, FinishExitShape, PollShape, RunPollsShape, DoEventShape,
     EmptiedShape, BroadcastShape, DeliverShape, Zenon DEF Kernel
<1>2. CASE MainLoop
  BY <1>2, EmptiedShape, Zenon
<1>3. ASSUME NEW p \in Process, MainStarts(p)
      PROVE  ShapeInv'
  <2>1. stack # << >> /\ stack[1].op \notin Walking /\ process_start(p)
    BY <1>3, TopShape DEF Walking, MainStarts, InLoop
  <2>. QED
    BY <2>1, StartShape
<1>4. ASSUME NEW p \in Process, Thread(p)
      PROVE  ShapeInv'
  BY <1>4, ThreadShape
<1>5. ASSUME NEW p \in Process, process_poll(p)
      PROVE  ShapeInv'
  <2>1. UNCHANGED listVars /\ stack' = stack /\ state' = state
    BY <1>5 DEF process_poll
  <2>. QED
    BY <2>1, Kept DEF ShapeInv
<1>6. CASE UNCHANGED vars
  <2>1. UNCHANGED listVars /\ stack' = stack /\ state' = state
    BY <1>6 DEF vars
  <2>. QED
    BY <2>1, Kept DEF ShapeInv
<1>. QED
  BY <1>1, <1>2, <1>3, <1>4, <1>5, <1>6 DEF Next

LEMMA SoundInvNext ==
  ~MayExitBusy /\ "INIT" \notin Posted /\ SoundInv /\ [Next]_vars => SoundInv'
<1>. SUFFICES ASSUME ~MayExitBusy, "INIT" \notin Posted, SoundInv, [Next]_vars
              PROVE  SoundInv'
  OBVIOUS
<1>1. KernelInv' /\ NoInit'
  BY KernelInvNext, NoInitStays DEF SoundInv, KernelInv
<1>2. ShapeInv'
  BY ShapeInvNext DEF SoundInv, KernelInv
<1>. QED
  BY <1>1, <1>2 DEF SoundInv

LEMMA SoundInvHolds ==
  ASSUME ~MayExitBusy, "INIT" \notin Posted
  PROVE  Spec => []SoundInv
<1>1. SoundInv /\ [Next]_vars => SoundInv'
  BY SoundInvNext
<1>. QED
  BY <1>1, SoundInvInit, PTL DEF Spec

LEMMA SoundInvList == SoundInv => ListIsSound
<1> SUFFICES ASSUME SoundInv PROVE ListIsSound
  OBVIOUS
<1>1. PICK l : Chain(l)
  BY DEF SoundInv, ShapeInv, ListInv
<1>2. /\ Len(l) \in Nat /\ Cardinality(Process) \in Nat /\ Len(l) <= Cardinality(Process)
      /\ DOMAIN Walk = 1..(Cardinality(Process) + 1)
      /\ \A i \in DOMAIN Walk : Walk[i] = IF i <= Len(l) THEN l[i] ELSE NULL
      /\ \A i, j \in 1..Len(l) : l[i] = l[j] => i = j
  BY <1>1, ChainFits, ChainWalk DEF Chain
<1>3. Walk[Cardinality(Process) + 1] = NULL
  BY <1>2
<1>4. ASSUME NEW i \in DOMAIN Walk, NEW j \in DOMAIN Walk, Walk[i] = Walk[j], Walk[i] # NULL
      PROVE  i = j
  <2>1. i <= Len(l) /\ j <= Len(l) /\ l[i] = l[j]
    BY <1>2, <1>4
  <2>2. i \in 1..Len(l) /\ j \in 1..Len(l)
    BY <1>2, <2>1
  <2>. QED
    BY <1>2, <2>1, <2>2
<1>5. ASSUME NEW p \in Process
      PROVE  OnList(p) <=> state[p] # "NONE" \/ Exiting(p)
  <2>1. Exiting(p) <=> \E f \in Frames(stack) : f.op \in {"exit", "unlink"} /\ f.p = p
    BY DEF Exiting, Frames
  <2>2. OnList(p) <=> p \in ListSet
    BY DEF ListSet
  <2>. QED
    BY <2>1, <2>2 DEF SoundInv, ShapeInv, Shape, Fits
<1>. QED
  BY <1>3, <1>4, <1>5 DEF ListIsSound

LEMMA SoundInvThreads == SoundInv => NotReentered
<1> SUFFICES ASSUME SoundInv PROVE NotReentered
  OBVIOUS
<1>1. Nested(stack) /\ Len(stack) \in Nat
  BY DEF SoundInv, ShapeInv, Shape
<1>2. ASSUME NEW i \in 1..Len(stack), NEW j \in 1..Len(stack), i < j,
             stack[i].op \in {"thread", "told"}, stack[j].op \in {"thread", "told"},
             stack[i].p = stack[j].p
      PROVE  FALSE
  <2>1. stack[i].p # NULL
    BY <1>1, <1>2 DEF Nested, Loops
  <2>2. j = i + 1 /\ stack[i].op = "told"
    BY <1>1, <1>2, <2>1 DEF Nested
  <2>. QED
    BY <1>1, <1>2, <2>2 DEF Nested
<1>3. \A i, j \in 1..Len(stack) : i < j \/ j < i \/ i = j
  BY <1>1
<1>. QED
  BY <1>2, <1>3 DEF NotReentered

\* However calls, exits and restarts nest, the list of processes ends, holds none
\* twice, and holds those that run or are exiting, as long as no thread exits its
\* own process and nobody posts a PROCESS_EVENT_INIT.
THEOREM ListSound ==
  ASSUME ~MayExitBusy, "INIT" \notin Posted
  PROVE  Spec => []ListIsSound
BY SoundInvHolds, SoundInvList, PTL

\* No protothread is entered while it runs, under the same conditions.
THEOREM NeverReentered ==
  ASSUME ~MayExitBusy, "INIT" \notin Posted
  PROVE  Spec => []NotReentered
BY SoundInvHolds, SoundInvThreads, PTL

\* "Cause a process to exit": what has left the list does not run, where threads
\* call process_exit() only for processes that are neither being called (so neither
\* their own nor a caller's) nor exiting, and post no PROCESS_EVENT_INIT.
THEOREM ExitCorrect ==
  ASSUME ~MayExitBusy, "INIT" \notin Posted
  PROVE  Spec => []ExitIsFinal
<1>1. ListIsSound => ExitIsFinal
  BY DEF ListIsSound, ExitIsFinal
<1>. QED
  BY <1>1, ListSound, PTL

-----------------------------------------------------------------------------
(***************************************************************************)
(* What a loop over the list has before it.                                *)
(***************************************************************************)

LEMMA SameAhead ==
  ASSUME UNCHANGED listVars
  PROVE  \A at, p : Ahead(at, p)' <=> Ahead(at, p)
BY DEF Ahead, After, listVars

\* At its beginning, all of the list.
LEMMA AheadAtFirst ==
  ASSUME ListInv, NEW p \in ListSet
  PROVE  Ahead(NULL, p)
<1> SUFFICES ASSUME NEW S \in SUBSET (Process \cup {NULL}), process_list \in S,
                    \A q \in S \cap Process : q # p => next[q] \in S,
                    p \notin S
             PROVE  FALSE
  BY DEF Ahead, After
<1>1. PICK l : Chain(l)
  BY DEF ListInv
<1>2. Len(l) \in Nat /\ ListSet = {l[i] : i \in 1..Len(l)} /\ \A i \in 1..Len(l) : l[i] \in Process
  BY <1>1, ChainFits, ChainSet, ElementOfSeq DEF Chain
<1> DEFINE T == {i \in 1..Len(l) : l[i] \notin S}
<1>3. T \in SUBSET Nat /\ T # {}
  BY <1>2
<1>4. PICK m \in T : \A k \in T : m <= k
  <2>. HIDE DEF T
  <2>. QED
    BY <1>3, Least
<1>5. m \in 1..Len(l) /\ l[m] \notin S
  BY <1>4
<1>6. CASE m = 1
  BY <1>1, <1>2, <1>5, <1>6 DEF Chain
<1>7. CASE m # 1
  <2>1. m - 1 \in 1..Len(l) /\ m - 1 \notin T /\ m - 1 # Len(l) /\ (m - 1) + 1 = m
    BY <1>2, <1>4, <1>5, <1>7
  <2>2. l[m - 1] \in S \cap Process
    BY <1>2, <2>1
  <2>3. next[l[m - 1]] = l[m]
    BY <1>1, <2>1 DEF Chain
  <2>. QED
    BY <1>5, <2>2, <2>3
<1>. QED
  BY <1>6, <1>7

\* At its end, nothing.
LEMMA AheadAtLast ==
  ASSUME NEW p \in Process, NEW at, After(at) = NULL
  PROVE  ~Ahead(at, p)
<1>1. p \notin {NULL} /\ {NULL} \cap Process = {}
  BY ContikiProcessAssumption
<1>. QED
  BY <1>1 DEF Ahead

\* It goes on by one.
LEMMA AheadMoves ==
  ASSUME NEW p, NEW at, Ahead(at, p), After(at) \in Process, After(at) # p
  PROVE  Ahead(After(at), p)
<1> DEFINE b == After(at)
<1> SUFFICES ASSUME NEW S \in SUBSET (Process \cup {NULL}), next[b] \in S,
                    \A q \in S \cap Process : q # p => next[q] \in S
             PROVE  p \in S
  <2>1. After(b) = next[b]
    BY ContikiProcessAssumption DEF After
  <2>. QED
    BY <2>1 DEF Ahead
<1> DEFINE R == S \cup {b}
<1>1. R \in SUBSET (Process \cup {NULL}) /\ After(at) \in R
  OBVIOUS
<1>2. \A q \in R \cap Process : q # p => next[q] \in R
  OBVIOUS
<1>. QED
  BY <1>1, <1>2 DEF Ahead

\* A process joins the list at its head: the loop is past it, or meets it first.
LEMMA AheadStart ==
  ASSUME ListInv, ProcessTypeOK, NEW q \in Process, q \notin ListSet,
         next' = [next EXCEPT ![q] = process_list], process_list' = q,
         NEW p \in ListSet, NEW at \in ListSet \cup {NULL}, Ahead(at, p)
  PROVE  Ahead(at, p)'
<1> SUFFICES ASSUME NEW S \in SUBSET (Process \cup {NULL}), After(at)' \in S,
                    \A r \in S \cap Process : r # p => next'[r] \in S
             PROVE  p \in S
  BY DEF Ahead
<1>1. /\ process_list \in ListSet \cup {NULL} /\ q # p
      /\ \A r \in ListSet : next'[r] = next[r] /\ next[r] \in ListSet \cup {NULL} /\ r \in Process
  BY ListLinks DEF ProcessTypeOK, ListSet
<1> DEFINE R == S \cap (ListSet \cup {NULL})
<1>2. After(at) \in R
  <2>1. CASE at = NULL
    <3>1. After(at)' = q /\ next'[q] = process_list
      BY <2>1 DEF After, ProcessTypeOK
    <3>. QED
      BY <1>1, <2>1, <3>1 DEF After
  <2>2. CASE at # NULL
    BY <1>1, <2>2 DEF After
  <2>. QED
    BY <2>1, <2>2
<1>3. \A r \in R \cap Process : r # p => next[r] \in R
  BY <1>1, ContikiProcessAssumption
<1>4. R \in SUBSET (Process \cup {NULL})
  OBVIOUS
<1>. HIDE DEF R
<1>5. p \in R
  BY <1>2, <1>3, <1>4 DEF Ahead
<1>. QED
  BY <1>5 DEF R

\* Another process leaves the list.
LEMMA AheadUnlink ==
  ASSUME ProcessTypeOK, NEW q \in Process, NEW p, q # p, Unlink(q),
         NEW at \in Process \cup {NULL}, Ahead(at, p)
  PROVE  Ahead(at, p)'
<1>1. \A r \in Process : next'[r] = next[r] \/ (next[r] = q /\ next'[r] = next[q])
  BY DEF Unlink, ProcessTypeOK
<1>2. process_list' = process_list \/ (process_list = q /\ process_list' = next[q])
  BY DEF Unlink
<1>3. After(at)' = After(at) \/ (After(at) = q /\ After(at)' = next[q])
  BY <1>1, <1>2 DEF After
<1> SUFFICES ASSUME NEW S \in SUBSET (Process \cup {NULL}), After(at)' \in S,
                    \A r \in S \cap Process : r # p => next'[r] \in S
             PROVE  p \in S
  BY DEF Ahead
<1>4. CASE next[q] \in S
  <2> DEFINE R == S \cup {q}
  <2>1. R \in SUBSET (Process \cup {NULL}) /\ After(at) \in R
    BY <1>3
  <2>2. \A r \in R \cap Process : r # p => next[r] \in R
    BY <1>1, <1>4
  <2>3. p \in R
    BY <2>1, <2>2, Zenon DEF Ahead
  <2>. QED
    BY <2>3
<1>5. CASE next[q] \notin S
  <2>1. After(at) \in S
    BY <1>3, <1>5
  <2>2. \A r \in S \cap Process : r # p => next[r] \in S
    BY <1>1, <1>5
  <2>. QED
    BY <2>1, <2>2, Zenon DEF Ahead
<1>. QED
  BY <1>4, <1>5
-----------------------------------------------------------------------------
(***************************************************************************)
(* No poll is lost.                                                        *)
(***************************************************************************)

\* A do_poll() that is under way will come to p.
PollAhead(p) == \E f \in Frames(stack) : f.op = "poll" /\ Ahead(f.at, p)

StillDue(p) == PollDue(p)' \/ ~needspoll'[p] \/ state'[p] = "NONE"

LEMMA DueMeans ==
  ASSUME NEW p
  PROVE  PollDue(p) <=> needspoll[p] /\ state[p] # "NONE" /\ (poll_requested \/ PollAhead(p))
BY DEF PollDue, PollAhead, Frames

LEMMA DueMeansPrime ==
  (\A p : PollDue(p) <=> /\ needspoll[p] /\ state[p] # "NONE"
                         /\ poll_requested \/ PollAhead(p))'
<1>1. \A p : PollDue(p) <=> /\ needspoll[p] /\ state[p] # "NONE"
                            /\ poll_requested \/ PollAhead(p)
  BY DueMeans
<1>. QED
  BY <1>1, PTL

LEMMA TopFrame ==
  ASSUME CallsInv, ShapeInv, stack # << >>
  PROVE  /\ Top \in Frame /\ Top \in Frames(stack) /\ Callers \in Seq(Frame)
         /\ stack \in Seq(Frame) /\ Frames(stack) = Frames(Callers) \cup {Top}
         /\ Top.p \in Process \cup {NULL} /\ Top.back \in Process \cup {NULL, "keep"}
<1>1. Top = stack[1] /\ Top \in Frame /\ Callers = Tail(stack) /\ Callers \in Seq(Frame)
  BY TopShape
<1>2. stack[1] \in Frames(stack) /\ Frames(stack) = Frames(Tail(stack)) \cup {stack[1]}
  BY ShapeTop DEF ShapeInv
<1>3. stack \in Seq(Frame)
  BY DEF ShapeInv, Shape
<1>4. Top.p \in Process \cup {NULL} /\ Top.back \in Process \cup {NULL, "keep"}
  BY <1>1 DEF Frame
<1>. QED
  BY <1>1, <1>2, <1>3, <1>4

\* The step leaves requests alone, and what do_poll() has before it.
LEMMA DueKept ==
  ASSUME NEW p \in Process, PollDue(p), PollTypeOK, UNCHANGED poll_requested,
         PollAhead(p) => PollAhead(p)'
  PROVE  StillDue(p)
BY DueMeans, DueMeansPrime DEF StillDue

LEMMA PollsKept ==
  ASSUME NEW p, UNCHANGED listVars, Frames(stack) \subseteq Frames(stack'), PollAhead(p)
  PROVE  PollAhead(p)'
BY SameAhead DEF PollAhead

\* ... but for the frame on top, which is no do_poll().
LEMMA PollsKeptBelow ==
  ASSUME NEW p, CallsInv, ShapeInv, stack # << >>, Top.op # "poll",
         Frames(Callers) \subseteq Frames(stack'), UNCHANGED listVars, PollAhead(p)
  PROVE  PollAhead(p)'
BY TopFrame, SameAhead DEF PollAhead

\* The frames below a call stay.
LEMMA CallKeepsFrames ==
  ASSUME NEW st, NEW rest \in Seq(Frame), NEW p \in Process,
         NEW ev \in Event \cup {"NONE"}, NEW data \in Process \cup {NULL},
         NEW back \in Process \cup {NULL, "keep"},
         call_process(st, p, ev, data, back, rest)
  PROVE  Frames(rest) \subseteq Frames(stack')
<1> DEFINE f == ThreadFrame("thread", p, ev, data, back)
<1>1. f \in Frame
  BY DEF Frame, ThreadFrame
<1>2. stack' = << f >> \o rest \/ stack' = rest
  BY DEF call_process
<1>. HIDE DEF f
<1>. QED
  BY <1>1, <1>2, PushedSeq

\* main(), process_run() and the loop of a broadcast do not run on do_poll().
LEMMA NotPolling ==
  ASSUME CallsInv, ShapeInv, NEW p,
         stack = << >> \/ (stack # << >> /\ Top.op \in Loops \ {"poll"})
  PROVE  ~PollAhead(p)
<1>1. CASE stack = << >>
  BY <1>1 DEF PollAhead, Frames
<1>2. CASE stack # << >> /\ Top.op \in Loops \ {"poll"}
  <2>1. Callers = << >> /\ Frames(stack) = Frames(Callers) \cup {Top}
    BY <1>2, TopShape, TopFrame DEF MayLieOn
  <2>2. Frames(Callers) = {}
    BY <2>1 DEF Frames
  <2>. QED
    BY <1>2, <2>1, <2>2 DEF PollAhead
<1>. QED
  BY <1>1, <1>2

\* A process that do_poll() has called stays on the list till it returns.
LEMMA PollAtListed ==
  ASSUME ShapeInv, stack # << >>, stack[1].op # "poll"
  PROVE  \A f \in Frames(stack) : f.op = "poll" => f.at \in ListSet \cup {NULL}
<1> SUFFICES ASSUME NEW i \in 1..Len(stack), stack[i].op = "poll"
             PROVE  stack[i].at \in ListSet \cup {NULL}
  BY DEF Frames
<1>1. Nested(stack) /\ stack \in Seq(Frame) /\ Len(stack) \in Nat
  BY DEF ShapeInv, Shape
<1>2. i # 1 /\ i - 1 \in 1..Len(stack) /\ i - 1 < i
  BY <1>1
<1>3. stack[i - 1].p = stack[i].at
  BY <1>1, <1>2, Zenon DEF Nested, Walking
<1>4. stack[i - 1] \in Frame /\ stack[i - 1] \in Frames(stack)
  BY <1>1, <1>2, ElementOfSeq DEF Frames
<1>5. stack[i - 1].p \in Process \cup {NULL}
  BY <1>4 DEF Frame
<1>. QED
  BY <1>3, <1>4, <1>5, Absent DEF ShapeInv

\* A poll that is asked for is of a process on the list.
LEMMA DueListed ==
  ASSUME ShapeInv, NEW p \in Process, PollDue(p)
  PROVE  p \in ListSet
BY DEF ShapeInv, Shape, Fits, PollDue

\* A process that has exited is taken out; p has not.
LEMMA UnlinkKeepsPolls ==
  ASSUME CallsInv, ShapeInv, NEW p \in Process, NEW q \in Process, state[q] = "NONE",
         state[p] # "NONE", Unlink(q), PollAhead(p),
         \A f \in Frames(stack) : f.op = "poll" => f \in Frames(stack')
  PROVE  PollAhead(p)'
<1>1. PICK f \in Frames(stack) : f.op = "poll" /\ Ahead(f.at, p)
  BY DEF PollAhead
<1>2. f \in Frame
  BY <1>1, ElementOfSeq DEF ShapeInv, Shape, Frames
<1>3. f.at \in Process \cup {NULL} /\ q # p /\ ProcessTypeOK
  BY <1>2 DEF Frame, CallsInv
<1>4. Ahead(f.at, p)'
  BY <1>1, <1>3, AheadUnlink
<1>5. f \in Frames(stack') /\ f.op = "poll"
  BY <1>1
<1>. QED
  BY <1>4, <1>5 DEF PollAhead

LEMMA ExitKeepsPolls ==
  ASSUME CallsInv, ShapeInv, NEW p \in Process, NEW q \in Process, state[p] # "NONE",
         NEW ev \in {"NONE", "EXIT"}, NEW back \in Process \cup {NULL, "keep"},
         NEW rest \in Seq(Frame),
         \A f \in Frames(stack) : f.op = "poll" => f \in Frames(rest),
         exit_process(q, ev, back, rest), PollAhead(p)
  PROVE  PollAhead(p)'
<1> DEFINE e == ExitFrame(q, ev, IF back = "keep" THEN process_current ELSE back)
<1>1. e \in Frame
  BY DEF Frame, ExitFrame, Event, CallsInv, ProcessTypeOK
<1>2. /\ stack' = rest \/ stack' = << e >> \o rest
      /\ UNCHANGED listVars \/ (state[q] = "NONE" /\ Unlink(q))
  BY DEF exit_process
<1>. HIDE DEF e
<1>3. \A f \in Frames(stack) : f.op = "poll" => f \in Frames(stack')
  BY <1>1, <1>2, PushedSeq
<1>4. CASE UNCHANGED listVars
  BY <1>3, <1>4, SameAhead DEF PollAhead
<1>5. CASE state[q] = "NONE" /\ Unlink(q)
  BY <1>3, <1>5, UnlinkKeepsPolls
<1>. QED
  BY <1>2, <1>4, <1>5

LEMMA StartKeepsPolls ==
  ASSUME CallsInv, ShapeInv, PollTypeOK, stack # << >>, Top.op # "poll",
         NEW p \in Process, PollDue(p), NEW q \in Process, process_start(q)
  PROVE  StillDue(p)
<1>1. /\ q \notin ListSet /\ ListInv /\ ProcessTypeOK /\ p \in ListSet
      /\ next' = [next EXCEPT ![q] = process_list] /\ process_list' = q
      /\ UNCHANGED poll_requested
  BY DueListed DEF process_start, ListSet, ShapeInv, CallsInv, pollVars
<1>2. Frames(stack) \subseteq Frames(stack')
  <2>1. /\ call_process([state EXCEPT ![q] = "RUNNING"], q, "INIT", NULL, process_current, stack)
        /\ "INIT" \in Event \cup {"NONE"} /\ process_current \in Process \cup {NULL, "keep"}
        /\ stack \in Seq(Frame) /\ NULL \in Process \cup {NULL}
    BY DEF process_start, Event, CallsInv, ProcessTypeOK, ShapeInv, Shape
  <2> DEFINE st == [state EXCEPT ![q] = "RUNNING"]
  <2>2. call_process(st, q, "INIT", NULL, process_current, stack)
    BY <2>1
  <2>. HIDE DEF st
  <2>. QED
    BY <2>1, <2>2, CallKeepsFrames
<1>3. ASSUME PollAhead(p)
      PROVE  PollAhead(p)'
  <2>1. PICK f \in Frames(stack) : f.op = "poll" /\ Ahead(f.at, p)
    BY <1>3 DEF PollAhead
  <2>2. f.at \in ListSet \cup {NULL}
    BY <2>1, TopShape, PollAtListed
  <2>3. Ahead(f.at, p)'
    BY <1>1, <2>1, <2>2, AheadStart
  <2>. QED
    BY <1>2, <2>1, <2>3 DEF PollAhead
<1>. QED
  BY <1>1, <1>3, DueKept

\* do_poll() comes to p, or has it before it as long as it has not.
LEMMA PollServes ==
  ASSUME CallsInv, ShapeInv, PollTypeOK, Poll, NEW p \in Process, PollDue(p)
  PROVE  StillDue(p)
<1> DEFINE at == After(Top.at)
           f == [Top EXCEPT !.at = at]
           here == << f >> \o Callers
<1>1. stack # << >> /\ Top.op = "poll" /\ UNCHANGED <<listVars, poll_requested>>
  BY DEF Poll, InLoop
<1>2. /\ at \in Process \cup {NULL} /\ f \in Frame /\ f.op = "poll" /\ f.at = at
      /\ Callers \in Seq(Frame) /\ Frames(stack) = Frames(Callers) \cup {Top}
  BY <1>1, TopShape, TopFrame DEF Frame
<1>3. \/ at = NULL /\ stack' = Callers
      \/ at # NULL /\ ~needspoll[at] /\ stack' = here
      \/ /\ at # NULL /\ needspoll' = [needspoll EXCEPT ![at] = FALSE]
         /\ call_process([state EXCEPT ![at] = "RUNNING"], at, "POLL", NULL, "keep", here)
  BY DEF Poll
<1>4. at = p => ~needspoll'[p] \/ ~needspoll[p]
  BY <1>3, ContikiProcessAssumption DEF PollTypeOK
<1>5. Ahead(Top.at, p) => at # NULL /\ (at # p => Ahead(at, p))
  BY <1>2, AheadAtLast, AheadMoves
<1>6. "POLL" \in Event \cup {"NONE"} /\ NULL \in Process \cup {NULL}
  BY DEF Event
<1>. HIDE DEF at, f
<1>7. here \in Seq(Frame) /\ Frames(here) = Frames(Callers) \cup {f}
  BY <1>2, PushedSeq
<1>. HIDE DEF here
<1>8. \/ at = NULL /\ stack' = Callers
      \/ at # NULL /\ Frames(here) \subseteq Frames(stack')
  <2>1. CASE /\ at # NULL
             /\ call_process([state EXCEPT ![at] = "RUNNING"], at, "POLL", NULL, "keep", here)
    <3> DEFINE st == [state EXCEPT ![at] = "RUNNING"]
    <3>1. call_process(st, at, "POLL", NULL, "keep", here) /\ at \in Process
      BY <1>2, <2>1
    <3>. HIDE DEF st
    <3>2. Frames(here) \subseteq Frames(stack')
      BY <1>6, <1>7, <3>1, CallKeepsFrames
    <3>. QED
      BY <2>1, <3>2
  <2>. QED
    BY <1>3, <2>1
<1>9. ASSUME PollAhead(p), at # p
      PROVE  PollAhead(p)'
  <2>1. PICK g \in Frames(stack) : g.op = "poll" /\ Ahead(g.at, p)
    BY <1>9 DEF PollAhead
  <2>2. CASE g \in Frames(Callers)
    BY <1>1, <1>7, <1>8, <2>1, <2>2, SameAhead DEF PollAhead
  <2>3. CASE g = Top
    <3>1. at # NULL /\ Ahead(at, p)
      BY <1>5, <1>9, <2>1, <2>3
    <3>2. PICK h : h = f
      OBVIOUS
    <3>3. h \in Frames(stack') /\ h.op = "poll" /\ Ahead(h.at, p)
      BY <1>2, <1>7, <1>8, <3>1, <3>2
    <3>4. Ahead(h.at, p)'
      BY <1>1, <3>3, SameAhead
    <3>. QED
      BY <3>3, <3>4 DEF PollAhead
  <2>. QED
    BY <1>2, <2>1, <2>2, <2>3
<1>10. needspoll[p]
  BY DEF PollDue
<1>. QED
  BY <1>1, <1>4, <1>9, <1>10, DueKept DEF StillDue

\* A do_poll() that begins takes the request over.
LEMMA PollBegins ==
  ASSUME CallsInv, ShapeInv, RunPolls \/ Broadcast, NEW p \in Process, PollDue(p), PollTypeOK
  PROVE  StillDue(p)
<1> DEFINE f == LoopFrame("poll", "NONE")
<1>1. UNCHANGED listVars /\ ~PollAhead(p)
  BY NotPolling DEF RunPolls, Broadcast, InLoop, Loops
<1>2. CASE f \in Frames(stack')
  <2>1. f.op = "poll" /\ f.at = NULL
    BY DEF LoopFrame
  <2>2. Ahead(NULL, p)'
    BY <1>1, DueListed, AheadAtFirst, SameAhead DEF ShapeInv
  <2>3. PollAhead(p)'
    BY <1>2, <2>1, <2>2 DEF PollAhead
  <2>. QED
    BY <2>3, DueMeans, DueMeansPrime DEF StillDue
<1>3. CASE UNCHANGED poll_requested
  BY <1>1, <1>3, DueKept
<1>4. f \in Frames(stack') \/ UNCHANGED poll_requested
  <2>1. CASE RunPolls
    <3>1. stack' = << f, LoopFrame("event", "NONE") >>
      BY <2>1 DEF RunPolls
    <3>. HIDE DEF f
    <3>. QED
      BY <3>1 DEF Frames
  <2>2. CASE Broadcast
    <3> DEFINE g == [Top EXCEPT !.at = After(Top.at), !.op = "deliver"]
    <3>1. stack' = << f >> \o << g >> \/ UNCHANGED poll_requested
      BY <2>2 DEF Broadcast
    <3>. HIDE DEF f, g
    <3>2. (<< f >> \o << g >>)[1] = f /\ 1 \in 1..Len(<< f >> \o << g >>)
      OBVIOUS
    <3>. QED
      BY <3>1, <3>2 DEF Frames
  <2>. QED
    BY <2>1, <2>2
<1>. QED
  BY <1>2, <1>3, <1>4

LEMMA InformExitedPolls ==
  ASSUME CallsInv, ShapeInv, InformExited, NEW p, PollAhead(p)
  PROVE  PollAhead(p)'
<1> DEFINE at == After(Top.at)
           f == [Top EXCEPT !.at = at]
           here == << f >> \o Callers
<1>1. stack # << >> /\ Top.op = "exit" /\ at # NULL /\ UNCHANGED listVars
  BY DEF InformExited, InLoop
<1>2. /\ at \in Process /\ f \in Frame /\ Top.p \in Process \cup {NULL}
      /\ Callers \in Seq(Frame)
  BY <1>1, TopShape DEF Frame
<1>3. \/ stack' = here
      \/ call_process(state, at, "EXITED", Top.p, "keep", here)
  BY DEF InformExited
<1>4. "EXITED" \in Event \cup {"NONE"}
  BY DEF Event
<1>. HIDE DEF at, f
<1>5. here \in Seq(Frame) /\ Frames(Callers) \subseteq Frames(here)
  BY <1>2, PushedSeq
<1>. HIDE DEF here
<1>6. Frames(here) \subseteq Frames(stack')
  BY <1>2, <1>3, <1>4, <1>5, CallKeepsFrames
<1>. QED
  BY <1>1, <1>5, <1>6, PollsKeptBelow

LEMMA FinishExitPolls ==
  ASSUME CallsInv, ShapeInv, FinishExit, NEW p \in Process, state[p] # "NONE", PollAhead(p)
  PROVE  PollAhead(p)'
<1>1. stack # << >> /\ Top.op \in {"exit", "unlink"}
  BY DEF FinishExit, InLoop
<1>2. /\ Top.p \in Process /\ Top \in Frame /\ Callers \in Seq(Frame) /\ Top \in Frames(stack)
      /\ Frames(stack) = Frames(Callers) \cup {Top}
  BY <1>1, TopShape, TopFrame DEF FrameOK
<1>3. CASE /\ UNCHANGED listVars
           /\ stack' = << ThreadFrame("told", Top.p, "EXIT", NULL, "keep"),
                          [Top EXCEPT !.op = "unlink"] >> \o Callers
  <2> DEFINE f == [Top EXCEPT !.op = "unlink"]
             g == ThreadFrame("told", Top.p, "EXIT", NULL, "keep")
             rest == << f >> \o Callers
  <2>1. f \in Frame /\ g \in Frame
    BY <1>2 DEF Frame, ThreadFrame, Event
  <2>2. stack' = << g, f >> \o Callers
    BY <1>3
  <2>. HIDE DEF f, g
  <2>3. stack' = << g >> \o rest
    BY <1>2, <2>1, <2>2, JoinSeq
  <2>4. rest \in Seq(Frame) /\ Frames(rest) = Frames(Callers) \cup {f}
    BY <1>2, <2>1, PushedSeq
  <2>. HIDE DEF rest
  <2>5. Frames(Callers) \subseteq Frames(stack')
    BY <2>1, <2>3, <2>4, PushedSeq
  <2>. QED
    BY <1>1, <1>3, <2>5, PollsKeptBelow
<1>4. CASE Unlink(Top.p) /\ stack' = Callers
  <2>1. state[Top.p] = "NONE"
    BY <1>1, <1>2 DEF ShapeInv, Shape, Fits
  <2>2. \A f \in Frames(stack) : f.op = "poll" => f \in Frames(stack')
    BY <1>1, <1>2, <1>4
  <2>. QED
    BY <1>2, <1>4, <2>1, <2>2, UnlinkKeepsPolls
<1>. QED
  BY <1>3, <1>4 DEF FinishExit

LEMMA ThreadKeepsPolls ==
  ASSUME CallsInv, ShapeInv, PollTypeOK, NEW t \in Process, Thread(t), NEW p \in Process, PollDue(p)
  PROVE  StillDue(p)
<1>1. /\ stack # << >> /\ Top.op \in {"thread", "told"} /\ Top.p = t /\ Top.op # "poll"
      /\ stack \in Seq(Frame)
      /\ Callers \in Seq(Frame) /\ Frames(stack) = Frames(Callers) \cup {Top}
      /\ Top.back \in Process \cup {NULL, "keep"} /\ state[p] # "NONE"
  BY TopFrame DEF Thread, InThread, PollDue
<1>2. ASSUME NEW q \in Process \cup {PROCESS_BROADCAST}, NEW ev \in Posted, Post(q, ev)
      PROVE  StillDue(p)
  <2>1. UNCHANGED <<listVars, stack, poll_requested>>
    BY <1>2 DEF Post, pollVars
  <2>2. PollAhead(p) => PollAhead(p)'
    BY <2>1, PollsKept
  <2>. QED
    BY <2>1, <2>2, DueKept
<1>3. ASSUME NEW q \in Process, NEW ev \in Posted, process_post_synch(q, ev)
      PROVE  StillDue(p)
  <2>1. /\ UNCHANGED <<listVars, poll_requested>>
        /\ call_process(state, q, ev, NULL, process_current, stack)
        /\ process_current \in Process \cup {NULL, "keep"} /\ ev \in Event \cup {"NONE"}
        /\ NULL \in Process \cup {NULL}
    BY <1>3, ContikiProcessAssumption DEF process_post_synch, pollVars, CallsInv, ProcessTypeOK
  <2>2. Frames(stack) \subseteq Frames(stack')
    BY <1>1, <2>1, CallKeepsFrames
  <2>3. PollAhead(p) => PollAhead(p)'
    BY <2>1, <2>2, PollsKept
  <2>. QED
    BY <2>1, <2>3, DueKept
<1>4. ASSUME NEW q \in Process, process_start(q)
      PROVE  StillDue(p)
  BY <1>1, <1>4, StartKeepsPolls
<1>5. ASSUME NEW q \in Process, process_exit(q)
      PROVE  StillDue(p)
  <2> DEFINE ev == IF q = process_current THEN "NONE" ELSE "EXIT"
  <2>1. exit_process(q, ev, "keep", stack) /\ UNCHANGED poll_requested /\ ev \in {"NONE", "EXIT"}
    BY <1>5 DEF process_exit, pollVars
  <2>. HIDE DEF ev
  <2>2. PollAhead(p) => PollAhead(p)'
    BY <1>1, <2>1, ExitKeepsPolls
  <2>. QED
    BY <2>1, <2>2, DueKept
<1>6. CASE Yield(t)
  <2>1. stack' = Callers /\ UNCHANGED <<listVars, poll_requested>>
    BY <1>6 DEF Yield, pollVars
  <2>2. PollAhead(p) => PollAhead(p)'
    BY <1>1, <2>1, PollsKeptBelow
  <2>. QED
    BY <2>1, <2>2, DueKept
<1>7. CASE End(t)
  <2>1. exit_process(t, "NONE", Top.back, Callers) /\ UNCHANGED poll_requested
    BY <1>7 DEF End, pollVars
  <2>2. \A f \in Frames(stack) : f.op = "poll" => f \in Frames(Callers)
    BY <1>1
  <2>3. PollAhead(p) => PollAhead(p)'
    BY <1>1, <2>1, <2>2, ExitKeepsPolls
  <2>. QED
    BY <2>1, <2>3, DueKept
<1>. QED
  BY <1>2, <1>3, <1>4, <1>5, <1>6, <1>7 DEF Thread

LEMMA PollStaysDue ==
  ASSUME CallsInv, ShapeInv, PollTypeOK, QueueTypeOK, Next, NEW p \in Process, PollDue(p)
  PROVE  StillDue(p)
<1>1. CASE InformExited \/ FinishExit
  <2>1. UNCHANGED poll_requested /\ state[p] # "NONE"
    BY <1>1 DEF InformExited, FinishExit, pollVars, PollDue
  <2>. QED
    BY <1>1, <2>1, InformExitedPolls, FinishExitPolls, DueKept
<1>2. CASE Poll
  BY <1>2, PollServes
<1>3. CASE RunPolls \/ Broadcast
  BY <1>3, PollBegins
<1>4. CASE MainLoop \/ do_event \/ Idle \/ Deliver
  <2>1. ~PollAhead(p) /\ UNCHANGED poll_requested
    BY <1>4, NotPolling DEF MainLoop, do_event, Idle, Deliver, InLoop, Loops, pollVars
  <2>. QED
    BY <2>1, DueKept
<1>5. ASSUME NEW q \in Process, MainStarts(q)
      PROVE  StillDue(p)
  BY <1>5, StartKeepsPolls DEF MainStarts, InLoop
<1>6. ASSUME NEW q \in Process, Thread(q)
      PROVE  StillDue(p)
  BY <1>6, ThreadKeepsPolls
<1>7. ASSUME NEW q \in Process, process_poll(q)
      PROVE  StillDue(p)
  <2>1. poll_requested' = TRUE
    BY <1>7 DEF process_poll
  <2>. QED
    BY <2>1, DueMeansPrime DEF StillDue
<1>. QED
  BY <1>1, <1>2, <1>3, <1>4, <1>5, <1>6, <1>7 DEF Next, Kernel

\* No poll is lost: a request that is there when do_poll() begins, or comes before it
\* has passed the process, is served by that walk over the list, whatever the threads it
\* calls start, end and exit; any later request has a walk of its own.
THEOREM PollsCorrect ==
  ASSUME ~MayExitBusy, "INIT" \notin Posted
  PROVE  Spec => NoPollLost
<1>1. SoundInv /\ [Next]_vars =>
        [\A p \in Process : PollDue(p) => PollDue(p)' \/ ~needspoll'[p] \/ state'[p] = "NONE"]_vars
  BY PollStaysDue DEF SoundInv, KernelInv, StillDue
<1>. QED
  BY <1>1, SoundInvHolds, PTL DEF Spec, NoPollLost
=============================================================================
