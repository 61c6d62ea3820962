-------------------------- MODULE RestManager_proofs --------------------------
(***************************************************************************)
(* Event timers and the REST manager over the kernel: types, and a list of *)
(* timers on which each one is at most once, for every number of           *)
(* processes, timers and periodic resources.                               *)
(*                                                                         *)
(* The kernel's invariant carries over, step by step, to the steps of this *)
(* composition.  That the etimer process is where it was in the list when  *)
(* it goes on needs to know that nobody runs in between (ScanIsOn).        *)
(* That no timer outlives its process needs to know what exit_process()    *)
(* has still to do: the etimer process is before its loop, or has just     *)
(* been called by it (Informs).                                            *)
(* That no periodic resource is forgotten needs to know how its timer can  *)
(* leave the list: by an event that is queued for the REST manager, which  *)
(* runs, and whose loop has not come to the resource (AwaitInv).           *)
(***************************************************************************)
EXTENDS RestManager, ContikiList_proofs

Distinct(list) == \A i, j \in 1..Len(list) : list[i] = list[j] => i = j

-----------------------------------------------------------------------------
(***************************************************************************)
(* Lists of timers.                                                        *)
(***************************************************************************)

\* The recursion that Without follows.
KeptStep(list, S, f) ==
  [i \in 0..Len(list) |->
     IF i = 0 THEN << >>
     ELSE IF list[i] \in S THEN f[i - 1] ELSE Append(f[i - 1], list[i])]

LEMMA KeptExists ==
  ASSUME NEW T, NEW list \in Seq(T), NEW S
  PROVE  \E f : f = KeptStep(list, S, f)
<1> DEFINE Val(f, i) == IF i = 0 THEN << >>
                        ELSE IF list[i] \in S THEN f[i - 1] ELSE Append(f[i - 1], list[i])
           Good(m) == \E f : f = [i \in 0..m |-> Val(f, i)]
           Bad == {m \in 0..Len(list) : ~Good(m)}
<1>1. Good(0)
  <2> DEFINE f == [i \in 0..0 |-> << >>]
  <2>1. f = [i \in 0..0 |-> Val(f, i)]
    OBVIOUS
  <2>. QED
    BY <2>1
<1>2. ASSUME NEW m \in Nat, Good(m)
      PROVE  Good(m + 1)
  <2>1. PICK f : f = [i \in 0..m |-> Val(f, i)]
    BY <1>2
  <2> DEFINE g == [i \in 0..(m + 1) |-> IF i \in 0..m THEN f[i] ELSE Val(f, m + 1)]
  <2>2. ASSUME NEW i \in 0..(m + 1)
        PROVE  g[i] = Val(g, i)
    <3>1. CASE i = 0
      BY <2>1, <3>1
    <3>2. CASE i # 0
      <4>1. i - 1 \in 0..m /\ i - 1 \in 0..(m + 1) /\ (i \notin 0..m => i = m + 1)
        BY <3>2
      <4>2. g[i - 1] = f[i - 1]
        BY <4>1
      <4>3. Val(g, i) = Val(f, i)
        BY <3>2, <4>2
      <4>4. i \in 0..m => f[i] = Val(f, i)
        BY <2>1
      <4>. QED
        BY <4>1, <4>3, <4>4
    <3>. QED
      BY <3>1, <3>2
  <2>3. g = [i \in 0..(m + 1) |-> Val(g, i)]
    BY <2>2
  <2>. QED
    BY <2>3
<1>. HIDE DEF Good
<1>3. Bad = {}
  <2> SUFFICES ASSUME Bad # {} PROVE FALSE
    OBVIOUS
  <2>1. Bad \in SUBSET Nat
    OBVIOUS
  <2>2. PICK m \in Bad : \A k \in Bad : m <= k
    <3>. HIDE DEF Bad
    <3>. QED BY <2>1, Least
  <2>3. m # 0 /\ m \in 0..Len(list) /\ Len(list) \in Nat
    BY <1>1
  <2>4. m - 1 \in 0..Len(list) /\ m - 1 \in Nat /\ m - 1 \notin Bad
    BY <2>2, <2>3
  <2>5. Good(m - 1) /\ (m - 1) + 1 = m
    BY <2>3, <2>4
  <2>6. Good(m)
    BY <1>2, <2>4, <2>5
  <2>. QED
    BY <2>6
<1>4. Good(Len(list))
  BY <1>3
<1>. QED
  BY <1>4 DEF Good, KeptStep

\* What stays was there, is not of S, and stands as often as it did; all of it stays.
LEMMA WithoutKeeps ==
  ASSUME NEW T, NEW list \in Seq(T), NEW S, Distinct(list)
  PROVE  LET rest == Without(list, S)
         IN  /\ rest \in Seq(T)
             /\ Distinct(rest)
             /\ \A j \in 1..Len(rest) :
                  \E k \in 1..Len(list) : rest[j] = list[k] /\ list[k] \notin S
             /\ \A k \in 1..Len(list) :
                  list[k] \notin S => \E j \in 1..Len(rest) : rest[j] = list[k]
<1> DEFINE kept == CHOOSE f : f = KeptStep(list, S, f)
           OK(i) == /\ kept[i] \in Seq(T)
                    /\ Distinct(kept[i])
                    /\ \A j \in 1..Len(kept[i]) :
                         \E k \in 1..i : kept[i][j] = list[k] /\ list[k] \notin S
                    /\ \A k \in 1..i :
                         list[k] \notin S => \E j \in 1..Len(kept[i]) : kept[i][j] = list[k]
           Bad == {i \in 0..Len(list) : ~OK(i)}
<1>1. kept = KeptStep(list, S, kept)
  BY KeptExists
<1>2. Without(list, S) = kept[Len(list)]
  BY DEF Without, KeptStep
<1>. HIDE DEF kept
<1>3. \A i \in 0..Len(list) :
        kept[i] = IF i = 0 THEN << >>
                  ELSE IF list[i] \in S THEN kept[i - 1] ELSE Append(kept[i - 1], list[i])
  BY <1>1 DEF KeptStep
<1>4. OK(0)
  <2>1. kept[0] = << >>
    BY <1>3
  <2>. QED
    BY <2>1 DEF Distinct
<1>5. ASSUME NEW i \in 1..Len(list), OK(i - 1)
      PROVE  OK(i)
  <2> DEFINE old == kept[i - 1]
             new == kept[i]
  <2>1. /\ i - 1 \in 0..Len(list) /\ i \in 0..Len(list) /\ i # 0 /\ list[i] \in T
        /\ i \in 1..i /\ 1..(i - 1) \subseteq 1..i /\ 1..(i - 1) \subseteq 1..Len(list)
        /\ i \notin 1..(i - 1)
    OBVIOUS
  <2>2. /\ old \in Seq(T) /\ Distinct(old)
        /\ \A j \in 1..Len(old) : \E k \in 1..(i - 1) : old[j] = list[k] /\ list[k] \notin S
    BY <1>5
  <2>6. /\ \A k \in 1..(i - 1) : list[k] \notin S => \E j \in 1..Len(old) : old[j] = list[k]
        /\ \A k \in 1..i : k \in 1..(i - 1) \/ k = i
    BY <1>5
  <2>3. new = IF list[i] \in S THEN old ELSE Append(old, list[i])
    BY <1>3, <2>1
  <2>. HIDE DEF old, new
  <2>4. CASE list[i] \in S
    <3>1. \A j \in 1..Len(new) : \E k \in 1..i : new[j] = list[k] /\ list[k] \notin S
      BY <2>1, <2>2, <2>3, <2>4
    <3>2. \A k \in 1..i : list[k] \notin S => \E j \in 1..Len(new) : new[j] = list[k]
      BY <2>3, <2>4, <2>6
    <3>. QED
      BY <2>2, <2>3, <2>4, <3>1, <3>2 DEF new
  <2>5. CASE list[i] \notin S
    <3>1. /\ new \in Seq(T) /\ Len(new) = Len(old) + 1 /\ new[Len(new)] = list[i]
          /\ \A j \in 1..Len(new) : j # Len(new) => j \in 1..Len(old) /\ new[j] = old[j]
      BY <2>1, <2>2, <2>3, <2>5
    <3>2. \A j \in 1..Len(old) : old[j] # list[i]
      BY <2>1, <2>2 DEF Distinct
    <3>3. Distinct(new)
      BY <2>2, <3>1, <3>2 DEF Distinct
    <3>4. \A j \in 1..Len(new) : \E k \in 1..i : new[j] = list[k] /\ list[k] \notin S
      BY <2>1, <2>2, <2>5, <3>1
    <3>5. ASSUME NEW k \in 1..i
          PROVE  \E j \in 1..Len(new) : new[j] = list[k] \/ list[k] \in S
      <4>1. Len(old) \in Nat /\ Len(new) \in 1..Len(new) /\ 1..Len(old) \subseteq 1..Len(new)
            /\ \A j \in 1..Len(old) : new[j] = old[j]
        BY <2>2, <3>1
      <4>2. CASE k = i
        BY <3>1, <4>1, <4>2
      <4>3. CASE k # i
        <5>1. list[k] \notin S => \E j \in 1..Len(old) : old[j] = list[k]
          BY <2>6, <4>3
        <5>. QED
          BY <4>1, <5>1
      <4>. QED
        BY <4>2, <4>3
    <3>. QED
      BY <3>1, <3>3, <3>4, <3>5 DEF new
  <2>. QED
    BY <2>4, <2>5
<1>. HIDE DEF OK
<1>6. Bad = {}
  <2> SUFFICES ASSUME Bad # {} PROVE FALSE
    OBVIOUS
  <2>1. Bad \in SUBSET Nat
    OBVIOUS
  <2>2. PICK m \in Bad : \A k \in Bad : m <= k
    <3>. HIDE DEF Bad
    <3>. QED BY <2>1, Least
  <2>3. m # 0 /\ m \in 0..Len(list) /\ Len(list) \in Nat
    BY <1>4
  <2>4. m \in 1..Len(list) /\ m - 1 \in 0..Len(list) /\ m - 1 \notin Bad
    BY <2>2, <2>3
  <2>5. OK(m)
    BY <1>5, <2>4
  <2>. QED
    BY <2>5
<1> DEFINE n == Len(list)
           rest == kept[n]
<1>7. OK(n)
  BY <1>6
<1>8. /\ rest \in Seq(T)
      /\ Distinct(rest)
      /\ \A j \in 1..Len(rest) : \E k \in 1..n : rest[j] = list[k] /\ list[k] \notin S
      /\ \A k \in 1..n : list[k] \notin S => \E j \in 1..Len(rest) : rest[j] = list[k]
  BY ONLY <1>7, Zenon DEF OK
<1>9. Without(list, S) = rest
  BY <1>2
<1>. HIDE DEF rest, OK
<1>. QED
  BY <1>8, <1>9, Zenon

LEMMA RemoveAtKeeps ==
  ASSUME NEW T, NEW list \in Seq(T), NEW k \in 1..Len(list), Distinct(list)
  PROVE  LET rest == RemoveAt(list, k)
         IN  /\ rest \in Seq(T)
             /\ Distinct(rest)
             /\ \A j \in 1..Len(rest) :
                  \E i \in 1..Len(list) : rest[j] = list[i] /\ list[i] # list[k]
             /\ \A i \in 1..Len(list) :
                  list[i] # list[k] => \E j \in 1..Len(rest) : rest[j] = list[i]
<1> DEFINE front == SubSeq(list, 1, k - 1)
           back  == SubSeq(list, k + 1, Len(list))
           rest  == front \o back
           At(j) == IF j < k THEN j ELSE j + 1
<1>1. /\ front \in Seq(T) /\ Len(front) = k - 1
      /\ \A j \in 1..(k - 1) : front[j] = list[j]
  OBVIOUS
<1>2. /\ back \in Seq(T) /\ Len(back) = Len(list) - k
      /\ \A j \in 1..(Len(list) - k) : back[j] = list[j + k]
  OBVIOUS
<1>3. RemoveAt(list, k) = rest
  BY DEF RemoveAt
<1>. HIDE DEF front, back
<1>4. /\ rest \in Seq(T)
      /\ Len(rest) = Len(front) + Len(back)
      /\ \A j \in 1..(Len(front) + Len(back)) : rest[j] =
            IF j <= Len(front) THEN front[j] ELSE back[j - Len(front)]
  BY <1>1, <1>2, ConcatProperties, Zenon
<1>. HIDE DEF rest
<1>5. Len(rest) = Len(list) - 1
  BY <1>1, <1>2, <1>4
<1>6. ASSUME NEW j \in 1..Len(rest)
      PROVE  rest[j] = list[At(j)] /\ At(j) \in 1..Len(list) /\ At(j) # k
  <2>1. rest[j] = IF j <= Len(front) THEN front[j] ELSE back[j - Len(front)]
    BY <1>4
  <2>2. CASE j < k
    BY <1>1, <1>5, <2>1, <2>2
  <2>3. CASE j >= k
    <3>1. j - (k - 1) \in 1..(Len(list) - k) /\ (j - (k - 1)) + k = j + 1
      BY <1>5, <2>3
    <3>. QED
      BY <1>1, <1>2, <1>5, <2>1, <2>3, <3>1
  <2>. QED
    BY <1>5, <2>2, <2>3
<1>7. \A i, j \in 1..Len(rest) : At(i) = At(j) => i = j
  BY <1>5
<1>9. ASSUME NEW i \in 1..Len(list), i # k
      PROVE  \E j \in 1..Len(rest) : At(j) = i
  <2>1. CASE i < k
    <3>1. i \in 1..Len(rest) /\ At(i) = i
      BY <1>5, <2>1
    <3>. QED
      BY <3>1
  <2>2. CASE ~(i < k)
    <3>1. i - 1 \in 1..Len(rest) /\ At(i - 1) = i
      BY <1>5, <1>9, <2>2
    <3>. QED
      BY <3>1
  <2>. QED
    BY <2>1, <2>2
<1>. HIDE DEF At
<1>8. Distinct(rest)
  BY <1>6, <1>7, Zenon DEF Distinct
<1>10. \A i \in 1..Len(list) :
         list[i] # list[k] => \E j \in 1..Len(rest) : rest[j] = list[i]
  BY <1>6, <1>9
<1>. QED
  BY <1>3, <1>4, <1>6, <1>8, <1>10 DEF Distinct

-----------------------------------------------------------------------------
(***************************************************************************)
(* The invariant.                                                          *)
(***************************************************************************)

\* The list of timers.
ListOK ==
  /\ timerlist \in Seq(Timers)
  /\ owner \in [Timers -> Process \cup {NULL}]
  /\ Distinct(timerlist)
  /\ \A i \in 1..Len(timerlist) : owner[timerlist[i]] # NULL

\* While the etimer process is in the middle of its list, it is the one that runs.
ScanIsOn ==
  /\ scan \in 0..Len(timerlist)
  /\ scan # 0 => Handles(etimer_process, "POLL")

TimesOK ==
  /\ clock \in Clock
  /\ start \in [Timers -> Clock]
  /\ interval \in [Timers -> 0..MaxInterval]

RestInv ==
  /\ KernelInv
  /\ ListOK /\ ScanIsOn /\ TimesOK
  /\ pausing \in BOOLEAN
  /\ visit \in 0..Resources

LEMMA ClockType == Clock # {} /\ 0 \in Clock /\ \A n \in Nat : n % ClockWrap \in Clock
<1>1. ClockWrap \in Nat \ {0}
  BY EtimerAssumption
<1>. QED
  BY <1>1 DEF Clock

LEMMA RestInvInit == RestInit => RestInv
<1> SUFFICES ASSUME RestInit PROVE RestInv
  OBVIOUS
<1>1. KernelInv
  BY KernelInvInit DEF RestInit
<1>2. timerlist = << >> /\ scan = 0 /\ owner \in [Timers -> Process \cup {NULL}]
  BY DEF RestInit, EtimerInit
<1>3. ListOK /\ ScanIsOn
  BY <1>2 DEF ListOK, ScanIsOn, Distinct
<1>4. TimesOK
  BY ClockType, EtimerAssumption DEF RestInit, EtimerInit, TimesOK
<1>5. pausing \in BOOLEAN /\ visit \in 0..Resources
  BY RestManagerAssumption DEF RestInit, Resources
<1>. QED
  BY <1>1, <1>3, <1>4, <1>5 DEF RestInv

-----------------------------------------------------------------------------
(***************************************************************************)
(* What the steps do to the list of timers.                                *)
(***************************************************************************)

LEMMA AddKeepsList ==
  ASSUME ListOK, NEW t \in Timers, process_current \in Process, add_timer(t)
  PROVE  ListOK' /\ Len(timerlist) <= Len(timerlist')
<1>1. process_current # NULL /\ owner' = [owner EXCEPT ![t] = process_current]
  BY ContikiProcessAssumption DEF add_timer
<1>2. owner' \in [Timers -> Process \cup {NULL}]
  BY <1>1 DEF ListOK
<1>3. \A u \in Timers : owner'[u] = IF u = t THEN process_current ELSE owner[u]
  BY <1>1 DEF ListOK
<1>4. CASE Armed(t)
  <2>1. timerlist' = timerlist
    BY <1>4 DEF add_timer, Armed, ListOK
  <2>2. \A i \in 1..Len(timerlist) : timerlist[i] \in Timers
    BY DEF ListOK
  <2>. QED
    BY <1>1, <1>2, <1>3, <2>1, <2>2 DEF ListOK
<1>5. CASE ~Armed(t)
  <2>1. timerlist' = << t >> \o timerlist
    BY <1>5 DEF add_timer
  <2>2. /\ timerlist' \in Seq(Timers) /\ Len(timerlist') = Len(timerlist) + 1
        /\ timerlist'[1] = t
        /\ \A i \in 1..Len(timerlist') :
             i # 1 => /\ i - 1 \in 1..Len(timerlist)
                      /\ timerlist'[i] = timerlist[i - 1]
                      /\ timerlist[i - 1] \in Timers
    BY <2>1 DEF ListOK
  <2>3. \A i \in 1..Len(timerlist) : timerlist[i] # t
    BY <1>5 DEF Armed
  <2>4. Distinct(timerlist')
    <3> SUFFICES ASSUME NEW i \in 1..Len(timerlist'), NEW j \in 1..Len(timerlist'),
                        timerlist'[i] = timerlist'[j]
                 PROVE  i = j
      BY DEF Distinct
    <3>1. CASE i = 1 \/ j = 1
      BY <2>2, <2>3, <3>1
    <3>2. CASE i # 1 /\ j # 1
      <4>1. /\ i - 1 \in 1..Len(timerlist) /\ j - 1 \in 1..Len(timerlist)
            /\ timerlist[i - 1] = timerlist[j - 1]
        BY <2>2, <3>2
      <4>2. i - 1 = j - 1
        BY <4>1, Zenon DEF ListOK, Distinct
      <4>. QED
        BY <4>2
    <3>. QED
      BY <3>1, <3>2
  <2>5. ASSUME NEW i \in 1..Len(timerlist')
        PROVE  owner'[timerlist'[i]] # NULL
    <3>1. CASE i = 1
      BY <1>1, <1>3, <2>2, <3>1
    <3>2. CASE i # 1
      <4>1. /\ timerlist'[i] = timerlist[i - 1] /\ timerlist[i - 1] \in Timers
            /\ timerlist[i - 1] # t /\ owner[timerlist[i - 1]] # NULL
        BY <2>2, <2>3, <3>2 DEF ListOK
      <4>. QED
        BY <1>3, <4>1
    <3>. QED
      BY <3>1, <3>2
  <2>6. Len(timerlist) \in Nat
    BY DEF ListOK
  <2>. QED
    BY <1>2, <2>2, <2>4, <2>5, <2>6 DEF ListOK
<1>. QED
  BY <1>4, <1>5

\* Timers leave the list before they lose their owners.
LEMMA ShorterList ==
  ASSUME ListOK, NEW S,
         timerlist' \in Seq(Timers), Distinct(timerlist'),
         \A j \in 1..Len(timerlist') :
           \E k \in 1..Len(timerlist) : timerlist'[j] = timerlist[k] /\ timerlist[k] \notin S,
         owner' \in [Timers -> Process \cup {NULL}],
         \A u \in Timers : u \notin S => owner'[u] = owner[u]
  PROVE  ListOK'
<1>1. \A k \in 1..Len(timerlist) : timerlist[k] \in Timers
  BY DEF ListOK
<1>. QED
  BY <1>1 DEF ListOK

LEMMA StopKeepsList ==
  ASSUME ListOK, NEW t \in Timers, etimer_stop(t)
  PROVE  ListOK'
<1>1. timerlist' = Without(timerlist, {t}) /\ owner' = [owner EXCEPT ![t] = NULL]
  BY DEF etimer_stop
<1>2. timerlist \in Seq(Timers) /\ Distinct(timerlist)
  BY DEF ListOK
<1>3. /\ timerlist' \in Seq(Timers) /\ Distinct(timerlist')
      /\ \A j \in 1..Len(timerlist') :
           \E k \in 1..Len(timerlist) : timerlist'[j] = timerlist[k] /\ timerlist[k] \notin {t}
  BY <1>1, <1>2, WithoutKeeps
<1>4. /\ owner' \in [Timers -> Process \cup {NULL}]
      /\ \A u \in Timers : u \notin {t} => owner'[u] = owner[u]
  BY <1>1 DEF ListOK
<1>. QED
  BY <1>3, <1>4, ShorterList

LEMMA DropKeepsList ==
  ASSUME ListOK, DropTimers
  PROVE  ListOK'
<1> DEFINE S == IF Top.ev = "EXITED" THEN OwnedBy(Top.data) ELSE {}
<1>1. owner' = owner /\ (timerlist' = Without(timerlist, S) \/ timerlist' = timerlist)
  BY DEF DropTimers
<1>. HIDE DEF S
<1>2. CASE timerlist' = timerlist
  BY <1>1, <1>2 DEF ListOK
<1>3. CASE timerlist' = Without(timerlist, S)
  <2>1. timerlist \in Seq(Timers) /\ Distinct(timerlist)
    BY DEF ListOK
  <2>2. /\ timerlist' \in Seq(Timers) /\ Distinct(timerlist')
        /\ \A j \in 1..Len(timerlist') :
             \E k \in 1..Len(timerlist) : timerlist'[j] = timerlist[k] /\ timerlist[k] \notin S
    <3>1. LET rest == Without(timerlist, S)
          IN  /\ rest \in Seq(Timers) /\ Distinct(rest)
              /\ \A j \in 1..Len(rest) :
                   \E k \in 1..Len(timerlist) : rest[j] = timerlist[k] /\ timerlist[k] \notin S
      BY <2>1, WithoutKeeps
    <3>. QED
      BY <1>3, <3>1
  <2>. QED
    BY <1>1, <2>2, ShorterList DEF ListOK
<1>. QED
  BY <1>1, <1>2, <1>3

LEMMA ExpireKeepsTimers ==
  ASSUME ListOK, ScanIsOn, ExpireTimer
  PROVE  ListOK' /\ ScanIsOn'
<1> DEFINE k == scan + 1
           t == timerlist[k]
<1>1. /\ k \in 1..Len(timerlist) /\ t \in Timers /\ UNCHANGED stack
      /\ Handles(etimer_process, "POLL") /\ timerlist \in Seq(Timers) /\ Distinct(timerlist)
  BY DEF ListOK, ScanIsOn, ExpireTimer
<1>2. Handles(etimer_process, "POLL")'
  BY <1>1 DEF Handles, InThread, Top
<1>3. \/ UNCHANGED timerVars /\ scan' = k
      \/ scan' = 0 /\ timerlist' = RemoveAt(timerlist, k) /\ owner' = [owner EXCEPT ![t] = NULL]
  BY DEF ExpireTimer
<1>4. CASE UNCHANGED timerVars /\ scan' = k
  BY <1>1, <1>2, <1>4 DEF ListOK, ScanIsOn, timerVars
<1>5. CASE scan' = 0 /\ timerlist' = RemoveAt(timerlist, k) /\ owner' = [owner EXCEPT ![t] = NULL]
  <2>1. /\ timerlist' \in Seq(Timers) /\ Distinct(timerlist')
        /\ \A j \in 1..Len(timerlist') :
             \E i \in 1..Len(timerlist) : timerlist'[j] = timerlist[i] /\ timerlist[i] \notin {t}
    <3>. HIDE DEF k
    <3>1. LET rest == RemoveAt(timerlist, k)
          IN  /\ rest \in Seq(Timers)
              /\ Distinct(rest)
              /\ \A j \in 1..Len(rest) :
                   \E i \in 1..Len(timerlist) : rest[j] = timerlist[i] /\ timerlist[i] # timerlist[k]
      BY <1>1, RemoveAtKeeps
    <3>. QED
      BY <1>5, <3>1
  <2>2. /\ owner' \in [Timers -> Process \cup {NULL}]
        /\ \A u \in Timers : u \notin {t} => owner'[u] = owner[u]
    BY <1>1, <1>5 DEF ListOK
  <2>. HIDE DEF t
  <2>3. ListOK'
    BY <2>1, <2>2, ShorterList
  <2>4. scan' \in 0..Len(timerlist')
    BY <1>5, <2>1
  <2>. QED
    BY <1>5, <2>3, <2>4 DEF ScanIsOn
<1>. QED
  BY <1>3, <1>4, <1>5

-----------------------------------------------------------------------------
(***************************************************************************)
(* What the steps do to the kernel.                                        *)
(***************************************************************************)

LEMMA PollsKeepKernel ==
  ASSUME KernelInv, UNCHANGED <<listVars, state, process_current, queueVars, stack, starts>>,
         PollTypeOK'
  PROVE  KernelInv'
<1>1. CallsInv'
  BY DEF KernelInv, CallsInv, ProcessTypeOK, listVars
<1>2. QueueTypeOK'
  BY DEF KernelInv, QueueTypeOK, queueVars
<1>. QED
  BY <1>1, <1>2 DEF KernelInv

LEMMA PostKeepsKernel ==
  ASSUME KernelInv, NEW p \in Process \cup {NULL}, NEW ev \in Event, process_post(p, ev),
         UNCHANGED <<listVars, state, process_current, pollVars, stack, starts>>
  PROVE  KernelInv'
<1>1. CallsInv'
  BY DEF KernelInv, CallsInv, ProcessTypeOK, listVars
<1>2. QueueTypeOK'
  BY PostAppends DEF KernelInv
<1>3. PollTypeOK'
  BY DEF KernelInv, PollTypeOK, pollVars
<1>. QED
  BY <1>1, <1>2, <1>3 DEF KernelInv

LEMMA YieldKeepsKernel ==
  ASSUME KernelInv, NEW p \in Process, InThread(p), Yield(p)
  PROVE  KernelInv'
<1>1. Next
  BY DEF Next, Thread
<1>. QED
  BY <1>1, KernelInvNext

LEMMA PauseKeepsKernel ==
  ASSUME KernelInv, Pause
  PROVE  KernelInv'
<1> DEFINE p == rest_manager_process
<1>1. /\ p \in Process /\ InThread(p) /\ stack' = Callers /\ Restore(Top.back)
      /\ state' = [state EXCEPT ![p] = "RUNNING"] /\ UNCHANGED <<listVars, pollVars, starts>>
  BY RestManagerAssumption DEF Pause, Handles
<1>2. /\ stack # << >> /\ FrameOK(Top) /\ Top = stack[1] /\ Callers = Tail(stack)
      /\ Top.back \in Process \cup {NULL, "keep"}
  BY <1>1, ThreadCalls, TopOfStack DEF KernelInv, FrameOK, Frame
<1>3. Consistent(Callers, Restored(Top.back))
  BY <1>2, Pop DEF KernelInv, CallsInv, Restored
<1>4. process_current' = Restored(Top.back) /\ process_current' \in Process \cup {NULL}
  BY <1>1, <1>2 DEF KernelInv, CallsInv, ProcessTypeOK, Restore, Restored
<1>5. CallsInv'
  BY <1>1, <1>3, <1>4 DEF KernelInv, CallsInv, ProcessTypeOK, listVars
<1>6. QueueTypeOK'
  <2>1. CASE process_post(p, "CONTINUE")
    BY <1>1, <2>1, PostAppends DEF KernelInv, Event
  <2>2. CASE UNCHANGED queueVars
    BY <2>2 DEF KernelInv, QueueTypeOK, queueVars
  <2>. QED
    BY <2>1, <2>2 DEF Pause, process_post, queueVars
<1>7. PollTypeOK'
  BY <1>1 DEF KernelInv, PollTypeOK, pollVars
<1>. QED
  BY <1>1, <1>5, <1>6, <1>7 DEF KernelInv

-----------------------------------------------------------------------------
(***************************************************************************)
(* The steps.                                                              *)
(***************************************************************************)

\* Steps of the kernel and of other processes.
LEMMA OthersKeepInv ==
  ASSUME RestInv, KernelInv', ~InThread(etimer_process), UNCHANGED <<etimerVars, restVars>>
  PROVE  RestInv'
<1>1. scan = 0
  BY DEF RestInv, ScanIsOn, Handles
<1>. QED
  BY <1>1 DEF RestInv, ListOK, ScanIsOn, TimesOK, Resources, etimerVars, timerVars, restVars

LEMMA KernelStep ==
  ASSUME RestInv,
         \/ \E p \in Process : Boot(p)
         \/ Booted \/ RestKernel
         \/ \E p \in Apps : AppKernel(p) \/ AppPauses(p)
  PROVE  RestInv'
<1>1. UNCHANGED <<etimerVars, restVars>>
  BY DEF Boot, Booted, RestKernel, AppKernel, AppPauses
<1>2. ASSUME NEW p \in Process, Boot(p)
      PROVE  KernelInv' /\ ~InThread(etimer_process)
  BY <1>2, KernelInvNext DEF RestInv, Boot, Next, MainStarts, InLoop, InThread
<1>3. ASSUME Booted
      PROVE  KernelInv' /\ ~InThread(etimer_process)
  <2>1. Next
    BY <1>3 DEF Booted, Next
  <2>. QED
    BY <1>3, <2>1, KernelInvNext DEF RestInv, Booted, MainLoop, InLoop, InThread
<1>4. ASSUME RestKernel
      PROVE  KernelInv' /\ ~InThread(etimer_process)
  <2>1. KernelInv'
    BY <1>4, KernelInvNext DEF RestInv, RestKernel, Next
  <2>2. ~InThread(etimer_process)
    BY <1>4 DEF RestKernel, Kernel, InformExited, FinishExit, Poll, RunPolls, do_event, Idle,
       Broadcast, Deliver, InLoop, InThread
  <2>. QED
    BY <2>1, <2>2
<1>5. ASSUME NEW p \in Apps, AppKernel(p) \/ AppPauses(p)
      PROVE  KernelInv' /\ ~InThread(etimer_process)
  <2>1. p \in Process /\ p # etimer_process /\ InThread(p)
    BY <1>5 DEF Apps, AppKernel, AppPauses, Thread, Handles
  <2>2. ~InThread(etimer_process)
    BY <2>1 DEF InThread
  <2>3. CASE AppKernel(p)
    BY <2>1, <2>2, <2>3, KernelInvNext DEF RestInv, AppKernel, Next
  <2>4. CASE AppPauses(p)
    <3>1. Post(p, "CONTINUE") /\ KernelInv
      BY <2>4 DEF AppPauses, RestInv
    <3>. QED
      BY <2>1, <2>2, <3>1, PostKeepsKernel DEF Post, Event
  <2>. QED
    BY <1>5, <2>3, <2>4
<1>6. KernelInv' /\ ~InThread(etimer_process)
  BY <1>2, <1>3, <1>4, <1>5
<1>. QED
  BY <1>1, <1>6, OthersKeepInv

LEMMA TickStep ==
  ASSUME RestInv, ClockTicks
  PROVE  RestInv'
<1>1. UNCHANGED <<listVars, state, process_current, queueVars, stack, starts, timerVars, scan,
                  restVars>>
  BY DEF ClockTicks, Tick
<1>2. KernelInv'
  <2>1. PollTypeOK'
    BY DEF RestInv, KernelInv, PollTypeOK, ClockTicks, Tick, pollVars
  <2>. QED
    BY <1>1, <2>1, PollsKeepKernel DEF RestInv
<1>3. clock' \in Clock
  <2>1. clock + 1 \in Nat
    BY EtimerAssumption DEF RestInv, TimesOK, Clock
  <2>2. clock' = (clock + 1) % ClockWrap
    BY DEF ClockTicks, Tick
  <2>. QED
    BY <2>1, <2>2, ClockType
<1>4. ScanIsOn'
  BY <1>1 DEF RestInv, ScanIsOn, Handles, InThread, Top, timerVars
<1>. QED
  BY <1>1, <1>2, <1>3, <1>4 DEF RestInv, ListOK, TimesOK, Resources, timerVars, restVars

\* A process sets, restarts, resets or stops a timer.
LEMMA TimerStep ==
  ASSUME RestInv, NEW p \in Process, p # etimer_process, InThread(p), NEW t \in Timers,
         UNCHANGED <<listVars, state, process_current, queueVars, stack, starts, clock, scan>>,
         \/ \E i \in 1..MaxInterval : etimer_set(t, i)
         \/ etimer_restart(t)
         \/ etimer_reset(t)
         \/ etimer_stop(t)
         \/ UNCHANGED <<timerVars, pollVars>>
  PROVE  KernelInv' /\ ListOK' /\ ScanIsOn' /\ TimesOK'
<1>1. process_current \in Process /\ scan = 0
  <2>1. process_current = p
    BY ThreadCalls DEF RestInv, KernelInv
  <2>2. ~InThread(etimer_process)
    BY DEF InThread
  <2>. QED
    BY <2>1, <2>2 DEF RestInv, ScanIsOn, Handles
<1>2. \/ add_timer(t)
      \/ etimer_stop(t)
      \/ UNCHANGED <<timerVars, pollVars>>
  BY DEF etimer_set, etimer_restart, etimer_reset
<1>3. PollTypeOK'
  BY <1>2, EtimerAssumption DEF RestInv, KernelInv, PollTypeOK, add_timer, etimer_stop, pollVars
<1>4. ListOK'
  <2>1. CASE UNCHANGED <<timerVars, pollVars>>
    BY <2>1 DEF RestInv, ListOK, timerVars
  <2>. QED
    BY <1>1, <1>2, <2>1, AddKeepsList, StopKeepsList DEF RestInv
<1>5. ScanIsOn'
  BY <1>1, <1>4 DEF ListOK, ScanIsOn
<1>6. TimesOK'
  <2>1. ASSUME NEW i \in 1..MaxInterval, etimer_set(t, i)
        PROVE  TimesOK'
    BY <2>1, EtimerAssumption DEF RestInv, TimesOK, etimer_set
  <2>2. CASE etimer_restart(t)
    BY <2>2 DEF RestInv, TimesOK, etimer_restart
  <2>3. CASE etimer_reset(t)
    <3>1. start[t] + interval[t] \in Nat
      BY EtimerAssumption DEF RestInv, TimesOK, Clock
    <3>2. (start[t] + interval[t]) % ClockWrap \in Clock
      BY <3>1, ClockType
    <3>. QED
      BY <2>3, <3>2 DEF RestInv, TimesOK, etimer_reset
  <2>4. CASE etimer_stop(t) \/ UNCHANGED <<timerVars, pollVars>>
    BY <2>4 DEF RestInv, TimesOK, etimer_stop, timerVars
  <2>. QED
    BY <2>1, <2>2, <2>3, <2>4
<1>. QED
  BY <1>3, <1>4, <1>5, <1>6, PollsKeepKernel DEF RestInv

LEMMA AppTimerStep ==
  ASSUME RestInv, NEW p \in Apps, AppTimer(p)
  PROVE  RestInv'
<1>1. /\ p \in Process /\ p # etimer_process /\ InThread(p)
      /\ UNCHANGED <<listVars, state, process_current, queueVars, stack, starts, clock, scan>>
      /\ UNCHANGED restVars
  BY DEF Apps, AppTimer
<1>2. PICK t \in Timers : \/ \E i \in 1..MaxInterval : etimer_set(t, i)
                          \/ etimer_restart(t)
                          \/ etimer_stop(t)
  BY DEF AppTimer
<1>3. KernelInv' /\ ListOK' /\ ScanIsOn' /\ TimesOK'
  BY <1>1, <1>2, TimerStep
<1>. QED
  BY <1>1, <1>3 DEF RestInv, Resources, restVars

LEMMA EtimerStep ==
  ASSUME RestInv, EtimerRuns
  PROVE  RestInv'
<1>1. UNCHANGED restVars /\ etimer_process \in Process
  BY EtimerAssumption DEF EtimerRuns
<1>2. CASE ExpireTimer
  <2>1. ListOK' /\ ScanIsOn'
    BY <1>2, ExpireKeepsTimers DEF RestInv
  <2>2. TimesOK'
    BY <1>2 DEF RestInv, TimesOK, ExpireTimer, timerVars
  <2>3. KernelInv'
    <3> DEFINE t == timerlist[scan + 1]
    <3>1. owner[t] \in Process \cup {NULL}
      BY <1>2 DEF RestInv, ListOK, ScanIsOn, ExpireTimer
    <3>2. UNCHANGED <<listVars, state, process_current, stack, starts>>
      BY <1>2 DEF ExpireTimer
    <3>3. CASE process_post(owner[t], "TIMER") /\ UNCHANGED pollVars
      BY <3>1, <3>2, <3>3, PostKeepsKernel DEF RestInv, Event
    <3>4. CASE UNCHANGED queueVars /\ PollTypeOK'
      BY <3>2, <3>4, PollsKeepKernel DEF RestInv
    <3>5. \/ process_post(owner[t], "TIMER") /\ UNCHANGED pollVars
          \/ UNCHANGED queueVars /\ UNCHANGED pollVars
          \/ /\ UNCHANGED queueVars
             /\ needspoll' = [needspoll EXCEPT ![etimer_process] = TRUE]
             /\ poll_requested' = TRUE
      BY <1>2 DEF ExpireTimer
    <3>. QED
      BY <3>3, <3>4, <3>5 DEF RestInv, KernelInv, PollTypeOK, pollVars
  <2>. QED
    BY <1>1, <2>1, <2>2, <2>3 DEF RestInv, Resources, restVars
<1>3. CASE EtimerStarts \/ DropTimers \/ ScanDone
  <2>1. InThread(etimer_process) /\ Yield(etimer_process)
    BY <1>3 DEF EtimerStarts, DropTimers, ScanDone, Handles
  <2>2. KernelInv'
    BY <1>1, <2>1, YieldKeepsKernel DEF RestInv
  <2>3. scan' = 0
    BY <1>3 DEF RestInv, ScanIsOn, Handles, EtimerStarts, DropTimers, ScanDone
  <2>4. ListOK'
    <3>1. CASE EtimerStarts
      BY <3>1 DEF RestInv, ListOK, Distinct, EtimerStarts
    <3>2. CASE ScanDone
      BY <3>2 DEF RestInv, ListOK, ScanDone, timerVars
    <3>. QED
      BY <1>3, <3>1, <3>2, DropKeepsList DEF RestInv
  <2>5. TimesOK'
    BY <1>3 DEF RestInv, TimesOK, EtimerStarts, DropTimers, ScanDone, timerVars
  <2>6. ScanIsOn'
    BY <2>3, <2>4 DEF ListOK, ScanIsOn
  <2>. QED
    BY <1>1, <2>2, <2>4, <2>5, <2>6 DEF RestInv, Resources, restVars
<1>. QED
  BY <1>2, <1>3 DEF EtimerRuns, EtimerThread

LEMMA RestStep ==
  ASSUME RestInv, RestThread
  PROVE  RestInv'
<1> DEFINE p == rest_manager_process
<1>1. p \in Process /\ p # etimer_process /\ Resources \in Nat
  BY RestManagerAssumption DEF Resources
<1>2. InThread(p)
  BY DEF RestThread, Pause, SetPeriodic, Paused, ServePeriodic, Served, OtherEvent, Handles
<1>3. ~InThread(etimer_process)
  BY <1>1, <1>2 DEF InThread
<1>4. CASE Pause
  <2>1. KernelInv' /\ UNCHANGED <<etimerVars, restVars>>
    BY <1>4, PauseKeepsKernel DEF RestInv, Pause
  <2>. QED
    BY <1>3, <2>1, OthersKeepInv
<1>5. CASE SetPeriodic \/ ServePeriodic
  <2>1. visit < Resources /\ visit' = visit + 1 /\ UNCHANGED pausing
    BY <1>5 DEF SetPeriodic, ServePeriodic
  <2>2. visit + 1 \in 1..Resources
    BY <1>1, <2>1 DEF RestInv
  <2>3. Resource \in Timers /\ Resource \in Periodic
    BY <2>2, RestManagerAssumption DEF Resource, Resources, Periodic
  <2>4. \/ \E i \in 1..MaxInterval : etimer_set(Resource, i)
        \/ etimer_reset(Resource)
        \/ UNCHANGED <<timerVars, pollVars>>
    BY <1>5, <2>3, RestManagerAssumption DEF SetPeriodic, ServePeriodic
  <2>5. UNCHANGED <<listVars, state, process_current, queueVars, stack, starts, clock, scan>>
    BY <1>5 DEF SetPeriodic, ServePeriodic
  <2>6. KernelInv' /\ ListOK' /\ ScanIsOn' /\ TimesOK'
    BY <1>1, <1>2, <2>3, <2>4, <2>5, TimerStep
  <2>. QED
    BY <2>1, <2>2, <2>6 DEF RestInv, Resources
<1>6. CASE Paused \/ Served \/ OtherEvent
  <2>1. /\ Yield(p) /\ UNCHANGED etimerVars
        /\ pausing' \in BOOLEAN /\ visit' \in {0, visit}
    BY <1>6 DEF Paused, Served, OtherEvent, RestInv, restVars
  <2>2. KernelInv'
    BY <1>1, <1>2, <2>1, YieldKeepsKernel DEF RestInv
  <2>3. scan = 0
    BY <1>3 DEF RestInv, ScanIsOn, Handles
  <2>4. visit' \in 0..Resources
    BY <1>1, <2>1 DEF RestInv
  <2>. QED
    BY <2>1, <2>2, <2>3, <2>4
       DEF RestInv, ListOK, ScanIsOn, TimesOK, Resources, etimerVars, timerVars
<1>. QED
  BY <1>4, <1>5, <1>6 DEF RestThread

LEMMA RestInvNext == RestInv /\ [RestNext]_allVars => RestInv'
<1> SUFFICES ASSUME RestInv, [RestNext]_allVars PROVE RestInv'
  OBVIOUS
<1>1. CASE UNCHANGED allVars
  <2>1. KernelInv'
    BY <1>1, KernelInvNext DEF RestInv, allVars
  <2>2. UNCHANGED stack
    BY <1>1 DEF allVars, vars
  <2>3. UNCHANGED <<etimerVars, restVars>>
    BY <1>1 DEF allVars
  <2>4. ScanIsOn'
    BY <2>2, <2>3
       DEF RestInv, ScanIsOn, Handles, InThread, Top, etimerVars, timerVars
  <2>. QED
    BY <2>1, <2>3, <2>4
       DEF RestInv, ListOK, TimesOK, Resources, etimerVars, timerVars, restVars
<1>2. CASE RestNext
  BY <1>2, KernelStep, TickStep, EtimerStep, RestStep, AppTimerStep DEF RestNext
<1>. QED
  BY <1>1, <1>2

LEMMA RestInvHolds == RestSpec => []RestInv
BY RestInvInit, RestInvNext, PTL DEF RestSpec

\* The state of the kernel, the timers and the REST manager stays in its types:
\* in particular, neither the loop of the etimer process nor that of the REST
\* manager runs past the end of its list.
THEOREM RestTypeCorrect == RestSpec => []RestTypeOK
<1>1. RestInv => RestTypeOK
  BY DEF RestInv, KernelInv, CallsInv, ProcessTypeOK, Consistent, PollTypeOK, QueueTypeOK,
     TypeOK, ListOK, ScanIsOn, TimesOK, EtimerTypeOK, RestTypeOK
<1>. QED
  BY <1>1, RestInvHolds, PTL

\* A timer is linked at most once, and one that says it has expired is not linked,
\* whatever processes do to timers and whenever they start and exit.
THEOREM ListedOnceCorrect == RestSpec => []TimersListedOnce
<1>1. RestInv => TimersListedOnce
  BY DEF RestInv, ListOK, Distinct, TimersListedOnce, Armed
<1>. QED
  BY <1>1, RestInvHolds, PTL

-----------------------------------------------------------------------------
(***************************************************************************)
(* The list of processes under these steps.                                *)
(***************************************************************************)

LEMMA PostedNoInit ==
  ASSUME RestInv, NoInit, NEW p \in Process \cup {NULL}, NEW ev \in Event \ {"INIT"},
         process_post(p, ev)
  PROVE  NoInit'
BY DEF RestInv, KernelInv, QueueTypeOK, process_post, NoInit

\* A step that calls nobody and leaves the list alone.
LEMMA QuietStep ==
  ASSUME SoundInv, KernelInv', UNCHANGED <<listVars, state, stack>>, NoInit'
  PROVE  SoundInv'
<1>1. ShapeInv'
  BY Kept DEF SoundInv, ShapeInv
<1>. QED
  BY <1>1 DEF SoundInv

LEMMA PauseKeepsSound ==
  ASSUME RestInv, SoundInv, Pause
  PROVE  SoundInv'
<1> DEFINE p == rest_manager_process
<1>1. /\ p \in Process /\ InThread(p) /\ Top.op = "thread" /\ stack' = Callers
      /\ state' = [state EXCEPT ![p] = "RUNNING"] /\ UNCHANGED listVars
  BY RestManagerAssumption DEF Pause, Handles
<1>2. ShapeInv'
  BY <1>1, YieldedShape DEF SoundInv, KernelInv
<1>3. NoInit'
  <2>1. CASE process_post(p, "CONTINUE")
    BY <1>1, <2>1, PostedNoInit DEF SoundInv, Event
  <2>2. CASE UNCHANGED events
    BY <2>2 DEF SoundInv, NoInit
  <2>. QED
    BY <2>1, <2>2 DEF Pause, process_post
<1>. QED
  BY <1>2, <1>3, PauseKeepsKernel DEF SoundInv

\* A step that calls nobody: it posts an event at most, and may ask for a poll.
Aside ==
  /\ UNCHANGED <<listVars, state, stack>>
  /\ \/ UNCHANGED queueVars
     \/ \E q \in Process \cup {NULL}, ev \in {"TIMER", "CONTINUE"} : process_post(q, ev)
  /\ UNCHANGED pollVars \/ poll_requested' = TRUE

LEMMA StepKinds ==
  ASSUME RestInv, [RestNext]_allVars
  PROVE  [Next]_vars \/ Pause \/ Aside
<1>1. CASE UNCHANGED allVars
  BY <1>1 DEF allVars
<1>2. CASE \/ \E p \in Process : Boot(p)
           \/ Booted \/ RestKernel \/ \E p \in Apps : AppKernel(p)
  BY <1>2 DEF Boot, Booted, RestKernel, AppKernel, Apps, Next
<1>3. ASSUME NEW p \in Process, InThread(p), Yield(p)
      PROVE  Next
  BY <1>3 DEF Next, Thread
<1>4. CASE EtimerStarts \/ DropTimers \/ ScanDone
  <2>1. InThread(etimer_process) /\ Yield(etimer_process) /\ etimer_process \in Process
    BY <1>4, EtimerAssumption DEF EtimerStarts, DropTimers, ScanDone, Handles
  <2>. QED
    BY <1>3, <2>1
<1>5. CASE Paused \/ Served \/ OtherEvent
  <2>1. /\ InThread(rest_manager_process) /\ Yield(rest_manager_process)
        /\ rest_manager_process \in Process
    BY <1>5, RestManagerAssumption DEF Paused, Served, OtherEvent, Handles
  <2>. QED
    BY <1>3, <2>1
<1>6. ASSUME NEW p \in Apps, AppPauses(p)
      PROVE  Aside
  <2>1. process_post(p, "CONTINUE") /\ UNCHANGED <<listVars, state, stack>> /\ UNCHANGED pollVars
    BY <1>6 DEF AppPauses, Post
  <2>2. p \in Process \cup {NULL}
    BY DEF Apps
  <2>. QED
    BY <2>1, <2>2 DEF Aside
<1>7. CASE ClockTicks \/ SetPeriodic \/ ServePeriodic \/ \E p \in Apps : AppTimer(p)
  <2>1. UNCHANGED <<listVars, state, stack>> /\ UNCHANGED queueVars
    BY <1>7 DEF ClockTicks, Tick, SetPeriodic, ServePeriodic, AppTimer
  <2>2. UNCHANGED pollVars \/ poll_requested' = TRUE
    BY <1>7 DEF ClockTicks, Tick, SetPeriodic, ServePeriodic, AppTimer, etimer_set, etimer_reset,
       etimer_restart, etimer_stop, add_timer
  <2>. QED
    BY <2>1, <2>2 DEF Aside
<1>8. CASE ExpireTimer
  <2> DEFINE t == timerlist[scan + 1]
  <2>1. owner[t] \in Process \cup {NULL} /\ UNCHANGED <<listVars, state, stack>>
    BY <1>8 DEF RestInv, ListOK, ScanIsOn, ExpireTimer
  <2>2. /\ process_post(owner[t], "TIMER") \/ UNCHANGED queueVars
        /\ UNCHANGED pollVars \/ poll_requested' = TRUE
    BY <1>8 DEF ExpireTimer
  <2>. HIDE DEF t
  <2>. QED
    BY <2>1, <2>2 DEF Aside
<1>. QED
  BY <1>1, <1>2, <1>4, <1>5, <1>6, <1>7, <1>8 DEF RestNext, EtimerRuns, EtimerThread, RestThread

\* Each step but Pause is one of the kernel's, for it, or calls nobody.
LEMMA StepIsKernels ==
  ASSUME RestInv, NoInit, [RestNext]_allVars, ~Pause
  PROVE  \/ [Next]_vars
         \/ UNCHANGED <<listVars, state, stack>> /\ NoInit'
<1>1. CASE Aside
  <2>1. CASE UNCHANGED queueVars
    BY <1>1, <2>1 DEF Aside, queueVars, NoInit
  <2>2. ASSUME NEW q \in Process \cup {NULL}, NEW ev \in {"TIMER", "CONTINUE"},
               process_post(q, ev)
        PROVE  NoInit'
    BY <2>2, PostedNoInit DEF Event
  <2>. QED
    BY <1>1, <2>1, <2>2 DEF Aside
<1>. QED
  BY <1>1, StepKinds

LEMMA RestSoundNext ==
  ASSUME ~MayExitBusy, "INIT" \notin Posted, RestInv, SoundInv, [RestNext]_allVars
  PROVE  SoundInv'
<1>1. KernelInv'
  BY RestInvNext DEF RestInv
<1>2. CASE Pause
  BY <1>2, PauseKeepsSound
<1>3. CASE ~Pause
  BY <1>1, <1>3, StepIsKernels, SoundInvNext, QuietStep DEF SoundInv
<1>. QED
  BY <1>2, <1>3

\* With timers that post to any process at any time, the list of processes stays
\* sound all the same, no thread is entered while it runs, and the process that a
\* timer takes for its owner is the one whose thread sets it.
THEOREM KernelStaysSound ==
  ASSUME ~MayExitBusy, "INIT" \notin Posted
  PROVE  RestSpec => [](ListIsSound /\ NotReentered /\ CurrentRuns)
<1>1. RestInit => SoundInv
  BY SoundInvInit DEF RestInit
<1>2. RestInv /\ SoundInv /\ [RestNext]_allVars => SoundInv'
  BY RestSoundNext
<1>3. RestInv => CurrentRuns
  BY ThreadCalls DEF RestInv, KernelInv, CurrentRuns
<1>. QED
  BY <1>1, <1>2, <1>3, RestInvHolds, SoundInvList, SoundInvThreads, PTL DEF RestSpec

-----------------------------------------------------------------------------
(***************************************************************************)
(* Timers of processes that exit.                                          *)
(***************************************************************************)

\* The etimer process is told that q has exited, or will be.
Informs(q) ==
  \E f \in Frames(stack) :
    /\ f.op = "exit" /\ f.p = q
    /\ Ahead(f.at, etimer_process) \/ (Handles(etimer_process, "EXITED") /\ Top.data = q)

\* The etimer process has no frame in s.
Calm(s) == \A f \in Frames(s) : f.p # etimer_process

\* It calls nobody and is not exited.
EtimerOnTop ==
  /\ state[etimer_process] = "CALLED" => InThread(etimer_process)
  /\ stack # << >> => /\ Top.p = etimer_process => Top.op = "thread"
                      /\ Calm(Callers)

\* It is the first process to be started.
EtimerServes ==
  /\ state[etimer_process] = "NONE" => ListSet = {}
  /\ EtimerOnTop

Owned == \A t \in Timers : Armed(t) /\ state[owner[t]] = "NONE" => Informs(owner[t])

OwnersInv == EtimerServes /\ Owned

\* The frames of s and one more.
LEMMA CalmPushed ==
  ASSUME NEW s \in Seq(Frame), NEW f \in Frame
  PROVE  LET t == << f >> \o s
         IN  /\ t \in Seq(Frame) /\ t # << >> /\ Head(t) = f /\ Tail(t) = s
             /\ Frames(t) = Frames(s) \cup {f}
BY PushedSeq

\* Nothing is exited, timers belong to processes that run, and the list is the same.
LEMMA QuietOwned ==
  ASSUME ListOK, Owned, UNCHANGED listVars,
         ~Handles(etimer_process, "EXITED") \/ UNCHANGED stack,
         \A f \in Frames(stack) : f.op = "exit" => f \in Frames(stack'),
         \A p \in Process : state'[p] = "NONE" => state[p] = "NONE",
         \A t \in Timers : Armed(t)' => \/ Armed(t) /\ owner'[t] = owner[t]
                                       \/ state'[owner'[t]] # "NONE"
  PROVE  Owned'
<1> SUFFICES ASSUME NEW t \in Timers, Armed(t)', state'[owner'[t]] = "NONE"
             PROVE  Informs(owner[t])'
  BY DEF Owned
<1>1. Armed(t) /\ owner'[t] = owner[t] /\ owner[t] \in Process
  BY DEF ListOK, Armed
<1>2. state[owner[t]] = "NONE"
  BY <1>1
<1>3. PICK f \in Frames(stack) :
        /\ f.op = "exit" /\ f.p = owner[t]
        /\ Ahead(f.at, etimer_process) \/ (Handles(etimer_process, "EXITED") /\ Top.data = owner[t])
  BY <1>1, <1>2 DEF Owned, Informs
<1>4. f \in Frames(stack')
  BY <1>3
<1>5. CASE Ahead(f.at, etimer_process)
  <2>1. Ahead(f.at, etimer_process)'
    BY <1>5, SameAhead
  <2>. QED
    BY <1>1, <1>3, <1>4, <2>1 DEF Informs
<1>6. CASE Handles(etimer_process, "EXITED") /\ Top.data = owner[t]
  <2>1. Handles(etimer_process, "EXITED")' /\ Top' = Top
    BY <1>6 DEF Handles, InThread, Top
  <2>. QED
    BY <1>1, <1>3, <1>4, <1>6, <2>1 DEF Informs
<1>. QED
  BY <1>3, <1>5, <1>6

LEMMA QuietServes ==
  ASSUME ListInv, EtimerServes, UNCHANGED <<listVars, state, stack>>
  PROVE  EtimerServes'
<1>1. ListSet' = ListSet
  BY SameList
<1>2. Top' = Top /\ Callers' = Callers
  BY DEF Top, Callers
<1>. QED
  BY <1>1, <1>2 DEF EtimerServes, EtimerOnTop, InThread, Calm

States == {"NONE", "RUNNING", "CALLED"}

\* What a call does to frames and states.
LEMMA CallEffect ==
  ASSUME NEW st \in [Process -> States], NEW rest \in Seq(Frame), NEW p \in Process,
         NEW ev \in Event \cup {"NONE"}, NEW data \in Process \cup {NULL},
         NEW back \in Process \cup {NULL, "keep"},
         Calm(rest), st[etimer_process] # "CALLED",
         call_process(st, p, ev, data, back, rest)
  PROVE  /\ Frames(rest) \subseteq Frames(stack')
         /\ \A q \in Process : state'[q] = "NONE" <=> st[q] = "NONE"
         /\ EtimerOnTop'
         /\ st[p] = "RUNNING" =>
              InThread(p)' /\ Top'.op = "thread" /\ Top'.ev = ev /\ Top'.data = data
<1>1. CASE st[p] = "RUNNING"
  <2> DEFINE f == ThreadFrame("thread", p, ev, data, back)
  <2>1. f \in Frame /\ f.op = "thread" /\ f.p = p /\ f.ev = ev /\ f.data = data
    BY DEF Frame, ThreadFrame
  <2>2. stack' = << f >> \o rest /\ state' = [st EXCEPT ![p] = "CALLED"]
    BY <1>1 DEF call_process
  <2>. HIDE DEF f
  <2>3. stack' # << >> /\ Top' = f /\ Callers' = rest /\ Frames(rest) \subseteq Frames(stack')
    BY <2>1, <2>2, CalmPushed DEF Top, Callers
  <2>4. Calm(Callers)'
    BY <2>3 DEF Calm
  <2>5. InThread(p)'
    BY <2>1, <2>3 DEF InThread
  <2>6. state'[etimer_process] = "CALLED" => p = etimer_process
    BY <2>2, EtimerAssumption
  <2>. QED
    BY <1>1, <2>1, <2>2, <2>3, <2>4, <2>5, <2>6 DEF EtimerOnTop
<1>2. CASE st[p] # "RUNNING"
  <2>1. stack' = rest /\ state' = st
    BY <1>2 DEF call_process
  <2>2. rest # << >> => Top' \in Frames(rest) /\ Frames(Callers') \subseteq Frames(rest)
    BY <2>1, PoppedSeq DEF Top, Callers
  <2>. QED
    BY <1>2, <2>1, <2>2 DEF Calm, EtimerOnTop
<1>. QED
  BY <1>1, <1>2

\* What a step may do to the etimer process.
Serves ==
  /\ \A q \in Process : state'[q] = "NONE" => state[q] = "NONE"
  /\ EtimerOnTop'

LEMMA CalmServes ==
  ASSUME state[etimer_process] # "CALLED", UNCHANGED state,
         stack' \in Seq(Frame), Calm(stack')
  PROVE  Serves
<1>1. stack' # << >> => Top' \in Frames(stack') /\ Frames(Callers') \subseteq Frames(stack')
  BY PoppedSeq DEF Top, Callers
<1>. QED
  BY <1>1 DEF Serves, Calm, EtimerOnTop

\* Loops go on while no thread is under way.
LEMMA LoopServes ==
  ASSUME KernelInv, ShapeInv, EtimerServes,
         \/ Poll \/ RunPolls \/ do_event \/ Idle \/ Broadcast \/ Deliver \/ MainLoop
  PROVE  /\ Serves
         /\ \A f \in Frames(stack) : f.op # "exit"
         /\ ~InThread(etimer_process)
<1>1. stack # << >> => Top.op \in Loops
  BY DEF Poll, RunPolls, do_event, Idle, Broadcast, Deliver, MainLoop, InLoop, Loops
<1>2. ~InThread(etimer_process)
  BY <1>1 DEF InThread, Loops
<1>3. /\ state[etimer_process] # "CALLED" /\ state \in [Process -> States]
      /\ etimer_process \in Process /\ etimer_process # NULL
  BY <1>2, EtimerAssumption, ContikiProcessAssumption
     DEF EtimerServes, EtimerOnTop, KernelInv, CallsInv, ProcessTypeOK, States
<1>4. \A f \in Frames(stack) : f.op \in Loops /\ f.p = NULL
  <2>1. \A f \in Frames(stack) : f.op \in Loops
    BY <1>1, ShapeTop DEF ShapeInv, Top, Frames
  <2>. QED
    BY <2>1 DEF ShapeInv, Shape, Nested, Frames
<1>. SUFFICES Serves
  BY <1>2, <1>4 DEF Loops
<1>5. stack # << >> => /\ Callers \in Seq(Frame) /\ Calm(Callers) /\ Top.p = NULL
                       /\ Top \in Frame /\ CallsInv /\ Top.ev \in Event \cup {"NONE"}
                       /\ After(Top.at) \in Process \cup {NULL} /\ FrameOK(Top)
  <2> SUFFICES ASSUME stack # << >>
               PROVE  /\ Callers \in Seq(Frame) /\ Calm(Callers) /\ Top.p = NULL
                      /\ Top \in Frame /\ CallsInv /\ Top.ev \in Event \cup {"NONE"}
                      /\ After(Top.at) \in Process \cup {NULL} /\ FrameOK(Top)
    OBVIOUS
  <2>1. CallsInv
    BY DEF KernelInv
  <2>2. Frames(stack) = Frames(Callers) \cup {Top}
    BY ShapeTop DEF ShapeInv, Top, Callers
  <2>3. Calm(Callers) /\ Top.p = NULL
    BY <1>3, <1>4, <2>2 DEF Calm
  <2>. QED
    BY <2>1, <2>3, TopShape
<1>6. << >> \in Seq(Frame) /\ Calm(<< >>)
  BY DEF Calm, Frames
<1>7. ASSUME NEW f \in Frame, f.p = NULL, NEW s \in Seq(Frame), Calm(s)
      PROVE  << f >> \o s \in Seq(Frame) /\ Calm(<< f >> \o s)
  BY <1>3, <1>7, CalmPushed DEF Calm
<1>8. ASSUME NEW f \in Frame, f.p = NULL
      PROVE  << f >> \in Seq(Frame) /\ Calm(<< f >>) /\ << f >> \o << >> = << f >>
  <2>1. << f >> \o << >> = << f >>
    BY OneFrame
  <2>. QED
    BY <1>6, <1>7, <1>8, <2>1
<1>9. ASSUME NEW st, NEW rest \in Seq(Frame), NEW p \in Process,
             NEW ev \in Event \cup {"NONE"}, Calm(rest),
             st \in [Process -> States], st[etimer_process] # "CALLED",
             \A q \in Process : st[q] = "NONE" => state[q] = "NONE",
             call_process(st, p, ev, NULL, "keep", rest)
      PROVE  Serves
  <2>1. /\ \A q \in Process : state'[q] = "NONE" <=> st[q] = "NONE"
        /\ EtimerOnTop'
    BY <1>9, CallEffect
  <2>. QED
    BY <1>9, <2>1 DEF Serves
<1>10. ASSUME NEW op, NEW ev \in Event \cup {"NONE"}, op \in Loops
       PROVE  LoopFrame(op, ev) \in Frame /\ LoopFrame(op, ev).p = NULL
  BY <1>10 DEF LoopFrame, Frame, Loops
<1>11. CASE Poll
  <2> DEFINE at == After(Top.at)
             f == [Top EXCEPT !.at = at]
             st == [state EXCEPT ![at] = "RUNNING"]
  <2>1. stack # << >>
    BY <1>11 DEF Poll, InLoop
  <2>2. f \in Frame /\ f.p = NULL /\ at \in Process \cup {NULL}
    BY <1>5, <2>1 DEF Frame
  <2>3. \/ stack' = Callers /\ state' = state
        \/ stack' = << f >> \o Callers /\ state' = state
        \/ at # NULL /\ call_process(st, at, "POLL", NULL, "keep", << f >> \o Callers)
    BY <1>11 DEF Poll
  <2>4. /\ st \in [Process -> States]
        /\ \A q \in Process : st[q] = "NONE" => state[q] = "NONE"
        /\ st[etimer_process] # "CALLED"
    BY <1>3 DEF States
  <2>. HIDE DEF f, at, st
  <2>5. << f >> \o Callers \in Seq(Frame) /\ Calm(<< f >> \o Callers)
    BY <1>5, <1>7, <2>1, <2>2
  <2>6. CASE state' = state /\ (stack' = Callers \/ stack' = << f >> \o Callers)
    BY <1>3, <1>5, <2>1, <2>5, <2>6, CalmServes
  <2>7. CASE at # NULL /\ call_process(st, at, "POLL", NULL, "keep", << f >> \o Callers)
    <3>1. at \in Process /\ "POLL" \in Event \cup {"NONE"}
      BY <2>2, <2>7 DEF Event
    <3>. QED
      BY <1>9, <2>4, <2>5, <2>7, <3>1
  <2>. QED
    BY <2>3, <2>6, <2>7
<1>12. CASE RunPolls
  <2> DEFINE e == LoopFrame("event", "NONE")
             f == LoopFrame("poll", "NONE")
  <2>1. e \in Frame /\ e.p = NULL /\ f \in Frame /\ f.p = NULL
    BY <1>10 DEF Loops
  <2>2. stack' = << f, e >> /\ UNCHANGED state
    BY <1>12 DEF RunPolls
  <2>. HIDE DEF e, f
  <2>3. << f, e >> = << f >> \o << e >>
    BY <1>6, <1>8, <2>1, JoinSeq
  <2>4. << e >> \in Seq(Frame) /\ Calm(<< e >>)
    BY <1>8, <2>1
  <2>. QED
    BY <1>3, <1>7, <2>1, <2>2, <2>3, <2>4, CalmServes
<1>13. CASE do_event
  <2> DEFINE e == events[fevent]
  <2>1. e.p \in Process \cup {NULL} /\ e.ev \in Event \cup {"NONE"}
    BY <1>13, ContikiProcessAssumption DEF KernelInv, QueueTypeOK, do_event, Slot, PROCESS_BROADCAST
  <2> DEFINE st == IF e.ev = "INIT" THEN [state EXCEPT ![e.p] = "RUNNING"] ELSE state
  <2>2. \/ e.p = NULL /\ stack' = << LoopFrame("broadcast", e.ev) >> /\ UNCHANGED state
        \/ e.p # NULL /\ call_process(st, e.p, e.ev, NULL, "keep", << >>)
    BY <1>13 DEF do_event, PROCESS_BROADCAST
  <2>3. /\ st \in [Process -> States]
        /\ \A q \in Process : st[q] = "NONE" => state[q] = "NONE"
        /\ st[etimer_process] # "CALLED"
    BY <1>3 DEF States
  <2>. HIDE DEF e, st
  <2>4. CASE e.p = NULL /\ stack' = << LoopFrame("broadcast", e.ev) >> /\ UNCHANGED state
    BY <1>3, <1>8, <1>10, <2>1, <2>4, CalmServes DEF Loops
  <2>. QED
    BY <1>6, <1>9, <2>1, <2>2, <2>3, <2>4
<1>14. CASE Idle \/ MainLoop
  BY <1>3, <1>6, <1>14, CalmServes DEF Idle, MainLoop
<1>15. CASE Broadcast
  <2> DEFINE at == After(Top.at)
             f(op) == [Top EXCEPT !.at = at, !.op = op]
             e == LoopFrame("poll", "NONE")
  <2>1. stack # << >>
    BY <1>15 DEF Broadcast, InLoop
  <2>2. at \in Process \cup {NULL} /\ Top.ev \in Event \cup {"NONE"}
    BY <1>5, <2>1
  <2>3. \A op \in {"broadcast", "deliver"} : f(op) \in Frame /\ f(op).p = NULL
    BY <1>5, <2>1, <2>2 DEF Frame
  <2>4. e \in Frame /\ e.p = NULL
    BY <1>10 DEF Loops
  <2>5. \/ stack' = << >> /\ state' = state
        \/ stack' = << e >> \o << f("deliver") >> /\ state' = state
        \/ at # NULL /\ call_process(state, at, Top.ev, NULL, "keep", << f("broadcast") >>)
    BY <1>15 DEF Broadcast
  <2>. HIDE DEF at, f, e
  <2>6. \A op \in {"broadcast", "deliver"} : << f(op) >> \in Seq(Frame) /\ Calm(<< f(op) >>)
    BY <1>8, <2>3
  <2>7. << e >> \o << f("deliver") >> \in Seq(Frame) /\ Calm(<< e >> \o << f("deliver") >>)
    BY <1>7, <2>4, <2>6
  <2>8. CASE state' = state /\ (stack' = << >> \/ stack' = << e >> \o << f("deliver") >>)
    BY <1>3, <1>6, <2>7, <2>8, CalmServes
  <2>. QED
    BY <1>3, <1>9, <2>2, <2>5, <2>6, <2>8
<1>16. CASE Deliver
  <2> DEFINE f == [Top EXCEPT !.op = "broadcast"]
  <2>1. stack # << >> /\ Top.op = "deliver"
    BY <1>16 DEF Deliver, InLoop
  <2>2. f \in Frame /\ f.p = NULL /\ Top.at \in Process /\ Top.ev \in Event \cup {"NONE"}
    BY <1>5, <2>1 DEF Frame, FrameOK
  <2>3. call_process(state, Top.at, Top.ev, NULL, "keep", << f >>)
    BY <1>16 DEF Deliver
  <2>. HIDE DEF f
  <2>. QED
    BY <1>3, <1>8, <1>9, <2>2, <2>3
<1>. QED
  BY <1>11, <1>12, <1>13, <1>14, <1>15, <1>16

\* Steps that exit nobody and leave the list alone.
LEMMA ServingOwners ==
  ASSUME ListInv, ListOK, OwnersInv, Serves, UNCHANGED listVars,
         ~InThread(etimer_process),
         \A f \in Frames(stack) : f.op = "exit" => f \in Frames(stack'),
         \A t \in Timers : Armed(t)' => \/ Armed(t) /\ owner'[t] = owner[t]
                                       \/ state'[owner'[t]] # "NONE"
  PROVE  OwnersInv'
<1>1. Owned'
  BY QuietOwned DEF OwnersInv, Serves, Handles
<1>2. ListSet' = ListSet
  BY SameList
<1>3. EtimerServes'
  BY <1>2, EtimerAssumption DEF OwnersInv, EtimerServes, Serves
<1>. QED
  BY <1>1, <1>3 DEF OwnersInv

\* exit_process() informs the next one, the etimer process if its turn has come.
LEMMA InformExitedOwners ==
  ASSUME KernelInv, ShapeInv, ListOK, OwnersInv, InformExited, UNCHANGED timerVars
  PROVE  OwnersInv'
<1>1. stack # << >> /\ Top.op = "exit" /\ After(Top.at) # NULL /\ UNCHANGED listVars
  BY DEF InformExited, InLoop
<1>2. ~InThread(etimer_process) /\ ~Handles(etimer_process, "EXITED")
  BY <1>1 DEF InThread, Handles
<1>3. /\ CallsInv /\ Top \in Frame /\ Callers \in Seq(Frame) /\ After(Top.at) \in Process
      /\ Top.p \in Process /\ Top = stack[1] /\ Top \in Frames(stack)
      /\ Frames(stack) = Frames(Callers) \cup {Top}
  <2>1. CallsInv
    BY DEF KernelInv
  <2>2. Frames(stack) = Frames(Callers) \cup {Top}
    BY <1>1, ShapeTop DEF ShapeInv, Top, Callers
  <2>. QED
    BY <1>1, <2>1, <2>2, TopShape DEF FrameOK
<1>4. PICK at \in Process : at = After(Top.at)
  BY <1>3
<1>5. PICK f \in Frame : /\ f = [Top EXCEPT !.at = at]
                        /\ f.op = "exit" /\ f.p = Top.p /\ f.at = at
  <2>1. [Top EXCEPT !.at = at] \in Frame
    BY <1>3 DEF Frame
  <2>. QED
    BY <1>1, <1>3, <2>1 DEF Frame
<1> DEFINE here == << f >> \o Callers
<1>6. Top.p # etimer_process /\ Calm(Callers) /\ state[etimer_process] # "CALLED"
  BY <1>1, <1>2 DEF OwnersInv, EtimerServes, EtimerOnTop
<1>7. state \in [Process -> States]
  BY <1>3 DEF CallsInv, ProcessTypeOK, States
<1>8. IF at = Top.p THEN stack' = here /\ state' = state
                     ELSE call_process(state, at, "EXITED", Top.p, "keep", here)
  BY <1>4, <1>5 DEF InformExited
<1>9. here \in Seq(Frame) /\ Frames(here) = Frames(Callers) \cup {f} /\ Calm(here)
  <2>1. here \in Seq(Frame) /\ Frames(here) = Frames(Callers) \cup {f}
    BY <1>3, <1>5, CalmPushed
  <2>. QED
    BY <1>5, <1>6, <2>1 DEF Calm
<1>. HIDE DEF here
<1>10. Serves /\ Frames(here) \subseteq Frames(stack')
  <2>1. CASE stack' = here /\ state' = state
    BY <1>6, <1>9, <2>1, CalmServes
  <2>2. CASE call_process(state, at, "EXITED", Top.p, "keep", here)
    <3>1. "EXITED" \in Event \cup {"NONE"} /\ "keep" \in Process \cup {NULL, "keep"}
      BY DEF Event
    <3>2. /\ Frames(here) \subseteq Frames(stack')
          /\ \A q \in Process : state'[q] = "NONE" <=> state[q] = "NONE"
          /\ EtimerOnTop'
      BY <1>3, <1>6, <1>7, <1>9, <2>2, <3>1, CallEffect
    <3>. QED
      BY <3>2 DEF Serves
  <2>. QED
    BY <1>8, <2>1, <2>2
<1>11. EtimerServes'
  <2>1. ListSet' = ListSet
    BY <1>1, SameList DEF ShapeInv
  <2>. QED
    BY <1>10, <2>1, EtimerAssumption DEF OwnersInv, EtimerServes, Serves
<1>12. ASSUME at = etimer_process
       PROVE  Handles(etimer_process, "EXITED")' /\ Top'.data = Top.p
  <2>1. state[etimer_process] # "NONE"
    <3>1. Top.p \in ListSet
      BY <1>3, Absent DEF ShapeInv
    <3>. QED
      BY <3>1 DEF OwnersInv, EtimerServes
  <2>2. state[at] = "RUNNING"
    BY <1>3, <1>6, <1>7, <1>12, <2>1 DEF States
  <2>3. call_process(state, at, "EXITED", Top.p, "keep", here)
    BY <1>6, <1>8, <1>12
  <2>4. "EXITED" \in Event \cup {"NONE"} /\ "keep" \in Process \cup {NULL, "keep"}
    BY DEF Event
  <2>5. InThread(at)' /\ Top'.op = "thread" /\ Top'.ev = "EXITED" /\ Top'.data = Top.p
    BY <1>3, <1>6, <1>7, <1>9, <2>2, <2>3, <2>4, CallEffect
  <2>. QED
    BY <1>12, <2>5 DEF Handles
<1>13. Owned'
  <2> SUFFICES ASSUME NEW t \in Timers, Armed(t)', state'[owner'[t]] = "NONE"
               PROVE  Informs(owner[t])'
    BY DEF Owned
  <2>1. Armed(t) /\ owner'[t] = owner[t] /\ owner[t] \in Process
    BY DEF timerVars, Armed, ListOK
  <2>2. state[owner[t]] = "NONE"
    BY <1>10, <2>1 DEF Serves
  <2>3. PICK g \in Frames(stack) : g.op = "exit" /\ g.p = owner[t] /\ Ahead(g.at, etimer_process)
    BY <1>2, <2>1, <2>2 DEF OwnersInv, Owned, Informs
  <2>4. CASE g \in Frames(Callers)
    <3>1. g \in Frames(stack') /\ Ahead(g.at, etimer_process)'
      BY <1>1, <1>9, <1>10, <2>3, <2>4, SameAhead
    <3>. QED
      BY <2>1, <2>3, <3>1 DEF Informs
  <2>5. CASE g = Top
    <3>1. f \in Frames(stack') /\ f.op = "exit" /\ f.p = owner[t] /\ f.at = at
      BY <1>5, <1>9, <1>10, <2>3, <2>5
    <3>2. CASE at = etimer_process
      BY <1>12, <2>1, <2>3, <2>5, <3>1, <3>2 DEF Informs
    <3>3. CASE at # etimer_process
      <4>1. Ahead(at, etimer_process)
        BY <1>3, <2>3, <2>5, <3>3, <1>4, AheadMoves
      <4>2. Ahead(f.at, etimer_process)'
        BY <1>1, <3>1, <4>1, SameAhead
      <4>. QED
        BY <2>1, <3>1, <4>2 DEF Informs
    <3>. QED
      BY <3>2, <3>3
  <2>. QED
    BY <1>3, <2>4, <2>5
<1>. QED
  BY <1>11, <1>13 DEF OwnersInv

\* All that is left of the stack belongs to others than the etimer process.
LEMMA CalmOnTop ==
  ASSUME state'[etimer_process] # "CALLED", stack' \in Seq(Frame), Calm(stack')
  PROVE  EtimerOnTop'
<1>1. stack' # << >> => Top' \in Frames(stack') /\ Frames(Callers') \subseteq Frames(stack')
  BY PoppedSeq DEF Top, Callers
<1>. QED
  BY <1>1 DEF Calm, EtimerOnTop

\* The frames below the one that runs.
LEMMA Below ==
  ASSUME KernelInv, ShapeInv, EtimerServes, stack # << >>
  PROVE  /\ CallsInv /\ ProcessTypeOK /\ Top \in Frame /\ Top = stack[1] /\ Top \in Frames(stack)
         /\ Callers \in Seq(Frame) /\ Frames(stack) = Frames(Callers) \cup {Top}
         /\ stack \in Seq(Frame) /\ Calm(Callers)
         /\ Top.p # etimer_process => Calm(stack)
<1>1. CallsInv /\ ProcessTypeOK /\ stack \in Seq(Frame)
  BY DEF KernelInv, CallsInv, Consistent
<1>2. Frames(stack) = Frames(Callers) \cup {Top} /\ Top \in Frames(stack)
  BY ShapeTop DEF ShapeInv, Top, Callers
<1>3. Calm(Callers)
  BY DEF EtimerServes, EtimerOnTop
<1>. QED
  BY <1>1, <1>2, <1>3, TopShape DEF Calm

\* A process that somebody calls from a loop of exit_process() is on the list.
LEMMA ExitAtListed ==
  ASSUME ShapeInv, stack # << >>, stack[1].op # "exit"
  PROVE  \A f \in Frames(stack) : f.op = "exit" => f.at \in ListSet
<1> SUFFICES ASSUME NEW i \in 1..Len(stack), stack[i].op = "exit"
             PROVE  stack[i].at \in ListSet
  BY DEF Frames
<1>1. Nested(stack) /\ stack \in Seq(Frame) /\ Len(stack) \in Nat
  BY DEF ShapeInv, Shape
<1>2. i # 1 /\ i - 1 \in 1..Len(stack) /\ i - 1 < i
  BY <1>1
<1>3. stack[i - 1].p = stack[i].at
  BY <1>1, <1>2, Zenon DEF Nested, Walking
<1>4. stack[i - 1].op \notin Loops
  BY <1>1, <1>2 DEF Nested, Loops
<1>5. stack[i - 1].p # NULL /\ stack[i - 1] \in Frame /\ stack[i - 1] \in Frames(stack)
  BY <1>1, <1>2, <1>4, ElementOfSeq DEF Nested, Frames
<1>6. stack[i - 1].p \in Process
  BY <1>5 DEF Frame
<1>. QED
  BY <1>3, <1>5, <1>6, Absent DEF ShapeInv

\* exit_process() comes to its end: if it was to inform the etimer process, it has.
LEMMA FinishExitOwners ==
  ASSUME KernelInv, ShapeInv, ListOK, OwnersInv, FinishExit, UNCHANGED timerVars
  PROVE  OwnersInv'
<1>1. stack # << >> /\ Top.op \in {"exit", "unlink"} /\ UNCHANGED state
  BY DEF FinishExit, InLoop
<1>2. ~InThread(etimer_process) /\ ~Handles(etimer_process, "EXITED")
  BY <1>1 DEF InThread, Handles
<1>3. Top.p # etimer_process /\ state[etimer_process] # "CALLED"
  BY <1>1, <1>2 DEF OwnersInv, EtimerServes, EtimerOnTop
<1>4. /\ CallsInv /\ ProcessTypeOK /\ Top \in Frame /\ Callers \in Seq(Frame) /\ Calm(Callers)
      /\ Frames(stack) = Frames(Callers) \cup {Top}
  BY <1>1, Below DEF OwnersInv
<1>5. Top.p \in Process
  BY <1>1, <1>4, TopShape DEF FrameOK
<1>6. Top.op = "exit" => ~Ahead(Top.at, etimer_process)
  BY <1>1, AheadAtLast, EtimerAssumption DEF FinishExit, InLoop
<1>7. /\ stack' \in Seq(Frame) /\ Calm(stack') /\ Frames(Callers) \subseteq Frames(stack')
      /\ ListSet' \subseteq ListSet
      /\ \A at \in Process \cup {NULL} : Ahead(at, etimer_process) => Ahead(at, etimer_process)'
  <2>1. CASE /\ UNCHANGED listVars
             /\ stack' = << ThreadFrame("told", Top.p, "EXIT", NULL, "keep"),
                            [Top EXCEPT !.op = "unlink"] >> \o Callers
    <3> DEFINE f == [Top EXCEPT !.op = "unlink"]
               g == ThreadFrame("told", Top.p, "EXIT", NULL, "keep")
               rest == << f >> \o Callers
    <3>1. f \in Frame /\ f.p = Top.p /\ g \in Frame /\ g.p = Top.p
      BY <1>4, <1>5 DEF Frame, ThreadFrame, Event
    <3>2. stack' = << g, f >> \o Callers
      BY <2>1
    <3>. HIDE DEF f, g
    <3>3. stack' = << g >> \o rest
      BY <1>4, <3>1, <3>2, JoinSeq
    <3>4. rest \in Seq(Frame) /\ Frames(rest) = Frames(Callers) \cup {f}
      BY <1>4, <3>1, CalmPushed
    <3>. HIDE DEF rest
    <3>5. stack' \in Seq(Frame) /\ Frames(stack') = Frames(rest) \cup {g}
      BY <3>1, <3>3, <3>4, CalmPushed
    <3>6. Calm(stack')
      BY <1>3, <1>4, <3>1, <3>4, <3>5 DEF Calm
    <3>7. ListSet' = ListSet
      BY <2>1, SameList DEF ShapeInv
    <3>. QED
      BY <2>1, <3>4, <3>5, <3>6, <3>7, SameAhead
  <2>2. CASE Unlink(Top.p) /\ stack' = Callers
    <3>1. Top.p \in ListSet
      BY <1>1, <1>4, <1>5, Absent, Below DEF ShapeInv, OwnersInv
    <3>2. ListSet' = ListSet \ {Top.p}
      BY <1>4, <1>5, <2>2, <3>1, UnlinkedList DEF ShapeInv
    <3>3. \A at \in Process \cup {NULL} : Ahead(at, etimer_process) => Ahead(at, etimer_process)'
      BY <1>3, <1>4, <1>5, <2>2, AheadUnlink
    <3>. QED
      BY <1>4, <2>2, <3>2, <3>3
  <2>. QED
    BY <2>1, <2>2 DEF FinishExit
<1>8. EtimerServes'
  <2>1. EtimerOnTop'
    BY <1>1, <1>3, <1>7, CalmOnTop
  <2>2. ListSet = {} => ListSet' = {}
    BY <1>7
  <2>. QED
    BY <1>1, <2>1, <2>2 DEF OwnersInv, EtimerServes
<1>9. Owned'
  <2> SUFFICES ASSUME NEW t \in Timers, Armed(t)', state'[owner'[t]] = "NONE"
               PROVE  Informs(owner[t])'
    BY DEF Owned
  <2>1. Armed(t) /\ owner'[t] = owner[t] /\ state[owner[t]] = "NONE"
    BY <1>1 DEF timerVars, Armed
  <2>2. PICK h \in Frames(stack) : h.op = "exit" /\ h.p = owner[t] /\ Ahead(h.at, etimer_process)
    BY <1>2, <2>1 DEF OwnersInv, Owned, Informs
  <2>3. h \in Frames(Callers) /\ h \in Frame
    <3>1. h # Top
      BY <1>6, <2>2
    <3>2. h \in Frames(Callers)
      BY <1>4, <2>2, <3>1
    <3>. QED
      BY <1>4, <3>2, ElementOfSeq DEF Frames
  <2>4. h \in Frames(stack') /\ Ahead(h.at, etimer_process)'
    <3>1. h.at \in Process \cup {NULL}
      BY <2>3 DEF Frame
    <3>. QED
      BY <1>7, <2>2, <2>3, <3>1
  <2>. QED
    BY <2>1, <2>2, <2>4 DEF Informs
<1>. QED
  BY <1>8, <1>9 DEF OwnersInv

\* process_start() of the etimer process, or when it runs.
LEMMA StartOwners ==
  ASSUME KernelInv, ShapeInv, ListOK, OwnersInv, UNCHANGED timerVars,
         NEW p \in Process, process_start(p),
         stack # << >>, Top.op \in {"main", "thread", "told"}, ~InThread(etimer_process),
         p = etimer_process \/ state[etimer_process] # "NONE"
  PROVE  OwnersInv'
<1>1. Top.p # etimer_process /\ state[etimer_process] # "CALLED"
  <2>1. Top.op = "main" => Top.p = NULL
    BY TopShape DEF KernelInv, Loops
  <2>. QED
    BY <2>1, EtimerAssumption, ContikiProcessAssumption
       DEF OwnersInv, EtimerServes, EtimerOnTop, InThread
<1>2. /\ CallsInv /\ ProcessTypeOK /\ stack \in Seq(Frame) /\ Calm(stack) /\ Top = stack[1]
      /\ etimer_process \in Process
  BY <1>1, Below, EtimerAssumption DEF OwnersInv
<1> DEFINE st == [state EXCEPT ![p] = "RUNNING"]
<1>3. /\ st \in [Process -> States] /\ st[p] = "RUNNING" /\ st[etimer_process] # "NONE"
      /\ st[etimer_process] # "CALLED" /\ \A q \in Process : st[q] = "NONE" => state[q] = "NONE"
  BY <1>1, <1>2 DEF ProcessTypeOK, States
<1>4. /\ call_process(st, p, "INIT", NULL, process_current, stack)
      /\ "INIT" \in Event \cup {"NONE"} /\ process_current \in Process \cup {NULL, "keep"}
  BY <1>2 DEF process_start, Event, ProcessTypeOK
<1>5. p \notin ListSet /\ next' = [next EXCEPT ![p] = process_list] /\ process_list' = p
  BY DEF process_start, ListSet
<1>. HIDE DEF st
<1>6. /\ Frames(stack) \subseteq Frames(stack')
      /\ \A q \in Process : state'[q] = "NONE" <=> st[q] = "NONE"
      /\ EtimerOnTop'
  BY <1>2, <1>3, <1>4, CallEffect
<1>7. EtimerServes'
  BY <1>2, <1>3, <1>6 DEF EtimerServes
<1>8. Owned'
  <2> SUFFICES ASSUME NEW t \in Timers, Armed(t)', state'[owner'[t]] = "NONE"
               PROVE  Informs(owner[t])'
    BY DEF Owned
  <2>1. Armed(t) /\ owner'[t] = owner[t] /\ owner[t] \in Process
    BY DEF timerVars, Armed, ListOK
  <2>2. state[owner[t]] = "NONE"
    BY <1>3, <1>6, <2>1
  <2>3. PICK h \in Frames(stack) : h.op = "exit" /\ h.p = owner[t] /\ Ahead(h.at, etimer_process)
    BY <2>1, <2>2 DEF OwnersInv, Owned, Informs, Handles
  <2>4. h.at \in ListSet
    <3>1. stack[1].op # "exit"
      BY <1>2
    <3>. QED
      BY <2>3, <3>1, ExitAtListed
  <2>5. Ahead(h.at, etimer_process)'
    <3>1. etimer_process \in ListSet
      BY <1>2, <2>4 DEF OwnersInv, EtimerServes, ShapeInv, Shape, Fits
    <3>. QED
      BY <1>2, <1>5, <2>3, <2>4, <3>1, AheadStart DEF ShapeInv
  <2>. QED
    BY <1>6, <2>1, <2>3, <2>5 DEF Informs
<1>. QED
  BY <1>7, <1>8 DEF OwnersInv

\* exit_process() of another process than the etimer process.
LEMMA ExitOwners ==
  ASSUME KernelInv, ShapeInv, ListOK, OwnersInv, UNCHANGED timerVars,
         NEW p \in Process, p # etimer_process,
         NEW ev \in Event \cup {"NONE"}, NEW back \in Process \cup {NULL, "keep"},
         NEW rest \in Seq(Frame), Calm(rest), exit_process(p, ev, back, rest),
         ~InThread(etimer_process), state[etimer_process] # "NONE",
         \A f \in Frames(stack) : f.op = "exit" => f \in Frames(rest),
         \A f \in Frames(stack) : f.op \in {"exit", "unlink"} => f.p # p
  PROVE  OwnersInv'
<1>1. /\ state[etimer_process] # "CALLED" /\ ~Handles(etimer_process, "EXITED")
      /\ etimer_process \in Process
  BY EtimerAssumption DEF OwnersInv, EtimerServes, EtimerOnTop, Handles
<1>2. CASE ~OnList(p) /\ stack' = rest /\ UNCHANGED <<listVars, state>>
  <2>1. Serves
    BY <1>1, <1>2, CalmServes
  <2>. QED
    BY <1>2, <2>1, ServingOwners DEF timerVars, Armed, ShapeInv
<1> DEFINE c == IF back = "keep" THEN process_current ELSE back
           f == ExitFrame(p, ev, c)
<1>3. CASE /\ state' = [state EXCEPT ![p] = "NONE"]
           /\ stack' = << f >> \o rest
           /\ UNCHANGED listVars
  <2>1. /\ f \in Frame /\ f.op = "exit" /\ f.p = p /\ f.at = NULL
        /\ state \in [Process -> States]
    BY DEF Frame, ExitFrame, KernelInv, CallsInv, ProcessTypeOK, States
  <2>2. stack' = << f >> \o rest
    BY <1>3
  <2>. HIDE DEF f
  <2>3. stack' \in Seq(Frame) /\ Frames(stack') = Frames(rest) \cup {f}
    BY <2>1, <2>2, CalmPushed
  <2>4. Calm(stack')
    BY <2>1, <2>3 DEF Calm
  <2>5. state'[etimer_process] = state[etimer_process]
    BY <1>1, <1>3, <2>1
  <2>6. EtimerServes'
    BY <1>1, <2>3, <2>4, <2>5, CalmOnTop DEF EtimerServes
  <2>7. Ahead(NULL, etimer_process)'
    <3>1. etimer_process \in ListSet
      BY <1>1 DEF ShapeInv, Shape, Fits
    <3>2. Ahead(NULL, etimer_process)
      BY <3>1, AheadAtFirst DEF ShapeInv
    <3>. QED
      BY <1>3, <3>2, SameAhead
  <2>8. Owned'
    <3> SUFFICES ASSUME NEW t \in Timers, Armed(t)', state'[owner'[t]] = "NONE"
                 PROVE  Informs(owner[t])'
      BY DEF Owned
    <3>1. Armed(t) /\ owner'[t] = owner[t] /\ owner[t] \in Process
      BY DEF timerVars, Armed, ListOK
    <3>2. CASE owner[t] = p
      BY <2>1, <2>3, <2>7, <3>1, <3>2 DEF Informs
    <3>3. CASE owner[t] # p
      <4>1. state[owner[t]] = "NONE"
        BY <1>3, <2>1, <3>1, <3>3
      <4>2. PICK h \in Frames(stack) : h.op = "exit" /\ h.p = owner[t] /\ Ahead(h.at, etimer_process)
        BY <1>1, <3>1, <4>1 DEF OwnersInv, Owned, Informs
      <4>3. h \in Frames(stack') /\ Ahead(h.at, etimer_process)'
        BY <1>3, <2>3, <4>2, SameAhead
      <4>. QED
        BY <3>1, <4>2, <4>3 DEF Informs
    <3>. QED
      BY <3>2, <3>3
  <2>. QED
    BY <2>6, <2>8 DEF OwnersInv
<1>4. ~(OnList(p) /\ state[p] = "NONE")
  <2>1. p \in ListSet => \/ state[p] # "NONE"
                         \/ \E g \in Frames(stack) : g.op \in {"exit", "unlink"} /\ g.p = p
    BY DEF ShapeInv, Shape, Fits
  <2>. QED
    BY <2>1 DEF ListSet
<1>. QED
  BY <1>2, <1>3, <1>4 DEF exit_process

\* A thread that yields leaves its callers.
LEMMA YieldedServes ==
  ASSUME KernelInv, ShapeInv, EtimerServes, NEW p \in Process, InThread(p),
         \/ Top.op = "thread" /\ state' = [state EXCEPT ![p] = "RUNNING"]
         \/ Top.op = "told" /\ UNCHANGED state,
         stack' = Callers
  PROVE  Serves /\ \A f \in Frames(stack) : f.op = "exit" => f \in Frames(stack')
<1>1. stack # << >> /\ Top.op \in {"thread", "told"} /\ Top.p = p
  BY DEF InThread
<1>2. /\ ProcessTypeOK /\ Callers \in Seq(Frame) /\ Calm(Callers)
      /\ Frames(stack) = Frames(Callers) \cup {Top} /\ etimer_process \in Process
  BY <1>1, Below, EtimerAssumption
<1>3. state'[etimer_process] # "CALLED"
  <2>1. CASE p = etimer_process
    BY <1>1, <1>2, <2>1 DEF EtimerServes, EtimerOnTop, ProcessTypeOK
  <2>2. CASE p # etimer_process
    BY <1>1, <1>2, <2>2 DEF EtimerServes, EtimerOnTop, ProcessTypeOK, InThread
  <2>. QED
    BY <2>1, <2>2
<1>4. EtimerOnTop'
  BY <1>2, <1>3, CalmOnTop
<1>5. \A q \in Process : state'[q] = "NONE" => state[q] = "NONE"
  BY <1>2 DEF ProcessTypeOK
<1>. QED
  BY <1>1, <1>2, <1>4, <1>5 DEF Serves

\* Steps that only the timers see.
LEMMA QuietOwners ==
  ASSUME ListInv, ListOK, OwnersInv, UNCHANGED <<listVars, state, stack>>,
         \A t \in Timers : Armed(t)' => \/ Armed(t) /\ owner'[t] = owner[t]
                                       \/ state[owner'[t]] # "NONE"
  PROVE  OwnersInv'
<1>1. Owned'
  BY QuietOwned DEF OwnersInv
<1>2. EtimerServes'
  BY QuietServes DEF OwnersInv
<1>. QED
  BY <1>1, <1>2 DEF OwnersInv

\* A process that runs sets, restarts or stops a timer.
LEMMA TimerOwners ==
  ASSUME RestInv, ShapeInv, OwnersInv, UNCHANGED <<listVars, state, stack>>,
         NEW p \in Process, InThread(p), Top.op = "thread", NEW t \in Timers,
         add_timer(t) \/ etimer_stop(t) \/ UNCHANGED timerVars
  PROVE  OwnersInv'
<1>1. process_current = p /\ state[p] # "NONE"
  <2>1. process_current = p
    BY ThreadCalls DEF RestInv, KernelInv
  <2>2. Top \in Frames(stack) /\ Top.p = p
    BY Below DEF RestInv, OwnersInv, InThread
  <2>. QED
    BY <2>1, <2>2 DEF ShapeInv, Shape, Fits
<1>2. timerlist \in Seq(Timers) /\ Distinct(timerlist) /\ owner \in [Timers -> Process \cup {NULL}]
  BY DEF RestInv, ListOK
<1> SUFFICES ASSUME NEW u \in Timers, Armed(u)'
             PROVE  (Armed(u) /\ owner'[u] = owner[u]) \/ state[owner'[u]] # "NONE"
  BY QuietOwners DEF RestInv, ShapeInv
<1>3. CASE add_timer(t)
  <2>1. CASE u = t
    BY <1>1, <1>2, <1>3, <2>1 DEF add_timer
  <2>2. CASE u # t
    <3>1. owner'[u] = owner[u]
      BY <1>2, <1>3, <2>2 DEF add_timer
    <3>2. timerlist' = timerlist \/ timerlist' = << t >> \o timerlist
      BY <1>3 DEF add_timer
    <3>3. \A i \in 1..Len(<< t >> \o timerlist) :
            i # 1 => i - 1 \in 1..Len(timerlist) /\ (<< t >> \o timerlist)[i] = timerlist[i - 1]
      BY <1>2
    <3>4. (<< t >> \o timerlist)[1] = t
      BY <1>2
    <3>. QED
      BY <2>2, <3>1, <3>2, <3>3, <3>4 DEF Armed
  <2>. QED
    BY <2>1, <2>2
<1>4. CASE etimer_stop(t)
  <2>1. timerlist' = Without(timerlist, {t}) /\ owner' = [owner EXCEPT ![t] = NULL]
    BY <1>4 DEF etimer_stop
  <2>2. \A j \in 1..Len(timerlist') :
          \E k \in 1..Len(timerlist) : timerlist'[j] = timerlist[k] /\ timerlist[k] \notin {t}
    BY <1>2, <2>1, WithoutKeeps
  <2>. QED
    BY <1>2, <2>1, <2>2 DEF Armed
<1>5. CASE UNCHANGED timerVars
  BY <1>5 DEF timerVars, Armed
<1>. QED
  BY <1>3, <1>4, <1>5

\* What other processes do.
LEMMA AppKernelOwners ==
  ASSUME ~MayExitBusy, RestInv, ShapeInv, OwnersInv, NEW p \in Apps, AppKernel(p)
  PROVE  OwnersInv'
<1>1. /\ p \in Process /\ p # etimer_process /\ InThread(p) /\ Thread(p)
      /\ UNCHANGED timerVars /\ KernelInv /\ ListOK /\ ListInv
      /\ (state'[etimer_process] = "NONE" => state[etimer_process] = "NONE")
  BY DEF Apps, AppKernel, Thread, etimerVars, RestInv, ShapeInv
<1>2. stack # << >> /\ Top.op \in {"thread", "told"} /\ Top.p = p /\ ~InThread(etimer_process)
  BY <1>1 DEF InThread
<1>3. /\ ProcessTypeOK /\ Callers \in Seq(Frame) /\ Calm(Callers) /\ Top = stack[1]
      /\ stack \in Seq(Frame) /\ Calm(stack) /\ Top \in Frames(stack)
      /\ Frames(stack) = Frames(Callers) \cup {Top} /\ Top \in Frame
      /\ Top.back \in Process \cup {NULL, "keep"} /\ etimer_process \in Process
  <2>1. Top \in Frame
    BY <1>1, <1>2, Below DEF OwnersInv
  <2>2. Top.back \in Process \cup {NULL, "keep"}
    BY <2>1 DEF Frame
  <2>. QED
    BY <1>1, <1>2, <2>1, <2>2, Below, EtimerAssumption DEF OwnersInv
<1>4. state[etimer_process] \notin {"NONE", "CALLED"} /\ state \in [Process -> States]
  <2>1. p \in ListSet
    BY <1>1, <1>2, <1>3, Absent DEF ShapeInv
  <2>. QED
    BY <1>2, <1>3, <2>1 DEF OwnersInv, EtimerServes, EtimerOnTop, ProcessTypeOK, States
<1>5. \A t \in Timers : Armed(t)' => Armed(t) /\ owner'[t] = owner[t]
  BY <1>1 DEF timerVars, Armed
<1>6. ASSUME NEW q \in Process \cup {PROCESS_BROADCAST}, NEW ev \in Posted, Post(q, ev)
      PROVE  OwnersInv'
  BY <1>1, <1>5, <1>6, QuietOwners DEF Post
<1>7. ASSUME NEW q \in Process, NEW ev \in Posted, process_post_synch(q, ev)
      PROVE  OwnersInv'
  <2>1. /\ call_process(state, q, ev, NULL, process_current, stack) /\ UNCHANGED listVars
        /\ ev \in Event \cup {"NONE"} /\ process_current \in Process \cup {NULL, "keep"}
    BY <1>3, <1>7, ContikiProcessAssumption DEF process_post_synch, ProcessTypeOK
  <2>2. /\ Frames(stack) \subseteq Frames(stack')
        /\ \A r \in Process : state'[r] = "NONE" <=> state[r] = "NONE"
        /\ EtimerOnTop'
    BY <1>3, <1>4, <2>1, CallEffect
  <2>3. Serves
    BY <2>2 DEF Serves
  <2>. QED
    BY <1>1, <1>2, <1>5, <2>1, <2>2, <2>3, ServingOwners
<1>8. ASSUME NEW q \in Process, process_start(q)
      PROVE  OwnersInv'
  BY <1>1, <1>2, <1>4, <1>8, StartOwners
<1>9. ASSUME NEW q \in Process, ~Busy(q), process_exit(q)
      PROVE  OwnersInv'
  <2> DEFINE ev == IF q = process_current THEN "NONE" ELSE "EXIT"
  <2>1. exit_process(q, ev, "keep", stack) /\ ev \in Event \cup {"NONE"}
    BY <1>9 DEF process_exit, Event
  <2>2. \A f \in Frames(stack) : f.p # q
    BY <1>9 DEF Busy, Frames
  <2>3. q # etimer_process
    <3> SUFFICES ASSUME q = etimer_process PROVE FALSE
      OBVIOUS
    <3>1. OnList(q)
      BY <1>3, <1>4 DEF ShapeInv, Shape, Fits, ListSet
    <3>2. state' = [state EXCEPT ![q] = "NONE"]
      BY <1>4, <2>1, <3>1 DEF exit_process
    <3>. QED
      BY <1>1, <1>3, <1>4, <3>2
  <2>. HIDE DEF ev
  <2>. QED
    BY <1>1, <1>2, <1>3, <1>4, <2>1, <2>2, <2>3, ExitOwners
<1>10. CASE Yield(p)
  <2>1. /\ stack' = Callers /\ UNCHANGED listVars
        /\ \/ Top.op = "thread" /\ state' = [state EXCEPT ![p] = "RUNNING"]
           \/ Top.op = "told" /\ UNCHANGED state
    BY <1>10 DEF Yield
  <2>2. Serves /\ \A f \in Frames(stack) : f.op = "exit" => f \in Frames(stack')
    BY <1>1, <2>1, YieldedServes DEF OwnersInv
  <2>. QED
    BY <1>1, <1>2, <1>5, <2>1, <2>2, ServingOwners
<1>11. CASE End(p)
  <2>1. exit_process(p, "NONE", Top.back, Callers) /\ Top.op = "thread"
    BY <1>11 DEF End
  <2>2. \A f \in Frames(Callers) : f.p # p
    BY <1>1, <1>2, <1>3, <2>1, ShapeTop, ContikiProcessAssumption DEF ShapeInv, Callers
  <2>. QED
    BY <1>1, <1>2, <1>3, <1>4, <2>1, <2>2, ExitOwners
<1>. QED
  BY <1>1, <1>6, <1>7, <1>8, <1>9, <1>10, <1>11 DEF Thread

\* What the kernel does on its own, and main().
LEMMA KernelOwners ==
  ASSUME RestInv, ShapeInv, OwnersInv,
         RestKernel \/ Booted \/ \E p \in Process : Boot(p)
  PROVE  OwnersInv'
<1>1. UNCHANGED timerVars /\ KernelInv /\ ListOK /\ ListInv
  BY DEF RestKernel, Booted, Boot, etimerVars, RestInv, ShapeInv
<1>2. \A t \in Timers : Armed(t)' => Armed(t) /\ owner'[t] = owner[t]
  BY <1>1 DEF timerVars, Armed
<1>3. ASSUME NEW p \in Process, Boot(p)
      PROVE  OwnersInv'
  <2>1. /\ stack # << >> /\ Top.op = "main" /\ process_start(p)
        /\ p = etimer_process \/ state[etimer_process] # "NONE"
    BY <1>3 DEF Boot, MainStarts, InLoop
  <2>2. ~InThread(etimer_process)
    BY <2>1 DEF InThread
  <2>. QED
    BY <1>1, <2>1, <2>2, StartOwners
<1>4. CASE InformExited
  BY <1>1, <1>4, InformExitedOwners
<1>5. CASE FinishExit
  BY <1>1, <1>5, FinishExitOwners
<1>6. CASE Poll \/ RunPolls \/ do_event \/ Idle \/ Broadcast \/ Deliver \/ MainLoop
  <2>1. /\ Serves /\ ~InThread(etimer_process)
        /\ \A f \in Frames(stack) : f.op # "exit"
    BY <1>1, <1>6, LoopServes DEF OwnersInv
  <2>2. UNCHANGED listVars
    BY <1>6 DEF Poll, RunPolls, do_event, Idle, Broadcast, Deliver, MainLoop
  <2>. QED
    BY <1>1, <1>2, <2>1, <2>2, ServingOwners
<1>. QED
  BY <1>3, <1>4, <1>5, <1>6 DEF RestKernel, Kernel, Booted

\* The etimer process hears of an exit, and forgets the timers of that process.
LEMMA EtimerOwners ==
  ASSUME RestInv, ShapeInv, OwnersInv, EtimerRuns
  PROVE  OwnersInv'
<1>1. /\ KernelInv /\ ListOK /\ ListInv /\ timerlist \in Seq(Timers) /\ Distinct(timerlist)
      /\ owner \in [Timers -> Process \cup {NULL}] /\ etimer_process \in Process
  BY EtimerAssumption DEF RestInv, ShapeInv, ListOK
<1>2. CASE ExpireTimer
  <2> DEFINE k == scan + 1
             t == timerlist[k]
  <2>1. k \in 1..Len(timerlist) /\ UNCHANGED <<listVars, state, stack>>
    BY <1>1, <1>2 DEF ExpireTimer, RestInv, ScanIsOn
  <2>2. \/ UNCHANGED timerVars
        \/ timerlist' = RemoveAt(timerlist, k) /\ owner' = [owner EXCEPT ![t] = NULL]
    BY <1>2 DEF ExpireTimer
  <2>3. ASSUME NEW u \in Timers, Armed(u)'
        PROVE  Armed(u) /\ owner'[u] = owner[u]
    <3>1. CASE UNCHANGED timerVars
      BY <2>3, <3>1 DEF timerVars, Armed
    <3>2. CASE timerlist' = RemoveAt(timerlist, k) /\ owner' = [owner EXCEPT ![t] = NULL]
      <4>1. \A j \in 1..Len(timerlist') :
              \E i \in 1..Len(timerlist) : timerlist'[j] = timerlist[i] /\ timerlist[i] # t
        <5>. HIDE DEF k
        <5>1. LET rest == RemoveAt(timerlist, k)
              IN  \A j \in 1..Len(rest) :
                    \E i \in 1..Len(timerlist) : rest[j] = timerlist[i] /\ timerlist[i] # timerlist[k]
          BY <1>1, <2>1, RemoveAtKeeps
        <5>. QED
          BY <3>2, <5>1
      <4>. HIDE DEF t
      <4>. QED
        BY <1>1, <2>3, <3>2, <4>1 DEF Armed
    <3>. QED
      BY <2>2, <3>1, <3>2
  <2>. QED
    BY <1>1, <2>1, <2>3, QuietOwners
<1>3. CASE EtimerStarts \/ DropTimers \/ ScanDone
  <2>1. /\ InThread(etimer_process) /\ Yield(etimer_process) /\ UNCHANGED owner
        /\ Top.op = "thread"
    BY <1>3 DEF EtimerStarts, DropTimers, ScanDone, Handles, timerVars
  <2>2. /\ stack' = Callers /\ UNCHANGED listVars
        /\ state' = [state EXCEPT ![etimer_process] = "RUNNING"]
    BY <2>1 DEF Yield
  <2>3. Serves /\ \A f \in Frames(stack) : f.op = "exit" => f \in Frames(stack')
    BY <1>1, <2>1, <2>2, YieldedServes DEF OwnersInv
  <2>4. EtimerServes'
    <3>1. ListSet' = ListSet
      BY <1>1, <2>2, SameList
    <3>. QED
      BY <1>1, <2>3, <3>1 DEF Serves, OwnersInv, EtimerServes
  <2>5. ASSUME NEW t \in Timers, Armed(t)'
        PROVE  Armed(t) /\ (Handles(etimer_process, "EXITED") => owner[t] # Top.data)
    <3>1. CASE EtimerStarts
      BY <2>5, <3>1 DEF EtimerStarts, Armed
    <3>2. CASE ScanDone
      BY <2>5, <3>2 DEF ScanDone, Armed, timerVars, Handles
    <3>3. CASE DropTimers /\ Top.ev = "EXITED"
      <4>1. \A j \in 1..Len(timerlist') :
              \E i \in 1..Len(timerlist) :
                timerlist'[j] = timerlist[i] /\ timerlist[i] \notin OwnedBy(Top.data)
        <5>1. LET rest == Without(timerlist, OwnedBy(Top.data))
              IN  \A j \in 1..Len(rest) :
                    \E i \in 1..Len(timerlist) :
                      rest[j] = timerlist[i] /\ timerlist[i] \notin OwnedBy(Top.data)
          BY <1>1, WithoutKeeps
        <5>. QED
          BY <3>3, <5>1 DEF DropTimers
      <4>. QED
        BY <2>5, <4>1 DEF Armed, OwnedBy
    <3>4. CASE DropTimers /\ Top.ev # "EXITED"
      BY <2>5, <3>4 DEF DropTimers, Armed, Handles
    <3>. QED
      BY <1>3, <3>1, <3>2, <3>3, <3>4
  <2>6. Owned'
    <3> SUFFICES ASSUME NEW t \in Timers, Armed(t)', state'[owner'[t]] = "NONE"
                 PROVE  Informs(owner[t])'
      BY DEF Owned
    <3>1. /\ Armed(t) /\ owner'[t] = owner[t]
          /\ Handles(etimer_process, "EXITED") => owner[t] # Top.data
      BY <2>1, <2>5
    <3>2. owner[t] \in Process
      BY <1>1, <3>1 DEF ListOK, Armed
    <3>3. state[owner[t]] = "NONE"
      BY <2>3, <3>1, <3>2 DEF Serves
    <3>4. PICK h \in Frames(stack) : h.op = "exit" /\ h.p = owner[t] /\ Ahead(h.at, etimer_process)
      BY <3>1, <3>3 DEF OwnersInv, Owned, Informs
    <3>5. h \in Frames(stack') /\ Ahead(h.at, etimer_process)'
      BY <2>2, <2>3, <3>4, SameAhead
    <3>. QED
      BY <3>1, <3>4, <3>5 DEF Informs
  <2>. QED
    BY <2>4, <2>6 DEF OwnersInv
<1>. QED
  BY <1>2, <1>3 DEF EtimerRuns, EtimerThread

LEMMA RestOwners ==
  ASSUME RestInv, ShapeInv, OwnersInv, RestThread
  PROVE  OwnersInv'
<1> DEFINE p == rest_manager_process
<1>1. /\ p \in Process /\ p # etimer_process /\ Resources \in Nat
      /\ KernelInv /\ ListOK /\ ListInv
  BY RestManagerAssumption DEF Resources, RestInv, ShapeInv
<1>2. InThread(p)
  BY DEF RestThread, Pause, SetPeriodic, Paused, ServePeriodic, Served, OtherEvent, Handles
<1>3. ~InThread(etimer_process)
  BY <1>1, <1>2 DEF InThread
<1>4. CASE SetPeriodic \/ ServePeriodic
  <2>1. /\ visit < Resources /\ Top.op = "thread" /\ UNCHANGED <<listVars, state, stack>>
        /\ \/ add_timer(Resource)
           \/ UNCHANGED timerVars
    BY <1>4 DEF SetPeriodic, ServePeriodic, Handles, etimer_set, etimer_reset
  <2>2. visit + 1 \in 1..Resources
    BY <1>1, <2>1 DEF RestInv
  <2>3. Resource \in Timers
    BY <2>2, RestManagerAssumption DEF Resource, Resources
  <2>. QED
    BY <1>1, <1>2, <2>1, <2>3, TimerOwners
<1>5. CASE Pause \/ Paused \/ Served \/ OtherEvent
  <2>1. /\ stack' = Callers /\ UNCHANGED <<listVars, timerVars>>
        /\ \/ Top.op = "thread" /\ state' = [state EXCEPT ![p] = "RUNNING"]
           \/ Top.op = "told" /\ UNCHANGED state
    BY <1>5 DEF Pause, Paused, Served, OtherEvent, Handles, Yield, etimerVars
  <2>2. Serves /\ \A f \in Frames(stack) : f.op = "exit" => f \in Frames(stack')
    BY <1>1, <1>2, <2>1, YieldedServes DEF OwnersInv
  <2>3. \A t \in Timers : Armed(t)' => Armed(t) /\ owner'[t] = owner[t]
    BY <2>1 DEF timerVars, Armed
  <2>. QED
    BY <1>1, <1>3, <2>1, <2>2, <2>3, ServingOwners
<1>. QED
  BY <1>4, <1>5 DEF RestThread

LEMMA OwnersNext ==
  ASSUME ~MayExitBusy, RestInv, ShapeInv, OwnersInv, [RestNext]_allVars
  PROVE  OwnersInv'
<1>1. ListOK /\ ListInv
  BY DEF RestInv, ShapeInv
<1>2. ASSUME NEW p \in Apps, AppTimer(p)
      PROVE  OwnersInv'
  <2>1. /\ p \in Process /\ InThread(p) /\ Top.op = "thread"
        /\ UNCHANGED <<listVars, state, stack>>
    BY <1>2 DEF Apps, AppTimer
  <2>2. PICK t \in Timers : add_timer(t) \/ etimer_stop(t)
    BY <1>2 DEF AppTimer, etimer_set, etimer_restart
  <2>. QED
    BY <2>1, <2>2, TimerOwners
<1>3. CASE ClockTicks \/ UNCHANGED allVars \/ \E p \in Apps : AppPauses(p)
  <2>1. UNCHANGED <<listVars, state, stack, timerVars>>
    BY <1>3 DEF ClockTicks, Tick, allVars, vars, AppPauses, Post, etimerVars
  <2>2. \A t \in Timers : Armed(t)' => Armed(t) /\ owner'[t] = owner[t]
    BY <2>1 DEF timerVars, Armed
  <2>. QED
    BY <1>1, <2>1, <2>2, QuietOwners
<1>4. CASE RestNext
  BY <1>2, <1>3, <1>4, KernelOwners, EtimerOwners, RestOwners, AppKernelOwners DEF RestNext
<1>. QED
  BY <1>3, <1>4

LEMMA OwnersInit ==
  ASSUME RestInit
  PROVE  OwnersInv
<1>1. SoundInv /\ Init /\ timerlist = << >>
  BY SoundInvInit DEF RestInit, EtimerInit
<1> DEFINE f == LoopFrame("main", "NONE")
<1>2. f \in Frame /\ f.op = "main" /\ f.op \in Loops /\ f.p = NULL /\ stack = << f >>
  BY <1>1 DEF Frame, LoopFrame, Loops, Init
<1>. HIDE DEF f
<1>3. /\ Shape(stack, state, ListSet) /\ stack # << >> /\ Top = f /\ Callers = << >>
      /\ \A g \in Frames(stack) : g.op \in Loops
  <2>1. Shape(stack, state, ListSet)
    BY <1>1 DEF SoundInv, ShapeInv
  <2>2. stack # << >> /\ Top = f /\ Callers = << >>
    BY <1>2 DEF Top, Callers
  <2>. QED
    BY <1>2, <2>1, <2>2, ShapeTop DEF Top
<1>4. ListSet = {}
  BY <1>1, <1>3 DEF Shape, Fits, Init, ListSet, Loops
<1>5. EtimerServes
  BY <1>1, <1>2, <1>3, <1>4, EtimerAssumption, ContikiProcessAssumption
     DEF EtimerServes, EtimerOnTop, Calm, Frames, Init
<1>6. Owned
  BY <1>1 DEF Owned, Armed
<1>. QED
  BY <1>5, <1>6 DEF OwnersInv

\* However exits, starts and timers interleave, once every exit is complete no
\* process that is gone owns a timer that is armed: exit_process() informs the
\* etimer process, wherever on the list it is and whoever starts or exits while
\* the list is walked, and the loop over the timers misses none.
THEOREM OwnersCorrect ==
  ASSUME ~MayExitBusy, "INIT" \notin Posted
  PROVE  RestSpec => []TimersHaveOwners
<1>1. RestInit => SoundInv /\ OwnersInv
  BY SoundInvInit, OwnersInit DEF RestInit
<1>2. RestInv /\ SoundInv /\ OwnersInv /\ [RestNext]_allVars => SoundInv' /\ OwnersInv'
  BY RestSoundNext, OwnersNext DEF SoundInv
<1>3. RestInv /\ OwnersInv => TimersHaveOwners
  <2> SUFFICES ASSUME RestInv, OwnersInv, \A p \in Process : ~Exiting(p),
                      NEW t \in Timers, Armed(t), state[owner[t]] = "NONE"
               PROVE  FALSE
    BY DEF TimersHaveOwners
  <2>1. owner[t] \in Process
    BY DEF RestInv, ListOK, Armed
  <2>2. PICK f \in Frames(stack) : f.op = "exit" /\ f.p = owner[t]
    BY DEF OwnersInv, Owned, Informs
  <2>. QED
    BY <2>1, <2>2 DEF Exiting, Frames
<1>. QED
  BY <1>1, <1>2, <1>3, RestInvHolds, PTL DEF RestSpec

-----------------------------------------------------------------------------
(***************************************************************************)
(* Periodic resources.  The REST manager never exits and nothing on the    *)
(* stack says so, or starts the etimer process, which would disarm every   *)
(* timer, once there is a REST manager (Spared).                           *)
(***************************************************************************)

Spares(f) ==
  /\ f.op = "exit" => f.p # rest_manager_process
  /\ f.op = "thread" /\ f.ev = "EXITED" => f.data # rest_manager_process
  /\ f.op = "thread" /\ f.ev = "INIT" => f.p # etimer_process
  /\ f.op \in {"broadcast", "deliver"} => f.ev # "INIT"
Spared(s) == \A f \in Frames(s) : Spares(f)

LEMMA SparedPush ==
  ASSUME NEW s \in Seq(Frame), NEW f \in Frame, Spared(s), Spares(f)
  PROVE  << f >> \o s \in Seq(Frame) /\ Spared(<< f >> \o s)
BY PushedSeq DEF Spared

LEMMA SparedNone == << >> \in Seq(Frame) /\ Spared(<< >>)
BY DEF Spared, Frames

LEMMA SparedOne ==
  ASSUME NEW f \in Frame, Spares(f)
  PROVE  << f >> \in Seq(Frame) /\ Spared(<< f >>)
<1>1. << f >> \o << >> = << f >>
  BY OneFrame
<1>. QED
  BY <1>1, SparedNone, SparedPush

LEMMA SparedTop ==
  ASSUME CallsInv, ShapeInv, stack # << >>, Spared(stack)
  PROVE  Spares(Top) /\ Spared(Callers)
BY TopFrame DEF Spared

LEMMA SparedCall ==
  ASSUME NEW st, NEW rest \in Seq(Frame), NEW p \in Process,
         NEW ev \in Event \cup {"NONE"}, NEW data \in Process \cup {NULL},
         NEW back \in Process \cup {NULL, "keep"},
         Spared(rest), data # rest_manager_process, ev = "INIT" => p # etimer_process,
         call_process(st, p, ev, data, back, rest)
  PROVE  Spared(stack')
<1> DEFINE f == ThreadFrame("thread", p, ev, data, back)
<1>1. f \in Frame /\ Spares(f)
  BY DEF Frame, ThreadFrame, Spares
<1>2. stack' = << f >> \o rest \/ stack' = rest
  BY DEF call_process
<1>. HIDE DEF f
<1>. QED
  BY <1>1, <1>2, SparedPush

LEMMA SparedExit ==
  ASSUME ProcessTypeOK, NEW p \in Process, NEW ev \in Event \cup {"NONE"},
         NEW back \in Process \cup {NULL, "keep"}, NEW rest \in Seq(Frame), Spared(rest),
         state'[rest_manager_process] = "NONE" => state[rest_manager_process] = "NONE",
         exit_process(p, ev, back, rest)
  PROVE  Spared(stack')
<1> DEFINE c == IF back = "keep" THEN process_current ELSE back
           f == ExitFrame(p, ev, c)
<1>1. stack' = rest \/ (/\ stack' = << f >> \o rest
                        /\ state[p] # "NONE" /\ state' = [state EXCEPT ![p] = "NONE"])
  BY DEF exit_process
<1>2. CASE stack' = rest
  BY <1>2
<1>3. CASE /\ stack' = << f >> \o rest
           /\ state[p] # "NONE" /\ state' = [state EXCEPT ![p] = "NONE"]
  <2>1. p # rest_manager_process
    BY <1>3 DEF ProcessTypeOK
  <2>2. f \in Frame /\ Spares(f)
    BY <2>1 DEF Frame, ExitFrame, ProcessTypeOK, Spares
  <2>. HIDE DEF f
  <2>. QED
    BY <1>3, <2>2, SparedPush
<1>. QED
  BY <1>1, <1>2, <1>3

\* What the kernel does on its own.
LEMMA SparedKernel ==
  ASSUME KernelInv, ShapeInv, NoInit, Spared(stack), Kernel \/ MainLoop
  PROVE  Spared(stack')
<1>1. CallsInv /\ QueueTypeOK /\ NULL # rest_manager_process
  BY RestManagerAssumption, ContikiProcessAssumption DEF KernelInv
<1>2. stack # << >> => /\ Spares(Top) /\ Spared(Callers) /\ Top \in Frame
                       /\ Callers \in Seq(Frame) /\ After(Top.at) \in Process \cup {NULL}
                       /\ Top.p \in Process \cup {NULL} /\ Top.ev \in Event \cup {"NONE"}
                       /\ FrameOK(Top)
  BY <1>1, SparedTop, TopFrame, TopShape
<1>3. \A ev \in Event \cup {"NONE"} : \A op \in Loops :
        /\ LoopFrame(op, ev) \in Frame
        /\ ev # "INIT" => Spares(LoopFrame(op, ev))
  BY DEF LoopFrame, Frame, Loops, Spares
<1>4. CASE InformExited
  <2> DEFINE at == After(Top.at)
             f == [Top EXCEPT !.at = at]
  <2>1. stack # << >> /\ Top.op = "exit" /\ at \in Process
    BY <1>2, <1>4 DEF InformExited, InLoop
  <2>2. f \in Frame /\ Spares(f) /\ Top.p # rest_manager_process
    BY <1>2, <2>1 DEF Frame, Spares
  <2>3. \/ stack' = << f >> \o Callers
        \/ call_process(state, at, "EXITED", Top.p, "keep", << f >> \o Callers)
    BY <1>4 DEF InformExited
  <2>. HIDE DEF f, at
  <2>4. << f >> \o Callers \in Seq(Frame) /\ Spared(<< f >> \o Callers)
    BY <1>2, <2>1, <2>2, SparedPush
  <2>5. "EXITED" \in Event \cup {"NONE"} /\ "EXITED" # "INIT"
    BY DEF Event
  <2>. QED
    BY <1>2, <2>1, <2>2, <2>3, <2>4, <2>5, SparedCall
<1>5. CASE FinishExit
  <2> DEFINE f == [Top EXCEPT !.op = "unlink"]
             g == ThreadFrame("told", Top.p, "EXIT", NULL, "keep")
  <2>1. stack # << >> /\ (stack' = << g, f >> \o Callers \/ stack' = Callers)
    BY <1>5 DEF FinishExit, InLoop
  <2>2. f \in Frame /\ Spares(f) /\ g \in Frame /\ Spares(g)
    BY <1>2, <2>1 DEF Frame, ThreadFrame, Event, Spares
  <2>. HIDE DEF f, g
  <2>3. << g, f >> \o Callers = << g >> \o (<< f >> \o Callers)
    BY <1>2, <2>1, <2>2, JoinSeq
  <2>. QED
    BY <1>2, <2>1, <2>2, <2>3, SparedPush
<1>6. CASE Poll
  <2> DEFINE at == After(Top.at)
             f == [Top EXCEPT !.at = at]
             st == [state EXCEPT ![at] = "RUNNING"]
  <2>1. stack # << >> /\ Top.op = "poll"
    BY <1>6 DEF Poll, InLoop
  <2>2. f \in Frame /\ Spares(f)
    BY <1>2, <2>1 DEF Frame, Spares
  <2>3. \/ stack' = Callers \/ stack' = << f >> \o Callers
        \/ at \in Process /\ call_process(st, at, "POLL", NULL, "keep", << f >> \o Callers)
    BY <1>2, <1>6, <2>1 DEF Poll
  <2>. HIDE DEF f, at, st
  <2>4. << f >> \o Callers \in Seq(Frame) /\ Spared(<< f >> \o Callers)
    BY <1>2, <2>1, <2>2, SparedPush
  <2>5. "POLL" \in Event \cup {"NONE"} /\ "POLL" # "INIT"
    BY DEF Event
  <2>. QED
    BY <1>1, <1>2, <2>1, <2>3, <2>4, <2>5, SparedCall
<1>7. CASE RunPolls
  <2> DEFINE e == LoopFrame("event", "NONE")
             f == LoopFrame("poll", "NONE")
  <2>1. e \in Frame /\ Spares(e) /\ f \in Frame /\ Spares(f)
    BY <1>3 DEF Loops
  <2>2. stack' = << f, e >>
    BY <1>7 DEF RunPolls
  <2>. HIDE DEF e, f
  <2>3. << f, e >> = << f >> \o << e >>
    OBVIOUS
  <2>. QED
    BY <2>1, <2>2, <2>3, SparedOne, SparedPush
<1>8. CASE do_event
  <2> DEFINE e == events[fevent]
             st == IF e.ev = "INIT" THEN [state EXCEPT ![e.p] = "RUNNING"] ELSE state
  <2>1. e.p \in Process \cup {NULL} /\ e.ev \in Event \cup {"NONE"} /\ e.ev # "INIT"
    BY <1>1, <1>8, ContikiProcessAssumption
       DEF QueueTypeOK, NoInit, do_event, Slot, PROCESS_BROADCAST
  <2>2. \/ stack' = << LoopFrame("broadcast", e.ev) >>
        \/ e.p # NULL /\ call_process(st, e.p, e.ev, NULL, "keep", << >>)
    BY <1>8 DEF do_event, PROCESS_BROADCAST
  <2>. HIDE DEF e, st
  <2>3. LoopFrame("broadcast", e.ev) \in Frame /\ Spares(LoopFrame("broadcast", e.ev))
    BY <1>3, <2>1 DEF Loops
  <2>. QED
    BY <1>1, <2>1, <2>2, <2>3, SparedOne, SparedNone, SparedCall
<1>9. CASE Idle \/ MainLoop
  BY <1>9, SparedNone DEF Idle, MainLoop
<1>10. CASE Broadcast
  <2> DEFINE at == After(Top.at)
             f(op) == [Top EXCEPT !.at = at, !.op = op]
             e == LoopFrame("poll", "NONE")
  <2>1. stack # << >> /\ Top.op = "broadcast"
    BY <1>10 DEF Broadcast, InLoop
  <2>2. Top.ev # "INIT" /\ \A op \in {"broadcast", "deliver"} : f(op) \in Frame /\ Spares(f(op))
    BY <1>2, <2>1 DEF Frame, Spares
  <2>3. e \in Frame /\ Spares(e)
    BY <1>3 DEF Loops
  <2>4. \/ stack' = << >>
        \/ stack' = << e >> \o << f("deliver") >>
        \/ at \in Process /\ call_process(state, at, Top.ev, NULL, "keep", << f("broadcast") >>)
    BY <1>2, <1>10, <2>1 DEF Broadcast
  <2>. HIDE DEF at, f, e
  <2>5. \A op \in {"broadcast", "deliver"} : << f(op) >> \in Seq(Frame) /\ Spared(<< f(op) >>)
    BY <2>2, SparedOne
  <2>. QED
    BY <1>1, <1>2, <2>1, <2>2, <2>3, <2>4, <2>5, SparedNone, SparedPush, SparedCall
<1>11. CASE Deliver
  <2> DEFINE f == [Top EXCEPT !.op = "broadcast"]
  <2>1. stack # << >> /\ Top.op = "deliver" /\ Top.at \in Process
    BY <1>2, <1>11 DEF Deliver, InLoop, FrameOK
  <2>2. f \in Frame /\ Spares(f) /\ Top.ev # "INIT"
    BY <1>2, <2>1 DEF Frame, Spares
  <2>3. call_process(state, Top.at, Top.ev, NULL, "keep", << f >>)
    BY <1>11 DEF Deliver
  <2>. HIDE DEF f
  <2>. QED
    BY <1>1, <1>2, <2>1, <2>2, <2>3, SparedOne, SparedCall
<1>. QED
  BY <1>4, <1>5, <1>6, <1>7, <1>8, <1>9, <1>10, <1>11 DEF Kernel

LEMMA SparedStart ==
  ASSUME KernelInv, ShapeInv, Spared(stack), NEW p \in Process, p # etimer_process,
         process_start(p)
  PROVE  Spared(stack')
<1>1. /\ call_process([state EXCEPT ![p] = "RUNNING"], p, "INIT", NULL, process_current, stack)
      /\ "INIT" \in Event \cup {"NONE"} /\ process_current \in Process \cup {NULL, "keep"}
      /\ stack \in Seq(Frame) /\ NULL # rest_manager_process
  BY RestManagerAssumption, ContikiProcessAssumption
     DEF process_start, Event, KernelInv, CallsInv, ProcessTypeOK, ShapeInv, Shape
<1>. QED
  BY <1>1, SparedCall

\* What threads do, but for the start of the etimer process.
LEMMA SparedThread ==
  ASSUME "INIT" \notin Posted, KernelInv, ShapeInv, Spared(stack), NEW p \in Process, Thread(p),
         state'[rest_manager_process] = "NONE" => state[rest_manager_process] = "NONE",
         ~process_start(etimer_process)
  PROVE  Spared(stack')
<1>1. stack # << >> /\ Top.p = p /\ CallsInv /\ ProcessTypeOK /\ NULL # rest_manager_process
  BY RestManagerAssumption, ContikiProcessAssumption DEF Thread, InThread, KernelInv, CallsInv
<1>2. /\ stack \in Seq(Frame) /\ Callers \in Seq(Frame) /\ Spared(Callers)
      /\ Top.back \in Process \cup {NULL, "keep"}
  BY <1>1, TopFrame, SparedTop
<1>3. ASSUME NEW q \in Process, NEW ev \in Posted, process_post_synch(q, ev)
      PROVE  Spared(stack')
  <2>1. /\ call_process(state, q, ev, NULL, process_current, stack)
        /\ ev \in Event \cup {"NONE"} /\ process_current \in Process \cup {NULL, "keep"}
    BY <1>1, <1>3, ContikiProcessAssumption DEF process_post_synch, ProcessTypeOK
  <2>. QED
    BY <1>1, <1>2, <2>1, SparedCall
<1>4. ASSUME NEW q \in Process, process_exit(q)
      PROVE  Spared(stack')
  <2> DEFINE ev == IF q = process_current THEN "NONE" ELSE "EXIT"
  <2>1. exit_process(q, ev, "keep", stack) /\ ev \in Event \cup {"NONE"}
    BY <1>4 DEF process_exit, Event
  <2>. HIDE DEF ev
  <2>. QED
    BY <1>1, <1>2, <2>1, SparedExit
<1>5. CASE End(p)
  BY <1>1, <1>2, <1>5, SparedExit DEF End
<1>6. CASE Yield(p)
  BY <1>2, <1>6 DEF Yield
<1>7. ASSUME NEW q \in Process \cup {PROCESS_BROADCAST}, NEW ev \in Posted, Post(q, ev)
      PROVE  Spared(stack')
  BY <1>7 DEF Post
<1>8. ASSUME NEW q \in Process, process_start(q)
      PROVE  Spared(stack')
  <2>1. q # etimer_process
    BY <1>8
  <2>. QED
    BY <1>8, <2>1, SparedStart
<1>. QED
  BY <1>3, <1>4, <1>5, <1>6, <1>7, <1>8 DEF Thread

SparedInv ==
  /\ Spared(IF Handles(etimer_process, "INIT") THEN Callers ELSE stack)
  /\ Handles(etimer_process, "INIT") => state[rest_manager_process] = "NONE"

LEMMA SparedMeans ==
  ASSUME KernelInv', Spared(stack')
  PROVE  SparedInv'
<1>1. stack' \in Seq(Frame)
  BY DEF KernelInv, CallsInv, Consistent
<1>2. stack' # << >> => Top' \in Frames(stack')
  BY <1>1, PoppedSeq DEF Top
<1>3. ~Handles(etimer_process, "INIT")'
  BY <1>2 DEF Spared, Spares, Handles, InThread
<1>. QED
  BY <1>3 DEF SparedInv

\* There is no REST manager yet.
LEMMA EtimerStartSpares ==
  ASSUME KernelInv, ShapeInv, EtimerServes, Spared(stack), process_start(etimer_process)
  PROVE  SparedInv'
<1> DEFINE p == etimer_process
           st == [state EXCEPT ![p] = "RUNNING"]
           f == ThreadFrame("thread", p, "INIT", NULL, process_current)
<1>1. /\ p \in Process /\ rest_manager_process \in Process /\ rest_manager_process # p
      /\ ProcessTypeOK /\ stack \in Seq(Frame)
  BY EtimerAssumption, RestManagerAssumption DEF KernelInv, CallsInv, Consistent
<1>2. p \notin ListSet
  BY <1>1 DEF process_start, ListSet
<1>3. state[p] = "NONE" /\ state[rest_manager_process] = "NONE"
  BY <1>1, <1>2 DEF ShapeInv, Shape, Fits, EtimerServes
<1>4. st[p] = "RUNNING" /\ call_process(st, p, "INIT", NULL, process_current, stack)
  BY <1>1 DEF process_start, ProcessTypeOK
<1>5. stack' = << f >> \o stack /\ state' = [st EXCEPT ![p] = "CALLED"]
  BY <1>4 DEF call_process
<1>6. state'[rest_manager_process] = "NONE"
  BY <1>1, <1>3, <1>5 DEF ProcessTypeOK
<1>7. f \in Frame /\ f.op = "thread" /\ f.p = p /\ f.ev = "INIT"
  BY <1>1 DEF Frame, ThreadFrame, Event, ProcessTypeOK
<1>. HIDE DEF f, st
<1>8. stack' # << >> /\ Top' = f /\ Callers' = stack
  BY <1>1, <1>5, <1>7, PushedSeq DEF Top, Callers
<1>9. Handles(p, "INIT")'
  BY <1>7, <1>8 DEF Handles, InThread
<1>. QED
  BY <1>6, <1>8, <1>9 DEF SparedInv

\* Once started, the REST manager does not go.
LEMMA NeverGone ==
  ASSUME RestInv, [RestNext]_allVars, state'[rest_manager_process] = "NONE"
  PROVE  state[rest_manager_process] = "NONE"
<1> DEFINE r == rest_manager_process
<1>1. r \in Process /\ state \in [Process -> {"NONE", "RUNNING", "CALLED"}]
  BY RestManagerAssumption DEF RestInv, KernelInv, CallsInv, ProcessTypeOK
<1>2. ASSUME NEW st, NEW p, NEW ev, NEW data, NEW back, NEW rest,
             st \in [Process -> {"NONE", "RUNNING", "CALLED"}],
             st[r] = "NONE" => state[r] = "NONE",
             call_process(st, p, ev, data, back, rest)
      PROVE  state[r] = "NONE"
  BY <1>1, <1>2 DEF call_process
<1>3. \A p : /\ [state EXCEPT ![p] = "RUNNING"] \in [Process -> {"NONE", "RUNNING", "CALLED"}]
             /\ [state EXCEPT ![p] = "RUNNING"][r] = "NONE" => state[r] = "NONE"
  BY <1>1
<1>4. ASSUME NEW p \in Process, Boot(p)
      PROVE  state[r] = "NONE"
  <2>1. call_process([state EXCEPT ![p] = "RUNNING"], p, "INIT", NULL, process_current, stack)
    BY <1>4 DEF Boot, MainStarts, process_start
  <2>. QED
    BY <1>2, <1>3, <2>1
<1>5. CASE InformExited
  <2>1. UNCHANGED state \/ \E at, rest : call_process(state, at, "EXITED", Top.p, "keep", rest)
    BY <1>5 DEF InformExited
  <2>. QED
    BY <1>1, <1>2, <2>1
<1>6. CASE Poll
  <2>1. \/ UNCHANGED state
        \/ \E at, rest : call_process([state EXCEPT ![at] = "RUNNING"], at, "POLL", NULL, "keep", rest)
    BY <1>6 DEF Poll
  <2>. QED
    BY <1>2, <1>3, <2>1
<1>7. CASE do_event
  <2> DEFINE e == events[fevent]
             st == IF e.ev = "INIT" THEN [state EXCEPT ![e.p] = "RUNNING"] ELSE state
  <2>1. UNCHANGED state \/ call_process(st, e.p, e.ev, NULL, "keep", << >>)
    BY <1>7 DEF do_event
  <2>2. /\ st \in [Process -> {"NONE", "RUNNING", "CALLED"}]
        /\ st[r] = "NONE" => state[r] = "NONE"
    BY <1>1, <1>3
  <2>. HIDE DEF e, st
  <2>. QED
    BY <1>2, <2>1, <2>2
<1>8. CASE Broadcast \/ Deliver
  <2>1. UNCHANGED state \/ \E at, rest : call_process(state, at, Top.ev, NULL, "keep", rest)
    BY <1>8 DEF Broadcast, Deliver
  <2>. QED
    BY <1>1, <1>2, <2>1
<1>9. ASSUME NEW p, Yield(p)
      PROVE  state[r] = "NONE"
  BY <1>1, <1>3, <1>9 DEF Yield
<1>10. CASE RestKernel
  BY <1>5, <1>6, <1>7, <1>8, <1>10 DEF RestKernel, Kernel, FinishExit, RunPolls, Idle
<1>11. CASE RestThread
  BY <1>3, <1>9, <1>11 DEF RestThread, Pause, SetPeriodic, Paused, ServePeriodic, Served, OtherEvent
<1>12. CASE EtimerRuns
  BY <1>9, <1>12 DEF EtimerRuns, EtimerThread, EtimerStarts, DropTimers, ExpireTimer, ScanDone
<1>13. CASE Booted \/ ClockTicks \/ UNCHANGED allVars
            \/ \E p \in Apps : AppKernel(p) \/ AppPauses(p) \/ AppTimer(p)
  BY <1>13 DEF Booted, MainLoop, ClockTicks, Tick, allVars, vars, AppKernel, AppPauses, Post, AppTimer
<1>. QED
  BY <1>4, <1>10, <1>11, <1>12, <1>13 DEF RestNext

LEMMA SparedNext ==
  ASSUME "INIT" \notin Posted, RestInv, SoundInv, EtimerServes, SparedInv, [RestNext]_allVars
  PROVE  SparedInv'
<1>1. /\ KernelInv /\ ShapeInv /\ NoInit /\ CallsInv /\ KernelInv'
      /\ etimer_process \in Process /\ rest_manager_process # etimer_process
  BY RestInvNext, EtimerAssumption, RestManagerAssumption DEF RestInv, SoundInv, KernelInv
<1>2. CASE UNCHANGED <<stack, state>>
  BY <1>2 DEF SparedInv, Handles, InThread, Top, Callers
<1>3. \/ UNCHANGED <<stack, state>>
      \/ \E p \in Process : Boot(p)
      \/ RestKernel \/ Booted
      \/ \E p \in Apps : AppKernel(p)
      \/ InThread(etimer_process) /\ stack' = Callers
      \/ InThread(rest_manager_process) /\ stack' = Callers
  BY DEF RestNext, AppPauses, Post, AppTimer, ClockTicks, Tick, allVars, vars, EtimerRuns,
     EtimerThread, EtimerStarts, DropTimers, ExpireTimer, ScanDone, RestThread, Pause,
     SetPeriodic, Paused, ServePeriodic, Served, OtherEvent, Yield, Handles
<1>4. CASE Handles(etimer_process, "INIT") /\ ~UNCHANGED <<stack, state>>
  <2>1. stack # << >> /\ Top.op = "thread" /\ Top.p = etimer_process
    BY <1>4 DEF Handles, InThread
  <2>2. stack' = Callers
    BY <1>1, <1>3, <1>4, <2>1
       DEF Boot, MainStarts, Booted, MainLoop, RestKernel, Kernel, InformExited, FinishExit, Poll,
       RunPolls, do_event, Idle, Broadcast, Deliver, InLoop, AppKernel, Apps, Thread, InThread
  <2>3. Spared(stack')
    BY <1>4, <2>2 DEF SparedInv
  <2>. QED
    BY <1>1, <2>3, SparedMeans
<1>5. CASE ~Handles(etimer_process, "INIT")
  <2>1. Spared(stack)
    BY <1>5 DEF SparedInv
  <2>2. ASSUME NEW p \in Process, Boot(p)
        PROVE  SparedInv'
    <3>1. process_start(p)
      BY <2>2 DEF Boot, MainStarts
    <3>. QED
      BY <1>1, <2>1, <3>1, EtimerStartSpares, SparedStart, SparedMeans
  <2>3. CASE RestKernel \/ Booted
    <3>1. Kernel \/ MainLoop
      BY <2>3 DEF RestKernel, Booted
    <3>. QED
      BY <1>1, <2>1, <3>1, SparedKernel, SparedMeans
  <2>4. ASSUME NEW p \in Apps, AppKernel(p)
        PROVE  SparedInv'
    <3>1. /\ p \in Process /\ Thread(p)
          /\ state'[rest_manager_process] = "NONE" => state[rest_manager_process] = "NONE"
      BY <2>4 DEF AppKernel, Apps
    <3>. QED
      BY <1>1, <2>1, <3>1, EtimerStartSpares, SparedThread, SparedMeans
  <2>5. ASSUME NEW p, InThread(p), stack' = Callers
        PROVE  SparedInv'
    <3>1. Spared(stack')
      BY <1>1, <2>1, <2>5, SparedTop DEF InThread
    <3>. QED
      BY <1>1, <3>1, SparedMeans
  <2>. QED
    BY <1>2, <1>3, <2>2, <2>3, <2>4, <2>5
<1>. QED
  BY <1>2, <1>4, <1>5

TimerEvent == [p |-> rest_manager_process, ev |-> "TIMER"]

LEMMA ComesWaiting ==
  QueueTypeOK => (EventComes <=> \E j \in 1..Len(Waiting) : Waiting[j] = TimerEvent)
<1> SUFFICES ASSUME QueueTypeOK
             PROVE  EventComes <=> \E j \in 1..Len(Waiting) : Waiting[j] = TimerEvent
  OBVIOUS
<1>1. Len(Waiting) = nevents /\ nevents \in Nat /\ fevent \in Nat
  BY WaitingType, ContikiProcessAssumption DEF QueueTypeOK
<1>2. \A j \in 1..nevents : Waiting[j] = events[(fevent + (j - 1)) % NumEvents]
  <2> SUFFICES ASSUME NEW j \in 1..nevents
               PROVE  Waiting[j] = events[(fevent + (j - 1)) % NumEvents]
    OBVIOUS
  <2>1. fevent + j - 1 = fevent + (j - 1)
    BY <1>1
  <2>2. Waiting[j] = events[(fevent + j - 1) % NumEvents]
    BY DEF Waiting
  <2>. QED
    BY <2>1, <2>2
<1>3. ASSUME NEW i \in 0..(nevents - 1), events[(fevent + i) % NumEvents] = TimerEvent
      PROVE  \E j \in 1..nevents : Waiting[j] = TimerEvent
  <2>1. i + 1 \in 1..nevents /\ (i + 1) - 1 = i
    BY <1>1
  <2>2. Waiting[i + 1] = events[(fevent + ((i + 1) - 1)) % NumEvents]
    BY <1>2, <2>1
  <2>. QED
    BY <1>3, <2>1, <2>2
<1>4. ASSUME NEW j \in 1..nevents, Waiting[j] = TimerEvent
      PROVE  \E i \in 0..(nevents - 1) : events[(fevent + i) % NumEvents] = TimerEvent
  <2>1. j - 1 \in 0..(nevents - 1)
    BY <1>1
  <2>. QED
    BY <1>2, <1>4, <2>1
<1>. QED
  BY <1>1, <1>3, <1>4 DEF EventComes, TimerEvent

LEMMA ComesWaitingPrime ==
  (QueueTypeOK => (EventComes <=> \E j \in 1..Len(Waiting) : Waiting[j] = TimerEvent))'
BY ComesWaiting, PTL

\* An event that is queued stays when another one comes.
LEMMA PostKeepsComing ==
  ASSUME QueueTypeOK, NEW p \in Process \cup {NULL}, NEW ev \in Event, process_post(p, ev)
  PROVE  /\ EventComes => EventComes'
         /\ p = rest_manager_process /\ ev = "TIMER" => EventComes'
<1> DEFINE e == [p |-> p, ev |-> ev]
<1>1. /\ QueueTypeOK' /\ Waiting' = Append(Waiting, e) /\ Waiting \in Seq(Slot)
      /\ Len(Waiting) \in Nat
  BY PostAppends, WaitingType
<1>2. /\ Len(Waiting') = Len(Waiting) + 1 /\ Waiting'[Len(Waiting) + 1] = e
      /\ \A j \in 1..Len(Waiting) : Waiting'[j] = Waiting[j]
  BY <1>1
<1>3. p = rest_manager_process /\ ev = "TIMER" => e = TimerEvent
  BY DEF TimerEvent
<1>. HIDE DEF e
<1>4. 1..Len(Waiting) \subseteq 1..Len(Waiting') /\ Len(Waiting) + 1 \in 1..Len(Waiting')
  BY <1>1, <1>2
<1>. QED
  BY <1>1, <1>2, <1>3, <1>4, ComesWaiting, ComesWaitingPrime

LEMMA TakeKeepsComing ==
  ASSUME QueueTypeOK, TakeEvent, EventComes
  PROVE  EventComes' \/ events[fevent] = TimerEvent
<1>1. /\ QueueTypeOK' /\ Waiting # << >> /\ Waiting' = Tail(Waiting) /\ Waiting \in Seq(Slot)
      /\ Len(Waiting) = nevents
  BY TakeEventTakesHead, WaitingType
<1>2. /\ Len(Waiting') = Len(Waiting) - 1 /\ Len(Waiting) \in Nat \ {0}
      /\ \A j \in 1..Len(Waiting') : Waiting'[j] = Waiting[j + 1]
  BY <1>1
<1>3. PICK j \in 1..Len(Waiting) : Waiting[j] = TimerEvent
  BY ComesWaiting
<1>4. CASE j = 1
  <2>1. Waiting[1] = events[(fevent + 1 - 1) % NumEvents]
    <3>1. 1 \in 1..nevents
      BY <1>1, <1>2
    <3>. QED
      BY <3>1 DEF Waiting
  <2>2. fevent + 1 - 1 = fevent /\ fevent \in 0..(2 * NumEvents - 1) /\ fevent < NumEvents
        /\ NumEvents \in Nat \ {0}
    BY ContikiProcessAssumption DEF QueueTypeOK
  <2>3. fevent % NumEvents = fevent
    BY <2>2, Wraps
  <2>. QED
    BY <1>3, <1>4, <2>1, <2>2, <2>3
<1>5. CASE j # 1
  <2>1. j - 1 \in 1..Len(Waiting') /\ (j - 1) + 1 = j
    BY <1>2, <1>5
  <2>2. Waiting'[j - 1] = TimerEvent
    BY <1>2, <1>3, <2>1
  <2>. QED
    BY <1>1, <2>1, <2>2, ComesWaitingPrime
<1>. QED
  BY <1>4, <1>5

-----------------------------------------------------------------------------
(***************************************************************************)
(* The clock, which wraps.                                                 *)
(***************************************************************************)

LEMMA Behind ==
  ASSUME NEW n \in Nat \ {0}, NEW c \in 0..(n - 1), NEW s \in 0..(n - 1)
  PROVE  (c - s) % n = IF s <= c THEN c - s ELSE c - s + n
BY SMTT(30)

LEMMA Later ==
  ASSUME NEW n \in Nat \ {0}, NEW s \in 0..(n - 1), NEW i \in 0..(n - 1)
  PROVE  (s + i) % n = IF s + i < n THEN s + i ELSE s + i - n
BY SMTT(30)

LEMMA NextTick ==
  ASSUME NEW n \in Nat \ {0}, NEW c \in 0..(n - 1)
  PROVE  (c + 1) % n = IF c + 1 < n THEN c + 1 ELSE 0
BY SMTT(30)

LEMMA TimesType ==
  ASSUME TimesOK, NEW t \in Timers
  PROVE  /\ ClockWrap \in Nat \ {0} /\ clock \in 0..(ClockWrap - 1)
         /\ start[t] \in 0..(ClockWrap - 1) /\ interval[t] \in 0..(ClockWrap - 2)
         /\ Elapsed(t) = IF start[t] <= clock THEN clock - start[t] ELSE clock - start[t] + ClockWrap
         /\ Elapsed(t) \in 0..(ClockWrap - 1)
         /\ timer_expired(t) <=> /\ Elapsed(t) # ClockWrap - 1
                                 /\ interval[t] <= Elapsed(t)
<1>1. /\ ClockWrap \in Nat \ {0} /\ clock \in 0..(ClockWrap - 1)
      /\ start[t] \in 0..(ClockWrap - 1) /\ interval[t] \in 0..(ClockWrap - 2)
  BY EtimerAssumption DEF TimesOK, Clock
<1>2. Elapsed(t) = IF start[t] <= clock THEN clock - start[t] ELSE clock - start[t] + ClockWrap
  BY <1>1, Behind DEF Elapsed
<1>3. Elapsed(t) \in 0..(ClockWrap - 1)
  BY <1>1, <1>2
<1>4. (Elapsed(t) + 1) % ClockWrap = IF Elapsed(t) + 1 < ClockWrap THEN Elapsed(t) + 1 ELSE 0
  BY <1>1, <1>3, NextTick
<1>5. timer_expired(t) <=> Elapsed(t) # ClockWrap - 1 /\ interval[t] <= Elapsed(t)
  BY <1>1, <1>3, <1>4 DEF timer_expired
<1>. QED
  BY <1>1, <1>2, <1>3, <1>5

LEMMA TimesTypePrime ==
  (TimesOK => \A t \in Timers :
     /\ Elapsed(t) = IF start[t] <= clock THEN clock - start[t] ELSE clock - start[t] + ClockWrap
     /\ timer_expired(t) <=> Elapsed(t) # ClockWrap - 1 /\ interval[t] <= Elapsed(t))'
<1>1. TimesOK => \A t \in Timers :
     /\ Elapsed(t) = IF start[t] <= clock THEN clock - start[t] ELSE clock - start[t] + ClockWrap
     /\ timer_expired(t) <=> Elapsed(t) # ClockWrap - 1 /\ interval[t] <= Elapsed(t)
  BY TimesType
<1>. QED
  BY <1>1, PTL

\* A timer that has expired says so until a lap of the clock is over.
LEMMA TickKeepsExpired ==
  ASSUME TimesOK, TimesOK', NEW t \in Timers, Elapsed(t) < ClockWrap - 2, timer_expired(t),
         clock' = (clock + 1) % ClockWrap, UNCHANGED <<start, interval>>
  PROVE  timer_expired(t)'
<1>1. clock' = IF clock + 1 < ClockWrap THEN clock + 1 ELSE 0
  BY TimesType, NextTick
<1> DEFINE e == Elapsed(t)
           f == Elapsed(t)'
           x == timer_expired(t)
           y == timer_expired(t)'
<1>2. /\ ClockWrap \in Nat \ {0} /\ clock \in 0..(ClockWrap - 1)
      /\ start[t] \in 0..(ClockWrap - 1) /\ interval[t] \in 0..(ClockWrap - 2)
      /\ e = IF start[t] <= clock THEN clock - start[t] ELSE clock - start[t] + ClockWrap
      /\ e # ClockWrap - 1 /\ interval[t] <= e /\ e < ClockWrap - 2
  BY TimesType
<1>3. /\ f = IF start[t] <= clock' THEN clock' - start[t] ELSE clock' - start[t] + ClockWrap
      /\ y <=> f # ClockWrap - 1 /\ interval[t] <= f
  BY TimesTypePrime
<1>. HIDE DEF e, f, y
<1>4. f = e + 1
  BY <1>1, <1>2, <1>3
<1>5. y
  BY <1>2, <1>3, <1>4
<1>. QED
  BY <1>5 DEF y

\* The period that etimer_reset() begins is as old as the last one was overdue.
LEMMA ResetFollows ==
  ASSUME TimesOK, TimesOK', NEW t \in Timers, timer_expired(t), etimer_reset(t), UNCHANGED clock
  PROVE  Elapsed(t)' = Elapsed(t) - interval[t]
<1>1. start'[t] = (start[t] + interval[t]) % ClockWrap
  BY DEF etimer_reset, TimesOK
<1> DEFINE e == Elapsed(t)
           f == Elapsed(t)'
<1>2. /\ ClockWrap \in Nat \ {0} /\ clock \in 0..(ClockWrap - 1)
      /\ start[t] \in 0..(ClockWrap - 1) /\ interval[t] \in 0..(ClockWrap - 2)
      /\ e = IF start[t] <= clock THEN clock - start[t] ELSE clock - start[t] + ClockWrap
      /\ interval[t] <= e
  BY TimesType
<1>3. f = IF start'[t] <= clock THEN clock - start'[t] ELSE clock - start'[t] + ClockWrap
  BY TimesTypePrime
<1>4. start'[t] = IF start[t] + interval[t] < ClockWrap THEN start[t] + interval[t]
                  ELSE start[t] + interval[t] - ClockWrap
  <2>1. interval[t] \in 0..(ClockWrap - 1)
    BY <1>2
  <2>. QED
    BY <1>1, <1>2, <2>1, Later
<1>. HIDE DEF e, f
<1>5. f = e - interval[t]
  BY <1>2, <1>3, <1>4
<1>. QED
  BY <1>5 DEF e, f

-----------------------------------------------------------------------------
(***************************************************************************)
(* The loop over the periodic resources.                                   *)
(***************************************************************************)

\* Their timers belong to the REST manager.  The loop is under way only while that
\* thread is on top of the stack, and as long as it sets timers they stay set.
LoopInv ==
  /\ \A t \in Periodic : owner[t] \in {NULL, rest_manager_process}
  /\ ~pausing => state[rest_manager_process] # "NONE"
  /\ visit > 0 => Handles(rest_manager_process, IF pausing THEN "CONTINUE" ELSE "TIMER")
  /\ pausing => \A i \in 1..visit : Armed(restful_periodic_services[i])

AwaitInv == SparedInv /\ LoopInv /\ ResourcesAwaited

LEMMA PeriodicType ==
  /\ Resources \in Nat /\ Periodic \subseteq Timers
  /\ \A i \in 1..Resources : restful_periodic_services[i] \in Periodic
  /\ \A t \in Periodic : \E i \in 1..Resources : restful_periodic_services[i] = t
BY RestManagerAssumption DEF Resources, Periodic

LEMMA AwaitInit ==
  ASSUME RestInit
  PROVE  AwaitInv
<1>1. pausing /\ visit = 0 /\ owner = [t \in Timers |-> NULL] /\ stack = << LoopFrame("main", "NONE") >>
  BY DEF RestInit, EtimerInit, Init
<1>2. LoopInv /\ ResourcesAwaited
  BY <1>1, PeriodicType DEF LoopInv, ResourcesAwaited
<1>3. Spared(stack)
  <2>1. LoopFrame("main", "NONE") \in Frame /\ Spares(LoopFrame("main", "NONE"))
    BY DEF LoopFrame, Frame, Spares
  <2>. QED
    BY <1>1, <2>1, SparedOne
<1>4. ~Handles(etimer_process, "INIT")
  BY <1>1 DEF Handles, InThread, Top, LoopFrame
<1>. QED
  BY <1>2, <1>3, <1>4 DEF AwaitInv, SparedInv

\* What other threads and the kernel do.
LEMMA OthersAwait ==
  ASSUME RestInv, LoopInv, ResourcesAwaited, ~InThread(rest_manager_process), UNCHANGED restVars,
         state'[rest_manager_process] = "NONE" => state[rest_manager_process] = "NONE",
         ~pausing /\ EventComes => EventComes' \/ Handles(rest_manager_process, "TIMER")',
         \A t \in Periodic :
           /\ owner'[t] \in {NULL, rest_manager_process}
           /\ ~pausing /\ Armed(t) =>
                Armed(t)' \/ (owner'[t] = NULL /\ timer_expired(t)' /\ EventComes')
           /\ ~pausing /\ owner[t] = NULL /\ timer_expired(t) =>
                owner'[t] = NULL /\ timer_expired(t)'
  PROVE  LoopInv' /\ ResourcesAwaited'
<1>1. visit = 0 /\ visit' = 0 /\ pausing' = pausing
  BY PeriodicType DEF RestInv, LoopInv, Handles, restVars
<1>2. LoopInv'
  BY <1>1 DEF LoopInv
<1>3. ASSUME NEW t \in Periodic, ~pausing
      PROVE  \/ Armed(t)'
             \/ etimer_expired(t)' /\ timer_expired(t)' /\ (EventComes' \/ LoopComesTo(t)')
  <2>1. CASE Armed(t)
    BY <1>3, <2>1 DEF etimer_expired
  <2>2. CASE ~Armed(t)
    <3>1. owner[t] = NULL /\ timer_expired(t) /\ EventComes
      BY <1>3, <2>2 DEF ResourcesAwaited, etimer_expired, LoopComesTo, Handles
    <3>2. owner'[t] = NULL /\ timer_expired(t)'
      BY <1>3, <3>1
    <3>3. Handles(rest_manager_process, "TIMER")' => LoopComesTo(t)'
      BY <1>1, PeriodicType DEF LoopComesTo
    <3>. QED
      BY <1>3, <3>1, <3>2, <3>3 DEF etimer_expired
  <2>. QED
    BY <2>1, <2>2
<1>4. ResourcesAwaited'
  BY <1>1, <1>3 DEF ResourcesAwaited
<1>. QED
  BY <1>2, <1>4

LEMMA SameComing ==
  ASSUME UNCHANGED queueVars
  PROVE  EventComes' <=> EventComes
BY DEF queueVars, EventComes

\* The event that do_event() takes runs the loop: the REST manager is RUNNING, for no
\* thread is under way.
LEMMA KernelComes ==
  ASSUME KernelInv, ShapeInv, state[rest_manager_process] # "NONE", Kernel \/ MainLoop, EventComes
  PROVE  EventComes' \/ Handles(rest_manager_process, "TIMER")'
<1> DEFINE r == rest_manager_process
<1>1. CASE UNCHANGED queueVars
  BY <1>1, SameComing
<1>2. CASE do_event
  <2>1. r \in Process /\ r # NULL /\ QueueTypeOK /\ CallsInv
    BY RestManagerAssumption, ContikiProcessAssumption DEF KernelInv
  <2>2. EventComes' \/ events[fevent] = TimerEvent
    BY <1>2, <2>1, TakeKeepsComing DEF do_event
  <2>3. ASSUME events[fevent] = TimerEvent
        PROVE  Handles(r, "TIMER")'
    <3>1. stack # << >> => \A f \in Frames(stack) : f.op \in Loops
      <4>1. stack # << >> => Top.op \in Loops /\ Top = stack[1]
        BY <1>2, <2>1, TopShape DEF do_event, InLoop, Loops
      <4>. QED
        BY <4>1, ShapeTop DEF ShapeInv
    <3>2. state[r] = "RUNNING"
      <4>1. \A f \in Frames(stack) : f.op # "thread"
        BY <3>1 DEF Frames, Loops
      <4>. QED
        BY <2>1, <4>1 DEF ShapeInv, Shape, Fits
    <3>3. call_process(state, r, "TIMER", NULL, "keep", << >>)
      BY <1>2, <2>1, <2>3 DEF do_event, PROCESS_BROADCAST, TimerEvent
    <3> DEFINE f == ThreadFrame("thread", r, "TIMER", NULL, "keep")
    <3>4. stack' = << f >> \o << >>
      BY <3>2, <3>3 DEF call_process
    <3>5. f \in Frame /\ f.op = "thread" /\ f.p = r /\ f.ev = "TIMER"
      BY <2>1 DEF Frame, ThreadFrame, Event
    <3>. HIDE DEF f
    <3>6. stack' # << >> /\ Top' = f
      BY <3>4, <3>5, NoFrames, PushedSeq DEF Top
    <3>. QED
      BY <3>5, <3>6 DEF Handles, InThread
  <2>. QED
    BY <2>2, <2>3
<1>3. UNCHANGED queueVars \/ do_event
  BY DEF Kernel, InformExited, FinishExit, Poll, RunPolls, Idle, Broadcast, Deliver, MainLoop
<1>. QED
  BY <1>1, <1>2, <1>3

LEMMA ThreadComes ==
  ASSUME KernelInv, NEW p \in Process, Thread(p) \/ MainStarts(p) \/ Post(p, "CONTINUE"), EventComes
  PROVE  EventComes'
<1>1. \/ UNCHANGED queueVars
      \/ \E q \in Process \cup {NULL}, ev \in Event : process_post(q, ev)
  <2>1. "CONTINUE" \in Event /\ Posted \subseteq Event
    BY ContikiProcessAssumption DEF Event
  <2>. QED
    BY <2>1 DEF Thread, MainStarts, Post, process_post_synch, process_start, process_exit, Yield,
       End, PROCESS_BROADCAST
<1>. QED
  BY <1>1, SameComing, PostKeepsComing DEF KernelInv

\* Timers are left alone.
LEMMA SameTimers ==
  ASSUME UNCHANGED timerVars, UNCHANGED clock, NEW t
  PROVE  /\ Armed(t)' <=> Armed(t)
         /\ timer_expired(t)' <=> timer_expired(t)
         /\ owner'[t] = owner[t]
BY DEF timerVars, Armed, timer_expired, Elapsed

LEMMA KernelAwaits ==
  ASSUME RestInv, ShapeInv, LoopInv, ResourcesAwaited, [RestNext]_allVars,
         \/ \E p \in Process : Boot(p)
         \/ Booted \/ RestKernel
         \/ \E p \in Apps : AppKernel(p) \/ AppPauses(p)
  PROVE  LoopInv' /\ ResourcesAwaited'
<1>1. UNCHANGED restVars /\ UNCHANGED timerVars /\ UNCHANGED clock /\ KernelInv
  BY DEF Boot, Booted, RestKernel, AppKernel, AppPauses, etimerVars, RestInv
<1>2. ~InThread(rest_manager_process)
  BY DEF Boot, MainStarts, Booted, MainLoop, RestKernel, Kernel, InformExited, FinishExit, Poll,
     RunPolls, do_event, Idle, Broadcast, Deliver, InLoop, AppKernel, AppPauses, Apps, Thread,
     Handles, InThread
<1>3. ~pausing /\ EventComes => EventComes' \/ Handles(rest_manager_process, "TIMER")'
  <2>1. CASE \/ \E p \in Process : Boot(p)
             \/ \E p \in Apps : AppKernel(p) \/ AppPauses(p)
    <3>1. \E p \in Process : Thread(p) \/ MainStarts(p) \/ Post(p, "CONTINUE")
      BY <2>1 DEF Boot, AppKernel, AppPauses, Apps
    <3>. QED
      BY <1>1, <3>1, ThreadComes
  <2>2. CASE Booted \/ RestKernel
    <3>1. Kernel \/ MainLoop
      BY <2>2 DEF Booted, RestKernel
    <3>. QED
      BY <1>1, <3>1, KernelComes DEF LoopInv
  <2>. QED
    BY <2>1, <2>2
<1>4. state'[rest_manager_process] = "NONE" => state[rest_manager_process] = "NONE"
  BY NeverGone
<1>. QED
  BY <1>1, <1>2, <1>3, <1>4, SameTimers, OthersAwait DEF LoopInv

LEMMA AddArms ==
  ASSUME ListOK, NEW t \in Timers, add_timer(t)
  PROVE  /\ Armed(t)' /\ owner'[t] = process_current
         /\ \A u \in Timers : Armed(u) => Armed(u)'
         /\ \A u \in Timers : u # t => owner'[u] = owner[u]
<1>1. /\ timerlist \in Seq(Timers) /\ owner \in [Timers -> Process \cup {NULL}]
      /\ owner' = [owner EXCEPT ![t] = process_current]
  BY DEF ListOK, add_timer
<1>2. CASE timerlist' = timerlist /\ Armed(t)
  BY <1>1, <1>2 DEF Armed
<1>3. CASE timerlist' = << t >> \o timerlist
  <2> DEFINE l == << t >> \o timerlist
  <2>1. /\ l[1] = t /\ 1 \in 1..Len(l)
        /\ \A i \in 1..Len(timerlist) : i + 1 \in 1..Len(l) /\ l[i + 1] = timerlist[i]
    BY <1>1
  <2>. HIDE DEF l
  <2>2. timerlist' = l
    BY <1>3 DEF l
  <2>. QED
    BY <1>1, <2>1, <2>2 DEF Armed
<1>. QED
  BY <1>2, <1>3 DEF add_timer

\* The etimer process takes a periodic timer off its list only when it has posted.
LEMMA EtimerAwaits ==
  ASSUME RestInv, AwaitInv, [RestNext]_allVars, EtimerRuns
  PROVE  LoopInv' /\ ResourcesAwaited'
<1> DEFINE r == rest_manager_process
<1>1. /\ UNCHANGED restVars /\ UNCHANGED clock /\ UNCHANGED start /\ UNCHANGED interval
      /\ InThread(etimer_process) /\ KernelInv /\ ListOK
  BY DEF EtimerRuns, EtimerThread, EtimerStarts, DropTimers, ExpireTimer, ScanDone, Handles,
     timerVars, RestInv
<1>2. ~InThread(r) /\ r # NULL /\ r \in Process
  BY <1>1, RestManagerAssumption, ContikiProcessAssumption DEF InThread
<1>3. state'[r] = "NONE" => state[r] = "NONE"
  BY NeverGone
<1>4. \A t : timer_expired(t)' <=> timer_expired(t)
  BY <1>1 DEF timer_expired, Elapsed
<1>5. /\ LoopInv /\ ResourcesAwaited /\ SparedInv
      /\ timerlist \in Seq(Timers) /\ Distinct(timerlist)
      /\ owner \in [Timers -> Process \cup {NULL}]
      /\ \A t \in Periodic : t \in Timers /\ owner[t] \in {NULL, r}
      /\ \A t \in Timers : Armed(t) => owner[t] # NULL
  BY <1>1, PeriodicType DEF AwaitInv, LoopInv, ListOK, Armed
<1>6. ASSUME EventComes => EventComes',
             \A t \in Periodic :
               /\ owner'[t] \in {NULL, r}
               /\ ~pausing /\ Armed(t) =>
                    Armed(t)' \/ (owner'[t] = NULL /\ timer_expired(t) /\ EventComes')
               /\ owner[t] = NULL => owner'[t] = NULL
      PROVE  LoopInv' /\ ResourcesAwaited'
  BY <1>1, <1>2, <1>3, <1>4, <1>5, <1>6, OthersAwait
<1>7. CASE EtimerStarts
  <2>1. UNCHANGED queueVars /\ UNCHANGED owner
    BY <1>7 DEF EtimerStarts, Yield
  <2>2. pausing
    BY <1>5, <1>7 DEF EtimerStarts, SparedInv, LoopInv
  <2>. QED
    BY <1>5, <1>6, <2>1, <2>2, SameComing
<1>8. CASE DropTimers
  <2>1. UNCHANGED queueVars /\ UNCHANGED owner /\ stack # << >> /\ Top.op = "thread"
    BY <1>8 DEF DropTimers, Yield, InThread
  <2>2. Top.ev = "EXITED" => Top.data # r
    <3>1. Spared(stack)
      BY <1>5, <1>8 DEF DropTimers, SparedInv, Handles
    <3>2. Top \in Frames(stack)
      BY <1>1, <2>1, PoppedSeq DEF KernelInv, CallsInv, Consistent, Top
    <3>. QED
      BY <2>1, <3>1, <3>2 DEF Spared, Spares
  <2>3. ASSUME NEW t \in Periodic, Armed(t)
        PROVE  Armed(t)'
    <3>1. CASE Top.ev = "EXITED"
      <4>1. t \notin OwnedBy(Top.data)
        BY <1>5, <2>2, <2>3, <3>1 DEF OwnedBy
      <4>2. timerlist' = Without(timerlist, OwnedBy(Top.data))
        BY <1>8, <3>1 DEF DropTimers
      <4>3. PICK k \in 1..Len(timerlist) : timerlist[k] = t
        BY <2>3 DEF Armed
      <4>4. \A i \in 1..Len(timerlist) :
              timerlist[i] \notin OwnedBy(Top.data) =>
                \E j \in 1..Len(timerlist') : timerlist'[j] = timerlist[i]
        BY <1>5, <4>2, WithoutKeeps
      <4>. QED
        BY <4>1, <4>3, <4>4 DEF Armed
    <3>2. CASE Top.ev # "EXITED"
      BY <1>8, <2>3, <3>2 DEF DropTimers, Armed
    <3>. QED
      BY <3>1, <3>2
  <2>. QED
    BY <1>5, <1>6, <2>1, <2>3, SameComing
<1>9. CASE ScanDone
  <2>1. UNCHANGED queueVars /\ UNCHANGED timerVars
    BY <1>9 DEF ScanDone, Yield
  <2>. QED
    BY <1>1, <1>5, <1>6, <2>1, SameComing, SameTimers
<1>10. CASE ExpireTimer
  <2> DEFINE k == scan + 1
             u == timerlist[k]
  <2>1. k \in 1..Len(timerlist) /\ u \in Timers /\ owner[u] \in Process
    BY <1>1, <1>5, <1>10 DEF ExpireTimer, RestInv, ScanIsOn, ListOK
  <2>2. CASE UNCHANGED timerVars /\ UNCHANGED queueVars
    BY <1>1, <1>5, <1>6, <2>2, SameComing, SameTimers
  <2>3. CASE /\ timer_expired(u) /\ process_post(owner[u], "TIMER")
             /\ owner' = [owner EXCEPT ![u] = NULL] /\ timerlist' = RemoveAt(timerlist, k)
    <3>1. /\ EventComes => EventComes'
          /\ owner[u] = r => EventComes'
      <4>1. "TIMER" \in Event /\ QueueTypeOK /\ owner[u] \in Process \cup {NULL}
        BY <1>1, <2>1 DEF Event, KernelInv
      <4>. QED
        BY <2>3, <4>1, PostKeepsComing
    <3>2. \A i \in 1..Len(timerlist) :
            timerlist[i] # u => \E j \in 1..Len(timerlist') : timerlist'[j] = timerlist[i]
      <4>. HIDE DEF k
      <4>1. LET rest == RemoveAt(timerlist, k)
            IN  \A i \in 1..Len(timerlist) :
                  timerlist[i] # timerlist[k] => \E j \in 1..Len(rest) : rest[j] = timerlist[i]
        BY <1>5, <2>1, RemoveAtKeeps
      <4>. QED
        BY <2>3, <4>1
    <3>. HIDE DEF u
    <3>3. \A t \in Timers : owner'[t] = IF t = u THEN NULL ELSE owner[t]
      BY <1>5, <2>3
    <3>4. ASSUME NEW t \in Periodic, Armed(t), t # u
          PROVE  Armed(t)'
      BY <3>2, <3>4 DEF Armed
    <3>5. u \in Periodic => owner[u] = r
      BY <1>2, <1>5, <2>1, ContikiProcessAssumption
    <3>. QED
      BY <1>5, <1>6, <2>3, <3>1, <3>3, <3>4, <3>5
  <2>. QED
    BY <1>10, <2>2, <2>3 DEF ExpireTimer
<1>. QED
  BY <1>7, <1>8, <1>9, <1>10 DEF EtimerRuns, EtimerThread

LEMMA AppTimerAwaits ==
  ASSUME RestInv, LoopInv, ResourcesAwaited, [RestNext]_allVars, NEW p \in Apps, AppTimer(p)
  PROVE  LoopInv' /\ ResourcesAwaited'
<1>1. /\ UNCHANGED restVars /\ UNCHANGED queueVars /\ UNCHANGED clock /\ ListOK
      /\ ~InThread(rest_manager_process)
  BY DEF AppTimer, Apps, InThread, RestInv
<1>2. PICK t \in Timers \ Periodic : \/ \E i \in 1..MaxInterval : etimer_set(t, i)
                                     \/ etimer_restart(t)
                                     \/ etimer_stop(t)
  BY DEF AppTimer
<1>3. /\ timerlist \in Seq(Timers) /\ Distinct(timerlist)
      /\ owner \in [Timers -> Process \cup {NULL}]
      /\ start \in [Timers -> Clock] /\ interval \in [Timers -> 0..MaxInterval]
  BY DEF ListOK, RestInv, TimesOK
<1>4. \A u \in Periodic : /\ u \in Timers /\ u # t
                          /\ start'[u] = start[u] /\ interval'[u] = interval[u]
  BY <1>2, <1>3, PeriodicType DEF etimer_set, etimer_restart, etimer_stop
<1>5. \A u \in Periodic : timer_expired(u)' <=> timer_expired(u)
  BY <1>1, <1>4 DEF timer_expired, Elapsed
<1>6. \A u \in Periodic : owner'[u] = owner[u] /\ (Armed(u) => Armed(u)')
  <2>1. CASE add_timer(t)
    BY <1>1, <1>4, <2>1, AddArms
  <2>2. CASE etimer_stop(t)
    <3> DEFINE S == {t}
    <3>1. timerlist' = Without(timerlist, S) /\ owner' = [owner EXCEPT ![t] = NULL]
      BY <2>2 DEF etimer_stop
    <3>2. \A u \in Periodic : u \notin S
      BY <1>4
    <3>. HIDE DEF S
    <3>3. \A k \in 1..Len(timerlist) :
            timerlist[k] \notin S => \E j \in 1..Len(timerlist') : timerlist'[j] = timerlist[k]
      <4>1. LET rest == Without(timerlist, S)
            IN  \A k \in 1..Len(timerlist) :
                  timerlist[k] \notin S => \E j \in 1..Len(rest) : rest[j] = timerlist[k]
        BY <1>3, WithoutKeeps
      <4>. QED
        BY <3>1, <4>1
    <3>4. \A u \in Periodic : owner'[u] = owner[u]
      BY <1>3, <1>4, <3>1
    <3>5. ASSUME NEW u \in Periodic, Armed(u)
          PROVE  Armed(u)'
      <4>1. PICK k \in 1..Len(timerlist) : timerlist[k] = u
        BY <3>5 DEF Armed
      <4>. QED
        BY <3>2, <3>3, <4>1 DEF Armed
    <3>. QED
      BY <3>4, <3>5
  <2>. QED
    BY <1>2, <2>1, <2>2 DEF etimer_set, etimer_restart
<1>7. state'[rest_manager_process] = "NONE" => state[rest_manager_process] = "NONE"
  BY NeverGone
<1>. QED
  BY <1>1, <1>5, <1>6, <1>7, SameComing, OthersAwait DEF LoopInv

\* The clock, and steps that change nothing.
LEMMA TickAwaits ==
  ASSUME RestInv, RestInv', LoopInv, ResourcesAwaited, ClockTicks \/ UNCHANGED allVars
  PROVE  LoopInv' /\ ResourcesAwaited'
<1>1. /\ UNCHANGED restVars /\ UNCHANGED queueVars /\ UNCHANGED timerVars /\ UNCHANGED stack
      /\ UNCHANGED state
  BY DEF ClockTicks, Tick, allVars, vars, etimerVars
<1>2. \A t : /\ Armed(t)' <=> Armed(t)
             /\ etimer_expired(t)' <=> etimer_expired(t)
             /\ LoopComesTo(t)' <=> LoopComesTo(t)
  BY <1>1 DEF timerVars, restVars, Armed, etimer_expired, LoopComesTo, Handles, InThread, Top,
     Resources
<1>3. LoopInv'
  BY <1>1, <1>2 DEF LoopInv, timerVars, restVars, Handles, InThread, Top
<1>4. ASSUME NEW t \in Periodic, ~pausing, timer_expired(t)
      PROVE  timer_expired(t)'
  <2>1. CASE ClockTicks
    <3>1. /\ Elapsed(t) < ClockWrap - 2 /\ clock' = (clock + 1) % ClockWrap
          /\ UNCHANGED <<start, interval>> /\ t \in Timers
      BY <1>1, <1>4, <2>1, PeriodicType DEF ClockTicks, Tick, timerVars
    <3>. QED
      BY <1>4, <3>1, TickKeepsExpired DEF RestInv
  <2>2. CASE UNCHANGED allVars
    BY <1>4, <2>2 DEF allVars, etimerVars, timerVars, timer_expired, Elapsed
  <2>. QED
    BY <2>1, <2>2
<1>5. EventComes' <=> EventComes
  BY <1>1, SameComing
<1>6. ResourcesAwaited'
  BY <1>1, <1>2, <1>4, <1>5 DEF ResourcesAwaited, restVars
<1>. QED
  BY <1>3, <1>6

\* The thread of the REST manager.
LEMMA RestAwaits ==
  ASSUME RestInv, LoopInv, ResourcesAwaited, [RestNext]_allVars, RestThread
  PROVE  LoopInv' /\ ResourcesAwaited'
<1> DEFINE r == rest_manager_process
<1>1. /\ InThread(r) /\ KernelInv /\ ListOK /\ TimesOK /\ r \in Process /\ r # NULL
      /\ UNCHANGED clock
  BY RestManagerAssumption, ContikiProcessAssumption
     DEF RestInv, RestThread, Pause, SetPeriodic, Paused, ServePeriodic, Served, OtherEvent,
     Handles, etimerVars
<1>2. process_current = r /\ (state'[r] = "NONE" => state[r] = "NONE")
  BY <1>1, NeverGone, ThreadCalls DEF KernelInv
<1>3. state \in [Process -> States]
  BY <1>1 DEF KernelInv, CallsInv, ProcessTypeOK, States
<1>4. CASE Pause \/ Served \/ OtherEvent
  <2>1. UNCHANGED timerVars /\ pausing' = pausing /\ visit' = 0
    BY <1>4, PeriodicType DEF Pause, Served, OtherEvent, Handles, etimerVars, restVars, RestInv, LoopInv
  <2>2. EventComes => EventComes'
    <3>1. CASE UNCHANGED queueVars
      BY <3>1, SameComing
    <3>2. CASE process_post(r, "CONTINUE")
      BY <1>1, <3>2, PostKeepsComing DEF KernelInv, Event
    <3>. QED
      BY <1>4, <3>1, <3>2 DEF Pause, Served, OtherEvent, Yield, process_post, queueVars
  <2>3. ~pausing => \A t : ~LoopComesTo(t)
    BY <1>4, PeriodicType DEF Pause, Served, OtherEvent, Handles, LoopComesTo
  <2>4. LoopInv'
    BY <1>1, <1>2, <2>1, SameTimers DEF LoopInv
  <2>5. ResourcesAwaited'
    BY <1>1, <2>1, <2>2, <2>3, SameTimers DEF ResourcesAwaited, etimer_expired
  <2>. QED
    BY <2>4, <2>5
<1>5. CASE Paused
  <2>1. /\ UNCHANGED timerVars /\ pausing' = FALSE /\ visit' = 0 /\ pausing /\ visit = Resources
        /\ state'[r] = "RUNNING"
    BY <1>1, <1>3, <1>5 DEF Paused, etimerVars, Yield, Handles
  <2>2. \A t \in Periodic : Armed(t)'
    BY <1>1, <2>1, PeriodicType, SameTimers DEF LoopInv
  <2>. QED
    BY <1>1, <2>1, <2>2, SameTimers DEF LoopInv, ResourcesAwaited
<1>6. CASE SetPeriodic \/ ServePeriodic
  <2>1. /\ visit < Resources /\ visit' = visit + 1 /\ visit \in Nat /\ UNCHANGED pausing
        /\ UNCHANGED queueVars /\ UNCHANGED stack /\ UNCHANGED state
    BY <1>6, PeriodicType DEF SetPeriodic, ServePeriodic, RestInv
  <2>2. visit + 1 \in 1..Resources /\ Resource \in Periodic /\ Resource \in Timers
        /\ Resource = restful_periodic_services[visit + 1]
    <3>1. visit + 1 \in 1..Resources
      BY <2>1, PeriodicType
    <3>. QED
      BY <3>1, PeriodicType DEF Resource
  <2>9. PICK u \in Periodic : u = Resource /\ u \in Timers /\ u = restful_periodic_services[visit + 1]
    BY <2>2
  <2>3. \/ /\ add_timer(u)
           /\ \A t \in Timers : t # u => start'[t] = start[t] /\ interval'[t] = interval[t]
        \/ ~pausing /\ owner[u] # NULL /\ UNCHANGED timerVars
    BY <1>1, <1>6, <2>9 DEF SetPeriodic, ServePeriodic, etimer_set, etimer_reset, etimer_expired, TimesOK
  <2>4. /\ \A t \in Timers : Armed(t) => Armed(t)'
        /\ \A t \in Periodic : t # u => /\ owner'[t] = owner[t]
                                        /\ timer_expired(t)' <=> timer_expired(t)
        /\ Armed(u)' /\ owner'[u] \in {NULL, r}
    <3>1. CASE /\ add_timer(u)
               /\ \A t \in Timers : t # u => start'[t] = start[t] /\ interval'[t] = interval[t]
      <4>1. /\ Armed(u)' /\ owner'[u] = r
            /\ \A t \in Timers : Armed(t) => Armed(t)'
            /\ \A t \in Timers : t # u => owner'[t] = owner[t]
        BY <1>1, <1>2, <2>9, <3>1, AddArms
      <4>2. ASSUME NEW t \in Periodic, t # u
            PROVE  timer_expired(t)' <=> timer_expired(t)
        BY <1>1, <3>1, <4>2, PeriodicType DEF timer_expired, Elapsed
      <4>. QED
        BY <4>1, <4>2, PeriodicType
    <3>2. CASE ~pausing /\ owner[u] # NULL /\ UNCHANGED timerVars
      <4>1. Armed(u) /\ owner[u] \in {NULL, r}
        BY <2>9, <3>2 DEF LoopInv, ResourcesAwaited, etimer_expired
      <4>2. \A t : /\ Armed(t)' <=> Armed(t)
                   /\ timer_expired(t)' <=> timer_expired(t)
                   /\ owner'[t] = owner[t]
        BY <1>1, <3>2, SameTimers
      <4>. QED
        BY <4>1, <4>2
    <3>. QED
      BY <2>3, <3>1, <3>2
  <2>5. Handles(r, IF pausing THEN "CONTINUE" ELSE "TIMER")
    BY <1>6 DEF SetPeriodic, ServePeriodic
  <2>6. LoopInv'
    <3>1. \A t \in Periodic : owner'[t] \in {NULL, r}
      BY <2>4 DEF LoopInv
    <3>2. Handles(r, IF pausing THEN "CONTINUE" ELSE "TIMER")'
      BY <2>1, <2>5 DEF Handles, InThread, Top
    <3>3. ASSUME pausing, NEW i \in 1..visit'
          PROVE  Armed(restful_periodic_services[i])'
      <4>1. i \in 1..visit \/ i = visit + 1
        BY <2>1
      <4>2. i \in 1..Resources
        BY <2>1, <4>1, PeriodicType
      <4>. QED
        BY <2>4, <2>9, <3>3, <4>1, <4>2, PeriodicType DEF LoopInv
    <3>. QED
      BY <2>1, <3>1, <3>2, <3>3 DEF LoopInv
  <2>7. ASSUME NEW t \in Periodic, ~pausing, ~Armed(t)'
        PROVE  etimer_expired(t)' /\ timer_expired(t)' /\ (EventComes' \/ LoopComesTo(t)')
    <3>1. t # u /\ ~Armed(t)
      BY <2>4, <2>7, PeriodicType
    <3>2. etimer_expired(t) /\ timer_expired(t) /\ (EventComes \/ LoopComesTo(t))
      BY <2>7, <3>1 DEF ResourcesAwaited
    <3>3. etimer_expired(t)' /\ timer_expired(t)'
      BY <2>4, <3>1, <3>2 DEF etimer_expired
    <3>4. LoopComesTo(t) => LoopComesTo(t)'
      <4>1. ASSUME NEW i \in (visit + 1)..Resources, restful_periodic_services[i] = t
            PROVE  i \in (visit' + 1)..Resources
        <5>1. i # visit + 1
          BY <2>9, <3>1, <4>1
        <5>. QED
          BY <2>1, <5>1, PeriodicType
      <4>2. Handles(r, "TIMER") => Handles(r, "TIMER")'
        BY <2>1 DEF Handles, InThread, Top
      <4>. QED
        BY <4>1, <4>2 DEF LoopComesTo
    <3>. QED
      BY <2>1, <3>2, <3>3, <3>4, SameComing
  <2>8. ResourcesAwaited'
    BY <2>1, <2>7 DEF ResourcesAwaited
  <2>. QED
    BY <2>6, <2>8
<1>. QED
  BY <1>4, <1>5, <1>6 DEF RestThread

\* The invariant and what it implies, together.
RestServesInv == RestInv /\ SoundInv /\ OwnersInv /\ AwaitInv

LEMMA ServesNext ==
  ASSUME ~MayExitBusy, "INIT" \notin Posted, RestServesInv, [RestNext]_allVars
  PROVE  RestServesInv'
<1>1. RestInv /\ SoundInv /\ ShapeInv /\ OwnersInv /\ EtimerServes /\ SparedInv /\ LoopInv
      /\ ResourcesAwaited
  BY DEF RestServesInv, SoundInv, OwnersInv, AwaitInv
<1>2. RestInv' /\ SoundInv' /\ OwnersInv'
  BY <1>1, RestInvNext, RestSoundNext, OwnersNext
<1>3. SparedInv'
  BY <1>1, SparedNext
<1>4. LoopInv' /\ ResourcesAwaited'
  BY <1>1, <1>2, KernelAwaits, EtimerAwaits, AppTimerAwaits, TickAwaits, RestAwaits
     DEF RestNext, AwaitInv
<1>. QED
  BY <1>2, <1>3, <1>4 DEF RestServesInv, AwaitInv

LEMMA ServesHolds ==
  ASSUME ~MayExitBusy, "INIT" \notin Posted
  PROVE  RestSpec => []RestServesInv
<1>1. RestInit => RestServesInv
  BY RestInvInit, SoundInvInit, OwnersInit, AwaitInit DEF RestInit, RestServesInv
<1>2. RestServesInv /\ [RestNext]_allVars => RestServesInv'
  BY ServesNext
<1>. QED
  BY <1>1, <1>2, PTL DEF RestSpec

\* No periodic resource is forgotten: whatever starts, exits, posts and timers come
\* between, either its timer is armed or the interval is over (the clock may have wrapped)
\* and an event, or the loop itself, will have it run.
THEOREM ResourcesCorrect ==
  ASSUME ~MayExitBusy, "INIT" \notin Posted
  PROVE  RestSpec => []ResourcesAwaited
<1>1. RestServesInv => ResourcesAwaited
  BY DEF RestServesInv, AwaitInv
<1>. QED
  BY <1>1, ServesHolds, PTL

\* However late the REST manager gets to a resource, the next period begins where the
\* last one ended: etimer_reset() is reached only by timers that have run out.
THEOREM PeriodsCorrect ==
  ASSUME ~MayExitBusy, "INIT" \notin Posted
  PROVE  RestSpec => PeriodsFollow
<1>1. ASSUME RestServesInv, [RestNext]_allVars,
             NEW t \in Periodic, ~pausing, start'[t] # start[t]
      PROVE  Elapsed(t)' = Elapsed(t) - interval[t]
  <2>1. RestInv /\ ResourcesAwaited /\ t \in Timers
    BY <1>1, PeriodicType DEF RestServesInv, AwaitInv
  <2>5. TimesOK /\ TimesOK' /\ ListOK
    BY <1>1, <2>1, RestInvNext DEF RestInv
  <2>2. ServePeriodic /\ etimer_reset(Resource) /\ t = Resource /\ owner[t] = NULL
    <3>1. start \in [Timers -> Clock]
      BY <2>5 DEF TimesOK
    <3>2. ~(\E p \in Apps : AppTimer(p))
      BY <1>1, <2>1, <3>1 DEF AppTimer, etimer_set, etimer_restart, etimer_stop
    <3>3. UNCHANGED start \/ ServePeriodic
      BY <1>1, <3>2
         DEF RestNext, Boot, Booted, RestKernel, ClockTicks, Tick, EtimerRuns, EtimerThread,
         EtimerStarts, DropTimers, ExpireTimer, ScanDone, RestThread, Pause, SetPeriodic, Paused,
         Served, OtherEvent, AppKernel, AppPauses, etimerVars, timerVars, allVars
    <3>4. ServePeriodic /\ etimer_reset(Resource) /\ owner[Resource] = NULL
      BY <1>1, <3>3 DEF ServePeriodic, etimer_expired, timerVars
    <3>. QED
      BY <1>1, <2>1, <3>1, <3>4 DEF etimer_reset
  <2>3. timer_expired(t)
    <3>1. ~Armed(t)
      BY <2>1, <2>2, <2>5 DEF ListOK, Armed
    <3>. QED
      BY <1>1, <2>1, <3>1 DEF ResourcesAwaited
  <2>4. UNCHANGED clock
    BY <2>2 DEF ServePeriodic
  <2>. QED
    BY <2>1, <2>2, <2>3, <2>4, <2>5, ResetFollows
<1>2. RestServesInv /\ [RestNext]_allVars =>
        [\A t \in Periodic : ~pausing /\ start'[t] # start[t] =>
           Elapsed(t)' = Elapsed(t) - interval[t]]_allVars
  BY <1>1
<1>. QED
  BY <1>2, ServesHolds, PTL DEF RestSpec, PeriodsFollow

-----------------------------------------------------------------------------
(***************************************************************************)
(* The event queue and polls under timers and the REST manager.            *)
(***************************************************************************)

\* An event that is posted goes to the end of the queue, if there is room.
LEMMA PostMoves ==
  ASSUME QueueTypeOK, NEW p \in Process \cup {NULL}, NEW ev \in Event, process_post(p, ev)
  PROVE  Len(Waiting) < NumEvents /\ \E e \in Slot : Waiting' = Append(Waiting, e)
<1>1. [p |-> p, ev |-> ev] \in Slot
  BY DEF Slot, PROCESS_BROADCAST
<1>2. Len(Waiting) < NumEvents
  BY WaitingType DEF process_post
<1>. QED
  BY <1>1, <1>2, PostAppends

\* Timers, the clock and the REST manager leave the event queue what it is: events of
\* expired timers and of PROCESS_PAUSE(), which do not go through process_post() of a
\* thread, are appended too, and none is written over.
THEOREM RestQueueRefines == RestSpec => Queue!Spec
<1>1. RestInit => Queue!Init
  <2>1. RestInit => QueueTypeOK /\ nevents = 0
    BY KernelInvInit DEF KernelInv, RestInit, Init
  <2>2. Waiting = [i \in 1..nevents |-> events[(fevent + i - 1) % NumEvents]]
    BY DEF Waiting
  <2>3. QueueTypeOK /\ nevents = 0 => Waiting = << >>
    BY WaitingType
  <2>. QED
    BY <2>1, <2>2, <2>3 DEF Queue!Init
<1>2. RestInv /\ [RestNext]_allVars =>
        [Queue!Next]_([i \in 1..nevents |-> events[(fevent + i - 1) % NumEvents]])
  <2>. SUFFICES ASSUME RestInv, [RestNext]_allVars
                PROVE  [Queue!Next]_Waiting
    BY DEF Waiting
  <2>1. QueueTypeOK
    BY DEF RestInv, KernelInv
  <2>2. CASE [Next]_vars
    <3>1. \/ UNCHANGED Waiting
          \/ Len(Waiting) < NumEvents /\ \E e \in Slot : Waiting' = Append(Waiting, e)
          \/ Waiting # << >> /\ Waiting' = Tail(Waiting)
      BY <2>1, <2>2, QueueMoves
    <3>. QED
      BY <3>1 DEF Queue!Next, Queue!Post, Queue!Take, Waiting
  <2>3. CASE Pause \/ Aside
    <3>1. \/ UNCHANGED queueVars
          \/ \E q \in Process \cup {NULL}, ev \in Event : process_post(q, ev)
      <4>1. rest_manager_process \in Process \cup {NULL} /\ {"TIMER", "CONTINUE"} \subseteq Event
        BY RestManagerAssumption DEF Event
      <4>. QED
        BY <2>3, <4>1 DEF Pause, Aside, process_post, queueVars
    <3>2. \/ UNCHANGED Waiting
          \/ Len(Waiting) < NumEvents /\ \E e \in Slot : Waiting' = Append(Waiting, e)
      BY <2>1, <3>1, PostMoves DEF queueVars, Waiting
    <3>. QED
      BY <3>2 DEF Queue!Next, Queue!Post, Waiting
  <2>. QED
    BY <2>2, <2>3, StepKinds
<1>. QED
  BY <1>1, <1>2, RestInvHolds, PTL DEF RestSpec, Queue!Spec

LEMMA RestPollStaysDue ==
  ASSUME RestInv, SoundInv, [RestNext]_allVars, NEW p \in Process, PollDue(p), vars' # vars
  PROVE  StillDue(p)
<1>1. CallsInv /\ ShapeInv /\ PollTypeOK /\ QueueTypeOK
  BY DEF SoundInv, KernelInv
<1>2. CASE Next
  BY <1>1, <1>2, PollStaysDue
<1>3. CASE Pause
  <2>1. /\ stack # << >> /\ Top.op # "poll" /\ stack' = Callers
        /\ UNCHANGED listVars /\ UNCHANGED poll_requested
    BY <1>3 DEF Pause, Handles, InThread, pollVars
  <2>2. PollAhead(p) => PollAhead(p)'
    BY <1>1, <2>1, PollsKeptBelow
  <2>. QED
    BY <1>1, <2>1, <2>2, DueKept
<1>4. CASE Aside
  <2>1. CASE poll_requested' = TRUE
    BY <2>1, DueMeansPrime DEF StillDue
  <2>2. CASE UNCHANGED pollVars
    <3>1. UNCHANGED listVars /\ UNCHANGED stack /\ UNCHANGED poll_requested
      BY <1>4, <2>2 DEF Aside, pollVars
    <3>2. PollAhead(p) => PollAhead(p)'
      BY <3>1, PollsKept
    <3>. QED
      BY <1>1, <3>1, <3>2, DueKept
  <2>. QED
    BY <1>4, <2>1, <2>2 DEF Aside
<1>. QED
  BY <1>2, <1>3, <1>4, StepKinds

\* No poll is lost here either: the etimer process, which the clock interrupt, every
\* add_timer() and its own loop poll, never misses a look at its list that they ask for.
THEOREM RestPollsCorrect ==
  ASSUME ~MayExitBusy, "INIT" \notin Posted
  PROVE  RestSpec => NoPollLost
<1>1. RestInit => SoundInv
  BY SoundInvInit DEF RestInit
<1>2. RestInv /\ SoundInv /\ [RestNext]_allVars => SoundInv'
  BY RestSoundNext
<1>3. RestInv /\ SoundInv /\ [RestNext]_allVars =>
        [\A p \in Process : PollDue(p) => PollDue(p)' \/ ~needspoll'[p] \/ state'[p] = "NONE"]_vars
  BY RestPollStaysDue DEF StillDue
<1>. QED
  BY <1>1, <1>2, <1>3, RestInvHolds, PTL DEF RestSpec, NoPollLost
=============================================================================
