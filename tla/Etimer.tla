------------------------------- MODULE Etimer -------------------------------
(***************************************************************************)
(* Event timers (core/sys/etimer.c, timer.c) over the process kernel: the  *)
(* list of armed timers, the etimer process that posts an event for each   *)
(* one that has expired, and the clock interrupt that has it polled.       *)
(*                                                                         *)
(* This module has the functions and the thread of the etimer process;     *)
(* RestManager composes them with processes that use timers.               *)
(***************************************************************************)
EXTENDS ContikiProcess, SequencesExt

CONSTANTS
  Timers,            \* struct etimer
  etimer_process,
  ClockWrap,         \* clock_time_t holds the numbers below it
  MaxInterval        \* bound: intervals that timers are set to

ASSUME EtimerAssumption ==
  /\ etimer_process \in Process
  /\ ClockWrap \in Nat /\ MaxInterval \in 1..(ClockWrap - 2)

VARIABLES
  clock,
  timerlist,         \* armed timers, the latest first
  start, interval,   \* of each timer
  owner,             \* t->p: who gets the event, NULL once the timer has expired
  scan               \* how many timers the etimer process has passed

timerVars == <<timerlist, start, interval, owner>>
etimerVars == <<clock, timerVars, scan>>

Clock == 0..(ClockWrap - 1)
Armed(t) == \E i \in 1..Len(timerlist) : timerlist[i] = t

EtimerInit ==
  /\ clock = 0
  /\ timerlist = << >>
  /\ start = [t \in Timers |-> 0]
  /\ interval = [t \in Timers |-> 0]
  /\ owner = [t \in Timers |-> NULL]
  /\ scan = 0

\* A list without the timers of S.
Without(list, S) ==
  LET kept[i \in 0..Len(list)] ==
        IF i = 0 THEN << >>
        ELSE IF list[i] \in S THEN kept[i - 1] ELSE Append(kept[i - 1], list[i])
  IN  kept[Len(list)]

\* The timers of a process.
OwnedBy(p) == {t \in Timers : owner[t] = p}

\* Ticks since the timer was started.
Elapsed(t) == (clock - start[t]) % ClockWrap

\* timer_expired()
timer_expired(t) == interval[t] < (Elapsed(t) + 1) % ClockWrap

\* etimer_expired()
etimer_expired(t) == owner[t] = NULL

\* Mutant: the list is not searched for the timer.
LinkAlways(t) ==
  /\ timerlist' = << t >> \o timerlist
  /\ owner' = [owner EXCEPT ![t] = process_current]
  /\ needspoll' = [needspoll EXCEPT ![etimer_process] = TRUE]
  /\ poll_requested' = TRUE

\* add_timer(): the caller owns the timer, and the etimer process has a look.
add_timer(t) ==
  /\ timerlist' = IF owner[t] # NULL /\ Armed(t) THEN timerlist
                                                 ELSE << t >> \o timerlist
  /\ owner' = [owner EXCEPT ![t] = process_current]
  /\ needspoll' = [needspoll EXCEPT ![etimer_process] = TRUE]
  /\ poll_requested' = TRUE

etimer_set(t, i) ==
  /\ start' = [start EXCEPT ![t] = clock]
  /\ interval' = [interval EXCEPT ![t] = i]
  /\ add_timer(t)

\* Mutant: the sum is wider than clock_time_t.
ResetWide(t) ==
  /\ start' = [start EXCEPT ![t] = @ + interval[t]]
  /\ add_timer(t)
  /\ UNCHANGED interval

\* Mutant: the interval follows the event.
ResetFromNow(t) ==
  /\ start' = [start EXCEPT ![t] = clock]
  /\ add_timer(t)
  /\ UNCHANGED interval

\* etimer_reset(): the interval follows the one that has expired.
etimer_reset(t) ==
  /\ start' = [start EXCEPT ![t] = (@ + interval[t]) % ClockWrap]
  /\ add_timer(t)
  /\ UNCHANGED interval

etimer_restart(t) ==
  /\ start' = [start EXCEPT ![t] = clock]
  /\ add_timer(t)
  /\ UNCHANGED interval

etimer_stop(t) ==
  /\ timerlist' = Without(timerlist, {t})
  /\ owner' = [owner EXCEPT ![t] = NULL]
  /\ UNCHANGED <<start, interval, pollVars>>

\* Mutant: the interrupt only counts.
OnlyCount(awaited) ==
  /\ \A t \in awaited : Elapsed(t) < ClockWrap - 2
  /\ clock' = (clock + 1) % ClockWrap
  /\ UNCHANGED <<listVars, state, process_current, queueVars, stack, starts,
                 pollVars, timerVars, scan>>

\* The clock interrupt.  It has the etimer process polled whenever a timer is
\* armed.  That no timer of awaited is overdue by a lap of the clock is an
\* assumption on how long threads run.
Tick(awaited) ==
  /\ \A t \in awaited : Elapsed(t) < ClockWrap - 2
  /\ clock' = (clock + 1) % ClockWrap
  /\ IF timerlist # << >> /\ state[etimer_process] # "NONE"
     THEN /\ needspoll' = [needspoll EXCEPT ![etimer_process] = TRUE]
          /\ poll_requested' = TRUE
     ELSE UNCHANGED pollVars
  /\ UNCHANGED <<listVars, state, process_current, queueVars, stack, starts,
                 timerVars, scan>>

-----------------------------------------------------------------------------
(***************************************************************************)
(* The thread of the etimer process.                                       *)
(***************************************************************************)

Handles(p, ev) == InThread(p) /\ Top.op = "thread" /\ Top.ev = ev

EtimerStarts ==
  /\ Handles(etimer_process, "INIT")
  /\ timerlist' = << >>
  /\ Yield(etimer_process)
  /\ UNCHANGED <<clock, start, interval, owner, scan>>

\* Mutant: the head of the list is not looked at.
DropBehindHead ==
  /\ InThread(etimer_process) /\ Top.op = "thread" /\ Top.ev \notin {"INIT", "POLL"}
  /\ timerlist' = IF timerlist = << >> \/ Top.ev # "EXITED" THEN timerlist
                  ELSE << Head(timerlist) >> \o Without(Tail(timerlist), OwnedBy(Top.data))
  /\ Yield(etimer_process)
  /\ UNCHANGED <<clock, start, interval, owner, scan>>

\* The timers of a process that has exited are no longer armed; the remaining
\* events mean nothing.
DropTimers ==
  /\ InThread(etimer_process) /\ Top.op = "thread" /\ Top.ev \notin {"INIT", "POLL"}
  /\ timerlist' = IF Top.ev = "EXITED" THEN Without(timerlist, OwnedBy(Top.data))
                                      ELSE timerlist
  /\ Yield(etimer_process)
  /\ UNCHANGED <<clock, start, interval, owner, scan>>

\* Mutant: a timer leaves the list whether or not its event was posted.
ExpireAnyway ==
  /\ Handles(etimer_process, "POLL")
  /\ scan < Len(timerlist)
  /\ LET t == timerlist[scan + 1]
     IN  IF ~timer_expired(t)
         THEN scan' = scan + 1 /\ UNCHANGED <<queueVars, pollVars, timerVars>>
         ELSE /\ scan' = 0
              /\ \/ process_post(owner[t], "TIMER")
                 \/ nevents = NumEvents /\ UNCHANGED queueVars
              /\ owner' = [owner EXCEPT ![t] = NULL]
              /\ timerlist' = RemoveAt(timerlist, scan + 1)
              /\ UNCHANGED <<pollVars, start, interval>>
  /\ UNCHANGED <<listVars, state, process_current, stack, starts, clock>>

\* On a poll, the loop comes to a timer.  If it has expired, its event is posted
\* and the loop begins again; if the queue is full, another poll is due.
ExpireTimer ==
  /\ Handles(etimer_process, "POLL")
  /\ scan < Len(timerlist)
  /\ LET t == timerlist[scan + 1]
     IN  \/ /\ ~timer_expired(t)
            /\ scan' = scan + 1
            /\ UNCHANGED <<queueVars, pollVars, timerVars>>
         \/ /\ timer_expired(t)
            /\ process_post(owner[t], "TIMER")
            /\ owner' = [owner EXCEPT ![t] = NULL]
            /\ timerlist' = RemoveAt(timerlist, scan + 1)
            /\ scan' = 0
            /\ UNCHANGED <<pollVars, start, interval>>
         \/ /\ timer_expired(t)
            /\ nevents = NumEvents
            /\ needspoll' = [needspoll EXCEPT ![etimer_process] = TRUE]
            /\ poll_requested' = TRUE
            /\ scan' = scan + 1
            /\ UNCHANGED <<queueVars, timerVars>>
  /\ UNCHANGED <<listVars, state, process_current, stack, starts, clock>>

ScanDone ==
  /\ Handles(etimer_process, "POLL")
  /\ scan = Len(timerlist)
  /\ scan' = 0
  /\ Yield(etimer_process)
  /\ UNCHANGED <<clock, timerVars>>

EtimerThread == EtimerStarts \/ DropTimers \/ ExpireTimer \/ ScanDone

-----------------------------------------------------------------------------

EtimerTypeOK ==
  /\ clock \in Clock
  /\ timerlist \in Seq(Timers)
  /\ start \in [Timers -> Clock]
  /\ interval \in [Timers -> 0..MaxInterval]
  /\ owner \in [Timers -> Process \cup {NULL}]
  /\ scan \in 0..Len(timerlist)

\* A timer is linked at most once, and one that says it has expired is not linked:
\* add_timer() would link it again and tie the list into a loop.
TimersListedOnce ==
  /\ \A i, j \in 1..Len(timerlist) : timerlist[i] = timerlist[j] => i = j
  /\ \A t \in Timers : Armed(t) => owner[t] # NULL

\* While no process is exiting, each armed timer belongs to a process that runs:
\* no event of a timer goes to a process that is gone, whenever it went.
TimersHaveOwners ==
  (\A p \in Process : ~Exiting(p)) =>
    \A t \in Timers : Armed(t) => state[owner[t]] # "NONE"

\* However full the queue, a timer that has expired posts its event, unless it is
\* stopped or set again first.
ExpiredIsPosted ==
  \A t \in Timers :
    Armed(t) /\ timer_expired(t) ~> ~Armed(t) \/ ~timer_expired(t)
=============================================================================
