--------------------------- MODULE ContikiProcess ---------------------------
(***************************************************************************)
(* The process kernel of Contiki (core/sys/process.c): the list of         *)
(* processes, the ring buffer of events, polls, and the calls of process   *)
(* threads, which nest: a thread may call another one through              *)
(* process_post_synch(), process_start() or process_exit().                *)
(*                                                                         *)
(* What a thread does is arbitrary: any sequence of kernel operations,     *)
(* each one action, until it yields or ends.  An interrupt may ask for a   *)
(* poll at any point.  The C stack is a sequence of frames, one for each   *)
(* thread and each loop of the kernel that is under way.                   *)
(***************************************************************************)
EXTENDS Integers, Sequences, FiniteSets

CONSTANTS
  Process,
  NULL,
  NumEvents,         \* PROCESS_CONF_NUMEVENTS
  CountWrap,         \* process_num_events_t holds the numbers below it
  Posted,            \* the events threads post
  MayExitBusy,       \* a thread calls process_exit() for a process that is being
                     \* called, like its own, or that is exiting
  MaxStarts          \* bound: how often processes are started

Event == {"INIT", "POLL", "EXIT", "EXITED", "CONTINUE", "TIMER"}

ASSUME ContikiProcessAssumption ==
  /\ IsFiniteSet(Process)
  /\ NULL \notin Process /\ "keep" \notin Process \cup {NULL}
  /\ NumEvents \in Nat \ {0}
  /\ CountWrap \in Nat /\ 2 * NumEvents <= CountWrap
  /\ Posted \subseteq Event
  /\ MayExitBusy \in BOOLEAN
  /\ MaxStarts \in Nat

VARIABLES
  process_list, next,               \* the list and its links
  state, needspoll,                 \* of each struct process
  poll_requested, process_current,
  events, fevent, nevents,          \* the ring buffer
  stack,                            \* frames, the innermost first
  starts                            \* counts what MaxStarts bounds

listVars  == <<process_list, next>>
pollVars  == <<needspoll, poll_requested>>
queueVars == <<events, fevent, nevents>>
vars == <<listVars, state, process_current, pollVars, queueVars, stack, starts>>

PROCESS_BROADCAST == NULL

\* A place in the ring buffer.
Slot == [p : Process \cup {PROCESS_BROADCAST}, ev : Event \cup {"NONE"}]

\* main() before its loop; process_run() between do_poll() and do_event(); the
\* loops of do_poll() and do_event() that walk the list, "deliver" when a broadcast
\* has polled and is about to call at; a thread that call_process() called;
\* the loop of exit_process(), whose ev is EXIT if the process is to be told; the
\* thread it tells, and the rest of exit_process() after that.  at is the process a loop has come to, ev and data
\* what is delivered, back the process_current to restore, if the caller does.
Frame == [op : {"main", "event", "poll", "broadcast", "deliver",
                "thread", "exit", "told", "unlink"},
          p : Process \cup {NULL}, at : Process \cup {NULL},
          ev : Event \cup {"NONE"}, data : Process \cup {NULL},
          back : Process \cup {NULL, "keep"}]

LoopFrame(op, ev) ==
  [op |-> op, p |-> NULL, at |-> NULL, ev |-> ev, data |-> NULL, back |-> "keep"]
ThreadFrame(op, p, ev, data, back) ==
  [op |-> op, p |-> p, at |-> NULL, ev |-> ev, data |-> data, back |-> back]
ExitFrame(p, ev, back) ==
  [op |-> "exit", p |-> p, at |-> NULL, ev |-> ev, data |-> NULL, back |-> back]

Top    == Head(stack)
Callers == Tail(stack)
InLoop(op) == stack # << >> /\ Top.op = op
InThread(p) == stack # << >> /\ Top.op \in {"thread", "told"} /\ Top.p = p

\* A thread of p is under way, or p is exiting.
Busy(p) == \E i \in 1..Len(stack) : stack[i].p = p

\* An exit_process() of p is under way.
Exiting(p) ==
  \E i \in 1..Len(stack) : stack[i].op \in {"exit", "unlink"} /\ stack[i].p = p

\* The list from its head on, followed as far as it can be long.
Walk ==
  LET walk[i \in 1..(Cardinality(Process) + 1)] ==
        IF i = 1 THEN process_list
        ELSE IF walk[i - 1] = NULL THEN NULL ELSE next[walk[i - 1]]
  IN  walk
OnList(p) == \E i \in DOMAIN Walk : Walk[i] = p

\* The element after the one a loop has come to.
After(at) == IF at = NULL THEN process_list ELSE next[at]

Init ==
  /\ process_list = NULL
  /\ next = [p \in Process |-> NULL]
  /\ state = [p \in Process |-> "NONE"]
  /\ needspoll = [p \in Process |-> FALSE]
  /\ poll_requested = FALSE
  /\ process_current = NULL
  /\ events = [i \in 0..(NumEvents - 1) |-> [p |-> NULL, ev |-> "NONE"]]
  /\ fevent = 0
  /\ nevents = 0
  /\ stack = << LoopFrame("main", "NONE") >>
  /\ starts = 0

-----------------------------------------------------------------------------
(***************************************************************************)
(* The kernel's own functions.                                             *)
(***************************************************************************)

\* Mutant: a process that is being called is called again.
CallAlways(st, p, ev, data, back, rest) ==
  IF st[p] # "NONE"
  THEN /\ state' = [st EXCEPT ![p] = "CALLED"]
       /\ process_current' = p
       /\ stack' = << ThreadFrame("thread", p, ev, data, back) >> \o rest
  ELSE /\ state' = st
       /\ stack' = rest
       /\ UNCHANGED process_current

\* call_process(p, ev, data) with the processes in states st; rest is the stack
\* below the call.  Only a process that is RUNNING is called, so one that is
\* CALLED already misses the event.
call_process(st, p, ev, data, back, rest) ==
  IF st[p] = "RUNNING"
  THEN /\ state' = [st EXCEPT ![p] = "CALLED"]
       /\ process_current' = p
       /\ stack' = << ThreadFrame("thread", p, ev, data, back) >> \o rest
  ELSE /\ state' = st
       /\ stack' = rest
       /\ UNCHANGED process_current

\* Mutant: only the head of the list can leave it.
UnlinkHead(p) ==
  /\ process_list' = IF process_list = p THEN next[p] ELSE process_list
  /\ UNCHANGED next

\* The end of exit_process(): p leaves the list, its own link stays.
Unlink(p) ==
  IF process_list = p
  THEN process_list' = next[p] /\ UNCHANGED next
  ELSE /\ next' = [q \in Process |->
                     IF OnList(q) /\ next[q] = p THEN next[p] ELSE next[q]]
       /\ UNCHANGED process_list

\* Mutant: nobody puts process_current back.
Abandon(back) == UNCHANGED process_current

Restore(back) ==
  IF back = "keep" THEN UNCHANGED process_current ELSE process_current' = back

\* exit_process(p, fromprocess), up to its loop over the other processes.  ev is
\* "EXIT" if p is not fromprocess, so p is still to be told.
exit_process(p, ev, back, rest) ==
  \/ /\ ~OnList(p)
     /\ stack' = rest
     /\ Restore(back)
     /\ UNCHANGED <<listVars, state>>
  \/ /\ OnList(p)
     /\ state[p] # "NONE"
     /\ state' = [state EXCEPT ![p] = "NONE"]
     /\ stack' = << ExitFrame(p, ev, IF back = "keep" THEN process_current
                                     ELSE back) >> \o rest
     /\ UNCHANGED <<listVars, process_current>>
  \/ /\ OnList(p)
     /\ state[p] = "NONE"
     /\ Unlink(p)
     /\ stack' = rest
     /\ Restore(back)
     /\ UNCHANGED state

\* exit_process() informs the next process.
InformExited ==
  LET at == After(Top.at)
      here == << [Top EXCEPT !.at = at] >> \o Callers
  IN  /\ InLoop("exit")
      /\ at # NULL
      /\ IF at = Top.p
         THEN stack' = here /\ UNCHANGED <<state, process_current>>
         ELSE call_process(state, at, "EXITED", Top.p, "keep", here)
      /\ UNCHANGED <<listVars, pollVars, queueVars, starts>>

\* All are informed: p is told if it does not know, and leaves the list.
FinishExit ==
  /\ \/ /\ InLoop("exit") /\ After(Top.at) = NULL
        /\ Top.ev = "EXIT"
        /\ process_current' = Top.p
        /\ stack' = << ThreadFrame("told", Top.p, "EXIT", NULL, "keep"),
                       [Top EXCEPT !.op = "unlink"] >> \o Callers
        /\ UNCHANGED listVars
     \/ /\ \/ InLoop("exit") /\ After(Top.at) = NULL /\ Top.ev = "NONE"
           \/ InLoop("unlink")
        /\ Unlink(Top.p)
        /\ process_current' = Top.back
        /\ stack' = Callers
  /\ UNCHANGED <<state, pollVars, queueVars, starts>>

\* process_poll(), also from an interrupt.
process_poll(p) ==
  /\ state[p] \in {"RUNNING", "CALLED"}
  /\ needspoll' = [needspoll EXCEPT ![p] = TRUE]
  /\ poll_requested' = TRUE
  /\ UNCHANGED <<listVars, state, process_current, queueVars, stack, starts>>

\* Mutant: the request is forgotten when the walk is over.
PollThenForget ==
  LET at == After(Top.at)
      here == << [Top EXCEPT !.at = at] >> \o Callers
  IN  /\ InLoop("poll")
      /\ \/ /\ at = NULL
            /\ stack' = Callers
            /\ poll_requested' = FALSE
            /\ UNCHANGED <<state, process_current, needspoll>>
         \/ /\ at # NULL /\ ~needspoll[at]
            /\ stack' = here
            /\ UNCHANGED <<state, process_current, pollVars>>
         \/ /\ at # NULL /\ needspoll[at]
            /\ needspoll' = [needspoll EXCEPT ![at] = FALSE]
            /\ call_process([state EXCEPT ![at] = "RUNNING"], at, "POLL", NULL,
                            "keep", here)
            /\ UNCHANGED poll_requested
      /\ UNCHANGED <<listVars, queueVars, starts>>

\* do_poll() comes to the next process.
Poll ==
  LET at == After(Top.at)
      here == << [Top EXCEPT !.at = at] >> \o Callers
  IN  /\ InLoop("poll")
      /\ \/ /\ at = NULL
            /\ stack' = Callers
            /\ UNCHANGED <<state, process_current, needspoll>>
         \/ /\ at # NULL /\ ~needspoll[at]
            /\ stack' = here
            /\ UNCHANGED <<state, process_current, needspoll>>
         \/ /\ at # NULL /\ needspoll[at]
            /\ needspoll' = [needspoll EXCEPT ![at] = FALSE]
            /\ call_process([state EXCEPT ![at] = "RUNNING"], at, "POLL", NULL,
                            "keep", here)
      /\ UNCHANGED <<listVars, poll_requested, queueVars, starts>>

-----------------------------------------------------------------------------
(***************************************************************************)
(* The ring buffer and the main loop.                                      *)
(***************************************************************************)

\* Mutant: the slot after the last event is taken without the wrap.
LastSlot == IF fevent + nevents < NumEvents THEN fevent + nevents ELSE NumEvents - 1

\* Where process_post() puts an event.
snum == ((fevent + nevents) % CountWrap) % NumEvents

\* process_post(), which returns PROCESS_ERR_FULL and does nothing otherwise.
process_post(p, ev) ==
  /\ nevents < NumEvents
  /\ events' = [events EXCEPT ![snum] = [p |-> p, ev |-> ev]]
  /\ nevents' = nevents + 1
  /\ UNCHANGED fevent

\* Mutant: fevent does not wrap.
TakeOnward ==
  /\ nevents > 0
  /\ fevent' = fevent + 1
  /\ nevents' = nevents - 1
  /\ UNCHANGED events

\* The first part of do_event().
TakeEvent ==
  /\ nevents > 0
  /\ fevent' = (fevent + 1) % NumEvents
  /\ nevents' = nevents - 1
  /\ UNCHANGED events

\* process_run(): the polls first.
RunPolls ==
  /\ stack = << >>
  /\ poll_requested
  /\ poll_requested' = FALSE
  /\ stack' = << LoopFrame("poll", "NONE"), LoopFrame("event", "NONE") >>
  /\ UNCHANGED <<listVars, state, process_current, needspoll, queueVars,
                 starts>>

\* do_event(), called by process_run() when the polls are done.
do_event ==
  /\ \/ stack = << >> /\ ~poll_requested
     \/ InLoop("event")
  /\ TakeEvent
  /\ LET e == events[fevent]
     IN  IF e.p = PROCESS_BROADCAST
         THEN /\ stack' = << LoopFrame("broadcast", e.ev) >>
              /\ UNCHANGED <<state, process_current>>
         ELSE call_process(IF e.ev = "INIT" THEN [state EXCEPT ![e.p] = "RUNNING"]
                                            ELSE state,
                           e.p, e.ev, NULL, "keep", << >>)
  /\ UNCHANGED <<listVars, pollVars, starts>>

Idle ==
  /\ InLoop("event")
  /\ nevents = 0
  /\ stack' = << >>
  /\ UNCHANGED <<listVars, state, process_current, pollVars, queueVars, starts>>

\* do_event() comes to the next receiver of a broadcast; polls come first.
Broadcast ==
  LET at == After(Top.at)
      here(op) == << [Top EXCEPT !.at = at, !.op = op] >>
  IN  /\ InLoop("broadcast")
      /\ \/ /\ at = NULL
            /\ stack' = << >>
            /\ UNCHANGED <<state, process_current, poll_requested>>
         \/ /\ at # NULL /\ poll_requested
            /\ poll_requested' = FALSE
            /\ stack' = << LoopFrame("poll", "NONE") >> \o here("deliver")
            /\ UNCHANGED <<state, process_current>>
         \/ /\ at # NULL /\ ~poll_requested
            /\ call_process(state, at, Top.ev, NULL, "keep", here("broadcast"))
            /\ UNCHANGED poll_requested
      /\ UNCHANGED <<listVars, needspoll, queueVars, starts>>

\* ... and the polls are done.
Deliver ==
  /\ InLoop("deliver")
  /\ call_process(state, Top.at, Top.ev, NULL, "keep",
                  << [Top EXCEPT !.op = "broadcast"] >>)
  /\ UNCHANGED <<listVars, pollVars, queueVars, starts>>

-----------------------------------------------------------------------------
(***************************************************************************)
(* What threads, and main() before its loop, call.                         *)
(***************************************************************************)

\* process_start(p), with the synchronous PROCESS_EVENT_INIT.
process_start(p) ==
  /\ ~OnList(p)
  /\ starts < MaxStarts
  /\ starts' = starts + 1
  /\ next' = [next EXCEPT ![p] = process_list]
  /\ process_list' = p
  /\ call_process([state EXCEPT ![p] = "RUNNING"], p, "INIT", NULL,
                  process_current, stack)
  /\ UNCHANGED <<pollVars, queueVars>>

process_post_synch(p, ev) ==
  /\ state[p] = "RUNNING"
  /\ call_process(state, p, ev, NULL, process_current, stack)
  /\ UNCHANGED <<listVars, pollVars, queueVars, starts>>

process_exit(p) ==
  /\ exit_process(p, IF p = process_current THEN "NONE" ELSE "EXIT",
                  "keep", stack)
  /\ UNCHANGED <<pollVars, queueVars, starts>>

\* The thread of p yields.
Yield(p) ==
  /\ \/ /\ Top.op = "thread" /\ Top.ev # "EXIT"
        /\ state' = [state EXCEPT ![p] = "RUNNING"]
     \/ Top.op = "told" /\ UNCHANGED state
  /\ stack' = Callers
  /\ Restore(Top.back)
  /\ UNCHANGED <<listVars, pollVars, queueVars, starts>>

\* The thread of p ends, or has handled a PROCESS_EVENT_EXIT.
End(p) ==
  /\ Top.op = "thread"
  /\ exit_process(p, "NONE", Top.back, Callers)
  /\ UNCHANGED <<pollVars, queueVars, starts>>

Post(p, ev) ==
  /\ process_post(p, ev)
  /\ UNCHANGED <<listVars, state, process_current, pollVars, stack, starts>>

\* The thread of p takes a step.  Which operations threads call is up to them,
\* but process_exit(), which does not check it, may leave a process that is being
\* called RUNNING off the list: they call it for one only if MayExitBusy.
Thread(p) ==
  /\ InThread(p)
  /\ \/ \E q \in Process \cup {PROCESS_BROADCAST}, ev \in Posted : Post(q, ev)
     \/ \E q \in Process :
          \/ \E ev \in Posted : process_post_synch(q, ev)
          \/ process_start(q)
          \/ (Busy(q) => MayExitBusy) /\ process_exit(q)
     \/ Yield(p)
     \/ End(p)

\* main() starts processes and enters its loop.
MainStarts(p) == InLoop("main") /\ process_start(p)

MainLoop ==
  /\ InLoop("main")
  /\ stack' = << >>
  /\ UNCHANGED <<listVars, state, process_current, pollVars, queueVars, starts>>

Kernel ==
  \/ InformExited \/ FinishExit
  \/ Poll \/ RunPolls \/ do_event \/ Idle \/ Broadcast \/ Deliver

Next ==
  \/ MainLoop \/ Kernel
  \/ \E p \in Process : MainStarts(p) \/ Thread(p) \/ process_poll(p)

Spec == Init /\ [][Next]_vars

Return(p) == InThread(p) /\ (Yield(p) \/ End(p))

\* The processor runs main() and the kernel, and a thread that may call others
\* for ever returns nevertheless.
Fairness ==
  /\ SF_vars(MainLoop) /\ WF_vars(Kernel)
  /\ \A p \in Process : SF_vars(Return(p))

FairSpec == Spec /\ Fairness

-----------------------------------------------------------------------------
(***************************************************************************)
(* Properties.                                                             *)
(***************************************************************************)

TypeOK ==
  /\ process_list \in Process \cup {NULL}
  /\ next \in [Process -> Process \cup {NULL}]
  /\ state \in [Process -> {"NONE", "RUNNING", "CALLED"}]
  /\ needspoll \in [Process -> BOOLEAN]
  /\ poll_requested \in BOOLEAN
  /\ process_current \in Process \cup {NULL}
  /\ events \in [0..(NumEvents - 1) -> Slot]
  /\ fevent \in 0..(NumEvents - 1)
  /\ nevents \in 0..NumEvents
  /\ stack \in Seq(Frame)
  /\ starts \in 0..MaxStarts

\* However calls, exits and restarts nest: the list ends and holds no process
\* twice; the processes on it are those that run and those that are exiting, so
\* what has exited is neither called nor polled.
ListIsSound ==
  /\ Walk[Cardinality(Process) + 1] = NULL
  /\ \A i, j \in DOMAIN Walk : Walk[i] = Walk[j] /\ Walk[i] # NULL => i = j
  /\ \A p \in Process :
       OnList(p) <=> state[p] # "NONE" \/ Exiting(p)

\* PROCESS_CURRENT() is the process whose thread runs, also after the calls it
\* made have returned: event timers belong to PROCESS_CURRENT().
CurrentRuns == \A p \in Process : InThread(p) => process_current = p

\* A protothread has one place to continue from: it is not entered while it runs.
NotReentered ==
  \A i, j \in 1..Len(stack) :
    /\ stack[i].op \in {"thread", "told"} /\ stack[j].op \in {"thread", "told"}
    /\ stack[i].p = stack[j].p
    => i = j

\* A poll that an interrupt asks for comes, whenever it was asked for and
\* whatever do_poll() was about to do, unless the process exits first.
PollsServed ==
  \A p \in Process :
    needspoll[p] /\ poll_requested ~> ~needspoll[p] \/ state[p] = "NONE"

\* The ring buffer is a bounded queue, and every event in it is taken.
Queue == INSTANCE EventQueue
           WITH queue <- [i \in 1..nevents |-> events[(fevent + i - 1) % NumEvents]]
QueueIsFifo == Queue!FairSpec

\* "Cause a process to exit.  The process can either be the currently executing
\* process, or another process": what has left the list does not run.
ExitIsFinal == \A p \in Process : state[p] = "RUNNING" => OnList(p)

\* The loop over the list, come to at, has p before it: whatever holds what follows at,
\* and what its elements lead to, holds p.
Ahead(at, p) ==
  \A S \in SUBSET (Process \cup {NULL}) :
    (After(at) \in S /\ \A q \in S \cap Process : q # p => next[q] \in S) => p \in S

\* A poll of p has been asked for and will come.
PollDue(p) ==
  /\ needspoll[p] /\ state[p] # "NONE"
  /\ \/ poll_requested
     \/ \E i \in 1..Len(stack) : stack[i].op = "poll" /\ Ahead(stack[i].at, p)

\* No poll is lost: neither do_poll(), which forgets the request before it walks the
\* list, nor what the threads it calls start, exit and poll loses one.
NoPollLost ==
  [][\A p \in Process :
       PollDue(p) => PollDue(p)' \/ ~needspoll'[p] \/ state'[p] = "NONE"]_vars
=============================================================================
