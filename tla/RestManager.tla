----------------------------- MODULE RestManager ----------------------------
(***************************************************************************)
(* The REST manager of the node (apps/erbium, rest_manager_process), which *)
(* runs the handlers of periodic resources, together with the kernel, its  *)
(* event timers and other processes, which have timers of their own.       *)
(***************************************************************************)
EXTENDS Etimer

CONSTANTS
  rest_manager_process,
  restful_periodic_services,    \* the list of periodic resources' timers
  period                        \* of each of them

Periodic == {restful_periodic_services[i] : i \in 1..Len(restful_periodic_services)}
Apps == Process \ {etimer_process, rest_manager_process}

ASSUME RestManagerAssumption ==
  /\ rest_manager_process \in Process \ {etimer_process}
  /\ restful_periodic_services \in Seq(Timers)
  /\ period \in [Periodic -> 1..MaxInterval]

VARIABLES
  pausing,           \* rest_manager_process is in PROCESS_PAUSE()
  visit              \* how many resources its loop has passed

restVars == <<pausing, visit>>
allVars == <<vars, etimerVars, restVars>>

RestInit == Init /\ EtimerInit /\ pausing = TRUE /\ visit = 0

Resources == Len(restful_periodic_services)
Resource == restful_periodic_services[visit + 1]

-----------------------------------------------------------------------------
(***************************************************************************)
(* The thread of rest_manager_process.                                     *)
(***************************************************************************)

\* PROCESS_PAUSE() posts an event to the process itself.
Pause ==
  /\ Handles(rest_manager_process, "INIT")
  /\ \/ /\ events' = [events EXCEPT ![snum] = [p |-> rest_manager_process,
                                               ev |-> "CONTINUE"]]
        /\ nevents < NumEvents
        /\ nevents' = nevents + 1
     \/ nevents = NumEvents /\ UNCHANGED <<events, nevents>>
  /\ state' = [state EXCEPT ![rest_manager_process] = "RUNNING"]
  /\ stack' = Callers
  /\ Restore(Top.back)
  /\ UNCHANGED <<listVars, pollVars, fevent, starts, etimerVars, restVars>>

\* It arrives: the timer of the next resource is set.
SetPeriodic ==
  /\ Handles(rest_manager_process, "CONTINUE")
  /\ pausing
  /\ visit < Resources
  /\ etimer_set(Resource, period[Resource])
  /\ visit' = visit + 1
  /\ UNCHANGED <<listVars, state, process_current, queueVars, stack, starts,
                 clock, scan, pausing>>

Paused ==
  /\ Handles(rest_manager_process, "CONTINUE")
  /\ pausing
  /\ visit = Resources
  /\ pausing' = FALSE
  /\ visit' = 0
  /\ Yield(rest_manager_process)
  /\ UNCHANGED etimerVars

\* Whichever timer the event came from, the handler of every resource whose timer
\* has expired runs, and its timer is reset.
ServePeriodic ==
  /\ Handles(rest_manager_process, "TIMER")
  /\ ~pausing
  /\ visit < Resources
  /\ visit' = visit + 1
  /\ IF etimer_expired(Resource) THEN etimer_reset(Resource)
                                 ELSE UNCHANGED <<timerVars, pollVars>>
  /\ UNCHANGED <<listVars, state, process_current, queueVars, stack, starts,
                 clock, scan, pausing>>

Served ==
  /\ Handles(rest_manager_process, "TIMER")
  /\ pausing \/ visit = Resources
  /\ visit' = 0
  /\ Yield(rest_manager_process)
  /\ UNCHANGED <<etimerVars, pausing>>

OtherEvent ==
  /\ InThread(rest_manager_process)
  /\ Top.ev \notin {"INIT", "CONTINUE", "TIMER"} \/ (Top.ev = "CONTINUE" /\ ~pausing)
  /\ Yield(rest_manager_process)
  /\ UNCHANGED <<etimerVars, restVars>>

RestThread ==
  Pause \/ SetPeriodic \/ Paused \/ ServePeriodic \/ Served \/ OtherEvent

-----------------------------------------------------------------------------
(***************************************************************************)
(* The other processes, and the whole.                                     *)
(***************************************************************************)

\* Any kernel operation; nobody exits the two services.
AppKernel(p) ==
  /\ Thread(p)
  /\ state'[etimer_process] = "NONE" => state[etimer_process] = "NONE"
  /\ state'[rest_manager_process] = "NONE" => state[rest_manager_process] = "NONE"
  /\ UNCHANGED <<etimerVars, restVars>>

\* An app may begin with PROCESS_PAUSE() too.
AppPauses(p) ==
  /\ Handles(p, "INIT")
  /\ Post(p, "CONTINUE")
  /\ UNCHANGED <<etimerVars, restVars>>

\* Any operation on a timer of its own, but not from the handler of its exit.
AppTimer(p) ==
  /\ InThread(p) /\ Top.op = "thread"
  /\ state[etimer_process] = "RUNNING"
  /\ \E t \in Timers \ Periodic :
       \/ \E i \in 1..MaxInterval : etimer_set(t, i)
       \/ interval[t] > 0 /\ etimer_restart(t)
       \/ etimer_stop(t)
  /\ UNCHANGED <<listVars, state, process_current, queueVars, stack, starts,
                 clock, scan, restVars>>

\* contiki-main.c starts the etimer process before the others.
Boot(p) ==
  /\ p = etimer_process \/ state[etimer_process] # "NONE"
  /\ MainStarts(p)
  /\ UNCHANGED <<etimerVars, restVars>>

Booted ==
  /\ state[etimer_process] # "NONE"
  /\ MainLoop
  /\ UNCHANGED <<etimerVars, restVars>>

RestKernel == Kernel /\ UNCHANGED <<etimerVars, restVars>>

\* A timer that is armed is awaited, and so is one the REST manager has to reset.
ClockTicks ==
  /\ Tick({t \in Timers : Armed(t) \/ (t \in Periodic /\ ~pausing)})
  /\ UNCHANGED restVars

EtimerRuns == EtimerThread /\ UNCHANGED restVars

RestNext ==
  \/ \E p \in Process : Boot(p)
  \/ Booted \/ RestKernel \/ ClockTicks \/ EtimerRuns \/ RestThread
  \/ \E p \in Apps : AppKernel(p) \/ AppPauses(p) \/ AppTimer(p)

RestSpec == RestInit /\ [][RestNext]_allVars

AppReturns(p) == Return(p) /\ UNCHANGED <<etimerVars, restVars>>

\* The clock runs, and so do the services; other threads return, however long
\* they take.
RestFairness ==
  /\ WF_allVars(ClockTicks) /\ WF_allVars(EtimerRuns)
  /\ WF_allVars(RestThread) /\ WF_allVars(RestKernel)
  /\ SF_allVars(Booted)
  /\ \A p \in Apps : SF_allVars(AppReturns(p))

RestFairSpec == RestSpec /\ RestFairness

-----------------------------------------------------------------------------
(***************************************************************************)
(* Properties.                                                             *)
(***************************************************************************)

RestTypeOK ==
  /\ TypeOK /\ EtimerTypeOK
  /\ pausing \in BOOLEAN
  /\ visit \in 0..Resources

\* Two timers that expire together are served by the first of their events, and
\* the second finds nothing to do: each resource whose timer has expired runs
\* again all the same, for ever.
PeriodicServed ==
  \A t \in Periodic : ~pausing /\ etimer_expired(t) ~> Armed(t)

\* An event of a timer is queued for the REST manager, or its loop has yet to come
\* to the resource.
EventComes ==
  \E i \in 0..(nevents - 1) :
    events[(fevent + i) % NumEvents] = [p |-> rest_manager_process, ev |-> "TIMER"]
LoopComesTo(t) ==
  /\ Handles(rest_manager_process, "TIMER")
  /\ \E i \in (visit + 1)..Resources : restful_periodic_services[i] = t

\* A periodic resource is never forgotten and never runs early: its timer is armed,
\* or has run out (also when the clock wraps in between) and what will run the
\* resource is on its way.
ResourcesAwaited ==
  ~pausing => \A t \in Periodic :
    \/ Armed(t)
    \/ etimer_expired(t) /\ timer_expired(t) /\ (EventComes \/ LoopComesTo(t))

\* Periods follow each other: however late a resource runs, its next period begins
\* where the last one ended.
PeriodsFollow ==
  [][\A t \in Periodic : ~pausing /\ start'[t] # start[t] =>
       Elapsed(t)' = Elapsed(t) - interval[t]]_allVars
=============================================================================
