SPECIFICATION RestFairSpec
CONSTANTS
  t1 = t1
  t2 = t2
  t3 = t3
  etimer_process = etimer_process
  rest_manager_process = rest_manager_process
  Process = {etimer_process, rest_manager_process, app}
  NULL = NULL
  Timers = {t1, t2, t3}
  restful_periodic_services <- TwoResources
  period <- EveryTick
  NumEvents = 1
  CountWrap = 2
  Posted = {}
  MayExitBusy = FALSE
  MaxStarts = 3
  ClockWrap = 4
  MaxInterval = 1
CHECK_DEADLOCK FALSE
INVARIANTS
  RestTypeOK
  TimersListedOnce
  TimersHaveOwners
  ResourcesAwaited
PROPERTIES
  PeriodsFollow
  ExpiredIsPosted
  PeriodicServed
