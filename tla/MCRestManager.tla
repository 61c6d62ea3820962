---------------------------- MODULE MCRestManager ---------------------------
(***************************************************************************)
(* The REST manager with two resources, whose timers expire together, and  *)
(* another process with a timer of its own.                                *)
(***************************************************************************)
EXTENDS RestManager

CONSTANTS t1, t2, t3

TwoResources == << t1, t2 >>
EveryTick == [t \in {t1, t2} |-> 1]
=============================================================================
