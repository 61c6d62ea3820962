------------------------ MODULE ContikiProcess_proofs ------------------------
(***************************************************************************)
(* Theorems about the process kernel, for every number of processes and    *)
(* every size of the event queue.                                          *)
(*                                                                         *)
(* That PROCESS_CURRENT() is the thread that runs depends on what every    *)
(* frame below will restore: a frame above a thread restores that thread   *)
(* (Consistent).  That the ring buffer is a queue depends on the place of  *)
(* every event in it.                                                      *)
(***************************************************************************)
EXTENDS ContikiProcess, SequenceTheorems, TLAPS

\* A frame of a process thread.
InCall(f) == f.op \in {"thread", "told"}

FrameOK(f) ==
  /\ f \in Frame
  /\ InCall(f) => f.p \in Process
  /\ f.op \in {"exit", "unlink"} => f.p \in Process /\ f.back \in Process \cup {NULL}
  /\ ~InCall(f) /\ f.op \notin {"exit", "unlink"} => f.back = "keep"
  /\ f.op = "deliver" => f.at \in Process

\* The stack s with process_current = c.
Consistent(s, c) ==
  /\ s \in Seq(Frame)
  /\ \A i \in 1..Len(s) : FrameOK(s[i])
  /\ \A i \in 2..Len(s) : InCall(s[i]) => s[i - 1].back = s[i].p
  /\ s # << >> /\ InCall(s[1]) => c = s[1].p

\* What process_current is once a frame with this back has returned.
Restored(back) == IF back = "keep" THEN process_current ELSE back

ProcessTypeOK ==
  /\ process_list \in Process \cup {NULL}
  /\ next \in [Process -> Process \cup {NULL}]
  /\ state \in [Process -> {"NONE", "RUNNING", "CALLED"}]
  /\ process_current \in Process \cup {NULL}

PollTypeOK ==
  /\ needspoll \in [Process -> BOOLEAN]
  /\ poll_requested \in BOOLEAN

QueueTypeOK ==
  /\ events \in [0..(NumEvents - 1) -> Slot]
  /\ fevent \in 0..(NumEvents - 1)
  /\ nevents \in 0..NumEvents

CallsInv == ProcessTypeOK /\ Consistent(stack, process_current)

KernelInv == /\ CallsInv
             /\ PollTypeOK
             /\ QueueTypeOK
             /\ starts \in 0..MaxStarts

-----------------------------------------------------------------------------
(***************************************************************************)
(* The stack.                                                              *)
(***************************************************************************)

\* Two frames pushed one after the other.
LEMMA JoinSeq ==
  ASSUME NEW a \in Frame, NEW b \in Frame, NEW s \in Seq(Frame)
  PROVE  << a >> \o (<< b >> \o s) = << a, b >> \o s
<1> DEFINE t == << a >> \o (<< b >> \o s)
           u == << a, b >> \o s
<1>1. t \in Seq(Frame) /\ u \in Seq(Frame) /\ Len(t) = Len(s) + 2 /\ Len(u) = Len(s) + 2
  OBVIOUS
<1>2. ASSUME NEW i \in 1..Len(t)
      PROVE  t[i] = u[i]
  OBVIOUS
<1>. HIDE DEF t, u
<1>3. t = u
  BY <1>1, <1>2, SeqEqual
<1>. QED
  BY <1>3 DEF t, u

LEMMA OneFrame ==
  ASSUME NEW a
  PROVE  << a >> \o << >> = << a >>
BY ConcatEmptySeq

LEMMA TwoFrames ==
  ASSUME NEW a, NEW b
  PROVE  << a >> \o << b >> = << a, b >>
<1>1. << a >> \o << b >> \in Seq({a, b}) /\ << a, b >> \in Seq({a, b})
  OBVIOUS
<1>2. Len(<< a >> \o << b >>) = Len(<< a, b >>)
  OBVIOUS
<1>3. \A i \in 1..Len(<< a >> \o << b >>) : (<< a >> \o << b >>)[i] = << a, b >>[i]
  OBVIOUS
<1>. QED
  BY <1>1, <1>2, <1>3, SeqEqual

LEMMA Push ==
  ASSUME NEW s, NEW c, NEW c2, NEW f, Consistent(s, c), FrameOK(f),
         s # << >> /\ InCall(s[1]) => f.back = s[1].p,
         InCall(f) => c2 = f.p
  PROVE  Consistent(<< f >> \o s, c2)
<1> DEFINE t == << f >> \o s
<1>1. s \in Seq(Frame) /\ f \in Frame
  BY DEF Consistent, FrameOK
<1>2. /\ t \in Seq(Frame) /\ Len(t) = Len(s) + 1 /\ t[1] = f
      /\ \A i \in 2..Len(t) : t[i] = s[i - 1] /\ i - 1 \in 1..Len(s)
  BY <1>1
<1>. HIDE DEF t
<1>3. \A i \in 1..Len(t) : FrameOK(t[i])
  BY <1>1, <1>2 DEF Consistent
<1>4. ASSUME NEW i \in 2..Len(t), InCall(t[i])
      PROVE  t[i - 1].back = t[i].p
  <2>1. CASE i = 2
    BY <1>1, <1>2, <1>4, <2>1
  <2>2. CASE i > 2
    <3>1. i - 1 \in 2..Len(s) /\ i - 1 \in 2..Len(t)
      BY <1>1, <1>2, <2>2
    <3>2. t[i] = s[i - 1] /\ t[i - 1] = s[(i - 1) - 1]
      BY <1>2, <3>1
    <3>. QED
      BY <1>4, <3>1, <3>2 DEF Consistent
  <2>. QED
    BY <1>1, <1>2, <2>1, <2>2
<1>. QED
  BY <1>2, <1>3, <1>4 DEF Consistent, t

LEMMA Pop ==
  ASSUME NEW s, NEW c, Consistent(s, c), s # << >>,
         NEW c2, s[1].back # "keep" => c2 = s[1].back
  PROVE  Consistent(Tail(s), c2)
<1> DEFINE t == Tail(s)
<1>1. s \in Seq(Frame)
  BY DEF Consistent
<1>2. /\ t \in Seq(Frame) /\ Len(t) = Len(s) - 1 /\ Len(s) \in Nat
      /\ \A i \in 1..Len(t) : t[i] = s[i + 1] /\ i + 1 \in 2..Len(s)
  BY <1>1
<1>. HIDE DEF t
<1>3. \A i \in 1..Len(t) : FrameOK(t[i])
  BY <1>1, <1>2 DEF Consistent
<1>4. ASSUME NEW i \in 2..Len(t), InCall(t[i])
      PROVE  t[i - 1].back = t[i].p
  <2>1. i \in 1..Len(t) /\ i - 1 \in 1..Len(t) /\ (i - 1) + 1 = i /\ (i + 1) - 1 = i
    BY <1>2
  <2>2. t[i] = s[i + 1] /\ t[i - 1] = s[i] /\ i + 1 \in 2..Len(s)
    BY <1>2, <2>1
  <2>. QED
    BY <1>4, <2>1, <2>2 DEF Consistent
<1>5. ASSUME t # << >>, InCall(t[1])
      PROVE  c2 = t[1].p
  <2>1. 1 \in 1..Len(t) /\ t[1] = s[2] /\ 2 \in 2..Len(s)
    BY <1>2, <1>5
  <2>2. s[1].back = t[1].p /\ FrameOK(t[1])
    BY <1>3, <1>5, <2>1 DEF Consistent
  <2>. QED
    BY <1>5, <2>2, ContikiProcessAssumption DEF FrameOK
<1>. QED
  BY <1>2, <1>3, <1>4, <1>5 DEF Consistent, t

\* A frame that has moved on, or been taken for another, restores the same.
LEMMA Replace ==
  ASSUME NEW s, NEW c, NEW f, Consistent(s, c), s # << >>,
         FrameOK(f), f.back = s[1].back, ~InCall(f)
  PROVE  \A c2 : Consistent(<< f >> \o Tail(s), c2)
<1>1. Consistent(Tail(s), s[1].back)
  BY Pop
<1>2. Tail(s) # << >> /\ InCall(Tail(s)[1]) => f.back = Tail(s)[1].p
  BY <1>1 DEF Consistent
<1>. QED
  BY <1>1, <1>2, Push

LEMMA TopOfStack ==
  ASSUME CallsInv, stack # << >>
  PROVE  /\ FrameOK(Top)
         /\ Top = stack[1]
         /\ Callers = Tail(stack)
         /\ Callers \in Seq(Frame)
BY DEF CallsInv, Consistent, Top, Callers

LEMMA WalkType ==
  ASSUME ProcessTypeOK, NEW at \in Process \cup {NULL}
  PROVE  After(at) \in Process \cup {NULL}
BY DEF ProcessTypeOK, After

-----------------------------------------------------------------------------
(***************************************************************************)
(* Calls and exits.                                                        *)
(***************************************************************************)

LEMMA CallKeepsCalls ==
  ASSUME CallsInv,
         NEW st \in [Process -> {"NONE", "RUNNING", "CALLED"}], NEW p \in Process,
         NEW ev \in Event \cup {"NONE"}, NEW data \in Process \cup {NULL},
         NEW back \in Process \cup {NULL, "keep"}, NEW rest,
         Consistent(rest, process_current),
         rest # << >> /\ InCall(rest[1]) => back = rest[1].p,
         call_process(st, p, ev, data, back, rest),
         process_list' \in Process \cup {NULL},
         next' \in [Process -> Process \cup {NULL}]
  PROVE  CallsInv'
<1> DEFINE f == ThreadFrame("thread", p, ev, data, back)
<1>1. FrameOK(f) /\ f.back = back /\ f.p = p
  BY DEF FrameOK, Frame, ThreadFrame, InCall
<1>. HIDE DEF f
<1>2. CASE st[p] = "RUNNING"
  <2>1. /\ state' = [st EXCEPT ![p] = "CALLED"] /\ process_current' = p
        /\ stack' = << f >> \o rest
    BY <1>2 DEF call_process, f
  <2>2. Consistent(stack', process_current')
    BY <1>1, <2>1, Push
  <2>. QED
    BY <2>1, <2>2 DEF CallsInv, ProcessTypeOK
<1>3. CASE st[p] # "RUNNING"
  BY <1>3 DEF call_process, CallsInv, ProcessTypeOK
<1>. QED
  BY <1>2, <1>3

LEMMA UnlinkType ==
  ASSUME ProcessTypeOK, NEW p \in Process, Unlink(p)
  PROVE  process_list' \in Process \cup {NULL} /\ next' \in [Process -> Process \cup {NULL}]
BY DEF ProcessTypeOK, Unlink

LEMMA ExitKeepsCalls ==
  ASSUME CallsInv, NEW p \in Process, NEW ev \in Event \cup {"NONE"},
         NEW back \in Process \cup {NULL, "keep"}, NEW rest,
         Consistent(rest, Restored(back)),
         exit_process(p, ev, back, rest)
  PROVE  CallsInv'
<1>1. Restored(back) \in Process \cup {NULL}
  BY DEF Restored, CallsInv, ProcessTypeOK
<1>2. CASE stack' = rest /\ Restore(back)
  <2>1. process_current' = Restored(back)
    BY <1>2 DEF Restore, Restored
  <2>2. /\ process_list' \in Process \cup {NULL} /\ next' \in [Process -> Process \cup {NULL}]
        /\ state' \in [Process -> {"NONE", "RUNNING", "CALLED"}]
    BY UnlinkType DEF exit_process, CallsInv, ProcessTypeOK, listVars
  <2>. QED
    BY <1>1, <1>2, <2>1, <2>2 DEF CallsInv, ProcessTypeOK
<1>3. CASE /\ state' = [state EXCEPT ![p] = "NONE"]
           /\ stack' = << ExitFrame(p, ev, Restored(back)) >> \o rest
           /\ UNCHANGED <<listVars, process_current>>
  <2> DEFINE f == ExitFrame(p, ev, Restored(back))
  <2>1. FrameOK(f) /\ f.back = Restored(back) /\ ~InCall(f)
    BY <1>1 DEF FrameOK, Frame, ExitFrame, InCall
  <2>. HIDE DEF f
  <2>2. rest # << >> /\ InCall(rest[1]) => f.back = rest[1].p
    BY <2>1 DEF Consistent
  <2>3. Consistent(stack', process_current')
    BY <1>3, <2>1, <2>2, Push DEF f
  <2>. QED
    BY <1>3, <2>3 DEF CallsInv, ProcessTypeOK, listVars
<1>. QED
  BY <1>2, <1>3 DEF exit_process, Restored

\* The innermost thread calls another one, and is restored when that returns.
LEMMA ThreadCalls ==
  ASSUME CallsInv, NEW p \in Process, InThread(p)
  PROVE  process_current = p /\ stack # << >> /\ InCall(stack[1]) /\ stack[1].p = p
BY TopOfStack DEF CallsInv, Consistent, InThread, InCall

LEMMA StartKeepsCalls ==
  ASSUME CallsInv, NEW p \in Process, process_start(p)
  PROVE  CallsInv'
<1>1. stack # << >> /\ InCall(stack[1]) => process_current = stack[1].p
  BY DEF CallsInv, Consistent
<1>2. [state EXCEPT ![p] = "RUNNING"] \in [Process -> {"NONE", "RUNNING", "CALLED"}]
  BY DEF CallsInv, ProcessTypeOK
<1>3. /\ process_list' \in Process \cup {NULL} /\ next' \in [Process -> Process \cup {NULL}]
      /\ process_current \in Process \cup {NULL, "keep"}
  BY DEF CallsInv, ProcessTypeOK, process_start
<1>4. call_process([state EXCEPT ![p] = "RUNNING"], p, "INIT", NULL,
                   process_current, stack)
  BY DEF process_start
<1>5. Consistent(stack, process_current) /\ "INIT" \in Event \cup {"NONE"}
  BY DEF CallsInv, Event
<1>. QED
  BY <1>1, <1>2, <1>3, <1>4, <1>5, CallKeepsCalls

LEMMA PostSynchKeepsCalls ==
  ASSUME CallsInv, NEW p \in Process, NEW ev \in Event, process_post_synch(p, ev)
  PROVE  CallsInv'
<1>1. stack # << >> /\ InCall(stack[1]) => process_current = stack[1].p
  BY DEF CallsInv, Consistent
<1>2. /\ process_list' \in Process \cup {NULL} /\ next' \in [Process -> Process \cup {NULL}]
      /\ process_current \in Process \cup {NULL, "keep"}
      /\ state \in [Process -> {"NONE", "RUNNING", "CALLED"}]
  BY DEF CallsInv, ProcessTypeOK, process_post_synch, listVars
<1>3. call_process(state, p, ev, NULL, process_current, stack)
  BY DEF process_post_synch
<1>4. Consistent(stack, process_current)
  BY DEF CallsInv
<1>. QED
  BY <1>1, <1>2, <1>3, <1>4, CallKeepsCalls

LEMMA ProcessExitKeepsCalls ==
  ASSUME CallsInv, NEW p \in Process, process_exit(p)
  PROVE  CallsInv'
<1> DEFINE ev == IF p = process_current THEN "NONE" ELSE "EXIT"
<1>1. exit_process(p, ev, "keep", stack) /\ ev \in Event \cup {"NONE"}
  BY DEF process_exit, Event
<1>2. Consistent(stack, Restored("keep"))
  BY DEF CallsInv, Restored
<1>. HIDE DEF ev
<1>. QED
  BY <1>1, <1>2, ExitKeepsCalls

\* The thread returns to its caller.
LEMMA ReturnKeepsCalls ==
  ASSUME CallsInv, NEW p \in Process, InThread(p), Yield(p) \/ End(p)
  PROVE  CallsInv'
<1>1. /\ stack # << >> /\ FrameOK(Top) /\ Top = stack[1] /\ Callers = Tail(stack)
      /\ Top.back \in Process \cup {NULL, "keep"}
  BY ThreadCalls, TopOfStack DEF FrameOK, Frame
<1>2. Consistent(Callers, Restored(Top.back))
  BY <1>1, Pop DEF CallsInv, Restored
<1>3. CASE Yield(p)
  <2>1. process_current' = Restored(Top.back) /\ stack' = Callers
    BY <1>3 DEF Yield, Restore, Restored
  <2>2. process_current' \in Process \cup {NULL}
    BY <1>1, <2>1 DEF CallsInv, ProcessTypeOK, Restored
  <2>3. state' \in [Process -> {"NONE", "RUNNING", "CALLED"}] /\ UNCHANGED listVars
    BY <1>3 DEF CallsInv, ProcessTypeOK, Yield
  <2>. QED
    BY <1>2, <2>1, <2>2, <2>3 DEF CallsInv, ProcessTypeOK, listVars
<1>4. CASE End(p)
  <2>1. exit_process(p, "NONE", Top.back, Callers)
    BY <1>4 DEF End
  <2>. QED
    BY <1>1, <1>2, <2>1, ExitKeepsCalls
<1>. QED
  BY <1>3, <1>4

LEMMA ThreadKeepsCalls ==
  ASSUME CallsInv, NEW p \in Process, Thread(p)
  PROVE  CallsInv'
<1>1. ASSUME NEW q \in Process \cup {PROCESS_BROADCAST}, NEW ev \in Posted, Post(q, ev)
      PROVE  CallsInv'
  BY <1>1 DEF Post, CallsInv, ProcessTypeOK, listVars
<1>. QED
  BY <1>1, PostSynchKeepsCalls, StartKeepsCalls, ProcessExitKeepsCalls,
     ReturnKeepsCalls, ContikiProcessAssumption DEF Thread

-----------------------------------------------------------------------------
(***************************************************************************)
(* The loops of the kernel.                                                *)
(***************************************************************************)

\* A loop has come to the next process.
LEMMA LoopMoves ==
  ASSUME CallsInv, stack # << >>, ~InCall(Top), Top.op # "deliver",
         NEW at \in Process \cup {NULL}
  PROVE  LET here == << [Top EXCEPT !.at = at] >> \o Callers
         IN  /\ Consistent(here, process_current)
             /\ here # << >> /\ ~InCall(here[1])
<1> DEFINE f == [Top EXCEPT !.at = at]
<1>1. FrameOK(Top) /\ Top = stack[1] /\ Callers = Tail(stack) /\ Callers \in Seq(Frame)
  BY TopOfStack
<1>2. FrameOK(f) /\ f.back = Top.back /\ ~InCall(f)
  BY <1>1 DEF FrameOK, Frame, InCall
<1>. HIDE DEF f
<1>3. Consistent(<< f >> \o Callers, process_current)
  BY <1>1, <1>2, Replace DEF CallsInv
<1>4. << f >> \o Callers # << >> /\ (<< f >> \o Callers)[1] = f
  BY <1>1, <1>2
<1>. QED
  BY <1>2, <1>3, <1>4 DEF f

LEMMA InformExitedKeepsCalls ==
  ASSUME CallsInv, InformExited
  PROVE  CallsInv'
<1> DEFINE at == After(Top.at)
           here == << [Top EXCEPT !.at = at] >> \o Callers
<1>1. /\ stack # << >> /\ at # NULL /\ UNCHANGED listVars
      /\ FrameOK(Top) /\ Top.op = "exit" /\ ~InCall(Top)
  BY TopOfStack DEF InformExited, InLoop, InCall
<1>2. at \in Process /\ Top.p \in Process
  BY <1>1, WalkType DEF CallsInv, FrameOK, Frame
<1>4. Consistent(here, process_current) /\ here # << >> /\ ~InCall(here[1])
  BY <1>1, <1>2, LoopMoves
<1>5. /\ process_list' \in Process \cup {NULL} /\ next' \in [Process -> Process \cup {NULL}]
      /\ state \in [Process -> {"NONE", "RUNNING", "CALLED"}]
  BY <1>1 DEF CallsInv, ProcessTypeOK, listVars
<1>6. CASE at = Top.p
  <2>1. stack' = here /\ UNCHANGED <<state, process_current>>
    BY <1>6 DEF InformExited
  <2>. QED
    BY <1>1, <1>4, <2>1 DEF CallsInv, ProcessTypeOK, listVars
<1>7. CASE at # Top.p
  <2>1. call_process(state, at, "EXITED", Top.p, "keep", here)
    BY <1>7 DEF InformExited
  <2>2. "EXITED" \in Event \cup {"NONE"}
    BY DEF Event
  <2>. HIDE DEF at, here
  <2>. QED
    BY <1>2, <1>4, <1>5, <2>1, <2>2, CallKeepsCalls
<1>. QED
  BY <1>6, <1>7

LEMMA FinishExitKeepsCalls ==
  ASSUME CallsInv, FinishExit
  PROVE  CallsInv'
<1>1. /\ stack # << >> /\ FrameOK(Top) /\ Top.op \in {"exit", "unlink"}
      /\ Top = stack[1] /\ Callers = Tail(stack)
  BY TopOfStack DEF FinishExit, InLoop
<1>2. Top.p \in Process /\ Top.back \in Process \cup {NULL} /\ UNCHANGED state
  BY <1>1 DEF FrameOK, FinishExit
<1>3. CASE /\ process_current' = Top.p /\ UNCHANGED listVars
           /\ stack' = << ThreadFrame("told", Top.p, "EXIT", NULL, "keep"),
                          [Top EXCEPT !.op = "unlink"] >> \o Callers
  <2> DEFINE f == [Top EXCEPT !.op = "unlink"]
             g == ThreadFrame("told", Top.p, "EXIT", NULL, "keep")
  <2>1. FrameOK(f) /\ f.back = Top.back /\ ~InCall(f)
    BY <1>1 DEF FrameOK, Frame, InCall
  <2>2. FrameOK(g) /\ g.p = Top.p
    BY <1>2 DEF FrameOK, Frame, InCall, ThreadFrame, Event
  <2>3. /\ process_current' = Top.p /\ stack' = << g, f >> \o Callers
        /\ UNCHANGED listVars
    BY <1>3
  <2>. HIDE DEF f, g
  <2>4. Callers \in Seq(Frame) /\ f \in Frame /\ g \in Frame
    BY <1>1, <2>1, <2>2, TopOfStack DEF FrameOK
  <2>5. Consistent(<< f >> \o Callers, process_current)
    BY <1>1, <2>1, Replace DEF CallsInv
  <2>6. (<< f >> \o Callers)[1] = f /\ << g >> \o (<< f >> \o Callers) = << g, f >> \o Callers
    <3>1. (<< f >> \o Callers)[1] = f
      BY <2>4
    <3>2. << g >> \o (<< f >> \o Callers) = << g, f >> \o Callers
      BY <2>4, JoinSeq
    <3>. QED
      BY <3>1, <3>2
  <2>7. Consistent(<< g >> \o (<< f >> \o Callers), process_current')
    BY <2>1, <2>2, <2>3, <2>5, <2>6, Push
  <2>. QED
    BY <1>2, <2>3, <2>6, <2>7 DEF CallsInv, ProcessTypeOK, listVars
<1>4. CASE Unlink(Top.p) /\ process_current' = Top.back /\ stack' = Callers
  <2>1. Unlink(Top.p) /\ process_current' = Top.back /\ stack' = Callers
    BY <1>4
  <2>2. Consistent(Callers, process_current')
    BY <1>1, <2>1, Pop DEF CallsInv
  <2>3. process_list' \in Process \cup {NULL} /\ next' \in [Process -> Process \cup {NULL}]
    BY <1>2, <2>1, UnlinkType DEF CallsInv
  <2>. QED
    BY <1>2, <2>1, <2>2, <2>3 DEF CallsInv, ProcessTypeOK
<1>. QED
  BY <1>3, <1>4 DEF FinishExit

LEMMA PollKeepsCalls ==
  ASSUME CallsInv, Poll
  PROVE  CallsInv'
<1> DEFINE at == After(Top.at)
           here == << [Top EXCEPT !.at = at] >> \o Callers
<1>1. /\ InLoop("poll") /\ UNCHANGED listVars /\ stack # << >>
      /\ FrameOK(Top) /\ Top.op = "poll" /\ ~InCall(Top) /\ Top = stack[1]
      /\ Callers = Tail(stack) /\ Top.back = "keep"
  BY TopOfStack DEF Poll, InLoop, InCall, FrameOK
<1>2. at \in Process \cup {NULL}
  BY <1>1, WalkType DEF CallsInv, FrameOK, Frame
<1>4. Consistent(here, process_current) /\ here # << >> /\ ~InCall(here[1])
  BY <1>1, <1>2, LoopMoves
<1>5. /\ process_list' \in Process \cup {NULL} /\ next' \in [Process -> Process \cup {NULL}]
      /\ state \in [Process -> {"NONE", "RUNNING", "CALLED"}]
  BY <1>1 DEF CallsInv, ProcessTypeOK, listVars
<1>6. CASE stack' = Callers /\ UNCHANGED <<state, process_current>>
  <2>1. Consistent(stack', process_current')
    BY <1>1, <1>6, Pop DEF CallsInv
  <2>. QED
    BY <1>1, <1>6, <2>1 DEF CallsInv, ProcessTypeOK, listVars
<1>7. CASE stack' = here /\ UNCHANGED <<state, process_current>>
  BY <1>1, <1>4, <1>7 DEF CallsInv, ProcessTypeOK, listVars
<1>8. CASE at # NULL /\ call_process([state EXCEPT ![at] = "RUNNING"], at, "POLL", NULL,
                                     "keep", here)
  <2>1. [state EXCEPT ![at] = "RUNNING"] \in [Process -> {"NONE", "RUNNING", "CALLED"}]
    BY <1>2, <1>5
  <2>2. "POLL" \in Event \cup {"NONE"} /\ at \in Process
    BY <1>2, <1>8 DEF Event
  <2>. HIDE DEF at, here
  <2>. QED
    BY <1>4, <1>5, <1>8, <2>1, <2>2, CallKeepsCalls
<1>9. \/ stack' = Callers /\ UNCHANGED <<state, process_current>>
      \/ stack' = here /\ UNCHANGED <<state, process_current>>
      \/ at # NULL /\ call_process([state EXCEPT ![at] = "RUNNING"], at, "POLL", NULL,
                                  "keep", here)
  BY DEF Poll
<1>. QED
  BY <1>6, <1>7, <1>8, <1>9

\* A loop begins on the stack rest, which has no thread on top.
LEMMA LoopBegins ==
  ASSUME NEW rest, NEW c, Consistent(rest, c), rest = << >> \/ ~InCall(rest[1]),
         NEW op \in {"event", "poll", "broadcast"}, NEW ev \in Event \cup {"NONE"}
  PROVE  LET s == << LoopFrame(op, ev) >> \o rest
         IN  Consistent(s, c) /\ s # << >> /\ ~InCall(s[1])
<1> DEFINE f == LoopFrame(op, ev)
<1>1. FrameOK(f) /\ ~InCall(f)
  BY DEF FrameOK, Frame, LoopFrame, InCall
<1>. HIDE DEF f
<1>2. Consistent(<< f >> \o rest, c)
  BY <1>1, Push
<1>3. << f >> \o rest # << >> /\ (<< f >> \o rest)[1] = f
  BY <1>1 DEF Consistent, FrameOK
<1>. QED
  BY <1>1, <1>2, <1>3 DEF f

LEMMA EmptyStack == \A c : Consistent(<< >>, c)
BY DEF Consistent

LEMMA RunPollsKeepsCalls ==
  ASSUME CallsInv, RunPolls
  PROVE  CallsInv'
<1> DEFINE e == LoopFrame("event", "NONE")
           f == LoopFrame("poll", "NONE")
<1>1. Consistent(<< e >> \o << >>, process_current) /\ ~InCall((<< e >> \o << >>)[1])
  BY EmptyStack, LoopBegins
<1>2. Consistent(<< f >> \o (<< e >> \o << >>), process_current)
  BY <1>1, LoopBegins
<1>3. << f >> \o (<< e >> \o << >>) = << f, e >>
  BY OneFrame, TwoFrames
<1>. QED
  BY <1>2, <1>3 DEF RunPolls, CallsInv, ProcessTypeOK, listVars

LEMMA DoEventKeepsCalls ==
  ASSUME CallsInv, QueueTypeOK, do_event
  PROVE  CallsInv'
<1> DEFINE e == events[fevent]
<1>1. e \in Slot /\ UNCHANGED listVars
  BY ContikiProcessAssumption DEF QueueTypeOK, do_event
<1>2. e.p \in Process \cup {NULL} /\ e.ev \in Event \cup {"NONE"}
  BY <1>1 DEF Slot, PROCESS_BROADCAST
<1>3. CASE e.p = PROCESS_BROADCAST
  <2>1. stack' = << LoopFrame("broadcast", e.ev) >> /\ UNCHANGED <<state, process_current>>
    BY <1>3 DEF do_event
  <2>2. Consistent(<< LoopFrame("broadcast", e.ev) >> \o << >>, process_current)
    BY <1>2, EmptyStack, LoopBegins
  <2>3. << LoopFrame("broadcast", e.ev) >> \o << >> = << LoopFrame("broadcast", e.ev) >>
    BY OneFrame
  <2>. QED
    BY <1>1, <2>1, <2>2, <2>3 DEF CallsInv, ProcessTypeOK, listVars
<1>4. CASE e.p # PROCESS_BROADCAST
  <2> DEFINE st == IF e.ev = "INIT" THEN [state EXCEPT ![e.p] = "RUNNING"] ELSE state
  <2>1. call_process(st, e.p, e.ev, NULL, "keep", << >>)
    BY <1>4 DEF do_event
  <2>2. e.p \in Process /\ st \in [Process -> {"NONE", "RUNNING", "CALLED"}]
    BY <1>2, <1>4 DEF CallsInv, ProcessTypeOK, PROCESS_BROADCAST
  <2>3. process_list' \in Process \cup {NULL} /\ next' \in [Process -> Process \cup {NULL}]
    BY <1>1 DEF CallsInv, ProcessTypeOK, listVars
  <2>. HIDE DEF e, st
  <2>. QED
    BY <1>2, <2>1, <2>2, <2>3, EmptyStack, CallKeepsCalls
<1>. QED
  BY <1>3, <1>4

LEMMA BroadcastKeepsCalls ==
  ASSUME CallsInv, Broadcast
  PROVE  CallsInv'
<1> DEFINE at == After(Top.at)
           here(op) == << [Top EXCEPT !.at = at, !.op = op] >>
<1>1. /\ InLoop("broadcast") /\ UNCHANGED listVars /\ stack # << >>
      /\ FrameOK(Top) /\ Top.op = "broadcast" /\ ~InCall(Top) /\ Top = stack[1]
      /\ Top.ev \in Event \cup {"NONE"}
  BY TopOfStack DEF Broadcast, InLoop, InCall, FrameOK, Frame
<1>2. at \in Process \cup {NULL}
  BY <1>1, WalkType DEF CallsInv, FrameOK, Frame
<1>3. ASSUME NEW op \in {"broadcast", "deliver"}
      PROVE  at # NULL => Consistent(here(op), process_current) /\ ~InCall(here(op)[1])
  <2> DEFINE f == [Top EXCEPT !.at = at, !.op = op]
  <2>. SUFFICES ASSUME at # NULL
                PROVE  Consistent(here(op), process_current) /\ ~InCall(here(op)[1])
    OBVIOUS
  <2>1. FrameOK(f) /\ ~InCall(f)
    BY <1>1, <1>2 DEF FrameOK, Frame, InCall
  <2>. HIDE DEF f
  <2>2. Consistent(<< f >> \o << >>, process_current) /\ << f >> \o << >> = << f >>
    BY <2>1, EmptyStack, OneFrame, Push
  <2>. QED
    BY <2>1, <2>2 DEF f
<1>4. /\ process_list' \in Process \cup {NULL} /\ next' \in [Process -> Process \cup {NULL}]
      /\ state \in [Process -> {"NONE", "RUNNING", "CALLED"}]
  BY <1>1 DEF CallsInv, ProcessTypeOK, listVars
<1>5. CASE stack' = << >> /\ UNCHANGED <<state, process_current>>
  BY <1>1, <1>5, EmptyStack DEF CallsInv, ProcessTypeOK, listVars
<1>6. CASE /\ at # NULL /\ stack' = << LoopFrame("poll", "NONE") >> \o here("deliver")
           /\ UNCHANGED <<state, process_current>>
  <2>1. Consistent(stack', process_current')
    BY <1>3, <1>6, LoopBegins
  <2>. QED
    BY <1>1, <1>6, <2>1 DEF CallsInv, ProcessTypeOK, listVars
<1>7. CASE at # NULL /\ call_process(state, at, Top.ev, NULL, "keep", here("broadcast"))
  <2> DEFINE rest == here("broadcast")
  <2>1. Consistent(rest, process_current) /\ ~InCall(rest[1])
    BY <1>3, <1>7
  <2>2. at \in Process /\ call_process(state, at, Top.ev, NULL, "keep", rest)
    BY <1>2, <1>7
  <2>. HIDE DEF at, rest
  <2>. QED
    BY <1>1, <1>4, <2>1, <2>2, CallKeepsCalls
<1>. QED
  BY <1>5, <1>6, <1>7 DEF Broadcast

LEMMA DeliverKeepsCalls ==
  ASSUME CallsInv, Deliver
  PROVE  CallsInv'
<1>1. /\ InLoop("deliver") /\ UNCHANGED listVars /\ stack # << >>
      /\ FrameOK(Top) /\ Top.op = "deliver" /\ Top = stack[1]
      /\ Top.ev \in Event \cup {"NONE"} /\ Top.at \in Process
  BY TopOfStack DEF Deliver, InLoop, FrameOK, Frame
<1> DEFINE f == [Top EXCEPT !.op = "broadcast"]
           rest == << f >>
<1>2. FrameOK(f) /\ ~InCall(f)
  BY <1>1 DEF FrameOK, Frame, InCall
<1>3. call_process(state, Top.at, Top.ev, NULL, "keep", rest)
  BY DEF Deliver
<1>. HIDE DEF f
<1>4. Consistent(rest, process_current) /\ ~InCall(rest[1])
  <2>1. Consistent(<< f >> \o << >>, process_current) /\ << f >> \o << >> = << f >>
    BY <1>2, EmptyStack, OneFrame, Push
  <2>. QED
    BY <1>2, <2>1
<1>5. /\ process_list' \in Process \cup {NULL} /\ next' \in [Process -> Process \cup {NULL}]
      /\ state \in [Process -> {"NONE", "RUNNING", "CALLED"}]
  BY <1>1 DEF CallsInv, ProcessTypeOK, listVars
<1>. HIDE DEF rest
<1>. QED
  BY <1>1, <1>3, <1>4, <1>5, CallKeepsCalls

\* The rest of the kernel's steps, which call nobody.
LEMMA OthersKeepCalls ==
  ASSUME CallsInv,
         MainLoop \/ Idle \/ \E p \in Process : process_poll(p)
  PROVE  CallsInv'
<1>1. Consistent(<< >>, process_current)
  BY EmptyStack
<1>. QED
  BY <1>1 DEF MainLoop, Idle, process_poll, CallsInv, ProcessTypeOK, listVars

LEMMA NextKeepsCalls ==
  ASSUME CallsInv, QueueTypeOK, [Next]_vars
  PROVE  CallsInv'
<1>1. CASE Kernel
  BY <1>1, InformExitedKeepsCalls, FinishExitKeepsCalls, PollKeepsCalls,
     RunPollsKeepsCalls, DoEventKeepsCalls, OthersKeepCalls, BroadcastKeepsCalls,
     DeliverKeepsCalls DEF Kernel
<1>2. CASE \E p \in Process : MainStarts(p) \/ Thread(p) \/ process_poll(p)
  BY <1>2, StartKeepsCalls, ThreadKeepsCalls, OthersKeepCalls DEF MainStarts
<1>3. CASE MainLoop
  BY <1>3, OthersKeepCalls
<1>4. CASE UNCHANGED vars
  BY <1>4 DEF vars, CallsInv, ProcessTypeOK, listVars
<1>. QED
  BY <1>1, <1>2, <1>3, <1>4 DEF Next

-----------------------------------------------------------------------------
(***************************************************************************)
(* The ring buffer.                                                        *)
(***************************************************************************)

\* The events in the order in which they are taken.
Waiting == [i \in 1..nevents |-> events[(fevent + i - 1) % NumEvents]]

LEMMA Wraps ==
  ASSUME NEW n \in Nat \ {0}, NEW x \in 0..(2 * n - 1)
  PROVE  x % n = IF x < n THEN x ELSE x - n
BY SMTT(30)

LEMMA SnumIsNext ==
  ASSUME QueueTypeOK, nevents < NumEvents
  PROVE  snum = (fevent + nevents) % NumEvents
<1>1. fevent + nevents \in 0..(CountWrap - 1) /\ CountWrap \in Nat \ {0}
  BY ContikiProcessAssumption DEF QueueTypeOK
<1>2. (fevent + nevents) % CountWrap = fevent + nevents
  BY <1>1, Wraps
<1>. QED
  BY <1>2 DEF snum

\* The n events from slot f on.
LEMMA SlotsFrom ==
  ASSUME NEW n \in 0..NumEvents, NEW f \in 0..(NumEvents - 1),
         NEW ev \in [0..(NumEvents - 1) -> Slot]
  PROVE  LET w == [i \in 1..n |-> ev[(f + i - 1) % NumEvents]]
         IN  w \in Seq(Slot) /\ Len(w) = n
<1>1. ASSUME NEW i \in 1..n
      PROVE  ev[(f + i - 1) % NumEvents] \in Slot
  <2>1. f + i - 1 \in 0..(2 * NumEvents - 1) /\ NumEvents \in Nat \ {0}
    BY ContikiProcessAssumption
  <2>2. (f + i - 1) % NumEvents \in 0..(NumEvents - 1)
    BY <2>1, Wraps
  <2>. QED
    BY <2>2
<1>2. n \in Nat
  BY ContikiProcessAssumption
<1>. QED
  BY <1>1, <1>2

LEMMA WaitingType ==
  ASSUME QueueTypeOK
  PROVE  Waiting \in Seq(Slot) /\ Len(Waiting) = nevents
BY SlotsFrom DEF QueueTypeOK, Waiting

LEMMA PostAppends ==
  ASSUME QueueTypeOK, NEW p \in Process \cup {NULL}, NEW ev \in Event, process_post(p, ev)
  PROVE  QueueTypeOK' /\ Waiting' = Append(Waiting, [p |-> p, ev |-> ev])
<1> DEFINE e == [p |-> p, ev |-> ev]
           N == NumEvents
<1>1. /\ e \in Slot /\ N \in Nat \ {0} /\ nevents \in 0..(N - 1) /\ fevent \in 0..(N - 1)
      /\ events \in [0..(N - 1) -> Slot]
      /\ nevents' = nevents + 1 /\ fevent' = fevent
  BY ContikiProcessAssumption DEF QueueTypeOK, process_post, Slot, PROCESS_BROADCAST
<1>2. events' = [events EXCEPT ![(fevent + nevents) % N] = e]
  BY SnumIsNext DEF process_post
<1>. HIDE DEF e, N
<1>3. (fevent + nevents) % N \in 0..(N - 1)
  <2>1. fevent + nevents \in 0..(2 * N - 1)
    BY <1>1
  <2>. QED
    BY <1>1, <2>1, Wraps
<1>4. QueueTypeOK'
  BY <1>1, <1>2, <1>3 DEF QueueTypeOK, N
<1>5. \A i \in 1..nevents : events'[(fevent + i - 1) % N] = events[(fevent + i - 1) % N]
  <2>. SUFFICES ASSUME NEW i \in 1..nevents
                PROVE  events'[(fevent + i - 1) % N] = events[(fevent + i - 1) % N]
    OBVIOUS
  <2> DEFINE x == fevent + i - 1
             y == fevent + nevents
  <2>1. x \in 0..(2 * N - 1) /\ y \in 0..(2 * N - 1) /\ x < y /\ y - x <= nevents
    BY <1>1
  <2>. HIDE DEF x, y
  <2>2. /\ x % N = IF x < N THEN x ELSE x - N
        /\ y % N = IF y < N THEN y ELSE y - N
    BY <1>1, <2>1, Wraps
  <2>3. x % N \in 0..(N - 1) /\ x % N # y % N
    BY <1>1, <2>1, <2>2
  <2>. QED
    BY <1>1, <1>2, <2>3 DEF x, y
<1>6. events'[(fevent + (nevents + 1) - 1) % N] = e
  <2>1. fevent + (nevents + 1) - 1 = fevent + nevents
    BY <1>1
  <2>. QED
    BY <1>1, <1>2, <1>3, <2>1
<1>7. Waiting \in Seq(Slot) /\ Waiting' \in Seq(Slot) /\ Len(Waiting) = nevents
      /\ Len(Waiting') = nevents'
  BY <1>4, WaitingType, SlotsFrom DEF QueueTypeOK, Waiting
<1>8. \A i \in 1..nevents + 1 : Waiting'[i] = Append(Waiting, e)[i]
  <2>1. ASSUME NEW i \in 1..nevents
        PROVE  Waiting'[i] = Append(Waiting, e)[i]
    <3>1. Append(Waiting, e)[i] = Waiting[i]
      BY <1>1, <1>7
    <3>2. Waiting'[i] = events'[(fevent + i - 1) % N] /\ Waiting[i] = events[(fevent + i - 1) % N]
      BY <1>1 DEF Waiting, N
    <3>. QED
      BY <1>5, <3>1, <3>2
  <2>2. Waiting'[nevents + 1] = Append(Waiting, e)[nevents + 1]
    <3>1. Append(Waiting, e)[nevents + 1] = e
      BY <1>1, <1>7
    <3>2. Waiting'[nevents + 1] = events'[(fevent + (nevents + 1) - 1) % N]
      BY <1>1 DEF Waiting, N
    <3>. QED
      BY <1>6, <3>1, <3>2
  <2>3. \A i \in 1..nevents + 1 : i \in 1..nevents \/ i = nevents + 1
    BY <1>1
  <2>. QED
    BY <2>1, <2>2, <2>3
<1>9. Append(Waiting, e) \in Seq(Slot) /\ Len(Append(Waiting, e)) = nevents + 1
  BY <1>1, <1>7
<1>. QED
  BY <1>1, <1>4, <1>7, <1>8, <1>9, SeqEqual DEF e

LEMMA TakeEventTakesHead ==
  ASSUME QueueTypeOK, TakeEvent
  PROVE  QueueTypeOK' /\ Waiting # << >> /\ Waiting' = Tail(Waiting)
<1> DEFINE N == NumEvents
<1>1. /\ N \in Nat \ {0} /\ nevents \in 1..N /\ fevent \in 0..(N - 1)
      /\ events' = events /\ nevents' = nevents - 1
      /\ fevent' = (fevent + 1) % N
  BY ContikiProcessAssumption DEF QueueTypeOK, TakeEvent
<1>. HIDE DEF N
<1>2. fevent' = IF fevent + 1 < N THEN fevent + 1 ELSE 0
  <2> DEFINE x == fevent + 1
  <2>1. fevent' = x % N /\ x \in 0..(2 * N - 1) /\ x <= N
    BY <1>1, SMT
  <2>. HIDE DEF x
  <2>2. x % N = IF x < N THEN x ELSE x - N
    BY <1>1, <2>1, Wraps
  <2>3. fevent' = IF x < N THEN x ELSE 0
    BY <1>1, <2>1, <2>2
  <2>. QED
    BY <2>3 DEF x
<1>3. QueueTypeOK'
  BY <1>1, <1>2 DEF QueueTypeOK, N
<1>4. Waiting \in Seq(Slot) /\ Waiting' \in Seq(Slot) /\ Len(Waiting) = nevents
      /\ Len(Waiting') = nevents - 1
  BY <1>1, <1>3, WaitingType, SlotsFrom DEF QueueTypeOK, Waiting, N
<1>5. Waiting # << >> /\ Tail(Waiting) \in Seq(Slot) /\ Len(Tail(Waiting)) = nevents - 1
      /\ \A i \in 1..nevents - 1 : Tail(Waiting)[i] = Waiting[i + 1]
  BY <1>1, <1>4
<1>6. \A i \in 1..nevents - 1 : Waiting'[i] = Waiting[i + 1]
  <2>. SUFFICES ASSUME NEW i \in 1..nevents - 1
                PROVE  Waiting'[i] = Waiting[i + 1]
    OBVIOUS
  <2>1. /\ Waiting'[i] = events[(fevent' + i - 1) % N]
        /\ Waiting[i + 1] = events[(fevent + (i + 1) - 1) % N]
    BY <1>1 DEF Waiting, N
  <2> DEFINE x == fevent' + i - 1
             y == fevent + (i + 1) - 1
  <2>2. /\ x \in 0..(2 * N - 1) /\ y \in 0..(2 * N - 1)
        /\ x = y \/ (x = y - N /\ x < N /\ y >= N)
    <3>1. CASE fevent + 1 < N
      BY <1>1, <1>2, <3>1
    <3>2. CASE ~(fevent + 1 < N)
      BY <1>1, <1>2, <3>2
    <3>. QED
      BY <3>1, <3>2
  <2>. HIDE DEF x, y
  <2>3. /\ x % N = IF x < N THEN x ELSE x - N
        /\ y % N = IF y < N THEN y ELSE y - N
    BY <1>1, <2>2, Wraps
  <2>4. x % N = y % N
    BY <1>1, <2>2, <2>3
  <2>. QED
    BY <2>1, <2>4 DEF x, y
<1>. QED
  BY <1>3, <1>4, <1>5, <1>6, SeqEqual

\* A step of the kernel leaves the queue, appends an event or takes the first one.
LEMMA QueueMoves ==
  ASSUME QueueTypeOK, [Next]_vars
  PROVE  /\ QueueTypeOK'
         /\ \/ UNCHANGED Waiting
            \/ Len(Waiting) < NumEvents /\ \E e \in Slot : Waiting' = Append(Waiting, e)
            \/ Waiting # << >> /\ Waiting' = Tail(Waiting)
<1>1. CASE UNCHANGED queueVars
  BY <1>1 DEF QueueTypeOK, queueVars, Waiting
<1>2. ASSUME NEW p \in Process \cup {NULL}, NEW ev \in Posted, process_post(p, ev)
      PROVE  /\ QueueTypeOK' /\ Len(Waiting) < NumEvents
             /\ \E e \in Slot : Waiting' = Append(Waiting, e)
  <2>1. ev \in Event /\ [p |-> p, ev |-> ev] \in Slot
    BY ContikiProcessAssumption DEF Slot, PROCESS_BROADCAST
  <2>2. Len(Waiting) < NumEvents
    BY <1>2, WaitingType DEF process_post
  <2>. QED
    BY <1>2, <2>1, <2>2, PostAppends
<1>3. CASE TakeEvent
  BY <1>3, TakeEventTakesHead
<1>4. ASSUME NEW p \in Process, Thread(p)
      PROVE  \/ UNCHANGED queueVars
             \/ \E q \in Process \cup {NULL}, ev \in Posted : process_post(q, ev)
  BY <1>4 DEF Thread, Post, process_post_synch, process_start, process_exit, Yield, End,
     PROCESS_BROADCAST
<1>5. CASE Kernel
  BY <1>1, <1>3, <1>5 DEF Kernel, InformExited, FinishExit, Poll, RunPolls, do_event, Idle,
     Broadcast, Deliver
<1>6. CASE \E p \in Process : MainStarts(p) \/ process_poll(p)
  BY <1>1, <1>6 DEF MainStarts, process_start, process_poll
<1>7. CASE MainLoop
  BY <1>1, <1>7 DEF MainLoop
<1>8. CASE UNCHANGED vars
  BY <1>1, <1>8 DEF vars, queueVars
<1>. QED
  BY <1>1, <1>2, <1>4, <1>5, <1>6, <1>7, <1>8 DEF Next

-----------------------------------------------------------------------------
(***************************************************************************)
(* The theorems.                                                           *)
(***************************************************************************)

LEMMA KernelInvInit == Init => KernelInv
<1>. SUFFICES ASSUME Init PROVE KernelInv
  OBVIOUS
<1>1. ProcessTypeOK /\ PollTypeOK /\ starts \in 0..MaxStarts
  <2>1. ProcessTypeOK /\ starts \in 0..MaxStarts
    BY ContikiProcessAssumption DEF Init, ProcessTypeOK
  <2>2. PollTypeOK
    BY DEF Init, PollTypeOK
  <2>. QED
    BY <2>1, <2>2
<1>2. QueueTypeOK
  BY ContikiProcessAssumption DEF Init, QueueTypeOK, Slot, PROCESS_BROADCAST
<1>3. Consistent(stack, process_current)
  <2> DEFINE f == LoopFrame("main", "NONE")
  <2>1. FrameOK(f) /\ ~InCall(f)
    BY DEF FrameOK, Frame, LoopFrame, InCall
  <2>. HIDE DEF f
  <2>2. Consistent(<< f >> \o << >>, process_current) /\ << f >> \o << >> = << f >>
    BY <2>1, EmptyStack, OneFrame, Push
  <2>. QED
    BY <2>2 DEF Init, f
<1>. QED
  BY <1>1, <1>2, <1>3 DEF KernelInv, CallsInv

LEMMA KernelInvNext == KernelInv /\ [Next]_vars => KernelInv'
<1>. SUFFICES ASSUME KernelInv, [Next]_vars PROVE KernelInv'
  OBVIOUS
<1>1. CallsInv' /\ QueueTypeOK'
  BY NextKeepsCalls, QueueMoves DEF KernelInv
<1>2. PollTypeOK'
  <2>1. ASSUME NEW p \in Process, MainStarts(p) \/ Thread(p) \/ process_poll(p)
        PROVE  PollTypeOK'
    BY <2>1 DEF KernelInv, PollTypeOK, pollVars, MainStarts, Thread, Post, process_post_synch,
       process_start, process_exit, Yield, End, process_poll
  <2>2. CASE Kernel \/ MainLoop
    BY <2>2 DEF KernelInv, PollTypeOK, pollVars, Kernel, MainLoop, InformExited, FinishExit,
       Poll, RunPolls, do_event, Idle, Broadcast, Deliver
  <2>3. CASE UNCHANGED vars
    BY <2>3 DEF KernelInv, PollTypeOK, vars, pollVars
  <2>. QED
    BY <2>1, <2>2, <2>3 DEF Next
<1>3. starts' \in 0..MaxStarts
  <2>1. ASSUME NEW p \in Process, MainStarts(p) \/ Thread(p) \/ process_poll(p)
        PROVE  starts' \in 0..MaxStarts
    <3>1. \/ UNCHANGED starts
          \/ starts < MaxStarts /\ starts' = starts + 1
      <4>1. ASSUME NEW q \in Process, process_start(q)
            PROVE  starts < MaxStarts /\ starts' = starts + 1
        BY <4>1 DEF process_start
      <4>2. CASE process_poll(p)
        BY <4>2 DEF process_poll, listVars, queueVars
      <4>3. CASE Thread(p)
        BY <4>1, <4>3 DEF Thread, Post, process_post_synch, process_exit, Yield, End,
           listVars, pollVars, queueVars
      <4>. QED
        BY <2>1, <4>1, <4>2, <4>3 DEF MainStarts
    <3>. QED
      BY <3>1, ContikiProcessAssumption DEF KernelInv
  <2>2. CASE Kernel \/ MainLoop
    BY <2>2 DEF KernelInv, Kernel, MainLoop, InformExited, FinishExit,
       Poll, RunPolls, do_event, Idle, Broadcast, Deliver
  <2>3. CASE UNCHANGED vars
    BY <2>3 DEF KernelInv, vars
  <2>. QED
    BY <2>1, <2>2, <2>3 DEF Next
<1>. QED
  BY <1>1, <1>2, <1>3 DEF KernelInv

LEMMA KernelInvHolds == Spec => []KernelInv
BY KernelInvInit, KernelInvNext, PTL DEF Spec

\* The variables of the kernel stay in their types: no frame of the stack is ill
\* formed, and the ring buffer's indices stay in it.
THEOREM TypeCorrect == Spec => []TypeOK
<1>1. KernelInv => TypeOK
  BY DEF KernelInv, CallsInv, ProcessTypeOK, Consistent, PollTypeOK, QueueTypeOK, TypeOK
<1>. QED
  BY <1>1, KernelInvHolds, PTL

\* However calls and exits nest, PROCESS_CURRENT() is the process whose thread runs.
THEOREM CurrentCorrect == Spec => []CurrentRuns
<1>1. KernelInv => CurrentRuns
  BY ThreadCalls DEF KernelInv, CurrentRuns
<1>. QED
  BY <1>1, KernelInvHolds, PTL

\* The ring buffer implements the bounded queue of EventQueue.  (That every event
\* in it is taken rests on fairness and is model-checked.)
THEOREM QueueRefines == Spec => Queue!Spec
<1>1. Init => Queue!Init
  <2>1. Init => QueueTypeOK /\ nevents = 0
    BY KernelInvInit DEF KernelInv, Init
  <2>2. Waiting = [i \in 1..nevents |-> events[(fevent + i - 1) % NumEvents]]
    BY DEF Waiting
  <2>3. QueueTypeOK /\ nevents = 0 => Waiting = << >>
    BY WaitingType
  <2>. QED
    BY <2>1, <2>2, <2>3 DEF Queue!Init
<1>2. KernelInv /\ [Next]_vars => [Queue!Next]_([i \in 1..nevents |-> events[(fevent + i - 1) % NumEvents]])
  <2>. SUFFICES ASSUME KernelInv, [Next]_vars
                PROVE  [Queue!Next]_Waiting
    BY DEF Waiting
  <2>1. \/ UNCHANGED Waiting
        \/ Len(Waiting) < NumEvents /\ \E e \in Slot : Waiting' = Append(Waiting, e)
        \/ Waiting # << >> /\ Waiting' = Tail(Waiting)
    BY QueueMoves DEF KernelInv
  <2>. QED
    BY <2>1 DEF Queue!Next, Queue!Post, Queue!Take, Waiting
<1>. QED
  BY <1>1, <1>2, KernelInvHolds, PTL DEF Spec, Queue!Spec
=============================================================================
