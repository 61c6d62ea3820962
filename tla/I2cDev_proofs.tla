---------------------------- MODULE I2cDev_proofs ----------------------------
(***************************************************************************)
(* Safety of the I2C driver, for every set of devices, every size of the   *)
(* buffer and every number of retries.                                     *)
(***************************************************************************)
EXTENDS I2cDev, TLAPS

\* The transfer under way.
Current == Head(transfers)

\* What may be left of the caller's assignments.
ToSet(t) ==
  IF t.rw = "W"
  THEN {<<"addr", "size", "data", "result">>, <<"size", "data", "result">>,
        <<"data", "result">>, <<"result">>, << >>}
  ELSE {<<"addr", "size", "result">>, <<"size", "result">>, <<"result">>, << >>}

AfterData == {<<"result">>, << >>}
AfterSize == {<<"data", "result">>} \cup AfterData
AfterAddr == {<<"size", "data", "result">>, <<"size", "result">>} \cup AfterSize

CallerInv ==
  /\ caller # "ready" => transfers # << >>
  /\ caller = "setting" => to_set \in ToSet(Current)
  /\ caller = "waiting" => to_set = << >>
  /\ twie = (op # "none")

\* The caller's assignments last; the data until an earlier transfer interferes.
FrameInv ==
  LET t == Current
  IN  caller # "ready" =>
        /\ to_set \in AfterAddr => frame.addr = <<t.dev, t.rw>>
        /\ to_set \in AfterSize => frame.size = t.size
        /\ to_set \in AfterData /\ t.rw = "W" /\ ~collided =>
             \A k \in Position : k < t.size => frame.data[k] = <<t.dev, "W", k>>

\* The first n bytes of the transfer have been moved, and received ones stored.
Moved(t, n) ==
  /\ wire.bytes = Run(t.dev, t.rw, n)
  /\ t.rw = "R" => \A k \in Position : k < n => frame.data[k] = <<t.dev, "R", k>>

\* A transfer that meets no earlier one: how far the interrupt routine has come.
TransferInv ==
  LET t == Current
  IN  caller = "waiting" /\ ~collided =>
        /\ op \in {"address", "byte", "grab", "last_grab"} =>
             wire.addr = <<t.dev, t.rw>>
        /\ op = "address" => Moved(t, 0)
        /\ op = "byte" => /\ t.rw = "W"
                          /\ isr.counter < t.size
                          /\ twdr = <<t.dev, "W", isr.counter>>
                          /\ Moved(t, isr.counter)
        /\ op = "grab" => /\ t.rw = "R"
                          /\ isr.counter + 1 < t.size
                          /\ Moved(t, isr.counter)
        /\ op = "last_grab" => /\ t.rw = "R"
                               /\ isr.counter + 1 = t.size
                               /\ Moved(t, isr.counter)
        /\ op = "none" /\ frame.result = "SUCCESSFUL" =>
             wire.addr = <<t.dev, t.rw>> /\ Moved(t, t.size)

IInv ==
  /\ TypeOK
  /\ CallerInv
  /\ FrameInv
  /\ TransferInv
  /\ StaysInBuffer
  /\ ResultIsKnown

-----------------------------------------------------------------------------

LEMMA Transfers ==
  ASSUME TypeOK, CallerInv, caller # "ready"
  PROVE  Current \in Transfer
BY DEF TypeOK, CallerInv, Current

LEMMA Calls ==
  ASSUME I2cDevAssumption, NEW call \in Call
  PROVE  call \in Seq(Transfer) /\ call # << >>
<1>1. CASE call \in {<<Out(d, n)>> : d \in Devices, n \in 1..I2C_MAX_BUFFER_SIZE}
  <2>1. PICK d \in Devices, n \in 1..I2C_MAX_BUFFER_SIZE : call = <<Out(d, n)>>
    BY <1>1
  <2>2. Out(d, n) \in Transfer
    BY I2cDevAssumption DEF I2cDevAssumption, Out, Transfer
  <2> QED BY <2>1, <2>2
<1>2. CASE call \in {<<Out(d, 1), In(d, n)>> :
                       d \in Devices, n \in 1..(I2C_MAX_BUFFER_SIZE - 1)}
  <2>1. PICK d \in Devices, n \in 1..(I2C_MAX_BUFFER_SIZE - 1) :
          call = <<Out(d, 1), In(d, n)>>
    BY <1>2
  <2>2. Out(d, 1) \in Transfer /\ In(d, n) \in Transfer
    BY I2cDevAssumption DEF I2cDevAssumption, Out, In, Transfer
  <2> QED BY <2>1, <2>2
<1> QED BY <1>1, <1>2 DEF Call

LEMMA FieldsToSet ==
  ASSUME NEW t \in Transfer
  PROVE  /\ Fields(t) \in ToSet(t)
         /\ Fields(t) \in Seq({"addr", "size", "data", "result"})
         /\ Fields(t) \notin AfterAddr \cup AfterSize \cup AfterData
<1>1. CASE t.rw = "W"
  <2>1. Fields(t) = <<"addr", "size", "data", "result">>
    BY <1>1 DEF Fields
  <2>2. Head(Fields(t)) = "addr" /\ Fields(t) # << >>
    BY <2>1
  <2>3. Fields(t) \in ToSet(t)
    BY <1>1, <2>1 DEF ToSet
  <2>4. Fields(t) \in Seq({"addr", "size", "data", "result"})
    BY <2>1
  <2>5. Fields(t) \notin AfterAddr \cup AfterSize \cup AfterData
    BY <2>2 DEF AfterAddr, AfterSize, AfterData
  <2> QED BY <2>3, <2>4, <2>5
<1>2. CASE t.rw # "W"
  <2>1. Fields(t) = <<"addr", "size", "result">>
    BY <1>2 DEF Fields
  <2>2. Head(Fields(t)) = "addr" /\ Fields(t) # << >>
    BY <2>1
  <2>3. Fields(t) \in ToSet(t)
    BY <1>2, <2>1 DEF ToSet
  <2>4. Fields(t) \in Seq({"addr", "size", "data", "result"})
    BY <2>1
  <2>5. Fields(t) \notin AfterAddr \cup AfterSize \cup AfterData
    BY <2>2 DEF AfterAddr, AfterSize, AfterData
  <2> QED BY <2>3, <2>4, <2>5
<1> QED BY <1>1, <1>2

LEMMA ToSetShrinks ==
  ASSUME NEW t \in Transfer, NEW s \in ToSet(t), s # << >>
  PROVE  /\ Tail(s) \in ToSet(t)
         /\ Head(s) \in {"addr", "size", "data", "result"}
         /\ Tail(s) \in AfterAddr => s \in AfterAddr \/ Head(s) = "addr"
         /\ Tail(s) \in AfterSize => s \in AfterSize \/ Head(s) = "size"
         /\ Tail(s) \in AfterData /\ t.rw = "W" =>
              s \in AfterData \/ Head(s) = "data"
<1>1. CASE s = <<"addr", "size", "data", "result">>
  <2>1. /\ Head(s) = "addr"
        /\ Tail(s) = <<"size", "data", "result">>
        /\ Len(Tail(s)) = 3
    BY <1>1
  <2>2. t.rw = "W"
    BY <1>1 DEF ToSet
  <2> QED BY <2>1, <2>2 DEF ToSet, AfterAddr, AfterSize, AfterData
<1>2. CASE s = <<"size", "data", "result">>
  <2>1. Head(s) = "size" /\ Tail(s) = <<"data", "result">> /\ Len(Tail(s)) = 2
    BY <1>2
  <2>2. t.rw = "W"
    BY <1>2 DEF ToSet
  <2> QED BY <1>2, <2>1, <2>2 DEF ToSet, AfterAddr, AfterSize, AfterData
<1>3. CASE s = <<"data", "result">>
  <2>1. Head(s) = "data" /\ Tail(s) = <<"result">>
    BY <1>3
  <2>2. t.rw = "W"
    BY <1>3 DEF ToSet
  <2> QED BY <1>3, <2>1, <2>2 DEF ToSet, AfterAddr, AfterSize, AfterData
<1>4. CASE s = <<"result">>
  <2>1. Head(s) = "result" /\ Tail(s) = << >>
    BY <1>4
  <2> QED BY <1>4, <2>1 DEF ToSet, AfterAddr, AfterSize, AfterData
<1>5. CASE s = <<"addr", "size", "result">>
  <2>1. Head(s) = "addr" /\ Tail(s) = <<"size", "result">> /\ Len(Tail(s)) = 2
    BY <1>5
  <2>2. t.rw # "W"
    BY <1>5 DEF ToSet
  <2> QED BY <2>1, <2>2 DEF ToSet, AfterAddr, AfterSize, AfterData
<1>6. CASE s = <<"size", "result">>
  <2>1. Head(s) = "size" /\ Tail(s) = <<"result">>
    BY <1>6
  <2>2. t.rw # "W"
    BY <1>6 DEF ToSet
  <2> QED BY <1>6, <2>1, <2>2 DEF ToSet, AfterAddr, AfterSize, AfterData
<1> QED BY <1>1, <1>2, <1>3, <1>4, <1>5, <1>6 DEF ToSet

LEMMA RunGrows ==
  ASSUME NEW d, NEW rw, NEW n \in Nat
  PROVE  Append(Run(d, rw, n), <<d, rw, n>>) = Run(d, rw, n + 1)
BY DEF Run

LEMMA RunLen ==
  ASSUME NEW d, NEW rw, NEW n \in Nat
  PROVE  Len(Run(d, rw, n)) = n
BY DEF Run

LEMMA InitInv == I2cDevAssumption /\ Init => IInv
<1> SUFFICES ASSUME I2cDevAssumption, Init PROVE IInv
  OBVIOUS
<1>1. TypeOK
  <2>1. frame \in [addr : Address, size : 0..I2C_MAX_BUFFER_SIZE,
                   data : [Position -> Bytes \cup {NoByte}], result : Result]
    BY DEF I2cDevAssumption, Init, NoDevice, Address, Result
  <2>2. isr \in [result : Result, counter : Position, retry : 0..MaxRetries]
    BY DEF I2cDevAssumption, Init, Result, Position
  <2>3. wire \in [addr : Address, bytes : Seq(Bytes \cup {NoByte})]
    BY DEF Init, Silence, NoDevice, Address
  <2>4. transfers \in Seq(Transfer)
        /\ to_set \in Seq({"addr", "size", "data", "result"})
    BY DEF Init
  <2>5. /\ caller \in {"ready", "setting", "waiting"}
        /\ is_interrupt_on \in BOOLEAN
        /\ twie \in BOOLEAN
        /\ op \in {"none", "start", "address", "byte", "grab", "last_grab"}
        /\ twdr \in Bytes \cup {NoByte}
        /\ collided \in BOOLEAN
    BY DEF Init
  <2> QED BY <2>1, <2>2, <2>3, <2>4, <2>5 DEF TypeOK
<1>2. CallerInv /\ FrameInv /\ TransferInv /\ StaysInBuffer /\ ResultIsKnown
  BY DEF Init, CallerInv, FrameInv, TransferInv, StaysInBuffer, ResultIsKnown
<1> QED BY <1>1, <1>2 DEF IInv

-----------------------------------------------------------------------------
(***************************************************************************)
(* The caller's steps.                                                     *)
(***************************************************************************)

\* A frame that is yet to be set promises nothing.
LEMMA BeginInv ==
  ASSUME I2cDevAssumption, IInv, NEW t \in Seq(Transfer), t # << >>, Begin(t),
         UNCHANGED <<frame, is_interrupt_on, isr, twie, op, twdr>>,
         wire' \in [addr : Address, bytes : Seq(Bytes \cup {NoByte})]
  PROVE  IInv'
<1>1. Head(t) \in Transfer
  OBVIOUS
<1>2. Current' = Head(t) /\ to_set' = Fields(Head(t)) /\ caller' = "setting"
  BY DEF Begin, Current
<1>3. TypeOK'
  BY <1>1, <1>2, FieldsToSet DEF IInv, TypeOK, Begin
<1>4. CallerInv'
  BY <1>1, <1>2, FieldsToSet DEF IInv, CallerInv, Begin
<1>5. FrameInv'
  BY <1>1, <1>2, FieldsToSet DEF FrameInv
<1>6. TransferInv' /\ StaysInBuffer' /\ ResultIsKnown'
  BY <1>2 DEF IInv, TransferInv, StaysInBuffer, ResultIsKnown
<1> QED BY <1>3, <1>4, <1>5, <1>6 DEF IInv

LEMMA GoBackInv ==
  ASSUME IInv, GoBack,
         UNCHANGED <<frame, is_interrupt_on, isr, twie, op, twdr>>,
         wire' \in [addr : Address, bytes : Seq(Bytes \cup {NoByte})]
  PROVE  IInv'
<1>1. TypeOK'
  BY DEF IInv, TypeOK, GoBack
<1>2. CallerInv' /\ FrameInv' /\ TransferInv' /\ StaysInBuffer' /\ ResultIsKnown'
  BY DEF IInv, CallerInv, FrameInv, TransferInv, StaysInBuffer, ResultIsKnown,
         GoBack
<1> QED BY <1>1, <1>2 DEF IInv

LEMMA ReturnInv ==
  ASSUME I2cDevAssumption, IInv, Return
  PROVE  IInv'
<1>1. wire' \in [addr : Address, bytes : Seq(Bytes \cup {NoByte})]
  BY DEF Return, Silence, Address, NoDevice
<1>2. CASE frame.result = "SUCCESSFUL" /\ Tail(transfers) # << >>
  <2>1. Tail(transfers) \in Seq(Transfer)
    BY DEF Return, IInv, TypeOK, CallerInv
  <2> QED BY <1>1, <1>2, <2>1, BeginInv DEF Return
<1>3. CASE ~(frame.result = "SUCCESSFUL" /\ Tail(transfers) # << >>)
  BY <1>1, <1>3, GoBackInv DEF Return
<1> QED BY <1>2, <1>3

LEMMA GiveUpInv ==
  ASSUME IInv, GiveUp
  PROVE  IInv'
BY GoBackInv DEF GiveUp, IInv, TypeOK

LEMMA SetFieldInv ==
  ASSUME I2cDevAssumption, IInv, SetField
  PROVE  IInv'
<1> DEFINE t == Current
<1>1. /\ caller = "setting" /\ caller' = "setting"
      /\ to_set # << >> /\ to_set' = Tail(to_set)
      /\ UNCHANGED <<transfers, is_interrupt_on, isr, twie, op, twdr, wire,
                     collided>>
  BY DEF SetField
<1>2. t \in Transfer /\ Current' = t
  BY <1>1, Transfers DEF IInv, Current
<1>3. /\ t.dev \in Devices /\ t.rw \in {"W", "R"}
      /\ t.size \in 1..I2C_MAX_BUFFER_SIZE
  BY <1>2 DEF Transfer
<1>4. to_set \in ToSet(t)
  BY <1>1 DEF IInv, CallerInv
<1>5. \/ Head(to_set) = "addr" /\ frame' = [frame EXCEPT !.addr = <<t.dev, t.rw>>]
      \/ Head(to_set) = "size" /\ frame' = [frame EXCEPT !.size = t.size]
      \/ Head(to_set) = "data" /\ frame' = [frame EXCEPT !.data =
           [k \in Position |-> IF k < t.size THEN <<t.dev, "W", k>> ELSE @[k]]]
      \/ Head(to_set) = "result" /\ frame' = [frame EXCEPT !.result = "PENDING"]
  BY DEF SetField, Current
<1>6. frame \in [addr : Address, size : 0..I2C_MAX_BUFFER_SIZE,
                 data : [Position -> Bytes \cup {NoByte}], result : Result]
  BY DEF IInv, TypeOK
<1>7. frame' \in [addr : Address, size : 0..I2C_MAX_BUFFER_SIZE,
                  data : [Position -> Bytes \cup {NoByte}], result : Result]
  <2>1. CASE frame' = [frame EXCEPT !.addr = <<t.dev, t.rw>>]
    BY <1>3, <1>6, <2>1 DEF Address
  <2>2. CASE frame' = [frame EXCEPT !.size = t.size]
    BY <1>3, <1>6, <2>2, I2cDevAssumption DEF I2cDevAssumption
  <2>3. CASE frame' = [frame EXCEPT !.data =
           [k \in Position |-> IF k < t.size THEN <<t.dev, "W", k>> ELSE @[k]]]
    <3>1. \A k \in Position : <<t.dev, "W", k>> \in Bytes
      BY <1>3 DEF Bytes, Position
    <3> QED BY <1>6, <2>3, <3>1
  <2>4. CASE frame' = [frame EXCEPT !.result = "PENDING"]
    BY <1>6, <2>4 DEF Result
  <2> QED BY <1>5, <2>1, <2>2, <2>3, <2>4
<1>8. TypeOK'
  <2>1. to_set' \in Seq({"addr", "size", "data", "result"})
    BY <1>1 DEF IInv, TypeOK
  <2> QED BY <1>1, <1>7, <2>1 DEF IInv, TypeOK
<1>9. CallerInv'
  BY <1>1, <1>2, <1>4, ToSetShrinks DEF IInv, CallerInv
<1>10. FrameInv'
  <2>1. to_set' \in AfterAddr => frame'.addr = <<t.dev, t.rw>>
    BY <1>1, <1>2, <1>4, <1>5, <1>6, ToSetShrinks DEF IInv, FrameInv
  <2>2. to_set' \in AfterSize => frame'.size = t.size
    BY <1>1, <1>2, <1>4, <1>5, <1>6, ToSetShrinks DEF IInv, FrameInv
  <2>3. to_set' \in AfterData /\ t.rw = "W" /\ ~collided' =>
          \A k \in Position : k < t.size => frame'.data[k] = <<t.dev, "W", k>>
    BY <1>1, <1>2, <1>4, <1>5, <1>6, ToSetShrinks DEF IInv, FrameInv
  <2> QED BY <1>2, <2>1, <2>2, <2>3 DEF FrameInv
<1>11. TransferInv' /\ StaysInBuffer' /\ ResultIsKnown'
  BY <1>1 DEF IInv, TransferInv, StaysInBuffer, ResultIsKnown
<1> QED BY <1>8, <1>9, <1>10, <1>11 DEF IInv

LEMMA SignalStartInv ==
  ASSUME IInv, SignalStart
  PROVE  IInv'
<1>1. /\ caller = "setting" /\ caller' = "waiting"
      /\ to_set = << >> /\ twie' = TRUE
      /\ UNCHANGED <<transfers, to_set, frame, isr, twdr, wire>>
      /\ \/ op' = "start"
         \/ op \notin {"none", "start"} /\ op' = op
      /\ collided' = (collided \/ op' # "start")
      /\ is_interrupt_on' = FALSE
  BY DEF SignalStart
<1>2. Current' = Current
  BY <1>1 DEF Current
<1>3. TypeOK'
  BY <1>1 DEF IInv, TypeOK
<1>4. CallerInv'
  BY <1>1, <1>2 DEF IInv, CallerInv, TypeOK
<1>5. FrameInv'
  BY <1>1, <1>2 DEF IInv, FrameInv
<1>6. TransferInv'
  BY <1>1, <1>2 DEF TransferInv
<1>7. StaysInBuffer' /\ ResultIsKnown'
  BY <1>1 DEF IInv, StaysInBuffer, ResultIsKnown
<1> QED BY <1>3, <1>4, <1>5, <1>6, <1>7 DEF IInv

LEMMA CallDriverInv ==
  ASSUME I2cDevAssumption, IInv, NEW call \in Call, CallDriver(call)
  PROVE  IInv'
<1>1. wire' \in [addr : Address, bytes : Seq(Bytes \cup {NoByte})]
  BY DEF CallDriver, IInv, TypeOK
<1> QED BY <1>1, Calls, BeginInv DEF CallDriver

-----------------------------------------------------------------------------
(***************************************************************************)
(* The steps of the interrupt routine.                                     *)
(***************************************************************************)

\* What an interrupt leaves alone.
Interrupted ==
  /\ FrameInv'
  /\ Current' = Current
  /\ caller' = caller /\ transfers' = transfers /\ to_set' = to_set
  /\ is_interrupt_on' = TRUE
  /\ collided' = (collided \/ caller = "setting")

\* What a caller that sets a frame has set outlasts an interrupt, the data apart;
\* in a caller that waits the data change only if the transfer receives them.
LEMMA InterruptFrame ==
  ASSUME IInv, NEW during, Interrupt(during),
         frame'.addr = frame.addr, frame'.size = frame.size,
         \/ frame'.data = frame.data
         \/ caller = "waiting" /\ ~collided => Current.rw = "R"
  PROVE  Interrupted /\ op \in during
<1>1. /\ caller' = caller /\ transfers' = transfers /\ to_set' = to_set
      /\ collided' = (collided \/ caller = "setting")
      /\ is_interrupt_on' = TRUE /\ op \in during
  BY DEF Interrupt, callerVars
<1>2. Current' = Current
  BY <1>1 DEF Current
<1>3. FrameInv'
  <2>1. CASE caller = "waiting"
    BY <1>1, <1>2, <2>1 DEF IInv, FrameInv
  <2>2. CASE caller = "setting"
    BY <1>1, <1>2, <2>2 DEF IInv, FrameInv
  <2>3. CASE caller = "ready"
    BY <1>1, <2>3 DEF FrameInv
  <2> QED BY <2>1, <2>2, <2>3 DEF IInv, TypeOK
<1> QED BY <1>1, <1>2, <1>3 DEF Interrupted

\* A transfer that waits for its frame undisturbed.
Undisturbed == caller = "waiting" /\ ~collided

LEMMA UndisturbedFrame ==
  ASSUME IInv, Undisturbed
  PROVE  /\ Current \in Transfer
         /\ frame.addr = <<Current.dev, Current.rw>>
         /\ frame.size = Current.size
         /\ Current.rw = "W" =>
              \A k \in Position : k < Current.size =>
                frame.data[k] = <<Current.dev, "W", k>>
<1>1. Current \in Transfer
  BY Transfers DEF Undisturbed, IInv
<1>2. to_set = << >>
  BY DEF Undisturbed, IInv, CallerInv
<1>3. to_set \in AfterAddr /\ to_set \in AfterSize /\ to_set \in AfterData
  BY <1>2 DEF AfterAddr, AfterSize, AfterData
<1> QED BY <1>1, <1>3 DEF Undisturbed, IInv, FrameInv

LEMMA StartedInv ==
  ASSUME IInv, Started
  PROVE  IInv'
<1>1. /\ frame' = frame /\ twie' = twie /\ twdr' = twdr /\ op' = "address"
      /\ wire' = [addr |-> frame.addr, bytes |-> << >>]
      /\ isr' = [isr EXCEPT !.result = "PENDING"]
      /\ Interrupt({"start"})
  BY DEF Started
<1>2. Interrupted /\ op = "start"
  BY <1>1, InterruptFrame
<1>3. TypeOK'
  BY <1>1, <1>2 DEF Interrupted, IInv, TypeOK, Result
<1>4. CallerInv'
  BY <1>1, <1>2 DEF Interrupted, IInv, CallerInv
<1>5. TransferInv'
  <2>1. SUFFICES ASSUME Undisturbed'
                 PROVE  /\ wire'.addr = <<Current.dev, Current.rw>>
                        /\ Moved(Current, 0)'
    BY <1>1, <1>2 DEF Interrupted, TransferInv, Undisturbed
  <2>2. Undisturbed
    BY <1>2, <2>1 DEF Interrupted, Undisturbed
  <2>3. Run(Current.dev, Current.rw, 0) = << >>
    BY DEF Run
  <2>4. Moved(Current, 0)'
    BY <1>1, <1>2, <2>3 DEF Interrupted, Moved, Position
  <2> QED BY <1>1, <2>2, <2>4, UndisturbedFrame
<1>6. StaysInBuffer' /\ ResultIsKnown'
  BY <1>1, <1>2 DEF Interrupted, IInv, CallerInv, StaysInBuffer, ResultIsKnown
<1> QED BY <1>2, <1>3, <1>4, <1>5, <1>6 DEF Interrupted, IInv

\* The end of a transfer.
LEMMA FinishInv ==
  ASSUME I2cDevAssumption, IInv, Interrupted,
         NEW result \in Result \ {"PENDING"},
         NEW data \in [Position -> Bytes \cup {NoByte}], Finish(result, data),
         wire' \in [addr : Address, bytes : Seq(Bytes \cup {NoByte})],
         result = "SUCCESSFUL" /\ Undisturbed =>
           wire'.addr = <<Current.dev, Current.rw>> /\ Moved(Current, Current.size)'
  PROVE  IInv'
<1>1. /\ twie' = FALSE /\ op' = "none" /\ twdr' = NoByte
      /\ isr' = [result |-> result, counter |-> 0, retry |-> 0]
      /\ frame' = [frame EXCEPT !.data = data, !.result = result]
  BY DEF Finish
<1>2. TypeOK'
  <2>1. isr' \in [result : Result, counter : Position, retry : 0..MaxRetries]
    BY <1>1, I2cDevAssumption DEF I2cDevAssumption, Position
  <2>2. frame' \in [addr : Address, size : 0..I2C_MAX_BUFFER_SIZE,
                    data : [Position -> Bytes \cup {NoByte}], result : Result]
    BY <1>1 DEF IInv, TypeOK
  <2> QED BY <1>1, <2>1, <2>2 DEF Interrupted, IInv, TypeOK
<1>3. CallerInv'
  BY <1>1 DEF Interrupted, IInv, CallerInv
<1>4. frame'.result = result
  BY <1>1 DEF IInv, TypeOK
<1>5. TransferInv'
  <2>1. SUFFICES ASSUME Undisturbed', result = "SUCCESSFUL"
                 PROVE  /\ wire'.addr = <<Current.dev, Current.rw>>
                        /\ Moved(Current, Current.size)'
    BY <1>1, <1>4 DEF Interrupted, TransferInv, Undisturbed
  <2>2. Undisturbed
    BY <2>1 DEF Interrupted, Undisturbed
  <2> QED BY <2>1, <2>2
<1>6. StaysInBuffer' /\ ResultIsKnown'
  BY <1>1, <1>4 DEF StaysInBuffer, ResultIsKnown
<1> QED BY <1>2, <1>3, <1>5, <1>6 DEF Interrupted, IInv

\* Types the steps below need.
LEMMA FrameData ==
  ASSUME IInv
  PROVE  frame.data \in [Position -> Bytes \cup {NoByte}]
BY DEF IInv, TypeOK

LEMMA IsrType ==
  ASSUME IInv
  PROVE  isr \in [result : Result, counter : Position, retry : 0..MaxRetries]
BY DEF IInv, TypeOK

LEMMA WireGrows ==
  ASSUME NEW S, NEW w \in [addr : Address, bytes : Seq(S)], NEW b \in S
  PROVE  /\ [w EXCEPT !.bytes = Append(@, b)] \in [addr : Address, bytes : Seq(S)]
         /\ [w EXCEPT !.bytes = Append(@, b)].addr = w.addr
         /\ [w EXCEPT !.bytes = Append(@, b)].bytes = Append(w.bytes, b)
<1>1. Append(w.bytes, b) \in Seq(S)
  OBVIOUS
<1> QED BY <1>1

LEMMA Zero ==
  ASSUME I2cDevAssumption
  PROVE  0 \in Position /\ 0 \in 0..MaxRetries
BY DEF I2cDevAssumption, Position

LEMMA AddressRefusedInv ==
  ASSUME I2cDevAssumption, IInv, AddressRefused
  PROVE  IInv'
<1>1. Finish("ADDR", frame.data) /\ UNCHANGED wire /\ Interrupt({"address"})
  BY DEF AddressRefused
<1>2. Interrupted
  BY <1>1, InterruptFrame DEF Finish, IInv, TypeOK
<1>3. "ADDR" \in Result \ {"PENDING"}
  BY DEF Result, Failure
<1>4. wire' \in [addr : Address, bytes : Seq(Bytes \cup {NoByte})]
  BY <1>1 DEF IInv, TypeOK
<1> QED BY <1>1, <1>2, <1>3, <1>4, FinishInv, FrameData

LEMMA DisturbedInv ==
  ASSUME I2cDevAssumption, IInv, NEW result \in {"BUS_ERROR", "NOT_SUPPORTED"},
         Disturbed(result)
  PROVE  IInv'
<1>1. /\ Finish(result, frame.data) /\ UNCHANGED wire
      /\ Interrupt({"start", "address", "byte", "grab", "last_grab"})
  BY DEF Disturbed
<1>2. Interrupted
  BY <1>1, InterruptFrame DEF Finish, IInv, TypeOK
<1>3. result \in Result \ {"PENDING"} /\ result # "SUCCESSFUL"
  BY DEF Result, Failure
<1>4. wire' \in [addr : Address, bytes : Seq(Bytes \cup {NoByte})]
  BY <1>1 DEF IInv, TypeOK
<1> QED BY <1>1, <1>2, <1>3, <1>4, FinishInv, FrameData

LEMMA AddressedForWritingInv ==
  ASSUME I2cDevAssumption, IInv, AddressedForWriting
  PROVE  IInv'
<1>1. /\ op = "address" /\ wire.addr[2] = "W"
      /\ isr' = [isr EXCEPT !.counter = 0, !.retry = 0]
      /\ op' = "byte" /\ twdr' = frame.data[0]
      /\ UNCHANGED <<frame, wire, twie>>
  BY DEF AddressedForWriting, SendByte, Interrupt
<1>2. Interrupted
  BY <1>1, InterruptFrame DEF AddressedForWriting
<1>3. 0 \in Position
  BY I2cDevAssumption DEF I2cDevAssumption, Position
<1>4. TypeOK'
  <2>1. isr' \in [result : Result, counter : Position, retry : 0..MaxRetries]
    BY <1>1, IsrType, Zero
  <2>2. twdr' \in Bytes \cup {NoByte}
    BY <1>1, <1>3, FrameData
  <2> QED BY <1>1, <1>2, <2>1, <2>2 DEF Interrupted, IInv, TypeOK
<1>5. isr'.counter = 0
  BY <1>1 DEF IInv, TypeOK
<1>6. CallerInv'
  BY <1>1, <1>2 DEF Interrupted, IInv, CallerInv
<1>7. TransferInv'
  <2>1. SUFFICES ASSUME Undisturbed'
                 PROVE  /\ wire'.addr = <<Current.dev, Current.rw>>
                        /\ Current.rw = "W"
                        /\ 0 < Current.size
                        /\ twdr' = <<Current.dev, "W", 0>>
                        /\ Moved(Current, 0)'
    BY <1>1, <1>2, <1>5 DEF Interrupted, TransferInv, Undisturbed, Moved
  <2>2. Undisturbed
    BY <1>2, <2>1 DEF Interrupted, Undisturbed
  <2>3. wire.addr = <<Current.dev, Current.rw>> /\ Moved(Current, 0)
    BY <1>1, <2>2 DEF Undisturbed, IInv, TransferInv
  <2>4. Current.rw = "W" /\ 0 < Current.size
    BY <1>1, <2>2, <2>3, UndisturbedFrame DEF Transfer
  <2>5. twdr' = <<Current.dev, "W", 0>>
    BY <1>1, <1>3, <2>2, <2>4, UndisturbedFrame
  <2>6. Moved(Current, 0)'
    BY <1>1, <1>2, <2>3 DEF Interrupted, Moved
  <2> QED BY <1>1, <2>3, <2>4, <2>5, <2>6
<1>8. StaysInBuffer' /\ ResultIsKnown'
  BY <1>1, <1>2, <1>5, I2cDevAssumption
     DEF I2cDevAssumption, Interrupted, IInv, CallerInv, StaysInBuffer, ResultIsKnown
<1> QED BY <1>2, <1>4, <1>6, <1>7, <1>8 DEF Interrupted, IInv

LEMMA AddressedForReadingInv ==
  ASSUME I2cDevAssumption, IInv, AddressedForReading
  PROVE  IInv'
<1>1. /\ op = "address" /\ wire.addr[2] = "R"
      /\ isr' = [isr EXCEPT !.counter = 0, !.retry = 0]
      /\ op' = IF 1 >= frame.size THEN "last_grab" ELSE "grab"
      /\ UNCHANGED <<frame, wire, twie, twdr>>
  BY DEF AddressedForReading, GrabByte, Interrupt
<1>2. Interrupted
  BY <1>1, InterruptFrame DEF AddressedForReading
<1>3. frame.size \in 0..I2C_MAX_BUFFER_SIZE
  BY DEF IInv, TypeOK
<1>4. TypeOK'
  <2>1. isr' \in [result : Result, counter : Position, retry : 0..MaxRetries]
    BY <1>1, IsrType, Zero
  <2> QED BY <1>1, <1>2, <2>1 DEF Interrupted, IInv, TypeOK
<1>5. isr'.counter = 0
  BY <1>1, IsrType
<1>6. CallerInv'
  BY <1>1, <1>2 DEF Interrupted, IInv, CallerInv
<1>7. TransferInv'
  <2>1. SUFFICES ASSUME Undisturbed'
                 PROVE  /\ wire'.addr = <<Current.dev, Current.rw>>
                        /\ Current.rw = "R"
                        /\ op' = "grab" => 1 < Current.size
                        /\ op' = "last_grab" => 1 = Current.size
                        /\ Moved(Current, 0)'
    BY <1>1, <1>2, <1>5 DEF Interrupted, TransferInv, Undisturbed, Moved
  <2>2. Undisturbed
    BY <1>2, <2>1 DEF Interrupted, Undisturbed
  <2>3. wire.addr = <<Current.dev, Current.rw>> /\ Moved(Current, 0)
    BY <1>1, <2>2 DEF Undisturbed, IInv, TransferInv
  <2>4. Current.rw = "R"
    BY <1>1, <2>3
  <2>5. frame.size = Current.size /\ Current.size \in 1..I2C_MAX_BUFFER_SIZE
    BY <2>2, UndisturbedFrame DEF Transfer
  <2>6. (op' = "grab" => 1 < Current.size) /\ (op' = "last_grab" => 1 = Current.size)
    BY <1>1, <2>5, I2cDevAssumption DEF I2cDevAssumption
  <2>7. Moved(Current, 0)'
    BY <1>1, <1>2, <2>3 DEF Interrupted, Moved
  <2> QED BY <1>1, <2>3, <2>4, <2>6, <2>7
<1>8. StaysInBuffer' /\ ResultIsKnown'
  BY <1>1, <1>2, <1>5, I2cDevAssumption
     DEF I2cDevAssumption, Interrupted, IInv, CallerInv, StaysInBuffer, ResultIsKnown
<1> QED BY <1>2, <1>4, <1>6, <1>7, <1>8 DEF Interrupted, IInv

\* A byte follows when another has been sent, or is sent again.
LEMMA ByteSentInv ==
  ASSUME I2cDevAssumption, IInv, ByteSent
  PROVE  IInv'
<1> DEFINE c == isr.counter
<1>1. /\ op = "byte"
      /\ wire' = [wire EXCEPT !.bytes = Append(@, twdr)]
      /\ Interrupt({"byte"})
  BY DEF ByteSent, Interrupt
<1>2. Interrupted
  BY <1>1, InterruptFrame DEF ByteSent, Finish, IInv, TypeOK
<1>3. /\ c \in Position /\ frame.size \in 0..I2C_MAX_BUFFER_SIZE
      /\ wire \in [addr : Address, bytes : Seq(Bytes \cup {NoByte})]
      /\ twdr \in Bytes \cup {NoByte}
  BY DEF IInv, TypeOK
<1>4. /\ wire' \in [addr : Address, bytes : Seq(Bytes \cup {NoByte})]
      /\ wire'.addr = wire.addr
      /\ wire'.bytes = Append(wire.bytes, twdr)
  BY <1>1, <1>3, WireGrows
<1>5. ASSUME Undisturbed
      PROVE  /\ Current.rw = "W" /\ c < Current.size
             /\ frame.size = Current.size
             /\ Current.size \in 1..I2C_MAX_BUFFER_SIZE
             /\ wire'.addr = <<Current.dev, Current.rw>>
             /\ wire'.bytes = Run(Current.dev, Current.rw, c + 1)
  <2>1. /\ wire.addr = <<Current.dev, Current.rw>>
        /\ Current.rw = "W" /\ c < Current.size
        /\ twdr = <<Current.dev, "W", c>>
        /\ wire.bytes = Run(Current.dev, Current.rw, c)
    BY <1>1, <1>5 DEF Undisturbed, IInv, TransferInv, Moved
  <2>2. Append(Run(Current.dev, Current.rw, c), <<Current.dev, Current.rw, c>>)
          = Run(Current.dev, Current.rw, c + 1)
    <3>1. c \in Nat
      BY <1>3, I2cDevAssumption DEF I2cDevAssumption, Position
    <3> HIDE DEF c
    <3> QED BY <3>1, RunGrows, Zenon
  <2>3. wire'.bytes = Run(Current.dev, Current.rw, c + 1)
    BY <1>4, <2>1, <2>2
  <2> QED BY <1>4, <1>5, <2>1, <2>3, UndisturbedFrame DEF Transfer
<1>6. CASE /\ c + 1 < frame.size
           /\ isr' = [isr EXCEPT !.counter = @ + 1]
           /\ SendByte(NextByte)
           /\ UNCHANGED frame
  <2>1. c + 1 \in Position
    BY <1>3, <1>6, I2cDevAssumption DEF I2cDevAssumption, Position
  <2>2. /\ op' = "byte" /\ twdr' = frame.data[c + 1]
        /\ UNCHANGED <<twie, frame>>
    BY <1>6 DEF SendByte, NextByte
  <2>3. /\ isr' \in [result : Result, counter : Position, retry : 0..MaxRetries]
        /\ isr'.counter = c + 1
    BY <1>6, <2>1, IsrType
  <2>4. TypeOK'
    <3>1. twdr' \in Bytes \cup {NoByte}
      BY <2>1, <2>2, FrameData
    <3> QED BY <1>2, <1>4, <2>2, <2>3, <3>1 DEF Interrupted, IInv, TypeOK
  <2>5. CallerInv'
    BY <1>1, <1>2, <2>2 DEF Interrupted, IInv, CallerInv
  <2>6. TransferInv'
    <3>1. SUFFICES ASSUME Undisturbed'
                   PROVE  /\ wire'.addr = <<Current.dev, Current.rw>>
                          /\ Current.rw = "W" /\ c + 1 < Current.size
                          /\ twdr' = <<Current.dev, "W", c + 1>>
                          /\ wire'.bytes = Run(Current.dev, Current.rw, c + 1)
      BY <1>2, <2>2, <2>3 DEF Interrupted, TransferInv, Undisturbed, Moved
    <3>2. Undisturbed
      BY <1>2, <3>1 DEF Interrupted, Undisturbed
    <3>3. twdr' = <<Current.dev, "W", c + 1>>
      BY <1>5, <1>6, <2>1, <2>2, <3>2, UndisturbedFrame
    <3> QED BY <1>5, <1>6, <3>2, <3>3
  <2>7. StaysInBuffer' /\ ResultIsKnown'
    BY <1>1, <1>2, <2>1, <2>2, <2>3
       DEF Position, Interrupted, IInv, CallerInv, StaysInBuffer, ResultIsKnown
  <2> QED BY <1>2, <2>4, <2>5, <2>6, <2>7 DEF Interrupted, IInv
<1>7. CASE c + 1 >= frame.size /\ Finish("SUCCESSFUL", frame.data)
  <2>1. "SUCCESSFUL" \in Result \ {"PENDING"}
    BY DEF Result
  <2>2. ASSUME Undisturbed
        PROVE  /\ wire'.addr = <<Current.dev, Current.rw>>
               /\ Moved(Current, Current.size)'
    <3>1. c + 1 = Current.size
      BY <1>3, <1>5, <1>7, <2>2, I2cDevAssumption DEF I2cDevAssumption, Position
    <3> QED BY <1>2, <1>5, <2>2, <3>1 DEF Interrupted, Moved
  <2> QED BY <1>2, <1>4, <1>7, <2>1, <2>2, FinishInv, FrameData
<1> QED BY <1>6, <1>7 DEF ByteSent

LEMMA ByteRefusedInv ==
  ASSUME I2cDevAssumption, IInv, ByteRefused
  PROVE  IInv'
<1> DEFINE c == isr.counter
<1>1. op = "byte" /\ UNCHANGED wire /\ Interrupt({"byte"})
  BY DEF ByteRefused, Interrupt
<1>2. Interrupted
  BY <1>1, InterruptFrame DEF ByteRefused, Finish, IInv, TypeOK
<1>3. /\ c \in Position
      /\ wire \in [addr : Address, bytes : Seq(Bytes \cup {NoByte})]
  BY DEF IInv, TypeOK
<1>4. CASE /\ MayRetry(NextRetry)
           /\ isr' = [isr EXCEPT !.retry = NextRetry]
           /\ SendByte(c)
           /\ UNCHANGED frame
  <2>1. NextRetry \in 0..MaxRetries
    BY <1>4, IsrType, I2cDevAssumption DEF I2cDevAssumption, MayRetry, NextRetry
  <2>2. /\ op' = "byte" /\ twdr' = frame.data[c]
        /\ UNCHANGED <<twie, frame>>
    BY <1>4 DEF SendByte
  <2>3. /\ isr' \in [result : Result, counter : Position, retry : 0..MaxRetries]
        /\ isr'.counter = c
    BY <1>4, <2>1, IsrType
  <2>4. TypeOK'
    <3>1. twdr' \in Bytes \cup {NoByte}
      BY <1>3, <2>2, FrameData
    <3> QED BY <1>1, <1>2, <2>2, <2>3, <3>1 DEF Interrupted, IInv, TypeOK
  <2>5. CallerInv'
    BY <1>1, <1>2, <2>2 DEF Interrupted, IInv, CallerInv
  <2>6. TransferInv'
    <3>1. SUFFICES ASSUME Undisturbed'
                   PROVE  /\ wire.addr = <<Current.dev, Current.rw>>
                          /\ Current.rw = "W" /\ c < Current.size
                          /\ twdr' = <<Current.dev, "W", c>>
                          /\ wire.bytes = Run(Current.dev, Current.rw, c)
      BY <1>1, <1>2, <2>2, <2>3 DEF Interrupted, TransferInv, Undisturbed, Moved
    <3>2. Undisturbed
      BY <1>2, <3>1 DEF Interrupted, Undisturbed
    <3>3. /\ wire.addr = <<Current.dev, Current.rw>>
          /\ Current.rw = "W" /\ c < Current.size
          /\ wire.bytes = Run(Current.dev, Current.rw, c)
      BY <1>1, <3>2 DEF Undisturbed, IInv, TransferInv, Moved
    <3>4. twdr' = <<Current.dev, "W", c>>
      BY <1>3, <2>2, <3>2, <3>3, UndisturbedFrame
    <3> QED BY <3>3, <3>4
  <2>7. StaysInBuffer' /\ ResultIsKnown'
    BY <1>1, <1>2, <1>3, <2>2, <2>3, I2cDevAssumption
       DEF I2cDevAssumption, Position, Interrupted, IInv, CallerInv, StaysInBuffer,
           ResultIsKnown
  <2> QED BY <1>2, <2>4, <2>5, <2>6, <2>7 DEF Interrupted, IInv
<1>5. CASE Finish(IF isr.result = "ADDR" THEN "ADDR" ELSE "DATA", frame.data)
  <2>1. /\ (IF isr.result = "ADDR" THEN "ADDR" ELSE "DATA") \in Result \ {"PENDING"}
        /\ (IF isr.result = "ADDR" THEN "ADDR" ELSE "DATA") # "SUCCESSFUL"
    BY DEF Result, Failure
  <2>2. wire' \in [addr : Address, bytes : Seq(Bytes \cup {NoByte})]
    BY <1>1, <1>3
  <2> QED BY <1>2, <1>5, <2>1, <2>2, FinishInv, FrameData
<1> QED BY <1>4, <1>5 DEF ByteRefused

\* What a byte that is received does to the wire and to the buffer.
LEMMA ReceivedByte ==
  ASSUME I2cDevAssumption, IInv, op \in {"grab", "last_grab"},
         NEW w, w = [wire EXCEPT !.bytes = Append(@, Incoming)]
  PROVE  /\ w \in [addr : Address, bytes : Seq(Bytes \cup {NoByte})]
         /\ Stored \in [Position -> Bytes \cup {NoByte}]
         /\ Undisturbed =>
              /\ Current.rw = "R"
              /\ frame.size = Current.size
              /\ w.addr = <<Current.dev, Current.rw>>
              /\ w.bytes = Run(Current.dev, Current.rw, isr.counter + 1)
              /\ \A k \in Position : k < isr.counter + 1 =>
                   Stored[k] = <<Current.dev, "R", k>>
<1> DEFINE c == isr.counter
<1>1. /\ c \in Position
      /\ wire \in [addr : Address, bytes : Seq(Bytes \cup {NoByte})]
  BY DEF IInv, TypeOK
<1>2. Incoming \in Bytes
  <2>1. wire.addr[1] \in Devices \cup {NoDevice}
    BY <1>1 DEF Address
  <2>2. Len(wire.bytes) \in Nat
    BY <1>1
  <2> QED BY <2>1, <2>2 DEF Incoming, Bytes
<1>3. /\ w \in [addr : Address, bytes : Seq(Bytes \cup {NoByte})]
      /\ w.addr = wire.addr
      /\ w.bytes = Append(wire.bytes, Incoming)
  BY <1>1, <1>2, WireGrows
<1>4. /\ Stored \in [Position -> Bytes \cup {NoByte}]
      /\ Stored[c] = Incoming
      /\ \A k \in Position : k # c => Stored[k] = frame.data[k]
  BY <1>1, <1>2, FrameData DEF Stored
<1>5. ASSUME Undisturbed
      PROVE  /\ Current.rw = "R"
             /\ frame.size = Current.size
             /\ w.addr = <<Current.dev, Current.rw>>
             /\ w.bytes = Run(Current.dev, Current.rw, c + 1)
             /\ \A k \in Position : k < c + 1 =>
                  Stored[k] = <<Current.dev, "R", k>>
  <2>1. /\ wire.addr = <<Current.dev, Current.rw>>
        /\ Current.rw = "R"
        /\ wire.bytes = Run(Current.dev, Current.rw, c)
        /\ \A k \in Position : k < c => frame.data[k] = <<Current.dev, "R", k>>
    BY <1>5 DEF Undisturbed, IInv, TransferInv, Moved
  <2>2. c \in Nat
    BY <1>1, I2cDevAssumption DEF I2cDevAssumption, Position
  <2>3. Len(wire.bytes) = c
    BY <2>1, <2>2, RunLen
  <2>4. Incoming = <<Current.dev, "R", c>>
    BY <2>1, <2>3 DEF Incoming
  <2>5. Append(Run(Current.dev, Current.rw, c), <<Current.dev, Current.rw, c>>)
          = Run(Current.dev, Current.rw, c + 1)
    <3> HIDE DEF c
    <3> QED BY <2>2, RunGrows, Zenon
  <2>6. w.bytes = Run(Current.dev, Current.rw, c + 1)
    BY <1>3, <2>1, <2>4, <2>5
  <2>7. \A k \in Position : k < c + 1 => Stored[k] = <<Current.dev, "R", k>>
    BY <1>4, <2>1, <2>2, <2>4 DEF Position
  <2> QED BY <1>3, <1>5, <2>1, <2>6, <2>7, UndisturbedFrame
<1> QED BY <1>3, <1>4, <1>5

LEMMA ByteReceivedInv ==
  ASSUME I2cDevAssumption, IInv, ByteReceived
  PROVE  IInv'
<1> DEFINE c == isr.counter
<1>1. /\ op = "grab" /\ twie
      /\ wire' = [wire EXCEPT !.bytes = Append(@, Incoming)]
      /\ frame' = [frame EXCEPT !.data = Stored]
      /\ isr' = [isr EXCEPT !.counter = @ + 1]
      /\ op' = IF c + 2 >= frame.size THEN "last_grab" ELSE "grab"
      /\ UNCHANGED <<twie, twdr>>
      /\ Interrupt({"grab"})
  BY DEF ByteReceived, GrabByte, Interrupt
<1>2. /\ wire' \in [addr : Address, bytes : Seq(Bytes \cup {NoByte})]
      /\ Stored \in [Position -> Bytes \cup {NoByte}]
      /\ Undisturbed =>
           /\ Current.rw = "R"
           /\ frame.size = Current.size
           /\ wire'.addr = <<Current.dev, Current.rw>>
           /\ wire'.bytes = Run(Current.dev, Current.rw, c + 1)
           /\ \A k \in Position : k < c + 1 => Stored[k] = <<Current.dev, "R", k>>
  BY <1>1, ReceivedByte
<1>3. /\ frame \in [addr : Address, size : 0..I2C_MAX_BUFFER_SIZE,
                    data : [Position -> Bytes \cup {NoByte}], result : Result]
      /\ c \in Position
  BY DEF IInv, TypeOK
<1>4. /\ frame' \in [addr : Address, size : 0..I2C_MAX_BUFFER_SIZE,
                     data : [Position -> Bytes \cup {NoByte}], result : Result]
      /\ frame'.addr = frame.addr /\ frame'.size = frame.size
      /\ frame'.result = frame.result /\ frame'.data = Stored
  BY <1>1, <1>2, <1>3
<1>5. Interrupted
  BY <1>1, <1>2, <1>4, InterruptFrame DEF Undisturbed
<1>6. c + 1 \in Position
  BY <1>1, <1>3, I2cDevAssumption DEF I2cDevAssumption, Position, IInv, StaysInBuffer
<1>7. /\ isr' \in [result : Result, counter : Position, retry : 0..MaxRetries]
      /\ isr'.counter = c + 1
  BY <1>1, <1>6, IsrType
<1>8. TypeOK'
  BY <1>1, <1>2, <1>4, <1>5, <1>7 DEF Interrupted, IInv, TypeOK
<1>9. CallerInv'
  BY <1>1, <1>5 DEF Interrupted, IInv, CallerInv
<1>10. TransferInv'
  <2>1. SUFFICES ASSUME Undisturbed'
                 PROVE  /\ wire'.addr = <<Current.dev, Current.rw>>
                        /\ Current.rw = "R"
                        /\ op' = "grab" => c + 2 < Current.size
                        /\ op' = "last_grab" => c + 2 = Current.size
                        /\ Moved(Current, c)'
    BY <1>1, <1>3, <1>5, <1>7, I2cDevAssumption, SMTT(30)
       DEF I2cDevAssumption, Position, Interrupted, TransferInv, Undisturbed, Moved
  <2>2. Undisturbed
    BY <1>5, <2>1 DEF Interrupted, Undisturbed
  <2>3. c + 1 < Current.size /\ Current.size \in 1..I2C_MAX_BUFFER_SIZE
    BY <1>1, <2>2, UndisturbedFrame DEF Undisturbed, IInv, TransferInv, Transfer
  <2>4. (op' = "grab" => c + 2 < Current.size)
        /\ (op' = "last_grab" => c + 2 = Current.size)
    BY <1>1, <1>2, <1>3, <2>2, <2>3, I2cDevAssumption DEF I2cDevAssumption, Position
  <2>5. Moved(Current, c)'
    BY <1>2, <1>4, <1>5, <1>7, <2>2 DEF Interrupted, Moved
  <2> QED BY <1>2, <2>2, <2>4, <2>5
<1>11. StaysInBuffer'
  BY <1>1, <1>3, <1>4, <1>6, <1>7, I2cDevAssumption
     DEF I2cDevAssumption, Position, StaysInBuffer
<1>12. ResultIsKnown'
  BY <1>1 DEF ResultIsKnown
<1> QED BY <1>5, <1>8, <1>9, <1>10, <1>11, <1>12 DEF Interrupted, IInv

LEMMA LastByteReceivedInv ==
  ASSUME I2cDevAssumption, IInv, LastByteReceived
  PROVE  IInv'
<1> DEFINE c == isr.counter
<1>1. /\ op = "last_grab"
      /\ wire' = [wire EXCEPT !.bytes = Append(@, Incoming)]
      /\ Finish("SUCCESSFUL", Stored)
      /\ Interrupt({"last_grab"})
  BY DEF LastByteReceived, Interrupt
<1>2. /\ wire' \in [addr : Address, bytes : Seq(Bytes \cup {NoByte})]
      /\ Stored \in [Position -> Bytes \cup {NoByte}]
      /\ Undisturbed =>
           /\ Current.rw = "R"
           /\ frame.size = Current.size
           /\ wire'.addr = <<Current.dev, Current.rw>>
           /\ wire'.bytes = Run(Current.dev, Current.rw, c + 1)
           /\ \A k \in Position : k < c + 1 => Stored[k] = <<Current.dev, "R", k>>
  BY <1>1, ReceivedByte
<1>3. /\ frame'.addr = frame.addr /\ frame'.size = frame.size
      /\ frame'.data = Stored
  BY <1>1 DEF Finish, IInv, TypeOK
<1>4. Interrupted
  BY <1>1, <1>2, <1>3, InterruptFrame DEF Undisturbed
<1>5. ASSUME Undisturbed
      PROVE  /\ wire'.addr = <<Current.dev, Current.rw>>
             /\ Moved(Current, Current.size)'
  <2>1. c + 1 = Current.size
    BY <1>1, <1>5 DEF Undisturbed, IInv, TransferInv
  <2>2. /\ wire'.bytes = Run(Current.dev, Current.rw, Current.size)
        /\ \A k \in Position : k < Current.size =>
             frame'.data[k] = <<Current.dev, "R", k>>
    BY <1>2, <1>3, <1>5, <2>1
  <2> QED BY <1>2, <1>4, <1>5, <2>2 DEF Interrupted, Moved
<1>6. "SUCCESSFUL" \in Result \ {"PENDING"}
  BY DEF Result
<1> QED BY <1>1, <1>2, <1>4, <1>5, <1>6, FinishInv

LEMMA StutterInv ==
  ASSUME IInv, UNCHANGED vars
  PROVE  IInv'
<1>1. TypeOK' /\ CallerInv' /\ StaysInBuffer' /\ ResultIsKnown'
  BY DEF vars, callerVars, IInv, TypeOK, CallerInv, StaysInBuffer, ResultIsKnown,
         Current
<1>2. FrameInv'
  BY DEF vars, callerVars, IInv, FrameInv, Current
<1>3. TransferInv'
  BY DEF vars, callerVars, IInv, TransferInv, Moved, Current
<1> QED BY <1>1, <1>2, <1>3 DEF IInv

-----------------------------------------------------------------------------

LEMMA NextInv ==
  ASSUME I2cDevAssumption, IInv, [Next]_vars
  PROVE  IInv'
BY CallDriverInv, SetFieldInv, SignalStartInv, ReturnInv, GiveUpInv, StartedInv,
   AddressedForWritingInv, AddressedForReadingInv, AddressRefusedInv, ByteSentInv,
   ByteRefusedInv, ByteReceivedInv, LastByteReceivedInv, DisturbedInv, StutterInv
   DEF Next, TWI_vect, BusError, NotSupported

\* The invariant is one of the driver.
THEOREM Invariant == Spec => []IInv
BY InitInv, NextInv, I2cDevAssumption, PTL DEF Spec

\* Every variable of the driver keeps its type.  For the position of the interrupt
\* routine this is the claim that it is a position of the buffer.
THEOREM TypeCorrect == Spec => []TypeOK
BY Invariant, PTL DEF IInv

\* The interrupt routine stays in the buffer, although the caller may change the
\* size of the frame between two of its looks at it.
THEOREM BufferCorrect == Spec => []StaysInBuffer
BY Invariant, PTL DEF IInv

\* A caller whose wait is over finds a result: the assertion after the wait.
THEOREM ResultCorrect == Spec => []ResultIsKnown
BY Invariant, PTL DEF IInv

\* A success that meets no earlier transfer is one: the bytes on the wire and in
\* the buffer are those the caller asked for.
THEOREM SuccessCorrect == Spec => SuccessIsReal
<1> DEFINE Step == Return /\ frame.result = "SUCCESSFUL" /\ ~collided =>
                     LET t == Head(transfers)
                     IN  /\ wire.addr = <<t.dev, t.rw>>
                         /\ wire.bytes = Run(t.dev, t.rw, t.size)
                         /\ \A k \in 1..t.size : frame.data[k - 1] = wire.bytes[k]
<1>1. ASSUME IInv PROVE [Step]_vars
  <2>1. SUFFICES ASSUME Return, frame.result = "SUCCESSFUL", ~collided
                 PROVE  /\ wire.addr = <<Current.dev, Current.rw>>
                        /\ wire.bytes = Run(Current.dev, Current.rw, Current.size)
                        /\ \A k \in 1..Current.size :
                             frame.data[k - 1] = wire.bytes[k]
    BY DEF Current
  <2>2. Undisturbed /\ op = "none"
    BY <1>1, <2>1 DEF Return, Undisturbed, IInv, CallerInv
  <2>3. Current \in Transfer
    BY <1>1, <2>2, UndisturbedFrame
  <2>4. wire.addr = <<Current.dev, Current.rw>> /\ Moved(Current, Current.size)
    BY <1>1, <2>1, <2>2 DEF Undisturbed, IInv, TransferInv
  <2>5. ASSUME NEW k \in 1..Current.size
        PROVE  frame.data[k - 1] = wire.bytes[k]
    <3>1. k - 1 \in Position /\ k - 1 < Current.size
      BY <2>3, <2>5, I2cDevAssumption DEF I2cDevAssumption, Transfer, Position
    <3>2. wire.bytes[k] = <<Current.dev, Current.rw, k - 1>>
      BY <2>4, <2>5 DEF Moved, Run
    <3>3. frame.data[k - 1] = <<Current.dev, Current.rw, k - 1>>
      <4>1. CASE Current.rw = "W"
        BY <1>1, <2>2, <3>1, <4>1, UndisturbedFrame
      <4>2. CASE Current.rw = "R"
        BY <2>4, <3>1, <4>2 DEF Moved
      <4> QED BY <2>3, <4>1, <4>2 DEF Transfer
    <3> QED BY <3>2, <3>3
  <2> QED BY <2>4, <2>5 DEF Moved
<1> QED BY <1>1, Invariant, PTL DEF SuccessIsReal

-----------------------------------------------------------------------------
(***************************************************************************)
(* Every transfer ends.                                                    *)
(***************************************************************************)

All == I2C_MAX_BUFFER_SIZE + MaxRetries

\* What may come after operation o, with the routine's variables i and frame f.
Rank(o, i, f) ==
  LET left == IF i.counter < f.size THEN f.size - i.counter ELSE 0
  IN  [none |-> 0, last_grab |-> 1, grab |-> left + 2,
       byte |-> left + 1 + MaxRetries - i.retry,
       address |-> All + 3, start |-> All + 4][o]

LEMMA ToComeRank ==
  ToCome = Rank(op, isr, frame) /\ ToCome' = Rank(op', isr', frame')
BY DEF ToCome, Rank, All

LEMMA RankAt ==
  ASSUME I2cDevAssumption, NEW i, NEW f, i.counter \in Nat, i.retry \in 0..MaxRetries,
         f.size \in 0..I2C_MAX_BUFFER_SIZE,
         NEW left, left = IF i.counter < f.size THEN f.size - i.counter ELSE 0
  PROVE  /\ left \in 0..I2C_MAX_BUFFER_SIZE
         /\ Rank("none", i, f) = 0
         /\ Rank("last_grab", i, f) = 1
         /\ Rank("grab", i, f) = left + 2
         /\ Rank("byte", i, f) = left + 1 + MaxRetries - i.retry
         /\ Rank("address", i, f) = All + 3
         /\ Rank("start", i, f) = All + 4
BY I2cDevAssumption DEF I2cDevAssumption, Rank, All

LEMMA Numbers ==
  ASSUME I2cDevAssumption, TypeOK
  PROVE  /\ isr.counter \in Nat /\ isr.retry \in 0..MaxRetries
         /\ frame.size \in 0..I2C_MAX_BUFFER_SIZE
         /\ isr.counter < I2C_MAX_BUFFER_SIZE
         /\ I2C_MAX_BUFFER_SIZE \in Nat /\ MaxRetries \in Nat
         /\ isr = [result |-> isr.result, counter |-> isr.counter,
                   retry |-> isr.retry]
BY DEF I2cDevAssumption, TypeOK, Position

LEMMA ToComeNat == I2cDevAssumption /\ TypeOK => ToCome \in Nat
<1> SUFFICES ASSUME I2cDevAssumption, TypeOK
             PROVE  ToCome \in Nat
  OBVIOUS
<1>1. PICK left :
        left = IF isr.counter < frame.size THEN frame.size - isr.counter ELSE 0
  OBVIOUS
<1>2. op \in {"none", "start", "address", "byte", "grab", "last_grab"}
  BY DEF TypeOK
<1> QED BY <1>1, <1>2, Numbers, ToComeRank, RankAt DEF All

LEMMA ToComeNatPrime == (I2cDevAssumption /\ TypeOK => ToCome \in Nat)'
BY ToComeNat, PTL

\* What ends the transfer leaves nothing to come.
LEMMA FinishEnds ==
  ASSUME I2cDevAssumption, TypeOK, NEW result, NEW data, Finish(result, data),
         op \in {"start", "address", "byte", "grab", "last_grab"}
  PROVE  ToCome' < ToCome
<1>1. ToCome' = 0
  BY ToComeRank DEF Finish, Rank
<1>2. PICK left :
        left = IF isr.counter < frame.size THEN frame.size - isr.counter ELSE 0
  OBVIOUS
<1>3. ToCome \in Nat /\ ToCome > 0
  BY <1>2, Numbers, ToComeRank, RankAt DEF All
<1> QED BY <1>1, <1>3

\* The address is followed by a byte, or by the wait for one, of a transfer that is
\* no longer than the buffer.
LEMMA AddressedEnds ==
  ASSUME I2cDevAssumption, TypeOK, op = "address", op' \in {"byte", "grab", "last_grab"},
         frame' = frame, isr' = [isr EXCEPT !.counter = 0, !.retry = 0]
  PROVE  ToCome' < ToCome
<1> DEFINE size == frame.size
<1>1. isr'.counter = 0 /\ isr'.retry = 0 /\ frame'.size = size
  BY Numbers
<1>2. size = IF isr'.counter < frame'.size THEN frame'.size - isr'.counter ELSE 0
  BY <1>1, Numbers
<1>3. /\ Rank("last_grab", isr', frame') = 1
      /\ Rank("grab", isr', frame') = size + 2
      /\ Rank("byte", isr', frame') = size + 1 + MaxRetries
  BY <1>1, <1>2, Numbers DEF Rank
<1>4. ToCome = All + 3
  BY Numbers, ToComeRank, RankAt
<1> QED BY <1>3, <1>4, Numbers, ToComeRank DEF All

\* Every interrupt brings its transfer nearer the end.
LEMMA InterruptNearer ==
  ASSUME I2cDevAssumption, TypeOK, TWI_vect
  PROVE  ToCome' < ToCome
<1> DEFINE left == IF isr.counter < frame.size THEN frame.size - isr.counter ELSE 0
<1>1. CASE Started
  <2>1. /\ op = "start" /\ op' = "address" /\ frame' = frame
        /\ isr'.counter = isr.counter /\ isr'.retry = isr.retry
    BY <1>1, Numbers DEF Started, Interrupt
  <2>2. ToCome = All + 4 /\ ToCome' = All + 3
    BY <2>1, Numbers, ToComeRank, RankAt
  <2> QED BY <2>2, Numbers DEF All
<1>2. CASE AddressedForWriting
  BY <1>2, AddressedEnds DEF AddressedForWriting, Interrupt, SendByte
<1>3. CASE AddressedForReading
  BY <1>3, AddressedEnds DEF AddressedForReading, Interrupt, GrabByte
<1>4. CASE AddressRefused
  BY <1>4, FinishEnds DEF AddressRefused, Interrupt
<1>5. CASE ByteSent
  <2>1. CASE Finish("SUCCESSFUL", frame.data)
    BY <1>5, <2>1, FinishEnds DEF ByteSent, Interrupt
  <2>2. CASE /\ isr.counter + 1 < frame.size
             /\ isr' = [isr EXCEPT !.counter = @ + 1]
             /\ SendByte(NextByte)
             /\ UNCHANGED frame
    <3>1. /\ op = "byte" /\ op' = "byte" /\ frame' = frame
          /\ isr'.counter = isr.counter + 1 /\ isr'.retry = isr.retry
      BY <1>5, <2>2, Numbers DEF ByteSent, Interrupt, SendByte
    <3>2. ToCome = left + 1 + MaxRetries - isr.retry
      BY <3>1, Numbers, ToComeRank, RankAt
    <3>3. ToCome' = (left - 1) + 1 + MaxRetries - isr.retry
      BY <2>2, <3>1, Numbers, ToComeRank, RankAt
    <3> QED BY <3>2, <3>3, Numbers
  <2> QED BY <1>5, <2>1, <2>2 DEF ByteSent
<1>6. CASE ByteRefused
  <2>1. CASE /\ MayRetry(NextRetry)
             /\ isr' = [isr EXCEPT !.retry = NextRetry]
             /\ SendByte(isr.counter)
             /\ UNCHANGED frame
    <3>1. /\ op = "byte" /\ op' = "byte" /\ frame' = frame
          /\ isr'.counter = isr.counter /\ isr'.retry = isr.retry + 1
          /\ isr.retry + 1 \in 0..MaxRetries
      BY <1>6, <2>1, Numbers
         DEF ByteRefused, Interrupt, SendByte, MayRetry, NextRetry
    <3>2. /\ ToCome = left + 1 + MaxRetries - isr.retry
          /\ ToCome' = left + 1 + MaxRetries - (isr.retry + 1)
      BY <3>1, Numbers, ToComeRank, RankAt
    <3> QED BY <3>2, Numbers
  <2>2. CASE \E result : Finish(result, frame.data)
    BY <1>6, <2>2, FinishEnds DEF ByteRefused, Interrupt
  <2> QED BY <1>6, <2>1, <2>2 DEF ByteRefused
<1>7. CASE ByteReceived
  <2>1. /\ op = "grab" /\ op' = IF isr.counter + 2 >= frame.size
                                THEN "last_grab" ELSE "grab"
        /\ frame'.size = frame.size
        /\ isr'.counter = isr.counter + 1 /\ isr'.retry = isr.retry
    BY <1>7, Numbers DEF ByteReceived, Interrupt, GrabByte, TypeOK
  <2>2. ToCome = left + 2
    BY <2>1, Numbers, ToComeRank, RankAt
  <2>3. CASE isr.counter + 2 >= frame.size
    <3>1. ToCome' = 1
      BY <2>1, <2>3, ToComeRank DEF Rank
    <3> QED BY <2>2, <3>1, Numbers
  <2>4. CASE ~(isr.counter + 2 >= frame.size)
    <3>1. ToCome' = (left - 1) + 2
      BY <2>1, <2>4, Numbers, ToComeRank, RankAt
    <3> QED BY <2>2, <3>1, Numbers
  <2> QED BY <2>3, <2>4
<1>8. CASE LastByteReceived
  BY <1>8, FinishEnds DEF LastByteReceived, Interrupt
<1>9. CASE BusError \/ NotSupported
  BY <1>9, FinishEnds DEF BusError, NotSupported, Disturbed, Interrupt
<1> QED BY <1>1, <1>2, <1>3, <1>4, <1>5, <1>6, <1>7, <1>8, <1>9 DEF TWI_vect

\* No transfer takes interrupts for ever, one that was given up and goes on with the
\* frame of the next no more than any other: there is a number that every interrupt
\* lowers.
THEOREM InterruptsCorrect == Spec => InterruptsEnd
<1>1. ASSUME IInv, IInv', TWI_vect PROVE ToCome' \in 0..(ToCome - 1)
  <2>1. ToCome' < ToCome
    BY <1>1, I2cDevAssumption, InterruptNearer DEF IInv
  <2>2. ToCome \in Nat /\ ToCome' \in Nat
    BY <1>1, I2cDevAssumption, ToComeNat, ToComeNatPrime DEF IInv
  <2> QED BY <2>1, <2>2
<1> QED BY <1>1, Invariant, PTL DEF InterruptsEnd
=============================================================================
