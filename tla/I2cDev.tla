------------------------------- MODULE I2cDev -------------------------------
(***************************************************************************)
(* The I2C driver of the sensor node (contiki/cpu/avr/dev/i2c/i2c-dev.c):  *)
(* the interrupt routine of the two-wire interface (TWI), which moves the  *)
(* bytes of the current frame, and the caller, which fills the frame in,   *)
(* requests a START condition and waits in a loop.                         *)
(*                                                                         *)
(* The interrupt routine is one action per status code (codes that are     *)
(* treated alike are one).  It interrupts the caller between any two of    *)
(* its assignments to the frame.  The interface, the bus and its devices   *)
(* are external: an operation ends with one of the codes it can end with,  *)
(* or never.                                                               *)
(*                                                                         *)
(* A byte is <<device, direction, position>>: what a caller sends to a     *)
(* device, or what that device sends.                                      *)
(***************************************************************************)
EXTENDS Integers, Sequences

CONSTANTS
  Devices,
  I2C_MAX_BUFFER_SIZE,
  MaxRetries             \* max_retries, the same for every frame

ASSUME I2cDevAssumption ==
  /\ I2C_MAX_BUFFER_SIZE \in Nat /\ I2C_MAX_BUFFER_SIZE > 1
  /\ MaxRetries \in Nat

VARIABLES
  caller,                \* "ready", "setting" (the frame) or "waiting"
  transfers,             \* the present call: its transfers not yet done
  to_set,                \* the fields of the frame the caller has yet to set
  frame,                 \* i2c_current
  is_interrupt_on,
  isr,                   \* the static variables of the interrupt routine
  twie,                  \* the interrupt is enabled (bit TWIE of TWCR)
  op,                    \* what the interface is doing
  twdr,                  \* the byte it is sending, if it is
  wire,                  \* history: the last address sent and the bytes since,
                         \* until the transfer is over
  collided               \* history: the present transfer met an earlier one

callerVars == <<caller, transfers, to_set>>
vars == <<callerVars, frame, is_interrupt_on, isr, twie, op, twdr, wire,
          collided>>

Position == 0..(I2C_MAX_BUFFER_SIZE - 1)
NoByte   == <<>>
NoDevice == "none"

\* The first n bytes a transfer moves.
Run(d, rw, n) == [k \in 1..n |-> <<d, rw, k - 1>>]

\* Nothing on the bus yet.
Silence == [addr |-> <<NoDevice, "W">>, bytes |-> << >>]
Address  == (Devices \cup {NoDevice}) \X {"W", "R"}
Bytes    == (Devices \cup {NoDevice}) \X {"W", "R"} \X Nat

Transfer == [dev : Devices, rw : {"W", "R"}, size : 1..I2C_MAX_BUFFER_SIZE]

Out(d, n) == [dev |-> d, rw |-> "W", size |-> n]
In(d, n)  == [dev |-> d, rw |-> "R", size |-> n]

\* send_cmd moves one byte, write_data an address and at least one byte more, and
\* read_data sends one byte and receives some.  No program asks for a repeated
\* START.
Call ==
  {<<Out(d, n)>> : d \in Devices, n \in 1..I2C_MAX_BUFFER_SIZE}
  \cup {<<Out(d, 1), In(d, n)>> :
          d \in Devices, n \in 1..(I2C_MAX_BUFFER_SIZE - 1)}

Failure == {"BUS_ERROR", "ADDR", "DATA", "NOT_SUPPORTED"}
Result  == {"SUCCESSFUL", "PENDING"} \cup Failure

\* The order of the caller's assignments.  Whether a STOP follows makes no
\* difference here.
Fields(t) ==
  IF t.rw = "W" THEN <<"addr", "size", "data", "result">>
                ELSE <<"addr", "size", "result">>

Init ==
  /\ caller = "ready"
  /\ transfers = << >>
  /\ to_set = << >>
  /\ frame = [addr |-> <<NoDevice, "W">>, size |-> 0,
              data |-> [k \in Position |-> NoByte], result |-> "SUCCESSFUL"]
  /\ is_interrupt_on = FALSE
  /\ isr = [result |-> "SUCCESSFUL", counter |-> 0, retry |-> 0]
  /\ twie = FALSE
  /\ op = "none"
  /\ twdr = NoByte
  /\ wire = Silence
  /\ collided = FALSE

-----------------------------------------------------------------------------
(***************************************************************************)
(* The caller.                                                             *)
(***************************************************************************)

Begin(t) ==
  /\ caller' = "setting"
  /\ transfers' = t
  /\ to_set' = Fields(Head(t))
  /\ collided' = FALSE

GoBack ==
  /\ caller' = "ready"
  /\ transfers' = << >>
  /\ to_set' = << >>
  /\ UNCHANGED collided

\* A sensor driver calls the bus driver.
CallDriver(call) ==
  /\ caller = "ready"
  /\ Begin(call)
  /\ UNCHANGED <<frame, is_interrupt_on, isr, twie, op, twdr, wire>>

\* The next assignment to i2c_current.
SetField ==
  /\ caller = "setting"
  /\ to_set # << >>
  /\ LET t == Head(transfers)
         field == Head(to_set)
     IN  \/ field = "addr" /\ frame' = [frame EXCEPT !.addr = <<t.dev, t.rw>>]
         \/ field = "size" /\ frame' = [frame EXCEPT !.size = t.size]
         \/ field = "data" /\ frame' = [frame EXCEPT !.data =
              [k \in Position |-> IF k < t.size THEN <<t.dev, "W", k>> ELSE @[k]]]
         \/ field = "result" /\ frame' = [frame EXCEPT !.result = "PENDING"]
  /\ to_set' = Tail(to_set)
  /\ UNCHANGED <<caller, transfers, is_interrupt_on, isr, twie, op, twdr, wire,
                 collided>>

\* i2c_signal_start(), its atomic block.  When the interface is still busy with
\* a transfer that was given up, it may go on with the byte under way; the
\* interrupt routine will then overwrite the request for a START.
SignalStart ==
  /\ caller = "setting"
  /\ to_set = << >>
  /\ caller' = "waiting"
  /\ is_interrupt_on' = FALSE
  /\ twie' = TRUE
  /\ \/ op' = "start"
     \/ op \notin {"none", "start"} /\ op' = op
  /\ collided' = (collided \/ op' # "start")
  /\ UNCHANGED <<transfers, to_set, frame, isr, twdr, wire>>

\* The bus is free and the result is known: read_data goes on with its second
\* transfer after a successful first one, all else goes back.
Return ==
  /\ caller = "waiting"
  /\ ~twie
  /\ IF frame.result = "SUCCESSFUL" /\ Tail(transfers) # << >>
     THEN Begin(Tail(transfers))
     ELSE GoBack
  /\ wire' = Silence
  /\ UNCHANGED <<frame, is_interrupt_on, isr, twie, op, twdr>>

\* FAILED_INTERRUPT: no interrupt has come since the START was requested.  It
\* stays requested.
GiveUp ==
  /\ caller = "waiting"
  /\ twie
  /\ ~is_interrupt_on
  /\ GoBack
  /\ UNCHANGED <<frame, is_interrupt_on, isr, twie, op, twdr, wire>>

-----------------------------------------------------------------------------
(***************************************************************************)
(* The interrupt routine.                                                  *)
(***************************************************************************)

Interrupt(during) ==
  /\ twie
  /\ op \in during
  /\ is_interrupt_on' = TRUE
  /\ collided' = (collided \/ caller = "setting")
  /\ UNCHANGED callerVars

\* i2c_send_byte()
SendByte(k) ==
  /\ op' = "byte"
  /\ twdr' = frame.data[k]
  /\ UNCHANGED twie

\* Mutant: one byte too many is acknowledged.
GrabOneMore(k) ==
  /\ op' = IF k > frame.size THEN "last_grab" ELSE "grab"
  /\ UNCHANGED <<twie, twdr>>

\* i2c_grab_byte() for byte k, counted from 1: the last one is not acknowledged.
GrabByte(k) ==
  /\ op' = IF k >= frame.size THEN "last_grab" ELSE "grab"
  /\ UNCHANGED <<twie, twdr>>

\* Mutant: the result stays in the interrupt routine.
FinishWithoutResult(result, data) ==
  /\ twie' = FALSE
  /\ op' = "none"
  /\ isr' = [result |-> result, counter |-> 0, retry |-> 0]
  /\ twdr' = NoByte
  /\ frame' = [frame EXCEPT !.data = data]

\* i2c_signal_stop(), i2c_signal_no_stop() or i2c_signal_bus_error(), which all
\* clear TWIE, and the end of the routine.
Finish(result, data) ==
  /\ twie' = FALSE
  /\ op' = "none"
  /\ isr' = [result |-> result, counter |-> 0, retry |-> 0]
  /\ twdr' = NoByte
  /\ frame' = [frame EXCEPT !.data = data, !.result = result]

\* TW_START, TW_REP_START: the address follows.
Started ==
  /\ Interrupt({"start"})
  /\ op' = "address"
  /\ wire' = [addr |-> frame.addr, bytes |-> << >>]
  /\ isr' = [isr EXCEPT !.result = "PENDING"]
  /\ UNCHANGED <<frame, twie, twdr>>

\* TW_MT_SLA_ACK
AddressedForWriting ==
  /\ Interrupt({"address"})
  /\ wire.addr[2] = "W"
  /\ isr' = [isr EXCEPT !.counter = 0, !.retry = 0]
  /\ SendByte(0)
  /\ UNCHANGED <<frame, wire>>

\* TW_MR_SLA_ACK
AddressedForReading ==
  /\ Interrupt({"address"})
  /\ wire.addr[2] = "R"
  /\ isr' = [isr EXCEPT !.counter = 0, !.retry = 0]
  /\ GrabByte(1)
  /\ UNCHANGED <<frame, wire>>

\* TW_MT_SLA_NACK, TW_MR_SLA_NACK
AddressRefused ==
  /\ Interrupt({"address"})
  /\ Finish("ADDR", frame.data)
  /\ UNCHANGED wire

\* Mutant: the byte that was acknowledged is sent again, not the next.
NextByteIsTheSame == isr.counter

NextByte == isr.counter + 1

\* TW_MT_DATA_ACK
ByteSent ==
  /\ Interrupt({"byte"})
  /\ wire' = [wire EXCEPT !.bytes = Append(@, twdr)]
  /\ \/ /\ isr.counter + 1 < frame.size
        /\ isr' = [isr EXCEPT !.counter = @ + 1]
        /\ SendByte(NextByte)
        /\ UNCHANGED frame
     \/ /\ isr.counter + 1 >= frame.size
        /\ Finish("SUCCESSFUL", frame.data)

\* Mutants: the count wraps before it passes the limit, or one is too many.
RetryWraps == (isr.retry + 1) % (MaxRetries + 1)
RetryOnceMore(n) == n <= MaxRetries + 1

NextRetry == isr.retry + 1
MayRetry(n) == n <= MaxRetries

\* TW_MT_DATA_NACK.  FAILED_ADDR is what the routine asks for first.
ByteRefused ==
  /\ Interrupt({"byte"})
  /\ \/ /\ isr.result # "ADDR"
        /\ MayRetry(NextRetry)
        /\ isr' = [isr EXCEPT !.retry = NextRetry]
        /\ SendByte(isr.counter)
        /\ UNCHANGED frame
     \/ /\ isr.result = "ADDR" \/ ~MayRetry(NextRetry)
        /\ Finish(IF isr.result = "ADDR" THEN "ADDR" ELSE "DATA", frame.data)
  /\ UNCHANGED wire

\* The device's next byte, and the buffer once it is stored.
Incoming == <<wire.addr[1], "R", Len(wire.bytes)>>
Stored   == [frame.data EXCEPT ![isr.counter] = Incoming]

\* TW_MR_DATA_ACK
ByteReceived ==
  /\ Interrupt({"grab"})
  /\ wire' = [wire EXCEPT !.bytes = Append(@, Incoming)]
  /\ frame' = [frame EXCEPT !.data = Stored]
  /\ isr' = [isr EXCEPT !.counter = @ + 1]
  /\ GrabByte(isr.counter + 2)

\* TW_MR_DATA_NACK
LastByteReceived ==
  /\ Interrupt({"last_grab"})
  /\ wire' = [wire EXCEPT !.bytes = Append(@, Incoming)]
  /\ Finish("SUCCESSFUL", Stored)

\* A status that ends the transfer from wherever it is.
Disturbed(result) ==
  /\ Interrupt({"start", "address", "byte", "grab", "last_grab"})
  /\ Finish(result, frame.data)
  /\ UNCHANGED wire

\* TW_BUS_ERROR
BusError == Disturbed("BUS_ERROR")

\* A lost arbitration, and the codes of a slave.
NotSupported == Disturbed("NOT_SUPPORTED")

TWI_vect ==
  \/ Started
  \/ AddressedForWriting \/ AddressedForReading \/ AddressRefused
  \/ ByteSent \/ ByteRefused
  \/ ByteReceived \/ LastByteReceived
  \/ BusError \/ NotSupported

-----------------------------------------------------------------------------

Next ==
  \/ \E call \in Call : CallDriver(call)
  \/ SetField \/ SignalStart \/ Return \/ GiveUp
  \/ TWI_vect

Spec == Init /\ [][Next]_vars

\* The caller runs, and whatever the interface is doing ends, one way or another.
\* The code does not see to the latter: the timeout of the wait counts only until
\* the first interrupt.
FairSpec ==
  Spec /\ WF_vars(SetField) /\ WF_vars(SignalStart)
       /\ WF_vars(Return) /\ WF_vars(GiveUp)
       /\ WF_vars(TWI_vect)

-----------------------------------------------------------------------------
(***************************************************************************)
(* Properties.                                                             *)
(***************************************************************************)

TypeOK ==
  /\ caller \in {"ready", "setting", "waiting"}
  /\ transfers \in Seq(Transfer)
  /\ to_set \in Seq({"addr", "size", "data", "result"})
  /\ frame \in [addr : Address, size : 0..I2C_MAX_BUFFER_SIZE,
                data : [Position -> Bytes \cup {NoByte}], result : Result]
  /\ is_interrupt_on \in BOOLEAN
  /\ isr \in [result : Result, counter : Position, retry : 0..MaxRetries]
  /\ twie \in BOOLEAN
  /\ op \in {"none", "start", "address", "byte", "grab", "last_grab"}
  /\ twdr \in Bytes \cup {NoByte}
  /\ wire \in [addr : Address, bytes : Seq(Bytes \cup {NoByte})]
  /\ collided \in BOOLEAN

\* The interrupt routine never reads or writes beyond the buffer.  Its assertions
\* do not see to that (a failed one prints a line and goes on), and the caller
\* may have changed the size of the frame since the routine last looked.
StaysInBuffer ==
  /\ op = "byte" \/ op = "last_grab" => isr.counter < I2C_MAX_BUFFER_SIZE
  /\ op = "grab" => isr.counter + 1 < I2C_MAX_BUFFER_SIZE

\* When the wait for the bus ends, the result of the transfer has been written:
\* assert(i2c_current.frame_result != TRANSMISSION_PENDING).
ResultIsKnown == caller = "waiting" /\ ~twie => frame.result # "PENDING"

\* A transfer that reports success has moved its own bytes, all of them, in order,
\* to or from its own device, and what was received is in the buffer.  A transfer
\* that was given up may still end later: only a transfer that meets it, while
\* its frame is set or by the loss of its START, is excepted.
SuccessIsReal ==
  [][Return /\ frame.result = "SUCCESSFUL" /\ ~collided =>
       LET t == Head(transfers)
       IN  /\ wire.addr = <<t.dev, t.rw>>
           /\ wire.bytes = Run(t.dev, t.rw, t.size)
           /\ \A k \in 1..t.size : frame.data[k - 1] = wire.bytes[k]]_vars

\* i2c_dev_wait_until_bus_is_free() waits until the bus is free or a timeout was
\* reached.  It does end if every operation of the interface ends: a device that
\* refuses data is not asked for ever.
WaitEnds == caller = "waiting" ~> caller # "waiting"

\* How many interrupts a transfer may still take, at most.
ToCome ==
  LET left == IF isr.counter < frame.size THEN frame.size - isr.counter ELSE 0
      all  == I2C_MAX_BUFFER_SIZE + MaxRetries
  IN  [none |-> 0, last_grab |-> 1, grab |-> left + 2,
       byte |-> left + 1 + MaxRetries - isr.retry,
       address |-> all + 3, start |-> all + 4][op]

\* Every interrupt brings its transfer nearer the end, also one that was given up and
\* goes on with the frame of the next.
InterruptsEnd == [][TWI_vect => ToCome' \in 0..(ToCome - 1)]_vars
=============================================================================
