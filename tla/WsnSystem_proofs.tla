--------------------------- MODULE WsnSystem_proofs ---------------------------
(***************************************************************************)
(* Theorems about WsnSystem, for every value of its constants.             *)
(*                                                                         *)
(* The devices only ever write lines the bridge alone accepts as well, so  *)
(* the system implements the bridge and inherits its invariant.  That a    *)
(* device without an observe command is observed nowhere takes in every    *)
(* message on its way around the loop of FHEM, bridge and node             *)
(* (Unobserved).                                                           *)
(***************************************************************************)
EXTENDS WsnSystem, CoapBridge_proofs

DevicesTypeOK ==
  /\ optionObserve \in [Uris -> Options]
  /\ wish \in [Uris -> {"none", "subscribe", "unsubscribe"}]

\* No part of the system, and no message under way, has an observe option for u.
NoRequestObserves(u) ==
  /\ \A i \in DOMAIN requests : requests[i].uri = u => requests[i].observe = "none"
  /\ \A m \in to_node : m.uri = u => m.observe = "none"

NoResponseObserves(u) ==
  /\ \A m \in to_bridge : m.uri = u => ~m.observe
  /\ \A r \in passing_on : r.uri = u => ~r.observe
  /\ \A i \in DOMAIN replies : replies[i].uri = u => ~replies[i].observe
  /\ server = "waiting" /\ response = "observed" => exchanges[waiting_for].uri # u

NoTableObserves(u) ==
  /\ u \notin DOMAIN observeTokens
  /\ u \notin DOMAIN relations

Unobserved(u) ==
  /\ optionObserve[u] = "none"
  /\ NoTableObserves(u)
  /\ NoRequestObserves(u)
  /\ NoResponseObserves(u)

UncommandedInv == \A u \in Uris : wish[u] = "none" => Unobserved(u)

-----------------------------------------------------------------------------
(***************************************************************************)
(* The system implements the bridge.                                       *)
(***************************************************************************)

LEMMA CommandsAreLines ==
  ASSUME DevicesTypeOK, NEW u \in Uris, NEW option \in Options
  PROVE  /\ GetCommand(u, option) \in Line
         /\ \A method \in {"set", "discover"} :
              [uri |-> u, method |-> method, observe |-> "none"] \in Line
BY DEF GetCommand, Line, Options

\* A set and a discovery.
LEMMA OtherCommands ==
  ASSUME NEW u \in Uris, WSN_Set(u) \/ WSNPHD_Get(u)
  PROVE  /\ UNCHANGED deviceVars
         /\ \E line \in Line : /\ IOWrite(line) /\ line.uri = u
                               /\ line.observe = "none" /\ line.method # "get"
<1>1. PICK method \in {"set", "discover"} :
        /\ IOWrite([uri |-> u, method |-> method, observe |-> "none"])
        /\ UNCHANGED deviceVars
  BY DEF WSN_Set, WSNPHD_Get
<1> DEFINE line == [uri |-> u, method |-> method, observe |-> "none"]
<1>2. line \in Line /\ line.uri = u /\ line.observe = "none" /\ line.method # "get"
  BY DEF Line
<1>3. IOWrite(line) /\ UNCHANGED deviceVars
  BY <1>1
<1>. HIDE DEF line
<1>. QED
  BY <1>2, <1>3

LEMMA WriteIsBridgeStep ==
  ASSUME NEW line \in Line, IOWrite(line)
  PROVE  [Next]_vars
BY DEF IOWrite, Next

\* Every step of the system keeps the type of the attributes and is a step of the
\* bridge, or leaves it alone.
LEMMA SystemStep ==
  ASSUME DevicesTypeOK, [SystemNext]_systemVars
  PROVE  DevicesTypeOK' /\ [Next]_vars
<1>1. \A u \in Uris : optionObserve[u] \in Options
  BY DEF DevicesTypeOK
<1>2. ASSUME NEW u \in Uris, WSN_Get(u)
      PROVE  DevicesTypeOK' /\ [Next]_vars
  <2>1. IOWrite(GetCommand(u, optionObserve[u])) /\ UNCHANGED deviceVars
    BY <1>2 DEF WSN_Get
  <2>. QED
    BY <1>1, <2>1, CommandsAreLines, WriteIsBridgeStep DEF DevicesTypeOK, deviceVars
<1>3. ASSUME NEW u \in Uris, WSN_Observe(u) \/ WSN_Unobserve(u)
      PROVE  DevicesTypeOK' /\ [Next]_vars
  <2>1. DevicesTypeOK'
    BY <1>3 DEF WSN_Observe, WSN_Unobserve, DevicesTypeOK, Options
  <2>2. optionObserve'[u] \in Options
    BY <2>1 DEF DevicesTypeOK
  <2>3. IOWrite(GetCommand(u, optionObserve'[u]))
    BY <1>3 DEF WSN_Observe, WSN_Unobserve
  <2>. QED
    BY <2>1, <2>2, <2>3, CommandsAreLines, WriteIsBridgeStep
<1>4. ASSUME NEW u \in Uris, WSN_Set(u) \/ WSNPHD_Get(u)
      PROVE  DevicesTypeOK' /\ [Next]_vars
  BY <1>4, OtherCommands, WriteIsBridgeStep DEF DevicesTypeOK, deviceVars
<1>5. CASE WSNPHD_Read
  <2>1. Next
    BY <1>5 DEF WSNPHD_Read, Next
  <2>2. DevicesTypeOK'
    BY <1>5 DEF WSNPHD_Read, WSN_Parse, ObserveCounter, DevicesTypeOK, Options
  <2>. QED
    BY <2>1, <2>2
<1>6. CASE BridgeNext /\ UNCHANGED deviceVars
  BY <1>6 DEF Next, DevicesTypeOK, deviceVars
<1>7. CASE UNCHANGED systemVars
  BY <1>7 DEF systemVars, DevicesTypeOK, deviceVars
<1>. QED
  BY <1>2, <1>3, <1>4, <1>5, <1>6, <1>7 DEF SystemNext, DeviceNext, Command

LEMMA DevicesTyped == SystemSpec => []DevicesTypeOK
<1>1. SystemInit => DevicesTypeOK
  BY DEF SystemInit, DevicesTypeOK, Options
<1>2. DevicesTypeOK /\ [SystemNext]_systemVars => DevicesTypeOK'
  BY SystemStep
<1>. QED
  BY <1>1, <1>2, PTL DEF SystemSpec

\* Whatever FHEM's devices do, the bridge behaves as CoapBridge allows, so that
\* every theorem about the bridge holds in the system.
THEOREM SystemRefinesBridge == SystemSpec => Spec
<1>1. SystemInit => Init
  BY DEF SystemInit
<1>2. DevicesTypeOK /\ [SystemNext]_systemVars => [Next]_vars
  BY SystemStep
<1>. QED
  BY <1>1, <1>2, DevicesTyped, PTL DEF SystemSpec, Spec

\* Every variable of the system keeps its type.
THEOREM SystemTypeCorrect == SystemSpec => []SystemTypeOK
<1>1. DevicesTypeOK /\ TypeOK => SystemTypeOK
  BY DEF DevicesTypeOK, SystemTypeOK
<1>. QED
  BY <1>1, DevicesTyped, SystemRefinesBridge, TypeCorrect, PTL

\* With FHEM's devices as its users the bridge keeps what it promises: every response
\* is about the resource its token stands for, handlers are those of the present
\* subscriptions, and no wait is without an end.
THEOREM SystemKeepsPromises ==
  SystemSpec => [](ResponsesMatchExchanges /\ HandlersAreSubscriptions /\ WaitHasAnEnd)
BY SystemRefinesBridge, ResponsesCorrect, HandlersCorrect, WaitCorrect, PTL

-----------------------------------------------------------------------------
(***************************************************************************)
(* Only commands subscribe.                                                *)
(***************************************************************************)

\* What a queue holds after a line was added to it or taken off it was added or
\* held before.
LEMMA AppendElements ==
  ASSUME NEW S, NEW s \in Seq(S), NEW e, NEW i \in DOMAIN Append(s, e)
  PROVE  Append(s, e)[i] = e \/ \E j \in DOMAIN s : Append(s, e)[i] = s[j]
OBVIOUS

LEMMA TailElements ==
  ASSUME NEW S, NEW s \in Seq(S), s # << >>, NEW i \in DOMAIN Tail(s)
  PROVE  i + 1 \in DOMAIN s /\ Tail(s)[i] = s[i + 1]
OBVIOUS

LEMMA SuffixElements ==
  ASSUME NEW S, NEW s \in Seq(S), NEW k \in 1..Len(s),
         NEW i \in DOMAIN SubSeq(s, k + 1, Len(s))
  PROVE  k + i \in DOMAIN s /\ SubSeq(s, k + 1, Len(s))[i] = s[k + i]
OBVIOUS

\* The requests after a step of the connection, and after one line or more are read.
Left == requests' \in {requests, Arrived, << >>}

LEMMA LinesStay ==
  ASSUME IInv, Left
  PROVE  \A i \in DOMAIN requests' : i \in DOMAIN requests /\ requests'[i] = requests[i]
<1>1. requests \in Seq(Line)
  BY DEF IInv, ThreadsTypeOK
<1>. QED
  BY <1>1, ArrivedLines DEF Left

LEMMA LinesTaken ==
  ASSUME IInv, ReadRequest
  PROVE  \E k \in 1..Len(requests) :
           /\ requests' = SubSeq(requests, k + 1, Len(requests))
           /\ k <= MaxLines
<1>1. requests \in Seq(Line)
  BY DEF IInv, ThreadsTypeOK
<1>2. /\ Len(requests) \in Nat /\ Len(Arrived) \in 0..Len(requests)
      /\ Len(Arrived) <= MaxLines
  BY <1>1, ArrivedLines
<1>3. PICK k \in 1..Len(Arrived) : requests' = SubSeq(requests, k + 1, Len(requests))
  BY DEF ReadRequest
<1>. QED
  BY <1>2, <1>3, CoapBridgeAssumption

LEMMA HeadElement ==
  ASSUME NEW S, NEW s \in Seq(S), s # << >>
  PROVE  1 \in DOMAIN s /\ Head(s) = s[1]
OBVIOUS

\* A line without the option.
LEMMA WriteKeepsUnobserved ==
  ASSUME IInv, NEW u \in Uris, Unobserved(u), optionObserve'[u] = "none",
         NEW line \in Line, line.uri = u => line.observe = "none", IOWrite(line)
  PROVE  Unobserved(u)'
<1>1. CASE UNCHANGED vars
  BY <1>1 DEF Unobserved, NoTableObserves, NoRequestObserves, NoResponseObserves,
       vars, processVars, networkVars
<1>2. CASE FhemWrites(line)
  <2>1. requests \in Seq(Line) /\ requests' = Append(requests, line)
    BY <1>2 DEF IInv, ThreadsTypeOK, FhemWrites
  <2>2. NoRequestObserves(u)'
    BY <1>2, <2>1, AppendElements DEF Unobserved, NoRequestObserves, FhemWrites,
         networkVars
  <2>. QED
    BY <1>2, <2>2 DEF Unobserved, NoTableObserves, NoResponseObserves, FhemWrites,
         processVars, networkVars
<1>. QED
  BY <1>1, <1>2 DEF IOWrite

LEMMA ReadKeepsUnobserved ==
  ASSUME IInv, DevicesTypeOK, NEW u \in Uris, Unobserved(u), WSNPHD_Read
  PROVE  Unobserved(u)'
<1> DEFINE reply == Head(replies)
<1>1. replies \in Seq(Reply) /\ replies # << >> /\ replies' = Tail(replies)
  BY DEF IInv, ThreadsTypeOK, WSNPHD_Read, FhemReads
<1>2. reply.uri = u => ~reply.observe
  BY <1>1, HeadElement DEF Unobserved, NoResponseObserves
<1>3. optionObserve'[u] = "none"
  BY <1>2 DEF WSNPHD_Read, WSN_Parse, Unobserved, DevicesTypeOK
<1>4. NoResponseObserves(u)'
  BY <1>1, TailElements DEF Unobserved, NoResponseObserves, WSNPHD_Read, FhemReads,
       processVars, networkVars
<1>. QED
  BY <1>3, <1>4 DEF Unobserved, NoTableObserves, NoRequestObserves, WSNPHD_Read,
       FhemReads, networkVars

\* The line the bridge reads has no option for u, so it is neither subscribed to
\* nor asked for with one.
LEMMA ReadRequestKeepsUnobserved ==
  ASSUME IInv, NEW u \in Uris, Unobserved(u), ReadRequest,
         UNCHANGED deviceVars
  PROVE  Unobserved(u)'
<1> DEFINE line == Head(requests)
<1>1. requests \in Seq(Line) /\ requests # << >>
  BY DEF IInv, ThreadsTypeOK, ReadRequest
<1>2. line.uri = u => line.observe = "none"
  BY <1>1, HeadElement DEF Unobserved, NoRequestObserves
<1>3. \A i \in DOMAIN requests' : \E j \in DOMAIN requests : requests'[i] = requests[j]
  <2>1. PICK k \in 1..Len(requests) :
          requests' = SubSeq(requests, k + 1, Len(requests))
    BY LinesTaken
  <2>. QED
    BY <1>1, <2>1, SuffixElements
<1>4. process(line) /\ UNCHANGED <<replies, passing_on, to_bridge, relations>>
  BY DEF ReadRequest
<1>. HIDE DEF line
<1>5. \A m \in to_node' : m \in to_node \/ (m.uri = line.uri /\ m.observe = line.observe)
  BY <1>4 DEF process, Subscribe, Unsubscribe, Ignore, Ask, Execute
<1>6. NoRequestObserves(u)'
  BY <1>2, <1>3, <1>5 DEF Unobserved, NoRequestObserves
<1>7. u \notin DOMAIN observeTokens'
  BY <1>2, <1>4 DEF Unobserved, NoTableObserves, process, Subscribe, Unsubscribe,
       Ignore, Ask, Put, Without, Restrict
<1>8. server' # "waiting" \/ response' = "none"
  BY <1>4 DEF process, Subscribe, Unsubscribe, Ignore, Ask, WaitFor, Proceed,
       ReadRequest
<1>9. NoResponseObserves(u)'
  BY <1>4, <1>8 DEF Unobserved, NoResponseObserves
<1>. QED
  BY <1>4, <1>6, <1>7, <1>9 DEF Unobserved, NoTableObserves, deviceVars

\* process() writes the observe option of the response it has received.
LEMMA RespondKeepsUnobserved ==
  ASSUME IInv, NEW u \in Uris, Unobserved(u), Respond, UNCHANGED deviceVars
  PROVE  Unobserved(u)'
<1>1. \A reply \in AnswerTo(waiting_for) : reply.uri = u => ~reply.observe
  <2> SUFFICES ASSUME NEW reply \in AnswerTo(waiting_for), reply.uri = u, reply.observe
               PROVE  FALSE
    OBVIOUS
  <2>1. PICK c : reply = [code |-> c, uri |-> exchanges[waiting_for].uri,
                          observe |-> response = "observed"]
    BY DEF AnswerTo
  <2>2. reply.uri = exchanges[waiting_for].uri
    BY <2>1
  <2>3. reply.observe = (response = "observed")
    BY <2>1
  <2>4. response # "observed"
    BY <2>2 DEF Unobserved, NoResponseObserves, Respond
  <2>. QED
    BY <2>3, <2>4
<1>2. replies \in Seq(Reply)
  BY DEF IInv, ThreadsTypeOK
<1>3. \A i \in DOMAIN replies' : replies'[i].uri = u => ~replies'[i].observe
  BY <1>1, <1>2, AppendElements DEF Unobserved, NoResponseObserves, Respond, sendResponse
<1>4. NoResponseObserves(u)'
  BY <1>3 DEF Unobserved, NoResponseObserves, Respond, networkVars
<1>. QED
  BY <1>4 DEF Unobserved, NoTableObserves, NoRequestObserves, Respond, networkVars,
       deviceVars

\* The token of a response that has the option is one of another resource.
LEMMA ReceiveResponseKeepsUnobserved ==
  ASSUME IInv, NEW u \in Uris, Unobserved(u), NEW m \in to_bridge,
         ReceiveResponse(m), UNCHANGED deviceVars
  PROVE  Unobserved(u)'
<1>1. m.uri = u => ~m.observe
  BY DEF Unobserved, NoResponseObserves
<1>2. m.token \in DOMAIN exchanges /\ exchanges[m.token].uri = m.uri
  BY DEF IInv, TokensInv, ResponsesMatchExchanges
<1>3. /\ DOMAIN exchanges' = DOMAIN exchanges
      /\ \A t \in DOMAIN exchanges : exchanges'[t].uri = exchanges[t].uri
  BY DEF IInv, TokensInv, TokensTypeOK, ReceiveResponse, Exchange
<1>4. \A r \in passing_on' : r.uri = u => ~r.observe
  BY <1>1, <1>2 DEF ReceiveResponse, Unobserved, NoResponseObserves
<1>5. server' = "waiting" /\ response' = "observed" => exchanges'[waiting_for'].uri # u
  <2> SUFFICES ASSUME server' = "waiting", response' = "observed"
               PROVE  exchanges'[waiting_for'].uri # u
    OBVIOUS
  <2>1. server = "waiting" /\ waiting_for' = waiting_for
    BY DEF ReceiveResponse
  <2>2. exchanges'[waiting_for].uri = exchanges[waiting_for].uri
    BY <1>3, <2>1 DEF IInv, WaitsOnExchange
  <2>3. CASE response = "observed"
    BY <2>1, <2>2, <2>3 DEF Unobserved, NoResponseObserves
  <2>4. CASE response # "observed"
    <3>1. waiting_for = m.token /\ m.observe
      BY <2>4 DEF ReceiveResponse, Offer
    <3>. QED
      BY <1>1, <1>2, <2>1, <2>2, <3>1
  <2>. QED
    BY <2>3, <2>4
<1>6. NoResponseObserves(u)'
  BY <1>4, <1>5 DEF Unobserved, NoResponseObserves, ReceiveResponse, networkVars
<1>. QED
  BY <1>6 DEF Unobserved, NoTableObserves, NoRequestObserves, ReceiveResponse,
       networkVars, deviceVars

LEMMA HandleResponseKeepsUnobserved ==
  ASSUME IInv, NEW u \in Uris, Unobserved(u), handleResponse, UNCHANGED deviceVars
  PROVE  Unobserved(u)'
<1>1. replies \in Seq(Reply)
  BY DEF IInv, ThreadsTypeOK
<1>2. \A i \in DOMAIN replies' : replies'[i].uri = u => ~replies'[i].observe
  BY <1>1, AppendElements DEF Unobserved, NoResponseObserves, handleResponse, sendResponse
<1>3. NoResponseObserves(u)'
  BY <1>2 DEF Unobserved, NoResponseObserves, handleResponse, processVars, networkVars
<1>. QED
  BY <1>3 DEF Unobserved, NoTableObserves, NoRequestObserves, handleResponse,
       networkVars, deviceVars

\* A node registers what a request with the option asks for.
LEMMA NodeKeepsUnobserved ==
  ASSUME IInv, NEW u \in Uris, Unobserved(u),
         \/ \E m \in to_node, ok \in BOOLEAN : NodeAnswers(m, ok)
         \/ \E v \in Uris : NodeNotifies(v) \/ NodeForgets(v),
         UNCHANGED deviceVars
  PROVE  Unobserved(u)'
<1>1. /\ u \notin DOMAIN relations'
      /\ \A m \in to_bridge' : m.uri = u => ~m.observe
  <2>1. ASSUME NEW m \in to_node, NEW ok \in BOOLEAN, NodeAnswers(m, ok)
        PROVE  /\ u \notin DOMAIN relations'
               /\ \A r \in to_bridge' : r.uri = u => ~r.observe
    <3>1. m.uri = u => m.observe = "none"
      BY DEF Unobserved, NoRequestObserves
    <3>2. PICK observe \in BOOLEAN :
            /\ to_bridge' = to_bridge \cup {[token |-> m.token, uri |-> m.uri,
                                             observe |-> observe]}
            /\ \/ observe /\ m.observe # "none" /\ relations' = Put(relations, m.uri, m.token)
               \/ ~observe /\ relations' = Without(relations, m.uri)
               \/ ~observe /\ relations' = relations
      BY <2>1 DEF NodeAnswers
    <3>. QED
      BY <3>1, <3>2 DEF Unobserved, NoTableObserves, NoResponseObserves, Put, Without,
           Restrict
  <2>2. ASSUME NEW v \in Uris, NodeNotifies(v)
        PROVE  /\ u \notin DOMAIN relations'
               /\ \A r \in to_bridge' : r.uri = u => ~r.observe
    BY <2>2 DEF NodeNotifies, Unobserved, NoTableObserves, NoResponseObserves
  <2>3. ASSUME NEW v \in Uris, NodeForgets(v)
        PROVE  /\ u \notin DOMAIN relations'
               /\ \A r \in to_bridge' : r.uri = u => ~r.observe
    BY <2>3 DEF NodeForgets, Unobserved, NoTableObserves, NoResponseObserves, Without,
         Restrict
  <2>. QED
    BY <2>1, <2>2, <2>3
<1>2. UNCHANGED <<server, requests, replies, observeTokens, processVars, exchanges,
                  passing_on, to_node>>
  BY DEF NodeAnswers, NodeNotifies, NodeForgets
<1>3. NoResponseObserves(u)'
  BY <1>1, <1>2 DEF Unobserved, NoResponseObserves, processVars
<1>. QED
  BY <1>1, <1>2, <1>3 DEF Unobserved, NoTableObserves, NoRequestObserves, deviceVars

\* The other steps of the bridge empty queues, and close or time out exchanges.
LEMMA ConnectionKeepsUnobserved ==
  ASSUME IInv, NEW u \in Uris, Unobserved(u),
         \/ Bind \/ Accept \/ ReadFails \/ PortCollected
         \/ FhemConnects \/ ConnectionLost \/ TimeOut
         \/ \E token \in DOMAIN exchanges : TransferTimedOut(token),
         UNCHANGED deviceVars
  PROVE  Unobserved(u)'
<1>1. UNCHANGED <<observeTokens, networkVars>>
  BY DEF Bind, Accept, ReadFails, PortCollected, FhemConnects, ConnectionLost,
         TimeOut, TransferTimedOut
<1>2. NoTableObserves(u)'
  BY <1>1 DEF Unobserved, NoTableObserves, networkVars
<1>3. NoRequestObserves(u)'
  <2>1. Left
    BY DEF Left, Bind, Accept, ReadFails, PortCollected, FhemConnects, ConnectionLost,
           TimeOut, TransferTimedOut
  <2>. QED
    BY <1>1, <2>1, LinesStay DEF Unobserved, NoRequestObserves, networkVars
<1>4. NoResponseObserves(u)'
  <2>1. replies' = replies \/ replies' = << >>
    BY DEF Bind, Accept, ReadFails, PortCollected, FhemConnects, ConnectionLost,
           TimeOut, TransferTimedOut
  <2>2. \A r \in passing_on' : r.uri = u => ~r.observe
    <3>1. CASE Accept
      <4>1. \A r \in passing_on :
              /\ [r EXCEPT !.handler = Stale(@)].uri = r.uri
              /\ [r EXCEPT !.handler = Stale(@)].observe = r.observe
        BY DEF IInv, ThreadsTypeOK, Passed
      <4>2. \A r \in passing_on : r.uri = u => ~r.observe
        BY DEF Unobserved, NoResponseObserves
      <4>3. passing_on' = {[r EXCEPT !.handler = Stale(@)] : r \in passing_on}
        BY <3>1 DEF Accept
      <4> SUFFICES ASSUME NEW q \in passing_on', q.uri = u
                   PROVE  ~q.observe
        OBVIOUS
      <4>4. PICK r \in passing_on : q = [r EXCEPT !.handler = Stale(@)]
        BY <4>3
      <4>. QED
        BY <4>1, <4>2, <4>4
    <3>2. CASE ~Accept
      BY <3>2 DEF Bind, ReadFails, PortCollected, FhemConnects, ConnectionLost,
           TimeOut, TransferTimedOut, Unobserved, NoResponseObserves
    <3>. QED
      BY <3>1, <3>2
  <2>3. \A t \in DOMAIN exchanges : exchanges'[t].uri = exchanges[t].uri
    BY DEF IInv, TokensInv, TokensTypeOK, Exchange, Bind, Accept, ReadFails,
           PortCollected, FhemConnects, ConnectionLost, TimeOut, TransferTimedOut
  <2>4. server' = "waiting" /\ response' = "observed" =>
          server = "waiting" /\ response = "observed" /\ waiting_for' = waiting_for
    BY DEF Bind, Accept, ReadFails, PortCollected, FhemConnects, ConnectionLost,
           TimeOut, TransferTimedOut, Offer, processVars
  <2>. QED
    BY <1>1, <2>1, <2>2, <2>3, <2>4 DEF IInv, WaitsOnExchange, Unobserved,
         NoResponseObserves, networkVars
<1>. QED
  BY <1>2, <1>3, <1>4 DEF Unobserved, deviceVars

LEMMA BridgeKeepsUnobserved ==
  ASSUME IInv, NEW u \in Uris, Unobserved(u), BridgeNext, UNCHANGED deviceVars
  PROVE  Unobserved(u)'
BY ReadRequestKeepsUnobserved, RespondKeepsUnobserved, ReceiveResponseKeepsUnobserved,
   HandleResponseKeepsUnobserved, NodeKeepsUnobserved, ConnectionKeepsUnobserved
   DEF BridgeNext

LEMMA DevicesKeepUnobserved ==
  ASSUME IInv, DevicesTypeOK, NEW u \in Uris, Unobserved(u), wish'[u] = "none",
         DeviceNext
  PROVE  Unobserved(u)'
<1>1. optionObserve[u] = "none"
  BY DEF Unobserved
<1>2. \A v \in Uris : optionObserve[v] \in Options
  BY DEF DevicesTypeOK
<1>3. ASSUME NEW v \in Uris, WSN_Get(v)
      PROVE  Unobserved(u)'
  <2> DEFINE line == GetCommand(v, optionObserve[v])
  <2>1. line \in Line /\ (line.uri = u => line.observe = "none")
    BY <1>1, <1>2, CommandsAreLines DEF GetCommand
  <2>2. IOWrite(line) /\ optionObserve'[u] = "none"
    BY <1>1, <1>3 DEF WSN_Get, deviceVars
  <2>. HIDE DEF line
  <2>. QED
    BY <2>1, <2>2, WriteKeepsUnobserved
<1>4. ASSUME NEW v \in Uris, WSN_Observe(v) \/ WSN_Unobserve(v)
      PROVE  Unobserved(u)'
  <2> DEFINE line == GetCommand(v, optionObserve'[v])
  <2>1. v # u
    BY <1>4 DEF WSN_Observe, WSN_Unobserve, DevicesTypeOK
  <2>2. optionObserve'[u] = "none" /\ optionObserve'[v] \in Options
    BY <1>1, <1>4, <2>1 DEF WSN_Observe, WSN_Unobserve, DevicesTypeOK, Options
  <2>3. line \in Line /\ line.uri # u
    BY <2>1, <2>2, CommandsAreLines DEF GetCommand
  <2>4. IOWrite(line)
    BY <1>4 DEF WSN_Observe, WSN_Unobserve
  <2>. HIDE DEF line
  <2>. QED
    BY <2>2, <2>3, <2>4, WriteKeepsUnobserved
<1>5. ASSUME NEW v \in Uris, WSN_Set(v) \/ WSNPHD_Get(v)
      PROVE  Unobserved(u)'
  BY <1>1, <1>5, OtherCommands, WriteKeepsUnobserved DEF deviceVars
<1>. QED
  BY <1>3, <1>4, <1>5, ReadKeepsUnobserved DEF DeviceNext, Command

\* A device that was never given an observe command is observed nowhere.
THEOREM OnlyCommandedCorrect == SystemSpec => []OnlyCommandedSubscriptions
<1>1. SystemInit => UncommandedInv
  <2> SUFFICES ASSUME SystemInit, NEW u \in Uris
               PROVE  Unobserved(u)
    BY DEF UncommandedInv
  <2>1. DOMAIN observeTokens = {} /\ DOMAIN relations = {}
    BY DEF SystemInit, Init
  <2>2. optionObserve[u] = "none" /\ server # "waiting"
    BY DEF SystemInit, Init
  <2>. QED
    BY <2>1, <2>2 DEF SystemInit, Init, Unobserved, NoTableObserves, NoRequestObserves,
         NoResponseObserves
<1>2. IInv /\ DevicesTypeOK /\ UncommandedInv /\ [SystemNext]_systemVars => UncommandedInv'
  <2> SUFFICES ASSUME IInv, DevicesTypeOK, UncommandedInv, [SystemNext]_systemVars,
                      NEW u \in Uris, wish'[u] = "none"
               PROVE  Unobserved(u)'
    BY DEF UncommandedInv
  <2>1. wish[u] = "none"
    BY DEF SystemNext, DeviceNext, Command, WSN_Get, WSN_Observe, WSN_Unobserve, WSN_Set,
           WSNPHD_Get, WSNPHD_Read, systemVars, deviceVars, DevicesTypeOK
  <2>2. Unobserved(u)
    BY <2>1 DEF UncommandedInv
  <2>3. CASE UNCHANGED systemVars
    BY <2>2, <2>3 DEF Unobserved, NoTableObserves, NoRequestObserves,
         NoResponseObserves, systemVars, vars, deviceVars, processVars, networkVars
  <2>. QED
    BY <2>2, <2>3, DevicesKeepUnobserved, BridgeKeepsUnobserved DEF SystemNext
<1>3. UncommandedInv => OnlyCommandedSubscriptions
  BY DEF UncommandedInv, Unobserved, NoTableObserves, NoResponseObserves,
         OnlyCommandedSubscriptions
<1>. QED
  BY <1>1, <1>2, <1>3, DevicesTyped, SystemRefinesBridge, Invariance, PTL
     DEF SystemSpec

-----------------------------------------------------------------------------
(***************************************************************************)
(* Silence.                                                                *)
(***************************************************************************)

\* Elements of the queues after a step of another device.
LEMMA WriteKeepsSilent ==
  ASSUME IInv, NEW u \in Uris, Silent(u), NEW line \in Line, line.uri # u,
         IOWrite(line)
  PROVE  Silent(u)'
<1>1. CASE UNCHANGED vars
  BY <1>1 DEF Silent, vars, processVars
<1>2. CASE FhemWrites(line)
  <2>1. requests \in Seq(Line) /\ requests' = Append(requests, line)
    BY <1>2 DEF IInv, ThreadsTypeOK, FhemWrites
  <2>2. \A i \in DOMAIN requests' : requests'[i].uri # u
    BY <2>1, AppendElements DEF Silent
  <2>. QED
    BY <1>2, <2>2 DEF Silent, FhemWrites, processVars
<1>. QED
  BY <1>1, <1>2 DEF IOWrite

LEMMA CommandKeepsSilent ==
  ASSUME IInv, DevicesTypeOK, NEW u \in Uris, Silent(u),
         NEW v \in Uris, v # u, Command(v)
  PROVE  Silent(u)' /\ optionObserve'[u] = optionObserve[u]
<1>1. optionObserve'[u] = optionObserve[u] /\ optionObserve'[v] \in Options
  BY DEF Command, WSN_Get, WSN_Observe, WSN_Unobserve, WSN_Set, WSNPHD_Get, deviceVars,
         DevicesTypeOK, Options
<1>2. PICK line \in Line : line.uri = v /\ IOWrite(line)
  <2>1. \A option \in Options : GetCommand(v, option) \in Line /\ GetCommand(v, option).uri = v
    BY CommandsAreLines DEF GetCommand
  <2>2. CASE WSN_Set(v) \/ WSNPHD_Get(v)
    BY <2>2, OtherCommands
  <2>3. CASE WSN_Get(v)
    BY <1>1, <2>1, <2>3 DEF WSN_Get, deviceVars
  <2>4. CASE WSN_Observe(v) \/ WSN_Unobserve(v)
    BY <1>1, <2>1, <2>4 DEF WSN_Observe, WSN_Unobserve
  <2>. QED
    BY <2>2, <2>3, <2>4 DEF Command
<1>. QED
  BY <1>1, <1>2, WriteKeepsSilent

LEMMA ReadKeepsSilent ==
  ASSUME IInv, DevicesTypeOK, NEW u \in Uris, Silent(u), WSNPHD_Read
  PROVE  Silent(u)' /\ optionObserve'[u] = optionObserve[u]
<1> DEFINE reply == Head(replies)
<1>1. replies \in Seq(Reply) /\ replies # << >> /\ replies' = Tail(replies)
  BY DEF IInv, ThreadsTypeOK, WSNPHD_Read, FhemReads
<1>2. reply.uri # u
  BY <1>1, HeadElement DEF Silent
<1>3. optionObserve'[u] = optionObserve[u]
  BY <1>2 DEF WSNPHD_Read, WSN_Parse, DevicesTypeOK
<1>4. \A i \in DOMAIN replies' : replies'[i].uri # u
  BY <1>1, TailElements DEF Silent
<1>. QED
  BY <1>3, <1>4 DEF Silent, WSNPHD_Read, FhemReads, processVars

LEMMA ReadRequestKeepsSilent ==
  ASSUME IInv, NEW u \in Uris, Silent(u), ReadRequest
  PROVE  Silent(u)'
<1> DEFINE line == Head(requests)
<1>1. requests \in Seq(Line) /\ requests # << >>
  BY DEF IInv, ThreadsTypeOK, ReadRequest
<1>2. line.uri # u
  BY <1>1, HeadElement DEF Silent
<1>3. \A i \in DOMAIN requests' : requests'[i].uri # u
  <2>1. PICK k \in 1..Len(requests) :
          requests' = SubSeq(requests, k + 1, Len(requests))
    BY LinesTaken
  <2>. QED
    BY <1>1, <2>1, SuffixElements DEF Silent
<1>4. process(line) /\ server = "reading" /\ UNCHANGED <<replies, passing_on>>
  BY DEF ReadRequest
<1>. HIDE DEF line
<1>5. u \notin DOMAIN observeTokens'
  BY <1>2, <1>4 DEF Silent, process, Subscribe, Unsubscribe, Ignore, Ask, Put,
       Without, Restrict
<1>6. server' = "waiting" => exchanges'[waiting_for'].uri # u
  <2>1. \A token, handler : Execute(token, line, handler) =>
          exchanges'[token].uri = line.uri
    BY DEF Execute, Put
  <2>. QED
    BY <1>2, <1>4, <2>1 DEF process, Subscribe, Unsubscribe, Ignore, Ask, WaitFor,
         Proceed
<1>. QED
  BY <1>3, <1>4, <1>5, <1>6 DEF Silent

LEMMA RespondKeepsSilent ==
  ASSUME IInv, NEW u \in Uris, Silent(u), Respond
  PROVE  Silent(u)'
<1>1. \A reply \in AnswerTo(waiting_for) : reply.uri # u
  <2> SUFFICES ASSUME NEW reply \in AnswerTo(waiting_for)
               PROVE  reply.uri # u
    OBVIOUS
  <2>1. PICK c : reply = [code |-> c, uri |-> exchanges[waiting_for].uri,
                          observe |-> response = "observed"]
    BY DEF AnswerTo
  <2>. QED
    BY <2>1 DEF Silent, Respond
<1>2. replies \in Seq(Reply)
  BY DEF IInv, ThreadsTypeOK
<1>3. \A i \in DOMAIN replies' : replies'[i].uri # u
  BY <1>1, <1>2, AppendElements DEF Silent, Respond, sendResponse
<1>. QED
  BY <1>3 DEF Silent, Respond

\* A response handler for u would be a subscription.
LEMMA ReceiveResponseKeepsSilent ==
  ASSUME IInv, NEW u \in Uris, Silent(u), NEW m \in to_bridge, ReceiveResponse(m)
  PROVE  Silent(u)'
<1>1. \A t \in DOMAIN exchanges :
        /\ exchanges'[t].uri = exchanges[t].uri
        /\ exchanges[t].uri = u => exchanges[t].handler = "none"
  BY DEF IInv, TokensInv, TokensTypeOK, ReceiveResponse, Exchange, Silent,
         HandlersAreSubscriptions
<1>2. \A r \in passing_on' : r.uri = u => r.handler = "stale"
  BY <1>1 DEF ReceiveResponse, Silent
<1>. QED
  BY <1>1, <1>2 DEF IInv, WaitsOnExchange, ReceiveResponse, Silent

LEMMA HandleResponseKeepsSilent ==
  ASSUME IInv, NEW u \in Uris, Silent(u), handleResponse
  PROVE  Silent(u)'
<1>1. replies \in Seq(Reply)
  BY DEF IInv, ThreadsTypeOK
<1>2. \A i \in DOMAIN replies' : replies'[i].uri # u
  BY <1>1, AppendElements DEF Silent, handleResponse, sendResponse
<1>. QED
  BY <1>2 DEF Silent, handleResponse, processVars

LEMMA ConnectionKeepsSilent ==
  ASSUME IInv, NEW u \in Uris, Silent(u),
         \/ Bind \/ Accept \/ ReadFails \/ PortCollected
         \/ FhemConnects \/ ConnectionLost \/ TimeOut
         \/ \E token \in DOMAIN exchanges : TransferTimedOut(token)
         \/ \E m \in to_node, ok \in BOOLEAN : NodeAnswers(m, ok)
         \/ \E v \in Uris : NodeNotifies(v) \/ NodeForgets(v)
  PROVE  Silent(u)'
<1>1. observeTokens' = observeTokens
  BY DEF Bind, Accept, ReadFails, PortCollected, FhemConnects, ConnectionLost,
         TimeOut, TransferTimedOut, NodeAnswers, NodeNotifies, NodeForgets
<1>2. \A i \in DOMAIN requests' : requests'[i].uri # u
  <2>1. Left
    BY DEF Left, Bind, Accept, ReadFails, PortCollected, FhemConnects, ConnectionLost,
           TimeOut, TransferTimedOut, NodeAnswers, NodeNotifies, NodeForgets
  <2>. QED
    BY <2>1, LinesStay DEF Silent
<1>3. replies' = replies \/ replies' = << >>
  BY DEF Bind, Accept, ReadFails, PortCollected, FhemConnects, ConnectionLost,
         TimeOut, TransferTimedOut, NodeAnswers, NodeNotifies, NodeForgets
<1>4. \A t \in DOMAIN exchanges : exchanges'[t].uri = exchanges[t].uri
  BY DEF IInv, TokensInv, TokensTypeOK, Exchange, Bind, Accept, ReadFails,
         PortCollected, FhemConnects, ConnectionLost, TimeOut, TransferTimedOut,
         NodeAnswers, NodeNotifies, NodeForgets
<1>5. server' = "waiting" => server = "waiting" /\ waiting_for' = waiting_for
  BY DEF Bind, Accept, ReadFails, PortCollected, FhemConnects, ConnectionLost,
         TimeOut, TransferTimedOut, NodeAnswers, NodeNotifies, NodeForgets, processVars
<1>6. \A r \in passing_on' : r.uri = u => r.handler = "stale"
  <2>1. CASE Accept
    <3> SUFFICES ASSUME NEW q \in passing_on', q.uri = u
                 PROVE  q.handler = "stale"
      OBVIOUS
    <3>1. PICK r \in passing_on : q = [r EXCEPT !.handler = Stale(@)]
      BY <2>1 DEF Accept
    <3>2. q.uri = r.uri /\ q.handler = Stale(r.handler)
      BY <3>1 DEF IInv, ThreadsTypeOK, Passed
    <3>. QED
      BY <3>2 DEF Silent, Stale
  <2>2. CASE ~Accept
    BY <2>2 DEF Silent, Bind, ReadFails, PortCollected, FhemConnects, ConnectionLost,
         TimeOut, TransferTimedOut, NodeAnswers, NodeNotifies, NodeForgets
  <2>. QED
    BY <2>1, <2>2
<1>. QED
  BY <1>1, <1>2, <1>3, <1>4, <1>5, <1>6 DEF IInv, WaitsOnExchange, Silent

\* A device that FHEM has unsubscribed, with nothing under way, stays as it is
\* until its next command, however long the node goes on sending.
THEOREM SilenceCorrect == SystemSpec => SilenceHolds
<1>1. IInv /\ DevicesTypeOK /\ [SystemNext]_systemVars =>
        [\A u \in Uris : Silent(u) =>
           \/ Silent(u)' /\ optionObserve'[u] = optionObserve[u]
           \/ Command(u)]_systemVars
  <2> SUFFICES ASSUME IInv, DevicesTypeOK, SystemNext, NEW u \in Uris, Silent(u),
                      ~Command(u)
               PROVE  Silent(u)' /\ optionObserve'[u] = optionObserve[u]
    OBVIOUS
  <2>1. CASE DeviceNext
    BY <2>1, ReadKeepsSilent, CommandKeepsSilent DEF DeviceNext
  <2>2. CASE BridgeNext /\ UNCHANGED deviceVars
    <3>1. Silent(u)'
      BY <2>2, ReadRequestKeepsSilent, RespondKeepsSilent, ReceiveResponseKeepsSilent,
         HandleResponseKeepsSilent, ConnectionKeepsSilent DEF BridgeNext
    <3>. QED
      BY <2>2, <3>1 DEF deviceVars
  <2>. QED
    BY <2>1, <2>2 DEF SystemNext
<1>. QED
  BY <1>1, DevicesTyped, SystemRefinesBridge, Invariance, PTL
     DEF SystemSpec, SilenceHolds

-----------------------------------------------------------------------------
(***************************************************************************)
(* What FHEM's attribute optionObserve says of the subscriptions of the    *)
(* bridge, for resources whose observe counter never counts.               *)
(*                                                                         *)
(* The attribute is one of three things that change on their own: it, the  *)
(* lines on their way to the bridge, and observeTokens.  The invariants    *)
(* say what each leaves open to the others: Spared, of lines in any number *)
(* and connections that break, and Known, of one line at a time.           *)
(***************************************************************************)

\* No command of u is on its way to the bridge, but for gets without an option.
NoneAsked(u) ==
  /\ u \notin DOMAIN observeTokens
  /\ \A i \in DOMAIN requests : requests[i].uri = u => requests[i].observe = "none"

\* A line without the option was written before any with the option, and a line
\* with another number is never written.
Spared(u) ==
  /\ optionObserve[u] # "n"
  /\ optionObserve[u] = "none" => NoneAsked(u)
  /\ \A i \in DOMAIN requests : requests[i].uri = u => requests[i].observe # "n"
  /\ \A i \in DOMAIN requests : requests[i] = GetCommand(u, "none") =>
       /\ u \notin DOMAIN observeTokens
       /\ \A j \in DOMAIN requests : j < i /\ requests[j].uri = u =>
            requests[j].observe = "none"

SparedInv == \A u \in Uris \ EventUris : Spared(u)

\* The attribute before and after a step.
AttributeKept(u) == optionObserve'[u] = optionObserve[u] \/ optionObserve'[u] \in {"0", "1"}

-----------------------------------------------------------------------------
(***************************************************************************)
(* Gets spare relations.                                                   *)
(***************************************************************************)

LEMMA AppendPlaces ==
  ASSUME NEW S, NEW s \in Seq(S), NEW e
  PROVE  /\ DOMAIN Append(s, e) = DOMAIN s \cup {Len(s) + 1}
         /\ DOMAIN s = 1..Len(s) /\ Len(s) \in Nat
         /\ \A i \in DOMAIN s : Append(s, e)[i] = s[i]
         /\ Append(s, e)[Len(s) + 1] = e
OBVIOUS

\* A line is written whose option is the attribute's, or which is no get.
LEMMA WriteKeepsSpared ==
  ASSUME IInv, NEW u \in Uris, Spared(u), AttributeKept(u),
         NEW line \in Line, IOWrite(line),
         line.uri = u => \/ line.observe = optionObserve'[u]
                         \/ line.observe = "none" /\ line.method # "get"
  PROVE  Spared(u)'
<1>1. optionObserve'[u] # "n"
  BY DEF AttributeKept, Spared
<1>2. optionObserve'[u] = "none" => optionObserve[u] = "none" /\ NoneAsked(u)
  BY DEF AttributeKept, Spared
<1>3. CASE UNCHANGED vars
  BY <1>1, <1>2, <1>3 DEF Spared, NoneAsked, vars, GetCommand
<1>4. CASE FhemWrites(line)
  <2>1. requests \in Seq(Line) /\ requests' = Append(requests, line)
        /\ UNCHANGED observeTokens
    BY <1>4 DEF IInv, ThreadsTypeOK, FhemWrites
  <2>2. /\ DOMAIN requests' = DOMAIN requests \cup {Len(requests) + 1}
        /\ DOMAIN requests = 1..Len(requests) /\ Len(requests) \in Nat
        /\ \A i \in DOMAIN requests : requests'[i] = requests[i]
        /\ requests'[Len(requests) + 1] = line
    BY <2>1, AppendPlaces
  <2>3. line.uri = u => line.observe # "n"
    BY <1>1
  <2>4. optionObserve'[u] = "none" => NoneAsked(u)'
    BY <1>2, <2>1, <2>2 DEF NoneAsked
  <2>5. \A i \in DOMAIN requests' : requests'[i].uri = u => requests'[i].observe # "n"
    BY <2>2, <2>3 DEF Spared
  <2>6. ASSUME NEW i \in DOMAIN requests', requests'[i] = GetCommand(u, "none")
        PROVE  /\ u \notin DOMAIN observeTokens'
               /\ \A j \in DOMAIN requests' : j < i /\ requests'[j].uri = u =>
                    requests'[j].observe = "none"
    <3>1. CASE i \in DOMAIN requests
      <4>1. \A j \in DOMAIN requests' : j < i => j \in DOMAIN requests
        BY <2>2, <3>1
      <4>. QED
        BY <2>1, <2>2, <2>6, <3>1, <4>1 DEF Spared, GetCommand
    <3>2. CASE i = Len(requests) + 1
      <4>1. line.uri = u /\ line.method = "get" /\ line.observe = "none"
        BY <2>2, <2>6, <3>2 DEF GetCommand
      <4>2. NoneAsked(u)
        BY <1>2, <4>1
      <4>3. \A j \in DOMAIN requests' : j < i => j \in DOMAIN requests
        BY <2>2, <3>2
      <4>. QED
        BY <2>1, <2>2, <4>2, <4>3 DEF NoneAsked
    <3>. QED
      BY <2>2, <3>1, <3>2
  <2>. QED
    BY <1>1, <2>4, <2>5, <2>6 DEF Spared, GetCommand
<1>. QED
  BY <1>3, <1>4 DEF IOWrite

\* The bridge takes lines and executes the first of them.
LEMMA ReadRequestKeepsSpared ==
  ASSUME IInv, NEW u \in Uris, Spared(u), ReadRequest, UNCHANGED deviceVars
  PROVE  Spared(u)'
<1> DEFINE line == Head(requests)
<1>1. requests \in Seq(Line) /\ requests # << >>
  BY DEF IInv, ThreadsTypeOK, ReadRequest
<1>2. 1 \in DOMAIN requests /\ line = requests[1] /\ DOMAIN requests \subseteq Nat
  BY <1>1, HeadElement
<1>3. PICK k \in 1..Len(requests) : requests' = SubSeq(requests, k + 1, Len(requests))
  BY LinesTaken
<1>4. \A i \in DOMAIN requests' : /\ k + i \in DOMAIN requests
                                  /\ requests'[i] = requests[k + i]
  BY <1>1, <1>3, SuffixElements
<1>5. k \in Nat /\ k >= 1 /\ DOMAIN requests' \subseteq Nat
  BY <1>1, <1>3
<1>6. process(line)
  BY DEF ReadRequest
<1>. HIDE DEF line
<1>7. u \in DOMAIN observeTokens' =>
        u \in DOMAIN observeTokens \/ (line.uri = u /\ line.observe = "0")
  BY <1>6 DEF process, Subscribe, Unsubscribe, Ignore, Ask, Put, Without, Restrict
<1>8. UNCHANGED optionObserve
  BY DEF deviceVars
<1>9. optionObserve[u] = "none" => NoneAsked(u)'
  BY <1>2, <1>4, <1>7 DEF Spared, NoneAsked
<1>10. \A i \in DOMAIN requests' : requests'[i].uri = u => requests'[i].observe # "n"
  BY <1>4 DEF Spared
<1>11. ASSUME NEW i \in DOMAIN requests', requests'[i] = GetCommand(u, "none")
       PROVE  /\ u \notin DOMAIN observeTokens'
              /\ \A j \in DOMAIN requests' : j < i /\ requests'[j].uri = u =>
                   requests'[j].observe = "none"
  <2>1. k + i \in DOMAIN requests /\ requests[k + i] = GetCommand(u, "none")
    BY <1>4, <1>11
  <2>2. /\ u \notin DOMAIN observeTokens
        /\ \A j \in DOMAIN requests : j < k + i /\ requests[j].uri = u =>
             requests[j].observe = "none"
    BY <2>1 DEF Spared
  <2>3. i >= 1 /\ 1 < k + i
    BY <1>1, <1>3, <1>5
  <2>4. u \notin DOMAIN observeTokens'
    BY <1>2, <1>7, <2>2, <2>3
  <2>5. \A j \in DOMAIN requests' : j < i => k + j < k + i
    BY <1>5
  <2>. QED
    BY <1>4, <2>2, <2>4, <2>5
<1>. QED
  BY <1>8, <1>9, <1>10, <1>11 DEF Spared, GetCommand

\* Nothing is asked of the bridge.
LEMMA OthersKeepSpared ==
  ASSUME IInv, NEW u \in Uris, Spared(u), AttributeKept(u), UNCHANGED observeTokens,
         Left
  PROVE  Spared(u)'
BY LinesStay DEF Spared, NoneAsked, AttributeKept, GetCommand

LEMMA BridgeStep ==
  ASSUME BridgeNext, ~ReadRequest
  PROVE  UNCHANGED observeTokens /\ Left
BY DEF Left, BridgeNext, Bind, Accept, ReadFails, PortCollected, FhemConnects, ConnectionLost,
       Respond, ReceiveResponse, handleResponse, TimeOut, TransferTimedOut, NodeAnswers,
       NodeNotifies, NodeForgets

\* What FHEM reads sets the attribute to a number that does not count.
LEMMA ReadIsKept ==
  ASSUME DevicesTypeOK, NEW u \in Uris \ EventUris, WSNPHD_Read
  PROVE  /\ AttributeKept(u) /\ optionObserve'[u] \in {optionObserve[u], "0"}
         /\ UNCHANGED <<server, connectionVars, observeTokens, requests>>
BY DEF AttributeKept, WSNPHD_Read, WSN_Parse, ObserveCounter, DevicesTypeOK, FhemReads

\* What a command writes, and what it does to the attribute of u.
LEMMA CommandWrites ==
  ASSUME DevicesTypeOK, NEW u \in Uris, NEW v \in Uris, Command(v)
  PROVE  /\ AttributeKept(u)
         /\ v # u => optionObserve'[u] = optionObserve[u]
         /\ \E line \in Line :
              /\ IOWrite(line)
              /\ line.uri = v
              /\ \/ line.observe = optionObserve'[v]
                 \/ /\ line.observe = "none" /\ line.method # "get"
                    /\ optionObserve'[v] = optionObserve[v]
              /\ \/ optionObserve'[v] = optionObserve[v]
                 \/ line.observe = optionObserve'[v] /\ line.observe \in {"0", "1"}
<1>1. \A w \in Uris : optionObserve[w] \in Options
  BY DEF DevicesTypeOK
<1>2. CASE WSN_Get(v)
  <2> DEFINE line == GetCommand(v, optionObserve[v])
  <2>1. line \in Line /\ line.uri = v /\ line.observe = optionObserve[v]
    BY <1>1, CommandsAreLines DEF GetCommand
  <2>2. IOWrite(line) /\ UNCHANGED optionObserve
    BY <1>2 DEF WSN_Get, deviceVars
  <2>. HIDE DEF line
  <2>. QED
    BY <2>1, <2>2 DEF AttributeKept
<1>3. CASE WSN_Observe(v) \/ WSN_Unobserve(v)
  <2> DEFINE line == GetCommand(v, optionObserve'[v])
  <2>1. /\ optionObserve'[v] \in {"0", "1"}
        /\ \A w \in Uris : w # v => optionObserve'[w] = optionObserve[w]
    BY <1>3 DEF WSN_Observe, WSN_Unobserve, DevicesTypeOK
  <2>2. line \in Line /\ line.uri = v /\ line.observe = optionObserve'[v]
    BY <2>1, CommandsAreLines DEF GetCommand, Options
  <2>3. IOWrite(line)
    BY <1>3 DEF WSN_Observe, WSN_Unobserve
  <2>. HIDE DEF line
  <2>. QED
    BY <2>1, <2>2, <2>3 DEF AttributeKept
<1>4. CASE WSN_Set(v) \/ WSNPHD_Get(v)
  BY <1>4, OtherCommands DEF AttributeKept, deviceVars
<1>. QED
  BY <1>2, <1>3, <1>4 DEF Command

LEMMA NextSpared ==
  ASSUME IInv, DevicesTypeOK, SparedInv, [SystemNext]_systemVars
  PROVE  SparedInv'
<1> SUFFICES ASSUME NEW u \in Uris \ EventUris
             PROVE  Spared(u)'
  BY DEF SparedInv
<1>1. Spared(u)
  BY DEF SparedInv
<1>2. CASE UNCHANGED systemVars
  BY <1>1, <1>2, OthersKeepSpared DEF systemVars, vars, deviceVars, AttributeKept, Left
<1>3. CASE WSNPHD_Read
  BY <1>1, <1>3, ReadIsKept, OthersKeepSpared DEF Left
<1>4. ASSUME NEW v \in Uris, Command(v)
      PROVE  Spared(u)'
  <2>1. PICK line \in Line :
              /\ IOWrite(line)
              /\ line.uri = v
              /\ \/ line.observe = optionObserve'[v]
                 \/ line.observe = "none" /\ line.method # "get"
    BY <1>4, CommandWrites
  <2>2. AttributeKept(u)
    BY <1>4, CommandWrites
  <2>. QED
    BY <1>1, <2>1, <2>2, WriteKeepsSpared
<1>5. CASE BridgeNext /\ UNCHANGED deviceVars
  BY <1>1, <1>5, ReadRequestKeepsSpared, BridgeStep, OthersKeepSpared
     DEF AttributeKept, deviceVars
<1>. QED
  BY <1>2, <1>3, <1>4, <1>5 DEF SystemNext, DeviceNext

\* No get that would end or replace the relation of a resource is sent while the
\* bridge has subscribed to it, however many lines are lost and however often the
\* connection breaks.
THEOREM SparesCorrect == SystemSpec => GetsSpareRelations
<1>1. SystemInit => SparedInv
  BY DEF SystemInit, Init, SparedInv, Spared, NoneAsked
<1>2. IInv /\ SparedInv =>
        \A u \in Uris \ EventUris :
          /\ ReadRequest
          /\ Head(requests) \in {GetCommand(u, "none"), GetCommand(u, "n")}
          => u \notin DOMAIN observeTokens
  <2> SUFFICES ASSUME IInv, SparedInv, ReadRequest, NEW u \in Uris \ EventUris,
                      Head(requests) \in {GetCommand(u, "none"), GetCommand(u, "n")}
               PROVE  u \notin DOMAIN observeTokens
    OBVIOUS
  <2>1. requests \in Seq(Line) /\ requests # << >>
    BY DEF IInv, ThreadsTypeOK, ReadRequest
  <2>2. 1 \in DOMAIN requests /\ Head(requests) = requests[1]
    BY <2>1, HeadElement
  <2>3. Spared(u)
    BY DEF SparedInv
  <2>4. requests[1] # GetCommand(u, "n")
    BY <2>2, <2>3 DEF Spared, GetCommand
  <2>. QED
    BY <2>2, <2>3, <2>4 DEF Spared
<1>. QED
  BY <1>1, <1>2, NextSpared, DevicesTyped, SystemRefinesBridge, Invariance, PTL
     DEF SystemSpec, GetsSpareRelations

-----------------------------------------------------------------------------
(***************************************************************************)
(* FHEM knows the bridge's subscriptions, while lines are not lost: one    *)
(* arrives at a time, and the connection lasts.                            *)
(***************************************************************************)

\* The first connection is the only one, and nothing is subscribed before it.
Lasting ==
  /\ socket # "lost" /\ server # "ended"
  /\ server \in {"binding", "accepting"} => DOMAIN observeTokens = {}
  /\ server = "binding" => ~port_bound /\ link = "down"
  /\ server \in {"reading", "waiting"} => socket = "open" /\ link = "up"
  /\ requests # << >> => link = "up" /\ (socket = "open" \/ server = "accepting")

\* A line that will end a subscription of u follows the line i.
EndsAfter(u, i) ==
  \E j \in DOMAIN requests : j > i /\ requests[j].uri = u /\ requests[j].observe = "1"

\* A subscription of the bridge, or one that is about to begin, is one FHEM knows, or
\* about to end.
Known(u) ==
  /\ u \in DOMAIN observeTokens => optionObserve[u] = "0" \/ EndsAfter(u, 0)
  /\ \A i \in DOMAIN requests :
       requests[i].uri = u /\ requests[i].observe = "0" =>
         optionObserve[u] = "0" \/ EndsAfter(u, i)

KnownInv == Lasting /\ \A u \in Uris \ EventUris : Known(u)

\* A connection that lasts can always be written on, or nothing is subscribed.
LEMMA WriteArrives ==
  ASSUME IInv, Lasting, NEW line, IOWrite(line)
  PROVE  \/ FhemWrites(line)
         \/ UNCHANGED vars /\ DOMAIN observeTokens = {} /\ requests = << >>
BY DEF IOWrite, Lasting, IInv, ThreadsTypeOK

\* One line is read at a time, the first.
LEMMA TakeOneLine ==
  ASSUME MaxLines = 1, IInv, Lasting, ReadRequest
  PROVE  /\ DOMAIN requests = 1..Len(requests) /\ Len(requests) \in Nat
         /\ 1 \in DOMAIN requests /\ process(requests[1])
         /\ DOMAIN requests' = 1..(Len(requests) - 1)
         /\ \A i \in DOMAIN requests' : requests'[i] = requests[i + 1]
         /\ requests # << >>
         /\ server = "reading" /\ server' \in {"reading", "waiting"}
         /\ UNCHANGED connectionVars
<1>1. requests \in Seq(Line) /\ requests # << >>
  BY DEF IInv, ThreadsTypeOK, ReadRequest
<1>2. PICK k \in 1..Len(requests) :
        requests' = SubSeq(requests, k + 1, Len(requests)) /\ k <= MaxLines
  BY LinesTaken
<1>3. Len(requests) \in Nat /\ DOMAIN requests = 1..Len(requests) /\ Len(requests) >= 1
  BY <1>1
<1>4. requests' = SubSeq(requests, 2, Len(requests))
  BY <1>2, <1>3
<1>5. /\ DOMAIN requests' = 1..(Len(requests) - 1)
      /\ \A i \in DOMAIN requests' : requests'[i] = requests[i + 1]
  BY <1>1, <1>3, <1>4
<1>6. process(requests[1]) /\ server = "reading" /\ UNCHANGED connectionVars
  BY <1>1, HeadElement DEF ReadRequest
<1>7. server' \in {"reading", "waiting"}
  BY <1>6 DEF process, Subscribe, Unsubscribe, Ignore, Ask, WaitFor, Proceed
<1>. QED
  BY <1>1, <1>3, <1>5, <1>6, <1>7

LEMMA NextLasting ==
  ASSUME MaxLines = 1, ~LinkBreaks, IInv, Lasting, [Next]_vars
  PROVE  Lasting'
<1>1. CASE UNCHANGED vars
  BY <1>1 DEF vars, connectionVars, Lasting
<1>2. ASSUME NEW line \in Line, FhemWrites(line)
      PROVE  Lasting'
  BY <1>2 DEF FhemWrites, Lasting, connectionVars
<1>3. CASE FhemReads
  BY <1>3 DEF FhemReads, Lasting, connectionVars
<1>4. CASE ReadRequest
  BY <1>4, TakeOneLine DEF Lasting, connectionVars
<1>5. CASE Bind \/ Accept \/ ReadFails \/ PortCollected \/ FhemConnects \/ ConnectionLost
  BY <1>5 DEF Bind, Accept, ReadFails, PortCollected, FhemConnects, ConnectionLost,
       Lasting, connectionVars, IInv, ThreadsTypeOK
<1>6. CASE Respond
  BY <1>6 DEF Respond, Lasting, connectionVars
<1>7. CASE \/ \E m \in to_bridge : ReceiveResponse(m)
           \/ handleResponse \/ TimeOut
           \/ \E token \in DOMAIN exchanges : TransferTimedOut(token)
           \/ \E m \in to_node, ok \in BOOLEAN : NodeAnswers(m, ok)
           \/ \E u \in Uris : NodeNotifies(u) \/ NodeForgets(u)
  <2>1. UNCHANGED <<server, connectionVars, requests, observeTokens>>
    BY <1>7 DEF ReceiveResponse, handleResponse, TimeOut, TransferTimedOut, NodeAnswers,
         NodeNotifies, NodeForgets
  <2>. QED
    BY <2>1 DEF Lasting, connectionVars
<1>. QED
  BY <1>1, <1>2, <1>3, <1>4, <1>5, <1>6, <1>7 DEF Next, BridgeNext

\* A command of any device.
LEMMA CommandKeepsKnown ==
  ASSUME MaxLines = 1, IInv, DevicesTypeOK, Lasting, NEW u \in Uris, Known(u),
         NEW v \in Uris, Command(v)
  PROVE  Known(u)'
<1>1. PICK line \in Line :
              /\ IOWrite(line)
              /\ line.uri = v
              /\ \/ line.observe = optionObserve'[v]
                 \/ /\ line.observe = "none" /\ line.method # "get"
                    /\ optionObserve'[v] = optionObserve[v]
              /\ \/ optionObserve'[v] = optionObserve[v]
                 \/ line.observe = optionObserve'[v] /\ line.observe \in {"0", "1"}
  BY CommandWrites
<1>2. v # u => optionObserve'[u] = optionObserve[u]
  BY CommandWrites
<1>3. CASE UNCHANGED vars /\ DOMAIN observeTokens = {} /\ requests = << >>
  BY <1>3 DEF Known, EndsAfter, vars
<1>4. CASE FhemWrites(line)
  <2>1. requests \in Seq(Line) /\ requests' = Append(requests, line)
        /\ UNCHANGED observeTokens
    BY <1>4 DEF FhemWrites, IInv, ThreadsTypeOK
  <2>2. /\ DOMAIN requests' = DOMAIN requests \cup {Len(requests) + 1}
        /\ DOMAIN requests = 1..Len(requests) /\ Len(requests) \in Nat
        /\ \A i \in DOMAIN requests : requests'[i] = requests[i]
        /\ requests'[Len(requests) + 1] = line
    BY <2>1, AppendPlaces
  <2>3. \A i : EndsAfter(u, i) => EndsAfter(u, i)'
    BY <2>2 DEF EndsAfter
  <2>4. CASE v = u /\ line.observe = "1"
    <3>1. \A i \in 0..Len(requests) : EndsAfter(u, i)'
      BY <1>1, <2>2, <2>4 DEF EndsAfter
    <3>. QED
      BY <2>2, <2>4, <3>1 DEF Known
  <2>5. CASE v = u /\ line.observe # "1"
    <3>1. optionObserve'[u] \in {optionObserve[u], "0"}
      BY <1>1, <2>5
    <3>2. line.observe = "0" => optionObserve'[u] = "0"
      BY <1>1, <2>5
    <3>. QED
      BY <2>1, <2>2, <2>3, <3>1, <3>2 DEF Known
  <2>6. CASE v # u
    BY <1>1, <1>2, <2>1, <2>2, <2>3, <2>6 DEF Known
  <2>. QED
    BY <2>4, <2>5, <2>6
<1>. QED
  BY <1>1, <1>3, <1>4, WriteArrives

LEMMA ExecutionKeepsKnown ==
  ASSUME MaxLines = 1, IInv, Lasting, NEW u \in Uris, Known(u), ReadRequest,
         UNCHANGED deviceVars
  PROVE  Known(u)'
<1>1. /\ DOMAIN requests = 1..Len(requests) /\ Len(requests) \in Nat
      /\ 1 \in DOMAIN requests /\ process(requests[1])
      /\ DOMAIN requests' = 1..(Len(requests) - 1)
      /\ \A i \in DOMAIN requests' : requests'[i] = requests[i + 1]
  BY TakeOneLine
<1>2. u \in DOMAIN observeTokens' =>
        \/ u \in DOMAIN observeTokens
           /\ ~(requests[1].uri = u /\ requests[1].observe = "1")
        \/ requests[1].uri = u /\ requests[1].observe = "0"
  BY <1>1 DEF process, Subscribe, Unsubscribe, Ignore, Ask, Put, Without, Restrict
<1>3. ASSUME NEW i \in Nat, EndsAfter(u, i + 1)
      PROVE  EndsAfter(u, i)'
  <2>1. PICK j \in DOMAIN requests :
          j > i + 1 /\ requests[j].uri = u /\ requests[j].observe = "1"
    BY <1>3 DEF EndsAfter
  <2>2. j - 1 \in DOMAIN requests' /\ j - 1 > i /\ requests'[j - 1] = requests[j]
    BY <1>1, <2>1
  <2>. QED
    BY <2>1, <2>2 DEF EndsAfter
<1>4. UNCHANGED optionObserve
  BY DEF deviceVars
<1>5. ASSUME u \in DOMAIN observeTokens'
      PROVE  optionObserve'[u] = "0" \/ EndsAfter(u, 0)'
  <2>1. CASE requests[1].uri = u /\ requests[1].observe = "0"
    BY <1>1, <1>3, <1>4, <2>1 DEF Known
  <2>2. CASE /\ u \in DOMAIN observeTokens
             /\ ~(requests[1].uri = u /\ requests[1].observe = "1")
    <3>1. EndsAfter(u, 0) => EndsAfter(u, 1)
      BY <1>1, <2>2 DEF EndsAfter
    <3>. QED
      BY <1>3, <1>4, <2>2, <3>1 DEF Known
  <2>. QED
    BY <1>2, <1>5, <2>1, <2>2
<1>6. ASSUME NEW i \in DOMAIN requests', requests'[i].uri = u,
             requests'[i].observe = "0"
      PROVE  optionObserve'[u] = "0" \/ EndsAfter(u, i)'
  <2>1. i \in Nat /\ i + 1 \in DOMAIN requests /\ requests'[i] = requests[i + 1]
    BY <1>1, <1>6
  <2>. QED
    BY <1>3, <1>4, <1>6, <2>1 DEF Known
<1>. QED
  BY <1>5, <1>6 DEF Known

LEMMA NextKnown ==
  ASSUME MaxLines = 1, ~LinkBreaks, IInv, DevicesTypeOK, KnownInv,
         [SystemNext]_systemVars
  PROVE  KnownInv'
<1>1. Lasting'
  BY SystemStep, NextLasting DEF KnownInv
<1> SUFFICES ASSUME NEW u \in Uris \ EventUris
             PROVE  Known(u)'
  BY <1>1 DEF KnownInv
<1>2. Known(u) /\ Lasting
  BY DEF KnownInv
<1>3. CASE UNCHANGED systemVars
  BY <1>2, <1>3 DEF systemVars, vars, deviceVars, Known, EndsAfter
<1>4. CASE WSNPHD_Read
  BY <1>2, <1>4, ReadIsKept DEF Known, EndsAfter
<1>5. CASE \E v \in Uris : Command(v)
  BY <1>2, <1>5, CommandKeepsKnown
<1>6. CASE BridgeNext /\ UNCHANGED deviceVars
  <2>1. CASE ReadRequest
    BY <1>2, <1>6, <2>1, ExecutionKeepsKnown
  <2>2. CASE ~ReadRequest
    <3>1. UNCHANGED <<observeTokens, requests>>
      <4>1. ~ReadFails
        BY <1>2 DEF ReadFails, Lasting
      <4>. QED
        BY <1>6, <2>2, <4>1 DEF BridgeNext, Bind, Accept, PortCollected, FhemConnects,
             ConnectionLost, Respond, ReceiveResponse, handleResponse, TimeOut,
             TransferTimedOut, NodeAnswers, NodeNotifies, NodeForgets
    <3>. QED
      BY <1>2, <1>6, <3>1 DEF Known, EndsAfter, deviceVars
  <2>. QED
    BY <2>1, <2>2
<1>. QED
  BY <1>3, <1>4, <1>5, <1>6 DEF SystemNext, DeviceNext

\* Where no line is lost, FHEM knows what the bridge has subscribed to, for every
\* set of devices and however long it runs.
THEOREM KnownCorrect ==
  ASSUME MaxLines = 1, ~LinkBreaks
  PROVE  SystemSpec => []SubscriptionIsKnown
<1>1. SystemInit => KnownInv
  BY DEF SystemInit, Init, KnownInv, Lasting, Known
<1>2. IInv /\ DevicesTypeOK /\ KnownInv /\ [SystemNext]_systemVars => KnownInv'
  BY NextKnown
<1>3. IInv /\ KnownInv => SubscriptionIsKnown
  BY DEF IInv, TokensInv, TokensTypeOK, KnownInv, Known, EndsAfter, SubscriptionIsKnown
<1>. QED
  BY <1>1, <1>2, <1>3, DevicesTyped, SystemRefinesBridge, Invariance, PTL
     DEF SystemSpec
=============================================================================
