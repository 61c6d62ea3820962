----------------------------- MODULE CoapBridge -----------------------------
(***************************************************************************)
(* The bridge between FHEM and the sensor nodes (coap_client): a TCP       *)
(* server thread that executes the command lines of FHEM one by one as     *)
(* CoAP requests (TcpServerThread, FhemCoapWrapper, CoapClient), and the   *)
(* receiver thread of the Californium library, which passes notifications  *)
(* on.                                                                     *)
(*                                                                         *)
(* A line is the command FHEM wrote; the text of answers is left out, what *)
(* is kept of a reply is its resource, the code it begins with and whether *)
(* it ends with an observe option.  Californium, the                       *)
(* TCP connection and the UDP network are external: a datagram that was    *)
(* sent may arrive at any time, often, or never.  The node is known by its *)
(* observe relations alone, at most one per resource (the bridge is one    *)
(* client).                                                                *)
(***************************************************************************)
EXTENDS Integers, FiniteSets, SequencesExt

CONSTANTS
  Uris,
  MaxToken,          \* bound: requests the bridge executes; FHEM writes as many,
                     \* and one more
  MaxLines,          \* bound: lines that fit in a direction of the connection
  LinkBreaks         \* connections with FHEM may be lost

ASSUME CoapBridgeAssumption ==
  MaxToken \in Nat /\ MaxLines \in Nat \ {0} /\ LinkBreaks \in BOOLEAN

VARIABLES
  server,            \* where TcpServerThread.run() stands
  port_bound,        \* a ServerSocket holds the port
  link,              \* FHEM's end of its TCP connection
  socket,            \* clientSocket, the end that was accepted
  requests,          \* lines FHEM wrote, or is writing, that nobody has read
  replies,           \* lines the bridge wrote that FHEM has not read
  last_token,        \* TokenManager
  observeTokens,     \* resource -> token of its subscription
  waiting_for,       \* token of the request process() waits on, or NoToken
  response,          \* what the response queue of that request holds, "unlinked"
                     \* when all is written but the error that it has no links
  exchanges,         \* TokenLayer: token -> the last request that carried it
  passing_on,        \* {} or the response handleResponse() is about to write
  to_node, to_bridge,            \* datagrams that were sent
  relations          \* at the node: resource -> token of the relation

connectionVars == <<port_bound, link, socket>>
processVars    == <<waiting_for, response>>
networkVars    == <<to_node, to_bridge, relations>>
vars == <<server, connectionVars, requests, replies, last_token, observeTokens,
          processVars, exchanges, passing_on, networkVars>>

NoToken == 0
Tokens  == 1..MaxToken

\* The commands FHEM writes: get, or set and discover, which have no options.
\* The observe option is 0 to subscribe, 1 to unsubscribe, "n" for any other
\* number.  A discovery is a GET as well, of the resource its user names, or of
\* the discovery resource of a node, which is a resource nobody observes.
Line == [uri : Uris, method : {"get"}, observe : {"none", "0", "1", "n"}]
        \cup [uri : Uris, method : {"set", "discover"}, observe : {"none"}]

\* The code of an answer to a get and of a notification is 2; answers to other
\* requests (1 and 3) and errors (10) are one to FHEM.
Reply == [code : {"get", "other"}, uri : Uris, observe : BOOLEAN]

\* A request with a response handler passes its responses on to FHEM: on the
\* connection it came from, which is the present one while the handler is live.
Exchange == [uri : Uris, method : {"get", "set", "discover"},
             handler : {"none", "live", "stale"},
             state : {"asked", "answered", "closed"}]
Passed == [uri : Uris, handler : {"none", "live", "stale"}, observe : BOOLEAN]

Request  == [token : Tokens, uri : Uris, get : BOOLEAN,
             observe : {"none", "0", "1", "n"}]
Response == [token : Tokens, uri : Uris, observe : BOOLEAN]

Without(f, x) == Restrict(f, DOMAIN f \ {x})
Put(f, x, v) == [y \in DOMAIN f \cup {x} |-> IF y = x THEN v ELSE f[y]]

Init ==
  /\ server = "binding"
  /\ port_bound = FALSE
  /\ link = "down"
  /\ socket = "none"
  /\ requests = << >>
  /\ replies = << >>
  /\ last_token = NoToken
  /\ observeTokens = << >>
  /\ waiting_for = NoToken
  /\ response = "none"
  /\ exchanges = << >>
  /\ passing_on = {}
  /\ to_node = {}
  /\ to_bridge = {}
  /\ relations = << >>

-----------------------------------------------------------------------------
(***************************************************************************)
(* The connection with FHEM.                                               *)
(***************************************************************************)

\* new ServerSocket(port).  While an earlier one holds the port it fails, and
\* the thread tries again for ever.
Bind ==
  /\ server = "binding"
  /\ ~port_bound
  /\ server' = "accepting"
  /\ port_bound' = TRUE
  /\ UNCHANGED <<link, socket, requests, replies, last_token, observeTokens,
                 processVars, exchanges, passing_on, networkVars>>

\* A new FhemCoapWrapper writes on the new connection; the handlers of earlier
\* subscriptions still write on theirs.
Stale(handler) == IF handler = "live" THEN "stale" ELSE handler

Accept ==
  /\ server = "accepting"
  /\ link = "up"
  /\ server' = "reading"
  /\ socket' = "open"
  /\ exchanges' = [t \in DOMAIN exchanges |->
                     [exchanges[t] EXCEPT !.handler = Stale(@)]]
  /\ passing_on' = {[r EXCEPT !.handler = Stale(@)] : r \in passing_on}
  /\ UNCHANGED <<port_bound, link, requests, replies, last_token,
                 observeTokens, processVars, networkVars>>

\* The connection was lost.  At the end of the lines readLine() returns null,
\* whose toString() throws and ends the thread; or it throws an IOException,
\* after which the thread binds its port again.
ReadFails ==
  /\ server = "reading"
  /\ socket = "lost"
  /\ \/ requests = << >> /\ server' = "ended"
     \/ server' = "binding"
  /\ requests' = << >>
  /\ UNCHANGED <<connectionVars, replies, last_token, observeTokens,
                 processVars, exchanges, passing_on, networkVars>>

\* The garbage collector closes the ServerSocket that run() dropped, and with it
\* a connection nobody accepted.
PortCollected ==
  /\ server = "binding"
  /\ port_bound
  /\ port_bound' = FALSE
  /\ link' = "down"
  /\ UNCHANGED <<server, socket, requests, replies, last_token, observeTokens,
                 processVars, exchanges, passing_on, networkVars>>

\* WSNPHD_Define() and WSNPHD_Ready() open FHEM's end.  A listening socket takes
\* every connection, whether or not the thread will accept it.
FhemConnects ==
  /\ link = "down"
  /\ port_bound
  /\ link' = "up"
  /\ UNCHANGED <<server, port_bound, socket, requests, replies, last_token,
                 observeTokens, processVars, exchanges, passing_on, networkVars>>

\* FHEM is one thread: it is in syswrite() while the connection is full and does
\* not take its last line.
FhemBlocked == Len(requests) > MaxLines
Arrived == IF FhemBlocked THEN SubSeq(requests, 1, MaxLines) ELSE requests

\* A syswrite() on a connection that is lost fails.
ConnectionLost ==
  /\ LinkBreaks
  /\ socket = "open"
  /\ socket' = "lost"
  /\ link' = "down"
  /\ replies' = << >>
  /\ requests' = Arrived
  /\ UNCHANGED <<server, port_bound, last_token, observeTokens, processVars,
                 exchanges, passing_on, networkVars>>

\* WSNPHD_Write().  What FHEM writes on a connection that will not be accepted
\* is lost without a trace, and left out.
FhemWrites(line) ==
  /\ link = "up"
  /\ socket = "open" \/ server = "accepting"
  /\ ~FhemBlocked
  /\ last_token + Len(requests) <= MaxToken
  /\ requests' = Append(requests, line)
  /\ UNCHANGED <<server, connectionVars, replies, last_token, observeTokens,
                 processVars, exchanges, passing_on, networkVars>>

\* WSNPHD_Read()
FhemReads ==
  /\ ~FhemBlocked
  /\ replies # << >>
  /\ replies' = Tail(replies)
  /\ UNCHANGED <<server, connectionVars, requests, last_token, observeTokens,
                 processVars, exchanges, passing_on, networkVars>>

\* sendResponse().  A PrintWriter keeps the errors of a dead connection to
\* itself, and waits while a live one is full.
sendResponse(reply) ==
  IF socket = "open"
  THEN /\ Len(replies) < MaxLines
       /\ replies' = Append(replies, reply)
  ELSE UNCHANGED replies

-----------------------------------------------------------------------------
(***************************************************************************)
(* CoapClient.process(), up to the point where it waits for a response.    *)
(***************************************************************************)

\* Mutant: the token is taken before the counter moves on.
LastToken == last_token

\* Mutant: a token is used again as soon as its exchange is closed.
ReleasedToken ==
  LET closed == {t \in DOMAIN exchanges : exchanges[t].state = "closed"}
  IN  IF closed = {} THEN last_token + 1 ELSE CHOOSE t \in closed : TRUE

\* TokenManager.acquireToken()
acquireToken == last_token + 1

\* request.execute(): the token layer files the request under its token.
Execute(token, line, handler) ==
  /\ exchanges' = Put(exchanges, token,
                      [uri |-> line.uri, method |-> line.method,
                       handler |-> handler, state |-> "asked"])
  /\ to_node' = to_node \cup {[token |-> token, uri |-> line.uri,
                               get |-> line.method # "set",
                               observe |-> line.observe]}

WaitFor(token) ==
  /\ server' = "waiting"
  /\ waiting_for' = token
  /\ response' = "none"

Proceed == UNCHANGED <<server, processVars>>

\* observe=0 for a resource without a subscription.
Subscribe(line, token) ==
  /\ line.observe = "0"
  /\ line.uri \notin DOMAIN observeTokens
  /\ observeTokens' = Put(observeTokens, line.uri, token)
  /\ Execute(token, line, "live")
  /\ WaitFor(token)

\* Mutant: an unsubscription goes out under its own token.
UnsubscribeUnderNewToken(line) ==
  /\ line.observe = "1"
  /\ line.uri \in DOMAIN observeTokens
  /\ observeTokens' = Without(observeTokens, line.uri)
  /\ Execute(acquireToken, line, "none")
  /\ Proceed

\* observe=1: the request carries the token of the subscription, and its
\* response is not waited for.
Unsubscribe(line) ==
  /\ line.observe = "1"
  /\ line.uri \in DOMAIN observeTokens
  /\ observeTokens' = Without(observeTokens, line.uri)
  /\ Execute(observeTokens[line.uri], line, "none")
  /\ Proceed

\* observe=0 for a subscription, observe=1 without one: not executable.
Ignore(line) ==
  /\ \/ line.observe = "0" /\ line.uri \in DOMAIN observeTokens
     \/ line.observe = "1" /\ line.uri \notin DOMAIN observeTokens
  /\ UNCHANGED <<observeTokens, exchanges, to_node>>
  /\ Proceed

\* Any other request, with another value of the observe option if it has one.
Ask(line, token) ==
  /\ line.observe \in {"none", "n"}
  /\ Execute(token, line, "none")
  /\ WaitFor(token)
  /\ UNCHANGED observeTokens

\* A token is acquired for every line, used or not.
process(line) ==
  /\ last_token < MaxToken
  /\ last_token' = last_token + 1
  /\ \/ Subscribe(line, acquireToken)
     \/ Unsubscribe(line)
     \/ Ignore(line)
     \/ Ask(line, acquireToken)

\* One round of the inner loop of run().  Its new BufferedReader takes in all
\* the lines that have arrived, of which readLine() returns the first; the
\* others are gone with the reader.
ReadRequest ==
  /\ server = "reading"
  /\ requests # << >>
  /\ \E taken \in 1..Len(Arrived) :
       requests' = SubSeq(requests, taken + 1, Len(requests))
  /\ process(Head(requests))
  /\ UNCHANGED <<connectionVars, replies, passing_on, to_bridge, relations>>

\* What process() writes for a response: with the code of the request, but for an
\* error and for 4.03 and 4.05.
AnswerTo(token) ==
  LET code  == IF exchanges[token].method = "get" THEN "get" ELSE "other"
      codes == CASE response \in {"timeout", "unlinked"} -> {"other"}
                 [] response = "observed" -> {code}
                 [] OTHER                 -> {code, "other"}
  IN  {[code |-> c, uri |-> exchanges[token].uri,
        observe |-> response = "observed"] : c \in codes}

\* The answer of a discovery is expected to be in link format.
NeedsLinks ==
  exchanges[waiting_for].method = "discover" /\ response \in {"plain", "observed"}

\* Mutant: waitForMultipleResponses is true.
RespondMultiple ==
  /\ server = "waiting"
  /\ response # "none"
  /\ \E reply \in AnswerTo(waiting_for) : sendResponse(reply)
  /\ server' = IF response = "timeout" THEN "reading" ELSE server
  /\ waiting_for' = IF response = "timeout" THEN NoToken ELSE waiting_for
  /\ response' = "none"
  /\ UNCHANGED <<connectionVars, requests, last_token, observeTokens,
                 exchanges, passing_on, networkVars>>

\* receiveResponse() returns: the answer or the error goes to FHEM, and as
\* waitForMultipleResponses is false process() is done.  For a discovery that is
\* not answered with links it still has an error to write.
Respond ==
  /\ server = "waiting"
  /\ response # "none"
  /\ \E reply \in AnswerTo(waiting_for) : sendResponse(reply)
  /\ \/ /\ server' = "reading"
        /\ waiting_for' = NoToken
        /\ response' = "none"
     \/ /\ NeedsLinks
        /\ response' = "unlinked"
        /\ UNCHANGED <<server, waiting_for>>
  /\ UNCHANGED <<connectionVars, requests, last_token, observeTokens,
                 exchanges, passing_on, networkVars>>

-----------------------------------------------------------------------------
(***************************************************************************)
(* The threads of Californium.                                             *)
(***************************************************************************)

\* A response queue whose request nobody waits on is never looked at again.
Offer(token, what) ==
  response' = IF waiting_for = token /\ response = "none" THEN what ELSE response

\* The token layer knows a response by its token.  Without an Observe option it
\* ends its exchange, with one the exchange lasts.
ReceiveResponse(m) ==
  /\ passing_on = {}
  /\ IF m.token \in DOMAIN exchanges /\ exchanges[m.token].state # "closed"
     THEN /\ exchanges' = [exchanges EXCEPT ![m.token].state =
                             IF m.observe THEN "answered" ELSE "closed"]
          /\ passing_on' =
               IF exchanges[m.token].handler = "none" THEN {}
               ELSE {[uri |-> exchanges[m.token].uri, observe |-> m.observe,
                      handler |-> exchanges[m.token].handler]}
          /\ Offer(m.token, IF m.observe THEN "observed" ELSE "plain")
     ELSE UNCHANGED <<exchanges, passing_on, response>>
  /\ UNCHANGED <<server, connectionVars, requests, replies, last_token,
                 observeTokens, waiting_for, networkVars>>

\* CoapClient.handleResponse(), while process() may be writing its answer.
handleResponse ==
  /\ \E r \in passing_on :
       IF r.handler = "live"
       THEN sendResponse([code |-> "get", uri |-> r.uri, observe |-> r.observe])
       ELSE UNCHANGED replies
  /\ passing_on' = {}
  /\ UNCHANGED <<server, connectionVars, requests, last_token, observeTokens,
                 processVars, exchanges, networkVars>>

\* The transaction layer gives up: nothing acknowledged the request.  The token
\* layer still waits for a response.
TimeOut ==
  /\ server = "waiting"
  /\ exchanges[waiting_for].state = "asked"
  /\ Offer(waiting_for, "timeout")
  /\ UNCHANGED <<server, connectionVars, requests, replies, last_token,
                 observeTokens, waiting_for, exchanges, passing_on, networkVars>>

\* The token layer gives up as well, after DEFAULT_OVERALL_TIMEOUT.
TransferTimedOut(token) ==
  /\ exchanges[token].state = "asked"
  /\ exchanges' = [exchanges EXCEPT ![token].state = "closed"]
  /\ Offer(token, "timeout")
  /\ UNCHANGED <<server, connectionVars, requests, replies, last_token,
                 observeTokens, waiting_for, passing_on, networkVars>>

-----------------------------------------------------------------------------
(***************************************************************************)
(* The network and the node.                                               *)
(***************************************************************************)

\* The node takes a GET with an Observe option for a
\* registration, whatever the value of the option, and ends the relation if it
\* has no room, or if the GET, like that of a discovery, has none.  A GET answered with an error (not ok)
\* and the other methods leave the relation alone.
NodeAnswers(m, ok) ==
  /\ \E observe \in BOOLEAN :
       /\ to_bridge' = to_bridge \cup {[token |-> m.token, uri |-> m.uri,
                                        observe |-> observe]}
       /\ IF m.get /\ ok
          THEN \/ /\ observe /\ m.observe # "none"
                  /\ relations' = Put(relations, m.uri, m.token)
               \/ /\ ~observe
                  /\ relations' = Without(relations, m.uri)
          ELSE ~observe /\ UNCHANGED relations
  /\ UNCHANGED <<server, connectionVars, requests, replies, last_token,
                 observeTokens, processVars, exchanges, passing_on, to_node>>

NodeNotifies(u) ==
  /\ u \in DOMAIN relations
  /\ to_bridge' = to_bridge \cup {[token |-> relations[u], uri |-> u,
                                   observe |-> TRUE]}
  /\ UNCHANGED <<server, connectionVars, requests, replies, last_token,
                 observeTokens, processVars, exchanges, passing_on, to_node,
                 relations>>

\* A notification timed out or was rejected.
NodeForgets(u) ==
  /\ u \in DOMAIN relations
  /\ relations' = Without(relations, u)
  /\ UNCHANGED <<server, connectionVars, requests, replies, last_token,
                 observeTokens, processVars, exchanges, passing_on, to_node,
                 to_bridge>>

-----------------------------------------------------------------------------

\* Everything but what FHEM reads and writes.
BridgeNext ==
  \/ Bind \/ Accept \/ ReadFails \/ PortCollected
  \/ FhemConnects \/ ConnectionLost
  \/ ReadRequest \/ Respond
  \/ \E m \in to_bridge : ReceiveResponse(m)
  \/ handleResponse \/ TimeOut
  \/ \E token \in DOMAIN exchanges : TransferTimedOut(token)
  \/ \E m \in to_node, ok \in BOOLEAN : NodeAnswers(m, ok)
  \/ \E u \in Uris : NodeNotifies(u) \/ NodeForgets(u)

Next == BridgeNext \/ FhemReads \/ \E line \in Line : FhemWrites(line)

Spec == Init /\ [][Next]_vars

\* The threads run, Californium's timers expire, FHEM's main loop reads its
\* connection and opens it again, and of two threads that write on a full
\* connection each has its turn.  Nodes and the network owe nothing.
Fairness ==
  /\ WF_vars(Bind) /\ WF_vars(Accept) /\ WF_vars(ReadFails)
  /\ WF_vars(PortCollected)
  /\ WF_vars(FhemConnects) /\ WF_vars(FhemReads)
  /\ WF_vars(ReadRequest) /\ SF_vars(Respond) /\ SF_vars(handleResponse)
  /\ WF_vars(TimeOut)

FairSpec == Spec /\ Fairness

-----------------------------------------------------------------------------
(***************************************************************************)
(* Properties.                                                             *)
(***************************************************************************)

TypeOK ==
  /\ server \in {"binding", "accepting", "reading", "waiting", "ended"}
  /\ port_bound \in BOOLEAN
  /\ link \in {"down", "up"}
  /\ socket \in {"none", "open", "lost"}
  /\ requests \in Seq(Line)
  /\ replies \in Seq(Reply)
  /\ last_token \in 0..MaxToken
  /\ DOMAIN observeTokens \subseteq Uris
  /\ observeTokens \in [DOMAIN observeTokens -> Tokens]
  /\ waiting_for \in Tokens \cup {NoToken}
  /\ response \in {"none", "plain", "observed", "timeout", "unlinked"}
  /\ DOMAIN exchanges \subseteq Tokens
  /\ exchanges \in [DOMAIN exchanges -> Exchange]
  /\ passing_on \subseteq Passed
  /\ to_node \subseteq Request
  /\ to_bridge \subseteq Response
  /\ DOMAIN relations \subseteq Uris
  /\ relations \in [DOMAIN relations -> Tokens]

\* A response handler is the handler of the present subscription of its
\* resource: FHEM gets no notification twice, and none of a resource it has
\* unsubscribed from.
HandlersAreSubscriptions ==
  \A t \in DOMAIN exchanges :
    exchanges[t].handler # "none" =>
      /\ exchanges[t].uri \in DOMAIN observeTokens
      /\ observeTokens[exchanges[t].uri] = t

\* The bridge recognises what it receives by its token alone, and an
\* unsubscription takes over the token of its subscription.  Even so whatever a
\* node sends or will send belongs to the resource its token stands for at the
\* bridge, however late it comes.
ResponsesMatchExchanges ==
  /\ \A m \in to_node \cup to_bridge :
       m.token \in DOMAIN exchanges /\ exchanges[m.token].uri = m.uri
  /\ \A u \in DOMAIN relations :
       relations[u] \in DOMAIN exchanges /\ exchanges[relations[u]].uri = u

\* FHEM is in syswrite() until the bridge reads, and the bridge's threads are in
\* println() until FHEM reads: nothing in the code prevents it.
WaitForEachOther == FhemBlocked /\ socket = "open" /\ Len(replies) = MaxLines

\* process() returns for every line, so the next line is read: whatever the
\* node and the network do, each request ends with an answer or an error, unless
\* FHEM and the bridge have come to wait for each other.
RequestEnds == server = "waiting" ~> server = "reading" \/ WaitForEachOther

\* Every line FHEM writes on a connection that lasts is executed: reading takes
\* one line at a time off the connection.
NoRequestLost ==
  [][socket' = "open" => Len(requests') >= Len(requests) - 1]_vars

\* A connection that was lost is established again.
ReconnectServed == socket = "lost" ~> socket = "open"

\* process() never waits for what can no longer come: its response queue holds
\* something, or the request is unanswered and will time out at the latest.
WaitHasAnEnd ==
  server = "waiting" =>
    response # "none" \/ exchanges[waiting_for].state = "asked"
=============================================================================
