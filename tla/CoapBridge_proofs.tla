-------------------------- MODULE CoapBridge_proofs --------------------------
(***************************************************************************)
(* Theorems about CoapBridge, for every value of its constants.            *)
(*                                                                         *)
(* That the handlers and the datagrams agree with the subscriptions is not *)
(* inductive: an unsubscription takes its token from observeTokens, so     *)
(* that table has to agree with the exchanges (SubscriptionsKnown), and a  *)
(* new token has to be one that no exchange has (TokensIssued).            *)
(***************************************************************************)
EXTENDS CoapBridge, TLAPS

\* Every token in use was acquired.
TokensIssued == \A t \in DOMAIN exchanges : t <= last_token

\* The token of a subscription is that of an exchange about its resource.
SubscriptionsKnown ==
  \A u \in DOMAIN observeTokens :
    /\ observeTokens[u] \in DOMAIN exchanges
    /\ exchanges[observeTokens[u]].uri = u

\* The types of the variables that know tokens, and of the others.
TokensTypeOK ==
  /\ last_token \in 0..MaxToken
  /\ DOMAIN observeTokens \subseteq Uris
  /\ observeTokens \in [DOMAIN observeTokens -> Tokens]
  /\ DOMAIN exchanges \subseteq Tokens
  /\ exchanges \in [DOMAIN exchanges -> Exchange]
  /\ to_node \subseteq Request
  /\ to_bridge \subseteq Response
  /\ DOMAIN relations \subseteq Uris
  /\ relations \in [DOMAIN relations -> Tokens]

ThreadsTypeOK ==
  /\ server \in {"binding", "accepting", "reading", "waiting", "ended"}
  /\ port_bound \in BOOLEAN
  /\ link \in {"down", "up"}
  /\ socket \in {"none", "open", "lost"}
  /\ requests \in Seq(Line)
  /\ replies \in Seq(Reply)
  /\ waiting_for \in Tokens \cup {NoToken}
  /\ response \in {"none", "plain", "observed", "timeout", "unlinked"}
  /\ passing_on \subseteq Passed

\* process() waits for the response to a request the token layer has filed.
WaitsOnExchange == server = "waiting" => waiting_for \in DOMAIN exchanges

TokensInv == /\ TokensTypeOK
             /\ TokensIssued
             /\ SubscriptionsKnown
             /\ HandlersAreSubscriptions
             /\ ResponsesMatchExchanges

IInv == TokensInv /\ ThreadsTypeOK /\ WaitsOnExchange

tokenVars == <<last_token, observeTokens, exchanges, networkVars>>

-----------------------------------------------------------------------------
(***************************************************************************)
(* The tables.                                                             *)
(***************************************************************************)

\* Put() keeps the type of a table.
LEMMA PutType ==
  ASSUME NEW f, NEW x, NEW v, NEW S, f \in [DOMAIN f -> S], v \in S
  PROVE  Put(f, x, v) \in [DOMAIN Put(f, x, v) -> S]
BY DEF Put

\* Without() drops the entry of x and keeps the others.
LEMMA WithoutTable ==
  ASSUME NEW f, NEW x
  PROVE  /\ DOMAIN Without(f, x) = DOMAIN f \ {x}
         /\ \A y \in DOMAIN f \ {x} : Without(f, x)[y] = f[y]
BY DEF Without, Restrict

LEMMA WithoutType ==
  ASSUME NEW f, NEW x, NEW S, f \in [DOMAIN f -> S]
  PROVE  Without(f, x) \in [DOMAIN Without(f, x) -> S]
BY DEF Without, Restrict

\* The exchanges may change as long as each keeps its resource and none gets a
\* handler.
LEMMA SameExchanges ==
  ASSUME TokensInv,
         UNCHANGED <<last_token, observeTokens, networkVars>>,
         exchanges' \in [DOMAIN exchanges -> Exchange],
         \A t \in DOMAIN exchanges :
           /\ exchanges'[t].uri = exchanges[t].uri
           /\ exchanges'[t].handler # "none" => exchanges[t].handler # "none"
  PROVE  TokensInv'
<1>1. DOMAIN exchanges' = DOMAIN exchanges
  OBVIOUS
<1>2. TokensTypeOK'
  BY <1>1 DEF TokensInv, TokensTypeOK, networkVars
<1>3. TokensIssued' /\ SubscriptionsKnown'
  BY <1>1 DEF TokensInv, TokensIssued, SubscriptionsKnown
<1>4. HandlersAreSubscriptions'
  BY <1>1 DEF TokensInv, HandlersAreSubscriptions
<1>5. ResponsesMatchExchanges'
  <2>1. \A m \in to_node \cup to_bridge :
          m.token \in DOMAIN exchanges' /\ exchanges'[m.token].uri = m.uri
    BY <1>1 DEF TokensInv, ResponsesMatchExchanges
  <2>2. \A u \in DOMAIN relations :
          relations[u] \in DOMAIN exchanges' /\ exchanges'[relations[u]].uri = u
    BY <1>1 DEF TokensInv, ResponsesMatchExchanges
  <2>. QED
    BY <2>1, <2>2 DEF ResponsesMatchExchanges, networkVars
<1>. QED
  BY <1>2, <1>3, <1>4, <1>5 DEF TokensInv

LEMMA SameTokens == TokensInv /\ UNCHANGED tokenVars => TokensInv'
BY DEF TokensInv, tokenVars, networkVars, TokensTypeOK, TokensIssued,
       SubscriptionsKnown, HandlersAreSubscriptions, ResponsesMatchExchanges

-----------------------------------------------------------------------------
(***************************************************************************)
(* The requests.                                                           *)
(***************************************************************************)

\* A request under a new token, or under the token of an exchange about the same
\* resource, leaves every datagram with the resource of its token.
LEMMA ExecuteKeepsMatch ==
  ASSUME TokensInv,
         NEW token \in Tokens, NEW line \in Line,
         NEW handler \in {"none", "live"},
         token \notin DOMAIN exchanges \/ exchanges[token].uri = line.uri,
         Execute(token, line, handler),
         UNCHANGED <<to_bridge, relations>>
  PROVE  /\ ResponsesMatchExchanges'
         /\ DOMAIN exchanges' = DOMAIN exchanges \cup {token}
         /\ exchanges'[token].uri = line.uri
         /\ exchanges'[token].handler = handler
         /\ \A t \in DOMAIN exchanges \ {token} : exchanges'[t] = exchanges[t]
         /\ \A t \in DOMAIN exchanges : exchanges'[t].uri = exchanges[t].uri
         /\ DOMAIN exchanges' \subseteq Tokens
         /\ exchanges' \in [DOMAIN exchanges' -> Exchange]
         /\ to_node' \subseteq Request
<1> DEFINE e == [uri |-> line.uri, method |-> line.method, handler |-> handler,
                 state |-> "asked"]
           r == [token |-> token, uri |-> line.uri, get |-> line.method # "set",
                 observe |-> line.observe]
<1>1. exchanges' = Put(exchanges, token, e) /\ to_node' = to_node \cup {r}
  BY DEF Execute
<1>2. e \in Exchange /\ r \in Request
  BY DEF Exchange, Request, Line
<1>3. /\ DOMAIN exchanges' = DOMAIN exchanges \cup {token}
      /\ exchanges'[token] = e
      /\ \A t \in DOMAIN exchanges \ {token} : exchanges'[t] = exchanges[t]
      /\ exchanges' \in [DOMAIN exchanges' -> Exchange]
  <2>1. exchanges \in [DOMAIN exchanges -> Exchange]
    BY DEF TokensInv, TokensTypeOK
  <2>. QED
    BY <1>1, <1>2, <2>1, PutType DEF Put
<1>4. e.uri = line.uri /\ e.handler = handler /\ r.token = token /\ r.uri = line.uri
  OBVIOUS
<1>. HIDE DEF e, r
<1>5. \A t \in DOMAIN exchanges : exchanges'[t].uri = exchanges[t].uri
  BY <1>3, <1>4
<1>6. ResponsesMatchExchanges'
  <2>1. \A m \in to_node \cup to_bridge :
          m.token \in DOMAIN exchanges' /\ exchanges'[m.token].uri = m.uri
    BY <1>3, <1>5 DEF TokensInv, ResponsesMatchExchanges
  <2>2. r.token \in DOMAIN exchanges' /\ exchanges'[r.token].uri = r.uri
    BY <1>3, <1>4
  <2>3. \A u \in DOMAIN relations :
          relations[u] \in DOMAIN exchanges' /\ exchanges'[relations[u]].uri = u
    BY <1>3, <1>5 DEF TokensInv, ResponsesMatchExchanges
  <2>. QED
    BY <1>1, <2>1, <2>2, <2>3 DEF ResponsesMatchExchanges
<1>7. DOMAIN exchanges' \subseteq Tokens /\ to_node' \subseteq Request
  BY <1>1, <1>2, <1>3 DEF TokensInv, TokensTypeOK
<1>. QED
  BY <1>3, <1>4, <1>5, <1>6, <1>7

\* A new token belongs to no exchange.
LEMMA AcquiredTokenIsNew ==
  ASSUME TokensInv, last_token < MaxToken
  PROVE  /\ acquireToken \in Tokens
         /\ acquireToken \notin DOMAIN exchanges
         /\ acquireToken = last_token + 1
         /\ last_token \in Nat
BY CoapBridgeAssumption
   DEF TokensInv, TokensTypeOK, TokensIssued, acquireToken, Tokens

LEMMA SubscribeKeepsTokens ==
  ASSUME TokensInv, NEW line \in Line,
         last_token < MaxToken, last_token' = last_token + 1,
         Subscribe(line, acquireToken), UNCHANGED <<to_bridge, relations>>
  PROVE  TokensInv'
<1> DEFINE token == acquireToken
<1>1. /\ token \in Tokens /\ token \notin DOMAIN exchanges
      /\ token = last_token + 1 /\ last_token \in Nat
  BY AcquiredTokenIsNew
<1>. HIDE DEF token
<1>2. /\ line.uri \notin DOMAIN observeTokens
      /\ observeTokens' = Put(observeTokens, line.uri, token)
      /\ Execute(token, line, "live")
  BY DEF Subscribe, token
<1>3. /\ ResponsesMatchExchanges'
      /\ DOMAIN exchanges' = DOMAIN exchanges \cup {token}
      /\ exchanges'[token].uri = line.uri
      /\ \A t \in DOMAIN exchanges \ {token} : exchanges'[t] = exchanges[t]
      /\ DOMAIN exchanges' \subseteq Tokens
      /\ exchanges' \in [DOMAIN exchanges' -> Exchange]
      /\ to_node' \subseteq Request
  BY <1>1, <1>2, ExecuteKeepsMatch
<1>4. /\ DOMAIN observeTokens' = DOMAIN observeTokens \cup {line.uri}
      /\ observeTokens'[line.uri] = token
      /\ \A u \in DOMAIN observeTokens : observeTokens'[u] = observeTokens[u]
  BY <1>2 DEF Put
<1>5. observeTokens' \in [DOMAIN observeTokens' -> Tokens]
  BY <1>1, <1>2, PutType DEF TokensInv, TokensTypeOK
<1>6. line.uri \in Uris
  BY DEF Line
<1>7. TokensTypeOK'
  BY <1>1, <1>3, <1>4, <1>5, <1>6, CoapBridgeAssumption DEF TokensInv, TokensTypeOK
<1>8. TokensIssued'
  BY <1>1, <1>3 DEF TokensInv, TokensTypeOK, TokensIssued, Tokens
<1>9. SubscriptionsKnown'
  BY <1>1, <1>3, <1>4 DEF TokensInv, SubscriptionsKnown
<1>10. HandlersAreSubscriptions'
  BY <1>1, <1>3, <1>4 DEF TokensInv, HandlersAreSubscriptions
<1>. QED
  BY <1>3, <1>7, <1>8, <1>9, <1>10 DEF TokensInv

LEMMA UnsubscribeKeepsTokens ==
  ASSUME TokensInv, NEW line \in Line,
         last_token < MaxToken, last_token' = last_token + 1,
         Unsubscribe(line), UNCHANGED <<to_bridge, relations>>
  PROVE  TokensInv'
<1> DEFINE token == observeTokens[line.uri]
<1>1. /\ line.uri \in DOMAIN observeTokens
      /\ observeTokens' = Without(observeTokens, line.uri)
      /\ Execute(token, line, "none")
  BY DEF Unsubscribe
<1>2. token \in Tokens /\ token \in DOMAIN exchanges /\ exchanges[token].uri = line.uri
  BY <1>1 DEF TokensInv, TokensTypeOK, SubscriptionsKnown
<1>3. \A u \in DOMAIN observeTokens \ {line.uri} : observeTokens[u] # token
  BY <1>1, <1>2 DEF TokensInv, SubscriptionsKnown
<1>. HIDE DEF token
<1>4. /\ ResponsesMatchExchanges'
      /\ DOMAIN exchanges' = DOMAIN exchanges
      /\ exchanges'[token].handler = "none"
      /\ \A t \in DOMAIN exchanges \ {token} : exchanges'[t] = exchanges[t]
      /\ \A t \in DOMAIN exchanges : exchanges'[t].uri = exchanges[t].uri
      /\ exchanges' \in [DOMAIN exchanges' -> Exchange]
      /\ to_node' \subseteq Request
  BY <1>1, <1>2, ExecuteKeepsMatch
<1>5. /\ DOMAIN observeTokens' = DOMAIN observeTokens \ {line.uri}
      /\ \A u \in DOMAIN observeTokens' : observeTokens'[u] = observeTokens[u]
      /\ observeTokens' \in [DOMAIN observeTokens' -> Tokens]
  BY <1>1, WithoutTable, WithoutType DEF TokensInv, TokensTypeOK
<1>6. TokensTypeOK'
  BY <1>4, <1>5, CoapBridgeAssumption DEF TokensInv, TokensTypeOK
<1>7. TokensIssued'
  BY <1>4, CoapBridgeAssumption DEF TokensInv, TokensTypeOK, TokensIssued, Tokens
<1>8. SubscriptionsKnown'
  BY <1>4, <1>5 DEF TokensInv, SubscriptionsKnown
<1>9. HandlersAreSubscriptions'
  <2> SUFFICES ASSUME NEW t \in DOMAIN exchanges', exchanges'[t].handler # "none"
               PROVE  /\ exchanges'[t].uri \in DOMAIN observeTokens'
                      /\ observeTokens'[exchanges'[t].uri] = t
    BY DEF HandlersAreSubscriptions
  <2>1. t # token /\ exchanges'[t] = exchanges[t]
    BY <1>4
  <2>2. /\ exchanges[t].uri \in DOMAIN observeTokens
        /\ observeTokens[exchanges[t].uri] = t
    BY <1>4, <2>1 DEF TokensInv, HandlersAreSubscriptions
  <2>3. exchanges[t].uri # line.uri
    BY <2>1, <2>2 DEF token
  <2>. QED
    BY <1>5, <2>1, <2>2, <2>3
<1>. QED
  BY <1>4, <1>6, <1>7, <1>8, <1>9 DEF TokensInv

LEMMA AskKeepsTokens ==
  ASSUME TokensInv, NEW line \in Line,
         last_token < MaxToken, last_token' = last_token + 1,
         Ask(line, acquireToken), UNCHANGED <<to_bridge, relations>>
  PROVE  TokensInv'
<1> DEFINE token == acquireToken
<1>1. /\ token \in Tokens /\ token \notin DOMAIN exchanges
      /\ token = last_token + 1 /\ last_token \in Nat
  BY AcquiredTokenIsNew
<1>. HIDE DEF token
<1>2. UNCHANGED observeTokens /\ Execute(token, line, "none")
  BY DEF Ask, token
<1>3. /\ ResponsesMatchExchanges'
      /\ DOMAIN exchanges' = DOMAIN exchanges \cup {token}
      /\ exchanges'[token].handler = "none"
      /\ \A t \in DOMAIN exchanges : exchanges'[t] = exchanges[t]
      /\ DOMAIN exchanges' \subseteq Tokens
      /\ exchanges' \in [DOMAIN exchanges' -> Exchange]
      /\ to_node' \subseteq Request
  BY <1>1, <1>2, ExecuteKeepsMatch
<1>4. TokensTypeOK'
  BY <1>1, <1>2, <1>3, CoapBridgeAssumption DEF TokensInv, TokensTypeOK
<1>5. TokensIssued'
  BY <1>1, <1>3 DEF TokensInv, TokensTypeOK, TokensIssued, Tokens
<1>6. SubscriptionsKnown'
  BY <1>1, <1>2, <1>3 DEF TokensInv, SubscriptionsKnown
<1>7. HandlersAreSubscriptions'
  BY <1>1, <1>2, <1>3 DEF TokensInv, HandlersAreSubscriptions
<1>. QED
  BY <1>3, <1>4, <1>5, <1>6, <1>7 DEF TokensInv

LEMMA ReadRequestKeepsInv ==
  ASSUME IInv, ReadRequest
  PROVE  IInv'
<1> DEFINE line == Head(requests)
<1>1. line \in Line /\ requests' \in Seq(Line)
  BY DEF IInv, ThreadsTypeOK, ReadRequest
<1>2. /\ last_token < MaxToken /\ last_token' = last_token + 1
      /\ UNCHANGED <<to_bridge, relations>>
  BY DEF ReadRequest, process
<1>. HIDE DEF line
<1>3. TokensInv'
  <2>1. CASE Subscribe(line, acquireToken)
    BY <1>1, <1>2, <2>1, SubscribeKeepsTokens DEF IInv
  <2>2. CASE Unsubscribe(line)
    BY <1>1, <1>2, <2>2, UnsubscribeKeepsTokens DEF IInv
  <2>3. CASE Ignore(line)
    <3>1. UNCHANGED <<observeTokens, exchanges, networkVars>>
      BY <1>2, <2>3 DEF Ignore, networkVars
    <3>2. TokensTypeOK' /\ TokensIssued'
      BY <1>2, <3>1, CoapBridgeAssumption
         DEF IInv, TokensInv, TokensTypeOK, TokensIssued, Tokens, networkVars
    <3>. QED
      BY <3>1, <3>2 DEF IInv, TokensInv, SubscriptionsKnown, networkVars,
           HandlersAreSubscriptions, ResponsesMatchExchanges
  <2>4. CASE Ask(line, acquireToken)
    BY <1>1, <1>2, <2>4, AskKeepsTokens DEF IInv
  <2>. QED
    BY <2>1, <2>2, <2>3, <2>4 DEF ReadRequest, process, line
<1>4. ThreadsTypeOK'
  <2>1. acquireToken \in Tokens
    BY <1>2, AcquiredTokenIsNew DEF IInv
  <2>2. /\ server' \in {"reading", "waiting"}
        /\ waiting_for' \in Tokens \cup {NoToken}
        /\ response' \in {"none", "plain", "observed", "timeout", "unlinked"}
    BY <2>1 DEF IInv, ThreadsTypeOK, ReadRequest, process, Subscribe, Unsubscribe,
         Ignore, Ask, WaitFor, Proceed, processVars
  <2>. QED
    BY <1>1, <2>2 DEF IInv, ThreadsTypeOK, ReadRequest, connectionVars
<1>5. WaitsOnExchange'
  <2>1. \A token, handler : Execute(token, line, handler) =>
          token \in DOMAIN exchanges'
    BY DEF Execute, Put
  <2>2. server = "reading"
    BY DEF ReadRequest
  <2>. QED
    BY <2>1, <2>2 DEF WaitsOnExchange, ReadRequest, process, Subscribe, Unsubscribe,
         Ignore, Ask, WaitFor, Proceed, processVars, line
<1>. QED
  BY <1>3, <1>4, <1>5 DEF IInv

-----------------------------------------------------------------------------
(***************************************************************************)
(* The responses and the node.                                             *)
(***************************************************************************)

LEMMA ReceiveResponseKeepsInv ==
  ASSUME IInv, NEW m \in to_bridge, ReceiveResponse(m)
  PROVE  IInv'
<1>1. /\ exchanges' \in [DOMAIN exchanges -> Exchange]
      /\ \A t \in DOMAIN exchanges :
           /\ exchanges'[t].uri = exchanges[t].uri
           /\ exchanges'[t].handler = exchanges[t].handler
  BY DEF IInv, TokensInv, TokensTypeOK, ReceiveResponse, Exchange
<1>2. TokensInv'
  BY <1>1, SameExchanges DEF IInv, ReceiveResponse
<1>3. passing_on' \subseteq Passed
  <2>1. m.observe \in BOOLEAN
    BY DEF IInv, TokensInv, TokensTypeOK, Response
  <2>2. \A t \in DOMAIN exchanges :
          exchanges[t].uri \in Uris /\ exchanges[t].handler \in {"none", "live", "stale"}
    BY DEF IInv, TokensInv, TokensTypeOK, Exchange
  <2>. QED
    BY <2>1, <2>2 DEF IInv, ThreadsTypeOK, ReceiveResponse, Passed
<1>4. response' \in {"none", "plain", "observed", "timeout", "unlinked"}
  BY DEF IInv, ThreadsTypeOK, ReceiveResponse, Offer
<1>5. ThreadsTypeOK'
  BY <1>3, <1>4 DEF IInv, ThreadsTypeOK, ReceiveResponse, connectionVars
<1>6. WaitsOnExchange'
  BY <1>1 DEF IInv, WaitsOnExchange, ReceiveResponse
<1>. QED
  BY <1>2, <1>5, <1>6 DEF IInv

LEMMA TransferTimedOutKeepsInv ==
  ASSUME IInv, NEW token \in DOMAIN exchanges, TransferTimedOut(token)
  PROVE  IInv'
<1>1. /\ exchanges' \in [DOMAIN exchanges -> Exchange]
      /\ \A t \in DOMAIN exchanges :
           /\ exchanges'[t].uri = exchanges[t].uri
           /\ exchanges'[t].handler = exchanges[t].handler
  BY DEF IInv, TokensInv, TokensTypeOK, TransferTimedOut, Exchange
<1>2. TokensInv'
  BY <1>1, SameExchanges DEF IInv, TransferTimedOut
<1>3. ThreadsTypeOK'
  BY DEF IInv, ThreadsTypeOK, TransferTimedOut, Offer, connectionVars
<1>4. WaitsOnExchange'
  BY <1>1 DEF IInv, WaitsOnExchange, TransferTimedOut
<1>. QED
  BY <1>2, <1>3, <1>4 DEF IInv

LEMMA AcceptKeepsInv ==
  ASSUME IInv, Accept
  PROVE  IInv'
<1>1. /\ exchanges' \in [DOMAIN exchanges -> Exchange]
      /\ \A t \in DOMAIN exchanges :
           /\ exchanges'[t].uri = exchanges[t].uri
           /\ exchanges'[t].handler # "none" => exchanges[t].handler # "none"
  BY DEF IInv, TokensInv, TokensTypeOK, Accept, Exchange, Stale
<1>2. TokensInv'
  BY <1>1, SameExchanges DEF IInv, Accept
<1>3. passing_on' \subseteq Passed
  BY DEF IInv, ThreadsTypeOK, Accept, Stale, Passed
<1>4. ThreadsTypeOK'
  BY <1>3 DEF IInv, ThreadsTypeOK, Accept, processVars
<1>5. WaitsOnExchange'
  BY DEF WaitsOnExchange, Accept
<1>. QED
  BY <1>2, <1>4, <1>5 DEF IInv

LEMMA NodeAnswersKeepsInv ==
  ASSUME IInv, NEW m \in to_node, NEW ok \in BOOLEAN, NodeAnswers(m, ok)
  PROVE  IInv'
<1>1. PICK observe \in BOOLEAN :
        /\ to_bridge' = to_bridge \cup {[token |-> m.token, uri |-> m.uri,
                                         observe |-> observe]}
        /\ \/ relations' = Put(relations, m.uri, m.token)
           \/ relations' = Without(relations, m.uri)
           \/ relations' = relations
  BY DEF NodeAnswers
<1>2. UNCHANGED <<last_token, observeTokens, exchanges, to_node>>
  BY DEF NodeAnswers
<1>3. /\ m.token \in Tokens /\ m.uri \in Uris
      /\ m.token \in DOMAIN exchanges /\ exchanges[m.token].uri = m.uri
  BY DEF IInv, TokensInv, TokensTypeOK, Request, ResponsesMatchExchanges
<1>4. /\ DOMAIN relations' \subseteq Uris
      /\ relations' \in [DOMAIN relations' -> Tokens]
      /\ \A u \in DOMAIN relations' :
           relations'[u] \in DOMAIN exchanges /\ exchanges[relations'[u]].uri = u
  <2>1. /\ DOMAIN relations \subseteq Uris
        /\ relations \in [DOMAIN relations -> Tokens]
        /\ \A u \in DOMAIN relations :
             relations[u] \in DOMAIN exchanges /\ exchanges[relations[u]].uri = u
    BY DEF IInv, TokensInv, TokensTypeOK, ResponsesMatchExchanges
  <2>2. CASE relations' = Put(relations, m.uri, m.token)
    <3>1. /\ DOMAIN relations' = DOMAIN relations \cup {m.uri}
          /\ relations'[m.uri] = m.token
          /\ \A u \in DOMAIN relations \ {m.uri} : relations'[u] = relations[u]
      BY <2>2 DEF Put
    <3>2. relations' \in [DOMAIN relations' -> Tokens]
      BY <1>3, <2>1, <2>2, PutType
    <3>. QED
      BY <1>3, <2>1, <3>1, <3>2
  <2>3. CASE relations' = Without(relations, m.uri)
    <3>1. /\ DOMAIN relations' = DOMAIN relations \ {m.uri}
          /\ \A u \in DOMAIN relations' : relations'[u] = relations[u]
      BY <2>3, WithoutTable
    <3>2. relations' \in [DOMAIN relations' -> Tokens]
      BY <2>1, <2>3, WithoutType
    <3>. QED
      BY <2>1, <3>1, <3>2
  <2>. QED
    BY <1>1, <2>1, <2>2, <2>3
<1>5. to_bridge' \subseteq Response
  BY <1>1, <1>3 DEF IInv, TokensInv, TokensTypeOK, Response
<1>6. \A r \in to_bridge' : r.token \in DOMAIN exchanges /\ exchanges[r.token].uri = r.uri
  BY <1>1, <1>3 DEF IInv, TokensInv, ResponsesMatchExchanges
<1>7. TokensTypeOK'
  BY <1>2, <1>4, <1>5 DEF IInv, TokensInv, TokensTypeOK
<1>8. ResponsesMatchExchanges'
  BY <1>2, <1>4, <1>6 DEF IInv, TokensInv, ResponsesMatchExchanges
<1>9. TokensInv'
  BY <1>2, <1>7, <1>8 DEF IInv, TokensInv, TokensIssued, SubscriptionsKnown,
       HandlersAreSubscriptions
<1>10. ThreadsTypeOK'
  BY DEF IInv, ThreadsTypeOK, NodeAnswers, connectionVars, processVars
<1>11. WaitsOnExchange'
  BY <1>2 DEF IInv, WaitsOnExchange, NodeAnswers, processVars
<1>. QED
  BY <1>9, <1>10, <1>11 DEF IInv

LEMMA NodeNotifiesKeepsInv ==
  ASSUME IInv, NEW u \in Uris, NodeNotifies(u) \/ NodeForgets(u)
  PROVE  IInv'
<1>1. UNCHANGED <<last_token, observeTokens, exchanges, to_node>>
  BY DEF NodeNotifies, NodeForgets
<1>2. TokensTypeOK' /\ ResponsesMatchExchanges'
  <2>1. CASE NodeNotifies(u)
    <3> DEFINE n == [token |-> relations[u], uri |-> u, observe |-> TRUE]
    <3>1. UNCHANGED relations /\ to_bridge' = to_bridge \cup {n}
      BY <2>1 DEF NodeNotifies
    <3>2. n.token = relations[u] /\ n.uri = u
      OBVIOUS
    <3>3. n \in Response
      <4>1. relations[u] \in Tokens
        BY <2>1 DEF IInv, TokensInv, TokensTypeOK, NodeNotifies
      <4>. QED
        BY <4>1 DEF Response
    <3>4. relations[u] \in DOMAIN exchanges /\ exchanges[relations[u]].uri = u
      BY <2>1 DEF IInv, TokensInv, ResponsesMatchExchanges, NodeNotifies
    <3>. HIDE DEF n
    <3>5. TokensTypeOK'
      BY <1>1, <3>1, <3>3 DEF IInv, TokensInv, TokensTypeOK
    <3>. QED
      BY <1>1, <3>1, <3>2, <3>4, <3>5 DEF IInv, TokensInv, ResponsesMatchExchanges
  <2>2. CASE NodeForgets(u)
    <3>1. /\ DOMAIN relations' = DOMAIN relations \ {u}
          /\ \A v \in DOMAIN relations' : relations'[v] = relations[v]
          /\ relations' \in [DOMAIN relations' -> Tokens]
      BY <2>2, WithoutTable, WithoutType
         DEF IInv, TokensInv, TokensTypeOK, NodeForgets
    <3>. QED
      BY <1>1, <2>2, <3>1 DEF IInv, TokensInv, TokensTypeOK, NodeForgets,
           ResponsesMatchExchanges
  <2>. QED
    BY <2>1, <2>2
<1>3. TokensInv'
  BY <1>1, <1>2 DEF IInv, TokensInv, TokensIssued, SubscriptionsKnown,
       HandlersAreSubscriptions
<1>4. ThreadsTypeOK'
  BY DEF IInv, ThreadsTypeOK, NodeNotifies, NodeForgets, connectionVars, processVars
<1>5. WaitsOnExchange'
  BY <1>1 DEF IInv, WaitsOnExchange, NodeNotifies, NodeForgets, processVars
<1>. QED
  BY <1>3, <1>4, <1>5 DEF IInv

-----------------------------------------------------------------------------
(***************************************************************************)
(* The connection, and all steps together.                                 *)
(***************************************************************************)

\* process() writes replies.
LEMMA AnswersAreReplies ==
  ASSUME IInv, NEW token \in DOMAIN exchanges
  PROVE  AnswerTo(token) \subseteq Reply
<1>1. exchanges[token].uri \in Uris
  BY DEF IInv, TokensInv, TokensTypeOK, Exchange
<1>2. \A c \in {"get", "other"}, o \in BOOLEAN :
        [code |-> c, uri |-> exchanges[token].uri, observe |-> o] \in Reply
  BY <1>1 DEF Reply
<1>3. (response = "observed") \in BOOLEAN
  OBVIOUS
<1>4. CASE response \in {"timeout", "unlinked"}
  BY <1>2, <1>4 DEF AnswerTo
<1>5. CASE response = "observed"
  BY <1>2, <1>3, <1>5 DEF AnswerTo
<1>6. CASE response \notin {"timeout", "unlinked", "observed"}
  BY <1>2, <1>3, <1>6 DEF AnswerTo
<1>. QED
  BY <1>4, <1>5, <1>6

\* The lines that have arrived are the first of those that were written.
LEMMA ArrivedLines ==
  ASSUME requests \in Seq(Line)
  PROVE  /\ Arrived \in Seq(Line) /\ Len(Arrived) \in 0..Len(requests)
         /\ Len(Arrived) <= MaxLines
         /\ DOMAIN Arrived \subseteq DOMAIN requests
         /\ \A i \in DOMAIN Arrived : Arrived[i] = requests[i]
<1>1. Len(requests) \in Nat /\ MaxLines \in Nat
  BY CoapBridgeAssumption
<1>2. CASE ~FhemBlocked
  BY <1>1, <1>2 DEF Arrived, FhemBlocked
<1>3. CASE FhemBlocked
  <2>1. Arrived = SubSeq(requests, 1, MaxLines) /\ MaxLines < Len(requests)
    BY <1>1, <1>3 DEF Arrived, FhemBlocked
  <2>. QED
    BY <1>1, <2>1
<1>. QED
  BY <1>2, <1>3

LEMMA ConnectionKeepsInv ==
  ASSUME IInv,
         \/ Bind \/ ReadFails \/ PortCollected \/ FhemConnects
         \/ ConnectionLost \/ FhemReads
         \/ \E line \in Line : FhemWrites(line)
         \/ Respond \/ handleResponse \/ TimeOut
  PROVE  IInv'
<1>1. UNCHANGED tokenVars
  BY DEF tokenVars, Bind, ReadFails, PortCollected, FhemConnects, ConnectionLost,
         FhemReads, FhemWrites, Respond, handleResponse, TimeOut
<1>2. TokensInv'
  BY <1>1, SameTokens DEF IInv
<1>3. ThreadsTypeOK'
  <2>1. CASE Bind \/ PortCollected \/ FhemConnects
    BY <2>1 DEF IInv, ThreadsTypeOK, processVars, Bind, PortCollected, FhemConnects
  <2>6. CASE ReadFails
    BY <2>6 DEF IInv, ThreadsTypeOK, connectionVars, processVars, ReadFails
  <2>7. CASE ConnectionLost
    BY <2>7, ArrivedLines DEF IInv, ThreadsTypeOK, processVars, ConnectionLost
  <2>2. CASE FhemReads
    BY <2>2 DEF IInv, ThreadsTypeOK, connectionVars, processVars, FhemReads
  <2>8. CASE \E line \in Line : FhemWrites(line)
    BY <2>8 DEF IInv, ThreadsTypeOK, connectionVars, processVars, FhemWrites
  <2>3. CASE Respond
    <3>1. AnswerTo(waiting_for) \subseteq Reply
      BY <2>3, AnswersAreReplies DEF Respond, IInv, WaitsOnExchange
    <3>2. replies' \in Seq(Reply)
      BY <2>3, <3>1 DEF IInv, ThreadsTypeOK, Respond, sendResponse
    <3>. QED
      BY <2>3, <3>2 DEF IInv, ThreadsTypeOK, connectionVars, Respond
  <2>4. CASE handleResponse
    <3>1. \A r \in passing_on :
            [code |-> "get", uri |-> r.uri, observe |-> r.observe] \in Reply
      BY DEF IInv, ThreadsTypeOK, Passed, Reply
    <3>2. \/ UNCHANGED replies
          \/ \E reply \in Reply : replies' = Append(replies, reply)
      BY <2>4, <3>1 DEF handleResponse, sendResponse
    <3>3. replies' \in Seq(Reply)
      BY <3>2 DEF IInv, ThreadsTypeOK
    <3>. QED
      BY <2>4, <3>3 DEF IInv, ThreadsTypeOK, connectionVars, processVars,
           handleResponse
  <2>5. CASE TimeOut
    BY <2>5 DEF IInv, ThreadsTypeOK, connectionVars, TimeOut, Offer
  <2>. QED
    BY <2>1, <2>2, <2>3, <2>4, <2>5, <2>6, <2>7, <2>8
<1>4. WaitsOnExchange'
  BY DEF IInv, WaitsOnExchange, Bind, ReadFails, PortCollected, FhemConnects,
         ConnectionLost, FhemReads, FhemWrites, Respond, handleResponse, TimeOut,
         processVars
<1>. QED
  BY <1>2, <1>3, <1>4 DEF IInv

LEMMA StutterKeepsInv == IInv /\ UNCHANGED vars => IInv'
<1> SUFFICES ASSUME IInv, UNCHANGED vars
             PROVE  IInv'
  OBVIOUS
<1>1. TokensInv'
  BY SameTokens DEF IInv, vars, tokenVars
<1>. QED
  BY <1>1 DEF IInv, ThreadsTypeOK, WaitsOnExchange, vars, connectionVars, processVars

LEMMA InitInv == Init => IInv
<1> SUFFICES ASSUME Init
             PROVE  IInv
  OBVIOUS
<1>1. DOMAIN observeTokens = {} /\ DOMAIN exchanges = {} /\ DOMAIN relations = {}
  BY DEF Init
<1>3. TokensTypeOK
  BY <1>1, CoapBridgeAssumption DEF Init, TokensTypeOK, NoToken
<1>4. /\ TokensIssued /\ SubscriptionsKnown
      /\ HandlersAreSubscriptions /\ ResponsesMatchExchanges
  BY <1>1 DEF Init, TokensIssued, SubscriptionsKnown, HandlersAreSubscriptions,
       ResponsesMatchExchanges
<1>5. ThreadsTypeOK
  <2>1. requests \in Seq(Line) /\ replies \in Seq(Reply)
    BY DEF Init
  <2>2. port_bound \in BOOLEAN
    BY DEF Init
  <2>. QED
    BY <2>1, <2>2 DEF Init, ThreadsTypeOK
<1>6. WaitsOnExchange
  BY DEF Init, WaitsOnExchange
<1>. QED
  BY <1>3, <1>4, <1>5, <1>6 DEF IInv, TokensInv

LEMMA NextInv == IInv /\ [Next]_vars => IInv'
BY ReadRequestKeepsInv, ReceiveResponseKeepsInv, TransferTimedOutKeepsInv,
   AcceptKeepsInv, NodeAnswersKeepsInv, NodeNotifiesKeepsInv, ConnectionKeepsInv,
   StutterKeepsInv
   DEF Next, BridgeNext

LEMMA Invariance == Spec => []IInv
BY InitInv, NextInv, PTL DEF Spec

\* Every variable keeps its type.
THEOREM TypeCorrect == Spec => []TypeOK
<1>1. IInv => TypeOK
  BY DEF IInv, TokensInv, TokensTypeOK, ThreadsTypeOK, TypeOK
<1>. QED
  BY <1>1, Invariance, PTL

\* Whatever subscriptions, unsubscriptions, timeouts and new connections there
\* were, notifications are passed on for the present subscriptions only, and for
\* each through one handler.
THEOREM HandlersCorrect == Spec => []HandlersAreSubscriptions
<1>1. IInv => HandlersAreSubscriptions
  BY DEF IInv, TokensInv
<1>. QED
  BY <1>1, Invariance, PTL

\* No response, however late, is ever taken for one about another resource.
THEOREM ResponsesCorrect == Spec => []ResponsesMatchExchanges
<1>1. IInv => ResponsesMatchExchanges
  BY DEF IInv, TokensInv
<1>. QED
  BY <1>1, Invariance, PTL

-----------------------------------------------------------------------------
(***************************************************************************)
(* The wait of process() has an end.                                       *)
(***************************************************************************)

\* What is offered to the request waited for is there to be taken.
LEMMA OfferAnswers ==
  ASSUME NEW token, NEW what, what # "none", Offer(token, what), UNCHANGED waiting_for
  PROVE  /\ response # "none" => response' # "none"
         /\ waiting_for = token => response' # "none"
BY DEF Offer

\* Executing a request leaves its exchange asked.
LEMMA ExecuteAsks ==
  ASSUME NEW token, NEW line, NEW handler, Execute(token, line, handler), WaitFor(token)
  PROVE  WaitHasAnEnd'
<1>1. exchanges'[token].state = "asked" /\ waiting_for' = token
  BY DEF Execute, Put, WaitFor
<1>. QED
  BY <1>1 DEF WaitHasAnEnd

LEMMA NextWaitHasAnEnd == IInv /\ WaitHasAnEnd /\ [Next]_vars => WaitHasAnEnd'
<1> SUFFICES ASSUME IInv, WaitHasAnEnd, [Next]_vars
             PROVE  WaitHasAnEnd'
  OBVIOUS
<1>1. exchanges \in [DOMAIN exchanges -> Exchange]
  BY DEF IInv, TokensInv, TokensTypeOK
<1>2. server = "waiting" => waiting_for \in DOMAIN exchanges
  BY DEF IInv, WaitsOnExchange
<1>3. CASE ReadRequest
  <2>1. server = "reading"
    BY <1>3 DEF ReadRequest
  <2>2. PICK line : process(line)
    BY <1>3 DEF ReadRequest
  <2>3. CASE Subscribe(line, acquireToken) \/ Ask(line, acquireToken)
    BY <2>3, ExecuteAsks DEF Subscribe, Ask
  <2>4. CASE Unsubscribe(line) \/ Ignore(line)
    BY <2>1, <2>4 DEF Unsubscribe, Ignore, Proceed, WaitHasAnEnd
  <2>. QED
    BY <2>2, <2>3, <2>4 DEF process
<1>4. ASSUME NEW m \in to_bridge, ReceiveResponse(m)
      PROVE  WaitHasAnEnd'
  <2>1. UNCHANGED <<server, waiting_for>>
    BY <1>4 DEF ReceiveResponse
  <2>2. CASE m.token \in DOMAIN exchanges /\ exchanges[m.token].state # "closed"
    <3>1. PICK what \in {"observed", "plain"} : Offer(m.token, what)
      BY <1>4, <2>2 DEF ReceiveResponse
    <3>2. \A t \in DOMAIN exchanges \ {m.token} : exchanges'[t] = exchanges[t]
      BY <1>4, <2>2 DEF ReceiveResponse
    <3>. QED
      BY <1>2, <2>1, <3>1, <3>2, OfferAnswers DEF WaitHasAnEnd
  <2>3. CASE ~(m.token \in DOMAIN exchanges /\ exchanges[m.token].state # "closed")
    BY <1>4, <2>1, <2>3 DEF ReceiveResponse, WaitHasAnEnd
  <2>. QED
    BY <2>2, <2>3
<1>5. ASSUME NEW token \in DOMAIN exchanges, TransferTimedOut(token)
      PROVE  WaitHasAnEnd'
  <2>1. UNCHANGED <<server, waiting_for>> /\ Offer(token, "timeout")
    BY <1>5 DEF TransferTimedOut
  <2>2. \A t \in DOMAIN exchanges \ {token} : exchanges'[t] = exchanges[t]
    BY <1>5 DEF TransferTimedOut
  <2>. QED
    BY <1>2, <2>1, <2>2, OfferAnswers DEF WaitHasAnEnd
<1>6. CASE TimeOut
  <2>1. UNCHANGED <<server, waiting_for, exchanges>> /\ Offer(waiting_for, "timeout")
    BY <1>6 DEF TimeOut
  <2>. QED
    BY <2>1, OfferAnswers DEF WaitHasAnEnd
<1>7. CASE Accept \/ Respond
  BY <1>7 DEF Accept, Respond, WaitHasAnEnd
<1>8. CASE \/ Bind \/ ReadFails \/ PortCollected \/ FhemConnects \/ ConnectionLost
           \/ FhemReads \/ handleResponse
           \/ \E line \in Line : FhemWrites(line)
           \/ UNCHANGED vars
  BY <1>8 DEF Bind, ReadFails, PortCollected, FhemConnects, ConnectionLost, FhemReads,
       handleResponse, FhemWrites, processVars, vars, WaitHasAnEnd
<1>9. CASE \/ \E m \in to_node, ok \in BOOLEAN : NodeAnswers(m, ok)
           \/ \E u \in Uris : NodeNotifies(u) \/ NodeForgets(u)
  BY <1>9 DEF NodeAnswers, NodeNotifies, NodeForgets, processVars, WaitHasAnEnd
<1>. QED
  BY <1>3, <1>4, <1>5, <1>6, <1>7, <1>8, <1>9 DEF Next, BridgeNext

\* However the timeouts of the two layers, a late response and a new connection fall
\* together, process() waits only while something can still wake it.
THEOREM WaitCorrect == Spec => []WaitHasAnEnd
<1>1. Init => WaitHasAnEnd
  BY DEF Init, WaitHasAnEnd
<1>. QED
  BY <1>1, NextWaitHasAnEnd, Invariance, PTL DEF Spec
=============================================================================
