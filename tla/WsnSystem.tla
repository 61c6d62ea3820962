------------------------------ MODULE WsnSystem ------------------------------
(***************************************************************************)
(* FHEM's logical devices (10_WSN.pm) and the bridge together.  A device   *)
(* is a resource of a node.  What FHEM's user last wanted and what the     *)
(* node last sent meet in one attribute, optionObserve: the commands       *)
(* observe=1 and observe=0 set it, the observe counter of every answer     *)
(* overwrites it, and every get is sent with it as its observe option.     *)
(*                                                                         *)
(* The other attributes and the readings decide nothing and are left out.  *)
(***************************************************************************)
EXTENDS CoapBridge

CONSTANT EventUris   \* resources whose node counts its notifications

ASSUME WsnSystemAssumption == EventUris \subseteq Uris

VARIABLES
  optionObserve,     \* the attribute of each device, "none" when it has none
  wish               \* history: the last observe command of each device

deviceVars == <<optionObserve, wish>>
systemVars == <<vars, deviceVars>>

Options == {"none", "0", "1", "n"}

SystemInit ==
  /\ Init
  /\ optionObserve = [u \in Uris |-> "none"]
  /\ wish = [u \in Uris |-> "none"]

-----------------------------------------------------------------------------

\* IOWrite().  FHEM does not notice that a line is not sent, or sent on a
\* connection that will not be accepted.
IOWrite(line) ==
  IF link = "up" /\ (socket = "open" \/ server = "accepting")
  THEN FhemWrites(line)
  ELSE UNCHANGED vars

\* BuildCoAPClientGetCommand() with GetCoAPOptions(), of the attributes as they
\* are then.
GetCommand(u, option) == [uri |-> u, method |-> "get", observe |-> option]

\* Mutant: a get without options.
GetWithoutOptions(u) ==
  /\ IOWrite(GetCommand(u, "none"))
  /\ UNCHANGED deviceVars

\* get <device>
WSN_Get(u) ==
  /\ IOWrite(GetCommand(u, optionObserve[u]))
  /\ UNCHANGED deviceVars

\* get <device> observe=1, and observe=0: as an option of CoAP 0 subscribes.
WSN_Observe(u) ==
  /\ optionObserve' = [optionObserve EXCEPT ![u] = "0"]
  /\ wish' = [wish EXCEPT ![u] = "subscribe"]
  /\ IOWrite(GetCommand(u, optionObserve'[u]))

WSN_Unobserve(u) ==
  /\ optionObserve' = [optionObserve EXCEPT ![u] = "1"]
  /\ wish' = [wish EXCEPT ![u] = "unsubscribe"]
  /\ IOWrite(GetCommand(u, optionObserve'[u]))

\* set <device> ..., and get discover <uri> of the physical device, which sends
\* what the user wrote: no options.
WSN_Set(u) ==
  /\ IOWrite([uri |-> u, method |-> "set", observe |-> "none"])
  /\ UNCHANGED deviceVars

WSNPHD_Get(u) ==
  /\ IOWrite([uri |-> u, method |-> "discover", observe |-> "none"])
  /\ UNCHANGED deviceVars

\* The observe counter of an answer or a notification: the registration is
\* answered with 0, and the periodic handlers of coap-sensornode.c never count.
ObserveCounter(u) == IF u \in EventUris THEN {"0", "1", "n"} ELSE {"0"}

\* Mutant: max-age is filed as the observe counter.
ParseMaxAge(reply) ==
  IF reply.code = "get" /\ reply.observe
  THEN optionObserve' = [optionObserve EXCEPT ![reply.uri] = "60"]
  ELSE UNCHANGED optionObserve

\* Mutant: a notification is filed with every device.
ParseForAll(reply) ==
  IF reply.code = "get" /\ reply.observe
  THEN \E counter \in ObserveCounter(reply.uri) :
         optionObserve' = [u \in Uris |-> counter]
  ELSE UNCHANGED optionObserve

\* Mutant: the attribute follows answers without an observe option as well.
ParseClears(reply) ==
  IF reply.code = "get"
  THEN \E counter \in ObserveCounter(reply.uri) :
         optionObserve' = [optionObserve EXCEPT ![reply.uri] =
                             IF reply.observe THEN counter ELSE "none"]
  ELSE UNCHANGED optionObserve

WSN_Parse(reply) ==
  IF reply.code = "get" /\ reply.observe
  THEN \E counter \in ObserveCounter(reply.uri) :
         optionObserve' = [optionObserve EXCEPT ![reply.uri] = counter]
  ELSE UNCHANGED optionObserve

\* WSNPHD_Read() takes a line and dispatches it to WSN_Parse().
WSNPHD_Read ==
  /\ FhemReads
  /\ WSN_Parse(Head(replies))
  /\ UNCHANGED wish

\* FHEM's user commands the device u.
Command(u) ==
  WSN_Get(u) \/ WSN_Observe(u) \/ WSN_Unobserve(u) \/ WSN_Set(u) \/ WSNPHD_Get(u)

DeviceNext == WSNPHD_Read \/ \E u \in Uris : Command(u)

SystemNext ==
  \/ DeviceNext
  \/ BridgeNext /\ UNCHANGED deviceVars

SystemSpec == SystemInit /\ [][SystemNext]_systemVars

-----------------------------------------------------------------------------
(***************************************************************************)
(* Properties.                                                             *)
(***************************************************************************)

SystemTypeOK ==
  /\ TypeOK
  /\ optionObserve \in [Uris -> Options]
  /\ wish \in [Uris -> {"none", "subscribe", "unsubscribe"}]

\* A device nobody gave an observe command is observed nowhere: not by FHEM's
\* attribute, the bridge, the node or a message under way between them.
OnlyCommandedSubscriptions ==
  \A u \in Uris : wish[u] = "none" =>
    /\ optionObserve[u] = "none"
    /\ u \notin DOMAIN observeTokens
    /\ u \notin DOMAIN relations
    /\ \A m \in to_bridge : m.uri = u => ~m.observe

\* While the connection lasts and no command is lost or on its way, FHEM knows what
\* the bridge has subscribed to.
SubscriptionIsKnown ==
  requests = << >> =>
    \A u \in DOMAIN observeTokens \ EventUris : optionObserve[u] = "0"

\* A get without the option would end the relation at the node, and one with
\* another number would renew it under a token that has no response handler
\* (CoapBridge!NodeAnswers, Ask).  Neither is sent for a resource the bridge has
\* subscribed to.  A discovery that names the resource itself does end it.
GetsSpareRelations ==
  [][\A u \in Uris \ EventUris :
       /\ ReadRequest
       /\ Head(requests) \in {GetCommand(u, "none"), GetCommand(u, "n")}
       => u \notin DOMAIN observeTokens]_systemVars

\* Nothing that concerns u is on its way to FHEM, or to the bridge.
Silent(u) ==
  /\ u \notin DOMAIN observeTokens
  /\ server = "waiting" => exchanges[waiting_for].uri # u
  /\ \A i \in DOMAIN requests : requests[i].uri # u
  /\ \A i \in DOMAIN replies : replies[i].uri # u
  /\ \A r \in passing_on : r.uri = u => r.handler = "stale"

\* Once an unsubscription has been executed and what was on its way has arrived,
\* the device is left in peace until FHEM commands otherwise, whatever the node,
\* whose relation may have outlived the subscription, still sends.
SilenceHolds ==
  [][\A u \in Uris : Silent(u) =>
       \/ Silent(u)' /\ optionObserve'[u] = optionObserve[u]
       \/ Command(u)]_systemVars

\* The bridge subscribes to what the last observe command of FHEM's user says.
SubscribedAsCommanded ==
  requests = << >> =>
    \A u \in DOMAIN observeTokens : wish[u] = "subscribe"
=============================================================================
