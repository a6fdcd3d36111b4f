--------------------------------- MODULE Bridges ---------------------------------
(***************************************************************************)
(* What connects a board to others: webhook subscriptions and their        *)
(* deliveries (routes/webhooks.ts, lib/webhook-delivery.ts), the bridge to *)
(* commons-crew (routes/crew-bridge.ts) and the links to other boards      *)
(* (routes/federation.ts).                                                 *)
(*                                                                         *)
(* A dispatch of an event reads the subscriptions and the delivery list,   *)
(* calls the subscribers one after the other and writes the list then.     *)
(* Everything else is done in one step; a handler that logs an event does  *)
(* it last, and `done` of its writes happen before the process dies.       *)
(***************************************************************************)
EXTENDS Integers, Sequences, FiniteSets, SequencesExt, FiniteSetsExt, Durable

CONSTANTS Subscriptions,   \* identifiers of subscriptions
          Dispatches,      \* dispatches that overlap
          Crews, CrewKeys, \* crew instances and the names of their keys' variables
          SetKeys,         \* the variables that are set
          Links,           \* identifiers of federation links
          KeepDeliveries,  \* 500 in the code
          MaxPings, MaxActivities, MaxBridgeEvents, MaxBridgeCrashes  \* bounds

ASSUME BridgeAssumption ==
    /\ SetKeys \subseteq CrewKeys /\ KeepDeliveries \in Nat \ {0}
    /\ {MaxPings, MaxActivities, MaxBridgeEvents, MaxBridgeCrashes} \subseteq Nat

VARIABLES subs,          \* webhook-subscriptions/<workspace>
          deliveries,    \* webhook-deliveries/<workspace>
          dispatching,   \* dispatches under way: whom to call and the list read, with the outcomes
          writes,        \* the dispatches that ended: how many had ended when each began
          connection,    \* crew-bridge-connection/<workspace>
          activities,    \* crew-bridge-activity/<workspace>
          links,         \* federation-links/<workspace>
          bridgeLog,     \* the decision log's events, in order
          bridgeCrashes

bridgeVars == <<subs, deliveries, dispatching, writes, connection, activities, links,
                bridgeLog, bridgeCrashes>>
webhookVars == <<subs, deliveries, dispatching, writes>>

EventTypes == {"webhook_ping", "federation_linked", "board_request_updated"}
Filters == {"*", "webhook_ping", "federation_linked"}
NotDispatching == [event |-> "none", todo |-> <<>>, list |-> <<>>, at |-> 0]
NotConnected == [crew |-> "none", endpoint |-> FALSE, key |-> "none"]
NoLink == [status |-> "none", pulled |-> FALSE]

BridgeInit ==
    /\ subs = [s \in Subscriptions |-> "none"]
    /\ deliveries = <<>>
    /\ dispatching = [d \in Dispatches |-> NotDispatching]
    /\ writes = <<>>
    /\ connection = NotConnected
    /\ activities = <<>>
    /\ links = [l \in Links |-> NoLink]
    /\ bridgeLog = <<>>
    /\ bridgeCrashes = 0

-----------------------------------------------------------------------------
(* Webhooks.  A subscription is the events it wants, "paused", or "none". *)

SubscribeWebhook(s, filter) ==
    /\ subs[s] = "none"
    /\ subs' = [subs EXCEPT ![s] = filter]
    /\ UNCHANGED <<deliveries, dispatching, writes, connection, activities, links, bridgeLog, bridgeCrashes>>

(* PATCH and DELETE. *)
ChangeSubscription(s, filter) ==
    /\ subs[s] # "none"
    /\ subs' = [subs EXCEPT ![s] = filter]
    /\ UNCHANGED <<deliveries, dispatching, writes, connection, activities, links, bridgeLog, bridgeCrashes>>

Matching(event) == {s \in Subscriptions : subs[s] \in {"*", event}}

(* dispatchWebhookEvent up to its first call.  Only POST /test dispatches: *)
(* pushCrewNotification, the other caller, has none of its own.            *)
Dispatch(d, event) ==
    /\ dispatching[d] = NotDispatching
    /\ Len(writes) + Cardinality({x \in Dispatches : dispatching[x] # NotDispatching}) < MaxPings
    /\ Matching(event) # {}
    /\ dispatching' = [dispatching EXCEPT ![d] =
          [event |-> event, todo |-> SetToSeq(Matching(event)), list |-> deliveries, at |-> Len(writes)]]
    /\ UNCHANGED <<subs, deliveries, writes, connection, activities, links, bridgeLog, bridgeCrashes>>

(* Mutant: the list is never cut. *)
KeepAll(list) == list

(* slice(-500) *)
KeepLast(list) == SubSeq(list, IF Len(list) < KeepDeliveries THEN 1 ELSE Len(list) - KeepDeliveries + 1, Len(list))

(* One subscriber was called; after the last one the list is written.  A   *)
(* delivery is known by its subscription and the dispatch that wrote it.   *)
Deliver(d, outcome) ==
    LET flight == dispatching[d]
        list == Append(flight.list, [sub |-> Head(flight.todo), outcome |-> outcome, write |-> 0])
        number(e) == IF e.write = 0 THEN [e EXCEPT !.write = Len(writes) + 1] ELSE e
    IN  /\ flight # NotDispatching
        /\ IF Len(flight.todo) > 1
           THEN /\ dispatching' = [dispatching EXCEPT ![d].todo = Tail(@), ![d].list = list]
                /\ UNCHANGED <<deliveries, writes>>
           ELSE /\ deliveries' = KeepLast([i \in DOMAIN list |-> number(list[i])])
                /\ writes' = Append(writes, flight.at)
                /\ dispatching' = [dispatching EXCEPT ![d] = NotDispatching]
        /\ UNCHANGED <<subs, connection, activities, links, bridgeLog, bridgeCrashes>>

-----------------------------------------------------------------------------
(* What a handler that logs an event does: it changes its file, then logs. *)
LoggedChange(done, event) ==
    /\ Len(bridgeLog) < MaxBridgeEvents
    /\ bridgeLog' = writeJsonAtomic(done, 2, Append(bridgeLog, event), bridgeLog)
    /\ done < 2 => bridgeCrashes < MaxBridgeCrashes
    /\ bridgeCrashes' = IF done < 2 THEN bridgeCrashes + 1 ELSE bridgeCrashes
    /\ dispatching' = IF done < 2 THEN [d \in Dispatches |-> NotDispatching] ELSE dispatching
    /\ UNCHANGED <<subs, deliveries, writes>>

(* The crew bridge. *)

ConnectCrew(crew, endpoint, key, done) ==
    /\ connection' = [crew |-> crew, endpoint |-> endpoint, key |-> key]
    /\ LoggedChange(done, "federation_linked")
    /\ UNCHANGED <<activities, links>>

DisconnectCrew(done) ==
    /\ connection # NotConnected
    /\ connection' = NotConnected
    /\ LoggedChange(done, "board_request_updated")
    /\ UNCHANGED <<activities, links>>

(* requireCrewAuth: the key presented is the one the connection names. *)
CrewAuthorised(key) == connection # NotConnected /\ connection.key \in SetKeys /\ key = connection.key

PushActivity(key) ==
    /\ Len(activities) < MaxActivities
    /\ CrewAuthorised(key)
    /\ activities' = Append(activities, connection.crew)
    /\ UNCHANGED <<webhookVars, connection, links, bridgeLog, bridgeCrashes>>

(* Federation.  A link's status is what its client sends, whatever it is. *)

LinkStatuses == {"active", "paused", "pending", "other"}

CreateLink(l, status, done) ==
    /\ links[l] = NoLink
    /\ links' = [links EXCEPT ![l] = [status |-> status, pulled |-> FALSE]]
    /\ LoggedChange(done, "federation_linked")
    /\ UNCHANGED <<connection, activities>>

DeleteLink(l, done) ==
    /\ links[l] # NoLink
    /\ links' = [links EXCEPT ![l] = NoLink]
    /\ LoggedChange(done, "board_request_updated")
    /\ UNCHANGED <<connection, activities>>

(* The remote board is a stub that answers within the same turn: the list  *)
(* written is the list read.                                               *)
PullLink(l) ==
    /\ links[l].status = "active"
    /\ links' = [links EXCEPT ![l].pulled = TRUE]
    /\ UNCHANGED <<webhookVars, connection, activities, bridgeLog, bridgeCrashes>>

(* GET /portfolio *)
PortfolioLinks == {l \in Links : links[l].status = "active"}

BridgeNext ==
    \/ \E s \in Subscriptions, filter \in Filters : SubscribeWebhook(s, filter)
    \/ \E s \in Subscriptions, filter \in Filters \cup {"paused", "none"} : ChangeSubscription(s, filter)
    \/ \E d \in Dispatches : Dispatch(d, "webhook_ping")
    \/ \E d \in Dispatches, outcome \in {"delivered", "failed"} : Deliver(d, outcome)
    \/ \E done \in 1..2 :
         \/ \E crew \in Crews, endpoint \in BOOLEAN, key \in CrewKeys : ConnectCrew(crew, endpoint, key, done)
         \/ DisconnectCrew(done)
         \/ \E l \in Links, status \in LinkStatuses : CreateLink(l, status, done)
         \/ \E l \in Links : DeleteLink(l, done)
    \/ \E key \in CrewKeys : PushActivity(key)
    \/ \E l \in Links : PullLink(l)

BridgeSpec == BridgeInit /\ [][BridgeNext]_bridgeVars

-----------------------------------------------------------------------------
BridgeTypeOK ==
    /\ subs \in [Subscriptions -> Filters \cup {"paused", "none"}]
    /\ Len(deliveries) <= KeepDeliveries
    /\ \A d \in Dispatches : dispatching[d].at \in 0..Len(writes)
    /\ connection \in [crew : Crews \cup {"none"}, endpoint : BOOLEAN, key : CrewKeys \cup {"none"}]
    /\ activities \in Seq(Crews)
    /\ links \in [Links -> [status : LinkStatuses \cup {"none"}, pulled : BOOLEAN]]
    /\ bridgeLog \in Seq(EventTypes) /\ bridgeCrashes \in 0..MaxBridgeCrashes

(* The outcome of a delivery is on record unless a later dispatch that had *)
(* begun before that delivery's dispatch ended wrote its own list over it, *)
(* or newer records took all the room.                                     *)
DeliveryLostOnlyToOverlap ==
    \A w \in DOMAIN writes :
        \/ \E i \in DOMAIN deliveries : deliveries[i].write = w
        \/ \E later \in w + 1..Len(writes) : writes[later] < w
        \/ Len(deliveries) = KeepDeliveries /\ \A i \in DOMAIN deliveries : deliveries[i].write > w
=============================================================================
