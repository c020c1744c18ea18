------------------------------ MODULE MqttClient ------------------------------
(***************************************************************************)
(* The Unify MQTT client: components/uic_mqtt.                             *)
(*                                                                         *)
(* Publications, subscriptions and unsubscriptions are queued by the       *)
(* application at any time and handed to the MQTT library one at a time,   *)
(* each by an event of the MQTT process.  A state machine with the states  *)
(* Disconnected, Connecting and Connected keeps the connection: it is      *)
(* driven by the same event queue, by callbacks of the library, and by one *)
(* delayed event that starts the next attempt.                             *)
(*                                                                         *)
(* The MQTT library and the broker are external: they are modelled as far  *)
(* as the client observes them.  How long the client backs off is left     *)
(* out: a delay takes some time, and nothing else depends on its length.   *)
(***************************************************************************)
EXTENDS Integers, Sequences, FiniteSets

CONSTANTS
  Topics,           \* topics, for publications and as subscription patterns
  Values,           \* payloads that are not empty
  Empty,            \* the payload of length 0: as a retained message, a deletion
  Callbacks,        \* subscription callbacks with their user data
  Covers,           \* pairs <<p, t>>: the pattern p also matches the pattern t
  Prefixes,         \* arguments of unretain: some of Topics, and other strings
  StartingWith,     \* the topics that start with a prefix
  Patterns,         \* the topics that match each argument of unretain_by_regex
  Unsubscribers,    \* the callbacks that are ever unsubscribed
  Rejected,         \* payloads that the library refuses to publish
  MaxCalls,         \* bound: calls of the application in a behaviour
  MaxFailures       \* bound: failures of the broker or the network

ASSUME TopicAssumption ==
  /\ IsFiniteSet(Topics)
  /\ Covers \subseteq Topics \X Topics
  /\ StartingWith \in [Prefixes -> SUBSET Topics]
  /\ \A p \in Prefixes \cap Topics : p \in StartingWith[p]
  /\ Patterns \subseteq SUBSET Topics
ASSUME ValueAssumption == Empty \notin Values /\ Rejected \subseteq Values
ASSUME CallbackAssumption == Unsubscribers \subseteq Callbacks
ASSUME BoundAssumption == MaxCalls \in Nat /\ MaxFailures \in Nat

VARIABLES
  running,              \* the MQTT process exists
  current_state,        \* of the state machine
  events,               \* Contiki events posted to the MQTT process
  delay,                \* uic_mqtt_post_delay_timer: "off", "running" or
                        \* "posted" (its timer event is queued); the flag
                        \* uic_mqtt_post_delay_timer_flag is delay # "off"
  connected_to_broker,
  publishing_queue,     \* Seq of [topic, value, retain]
  subscription_queue, unsubscription_queue,
  subscription_callbacks,   \* the callbacks of each topic; {}: no entry
  retained_topics,
  link,                 \* library: "closed", "opening", "open" or "lost"
  broker_subscriptions, \* broker: subscriptions of this session
  broker_retained,      \* broker: the retained message of each topic
  asked,                \* history: what the application asked to retain
  dropped,              \* history: topics whose last retained message was
                        \* handed to the library after the network failed
  calls, failures       \* bounded counters of the environment

fsmVars == <<current_state, events, delay, connected_to_broker, link, failures>>
pubVars == <<publishing_queue, retained_topics, asked>>
subVars == <<subscription_queue, unsubscription_queue, subscription_callbacks>>
brokerVars == <<broker_subscriptions, broker_retained, dropped>>
vars == <<running, fsmVars, pubVars, subVars, brokerVars, calls>>

FsmStates == {"Disconnected", "Connecting", "Connected"}
Events == {"CONNECT", "PUBLISH", "SUBSCRIBE", "UNSUBSCRIBE", "DISCONNECTED",
           "CONNECTING", "CONNECTED", "TIMER"}
Messages == [topic : Topics, value : Values \cup {Empty}, retain : BOOLEAN]

-----------------------------------------------------------------------------
(* Events and the connection, as one record that the handlers update.      *)

Client == [events : Seq(Events), delay : {"off", "running", "posted"},
           connected : BOOLEAN,
           link : {"closed", "opening", "open", "lost"},
           failures : 0..MaxFailures]

CurrentClient ==
  [events |-> events, delay |-> delay, connected |-> connected_to_broker,
   link |-> link, failures |-> failures]

StoreClient(c) ==
  /\ events' = c.events
  /\ delay' = c.delay
  /\ connected_to_broker' = c.connected
  /\ link' = c.link
  /\ failures' = c.failures

Queued(es, e) == \E i \in DOMAIN es : es[i] = e

send_event(c, e) == [c EXCEPT !.events = Append(@, e)]

\* An event that is posted unless one is queued already.
send_once(c, e) == IF Queued(c.events, e) THEN c ELSE send_event(c, e)

\* uic_mqtt_process_post_delayed, which drops the event while one is delayed.
\* Only CONNECT events are delayed.
send_delayed_event(c) ==
  [c EXCEPT !.delay = IF @ = "off" THEN "running" ELSE @]

\* Mutations of on_disconnect: no attempt to reconnect is scheduled; the state
\* machine is not told; the client still says that it is connected.
on_disconnect_NoRetry(c) ==
  [send_event(c, "DISCONNECTED") EXCEPT !.connected = FALSE]
on_disconnect_Silent(c) ==
  [send_delayed_event(c) EXCEPT !.connected = FALSE]
on_disconnect_KeepsFlag(c) == send_delayed_event(send_event(c, "DISCONNECTED"))

\* on_disconnect with a result code other than 0.
on_disconnect(c) ==
  [send_delayed_event(send_event(c, "DISCONNECTED")) EXCEPT !.connected = FALSE]

\* poll, when the broker accepts the connection, when it refuses it, and when
\* the library finds that the connection is lost.
Accepted(c) ==
  [send_event(c, "CONNECTED") EXCEPT !.connected = TRUE, !.link = "open"]
Refused(c) ==
  on_disconnect([c EXCEPT !.connected = FALSE, !.link = "closed",
                          !.failures = @ + 1])
LossFound(c) == on_disconnect([c EXCEPT !.link = "closed"])

\* What poll may find, in any state but Disconnected.
PollOutcomes(c) ==
  IF c.link = "opening"
  THEN {Accepted(c)} \cup (IF c.failures < MaxFailures THEN {Refused(c)} ELSE {})
  ELSE IF c.link = "lost" THEN {LossFound(c)} ELSE {}

Dequeue(e) ==
  /\ running
  /\ events # <<>> /\ Head(events) = e

Handled == [CurrentClient EXCEPT !.events = Tail(@)]

-----------------------------------------------------------------------------
(* The state machine.                                                      *)

\* MQTT_EVENT_CONNECT: a request that only the state Disconnected serves.
EventConnect ==
  /\ Dequeue("CONNECT")
  /\ StoreClient(IF current_state = "Disconnected"
                 THEN send_event(Handled, "CONNECTING") ELSE Handled)
  /\ UNCHANGED <<running, current_state, pubVars, subVars, brokerVars, calls>>

\* MQTT_TRANSITION_CONNECTING: entering the state connects and polls.  The
\* broker starts a clean session.
EventConnecting ==
  /\ Dequeue("CONNECTING")
  /\ IF current_state = "Disconnected"
     THEN /\ current_state' = "Connecting"
          /\ LET opened == [Handled EXCEPT !.connected = TRUE, !.link = "opening"]
                 failed == [Handled EXCEPT !.link = "closed", !.failures = @ + 1]
             IN  \/ \E c \in PollOutcomes(opened) \cup {opened} : StoreClient(c)
                 \/ /\ failures < MaxFailures
                    /\ StoreClient(send_delayed_event(
                                     send_event(failed, "DISCONNECTED")))
          /\ broker_subscriptions' = {}
     ELSE /\ StoreClient(Handled)
          /\ UNCHANGED <<current_state, broker_subscriptions>>
  /\ UNCHANGED <<running, pubVars, subVars, broker_retained, dropped, calls>>

\* The sequences that hold each topic of S once.
Orders(S) ==
  {q \in [1..Cardinality(S) -> S] : \A t \in S : \E i \in DOMAIN q : q[i] = t}

Subscribed == {t \in Topics : subscription_callbacks[t] # {}}

WakeUpFor(c, queue, e) == IF queue = <<>> THEN c ELSE send_once(c, e)

\* Mutation of EventConnected: topics are not subscribed to again.
EventConnected_Forgetful ==
  /\ Dequeue("CONNECTED")
  /\ IF current_state = "Connecting"
     THEN /\ current_state' = "Connected"
          /\ StoreClient(
               WakeUpFor(WakeUpFor(WakeUpFor(Handled,
                  subscription_queue, "SUBSCRIBE"),
                  publishing_queue, "PUBLISH"),
                  unsubscription_queue, "UNSUBSCRIBE"))
          /\ UNCHANGED subscription_queue
     ELSE /\ StoreClient(Handled)
          /\ UNCHANGED <<current_state, subscription_queue>>
  /\ UNCHANGED <<running, pubVars, unsubscription_queue, subscription_callbacks,
                 brokerVars, calls>>

\* Mutation of EventConnected: queued publications wait for the next one.
EventConnected_NoPublish ==
  /\ Dequeue("CONNECTED")
  /\ IF current_state = "Connecting"
     THEN /\ current_state' = "Connected"
          /\ \E q \in Orders(Subscribed) :
               /\ subscription_queue' = subscription_queue \o q
               /\ StoreClient(
                    WakeUpFor(WakeUpFor(Handled,
                       subscription_queue', "SUBSCRIBE"),
                       unsubscription_queue, "UNSUBSCRIBE"))
     ELSE /\ StoreClient(Handled)
          /\ UNCHANGED <<current_state, subscription_queue>>
  /\ UNCHANGED <<running, pubVars, unsubscription_queue, subscription_callbacks,
                 brokerVars, calls>>

\* MQTT_TRANSITION_CONNECTED: entering the state subscribes to all topics again
\* and wakes up for whatever was queued meanwhile.
EventConnected ==
  /\ Dequeue("CONNECTED")
  /\ IF current_state = "Connecting"
     THEN /\ current_state' = "Connected"
          /\ \E q \in Orders(Subscribed) :
               /\ subscription_queue' = subscription_queue \o q
               /\ StoreClient(
                    WakeUpFor(WakeUpFor(WakeUpFor(Handled,
                       subscription_queue', "SUBSCRIBE"),
                       publishing_queue, "PUBLISH"),
                       unsubscription_queue, "UNSUBSCRIBE"))
     ELSE /\ StoreClient(Handled)
          /\ UNCHANGED <<current_state, subscription_queue>>
  /\ UNCHANGED <<running, pubVars, unsubscription_queue, subscription_callbacks,
                 brokerVars, calls>>

\* MQTT_TRANSITION_DISCONNECTED
EventDisconnected ==
  /\ Dequeue("DISCONNECTED")
  /\ current_state' = "Disconnected"
  /\ StoreClient(Handled)
  /\ UNCHANGED <<running, pubVars, subVars, brokerVars, calls>>

\* The etimer of the delayed event expires: the timer event is posted ...
DelayExpires ==
  /\ running /\ delay = "running"
  /\ delay' = "posted"
  /\ events' = Append(events, "TIMER")
  /\ UNCHANGED <<running, current_state, connected_to_broker, link, failures,
                 pubVars, subVars, brokerVars, calls>>

\* Mutation of EventTimer: the flag is not reset, so that every later delayed
\* event is dropped.
EventTimer_KeepsFlag ==
  /\ Dequeue("TIMER")
  /\ StoreClient(send_event(Handled, "CONNECT"))
  /\ UNCHANGED <<running, current_state, pubVars, subVars, brokerVars, calls>>

\* ... and when it is handled, the delayed event itself.
EventTimer ==
  /\ Dequeue("TIMER")
  /\ StoreClient(send_event([Handled EXCEPT !.delay = "off"], "CONNECT"))
  /\ UNCHANGED <<running, current_state, pubVars, subVars, brokerVars, calls>>

\* poll, by the loop timer or because the socket is readable.
Poll ==
  /\ running
  /\ current_state # "Disconnected"
  /\ \E c \in PollOutcomes(CurrentClient) : StoreClient(c)
  /\ UNCHANGED <<running, current_state, pubVars, subVars, brokerVars, calls>>

\* The network or the broker fails; the client does not notice yet.
ConnectionLost ==
  /\ running
  /\ link \in {"opening", "open"}
  /\ failures < MaxFailures
  /\ link' = "lost" /\ failures' = failures + 1
  /\ UNCHANGED <<running, current_state, events, delay, connected_to_broker,
                 pubVars, subVars, brokerVars, calls>>

-----------------------------------------------------------------------------
(* Sending what is queued: publish_to_broker, subscribe_to_topic and       *)
(* unsubscribe_from_topic, in the state Connected only.                    *)

\* The library takes a message, or it does not: then the client considers
\* itself disconnected and keeps the message for the next connection.
MayAccept(m) == link \in {"open", "lost"} /\ m.value \notin Rejected
MayRefuse(m) == link # "open" \/ m.value \in Rejected

\* The retained messages of the broker after it received ms.
Retain(retained, ms) ==
  [t \in Topics |->
     LET I == {i \in DOMAIN ms : ms[i].topic = t /\ ms[i].retain}
     IN  IF I = {} THEN retained[t]
         ELSE ms[CHOOSE i \in I : \A j \in I : j <= i].value]

RetainedOf(ms) == {t \in Topics : \E i \in DOMAIN ms :
                                    ms[i].topic = t /\ ms[i].retain}

\* The library takes the messages ms; on a dead link they are gone.
Deliver(ms) ==
  IF link = "open"
  THEN /\ broker_retained' = Retain(broker_retained, ms)
       /\ dropped' = dropped \ RetainedOf(ms)
  ELSE /\ dropped' = dropped \cup RetainedOf(ms)
       /\ UNCHANGED broker_retained

EventPublish ==
  /\ Dequeue("PUBLISH")
  /\ IF current_state # "Connected" \/ publishing_queue = <<>>
     THEN /\ StoreClient(Handled)
          /\ UNCHANGED <<publishing_queue, broker_retained, dropped>>
     ELSE LET m == Head(publishing_queue)
              rest == Tail(publishing_queue)
          IN  \/ /\ MayAccept(m)
                 /\ publishing_queue' = rest
                 /\ Deliver(<<m>>)
                 /\ StoreClient(WakeUpFor(Handled, rest, "PUBLISH"))
              \/ /\ MayRefuse(m)
                 /\ StoreClient(on_disconnect(Handled))
                 /\ UNCHANGED <<publishing_queue, broker_retained, dropped>>
  /\ UNCHANGED <<running, current_state, retained_topics, asked, subVars,
                 broker_subscriptions, calls>>

EventSubscribe ==
  /\ Dequeue("SUBSCRIBE")
  /\ IF current_state # "Connected" \/ subscription_queue = <<>>
     THEN /\ StoreClient(Handled)
          /\ UNCHANGED <<subscription_queue, broker_subscriptions>>
     ELSE LET t == Head(subscription_queue)
              rest == Tail(subscription_queue)
          IN  \/ /\ link \in {"open", "lost"}
                 /\ subscription_queue' = rest
                 /\ broker_subscriptions' =
                      IF link = "open" THEN broker_subscriptions \cup {t}
                      ELSE broker_subscriptions
                 /\ StoreClient(WakeUpFor(Handled, rest, "SUBSCRIBE"))
              \/ /\ link # "open"
                 /\ StoreClient(on_disconnect(Handled))
                 /\ UNCHANGED <<subscription_queue, broker_subscriptions>>
  /\ UNCHANGED <<running, current_state, pubVars, unsubscription_queue,
                 subscription_callbacks, broker_retained, dropped, calls>>

EventUnsubscribe ==
  /\ Dequeue("UNSUBSCRIBE")
  /\ IF current_state # "Connected" \/ unsubscription_queue = <<>>
     THEN /\ StoreClient(Handled)
          /\ UNCHANGED <<unsubscription_queue, broker_subscriptions>>
     ELSE LET t == Head(unsubscription_queue)
              rest == Tail(unsubscription_queue)
          IN  \/ /\ link \in {"open", "lost"}
                 /\ unsubscription_queue' = rest
                 /\ broker_subscriptions' =
                      IF link = "open" THEN broker_subscriptions \ {t}
                      ELSE broker_subscriptions
                 /\ StoreClient(WakeUpFor(Handled, rest, "UNSUBSCRIBE"))
              \/ /\ link # "open"
                 /\ StoreClient(on_disconnect(Handled))
                 /\ UNCHANGED <<unsubscription_queue, broker_subscriptions>>
  /\ UNCHANGED <<running, current_state, pubVars, subscription_queue,
                 subscription_callbacks, broker_retained, dropped, calls>>

-----------------------------------------------------------------------------
(* The public API, called by other components between two events.          *)

Call ==
  /\ running
  /\ calls < MaxCalls
  /\ calls' = calls + 1
  /\ UNCHANGED <<running, current_state, brokerVars>>

\* The first queued message that a retained message for t replaces.
Replaces(t) ==
  {i \in DOMAIN publishing_queue :
     /\ publishing_queue[i].retain /\ publishing_queue[i].topic = t
     /\ \A j \in 1..(i - 1) : ~(publishing_queue[j].retain
                                /\ publishing_queue[j].topic = t)}

\* Mutation of Publish: a retained message that is queued already is kept as
\* it is.
Publish_KeepsFirst(t, v, retain) ==
  /\ Call
  /\ retained_topics' = IF retain /\ v # Empty THEN retained_topics \cup {t}
                        ELSE retained_topics \ {t}
  /\ publishing_queue' =
       IF retain /\ Replaces(t) # {} THEN publishing_queue
       ELSE Append(publishing_queue, [topic |-> t, value |-> v, retain |-> retain])
  /\ asked' = IF retain THEN [asked EXCEPT ![t] = v] ELSE asked
  /\ StoreClient(send_once(CurrentClient, "PUBLISH"))
  /\ UNCHANGED subVars

Publish(t, v, retain) ==
  /\ Call
  /\ retained_topics' = IF retain /\ v # Empty THEN retained_topics \cup {t}
                        ELSE retained_topics \ {t}
  /\ publishing_queue' =
       IF retain /\ Replaces(t) # {}
       THEN [i \in DOMAIN publishing_queue |->
               IF i \in Replaces(t) THEN [publishing_queue[i] EXCEPT !.value = v]
               ELSE publishing_queue[i]]
       ELSE Append(publishing_queue, [topic |-> t, value |-> v, retain |-> retain])
  /\ asked' = IF retain THEN [asked EXCEPT ![t] = v] ELSE asked
  /\ StoreClient(send_once(CurrentClient, "PUBLISH"))
  /\ UNCHANGED subVars

Deletions(q) ==
  [i \in DOMAIN q |-> [topic |-> q[i], value |-> Empty, retain |-> TRUE]]

Unasked(S) == [t \in Topics |-> IF t \in S THEN Empty ELSE asked[t]]

\* Mutation of Unretain: the probe is not skipped.
Unretain_Probe(p) ==
  /\ Call
  /\ LET S == StartingWith[p] \cap retained_topics
     IN  /\ \E q \in Orders(S) :
              publishing_queue' = publishing_queue \o Deletions(<<p>> \o q)
         /\ retained_topics' = retained_topics \ S
  /\ asked' = Unasked(StartingWith[p])
  /\ StoreClient(send_once(CurrentClient, "PUBLISH"))
  /\ UNCHANGED subVars

\* A prefix that is a retained topic itself is the only topic deleted, and it
\* remains in retained_topics.
Unretain(p) ==
  /\ Call
  /\ IF p \in retained_topics
     THEN /\ publishing_queue' = publishing_queue \o Deletions(<<p>>)
          /\ UNCHANGED retained_topics
     ELSE LET S == StartingWith[p] \cap retained_topics
          IN  /\ \E q \in Orders(S) :
                   publishing_queue' = publishing_queue \o Deletions(q)
              /\ retained_topics' = retained_topics \ S
  /\ asked' = Unasked(StartingWith[p])
  /\ StoreClient(send_once(CurrentClient, "PUBLISH"))
  /\ UNCHANGED subVars

\* S: the topics that match the regular expression.
UnretainByRegex(S) ==
  /\ Call
  /\ \E q \in Orders(S \cap retained_topics) :
       publishing_queue' = publishing_queue \o Deletions(q)
  /\ retained_topics' = retained_topics \ S
  /\ asked' = Unasked(S)
  /\ StoreClient(send_once(CurrentClient, "PUBLISH"))
  /\ UNCHANGED subVars

\* A callback that one of the matching patterns calls already is dropped.
Duplicate(t, cb) ==
  \E p \in Topics : (p = t \/ <<p, t>> \in Covers)
                    /\ cb \in subscription_callbacks[p]

Subscribe(t, cb) ==
  /\ Call
  /\ ~Duplicate(t, cb)
  /\ subscription_callbacks' = [subscription_callbacks EXCEPT ![t] = @ \cup {cb}]
  /\ IF t \in Subscribed
     THEN UNCHANGED <<fsmVars, subscription_queue>>
     ELSE /\ subscription_queue' = Append(subscription_queue, t)
          /\ StoreClient(send_once(CurrentClient, "SUBSCRIBE"))
  /\ UNCHANGED <<pubVars, unsubscription_queue>>

\* The broker is told when the last callback is gone, or when there was none.
Unsubscribe(t, cb) ==
  /\ Call
  /\ subscription_callbacks' = [subscription_callbacks EXCEPT ![t] = @ \ {cb}]
  /\ IF subscription_callbacks'[t] = {}
     THEN /\ unsubscription_queue' = Append(unsubscription_queue, t)
          /\ StoreClient(send_once(CurrentClient, "UNSUBSCRIBE"))
     ELSE UNCHANGED <<fsmVars, unsubscription_queue>>
  /\ UNCHANGED <<pubVars, subscription_queue>>

\* PROCESS_EVENT_EXIT: the publishing queue is flushed up to the first message
\* that the library refuses, and the connection is closed.
Teardown ==
  /\ running
  /\ running' = FALSE
  /\ \E k \in 0..Len(publishing_queue) :
       /\ \A i \in 1..k : MayAccept(publishing_queue[i])
       /\ k < Len(publishing_queue) => MayRefuse(publishing_queue[k + 1])
       /\ publishing_queue' =
            SubSeq(publishing_queue, k + 1, Len(publishing_queue))
       /\ Deliver(SubSeq(publishing_queue, 1, k))
       /\ LET c == IF k < Len(publishing_queue)
                   THEN on_disconnect(CurrentClient) ELSE CurrentClient
          IN  StoreClient([c EXCEPT !.connected = FALSE, !.link = "closed"])
  /\ UNCHANGED <<current_state, retained_topics, asked, subVars,
                 broker_subscriptions, calls>>

-----------------------------------------------------------------------------
\* After uic_mqtt_setup and the INIT event of the process.
Init ==
  /\ running = TRUE
  /\ current_state = "Disconnected"
  /\ events = <<"CONNECT">>
  /\ delay = "off"
  /\ connected_to_broker = FALSE
  /\ publishing_queue = <<>>
  /\ subscription_queue = <<>> /\ unsubscription_queue = <<>>
  /\ subscription_callbacks = [t \in Topics |-> {}]
  /\ retained_topics = {}
  /\ link = "closed"
  /\ broker_subscriptions = {}
  /\ broker_retained = [t \in Topics |-> Empty]
  /\ asked = [t \in Topics |-> Empty]
  /\ dropped = {}
  /\ calls = 0 /\ failures = 0

ProcessEvent ==
  \/ EventConnect \/ EventConnecting \/ EventConnected \/ EventDisconnected
  \/ EventTimer
  \/ EventPublish \/ EventSubscribe \/ EventUnsubscribe

Application ==
  \/ \E t \in Topics, v \in Values \cup {Empty}, retain \in BOOLEAN :
        Publish(t, v, retain)
  \/ \E p \in Prefixes : Unretain(p)
  \/ \E S \in Patterns : UnretainByRegex(S)
  \/ \E t \in Topics, cb \in Callbacks : Subscribe(t, cb)
  \/ \E t \in Topics, cb \in Unsubscribers : Unsubscribe(t, cb)

Next ==
  \/ ProcessEvent \/ DelayExpires \/ Poll \/ ConnectionLost
  \/ Application \/ Teardown

\* The event loop handles what is posted, the timer expires, and the library
\* hears from the broker or gives the connection up.
Fairness == WF_vars(ProcessEvent) /\ WF_vars(DelayExpires) /\ WF_vars(Poll)

Spec == Init /\ [][Next]_vars
FairSpec == Spec /\ Fairness
-----------------------------------------------------------------------------
(* Properties.                                                             *)

TypeOK ==
  /\ running \in BOOLEAN
  /\ current_state \in FsmStates
  /\ events \in Seq(Events)
  /\ delay \in {"off", "running", "posted"}
  /\ connected_to_broker \in BOOLEAN
  /\ publishing_queue \in Seq(Messages)
  /\ subscription_queue \in Seq(Topics)
  /\ unsubscription_queue \in Seq(Topics)
  /\ subscription_callbacks \in [Topics -> SUBSET Callbacks]
  /\ retained_topics \subseteq Topics
  /\ link \in {"closed", "opening", "open", "lost"}
  /\ broker_subscriptions \subseteq Topics
  /\ broker_retained \in [Topics -> Values \cup {Empty}]
  /\ asked \in [Topics -> Values \cup {Empty}]
  /\ dropped \subseteq Topics
  /\ calls \in 0..MaxCalls
  /\ failures \in 0..MaxFailures

\* No queue is forgotten: while the client is connected and has not heard
\* otherwise, each queue that is not empty has its event posted.  The events
\* that the other states ignore are made up for on entering Connected.
QueuesServed ==
  running /\ current_state = "Connected" /\ ~Queued(events, "DISCONNECTED") =>
    /\ publishing_queue # <<>> => Queued(events, "PUBLISH")
    /\ subscription_queue # <<>> => Queued(events, "SUBSCRIBE")
    /\ unsubscription_queue # <<>> => Queued(events, "UNSUBSCRIBE")

Attempts == {i \in DOMAIN events : events[i] \in {"CONNECT", "CONNECTING"}}

\* The connection that is opened or used is still the client's current one.
Healthy ==
  /\ ~Queued(events, "DISCONNECTED")
  /\ \/ current_state = "Connected"
     \/ current_state = "Connecting" /\ link \in {"opening", "lost"}
     \/ current_state = "Connecting" /\ Queued(events, "CONNECTED")

\* The client never stops trying and never tries twice: unless the current
\* connection is healthy, there is one request to connect, as an event or as
\* the delayed event; a healthy connection is never disturbed by one.
OneAttempt ==
  running =>
    /\ ~Healthy => (Attempts # {} <=> delay = "off")
    /\ Healthy => Attempts = {} /\ delay = "off"
    /\ \A i, j \in Attempts : i = j

\* A request to connect is handled in the state Disconnected, the only one
\* that does not ignore it.
NeverIgnored ==
  running /\ events # <<>> /\ Head(events) \in {"CONNECT", "CONNECTING"}
    => current_state = "Disconnected"

\* The client is connected and has nothing to do.
Settled ==
  /\ running /\ current_state = "Connected" /\ link = "open"
  /\ events = <<>>

\* A settled client says that it is connected, and only a client with a
\* connection says so.
ConnectedFlag ==
  /\ Settled => connected_to_broker
  /\ connected_to_broker => link # "closed"

\* When the client has settled, the broker retains what the application asked
\* for last, except for messages that were lost with a connection (QoS 0).
RetainedServed ==
  Settled => \A t \in Topics \ dropped : broker_retained[t] = asked[t]

\* When the client has settled, the broker knows exactly the subscriptions
\* that have callbacks: also after connections were lost.
SubscriptionsServed ==
  Settled => broker_subscriptions = Subscribed

\* The doc of uic_mqtt_publish: the broker has to retain the message.  A message
\* that the application asked to retain last is not deleted at the broker.
RetentionKept ==
  Settled => \A t \in Topics \ dropped :
               asked[t] # Empty => broker_retained[t] # Empty

\* The doc of uic_mqtt_subscribe: the callback is called when a message is
\* received.  The broker sends what some callback waits for.
CallbacksReached == Settled => Subscribed \subseteq broker_subscriptions

\* A message that the library refuses on every connection, at the head of the
\* queue.
Blocked ==
  /\ publishing_queue # <<>>
  /\ Head(publishing_queue).value \in Rejected

\* Once the broker and the network stop failing, the client connects and works
\* off its queues, or it meets a message that the library refuses: then it
\* connects again and again.  Subscriptions are refused on dead connections only;
\* a pattern that is refused for good would keep the client from settling, too.
Recovers == <>[](~running \/ Settled) \/ <>[]Blocked
=============================================================================
