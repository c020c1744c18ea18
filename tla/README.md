# A TLA+ model of the Unify SDK

Unify is an IoT gateway: protocol controllers (Z-Wave, Zigbee, emulated) and
applications on one host, joined by an MQTT broker. Each process is a single
thread that runs an event loop: Contiki's in the C and C++ libraries, that of
JavaScript in the Developer GUI. Concurrency is between *handlers*: a handler
posts an event, sets a timer or starts a transmission, returns to the loop, and
other handlers run before the answer comes. This directory holds TLA+
models of the components where that matters most, the TLC instances that check
them, and proofs checked by the TLA+ proof system.

Paths below are relative to `src/`; `components/` is where the libraries are.

| file | what it is |
| --- | --- |
| `AttributeResolver.tla` | the attribute resolver and its rule engine, with the parts of the attribute store, the Contiki timers and the lower layer they use |
| `MCAttributeResolver.tla`, `Resolver*.cfg` | small instances of it |
| `AttributeResolverProofs.tla` | its inductive invariant and the theorems that follow |
| `ResolverWorkProofs.tla` | it forgets no work and no listener of nodes that stay and are not paused |
| `MqttClient.tla` | the MQTT client: connection state machine and three queues |
| `MCMqttClient.tla`, `Mqtt*.cfg` | small instances of it |
| `MqttClientProofs.tla` | its inductive invariant and the theorems that follow |
| `MqttServedProofs.tla` | what a client that has settled has got across to the broker |
| `DevGuiApi.tla` | the server of the Developer GUI: WebSockets, the connection to the broker, the broadcast queue, and what the front ends show of it |
| `MCDevGuiApi.tla`, `DevGuiApi.cfg` | a small instance of it |
| `DevGuiApiProofs.tla` | its inductive invariant and the theorems that follow |
| `TopicMirror.tla` | abstract: a flat mirror of retained topics |
| `DevGuiCache.tla` | the nested cache of that server (nodes, groups, images), which implements `TopicMirror` |
| `MCDevGuiCache.tla`, `DevGuiCache.cfg` | a small instance of it |
| `DevGuiCacheProofs.tla` | its inductive invariant, the theorems that follow, and the refinement |
| `Deadlines.tla` | abstract: what attribute timeouts promise |
| `AttributeTimeouts.tla` | the attribute timeouts on one Contiki callback timer, which implement `Deadlines` |
| `MCAttributeTimeouts.tla`, `AttributeTimeouts.cfg` | a small instance of it |
| `AttributeTimeoutsProofs.tla` | its inductive invariant, the theorems that follow, and the refinement |
| `PROJECT.json` | components, runs, mutants, the map from definitions to source lines, findings, hazards and theorems |

## 1. Inventory

For each component: its state, its operations, how it meets the others, what is
hard about it, and what makes it correct.

**Attribute resolver** (`components/uic_attribute_resolver`). *State*: the stack
of the depth-first scan, `scan_requested`, the pending gets with deadline and
retry count, the pending sets, paused nodes, resolution listeners, one event
timer; in the rule engine the node and the kind of rule that executes, and the
sends that were not answered. *Operations*: scan steps, completion of a frame,
expiry of the retry timer, attribute updates, creation and deletion of nodes,
pause, resume, set and clear a listener, restart a get or a set. *Interactions*:
called by the attribute store on every change; calls the rules and `send` of the
protocol controller, which calls back much later; posts Contiki events to
itself. *Hard*: everything may change between two scan steps; one timer serves
all deadlines; a completion may belong to a node that is gone. *Correct when* a
scan in progress always has its next step coming and only one; the stack is a
path of the tree; no get, set or listener is forgotten; every get is answered or
given up; the resolver comes to rest.

**MQTT client** (`components/uic_mqtt`). *State*: the connection state machine,
`connected_to_broker`, one delayed event, the publishing, subscription and
unsubscription queues, the callbacks of each topic, the retained topics.
*Operations*: publish, unretain, subscribe, unsubscribe, the events of the MQTT
process, library callbacks, shutdown. *Interactions*: called by every component
that speaks MQTT; driven by the event queue and by libmosquitto. *Hard*: a
connection is lost while something is in flight; several places notice the same
loss; events that arrive in the wrong state are ignored. *Correct when* there is
one attempt to connect at a time and always one while it is needed, no queue is
forgotten, and what is retained and subscribed at the broker is what the
application asked for.

**Contiki event loop and timers** (`components/uic_contiki`). *State*: one
bounded event queue shared by all processes, poll flags, lists of event and
callback timers. *Operations*: post, poll, run, set, stop and expire a timer.
*Hard*: the queue may be full; a timer is set again while the event of its
expiry is queued. *Correct when* a timer that is set fires once and not early,
and a posted event is delivered in order.

**Attribute timeouts** (`components/uic_attribute_utils`,
`attribute_timeouts.cpp`). *State*: a multimap of nodes to (time, callback) and
one callback timer for the next of them. *Operations*: set and cancel a timeout,
the timer goes off, a node is deleted, init, teardown. *Hard*: the clock moves
between two readings in one function; a callback sets, cancels and deletes while
the scan that called it is under way; a timer is set again while its event is
queued. *Correct when* a callback is called once for each time it was set, not
early, not after it was cancelled, and no timeout is forgotten.

**Developer GUI** (`applications/dev_ui/dev_gui`). *State*: in the server
(`dev-gui-api/main.js`, `handler.js`) the list of WebSockets, the current MQTT
client object and the intervals that wait for one, `state` with nodes, groups,
images and other lists, a queue of lists to broadcast; in each front end
(`App.tsx`, `connect.tsx`) whether it shows that it is connected, and its copy of
the lists. *Operations*: a browser arrives, leaves, connects, disconnects, clears
topics; the MQTT library connects, fails, closes, delivers a message; intervals
and timeouts run. *Interactions*: everything is broadcast to all browsers, any of
which may act on the one connection; the topics come from all other services.
*Hard*: attempts to connect overlap and replace each other; indexes, arrays and
handlers are captured by callbacks and used later; retained messages come in any
order, and empty ones take objects apart. *Correct when* a front end shows
"connected" and lists only if they are so, is told how its request ended, and the
nested cache holds what the broker retains.

**Attribute transitions** (`attribute_transitions.cpp`). *State*: the running
transitions and their timer. *Correct when* a transition reaches its end value
or is stopped or replaced, and none runs on.

**Attribute store** (`components/uic_attribute_store`, `uic_datastore`). *State*:
the tree with reported and desired values, callbacks, the SQLite copy.
*Operations*: add, delete, set values, register callbacks, save. *Hard*:
deletion and writing call back into code that deletes and writes; saving is
postponed, and a crash may come first. *Correct when* the tree stays a tree,
callbacks see existing nodes, and what is loaded after a crash is a tree that
once was.

**Attribute polling** (`components/unify_attribute_poll`). *State*: the poll
queue with intervals, the running timer, the entry that is waited for.
*Interactions*: undefines an attribute so that the resolver gets it. *Correct
when* an attribute that is registered is polled again and again.

**Attribute mapper, dotdot attribute store, dotdot MQTT**: scripts and generated
code between attributes and MQTT topics; computation on data, little control.

**OTA, image provider**: images are announced, downloaded with a timeout and
cached. *Hard*: the timeout races the image; a second download of the same
image. *Correct when* a waiting callback is called once.

**Group manager, name and location, provisioning list (UPVL), node state
monitor, SmartStart, application monitoring**: caches or databases driven by MQTT
messages. *Correct when* the cache follows the messages in whatever order the
broker delivers them.

**Main loop, fixtures, configuration, logging, standard input, GBL interface,
validator, packet trace tools**: start-up order, parsing and output.

`PROJECT.json` lists each with the reason for what is left out, and under
`hazards` the places where the code is hard to test.

## 2. Plan

The behaviour the rest of the system depends on first.

1. `AttributeResolver` with `AttributeResolverProofs` and `ResolverWorkProofs`: done.
2. `MqttClient` with `MqttClientProofs` and `MqttServedProofs`: done, except for the
   routing of received messages to callbacks, which changes nothing unless a
   callback subscribes.
3. `DevGuiApi` with `DevGuiApiProofs`: done. It is where most concurrency of the
   JavaScript part is.
4. `DevGuiCache`, shown to implement `TopicMirror`: done, with proofs of both. `DevGuiApi` and `DevGuiCache` meet in one place: the action
   `onMqttMessage` gives a list a content in the first, and the second says how.
5. `AttributeTimeouts`, shown to implement `Deadlines`, with proofs of both: done.
   It includes the callback timer of Contiki that the plan had as a module.
6. `AttributeStore`: the tree with re-entrant callbacks, undergoing-deletion
   marks and the persistent copy, with crashes. Abstract specification: a tree
   and a saved tree. Theorems: the tree invariant. Not written.
7. `AttributePoll` (the poll queue with its timer, composed with an abstract
   resolver: "a get that is asked for is answered or given up", which
   `GetConcludes` shows of the real one), attribute transitions, OTA downloads.
   Not written.

An abstract specification is also worth stating for the first two modules: the
resolver as a set of nodes that owe work, from which completions remove nodes;
the MQTT client as three queues and one token, the request to connect.

## 3. The attribute resolver

### State and actions

A node of the tree is an element of `Nodes`; `children` holds the live children
in order, `Parent` never changes. The variables are those of
`attribute_resolver.cpp` and `attribute_resolver_rule.cpp` under their names
where there is one: `stack`, `scan_requested`, `pending_get`
(`pending_get_resolutions`), `pending_set`, `paused`, `listeners`, `etimer`
(`pending_get_resume_timer`), `resolver_state`, `node_pending`, `more_frames`.
`queue` is what the resolver process has been posted.

| actions | code |
| --- | --- |
| `ScanCompleted`, `SkipNode`, `VisitChild`, `NothingToResolve`, `GetHeldBack`, `ExecuteGet`, `SetHeldBack`, `ExecuteSet` | one turn of the loop of `resolver_find_next_resolve`, by what it finds on top of the stack; `scanning` is TRUE while control is inside the loop, and no event is handled then |
| `EvNext`, `EvWatch`, `EvTimerSet`, `EvTimer` | the event handlers of the resolver process |
| `EtimerExpires`, `Tick` | the Contiki event timer, and the clock |
| `SendDataComplete`, `RuleExecutionTimeout` | the completion callback of the lower layer and the timeout of the rule engine |
| `ReportedWritten`, `DesiredWritten`, `NodeCreated`, `NodeDeleted` | the attribute store callback of the resolver, with the change that triggered it |
| `Pause`, `Resume`, `SetListener`, `ClearListener`, `RestartSet`, `RestartGet` | the public functions |

A handler often updates several nodes, and each update may call back into the
resolver (`on_resolver_node_update`), which may request a scan. The operators on
`Views` apply such updates one after the other to a record per node and collect
the nodes that ask for a scan; `scan_node` then decides for all of them.

### What is abstracted

* Time is relative. A deadline is the number of ticks that are left; 0 means that
  the clock reads exactly the deadline, -1 that it is past. Nothing depends on
  the absolute time. Both readings occur in every run: the event timer, the scan
  it starts and the restart of the timer take a deadline for due at 0
  (`attribute_resolver.cpp` 854, 888), `execute_get` sends the retry at -1 only
  (468). A scan that comes to the node at 0 (`OnDeadline`) therefore passes it
  over, and nothing starts the timer again for it. The history field `missed` of a
  pending get records that, until the get is sent after all.
* Writes that nobody is called back for are left out: a reported value is written
  to nodes with a rule, a desired one to nodes with a set rule.
* The callback timer of the rule engine may run out at any time while a rule
  executes; its length is left out.
* Only leaf nodes are deleted, one at a time. The store deletes a subtree from
  its leaves.
* Values are an undefined one and a small set; rules return a frame status that
  is chosen, because a rule is code of the protocol controller.
* `LowerLayer` is the protocol controller: it answers a send with any of
  `Statuses`, late, or never. It remembers at most `MaxOutstanding` sends of a
  kind for a node.
* Give-up and resumption listeners only notify and are left out. Rules are
  registered before the first scan. The queue is not bounded here.

### What the runs check

**`ResolverSafety`**: every operation on a tree of a root, a child and two
grandchildren, one of which is created during the run, and which may be deleted;
gets that fail, are retried or wait; sets that are resolved as a group and take
several frames; sends that are refused; nodes that are paused. It shows `TypeOK`,
and

* `WakeUp`: outside the loop exactly one NEXT event is queued whenever a scan is
  requested or one is under way with no rule executing, and none otherwise;
* `OneScan`: a scan is requested only while none runs;
* `StackIsPath`: the stack is a path of the tree;
* `EngineConsistent`: the rule engine waits only for a node that exists.

**`ResolverWork`**: nodes that stay and are not paused, on two siblings, with two
attempts of each get; no send is refused, no rule fails or waits. It shows
`NoLostWork` (a resolver with nothing queued, no timer and no rule executing owes
no get or set to any node), `NoLostListener` (a listener not yet called has
something to wait for), and under fairness `Settles` (scans, retries and
notifications do not feed each other for ever) and `GetConcludes` (a get is
answered, given up, or its node is gone). `NoLostWork` and `GetConcludes` make one
exception, `MissedRetry`: a retry that a scan came to in the very millisecond of
its deadline. Such a get *is* forgotten, and it is not a rare case: the event timer
goes off at the deadline, and the retry is sent only if the clock has moved on
when the scan gets to the node. The properties show that no other get or set is
forgotten.

**`ResolverDeleted`, `ResolverPaused`, `ResolverWaiting`** give `NoLostWork` one
more circumstance each, and it fails: see section 9.

### Bounds

`Nodes` has three or four elements: a stack of depth three, a sibling to be
skipped, a node to be created. Two attempts (`RetryCount = 2`) are the fewest at
which a get is retried and given up. With `MaxWait = 1` one deadline may be reached while
another is open, since each is counted from its own send; longer ones differ only
in how many ticks pass. One to three calls of the environment (`MaxCalls`)
interleave with everything the resolver does by itself; two are enough for pause
and resume, three for creating a node, writing it and deleting it. The bound on calls also makes `Settles` meaningful: it speaks of the resolver on its
own, after the last call.

### Fairness

`FairSpec` assumes that the event loop takes its next step while there is one,
that the timer expires and time passes, and that an executing rule ends at the
latest by its timeout. All hold in a process whose handlers return. Two of them
are written out as `[]<>(nothing to do) \/ []<><<action>>_vars`, which is weak
fairness with the enabling condition spelled out. Nothing is assumed of the
lower layer: it may never answer.

## 4. The MQTT client

### State and actions

`current_state`, `connected_to_broker`, the three queues, `subscription_callbacks`
and `retained_topics` are the variables of `uic_mqtt_client.cpp` and of the state
machine. `events` is what the MQTT process has been posted; `delay` is the timer
of `uic_mqtt_process_post_delayed` with its flag. `link`, `broker_subscriptions`
and `broker_retained` are the library and the broker, as far as the client can
notice. `asked` and `dropped` are history for the properties: what was asked to
be retained last, and what was handed to the library on a connection that was
dead already (QoS 0).

| actions | code |
| --- | --- |
| `EventConnect`, `EventConnecting`, `EventConnected`, `EventDisconnected` | the events of the state machine (`uic_mqtt_client_fsm_*.cpp`) with the `enter` functions they run |
| `EventTimer`, `DelayExpires` | the delayed event of `uic_mqtt.c` |
| `EventPublish`, `EventSubscribe`, `EventUnsubscribe` | `publish_to_broker` and its siblings: the first element of a queue is sent, or the connection is taken for lost |
| `Poll` | `poll`, with the library callbacks `on_connect` and `on_disconnect` it may run |
| `ConnectionLost` | the broker or the network fails; the client does not notice yet |
| `Publish`, `Unretain`, `UnretainByRegex`, `Subscribe`, `Unsubscribe` | the public functions |
| `Teardown` | `PROCESS_EVENT_EXIT`: flush, then disconnect |

### What is abstracted

* How long the client backs off: nothing else depends on it.
* The broker opens a clean session for each connection and keeps retained
  messages. A payload in `Rejected` is one the library refuses to publish.
* On entering Connected topics are subscribed to again in the order of a
  container; the model takes any order, and unretaining does so as well. When
  the client looks for a pattern that has the callback already, the container
  (sorted by topic) yields a pattern with wildcards before what it covers, since
  `#` and `+` sort before letters and digits; the model therefore looks at all
  covering patterns first. Only a pattern `t/#` and its own parent `t` sort the
  other way round, and `Covers` stands for pairs of the first kind.
* Subscribing and unsubscribing are refused only on a dead connection. A pattern
  that is not valid is refused for good, which the code also takes for a
  disconnection; the model has no such patterns.
* Functions that run after connecting and before disconnecting are calls of the
  application, which may come at any time anyway.
* Routing of received messages changes no state here and is not modelled.

### What the runs check

**`MqttConnection`**: one topic, a payload that is refused, three calls and two
failures at any point. It shows `TypeOK`, and

* `OneAttempt`: unless the connection is healthy there is exactly one request to
  connect, posted or delayed; a healthy connection is never disturbed by one.
  Failures are noticed in several places, and each asks for a new connection;
* `NeverIgnored`: a request is handled in the one state that serves it;
* `QueuesServed`: a connected client has posted the event of every queue that is
  not empty, though other states drop these events;
* `ConnectedFlag`: `connected_to_broker` is right when the client has settled, and
  never says so without a connection;
* `Recovers`, under fairness: when failures end the client settles, unless the
  head of its queue is a message that the library always refuses. Then it
  reconnects again and again. A topic pattern that is always refused
  (`mqtt_client.cpp` 509-525) would do the same; it is not modelled, as said above.

**`MqttServed`**: two topics of which one covers the other, two callbacks, a
failure. It shows that a settled client has the broker retain what was published
last (`RetainedServed`) and subscribe to what has callbacks
(`SubscriptionsServed`), also after a reconnect. Without unretain and
unsubscribe: with them neither holds, see section 9.

**`MqttSubscriptions`, `MqttUnretain`** show how they fail.

### Bounds and fairness

Three calls are the fewest that queue a retained message, unretain it and publish
again, or fill a queue twice while it is served; five are needed to get two
entries into the unsubscription queue. Two failures let a reconnect fail in its
turn. One topic is enough for the connection, which does not look at topics; two
are needed where topics interact. `FairSpec` is weak fairness of the event loop,
of the delay and of `Poll`: the loop runs, the timer expires, and the library
hears from the broker or finds the connection lost. The application and the
network are not fair.

## 5. The server of the Developer GUI

### State and actions

`clients`, `queue`, `mqttConnection` and `cache` (`handler.state`) are variables
of `handler.js` and `main.js`; `index`, `counter` and `reconnects` are what
callbacks and timers have captured: the index a WebSocket had when it was
accepted, the ticks an interval has left, the timeouts of clear-mqtt. Client
objects of mqtt.js are numbered; `link` is the state of each, and `handlers` how
often `onMqttMessage` and `disconnect` are registered with it. `front` is what
each browser shows; two of its fields are history, `fresh` (below) and `ignored`,
that the server has dropped the last request to connect. JavaScript runs one callback at a time, so an action is a
callback.

| actions | code |
| --- | --- |
| `onRequest`, `CloseSocket` | a WebSocket is accepted, or closes (`main.js` 80-86, 191-194), with what its front end does then |
| `Click`, `onMessage` | a request is sent by `connect.tsx` and the dialogs, and handled (`main.js` 88-189) |
| `Tick`, `Reconnect` | the interval of `connect`, every 100 ms; the timeout of clear-mqtt. A request to connect is answered, refused for want of certificates, or creates a client object; or `mqtt.connect` throws, for a port out of range or a certificate that is not PEM, and the catch of the request (186-188) only logs it (`Ignoring`) |
| `Connects`, `Fails`, `Closes` | events of the MQTT library; `disconnect` is their handler |
| `onMqttMessage` | a message arrives, changes a list and queues it |
| `runQueueHandler` | a round of the broadcast queue, every 500 ms |

### What is abstracted

* The MQTT library is external. It is modelled by how `main.js` uses it: an object
  keeps trying until `end()`, reconnects by itself after a failure, and emits
  "close" each time a connection or an attempt ends.
* A list has a content, one of `Contents` or empty; section 6 has what is in it.
  A broadcast arrives at once: WebSockets keep the order, and what is under way in
  one is lost with it.
* Requests that only publish are left out: publishing changes nothing here, and
  what comes back comes as a message. Messages of type `state` and
  `protocol-controller-state`, which only open dialogs, are left out too.
* clear-mqtt with something to publish throws before anything else happens
  (section 9); whether there is something is whether the list is empty.
* A broken message changes nothing but the log.

### What the run checks

**`DevGuiApi`**: three WebSockets, two requests, two failures, an attempt of one
tick, one list. It shows `TypeOK`, and

* `NoLostUpdate`: what a front end shows of a list, if it was sent from the array
  that is still the server's, is what the server has, unless the list is queued.
  The history field `fresh` says which lists that is. The property says that the
  queue loses nothing; it says nothing of a list whose array `resetState` has
  replaced since or that the front end has emptied by itself, and those do
  differ from the cache;
* `ConnectedIsTrue`: a front end that is reached shows "Connected" only when
  there is a connection, or an attempt whose end it will be told;
* `CacheIsLive`: a list that `resetState` empties has a content only while an
  object with handlers is connected, also an object that was replaced and that
  nobody will end;
* `MissedMeansLeaked`: the close callback removes whom its old index points to.
  This can cost another browser its broadcasts; the number of these is bounded
  by the closed WebSockets that stay in the list;
* `Answered`, under fairness: a front end that shows "Connecting..." is told the
  result, unless its WebSocket closes, the list has lost it, or the options of its
  request made `mqtt.connect` throw. In the last case it is told nothing until
  another browser's request ends (section 9).

### Bounds and fairness

Three WebSockets are the fewest with which a stale index hits a third. Two
requests are two overlapping attempts, or an attempt and a disconnection; two
failures let a reconnection fail, or both objects. With one tick an interval may
find a connection on its first look, on its last, or not. All lists are treated
alike within each of three classes (reset by the server, by the front end, or by
neither); the run takes nodes-list, and the proofs cover any set of lists. Weak
fairness is assumed of `onMessage` (what a WebSocket carries arrives), of the
intervals and timeouts, and of closing what `end()` has ended. Nothing is assumed
of browsers, of the network or of the broker.

## 6. The cache of the Developer GUI

### State and actions

`Nodes`, `Groups` and `OTA` are the arrays of `handler.state`. Elements that are
found by name make a function; `Groups` is a sequence, because it is spliced
while it is iterated: of a run of groups without members the loop removes the
first, the third and so on (`Removed`), and `Spliced` lists those that stay. The broker is `retained`, `subscribed` and `due`, the
retained messages that are on their way. `Publish`, `Deliver` and `Subscribe` are
the broker. `resetState` runs in two situations: `Lose` ends the subscription;
`Reset` does not, since in `DevGuiApi` client objects overlap, and one that closes,
or a request to connect while the current object is not the subscribed one
(`main.js` 202), empties the cache although the broker sends nothing again.
The actions of the server are the handlers: `onMqttMessage` dispatches to `processNodeState`,
`processCluster` (which stands for the handlers of clusters, endpoint groups, OTA
attributes of endpoints and supported commands: all find the node and call
`initProp`), `processProtocolController`, `processGroup` and `processOTAInfo`.
`dropped` is history: topics that are retained but were forgotten, with their node
or group (`Dropping`) or by a `Reset` after they had arrived, and that no value was
received of since.

`TopicMirror` is what this amounts to: every topic shows its last message, or
nothing, and when the last key topic of an owner (the State of a node, the
members of a group) is cleared, the owner is forgotten with all its topics. It has
a `Reset`, too, with a consequence: a member that was forgotten so and is then
cleared is entered as null by `initProp`, and stays in the list of its group
without a value (`LeaveBlank`, `Blank`). The refinement mapping takes `Shown`, what the front ends display of a topic, for the
mirror.

### What is abstracted

* An object inside a node is the function of its leaves. `initProp` makes the
  objects above a leaf and deletes those that became empty, so that the leaves
  determine them. A leaf that is cleared without being there becomes null, as in
  the code.
* A message published while the server is subscribed arrives at once, unless the
  retained one is still on its way; each message is handled once (but see
  section 11).
* There is one subscription at a time. That another client object has one as well
  is the case of messages handled twice.
* `MayPublish` restricts the services: the group manager and the image provider
  clear only what they have published, and an image is for all nodes or for some,
  with the same content. The last two are *stronger* than the image provider: it
  takes several entries of one Uiid from `images.json`, for all nodes and for some
  and with different contents, and after a restart it does not clear what it had
  published before (`image_watcher.rs` 124-137, 203-232). The server then shows
  the content that came last for all of them, and clearing one topic may remove
  the others.
* Values are only compared, so the run takes them as symmetric.
* Groups of an endpoint and metrics follow the same pattern as clusters. RF
  telemetry accumulates, packet traces are a log, and the SmartStart, UPTI and
  monitoring lists are replaced as a whole: they are left out.

### What the run checks

**`DevGuiCache`**: a node with state, network management and a property, a group
of two members with a property, a second group, an image for two nodes or for all; four messages,
one lost connection, any number of resets. It shows `TypeOK`, and

* `Complete`: with nothing on its way the front ends show exactly what the broker
  retains, but for what was forgotten with its node or group, or had been received
  when `resetState` emptied the cache of a subscription that went on, and has not
  been published again;
* `NeverStale`: they never show what the broker does not retain any more; at most
  a member that was cleared is listed without a value, as said above;
* `NoHollowGroup`: the loop that splices while it iterates never has two groups
  to remove, so that skipping is harmless;
* `MirrorSpec`: the refinement of `TopicMirror`. A handler changes what is shown
  of its own topic and of nothing else, except when an owner is forgotten.

### Bounds

Four messages fill a group of two and empty it, or make an image for two nodes,
clear one and replace it; with one lost connection the same messages come again
in any order. Two values tell a replaced message from a new one. Safety only: no
fairness.

## 7. Attribute timeouts

### State and actions

`timeouts` is the multimap, as a set of (node, callback, time). The watch timer is
`etimer` (when it goes off), `listed` (whether it is on `ctimer_list`) and
`events` (its events in the event queue). The program has one thread, but each
function reads the clock anew; so a step is one reading, `stack` holds what is
left of the functions under way ("callback", "scan", "restart"), and `Tick` may
come between any two steps. Callbacks may call the public functions while they
are on top of the stack.

| actions | code |
| --- | --- |
| `attribute_timeout_set_callback`, `attribute_timeout_cancel_callback`, `attribute_timeouts_init`, `attribute_timeouts_teardown` | the public functions |
| `on_attribute_node_deleted` | the callback of the attribute store |
| `Scan`, `Restart`, `Return` | `attribute_timeout_invoke_timeout_functions`, which calls one callback and then itself; `attribute_timeout_restart_watch_timer`; the end of a callback |
| `Expire`, `Event` | `etimer_process` posts the event of an expired timer; `ctimer_process` handles it |

Abstracted: which of several timeouts that are due is called first; the type of
the clock (64 bits of milliseconds do not wrap); a full event queue, after which
`etimer_process` tries again, is a late `Expire`. Invalid arguments are rejected
without effect.

`Deadlines` is the promise of `attribute_timeouts.h`: a callback is called at most
once for each time it was set, not before its time, and not once it was cancelled,
set anew (to whatever duration), or its node deleted. It counts the calls of the
public functions, as `calls` does, since otherwise a call that comes early could
pass for that of a duration 0, and a lost timeout for a cancelled one. That it *is*
called is liveness, `Served`. The code breaks the promise in one place: set with duration 0
while a timeout is pending, the callback is called now, and the old timeout stays
and calls it again (`attribute_timeouts.cpp` 170-174, before the cancellation at
177). `SetToZeroWhilePending` is that step, and section 9 has the words it breaks.

### What the run checks

**`AttributeTimeouts`**: two nodes and two callbacks, durations 0, 1 and 3, a
clock up to 4 and three calls, each from outside or from a callback. It shows
`TypeOK`, and

* `OnlyOne`: a node and a callback have at most one timeout, though the multimap
  takes any number and cancelling stops at the first;
* `NextInTime`: between calls the timer is never set for later than any timeout
  to come;
* `ForgottenMeansSlipped`: a timeout is forgotten, set with no timer to wake for
  it, only if the clock moved between the last reading of a scan (or of
  `set_callback`) and that of the restart;
* `Served`, under fairness: a timeout is called, cancelled or deleted in the end,
  or the clock has slipped;
* `PromiseButForZero`: the refinement of `Deadlines`, but for steps of
  `SetToZeroWhilePending`. The run takes such steps, with the second call that
  follows.

With durations 1 and 3 a later timeout is set while an earlier one is due, and a
timeout falls due while others are served; three calls are a timeout, another set
by its callback, and a cancellation of either. Fairness: time passes, functions
return, and the loop of Contiki polls its processes and hands out their events.

## 8. Mutants

Each property of each passing run is paired in `PROJECT.json` with a mutation of
a definition, written beside it (`EvTimer_NoRestart`, `on_disconnect_Silent`,
...), that a slip in the code would amount to: a flag that is not reset, a dropped
guard, a retry that is not counted. TLC finds the property violated with the
mutation in place.

## 9. Where the code and its documentation differ

Each of the first five is a run that TLC ends with a counterexample;
`PROJECT.json` quotes the lines.

* `ResolverDeleted`: the scan keeps the *position* of the next child. When a
  child is deleted meanwhile, those behind it move up, and one is skipped.
* `ResolverPaused`: the retry timer passes over a paused node and does not
  restart; resuming does not scan a node that has a pending get. The get is due
  and nothing will look at it.
* `ResolverWaiting`: a *retried* get that is answered IS_WAITING is counted but
  gets no new deadline and starts no timer; a first attempt does.
* `MqttSubscriptions`: subscriptions and unsubscriptions wait in separate queues
  that are served alternately. An older unsubscription may be sent after a newer
  subscription of the same topic, which then has a callback but no subscription.
* `MqttUnretain`: a retained message replaces the first queued one of its topic,
  which may stand in front of a deletion. The deletion is sent last.

More were met while modelling: first three that contradict a comment or a name,
then three where nothing says what should happen. The models have
them, as history or as exceptions that the properties name, except the one about
`processLocator`:

* Attribute timeouts: `attribute_timeouts.h` 56-61 says that only one timeout of a
  node and a callback is active, and of setting it twice: "Will lead to only 1
  call". Set a second time with duration 0 it is called at once and the first
  timeout stays (`attribute_timeouts.cpp` 170-174), which makes 2 calls.
  `PromiseButForZero` excepts exactly this step, and would fail without it.
* Attribute timeouts: `attribute_timeouts.h:77` says of setting a timeout that
  "the callback will be invoked". When the clock moves between
  `attribute_timeouts.cpp` 183 and 60, or between 91 (in the innermost call) and
  60, a timeout of that moment is neither called nor given a timer. It is called
  late when another one is set or goes off, and never if there is none.
  `slipped` records it, and `ForgottenMeansSlipped` shows that nothing else does
  that. A timeout that is due but not yet polled is also postponed when another
  is set (76, since the one timer is set anew).
* Developer GUI: clearing topics calls `mqttConnection.publish` in `handler.js`,
  where there is no such variable (509, 542, 558). The first publication throws,
  and the request ends without the reconnection it should end with (`ClearThrows`).
  `processLocator` (`main.js:256`) is not defined there either, but no topic that
  the server subscribes to gets to this line.
* Developer GUI: when `mqtt.connect` (`main.js` 222) throws, for a port out of range
  typed into the form or a certificate that is not PEM, the request ends in the
  catch at 186-188: no interval is started and nothing is broadcast. The front end
  shows "Connecting..." with its button disabled, and all front ends keep lists
  that the server has just emptied (`Ignoring`, and the exception in `Answered`).
* Developer GUI: while one client object is subscribed, `resetState` also runs for
  a request to connect (`main.js` 202) and for the end of another object
  (`disconnect`, 241). The cache is emptied, the broker sends nothing again, and
  retained topics are missing until they are published anew (`Reset`, and
  `dropped` in `Complete`).
* Attribute resolver: the retry that is missed in the millisecond of its deadline,
  `>` at `attribute_resolver.cpp` 468 against `<=` at 854 and 888 (`MissedRetry`).

## 10. What is proved

The proofs hold for all values of the constants that satisfy the named
assumptions of the modules: any tree, any rules and groups, any number of
retries, topics, callbacks, WebSockets, timeouts, calls and failures. Neither
fairness nor small bounds enter.

**`AttributeResolverProofs`.** `Spec => []IInv`, by one lemma for each action,
where `IInv` is, besides the types of the variables,

* `TreeInv`: a node is listed only below its parent, the root nowhere, and the
  root is never created anew;
* `SchedInv`: `WakeUp`, `OneScan` and `StackIsPath`, which belong together: a step
  that pops the stack or starts a scan must post the next event;
* `RuleInv`: `EngineConsistent`, and that a rule executes only for a node that has
  a rule.

`EngineConsistent` is not inductive alone: only nodes with a rule tell the
resolver of their deletion, so it must be known that the engine waits for one of
them, or a deletion would leave it waiting. Nor is `WakeUp`: the step that
follows a completion is posted by the completion, and it must be known that the
engine was busy until then. The theorems `TypeCorrect`, `NeverAsleepAtWork`
(`WakeUp`), `SingleScan` (`OneScan`), `ScanFollowsTree` (`StackIsPath`) and
`EngineWaitsForLiveNode` (`EngineConsistent`) follow.

**`ResolverWorkProofs`.** `NoWorkIsLost` (`NoLostWork`) and `NoListenerIsLost`
(`NoLostListener`) hold under a condition on the constants, `Undisturbed`: no node
is deleted or paused, each is resolved by frames of its own, a rule resolves the
node or has a frame that the lower layer takes: the frames are OK, IN_PROGRESS and
ALREADY_EXISTS, never IS_WAITING or FAIL. The clock may be read at any time, also
in the millisecond of a deadline; a retry that is passed over then is what
`NoLostWork` excepts. The theorem about listeners speaks of nodes
without a get rule. None of this is for convenience: the runs `ResolverDeleted`,
`ResolverPaused` and `ResolverWaiting` refute `NoLostWork` when nodes are deleted or
paused or a rule waits, and section 11 says what happens with the others. Everything
else is arbitrary: the tree, creation of nodes, writes, restarts, listeners,
multi-frame sets, failing and absent answers. The run `ResolverWork` is an
instance of these conditions.

The invariant `WorkInv` says of every node that it is `Attended`: if it needs a get
or set then a scan comes to it, and if its get waits for a retry then the timer
or its expiry event is under way, or its rule executes, or it was missed: the one
step that leaves a waiting get with none of these is `GetHeldBack` in the
millisecond of the deadline, which records it (`GetHeldBackInv`). Of every listener that
waits it says that it is `Heard`: a scan comes to its node, its call is queued,
or a node below has work left. "The scan comes to" (`Reaches`) reads the stack as
what it has yet to visit: the nodes on it, and what is below those children of
theirs that are behind the index. That makes the rest local:

* popping a frame or moving on to a sibling loses only nodes that were looked at
  (`PoppedReaches`, `VisitWork`), and creating a node appends it behind
  every index;
* whatever a handler adds, a restarted scan, a timer, an event, nothing in store
  is lost (`Keeps`), so that only the nodes that the handler changed need
  an argument;
* a completion that leaves its node in need asks for a scan, sets the timer, or
  gives the get up; a node that stops keeping its listener waiting asks for a
  scan of that listener.

`Above` is defined by recursion, and that it has a solution must be proved first:
the least closed sets are one (`AboveIs`), because every nonempty set of nodes
without the root has a member whose parent is outside (`RootAssumption`, which
says that the nodes form a tree). `NoneAssumption` keeps the model value for "no
entry" apart from entries and times.

**`MqttClientProofs`.** `Spec => []IInv`, where `IInv` adds to `TypeOK` two facts
of a running client. `Served` is `QueuesServed`. `ConnInv` describes the queue as
a protocol, by what may stand in front of what:

* `RequestInv`: a posted request means that the state machine is Disconnected, no
  delay runs, and nothing but stale disconnections stand before it;
* `DelayInv`: a delay that runs out finds the state machine Disconnected,
  because the news of the disconnection stands before its timer event;
* `AcceptInv`, `OpeningInv`: the broker's answer comes once and before any loss;
* `TokenInv`: either a request exists, or the connection is healthy.

`OneAttempt` mentions only the last; the order in the queue is what makes it
inductive. The lemmas are about the record that the handlers pass along
(`ConnectionGone`, `RequestPosted`, `TimerTaken`, ...), so that each action is a
few of them in a row. `TypeCorrect`, `NoQueueForgotten`, `OneAttemptOnly`,
`RequestsNeverIgnored` and `ConnectedFlagRight` follow; the last needs one more
invariant, that a process that has ended does not say it is connected.

**`MqttServedProofs`.** What a settled client has got across. `KeptTopicsAreServed`
holds for each topic that no call of unretain matches; if that is all of them it
is `RetainedServed` (`RetainedIsServed`). Its invariant: what was asked for last
of such a topic is retained or waits in the publishing queue, where at most one
retained message of a topic waits, with the last value. The second half is
needed, or an older message behind it would overwrite the new one.
`SubscriptionsAreServed` is `SubscriptionsServed` for an application that
never unsubscribes: the broker knows only topics with callbacks, only these
wait, and on an open connection each of them is known or waits; the queue
may hold a topic twice, and a lost connection makes all of them wait anew.
Both restrictions are needed: the runs `MqttUnretain` and `MqttSubscriptions`
show the violations without them.

**`DevGuiApiProofs`.** `Spec => []IInv`, where `IInv` is `TypeOK` and

* `DataInv`: `NoLostUpdate`, and two facts that make it inductive. A queued entry
  that is not old holds what is cached, so that broadcasting it makes a front end
  right; and a WebSocket that was not accepted yet shows nothing fresh. Like the
  property, the theorem is about fresh lists;
* `ConnInv`: `ConnectedIsTrue`, and that a current object without handlers is
  still awaited by its own interval: an object with handlers announces its end,
  the interval announces how it ends itself;
* `CacheIsLive`;
* `Distinct` and `Counted`: the list of WebSockets has no WebSocket twice, and is
  at least as long as there are open ones. Each close removes at most one entry,
  whichever, so the length never falls behind; with distinct entries this is
  `MissedMeansLeaked`, by counting.

`TypeCorrect`, `UpdatesArrive` (`NoLostUpdate`), `ConnectedShownRight`
(`ConnectedIsTrue`), `NothingOutlives` (`CacheIsLive`) and `LeaksBound`
(`MissedMeansLeaked`) follow.

**`DevGuiCacheProofs`.** `CacheMirrors`, `Spec => MirrorSpec`: every handler is a
step of `TopicMirror` or a stutter. `MirrorNeverStale`: whatever implements the
mirror never shows anything stale; there `NeverStale` is not inductive, since a
message published while the server is away must find nothing shown, so
`MirrorInv` adds that an unsubscribed server shows nothing and has nothing due.
`CacheNeverStale` is the two together. The refinement needs the inductive
invariant `CacheInv`, of which

* `Complete` is needed itself: what the broker clears or replaces must be what the
  cache shows, or be recorded as dropped;
* `CacheOk`: no group without members and none twice, so that the splicing loop
  removes at most the group that was just emptied (`SplicedWhole`, `SplicedOne`).
  A member with a null entry counts as shown, blank, so that a list is empty
  exactly when none of its topics shows anything;
* `BrokerOk`: what is on its way is retained;
* `ImagesAgree`: the topics of one image have one content, for all nodes or for
  some, because an image with an empty list is one for all nodes.

`CacheComplete` (`Complete`), `CacheNoHollowGroup` (`NoHollowGroup`) and
`CacheTypeCorrect` (`TypeOK`) follow from it.

**`AttributeTimeoutsProofs`.** `Spec => []IInv`, where `IInv` is `TypeOK`,
`OnlyOne` and

* `ToComeCovered`: the timer goes off in time for each timeout to come, or a
  restart is on the stack. This is `NextInTime` extended to states inside a function;
* `DueCovered`: while a timeout is due the timer runs or has posted its event, or
  a scan is on the stack, or the clock has slipped.

A restart sets the timer anew and so can take the wake-up from a timeout that is
due; what rescues `DueCovered` is that then another one is to come, whose timer
serves both. `TypeCorrect`, `OneAtATime`, `TimerInTime` and `SlipsBound` follow,
and `KeepsPromise`, `Spec => PromiseButForZero`: every action is a step of
`Deadlines`, a stutter, or `SetToZeroWhilePending`. It needs `OnlyOne`, because cancelling erases one timeout where the
promise speaks of all.

**Only model-checked**: `Settles`, `GetConcludes`, `Recovers`, `Answered` and
`Served`, because liveness under fairness is out of the prover's reach. Every
invariant and every refinement that a run checks is proved.

## 11. What is not modelled, or not stated

* That a retry is missed in the millisecond of its deadline: the model has it, and
  `NoLostWork` and `GetConcludes` except it by name. Nothing in the repository says
  that a get is retried in any case, so no run states it as a violation.
* Nodes that are resolved by one frame: a get is held back while that of another
  node of its group is pending, and a set likewise. When the get of the
  other is answered alone, or its set ends as ABORTED and stays pending, nothing
  scans the node that was held back. TLC finds it with two siblings in a group; `NoLostWork` is
  therefore checked and proved without groups.
* A listener that is set on a node whose get was given up is not called: the scan
  skips that node, and only a completion of the node itself calls its listener. `NoLostListener` is
  checked and proved for the others.
* A `send` that is refused or a rule that fails moves on with the scan and nothing
  scans the node again; and a desired value written while a set is under way
  (the completion of the older set erases it): the model has both, but nothing
  says what should happen, so no property does.
* A publication without the retain flag removes its topic from `retained_topics`
  although the broker still retains the older message. `RetainedServed` is
  therefore checked without unretain.
* When two intervals find the same client object connected, `onMqttMessage` is
  registered twice, and an empty message that is handled twice leaves null where
  it had deleted: a member that has left a group stays in its list. `DevGuiApi`
  counts the registrations, `DevGuiCache` handles each message once.
* The front ends are not told when mqtt.js reconnects by itself: `main.js`
  handles only "close". The model has it; nothing says what should be shown.
* In `DevGuiCache` an attribute that arrives after its node was removed makes the
  node anew, without a state, and an empty message of network management is
  passed over, so that what is shown of it goes stale. Its topics are received
  but not mirrored.
* The pages of the Developer GUI render what they are given, and its forms only
  send requests that publish. Tables generated from the cluster definitions
  (`zap-generated`), the generated documentation with its search indexes and the
  libraries bundled with it make up most lines of JavaScript and TypeScript in
  the repository; they are data, without control of this program.
* The bounded Contiki event queue that all processes share: what other processes
  have queued is not known to any component.
* Persistence and re-entrant deletion in the attribute store (plan, step 6),
  polling, transitions and OTA (step 7), and the remaining components of
  section 1, mostly caches, parsers and glue, for the reasons `PROJECT.json`
  gives.
