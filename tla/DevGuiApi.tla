------------------------------ MODULE DevGuiApi ------------------------------
(***************************************************************************)
(* The server of the Developer GUI and the connection state of its front   *)
(* ends: applications/dev_ui/dev_gui/src/dev-gui-api, App.tsx and          *)
(* components/connect.                                                     *)
(*                                                                         *)
(* Browsers are connected to the server by WebSockets.  The server keeps   *)
(* one current MQTT connection, caches what it receives in lists (nodes,   *)
(* groups, images, ...), and broadcasts every list that changed to all     *)
(* browsers, twice a second.  JavaScript runs one callback at a time, so   *)
(* an action is a callback: a request of a browser, an event of the MQTT   *)
(* library, a tick of an interval, a round of the broadcast queue.         *)
(*                                                                         *)
(* The MQTT library (mqtt.js) is external: a client object that is created *)
(* keeps trying until end() is called, reconnects by itself after a        *)
(* failure, and emits "close" each time a connection or an attempt to      *)
(* connect ends.  How a message changes a list is the subject of module    *)
(* DevGuiCache: here a list has a content, and a message gives it one.     *)
(***************************************************************************)
EXTENDS Integers, Sequences, FiniteSets

CONSTANTS
  Lists,            \* the lists of this instance, some of AllLists
  Contents,         \* contents a list can have besides Empty
  Empty,            \* the content of a list after it is reset
  MaxSockets,       \* bound: WebSockets accepted
  MaxAttempts,      \* ticks of 100 ms a connection may take (50 in the code)
  MaxRequests,      \* bound: requests of the front ends
  MaxFailures       \* bound: failures of the network or the broker

(* The lists by the type of their message.  Server and front end do not    *)
(* reset the same ones when a connection ends.                             *)
ResetByServer == {"nodes-list", "smart-start-list", "groups", "ota",
                  "upti-list", "commissionable-device"}
ResetByFront == {"nodes-list", "smart-start-list", "groups", "ota",
                 "upti-list", "app-monitoring"}
AllLists == ResetByServer \cup ResetByFront \cup {"system-metrics"}

ASSUME ListAssumption == Lists \subseteq AllLists /\ Empty \notin Contents
ASSUME BoundAssumption ==
  /\ MaxSockets \in Nat /\ MaxAttempts \in Nat
  /\ MaxRequests \in Nat /\ MaxFailures \in Nat

Sockets == 1..MaxSockets
Clients == 1..MaxRequests   \* a request makes at most one client object
NoClient == 0               \* mqttConnection is undefined, or {}
Stopped == -1               \* an interval that does not run

VARIABLES
  socket,           \* of each WebSocket: "none", "open" or "closed"
  clients,          \* handler.clients: the WebSockets broadcasts go to
  index,            \* the index that each close callback has kept
  front,            \* what each front end shows
  request,          \* the request each front end has under way
  mqttConnection,   \* the current client object, or NoClient
  link,             \* of each client object: "none", "trying", "up",
                    \* "closing" (ended when connected), "stopping" (ended
                    \* when not) or "gone"
  handlers,         \* how often onMqttMessage and disconnect are registered
  counter,          \* of the interval that each client object is awaited by
  reconnects,       \* timeouts of clear-mqtt that will call connect
  certificates,     \* the certificates have been uploaded
  cache,            \* handler.state: the content of each list
  queue,            \* the broadcast queue: a map from some Lists to entries
  requests, failures    \* bounded counters of the environment

webVars == <<socket, clients, index>>
mqttVars == <<mqttConnection, link, handlers, counter>>
dataVars == <<cache, queue>>
vars == <<webVars, front, request, mqttVars, reconnects, certificates,
          dataVars, requests, failures>>

Content == Contents \cup {Empty}

(* An entry of the queue refers to the array of its list.  resetState puts *)
(* a new array in the place of the list, and the entry keeps the old one.  *)
Entry == [data : Content, old : BOOLEAN]

(* status "null" is shown as "Connecting...".  fresh is history: the list  *)
(* shown was sent by the server, from the array that is still in its state.*)
(* So is ignored: the last request to connect was dropped by the server.   *)
Front == [status : {"yes", "no", "null"}, shown : [Lists -> Content],
          fresh : [Lists -> BOOLEAN], ignored : BOOLEAN]

Clearable == Lists \cap {"nodes-list", "groups", "ota"}
NoRequest == [type |-> "none"]

(* valid: mqtt.connect takes the options, the port is one and the          *)
(* certificates uploaded are PEM.                                          *)
Requests ==
  [type : {"connect"}, tls : BOOLEAN, valid : BOOLEAN]
    \cup [type : {"clear-mqtt"}, list : Clearable]
    \cup [type : {"disconnect", "get-smart-start-list", "fileUpload"}]

-----------------------------------------------------------------------------
(* What a front end does with a message.                                   *)

ResetFront(f) ==
  [f EXCEPT
     !.shown = [l \in Lists |-> IF l \in ResetByFront THEN Empty ELSE @[l]],
     !.fresh = [l \in Lists |-> l \notin ResetByFront /\ @[l]]]

handleIsConnectedChange(f, status) ==
  LET told == [f EXCEPT !.status = status, !.ignored = FALSE]
  IN IF status = "yes" THEN told ELSE ResetFront(told)

(* The lists of a map of entries, as in a broadcast of the queue.          *)
ShowLists(f, entries) ==
  [f EXCEPT
     !.shown = [l \in Lists |->
                  IF l \in DOMAIN entries THEN entries[l].data ELSE @[l]],
     !.fresh = [l \in Lists |->
                  IF l \in DOMAIN entries THEN ~entries[l].old ELSE @[l]]]

Present(some) == [l \in some |-> [data |-> cache[l], old |-> FALSE]]

ShowInitState(f) ==
  ShowLists(handleIsConnectedChange(f, "yes"), Present(Lists))

-----------------------------------------------------------------------------
(* The broadcasts of the server.                                           *)

Listed == {clients[i] : i \in DOMAIN clients}
Open == {c \in Sockets : socket[c] = "open"}
Reached == Listed \cap Open     \* sending on a closed WebSocket does nothing

SendConnect(fronts, status) ==
  [c \in Sockets |-> IF c \in Reached
                     THEN handleIsConnectedChange(fronts[c], status)
                     ELSE fronts[c]]
SendInitState(to) ==
  [c \in Sockets |-> IF c \in to THEN ShowInitState(front[c]) ELSE front[c]]
SendLists(entries) ==
  [c \in Sockets |-> IF c \in Reached THEN ShowLists(front[c], entries)
                     ELSE front[c]]

-----------------------------------------------------------------------------
(* The connection to the broker.                                           *)

(* mqttConnection && mqttConnection.connected                              *)
Connected == mqttConnection # NoClient /\ link[mqttConnection] \in {"up", "closing"}

resetState ==
  /\ cache' = [l \in Lists |-> IF l \in ResetByServer THEN Empty ELSE cache[l]]
  /\ queue' = [l \in DOMAIN queue |->
                 IF l \in ResetByServer THEN [queue[l] EXCEPT !.old = TRUE]
                 ELSE queue[l]]

(* What the front ends show of the lists that resetState replaces is no    *)
(* longer fresh; that they are told nothing yet is part of it.             *)
Outdated ==
  [c \in Sockets |->
     [front[c] EXCEPT !.fresh = [l \in Lists |-> l \notin ResetByServer /\ @[l]]]]

(* The server has thrown up the request of a front end, and says nothing.  *)
Ignoring(asked) ==
  [c \in Sockets |-> [Outdated[c] EXCEPT !.ignored = @ \/ c \in asked]]

(* Client objects are numbered in the order they are created.  A request   *)
(* creates at most one, so there is always an unused one.                  *)
Unused == {i \in Clients : link[i] = "none"}

(* asked: the front end that requests it, if one does.                     *)
connect(tls, valid, asked) ==
  \/ /\ Connected
     /\ front' = SendInitState(Reached)
     /\ UNCHANGED <<mqttVars, dataVars>>
  \/ /\ ~Connected
     /\ tls /\ ~certificates
     /\ resetState
     /\ front' = SendConnect(Outdated, "no")
     /\ UNCHANGED mqttVars
  \/ /\ ~Connected
     /\ tls => certificates
     /\ ~valid                \* mqtt.connect throws
     /\ resetState
     /\ front' = Ignoring(asked)
     /\ UNCHANGED mqttVars
  \/ /\ ~Connected
     /\ tls => certificates
     /\ valid
     /\ resetState
     /\ front' = Outdated
     /\ \E new \in Unused :
          /\ \A i \in Unused : new <= i
          /\ mqttConnection' = new
          /\ link' = [link EXCEPT ![new] = "trying"]
          /\ counter' = [counter EXCEPT ![new] = MaxAttempts]
     /\ UNCHANGED handlers

(* mqttConnection.end()                                                    *)
End ==
  /\ link' = [link EXCEPT ![mqttConnection] =
                CASE @ = "up" -> "closing"
                  [] @ = "trying" -> "stopping"
                  [] OTHER -> @]
  /\ UNCHANGED <<mqttConnection, handlers, counter>>

(* Mutant: running out of attempts is logged, and told to nobody.          *)
Tick_Silent(i) ==
  /\ counter[i] # Stopped
  /\ counter' = [counter EXCEPT ![i] = IF Connected THEN Stopped ELSE @ - 1]
  /\ \/ /\ Connected
        /\ handlers' = [handlers EXCEPT ![mqttConnection] = @ + 1]
        /\ front' = SendConnect(front, "yes")
        /\ UNCHANGED mqttConnection
     \/ /\ ~Connected
        /\ mqttConnection' = IF counter[i] = 0 THEN NoClient ELSE mqttConnection
        /\ UNCHANGED <<handlers, front>>
  /\ UNCHANGED <<webVars, request, link, reconnects, certificates, dataVars,
                 requests, failures>>

(* The callback of setInterval in connect.                                 *)
Tick(i) ==
  /\ counter[i] # Stopped
  /\ \/ /\ Connected
        /\ handlers' = [handlers EXCEPT ![mqttConnection] = @ + 1]
        /\ counter' = [counter EXCEPT ![i] = Stopped]
        /\ front' = SendConnect(front, "yes")
        /\ UNCHANGED mqttConnection
     \/ /\ ~Connected /\ counter[i] > 0
        /\ counter' = [counter EXCEPT ![i] = @ - 1]
        /\ UNCHANGED <<mqttConnection, handlers, front>>
     \/ /\ ~Connected /\ counter[i] = 0
        /\ mqttConnection' = NoClient
        /\ counter' = [counter EXCEPT ![i] = Stopped]
        /\ front' = SendConnect(front, "no")
        /\ UNCHANGED handlers
  /\ UNCHANGED <<webVars, request, link, reconnects, certificates, dataVars,
                 requests, failures>>

(* The timeout of clear-mqtt, with the options of the last connection.     *)
Reconnect ==
  /\ reconnects > 0
  /\ reconnects' = reconnects - 1
  /\ connect(FALSE, TRUE, {})
  /\ UNCHANGED <<webVars, request, certificates, requests, failures>>

(* Mutant: the loss of a connection is not broadcast.                      *)
disconnect_Silent(i) ==
  \/ handlers[i] > 0 /\ resetState /\ front' = Outdated
  \/ handlers[i] = 0 /\ UNCHANGED <<dataVars, front>>

(* Mutant: what was cached over a lost connection is kept.                 *)
disconnect_KeepsState(i) ==
  /\ front' = IF handlers[i] > 0 THEN SendConnect(front, "no") ELSE front
  /\ UNCHANGED dataVars

(* The handler of "close", if the client object has one.                   *)
disconnect(i) ==
  \/ /\ handlers[i] > 0
     /\ resetState
     /\ front' = SendConnect(Outdated, "no")
  \/ /\ handlers[i] = 0
     /\ UNCHANGED <<dataVars, front>>

-----------------------------------------------------------------------------
(* Events of the MQTT library.                                             *)

(* A client object connects, for the first time or again.  The server does *)
(* not listen to this event; the library subscribes again by itself.       *)
Connects(i) ==
  /\ link[i] = "trying"
  /\ link' = [link EXCEPT ![i] = "up"]
  /\ UNCHANGED <<webVars, front, request, mqttConnection, handlers, counter,
                 reconnects, certificates, dataVars, requests, failures>>

(* The connection is lost, or an attempt to connect again fails.           *)
Fails(i) ==
  /\ failures < MaxFailures
  /\ link[i] \in {"trying", "up"}
  /\ failures' = failures + 1
  /\ link' = [link EXCEPT ![i] = "trying"]
  /\ disconnect(i)
  /\ UNCHANGED <<webVars, request, mqttConnection, handlers, counter,
                 reconnects, certificates, requests>>

(* The connection that end() has ended is closed.                          *)
Closes(i) ==
  /\ link[i] \in {"closing", "stopping"}
  /\ link' = [link EXCEPT ![i] = "gone"]
  /\ disconnect(i)
  /\ UNCHANGED <<webVars, request, mqttConnection, handlers, counter,
                 reconnects, certificates, requests, failures>>

(* An empty message is passed over, or cannot be told from others, for the *)
(* lists that only grow.                                                   *)
MayBeEmptied == {"nodes-list", "smart-start-list", "groups", "ota", "upti-list"}

addToQueue(l, data) ==
  queue' = [t \in DOMAIN queue \cup {l} |->
              IF t = l THEN [data |-> data, old |-> FALSE] ELSE queue[t]]

(* Mutant: the handler of a message forgets to queue its list.             *)
onMqttMessage_Unqueued(i, l, v) ==
  /\ link[i] = "up" /\ handlers[i] > 0
  /\ v = Empty => l \in MayBeEmptied
  /\ cache' = [cache EXCEPT ![l] = v]
  /\ UNCHANGED <<webVars, front, request, mqttVars, reconnects, certificates,
                 queue, requests, failures>>

(* A message of a topic that list l shows.  Client objects that no handler *)
(* was registered with are not subscribed, and deliver to nobody.          *)
onMqttMessage(i, l, v) ==
  /\ link[i] = "up" /\ handlers[i] > 0
  /\ v = Empty => l \in MayBeEmptied
  /\ cache' = [cache EXCEPT ![l] = v]
  /\ addToQueue(l, v)
  /\ UNCHANGED <<webVars, front, request, mqttVars, reconnects, certificates,
                 requests, failures>>

(* A round of runQueueHandler.                                             *)
runQueueHandler ==
  /\ DOMAIN queue # {}
  /\ front' = SendLists(queue)
  /\ queue' = [l \in {} |-> [data |-> Empty, old |-> FALSE]]
  /\ UNCHANGED <<webVars, request, mqttVars, reconnects, certificates, cache,
                 requests, failures>>

-----------------------------------------------------------------------------
(* WebSockets and requests.                                                *)

(* Mutant: the index is looked up before the WebSocket is in the list.     *)
onRequest_IndexOf(c) ==
  /\ socket[c] = "none"
  /\ socket' = [socket EXCEPT ![c] = "open"]
  /\ clients' = Append(clients, c)
  /\ index' = [index EXCEPT ![c] = -1]
  /\ front' = IF Connected THEN SendInitState(Reached \cup {c})
              ELSE [front EXCEPT ![c] = handleIsConnectedChange(@, "no")]
  /\ UNCHANGED <<request, mqttVars, reconnects, certificates, dataVars,
                 requests, failures>>

(* A WebSocket is accepted, and its front end sees it open.                *)
onRequest(c) ==
  /\ socket[c] = "none"
  /\ \A d \in Sockets : d < c => socket[d] # "none"
  /\ socket' = [socket EXCEPT ![c] = "open"]
  /\ clients' = Append(clients, c)
  /\ index' = [index EXCEPT ![c] = Len(clients)]
  /\ \/ /\ Connected
        /\ front' = SendInitState(Reached \cup {c})
     \/ /\ ~Connected
        /\ front' = [front EXCEPT ![c] = handleIsConnectedChange(@, "no")]
  /\ UNCHANGED <<request, mqttVars, reconnects, certificates, dataVars,
                 requests, failures>>

(* Mutant: splice(index), which removes everything from there.             *)
Splice_ToEnd(s, k) == SubSeq(s, 1, k)

(* handler.clients.splice(index, 1): index counts from 0, and an index     *)
(* beyond the end removes nothing.                                         *)
Splice(s, k) ==
  IF k < Len(s) THEN SubSeq(s, 1, k) \o SubSeq(s, k + 2, Len(s)) ELSE s

(* A browser leaves, or loses its network.                                 *)
CloseSocket(c) ==
  /\ socket[c] = "open"
  /\ socket' = [socket EXCEPT ![c] = "closed"]
  /\ clients' = Splice(clients, index[c])
  /\ front' = [front EXCEPT ![c] = handleIsConnectedChange(@, "null")]
  /\ request' = [request EXCEPT ![c] = NoRequest]
  /\ UNCHANGED <<index, mqttVars, reconnects, certificates, dataVars,
                 requests, failures>>

(* The user clicks.  Connect is offered when the front end shows that it   *)
(* is disconnected, Disconnect and Clear when it shows that it is          *)
(* connected.  One request of a front end is under way at a time.          *)
Click(c, r) ==
  /\ requests < MaxRequests
  /\ socket[c] = "open" /\ request[c] = NoRequest
  /\ r.type = "connect" => front[c].status = "no"
  /\ r.type \in {"disconnect", "clear-mqtt"} => front[c].status = "yes"
  /\ request' = [request EXCEPT ![c] = r]
  /\ requests' = requests + 1
  /\ front' = IF r.type = "connect"
              THEN [front EXCEPT ![c] = handleIsConnectedChange(@, "null")]
              ELSE front
  /\ UNCHANGED <<webVars, mqttVars, reconnects, certificates, dataVars,
                 failures>>

(* The lists that clear-mqtt has something to publish for.  Publishing     *)
(* then throws a ReferenceError, as handler.js has no mqttConnection, and  *)
(* so does ending a connection that is not there: nothing more is done.    *)
ClearThrows(l) == cache[l] # Empty \/ mqttConnection = NoClient

(* The callback of "message" of a WebSocket.  Requests that only publish   *)
(* are left out.                                                           *)
onMessage(c) ==
  LET r == request[c]
  IN
  /\ r # NoRequest
  /\ request' = [request EXCEPT ![c] = NoRequest]
  /\ \/ /\ r.type = "connect"
        /\ connect(r.tls, r.valid, {c})
        /\ UNCHANGED <<reconnects, certificates>>
     \/ /\ r.type = "disconnect"
        /\ IF mqttConnection = NoClient THEN UNCHANGED mqttVars ELSE End
        /\ UNCHANGED <<front, reconnects, certificates, dataVars>>
     \/ /\ r.type = "clear-mqtt" /\ ~ClearThrows(r.list)
        /\ End
        /\ reconnects' = reconnects + 1
        /\ UNCHANGED <<front, certificates, dataVars>>
     \/ /\ r.type = "clear-mqtt" /\ ClearThrows(r.list)
        /\ UNCHANGED <<front, mqttVars, reconnects, certificates, dataVars>>
     \/ /\ r.type = "get-smart-start-list"
        /\ front' = SendLists(Present(Lists \cap {"smart-start-list"}))
        /\ UNCHANGED <<mqttVars, reconnects, certificates, dataVars>>
     \/ /\ r.type = "fileUpload"
        /\ certificates' = TRUE
        /\ UNCHANGED <<front, mqttVars, reconnects, dataVars>>
  /\ UNCHANGED <<webVars, requests, failures>>

-----------------------------------------------------------------------------
Init ==
  /\ socket = [c \in Sockets |-> "none"]
  /\ clients = <<>>
  /\ index = [c \in Sockets |-> 0]
  /\ front = [c \in Sockets |->
                [status |-> "null", shown |-> [l \in Lists |-> Empty],
                 fresh |-> [l \in Lists |-> FALSE], ignored |-> FALSE]]
  /\ request = [c \in Sockets |-> NoRequest]
  /\ mqttConnection = NoClient
  /\ link = [i \in Clients |-> "none"]
  /\ handlers = [i \in Clients |-> 0]
  /\ counter = [i \in Clients |-> Stopped]
  /\ reconnects = 0
  /\ certificates = FALSE
  /\ cache = [l \in Lists |-> Empty]
  /\ queue = [l \in {} |-> [data |-> Empty, old |-> FALSE]]
  /\ requests = 0
  /\ failures = 0

Next ==
  \/ \E c \in Sockets : onRequest(c) \/ CloseSocket(c) \/ onMessage(c)
  \/ \E c \in Sockets : \E r \in Requests : Click(c, r)
  \/ \E i \in Clients : Tick(i) \/ Connects(i) \/ Fails(i) \/ Closes(i)
  \/ \E i \in Clients : \E l \in Lists : \E v \in Content : onMqttMessage(i, l, v)
  \/ runQueueHandler
  \/ Reconnect

(* What a browser sends arrives unless its WebSocket closes; intervals,    *)
(* timeouts and the queue handler are timers of the event loop.  Nothing   *)
(* is assumed of browsers, of the network and of the broker.               *)
Fairness ==
  /\ \A c \in Sockets : WF_vars(onMessage(c))
  /\ \A i \in Clients : WF_vars(Tick(i)) /\ WF_vars(Closes(i))
  /\ WF_vars(runQueueHandler)
  /\ WF_vars(Reconnect)

Spec == Init /\ [][Next]_vars /\ Fairness

-----------------------------------------------------------------------------
TypeOK ==
  /\ socket \in [Sockets -> {"none", "open", "closed"}]
  /\ clients \in Seq(Sockets)
  /\ index \in [Sockets -> Nat]
  /\ front \in [Sockets -> Front]
  /\ request \in [Sockets -> Requests \cup {NoRequest}]
  /\ mqttConnection \in Clients \cup {NoClient}
  /\ link \in [Clients -> {"none", "trying", "up", "closing", "stopping", "gone"}]
  /\ handlers \in [Clients -> Nat]
  /\ counter \in [Clients -> 0..MaxAttempts \cup {Stopped}]
  /\ reconnects \in Nat
  /\ certificates \in BOOLEAN
  /\ cache \in [Lists -> Content]
  /\ DOMAIN queue \subseteq Lists
  /\ queue \in [DOMAIN queue -> Entry]
  /\ requests \in 0..MaxRequests
  /\ failures \in 0..MaxFailures

(* The queue loses no update: where the list a front end shows was sent    *)
(* from the array the server has now, it is as cached or the queue holds   *)
(* it (addToQueue, runQueueHandler, sendToAll).  This says nothing of a    *)
(* list the front end has reset by itself, or shows from an array that     *)
(* resetState has replaced since: those differ from the cache.             *)
NoLostUpdate ==
  \A c \in Reached, l \in Lists :
    front[c].fresh[l] /\ l \notin DOMAIN queue => front[c].shown[l] = cache[l]

(* A front end that shows "Connected" and still gets the broadcasts is     *)
(* right, or an attempt is under way whose end it will be told: every way  *)
(* a connection goes down, or is replaced, announces it (connect,          *)
(* disconnect, clear-mqtt).                                                *)
ConnectedIsTrue ==
  \A c \in Reached :
    front[c].status = "yes" => Connected \/ \E i \in Clients : counter[i] # Stopped

(* Nothing of a dead connection stays cached: a list that resetState       *)
(* empties has a content only while a client object with handlers is       *)
(* connected, also when several of them are alive (connect, disconnect).   *)
CacheIsLive ==
  \A l \in Lists \cap ResetByServer :
    cache[l] # Empty =>
      \E i \in Clients : handlers[i] > 0 /\ link[i] \in {"up", "closing"}

(* For every open WebSocket that clients has lost, it keeps a closed one:  *)
(* an index that is out of date when a WebSocket closes removes another    *)
(* entry (onRequest), never more than one.                                 *)
MissedMeansLeaked ==
  Cardinality(Open \ Listed) <= Cardinality(Listed \ Open)

(* A front end that shows "Connecting..." is told the result, unless its   *)
(* WebSocket closes, clients has lost it, or its options made mqtt.connect *)
(* throw, whatever other front ends request in the meantime and whoever    *)
(* replaces mqttConnection (connect).  After the throw nobody is told.     *)
Answered ==
  \A c \in Sockets :
    (c \in Open /\ front[c].status = "null")
      ~> (front[c].status # "null" \/ c \notin Reached \/ front[c].ignored)
=============================================================================
