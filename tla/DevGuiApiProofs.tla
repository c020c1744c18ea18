--------------------------- MODULE DevGuiApiProofs ---------------------------
(* The server of the Developer GUI never loses an update, keeps nothing of *)
(* a dead connection and announces every end of one, for all lists and     *)
(* contents and any number of WebSockets, requests and failures.           *)
EXTENDS DevGuiApi, SequenceTheorems, FiniteSetTheorems, TLAPS

USE ListAssumption, BoundAssumption

Statuses == {"yes", "no", "null"}

-----------------------------------------------------------------------------
(* What a front end does with a message.                                   *)

LEMMA StatusFacts ==
  ASSUME NEW f \in Front, NEW s \in Statuses
  PROVE  LET g == handleIsConnectedChange(f, s)
         IN /\ g \in Front
            /\ g.status = s
            /\ \A l \in Lists :
                 g.fresh[l] => f.fresh[l] /\ g.shown[l] = f.shown[l]
<1>1. ResetFront([f EXCEPT !.status = s, !.ignored = FALSE]) \in Front
  BY DEF Front, ResetFront, Statuses, Content
<1>2. [f EXCEPT !.status = s, !.ignored = FALSE] \in Front
  BY DEF Front, Statuses
<1>3. QED
  BY <1>1, <1>2 DEF handleIsConnectedChange, ResetFront, Front, Statuses

LEMMA ListsFacts ==
  ASSUME NEW f \in Front, NEW S \in SUBSET Lists, NEW E \in [S -> Entry]
  PROVE  LET g == ShowLists(f, E)
         IN /\ g \in Front
            /\ g.status = f.status
            /\ \A l \in S : g.shown[l] = E[l].data /\ g.fresh[l] = ~E[l].old
            /\ \A l \in Lists \ S :
                 g.shown[l] = f.shown[l] /\ g.fresh[l] = f.fresh[l]
<1>1. DOMAIN E = S
  OBVIOUS
<1>2. \A l \in S : E[l].data \in Content /\ E[l].old \in BOOLEAN
  BY DEF Entry
<1>3. ShowLists(f, E) \in Front
  BY <1>1, <1>2 DEF Front, ShowLists
<1>4. QED
  BY <1>1, <1>3 DEF Front, ShowLists

LEMMA PresentFacts ==
  ASSUME TypeOK, NEW S \in SUBSET Lists
  PROVE  /\ Present(S) \in [S -> Entry]
         /\ \A l \in S : Present(S)[l].data = cache[l] /\ ~Present(S)[l].old
BY DEF TypeOK, Present, Entry

LEMMA InitStateFacts ==
  ASSUME TypeOK, NEW f \in Front
  PROVE  /\ ShowInitState(f) \in Front
         /\ ShowInitState(f).status = "yes"
         /\ \A l \in Lists : ShowInitState(f).shown[l] = cache[l]
<1> DEFINE g == handleIsConnectedChange(f, "yes")
<1>1. g \in Front /\ g.status = "yes"
  BY StatusFacts DEF Statuses
<1>2. /\ Present(Lists) \in [Lists -> Entry]
      /\ \A l \in Lists : Present(Lists)[l].data = cache[l]
  BY PresentFacts
<1> HIDE DEF g
<1>3. /\ ShowLists(g, Present(Lists)) \in Front
      /\ ShowLists(g, Present(Lists)).status = "yes"
      /\ \A l \in Lists :
           ShowLists(g, Present(Lists)).shown[l] = Present(Lists)[l].data
  BY <1>1, <1>2, ListsFacts
<1>4. QED
  BY <1>2, <1>3 DEF ShowInitState, g

-----------------------------------------------------------------------------
(* The broadcasts.  Keeps(g, f): what is fresh in g was so in f.           *)

Keeps(g, f) ==
  \A c \in Sockets, l \in Lists :
    g[c].fresh[l] => f[c].fresh[l] /\ g[c].shown[l] = f[c].shown[l]

LEMMA ReachedFacts == Reached \subseteq Sockets
BY DEF Reached, Open

LEMMA SendConnectFacts ==
  ASSUME NEW fronts \in [Sockets -> Front], NEW s \in Statuses
  PROVE  /\ SendConnect(fronts, s) \in [Sockets -> Front]
         /\ Keeps(SendConnect(fronts, s), fronts)
         /\ \A c \in Reached : SendConnect(fronts, s)[c].status = s
BY StatusFacts, ReachedFacts DEF SendConnect, Keeps

LEMMA SendInitFacts ==
  ASSUME TypeOK, NEW to \in SUBSET Sockets
  PROVE  /\ SendInitState(to) \in [Sockets -> Front]
         /\ \A c \in to : /\ SendInitState(to)[c].status = "yes"
                          /\ \A l \in Lists : SendInitState(to)[c].shown[l] = cache[l]
         /\ \A c \in Sockets \ to : SendInitState(to)[c] = front[c]
<1>1. front \in [Sockets -> Front]
  BY DEF TypeOK
<1>2. QED
  BY <1>1, InitStateFacts DEF SendInitState

(* Front end f shows the entries E of the lists S, and is g now.           *)
ShowsLists(g, f, S, E) ==
  /\ \A l \in S : g.shown[l] = E[l].data /\ g.fresh[l] = ~E[l].old
  /\ \A l \in Lists \ S : g.shown[l] = f.shown[l] /\ g.fresh[l] = f.fresh[l]

LEMMA SendListsFacts ==
  ASSUME TypeOK, NEW S \in SUBSET Lists, NEW E \in [S -> Entry]
  PROVE  /\ SendLists(E) \in [Sockets -> Front]
         /\ \A c \in Sockets : SendLists(E)[c].status = front[c].status
         /\ \A c \in Sockets \ Reached : SendLists(E)[c] = front[c]
         /\ \A c \in Reached : ShowsLists(SendLists(E)[c], front[c], S, E)
<1>1. front \in [Sockets -> Front]
  BY DEF TypeOK
<1>2. \A c \in Sockets \ Reached : SendLists(E)[c] = front[c]
  BY DEF SendLists
<1>3. \A c \in Sockets : LET g == ShowLists(front[c], E)
                        IN g \in Front /\ g.status = front[c].status
  BY <1>1, ListsFacts
<1>4. SendLists(E) \in [Sockets -> Front]
  BY <1>1, <1>3 DEF SendLists
<1>5. ASSUME NEW c \in Reached
      PROVE  ShowsLists(SendLists(E)[c], front[c], S, E)
  <2>1. c \in Sockets /\ front[c] \in Front
    BY <1>1, ReachedFacts
  <2>2. SendLists(E)[c] = ShowLists(front[c], E)
    BY <2>1 DEF SendLists
  <2>3. QED
    BY <2>1, <2>2, ListsFacts DEF ShowsLists
<1>6. \A c \in Sockets : SendLists(E)[c].status = front[c].status
  BY <1>3 DEF SendLists
<1>7. QED
  BY <1>2, <1>4, <1>5, <1>6

LEMMA OutdatedFacts ==
  ASSUME TypeOK
  PROVE  /\ Outdated \in [Sockets -> Front]
         /\ Keeps(Outdated, front)
         /\ \A c \in Sockets : Outdated[c].status = front[c].status
         /\ \A c \in Sockets : \A l \in Lists \cap ResetByServer : ~Outdated[c].fresh[l]
<1>1. front \in [Sockets -> Front]
  BY DEF TypeOK
<1>2. QED
  BY <1>1 DEF Outdated, Keeps, Front

LEMMA IgnoringFacts ==
  ASSUME TypeOK, NEW asked
  PROVE  /\ Ignoring(asked) \in [Sockets -> Front]
         /\ Keeps(Ignoring(asked), Outdated)
         /\ \A c \in Sockets : Ignoring(asked)[c].status = front[c].status
<1>1. \A c \in Sockets : Outdated[c] \in Front /\ Outdated[c].status = front[c].status
  BY OutdatedFacts
<1>2. ASSUME NEW c \in Sockets
      PROVE  LET g == Ignoring(asked)[c]
                 f == Outdated[c]
             IN /\ g \in Front /\ g.status = f.status
                /\ g.fresh = f.fresh /\ g.shown = f.shown
  <2>1. PICK b \in BOOLEAN : Ignoring(asked)[c] = [Outdated[c] EXCEPT !.ignored = b]
    BY DEF Ignoring
  <2>2. QED
    BY <1>1, <2>1 DEF Front
<1>3. QED
  BY <1>1, <1>2 DEF Keeps, Ignoring

-----------------------------------------------------------------------------
(* The type invariant.                                                     *)

LEMMA ResetType ==
  ASSUME TypeOK, resetState
  PROVE  /\ cache' \in [Lists -> Content]
         /\ DOMAIN queue' \subseteq Lists
         /\ queue' \in [DOMAIN queue' -> Entry]
<1>1. DOMAIN queue' = DOMAIN queue
  BY DEF resetState
<1>2. \A l \in DOMAIN queue : queue'[l] \in Entry
  BY DEF TypeOK, resetState, Entry
<1>3. cache' \in [Lists -> Content]
  BY DEF TypeOK, resetState, Content
<1>4. queue' \in [DOMAIN queue -> Entry]
  BY <1>2 DEF resetState
<1>5. QED
  BY <1>1, <1>3, <1>4 DEF TypeOK

DataOK ==
  /\ cache \in [Lists -> Content]
  /\ DOMAIN queue \subseteq Lists
  /\ queue \in [DOMAIN queue -> Entry]

MqttOK ==
  /\ mqttConnection \in Clients \cup {NoClient}
  /\ link \in [Clients -> {"none", "trying", "up", "closing", "stopping", "gone"}]
  /\ handlers \in [Clients -> Nat]
  /\ counter \in [Clients -> 0..MaxAttempts \cup {Stopped}]

FrontOK == front \in [Sockets -> Front]

LEMMA ReachedOK == Reached \in SUBSET Sockets
BY ReachedFacts

LEMMA ConnectType ==
  ASSUME TypeOK, NEW tls \in BOOLEAN,
         NEW valid, NEW asked, connect(tls, valid, asked)
  PROVE  DataOK' /\ MqttOK' /\ FrontOK'
<1>1. CASE Connected /\ front' = SendInitState(Reached) /\ UNCHANGED <<mqttVars, dataVars>>
  BY <1>1, SendInitFacts, ReachedOK DEF TypeOK, DataOK, MqttOK, FrontOK, mqttVars, dataVars
<1>2. CASE resetState /\ front' = SendConnect(Outdated, "no") /\ UNCHANGED mqttVars
  <2>1. SendConnect(Outdated, "no") \in [Sockets -> Front]
    BY OutdatedFacts, SendConnectFacts DEF Statuses
  <2>2. QED
    BY <1>2, <2>1, ResetType DEF TypeOK, DataOK, MqttOK, FrontOK, mqttVars
<1>3. ASSUME resetState, front' = Outdated, UNCHANGED handlers,
             NEW new \in Unused,
             mqttConnection' = new,
             link' = [link EXCEPT ![new] = "trying"],
             counter' = [counter EXCEPT ![new] = MaxAttempts]
      PROVE  DataOK' /\ MqttOK' /\ FrontOK'
  <2>1. FrontOK' /\ DataOK'
    BY <1>3, OutdatedFacts, ResetType DEF FrontOK, DataOK
  <2>2. MqttOK'
    BY <1>3 DEF TypeOK, MqttOK, Unused
  <2>3. QED
    BY <2>1, <2>2
<1>4. CASE resetState /\ front' = Ignoring(asked) /\ UNCHANGED mqttVars
  BY <1>4, IgnoringFacts, ResetType DEF TypeOK, DataOK, MqttOK, FrontOK, mqttVars
<1>5. QED
  BY <1>1, <1>2, <1>3, <1>4 DEF connect

LEMMA DisconnectType ==
  ASSUME TypeOK, NEW i \in Clients, disconnect(i)
  PROVE  DataOK' /\ FrontOK'
<1>1. CASE resetState /\ front' = SendConnect(Outdated, "no")
  BY <1>1, OutdatedFacts, SendConnectFacts, ResetType DEF Statuses, DataOK, FrontOK
<1>2. CASE UNCHANGED <<dataVars, front>>
  BY <1>2 DEF TypeOK, DataOK, FrontOK, dataVars
<1>3. QED
  BY <1>1, <1>2 DEF disconnect

LEMMA EndType ==
  ASSUME TypeOK, mqttConnection # NoClient, End
  PROVE  MqttOK'
BY DEF TypeOK, MqttOK, End

LEMMA SpliceType ==
  ASSUME NEW s \in Seq(Sockets), NEW k \in Nat
  PROVE  Splice(s, k) \in Seq(Sockets)
<1>1. CASE k < Len(s)
  <2>1. SubSeq(s, 1, k) \in Seq(Sockets) /\ SubSeq(s, k + 2, Len(s)) \in Seq(Sockets)
    BY <1>1, SubSeqProperties
  <2>2. QED
    BY <1>1, <2>1, ConcatProperties DEF Splice
<1>2. CASE ~(k < Len(s))
  BY <1>2 DEF Splice
<1>3. QED
  BY <1>1, <1>2

LEMMA TypeStep ==
  ASSUME TypeOK, [Next]_vars
  PROVE  TypeOK'
<1> USE DEF vars, webVars, mqttVars, dataVars
<1>1. ASSUME NEW c \in Sockets, onRequest(c)
      PROVE  TypeOK'
  <2>1. front' \in [Sockets -> Front]
    <3>1. CASE front' = SendInitState(Reached \cup {c})
      BY <3>1, SendInitFacts, ReachedOK
    <3>2. CASE front' = [front EXCEPT ![c] = handleIsConnectedChange(@, "no")]
      BY <3>2, StatusFacts DEF TypeOK, Statuses
    <3>3. QED
      BY <1>1, <3>1, <3>2 DEF onRequest
  <2>2. clients' \in Seq(Sockets)
    BY <1>1, AppendProperties DEF onRequest, TypeOK
  <2>3. index' \in [Sockets -> Nat] /\ socket' \in [Sockets -> {"none", "open", "closed"}]
    BY <1>1, LenProperties DEF onRequest, TypeOK
  <2>4. QED
    BY <1>1, <2>1, <2>2, <2>3 DEF onRequest, TypeOK
<1>2. ASSUME NEW c \in Sockets, CloseSocket(c)
      PROVE  TypeOK'
  <2>1. front' \in [Sockets -> Front]
    BY <1>2, StatusFacts DEF TypeOK, Statuses, CloseSocket
  <2>2. clients' \in Seq(Sockets)
    BY <1>2, SpliceType DEF CloseSocket, TypeOK
  <2>3. QED
    BY <1>2, <2>1, <2>2 DEF CloseSocket, TypeOK
<1>3. ASSUME NEW c \in Sockets, onMessage(c)
      PROVE  TypeOK'
  <2>1. DataOK' /\ MqttOK' /\ FrontOK' /\ reconnects' \in Nat /\ certificates' \in BOOLEAN
    <3> DEFINE r == request[c]
    <3>0. r \in Requests \cup {NoRequest}
      BY DEF TypeOK
    <3>1. CASE r.type = "connect" /\ connect(r.tls, r.valid, {c}) /\ UNCHANGED <<reconnects, certificates>>
      <4>1. r.tls \in BOOLEAN
        BY <3>0, <3>1 DEF Requests, NoRequest
      <4>2. QED
        BY <3>1, <4>1, ConnectType DEF TypeOK
    <3>2. CASE /\ IF mqttConnection = NoClient THEN UNCHANGED mqttVars ELSE End
               /\ UNCHANGED <<front, reconnects, certificates, dataVars>>
      BY <3>2, EndType DEF TypeOK, DataOK, MqttOK, FrontOK
    <3>3. CASE /\ ~ClearThrows(r.list) /\ End
               /\ reconnects' = reconnects + 1
               /\ UNCHANGED <<front, certificates, dataVars>>
      <4>1. mqttConnection # NoClient
        BY <3>3 DEF ClearThrows
      <4>2. MqttOK'
        BY <3>3, <4>1, EndType
      <4>3. QED
        BY <3>3, <4>2 DEF TypeOK, DataOK, FrontOK
    <3>4. CASE UNCHANGED <<front, mqttVars, reconnects, certificates, dataVars>>
      BY <3>4 DEF TypeOK, DataOK, MqttOK, FrontOK
    <3>5. CASE /\ front' = SendLists(Present(Lists \cap {"smart-start-list"}))
               /\ UNCHANGED <<mqttVars, reconnects, certificates, dataVars>>
      <4>1. front' \in [Sockets -> Front]
        BY <3>5, PresentFacts, SendListsFacts
      <4>2. QED
        BY <3>5, <4>1 DEF TypeOK, DataOK, MqttOK, FrontOK
    <3>6. CASE /\ certificates' = TRUE
               /\ UNCHANGED <<front, mqttVars, reconnects, dataVars>>
      BY <3>6 DEF TypeOK, DataOK, MqttOK, FrontOK
    <3>7. QED
      BY <1>3, <3>1, <3>2, <3>3, <3>4, <3>5, <3>6 DEF onMessage
  <2>2. request' \in [Sockets -> Requests \cup {NoRequest}]
    BY <1>3 DEF onMessage, TypeOK
  <2>3. UNCHANGED <<webVars, requests, failures>>
    BY <1>3 DEF onMessage
  <2>4. QED
    BY <2>1, <2>2, <2>3 DEF TypeOK, DataOK, MqttOK, FrontOK
<1>4. ASSUME NEW c \in Sockets, NEW r \in Requests, Click(c, r)
      PROVE  TypeOK'
  <2>1. front' \in [Sockets -> Front]
    BY <1>4, StatusFacts DEF TypeOK, Statuses, Click
  <2>2. QED
    BY <1>4, <2>1 DEF Click, TypeOK
<1>5. ASSUME NEW i \in Clients, Tick(i)
      PROVE  TypeOK'
  <2>1. front' \in [Sockets -> Front]
    BY <1>5, SendConnectFacts DEF TypeOK, Statuses, Tick
  <2>2. handlers' \in [Clients -> Nat]
    <3>1. CASE Connected /\ handlers' = [handlers EXCEPT ![mqttConnection] = @ + 1]
      BY <3>1 DEF TypeOK, Connected
    <3>2. CASE UNCHANGED handlers
      BY <3>2 DEF TypeOK
    <3>3. QED
      BY <1>5, <3>1, <3>2 DEF Tick
  <2>3. counter' \in [Clients -> 0..MaxAttempts \cup {Stopped}]
    <3>1. counter[i] \in 0..MaxAttempts
      BY <1>5 DEF Tick, TypeOK
    <3>2. CASE counter' = [counter EXCEPT ![i] = Stopped]
      BY <3>2 DEF TypeOK
    <3>3. CASE counter[i] > 0 /\ counter' = [counter EXCEPT ![i] = @ - 1]
      BY <3>1, <3>3 DEF TypeOK
    <3>4. QED
      BY <1>5, <3>2, <3>3 DEF Tick
  <2>4. QED
    BY <1>5, <2>1, <2>2, <2>3 DEF Tick, TypeOK
<1>6. ASSUME NEW i \in Clients, Connects(i)
      PROVE  TypeOK'
  BY <1>6 DEF Connects, TypeOK
<1>7. ASSUME NEW i \in Clients, Fails(i)
      PROVE  TypeOK'
  BY <1>7, DisconnectType DEF Fails, TypeOK, DataOK, FrontOK
<1>8. ASSUME NEW i \in Clients, Closes(i)
      PROVE  TypeOK'
  BY <1>8, DisconnectType DEF Closes, TypeOK, DataOK, FrontOK
<1>9. ASSUME NEW i \in Clients, NEW l \in Lists, NEW v \in Content, onMqttMessage(i, l, v)
      PROVE  TypeOK'
  <2>1. DOMAIN queue' = DOMAIN queue \cup {l}
    BY <1>9 DEF onMqttMessage, addToQueue
  <2> DEFINE e(t) == IF t = l THEN [data |-> v, old |-> FALSE] ELSE queue[t]
  <2>2. \A t \in DOMAIN queue \cup {l} : e(t) \in Entry
    BY DEF TypeOK, Entry
  <2>a. queue' = [t \in DOMAIN queue \cup {l} |-> e(t)]
    BY <1>9 DEF onMqttMessage, addToQueue
  <2>3. queue' \in [DOMAIN queue \cup {l} -> Entry]
    <3> HIDE DEF e
    <3>1. QED
      BY <2>2, <2>a
  <2>4. QED
    BY <1>9, <2>1, <2>3 DEF onMqttMessage, TypeOK
<1>10. ASSUME runQueueHandler
       PROVE  TypeOK'
  <2>1. front' \in [Sockets -> Front]
    BY <1>10, SendListsFacts DEF runQueueHandler, TypeOK
  <2>2. DOMAIN queue' = {} /\ queue' \in [{} -> Entry]
    BY <1>10 DEF runQueueHandler
  <2>3. QED
    BY <1>10, <2>1, <2>2 DEF runQueueHandler, TypeOK
<1>11. ASSUME Reconnect
       PROVE  TypeOK'
  <2>1. DataOK' /\ MqttOK' /\ FrontOK'
    BY <1>11, ConnectType DEF Reconnect
  <2>2. reconnects' \in Nat
    BY <1>11 DEF Reconnect, TypeOK
  <2>3. QED
    BY <1>11, <2>1, <2>2 DEF Reconnect, TypeOK, DataOK, MqttOK, FrontOK
<1>12. CASE UNCHANGED vars
  BY <1>12 DEF TypeOK
<1>13. QED
  BY <1>1, <1>2, <1>3, <1>4, <1>5, <1>6, <1>7, <1>8, <1>9, <1>10, <1>11, <1>12
  DEF Next

LEMMA TypeInit == Init => TypeOK
<1> SUFFICES ASSUME Init PROVE TypeOK
  OBVIOUS
<1>1. clients \in Seq(Sockets)
  BY DEF Init
<1>2. front \in [Sockets -> Front]
  BY DEF Init, Front, Content
<1>3. DataOK
  <2>1. DOMAIN queue = {} /\ queue \in [{} -> Entry]
    BY DEF Init
  <2>2. cache \in [Lists -> Content]
    BY DEF Init, Content
  <2>3. QED
    BY <2>1, <2>2 DEF DataOK
<1>4. MqttOK
  BY DEF Init, MqttOK
<1>5. /\ socket \in [Sockets -> {"none", "open", "closed"}]
      /\ index \in [Sockets -> Nat]
      /\ request \in [Sockets -> Requests \cup {NoRequest}]
  BY DEF Init
<1>6. reconnects \in Nat /\ requests \in 0..MaxRequests /\ failures \in 0..MaxFailures
  BY DEF Init
<1>7. certificates \in BOOLEAN
  BY Zenon DEF Init
<1>8. QED
  BY <1>1, <1>2, <1>3, <1>4, <1>5, <1>6, <1>7 DEF DataOK, MqttOK, TypeOK

-----------------------------------------------------------------------------
(* No update is lost.  An entry of the queue is what is cached, unless its *)
(* list has been reset; a WebSocket that is not yet accepted is in no list *)
(* and its front end shows nothing that it was sent.                       *)

QueueTrue ==
  \A l \in DOMAIN queue : ~queue[l].old => queue[l].data = cache[l]

Newborn ==
  \A c \in Sockets : socket[c] = "none" =>
    c \notin Listed /\ \A l \in Lists : ~front[c].fresh[l]

DataInv == QueueTrue /\ Newborn /\ NoLostUpdate

LEMMA ReachedSame ==
  ASSUME UNCHANGED webVars
  PROVE  Reached' = Reached /\ Listed' = Listed /\ socket' = socket
BY DEF webVars, Reached, Listed, Open

LEMMA KeepsStep ==
  ASSUME TypeOK, DataInv, UNCHANGED webVars, UNCHANGED dataVars, Keeps(front', front)
  PROVE  DataInv'
<1>1. QueueTrue' /\ queue' = queue /\ cache' = cache
  BY DEF DataInv, QueueTrue, dataVars
<1>2. Newborn'
  BY ReachedSame DEF DataInv, Newborn, Keeps
<1>3. NoLostUpdate'
  BY <1>1, ReachedSame, ReachedFacts DEF DataInv, NoLostUpdate, Keeps
<1>4. QED
  BY <1>1, <1>2, <1>3 DEF DataInv

LEMMA ResetStep ==
  ASSUME TypeOK, DataInv, UNCHANGED webVars, resetState, Keeps(front', Outdated)
  PROVE  DataInv'
<1>1. /\ DOMAIN queue' = DOMAIN queue
      /\ \A l \in DOMAIN queue : l \in ResetByServer => queue'[l].old
      /\ \A l \in DOMAIN queue : l \notin ResetByServer => queue'[l] = queue[l]
      /\ \A l \in Lists \ ResetByServer : cache'[l] = cache[l]
  BY DEF resetState, TypeOK, Entry
<1>2. QueueTrue'
  BY <1>1 DEF DataInv, QueueTrue, TypeOK
<1>3. Newborn'
  BY ReachedSame, OutdatedFacts DEF DataInv, Newborn, Keeps
<1>4. NoLostUpdate'
  <2>1. SUFFICES ASSUME NEW c \in Reached, NEW l \in Lists,
                        front'[c].fresh[l], l \notin DOMAIN queue
                 PROVE  front'[c].shown[l] = cache'[l]
    BY <1>1, ReachedSame DEF NoLostUpdate
  <2>2. c \in Sockets
    BY ReachedFacts
  <2>3. Outdated[c].fresh[l] /\ front'[c].shown[l] = Outdated[c].shown[l]
    BY <2>1, <2>2 DEF Keeps
  <2>4. front[c].fresh[l] /\ Outdated[c].shown[l] = front[c].shown[l]
    BY <2>2, <2>3, OutdatedFacts DEF Keeps
  <2>5. l \notin ResetByServer
    BY <2>2, <2>3, OutdatedFacts
  <2>6. QED
    BY <1>1, <2>1, <2>3, <2>4, <2>5 DEF DataInv, NoLostUpdate
<1>5. QED
  BY <1>2, <1>3, <1>4 DEF DataInv

LEMMA KeepsSelf == ASSUME NEW f PROVE Keeps(f, f)
BY DEF Keeps

LEMMA ConnectData ==
  ASSUME TypeOK, DataInv, UNCHANGED webVars, NEW tls \in BOOLEAN,
         NEW valid, NEW asked, connect(tls, valid, asked)
  PROVE  DataInv'
<1>1. CASE front' = SendInitState(Reached) /\ UNCHANGED dataVars
  <2>1. QueueTrue' /\ queue' = queue /\ cache' = cache
    BY <1>1 DEF DataInv, QueueTrue, dataVars
  <2>2. Newborn'
    <3>1. SUFFICES ASSUME NEW c \in Sockets, socket[c] = "none"
                   PROVE  c \notin Listed /\ \A l \in Lists : ~front'[c].fresh[l]
      BY ReachedSame DEF Newborn
    <3>2. c \notin Reached
      BY <3>1 DEF Reached, Open
    <3>3. front'[c] = front[c]
      BY <1>1, <3>2, SendInitFacts, ReachedOK
    <3>4. QED
      BY <3>1, <3>3 DEF DataInv, Newborn
  <2>3. NoLostUpdate'
    BY <1>1, <2>1, ReachedSame, ReachedOK, SendInitFacts DEF NoLostUpdate
  <2>4. QED
    BY <2>1, <2>2, <2>3 DEF DataInv
<1>2. CASE resetState /\ front' = SendConnect(Outdated, "no")
  BY <1>2, ResetStep, SendConnectFacts, OutdatedFacts DEF Statuses
<1>3. CASE resetState /\ front' = Outdated
  BY <1>3, ResetStep, KeepsSelf
<1>4. CASE resetState /\ front' = Ignoring(asked)
  BY <1>4, ResetStep, IgnoringFacts
<1>5. QED
  BY <1>1, <1>2, <1>3, <1>4 DEF connect

LEMMA DisconnectData ==
  ASSUME TypeOK, DataInv, UNCHANGED webVars, NEW i \in Clients, disconnect(i)
  PROVE  DataInv'
<1>1. CASE resetState /\ front' = SendConnect(Outdated, "no")
  BY <1>1, ResetStep, SendConnectFacts, OutdatedFacts DEF Statuses
<1>2. CASE UNCHANGED <<dataVars, front>>
  BY <1>2, KeepsStep, KeepsSelf
<1>3. QED
  BY <1>1, <1>2 DEF disconnect

LEMMA SpliceFacts ==
  ASSUME NEW s \in Seq(Sockets), NEW k \in Nat, k < Len(s)
  PROVE  /\ Len(Splice(s, k)) = Len(s) - 1
         /\ \A i \in 1..(Len(s) - 1) :
              Splice(s, k)[i] = IF i <= k THEN s[i] ELSE s[i + 1]
<1> DEFINE a == SubSeq(s, 1, k)  b == SubSeq(s, k + 2, Len(s))
<1>0. Len(s) \in Nat /\ s \in [1..Len(s) -> Sockets]
  BY LenProperties
<1>1. /\ a \in Seq(Sockets) /\ Len(a) = k
      /\ \A i \in 1..k : a[i] = s[i]
  BY <1>0, SubSeqProperties
<1>2. /\ b \in Seq(Sockets) /\ Len(b) = Len(s) - k - 1
      /\ \A i \in 1..(Len(s) - k - 1) : b[i] = s[k + 1 + i]
  <2>1. \A i \in (k + 2)..Len(s) : s[i] \in Sockets
    BY <1>0
  <2>2. /\ b \in Seq(Sockets)
        /\ Len(b) = IF k + 2 <= Len(s) THEN Len(s) - (k + 2) + 1 ELSE 0
        /\ \A i \in 1..(Len(s) - (k + 2) + 1) : b[i] = s[(k + 2) + i - 1]
    BY <1>0, <2>1, SubSeqProperties
  <2> HIDE DEF b
  <2>3. Len(b) = Len(s) - k - 1
    <3> DEFINE n == Len(s)
    <3>1. n \in Nat /\ k \in Nat /\ k < n
      BY <1>0
    <3>2. Len(b) = IF k + 2 <= n THEN n - (k + 2) + 1 ELSE 0
      BY <2>2
    <3> HIDE DEF n
    <3>3. (IF k + 2 <= n THEN n - (k + 2) + 1 ELSE 0) = n - k - 1
      BY <3>1
    <3>4. QED
      BY <3>2, <3>3 DEF n
  <2>4. ASSUME NEW i \in 1..(Len(s) - k - 1)
        PROVE  b[i] = s[k + 1 + i]
    <3>1. i \in 1..(Len(s) - (k + 2) + 1) /\ (k + 2) + i - 1 = k + 1 + i
      BY <1>0
    <3>2. b[i] = s[(k + 2) + i - 1]
      BY <2>2, <3>1
    <3>3. QED
      BY <3>1, <3>2
  <2>5. QED
    BY <2>2, <2>3, <2>4
<1>3. Splice(s, k) = a \o b
  BY DEF Splice
<1> HIDE DEF a, b
<1>4. /\ Len(a \o b) = Len(a) + Len(b)
      /\ \A i \in 1..(Len(a) + Len(b)) :
           (a \o b)[i] = IF i <= Len(a) THEN a[i] ELSE b[i - Len(a)]
  BY <1>1, <1>2, ConcatProperties
<1>5. Len(a) + Len(b) = Len(s) - 1
  BY <1>0, <1>1, <1>2
<1>6. ASSUME NEW i \in 1..(Len(s) - 1)
      PROVE  (a \o b)[i] = IF i <= k THEN s[i] ELSE s[i + 1]
  <2>1. (a \o b)[i] = IF i <= k THEN a[i] ELSE b[i - k]
    BY <1>1, <1>4, <1>5
  <2>2. CASE i <= k
    BY <1>1, <2>1, <2>2
  <2>3. CASE ~(i <= k)
    <3>1. i - k \in 1..(Len(s) - k - 1) /\ k + 1 + (i - k) = i + 1
      BY <1>0, <2>3
    <3>2. QED
      BY <1>2, <2>1, <2>3, <3>1
  <2>4. QED
    BY <2>2, <2>3
<1>7. QED
  BY <1>3, <1>4, <1>5, <1>6

LEMMA SpliceRange ==
  ASSUME NEW s \in Seq(Sockets), NEW k \in Nat
  PROVE  \A i \in 1..Len(Splice(s, k)) :
           \E j \in 1..Len(s) : Splice(s, k)[i] = s[j]
<1>0. Len(s) \in Nat
  BY LenProperties
<1>1. CASE k < Len(s)
  <2>1. ASSUME NEW i \in 1..(Len(s) - 1)
        PROVE  \E j \in 1..Len(s) : Splice(s, k)[i] = s[j]
    <3>1. i \in 1..Len(s) /\ i + 1 \in 1..Len(s)
      BY <1>0
    <3>2. Splice(s, k)[i] = s[i] \/ Splice(s, k)[i] = s[i + 1]
      BY <1>1, SpliceFacts
    <3>3. QED
      BY <3>1, <3>2
  <2>2. QED
    BY <1>1, <2>1, SpliceFacts
<1>2. CASE ~(k < Len(s))
  BY <1>2 DEF Splice
<1>3. QED
  BY <1>1, <1>2

LEMMA CloseListed ==
  ASSUME TypeOK, NEW c \in Sockets, CloseSocket(c)
  PROVE  Listed' \subseteq Listed /\ Open' = Open \ {c}
<1>1. clients \in Seq(Sockets) /\ index[c] \in Nat
  BY DEF TypeOK
<1>2. clients' = Splice(clients, index[c]) /\ clients' \in Seq(Sockets)
  BY <1>1, SpliceType DEF CloseSocket
<1>3. DOMAIN clients = 1..Len(clients) /\ DOMAIN clients' = 1..Len(clients')
  BY <1>1, <1>2, LenProperties
<1>4. \A i \in 1..Len(clients') : \E j \in 1..Len(clients) : clients'[i] = clients[j]
  BY <1>1, <1>2, SpliceRange
<1>5. Listed' \subseteq Listed
  BY <1>3, <1>4 DEF Listed
<1>6. Open' = Open \ {c}
  BY DEF CloseSocket, Open, TypeOK
<1>7. QED
  BY <1>5, <1>6

LEMMA AcceptListed ==
  ASSUME TypeOK, NEW c \in Sockets, onRequest(c)
  PROVE  /\ Listed' = Listed \cup {c}
         /\ Open' = Open \cup {c}
         /\ Reached' \subseteq Reached \cup {c}
<1>1. clients \in Seq(Sockets) /\ Len(clients) \in Nat
  BY LenProperties DEF TypeOK
<1>2. /\ clients' \in Seq(Sockets)
      /\ Len(clients') = Len(clients) + 1
      /\ \A i \in 1..Len(clients) : clients'[i] = clients[i]
      /\ clients'[Len(clients) + 1] = c
  BY <1>1, AppendProperties DEF onRequest
<1>3. DOMAIN clients = 1..Len(clients) /\ DOMAIN clients' = 1..(Len(clients) + 1)
  BY <1>1, <1>2, LenProperties
<1>4. Listed' = Listed \cup {c}
  BY <1>1, <1>2, <1>3 DEF Listed
<1>5. Open' = Open \cup {c}
  BY DEF onRequest, Open, TypeOK
<1>6. QED
  BY <1>4, <1>5 DEF Reached

LEMMA DataStep ==
  ASSUME TypeOK, DataInv, [Next]_vars
  PROVE  DataInv'
<1>1. ASSUME NEW c \in Sockets, onRequest(c)
      PROVE  DataInv'
  <2>1. QueueTrue' /\ queue' = queue /\ cache' = cache
    BY <1>1 DEF onRequest, dataVars, DataInv, QueueTrue
  <2>2. socket[c] = "none" /\ \A d \in Sockets : d # c => socket'[d] = socket[d]
    BY <1>1 DEF onRequest, TypeOK
  <2>3. socket'[c] = "open"
    BY <1>1 DEF onRequest, TypeOK
  <2>4. CASE front' = SendInitState(Reached \cup {c})
    <3>1. \A d \in Sockets \ (Reached \cup {c}) : front'[d] = front[d]
      BY <2>4, SendInitFacts, ReachedOK
    <3>2. \A d \in Reached \cup {c}, l \in Lists : front'[d].shown[l] = cache[l]
      BY <2>4, SendInitFacts, ReachedOK
    <3>3. Newborn'
      <4>1. SUFFICES ASSUME NEW d \in Sockets, socket'[d] = "none"
                     PROVE  d \notin Listed' /\ \A l \in Lists : ~front'[d].fresh[l]
        BY DEF Newborn
      <4>2. d # c /\ socket[d] = "none"
        BY <2>2, <2>3, <4>1
      <4>3. d \notin Reached /\ d \notin Listed /\ \A l \in Lists : ~front[d].fresh[l]
        BY <4>2 DEF Reached, Open, DataInv, Newborn
      <4>4. QED
        BY <1>1, <3>1, <4>2, <4>3, AcceptListed
    <3>4. NoLostUpdate'
      BY <1>1, <2>1, <3>2, AcceptListed DEF NoLostUpdate
    <3>5. QED
      BY <2>1, <3>3, <3>4 DEF DataInv
  <2>5. CASE front' = [front EXCEPT ![c] = handleIsConnectedChange(@, "no")]
    <3>1. front \in [Sockets -> Front]
      BY DEF TypeOK
    <3>2. \A l \in Lists : front'[c].fresh[l] => front[c].fresh[l]
      BY <2>5, <3>1, StatusFacts DEF Statuses
    <3>3. \A d \in Sockets : d # c => front'[d] = front[d]
      BY <2>5, <3>1
    <3>4. \A l \in Lists : ~front'[c].fresh[l]
      BY <2>2, <3>2 DEF DataInv, Newborn
    <3>5. Newborn'
      BY <1>1, <2>2, <2>3, <3>3, AcceptListed DEF DataInv, Newborn
    <3>6. NoLostUpdate'
      <4>1. SUFFICES ASSUME NEW d \in Reached', NEW l \in Lists,
                            front'[d].fresh[l], l \notin DOMAIN queue
                     PROVE  front'[d].shown[l] = cache[l]
        BY <2>1 DEF NoLostUpdate
      <4>2. d # c
        BY <3>4, <4>1
      <4>3. d \in Reached /\ d \in Sockets
        BY <1>1, <4>1, <4>2, AcceptListed, ReachedFacts
      <4>4. QED
        BY <3>3, <4>1, <4>2, <4>3 DEF DataInv, NoLostUpdate
    <3>7. QED
      BY <2>1, <3>5, <3>6 DEF DataInv
  <2>6. QED
    BY <1>1, <2>4, <2>5 DEF onRequest
<1>2. ASSUME NEW c \in Sockets, CloseSocket(c)
      PROVE  DataInv'
  <2>1. QueueTrue' /\ queue' = queue /\ cache' = cache
    BY <1>2 DEF CloseSocket, dataVars, DataInv, QueueTrue
  <2>2. front \in [Sockets -> Front]
    BY DEF TypeOK
  <2>3. /\ \A d \in Sockets : d # c => front'[d] = front[d]
        /\ \A d \in Sockets : socket'[d] = "none" => socket[d] = "none"
        /\ socket'[c] # "none"
    BY <1>2, <2>2 DEF CloseSocket, TypeOK
  <2>4. Newborn'
    BY <1>2, <2>3, CloseListed DEF DataInv, Newborn
  <2>5. Reached' \subseteq Reached \ {c}
    BY <1>2, CloseListed DEF Reached
  <2>6. NoLostUpdate'
    BY <2>1, <2>3, <2>5, ReachedFacts DEF DataInv, NoLostUpdate
  <2>7. QED
    BY <2>1, <2>4, <2>6 DEF DataInv
<1>3. ASSUME NEW c \in Sockets, onMessage(c)
      PROVE  DataInv'
  <2> DEFINE r == request[c]
  <2>0. UNCHANGED webVars /\ r \in Requests \cup {NoRequest}
    BY <1>3 DEF onMessage, TypeOK
  <2>1. CASE r.type = "connect" /\ connect(r.tls, r.valid, {c})
    <3>1. r.tls \in BOOLEAN
      BY <2>0, <2>1 DEF Requests, NoRequest
    <3>2. QED
      BY <2>0, <2>1, <3>1, ConnectData
  <2>2. CASE UNCHANGED <<front, dataVars>>
    BY <2>0, <2>2, KeepsStep, KeepsSelf
  <2>3. CASE /\ front' = SendLists(Present(Lists \cap {"smart-start-list"}))
             /\ UNCHANGED dataVars
    <3> DEFINE S == Lists \cap {"smart-start-list"}
    <3>1. /\ Present(S) \in [S -> Entry]
          /\ \A l \in S : Present(S)[l].data = cache[l]
      BY PresentFacts
    <3>2. QueueTrue' /\ queue' = queue /\ cache' = cache
      BY <2>3 DEF dataVars, DataInv, QueueTrue
    <3>3. \A d \in Sockets \ Reached : front'[d] = front[d]
      BY <2>3, <3>1, SendListsFacts
    <3>4. \A d \in Reached, l \in Lists :
            \/ front'[d].shown[l] = cache[l]
            \/ /\ front'[d].shown[l] = front[d].shown[l]
               /\ front'[d].fresh[l] = front[d].fresh[l]
      <4>1. \A d \in Reached : ShowsLists(front'[d], front[d], S, Present(S))
        BY <2>3, <3>1, SendListsFacts
      <4>2. ASSUME NEW d \in Reached, NEW l \in Lists
            PROVE  \/ front'[d].shown[l] = cache[l]
                   \/ /\ front'[d].shown[l] = front[d].shown[l]
                      /\ front'[d].fresh[l] = front[d].fresh[l]
        <5> DEFINE P == Present(S)
        <5>1. ShowsLists(front'[d], front[d], S, P) /\ \A k \in S : P[k].data = cache[k]
          BY <3>1, <4>1
        <5> HIDE DEF S, P
        <5>2. QED
          BY <5>1 DEF ShowsLists
      <4>3. QED
        BY <4>2
    <3>5. Newborn'
      BY <2>0, <3>3, ReachedSame DEF DataInv, Newborn, Reached, Open
    <3>6. NoLostUpdate'
      BY <2>0, <3>2, <3>4, ReachedSame DEF DataInv, NoLostUpdate
    <3>7. QED
      BY <3>2, <3>5, <3>6 DEF DataInv
  <2>4. QED
    BY <1>3, <2>1, <2>2, <2>3 DEF onMessage
<1>4. ASSUME NEW c \in Sockets, NEW r \in Requests, Click(c, r)
      PROVE  DataInv'
  <2>1. UNCHANGED webVars /\ UNCHANGED dataVars
    BY <1>4 DEF Click
  <2>2. Keeps(front', front)
    <3>1. CASE front' = front
      BY <3>1, KeepsSelf
    <3>2. CASE front' = [front EXCEPT ![c] = handleIsConnectedChange(@, "null")]
      BY <3>2, StatusFacts DEF Statuses, Keeps, TypeOK
    <3>3. QED
      BY <1>4, <3>1, <3>2 DEF Click
  <2>3. QED
    BY <2>1, <2>2, KeepsStep
<1>5. ASSUME NEW i \in Clients, Tick(i)
      PROVE  DataInv'
  <2>1. UNCHANGED webVars /\ UNCHANGED dataVars
    BY <1>5 DEF Tick
  <2>2. front \in [Sockets -> Front]
    BY DEF TypeOK
  <2>3. Keeps(front', front)
    BY <1>5, <2>2, KeepsSelf, SendConnectFacts DEF Tick, Statuses
  <2>4. QED
    BY <2>1, <2>3, KeepsStep
<1>6. ASSUME NEW i \in Clients, Connects(i)
      PROVE  DataInv'
  BY <1>6, KeepsStep, KeepsSelf DEF Connects
<1>7. ASSUME NEW i \in Clients, Fails(i)
      PROVE  DataInv'
  BY <1>7, DisconnectData DEF Fails
<1>8. ASSUME NEW i \in Clients, Closes(i)
      PROVE  DataInv'
  BY <1>8, DisconnectData DEF Closes
<1>9. ASSUME NEW i \in Clients, NEW l \in Lists, NEW v \in Content, onMqttMessage(i, l, v)
      PROVE  DataInv'
  <2>1. /\ DOMAIN queue' = DOMAIN queue \cup {l}
        /\ queue'[l] = [data |-> v, old |-> FALSE]
        /\ \A t \in DOMAIN queue : t # l => queue'[t] = queue[t]
    BY <1>9 DEF onMqttMessage, addToQueue
  <2>2. cache'[l] = v /\ \A t \in Lists : t # l => cache'[t] = cache[t]
    BY <1>9 DEF onMqttMessage, TypeOK
  <2>3. front' = front /\ UNCHANGED webVars
    BY <1>9 DEF onMqttMessage
  <2>4. QueueTrue'
    BY <2>1, <2>2 DEF DataInv, QueueTrue, TypeOK
  <2>5. Newborn'
    BY <2>3, ReachedSame DEF DataInv, Newborn
  <2>6. NoLostUpdate'
    BY <2>1, <2>2, <2>3, ReachedSame DEF DataInv, NoLostUpdate
  <2>7. QED
    BY <2>4, <2>5, <2>6 DEF DataInv
<1>10. ASSUME runQueueHandler
       PROVE  DataInv'
  <2>1. UNCHANGED webVars /\ cache' = cache /\ DOMAIN queue' = {}
    BY <1>10 DEF runQueueHandler
  <2>2. queue \in [DOMAIN queue -> Entry] /\ DOMAIN queue \in SUBSET Lists
    BY DEF TypeOK
  <2>3. front' = SendLists(queue)
    BY <1>10 DEF runQueueHandler
  <2>4. \A d \in Sockets \ Reached : front'[d] = front[d]
    BY <2>2, <2>3, SendListsFacts
  <2>5. \A d \in Reached :
          ShowsLists(front'[d], front[d], DOMAIN queue, queue)
    BY <2>2, <2>3, SendListsFacts
  <2>6. Newborn'
    BY <2>1, <2>4, ReachedSame DEF DataInv, Newborn, Reached, Open
  <2>7. NoLostUpdate'
    <3>1. SUFFICES ASSUME NEW d \in Reached, NEW l \in Lists, front'[d].fresh[l]
                   PROVE  front'[d].shown[l] = cache[l]
      BY <2>1, ReachedSame DEF NoLostUpdate
    <3>2. CASE l \in DOMAIN queue
      BY <2>5, <3>1, <3>2 DEF DataInv, QueueTrue, ShowsLists
    <3>3. CASE l \notin DOMAIN queue
      BY <2>5, <3>1, <3>3 DEF DataInv, NoLostUpdate, ShowsLists
    <3>4. QED
      BY <3>2, <3>3
  <2>8. QED
    BY <2>1, <2>6, <2>7 DEF DataInv, QueueTrue
<1>11. ASSUME Reconnect
       PROVE  DataInv'
  BY <1>11, ConnectData DEF Reconnect
<1>12. CASE UNCHANGED vars
  BY <1>12, KeepsStep, KeepsSelf DEF vars
<1>13. QED
  BY <1>1, <1>2, <1>3, <1>4, <1>5, <1>6, <1>7, <1>8, <1>9, <1>10, <1>11, <1>12
  DEF Next

-----------------------------------------------------------------------------
(* A front end that shows "Connected" is right.  The current client object *)
(* has its handlers, or an interval is still to register them.             *)

Registered ==
  mqttConnection # NoClient /\ handlers[mqttConnection] = 0 =>
    counter[mqttConnection] # Stopped

Awaited == \E i \in Clients : counter[i] # Stopped

ConnInv == Registered /\ ConnectedIsTrue

LEMMA QuietConn ==
  ASSUME ConnInv, UNCHANGED mqttVars,
         \A c \in Reached' : front'[c].status = "yes" =>
           c \in Reached /\ front[c].status = "yes"
  PROVE  ConnInv'
<1>1. Registered'
  BY DEF ConnInv, Registered, mqttVars
<1>2. Connected' = Connected /\ Awaited' = Awaited
  BY DEF Connected, Awaited, mqttVars
<1>3. ConnectedIsTrue'
  BY <1>2 DEF ConnInv, ConnectedIsTrue, Awaited
<1>4. QED
  BY <1>1, <1>3 DEF ConnInv

LEMMA ConnectConn ==
  ASSUME TypeOK, ConnInv, UNCHANGED webVars, NEW tls \in BOOLEAN,
         NEW valid, NEW asked, connect(tls, valid, asked)
  PROVE  ConnInv'
<1>0. Reached' = Reached
  BY ReachedSame
<1>1. CASE Connected /\ front' = SendInitState(Reached) /\ UNCHANGED mqttVars
  <2>1. Registered' /\ Connected'
    BY <1>1 DEF ConnInv, Registered, Connected, mqttVars
  <2>2. QED
    BY <2>1 DEF ConnInv, ConnectedIsTrue
<1>2. CASE front' = SendConnect(Outdated, "no") /\ UNCHANGED mqttVars
  <2>1. \A c \in Reached : front'[c].status = "no"
    BY <1>2, OutdatedFacts, SendConnectFacts DEF Statuses
  <2>2. QED
    BY <1>0, <1>2, <2>1, QuietConn
<1>3. ASSUME UNCHANGED handlers, NEW new \in Unused,
             mqttConnection' = new,
             counter' = [counter EXCEPT ![new] = MaxAttempts]
      PROVE  ConnInv'
  <2>1. new \in Clients /\ counter'[new] = MaxAttempts
    BY <1>3 DEF Unused, TypeOK
  <2>2. counter'[new] # Stopped
    BY <2>1 DEF Stopped
  <2>3. QED
    BY <1>3, <2>1, <2>2 DEF ConnInv, Registered, ConnectedIsTrue
<1>4. CASE front' = Ignoring(asked) /\ UNCHANGED mqttVars
  BY <1>0, <1>4, IgnoringFacts, ReachedFacts, QuietConn
<1>5. QED
  BY <1>1, <1>2, <1>3, <1>4 DEF connect

LEMMA EndConn ==
  ASSUME TypeOK, ConnInv, UNCHANGED webVars, front' = front,
         mqttConnection # NoClient, End
  PROVE  ConnInv'
<1>1. Registered' /\ Awaited' = Awaited
  BY DEF End, ConnInv, Registered, Awaited
<1>2. Connected' = Connected
  <2>1. mqttConnection \in Clients /\ mqttConnection' = mqttConnection
    BY DEF TypeOK, End
  <2>2. link'[mqttConnection] = CASE link[mqttConnection] = "up" -> "closing"
                                  [] link[mqttConnection] = "trying" -> "stopping"
                                  [] OTHER -> link[mqttConnection]
    BY <2>1 DEF TypeOK, End
  <2>3. link'[mqttConnection] \in {"up", "closing"}
          <=> link[mqttConnection] \in {"up", "closing"}
    BY <2>2
  <2>4. QED
    BY <2>1, <2>3 DEF Connected
<1>3. ConnectedIsTrue'
  BY <1>1, <1>2, ReachedSame DEF ConnInv, ConnectedIsTrue, Awaited
<1>4. QED
  BY <1>1, <1>3 DEF ConnInv

(* The connection of client object i goes down, and disconnect is called.  *)
LEMMA DownConn ==
  ASSUME TypeOK, ConnInv, UNCHANGED webVars, NEW i \in Clients,
         NEW state, link' = [link EXCEPT ![i] = state], disconnect(i),
         UNCHANGED <<mqttConnection, handlers, counter>>
  PROVE  ConnInv'
<1>1. Registered' /\ Awaited' = Awaited
  BY DEF ConnInv, Registered, Awaited
<1>2. CASE handlers[i] > 0 /\ front' = SendConnect(Outdated, "no")
  <2>1. \A c \in Reached : front'[c].status = "no"
    BY <1>2, OutdatedFacts, SendConnectFacts DEF Statuses
  <2>2. QED
    BY <1>1, <2>1, ReachedSame DEF ConnInv, ConnectedIsTrue
<1>3. CASE handlers[i] = 0 /\ front' = front
  <2>1. CASE mqttConnection = i
    <3>1. Awaited'
      BY <1>1, <1>3, <2>1 DEF ConnInv, Registered, Awaited, NoClient, Clients
    <3>2. QED
      BY <1>1, <3>1 DEF ConnInv, ConnectedIsTrue, Awaited
  <2>2. CASE mqttConnection # i
    <3>1. Connected' = Connected
      BY <2>2 DEF Connected, TypeOK
    <3>2. QED
      BY <1>1, <1>3, <3>1, ReachedSame DEF ConnInv, ConnectedIsTrue, Awaited
  <2>3. QED
    BY <2>1, <2>2
<1>4. QED
  BY <1>2, <1>3 DEF disconnect

LEMMA ConnStep ==
  ASSUME TypeOK, ConnInv, [Next]_vars
  PROVE  ConnInv'
<1>1. ASSUME NEW c \in Sockets, onRequest(c)
      PROVE  ConnInv'
  <2>1. UNCHANGED mqttVars
    BY <1>1 DEF onRequest
  <2>2. CASE Connected
    <3>1. Registered' /\ Connected'
      BY <2>1, <2>2 DEF ConnInv, Registered, Connected, mqttVars
    <3>2. QED
      BY <3>1 DEF ConnInv, ConnectedIsTrue
  <2>3. CASE front' = [front EXCEPT ![c] = handleIsConnectedChange(@, "no")]
    <3>1. front \in [Sockets -> Front]
      BY DEF TypeOK
    <3>2. front'[c].status = "no"
      BY <2>3, <3>1, StatusFacts DEF Statuses
    <3>3. \A d \in Sockets : d # c => front'[d] = front[d]
      BY <2>3, <3>1
    <3>4. \A d \in Reached' : front'[d].status = "yes" =>
            d \in Reached /\ front[d].status = "yes"
      BY <1>1, <3>2, <3>3, AcceptListed, ReachedFacts
    <3>5. QED
      BY <2>1, <3>4, QuietConn
  <2>4. QED
    BY <1>1, <2>2, <2>3 DEF onRequest
<1>2. ASSUME NEW c \in Sockets, CloseSocket(c)
      PROVE  ConnInv'
  <2>1. \A d \in Sockets : d # c => front'[d] = front[d]
    BY <1>2 DEF CloseSocket, TypeOK
  <2>2. Reached' \subseteq Reached \ {c}
    BY <1>2, CloseListed DEF Reached
  <2>3. QED
    BY <1>2, <2>1, <2>2, QuietConn, ReachedFacts DEF CloseSocket
<1>3. ASSUME NEW c \in Sockets, onMessage(c)
      PROVE  ConnInv'
  <2> DEFINE r == request[c]
  <2>0. UNCHANGED webVars /\ r \in Requests \cup {NoRequest}
    BY <1>3 DEF onMessage, TypeOK
  <2>1. CASE r.type = "connect" /\ connect(r.tls, r.valid, {c})
    <3>1. r.tls \in BOOLEAN
      BY <2>0, <2>1 DEF Requests, NoRequest
    <3>2. QED
      BY <2>0, <2>1, <3>1, ConnectConn
  <2>2. CASE mqttConnection # NoClient /\ End /\ front' = front
    BY <2>0, <2>2, EndConn
  <2>3. CASE UNCHANGED <<front, mqttVars>>
    BY <2>0, <2>3, QuietConn, ReachedSame
  <2>4. CASE /\ front' = SendLists(Present(Lists \cap {"smart-start-list"}))
             /\ UNCHANGED mqttVars
    <3>1. \A d \in Sockets : front'[d].status = front[d].status
      BY <2>4, PresentFacts, SendListsFacts
    <3>2. QED
      BY <2>0, <2>4, <3>1, QuietConn, ReachedSame, ReachedFacts
  <2>5. QED
    BY <1>3, <2>1, <2>2, <2>3, <2>4 DEF onMessage, ClearThrows
<1>4. ASSUME NEW c \in Sockets, NEW r \in Requests, Click(c, r)
      PROVE  ConnInv'
  <2>1. front \in [Sockets -> Front]
    BY DEF TypeOK
  <2>2. \A d \in Sockets : front'[d].status = "yes" => front[d].status = "yes"
    BY <1>4, <2>1, StatusFacts DEF Click, Statuses
  <2>3. QED
    BY <1>4, <2>2, QuietConn, ReachedSame, ReachedFacts DEF Click
<1>5. ASSUME NEW i \in Clients, Tick(i)
      PROVE  ConnInv'
  <2>0. UNCHANGED webVars /\ Reached' = Reached /\ link' = link
    BY <1>5, ReachedSame DEF Tick
  <2>1. CASE /\ Connected
             /\ handlers' = [handlers EXCEPT ![mqttConnection] = @ + 1]
             /\ UNCHANGED mqttConnection
    <3>1. Connected'
      BY <2>0, <2>1 DEF Connected
    <3>2. handlers'[mqttConnection'] # 0
      BY <2>1 DEF Connected, TypeOK
    <3>3. QED
      BY <3>1, <3>2 DEF ConnInv, Registered, ConnectedIsTrue
  <2>2. CASE /\ counter[i] > 0 /\ counter' = [counter EXCEPT ![i] = @ - 1]
             /\ UNCHANGED <<mqttConnection, handlers, front>>
    <3>1. counter'[i] # Stopped
      BY <2>2 DEF TypeOK, Stopped
    <3>2. Registered'
      BY <2>2, <3>1 DEF ConnInv, Registered, TypeOK
    <3>3. QED
      BY <3>1, <3>2 DEF ConnInv, ConnectedIsTrue
  <2>3. CASE mqttConnection' = NoClient /\ front' = SendConnect(front, "no")
    <3>1. front \in [Sockets -> Front]
      BY DEF TypeOK
    <3>2. \A c \in Reached : front'[c].status = "no"
      BY <2>3, <3>1, SendConnectFacts DEF Statuses
    <3>3. QED
      BY <2>0, <2>3, <3>2 DEF ConnInv, Registered, ConnectedIsTrue
  <2>4. QED
    BY <1>5, <2>1, <2>2, <2>3 DEF Tick
<1>6. ASSUME NEW i \in Clients, Connects(i)
      PROVE  ConnInv'
  <2>1. UNCHANGED <<webVars, front, mqttConnection, handlers, counter>>
    BY <1>6 DEF Connects
  <2>2. Registered' /\ Awaited' = Awaited
    BY <2>1 DEF ConnInv, Registered, Awaited
  <2>3. Connected => Connected'
    BY <1>6, <2>1 DEF Connects, Connected, TypeOK
  <2>4. QED
    BY <2>1, <2>2, <2>3, ReachedSame DEF ConnInv, ConnectedIsTrue, Awaited
<1>7. ASSUME NEW i \in Clients, Fails(i)
      PROVE  ConnInv'
  BY <1>7, DownConn DEF Fails
<1>8. ASSUME NEW i \in Clients, Closes(i)
      PROVE  ConnInv'
  BY <1>8, DownConn DEF Closes
<1>9. ASSUME NEW i \in Clients, NEW l \in Lists, NEW v \in Content, onMqttMessage(i, l, v)
      PROVE  ConnInv'
  BY <1>9, QuietConn, ReachedSame DEF onMqttMessage
<1>10. ASSUME runQueueHandler
       PROVE  ConnInv'
  <2>1. \A d \in Sockets : front'[d].status = front[d].status
    BY <1>10, SendListsFacts DEF runQueueHandler, TypeOK
  <2>2. QED
    BY <1>10, <2>1, QuietConn, ReachedSame, ReachedFacts DEF runQueueHandler
<1>11. ASSUME Reconnect
       PROVE  ConnInv'
  BY <1>11, ConnectConn DEF Reconnect
<1>12. CASE UNCHANGED vars
  BY <1>12, QuietConn, ReachedSame DEF vars
<1>13. QED
  BY <1>1, <1>2, <1>3, <1>4, <1>5, <1>6, <1>7, <1>8, <1>9, <1>10, <1>11, <1>12
  DEF Next

-----------------------------------------------------------------------------
(* Nothing of a dead connection stays cached.                              *)

LEMMA CacheKept ==
  ASSUME CacheIsLive, UNCHANGED cache,
         \A i \in Clients : handlers[i] > 0 /\ link[i] \in {"up", "closing"} =>
           handlers'[i] > 0 /\ link'[i] \in {"up", "closing"}
  PROVE  CacheIsLive'
BY DEF CacheIsLive

LEMMA CacheReset ==
  ASSUME TypeOK, resetState
  PROVE  CacheIsLive'
BY DEF CacheIsLive, resetState, TypeOK

LEMMA CacheConnect ==
  ASSUME TypeOK, CacheIsLive, NEW tls \in BOOLEAN,
         NEW valid, NEW asked, connect(tls, valid, asked)
  PROVE  CacheIsLive'
<1>1. CASE resetState
  BY <1>1, CacheReset
<1>2. CASE UNCHANGED <<mqttVars, dataVars>>
  BY <1>2, CacheKept DEF mqttVars, dataVars
<1>3. QED
  BY <1>1, <1>2 DEF connect

LEMMA CacheEnd ==
  ASSUME TypeOK, CacheIsLive, UNCHANGED cache, mqttConnection # NoClient, End
  PROVE  CacheIsLive'
<1>1. \A i \in Clients : link[i] \in {"up", "closing"} => link'[i] \in {"up", "closing"}
  BY DEF End, TypeOK
<1>2. QED
  BY <1>1, CacheKept DEF End

(* The connection of client object i goes down, and disconnect is called.  *)
LEMMA CacheDown ==
  ASSUME TypeOK, CacheIsLive, NEW i \in Clients, NEW state,
         link' = [link EXCEPT ![i] = state], disconnect(i), UNCHANGED handlers
  PROVE  CacheIsLive'
<1>1. CASE resetState
  BY <1>1, CacheReset
<1>2. CASE handlers[i] = 0 /\ UNCHANGED dataVars
  <2>1. \A j \in Clients : handlers[j] > 0 => link'[j] = link[j]
    BY <1>2 DEF TypeOK
  <2>2. QED
    BY <1>2, <2>1, CacheKept DEF dataVars
<1>3. QED
  BY <1>1, <1>2 DEF disconnect

LEMMA CacheStep ==
  ASSUME TypeOK, CacheIsLive, [Next]_vars
  PROVE  CacheIsLive'
<1> USE DEF dataVars, mqttVars
<1>1. ASSUME NEW c \in Sockets, onRequest(c) \/ CloseSocket(c)
      PROVE  CacheIsLive'
  BY <1>1, CacheKept DEF onRequest, CloseSocket
<1>2. ASSUME NEW c \in Sockets, onMessage(c)
      PROVE  CacheIsLive'
  <2> DEFINE r == request[c]
  <2>0. r \in Requests \cup {NoRequest}
    BY <1>2 DEF TypeOK
  <2>1. CASE r.type = "connect" /\ connect(r.tls, r.valid, {c})
    <3>1. r.tls \in BOOLEAN
      BY <2>0, <2>1 DEF Requests, NoRequest
    <3>2. QED
      BY <2>1, <3>1, CacheConnect
  <2>2. CASE mqttConnection # NoClient /\ End /\ UNCHANGED dataVars
    BY <2>2, CacheEnd
  <2>3. CASE UNCHANGED <<mqttVars, dataVars>>
    BY <2>3, CacheKept
  <2>4. QED
    BY <1>2, <2>1, <2>2, <2>3 DEF onMessage, ClearThrows
<1>3. ASSUME NEW c \in Sockets, NEW r \in Requests, Click(c, r)
      PROVE  CacheIsLive'
  BY <1>3, CacheKept DEF Click
<1>4. ASSUME NEW i \in Clients, Tick(i)
      PROVE  CacheIsLive'
  <2>1. UNCHANGED <<cache, link>>
    BY <1>4 DEF Tick
  <2>2. \A j \in Clients : handlers[j] > 0 => handlers'[j] > 0
    <3>1. CASE Connected /\ handlers' = [handlers EXCEPT ![mqttConnection] = @ + 1]
      BY <3>1 DEF TypeOK, Connected
    <3>2. CASE UNCHANGED handlers
      BY <3>2
    <3>3. QED
      BY <1>4, <3>1, <3>2 DEF Tick
  <2>3. QED
    BY <2>1, <2>2, CacheKept
<1>5. ASSUME NEW i \in Clients, Connects(i)
      PROVE  CacheIsLive'
  BY <1>5, CacheKept DEF Connects, TypeOK
<1>6. ASSUME NEW i \in Clients, Fails(i) \/ Closes(i)
      PROVE  CacheIsLive'
  BY <1>6, CacheDown DEF Fails, Closes
<1>7. ASSUME NEW i \in Clients, NEW l \in Lists, NEW v \in Content, onMqttMessage(i, l, v)
      PROVE  CacheIsLive'
  BY <1>7 DEF onMqttMessage, CacheIsLive
<1>8. ASSUME runQueueHandler
      PROVE  CacheIsLive'
  BY <1>8, CacheKept DEF runQueueHandler
<1>9. ASSUME Reconnect
      PROVE  CacheIsLive'
  BY <1>9, CacheConnect DEF Reconnect
<1>10. CASE UNCHANGED vars
  BY <1>10, CacheKept DEF vars
<1>11. QED
  BY <1>1, <1>2, <1>3, <1>4, <1>5, <1>6, <1>7, <1>8, <1>9, <1>10 DEF Next

-----------------------------------------------------------------------------
(* The list of WebSockets is never shorter than there are open ones: each  *)
(* is added once, and closing one removes at most one entry.               *)

Distinct == \A i, j \in 1..Len(clients) : clients[i] = clients[j] => i = j

Counted == Cardinality(Open) <= Len(clients)

ClientsInv == Newborn /\ Distinct /\ Counted

LEMMA FiniteSockets ==
  /\ IsFiniteSet(Sockets)
  /\ \A S \in SUBSET Sockets : IsFiniteSet(S) /\ Cardinality(S) \in Nat
<1>1. IsFiniteSet(Sockets)
  BY FS_Interval DEF Sockets
<1>2. \A S \in SUBSET Sockets : IsFiniteSet(S)
  BY <1>1, FS_Subset
<1>3. QED
  BY <1>1, <1>2, FS_CardinalityType

LEMMA ClientsStep ==
  ASSUME TypeOK, ClientsInv, [Next]_vars
  PROVE  Distinct' /\ Counted'
<1>0. clients \in Seq(Sockets) /\ Len(clients) \in Nat /\ Open \in SUBSET Sockets
  BY LenProperties DEF TypeOK, Open
<1>1. ASSUME NEW c \in Sockets, onRequest(c)
      PROVE  Distinct' /\ Counted'
  <2>1. /\ Len(clients') = Len(clients) + 1
        /\ \A i \in 1..Len(clients) : clients'[i] = clients[i]
        /\ clients'[Len(clients) + 1] = c
    BY <1>0, <1>1, AppendProperties DEF onRequest
  <2>2. \A i \in 1..Len(clients) : clients[i] # c
    <3>1. c \notin Listed
      BY <1>1 DEF onRequest, ClientsInv, Newborn
    <3>2. DOMAIN clients = 1..Len(clients)
      BY <1>0, LenProperties
    <3>3. QED
      BY <3>1, <3>2 DEF Listed
  <2>3. Distinct'
    BY <1>0, <2>1, <2>2 DEF ClientsInv, Distinct
  <2>4. c \notin Open /\ Open' = Open \cup {c}
    BY <1>1, AcceptListed DEF onRequest, Open
  <2>5. Cardinality(Open') = Cardinality(Open) + 1
    BY <1>0, <2>4, FiniteSockets, FS_AddElement
  <2>6. QED
    BY <1>0, <2>1, <2>3, <2>5, FiniteSockets DEF ClientsInv, Counted
<1>2. ASSUME NEW c \in Sockets, CloseSocket(c)
      PROVE  Distinct' /\ Counted'
  <2>1. clients' = Splice(clients, index[c]) /\ index[c] \in Nat /\ c \in Open
    BY <1>2 DEF CloseSocket, TypeOK, Open
  <2>2. Cardinality(Open') = Cardinality(Open) - 1
    <3>1. Open' = Open \ {c}
      BY <1>2, CloseListed
    <3>2. QED
      BY <1>0, <2>1, <3>1, FiniteSockets, FS_RemoveElement
  <2>3. CASE index[c] < Len(clients)
    <3> DEFINE k == index[c]
    <3>1. /\ Len(clients') = Len(clients) - 1
          /\ \A i \in 1..(Len(clients) - 1) :
               clients'[i] = IF i <= k THEN clients[i] ELSE clients[i + 1]
      BY <1>0, <2>1, <2>3, SpliceFacts
    <3>2. Distinct'
      <4>1. SUFFICES ASSUME NEW i \in 1..(Len(clients) - 1),
                            NEW j \in 1..(Len(clients) - 1),
                            clients'[i] = clients'[j]
                     PROVE  i = j
        BY <3>1 DEF Distinct
      <4> DEFINE p(n) == IF n <= k THEN n ELSE n + 1
      <4>2. p(i) \in 1..Len(clients) /\ p(j) \in 1..Len(clients)
        BY <1>0, <2>1
      <4>3. clients'[i] = clients[p(i)] /\ clients'[j] = clients[p(j)]
        BY <3>1
      <4>4. p(i) = p(j)
        BY <4>1, <4>2, <4>3 DEF ClientsInv, Distinct
      <4>5. QED
        BY <1>0, <2>1, <4>4
    <3>3. QED
      BY <1>0, <2>2, <3>1, <3>2, FiniteSockets DEF ClientsInv, Counted
  <2>4. CASE ~(index[c] < Len(clients))
    <3>1. clients' = clients
      BY <2>1, <2>4 DEF Splice
    <3>2. QED
      BY <1>0, <2>2, <3>1, FiniteSockets DEF ClientsInv, Distinct, Counted
  <2>5. QED
    BY <2>3, <2>4
<1>3. CASE UNCHANGED webVars
  BY <1>3 DEF webVars, ClientsInv, Distinct, Counted, Open
<1>4. QED
  BY <1>1, <1>2, <1>3 DEF Next, vars, onMessage, Click, Tick, Connects, Fails,
     Closes, onMqttMessage, runQueueHandler, Reconnect

LEMMA CountedLeaks ==
  ASSUME TypeOK, Distinct, Counted
  PROVE  MissedMeansLeaked
<1>1. /\ clients \in [1..Len(clients) -> Listed]
      /\ Len(clients) \in Nat
      /\ Listed \in SUBSET Sockets
      /\ \A c \in Listed : \E i \in 1..Len(clients) : clients[i] = c
  <2>1. clients \in [1..Len(clients) -> Sockets] /\ Len(clients) \in Nat
    BY LenProperties DEF TypeOK
  <2>2. QED
    BY <2>1 DEF Listed
<1>2. clients \in Surjection(1..Len(clients), Listed)
  BY <1>1 DEF Surjection
<1>3. clients \in Injection(1..Len(clients), Listed)
  BY <1>1 DEF Injection, IsInjective, Distinct
<1>4. IsFiniteSet(1..Len(clients)) /\ Cardinality(1..Len(clients)) = Len(clients)
  <2>1. /\ IsFiniteSet(1..Len(clients))
        /\ Cardinality(1..Len(clients)) =
             IF 1 > Len(clients) THEN 0 ELSE Len(clients) - 1 + 1
    BY <1>1, FS_Interval
  <2>2. QED
    BY <1>1, <2>1
<1>5. Cardinality(Listed) = Len(clients)
  BY <1>2, <1>3, <1>4, FS_Surjection
<1>6. Open \in SUBSET Sockets
  BY DEF Open
<1>7. Cardinality(Open \ Listed) = Cardinality(Open) - Cardinality(Open \cap Listed)
  BY <1>1, <1>6, FiniteSockets, FS_Difference
<1>8. Cardinality(Listed \ Open) = Cardinality(Listed) - Cardinality(Listed \cap Open)
  BY <1>1, <1>6, FiniteSockets, FS_Difference
<1>9. /\ Open \cap Listed = Listed \cap Open
      /\ Cardinality(Open \cap Listed) \in Nat
      /\ Cardinality(Open) \in Nat /\ Cardinality(Listed) \in Nat
  <2>1. Open \cap Listed \in SUBSET Sockets
    BY <1>1, <1>6
  <2>2. QED
    BY <1>1, <1>6, <2>1, FiniteSockets
<1>10. Cardinality(Open) <= Cardinality(Listed)
  BY <1>5 DEF Counted
<1>11. QED
  BY <1>7, <1>8, <1>9, <1>10 DEF MissedMeansLeaked

-----------------------------------------------------------------------------
(* The inductive invariant.                                                *)

IInv == TypeOK /\ DataInv /\ ConnInv /\ CacheIsLive /\ Distinct /\ Counted

LEMMA IInvInit == Init => IInv
<1> SUFFICES ASSUME Init PROVE IInv
  OBVIOUS
<1>1. TypeOK
  BY TypeInit
<1>2. Len(clients) = 0 /\ Listed = {} /\ Open = {} /\ Reached = {}
  BY DEF Init, Listed, Open, Reached
<1>3. DataInv
  BY <1>2 DEF Init, DataInv, QueueTrue, Newborn, NoLostUpdate
<1>4. ConnInv
  BY <1>2 DEF Init, ConnInv, Registered, ConnectedIsTrue
<1>5. CacheIsLive
  BY DEF Init, CacheIsLive
<1>6. Distinct /\ Counted
  BY <1>2, FS_EmptySet DEF Distinct, Counted
<1>7. QED
  BY <1>1, <1>3, <1>4, <1>5, <1>6 DEF IInv

LEMMA IInvStep == IInv /\ [Next]_vars => IInv'
BY TypeStep, DataStep, ConnStep, CacheStep, ClientsStep
   DEF IInv, DataInv, ClientsInv

(* Invariant: what the modules above build up holds in every reachable     *)
(* state, for every instance.                                              *)
THEOREM Invariant == Spec => []IInv
BY IInvInit, IInvStep, PTL DEF Spec

(* Every variable keeps its type: the queue holds entries of lists only,   *)
(* and intervals never count below their end (connect, addToQueue).        *)
THEOREM TypeCorrect == Spec => []TypeOK
<1>1. IInv => TypeOK
  BY DEF IInv
<1>2. QED
  BY <1>1, Invariant, PTL

(* The queue loses no update (addToQueue, runQueueHandler, sendToAll): a   *)
(* list that a front end was last sent from the array the server has now,  *)
(* and has not reset since, is shown as it is cached or is queued.  Of all *)
(* other lists, those that resetState or a front end alone has emptied,    *)
(* the theorem says nothing.                                               *)
THEOREM UpdatesArrive == Spec => []NoLostUpdate
<1>1. IInv => NoLostUpdate
  BY DEF IInv, DataInv
<1>2. QED
  BY <1>1, Invariant, PTL

(* A front end that shows "Connected" is right, however many client        *)
(* objects replace each other (connect, disconnect).                       *)
THEOREM ConnectedShownRight == Spec => []ConnectedIsTrue
<1>1. IInv => ConnectedIsTrue
  BY DEF IInv, ConnInv
<1>2. QED
  BY <1>1, Invariant, PTL

(* Nothing of a dead connection stays cached (resetState).                 *)
THEOREM NothingOutlives == Spec => []CacheIsLive
<1>1. IInv => CacheIsLive
  BY DEF IInv
<1>2. QED
  BY <1>1, Invariant, PTL

(* The list of WebSockets loses at most one open one for each closed one   *)
(* that it keeps (onRequest).                                              *)
THEOREM LeaksBound == Spec => []MissedMeansLeaked
<1>1. IInv => MissedMeansLeaked
  BY CountedLeaks DEF IInv
<1>2. QED
  BY <1>1, Invariant, PTL

=============================================================================
