----------------------------- MODULE DevGuiCache -----------------------------
(* How the server of the Developer GUI caches what it receives: handler.js *)
(* in applications/dev_ui/dev_gui/src/dev-gui-api.                         *)
(*                                                                         *)
(* The broker retains messages.  It sends what it retains when the server  *)
(* subscribes, in no order between topics, and every later message when it *)
(* is published; an empty message clears a topic.  The server takes the    *)
(* messages apart into nodes, groups and images.  Module TopicMirror says  *)
(* what this amounts to, and the cache is checked to implement it.         *)
(*                                                                         *)
(* An array of state whose elements are found by their name is a function; *)
(* Groups is a sequence, since it is changed while it is iterated.  An     *)
(* object inside a node is the function of its leaves: initProp makes the  *)
(* objects above a leaf, and deletes those that have become empty.         *)
EXTENDS Naturals, Sequences, FiniteSets

CONSTANTS
  Topics,           \* the topics of this instance, some of AllTopics
  Unids, GroupIds, Uiids,
  Paths,            \* paths of properties below a node or a group
  Values,           \* values that messages carry
  None,             \* the empty message; undefined
  Null,             \* the value null
  MaxPublished,     \* bound: messages published
  MaxLost           \* bound: connections lost

NodeTopics(u) ==
  {<<"State", u>>, <<"NetworkManagement", u>>} \cup {<<"Property", u, p>> : p \in Paths}
Members(g) == {<<"NodeList", g, u>> : u \in Unids}
GroupTopics(g) == Members(g) \cup {<<"GroupProperty", g, p>> : p \in Paths}
ImageTopics(i) == {<<"Image", i, u>> : u \in Unids} \cup {<<"Image", i, "all">>}
AllTopics ==
  UNION ({NodeTopics(u) : u \in Unids} \cup {GroupTopics(g) : g \in GroupIds}
         \cup {ImageTopics(i) : i \in Uiids})

ASSUME TopicAssumption == Topics \subseteq AllTopics
ASSUME ValueAssumption ==
  None \notin Values /\ Null \notin Values /\ None # Null /\ "all" \notin Unids
ASSUME BoundAssumption == MaxPublished \in Nat /\ MaxLost \in Nat

VARIABLES
  retained, subscribed, due,  \* the broker, as in TopicMirror
  Nodes,            \* state.Nodes: a map from some Unids to nodes
  Groups,           \* state.Groups: a sequence of groups
  OTA,              \* state.OTA: a map from some Uiids to lists of Unids
  dropped,          \* history: topics that were retained when the server
                    \* forgot them, with their node or group or all at once,
                    \* and that it has received no value of since
  published, lost   \* bounded counters

stateVars == <<Nodes, Groups, OTA>>
brokerVars == <<retained, subscribed, due>>
vars == <<brokerVars, stateVars, dropped, published, lost>>

-----------------------------------------------------------------------------
(* Objects.                                                                *)

NoProps == [x \in {} |-> None]
Put(f, x, y) == [z \in DOMAIN f \cup {x} |-> IF z = x THEN y ELSE f[z]]
Drop(f, x) == [z \in DOMAIN f \ {x} |-> f[z]]

(* Mutant: an empty message is stored as it is.                            *)
initProp_Stores(prop, path, payload) == Put(prop, path, payload)

(* An empty message deletes a leaf; a leaf that is not there becomes null. *)
initProp(prop, path, payload) ==
  IF payload # None THEN Put(prop, path, payload)
  ELSE IF path \in DOMAIN prop THEN Drop(prop, path)
  ELSE Put(prop, path, Null)

NewNode == [state |-> None, network |-> None, props |-> NoProps]
getNodeByUnid(u) == IF u \in DOMAIN Nodes THEN Nodes[u] ELSE NewNode

-----------------------------------------------------------------------------
(* The handlers of the topics: v is the value of the message, or None.     *)

(* Mutant: a removed node stays, without its state.                        *)
processNodeState_Keeps(u, v) ==
  /\ Nodes' = IF v = None /\ u \notin DOMAIN Nodes THEN Nodes
              ELSE Put(Nodes, u, [getNodeByUnid(u) EXCEPT !.state = v])
  /\ UNCHANGED <<Groups, OTA>>

(* ucl/by-unid/<unid>/State                                                *)
processNodeState(u, v) ==
  /\ Nodes' = IF v = None THEN Drop(Nodes, u)
              ELSE Put(Nodes, u, [getNodeByUnid(u) EXCEPT !.state = v])
  /\ UNCHANGED <<Groups, OTA>>

(* Clusters, the group lists of endpoints, OTA attributes of endpoints,    *)
(* and supported commands.                                                 *)
processCluster(u, path, v) ==
  /\ Nodes' = IF v = None /\ u \notin DOMAIN Nodes THEN Nodes
              ELSE Put(Nodes, u,
                       [getNodeByUnid(u) EXCEPT !.props = initProp(@, path, v)])
  /\ UNCHANGED <<Groups, OTA>>

(* The empty message is passed over.                                       *)
processProtocolController(u, v) ==
  /\ Nodes' = IF v = None THEN Nodes
              ELSE Put(Nodes, u, [getNodeByUnid(u) EXCEPT !.network = v])
  /\ UNCHANGED <<Groups, OTA>>

(* Mutant: a group without members is not removed.                         *)
Spliced_Never(groups) == groups

(* forEach with splice: behind an element that is removed one is skipped,  *)
(* so that of elements without NodeList in a row every other one goes.     *)
Removed(groups, k) ==
  \E j \in 1..k :
    /\ \A m \in j..k : ~groups[m].hasNodeList
    /\ j = 1 \/ groups[j - 1].hasNodeList
    /\ (k - j) % 2 = 0

Staying(groups) == {k \in DOMAIN groups : ~Removed(groups, k)}
Before(groups, k) == Cardinality(Staying(groups) \cap 1..k)

Spliced(groups) ==
  [n \in 1..Cardinality(Staying(groups)) |->
     groups[CHOOSE k \in Staying(groups) : Before(groups, k) = n]]

IndexOf(g) == {k \in DOMAIN Groups : Groups[k].id = g}

NewGroup(g) ==
  [id |-> g, hasNodeList |-> TRUE, NodeList |-> NoProps, props |-> NoProps]

(* NodeList, an object, is deleted by initProp when it has become empty.   *)
Member(group, u, v) ==
  LET list == initProp(group.NodeList, u, v)
  IN  [group EXCEPT !.NodeList = list, !.hasNodeList = DOMAIN list # {}]

Property(group, path, v) == [group EXCEPT !.props = initProp(@, path, v)]

(* initProp of a group: what is below NodeList is a member.                *)
Updated(group, path, v) ==
  IF path[1] = "NodeList" THEN Member(group, path[2], v)
  ELSE Property(group, path[2], v)

processGroup(g, path, v) ==
  /\ Groups' =
       IF IndexOf(g) # {}
       THEN LET i == CHOOSE k \in IndexOf(g) : \A j \in IndexOf(g) : k <= j
            IN  Spliced([Groups EXCEPT ![i] = Updated(@, path, v)])
       ELSE IF v = None THEN Groups
       ELSE Spliced(Append(Groups, Updated(NewGroup(g), path, v)))
  /\ UNCHANGED <<Nodes, OTA>>

(* Mutant: an image stays when it is no longer for any node, as if it were *)
(* for all of them.                                                        *)
processOTAInfo_Keeps(i, unid, v) ==
  /\ OTA' =
       IF v = None
       THEN IF i \notin DOMAIN OTA THEN OTA
            ELSE IF unid = "all" THEN Drop(OTA, i)
            ELSE [OTA EXCEPT ![i].Unid = @ \ {unid}]
       ELSE Put(OTA, i,
              [image |-> v,
               Unid |-> IF unid = "all" THEN {}
                        ELSE {unid} \cup IF i \in DOMAIN OTA THEN OTA[i].Unid ELSE {}])
  /\ UNCHANGED <<Nodes, Groups>>

(* The list of an image that is for all nodes is empty.  A message changes *)
(* the properties of the image, that is the image in all its topics.       *)
processOTAInfo(i, unid, v) ==
  /\ OTA' =
       IF v = None
       THEN IF i \notin DOMAIN OTA THEN OTA
            ELSE IF unid = "all" \/ OTA[i].Unid = {unid} THEN Drop(OTA, i)
            ELSE [OTA EXCEPT ![i].Unid = @ \ {unid}]
       ELSE Put(OTA, i,
              [image |-> v,
               Unid |-> IF unid = "all" THEN {}
                        ELSE {unid} \cup IF i \in DOMAIN OTA THEN OTA[i].Unid ELSE {}])
  /\ UNCHANGED <<Nodes, Groups>>

onMqttMessage(t, v) ==
  \/ t[1] = "State" /\ processNodeState(t[2], v)
  \/ t[1] = "Property" /\ processCluster(t[2], t[3], v)
  \/ t[1] = "NetworkManagement" /\ processProtocolController(t[2], v)
  \/ /\ t[1] \in {"NodeList", "GroupProperty"}
     /\ processGroup(t[2], <<t[1], t[3]>>, v)
  \/ t[1] = "Image" /\ processOTAInfo(t[2], t[3], v)

-----------------------------------------------------------------------------
(* What the front ends show of a topic.  A null is shown as nothing, but   *)
(* for a member: the members of a group are the keys of NodeList.          *)

ValueIn(f, x) == IF x \notin DOMAIN f \/ f[x] = Null THEN None ELSE f[x]

Group(g) == Groups[CHOOSE k \in IndexOf(g) : TRUE]

Shown(t) ==
  CASE t[1] = "State" ->
         IF t[2] \in DOMAIN Nodes THEN Nodes[t[2]].state ELSE None
    [] t[1] = "Property" ->
         IF t[2] \in DOMAIN Nodes THEN ValueIn(Nodes[t[2]].props, t[3]) ELSE None
    [] t[1] = "NetworkManagement" ->
         IF t[2] \in DOMAIN Nodes THEN Nodes[t[2]].network ELSE None
    [] t[1] = "NodeList" ->
         IF IndexOf(t[2]) # {} /\ t[3] \in DOMAIN Group(t[2]).NodeList
         THEN Group(t[2]).NodeList[t[3]] ELSE None
    [] t[1] = "GroupProperty" ->
         IF IndexOf(t[2]) # {} THEN ValueIn(Group(t[2]).props, t[3]) ELSE None
    [] t[1] = "Image" ->
         IF t[2] \in DOMAIN OTA
            /\ IF t[3] = "all" THEN OTA[t[2]].Unid = {} ELSE t[3] \in OTA[t[2]].Unid
         THEN OTA[t[2]].image ELSE None

-----------------------------------------------------------------------------
(* The broker and the services that publish.                               *)

(* An empty message makes the server forget a node, or a group that has no *)
(* other member: this is retained of them nevertheless.                    *)
LastMember(t) ==
  /\ Shown(t) # None
  /\ \A m \in (Members(t[2]) \cap Topics) \ {t} : Shown(m) = None

Dropping(t) ==
  LET rest == CASE t[1] = "State" -> NodeTopics(t[2])
                [] t[1] = "NodeList" /\ LastMember(t) -> GroupTopics(t[2])
                [] OTHER -> {}
  IN  {s \in (rest \cap Topics) \ {t} : retained[s] # None} \ due

(* The group manager and the image provider clear only what they have      *)
(* published.  Assumed besides: an image is for all nodes or for some, and *)
(* is the same in all its topics, as when one entry of images.json         *)
(* describes it; the image provider takes several entries of one Uiid, and *)
(* does not clear what it published before a restart.                      *)
MayPublish(t, v) ==
  /\ (t[1] \in {"NodeList", "Image"} /\ v = None) => retained[t] # None
  /\ (t[1] = "Image" /\ v # None) =>
       \A s \in {x \in ImageTopics(t[2]) \cap Topics : retained[x] # None} :
         /\ s[3] = "all" <=> t[3] = "all"
         /\ s = t \/ retained[s] = v

Publish(t, v) ==
  /\ published < MaxPublished
  /\ t \notin due
  /\ MayPublish(t, v)
  /\ retained' = [retained EXCEPT ![t] = v]
  /\ IF subscribed
     THEN /\ onMqttMessage(t, v)
          /\ dropped' = IF v = None THEN dropped \cup Dropping(t)
                        ELSE dropped \ {t}
     ELSE UNCHANGED <<stateVars, dropped>>
  /\ published' = published + 1
  /\ UNCHANGED <<subscribed, due, lost>>

(* A message that the broker retained arrives.                             *)
Deliver(t) ==
  /\ t \in due
  /\ due' = due \ {t}
  /\ onMqttMessage(t, retained[t])
  /\ UNCHANGED <<retained, subscribed, dropped, published, lost>>

Subscribe ==
  /\ ~subscribed
  /\ subscribed' = TRUE
  /\ due' = {t \in Topics : retained[t] # None}
  /\ UNCHANGED <<retained, stateVars, dropped, published, lost>>

(* Mutant: the images survive.                                             *)
resetState_KeepsOTA == Nodes' = NoProps /\ Groups' = <<>> /\ UNCHANGED OTA

resetState == Nodes' = NoProps /\ Groups' = <<>> /\ OTA' = NoProps

(* disconnect: the connection is lost that the server is subscribed with.  *)
Lose ==
  /\ subscribed /\ lost < MaxLost
  /\ subscribed' = FALSE
  /\ due' = {}
  /\ resetState
  /\ dropped' = {}
  /\ lost' = lost + 1
  /\ UNCHANGED <<retained, published>>

(* Client objects overlap (DevGuiApi): another one closes, or is about to  *)
(* be made, while the one that is subscribed stays so.  What the broker    *)
(* has sent already it does not send again.                                *)
Reset ==
  /\ subscribed
  /\ resetState
  /\ dropped' = {t \in Topics : retained[t] # None} \ due
  /\ UNCHANGED <<brokerVars, published, lost>>

Init ==
  /\ retained = [t \in Topics |-> None]
  /\ subscribed = FALSE
  /\ due = {}
  /\ Nodes = NoProps /\ Groups = <<>> /\ OTA = NoProps
  /\ dropped = {}
  /\ published = 0 /\ lost = 0

Next ==
  \/ \E t \in Topics : Deliver(t) \/ \E v \in Values \cup {None} : Publish(t, v)
  \/ Subscribe
  \/ Lose
  \/ Reset

Spec == Init /\ [][Next]_vars

-----------------------------------------------------------------------------
Props == UNION {[S -> Values \cup {Null}] : S \in SUBSET (Paths \cup Unids)}

TypeOK ==
  /\ retained \in [Topics -> Values \cup {None}]
  /\ subscribed \in BOOLEAN
  /\ due \subseteq Topics /\ dropped \subseteq Topics
  /\ \A u \in DOMAIN Nodes :
       /\ Nodes[u].state \in Values \cup {None}
       /\ Nodes[u].network \in Values \cup {None}
       /\ Nodes[u].props \in Props
  /\ \A k \in DOMAIN Groups : Groups[k].NodeList \in Props /\ Groups[k].props \in Props
  /\ \A i \in DOMAIN OTA : OTA[i] \in [image : Values, Unid : SUBSET Unids]
  /\ published \in 0..MaxPublished /\ lost \in 0..MaxLost

(* Network management is not mirrored: its empty message is passed over.   *)
Mirrored == {t \in Topics : t[1] # "NetworkManagement"}
Owner(all, keys) == [topics |-> all \cap Mirrored, keys |-> keys \cap Mirrored]

(* The cache mirrors the topics: objects and arrays come and go so that    *)
(* each topic shows its last message, and nothing else of the cache        *)
(* changes with it (initProp, processGroup, processOTAInfo, getNodeByUnid).*)
Mirror == INSTANCE TopicMirror WITH
  Topics <- Mirrored,
  Owners <- {Owner(NodeTopics(u), {<<"State", u>>}) : u \in Unids}
              \cup {Owner(GroupTopics(g), Members(g)) : g \in GroupIds},
  retained <- [t \in Mirrored |-> retained[t]],
  due <- due \cap Mirrored,
  mirror <- [t \in Mirrored |-> Shown(t)],
  Blank <- Null
MirrorSpec == Mirror!Spec

(* When nothing is on its way the front ends show exactly what the broker  *)
(* retains, but for what was forgotten with its node or group, and for     *)
(* what resetState has emptied under a subscription that went on: no order *)
(* of messages, no reconnection and no clearing leaves anything else stale,*)
(* or misses anything else (handler.js, all handlers; resetState).         *)
Complete ==
  subscribed => \A t \in Mirrored \ (due \cup dropped) : Shown(t) = retained[t]

(* Whatever was forgotten and is on its way, the front ends never show a   *)
(* message that the broker does not retain any more; at most a member that *)
(* resetState had forgotten when it was cleared is listed without a value  *)
(* (all handlers of empty messages; resetState).                           *)
NeverStale == Mirror!NeverStale

(* Every cached group has a NodeList, and is cached once: the loop that    *)
(* skips elements when it removes one has never two to remove              *)
(* (processGroup).                                                         *)
NoHollowGroup ==
  /\ \A k \in DOMAIN Groups : Groups[k].hasNodeList
  /\ \A g \in GroupIds : Cardinality(IndexOf(g)) <= 1
=============================================================================
