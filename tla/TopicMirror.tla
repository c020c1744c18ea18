----------------------------- MODULE TopicMirror -----------------------------
(* What the cache of the Developer GUI promises: a flat mirror of retained *)
(* topics.  Whatever objects, arrays and entries the server keeps, a topic *)
(* shows the last message received on it, or nothing.                      *)
(*                                                                         *)
(* Topics belong to owners (a node, a group, an image).  An owner has key  *)
(* topics; when the last of them is cleared, the owner is forgotten with   *)
(* all its topics, also those that the broker still retains.  All topics   *)
(* can be forgotten while the subscription goes on (Reset); if a key topic *)
(* is cleared that was forgotten so, it may be left blank: listed, without *)
(* a value.                                                                *)
CONSTANTS
  Topics,
  Values,
  None,       \* nothing is retained, or shown; the empty message
  Blank,      \* a topic is shown without a value
  Owners      \* records of topics and keys, sets of topics

VARIABLES
  retained,   \* of each topic, what the broker retains
  subscribed, \* the server is subscribed
  due,        \* topics whose retained message is on its way
  mirror      \* of each topic, what is shown

vars == <<retained, subscribed, due, mirror>>

Forgotten(t) ==
  UNION {o.topics : o \in {p \in Owners :
    t \in p.keys /\ \A k \in p.keys \ {t} : mirror[k] = None}}

Receive(t, v) ==
  mirror' = [s \in Topics |->
               IF s = t THEN v
               ELSE IF v = None /\ s \in Forgotten(t) THEN None
               ELSE mirror[s]]

LeaveBlank(t) ==
  /\ retained[t] # None /\ mirror[t] = None
  /\ \E o \in Owners : t \in o.keys
  /\ mirror' = [mirror EXCEPT ![t] = Blank]

Init ==
  /\ retained = [t \in Topics |-> None]
  /\ subscribed = FALSE
  /\ due = {}
  /\ mirror = [t \in Topics |-> None]

Publish(t, v) ==
  /\ t \notin due
  /\ retained' = [retained EXCEPT ![t] = v]
  /\ IF subscribed THEN Receive(t, v) \/ (v = None /\ LeaveBlank(t))
     ELSE UNCHANGED mirror
  /\ UNCHANGED <<subscribed, due>>

Deliver(t) ==
  /\ t \in due
  /\ due' = due \ {t}
  /\ Receive(t, retained[t])
  /\ UNCHANGED <<retained, subscribed>>

Subscribe ==
  /\ ~subscribed
  /\ subscribed' = TRUE
  /\ due' = {t \in Topics : retained[t] # None}
  /\ UNCHANGED <<retained, mirror>>

Lose ==
  /\ subscribed
  /\ subscribed' = FALSE
  /\ due' = {}
  /\ mirror' = [t \in Topics |-> None]
  /\ UNCHANGED retained

Reset ==
  /\ subscribed
  /\ mirror' = [t \in Topics |-> None]
  /\ UNCHANGED <<retained, subscribed, due>>

Next ==
  \/ \E t \in Topics : Deliver(t) \/ \E v \in Values \cup {None} : Publish(t, v)
  \/ Subscribe
  \/ Lose
  \/ Reset

Spec == Init /\ [][Next]_vars

(* Nothing stale is shown: not a message that has been replaced, nor one   *)
(* that has been cleared, not even of an owner that was forgotten.         *)
NeverStale ==
  \A t \in Topics :
    mirror[t] \in {None, retained[t]} \/ (mirror[t] = Blank /\ retained[t] = None)
=============================================================================
