-------------------------- MODULE MqttClientProofs --------------------------
(* The MQTT client keeps exactly one attempt to connect and forgets no     *)
(* queue, for all topics, payloads and callbacks and any number of calls   *)
(* and failures.                                                           *)
EXTENDS MqttClient, SequenceTheorems, FiniteSetTheorems,
        WellFoundedInduction, TLAPS

Requests == {"CONNECT", "CONNECTING"}
Work == {"PUBLISH", "SUBSCRIBE", "UNSUBSCRIBE"}

Occurs(es, S) == \E i \in 1..Len(es) : es[i] \in S
Once(es, S) == \A i, j \in 1..Len(es) : es[i] \in S /\ es[j] \in S => i = j
\* Every element of S comes before every element of T.
Before(es, S, T) == \A i, j \in 1..Len(es) : es[i] \in S /\ es[j] \in T => i < j
\* Some element of S comes before each element of T.
Preceded(es, S, T) ==
  \A j \in 1..Len(es) : es[j] \in T => \E i \in 1..(j - 1) : es[i] \in S

\* A posted request finds the state machine Disconnected, and only stale
\* disconnections in front of it.
RequestInv(s, c) ==
  Occurs(c.events, Requests) =>
    /\ s = "Disconnected"
    /\ c.delay = "off"
    /\ Once(c.events, Requests)
    /\ ~Occurs(c.events, {"CONNECTED"})
    /\ Before(c.events, {"DISCONNECTED"}, Requests)

\* The delayed request is there once, and the state machine hears of the
\* disconnection before it.
DelayInv(s, c) ==
  /\ c.delay = "posted" <=> Occurs(c.events, {"TIMER"})
  /\ Once(c.events, {"TIMER"})
  /\ c.delay # "off" => s = "Disconnected" \/ Occurs(c.events, {"DISCONNECTED"})
  /\ s = "Disconnected" \/ Preceded(c.events, {"DISCONNECTED"}, {"TIMER"})

\* The broker accepts one connection, before anything is lost.
AcceptInv(s, c) ==
  Occurs(c.events, {"CONNECTED"}) =>
    /\ s = "Connecting"
    /\ Once(c.events, {"CONNECTED"})
    /\ Before(c.events, {"CONNECTED"}, {"DISCONNECTED"})

\* While the broker's answer is awaited nothing else happens to the connection.
OpeningInv(s, c) ==
  c.link = "opening" =>
    /\ s = "Connecting"
    /\ c.delay = "off"
    /\ ~Occurs(c.events, Requests \cup {"CONNECTED", "DISCONNECTED"})

\* There is a request, as an event or delayed.
Requested(c) == Occurs(c.events, Requests) \/ c.delay # "off"

\* Either a request is there or the connection is healthy.
TokenInv(s, c) ==
  IF Requested(c) THEN ~c.connected
  ELSE /\ s # "Disconnected"
       /\ ~Occurs(c.events, {"DISCONNECTED"})
       /\ c.connected /\ c.link # "closed"
       /\ s = "Connecting" => \/ c.link \in {"opening", "lost"}
                              \/ Occurs(c.events, {"CONNECTED"})

ConnInv(s, c) ==
  /\ RequestInv(s, c)
  /\ DelayInv(s, c)
  /\ AcceptInv(s, c)
  /\ OpeningInv(s, c)
  /\ TokenInv(s, c)

\* QueuesServed, for a record.
Served(s, c, pq, sq, uq) ==
  s = "Connected" /\ ~Occurs(c.events, {"DISCONNECTED"}) =>
    /\ pq # <<>> => Occurs(c.events, {"PUBLISH"})
    /\ sq # <<>> => Occurs(c.events, {"SUBSCRIBE"})
    /\ uq # <<>> => Occurs(c.events, {"UNSUBSCRIBE"})

\* TypeOK, without the record of the connection.
DataOK ==
  /\ running \in BOOLEAN
  /\ current_state \in FsmStates
  /\ publishing_queue \in Seq(Messages)
  /\ subscription_queue \in Seq(Topics)
  /\ unsubscription_queue \in Seq(Topics)
  /\ subscription_callbacks \in [Topics -> SUBSET Callbacks]
  /\ retained_topics \subseteq Topics
  /\ broker_subscriptions \subseteq Topics
  /\ broker_retained \in [Topics -> Values \cup {Empty}]
  /\ asked \in [Topics -> Values \cup {Empty}]
  /\ dropped \subseteq Topics
  /\ calls \in 0..MaxCalls

IInv ==
  /\ TypeOK
  /\ running => /\ ConnInv(current_state, CurrentClient)
                /\ Served(current_state, CurrentClient, publishing_queue,
                          subscription_queue, unsubscription_queue)

-----------------------------------------------------------------------------
(* Records of the connection.                                              *)

\* Posting an event keeps a record well formed.
LEMMA SendEventType ==
  ASSUME NEW c \in Client, NEW e \in Events
  PROVE  send_event(c, e) \in Client
  <1>1. Append(c.events, e) \in Seq(Events)
    BY AppendProperties DEF Client
  <1> QED
    BY <1>1 DEF Client, send_event

\* Posting an event unless it is queued does.
LEMMA SendOnceType ==
  ASSUME NEW c \in Client, NEW e \in Events
  PROVE  send_once(c, e) \in Client
  BY SendEventType DEF send_once

\* Losing the connection does.
LEMMA OnDisconnectType ==
  ASSUME NEW c \in Client
  PROVE  on_disconnect(c) \in Client
  <1>1. send_event(c, "DISCONNECTED") \in Client
    BY SendEventType DEF Events
  <1>2. send_delayed_event(send_event(c, "DISCONNECTED")) \in Client
    BY <1>1 DEF Client, send_delayed_event
  <1> QED
    BY <1>2 DEF Client, on_disconnect

\* Storing a record makes it the current one.
LEMMA Stored ==
  ASSUME NEW c \in Client, StoreClient(c)
  PROVE  CurrentClient' = c
  BY DEF StoreClient, CurrentClient, Client

\* The record of the state is well formed.
LEMMA CurrentType ==
  ASSUME TypeOK
  PROVE  CurrentClient \in Client
  BY BoundAssumption DEF TypeOK, CurrentClient, Client

\* Events that are not empty and lose their first one.
LEMMA HandledType ==
  ASSUME TypeOK, events # <<>>
  PROVE  Handled \in Client
  <1>1. Tail(events) \in Seq(Events)
    BY DEF TypeOK
  <1> QED
    BY <1>1, CurrentType DEF Handled, Client, CurrentClient

\* Queued, by index.
LEMMA QueuedOccurs ==
  ASSUME NEW es \in Seq(Events), NEW e
  PROVE  Queued(es, e) <=> Occurs(es, {e})
  BY DEF Queued, Occurs

-----------------------------------------------------------------------------
(* Sequences that grow at the end and shrink at the front.                 *)

\* Elements of an extended sequence.
LEMMA AppendElements ==
  ASSUME NEW X, NEW es \in Seq(X), NEW e \in X
  PROVE  /\ Len(es) \in Nat
         /\ Len(Append(es, e)) = Len(es) + 1
         /\ \A i \in 1..Len(es) : Append(es, e)[i] = es[i]
         /\ Append(es, e)[Len(es) + 1] = e
  BY AppendProperties

\* Elements of the rest of a sequence.
LEMMA TailElements ==
  ASSUME NEW X, NEW es \in Seq(X), es # <<>>
  PROVE  /\ Len(es) \in Nat \ {0}
         /\ Len(Tail(es)) = Len(es) - 1
         /\ \A i \in 1..(Len(es) - 1) : Tail(es)[i] = es[i + 1]
         /\ Head(es) = es[1]
  BY HeadTailProperties, EmptySeq

\* What occurs in an extended sequence.
LEMMA AppendOccurs ==
  ASSUME NEW X, NEW es \in Seq(X), NEW e \in X, NEW S
  PROVE  Occurs(Append(es, e), S) <=> Occurs(es, S) \/ e \in S
  BY AppendElements DEF Occurs

\* What occurs once in an extended sequence.
LEMMA AppendOnce ==
  ASSUME NEW X, NEW es \in Seq(X), NEW e \in X, NEW S,
         Once(es, S), e \notin S \/ ~Occurs(es, S)
  PROVE  Once(Append(es, e), S)
  <1> DEFINE f == Append(es, e)
  <1>1. /\ Len(es) \in Nat /\ Len(f) = Len(es) + 1
        /\ \A i \in 1..Len(es) : f[i] = es[i]
        /\ f[Len(es) + 1] = e
    BY AppendElements
  <1> HIDE DEF f
  <1>2. Once(f, S)
    BY <1>1 DEF Once, Occurs
  <1> QED
    BY <1>2 DEF f

\* The order in an extended sequence.
LEMMA AppendBefore ==
  ASSUME NEW X, NEW es \in Seq(X), NEW e \in X, NEW S, NEW T,
         Before(es, S, T), e \notin S \/ (~Occurs(es, T) /\ e \notin T)
  PROVE  Before(Append(es, e), S, T)
  <1> DEFINE f == Append(es, e)
  <1>1. /\ Len(es) \in Nat /\ Len(f) = Len(es) + 1
        /\ \A i \in 1..Len(es) : f[i] = es[i]
        /\ f[Len(es) + 1] = e
    BY AppendElements
  <1> HIDE DEF f
  <1>2. Before(f, S, T)
    BY <1>1 DEF Before, Occurs
  <1> QED
    BY <1>2 DEF f

\* What precedes the elements of an extended sequence.
LEMMA AppendPreceded ==
  ASSUME NEW X, NEW es \in Seq(X), NEW e \in X, NEW S, NEW T,
         Preceded(es, S, T), e \notin T \/ Occurs(es, S)
  PROVE  Preceded(Append(es, e), S, T)
  <1> DEFINE f == Append(es, e)
  <1>1. /\ Len(es) \in Nat /\ Len(f) = Len(es) + 1
        /\ \A i \in 1..Len(es) : f[i] = es[i]
        /\ f[Len(es) + 1] = e
    BY AppendElements
  <1> HIDE DEF f
  <1>2. ASSUME NEW j \in 1..Len(f), f[j] \in T
        PROVE  \E i \in 1..(j - 1) : f[i] \in S
    <2>1. CASE j \in 1..Len(es)
      BY <1>1, <1>2, <2>1 DEF Preceded
    <2>2. CASE j = Len(es) + 1
      BY <1>1, <1>2, <2>2 DEF Occurs
    <2> QED
      BY <1>1, <2>1, <2>2
  <1>3. Preceded(f, S, T)
    BY <1>2 DEF Preceded
  <1> QED
    BY <1>3 DEF f

\* A sequence that loses its first element.
LEMMA TailFacts ==
  ASSUME NEW X, NEW es \in Seq(X), es # <<>>, NEW S, NEW T
  PROVE  /\ Occurs(es, S) <=> Head(es) \in S \/ Occurs(Tail(es), S)
         /\ Once(es, S) => Once(Tail(es), S)
         /\ Once(es, S) /\ Head(es) \in S => ~Occurs(Tail(es), S)
         /\ Before(es, S, T) => Before(Tail(es), S, T)
         /\ Before(es, S, T) /\ Head(es) \in T => ~Occurs(es, S)
         /\ Preceded(es, S, T) /\ Head(es) \notin S => Preceded(Tail(es), S, T)
         /\ Preceded(es, S, T) => Head(es) \notin T
  <1> DEFINE f == Tail(es)
  <1>1. /\ Len(es) \in Nat \ {0} /\ Len(f) = Len(es) - 1
        /\ \A i \in 1..Len(f) : f[i] = es[i + 1]
        /\ \A i \in 2..Len(es) : es[i] = f[i - 1] /\ i - 1 \in 1..Len(f)
        /\ \A i \in 1..Len(f) : i + 1 \in 2..Len(es)
        /\ Head(es) = es[1]
    BY TailElements
  <1> HIDE DEF f
  <1>2. Occurs(es, S) <=> Head(es) \in S \/ Occurs(f, S)
    <2>1. ASSUME NEW i \in 1..Len(es), es[i] \in S, Head(es) \notin S
          PROVE  Occurs(f, S)
      <3>1. i \in 2..Len(es)
        BY <1>1, <2>1
      <3> QED
        BY <1>1, <2>1, <3>1 DEF Occurs
    <2> QED
      BY <1>1, <2>1 DEF Occurs
  <1>3. Once(es, S) => Once(f, S)
    BY <1>1 DEF Once
  <1>4. Once(es, S) /\ Head(es) \in S => ~Occurs(f, S)
    BY <1>1 DEF Once, Occurs
  <1>5. Before(es, S, T) => Before(f, S, T)
    BY <1>1 DEF Before
  <1>6. Before(es, S, T) /\ Head(es) \in T => ~Occurs(es, S)
    BY <1>1 DEF Before, Occurs
  <1>7. ASSUME Preceded(es, S, T), Head(es) \notin S
        PROVE  Preceded(f, S, T)
    <2>1. ASSUME NEW j \in 1..Len(f), f[j] \in T
          PROVE  \E i \in 1..(j - 1) : f[i] \in S
      <3>1. j + 1 \in 1..Len(es) /\ es[j + 1] \in T
        BY <1>1, <2>1
      <3>2. PICK i \in 1..j : es[i] \in S
        BY <1>7, <3>1 DEF Preceded
      <3>3. i # 1 /\ i \in 2..Len(es)
        BY <1>1, <1>7, <3>2
      <3>4. i - 1 \in 1..(j - 1) /\ f[i - 1] = es[i]
        BY <1>1, <3>2, <3>3
      <3> QED
        BY <3>2, <3>4
    <2> QED
      BY <2>1 DEF Preceded
  <1>8. Preceded(es, S, T) => Head(es) \notin T
    BY <1>1 DEF Preceded
  <1> QED
    BY <1>2, <1>3, <1>4, <1>5, <1>6, <1>7, <1>8 DEF f

-----------------------------------------------------------------------------
(* The connection under each change of the record.                         *)

\* An event for one of the queues leaves the connection alone.
LEMMA WorkPosted ==
  ASSUME NEW s, NEW c \in Client, ConnInv(s, c), NEW e \in Work
  PROVE  ConnInv(s, send_event(c, e))
  <1> DEFINE d == send_event(c, e)
             es == c.events
  <1>1. /\ d.delay = c.delay /\ d.connected = c.connected /\ d.link = c.link
        /\ d.events = Append(es, e) /\ es \in Seq(Events) /\ e \in Events
    BY DEF Client, send_event, Work, Events
  <1>2. /\ e \notin Requests /\ e \notin {"CONNECTED"} /\ e \notin {"TIMER"}
        /\ e \notin {"DISCONNECTED"}
        /\ e \notin Requests \cup {"CONNECTED", "DISCONNECTED"}
    BY DEF Work, Requests
  <1> HIDE DEF d, es
  <1>3. ASSUME NEW S, e \notin S
        PROVE  /\ Occurs(d.events, S) <=> Occurs(es, S)
               /\ Once(es, S) => Once(d.events, S)
    BY <1>1, <1>3, AppendOccurs, AppendOnce
  <1>4. ASSUME NEW S, NEW T, e \notin S, e \notin T
        PROVE  /\ Before(es, S, T) => Before(d.events, S, T)
               /\ Preceded(es, S, T) => Preceded(d.events, S, T)
    BY <1>1, <1>4, AppendBefore, AppendPreceded
  <1>5. RequestInv(s, d)
    BY <1>1, <1>2, <1>3, <1>4 DEF RequestInv, ConnInv, es
  <1>6. DelayInv(s, d)
    BY <1>1, <1>2, <1>3, <1>4 DEF DelayInv, ConnInv, es
  <1>7. AcceptInv(s, d)
    BY <1>2, <1>3, <1>4 DEF AcceptInv, ConnInv, es
  <1>8. OpeningInv(s, d)
    BY <1>1, <1>2, <1>3 DEF OpeningInv, ConnInv, es
  <1>9. TokenInv(s, d)
    BY <1>1, <1>2, <1>3 DEF TokenInv, Requested, ConnInv, es
  <1> QED
    BY <1>5, <1>6, <1>7, <1>8, <1>9 DEF ConnInv, d

\* Losing a connection in a state that uses one asks for the next, unless a
\* request is under way already.
LEMMA ConnectionGone ==
  ASSUME NEW s, NEW c \in Client, s # "Disconnected", c.link # "opening",
         RequestInv(s, c), DelayInv(s, c), AcceptInv(s, c)
  PROVE  ConnInv(s, on_disconnect(c))
  <1> DEFINE d == on_disconnect(c)
             es == c.events
             e == "DISCONNECTED"
  <1>1. /\ d.delay = IF c.delay = "off" THEN "running" ELSE c.delay
        /\ d.connected = FALSE /\ d.link = c.link
        /\ d.events = Append(es, e) /\ es \in Seq(Events) /\ e \in Events
    BY DEF Client, on_disconnect, send_delayed_event, send_event, Events
  <1>2. /\ e \notin Requests /\ e \notin {"CONNECTED"} /\ e \notin {"TIMER"}
        /\ e \in {"DISCONNECTED"}
    BY DEF Requests
  <1> HIDE DEF d, es, e
  <1>3. ASSUME NEW S
        PROVE  /\ Occurs(d.events, S) <=> Occurs(es, S) \/ e \in S
               /\ Once(es, S) /\ e \notin S => Once(d.events, S)
    BY <1>1, AppendOccurs, AppendOnce
  <1>4. RequestInv(s, d)
    BY <1>2, <1>3 DEF RequestInv, es
  <1>5. DelayInv(s, d)
    <2>1. Preceded(es, {"DISCONNECTED"}, {"TIMER"})
            => Preceded(d.events, {"DISCONNECTED"}, {"TIMER"})
      BY <1>1, <1>2, AppendPreceded
    <2> QED
      BY <1>1, <1>2, <1>3, <2>1 DEF DelayInv, es
  <1>6. AcceptInv(s, d)
    <2>1. Before(es, {"CONNECTED"}, {"DISCONNECTED"})
            => Before(d.events, {"CONNECTED"}, {"DISCONNECTED"})
      BY <1>1, <1>2, AppendBefore
    <2> QED
      BY <1>2, <1>3, <2>1 DEF AcceptInv, es
  <1>7. OpeningInv(s, d)
    BY <1>1 DEF OpeningInv
  <1>8. TokenInv(s, d)
    BY <1>1 DEF TokenInv, Requested
  <1> QED
    BY <1>4, <1>5, <1>6, <1>7, <1>8 DEF ConnInv, d

\* The broker accepts the connection that is being opened.
LEMMA ConnectionAccepted ==
  ASSUME NEW s, NEW c \in Client, ConnInv(s, c), c.link = "opening"
  PROVE  Accepted(c) \in Client /\ ConnInv(s, Accepted(c))
  <1> DEFINE d == Accepted(c)
             es == c.events
             e == "CONNECTED"
  <1>1. /\ d.delay = c.delay /\ d.connected = TRUE /\ d.link = "open"
        /\ d.events = Append(es, e) /\ es \in Seq(Events) /\ e \in Events
    BY DEF Client, Accepted, send_event, Events
  <1>2. /\ e \notin Requests /\ e \in {"CONNECTED"} /\ e \notin {"TIMER"}
        /\ e \notin {"DISCONNECTED"}
    BY DEF Requests
  <1>3. d \in Client
    <2>1. send_event(c, "CONNECTED") \in Client
      BY SendEventType DEF Events
    <2> QED
      BY <2>1 DEF Client, Accepted
  <1> HIDE DEF d, es, e
  <1>4. ASSUME NEW S
        PROVE  /\ Occurs(d.events, S) <=> Occurs(es, S) \/ e \in S
               /\ Once(es, S) /\ (e \notin S \/ ~Occurs(es, S)) => Once(d.events, S)
    BY <1>1, AppendOccurs, AppendOnce
  <1>5. /\ s = "Connecting" /\ c.delay = "off"
        /\ ~Occurs(es, Requests) /\ ~Occurs(es, {"CONNECTED"})
        /\ ~Occurs(es, {"DISCONNECTED"})
    BY DEF ConnInv, OpeningInv, Occurs, es
  <1>6. RequestInv(s, d)
    BY <1>2, <1>4, <1>5 DEF RequestInv
  <1>7. DelayInv(s, d)
    <2>1. Preceded(es, {"DISCONNECTED"}, {"TIMER"})
            => Preceded(d.events, {"DISCONNECTED"}, {"TIMER"})
      BY <1>1, <1>2, AppendPreceded
    <2> QED
      BY <1>1, <1>2, <1>4, <1>5, <2>1 DEF DelayInv, ConnInv, es
  <1>8. AcceptInv(s, d)
    <2>1. Once(es, {"CONNECTED"})
      BY <1>5 DEF Once, Occurs
    <2>2. ~Occurs(d.events, {"DISCONNECTED"})
      BY <1>2, <1>4, <1>5
    <2>3. Before(d.events, {"CONNECTED"}, {"DISCONNECTED"})
      BY <2>2 DEF Before, Occurs
    <2> QED
      BY <1>4, <1>5, <2>1, <2>3 DEF AcceptInv
  <1>9. OpeningInv(s, d)
    BY <1>1 DEF OpeningInv
  <1>10. TokenInv(s, d)
    BY <1>1, <1>2, <1>4, <1>5 DEF TokenInv, Requested
  <1> QED
    BY <1>3, <1>6, <1>7, <1>8, <1>9, <1>10 DEF ConnInv, d

\* The record after its first event was taken from the queue.
Rest(c) == [c EXCEPT !.events = Tail(@)]

\* What is left of a record without its first event.
LEMMA RestFacts ==
  ASSUME NEW c \in Client, c.events # <<>>
  PROVE  /\ Rest(c) \in Client
         /\ Rest(c).delay = c.delay /\ Rest(c).connected = c.connected
         /\ Rest(c).link = c.link /\ Rest(c).failures = c.failures
         /\ Rest(c).events = Tail(c.events)
         /\ Head(c.events) \in Events
  <1>1. c.events \in Seq(Events)
    BY DEF Client
  <1>2. Tail(c.events) \in Seq(Events) /\ Head(c.events) \in Events
    BY <1>1, HeadTailProperties
  <1> QED
    BY <1>2 DEF Client, Rest

\* Handling an event for one of the queues leaves the connection alone.
LEMMA WorkTaken ==
  ASSUME NEW s, NEW c \in Client, ConnInv(s, c), c.events # <<>>,
         Head(c.events) \in Work
  PROVE  ConnInv(s, Rest(c))
  <1> DEFINE d == Rest(c)
             es == c.events
             e == Head(c.events)
  <1>1. /\ d.delay = c.delay /\ d.connected = c.connected /\ d.link = c.link
        /\ d.events = Tail(es) /\ es \in Seq(Events) /\ e = Head(es)
        /\ es # <<>>
    BY RestFacts DEF Client
  <1>2. /\ e \notin Requests /\ e \notin {"CONNECTED"} /\ e \notin {"TIMER"}
        /\ e \notin {"DISCONNECTED"}
        /\ e \notin Requests \cup {"CONNECTED", "DISCONNECTED"}
    BY DEF Work, Requests
  <1> HIDE DEF d, es, e
  <1>3. ASSUME NEW S
        PROVE  /\ Occurs(es, S) <=> e \in S \/ Occurs(d.events, S)
               /\ Once(es, S) => Once(d.events, S)
    BY <1>1, TailFacts
  <1>4. ASSUME NEW S, NEW T
        PROVE  /\ Before(es, S, T) => Before(d.events, S, T)
               /\ Preceded(es, S, T) /\ e \notin S => Preceded(d.events, S, T)
    BY <1>1, TailFacts
  <1>5. RequestInv(s, d)
    BY <1>1, <1>2, <1>3, <1>4 DEF RequestInv, ConnInv, es
  <1>6. DelayInv(s, d)
    BY <1>1, <1>2, <1>3, <1>4 DEF DelayInv, ConnInv, es
  <1>7. AcceptInv(s, d)
    BY <1>2, <1>3, <1>4 DEF AcceptInv, ConnInv, es
  <1>8. OpeningInv(s, d)
    BY <1>1, <1>2, <1>3 DEF OpeningInv, ConnInv, es
  <1>9. TokenInv(s, d)
    BY <1>1, <1>2, <1>3 DEF TokenInv, Requested, ConnInv, es
  <1> QED
    BY <1>5, <1>6, <1>7, <1>8, <1>9 DEF ConnInv, d

\* A posted request that is handled finds the state machine Disconnected, no
\* other request, and nothing else that concerns the connection.
LEMMA RequestTaken ==
  ASSUME NEW s, NEW c \in Client, ConnInv(s, c), c.events # <<>>,
         Head(c.events) \in Requests
  PROVE  /\ s = "Disconnected" /\ c.delay = "off" /\ ~c.connected
         /\ c.link # "opening"
         /\ ~Occurs(Tail(c.events), Requests)
         /\ ~Occurs(Tail(c.events), {"CONNECTED"})
         /\ ~Occurs(Tail(c.events), {"DISCONNECTED"})
         /\ ~Occurs(Tail(c.events), {"TIMER"})
  <1> DEFINE es == c.events
  <1>1. es \in Seq(Events) /\ es # <<>> /\ Head(es) \in Requests
    BY DEF Client
  <1> HIDE DEF es
  <1>2. Occurs(es, Requests)
    BY <1>1, TailFacts
  <1>3. /\ s = "Disconnected" /\ c.delay = "off" /\ Once(es, Requests)
        /\ ~Occurs(es, {"CONNECTED"}) /\ Before(es, {"DISCONNECTED"}, Requests)
        /\ ~c.connected
    BY <1>2 DEF ConnInv, RequestInv, TokenInv, Requested, es
  <1>4. ~Occurs(es, {"TIMER"})
    BY <1>3 DEF ConnInv, DelayInv, es
  <1>5. c.link # "opening"
    BY <1>3 DEF ConnInv, OpeningInv
  <1>6. ~Occurs(Tail(es), Requests) /\ ~Occurs(es, {"DISCONNECTED"})
    BY <1>1, <1>3, TailFacts
  <1>7. /\ ~Occurs(Tail(es), {"CONNECTED"}) /\ ~Occurs(Tail(es), {"DISCONNECTED"})
        /\ ~Occurs(Tail(es), {"TIMER"})
    BY <1>1, <1>3, <1>4, <1>6, TailFacts
  <1> QED
    BY <1>3, <1>5, <1>6, <1>7 DEF es

\* A record with nothing queued for the connection but a request that is posted.
LEMMA RequestPosted ==
  ASSUME NEW c \in Client, NEW e \in Requests,
         c.delay = "off", ~c.connected, c.link # "opening",
         ~Occurs(c.events, Requests), ~Occurs(c.events, {"CONNECTED"}),
         ~Occurs(c.events, {"TIMER"})
  PROVE  ConnInv("Disconnected", send_event(c, e))
  <1> DEFINE d == send_event(c, e)
             es == c.events
  <1>1. /\ d.delay = c.delay /\ d.connected = c.connected /\ d.link = c.link
        /\ d.events = Append(es, e) /\ es \in Seq(Events) /\ e \in Events
    BY DEF Client, send_event, Requests, Events
  <1>2. /\ e \in Requests /\ e \notin {"CONNECTED"} /\ e \notin {"TIMER"}
        /\ e \notin {"DISCONNECTED"}
    BY DEF Requests
  <1>3. ~Occurs(es, Requests) /\ ~Occurs(es, {"CONNECTED"}) /\ ~Occurs(es, {"TIMER"})
    OBVIOUS
  <1> HIDE DEF d, es
  <1>4. ASSUME NEW S
        PROVE  /\ Occurs(d.events, S) <=> Occurs(es, S) \/ e \in S
               /\ ~Occurs(es, S) => Once(d.events, S)
    <2>1. ~Occurs(es, S) => Once(es, S)
      BY DEF Once, Occurs
    <2> QED
      BY <1>1, <2>1, AppendOccurs, AppendOnce
  <1>5. Before(d.events, {"DISCONNECTED"}, Requests)
    <2>1. Before(es, {"DISCONNECTED"}, Requests)
      BY <1>3 DEF Before, Occurs
    <2> QED
      BY <1>1, <1>2, <2>1, AppendBefore
  <1>6. RequestInv("Disconnected", d)
    BY <1>1, <1>2, <1>3, <1>4, <1>5 DEF RequestInv
  <1>7. DelayInv("Disconnected", d)
    BY <1>1, <1>2, <1>3, <1>4 DEF DelayInv
  <1>8. AcceptInv("Disconnected", d)
    BY <1>2, <1>3, <1>4 DEF AcceptInv
  <1>9. OpeningInv("Disconnected", d)
    BY <1>1 DEF OpeningInv
  <1>10. TokenInv("Disconnected", d)
    BY <1>1, <1>2, <1>4 DEF TokenInv, Requested
  <1> QED
    BY <1>6, <1>7, <1>8, <1>9, <1>10 DEF ConnInv, d

\* The delay expires.
LEMMA DelayPosted ==
  ASSUME NEW s, NEW c \in Client, ConnInv(s, c), c.delay = "running"
  PROVE  ConnInv(s, send_event([c EXCEPT !.delay = "posted"], "TIMER"))
  <1> DEFINE d == send_event([c EXCEPT !.delay = "posted"], "TIMER")
             es == c.events
             e == "TIMER"
  <1>1. /\ d.delay = "posted" /\ d.connected = c.connected /\ d.link = c.link
        /\ d.events = Append(es, e) /\ es \in Seq(Events) /\ e \in Events
    BY DEF Client, send_event, Events
  <1>2. /\ e \notin Requests /\ e \notin {"CONNECTED"} /\ e \in {"TIMER"}
        /\ e \notin {"DISCONNECTED"}
    BY DEF Requests
  <1>3. /\ ~Occurs(es, {"TIMER"}) /\ ~Occurs(es, Requests) /\ ~c.connected
        /\ s = "Disconnected" \/ Occurs(es, {"DISCONNECTED"})
        /\ c.link # "opening"
    BY DEF ConnInv, DelayInv, RequestInv, OpeningInv, TokenInv, Requested, es
  <1> HIDE DEF d, es, e
  <1>4. ASSUME NEW S
        PROVE  /\ Occurs(d.events, S) <=> Occurs(es, S) \/ e \in S
               /\ Once(es, S) /\ (e \notin S \/ ~Occurs(es, S)) => Once(d.events, S)
    BY <1>1, AppendOccurs, AppendOnce
  <1>5. RequestInv(s, d)
    BY <1>2, <1>3, <1>4 DEF RequestInv
  <1>6. DelayInv(s, d)
    <2>1. s = "Disconnected" \/ Preceded(d.events, {"DISCONNECTED"}, {"TIMER"})
      BY <1>1, <1>3, AppendPreceded DEF ConnInv, DelayInv, es
    <2>2. Once(d.events, {"TIMER"})
      BY <1>3, <1>4 DEF ConnInv, DelayInv, es
    <2> QED
      BY <1>1, <1>2, <1>3, <1>4, <2>1, <2>2 DEF DelayInv
  <1>7. AcceptInv(s, d)
    <2>1. Before(es, {"CONNECTED"}, {"DISCONNECTED"})
            => Before(d.events, {"CONNECTED"}, {"DISCONNECTED"})
      BY <1>1, <1>2, AppendBefore
    <2> QED
      BY <1>2, <1>4, <2>1 DEF AcceptInv, ConnInv, es
  <1>8. OpeningInv(s, d)
    BY <1>1, <1>3 DEF OpeningInv
  <1>9. TokenInv(s, d)
    BY <1>1, <1>3 DEF TokenInv, Requested
  <1> QED
    BY <1>5, <1>6, <1>7, <1>8, <1>9 DEF ConnInv, d

\* The timer event is handled: the request follows.
LEMMA TimerTaken ==
  ASSUME NEW s, NEW c \in Client, ConnInv(s, c), c.events # <<>>,
         Head(c.events) = "TIMER"
  PROVE  ConnInv(s, send_event([Rest(c) EXCEPT !.delay = "off"], "CONNECT"))
  <1> DEFINE es == c.events
             d == [Rest(c) EXCEPT !.delay = "off"]
  <1>1. /\ es \in Seq(Events) /\ es # <<>> /\ Head(es) \in {"TIMER"}
    BY DEF Client
  <1>2. /\ d \in Client /\ d.delay = "off" /\ d.connected = c.connected
        /\ d.link = c.link /\ d.events = Tail(es)
    BY RestFacts DEF Client
  <1> HIDE DEF es, d
  <1>3. Occurs(es, {"TIMER"})
    BY <1>1, TailFacts
  <1>4. c.delay = "posted" /\ Once(es, {"TIMER"})
    BY <1>3 DEF ConnInv, DelayInv, es
  <1>5. s = "Disconnected"
    BY <1>1, TailFacts DEF ConnInv, DelayInv, es
  <1>6. /\ ~Occurs(es, Requests) /\ ~Occurs(es, {"CONNECTED"}) /\ ~c.connected
        /\ c.link # "opening"
    BY <1>4, <1>5
       DEF ConnInv, RequestInv, AcceptInv, OpeningInv, TokenInv, Requested, es
  <1>7. /\ ~Occurs(Tail(es), Requests) /\ ~Occurs(Tail(es), {"CONNECTED"})
        /\ ~Occurs(Tail(es), {"TIMER"})
    BY <1>1, <1>4, <1>6, TailFacts
  <1>8. "CONNECT" \in Requests
    BY DEF Requests
  <1>9. ConnInv("Disconnected", send_event(d, "CONNECT"))
    BY <1>2, <1>6, <1>7, <1>8, RequestPosted
  <1> QED
    BY <1>5, <1>9 DEF d

\* The state machine hears that the connection is established.
LEMMA ConnectedTaken ==
  ASSUME NEW s, NEW c \in Client, ConnInv(s, c), c.events # <<>>,
         Head(c.events) = "CONNECTED"
  PROVE  s = "Connecting" /\ ConnInv("Connected", Rest(c))
  <1> DEFINE d == Rest(c)
             es == c.events
             e == Head(c.events)
  <1>1. /\ d.delay = c.delay /\ d.connected = c.connected /\ d.link = c.link
        /\ d.events = Tail(es) /\ es \in Seq(Events) /\ e = Head(es)
        /\ es # <<>>
    BY RestFacts DEF Client
  <1>2. /\ e \notin Requests /\ e \in {"CONNECTED"} /\ e \notin {"TIMER"}
        /\ e \notin {"DISCONNECTED"}
    BY DEF Requests
  <1> HIDE DEF d, es, e
  <1>3. ASSUME NEW S
        PROVE  /\ Occurs(es, S) <=> e \in S \/ Occurs(d.events, S)
               /\ Once(es, S) => Once(d.events, S)
    BY <1>1, TailFacts
  <1>4. /\ s = "Connecting" /\ Once(es, {"CONNECTED"}) /\ Occurs(es, {"CONNECTED"})
        /\ ~Occurs(es, Requests)
    BY <1>2, <1>3 DEF ConnInv, AcceptInv, RequestInv, es
  <1>5. ~Occurs(d.events, {"CONNECTED"}) /\ ~Occurs(d.events, Requests)
    <2>1. Once(es, {"CONNECTED"}) /\ Head(es) \in {"CONNECTED"}
            => ~Occurs(Tail(es), {"CONNECTED"})
      BY <1>1, TailFacts
    <2> QED
      BY <1>1, <1>2, <1>3, <1>4, <2>1
  <1>6. c.link # "opening"
    BY <1>4 DEF ConnInv, OpeningInv, Occurs, es
  <1>7. RequestInv("Connected", d)
    BY <1>5 DEF RequestInv
  <1>8. DelayInv("Connected", d)
    <2>1. Preceded(es, {"DISCONNECTED"}, {"TIMER"})
            => Preceded(d.events, {"DISCONNECTED"}, {"TIMER"})
      BY <1>1, <1>2, TailFacts
    <2> QED
      BY <1>1, <1>2, <1>3, <1>4, <2>1 DEF DelayInv, ConnInv, es
  <1>9. AcceptInv("Connected", d)
    BY <1>5 DEF AcceptInv
  <1>10. OpeningInv("Connected", d)
    BY <1>1, <1>6 DEF OpeningInv
  <1>11. TokenInv("Connected", d)
    BY <1>1, <1>2, <1>3, <1>4, <1>5 DEF TokenInv, Requested, ConnInv, es
  <1> QED
    BY <1>4, <1>7, <1>8, <1>9, <1>10, <1>11 DEF ConnInv, d

\* The state machine hears of a disconnection.
LEMMA DisconnectedTaken ==
  ASSUME NEW s, NEW c \in Client, ConnInv(s, c), c.events # <<>>,
         Head(c.events) = "DISCONNECTED"
  PROVE  ConnInv("Disconnected", Rest(c))
  <1> DEFINE d == Rest(c)
             es == c.events
             e == Head(c.events)
  <1>1. /\ d.delay = c.delay /\ d.connected = c.connected /\ d.link = c.link
        /\ d.events = Tail(es) /\ es \in Seq(Events) /\ e = Head(es)
        /\ es # <<>>
    BY RestFacts DEF Client
  <1>2. /\ e \notin Requests /\ e \notin {"CONNECTED"} /\ e \notin {"TIMER"}
        /\ e \in {"DISCONNECTED"}
    BY DEF Requests
  <1> HIDE DEF d, es, e
  <1>3. ASSUME NEW S
        PROVE  /\ Occurs(es, S) <=> e \in S \/ Occurs(d.events, S)
               /\ Once(es, S) => Once(d.events, S)
    BY <1>1, TailFacts
  <1>4. ASSUME NEW S, NEW T
        PROVE  /\ Before(es, S, T) => Before(d.events, S, T)
               /\ Before(es, S, T) /\ e \in T => ~Occurs(es, S)
    BY <1>1, TailFacts
  <1>5. Occurs(es, {"DISCONNECTED"}) /\ ~Occurs(es, {"CONNECTED"})
    BY <1>2, <1>3, <1>4 DEF ConnInv, AcceptInv, es
  <1>6. c.link # "opening"
    BY <1>5 DEF ConnInv, OpeningInv, Occurs, es
  <1>7. RequestInv("Disconnected", d)
    BY <1>1, <1>2, <1>3, <1>4 DEF RequestInv, ConnInv, es
  <1>8. DelayInv("Disconnected", d)
    BY <1>1, <1>2, <1>3 DEF DelayInv, ConnInv, es
  <1>9. AcceptInv("Disconnected", d)
    BY <1>3, <1>5 DEF AcceptInv
  <1>10. OpeningInv("Disconnected", d)
    BY <1>1, <1>6 DEF OpeningInv
  <1>11. TokenInv("Disconnected", d)
    BY <1>1, <1>2, <1>3, <1>5 DEF TokenInv, Requested, ConnInv, es
  <1> QED
    BY <1>7, <1>8, <1>9, <1>10, <1>11 DEF ConnInv, d

\* A connection with no request and no news in the queue is being opened.
LEMMA ConnectionOpened ==
  ASSUME NEW c \in Client, c.delay = "off", c.connected, c.link = "opening",
         ~Occurs(c.events, Requests), ~Occurs(c.events, {"CONNECTED"}),
         ~Occurs(c.events, {"DISCONNECTED"}), ~Occurs(c.events, {"TIMER"})
  PROVE  ConnInv("Connecting", c)
  <1>1. ~Occurs(c.events, Requests \cup {"CONNECTED", "DISCONNECTED"})
    BY DEF Occurs
  <1>2. Once(c.events, {"TIMER"}) /\ Preceded(c.events, {"DISCONNECTED"}, {"TIMER"})
    BY DEF Occurs, Once, Preceded
  <1> QED
    BY <1>1, <1>2 DEF ConnInv, RequestInv, DelayInv, AcceptInv, OpeningInv,
                      TokenInv, Requested

\* The connection that is opened or open is lost.
LEMMA ConnectionFails ==
  ASSUME NEW s, NEW c \in Client, NEW d, ConnInv(s, c), c.link # "closed",
         d.events = c.events, d.delay = c.delay, d.connected = c.connected,
         d.link = "lost"
  PROVE  ConnInv(s, d)
  BY DEF ConnInv, RequestInv, DelayInv, AcceptInv, OpeningInv, TokenInv, Requested

-----------------------------------------------------------------------------
(* The queues.                                                             *)

\* An event for one of the queues, posted unless it is queued.
LEMMA SendOnce ==
  ASSUME NEW s, NEW c \in Client, ConnInv(s, c), NEW e \in Work
  PROVE  /\ send_once(c, e) \in Client
         /\ ConnInv(s, send_once(c, e))
         /\ Occurs(send_once(c, e).events, {e})
         /\ \A S : Occurs(c.events, S) => Occurs(send_once(c, e).events, S)
         /\ Occurs(send_once(c, e).events, {"DISCONNECTED"})
              => Occurs(c.events, {"DISCONNECTED"})
  <1>1. e \in Events /\ e \notin {"DISCONNECTED"} /\ c.events \in Seq(Events)
    BY DEF Work, Events, Client
  <1>2. CASE Queued(c.events, e)
    BY <1>1, <1>2, QueuedOccurs DEF send_once
  <1>3. CASE ~Queued(c.events, e)
    <2>1. send_once(c, e) = send_event(c, e)
      BY <1>3 DEF send_once
    <2>2. send_event(c, e).events = Append(c.events, e)
      BY DEF send_event, Client
    <2>3. ConnInv(s, send_event(c, e)) /\ send_event(c, e) \in Client
      BY <1>1, WorkPosted, SendEventType
    <2>4. \A S : Occurs(Append(c.events, e), S) <=> Occurs(c.events, S) \/ e \in S
      BY <1>1, AppendOccurs
    <2> QED
      BY <1>1, <2>1, <2>2, <2>3, <2>4
  <1> QED
    BY <1>2, <1>3

\* The same for a queue that is not empty.
LEMMA WokenUp ==
  ASSUME NEW s, NEW c \in Client, ConnInv(s, c), NEW e \in Work, NEW queue
  PROVE  /\ WakeUpFor(c, queue, e) \in Client
         /\ ConnInv(s, WakeUpFor(c, queue, e))
         /\ queue # <<>> => Occurs(WakeUpFor(c, queue, e).events, {e})
         /\ \A S : Occurs(c.events, S) => Occurs(WakeUpFor(c, queue, e).events, S)
         /\ Occurs(WakeUpFor(c, queue, e).events, {"DISCONNECTED"})
              => Occurs(c.events, {"DISCONNECTED"})
  BY SendOnce DEF WakeUpFor

\* A connection that is gone serves no queue.
LEMMA GoneServed ==
  ASSUME NEW s, NEW c \in Client, NEW pq, NEW sq, NEW uq
  PROVE  Served(s, on_disconnect(c), pq, sq, uq)
  <1>1. on_disconnect(c).events = Append(c.events, "DISCONNECTED")
    BY DEF Client, on_disconnect, send_delayed_event, send_event
  <1>2. Occurs(Append(c.events, "DISCONNECTED"), {"DISCONNECTED"})
    BY AppendOccurs DEF Client, Events
  <1> QED
    BY <1>1, <1>2 DEF Served

\* An event of another kind that is taken from the queue, or added, does not
\* matter to the queues; nor does an event while there is no connection.
LEMMA RestServed ==
  ASSUME NEW s, NEW c \in Client, c.events # <<>>, NEW pq, NEW sq, NEW uq,
         Served(s, c, pq, sq, uq),
         Head(c.events) \notin Work \cup {"DISCONNECTED"}
  PROVE  Served(s, Rest(c), pq, sq, uq)
  <1>1. /\ c.events \in Seq(Events)
        /\ Rest(c).events = Tail(c.events)
    BY RestFacts DEF Client
  <1>2. \A S : Occurs(c.events, S) <=> Head(c.events) \in S \/ Occurs(Tail(c.events), S)
    BY <1>1, TailFacts
  <1> QED
    BY <1>1, <1>2 DEF Served, Work

\* An event that is added does not matter to the queues.
LEMMA PostedServed ==
  ASSUME NEW s, NEW c \in Client, NEW e \in Events, NEW pq, NEW sq, NEW uq,
         Served(s, c, pq, sq, uq)
  PROVE  Served(s, send_event(c, e), pq, sq, uq)
  <1>1. /\ c.events \in Seq(Events)
        /\ send_event(c, e).events = Append(c.events, e)
    BY DEF Client, send_event
  <1>2. \A S : Occurs(Append(c.events, e), S) <=> Occurs(c.events, S) \/ e \in S
    BY <1>1, AppendOccurs
  <1> QED
    BY <1>1, <1>2 DEF Served

-----------------------------------------------------------------------------
(* One lemma for every step.                                               *)

\* What is left to show once the record of the next state is known.
LEMMA Kept ==
  ASSUME NEW c \in Client, StoreClient(c), DataOK',
         running' => /\ ConnInv(current_state', c)
                     /\ Served(current_state', c, publishing_queue',
                               subscription_queue', unsubscription_queue')
  PROVE  IInv'
  <1>1. CurrentClient' = c
    BY Stored
  <1>2. TypeOK'
    BY DEF DataOK, TypeOK, StoreClient, Client
  <1> QED
    BY <1>1, <1>2 DEF IInv

\* The facts a step starts from.
LEMMA Start ==
  ASSUME IInv, running
  PROVE  /\ CurrentClient \in Client /\ DataOK
         /\ CurrentClient.events = events /\ CurrentClient.delay = delay
         /\ CurrentClient.link = link /\ CurrentClient.failures = failures
         /\ ConnInv(current_state, CurrentClient)
         /\ Served(current_state, CurrentClient, publishing_queue,
                   subscription_queue, unsubscription_queue)
  BY CurrentType DEF IInv, TypeOK, DataOK, CurrentClient

\* The facts from which an event is handled.
LEMMA HandledFacts ==
  ASSUME IInv, NEW e, Dequeue(e)
  PROVE  /\ CurrentClient.events # <<>> /\ Head(CurrentClient.events) = e
         /\ Handled = Rest(CurrentClient) /\ Handled \in Client
         /\ Handled.events = Tail(events) /\ Handled.delay = delay
         /\ Handled.connected = connected_to_broker
         /\ Handled.link = link /\ Handled.failures = failures
  <1>1. CurrentClient.events # <<>> /\ Head(CurrentClient.events) = e
    BY DEF Dequeue, CurrentClient
  <1>2. Handled = Rest(CurrentClient)
    BY DEF Handled, Rest
  <1> QED
    BY <1>1, <1>2, Start, RestFacts DEF Dequeue, CurrentClient

\* A request that is handled keeps the invariant: the transition is posted.
LEMMA EventConnectKeeps ==
  ASSUME IInv, EventConnect
  PROVE  IInv'
  <1> DEFINE c == CurrentClient
             s == current_state
             e == "CONNECT"
  <1>1. Dequeue("CONNECT") /\ running
    BY DEF EventConnect, Dequeue
  <1>2. /\ c \in Client /\ c.events # <<>> /\ Head(c.events) = "CONNECT"
        /\ Handled = Rest(c) /\ Handled \in Client /\ ConnInv(s, c)
        /\ Served(s, c, publishing_queue, subscription_queue, unsubscription_queue)
        /\ DataOK
    BY <1>1, Start, HandledFacts
  <1>3. "CONNECT" \in Requests /\ "CONNECTING" \in Requests
    BY DEF Requests
  <1>4. /\ s = "Disconnected" /\ c.delay = "off" /\ ~c.connected
        /\ c.link # "opening" /\ ~Occurs(Tail(c.events), Requests)
        /\ ~Occurs(Tail(c.events), {"CONNECTED"})
        /\ ~Occurs(Tail(c.events), {"TIMER"})
    BY <1>2, <1>3, RequestTaken
  <1>5. ConnInv("Disconnected", send_event(Handled, "CONNECTING"))
    <2>1. /\ Handled.events = Tail(c.events) /\ Handled.delay = c.delay
          /\ Handled.connected = c.connected /\ Handled.link = c.link
      BY <1>2, RestFacts
    <2> QED
      BY <1>2, <1>3, <1>4, <2>1, RequestPosted
  <1>6. send_event(Handled, "CONNECTING") \in Client
    BY <1>2, SendEventType DEF Events
  <1>7. StoreClient(send_event(Handled, "CONNECTING"))
    BY <1>4 DEF EventConnect
  <1>8. DataOK'
    BY <1>2 DEF EventConnect, DataOK, pubVars, subVars, brokerVars
  <1>9. current_state' = "Disconnected"
    BY <1>4 DEF EventConnect
  <1> QED
    BY <1>5, <1>6, <1>7, <1>8, <1>9, Kept DEF Served

\* Entering Disconnected keeps the invariant.
LEMMA EventDisconnectedKeeps ==
  ASSUME IInv, EventDisconnected
  PROVE  IInv'
  <1> DEFINE c == CurrentClient
  <1>1. Dequeue("DISCONNECTED") /\ running
    BY DEF EventDisconnected, Dequeue
  <1>2. /\ c \in Client /\ c.events # <<>> /\ Head(c.events) = "DISCONNECTED"
        /\ Handled = Rest(c) /\ Handled \in Client /\ ConnInv(current_state, c)
        /\ DataOK
    BY <1>1, Start, HandledFacts
  <1>3. ConnInv("Disconnected", Handled)
    BY <1>2, DisconnectedTaken
  <1>4. DataOK'
    BY <1>2 DEF EventDisconnected, DataOK, pubVars, subVars, brokerVars, FsmStates
  <1>5. StoreClient(Handled) /\ current_state' = "Disconnected"
    BY DEF EventDisconnected
  <1> QED
    BY <1>2, <1>3, <1>4, <1>5, Kept DEF Served

\* The delayed request, when its timer event is handled, keeps the invariant.
LEMMA EventTimerKeeps ==
  ASSUME IInv, EventTimer
  PROVE  IInv'
  <1> DEFINE c == CurrentClient
             d == send_event([Handled EXCEPT !.delay = "off"], "CONNECT")
  <1>1. Dequeue("TIMER") /\ running
    BY DEF EventTimer, Dequeue
  <1>2. /\ c \in Client /\ c.events # <<>> /\ Head(c.events) = "TIMER"
        /\ Handled = Rest(c) /\ Handled \in Client /\ ConnInv(current_state, c)
        /\ Served(current_state, c, publishing_queue, subscription_queue,
                  unsubscription_queue)
        /\ DataOK
    BY <1>1, Start, HandledFacts
  <1>3. ConnInv(current_state, d)
    BY <1>2, TimerTaken
  <1>4. d \in Client
    <2>1. [Handled EXCEPT !.delay = "off"] \in Client
      BY <1>2 DEF Client
    <2> QED
      BY <2>1, SendEventType DEF Events
  <1>5. Served(current_state, d, publishing_queue, subscription_queue,
               unsubscription_queue)
    <2>1. current_state = "Disconnected"
      <3>1. c.events \in Seq(Events) /\ Head(c.events) \in {"TIMER"}
        BY <1>2 DEF Client
      <3>2. ~Preceded(c.events, {"DISCONNECTED"}, {"TIMER"})
        BY <1>2, <3>1, TailFacts
      <3> QED
        BY <1>2, <3>2 DEF ConnInv, DelayInv
    <2> QED
      BY <2>1 DEF Served
  <1>6. DataOK' /\ UNCHANGED <<current_state, publishing_queue,
                               subscription_queue, unsubscription_queue>>
    BY <1>2 DEF EventTimer, DataOK, pubVars, subVars, brokerVars
  <1>7. StoreClient(d)
    BY DEF EventTimer
  <1> HIDE DEF d
  <1> QED
    BY <1>3, <1>4, <1>5, <1>6, <1>7, Kept

\* The expiry of the delay keeps the invariant.
LEMMA DelayExpiresKeeps ==
  ASSUME IInv, DelayExpires
  PROVE  IInv'
  <1> DEFINE c == CurrentClient
             b == [c EXCEPT !.delay = "posted"]
             d == send_event(b, "TIMER")
  <1>1. running /\ delay = "running"
    BY DEF DelayExpires
  <1>2. /\ c \in Client /\ c.delay = "running" /\ ConnInv(current_state, c)
        /\ Served(current_state, c, publishing_queue, subscription_queue,
                  unsubscription_queue)
        /\ DataOK
    BY <1>1, Start
  <1>3. ConnInv(current_state, d)
    BY <1>2, DelayPosted
  <1>4. b \in Client /\ d \in Client
    <2>1. b \in Client
      BY <1>2 DEF Client
    <2> QED
      BY <2>1, SendEventType DEF Events
  <1>5. Served(current_state, d, publishing_queue, subscription_queue,
               unsubscription_queue)
    <2>1. Served(current_state, b, publishing_queue, subscription_queue,
                 unsubscription_queue)
      BY <1>2 DEF Served, Client
    <2> QED
      BY <1>4, <2>1, PostedServed DEF Events
  <1>6. DataOK' /\ UNCHANGED <<current_state, publishing_queue,
                               subscription_queue, unsubscription_queue>>
    BY <1>2 DEF DelayExpires, DataOK, pubVars, subVars, brokerVars
  <1>7. StoreClient(d)
    BY DEF DelayExpires, StoreClient, send_event, CurrentClient
  <1> HIDE DEF d
  <1> QED
    BY <1>3, <1>4, <1>5, <1>6, <1>7, Kept

\* A loss that the client does not notice yet keeps the invariant.
LEMMA ConnectionLostKeeps ==
  ASSUME IInv, ConnectionLost
  PROVE  IInv'
  <1> DEFINE c == CurrentClient
             d == [c EXCEPT !.link = "lost", !.failures = @ + 1]
  <1>1. /\ running /\ link # "closed" /\ failures < MaxFailures
        /\ failures \in 0..MaxFailures /\ MaxFailures \in Nat
    BY BoundAssumption DEF ConnectionLost, IInv, TypeOK
  <1>2. /\ c \in Client /\ c.link # "closed" /\ c.failures = failures
        /\ ConnInv(current_state, c)
        /\ Served(current_state, c, publishing_queue, subscription_queue,
                  unsubscription_queue)
        /\ DataOK
    BY <1>1, Start
  <1>3. /\ d \in Client /\ d.events = c.events /\ d.delay = c.delay
        /\ d.connected = c.connected /\ d.link = "lost"
    <2>1. failures + 1 \in 0..MaxFailures
      BY <1>1
    <2> QED
      BY <1>2, <2>1 DEF Client
  <1>4. ConnInv(current_state, d)
    BY <1>2, <1>3, ConnectionFails
  <1>5. Served(current_state, d, publishing_queue, subscription_queue,
               unsubscription_queue)
    BY <1>2, <1>3 DEF Served
  <1>6. DataOK' /\ UNCHANGED <<current_state, publishing_queue,
                               subscription_queue, unsubscription_queue>>
    BY <1>2 DEF ConnectionLost, DataOK, pubVars, subVars, brokerVars
  <1>7. StoreClient(d)
    BY DEF ConnectionLost, StoreClient, CurrentClient
  <1> HIDE DEF d
  <1> QED
    BY <1>3, <1>4, <1>5, <1>6, <1>7, Kept

\* What poll finds keeps the invariant.
LEMMA PollOutcome ==
  ASSUME NEW s, NEW c \in Client, ConnInv(s, c), s # "Disconnected",
         NEW d \in PollOutcomes(c), NEW pq, NEW sq, NEW uq,
         Served(s, c, pq, sq, uq)
  PROVE  d \in Client /\ ConnInv(s, d) /\ Served(s, d, pq, sq, uq)
  <1>1. CASE c.link = "opening" /\ d = Accepted(c)
    <2>1. d \in Client /\ ConnInv(s, d)
      BY <1>1, ConnectionAccepted
    <2>2. s = "Connecting"
      BY <1>1 DEF ConnInv, OpeningInv
    <2> QED
      BY <2>1, <2>2 DEF Served
  <1>2. CASE c.link = "opening" /\ c.failures < MaxFailures /\ d = Refused(c)
    <2> DEFINE b == [c EXCEPT !.connected = FALSE, !.link = "closed",
                              !.failures = @ + 1]
    <2>1. /\ b \in Client /\ b.link = "closed" /\ b.events = c.events
          /\ b.delay = c.delay
      <3>1. c.failures + 1 \in 0..MaxFailures
        BY <1>2, BoundAssumption DEF Client
      <3> QED
        BY <3>1 DEF Client
    <2>2. RequestInv(s, b) /\ DelayInv(s, b) /\ AcceptInv(s, b)
      BY <2>1 DEF ConnInv, RequestInv, DelayInv, AcceptInv
    <2>3. d = on_disconnect(b)
      BY <1>2 DEF Refused
    <2> HIDE DEF b
    <2> QED
      BY <2>1, <2>2, <2>3, ConnectionGone, OnDisconnectType, GoneServed
  <1>3. CASE c.link = "lost" /\ d = LossFound(c)
    <2> DEFINE b == [c EXCEPT !.link = "closed"]
    <2>1. /\ b \in Client /\ b.link = "closed" /\ b.events = c.events
          /\ b.delay = c.delay
      BY DEF Client
    <2>2. RequestInv(s, b) /\ DelayInv(s, b) /\ AcceptInv(s, b)
      BY <2>1 DEF ConnInv, RequestInv, DelayInv, AcceptInv
    <2>3. d = on_disconnect(b)
      BY <1>3 DEF LossFound
    <2> HIDE DEF b
    <2> QED
      BY <2>1, <2>2, <2>3, ConnectionGone, OnDisconnectType, GoneServed
  <1> QED
    BY <1>1, <1>2, <1>3 DEF PollOutcomes

\* Polling the library keeps the invariant.
LEMMA PollKeeps ==
  ASSUME IInv, Poll
  PROVE  IInv'
  <1>1. running /\ current_state # "Disconnected"
    BY DEF Poll
  <1>2. PICK d \in PollOutcomes(CurrentClient) : StoreClient(d)
    BY DEF Poll
  <1>3. /\ d \in Client /\ ConnInv(current_state, d)
        /\ Served(current_state, d, publishing_queue, subscription_queue,
                  unsubscription_queue)
    BY <1>1, <1>2, Start, PollOutcome
  <1>4. DataOK' /\ UNCHANGED <<current_state, publishing_queue,
                               subscription_queue, unsubscription_queue>>
    BY <1>1, Start DEF Poll, DataOK, pubVars, subVars, brokerVars
  <1> QED
    BY <1>2, <1>3, <1>4, Kept

\* An attempt to connect keeps the invariant, however it ends.
LEMMA EventConnectingKeeps ==
  ASSUME IInv, EventConnecting
  PROVE  IInv'
  <1> DEFINE c == CurrentClient
             opened == [Handled EXCEPT !.connected = TRUE, !.link = "opening"]
             failed == [Handled EXCEPT !.link = "closed", !.failures = @ + 1]
  <1>1. Dequeue("CONNECTING") /\ running
    BY DEF EventConnecting, Dequeue
  <1>2. /\ c \in Client /\ c.events # <<>> /\ Head(c.events) = "CONNECTING"
        /\ Handled = Rest(c) /\ Handled \in Client /\ ConnInv(current_state, c)
        /\ Handled.failures = failures /\ DataOK
    BY <1>1, Start, HandledFacts
  <1>3. "CONNECTING" \in Requests
    BY DEF Requests
  <1>4. /\ current_state = "Disconnected" /\ Handled.delay = "off"
        /\ ~Handled.connected /\ ~Occurs(Handled.events, Requests)
        /\ ~Occurs(Handled.events, {"CONNECTED"})
        /\ ~Occurs(Handled.events, {"DISCONNECTED"})
        /\ ~Occurs(Handled.events, {"TIMER"})
    BY <1>2, <1>3, RequestTaken, RestFacts
  <1>5. current_state' = "Connecting" /\ running'
    BY <1>1, <1>4 DEF EventConnecting
  <1>6. DataOK'
    BY <1>2, <1>4 DEF EventConnecting, DataOK, pubVars, subVars, FsmStates
  <1>7. opened \in Client /\ ConnInv("Connecting", opened)
    <2>1. /\ opened \in Client /\ opened.delay = "off" /\ opened.connected
          /\ opened.link = "opening" /\ opened.events = Handled.events
      BY <1>2, <1>4 DEF Client
    <2> HIDE DEF opened
    <2> QED
      BY <1>4, <2>1, ConnectionOpened
  <1>8. CASE \E d \in PollOutcomes(opened) \cup {opened} : StoreClient(d)
    <2>1. PICK d \in PollOutcomes(opened) \cup {opened} : StoreClient(d)
      BY <1>8
    <2>2. Served("Connecting", opened, publishing_queue', subscription_queue',
                 unsubscription_queue')
      BY DEF Served
    <2> HIDE DEF opened
    <2>3. /\ d \in Client /\ ConnInv("Connecting", d)
          /\ Served("Connecting", d, publishing_queue', subscription_queue',
                    unsubscription_queue')
      BY <1>7, <2>1, <2>2, PollOutcome
    <2> QED
      BY <1>5, <1>6, <2>1, <2>3, Kept
  <1>9. CASE /\ failures < MaxFailures
             /\ StoreClient(send_delayed_event(send_event(failed, "DISCONNECTED")))
    <2>1. /\ failed \in Client /\ failed.link = "closed"
          /\ failed.events = Handled.events /\ failed.delay = "off"
          /\ ~failed.connected
      <3>1. failures + 1 \in 0..MaxFailures
        BY <1>2, <1>9, BoundAssumption DEF Client
      <3> QED
        BY <1>2, <1>4, <3>1 DEF Client
    <2> HIDE DEF failed
    <2>2. send_delayed_event(send_event(failed, "DISCONNECTED")) = on_disconnect(failed)
      BY <2>1 DEF on_disconnect, send_delayed_event, send_event, Client
    <2>3. /\ RequestInv("Connecting", failed) /\ AcceptInv("Connecting", failed)
          /\ DelayInv("Connecting", failed)
      BY <1>4, <2>1 DEF RequestInv, AcceptInv, DelayInv, Occurs, Once, Preceded
    <2>4. ConnInv("Connecting", on_disconnect(failed))
      BY <2>1, <2>3, ConnectionGone
    <2> QED
      BY <1>5, <1>6, <1>9, <2>1, <2>2, <2>4, OnDisconnectType, Kept DEF Served
  <1> QED
    BY <1>4, <1>8, <1>9 DEF EventConnecting

-----------------------------------------------------------------------------
(* Steps that change the queues and the broker.                            *)

\* A finite set has sequences that hold each element once; they are sequences
\* of topics when the set is one of topics.
LEMMA OrdersType ==
  ASSUME NEW S \in SUBSET Topics, NEW q \in Orders(S)
  PROVE  q \in Seq(Topics)
  <1>1. Cardinality(S) \in Nat
    BY TopicAssumption, FS_Subset, FS_CardinalityType
  <1>2. q \in [1..Cardinality(S) -> Topics]
    BY DEF Orders
  <1> QED
    BY <1>1, <1>2, SeqDef

\* Entering Connected keeps the invariant: all three queues are woken up for.
LEMMA EventConnectedKeeps ==
  ASSUME IInv, EventConnected
  PROVE  IInv'
  <1> DEFINE c == CurrentClient
  <1>1. Dequeue("CONNECTED") /\ running
    BY DEF EventConnected, Dequeue
  <1>2. /\ c \in Client /\ c.events # <<>> /\ Head(c.events) = "CONNECTED"
        /\ Handled = Rest(c) /\ Handled \in Client /\ ConnInv(current_state, c)
        /\ DataOK
    BY <1>1, Start, HandledFacts
  <1>3. current_state = "Connecting" /\ ConnInv("Connected", Handled)
    BY <1>2, ConnectedTaken
  <1>4. current_state' = "Connected"
    BY <1>3 DEF EventConnected
  <1>5. PICK q \in Orders(Subscribed) :
          /\ subscription_queue' = subscription_queue \o q
          /\ StoreClient(
               WakeUpFor(WakeUpFor(WakeUpFor(Handled,
                  subscription_queue', "SUBSCRIBE"),
                  publishing_queue, "PUBLISH"),
                  unsubscription_queue, "UNSUBSCRIBE"))
    BY <1>3 DEF EventConnected
  <1>6. subscription_queue' \in Seq(Topics)
    <2>1. q \in Seq(Topics)
      BY <1>5, OrdersType DEF Subscribed
    <2> QED
      BY <1>2, <1>5, <2>1, ConcatProperties DEF DataOK
  <1>7. DataOK' /\ UNCHANGED <<publishing_queue, unsubscription_queue>>
    BY <1>2, <1>4, <1>6 DEF EventConnected, DataOK, pubVars, brokerVars, FsmStates
  <1> DEFINE c1 == WakeUpFor(Handled, subscription_queue', "SUBSCRIBE")
             c2 == WakeUpFor(c1, publishing_queue, "PUBLISH")
             c3 == WakeUpFor(c2, unsubscription_queue, "UNSUBSCRIBE")
  <1>8. "SUBSCRIBE" \in Work /\ "PUBLISH" \in Work /\ "UNSUBSCRIBE" \in Work
    BY DEF Work
  <1>9. /\ c1 \in Client /\ ConnInv("Connected", c1)
        /\ subscription_queue' # <<>> => Occurs(c1.events, {"SUBSCRIBE"})
    BY <1>2, <1>3, <1>8, WokenUp
  <1>10. StoreClient(c3)
    BY <1>5
  <1> HIDE DEF c1
  <1>11. /\ c2 \in Client /\ ConnInv("Connected", c2)
         /\ publishing_queue # <<>> => Occurs(c2.events, {"PUBLISH"})
         /\ \A S : Occurs(c1.events, S) => Occurs(c2.events, S)
    BY <1>8, <1>9, WokenUp
  <1> HIDE DEF c2
  <1>12. /\ c3 \in Client /\ ConnInv("Connected", c3)
         /\ unsubscription_queue # <<>> => Occurs(c3.events, {"UNSUBSCRIBE"})
         /\ \A S : Occurs(c2.events, S) => Occurs(c3.events, S)
    BY <1>8, <1>11, WokenUp
  <1> HIDE DEF c3
  <1>13. Served("Connected", c3, publishing_queue', subscription_queue',
                unsubscription_queue')
    BY <1>7, <1>9, <1>11, <1>12 DEF Served
  <1> QED
    BY <1>4, <1>7, <1>10, <1>12, <1>13, Kept

\* A queue event that is handled, as far as the connection and the other queues
\* are concerned: nothing is sent, or its queue is woken up for, or the
\* connection is found to be lost.
LEMMA QueueEvent ==
  ASSUME IInv, NEW e \in Work, Dequeue(e), NEW queue
  PROVE  LET woken == WakeUpFor(Handled, queue, e)
             gone == on_disconnect(Handled)
         IN  /\ Handled \in Client /\ ConnInv(current_state, Handled)
             /\ woken \in Client /\ ConnInv(current_state, woken)
             /\ queue # <<>> => Occurs(woken.events, {e})
             /\ \A S : Occurs(events, S) /\ e \notin S =>
                  Occurs(Handled.events, S) /\ Occurs(woken.events, S)
             /\ Occurs(woken.events, {"DISCONNECTED"})
                  => Occurs(events, {"DISCONNECTED"})
             /\ Occurs(Handled.events, {"DISCONNECTED"})
                  => Occurs(events, {"DISCONNECTED"})
             /\ current_state = "Connected" =>
                  gone \in Client /\ ConnInv(current_state, gone)
  <1> DEFINE c == CurrentClient
             woken == WakeUpFor(Handled, queue, e)
  <1>1. running
    BY DEF Dequeue
  <1>2. /\ c \in Client /\ c.events # <<>> /\ Head(c.events) = e
        /\ Handled = Rest(c) /\ Handled \in Client /\ ConnInv(current_state, c)
        /\ c.events = events /\ Handled.events = Tail(c.events)
    BY <1>1, Start, HandledFacts
  <1>3. ConnInv(current_state, Handled)
    BY <1>2, WorkTaken
  <1>4. \A S : Occurs(events, S) <=> e \in S \/ Occurs(Handled.events, S)
    BY <1>2, TailFacts DEF Client
  <1>5. /\ woken \in Client /\ ConnInv(current_state, woken)
        /\ queue # <<>> => Occurs(woken.events, {e})
        /\ \A S : Occurs(Handled.events, S) => Occurs(woken.events, S)
        /\ Occurs(woken.events, {"DISCONNECTED"})
             => Occurs(Handled.events, {"DISCONNECTED"})
    BY <1>2, <1>3, WokenUp
  <1>6. ASSUME current_state = "Connected"
        PROVE  /\ on_disconnect(Handled) \in Client
               /\ ConnInv(current_state, on_disconnect(Handled))
    <2>1. Handled.link # "opening" /\ current_state # "Disconnected"
      BY <1>3, <1>6 DEF ConnInv, OpeningInv
    <2> QED
      BY <1>2, <1>3, <2>1, OnDisconnectType, ConnectionGone DEF ConnInv
  <1> HIDE DEF woken
  <1>7. \A S : Occurs(events, S) /\ e \notin S =>
                  Occurs(Handled.events, S) /\ Occurs(woken.events, S)
    BY <1>4, <1>5
  <1>8. /\ Occurs(Handled.events, {"DISCONNECTED"}) => Occurs(events, {"DISCONNECTED"})
        /\ Occurs(woken.events, {"DISCONNECTED"}) => Occurs(events, {"DISCONNECTED"})
    BY <1>4, <1>5
  <1> QED
    BY <1>2, <1>3, <1>5, <1>6, <1>7, <1>8 DEF woken

\* A set of positions that is not empty has a last one.
LEMMA LastPosition ==
  ASSUME NEW n \in Nat, NEW I \in SUBSET (1..n), I # {}
  PROVE  \E i \in I : \A j \in I : j <= i
  <1> DEFINE D == {n - i : i \in I}
  <1>0. \A j \in I : j \in 1..n
    OBVIOUS
  <1>1. D \subseteq Nat /\ D # {}
    <2>1. \A j \in I : n - j \in Nat
      BY <1>0
    <2>2. PICK j \in I : TRUE
      OBVIOUS
    <2>3. n - j \in D
      BY <2>2
    <2> QED
      BY <2>1, <2>3
  <1> DEFINE R == OpToRel(<, Nat)
  <1>2. IsWellFoundedOn(R, Nat)
    BY NatLessThanWellFounded
  <1>3. \A x, y \in Nat : y < x => <<y, x>> \in R
    BY DEF OpToRel
  <1> HIDE DEF R
  <1>4. PICK x \in D : \A y \in D : ~(<<y, x>> \in R)
    <2> HIDE DEF D
    <2> QED
      BY <1>1, <1>2, WFMin
  <1>5. \A y \in D : x <= y
    <2>1. x \in Nat /\ \A y \in D : y \in Nat /\ ~(y < x)
      BY <1>1, <1>3, <1>4
    <2> QED
      BY <2>1
  <1>6. PICK i \in I : x = n - i
    BY <1>4
  <1>7. ASSUME NEW j \in I
        PROVE  j <= i
    <2>1. i \in Int /\ j \in Int
      BY <1>0
    <2>2. n - j \in D
      OBVIOUS
    <2>3. n - i <= n - j
      BY <1>5, <1>6, <2>2
    <2> HIDE DEF D
    <2> QED
      BY <2>1, <2>3
  <1> QED
    BY <1>7

\* What the broker retains stays well formed when messages are delivered.
LEMMA DeliverType ==
  ASSUME DataOK, NEW ms \in Seq(Messages), Deliver(ms)
  PROVE  /\ broker_retained' \in [Topics -> Values \cup {Empty}]
         /\ dropped' \subseteq Topics
  <1>1. Retain(broker_retained, ms) \in [Topics -> Values \cup {Empty}]
    <2> SUFFICES ASSUME NEW t \in Topics
                 PROVE  Retain(broker_retained, ms)[t] \in Values \cup {Empty}
      BY DEF Retain
    <2> DEFINE I == {i \in DOMAIN ms : ms[i].topic = t /\ ms[i].retain}
               k == CHOOSE i \in I : \A j \in I : j <= i
    <2>1. Retain(broker_retained, ms)[t]
            = IF I = {} THEN broker_retained[t] ELSE ms[k].value
      BY DEF Retain
    <2>2. CASE I = {}
      BY <2>1, <2>2 DEF DataOK
    <2>3. CASE I # {}
      <3>1. I \in SUBSET (1..Len(ms)) /\ Len(ms) \in Nat
        OBVIOUS
      <3>2. \E i \in I : \A j \in I : j <= i
        BY <2>3, <3>1, LastPosition
      <3>3. k \in I
        BY <3>2
      <3>4. k \in 1..Len(ms)
        BY <3>1, <3>3
      <3> HIDE DEF k
      <3>5. ms[k] \in Messages
        BY <3>4
      <3>6. ms[k].value \in Values \cup {Empty}
        BY <3>5 DEF Messages
      <3> QED
        BY <2>1, <2>3, <3>6
    <2> QED
      BY <2>2, <2>3
  <1>2. RetainedOf(ms) \subseteq Topics
    BY DEF RetainedOf
  <1> QED
    BY <1>1, <1>2 DEF Deliver, DataOK

\* Sending the first publication keeps the invariant.
LEMMA EventPublishKeeps ==
  ASSUME IInv, EventPublish
  PROVE  IInv'
  <1> DEFINE m == Head(publishing_queue)
             rest == Tail(publishing_queue)
             woken == WakeUpFor(Handled, rest, "PUBLISH")
             gone == on_disconnect(Handled)
  <1>1. Dequeue("PUBLISH") /\ running /\ "PUBLISH" \in Work
    BY DEF EventPublish, Dequeue, Work
  <1>2. /\ DataOK /\ CurrentClient.events = events
        /\ Served(current_state, CurrentClient, publishing_queue,
                  subscription_queue, unsubscription_queue)
    BY <1>1, Start
  <1>3. /\ Handled \in Client /\ ConnInv(current_state, Handled)
        /\ woken \in Client /\ ConnInv(current_state, woken)
        /\ rest # <<>> => Occurs(woken.events, {"PUBLISH"})
        /\ \A S : Occurs(events, S) /\ "PUBLISH" \notin S =>
             Occurs(Handled.events, S) /\ Occurs(woken.events, S)
        /\ Occurs(woken.events, {"DISCONNECTED"}) => Occurs(events, {"DISCONNECTED"})
        /\ Occurs(Handled.events, {"DISCONNECTED"}) => Occurs(events, {"DISCONNECTED"})
        /\ current_state = "Connected" =>
             gone \in Client /\ ConnInv(current_state, gone)
    BY <1>1, QueueEvent
  <1> HIDE DEF woken, gone
  <1>4. Occurs(events, {"SUBSCRIBE"}) => /\ Occurs(Handled.events, {"SUBSCRIBE"})
                                         /\ Occurs(woken.events, {"SUBSCRIBE"})
    BY <1>3
  <1>5. Occurs(events, {"UNSUBSCRIBE"}) => /\ Occurs(Handled.events, {"UNSUBSCRIBE"})
                                           /\ Occurs(woken.events, {"UNSUBSCRIBE"})
    BY <1>3
  <1>6. Occurs(events, {"DISCONNECTED"}) => Occurs(woken.events, {"DISCONNECTED"})
    BY <1>3
  <1>7. /\ UNCHANGED <<current_state, running, subscription_queue,
                       unsubscription_queue>>
        /\ /\ publishing_queue' \in Seq(Messages)
           /\ broker_retained' \in [Topics -> Values \cup {Empty}]
           /\ dropped' \subseteq Topics
           => DataOK'
    BY <1>2 DEF EventPublish, DataOK, subVars
  <1>8. CASE current_state # "Connected" \/ publishing_queue = <<>>
    <2>1. StoreClient(Handled) /\ DataOK' /\ UNCHANGED publishing_queue
      BY <1>2, <1>7, <1>8 DEF EventPublish, DataOK
    <2>2. Served(current_state, Handled, publishing_queue, subscription_queue,
                 unsubscription_queue)
      BY <1>2, <1>3, <1>4, <1>5, <1>8 DEF Served
    <2> QED
      BY <1>3, <1>7, <2>1, <2>2, Kept
  <1>9. CASE /\ publishing_queue # <<>> /\ publishing_queue' = rest
             /\ Deliver(<<m>>) /\ StoreClient(woken)
    <2>1. m \in Messages /\ rest \in Seq(Messages)
      BY <1>2, <1>9, HeadTailProperties DEF DataOK
    <2>2. <<m>> \in Seq(Messages)
      BY <2>1
    <2>3. DataOK'
      BY <1>2, <1>7, <1>9, <2>1, <2>2, DeliverType
    <2>4. Served(current_state, woken, rest, subscription_queue,
                 unsubscription_queue)
      BY <1>2, <1>3, <1>4, <1>5, <1>6 DEF Served
    <2> QED
      BY <1>3, <1>7, <1>9, <2>3, <2>4, Kept
  <1>10. CASE /\ current_state = "Connected" /\ StoreClient(gone)
              /\ UNCHANGED <<publishing_queue, broker_retained, dropped>>
    <2>1. DataOK'
      BY <1>2, <1>7, <1>10 DEF DataOK
    <2>2. Served(current_state, gone, publishing_queue, subscription_queue,
                 unsubscription_queue)
      BY <1>3, GoneServed DEF gone
    <2> QED
      BY <1>3, <1>7, <1>10, <2>1, <2>2, Kept
  <1> QED
    BY <1>8, <1>9, <1>10 DEF EventPublish, woken, gone

\* Sending the first subscription keeps the invariant.
LEMMA EventSubscribeKeeps ==
  ASSUME IInv, EventSubscribe
  PROVE  IInv'
  <1> DEFINE rest == Tail(subscription_queue)
             woken == WakeUpFor(Handled, rest, "SUBSCRIBE")
             gone == on_disconnect(Handled)
  <1>1. Dequeue("SUBSCRIBE") /\ running /\ "SUBSCRIBE" \in Work
    BY DEF EventSubscribe, Dequeue, Work
  <1>2. /\ DataOK /\ CurrentClient.events = events
        /\ Served(current_state, CurrentClient, publishing_queue,
                  subscription_queue, unsubscription_queue)
    BY <1>1, Start
  <1>3. /\ Handled \in Client /\ ConnInv(current_state, Handled)
        /\ woken \in Client /\ ConnInv(current_state, woken)
        /\ rest # <<>> => Occurs(woken.events, {"SUBSCRIBE"})
        /\ \A S : Occurs(events, S) /\ "SUBSCRIBE" \notin S =>
             Occurs(Handled.events, S) /\ Occurs(woken.events, S)
        /\ Occurs(woken.events, {"DISCONNECTED"}) => Occurs(events, {"DISCONNECTED"})
        /\ Occurs(Handled.events, {"DISCONNECTED"}) => Occurs(events, {"DISCONNECTED"})
        /\ current_state = "Connected" =>
             gone \in Client /\ ConnInv(current_state, gone)
    BY <1>1, QueueEvent
  <1> HIDE DEF woken, gone
  <1>4. Occurs(events, {"PUBLISH"}) => /\ Occurs(Handled.events, {"PUBLISH"})
                                   /\ Occurs(woken.events, {"PUBLISH"})
    BY <1>3
  <1>5. Occurs(events, {"UNSUBSCRIBE"}) => /\ Occurs(Handled.events, {"UNSUBSCRIBE"})
                                   /\ Occurs(woken.events, {"UNSUBSCRIBE"})
    BY <1>3
  <1>6. Occurs(events, {"DISCONNECTED"}) => Occurs(woken.events, {"DISCONNECTED"})
    BY <1>3
  <1>7. /\ UNCHANGED <<current_state, running, publishing_queue, unsubscription_queue>>
        /\ /\ subscription_queue' \in Seq(Topics)
           /\ broker_subscriptions' \subseteq Topics
           => DataOK'
    BY <1>2 DEF EventSubscribe, DataOK, pubVars
  <1>8. CASE current_state # "Connected" \/ subscription_queue = <<>>
    <2>1. StoreClient(Handled) /\ DataOK' /\ UNCHANGED subscription_queue
      BY <1>2, <1>7, <1>8 DEF EventSubscribe, DataOK
    <2>2. Served(current_state, Handled, publishing_queue, subscription_queue,
                 unsubscription_queue)
      BY <1>2, <1>3, <1>4, <1>5, <1>8 DEF Served
    <2> QED
      BY <1>3, <1>7, <2>1, <2>2, Kept
  <1>9. CASE /\ subscription_queue # <<>> /\ subscription_queue' = rest
             /\ broker_subscriptions' \subseteq
                  broker_subscriptions \cup {Head(subscription_queue)}
             /\ StoreClient(woken)
    <2>1. Head(subscription_queue) \in Topics /\ rest \in Seq(Topics)
      BY <1>2, <1>9, HeadTailProperties DEF DataOK
    <2>2. DataOK'
      BY <1>2, <1>7, <1>9, <2>1 DEF DataOK
    <2>3. Served(current_state, woken, publishing_queue', subscription_queue',
                 unsubscription_queue')
      BY <1>2, <1>3, <1>4, <1>5, <1>6, <1>7, <1>9 DEF Served
    <2> QED
      BY <1>3, <1>7, <1>9, <2>2, <2>3, Kept
  <1>10. CASE /\ current_state = "Connected" /\ StoreClient(gone)
              /\ UNCHANGED <<subscription_queue, broker_subscriptions>>
    <2>1. DataOK'
      BY <1>2, <1>7, <1>10 DEF DataOK
    <2>2. Served(current_state, gone, publishing_queue, subscription_queue,
                 unsubscription_queue)
      BY <1>3, GoneServed DEF gone
    <2> QED
      BY <1>3, <1>7, <1>10, <2>1, <2>2, Kept
  <1> QED
    BY <1>8, <1>9, <1>10 DEF EventSubscribe, woken, gone

\* Sending the first unsubscription keeps the invariant.
LEMMA EventUnsubscribeKeeps ==
  ASSUME IInv, EventUnsubscribe
  PROVE  IInv'
  <1> DEFINE rest == Tail(unsubscription_queue)
             woken == WakeUpFor(Handled, rest, "UNSUBSCRIBE")
             gone == on_disconnect(Handled)
  <1>1. Dequeue("UNSUBSCRIBE") /\ running /\ "UNSUBSCRIBE" \in Work
    BY DEF EventUnsubscribe, Dequeue, Work
  <1>2. /\ DataOK /\ CurrentClient.events = events
        /\ Served(current_state, CurrentClient, publishing_queue,
                  subscription_queue, unsubscription_queue)
    BY <1>1, Start
  <1>3. /\ Handled \in Client /\ ConnInv(current_state, Handled)
        /\ woken \in Client /\ ConnInv(current_state, woken)
        /\ rest # <<>> => Occurs(woken.events, {"UNSUBSCRIBE"})
        /\ \A S : Occurs(events, S) /\ "UNSUBSCRIBE" \notin S =>
             Occurs(Handled.events, S) /\ Occurs(woken.events, S)
        /\ Occurs(woken.events, {"DISCONNECTED"}) => Occurs(events, {"DISCONNECTED"})
        /\ Occurs(Handled.events, {"DISCONNECTED"}) => Occurs(events, {"DISCONNECTED"})
        /\ current_state = "Connected" =>
             gone \in Client /\ ConnInv(current_state, gone)
    BY <1>1, QueueEvent
  <1> HIDE DEF woken, gone
  <1>4. Occurs(events, {"PUBLISH"}) => /\ Occurs(Handled.events, {"PUBLISH"})
                                   /\ Occurs(woken.events, {"PUBLISH"})
    BY <1>3
  <1>5. Occurs(events, {"SUBSCRIBE"}) => /\ Occurs(Handled.events, {"SUBSCRIBE"})
                                   /\ Occurs(woken.events, {"SUBSCRIBE"})
    BY <1>3
  <1>6. Occurs(events, {"DISCONNECTED"}) => Occurs(woken.events, {"DISCONNECTED"})
    BY <1>3
  <1>7. /\ UNCHANGED <<current_state, running, publishing_queue, subscription_queue>>
        /\ /\ unsubscription_queue' \in Seq(Topics)
           /\ broker_subscriptions' \subseteq Topics
           => DataOK'
    BY <1>2 DEF EventUnsubscribe, DataOK, pubVars
  <1>8. CASE current_state # "Connected" \/ unsubscription_queue = <<>>
    <2>1. StoreClient(Handled) /\ DataOK' /\ UNCHANGED unsubscription_queue
      BY <1>2, <1>7, <1>8 DEF EventUnsubscribe, DataOK
    <2>2. Served(current_state, Handled, publishing_queue, subscription_queue,
                 unsubscription_queue)
      BY <1>2, <1>3, <1>4, <1>5, <1>8 DEF Served
    <2> QED
      BY <1>3, <1>7, <2>1, <2>2, Kept
  <1>9. CASE /\ unsubscription_queue # <<>> /\ unsubscription_queue' = rest
             /\ broker_subscriptions' \subseteq
                  broker_subscriptions \cup {Head(unsubscription_queue)}
             /\ StoreClient(woken)
    <2>1. Head(unsubscription_queue) \in Topics /\ rest \in Seq(Topics)
      BY <1>2, <1>9, HeadTailProperties DEF DataOK
    <2>2. DataOK'
      BY <1>2, <1>7, <1>9, <2>1 DEF DataOK
    <2>3. Served(current_state, woken, publishing_queue', subscription_queue',
                 unsubscription_queue')
      BY <1>2, <1>3, <1>4, <1>5, <1>6, <1>7, <1>9 DEF Served
    <2> QED
      BY <1>3, <1>7, <1>9, <2>2, <2>3, Kept
  <1>10. CASE /\ current_state = "Connected" /\ StoreClient(gone)
              /\ UNCHANGED <<unsubscription_queue, broker_subscriptions>>
    <2>1. DataOK'
      BY <1>2, <1>7, <1>10 DEF DataOK
    <2>2. Served(current_state, gone, publishing_queue, subscription_queue,
                 unsubscription_queue)
      BY <1>3, GoneServed DEF gone
    <2> QED
      BY <1>3, <1>7, <1>10, <2>1, <2>2, Kept
  <1> QED
    BY <1>8, <1>9, <1>10 DEF EventUnsubscribe, woken, gone

-----------------------------------------------------------------------------
(* Calls of the application.                                               *)

\* A call that adds to the publications and posts the event for them keeps the
\* invariant, if it leaves its own variables well formed.
LEMMA PublicationCall ==
  ASSUME IInv, Call, UNCHANGED subVars,
         StoreClient(send_once(CurrentClient, "PUBLISH")),
         publishing_queue' \in Seq(Messages), retained_topics' \subseteq Topics,
         asked' \in [Topics -> Values \cup {Empty}]
  PROVE  IInv'
  <1> DEFINE c == send_once(CurrentClient, "PUBLISH")
  <1>1. running /\ "PUBLISH" \in Work
    BY DEF Call, Work
  <1>2. /\ CurrentClient \in Client /\ DataOK
        /\ ConnInv(current_state, CurrentClient)
        /\ Served(current_state, CurrentClient, publishing_queue,
                  subscription_queue, unsubscription_queue)
    BY <1>1, Start
  <1>3. DataOK' /\ UNCHANGED <<current_state, subscription_queue, unsubscription_queue>>
    BY <1>2, BoundAssumption DEF Call, DataOK, subVars, brokerVars
  <1>4. /\ c \in Client /\ ConnInv(current_state, c)
        /\ Occurs(c.events, {"PUBLISH"})
        /\ \A S : Occurs(CurrentClient.events, S) => Occurs(c.events, S)
    BY <1>1, <1>2, SendOnce
  <1> HIDE DEF c
  <1>5. Served(current_state, c, publishing_queue', subscription_queue,
               unsubscription_queue)
    BY <1>2, <1>4 DEF Served
  <1> QED
    BY <1>3, <1>4, <1>5, Kept DEF c

\* Publishing a message does so.
LEMMA PublishKeeps ==
  ASSUME IInv, NEW t \in Topics, NEW v \in Values \cup {Empty},
         NEW retain \in BOOLEAN, Publish(t, v, retain)
  PROVE  IInv'
  <1> DEFINE q == publishing_queue
             m == [topic |-> t, value |-> v, retain |-> retain]
  <1>1. q \in Seq(Messages) /\ asked \in [Topics -> Values \cup {Empty}]
        /\ retained_topics \subseteq Topics
    BY DEF IInv, TypeOK
  <1>2. m \in Messages
    BY DEF Messages
  <1>3. publishing_queue' \in Seq(Messages)
    <2>1. CASE ~(retain /\ Replaces(t) # {})
      <3>1. publishing_queue' = Append(q, m)
        BY <2>1 DEF Publish
      <3> QED
        BY <1>1, <1>2, <3>1, AppendProperties
    <2>2. CASE retain /\ Replaces(t) # {}
      <3>1. publishing_queue' =
              [i \in DOMAIN q |-> IF i \in Replaces(t)
                                  THEN [q[i] EXCEPT !.value = v] ELSE q[i]]
        BY <2>2 DEF Publish
      <3>2. Len(q) \in Nat /\ DOMAIN q = 1..Len(q) /\ \A i \in 1..Len(q) : q[i] \in Messages
        BY <1>1
      <3>3. \A i \in 1..Len(q) : [q[i] EXCEPT !.value = v] \in Messages
        BY <3>2 DEF Messages
      <3>4. publishing_queue' \in [1..Len(q) -> Messages]
        BY <3>1, <3>2, <3>3
      <3> QED
        BY <3>2, <3>4, SeqDef
    <2> QED
      BY <2>1, <2>2
  <1>4. asked' \in [Topics -> Values \cup {Empty}] /\ retained_topics' \subseteq Topics
    BY <1>1 DEF Publish
  <1> QED
    BY <1>3, <1>4, PublicationCall DEF Publish

\* The deletions of retained messages are messages.
LEMMA DeletionsType ==
  ASSUME NEW q \in Seq(Topics)
  PROVE  Deletions(q) \in Seq(Messages)
  <1>1. Len(q) \in Nat /\ DOMAIN q = 1..Len(q) /\ \A i \in 1..Len(q) : q[i] \in Topics
    OBVIOUS
  <1>2. Deletions(q) \in [1..Len(q) -> Messages]
    BY <1>1 DEF Deletions, Messages
  <1> QED
    BY <1>1, <1>2, SeqDef

\* Forgetting what was asked leaves a payload for every topic.
LEMMA UnaskedType ==
  ASSUME IInv, NEW S
  PROVE  Unasked(S) \in [Topics -> Values \cup {Empty}]
  BY DEF IInv, TypeOK, Unasked

\* Deleting by prefix does.
LEMMA UnretainKeeps ==
  ASSUME IInv, NEW p \in Prefixes, Unretain(p)
  PROVE  IInv'
  <1> DEFINE S == StartingWith[p] \cap retained_topics
  <1>1. publishing_queue \in Seq(Messages) /\ retained_topics \subseteq Topics
    BY DEF IInv, TypeOK
  <1>2. publishing_queue' \in Seq(Messages) /\ retained_topics' \subseteq Topics
    <2>1. CASE p \in retained_topics
      <3>1. <<p>> \in Seq(Topics)
        BY <1>1, <2>1
      <3>2. Deletions(<<p>>) \in Seq(Messages)
        BY <3>1, DeletionsType
      <3> QED
        BY <1>1, <2>1, <3>2, ConcatProperties DEF Unretain
    <2>2. CASE p \notin retained_topics
      <3>1. PICK q \in Orders(S) : publishing_queue' = publishing_queue \o Deletions(q)
        BY <2>2 DEF Unretain
      <3>2. q \in Seq(Topics)
        BY <1>1, <3>1, OrdersType
      <3>3. retained_topics' = retained_topics \ S
        BY <2>2 DEF Unretain
      <3> QED
        BY <1>1, <3>1, <3>2, <3>3, DeletionsType, ConcatProperties
    <2> QED
      BY <2>1, <2>2
  <1> QED
    BY <1>2, UnaskedType, PublicationCall DEF Unretain

\* Deleting by regular expression does.
LEMMA UnretainByRegexKeeps ==
  ASSUME IInv, NEW S \in Patterns, UnretainByRegex(S)
  PROVE  IInv'
  <1>1. publishing_queue \in Seq(Messages) /\ retained_topics \subseteq Topics
    BY DEF IInv, TypeOK
  <1>2. PICK q \in Orders(S \cap retained_topics) :
          publishing_queue' = publishing_queue \o Deletions(q)
    BY DEF UnretainByRegex
  <1>3. q \in Seq(Topics)
    BY <1>1, <1>2, OrdersType
  <1>4. publishing_queue' \in Seq(Messages)
    BY <1>1, <1>2, <1>3, DeletionsType, ConcatProperties
  <1>5. retained_topics' \subseteq Topics
    BY <1>1 DEF UnretainByRegex
  <1> QED
    BY <1>4, <1>5, UnaskedType, PublicationCall DEF UnretainByRegex

\* Subscribing keeps the invariant.
LEMMA SubscribeKeeps ==
  ASSUME IInv, NEW t \in Topics, NEW cb \in Callbacks, Subscribe(t, cb)
  PROVE  IInv'
  <1> DEFINE c == send_once(CurrentClient, "SUBSCRIBE")
  <1>1. running /\ "SUBSCRIBE" \in Work
    BY DEF Subscribe, Call, Work
  <1>2. /\ CurrentClient \in Client /\ DataOK
        /\ ConnInv(current_state, CurrentClient)
        /\ Served(current_state, CurrentClient, publishing_queue,
                  subscription_queue, unsubscription_queue)
    BY <1>1, Start
  <1>3. /\ UNCHANGED <<running, current_state, publishing_queue,
                       unsubscription_queue>>
        /\ subscription_queue' \in Seq(Topics) => DataOK'
    BY <1>2, BoundAssumption DEF Subscribe, Call, DataOK, pubVars, brokerVars
  <1>4. CASE t \in Subscribed
    <2>1. UNCHANGED <<fsmVars, subscription_queue>>
      BY <1>4 DEF Subscribe
    <2>2. DataOK' /\ StoreClient(CurrentClient)
      BY <1>2, <1>3, <2>1 DEF DataOK, StoreClient, CurrentClient, fsmVars
    <2> QED
      BY <1>2, <1>3, <2>1, <2>2, Kept
  <1>5. CASE t \notin Subscribed
    <2>1. subscription_queue' = Append(subscription_queue, t) /\ StoreClient(c)
      BY <1>5 DEF Subscribe
    <2>2. DataOK'
      BY <1>2, <1>3, <2>1, AppendProperties DEF DataOK
    <2>3. /\ c \in Client /\ ConnInv(current_state, c)
          /\ Occurs(c.events, {"SUBSCRIBE"})
          /\ \A S : Occurs(CurrentClient.events, S) => Occurs(c.events, S)
      BY <1>1, <1>2, SendOnce
    <2> HIDE DEF c
    <2>4. Served(current_state, c, publishing_queue, subscription_queue',
                 unsubscription_queue)
      BY <1>2, <2>3 DEF Served
    <2> QED
      BY <1>3, <2>1, <2>2, <2>3, <2>4, Kept
  <1> QED
    BY <1>4, <1>5

\* Unsubscribing does.
LEMMA UnsubscribeKeeps ==
  ASSUME IInv, NEW t \in Topics, NEW cb \in Unsubscribers, Unsubscribe(t, cb)
  PROVE  IInv'
  <1> DEFINE c == send_once(CurrentClient, "UNSUBSCRIBE")
  <1>1. running /\ "UNSUBSCRIBE" \in Work
    BY DEF Unsubscribe, Call, Work
  <1>2. /\ CurrentClient \in Client /\ DataOK
        /\ ConnInv(current_state, CurrentClient)
        /\ Served(current_state, CurrentClient, publishing_queue,
                  subscription_queue, unsubscription_queue)
    BY <1>1, Start
  <1>3. /\ UNCHANGED <<running, current_state, publishing_queue,
                       subscription_queue>>
        /\ unsubscription_queue' \in Seq(Topics) => DataOK'
    BY <1>2, BoundAssumption DEF Unsubscribe, Call, DataOK, pubVars, brokerVars
  <1>4. CASE UNCHANGED <<fsmVars, unsubscription_queue>>
    <2>1. DataOK' /\ StoreClient(CurrentClient)
      BY <1>2, <1>3, <1>4 DEF DataOK, StoreClient, CurrentClient, fsmVars
    <2> QED
      BY <1>2, <1>3, <1>4, <2>1, Kept
  <1>5. CASE /\ unsubscription_queue' = Append(unsubscription_queue, t)
             /\ StoreClient(c)
    <2>1. DataOK'
      BY <1>2, <1>3, <1>5, AppendProperties DEF DataOK
    <2>2. /\ c \in Client /\ ConnInv(current_state, c)
          /\ Occurs(c.events, {"UNSUBSCRIBE"})
          /\ \A S : Occurs(CurrentClient.events, S) => Occurs(c.events, S)
      BY <1>1, <1>2, SendOnce
    <2> HIDE DEF c
    <2>3. Served(current_state, c, publishing_queue, subscription_queue,
                 unsubscription_queue')
      BY <1>2, <2>2 DEF Served
    <2> QED
      BY <1>3, <1>5, <2>1, <2>2, <2>3, Kept
  <1> QED
    BY <1>4, <1>5 DEF Unsubscribe

\* The end of the process leaves the state well formed.
LEMMA TeardownKeeps ==
  ASSUME IInv, Teardown
  PROVE  IInv'
  <1> DEFINE q == publishing_queue
  <1>1. running /\ running' = FALSE
    BY DEF Teardown
  <1>2. CurrentClient \in Client /\ DataOK
    BY <1>1, Start
  <1>3. PICK k \in 0..Len(q) :
          /\ publishing_queue' = SubSeq(q, k + 1, Len(q))
          /\ Deliver(SubSeq(q, 1, k))
          /\ LET c == IF k < Len(q)
                      THEN on_disconnect(CurrentClient) ELSE CurrentClient
             IN  StoreClient([c EXCEPT !.connected = FALSE, !.link = "closed"])
    BY DEF Teardown
  <1> DEFINE c == IF k < Len(q) THEN on_disconnect(CurrentClient) ELSE CurrentClient
             d == [c EXCEPT !.connected = FALSE, !.link = "closed"]
  <1>4. StoreClient(d)
    BY <1>3
  <1>5. d \in Client
    <2>1. c \in Client
      BY <1>2, OnDisconnectType
    <2> HIDE DEF c
    <2> QED
      BY <2>1 DEF Client
  <1> HIDE DEF d
  <1>6. /\ Len(q) \in Nat /\ k \in Int /\ k + 1 \in Int /\ 1 \in Int /\ Len(q) \in Int
        /\ \A i \in 1..k : q[i] \in Messages
        /\ \A i \in (k + 1)..Len(q) : q[i] \in Messages
    <2>1. Len(q) \in Nat /\ \A i \in 1..Len(q) : q[i] \in Messages
      BY <1>2 DEF DataOK
    <2> QED
      BY <2>1
  <1>7. SubSeq(q, 1, k) \in Seq(Messages) /\ SubSeq(q, k + 1, Len(q)) \in Seq(Messages)
    BY <1>6, SubSeqProperties
  <1>8. DataOK'
    <2>1. /\ broker_retained' \in [Topics -> Values \cup {Empty}]
          /\ dropped' \subseteq Topics
      BY <1>2, <1>3, <1>7, DeliverType
    <2> QED
      BY <1>1, <1>2, <1>3, <1>7, <2>1 DEF Teardown, DataOK, subVars
  <1> QED
    BY <1>1, <1>4, <1>5, <1>8, Kept

-----------------------------------------------------------------------------
(* Theorems.                                                               *)

\* The invariant holds initially.
LEMMA InitKeeps ==
  ASSUME Init
  PROVE  IInv
  <1>1. events \in Seq(Events) /\ Len(events) = 1 /\ events[1] = "CONNECT"
    BY DEF Init, Events
  <1>2. TypeOK
    <2>1. calls \in 0..MaxCalls /\ failures \in 0..MaxFailures
      BY BoundAssumption DEF Init
    <2>2. /\ subscription_callbacks \in [Topics -> SUBSET Callbacks]
          /\ broker_retained \in [Topics -> Values \cup {Empty}]
          /\ asked \in [Topics -> Values \cup {Empty}]
      BY DEF Init
    <2>3. /\ publishing_queue \in Seq(Messages) /\ subscription_queue \in Seq(Topics)
          /\ unsubscription_queue \in Seq(Topics)
      BY DEF Init
    <2>4. /\ running \in BOOLEAN /\ current_state \in FsmStates
          /\ delay \in {"off", "running", "posted"}
          /\ connected_to_broker \in BOOLEAN /\ retained_topics \subseteq Topics
          /\ link \in {"closed", "opening", "open", "lost"}
          /\ broker_subscriptions \subseteq Topics /\ dropped \subseteq Topics
      BY DEF Init, FsmStates
    <2> QED
      BY <1>1, <2>1, <2>2, <2>3, <2>4 DEF TypeOK
  <1>3. /\ CurrentClient.events = events /\ CurrentClient.delay = "off"
        /\ CurrentClient.connected = FALSE /\ CurrentClient.link = "closed"
    BY DEF Init, CurrentClient
  <1>4. /\ Occurs(events, Requests) /\ Once(events, Requests)
        /\ ~Occurs(events, {"CONNECTED"}) /\ ~Occurs(events, {"TIMER"})
        /\ Once(events, {"TIMER"}) /\ Before(events, {"DISCONNECTED"}, Requests)
    BY <1>1 DEF Occurs, Once, Before, Requests
  <1>5. ConnInv("Disconnected", CurrentClient)
    BY <1>3, <1>4 DEF ConnInv, RequestInv, DelayInv, AcceptInv, OpeningInv,
                      TokenInv, Requested
  <1> QED
    BY <1>2, <1>5 DEF IInv, Served, Init

\* Every step keeps it.
LEMMA NextKeeps ==
  ASSUME IInv, [Next]_vars
  PROVE  IInv'
  <1>1. CASE ProcessEvent
    BY <1>1, EventConnectKeeps, EventConnectingKeeps, EventConnectedKeeps,
       EventDisconnectedKeeps, EventTimerKeeps, EventPublishKeeps,
       EventSubscribeKeeps, EventUnsubscribeKeeps DEF ProcessEvent
  <1>2. CASE DelayExpires \/ Poll \/ ConnectionLost \/ Teardown
    BY <1>2, DelayExpiresKeeps, PollKeeps, ConnectionLostKeeps, TeardownKeeps
  <1>3. CASE Application
    BY <1>3, PublishKeeps, UnretainKeeps, UnretainByRegexKeeps, SubscribeKeeps,
       UnsubscribeKeeps, CallbackAssumption DEF Application
  <1>4. CASE UNCHANGED vars
    BY <1>4 DEF vars, fsmVars, pubVars, subVars, brokerVars, IInv, TypeOK,
                CurrentClient
  <1> QED
    BY <1>1, <1>2, <1>3, <1>4 DEF Next

\* The strengthened invariant holds in every reachable state.
THEOREM Invariant == Spec => []IInv
  <1>1. Init => IInv
    BY InitKeeps
  <1>2. IInv /\ [Next]_vars => IInv'
    BY NextKeeps
  <1> QED
    BY <1>1, <1>2, PTL DEF Spec

\* The variables of the client keep their types: the queues hold messages and
\* topics, and the bounds of the environment are never exceeded.
THEOREM TypeCorrect == Spec => []TypeOK
  <1>1. IInv => TypeOK
    BY DEF IInv
  <1> QED
    BY <1>1, Invariant, PTL

\* No queue is forgotten: a connected client that has not heard of a loss has
\* posted the event of each queue that is not empty.
THEOREM NoQueueForgotten == Spec => []QueuesServed
  <1>1. ASSUME IInv PROVE QueuesServed
    <2>1. events \in Seq(Events)
      BY <1>1 DEF IInv, TypeOK
    <2>2. \A e : Queued(events, e) <=> Occurs(events, {e})
      BY <2>1, QueuedOccurs
    <2>3. CurrentClient.events = events
      BY DEF CurrentClient
    <2> QED
      BY <1>1, <2>2, <2>3 DEF IInv, QueuesServed, Served
  <1> QED
    BY <1>1, Invariant, PTL

\* The client never gives up connecting and never tries twice: there is exactly
\* one request to connect while the connection is not healthy, and none while
\* it is.
THEOREM OneAttemptOnly == Spec => []OneAttempt
  <1>1. ASSUME IInv PROVE OneAttempt
    <2> SUFFICES ASSUME running
                 PROVE  /\ ~Healthy => (Attempts # {} <=> delay = "off")
                        /\ Healthy => Attempts = {} /\ delay = "off"
                        /\ \A i, j \in Attempts : i = j
      BY DEF OneAttempt
    <2>1. events \in Seq(Events) /\ DOMAIN events = 1..Len(events)
      BY <1>1 DEF IInv, TypeOK
    <2>2. \A e : Queued(events, e) <=> Occurs(events, {e})
      BY <2>1, QueuedOccurs
    <2>3. /\ CurrentClient.events = events /\ CurrentClient.delay = delay
          /\ CurrentClient.link = link
      BY DEF CurrentClient
    <2>4. ConnInv(current_state, CurrentClient) /\ current_state \in FsmStates
      BY <1>1 DEF IInv, TypeOK
    <2>5. Attempts # {} <=> Occurs(events, Requests)
      BY <2>1 DEF Attempts, Occurs, Requests
    <2>6. Once(events, Requests) => \A i, j \in Attempts : i = j
      BY <2>1 DEF Attempts, Once, Requests
    <2>7. ~Healthy => (Attempts # {} <=> delay = "off")
      <3>1. Attempts # {} => delay = "off"
        BY <2>3, <2>4, <2>5 DEF ConnInv, RequestInv
      <3>2. Attempts = {} /\ delay = "off" => Healthy
        BY <2>2, <2>3, <2>4, <2>5
           DEF ConnInv, TokenInv, Requested, Healthy, FsmStates
      <3> QED
        BY <3>1, <3>2
    <2>8. Healthy => Attempts = {} /\ delay = "off"
      BY <2>2, <2>3, <2>4, <2>5 DEF ConnInv, RequestInv, DelayInv, Healthy
    <2>9. \A i, j \in Attempts : i = j
      BY <2>3, <2>4, <2>5, <2>6 DEF ConnInv, RequestInv
    <2> QED
      BY <2>7, <2>8, <2>9
  <1> QED
    BY <1>1, Invariant, PTL

\* A request to connect is never handled in a state that ignores it.
THEOREM RequestsNeverIgnored == Spec => []NeverIgnored
  <1>1. ASSUME IInv PROVE NeverIgnored
    <2> SUFFICES ASSUME running, events # <<>>, Head(events) \in Requests
                 PROVE  current_state = "Disconnected"
      BY DEF NeverIgnored, Requests
    <2>1. events \in Seq(Events)
      BY <1>1 DEF IInv, TypeOK
    <2>2. Occurs(events, Requests)
      BY <2>1, TailFacts
    <2> QED
      BY <1>1, <2>2 DEF IInv, ConnInv, RequestInv, CurrentClient
  <1> QED
    BY <1>1, Invariant, PTL

\* A process that has ended does not say that it is connected.
Ended == running \/ ~connected_to_broker

\* What the client says of its connection is right: it says that it is
\* connected when it has settled, and never when it has no connection.
THEOREM ConnectedFlagRight == Spec => []ConnectedFlag
  <1>1. Init => Ended
    BY DEF Init, Ended
  <1>2. Ended /\ [Next]_vars => Ended'
    <2>1. Teardown => ~connected_to_broker'
      BY DEF Teardown, StoreClient, CurrentClient, on_disconnect,
             send_delayed_event, send_event
    <2>2. ProcessEvent => running'
      BY DEF ProcessEvent, Dequeue, EventConnect, EventConnecting, EventConnected,
             EventDisconnected, EventTimer, EventPublish, EventSubscribe,
             EventUnsubscribe
    <2>3. DelayExpires \/ Poll \/ ConnectionLost => running'
      BY DEF DelayExpires, Poll, ConnectionLost
    <2>4. Application => running'
      <3>1. Application => Call
        BY DEF Application, Publish, Unretain, UnretainByRegex, Subscribe,
               Unsubscribe
      <3> QED
        BY <3>1 DEF Call
    <2> QED
      BY <2>1, <2>2, <2>3, <2>4 DEF Next, Ended, vars, fsmVars
  <1>3. ASSUME IInv, Ended PROVE ConnectedFlag
    <2>1. CASE running
      <3>1. /\ CurrentClient.events = events /\ CurrentClient.delay = delay
            /\ CurrentClient.link = link
            /\ CurrentClient.connected = connected_to_broker
        BY DEF CurrentClient
      <3>2. ConnInv(current_state, CurrentClient)
        BY <1>3, <2>1 DEF IInv
      <3>3. connected_to_broker => link # "closed"
        BY <3>1, <3>2 DEF ConnInv, TokenInv
      <3>4. ASSUME Settled PROVE connected_to_broker
        <4>1. \A S : ~Occurs(events, S)
          BY <3>4 DEF Settled, Occurs
        <4> QED
          BY <3>1, <3>2, <3>4, <4>1
             DEF ConnInv, DelayInv, TokenInv, Requested, Settled
      <3> QED
        BY <3>3, <3>4 DEF ConnectedFlag
    <2>2. CASE ~running
      BY <1>3, <2>2 DEF ConnectedFlag, Settled, Ended
    <2> QED
      BY <2>1, <2>2
  <1> QED
    BY <1>1, <1>2, <1>3, Invariant, PTL DEF Spec
=============================================================================
