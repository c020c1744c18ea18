--------------------------- MODULE MqttServedProofs ---------------------------
(* What the MQTT client has got across when it has settled: the retained   *)
(* messages of the topics that are never unretained, and the subscriptions *)
(* if nothing is ever unsubscribed.  The runs MqttUnretain and             *)
(* MqttSubscriptions show that both restrictions are needed.               *)
EXTENDS MqttClientProofs

\* The topics that no argument of unretain or unretain_by_regex matches.
NeverUnretained ==
  {t \in Topics : /\ \A p \in Prefixes : t \notin StartingWith[p]
                  /\ \A S \in Patterns : t \notin S}

-----------------------------------------------------------------------------
(* Retained messages.                                                      *)

IsFor(m, t) == m.retain /\ m.topic = t

Waits(q, t) == \E i \in 1..Len(q) : IsFor(q[i], t)

\* One message at most waits for a topic, and it has the value asked for last.
OneWaits(q, t, v) ==
  /\ \A i, j \in 1..Len(q) : IsFor(q[i], t) /\ IsFor(q[j], t) => i = j
  /\ \A i \in 1..Len(q) : IsFor(q[i], t) => q[i].value = v

\* What was asked for last is retained or it waits, unless it was lost.
RetainedInv ==
  running => \A t \in NeverUnretained :
    /\ OneWaits(publishing_queue, t, asked[t])
    /\ t \in dropped \/ broker_retained[t] = asked[t] \/ Waits(publishing_queue, t)

\* The message at the head of the queue leaves it.
LEMMA TailWaits ==
  ASSUME NEW q \in Seq(Messages), q # <<>>, NEW t, NEW v, OneWaits(q, t, v)
  PROVE  /\ OneWaits(Tail(q), t, v)
         /\ IsFor(Head(q), t) => Head(q).value = v
         /\ ~IsFor(Head(q), t) /\ Waits(q, t) => Waits(Tail(q), t)
  <1>1. /\ Len(q) \in Nat \ {0} /\ Len(Tail(q)) = Len(q) - 1
        /\ \A i \in 1..(Len(q) - 1) : Tail(q)[i] = q[i + 1]
        /\ Head(q) = q[1]
    BY TailElements
  <1>2. OneWaits(Tail(q), t, v)
    <2>1. \A i \in 1..Len(Tail(q)) : i + 1 \in 1..Len(q) /\ Tail(q)[i] = q[i + 1]
      BY <1>1
    <2>2. \A i, j \in 1..Len(Tail(q)) :
            IsFor(Tail(q)[i], t) /\ IsFor(Tail(q)[j], t) => i = j
      <3> SUFFICES ASSUME NEW i \in 1..Len(Tail(q)), NEW j \in 1..Len(Tail(q)),
                          IsFor(Tail(q)[i], t), IsFor(Tail(q)[j], t)
                   PROVE  i = j
        OBVIOUS
      <3>1. i + 1 = j + 1
        BY <2>1 DEF OneWaits
      <3> QED
        BY <1>1, <3>1
    <2> QED
      BY <2>1, <2>2 DEF OneWaits
  <1>3. IsFor(Head(q), t) => Head(q).value = v
    BY <1>1 DEF OneWaits
  <1>4. ASSUME ~IsFor(Head(q), t), Waits(q, t) PROVE Waits(Tail(q), t)
    <2>1. PICK i \in 1..Len(q) : IsFor(q[i], t)
      BY <1>4 DEF Waits
    <2>2. i # 1
      BY <1>1, <1>4, <2>1
    <2>3. i - 1 \in 1..Len(Tail(q)) /\ Tail(q)[i - 1] = q[i]
      BY <1>1, <2>2
    <2> QED
      BY <2>1, <2>3 DEF Waits
  <1> QED
    BY <1>2, <1>3, <1>4

\* A message joins the queue.
LEMMA AppendWaits ==
  ASSUME NEW q \in Seq(Messages), NEW m \in Messages, NEW t, NEW v,
         OneWaits(q, t, v),
         IsFor(m, t) => ~Waits(q, t) /\ m.value = v
  PROVE  /\ OneWaits(Append(q, m), t, v)
         /\ Waits(Append(q, m), t) <=> Waits(q, t) \/ IsFor(m, t)
  <1>1. /\ Len(q) \in Nat /\ Len(Append(q, m)) = Len(q) + 1
        /\ \A i \in 1..Len(q) : Append(q, m)[i] = q[i]
        /\ Append(q, m)[Len(q) + 1] = m
    BY AppendElements
  <1>2. \A i \in 1..Len(Append(q, m)) : i \in 1..Len(q) \/ i = Len(q) + 1
    BY <1>1
  <1>3. OneWaits(Append(q, m), t, v)
    BY <1>1, <1>2 DEF OneWaits, Waits
  <1>4. Waits(Append(q, m), t) <=> Waits(q, t) \/ IsFor(m, t)
    BY <1>1, <1>2 DEF Waits
  <1> QED
    BY <1>3, <1>4

\* Deletions of other topics join the queue.
LEMMA DeletionsWait ==
  ASSUME NEW q \in Seq(Messages), NEW r \in Seq(Topics), NEW t, NEW v,
         \A i \in 1..Len(r) : r[i] # t,
         OneWaits(q, t, v)
  PROVE  /\ OneWaits(q \o Deletions(r), t, v)
         /\ Waits(q, t) => Waits(q \o Deletions(r), t)
  <1> DEFINE d == Deletions(r)
             b == q \o d
  <1>1. Len(r) \in Nat /\ DOMAIN r = 1..Len(r)
    OBVIOUS
  <1>2. d \in Seq(Messages) /\ DOMAIN d = 1..Len(r)
    BY <1>1, DeletionsType DEF Deletions
  <1>3. Len(d) = Len(r) /\ \A i \in 1..Len(d) : ~IsFor(d[i], t)
    <2>1. \A i \in 1..Len(r) : d[i].topic = r[i]
      BY <1>1 DEF Deletions
    <2> HIDE DEF d
    <2>2. Len(d) = Len(r)
      BY <1>1, <1>2, LenProperties
    <2> QED
      BY <2>1, <2>2 DEF IsFor
  <1> HIDE DEF d
  <1>4. /\ Len(q) \in Nat /\ Len(d) \in Nat /\ Len(b) = Len(q) + Len(d)
        /\ \A i \in 1..Len(b) : b[i] = IF i <= Len(q) THEN q[i] ELSE d[i - Len(q)]
    <2>1. Len(q) \in Nat /\ Len(d) \in Nat
      BY <1>1, <1>3
    <2> QED
      BY <1>2, <2>1, ConcatProperties
  <1> HIDE DEF b
  <1>5. /\ \A i \in 1..Len(q) : i \in 1..Len(b) /\ b[i] = q[i]
        /\ \A i \in 1..Len(b) : i \notin 1..Len(q) => ~IsFor(b[i], t)
    <2>1. ASSUME NEW i \in 1..Len(b), i \notin 1..Len(q) PROVE ~IsFor(b[i], t)
      <3>1. i - Len(q) \in 1..Len(d) /\ ~(i <= Len(q))
        BY <1>4, <2>1
      <3>2. b[i] = d[i - Len(q)]
        BY <1>4, <3>1
      <3> QED
        BY <1>3, <3>1, <3>2
    <2>2. \A i \in 1..Len(q) : i \in 1..Len(b) /\ b[i] = q[i]
      BY <1>4
    <2> QED
      BY <2>1, <2>2
  <1>6. OneWaits(b, t, v)
    BY <1>5 DEF OneWaits
  <1>7. Waits(q, t) => Waits(b, t)
    BY <1>5 DEF Waits
  <1> QED
    BY <1>6, <1>7 DEF b, d

\* A message is handed to the library: on an open link it is retained, on a
\* dead one it is lost.
LEMMA DeliverOne ==
  ASSUME DataOK, NEW m \in Messages, Deliver(<<m>>), NEW t \in Topics
  PROVE  IF IsFor(m, t) THEN t \in dropped' \/ broker_retained'[t] = m.value
         ELSE /\ broker_retained'[t] = broker_retained[t]
              /\ t \in dropped => t \in dropped'
  <1> DEFINE ms == <<m>>
             I == {i \in DOMAIN ms : ms[i].topic = t /\ ms[i].retain}
             k == CHOOSE i \in I : \A j \in I : j <= i
  <1>1. DOMAIN ms = {1} /\ ms[1] = m
    OBVIOUS
  <1>2. I = IF IsFor(m, t) THEN {1} ELSE {}
    BY <1>1 DEF IsFor
  <1>3. Retain(broker_retained, ms)[t] = IF I = {} THEN broker_retained[t] ELSE ms[k].value
    BY DEF Retain
  <1>4. IsFor(m, t) => k = 1
    <2> SUFFICES ASSUME IsFor(m, t) PROVE k = 1
      OBVIOUS
    <2>1. I = {1}
      BY <1>2
    <2> HIDE DEF I
    <2> QED
      BY <2>1
  <1>5. t \in RetainedOf(ms) <=> IsFor(m, t)
    BY <1>1 DEF RetainedOf, IsFor
  <1> HIDE DEF I, k, ms
  <1>6. CASE link = "open"
    <2>1. /\ broker_retained' = Retain(broker_retained, ms)
          /\ dropped' = dropped \ RetainedOf(ms)
      BY <1>6 DEF Deliver, ms
    <2> QED
      BY <1>1, <1>2, <1>3, <1>4, <1>5, <2>1
  <1>7. CASE link # "open"
    <2>1. /\ broker_retained' = broker_retained
          /\ dropped' = dropped \cup RetainedOf(ms)
      BY <1>7 DEF Deliver, ms
    <2> QED
      BY <1>5, <2>1
  <1> QED
    BY <1>6, <1>7

\* Sending the first publication keeps what is asked for retained or waiting.
LEMMA EventPublishRetains ==
  ASSUME IInv, RetainedInv, EventPublish
  PROVE  RetainedInv'
  <1> DEFINE m == Head(publishing_queue)
             rest == Tail(publishing_queue)
  <1> SUFFICES ASSUME running, NEW t \in NeverUnretained
               PROVE  /\ OneWaits(publishing_queue', t, asked[t])
                      /\ \/ t \in dropped' \/ broker_retained'[t] = asked[t]
                         \/ Waits(publishing_queue', t)
    BY DEF RetainedInv, EventPublish, Dequeue
  <1>1. /\ OneWaits(publishing_queue, t, asked[t])
        /\ t \in dropped \/ broker_retained[t] = asked[t] \/ Waits(publishing_queue, t)
        /\ publishing_queue \in Seq(Messages) /\ t \in Topics /\ DataOK
    BY Start DEF RetainedInv, NeverUnretained, DataOK
  <1>2. CASE UNCHANGED <<publishing_queue, broker_retained, dropped>>
    BY <1>1, <1>2
  <1>3. CASE publishing_queue # <<>> /\ publishing_queue' = rest /\ Deliver(<<m>>)
    <2>1. m \in Messages
      BY <1>1, <1>3, HeadTailProperties
    <2>2. /\ OneWaits(rest, t, asked[t])
          /\ IsFor(m, t) => m.value = asked[t]
          /\ ~IsFor(m, t) /\ Waits(publishing_queue, t) => Waits(rest, t)
      BY <1>1, <1>3, TailWaits
    <2> HIDE DEF m, rest
    <2>3. IF IsFor(m, t) THEN t \in dropped' \/ broker_retained'[t] = m.value
          ELSE /\ broker_retained'[t] = broker_retained[t]
               /\ t \in dropped => t \in dropped'
      BY <1>1, <1>3, <2>1, DeliverOne
    <2> QED
      BY <1>1, <1>3, <2>2, <2>3
  <1> QED
    BY <1>2, <1>3 DEF EventPublish

\* So does a publication, which replaces the message that waits for its topic.
LEMMA PublishRetains ==
  ASSUME IInv, RetainedInv,
         NEW p \in Topics, NEW v \in Values \cup {Empty}, NEW retain \in BOOLEAN,
         Publish(p, v, retain)
  PROVE  RetainedInv'
  <1> DEFINE m == [topic |-> p, value |-> v, retain |-> retain]
             q == publishing_queue
  <1> SUFFICES ASSUME NEW t \in NeverUnretained
               PROVE  /\ OneWaits(q', t, asked'[t])
                      /\ \/ t \in dropped' \/ broker_retained'[t] = asked'[t]
                         \/ Waits(q', t)
    BY DEF RetainedInv
  <1>1. /\ running /\ UNCHANGED <<broker_retained, dropped>>
        /\ asked' = IF retain THEN [asked EXCEPT ![p] = v] ELSE asked
    BY DEF Publish, Call, brokerVars
  <1>2. /\ OneWaits(q, t, asked[t])
        /\ t \in dropped \/ broker_retained[t] = asked[t] \/ Waits(q, t)
    BY <1>1 DEF RetainedInv
  <1>3. /\ q \in Seq(Messages) /\ asked \in [Topics -> Values \cup {Empty}]
        /\ t \in Topics /\ m \in Messages
    BY DEF IInv, TypeOK, NeverUnretained, Messages
  <1>4. asked'[t] = IF retain /\ p = t THEN v ELSE asked[t]
    BY <1>1, <1>3
  <1>5. IsFor(m, t) <=> retain /\ p = t
    BY DEF IsFor
  <1>6. DOMAIN q = 1..Len(q) /\ Len(q) \in Nat
    BY <1>3
  <1>7. CASE retain /\ Replaces(p) # {}
    <2>1. q' = [i \in DOMAIN q |-> IF i \in Replaces(p) THEN [q[i] EXCEPT !.value = v]
                                   ELSE q[i]]
      BY <1>7 DEF Publish
    <2>2. DOMAIN q' = 1..Len(q) /\ Len(q') = Len(q)
      <3>1. IInv'
        BY PublishKeeps
      <3>2. q' \in Seq(Messages)
        BY <3>1 DEF IInv, TypeOK
      <3>3. DOMAIN q' = DOMAIN q
        BY <2>1
      <3> QED
        BY <1>6, <3>2, <3>3, LenProperties
    <2>3. \A i \in Replaces(p) : i \in 1..Len(q) /\ IsFor(q[i], p)
      BY <1>6 DEF Replaces, IsFor
    <2>4. \A i \in 1..Len(q) : q[i] \in Messages
      BY <1>3
    <2>5. \A i \in 1..Len(q) : /\ IsFor(q'[i], t) <=> IsFor(q[i], t)
                               /\ q'[i].value = IF i \in Replaces(p) THEN v ELSE q[i].value
      BY <1>6, <2>1, <2>4 DEF IsFor, Messages
    <2>6. CASE p = t
      <3>1. PICK k \in Replaces(p) : k \in 1..Len(q) /\ IsFor(q[k], t)
        BY <1>7, <2>3, <2>6
      <3>2. \A i \in 1..Len(q) : IsFor(q[i], t) => i = k
        BY <1>2, <3>1 DEF OneWaits
      <3>3. OneWaits(q', t, v)
        BY <2>2, <2>5, <3>1, <3>2 DEF OneWaits
      <3>4. Waits(q', t)
        BY <2>2, <2>5, <3>1 DEF Waits
      <3> QED
        BY <1>4, <1>7, <2>6, <3>3, <3>4
    <2>7. CASE p # t
      <3>1. \A i \in 1..Len(q) : IsFor(q[i], t) => i \notin Replaces(p)
        BY <2>3, <2>7 DEF IsFor
      <3>2. OneWaits(q', t, asked[t])
        BY <1>2, <2>2, <2>5, <3>1 DEF OneWaits
      <3>3. Waits(q, t) => Waits(q', t)
        BY <2>2, <2>5 DEF Waits
      <3> QED
        BY <1>1, <1>2, <1>4, <2>7, <3>2, <3>3
    <2> QED
      BY <2>6, <2>7
  <1>8. CASE ~(retain /\ Replaces(p) # {})
    <2>1. q' = Append(q, m)
      BY <1>8 DEF Publish
    <2>2. IsFor(m, t) => ~Waits(q, t)
      <3> SUFFICES ASSUME IsFor(m, t), NEW i \in 1..Len(q), IsFor(q[i], t)
                   PROVE  FALSE
        BY DEF Waits
      <3>1. \A j \in 1..(i - 1) : ~IsFor(q[j], t)
        <4> SUFFICES ASSUME NEW j \in 1..(i - 1), IsFor(q[j], t) PROVE FALSE
          OBVIOUS
        <4>1. j \in 1..Len(q) /\ j # i
          BY <1>6
        <4> QED
          BY <1>2, <4>1 DEF OneWaits
      <3>2. i \in Replaces(p)
        BY <1>5, <1>6, <3>1 DEF Replaces, IsFor
      <3> QED
        BY <1>5, <1>8, <3>2
    <2>3. OneWaits(q, t, asked'[t])
      BY <1>2, <1>4, <1>5, <2>2 DEF OneWaits, Waits
    <2>4. IsFor(m, t) => m.value = asked'[t]
      BY <1>4, <1>5
    <2>5. /\ OneWaits(q', t, asked'[t])
          /\ Waits(q', t) <=> Waits(q, t) \/ IsFor(m, t)
      <3> HIDE DEF m
      <3> QED
        BY <1>3, <2>1, <2>2, <2>3, <2>4, AppendWaits
    <2> QED
      BY <1>1, <1>2, <1>4, <1>5, <2>5
  <1> QED
    BY <1>7, <1>8

\* Deletions of other topics, and forgetting what was asked of others, do not
\* touch a topic.
LEMMA OthersDeleted ==
  ASSUME IInv, RetainedInv, Call, NEW t \in NeverUnretained,
         NEW S, t \notin S, asked' = Unasked(S),
         NEW q \in Seq(Topics), \A i \in 1..Len(q) : q[i] # t,
         publishing_queue' = publishing_queue \o Deletions(q)
  PROVE  /\ OneWaits(publishing_queue', t, asked'[t])
         /\ \/ t \in dropped' \/ broker_retained'[t] = asked'[t]
            \/ Waits(publishing_queue', t)
  <1>1. running /\ UNCHANGED <<broker_retained, dropped>>
    BY DEF Call, brokerVars
  <1>2. publishing_queue \in Seq(Messages) /\ asked'[t] = asked[t]
    BY DEF IInv, TypeOK, Unasked, NeverUnretained
  <1>3. /\ OneWaits(publishing_queue, t, asked[t])
        /\ t \in dropped \/ broker_retained[t] = asked[t] \/ Waits(publishing_queue, t)
    BY <1>1 DEF RetainedInv
  <1>4. /\ OneWaits(publishing_queue', t, asked[t])
        /\ Waits(publishing_queue, t) => Waits(publishing_queue', t)
    BY <1>2, <1>3, DeletionsWait
  <1> QED
    BY <1>1, <1>2, <1>3, <1>4

\* The topics that are deleted are among those that match.
LEMMA OrdersElements ==
  ASSUME NEW S \in SUBSET Topics, NEW q \in Orders(S)
  PROVE  q \in Seq(Topics) /\ \A i \in 1..Len(q) : q[i] \in S
  <1>1. q \in Seq(Topics)
    BY OrdersType
  <1>2. DOMAIN q = 1..Len(q)
    BY <1>1
  <1>3. \A i \in DOMAIN q : q[i] \in S
    BY DEF Orders
  <1> QED
    BY <1>1, <1>2, <1>3

LEMMA UnretainRetains ==
  ASSUME IInv, RetainedInv, NEW p \in Prefixes, Unretain(p)
  PROVE  RetainedInv'
  <1> SUFFICES ASSUME NEW t \in NeverUnretained
               PROVE  /\ OneWaits(publishing_queue', t, asked'[t])
                      /\ \/ t \in dropped' \/ broker_retained'[t] = asked'[t]
                         \/ Waits(publishing_queue', t)
    BY DEF RetainedInv
  <1>1. Call /\ asked' = Unasked(StartingWith[p]) /\ t \notin StartingWith[p]
    BY DEF Unretain, NeverUnretained
  <1>2. retained_topics \subseteq Topics
    BY DEF IInv, TypeOK
  <1>3. CASE p \in retained_topics
    <2>1. <<p>> \in Seq(Topics) /\ Len(<<p>>) = 1 /\ <<p>>[1] = p
      BY <1>2, <1>3
    <2>2. p # t
      BY <1>1, <1>2, <1>3, TopicAssumption
    <2>3. \A i \in 1..Len(<<p>>) : <<p>>[i] # t
      BY <2>1, <2>2
    <2>4. publishing_queue' = publishing_queue \o Deletions(<<p>>)
      BY <1>3 DEF Unretain
    <2> QED
      BY <1>1, <2>1, <2>3, <2>4, OthersDeleted
  <1>4. CASE p \notin retained_topics
    <2> DEFINE S == StartingWith[p] \cap retained_topics
    <2>1. PICK q \in Orders(S) : publishing_queue' = publishing_queue \o Deletions(q)
      BY <1>4 DEF Unretain
    <2>2. q \in Seq(Topics) /\ \A i \in 1..Len(q) : q[i] # t
      BY <1>1, <1>2, <2>1, OrdersElements
    <2> QED
      BY <1>1, <2>1, <2>2, OthersDeleted
  <1> QED
    BY <1>3, <1>4

LEMMA UnretainByRegexRetains ==
  ASSUME IInv, RetainedInv, NEW S \in Patterns, UnretainByRegex(S)
  PROVE  RetainedInv'
  <1> SUFFICES ASSUME NEW t \in NeverUnretained
               PROVE  /\ OneWaits(publishing_queue', t, asked'[t])
                      /\ \/ t \in dropped' \/ broker_retained'[t] = asked'[t]
                         \/ Waits(publishing_queue', t)
    BY DEF RetainedInv
  <1>1. Call /\ asked' = Unasked(S) /\ t \notin S
    BY DEF UnretainByRegex, NeverUnretained
  <1>2. S \cap retained_topics \subseteq Topics
    BY DEF IInv, TypeOK
  <1>3. PICK q \in Orders(S \cap retained_topics) :
          publishing_queue' = publishing_queue \o Deletions(q)
    BY DEF UnretainByRegex
  <1>4. q \in Seq(Topics) /\ \A i \in 1..Len(q) : q[i] # t
    BY <1>1, <1>2, <1>3, OrdersElements
  <1> QED
    BY <1>1, <1>3, <1>4, OthersDeleted

\* Steps that touch none of the variables keep it.
LEMMA RetainedStays ==
  ASSUME RetainedInv, running' => running,
         UNCHANGED <<publishing_queue, asked, broker_retained, dropped>>
  PROVE  RetainedInv'
  BY DEF RetainedInv

LEMMA RetainedStep ==
  ASSUME IInv, RetainedInv, [Next]_vars
  PROVE  RetainedInv'
  <1>1. CASE EventPublish
    BY <1>1, EventPublishRetains
  <1>2. CASE \/ EventConnect \/ EventConnecting \/ EventConnected
             \/ EventDisconnected \/ EventTimer \/ EventSubscribe \/ EventUnsubscribe
    BY <1>2, RetainedStays DEF EventConnect, EventConnecting, EventConnected,
       EventDisconnected, EventTimer, EventSubscribe, EventUnsubscribe, Dequeue,
       pubVars, brokerVars
  <1>3. CASE DelayExpires \/ Poll \/ ConnectionLost
    BY <1>3, RetainedStays DEF DelayExpires, Poll, ConnectionLost, pubVars, brokerVars
  <1>4. ASSUME NEW t \in Topics, NEW v \in Values \cup {Empty},
               NEW retain \in BOOLEAN, Publish(t, v, retain)
        PROVE  RetainedInv'
    BY <1>4, PublishRetains
  <1>5. ASSUME NEW p \in Prefixes, Unretain(p) PROVE RetainedInv'
    BY <1>5, UnretainRetains
  <1>6. ASSUME NEW S \in Patterns, UnretainByRegex(S) PROVE RetainedInv'
    BY <1>6, UnretainByRegexRetains
  <1>7. ASSUME NEW t \in Topics, NEW cb, Subscribe(t, cb) \/ Unsubscribe(t, cb)
        PROVE  RetainedInv'
    BY <1>7, RetainedStays DEF Subscribe, Unsubscribe, Call, pubVars, brokerVars
  <1>8. CASE Teardown
    BY <1>8 DEF Teardown, RetainedInv
  <1>9. CASE UNCHANGED vars
    BY <1>9, RetainedStays DEF vars, pubVars, brokerVars
  <1> QED
    BY <1>1, <1>2, <1>3, <1>4, <1>5, <1>6, <1>7, <1>8, <1>9
       DEF Next, ProcessEvent, Application

\* A client that has settled has nothing queued.
LEMMA SettledQueues ==
  ASSUME IInv, Settled
  PROVE  publishing_queue = <<>> /\ subscription_queue = <<>> /\ unsubscription_queue = <<>>
  <1>1. CurrentClient.events = events /\ events = <<>>
    BY DEF CurrentClient, Settled
  <1>2. \A S : ~Occurs(events, S)
    BY <1>1 DEF Occurs
  <1> QED
    BY <1>1, <1>2 DEF IInv, Settled, Served

LEMMA RetainedInvariant == Spec => []RetainedInv
  <1>1. Init => RetainedInv
    BY DEF Init, RetainedInv, OneWaits, NeverUnretained
  <1>2. IInv /\ RetainedInv /\ [Next]_vars => RetainedInv'
    BY RetainedStep
  <1> QED
    BY <1>1, <1>2, Invariant, PTL DEF Spec

\* RetainedServed, topic by topic.
KeptTopicsServed ==
  Settled => \A t \in NeverUnretained \ dropped : broker_retained[t] = asked[t]

\* When the client has settled, the broker retains what the application asked
\* for last, of every topic that is never unretained (uic_mqtt_publish and the
\* publishing queue); except for messages that were lost with a connection.
THEOREM KeptTopicsAreServed == Spec => []KeptTopicsServed
  <1>1. IInv /\ RetainedInv => KeptTopicsServed
    <2> SUFFICES ASSUME IInv, RetainedInv, Settled, NEW t \in NeverUnretained \ dropped
                 PROVE  broker_retained[t] = asked[t]
      BY DEF KeptTopicsServed
    <2>1. running /\ publishing_queue = <<>>
      BY SettledQueues DEF Settled
    <2>2. ~Waits(publishing_queue, t)
      BY <2>1 DEF Waits
    <2> QED
      BY <2>1, <2>2 DEF RetainedInv
  <1> QED
    BY <1>1, Invariant, RetainedInvariant, PTL

\* An application that unretains nothing finds everything retained as it asked,
\* whatever it publishes and replaces, and however connections fail.
THEOREM RetainedIsServed == NeverUnretained = Topics => (Spec => []RetainedServed)
  <1> SUFFICES ASSUME NeverUnretained = Topics PROVE Spec => []RetainedServed
    OBVIOUS
  <1>1. KeptTopicsServed => RetainedServed
    BY DEF KeptTopicsServed, RetainedServed
  <1> QED
    BY <1>1, KeptTopicsAreServed, PTL

-----------------------------------------------------------------------------
(* Subscriptions.                                                          *)

\* Nothing waits to be unsubscribed.  The broker knows subscriptions with
\* callbacks only, and only these wait to be subscribed; on an open connection
\* each of them is known or waits.
SubscriptionInv ==
  running =>
    /\ unsubscription_queue = <<>>
    /\ broker_subscriptions \subseteq Subscribed
    /\ \A t \in Topics : Occurs(subscription_queue, {t}) => t \in Subscribed
    /\ current_state = "Connected" /\ link = "open" =>
         \A t \in Subscribed : \/ t \in broker_subscriptions
                               \/ Occurs(subscription_queue, {t})

\* The updates of the record by which the client works off its queues and
\* hears of a lost connection leave the link alone.
LEMMA LinkKept ==
  ASSUME NEW c \in Client, NEW q, NEW e
  PROVE  /\ send_event(c, e).link = c.link
         /\ send_once(c, e).link = c.link
         /\ WakeUpFor(c, q, e).link = c.link
         /\ on_disconnect(c).link = c.link
  BY DEF Client, send_event, send_once, WakeUpFor, on_disconnect, send_delayed_event

\* A record is stored with its link.
LEMMA LinkStored ==
  ASSUME NEW c, StoreClient(c)
  PROVE  link' = c.link
  BY DEF StoreClient

\* The record of a handled event has the link of the state.
LEMMA HandledLink ==
  ASSUME TypeOK, events # <<>>
  PROVE  Handled \in Client /\ Handled.link = link
  BY HandledType DEF Handled, CurrentClient

\* A step that changes no subscription, and after which the client is connected
\* only if it was, keeps it.
LEMMA SubscriptionsStay ==
  ASSUME SubscriptionInv, running' => running,
         UNCHANGED <<subVars, broker_subscriptions>>,
         current_state' = "Connected" /\ link' = "open"
           => current_state = "Connected" /\ link = "open"
  PROVE  SubscriptionInv'
  BY DEF SubscriptionInv, subVars, Subscribed

\* Entering Connecting: the broker starts a clean session.
LEMMA EventConnectingSubscriptions ==
  ASSUME IInv, SubscriptionInv, EventConnecting
  PROVE  SubscriptionInv'
  <1>1. running /\ events # <<>> /\ TypeOK /\ UNCHANGED subVars
    BY DEF EventConnecting, Dequeue, IInv
  <1>2. CASE current_state = "Disconnected"
    <2>1. current_state' = "Connecting" /\ broker_subscriptions' = {}
      BY <1>2 DEF EventConnecting
    <2> QED
      BY <1>1, <2>1 DEF SubscriptionInv, subVars, Subscribed
  <1>3. CASE current_state # "Disconnected"
    <2>1. StoreClient(Handled) /\ UNCHANGED <<current_state, broker_subscriptions>>
      BY <1>3 DEF EventConnecting
    <2>2. link' = link
      BY <1>1, <2>1, LinkStored, HandledLink
    <2> QED
      BY <1>1, <2>1, <2>2, SubscriptionsStay
  <1> QED
    BY <1>2, <1>3

\* What occurs in two sequences in a row.
LEMMA ConcatOccurs ==
  ASSUME NEW X, NEW p \in Seq(X), NEW q \in Seq(X), NEW S
  PROVE  Occurs(p \o q, S) <=> Occurs(p, S) \/ Occurs(q, S)
  <1> DEFINE b == p \o q
  <1>1. /\ Len(p) \in Nat /\ Len(q) \in Nat /\ Len(b) = Len(p) + Len(q)
        /\ \A i \in 1..Len(b) : b[i] = IF i <= Len(p) THEN p[i] ELSE q[i - Len(p)]
    BY ConcatProperties
  <1> HIDE DEF b
  <1>2. \A i \in 1..Len(p) : i \in 1..Len(b) /\ b[i] = p[i]
    BY <1>1
  <1>3. \A i \in 1..Len(q) : Len(p) + i \in 1..Len(b) /\ b[Len(p) + i] = q[i]
    BY <1>1
  <1>4. \A i \in 1..Len(b) : \/ i \in 1..Len(p) /\ b[i] = p[i]
                             \/ i - Len(p) \in 1..Len(q) /\ b[i] = q[i - Len(p)]
    BY <1>1
  <1>5. Occurs(b, S) <=> Occurs(p, S) \/ Occurs(q, S)
    BY <1>2, <1>3, <1>4 DEF Occurs
  <1> QED
    BY <1>5 DEF b

\* Entering Connected: every subscription is queued again.
LEMMA EventConnectedSubscriptions ==
  ASSUME IInv, SubscriptionInv, EventConnected
  PROVE  SubscriptionInv'
  <1>1. /\ running /\ events # <<>> /\ TypeOK
        /\ UNCHANGED <<running, unsubscription_queue, subscription_callbacks,
                       broker_subscriptions>>
    BY DEF EventConnected, Dequeue, IInv, brokerVars
  <1>2. CASE current_state = "Connecting"
    <2>1. PICK q \in Orders(Subscribed) :
            subscription_queue' = subscription_queue \o q
      BY <1>2 DEF EventConnected
    <2>2. subscription_queue \in Seq(Topics) /\ Subscribed \in SUBSET Topics
      BY <1>1 DEF TypeOK, Subscribed
    <2>3. q \in Seq(Topics) /\ \A i \in 1..Len(q) : q[i] \in Subscribed
      BY <2>1, <2>2, OrdersElements
    <2>4. \A t \in Topics : Occurs(subscription_queue', {t})
                              <=> Occurs(subscription_queue, {t}) \/ Occurs(q, {t})
      BY <2>1, <2>2, <2>3, ConcatOccurs
    <2>5. \A t \in Topics : Occurs(q, {t}) <=> t \in Subscribed
      <3>1. DOMAIN q = 1..Len(q)
        BY <2>3
      <3>2. \A t \in Subscribed : \E i \in DOMAIN q : q[i] = t
        BY <2>1 DEF Orders
      <3> QED
        BY <2>3, <3>1, <3>2 DEF Occurs
    <2>6. Subscribed' = Subscribed
      BY <1>1 DEF Subscribed
    <2> QED
      BY <1>1, <2>2, <2>4, <2>5, <2>6 DEF SubscriptionInv
  <1>3. CASE current_state # "Connecting"
    <2>1. StoreClient(Handled) /\ UNCHANGED <<current_state, subscription_queue>>
      BY <1>3 DEF EventConnected
    <2>2. link' = link
      BY <1>1, <2>1, LinkStored, HandledLink
    <2> QED
      BY <1>1, <2>1, <2>2, SubscriptionsStay DEF subVars
  <1> QED
    BY <1>2, <1>3

\* Sending the first subscription: an open link takes it to the broker.
LEMMA EventSubscribeSubscriptions ==
  ASSUME IInv, SubscriptionInv, EventSubscribe
  PROVE  SubscriptionInv'
  <1> DEFINE q == subscription_queue
             s == Head(q)
             rest == Tail(q)
  <1>1. /\ running /\ events # <<>> /\ TypeOK
        /\ UNCHANGED <<running, current_state, unsubscription_queue,
                       subscription_callbacks>>
    BY DEF EventSubscribe, Dequeue, IInv
  <1>2. Handled \in Client /\ Handled.link = link /\ q \in Seq(Topics)
    BY <1>1, HandledLink DEF TypeOK
  <1>3. link' = link
    <2>1. ASSUME NEW r PROVE WakeUpFor(Handled, r, "SUBSCRIBE").link = link
      BY <1>2, LinkKept
    <2>2. on_disconnect(Handled).link = link
      BY <1>2, LinkKept
    <2>3. \/ StoreClient(Handled) \/ StoreClient(on_disconnect(Handled))
          \/ StoreClient(WakeUpFor(Handled, rest, "SUBSCRIBE"))
      BY DEF EventSubscribe
    <2> QED
      BY <1>2, <2>1, <2>2, <2>3, LinkStored
  <1>4. Subscribed' = Subscribed
    BY <1>1 DEF Subscribed
  <1>5. CASE UNCHANGED <<subscription_queue, broker_subscriptions>>
    BY <1>1, <1>3, <1>5, SubscriptionsStay DEF subVars
  <1>6. CASE /\ q # <<>> /\ q' = rest
             /\ broker_subscriptions' =
                  IF link = "open" THEN broker_subscriptions \cup {s}
                  ELSE broker_subscriptions
    <2>1. ASSUME NEW t PROVE Occurs(q, {t}) <=> s = t \/ Occurs(rest, {t})
      <3>1. Occurs(q, {t}) <=> s \in {t} \/ Occurs(rest, {t})
        BY <1>2, <1>6, TailFacts
      <3> QED
        BY <3>1
    <2>2. s \in Topics
      BY <1>2, <1>6
    <2> HIDE DEF s, rest
    <2> QED
      BY <1>1, <1>3, <1>4, <1>6, <2>1, <2>2 DEF SubscriptionInv, q
  <1> QED
    BY <1>5, <1>6 DEF EventSubscribe

\* Subscribing queues a topic that has its first callback.
LEMMA SubscribeSubscriptions ==
  ASSUME IInv, SubscriptionInv, NEW t \in Topics, NEW cb \in Callbacks,
         Subscribe(t, cb)
  PROVE  SubscriptionInv'
  <1>1. /\ running /\ TypeOK
        /\ UNCHANGED <<running, current_state, unsubscription_queue,
                       broker_subscriptions>>
        /\ subscription_callbacks' = [subscription_callbacks EXCEPT ![t] = @ \cup {cb}]
    BY DEF Subscribe, Call, IInv, brokerVars
  <1>2. Subscribed' = Subscribed \cup {t}
    BY <1>1 DEF Subscribed, TypeOK
  <1>3. CASE t \in Subscribed
    <2>1. UNCHANGED <<link, subscription_queue>>
      BY <1>3 DEF Subscribe, fsmVars
    <2>2. Subscribed' = Subscribed
      BY <1>2, <1>3
    <2> QED
      BY <1>1, <2>1, <2>2 DEF SubscriptionInv
  <1>4. CASE t \notin Subscribed
    <2>1. /\ subscription_queue' = Append(subscription_queue, t)
          /\ StoreClient(send_once(CurrentClient, "SUBSCRIBE"))
      BY <1>4 DEF Subscribe
    <2>2. link' = link
      <3>1. CurrentClient \in Client /\ CurrentClient.link = link
        BY <1>1, CurrentType DEF CurrentClient
      <3> QED
        BY <2>1, <3>1, LinkKept, LinkStored
    <2>3. \A u \in Topics : Occurs(subscription_queue', {u})
                              <=> Occurs(subscription_queue, {u}) \/ t = u
      <3> SUFFICES ASSUME NEW u \in Topics
                   PROVE  Occurs(subscription_queue', {u})
                            <=> Occurs(subscription_queue, {u}) \/ t = u
        OBVIOUS
      <3>1. Occurs(subscription_queue', {u})
              <=> Occurs(subscription_queue, {u}) \/ t \in {u}
        BY <1>1, <2>1, AppendOccurs DEF TypeOK
      <3> QED
        BY <3>1
    <2>4. Subscribed \subseteq Topics
      BY DEF Subscribed
    <2> QED
      BY <1>1, <1>2, <2>2, <2>3, <2>4 DEF SubscriptionInv
  <1> QED
    BY <1>3, <1>4

\* With nothing queued, the unsubscribing event has nothing to do; the events
\* of the connection and of the publications leave subscriptions alone, and
\* none of them enters Connected.
LEMMA OtherEventsSubscriptions ==
  ASSUME IInv, SubscriptionInv,
         \/ EventConnect \/ EventDisconnected \/ EventTimer
         \/ EventPublish \/ EventUnsubscribe
  PROVE  SubscriptionInv'
  <1>1. running /\ running' /\ events # <<>> /\ TypeOK
    BY DEF EventConnect, EventDisconnected, EventTimer, EventPublish,
           EventUnsubscribe, Dequeue, IInv
  <1>2. Handled \in Client /\ Handled.link = link
    BY <1>1, HandledLink
  <1>3. CASE EventConnect
    <2>1. link' = link
      BY <1>2, <1>3, LinkKept, LinkStored DEF EventConnect
    <2> QED
      BY <1>1, <1>3, <2>1, SubscriptionsStay DEF EventConnect, brokerVars
  <1>4. CASE EventDisconnected
    BY <1>1, <1>4, SubscriptionsStay DEF EventDisconnected, brokerVars
  <1>5. CASE EventTimer
    <2>1. /\ [Handled EXCEPT !.delay = "off"] \in Client
          /\ [Handled EXCEPT !.delay = "off"].link = link
      BY <1>2 DEF Client
    <2>2. link' = link
      BY <1>5, <2>1, LinkKept, LinkStored DEF EventTimer
    <2> QED
      BY <1>1, <1>5, <2>2, SubscriptionsStay DEF EventTimer, brokerVars
  <1>6. CASE EventPublish
    <2>1. \/ StoreClient(Handled) \/ StoreClient(on_disconnect(Handled))
          \/ StoreClient(WakeUpFor(Handled, Tail(publishing_queue), "PUBLISH"))
      BY <1>6 DEF EventPublish
    <2>2. link' = link
      BY <1>2, <2>1, LinkKept, LinkStored
    <2> QED
      BY <1>1, <1>6, <2>2, SubscriptionsStay DEF EventPublish
  <1>7. CASE EventUnsubscribe
    <2>1. unsubscription_queue = <<>>
      BY <1>1 DEF SubscriptionInv
    <2>2. StoreClient(Handled) /\ UNCHANGED <<current_state, subVars, broker_subscriptions>>
      BY <1>7, <2>1 DEF EventUnsubscribe, subVars
    <2>3. link' = link
      BY <1>2, <2>2, LinkStored
    <2> QED
      BY <1>1, <2>2, <2>3, SubscriptionsStay
  <1> QED
    BY <1>3, <1>4, <1>5, <1>6, <1>7

\* The environment opens a link only while the client is connecting.
LEMMA EnvironmentSubscriptions ==
  ASSUME IInv, SubscriptionInv, DelayExpires \/ Poll \/ ConnectionLost
  PROVE  SubscriptionInv'
  <1>1. /\ running /\ running'
        /\ UNCHANGED <<current_state, subVars, broker_subscriptions>>
    BY DEF DelayExpires, Poll, ConnectionLost, brokerVars
  <1>2. CASE DelayExpires \/ ConnectionLost
    <2>1. link' = link \/ link' = "lost"
      BY <1>2 DEF DelayExpires, ConnectionLost
    <2> QED
      BY <1>1, <2>1, SubscriptionsStay
  <1>3. CASE Poll
    <2>1. /\ CurrentClient \in Client /\ CurrentClient.link = link
          /\ OpeningInv(current_state, CurrentClient)
      BY <1>1, CurrentType DEF IInv, ConnInv, CurrentClient
    <2>2. PICK c \in PollOutcomes(CurrentClient) : StoreClient(c)
      BY <1>3 DEF Poll
    <2>3. CASE link = "opening"
      BY <1>1, <2>1, <2>3, SubscriptionsStay DEF OpeningInv
    <2>4. CASE link # "opening"
      <3>1. c = LossFound(CurrentClient)
        BY <2>1, <2>2, <2>4 DEF PollOutcomes
      <3>2. /\ [CurrentClient EXCEPT !.link = "closed"] \in Client
            /\ [CurrentClient EXCEPT !.link = "closed"].link = "closed"
        BY <2>1 DEF Client
      <3>3. link' = "closed"
        BY <2>2, <3>1, <3>2, LinkKept, LinkStored DEF LossFound
      <3> QED
        BY <1>1, <3>3, SubscriptionsStay
    <2> QED
      BY <2>3, <2>4
  <1> QED
    BY <1>2, <1>3

\* Publishing and unretaining leave subscriptions alone.
LEMMA PublicationsSubscriptions ==
  ASSUME IInv, SubscriptionInv,
         \/ \E t \in Topics, v \in Values \cup {Empty}, retain \in BOOLEAN :
              Publish(t, v, retain)
         \/ \E p \in Prefixes : Unretain(p)
         \/ \E S \in Patterns : UnretainByRegex(S)
  PROVE  SubscriptionInv'
  <1>1. Call /\ StoreClient(send_once(CurrentClient, "PUBLISH")) /\ UNCHANGED subVars
    BY DEF Publish, Unretain, UnretainByRegex
  <1>2. /\ running /\ running' /\ TypeOK
        /\ UNCHANGED <<current_state, broker_subscriptions>>
    BY <1>1 DEF Call, IInv, brokerVars
  <1>3. CurrentClient \in Client /\ CurrentClient.link = link
    BY <1>2, CurrentType DEF CurrentClient
  <1>4. link' = link
    BY <1>1, <1>3, LinkKept, LinkStored
  <1> QED
    BY <1>1, <1>2, <1>4, SubscriptionsStay

LEMMA SubscriptionStep ==
  ASSUME Unsubscribers = {}, IInv, SubscriptionInv, [Next]_vars
  PROVE  SubscriptionInv'
  <1>1. CASE ProcessEvent
    BY <1>1, EventConnectingSubscriptions, EventConnectedSubscriptions,
       EventSubscribeSubscriptions, OtherEventsSubscriptions DEF ProcessEvent
  <1>2. CASE DelayExpires \/ Poll \/ ConnectionLost
    BY <1>2, EnvironmentSubscriptions
  <1>3. CASE Application
    BY <1>3, PublicationsSubscriptions, SubscribeSubscriptions DEF Application
  <1>4. CASE Teardown
    BY <1>4 DEF Teardown, SubscriptionInv
  <1>5. CASE UNCHANGED vars
    BY <1>5, SubscriptionsStay DEF vars, fsmVars, brokerVars
  <1> QED
    BY <1>1, <1>2, <1>3, <1>4, <1>5 DEF Next

\* An application that never unsubscribes finds the broker subscribed to
\* exactly the topics that have callbacks when the client has settled
\* (uic_mqtt_subscribe and its queue), however connections fail before.
THEOREM SubscriptionsAreServed ==
  Unsubscribers = {} => (Spec => []SubscriptionsServed)
  <1> SUFFICES ASSUME Unsubscribers = {} PROVE Spec => []SubscriptionsServed
    OBVIOUS
  <1>1. Init => SubscriptionInv
    BY DEF Init, SubscriptionInv, Occurs
  <1>2. IInv /\ SubscriptionInv /\ [Next]_vars => SubscriptionInv'
    BY SubscriptionStep
  <1>3. IInv /\ SubscriptionInv => SubscriptionsServed
    <2> SUFFICES ASSUME IInv, SubscriptionInv, Settled
                 PROVE  broker_subscriptions = Subscribed
      BY DEF SubscriptionsServed
    <2>1. /\ running /\ current_state = "Connected" /\ link = "open"
          /\ subscription_queue = <<>>
      BY SettledQueues DEF Settled
    <2>2. \A t : ~Occurs(subscription_queue, {t})
      BY <2>1 DEF Occurs
    <2> QED
      BY <2>1, <2>2 DEF SubscriptionInv
  <1> QED
    BY <1>1, <1>2, <1>3, Invariant, PTL DEF Spec
=============================================================================
