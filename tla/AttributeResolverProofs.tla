----------------------- MODULE AttributeResolverProofs -----------------------
(* Type correctness and wake-up of the attribute resolver, for every tree, *)
(* rule book and retry configuration.                                      *)
EXTENDS AttributeResolver, SequenceTheorems, WellFoundedInduction, TLAPS

ViewsType == [Nodes -> NodeView]

IsPath(st) ==
  \A i \in 1..Len(st) :
    IF i = 1 THEN st[i].node = Root
    ELSE Parent[st[i].node] = st[i - 1].node /\ st[i].node # Root

\* What WakeUp, OneScan and StackIsPath say of the scan and its queue, when the
\* resolver may (TRUE) or may not (FALSE) go on at the next NEXT event.
AwakeSched(s, awake) ==
  /\ IsPath(s.stack)
  /\ (\E i \in 1..Len(s.queue) : s.queue[i] = NextEvent)
       <=> (s.requested \/ (s.stack # <<>> /\ awake))
  /\ \A i, j \in 1..Len(s.queue) :
        s.queue[i] = NextEvent /\ s.queue[j] = NextEvent => i = j
  /\ s.requested => s.stack = <<>>

-----------------------------------------------------------------------------
(* Operators on one node.                                                  *)

\* The update callback keeps the record of a node well formed.
LEMMA UpdateType ==
  ASSUME NEW n \in Nodes, NEW x \in NodeView
  PROVE  on_resolver_node_update(n, x) \in NodeView
  BY DEF on_resolver_node_update, NodeView

\* Writing a reported value does.
LEMMA SetReportedType ==
  ASSUME NEW n \in Nodes, NEW x \in NodeView, NEW u \in Values \cup {Undef}
  PROVE  SetReported(n, x, u) \in NodeView
  <1> DEFINE y == [x EXCEPT !.reported = u]
  <1>1. y \in NodeView
    BY DEF NodeView
  <1> QED
    BY <1>1, UpdateType DEF SetReported

\* Writing a desired value does.
LEMMA SetDesiredType ==
  ASSUME NEW n \in Nodes, NEW x \in NodeView, NEW u \in Values \cup {Undef}
  PROVE  SetDesired(n, x, u) \in NodeView
  <1> DEFINE y == [x EXCEPT !.desired = u]
  <1>1. y \in NodeView
    BY DEF NodeView
  <1> QED
    BY <1>1, UpdateType DEF SetDesired

\* The records built from the state are well formed.
LEMMA ViewsOfState ==
  ASSUME TypeOK
  PROVE  Views \in ViewsType
  BY DEF TypeOK, Views, ViewsType, NodeView

\* Giving up keeps them well formed.
LEMMA GiveUpType ==
  ASSUME NEW n \in Nodes, NEW V \in ViewsType
  PROVE  GiveUpViews(n, V) \in ViewsType
  <1>1. ASSUME NEW a \in Nodes
        PROVE  [SetDesired(a, V[a], Undef)
                  EXCEPT !.get = [timeout |-> Unset, count |-> RetryCount,
                                  missed |-> FALSE]]
                 \in NodeView
    <2>1. SetDesired(a, V[a], Undef) \in NodeView
      BY SetDesiredType DEF ViewsType
    <2>2. [timeout |-> Unset, count |-> RetryCount, missed |-> FALSE] \in Pending
      BY TimeAssumption DEF Pending
    <2> QED
      BY <2>1, <2>2 DEF NodeView
  <1> QED
    BY <1>1 DEF GiveUpViews, ViewsType

-----------------------------------------------------------------------------
(* Operators on the scan.                                                  *)

\* Posting an event other than NEXT changes nothing of the wake-up condition.
LEMMA PostOther ==
  ASSUME NEW s \in Sched, NEW e \in Events, e # NextEvent, NEW awake \in BOOLEAN,
         AwakeSched(s, awake)
  PROVE  /\ Post(s, e) \in Sched
         /\ AwakeSched(Post(s, e), awake)
         /\ Post(s, e).stack = s.stack
  <1> DEFINE q == Append(s.queue, e)
  <1>1. s.queue \in Seq(Events)
    BY DEF Sched
  <1>6. Post(s, e) = [stack |-> s.stack, requested |-> s.requested, queue |-> q]
    <2> HIDE DEF q
    <2>1. Post(s, e) = [s EXCEPT !.queue = q]
      BY DEF Post, q
    <2> QED
      BY <2>1 DEF Sched
  <1>2. /\ q \in Seq(Events) /\ Len(q) = Len(s.queue) + 1
        /\ \A i \in 1..Len(s.queue) : q[i] = s.queue[i]
        /\ q[Len(s.queue) + 1] = e
    BY <1>1, AppendProperties
  <1>3. Len(s.queue) \in Nat
    BY <1>1, LenProperties
  <1>4. \A i \in 1..Len(q) : q[i] = NextEvent =>
           i \in 1..Len(s.queue) /\ s.queue[i] = NextEvent
    BY <1>2, <1>3
  <1>5. 1..Len(s.queue) \subseteq 1..Len(q)
    BY <1>2, <1>3
  <1> HIDE DEF q
  <1> QED
    BY <1>1, <1>6, <1>2, <1>4, <1>5 DEF AwakeSched, Sched

\* Posting NEXT when none is queued leaves exactly one.
LEMMA PostNext ==
  ASSUME NEW s \in Sched,
         \A i \in 1..Len(s.queue) : s.queue[i] # NextEvent
  PROVE  /\ Post(s, NextEvent) \in Sched
         /\ Post(s, NextEvent).stack = s.stack
         /\ Post(s, NextEvent).requested = s.requested
         /\ \E i \in 1..Len(Post(s, NextEvent).queue) :
               Post(s, NextEvent).queue[i] = NextEvent
         /\ \A i, j \in 1..Len(Post(s, NextEvent).queue) :
               /\ Post(s, NextEvent).queue[i] = NextEvent
               /\ Post(s, NextEvent).queue[j] = NextEvent
               => i = j
  <1> DEFINE q == Append(s.queue, NextEvent)
  <1>6. s.queue \in Seq(Events) /\ NextEvent \in Events
    BY DEF Sched, Events
  <1>7. Post(s, NextEvent)
          = [stack |-> s.stack, requested |-> s.requested, queue |-> q]
    <2> HIDE DEF q
    <2>1. Post(s, NextEvent) = [s EXCEPT !.queue = q]
      BY DEF Post, q
    <2> QED
      BY <2>1 DEF Sched
  <1>1. /\ s.queue \in Seq(Events)
        /\ Post(s, NextEvent)
             = [stack |-> s.stack, requested |-> s.requested, queue |-> q]
        /\ NextEvent \in Events
    BY <1>6, <1>7
  <1>2. /\ q \in Seq(Events) /\ Len(q) = Len(s.queue) + 1
        /\ \A i \in 1..Len(s.queue) : q[i] = s.queue[i]
        /\ q[Len(s.queue) + 1] = NextEvent
    BY <1>1, AppendProperties
  <1>3. Len(s.queue) \in Nat
    BY <1>1, LenProperties
  <1>4. \A i \in 1..Len(q) : q[i] = NextEvent => i = Len(s.queue) + 1
    BY <1>2, <1>3
  <1>5. Len(s.queue) + 1 \in 1..Len(q)
    BY <1>2, <1>3
  <1> HIDE DEF q
  <1> QED
    BY <1>1, <1>2, <1>4, <1>5 DEF Sched

\* scan_node keeps the scan well formed and the wake-up condition, and neither
\* starts nor ends the scan that is under way.
LEMMA ScanNode ==
  ASSUME NEW s \in Sched, NEW S, NEW awake \in BOOLEAN, AwakeSched(s, awake)
  PROVE  /\ scan_node(s, S) \in Sched
         /\ AwakeSched(scan_node(s, S), awake)
         /\ scan_node(s, S).stack = <<>> <=> s.stack = <<>>
  <1> DEFINE st == [i \in 1..Len(s.stack) |->
                      IF \E n \in S : IsCommonParent(s.stack, i, n)
                      THEN [node |-> s.stack[i].node, index |-> 0]
                      ELSE s.stack[i]]
  <1>1. CASE S = {} \/ (s.stack = <<>> /\ s.requested)
    BY <1>1 DEF scan_node
  <1>2. CASE S # {} /\ s.stack # <<>>
    <2>1. /\ s.stack \in Seq(Frames) /\ Len(s.stack) \in Nat
          /\ Len(s.stack) # 0
          /\ \A i \in 1..Len(s.stack) : s.stack[i] \in Frames
      BY <1>2, EmptySeq, ElementOfSeq DEF Sched
    <2>2. st \in [1..Len(s.stack) -> Frames]
      BY <2>1 DEF Frames
    <2>3. st \in Seq(Frames)
      BY <2>1, <2>2, SeqDef
    <2>4. st # <<>>
      <3>1. DOMAIN st = 1..Len(s.stack)
        OBVIOUS
      <3>2. 1 \in DOMAIN st
        BY <2>1, <3>1
      <3> QED
        BY <3>2
    <2>5. scan_node(s, S) = [s EXCEPT !.stack = st]
      BY <1>2 DEF scan_node
    <2>6. scan_node(s, S)
            = [stack |-> st, requested |-> s.requested, queue |-> s.queue]
      BY <2>5 DEF Sched
    <2>7. Len(st) = Len(s.stack) /\ \A i \in 1..Len(st) : st[i].node = s.stack[i].node
      BY <2>1, <2>2, <2>3 DEF Frames
    <2> HIDE DEF st
    <2>8. IsPath(st)
      <3>1. IsPath(s.stack)
        BY DEF AwakeSched
      <3>2. \A i \in 1..Len(st) : i # 1 => i - 1 \in 1..Len(st)
        BY <2>1, <2>7
      <3> QED
        BY <2>7, <3>1, <3>2 DEF IsPath
    <2> QED
      BY <1>2, <2>3, <2>4, <2>6, <2>8 DEF AwakeSched, Sched
  <1>3. CASE S # {} /\ s.stack = <<>> /\ ~s.requested
    <2> DEFINE t == [s EXCEPT !.requested = TRUE]
    <2>1. /\ t \in Sched
          /\ t.stack = <<>> /\ t.requested = TRUE /\ t.queue = s.queue
      BY <1>3 DEF Sched
    <2>2. \A i \in 1..Len(t.queue) : t.queue[i] # NextEvent
      BY <1>3, <2>1 DEF AwakeSched
    <2>3. scan_node(s, S) = Post(t, NextEvent)
      BY <1>3 DEF scan_node
    <2> HIDE DEF t
    <2> QED
      BY <1>3, <2>1, <2>2, <2>3, PostNext DEF AwakeSched
  <1> QED
    BY <1>1, <1>2, <1>3 DEF Sched

\* A nonempty set of positive deadlines has a first one.
LEMMA FirstDeadline ==
  ASSUME NEW T, T \subseteq Nat, T # {}
  PROVE  (CHOOSE k \in T : \A l \in T : k <= l) \in T
  <1> DEFINE R == {ss \in Nat \X Nat : ss[1] < ss[2]}
  <1>1. IsWellFoundedOn(R, Nat)
    BY NatLessThanWellFounded DEF OpToRel
  <1> HIDE DEF R
  <1>2. PICK k \in T : \A l \in T : <<l, k>> \notin R
    BY <1>1, WFMin
  <1>3. ASSUME NEW l \in T
        PROVE  k <= l
    <2>1. l \in Nat /\ k \in Nat
      OBVIOUS
    <2>2. l < k => <<l, k>> \in R
      BY <2>1 DEF R
    <2> QED
      BY <1>2, <2>1, <2>2
  <1> QED
    BY <1>2, <1>3

\* Restarting the retry timer keeps the scan well formed and awake.
LEMMA RestartTimer ==
  ASSUME NEW V \in ViewsType, NEW s \in Sched, NEW awake \in BOOLEAN,
         AwakeSched(s, awake)
  PROVE  /\ restart_timer(V, s) \in Sched
         /\ AwakeSched(restart_timer(V, s), awake)
         /\ restart_timer(V, s).stack = <<>> <=> s.stack = <<>>
  <1> DEFINE due   == {n \in RetriableGets(V) : V[n].get.timeout <= 0}
             later == {V[n].get.timeout : n \in RetriableGets(V) \ due}
             first == CHOOSE k \in later : \A l \in later : k <= l
             s1    == scan_node(s, due)
  <1>1. /\ s1 \in Sched
        /\ AwakeSched(s1, awake)
        /\ s1.stack = <<>> <=> s.stack = <<>>
    BY ScanNode
  <1>2. ASSUME NEW n \in RetriableGets(V), n \notin due
        PROVE  V[n].get.timeout \in 1..MaxWait
    <2>1. n \in Nodes /\ V[n].get # None /\ V[n].get.timeout # Unset
      BY TreeAssumption DEF RetriableGets, live
    <2>2. V[n].get \in Pending
      BY <2>1 DEF ViewsType, NodeView
    <2>3. V[n].get.timeout \in -1..MaxWait /\ ~(V[n].get.timeout <= 0)
      BY <1>2, <2>1, <2>2 DEF Pending
    <2> QED
      BY <2>3, TimeAssumption
  <1>3. later \subseteq 1..MaxWait
    BY <1>2
  <1>4. CASE later # {}
    <2>1. later \subseteq Nat
      BY <1>3, TimeAssumption
    <2>2. first \in later
      BY <1>4, <2>1, FirstDeadline
    <2>3. TimerSet(first) \in Events /\ TimerSet(first) # NextEvent
      <3>1. TimerSet(first) \in Events
        BY <1>3, <2>2 DEF Events
      <3>2. TimerSet(first).type # NextEvent.type
        BY DEF TimerSet, NextEvent
      <3> QED
        BY <3>1, <3>2
    <2>4. restart_timer(V, s) = s \/ restart_timer(V, s) = Post(s1, TimerSet(first))
      BY <1>4 DEF restart_timer
    <2> HIDE DEF s1, first, later, due
    <2>5. /\ Post(s1, TimerSet(first)) \in Sched
          /\ AwakeSched(Post(s1, TimerSet(first)), awake)
          /\ Post(s1, TimerSet(first)).stack = s1.stack
      BY <1>1, <2>3, PostOther
    <2> QED
      BY <1>1, <2>4, <2>5
  <1>5. CASE later = {}
    <2>1. restart_timer(V, s) = s \/ restart_timer(V, s) = s1
      BY <1>5 DEF restart_timer
    <2> QED
      BY <1>1, <2>1
  <1> QED
    BY <1>4, <1>5

\* The completion of a rule keeps everything well formed.  It is called when no
\* NEXT event stands for the scan under way, and posts the one that is needed.
LEMMA RuleComplete ==
  ASSUME NEW n \in Nodes, NEW V \in ViewsType, NEW s \in Sched,
         AwakeSched(s, FALSE), NEW wait \in RetryWaits
  PROVE  LET c == on_resolver_rule_execute_complete(n, V, s, wait)
         IN  /\ c.views \in ViewsType
             /\ c.sched \in Sched
             /\ AwakeSched(c.sched, TRUE)
  <1> DEFINE retry  == V[n].get # None /\ needs_get(n, V[n])
             V1     == IF retry THEN [V EXCEPT ![n].get.timeout = wait] ELSE V
             s1     == IF retry THEN restart_timer(V1, s) ELSE s
             gaveUp == retry /\ max_retries_reached(V1[n])
             V2     == IF gaveUp THEN GiveUpViews(n, V1) ELSE V1
             S      == ScansOf(V2) \cup ListenerAbove(n, listeners)
             s2     == IF gaveUp THEN scan_node(s1, S) ELSE s1
             again  == V2[n].set = "more"
             V3     == IF again THEN [V2 EXCEPT ![n].set = "none"] ELSE V2
             s3     == IF again THEN scan_node(s2, {n}) ELSE s2
             s4     == IF /\ n \in listeners
                          /\ ~attribute_resolver_node_or_child_needs_resolution(n, V3)
                       THEN Post(s3, Watch(n)) ELSE s3
             s5     == IF s4.stack # <<>> THEN Post(s4, NextEvent) ELSE s4
  <1>0. on_resolver_rule_execute_complete(n, V, s, wait)
          = [views |-> V3, sched |-> s5]
    BY DEF on_resolver_rule_execute_complete
  <1>1. V1 \in ViewsType
    <2>1. CASE retry
      <3>1. V[n] \in NodeView /\ V[n].get \in Pending
        BY <2>1 DEF ViewsType, NodeView
      <3>2. wait \in (-1..MaxWait) \cup {Unset}
        BY TimeAssumption
      <3>3. [V[n].get EXCEPT !.timeout = wait] \in Pending
        BY <3>1, <3>2 DEF Pending
      <3>4. [V[n] EXCEPT !.get = [V[n].get EXCEPT !.timeout = wait]] \in NodeView
        BY <3>1, <3>3 DEF NodeView
      <3>5. V1 = [V EXCEPT ![n] = [V[n] EXCEPT !.get = [V[n].get EXCEPT !.timeout = wait]]]
        BY <2>1
      <3> QED
        BY <3>4, <3>5 DEF ViewsType
    <2>2. CASE ~retry
      BY <2>2
    <2> QED
      BY <2>1, <2>2
  <1> HIDE DEF V1
  <1>2. s1 \in Sched /\ AwakeSched(s1, FALSE)
    BY <1>1, RestartTimer
  <1> HIDE DEF s1
  <1>3. V2 \in ViewsType
    BY <1>1, GiveUpType
  <1> HIDE DEF V2
  <1>4. s2 \in Sched /\ AwakeSched(s2, FALSE)
    BY <1>2, ScanNode
  <1> HIDE DEF s2
  <1>5. V3 \in ViewsType
    BY <1>3 DEF ViewsType, NodeView
  <1> HIDE DEF V3
  <1>6. s3 \in Sched /\ AwakeSched(s3, FALSE)
    BY <1>4, ScanNode
  <1> HIDE DEF s3
  <1>7. s4 \in Sched /\ AwakeSched(s4, FALSE)
    <2>1. Watch(n) \in Events
      BY DEF Events
    <2>2. Watch(n) # NextEvent
      <3>1. Watch(n).type # NextEvent.type
        BY DEF Watch, NextEvent
      <3> QED
        BY <3>1
    <2> QED
      BY <1>6, <2>1, <2>2, PostOther
  <1> HIDE DEF s4
  <1>8. s5 \in Sched /\ AwakeSched(s5, TRUE)
    <2>1. CASE s4.stack # <<>>
      <3>1. ~s4.requested
        BY <1>7, <2>1 DEF AwakeSched
      <3>2. \A i \in 1..Len(s4.queue) : s4.queue[i] # NextEvent
        BY <1>7, <3>1 DEF AwakeSched
      <3>3. s5 = Post(s4, NextEvent)
        BY <2>1
      <3> QED
        BY <1>7, <2>1, <3>1, <3>2, <3>3, PostNext DEF AwakeSched
    <2>2. CASE s4.stack = <<>>
      BY <1>7, <2>2 DEF AwakeSched
    <2> QED
      BY <2>1, <2>2
  <1> HIDE DEF s5
  <1>9. \A x : x = [views |-> V3, sched |-> s5] => x.views = V3 /\ x.sched = s5
    OBVIOUS
  <1> QED
    BY <1>0, <1>5, <1>8, <1>9

-----------------------------------------------------------------------------
(* The inductive invariant, by the part of the state it is about.          *)

AttrInv ==
  /\ reported \in [Nodes -> Values \cup {Undef}]
  /\ desired \in [Nodes -> Values \cup {Undef}]
  /\ pending_get \in [Nodes -> Pending \cup {None}]
  /\ pending_set \in [Nodes -> {"none", "final", "more"}]

SchedInv ==
  /\ stack \in Seq(Frames) /\ scan_requested \in BOOLEAN /\ queue \in Seq(Events)
  /\ WakeUp /\ OneScan /\ StackIsPath

TreeInv ==
  /\ children \in [Nodes -> Seq(Nodes)]
  /\ fresh \subseteq Nodes \ {Root}
  /\ \A p \in Nodes : \A i \in 1..Len(children[p]) :
        children[p][i] # Root /\ Parent[children[p][i]] = p

\* A rule executes for a live node that has a rule: this is why the deletion
\* callback, which only nodes with a rule have, never misses one.
RuleInv ==
  /\ scanning \in BOOLEAN /\ more_frames \in BOOLEAN
  /\ resolver_state \in {"IDLE", "GET", "SET"}
  /\ node_pending \in HasGet \cup HasSet \cup {None}
  /\ EngineConsistent

ClientInv ==
  /\ paused \subseteq Nodes /\ listeners \subseteq Nodes
  /\ awaiting \subseteq listeners

EnvInv ==
  /\ etimer \in (-1..MaxWait) \cup {None}
  /\ outstanding \in [Nodes \X RuleTypes -> 0..MaxOutstanding]
  /\ calls \in 0..MaxCalls

IInv == AttrInv /\ SchedInv /\ TreeInv /\ RuleInv /\ ClientInv /\ EnvInv

\* The invariant contains the type invariant.
LEMMA InvType ==
  ASSUME IInv
  PROVE  TypeOK
  <1>1. node_pending \in Nodes \cup {None} /\ fresh \subseteq Nodes
    BY RuleAssumption DEF IInv, RuleInv, TreeInv
  <1> QED
    BY <1>1 DEF IInv, AttrInv, SchedInv, TreeInv, RuleInv, ClientInv, EnvInv, TypeOK

\* Live nodes are nodes, and those below the root are children of their parent.
LEMMA LiveNode ==
  ASSUME TreeInv, NEW n \in live
  PROVE  /\ n \in Nodes
         /\ n # Root => \E i \in 1..Len(children[Parent[n]]) :
                           children[Parent[n]][i] = n
  <1>1. n \in Nodes
    BY TreeAssumption DEF live
  <1>2. Parent[n] \in Nodes
    BY <1>1, TreeAssumption
  <1>3. DOMAIN children[Parent[n]] = 1..Len(children[Parent[n]])
    BY <1>2, LenProperties DEF TreeInv
  <1> QED
    BY <1>1, <1>3 DEF live

\* What the handlers start from: the scan as a record is awake.
LEMMA FromState ==
  ASSUME IInv
  PROVE  /\ Views \in ViewsType
         /\ CurrentSched \in Sched
         /\ AwakeSched(CurrentSched, ~Busy /\ ~scanning)
  <1>1. Views \in ViewsType
    BY InvType, ViewsOfState
  <1>2. CurrentSched \in Sched
    BY DEF CurrentSched, Sched, IInv, SchedInv
  <1>3. DOMAIN queue = 1..Len(queue)
    BY LenProperties DEF IInv, SchedInv
  <1> QED
    BY <1>1, <1>2, <1>3 DEF CurrentSched, IInv, SchedInv, AwakeSched, WakeUp,
       NextQueued, OneScan, StackIsPath, IsPath

\* What the handlers end with: a record that is awake leaves an awake resolver.
LEMMA ToSched ==
  ASSUME NEW s \in Sched, NEW awake \in BOOLEAN, AwakeSched(s, awake),
         StoreSched(s), awake <=> (~Busy' /\ ~scanning'), scanning' => ~Busy'
  PROVE  SchedInv'
  <1>1. /\ stack' = s.stack /\ scan_requested' = s.requested /\ queue' = s.queue
        /\ s.stack \in Seq(Frames) /\ s.requested \in BOOLEAN
        /\ s.queue \in Seq(Events)
    BY DEF StoreSched, Sched
  <1>2. DOMAIN s.queue = 1..Len(s.queue)
    BY <1>1, LenProperties
  <1>3. WakeUp' /\ OneScan'
    BY <1>1, <1>2 DEF AwakeSched, WakeUp, NextQueued, OneScan
  <1>4. StackIsPath'
    BY <1>1 DEF AwakeSched, StackIsPath, IsPath
  <1> QED
    BY <1>1, <1>3, <1>4 DEF SchedInv

\* The same for a handler that leaves the rule engine alone.
LEMMA ToSchedIdle ==
  ASSUME NEW s \in Sched, AwakeSched(s, ~Busy /\ ~scanning), StoreSched(s),
         ~scanning, scanning' = scanning, resolver_state' = resolver_state
  PROVE  SchedInv'
  <1>1. CASE Busy
    <2>1. AwakeSched(s, FALSE)
      BY <1>1
    <2>2. Busy' /\ ~scanning'
      BY <1>1 DEF Busy
    <2> QED
      BY <2>1, <2>2, ToSched
  <1>2. CASE ~Busy
    <2>1. AwakeSched(s, TRUE)
      BY <1>2
    <2>2. ~Busy' /\ ~scanning'
      BY <1>2 DEF Busy
    <2> QED
      BY <2>1, <2>2, ToSched
  <1> QED
    BY <1>1, <1>2

\* Storing the records of the nodes keeps their types.
LEMMA ToAttr ==
  ASSUME NEW V \in ViewsType, StoreViews(V)
  PROVE  AttrInv'
  <1>1. \A n \in Nodes : V[n] \in NodeView
    BY DEF ViewsType
  <1> QED
    BY <1>1 DEF StoreViews, AttrInv, NodeView

-----------------------------------------------------------------------------
(* Initial states.                                                         *)

\* After initialisation the one NEXT event stands for the requested scan.
LEMMA InitInv ==
  ASSUME Init
  PROVE  IInv
  <1>1. AttrInv /\ ClientInv
    BY DEF Init, AttrInv, ClientInv
  <1>2. EnvInv
    BY BoundAssumption DEF Init, EnvInv
  <1>3. RuleInv
    BY DEF Init, RuleInv, EngineConsistent, Busy
  <1>4. TreeInv
    <2>1. \A p \in Nodes : DOMAIN InitialChildren[p] = 1..Len(InitialChildren[p])
      BY TreeAssumption, LenProperties
    <2> QED
      BY <2>1, TreeAssumption DEF Init, TreeInv
  <1>5. SchedInv
    <2>1. /\ queue = <<NextEvent>> /\ stack = <<>> /\ scan_requested = TRUE
          /\ NextEvent \in Events
      BY DEF Init, Events
    <2>2. queue \in Seq(Events) /\ DOMAIN queue = {1} /\ queue[1] = NextEvent
      BY <2>1
    <2>3. stack \in Seq(Frames) /\ Len(stack) = 0
      BY <2>1
    <2> QED
      BY <2>1, <2>2, <2>3 DEF SchedInv, WakeUp, NextQueued, OneScan, StackIsPath, Init
  <1> QED
    BY <1>1, <1>2, <1>3, <1>4, <1>5 DEF IInv

-----------------------------------------------------------------------------
(* The scan loop.                                                          *)

\* A part of a sequence.
LEMMA PartOf ==
  ASSUME NEW S, NEW q \in Seq(S), NEW lo \in Nat \ {0}, NEW hi \in Nat,
         hi <= Len(q), lo <= hi + 1
  PROVE  /\ SubSeq(q, lo, hi) \in Seq(S)
         /\ Len(SubSeq(q, lo, hi)) = hi - lo + 1
         /\ \A i \in 1..(hi - lo + 1) : SubSeq(q, lo, hi)[i] = q[lo + i - 1]
  <1>1. Len(q) \in Nat /\ \A i \in 1..Len(q) : q[i] \in S
    BY ElementOfSeq, LenProperties
  <1>2. lo \in Int /\ hi \in Int /\ \A i \in lo..hi : q[i] \in S
    BY <1>1
  <1>3. /\ SubSeq(q, lo, hi) \in Seq(S)
        /\ Len(SubSeq(q, lo, hi)) = IF lo <= hi THEN hi - lo + 1 ELSE 0
        /\ \A i \in 1 .. hi - lo + 1 : SubSeq(q, lo, hi)[i] = q[lo + i - 1]
    BY <1>2, SubSeqProperties
  <1> QED
    BY <1>3

\* Popping the stack in the scan loop.
LEMMA PopStack ==
  ASSUME IInv, scanning, stack # <<>>
  PROVE  /\ PoppedSched \in Sched
         /\ AwakeSched(PoppedSched, FALSE)
         /\ stack \in Seq(Frames) /\ Len(stack) \in Nat \ {0}
         /\ Popped \in Seq(Frames) /\ Len(Popped) = Len(stack) - 1
         /\ \A i \in 1..Len(Popped) : Popped[i] = stack[i]
         /\ Top \in Frames
  <1>1. stack \in Seq(Frames) /\ Len(stack) \in Nat /\ Len(stack) # 0
    BY EmptySeq, LenProperties DEF IInv, SchedInv
  <1>2. /\ Popped \in Seq(Frames) /\ Len(Popped) = Len(stack) - 1
        /\ \A i \in 1..Len(Popped) : Popped[i] = stack[i]
    <2> DEFINE hi == Len(stack) - 1
    <2>1. hi \in Nat /\ hi <= Len(stack) /\ 1 <= hi + 1 /\ 1 \in Nat \ {0}
      BY <1>1
    <2>2. Popped = SubSeq(stack, 1, hi)
      BY DEF Popped
    <2> HIDE DEF hi
    <2>3. /\ SubSeq(stack, 1, hi) \in Seq(Frames)
          /\ Len(SubSeq(stack, 1, hi)) = hi - 1 + 1
          /\ \A i \in 1..(hi - 1 + 1) : SubSeq(stack, 1, hi)[i] = stack[1 + i - 1]
      BY <1>1, <2>1, PartOf
    <2>4. hi - 1 + 1 = hi /\ \A i \in 1..hi : 1 + i - 1 = i
      BY <2>1
    <2> QED
      BY <2>2, <2>3, <2>4 DEF hi
  <1>3. Top \in Frames
    BY <1>1, ElementOfSeq DEF Top
  <1>4. CurrentSched \in Sched /\ AwakeSched(CurrentSched, FALSE)
    BY FromState
  <1>5. PoppedSched = [stack |-> Popped, requested |-> scan_requested,
                       queue |-> queue]
    BY DEF PoppedSched, CurrentSched
  <1>6. PoppedSched \in Sched
    BY <1>2, <1>4, <1>5 DEF Sched, CurrentSched
  <1>7. IsPath(Popped)
    <2>1. IsPath(stack)
      BY <1>4 DEF AwakeSched, CurrentSched
    <2>2. \A i \in 1..Len(Popped) : i \in 1..Len(stack)
      BY <1>1, <1>2
    <2>3. \A i \in 1..Len(Popped) : i # 1 => i - 1 \in 1..Len(Popped)
      BY <1>1, <1>2
    <2> QED
      BY <1>2, <2>1, <2>2, <2>3 DEF IsPath
  <1>8. ~scan_requested
    BY DEF IInv, SchedInv, OneScan
  <1>9. AwakeSched(PoppedSched, FALSE)
    BY <1>4, <1>5, <1>7, <1>8 DEF AwakeSched, CurrentSched
  <1> QED
    BY <1>1, <1>2, <1>3, <1>6, <1>9

\* A frame of the scan is pushed below its parent.
LEMMA PushedPath ==
  ASSUME NEW st \in Seq(Frames), IsPath(st), NEW f \in Frames,
         IF Len(st) = 0 THEN f.node = Root
         ELSE Parent[f.node] = st[Len(st)].node /\ f.node # Root
  PROVE  Append(st, f) \in Seq(Frames) /\ IsPath(Append(st, f))
  <1> DEFINE t == Append(st, f)
  <1>1. /\ t \in Seq(Frames) /\ Len(t) = Len(st) + 1
        /\ \A i \in 1..Len(st) : t[i] = st[i]
        /\ t[Len(st) + 1] = f
    BY AppendProperties
  <1>2. Len(st) \in Nat
    BY LenProperties
  <1> HIDE DEF t
  <1>3. ASSUME NEW i \in 1..Len(t)
        PROVE  IF i = 1 THEN t[i].node = Root
               ELSE Parent[t[i].node] = t[i - 1].node /\ t[i].node # Root
    <2>1. CASE i \in 1..Len(st)
      <3>1. i # 1 => i - 1 \in 1..Len(st)
        BY <1>2, <2>1
      <3> QED
        BY <1>1, <2>1, <3>1 DEF IsPath
    <2>2. CASE i = Len(st) + 1
      <3>1. i # 1 => Len(st) \in 1..Len(st) /\ Len(st) # 0 /\ i - 1 = Len(st)
        BY <1>2, <2>2
      <3>2. i = 1 => Len(st) = 0
        BY <1>2, <2>2
      <3> QED
        BY <1>1, <2>2, <3>1, <3>2
    <2> QED
      BY <1>1, <1>2, <2>1, <2>2
  <1> QED
    BY <1>1, <1>3 DEF t, IsPath

\* The node the scan has reached.
LEMMA ReachedNode ==
  ASSUME IInv, NEW n, NodeReached(n)
  PROVE  /\ scanning /\ stack # <<>> /\ n \in Nodes /\ n \in live
         /\ ~Busy /\ node_pending = None
  BY LiveNode DEF NodeReached, IInv, SchedInv, OneScan, RuleInv, EngineConsistent

\* The loop goes on after a node for which no frame was sent.
LEMMA ContinueInv ==
  ASSUME IInv, scanning,
         NEW V \in ViewsType, NEW s \in Sched, AwakeSched(s, FALSE),
         ContinueScan(V, s), UNCHANGED <<treeVars, clientVars, etimer, calls>>
  PROVE  IInv'
  <1>1. /\ StoreViews(V) /\ StoreSched(s)
        /\ scanning' = scanning /\ UNCHANGED ruleVars /\ outstanding' = outstanding
        /\ children' = children /\ fresh' = fresh /\ UNCHANGED clientVars
        /\ etimer' = etimer /\ calls' = calls
    BY DEF ContinueScan, treeVars
  <1>2. AttrInv'
    BY <1>1, ToAttr
  <1>3. Busy' = Busy /\ ~Busy /\ node_pending' = node_pending /\ live' = live
    BY <1>1 DEF IInv, SchedInv, OneScan, ruleVars, Busy, live
  <1>4. SchedInv'
    BY <1>1, <1>3, ToSched
  <1>5. TreeInv' /\ ClientInv' /\ EnvInv'
    BY <1>1 DEF IInv, TreeInv, ClientInv, EnvInv, clientVars
  <1>6. RuleInv'
    BY <1>1, <1>3 DEF IInv, RuleInv, EngineConsistent, ruleVars
  <1> QED
    BY <1>2, <1>4, <1>5, <1>6 DEF IInv

\* A node is complete without a frame: the loop returns, and the NEXT event it
\* needs to go on is posted.
LEMMA CompleteInv ==
  ASSUME IInv, scanning, NEW n \in Nodes,
         NEW V \in ViewsType, NEW s \in Sched, AwakeSched(s, FALSE),
         CompleteWithoutFrame(n, V, s),
         UNCHANGED <<treeVars, clientVars, etimer, calls>>
  PROVE  IInv'
  <1>1. PICK wait \in RetryWaits :
          LET c == on_resolver_rule_execute_complete(n, V, s, wait)
          IN  StoreViews(c.views) /\ StoreSched(c.sched)
    BY DEF CompleteWithoutFrame
  <1> DEFINE c == on_resolver_rule_execute_complete(n, V, s, wait)
  <1>2. /\ scanning' = FALSE /\ UNCHANGED ruleVars /\ outstanding' = outstanding
        /\ children' = children /\ fresh' = fresh /\ UNCHANGED clientVars
        /\ etimer' = etimer /\ calls' = calls
    BY DEF CompleteWithoutFrame, treeVars
  <1>3. c.views \in ViewsType /\ c.sched \in Sched /\ AwakeSched(c.sched, TRUE)
    BY RuleComplete
  <1>4. StoreViews(c.views) /\ StoreSched(c.sched)
    BY <1>1
  <1> HIDE DEF c
  <1>5. AttrInv'
    BY <1>3, <1>4, ToAttr
  <1>6. Busy' = Busy /\ ~Busy /\ node_pending' = node_pending /\ live' = live
    BY <1>2 DEF IInv, SchedInv, OneScan, ruleVars, Busy, live
  <1>7. SchedInv'
    BY <1>2, <1>3, <1>4, <1>6, ToSched
  <1>8. TreeInv' /\ ClientInv' /\ EnvInv'
    BY <1>2 DEF IInv, TreeInv, ClientInv, EnvInv, clientVars
  <1>9. RuleInv'
    BY <1>2, <1>6 DEF IInv, RuleInv, EngineConsistent, ruleVars
  <1> QED
    BY <1>5, <1>7, <1>8, <1>9 DEF IInv

\* A frame was sent for a node with a rule: the loop returns without an event,
\* because the completion will post it.
LEMMA SentInv ==
  ASSUME IInv, scanning, stack # <<>>,
         NEW n \in live, n \in HasGet \cup HasSet,
         NEW kind \in RuleTypes, NEW frame, NEW V \in ViewsType,
         StoreViews(V), StoreSched(PoppedSched), FrameSent(n, kind, frame),
         UNCHANGED <<treeVars, clientVars, etimer, calls>>
  PROVE  IInv'
  <1>1. /\ scanning' = FALSE /\ resolver_state' = kind /\ node_pending' = n
        /\ more_frames' \in BOOLEAN
        /\ children' = children /\ fresh' = fresh /\ UNCHANGED clientVars
        /\ etimer' = etimer /\ calls' = calls
    BY DEF FrameSent, treeVars
  <1>2. n \in Nodes /\ n # None
    BY LiveNode, ValueAssumption DEF IInv
  <1>3. Busy' /\ live' = live
    BY <1>1 DEF Busy, RuleTypes, live
  <1>4. AttrInv'
    BY ToAttr
  <1>5. SchedInv'
    BY <1>1, <1>3, PopStack, ToSched
  <1>6. TreeInv' /\ ClientInv'
    BY <1>1 DEF IInv, TreeInv, ClientInv, clientVars
  <1>7. EnvInv'
    <2>1. outstanding[<<n, kind>>] \in 0..MaxOutstanding
      BY <1>2 DEF IInv, EnvInv
    <2>2. (IF outstanding[<<n, kind>>] < MaxOutstanding
           THEN outstanding[<<n, kind>>] + 1 ELSE outstanding[<<n, kind>>])
             \in 0..MaxOutstanding
      BY <2>1, BoundAssumption
    <2> QED
      BY <1>1, <2>2 DEF IInv, EnvInv, FrameSent
  <1>8. RuleInv'
    BY <1>1, <1>2, <1>3 DEF RuleInv, EngineConsistent, RuleTypes
  <1> QED
    BY <1>4, <1>5, <1>6, <1>7, <1>8 DEF IInv

\* A retry keeps the count within its limit: it is only sent below the limit.
LEMMA RetriedType ==
  ASSUME IInv, NEW n \in Nodes,
         pending_get[n] # None => RetryDue(pending_get[n])
  PROVE  Retried(n) \in ViewsType
  <1>1. Views \in ViewsType
    BY FromState
  <1>2. CASE pending_get[n] # None
    <2>1. pending_get[n] \in Pending /\ pending_get[n].count < RetryCount
      BY <1>2 DEF IInv, AttrInv, RetryDue
    <2> DEFINE q == [pending_get[n] EXCEPT !.count = @ + 1, !.missed = FALSE]
    <2>2. q \in Pending
      <3>1. pending_get[n].count + 1 \in 0..RetryCount
        BY <2>1, TimeAssumption DEF Pending
      <3> DEFINE r == [pending_get[n] EXCEPT !.count = @ + 1]
      <3>2. r \in Pending
        BY <2>1, <3>1 DEF Pending
      <3>3. q = [r EXCEPT !.missed = FALSE]
        OBVIOUS
      <3> HIDE DEF r, q
      <3> QED
        BY <3>2, <3>3 DEF Pending
    <2>3. Views[n] \in NodeView /\ Views[n].get = pending_get[n]
      BY <1>1 DEF Views, ViewsType
    <2>4. [Views[n] EXCEPT !.get = q] \in NodeView
      BY <2>2, <2>3 DEF NodeView
    <2>5. Retried(n) = [Views EXCEPT ![n] = [Views[n] EXCEPT !.get = q]]
      BY <1>1, <1>2, <2>1, <2>3 DEF Retried, Pending, NodeView, ViewsType
    <2> QED
      BY <1>1, <2>4, <2>5 DEF ViewsType
  <1>3. CASE pending_get[n] = None
    BY <1>1, <1>3 DEF Retried
  <1> QED
    BY <1>2, <1>3

\* Another pending get for one node.
LEMMA WithGetType ==
  ASSUME NEW V \in ViewsType, NEW n \in Nodes, NEW p \in Pending \cup {None}
  PROVE  [V EXCEPT ![n].get = p] \in ViewsType
  <1>1. [V[n] EXCEPT !.get = p] \in NodeView
    BY DEF ViewsType, NodeView
  <1> QED
    BY <1>1 DEF ViewsType

\* Another reported value for one node, with the callback it causes.
LEMMA WithReportedType ==
  ASSUME NEW V \in ViewsType, NEW n \in Nodes, NEW u \in Values \cup {Undef}
  PROVE  [V EXCEPT ![n] = SetReported(n, @, u)] \in ViewsType
  <1>1. SetReported(n, V[n], u) \in NodeView
    BY SetReportedType DEF ViewsType
  <1> QED
    BY <1>1 DEF ViewsType

\* Another desired value.
LEMMA WithDesiredType ==
  ASSUME NEW V \in ViewsType, NEW n \in Nodes, NEW u \in Values \cup {Undef}
  PROVE  [V EXCEPT ![n] = SetDesired(n, @, u)] \in ViewsType
  <1>1. SetDesired(n, V[n], u) \in NodeView
    BY SetDesiredType DEF ViewsType
  <1> QED
    BY <1>1 DEF ViewsType

\* A get is sent, refused, resolved without a frame, or put off.
LEMMA ExecuteGetInv ==
  ASSUME IInv, NEW n \in Nodes, ExecuteGet(n)
  PROVE  IInv'
  <1>1. /\ NodeReached(n) /\ needs_get(n, Views[n])
        /\ pending_get[n] # None => RetryDue(pending_get[n])
        /\ UNCHANGED <<treeVars, clientVars, etimer, calls>>
    BY DEF ExecuteGet, GetSendable
  <1>2. scanning /\ stack # <<>> /\ n \in live /\ n \in HasGet \cup HasSet
    BY <1>1, ReachedNode DEF needs_get
  <1>3. PoppedSched \in Sched /\ AwakeSched(PoppedSched, FALSE)
    BY <1>2, PopStack
  <1>4. Views \in ViewsType /\ Retried(n) \in ViewsType
    BY <1>1, FromState, RetriedType
  <1>5. [timeout |-> Unset, count |-> 1, missed |-> FALSE] \in Pending
        /\ [timeout |-> BusyWait, count |-> 0, missed |-> FALSE] \in Pending
    BY TimeAssumption DEF Pending
  <1>6. /\ [Views EXCEPT ![n].get = [timeout |-> Unset, count |-> 1,
                                     missed |-> FALSE]] \in ViewsType
        /\ [Views EXCEPT ![n].get = [timeout |-> BusyWait, count |-> 0,
                                     missed |-> FALSE]] \in ViewsType
    BY <1>4, <1>5, WithGetType
  <1>7. CASE \E frame \in GetFrames \cap SentFrames :
               /\ StoreViews(IF pending_get[n] # None THEN Retried(n)
                             ELSE [Views EXCEPT ![n].get =
                                     [timeout |-> Unset, count |-> 1, missed |-> FALSE]])
               /\ StoreSched(PoppedSched)
               /\ FrameSent(n, "GET", frame)
    <2> DEFINE V == IF pending_get[n] # None THEN Retried(n)
                    ELSE [Views EXCEPT ![n].get =
                            [timeout |-> Unset, count |-> 1, missed |-> FALSE]]
    <2>1. V \in ViewsType
      BY <1>4, <1>6
    <2>2. PICK frame : StoreViews(V) /\ StoreSched(PoppedSched) /\ FrameSent(n, "GET", frame)
      BY <1>7
    <2>3. "GET" \in RuleTypes
      BY DEF RuleTypes
    <2> HIDE DEF V
    <2> QED
      BY <1>1, <1>2, <2>1, <2>2, <2>3, SentInv
  <1>8. CASE ContinueScan(Retried(n), PoppedSched)
    BY <1>1, <1>2, <1>3, <1>4, <1>8, ContinueInv
  <1>9. CASE \E v \in Values :
               LET V == [Retried(n) EXCEPT ![n] = SetReported(n, @, v)]
               IN  CompleteWithoutFrame(n, V, scan_node(PoppedSched, ScansOf(V)))
    <2>1. PICK v \in Values :
            LET V == [Retried(n) EXCEPT ![n] = SetReported(n, @, v)]
            IN  CompleteWithoutFrame(n, V, scan_node(PoppedSched, ScansOf(V)))
      BY <1>9
    <2> DEFINE V == [Retried(n) EXCEPT ![n] = SetReported(n, @, v)]
               s == scan_node(PoppedSched, ScansOf(V))
    <2>2. V \in ViewsType
      BY <1>4, WithReportedType
    <2>3. CompleteWithoutFrame(n, V, s)
      BY <2>1
    <2> HIDE DEF V
    <2>4. s \in Sched /\ AwakeSched(s, FALSE)
      BY <1>3, ScanNode
    <2> HIDE DEF s
    <2> QED
      BY <1>1, <1>2, <2>2, <2>3, <2>4, CompleteInv
  <1>10. CASE LET V == IF pending_get[n] # None THEN Retried(n)
                       ELSE [Views EXCEPT ![n].get =
                               [timeout |-> BusyWait, count |-> 0, missed |-> FALSE]]
              IN  ContinueScan(V, IF pending_get[n] # None THEN PoppedSched
                                  ELSE restart_timer(V, PoppedSched))
    <2> DEFINE V == IF pending_get[n] # None THEN Retried(n)
                    ELSE [Views EXCEPT ![n].get =
                            [timeout |-> BusyWait, count |-> 0, missed |-> FALSE]]
               s == IF pending_get[n] # None THEN PoppedSched
                    ELSE restart_timer(V, PoppedSched)
    <2>1. V \in ViewsType
      BY <1>4, <1>6
    <2>2. ContinueScan(V, s)
      BY <1>10
    <2> HIDE DEF V
    <2>3. s \in Sched /\ AwakeSched(s, FALSE)
      BY <1>3, <2>1, RestartTimer
    <2> HIDE DEF s
    <2> QED
      BY <1>1, <1>2, <2>1, <2>2, <2>3, ContinueInv
  <1> QED
    BY <1>7, <1>8, <1>9, <1>10 DEF ExecuteGet

\* A set is sent, refused, resolved without a frame, or put off.
LEMMA ExecuteSetInv ==
  ASSUME IInv, NEW n \in Nodes, ExecuteSet(n)
  PROVE  IInv'
  <1> DEFINE V == [Views EXCEPT ![n].get = None]
  <1>1. /\ NodeReached(n) /\ needs_set(n, Views[n])
        /\ UNCHANGED <<treeVars, clientVars, etimer, calls>>
    BY DEF ExecuteSet
  <1>2. scanning /\ stack # <<>> /\ n \in live /\ n \in HasGet \cup HasSet
    BY <1>1, ReachedNode DEF needs_set
  <1>3. PoppedSched \in Sched /\ AwakeSched(PoppedSched, FALSE)
    BY <1>2, PopStack
  <1>4. Views \in ViewsType
    BY FromState
  <1>5. V \in ViewsType
    BY <1>4, WithGetType
  <1>6. V[n].desired \in Values \cup {Undef}
    BY <1>5 DEF ViewsType, NodeView
  <1>7. \/ \E frame \in SetFrames \cap SentFrames :
             /\ StoreViews([V EXCEPT ![n].set =
                              IF frame = "OK" THEN "final" ELSE "more"])
             /\ StoreSched(PoppedSched)
             /\ FrameSent(n, "SET", frame)
        \/ ContinueScan(V, PoppedSched)
        \/ LET W == [V EXCEPT ![n] = SetReported(n, @, V[n].desired)]
           IN  CompleteWithoutFrame(n, W, scan_node(PoppedSched, ScansOf(W)))
    BY DEF ExecuteSet
  <1> HIDE DEF V
  <1>8. CASE \E frame \in SetFrames \cap SentFrames :
               /\ StoreViews([V EXCEPT ![n].set =
                                IF frame = "OK" THEN "final" ELSE "more"])
               /\ StoreSched(PoppedSched)
               /\ FrameSent(n, "SET", frame)
    <2>1. PICK frame \in SetFrames \cap SentFrames :
               /\ StoreViews([V EXCEPT ![n].set =
                                IF frame = "OK" THEN "final" ELSE "more"])
               /\ StoreSched(PoppedSched)
               /\ FrameSent(n, "SET", frame)
      BY <1>8
    <2> DEFINE W == [V EXCEPT ![n].set = IF frame = "OK" THEN "final" ELSE "more"]
    <2>2. W \in ViewsType
      <3>1. [V[n] EXCEPT !.set = IF frame = "OK" THEN "final" ELSE "more"] \in NodeView
        BY <1>5 DEF ViewsType, NodeView
      <3> QED
        BY <1>5, <3>1 DEF ViewsType
    <2>3. StoreViews(W) /\ StoreSched(PoppedSched) /\ FrameSent(n, "SET", frame)
      BY <2>1
    <2>4. "SET" \in RuleTypes
      BY DEF RuleTypes
    <2> HIDE DEF W
    <2> QED
      BY <1>1, <1>2, <2>2, <2>3, <2>4, SentInv
  <1>9. CASE ContinueScan(V, PoppedSched)
    BY <1>1, <1>2, <1>3, <1>5, <1>9, ContinueInv
  <1>10. CASE LET W == [V EXCEPT ![n] = SetReported(n, @, V[n].desired)]
              IN  CompleteWithoutFrame(n, W, scan_node(PoppedSched, ScansOf(W)))
    <2> DEFINE W == [V EXCEPT ![n] = SetReported(n, @, V[n].desired)]
               s == scan_node(PoppedSched, ScansOf(W))
    <2>1. W \in ViewsType
      BY <1>5, <1>6, WithReportedType
    <2>2. CompleteWithoutFrame(n, W, s)
      BY <1>10
    <2> HIDE DEF W
    <2>3. s \in Sched /\ AwakeSched(s, FALSE)
      BY <1>3, ScanNode
    <2> HIDE DEF s
    <2> QED
      BY <1>1, <1>2, <2>1, <2>2, <2>3, CompleteInv
  <1> QED
    BY <1>7, <1>8, <1>9, <1>10

\* The steps of the scan loop that only move the stack.
LEMMA WalkInv ==
  ASSUME IInv, SkipNode \/ VisitChild
  PROVE  IInv'
  <1>1. /\ scanning /\ stack # <<>>
        /\ UNCHANGED <<treeVars, attrVars, scan_requested, queue, scanning,
                       ruleVars, clientVars, etimer, envVars>>
    BY DEF SkipNode, VisitChild
  <1>2. /\ PoppedSched \in Sched /\ AwakeSched(PoppedSched, FALSE)
        /\ stack \in Seq(Frames) /\ Len(stack) \in Nat \ {0}
        /\ Popped \in Seq(Frames) /\ Len(Popped) = Len(stack) - 1
        /\ \A i \in 1..Len(Popped) : Popped[i] = stack[i]
        /\ Top \in Frames
    BY <1>1, PopStack
  <1>3. /\ PoppedSched.stack = Popped /\ PoppedSched.requested = scan_requested
        /\ PoppedSched.queue = queue
    BY DEF PoppedSched, CurrentSched
  <1>4. stack' \in Seq(Frames) /\ IsPath(stack')
    <2>1. CASE SkipNode
      BY <1>2, <1>3, <2>1 DEF SkipNode, AwakeSched
    <2>2. CASE VisitChild
      <3> DEFINE kid == children[Top.node][TopIndex + 1]
                 f   == [node |-> Top.node, index |-> TopIndex + 1]
                 g   == [node |-> kid, index |-> 0]
                 st  == Append(Popped, f)
      <3>1. Top.node \in Nodes /\ children[Top.node] \in Seq(Nodes)
        BY <1>2 DEF Frames, IInv, TreeInv
      <3>2. TopIndex \in Nat /\ TopIndex + 1 \in 1..Len(children[Top.node])
        <4>1. Top.index \in Nat /\ Len(children[Top.node]) \in Nat
          BY <1>2, <3>1, LenProperties DEF Frames
        <4>2. TopIndex < Len(children[Top.node])
          BY <2>2 DEF VisitChild
        <4> QED
          BY <4>1, <4>2 DEF TopIndex
      <3>3. kid \in Nodes /\ kid # Root /\ Parent[kid] = Top.node
        BY <3>1, <3>2, ElementOfSeq DEF IInv, TreeInv
      <3>4. f \in Frames /\ g \in Frames
        BY <3>1, <3>2, <3>3 DEF Frames
      <3>5. IF Len(Popped) = 0 THEN f.node = Root
            ELSE Parent[f.node] = Popped[Len(Popped)].node /\ f.node # Root
        <4>1. StackIsPath
          BY DEF IInv, SchedInv
        <4>2. CASE Len(stack) = 1
          <5>1. stack[1].node = Root
            BY <4>1, <4>2 DEF StackIsPath
          <5> QED
            BY <1>2, <4>2, <5>1 DEF Top
        <4>3. CASE Len(stack) # 1
          <5>1. Len(stack) \in 1..Len(stack) /\ Len(stack) - 1 \in 1..Len(Popped)
            BY <1>2, <4>3
          <5>2. /\ Parent[Top.node] = stack[Len(stack) - 1].node
                /\ Top.node # Root
            BY <4>1, <4>3, <5>1 DEF StackIsPath, Top
          <5> QED
            BY <1>2, <5>1, <5>2
        <4> QED
          BY <4>2, <4>3
      <3>6. st \in Seq(Frames) /\ IsPath(st)
        <4>1. IsPath(Popped)
          BY <1>2, <1>3 DEF AwakeSched
        <4> HIDE DEF f
        <4> QED
          BY <1>2, <3>4, <3>5, <4>1, PushedPath
      <3>7. Len(st) # 0 /\ st[Len(st)] = f
        <4>1. Len(Popped) \in Nat
          BY <1>2
        <4> HIDE DEF f
        <4> QED
          BY <1>2, <3>4, <4>1, AppendProperties
      <3>8. stack' = Append(st, g)
        BY <2>2 DEF VisitChild
      <3>9. Parent[g.node] = st[Len(st)].node /\ g.node # Root
        BY <3>3, <3>7
      <3> HIDE DEF st, g
      <3> QED
        BY <3>4, <3>6, <3>7, <3>8, <3>9, PushedPath
    <2> QED
      BY <2>1, <2>2
  <1>5. SchedInv'
    <2>1. ~scan_requested /\ ~Busy
      BY <1>1 DEF IInv, SchedInv, OneScan
    <2>2. SchedInv
      BY DEF IInv
    <2>3. Busy' = Busy /\ scanning' /\ scan_requested' = scan_requested /\ queue' = queue
      BY <1>1 DEF ruleVars, Busy
    <2>4. StackIsPath'
      BY <1>4 DEF StackIsPath, IsPath
    <2>5. WakeUp' /\ OneScan'
      BY <1>1, <2>1, <2>2, <2>3 DEF SchedInv, WakeUp, NextQueued, OneScan
    <2> QED
      BY <1>4, <2>2, <2>3, <2>4, <2>5 DEF SchedInv
  <1>6. AttrInv' /\ TreeInv' /\ ClientInv' /\ EnvInv'
    BY <1>1 DEF IInv, AttrInv, TreeInv, ClientInv, EnvInv, attrVars, treeVars,
       clientVars, envVars
  <1>7. RuleInv'
    BY <1>1 DEF IInv, RuleInv, EngineConsistent, Busy, live, treeVars, ruleVars
  <1> QED
    BY <1>5, <1>6, <1>7 DEF IInv

\* A get that is not due is held back; one on its deadline is missed.
LEMMA GetHeldBackInv ==
  ASSUME IInv, NEW n \in Nodes, GetHeldBack(n)
  PROVE  IInv'
  <1> DEFINE V == [Views EXCEPT ![n].get.missed = TRUE]
  <1>1. /\ NodeReached(n)
        /\ UNCHANGED <<treeVars, clientVars, etimer, calls>>
        /\ ContinueScan(IF OnDeadline(n) THEN V ELSE Views, PoppedSched)
    BY DEF GetHeldBack
  <1>2. scanning /\ stack # <<>>
    BY <1>1, ReachedNode
  <1>3. /\ PoppedSched \in Sched /\ AwakeSched(PoppedSched, FALSE)
        /\ Views \in ViewsType
    BY <1>2, PopStack, FromState
  <1>4. ASSUME OnDeadline(n) PROVE V \in ViewsType
    <2>1. Views[n] \in NodeView /\ Views[n].get \in Pending
      BY <1>3, <1>4, FromState DEF OnDeadline, IInv, AttrInv, Views, ViewsType
    <2>2. [Views[n].get EXCEPT !.missed = TRUE] \in Pending
      BY <2>1 DEF Pending
    <2>3. V = [Views EXCEPT ![n].get = [Views[n].get EXCEPT !.missed = TRUE]]
      BY <1>3, <2>1 DEF ViewsType
    <2> HIDE DEF V
    <2> QED
      BY <1>3, <2>2, <2>3, WithGetType
  <1>5. (IF OnDeadline(n) THEN V ELSE Views) \in ViewsType
    BY <1>3, <1>4
  <1> HIDE DEF V
  <1> QED
    BY <1>1, <1>2, <1>3, <1>5, ContinueInv

\* Every step of the scan loop.
LEMMA ScanStepInv ==
  ASSUME IInv, ScanStep
  PROVE  IInv'
  <1>1. CASE ScanCompleted
    <2>1. /\ scanning /\ stack = <<>> /\ scanning' = FALSE
          /\ UNCHANGED <<treeVars, attrVars, schedVars, ruleVars, clientVars,
                         etimer, envVars>>
      BY <1>1 DEF ScanCompleted
    <2>2. AttrInv' /\ TreeInv' /\ ClientInv' /\ EnvInv'
      BY <2>1 DEF IInv, AttrInv, TreeInv, ClientInv, EnvInv, attrVars, treeVars,
         clientVars, envVars
    <2>3. RuleInv'
      BY <2>1 DEF IInv, RuleInv, EngineConsistent, Busy, live, treeVars, ruleVars
    <2>4. SchedInv'
      BY <2>1 DEF IInv, SchedInv, WakeUp, NextQueued, OneScan, StackIsPath,
         schedVars, ruleVars, Busy
    <2> QED
      BY <2>2, <2>3, <2>4 DEF IInv
  <1>2. CASE SkipNode \/ VisitChild
    BY <1>2, WalkInv
  <1>3. ASSUME NEW n \in Nodes, NothingToResolve(n) \/ SetHeldBack(n)
        PROVE  IInv'
    <2>1. /\ NodeReached(n)
          /\ UNCHANGED <<treeVars, clientVars, etimer, calls>>
          /\ \/ CompleteWithoutFrame(n, Views, PoppedSched)
             \/ ContinueScan(Views, PoppedSched)
      BY <1>3 DEF NothingToResolve, SetHeldBack
    <2>2. scanning /\ stack # <<>>
      BY <2>1, ReachedNode
    <2>3. /\ PoppedSched \in Sched /\ AwakeSched(PoppedSched, FALSE)
          /\ Views \in ViewsType
      BY <2>2, PopStack, FromState
    <2> QED
      BY <2>1, <2>2, <2>3, ContinueInv, CompleteInv
  <1> QED
    BY <1>1, <1>2, <1>3, GetHeldBackInv, ExecuteGetInv, ExecuteSetInv DEF ScanStep

-----------------------------------------------------------------------------
(* The events of the resolver process.                                     *)

\* Taking the first event from the queue.
LEMMA TakeEvent ==
  ASSUME IInv, NEW type, Dequeue(type)
  PROVE  /\ ~scanning
         /\ Head(queue) \in Events /\ Head(queue) = queue[1]
         /\ Tail(queue) \in Seq(Events) /\ Len(queue) \in Nat \ {0}
         /\ Len(Tail(queue)) = Len(queue) - 1
         /\ \A i \in 1..Len(Tail(queue)) : Tail(queue)[i] = queue[i + 1]
         /\ DOMAIN queue = 1..Len(queue)
  <1>1. queue \in Seq(Events) /\ queue # <<>>
    BY DEF IInv, SchedInv, Dequeue
  <1>2. Len(queue) \in Nat /\ Len(queue) # 0 /\ DOMAIN queue = 1..Len(queue)
    BY <1>1, EmptySeq, LenProperties
  <1> QED
    BY <1>1, <1>2, HeadTailProperties DEF Dequeue

\* An event other than NEXT leaves the scan as it is.
LEMMA TakeOther ==
  ASSUME IInv, NEW type, Dequeue(type), type # "NEXT"
  PROVE  LET s == [CurrentSched EXCEPT !.queue = Tail(@)]
         IN  /\ s = [stack |-> stack, requested |-> scan_requested,
                     queue |-> Tail(queue)]
             /\ s \in Sched /\ AwakeSched(s, ~Busy /\ ~scanning)
  <1> DEFINE t == [stack |-> stack, requested |-> scan_requested,
                   queue |-> Tail(queue)]
  <1>1. [CurrentSched EXCEPT !.queue = Tail(@)] = t
    <2>1. CurrentSched.queue = queue
      BY DEF CurrentSched
    <2>2. \A q : [CurrentSched EXCEPT !.queue = q]
                 = [stack |-> stack, requested |-> scan_requested, queue |-> q]
      BY DEF CurrentSched
    <2> QED
      BY <2>1, <2>2
  <1>2. /\ Tail(queue) \in Seq(Events) /\ Len(queue) \in Nat \ {0}
        /\ Len(Tail(queue)) = Len(queue) - 1
        /\ \A i \in 1..Len(Tail(queue)) : Tail(queue)[i] = queue[i + 1]
    BY TakeEvent
  <1>3. queue[1] # NextEvent
    <2>1. Head(queue).type = type /\ Head(queue) = queue[1]
      BY TakeEvent DEF Dequeue
    <2>2. NextEvent.type = "NEXT"
      BY DEF NextEvent
    <2> QED
      BY <2>1, <2>2
  <1>4. CurrentSched \in Sched /\ AwakeSched(CurrentSched, ~Busy /\ ~scanning)
    BY FromState
  <1>5. t \in Sched
    BY <1>2, <1>4 DEF Sched, CurrentSched
  <1>6. /\ \A i \in 1..Len(Tail(queue)) : i + 1 \in 1..Len(queue)
        /\ \A i \in 1..Len(queue) :
             i # 1 => i - 1 \in 1..Len(Tail(queue)) /\ (i - 1) + 1 = i
    BY <1>2
  <1>7. (\E i \in 1..Len(queue) : queue[i] = NextEvent)
          <=> (\E i \in 1..Len(Tail(queue)) : Tail(queue)[i] = NextEvent)
    BY <1>2, <1>3, <1>6
  <1>8. ASSUME NEW i \in 1..Len(Tail(queue)), NEW j \in 1..Len(Tail(queue)),
               Tail(queue)[i] = NextEvent, Tail(queue)[j] = NextEvent
        PROVE  i = j
    <2>1. i + 1 = j + 1
      BY <1>2, <1>4, <1>6, <1>8 DEF AwakeSched, CurrentSched
    <2> QED
      BY <2>1
  <1>9. AwakeSched(t, ~Busy /\ ~scanning)
    BY <1>4, <1>7, <1>8 DEF AwakeSched, CurrentSched
  <1> QED
    BY <1>1, <1>5, <1>9

\* The NEXT event is the only one; the scan starts or goes on.
LEMMA EvNextInv ==
  ASSUME IInv, EvNext
  PROVE  IInv'
  <1>1. /\ Dequeue("NEXT") /\ queue' = Tail(queue)
        /\ scanning' = (resolver_state = "IDLE")
        /\ UNCHANGED <<treeVars, attrVars, ruleVars, clientVars, etimer, envVars>>
    BY DEF EvNext
  <1>2. /\ Tail(queue) \in Seq(Events) /\ Len(queue) \in Nat \ {0}
        /\ Len(Tail(queue)) = Len(queue) - 1
        /\ \A i \in 1..Len(Tail(queue)) : Tail(queue)[i] = queue[i + 1]
        /\ DOMAIN queue = 1..Len(queue) /\ ~scanning
    BY <1>1, TakeEvent
  <1>3. queue[1] = NextEvent
    <2>1. Head(queue) \in Events /\ Head(queue).type = "NEXT" /\ Head(queue) = queue[1]
      BY <1>1, TakeEvent DEF Dequeue
    <2>2. \A e \in Events : e.type = "NEXT" => e = NextEvent
      BY DEF Events, NextEvent, Timer, Watch, TimerSet
    <2> QED
      BY <2>1, <2>2
  <1>4. SchedInv
    BY DEF IInv
  <1>5. \A i \in 1..Len(Tail(queue)) : Tail(queue)[i] # NextEvent
    <2>1. \A i \in 1..Len(Tail(queue)) : i + 1 \in 1..Len(queue) /\ i + 1 # 1
      BY <1>2
    <2>2. 1 \in 1..Len(queue)
      BY <1>2
    <2> QED
      BY <1>2, <1>3, <1>4, <2>1, <2>2 DEF SchedInv, WakeUp
  <1>6. DOMAIN Tail(queue) = 1..Len(Tail(queue))
    BY <1>2, LenProperties
  <1>7. ~NextQueued' /\ (\A i \in DOMAIN queue' : queue'[i] # NextEvent)
    BY <1>1, <1>5, <1>6 DEF NextQueued
  <1>8. scan_requested \/ (stack # <<>> /\ ~Busy)
    <2>1. NextQueued
      BY <1>2, <1>3 DEF NextQueued
    <2> QED
      BY <1>2, <1>4, <2>1 DEF SchedInv, WakeUp
  <1>9. Busy' = Busy /\ scanning' = ~Busy
    BY <1>1 DEF Busy, ruleVars
  <1>10. SchedInv'
    <2>1. CASE stack = <<>> /\ scan_requested
      <3>1. stack' = <<[node |-> Root, index |-> 0]>> /\ scan_requested' = FALSE
        BY <2>1 DEF EvNext
      <3>2. [node |-> Root, index |-> 0] \in Frames
        BY TreeAssumption DEF Frames
      <3>3. /\ stack' \in Seq(Frames) /\ Len(stack') = 1
            /\ stack'[1] = [node |-> Root, index |-> 0]
        BY <3>1, <3>2
      <3>4. StackIsPath'
        BY <3>3 DEF StackIsPath
      <3> QED
        BY <1>1, <1>2, <1>7, <1>9, <3>1, <3>3, <3>4 DEF SchedInv, WakeUp, OneScan
    <2>2. CASE ~(stack = <<>> /\ scan_requested)
      <3>1. stack' = stack /\ scan_requested' = scan_requested
        BY <2>2 DEF EvNext
      <3>2. ~scan_requested /\ ~Busy
        BY <1>4, <1>8, <2>2 DEF SchedInv, OneScan
      <3> QED
        BY <1>1, <1>2, <1>4, <1>7, <1>9, <3>1, <3>2
           DEF SchedInv, WakeUp, OneScan, StackIsPath
    <2> QED
      BY <2>1, <2>2
  <1>11. AttrInv' /\ TreeInv' /\ ClientInv' /\ EnvInv'
    BY <1>1 DEF IInv, AttrInv, TreeInv, ClientInv, EnvInv, attrVars, treeVars,
       clientVars, envVars
  <1>12. RuleInv'
    BY <1>1, <1>9 DEF IInv, RuleInv, EngineConsistent, Busy, live, treeVars, ruleVars
  <1> QED
    BY <1>10, <1>11, <1>12 DEF IInv

\* The other parts of the invariant when an event handler only touches the scan
\* and the timer.
LEMMA OnlySched ==
  ASSUME IInv, SchedInv', etimer' \in (-1..MaxWait) \cup {None},
         UNCHANGED <<treeVars, attrVars, scanning, ruleVars, clientVars, envVars>>
  PROVE  IInv'
  <1>1. AttrInv' /\ TreeInv' /\ ClientInv' /\ EnvInv'
    BY DEF IInv, AttrInv, TreeInv, ClientInv, EnvInv, attrVars, treeVars,
       clientVars, envVars
  <1>2. RuleInv'
    BY DEF IInv, RuleInv, EngineConsistent, Busy, live, treeVars, ruleVars
  <1> QED
    BY <1>1, <1>2 DEF IInv

\* Every event of the resolver process.
LEMMA ProcessEventInv ==
  ASSUME IInv, ProcessEvent
  PROVE  IInv'
  <1> DEFINE t == [stack |-> stack, requested |-> scan_requested,
                   queue |-> Tail(queue)]
  <1>1. CASE EvNext
    BY <1>1, EvNextInv
  <1>2. CASE EvWatch
    <2>1. /\ Dequeue("WATCH") /\ StoreSched(t)
          /\ resolver_state' = resolver_state /\ scanning' = scanning
          /\ UNCHANGED <<treeVars, attrVars, ruleVars, paused, etimer, envVars>>
      BY <1>2 DEF EvWatch, StoreSched, ruleVars
    <2>2. t \in Sched /\ AwakeSched(t, ~Busy /\ ~scanning) /\ ~scanning
      BY <2>1, TakeOther, TakeEvent
    <2> HIDE DEF t
    <2>3. SchedInv'
      BY <2>1, <2>2, ToSchedIdle
    <2>4. ClientInv'
      BY <1>2, <2>1 DEF EvWatch, IInv, ClientInv
    <2>5. AttrInv' /\ TreeInv' /\ EnvInv'
      BY <2>1 DEF IInv, AttrInv, TreeInv, EnvInv, attrVars, treeVars, envVars
    <2>6. RuleInv'
      BY <2>1 DEF IInv, RuleInv, EngineConsistent, Busy, live, treeVars, ruleVars
    <2> QED
      BY <2>3, <2>4, <2>5, <2>6 DEF IInv
  <1>3. CASE EvTimerSet
    <2>1. /\ Dequeue("TIMER_SET") /\ StoreSched(t)
          /\ resolver_state' = resolver_state /\ scanning' = scanning
          /\ UNCHANGED <<treeVars, attrVars, scanning, ruleVars, clientVars, envVars>>
          /\ etimer' = Head(queue).interval
      BY <1>3 DEF EvTimerSet, StoreSched, ruleVars
    <2>2. t \in Sched /\ AwakeSched(t, ~Busy /\ ~scanning) /\ ~scanning
      BY <2>1, TakeOther, TakeEvent
    <2>3. Head(queue).interval \in 1..MaxWait
      <3>1. Head(queue) \in Events /\ Head(queue).type = "TIMER_SET"
        BY <2>1, TakeEvent DEF Dequeue
      <3>2. \A e \in Events : e.type = "TIMER_SET" => e.interval \in 1..MaxWait
        BY DEF Events, NextEvent, Timer, Watch, TimerSet
      <3> QED
        BY <3>1, <3>2
    <2> HIDE DEF t
    <2>4. SchedInv'
      BY <2>1, <2>2, ToSchedIdle
    <2>5. etimer' \in (-1..MaxWait) \cup {None}
      BY <2>1, <2>3, TimeAssumption
    <2> QED
      BY <2>1, <2>4, <2>5, OnlySched
  <1>4. CASE EvTimer
    <2> DEFINE s == [CurrentSched EXCEPT !.queue = Tail(@)]
               u == scan_node(s, DueGets)
               w == restart_timer(Views, u)
    <2>1. /\ Dequeue("TIMER") /\ StoreSched(w)
          /\ UNCHANGED <<treeVars, attrVars, scanning, ruleVars, clientVars,
                         etimer, envVars>>
      BY <1>4 DEF EvTimer
    <2>2. resolver_state' = resolver_state /\ scanning' = scanning /\ etimer' = etimer
      BY <2>1 DEF ruleVars
    <2>3. s \in Sched /\ AwakeSched(s, ~Busy /\ ~scanning) /\ ~scanning
      BY <2>1, TakeOther, TakeEvent
    <2> HIDE DEF s
    <2>4. u \in Sched /\ AwakeSched(u, ~Busy /\ ~scanning)
      BY <2>3, ScanNode
    <2> HIDE DEF u
    <2>5. w \in Sched /\ AwakeSched(w, ~Busy /\ ~scanning)
      BY <2>4, RestartTimer, FromState
    <2> HIDE DEF w
    <2>6. SchedInv'
      BY <2>1, <2>2, <2>3, <2>5, ToSchedIdle
    <2>7. etimer' \in (-1..MaxWait) \cup {None}
      BY <2>2 DEF IInv, EnvInv
    <2> QED
      BY <2>1, <2>6, <2>7, OnlySched
  <1> QED
    BY <1>1, <1>2, <1>3, <1>4 DEF ProcessEvent

\* The timer event is posted.
LEMMA EtimerInv ==
  ASSUME IInv, EtimerExpires
  PROVE  IInv'
  <1> DEFINE s == Post(CurrentSched, Timer)
  <1>1. Timer \in Events /\ Timer # NextEvent
    <2>1. Timer.type # NextEvent.type
      BY DEF Timer, NextEvent
    <2> QED
      BY <2>1 DEF Events
  <1>2. s \in Sched /\ AwakeSched(s, ~Busy /\ ~scanning)
    BY <1>1, FromState, PostOther
  <1>3. StoreSched(s)
    <2>1. s = [stack |-> stack, requested |-> scan_requested,
               queue |-> Append(queue, Timer)]
      <3>1. CurrentSched.queue = queue
        BY DEF CurrentSched
      <3>2. \A q : [CurrentSched EXCEPT !.queue = q]
                   = [stack |-> stack, requested |-> scan_requested, queue |-> q]
        BY DEF CurrentSched
      <3> QED
        BY <3>1, <3>2 DEF Post
    <2> HIDE DEF s
    <2> QED
      BY <2>1 DEF EtimerExpires, StoreSched
  <1>4. /\ UNCHANGED <<treeVars, attrVars, scanning, ruleVars, clientVars, envVars>>
        /\ resolver_state' = resolver_state /\ scanning' = scanning /\ ~scanning /\ etimer' = None
    BY DEF EtimerExpires, ruleVars
  <1> HIDE DEF s
  <1>5. SchedInv'
    BY <1>2, <1>3, <1>4, ToSchedIdle
  <1> QED
    BY <1>4, <1>5, OnlySched

\* Time passes: deadlines stay in their range.
LEMMA TickInv ==
  ASSUME IInv, Tick
  PROVE  IInv'
  <1>1. /\ UNCHANGED <<treeVars, reported, desired, pending_set, schedVars,
                       scanning, ruleVars, clientVars, envVars>>
        /\ etimer' = IF etimer = None THEN None ELSE OneLess(etimer)
        /\ pending_get' = [n \in Nodes |->
             IF pending_get[n] = None THEN None
             ELSE IF pending_get[n].timeout = Unset THEN pending_get[n]
             ELSE [pending_get[n] EXCEPT !.timeout = OneLess(@)]]
    BY DEF Tick
  <1>2. \A k \in -1..MaxWait : OneLess(k) \in -1..MaxWait
    BY TimeAssumption DEF OneLess
  <1>3. ASSUME NEW p \in Pending, p.timeout # Unset
        PROVE  [p EXCEPT !.timeout = OneLess(@)] \in Pending
    <2>1. p.timeout \in -1..MaxWait
      BY <1>3 DEF Pending
    <2> QED
      BY <1>2, <2>1 DEF Pending
  <1>4. AttrInv'
    BY <1>1, <1>3 DEF IInv, AttrInv
  <1>5. TreeInv' /\ ClientInv' /\ EnvInv'
    BY <1>1, <1>2 DEF IInv, TreeInv, ClientInv, EnvInv, treeVars, clientVars, envVars
  <1>6. RuleInv'
    BY <1>1 DEF IInv, RuleInv, EngineConsistent, Busy, live, treeVars, ruleVars
  <1>7. SchedInv'
    BY <1>1 DEF IInv, SchedInv, WakeUp, NextQueued, OneScan, StackIsPath,
       schedVars, ruleVars, Busy
  <1> QED
    BY <1>4, <1>5, <1>6, <1>7 DEF IInv

-----------------------------------------------------------------------------
(* The lower layer.                                                        *)

\* The records after a completion are well formed.
LEMMA SentViewsType ==
  ASSUME IInv, NEW n \in Nodes, NEW kind, NEW status
  PROVE  SentViews(n, kind, status) \in ViewsType
  <1> DEFINE group == SetGroupNodes(n)
             Clear(a, x) == SetDesired(a, SetReported(a, x, Undef), Undef)
             Align(a, x) ==
               SetDesired(a, SetReported(a, x, IF x.desired # Undef THEN x.desired
                                               ELSE x.reported), Undef)
  <1>1. Views \in ViewsType /\ \A a \in Nodes : Views[a] \in NodeView
    BY FromState DEF ViewsType
  <1>2. Undef \in Values \cup {Undef}
    OBVIOUS
  <1>3. ASSUME NEW a \in Nodes
        PROVE  /\ SetReported(a, Views[a], Undef) \in NodeView
               /\ SetDesired(a, Views[a], Undef) \in NodeView
               /\ Clear(a, Views[a]) \in NodeView
               /\ Align(a, Views[a]) \in NodeView
    <2>1. /\ SetReported(a, Views[a], Undef) \in NodeView
          /\ SetDesired(a, Views[a], Undef) \in NodeView
      BY <1>1, <1>2, SetReportedType, SetDesiredType
    <2>2. Clear(a, Views[a]) \in NodeView
      BY <1>2, <2>1, SetDesiredType
    <2>3. (IF Views[a].desired # Undef THEN Views[a].desired ELSE Views[a].reported)
             \in Values \cup {Undef}
      BY <1>1 DEF NodeView
    <2>4. Align(a, Views[a]) \in NodeView
      BY <1>1, <1>2, <2>3, SetReportedType, SetDesiredType
    <2> QED
      BY <2>1, <2>2, <2>4
  <1>4. /\ [a \in Nodes |-> IF a = n /\ n \in live
                            THEN SetReported(a, Views[a], Undef) ELSE Views[a]]
             \in ViewsType
        /\ [a \in Nodes |-> IF a \in group THEN Clear(a, Views[a]) ELSE Views[a]]
             \in ViewsType
        /\ [a \in Nodes |-> IF a \in group THEN Align(a, Views[a]) ELSE Views[a]]
             \in ViewsType
        /\ [a \in Nodes |-> IF a \in group
                            THEN SetDesired(a, Views[a], Undef) ELSE Views[a]]
             \in ViewsType
    BY <1>1, <1>3 DEF ViewsType
  <1>5. \/ SentViews(n, kind, status)
             = [a \in Nodes |-> IF a = n /\ n \in live
                                THEN SetReported(a, Views[a], Undef) ELSE Views[a]]
        \/ SentViews(n, kind, status)
             = [a \in Nodes |-> IF a \in group THEN Clear(a, Views[a]) ELSE Views[a]]
        \/ SentViews(n, kind, status)
             = [a \in Nodes |-> IF a \in group THEN Align(a, Views[a]) ELSE Views[a]]
        \/ SentViews(n, kind, status)
             = [a \in Nodes |-> IF a \in group
                                THEN SetDesired(a, Views[a], Undef) ELSE Views[a]]
        \/ SentViews(n, kind, status) = Views
    BY DEF SentViews
  <1> QED
    BY <1>1, <1>4, <1>5

\* A completion, awaited or late.
LEMMA CompletionInv ==
  ASSUME IInv, ~scanning, NEW n \in Nodes, NEW kind, NEW status,
         on_resolver_send_data_complete(n, kind, status), EnvInv',
         UNCHANGED <<treeVars, scanning, clientVars>>
  PROVE  IInv'
  <1> DEFINE V == SentViews(n, kind, status)
             s == scan_node(CurrentSched, ScansOf(V))
  <1>1. V \in ViewsType
    BY SentViewsType
  <1>2. s \in Sched /\ AwakeSched(s, ~Busy /\ ~scanning)
    BY FromState, ScanNode
  <1>3. TreeInv' /\ ClientInv' /\ live' = live
    BY DEF IInv, TreeInv, ClientInv, treeVars, clientVars, live
  <1>4. CASE node_pending = n
    <2>1. PICK wait \in RetryWaits :
            LET c == on_resolver_rule_execute_complete(n, V, s, wait)
            IN  /\ StoreViews(c.views)
                /\ StoreSched(c.sched)
                /\ resolver_state' = "IDLE"
                /\ node_pending' = None
                /\ UNCHANGED more_frames
      BY <1>4 DEF on_resolver_send_data_complete
    <2> DEFINE c == on_resolver_rule_execute_complete(n, V, s, wait)
    <2>2. /\ StoreViews(c.views) /\ StoreSched(c.sched)
          /\ resolver_state' = "IDLE" /\ node_pending' = None
          /\ more_frames' = more_frames /\ scanning' = scanning
      BY <2>1
    <2>3. Busy
      BY <1>4, ValueAssumption DEF IInv, RuleInv, EngineConsistent
    <2> HIDE DEF V
    <2>4. AwakeSched(s, FALSE)
      BY <1>2, <2>3
    <2> HIDE DEF s
    <2>5. c.views \in ViewsType /\ c.sched \in Sched /\ AwakeSched(c.sched, TRUE)
      BY <1>1, <1>2, <2>4, RuleComplete
    <2> HIDE DEF c
    <2>6. AttrInv'
      BY <2>2, <2>5, ToAttr
    <2>7. SchedInv'
      <3>1. ~Busy' /\ ~scanning'
        BY <2>2 DEF Busy
      <3> QED
        BY <2>2, <2>5, <3>1, ToSched
    <2>8. RuleInv'
      BY <1>3, <2>2 DEF IInv, RuleInv, EngineConsistent, Busy
    <2> QED
      BY <1>3, <2>6, <2>7, <2>8 DEF IInv
  <1>5. CASE node_pending # n
    <2>1. StoreViews(V) /\ StoreSched(s) /\ UNCHANGED ruleVars
      BY <1>5 DEF on_resolver_send_data_complete
    <2> HIDE DEF V
    <2>2. AttrInv'
      BY <1>1, <2>1, ToAttr
    <2> HIDE DEF s
    <2>3. SchedInv'
      BY <1>2, <2>1, ToSchedIdle DEF ruleVars
    <2>4. RuleInv'
      BY <1>3, <2>1 DEF IInv, RuleInv, EngineConsistent, Busy, ruleVars
    <2> QED
      BY <1>3, <2>2, <2>3, <2>4 DEF IInv
  <1> QED
    BY <1>4, <1>5

\* Every answer of the lower layer, and its silence.
LEMMA LowerLayerInv ==
  ASSUME IInv, LowerLayer
  PROVE  IInv'
  <1>1. ASSUME NEW n \in Nodes, NEW kind \in RuleTypes, NEW status \in Statuses,
               SendDataComplete(n, kind, status)
        PROVE  IInv'
    <2>1. /\ ~scanning /\ on_resolver_send_data_complete(n, kind, status)
          /\ UNCHANGED <<treeVars, scanning, clientVars, etimer, calls>>
      BY <1>1 DEF SendDataComplete
    <2>2. EnvInv'
      <3>1. outstanding[<<n, kind>>] \in 1..MaxOutstanding
        BY <1>1, BoundAssumption DEF SendDataComplete, IInv, EnvInv
      <3>2. outstanding[<<n, kind>>] - 1 \in 0..MaxOutstanding
        BY <3>1, BoundAssumption
      <3>3. outstanding' \in [Nodes \X RuleTypes -> 0..MaxOutstanding]
        BY <1>1, <3>2 DEF SendDataComplete, IInv, EnvInv
      <3> QED
        BY <2>1, <3>3 DEF IInv, EnvInv
    <2> QED
      BY <2>1, <2>2, CompletionInv
  <1>2. CASE RuleExecutionTimeout
    <2>1. /\ ~scanning /\ Busy
          /\ on_resolver_send_data_complete(node_pending, resolver_state, "FAIL")
          /\ UNCHANGED <<treeVars, scanning, clientVars, etimer, envVars>>
      BY <1>2 DEF RuleExecutionTimeout, Busy
    <2>2. node_pending \in Nodes
      BY <2>1, RuleAssumption DEF IInv, RuleInv, EngineConsistent
    <2>3. EnvInv'
      BY <2>1 DEF IInv, EnvInv, envVars
    <2> QED
      BY <2>1, <2>2, <2>3, CompletionInv
  <1> QED
    BY <1>1, <1>2 DEF LowerLayer

-----------------------------------------------------------------------------
(* The rest of the application.                                            *)

\* A call that leaves the rule engine and the clock alone.
LEMMA CallInv ==
  ASSUME IInv, Call, NEW V \in ViewsType, NEW S,
         StoreViews(V), StoreSched(scan_node(CurrentSched, S)),
         TreeInv', ClientInv', live \subseteq live'
  PROVE  IInv'
  <1> DEFINE s == scan_node(CurrentSched, S)
  <1>1. /\ ~scanning /\ scanning' = scanning /\ resolver_state' = resolver_state
        /\ node_pending' = node_pending /\ more_frames' = more_frames
        /\ etimer' = etimer /\ outstanding' = outstanding
        /\ calls < MaxCalls /\ calls' = calls + 1
    BY DEF Call, ruleVars
  <1>2. s \in Sched /\ AwakeSched(s, ~Busy /\ ~scanning)
    BY FromState, ScanNode
  <1>3. StoreSched(s)
    OBVIOUS
  <1> HIDE DEF s
  <1>4. SchedInv'
    BY <1>1, <1>2, <1>3, ToSchedIdle
  <1>5. AttrInv'
    BY ToAttr
  <1>6. EnvInv'
    BY <1>1, BoundAssumption DEF IInv, EnvInv
  <1>7. RuleInv'
    <2>1. Busy' <=> Busy
      BY <1>1 DEF Busy
    <2>2. RuleInv
      BY DEF IInv
    <2>3. EngineConsistent'
      BY <1>1, <2>1, <2>2 DEF RuleInv, EngineConsistent
    <2> QED
      BY <1>1, <2>2, <2>3 DEF RuleInv
  <1> QED
    BY <1>4, <1>5, <1>6, <1>7 DEF IInv

\* The records of the nodes as they are; no request for a scan.
LEMMA SameViews ==
  ASSUME IInv, UNCHANGED attrVars
  PROVE  StoreViews(Views)
  BY DEF IInv, AttrInv, attrVars, StoreViews, Views

\* The scan as it is.
LEMMA SameSched ==
  /\ UNCHANGED schedVars => StoreSched(scan_node(CurrentSched, {}))
  /\ scan_node(CurrentSched, {}) = CurrentSched
  BY DEF schedVars, StoreSched, scan_node, CurrentSched

\* The calls that neither create nor delete a node.
LEMMA ApiInv ==
  ASSUME IInv, NEW n \in Nodes,
         \/ \E v \in Values \cup {Undef} : ReportedWritten(n, v) \/ DesiredWritten(n, v)
         \/ Pause(n) \/ Resume(n) \/ SetListener(n) \/ ClearListener(n)
         \/ RestartSet(n) \/ RestartGet(n)
  PROVE  IInv'
  <1>1. TreeInv' /\ live' = live
    <2>1. children' = children /\ fresh' = fresh
      BY DEF ReportedWritten, DesiredWritten, Pause, Resume, SetListener,
         ClearListener, RestartSet, RestartGet, treeVars
    <2> QED
      BY <2>1 DEF IInv, TreeInv, live
  <1>2. Call
    BY DEF ReportedWritten, DesiredWritten, Pause, Resume, SetListener,
       ClearListener, RestartSet, RestartGet
  <1>3. ClientInv'
    BY DEF ReportedWritten, DesiredWritten, Pause, Resume, SetListener,
       ClearListener, RestartSet, RestartGet, clientVars, IInv, ClientInv
  <1>4. Views \in ViewsType
    BY FromState
  <1> DEFINE Stored == \E V \in ViewsType : \E S :
                         StoreViews(V) /\ StoreSched(scan_node(CurrentSched, S))
  <1>5. Stored
    <2>1. ASSUME NEW v \in Values \cup {Undef}, ReportedWritten(n, v)
          PROVE  Stored
      <3> DEFINE V == [Views EXCEPT ![n] = SetReported(n, @, v)]
      <3>1. V \in ViewsType
        BY <1>4, WithReportedType
      <3>2. StoreViews(V) /\ StoreSched(scan_node(CurrentSched, ScansOf(V)))
        BY <2>1 DEF ReportedWritten, UpdateAttributes
      <3> HIDE DEF V
      <3> QED
        BY <3>1, <3>2
    <2>2. ASSUME NEW v \in Values \cup {Undef}, DesiredWritten(n, v)
          PROVE  Stored
      <3> DEFINE V == [Views EXCEPT ![n] = SetDesired(n, @, v)]
      <3>1. V \in ViewsType
        BY <1>4, WithDesiredType
      <3>2. StoreViews(V) /\ StoreSched(scan_node(CurrentSched, ScansOf(V)))
        BY <2>2 DEF DesiredWritten, UpdateAttributes
      <3> HIDE DEF V
      <3> QED
        BY <3>1, <3>2
    <2>3. CASE Pause(n) \/ Resume(n) \/ SetListener(n) \/ ClearListener(n)
      <3>1. UNCHANGED attrVars
        BY <2>3 DEF Pause, Resume, SetListener, ClearListener
      <3>2. \E S : StoreSched(scan_node(CurrentSched, S))
        BY <2>3, SameSched DEF Pause, Resume, SetListener, ClearListener
      <3> QED
        BY <1>4, <3>1, <3>2, SameViews
    <2>4. CASE RestartSet(n)
      <3> DEFINE V == [Views EXCEPT ![n].set = "none"]
      <3>1. V \in ViewsType
        BY <1>4 DEF ViewsType, NodeView
      <3>2. StoreViews(V) /\ StoreSched(scan_node(CurrentSched, {n}))
        BY <2>4 DEF RestartSet
      <3> HIDE DEF V
      <3> QED
        BY <3>1, <3>2
    <2>5. CASE RestartGet(n)
      <3> DEFINE V == [Views EXCEPT ![n].get = None]
      <3>1. V \in ViewsType
        BY <1>4, WithGetType
      <3>2. StoreViews(V) /\ StoreSched(scan_node(CurrentSched, {n}))
        BY <2>5 DEF RestartGet
      <3> HIDE DEF V
      <3> QED
        BY <3>1, <3>2
    <2> QED
      BY <2>1, <2>2, <2>3, <2>4, <2>5
  <1> QED
    BY <1>1, <1>2, <1>3, <1>5, CallInv

\* Other children for one node: a live node stays live if it is still a child of
\* that node or was no child of it.
LEMMA OtherChildren ==
  ASSUME TreeInv, NEW p \in Nodes, NEW new \in Seq(Nodes),
         children' = [children EXCEPT ![p] = new], fresh' \subseteq fresh,
         \A i \in 1..Len(new) : new[i] # Root /\ Parent[new[i]] = p
  PROVE  /\ TreeInv'
         /\ \A m \in live :
              (m # Root /\ Parent[m] = p => \E j \in 1..Len(new) : new[j] = m)
                => m \in live'
  <1>1. \A q \in Nodes : children'[q] = IF q = p THEN new ELSE children[q]
    BY DEF TreeInv
  <1>2. TreeInv'
    <2>1. children' \in [Nodes -> Seq(Nodes)]
      BY DEF TreeInv
    <2> QED
      BY <1>1, <2>1 DEF TreeInv
  <1>3. ASSUME NEW m \in live, m # Root,
               Parent[m] = p => \E j \in 1..Len(new) : new[j] = m
        PROVE  m \in live'
    <2>1. /\ m \in Nodes /\ Parent[m] \in Nodes
          /\ \E i \in 1..Len(children[Parent[m]]) : children[Parent[m]][i] = m
      BY <1>3, LiveNode, TreeAssumption
    <2>2. \E i \in 1..Len(children'[Parent[m]]) : children'[Parent[m]][i] = m
      BY <1>1, <1>3, <2>1
    <2>3. DOMAIN children'[Parent[m]] = 1..Len(children'[Parent[m]])
      BY <1>2, <2>1, LenProperties DEF TreeInv
    <2> QED
      BY <2>1, <2>2, <2>3 DEF live
  <1>4. Root \in live'
    BY DEF live
  <1> QED
    BY <1>2, <1>3, <1>4

\* Creating a node keeps the live ones.
LEMMA NodeCreatedInv ==
  ASSUME IInv, NEW n \in Nodes, NodeCreated(n)
  PROVE  IInv'
  <1> DEFINE V   == IF n \in HasGet \cup HasSet
                    THEN [Views EXCEPT ![n] = on_resolver_node_update(n, @)]
                    ELSE Views
             p   == Parent[n]
             old == children[p]
             new == Append(old, n)
  <1>1. /\ Call /\ n \in fresh /\ p \in live
        /\ children' = [children EXCEPT ![p] = new]
        /\ fresh' = fresh \ {n}
        /\ StoreViews(V) /\ StoreSched(scan_node(CurrentSched, ScansOf(V)))
        /\ UNCHANGED clientVars
    BY DEF NodeCreated, UpdateAttributes
  <1>2. V \in ViewsType
    <2>1. Views \in ViewsType /\ Views[n] \in NodeView
      BY FromState DEF ViewsType
    <2>2. on_resolver_node_update(n, Views[n]) \in NodeView
      BY <2>1, UpdateType
    <2> QED
      BY <2>1, <2>2 DEF ViewsType
  <1>3. /\ p \in Nodes /\ old \in Seq(Nodes) /\ TreeInv
        /\ \A i \in 1..Len(old) : old[i] # Root /\ Parent[old[i]] = p
    BY TreeAssumption DEF IInv, TreeInv
  <1>4. n # Root /\ Parent[n] = p
    BY <1>1, <1>3 DEF TreeInv
  <1>5. /\ new \in Seq(Nodes) /\ Len(new) = Len(old) + 1 /\ Len(old) \in Nat
        /\ \A i \in 1..Len(old) : new[i] = old[i]
        /\ new[Len(old) + 1] = n
    BY <1>3, AppendProperties, LenProperties
  <1>6. \A m \in live : m # Root /\ Parent[m] = p
          => \E i \in 1..Len(old) : old[i] = m
    BY <1>3, LiveNode
  <1> HIDE DEF new, old, V, p
  <1>7. \A i \in 1..Len(new) : i \in 1..Len(old) \/ i = Len(old) + 1
    BY <1>5
  <1>8. \A i \in 1..Len(new) : new[i] # Root /\ Parent[new[i]] = p
    BY <1>3, <1>4, <1>5, <1>7
  <1>9. \A i \in 1..Len(old) : i \in 1..Len(new)
    BY <1>5
  <1>10. \A m \in live : m # Root /\ Parent[m] = p
           => \E j \in 1..Len(new) : new[j] = m
    BY <1>5, <1>6, <1>9
  <1>11. fresh' \subseteq fresh
    BY <1>1
  <1>12. TreeInv' /\ live \subseteq live'
    BY <1>1, <1>3, <1>5, <1>8, <1>10, <1>11, OtherChildren
  <1>13. ClientInv'
    BY <1>1 DEF IInv, ClientInv, clientVars
  <1> QED
    BY <1>1, <1>2, <1>12, <1>13, CallInv

\* Taking one element out of a sequence keeps the others.
LEMMA WithoutProperties ==
  ASSUME NEW S, NEW q \in Seq(S), NEW i \in 1..Len(q)
  PROVE  /\ Without(q, i) \in Seq(S)
         /\ \A j \in 1..Len(Without(q, i)) :
              \E k \in 1..Len(q) : Without(q, i)[j] = q[k]
         /\ \A k \in 1..Len(q) : k # i =>
              \E j \in 1..Len(Without(q, i)) : Without(q, i)[j] = q[k]
  <1> DEFINE n == Len(q)
             a == SubSeq(q, 1, i - 1)
             b == SubSeq(q, i + 1, n)
             w == Without(q, i)
  <1>1. n \in Nat /\ i \in Nat /\ 1 <= i /\ i <= n
    BY LenProperties
  <1>2. /\ a \in Seq(S) /\ Len(a) = i - 1
        /\ \A k \in 1..(i - 1) : a[k] = q[k]
    <2> DEFINE hi == i - 1
    <2>1. hi \in Nat /\ hi <= Len(q) /\ 1 <= hi + 1 /\ 1 \in Nat \ {0}
      BY <1>1
    <2> HIDE DEF hi
    <2>2. /\ SubSeq(q, 1, hi) \in Seq(S) /\ Len(SubSeq(q, 1, hi)) = hi - 1 + 1
          /\ \A k \in 1..(hi - 1 + 1) : SubSeq(q, 1, hi)[k] = q[1 + k - 1]
      BY <2>1, PartOf
    <2>3. hi - 1 + 1 = hi /\ \A k \in 1..hi : 1 + k - 1 = k
      BY <2>1
    <2> QED
      BY <2>2, <2>3 DEF hi
  <1>3. /\ b \in Seq(S) /\ Len(b) = n - i
        /\ \A k \in 1..(n - i) : b[k] = q[i + k]
    <2> DEFINE lo == i + 1
    <2>1. lo \in Nat \ {0} /\ n \in Nat /\ n <= Len(q) /\ lo <= n + 1
      BY <1>1
    <2>2. n - lo + 1 = n - i /\ \A k \in 1..(n - i) : lo + k - 1 = i + k
      BY <1>1
    <2> HIDE DEF lo, n
    <2>3. /\ SubSeq(q, lo, n) \in Seq(S) /\ Len(SubSeq(q, lo, n)) = n - lo + 1
          /\ \A k \in 1..(n - lo + 1) : SubSeq(q, lo, n)[k] = q[lo + k - 1]
      BY <2>1, PartOf
    <2> QED
      BY <2>2, <2>3 DEF lo
  <1>4. w = a \o b
    BY DEF Without
  <1> HIDE DEF a, b, w, n
  <1>5. /\ w \in Seq(S) /\ Len(w) = Len(a) + Len(b)
        /\ \A k \in 1..Len(a) + Len(b) :
             w[k] = IF k <= Len(a) THEN a[k] ELSE b[k - Len(a)]
    BY <1>2, <1>3, <1>4, ConcatProperties
  <1>6. Len(w) = n - 1
    BY <1>1, <1>2, <1>3, <1>5
  <1>7. \A k \in 1..(n - 1) : w[k] = IF k < i THEN q[k] ELSE q[k + 1]
    <2> TAKE k \in 1..(n - 1)
    <2>1. CASE k < i
      BY <1>1, <1>2, <1>3, <1>5, <2>1
    <2>2. CASE ~(k < i)
      <3>1. k - (i - 1) \in 1..(n - i) /\ i + (k - (i - 1)) = k + 1
        BY <1>1, <2>2
      <3>2. k \in 1..Len(a) + Len(b) /\ ~(k <= Len(a))
        BY <1>1, <1>2, <1>3, <2>2
      <3>3. w[k] = b[k - (i - 1)]
        BY <1>2, <1>5, <3>2
      <3> QED
        BY <1>3, <2>2, <3>1, <3>3
    <2> QED
      BY <2>1, <2>2
  <1>8. ASSUME NEW j \in 1..Len(w)
        PROVE  \E k \in 1..n : w[j] = q[k]
    BY <1>1, <1>6, <1>7, <1>8
  <1>9. ASSUME NEW k \in 1..n, k # i
        PROVE  \E j \in 1..Len(w) : w[j] = q[k]
    <2>1. CASE k < i
      BY <1>1, <1>6, <1>7, <1>9, <2>1
    <2>2. CASE k > i
      <3>1. k - 1 \in 1..(n - 1) /\ ~(k - 1 < i) /\ (k - 1) + 1 = k
        BY <1>1, <1>9, <2>2
      <3>2. w[k - 1] = q[k]
        BY <1>7, <3>1
      <3> QED
        BY <1>6, <3>1, <3>2
    <2> QED
      BY <1>1, <1>9, <2>1, <2>2
  <1> QED
    BY <1>5, <1>8, <1>9 DEF n, w

\* Deleting a leaf: the rule engine stops waiting for it, and the event that
\* the aborted completion will not post is posted.
LEMMA NodeDeletedInv ==
  ASSUME IInv, NEW n \in Nodes, NodeDeleted(n)
  PROVE  IInv'
  <1> DEFINE ruled  == n \in HasGet \cup HasSet
             ls     == IF ruled THEN listeners \ {n} ELSE listeners
             aborts == ruled /\ RuleAborts(n)
             s1     == IF aborts /\ stack # <<>> THEN Post(CurrentSched, NextEvent)
                       ELSE CurrentSched
             s2     == IF ruled THEN scan_node(s1, ListenerAbove(n, ls)) ELSE s1
             W      == [Views EXCEPT ![n] = Blank]
  <1>1. /\ ~scanning /\ calls < MaxCalls /\ n \in live /\ n # Root
        /\ StoreViews(W) /\ StoreSched(s2)
        /\ listeners' = ls /\ awaiting' = awaiting \cap ls
        /\ paused' = IF ruled THEN paused \ {n} ELSE paused
        /\ resolver_state' = IF aborts THEN "IDLE" ELSE resolver_state
        /\ node_pending' = IF aborts THEN None ELSE node_pending
        /\ calls' = calls + 1
        /\ fresh' = fresh /\ scanning' = scanning /\ more_frames' = more_frames
        /\ etimer' = etimer /\ outstanding' = outstanding
    BY BoundAssumption DEF NodeDeleted
  <1>2. PICK i \in DOMAIN children[Parent[n]] :
          /\ children[Parent[n]][i] = n
          /\ children' = [children EXCEPT ![Parent[n]] = Without(@, i)]
    BY DEF NodeDeleted
  <1>3. AttrInv'
    <2>1. Views \in ViewsType /\ Blank \in NodeView
      BY FromState DEF Blank, NodeView
    <2>2. W \in ViewsType
      BY <2>1 DEF ViewsType
    <2> HIDE DEF W
    <2> QED
      BY <1>1, <2>2, ToAttr
  <1>4. /\ TreeInv'
        /\ \A m \in live : m # n => m \in live'
    <2> DEFINE p == Parent[n]
               old == children[p]
               new == Without(old, i)
    <2>1. /\ TreeInv /\ p \in Nodes /\ old \in Seq(Nodes)
          /\ \A k \in 1..Len(old) : old[k] # Root /\ Parent[old[k]] = p
      BY TreeAssumption DEF IInv, TreeInv
    <2>2. i \in 1..Len(old) /\ old[i] = n
      BY <1>2, <2>1, LenProperties
    <2>3. children' = [children EXCEPT ![p] = new]
      BY <1>2
    <2>4. \A m \in live : m # Root /\ Parent[m] = p
            => \E k \in 1..Len(old) : old[k] = m
      BY <2>1, LiveNode
    <2> HIDE DEF p, old
    <2>5. /\ new \in Seq(Nodes)
          /\ \A j \in 1..Len(new) : \E k \in 1..Len(old) : new[j] = old[k]
          /\ \A k \in 1..Len(old) : k # i => \E j \in 1..Len(new) : new[j] = old[k]
      BY <2>1, <2>2, WithoutProperties
    <2> HIDE DEF new
    <2>6. \A j \in 1..Len(new) : new[j] # Root /\ Parent[new[j]] = p
      BY <2>1, <2>5
    <2>7. \A m \in live : m # n /\ m # Root /\ Parent[m] = p
            => \E j \in 1..Len(new) : new[j] = m
      BY <2>2, <2>4, <2>5
    <2>8. /\ TreeInv'
          /\ \A m \in live :
               (m # Root /\ Parent[m] = p => \E j \in 1..Len(new) : new[j] = m)
                 => m \in live'
      BY <1>1, <2>1, <2>3, <2>5, <2>6, OtherChildren
    <2> QED
      BY <2>7, <2>8
  <1>5. ClientInv' /\ EnvInv'
    <2>1. ClientInv'
      BY <1>1 DEF IInv, ClientInv
    <2> HIDE DEF ls, aborts, s1, s2, W, ruled
    <2>2. EnvInv'
      BY <1>1, BoundAssumption DEF IInv, EnvInv
    <2> QED
      BY <2>1, <2>2
  <1>6. node_pending = n => ruled
    BY ValueAssumption DEF IInv, RuleInv
  <1>7. aborts <=> node_pending = n
    BY <1>6 DEF RuleAborts
  <1>8. RuleInv'
    <2>1. RuleInv
      BY DEF IInv
    <2>2. CASE aborts
      BY <1>1, <2>1, <2>2 DEF RuleInv, EngineConsistent, Busy
    <2>3. CASE ~aborts
      <3>1. /\ resolver_state' = resolver_state /\ node_pending' = node_pending
            /\ node_pending # n
        BY <1>1, <1>7, <2>3
      <3>2. node_pending' # None => node_pending' \in live'
        BY <1>4, <2>1, <3>1 DEF RuleInv, EngineConsistent
      <3> HIDE DEF ls, aborts, s1, s2, W, ruled
      <3> QED
        BY <1>1, <2>1, <3>1, <3>2 DEF RuleInv, EngineConsistent, Busy
    <2> QED
      BY <2>2, <2>3
  <1>9. SchedInv'
    <2>1. CurrentSched \in Sched /\ AwakeSched(CurrentSched, ~Busy /\ ~scanning)
      BY FromState
    <2>2. CASE aborts
      <3>1. Busy /\ ~Busy' /\ ~scanning'
        BY <1>1, <1>7, <2>2, ValueAssumption
           DEF IInv, RuleInv, EngineConsistent, Busy
      <3>2. AwakeSched(CurrentSched, FALSE)
        BY <2>1, <3>1
      <3>3. s1 \in Sched /\ AwakeSched(s1, TRUE)
        <4>1. CASE stack = <<>>
          <5>1. s1 = CurrentSched /\ CurrentSched.stack = <<>>
            BY <4>1 DEF CurrentSched
          <5> QED
            BY <2>1, <3>2, <5>1 DEF AwakeSched
        <4>2. CASE stack # <<>>
          <5>1. s1 = Post(CurrentSched, NextEvent) /\ CurrentSched.stack # <<>>
            BY <2>2, <4>2 DEF CurrentSched
          <5>2. ~CurrentSched.requested
            BY <3>2, <5>1 DEF AwakeSched
          <5>3. \A k \in 1..Len(CurrentSched.queue) :
                  CurrentSched.queue[k] # NextEvent
            BY <3>2, <5>2 DEF AwakeSched
          <5> QED
            BY <2>1, <3>2, <5>1, <5>2, <5>3, PostNext DEF AwakeSched
        <4> QED
          BY <4>1, <4>2
      <3> HIDE DEF s1
      <3>4. s2 \in Sched /\ AwakeSched(s2, TRUE)
        BY <3>3, ScanNode
      <3> HIDE DEF s2
      <3> QED
        BY <1>1, <3>1, <3>4, ToSched
    <2>3. CASE ~aborts
      <3>1. s1 = CurrentSched
        BY <2>3
      <3>2. s2 \in Sched /\ AwakeSched(s2, ~Busy /\ ~scanning)
        BY <2>1, <3>1, ScanNode
      <3>3. resolver_state' = resolver_state
        BY <1>1, <2>3
      <3>4. StoreSched(s2) /\ ~scanning /\ scanning' = scanning
        BY <1>1
      <3> HIDE DEF s2
      <3> QED
        BY <3>2, <3>3, <3>4, ToSchedIdle
    <2> QED
      BY <2>2, <2>3
  <1> QED
    BY <1>3, <1>4, <1>5, <1>8, <1>9 DEF IInv

-----------------------------------------------------------------------------
(* The theorems.                                                           *)

\* Every step keeps the invariant.
LEMMA NextInv ==
  ASSUME IInv, [Next]_vars
  PROVE  IInv'
  <1>1. CASE ScanStep
    BY <1>1, ScanStepInv
  <1>2. CASE ProcessEvent
    BY <1>2, ProcessEventInv
  <1>3. CASE EtimerExpires
    BY <1>3, EtimerInv
  <1>4. CASE Tick
    BY <1>4, TickInv
  <1>5. CASE LowerLayer
    BY <1>5, LowerLayerInv
  <1>6. CASE Environment
    BY <1>6, ApiInv, NodeCreatedInv, NodeDeletedInv DEF Environment
  <1>7. CASE UNCHANGED vars
    <2>1. /\ UNCHANGED <<treeVars, attrVars, scanning, ruleVars, clientVars, envVars>>
          /\ UNCHANGED schedVars /\ etimer' = etimer
      BY <1>7 DEF vars
    <2>2. SchedInv'
      BY <2>1 DEF IInv, SchedInv, WakeUp, NextQueued, OneScan, StackIsPath,
         schedVars, ruleVars, Busy
    <2>3. etimer' \in (-1..MaxWait) \cup {None}
      BY <2>1 DEF IInv, EnvInv
    <2> QED
      BY <2>1, <2>2, <2>3, OnlySched
  <1> QED
    BY <1>1, <1>2, <1>3, <1>4, <1>5, <1>6, <1>7 DEF Next

\* The inductive invariant holds in every reachable state of every instance.
THEOREM Invariant == Spec => []IInv
  <1>1. Init => IInv
    BY InitInv
  <1>2. IInv /\ [Next]_vars => IInv'
    BY NextInv
  <1> QED
    BY <1>1, <1>2, PTL DEF Spec

\* The variables keep their types: deadlines and retry counts stay in range,
\* and only well-formed events reach the resolver process.
THEOREM TypeCorrect == Spec => []TypeOK
  <1>1. IInv => TypeOK
    BY InvType
  <1> QED
    BY <1>1, Invariant, PTL

\* The resolver process never loses, and never doubles, the event that makes it
\* go on with its work.
THEOREM NeverAsleepAtWork == Spec => []WakeUp
  <1>1. IInv => WakeUp
    BY DEF IInv, SchedInv
  <1> QED
    BY <1>1, Invariant, PTL

\* At most one scan, and no scan step while a rule executes.
THEOREM SingleScan == Spec => []OneScan
  <1>1. IInv => OneScan
    BY DEF IInv, SchedInv
  <1> QED
    BY <1>1, Invariant, PTL

\* The stack of the scan is a path of the tree, whatever is created or deleted
\* between two executions.
THEOREM ScanFollowsTree == Spec => []StackIsPath
  <1>1. IInv => StackIsPath
    BY DEF IInv, SchedInv
  <1> QED
    BY <1>1, Invariant, PTL

\* The rule engine never waits for a node that is gone.
THEOREM EngineWaitsForLiveNode == Spec => []EngineConsistent
  <1>1. IInv => EngineConsistent
    BY DEF IInv, RuleInv
  <1> QED
    BY <1>1, Invariant, PTL
=============================================================================
