-------------------------- MODULE AttributeResolver --------------------------
(***************************************************************************)
(* The Unify attribute resolver: components/uic_attribute_resolver.        *)
(*                                                                         *)
(* The resolver aligns the attribute store with the devices.  It walks the *)
(* attribute tree depth first on an explicit stack, one rule execution at  *)
(* a time; between two executions it returns to the Contiki event loop and *)
(* waits for the completion callback of the lower layer.  Attribute        *)
(* updates, deletions and the public API arrive between any two events.    *)
(*                                                                         *)
(* Time is kept relative: a deadline is the number of milliseconds that    *)
(* are left (0: the clock reads exactly the deadline, -1: it is past), so  *)
(* that the clock itself needs no bound.                                   *)
(***************************************************************************)
EXTENDS Integers, Sequences, FiniteSets

CONSTANTS
  Nodes,            \* the attribute store nodes that may ever exist
  Root,             \* the root of the attribute tree
  Parent,           \* the parent of each node (Root is its own parent here)
  InitialChildren,  \* the children that exist at start, in creation order
  HasGet, HasSet,   \* nodes whose type has a get rule, a set rule
  GetGroup,         \* nodes resolved by the same get frame, itself included
  SetGroup,         \* nodes resolved by the same set frame, itself included
  Values,           \* defined attribute values
  Undef,            \* the undefined attribute value
  None,             \* no pending entry, no node, timer not running
  Unset,            \* a send_timeout of 0: the get is still in flight
  RetryCount,       \* get_retry_count of the configuration
  MaxWait,          \* bound: no deadline is further away, in ticks
  RetryWaits,       \* transmission_time + get_retry_timeout, in ticks
  BusyWait,         \* the 1000 ms after a rule answered IS_WAITING, in ticks
  GetFrames,        \* what get rules return: subset of FrameStatuses
  SetFrames,        \* what set rules return: subset of FrameStatuses
  MayRefuse,        \* whether the lower layer's send() may fail
  Statuses,         \* completion statuses the lower layer uses
  Pausable,         \* nodes that a component may pause
  Listenable,       \* nodes on which a component may set a listener
  Deletable,        \* nodes that may be deleted
  MaxOutstanding,   \* bound: unanswered sends the lower layer remembers
  MaxCalls          \* bound: calls made by the environment in a behaviour

FrameStatuses == {"OK", "IN_PROGRESS", "ALREADY_EXISTS", "IS_WAITING", "FAIL"}
SendStatuses ==
  {"OK", "PENDING", "FAIL", "VERIFIED", "FAILED", "HANDLED", "ABORTED"}
RuleTypes == {"GET", "SET"}
SentFrames == {"OK", "IN_PROGRESS"}

ASSUME TreeAssumption ==
  /\ Root \in Nodes
  /\ Parent \in [Nodes -> Nodes]
  /\ Parent[Root] = Root
  /\ InitialChildren \in [Nodes -> Seq(Nodes)]
  /\ \A p \in Nodes : \A i \in DOMAIN InitialChildren[p] :
        InitialChildren[p][i] # Root /\ Parent[InitialChildren[p][i]] = p
\* The attributes form a tree: every node is below the root, and at start only
\* nodes of the tree have children.
ASSUME RootAssumption ==
  /\ \A S \in SUBSET (Nodes \ {Root}) : S # {} => \E n \in S : Parent[n] \notin S
  /\ \A p \in Nodes \ {Root} : InitialChildren[p] # <<>> =>
        \E i \in DOMAIN InitialChildren[Parent[p]] :
           InitialChildren[Parent[p]][i] = p
ASSUME RuleAssumption ==
  /\ HasGet \subseteq Nodes \ {Root} /\ HasSet \subseteq Nodes \ {Root}
  /\ GetGroup \in [Nodes -> SUBSET HasGet]
  /\ SetGroup \in [Nodes -> SUBSET HasSet]
  /\ GetFrames \subseteq FrameStatuses /\ SetFrames \subseteq FrameStatuses
  /\ Statuses \subseteq SendStatuses /\ MayRefuse \in BOOLEAN
ASSUME ValueAssumption == Undef \notin Values /\ None \notin Nodes
ASSUME TimeAssumption ==
  /\ RetryCount \in Nat \ {0}
  /\ MaxWait \in Nat
  /\ RetryWaits \subseteq 1..MaxWait /\ BusyWait \in 1..MaxWait
  /\ Unset \notin Int
ASSUME BoundAssumption ==
  /\ Pausable \subseteq Nodes /\ Listenable \subseteq Nodes
  /\ Deletable \subseteq Nodes \ {Root}
  /\ MaxOutstanding \in Nat \ {0} /\ MaxCalls \in Nat

VARIABLES
  children,         \* attribute store: live children of each node, in order
  fresh,            \* attribute store: nodes not created yet
  reported, desired,
  stack,            \* the scan: Seq of [node, index]
  scan_requested,
  scanning,         \* control is inside resolver_find_next_resolve
  pending_get,      \* pending_get_resolutions: None or an entry, see Pending
  pending_set,      \* pending_set_resolutions: "none", "final" or "more"
  paused,           \* paused_nodes
  listeners,        \* nodes with a resolution listener
  awaiting,         \* listeners that were not called since they registered
  resolver_state,   \* "IDLE", "GET" or "SET"
  node_pending,     \* node_pending_resolution of the rule engine
  more_frames,      \* node_needs_more_frames of the rule engine
  queue,            \* Contiki events posted to the resolver process
  etimer,           \* pending_get_resume_timer: None when not running
  outstanding,      \* lower layer: completions it still owes
  calls             \* calls the environment made

treeVars == <<children, fresh>>
attrVars == <<reported, desired, pending_get, pending_set>>
schedVars == <<stack, scan_requested, queue>>
ruleVars == <<resolver_state, node_pending, more_frames>>
clientVars == <<paused, listeners, awaiting>>
envVars == <<outstanding, calls>>
vars == <<treeVars, attrVars, schedVars, scanning, ruleVars, clientVars,
          etimer, envVars>>

Busy == resolver_state # "IDLE"

-----------------------------------------------------------------------------
(* The attribute tree.                                                     *)

live == {Root} \cup {n \in Nodes : \E i \in DOMAIN children[Parent[n]] :
                                      children[Parent[n]][i] = n}

\* A node and its ancestors up to the root.
Above[n \in Nodes] == IF n = Root THEN {Root} ELSE {n} \cup Above[Parent[n]]

is_node_or_parent_paused(n) == Above[n] \cap paused # {}

\* The ancestor closest to the root that has a listener: at most one node.
ListenerAbove(n, ls) ==
  {a \in Above[n] \cap ls : \A b \in Above[n] \cap ls : a \in Above[b]}

GetGroupNodes(n) == IF n \in live THEN (GetGroup[n] \cup {n}) \cap live ELSE {}
SetGroupNodes(n) == IF n \in live THEN (SetGroup[n] \cup {n}) \cap live ELSE {}

-----------------------------------------------------------------------------
(* What the resolver knows of a node, as one record: the handlers update   *)
(* it step by step.  "scan" tells that the node asked to be scanned.       *)

\* A pending get.  "missed" is history: execute_get has come to the node in the
\* very millisecond of the deadline, and passed the retry over.
Pending == [timeout : (-1..MaxWait) \cup {Unset}, count : 0..RetryCount,
            missed : BOOLEAN]

\* No pending entry is not an entry, and no timer is not a time.
ASSUME NoneAssumption == None \notin Int /\ None \notin Pending

NodeView == [reported : Values \cup {Undef}, desired : Values \cup {Undef},
             get : Pending \cup {None}, set : {"none", "final", "more"},
             scan : BOOLEAN]

Views == [n \in Nodes |->
            [reported |-> reported[n], desired |-> desired[n],
             get |-> pending_get[n], set |-> pending_set[n], scan |-> FALSE]]

Blank == [reported |-> Undef, desired |-> Undef,
          get |-> None, set |-> "none", scan |-> FALSE]

StoreViews(V) ==
  /\ reported' = [n \in Nodes |-> V[n].reported]
  /\ desired' = [n \in Nodes |-> V[n].desired]
  /\ pending_get' = [n \in Nodes |-> V[n].get]
  /\ pending_set' = [n \in Nodes |-> V[n].set]

needs_get(n, x) == n \in HasGet /\ x.reported = Undef
needs_set(n, x) == n \in HasSet /\ x.desired # Undef /\ x.desired # x.reported
max_retries_reached(x) == x.get # None /\ x.get.count >= RetryCount

\* The clock reads the deadline or later.
DeadlineReached(p) == p.timeout # Unset /\ p.timeout <= 0

is_node_to_be_scanned(n, x) ==
  /\ ~is_node_or_parent_paused(n)
  /\ \/ /\ needs_get(n, x)
        /\ \/ x.get = None
           \/ x.get # None /\ x.get.count < RetryCount /\ DeadlineReached(x.get)
     \/ ~needs_get(n, x) /\ needs_set(n, x) /\ x.set = "none"

\* on_resolver_node_update, up to the scan it asks for.
on_resolver_node_update(n, x) ==
  LET y == [x EXCEPT
              !.get = IF ~needs_get(n, x) \/ max_retries_reached(x)
                      THEN None ELSE @,
              !.set = IF needs_set(n, x) THEN @ ELSE "none"]
  IN  [y EXCEPT !.scan = @ \/ ListenerAbove(n, listeners) # {}
                           \/ is_node_to_be_scanned(n, y)]

\* attribute_store_set_node_attribute_value on either value; the resolver is
\* called back for reported values of nodes with a rule and for desired values
\* of nodes with a set rule.
SetReported(n, x, v) ==
  LET y == [x EXCEPT !.reported = v]
  IN  IF v # x.reported /\ n \in HasGet \cup HasSet
      THEN on_resolver_node_update(n, y) ELSE y

SetDesired(n, x, v) ==
  LET y == [x EXCEPT !.desired = v]
  IN  IF v # x.desired /\ n \in HasSet
      THEN on_resolver_node_update(n, y) ELSE y

\* Where the scans that the nodes of V asked for have to start.
ScansOf(V) ==
  UNION {IF ListenerAbove(n, listeners) # {}
         THEN ListenerAbove(n, listeners) ELSE {n}
           : n \in {m \in Nodes : V[m].scan}}

attribute_resolver_node_or_child_needs_resolution(n, V) ==
  \E m \in live :
    /\ n \in Above[m]
    /\ \/ needs_get(m, V[m]) /\ ~max_retries_reached(V[m])
       \/ needs_set(m, V[m])

-----------------------------------------------------------------------------
(* The scan: stack, request flag and event queue, as one record.           *)

NextEvent == [type |-> "NEXT"]
Watch(n) == [type |-> "WATCH", node |-> n]
TimerSet(k) == [type |-> "TIMER_SET", interval |-> k]
Timer == [type |-> "TIMER"]
Events == {NextEvent, Timer} \cup {Watch(n) : n \in Nodes}
          \cup {TimerSet(k) : k \in 1..MaxWait}
Frames == [node : Nodes, index : Nat]
Sched == [stack : Seq(Frames), requested : BOOLEAN, queue : Seq(Events)]

CurrentSched ==
  [stack |-> stack, requested |-> scan_requested, queue |-> queue]

StoreSched(s) ==
  /\ stack' = s.stack
  /\ scan_requested' = s.requested
  /\ queue' = s.queue

Post(s, e) == [s EXCEPT !.queue = Append(@, e)]

\* The stack holds a path of the tree, so the first entry found while walking
\* up from n is the topmost one that is n or an ancestor of n.
IsCommonParent(st, i, n) ==
  /\ st[i].node \in Above[n]
  /\ \A j \in 1..Len(st) : st[j].node \in Above[n] => j <= i

\* Mutations of scan_node: the request flag is not checked before an event is
\* posted; a node is pushed on the stack of a running scan.
scan_node_Unchecked(s, S) ==
  IF S = {} THEN s
  ELSE IF s.stack # <<>> THEN s
  ELSE Post([s EXCEPT !.requested = TRUE], NextEvent)

scan_node_Pushing(s, S) ==
  IF S = {} THEN s
  ELSE IF s.stack # <<>>
  THEN [s EXCEPT !.stack = Append(@, [node |-> CHOOSE n \in S : TRUE, index |-> 0])]
  ELSE IF s.requested THEN s
  ELSE Post([s EXCEPT !.requested = TRUE], NextEvent)

\* scan_node on each node of the set; the order does not matter.
scan_node(s, S) ==
  IF S = {} THEN s
  ELSE IF s.stack # <<>>
  THEN [s EXCEPT !.stack =
          [i \in 1..Len(s.stack) |->
             IF \E n \in S : IsCommonParent(s.stack, i, n)
             THEN [node |-> s.stack[i].node, index |-> 0]
             ELSE s.stack[i]]]
  ELSE IF s.requested THEN s
  ELSE Post([s EXCEPT !.requested = TRUE], NextEvent)

RetriableGets(V) ==
  {n \in live : /\ V[n].get # None /\ V[n].get.count < RetryCount
                /\ ~is_node_or_parent_paused(n) /\ needs_get(n, V[n])
                /\ V[n].get.timeout # Unset}

\* attribute_resolver_restart_pending_get_nodes_timer.
restart_timer(V, s) ==
  LET due   == {n \in RetriableGets(V) : V[n].get.timeout <= 0}
      later == {V[n].get.timeout : n \in RetriableGets(V) \ due}
      s1    == scan_node(s, due)
  IN  IF etimer # None THEN s
      ELSE IF later = {} THEN s1
      ELSE Post(s1, TimerSet(CHOOSE k \in later : \A l \in later : k <= l))

-----------------------------------------------------------------------------
(* on_resolver_rule_execute_complete: the retry of a get, giving up after  *)
(* the last one, the next frame of a set, the listener, the next scan step *)

GiveUpViews(n, V) ==
  [a \in Nodes |->
     IF a \in GetGroupNodes(n)
     THEN [SetDesired(a, V[a], Undef)
             EXCEPT !.get = [timeout |-> Unset, count |-> RetryCount,
                             missed |-> FALSE]]
     ELSE V[a]]

on_resolver_rule_execute_complete(n, V, s, wait) ==
  LET retry  == V[n].get # None /\ needs_get(n, V[n])
      V1     == IF retry THEN [V EXCEPT ![n].get.timeout = wait] ELSE V
      s1     == IF retry THEN restart_timer(V1, s) ELSE s
      gaveUp == retry /\ max_retries_reached(V1[n])
      V2     == IF gaveUp THEN GiveUpViews(n, V1) ELSE V1
      s2     == IF gaveUp
                THEN scan_node(s1, ScansOf(V2) \cup ListenerAbove(n, listeners))
                ELSE s1
      again  == V2[n].set = "more"
      V3     == IF again THEN [V2 EXCEPT ![n].set = "none"] ELSE V2
      s3     == IF again THEN scan_node(s2, {n}) ELSE s2
      s4     == IF /\ n \in listeners
                   /\ ~attribute_resolver_node_or_child_needs_resolution(n, V3)
                THEN Post(s3, Watch(n)) ELSE s3
      s5     == IF s4.stack # <<>> THEN Post(s4, NextEvent) ELSE s4
  IN  [views |-> V3, sched |-> s5]

-----------------------------------------------------------------------------
(* Completion of a send: on_resolver_send_data_complete.                   *)

\* The attribute values after a completion: only a set rule changes them.
SentViews(n, kind, status) ==
  LET more  == n = node_pending /\ more_frames
      group == SetGroupNodes(n)
      V     == Views
      Clear(a, x) == SetDesired(a, SetReported(a, x, Undef), Undef)
      Align(a, x) ==
        SetDesired(a, SetReported(a, x, IF x.desired # Undef THEN x.desired
                                        ELSE x.reported), Undef)
  IN  CASE kind = "SET" /\ status = "OK" /\ more ->
             [a \in Nodes |-> IF a = n /\ n \in live
                              THEN SetReported(a, V[a], Undef) ELSE V[a]]
        [] kind = "SET" /\ (status = "OK" \/ status = "FAILED") /\ ~more ->
             [a \in Nodes |-> IF a \in group THEN Clear(a, V[a]) ELSE V[a]]
        [] kind = "SET" /\ status = "VERIFIED" /\ ~more ->
             [a \in Nodes |-> IF a \in group THEN Align(a, V[a]) ELSE V[a]]
        [] kind = "SET" /\ status = "FAIL" ->
             [a \in Nodes |-> IF a \in group
                              THEN SetDesired(a, V[a], Undef) ELSE V[a]]
        [] OTHER -> V

on_resolver_send_data_complete(n, kind, status) ==
  LET V == SentViews(n, kind, status)
      s == scan_node(CurrentSched, ScansOf(V))
  IN  IF node_pending = n
      THEN \E wait \in RetryWaits :
             LET c == on_resolver_rule_execute_complete(n, V, s, wait)
             IN  /\ StoreViews(c.views)
                 /\ StoreSched(c.sched)
                 /\ resolver_state' = "IDLE"
                 /\ node_pending' = None
                 /\ UNCHANGED more_frames
      ELSE /\ StoreViews(V)
           /\ StoreSched(s)
           /\ UNCHANGED ruleVars

\* The lower layer answers a send.  After EXECUTION_PENDING it owes another
\* answer.
SendDataComplete(n, kind, status) ==
  /\ ~scanning
  /\ outstanding[<<n, kind>>] > 0
  /\ outstanding' = IF status = "PENDING" THEN outstanding
                    ELSE [outstanding EXCEPT ![<<n, kind>>] = @ - 1]
  /\ on_resolver_send_data_complete(n, kind, status)
  /\ UNCHANGED <<treeVars, scanning, clientVars, etimer, calls>>

\* rule_execution_timer: the lower layer did not answer within 60 seconds.
\* The timer runs exactly while a rule executes.
RuleExecutionTimeout ==
  /\ ~scanning
  /\ resolver_state # "IDLE"
  /\ on_resolver_send_data_complete(node_pending, resolver_state, "FAIL")
  /\ UNCHANGED <<treeVars, scanning, clientVars, etimer, envVars>>

-----------------------------------------------------------------------------
(* The scan loop: resolver_find_next_resolve, one iteration per step.      *)

Top == stack[Len(stack)]
Popped == SubSeq(stack, 1, Len(stack) - 1)

\* The scan found nothing left to visit.
ScanCompleted ==
  /\ scanning /\ stack = <<>>
  /\ scanning' = FALSE
  /\ UNCHANGED <<treeVars, attrVars, schedVars, ruleVars, clientVars, etimer,
                 envVars>>

\* Paused nodes, with all below them, and nodes that are gone are skipped.
SkipNode ==
  /\ scanning /\ stack # <<>>
  /\ is_node_or_parent_paused(Top.node) \/ Top.node \notin live
  /\ stack' = Popped
  /\ UNCHANGED <<treeVars, attrVars, scan_requested, queue, scanning, ruleVars,
                 clientVars, etimer, envVars>>

\* The index of the top entry, reset when it points past the children.
TopIndex == IF Top.index > Len(children[Top.node]) THEN 0 ELSE Top.index

VisitChild ==
  /\ scanning /\ stack # <<>>
  /\ ~is_node_or_parent_paused(Top.node) /\ Top.node \in live
  /\ TopIndex < Len(children[Top.node])
  /\ stack' = Append(Append(Popped, [node |-> Top.node, index |-> TopIndex + 1]),
                     [node |-> children[Top.node][TopIndex + 1], index |-> 0])
  /\ UNCHANGED <<treeVars, attrVars, scan_requested, queue, scanning, ruleVars,
                 clientVars, etimer, envVars>>

\* All children of n were visited: n is popped and its rule considered.
NodeReached(n) ==
  /\ scanning /\ stack # <<>>
  /\ n = Top.node
  /\ ~is_node_or_parent_paused(n) /\ n \in live
  /\ TopIndex = Len(children[n])

PoppedSched == [CurrentSched EXCEPT !.stack = Popped]

\* The frame was handed to the lower layer: the rule executes and the loop
\* returns to wait for the completion.
FrameSent(n, kind, frame) ==
  /\ resolver_state' = kind
  /\ node_pending' = n
  /\ more_frames' = (frame = "IN_PROGRESS")
  /\ outstanding' = [outstanding EXCEPT ![<<n, kind>>] =
                       IF @ < MaxOutstanding THEN @ + 1 ELSE @]
  /\ scanning' = FALSE

\* No rule applies, or the rule resolved the attribute on its own: the node is
\* complete without a frame.
CompleteWithoutFrame(n, V, s) ==
  /\ \E wait \in RetryWaits :
       LET c == on_resolver_rule_execute_complete(n, V, s, wait)
       IN  StoreViews(c.views) /\ StoreSched(c.sched)
  /\ scanning' = FALSE
  /\ UNCHANGED <<ruleVars, outstanding>>

\* The loop goes on with the next entry of the stack.
ContinueScan(V, s) ==
  /\ StoreViews(V)
  /\ StoreSched(s)
  /\ UNCHANGED <<scanning, ruleVars, outstanding>>

NothingToResolve(n) ==
  /\ NodeReached(n)
  /\ ~needs_get(n, Views[n]) /\ ~needs_set(n, Views[n])
  /\ CompleteWithoutFrame(n, Views, PoppedSched)
  /\ UNCHANGED <<treeVars, clientVars, etimer, calls>>

GetQueued(n) == \E a \in GetGroupNodes(n) : pending_get[a] # None
SetQueued(n) == \E a \in SetGroupNodes(n) : pending_set[a] # "none"

\* Mutations of RetryDue: no limit on the retries; one retry too few.
RetryDue_Unlimited(p) == p.timeout # Unset /\ p.timeout < 0
RetryDue_OneLess(p) ==
  p.count < RetryCount - 1 /\ p.timeout # Unset /\ p.timeout < 0

\* The clock is strictly after the deadline: execute_get compares with >.
RetryDue(p) == p.count < RetryCount /\ p.timeout # Unset /\ p.timeout < 0

\* A retry whose deadline is now is not due yet.
OnDeadline(n) ==
  pending_get[n] # None /\ pending_get[n].count < RetryCount
                        /\ pending_get[n].timeout = 0

\* execute_get returns ABORT or IS_WAITING without executing the rule.
GetHeldBack(n) ==
  /\ NodeReached(n)
  /\ needs_get(n, Views[n])
  /\ IF pending_get[n] # None THEN ~RetryDue(pending_get[n]) ELSE GetQueued(n)
  /\ ContinueScan(IF OnDeadline(n) THEN [Views EXCEPT ![n].get.missed = TRUE]
                  ELSE Views, PoppedSched)
  /\ UNCHANGED <<treeVars, clientVars, etimer, calls>>

GetSendable(n) ==
  /\ NodeReached(n)
  /\ needs_get(n, Views[n])
  /\ IF pending_get[n] # None THEN RetryDue(pending_get[n]) ELSE ~GetQueued(n)

\* Mutation of Retried: a retry is not counted.
Retried_Uncounted(n) == Views

\* The pending entry after a transmission: a retry counts up, keeps its
\* deadline, and counts whatever the rule answers.
Retried(n) ==
  IF pending_get[n] = None THEN Views
  ELSE [Views EXCEPT ![n].get.count = @ + 1, ![n].get.missed = FALSE]

ExecuteGet(n) ==
  /\ GetSendable(n)
  /\ \/ \E frame \in GetFrames \cap SentFrames :
          /\ StoreViews(IF pending_get[n] # None THEN Retried(n)
                        ELSE [Views EXCEPT ![n].get =
                                [timeout |-> Unset, count |-> 1, missed |-> FALSE]])
          /\ StoreSched(PoppedSched)
          /\ FrameSent(n, "GET", frame)
     \/ /\ MayRefuse /\ GetFrames \cap SentFrames # {}
        /\ ContinueScan(Retried(n), PoppedSched)
     \/ /\ "ALREADY_EXISTS" \in GetFrames
        /\ \E v \in Values :
             LET V == [Retried(n) EXCEPT ![n] = SetReported(n, @, v)]
             IN  CompleteWithoutFrame(n, V, scan_node(PoppedSched, ScansOf(V)))
     \/ /\ "IS_WAITING" \in GetFrames
        /\ LET V == IF pending_get[n] # None THEN Retried(n)
                    ELSE [Views EXCEPT ![n].get =
                            [timeout |-> BusyWait, count |-> 0, missed |-> FALSE]]
           IN  ContinueScan(V, IF pending_get[n] # None THEN PoppedSched
                               ELSE restart_timer(V, PoppedSched))
     \/ /\ "FAIL" \in GetFrames
        /\ ContinueScan(Retried(n), PoppedSched)
  /\ UNCHANGED <<treeVars, clientVars, etimer, calls>>

SetHeldBack(n) ==
  /\ NodeReached(n)
  /\ ~needs_get(n, Views[n]) /\ needs_set(n, Views[n])
  /\ pending_set[n] # "none" \/ SetQueued(n)
  /\ ContinueScan(Views, PoppedSched)
  /\ UNCHANGED <<treeVars, clientVars, etimer, calls>>

\* execute_set first forgets the pending get of the node.
ExecuteSet(n) ==
  LET V == [Views EXCEPT ![n].get = None] IN
  /\ NodeReached(n)
  /\ ~needs_get(n, Views[n]) /\ needs_set(n, Views[n])
  /\ pending_set[n] = "none" /\ ~SetQueued(n)
  /\ \/ \E frame \in SetFrames \cap SentFrames :
          /\ StoreViews([V EXCEPT ![n].set =
                           IF frame = "OK" THEN "final" ELSE "more"])
          /\ StoreSched(PoppedSched)
          /\ FrameSent(n, "SET", frame)
     \/ /\ MayRefuse /\ SetFrames \cap SentFrames # {}
        /\ ContinueScan(V, PoppedSched)
     \/ /\ "ALREADY_EXISTS" \in SetFrames
        /\ LET W == [V EXCEPT ![n] = SetReported(n, @, V[n].desired)]
           IN  CompleteWithoutFrame(n, W, scan_node(PoppedSched, ScansOf(W)))
     \/ /\ {"IS_WAITING", "FAIL"} \cap SetFrames # {}
        /\ ContinueScan(V, PoppedSched)
  /\ UNCHANGED <<treeVars, clientVars, etimer, calls>>

-----------------------------------------------------------------------------
(* The resolver process: one Contiki event per step.                       *)

Dequeue(type) ==
  /\ ~scanning
  /\ queue # <<>>
  /\ Head(queue).type = type

\* Mutation of EvNext: the request is not cleared when the scan starts.
EvNext_KeepsRequest ==
  /\ Dequeue("NEXT")
  /\ queue' = Tail(queue)
  /\ stack' = IF stack = <<>> /\ scan_requested
              THEN <<[node |-> Root, index |-> 0]>> ELSE stack
  /\ scanning' = (resolver_state = "IDLE")
  /\ UNCHANGED <<treeVars, attrVars, scan_requested, ruleVars, clientVars,
                 etimer, envVars>>

\* attribute_resolver_ev_next
EvNext ==
  /\ Dequeue("NEXT")
  /\ queue' = Tail(queue)
  /\ IF stack = <<>> /\ scan_requested
     THEN stack' = <<[node |-> Root, index |-> 0]>> /\ scan_requested' = FALSE
     ELSE UNCHANGED <<stack, scan_requested>>
  /\ scanning' = (resolver_state = "IDLE")
  /\ UNCHANGED <<treeVars, attrVars, ruleVars, clientVars, etimer, envVars>>

\* attribute_resolver_ev_watch; the client may clear its listener when called.
EvWatch ==
  /\ Dequeue("WATCH")
  /\ queue' = Tail(queue)
  /\ listeners' \in {listeners, listeners \ {Head(queue).node}}
  /\ awaiting' = awaiting \ {Head(queue).node}
  /\ UNCHANGED <<treeVars, attrVars, stack, scan_requested, scanning, ruleVars,
                 paused, etimer, envVars>>

\* etimer_set on the posted interval: restarts a running timer.
EvTimerSet ==
  /\ Dequeue("TIMER_SET")
  /\ queue' = Tail(queue)
  /\ etimer' = Head(queue).interval
  /\ UNCHANGED <<treeVars, attrVars, stack, scan_requested, scanning, ruleVars,
                 clientVars, envVars>>

\* Nodes whose retry is due when the timer event is handled.
DueGets ==
  {n \in live : pending_get[n] # None /\ is_node_to_be_scanned(n, Views[n])}

\* Mutation of EvTimer: the timer is not restarted for the other nodes.
EvTimer_NoRestart ==
  /\ Dequeue("TIMER")
  /\ StoreSched(scan_node([CurrentSched EXCEPT !.queue = Tail(@)], DueGets))
  /\ UNCHANGED <<treeVars, attrVars, scanning, ruleVars, clientVars, etimer,
                 envVars>>

\* attribute_resume_expired_pending_get_nodes
EvTimer ==
  /\ Dequeue("TIMER")
  /\ LET s == [CurrentSched EXCEPT !.queue = Tail(@)]
     IN  StoreSched(restart_timer(Views, scan_node(s, DueGets)))
  /\ UNCHANGED <<treeVars, attrVars, scanning, ruleVars, clientVars, etimer,
                 envVars>>

\* etimer_process finds the timer expired and posts PROCESS_EVENT_TIMER.
EtimerExpires ==
  /\ etimer # None /\ etimer <= 0
  /\ ~scanning
  /\ etimer' = None
  /\ queue' = Append(queue, Timer)
  /\ UNCHANGED <<treeVars, attrVars, stack, scan_requested, scanning, ruleVars,
                 clientVars, envVars>>

\* One millisecond passes for a deadline that is k milliseconds ahead.
OneLess(k) == IF k >= 0 THEN k - 1 ELSE -1

\* The clock advances; it may do so while the scan loop runs.
Tick ==
  /\ pending_get' = [n \in Nodes |->
       IF pending_get[n] = None THEN None
       ELSE IF pending_get[n].timeout = Unset THEN pending_get[n]
       ELSE [pending_get[n] EXCEPT !.timeout = OneLess(@)]]
  /\ etimer' = IF etimer = None THEN None ELSE OneLess(etimer)
  /\ <<pending_get', etimer'>> # <<pending_get, etimer>>
  /\ UNCHANGED <<treeVars, reported, desired, pending_set, schedVars, scanning,
                 ruleVars, clientVars, envVars>>

-----------------------------------------------------------------------------
(* The rest of the application: attribute updates and the public API.      *)

Call ==
  /\ ~scanning
  /\ calls < MaxCalls
  /\ calls' = calls + 1
  /\ UNCHANGED <<scanning, ruleVars, etimer, outstanding>>

UpdateAttributes(V) ==
  /\ StoreViews(V)
  /\ StoreSched(scan_node(CurrentSched, ScansOf(V)))

\* A report of the device, or a component that undefines the reported value.
\* Values that the resolver is not called back for, and never reads, are left
\* out: those of nodes without a rule, and desired values without a set rule.
ReportedWritten(n, v) ==
  /\ Call
  /\ n \in live \cap (HasGet \cup HasSet) /\ reported[n] # v
  /\ UpdateAttributes([Views EXCEPT ![n] = SetReported(n, @, v)])
  /\ UNCHANGED <<treeVars, clientVars>>

\* A command, or a component that undefines the desired value.
DesiredWritten(n, v) ==
  /\ Call
  /\ n \in live \cap HasSet /\ desired[n] # v
  /\ UpdateAttributes([Views EXCEPT ![n] = SetDesired(n, @, v)])
  /\ UNCHANGED <<treeVars, clientVars>>

\* attribute_store_add_node: nodes are created without values.
NodeCreated(n) ==
  /\ Call
  /\ n \in fresh /\ Parent[n] \in live
  /\ children' = [children EXCEPT ![Parent[n]] = Append(@, n)]
  /\ fresh' = fresh \ {n}
  /\ LET V == IF n \in HasGet \cup HasSet
              THEN [Views EXCEPT ![n] = on_resolver_node_update(n, @)]
              ELSE Views
     IN  UpdateAttributes(V)
  /\ UNCHANGED clientVars

Without(seq, i) == SubSeq(seq, 1, i - 1) \o SubSeq(seq, i + 1, Len(seq))

\* Mutation of RuleAborts: the engine keeps waiting for the deleted node.
RuleAborts_Never(n) == FALSE

\* attribute_resolver_rule_abort has an effect on the node that executes.
RuleAborts(n) == node_pending = n

\* attribute_store_delete_node of a leaf; on_resolver_node_deleted is called
\* for nodes with a rule.
NodeDeleted(n) ==
  LET ruled   == n \in HasGet \cup HasSet
      ls      == IF ruled THEN listeners \ {n} ELSE listeners
      aborts  == ruled /\ RuleAborts(n)
      s1      == IF aborts /\ stack # <<>> THEN Post(CurrentSched, NextEvent)
                 ELSE CurrentSched
  IN
  /\ ~scanning
  /\ calls < MaxCalls
  /\ n \in live \cap Deletable /\ children[n] = <<>>
  /\ \E i \in DOMAIN children[Parent[n]] :
        /\ children[Parent[n]][i] = n
        /\ children' = [children EXCEPT ![Parent[n]] = Without(@, i)]
  /\ StoreViews([Views EXCEPT ![n] = Blank])
  /\ listeners' = ls
  /\ awaiting' = awaiting \cap ls
  /\ paused' = IF ruled THEN paused \ {n} ELSE paused
  /\ resolver_state' = IF aborts THEN "IDLE" ELSE resolver_state
  /\ node_pending' = IF aborts THEN None ELSE node_pending
  /\ StoreSched(IF ruled THEN scan_node(s1, ListenerAbove(n, ls)) ELSE s1)
  /\ calls' = calls + 1
  /\ UNCHANGED <<fresh, scanning, more_frames, etimer, outstanding>>

Pause(n) ==
  /\ Call
  /\ n \in live \cap Pausable /\ n \notin paused
  /\ paused' = paused \cup {n}
  /\ UNCHANGED <<treeVars, attrVars, schedVars, listeners, awaiting>>

is_node_under_resolution(n, V) == V[n].get # None \/ V[n].set # "none"

Resume(n) ==
  /\ Call
  /\ n \in live \cap Pausable
  /\ paused' = paused \ {n}
  /\ StoreSched(IF is_node_under_resolution(n, Views) THEN CurrentSched
                ELSE scan_node(CurrentSched, {n}))
  /\ UNCHANGED <<treeVars, attrVars, listeners, awaiting>>

\* Mutation of SetListener: no scan is started for the new listener.
SetListener_NoScan(n) ==
  /\ Call
  /\ n \in live \cap Listenable /\ n \notin listeners
  /\ listeners' = listeners \cup {n}
  /\ awaiting' = awaiting \cup {n}
  /\ UNCHANGED <<treeVars, attrVars, schedVars, paused>>

SetListener(n) ==
  /\ Call
  /\ n \in live \cap Listenable /\ n \notin listeners
  /\ listeners' = listeners \cup {n}
  /\ awaiting' = awaiting \cup {n}
  /\ StoreSched(scan_node(CurrentSched, {n}))
  /\ UNCHANGED <<treeVars, attrVars, paused>>

ClearListener(n) ==
  /\ Call
  /\ n \in listeners
  /\ listeners' = listeners \ {n}
  /\ awaiting' = awaiting \ {n}
  /\ UNCHANGED <<treeVars, attrVars, schedVars, paused>>

\* attribute_resolver_restart_set_resolution: resumes the node as well.
RestartSet(n) ==
  /\ Call
  /\ n \in live /\ pending_set[n] # "none"
  /\ StoreViews([Views EXCEPT ![n].set = "none"])
  /\ paused' = paused \ {n}
  /\ StoreSched(scan_node(CurrentSched, {n}))
  /\ UNCHANGED <<treeVars, listeners, awaiting>>

RestartGet(n) ==
  /\ Call
  /\ n \in live /\ pending_get[n] # None
  /\ StoreViews([Views EXCEPT ![n].get = None])
  /\ StoreSched(scan_node(CurrentSched, {n}))
  /\ UNCHANGED <<treeVars, clientVars>>

-----------------------------------------------------------------------------
\* After attribute_resolver_init and the INIT event of the process: a full
\* scan is requested and its event posted.  No value is known yet.
Init ==
  /\ children = InitialChildren
  /\ fresh = {n \in Nodes \ {Root} : \A i \in DOMAIN InitialChildren[Parent[n]] :
                                        InitialChildren[Parent[n]][i] # n}
  /\ reported = [n \in Nodes |-> Undef]
  /\ desired = [n \in Nodes |-> Undef]
  /\ stack = <<>>
  /\ scan_requested = TRUE
  /\ scanning = FALSE
  /\ pending_get = [n \in Nodes |-> None]
  /\ pending_set = [n \in Nodes |-> "none"]
  /\ paused = {} /\ listeners = {} /\ awaiting = {}
  /\ resolver_state = "IDLE"
  /\ node_pending = None
  /\ more_frames = FALSE
  /\ queue = <<NextEvent>>
  /\ etimer = None
  /\ outstanding = [k \in Nodes \X RuleTypes |-> 0]
  /\ calls = 0

ScanStep ==
  \/ ScanCompleted
  \/ SkipNode
  \/ VisitChild
  \/ \E n \in Nodes : \/ NothingToResolve(n)
                      \/ GetHeldBack(n) \/ ExecuteGet(n)
                      \/ SetHeldBack(n) \/ ExecuteSet(n)

ProcessEvent == EvNext \/ EvWatch \/ EvTimerSet \/ EvTimer

LowerLayer ==
  \/ \E n \in Nodes, kind \in RuleTypes, status \in Statuses :
        SendDataComplete(n, kind, status)
  \/ RuleExecutionTimeout

Environment ==
  \E n \in Nodes :
    \/ \E v \in Values \cup {Undef} : ReportedWritten(n, v) \/ DesiredWritten(n, v)
    \/ NodeCreated(n) \/ NodeDeleted(n)
    \/ Pause(n) \/ Resume(n)
    \/ SetListener(n) \/ ClearListener(n)
    \/ RestartSet(n) \/ RestartGet(n)

Next ==
  \/ ScanStep \/ ProcessEvent \/ EtimerExpires \/ Tick
  \/ LowerLayer \/ Environment

\* The event loop runs, time passes, and an executing rule ends at the latest
\* when its timer does.  The two disjunctions are WF_vars of their actions with
\* the condition under which these are enabled written out.
Fairness ==
  /\ []<>(~scanning /\ queue = <<>>) \/ []<><<ScanStep \/ ProcessEvent>>_vars
  /\ WF_vars(EtimerExpires) /\ WF_vars(Tick)
  /\ []<>(~Busy) \/ []<><<RuleExecutionTimeout>>_vars

Spec == Init /\ [][Next]_vars
FairSpec == Spec /\ Fairness
-----------------------------------------------------------------------------
(* Properties.                                                             *)

TypeOK ==
  /\ children \in [Nodes -> Seq(Nodes)]
  /\ fresh \subseteq Nodes
  /\ reported \in [Nodes -> Values \cup {Undef}]
  /\ desired \in [Nodes -> Values \cup {Undef}]
  /\ stack \in Seq(Frames)
  /\ scan_requested \in BOOLEAN
  /\ scanning \in BOOLEAN
  /\ pending_get \in [Nodes -> Pending \cup {None}]
  /\ pending_set \in [Nodes -> {"none", "final", "more"}]
  /\ paused \subseteq Nodes /\ listeners \subseteq Nodes
  /\ awaiting \subseteq listeners
  /\ resolver_state \in {"IDLE", "GET", "SET"}
  /\ node_pending \in Nodes \cup {None}
  /\ more_frames \in BOOLEAN
  /\ queue \in Seq(Events)
  /\ etimer \in (-1..MaxWait) \cup {None}
  /\ outstanding \in [Nodes \X RuleTypes -> 0..MaxOutstanding]
  /\ calls \in 0..MaxCalls

NextQueued == \E i \in DOMAIN queue : queue[i] = NextEvent

\* The resolver process keeps itself awake: outside of the scan loop a NEXT
\* event is queued exactly when a scan is requested, or when a scan is under
\* way and no rule executes.  In the loop no rule executes, and the request
\* alone decides.  There is never more than one, so that the shared Contiki
\* queue is not flooded by scans.
WakeUp ==
  /\ NextQueued <=> scan_requested \/ (stack # <<>> /\ ~Busy /\ ~scanning)
  /\ \A i, j \in DOMAIN queue :
        queue[i] = NextEvent /\ queue[j] = NextEvent => i = j

\* A scan is requested only while none is under way, and the loop never runs
\* while the rule engine waits for a completion.
OneScan ==
  /\ scan_requested => stack = <<>>
  /\ scanning => ~Busy

\* The stack holds a path from the root down the tree, whatever is created
\* and deleted while the scan waits for a completion.
StackIsPath ==
  \A i \in 1..Len(stack) :
    IF i = 1 THEN stack[i].node = Root
    ELSE Parent[stack[i].node] = stack[i - 1].node /\ stack[i].node # Root

\* The rule engine waits for a completion exactly when it is not idle, and only
\* for a node that exists: deletions abort the execution.
EngineConsistent ==
  /\ Busy <=> node_pending # None
  /\ node_pending # None => node_pending \in live

\* The resolver sleeps: nothing queued, no timer, no rule executing.
Asleep == ~scanning /\ queue = <<>> /\ ~Busy /\ etimer = None

\* The work that the resolver still owes a node: a get that is neither in
\* flight nor given up, or a set that was not sent.
OwesWork(n) ==
  \/ needs_get(n, Views[n]) /\ ~max_retries_reached(Views[n])
  \/ /\ ~needs_get(n, Views[n]) /\ needs_set(n, Views[n])
     /\ pending_set[n] = "none"

\* Asked for in the millisecond of its deadline, a retry is passed over:
\* execute_get wants the clock to be past it, when the timer and the scans that
\* it starts want it to be reached.
MissedRetry(n) == pending_get[n] # None /\ pending_get[n].missed

\* When the resolver sleeps it owes no work to a node that is not paused, but
\* for such a retry: no other get is forgotten between its retries, and no node
\* is skipped by the scan.
NoLostWork ==
  Asleep => \A n \in live :
              ~is_node_or_parent_paused(n) /\ ~MissedRetry(n) => ~OwesWork(n)

\* When the resolver sleeps, a listener that was not called yet has work left
\* under it.
NoLostListener ==
  Asleep => \A n \in awaiting \cap live :
              \/ is_node_or_parent_paused(n)
              \/ attribute_resolver_node_or_child_needs_resolution(n, Views)

\* With finitely many calls of the environment the resolver comes to rest:
\* scans, retries and notifications do not feed each other forever.
Settles == <>[]Asleep

\* A get that an attribute needs ends: a report defines the attribute, the
\* resolver gives up, or the node is gone; unless a retry of it is passed over
\* in the millisecond of its deadline.
GetConcludes ==
  \A n \in HasGet :
    (n \in live /\ reported[n] = Undef)
      ~> \/ n \notin live \/ reported[n] # Undef \/ max_retries_reached(Views[n])
         \/ MissedRetry(n)
=============================================================================
