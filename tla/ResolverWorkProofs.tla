-------------------------- MODULE ResolverWorkProofs --------------------------
(* The attribute resolver forgets no work and no listener, on any tree of  *)
(* nodes that stay and are not paused.                                     *)
EXTENDS AttributeResolverProofs

-----------------------------------------------------------------------------
(* Nodes and the nodes above them.                                         *)

\* A property that the root has, and each node whose parent has it, is one of
\* all nodes.
LEMMA AllBelowRoot ==
  ASSUME NEW P, Root \in P, \A n \in Nodes \ {Root} : Parent[n] \in P => n \in P
  PROVE  Nodes \subseteq P
  <1> DEFINE S == Nodes \ P
  <1>1. S \in SUBSET (Nodes \ {Root})
    OBVIOUS
  <1>2. ASSUME S # {} PROVE FALSE
    <2>1. PICK n \in S : Parent[n] \notin S
      BY <1>1, <1>2, RootAssumption
    <2> QED
      BY <2>1, TreeAssumption
  <1> QED
    BY <1>2

\* The recursive definition of Above has a solution: the smallest sets that are
\* closed under Parent.
LEMMA AboveIs ==
  \A n \in Nodes :
    Above[n] = IF n = Root THEN {Root} ELSE {n} \cup Above[Parent[n]]
  <1> DEFINE Closed(S) == \A k \in S : k # Root => Parent[k] \in S
             up == [n \in Nodes |->
                      {m \in Nodes : \A S \in SUBSET Nodes : n \in S /\ Closed(S) => m \in S}]
             f(g) == [n \in Nodes |-> IF n = Root THEN {Root} ELSE {n} \cup g[Parent[n]]]
  <1>1. ASSUME NEW n \in Nodes
        PROVE  up[n] = IF n = Root THEN {Root} ELSE {n} \cup up[Parent[n]]
    <2>1. Parent[n] \in Nodes /\ Root \in Nodes
      BY TreeAssumption
    <2>2. CASE n = Root
      <3>1. {Root} \in SUBSET Nodes /\ Closed({Root})
        BY <2>1
      <3>2. up[n] \subseteq {Root}
        BY <2>2, <3>1
      <3>3. Root \in up[n]
        BY <2>1, <2>2
      <3> QED
        BY <2>2, <3>2, <3>3
    <2>3. CASE n # Root
      <3> DEFINE T == {n} \cup up[Parent[n]]
      <3>1. T \in SUBSET Nodes
        BY <2>1
      <3>2. Parent[n] \in up[Parent[n]]
        BY <2>1
      <3>3. ASSUME NEW k \in up[Parent[n]], k # Root
            PROVE  Parent[k] \in up[Parent[n]]
        <4>1. k \in Nodes /\ Parent[k] \in Nodes
          BY <2>1, TreeAssumption
        <4>2. ASSUME NEW S \in SUBSET Nodes, Parent[n] \in S, Closed(S)
              PROVE  Parent[k] \in S
          <5>1. k \in S
            BY <2>1, <4>2
          <5> QED
            BY <3>3, <4>2, <5>1
        <4> QED
          BY <2>1, <4>1, <4>2
      <3>4. Closed(T)
        BY <3>2, <3>3
      <3>5. n \in T
        OBVIOUS
      <3>6. up[n] \subseteq T
        <4> HIDE DEF T, Closed
        <4> QED
          BY <3>1, <3>4, <3>5
      <3>7. T \subseteq up[n]
        <4>1. n \in up[n]
          OBVIOUS
        <4>2. ASSUME NEW m \in up[Parent[n]] PROVE m \in up[n]
          <5>1. m \in Nodes
            BY <2>1
          <5>2. ASSUME NEW S \in SUBSET Nodes, n \in S, Closed(S) PROVE m \in S
            <6>1. Parent[n] \in S
              BY <2>3, <5>2
            <6> QED
              BY <2>1, <5>2, <6>1
          <5> QED
            BY <5>1, <5>2
        <4> QED
          BY <4>1, <4>2
      <3>8. up[n] = T
        BY <3>6, <3>7
      <3> HIDE DEF up
      <3> QED
        BY <2>3, <3>8
    <2> QED
      BY <2>2, <2>3
  <1> HIDE DEF Closed
  <1>2. DOMAIN up = Nodes /\ up = [n \in Nodes |-> up[n]]
    OBVIOUS
  <1> HIDE DEF up
  <1>3. up = f(up)
    BY <1>1, <1>2
  <1>4. Above = CHOOSE g : g = f(g)
    BY DEF Above
  <1> HIDE DEF f
  <1>5. Above = f(Above)
    BY <1>3, <1>4
  <1> QED
    BY <1>5 DEF f

\* Above, case by case.
LEMMA AboveCases ==
  /\ Root \in Nodes /\ Above[Root] = {Root}
  /\ \A n \in Nodes \ {Root} :
        Parent[n] \in Nodes /\ Above[n] = {n} \cup Above[Parent[n]]
  BY AboveIs, TreeAssumption

\* A node is above itself, the root is above every node, and all these are nodes.
LEMMA AboveNodes ==
  ASSUME NEW n \in Nodes
  PROVE  n \in Above[n] /\ Root \in Above[n] /\ Above[n] \subseteq Nodes
  <1> DEFINE P == {k \in Nodes : Root \in Above[k] /\ Above[k] \subseteq Nodes}
  <1>1. Root \in P
    BY AboveCases
  <1>2. ASSUME NEW k \in Nodes \ {Root}, Parent[k] \in P
        PROVE  k \in P
    BY <1>2, AboveCases
  <1> HIDE DEF P
  <1>3. Nodes \subseteq P
    BY <1>1, <1>2, AllBelowRoot
  <1>4. n \in Above[n]
    BY AboveIs
  <1> QED
    BY <1>3, <1>4 DEF P

\* What is above a node that is above n is above n.
LEMMA AboveTransitive ==
  ASSUME NEW n \in Nodes, NEW a \in Above[n]
  PROVE  Above[a] \subseteq Above[n]
  <1> DEFINE P == {k \in Nodes : \A b \in Above[k] : Above[b] \subseteq Above[k]}
  <1>1. Root \in P
    BY AboveCases
  <1>2. ASSUME NEW k \in Nodes \ {Root}, Parent[k] \in P
        PROVE  k \in P
    <2>1. Above[k] = {k} \cup Above[Parent[k]]
      BY AboveCases
    <2>2. \A b \in Above[Parent[k]] : Above[b] \subseteq Above[Parent[k]]
      BY <1>2
    <2> QED
      BY <2>1, <2>2
  <1> HIDE DEF P
  <1>3. Nodes \subseteq P
    BY <1>1, <1>2, AllBelowRoot
  <1> QED
    BY <1>3 DEF P

\* Among the listeners above a node there is one above all the others.
LEMMA TopListener ==
  ASSUME NEW m \in Nodes, NEW ls, Above[m] \cap ls # {}
  PROVE  ListenerAbove(m, ls) # {}
  <1> DEFINE Top1(k) == \E t \in Above[k] \cap ls :
                          \A b \in Above[k] \cap ls : t \in Above[b]
             P == {k \in Nodes : Above[k] \cap ls # {} => Top1(k)}
  <1>1. Root \in P
    BY AboveCases
  <1>2. ASSUME NEW k \in Nodes \ {Root}, Parent[k] \in P
        PROVE  k \in P
    <2>1. Above[k] = {k} \cup Above[Parent[k]] /\ Parent[k] \in Nodes
      BY AboveCases
    <2>2. CASE Above[Parent[k]] \cap ls # {}
      <3>1. PICK t \in Above[Parent[k]] \cap ls :
              \A b \in Above[Parent[k]] \cap ls : t \in Above[b]
        BY <1>2, <2>2
      <3>2. \A b \in Above[k] \cap ls : t \in Above[b]
        BY <2>1, <3>1
      <3>3. Top1(k)
        BY <2>1, <3>1, <3>2
      <3> QED
        BY <3>3
    <2>3. CASE Above[Parent[k]] \cap ls = {}
      <3>1. Above[k] \cap ls \subseteq {k} /\ k \in Above[k]
        BY <2>1, <2>3
      <3>2. Above[k] \cap ls # {} => Top1(k)
        BY <3>1
      <3> QED
        BY <3>2
    <2> QED
      BY <2>2, <2>3
  <1> HIDE DEF P
  <1>3. m \in P
    BY <1>1, <1>2, AllBelowRoot
  <1> QED
    BY <1>3 DEF P, ListenerAbove

-----------------------------------------------------------------------------
(* The tree of the attribute store, and what the scan still reaches in it. *)

\* The nodes L with the children ch form a tree below the root.
IsTree(ch, L) ==
  /\ L \subseteq Nodes
  /\ \A n \in L : n # Root =>
        /\ Parent[n] \in L
        /\ \E j \in 1..Len(ch[Parent[n]]) : ch[Parent[n]][j] = n

\* The path from a node above n down to n leads through a child.
LEMMA PathStep ==
  ASSUME NEW ch, NEW L, IsTree(ch, L), NEW n \in L, NEW c \in Above[n], c # n
  PROVE  \E j \in 1..Len(ch[c]) : ch[c][j] \in Above[n]
  <1> DEFINE P == {k \in Nodes : k \in L =>
                     \A b \in Above[k] : b # k =>
                       \E j \in 1..Len(ch[b]) : ch[b][j] \in Above[k]}
  <1>1. Root \in P
    BY AboveCases
  <1>2. ASSUME NEW k \in Nodes \ {Root}, Parent[k] \in P
        PROVE  k \in P
    <2>1. Above[k] = {k} \cup Above[Parent[k]] /\ Parent[k] \in Nodes
      BY AboveCases
    <2>2. ASSUME k \in L, NEW b \in Above[k], b # k
          PROVE  \E j \in 1..Len(ch[b]) : ch[b][j] \in Above[k]
      <3>1. /\ Parent[k] \in L
            /\ \E j \in 1..Len(ch[Parent[k]]) : ch[Parent[k]][j] = k
        BY <2>2 DEF IsTree
      <3>2. CASE b = Parent[k]
        BY <2>1, <3>1, <3>2
      <3>3. CASE b # Parent[k]
        <4>1. b \in Above[Parent[k]]
          BY <2>1, <2>2
        <4>2. PICK j \in 1..Len(ch[b]) : ch[b][j] \in Above[Parent[k]]
          BY <1>2, <3>1, <3>3, <4>1
        <4> QED
          BY <2>1, <4>2
      <3> QED
        BY <3>2, <3>3
    <2> QED
      BY <2>2
  <1> HIDE DEF P
  <1>3. n \in P
    BY <1>1, <1>2, AllBelowRoot DEF IsTree
  <1> QED
    BY <1>3 DEF P

\* A scan that has reached child f.index of f.node comes to the node n.
Passes(ch, f, n) ==
  \/ f.node = n
  \/ \E j \in 1..Len(ch[f.node]) : j > f.index /\ ch[f.node][j] \in Above[n]

\* The scan that is requested or under way comes to the node n.
Reaches(ch, s, n) ==
  s.requested \/ \E i \in 1..Len(s.stack) : Passes(ch, s.stack[i], n)

\* The retry timer is about to be set or has just expired; a listener is about
\* to be called.
HasTimer(s) ==
  \E i \in 1..Len(s.queue) : s.queue[i].type \in {"TIMER", "TIMER_SET"}
HasWatch(s, n) == \E i \in 1..Len(s.queue) : s.queue[i] = Watch(n)

\* The nodes on the stack of the scan exist.
OnTree(L, s) == \A i \in 1..Len(s.stack) : s.stack[i].node \in L

\* Nothing that s has in store for the nodes of L is missing in t.
Keeps(ch, L, s, t) ==
  /\ OnTree(L, s) => OnTree(L, t)
  /\ \A n \in L : Reaches(ch, s, n) => Reaches(ch, t, n)
  /\ HasTimer(s) => HasTimer(t)
  /\ \A n \in Nodes : HasWatch(s, n) => HasWatch(t, n)

\* From a node that it has just entered the scan comes to all nodes below.
LEMMA PassesBelow ==
  ASSUME NEW ch, NEW L, IsTree(ch, L), NEW n \in L, NEW c \in Above[n],
         NEW f, f.node = c, f.index = 0
  PROVE  Passes(ch, f, n)
  <1>1. CASE c = n
    BY <1>1 DEF Passes
  <1>2. CASE c # n
    <2>1. PICK j \in 1..Len(ch[c]) : ch[c][j] \in Above[n]
      BY <1>2, PathStep
    <2>2. j > 0
      OBVIOUS
    <2> QED
      BY <2>1, <2>2 DEF Passes
  <1> QED
    BY <1>1, <1>2

\* Going back to the first child loses nothing.
LEMMA PassesAgain ==
  ASSUME NEW ch, NEW n, NEW e \in Frames, Passes(ch, e, n),
         NEW f, f.node = e.node, f.index = 0
  PROVE  Passes(ch, f, n)
  <1>1. e.index \in Nat
    BY DEF Frames
  <1> QED
    BY <1>1 DEF Passes

\* On a path from the root the deepest entry above a node exists.
LEMMA DeepestEntry ==
  ASSUME NEW st \in Seq(Frames), IsPath(st), st # <<>>, NEW a \in Nodes
  PROVE  \E i \in 1..Len(st) : IsCommonParent(st, i, a)
  <1> DEFINE T == {k \in Nat : \E i \in 1..Len(st) :
                      st[i].node \in Above[a] /\ k = Len(st) - i}
             least == CHOOSE k \in T : \A l \in T : k <= l
  <1>1. Len(st) \in Nat /\ Len(st) # 0
    BY EmptySeq, LenProperties
  <1>2. 1 \in 1..Len(st) /\ st[1].node \in Above[a]
    BY <1>1, AboveNodes DEF IsPath
  <1>3. T \subseteq Nat /\ Len(st) - 1 \in T
    BY <1>1, <1>2
  <1>4. least \in T /\ \A l \in T : least <= l
    <2>1. \E k \in T : \A l \in T : k <= l
      <3> DEFINE R == {ss \in Nat \X Nat : ss[1] < ss[2]}
      <3>1. IsWellFoundedOn(R, Nat)
        BY NatLessThanWellFounded DEF OpToRel
      <3> HIDE DEF R, T
      <3>2. PICK k \in T : \A l \in T : <<l, k>> \notin R
        BY <1>3, <3>1, WFMin
      <3>3. ASSUME NEW l \in T PROVE k <= l
        <4>1. l \in Nat /\ k \in Nat
          BY <1>3
        <4>2. l < k => <<l, k>> \in R
          BY <4>1 DEF R
        <4> QED
          BY <3>2, <4>1, <4>2
      <3> QED
        BY <3>3
    <2> HIDE DEF T
    <2> QED
      BY <2>1
  <1>5. PICK i \in 1..Len(st) : st[i].node \in Above[a] /\ least = Len(st) - i
    BY <1>4
  <1>6. ASSUME NEW j \in 1..Len(st), st[j].node \in Above[a]
        PROVE  j <= i
    <2>1. Len(st) - j \in T
      BY <1>1, <1>6
    <2>2. Len(st) - i <= Len(st) - j
      BY <1>4, <1>5, <2>1
    <2> QED
      BY <1>1, <2>2
  <1> QED
    BY <1>5, <1>6 DEF IsCommonParent

\* Keeping what is in store is transitive.
LEMMA KeepsOn ==
  ASSUME NEW ch, NEW L, NEW s, NEW t, NEW u, Keeps(ch, L, s, t), Keeps(ch, L, t, u)
  PROVE  Keeps(ch, L, s, u)
  BY DEF Keeps

\* A posted event is in store, and takes nothing away.
LEMMA PostKeeps ==
  ASSUME NEW s \in Sched, NEW e \in Events, NEW ch, NEW L
  PROVE  /\ Keeps(ch, L, s, Post(s, e))
         /\ \A n \in Nodes : e = Watch(n) => HasWatch(Post(s, e), n)
         /\ e.type \in {"TIMER", "TIMER_SET"} => HasTimer(Post(s, e))
  <1> DEFINE q == Append(s.queue, e)
  <1>1. s.queue \in Seq(Events) /\ Len(s.queue) \in Nat
    BY LenProperties DEF Sched
  <1>2. /\ Post(s, e).stack = s.stack /\ Post(s, e).requested = s.requested
        /\ Post(s, e).queue = q
    BY DEF Post, Sched
  <1>3. /\ Len(q) = Len(s.queue) + 1
        /\ \A i \in 1..Len(s.queue) : i \in 1..Len(q) /\ q[i] = s.queue[i]
        /\ Len(q) \in 1..Len(q) /\ q[Len(q)] = e
    BY <1>1, AppendProperties
  <1> HIDE DEF q
  <1>4. /\ \A n \in L : Reaches(ch, s, n) => Reaches(ch, Post(s, e), n)
        /\ OnTree(L, s) => OnTree(L, Post(s, e))
    BY <1>2 DEF Reaches, OnTree
  <1>5. /\ HasTimer(s) => HasTimer(Post(s, e))
        /\ e.type \in {"TIMER", "TIMER_SET"} => HasTimer(Post(s, e))
    BY <1>2, <1>3 DEF HasTimer
  <1>6. \A n \in Nodes : /\ HasWatch(s, n) => HasWatch(Post(s, e), n)
                         /\ e = Watch(n) => HasWatch(Post(s, e), n)
    BY <1>2, <1>3 DEF HasWatch
  <1> QED
    BY <1>4, <1>5, <1>6 DEF Keeps

\* What scan_node does to the scan, case by case.
LEMMA ScanNodeCases ==
  ASSUME NEW s \in Sched, NEW S
  PROVE  LET t == scan_node(s, S) IN
         \/ t = s /\ (S = {} \/ s.requested)
         \/ /\ S # {} /\ s.stack # <<>>
            /\ t.requested = s.requested /\ t.queue = s.queue
            /\ Len(t.stack) = Len(s.stack)
            /\ \A i \in 1..Len(s.stack) :
                  IF \E a \in S : IsCommonParent(s.stack, i, a)
                  THEN t.stack[i].node = s.stack[i].node /\ t.stack[i].index = 0
                  ELSE t.stack[i] = s.stack[i]
         \/ /\ t.requested
            /\ t = Post([s EXCEPT !.requested = TRUE], NextEvent)
            /\ [s EXCEPT !.requested = TRUE] \in Sched
  <1> DEFINE t == scan_node(s, S)
             st == [i \in 1..Len(s.stack) |->
                      IF \E a \in S : IsCommonParent(s.stack, i, a)
                      THEN [node |-> s.stack[i].node, index |-> 0]
                      ELSE s.stack[i]]
  <1>1. CASE S = {} \/ (s.stack = <<>> /\ s.requested)
    BY <1>1 DEF scan_node
  <1>2. CASE S # {} /\ s.stack # <<>>
    <2>1. /\ s.stack \in Seq(Frames) /\ Len(s.stack) \in Nat
          /\ \A i \in 1..Len(s.stack) : s.stack[i] \in Frames
      BY ElementOfSeq, LenProperties DEF Sched
    <2>2. st \in [1..Len(s.stack) -> Frames]
      BY <2>1 DEF Frames
    <2>3. st \in Seq(Frames)
      <3> HIDE DEF st
      <3> QED
        BY <2>1, <2>2, SeqDef
    <2>4. Len(st) = Len(s.stack)
      BY <2>1, <2>2, <2>3
    <2>5. t = [s EXCEPT !.stack = st]
      BY <1>2 DEF scan_node
    <2>6. t.stack = st /\ t.requested = s.requested /\ t.queue = s.queue
      BY <2>5 DEF Sched
    <2>7. \A i \in 1..Len(s.stack) :
                  IF \E a \in S : IsCommonParent(s.stack, i, a)
                  THEN st[i].node = s.stack[i].node /\ st[i].index = 0
                  ELSE st[i] = s.stack[i]
      OBVIOUS
    <2> HIDE DEF st, t
    <2> QED
      BY <1>2, <2>4, <2>6, <2>7 DEF t
  <1>3. CASE S # {} /\ s.stack = <<>> /\ ~s.requested
    <2> DEFINE u == [s EXCEPT !.requested = TRUE]
    <2>1. u \in Sched /\ u.requested = TRUE
      BY DEF Sched
    <2>2. t = Post(u, NextEvent)
      BY <1>3 DEF scan_node
    <2>3. Post(u, NextEvent).requested = TRUE
      BY <2>1 DEF Post, Sched
    <2> QED
      BY <2>1, <2>2, <2>3
  <1> QED
    BY <1>1, <1>2, <1>3

\* Asking for more scans takes nothing away.
LEMMA ScanNodeKeeps ==
  ASSUME NEW s \in Sched, NEW S, NEW ch, NEW L
  PROVE  Keeps(ch, L, s, scan_node(s, S))
  <1> DEFINE t == scan_node(s, S)
             u == [s EXCEPT !.requested = TRUE]
  <1>1. CASE t = s
    BY <1>1 DEF Keeps
  <1>2. CASE /\ t.requested = s.requested /\ t.queue = s.queue
             /\ Len(t.stack) = Len(s.stack)
             /\ \A i \in 1..Len(s.stack) :
                  IF \E a \in S : IsCommonParent(s.stack, i, a)
                  THEN t.stack[i].node = s.stack[i].node /\ t.stack[i].index = 0
                  ELSE t.stack[i] = s.stack[i]
    <2>1. HasTimer(s) => HasTimer(t)
      BY <1>2 DEF HasTimer
    <2>2. \A n \in Nodes : HasWatch(s, n) => HasWatch(t, n)
      BY <1>2 DEF HasWatch
    <2>3. \A i \in 1..Len(s.stack) : s.stack[i] \in Frames
      BY ElementOfSeq DEF Sched
    <2> HIDE DEF t
    <2>4. ASSUME NEW n \in L, NEW i \in 1..Len(s.stack), Passes(ch, s.stack[i], n)
          PROVE  Passes(ch, t.stack[i], n)
      <3>1. CASE t.stack[i] = s.stack[i]
        BY <2>4, <3>1
      <3>2. CASE t.stack[i].node = s.stack[i].node /\ t.stack[i].index = 0
        BY <2>3, <2>4, <3>2, PassesAgain
      <3> QED
        BY <1>2, <3>1, <3>2
    <2>5. \A n \in L : Reaches(ch, s, n) => Reaches(ch, t, n)
      BY <1>2, <2>4 DEF Reaches
    <2>6. \A i \in 1..Len(s.stack) : t.stack[i].node = s.stack[i].node
      BY <1>2
    <2>7. OnTree(L, s) => OnTree(L, t)
      BY <1>2, <2>6 DEF OnTree
    <2> QED
      BY <2>1, <2>2, <2>5, <2>7 DEF t, Keeps
  <1>3. CASE t.requested /\ t = Post(u, NextEvent) /\ u \in Sched
    <2>1. NextEvent \in Events
      BY DEF Events
    <2>2. Keeps(ch, L, u, t)
      BY <1>3, <2>1, PostKeeps
    <2>3. u.stack = s.stack /\ u.queue = s.queue
      BY DEF Sched
    <2>4. /\ HasTimer(s) => HasTimer(u)
          /\ \A n \in Nodes : HasWatch(s, n) => HasWatch(u, n)
          /\ OnTree(L, s) => OnTree(L, u)
      BY <2>3 DEF HasTimer, HasWatch, OnTree
    <2>5. \A n \in L : Reaches(ch, t, n)
      BY <1>3 DEF Reaches
    <2> HIDE DEF t, u
    <2> QED
      BY <2>2, <2>4, <2>5 DEF Keeps, t
  <1> QED
    BY <1>1, <1>2, <1>3, ScanNodeCases

\* The scan that was asked for at a node comes to every node below it.
LEMMA ScanNodeReaches ==
  ASSUME NEW ch, NEW L, IsTree(ch, L), NEW s \in Sched, IsPath(s.stack),
         NEW S, NEW a \in S, NEW n \in L, a \in Above[n]
  PROVE  Reaches(ch, scan_node(s, S), n)
  <1> DEFINE t == scan_node(s, S)
  <1>1. CASE t.requested
    BY <1>1 DEF Reaches
  <1>2. CASE /\ s.stack # <<>> /\ Len(t.stack) = Len(s.stack)
             /\ \A i \in 1..Len(s.stack) :
                  IF \E b \in S : IsCommonParent(s.stack, i, b)
                  THEN t.stack[i].node = s.stack[i].node /\ t.stack[i].index = 0
                  ELSE t.stack[i] = s.stack[i]
    <2>1. n \in Nodes /\ a \in Nodes
      BY AboveNodes DEF IsTree
    <2>2. s.stack \in Seq(Frames)
      BY DEF Sched
    <2>3. PICK i \in 1..Len(s.stack) : IsCommonParent(s.stack, i, a)
      BY <1>2, <2>1, <2>2, DeepestEntry
    <2>4. t.stack[i].node = s.stack[i].node /\ t.stack[i].index = 0
      BY <1>2, <2>3
    <2>5. s.stack[i].node \in Above[n]
      BY <2>1, <2>3, AboveTransitive DEF IsCommonParent
    <2> HIDE DEF t
    <2>6. Passes(ch, t.stack[i], n)
      BY <2>4, <2>5, PassesBelow
    <2>7. i \in 1..Len(t.stack)
      BY <1>2
    <2>8. Reaches(ch, t, n)
      BY <2>6, <2>7 DEF Reaches
    <2> QED
      BY <2>8 DEF t
  <1> QED
    BY <1>1, <1>2, ScanNodeCases

TimerOn(s, et) == et # None \/ HasTimer(s)

\* Restarting the timer takes nothing away; after it a get that waits for its
\* deadline has a timer, and one whose deadline has come a timer or a scan.
LEMMA RestartKeeps ==
  ASSUME NEW V \in ViewsType, NEW s \in Sched,
         NEW awake \in BOOLEAN, AwakeSched(s, awake),
         NEW ch, NEW L, IsTree(ch, L), live \subseteq L
  PROVE  LET t == restart_timer(V, s) IN
         /\ Keeps(ch, L, s, t)
         /\ \A n \in RetriableGets(V) :
               IF V[n].get.timeout <= 0
               THEN TimerOn(t, etimer) \/ Reaches(ch, t, n)
               ELSE TimerOn(t, etimer)
  <1> DEFINE due   == {n \in RetriableGets(V) : V[n].get.timeout <= 0}
             later == {V[n].get.timeout : n \in RetriableGets(V) \ due}
             first == CHOOSE k \in later : \A l \in later : k <= l
             s1    == scan_node(s, due)
             t     == restart_timer(V, s)
  <1>1. CASE etimer # None
    <2>1. t = s
      BY <1>1 DEF restart_timer
    <2> QED
      BY <1>1, <2>1 DEF Keeps, TimerOn
  <1>2. Keeps(ch, L, s, s1)
    BY ScanNodeKeeps
  <1>3. ASSUME NEW n \in due PROVE Reaches(ch, s1, n)
    <2>1. n \in L /\ n \in Nodes /\ n \in Above[n]
      BY AboveNodes DEF RetriableGets, IsTree
    <2>2. IsPath(s.stack)
      BY DEF AwakeSched
    <2> HIDE DEF due
    <2> QED
      BY <2>1, <2>2, ScanNodeReaches
  <1>4. CASE etimer = None /\ later = {}
    <2>1. t = s1
      BY <1>4 DEF restart_timer
    <2>2. \A n \in RetriableGets(V) : n \in due
      BY <1>4
    <2>3. \A n \in due : V[n].get.timeout <= 0
      OBVIOUS
    <2> HIDE DEF due, t, s1
    <2> QED
      BY <1>2, <1>3, <2>1, <2>2, <2>3 DEF t
  <1>5. CASE etimer = None /\ later # {}
    <2>1. t = Post(s1, TimerSet(first))
      BY <1>5 DEF restart_timer
    <2>2. s1 \in Sched
      BY ScanNode
    <2>3. later \subseteq 1..MaxWait
      <3>1. ASSUME NEW n \in RetriableGets(V), n \notin due
            PROVE  V[n].get.timeout \in 1..MaxWait
        <4>1. n \in Nodes /\ V[n].get # None /\ V[n].get.timeout # Unset
          BY TreeAssumption DEF RetriableGets, live
        <4>2. V[n].get \in Pending
          BY <4>1 DEF ViewsType, NodeView
        <4>3. V[n].get.timeout \in -1..MaxWait /\ ~(V[n].get.timeout <= 0)
          BY <3>1, <4>1, <4>2 DEF Pending
        <4> QED
          BY <4>3, TimeAssumption
      <3> QED
        BY <3>1
    <2>4. first \in later
      <3>1. later \subseteq Nat
        BY <2>3, TimeAssumption
      <3> QED
        BY <1>5, <3>1, FirstDeadline
    <2>5. TimerSet(first) \in Events /\ TimerSet(first).type \in {"TIMER", "TIMER_SET"}
      BY <2>3, <2>4 DEF Events, TimerSet
    <2> HIDE DEF first, later, due, s1, t
    <2>6. HasTimer(t) /\ Keeps(ch, L, s1, t)
      BY <2>1, <2>2, <2>5, PostKeeps
    <2>7. Keeps(ch, L, s, t)
      BY <1>2, <2>6, KeepsOn
    <2> QED
      BY <2>6, <2>7 DEF t, TimerOn
  <1> QED
    BY <1>1, <1>4, <1>5

-----------------------------------------------------------------------------
(* What the resolver owes to a node and to a listener.                     *)

\* The get or the set of the node was not tried.
NeedsScan(n, x) ==
  \/ needs_get(n, x) /\ x.get = None
  \/ ~needs_get(n, x) /\ needs_set(n, x) /\ x.set = "none"

\* The get was tried and not given up.
Retrying(n, x) == needs_get(n, x) /\ x.get # None /\ x.get.count < RetryCount

\* Whatever the node x still needs, something will take care of it: the scan s,
\* which x itself may have asked for, the timer, or the end of the rule that
\* executes for the node p.  Only a retry that was missed is left alone.
Attended(ch, s, et, p, n, x) ==
  /\ x.get # None => needs_get(n, x)
  /\ NeedsScan(n, x) => x.scan \/ Reaches(ch, s, n)
  /\ Retrying(n, x) =>
       IF x.get.timeout = Unset THEN p = n
       ELSE /\ x.get.timeout > 0 => TimerOn(s, et)
            /\ x.get.timeout <= 0 =>
                  TimerOn(s, et) \/ x.scan \/ Reaches(ch, s, n) \/ p = n \/ x.get.missed

\* The node x keeps the listeners above it waiting, with good reason.
Busies(p, n, x) ==
  \/ x.scan
  \/ needs_set(n, x)
  \/ needs_get(n, x) /\ (max_retries_reached(x) => p = n)

\* The listener of the node k will be called, or has reason to wait.
Heard(ch, L, V, s, p, k) ==
  \/ Reaches(ch, s, k)
  \/ HasWatch(s, k)
  \/ \E m \in L : k \in Above[m] /\ Busies(p, m, V[m])

\* The nodes that were not created yet have no get pending.
WorkGood(ch, L, V, s, et, p) ==
  /\ OnTree(L, s)
  /\ \A n \in L : Attended(ch, s, et, p, n, V[n])
  /\ \A n \in Nodes \ L : V[n].get = None
HearGood(ch, L, A, V, s, p) == \A k \in A : Heard(ch, L, V, s, p, k)

\* The scans that the nodes of V asked for were passed on.
ScansDone(ch, L, ls, V, s) ==
  \A m \in L : V[m].scan =>
    \A k \in {m} \cup (Above[m] \cap ls) : k \in L => Reaches(ch, s, k)

\* The callback on an update leaves nothing unattended: it asks for the scan.
LEMMA UpdateAttends ==
  ASSUME paused = {}, NEW n \in Nodes, NEW x \in NodeView, NEW y \in NodeView,
         NEW ch, NEW s, NEW et, NEW p, Attended(ch, s, et, p, n, x),
         y.get = x.get, y.set = x.set, x.scan => y.scan
  PROVE  LET z == on_resolver_node_update(n, y) IN
         /\ Attended(ch, s, et, p, n, z)
         /\ x.scan => z.scan
         /\ ListenerAbove(n, listeners) # {} => z.scan
         /\ z.reported = y.reported /\ z.desired = y.desired
  <1> DEFINE z1 == [y EXCEPT
              !.get = IF ~needs_get(n, y) \/ max_retries_reached(y)
                      THEN None ELSE @,
              !.set = IF needs_set(n, y) THEN @ ELSE "none"]
             z == on_resolver_node_update(n, y)
  <1>1. /\ z.reported = y.reported /\ z.desired = y.desired
        /\ z.get = IF ~needs_get(n, y) \/ max_retries_reached(y) THEN None ELSE y.get
        /\ z.set = IF needs_set(n, y) THEN y.set ELSE "none"
        /\ z.scan <=> \/ y.scan \/ ListenerAbove(n, listeners) # {}
                      \/ is_node_to_be_scanned(n, z1)
        /\ z1.get = z.get /\ z1.set = z.set
        /\ z1.reported = z.reported /\ z1.desired = z.desired
    BY DEF on_resolver_node_update, NodeView
  <1>2. ~is_node_or_parent_paused(n)
    BY DEF is_node_or_parent_paused
  <1> HIDE DEF z, z1
  <1>3. NeedsScan(n, z) => z.scan
    BY <1>1, <1>2 DEF NeedsScan, is_node_to_be_scanned, needs_get, needs_set
  <1>4. z.get # None => needs_get(n, z)
    BY <1>1 DEF needs_get
  <1>5. Retrying(n, z) => z.get = x.get /\ Retrying(n, x)
    BY <1>1 DEF Retrying, Attended
  <1>6. Attended(ch, s, et, p, n, z)
    BY <1>1, <1>3, <1>4, <1>5 DEF Attended
  <1> QED
    BY <1>1, <1>6 DEF z

\* Writing a reported value leaves nothing unattended.
LEMMA ReportedAttended ==
  ASSUME paused = {}, NEW n \in Nodes, NEW x \in NodeView,
         NEW u \in Values \cup {Undef},
         NEW ch, NEW s, NEW et, NEW p, Attended(ch, s, et, p, n, x)
  PROVE  LET z == SetReported(n, x, u) IN
         /\ Attended(ch, s, et, p, n, z)
         /\ x.scan => z.scan
         /\ ListenerAbove(n, listeners) # {} /\ Busies(p, n, x) => Busies(p, n, z)
         /\ z.reported = u /\ z.desired = x.desired
  <1> DEFINE y == [x EXCEPT !.reported = u]
             z == SetReported(n, x, u)
  <1>1. /\ y \in NodeView /\ y.get = x.get /\ y.set = x.set /\ y.scan = x.scan
        /\ y.reported = u /\ y.desired = x.desired
    BY DEF NodeView
  <1>2. CASE u # x.reported /\ n \in HasGet \cup HasSet
    <2>1. z = on_resolver_node_update(n, y)
      BY <1>2 DEF SetReported
    <2> HIDE DEF y, z
    <2> QED
      BY <1>1, <2>1, UpdateAttends DEF z, Busies
  <1>3. CASE ~(u # x.reported /\ n \in HasGet \cup HasSet)
    <2>1. z = y
      BY <1>3 DEF SetReported
    <2> HIDE DEF y, z
    <2>2. needs_get(n, y) = needs_get(n, x) /\ needs_set(n, y) = needs_set(n, x)
      BY <1>1, <1>3 DEF needs_get, needs_set
    <2>3. /\ NeedsScan(n, y) => NeedsScan(n, x)
          /\ Retrying(n, y) => Retrying(n, x)
          /\ Busies(p, n, x) => Busies(p, n, y)
      BY <1>1, <2>2 DEF NeedsScan, Retrying, Busies, max_retries_reached
    <2> QED
      BY <1>1, <2>1, <2>2, <2>3 DEF z, Attended
  <1> QED
    BY <1>2, <1>3

\* Writing a desired value leaves nothing unattended.
LEMMA DesiredAttended ==
  ASSUME paused = {}, NEW n \in Nodes, NEW x \in NodeView,
         NEW u \in Values \cup {Undef},
         NEW ch, NEW s, NEW et, NEW p, Attended(ch, s, et, p, n, x)
  PROVE  LET z == SetDesired(n, x, u) IN
         /\ Attended(ch, s, et, p, n, z)
         /\ x.scan => z.scan
         /\ ListenerAbove(n, listeners) # {} /\ Busies(p, n, x) => Busies(p, n, z)
         /\ z.reported = x.reported /\ z.desired = u
  <1> DEFINE y == [x EXCEPT !.desired = u]
             z == SetDesired(n, x, u)
  <1>1. /\ y \in NodeView /\ y.get = x.get /\ y.set = x.set /\ y.scan = x.scan
        /\ y.reported = x.reported /\ y.desired = u
    BY DEF NodeView
  <1>2. CASE u # x.desired /\ n \in HasSet
    <2>1. z = on_resolver_node_update(n, y)
      BY <1>2 DEF SetDesired
    <2> HIDE DEF y, z
    <2> QED
      BY <1>1, <2>1, UpdateAttends DEF z, Busies
  <1>3. CASE ~(u # x.desired /\ n \in HasSet)
    <2>1. z = y
      BY <1>3 DEF SetDesired
    <2> HIDE DEF y, z
    <2>2. needs_get(n, y) = needs_get(n, x) /\ needs_set(n, y) = needs_set(n, x)
      BY <1>1, <1>3 DEF needs_get, needs_set
    <2>3. /\ NeedsScan(n, y) => NeedsScan(n, x)
          /\ Retrying(n, y) => Retrying(n, x)
          /\ Busies(p, n, x) => Busies(p, n, y)
      BY <1>1, <2>2 DEF NeedsScan, Retrying, Busies, max_retries_reached
    <2> QED
      BY <1>1, <2>1, <2>2, <2>3 DEF z, Attended
  <1> QED
    BY <1>2, <1>3

-----------------------------------------------------------------------------
(* All nodes and listeners together.                                       *)

Good(ch, L, A, V, s, et, p) ==
  WorkGood(ch, L, V, s, et, p) /\ HearGood(ch, L, A, V, s, p)

\* A scan that keeps all that is in store leaves nobody out.
LEMMA KeepGood ==
  ASSUME NEW ch, NEW L, NEW A, NEW V, NEW s, NEW t, NEW et, NEW p,
         A \subseteq L, L \subseteq Nodes, Keeps(ch, L, s, t)
  PROVE  /\ WorkGood(ch, L, V, s, et, p) => WorkGood(ch, L, V, t, et, p)
         /\ HearGood(ch, L, A, V, s, p) => HearGood(ch, L, A, V, t, p)
         /\ \A ls : ScansDone(ch, L, ls, V, s) => ScansDone(ch, L, ls, V, t)
  <1>1. ASSUME NEW n \in L, Attended(ch, s, et, p, n, V[n])
        PROVE  Attended(ch, t, et, p, n, V[n])
    <2>1. /\ Reaches(ch, s, n) => Reaches(ch, t, n)
          /\ TimerOn(s, et) => TimerOn(t, et)
      BY DEF Keeps, TimerOn
    <2> QED
      BY <1>1, <2>1 DEF Attended
  <1>2. ASSUME NEW k \in A, Heard(ch, L, V, s, p, k)
        PROVE  Heard(ch, L, V, t, p, k)
    <2>1. /\ Reaches(ch, s, k) => Reaches(ch, t, k)
          /\ HasWatch(s, k) => HasWatch(t, k)
      BY DEF Keeps
    <2> QED
      BY <1>2, <2>1 DEF Heard
  <1>3. \A ls : ScansDone(ch, L, ls, V, s) => ScansDone(ch, L, ls, V, t)
    BY DEF ScansDone, Keeps
  <1>4. OnTree(L, s) => OnTree(L, t)
    BY DEF Keeps
  <1> QED
    BY <1>1, <1>2, <1>3, <1>4 DEF WorkGood, HearGood

\* Another record for one node, which is as attended as before and keeps the
\* listeners waiting if the old one did, leaves nobody out.
LEMMA WriteGood ==
  ASSUME NEW ch, NEW L, NEW A, NEW V \in ViewsType, NEW s, NEW et, NEW p,
         A \subseteq L \cap listeners, L \subseteq Nodes,
         Good(ch, L, A, V, s, et, p),
         NEW n \in L, NEW y, Attended(ch, s, et, p, n, y),
         ListenerAbove(n, listeners) # {} /\ Busies(p, n, V[n]) => Busies(p, n, y)
  PROVE  Good(ch, L, A, [V EXCEPT ![n] = y], s, et, p)
  <1> DEFINE W == [V EXCEPT ![n] = y]
  <1>1. W[n] = y /\ \A m \in Nodes : m # n => W[m] = V[m]
    BY DEF ViewsType
  <1> HIDE DEF W
  <1>2. WorkGood(ch, L, W, s, et, p)
    <2>1. ASSUME NEW m \in L PROVE Attended(ch, s, et, p, m, W[m])
      <3>1. m # n => Attended(ch, s, et, p, m, V[m]) /\ W[m] = V[m]
        BY <1>1 DEF Good, WorkGood
      <3> QED
        BY <1>1, <3>1
    <2> QED
      BY <1>1, <2>1 DEF Good, WorkGood
  <1>3. HearGood(ch, L, A, W, s, p)
    <2>1. ASSUME NEW k \in A, NEW m \in L, k \in Above[m], Busies(p, m, V[m])
          PROVE  Busies(p, m, W[m])
      <3>1. CASE m # n
        BY <1>1, <2>1, <3>1
      <3>2. CASE m = n
        <4>1. ListenerAbove(n, listeners) # {}
          BY <2>1, <3>2, TopListener
        <4> QED
          BY <1>1, <2>1, <3>2, <4>1
      <3> QED
        BY <3>1, <3>2
    <2>2. ASSUME NEW k \in A PROVE Heard(ch, L, W, s, p, k)
      <3>1. Heard(ch, L, V, s, p, k)
        BY DEF Good, HearGood
      <3>2. k \in listeners
        OBVIOUS
      <3> QED
        BY <2>1, <3>1 DEF Heard
    <2> QED
      BY <2>2 DEF HearGood
  <1> QED
    BY <1>2, <1>3 DEF W, Good

\* Writing a reported value leaves nobody out.
LEMMA ReportedGood ==
  ASSUME paused = {}, NEW ch, NEW L, NEW A, NEW V \in ViewsType, NEW s, NEW et,
         NEW p, A \subseteq L \cap listeners, L \subseteq Nodes,
         Good(ch, L, A, V, s, et, p), NEW n \in L, NEW u \in Values \cup {Undef}
  PROVE  LET W == [V EXCEPT ![n] = SetReported(n, V[n], u)]
         IN  W \in ViewsType /\ Good(ch, L, A, W, s, et, p)
  <1> DEFINE y == SetReported(n, V[n], u)
  <1>1. n \in Nodes /\ V[n] \in NodeView
    BY DEF ViewsType
  <1>2. Attended(ch, s, et, p, n, V[n])
    BY DEF Good, WorkGood
  <1>3. Attended(ch, s, et, p, n, y)
    BY <1>1, <1>2, ReportedAttended
  <1>4. ListenerAbove(n, listeners) # {} /\ Busies(p, n, V[n])
          => Busies(p, n, y)
    BY <1>1, <1>2, ReportedAttended
  <1>5. [V EXCEPT ![n] = y] \in ViewsType
    BY <1>1, WithReportedType
  <1> HIDE DEF y
  <1>6. Good(ch, L, A, [V EXCEPT ![n] = y], s, et, p)
    BY <1>3, <1>4, WriteGood
  <1> QED
    BY <1>5, <1>6 DEF y

\* The same for a desired value.
LEMMA DesiredGood ==
  ASSUME paused = {}, NEW ch, NEW L, NEW A, NEW V \in ViewsType, NEW s, NEW et,
         NEW p, A \subseteq L \cap listeners, L \subseteq Nodes,
         Good(ch, L, A, V, s, et, p), NEW n \in L, NEW u \in Values \cup {Undef}
  PROVE  LET W == [V EXCEPT ![n] = SetDesired(n, V[n], u)]
         IN  W \in ViewsType /\ Good(ch, L, A, W, s, et, p)
  <1> DEFINE y == SetDesired(n, V[n], u)
  <1>1. n \in Nodes /\ V[n] \in NodeView
    BY DEF ViewsType
  <1>2. Attended(ch, s, et, p, n, V[n])
    BY DEF Good, WorkGood
  <1>3. Attended(ch, s, et, p, n, y)
    BY <1>1, <1>2, DesiredAttended
  <1>4. ListenerAbove(n, listeners) # {} /\ Busies(p, n, V[n])
          => Busies(p, n, y)
    BY <1>1, <1>2, DesiredAttended
  <1>5. [V EXCEPT ![n] = y] \in ViewsType
    BY <1>1, WithDesiredType
  <1> HIDE DEF y
  <1>6. Good(ch, L, A, [V EXCEPT ![n] = y], s, et, p)
    BY <1>3, <1>4, WriteGood
  <1> QED
    BY <1>5, <1>6 DEF y

\* scan_node passes on all the scans that the nodes asked for.
LEMMA ScanDoes ==
  ASSUME NEW V \in ViewsType, NEW s \in Sched, NEW awake \in BOOLEAN,
         AwakeSched(s, awake), NEW ch, NEW L, IsTree(ch, L),
         NEW S, ScansOf(V) \subseteq S
  PROVE  ScansDone(ch, L, listeners, V, scan_node(s, S))
  <1>1. IsPath(s.stack) /\ L \subseteq Nodes
    BY DEF AwakeSched, IsTree
  <1>2. ASSUME NEW m \in L, V[m].scan,
               NEW k \in {m} \cup (Above[m] \cap listeners), k \in L
        PROVE  Reaches(ch, scan_node(s, S), k)
    <2>1. m \in Nodes
      BY <1>1
    <2>2. CASE ListenerAbove(m, listeners) # {}
      <3>1. PICK t \in ListenerAbove(m, listeners) : TRUE
        BY <2>2
      <3>2. t \in S
        BY <1>2, <2>1, <2>2, <3>1 DEF ScansOf
      <3>3. t \in Above[k]
        BY <1>2, <3>1 DEF ListenerAbove
      <3> QED
        BY <1>1, <1>2, <3>2, <3>3, ScanNodeReaches
    <2>3. CASE ListenerAbove(m, listeners) = {}
      <3>1. k = m
        BY <1>2, <2>1, <2>3, TopListener
      <3>2. m \in S
        BY <1>2, <2>1, <2>3 DEF ScansOf
      <3>3. m \in Above[m]
        BY <2>1, AboveNodes
      <3> QED
        BY <1>1, <1>2, <3>1, <3>2, <3>3, ScanNodeReaches
    <2> QED
      BY <2>2, <2>3
  <1> QED
    BY <1>2 DEF ScansDone

-----------------------------------------------------------------------------
(* The completion of a rule.                                               *)

\* What the theorems of this module ask for: nodes are neither paused nor
\* deleted, each is resolved by frames of its own, a rule either resolves the
\* node or has a frame for the device, which the lower layer takes.
Undisturbed ==
  /\ Pausable = {} /\ Deletable = {}
  /\ \A n \in Nodes : GetGroup[n] \subseteq {n} /\ SetGroup[n] \subseteq {n}
  /\ GetFrames \cup SetFrames \subseteq {"OK", "IN_PROGRESS", "ALREADY_EXISTS"}
  /\ ~MayRefuse

\* First step of a completion: the deadline of the retry and its timer.
LEMMA RetryGood ==
  ASSUME paused = {}, NEW n \in live, NEW V \in ViewsType, NEW s \in Sched,
         AwakeSched(s, FALSE), NEW wait \in RetryWaits,
         IsTree(children, live), NEW A, A \subseteq live \cap listeners,
         WorkGood(children, live, V, s, etimer, n),
         HearGood(children, live, A, V, s, n),
         ScansDone(children, live, listeners, V, s)
  PROVE  LET retry == V[n].get # None /\ needs_get(n, V[n])
             V1    == IF retry THEN [V EXCEPT ![n].get.timeout = wait] ELSE V
             s1    == IF retry THEN restart_timer(V1, s) ELSE s
         IN  /\ V1 \in ViewsType /\ s1 \in Sched /\ AwakeSched(s1, FALSE)
             /\ WorkGood(children, live, V1, s1, etimer, None)
             /\ HearGood(children, live, A, V1, s1, n)
             /\ ScansDone(children, live, listeners, V1, s1)
             /\ max_retries_reached(V1[n]) => retry
             /\ needs_get(n, V1[n]) <=> needs_get(n, V[n])
  <1> DEFINE retry == V[n].get # None /\ needs_get(n, V[n])
             V1    == IF retry THEN [V EXCEPT ![n].get.timeout = wait] ELSE V
             s1    == IF retry THEN restart_timer(V1, s) ELSE s
  <1>0. n \in Nodes /\ live \subseteq Nodes /\ n # None
    BY ValueAssumption DEF IsTree
  <1>a. V[n] \in NodeView /\ wait \in Int /\ wait > 0 /\ wait # Unset
        /\ wait \in (-1..MaxWait) \cup {Unset}
    BY <1>0, TimeAssumption DEF ViewsType
  <1>b. Attended(children, s, etimer, n, n, V[n])
    BY DEF WorkGood
  <1>1. CASE ~retry
    <2>1. V1 = V /\ s1 = s
      BY <1>1
    <2>2. V[n].get = None
      BY <1>1, <1>b DEF Attended
    <2>3. ASSUME NEW m \in live PROVE Attended(children, s, etimer, None, m, V[m])
      <3>1. Attended(children, s, etimer, n, m, V[m])
        BY DEF WorkGood
      <3>2. m = n => ~Retrying(m, V[m])
        BY <2>2 DEF Retrying
      <3> QED
        BY <3>1, <3>2 DEF Attended
    <2>4. WorkGood(children, live, V, s, etimer, None)
      BY <2>3 DEF WorkGood
    <2>5. ~max_retries_reached(V[n])
      BY <2>2 DEF max_retries_reached
    <2> HIDE DEF retry, V1, s1
    <2> QED
      BY <2>1, <2>4, <2>5 DEF retry, V1, s1
  <1>2. CASE retry
    <2> DEFINE x == [V[n] EXCEPT !.get = [V[n].get EXCEPT !.timeout = wait]]
    <2>1. V[n].get \in Pending /\ V[n].get # None /\ needs_get(n, V[n])
      BY <1>2, <1>a DEF NodeView
    <2>2. [V[n].get EXCEPT !.timeout = wait] \in Pending
      BY <1>a, <2>1 DEF Pending
    <2>3. x \in NodeView
      BY <1>a, <2>2 DEF NodeView
    <2>4. V1 = [V EXCEPT ![n] = x]
      BY <1>2
    <2>5. /\ x.reported = V[n].reported /\ x.desired = V[n].desired
          /\ x.set = V[n].set /\ x.scan = V[n].scan
          /\ x.get # None /\ x.get.timeout = wait /\ x.get.count = V[n].get.count
      BY <1>a, <2>1, <2>2, NoneAssumption DEF NodeView, Pending
    <2> HIDE DEF x, V1
    <2>6. /\ V1 \in ViewsType /\ V1[n] = x
          /\ \A m \in Nodes : m # n => V1[m] = V[m]
      BY <1>0, <2>3, <2>4 DEF ViewsType
    <2>7. s1 = restart_timer(V1, s)
      BY <1>2 DEF V1
    <2> HIDE DEF s1, retry
    <2>8. s1 \in Sched /\ AwakeSched(s1, FALSE)
      BY <2>6, <2>7, RestartTimer
    <2>9. /\ Keeps(children, live, s, s1)
          /\ \A m \in RetriableGets(V1) :
               V1[m].get.timeout > 0 => TimerOn(s1, etimer)
      <3>1. LET t == restart_timer(V1, s) IN
            /\ Keeps(children, live, s, t)
            /\ \A m \in RetriableGets(V1) :
                  IF V1[m].get.timeout <= 0
                  THEN TimerOn(t, etimer) \/ Reaches(children, t, m)
                  ELSE TimerOn(t, etimer)
        BY <2>6, RestartKeeps
      <3>2. \A m \in RetriableGets(V1) :
              V1[m].get.timeout \in Int
        <4>1. \A m \in RetriableGets(V1) : V1[m].get # None /\ m \in Nodes
                                         /\ V1[m].get.timeout # Unset
          BY <1>0 DEF RetriableGets
        <4>2. \A m \in RetriableGets(V1) : V1[m].get \in Pending
          BY <2>6, <4>1 DEF ViewsType, NodeView
        <4> QED
          BY <4>1, <4>2 DEF Pending
      <3> QED
        BY <2>7, <3>1, <3>2
    <2>10. /\ needs_get(n, x) = needs_get(n, V[n])
           /\ needs_set(n, x) = needs_set(n, V[n])
      BY <2>5 DEF needs_get, needs_set
    <2>11. ASSUME NEW m \in live PROVE Attended(children, s1, etimer, None, m, V1[m])
      <3>1. Attended(children, s, etimer, n, m, V[m])
        BY DEF WorkGood
      <3>2. Reaches(children, s, m) => Reaches(children, s1, m)
        BY <2>9 DEF Keeps
      <3>3. TimerOn(s, etimer) => TimerOn(s1, etimer)
        BY <2>9 DEF Keeps, TimerOn
      <3>4. CASE m # n
        BY <1>0, <2>6, <3>1, <3>2, <3>3, <3>4 DEF Attended
      <3>5. CASE m = n
        <4>1. Retrying(n, x) => n \in RetriableGets(V1)
          BY <1>a, <2>5, <2>6 DEF Retrying, RetriableGets, is_node_or_parent_paused
        <4>2. Retrying(n, x) => TimerOn(s1, etimer)
          BY <1>a, <2>5, <2>6, <2>9, <4>1
        <4>3. NeedsScan(n, x) => NeedsScan(n, V[n])
          BY <2>1, <2>5, <2>10 DEF NeedsScan
        <4>4. x.get.timeout # Unset /\ ~(x.get.timeout <= 0)
          BY <1>a, <2>5
        <4>5. NeedsScan(n, x) => x.scan \/ Reaches(children, s1, n)
          BY <2>5, <3>1, <3>2, <3>5, <4>3 DEF Attended
        <4>6. Attended(children, s1, etimer, None, n, x)
          BY <2>1, <2>10, <4>2, <4>4, <4>5 DEF Attended
        <4> QED
          BY <2>6, <3>5, <4>6
      <3> QED
        BY <3>4, <3>5
    <2>12. WorkGood(children, live, V1, s1, etimer, None)
      <3>1. OnTree(live, s1)
        BY <2>9 DEF Keeps, WorkGood
      <3> QED
        BY <2>6, <2>11, <3>1 DEF WorkGood
    <2>13. ASSUME NEW m \in live PROVE Busies(n, m, V1[m]) <=> Busies(n, m, V[m])
      BY <1>0, <2>1, <2>5, <2>6, <2>10 DEF Busies, max_retries_reached
    <2>14. HearGood(children, live, A, V1, s1, n)
      <3>1. HearGood(children, live, A, V1, s, n)
        BY <2>13 DEF HearGood, Heard
      <3> QED
        BY <1>0, <2>9, <3>1, KeepGood
    <2>15. ScansDone(children, live, listeners, V1, s1)
      <3>1. \A m \in live : V1[m].scan = V[m].scan
        BY <1>0, <2>5, <2>6
      <3>2. ScansDone(children, live, listeners, V, s1)
        BY <1>0, <2>9, KeepGood
      <3> QED
        BY <3>1, <3>2 DEF ScansDone
    <2> QED
      BY <1>2, <2>6, <2>8, <2>10, <2>12, <2>14, <2>15 DEF V1, s1, retry
  <1> QED
    BY <1>1, <1>2

\* Second step: giving up.  The node has no work left, and the listeners above
\* it, which waited for it, are scanned.
LEMMA GiveUpGood ==
  ASSUME Undisturbed, paused = {}, NEW n \in live, NEW V \in ViewsType,
         NEW s \in Sched, AwakeSched(s, FALSE),
         IsTree(children, live), NEW A, A \subseteq live \cap listeners,
         WorkGood(children, live, V, s, etimer, None),
         HearGood(children, live, A, V, s, n),
         ScansDone(children, live, listeners, V, s),
         NEW gaveUp \in BOOLEAN,
         max_retries_reached(V[n]) /\ needs_get(n, V[n]) => gaveUp,
         gaveUp => needs_get(n, V[n])
  PROVE  LET V2 == IF gaveUp THEN GiveUpViews(n, V) ELSE V
             s2 == IF gaveUp
                   THEN scan_node(s, ScansOf(V2) \cup ListenerAbove(n, listeners))
                   ELSE s
         IN  /\ V2 \in ViewsType /\ s2 \in Sched /\ AwakeSched(s2, FALSE)
             /\ Good(children, live, A, V2, s2, etimer, None)
             /\ ScansDone(children, live, listeners, V2, s2)
  <1> DEFINE V2 == IF gaveUp THEN GiveUpViews(n, V) ELSE V
             S  == ScansOf(V2) \cup ListenerAbove(n, listeners)
             s2 == IF gaveUp THEN scan_node(s, S) ELSE s
  <1>0. n \in Nodes /\ live \subseteq Nodes /\ n # None
    BY ValueAssumption DEF IsTree
  <1>1. CASE ~gaveUp
    <2>1. V2 = V /\ s2 = s
      BY <1>1
    <2>2. ~(max_retries_reached(V[n]) /\ needs_get(n, V[n]))
      BY <1>1
    <2>3. ASSUME NEW m \in live, Busies(n, m, V[m]) PROVE Busies(None, m, V[m])
      BY <2>2, <2>3 DEF Busies
    <2>4. HearGood(children, live, A, V, s, None)
      BY <2>3 DEF HearGood, Heard
    <2> HIDE DEF V2, S, s2
    <2> QED
      BY <2>1, <2>4 DEF Good, V2, S, s2
  <1>2. CASE gaveUp
    <2> DEFINE d == SetDesired(n, V[n], Undef)
               p == [timeout |-> Unset, count |-> RetryCount, missed |-> FALSE]
               y == [d EXCEPT !.get = p]
    <2>1. V[n] \in NodeView /\ d \in NodeView
      BY <1>0, SetDesiredType DEF ViewsType
    <2>2. p \in Pending /\ p # None /\ p.timeout = Unset /\ p.count = RetryCount
      <3>1. p \in Pending
        BY TimeAssumption DEF Pending
      <3> QED
        BY <3>1, NoneAssumption
    <2>3. GetGroupNodes(n) = {n}
      BY <1>0 DEF GetGroupNodes, Undisturbed
    <2>4. V2 = [V EXCEPT ![n] = y]
      <3>1. V2 = [a \in Nodes |-> IF a \in {n} THEN
                    [SetDesired(a, V[a], Undef)
                       EXCEPT !.get = [timeout |-> Unset, count |-> RetryCount,
                                       missed |-> FALSE]]
                    ELSE V[a]]
        BY <1>2, <2>3 DEF GiveUpViews
      <3> HIDE DEF V2
      <3> QED
        BY <1>0, <3>1 DEF ViewsType
    <2>5. /\ y.get = p /\ y.reported = d.reported /\ y.desired = d.desired
          /\ y.set = d.set /\ y.scan = d.scan /\ y \in NodeView
      BY <2>1, <2>2 DEF NodeView
    <2>6. d.reported = V[n].reported
      <3>1. Attended(children, s, etimer, None, n, V[n])
        BY DEF WorkGood
      <3> QED
        BY <1>0, <2>1, <3>1, DesiredAttended
    <2> HIDE DEF y, p, d
    <2>7. needs_get(n, y)
      BY <1>2, <2>5, <2>6 DEF needs_get
    <2>8. Attended(children, s, etimer, None, n, y)
      BY <2>2, <2>5, <2>7, TimeAssumption DEF Attended, NeedsScan, Retrying
    <2> HIDE DEF V2
    <2>9. /\ V2 \in ViewsType /\ V2[n] = y
          /\ \A m \in Nodes : m # n => V2[m] = V[m]
      BY <1>0, <2>4, <2>5 DEF ViewsType
    <2>10. WorkGood(children, live, V2, s, etimer, None)
      BY <1>0, <2>8, <2>9 DEF WorkGood
    <2>11. s2 = scan_node(s, S)
      BY <1>2
    <2> HIDE DEF S, s2
    <2>12. s2 \in Sched /\ AwakeSched(s2, FALSE) /\ Keeps(children, live, s, s2)
      BY <2>11, ScanNode, ScanNodeKeeps
    <2>13. WorkGood(children, live, V2, s2, etimer, None)
      BY <1>0, <2>10, <2>12, KeepGood
    <2>14. ScansDone(children, live, listeners, V2, s2)
      BY <2>9, <2>11, ScanDoes DEF S
    <2>15. ASSUME NEW k \in A PROVE Heard(children, live, V2, s2, None, k)
      <3>1. Heard(children, live, V, s, n, k)
        BY DEF HearGood
      <3>2. CASE Reaches(children, s, k) \/ HasWatch(s, k)
        BY <1>0, <2>12, <3>2 DEF Keeps, Heard
      <3>3. ASSUME NEW m \in live, k \in Above[m], Busies(n, m, V[m])
            PROVE  Heard(children, live, V2, s2, None, k)
        <4>1. CASE m # n
          <5>1. Busies(None, m, V2[m])
            BY <1>0, <2>9, <3>3, <4>1 DEF Busies
          <5> QED
            BY <3>3, <5>1 DEF Heard
        <4>2. CASE m = n
          <5>1. PICK t \in ListenerAbove(n, listeners) : TRUE
            BY <1>0, <3>3, <4>2, TopListener
          <5>2. t \in S /\ t \in Above[k] /\ k \in live
            BY <3>3, <4>2, <5>1 DEF S, ListenerAbove
          <5>3. IsPath(s.stack)
            BY DEF AwakeSched
          <5>4. Reaches(children, s2, k)
            BY <2>11, <5>2, <5>3, ScanNodeReaches
          <5> QED
            BY <5>4 DEF Heard
        <4> QED
          BY <4>1, <4>2
      <3> QED
        BY <3>1, <3>2, <3>3 DEF Heard
    <2>16. HearGood(children, live, A, V2, s2, None)
      BY <2>15 DEF HearGood
    <2> QED
      BY <2>9, <2>12, <2>13, <2>14, <2>16 DEF Good, S, s2, V2
  <1> QED
    BY <1>1, <1>2

\* The whole completion.  It calls the listener of the node, when nothing below
\* it is left to resolve, and so the listener need not be heard before.
LEMMA CompletionGood ==
  ASSUME Undisturbed, paused = {}, NEW n \in live, NEW V \in ViewsType,
         NEW s \in Sched, AwakeSched(s, FALSE), NEW wait \in RetryWaits,
         IsTree(children, live), NEW A, A \subseteq live \cap listeners,
         WorkGood(children, live, V, s, etimer, n),
         HearGood(children, live, A \ {n}, V, s, n),
         ScansDone(children, live, listeners, V, s)
  PROVE  LET c == on_resolver_rule_execute_complete(n, V, s, wait)
         IN  /\ Good(children, live, A, c.views, c.sched, etimer, None)
             /\ ScansDone(children, live, listeners, c.views, c.sched)
  <1> DEFINE retry  == V[n].get # None /\ needs_get(n, V[n])
             V1     == IF retry THEN [V EXCEPT ![n].get.timeout = wait] ELSE V
             s1     == IF retry THEN restart_timer(V1, s) ELSE s
             gaveUp == retry /\ max_retries_reached(V1[n])
             V2     == IF gaveUp THEN GiveUpViews(n, V1) ELSE V1
             s2     == IF gaveUp
                       THEN scan_node(s1, ScansOf(V2) \cup ListenerAbove(n, listeners))
                       ELSE s1
             again  == V2[n].set = "more"
             V3     == IF again THEN [V2 EXCEPT ![n].set = "none"] ELSE V2
             s3     == IF again THEN scan_node(s2, {n}) ELSE s2
             s4     == IF /\ n \in listeners
                          /\ ~attribute_resolver_node_or_child_needs_resolution(n, V3)
                       THEN Post(s3, Watch(n)) ELSE s3
             s5     == IF s4.stack # <<>> THEN Post(s4, NextEvent) ELSE s4
             B      == A \ {n}
  <1>0. on_resolver_rule_execute_complete(n, V, s, wait)
          = [views |-> V3, sched |-> s5]
    BY DEF on_resolver_rule_execute_complete
  <1>a. n \in Nodes /\ live \subseteq Nodes /\ B \subseteq live \cap listeners
    BY DEF IsTree
  <1>1. /\ V1 \in ViewsType /\ s1 \in Sched /\ AwakeSched(s1, FALSE)
        /\ WorkGood(children, live, V1, s1, etimer, None)
        /\ HearGood(children, live, B, V1, s1, n)
        /\ ScansDone(children, live, listeners, V1, s1)
        /\ max_retries_reached(V1[n]) => retry
        /\ needs_get(n, V1[n]) <=> needs_get(n, V[n])
    <2> HIDE DEF B
    <2> QED
      BY <1>a, RetryGood DEF B
  <1>b. /\ gaveUp \in BOOLEAN
        /\ max_retries_reached(V1[n]) /\ needs_get(n, V1[n]) => gaveUp
        /\ gaveUp => needs_get(n, V1[n])
    BY <1>1
  <1> HIDE DEF V1, s1, gaveUp, B
  <1>2. /\ V2 \in ViewsType /\ s2 \in Sched /\ AwakeSched(s2, FALSE)
        /\ Good(children, live, B, V2, s2, etimer, None)
        /\ ScansDone(children, live, listeners, V2, s2)
    BY <1>a, <1>1, <1>b, GiveUpGood
  <1> HIDE DEF V2, s2
  <1>3. /\ s3 \in Sched /\ Keeps(children, live, s2, s3)
        /\ again => Reaches(children, s3, n)
    <2>1. CASE again
      <3>1. s3 = scan_node(s2, {n})
        BY <2>1
      <3>2. IsPath(s2.stack) /\ n \in Above[n]
        BY <1>a, <1>2, AboveNodes DEF AwakeSched
      <3> HIDE DEF s3, again
      <3> QED
        BY <1>2, <3>1, <3>2, ScanNode, ScanNodeKeeps, ScanNodeReaches
    <2>2. CASE ~again
      <3>1. s3 = s2
        BY <2>2
      <3> QED
        BY <1>2, <2>2, <3>1 DEF Keeps
    <2> QED
      BY <2>1, <2>2
  <1>4. /\ Good(children, live, B, V2, s3, etimer, None)
        /\ ScansDone(children, live, listeners, V2, s3)
    <2> HIDE DEF s3
    <2> QED
      BY <1>a, <1>2, <1>3, KeepGood DEF Good
  <1> HIDE DEF s3
  <1>5. /\ V3 \in ViewsType
        /\ Good(children, live, B, V3, s3, etimer, None)
        /\ ScansDone(children, live, listeners, V3, s3)
    <2>1. CASE ~again
      <3>1. V3 = V2
        BY <2>1
      <3> QED
        BY <1>2, <1>4, <3>1
    <2>2. CASE again
      <3> DEFINE y == [V2[n] EXCEPT !.set = "none"]
      <3>1. V2[n] \in NodeView
        BY <1>2, <1>a DEF ViewsType
      <3>2. /\ y \in NodeView /\ y.reported = V2[n].reported
            /\ y.desired = V2[n].desired /\ y.get = V2[n].get
            /\ y.scan = V2[n].scan
        BY <3>1 DEF NodeView
      <3>3. V3 = [V2 EXCEPT ![n] = y]
        BY <2>2
      <3> HIDE DEF y, V3
      <3>4. needs_get(n, y) = needs_get(n, V2[n]) /\ needs_set(n, y) = needs_set(n, V2[n])
        BY <3>2 DEF needs_get, needs_set
      <3>5. Attended(children, s3, etimer, None, n, V2[n])
        BY <1>4 DEF Good, WorkGood
      <3>6. Attended(children, s3, etimer, None, n, y)
        <4>1. Retrying(n, y) => Retrying(n, V2[n])
          BY <3>2, <3>4 DEF Retrying
        <4> QED
          BY <1>3, <2>2, <3>2, <3>4, <3>5, <4>1 DEF Attended
      <3>7. Busies(None, n, V2[n]) => Busies(None, n, y)
        BY <3>2, <3>4 DEF Busies, max_retries_reached
      <3>8. Good(children, live, B, V3, s3, etimer, None)
        BY <1>2, <1>4, <1>a, <3>3, <3>6, <3>7, WriteGood
      <3>9. /\ V3 \in ViewsType
            /\ \A m \in Nodes : V3[m].scan = V2[m].scan
        BY <1>2, <3>2, <3>3 DEF ViewsType
      <3>10. ScansDone(children, live, listeners, V3, s3)
        BY <1>4, <1>a, <3>9 DEF ScansDone
      <3> QED
        BY <3>8, <3>9, <3>10
    <2> QED
      BY <2>1, <2>2
  <1> HIDE DEF V3
  <1>6. s4 \in Sched /\ Keeps(children, live, s3, s4)
    <2>1. Watch(n) \in Events
      BY <1>a DEF Events
    <2>2. Post(s3, Watch(n)) \in Sched
      BY <1>3, <2>1, AppendProperties DEF Post, Sched
    <2>3. Keeps(children, live, s3, Post(s3, Watch(n))) /\ Keeps(children, live, s3, s3)
      BY <1>3, <2>1, PostKeeps DEF Keeps
    <2> QED
      BY <1>3, <2>2, <2>3
  <1>7. n \in A => Heard(children, live, V3, s4, None, n)
    <2>1. CASE attribute_resolver_node_or_child_needs_resolution(n, V3)
      <3>1. PICK m \in live :
              /\ n \in Above[m]
              /\ \/ needs_get(m, V3[m]) /\ ~max_retries_reached(V3[m])
                 \/ needs_set(m, V3[m])
        BY <2>1 DEF attribute_resolver_node_or_child_needs_resolution
      <3>2. Busies(None, m, V3[m])
        BY <3>1 DEF Busies
      <3> QED
        BY <3>1, <3>2 DEF Heard
    <2>2. CASE n \in A /\ ~attribute_resolver_node_or_child_needs_resolution(n, V3)
      <3>1. s4 = Post(s3, Watch(n))
        BY <2>2
      <3>2. Watch(n) \in Events
        BY <1>a DEF Events
      <3>3. HasWatch(s4, n)
        BY <1>3, <1>a, <3>1, <3>2, PostKeeps
      <3> QED
        BY <3>3 DEF Heard
    <2> QED
      BY <2>1, <2>2
  <1> HIDE DEF s4
  <1>8. Keeps(children, live, s4, s5)
    <2>1. NextEvent \in Events
      BY DEF Events
    <2>2. Keeps(children, live, s4, Post(s4, NextEvent)) /\ Keeps(children, live, s4, s4)
      BY <1>6, <2>1, PostKeeps DEF Keeps
    <2> QED
      BY <2>2
  <1> HIDE DEF s5
  <1>9. /\ WorkGood(children, live, V3, s5, etimer, None)
        /\ ScansDone(children, live, listeners, V3, s5)
        /\ HearGood(children, live, B, V3, s5, None)
    <2>1. Keeps(children, live, s3, s5)
      BY <1>6, <1>8, KeepsOn
    <2> QED
      BY <1>5, <1>a, <2>1, KeepGood DEF Good
  <1>10. HearGood(children, live, A, V3, s5, None)
    <2>1. n \in A => Heard(children, live, V3, s5, None, n)
      BY <1>7, <1>8, <1>a DEF Heard, Keeps
    <2> QED
      BY <1>9, <2>1 DEF HearGood, B
  <1>11. \A x : x = [views |-> V3, sched |-> s5] => x.views = V3 /\ x.sched = s5
    OBVIOUS
  <1> QED
    BY <1>0, <1>9, <1>10, <1>11 DEF Good

-----------------------------------------------------------------------------
(* The inductive invariant.                                                *)

\* The listeners that wait: a node with a get rule is left out, because its
\* listener is not called when the get is given up.
Waiting == awaiting \ HasGet

WorkInv ==
  /\ paused = {}
  /\ listeners \subseteq Listenable
  /\ awaiting \subseteq live
  /\ IsTree(children, live)
  /\ Good(children, live, Waiting, Views, CurrentSched, etimer, node_pending)

\* Once the scans are passed on, the records that are stored need not remember
\* which nodes asked for them.
LEMMA StoredGood ==
  ASSUME NEW V \in ViewsType, NEW s \in Sched, StoreViews(V), StoreSched(s),
         NEW ls, NEW A, Waiting' \subseteq A, A \subseteq ls \cap live',
         live' \subseteq Nodes,
         Good(children', live', A, V, s, etimer', node_pending'),
         ScansDone(children', live', ls, V, s)
  PROVE  Good(children', live', Waiting', Views', CurrentSched', etimer',
              node_pending')
  <1> DEFINE W == Views'
             ch == children'
             L == live'
             et == etimer'
             p == node_pending'
  <1>1. CurrentSched' = s
    BY DEF CurrentSched, StoreSched, Sched
  <1>2. ASSUME NEW m \in Nodes
        PROVE  /\ W[m].reported = V[m].reported /\ W[m].desired = V[m].desired
               /\ W[m].get = V[m].get /\ W[m].set = V[m].set /\ W[m].scan = FALSE
    BY DEF Views, StoreViews
  <1> HIDE DEF W, ch, L, et, p
  <1>3. ASSUME NEW m \in Nodes
        PROVE  /\ needs_get(m, W[m]) = needs_get(m, V[m])
               /\ needs_set(m, W[m]) = needs_set(m, V[m])
    BY <1>2 DEF needs_get, needs_set
  <1>4. ASSUME NEW m \in Nodes, m \in L PROVE Attended(ch, s, et, p, m, W[m])
    <2>1. Attended(ch, s, et, p, m, V[m])
      BY <1>4 DEF Good, WorkGood, ch, L, et, p
    <2>2. V[m].scan => Reaches(ch, s, m)
      BY <1>4 DEF ScansDone, ch, L
    <2>3. NeedsScan(m, W[m]) = NeedsScan(m, V[m])
      BY <1>2, <1>3 DEF NeedsScan
    <2>4. Retrying(m, W[m]) = Retrying(m, V[m])
      BY <1>2, <1>3 DEF Retrying
    <2> QED
      BY <1>2, <1>3, <2>1, <2>2, <2>3, <2>4 DEF Attended
  <1>5. WorkGood(ch, L, W, s, et, p)
    BY <1>2, <1>4 DEF Good, WorkGood, ch, L, et, p
  <1>6. ASSUME NEW k \in A PROVE Heard(ch, L, W, s, p, k)
    <2>1. Heard(ch, L, V, s, p, k)
      BY DEF Good, HearGood, ch, L, p
    <2>2. ASSUME NEW m \in L, k \in Above[m], Busies(p, m, V[m])
          PROVE  Reaches(ch, s, k) \/ Busies(p, m, W[m])
      <3>1. V[m].scan => Reaches(ch, s, k)
        BY <2>2 DEF ScansDone, ch, L
      <3>2. m \in Nodes
        BY DEF L
      <3>3. max_retries_reached(W[m]) = max_retries_reached(V[m])
        BY <1>2, <3>2 DEF max_retries_reached
      <3> QED
        BY <1>3, <2>2, <3>1, <3>2, <3>3 DEF Busies
    <2> QED
      BY <2>1, <2>2 DEF Heard
  <1>7. HearGood(ch, L, Waiting', W, s, p)
    BY <1>6 DEF HearGood
  <1> QED
    BY <1>1, <1>5, <1>7 DEF Good, W, ch, L, et, p

\* A step that leaves the tree as it is.
LEMMA StepWork ==
  ASSUME WorkInv, NEW V \in ViewsType, NEW s \in Sched,
         StoreViews(V), StoreSched(s), UNCHANGED treeVars,
         paused' = {}, listeners' \subseteq Listenable, awaiting' \subseteq live,
         NEW ls, NEW A, Waiting' \subseteq A, A \subseteq ls \cap live,
         Good(children, live, A, V, s, etimer', node_pending'),
         ScansDone(children, live, ls, V, s)
  PROVE  WorkInv'
  <1>1. children' = children /\ live' = live
    BY DEF treeVars, live
  <1>2. IsTree(children, live) /\ live \subseteq Nodes
    BY DEF WorkInv, IsTree
  <1>3. /\ A \subseteq ls \cap live' /\ live' \subseteq Nodes
        /\ Good(children', live', A, V, s, etimer', node_pending')
        /\ ScansDone(children', live', ls, V, s)
    BY <1>1, <1>2
  <1>4. Good(children', live', Waiting', Views', CurrentSched', etimer', node_pending')
    BY <1>3, StoredGood
  <1>5. IsTree(children', live') /\ awaiting' \subseteq live'
    BY <1>1, <1>2
  <1> QED
    BY <1>4, <1>5 DEF WorkInv

\* What the handlers start from.
LEMMA FromWork ==
  ASSUME IInv, WorkInv
  PROVE  /\ Views \in ViewsType /\ CurrentSched \in Sched
         /\ AwakeSched(CurrentSched, ~Busy /\ ~scanning)
         /\ \A m \in Nodes : ~Views[m].scan
         /\ live \subseteq Nodes /\ Waiting \subseteq listeners \cap live
         /\ \A ls, s : ScansDone(children, live, ls, Views, s)
  <1>1. \A m \in Nodes : ~Views[m].scan
    BY DEF Views
  <1>2. live \subseteq Nodes
    BY DEF WorkInv, IsTree
  <1>3. \A ls, s : ScansDone(children, live, ls, Views, s)
    BY <1>1, <1>2 DEF ScansDone
  <1>4. Waiting \subseteq listeners \cap live
    BY DEF Waiting, WorkInv, IInv, ClientInv
  <1> QED
    BY <1>1, <1>2, <1>3, <1>4, FromState

-----------------------------------------------------------------------------
(* The calls of the application.                                           *)

\* An update of the attributes, with the scans it asks for.
LEMMA UpdateWork ==
  ASSUME IInv, WorkInv, NEW V \in ViewsType,
         Good(children, live, Waiting, V, CurrentSched, etimer, node_pending),
         UpdateAttributes(V), UNCHANGED <<treeVars, clientVars, etimer, node_pending>>
  PROVE  WorkInv'
  <1> DEFINE s == scan_node(CurrentSched, ScansOf(V))
  <1>1. /\ StoreViews(V) /\ StoreSched(s) /\ UNCHANGED treeVars
        /\ paused' = paused /\ listeners' = listeners /\ awaiting' = awaiting
        /\ etimer' = etimer /\ node_pending' = node_pending
    BY DEF UpdateAttributes, clientVars
  <1>2. Waiting' = Waiting
    BY <1>1 DEF Waiting
  <1>3. /\ IsTree(children, live) /\ paused' = {} /\ listeners' \subseteq Listenable
        /\ awaiting' \subseteq live
    BY <1>1 DEF WorkInv
  <1>4. s \in Sched /\ Keeps(children, live, CurrentSched, s)
    BY FromWork, ScanNode, ScanNodeKeeps
  <1>5. ScansDone(children, live, listeners, V, s)
    BY <1>3, FromWork, ScanDoes
  <1> HIDE DEF s
  <1>6. Good(children, live, Waiting, V, s, etimer, node_pending)
    BY <1>4, FromWork, KeepGood DEF Good
  <1> QED
    BY <1>1, <1>2, <1>3, <1>4, <1>5, <1>6, FromWork, StepWork

\* A call that asks for a scan of the node it is about: whatever the call needs
\* of that node is attended to by the scan.
LEMMA ScannedWork ==
  ASSUME IInv, WorkInv, NEW n \in live, NEW V \in ViewsType,
         \A m \in Nodes : ~V[m].scan /\ (m # n => V[m] = Views[m]),
         StoreViews(V), StoreSched(scan_node(CurrentSched, {n})),
         V[n].reported = Views[n].reported, V[n].desired = Views[n].desired,
         V[n].get = Views[n].get \/ V[n].get = None,
         UNCHANGED <<treeVars, etimer, node_pending>>,
         paused' = {}, listeners' \subseteq Listenable, awaiting' \subseteq live,
         Waiting' \subseteq Waiting \cup {n}
  PROVE  WorkInv'
  <1> DEFINE s == scan_node(CurrentSched, {n})
             A == Waiting \cup {n}
             ls == listeners \cup {n}
  <1>1. /\ IsTree(children, live) /\ n \in Nodes /\ live \subseteq Nodes
        /\ Good(children, live, Waiting, Views, CurrentSched, etimer, node_pending)
        /\ etimer' = etimer /\ node_pending' = node_pending
    BY FromWork DEF WorkInv
  <1>2. Views \in ViewsType /\ Views[n] \in NodeView /\ V[n] \in NodeView
    BY <1>1, FromWork DEF ViewsType
  <1>3. s \in Sched /\ Keeps(children, live, CurrentSched, s)
    BY FromWork, ScanNode, ScanNodeKeeps
  <1>4. Reaches(children, s, n)
    <2>1. IsPath(CurrentSched.stack) /\ n \in Above[n]
      BY <1>1, FromWork, AboveNodes DEF AwakeSched
    <2> QED
      BY <1>1, <2>1, FromWork, ScanNodeReaches
  <1> HIDE DEF s
  <1>5. /\ WorkGood(children, live, Views, s, etimer, node_pending)
        /\ HearGood(children, live, Waiting, Views, s, node_pending)
    BY <1>1, <1>3, FromWork, KeepGood DEF Good
  <1>6. /\ V[n].reported = Views[n].reported /\ V[n].desired = Views[n].desired
        /\ V[n].get = Views[n].get \/ V[n].get = None
    OBVIOUS
  <1>7. /\ needs_get(n, V[n]) = needs_get(n, Views[n])
        /\ needs_set(n, V[n]) = needs_set(n, Views[n])
    BY <1>6 DEF needs_get, needs_set
  <1>8. ASSUME NEW m \in live
        PROVE  Attended(children, s, etimer, node_pending, m, V[m])
    <2>1. Attended(children, s, etimer, node_pending, m, Views[m])
      BY <1>5 DEF WorkGood
    <2>2. CASE m # n
      BY <1>1, <2>1, <2>2
    <2>3. CASE m = n
      <3>1. Retrying(n, V[n]) => Retrying(n, Views[n]) /\ V[n].get = Views[n].get
        BY <1>6, <1>7 DEF Retrying
      <3>2. V[n].get # None => needs_get(n, V[n])
        BY <1>6, <1>7, <2>1, <2>3 DEF Attended
      <3>3. ~Views[n].scan
        BY <1>1, FromWork
      <3>4. Attended(children, s, etimer, node_pending, n, V[n])
        BY <1>4, <2>1, <2>3, <3>1, <3>2, <3>3 DEF Attended
      <3> QED
        BY <2>3, <3>4
    <2> QED
      BY <2>2, <2>3
  <1>9. WorkGood(children, live, V, s, etimer, node_pending)
    BY <1>5, <1>8 DEF WorkGood
  <1>10. ASSUME NEW m \in live, Busies(node_pending, m, Views[m])
         PROVE  Busies(node_pending, m, V[m])
    <2>1. ~Views[m].scan /\ m \in Nodes
      BY <1>1, FromWork
    <2>2. CASE m # n
      BY <1>10, <2>1, <2>2
    <2>3. CASE m = n
      <3>1. max_retries_reached(V[n]) => max_retries_reached(Views[n])
        BY <1>6 DEF max_retries_reached
      <3> QED
        BY <1>7, <1>10, <2>1, <2>3, <3>1 DEF Busies
    <2> QED
      BY <2>2, <2>3
  <1>11. ASSUME NEW k \in A PROVE Heard(children, live, V, s, node_pending, k)
    <2>1. CASE k = n
      BY <1>4, <2>1 DEF Heard
    <2>2. CASE k \in Waiting
      <3>1. Heard(children, live, Views, s, node_pending, k)
        BY <1>5, <2>2 DEF HearGood
      <3> QED
        BY <1>10, <3>1 DEF Heard
    <2> QED
      BY <2>1, <2>2
  <1>12. Good(children, live, A, V, s, etimer', node_pending')
    BY <1>1, <1>9, <1>11 DEF Good, HearGood
  <1>13. ScansDone(children, live, ls, V, s)
    BY <1>1 DEF ScansDone
  <1>14. A \subseteq ls \cap live
    BY FromWork
  <1>15. StoreSched(s) /\ UNCHANGED treeVars
    BY DEF s
  <1> HIDE DEF A, ls
  <1>16. Waiting' \subseteq A
    BY DEF A
  <1> QED
    BY <1>3, <1>12, <1>13, <1>14, <1>15, <1>16, StepWork

\* Every call of the application but the creation of a node.
LEMMA ApiWork ==
  ASSUME Undisturbed, IInv, WorkInv, NEW n \in Nodes,
         \/ \E v \in Values \cup {Undef} : ReportedWritten(n, v) \/ DesiredWritten(n, v)
         \/ Pause(n) \/ Resume(n) \/ SetListener(n) \/ ClearListener(n)
         \/ RestartSet(n) \/ RestartGet(n)
  PROVE  WorkInv'
  <1>1. /\ Views \in ViewsType /\ \A m \in Nodes : ~Views[m].scan
        /\ Waiting \subseteq listeners \cap live /\ live \subseteq Nodes
        /\ Good(children, live, Waiting, Views, CurrentSched, etimer, node_pending)
        /\ paused = {} /\ listeners \subseteq Listenable /\ awaiting \subseteq live
    BY FromWork DEF WorkInv
  <1>2. Call /\ UNCHANGED treeVars /\ etimer' = etimer /\ node_pending' = node_pending
    BY DEF ReportedWritten, DesiredWritten, Pause, Resume, SetListener,
       ClearListener, RestartSet, RestartGet, Call, ruleVars
  <1>3. ASSUME NEW v \in Values \cup {Undef}, ReportedWritten(n, v)
        PROVE  WorkInv'
    <2> DEFINE V == [Views EXCEPT ![n] = SetReported(n, Views[n], v)]
    <2>1. UpdateAttributes(V) /\ UNCHANGED clientVars /\ n \in live
      BY <1>3 DEF ReportedWritten
    <2>2. V \in ViewsType /\ Good(children, live, Waiting, V, CurrentSched, etimer, node_pending)
      BY <1>1, <2>1, ReportedGood
    <2> HIDE DEF V
    <2> QED
      BY <1>2, <2>1, <2>2, UpdateWork
  <1>4. ASSUME NEW v \in Values \cup {Undef}, DesiredWritten(n, v)
        PROVE  WorkInv'
    <2> DEFINE V == [Views EXCEPT ![n] = SetDesired(n, Views[n], v)]
    <2>1. UpdateAttributes(V) /\ UNCHANGED clientVars /\ n \in live
      BY <1>4 DEF DesiredWritten
    <2>2. V \in ViewsType /\ Good(children, live, Waiting, V, CurrentSched, etimer, node_pending)
      BY <1>1, <2>1, DesiredGood
    <2> HIDE DEF V
    <2> QED
      BY <1>2, <2>1, <2>2, UpdateWork
  <1>5. CASE Pause(n) \/ Resume(n)
    BY <1>5 DEF Pause, Resume, Undisturbed
  <1>6. CASE SetListener(n)
    <2>1. /\ n \in live /\ n \in Listenable /\ UNCHANGED attrVars /\ paused' = paused
          /\ listeners' = listeners \cup {n} /\ awaiting' = awaiting \cup {n}
          /\ StoreSched(scan_node(CurrentSched, {n}))
      BY <1>6 DEF SetListener
    <2>2. StoreViews(Views)
      BY <2>1, SameViews
    <2>3. Waiting' \subseteq Waiting \cup {n}
      BY <2>1 DEF Waiting
    <2>4. paused' = {} /\ listeners' \subseteq Listenable /\ awaiting' \subseteq live
      BY <1>1, <2>1
    <2> QED
      BY <1>1, <1>2, <2>1, <2>2, <2>3, <2>4, ScannedWork
  <1>7. CASE ClearListener(n)
    <2>1. /\ UNCHANGED attrVars /\ UNCHANGED schedVars /\ paused' = paused
          /\ listeners' = listeners \ {n} /\ awaiting' = awaiting \ {n}
      BY <1>7 DEF ClearListener
    <2>2. StoreViews(Views) /\ StoreSched(CurrentSched)
      BY <2>1, SameViews, SameSched
    <2>3. /\ Waiting' \subseteq Waiting /\ paused' = {}
          /\ listeners' \subseteq Listenable /\ awaiting' \subseteq live
      BY <1>1, <2>1 DEF Waiting
    <2>4. /\ CurrentSched \in Sched
          /\ ScansDone(children, live, listeners, Views, CurrentSched)
      BY FromWork
    <2> QED
      BY <1>1, <1>2, <2>2, <2>3, <2>4, StepWork
  <1>8. CASE RestartSet(n)
    <2> DEFINE V == [Views EXCEPT ![n].set = "none"]
    <2>1. /\ n \in live /\ StoreViews(V) /\ paused' = paused \ {n}
          /\ listeners' = listeners /\ awaiting' = awaiting
          /\ StoreSched(scan_node(CurrentSched, {n}))
      BY <1>8 DEF RestartSet
    <2>2. /\ V \in ViewsType
          /\ V[n].reported = Views[n].reported /\ V[n].desired = Views[n].desired
          /\ V[n].get = Views[n].get /\ V[n].scan = Views[n].scan
          /\ \A m \in Nodes : m # n => V[m] = Views[m]
      BY <1>1 DEF ViewsType, NodeView
    <2>3. /\ Waiting' \subseteq Waiting \cup {n}
          /\ paused' = {} /\ listeners' \subseteq Listenable /\ awaiting' \subseteq live
      BY <1>1, <2>1 DEF Waiting
    <2> HIDE DEF V
    <2>4. \A m \in Nodes : ~V[m].scan /\ (m # n => V[m] = Views[m])
      BY <1>1, <2>2
    <2> QED
      BY <1>2, <2>1, <2>2, <2>3, <2>4, ScannedWork
  <1>9. CASE RestartGet(n)
    <2> DEFINE V == [Views EXCEPT ![n].get = None]
    <2>1. /\ n \in live /\ StoreViews(V) /\ UNCHANGED clientVars
          /\ StoreSched(scan_node(CurrentSched, {n}))
      BY <1>9 DEF RestartGet
    <2>2. /\ V[n].reported = Views[n].reported /\ V[n].desired = Views[n].desired
          /\ V[n].get = None /\ V[n].scan = Views[n].scan
          /\ \A m \in Nodes : m # n => V[m] = Views[m]
      BY <1>1 DEF ViewsType, NodeView
    <2>3. V \in ViewsType
      BY <1>1, WithGetType
    <2>4. /\ Waiting' \subseteq Waiting \cup {n}
          /\ paused' = {} /\ listeners' \subseteq Listenable /\ awaiting' \subseteq live
      BY <1>1, <2>1 DEF Waiting, clientVars
    <2> HIDE DEF V
    <2>5. \A m \in Nodes : ~V[m].scan /\ (m # n => V[m] = Views[m])
      BY <1>1, <2>2
    <2> QED
      BY <1>2, <2>1, <2>2, <2>3, <2>4, <2>5, ScannedWork
  <1> QED
    BY <1>3, <1>4, <1>5, <1>6, <1>7, <1>8, <1>9

\* The tree after the creation of a node.
LEMMA CreatedTree ==
  ASSUME IInv, IsTree(children, live), NEW n \in Nodes, NodeCreated(n)
  PROVE  /\ live' = live \cup {n} /\ IsTree(children', live')
         /\ \A s \in Sched, m \in Nodes :
               Reaches(children, s, m) => Reaches(children', s, m)
  <1> DEFINE p   == Parent[n]
             old == children[p]
             new == Append(old, n)
  <1>1. /\ n \in fresh /\ p \in live
        /\ children' = [children EXCEPT ![p] = new]
    BY DEF NodeCreated
  <1>2. /\ p \in Nodes /\ old \in Seq(Nodes) /\ TreeInv /\ TreeInv'
        /\ children \in [Nodes -> Seq(Nodes)]
    BY TreeAssumption, NodeCreatedInv DEF IInv, TreeInv
  <1>3. n # Root /\ Parent[n] = p
    BY <1>1, <1>2 DEF TreeInv
  <1>4. /\ Len(new) = Len(old) + 1 /\ Len(old) \in Nat
        /\ \A i \in 1..Len(old) : i \in 1..Len(new) /\ new[i] = old[i]
        /\ Len(new) \in 1..Len(new) /\ new[Len(new)] = n
        /\ \A i \in 1..Len(new) : i \in 1..Len(old) \/ i = Len(new)
    BY <1>2, AppendProperties, LenProperties
  <1> HIDE DEF p, old, new
  <1>5. \A q \in Nodes : children'[q] = IF q = p THEN new ELSE children[q]
    BY <1>1, <1>2
  <1>6. \A q \in Nodes : \A i \in 1..Len(children[q]) :
          i \in 1..Len(children'[q]) /\ children'[q][i] = children[q][i]
    BY <1>4, <1>5 DEF old
  <1>7. \A m : m \in live' <=>
          m = Root \/ (m \in Nodes /\ \E i \in 1..Len(children'[Parent[m]]) :
                                        children'[Parent[m]][i] = m)
    <2>1. \A m \in Nodes : DOMAIN children'[Parent[m]] = 1..Len(children'[Parent[m]])
      BY <1>2, TreeAssumption, LenProperties DEF TreeInv
    <2> QED
      BY <2>1 DEF live
  <1>8. \A m : m \in live <=>
          m = Root \/ (m \in Nodes /\ \E i \in 1..Len(children[Parent[m]]) :
                                        children[Parent[m]][i] = m)
    <2>1. \A m \in Nodes : DOMAIN children[Parent[m]] = 1..Len(children[Parent[m]])
      BY <1>2, TreeAssumption, LenProperties DEF TreeInv
    <2> QED
      BY <2>1 DEF live
  <1>9. \A m \in Nodes : Parent[m] \in Nodes
    BY TreeAssumption
  <1>10. live' = live \cup {n}
    <2>1. ASSUME NEW m, m \in live PROVE m \in live'
      BY <1>6, <1>7, <1>8, <1>9, <2>1
    <2>2. n \in live'
      BY <1>2, <1>3, <1>4, <1>5, <1>7
    <2>3. ASSUME NEW m, m \in live', m # n PROVE m \in live
      <3>1. CASE m = Root
        BY <1>8, <3>1
      <3>2. CASE m # Root
        <4>1. PICK i \in 1..Len(children'[Parent[m]]) : children'[Parent[m]][i] = m
          BY <1>7, <2>3, <3>2
        <4>2. m \in Nodes /\ Parent[m] \in Nodes
          BY <1>7, <1>9, <2>3, <3>2
        <4>3. CASE Parent[m] # p
          BY <1>5, <1>8, <4>1, <4>2, <4>3
        <4>4. CASE Parent[m] = p
          <5>1. i \in 1..Len(old) /\ old[i] = m
            BY <1>4, <1>5, <2>3, <4>1, <4>2, <4>4
          <5> QED
            BY <1>8, <4>2, <4>4, <5>1 DEF old
        <4> QED
          BY <4>3, <4>4
      <3> QED
        BY <3>1, <3>2
    <2> QED
      BY <2>1, <2>2, <2>3
  <1>11. IsTree(children', live')
    <2>1. ASSUME NEW m \in live', m # Root
          PROVE  /\ Parent[m] \in live'
                 /\ \E j \in 1..Len(children'[Parent[m]]) :
                       children'[Parent[m]][j] = m
      <3>1. \E j \in 1..Len(children'[Parent[m]]) : children'[Parent[m]][j] = m
        BY <1>7, <2>1
      <3>2. m # n => m \in live /\ Parent[m] \in live
        BY <1>10, <2>1 DEF IsTree
      <3> QED
        BY <1>1, <1>3, <1>10, <3>1, <3>2
    <2>2. live' \subseteq Nodes
      BY <1>10 DEF IsTree
    <2> QED
      BY <2>1, <2>2 DEF IsTree
  <1>12. ASSUME NEW s \in Sched, NEW m \in Nodes, Reaches(children, s, m)
         PROVE  Reaches(children', s, m)
    <2>1. ASSUME NEW f \in Frames, Passes(children, f, m)
          PROVE  Passes(children', f, m)
      <3>1. f.node \in Nodes
        BY DEF Frames
      <3> QED
        BY <1>6, <2>1, <3>1 DEF Passes
    <2>2. \A i \in 1..Len(s.stack) : s.stack[i] \in Frames
      BY ElementOfSeq DEF Sched
    <2> QED
      BY <1>12, <2>1, <2>2 DEF Reaches
  <1> QED
    BY <1>10, <1>11, <1>12

\* The creation of a node: the callback on it asks for the scan it needs.
LEMMA CreatedWork ==
  ASSUME Undisturbed, IInv, WorkInv, NEW n \in Nodes, NodeCreated(n)
  PROVE  WorkInv'
  <1> DEFINE y == on_resolver_node_update(n, Views[n])
             V == IF n \in HasGet \cup HasSet THEN [Views EXCEPT ![n] = y] ELSE Views
             s == scan_node(CurrentSched, ScansOf(V))
             p == node_pending
  <1>1. /\ StoreViews(V) /\ StoreSched(s) /\ etimer' = etimer /\ node_pending' = p
        /\ paused' = paused /\ listeners' = listeners /\ awaiting' = awaiting
    BY DEF NodeCreated, UpdateAttributes, clientVars, Call, ruleVars
  <1>2. /\ Views \in ViewsType /\ CurrentSched \in Sched
        /\ Waiting \subseteq listeners \cap live /\ live \subseteq Nodes
        /\ WorkGood(children, live, Views, CurrentSched, etimer, p)
        /\ HearGood(children, live, Waiting, Views, CurrentSched, p)
        /\ paused = {} /\ listeners \subseteq Listenable /\ IsTree(children, live)
        /\ awaiting \subseteq live
        /\ \A m \in Nodes : ~Views[m].scan
    BY FromWork DEF WorkInv, Good
  <1>3. /\ live' = live \cup {n} /\ IsTree(children', live')
        /\ \A m \in Nodes : Reaches(children, CurrentSched, m)
                              => Reaches(children', CurrentSched, m)
    BY <1>2, CreatedTree
  <1>4. Views[n] \in NodeView /\ y \in NodeView
    BY <1>2, UpdateType DEF ViewsType
  <1>5. /\ V \in ViewsType /\ V[n] = IF n \in HasGet \cup HasSet THEN y ELSE Views[n]
        /\ \A m \in Nodes : m # n => V[m] = Views[m]
    BY <1>2, <1>4 DEF ViewsType
  <1> HIDE DEF V
  <1>6. \A m \in live : Attended(children', CurrentSched, etimer, p, m, Views[m])
    BY <1>2, <1>3 DEF WorkGood, Attended
  <1>7. Attended(children', CurrentSched, etimer, p, n, Views[n])
          \/ (n \notin live /\ Views[n].get = None)
    BY <1>2, <1>6 DEF WorkGood
  <1>8. Attended(children', CurrentSched, etimer, p, n, V[n])
    <2>1. CASE n \notin HasGet \cup HasSet
      <3>1. V[n] = Views[n] /\ ~needs_get(n, V[n]) /\ ~needs_set(n, V[n])
        BY <1>5, <2>1 DEF needs_get, needs_set
      <3> QED
        BY <1>7, <3>1 DEF Attended, NeedsScan, Retrying
    <2>2. CASE n \in HasGet \cup HasSet /\ Attended(children', CurrentSched, etimer, p, n, Views[n])
      <3> HIDE DEF y
      <3>1. Attended(children', CurrentSched, etimer, p, n, y)
        BY <1>2, <1>4, <2>2, UpdateAttends DEF y
      <3> QED
        BY <1>5, <2>2, <3>1
    <2>3. CASE n \in HasGet \cup HasSet /\ Views[n].get = None
      <3> DEFINE x == Views[n]
      <3>1. y.get = None /\ (NeedsScan(n, y) => y.scan)
        <4> DEFINE z1 == [x EXCEPT
                    !.get = IF ~needs_get(n, x) \/ max_retries_reached(x)
                            THEN None ELSE @,
                    !.set = IF needs_set(n, x) THEN @ ELSE "none"]
        <4>1. /\ y.reported = x.reported /\ y.desired = x.desired
              /\ y.get = IF ~needs_get(n, x) \/ max_retries_reached(x) THEN None ELSE x.get
              /\ y.set = IF needs_set(n, x) THEN x.set ELSE "none"
              /\ is_node_to_be_scanned(n, z1) => y.scan
              /\ z1.get = y.get /\ z1.set = y.set
              /\ z1.reported = y.reported /\ z1.desired = y.desired
          BY <1>4 DEF on_resolver_node_update, NodeView
        <4>2. ~is_node_or_parent_paused(n)
          BY <1>2 DEF is_node_or_parent_paused
        <4> HIDE DEF y, z1
        <4> QED
          BY <2>3, <4>1, <4>2 DEF NeedsScan, is_node_to_be_scanned, needs_get, needs_set
      <3>2. Attended(children', CurrentSched, etimer, p, n, y)
        BY <3>1 DEF Attended, Retrying
      <3> HIDE DEF y
      <3> QED
        BY <1>5, <2>3, <3>2
    <2> QED
      BY <1>7, <2>1, <2>2, <2>3
  <1>9. \A m \in live' : Attended(children', CurrentSched, etimer, p, m, V[m])
    BY <1>2, <1>3, <1>5, <1>6, <1>8
  <1>10. WorkGood(children', live', V, CurrentSched, etimer, p)
    <2>1. OnTree(live', CurrentSched)
      BY <1>2, <1>3 DEF WorkGood, OnTree
    <2>2. \A m \in Nodes \ live' : V[m].get = None
      BY <1>2, <1>3, <1>5 DEF WorkGood
    <2> QED
      BY <1>9, <2>1, <2>2 DEF WorkGood
  <1>11. HearGood(children', live', Waiting, V, CurrentSched, p)
    <2>1. ASSUME NEW m \in live, NEW k \in Waiting, k \in Above[m],
                 Busies(p, m, Views[m])
          PROVE  Busies(p, m, V[m])
      <3>1. CASE m # n
        BY <1>2, <1>5, <2>1, <3>1
      <3>2. CASE m = n /\ n \notin HasGet \cup HasSet
        BY <1>5, <2>1, <3>2
      <3>3. CASE m = n /\ n \in HasGet \cup HasSet
        <4>1. ListenerAbove(n, listeners) # {}
          BY <1>2, <2>1, <3>3, TopListener
        <4>2. y.scan
          BY <1>4, <4>1 DEF on_resolver_node_update, NodeView
        <4> QED
          BY <1>5, <3>3, <4>2 DEF Busies
      <3> QED
        BY <3>1, <3>2, <3>3
    <2>2. ASSUME NEW k \in Waiting PROVE Heard(children', live', V, CurrentSched, p, k)
      <3>1. Heard(children, live, Views, CurrentSched, p, k)
        BY <1>2 DEF HearGood
      <3>2. k \in Nodes
        BY <1>2
      <3> QED
        BY <1>3, <2>1, <3>1, <3>2 DEF Heard
    <2> QED
      BY <2>2 DEF HearGood
  <1>12. s \in Sched /\ Keeps(children', live', CurrentSched, s)
    BY FromWork, ScanNode, ScanNodeKeeps
  <1>13. ScansDone(children', live', listeners, V, s)
    BY <1>3, <1>5, FromWork, ScanDoes
  <1> HIDE DEF s, y
  <1>a. Waiting \subseteq live' /\ live' \subseteq Nodes
    BY <1>2, <1>3
  <1>14. Good(children', live', Waiting, V, s, etimer, p)
    BY <1>a, <1>10, <1>11, <1>12, KeepGood DEF Good
  <1>15. Waiting' = Waiting /\ Waiting \subseteq listeners \cap live'
    BY <1>1, <1>2, <1>3 DEF Waiting
  <1>16. Good(children', live', Waiting, V, s, etimer', node_pending')
    BY <1>1, <1>14
  <1>17. Good(children', live', Waiting', Views', CurrentSched', etimer',
              node_pending')
    BY <1>1, <1>a, <1>5, <1>12, <1>13, <1>15, <1>16, StoredGood
  <1>18. awaiting' \subseteq live'
    BY <1>1, <1>2, <1>3
  <1> QED
    BY <1>1, <1>2, <1>3, <1>17, <1>18 DEF WorkInv

-----------------------------------------------------------------------------
(* The lower layer.                                                        *)

\* What a completion writes leaves nobody out.
LEMMA SentGood ==
  ASSUME Undisturbed, IInv, WorkInv, NEW n \in Nodes, NEW kind, NEW status
  PROVE  Good(children, live, Waiting, SentViews(n, kind, status), CurrentSched,
              etimer, node_pending)
  <1> DEFINE V == SentViews(n, kind, status)
             group == SetGroupNodes(n)
             G(W) == Good(children, live, Waiting, W, CurrentSched, etimer, node_pending)
             Clear(a, x) == SetDesired(a, SetReported(a, x, Undef), Undef)
             Kept(x) == IF x.desired # Undef THEN x.desired ELSE x.reported
             Align(a, x) == SetDesired(a, SetReported(a, x, Kept(x)), Undef)
             Put(y) == [Views EXCEPT ![n] = y]
  <1>1. /\ Views \in ViewsType /\ Waiting \subseteq live \cap listeners
        /\ live \subseteq Nodes /\ G(Views) /\ paused = {}
        /\ Undef \in Values \cup {Undef} /\ Views[n] \in NodeView
    BY FromWork DEF WorkInv, ViewsType
  <1>2. \/ V = [a \in Nodes |-> IF a = n /\ n \in live
                                THEN SetReported(a, Views[a], Undef) ELSE Views[a]]
        \/ V = [a \in Nodes |-> IF a \in group THEN Clear(a, Views[a]) ELSE Views[a]]
        \/ V = [a \in Nodes |-> IF a \in group THEN Align(a, Views[a]) ELSE Views[a]]
        \/ V = [a \in Nodes |-> IF a \in group
                                THEN SetDesired(a, Views[a], Undef) ELSE Views[a]]
        \/ V = Views
    BY DEF SentViews
  <1>3. group = IF n \in live THEN {n} ELSE {}
    BY <1>1 DEF SetGroupNodes, Undisturbed
  <1>4. CASE n \notin live
    <2>1. V = [a \in Nodes |-> Views[a]] \/ V = Views
      BY <1>2, <1>3, <1>4
    <2>2. [a \in Nodes |-> Views[a]] = Views
      BY <1>1 DEF ViewsType
    <2> HIDE DEF V
    <2> QED
      BY <1>1, <2>1, <2>2 DEF V
  <1>5. CASE n \in live
    <2>1. \/ V = Put(SetReported(n, Views[n], Undef))
          \/ V = Put(Clear(n, Views[n]))
          \/ V = Put(Align(n, Views[n]))
          \/ V = Put(SetDesired(n, Views[n], Undef))
          \/ V = Views
      <3> HIDE DEF V
      <3> QED
        BY <1>1, <1>2, <1>3, <1>5 DEF ViewsType
    <2>2. ASSUME NEW u \in Values \cup {Undef}
          PROVE  /\ Put(SetReported(n, Views[n], u)) \in ViewsType
                 /\ G(Put(SetReported(n, Views[n], u)))
      BY <1>1, <1>5, ReportedGood
    <2>3. G(Put(SetDesired(n, Views[n], Undef)))
      BY <1>1, <1>5, DesiredGood
    <2>4. ASSUME NEW u \in Values \cup {Undef}
          PROVE  G(Put(SetDesired(n, SetReported(n, Views[n], u), Undef)))
      <3> DEFINE W == Put(SetReported(n, Views[n], u))
      <3>1. W \in ViewsType /\ G(W)
        BY <2>2
      <3>2. W[n] = SetReported(n, Views[n], u)
        BY <1>1 DEF ViewsType
      <3>3. \A y : [W EXCEPT ![n] = y] = Put(y)
        BY <1>1 DEF ViewsType
      <3> HIDE DEF W, Put
      <3>4. G([W EXCEPT ![n] = SetDesired(n, W[n], Undef)])
        BY <1>1, <1>5, <3>1, DesiredGood
      <3> QED
        BY <3>2, <3>3, <3>4
    <2>5. Kept(Views[n]) \in Values \cup {Undef}
      BY <1>1 DEF NodeView
    <2> HIDE DEF V, Put, G, Kept
    <2>6. G(V)
      BY <1>1, <2>1, <2>2, <2>3, <2>4, <2>5
    <2> QED
      BY <2>6 DEF V, G
  <1> QED
    BY <1>4, <1>5

\* A completion, awaited or late.
LEMMA CompletionWork ==
  ASSUME Undisturbed, IInv, WorkInv, ~scanning, NEW n \in Nodes, NEW kind,
         NEW status, on_resolver_send_data_complete(n, kind, status),
         UNCHANGED <<treeVars, clientVars, etimer>>
  PROVE  WorkInv'
  <1> DEFINE V == SentViews(n, kind, status)
             s == scan_node(CurrentSched, ScansOf(V))
  <1>1. /\ V \in ViewsType
        /\ Good(children, live, Waiting, V, CurrentSched, etimer, node_pending)
    BY SentViewsType, SentGood
  <1>2. CASE node_pending # n
    <2>1. UpdateAttributes(V) /\ node_pending' = node_pending
      BY <1>2 DEF on_resolver_send_data_complete, UpdateAttributes, ruleVars
    <2> HIDE DEF V
    <2> QED
      BY <1>1, <2>1, UpdateWork
  <1>3. CASE node_pending = n
    <2>1. PICK wait \in RetryWaits :
            LET c == on_resolver_rule_execute_complete(n, V, s, wait)
            IN  StoreViews(c.views) /\ StoreSched(c.sched) /\ node_pending' = None
      BY <1>3 DEF on_resolver_send_data_complete
    <2> DEFINE c == on_resolver_rule_execute_complete(n, V, s, wait)
    <2>2. StoreViews(c.views) /\ StoreSched(c.sched) /\ node_pending' = None
      BY <2>1
    <2>3. Busy /\ n \in live
      BY <1>3, ValueAssumption DEF IInv, RuleInv, EngineConsistent
    <2>4. /\ paused = {} /\ paused' = {} /\ listeners' \subseteq Listenable
          /\ awaiting' \subseteq live /\ IsTree(children, live)
          /\ Waiting' = Waiting /\ etimer' = etimer
          /\ Waiting \subseteq live \cap listeners /\ live \subseteq Nodes
      BY FromWork DEF WorkInv, clientVars, Waiting
    <2> HIDE DEF V
    <2>5. /\ s \in Sched /\ AwakeSched(s, FALSE)
          /\ Keeps(children, live, CurrentSched, s)
          /\ ScansDone(children, live, listeners, V, s)
      <3>1. CurrentSched \in Sched /\ AwakeSched(CurrentSched, FALSE)
        BY <2>3, FromState
      <3> QED
        BY <1>1, <2>4, <3>1, ScanNode, ScanNodeKeeps, ScanDoes
    <2> HIDE DEF s
    <2>6. Good(children, live, Waiting, V, s, etimer, n)
      BY <1>1, <1>3, <2>4, <2>5, KeepGood DEF Good
    <2>7. /\ WorkGood(children, live, V, s, etimer, n)
          /\ HearGood(children, live, Waiting \ {n}, V, s, n)
      BY <2>6 DEF Good, HearGood
    <2>8. /\ Good(children, live, Waiting, c.views, c.sched, etimer, None)
          /\ ScansDone(children, live, listeners, c.views, c.sched)
      BY <1>1, <2>3, <2>4, <2>5, <2>7, CompletionGood
    <2>9. c.views \in ViewsType /\ c.sched \in Sched
      BY <1>1, <2>5, RuleComplete
    <2> HIDE DEF c
    <2> QED
      BY <2>2, <2>4, <2>8, <2>9, StepWork
  <1> QED
    BY <1>2, <1>3

\* Every answer of the lower layer, and its silence.
LEMMA LowerLayerWork ==
  ASSUME Undisturbed, IInv, WorkInv, LowerLayer
  PROVE  WorkInv'
  <1>1. ASSUME NEW n \in Nodes, NEW kind \in RuleTypes, NEW status \in Statuses,
               SendDataComplete(n, kind, status)
        PROVE  WorkInv'
    BY <1>1, CompletionWork DEF SendDataComplete
  <1>2. CASE RuleExecutionTimeout
    <2>1. /\ ~scanning /\ Busy
          /\ on_resolver_send_data_complete(node_pending, resolver_state, "FAIL")
          /\ UNCHANGED <<treeVars, clientVars, etimer>>
      BY <1>2 DEF RuleExecutionTimeout, Busy
    <2>2. node_pending \in Nodes
      BY <2>1, RuleAssumption DEF IInv, RuleInv, EngineConsistent
    <2> QED
      BY <2>1, <2>2, CompletionWork
  <1> QED
    BY <1>1, <1>2 DEF LowerLayer

-----------------------------------------------------------------------------
(* The scan loop.                                                          *)

\* The node whose children were all visited leaves the stack: nobody else is
\* left out by that.
LEMMA PoppedReaches ==
  ASSUME IInv, WorkInv, NEW n, NodeReached(n)
  PROVE  /\ OnTree(live, PoppedSched)
         /\ \A m \in live : m # n /\ Reaches(children, CurrentSched, m)
                              => Reaches(children, PoppedSched, m)
         /\ HasTimer(CurrentSched) => HasTimer(PoppedSched)
         /\ \A m \in Nodes : HasWatch(CurrentSched, m) => HasWatch(PoppedSched, m)
  <1>1. scanning /\ stack # <<>> /\ n \in Nodes
    BY ReachedNode
  <1>2. /\ stack \in Seq(Frames) /\ Len(stack) \in Nat \ {0}
        /\ Popped \in Seq(Frames) /\ Len(Popped) = Len(stack) - 1
        /\ \A i \in 1..Len(Popped) : Popped[i] = stack[i]
        /\ Top \in Frames
    BY <1>1, PopStack
  <1>3. /\ CurrentSched.stack = stack /\ CurrentSched.requested = scan_requested
        /\ CurrentSched.queue = queue /\ PoppedSched.stack = Popped
        /\ PoppedSched.requested = scan_requested /\ PoppedSched.queue = queue
    BY DEF PoppedSched, CurrentSched
  <1>4. ~scan_requested
    BY <1>1 DEF IInv, SchedInv, OneScan
  <1>5. Top.node = n /\ TopIndex = Len(children[n]) /\ Len(children[n]) \in Nat
        /\ Top.index \in Nat
    BY <1>1, <1>2, LenProperties DEF NodeReached, IInv, TreeInv, Frames
  <1>6. \A j \in 1..Len(children[n]) : ~(j > Top.index)
    BY <1>5 DEF TopIndex
  <1>7. ASSUME NEW m \in live, m # n, Reaches(children, CurrentSched, m)
        PROVE  Reaches(children, PoppedSched, m)
    <2>1. PICK i \in 1..Len(stack) : Passes(children, stack[i], m)
      BY <1>3, <1>4, <1>7 DEF Reaches
    <2>2. CASE i = Len(stack)
      <3>1. Passes(children, Top, m)
        BY <2>1, <2>2 DEF Top
      <3> QED
        BY <1>5, <1>6, <1>7, <3>1 DEF Passes
    <2>3. CASE i # Len(stack)
      <3>1. i \in 1..Len(Popped) /\ Passes(children, Popped[i], m)
        BY <1>2, <2>1, <2>3
      <3> QED
        BY <1>3, <3>1 DEF Reaches
    <2> QED
      BY <2>2, <2>3
  <1>8. OnTree(live, PoppedSched)
    <2>1. OnTree(live, CurrentSched)
      BY DEF WorkInv, Good, WorkGood
    <2>2. \A i \in 1..Len(Popped) : i \in 1..Len(stack)
      BY <1>2
    <2> QED
      BY <1>2, <1>3, <2>1, <2>2 DEF OnTree
  <1> QED
    BY <1>3, <1>7, <1>8 DEF HasTimer, HasWatch

\* What the rule of the node makes of its record is all that counts.
LEMMA PoppedGood ==
  ASSUME IInv, WorkInv, NEW n, NodeReached(n),
         NEW y \in NodeView, NEW p \in {None, n},
         Attended(children, PoppedSched, etimer, p, n, y),
         ListenerAbove(n, listeners) # {} /\ Busies(None, n, Views[n])
           => Busies(p, n, y)
  PROVE  LET W == [Views EXCEPT ![n] = y]
         IN  /\ W \in ViewsType
             /\ W[n] = y /\ \A m \in Nodes : m # n => W[m] = Views[m]
             /\ WorkGood(children, live, W, PoppedSched, etimer, p)
             /\ HearGood(children, live, Waiting \ {n}, W, PoppedSched, p)
  <1> DEFINE W == [Views EXCEPT ![n] = y]
  <1>1. /\ n \in live /\ n \in Nodes /\ live \subseteq Nodes /\ node_pending = None
        /\ Views \in ViewsType /\ Waiting \subseteq listeners \cap live
    BY FromWork, ReachedNode
  <1>2. /\ W[n] = y /\ \A m \in Nodes : m # n => W[m] = Views[m]
        /\ W \in ViewsType
    BY <1>1 DEF ViewsType
  <1> HIDE DEF W
  <1>3. /\ WorkGood(children, live, Views, CurrentSched, etimer, None)
        /\ HearGood(children, live, Waiting, Views, CurrentSched, None)
    BY <1>1 DEF WorkInv, Good
  <1>4. ASSUME NEW m \in live, m # n
        PROVE  Attended(children, PoppedSched, etimer, p, m, W[m])
    <2>1. Attended(children, CurrentSched, etimer, None, m, Views[m])
      BY <1>3 DEF WorkGood
    <2>2. /\ Reaches(children, CurrentSched, m) => Reaches(children, PoppedSched, m)
          /\ TimerOn(CurrentSched, etimer) => TimerOn(PoppedSched, etimer)
      BY <1>4, PoppedReaches DEF TimerOn
    <2>3. m # None
      BY <1>1, ValueAssumption
    <2> QED
      BY <1>1, <1>2, <1>4, <2>1, <2>2, <2>3 DEF Attended
  <1>5. WorkGood(children, live, W, PoppedSched, etimer, p)
    <2>1. OnTree(live, PoppedSched)
      BY PoppedReaches
    <2>2. \A m \in Nodes \ live : W[m].get = None
      BY <1>1, <1>2, <1>3 DEF WorkGood
    <2> QED
      BY <1>1, <1>2, <1>4, <2>1, <2>2 DEF WorkGood
  <1>6. ASSUME NEW k \in Waiting, k # n
        PROVE  Heard(children, live, W, PoppedSched, p, k)
    <2>1. Heard(children, live, Views, CurrentSched, None, k)
      BY <1>3 DEF HearGood
    <2>2. /\ Reaches(children, CurrentSched, k) => Reaches(children, PoppedSched, k)
          /\ HasWatch(CurrentSched, k) => HasWatch(PoppedSched, k)
      BY <1>1, <1>6, PoppedReaches
    <2>3. ASSUME NEW m \in live, k \in Above[m], Busies(None, m, Views[m])
          PROVE  Busies(p, m, W[m])
      <3>1. CASE m # n
        <4>1. m # None
          BY <1>1, ValueAssumption
        <4> QED
          BY <1>1, <1>2, <2>3, <3>1, <4>1 DEF Busies
      <3>2. CASE m = n
        <4>1. ListenerAbove(n, listeners) # {}
          BY <1>1, <2>3, <3>2, TopListener
        <4> QED
          BY <1>2, <2>3, <3>2, <4>1
      <3> QED
        BY <3>1, <3>2
    <2> QED
      BY <2>1, <2>2, <2>3 DEF Heard
  <1>7. HearGood(children, live, Waiting \ {n}, W, PoppedSched, p)
    BY <1>6 DEF HearGood
  <1> QED
    BY <1>2, <1>5, <1>7 DEF W

\* The scan moves on past the node, or waits for the frame that was sent for it.
LEMMA PassedWork ==
  ASSUME IInv, WorkInv, NEW n, NodeReached(n),
         NEW y \in NodeView, NEW p \in {None, n},
         Attended(children, PoppedSched, etimer, p, n, y),
         Busies(None, n, Views[n]) => Busies(p, n, y),
         ~y.scan, n \in HasGet \/ Busies(p, n, y),
         StoreViews([Views EXCEPT ![n] = y]), StoreSched(PoppedSched),
         node_pending' = p, UNCHANGED <<treeVars, clientVars, etimer>>
  PROVE  WorkInv'
  <1> DEFINE W == [Views EXCEPT ![n] = y]
  <1>1. /\ n \in live /\ n \in Nodes /\ live \subseteq Nodes
        /\ Waiting \subseteq listeners \cap live
        /\ \A m \in Nodes : ~Views[m].scan
    BY FromWork, ReachedNode
  <1>2. PoppedSched \in Sched
    BY ReachedNode, PopStack
  <1>3. /\ W \in ViewsType
        /\ W[n] = y /\ \A m \in Nodes : m # n => W[m] = Views[m]
        /\ WorkGood(children, live, W, PoppedSched, etimer, p)
        /\ HearGood(children, live, Waiting \ {n}, W, PoppedSched, p)
    BY PoppedGood
  <1>4. StoreViews(W)
    OBVIOUS
  <1> HIDE DEF W
  <1>5. n \in Waiting => Heard(children, live, W, PoppedSched, p, n)
    <2>1. n \in Above[n]
      BY <1>1, AboveNodes
    <2> QED
      BY <1>1, <1>3, <2>1 DEF Heard, Waiting
  <1>6. Good(children, live, Waiting, W, PoppedSched, etimer', node_pending')
    BY <1>3, <1>5 DEF Good, HearGood
  <1>7. \A m \in Nodes : ~W[m].scan
    BY <1>1, <1>3
  <1>8. ScansDone(children, live, listeners, W, PoppedSched)
    BY <1>1, <1>7 DEF ScansDone
  <1>9. /\ Waiting' = Waiting /\ UNCHANGED treeVars
        /\ paused' = {} /\ listeners' \subseteq Listenable /\ awaiting' \subseteq live
    BY DEF Waiting, clientVars, WorkInv
  <1> QED
    BY <1>1, <1>2, <1>3, <1>4, <1>6, <1>8, <1>9, StepWork

\* The node is complete without a frame.
LEMMA CompletedWork ==
  ASSUME Undisturbed, IInv, WorkInv, NEW n, NodeReached(n),
         NEW y \in NodeView,
         Attended(children, PoppedSched, etimer, n, n, y),
         ListenerAbove(n, listeners) # {} /\ Busies(None, n, Views[n])
           => Busies(n, n, y),
         NEW s \in Sched, AwakeSched(s, FALSE),
         Keeps(children, live, PoppedSched, s),
         ScansDone(children, live, listeners, [Views EXCEPT ![n] = y], s),
         CompleteWithoutFrame(n, [Views EXCEPT ![n] = y], s),
         UNCHANGED <<treeVars, clientVars, etimer>>
  PROVE  WorkInv'
  <1> DEFINE W == [Views EXCEPT ![n] = y]
  <1>1. /\ n \in live /\ n \in Nodes /\ live \subseteq Nodes /\ node_pending = None
        /\ Waiting \subseteq listeners \cap live
        /\ IsTree(children, live) /\ paused = {}
    BY FromWork, ReachedNode DEF WorkInv
  <1>2. /\ W \in ViewsType
        /\ WorkGood(children, live, W, PoppedSched, etimer, n)
        /\ HearGood(children, live, Waiting \ {n}, W, PoppedSched, n)
    BY PoppedGood
  <1>3. /\ CompleteWithoutFrame(n, W, s)
        /\ ScansDone(children, live, listeners, W, s)
    OBVIOUS
  <1> HIDE DEF W
  <1>4. /\ WorkGood(children, live, W, s, etimer, n)
        /\ HearGood(children, live, Waiting \ {n}, W, s, n)
    <2> DEFINE B == Waiting \ {n}
    <2>1. B \subseteq live
      BY <1>1
    <2>2. HearGood(children, live, B, W, PoppedSched, n)
      BY <1>2
    <2> HIDE DEF B
    <2>3. /\ WorkGood(children, live, W, s, etimer, n)
          /\ HearGood(children, live, B, W, s, n)
      BY <1>1, <1>2, <2>1, <2>2, KeepGood
    <2> QED
      BY <2>3 DEF B
  <1>5. PICK wait \in RetryWaits :
          LET c == on_resolver_rule_execute_complete(n, W, s, wait)
          IN  StoreViews(c.views) /\ StoreSched(c.sched)
    BY <1>3 DEF CompleteWithoutFrame
  <1> DEFINE c == on_resolver_rule_execute_complete(n, W, s, wait)
  <1>6. StoreViews(c.views) /\ StoreSched(c.sched)
    BY <1>5
  <1>7. /\ Good(children, live, Waiting, c.views, c.sched, etimer, None)
        /\ ScansDone(children, live, listeners, c.views, c.sched)
    BY <1>1, <1>2, <1>3, <1>4, CompletionGood
  <1>8. c.views \in ViewsType /\ c.sched \in Sched
    BY <1>1, <1>2, RuleComplete
  <1>9. node_pending' = None /\ etimer' = etimer
    BY <1>1 DEF CompleteWithoutFrame, ruleVars
  <1>10. /\ Waiting' = Waiting /\ UNCHANGED treeVars
         /\ paused' = {} /\ listeners' \subseteq Listenable /\ awaiting' \subseteq live
    BY DEF Waiting, clientVars, WorkInv
  <1>11. Waiting \subseteq listeners \cap live
    BY <1>1
  <1> HIDE DEF c
  <1> QED
    BY <1>6, <1>7, <1>8, <1>9, <1>10, <1>11, StepWork

\* A step that leaves the records of the nodes and the clients alone, and takes
\* nothing away from what the scan has in store.
LEMMA KeptWork ==
  ASSUME IInv, WorkInv, NEW s \in Sched, Keeps(children, live, CurrentSched, s),
         UNCHANGED <<treeVars, attrVars, ruleVars, clientVars, etimer>>,
         StoreSched(s)
  PROVE  WorkInv'
  <1>1. /\ Views \in ViewsType /\ live \subseteq Nodes
        /\ Waiting \subseteq listeners \cap live
        /\ ScansDone(children, live, listeners, Views, s)
    BY FromWork
  <1>2. Good(children, live, Waiting, Views, CurrentSched, etimer, node_pending)
    BY DEF WorkInv
  <1>3. Good(children, live, Waiting, Views, s, etimer, node_pending)
    BY <1>1, <1>2, KeepGood DEF Good
  <1>4. etimer' = etimer /\ node_pending' = node_pending
    BY DEF ruleVars
  <1>5. StoreViews(Views)
    BY SameViews
  <1>6. /\ Waiting' = Waiting /\ UNCHANGED treeVars
        /\ paused' = {} /\ listeners' \subseteq Listenable /\ awaiting' \subseteq live
    BY DEF Waiting, clientVars, WorkInv
  <1> QED
    BY <1>1, <1>3, <1>4, <1>5, <1>6, StepWork

\* The scan goes down to the next child, which exists.
LEMMA VisitWork ==
  ASSUME IInv, WorkInv, VisitChild
  PROVE  WorkInv'
  <1> DEFINE kid == children[Top.node][TopIndex + 1]
             f   == [node |-> Top.node, index |-> TopIndex + 1]
             g   == [node |-> kid, index |-> 0]
             st  == Append(Popped, f)
             up  == Append(st, g)
             s   == [stack |-> stack', requested |-> scan_requested, queue |-> queue]
  <1>1. /\ scanning /\ stack # <<>> /\ stack' = up /\ Top.node \in live
        /\ TopIndex < Len(children[Top.node])
        /\ UNCHANGED <<treeVars, attrVars, ruleVars, clientVars, etimer>>
        /\ scan_requested' = scan_requested /\ queue' = queue
    BY DEF VisitChild
  <1>2. /\ stack \in Seq(Frames) /\ Len(stack) \in Nat \ {0}
        /\ Popped \in Seq(Frames) /\ Len(Popped) = Len(stack) - 1
        /\ \A i \in 1..Len(Popped) : Popped[i] = stack[i]
        /\ Top \in Frames
    BY <1>1, PopStack
  <1>3. /\ IsTree(children, live) /\ live \subseteq Nodes /\ OnTree(live, CurrentSched)
        /\ CurrentSched \in Sched /\ ~scan_requested
    BY <1>1, FromWork DEF WorkInv, Good, WorkGood, IInv, SchedInv, OneScan
  <1>4. /\ Top.node \in Nodes /\ children[Top.node] \in Seq(Nodes)
        /\ Top.index \in Nat /\ Len(children[Top.node]) \in Nat
        /\ DOMAIN children[Top.node] = 1..Len(children[Top.node])
    BY <1>2, LenProperties DEF Frames, IInv, TreeInv
  <1>5. TopIndex \in Nat /\ TopIndex + 1 \in 1..Len(children[Top.node])
    BY <1>1, <1>4 DEF TopIndex
  <1>6. kid \in Nodes /\ kid # Root /\ Parent[kid] = Top.node
    BY <1>4, <1>5, ElementOfSeq DEF IInv, TreeInv
  <1>7. kid \in live
    BY <1>4, <1>5, <1>6 DEF live
  <1>8. f \in Frames /\ g \in Frames
    BY <1>4, <1>5, <1>6 DEF Frames
  <1>9. f.node = Top.node /\ f.index = TopIndex + 1 /\ g.node = kid /\ g.index = 0
    OBVIOUS
  <1> HIDE DEF f, g, kid
  <1>10. /\ st \in Seq(Frames) /\ Len(st) = Len(stack)
         /\ \A i \in 1..Len(Popped) : st[i] = stack[i]
         /\ st[Len(stack)] = f
    <2>1. /\ st \in Seq(Frames) /\ Len(st) = Len(Popped) + 1
          /\ \A i \in 1..Len(Popped) : st[i] = Popped[i]
          /\ st[Len(Popped) + 1] = f
      BY <1>2, <1>8, AppendProperties
    <2>2. Len(Popped) + 1 = Len(stack)
      BY <1>2
    <2> QED
      BY <1>2, <2>1, <2>2
  <1> HIDE DEF st
  <1>11. /\ up \in Seq(Frames) /\ Len(up) = Len(stack) + 1
         /\ \A i \in 1..Len(stack) : up[i] = st[i]
         /\ up[Len(stack) + 1] = g
    BY <1>8, <1>10, AppendProperties
  <1> HIDE DEF up
  <1>12. /\ s.stack = up /\ s.requested = scan_requested /\ s.queue = queue
         /\ CurrentSched.stack = stack /\ CurrentSched.requested = scan_requested
         /\ CurrentSched.queue = queue
    BY <1>1 DEF CurrentSched
  <1>13. s \in Sched
    BY <1>1, <1>3, <1>11, <1>12 DEF Sched, CurrentSched
  <1>14. StoreSched(s)
    BY <1>1 DEF StoreSched
  <1> HIDE DEF s
  <1>15. ASSUME NEW i \in 1..Len(up)
         PROVE  \/ i \in 1..Len(Popped) /\ i \in 1..Len(stack) /\ up[i] = stack[i]
                \/ i = Len(stack) /\ up[i] = f
                \/ i = Len(stack) + 1 /\ up[i] = g
    <2>1. CASE i \in 1..Len(Popped)
      <3>1. i \in 1..Len(stack)
        BY <1>2, <2>1
      <3> QED
        BY <1>10, <1>11, <2>1, <3>1
    <2>2. CASE i = Len(stack)
      <3>1. i \in 1..Len(stack)
        BY <1>2, <2>2
      <3> QED
        BY <1>10, <1>11, <2>2, <3>1
    <2>3. CASE i = Len(stack) + 1
      BY <1>11, <2>3
    <2> QED
      BY <1>2, <1>11, <2>1, <2>2, <2>3
  <1>16. OnTree(live, s)
    BY <1>1, <1>3, <1>7, <1>9, <1>12, <1>15 DEF OnTree
  <1>17. /\ \A i \in 1..Len(Popped) : i \in 1..Len(up) /\ up[i] = stack[i]
         /\ Len(stack) \in 1..Len(up) /\ up[Len(stack)] = f
         /\ Len(stack) + 1 \in 1..Len(up) /\ up[Len(stack) + 1] = g
    <2>1. /\ Len(stack) \in 1..Len(stack)
          /\ \A i \in 1..Len(Popped) : i \in 1..Len(stack)
      BY <1>2
    <2>2. \A i \in 1..Len(stack) + 1 : i \in 1..Len(up)
      BY <1>2, <1>11
    <2>3. Len(stack) + 1 \in 1..Len(stack) + 1
      BY <1>2
    <2>4. \A i \in 1..Len(stack) : i \in 1..Len(stack) + 1
      BY <1>2
    <2> QED
      BY <1>10, <1>11, <2>1, <2>2, <2>3, <2>4
  <1>18. ASSUME NEW m \in live, Reaches(children, CurrentSched, m)
         PROVE  Reaches(children, s, m)
    <2>1. PICK i \in 1..Len(stack) : Passes(children, stack[i], m)
      BY <1>3, <1>12, <1>18 DEF Reaches
    <2>2. CASE i # Len(stack)
      <3>1. i \in 1..Len(Popped)
        BY <1>2, <2>1, <2>2
      <3> QED
        BY <1>12, <1>17, <2>1, <3>1 DEF Reaches
    <2>3. CASE i = Len(stack)
      <3>1. Passes(children, Top, m)
        BY <2>1, <2>3 DEF Top
      <3>2. Passes(children, f, m) \/ Passes(children, g, m)
        <4>1. CASE Top.node = m
          BY <1>9, <4>1 DEF Passes
        <4>2. CASE Top.node # m
          <5>1. PICK j \in 1..Len(children[Top.node]) :
                  j > Top.index /\ children[Top.node][j] \in Above[m]
            BY <3>1, <4>2 DEF Passes
          <5>2. TopIndex = Top.index
            BY <1>4, <5>1 DEF TopIndex
          <5>3. CASE j = TopIndex + 1
            <6>1. kid \in Above[m]
              BY <5>1, <5>3 DEF kid
            <6> QED
              BY <1>3, <1>9, <6>1, PassesBelow
          <5>4. CASE j # TopIndex + 1
            <6>1. j > f.index
              BY <1>4, <1>9, <5>1, <5>2, <5>4
            <6> QED
              BY <1>9, <5>1, <6>1 DEF Passes
          <5> QED
            BY <5>3, <5>4
        <4> QED
          BY <4>1, <4>2
      <3> QED
        BY <1>12, <1>17, <3>2 DEF Reaches
    <2> QED
      BY <2>2, <2>3
  <1>19. /\ HasTimer(CurrentSched) => HasTimer(s)
         /\ \A m \in Nodes : HasWatch(CurrentSched, m) => HasWatch(s, m)
    BY <1>12 DEF HasTimer, HasWatch
  <1>20. Keeps(children, live, CurrentSched, s)
    BY <1>16, <1>18, <1>19 DEF Keeps
  <1> QED
    BY <1>1, <1>13, <1>14, <1>20, KeptWork

\* A node whose rule is not executed owes nothing that only the scan could
\* see to.
LEMMA HeldBackWork ==
  ASSUME Undisturbed, IInv, WorkInv, NEW n \in Nodes, GetHeldBack(n) \/ SetHeldBack(n)
  PROVE  WorkInv'
  <1>1. NodeReached(n) /\ UNCHANGED <<treeVars, clientVars, etimer>>
    BY DEF GetHeldBack, SetHeldBack
  <1>2. /\ n \in live /\ n # None /\ node_pending = None
        /\ Views \in ViewsType /\ Views[n] \in NodeView /\ ~Views[n].scan
        /\ Views[n].get = pending_get[n] /\ Views[n].set = pending_set[n]
    BY <1>1, FromWork, ReachedNode, ValueAssumption DEF ViewsType, Views
  <1>3. Attended(children, CurrentSched, etimer, None, n, Views[n])
    BY <1>2 DEF WorkInv, Good, WorkGood
  <1>4. TimerOn(CurrentSched, etimer) => TimerOn(PoppedSched, etimer)
    BY <1>1, PoppedReaches DEF TimerOn
  <1>5. /\ GetGroupNodes(n) \subseteq {n} /\ SetGroupNodes(n) \subseteq {n}
    BY DEF GetGroupNodes, SetGroupNodes, Undisturbed
  <1>6. CASE GetHeldBack(n)
    <2>1. /\ needs_get(n, Views[n])
          /\ IF pending_get[n] # None THEN ~RetryDue(pending_get[n]) ELSE GetQueued(n)
          /\ ContinueScan(IF OnDeadline(n) THEN [Views EXCEPT ![n].get.missed = TRUE]
                          ELSE Views, PoppedSched)
      BY <1>6 DEF GetHeldBack
    <2>2. pending_get[n] # None
      BY <1>5, <2>1 DEF GetQueued
    <2>3. pending_get[n] \in Pending
      BY <1>2, <2>2 DEF NodeView
    <2> DEFINE q == [pending_get[n] EXCEPT !.missed = @ \/ OnDeadline(n)]
               x == [Views[n] EXCEPT !.get = q]
    <2>4. /\ q \in Pending /\ q # None /\ q.timeout = pending_get[n].timeout
          /\ q.count = pending_get[n].count /\ (OnDeadline(n) => q.missed)
          /\ ~OnDeadline(n) => q = pending_get[n]
      BY <2>3, NoneAssumption DEF Pending
    <2>5. /\ x \in NodeView /\ x.get = q /\ x.reported = Views[n].reported
          /\ x.desired = Views[n].desired /\ x.set = Views[n].set /\ ~x.scan
      BY <1>2, <2>4 DEF NodeView
    <2>6. StoreViews([Views EXCEPT ![n] = x])
      <3>1. CASE OnDeadline(n)
        <4>1. q = [pending_get[n] EXCEPT !.missed = TRUE]
          BY <2>3, <3>1 DEF Pending
        <4>2. [Views EXCEPT ![n] = x] = [Views EXCEPT ![n].get.missed = TRUE]
          BY <1>2, <4>1
        <4> QED
          BY <2>1, <3>1, <4>2 DEF ContinueScan
      <3>2. CASE ~OnDeadline(n)
        <4>1. x = Views[n]
          BY <1>2, <2>4, <3>2 DEF NodeView
        <4>2. [Views EXCEPT ![n] = x] = Views
          BY <1>2, <4>1 DEF ViewsType
        <4> QED
          BY <2>1, <3>2, <4>2 DEF ContinueScan
      <3> QED
        BY <3>1, <3>2
    <2> HIDE DEF q, x
    <2>7. needs_get(n, x) /\ ~NeedsScan(n, x)
      BY <2>1, <2>4, <2>5 DEF NeedsScan, needs_get
    <2>8. Retrying(n, x) => /\ q.timeout # Unset /\ q.timeout \in Int
                            /\ ~(q.timeout < 0) /\ (q.timeout = 0 => q.missed)
                            /\ q.timeout > 0 => TimerOn(CurrentSched, etimer)
      BY <1>2, <1>3, <2>1, <2>2, <2>3, <2>4, <2>5
         DEF Attended, Retrying, RetryDue, OnDeadline, Pending
    <2>9. Attended(children, PoppedSched, etimer, None, n, x)
      BY <1>4, <2>5, <2>7, <2>8 DEF Attended
    <2>10. Busies(None, n, Views[n]) => Busies(None, n, x)
      <3>1. needs_set(n, x) = needs_set(n, Views[n])
        BY <2>5 DEF needs_set
      <3>2. max_retries_reached(x) => max_retries_reached(Views[n])
        BY <1>2, <2>2, <2>4, <2>5 DEF max_retries_reached
      <3> QED
        BY <1>2, <2>7, <3>1, <3>2 DEF Busies
    <2>11. n \in HasGet /\ StoreSched(PoppedSched) /\ node_pending' = None
      BY <1>2, <2>1 DEF needs_get, ContinueScan, ruleVars
    <2> QED
      BY <1>1, <1>2, <2>5, <2>6, <2>9, <2>10, <2>11, PassedWork
  <1>7. CASE SetHeldBack(n)
    <2>1. /\ ~needs_get(n, Views[n]) /\ needs_set(n, Views[n])
          /\ pending_set[n] # "none"
      BY <1>5, <1>7 DEF SetHeldBack, SetQueued
    <2>2. Attended(children, PoppedSched, etimer, None, n, Views[n])
      BY <1>2, <1>3, <2>1 DEF Attended, NeedsScan, Retrying
    <2>3. Busies(None, n, Views[n])
      BY <2>1 DEF Busies
    <2>4. /\ StoreViews([Views EXCEPT ![n] = Views[n]]) /\ StoreSched(PoppedSched)
          /\ node_pending' = None
      <3>1. [Views EXCEPT ![n] = Views[n]] = Views
        BY <1>2 DEF ViewsType
      <3> QED
        BY <1>2, <1>7, <3>1 DEF SetHeldBack, ContinueScan, ruleVars
    <2> QED
      BY <1>1, <1>2, <2>2, <2>3, <2>4, PassedWork
  <1> QED
    BY <1>6, <1>7

\* A node without work completes at once.
LEMMA NothingWork ==
  ASSUME Undisturbed, IInv, WorkInv, NEW n \in Nodes, NothingToResolve(n)
  PROVE  WorkInv'
  <1>1. /\ NodeReached(n) /\ CompleteWithoutFrame(n, Views, PoppedSched)
        /\ ~needs_get(n, Views[n]) /\ ~needs_set(n, Views[n])
        /\ UNCHANGED <<treeVars, clientVars, etimer>>
    BY DEF NothingToResolve
  <1>2. /\ n \in live /\ node_pending = None
        /\ Views \in ViewsType /\ Views[n] \in NodeView /\ ~Views[n].scan
        /\ ScansDone(children, live, listeners, Views, PoppedSched)
    BY <1>1, FromWork, ReachedNode DEF ViewsType
  <1>3. Attended(children, CurrentSched, etimer, None, n, Views[n])
    BY <1>2 DEF WorkInv, Good, WorkGood
  <1>4. Attended(children, PoppedSched, etimer, n, n, Views[n])
    BY <1>1, <1>3 DEF Attended, NeedsScan, Retrying
  <1>5. ~Busies(None, n, Views[n])
    BY <1>1, <1>2 DEF Busies
  <1>6. PoppedSched \in Sched /\ AwakeSched(PoppedSched, FALSE)
    BY <1>1, ReachedNode, PopStack
  <1>7. Keeps(children, live, PoppedSched, PoppedSched)
    BY DEF Keeps
  <1>8. [Views EXCEPT ![n] = Views[n]] = Views
    BY <1>2 DEF ViewsType
  <1> QED
    BY <1>1, <1>2, <1>4, <1>5, <1>6, <1>7, <1>8, CompletedWork

\* A rule that resolves the node on its own, with the callback on the value it
\* writes.
LEMMA ResolvedWork ==
  ASSUME Undisturbed, IInv, WorkInv, NEW n, NodeReached(n),
         NEW x \in NodeView, NEW v \in Values \cup {Undef}, v # x.reported,
         ~x.scan, n \in HasGet \cup HasSet,
         Attended(children, PoppedSched, etimer, n, n, SetReported(n, x, v)),
         LET W == [Views EXCEPT ![n] = SetReported(n, x, v)]
         IN  CompleteWithoutFrame(n, W, scan_node(PoppedSched, ScansOf(W))),
         UNCHANGED <<treeVars, clientVars, etimer>>
  PROVE  WorkInv'
  <1> DEFINE y == SetReported(n, x, v)
             W == [Views EXCEPT ![n] = y]
             s == scan_node(PoppedSched, ScansOf(W))
  <1>1. n \in Nodes /\ Views \in ViewsType /\ IsTree(children, live)
    BY FromWork, ReachedNode DEF WorkInv
  <1>2. y \in NodeView
    BY <1>1, SetReportedType
  <1>3. ListenerAbove(n, listeners) # {} => y.scan
    BY <1>1 DEF SetReported, on_resolver_node_update, NodeView
  <1>4. CompleteWithoutFrame(n, W, s) /\ Attended(children, PoppedSched, etimer, n, n, y)
    OBVIOUS
  <1> HIDE DEF y
  <1>5. W \in ViewsType
    BY <1>1, <1>2 DEF ViewsType
  <1>6. PoppedSched \in Sched /\ AwakeSched(PoppedSched, FALSE)
    BY ReachedNode, PopStack
  <1>7. /\ s \in Sched /\ AwakeSched(s, FALSE) /\ Keeps(children, live, PoppedSched, s)
        /\ ScansDone(children, live, listeners, W, s)
    <2> HIDE DEF W
    <2> QED
      BY <1>1, <1>5, <1>6, ScanNode, ScanNodeKeeps, ScanDoes
  <1>8. ListenerAbove(n, listeners) # {} => Busies(n, n, y)
    BY <1>3 DEF Busies
  <1> HIDE DEF s
  <1> QED
    BY <1>2, <1>4, <1>7, <1>8, CompletedWork

\* The callback on a value that a rule wrote: the get is over, and a set that is
\* not on its way asks for the scan.
LEMMA DefinedAttended ==
  ASSUME paused = {}, NEW n \in Nodes, NEW x \in NodeView, NEW v \in Values,
         v # x.reported, n \in HasGet \cup HasSet,
         NEW ch, NEW s, NEW et, NEW p
  PROVE  Attended(ch, s, et, p, n, SetReported(n, x, v))
  <1> DEFINE y == [x EXCEPT !.reported = v]
             z1 == [y EXCEPT
              !.get = IF ~needs_get(n, y) \/ max_retries_reached(y)
                      THEN None ELSE @,
              !.set = IF needs_set(n, y) THEN @ ELSE "none"]
             z == on_resolver_node_update(n, y)
  <1>1. z = SetReported(n, x, v)
    BY DEF SetReported
  <1>2. y \in NodeView /\ y.reported = v /\ v # Undef
    BY ValueAssumption DEF NodeView
  <1> HIDE DEF y
  <1>3. /\ z.reported = v
        /\ z.get = IF ~needs_get(n, y) \/ max_retries_reached(y) THEN None ELSE y.get
        /\ z.scan <=> \/ y.scan \/ ListenerAbove(n, listeners) # {}
                      \/ is_node_to_be_scanned(n, z1)
        /\ z1.set = z.set /\ z1.reported = z.reported /\ z1.desired = z.desired
    BY <1>2 DEF on_resolver_node_update, NodeView
  <1>4. ~is_node_or_parent_paused(n)
    BY DEF is_node_or_parent_paused
  <1> HIDE DEF z, z1
  <1>5. ~needs_get(n, z) /\ z.get = None
    BY <1>2, <1>3 DEF needs_get
  <1>6. NeedsScan(n, z) => z.scan
    BY <1>3, <1>4, <1>5 DEF NeedsScan, is_node_to_be_scanned, needs_get, needs_set
  <1>7. Attended(ch, s, et, p, n, z)
    BY <1>5, <1>6 DEF Attended, Retrying
  <1> QED
    BY <1>1, <1>7

\* A get is handed to the lower layer, whose completion will come back to it, or
\* is resolved by its rule.
LEMMA ExecuteGetWork ==
  ASSUME Undisturbed, IInv, WorkInv, NEW n \in Nodes, ExecuteGet(n)
  PROVE  WorkInv'
  <1>1. /\ NodeReached(n) /\ needs_get(n, Views[n])
        /\ pending_get[n] # None => RetryDue(pending_get[n])
        /\ UNCHANGED <<treeVars, clientVars, etimer>>
    BY DEF ExecuteGet, GetSendable
  <1>2. /\ Views \in ViewsType /\ Retried(n) \in ViewsType /\ Views[n] \in NodeView
        /\ ~Views[n].scan /\ n \in HasGet /\ paused = {}
        /\ Views[n].get = pending_get[n] /\ Views[n].reported = Undef
    BY <1>1, FromWork, RetriedType DEF ViewsType, Views, needs_get, WorkInv
  <1> DEFINE x == Retried(n)[n]
  <1>3. /\ x \in NodeView /\ Retried(n) = [Views EXCEPT ![n] = x]
        /\ x.reported = Undef /\ ~x.scan
        /\ pending_get[n] # None =>
              x.get # None /\ x.get.timeout = pending_get[n].timeout
    <2>1. CASE pending_get[n] = None
      <3>1. Retried(n) = Views
        BY <2>1 DEF Retried
      <3> QED
        BY <1>2, <2>1, <3>1 DEF ViewsType
    <2>2. CASE pending_get[n] # None
      <3> DEFINE r == [pending_get[n] EXCEPT !.count = @ + 1]
                 q == [pending_get[n] EXCEPT !.count = @ + 1, !.missed = FALSE]
                 w == [Views[n] EXCEPT !.get = q]
      <3>1. pending_get[n] \in Pending /\ pending_get[n].count < RetryCount
        BY <1>1, <1>2, <2>2 DEF NodeView, RetryDue
      <3>2. q \in Pending /\ q.timeout = pending_get[n].timeout /\ q # None
        <4>1. pending_get[n].count + 1 \in 0..RetryCount
          BY <3>1, TimeAssumption DEF Pending
        <4>2. r \in Pending /\ r.timeout = pending_get[n].timeout
          BY <3>1, <4>1 DEF Pending
        <4>3. q = [r EXCEPT !.missed = FALSE]
          OBVIOUS
        <4> HIDE DEF r, q
        <4>4. q \in Pending /\ q.timeout = r.timeout
          BY <4>2, <4>3 DEF Pending
        <4> QED
          BY <4>2, <4>4, NoneAssumption
      <3>3. Retried(n) = [Views EXCEPT ![n] = w]
        <4>1. Retried(n) = [Views EXCEPT ![n].get.count = @ + 1,
                                         ![n].get.missed = FALSE]
          BY <2>2 DEF Retried
        <4>2. Views[n].get = pending_get[n] /\ Views[n] \in NodeView
              /\ Views \in ViewsType /\ pending_get[n] \in Pending
          BY <1>2, <3>1
        <4> QED
          BY <4>1, <4>2 DEF Pending, NodeView, ViewsType
      <3>4. w.get = q /\ w.reported = Views[n].reported /\ w.scan = Views[n].scan
            /\ w \in NodeView
        BY <1>2, <3>2 DEF NodeView
      <3> HIDE DEF q, r, w
      <3>5. x = w
        BY <1>2, <3>3 DEF ViewsType
      <3> QED
        BY <1>2, <3>2, <3>3, <3>4, <3>5
    <2> QED
      BY <2>1, <2>2
  <1> HIDE DEF x
  <1>4. CASE \E frame \in GetFrames \cap SentFrames :
               /\ StoreViews(IF pending_get[n] # None THEN Retried(n)
                             ELSE [Views EXCEPT ![n].get =
                                     [timeout |-> Unset, count |-> 1, missed |-> FALSE]])
               /\ StoreSched(PoppedSched)
               /\ FrameSent(n, "GET", frame)
    <2> DEFINE q == [timeout |-> Unset, count |-> 1, missed |-> FALSE]
               w == [Views[n] EXCEPT !.get = q]
               y == IF pending_get[n] # None THEN x ELSE w
    <2>1. q \in Pending /\ q # None /\ q.timeout = Unset
      <3>1. q \in Pending
        BY TimeAssumption DEF Pending
      <3> QED
        BY <3>1, NoneAssumption
    <2>2. w \in NodeView /\ w.get = q /\ w.reported = Undef /\ ~w.scan
      BY <1>2, <2>1 DEF NodeView
    <2>3. StoreViews([Views EXCEPT ![n] = y])
      BY <1>3, <1>4
    <2>4. StoreSched(PoppedSched) /\ node_pending' = n
      BY <1>4 DEF FrameSent
    <2> HIDE DEF q, w
    <2>5. /\ y \in NodeView /\ y.reported = Undef /\ ~y.scan /\ y.get # None
          /\ y.get.timeout = Unset \/ (y.get.timeout \in Int /\ y.get.timeout < 0)
      <3>1. CASE pending_get[n] = None
        BY <2>1, <2>2, <3>1
      <3>2. CASE pending_get[n] # None
        <4>1. pending_get[n] \in Pending
          BY <1>2, <3>2 DEF NodeView
        <4>2. pending_get[n].timeout \in Int /\ pending_get[n].timeout < 0
          BY <1>1, <3>2, <4>1 DEF RetryDue, Pending
        <4> QED
          BY <1>3, <3>2, <4>2
      <3> QED
        BY <3>1, <3>2
    <2> HIDE DEF y
    <2>6. needs_get(n, y)
      BY <1>2, <2>5 DEF needs_get
    <2>7. Attended(children, PoppedSched, etimer, n, n, y)
      BY <2>5, <2>6 DEF Attended, NeedsScan
    <2>8. Busies(n, n, y)
      BY <2>6 DEF Busies
    <2> QED
      BY <1>1, <1>2, <2>3, <2>4, <2>5, <2>7, <2>8, PassedWork
  <1>5. CASE \E v \in Values :
               LET V == [Retried(n) EXCEPT ![n] = SetReported(n, @, v)]
               IN  CompleteWithoutFrame(n, V, scan_node(PoppedSched, ScansOf(V)))
    <2>1. PICK v \in Values :
            LET V == [Retried(n) EXCEPT ![n] = SetReported(n, @, v)]
            IN  CompleteWithoutFrame(n, V, scan_node(PoppedSched, ScansOf(V)))
      BY <1>5
    <2>2. v # x.reported
      BY <1>3, ValueAssumption
    <2>3. [Retried(n) EXCEPT ![n] = SetReported(n, @, v)]
            = [Views EXCEPT ![n] = SetReported(n, x, v)]
      <3>1. \A y : [Retried(n) EXCEPT ![n] = y] = [Views EXCEPT ![n] = y]
        BY <1>2, <1>3 DEF ViewsType
      <3>2. [Retried(n) EXCEPT ![n] = SetReported(n, @, v)]
              = [Retried(n) EXCEPT ![n] = SetReported(n, x, v)]
        BY DEF x
      <3> QED
        BY <3>1, <3>2
    <2>4. LET W == [Views EXCEPT ![n] = SetReported(n, x, v)]
          IN  CompleteWithoutFrame(n, W, scan_node(PoppedSched, ScansOf(W)))
      BY <2>1, <2>3
    <2>5. Attended(children, PoppedSched, etimer, n, n, SetReported(n, x, v))
      BY <1>2, <1>3, <2>2, DefinedAttended
    <2> QED
      BY <1>1, <1>2, <1>3, <2>2, <2>4, <2>5, ResolvedWork
  <1>6. ~MayRefuse /\ "IS_WAITING" \notin GetFrames /\ "FAIL" \notin GetFrames
    BY DEF Undisturbed
  <1> QED
    BY <1>4, <1>5, <1>6 DEF ExecuteGet

\* The same for a set.
LEMMA ExecuteSetWork ==
  ASSUME Undisturbed, IInv, WorkInv, NEW n \in Nodes, ExecuteSet(n)
  PROVE  WorkInv'
  <1> DEFINE x == [Views[n] EXCEPT !.get = None]
             V == [Views EXCEPT ![n].get = None]
  <1>1. /\ NodeReached(n) /\ ~needs_get(n, Views[n]) /\ needs_set(n, Views[n])
        /\ UNCHANGED <<treeVars, clientVars, etimer>>
    BY DEF ExecuteSet
  <1>2. /\ Views \in ViewsType /\ Views[n] \in NodeView /\ ~Views[n].scan
        /\ n \in HasSet /\ paused = {}
    BY <1>1, FromWork DEF ViewsType, needs_set, WorkInv
  <1>3. /\ x \in NodeView /\ x.get = None /\ x.reported = Views[n].reported
        /\ x.desired = Views[n].desired /\ ~x.scan
    BY <1>2 DEF NodeView
  <1>4. V = [Views EXCEPT ![n] = x] /\ V[n] = x
    BY <1>2 DEF ViewsType
  <1>5. x.desired \in Values /\ x.desired # x.reported
    BY <1>1, <1>2, <1>3 DEF needs_set, NodeView
  <1>6. \/ \E frame \in SetFrames \cap SentFrames :
             /\ StoreViews([V EXCEPT ![n].set =
                              IF frame = "OK" THEN "final" ELSE "more"])
             /\ StoreSched(PoppedSched)
             /\ FrameSent(n, "SET", frame)
        \/ LET W == [V EXCEPT ![n] = SetReported(n, @, V[n].desired)]
           IN  CompleteWithoutFrame(n, W, scan_node(PoppedSched, ScansOf(W)))
    <2>1. ~MayRefuse /\ {"IS_WAITING", "FAIL"} \cap SetFrames = {}
      BY DEF Undisturbed
    <2> QED
      BY <2>1 DEF ExecuteSet
  <1> HIDE DEF x, V
  <1>7. CASE \E frame \in SetFrames \cap SentFrames :
               /\ StoreViews([V EXCEPT ![n].set =
                                IF frame = "OK" THEN "final" ELSE "more"])
               /\ StoreSched(PoppedSched)
               /\ FrameSent(n, "SET", frame)
    <2>1. PICK frame \in SetFrames \cap SentFrames :
               /\ StoreViews([V EXCEPT ![n].set =
                                IF frame = "OK" THEN "final" ELSE "more"])
               /\ StoreSched(PoppedSched)
               /\ FrameSent(n, "SET", frame)
      BY <1>7
    <2> DEFINE k == IF frame = "OK" THEN "final" ELSE "more"
               y == [x EXCEPT !.set = k]
    <2>2. /\ y \in NodeView /\ y.get = None /\ y.set # "none" /\ ~y.scan
          /\ y.reported = Views[n].reported /\ y.desired = Views[n].desired
      BY <1>3 DEF NodeView
    <2>3. [V EXCEPT ![n].set = k] = [Views EXCEPT ![n] = y]
      <3>1. \A z : [V EXCEPT ![n] = z] = [Views EXCEPT ![n] = z]
        BY <1>2, <1>4 DEF ViewsType
      <3>2. [V EXCEPT ![n].set = k] = [V EXCEPT ![n] = y]
        BY <1>4
      <3> QED
        BY <3>1, <3>2
    <2>4. StoreViews([Views EXCEPT ![n] = y]) /\ StoreSched(PoppedSched) /\ node_pending' = n
      BY <2>1, <2>3 DEF FrameSent
    <2> HIDE DEF y
    <2>5. ~needs_get(n, y) /\ needs_set(n, y)
      BY <1>1, <2>2 DEF needs_get, needs_set
    <2>6. Attended(children, PoppedSched, etimer, n, n, y)
      BY <2>2, <2>5 DEF Attended, NeedsScan, Retrying
    <2>7. Busies(n, n, y)
      BY <2>5 DEF Busies
    <2> QED
      BY <1>1, <2>2, <2>4, <2>6, <2>7, PassedWork
  <1>8. CASE LET W == [V EXCEPT ![n] = SetReported(n, @, V[n].desired)]
             IN  CompleteWithoutFrame(n, W, scan_node(PoppedSched, ScansOf(W)))
    <2> DEFINE v == x.desired
    <2>1. [V EXCEPT ![n] = SetReported(n, @, V[n].desired)]
            = [Views EXCEPT ![n] = SetReported(n, x, v)]
      <3>1. \A z : [V EXCEPT ![n] = z] = [Views EXCEPT ![n] = z]
        BY <1>2, <1>4 DEF ViewsType
      <3>2. [V EXCEPT ![n] = SetReported(n, @, V[n].desired)]
              = [V EXCEPT ![n] = SetReported(n, x, v)]
        BY <1>4
      <3> QED
        BY <3>1, <3>2
    <2>2. LET W == [Views EXCEPT ![n] = SetReported(n, x, v)]
          IN  CompleteWithoutFrame(n, W, scan_node(PoppedSched, ScansOf(W)))
      BY <1>8, <2>1
    <2>3. v \in Values /\ v # x.reported
      BY <1>5
    <2> HIDE DEF v
    <2>4. Attended(children, PoppedSched, etimer, n, n, SetReported(n, x, v))
      BY <1>2, <1>3, <2>3, DefinedAttended
    <2> QED
      BY <1>1, <1>2, <1>3, <2>2, <2>3, <2>4, ResolvedWork
  <1> QED
    BY <1>6, <1>7, <1>8

\* Every step of the scan loop.
LEMMA ScanStepWork ==
  ASSUME Undisturbed, IInv, WorkInv, ScanStep
  PROVE  WorkInv'
  <1>1. CASE ScanCompleted
    <2>1. UNCHANGED <<treeVars, attrVars, schedVars, ruleVars, clientVars, etimer>>
      BY <1>1 DEF ScanCompleted
    <2>2. StoreSched(CurrentSched)
      BY <2>1, SameSched
    <2>3. CurrentSched \in Sched /\ Keeps(children, live, CurrentSched, CurrentSched)
      BY FromState DEF Keeps
    <2> QED
      BY <2>1, <2>2, <2>3, KeptWork
  <1>2. ~SkipNode
    <2>1. SUFFICES ASSUME SkipNode PROVE FALSE
      OBVIOUS
    <2>2. Len(stack) \in 1..Len(stack)
      BY <2>1, PopStack DEF SkipNode
    <2>3. Top.node \in live
      BY <2>2 DEF Top, WorkInv, Good, WorkGood, OnTree, CurrentSched
    <2> QED
      BY <2>1, <2>3 DEF SkipNode, WorkInv, is_node_or_parent_paused
  <1> QED
    BY <1>1, <1>2, VisitWork, NothingWork, HeldBackWork, ExecuteGetWork,
       ExecuteSetWork DEF ScanStep

-----------------------------------------------------------------------------
(* Events and time.                                                        *)

\* A step that leaves the records alone; the listeners it calls wait no more.
LEMMA EventWork ==
  ASSUME IInv, WorkInv, NEW s \in Sched, StoreSched(s), OnTree(live, s),
         \A m \in live : Reaches(children, CurrentSched, m) => Reaches(children, s, m),
         \A m \in live : Attended(children, s, etimer', node_pending, m, Views[m]),
         \A k \in Waiting' : HasWatch(CurrentSched, k) => HasWatch(s, k),
         listeners' \subseteq listeners, awaiting' \subseteq awaiting,
         UNCHANGED <<treeVars, attrVars, ruleVars, paused>>
  PROVE  WorkInv'
  <1>1. /\ Views \in ViewsType /\ live \subseteq Nodes
        /\ Waiting \subseteq listeners \cap live /\ Waiting' \subseteq Waiting
        /\ ScansDone(children, live, listeners, Views, s)
    BY FromWork DEF Waiting
  <1>2. /\ WorkGood(children, live, Views, CurrentSched, etimer, node_pending)
        /\ HearGood(children, live, Waiting, Views, CurrentSched, node_pending)
    BY DEF WorkInv, Good
  <1>3. WorkGood(children, live, Views, s, etimer', node_pending)
    BY <1>2 DEF WorkGood
  <1>4. HearGood(children, live, Waiting', Views, s, node_pending)
    BY <1>1, <1>2 DEF HearGood, Heard
  <1>5. Good(children, live, Waiting', Views, s, etimer', node_pending')
    BY <1>3, <1>4 DEF Good, ruleVars
  <1>6. StoreViews(Views)
    BY SameViews
  <1>7. /\ UNCHANGED treeVars /\ Waiting' \subseteq listeners \cap live
        /\ paused' = {} /\ listeners' \subseteq Listenable /\ awaiting' \subseteq live
    BY <1>1 DEF WorkInv
  <1> QED
    BY <1>1, <1>5, <1>6, <1>7, StepWork

\* A node stays attended by a scan and a timer that stay.
LEMMA StillAttended ==
  ASSUME NEW ch, NEW s, NEW t, NEW et, NEW eu, NEW p, NEW n, NEW x,
         Attended(ch, s, et, p, n, x),
         Reaches(ch, s, n) => Reaches(ch, t, n),
         TimerOn(s, et) => TimerOn(t, eu)
  PROVE  Attended(ch, t, eu, p, n, x)
  BY DEF Attended

\* The other events stay in the queue when one is taken.
LEMMA TakeKeeps ==
  ASSUME IInv, NEW type, Dequeue(type)
  PROVE  LET t == [stack |-> stack, requested |-> scan_requested,
                   queue |-> Tail(queue)]
         IN  /\ t \in Sched
             /\ \A ch, m : Reaches(ch, CurrentSched, m) => Reaches(ch, t, m)
             /\ \A L : OnTree(L, CurrentSched) => OnTree(L, t)
             /\ \A m : HasWatch(CurrentSched, m) /\ Head(queue) # Watch(m)
                         => HasWatch(t, m)
             /\ HasTimer(CurrentSched) /\ type \notin {"TIMER", "TIMER_SET"}
                  => HasTimer(t)
  <1> DEFINE t == [stack |-> stack, requested |-> scan_requested,
                   queue |-> Tail(queue)]
  <1>1. /\ Tail(queue) \in Seq(Events) /\ Len(queue) \in Nat \ {0}
        /\ Len(Tail(queue)) = Len(queue) - 1
        /\ \A i \in 1..Len(Tail(queue)) : Tail(queue)[i] = queue[i + 1]
        /\ Head(queue) = queue[1] /\ Head(queue).type = type
    BY TakeEvent DEF Dequeue
  <1>2. /\ t.stack = stack /\ t.requested = scan_requested /\ t.queue = Tail(queue)
        /\ CurrentSched.stack = stack /\ CurrentSched.requested = scan_requested
        /\ CurrentSched.queue = queue
    BY DEF CurrentSched
  <1>3. t \in Sched
    BY <1>1 DEF Sched, IInv, SchedInv
  <1> HIDE DEF t
  <1>4. ASSUME NEW i \in 1..Len(queue), queue[i] # Head(queue)
        PROVE  \E j \in 1..Len(t.queue) : t.queue[j] = queue[i]
    <2>1. i # 1
      BY <1>1, <1>4
    <2>2. i - 1 \in 1..Len(Tail(queue)) /\ (i - 1) + 1 = i
      BY <1>1, <2>1
    <2> QED
      BY <1>1, <1>2, <2>2
  <1>5. \A ch, m : Reaches(ch, CurrentSched, m) => Reaches(ch, t, m)
    BY <1>2 DEF Reaches
  <1>6. \A L : OnTree(L, CurrentSched) => OnTree(L, t)
    BY <1>2 DEF OnTree
  <1>7. ASSUME NEW m, HasWatch(CurrentSched, m), Head(queue) # Watch(m)
        PROVE  HasWatch(t, m)
    <2>1. PICK i \in 1..Len(queue) : queue[i] = Watch(m)
      BY <1>2, <1>7 DEF HasWatch
    <2> QED
      BY <1>4, <1>7, <2>1 DEF HasWatch
  <1>8. ASSUME HasTimer(CurrentSched), type \notin {"TIMER", "TIMER_SET"}
        PROVE  HasTimer(t)
    <2>1. PICK i \in 1..Len(queue) : queue[i].type \in {"TIMER", "TIMER_SET"}
      BY <1>2, <1>8 DEF HasTimer
    <2>2. queue[i] # Head(queue)
      BY <1>1, <1>8, <2>1
    <2> QED
      BY <1>4, <2>1, <2>2 DEF HasTimer
  <1> QED
    BY <1>3, <1>5, <1>6, <1>7, <1>8 DEF t

\* The scan that the NEXT event starts comes to all nodes.
LEMMA EvNextWork ==
  ASSUME IInv, WorkInv, EvNext
  PROVE  WorkInv'
  <1> DEFINE t == [stack |-> stack, requested |-> scan_requested,
                   queue |-> Tail(queue)]
             s == [stack |-> stack', requested |-> scan_requested',
                   queue |-> Tail(queue)]
  <1>1. /\ Dequeue("NEXT") /\ queue' = Tail(queue)
        /\ UNCHANGED <<treeVars, attrVars, ruleVars, clientVars, etimer>>
    BY DEF EvNext
  <1>2. /\ t \in Sched
        /\ \A m : Reaches(children, CurrentSched, m) => Reaches(children, t, m)
        /\ OnTree(live, CurrentSched) => OnTree(live, t)
        /\ \A m : HasWatch(CurrentSched, m) /\ Head(queue) # Watch(m) => HasWatch(t, m)
        /\ HasTimer(CurrentSched) => HasTimer(t)
    <2> HIDE DEF t
    <2>1. "NEXT" \notin {"TIMER", "TIMER_SET"}
      OBVIOUS
    <2>2. /\ t \in Sched
          /\ \A ch, m : Reaches(ch, CurrentSched, m) => Reaches(ch, t, m)
          /\ \A L : OnTree(L, CurrentSched) => OnTree(L, t)
          /\ \A m : HasWatch(CurrentSched, m) /\ Head(queue) # Watch(m)
                      => HasWatch(t, m)
          /\ HasTimer(CurrentSched) => HasTimer(t)
      BY <1>1, <2>1, TakeKeeps DEF t
    <2> QED
      BY <2>2
  <1>3. \A m : Head(queue) # Watch(m)
    <2>1. Head(queue).type = "NEXT"
      BY <1>1 DEF Dequeue
    <2>2. \A m : Watch(m).type = "WATCH"
      BY DEF Watch
    <2> QED
      BY <2>1, <2>2
  <1>4. OnTree(live, CurrentSched) /\ IsTree(children, live) /\ live \subseteq Nodes
    BY DEF WorkInv, Good, WorkGood, IsTree
  <1>5. s.queue = t.queue /\ s.stack = stack' /\ s.requested = scan_requested'
        /\ StoreSched(s)
    BY <1>1 DEF StoreSched
  <1> HIDE DEF s, t
  <1>6. /\ s \in Sched /\ OnTree(live, s)
        /\ \A m \in live : Reaches(children, t, m) => Reaches(children, s, m)
    <2>1. CASE stack = <<>> /\ scan_requested
      <3> DEFINE e == [node |-> Root, index |-> 0]
      <3>1. stack' = <<e>> /\ scan_requested' = FALSE
        BY <2>1 DEF EvNext
      <3>2. e \in Frames /\ e.node = Root /\ e.index = 0
        BY TreeAssumption DEF Frames
      <3> HIDE DEF e
      <3>3. stack' \in Seq(Frames) /\ Len(stack') = 1 /\ stack'[1] = e
        BY <3>1, <3>2
      <3>4. s \in Sched
        <4>1. Tail(queue) \in Seq(Events)
          BY <1>1, TakeEvent
        <4> QED
          BY <3>1, <3>3, <4>1 DEF Sched, s
      <3>5. OnTree(live, s)
        <4>1. \A i \in 1..Len(s.stack) : s.stack[i] = e
          BY <1>5, <3>3
        <4> QED
          BY <3>2, <4>1 DEF OnTree, live
      <3>6. ASSUME NEW m \in live PROVE Reaches(children, s, m)
        <4>1. Root \in Above[m]
          BY <1>4, AboveNodes
        <4>2. Passes(children, e, m)
          BY <1>4, <3>2, <4>1, PassesBelow
        <4>3. 1 \in 1..Len(s.stack) /\ s.stack[1] = e
          BY <1>5, <3>3
        <4> QED
          BY <4>2, <4>3 DEF Reaches
      <3> QED
        BY <3>4, <3>5, <3>6
    <2>2. CASE ~(stack = <<>> /\ scan_requested)
      <3>1. s = t
        BY <2>2 DEF EvNext, s, t
      <3> QED
        BY <1>2, <1>4, <3>1
    <2> QED
      BY <2>1, <2>2
  <1>7. /\ HasTimer(CurrentSched) => HasTimer(s)
        /\ \A m \in Nodes : HasWatch(CurrentSched, m) => HasWatch(s, m)
    BY <1>2, <1>3, <1>5 DEF HasTimer, HasWatch
  <1>8. Keeps(children, live, CurrentSched, s)
    BY <1>2, <1>6, <1>7 DEF Keeps
  <1> QED
    BY <1>1, <1>5, <1>6, <1>8, KeptWork

\* The event that calls a listener takes it from those that wait.
LEMMA EvWatchWork ==
  ASSUME IInv, WorkInv, EvWatch
  PROVE  WorkInv'
  <1> DEFINE t == [stack |-> stack, requested |-> scan_requested,
                   queue |-> Tail(queue)]
  <1>1. /\ Dequeue("WATCH") /\ StoreSched(t)
        /\ listeners' \subseteq listeners
        /\ awaiting' = awaiting \ {Head(queue).node}
        /\ UNCHANGED <<treeVars, attrVars, ruleVars, paused, etimer>>
    BY DEF EvWatch, StoreSched
  <1> HIDE DEF t
  <1>2. /\ t \in Sched
        /\ \A ch, m : Reaches(ch, CurrentSched, m) => Reaches(ch, t, m)
        /\ \A L : OnTree(L, CurrentSched) => OnTree(L, t)
        /\ \A m : HasWatch(CurrentSched, m) /\ Head(queue) # Watch(m)
                    => HasWatch(t, m)
        /\ HasTimer(CurrentSched) => HasTimer(t)
    <2>1. "WATCH" \notin {"TIMER", "TIMER_SET"}
      OBVIOUS
    <2> QED
      BY <1>1, <2>1, TakeKeeps DEF t
  <1>3. \A m \in Waiting' : Head(queue) # Watch(m)
    <2>1. \A m : Watch(m).node = m
      BY DEF Watch
    <2> QED
      BY <1>1, <2>1 DEF Waiting
  <1>4. ASSUME NEW m \in live
        PROVE  Attended(children, t, etimer', node_pending, m, Views[m])
    <2>1. Attended(children, CurrentSched, etimer, node_pending, m, Views[m])
      BY DEF WorkInv, Good, WorkGood
    <2>2. TimerOn(CurrentSched, etimer) => TimerOn(t, etimer')
      BY <1>1, <1>2 DEF TimerOn
    <2> QED
      BY <1>2, <2>1, <2>2, StillAttended
  <1>5. OnTree(live, t)
    BY <1>2 DEF WorkInv, Good, WorkGood
  <1>6. awaiting' \subseteq awaiting
    BY <1>1
  <1> QED
    BY <1>1, <1>2, <1>3, <1>4, <1>5, <1>6, EventWork

\* The event that sets the timer.
LEMMA EvTimerSetWork ==
  ASSUME IInv, WorkInv, EvTimerSet
  PROVE  WorkInv'
  <1> DEFINE t == [stack |-> stack, requested |-> scan_requested,
                   queue |-> Tail(queue)]
  <1>1. /\ Dequeue("TIMER_SET") /\ StoreSched(t)
        /\ etimer' = Head(queue).interval
        /\ UNCHANGED <<treeVars, attrVars, ruleVars, clientVars>>
    BY DEF EvTimerSet, StoreSched
  <1> HIDE DEF t
  <1>2. /\ t \in Sched
        /\ \A ch, m : Reaches(ch, CurrentSched, m) => Reaches(ch, t, m)
        /\ \A L : OnTree(L, CurrentSched) => OnTree(L, t)
        /\ \A m : HasWatch(CurrentSched, m) /\ Head(queue) # Watch(m)
                    => HasWatch(t, m)
    BY <1>1, TakeKeeps DEF t
  <1>3. \A m : Head(queue) # Watch(m)
    <2>1. \A m : Watch(m).type = "WATCH"
      BY DEF Watch
    <2> QED
      BY <1>1, <2>1 DEF Dequeue
  <1>4. etimer' # None
    <2>1. Head(queue) \in Events /\ Head(queue).type = "TIMER_SET"
      BY <1>1, TakeEvent DEF Dequeue
    <2>2. \A e \in Events : e.type = "TIMER_SET" => e.interval \in 1..MaxWait
      BY DEF Events, NextEvent, Timer, Watch, TimerSet
    <2>3. etimer' \in Int
      BY <1>1, <2>1, <2>2, TimeAssumption
    <2> QED
      BY <2>3, NoneAssumption
  <1>5. ASSUME NEW m \in live
        PROVE  Attended(children, t, etimer', node_pending, m, Views[m])
    <2>1. Attended(children, CurrentSched, etimer, node_pending, m, Views[m])
      BY DEF WorkInv, Good, WorkGood
    <2>2. TimerOn(t, etimer')
      BY <1>4 DEF TimerOn
    <2> QED
      BY <1>2, <2>1, <2>2, StillAttended
  <1>6. OnTree(live, t)
    BY <1>2 DEF WorkInv, Good, WorkGood
  <1>7. listeners' = listeners /\ awaiting' = awaiting /\ paused' = paused
    BY <1>1 DEF clientVars
  <1> QED
    BY <1>1, <1>2, <1>3, <1>5, <1>6, <1>7, EventWork

\* The event of the expired timer: the gets that are due are scanned, and the
\* timer is restarted for the others.
LEMMA EvTimerWork ==
  ASSUME IInv, WorkInv, EvTimer
  PROVE  WorkInv'
  <1> DEFINE t == [stack |-> stack, requested |-> scan_requested,
                   queue |-> Tail(queue)]
             u == scan_node(t, DueGets)
             w == restart_timer(Views, u)
             aw == ~Busy /\ ~scanning
  <1>1. /\ Dequeue("TIMER")
        /\ UNCHANGED <<treeVars, attrVars, ruleVars, clientVars, etimer>>
    BY DEF EvTimer
  <1>2. /\ [CurrentSched EXCEPT !.queue = Tail(@)] = t
        /\ t \in Sched /\ AwakeSched(t, aw)
    BY <1>1, TakeOther
  <1>3. StoreSched(w)
    BY <1>2 DEF EvTimer
  <1> HIDE DEF t
  <1>4. /\ t \in Sched
        /\ \A ch, m : Reaches(ch, CurrentSched, m) => Reaches(ch, t, m)
        /\ \A L : OnTree(L, CurrentSched) => OnTree(L, t)
        /\ \A m : HasWatch(CurrentSched, m) /\ Head(queue) # Watch(m)
                    => HasWatch(t, m)
    BY <1>1, TakeKeeps DEF t
  <1>5. \A m : Head(queue) # Watch(m)
    <2>1. \A m : Watch(m).type = "WATCH"
      BY DEF Watch
    <2> QED
      BY <1>1, <2>1 DEF Dequeue
  <1>6. /\ IsTree(children, live) /\ live \subseteq Nodes /\ paused = {}
        /\ Views \in ViewsType /\ IsPath(t.stack)
    BY <1>2, FromWork DEF WorkInv, AwakeSched
  <1>7. u \in Sched /\ AwakeSched(u, aw) /\ Keeps(children, live, t, u)
    BY <1>2, ScanNode, ScanNodeKeeps
  <1>8. \A m \in live \cap DueGets : Reaches(children, u, m)
    <2>1. ASSUME NEW m \in live, m \in DueGets PROVE Reaches(children, u, m)
      <3>1. m \in Above[m]
        BY <1>6, AboveNodes
      <3> QED
        BY <1>4, <1>6, <2>1, <3>1, ScanNodeReaches
    <2> QED
      BY <2>1
  <1> HIDE DEF u
  <1>9. /\ w \in Sched /\ Keeps(children, live, u, w)
        /\ \A m \in RetriableGets(Views) :
             IF Views[m].get.timeout <= 0
             THEN TimerOn(w, etimer) \/ Reaches(children, w, m)
             ELSE TimerOn(w, etimer)
    <2>1. aw \in BOOLEAN
      OBVIOUS
    <2> HIDE DEF aw
    <2> QED
      BY <1>6, <1>7, <2>1, RestartTimer, RestartKeeps
  <1> HIDE DEF w
  <1>10. Keeps(children, live, t, w)
    BY <1>7, <1>9, KeepsOn
  <1>11. ASSUME NEW m \in live
         PROVE  Attended(children, w, etimer', node_pending, m, Views[m])
    <2>1. Attended(children, CurrentSched, etimer, node_pending, m, Views[m])
      BY DEF WorkInv, Good, WorkGood
    <2>2. Reaches(children, CurrentSched, m) => Reaches(children, w, m)
      BY <1>4, <1>10 DEF Keeps
    <2>3. /\ m \in Nodes /\ Views[m].get = pending_get[m] /\ Views[m].scan = FALSE
          /\ ~is_node_or_parent_paused(m)
      BY <1>6 DEF Views, is_node_or_parent_paused
    <2>4. ASSUME Retrying(m, Views[m]), Views[m].get.timeout # Unset
          PROVE  /\ Views[m].get.timeout > 0 => TimerOn(w, etimer)
                 /\ Views[m].get.timeout <= 0 => Reaches(children, w, m)
      <3>1. Views[m].get \in Pending
        BY <1>6, <2>3, <2>4 DEF ViewsType, NodeView, Retrying
      <3>2. Views[m].get.timeout \in Int
        BY <2>4, <3>1 DEF Pending
      <3>3. m \in RetriableGets(Views)
        BY <2>3, <2>4 DEF RetriableGets, Retrying
      <3>4. Views[m].get.timeout > 0 => TimerOn(w, etimer)
        BY <1>9, <3>2, <3>3
      <3>5. Views[m].get.timeout <= 0 => m \in DueGets
        BY <2>3, <2>4, <3>2 DEF DueGets, Retrying, is_node_to_be_scanned, DeadlineReached
      <3>6. m \in DueGets => Reaches(children, w, m)
        BY <1>8, <1>9 DEF Keeps
      <3> QED
        BY <3>4, <3>5, <3>6
    <2>5. etimer' = etimer
      BY <1>1
    <2> QED
      BY <2>1, <2>2, <2>3, <2>4, <2>5 DEF Attended
  <1>12. OnTree(live, w)
    BY <1>4, <1>10 DEF WorkInv, Good, WorkGood, Keeps
  <1>13. /\ \A m \in live : Reaches(children, CurrentSched, m) => Reaches(children, w, m)
         /\ \A m \in Waiting' : HasWatch(CurrentSched, m) => HasWatch(w, m)
    <2>1. Waiting' \subseteq Nodes
      BY <1>1, <1>6 DEF clientVars, Waiting, WorkInv
    <2> QED
      BY <1>4, <1>5, <1>10, <2>1 DEF Keeps
  <1>14. listeners' = listeners /\ awaiting' = awaiting /\ paused' = paused
    BY <1>1 DEF clientVars
  <1> QED
    BY <1>1, <1>3, <1>9, <1>11, <1>12, <1>13, <1>14, EventWork

\* The timer that expires is in the queue before it is off.
LEMMA EtimerWork ==
  ASSUME IInv, WorkInv, EtimerExpires
  PROVE  WorkInv'
  <1> DEFINE s == Post(CurrentSched, Timer)
  <1>1. Timer \in Events /\ Timer.type \in {"TIMER", "TIMER_SET"}
    BY DEF Timer, Events
  <1>2. CurrentSched \in Sched
    BY FromState
  <1>3. /\ Keeps(children, live, CurrentSched, s) /\ HasTimer(s)
    BY <1>1, <1>2, PostKeeps
  <1>4. s = [stack |-> stack, requested |-> scan_requested,
             queue |-> Append(queue, Timer)]
    <2>1. CurrentSched.queue = queue
      BY DEF CurrentSched
    <2>2. \A q : [CurrentSched EXCEPT !.queue = q]
                 = [stack |-> stack, requested |-> scan_requested, queue |-> q]
      BY DEF CurrentSched
    <2> QED
      BY <2>1, <2>2 DEF Post
  <1> HIDE DEF s
  <1>5. StoreSched(s)
    BY <1>4 DEF EtimerExpires, StoreSched
  <1>6. s \in Sched
    <2>1. Append(queue, Timer) \in Seq(Events)
      BY <1>1, AppendProperties DEF IInv, SchedInv
    <2> QED
      BY <1>4, <2>1 DEF Sched, IInv, SchedInv
  <1>7. ASSUME NEW m \in live
        PROVE  Attended(children, s, etimer', node_pending, m, Views[m])
    <2>1. Attended(children, CurrentSched, etimer, node_pending, m, Views[m])
      BY DEF WorkInv, Good, WorkGood
    <2>2. TimerOn(s, etimer')
      BY <1>3 DEF TimerOn
    <2>3. Reaches(children, CurrentSched, m) => Reaches(children, s, m)
      BY <1>3 DEF Keeps
    <2> QED
      BY <2>1, <2>2, <2>3, StillAttended
  <1>8. UNCHANGED <<treeVars, attrVars, ruleVars, clientVars>>
    BY DEF EtimerExpires
  <1>9. listeners' = listeners /\ awaiting' = awaiting /\ paused' = paused
    BY <1>8 DEF clientVars
  <1>10. /\ \A m \in live : Reaches(children, CurrentSched, m) => Reaches(children, s, m)
         /\ \A m \in Waiting' : HasWatch(CurrentSched, m) => HasWatch(s, m)
         /\ OnTree(live, s)
    <2>1. Waiting' \subseteq Nodes
      BY <1>9, FromWork DEF Waiting, WorkInv
    <2> QED
      BY <1>3, <2>1 DEF Keeps, WorkInv, Good, WorkGood
  <1> QED
    BY <1>5, <1>6, <1>7, <1>8, <1>9, <1>10, EventWork

\* Time passes: a deadline that comes has a timer that is on.
LEMMA TickWork ==
  ASSUME IInv, WorkInv, Tick
  PROVE  WorkInv'
  <1> DEFINE W == Views'
             et == etimer'
             p == node_pending
             s == CurrentSched
  <1>1. /\ UNCHANGED <<treeVars, reported, desired, pending_set, schedVars,
                       scanning, ruleVars, clientVars>>
        /\ etimer' = IF etimer = None THEN None ELSE OneLess(etimer)
        /\ pending_get' = [n \in Nodes |->
             IF pending_get[n] = None THEN None
             ELSE IF pending_get[n].timeout = Unset THEN pending_get[n]
             ELSE [pending_get[n] EXCEPT !.timeout = OneLess(@)]]
    BY DEF Tick
  <1>2. AttrInv /\ AttrInv' /\ Unset \notin Int /\ None \notin Int /\ None \notin Pending
    BY TickInv, TimeAssumption, NoneAssumption DEF IInv
  <1>3. \A k \in Int : OneLess(k) \in Int /\ (k > 0 <=> OneLess(k) >= 0)
    BY DEF OneLess
  <1>4. TimerOn(s, etimer) => TimerOn(s, et)
    <2>1. etimer # None => etimer \in Int
      BY TimeAssumption DEF IInv, EnvInv
    <2> QED
      BY <1>1, <1>2, <1>3, <2>1 DEF TimerOn
  <1>5. ASSUME NEW m \in Nodes
        PROVE  /\ W[m].reported = Views[m].reported
               /\ W[m].desired = Views[m].desired
               /\ W[m].set = Views[m].set /\ W[m].scan = Views[m].scan
               /\ W[m].get = None <=> Views[m].get = None
    <2>1. /\ W[m] = [reported |-> reported[m], desired |-> desired[m],
                     get |-> pending_get'[m], set |-> pending_set[m], scan |-> FALSE]
          /\ Views[m] = [reported |-> reported[m], desired |-> desired[m],
                         get |-> pending_get[m], set |-> pending_set[m], scan |-> FALSE]
      BY <1>1 DEF Views
    <2>2. pending_get'[m] = None <=> pending_get[m] = None
      <3>1. CASE pending_get[m] = None
        BY <1>1, <3>1
      <3>2. CASE pending_get[m] # None
        <4>1. pending_get[m] \in Pending
          BY <1>2, <3>2 DEF AttrInv
        <4>2. CASE pending_get[m].timeout = Unset
          BY <1>1, <3>2, <4>2
        <4>3. CASE pending_get[m].timeout # Unset
          <5>1. pending_get[m].timeout \in -1..MaxWait
            BY <4>1, <4>3 DEF Pending
          <5>2. OneLess(pending_get[m].timeout) \in -1..MaxWait
            BY <5>1, TimeAssumption DEF OneLess
          <5>3. [pending_get[m] EXCEPT !.timeout = OneLess(@)] \in Pending
            BY <4>1, <5>2 DEF Pending
          <5>4. pending_get'[m] = [pending_get[m] EXCEPT !.timeout = OneLess(@)]
            BY <1>1, <3>2, <4>3
          <5> QED
            BY <1>2, <3>2, <5>3, <5>4
        <4> QED
          BY <4>2, <4>3
      <3> QED
        BY <3>1, <3>2
    <2> QED
      BY <2>1, <2>2
  <1>6. ASSUME NEW m \in Nodes, Views[m].get # None
        PROVE  /\ Views[m].get \in Pending /\ W[m].get.count = Views[m].get.count
               /\ Views[m].get.timeout = Unset => W[m].get.timeout = Unset
               /\ Views[m].get.timeout # Unset =>
                     /\ W[m].get.timeout = OneLess(Views[m].get.timeout)
                     /\ W[m].get.missed = Views[m].get.missed
    <2>1. pending_get[m] # None /\ pending_get[m] \in Pending
      BY <1>2, <1>6 DEF AttrInv, Views
    <2>2. Views[m].get = pending_get[m] /\ W[m].get = pending_get'[m]
      BY DEF Views
    <2>3. pending_get'[m] = IF pending_get[m].timeout = Unset THEN pending_get[m]
                            ELSE [pending_get[m] EXCEPT !.timeout = OneLess(@)]
      BY <1>1, <2>1
    <2> HIDE DEF W
    <2> QED
      BY <2>1, <2>2, <2>3 DEF Pending
  <1> HIDE DEF W, et
  <1>7. ASSUME NEW m \in Nodes
        PROVE  /\ needs_get(m, W[m]) = needs_get(m, Views[m])
               /\ needs_set(m, W[m]) = needs_set(m, Views[m])
               /\ max_retries_reached(W[m]) = max_retries_reached(Views[m])
               /\ Retrying(m, W[m]) = Retrying(m, Views[m])
               /\ NeedsScan(m, W[m]) = NeedsScan(m, Views[m])
    <2>1. /\ needs_get(m, W[m]) = needs_get(m, Views[m])
          /\ needs_set(m, W[m]) = needs_set(m, Views[m])
      BY <1>5 DEF needs_get, needs_set
    <2> QED
      BY <1>5, <1>6, <2>1 DEF max_retries_reached, Retrying, NeedsScan
  <1>8. /\ WorkGood(children, live, Views, s, etimer, p)
        /\ HearGood(children, live, Waiting, Views, s, p) /\ live \subseteq Nodes
    BY FromWork DEF WorkInv, Good
  <1>9. ASSUME NEW m \in live PROVE Attended(children, s, et, p, m, W[m])
    <2>1. Attended(children, s, etimer, p, m, Views[m]) /\ m \in Nodes
      BY <1>8 DEF WorkGood
    <2>2. NeedsScan(m, W[m]) => W[m].scan \/ Reaches(children, s, m)
      BY <1>5, <1>7, <2>1 DEF Attended
    <2>3. W[m].get # None => needs_get(m, W[m])
      BY <1>5, <1>7, <2>1 DEF Attended
    <2>4. ASSUME Retrying(m, W[m])
          PROVE  IF W[m].get.timeout = Unset THEN p = m
                 ELSE /\ W[m].get.timeout > 0 => TimerOn(s, et)
                      /\ W[m].get.timeout <= 0 =>
                           \/ TimerOn(s, et) \/ W[m].scan \/ Reaches(children, s, m)
                           \/ p = m \/ W[m].get.missed
      <3>1. Retrying(m, Views[m]) /\ Views[m].get # None
        BY <1>7, <2>1, <2>4 DEF Retrying
      <3>2. CASE Views[m].get.timeout = Unset
        BY <1>6, <2>1, <3>1, <3>2 DEF Attended
      <3>3. CASE Views[m].get.timeout # Unset
        <4> DEFINE k == Views[m].get.timeout
        <4>1. /\ k \in Int /\ W[m].get.timeout = OneLess(k)
              /\ W[m].get.missed = Views[m].get.missed
          BY <1>6, <2>1, <3>1, <3>3 DEF Pending
        <4>2. /\ k > 0 => TimerOn(s, et)
              /\ k <= 0 => \/ TimerOn(s, et) \/ W[m].scan \/ Reaches(children, s, m)
                           \/ p = m \/ Views[m].get.missed
          BY <1>4, <1>5, <2>1, <3>1, <3>3 DEF Attended
        <4> HIDE DEF k
        <4>3. OneLess(k) \in Int /\ (k > 0 <=> OneLess(k) >= 0)
          BY <1>3, <4>1
        <4>4. OneLess(k) # Unset
          BY <1>2, <4>3
        <4> QED
          BY <4>1, <4>2, <4>3, <4>4
      <3> QED
        BY <3>2, <3>3
    <2> QED
      BY <2>2, <2>3, <2>4 DEF Attended
  <1>10. WorkGood(children, live, W, s, et, p)
    BY <1>5, <1>8, <1>9 DEF WorkGood
  <1>11. HearGood(children, live, Waiting, W, s, p)
    <2>1. \A m \in live : Busies(p, m, Views[m]) => Busies(p, m, W[m])
      BY <1>5, <1>7, <1>8 DEF Busies
    <2> QED
      BY <1>8, <2>1 DEF HearGood, Heard
  <1>12. /\ children' = children /\ live' = live /\ CurrentSched' = s
         /\ node_pending' = p /\ Waiting' = Waiting /\ paused' = paused
         /\ listeners' = listeners /\ awaiting' = awaiting
    BY <1>1 DEF treeVars, live, CurrentSched, schedVars, ruleVars, clientVars, Waiting
  <1>13. Good(children', live', Waiting', Views', CurrentSched', etimer', node_pending')
    BY <1>10, <1>11, <1>12 DEF Good, W, et
  <1> QED
    BY <1>12, <1>13 DEF WorkInv

-----------------------------------------------------------------------------
(* The theorems.                                                           *)

\* At start a scan is requested, which sees to everything.
LEMMA InitWork ==
  ASSUME Init
  PROVE  WorkInv
  <1>1. IInv
    BY InitInv
  <1>2. /\ children = InitialChildren /\ scan_requested = TRUE /\ stack = <<>>
        /\ pending_get = [n \in Nodes |-> None]
        /\ paused = {} /\ listeners = {} /\ awaiting = {}
    BY DEF Init
  <1>3. live \subseteq Nodes
    BY TreeAssumption DEF live
  <1>4. IsTree(children, live)
    <2>1. ASSUME NEW n \in live, n # Root
          PROVE  /\ Parent[n] \in live
                 /\ \E j \in 1..Len(children[Parent[n]]) : children[Parent[n]][j] = n
      <3>1. n \in Nodes /\ Parent[n] \in Nodes
        BY <1>3, TreeAssumption
      <3>2. PICK j \in 1..Len(children[Parent[n]]) : children[Parent[n]][j] = n
        BY <1>1, <2>1, LiveNode DEF IInv
      <3>3. Parent[n] \in live
        <4>1. CASE Parent[n] = Root
          BY <4>1 DEF live
        <4>2. CASE Parent[n] # Root
          <5>1. InitialChildren[Parent[n]] # <<>>
            <6>1. \A q : q = <<>> => Len(q) = 0
              OBVIOUS
            <6>2. Len(InitialChildren[Parent[n]]) # 0
              BY <1>2, <3>2
            <6> QED
              BY <6>1, <6>2
          <5> QED
            BY <1>2, <3>1, <4>2, <5>1, RootAssumption DEF live
        <4> QED
          BY <4>1, <4>2
      <3> QED
        BY <3>2, <3>3
    <2> QED
      BY <1>3, <2>1 DEF IsTree
  <1>5. /\ CurrentSched.stack = <<>> /\ CurrentSched.requested = TRUE
        /\ \A n \in Nodes : Views[n].get = None
    BY <1>2 DEF CurrentSched, Views
  <1>6. OnTree(live, CurrentSched)
    <2>1. Len(CurrentSched.stack) = 0
      BY <1>5
    <2> QED
      BY <2>1 DEF OnTree
  <1>7. \A n : Reaches(children, CurrentSched, n)
    BY <1>5 DEF Reaches
  <1>8. ASSUME NEW n \in live
        PROVE  Attended(children, CurrentSched, etimer, node_pending, n, Views[n])
    BY <1>3, <1>5, <1>7 DEF Attended, Retrying
  <1>9. Waiting = {}
    BY <1>2 DEF Waiting
  <1>10. Good(children, live, Waiting, Views, CurrentSched, etimer, node_pending)
    BY <1>5, <1>6, <1>8, <1>9 DEF Good, WorkGood, HearGood
  <1> QED
    BY <1>2, <1>4, <1>10 DEF WorkInv

\* Every step keeps the invariant.
LEMMA NextWork ==
  ASSUME Undisturbed, IInv, WorkInv, [Next]_vars
  PROVE  WorkInv'
  <1>1. CASE ScanStep
    BY <1>1, ScanStepWork
  <1>2. CASE ProcessEvent
    BY <1>2, EvNextWork, EvWatchWork, EvTimerSetWork, EvTimerWork DEF ProcessEvent
  <1>3. CASE EtimerExpires
    BY <1>3, EtimerWork
  <1>4. CASE Tick
    BY <1>4, TickWork
  <1>5. CASE LowerLayer
    BY <1>5, LowerLayerWork
  <1>6. CASE Environment
    <2>1. PICK n \in Nodes :
            \/ \E v \in Values \cup {Undef} : ReportedWritten(n, v) \/ DesiredWritten(n, v)
            \/ NodeCreated(n) \/ NodeDeleted(n)
            \/ Pause(n) \/ Resume(n)
            \/ SetListener(n) \/ ClearListener(n)
            \/ RestartSet(n) \/ RestartGet(n)
      BY <1>6 DEF Environment
    <2>2. ~NodeDeleted(n)
      BY DEF NodeDeleted, Undisturbed
    <2> QED
      BY <2>1, <2>2, ApiWork, CreatedWork
  <1>7. CASE UNCHANGED vars
    <2>1. UNCHANGED <<treeVars, attrVars, schedVars, ruleVars, clientVars, etimer>>
      BY <1>7 DEF vars
    <2>2. StoreSched(CurrentSched)
      BY <2>1, SameSched
    <2>3. CurrentSched \in Sched /\ Keeps(children, live, CurrentSched, CurrentSched)
      BY FromState DEF Keeps
    <2> QED
      BY <2>1, <2>2, <2>3, KeptWork
  <1> QED
    BY <1>1, <1>2, <1>3, <1>4, <1>5, <1>6, <1>7 DEF Next

\* When the resolver sleeps, there is no scan, no timer and no rule that the
\* invariant could be about.
LEMMA NothingInStore ==
  ASSUME IInv, Asleep
  PROVE  /\ node_pending = None /\ ~TimerOn(CurrentSched, etimer)
         /\ \A n : ~Reaches(children, CurrentSched, n) /\ ~HasWatch(CurrentSched, n)
  <1>1. ~scanning /\ queue = <<>> /\ ~Busy /\ etimer = None
    BY DEF Asleep
  <1>2. node_pending = None
    BY <1>1 DEF IInv, RuleInv, EngineConsistent
  <1>3. ~scan_requested /\ stack = <<>>
    <2>1. DOMAIN queue = {}
      BY <1>1
    <2>2. ~NextQueued
      BY <2>1 DEF NextQueued
    <2> QED
      BY <1>1, <2>2 DEF IInv, SchedInv, WakeUp
  <1>4. Len(queue) = 0 /\ Len(stack) = 0
    BY <1>1, <1>3
  <1> QED
    BY <1>1, <1>2, <1>3, <1>4
       DEF TimerOn, HasTimer, HasWatch, Reaches, CurrentSched

\* On a tree that is left undisturbed, with a lower layer that takes every frame
\* and rules that have one for every call or resolve the node, the resolver
\* forgets no work but the retry that it comes to in the millisecond of its
\* deadline: when it sleeps, every other get that an attribute needs was given
\* up, and every set was sent.
THEOREM NoWorkIsLost == Undisturbed => (Spec => []NoLostWork)
  <1>1. SUFFICES ASSUME Undisturbed PROVE Spec => []NoLostWork
    OBVIOUS
  <1>2. Init => WorkInv
    BY InitWork
  <1>3. IInv /\ WorkInv /\ [Next]_vars => WorkInv'
    BY <1>1, NextWork
  <1>4. IInv /\ WorkInv => NoLostWork
    <2>1. SUFFICES ASSUME IInv, WorkInv, Asleep, NEW n \in live, ~MissedRetry(n)
                   PROVE  ~OwesWork(n)
      BY DEF NoLostWork
    <2>2. Attended(children, CurrentSched, etimer, node_pending, n, Views[n])
      BY <2>1 DEF WorkInv, Good, WorkGood
    <2>3. /\ n \in Nodes /\ n # None
          /\ Views[n].scan = FALSE /\ Views[n].set = pending_set[n]
          /\ Views[n].get = pending_get[n]
      BY <2>1, FromWork, ValueAssumption DEF Views
    <2>4. ~NeedsScan(n, Views[n])
      BY <2>1, <2>2, <2>3, NothingInStore DEF Attended
    <2>5. ~Retrying(n, Views[n])
      <3>1. SUFFICES ASSUME Retrying(n, Views[n]) PROVE FALSE
        OBVIOUS
      <3>2. Views[n].get \in Pending
        BY <2>1, <2>3, <3>1, FromWork DEF ViewsType, NodeView, Retrying
      <3>3. Views[n].get.timeout = Unset \/ Views[n].get.timeout \in Int
        BY <3>2 DEF Pending
      <3> QED
        BY <2>1, <2>2, <2>3, <3>1, <3>3, NothingInStore
           DEF Attended, Retrying, MissedRetry
    <2>6. Views[n].get # None => Views[n].get.count \in Nat /\ RetryCount \in Nat
      <3>1. Views[n].get # None => Views[n].get \in Pending
        BY <2>1, <2>3, FromWork DEF ViewsType, NodeView
      <3> QED
        BY <3>1, TimeAssumption DEF Pending
    <2> QED
      BY <2>3, <2>4, <2>5, <2>6
         DEF OwesWork, NeedsScan, Retrying, max_retries_reached
  <1> QED
    BY <1>2, <1>3, <1>4, Invariant, PTL DEF Spec

\* No listener is lost either, on nodes that have no get rule: when the resolver
\* sleeps, each listener that was not called has work below it.
THEOREM NoListenerIsLost ==
  Undisturbed /\ Listenable \cap HasGet = {} => (Spec => []NoLostListener)
  <1>1. SUFFICES ASSUME Undisturbed, Listenable \cap HasGet = {}
                 PROVE  Spec => []NoLostListener
    OBVIOUS
  <1>2. Init => WorkInv
    BY InitWork
  <1>3. IInv /\ WorkInv /\ [Next]_vars => WorkInv'
    BY <1>1, NextWork
  <1>4. IInv /\ WorkInv => NoLostListener
    <2>1. SUFFICES ASSUME IInv, WorkInv, Asleep, NEW k \in awaiting \cap live
                   PROVE  attribute_resolver_node_or_child_needs_resolution(k, Views)
      BY DEF NoLostListener
    <2>2. k \in Waiting
      BY <1>1, <2>1 DEF Waiting, WorkInv, IInv, ClientInv
    <2>3. Heard(children, live, Views, CurrentSched, node_pending, k)
      BY <2>1, <2>2 DEF WorkInv, Good, HearGood
    <2>4. PICK m \in live : k \in Above[m] /\ Busies(node_pending, m, Views[m])
      BY <2>1, <2>3, NothingInStore DEF Heard
    <2>5. m \in Nodes /\ ~Views[m].scan /\ node_pending # m
      BY <2>1, <2>4, FromWork, NothingInStore, ValueAssumption
    <2> QED
      BY <2>4, <2>5 DEF Busies, attribute_resolver_node_or_child_needs_resolution
  <1> QED
    BY <1>2, <1>3, <1>4, Invariant, PTL DEF Spec
=============================================================================
