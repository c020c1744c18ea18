-------------------------- MODULE DevGuiCacheProofs --------------------------
(* The cache of the Developer GUI implements a flat mirror of topics, for  *)
(* any topics and values; what it shows is complete and never stale, and   *)
(* no group without members is left in it.                                 *)
EXTENDS DevGuiCache, FiniteSetTheorems, TLAPS

-----------------------------------------------------------------------------
(* The abstract mirror: it shows nothing stale.                            *)

Shows == [t \in Mirrored |-> Shown(t)]
Kept == [t \in Mirrored |-> retained[t]]

Awaited == due \cap Mirrored

(* The inductive invariant: an unsubscribed server shows nothing, so that  *)
(* what the broker changes meanwhile leaves nothing stale, and nothing is  *)
(* on its way to it.                                                       *)
Fresh(shown, kept) == shown \in {None, kept} \/ (shown = Null /\ kept = None)

MirrorInv ==
  /\ \A t \in Mirrored : Fresh(Shown(t), retained[t])
  /\ ~subscribed => \A t \in Mirrored : Shown(t) = None
  /\ ~subscribed => Awaited = {}

LEMMA ReceiveFacts ==
  ASSUME NEW t \in Mirrored, NEW v, Mirror!Receive(t, v)
  PROVE  /\ Shown(t)' = v
         /\ \A s \in Mirrored \ {t} : Shown(s)' \in {None, Shown(s)}
<1>1. Shows' = [s \in Mirrored |->
                  IF s = t THEN v
                  ELSE IF v = None /\ s \in Mirror!Forgotten(t) THEN None
                  ELSE Shows[s]]
  BY DEF Mirror!Receive, Shows, Mirrored
<1>2. \A s \in Mirrored : Shows[s] = Shown(s) /\ Shows'[s] = Shown(s)'
  BY DEF Shows, Mirrored
<1>3. QED
  BY <1>1, <1>2

LEMMA MirrorInit == Mirror!Init => MirrorInv
<1> SUFFICES ASSUME Mirror!Init PROVE MirrorInv
  OBVIOUS
<1>1. Shows = [t \in Mirrored |-> None]
  BY DEF Mirror!Init, Shows
<1>2. \A t \in Mirrored : Shown(t) = None
  BY <1>1 DEF Shows
<1>3. Awaited = {}
  BY DEF Mirror!Init, Awaited
<1>4. QED
  BY <1>2, <1>3 DEF MirrorInv, Fresh

(* What is retained, topic by topic.                                       *)
LEMMA KeptFacts ==
  /\ \A t \in Mirrored : Kept[t] = retained[t] /\ Kept'[t] = retained'[t]
  /\ \A t \in Mirrored : Shows[t] = Shown(t) /\ Shows'[t] = Shown(t)'
BY DEF Kept, Shows, Mirrored

LEMMA MirrorStep == MirrorInv /\ [Mirror!Next]_(Mirror!vars) => MirrorInv'
<1> SUFFICES ASSUME MirrorInv, [Mirror!Next]_(Mirror!vars) PROVE MirrorInv'
  OBVIOUS
<1>1. Mirrored' = Mirrored
  BY DEF Mirrored
<1>2. ASSUME NEW t \in Mirrored, Mirror!Deliver(t)
      PROVE  MirrorInv'
  <2>1. Kept' = Kept /\ subscribed' = subscribed
    BY <1>2 DEF Mirror!Deliver, Kept, Mirrored
  <2>2. Mirror!Receive(t, Kept[t])
    BY <1>2 DEF Mirror!Deliver, Kept
  <2>3. /\ Shown(t)' = Kept[t]
        /\ \A s \in Mirrored \ {t} : Shown(s)' \in {None, Shown(s)}
    BY <2>2, ReceiveFacts
  <2>4. subscribed
    BY <1>2 DEF Mirror!Deliver, MirrorInv, Awaited
  <2>5. \A s \in Mirrored : Fresh(Shown(s)', retained'[s])
    BY <2>1, <2>3, KeptFacts DEF MirrorInv, Fresh
  <2>6. QED
    BY <1>1, <2>1, <2>4, <2>5, KeptFacts DEF MirrorInv
<1>3. ASSUME NEW t \in Mirrored, NEW v, Mirror!Publish(t, v)
      PROVE  MirrorInv'
  <2>1. /\ Kept' = [Kept EXCEPT ![t] = v]
        /\ subscribed' = subscribed /\ Awaited' = Awaited
    BY <1>3 DEF Mirror!Publish, Kept, Mirrored, Awaited
  <2>2. Kept'[t] = v /\ \A s \in Mirrored \ {t} : Kept'[s] = Kept[s]
    BY <2>1 DEF Kept
  <2>3. CASE subscribed
    <3>1. Mirror!Receive(t, v) \/ (v = None /\ Mirror!LeaveBlank(t))
      BY <1>3, <2>3 DEF Mirror!Publish
    <3>2. /\ Shown(t)' = v \/ (Shown(t)' = Null /\ v = None)
          /\ \A s \in Mirrored \ {t} : Shown(s)' \in {None, Shown(s)}
      <4>1. CASE Mirror!Receive(t, v)
        BY <4>1, ReceiveFacts
      <4>2. CASE v = None /\ Mirror!LeaveBlank(t)
        <5>1. Shows' = [Shows EXCEPT ![t] = Null]
          BY <4>2 DEF Mirror!LeaveBlank, Shows, Mirrored
        <5>2. Shows'[t] = Null /\ \A s \in Mirrored \ {t} : Shows'[s] = Shows[s]
          BY <5>1 DEF Shows
        <5>3. QED
          BY <4>2, <5>2, KeptFacts
      <4>3. QED
        BY <3>1, <4>1, <4>2
    <3>3. \A s \in Mirrored : Fresh(Shown(s)', retained'[s])
      BY <2>2, <3>2, KeptFacts DEF MirrorInv, Fresh
    <3>4. QED
      BY <1>1, <2>1, <2>3, <3>3 DEF MirrorInv
  <2>4. CASE ~subscribed
    <3>1. Shows' = Shows
      BY <1>3, <2>4 DEF Mirror!Publish, Shows, Mirrored
    <3>2. QED
      BY <1>1, <2>1, <2>4, <3>1, KeptFacts DEF MirrorInv, Fresh
  <2>5. QED
    BY <2>3, <2>4
<1>4. CASE Mirror!Subscribe
  <2>1. Kept' = Kept /\ Shows' = Shows /\ ~subscribed
    BY <1>4 DEF Mirror!Subscribe, Kept, Shows, Mirrored
  <2>2. subscribed'
    BY <1>4 DEF Mirror!Subscribe
  <2>3. QED
    BY <1>1, <2>1, <2>2, KeptFacts DEF MirrorInv
<1>5. CASE Mirror!Lose
  <2>1. Shows' = [t \in Mirrored |-> None] /\ Awaited' = {}
    BY <1>5 DEF Mirror!Lose, Shows, Mirrored, Awaited
  <2>2. \A t \in Mirrored : Shown(t)' = None
    BY <2>1, KeptFacts
  <2>3. QED
    BY <1>1, <2>1, <2>2 DEF MirrorInv, Fresh
<1>6. CASE Mirror!Reset
  <2>1. Shows' = [t \in Mirrored |-> None] /\ subscribed /\ subscribed' = subscribed
    BY <1>6 DEF Mirror!Reset, Shows, Mirrored
  <2>2. \A t \in Mirrored : Shown(t)' = None
    BY <2>1, KeptFacts
  <2>3. QED
    BY <1>1, <2>1, <2>2 DEF MirrorInv, Fresh
<1>7. CASE UNCHANGED Mirror!vars
  <2>1. /\ Kept' = Kept /\ Shows' = Shows
        /\ subscribed' = subscribed /\ Awaited' = Awaited
    BY <1>7 DEF Mirror!vars, Kept, Shows, Mirrored, Awaited
  <2>2. QED
    BY <1>1, <2>1, KeptFacts DEF MirrorInv
<1>8. QED
  BY <1>2, <1>3, <1>4, <1>5, <1>6, <1>7 DEF Mirror!Next

(* What implements the mirror of topics, as DevGuiCache is checked to do,  *)
(* never shows a message that the broker does not retain any more: neither *)
(* one that was replaced or cleared, also while the server was away, nor   *)
(* one of a node, group or image that was forgotten; at most it leaves a   *)
(* cleared topic blank.                                                    *)
THEOREM MirrorNeverStale == MirrorSpec => []NeverStale
<1>1. MirrorInv => NeverStale
  BY KeptFacts DEF MirrorInv, Fresh, NeverStale, Mirror!NeverStale
<1>2. QED
  BY <1>1, MirrorInit, MirrorStep, PTL DEF MirrorSpec, Mirror!Spec

-----------------------------------------------------------------------------
(* The inductive invariant of the cache.                                   *)

NodeRecord == [state : Values \cup {None}, network : Values \cup {None}, props : Props]
NodesOk(nodes) == \A u \in DOMAIN nodes : nodes[u] \in NodeRecord

GroupRecord ==
  [id : GroupIds, hasNodeList : BOOLEAN, NodeList : Props, props : Props]

(* Every member is of a topic of this instance, and has a value, or null:  *)
(* so that a list is empty exactly when none of its topics shows anything. *)
GroupOk(group) ==
  /\ group \in GroupRecord
  /\ \A u \in DOMAIN group.NodeList :
       /\ <<"NodeList", group.id, u>> \in Topics
       /\ group.NodeList[u] \in Values \cup {Null}

Distinct(groups) ==
  \A j, k \in DOMAIN groups : groups[j].id = groups[k].id => j = k

GroupsOk(groups) ==
  /\ groups \in Seq(GroupRecord)
  /\ \A k \in DOMAIN groups : GroupOk(groups[k]) /\ groups[k].hasNodeList
  /\ Distinct(groups)

(* An image is for nodes that have a topic.                                *)
ImageRecord == [image : Values, Unid : SUBSET Unids]
ImagesOk(images) ==
  \A i \in DOMAIN images :
    /\ images[i] \in ImageRecord
    /\ \A u \in images[i].Unid : <<"Image", i, u>> \in Topics

CacheOk == NodesOk(Nodes) /\ GroupsOk(Groups) /\ ImagesOk(OTA)

(* What is on its way is retained.                                         *)
BrokerOk ==
  /\ retained \in [Topics -> Values \cup {None}]
  /\ subscribed \in BOOLEAN
  /\ due \subseteq Topics /\ \A t \in due : retained[t] # None
  /\ dropped \subseteq Topics
  /\ published \in 0..MaxPublished /\ lost \in 0..MaxLost

(* The image is the same in all its topics, for all nodes or for some.     *)
ImagesAgree ==
  \A s, t \in Topics :
    /\ s[1] = "Image" /\ t[1] = "Image" /\ s[2] = t[2]
    /\ retained[s] # None /\ retained[t] # None
    => retained[s] = retained[t] /\ (s[3] = "all" <=> t[3] = "all")

CacheInv == BrokerOk /\ CacheOk /\ ImagesAgree /\ MirrorInv /\ Complete

-----------------------------------------------------------------------------
(* The loop that removes the groups without members.                       *)

(* It leaves a list alone in which every group has members.                *)
LEMMA SplicedWhole ==
  ASSUME NEW groups \in Seq(GroupRecord), \A k \in DOMAIN groups : groups[k].hasNodeList
  PROVE  Spliced(groups) = groups
<1> DEFINE L == Len(groups)
<1>1. L \in Nat /\ DOMAIN groups = 1..L /\ groups = [n \in 1..L |-> groups[n]]
  OBVIOUS
<1>2. Staying(groups) = 1..L
  BY <1>1 DEF Staying, Removed
<1>3. \A k \in 1..L : Before(groups, k) = k
  <2> SUFFICES ASSUME NEW k \in 1..L PROVE Before(groups, k) = k
    OBVIOUS
  <2>1. (1..L) \cap (1..k) = 1..k
    BY <1>1
  <2>2. Cardinality(1..k) = k
    BY FS_Interval
  <2>3. QED
    BY <1>2, <2>1, <2>2 DEF Before
<1>4. Cardinality(Staying(groups)) = L
  <2>1. L \in Nat
    BY <1>1
  <2> HIDE DEF L
  <2>2. Cardinality(1..L) = L
    BY <2>1, FS_Interval
  <2>3. QED
    BY <1>2, <2>2 DEF L
<1>5. \A n \in 1..L : (CHOOSE k \in Staying(groups) : Before(groups, k) = n) = n
  BY <1>2, <1>3
<1>6. QED
  BY <1>1, <1>4, <1>5 DEF Spliced

(* It removes the one that has none.                                       *)
LEMMA SplicedOne ==
  ASSUME NEW groups \in Seq(GroupRecord), NEW i \in DOMAIN groups,
         ~groups[i].hasNodeList,
         \A k \in DOMAIN groups \ {i} : groups[k].hasNodeList
  PROVE  Spliced(groups) = [n \in 1..(Len(groups) - 1) |->
                              IF n < i THEN groups[n] ELSE groups[n + 1]]
<1> DEFINE L == Len(groups)
           Nth(n) == CHOOSE k \in Staying(groups) : Before(groups, k) = n
<1>1. L \in Nat /\ DOMAIN groups = 1..L /\ i \in 1..L
  OBVIOUS
<1>2. \A k \in 1..L : Removed(groups, k) <=> k = i
  <2>1. Removed(groups, i)
    <3>1. i \in 1..i /\ (i - i) % 2 = 0 /\ \A m \in i..i : ~groups[m].hasNodeList
      BY <1>1
    <3>2. i = 1 \/ groups[i - 1].hasNodeList
      BY <1>1
    <3>3. QED
      BY <3>1, <3>2 DEF Removed
  <2>2. ASSUME NEW k \in 1..L, Removed(groups, k) PROVE k = i
    <3>1. ~groups[k].hasNodeList
      BY <2>2 DEF Removed
    <3>2. QED
      BY <1>1, <3>1
  <2>3. QED
    BY <2>1, <2>2
<1>3. Staying(groups) = (1..L) \ {i}
  BY <1>1, <1>2 DEF Staying
<1>4. Cardinality(Staying(groups)) = L - 1
  <2>1. L \in Nat /\ i \in 1..L
    BY <1>1
  <2> HIDE DEF L
  <2>2. IsFiniteSet(1..L) /\ Cardinality(1..L) = L
    BY <2>1, FS_Interval
  <2>3. Cardinality((1..L) \ {i}) = L - 1
    BY <2>1, <2>2, FS_RemoveElement
  <2>4. QED
    BY <1>3, <2>3 DEF L
<1>5. \A k \in (1..L) \ {i} : Before(groups, k) = IF k < i THEN k ELSE k - 1
  <2> SUFFICES ASSUME NEW k \in (1..L) \ {i}
               PROVE  Before(groups, k) = IF k < i THEN k ELSE k - 1
    OBVIOUS
  <2>1. Staying(groups) \cap 1..k = (1..k) \ {i}
    BY <1>1, <1>3
  <2>2. IsFiniteSet(1..k) /\ Cardinality(1..k) = k
    BY FS_Interval
  <2>3. Cardinality((1..k) \ {i}) = IF i \in 1..k THEN k - 1 ELSE k
    BY <2>2, FS_RemoveElement
  <2>4. i \in 1..k <=> ~(k < i)
    BY <1>1
  <2>5. QED
    BY <2>1, <2>3, <2>4 DEF Before
<1>6. \A n \in 1..(L - 1) : Nth(n) = IF n < i THEN n ELSE n + 1
  <2> SUFFICES ASSUME NEW n \in 1..(L - 1)
               PROVE  Nth(n) = IF n < i THEN n ELSE n + 1
    OBVIOUS
  <2> DEFINE c == IF n < i THEN n ELSE n + 1
  <2>1. c \in (1..L) \ {i} /\ Before(groups, c) = n
    BY <1>1, <1>5
  <2>2. \A k \in (1..L) \ {i} : Before(groups, k) = n => k = c
    BY <1>1, <1>5
  <2>3. QED
    BY <1>3, <2>1, <2>2
<1>7. QED
  <2> DEFINE At(n) == groups[Nth(n)]
             Rest(n) == IF n < i THEN groups[n] ELSE groups[n + 1]
  <2>1. Spliced(groups) = [n \in 1..(L - 1) |-> At(n)]
    BY <1>4 DEF Spliced
  <2>2. \A n \in 1..(L - 1) : At(n) = Rest(n)
    <3> HIDE DEF Nth
    <3>1. QED
      BY <1>6
  <2>3. [n \in 1..(L - 1) |-> At(n)] = [n \in 1..(L - 1) |-> Rest(n)]
    <3> HIDE DEF At, Rest, L
    <3>1. QED
      BY <2>2
  <2>4. QED
    BY <2>1, <2>3

-----------------------------------------------------------------------------
(* Objects.                                                                *)

LEMMA PropsType ==
  /\ \A f \in Props : /\ f = [x \in DOMAIN f |-> f[x]]
                      /\ DOMAIN f \subseteq Paths \cup Unids
                      /\ \A x \in DOMAIN f : f[x] \in Values \cup {Null}
  /\ \A S \in SUBSET (Paths \cup Unids) : [S -> Values \cup {Null}] \subseteq Props
BY DEF Props

LEMMA NoPropsType == NoProps \in Props /\ DOMAIN NoProps = {}
<1>1. NoProps \in [{} -> Values \cup {Null}] /\ DOMAIN NoProps = {}
  BY DEF NoProps
<1>2. QED
  BY <1>1, PropsType

LEMMA PutType ==
  ASSUME NEW f \in Props, NEW x \in Paths \cup Unids, NEW y \in Values \cup {Null}
  PROVE  Put(f, x, y) \in Props
<1>1. DOMAIN f \cup {x} \in SUBSET (Paths \cup Unids)
  BY PropsType
<1>2. Put(f, x, y) \in [DOMAIN f \cup {x} -> Values \cup {Null}]
  BY PropsType DEF Put
<1>3. QED
  BY <1>1, <1>2, PropsType

LEMMA DropType ==
  ASSUME NEW f \in Props, NEW x
  PROVE  Drop(f, x) \in Props
<1>1. DOMAIN f \ {x} \in SUBSET (Paths \cup Unids)
  BY PropsType
<1>2. Drop(f, x) \in [DOMAIN f \ {x} -> Values \cup {Null}]
  BY PropsType DEF Drop
<1>3. QED
  BY <1>1, <1>2, PropsType

(* A message sets what is shown of its own property, and of no other; an   *)
(* empty message leaves nothing to show, whether there was a leaf or not.  *)
LEMMA initPropFacts ==
  ASSUME NEW f \in Props, NEW x \in Paths \cup Unids, NEW v \in Values \cup {None}
  PROVE  /\ initProp(f, x, v) \in Props
         /\ ValueIn(initProp(f, x, v), x) = v
         /\ \A y : y # x => ValueIn(initProp(f, x, v), y) = ValueIn(f, y)
<1>1. CASE v # None
  <2>1. initProp(f, x, v) = Put(f, x, v) /\ v \in Values
    BY <1>1 DEF initProp
  <2>2. QED
    BY <2>1, PutType, ValueAssumption DEF ValueIn, Put
<1>2. CASE v = None /\ x \in DOMAIN f
  <2>1. initProp(f, x, v) = Drop(f, x)
    BY <1>2 DEF initProp
  <2>2. QED
    BY <1>2, <2>1, DropType DEF ValueIn, Drop
<1>3. CASE v = None /\ x \notin DOMAIN f
  <2>1. initProp(f, x, v) = Put(f, x, Null)
    BY <1>3 DEF initProp
  <2>2. QED
    BY <1>3, <2>1, PutType DEF ValueIn, Put
<1>4. QED
  BY <1>1, <1>2, <1>3

-----------------------------------------------------------------------------
(* Groups: what is held of a group in a list; a group that is not there is *)
(* as good as a new one.                                                   *)

GroupIn(groups, g) == {k \in DOMAIN groups : groups[k].id = g}
Held(groups, g) ==
  IF GroupIn(groups, g) # {} THEN groups[CHOOSE k \in GroupIn(groups, g) : TRUE]
  ELSE NewGroup(g)

LEMMA HeldAt ==
  ASSUME NEW groups, Distinct(groups), NEW k \in DOMAIN groups
  PROVE  /\ GroupIn(groups, groups[k].id) = {k}
         /\ Held(groups, groups[k].id) = groups[k]
BY DEF Distinct, GroupIn, Held

(* Lists that hold the same groups, at other places.                       *)
LEMMA HeldSame ==
  ASSUME NEW A, NEW B, Distinct(A), Distinct(B), NEW h,
         \A j \in DOMAIN A : A[j].id = h => \E k \in DOMAIN B : B[k] = A[j],
         \A k \in DOMAIN B : B[k].id = h => \E j \in DOMAIN A : B[k] = A[j]
  PROVE  Held(A, h) = Held(B, h)
<1>1. CASE GroupIn(A, h) = {}
  BY <1>1 DEF GroupIn, Held
<1>2. CASE GroupIn(A, h) # {}
  <2>1. PICK j \in DOMAIN A : A[j].id = h
    BY <1>2 DEF GroupIn
  <2>2. PICK k \in DOMAIN B : B[k] = A[j]
    BY <2>1
  <2>3. QED
    BY <2>1, <2>2, HeldAt
<1>3. QED
  BY <1>1, <1>2

(* The lists that processGroup makes of a list: another list in which one  *)
(* group is another one.                                                   *)
Becomes(A, B, g, group) ==
  /\ GroupsOk(B)
  /\ Held(B, g) = group
  /\ \A h \in GroupIds \ {g} : Held(B, h) = Held(A, h)

LEMMA AppendGroup ==
  ASSUME NEW A, GroupsOk(A), NEW g \in GroupIds, GroupIn(A, g) = {},
         NEW group, GroupOk(group), group.id = g, group.hasNodeList
  PROVE  Becomes(A, Spliced(Append(A, group)), g, group)
<1> DEFINE B == Append(A, group)
           L == Len(A)
<1>1. A \in Seq(GroupRecord) /\ group \in GroupRecord
  BY DEF GroupsOk, GroupOk
<1>2. /\ B \in Seq(GroupRecord)
      /\ L \in Nat /\ DOMAIN A = 1..L /\ DOMAIN B = 1..(L + 1)
      /\ B[L + 1] = group /\ \A k \in 1..L : B[k] = A[k]
  BY <1>1
<1> HIDE DEF B, L
<1>3. \A k \in 1..L : A[k].id # g
  BY <1>2 DEF GroupIn
<1>4. \A k \in DOMAIN B : k \in 1..L \/ k = L + 1
  BY <1>2
<1>5. \A k \in DOMAIN B : GroupOk(B[k]) /\ B[k].hasNodeList
  BY <1>2, <1>4 DEF GroupsOk
<1>6. Distinct(B)
  BY <1>2, <1>3, <1>4 DEF GroupsOk, Distinct
<1>7. Spliced(B) = B
  BY <1>2, <1>5, SplicedWhole
<1>8. Held(B, g) = group
  <2>1. L + 1 \in DOMAIN B
    BY <1>2
  <2>2. QED
    BY <1>2, <1>6, <2>1, HeldAt
<1>9. \A h \in GroupIds \ {g} : Held(B, h) = Held(A, h)
  <2> SUFFICES ASSUME NEW h \in GroupIds \ {g} PROVE Held(B, h) = Held(A, h)
    OBVIOUS
  <2>1. \A j \in DOMAIN B : B[j].id = h => \E k \in DOMAIN A : A[k] = B[j]
    BY <1>2, <1>4
  <2>2. \A k \in DOMAIN A : A[k].id = h => \E j \in DOMAIN B : A[k] = B[j]
    BY <1>2
  <2>3. Distinct(A)
    BY DEF GroupsOk
  <2>4. QED
    BY <1>6, <2>1, <2>2, <2>3, HeldSame
<1>10. GroupsOk(B)
  BY <1>2, <1>5, <1>6 DEF GroupsOk
<1>11. QED
  BY <1>7, <1>8, <1>9, <1>10 DEF Becomes, B

LEMMA ReplaceGroup ==
  ASSUME NEW A, GroupsOk(A), NEW i \in DOMAIN A,
         NEW group, GroupOk(group), group.id = A[i].id, group.hasNodeList
  PROVE  Becomes(A, Spliced([A EXCEPT ![i] = group]), A[i].id, group)
<1> DEFINE B == [A EXCEPT ![i] = group]
<1>1. A \in Seq(GroupRecord) /\ group \in GroupRecord
  BY DEF GroupsOk, GroupOk
<1>2. /\ B \in Seq(GroupRecord) /\ DOMAIN B = DOMAIN A
      /\ B[i] = group /\ \A k \in DOMAIN A \ {i} : B[k] = A[k]
  BY <1>1
<1> HIDE DEF B
<1>3. \A k \in DOMAIN B : GroupOk(B[k]) /\ B[k].hasNodeList
  BY <1>2 DEF GroupsOk
<1>4. Distinct(A) /\ Distinct(B)
  BY <1>2 DEF GroupsOk, Distinct
<1>5. Spliced(B) = B
  BY <1>2, <1>3, SplicedWhole
<1>6. Held(B, A[i].id) = group
  BY <1>2, <1>4, HeldAt
<1>7. \A h \in GroupIds \ {A[i].id} : Held(B, h) = Held(A, h)
  <2> SUFFICES ASSUME NEW h \in GroupIds \ {A[i].id} PROVE Held(B, h) = Held(A, h)
    OBVIOUS
  <2>1. /\ \A j \in DOMAIN B : B[j].id = h => \E k \in DOMAIN A : A[k] = B[j]
        /\ \A k \in DOMAIN A : A[k].id = h => \E j \in DOMAIN B : A[k] = B[j]
    BY <1>2
  <2>2. QED
    BY <1>4, <2>1, HeldSame
<1>8. GroupsOk(B)
  BY <1>2, <1>3, <1>4 DEF GroupsOk
<1>9. QED
  BY <1>5, <1>6, <1>7, <1>8 DEF Becomes, B

(* A group whose NodeList has become undefined is removed.                 *)
LEMMA RemoveGroup ==
  ASSUME NEW A, GroupsOk(A), NEW i \in DOMAIN A,
         NEW group \in GroupRecord, ~group.hasNodeList
  PROVE  Becomes(A, Spliced([A EXCEPT ![i] = group]), A[i].id, NewGroup(A[i].id))
<1> DEFINE H == [A EXCEPT ![i] = group]
           L == Len(A)
           At(n) == IF n < i THEN n ELSE n + 1
           B == [n \in 1..(L - 1) |-> IF n < i THEN H[n] ELSE H[n + 1]]
<1>1. A \in Seq(GroupRecord) /\ \A k \in DOMAIN A : A[k].hasNodeList
  BY DEF GroupsOk
<1>2. /\ H \in Seq(GroupRecord) /\ Len(H) = L /\ DOMAIN H = 1..L
      /\ L \in Nat /\ DOMAIN A = 1..L /\ i \in 1..L
      /\ H[i] = group /\ \A k \in (1..L) \ {i} : H[k] = A[k]
  BY <1>1
<1> HIDE DEF H
<1>3. Spliced(H) = B
  <2>1. /\ i \in DOMAIN H /\ ~H[i].hasNodeList
        /\ \A k \in DOMAIN H \ {i} : H[k].hasNodeList
    BY <1>1, <1>2
  <2>2. Spliced(H) = [n \in 1..(Len(H) - 1) |-> IF n < i THEN H[n] ELSE H[n + 1]]
    BY <1>2, <2>1, SplicedOne
  <2>3. QED
    BY <1>2, <2>2
<1> HIDE DEF L
<1>4. \A n \in 1..(L - 1) : At(n) \in (1..L) \ {i} /\ B[n] = A[At(n)]
  BY <1>2
<1>5. B \in Seq(GroupRecord) /\ DOMAIN B = 1..(L - 1)
  <2>1. \A n \in 1..(L - 1) : B[n] \in GroupRecord
    <3>1. \A k \in 1..L : A[k] \in GroupRecord
      BY <1>1, <1>2
    <3>2. QED
      BY <1>4, <3>1
  <2>2. L - 1 \in Nat
    BY <1>2
  <2>3. QED
    BY <2>1, <2>2
<1> HIDE DEF B
<1>6. \A n \in DOMAIN B : \E k \in DOMAIN A : k # i /\ B[n] = A[k]
  BY <1>2, <1>4, <1>5
<1> HIDE DEF At
<1>7. \A k \in DOMAIN A \ {i} : \E n \in DOMAIN B : B[n] = A[k]
  <2> SUFFICES ASSUME NEW k \in DOMAIN A \ {i} PROVE \E n \in DOMAIN B : B[n] = A[k]
    OBVIOUS
  <2>1. CASE k < i
    <3>1. k \in 1..(L - 1) /\ At(k) = k
      BY <1>2, <2>1 DEF At
    <3>2. QED
      BY <1>4, <1>5, <3>1
  <2>2. CASE i < k
    <3>1. k - 1 \in 1..(L - 1) /\ At(k - 1) = k
      BY <1>2, <2>2 DEF At
    <3>2. QED
      BY <1>4, <1>5, <3>1
  <2>3. QED
    BY <1>2, <2>1, <2>2
<1>8. Distinct(A) /\ Distinct(B)
  <2>1. Distinct(A)
    BY DEF GroupsOk
  <2>2. \A m, n \in 1..(L - 1) : At(m) = At(n) => m = n
    BY <1>2 DEF At
  <2>3. QED
    BY <1>2, <1>4, <1>5, <2>1, <2>2 DEF Distinct
<1>9. GroupsOk(B)
  BY <1>5, <1>6, <1>8 DEF GroupsOk
<1>10. Held(B, A[i].id) = NewGroup(A[i].id)
  <2>1. \A k \in DOMAIN A : k # i => A[k].id # A[i].id
    BY <1>8 DEF Distinct
  <2>2. GroupIn(B, A[i].id) = {}
    BY <1>6, <2>1 DEF GroupIn
  <2>3. QED
    BY <2>2 DEF Held
<1>11. \A h \in GroupIds \ {A[i].id} : Held(B, h) = Held(A, h)
  <2> SUFFICES ASSUME NEW h \in GroupIds \ {A[i].id} PROVE Held(B, h) = Held(A, h)
    OBVIOUS
  <2>1. /\ \A j \in DOMAIN B : B[j].id = h => \E k \in DOMAIN A : A[k] = B[j]
        /\ \A k \in DOMAIN A : A[k].id = h => \E j \in DOMAIN B : A[k] = B[j]
    BY <1>6, <1>7
  <2>2. QED
    BY <1>8, <2>1, HeldSame
<1>12. QED
  BY <1>3, <1>9, <1>10, <1>11 DEF Becomes, H

-----------------------------------------------------------------------------
(* What is shown of a topic, by the kind of the topic.                     *)

NodeIn(nodes, u) == IF u \in DOMAIN nodes THEN nodes[u] ELSE NewNode
MemberIn(list, u) == IF u \in DOMAIN list THEN list[u] ELSE None
ImageIn(images, i, x) ==
  IF i \in DOMAIN images /\ IF x = "all" THEN images[i].Unid = {} ELSE x \in images[i].Unid
  THEN images[i].image ELSE None

LEMMA TopicCases ==
  ASSUME NEW t \in Topics
  PROVE  \/ \E u \in Unids : t = <<"State", u>>
         \/ \E u \in Unids : t = <<"NetworkManagement", u>>
         \/ \E u \in Unids, p \in Paths : t = <<"Property", u, p>>
         \/ \E g \in GroupIds, u \in Unids : t = <<"NodeList", g, u>>
         \/ \E g \in GroupIds, p \in Paths : t = <<"GroupProperty", g, p>>
         \/ \E i \in Uiids, x \in Unids \cup {"all"} : t = <<"Image", i, x>>
BY TopicAssumption DEF AllTopics, NodeTopics, GroupTopics, Members, ImageTopics

LEMMA MirroredCases ==
  ASSUME NEW t \in Mirrored
  PROVE  \/ \E u \in Unids : t = <<"State", u>>
         \/ \E u \in Unids, p \in Paths : t = <<"Property", u, p>>
         \/ \E g \in GroupIds, u \in Unids : t = <<"NodeList", g, u>>
         \/ \E g \in GroupIds, p \in Paths : t = <<"GroupProperty", g, p>>
         \/ \E i \in Uiids, x \in Unids \cup {"all"} : t = <<"Image", i, x>>
BY TopicCases DEF Mirrored

LEMMA ShownNode ==
  /\ \A u : Shown(<<"State", u>>) = NodeIn(Nodes, u).state
  /\ \A u, p : Shown(<<"Property", u, p>>) = ValueIn(NodeIn(Nodes, u).props, p)
  /\ \A u : Shown(<<"State", u>>)' = NodeIn(Nodes', u).state
  /\ \A u, p : Shown(<<"Property", u, p>>)' = ValueIn(NodeIn(Nodes', u).props, p)
BY DEF Shown, NodeIn, NewNode, ValueIn, NoProps

LEMMA ShownGroup ==
  /\ \A g, u : Shown(<<"NodeList", g, u>>) = MemberIn(Held(Groups, g).NodeList, u)
  /\ \A g, p : Shown(<<"GroupProperty", g, p>>) = ValueIn(Held(Groups, g).props, p)
  /\ \A g, u : Shown(<<"NodeList", g, u>>)' = MemberIn(Held(Groups', g).NodeList, u)
  /\ \A g, p : Shown(<<"GroupProperty", g, p>>)' = ValueIn(Held(Groups', g).props, p)
<1>1. \A g : /\ IndexOf(g) = GroupIn(Groups, g)
             /\ GroupIn(Groups, g) # {} => Group(g) = Held(Groups, g)
             /\ GroupIn(Groups, g) = {} => Held(Groups, g) = NewGroup(g)
  BY DEF IndexOf, GroupIn, Group, Held
<1>2. \A g : /\ IndexOf(g)' = GroupIn(Groups', g)
             /\ GroupIn(Groups', g) # {} => Group(g)' = Held(Groups', g)
             /\ GroupIn(Groups', g) = {} => Held(Groups', g) = NewGroup(g)
  BY DEF IndexOf, GroupIn, Group, Held
<1>3. \A g : /\ \A u : MemberIn(NewGroup(g).NodeList, u) = None
             /\ \A p : ValueIn(NewGroup(g).props, p) = None
  BY DEF NewGroup, MemberIn, ValueIn, NoProps
<1>4. /\ \A g, u : Shown(<<"NodeList", g, u>>) =
                     IF IndexOf(g) # {} THEN MemberIn(Group(g).NodeList, u) ELSE None
      /\ \A g, p : Shown(<<"GroupProperty", g, p>>) =
                     IF IndexOf(g) # {} THEN ValueIn(Group(g).props, p) ELSE None
  BY DEF Shown, MemberIn
<1>5. /\ \A g, u : Shown(<<"NodeList", g, u>>)' =
                     IF IndexOf(g)' # {} THEN MemberIn(Group(g)'.NodeList, u) ELSE None
      /\ \A g, p : Shown(<<"GroupProperty", g, p>>)' =
                     IF IndexOf(g)' # {} THEN ValueIn(Group(g)'.props, p) ELSE None
  BY DEF Shown, MemberIn
<1>6. QED
  BY <1>1, <1>2, <1>3, <1>4, <1>5

LEMMA ShownImage ==
  /\ \A i, x : Shown(<<"Image", i, x>>) = ImageIn(OTA, i, x)
  /\ \A i, x : Shown(<<"Image", i, x>>)' = ImageIn(OTA', i, x)
BY DEF Shown, ImageIn

-----------------------------------------------------------------------------
(* What is forgotten with a topic.                                         *)

LEMMA ForgottenNode ==
  ASSUME NEW u \in Unids, <<"State", u>> \in Mirrored
  PROVE  Mirror!Forgotten(<<"State", u>>) = NodeTopics(u) \cap Mirrored
<1> DEFINE t == <<"State", u>>
           own == Owner(NodeTopics(u), {t})
<1>1. own.keys = {t} /\ own.topics = NodeTopics(u) \cap Mirrored
  BY DEF Owner
<1>2. \A x \in Unids : t \in Owner(NodeTopics(x), {<<"State", x>>}).keys => x = u
  BY DEF Owner
<1>3. \A g \in GroupIds : t \notin Owner(GroupTopics(g), Members(g)).keys
  BY DEF Owner, Members
<1>4. QED
  BY <1>1, <1>2, <1>3 DEF Mirror!Forgotten

LEMMA ForgottenGroup ==
  ASSUME NEW g \in GroupIds, NEW u \in Unids, <<"NodeList", g, u>> \in Mirrored
  PROVE  Mirror!Forgotten(<<"NodeList", g, u>>) =
           IF \A k \in (Members(g) \cap Mirrored) \ {<<"NodeList", g, u>>} : Shown(k) = None
           THEN GroupTopics(g) \cap Mirrored ELSE {}
<1> DEFINE t == <<"NodeList", g, u>>
           own == Owner(GroupTopics(g), Members(g))
<1>1. own.keys = Members(g) \cap Mirrored /\ own.topics = GroupTopics(g) \cap Mirrored
  BY DEF Owner
<1>2. t \in own.keys
  BY <1>1 DEF Members
<1>3. \A x \in Unids : t \notin Owner(NodeTopics(x), {<<"State", x>>}).keys
  BY DEF Owner
<1>4. \A h \in GroupIds : t \in Owner(GroupTopics(h), Members(h)).keys => h = g
  BY DEF Owner, Members
<1>5. \A k \in own.keys : [s \in Mirrored |-> Shown(s)][k] = Shown(k)
  BY <1>1
<1> DEFINE owners == {Owner(NodeTopics(x), {<<"State", x>>}) : x \in Unids}
                       \cup {Owner(GroupTopics(h), Members(h)) : h \in GroupIds}
           Alone(p) == \A k \in p.keys \ {t} : [s \in Mirrored |-> Shown(s)][k] = None
           Gone == {p \in owners : t \in p.keys /\ Alone(p)}
<1>6. Mirror!Forgotten(t) = UNION {o.topics : o \in Gone}
  BY DEF Mirror!Forgotten
<1>7. Alone(own) <=> \A k \in (Members(g) \cap Mirrored) \ {t} : Shown(k) = None
  BY <1>1, <1>5
<1>8. own \in owners /\ \A p \in owners : t \in p.keys => p = own
  BY <1>3, <1>4
<1> HIDE DEF owners, Alone
<1>9. CASE Alone(own)
  <2>1. Gone = {own}
    BY <1>2, <1>8, <1>9
  <2>2. UNION {o.topics : o \in Gone} = own.topics
    BY <2>1
  <2>3. QED
    BY <1>1, <1>6, <1>7, <1>9, <2>2
<1>10. CASE ~Alone(own)
  <2>1. Gone = {}
    BY <1>8, <1>10
  <2>2. QED
    BY <1>6, <1>7, <1>10, <2>1
<1>11. QED
  BY <1>9, <1>10

LEMMA ForgottenOther ==
  ASSUME NEW t \in Mirrored, t[1] \notin {"State", "NodeList"}
  PROVE  Mirror!Forgotten(t) = {}
<1>1. \A x \in Unids : t \notin Owner(NodeTopics(x), {<<"State", x>>}).keys
  BY DEF Owner
<1>2. \A h \in GroupIds : t \notin Owner(GroupTopics(h), Members(h)).keys
  BY DEF Owner, Members
<1>3. QED
  BY <1>1, <1>2 DEF Mirror!Forgotten

-----------------------------------------------------------------------------
(* The handlers, each of which implements the receipt of its message.      *)

Heard(t, v) ==
  \A s \in Mirrored :
    Shown(s)' = IF s = t THEN v
                ELSE IF v = None /\ s \in Mirror!Forgotten(t) THEN None
                ELSE Shown(s)

Blanked(t) == \A s \in Mirrored : Shown(s)' = IF s = t THEN Null ELSE Shown(s)

(* A member that is cleared without being there is left blank in its group,*)
(* or, when the group is not there either, changes nothing.                *)
Missing(t, v) == t[1] = "NodeList" /\ v = None /\ Shown(t) = None
Taken(t, v) ==
  \/ /\ Heard(t, v)
     /\ Missing(t, v) => \A s \in Mirrored : Shown(s)' = Shown(s)
  \/ Missing(t, v) /\ Blanked(t)

LEMMA ReceiveHeard ==
  ASSUME NEW t, NEW v, Heard(t, v)
  PROVE  Mirror!Receive(t, v)
<1>1. Shows' = [s \in Mirrored |-> Shown(s)']
  BY DEF Shows, Mirrored
<1>2. \A s \in Mirrored : Shows[s] = Shown(s)
  BY DEF Shows
<1>3. [s \in Mirrored |-> Shown(s)'] =
        [s \in Mirrored |-> IF s = t THEN v
                            ELSE IF v = None /\ s \in Mirror!Forgotten(t) THEN None
                            ELSE Shows[s]]
  BY <1>2 DEF Heard
<1>4. QED
  BY <1>1, <1>3 DEF Mirror!Receive, Shows

LEMMA BlankHeard ==
  ASSUME NEW t \in Mirrored, t[1] = "NodeList", Shown(t) = None, retained[t] # None,
         Blanked(t)
  PROVE  Mirror!LeaveBlank(t)
<1>1. Shows' = [s \in Mirrored |-> Shown(s)'] /\ Shows[t] = None /\ Kept[t] # None
  BY DEF Shows, Kept, Mirrored
<1>2. [s \in Mirrored |-> Shown(s)'] = [Shows EXCEPT ![t] = Null]
  BY DEF Blanked, Shows
<1>3. PICK g \in GroupIds, u \in Unids : t = <<"NodeList", g, u>>
  BY MirroredCases
<1>4. t \in Owner(GroupTopics(g), Members(g)).keys
  BY <1>3 DEF Owner, Members
<1>5. QED
  BY <1>1, <1>2, <1>4 DEF Mirror!LeaveBlank, Shows, Kept

LEMMA NodeFacts ==
  ASSUME NEW nodes, NodesOk(nodes)
  PROVE  /\ \A u : NodeIn(nodes, u) \in NodeRecord
         /\ \A u : \A n \in NodeRecord :
              /\ NodesOk(Put(nodes, u, n))
              /\ NodeIn(Put(nodes, u, n), u) = n
              /\ \A x : x # u => NodeIn(Put(nodes, u, n), x) = NodeIn(nodes, x)
         /\ \A u : /\ NodesOk(Drop(nodes, u))
                   /\ NodeIn(Drop(nodes, u), u) = NewNode
                   /\ \A x : x # u => NodeIn(Drop(nodes, u), x) = NodeIn(nodes, x)
<1>1. NewNode \in NodeRecord
  BY NoPropsType DEF NewNode, NodeRecord
<1>2. QED
  BY <1>1 DEF NodesOk, NodeIn, Put, Drop

(* A topic of a node, heard when the groups and the images stay and of the *)
(* nodes only one changes.                                                 *)
LEMMA HeardNode ==
  ASSUME UNCHANGED <<Groups, OTA>>,
         NEW u \in Unids, NEW t, NEW v,
         \A x \in Unids \ {u} : NodeIn(Nodes', x) = NodeIn(Nodes, x),
         \A s \in Mirrored : s \in Mirror!Forgotten(t) => s \in NodeTopics(u),
         t \notin Mirrored \/ t \in NodeTopics(u),
         \A s \in Mirrored \cap NodeTopics(u) :
           Shown(s)' = IF s = t THEN v
                       ELSE IF v = None /\ s \in Mirror!Forgotten(t) THEN None
                       ELSE Shown(s)
  PROVE  Heard(t, v)
<1> SUFFICES ASSUME NEW s \in Mirrored, s \notin NodeTopics(u)
             PROVE  Shown(s)' = Shown(s)
  BY DEF Heard
<1>1. CASE \E x \in Unids : s = <<"State", x>>
  <2>1. PICK x \in Unids : s = <<"State", x>>
    BY <1>1
  <2>2. x # u
    BY <2>1 DEF NodeTopics
  <2>3. QED
    BY <2>1, <2>2, ShownNode
<1>2. CASE \E x \in Unids, p \in Paths : s = <<"Property", x, p>>
  <2>1. PICK x \in Unids, p \in Paths : s = <<"Property", x, p>>
    BY <1>2
  <2>2. x # u
    BY <2>1 DEF NodeTopics
  <2>3. QED
    BY <2>1, <2>2, ShownNode
<1>3. CASE \E g \in GroupIds, x \in Unids : s = <<"NodeList", g, x>>
  BY <1>3, ShownGroup
<1>4. CASE \E g \in GroupIds, p \in Paths : s = <<"GroupProperty", g, p>>
  BY <1>4, ShownGroup
<1>5. CASE \E i \in Uiids, x \in Unids \cup {"all"} : s = <<"Image", i, x>>
  BY <1>5, ShownImage
<1>6. QED
  BY <1>1, <1>2, <1>3, <1>4, <1>5, MirroredCases

(* The mirrored topics of a node.                                          *)
LEMMA NodeTopicCases ==
  ASSUME NEW u, NEW s \in Mirrored \cap NodeTopics(u)
  PROVE  s = <<"State", u>> \/ \E p \in Paths : s = <<"Property", u, p>>
BY DEF Mirrored, NodeTopics

LEMMA StateHeard ==
  ASSUME CacheOk, NEW u \in Unids, <<"State", u>> \in Topics,
         NEW v \in Values \cup {None}, processNodeState(u, v)
  PROVE  CacheOk' /\ Heard(<<"State", u>>, v)
<1> DEFINE t == <<"State", u>>
           n == [NodeIn(Nodes, u) EXCEPT !.state = v]
<1>1. UNCHANGED <<Groups, OTA>> /\ getNodeByUnid(u) = NodeIn(Nodes, u)
  BY DEF processNodeState, getNodeByUnid, NodeIn
<1>2. NodesOk(Nodes) /\ t \in Mirrored /\ t \in NodeTopics(u)
  BY DEF CacheOk, Mirrored, NodeTopics
<1>3. Mirror!Forgotten(t) = NodeTopics(u) \cap Mirrored
  BY <1>2, ForgottenNode
<1>4. /\ NodeIn(Nodes, u) \in NodeRecord /\ n \in NodeRecord
      /\ n.state = v /\ n.props = NodeIn(Nodes, u).props
  BY <1>2, NodeFacts DEF NodeRecord
<1> HIDE DEF n
<1>5. CASE v = None
  <2>1. Nodes' = Drop(Nodes, u)
    BY <1>5 DEF processNodeState
  <2>2. /\ NodesOk(Nodes') /\ NodeIn(Nodes', u) = NewNode
        /\ \A x : x # u => NodeIn(Nodes', x) = NodeIn(Nodes, x)
    BY <1>2, <2>1, NodeFacts
  <2>3. \A s \in Mirrored \cap NodeTopics(u) : Shown(s)' = None
    BY <2>2, ShownNode, NodeTopicCases DEF NewNode, ValueIn, NoProps
  <2>4. Heard(t, v)
    BY <1>1, <1>2, <1>3, <1>5, <2>2, <2>3, HeardNode
  <2>5. QED
    BY <1>1, <2>2, <2>4 DEF CacheOk
<1>6. CASE v # None
  <2>1. Nodes' = Put(Nodes, u, n)
    BY <1>1, <1>6 DEF processNodeState, n
  <2>2. /\ NodesOk(Nodes') /\ NodeIn(Nodes', u) = n
        /\ \A x : x # u => NodeIn(Nodes', x) = NodeIn(Nodes, x)
    BY <1>2, <1>4, <2>1, NodeFacts
  <2>3. \A s \in Mirrored \cap NodeTopics(u) :
          Shown(s)' = IF s = t THEN v ELSE Shown(s)
    BY <1>4, <2>2, ShownNode, NodeTopicCases
  <2>4. Heard(t, v)
    BY <1>1, <1>2, <1>3, <1>6, <2>2, <2>3, HeardNode
  <2>5. QED
    BY <1>1, <2>2, <2>4 DEF CacheOk
<1>7. QED
  BY <1>5, <1>6

LEMMA PropertyHeard ==
  ASSUME CacheOk, NEW u \in Unids, NEW p \in Paths, <<"Property", u, p>> \in Topics,
         NEW v \in Values \cup {None}, processCluster(u, p, v)
  PROVE  CacheOk' /\ Heard(<<"Property", u, p>>, v)
<1> DEFINE t == <<"Property", u, p>>
           props == NodeIn(Nodes, u).props
           n == [NodeIn(Nodes, u) EXCEPT !.props = initProp(@, p, v)]
<1>1. UNCHANGED <<Groups, OTA>> /\ getNodeByUnid(u) = NodeIn(Nodes, u)
  BY DEF processCluster, getNodeByUnid, NodeIn
<1>2. NodesOk(Nodes) /\ t \in Mirrored /\ t \in NodeTopics(u)
  BY DEF CacheOk, Mirrored, NodeTopics
<1>3. Mirror!Forgotten(t) = {}
  BY <1>2, ForgottenOther
<1>4. NodeIn(Nodes, u) \in NodeRecord /\ props \in Props
  BY <1>2, NodeFacts DEF NodeRecord
<1>5. /\ initProp(props, p, v) \in Props
      /\ ValueIn(initProp(props, p, v), p) = v
      /\ \A y : y # p => ValueIn(initProp(props, p, v), y) = ValueIn(props, y)
  <2> HIDE DEF props
  <2>1. QED
    BY <1>4, initPropFacts
<1>6. n \in NodeRecord /\ n.state = NodeIn(Nodes, u).state /\ n.props = initProp(props, p, v)
  BY <1>4, <1>5 DEF NodeRecord
<1>7. CASE v = None /\ u \notin DOMAIN Nodes
  <2>1. Nodes' = Nodes
    BY <1>7 DEF processCluster
  <2>2. Shown(t) = None
    BY <1>7, ShownNode DEF NodeIn, NewNode, NoProps, ValueIn
  <2>3. \A s \in Mirrored \cap NodeTopics(u) : Shown(s)' = Shown(s)
    BY <2>1, ShownNode, NodeTopicCases
  <2>4. Heard(t, v)
    BY <1>1, <1>2, <1>3, <1>7, <2>1, <2>2, <2>3, HeardNode
  <2>5. QED
    BY <1>1, <2>1, <2>4 DEF CacheOk
<1>8. CASE ~(v = None /\ u \notin DOMAIN Nodes)
  <2>1. Nodes' = Put(Nodes, u, n)
    BY <1>1, <1>8 DEF processCluster
  <2> HIDE DEF n
  <2>2. /\ NodesOk(Nodes') /\ NodeIn(Nodes', u) = n
        /\ \A x : x # u => NodeIn(Nodes', x) = NodeIn(Nodes, x)
    BY <1>2, <1>6, <2>1, NodeFacts
  <2>3. \A s \in Mirrored \cap NodeTopics(u) :
          Shown(s)' = IF s = t THEN v ELSE Shown(s)
    <3> SUFFICES ASSUME NEW s \in Mirrored \cap NodeTopics(u)
                 PROVE  Shown(s)' = IF s = t THEN v ELSE Shown(s)
      OBVIOUS
    <3>1. CASE s = <<"State", u>>
      BY <1>6, <2>2, <3>1, ShownNode
    <3>2. CASE \E q \in Paths : s = <<"Property", u, q>>
      BY <1>5, <1>6, <2>2, <3>2, ShownNode
    <3>3. QED
      BY <3>1, <3>2, NodeTopicCases
  <2>4. Heard(t, v)
    BY <1>1, <1>2, <1>3, <2>2, <2>3, HeardNode
  <2>5. QED
    BY <1>1, <2>2, <2>4 DEF CacheOk
<1>9. QED
  BY <1>7, <1>8

(* The state of network management is no topic of the mirror.              *)
LEMMA NetworkHeard ==
  ASSUME CacheOk, NEW u \in Unids, NEW v \in Values \cup {None},
         processProtocolController(u, v)
  PROVE  CacheOk' /\ \A s \in Mirrored : Shown(s)' = Shown(s)
<1> DEFINE n == [NodeIn(Nodes, u) EXCEPT !.network = v]
<1>1. UNCHANGED <<Groups, OTA>> /\ getNodeByUnid(u) = NodeIn(Nodes, u)
  BY DEF processProtocolController, getNodeByUnid, NodeIn
<1>2. NodesOk(Nodes)
  BY DEF CacheOk
<1>3. /\ n \in NodeRecord /\ n.state = NodeIn(Nodes, u).state
      /\ n.props = NodeIn(Nodes, u).props
  BY <1>2, NodeFacts DEF NodeRecord
<1>4. Nodes' = Nodes \/ Nodes' = Put(Nodes, u, n)
  BY <1>1 DEF processProtocolController
<1> HIDE DEF n
<1>5. /\ NodesOk(Nodes')
      /\ \A x : /\ NodeIn(Nodes', x).state = NodeIn(Nodes, x).state
                /\ NodeIn(Nodes', x).props = NodeIn(Nodes, x).props
  BY <1>2, <1>3, <1>4, NodeFacts
<1>6. \A s \in Mirrored : Shown(s)' = Shown(s)
  BY <1>1, <1>5, MirroredCases, ShownNode, ShownGroup, ShownImage
<1>7. QED
  BY <1>1, <1>5, <1>6 DEF CacheOk

(* When the nodes and the images stay and of the groups only one changes,  *)
(* what is shown of all others stays.                                      *)
LEMMA OtherTopics ==
  ASSUME UNCHANGED <<Nodes, OTA>>, NEW g \in GroupIds,
         \A h \in GroupIds \ {g} : Held(Groups', h) = Held(Groups, h),
         NEW s \in Mirrored, s \notin GroupTopics(g)
  PROVE  Shown(s)' = Shown(s)
<1>1. CASE \E x \in Unids : s = <<"State", x>>
  BY <1>1, ShownNode
<1>2. CASE \E x \in Unids, p \in Paths : s = <<"Property", x, p>>
  BY <1>2, ShownNode
<1>3. CASE \E h \in GroupIds, x \in Unids : s = <<"NodeList", h, x>>
  <2>1. PICK h \in GroupIds, x \in Unids : s = <<"NodeList", h, x>>
    BY <1>3
  <2>2. h # g
    BY <2>1 DEF GroupTopics, Members
  <2>3. QED
    BY <2>1, <2>2, ShownGroup
<1>4. CASE \E h \in GroupIds, p \in Paths : s = <<"GroupProperty", h, p>>
  <2>1. PICK h \in GroupIds, p \in Paths : s = <<"GroupProperty", h, p>>
    BY <1>4
  <2>2. h # g
    BY <2>1 DEF GroupTopics
  <2>3. QED
    BY <2>1, <2>2, ShownGroup
<1>5. CASE \E i \in Uiids, x \in Unids \cup {"all"} : s = <<"Image", i, x>>
  BY <1>5, ShownImage
<1>6. QED
  BY <1>1, <1>2, <1>3, <1>4, <1>5, MirroredCases

(* A topic of such a group is heard.                                       *)
LEMMA HeardGroup ==
  ASSUME UNCHANGED <<Nodes, OTA>>,
         NEW g \in GroupIds, NEW t \in GroupTopics(g), NEW v,
         \A h \in GroupIds \ {g} : Held(Groups', h) = Held(Groups, h),
         \A s \in Mirrored : s \in Mirror!Forgotten(t) => s \in GroupTopics(g),
         \A s \in Mirrored \cap GroupTopics(g) :
           Shown(s)' = IF s = t THEN v
                       ELSE IF v = None /\ s \in Mirror!Forgotten(t) THEN None
                       ELSE Shown(s)
  PROVE  Heard(t, v)
BY OtherTopics DEF Heard

(* What processGroup does, by whether the group is there.                  *)
LEMMA GroupStep ==
  ASSUME GroupsOk(Groups), NEW g, NEW path, NEW v, processGroup(g, path, v)
  PROVE  \/ GroupIn(Groups, g) = {} /\ v = None /\ Groups' = Groups
         \/ /\ GroupIn(Groups, g) = {} /\ v # None
            /\ Groups' = Spliced(Append(Groups, Updated(NewGroup(g), path, v)))
         \/ \E i \in DOMAIN Groups :
              /\ Groups[i].id = g
              /\ Groups' = Spliced([Groups EXCEPT ![i] = Updated(Groups[i], path, v)])
<1>1. IndexOf(g) = GroupIn(Groups, g)
  BY DEF IndexOf, GroupIn
<1>2. CASE GroupIn(Groups, g) = {}
  BY <1>1, <1>2 DEF processGroup
<1>3. CASE GroupIn(Groups, g) # {}
  <2> DEFINE i == CHOOSE k \in IndexOf(g) : \A j \in IndexOf(g) : k <= j
  <2>1. PICK k \in DOMAIN Groups : Groups[k].id = g
    BY <1>3 DEF GroupIn
  <2>2. IndexOf(g) = {k} /\ k \in Nat
    <3>1. Groups \in Seq(GroupRecord) /\ Distinct(Groups)
      BY DEF GroupsOk
    <3>2. k \in Nat
      BY <3>1
    <3>3. QED
      BY <1>1, <2>1, <3>1, <3>2, HeldAt
  <2>3. i = k
    BY <2>2
  <2>4. Groups' = Spliced([Groups EXCEPT ![i] = Updated(Groups[i], path, v)])
    BY <1>1, <1>3 DEF processGroup
  <2>5. QED
    BY <2>1, <2>3, <2>4
<1>4. QED
  BY <1>2, <1>3

(* A group of a list, or a new one.                                        *)
LEMMA HeldOk ==
  ASSUME NEW groups, GroupsOk(groups), NEW g \in GroupIds
  PROVE  GroupOk(Held(groups, g)) /\ Held(groups, g).id = g /\ Held(groups, g).hasNodeList
<1>1. GroupOk(NewGroup(g)) /\ NewGroup(g).id = g /\ NewGroup(g).hasNodeList
  BY NoPropsType DEF GroupOk, GroupRecord, NewGroup
<1>2. CASE GroupIn(groups, g) = {}
  BY <1>1, <1>2 DEF Held
<1>3. CASE GroupIn(groups, g) # {}
  <2>1. PICK k \in DOMAIN groups : groups[k].id = g
    BY <1>3 DEF GroupIn
  <2>2. QED
    BY <2>1, HeldAt DEF GroupsOk
<1>4. QED
  BY <1>2, <1>3

(* processGroup, when what becomes of the group has members still, or when *)
(* it has none any more.                                                   *)
LEMMA GroupBecomes ==
  ASSUME GroupsOk(Groups), NEW g \in GroupIds, NEW path, NEW v,
         processGroup(g, path, v),
         GroupIn(Groups, g) # {} \/ v # None,
         NEW group, group = Updated(Held(Groups, g), path, v),
         group \in GroupRecord, group.id = g
  PROVE  /\ GroupOk(group) /\ group.hasNodeList => Becomes(Groups, Groups', g, group)
         /\ GroupIn(Groups, g) # {} /\ ~group.hasNodeList
              => Becomes(Groups, Groups', g, NewGroup(g))
<1>1. CASE GroupIn(Groups, g) = {}
  <2>1. Held(Groups, g) = NewGroup(g)
    BY <1>1 DEF Held
  <2>2. Groups' = Spliced(Append(Groups, group))
    BY <1>1, <2>1, GroupStep DEF GroupIn
  <2>3. QED
    BY <1>1, <2>2, AppendGroup
<1>2. CASE GroupIn(Groups, g) # {}
  <2>1. PICK i \in DOMAIN Groups :
          /\ Groups[i].id = g
          /\ Groups' = Spliced([Groups EXCEPT ![i] = Updated(Groups[i], path, v)])
    BY <1>2, GroupStep
  <2>2. Held(Groups, g) = Groups[i]
    BY <2>1, HeldAt DEF GroupsOk
  <2>3. Groups' = Spliced([Groups EXCEPT ![i] = group])
    BY <2>1, <2>2
  <2>4. QED
    BY <2>1, <2>3, ReplaceGroup, RemoveGroup
<1>3. QED
  BY <1>1, <1>2

LEMMA MemberFacts ==
  ASSUME NEW group, GroupOk(group), group.hasNodeList,
         NEW u \in Unids, <<"NodeList", group.id, u>> \in Topics,
         NEW v \in Values \cup {None}
  PROVE  LET new == Member(group, u, v)
             blank == v = None /\ u \notin DOMAIN group.NodeList
         IN  /\ GroupOk(new) /\ new.id = group.id /\ new.props = group.props
             /\ \A x : MemberIn(new.NodeList, x) =
                         IF x = u THEN IF blank THEN Null ELSE v
                         ELSE MemberIn(group.NodeList, x)
             /\ ~new.hasNodeList <=> v = None /\ DOMAIN group.NodeList = {u}
<1> DEFINE list == group.NodeList
           new == Member(group, u, v)
           changed == initProp(list, u, v)
           blank == v = None /\ u \notin DOMAIN list
           w == IF blank THEN Null ELSE v
<1>1. /\ group \in GroupRecord /\ list \in Props
      /\ \A x \in DOMAIN list :
           <<"NodeList", group.id, x>> \in Topics /\ list[x] \in Values \cup {Null}
  BY DEF GroupOk, GroupRecord
<1>2. changed \in Props
  <2> HIDE DEF list
  <2>1. QED
    BY <1>1, initPropFacts
<1>3. /\ DOMAIN changed = IF v = None /\ ~blank THEN DOMAIN list \ {u}
                          ELSE DOMAIN list \cup {u}
      /\ \A x \in DOMAIN changed : changed[x] = IF x = u THEN w ELSE list[x]
  BY DEF initProp, Put, Drop
<1> HIDE DEF changed, list
<1>4. new = [group EXCEPT !.NodeList = changed, !.hasNodeList = DOMAIN changed # {}]
  BY DEF Member, changed, list
<1>5. /\ new \in GroupRecord /\ new.id = group.id /\ new.props = group.props
      /\ new.NodeList = changed /\ (new.hasNodeList <=> DOMAIN changed # {})
  BY <1>1, <1>2, <1>4 DEF GroupRecord
<1> HIDE DEF new
<1>6. GroupOk(new)
  BY <1>1, <1>3, <1>5 DEF GroupOk
<1>7. \A x : MemberIn(changed, x) = IF x = u THEN w ELSE MemberIn(list, x)
  BY <1>3 DEF MemberIn
<1>8. ~new.hasNodeList <=> v = None /\ DOMAIN list = {u}
  BY <1>3, <1>5 DEF list
<1>9. QED
  BY <1>5, <1>6, <1>7, <1>8 DEF new, list

(* The mirrored topics of a group.                                         *)
LEMMA GroupTopicCases ==
  ASSUME NEW g, NEW s \in Mirrored \cap GroupTopics(g)
  PROVE  \/ \E x \in Unids : s = <<"NodeList", g, x>>
         \/ \E p \in Paths : s = <<"GroupProperty", g, p>>
BY DEF GroupTopics, Members

(* The message of a member, when its group is there or is made.            *)
LEMMA MemberHeard ==
  ASSUME CacheOk, NEW g \in GroupIds, NEW u \in Unids, <<"NodeList", g, u>> \in Topics,
         NEW v \in Values \cup {None}, processGroup(g, <<"NodeList", u>>, v),
         GroupIn(Groups, g) # {} \/ v # None
  PROVE  CacheOk' /\ Taken(<<"NodeList", g, u>>, v)
<1> DEFINE t == <<"NodeList", g, u>>
           path == <<"NodeList", u>>
           old == Held(Groups, g)
           list == old.NodeList
           new == Member(old, u, v)
           alone == v = None /\ DOMAIN list = {u}
           blank == v = None /\ u \notin DOMAIN list
           w == IF blank THEN Null ELSE v
<1>1. UNCHANGED <<Nodes, OTA>> /\ GroupsOk(Groups)
  BY DEF processGroup, CacheOk
<1>2. t \in Mirrored /\ t \in Members(g) /\ t \in GroupTopics(g)
  BY DEF Mirrored, GroupTopics, Members
<1>3. GroupOk(old) /\ old.id = g /\ old.hasNodeList
  BY <1>1, HeldOk
<1>4. Missing(t, v) <=> blank
  BY <1>3, ShownGroup, ValueAssumption DEF Missing, MemberIn, GroupOk
<1>5. /\ GroupOk(new) /\ new.id = g /\ new.props = old.props
      /\ \A x : MemberIn(new.NodeList, x) = IF x = u THEN w ELSE MemberIn(list, x)
      /\ ~new.hasNodeList <=> alone
  <2> HIDE DEF old
  <2>1. QED
    BY <1>3, MemberFacts
<1>6. new = Updated(old, path, v) /\ new \in GroupRecord
  BY <1>5 DEF Updated, GroupOk
<1>7. alone => GroupIn(Groups, g) # {}
  OBVIOUS
<1>8. Becomes(Groups, Groups', g, IF alone THEN NewGroup(g) ELSE new)
  <2> HIDE DEF old, new, path, alone
  <2>1. CASE alone
    BY <1>1, <1>5, <1>6, <1>7, <2>1, GroupBecomes DEF old, path
  <2>2. CASE ~alone
    BY <1>1, <1>5, <1>6, <2>2, GroupBecomes DEF old, path
  <2>3. QED
    BY <2>1, <2>2
<1> DEFINE held == Held(Groups', g)
<1>9. /\ GroupsOk(Groups')
      /\ held = IF alone THEN NewGroup(g) ELSE new
      /\ \A h \in GroupIds \ {g} : Held(Groups', h) = Held(Groups, h)
  BY <1>8 DEF Becomes
<1>10. \A x : x \in DOMAIN list => x \in Unids /\ <<"NodeList", g, x>> \in Mirrored
                                   /\ MemberIn(list, x) # None
  BY <1>3, ValueAssumption, TopicCases DEF GroupOk, MemberIn, Mirrored
<1>11. v = None /\ ~blank =>
         ((\A k \in (Members(g) \cap Mirrored) \ {t} : Shown(k) = None) <=> alone)
  <2> SUFFICES ASSUME v = None, ~blank
               PROVE  (\A k \in (Members(g) \cap Mirrored) \ {t} : Shown(k) = None) <=> alone
    OBVIOUS
  <2>1. ASSUME alone, NEW k \in (Members(g) \cap Mirrored) \ {t} PROVE Shown(k) = None
    <3>1. PICK x \in Unids : k = <<"NodeList", g, x>> /\ x # u
      BY DEF Members
    <3>2. QED
      BY <2>1, <3>1, ShownGroup DEF MemberIn
  <2>2. ASSUME ~alone
        PROVE  \E k \in (Members(g) \cap Mirrored) \ {t} : Shown(k) # None
    <3>1. PICK x \in DOMAIN list : x # u
      BY <2>2
    <3>2. <<"NodeList", g, x>> \in (Members(g) \cap Mirrored) \ {t}
      BY <1>10, <3>1 DEF Members
    <3>3. QED
      BY <1>10, <3>1, <3>2, ShownGroup
  <2>3. QED
    BY <2>1, <2>2
<1>12. Mirror!Forgotten(t) \subseteq GroupTopics(g)
  BY <1>2, ForgottenGroup
<1>13. v = None /\ ~blank =>
         Mirror!Forgotten(t) = IF alone THEN GroupTopics(g) \cap Mirrored ELSE {}
  BY <1>2, <1>11, ForgottenGroup
<1>14. CASE alone
  <2>1. \A s \in Mirrored \cap GroupTopics(g) : Shown(s)' = None
    BY <1>9, <1>14, GroupTopicCases, ShownGroup DEF NewGroup, NoProps, MemberIn, ValueIn
  <2>2. Heard(t, v)
    BY <1>1, <1>2, <1>9, <1>12, <1>13, <1>14, <2>1, HeardGroup
  <2>3. QED
    BY <1>1, <1>4, <1>9, <1>14, <2>2 DEF CacheOk, Taken
<1>15. CASE ~alone
  <2>1. \A s \in Mirrored \cap GroupTopics(g) :
          Shown(s)' = IF s = t THEN w ELSE Shown(s)
    <3> SUFFICES ASSUME NEW s \in Mirrored \cap GroupTopics(g)
                 PROVE  Shown(s)' = IF s = t THEN w ELSE Shown(s)
      OBVIOUS
    <3>1. CASE \E x \in Unids : s = <<"NodeList", g, x>>
      BY <1>5, <1>9, <1>15, <3>1, ShownGroup
    <3>2. CASE \E p \in Paths : s = <<"GroupProperty", g, p>>
      BY <1>5, <1>9, <1>15, <3>2, ShownGroup
    <3>3. QED
      BY <3>1, <3>2, GroupTopicCases
  <2>2. CASE blank
    <3>1. Blanked(t)
      BY <1>1, <1>2, <1>9, <2>1, <2>2, OtherTopics DEF Blanked
    <3>2. QED
      BY <1>1, <1>4, <1>9, <2>2, <3>1 DEF CacheOk, Taken
  <2>3. CASE ~blank
    <3>1. Heard(t, v)
      BY <1>1, <1>2, <1>9, <1>12, <1>13, <1>15, <2>1, <2>3, HeardGroup
    <3>2. QED
      BY <1>1, <1>4, <1>9, <2>3, <3>1 DEF CacheOk, Taken
  <2>4. QED
    BY <2>2, <2>3
<1>16. QED
  BY <1>14, <1>15

(* The empty message of a member changes nothing when its group is not     *)
(* there: nothing is shown of the group.                                   *)
LEMMA MemberMissing ==
  ASSUME CacheOk, NEW g \in GroupIds, NEW u \in Unids, <<"NodeList", g, u>> \in Topics,
         processGroup(g, <<"NodeList", u>>, None), GroupIn(Groups, g) = {}
  PROVE  CacheOk' /\ Taken(<<"NodeList", g, u>>, None)
<1> DEFINE t == <<"NodeList", g, u>>
<1>1. UNCHANGED <<Nodes, Groups, OTA>>
  BY GroupStep DEF processGroup, CacheOk, GroupIn
<1>2. \A s \in Mirrored : Shown(s)' = Shown(s)
  BY <1>1, MirroredCases, ShownNode, ShownGroup, ShownImage
<1>3. t \in Mirrored /\ t \in GroupTopics(g)
  BY DEF Mirrored, GroupTopics, Members
<1>4. \A s \in Mirrored \cap GroupTopics(g) : Shown(s) = None
  <2>1. Held(Groups, g) = NewGroup(g)
    BY DEF Held
  <2>2. QED
    BY <2>1, GroupTopicCases, ShownGroup DEF NewGroup, NoProps, MemberIn, ValueIn
<1>5. Mirror!Forgotten(t) \subseteq GroupTopics(g)
  BY <1>3, ForgottenGroup
<1>6. Heard(t, None)
  BY <1>2, <1>3, <1>4, <1>5 DEF Heard
<1>7. QED
  BY <1>1, <1>2, <1>6 DEF CacheOk, Taken

LEMMA GroupPropertyHeard ==
  ASSUME CacheOk, NEW g \in GroupIds, NEW p \in Paths, <<"GroupProperty", g, p>> \in Topics,
         NEW v \in Values \cup {None}, processGroup(g, <<"GroupProperty", p>>, v)
  PROVE  CacheOk' /\ Heard(<<"GroupProperty", g, p>>, v)
<1> DEFINE t == <<"GroupProperty", g, p>>
           path == <<"GroupProperty", p>>
           old == Held(Groups, g)
           new == Property(old, p, v)
<1>1. UNCHANGED <<Nodes, OTA>> /\ GroupsOk(Groups)
  BY DEF processGroup, CacheOk
<1>2. t \in Mirrored /\ t \in GroupTopics(g)
  BY DEF Mirrored, GroupTopics
<1>3. Mirror!Forgotten(t) = {}
  BY <1>2, ForgottenOther
<1>4. GroupOk(old) /\ old.id = g /\ old.hasNodeList
  BY <1>1, HeldOk
<1>5. CASE GroupIn(Groups, g) = {} /\ v = None
  <2>1. Groups' = Groups
    BY <1>1, <1>5, GroupStep DEF GroupIn
  <2>2. Shown(t) = None
    BY <1>5, ShownGroup DEF Held, NewGroup, NoProps, ValueIn
  <2>3. \A s \in Mirrored \cap GroupTopics(g) : Shown(s)' = Shown(s)
    BY <2>1, GroupTopicCases, ShownGroup
  <2>4. Heard(t, v)
    BY <1>1, <1>2, <1>3, <1>5, <2>1, <2>2, <2>3, HeardGroup
  <2>5. QED
    BY <1>1, <2>1, <2>4 DEF CacheOk
<1>6. CASE GroupIn(Groups, g) # {} \/ v # None
  <2>1. old \in GroupRecord /\ old.props \in Props
    BY <1>4 DEF GroupOk, GroupRecord
  <2>2. /\ initProp(old.props, p, v) \in Props
        /\ ValueIn(initProp(old.props, p, v), p) = v
        /\ \A y : y # p => ValueIn(initProp(old.props, p, v), y) = ValueIn(old.props, y)
    <3> HIDE DEF old
    <3>1. QED
      BY <2>1, initPropFacts
  <2>3. /\ new \in GroupRecord /\ new.id = g /\ new.hasNodeList
        /\ new.NodeList = old.NodeList /\ new.props = initProp(old.props, p, v)
    <3> HIDE DEF old
    <3>1. QED
      BY <1>4, <2>1, <2>2 DEF Property, GroupRecord
  <2>4. GroupOk(new) /\ new = Updated(old, path, v)
    BY <1>4, <2>3 DEF GroupOk, Updated
  <2>5. Becomes(Groups, Groups', g, new)
    <3> HIDE DEF new
    <3>1. QED
      BY <1>1, <1>6, <2>3, <2>4, GroupBecomes
  <2> HIDE DEF new
  <2>6. /\ GroupsOk(Groups') /\ Held(Groups', g) = new
        /\ \A h \in GroupIds \ {g} : Held(Groups', h) = Held(Groups, h)
    BY <2>5 DEF Becomes
  <2>7. \A s \in Mirrored \cap GroupTopics(g) :
          Shown(s)' = IF s = t THEN v ELSE Shown(s)
    <3> SUFFICES ASSUME NEW s \in Mirrored \cap GroupTopics(g)
                 PROVE  Shown(s)' = IF s = t THEN v ELSE Shown(s)
      OBVIOUS
    <3>1. CASE \E x \in Unids : s = <<"NodeList", g, x>>
      BY <2>3, <2>6, <3>1, ShownGroup
    <3>2. CASE \E q \in Paths : s = <<"GroupProperty", g, q>>
      BY <2>2, <2>3, <2>6, <3>2, ShownGroup
    <3>3. QED
      BY <3>1, <3>2, GroupTopicCases
  <2>8. Heard(t, v)
    BY <1>1, <1>2, <1>3, <2>6, <2>7, HeardGroup
  <2>9. QED
    BY <1>1, <2>6, <2>8 DEF CacheOk
<1>7. QED
  BY <1>5, <1>6

(* Two messages of an image agree if they carry the same image, unless one *)
(* is empty, and both are for all nodes or both for one.                   *)
Agree(t, v, s, w) == (v # None => w = v) /\ (s[3] = "all" <=> t[3] = "all")

(* The message of an image is heard when it agrees with what is shown of   *)
(* the image.                                                              *)
LEMMA ImageHeard ==
  ASSUME CacheOk, NEW i \in Uiids, NEW x \in Unids \cup {"all"}, <<"Image", i, x>> \in Topics,
         NEW v \in Values \cup {None}, processOTAInfo(i, x, v),
         \A s \in ImageTopics(i) \cap Topics :
           s # <<"Image", i, x>> /\ Shown(s) # None => Agree(<<"Image", i, x>>, v, s, Shown(s))
  PROVE  CacheOk' /\ Heard(<<"Image", i, x>>, v)
<1> DEFINE t == <<"Image", i, x>>
<1>1. UNCHANGED <<Nodes, Groups>> /\ ImagesOk(OTA)
  BY DEF processOTAInfo, CacheOk
<1>2. t \in Mirrored
  BY DEF Mirrored
<1>3. Mirror!Forgotten(t) = {}
  BY <1>2, ForgottenOther
<1>4. ASSUME i \in DOMAIN OTA
      PROVE  /\ OTA[i] \in ImageRecord /\ OTA[i].image # None
             /\ \A y \in OTA[i].Unid : y \in Unids /\ <<"Image", i, y>> \in Topics
             /\ x = "all" => OTA[i].Unid = {}
  <2>1. /\ OTA[i] \in ImageRecord /\ OTA[i].image # None
        /\ \A y \in OTA[i].Unid : y \in Unids /\ <<"Image", i, y>> \in Topics
    BY <1>1, <1>4, ValueAssumption DEF ImagesOk, ImageRecord
  <2>2. ASSUME NEW y \in OTA[i].Unid, x = "all" PROVE FALSE
    <3>1. y \in Unids /\ y # "all" /\ <<"Image", i, y>> \in ImageTopics(i) \cap Topics
      BY <2>1, ValueAssumption DEF ImageTopics
    <3>2. Shown(<<"Image", i, y>>) # None
      BY <1>4, <2>1, <3>1, ShownImage DEF ImageIn
    <3>3. Agree(t, v, <<"Image", i, y>>, Shown(<<"Image", i, y>>))
      BY <2>2, <3>1, <3>2
    <3>4. QED
      BY <2>2, <3>1, <3>3 DEF Agree
  <2>3. QED
    BY <2>1, <2>2
<1>5. i \in DOMAIN OTA => OTA[i] \in ImageRecord
  BY <1>4
<1>6. CASE v = None /\ i \notin DOMAIN OTA
  <2>1. OTA' = OTA
    BY <1>6 DEF processOTAInfo
  <2>2. \A s \in Mirrored : Shown(s)' = Shown(s)
    BY <1>1, <2>1, MirroredCases, ShownNode, ShownGroup, ShownImage
  <2>3. Shown(t) = None
    BY <1>6, ShownImage DEF ImageIn
  <2>4. QED
    BY <1>1, <1>3, <1>6, <2>1, <2>2, <2>3 DEF Heard, CacheOk
<1>7. SUFFICES ASSUME v # None \/ i \in DOMAIN OTA
                PROVE  CacheOk' /\ Heard(t, v)
  BY <1>6
<1>8. ImagesOk(OTA')
  <2>1. CASE v = None
    <3>1. CASE x = "all" \/ OTA[i].Unid = {x}
      <4>1. OTA' = Drop(OTA, i)
        BY <1>7, <2>1, <3>1 DEF processOTAInfo
      <4>2. QED
        BY <1>1, <4>1 DEF ImagesOk, Drop
    <3>2. CASE ~(x = "all" \/ OTA[i].Unid = {x})
      <4>1. OTA' = [OTA EXCEPT ![i].Unid = @ \ {x}]
        BY <1>7, <2>1, <3>2 DEF processOTAInfo
      <4>2. /\ OTA'[i] \in ImageRecord /\ OTA'[i].Unid \subseteq OTA[i].Unid
            /\ DOMAIN OTA' = DOMAIN OTA /\ \A j \in DOMAIN OTA \ {i} : OTA'[j] = OTA[j]
        BY <1>7, <1>5, <2>1, <4>1 DEF ImageRecord
      <4>3. QED
        BY <1>1, <1>4, <1>7, <2>1, <4>2 DEF ImagesOk
    <3>3. QED
      BY <3>1, <3>2
  <2>2. CASE v # None
    <3> DEFINE unids == IF x = "all" THEN {}
                        ELSE {x} \cup IF i \in DOMAIN OTA THEN OTA[i].Unid ELSE {}
    <3>1. OTA' = Put(OTA, i, [image |-> v, Unid |-> unids])
      BY <2>2 DEF processOTAInfo
    <3>2. [image |-> v, Unid |-> unids] \in ImageRecord
      BY <1>5, <2>2 DEF ImageRecord
    <3>3. \A y \in unids : <<"Image", i, y>> \in Topics
      BY <1>4
    <3> HIDE DEF unids
    <3>4. QED
      BY <1>1, <3>1, <3>2, <3>3 DEF ImagesOk, Put
  <2>3. QED
    BY <2>1, <2>2
<1>9. \A j, y : j # i => ImageIn(OTA', j, y) = ImageIn(OTA, j, y)
  BY <1>7 DEF processOTAInfo, ImageIn, Put, Drop
<1>10. ASSUME NEW y \in Unids \cup {"all"}, <<"Image", i, y>> \in Topics
      PROVE  ImageIn(OTA', i, y) = IF y = x THEN v ELSE ImageIn(OTA, i, y)
  <2>1. CASE v = None
    <3>1. CASE x = "all"
      <4>1. OTA' = Drop(OTA, i)
        BY <1>7, <2>1, <3>1 DEF processOTAInfo
      <4>2. QED
        BY <1>4, <1>7, <2>1, <3>1, <4>1 DEF ImageIn, Drop
    <3>2. CASE x # "all" /\ OTA[i].Unid = {x}
      <4>1. OTA' = Drop(OTA, i)
        BY <1>7, <2>1, <3>2 DEF processOTAInfo
      <4>2. QED
        BY <1>7, <2>1, <3>2, <4>1 DEF ImageIn, Drop
    <3>3. CASE x # "all" /\ OTA[i].Unid # {x}
      <4>1. OTA' = [OTA EXCEPT ![i].Unid = @ \ {x}]
        BY <1>7, <2>1, <3>3 DEF processOTAInfo
      <4>2. /\ DOMAIN OTA' = DOMAIN OTA /\ OTA'[i].image = OTA[i].image
            /\ OTA'[i].Unid = OTA[i].Unid \ {x}
        BY <1>7, <1>5, <2>1, <4>1 DEF ImageRecord
      <4>3. OTA'[i].Unid = {} <=> OTA[i].Unid = {}
        BY <3>3, <4>2
      <4>4. QED
        BY <1>7, <2>1, <3>3, <4>2, <4>3 DEF ImageIn
    <3>4. QED
      BY <3>1, <3>2, <3>3
  <2>2. CASE v # None
    <3> DEFINE unids == IF x = "all" THEN {}
                        ELSE {x} \cup IF i \in DOMAIN OTA THEN OTA[i].Unid ELSE {}
    <3>1. OTA' = Put(OTA, i, [image |-> v, Unid |-> unids])
      BY <2>2 DEF processOTAInfo
    <3>2. /\ i \in DOMAIN OTA' /\ OTA'[i].image = v /\ OTA'[i].Unid = unids
      BY <3>1 DEF Put
    <3>3. CASE y = x
      BY <3>2, <3>3, ValueAssumption DEF ImageIn
    <3>4. CASE y # x
      <4>1. <<"Image", i, y>> \in ImageTopics(i) \cap Topics /\ <<"Image", i, y>> # t
        BY <1>10, <3>4 DEF ImageTopics
      <4>2. ImageIn(OTA, i, y) # None =>
              ImageIn(OTA, i, y) = v /\ (y = "all" <=> x = "all")
        BY <2>2, <4>1, ShownImage DEF Agree
      <4>3. i \in DOMAIN OTA => OTA[i].image # None
        BY <1>4
      <4>4. CASE x = "all"
        BY <2>2, <3>2, <3>4, <4>2, <4>4 DEF ImageIn
      <4>5. CASE x # "all" /\ y = "all"
        BY <2>2, <3>2, <4>2, <4>5 DEF ImageIn
      <4>6. CASE x # "all" /\ y # "all"
        BY <3>2, <3>4, <4>2, <4>3, <4>6 DEF ImageIn
      <4>7. QED
        BY <4>4, <4>5, <4>6
    <3>5. QED
      BY <3>3, <3>4
  <2>3. QED
    BY <2>1, <2>2
<1>11. \A s \in Mirrored : Shown(s)' = IF s = t THEN v ELSE Shown(s)
  <2> SUFFICES ASSUME NEW s \in Mirrored
               PROVE  Shown(s)' = IF s = t THEN v ELSE Shown(s)
    OBVIOUS
  <2>1. CASE \E u \in Unids : s = <<"State", u>>
    BY <1>1, <2>1, ShownNode
  <2>2. CASE \E u \in Unids, p \in Paths : s = <<"Property", u, p>>
    BY <1>1, <2>2, ShownNode
  <2>3. CASE \E g \in GroupIds, u \in Unids : s = <<"NodeList", g, u>>
    BY <1>1, <2>3, ShownGroup
  <2>4. CASE \E g \in GroupIds, p \in Paths : s = <<"GroupProperty", g, p>>
    BY <1>1, <2>4, ShownGroup
  <2>5. CASE \E j \in Uiids, y \in Unids \cup {"all"} : s = <<"Image", j, y>>
    <3>1. PICK j \in Uiids, y \in Unids \cup {"all"} : s = <<"Image", j, y>>
      BY <2>5
    <3>2. s \in Topics
      BY DEF Mirrored
    <3>3. QED
      BY <1>9, <1>10, <3>1, <3>2, ShownImage
  <2>6. QED
    BY <2>1, <2>2, <2>3, <2>4, <2>5, MirroredCases
<1>12. Heard(t, v)
  BY <1>3, <1>11 DEF Heard
<1>13. QED
  BY <1>1, <1>8, <1>12 DEF CacheOk

(* onMqttMessage: whatever the topic, the message is heard.                *)
Hearable(t, v) ==
  t[1] = "Image" =>
    \A s \in ImageTopics(t[2]) \cap Topics :
      s # t /\ Shown(s) # None => Agree(t, v, s, Shown(s))

LEMMA MessageHeard ==
  ASSUME CacheOk, NEW t \in Topics, NEW v \in Values \cup {None},
         Hearable(t, v), onMqttMessage(t, v)
  PROVE  /\ CacheOk'
         /\ t \in Mirrored => Taken(t, v)
         /\ t \notin Mirrored => \A s \in Mirrored : Shown(s)' = Shown(s)
<1>1. CASE \E u \in Unids : t = <<"State", u>>
  <2>1. PICK u \in Unids : t = <<"State", u>>
    BY <1>1
  <2>2. processNodeState(u, v)
    BY <2>1 DEF onMqttMessage
  <2>3. QED
    BY <2>1, <2>2, StateHeard DEF Mirrored, Taken, Missing
<1>2. CASE \E u \in Unids : t = <<"NetworkManagement", u>>
  <2>1. PICK u \in Unids : t = <<"NetworkManagement", u>>
    BY <1>2
  <2>2. processProtocolController(u, v)
    BY <2>1 DEF onMqttMessage
  <2>3. QED
    BY <2>1, <2>2, NetworkHeard DEF Mirrored
<1>3. CASE \E u \in Unids, p \in Paths : t = <<"Property", u, p>>
  <2>1. PICK u \in Unids, p \in Paths : t = <<"Property", u, p>>
    BY <1>3
  <2>2. processCluster(u, p, v)
    BY <2>1 DEF onMqttMessage
  <2>3. QED
    BY <2>1, <2>2, PropertyHeard DEF Mirrored, Taken, Missing
<1>4. CASE \E g \in GroupIds, u \in Unids : t = <<"NodeList", g, u>>
  <2>1. PICK g \in GroupIds, u \in Unids : t = <<"NodeList", g, u>>
    BY <1>4
  <2>2. processGroup(g, <<"NodeList", u>>, v)
    BY <2>1 DEF onMqttMessage
  <2>3. QED
    BY <2>1, <2>2, MemberHeard, MemberMissing DEF Mirrored
<1>5. CASE \E g \in GroupIds, p \in Paths : t = <<"GroupProperty", g, p>>
  <2>1. PICK g \in GroupIds, p \in Paths : t = <<"GroupProperty", g, p>>
    BY <1>5
  <2>2. processGroup(g, <<"GroupProperty", p>>, v)
    BY <2>1 DEF onMqttMessage
  <2>3. QED
    BY <2>1, <2>2, GroupPropertyHeard DEF Mirrored, Taken, Missing
<1>6. CASE \E i \in Uiids, x \in Unids \cup {"all"} : t = <<"Image", i, x>>
  <2>1. PICK i \in Uiids, x \in Unids \cup {"all"} : t = <<"Image", i, x>>
    BY <1>6
  <2>2. processOTAInfo(i, x, v)
    BY <2>1 DEF onMqttMessage
  <2>3. \A s \in ImageTopics(i) \cap Topics :
          s # t /\ Shown(s) # None => Agree(t, v, s, Shown(s))
    BY <2>1 DEF Hearable
  <2>4. QED
    BY <2>1, <2>2, <2>3, ImageHeard DEF Mirrored, Taken, Missing
<1>7. QED
  BY <1>1, <1>2, <1>3, <1>4, <1>5, <1>6, TopicCases

-----------------------------------------------------------------------------
(* The steps: each keeps the invariant and implements a step of the mirror *)
(* of topics, or leaves the mirror alone.                                  *)

LEMMA EmptyCache ==
  /\ Nodes = NoProps /\ Groups = <<>> /\ OTA = NoProps
       => CacheOk /\ \A s \in Mirrored : Shown(s) = None
  /\ Nodes' = NoProps /\ Groups' = <<>> /\ OTA' = NoProps
       => CacheOk' /\ \A s \in Mirrored : Shown(s)' = None
<1>1. \A u : NodeIn(NoProps, u) = NewNode
  BY DEF NodeIn, NoProps
<1>2. \A g : Held(<<>>, g) = NewGroup(g)
  BY DEF Held, GroupIn
<1>3. \A i, x : ImageIn(NoProps, i, x) = None
  BY DEF ImageIn, NoProps
<1>4. NodesOk(NoProps) /\ ImagesOk(NoProps)
  BY DEF NodesOk, ImagesOk, NoProps
<1>5. GroupsOk(<<>>)
  BY DEF GroupsOk, Distinct
<1>6. \A g, x : /\ ValueIn(NewNode.props, x) = None /\ NewNode.state = None
                /\ MemberIn(NewGroup(g).NodeList, x) = None
                /\ ValueIn(NewGroup(g).props, x) = None
  BY DEF NewNode, NewGroup, NoProps, ValueIn, MemberIn
<1>7. ASSUME Nodes = NoProps, Groups = <<>>, OTA = NoProps
      PROVE  CacheOk /\ \A s \in Mirrored : Shown(s) = None
  BY <1>1, <1>2, <1>3, <1>4, <1>5, <1>6, <1>7,
     MirroredCases, ShownNode, ShownGroup, ShownImage DEF CacheOk
<1>8. ASSUME Nodes' = NoProps, Groups' = <<>>, OTA' = NoProps
      PROVE  CacheOk' /\ \A s \in Mirrored : Shown(s)' = None
  BY <1>1, <1>2, <1>3, <1>4, <1>5, <1>6, <1>8,
     MirroredCases, ShownNode, ShownGroup, ShownImage DEF CacheOk
<1>9. QED
  BY <1>7, <1>8

LEMMA CacheInit == Init => CacheInv /\ Mirror!Init
<1> SUFFICES ASSUME Init PROVE CacheInv /\ Mirror!Init
  OBVIOUS
<1>1. CacheOk /\ \A s \in Mirrored : Shown(s) = None
  BY EmptyCache DEF Init
<1>2. \A t \in Topics : retained[t] = None
  BY DEF Init
<1>3. BrokerOk
  <2>1. retained \in [Topics -> Values \cup {None}] /\ due = {} /\ dropped = {}
    BY DEF Init
  <2>2. published \in 0..MaxPublished /\ lost \in 0..MaxLost
    BY BoundAssumption DEF Init
  <2>3. subscribed \in BOOLEAN
    BY DEF Init
  <2>4. QED
    BY <2>1, <2>2, <2>3 DEF BrokerOk
<1>4. ImagesAgree /\ Complete
  BY <1>2 DEF ImagesAgree, Complete, Init
<1>5. Mirror!Init
  <2>1. Shows = [t \in Mirrored |-> None]
    BY <1>1 DEF Shows
  <2>2. Kept = [t \in Mirrored |-> None]
    BY <1>2 DEF Kept, Mirrored
  <2>3. Awaited = {} /\ subscribed = FALSE
    BY DEF Init, Awaited
  <2>4. QED
    BY <2>1, <2>2, <2>3 DEF Mirror!Init, Shows, Kept, Awaited
<1>6. QED
  BY <1>1, <1>3, <1>4, <1>5, MirrorInit DEF CacheInv

LEMMA ImageTopic ==
  ASSUME NEW i, NEW s \in ImageTopics(i) \cap Topics
  PROVE  s \in Mirrored /\ s[1] = "Image" /\ s[2] = i
BY DEF ImageTopics, Mirrored

(* What is shown of an image is what is retained: an image is never blank. *)
LEMMA ShownRetained ==
  ASSUME CacheInv, NEW i, NEW s \in ImageTopics(i) \cap Topics, Shown(s) # None
  PROVE  Shown(s) = retained[s] /\ retained[s] # None
<1>1. s \in Mirrored /\ s[1] = "Image"
  BY ImageTopic
<1>2. PICK j \in Uiids, x \in Unids \cup {"all"} : s = <<"Image", j, x>>
  BY <1>1, MirroredCases
<1>3. Shown(s) \in Values
  BY <1>2, ShownImage DEF CacheInv, CacheOk, ImagesOk, ImageRecord, ImageIn
<1>4. QED
  BY <1>1, <1>3, ValueAssumption DEF CacheInv, MirrorInv, Fresh

LEMMA PublishHearable ==
  ASSUME CacheInv, NEW t \in Topics, NEW v, MayPublish(t, v)
  PROVE  Hearable(t, v)
<1> SUFFICES ASSUME t[1] = "Image", NEW s \in ImageTopics(t[2]) \cap Topics,
                    Shown(s) # None, s # t
             PROVE  Agree(t, v, s, Shown(s))
  BY DEF Hearable
<1>1. Shown(s) = retained[s] /\ retained[s] # None /\ s[1] = "Image" /\ s[2] = t[2]
  BY ImageTopic, ShownRetained
<1>2. CASE v # None
  <2>1. retained[s] = v /\ (s[3] = "all" <=> t[3] = "all")
    BY <1>1, <1>2 DEF MayPublish
  <2>2. QED
    BY <1>1, <2>1 DEF Agree
<1>3. CASE v = None
  <2>1. retained[t] # None
    BY <1>3 DEF MayPublish
  <2>2. s[3] = "all" <=> t[3] = "all"
    BY <1>1, <2>1 DEF CacheInv, ImagesAgree
  <2>3. QED
    BY <1>3, <2>2 DEF Agree
<1>4. QED
  BY <1>2, <1>3

LEMMA DeliverHearable ==
  ASSUME CacheInv, NEW t \in due
  PROVE  Hearable(t, retained[t])
<1>1. t \in Topics /\ retained[t] # None
  BY DEF CacheInv, BrokerOk
<1>2. ASSUME t[1] = "Image", NEW s \in ImageTopics(t[2]) \cap Topics, Shown(s) # None
      PROVE  Agree(t, retained[t], s, Shown(s))
  <2>1. s \in Mirrored /\ s[1] = "Image" /\ s[2] = t[2]
    BY ImageTopic
  <2>2. Shown(s) = retained[s]
    BY <1>2, ShownRetained
  <2>3. QED
    BY <1>1, <1>2, <2>1, <2>2 DEF Agree, CacheInv, ImagesAgree
<1>3. QED
  BY <1>1, <1>2 DEF Hearable

(* The messages after which all images agree.                              *)
LEMMA ImagesKept ==
  ASSUME CacheInv, NEW t \in Topics, NEW v \in Values \cup {None}, MayPublish(t, v),
         retained' = [retained EXCEPT ![t] = v]
  PROVE  ImagesAgree'
<1>1. retained'[t] = v /\ \A s \in Topics \ {t} : retained'[s] = retained[s]
  BY DEF CacheInv, BrokerOk
<1> DEFINE Agreed(s, r) ==
      /\ s[1] = "Image" /\ r[1] = "Image" /\ s[2] = r[2]
      /\ retained'[s] # None /\ retained'[r] # None
      => retained'[s] = retained'[r] /\ (s[3] = "all" <=> r[3] = "all")
<1>2. ASSUME NEW s \in Topics \ {t}, t[1] = "Image", s[1] = "Image", s[2] = t[2],
             retained'[s] # None, v # None
      PROVE  retained'[s] = v /\ (s[3] = "all" <=> t[3] = "all")
  <2>1. s \in ImageTopics(t[2])
    BY <1>2, TopicCases DEF ImageTopics
  <2>2. QED
    BY <1>1, <1>2, <2>1 DEF MayPublish
<1>3. ASSUME NEW s \in Topics, NEW r \in Topics PROVE Agreed(s, r)
  <2>1. CASE s = t /\ r = t
    BY <2>1
  <2>2. CASE s = t /\ r # t
    BY <1>1, <1>2, <2>2
  <2>3. CASE s # t /\ r = t
    BY <1>1, <1>2, <2>3
  <2>4. CASE s # t /\ r # t
    BY <1>1, <2>4 DEF CacheInv, ImagesAgree
  <2>5. QED
    BY <2>1, <2>2, <2>3, <2>4
<1>4. QED
  BY <1>3 DEF ImagesAgree

(* What stays complete when a message is heard: the history of what is     *)
(* dropped has all that is forgotten and still retained.                   *)
LEMMA CompleteKept ==
  ASSUME CacheInv, subscribed, NEW t \in Topics, t \notin due, NEW v,
         MayPublish(t, v),
         retained' = [retained EXCEPT ![t] = v],
         dropped' = IF v = None THEN dropped \cup Dropping(t) ELSE dropped \ {t},
         due' = due,
         t \in Mirrored => Taken(t, v),
         t \notin Mirrored => \A s \in Mirrored : Shown(s)' = Shown(s)
  PROVE  Complete'
<1> SUFFICES ASSUME NEW s \in Mirrored, s \notin due, s \notin dropped'
             PROVE  Shown(s)' = retained'[s]
  BY DEF Complete, Mirrored
<1>1. /\ retained'[t] = v
      /\ \A r \in Topics \ {t} : retained'[r] = retained[r]
  BY DEF CacheInv, BrokerOk
<1>2. s \in Topics
  BY DEF Mirrored
<1>3. CASE s = t
  <2>1. Missing(t, v) => FALSE
    <3>1. SUFFICES ASSUME Missing(t, v) PROVE FALSE
      OBVIOUS
    <3>2. retained[t] # None /\ t \notin dropped
      BY <1>3, <3>1 DEF Missing, MayPublish
    <3>3. QED
      BY <1>3, <3>1, <3>2 DEF Missing, CacheInv, Complete
  <2>2. QED
    BY <1>1, <1>3, <2>1 DEF Taken, Heard
<1>4. CASE s # t
  <2>1. Shown(s) = retained[s] /\ retained'[s] = retained[s]
    BY <1>1, <1>2, <1>4 DEF CacheInv, Complete
  <2>2. CASE \/ t \notin Mirrored \/ Missing(t, v)
             \/ v # None \/ s \notin Mirror!Forgotten(t)
    BY <1>4, <2>1, <2>2 DEF Taken, Heard, Blanked
  <2>3. CASE t \in Mirrored /\ v = None /\ s \in Mirror!Forgotten(t) /\ ~Missing(t, v)
    <3>1. s \notin Dropping(t) /\ Shown(s)' = None
      BY <1>4, <2>3 DEF Taken, Heard
    <3>2. CASE \E u \in Unids : t = <<"State", u>>
      <4>1. PICK u \in Unids : t = <<"State", u>>
        BY <3>2
      <4>2. s \in NodeTopics(u)
        BY <2>3, <4>1, ForgottenNode
      <4>3. Dropping(t) = {r \in (NodeTopics(u) \cap Topics) \ {t} : retained[r] # None} \ due
        BY <4>1 DEF Dropping
      <4>4. QED
        BY <1>2, <1>4, <2>1, <3>1, <4>2, <4>3
    <3>3. CASE \E g \in GroupIds, u \in Unids : t = <<"NodeList", g, u>>
      <4>1. PICK g \in GroupIds, u \in Unids : t = <<"NodeList", g, u>>
        BY <3>3
      <4>2. /\ s \in GroupTopics(g)
            /\ \A k \in (Members(g) \cap Mirrored) \ {t} : Shown(k) = None
        BY <2>3, <4>1, ForgottenGroup
      <4>3. LastMember(t)
        <5>1. Members(g) \cap Topics \subseteq Mirrored
          BY DEF Members, Mirrored
        <5>2. QED
          BY <2>3, <4>1, <4>2, <5>1 DEF LastMember, Missing
      <4>4. Dropping(t) = {r \in (GroupTopics(g) \cap Topics) \ {t} : retained[r] # None} \ due
        BY <4>1, <4>3 DEF Dropping
      <4>5. QED
        BY <1>2, <1>4, <2>1, <3>1, <4>2, <4>4
    <3>4. CASE t[1] \notin {"State", "NodeList"}
      BY <2>3, <3>4, ForgottenOther
    <3>5. QED
      BY <2>3, <3>2, <3>3, <3>4, MirroredCases
  <2>4. QED
    BY <2>2, <2>3
<1>5. QED
  BY <1>3, <1>4

LEMMA PublishStep ==
  ASSUME CacheInv, NEW t \in Topics, NEW v \in Values \cup {None}, Publish(t, v)
  PROVE  CacheInv' /\ [Mirror!Next]_(Mirror!vars)
<1>1. /\ t \notin due /\ MayPublish(t, v) /\ retained' = [retained EXCEPT ![t] = v]
      /\ due' = due /\ subscribed' = subscribed
      /\ published' = published + 1 /\ published < MaxPublished /\ lost' = lost
  BY DEF Publish
<1>2. ImagesAgree'
  BY <1>1, ImagesKept
<1>3. /\ CacheOk' /\ Complete'
      /\ subscribed => /\ t \in Mirrored => Taken(t, v)
                       /\ t \notin Mirrored => Shows' = Shows
      /\ ~subscribed => Shows' = Shows
  <2>1. CASE subscribed
    <3>1. /\ onMqttMessage(t, v)
          /\ dropped' = IF v = None THEN dropped \cup Dropping(t) ELSE dropped \ {t}
      BY <2>1 DEF Publish
    <3>2. /\ CacheOk'
          /\ t \in Mirrored => Taken(t, v)
          /\ t \notin Mirrored => \A s \in Mirrored : Shown(s)' = Shown(s)
      BY <1>1, <2>1, <3>1, PublishHearable, MessageHeard DEF CacheInv
    <3>3. Complete'
      BY <1>1, <2>1, <3>1, <3>2, CompleteKept
    <3>4. t \notin Mirrored => Shows' = Shows
      BY <3>2 DEF Shows, Mirrored
    <3>5. QED
      BY <2>1, <3>2, <3>3, <3>4
  <2>2. CASE ~subscribed
    <3>1. UNCHANGED stateVars
      BY <2>2 DEF Publish
    <3>2. CacheOk'
      BY <3>1 DEF CacheInv, CacheOk, stateVars
    <3>3. Complete'
      BY <1>1, <2>2 DEF Complete
    <3>4. \A s \in Mirrored : Shown(s)' = Shown(s)
      BY <3>1, MirroredCases, ShownNode, ShownGroup, ShownImage DEF stateVars
    <3>5. QED
      BY <2>2, <3>2, <3>3, <3>4 DEF Shows, Mirrored
  <2>3. QED
    BY <2>1, <2>2
<1>4. BrokerOk'
  <2>1. \A s \in Topics \ {t} : retained'[s] = retained[s]
    BY <1>1 DEF CacheInv, BrokerOk
  <2>2. retained' \in [Topics -> Values \cup {None}] /\ subscribed' \in BOOLEAN
    BY <1>1 DEF CacheInv, BrokerOk
  <2>3. due' \subseteq Topics /\ \A s \in due' : retained'[s] # None
    BY <1>1, <2>1 DEF CacheInv, BrokerOk
  <2>4. dropped' \subseteq Topics
    <3>1. Dropping(t) \subseteq Topics
      BY DEF Dropping
    <3>2. QED
      BY <3>1 DEF Publish, CacheInv, BrokerOk
  <2>5. published' \in 0..MaxPublished /\ lost' \in 0..MaxLost
    BY <1>1, BoundAssumption DEF CacheInv, BrokerOk
  <2>6. QED
    BY <2>2, <2>3, <2>4, <2>5 DEF BrokerOk
<1>5. /\ Awaited' = Awaited
      /\ t \in Mirrored => Kept' = [Kept EXCEPT ![t] = v]
      /\ t \notin Mirrored => Kept' = Kept
  <2>1. Awaited' = Awaited
    BY <1>1 DEF Awaited, Mirrored
  <2>2. \A s \in Mirrored : retained'[s] = IF s = t THEN v ELSE retained[s]
    BY <1>1 DEF CacheInv, BrokerOk, Mirrored
  <2>3. Kept' = [s \in Mirrored |-> IF s = t THEN v ELSE retained[s]]
    BY <2>2 DEF Kept, Mirrored
  <2>4. QED
    BY <2>1, <2>3 DEF Kept
<1>6. CASE t \in Mirrored
  <2>1. IF subscribed THEN Mirror!Receive(t, v) \/ (v = None /\ Mirror!LeaveBlank(t))
        ELSE Shows' = Shows
    <3>1. Missing(t, v) => retained[t] # None
      BY <1>1 DEF Missing, MayPublish
    <3>2. QED
      BY <1>3, <1>6, <3>1, ReceiveHeard, BlankHeard DEF Taken, Missing
  <2>2. t \notin Awaited
    BY <1>1 DEF Awaited
  <2>3. Mirror!Publish(t, v)
    BY <1>1, <1>5, <1>6, <2>1, <2>2 DEF Mirror!Publish, Kept, Shows, Awaited
  <2>4. Mirror!Next
    BY <1>6, <2>3 DEF Mirror!Next
  <2>5. QED
    BY <1>2, <1>3, <1>4, <2>4, MirrorStep DEF CacheInv
<1>7. CASE t \notin Mirrored
  <2>1. UNCHANGED Mirror!vars
    BY <1>1, <1>3, <1>5, <1>7 DEF Mirror!vars, Kept, Shows, Awaited
  <2>2. QED
    BY <1>2, <1>3, <1>4, <2>1, MirrorStep DEF CacheInv
<1>8. QED
  BY <1>6, <1>7

LEMMA DeliverStep ==
  ASSUME CacheInv, NEW t \in Topics, Deliver(t)
  PROVE  CacheInv' /\ [Mirror!Next]_(Mirror!vars)
<1> DEFINE v == retained[t]
<1>1. /\ t \in due /\ due' = due \ {t} /\ onMqttMessage(t, v)
      /\ UNCHANGED <<retained, subscribed, dropped, published, lost>>
  BY DEF Deliver
<1>2. v \in Values /\ v # None
  BY <1>1 DEF CacheInv, BrokerOk
<1>3. /\ CacheOk'
      /\ t \in Mirrored => Heard(t, v)
      /\ t \notin Mirrored => \A s \in Mirrored : Shown(s)' = Shown(s)
  BY <1>1, <1>2, DeliverHearable, MessageHeard DEF CacheInv, Taken, Missing
<1>4. BrokerOk' /\ ImagesAgree'
  BY <1>1 DEF CacheInv, BrokerOk, ImagesAgree
<1>5. Complete'
  <2> SUFFICES ASSUME subscribed, NEW s \in Mirrored, s \notin due', s \notin dropped
               PROVE  Shown(s)' = retained[s]
    BY <1>1 DEF Complete, Mirrored
  <2>1. CASE s = t
    BY <1>3, <2>1 DEF Heard
  <2>2. CASE s # t
    BY <1>1, <1>2, <1>3, <2>2 DEF CacheInv, Complete, Heard
  <2>3. QED
    BY <2>1, <2>2
<1>6. Kept' = Kept /\ Awaited' = Awaited \ {t}
  BY <1>1 DEF Kept, Awaited, Mirrored
<1>7. CASE t \in Mirrored
  <2>1. Mirror!Receive(t, Kept[t])
    BY <1>3, <1>7, ReceiveHeard DEF Kept
  <2>2. Mirror!Deliver(t)
    BY <1>1, <1>6, <1>7, <2>1 DEF Mirror!Deliver, Kept, Awaited
  <2>3. Mirror!Next
    BY <1>7, <2>2 DEF Mirror!Next
  <2>4. QED
    BY <1>3, <1>4, <1>5, <2>3, MirrorStep DEF CacheInv
<1>8. CASE t \notin Mirrored
  <2>1. Shows' = Shows
    BY <1>3, <1>8 DEF Shows, Mirrored
  <2>2. Awaited' = Awaited
    BY <1>6, <1>8 DEF Awaited
  <2>3. UNCHANGED Mirror!vars
    BY <1>1, <1>6, <2>1, <2>2 DEF Mirror!vars, Kept, Shows, Awaited
  <2>4. QED
    BY <1>3, <1>4, <1>5, <2>3, MirrorStep DEF CacheInv
<1>9. QED
  BY <1>7, <1>8

LEMMA SubscribeStep ==
  ASSUME CacheInv, Subscribe
  PROVE  CacheInv' /\ [Mirror!Next]_(Mirror!vars)
<1>1. /\ ~subscribed /\ subscribed' /\ due' = {t \in Topics : retained[t] # None}
      /\ UNCHANGED <<retained, Nodes, Groups, OTA, dropped, published, lost>>
  BY DEF Subscribe, stateVars
<1>2. BrokerOk' /\ ImagesAgree'
  BY <1>1 DEF CacheInv, BrokerOk, ImagesAgree, Subscribe
<1>3. CacheOk'
  BY <1>1 DEF CacheInv, CacheOk
<1>4. \A s \in Mirrored : Shown(s)' = Shown(s) /\ Shown(s) = None
  BY <1>1, MirroredCases, ShownNode, ShownGroup, ShownImage DEF CacheInv, MirrorInv
<1>5. Complete'
  BY <1>1, <1>4 DEF Complete, Mirrored
<1>6. Kept' = Kept /\ Shows' = Shows
  BY <1>1, <1>4 DEF Kept, Shows, Mirrored
<1>7. Awaited' = {t \in Mirrored : Kept[t] # None}
  BY <1>1 DEF Awaited, Kept, Mirrored
<1>8. Mirror!Subscribe
  BY <1>1, <1>6, <1>7 DEF Mirror!Subscribe, Subscribe, Kept, Shows, Awaited
<1>9. Mirror!Next
  BY <1>8 DEF Mirror!Next
<1>10. QED
  BY <1>2, <1>3, <1>5, <1>9, MirrorStep DEF CacheInv

LEMMA LoseStep ==
  ASSUME CacheInv, Lose
  PROVE  CacheInv' /\ [Mirror!Next]_(Mirror!vars)
<1>1. /\ subscribed /\ subscribed' = FALSE /\ due' = {} /\ dropped' = {}
      /\ lost' = lost + 1 /\ lost < MaxLost /\ retained' = retained
      /\ published' = published
      /\ Nodes' = NoProps /\ Groups' = <<>> /\ OTA' = NoProps
  BY DEF Lose, resetState
<1>2. CacheOk' /\ \A s \in Mirrored : Shown(s)' = None
  BY <1>1, EmptyCache
<1>3. BrokerOk' /\ ImagesAgree' /\ Complete'
  <2>1. lost' \in 0..MaxLost
    BY <1>1, BoundAssumption DEF CacheInv, BrokerOk
  <2>2. QED
    BY <1>1, <2>1 DEF CacheInv, BrokerOk, ImagesAgree, Complete
<1>4. Shows' = [s \in Mirrored |-> None] /\ Kept' = Kept /\ Awaited' = {}
  BY <1>1, <1>2 DEF Shows, Kept, Awaited, Mirrored
<1>5. Mirror!Lose
  BY <1>1, <1>4 DEF Mirror!Lose, Shows, Kept, Awaited
<1>6. Mirror!Next
  BY <1>5 DEF Mirror!Next
<1>7. QED
  BY <1>2, <1>3, <1>6, MirrorStep DEF CacheInv

(* What is retained is dropped, unless it is on its way.                   *)
LEMMA ResetStep ==
  ASSUME CacheInv, Reset
  PROVE  CacheInv' /\ [Mirror!Next]_(Mirror!vars)
<1>1. /\ subscribed /\ UNCHANGED <<retained, subscribed, due, published, lost>>
      /\ dropped' = {t \in Topics : retained[t] # None} \ due
      /\ Nodes' = NoProps /\ Groups' = <<>> /\ OTA' = NoProps
  BY DEF Reset, resetState, brokerVars
<1>2. CacheOk' /\ \A s \in Mirrored : Shown(s)' = None
  BY <1>1, EmptyCache
<1>3. BrokerOk' /\ ImagesAgree'
  BY <1>1 DEF CacheInv, BrokerOk, ImagesAgree
<1>4. Complete'
  BY <1>1, <1>2 DEF Complete, Mirrored
<1>5. Shows' = [s \in Mirrored |-> None] /\ Kept' = Kept /\ Awaited' = Awaited
  BY <1>1, <1>2 DEF Shows, Kept, Awaited, Mirrored
<1>6. Mirror!Reset
  BY <1>1, <1>5 DEF Mirror!Reset, Shows, Kept, Awaited
<1>7. Mirror!Next
  BY <1>6 DEF Mirror!Next
<1>8. QED
  BY <1>2, <1>3, <1>4, <1>7, MirrorStep DEF CacheInv

LEMMA CacheStep == CacheInv /\ [Next]_vars => CacheInv' /\ [Mirror!Next]_(Mirror!vars)
<1> SUFFICES ASSUME CacheInv, [Next]_vars
             PROVE  CacheInv' /\ [Mirror!Next]_(Mirror!vars)
  OBVIOUS
<1>1. ASSUME NEW t \in Topics, Deliver(t)
      PROVE  CacheInv' /\ [Mirror!Next]_(Mirror!vars)
  BY <1>1, DeliverStep
<1>2. ASSUME NEW t \in Topics, NEW v \in Values \cup {None}, Publish(t, v)
      PROVE  CacheInv' /\ [Mirror!Next]_(Mirror!vars)
  BY <1>2, PublishStep
<1>3. CASE Subscribe
  BY <1>3, SubscribeStep
<1>4. CASE Lose
  BY <1>4, LoseStep
<1>5. CASE Reset
  BY <1>5, ResetStep
<1>6. CASE UNCHANGED vars
  <2>1. /\ UNCHANGED <<retained, subscribed, due, dropped, published, lost>>
        /\ UNCHANGED <<Nodes, Groups, OTA>>
    BY <1>6 DEF vars, brokerVars, stateVars
  <2>2. \A s \in Mirrored : Shown(s)' = Shown(s)
    BY <2>1, MirroredCases, ShownNode, ShownGroup, ShownImage
  <2>3. BrokerOk' /\ ImagesAgree'
    BY <2>1 DEF CacheInv, BrokerOk, ImagesAgree
  <2>4. CacheOk'
    BY <2>1 DEF CacheInv, CacheOk
  <2>5. Complete'
    BY <2>1, <2>2 DEF CacheInv, Complete, Mirrored
  <2>6. UNCHANGED Mirror!vars
    BY <2>1, <2>2 DEF Mirror!vars, Mirrored
  <2>7. QED
    BY <2>3, <2>4, <2>5, <2>6, MirrorStep DEF CacheInv
<1>7. QED
  BY <1>1, <1>2, <1>3, <1>4, <1>5, <1>6 DEF Next

-----------------------------------------------------------------------------
(* The results.                                                            *)

LEMMA CacheInvariant == Spec => []CacheInv
<1>1. CacheInv /\ [Next]_vars => CacheInv'
  BY CacheStep
<1>2. Init => CacheInv
  BY CacheInit
<1>3. QED
  BY <1>1, <1>2, PTL DEF Spec

(* The nested cache of handler.js implements the flat mirror of topics:    *)
(* whatever objects and arrays the handlers make, change and remove, a     *)
(* topic shows its last message, and nothing else shows another one.       *)
THEOREM CacheMirrors == Spec => MirrorSpec
<1>1. Init => Mirror!Init
  BY CacheInit
<1>2. CacheInv /\ [Next]_vars => [Mirror!Next]_(Mirror!vars)
  BY CacheStep
<1>3. QED
  BY <1>1, <1>2, CacheInvariant, PTL DEF Spec, MirrorSpec, Mirror!Spec

(* No message that the broker does not retain any more is ever shown; at   *)
(* most a member is left without a value.                                  *)
THEOREM CacheNeverStale == Spec => []NeverStale
BY CacheMirrors, MirrorNeverStale, PTL

(* Once nothing is on its way, what is shown is what is retained, but for  *)
(* what was forgotten with its node or group, or was retained already when *)
(* resetState emptied the cache of a subscription that went on.            *)
THEOREM CacheComplete == Spec => []Complete
<1>1. CacheInv => Complete
  BY DEF CacheInv
<1>2. QED
  BY <1>1, CacheInvariant, PTL

(* The loop of processGroup that removes groups while it iterates over     *)
(* them never leaves one without members, and no group is cached twice.    *)
THEOREM CacheNoHollowGroup == Spec => []NoHollowGroup
<1>1. CacheInv => NoHollowGroup
  <2> SUFFICES ASSUME CacheInv PROVE NoHollowGroup
    OBVIOUS
  <2>1. (\A k \in DOMAIN Groups : Groups[k].hasNodeList) /\ Distinct(Groups)
    BY DEF CacheInv, CacheOk, GroupsOk
  <2>2. ASSUME NEW g \in GroupIds PROVE Cardinality(IndexOf(g)) <= 1
    <3>1. CASE IndexOf(g) = {}
      BY <3>1, FS_EmptySet
    <3>2. CASE IndexOf(g) # {}
      <4>1. PICK k \in DOMAIN Groups : Groups[k].id = g
        BY <3>2 DEF IndexOf
      <4>2. IndexOf(g) = {k}
        BY <2>1, <4>1 DEF IndexOf, Distinct
      <4>3. Cardinality({k}) = 1
        BY FS_Singleton
      <4>4. QED
        BY <4>2, <4>3
    <3>3. QED
      BY <3>1, <3>2
  <2>3. QED
    BY <2>1, <2>2 DEF NoHollowGroup
<1>2. QED
  BY <1>1, CacheInvariant, PTL

(* The types of the broker's variables and of the cached objects.          *)
THEOREM CacheTypeCorrect == Spec => []TypeOK
<1>1. CacheInv => TypeOK
  <2> SUFFICES ASSUME CacheInv PROVE TypeOK
    OBVIOUS
  <2>1. \A u \in DOMAIN Nodes :
          /\ Nodes[u].state \in Values \cup {None}
          /\ Nodes[u].network \in Values \cup {None}
          /\ Nodes[u].props \in Props
    BY DEF CacheInv, CacheOk, NodesOk, NodeRecord
  <2>2. \A k \in DOMAIN Groups : Groups[k].NodeList \in Props /\ Groups[k].props \in Props
    BY DEF CacheInv, CacheOk, GroupsOk, GroupOk, GroupRecord
  <2>3. \A i \in DOMAIN OTA : OTA[i] \in [image : Values, Unid : SUBSET Unids]
    BY DEF CacheInv, CacheOk, ImagesOk, ImageRecord
  <2>4. QED
    BY <2>1, <2>2, <2>3 DEF CacheInv, BrokerOk, TypeOK
<1>2. QED
  BY <1>1, CacheInvariant, PTL
=============================================================================
