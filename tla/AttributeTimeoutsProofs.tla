----------------------- MODULE AttributeTimeoutsProofs -----------------------
(* One timer serves all attribute timeouts, and callbacks are called as    *)
(* promised, for any nodes, callbacks, durations and bounds.               *)
EXTENDS AttributeTimeouts, SequenceTheorems, TLAPS

USE DurationAssumption, BoundAssumption

-----------------------------------------------------------------------------
(* What is on the stack.                                                   *)

In(s, frame) == \E i \in DOMAIN s : s[i] = frame

LEMMA TailFacts ==
  ASSUME NEW s \in Seq(Frame), s # <<>>
  PROVE  /\ Tail(s) \in Seq(Frame)
         /\ \A f : In(s, f) <=> Head(s) = f \/ In(Tail(s), f)
<1>1. Tail(s) \in Seq(Frame) /\ Len(Tail(s)) = Len(s) - 1
  BY HeadTailProperties
<1>2. Len(s) \in Nat \ {0} /\ DOMAIN s = 1..Len(s) /\ Head(s) = s[1]
  BY EmptySeq, HeadTailProperties
<1>3. \A i \in 1..Len(Tail(s)) : Tail(s)[i] = s[i + 1]
  BY HeadTailProperties
<1>4. ASSUME NEW f, In(s, f)
      PROVE  Head(s) = f \/ In(Tail(s), f)
  <2>1. PICK i \in 1..Len(s) : s[i] = f
    BY <1>2, <1>4 DEF In
  <2>2. CASE i = 1
    BY <1>2, <2>1, <2>2
  <2>3. CASE i # 1
    <3>1. i - 1 \in 1..Len(Tail(s)) /\ Tail(s)[i - 1] = f
      BY <1>1, <1>2, <1>3, <2>1, <2>3
    <3>2. DOMAIN Tail(s) = 1..Len(Tail(s))
      BY <1>1
    <3>3. QED
      BY <3>1, <3>2 DEF In
  <2>4. QED
    BY <2>2, <2>3
<1>5. ASSUME NEW f, Head(s) = f \/ In(Tail(s), f)
      PROVE  In(s, f)
  <2>1. CASE Head(s) = f
    BY <1>2, <2>1 DEF In
  <2>2. CASE In(Tail(s), f)
    <3>1. PICK i \in 1..Len(Tail(s)) : Tail(s)[i] = f
      BY <1>1, <2>2 DEF In
    <3>2. i + 1 \in 1..Len(s) /\ s[i + 1] = f
      BY <1>1, <1>2, <1>3, <3>1
    <3>3. QED
      BY <1>2, <3>2 DEF In
  <2>3. QED
    BY <1>5, <2>1, <2>2
<1>6. QED
  BY <1>1, <1>4, <1>5

LEMMA PushFacts ==
  ASSUME NEW p \in Seq(Frame), NEW s \in Seq(Frame)
  PROVE  /\ p \o s \in Seq(Frame)
         /\ \A f : In(p \o s, f) <=> In(p, f) \/ In(s, f)
<1>1. /\ p \o s \in Seq(Frame)
      /\ Len(p \o s) = Len(p) + Len(s)
      /\ Len(p) \in Nat /\ Len(s) \in Nat
      /\ \A i \in 1..Len(p) : (p \o s)[i] = p[i]
      /\ \A i \in 1..Len(s) : (p \o s)[Len(p) + i] = s[i]
  BY ConcatProperties
<1>2. ASSUME NEW f, In(p \o s, f)
      PROVE  In(p, f) \/ In(s, f)
  <2>1. PICK i \in 1..(Len(p) + Len(s)) : (p \o s)[i] = f
    BY <1>1, <1>2 DEF In
  <2>2. CASE i \in 1..Len(p)
    BY <1>1, <2>1, <2>2 DEF In
  <2>3. CASE i \notin 1..Len(p)
    <3>1. i - Len(p) \in 1..Len(s) /\ i = Len(p) + (i - Len(p))
      BY <1>1, <2>1, <2>3
    <3>2. s[i - Len(p)] = f
      BY <1>1, <2>1, <3>1
    <3>3. QED
      BY <3>1, <3>2 DEF In
  <2>4. QED
    BY <2>2, <2>3
<1>3. ASSUME NEW f, In(p, f)
      PROVE  In(p \o s, f)
  <2>1. PICK i \in 1..Len(p) : p[i] = f
    BY <1>3 DEF In
  <2>2. i \in 1..Len(p \o s) /\ (p \o s)[i] = f
    BY <1>1, <2>1
  <2>3. QED
    BY <1>1, <2>2 DEF In
<1>4. ASSUME NEW f, In(s, f)
      PROVE  In(p \o s, f)
  <2>1. PICK i \in 1..Len(s) : s[i] = f
    BY <1>4 DEF In
  <2>2. Len(p) + i \in 1..Len(p \o s) /\ (p \o s)[Len(p) + i] = f
    BY <1>1, <2>1
  <2>3. DOMAIN (p \o s) = 1..Len(p \o s)
    BY <1>1
  <2>4. QED
    BY <2>2, <2>3 DEF In
<1>5. QED
  BY <1>1, <1>2, <1>3, <1>4

LEMMA OneFrame ==
  ASSUME NEW g \in Frame
  PROVE  /\ <<g>> \in Seq(Frame)
         /\ \A f : In(<<g>>, f) <=> f = g
<1>1. <<g>> \in Seq(Frame) /\ DOMAIN <<g>> = {1} /\ <<g>>[1] = g
  OBVIOUS
<1>2. QED
  BY <1>1 DEF In

LEMMA ScanFrames ==
  /\ <<"scan", "restart">> \in Seq(Frame)
  /\ <<"callback", "scan", "restart">> \in Seq(Frame)
  /\ In(<<"scan", "restart">>, "scan") /\ In(<<"scan", "restart">>, "restart")
  /\ In(<<"callback", "scan", "restart">>, "scan")
  /\ In(<<"callback", "scan", "restart">>, "restart")
<1>1. /\ <<"scan", "restart">>[1] = "scan" /\ <<"scan", "restart">>[2] = "restart"
      /\ 1 \in DOMAIN <<"scan", "restart">> /\ 2 \in DOMAIN <<"scan", "restart">>
  OBVIOUS
<1>2. /\ <<"callback", "scan", "restart">>[2] = "scan"
      /\ <<"callback", "scan", "restart">>[3] = "restart"
      /\ 2 \in DOMAIN <<"callback", "scan", "restart">>
      /\ 3 \in DOMAIN <<"callback", "scan", "restart">>
  OBVIOUS
<1>3. /\ <<"scan", "restart">> \in Seq(Frame)
      /\ <<"callback", "scan", "restart">> \in Seq(Frame)
  BY DEF Frame
<1>4. QED
  BY <1>1, <1>2, <1>3 DEF In

LEMMA EmptyStack == ~In(<<>>, "scan") /\ ~In(<<>>, "restart")
BY DEF In

LEMMA OnStackIn == \A f : OnStack(f) <=> In(stack, f)
BY DEF OnStack, In

(* Erasing the first timeout of a node and callback erases all of them.    *)
LEMMA ErasedFacts ==
  ASSUME NEW n, NEW c
  PROVE  /\ Erased(n, c) \subseteq timeouts
         /\ OnlyOne => Erased(n, c) = timeouts \ Of(n, c)
<1>1. CASE Of(n, c) = {}
  BY <1>1 DEF Erased
<1>2. CASE Of(n, c) # {}
  <2> DEFINE first == CHOOSE e \in Of(n, c) : TRUE
  <2>1. first \in Of(n, c)
    BY <1>2
  <2>2. Erased(n, c) = timeouts \ {first}
    BY <1>2 DEF Erased
  <2>3. OnlyOne => Of(n, c) = {first}
    <3> HIDE DEF first
    <3> QED
      BY <2>1 DEF OnlyOne, Of
  <2>4. QED
    BY <2>2, <2>3
<1>3. QED
  BY <1>1, <1>2

-----------------------------------------------------------------------------
(* The inductive invariant: while a restart is to come the timer may be    *)
(* late for what is to come, and while a scan is to come it may be missing *)
(* for what is due.                                                        *)

ToComeCovered ==
  ~OnStack("restart") => \A e \in ToCome : WakesBy(e.timestamp)
DueCovered ==
  ~slipped /\ ~OnStack("scan") /\ Due # {} => Wakes
IInv == TypeOK /\ OnlyOne /\ ToComeCovered /\ DueCovered

LEMMA InitIInv == Init => IInv
<1> SUFFICES ASSUME Init PROVE IInv
  OBVIOUS
<1>1. TypeOK
  <2>1. stack \in Seq(Frame)
    BY DEF Init
  <2>2. called \in [Nodes \X Callbacks -> Nat]
    BY DEF Init
  <2>3. QED
    <3>1. timeouts \subseteq Timeout /\ listed \in BOOLEAN /\ slipped \in BOOLEAN
      BY DEF Init
    <3>2. clock \in 0..MaxClock /\ etimer \in 0..MaxClock /\ events \in Nat
          /\ calls \in 0..MaxCalls
      BY DEF Init
    <3>3. QED
      BY <2>1, <2>2, <3>1, <3>2 DEF TypeOK
<1>2. OnlyOne /\ ToCome = {} /\ Due = {}
  BY DEF Init, OnlyOne, ToCome, Due
<1>3. QED
  BY <1>1, <1>2 DEF IInv, ToComeCovered, DueCovered

(* When the set of timeouts only shrinks, the clock and the timer stay and *)
(* the stack loses no scan and no restart, everything stays covered.       *)
LEMMA Shrinks ==
  ASSUME IInv, timeouts' \subseteq timeouts,
         UNCHANGED <<clock, timerVars, slipped>>,
         stack' \in Seq(Frame),
         OnStack("scan") => OnStack("scan")',
         OnStack("restart") => OnStack("restart")'
  PROVE  OnlyOne' /\ ToComeCovered' /\ DueCovered'
<1>1. OnlyOne'
  BY DEF IInv, OnlyOne
<1>2. ToCome' \subseteq ToCome /\ Due' \subseteq Due
  BY DEF ToCome, Due
<1>3. /\ Wakes' = Wakes
      /\ \A t : WakesBy(t)' <=> WakesBy(t)
  BY DEF Wakes, WakesBy, timerVars
<1>4. ToComeCovered'
  <2> SUFFICES ASSUME ~OnStack("restart")', NEW e \in ToCome'
               PROVE  WakesBy(e.timestamp)'
    BY DEF ToComeCovered
  <2>1. e \in ToCome /\ WakesBy(e.timestamp)
    BY <1>2 DEF IInv, ToComeCovered
  <2>2. QED
    BY <2>1 DEF WakesBy, timerVars
<1>5. DueCovered'
  BY <1>2, <1>3 DEF IInv, DueCovered
<1>6. QED
  BY <1>1, <1>4, <1>5

(* A function that pushes frames and changes no timer: the stack keeps     *)
(* what it had.                                                            *)
LEMMA Pushes ==
  ASSUME TypeOK, NEW p \in Seq(Frame), Push(p)
  PROVE  /\ stack' \in Seq(Frame)
         /\ \A f : In(stack', f) <=> In(p, f) \/ In(stack, f)
BY PushFacts DEF TypeOK, Push

LEMMA Pops ==
  ASSUME TypeOK, NEW f, Running(f), stack' = Tail(stack)
  PROVE  /\ stack' \in Seq(Frame)
         /\ \A g : g # f => (In(stack', g) <=> In(stack, g))
BY TailFacts DEF TypeOK, Running
LEMMA CalledFacts ==
  ASSUME TypeOK, NEW n \in Nodes, NEW c \in Callbacks, Called(n, c)
  PROVE  called' \in [Nodes \X Callbacks -> Nat]
<1>1. called[<<n, c>>] + 1 \in Nat
  BY DEF TypeOK
<1>2. QED
  BY <1>1 DEF TypeOK, Called

-----------------------------------------------------------------------------
(* One lemma per action.                                                   *)

LEMMA StepTick == IInv /\ Tick => IInv'
<1> SUFFICES ASSUME IInv, Tick PROVE IInv'
  OBVIOUS
<1> USE DEF IInv
<1>1. TypeOK'
  <2>1. clock' \in 0..MaxClock /\ slipped' \in BOOLEAN
    BY DEF TypeOK, Tick
  <2>2. QED
    BY <2>1 DEF TypeOK, Tick, timerVars
<1>2. OnlyOne'
  BY DEF OnlyOne, Tick
<1>3. /\ clock \in Nat /\ clock' = clock + 1
      /\ \A e \in timeouts : e.timestamp \in Nat
  BY DEF TypeOK, Tick, Timeout
<1>4. ToCome' \subseteq ToCome /\ Due' \subseteq Due \cup ToCome
  BY <1>3 DEF ToCome, Due, Tick
<1>5. \A f : OnStack(f)' <=> OnStack(f)
  BY DEF OnStack, Tick
<1>6. ToComeCovered'
  <2> SUFFICES ASSUME ~OnStack("restart")', NEW e \in ToCome'
               PROVE  WakesBy(e.timestamp)'
    BY DEF ToComeCovered
  <2>1. WakesBy(e.timestamp)
    BY <1>4, <1>5 DEF ToComeCovered
  <2>2. QED
    BY <2>1 DEF WakesBy, Tick, timerVars
<1>7. DueCovered'
  <2> SUFFICES ASSUME ~slipped', ~OnStack("scan")', NEW e \in Due'
               PROVE  Wakes'
    BY DEF DueCovered
  <2>1. ~slipped /\ ~OnStack("scan") /\ ~OnStack("restart")
    BY <1>5 DEF Tick
  <2>2. CASE e \in Due
    BY <2>1, <2>2 DEF DueCovered, Wakes, Tick, timerVars
  <2>3. CASE e \in ToCome
    <3>1. WakesBy(e.timestamp)
      BY <2>1, <2>3 DEF ToComeCovered
    <3>2. QED
      BY <3>1 DEF WakesBy, Wakes, Tick, timerVars
  <2>4. QED
    BY <1>4, <2>2, <2>3
<1>8. QED
  BY <1>1, <1>2, <1>6, <1>7

LEMMA StepExpire == IInv /\ Expire => IInv'
<1> SUFFICES ASSUME IInv, Expire PROVE IInv'
  OBVIOUS
<1> USE DEF IInv
<1>1. events \in Nat /\ events' = events + 1 /\ etimer' = 0 /\ listed' = listed
  BY DEF TypeOK, Expire
<1>2. TypeOK'
  BY <1>1 DEF TypeOK, Expire
<1>3. OnlyOne' /\ ToCome' = ToCome /\ Due' = Due
  BY DEF OnlyOne, ToCome, Due, Expire
<1>4. \A f : OnStack(f)' <=> OnStack(f)
  BY DEF OnStack, Expire
<1>5. ToComeCovered'
  <2> SUFFICES ASSUME ~OnStack("restart")', NEW e \in ToCome'
               PROVE  WakesBy(e.timestamp)'
    BY DEF ToComeCovered
  <2>1. WakesBy(e.timestamp)
    BY <1>3, <1>4 DEF ToComeCovered
  <2>2. QED
    BY <1>1, <2>1 DEF WakesBy
<1>6. DueCovered'
  BY <1>1, <1>3, <1>4 DEF DueCovered, Wakes, Expire
<1>7. QED
  BY <1>2, <1>3, <1>5, <1>6

LEMMA StepEvent == IInv /\ Event => IInv'
<1> SUFFICES ASSUME IInv, Event PROVE IInv'
  OBVIOUS
<1> USE DEF IInv
<1>1. events \in Nat /\ events' \in Nat
  BY DEF TypeOK, Event
<1>2. OnlyOne' /\ ToCome' = ToCome /\ Due' = Due
  BY DEF OnlyOne, ToCome, Due, Event
<1>3. CASE listed
  <2>1. listed' = FALSE /\ Push(<<"scan", "restart">>)
    BY <1>3 DEF Event
  <2>2. stack' \in Seq(Frame) /\ In(stack', "scan") /\ In(stack', "restart")
    BY <2>1, Pushes, ScanFrames
  <2>3. TypeOK'
    BY <1>1, <2>1, <2>2 DEF TypeOK, Event
  <2>4. OnStack("scan")' /\ OnStack("restart")'
    BY <2>2 DEF OnStack, In
  <2>5. QED
    BY <1>2, <2>3, <2>4 DEF ToComeCovered, DueCovered
<1>4. CASE ~listed
  <2>1. UNCHANGED <<listed, stack>>
    BY <1>4 DEF Event
  <2>2. TypeOK'
    BY <1>1, <2>1 DEF TypeOK, Event
  <2>3. ~OnStack("scan") /\ ~OnStack("restart")
    BY EmptyStack, OnStackIn DEF Event
  <2>4. ToCome = {} /\ (~slipped => Due = {})
    BY <1>4, <2>3 DEF ToComeCovered, DueCovered, WakesBy, Wakes
  <2>5. QED
    BY <1>2, <2>2, <2>4 DEF ToComeCovered, DueCovered, Event
<1>5. QED
  BY <1>3, <1>4

LEMMA StepRestart == IInv /\ Restart => IInv'
<1> SUFFICES ASSUME IInv, Restart PROVE IInv'
  OBVIOUS
<1> USE DEF IInv
<1>1. /\ stack' \in Seq(Frame)
      /\ In(stack', "scan") <=> In(stack, "scan")
  BY Pops DEF Restart
<1>2. OnStack("scan")' <=> OnStack("scan")
  BY <1>1 DEF OnStack, In
<1>3. OnlyOne' /\ ToCome' = ToCome /\ Due' = Due
  BY DEF OnlyOne, ToCome, Due, Restart
<1>4. CASE ToCome = {} /\ UNCHANGED timerVars
  <2>1. TypeOK'
    BY <1>1, <1>4 DEF TypeOK, Restart, timerVars
  <2>2. DueCovered'
    BY <1>2, <1>3, <1>4 DEF DueCovered, Wakes, Restart, timerVars
  <2>3. QED
    BY <1>3, <1>4, <2>1, <2>2 DEF ToComeCovered
<1>5. ASSUME NEW e \in ToCome,
             \A f \in ToCome : e.timestamp <= f.timestamp,
             ctimer_set(e.timestamp)
      PROVE  IInv'
  <2>1. e.timestamp \in 1..MaxClock
    BY DEF TypeOK, ToCome, Timeout
  <2>2. etimer' = e.timestamp /\ listed' = TRUE /\ events' = events
    BY <1>5 DEF ctimer_set
  <2>3. TypeOK'
    BY <1>1, <2>1, <2>2 DEF TypeOK, Restart
  <2>4. ToComeCovered'
    BY <1>3, <1>5, <2>1, <2>2 DEF ToComeCovered, WakesBy
  <2>5. DueCovered'
    BY <2>1, <2>2 DEF DueCovered, Wakes
  <2>6. QED
    BY <1>3, <2>3, <2>4, <2>5
<1>6. QED
  BY <1>4, <1>5 DEF Restart

LEMMA StepScan == IInv /\ Scan => IInv'
<1> SUFFICES ASSUME IInv, Scan PROVE IInv'
  OBVIOUS
<1> USE DEF IInv
<1>1. CASE Due = {} /\ stack' = Tail(stack) /\ UNCHANGED <<timeouts, called>>
  <2>1. /\ stack' \in Seq(Frame)
        /\ In(stack', "restart") <=> In(stack, "restart")
    BY <1>1, Pops DEF Scan
  <2>2. OnStack("restart")' <=> OnStack("restart")
    BY <2>1 DEF OnStack, In
  <2>3. OnlyOne' /\ ToCome' = ToCome /\ Due' = {}
    BY <1>1 DEF OnlyOne, ToCome, Due, Scan
  <2>4. TypeOK'
    BY <1>1, <2>1 DEF TypeOK, Scan, timerVars
  <2>5. ToComeCovered'
    <3> SUFFICES ASSUME ~OnStack("restart")', NEW e \in ToCome'
                 PROVE  WakesBy(e.timestamp)'
      BY DEF ToComeCovered
    <3>1. WakesBy(e.timestamp)
      BY <2>2, <2>3 DEF ToComeCovered
    <3>2. QED
      BY <3>1 DEF WakesBy, Scan, timerVars
  <2>6. QED
    BY <2>3, <2>4, <2>5 DEF DueCovered
<1>2. ASSUME NEW e \in Due,
             timeouts' = timeouts \ {e},
             Called(e.node, e.callback),
             stack' = <<"callback", "scan", "restart">> \o Tail(stack)
      PROVE  IInv'
  <2>1. Tail(stack) \in Seq(Frame)
    BY TailFacts DEF TypeOK, Scan, Running
  <2>2. stack' \in Seq(Frame) /\ In(stack', "scan") /\ In(stack', "restart")
    BY <1>2, <2>1, ScanFrames, PushFacts
  <2>3. OnStack("scan")' /\ OnStack("restart")'
    BY <2>2 DEF OnStack, In
  <2>4. OnlyOne'
    BY <1>2 DEF OnlyOne
  <2>5. called' \in [Nodes \X Callbacks -> Nat]
    BY <1>2, CalledFacts DEF TypeOK, Due, Timeout
  <2>6. TypeOK'
    BY <1>2, <2>2, <2>5 DEF TypeOK, Scan, timerVars
  <2>7. QED
    BY <2>3, <2>4, <2>6 DEF ToComeCovered, DueCovered
<1>3. QED
  BY <1>1, <1>2 DEF Scan

LEMMA StepReturn == IInv /\ Return => IInv'
<1> SUFFICES ASSUME IInv, Return PROVE IInv'
  OBVIOUS
<1>1. /\ stack' \in Seq(Frame)
      /\ In(stack', "scan") <=> In(stack, "scan")
      /\ In(stack', "restart") <=> In(stack, "restart")
  BY Pops DEF Return, IInv
<1>2. /\ OnStack("scan") => OnStack("scan")'
      /\ OnStack("restart") => OnStack("restart")'
  BY <1>1 DEF OnStack, In
<1>3. TypeOK'
  BY <1>1 DEF IInv, TypeOK, Return, timerVars
<1>4. QED
  BY <1>1, <1>2, <1>3, Shrinks DEF Return, IInv

LEMMA StepSet ==
  ASSUME IInv, NEW n \in Nodes, NEW c \in Callbacks, NEW d \in Durations,
         attribute_timeout_set_callback(n, c, d)
  PROVE  IInv'
<1> USE DEF IInv
<1> DEFINE new == [node |-> n, callback |-> c, timestamp |-> clock + d]
<1>1. calls' \in 0..MaxCalls /\ clock' = clock /\ slipped' = slipped
  BY DEF TypeOK, attribute_timeout_set_callback, Enter
<1>2. CASE d = 0
  <2>1. Called(n, c) /\ Push(<<"callback">>) /\ timeouts' = timeouts
    BY <1>2 DEF attribute_timeout_set_callback
  <2>2. /\ stack' \in Seq(Frame)
        /\ In(stack, "scan") => In(stack', "scan")
        /\ In(stack, "restart") => In(stack', "restart")
    BY <2>1, Pushes, OneFrame DEF Frame
  <2>3. TypeOK'
    BY <1>1, <2>1, <2>2, CalledFacts
    DEF TypeOK, attribute_timeout_set_callback, timerVars
  <2>4. /\ OnStack("scan") => OnStack("scan")'
        /\ OnStack("restart") => OnStack("restart")'
    BY <2>2 DEF OnStack, In
  <2>5. QED
    BY <1>1, <2>1, <2>2, <2>3, <2>4, Shrinks DEF attribute_timeout_set_callback
<1>3. CASE d # 0
  <2>1. /\ timeouts' = Erased(n, c) \cup {new}
        /\ Push(<<"restart">>)
        /\ called' = called
    BY <1>3 DEF attribute_timeout_set_callback
  <2>2. /\ stack' \in Seq(Frame)
        /\ In(stack, "scan") => In(stack', "scan")
        /\ In(stack', "restart")
    BY <2>1, Pushes, OneFrame DEF Frame
  <2>3. /\ OnStack("scan") => OnStack("scan")'
        /\ OnStack("restart")'
    BY <2>2 DEF OnStack, In
  <2>4. new \in Timeout /\ new.timestamp > clock
    BY <1>3 DEF TypeOK, Timeout, attribute_timeout_set_callback
  <2>5. timeouts' \subseteq Timeout
    BY <2>1, <2>4, ErasedFacts DEF TypeOK
  <2>6. TypeOK'
    BY <1>1, <2>1, <2>2, <2>5 DEF TypeOK, attribute_timeout_set_callback, timerVars
  <2>7. OnlyOne'
    <3>1. timeouts' = (timeouts \ Of(n, c)) \cup {new}
      BY <2>1, ErasedFacts
    <3>2. \A e \in timeouts \ Of(n, c) : ~(e.node = n /\ e.callback = c)
      BY DEF Of
    <3>3. new.node = n /\ new.callback = c
      OBVIOUS
    <3>4. QED
      <4> HIDE DEF new
      <4> QED
        BY <3>1, <3>2, <3>3 DEF OnlyOne
  <2>8. Due' \subseteq Due
    <3>1. clock \in Nat /\ new.timestamp \in Nat
      BY <2>4 DEF TypeOK, Timeout
    <3>2. ~(new.timestamp <= clock)
      BY <2>4, <3>1
    <3> HIDE DEF new
    <3>3. QED
      BY <1>1, <2>1, <3>2, ErasedFacts DEF Due
  <2>9. DueCovered'
    BY <1>1, <2>3, <2>8
    DEF DueCovered, Wakes, attribute_timeout_set_callback, timerVars
  <2>10. QED
    BY <2>3, <2>6, <2>7, <2>9 DEF ToComeCovered
<1>4. QED
  BY <1>2, <1>3

LEMMA StepCancel ==
  ASSUME IInv, NEW n \in Nodes, NEW c \in Callbacks,
         attribute_timeout_cancel_callback(n, c)
  PROVE  IInv'
<1>1. timeouts' \subseteq timeouts /\ stack' = stack
  BY ErasedFacts DEF attribute_timeout_cancel_callback
<1>2. TypeOK'
  BY <1>1 DEF IInv, TypeOK, attribute_timeout_cancel_callback, Enter, timerVars
<1>3. stack' \in Seq(Frame) /\ \A f : OnStack(f) => OnStack(f)'
  BY <1>1 DEF IInv, TypeOK, OnStack
<1>4. QED
  BY <1>1, <1>2, <1>3, Shrinks DEF IInv, attribute_timeout_cancel_callback

LEMMA StepDelete ==
  ASSUME IInv, NEW n \in Nodes, on_attribute_node_deleted(n)
  PROVE  IInv'
<1>1. timeouts' \subseteq timeouts /\ Push(<<"restart">>)
  BY DEF on_attribute_node_deleted
<1>2. /\ stack' \in Seq(Frame)
      /\ In(stack, "scan") => In(stack', "scan")
      /\ In(stack, "restart") => In(stack', "restart")
  BY <1>1, Pushes, OneFrame DEF Frame, IInv
<1>3. /\ OnStack("scan") => OnStack("scan")'
      /\ OnStack("restart") => OnStack("restart")'
  BY <1>2 DEF OnStack, In
<1>4. TypeOK'
  BY <1>1, <1>2 DEF IInv, TypeOK, on_attribute_node_deleted, Enter, timerVars
<1>5. QED
  BY <1>1, <1>2, <1>3, <1>4, Shrinks DEF IInv, on_attribute_node_deleted

LEMMA StepClear ==
  IInv /\ (attribute_timeouts_init \/ attribute_timeouts_teardown) => IInv'
<1> SUFFICES ASSUME IInv, attribute_timeouts_init \/ attribute_timeouts_teardown
             PROVE  IInv'
  OBVIOUS
<1>1. /\ timeouts' = {}
      /\ etimer' \in 0..MaxClock /\ listed' \in BOOLEAN /\ events' \in Nat
      /\ calls' \in 0..MaxCalls
      /\ UNCHANGED <<clock, stack, called, slipped>>
  <2>1. calls \in 0..MaxCalls /\ calls < MaxCalls => calls + 1 \in 0..MaxCalls
    OBVIOUS
  <2>2. 0 \in 0..MaxClock
    OBVIOUS
  <2>3. CASE attribute_timeouts_init
    BY <2>1, <2>3 DEF attribute_timeouts_init, Enter, IInv, TypeOK, timerVars
  <2>4. CASE attribute_timeouts_teardown
    BY <2>1, <2>2, <2>4
    DEF attribute_timeouts_teardown, ctimer_stop, Enter, IInv, TypeOK
  <2>5. QED
    BY <2>3, <2>4
<1>2. TypeOK'
  BY <1>1 DEF IInv, TypeOK
<1>3. OnlyOne' /\ ToCome' = {} /\ Due' = {}
  BY <1>1 DEF OnlyOne, ToCome, Due
<1>4. QED
  BY <1>2, <1>3 DEF IInv, ToComeCovered, DueCovered

LEMMA StepStutter == IInv /\ UNCHANGED vars => IInv'
<1> SUFFICES ASSUME IInv, UNCHANGED vars PROVE IInv'
  OBVIOUS
<1>1. TypeOK'
  BY DEF IInv, TypeOK, vars, timerVars
<1>2. \A f : OnStack(f) => OnStack(f)'
  BY DEF OnStack, vars
<1>3. QED
  BY <1>1, <1>2, Shrinks DEF IInv, TypeOK, vars

LEMMA Step == IInv /\ [Next]_vars => IInv'
<1> SUFFICES ASSUME IInv, [Next]_vars PROVE IInv'
  OBVIOUS
<1>1. CASE Tick
  BY <1>1, StepTick
<1>2. CASE Expire
  BY <1>2, StepExpire
<1>3. CASE Event
  BY <1>3, StepEvent
<1>4. CASE Scan
  BY <1>4, StepScan
<1>5. CASE Restart
  BY <1>5, StepRestart
<1>6. CASE Return
  BY <1>6, StepReturn
<1>7. ASSUME NEW n \in Nodes, NEW c \in Callbacks, NEW d \in Durations,
             attribute_timeout_set_callback(n, c, d)
      PROVE  IInv'
  BY <1>7, StepSet
<1>8. ASSUME NEW n \in Nodes, NEW c \in Callbacks,
             attribute_timeout_cancel_callback(n, c)
      PROVE  IInv'
  BY <1>8, StepCancel
<1>9. ASSUME NEW n \in Nodes, on_attribute_node_deleted(n)
      PROVE  IInv'
  BY <1>9, StepDelete
<1>10. CASE attribute_timeouts_init \/ attribute_timeouts_teardown
  BY <1>10, StepClear
<1>11. CASE UNCHANGED vars
  BY <1>11, StepStutter
<1>12. QED
  BY <1>1, <1>2, <1>3, <1>4, <1>5, <1>6, <1>7, <1>8, <1>9, <1>10, <1>11 DEF Next

-----------------------------------------------------------------------------
(* The theorems.                                                           *)

(* The inductive invariant: the watch timer covers what is to come unless  *)
(* a restart of it is under way, and what is due unless a scan is, or the  *)
(* clock has slipped.                                                      *)
THEOREM Invariant == Spec => []IInv
BY InitIInv, Step, PTL DEF Spec

(* Type correctness of the timeouts, the watch timer and the stack.        *)
THEOREM TypeCorrect == Spec => []TypeOK
<1>1. IInv => TypeOK
  BY DEF IInv
<1>2. QED
  BY <1>1, Invariant, PTL

(* A node and callback have at most one timeout: set_callback cancels what *)
(* is there, and cancelling one cancels all.                               *)
THEOREM OneAtATime == Spec => []OnlyOne
<1>1. IInv => OnlyOne
  BY DEF IInv
<1>2. QED
  BY <1>1, Invariant, PTL

(* Between calls the watch timer is never late for a timeout to come.      *)
THEOREM TimerInTime == Spec => []NextInTime
<1>1. IInv => NextInTime
  BY EmptyStack, OnStackIn DEF IInv, ToComeCovered, NextInTime
<1>2. QED
  BY <1>1, Invariant, PTL

(* Nothing but the clock moving inside a function loses a timeout, and     *)
(* only one that is due.                                                   *)
THEOREM SlipsBound == Spec => []ForgottenMeansSlipped
<1>1. IInv => ForgottenMeansSlipped
  <2> SUFFICES ASSUME IInv, stack = <<>>, NEW e \in timeouts, ~Wakes
               PROVE  slipped /\ ToCome = {}
    BY DEF ForgottenMeansSlipped
  <2>1. ~OnStack("scan") /\ ~OnStack("restart")
    BY EmptyStack, OnStackIn
  <2>2. ToCome = {}
    BY <2>1 DEF IInv, ToComeCovered, WakesBy, Wakes
  <2>3. e \in Due
    <3>1. clock \in Nat /\ e.timestamp \in Nat /\ e \notin ToCome
      BY <2>2 DEF IInv, TypeOK, Timeout
    <3>2. QED
      BY <3>1 DEF ToCome, Due
  <2>4. QED
    BY <2>1, <2>2, <2>3 DEF IInv, DueCovered, TypeOK
<1>2. QED
  BY <1>1, Invariant, PTL

-----------------------------------------------------------------------------
(* The implementation of the promise.                                      *)

LEMMA PromiseInit == Init => Promise!Init
BY DEF Init, Promise!Init

LEMMA PromiseScan ==
  ASSUME IInv, Scan
  PROVE  \/ \E n \in Nodes, c \in Callbacks : Promise!Serve(n, c)
         \/ UNCHANGED Promise!vars
<1>1. CASE UNCHANGED <<timeouts, called>>
  BY <1>1 DEF Scan, Promise!vars
<1>2. ASSUME NEW e \in Due, timeouts' = timeouts \ {e}, Called(e.node, e.callback)
      PROVE  \E n \in Nodes, c \in Callbacks : Promise!Serve(n, c)
  <2>1. e \in timeouts /\ e.timestamp <= clock /\ e.node \in Nodes /\ e.callback \in Callbacks
    BY DEF Due, IInv, TypeOK, Timeout
  <2>2. Promise!Of(e.node, e.callback) = {e}
    BY <2>1 DEF Promise!Of, IInv, OnlyOne
  <2>3. Promise!Call(e.node, e.callback)
    BY <1>2 DEF Called, Promise!Call
  <2>4. Promise!Serve(e.node, e.callback)
    BY <1>2, <2>1, <2>2, <2>3 DEF Promise!Serve, Scan
  <2>5. QED
    BY <2>1, <2>4
<1>3. QED
  BY <1>1, <1>2 DEF Scan

LEMMA PromiseSet ==
  ASSUME IInv, NEW n \in Nodes, NEW c \in Callbacks, NEW d \in Durations,
         attribute_timeout_set_callback(n, c, d)
  PROVE  Promise!SetToZero(n, c) \/ Promise!Set(n, c, d) \/ SetToZeroWhilePending
<1>1. CASE d = 0
  <2>1. CASE attribute_timeout_is_callback_active(n, c)
    BY <1>1, <2>1 DEF SetToZeroWhilePending
  <2>2. CASE ~attribute_timeout_is_callback_active(n, c)
    <3>1. timeouts \ Promise!Of(n, c) = timeouts
      BY <2>2 DEF attribute_timeout_is_callback_active, Of, Promise!Of
    <3>2. Promise!SetToZero(n, c)
      BY <1>1, <3>1 DEF attribute_timeout_set_callback, Promise!SetToZero,
                        Called, Promise!Call, Enter, Promise!Enter
    <3>3. QED
      BY <3>2
  <2>3. QED
    BY <2>1, <2>2
<1>2. CASE d # 0
  <2>1. Erased(n, c) = timeouts \ Promise!Of(n, c)
    BY ErasedFacts DEF IInv, Of, Promise!Of
  <2>2. QED
    BY <1>2, <2>1 DEF attribute_timeout_set_callback, Promise!Set,
                      Enter, Promise!Enter
<1>3. QED
  BY <1>1, <1>2

LEMMA PromiseCancel ==
  ASSUME IInv, NEW n \in Nodes, NEW c \in Callbacks,
         attribute_timeout_cancel_callback(n, c)
  PROVE  Promise!Cancel(n, c)
<1>1. Erased(n, c) = timeouts \ Promise!Of(n, c)
  BY ErasedFacts DEF IInv, Of, Promise!Of
<1>2. QED
  BY <1>1 DEF attribute_timeout_cancel_callback, Promise!Cancel,
               Enter, Promise!Enter

LEMMA PromiseStep ==
  IInv /\ [Next]_vars => [Promise!Next \/ SetToZeroWhilePending]_(Promise!vars)
<1> SUFFICES ASSUME IInv, [Next]_vars
             PROVE  [Promise!Next \/ SetToZeroWhilePending]_(Promise!vars)
  OBVIOUS
<1>1. CASE Tick
  BY <1>1 DEF Tick, Promise!Tick, Promise!Next
<1>2. CASE Expire \/ Event \/ Restart \/ Return \/ UNCHANGED vars
  BY <1>2 DEF Expire, Event, Restart, Return, vars, Promise!vars
<1>3. CASE Scan
  BY <1>3, PromiseScan DEF Promise!Next
<1>4. ASSUME NEW n \in Nodes, NEW c \in Callbacks, NEW d \in Durations,
             attribute_timeout_set_callback(n, c, d)
      PROVE  Promise!Next \/ SetToZeroWhilePending
  BY <1>4, PromiseSet DEF Promise!Next
<1>5. ASSUME NEW n \in Nodes, NEW c \in Callbacks,
             attribute_timeout_cancel_callback(n, c)
      PROVE  Promise!Next
  BY <1>5, PromiseCancel DEF Promise!Next
<1>6. ASSUME NEW n \in Nodes, on_attribute_node_deleted(n)
      PROVE  Promise!Next
  <2>1. Promise!Delete(n)
    BY <1>6 DEF on_attribute_node_deleted, Promise!Delete, Enter, Promise!Enter
  <2>2. QED
    BY <2>1 DEF Promise!Next
<1>7. CASE attribute_timeouts_init \/ attribute_timeouts_teardown
  <2>1. Promise!Clear
    BY <1>7 DEF attribute_timeouts_init, attribute_timeouts_teardown, Promise!Clear,
               Enter, Promise!Enter
  <2>2. QED
    BY <2>1 DEF Promise!Next
<1>8. QED
  BY <1>1, <1>2, <1>3, <1>4, <1>5, <1>6, <1>7 DEF Next

(* Attribute timeouts keep the promise of attribute_timeouts.h, but for    *)
(* one kind of step, a callback set with duration 0 while it is set: a     *)
(* callback runs at most once for each time it was set, never early, and   *)
(* not once it was cancelled, set anew or its node deleted.                *)
THEOREM KeepsPromise == Spec => PromiseButForZero
BY PromiseInit, PromiseStep, Invariant, PTL DEF Spec, PromiseButForZero
=============================================================================
