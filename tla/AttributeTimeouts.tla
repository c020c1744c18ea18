-------------------------- MODULE AttributeTimeouts --------------------------
(* Attribute timeouts (components/uic_attribute_utils) on the callback     *)
(* timers of Contiki (components/uic_contiki/core/sys).                    *)
(*                                                                         *)
(* All timeouts share one timer, the watch timer, that is set for the next *)
(* of them.  The program has one thread, but its clock moves on also while *)
(* a function runs, and each function here reads it anew: so a step is one *)
(* reading of the clock, and what is left of the functions under way is a  *)
(* stack.  Callbacks may themselves set, cancel and delete.                *)
EXTENDS Naturals, Sequences

CONSTANTS
  Nodes,       \* attribute store nodes
  Callbacks,   \* callback functions
  Durations,   \* what callers pass, 0 among them
  MaxClock,    \* bound: the clock, and any time that is set
  MaxCalls     \* bound: calls into this component

ASSUME DurationAssumption == Durations \subseteq Nat
ASSUME BoundAssumption == MaxClock \in Nat /\ MaxCalls \in Nat

VARIABLES
  clock,       \* clock_time()
  timeouts,    \* attribute_timeouts, a multimap of nodes
  etimer,      \* when the watch timer goes off, 0 if it is not on timerlist
  listed,      \* the watch timer is on ctimer_list
  events,      \* timer events for it, in the event queue
  stack,       \* what is left to run, the innermost first
  called,      \* history: how often each callback was called for each node
  slipped,     \* history: the clock moved between a reading of it and the
               \* next, and no scan of the timeouts was to come
  calls        \* bounded counter

timerVars == <<etimer, listed, events>>
vars == <<clock, timeouts, timerVars, stack, called, slipped, calls>>

Timeout == [node : Nodes, callback : Callbacks, timestamp : 1..MaxClock]
Frame == {"callback", "scan", "restart"}

Push(frames) == stack' = frames \o stack
Running(frame) == stack # <<>> /\ Head(stack) = frame
OnStack(frame) == \E i \in DOMAIN stack : stack[i] = frame

Of(n, c) == {e \in timeouts : e.node = n /\ e.callback = c}
(* Mutant: a timeout is due a moment early.                                *)
Due_Early == {e \in timeouts : e.timestamp <= clock + 1}

Due == {e \in timeouts : e.timestamp <= clock}
ToCome == {e \in timeouts : e.timestamp > clock}

Called(n, c) == called' = [called EXCEPT ![<<n, c>>] = @ + 1]

-----------------------------------------------------------------------------
(* The watch timer.                                                        *)

(* ctimer_set reads the clock again; how much later the timer goes off is  *)
(* part of how late Expire may be.                                         *)
ctimer_set(t) ==
  /\ etimer' = t
  /\ listed' = TRUE
  /\ UNCHANGED events

ctimer_stop ==
  /\ etimer' = 0
  /\ listed' = FALSE
  /\ UNCHANGED events

(* etimer_process: when the event queue is full it tries again.            *)
Expire ==
  /\ stack = <<>>
  /\ etimer # 0 /\ etimer <= clock
  /\ etimer' = 0
  /\ events' = events + 1
  /\ UNCHANGED <<clock, timeouts, listed, stack, called, slipped, calls>>

(* Mutant: the last restart of the timer is missing.                       *)
Event_NoRestart ==
  /\ stack = <<>>
  /\ events > 0
  /\ events' = events - 1
  /\ IF listed THEN listed' = FALSE /\ Push(<<"scan">>)
     ELSE UNCHANGED <<listed, stack>>
  /\ UNCHANGED <<clock, timeouts, etimer, called, slipped, calls>>

(* ctimer_process: an event counts if the timer is listed, though it may   *)
(* have been set again since; then it calls invoke_timeout_functions.      *)
Event ==
  /\ stack = <<>>
  /\ events > 0
  /\ events' = events - 1
  /\ IF listed THEN listed' = FALSE /\ Push(<<"scan", "restart">>)
     ELSE UNCHANGED <<listed, stack>>
  /\ UNCHANGED <<clock, timeouts, etimer, called, slipped, calls>>

-----------------------------------------------------------------------------
(* The private functions of attribute_timeouts.cpp.                        *)

(* Mutant: the timer is set for the last of the timeouts.                  *)
Restart_Latest ==
  /\ Running("restart")
  /\ stack' = Tail(stack)
  /\ \/ ToCome = {} /\ UNCHANGED timerVars
     \/ \E e \in ToCome :
          /\ \A f \in ToCome : e.timestamp >= f.timestamp
          /\ ctimer_set(e.timestamp)
  /\ UNCHANGED <<clock, timeouts, called, slipped, calls>>

(* attribute_timeout_restart_watch_timer passes over what is due already.  *)
Restart ==
  /\ Running("restart")
  /\ stack' = Tail(stack)
  /\ \/ ToCome = {} /\ UNCHANGED timerVars
     \/ \E e \in ToCome :
          /\ \A f \in ToCome : e.timestamp <= f.timestamp
          /\ ctimer_set(e.timestamp)
  /\ UNCHANGED <<clock, timeouts, called, slipped, calls>>

(* Mutant: one callback is called, and no further one is looked for.       *)
Scan_Once ==
  /\ Running("scan")
  /\ \/ Due = {} /\ stack' = Tail(stack) /\ UNCHANGED <<timeouts, called>>
     \/ \E e \in Due :
          /\ timeouts' = timeouts \ {e}
          /\ Called(e.node, e.callback)
          /\ stack' = <<"callback">> \o Tail(stack)
  /\ UNCHANGED <<clock, timerVars, slipped, calls>>

(* attribute_timeout_invoke_timeout_functions calls one callback and then  *)
(* itself; each of these calls ends with a restart of the timer.  Which of *)
(* the timeouts that are due comes first is left open.                     *)
Scan ==
  /\ Running("scan")
  /\ \/ Due = {} /\ stack' = Tail(stack) /\ UNCHANGED <<timeouts, called>>
     \/ \E e \in Due :
          /\ timeouts' = timeouts \ {e}
          /\ Called(e.node, e.callback)
          /\ stack' = <<"callback", "scan", "restart">> \o Tail(stack)
  /\ UNCHANGED <<clock, timerVars, slipped, calls>>

Return ==
  /\ Running("callback")
  /\ stack' = Tail(stack)
  /\ UNCHANGED <<clock, timeouts, timerVars, called, slipped, calls>>

-----------------------------------------------------------------------------
(* The public functions, called by other components or by a callback.      *)

Enter ==
  /\ stack = <<>> \/ Running("callback")
  /\ calls < MaxCalls
  /\ calls' = calls + 1

(* The first timeout of the node with this callback; there is at most one. *)
Erased(n, c) ==
  IF Of(n, c) = {} THEN timeouts ELSE timeouts \ {CHOOSE e \in Of(n, c) : TRUE}

(* Mutants: what is to be called at once is stored, too; the timeout that  *)
(* is there is not cancelled.                                              *)
set_callback_Stores(n, c, d) ==
  /\ Enter
  /\ clock + d <= MaxClock
  /\ timeouts' = Erased(n, c) \cup
                   {[node |-> n, callback |-> c, timestamp |-> clock + d]}
  /\ Push(<<"restart">>)
  /\ UNCHANGED <<clock, timerVars, called, slipped>>

set_callback_NoCancel(n, c, d) ==
  /\ Enter
  /\ clock + d <= MaxClock
  /\ IF d = 0
     THEN /\ Called(n, c)
          /\ Push(<<"callback">>)
          /\ UNCHANGED timeouts
     ELSE /\ timeouts' = timeouts \cup
                 {[node |-> n, callback |-> c, timestamp |-> clock + d]}
          /\ Push(<<"restart">>)
          /\ UNCHANGED called
  /\ UNCHANGED <<clock, timerVars, slipped>>

(* With duration 0 the callback is called before the timeout that it may   *)
(* have already would be cancelled; that one stays.                        *)
attribute_timeout_set_callback(n, c, d) ==
  /\ Enter
  /\ clock + d <= MaxClock
  /\ IF d = 0
     THEN /\ Called(n, c)
          /\ Push(<<"callback">>)
          /\ UNCHANGED timeouts
     ELSE /\ timeouts' = Erased(n, c) \cup
                 {[node |-> n, callback |-> c, timestamp |-> clock + d]}
          /\ Push(<<"restart">>)
          /\ UNCHANGED called
  /\ UNCHANGED <<clock, timerVars, slipped>>

(* The timer is left alone: it may go off for nothing.                     *)
attribute_timeout_cancel_callback(n, c) ==
  /\ Enter
  /\ timeouts' = Erased(n, c)
  /\ UNCHANGED <<clock, timerVars, stack, called, slipped>>

attribute_timeout_is_callback_active(n, c) == Of(n, c) # {}

on_attribute_node_deleted(n) ==
  /\ Enter
  /\ \E e \in timeouts : e.node = n
  /\ timeouts' = {e \in timeouts : e.node # n}
  /\ Push(<<"restart">>)
  /\ UNCHANGED <<clock, timerVars, called, slipped>>

(* Not from a callback.  The watch timer keeps running.                    *)
attribute_timeouts_init ==
  /\ Enter /\ stack = <<>>
  /\ timeouts' = {}
  /\ UNCHANGED <<clock, timerVars, stack, called, slipped>>

attribute_timeouts_teardown ==
  /\ Enter /\ stack = <<>>
  /\ timeouts' = {}
  /\ ctimer_stop
  /\ UNCHANGED <<clock, stack, called, slipped>>

-----------------------------------------------------------------------------

(* Between the last scan and a restart, a timeout that falls due is seen   *)
(* by neither.                                                             *)
Tick ==
  /\ clock < MaxClock
  /\ clock' = clock + 1
  /\ slipped' = (slipped \/ (OnStack("restart") /\ ~OnStack("scan")))
  /\ UNCHANGED <<timeouts, timerVars, stack, called, calls>>

Init ==
  /\ clock = 0
  /\ timeouts = {}
  /\ etimer = 0 /\ listed = FALSE /\ events = 0
  /\ stack = <<>>
  /\ called = [k \in Nodes \X Callbacks |-> 0]
  /\ slipped = FALSE
  /\ calls = 0

Next ==
  \/ Tick \/ Expire \/ Event \/ Scan \/ Restart \/ Return
  \/ \E n \in Nodes, c \in Callbacks :
       \/ \E d \in Durations : attribute_timeout_set_callback(n, c, d)
       \/ attribute_timeout_cancel_callback(n, c)
  \/ \E n \in Nodes : on_attribute_node_deleted(n)
  \/ attribute_timeouts_init
  \/ attribute_timeouts_teardown

Spec == Init /\ [][Next]_vars

(* Time passes, what runs returns, and the main loop of Contiki polls its  *)
(* processes and hands out their events.                                   *)
Fairness ==
  /\ WF_vars(Tick) /\ WF_vars(Expire) /\ WF_vars(Event)
  /\ WF_vars(Scan) /\ WF_vars(Restart) /\ WF_vars(Return)
FairSpec == Spec /\ Fairness

-----------------------------------------------------------------------------
(* Properties.                                                             *)

TypeOK ==
  /\ clock \in 0..MaxClock
  /\ timeouts \subseteq Timeout
  /\ etimer \in 0..MaxClock /\ listed \in BOOLEAN /\ events \in Nat
  /\ stack \in Seq(Frame)
  /\ called \in [Nodes \X Callbacks -> Nat]
  /\ slipped \in BOOLEAN
  /\ calls \in 0..MaxCalls

(* "There can be only one node/callback_function combination active at a   *)
(* time" (attribute_timeouts.h), though the map takes any number:          *)
(* set_callback cancels first, and cancelling stops at the first it finds. *)
OnlyOne ==
  \A e, f \in timeouts : e.node = f.node /\ e.callback = f.callback => e = f

(* The watch timer wakes us by time t.                                     *)
WakesBy(t) == listed /\ (events > 0 \/ (etimer # 0 /\ etimer <= t))
Wakes == listed /\ (events > 0 \/ etimer # 0)

(* One timer serves all timeouts: between calls into the component it is   *)
(* never set for later than any timeout to come, whatever was set, moved,  *)
(* cancelled and deleted, also by callbacks under way (restart_watch_timer *)
(* and its callers).                                                       *)
NextInTime == stack = <<>> => \A e \in ToCome : WakesBy(e.timestamp)

(* A timeout is forgotten, set with no timer to wake for it, only if the   *)
(* clock moved between two readings in one function; and then it is due.   *)
(* Without that not even a timeout whose timer was set again is forgotten. *)
ForgottenMeansSlipped ==
  (stack = <<>> /\ timeouts # {} /\ ~Wakes) => slipped /\ ToCome = {}

(* A timeout that is set is called, cancelled or deleted in the end, or    *)
(* the clock has slipped (invoke_timeout_functions, ctimer_process).       *)
Served ==
  \A n \in Nodes, c \in Callbacks :
    attribute_timeout_is_callback_active(n, c)
      ~> ~attribute_timeout_is_callback_active(n, c) \/ slipped

(* The code breaks that promise here: "Will lead to only 1 call", says     *)
(* attribute_timeouts.h of setting a callback that is set, but set with    *)
(* duration 0 it is called now, and again when its old timeout is due.     *)
SetToZeroWhilePending ==
  \E n \in Nodes, c \in Callbacks :
    /\ attribute_timeout_is_callback_active(n, c)
    /\ attribute_timeout_set_callback(n, c, 0)

(* But for that one step callbacks are called as attribute_timeouts.h      *)
(* promises: at most once for each time they were set, not early, not      *)
(* after they were cancelled, set anew or lost their node, whatever the    *)
(* timer and callbacks under way do.                                       *)
Promise == INSTANCE Deadlines WITH pending <- timeouts
PromiseButForZero ==
  Promise!Init /\ [][Promise!Next \/ SetToZeroWhilePending]_(Promise!vars)
=============================================================================
