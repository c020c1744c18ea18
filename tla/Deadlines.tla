------------------------------ MODULE Deadlines ------------------------------
(* What attribute timeouts promise (attribute_timeouts.h): of each node    *)
(* and callback there is one timeout at a time; it leads to one call at    *)
(* most, and to that never before its time, and to none once the timeout   *)
(* was set anew (to whatever duration), cancelled, or the node is gone.    *)
EXTENDS Naturals

CONSTANTS
  Nodes,       \* attribute store nodes
  Callbacks,   \* callback functions
  Durations    \* durations, and 0: at once

VARIABLES
  clock,       \* the time
  pending,     \* the timeouts that are set
  called,      \* of each node and callback, how often it was called
  calls        \* how often the functions below have been called: a timeout
               \* is set or cancelled only by that

vars == <<clock, pending, called, calls>>

Of(n, c) == {e \in pending : e.node = n /\ e.callback = c}
Call(n, c) == called' = [called EXCEPT ![<<n, c>>] = @ + 1]
Enter == calls' = calls + 1

Tick ==
  /\ clock' = clock + 1
  /\ UNCHANGED <<pending, called, calls>>

Set(n, c, d) ==
  /\ Enter
  /\ d # 0
  /\ pending' = (pending \ Of(n, c))
                  \cup {[node |-> n, callback |-> c, timestamp |-> clock + d]}
  /\ UNCHANGED <<clock, called>>

SetToZero(n, c) ==
  /\ Enter
  /\ Call(n, c)
  /\ pending' = pending \ Of(n, c)
  /\ UNCHANGED clock

Serve(n, c) ==
  /\ Of(n, c) # {}
  /\ \A e \in Of(n, c) : e.timestamp <= clock
  /\ Call(n, c)
  /\ pending' = pending \ Of(n, c)
  /\ UNCHANGED <<clock, calls>>

Cancel(n, c) ==
  /\ Enter
  /\ pending' = pending \ Of(n, c)
  /\ UNCHANGED <<clock, called>>

Delete(n) ==
  /\ Enter
  /\ pending' = {e \in pending : e.node # n}
  /\ UNCHANGED <<clock, called>>

Clear ==
  /\ Enter
  /\ pending' = {}
  /\ UNCHANGED <<clock, called>>

Init ==
  /\ clock = 0
  /\ pending = {}
  /\ called = [k \in Nodes \X Callbacks |-> 0]
  /\ calls = 0

Next ==
  \/ Tick
  \/ \E n \in Nodes, c \in Callbacks :
       \/ SetToZero(n, c) \/ Serve(n, c) \/ Cancel(n, c)
       \/ \E d \in Durations : Set(n, c, d)
  \/ \E n \in Nodes : Delete(n)
  \/ Clear

Spec == Init /\ [][Next]_vars
=============================================================================
