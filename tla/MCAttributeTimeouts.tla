------------------------ MODULE MCAttributeTimeouts ------------------------
(* Two nodes, two callbacks, short and long durations.                     *)
EXTENDS AttributeTimeouts

CONSTANTS n1, n2, f1, f2

TwoNodes == {n1, n2}
TwoCallbacks == {f1, f2}
SomeDurations == {0, 1, 3}
=============================================================================
