------------------------- MODULE MCAttributeResolver -------------------------
(* Small instances of the attribute resolver.                              *)
EXTENDS AttributeResolver

CONSTANTS r, a, b, d, v, w    \* model values: nodes and attribute values

\* Two siblings below the root.
FlatNodes == {r, a, b}
FlatParent == [n \in FlatNodes |-> r]
FlatChildren == [n \in FlatNodes |-> IF n = r THEN <<a, b>> ELSE <<>>]

\* A node a with a child b, and d that is created later below a.
DeepNodes == {r, a, b, d}
DeepParent == [n \in DeepNodes |-> IF n \in {b, d} THEN a ELSE r]
DeepChildren == [n \in DeepNodes |-> CASE n = r -> <<a>>
                                       [] n = a -> <<b>>
                                       [] OTHER -> <<>>]

JustRoot == {r}
OnlyD == {d}
OnlyA == {a}
OnlyB == {b}
AandB == {a, b}
RandA == {r, a}
BandD == {b, d}
Nobody == {}
One == {1}
OneValue == {v}
TwoValues == {v, w}
SomeGetFrames == {"OK", "ALREADY_EXISTS", "IS_WAITING"}
FinalFrames == {"OK"}
PlainFrames == {"OK", "ALREADY_EXISTS"}
WaitingFrames == {"OK", "IS_WAITING"}
MultiFrames == {"OK", "IN_PROGRESS"}
SomeStatuses == {"OK", "PENDING", "FAIL"}
BasicStatuses == {"OK", "FAIL", "VERIFIED"}

NoGroups == [n \in Nodes |-> {}]
AGroupOfGets == [n \in Nodes |-> HasGet]
AGroupOfSets == [n \in Nodes |-> HasSet]
=============================================================================
