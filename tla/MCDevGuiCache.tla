---------------------------- MODULE MCDevGuiCache ----------------------------
(* A small instance of the cache of the Developer GUI: one node with a     *)
(* property, two groups of two nodes, and an image.                        *)
EXTENDS DevGuiCache, TLC

CONSTANTS u1, u2, g1, g2, i1, p1, v1, v2

TwoUnids == {u1, u2}
TwoGroups == {g1, g2}
OneImage == {i1}
OnePath == {p1}
TwoValues == {v1, v2}

(* Values are only compared with each other.                               *)
AnyValues == Permutations(TwoValues)

SomeTopics ==
  {<<"State", u1>>, <<"NetworkManagement", u1>>, <<"Property", u1, p1>>}
    \cup GroupTopics(g1) \cup {<<"NodeList", g2, u1>>}
    \cup {<<"Image", i1, u1>>, <<"Image", i1, u2>>, <<"Image", i1, "all">>}
=============================================================================
