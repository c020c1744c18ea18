---------------------------- MODULE MCMqttClient ----------------------------
(* Small instances of the MQTT client.                                     *)
EXTENDS MqttClient

CONSTANTS x, y, p, v, w, f, g   \* topics, a prefix, payloads, callbacks

OneTopic == {x}
TwoTopics == {x, y}
OneValue == {v}
TwoValues == {v, w}
OneCallback == {f}
TwoCallbacks == {f, g}
NoPairs == {}
XCoversY == {<<x, y>>}
Nothing == {}
NoPrefix == [q \in {} |-> {}]
JustP == {p}
PStartsX == [q \in {p} |-> {x}]
OnlyX == {{x}}
OnlyW == {w}
PStartsBoth == [q \in {p} |-> {x, y}]
=============================================================================
