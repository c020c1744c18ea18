---------------------------- MODULE MCDevGuiApi ----------------------------
(* Small instances of the server of the Developer GUI.                     *)
EXTENDS DevGuiApi

CONSTANTS v     \* a content

OneContent == {v}
OneList == {"nodes-list"}
=============================================================================
