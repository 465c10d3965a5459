---------------------------- MODULE MCExtension ----------------------------
(* Small instances of Extension for TLC. *)
EXTENDS Extension, TLC

CONSTANTS w1, w2, v1, v2

Old(c) == [no |-> 0, commit |-> c]

\* Two windows listed a session before and after it switched.
FewLists == { w1 :> Old(v1) @@ w2 :> Old(v2) }

=============================================================================
