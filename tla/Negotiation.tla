---------------------------- MODULE Negotiation ----------------------------
(***************************************************************************)
(* What the control socket of a relay promises about versions, without     *)
(* goroutines, frames and the remote process: the relay runs one version   *)
(* in its life, one that a client asked for; who asks for that version is  *)
(* granted it, who asks for another is refused, each once at most; and the *)
(* remote command, if it takes its version from the relay, takes that one. *)
(***************************************************************************)
CONSTANTS Requests, Commits, None

VARIABLES
    chosen,     \* the version of the relay
    want,       \* the version every request asked for
    answer,     \* what every request was answered
    taken       \* the version the remote command took from the relay

vars == <<chosen, want, answer, taken>>

Init ==
    /\ chosen = None /\ taken = None
    /\ want = [r \in Requests |-> None]
    /\ answer = [r \in Requests |-> "none"]

Ask(r, v) ==
    /\ want[r] = None
    /\ want' = [want EXCEPT ![r] = v]
    /\ UNCHANGED <<chosen, answer, taken>>

Choose(r) ==
    /\ chosen = None /\ want[r] # None
    /\ chosen' = want[r]
    /\ UNCHANGED <<want, answer, taken>>

Grant(r) ==
    /\ answer[r] = "none"
    /\ chosen # None /\ want[r] = chosen
    /\ answer' = [answer EXCEPT ![r] = "ok"]
    /\ UNCHANGED <<chosen, want, taken>>

Refuse(r) ==
    /\ answer[r] = "none"
    /\ chosen # None /\ want[r] \in Commits \ {chosen}
    /\ answer' = [answer EXCEPT ![r] = "mismatch"]
    /\ UNCHANGED <<chosen, want, taken>>

Take ==
    /\ taken = None /\ chosen # None
    /\ taken' = chosen
    /\ UNCHANGED <<chosen, want, answer>>

Next ==
    \/ \E r \in Requests :
        \/ \E v \in Commits : Ask(r, v)
        \/ Choose(r) \/ Grant(r) \/ Refuse(r)
    \/ Take

Spec == Init /\ [][Next]_vars

=============================================================================
