---------------------------- MODULE VersionGate ----------------------------
(***************************************************************************)
(* What the control socket of a session promises about versions, without   *)
(* leases, goroutines and processes: there is one current version, a       *)
(* request is given the token of the version it asked for or none, and a   *)
(* switch to another version is made for one request at a time and given   *)
(* to that request.                                                        *)
(***************************************************************************)
CONSTANTS Requests, Commits, InitCommit, First, None

VARIABLES
    commit,     \* the current version
    token,      \* its token: the request it was switched for, or First
    want,       \* the version every request asked for
    holder,     \* the request a switch is under way for
    given       \* the token every request was given

vars == <<commit, token, want, holder, given>>

Init ==
    /\ commit = InitCommit
    /\ token = First
    /\ want = [r \in Requests |-> None]
    /\ holder = None
    /\ given = [r \in Requests |-> None]

Ask(r, v) ==
    /\ want[r] = None
    /\ want' = [want EXCEPT ![r] = v]
    /\ UNCHANGED <<commit, token, holder, given>>

\* The current version is given to who asked for it, switch or no switch.
Give(r) ==
    /\ want[r] = commit /\ given[r] = None
    /\ given' = [given EXCEPT ![r] = token]
    /\ UNCHANGED <<commit, token, want, holder>>

Reserve(r) ==
    /\ holder = None
    /\ want[r] \in Commits \ {commit} /\ given[r] = None
    /\ holder' = r
    /\ UNCHANGED <<commit, token, want, given>>

\* The new version is current from here on, for whoever asks.
Switch ==
    /\ holder # None /\ token # holder
    /\ commit' = want[holder]
    /\ token' = holder
    /\ UNCHANGED <<want, holder, given>>

Finish ==
    /\ holder # None /\ token = holder
    /\ given' = [given EXCEPT ![holder] = token]
    /\ holder' = None
    /\ UNCHANGED <<commit, token, want>>

Abandon ==
    /\ holder # None /\ token # holder
    /\ holder' = None
    /\ UNCHANGED <<commit, token, want, given>>

Next ==
    \/ \E r \in Requests :
        \/ \E v \in Commits : Ask(r, v)
        \/ Give(r)
        \/ Reserve(r)
    \/ Switch \/ Finish \/ Abandon

Spec == Init /\ [][Next]_vars

=============================================================================
