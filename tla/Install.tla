------------------------------ MODULE Install ------------------------------
(***************************************************************************)
(* What Service.Provision promises to whoever starts a server: the tree of *)
(* a commit is absent or complete, a complete one stays, and only a        *)
(* complete one is handed out. Caches, temporary names, tar and the number *)
(* of processes at work are not visible.                                   *)
(***************************************************************************)
CONSTANTS Procs, Commits, None

VARIABLES
    state,     \* of the tree of every commit
    wanted,    \* the commit every caller asked for
    answer     \* what it was told

vars == <<state, wanted, answer>>

Init ==
    /\ state = [c \in Commits |-> "absent"]
    /\ wanted = [p \in Procs |-> None]
    /\ answer = [p \in Procs |-> "none"]

Ask(p, c) ==
    /\ wanted[p] = None /\ answer[p] = "none"
    /\ wanted' = [wanted EXCEPT ![p] = c]
    /\ UNCHANGED <<state, answer>>

\* The tree is there, whoever brought it.
Give(p) ==
    /\ wanted[p] # None /\ state[wanted[p]] = "complete"
    /\ answer[p] = "none"
    /\ answer' = [answer EXCEPT ![p] = "ok"]
    /\ UNCHANGED <<state, wanted>>

\* It appears in one step, for the caller that fetched it.
Complete(p) ==
    /\ wanted[p] # None /\ state[wanted[p]] = "absent"
    /\ answer[p] = "none"
    /\ state' = [state EXCEPT ![wanted[p]] = "complete"]
    /\ answer' = [answer EXCEPT ![p] = "ok"]
    /\ UNCHANGED wanted

Fail(p) ==
    /\ answer[p] = "none"
    /\ answer' = [answer EXCEPT ![p] = "failed"]
    /\ UNCHANGED <<state, wanted>>

Next ==
    \E p \in Procs :
        \/ \E c \in Commits : Ask(p, c)
        \/ Give(p) \/ Complete(p) \/ Fail(p)

Spec == Init /\ [][Next]_vars

=============================================================================
