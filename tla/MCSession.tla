----------------------------- MODULE MCSession -----------------------------
(* Small instances of Session and SessionGate for TLC. *)
EXTENDS SessionGate, TLC

\* Clients and connections are interchangeable; so are the commits other
\* than InitCommit, of which there is one.
Symmetry == Permutations(Conns) \cup Permutations(Clients)

=============================================================================
