---------------------------- MODULE MCProvision ----------------------------
(* Small instances of Provision for TLC. *)
EXTENDS Provision, TLC

CONSTANTS c1, c2, v1

ReleaseOf == v1 :> c2

Set(flag, env, file, cli) == [flag |-> flag, env |-> env, file |-> file, cli |-> cli]

\* Every source, the CLI included, decides in one of them, and every kind of text occurs.
FewSettings == {
    Set(c1, c2, v1, c2),
    Set(Unset, Latest, c2, None),
    Set(Unset, Unset, v1, c1),
    Set(Unset, Blank, c1, c2),
    Set(Unset, Unset, Blank, None),
    Set(Unset, Unset, Unset, c1),
    Set(Junk, c1, Unset, c1) }

=============================================================================
