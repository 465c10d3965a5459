-------------------------- MODULE RelayNegotiation --------------------------
(***************************************************************************)
(* RelayCtl implements Negotiation: commitOnce chooses, the check after it *)
(* grants or refuses, and the remote command takes the version out of the  *)
(* init frame. SetCommit and ReadAck, which write relayState.commit again, *)
(* are stuttering steps.                                                   *)
(***************************************************************************)
EXTENDS RelayCtl

\* The commit of a remote command that had none of its own.
Taken == IF local = None THEN remCommit ELSE None

Negotiated == INSTANCE Negotiation WITH
    Requests <- Conns,
    chosen   <- relayCommit,
    answer   <- reply,
    taken    <- Taken

\* The handlers that race for commitOnce, relayCmd, the handshake and the
\* remote command together choose one version, grant it and no other, and
\* refuse nobody who asks for it (main.go 510-546, host.go 72-88, service.go
\* 516-531).
ImplementsNegotiation == Negotiated!Spec

=============================================================================
