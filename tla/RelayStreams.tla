---------------------------- MODULE RelayStreams ----------------------------
(***************************************************************************)
(* Relay implements one Stream for each of its connections: the relay is   *)
(* not visible to who uses it, and neither are the connections it carries  *)
(* to each other.                                                          *)
(***************************************************************************)
EXTENDS Relay

Conn(i) == INSTANCE Stream WITH
    id <- i,
    cli <- cli[i], cliFd <- hostFd[i], cliSent <- cliSent[i], cliGot <- cliGot[i],
    srv <- srv[i], srvFd <- contFd[i], srvSent <- srvSent[i], srvGot <- srvGot[i]

\* Every connection behaves like a Stream, in every step of the relay,
\* whatever the others do and however they and the transport end (host.go
\* 90-179, container.go 18-88).
ImplementsStreams ==
    /\ \A i \in Ids : Conn(i)!Init
    /\ [][\A i \in Ids : [Conn(i)!Next]_(Conn(i)!vars)]_vars

=============================================================================
