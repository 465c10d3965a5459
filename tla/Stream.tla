------------------------------- MODULE Stream -------------------------------
(***************************************************************************)
(* What the mux relay promises the two ends of one connection: they are    *)
(* connected as if the client had dialled the server itself, and the other *)
(* connections, frames, pipes, maps and goroutines are not visible. Each   *)
(* end sends chunks and is given those of the other end, in order; it sees *)
(* its connection end when the other end has closed and nothing is missing *)
(* or when the transport is gone.                                          *)
(***************************************************************************)
EXTENDS Naturals, Sequences

CONSTANT id     \* the connection, which names its chunks

VARIABLES
    link,               \* the transport, "up" or "cut"
    cli, srv,           \* the two ends
    cliFd, srvFd,       \* what each is connected to
    cliSent, srvSent,   \* chunks each has sent
    cliGot, srvGot      \* chunks each has been given

vars == <<link, cli, srv, cliFd, srvFd, cliSent, srvSent, cliGot, srvGot>>

Init ==
    /\ link = "up"
    /\ cli = "none" /\ srv = "none" /\ cliFd = "none" /\ srvFd = "none"
    /\ cliSent = 0 /\ srvSent = 0 /\ cliGot = <<>> /\ srvGot = <<>>

Connect ==
    /\ cli = "none"
    /\ cli' = "open" /\ cliFd' = "open"
    /\ UNCHANGED <<link, srv, srvFd, cliSent, srvSent, cliGot, srvGot>>

Dial ==
    /\ cli # "none" /\ srv = "none"
    /\ \/ srv' = "open" /\ srvFd' = "open"
       \/ srv' = "closed" /\ UNCHANGED srvFd
    /\ UNCHANGED <<link, cli, cliFd, cliSent, srvSent, cliGot, srvGot>>

CliSend ==
    /\ cli = "open" /\ cliFd = "open"
    /\ cliSent' = cliSent + 1
    /\ UNCHANGED <<link, cli, srv, cliFd, srvFd, srvSent, cliGot, srvGot>>

SrvSend ==
    /\ srv = "open" /\ srvFd = "open"
    /\ srvSent' = srvSent + 1
    /\ UNCHANGED <<link, cli, srv, cliFd, srvFd, cliSent, cliGot, srvGot>>

CliClose ==
    /\ cli = "open" /\ cli' = "closed"
    /\ UNCHANGED <<link, srv, cliFd, srvFd, cliSent, srvSent, cliGot, srvGot>>

SrvClose ==
    /\ srv = "open" /\ srv' = "closed"
    /\ UNCHANGED <<link, cli, cliFd, srvFd, cliSent, srvSent, cliGot, srvGot>>

\* An end that is open on an open connection is given the next chunk.
CliGets ==
    /\ cli = "open" /\ cliFd = "open" /\ Len(cliGot) < srvSent
    /\ cliGot' = Append(cliGot, [id |-> id, n |-> Len(cliGot) + 1])
    /\ UNCHANGED <<link, cli, srv, cliFd, srvFd, cliSent, srvSent, srvGot>>

SrvGets ==
    /\ srv = "open" /\ srvFd = "open" /\ Len(srvGot) < cliSent
    /\ srvGot' = Append(srvGot, [id |-> id, n |-> Len(srvGot) + 1])
    /\ UNCHANGED <<link, cli, srv, cliFd, srvFd, cliSent, srvSent, cliGot>>

\* Nothing is missing, or the other end closed on chunks it was not given.
Complete(got, sent, otherGot, otherSent) == Len(got) = sent \/ Len(otherGot) < otherSent

\* A connection ends, after the end it belongs to, after the other one, or
\* with the transport.
CliEnds ==
    /\ cliFd = "open" /\ cliFd' = "closed"
    /\ \/ cli = "closed"
       \/ srv = "closed" /\ Complete(cliGot, srvSent, srvGot, cliSent)
       \/ link = "cut"
    /\ UNCHANGED <<link, cli, srv, srvFd, cliSent, srvSent, cliGot, srvGot>>

SrvEnds ==
    /\ srvFd = "open" /\ srvFd' = "closed"
    /\ \/ srv = "closed"
       \/ cli = "closed" /\ Complete(srvGot, cliSent, cliGot, srvSent)
       \/ link = "cut"
    /\ UNCHANGED <<link, cli, srv, cliFd, cliSent, srvSent, cliGot, srvGot>>

\* The transport goes, and the server after it.
Cut ==
    /\ link = "up" /\ link' = "cut"
    /\ UNCHANGED <<cli, srv, cliFd, srvFd, cliSent, srvSent, cliGot, srvGot>>

ServerGone ==
    /\ link = "cut" /\ srv = "open"
    /\ srv' = "closed" /\ srvFd' = "closed"
    /\ UNCHANGED <<link, cli, cliFd, cliSent, srvSent, cliGot, srvGot>>

Next ==
    \/ Connect \/ Dial
    \/ CliSend \/ CliGets \/ CliClose \/ CliEnds
    \/ SrvSend \/ SrvGets \/ SrvClose \/ SrvEnds
    \/ Cut \/ ServerGone

Spec == Init /\ [][Next]_vars

=============================================================================
