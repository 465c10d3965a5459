------------------------------- MODULE Relay -------------------------------
(***************************************************************************)
(* The mux relay (internal/adapter/relay): HostSide accepts connections on *)
(* a Unix socket and carries them over the stdin and stdout of a remote    *)
(* command to ContainerSide, which dials the server socket for each.       *)
(*                                                                         *)
(* On each side one frame reader dispatches what the pipe brings and one   *)
(* reader goroutine per connection turns what its socket brings into       *)
(* frames; the host has an accept goroutine as well. A connection id is    *)
(* the value of nextID at its accept. A chunk is one Read of a connection; *)
(* it is named by its connection and its number. The init handshake is     *)
(* over when the model starts.                                             *)
(***************************************************************************)
EXTENDS Naturals, Sequences

CONSTANTS
    MaxConns,   \* bound: connections accepted in a behaviour
    MaxChunks,  \* bound: chunks each end of a connection sends
    Capacity,   \* frames the pipe holds before a writer blocks
    MayCut      \* whether the transport may break

ASSUME ConstAssumption ==
    /\ MaxConns \in Nat \ {0}
    /\ MaxChunks \in Nat
    /\ Capacity \in Nat \ {0}
    /\ MayCut \in BOOLEAN

Ids == 1 .. MaxConns

VARIABLES
    nextID,     \* HostSide's connection counter
    link,       \* the transport between the two processes
    down, up,   \* frames in the pipe to the container, and from it
    host,       \* HostSide: frame reader serving, in cmd.Wait, or process gone
    hostConns,  \* ids in HostSide's conns map
    hostFd,     \* state of the accepted connection's descriptor
    hostRd,     \* program counter of the accepted connection's goroutine
    cli,        \* the client's end of the accepted connection
    cliSent,    \* chunks the client has written
    cliBuf,     \* those HostSide has not read
    cliGot,     \* chunks the client has been written
    cont,       \* ContainerSide: serving, returned, or process gone
    contConns, contFd, contRd,
    srv, srvSent, srvBuf, srvGot

hostVars == <<nextID, host, hostConns, hostFd, hostRd>>
cliVars  == <<cli, cliSent, cliBuf, cliGot>>
contVars == <<cont, contConns, contFd, contRd>>
srvVars  == <<srv, srvSent, srvBuf, srvGot>>
pipeVars == <<link, down, up>>
vars == <<hostVars, cliVars, contVars, srvVars, pipeVars>>

Open(id) == [type |-> "open", id |-> id]
Data(c)  == [type |-> "data", id |-> c.id, chunk |-> c]
Close(id) == [type |-> "close", id |-> id]

Chunks == [id : Ids, n : 1 .. MaxChunks]
Frames == [type : {"open", "close"}, id : Ids]
            \cup [type : {"data"}, id : Ids, chunk : Chunks]
FdStates == {"none", "open", "closed"}
\* "opening": accepted and stored, OPEN not written; "closing": CLOSE
\* written, the map entry and the descriptor still to go.
ReaderStates == {"none", "opening", "reading", "closing", "done"}

TypeOK ==
    /\ nextID \in 0 .. MaxConns
    /\ link \in {"up", "cut"}
    /\ down \in Seq(Frames) /\ up \in Seq(Frames)
    /\ Len(down) <= Capacity /\ Len(up) <= Capacity
    /\ host \in {"serve", "returned", "ended"} /\ cont \in {"serve", "returned", "ended"}
    /\ hostConns \subseteq Ids /\ contConns \subseteq Ids
    /\ hostFd \in [Ids -> FdStates] /\ contFd \in [Ids -> FdStates]
    /\ hostRd \in [Ids -> ReaderStates] /\ contRd \in [Ids -> ReaderStates]
    /\ cli \in [Ids -> FdStates] /\ srv \in [Ids -> FdStates]
    /\ cliSent \in [Ids -> 0 .. MaxChunks] /\ srvSent \in [Ids -> 0 .. MaxChunks]
    /\ cliBuf \in [Ids -> Seq(Chunks)] /\ srvBuf \in [Ids -> Seq(Chunks)]
    /\ cliGot \in [Ids -> Seq(Chunks)] /\ srvGot \in [Ids -> Seq(Chunks)]

Init ==
    /\ nextID = 0
    /\ link = "up" /\ down = <<>> /\ up = <<>>
    /\ host = "serve" /\ cont = "serve"
    /\ hostConns = {} /\ contConns = {}
    /\ hostFd = [i \in Ids |-> "none"] /\ contFd = [i \in Ids |-> "none"]
    /\ hostRd = [i \in Ids |-> "none"] /\ contRd = [i \in Ids |-> "none"]
    /\ cli = [i \in Ids |-> "none"] /\ srv = [i \in Ids |-> "none"]
    /\ cliSent = [i \in Ids |-> 0] /\ srvSent = [i \in Ids |-> 0]
    /\ cliBuf = [i \in Ids |-> <<>>] /\ srvBuf = [i \in Ids |-> <<>>]
    /\ cliGot = [i \in Ids |-> <<>>] /\ srvGot = [i \in Ids |-> <<>>]


\* FrameWriter.Write holds its mutex over the whole frame, and blocks while
\* the pipe is full.
Room(pipe) == link = "up" /\ Len(pipe) < Capacity
Broken == link = "cut"

-----------------------------------------------------------------------------
(***************************************************************************)
(* The two ends of a connection.                                           *)
(***************************************************************************)

CliSend(id) ==
    /\ cli[id] = "open" /\ hostFd[id] = "open"
    /\ cliSent[id] < MaxChunks
    /\ cliSent' = [cliSent EXCEPT ![id] = @ + 1]
    /\ cliBuf' = [cliBuf EXCEPT ![id] = Append(@, [id |-> id, n |-> cliSent[id] + 1])]
    /\ UNCHANGED <<hostVars, cli, cliGot, contVars, srvVars, pipeVars>>

CliClose(id) ==
    /\ cli[id] = "open"
    /\ cli' = [cli EXCEPT ![id] = "closed"]
    /\ UNCHANGED <<hostVars, cliSent, cliBuf, cliGot, contVars, srvVars, pipeVars>>

SrvSend(id) ==
    /\ srv[id] = "open" /\ contFd[id] = "open"
    /\ srvSent[id] < MaxChunks
    /\ srvSent' = [srvSent EXCEPT ![id] = @ + 1]
    /\ srvBuf' = [srvBuf EXCEPT ![id] = Append(@, [id |-> id, n |-> srvSent[id] + 1])]
    /\ UNCHANGED <<hostVars, cliVars, contVars, srv, srvGot, pipeVars>>

SrvClose(id) ==
    /\ srv[id] = "open"
    /\ srv' = [srv EXCEPT ![id] = "closed"]
    /\ UNCHANGED <<hostVars, cliVars, contVars, srvSent, srvBuf, srvGot, pipeVars>>

-----------------------------------------------------------------------------
(***************************************************************************)
(* HostSide: accept goroutine and reader goroutines.                       *)
(***************************************************************************)

\* Accept returns a connection, it gets its id and is stored. The accept
\* goroutine writes OPEN before it accepts the next one.
HostAccept ==
    /\ host # "ended"
    /\ nextID < MaxConns
    /\ \A i \in Ids : hostRd[i] # "opening"
    /\ LET id == nextID + 1
       IN  /\ nextID' = id
           /\ hostConns' = hostConns \cup {id}
           /\ hostFd' = [hostFd EXCEPT ![id] = "open"]
           /\ hostRd' = [hostRd EXCEPT ![id] = "opening"]
           /\ cli' = [cli EXCEPT ![id] = "open"]
    /\ UNCHANGED <<host, cliSent, cliBuf, cliGot, contVars, srvVars, pipeVars>>

\* The connection is given up: out of the map, closed, its goroutine gone.
HostDrop(id) ==
    /\ hostConns' = hostConns \ {id}
    /\ hostFd' = [hostFd EXCEPT ![id] = "closed"]
    /\ hostRd' = [hostRd EXCEPT ![id] = "done"]

HostOpen(id) ==
    /\ host # "ended"
    /\ hostRd[id] = "opening"
    /\ \/ /\ Room(down)
          /\ down' = Append(down, Open(id))
          /\ hostRd' = [hostRd EXCEPT ![id] = "reading"]
          /\ UNCHANGED <<hostConns, hostFd>>
       \/ /\ Broken
          /\ HostDrop(id)
          /\ UNCHANGED down
    /\ UNCHANGED <<nextID, host, cliVars, contVars, srvVars, link, up>>

\* Read returns a chunk and the goroutine writes it as DATA.
HostRead(id) ==
    /\ host # "ended"
    /\ hostRd[id] = "reading" /\ hostFd[id] = "open"
    /\ cliBuf[id] # <<>>
    /\ cliBuf' = [cliBuf EXCEPT ![id] = Tail(@)]
    /\ \/ /\ Room(down)
          /\ down' = Append(down, Data(Head(cliBuf[id])))
          /\ UNCHANGED <<hostConns, hostFd, hostRd>>
       \/ /\ Broken
          /\ HostDrop(id)
          /\ UNCHANGED down
    /\ UNCHANGED <<nextID, host, cli, cliSent, cliGot, contVars, srvVars, link, up>>

\* Mutant: the end of the stream is taken before what is left in the socket.
HostReadEnds_DropsPending(id) == hostFd[id] = "closed" \/ cli[id] = "closed"

\* Read returns EOF once the client has closed and everything is read, or
\* an error once the frame reader has closed the descriptor.
HostReadEnds(id) ==
    \/ hostFd[id] = "closed"
    \/ cli[id] = "closed" /\ cliBuf[id] = <<>>

HostEnd(id) ==
    /\ host # "ended"
    /\ hostRd[id] = "reading"
    /\ HostReadEnds(id)
    /\ \/ Room(down) /\ down' = Append(down, Close(id))
       \/ Broken /\ UNCHANGED down
    /\ hostRd' = [hostRd EXCEPT ![id] = "closing"]
    /\ UNCHANGED <<nextID, host, hostConns, hostFd, cliVars, contVars, srvVars, link, up>>

\* Mutant: the goroutine leaves its connection in the map.
HostEnded_KeepsEntry(id) ==
    /\ host # "ended"
    /\ hostRd[id] = "closing"
    /\ hostFd' = [hostFd EXCEPT ![id] = "closed"]
    /\ hostRd' = [hostRd EXCEPT ![id] = "done"]
    /\ UNCHANGED <<nextID, host, hostConns, cliVars, contVars, srvVars, pipeVars>>

HostEnded(id) ==
    /\ host # "ended"
    /\ hostRd[id] = "closing"
    /\ HostDrop(id)
    /\ UNCHANGED <<nextID, host, cliVars, contVars, srvVars, pipeVars>>

(***************************************************************************)
(* HostSide: frame reader.                                                 *)
(***************************************************************************)

HostFrame(type) == up # <<>> /\ Head(up).type = type /\ host = "serve"

\* DATA goes to the connection if it is known; a write to a client that is
\* gone closes and forgets it.
HostData ==
    /\ HostFrame("data")
    /\ up' = Tail(up)
    /\ LET id == Head(up).id
           ok == hostFd[id] = "open" /\ cli[id] = "open"
       IN  \/ /\ id \in hostConns /\ ok
              /\ cliGot' = [cliGot EXCEPT ![id] = Append(@, Head(up).chunk)]
              /\ UNCHANGED <<hostConns, hostFd>>
           \/ /\ id \in hostConns /\ ~ok
              /\ hostFd' = [hostFd EXCEPT ![id] = "closed"]
              /\ hostConns' = hostConns \ {id}
              /\ UNCHANGED cliGot
           \/ /\ id \notin hostConns
              /\ UNCHANGED <<hostConns, hostFd, cliGot>>
    /\ UNCHANGED <<nextID, host, hostRd, cli, cliSent, cliBuf, contVars, srvVars,
                   link, down>>

\* Mutant: the connection is forgotten but not closed.
HostClose_OnlyForgets ==
    /\ HostFrame("close")
    /\ up' = Tail(up)
    /\ hostConns' = hostConns \ {Head(up).id}
    /\ UNCHANGED <<nextID, host, hostFd, hostRd, cliVars, contVars, srvVars, link, down>>

HostClose ==
    /\ HostFrame("close")
    /\ up' = Tail(up)
    /\ LET id == Head(up).id
       IN  \/ /\ id \in hostConns
              /\ hostConns' = hostConns \ {id}
              /\ hostFd' = [hostFd EXCEPT ![id] = "closed"]
           \/ /\ id \notin hostConns
              /\ UNCHANGED <<hostConns, hostFd>>
    /\ UNCHANGED <<nextID, host, hostRd, cliVars, contVars, srvVars, link, down>>

\* ReadFrame fails at the end of the stream: the connections of the map are
\* closed and HostSide waits for the remote command. Its goroutines go on.
HostEOF ==
    /\ host = "serve"
    /\ Broken /\ up = <<>>
    /\ host' = "returned"
    /\ hostFd' = [i \in Ids |-> IF i \in hostConns THEN "closed" ELSE hostFd[i]]
    /\ UNCHANGED <<nextID, hostConns, hostRd, cliVars, contVars, srvVars, pipeVars>>

\* cmd.Wait returns, relayCmd ends and the kernel closes what is open.
HostExit ==
    /\ host = "returned"
    /\ host' = "ended"
    /\ hostFd' = [i \in Ids |-> IF hostFd[i] = "open" THEN "closed" ELSE hostFd[i]]
    /\ UNCHANGED <<nextID, hostConns, hostRd, cliVars, contVars, srvVars, pipeVars>>

-----------------------------------------------------------------------------
(***************************************************************************)
(* ContainerSide: frame reader.                                            *)
(***************************************************************************)

ContFrame(type) == down # <<>> /\ Head(down).type = type /\ cont = "serve"

\* Mutant: no goroutine reads from the server.
ContOpen_NoReader ==
    /\ ContFrame("open")
    /\ down' = Tail(down)
    /\ LET id == Head(down).id
       IN  /\ contConns' = contConns \cup {id}
           /\ contFd' = [contFd EXCEPT ![id] = "open"]
           /\ srv' = [srv EXCEPT ![id] = "open"]
    /\ UNCHANGED <<hostVars, cliVars, cont, contRd, srvSent, srvBuf, srvGot, link, up>>

\* OPEN dials the server socket and starts the goroutine of the connection;
\* when the dial fails the frame reader answers CLOSE itself.
ContOpen ==
    /\ ContFrame("open")
    /\ down' = Tail(down)
    /\ LET id == Head(down).id
       IN  /\ contConns' = contConns \cup {id}
           /\ contFd' = [contFd EXCEPT ![id] = "open"]
           /\ contRd' = [contRd EXCEPT ![id] = "reading"]
           /\ srv' = [srv EXCEPT ![id] = "open"]
    /\ UNCHANGED <<hostVars, cliVars, cont, srvSent, srvBuf, srvGot, link, up>>

ContDialFails ==
    /\ ContFrame("open")
    /\ down' = Tail(down)
    /\ LET id == Head(down).id
       IN  /\ srv' = [srv EXCEPT ![id] = "closed"]
           /\ \/ Room(up) /\ up' = Append(up, Close(id)) /\ UNCHANGED cont
              \/ Broken /\ cont' = "returned" /\ UNCHANGED up
    /\ UNCHANGED <<hostVars, cliVars, contConns, contFd, contRd, srvSent, srvBuf, srvGot,
                   link>>

\* DATA goes to the server if the connection is known; a write to a server
\* that is gone closes and forgets it, and answers CLOSE.
ContData ==
    /\ ContFrame("data")
    /\ down' = Tail(down)
    /\ LET id == Head(down).id
           ok == contFd[id] = "open" /\ srv[id] = "open"
       IN  \/ /\ id \in contConns /\ ok
              /\ srvGot' = [srvGot EXCEPT ![id] = Append(@, Head(down).chunk)]
              /\ UNCHANGED <<cont, contConns, contFd, up>>
           \/ /\ id \in contConns /\ ~ok
              /\ contConns' = contConns \ {id}
              /\ contFd' = [contFd EXCEPT ![id] = "closed"]
              /\ \/ Room(up) /\ up' = Append(up, Close(id)) /\ UNCHANGED cont
                 \/ Broken /\ cont' = "returned" /\ UNCHANGED up
              /\ UNCHANGED srvGot
           \/ /\ id \notin contConns
              /\ UNCHANGED <<cont, contConns, contFd, srvGot, up>>
    /\ UNCHANGED <<hostVars, cliVars, contRd, srv, srvSent, srvBuf, link>>

\* Mutant: the container has no case for CLOSE.
ContClose_Ignored ==
    /\ ContFrame("close")
    /\ down' = Tail(down)
    /\ UNCHANGED <<hostVars, cliVars, contVars, srvVars, link, up>>

ContClose ==
    /\ ContFrame("close")
    /\ down' = Tail(down)
    /\ LET id == Head(down).id
       IN  \/ /\ id \in contConns
              /\ contConns' = contConns \ {id}
              /\ contFd' = [contFd EXCEPT ![id] = "closed"]
           \/ /\ id \notin contConns
              /\ UNCHANGED <<contConns, contFd>>
    /\ UNCHANGED <<hostVars, cliVars, cont, contRd, srvVars, link, up>>

\* The stream ends: ContainerSide closes the connections of the map and
\* returns, and RunStdio stops the server.
ContEOF ==
    /\ cont = "serve"
    /\ Broken /\ down = <<>>
    /\ cont' = "returned"
    /\ contFd' = [i \in Ids |-> IF i \in contConns THEN "closed" ELSE contFd[i]]
    /\ UNCHANGED <<hostVars, cliVars, contConns, contRd, srvVars, pipeVars>>

\* The server has exited, RunStdio returns and the process ends.
ContExit ==
    /\ cont = "returned"
    /\ cont' = "ended"
    /\ contFd' = [i \in Ids |-> IF contFd[i] = "open" THEN "closed" ELSE contFd[i]]
    /\ srv' = [i \in Ids |-> IF srv[i] = "open" THEN "closed" ELSE srv[i]]
    /\ UNCHANGED <<hostVars, cliVars, contConns, contRd, srvSent, srvBuf, srvGot,
                   pipeVars>>

(***************************************************************************)
(* ContainerSide: reader goroutines.                                       *)
(***************************************************************************)

\* The connection opened last.
Newest == CHOOSE i \in Ids : contRd[i] # "none" /\ \A j \in Ids : j > i => contRd[j] = "none"

\* Mutant: the goroutine uses the frame variable of the loop for its id.
ContRead_LoopVariable(id) ==
    /\ cont # "ended"
    /\ contRd[id] = "reading" /\ contFd[id] = "open"
    /\ srvBuf[id] # <<>>
    /\ srvBuf' = [srvBuf EXCEPT ![id] = Tail(@)]
    /\ Room(up)
    /\ up' = Append(up, [type |-> "data", id |-> Newest, chunk |-> Head(srvBuf[id])])
    /\ UNCHANGED <<hostVars, cliVars, contVars, srv, srvSent, srvGot, link, down>>

\* Unlike HostSide's, the goroutine just returns when DATA cannot be
\* written: the entry stays and the descriptor is closed at ContainerSide's EOF.
ContRead(id) ==
    /\ cont # "ended"
    /\ contRd[id] = "reading" /\ contFd[id] = "open"
    /\ srvBuf[id] # <<>>
    /\ srvBuf' = [srvBuf EXCEPT ![id] = Tail(@)]
    /\ \/ Room(up) /\ up' = Append(up, Data(Head(srvBuf[id]))) /\ UNCHANGED contRd
       \/ Broken /\ contRd' = [contRd EXCEPT ![id] = "done"] /\ UNCHANGED up
    /\ UNCHANGED <<hostVars, cliVars, cont, contConns, contFd, srv, srvSent, srvGot,
                   link, down>>

ContReadEnds(id) ==
    \/ contFd[id] = "closed"
    \/ srv[id] = "closed" /\ srvBuf[id] = <<>>

\* Mutant: the same in the CLOSE frame.
ContEnd_LoopVariable(id) ==
    /\ cont # "ended"
    /\ contRd[id] = "reading"
    /\ ContReadEnds(id)
    /\ Room(up) /\ up' = Append(up, Close(Newest))
    /\ contRd' = [contRd EXCEPT ![id] = "closing"]
    /\ UNCHANGED <<hostVars, cliVars, cont, contConns, contFd, srvVars, link, down>>

ContEnd(id) ==
    /\ cont # "ended"
    /\ contRd[id] = "reading"
    /\ ContReadEnds(id)
    /\ \/ Room(up) /\ up' = Append(up, Close(id))
       \/ Broken /\ UNCHANGED up
    /\ contRd' = [contRd EXCEPT ![id] = "closing"]
    /\ UNCHANGED <<hostVars, cliVars, cont, contConns, contFd, srvVars, link, down>>

ContEnded(id) ==
    /\ cont # "ended"
    /\ contRd[id] = "closing"
    /\ contConns' = contConns \ {id}
    /\ contFd' = [contFd EXCEPT ![id] = "closed"]
    /\ contRd' = [contRd EXCEPT ![id] = "done"]
    /\ UNCHANGED <<hostVars, cliVars, cont, srvVars, pipeVars>>

-----------------------------------------------------------------------------
\* The transport breaks (docker, ssh or either codetap process dies): what
\* each pipe still delivers is a prefix of what was written.
LinkCut ==
    /\ MayCut /\ link = "up"
    /\ link' = "cut"
    /\ \E m \in 0 .. Len(down) : down' = SubSeq(down, 1, m)
    /\ \E m \in 0 .. Len(up) : up' = SubSeq(up, 1, m)
    /\ UNCHANGED <<hostVars, cliVars, contVars, srvVars>>

\* Nothing is left to do: both processes ended, or all that was accepted is
\* closed at both ends and every frame is read.
Idle ==
    /\ \/ Broken /\ host = "ended" /\ cont = "ended"
       \/ link = "up" /\ down = <<>> /\ up = <<>>
    /\ \A i \in Ids : cli[i] # "open" /\ srv[i] # "open"
    /\ UNCHANGED vars

HostGoroutine(id) == HostOpen(id) \/ HostRead(id) \/ HostEnd(id) \/ HostEnded(id)
ContGoroutine(id) == ContRead(id) \/ ContEnd(id) \/ ContEnded(id)
HostReader == HostData \/ HostClose \/ HostEOF \/ HostExit
ContReader ==
    \/ ContOpen \/ ContDialFails \/ ContData \/ ContClose
    \/ ContEOF \/ ContExit

Next ==
    \/ \E id \in Ids :
        \/ CliSend(id) \/ CliClose(id)
        \/ SrvSend(id) \/ SrvClose(id)
        \/ HostGoroutine(id)
        \/ ContGoroutine(id)
    \/ HostAccept
    \/ HostReader
    \/ ContReader
    \/ LinkCut
    \/ Idle

\* The goroutines of both processes are scheduled. Both ends keep reading
\* what they are sent (a write never blocks), they need not send or close.
\* When the transport is gone, the remote command and the server exit.
Fairness ==
    /\ \A id \in Ids : WF_vars(HostGoroutine(id)) /\ WF_vars(ContGoroutine(id))
    /\ WF_vars(HostReader) /\ WF_vars(ContReader)

Spec == Init /\ [][Next]_vars
FairSpec == Spec /\ Fairness

-----------------------------------------------------------------------------
(***************************************************************************)
(* Safety.                                                                 *)
(***************************************************************************)

\* Each end receives a prefix of what the other end of its own connection
\* sent: chunks are neither lost in the middle, reordered, duplicated nor
\* given to another connection, also while connections close and the
\* transport breaks (host.go 103-111 and 140-161, container.go 46-79).
StreamIntegrity ==
    \A i \in Ids :
        /\ \A n \in 1 .. Len(srvGot[i]) : srvGot[i][n] = [id |-> i, n |-> n]
        /\ \A n \in 1 .. Len(cliGot[i]) : cliGot[i][n] = [id |-> i, n |-> n]
        /\ Len(srvGot[i]) <= cliSent[i]
        /\ Len(cliGot[i]) <= srvSent[i]

\* While the transport holds, an end sees its connection closed only when
\* its own peer closed (or could not be dialled): a connection never dies of
\* another one's (host.go 112-115, 153-157, container.go 57-63, 81-85).
OwnCloseOnly ==
    link = "up" =>
        \A i \in Ids :
            hostFd[i] = "closed" \/ contFd[i] = "closed" =>
                cli[i] = "closed" \/ srv[i] = "closed"

\* While the transport holds, a server that sees the end of its stream has
\* been given everything the client wrote before it closed, unless the two
\* crossed: the client closed on chunks still on their way to it. And the
\* other way round.
NothingCutShort ==
    link = "up" =>
        \A i \in Ids :
            /\ contFd[i] = "closed" /\ srv[i] = "open" =>
                Len(srvGot[i]) = cliSent[i] \/ Len(cliGot[i]) < srvSent[i]
            /\ hostFd[i] = "closed" /\ cli[i] = "open" =>
                Len(cliGot[i]) = srvSent[i] \/ Len(srvGot[i]) < cliSent[i]

\* A connection of a map has a goroutine that will take it out, and an entry
\* never comes back (host.go 128, 156; container.go 43, 61).
EntryHasReader ==
    /\ host = "serve" => \A i \in hostConns : hostRd[i] \in {"opening", "reading", "closing"}
    /\ cont = "serve" /\ link = "up" =>
        \A i \in contConns : contRd[i] \in {"reading", "closing"}

(***************************************************************************)
(* Liveness.                                                               *)
(***************************************************************************)

\* When one end closes, or the transport breaks, the other end sees its
\* connection closed (or never had one).
CloseReachesPeer ==
    \A i \in Ids :
        /\ (cli[i] = "closed") ~> (contFd[i] # "open")
        /\ (srv[i] = "closed") ~> (hostFd[i] # "open")
        /\ (link = "cut") ~> (hostFd[i] # "open" /\ contFd[i] # "open")

\* What is sent on a connection that stays open arrives.
SentArrives ==
    \A i \in Ids : \A n \in 1 .. MaxChunks :
        /\ (cliSent[i] >= n) ~>
            (Len(srvGot[i]) >= n \/ srv[i] = "closed" \/ cli[i] = "closed" \/ link = "cut")
        /\ (srvSent[i] >= n) ~>
            (Len(cliGot[i]) >= n \/ srv[i] = "closed" \/ cli[i] = "closed" \/ link = "cut")

\* Both maps forget a connection one end of which has closed.
EntriesForgotten ==
    \A i \in Ids :
        (cli[i] = "closed" \/ srv[i] = "closed") ~>
            (link = "cut" \/ (i \notin hostConns /\ i \notin contConns))

=============================================================================
