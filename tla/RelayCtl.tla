------------------------------ MODULE RelayCtl ------------------------------
(***************************************************************************)
(* The version negotiation of `codetap relay`: relayCmd and the handlers   *)
(* of its control socket (cmd/codetap/main.go), the init handshake of      *)
(* HostSide (internal/adapter/relay/host.go) and its other end, RunStdio   *)
(* (internal/app/service.go). Connections on the data socket start where   *)
(* this module ends; they are module Relay's.                              *)
(***************************************************************************)
EXTENDS Naturals

CONSTANTS
    Commits,       \* VS Code Server commits
    Conns,         \* control connections made during a behaviour
    LocalCommits,  \* what --commit, CODETAP_COMMIT, ~/.codetap/.commit or
                   \* code --version may give the remote command
    None           \* no commit

ASSUME ConstAssumption ==
    /\ None \notin Commits \cup Conns
    /\ LocalCommits \subseteq Commits \cup {None}

VARIABLES
    relayCommit,   \* relayState.commit
    once,          \* commitOnce
    commitCh,      \* the one slot of commitCh
    main,          \* relayCmd's goroutine, in HostSide from "listen" on
    clientCommit,  \* the commit relayCmd has taken from commitCh
    stdin, stdout, \* the init frame and its ack in the remote command's pipes
    remote,        \* RunStdio of the remote command
    local,         \* the commit the remote command resolved by itself
    remCommit,     \* the commit RunStdio provisions
    server,        \* its code-server; "left" has exited after binding
    pc,            \* program counter of the handler of every connection
    want,          \* commit of the CONNECT line read from a connection
    conn,          \* state of the control connection
    reply          \* the line the client received

ctlVars    == <<relayCommit, once, commitCh>>
mainVars   == <<main, clientCommit>>
pipeVars   == <<stdin, stdout>>
remoteVars == <<remote, local, remCommit, server>>
connVars   == <<pc, want, conn, reply>>
vars == <<ctlVars, mainVars, pipeVars, remoteVars, connVars>>

MaybeCommits == Commits \cup {None}

TypeOK ==
    /\ relayCommit \in MaybeCommits /\ commitCh \in MaybeCommits
    /\ once \in {"free", "running", "done"}
    /\ main \in {"wait", "set", "listen", "init", "ack", "serve", "ended"}
    /\ clientCommit \in MaybeCommits
    /\ stdin \in MaybeCommits /\ stdout \in MaybeCommits
    /\ remote \in {"none", "resolve", "provision", "start", "await",
                  "ack", "relay", "stop", "ended", "killed"}
    /\ server \in {"none", "starting", "bound", "exited", "left"}
    /\ local \in MaybeCommits /\ remCommit \in MaybeCommits
    /\ pc \in [Conns -> {"new", "once", "send", "check", "lease", "done"}]
    /\ want \in [Conns -> MaybeCommits]
    /\ conn \in [Conns -> {"none", "open", "hungup", "closed"}]
    /\ reply \in [Conns -> {"none", "ok", "mismatch"}]

Init ==
    /\ relayCommit = None /\ once = "free" /\ commitCh = None
    /\ main = "wait" /\ clientCommit = None
    /\ stdin = None /\ stdout = None
    /\ remote = "none" /\ local \in LocalCommits /\ remCommit = None
    /\ server = "none"
    /\ pc = [k \in Conns |-> "new"]
    /\ want = [k \in Conns |-> None]
    /\ conn = [k \in Conns |-> "none"]
    /\ reply = [k \in Conns |-> "none"]

Alive == main # "ended"

-----------------------------------------------------------------------------
(***************************************************************************)
(* Control connections: handleRelayCtlConn.                                *)
(***************************************************************************)

\* A client sends CTAP1 CONNECT v id; the client id is only logged.
HandleRelayCtlConn(k, v) ==
    /\ Alive
    /\ pc[k] = "new"
    /\ pc' = [pc EXCEPT ![k] = "once"]
    /\ want' = [want EXCEPT ![k] = v]
    /\ conn' = [conn EXCEPT ![k] = "open"]
    /\ UNCHANGED <<ctlVars, mainVars, pipeVars, remoteVars, reply>>

HangUp(k) ==
    /\ conn[k] = "open"
    /\ conn' = [conn EXCEPT ![k] = "hungup"]
    /\ UNCHANGED <<ctlVars, mainVars, pipeVars, remoteVars, pc, want, reply>>

\* Mutant: every CONNECT sets the commit.
OnceRuns_Always(k) ==
    /\ Alive
    /\ pc[k] = "once" /\ once # "running"
    /\ once' = "running"
    /\ relayCommit' = want[k]
    /\ pc' = [pc EXCEPT ![k] = "send"]
    /\ UNCHANGED <<commitCh, mainVars, pipeVars, remoteVars, want, conn, reply>>

\* commitOnce.Do runs its function for the first handler that comes ...
OnceRuns(k) ==
    /\ Alive
    /\ pc[k] = "once" /\ once = "free"
    /\ once' = "running"
    /\ relayCommit' = want[k]
    /\ pc' = [pc EXCEPT ![k] = "send"]
    /\ UNCHANGED <<commitCh, mainVars, pipeVars, remoteVars, want, conn, reply>>

\* Mutant: a client that is gone is not sent on behalf of.
SendCommit_WhileConnected(k) ==
    /\ Alive
    /\ pc[k] = "send" /\ conn[k] = "open"
    /\ commitCh = None
    /\ commitCh' = want[k]
    /\ once' = "done"
    /\ pc' = [pc EXCEPT ![k] = "check"]
    /\ UNCHANGED <<relayCommit, mainVars, pipeVars, remoteVars, want, conn, reply>>

SendCommit(k) ==
    /\ Alive
    /\ pc[k] = "send"
    /\ commitCh = None
    /\ commitCh' = want[k]
    /\ once' = "done"
    /\ pc' = [pc EXCEPT ![k] = "check"]
    /\ UNCHANGED <<relayCommit, mainVars, pipeVars, remoteVars, want, conn, reply>>

\* ... and makes every other handler wait for it.
OncePasses(k) ==
    /\ Alive
    /\ pc[k] = "once" /\ once = "done"
    /\ pc' = [pc EXCEPT ![k] = "check"]
    /\ UNCHANGED <<ctlVars, mainVars, pipeVars, remoteVars, want, conn, reply>>

\* Mutant: a commit that is established is not looked at.
Rejects_Never(k) == want[k] = None

\* Mutant: an established commit refuses also those who ask for it.
Rejects_WithoutComparing(k) == relayCommit # None /\ want[k] # None

Rejects(k) == relayCommit # None /\ want[k] # relayCommit

Written(k, r) == [reply EXCEPT ![k] = IF conn[k] = "open" THEN r ELSE @]

CheckRejects(k) ==
    /\ Alive
    /\ pc[k] = "check"
    /\ Rejects(k)
    /\ reply' = Written(k, "mismatch")
    /\ conn' = [conn EXCEPT ![k] = IF @ = "open" THEN "closed" ELSE @]
    /\ pc' = [pc EXCEPT ![k] = "done"]
    /\ UNCHANGED <<ctlVars, mainVars, pipeVars, remoteVars, want>>

\* OK without a token; the connection stays open until the client goes.
CheckGrants(k) ==
    /\ Alive
    /\ pc[k] = "check"
    /\ ~Rejects(k)
    /\ reply' = Written(k, "ok")
    /\ pc' = [pc EXCEPT ![k] = "lease"]
    /\ UNCHANGED <<ctlVars, mainVars, pipeVars, remoteVars, want, conn>>

LeaseEnds(k) ==
    /\ Alive
    /\ pc[k] = "lease" /\ conn[k] # "open"
    /\ pc' = [pc EXCEPT ![k] = "done"]
    /\ UNCHANGED <<ctlVars, mainVars, pipeVars, remoteVars, want, conn, reply>>

Handler(k) ==
    \/ OnceRuns(k) \/ SendCommit(k) \/ OncePasses(k)
    \/ CheckRejects(k) \/ CheckGrants(k) \/ LeaseEnds(k)

-----------------------------------------------------------------------------
(***************************************************************************)
(* relayCmd and HostSide.                                                  *)
(***************************************************************************)

\* <-commitCh.
TakeCommit ==
    /\ main = "wait" /\ commitCh # None
    /\ clientCommit' = commitCh
    /\ commitCh' = None
    /\ main' = "set"
    /\ UNCHANGED <<relayCommit, once, pipeVars, remoteVars, connVars>>

SetCommit ==
    /\ main = "set"
    /\ relayCommit' = clientCommit
    /\ main' = "listen"
    /\ UNCHANGED <<once, commitCh, clientCommit, pipeVars, remoteVars, connVars>>

\* HostSide returns, with an error or without, and the process ends.
Ends ==
    /\ main' = "ended"
    /\ conn' = [k \in Conns |-> IF conn[k] = "open" THEN "closed" ELSE conn[k]]
    /\ UNCHANGED <<clientCommit, pc, want, reply>>

RemoteRuns == remote \notin {"none", "ended", "killed"}

\* The data socket listens, the remote command is started; either may fail.
Listen ==
    /\ main = "listen"
    /\ \/ /\ main' = "init"
          /\ remote' = "resolve"
          /\ UNCHANGED <<clientCommit, connVars>>
       \/ Ends /\ UNCHANGED remote
    /\ UNCHANGED <<ctlVars, pipeVars, local, remCommit, server>>

WriteInit ==
    /\ main = "init" /\ RemoteRuns
    /\ stdin' = clientCommit
    /\ main' = "ack"
    /\ UNCHANGED <<ctlVars, clientCommit, stdout, remoteVars, connVars>>

\* ReadFrame returns the ack; onInit stores the commit it names.
ReadAck ==
    /\ main = "ack" /\ stdout # None
    /\ relayCommit' = stdout
    /\ stdout' = None
    /\ main' = "serve"
    /\ UNCHANGED <<once, commitCh, clientCommit, stdin, remoteVars, connVars>>

\* The pipes of a remote command that has exited give an error or EOF.
RemoteGone ==
    /\ main \in {"init", "ack", "serve"}
    /\ ~RemoteRuns /\ (main = "ack" => stdout = None)
    /\ Ends
    /\ UNCHANGED <<ctlVars, pipeVars, remoteVars>>

\* The relay is killed, or signalled before HostSide forwards signals.
RelayDies ==
    /\ Alive
    /\ Ends
    /\ UNCHANGED <<ctlVars, pipeVars, remoteVars>>

Main == TakeCommit \/ SetCommit \/ Listen \/ WriteInit \/ ReadAck \/ RemoteGone

-----------------------------------------------------------------------------
(***************************************************************************)
(* RunStdio.                                                               *)
(***************************************************************************)

\* A commit resolved locally makes RunStdio skip the init phase: it neither
\* reads the init frame nor answers it.
RemoteResolvesLocally ==
    /\ remote = "resolve" /\ local # None
    /\ remCommit' = local
    /\ remote' = "provision"
    /\ UNCHANGED <<ctlVars, mainVars, pipeVars, local, server, connVars>>

\* Mutant: the commit of the init frame is not used.
RemoteReadsInit_Ignores ==
    /\ remote = "resolve" /\ local = None
    /\ stdin # None
    /\ stdin' = None
    /\ remCommit' \in Commits
    /\ remote' = "provision"
    /\ UNCHANGED <<ctlVars, mainVars, stdout, local, server, connVars>>

\* readInitCommit; a CONNECT line always names a commit, so the frame does.
RemoteReadsInit ==
    /\ remote = "resolve" /\ local = None
    /\ stdin # None
    /\ remCommit' = stdin
    /\ stdin' = None
    /\ remote' = "provision"
    /\ UNCHANGED <<ctlVars, mainVars, stdout, local, server, connVars>>

RemoteProvisions ==
    /\ remote = "provision"
    /\ remote' \in {"start", "ended"}
    /\ UNCHANGED <<ctlVars, mainVars, pipeVars, local, remCommit, server, connVars>>

RemoteStarts ==
    /\ remote = "start"
    /\ \/ remote' = "await" /\ server' = "starting"
       \/ remote' = "ended" /\ UNCHANGED server
    /\ UNCHANGED <<ctlVars, mainVars, pipeVars, local, remCommit, connVars>>

\* waitForSocket only asks whether the file is there, also when the server
\* that bound it has gone since.
SocketReady ==
    /\ remote = "await" /\ server \in {"bound", "left"}
    /\ remote' = IF local = None THEN "ack" ELSE "relay"
    /\ UNCHANGED <<ctlVars, mainVars, pipeVars, local, remCommit, server, connVars>>

\* Ten seconds are over; stop() is called.
SocketTimeout ==
    /\ remote = "await"
    /\ remote' = "stop"
    /\ UNCHANGED <<ctlVars, mainVars, pipeVars, local, remCommit, server, connVars>>

\* Mutant: the ack is not written.
RemoteAcks_Silently ==
    /\ Alive
    /\ remote = "ack"
    /\ remote' = "relay"
    /\ UNCHANGED <<ctlVars, mainVars, pipeVars, local, remCommit, server, connVars>>

RemoteAcks ==
    /\ Alive
    /\ remote = "ack"
    /\ stdout' = remCommit
    /\ remote' = "relay"
    /\ UNCHANGED <<ctlVars, mainVars, stdin, local, remCommit, server, connVars>>

AckFails ==
    /\ ~Alive
    /\ remote = "ack"
    /\ remote' = "stop"
    /\ UNCHANGED <<ctlVars, mainVars, pipeVars, local, remCommit, server, connVars>>

\* ContainerSide has no case for an init frame.
RemoteDiscardsInit ==
    /\ remote = "relay" /\ stdin # None
    /\ stdin' = None
    /\ UNCHANGED <<ctlVars, mainVars, stdout, remoteVars, connVars>>

\* Mutant: only the end of the server is waited for.
RemoteSeesEOF_BeforeServer ==
    /\ ~Alive /\ stdin = None
    /\ remote = "resolve" /\ local = None /\ remote' = "ended"
    /\ UNCHANGED <<ctlVars, mainVars, pipeVars, local, remCommit, server, connVars>>

\* readInitCommit fails, or ContainerSide returns and stop() is called.
RemoteSeesEOF ==
    /\ ~Alive /\ stdin = None
    /\ \/ remote = "resolve" /\ local = None /\ remote' = "ended"
       \/ remote = "relay" /\ remote' = "stop"
    /\ UNCHANGED <<ctlVars, mainVars, pipeVars, local, remCommit, server, connVars>>

\* <-serverErr: the shell has exited, which after stop() does not wait for the
\* node process that binds.
RemoteWaited ==
    /\ remote = "stop" \/ (remote = "relay" /\ server \in {"exited", "left"})
    /\ remote' = "ended"
    /\ UNCHANGED <<ctlVars, mainVars, pipeVars, local, remCommit, server, connVars>>

\* The remote command is killed, or the transport goes and takes it along.
RemoteDies ==
    /\ RemoteRuns
    /\ remote' = "killed"
    /\ UNCHANGED <<ctlVars, mainVars, pipeVars, local, remCommit, server, connVars>>

Remote ==
    \/ RemoteResolvesLocally \/ RemoteReadsInit \/ RemoteProvisions
    \/ RemoteStarts \/ SocketReady \/ SocketTimeout \/ RemoteAcks \/ AckFails
    \/ RemoteDiscardsInit \/ RemoteSeesEOF \/ RemoteWaited

ServerBinds ==
    /\ server = "starting"
    /\ server' = "bound"
    /\ UNCHANGED <<ctlVars, mainVars, pipeVars, remote, local, remCommit, connVars>>

ServerExits ==
    /\ server \in {"starting", "bound"}
    /\ server' = IF server = "bound" THEN "left" ELSE "exited"
    /\ UNCHANGED <<ctlVars, mainVars, pipeVars, remote, local, remCommit, connVars>>

\* By stop(). The death signal of a remote command that is killed is for the
\* shell and does not reach the node process (procattr_linux.go 8).
ServerTold == remote \in {"stop", "ended"}

NothingRuns == ~RemoteRuns /\ server \in {"none", "exited", "left"}

Terminated ==
    /\ ~Alive /\ NothingRuns
    /\ UNCHANGED vars

\* Nobody has connected yet, or nothing is left to do.
Waiting ==
    /\ main \in {"wait", "ack", "serve"}
    /\ remote \in {"none", "relay"} /\ server \in {"none", "bound"}
    /\ stdin = None /\ stdout = None
    /\ \A k \in Conns : pc[k] \in {"new", "lease", "done"}
    /\ UNCHANGED vars

Next ==
    \/ \E k \in Conns :
        \/ \E v \in Commits : HandleRelayCtlConn(k, v)
        \/ HangUp(k)
        \/ Handler(k)
    \/ Main
    \/ RelayDies
    \/ Remote \/ RemoteDies
    \/ ServerBinds \/ ServerExits
    \/ Waiting \/ Terminated

\* Goroutines are scheduled on both machines, a download ends and a server
\* that is told to obeys; clients and failures owe nothing.
Fairness ==
    /\ \A k \in Conns : WF_vars(Handler(k))
    /\ WF_vars(Main)
    /\ WF_vars(Remote)
    /\ WF_vars(ServerTold /\ ServerExits)

Spec == Init /\ [][Next]_vars
FairSpec == Spec /\ Fairness

-----------------------------------------------------------------------------
Granted(k) == reply[k] = "ok" /\ conn[k] = "open"

\* All clients of a relay were granted the same version, also when their
\* CONNECTs race for commitOnce (main.go 519-535).
GrantsAgree ==
    \A j, k \in Conns : reply[j] = "ok" /\ reply[k] = "ok" => want[j] = want[k]

\* The version INFO reports and CONNECT compares with is set once, although
\* the handler, relayCmd and onInit all write it (main.go 449-457, 520-525).
CommitSettled == [][relayCommit # None => relayCommit' = relayCommit]_vars

\* A remote command that negotiates runs the version its clients were
\* granted (service.go 520-528, host.go 72-88).
NegotiatedVersion ==
    \A k \in Conns :
        reply[k] = "ok" /\ local = None /\ remCommit # None => remCommit = want[k]

\* Every CONNECT is answered or its connection is gone: no handler waits for
\* the one that negotiates longer than that one takes (main.go 519-525).
ConnectAnswered ==
    \A k \in Conns : (pc[k] = "once") ~> (reply[k] # "none" \/ conn[k] # "open")

\* A granted client is served, or told by the end of its lease that it will
\* not be, if the remote command has no commit of its own.
NegotiatedServed ==
    \A k \in Conns :
        (Granted(k) /\ local = None) ~> (main = "serve" \/ ~Granted(k))

\* The end of the relay, however it comes about and however far the remote
\* command has got, is followed by the end of the remote command and of its
\* server, although HostSide leaves without waiting, unless the remote command
\* was killed (host.go 74-81, service.go 568-599).
NothingOutlivesRelay == ~Alive ~> (NothingRuns \/ remote = "killed")

=============================================================================
