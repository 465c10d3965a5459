------------------------------ MODULE Session ------------------------------
(***************************************************************************)
(* A codetap session as `codetap run` serves it (internal/app/service.go,  *)
(* Service.Run from line 161 on): the main goroutine blocked on the done   *)
(* channel, the lifecycle goroutine that owns the code-server process, one *)
(* handler goroutine for each control connection, the waiter goroutine     *)
(* inside wait(), and the two processes of a server in one process group:  *)
(* the shell script, which is the direct child, and the node process that  *)
(* it runs and that binds the data socket.                                 *)
(*                                                                         *)
(* A control connection is used for one CONNECT, so the connections of a   *)
(* behaviour also name the servers that its restarts start: server k is    *)
(* the one doRestart started for the request of connection k, and First is *)
(* the one Run started. Tokens are 32 random bytes drawn once per started  *)
(* server, so a token is the name of the server it was drawn for.          *)
(***************************************************************************)
EXTENDS FiniteSets

CONSTANTS
    Clients,     \* client ids (one per VS Code process)
    Commits,     \* VS Code Server commits
    Conns,       \* control connections made during a behaviour
    InitCommit,  \* the commit the session was started with
    First,       \* the server started by Run
    None         \* no lease, no request, no token, no socket file

ASSUME ConstAssumption ==
    /\ InitCommit \in Commits
    /\ First \notin Conns
    /\ None \notin Conns \cup Clients \cup Commits \cup {First}

VARIABLES
    main,        \* goroutine of Run: blocked on <-done, cleaning up, gone
    life,        \* program counter of the lifecycle goroutine
    req,         \* connection whose restartReq the lifecycle goroutine holds
    cur,         \* server that the variables wait and stop of Run belong to
    srv,         \* life of every server's shell, which wait() waits for
    node,        \* life of the node process the shell runs
    sock,        \* server whose data socket file exists at socketPath
    commit,      \* sessionState.commit
    token,       \* sessionState.token
    leases,      \* sessionState.leases
    restartInProgress,
    overtaken,   \* history: connections whose lease a restart was granted over
    pc,          \* program counter of the handler of every connection
    client,      \* client id of the CONNECT line read from a connection
    want,        \* commit of the CONNECT line read from a connection
    conn,        \* state of the control connection
    tok,         \* the handler's local copy of the token
    reply        \* the line the client received

mainVars  == main
lifeVars  == <<life, req, cur>>
srvVars   == <<srv, node, sock>>
stateVars == <<commit, token, leases, restartInProgress, overtaken>>
lineVars  == <<client, want>>
connVars  == <<pc, conn, tok, reply>>
vars == <<mainVars, lifeVars, srvVars, stateVars, lineVars, connVars>>

Servers == Conns \cup {First}

\* Main goroutine: "exited" is the return of Run after its deferred cleanup,
\* "killed" an end without it.
MainStates == {"serve", "cleanup", "exited", "killed"}
LifeStates == {"select", "drain", "provision", "start", "await", "publish",
               "answer", "fail", "stopped"}
\* "waited": wait() has returned, so its signal handler is deregistered and
\* serverDone holds the result.
SrvStates  == {"none", "running", "stopping", "exited", "waited"}
\* "starting": has not bound socketPath yet; "doomed": was sent SIGTERM before
\* that; "ended": exited, or was sent SIGTERM and owes nothing but its exit.
NodeStates == {"none", "starting", "running", "doomed", "ended"}
PcStates   == {"new", "connect", "send", "wait", "restarted", "refused",
               "reply", "monitor", "done"}
ConnStates == {"none", "open", "hungup", "dropped"}
Replies    == {"none", "ok", "mismatch", "busy", "failed"}

TypeOK ==
    /\ main \in MainStates
    /\ life \in LifeStates
    /\ req \in Conns \cup {None}
    /\ cur \in Servers
    /\ srv \in [Servers -> SrvStates]
    /\ node \in [Servers -> NodeStates]
    /\ sock \in Servers \cup {None}
    /\ commit \in Commits
    /\ token \in Servers
    /\ leases \in [Clients -> Conns \cup {None}]
    /\ restartInProgress \in BOOLEAN
    /\ overtaken \subseteq Conns
    /\ pc \in [Conns -> PcStates]
    /\ client \in [Conns -> Clients \cup {None}]
    /\ want \in [Conns -> Commits \cup {None}]
    /\ conn \in [Conns -> ConnStates]
    /\ tok \in [Conns -> Servers \cup {None}]
    /\ reply \in [Conns -> Replies]

\* Run at its line 161: the first server has created its data socket, the
\* control socket listens, nobody has connected.
Init ==
    /\ main = "serve"
    /\ life = "select"
    /\ req = None
    /\ cur = First
    /\ srv = [s \in Servers |-> IF s = First THEN "running" ELSE "none"]
    /\ node = srv
    /\ sock = First
    /\ commit = InitCommit
    /\ token = First
    /\ leases = [c \in Clients |-> None]
    /\ restartInProgress = FALSE
    /\ overtaken = {}
    /\ pc = [k \in Conns |-> "new"]
    /\ client = [k \in Conns |-> None]
    /\ want = [k \in Conns |-> None]
    /\ conn = [k \in Conns |-> "none"]
    /\ tok = [k \in Conns |-> None]
    /\ reply = [k \in Conns |-> "none"]

\* Goroutines run while the process does.
Alive == main \in {"serve", "cleanup"}

\* The commit a started server was provisioned for.
ServerCommit(s) == IF s = First THEN InitCommit ELSE want[s]

Living(s) == srv[s] \in {"running", "stopping"}

\* node runs and nobody has told it to end.
NodeUntold(s) == node[s] \in {"starting", "running"}

-----------------------------------------------------------------------------
(***************************************************************************)
(* Client side of the control connections.                                 *)
(***************************************************************************)

\* A client dials the control socket and sends CTAP1 CONNECT v c; accept
\* loop and handleCtlConn read the line and call handleConnect. (INFO, a
\* malformed line and a read deadline touch no session state.)
HandleCtlConn(k, c, v) ==
    /\ main = "serve"
    /\ pc[k] = "new"
    /\ pc' = [pc EXCEPT ![k] = "connect"]
    /\ client' = [client EXCEPT ![k] = c]
    /\ want' = [want EXCEPT ![k] = v]
    /\ conn' = [conn EXCEPT ![k] = "open"]
    /\ UNCHANGED <<mainVars, lifeVars, srvVars, stateVars, tok, reply>>

\* The client closes its end: it gave up after its own 5 second timeout, its
\* window closed, or it crashed.
HangUp(k) ==
    /\ conn[k] = "open"
    /\ conn' = [conn EXCEPT ![k] = "hungup"]
    /\ UNCHANGED <<mainVars, lifeVars, srvVars, stateVars, lineVars, pc, tok, reply>>

-----------------------------------------------------------------------------
(***************************************************************************)
(* handleConnect: the first critical section (state.mu), split by outcome. *)
(***************************************************************************)

\* The lease table once an existing lease of the same client id is deleted.
WithoutOwn(k) == [leases EXCEPT ![client[k]] = None]

\* The connections once that lease's connection is closed, and those of
\* `more` with it.
CloseOwnAnd(k, more) ==
    [x \in Conns |-> IF conn[x] = "open" /\ (x = leases[client[k]] \/ x \in more)
                     THEN "dropped" ELSE conn[x]]

\* A line written to connection k reaches the client unless it hung up.
Written(k, r) == [reply EXCEPT ![k] = IF conn[k] = "open" THEN r ELSE @]

Conflicting(k) == {c \in Clients : c # client[k] /\ leases[c] # None}

NoConflict(k) == Conflicting(k) = {}

\* Mutant: restartInProgress is not looked at.
RestartFree_Ignored == TRUE

RestartFree == ~restartInProgress

\* The running version is the one asked for: grant the lease at once.
ConnectGranted(k) ==
    /\ Alive /\ pc[k] = "connect"
    /\ want[k] = commit
    /\ leases' = [leases EXCEPT ![client[k]] = k]
    /\ tok' = [tok EXCEPT ![k] = token]
    /\ conn' = CloseOwnAnd(k, {})
    /\ pc' = [pc EXCEPT ![k] = "reply"]
    /\ UNCHANGED <<mainVars, lifeVars, srvVars, commit, token, restartInProgress,
                   overtaken, lineVars, reply>>

\* Another client holds a lease: ERR version mismatch.
ConnectMismatch(k) ==
    /\ Alive /\ pc[k] = "connect"
    /\ want[k] # commit
    /\ ~NoConflict(k)
    /\ leases' = WithoutOwn(k)
    /\ conn' = CloseOwnAnd(k, {k})
    /\ reply' = Written(k, "mismatch")
    /\ pc' = [pc EXCEPT ![k] = "done"]
    /\ UNCHANGED <<mainVars, lifeVars, srvVars, commit, token, restartInProgress,
                   overtaken, lineVars, tok>>

\* A version switch is already in flight: ERR restart already in progress.
ConnectBusy(k) ==
    /\ Alive /\ pc[k] = "connect"
    /\ want[k] # commit
    /\ NoConflict(k)
    /\ ~RestartFree
    /\ leases' = WithoutOwn(k)
    /\ conn' = CloseOwnAnd(k, {k})
    /\ reply' = Written(k, "busy")
    /\ pc' = [pc EXCEPT ![k] = "done"]
    /\ UNCHANGED <<mainVars, lifeVars, srvVars, commit, token, restartInProgress,
                   overtaken, lineVars, tok>>

\* Nobody in the way: reserve the restart and block on restartCh.
ConnectRestart(k) ==
    /\ Alive /\ pc[k] = "connect"
    /\ want[k] # commit
    /\ NoConflict(k)
    /\ RestartFree
    /\ restartInProgress' = TRUE
    /\ leases' = WithoutOwn(k)
    /\ conn' = CloseOwnAnd(k, {})
    /\ pc' = [pc EXCEPT ![k] = "send"]
    /\ UNCHANGED <<mainVars, lifeVars, srvVars, commit, token, overtaken, lineVars, tok, reply>>

(***************************************************************************)
(* handleConnect: the second critical section, after the restart's result, *)
(* the reply written outside the lock, and monitorLease.                   *)
(***************************************************************************)

\* The restart succeeded: the lease is entered without looking at what the
\* table holds for this client id by now.
RestartGranted(k) ==
    /\ Alive /\ pc[k] = "restarted"
    /\ restartInProgress' = FALSE
    /\ leases' = [leases EXCEPT ![client[k]] = k]
    /\ overtaken' = overtaken \cup ({leases[client[k]]} \ {None})
    /\ tok' = [tok EXCEPT ![k] = token]
    /\ pc' = [pc EXCEPT ![k] = "reply"]
    /\ UNCHANGED <<mainVars, lifeVars, srvVars, commit, token, lineVars, conn, reply>>

RestartRefused(k) ==
    /\ Alive /\ pc[k] = "refused"
    /\ restartInProgress' = FALSE
    /\ reply' = Written(k, "failed")
    /\ conn' = [conn EXCEPT ![k] = IF @ = "open" THEN "dropped" ELSE @]
    /\ pc' = [pc EXCEPT ![k] = "done"]
    /\ UNCHANGED <<mainVars, lifeVars, srvVars, commit, token, leases, overtaken, lineVars, tok>>

\* Mutant: the handler returns when the write fails.
WriteOK_ReturnsOnError(k) ==
    /\ Alive /\ pc[k] = "reply"
    /\ reply' = Written(k, "ok")
    /\ pc' = [pc EXCEPT ![k] = IF conn[k] = "open" THEN "monitor" ELSE "done"]
    /\ UNCHANGED <<mainVars, lifeVars, srvVars, stateVars, lineVars, conn, tok>>

\* OK <token>, then go monitorLease, whether or not the write succeeded.
WriteOK(k) ==
    /\ Alive /\ pc[k] = "reply"
    /\ reply' = Written(k, "ok")
    /\ pc' = [pc EXCEPT ![k] = "monitor"]
    /\ UNCHANGED <<mainVars, lifeVars, srvVars, stateVars, lineVars, conn, tok>>

\* Mutant: the lease goes without a look at whose it is by now.
MonitorLease_Unconditional(k) ==
    /\ Alive /\ pc[k] = "monitor"
    /\ conn[k] # "open"
    /\ leases' = WithoutOwn(k)
    /\ pc' = [pc EXCEPT ![k] = "done"]
    /\ UNCHANGED <<mainVars, lifeVars, srvVars, commit, token, restartInProgress,
                   overtaken, lineVars, conn, tok, reply>>

\* monitorLease: the blocking Read returns once either end is closed; the
\* lease goes unless a later connection of the same client replaced it.
MonitorLease(k) ==
    /\ Alive /\ pc[k] = "monitor"
    /\ conn[k] # "open"
    /\ leases' = [leases EXCEPT ![client[k]] = IF @ = k THEN None ELSE @]
    /\ pc' = [pc EXCEPT ![k] = "done"]
    /\ UNCHANGED <<mainVars, lifeVars, srvVars, commit, token, restartInProgress,
                   overtaken, lineVars, conn, tok, reply>>

Handler(k) ==
    \/ ConnectGranted(k)
    \/ ConnectMismatch(k)
    \/ ConnectBusy(k)
    \/ ConnectRestart(k)
    \/ RestartGranted(k)
    \/ RestartRefused(k)
    \/ WriteOK(k)
    \/ MonitorLease(k)

-----------------------------------------------------------------------------
(***************************************************************************)
(* The lifecycle goroutine and doRestart.                                  *)
(***************************************************************************)

\* SIGTERM to the shells of the servers in S; one that is gone is not hurt.
TermShells(S) ==
    srv' = [s \in Servers |-> IF s \in S /\ srv[s] = "running" THEN "stopping" ELSE srv[s]]

\* kill(-pgid, SIGTERM): to both processes of the servers in S. The group is
\* there, and is signalled, as long as one of its processes is.
TermGroups(S) ==
    /\ TermShells(S)
    /\ node' = [s \in Servers |->
                  CASE s \in S /\ node[s] = "starting" -> "doomed"
                    [] s \in S /\ node[s] = "running"  -> "ended"
                    [] OTHER                           -> node[s]]

\* Mutant: serverDone is not awaited after stop().
TakeRequest_NoDrain(k) ==
    /\ Alive /\ life = "select"
    /\ pc[k] = "send"
    /\ pc' = [pc EXCEPT ![k] = "wait"]
    /\ req' = k
    /\ TermGroups({cur})
    /\ life' = "provision"
    /\ UNCHANGED <<mainVars, cur, sock, stateVars, lineVars, conn, tok, reply>>

\* select takes a restart request: stop() and wait for serverDone.
TakeRequest(k) ==
    /\ Alive /\ life = "select"
    /\ pc[k] = "send"
    /\ pc' = [pc EXCEPT ![k] = "wait"]
    /\ req' = k
    /\ TermGroups({cur})
    /\ life' = "drain"
    /\ UNCHANGED <<mainVars, cur, sock, stateVars, lineVars, conn, tok, reply>>

Drained ==
    /\ Alive /\ life = "drain"
    /\ srv[cur] = "waited"
    /\ life' = "provision"
    /\ UNCHANGED <<mainVars, req, cur, srvVars, stateVars, lineVars, connVars>>

\* select takes serverDone and finds a restart request behind it.
DoneWithPending(k) ==
    /\ Alive /\ life = "select"
    /\ srv[cur] = "waited"
    /\ pc[k] = "send"
    /\ pc' = [pc EXCEPT ![k] = "wait"]
    /\ req' = k
    /\ life' = "provision"
    /\ UNCHANGED <<mainVars, cur, srvVars, stateVars, lineVars, conn, tok, reply>>

\* Mutant: the session is kept while leases are held.
DoneIdle_WhenUnused ==
    /\ Alive /\ life = "select"
    /\ srv[cur] = "waited"
    /\ \A k \in Conns : pc[k] # "send"
    /\ \A c \in Clients : leases[c] = None
    /\ life' = "stopped"
    /\ UNCHANGED <<mainVars, req, cur, srvVars, stateVars, lineVars, connVars>>

\* select takes serverDone and nobody is sending: the session is over.
DoneIdle ==
    /\ Alive /\ life = "select"
    /\ srv[cur] = "waited"
    /\ \A k \in Conns : pc[k] # "send"
    /\ life' = "stopped"
    /\ UNCHANGED <<mainVars, req, cur, srvVars, stateVars, lineVars, connVars>>

\* Provision and Generate return, with an error or without.
Provisioned ==
    /\ Alive /\ life = "provision"
    /\ life' \in {"start", "fail"}
    /\ UNCHANGED <<mainVars, req, cur, srvVars, stateVars, lineVars, connVars>>

\* The old socket file goes, the new process starts or exec fails.
StartServer ==
    /\ Alive /\ life = "start"
    /\ sock' = None
    /\ \/ /\ srv' = [srv EXCEPT ![req] = "running"]
          /\ node' = [node EXCEPT ![req] = "starting"]
          /\ life' = "await"
       \/ /\ UNCHANGED <<srv, node>>
          /\ life' = "fail"
    /\ UNCHANGED <<mainVars, req, cur, stateVars, lineVars, connVars>>

\* waitForSocket finds the file ...
SocketReady ==
    /\ Alive /\ life = "await"
    /\ sock # None
    /\ life' = "publish"
    /\ UNCHANGED <<mainVars, req, cur, srvVars, stateVars, lineVars, connVars>>

\* Mutant: the server is left to itself when its socket did not appear.
SocketTimeout_NoStop ==
    /\ Alive /\ life = "await"
    /\ sock = None
    /\ life' = "fail"
    /\ UNCHANGED <<mainVars, req, cur, srvVars, stateVars, lineVars, connVars>>

\* ... or has polled 100 times; newStop() signals the server, nobody waits
\* for it.
SocketTimeout ==
    /\ Alive /\ life = "await"
    /\ sock = None
    /\ TermGroups({req})
    /\ life' = "fail"
    /\ UNCHANGED <<mainVars, req, cur, sock, stateVars, lineVars, connVars>>

\* Mutant: the new token is not stored.
Publish_KeepsToken ==
    /\ Alive /\ life = "publish"
    /\ commit' = want[req]
    /\ life' = "answer"
    /\ UNCHANGED <<mainVars, req, cur, srvVars, token, leases, restartInProgress,
                   overtaken, lineVars, connVars>>

Publish ==
    /\ Alive /\ life = "publish"
    /\ commit' = want[req]
    /\ token' = req
    /\ life' = "answer"
    /\ UNCHANGED <<mainVars, req, cur, srvVars, leases, restartInProgress,
                   overtaken, lineVars, connVars>>

\* Mutant: no result is sent after a restart that succeeded.
Answer_NoResult ==
    /\ Alive /\ life = "answer"
    /\ cur' = req
    /\ req' = None
    /\ life' = "select"
    /\ UNCHANGED <<mainVars, srvVars, stateVars, lineVars, connVars>>

\* wait and stop are those of the new server, req.result <- nil, and the loop
\* starts the new server's waiter.
Answer ==
    /\ Alive /\ life = "answer"
    /\ cur' = req
    /\ pc' = [pc EXCEPT ![req] = "restarted"]
    /\ req' = None
    /\ life' = "select"
    /\ UNCHANGED <<mainVars, srvVars, stateVars, lineVars, conn, tok, reply>>

\* req.result <- restartErr; done <- "restart failed"; return.
RestartFails ==
    /\ Alive /\ life = "fail"
    /\ pc' = [pc EXCEPT ![req] = "refused"]
    /\ req' = None
    /\ life' = "stopped"
    /\ UNCHANGED <<mainVars, cur, srvVars, stateVars, lineVars, conn, tok, reply>>

Lifecycle ==
    \/ \E k \in Conns : TakeRequest(k) \/ DoneWithPending(k)
    \/ Drained \/ DoneIdle
    \/ Provisioned \/ StartServer \/ SocketReady \/ SocketTimeout
    \/ Publish \/ Answer \/ RestartFails

-----------------------------------------------------------------------------
(***************************************************************************)
(* Server processes and the waiter goroutine.                              *)
(***************************************************************************)

\* node binds socketPath, also one that was told to end and has not yet.
ServerBind(s) ==
    /\ node[s] \in {"starting", "doomed"}
    /\ sock = None
    /\ node' = [node EXCEPT ![s] = IF @ = "starting" THEN "running" ELSE "ended"]
    /\ sock' = s
    /\ UNCHANGED <<mainVars, lifeVars, srv, stateVars, lineVars, connVars>>

\* node exits, by itself or because it was told to before it bound.
NodeExits(s) ==
    /\ node[s] \in {"starting", "running", "doomed"}
    /\ node' = [node EXCEPT ![s] = "ended"]
    /\ UNCHANGED <<mainVars, lifeVars, srv, sock, stateVars, lineVars, connVars>>

\* The shell exits, because of SIGTERM, and then it does not wait for node, or
\* because node has ended.
ShellExits(s) ==
    /\ srv[s] = "stopping" \/ (srv[s] = "running" /\ node[s] = "ended")
    /\ srv' = [srv EXCEPT ![s] = "exited"]
    /\ UNCHANGED <<mainVars, lifeVars, node, sock, stateVars, lineVars, connVars>>

\* wait() returns in the waiter goroutine: signal.Stop, serverDone <- err.
\* A server gets its waiter when the lifecycle loop comes round to it.
Waited(s) ==
    /\ Alive
    /\ s = cur
    /\ life \in {"select", "drain"}
    /\ srv[s] = "exited"
    /\ srv' = [srv EXCEPT ![s] = "waited"]
    /\ UNCHANGED <<mainVars, lifeVars, node, sock, stateVars, lineVars, connVars>>

-----------------------------------------------------------------------------
(***************************************************************************)
(* The main goroutine, the end of the process, signals.                    *)
(***************************************************************************)

\* <-done, then the deferred cleanup: the control socket no longer accepts
\* and both socket files go.
MainDone ==
    /\ main = "serve" /\ life = "stopped"
    /\ main' = "cleanup"
    /\ sock' = None
    /\ UNCHANGED <<lifeVars, srv, node, stateVars, lineVars, connVars>>

\* The process ends: the kernel closes its connections and signals its direct
\* children (Pdeathsig), which are the shells. No node process is told.
ProcessEnds(how) ==
    /\ main' = how
    /\ conn' = [k \in Conns |-> IF conn[k] = "open" THEN "dropped" ELSE conn[k]]
    /\ TermShells(Servers)
    /\ UNCHANGED <<lifeVars, node, sock, stateVars, lineVars, pc, tok, reply>>

Exit == main = "cleanup" /\ ProcessEnds("exited")

\* Start registers a handler, wait() removes it.
Registered(s) == srv[s] \in {"running", "stopping", "exited"}

\* SIGINT, SIGTERM or SIGHUP while some server's handler is registered: it
\* goes to every such process group and to nothing else.
SignalForwarded ==
    /\ Alive
    /\ \E s \in Servers : Registered(s)
    /\ TermGroups({s \in Servers : Registered(s)})
    /\ UNCHANGED <<mainVars, lifeVars, sock, stateVars, lineVars, connVars>>

\* codetap dies where it stands and no deferred function runs: SIGKILL, a
\* panic, or a signal that arrives while no server's handler is registered,
\* between the end of one server and the start of the next.
Die == Alive /\ ProcessEnds("killed")

Terminated ==
    /\ ~Alive
    /\ \A s \in Servers : ~Living(s) /\ node[s] \in {"none", "ended"}
    /\ UNCHANGED vars

Next ==
    \/ \E k \in Conns :
        \/ \E c \in Clients, v \in Commits : HandleCtlConn(k, c, v)
        \/ HangUp(k)
        \/ Handler(k)
    \/ Lifecycle
    \/ \E s \in Servers : ServerBind(s) \/ NodeExits(s) \/ ShellExits(s) \/ Waited(s)
    \/ MainDone \/ Exit
    \/ SignalForwarded \/ Die
    \/ Terminated

\* Goroutines are scheduled, a shell exits when it is told to or its node
\* process has ended, and Provision returns; clients, node processes, crashes
\* and signals owe nothing.
Fairness ==
    /\ \A k \in Conns : WF_vars(Handler(k))
    /\ WF_vars(Lifecycle)
    /\ WF_vars(MainDone \/ Exit)
    /\ \A s \in Servers : WF_vars(Waited(s)) /\ WF_vars(ShellExits(s))

Spec == Init /\ [][Next]_vars

FairSpec == Spec /\ Fairness

-----------------------------------------------------------------------------
(***************************************************************************)
(* Safety.                                                                 *)
(***************************************************************************)

\* restartInProgress is held from the reservation to the answer, by one
\* connection only, and it is that connection's request the lifecycle
\* goroutine works on: service.go 370-377, 382-387 against 176-205.
OneRestart ==
    LET InFlight(k) == pc[k] \in {"send", "wait", "restarted", "refused"}
    IN  /\ restartInProgress <=> \E k \in Conns : InFlight(k)
        /\ \A j, k \in Conns : InFlight(j) /\ InFlight(k) => j = k
        /\ \A k \in Conns : (req = k) <=> (pc[k] = "wait")
        /\ req # None <=> life \in {"drain", "provision", "start", "await",
                                    "publish", "answer", "fail"}

\* The commit and token of sessionState are those of one server, and every
\* token a handler hands out opens a server of the version its client asked
\* for, however handlers and doRestart interleave (service.go 340-343,
\* 256-259, 394-395).
GrantMatchesServer ==
    /\ ServerCommit(token) = commit
    /\ \A k \in Conns : tok[k] # None => ServerCommit(tok[k]) = want[k]

\* Two servers are never in charge of socketPath: a restart starts the new
\* shell only when the old one has been waited for, also when it crashes or a
\* signal arrives in between (service.go 173-176, 194-196). This is about what
\* wait() waits for; an old node process may still be on its way out.
OneServer ==
    \A s, t \in Servers : Living(s) /\ Living(t) => s = t

\* A lease in the table is always one whose handler is on its way to
\* monitorLease or in it, so that it can be released (service.go 342-349,
\* 394-401, 405-414).
NoLeakedLease ==
    \A c \in Clients : \A k \in Conns :
        leases[c] = k => client[k] = c /\ pc[k] \in {"reply", "monitor"}

\* Leases of servers that were replaced are all of one server: nobody gets
\* a second switch while another client still holds a lease, not even a
\* stale one (service.go 353-368).
OneStaleGeneration ==
    \A c, d \in Clients :
        LET j == leases[c]
            k == leases[d]
        IN  j # None /\ k # None /\ tok[j] # token /\ tok[k] # token => tok[j] = tok[k]

\* A client that holds an OK and an open connection holds the lease of its
\* client id, unless the slower restart request of another connection of the
\* same client id was granted after it, over its lease (service.go 335-338,
\* 394, 409).
TrackedUnlessOvertaken ==
    \A k \in Conns :
        reply[k] = "ok" /\ conn[k] = "open" => leases[client[k]] = k \/ k \in overtaken

(***************************************************************************)
(* Liveness.                                                               *)
(***************************************************************************)

\* Every accepted CONNECT is answered or its connection closed: no handler
\* stays blocked on restartCh or result (service.go 382-384).
ConnectSettles ==
    \A k \in Conns :
        (pc[k] = "connect") ~> (reply[k] # "none" \/ conn[k] # "open")

\* The lease of a closed connection leaves the table, or the process ends.
DeadLeaseReleased ==
    \A c \in Clients : \A k \in Conns :
        (leases[c] = k /\ conn[k] # "open") ~> (leases[c] # k \/ ~Alive)

\* When the server dies, its shell or its node process, either a new one takes
\* over or codetap ends: it never goes on serving control connections for a
\* dead server.
DeadServerReplaced ==
    \A s \in Servers :
        (s = cur /\ (~Living(s) \/ node[s] = "ended")) ~> (s # cur \/ ~Alive)

\* An orderly end of codetap ends the shell and tells the node process of every
\* server it started, the one of a failed restart that nobody waits for
\* included. An end of any kind ends the direct children, to which alone the
\* death signal goes: with `~Alive` in the first part a codetap that is killed
\* refutes it (service.go 194, 253, procattr_linux.go 8).
ServersEndWithCodetap ==
    \A s \in Servers :
        /\ (main = "exited") ~> (~Living(s) /\ ~NodeUntold(s))
        /\ (~Alive) ~> ~Living(s)

(***************************************************************************)
(* What the documentation says and the code does not do.                   *)
(***************************************************************************)

\* README.md 165: a version switch happens when no other clients are
\* connected. Another client may be granted a lease for the old version
\* after the switch was reserved (service.go 340-343 does not look at
\* restartInProgress).
NoSwitchUnderLease ==
    [][token' # token => \A c \in Clients \ {client[token']} : leases[c] = None]_vars

=============================================================================
