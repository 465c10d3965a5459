----------------------------- MODULE SocketDir -----------------------------
(***************************************************************************)
(* The socket directory, which codetap processes share without a lock: the *)
(* two files <name>.ctl.sock and <name>.sock of one session name, and the  *)
(* `codetap run`, `codetap relay` and `codetap clean` processes that       *)
(* create, probe and remove them (Service.Run and Clean in                 *)
(* internal/app/service.go, relayCmd in cmd/codetap/main.go, HostSide in   *)
(* internal/adapter/relay/host.go, internal/adapter/store/file.go). Every  *)
(* system call on a path is a step. Files of another name are never        *)
(* touched by these processes, so one name stands for all.                 *)
(***************************************************************************)
CONSTANTS
    Runs, Relays, Cleans,   \* processes: each is started at most once
    None                    \* no file at the path

ASSUME ConstAssumption ==
    /\ Runs \cap Relays = {} /\ Runs \cap Cleans = {} /\ Relays \cap Cleans = {}
    /\ None \notin Runs \cup Relays \cup Cleans

VARIABLES
    ctl,     \* process whose listener bound the file at the control path
    data,    \* process whose listener or server bound the file at the data path
    pc,      \* what a process does next
    server,  \* the code-server a run started
    calm     \* no process has yet started, ended or removed into another's way

fileVars == <<ctl, data>>
vars == <<fileVars, pc, server, calm>>

Procs == Runs \cup Relays \cup Cleans
Sessions == Runs \cup Relays

\* Ends: "ended" in good order, "refused" because the name is taken,
\* "failed" and "inUse" for a server that did not start or an address in
\* use, "fatal" with os.Exit, "killed".
Ends == {"ended", "refused", "failed", "inUse", "fatal", "killed"}
Pcs == {"idle", "dial", "clearCtl", "clearData", "start", "await", "giveUp", "listen",
        "serve", "hostListen", "bridge", "hostClose", "hostCloseErr", "closing", "query",
        "removeCtl", "removeData"} \cup Ends

\* "late": bound its path when its codetap no longer looked for the file.
ServerStates == {"none", "starting", "up", "late", "gone"}

TypeOK ==
    /\ ctl \in Sessions \cup {None} /\ data \in Sessions \cup {None}
    /\ pc \in [Procs -> Pcs]
    /\ server \in [Runs -> ServerStates]
    /\ calm \in BOOLEAN

Init ==
    /\ ctl = None /\ data = None
    /\ pc = [p \in Procs |-> "idle"]
    /\ server = [p \in Runs |-> "none"]
    /\ calm = TRUE

\* Processes whose control listener is open: a dial to a file they bound is
\* answered, to any other it is refused.
Listening(p) ==
    pc[p] \in {"serve", "hostListen", "bridge", "hostClose", "hostCloseErr", "closing"}

\* Between its look at the directory and the socket it opens, or between the
\* close of its socket and its end, a process assumes that nobody else acts.
Moving(p) ==
    pc[p] \in {"dial", "clearCtl", "clearData", "start", "await", "giveUp", "listen",
               "closing", "query", "removeCtl", "removeData"}

\* A relay asks nobody: it is in the way of every session there is.
Overlap ==
    \E p, q \in Procs : p # q /\ Moving(p) /\
        (Moving(q) \/ (p \in Relays /\ Listening(q)))

\* Process p goes on to its next step; calm is a history variable.
Goto(p, next) ==
    /\ pc' = [pc EXCEPT ![p] = next]
    /\ calm' = (calm /\ ~Overlap')

\* net.DialTimeout on the control path.
CtlAnswers == ctl # None /\ Listening(ctl)

-----------------------------------------------------------------------------
(***************************************************************************)
(* FileStore.Remove, by whoever calls it: first one file, then the other.  *)
(***************************************************************************)
RemoveCtl(p) ==
    /\ pc[p] = "removeCtl"
    /\ ctl' = None
    /\ Goto(p, "removeData")
    /\ UNCHANGED <<data, server>>

\* Mutant: only the control socket is removed.
RemoveData_Keeps(p) ==
    /\ pc[p] = "removeData"
    /\ Goto(p, "ended")
    /\ UNCHANGED <<fileVars, server>>

RemoveData(p) ==
    /\ pc[p] = "removeData"
    /\ data' = None
    /\ Goto(p, "ended")
    /\ UNCHANGED <<ctl, server>>

\* Close of a Unix listener unlinks its path, whoever has bound it since.
CloseListener(p) ==
    /\ pc[p] = "closing"
    /\ ctl' = None
    /\ Goto(p, "removeCtl")
    /\ UNCHANGED <<data, server>>

-----------------------------------------------------------------------------
(***************************************************************************)
(* codetap run, once its server is provisioned.                            *)
(***************************************************************************)
RunStat(p) ==
    /\ pc[p] = "idle"
    /\ Goto(p, IF ctl = None THEN "clearData" ELSE "dial")
    /\ UNCHANGED <<fileVars, server>>

\* Mutant: a file at the control path is taken for a left-over.
RunDial_NotAsked(p) ==
    /\ pc[p] = "dial"
    /\ Goto(p, "clearCtl")
    /\ UNCHANGED <<fileVars, server>>

RunDial(p) ==
    /\ pc[p] = "dial"
    /\ Goto(p, IF CtlAnswers THEN "refused" ELSE "clearCtl")
    /\ UNCHANGED <<fileVars, server>>

\* Mutant: the dead session's control socket stays.
RunClearCtl_Keeps(p) ==
    /\ pc[p] = "clearCtl"
    /\ Goto(p, "clearData")
    /\ UNCHANGED <<fileVars, server>>

RunClearCtl(p) ==
    /\ pc[p] = "clearCtl"
    /\ ctl' = None
    /\ Goto(p, "clearData")
    /\ UNCHANGED <<data, server>>

RunClearData(p) ==
    /\ pc[p] = "clearData" /\ p \in Runs
    /\ data' = None
    /\ Goto(p, "start")
    /\ UNCHANGED <<ctl, server>>

\* The token and the start of the process, either of which may fail.
RunStart(p) ==
    /\ pc[p] = "start"
    /\ \/ Goto(p, "await") /\ server' = [server EXCEPT ![p] = "starting"]
       \/ Goto(p, "failed") /\ UNCHANGED server
    /\ UNCHANGED fileVars

\* Mutant: the wait for the socket has no limit.
RunAwait_NoLimit(p) ==
    /\ pc[p] = "await"
    /\ data # None
    /\ Goto(p, "listen")
    /\ UNCHANGED <<fileVars, server>>

\* waitForSocket: some file is there, or there was none at the last of 100
\* looks, which a tenth of a second of sleep follows ...
RunAwait(p) ==
    /\ pc[p] = "await"
    /\ Goto(p, IF data # None THEN "listen" ELSE "giveUp")
    /\ UNCHANGED <<fileVars, server>>

\* ... then stop(), which waits for nobody, and a return from before the
\* cleanup is registered. The server may still bind until it has exited.
RunGiveUp(p) ==
    /\ pc[p] = "giveUp"
    /\ Goto(p, "failed")
    /\ UNCHANGED <<fileVars, server>>

RunListen(p) ==
    /\ pc[p] = "listen" /\ p \in Runs
    /\ \/ ctl = None /\ ctl' = p /\ Goto(p, "serve")
       \/ ctl # None /\ Goto(p, "inUse") /\ UNCHANGED ctl
    /\ UNCHANGED <<data, server>>

\* doRestart (module Session): the old server is stopped and awaited, the
\* data socket removed, a new server started.
RunRestart(p) ==
    /\ pc[p] = "serve" /\ p \in Runs
    /\ server' = [server EXCEPT ![p] = "starting"]
    /\ data' = None
    /\ UNCHANGED <<ctl, pc, calm>>

\* wait() has returned, which is when the shell has exited and not its node
\* process, or a restart was given up: cleanup starts, whatever the server does.
RunDone(p) ==
    /\ pc[p] = "serve" /\ p \in Runs
    /\ Goto(p, "closing")
    /\ UNCHANGED <<fileVars, server>>

Run(p) ==
    \/ RunStat(p) \/ RunDial(p) \/ RunClearCtl(p) \/ RunClearData(p)
    \/ RunStart(p) \/ RunAwait(p) \/ RunGiveUp(p) \/ RunListen(p)

\* code-server binds the data path, also after a SIGTERM that has not ended it
\* yet, or after the death of its codetap; it does not remove a file it finds.
ServerBind(p) ==
    /\ server[p] = "starting"
    /\ data = None
    /\ data' = p
    /\ server' = [server EXCEPT ![p] =
                    IF pc[p] \in {"await", "listen", "serve"} THEN "up" ELSE "late"]
    /\ UNCHANGED <<ctl, pc, calm>>

\* It exits, at some time or never, and leaves its file behind. What a late one
\* does after its bind makes no difference.
ServerExits(p) ==
    /\ server[p] \in {"starting", "up"}
    /\ server' = [server EXCEPT ![p] = "gone"]
    /\ UNCHANGED <<fileVars, pc, calm>>

-----------------------------------------------------------------------------
(***************************************************************************)
(* codetap relay.                                                          *)
(***************************************************************************)

\* relayCmd removes both files without asking whose they are.
RelayClearCtl(r) ==
    /\ pc[r] = "idle"
    /\ ctl' = None
    /\ Goto(r, "clearData")
    /\ UNCHANGED <<data, server>>

RelayClearData(r) ==
    /\ pc[r] = "clearData" /\ r \in Relays
    /\ data' = None
    /\ Goto(r, "listen")
    /\ UNCHANGED <<ctl, server>>

RelayListen(r) ==
    /\ pc[r] = "listen" /\ r \in Relays
    /\ \/ ctl = None /\ ctl' = r /\ Goto(r, "serve")
       \/ ctl # None /\ Goto(r, "inUse") /\ UNCHANGED ctl
    /\ UNCHANGED <<data, server>>

\* The first CONNECT has come: HostSide removes the data socket ...
HostClear(r) ==
    /\ pc[r] = "serve" /\ r \in Relays
    /\ data' = None
    /\ Goto(r, "hostListen")
    /\ UNCHANGED <<ctl, server>>

\* ... and listens; an error goes to fatal, past relayCmd's deferred cleanup.
HostListen(r) ==
    /\ pc[r] = "hostListen"
    /\ \/ data = None /\ data' = r /\ Goto(r, "bridge")
       \/ data # None /\ Goto(r, "inUse") /\ UNCHANGED data
    /\ UNCHANGED <<ctl, server>>

\* The remote command has ended or could not be started: HostSide's deferred
\* os.Remove, then its listener's Close, which unlinks the path once more.
HostReturns(r) ==
    /\ pc[r] = "bridge"
    /\ data' = None
    /\ Goto(r, "hostClose") \/ Goto(r, "hostCloseErr")
    /\ UNCHANGED <<ctl, server>>

HostClosed(r) ==
    /\ pc[r] \in {"hostClose", "hostCloseErr"}
    /\ data' = None
    /\ Goto(r, IF pc[r] = "hostClose" THEN "closing" ELSE "fatal")
    /\ UNCHANGED <<ctl, server>>

Relay(r) ==
    \/ RelayClearCtl(r) \/ RelayClearData(r) \/ RelayListen(r)
    \/ HostListen(r) \/ HostClosed(r)

-----------------------------------------------------------------------------
(***************************************************************************)
(* codetap clean.                                                          *)
(***************************************************************************)
CleanGlob(c) ==
    /\ pc[c] = "idle"
    /\ Goto(c, IF ctl = None THEN "ended" ELSE "query")
    /\ UNCHANGED <<fileVars, server>>

\* QueryCtlInfo; a session that listens answers in time.
CleanQuery(c) ==
    /\ pc[c] = "query"
    /\ Goto(c, IF CtlAnswers THEN "ended" ELSE "removeCtl")
    /\ UNCHANGED <<fileVars, server>>

Clean(c) == CleanGlob(c) \/ CleanQuery(c)

-----------------------------------------------------------------------------
\* A process is killed: its listeners close and nothing is unlinked. Pdeathsig
\* is for the server's shell; the node process that binds goes on.
Die(p) ==
    /\ pc[p] \notin Ends \cup {"idle"}
    /\ Goto(p, "killed")
    /\ UNCHANGED <<fileVars, server>>

\* Steps of a process on its way, in or out.
Advance(p) ==
    \/ p \in Runs /\ Run(p)
    \/ p \in Relays /\ Relay(p)
    \/ p \in Cleans /\ Clean(p)
    \/ RemoveCtl(p) \/ RemoveData(p) \/ CloseListener(p)

Finished ==
    /\ \A p \in Procs : pc[p] \in Ends
    /\ UNCHANGED vars

Next ==
    \/ \E p \in Procs : Advance(p) \/ Die(p)
    \/ \E p \in Runs : RunRestart(p) \/ RunDone(p) \/ ServerBind(p) \/ ServerExits(p)
    \/ \E r \in Relays : HostClear(r) \/ HostReturns(r)
    \/ Finished

\* A run that has been started goes on. Nobody has to start one, or to end it;
\* relays, cleans and servers owe nothing.
Fairness == \A p \in Runs : WF_vars(pc[p] # "idle" /\ Advance(p))

Spec == Init /\ [][Next]_vars
FairSpec == Spec /\ Fairness

-----------------------------------------------------------------------------
(***************************************************************************)
(* Safety.                                                                 *)
(***************************************************************************)

\* Servers that bound behind the back of the codetap that had started them.
Late == {q \in Runs : server[q] = "late"}

\* When starts, ends and cleans of a name do not overlap, a live session
\* keeps its control socket and its server's data socket, through other
\* starts of its name, cleans, restarts, and what killed ones left behind; and
\* if a socket is there that is not its own server's, it is of a server that
\* was given up or orphaned and bound late (service.go 103-114, 440-460, 613-621,
\* main.go 402-418).
LiveKeepsSockets ==
    calm => \A p \in Sessions :
        /\ Listening(p) => ctl = p
        /\ p \in Runs /\ pc[p] = "serve" /\ server[p] = "up" => data = p
        /\ p \in Runs /\ pc[p] = "serve" => data \in {p, None} \cup Late
        /\ pc[p] = "bridge" => data = p

\* Nor does anyone then find an address in use that it took for free: a
\* left-over never stops a new session, except a relay whose data path a
\* late server binds between HostSide's removal and its listen (host.go 25-27).
LeftoverNeverBlocks ==
    calm => \A p \in Procs : pc[p] = "inUse" => p \in Relays /\ Late # {}

\* A session that ends without being killed, without os.Exit and without
\* having found its address in use leaves no file: not when its server
\* crashed, its start timed out, or a restart failed, and whatever the other
\* processes do at the same time. The exception is the data socket of a server
\* that bound after its start or restart was given up, for which nobody waits
\* (service.go 140, 253).
NothingLeft ==
    \A p \in Sessions :
        pc[p] \in {"ended", "refused", "failed"} =>
            ctl # p /\ (data = p => p \in Late)

(***************************************************************************)
(* Liveness.                                                               *)
(***************************************************************************)

\* Every start is decided: the session serves or its process ends.
StartSettles ==
    \A p \in Runs : (pc[p] = "dial" \/ pc[p] = "clearData") ~> (pc[p] \in Ends \cup {"serve"})

=============================================================================
