--------------------------- MODULE SessionProofs ---------------------------
(***************************************************************************)
(* Proofs about Session, for any sets of clients, commits and connections. *)
(*                                                                         *)
(* Core (types, what a read CONNECT line gives, one restart at a time) is  *)
(* inductive by itself. The other safety properties are inductive relative *)
(* to Core and to the strengthenings below, and so is the mapping to the   *)
(* abstract VersionGate.                                                   *)
(***************************************************************************)
EXTENDS SessionGate, TLAPS

\* A handler past its first step has read a client id and a commit.
LineRead ==
    \A k \in Conns : pc[k] # "new" => client[k] \in Clients /\ want[k] \in Commits

Core == TypeOK /\ LineRead /\ OneRestart

\* Token names only servers whose CONNECT line is fixed; a published restart
\* stays the current one until its handler has picked the token up.
TokenKnown ==
    /\ token # First => pc[token] # "new"
    /\ \A k \in Conns : tok[k] \in Conns => pc[tok[k]] # "new"
    /\ \A k \in Conns : pc[k] = "new" => tok[k] = None
    /\ \A k \in Conns : pc[k] = "wait" /\ life = "answer" => token = k
    /\ \A k \in Conns : pc[k] = "restarted" => token = k

GrantInv == TokenKnown /\ GrantMatchesServer

\* Which server may be alive, by the program counter of the lifecycle
\* goroutine.
Placement ==
    /\ \A s \in Servers : Living(s) =>
        \/ life \in {"select", "drain"} /\ s = cur
        \/ life \in {"await", "publish", "answer", "fail"} /\ s = req
        \/ life = "stopped"
    /\ OneServer

\* No lease is stale while a restart is reserved but not published.
NoneStaleBeforePublish ==
    \A k \in Conns :
        pc[k] = "send" \/ (pc[k] = "wait" /\ life # "answer") =>
            \A c \in Clients : leases[c] # None => tok[leases[c]] = token

StaleInv == NoneStaleBeforePublish /\ OneStaleGeneration

\* What TrackedUnlessOvertaken says of the answered connections already holds
\* of the granted ones.
Tracked ==
    /\ \A k \in Conns :
        conn[k] = "open" /\ pc[k] \in {"reply", "monitor"} =>
            leases[client[k]] = k \/ k \in overtaken
    /\ \A k \in Conns : conn[k] = "open" => pc[k] \notin {"new", "done"}
    /\ \A k \in Conns : reply[k] = "ok" => pc[k] \in {"monitor", "done"}
    /\ \A k \in Conns : tok[k] # None => pc[k] \in {"reply", "monitor", "done"}
    /\ \A k \in Conns : pc[k] = "new" => conn[k] = "none" /\ tok[k] = None

-----------------------------------------------------------------------------
(***************************************************************************)
(* Core: types, what a read line gives, one restart at a time.             *)
(***************************************************************************)

\* The initial state satisfies Core.
LEMMA CoreInit == Init => Core
<1> SUFFICES ASSUME Init PROVE Core
  OBVIOUS
<1> USE ConstAssumption DEF Init, Servers
<1>1. TypeOK
  BY DEF TypeOK, MainStates, LifeStates, SrvStates, NodeStates, PcStates, ConnStates, Replies
<1>2. LineRead
  BY DEF LineRead
<1>3. OneRestart
  BY DEF OneRestart
<1> QED
  BY <1>1, <1>2, <1>3 DEF Core

\* Every step of the session preserves Core.
LEMMA CoreNext ==
    Core /\ [Next]_vars => Core'
<1> SUFFICES ASSUME Core, [Next]_vars PROVE Core'
  OBVIOUS
<1> USE ConstAssumption
    DEF Core, LineRead, OneRestart, TypeOK, Servers, MainStates, LifeStates,
        SrvStates, NodeStates, PcStates, ConnStates, Replies, vars, mainVars, lifeVars,
        srvVars, stateVars, lineVars, connVars
<1>1. ASSUME NEW k \in Conns, NEW c \in Clients, NEW v \in Commits,
              HandleCtlConn(k, c, v)
      PROVE  Core'
  BY <1>1 DEF HandleCtlConn
<1>2. ASSUME NEW k \in Conns, HangUp(k)
      PROVE  Core'
  BY <1>2 DEF HangUp
<1>3. ASSUME NEW k \in Conns, ConnectGranted(k)
      PROVE  Core'
  BY <1>3 DEF ConnectGranted, CloseOwnAnd
<1>4. ASSUME NEW k \in Conns, ConnectMismatch(k)
      PROVE  Core'
  BY <1>4 DEF ConnectMismatch, WithoutOwn, CloseOwnAnd, Written
<1>5. ASSUME NEW k \in Conns, ConnectBusy(k)
      PROVE  Core'
  BY <1>5 DEF ConnectBusy, WithoutOwn, CloseOwnAnd, Written
<1>6. ASSUME NEW k \in Conns, ConnectRestart(k)
      PROVE  Core'
  BY <1>6 DEF ConnectRestart, WithoutOwn, CloseOwnAnd, RestartFree
<1>7. ASSUME NEW k \in Conns, RestartGranted(k)
      PROVE  Core'
  <2>0. client[k] \in Clients
    BY <1>7 DEF RestartGranted
  <2>1. TypeOK' /\ LineRead'
    <3>1. leases[client[k]] \in Conns \cup {None}
      BY <2>0
    <3>2. overtaken' \subseteq Conns
      BY <1>7, <3>1 DEF RestartGranted
    <3>3. leases' \in [Clients -> Conns \cup {None}]
      BY <1>7, <2>0 DEF RestartGranted
    <3>4. tok' \in [Conns -> Servers \cup {None}] /\ pc' \in [Conns -> PcStates]
      BY <1>7 DEF RestartGranted
    <3>5. LineRead'
      BY <1>7 DEF RestartGranted
    <3>6. restartInProgress' = FALSE /\ UNCHANGED <<main, life, req, cur, srv, node,
              sock, commit, token, client, want, conn, reply>>
      BY <1>7 DEF RestartGranted
    <3>7. QED
      BY <3>2, <3>3, <3>4, <3>5, <3>6
  <2>2. \A j \in Conns : pc'[j] \notin {"send", "wait", "restarted", "refused"}
    BY <1>7 DEF RestartGranted
  <2>3. OneRestart'
    <3>1. req' = req /\ life' = life /\ ~restartInProgress'
      BY <1>7 DEF RestartGranted
    <3>2. \A j \in Conns : pc'[j] = "wait" <=> pc[j] = "wait"
      BY <1>7 DEF RestartGranted
    <3>3. QED
      BY <2>2, <3>1, <3>2
  <2>4. QED
    BY <2>1, <2>3
<1>8. ASSUME NEW k \in Conns, RestartRefused(k)
      PROVE  Core'
  <2>1. TypeOK' /\ LineRead'
    BY <1>8 DEF RestartRefused, Written
  <2>2. \A j \in Conns : pc'[j] \notin {"send", "wait", "restarted", "refused"}
    BY <1>8 DEF RestartRefused
  <2>3. OneRestart'
    <3>1. req' = req /\ life' = life /\ ~restartInProgress'
      BY <1>8 DEF RestartRefused
    <3>2. \A j \in Conns : pc'[j] = "wait" <=> pc[j] = "wait"
      BY <1>8 DEF RestartRefused
    <3>3. QED
      BY <2>2, <3>1, <3>2
  <2>4. QED
    BY <2>1, <2>3
<1>9. ASSUME NEW k \in Conns, WriteOK(k)
      PROVE  Core'
  BY <1>9 DEF WriteOK, Written
<1>10. ASSUME NEW k \in Conns, MonitorLease(k)
      PROVE  Core'
  BY <1>10 DEF MonitorLease
<1>11. ASSUME NEW k \in Conns, TakeRequest(k)
      PROVE  Core'
  BY <1>11 DEF TakeRequest, TermGroups, TermShells
<1>12. ASSUME NEW k \in Conns, DoneWithPending(k)
      PROVE  Core'
  BY <1>12 DEF DoneWithPending
<1>13. CASE Drained
  BY <1>13 DEF Drained
<1>14. CASE DoneIdle
  BY <1>14 DEF DoneIdle
<1>15. CASE Provisioned
  BY <1>15 DEF Provisioned
<1>16. CASE StartServer
  BY <1>16 DEF StartServer
<1>17. CASE SocketReady
  BY <1>17 DEF SocketReady
<1>18. CASE SocketTimeout
  BY <1>18 DEF SocketTimeout, TermGroups, TermShells
<1>19. CASE Publish
  BY <1>19 DEF Publish
<1>20. CASE Answer
  BY <1>20 DEF Answer
<1>21. CASE RestartFails
  BY <1>21 DEF RestartFails
<1>22. ASSUME NEW s \in Servers,
              ServerBind(s) \/ NodeExits(s) \/ ShellExits(s) \/ Waited(s)
      PROVE  Core'
  BY <1>22 DEF ServerBind, NodeExits, ShellExits, Waited
<1>23. CASE MainDone \/ Exit \/ SignalForwarded \/ Die
  BY <1>23 DEF MainDone, Exit, ProcessEnds, TermShells, SignalForwarded, TermGroups, Die
<1>24. CASE UNCHANGED vars
  BY <1>24 DEF vars
<1> HIDE DEF Core, LineRead, OneRestart, TypeOK, Servers, MainStates, LifeStates,
     SrvStates, NodeStates, PcStates, ConnStates, Replies, mainVars, lifeVars, srvVars,
     stateVars, lineVars, connVars
<1> QED
  BY <1>1, <1>2, <1>3, <1>4, <1>5, <1>6, <1>7, <1>8, <1>9, <1>10, <1>11,
     <1>12, <1>13, <1>14, <1>15, <1>16, <1>17, <1>18, <1>19, <1>20, <1>21,
     <1>22, <1>23, <1>24
  DEF Next, Handler, Lifecycle, Terminated

\* Core holds in every reachable state.
THEOREM CoreInvariant == Spec => []Core
  BY CoreInit, CoreNext, PTL DEF Spec

\* Types are right for any number of clients, commits and connections.
THEOREM TypesHold == Spec => []TypeOK
  BY CoreInvariant, PTL DEF Core

\* One version switch at a time: restartInProgress is set exactly while one
\* handler is between its reservation and its answer, and the lifecycle
\* goroutine works on that handler's request.
THEOREM OneRestartHolds == Spec => []OneRestart
  BY CoreInvariant, PTL DEF Core

-----------------------------------------------------------------------------
(***************************************************************************)
(* The token a client is given.                                            *)
(***************************************************************************)

\* The initial state satisfies GrantInv.
LEMMA GrantInit == Init => GrantInv
  BY ConstAssumption DEF Init, GrantInv, TokenKnown, GrantMatchesServer, ServerCommit,
         Servers

\* Every step of the session preserves GrantInv.
LEMMA GrantNext ==
    Core /\ Core' /\ GrantInv /\ [Next]_vars => GrantInv'
<1> SUFFICES ASSUME Core, Core', GrantInv, [Next]_vars PROVE GrantInv'
  OBVIOUS
<1> USE ConstAssumption
    DEF Core, LineRead, OneRestart, GrantInv, TokenKnown,
        GrantMatchesServer, ServerCommit, TypeOK, Servers, MainStates,
        LifeStates, SrvStates, NodeStates, PcStates, ConnStates, Replies, vars,
        mainVars, lifeVars, srvVars, stateVars, lineVars, connVars
<1>1. ASSUME NEW k \in Conns, NEW c \in Clients, NEW v \in Commits,
              HandleCtlConn(k, c, v)
      PROVE  GrantInv'
  BY <1>1 DEF HandleCtlConn
<1>2. ASSUME NEW k \in Conns, HangUp(k)
      PROVE  GrantInv'
  BY <1>2 DEF HangUp
<1>3. ASSUME NEW k \in Conns, ConnectGranted(k)
      PROVE  GrantInv'
  BY <1>3 DEF ConnectGranted, CloseOwnAnd
<1>4. ASSUME NEW k \in Conns, ConnectMismatch(k)
      PROVE  GrantInv'
  BY <1>4 DEF ConnectMismatch, WithoutOwn, CloseOwnAnd, Written
<1>5. ASSUME NEW k \in Conns, ConnectBusy(k)
      PROVE  GrantInv'
  BY <1>5 DEF ConnectBusy, WithoutOwn, CloseOwnAnd, Written
<1>6. ASSUME NEW k \in Conns, ConnectRestart(k)
      PROVE  GrantInv'
  BY <1>6 DEF ConnectRestart, WithoutOwn, CloseOwnAnd, RestartFree
<1>7. ASSUME NEW k \in Conns, RestartGranted(k)
      PROVE  GrantInv'
  BY <1>7 DEF RestartGranted
<1>8. ASSUME NEW k \in Conns, RestartRefused(k)
      PROVE  GrantInv'
  BY <1>8 DEF RestartRefused, Written
<1>9. ASSUME NEW k \in Conns, WriteOK(k)
      PROVE  GrantInv'
  BY <1>9 DEF WriteOK, Written
<1>10. ASSUME NEW k \in Conns, MonitorLease(k)
      PROVE  GrantInv'
  BY <1>10 DEF MonitorLease
<1>11. CASE Publish
  BY <1>11 DEF Publish
<1>12. ASSUME NEW k \in Conns,
              TakeRequest(k) \/ DoneWithPending(k)
      PROVE  GrantInv'
  BY <1>12 DEF TakeRequest, TermGroups, TermShells, DoneWithPending
<1>13. CASE Drained \/ DoneIdle \/ Provisioned \/ StartServer \/
              SocketReady \/ SocketTimeout \/ Answer \/ RestartFails
  BY <1>13 DEF Drained, DoneIdle, Provisioned, StartServer, SocketReady,
         SocketTimeout, TermGroups, TermShells, Answer, RestartFails
<1>14. ASSUME NEW s \in Servers,
              ServerBind(s) \/ NodeExits(s) \/ ShellExits(s) \/ Waited(s)
      PROVE  GrantInv'
  BY <1>14 DEF ServerBind, NodeExits, ShellExits, Waited
<1>15. CASE MainDone \/ Exit \/ SignalForwarded \/ Die
  BY <1>15 DEF MainDone, Exit, ProcessEnds, TermShells, SignalForwarded, TermGroups, Die
<1>16. CASE UNCHANGED vars
  BY <1>16 DEF vars
<1> HIDE DEF Core, LineRead, OneRestart, GrantInv, TokenKnown, GrantMatchesServer,
     ServerCommit, TypeOK, Servers, MainStates, LifeStates, SrvStates, NodeStates,
     PcStates, ConnStates, Replies, mainVars, lifeVars, srvVars, stateVars,
     lineVars, connVars
<1> QED
  BY <1>1, <1>2, <1>3, <1>4, <1>5, <1>6, <1>7, <1>8, <1>9, <1>10, <1>11,
     <1>12, <1>13, <1>14, <1>15, <1>16
  DEF Next, Handler, Lifecycle, Terminated

\* GrantInv holds in every reachable state.
THEOREM GrantInvariant == Spec => []GrantInv
  BY CoreInvariant, GrantInit, GrantNext, PTL DEF Spec

\* Every token handed out opens a server of the commit its client asked for.
THEOREM GrantMatchesServerHolds == Spec => []GrantMatchesServer
  BY GrantInvariant, PTL DEF GrantInv

-----------------------------------------------------------------------------
(***************************************************************************)
(* Where a server may be alive.                                            *)
(***************************************************************************)

\* Initially the first server alone is alive.
LEMMA PlacementInit == Init => Placement
  BY ConstAssumption DEF Init, Placement, OneServer, Living, Servers

\* Every step of the session leaves at most one server alive, in its place.
LEMMA PlacementNext ==
    Core /\ Core' /\ Placement /\ [Next]_vars => Placement'
<1> SUFFICES ASSUME Core, Core', Placement, [Next]_vars PROVE Placement'
  OBVIOUS
<1> USE ConstAssumption
    DEF Core, OneRestart, Placement, OneServer, Living, TypeOK, Servers,
        MainStates, LifeStates, SrvStates, NodeStates, PcStates, ConnStates, Replies,
        vars, mainVars, lifeVars, srvVars, stateVars, lineVars, connVars
<1>1. ASSUME NEW k \in Conns, NEW c \in Clients, NEW v \in Commits,
              HandleCtlConn(k, c, v)
      PROVE  Placement'
  BY <1>1 DEF HandleCtlConn
<1>2. ASSUME NEW k \in Conns, HangUp(k)
      PROVE  Placement'
  BY <1>2 DEF HangUp
<1>3. ASSUME NEW k \in Conns, Handler(k)
      PROVE  Placement'
  BY <1>3 DEF Handler, ConnectGranted, CloseOwnAnd, ConnectMismatch, WithoutOwn,
         Written, ConnectBusy, ConnectRestart, RestartFree, RestartGranted,
         RestartRefused, WriteOK, MonitorLease
<1>4. ASSUME NEW k \in Conns, TakeRequest(k)
      PROVE  Placement'
  BY <1>4 DEF TakeRequest, TermGroups, TermShells
<1>5. ASSUME NEW k \in Conns, DoneWithPending(k)
      PROVE  Placement'
  BY <1>5 DEF DoneWithPending
<1>6. CASE Drained
  BY <1>6 DEF Drained
<1>7. CASE DoneIdle
  BY <1>7 DEF DoneIdle
<1>8. CASE Provisioned
  BY <1>8 DEF Provisioned
<1>9. CASE StartServer
  BY <1>9 DEF StartServer
<1>10. CASE SocketReady
  BY <1>10 DEF SocketReady
<1>11. CASE SocketTimeout
  BY <1>11 DEF SocketTimeout, TermGroups, TermShells
<1>12. CASE Publish
  BY <1>12 DEF Publish
<1>13. CASE Answer
  <2>1. req \in Conns
    BY <1>13 DEF Answer
  <2>2. \A s \in Servers : Living(s)' => s = cur'
    BY <1>13 DEF Answer
  <2>3. QED
    BY <1>13, <2>1, <2>2 DEF Answer
<1>14. CASE RestartFails
  <2>1. \A s \in Servers : Living(s)' => s = req
    BY <1>14 DEF RestartFails
  <2>2. QED
    BY <1>14, <2>1 DEF RestartFails
<1>15. ASSUME NEW s \in Servers, ServerBind(s)
      PROVE  Placement'
  BY <1>15 DEF ServerBind
<1>16. ASSUME NEW s \in Servers, NodeExits(s)
      PROVE  Placement'
  BY <1>16 DEF NodeExits
<1>17. ASSUME NEW s \in Servers, ShellExits(s)
      PROVE  Placement'
  BY <1>17 DEF ShellExits
<1>18. ASSUME NEW s \in Servers, Waited(s)
      PROVE  Placement'
  BY <1>18 DEF Waited
<1>19. CASE MainDone
  BY <1>19 DEF MainDone
<1>20. CASE Exit
  BY <1>20 DEF Exit, ProcessEnds, TermShells
<1>21. CASE SignalForwarded
  BY <1>21 DEF SignalForwarded, TermGroups, TermShells
<1>22. CASE Die
  BY <1>22 DEF Die, ProcessEnds, TermShells
<1>23. CASE UNCHANGED vars
  BY <1>23 DEF vars
<1> HIDE DEF Core, OneRestart, Placement, OneServer, Living, TypeOK, Servers,
     MainStates, LifeStates, SrvStates, NodeStates, PcStates, ConnStates, Replies,
     mainVars, lifeVars, srvVars, stateVars, lineVars, connVars
<1> QED
  BY <1>1, <1>2, <1>3, <1>4, <1>5, <1>6, <1>7, <1>8, <1>9, <1>10, <1>11,
     <1>12, <1>13, <1>14, <1>15, <1>16, <1>17, <1>18, <1>19, <1>20, <1>21,
     <1>22, <1>23
  DEF Next, Handler, Lifecycle, Terminated

\* Two servers are never in charge of one socket path.
THEOREM OneServerHolds == Spec => []OneServer
<1>1. Spec => []Placement
  BY CoreInvariant, PlacementInit, PlacementNext, PTL DEF Spec
<1> QED
  BY <1>1, PTL DEF Placement

-----------------------------------------------------------------------------
(***************************************************************************)
(* Leases.                                                                 *)
(***************************************************************************)

\* Initially there is no lease.
LEMMA LeaseInit == Init => NoLeakedLease
  BY ConstAssumption DEF Init, NoLeakedLease

\* Every step of the session leaves each lease a handler to release it.
LEMMA LeaseNext ==
    Core /\ Core' /\ NoLeakedLease /\ [Next]_vars => NoLeakedLease'
<1> SUFFICES ASSUME Core, Core', NoLeakedLease, [Next]_vars PROVE NoLeakedLease'
  OBVIOUS
<1> USE ConstAssumption
    DEF Core, LineRead, OneRestart, NoLeakedLease, TypeOK, Servers,
        MainStates, LifeStates, SrvStates, NodeStates, PcStates, ConnStates, Replies,
        vars, mainVars, lifeVars, srvVars, stateVars, lineVars, connVars
<1>1. ASSUME NEW k \in Conns, NEW c \in Clients, NEW v \in Commits,
              HandleCtlConn(k, c, v)
      PROVE  NoLeakedLease'
  BY <1>1 DEF HandleCtlConn
<1>2. ASSUME NEW k \in Conns, HangUp(k)
      PROVE  NoLeakedLease'
  BY <1>2 DEF HangUp
<1>3. ASSUME NEW k \in Conns, ConnectGranted(k)
      PROVE  NoLeakedLease'
  BY <1>3 DEF ConnectGranted, CloseOwnAnd
<1>4. ASSUME NEW k \in Conns, ConnectMismatch(k)
      PROVE  NoLeakedLease'
  BY <1>4 DEF ConnectMismatch, WithoutOwn, CloseOwnAnd, Written
<1>5. ASSUME NEW k \in Conns, ConnectBusy(k)
      PROVE  NoLeakedLease'
  BY <1>5 DEF ConnectBusy, WithoutOwn, CloseOwnAnd, Written
<1>6. ASSUME NEW k \in Conns, ConnectRestart(k)
      PROVE  NoLeakedLease'
  BY <1>6 DEF ConnectRestart, WithoutOwn, CloseOwnAnd, RestartFree
<1>7. ASSUME NEW k \in Conns, RestartGranted(k)
      PROVE  NoLeakedLease'
  BY <1>7 DEF RestartGranted
<1>8. ASSUME NEW k \in Conns, RestartRefused(k)
      PROVE  NoLeakedLease'
  BY <1>8 DEF RestartRefused, Written
<1>9. ASSUME NEW k \in Conns, WriteOK(k)
      PROVE  NoLeakedLease'
  BY <1>9 DEF WriteOK, Written
<1>10. ASSUME NEW k \in Conns, MonitorLease(k)
      PROVE  NoLeakedLease'
  BY <1>10 DEF MonitorLease
<1>11. CASE Lifecycle
  BY <1>11 DEF Lifecycle, TakeRequest, TermGroups, TermShells, DoneWithPending, Drained,
         DoneIdle, Provisioned, StartServer, SocketReady, SocketTimeout,
         Publish, Answer, RestartFails
<1>12. ASSUME NEW s \in Servers,
              ServerBind(s) \/ NodeExits(s) \/ ShellExits(s) \/ Waited(s)
      PROVE  NoLeakedLease'
  BY <1>12 DEF ServerBind, NodeExits, ShellExits, Waited
<1>13. CASE MainDone \/ Exit \/ SignalForwarded \/ Die
  BY <1>13 DEF MainDone, Exit, ProcessEnds, TermShells, SignalForwarded, TermGroups, Die
<1>14. CASE UNCHANGED vars
  BY <1>14 DEF vars
<1> HIDE DEF Core, LineRead, OneRestart, NoLeakedLease, TypeOK, Servers, MainStates,
     LifeStates, SrvStates, NodeStates, PcStates, ConnStates, Replies, mainVars,
     lifeVars, srvVars, stateVars, lineVars, connVars
<1> QED
  BY <1>1, <1>2, <1>3, <1>4, <1>5, <1>6, <1>7, <1>8, <1>9, <1>10, <1>11,
     <1>12, <1>13, <1>14
  DEF Next, Handler, Lifecycle, Terminated

\* A lease in the table always has a handler that will release it.
THEOREM NoLeakedLeaseHolds == Spec => []NoLeakedLease
  BY CoreInvariant, LeaseInit, LeaseNext, PTL DEF Spec

\* Initially there is no lease, so no stale one.
LEMMA StaleInit == Init => StaleInv
  BY DEF Init, StaleInv, NoneStaleBeforePublish, OneStaleGeneration

\* Every step of the session preserves StaleInv.
LEMMA StaleNext ==
    Core /\ Core' /\ NoLeakedLease /\ StaleInv /\ [Next]_vars => StaleInv'
<1> SUFFICES ASSUME Core, Core', NoLeakedLease, StaleInv, [Next]_vars PROVE StaleInv'
  OBVIOUS
<1> USE ConstAssumption
    DEF Core, LineRead, OneRestart, NoLeakedLease, StaleInv,
        NoneStaleBeforePublish, OneStaleGeneration, TypeOK, Servers,
        MainStates, LifeStates, SrvStates, NodeStates, PcStates, ConnStates, Replies,
        vars, mainVars, lifeVars, srvVars, stateVars, lineVars, connVars
<1>1. ASSUME NEW k \in Conns, NEW c \in Clients, NEW v \in Commits,
              HandleCtlConn(k, c, v)
      PROVE  StaleInv'
  BY <1>1 DEF HandleCtlConn
<1>2. ASSUME NEW k \in Conns, HangUp(k)
      PROVE  StaleInv'
  BY <1>2 DEF HangUp
<1>3. ASSUME NEW k \in Conns, ConnectGranted(k)
      PROVE  StaleInv'
  BY <1>3 DEF ConnectGranted, CloseOwnAnd
<1>4. ASSUME NEW k \in Conns, ConnectMismatch(k)
      PROVE  StaleInv'
  BY <1>4 DEF ConnectMismatch, WithoutOwn, CloseOwnAnd, Written
<1>5. ASSUME NEW k \in Conns, ConnectBusy(k)
      PROVE  StaleInv'
  BY <1>5 DEF ConnectBusy, WithoutOwn, CloseOwnAnd, Written
<1>6. ASSUME NEW k \in Conns, ConnectRestart(k)
      PROVE  StaleInv'
  BY <1>6 DEF ConnectRestart, WithoutOwn, CloseOwnAnd, RestartFree, NoConflict,
         Conflicting
<1>7. ASSUME NEW k \in Conns, RestartGranted(k)
      PROVE  StaleInv'
  BY <1>7 DEF RestartGranted
<1>8. ASSUME NEW k \in Conns, RestartRefused(k)
      PROVE  StaleInv'
  BY <1>8 DEF RestartRefused, Written
<1>9. ASSUME NEW k \in Conns, WriteOK(k)
      PROVE  StaleInv'
  BY <1>9 DEF WriteOK, Written
<1>10. ASSUME NEW k \in Conns, MonitorLease(k)
      PROVE  StaleInv'
  BY <1>10 DEF MonitorLease
<1>11. ASSUME NEW k \in Conns, TakeRequest(k)
      PROVE  StaleInv'
  BY <1>11 DEF TakeRequest, TermGroups, TermShells
<1>12. ASSUME NEW k \in Conns, DoneWithPending(k)
      PROVE  StaleInv'
  BY <1>12 DEF DoneWithPending
<1>13. CASE Drained
  BY <1>13 DEF Drained
<1>14. CASE DoneIdle
  BY <1>14 DEF DoneIdle
<1>15. CASE Provisioned
  BY <1>15 DEF Provisioned
<1>16. CASE StartServer
  BY <1>16 DEF StartServer
<1>17. CASE SocketReady
  BY <1>17 DEF SocketReady
<1>18. CASE SocketTimeout
  BY <1>18 DEF SocketTimeout, TermGroups, TermShells
<1>19. CASE Publish
  BY <1>19 DEF Publish
<1>20. CASE Answer
  BY <1>20 DEF Answer
<1>21. CASE RestartFails
  BY <1>21 DEF RestartFails
<1>22. ASSUME NEW s \in Servers,
              ServerBind(s) \/ NodeExits(s) \/ ShellExits(s) \/ Waited(s)
      PROVE  StaleInv'
  BY <1>22 DEF ServerBind, NodeExits, ShellExits, Waited
<1>23. CASE MainDone \/ Exit \/ SignalForwarded \/ Die
  BY <1>23 DEF MainDone, Exit, ProcessEnds, TermShells, SignalForwarded, TermGroups, Die
<1>24. CASE UNCHANGED vars
  BY <1>24 DEF vars
<1> HIDE DEF Core, LineRead, OneRestart, NoLeakedLease, StaleInv,
     NoneStaleBeforePublish, OneStaleGeneration, TypeOK, Servers,
     MainStates, LifeStates, SrvStates, NodeStates, PcStates, ConnStates, Replies,
     mainVars, lifeVars, srvVars, stateVars, lineVars, connVars
<1> QED
  BY <1>1, <1>2, <1>3, <1>4, <1>5, <1>6, <1>7, <1>8, <1>9, <1>10, <1>11,
     <1>12, <1>13, <1>14, <1>15, <1>16, <1>17, <1>18, <1>19, <1>20, <1>21,
     <1>22, <1>23, <1>24
  DEF Next, Handler, Lifecycle, Terminated

\* All stale leases are leases of one and the same former server.
THEOREM OneStaleGenerationHolds == Spec => []OneStaleGeneration
<1>1. Spec => []StaleInv
  BY CoreInvariant, NoLeakedLeaseHolds, StaleInit, StaleNext, PTL DEF Spec
<1> QED
  BY <1>1, PTL DEF StaleInv

\* Initially there is no connection to track.
LEMMA TrackedInit == Init => Tracked
  BY DEF Init, Tracked

\* Every step of the session keeps the granted connections tracked.
LEMMA TrackedNext ==
    Core /\ Core' /\ GrantInv /\ NoLeakedLease /\ Tracked /\ [Next]_vars => Tracked'
<1> SUFFICES ASSUME Core, Core', GrantInv, NoLeakedLease, Tracked, [Next]_vars PROVE Tracked'
  OBVIOUS
<1> USE ConstAssumption
    DEF Core, LineRead, OneRestart, GrantInv, TokenKnown, NoLeakedLease,
        Tracked, TypeOK, Servers, MainStates, LifeStates, SrvStates, NodeStates,
        PcStates, ConnStates, Replies, vars, mainVars, lifeVars, srvVars,
        stateVars, lineVars, connVars
<1>1. ASSUME NEW k \in Conns, NEW c \in Clients, NEW v \in Commits,
              HandleCtlConn(k, c, v)
      PROVE  Tracked'
  BY <1>1 DEF HandleCtlConn
<1>2. ASSUME NEW k \in Conns, HangUp(k)
      PROVE  Tracked'
  BY <1>2 DEF HangUp
<1>3. ASSUME NEW k \in Conns, ConnectGranted(k)
      PROVE  Tracked'
  BY <1>3 DEF ConnectGranted, CloseOwnAnd
<1>4. ASSUME NEW k \in Conns, ConnectMismatch(k)
      PROVE  Tracked'
  BY <1>4 DEF ConnectMismatch, WithoutOwn, CloseOwnAnd, Written
<1>5. ASSUME NEW k \in Conns, ConnectBusy(k)
      PROVE  Tracked'
  BY <1>5 DEF ConnectBusy, WithoutOwn, CloseOwnAnd, Written
<1>6. ASSUME NEW k \in Conns, ConnectRestart(k)
      PROVE  Tracked'
  BY <1>6 DEF ConnectRestart, WithoutOwn, CloseOwnAnd, RestartFree
<1>7. ASSUME NEW k \in Conns, RestartGranted(k)
      PROVE  Tracked'
  BY <1>7 DEF RestartGranted
<1>8. ASSUME NEW k \in Conns, RestartRefused(k)
      PROVE  Tracked'
  BY <1>8 DEF RestartRefused, Written
<1>9. ASSUME NEW k \in Conns, WriteOK(k)
      PROVE  Tracked'
  BY <1>9 DEF WriteOK, Written
<1>10. ASSUME NEW k \in Conns, MonitorLease(k)
      PROVE  Tracked'
  BY <1>10 DEF MonitorLease
<1>11. CASE Lifecycle
  BY <1>11 DEF Lifecycle, TakeRequest, TermGroups, TermShells, DoneWithPending, Drained,
         DoneIdle, Provisioned, StartServer, SocketReady, SocketTimeout,
         Publish, Answer, RestartFails
<1>12. ASSUME NEW s \in Servers,
              ServerBind(s) \/ NodeExits(s) \/ ShellExits(s) \/ Waited(s)
      PROVE  Tracked'
  BY <1>12 DEF ServerBind, NodeExits, ShellExits, Waited
<1>13. CASE MainDone \/ Exit \/ SignalForwarded \/ Die
  BY <1>13 DEF MainDone, Exit, ProcessEnds, TermShells, SignalForwarded, TermGroups, Die
<1>14. CASE UNCHANGED vars
  BY <1>14 DEF vars
<1> HIDE DEF Core, LineRead, OneRestart, GrantInv, TokenKnown, NoLeakedLease,
     Tracked, TypeOK, Servers, MainStates, LifeStates, SrvStates, NodeStates, PcStates,
     ConnStates, Replies, mainVars, lifeVars, srvVars, stateVars, lineVars,
     connVars
<1> QED
  BY <1>1, <1>2, <1>3, <1>4, <1>5, <1>6, <1>7, <1>8, <1>9, <1>10, <1>11,
     <1>12, <1>13, <1>14
  DEF Next, Handler, Lifecycle, Terminated

\* A client with an OK and an open connection holds its lease, unless the
\* restart of another connection of its client id was granted over it later.
THEOREM TrackedUnlessOvertakenHolds == Spec => []TrackedUnlessOvertaken
<1>1. Spec => []Tracked
  BY CoreInvariant, GrantInvariant, NoLeakedLeaseHolds, TrackedInit, TrackedNext,
     PTL DEF Spec
<1>2. Tracked => TrackedUnlessOvertaken
  BY DEF Tracked, TrackedUnlessOvertaken
<1> QED
  BY <1>1, <1>2, PTL

-----------------------------------------------------------------------------
(***************************************************************************)
(* Session implements VersionGate.                                         *)
(***************************************************************************)

\* What the mapping needs beyond Core and GrantInv: who has not finished has
\* no token, and the token in force is nobody's whose switch is not made.
GateInv ==
    /\ \A k \in Conns : pc[k] = "new" => want[k] = None
    /\ \A k \in Conns : tok[k] # None => pc[k] \in {"reply", "monitor", "done"}
    /\ \A k \in Conns :
        pc[k] \in {"connect", "send", "refused"} \/ (pc[k] = "wait" /\ life # "answer")
            => token # k

\* Initially no connection has asked or been answered.
LEMMA GateInvInit == Init => GateInv
  BY ConstAssumption DEF Init, GateInv

\* Every step of the session preserves GateInv.
LEMMA GateInvNext ==
    Core /\ Core' /\ GrantInv /\ GateInv /\ [Next]_vars => GateInv'
<1> SUFFICES ASSUME Core, Core', GrantInv, GateInv, [Next]_vars PROVE GateInv'
  OBVIOUS
<1> USE ConstAssumption
    DEF Core, LineRead, OneRestart, GrantInv, TokenKnown, GateInv, TypeOK,
        Servers, MainStates, LifeStates, SrvStates, NodeStates, PcStates, ConnStates,
        Replies, vars, mainVars, lifeVars, srvVars, stateVars, lineVars,
        connVars
<1>1. ASSUME NEW k \in Conns, NEW c \in Clients, NEW v \in Commits,
              HandleCtlConn(k, c, v)
      PROVE  GateInv'
  BY <1>1 DEF HandleCtlConn
<1>2. ASSUME NEW k \in Conns, HangUp(k)
      PROVE  GateInv'
  BY <1>2 DEF HangUp
<1>3. ASSUME NEW k \in Conns, ConnectGranted(k)
      PROVE  GateInv'
  BY <1>3 DEF ConnectGranted, CloseOwnAnd
<1>4. ASSUME NEW k \in Conns, ConnectMismatch(k)
      PROVE  GateInv'
  BY <1>4 DEF ConnectMismatch, WithoutOwn, CloseOwnAnd, Written
<1>5. ASSUME NEW k \in Conns, ConnectBusy(k)
      PROVE  GateInv'
  BY <1>5 DEF ConnectBusy, WithoutOwn, CloseOwnAnd, Written
<1>6. ASSUME NEW k \in Conns, ConnectRestart(k)
      PROVE  GateInv'
  BY <1>6 DEF ConnectRestart, WithoutOwn, CloseOwnAnd, RestartFree
<1>7. ASSUME NEW k \in Conns, RestartGranted(k)
      PROVE  GateInv'
  BY <1>7 DEF RestartGranted
<1>8. ASSUME NEW k \in Conns, RestartRefused(k)
      PROVE  GateInv'
  BY <1>8 DEF RestartRefused, Written
<1>9. ASSUME NEW k \in Conns, WriteOK(k)
      PROVE  GateInv'
  BY <1>9 DEF WriteOK, Written
<1>10. ASSUME NEW k \in Conns, MonitorLease(k)
      PROVE  GateInv'
  BY <1>10 DEF MonitorLease
<1>11. ASSUME NEW k \in Conns, TakeRequest(k)
      PROVE  GateInv'
  BY <1>11 DEF TakeRequest, TermGroups, TermShells
<1>12. ASSUME NEW k \in Conns, DoneWithPending(k)
      PROVE  GateInv'
  BY <1>12 DEF DoneWithPending
<1>13. CASE Publish
  BY <1>13 DEF Publish
<1>14. CASE Answer
  BY <1>14 DEF Answer
<1>15. CASE RestartFails
  BY <1>15 DEF RestartFails
<1>16. CASE Drained \/ DoneIdle \/ Provisioned \/ StartServer \/
              SocketReady \/ SocketTimeout
  BY <1>16 DEF Drained, DoneIdle, Provisioned, StartServer, SocketReady,
         SocketTimeout, TermGroups, TermShells
<1>17. ASSUME NEW s \in Servers,
              ServerBind(s) \/ NodeExits(s) \/ ShellExits(s) \/ Waited(s)
      PROVE  GateInv'
  BY <1>17 DEF ServerBind, NodeExits, ShellExits, Waited
<1>18. CASE MainDone \/ Exit \/ SignalForwarded \/ Die
  BY <1>18 DEF MainDone, Exit, ProcessEnds, TermShells, SignalForwarded, TermGroups, Die
<1>19. CASE UNCHANGED vars
  BY <1>19 DEF vars
<1> HIDE DEF Core, LineRead, OneRestart, GrantInv, TokenKnown, GateInv, TypeOK,
     Servers, MainStates, LifeStates, SrvStates, NodeStates, PcStates, ConnStates,
     Replies, mainVars, lifeVars, srvVars, stateVars, lineVars, connVars
<1> QED
  BY <1>1, <1>2, <1>3, <1>4, <1>5, <1>6, <1>7, <1>8, <1>9, <1>10, <1>11,
     <1>12, <1>13, <1>14, <1>15, <1>16, <1>17, <1>18, <1>19
  DEF Next, Handler, Lifecycle, Terminated

\* GateInv holds in every reachable state.
THEOREM GateInvariant == Spec => []GateInv
  BY CoreInvariant, GrantInvariant, GateInvInit, GateInvNext, PTL DEF Spec

-----------------------------------------------------------------------------

\* The holder of the switch is the one connection whose restart is under way.
LEMMA HolderIs ==
    ASSUME Core, NEW k \in Conns, InFlight(k)
    PROVE  SwitchHolder = k
<1>1. restartInProgress /\ \A j \in Conns : InFlight(j) => j = k
  BY DEF Core, OneRestart, InFlight
<1> QED
  BY <1>1 DEF SwitchHolder

\* Nobody holds it while no restart is under way.
LEMMA HolderNone ==
    ASSUME Core, \A k \in Conns : ~InFlight(k)
    PROVE  SwitchHolder = None
  BY DEF Core, OneRestart, InFlight, SwitchHolder

\* It stays where it is while no handler begins or ends a restart.
LEMMA HolderKept ==
    ASSUME Core, Core', \A k \in Conns : InFlight(k)' <=> InFlight(k)
    PROVE  SwitchHolder' = SwitchHolder
<1>1. CASE \E k \in Conns : InFlight(k)
  <2>1. PICK k \in Conns : InFlight(k)
    BY <1>1
  <2>2. SwitchHolder = k
    BY <2>1, HolderIs
  <2>3. \A j \in Conns : InFlight(j)' => j = k
    BY <2>1 DEF Core, OneRestart, InFlight
  <2>4. restartInProgress'
    BY <2>1 DEF Core, OneRestart, InFlight
  <2>5. SwitchHolder' = k
    BY <2>1, <2>3, <2>4 DEF SwitchHolder
  <2> QED
    BY <2>2, <2>5
<1>2. CASE \A k \in Conns : ~InFlight(k)
  <2>1. ~restartInProgress /\ ~restartInProgress'
    BY <1>2 DEF Core, OneRestart, InFlight
  <2> QED
    BY <2>1 DEF SwitchHolder
<1> QED
  BY <1>1, <1>2

\* The initial state of the session is one of the gate.
LEMMA GateInit == Init => Gate!Init
  BY DEF Init, Gate!Init, SwitchHolder

\* Every step of the session is a step of the gate or leaves it alone.
LEMMA GateNext ==
    Core /\ Core' /\ GrantInv /\ GateInv /\ [Next]_vars => [Gate!Next]_(Gate!vars)
<1> SUFFICES ASSUME Core, Core', GrantInv, GateInv, [Next]_vars
             PROVE  [Gate!Next]_(Gate!vars)
  OBVIOUS
<1> USE ConstAssumption
    DEF Core, TypeOK, LineRead, Servers, PcStates, InFlight,
        mainVars, lifeVars, srvVars, stateVars, lineVars, connVars
<1> DEFINE Quiet ==
        /\ UNCHANGED <<commit, token, want, tok>>
        /\ \A j \in Conns : InFlight(j)' <=> InFlight(j)
<1>0. ASSUME Quiet PROVE [Gate!Next]_(Gate!vars)
  BY <1>0, HolderKept DEF Gate!vars
<1>1. ASSUME NEW k \in Conns, NEW c \in Clients, NEW v \in Commits,
              HandleCtlConn(k, c, v)
      PROVE  [Gate!Next]_(Gate!vars)
  <2>1. SwitchHolder' = SwitchHolder
    BY <1>1, HolderKept DEF HandleCtlConn
  <2>2. Gate!Ask(k, v)
    BY <1>1, <2>1 DEF HandleCtlConn, GateInv, Gate!Ask
  <2> QED
    BY <2>2 DEF Gate!Next
<1>2. ASSUME NEW k \in Conns, ConnectGranted(k)
      PROVE  [Gate!Next]_(Gate!vars)
  <2>1. SwitchHolder' = SwitchHolder
    BY <1>2, HolderKept DEF ConnectGranted
  <2>2. Gate!Give(k)
    BY <1>2, <2>1 DEF ConnectGranted, GateInv, Gate!Give
  <2> QED
    BY <2>2 DEF Gate!Next
<1>3. ASSUME NEW k \in Conns, ConnectRestart(k)
      PROVE  [Gate!Next]_(Gate!vars)
  <2>1. \A j \in Conns : ~InFlight(j)
    BY <1>3 DEF ConnectRestart, RestartFree, OneRestart
  <2>2. SwitchHolder = None
    BY <2>1, HolderNone
  <2>3. restartInProgress' /\ \A j \in Conns : InFlight(j)' <=> j = k
    BY <1>3, <2>1 DEF ConnectRestart
  <2>4. SwitchHolder' = k
    BY <2>3 DEF SwitchHolder
  <2>5. Gate!Reserve(k)
    BY <1>3, <2>2, <2>4 DEF ConnectRestart, GateInv, Gate!Reserve
  <2> QED
    BY <2>5 DEF Gate!Next
<1>4. ASSUME NEW k \in Conns, RestartGranted(k)
      PROVE  [Gate!Next]_(Gate!vars)
  <2>1. SwitchHolder = k
    BY <1>4, HolderIs DEF RestartGranted
  <2>2. ~restartInProgress'
    BY <1>4 DEF RestartGranted
  <2>3. SwitchHolder' = None
    BY <2>2 DEF SwitchHolder
  <2>4. Gate!Finish
    BY <1>4, <2>1, <2>3 DEF RestartGranted, GrantInv, TokenKnown, Gate!Finish
  <2> QED
    BY <2>4 DEF Gate!Next
<1>5. ASSUME NEW k \in Conns, RestartRefused(k)
      PROVE  [Gate!Next]_(Gate!vars)
  <2>1. SwitchHolder = k
    BY <1>5, HolderIs DEF RestartRefused
  <2>2. ~restartInProgress'
    BY <1>5 DEF RestartRefused
  <2>3. SwitchHolder' = None
    BY <2>2 DEF SwitchHolder
  <2>4. Gate!Abandon
    BY <1>5, <2>1, <2>3 DEF RestartRefused, GateInv, Gate!Abandon
  <2> QED
    BY <2>4 DEF Gate!Next
<1>6. CASE Publish
  <2>1. req \in Conns /\ pc[req] = "wait"
    BY <1>6 DEF Publish, OneRestart
  <2>2. SwitchHolder = req
    BY <2>1, HolderIs
  <2>3. SwitchHolder' = SwitchHolder
    BY <1>6, HolderKept DEF Publish
  <2>4. token # req
    BY <1>6, <2>1 DEF Publish, GateInv
  <2>5. Gate!Switch
    BY <1>6, <2>1, <2>2, <2>3, <2>4 DEF Publish, Gate!Switch
  <2> QED
    BY <2>5 DEF Gate!Next
<1>7. ASSUME NEW k \in Conns,
              \/ HangUp(k) \/ ConnectMismatch(k) \/ ConnectBusy(k)
              \/ WriteOK(k) \/ MonitorLease(k)
              \/ TakeRequest(k) \/ DoneWithPending(k)
      PROVE  [Gate!Next]_(Gate!vars)
  BY <1>0, <1>7 DEF HangUp, ConnectMismatch, ConnectBusy, WriteOK, MonitorLease,
     TakeRequest, DoneWithPending
<1>8. CASE Drained \/ DoneIdle \/ Provisioned \/ StartServer \/ SocketReady \/ SocketTimeout
  BY <1>0, <1>8 DEF Drained, DoneIdle, Provisioned, StartServer, SocketReady, SocketTimeout
<1>9. CASE Answer \/ RestartFails
  <2>1. req \in Conns /\ pc[req] = "wait"
    BY <1>9 DEF Answer, RestartFails, OneRestart
  <2> QED
    BY <1>0, <1>9, <2>1 DEF Answer, RestartFails
<1>10. ASSUME NEW s \in Servers,
              ServerBind(s) \/ NodeExits(s) \/ ShellExits(s) \/ Waited(s)
      PROVE  [Gate!Next]_(Gate!vars)
  BY <1>0, <1>10 DEF ServerBind, NodeExits, ShellExits, Waited
<1>11. CASE MainDone \/ Exit \/ SignalForwarded \/ Die
  BY <1>0, <1>11 DEF MainDone, Exit, ProcessEnds, SignalForwarded, TermGroups, Die
<1>12. CASE UNCHANGED vars
  BY <1>0, <1>12 DEF vars
<1> HIDE DEF Core
<1> QED
  BY <1>1, <1>2, <1>3, <1>4, <1>5, <1>6, <1>7, <1>8, <1>9, <1>10, <1>11, <1>12
  DEF Next, Handler, Lifecycle, Terminated

\* The session implements the version gate.
THEOREM SessionImplementsGate == Spec => ImplementsGate
  BY CoreInvariant, GrantInvariant, GateInvariant, GateInit, GateNext,
     PTL DEF Spec, ImplementsGate, Gate!Spec


=============================================================================
