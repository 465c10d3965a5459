-------------------------- MODULE SocketDirProofs --------------------------
(***************************************************************************)
(* Proofs about module SocketDir, for any sets of processes of one name.   *)
(* The argument: a file at one of the two paths belongs to somebody who    *)
(* will remove it, or who was killed; and while starts, ends and cleans do *)
(* not overlap, who is about to remove or bind something has seen that     *)
(* nobody listens, which nobody can begin to do meanwhile.                 *)
(***************************************************************************)
EXTENDS SocketDir, TLAPS

\* A server is started once its run is past the removal of the data socket, and
\* is late only once its run has given up.
Placed ==
    /\ \A p \in Runs : pc[p] \in {"idle", "dial", "clearCtl", "clearData", "start", "refused"}
                         => server[p] = "none"
    /\ \A p \in Runs : pc[p] \in {"await", "listen", "serve"} => server[p] # "late"
    /\ \A c \in Cleans : ~Listening(c)

\* Whose files they are.
Owned ==
    /\ ctl # None => Listening(ctl) \/ pc[ctl] \in {"killed", "fatal", "inUse"}
    /\ data \in Runs => \/ data \in Late
                       \/ pc[data] \in {"await", "listen", "serve", "closing", "removeCtl",
                                        "removeData", "killed", "inUse"}
    /\ data \in Relays => pc[data] \in {"bridge", "killed"}

\* Past its look at the directory, a process is alone.
Alone ==
    \A q \in Procs :
        pc[q] \in {"clearCtl", "clearData", "start", "await", "giveUp", "listen",
                   "removeCtl", "removeData"} =>
            \A p \in Procs \ {q} : ~Listening(p)

\* What has been removed to be bound is free.
Free ==
    \A q \in Procs :
        /\ pc[q] \in {"clearData", "start", "await", "giveUp", "listen"} => ctl = None
        /\ pc[q] = "hostListen" => data \in {None} \cup Late
        /\ pc[q] = "inUse" => q \in Relays /\ Late # {}

\* A live session has its sockets, a starting one its data socket.
Kept ==
    /\ \A p \in Procs : Listening(p) => ctl = p
    /\ \A p \in Runs :
        /\ server[p] = "up" /\ pc[p] \in {"await", "listen", "serve"} => data = p
        /\ pc[p] \in {"start", "await", "giveUp", "listen", "serve"}
             => data \in {p, None} \cup Late
    /\ \A p \in Sessions : pc[p] = "bridge" => data = p

Calm == ~Overlap /\ Alone /\ Free /\ Kept

IInv == TypeOK /\ Placed /\ Owned /\ (calm => Calm)

-----------------------------------------------------------------------------
\* The types hold at first.
LEMMA TypeInit == Init => TypeOK
  BY DEF Init, TypeOK, Pcs, ServerStates

\* They are kept by every step.
LEMMA TypeNext == TypeOK /\ [Next]_vars => TypeOK'
<1> SUFFICES ASSUME TypeOK, [Next]_vars PROVE TypeOK'
  OBVIOUS
<1>0. calm' \in BOOLEAN
  <2>1. ASSUME NEW p \in Procs, Advance(p) \/ Die(p) PROVE calm' \in BOOLEAN
    BY <2>1 DEF TypeOK, Advance, Die, Goto, Run, Relay, Clean, RemoveCtl, RemoveData,
       CloseListener, RunStat, RunDial, RunClearCtl, RunClearData, RunStart, RunAwait, RunGiveUp,
       RunListen, RelayClearCtl, RelayClearData, RelayListen, HostListen,
       HostClosed, CleanGlob, CleanQuery
  <2> QED
    BY <2>1 DEF TypeOK, Next, Goto, RunRestart, RunDone, ServerBind, ServerExits, HostClear,
       HostReturns, Finished, vars
<1> DEFINE Rest == /\ ctl \in Sessions \cup {None} /\ data \in Sessions \cup {None}
                   /\ pc \in [Procs -> Pcs]
                   /\ server \in [Runs -> ServerStates]
<1> SUFFICES Rest'
  BY <1>0 DEF TypeOK
<1> USE DEF TypeOK, Pcs, Ends, ServerStates, Procs, Sessions, Goto, fileVars
<1>1. ASSUME NEW p \in Procs, RemoveCtl(p) \/ RemoveData(p) \/ CloseListener(p) PROVE Rest'
  BY <1>1 DEF RemoveCtl, RemoveData, CloseListener
<1>2. ASSUME NEW p \in Runs, Run(p) PROVE Rest'
  <2>1. CASE RunStat(p) \/ RunDial(p) \/ RunClearCtl(p) \/ RunClearData(p)
    BY <2>1 DEF RunStat, RunDial, RunClearCtl, RunClearData
  <2>2. CASE RunStart(p)
    BY <2>2 DEF RunStart
  <2>3. CASE RunAwait(p)
    BY <2>3 DEF RunAwait
  <2>4. CASE RunListen(p)
    BY <2>4 DEF RunListen
  <2>5. CASE RunGiveUp(p)
    BY <2>5 DEF RunGiveUp
  <2> QED
    BY <1>2, <2>1, <2>2, <2>3, <2>4, <2>5 DEF Run
<1>3. ASSUME NEW r \in Relays, Relay(r) \/ HostClear(r) \/ HostReturns(r) PROVE Rest'
  BY <1>3 DEF Relay, RelayClearCtl, RelayClearData, RelayListen, HostListen, HostClosed,
     HostClear, HostReturns
<1>4. ASSUME NEW c \in Cleans, Clean(c) PROVE Rest'
  BY <1>4 DEF Clean, CleanGlob, CleanQuery
<1>5. ASSUME NEW p \in Procs, Die(p) PROVE Rest'
  BY <1>5 DEF Die
<1>6. ASSUME NEW p \in Runs, RunRestart(p) \/ RunDone(p) \/ ServerBind(p) \/ ServerExits(p)
      PROVE Rest'
  BY <1>6 DEF RunRestart, RunDone, ServerBind, ServerExits
<1>7. CASE UNCHANGED vars
  BY <1>7 DEF vars
<1> QED
  BY <1>1, <1>2, <1>3, <1>4, <1>5, <1>6, <1>7 DEF Next, Advance, Finished

-----------------------------------------------------------------------------
\* calm only ends, and there is no overlap as long as it lasts.
LEMMA CalmStep ==
    ASSUME IInv, [Next]_vars, calm' PROVE calm /\ ~Overlap /\ ~Overlap'
<1>1. ASSUME NEW p \in Procs, NEW s, Goto(p, s) PROVE calm /\ ~Overlap'
  BY <1>1 DEF Goto
<1>2. ASSUME UNCHANGED <<pc, calm>> PROVE calm /\ (Overlap' <=> Overlap)
  BY <1>2 DEF Overlap, Moving, Listening
<1>3. (\E p \in Procs : \E s : Goto(p, s)) \/ UNCHANGED <<pc, calm>>
  <2>1. ASSUME NEW p \in Procs, Advance(p) \/ Die(p) PROVE \E s : Goto(p, s)
    BY <2>1 DEF Advance, Die, Run, Relay, Clean, RemoveCtl, RemoveData,
       CloseListener, RunStat, RunDial, RunClearCtl, RunClearData, RunStart, RunAwait, RunGiveUp,
       RunListen, RelayClearCtl, RelayClearData, RelayListen, HostListen,
       HostClosed, CleanGlob, CleanQuery
  <2>2. ASSUME NEW r \in Procs, HostClear(r) \/ HostReturns(r) \/ RunDone(r)
        PROVE \E s : Goto(r, s)
    BY <2>2 DEF HostClear, HostReturns, RunDone
  <2>3. ASSUME NEW p \in Runs, RunRestart(p) \/ ServerBind(p) \/ ServerExits(p)
        PROVE UNCHANGED <<pc, calm>>
    BY <2>3 DEF RunRestart, ServerBind, ServerExits
  <2> QED
    BY <2>1, <2>2, <2>3 DEF Next, Finished, vars, Procs
<1>4. calm => ~Overlap
  BY DEF IInv, Calm
<1> QED
  BY <1>1, <1>2, <1>3, <1>4

\* A run takes the steps of its start and its end.
LEMMA RunKeeps ==
    ASSUME IInv, NEW p \in Runs, Run(p) \/ RunDone(p), TypeOK', calm' => calm /\ ~Overlap /\ ~Overlap'
    PROVE  IInv'
<1> USE ConstAssumption DEF IInv, TypeOK, Calm, Goto, fileVars, Procs, Sessions
<1>1. Placed'
  <2> USE DEF Placed, Listening
  <2>1. CASE RunStat(p) \/ RunDial(p) \/ RunClearCtl(p) \/ RunClearData(p)
    BY <2>1 DEF RunStat, RunDial, RunClearCtl, RunClearData
  <2>2. CASE RunStart(p) \/ RunAwait(p) \/ RunGiveUp(p) \/ RunListen(p) \/ RunDone(p)
    BY <2>2 DEF RunStart, RunAwait, RunGiveUp, RunListen, RunDone
  <2> QED
    BY <2>1, <2>2 DEF Run
<1>2. Owned'
  <2> USE DEF Owned, Placed, Listening, Late
  <2>1. CASE RunStat(p) \/ RunDial(p) \/ RunClearCtl(p) \/ RunClearData(p)
    BY <2>1 DEF RunStat, RunDial, RunClearCtl, RunClearData
  <2>2. CASE RunStart(p) \/ RunAwait(p) \/ RunGiveUp(p) \/ RunListen(p) \/ RunDone(p)
    BY <2>2 DEF RunStart, RunAwait, RunGiveUp, RunListen, RunDone
  <2> QED
    BY <2>1, <2>2 DEF Run
<1>3. ASSUME calm' PROVE Alone' /\ Free' /\ Kept'
  <2> USE <1>3 DEF Alone, Free, Kept, Placed, Late, Listening
  <2>1. CASE RunStat(p)
    <3>1. ctl = None => \A q \in Procs : ~Listening(q)
      OBVIOUS
    <3> QED
      BY <2>1, <3>1 DEF RunStat
  <2>2. CASE RunDial(p)
    <3>1. ~CtlAnswers => \A q \in Procs : ~Listening(q)
      BY DEF CtlAnswers
    <3> QED
      BY <2>2, <3>1 DEF RunDial
  <2>3. CASE RunClearCtl(p)
    <3>1. \A q \in Procs : ~Listening(q) /\ ~Listening(q)'
      BY <2>3 DEF RunClearCtl
    <3> QED
      BY <2>3, <3>1 DEF RunClearCtl
  <2> DEFINE Solitary == \A q \in Procs \ {p} : ~Listening(q) /\ ~Moving(q)
  <2>a. pc[p] \in {"clearData", "start", "await", "giveUp", "listen"} => Solitary
    BY DEF Overlap, Moving
  <2>4. CASE RunClearData(p)
    BY <2>4, <2>a DEF RunClearData, Moving
  <2>5. CASE RunStart(p)
    <3>1. CASE Goto(p, "await") /\ server' = [server EXCEPT ![p] = "starting"]
      BY <2>5, <2>a, <3>1 DEF RunStart
    <3>2. CASE Goto(p, "failed") /\ UNCHANGED server
      BY <2>5, <2>a, <3>2 DEF RunStart
    <3> QED
      BY <2>5, <3>1, <3>2 DEF RunStart
  <2>6. CASE RunAwait(p)
    BY <2>6, <2>a DEF RunAwait, Moving
  <2>9. CASE RunGiveUp(p)
    BY <2>9, <2>a DEF RunGiveUp, Moving
  <2>7. CASE RunListen(p)
    <3>1. ctl = None /\ ctl' = p /\ Goto(p, "serve") /\ UNCHANGED <<server, data>>
      BY <2>7 DEF RunListen
    <3>2. Alone'
      BY <2>7, <3>1 DEF RunListen, Overlap, Moving
    <3>3. Free'
      BY <2>7, <3>1 DEF RunListen, Overlap, Moving
    <3> QED
      BY <2>7, <2>a, <3>1, <3>2, <3>3 DEF RunListen
  <2>8. CASE RunDone(p)
    BY <2>8 DEF RunDone
  <2> QED
    BY <2>1, <2>2, <2>3, <2>4, <2>5, <2>6, <2>7, <2>8, <2>9 DEF Run
<1> QED
  BY <1>1, <1>2, <1>3

\* So does a relay.
LEMMA RelayKeeps ==
    ASSUME IInv, NEW r \in Relays, Relay(r) \/ HostClear(r) \/ HostReturns(r),
           TypeOK', calm' => calm /\ ~Overlap /\ ~Overlap'
    PROVE  IInv'
<1> USE ConstAssumption DEF IInv, TypeOK, Calm, Goto, fileVars, Procs, Sessions
<1>1. Placed'
  BY DEF Placed, Listening, Relay, RelayClearCtl, RelayClearData, RelayListen, HostListen,
     HostClosed, HostClear, HostReturns
<1>2. Owned'
  BY DEF Owned, Placed, Listening, Late, Relay, RelayClearCtl, RelayClearData, RelayListen,
     HostListen, HostClosed, HostClear, HostReturns
<1>3. ASSUME calm' PROVE Alone' /\ Free' /\ Kept'
  <2> USE <1>3 DEF Alone, Free, Kept, Placed, Late, Listening
  <2> DEFINE Solitary == \A q \in Procs \ {r} : ~Moving(q) /\ ~Listening(q)
  <2>a. pc[r] = "listen" => Solitary
    BY DEF Overlap, Moving
  <2>b. Listening(r) => \A q \in Procs \ {r} :
                ~Listening(q) /\ pc[q] \notin {"clearCtl", "clearData", "start", "await", "giveUp",
                                              "listen", "removeCtl", "removeData"}
    OBVIOUS
  <2> USE DEF Overlap, Moving
  <2>1. CASE RelayClearCtl(r)
    BY <2>1 DEF RelayClearCtl
  <2>2. CASE RelayClearData(r)
    BY <2>2 DEF RelayClearData
  <2>3. CASE RelayListen(r)
    <3>1. ctl = None /\ ctl' = r /\ Goto(r, "serve") /\ UNCHANGED <<server, data>>
      BY <2>3 DEF RelayListen
    <3> QED
      BY <2>3, <2>a, <3>1 DEF RelayListen
  <2>4. CASE HostListen(r)
    <3>1. CASE data = None /\ data' = r /\ Goto(r, "bridge")
      BY <2>4, <2>b, <3>1 DEF HostListen
    <3>2. CASE data # None /\ Goto(r, "inUse") /\ UNCHANGED data
      <4>1. Late # {} /\ Late' = Late
        BY <2>4, <3>2 DEF HostListen
      <4> QED
        BY <2>4, <2>b, <3>2, <4>1 DEF HostListen
    <3> QED
      BY <2>4, <3>1, <3>2 DEF HostListen
  <2>5. CASE HostClosed(r)
    BY <2>5 DEF HostClosed
  <2>6. CASE HostClear(r)
    BY <2>6 DEF HostClear
  <2>7. CASE HostReturns(r)
    <3>1. PICK s \in {"hostClose", "hostCloseErr"} : pc' = [pc EXCEPT ![r] = s]
      BY <2>7 DEF HostReturns
    <3>2. data = r /\ data' = None /\ UNCHANGED <<ctl, server>> /\ pc[r] = "bridge"
      BY <2>7 DEF HostReturns
    <3>3. Alone' /\ Free'
      BY <2>b, <3>1, <3>2
    <3>4. Kept'
      BY <2>b, <3>1, <3>2
    <3> QED
      BY <3>3, <3>4
  <2> QED
    BY <2>1, <2>2, <2>3, <2>4, <2>5, <2>6, <2>7 DEF Relay
<1> QED
  BY <1>1, <1>2, <1>3

\* So do clean and the removals that everybody shares.
LEMMA RemovalKeeps ==
    ASSUME IInv, NEW p \in Procs,
           (p \in Cleans /\ Clean(p)) \/ RemoveCtl(p) \/ RemoveData(p) \/ CloseListener(p),
           TypeOK', calm' => calm /\ ~Overlap /\ ~Overlap'
    PROVE  IInv'
<1> USE ConstAssumption DEF IInv, TypeOK, Calm, Goto, fileVars, Procs, Sessions
<1>1. Placed'
  BY DEF Placed, Listening, Clean, CleanGlob, CleanQuery, RemoveCtl, RemoveData, CloseListener
<1>2. Owned'
  BY DEF Owned, Placed, Listening, Late, Clean, CleanGlob, CleanQuery, RemoveCtl, RemoveData,
     CloseListener
<1>3. ASSUME calm' PROVE Alone' /\ Free' /\ Kept'
  <2> USE <1>3 DEF Alone, Free, Kept, Placed, Late, Listening, Overlap, Moving
  <2>1. CASE p \in Cleans /\ CleanGlob(p)
    BY <2>1 DEF CleanGlob
  <2>2. CASE p \in Cleans /\ CleanQuery(p)
    BY <2>2 DEF CleanQuery, CtlAnswers
  <2>3. CASE RemoveCtl(p)
    BY <2>3 DEF RemoveCtl
  <2>4. CASE RemoveData(p)
    BY <2>4 DEF RemoveData
  <2>5. CASE CloseListener(p)
    BY <2>5 DEF CloseListener
  <2> QED
    BY <2>1, <2>2, <2>3, <2>4, <2>5 DEF Clean
<1> QED
  BY <1>1, <1>2, <1>3

\* A process that is killed leaves what it had.
LEMMA DieKeeps ==
    ASSUME IInv, NEW p \in Procs, Die(p), TypeOK', calm' => calm /\ ~Overlap /\ ~Overlap'
    PROVE  IInv'
<1> USE ConstAssumption DEF IInv, TypeOK, Calm, Goto, fileVars, Procs, Sessions, Die
<1>1. Placed'
  BY DEF Placed, Listening
<1>2. Owned'
  BY DEF Owned, Placed, Listening, Late
<1>3. ASSUME calm' PROVE Alone' /\ Free' /\ Kept'
  BY <1>3 DEF Alone, Free, Kept, Placed, Late, Listening, Overlap, Moving
<1> QED
  BY <1>1, <1>2, <1>3

\* Servers bind, exit and are replaced under a run.
LEMMA ServerKeeps ==
    ASSUME IInv, NEW p \in Runs, RunRestart(p) \/ ServerBind(p) \/ ServerExits(p),
           TypeOK', calm' => calm /\ ~Overlap /\ ~Overlap'
    PROVE  IInv'
<1> USE ConstAssumption DEF IInv, TypeOK, Calm, fileVars, Procs, Sessions,
    RunRestart, ServerBind, ServerExits
<1>1. Placed'
  BY DEF Placed, Listening
<1>2. Owned'
  BY DEF Owned, Placed, Listening, Late
<1>3. ASSUME calm' PROVE Alone' /\ Free' /\ Kept'
  <2> USE <1>3 DEF Alone, Free, Kept, Placed
  <2>1. CASE RunRestart(p)
    <3>1. Listening(p) /\ \A q \in Procs \ {p} : ~Listening(q)
      BY <2>1 DEF Listening
    <3>2. Late \subseteq Late'
      BY <2>1 DEF Late
    <3>3. Alone' /\ Free'
      BY <2>1, <3>2 DEF Listening
    <3>4. \A q \in Runs \ {p} :
              pc[q] \notin {"start", "await", "giveUp", "listen", "serve"}
      BY <3>1 DEF Listening
    <3>5. Kept'
      BY <2>1, <3>1, <3>4 DEF Listening
    <3> QED
      BY <3>3, <3>5
  <2>2. CASE ServerBind(p)
    <3>1. Late \subseteq Late'
      BY <2>2 DEF Late
    <3>2. CASE pc[p] \in {"await", "listen", "serve"}
      <4>1. \A q \in Runs \ {p} :
              pc[q] \notin {"start", "await", "giveUp", "listen", "serve"}
        BY <3>2 DEF Listening, Overlap, Moving
      <4>2. \A q \in Relays : ~Listening(q)
        BY <3>2 DEF Listening
      <4> QED
        BY <2>2, <3>1, <3>2, <4>1, <4>2 DEF Listening
    <3>3. CASE pc[p] \notin {"await", "listen", "serve"}
      <4>1. p \in Late'
        BY <2>2, <3>3 DEF Late
      <4> QED
        BY <2>2, <3>1, <3>3, <4>1 DEF Listening
    <3> QED
      BY <3>2, <3>3
  <2>3. CASE ServerExits(p)
    <3>1. Late' = Late
      BY <2>3 DEF Late
    <3> QED
      BY <2>3, <3>1 DEF Listening
  <2> QED
    BY <2>1, <2>2, <2>3
<1> QED
  BY <1>1, <1>2, <1>3

\* IInv is inductive.
LEMMA Invariant == Spec => []IInv
<1>1. Init => IInv
  BY TypeInit, ConstAssumption DEF Init, IInv, TypeOK, Placed, Owned, Calm, Overlap, Moving,
     Late, Listening, Alone, Free, Kept, Procs, Sessions
<1>2. IInv /\ [Next]_vars => IInv'
  <2> SUFFICES ASSUME IInv, [Next]_vars PROVE IInv'
    OBVIOUS
  <2>1. TypeOK' /\ (calm' => calm /\ ~Overlap /\ ~Overlap')
    BY TypeNext, CalmStep DEF IInv
  <2>2. ASSUME NEW p \in Procs, Advance(p) PROVE IInv'
    BY <2>1, <2>2, RunKeeps, RelayKeeps, RemovalKeeps DEF Advance
  <2>3. ASSUME NEW p \in Procs, Die(p) PROVE IInv'
    BY <2>1, <2>3, DieKeeps
  <2>4. ASSUME NEW p \in Runs, RunRestart(p) \/ RunDone(p) \/ ServerBind(p) \/ ServerExits(p)
        PROVE IInv'
    BY <2>1, <2>4, ServerKeeps, RunKeeps
  <2>5. ASSUME NEW r \in Relays, HostClear(r) \/ HostReturns(r) PROVE IInv'
    BY <2>1, <2>5, RelayKeeps
  <2>6. CASE UNCHANGED vars
    BY <2>6 DEF vars, fileVars, IInv, TypeOK, Placed, Owned, Calm, Overlap, Moving,
       Late, Listening, Alone, Free, Kept
  <2> QED
    BY <2>2, <2>3, <2>4, <2>5, <2>6 DEF Next, Finished
<1> QED
  BY <1>1, <1>2, PTL DEF Spec

-----------------------------------------------------------------------------
\* The two files and every process keep their types.
THEOREM TypesHold == Spec => []TypeOK
  BY Invariant, PTL DEF IInv

\* Live sessions keep their sockets while starts, ends and cleans of the name
\* do not overlap (service.go 103-114, 440-460).
THEOREM LiveKeepsSocketsHolds == Spec => []LiveKeepsSockets
<1>1. IInv => LiveKeepsSockets
  BY DEF IInv, TypeOK, Calm, Kept, LiveKeepsSockets, Procs, Sessions
<1> QED
  BY <1>1, Invariant, PTL

\* What a killed session left never blocks the next one (service.go 103-114).
THEOREM LeftoverNeverBlocksHolds == Spec => []LeftoverNeverBlocks
<1>1. IInv => LeftoverNeverBlocks
  BY DEF IInv, Calm, Free, LeftoverNeverBlocks
<1> QED
  BY <1>1, Invariant, PTL

\* A process that ends orderly leaves no file but that of a server that bound
\* after it was given up, whatever the others do (service.go 140, 152-161, 253,
\* main.go 411-418).
THEOREM NothingLeftHolds == Spec => []NothingLeft
<1>1. IInv => NothingLeft
  BY ConstAssumption DEF IInv, TypeOK, Owned, Listening, Late, NothingLeft, Procs, Sessions
<1> QED
  BY <1>1, Invariant, PTL

=============================================================================
