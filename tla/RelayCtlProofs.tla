-------------------------- MODULE RelayCtlProofs --------------------------
(***************************************************************************)
(* Proofs about module RelayCtl, for any sets of commits, connections and  *)
(* local commits. The argument: commitOnce lets one commit in, and every   *)
(* other variable that holds a commit, on either machine, holds that one   *)
(* or none; so each of the three later writes of relayCommit writes what   *)
(* is there already, and every check compares with the same commit.        *)
(***************************************************************************)
EXTENDS RelayNegotiation, TLAPS

\* A handler past the first step has read a commit, and has not answered
\* before its check.
LineRead ==
    \A k \in Conns :
        /\ pc[k] # "new" => want[k] \in Commits
        /\ pc[k] = "new" => want[k] = None
        /\ pc[k] \in {"new", "once", "send", "check"} => reply[k] = "none"

\* Nothing but the established commit travels.
OneCommit ==
    /\ once = "free" <=> relayCommit = None
    /\ commitCh \in {None, relayCommit} /\ clientCommit \in {None, relayCommit}
    /\ stdin \in {None, relayCommit} /\ stdout \in {None, relayCommit}
    /\ local = None => remCommit \in {None, relayCommit}
    /\ remote = "ack" => local = None
    /\ main = "set" => clientCommit # None

\* Handlers that are past commitOnce know it, and grant nothing else.
Agreed ==
    \A k \in Conns :
        /\ pc[k] \in {"send", "check"} => relayCommit # None
        /\ pc[k] = "send" => want[k] = relayCommit
        /\ reply[k] = "ok" => want[k] = relayCommit /\ relayCommit # None

IInv == TypeOK /\ LineRead /\ OneCommit /\ Agreed

-----------------------------------------------------------------------------
\* Types hold at first and are kept by every step.
LEMMA TypeInit == Init => TypeOK
  BY ConstAssumption DEF Init, TypeOK, MaybeCommits

LEMMA TypeNext == TypeOK /\ [Next]_vars => TypeOK'
<1> SUFFICES ASSUME TypeOK, [Next]_vars PROVE TypeOK'
  OBVIOUS
<1> USE ConstAssumption
    DEF TypeOK, MaybeCommits, ctlVars, mainVars, pipeVars, remoteVars, connVars
<1>1. ASSUME NEW k \in Conns, NEW v \in Commits, HandleRelayCtlConn(k, v) PROVE TypeOK'
  BY <1>1 DEF HandleRelayCtlConn
<1>2. ASSUME NEW k \in Conns, HangUp(k) PROVE TypeOK'
  BY <1>2 DEF HangUp
<1>3. ASSUME NEW k \in Conns, Handler(k) PROVE TypeOK'
  <2>1. CASE OnceRuns(k)
    BY <2>1 DEF OnceRuns
  <2>2. CASE SendCommit(k)
    BY <2>2 DEF SendCommit
  <2>3. CASE OncePasses(k)
    BY <2>3 DEF OncePasses
  <2>4. CASE CheckRejects(k)
    BY <2>4 DEF CheckRejects, Written
  <2>5. CASE CheckGrants(k)
    BY <2>5 DEF CheckGrants, Written
  <2>6. CASE LeaseEnds(k)
    BY <2>6 DEF LeaseEnds
  <2> QED
    BY <1>3, <2>1, <2>2, <2>3, <2>4, <2>5, <2>6 DEF Handler
<1>4. ASSUME Main PROVE TypeOK'
  BY <1>4 DEF Main, TakeCommit, SetCommit, Listen, WriteInit, ReadAck, RemoteGone, Ends
<1>5. CASE RelayDies
  BY <1>5 DEF RelayDies, Ends
<1>6. ASSUME Remote PROVE TypeOK'
  BY <1>6 DEF Remote, RemoteResolvesLocally, RemoteReadsInit, RemoteProvisions,
     RemoteStarts, SocketReady, SocketTimeout, RemoteAcks, AckFails,
     RemoteDiscardsInit, RemoteSeesEOF, RemoteWaited
<1>7. CASE RemoteDies \/ ServerBinds \/ ServerExits
  BY <1>7 DEF RemoteDies, ServerBinds, ServerExits
<1>8. CASE UNCHANGED vars
  BY <1>8 DEF vars
<1> QED
  BY <1>1, <1>2, <1>3, <1>4, <1>5, <1>6, <1>7, <1>8 DEF Next, Waiting, Terminated

\* The control flow of a handler keeps what its line said.
LEMMA LineReadNext == TypeOK /\ LineRead /\ [Next]_vars => LineRead'
<1> SUFFICES ASSUME TypeOK, LineRead, [Next]_vars PROVE LineRead'
  OBVIOUS
<1> USE DEF TypeOK, LineRead, ctlVars, mainVars, pipeVars, remoteVars, connVars
<1>1. ASSUME NEW k \in Conns, NEW v \in Commits, HandleRelayCtlConn(k, v) PROVE LineRead'
  BY <1>1 DEF HandleRelayCtlConn
<1>2. ASSUME NEW k \in Conns, Handler(k) PROVE LineRead'
  BY <1>2 DEF Handler, OnceRuns, SendCommit, OncePasses, CheckRejects, CheckGrants,
     LeaseEnds, Written
<1>3. CASE UNCHANGED <<pc, want, reply>>
  BY <1>3
<1>4. (\E k \in Conns : HangUp(k)) \/ Main \/ RelayDies \/ Remote \/ RemoteDies
      \/ ServerBinds \/ ServerExits \/ UNCHANGED vars => UNCHANGED <<pc, want, reply>>
  BY DEF HangUp, Main, TakeCommit, SetCommit, Listen, WriteInit, ReadAck, RemoteGone,
     Ends, RelayDies, Remote, RemoteResolvesLocally, RemoteReadsInit, RemoteProvisions,
     RemoteStarts, SocketReady, SocketTimeout, RemoteAcks, AckFails, RemoteDiscardsInit,
     RemoteSeesEOF, RemoteWaited, RemoteDies, ServerBinds, ServerExits, vars
<1> QED
  BY <1>1, <1>2, <1>3, <1>4 DEF Next, Waiting, Terminated

\* Of all writes of relayCommit only the one under commitOnce changes it.
LEMMA OnceWrites ==
    ASSUME TypeOK, OneCommit, [Next]_vars,
           \A k \in Conns : ~OnceRuns(k)
    PROVE  relayCommit' = relayCommit
<1> USE DEF TypeOK, OneCommit, ctlVars, mainVars, pipeVars, remoteVars, connVars
<1>1. ASSUME NEW k \in Conns, Handler(k) PROVE relayCommit' = relayCommit
  BY <1>1 DEF Handler, SendCommit, OncePasses, CheckRejects, CheckGrants, LeaseEnds
<1>2. CASE SetCommit
  BY <1>2 DEF SetCommit
<1>3. CASE ReadAck
  BY <1>3 DEF ReadAck
<1>4. CASE Main /\ ~SetCommit /\ ~ReadAck
  BY <1>4 DEF Main, TakeCommit, Listen, WriteInit, RemoteGone
<1>5. CASE Remote
  BY <1>5 DEF Remote, RemoteResolvesLocally, RemoteReadsInit, RemoteProvisions,
     RemoteStarts, SocketReady, SocketTimeout, RemoteAcks, AckFails,
     RemoteDiscardsInit, RemoteSeesEOF, RemoteWaited
<1> QED
  BY <1>1, <1>2, <1>3, <1>4, <1>5 DEF Next, HandleRelayCtlConn, HangUp, RelayDies,
     RemoteDies, ServerBinds, ServerExits, Waiting, Terminated, vars

\* The first CONNECT establishes the commit, and everything agrees with it.
LEMMA OnceRunsKeeps ==
    ASSUME IInv, NEW k \in Conns, OnceRuns(k)
    PROVE  OneCommit' /\ Agreed'
  BY ConstAssumption DEF IInv, TypeOK, LineRead, OneCommit, Agreed, OnceRuns,
     ctlVars, mainVars, pipeVars, remoteVars, connVars, MaybeCommits

\* The other steps pass the commit on.
LEMMA OneCommitNext == IInv /\ [Next]_vars => OneCommit'
<1> SUFFICES ASSUME IInv, [Next]_vars PROVE OneCommit'
  OBVIOUS
<1>1. CASE \E k \in Conns : OnceRuns(k)
  BY <1>1, OnceRunsKeeps
<1>2. CASE \A k \in Conns : ~OnceRuns(k)
  <2>1. relayCommit' = relayCommit
    BY <1>2, OnceWrites DEF IInv
  <2> USE <2>1, ConstAssumption DEF IInv, TypeOK, LineRead, OneCommit, Agreed,
      ctlVars, mainVars, pipeVars, remoteVars, connVars, MaybeCommits
  <2>2. ASSUME NEW k \in Conns, Handler(k) PROVE OneCommit'
    BY <1>2, <2>2 DEF Handler, SendCommit, OncePasses, CheckRejects, CheckGrants, LeaseEnds
  <2>3. CASE Main
    BY <2>3 DEF Main, TakeCommit, SetCommit, Listen, WriteInit, ReadAck, RemoteGone, Ends
  <2>4. CASE RelayDies
    BY <2>4 DEF RelayDies, Ends
  <2>5. CASE Remote
    BY <2>5 DEF Remote, RemoteResolvesLocally, RemoteReadsInit, RemoteProvisions,
       RemoteStarts, SocketReady, SocketTimeout, RemoteAcks, AckFails,
       RemoteDiscardsInit, RemoteSeesEOF, RemoteWaited
  <2>6. CASE RemoteDies \/ ServerBinds \/ ServerExits
    BY <2>6 DEF RemoteDies, ServerBinds, ServerExits
  <2>7. ASSUME NEW k \in Conns, NEW v \in Commits, HandleRelayCtlConn(k, v) \/ HangUp(k)
        PROVE OneCommit'
    BY <2>7 DEF HandleRelayCtlConn, HangUp
  <2>8. CASE UNCHANGED vars
    BY <2>8 DEF vars
  <2> QED
    <3>1. ASSUME NEW k \in Conns, HangUp(k) PROVE OneCommit'
      BY <3>1 DEF HangUp
    <3> QED
      BY <2>2, <2>3, <2>4, <2>5, <2>6, <2>7, <2>8, <3>1 DEF Next, Waiting, Terminated
<1> QED
  BY <1>1, <1>2

\* Every grant compares with it.
LEMMA AgreedNext == IInv /\ [Next]_vars => Agreed'
<1> SUFFICES ASSUME IInv, [Next]_vars PROVE Agreed'
  OBVIOUS
<1>1. CASE \E k \in Conns : OnceRuns(k)
  BY <1>1, OnceRunsKeeps
<1>2. CASE \A k \in Conns : ~OnceRuns(k)
  <2>1. relayCommit' = relayCommit
    BY <1>2, OnceWrites DEF IInv
  <2>2. ASSUME NEW k \in Conns, Handler(k) PROVE Agreed'
    <3> USE <2>1, ConstAssumption DEF IInv, TypeOK, LineRead, Agreed, connVars, MaybeCommits
    <3>1. CASE SendCommit(k)
      BY <3>1 DEF SendCommit
    <3>2. CASE OncePasses(k)
      <4>1. relayCommit # None
        BY <3>2 DEF OncePasses, IInv, OneCommit
      <4> QED
        BY <3>2, <4>1 DEF OncePasses
    <3>3. CASE CheckRejects(k)
      BY <3>3 DEF CheckRejects, Written
    <3>4. CASE CheckGrants(k)
      BY <3>4 DEF CheckGrants, Rejects, Written
    <3>5. CASE LeaseEnds(k)
      BY <3>5 DEF LeaseEnds
    <3> QED
      BY <1>2, <2>2, <3>1, <3>2, <3>3, <3>4, <3>5 DEF Handler
  <2>3. ASSUME NEW k \in Conns, NEW v \in Commits, HandleRelayCtlConn(k, v) PROVE Agreed'
    BY <2>1, <2>3 DEF HandleRelayCtlConn, IInv, TypeOK, LineRead, Agreed
  <2>4. CASE UNCHANGED <<pc, want, reply>>
    BY <2>1, <2>4 DEF IInv, Agreed
  <2>5. (\E k \in Conns : HangUp(k)) \/ Main \/ RelayDies \/ Remote \/ RemoteDies
        \/ ServerBinds \/ ServerExits \/ UNCHANGED vars => UNCHANGED <<pc, want, reply>>
    BY DEF HangUp, Main, TakeCommit, SetCommit, Listen, WriteInit, ReadAck, RemoteGone,
       Ends, RelayDies, Remote, RemoteResolvesLocally, RemoteReadsInit, RemoteProvisions,
       RemoteStarts, SocketReady, SocketTimeout, RemoteAcks, AckFails, RemoteDiscardsInit,
       RemoteSeesEOF, RemoteWaited, RemoteDies, ServerBinds, ServerExits, vars, connVars,
       mainVars, ctlVars, pipeVars, remoteVars
  <2> QED
    BY <2>2, <2>3, <2>4, <2>5 DEF Next, Waiting, Terminated
<1> QED
  BY <1>1, <1>2

\* IInv is inductive.
LEMMA Invariant == Spec => []IInv
<1>1. Init => IInv
  BY TypeInit, ConstAssumption DEF Init, IInv, LineRead, OneCommit, Agreed
<1>2. IInv /\ [Next]_vars => IInv'
  BY TypeNext, LineReadNext, OneCommitNext, AgreedNext DEF IInv
<1> QED
  BY <1>1, <1>2, PTL DEF Spec

-----------------------------------------------------------------------------
\* The relay's and the remote command's variables keep their types, for any
\* constants.
THEOREM TypesHold == Spec => []TypeOK
  BY Invariant, PTL DEF IInv

\* Clients whose CONNECTs race for commitOnce are granted one version
\* (main.go 519-535).
THEOREM GrantsAgreeHolds == Spec => []GrantsAgree
<1>1. IInv => GrantsAgree
  BY DEF IInv, Agreed, GrantsAgree
<1> QED
  BY <1>1, Invariant, PTL

\* The remote command runs the version that was granted (service.go 520-528).
THEOREM NegotiatedVersionHolds == Spec => []NegotiatedVersion
<1>1. IInv => NegotiatedVersion
  BY DEF IInv, OneCommit, Agreed, NegotiatedVersion
<1> QED
  BY <1>1, Invariant, PTL

\* The version a relay reports is never written over (main.go 449-457).
THEOREM CommitSettledHolds == Spec => CommitSettled
<1>1. IInv /\ [Next]_vars => [relayCommit # None => relayCommit' = relayCommit]_vars
  <2> SUFFICES ASSUME IInv, [Next]_vars, relayCommit # None PROVE relayCommit' = relayCommit
    OBVIOUS
  <2>1. \A k \in Conns : ~OnceRuns(k)
    BY DEF IInv, OneCommit, OnceRuns
  <2> QED
    BY <2>1, OnceWrites DEF IInv
<1> QED
  BY <1>1, Invariant, PTL DEF Spec, CommitSettled

-----------------------------------------------------------------------------
(***************************************************************************)
(* The part of ConnectAnswered that is not liveness: whoever waits for     *)
(* commitOnce waits for a handler that can go on.                          *)
(***************************************************************************)

\* A handler runs commitOnce's function exactly while it is about to send,
\* and the slot it sends to is only filled by it.
Holder ==
    /\ once = "running" => \E k \in Conns : pc[k] = "send"
    /\ \A j, k \in Conns : pc[j] = "send" /\ pc[k] = "send" => j = k
    /\ \A k \in Conns : pc[k] = "send" => once = "running"
    /\ once # "done" => commitCh = None

\* Whatever the clients, relayCmd and the remote command do.
LEMMA HolderNext == IInv /\ Holder /\ [Next]_vars => Holder'
<1> SUFFICES ASSUME IInv, Holder, [Next]_vars PROVE Holder'
  OBVIOUS
<1> USE DEF IInv, TypeOK, Holder, ctlVars, mainVars, pipeVars, remoteVars, connVars
<1>1. ASSUME NEW k \in Conns, OnceRuns(k) PROVE Holder'
  BY <1>1 DEF OnceRuns
<1>2. ASSUME NEW k \in Conns, SendCommit(k) PROVE Holder'
  BY <1>2 DEF SendCommit
<1>3. ASSUME NEW k \in Conns,
             \/ OncePasses(k) \/ CheckRejects(k) \/ CheckGrants(k) \/ LeaseEnds(k)
             \/ \E v \in Commits : HandleRelayCtlConn(k, v)
      PROVE  Holder'
  BY <1>3 DEF OncePasses, CheckRejects, CheckGrants, LeaseEnds, HandleRelayCtlConn
<1>4. CASE TakeCommit
  BY <1>4 DEF TakeCommit
<1>5. (\E k \in Conns : HangUp(k)) \/ (Main /\ ~TakeCommit) \/ RelayDies \/ Remote
      \/ RemoteDies \/ ServerBinds \/ ServerExits \/ UNCHANGED vars
      => UNCHANGED <<once, commitCh, pc>>
  BY DEF HangUp, Main, SetCommit, Listen, WriteInit, ReadAck, RemoteGone,
     Ends, RelayDies, Remote, RemoteResolvesLocally, RemoteReadsInit, RemoteProvisions,
     RemoteStarts, SocketReady, SocketTimeout, RemoteAcks, AckFails, RemoteDiscardsInit,
     RemoteSeesEOF, RemoteWaited, RemoteDies, ServerBinds, ServerExits, vars
<1>6. CASE UNCHANGED <<once, commitCh, pc>>
  BY <1>6
<1> QED
  BY <1>1, <1>2, <1>3, <1>4, <1>5, <1>6 DEF Next, Handler, Waiting, Terminated

\* A handler that waits for commitOnce waits for one whose send finds the
\* slot of commitCh free: the handlers cannot all wait for each other, even
\* when relayCmd has long taken its commit or has died of something else
\* (main.go 421, 519-525).
OnceHolderCanSend ==
    \A k \in Conns :
        pc[k] = "once" /\ once = "running" =>
            \E j \in Conns : pc[j] = "send" /\ commitCh = None

\* For any number of handlers (main.go 519-525).
THEOREM OnceHolderCanSendHolds == Spec => []OnceHolderCanSend
<1>1. Init => Holder
  BY DEF Init, Holder
<1>2. Holder => OnceHolderCanSend
  BY DEF Holder, OnceHolderCanSend
<1> QED
  BY <1>1, <1>2, HolderNext, Invariant, PTL DEF Spec

-----------------------------------------------------------------------------
(***************************************************************************)
(* The refinement of module Negotiation, one step of RelayCtl at a time.   *)
(***************************************************************************)

\* Handlers of the first CONNECT and of those that wait for it.
LEMMA HandlersNegotiate ==
    ASSUME IInv, NEW k \in Conns,
           Handler(k) \/ HangUp(k) \/ \E v \in Commits : HandleRelayCtlConn(k, v)
    PROVE  [Negotiated!Next]_(Negotiated!vars)
<1> USE ConstAssumption DEF IInv, TypeOK, LineRead, Agreed, Taken, MaybeCommits,
    ctlVars, mainVars, pipeVars, remoteVars, connVars, Negotiated!vars
<1>1. ASSUME NEW v \in Commits, HandleRelayCtlConn(k, v) PROVE Negotiated!Ask(k, v)
  BY <1>1 DEF HandleRelayCtlConn, Negotiated!Ask
<1>2. ASSUME OnceRuns(k) PROVE Negotiated!Choose(k)
  <2>1. relayCommit = None
    BY <1>2 DEF OnceRuns, OneCommit
  <2> QED
    BY <1>2, <2>1 DEF OnceRuns, Negotiated!Choose
<1>3. ASSUME SendCommit(k) \/ OncePasses(k) \/ LeaseEnds(k) \/ HangUp(k)
      PROVE UNCHANGED Negotiated!vars
  BY <1>3 DEF SendCommit, OncePasses, LeaseEnds, HangUp
<1>4. ASSUME CheckRejects(k) PROVE Negotiated!Refuse(k) \/ UNCHANGED Negotiated!vars
  <2>1. CASE conn[k] = "open"
    BY <1>4, <2>1 DEF CheckRejects, Rejects, Written, Negotiated!Refuse
  <2>2. CASE conn[k] # "open"
    BY <1>4, <2>2 DEF CheckRejects, Written
  <2> QED
    BY <2>1, <2>2
<1>5. ASSUME CheckGrants(k) PROVE Negotiated!Grant(k) \/ UNCHANGED Negotiated!vars
  <2>1. CASE conn[k] = "open"
    BY <1>5, <2>1 DEF CheckGrants, Rejects, Written, Negotiated!Grant
  <2>2. CASE conn[k] # "open"
    BY <1>5, <2>2 DEF CheckGrants, Written
  <2> QED
    BY <2>1, <2>2
<1> QED
  BY <1>1, <1>2, <1>3, <1>4, <1>5 DEF Handler, Negotiated!Next

\* The remote command takes the version when it reads the init frame; no
\* other step of it, of relayCmd or of the server is visible.
LEMMA OthersNegotiate ==
    ASSUME IInv,
           Main \/ RelayDies \/ Remote \/ RemoteDies \/ ServerBinds \/ ServerExits
    PROVE  [Negotiated!Next]_(Negotiated!vars)
<1> USE DEF ctlVars, mainVars, pipeVars, remoteVars, connVars, Negotiated!vars, Taken
<1>1. ASSUME RemoteReadsInit PROVE Negotiated!Take \/ UNCHANGED Negotiated!vars
  <2>1. remCommit' = relayCommit /\ relayCommit # None /\ local = None
    BY <1>1 DEF RemoteReadsInit, IInv, OneCommit
  <2>2. remCommit \in {None, relayCommit}
    BY <2>1 DEF IInv, OneCommit
  <2> QED
    BY <1>1, <2>1, <2>2 DEF RemoteReadsInit, Negotiated!Take
<1>2. ASSUME RemoteResolvesLocally PROVE UNCHANGED Negotiated!vars
  BY <1>2 DEF RemoteResolvesLocally
<1>3. ASSUME Remote, ~RemoteReadsInit, ~RemoteResolvesLocally
      PROVE UNCHANGED Negotiated!vars
  BY <1>3 DEF Remote, RemoteProvisions, RemoteStarts, SocketReady, SocketTimeout,
     RemoteAcks, AckFails, RemoteDiscardsInit, RemoteSeesEOF, RemoteWaited
<1>4. ASSUME RemoteDies \/ ServerBinds \/ ServerExits PROVE UNCHANGED Negotiated!vars
  BY <1>4 DEF RemoteDies, ServerBinds, ServerExits
<1>5. ASSUME Main \/ RelayDies PROVE UNCHANGED Negotiated!vars
  <2>1. CASE SetCommit
    BY <2>1 DEF SetCommit, IInv, OneCommit
  <2>2. CASE ReadAck
    BY <2>2 DEF ReadAck, IInv, OneCommit
  <2>3. CASE TakeCommit \/ Listen \/ WriteInit \/ RemoteGone \/ RelayDies
    BY <2>3 DEF TakeCommit, Listen, WriteInit, RemoteGone, RelayDies, Ends
  <2> QED
    BY <1>5, <2>1, <2>2, <2>3 DEF Main
<1> QED
  BY <1>1, <1>2, <1>3, <1>4, <1>5 DEF Negotiated!Next

\* The race for commitOnce, the handshake and the remote command implement the
\* abstract negotiation: one version, granted to all who ask for it, refused
\* to all others, and taken over by the remote command (main.go 510-546,
\* host.go 72-88, service.go 516-531).
THEOREM RelayCtlImplementsNegotiation == Spec => ImplementsNegotiation
<1>1. Init => Negotiated!Init
  BY DEF Init, Negotiated!Init, Taken
<1>2. IInv /\ [Next]_vars => [Negotiated!Next]_(Negotiated!vars)
  <2> SUFFICES ASSUME IInv, [Next]_vars PROVE [Negotiated!Next]_(Negotiated!vars)
    OBVIOUS
  <2>1. CASE UNCHANGED vars
    BY <2>1 DEF vars, ctlVars, remoteVars, connVars, Negotiated!vars, Taken
  <2> QED
    BY <2>1, HandlersNegotiate, OthersNegotiate DEF Next, Waiting, Terminated
<1> QED
  BY <1>1, <1>2, Invariant, PTL DEF Spec, ImplementsNegotiation, Negotiated!Spec

=============================================================================
