------------------------- MODULE RelayStreamProofs -------------------------
(***************************************************************************)
(* Relay implements a Stream per connection, for any number of connections *)
(* and chunks and any capacity of the pipe. RelayProofs has the order of   *)
(* chunks; what is added here is the end of a connection. The argument:    *)
(* while the transport holds, whatever closes on behalf of an end that is  *)
(* still there follows from the close of the other one, after its last     *)
(* chunk; a CLOSE is behind that chunk in the pipe, so that it is given    *)
(* first, or the two ends have closed on each other.                       *)
(***************************************************************************)
EXTENDS RelayStreams, RelayProofs

-----------------------------------------------------------------------------
(***************************************************************************)
(* The strengthening.                                                      *)
(***************************************************************************)

\* No chunk of i is behind its CLOSE.
CloseLast(p, i) ==
    \A k, l \in 1 .. Len(p) :
        k < l /\ p[k].type = "close" /\ p[k].id = i => ~IsData(p, l, i)
NoData(p, i) == \A k \in 1 .. Len(p) : ~IsData(p, k, i)

\* A connection that one side has not got to yet has nothing there, and one
\* that is served has a descriptor.
Fresh ==
    \A i \in Ids :
        /\ hostRd[i] # "none" => cli[i] # "none" /\ hostFd[i] # "none"
        /\ srv[i] = "none" => contFd[i] = "none" /\ srvSent[i] = 0
        /\ contRd[i] # "none" \/ srv[i] = "open" => contFd[i] # "none"

\* After its CLOSE nothing more is read for a connection.
ClosedLast ==
    \A i \in Ids :
        /\ CloseLast(down, i) /\ CloseLast(up, i)
        /\ Has(down, "close", i) => hostRd[i] \in {"closing", "done"}
        /\ Has(up, "close", i) => contRd[i] # "reading" \/ contFd[i] # "open"

\* An entry of a map is open.
EntryOpen ==
    link = "up" =>
        /\ \A i \in hostConns : hostFd[i] = "open"
        /\ \A i \in contConns : contFd[i] = "open"

\* Something of i is about to close, or has closed.
CliGone(i) == hostFd[i] = "closed" \/ hostRd[i] \in {"closing", "done"}
SrvGone(i) == contFd[i] = "closed" \/ contRd[i] \in {"closing", "done"}
Ending(i) == CliGone(i) \/ SrvGone(i) \/ Has(down, "close", i) \/ Has(up, "close", i)

\* One end closed on chunks it was not given.
CliCrossed(i) == Len(cliGot[i]) < srvSent[i]
SrvCrossed(i) == Len(srvGot[i]) < cliSent[i]

\* It follows from an end that closed and whose last chunk is on its way.
EndedFirst ==
    link = "up" =>
        \A i \in Ids : Ending(i) =>
            /\ srv[i] # "closed" => cli[i] = "closed" /\ (cliBuf[i] = <<>> \/ CliCrossed(i))
            /\ cli[i] # "closed" => srv[i] = "closed" /\ (srvBuf[i] = <<>> \/ SrvCrossed(i))

\* Who sees the end has been given that chunk.
SeenWhole ==
    link = "up" =>
        \A i \in Ids :
            /\ srv[i] # "closed" /\ SrvGone(i) => Len(srvGot[i]) = cliSent[i] \/ CliCrossed(i)
            /\ cli[i] # "closed" /\ CliGone(i) => Len(cliGot[i]) = srvSent[i] \/ SrvCrossed(i)

EndInv == Fresh /\ ClosedLast /\ EntryOpen /\ EndedFirst /\ SeenWhole

-----------------------------------------------------------------------------
(***************************************************************************)
(* CLOSE frames in a pipe.                                                 *)
(***************************************************************************)

\* The first frame is read.
LEMMA PopLast ==
    ASSUME NEW p \in Seq(Frames), p # <<>>, NEW i \in Ids, CloseLast(p, i)
    PROVE  /\ CloseLast(Tail(p), i)
           /\ Head(p).type = "close" /\ Head(p).id = i => NoData(p, i)
<1>1. Len(p) \in Nat \ {0} /\ Len(Tail(p)) = Len(p) - 1 /\ Head(p) = p[1]
      /\ \A k \in 1 .. Len(p) - 1 : Tail(p)[k] = p[k + 1]
  OBVIOUS
<1>2. ASSUME NEW k \in 1 .. Len(p) - 1, NEW l \in 1 .. Len(p) - 1, k < l,
             Tail(p)[k].type = "close" /\ Tail(p)[k].id = i, IsData(Tail(p), l, i)
      PROVE  FALSE
  <2>1. k + 1 \in 1 .. Len(p) /\ l + 1 \in 1 .. Len(p) /\ k + 1 < l + 1
    BY <1>1, <1>2
  <2>2. Tail(p)[k] = p[k + 1] /\ Tail(p)[l] = p[l + 1]
    BY <1>1
  <2> QED
    BY <1>2, <2>1, <2>2 DEF CloseLast, IsData
<1>3. ASSUME p[1].type = "close" /\ p[1].id = i, NEW l \in 1 .. Len(p) PROVE ~IsData(p, l, i)
  <2>1. CASE l = 1
    BY <1>3, <2>1 DEF IsData
  <2>2. CASE l # 1
    BY <1>1, <1>3, <2>2 DEF CloseLast
  <2> QED
    BY <2>1, <2>2
<1> QED
  BY <1>1, <1>2, <1>3 DEF CloseLast, NoData

\* A frame is written.
LEMMA PushLast ==
    ASSUME NEW p \in Seq(Frames), NEW f \in Frames, NEW i \in Ids, CloseLast(p, i),
           f.type = "data" /\ f.id = i => ~Has(p, "close", i)
    PROVE  CloseLast(Append(p, f), i)
<1> DEFINE q == Append(p, f)
           z == Len(p) + 1
<1>1. Len(p) \in Nat /\ Len(q) = z /\ q[z] = f /\ \A k \in 1 .. Len(p) : q[k] = p[k]
  OBVIOUS
<1>2. \A k \in 1 .. z : k = z \/ k \in 1 .. Len(p)
  BY <1>1
<1> HIDE DEF q
<1> SUFFICES ASSUME NEW k \in 1 .. z, NEW l \in 1 .. z, k < l,
                    q[k].type = "close" /\ q[k].id = i, IsData(q, l, i)
             PROVE  FALSE
  BY <1>1 DEF CloseLast, q
<1>3. k \in 1 .. Len(p) /\ q[k] = p[k]
  BY <1>1, <1>2
<1>4. CASE l = z
  BY <1>1, <1>3, <1>4 DEF Has, IsData
<1>5. CASE l \in 1 .. Len(p)
  BY <1>1, <1>3, <1>5 DEF CloseLast, IsData
<1> QED
  BY <1>2, <1>4, <1>5

\* The pipe breaks.
LEMMA CutLast ==
    ASSUME NEW p \in Seq(Frames), NEW m \in 0 .. Len(p), NEW i \in Ids, CloseLast(p, i)
    PROVE  CloseLast(SubSeq(p, 1, m), i)
<1> DEFINE q == SubSeq(p, 1, m)
<1>1. Len(q) = m /\ \A k \in 1 .. m : q[k] = p[k]
  BY Prefix
<1>2. m \in Nat /\ \A k \in 1 .. m : k \in 1 .. Len(p)
  OBVIOUS
<1> HIDE DEF q
<1>3. CloseLast(q, i)
  BY <1>1, <1>2 DEF CloseLast, IsData
<1> QED
  BY <1>3 DEF q

\* When no chunk of a connection is in its pipe or its socket, all were given.
LEMMA Drained ==
    ASSUME NEW p, NEW i \in Ids, NEW sent \in Nat, NEW buf, NEW got,
           NoData(p, i), Full(p, i, sent, buf, got), buf = <<>>
    PROVE  Len(got) = sent
<1>1. Len(buf) = 0
  OBVIOUS
<1>2. sent - Len(buf) = Len(got)
  BY DEF NoData, Full, Fed
<1> QED
  BY <1>1, <1>2

\* A chunk at the head of its pipe has been sent and not been given.
LEMMA HeadMissing ==
    ASSUME NEW p \in Seq(Frames), p # <<>>, NEW i \in Ids, NEW sent \in Nat, NEW buf,
           NEW got \in Seq(Chunks),
           Flow(p, i, sent, buf, got), Line(p, i, got), Head(p).type = "data", Head(p).id = i
    PROVE  Len(got) < sent
<1>1. Head(p) = p[1] /\ 1 \in 1 .. Len(p)
  OBVIOUS
<1>2. IsData(p, 1, i)
  BY <1>1 DEF IsData
<1>3. Num(p, 1) \in Nat /\ Len(got) \in Nat
  BY <1>1, <1>2, NumNat
<1> QED
  BY <1>1, <1>2, <1>3 DEF Flow, Line, Written, InOrder

-----------------------------------------------------------------------------
(***************************************************************************)
(* The steps.                                                              *)
(***************************************************************************)

\* What the sides are about to write.
LEMMA CloseFrame ==
    ASSUME NEW i \in Ids
    PROVE  Close(i) \in Frames /\ Close(i).type = "close" /\ Close(i).id = i
  BY FrameTypes DEF Close

\* A break of the transport is for good.
LEMMA LinkUp == ASSUME [Next]_vars, link' = "up" PROVE link = "up" /\ ~Broken
<1>1. link = "up"
  BY Steps DEF CliSend, CliClose, SrvSend, SrvClose, HostOpen, HostRead, HostEnd, HostEnded,
     ContRead, ContEnd, ContEnded, HostAccept, HostData, HostClose, HostEOF, HostExit,
     ContOpen, ContDialFails, ContData, ContClose, ContEOF, ContExit, LinkCut, vars, pipeVars
<1> QED
  BY <1>1 DEF Broken

\* A goroutine writes the chunk it has read, or nothing.
LEMMA HostReadWrites ==
    ASSUME TypeOK, Downwards, NEW id \in Ids, HostRead(id)
    PROVE  /\ Data(Head(cliBuf[id])) \in Frames
           /\ Data(Head(cliBuf[id])).type = "data" /\ Data(Head(cliBuf[id])).id = id
           /\ \/ down' = Append(down, Data(Head(cliBuf[id])))
                 /\ UNCHANGED <<hostConns, hostFd, hostRd>>
              \/ Broken /\ down' = down
           /\ \A i \in Ids : hostRd'[i] = hostRd[i] \/ hostRd'[i] = "done"
           /\ hostRd[id] = "reading" /\ UNCHANGED <<up, link, cli, contVars, srvVars>>
           /\ UNCHANGED <<cliSent, cliGot>>
<1>1. cliBuf[id] \in Seq(Chunks) /\ cliBuf[id] # <<>> /\ cliSent[id] \in Nat
  BY ConstAssumption DEF HostRead, TypeOK
<1>2. Buffered(cliBuf[id], id, cliSent[id])
  BY DEF Downwards, Flow
<1>3. \A i \in Ids : hostRd'[i] = hostRd[i] \/ hostRd'[i] = "done"
  BY DEF HostRead, HostDrop, TypeOK
<1>4. /\ Data(Head(cliBuf[id])) \in Frames
      /\ Data(Head(cliBuf[id])).type = "data" /\ Data(Head(cliBuf[id])).id = id
  BY <1>1, <1>2, NextChunk
<1>5. \/ down' = Append(down, Data(Head(cliBuf[id]))) /\ UNCHANGED <<hostConns, hostFd, hostRd>>
      \/ Broken /\ down' = down
  BY DEF HostRead
<1> QED
  BY <1>3, <1>4, <1>5 DEF HostRead

LEMMA ContReadWrites ==
    ASSUME TypeOK, Upwards, NEW id \in Ids, ContRead(id)
    PROVE  /\ Data(Head(srvBuf[id])) \in Frames
           /\ Data(Head(srvBuf[id])).type = "data" /\ Data(Head(srvBuf[id])).id = id
           /\ \/ up' = Append(up, Data(Head(srvBuf[id]))) /\ UNCHANGED contRd
              \/ Broken /\ up' = up
           /\ \A i \in Ids : contRd'[i] = contRd[i] \/ contRd'[i] = "done"
           /\ contRd[id] = "reading" /\ contFd[id] = "open"
           /\ UNCHANGED <<down, link, srv, hostVars, cliVars, contConns, contFd, cont>>
           /\ UNCHANGED <<srvSent, srvGot>>
<1>1. srvBuf[id] \in Seq(Chunks) /\ srvBuf[id] # <<>> /\ srvSent[id] \in Nat
  BY ConstAssumption DEF ContRead, TypeOK
<1>2. Buffered(srvBuf[id], id, srvSent[id])
  BY DEF Upwards, Flow
<1>3. \A i \in Ids : contRd'[i] = contRd[i] \/ contRd'[i] = "done"
  BY DEF ContRead, TypeOK
<1> QED
  BY <1>1, <1>2, <1>3, NextChunk DEF ContRead

\* A connection appears on one side, then on the other.
LEMMA FreshNext == ASSUME IInv, Fresh, [Next]_vars PROVE Fresh'
<1>0. HostTypes /\ ContTypes /\ ChunkTypes /\ TypeOK /\ Opened
  BY TypeParts DEF IInv
<1> USE <1>0 DEF Fresh, HostTypes, ContTypes, ChunkTypes
<1>1. ASSUME NEW id \in Ids, CliSend(id) \/ CliClose(id) \/ SrvSend(id) \/ SrvClose(id)
      PROVE  Fresh'
  BY <1>1 DEF CliSend, CliClose, SrvSend, SrvClose, hostVars, cliVars, contVars, srvVars
<1>2. ASSUME NEW id \in Ids, HostOpen(id) \/ HostRead(id) \/ HostEnd(id) \/ HostEnded(id)
      PROVE  Fresh'
  BY <1>2 DEF HostOpen, HostRead, HostEnd, HostEnded, HostDrop, hostVars, cliVars, contVars,
     srvVars
<1>3. ASSUME NEW id \in Ids, ContRead(id) \/ ContEnd(id) PROVE Fresh'
  BY <1>3 DEF ContRead, ContEnd, hostVars, cliVars, srvVars
<1>4. ASSUME NEW id \in Ids, ContEnded(id) PROVE Fresh'
  <2>1. srv[id] # "none"
    BY <1>4 DEF ContEnded, Opened
  <2> QED
    BY <1>4, <2>1 DEF ContEnded, hostVars, cliVars, srvVars
<1>5. CASE HostAccept
  <2>1. nextID + 1 \in Ids
    BY <1>5, ConstAssumption DEF HostAccept, Ids
  <2> QED
    BY <1>5, <2>1 DEF HostAccept, contVars, srvVars
<1>6. CASE HostData \/ HostClose \/ HostEOF \/ HostExit
  BY <1>6 DEF HostData, HostClose, HostEOF, HostExit, hostVars, cliVars, contVars, srvVars
<1>7. CASE ContOpen \/ ContDialFails \/ ContData \/ ContClose
  <2>1. Head(down).id \in Ids /\ UNCHANGED <<hostVars, cliVars, srvSent, srvBuf>>
    BY <1>7, ContTakes
  <2>2. \A i \in contConns : srv[i] # "none"
    BY DEF Opened
  <2> QED
    BY <1>7, <2>1, <2>2 DEF ContOpen, ContDialFails, ContData, ContClose, hostVars, cliVars,
       srvVars
<1>8. CASE ContEOF \/ ContExit
  <2>1. \A i \in contConns : srv[i] # "none"
    BY DEF Opened
  <2> QED
    BY <1>8, <2>1 DEF ContEOF, ContExit, hostVars, cliVars, srvVars
<1>9. CASE LinkCut \/ UNCHANGED vars
  BY <1>9 DEF LinkCut, vars, hostVars, cliVars, contVars, srvVars
<1> QED
  BY <1>1, <1>2, <1>3, <1>4, <1>5, <1>6, <1>7, <1>8, <1>9, Steps

\* The entries of both maps are open.
LEMMA EntryOpenNext == ASSUME IInv, EntryOpen, [Next]_vars PROVE EntryOpen'
<1>0. HostTypes /\ ContTypes /\ TypeOK
  BY TypeParts DEF IInv
<1> SUFFICES ASSUME link' = "up" PROVE EntryOpen'
  BY DEF EntryOpen
<1>a. link = "up" /\ ~Broken
  BY LinkUp
<1> USE <1>0, <1>a DEF EntryOpen, HostTypes, ContTypes
<1>1. CASE UNCHANGED <<hostConns, hostFd, contConns, contFd>>
  BY <1>1
<1>2. ASSUME NEW id \in Ids, HostOpen(id) \/ HostRead(id) \/ HostEnd(id) \/ HostEnded(id)
      PROVE  EntryOpen'
  BY <1>2 DEF HostOpen, HostRead, HostEnd, HostEnded, HostDrop, contVars
<1>3. ASSUME NEW id \in Ids, ContRead(id) \/ ContEnd(id) \/ ContEnded(id) PROVE EntryOpen'
  BY <1>3 DEF ContRead, ContEnd, ContEnded, hostVars
<1>4. CASE HostAccept
  <2>1. nextID + 1 \in Ids
    BY <1>4, ConstAssumption DEF HostAccept, Ids
  <2> QED
    BY <1>4, <2>1 DEF HostAccept, contVars
<1>5. CASE HostData \/ HostClose
  <2>1. Head(up).id \in Ids
    BY <1>5, HostTakes
  <2> QED
    BY <1>5, <2>1 DEF HostData, HostClose, contVars
<1>6. CASE ContOpen \/ ContDialFails \/ ContData \/ ContClose
  <2>1. Head(down).id \in Ids /\ UNCHANGED hostVars
    BY <1>6, ContTakes
  <2> QED
    BY <1>6, <2>1 DEF ContOpen, ContDialFails, ContData, ContClose, hostVars
<1>7. CASE HostEOF \/ HostExit \/ ContEOF \/ ContExit
  BY <1>7 DEF HostEOF, HostExit, ContEOF, ContExit, IInv, Shut
<1>8. ASSUME NEW id \in Ids, CliSend(id) \/ CliClose(id) \/ SrvSend(id) \/ SrvClose(id)
      PROVE  UNCHANGED <<hostConns, hostFd, contConns, contFd>>
  BY <1>8 DEF CliSend, CliClose, SrvSend, SrvClose, hostVars, contVars
<1>9. CASE LinkCut \/ UNCHANGED vars
  BY <1>9 DEF LinkCut, vars, hostVars, contVars
<1> QED
  BY <1>1, <1>2, <1>3, <1>4, <1>5, <1>6, <1>7, <1>8, <1>9, Steps

\* HostSide writes nothing for a connection behind its CLOSE.
LEMMA DownLastNext ==
    ASSUME IInv, ClosedLast, [Next]_vars, NEW i \in Ids
    PROVE  CloseLast(down', i) /\ (Has(down', "close", i) => hostRd'[i] \in {"closing", "done"})
<1>0. HostTypes /\ PipeTypes /\ TypeOK /\ Opened /\ Downwards /\ down \in Seq(Frames)
  BY TypeParts DEF IInv, PipeTypes
<1> USE <1>0
<1>a. CloseLast(down, i) /\ (Has(down, "close", i) => hostRd[i] \in {"closing", "done"})
  BY DEF ClosedLast
<1> DEFINE Goal == CloseLast(down', i)
                   /\ (Has(down', "close", i) => hostRd'[i] \in {"closing", "done"})
<1> SUFFICES Goal
  OBVIOUS
<1>1. CASE UNCHANGED <<down, hostRd>>
  BY <1>1, <1>a
<1>2. ASSUME NEW id \in Ids, HostOpen(id) PROVE Goal
  <2>1. Open(id) \in Frames /\ Open(id).type = "open" /\ Open(id).id = id
    BY FrameTypes DEF Open
  <2>2. CASE down' = Append(down, Open(id)) /\ hostRd' = [hostRd EXCEPT ![id] = "reading"]
    <3>1. hostRd[id] = "opening"
      BY <1>2 DEF HostOpen
    <3>2. CloseLast(down', i) /\ (Has(down', "close", i) => Has(down, "close", i))
      BY <1>a, <2>1, <2>2, PushLast, PushShape
    <3> QED
      BY <1>a, <2>2, <3>1, <3>2 DEF HostTypes
  <2>3. CASE down' = down /\ HostDrop(id)
    BY <1>a, <2>3 DEF HostDrop, HostTypes
  <2> QED
    BY <1>2, <2>2, <2>3 DEF HostOpen
<1>3. ASSUME NEW id \in Ids, HostRead(id) PROVE Goal
  <2> DEFINE f == Data(Head(cliBuf[id]))
  <2>1. /\ f \in Frames /\ f.type = "data" /\ f.id = id /\ hostRd[id] = "reading"
        /\ hostRd'[i] = hostRd[i] \/ hostRd'[i] = "done"
        /\ down' = Append(down, f) \/ down' = down
    BY <1>3, HostReadWrites
  <2>2. i = id => ~Has(down, "close", i)
    BY <1>a, <2>1
  <2> HIDE DEF f
  <2>3. CASE down' = Append(down, f)
    BY <1>a, <2>1, <2>2, <2>3, PushLast, PushShape
  <2>4. CASE down' = down
    BY <1>a, <2>1, <2>4
  <2> QED
    BY <2>1, <2>3, <2>4
<1>4. ASSUME NEW id \in Ids, HostEnd(id) PROVE Goal
  <2>1. Close(id) \in Frames /\ Close(id).type = "close" /\ Close(id).id = id
    BY CloseFrame
  <2>2. /\ down' = Append(down, Close(id)) \/ down' = down
        /\ hostRd' = [hostRd EXCEPT ![id] = "closing"]
    BY <1>4 DEF HostEnd
  <2>3. CASE down' = Append(down, Close(id))
    BY <1>a, <2>1, <2>2, <2>3, PushLast, PushShape DEF HostTypes
  <2>4. CASE down' = down
    BY <1>a, <2>2, <2>4 DEF HostTypes
  <2> QED
    BY <2>2, <2>3, <2>4
<1>5. ASSUME NEW id \in Ids, HostEnded(id) PROVE Goal
  BY <1>5, <1>a DEF HostEnded, HostDrop, HostTypes, pipeVars
<1>6. CASE HostAccept
  <2>1. nextID + 1 \in Ids /\ nextID \in Nat
    BY <1>6, ConstAssumption DEF HostAccept, HostTypes, Ids
  <2>2. hostRd[nextID + 1] = "none"
    BY <2>1 DEF Opened
  <2> QED
    BY <1>6, <1>a, <2>1, <2>2 DEF HostAccept, HostTypes, pipeVars
<1>7. CASE ContOpen \/ ContDialFails \/ ContData \/ ContClose
  <2>1. down # <<>> /\ down' = Tail(down) /\ UNCHANGED hostVars
    BY <1>7, ContTakes
  <2> QED
    BY <1>a, <2>1, PopLast, PopShape DEF hostVars
<1>8. CASE LinkCut
  <2>1. PICK m \in 0 .. Len(down) : down' = SubSeq(down, 1, m)
    BY <1>8 DEF LinkCut
  <2>2. hostRd' = hostRd
    BY <1>8 DEF LinkCut, hostVars
  <2> QED
    BY <1>a, <2>1, <2>2, CutLast, PrefixShape
<1>9. ASSUME NEW id \in Ids, CliSend(id) \/ CliClose(id) \/ SrvSend(id) \/ SrvClose(id)
                             \/ ContRead(id) \/ ContEnd(id) \/ ContEnded(id)
      PROVE  UNCHANGED <<down, hostRd>>
  BY <1>9 DEF CliSend, CliClose, SrvSend, SrvClose, ContRead, ContEnd, ContEnded, hostVars,
     pipeVars
<1>10. ASSUME HostData \/ HostClose \/ HostEOF \/ HostExit \/ ContEOF \/ ContExit
              \/ UNCHANGED vars
       PROVE  UNCHANGED <<down, hostRd>>
  BY <1>10 DEF HostData, HostClose, HostEOF, HostExit, ContEOF, ContExit, vars, hostVars,
     pipeVars
<1> QED
  BY <1>1, <1>2, <1>3, <1>4, <1>5, <1>6, <1>7, <1>8, <1>9, <1>10, Steps

\* ContainerSide neither, although its frame reader may be the one to close.
LEMMA UpLastNext ==
    ASSUME IInv, ClosedLast, [Next]_vars, NEW i \in Ids
    PROVE  /\ CloseLast(up', i)
           /\ Has(up', "close", i) => contRd'[i] # "reading" \/ contFd'[i] # "open"
<1>0. ContTypes /\ PipeTypes /\ TypeOK /\ Opened /\ Upwards /\ up \in Seq(Frames)
  BY TypeParts DEF IInv, PipeTypes
<1> USE <1>0
<1> DEFINE Over == contRd[i] # "reading" \/ contFd[i] # "open"
<1>a. CloseLast(up, i) /\ (Has(up, "close", i) => Over)
  BY DEF ClosedLast
<1> DEFINE Goal == CloseLast(up', i) /\ (Has(up', "close", i) => Over')
<1> SUFFICES Goal
  OBVIOUS
<1>1. CASE up' = up /\ (Over => Over')
  BY <1>1, <1>a
<1>2. ASSUME NEW id \in Ids, ContRead(id) PROVE Goal
  <2> DEFINE f == Data(Head(srvBuf[id]))
  <2>1. /\ f \in Frames /\ f.type = "data" /\ f.id = id /\ contRd[id] = "reading"
        /\ contFd[id] = "open"
        /\ contRd'[i] = contRd[i] \/ contRd'[i] = "done"
        /\ up' = Append(up, f) \/ up' = up
        /\ contFd' = contFd
    BY <1>2, ContReadWrites
  <2>2. i = id => ~Has(up, "close", i)
    BY <1>a, <2>1
  <2> HIDE DEF f
  <2>3. CASE up' = Append(up, f)
    BY <1>a, <2>1, <2>2, <2>3, PushLast, PushShape
  <2>4. CASE up' = up
    BY <1>a, <2>1, <2>4
  <2> QED
    BY <2>1, <2>3, <2>4
<1>3. ASSUME NEW id \in Ids, up' = Append(up, Close(id)), Over => Over', i = id => Over'
      PROVE  Goal
  <2>1. Close(id) \in Frames /\ Close(id).type = "close" /\ Close(id).id = id
    BY CloseFrame
  <2> QED
    BY <1>a, <1>3, <2>1, PushLast, PushShape
<1>4. ASSUME NEW id \in Ids, ContEnd(id) PROVE Goal
  <2>1. /\ up' = Append(up, Close(id)) \/ up' = up
        /\ contRd' = [contRd EXCEPT ![id] = "closing"] /\ contFd' = contFd
    BY <1>4 DEF ContEnd
  <2>2. (Over => Over') /\ (i = id => Over')
    BY <2>1 DEF ContTypes
  <2> QED
    BY <1>1, <1>3, <2>1, <2>2
<1>5. ASSUME NEW id \in Ids, ContEnded(id) PROVE up' = up /\ (Over => Over')
  BY <1>5 DEF ContEnded, ContTypes, pipeVars
<1>6. CASE ContOpen \/ ContDialFails
  <2> DEFINE id == Head(down).id
  <2>1. down # <<>> /\ down \in Seq(Frames) /\ id \in Ids
    BY <1>6, ContTakes
  <2>2. srv[id] = "none" /\ contRd[id] = "none" /\ Absent(up, id)
    <3>1. Head(down).type = "open"
      BY <1>6 DEF ContOpen, ContDialFails, ContFrame
    <3>2. Has(down, "open", id)
      BY <2>1, <3>1, PopShape
    <3> QED
      BY <2>1, <3>2 DEF Opened
  <2>3. CASE ContOpen
    <3>1. up' = up /\ contRd' = [contRd EXCEPT ![id] = "reading"]
          /\ contFd' = [contFd EXCEPT ![id] = "open"]
      BY <2>3 DEF ContOpen
    <3>2. i = id => ~Has(up, "close", i)
      BY <2>2 DEF Absent, Has
    <3> QED
      BY <1>a, <2>1, <3>1, <3>2 DEF ContTypes
  <2>4. CASE ContDialFails
    <3>1. (up' = up \/ up' = Append(up, Close(id))) /\ UNCHANGED <<contRd, contFd>>
      BY <2>4 DEF ContDialFails
    <3> QED
      BY <1>1, <1>3, <2>1, <2>2, <3>1
  <2> QED
    BY <1>6, <2>3, <2>4
<1>7. CASE ContData
  <2> DEFINE id == Head(down).id
  <2>1. id \in Ids
    BY <1>7, ContTakes
  <2>2. contRd' = contRd /\ (contFd' = contFd \/ contFd' = [contFd EXCEPT ![id] = "closed"])
        /\ (up' = up \/ (up' = Append(up, Close(id))
                         /\ contFd' = [contFd EXCEPT ![id] = "closed"]))
    BY <1>7 DEF ContData
  <2>3. Over => Over'
    BY <2>1, <2>2 DEF ContTypes
  <2>4. up' = Append(up, Close(id)) /\ up' # up /\ i = id => Over'
    BY <2>1, <2>2 DEF ContTypes
  <2> QED
    BY <1>1, <1>3, <2>1, <2>2, <2>3, <2>4
<1>8. CASE ContClose
  <2>1. Head(down).id \in Ids
    BY <1>8, ContTakes
  <2>2. up' = up /\ (Over => Over')
    BY <1>8, <2>1 DEF ContClose, ContTypes
  <2> QED
    BY <1>1, <2>2
<1>9. CASE HostData \/ HostClose
  <2>1. up # <<>> /\ up' = Tail(up) /\ UNCHANGED contVars
    BY <1>9, HostTakes
  <2> QED
    BY <1>a, <2>1, PopLast, PopShape DEF contVars
<1>10. CASE LinkCut
  <2>1. PICK m \in 0 .. Len(up) : up' = SubSeq(up, 1, m)
    BY <1>10 DEF LinkCut
  <2>2. UNCHANGED <<contRd, contFd>>
    BY <1>10 DEF LinkCut, contVars
  <2> QED
    BY <1>a, <2>1, <2>2, CutLast, PrefixShape
<1>11. ASSUME NEW id \in Ids, CliSend(id) \/ CliClose(id) \/ SrvSend(id) \/ SrvClose(id)
                              \/ HostOpen(id) \/ HostRead(id) \/ HostEnd(id) \/ HostEnded(id)
       PROVE  up' = up /\ (Over => Over')
  BY <1>11 DEF CliSend, CliClose, SrvSend, SrvClose, HostOpen, HostRead, HostEnd, HostEnded,
     contVars, pipeVars
<1>12. CASE HostAccept \/ HostEOF \/ HostExit \/ ContEOF \/ ContExit \/ UNCHANGED vars
  <2>1. up' = up /\ (Over => Over')
    BY <1>12 DEF HostAccept, HostEOF, HostExit, ContEOF, ContExit, ContTypes, vars, contVars,
       pipeVars
  <2> QED
    BY <1>1, <2>1
<1> QED
  BY <1>1, <1>2, <1>4, <1>5, <1>6, <1>7, <1>8, <1>9, <1>10, <1>11, <1>12, Steps

LEMMA ClosedLastNext == ASSUME IInv, ClosedLast, [Next]_vars PROVE ClosedLast'
  BY DownLastNext, UpLastNext DEF ClosedLast

\* What an end that has closed leaves as it is, and what only grows.
LEMMA EndsStay ==
    ASSUME IInv, [Next]_vars, NEW i \in Ids
    PROVE  /\ cli[i] = "closed" =>
                /\ cli'[i] = "closed" /\ cliSent'[i] = cliSent[i] /\ cliGot'[i] = cliGot[i]
                /\ cliBuf[i] = <<>> => cliBuf'[i] = <<>>
           /\ srv[i] = "closed" =>
                /\ srv'[i] = "closed" /\ srvSent'[i] = srvSent[i] /\ srvGot'[i] = srvGot[i]
                /\ srvBuf[i] = <<>> => srvBuf'[i] = <<>>
           /\ cliSent'[i] >= cliSent[i] /\ Len(cliGot'[i]) >= Len(cliGot[i])
           /\ srvSent'[i] >= srvSent[i] /\ Len(srvGot'[i]) >= Len(srvGot[i])
<1>0. HostTypes /\ ContTypes /\ ChunkTypes /\ TypeOK /\ Opened
  BY TypeParts DEF IInv
<1> USE <1>0
<1>a. /\ cliSent[i] \in Nat /\ srvSent[i] \in Nat
      /\ Len(cliGot[i]) \in Nat /\ Len(srvGot[i]) \in Nat
  BY ConstAssumption DEF ChunkTypes
<1> DEFINE CliKept == /\ cli[i] = "closed" =>
                            /\ cli'[i] = "closed" /\ cliSent'[i] = cliSent[i]
                            /\ cliGot'[i] = cliGot[i]
                            /\ cliBuf[i] = <<>> => cliBuf'[i] = <<>>
                      /\ cliSent'[i] >= cliSent[i] /\ Len(cliGot'[i]) >= Len(cliGot[i])
           SrvKept == /\ srv[i] = "closed" =>
                            /\ srv'[i] = "closed" /\ srvSent'[i] = srvSent[i]
                            /\ srvGot'[i] = srvGot[i]
                            /\ srvBuf[i] = <<>> => srvBuf'[i] = <<>>
                      /\ srvSent'[i] >= srvSent[i] /\ Len(srvGot'[i]) >= Len(srvGot[i])
<1> SUFFICES CliKept /\ SrvKept
  OBVIOUS
<1>1. UNCHANGED cliVars => CliKept
  BY <1>a DEF cliVars
<1>2. UNCHANGED srvVars => SrvKept
  BY <1>a DEF srvVars
<1>3. ASSUME NEW id \in Ids, CliSend(id) \/ CliClose(id) \/ HostRead(id) PROVE CliKept
  <2>1. CASE CliSend(id)
    BY <1>a, <2>1 DEF CliSend, ChunkTypes
  <2>2. CASE CliClose(id)
    BY <1>a, <2>2 DEF CliClose, HostTypes
  <2>3. CASE HostRead(id)
    <3>1. cliBuf[id] # <<>> /\ \A j \in Ids \ {id} : cliBuf'[j] = cliBuf[j]
      BY <2>3 DEF HostRead, ChunkTypes
    <3> QED
      BY <1>a, <2>3, <3>1 DEF HostRead
  <2> QED
    BY <1>3, <2>1, <2>2, <2>3
<1>4. ASSUME NEW id \in Ids, SrvSend(id) \/ SrvClose(id) \/ ContRead(id) PROVE SrvKept
  <2>1. CASE SrvSend(id)
    BY <1>a, <2>1 DEF SrvSend, ChunkTypes
  <2>2. CASE SrvClose(id)
    BY <1>a, <2>2 DEF SrvClose, ContTypes
  <2>3. CASE ContRead(id)
    <3>1. srvBuf[id] # <<>> /\ \A j \in Ids \ {id} : srvBuf'[j] = srvBuf[j]
      BY <2>3 DEF ContRead, ChunkTypes
    <3> QED
      BY <1>a, <2>3, <3>1 DEF ContRead
  <2> QED
    BY <1>4, <2>1, <2>2, <2>3
<1>5. CASE HostAccept
  <2>1. cli[nextID + 1] = "none"
    BY <1>5, ConstAssumption DEF HostAccept, HostTypes, Opened, Ids
  <2>2. CliKept
    BY <1>5, <1>a, <2>1 DEF HostAccept, HostTypes
  <2> QED
    BY <1>2, <1>5, <2>2 DEF HostAccept
<1>6. CASE HostData
  <2>1. Head(up).id \in Ids /\ Head(up).chunk \in Chunks /\ UNCHANGED srvVars
        /\ UNCHANGED <<cli, cliSent, cliBuf>>
    BY <1>6, HostTakes, FrameFields DEF HostData, HostFrame
  <2>2. cliGot'[i] = cliGot[i]
        \/ (cli[i] = "open" /\ cliGot'[i] = Append(cliGot[i], Head(up).chunk))
    BY <1>6, <2>1 DEF HostData, ChunkTypes
  <2>3. Len(cliGot'[i]) >= Len(cliGot[i])
    BY <1>a, <2>1, <2>2 DEF ChunkTypes
  <2> QED
    BY <1>2, <1>a, <2>1, <2>2, <2>3
<1>7. CASE ContOpen \/ ContDialFails
  <2> DEFINE id == Head(down).id
  <2>1. down # <<>> /\ down \in Seq(Frames) /\ id \in Ids
    BY <1>7, ContTakes
  <2>2. Head(down).type = "open"
    BY <1>7 DEF ContOpen, ContDialFails, ContFrame
  <2>3. srv[id] = "none"
    BY <2>1, <2>2, PopShape DEF Opened
  <2>4. /\ srv' = [srv EXCEPT ![id] = "open"] \/ srv' = [srv EXCEPT ![id] = "closed"]
        /\ UNCHANGED <<srvSent, srvBuf, srvGot>>
    BY <1>7 DEF ContOpen, ContDialFails
  <2>5. SrvKept
    BY <1>a, <2>1, <2>3, <2>4 DEF ContTypes
  <2> QED
    BY <1>1, <1>7, <2>5, ContTakes
<1>8. CASE ContData
  <2>1. Head(down).id \in Ids /\ Head(down).chunk \in Chunks /\ UNCHANGED cliVars
        /\ UNCHANGED <<srv, srvSent, srvBuf>>
    BY <1>8, ContTakes, FrameFields DEF ContData, ContFrame
  <2>2. srvGot'[i] = srvGot[i]
        \/ (srv[i] = "open" /\ srvGot'[i] = Append(srvGot[i], Head(down).chunk))
    BY <1>8, <2>1 DEF ContData, ChunkTypes
  <2>3. Len(srvGot'[i]) >= Len(srvGot[i])
    BY <1>a, <2>1, <2>2 DEF ChunkTypes
  <2> QED
    BY <1>1, <1>a, <2>1, <2>2, <2>3
<1>9. CASE ContExit
  <2>1. SrvKept
    BY <1>9, <1>a DEF ContExit
  <2> QED
    BY <1>1, <1>9, <2>1 DEF ContExit
<1>10. ASSUME NEW id \in Ids, CliSend(id) \/ CliClose(id) \/ HostOpen(id) \/ HostRead(id)
                              \/ HostEnd(id) \/ HostEnded(id)
       PROVE  UNCHANGED srvVars
  BY <1>10 DEF CliSend, CliClose, HostOpen, HostRead, HostEnd, HostEnded
<1>11. ASSUME NEW id \in Ids, SrvSend(id) \/ SrvClose(id) \/ ContRead(id) \/ ContEnd(id)
                              \/ ContEnded(id) \/ HostOpen(id) \/ HostEnd(id) \/ HostEnded(id)
       PROVE  UNCHANGED cliVars
  BY <1>11 DEF SrvSend, SrvClose, ContRead, ContEnd, ContEnded, HostOpen, HostEnd, HostEnded
<1>12. ASSUME NEW id \in Ids, ContEnd(id) \/ ContEnded(id) PROVE UNCHANGED srvVars
  BY <1>12 DEF ContEnd, ContEnded
<1>13. ASSUME HostClose \/ HostEOF \/ HostExit \/ ContClose \/ ContEOF \/ LinkCut
              \/ UNCHANGED vars
       PROVE  UNCHANGED <<cliVars, srvVars>>
  BY <1>13 DEF HostClose, HostEOF, HostExit, ContClose, ContEOF, LinkCut, vars
<1> QED
  BY <1>1, <1>2, <1>3, <1>4, <1>5, <1>6, <1>7, <1>8, <1>9, <1>10, <1>11, <1>12, <1>13, Steps

\* A connection begins to close at an end that has closed, behind its last
\* chunk, or on a chunk that it can no longer be given.
LEMMA EndingBegins ==
    ASSUME IInv, Fresh, EntryOpen, [Next]_vars, link' = "up",
           NEW i \in Ids, ~Ending(i), Ending(i)'
    PROVE  \/ cli'[i] = "closed" /\ (cliBuf'[i] = <<>> \/ CliCrossed(i)')
           \/ srv'[i] = "closed" /\ (srvBuf'[i] = <<>> \/ SrvCrossed(i)')
<1>0. /\ HostTypes /\ ContTypes /\ ChunkTypes /\ PipeTypes /\ TypeOK /\ Opened
      /\ Downwards /\ Upwards /\ Shut /\ down \in Seq(Frames) /\ up \in Seq(Frames)
  BY TypeParts DEF IInv, PipeTypes
<1> USE <1>0
<1>a. link = "up" /\ ~Broken /\ host = "serve" /\ cont = "serve"
  BY LinkUp DEF Shut
<1>b. /\ ~CliGone(i) /\ ~SrvGone(i) /\ ~Has(down, "close", i) /\ ~Has(up, "close", i)
  BY DEF Ending
<1> DEFINE Goal == \/ cli'[i] = "closed" /\ (cliBuf'[i] = <<>> \/ CliCrossed(i)')
                   \/ srv'[i] = "closed" /\ (srvBuf'[i] = <<>> \/ SrvCrossed(i)')
<1> SUFFICES Goal
  OBVIOUS
\* What begins to close.
<1>1. CliGone(i)' \/ SrvGone(i)' \/ Has(down', "close", i) \/ Has(up', "close", i)
  BY DEF Ending, Has
<1>2. ASSUME NEW id \in Ids, CliSend(id) \/ CliClose(id) \/ SrvSend(id) \/ SrvClose(id)
      PROVE  FALSE
  BY <1>1, <1>2, <1>b DEF CliSend, CliClose, SrvSend, SrvClose, hostVars, contVars, pipeVars,
     CliGone, SrvGone
<1>3. ASSUME NEW id \in Ids, HostOpen(id) PROVE FALSE
  <2>1. Open(id) \in Frames /\ Open(id).type = "open"
    BY FrameTypes DEF Open
  <2>2. /\ down' = Append(down, Open(id)) /\ up' = up /\ hostRd' = [hostRd EXCEPT ![id] = "reading"]
        /\ UNCHANGED <<hostFd, contFd, contRd>>
    BY <1>3, <1>a DEF HostOpen, contVars
  <2>3. ~Has(down', "close", i)
    BY <1>b, <2>1, <2>2, PushShape
  <2> QED
    BY <1>1, <1>b, <2>2, <2>3 DEF CliGone, SrvGone, HostTypes
<1>4. ASSUME NEW id \in Ids, HostRead(id) PROVE FALSE
  <2> DEFINE f == Data(Head(cliBuf[id]))
  <2>1. /\ f \in Frames /\ f.type = "data" /\ down' = Append(down, f) /\ up' = up
        /\ UNCHANGED <<hostFd, hostRd, contFd, contRd>>
    BY <1>4, <1>a, HostReadWrites DEF contVars
  <2> HIDE DEF f
  <2>2. ~Has(down', "close", i)
    BY <1>b, <2>1, PushShape
  <2> QED
    BY <1>1, <1>b, <2>1, <2>2 DEF CliGone, SrvGone
<1>5. ASSUME NEW id \in Ids, HostEnd(id) PROVE Goal
  <2>1. Close(id) \in Frames /\ Close(id).type = "close" /\ Close(id).id = id
    BY CloseFrame
  <2>2. /\ down' = Append(down, Close(id)) /\ hostRd' = [hostRd EXCEPT ![id] = "closing"]
        /\ UNCHANGED <<up, hostFd, contFd, contRd>> /\ UNCHANGED cliVars
    BY <1>5, <1>a DEF HostEnd, contVars
  <2>3. i = id
    BY <1>1, <1>b, <2>1, <2>2, PushShape DEF CliGone, SrvGone, HostTypes
  <2>4. cli[i] = "closed" /\ cliBuf[i] = <<>>
    BY <1>5, <1>b, <2>3 DEF HostEnd, HostReadEnds, CliGone
  <2> QED
    BY <2>2, <2>4 DEF cliVars
<1>6. ASSUME NEW id \in Ids, HostEnded(id) PROVE FALSE
  BY <1>1, <1>6, <1>b DEF HostEnded, HostDrop, HostTypes, contVars, pipeVars, CliGone, SrvGone
<1>7. ASSUME NEW id \in Ids, ContRead(id) PROVE FALSE
  <2> DEFINE f == Data(Head(srvBuf[id]))
  <2>1. /\ f \in Frames /\ f.type = "data" /\ up' = Append(up, f) /\ down' = down
        /\ UNCHANGED <<hostFd, hostRd, contFd, contRd>>
    BY <1>7, <1>a, ContReadWrites DEF hostVars
  <2> HIDE DEF f
  <2>2. ~Has(up', "close", i)
    BY <1>b, <2>1, PushShape
  <2> QED
    BY <1>1, <1>b, <2>1, <2>2 DEF CliGone, SrvGone
<1>8. ASSUME NEW id \in Ids, ContEnd(id) PROVE Goal
  <2>1. Close(id) \in Frames /\ Close(id).type = "close" /\ Close(id).id = id
    BY CloseFrame
  <2>2. /\ up' = Append(up, Close(id)) /\ contRd' = [contRd EXCEPT ![id] = "closing"]
        /\ UNCHANGED <<down, hostFd, hostRd, contFd>> /\ UNCHANGED srvVars
    BY <1>8, <1>a DEF ContEnd, hostVars
  <2>3. i = id
    BY <1>1, <1>b, <2>1, <2>2, PushShape DEF CliGone, SrvGone, ContTypes
  <2>4. srv[i] = "closed" /\ srvBuf[i] = <<>>
    BY <1>8, <1>b, <2>3 DEF ContEnd, ContReadEnds, SrvGone
  <2> QED
    BY <2>2, <2>4 DEF srvVars
<1>9. ASSUME NEW id \in Ids, ContEnded(id) PROVE FALSE
  BY <1>1, <1>9, <1>b DEF ContEnded, ContTypes, hostVars, pipeVars, CliGone, SrvGone
<1>10. CASE HostAccept
  BY <1>1, <1>10, <1>b DEF HostAccept, HostTypes, contVars, pipeVars, CliGone, SrvGone
<1>11. CASE HostData
  <2> DEFINE id == Head(up).id
  <2>1. /\ up # <<>> /\ up' = Tail(up) /\ down' = down /\ id \in Ids
        /\ UNCHANGED <<hostRd, cli, srvSent>> /\ UNCHANGED contVars
    BY <1>11, HostTakes DEF srvVars
  <2>2. ~Has(up', "close", i)
    BY <1>b, <2>1, PopShape
  <2>3. hostFd'[i] # hostFd[i]
    BY <1>1, <1>b, <2>1, <2>2 DEF CliGone, SrvGone, contVars
  <2>4. /\ i = id /\ i \in hostConns /\ ~(hostFd[i] = "open" /\ cli[i] = "open")
        /\ cliGot' = cliGot
    BY <1>11, <2>1, <2>3 DEF HostData, HostTypes
  <2>5. cli[i] = "closed"
    BY <1>a, <2>4 DEF EntryOpen, Opened, HostTypes, FdStates
  <2>6. /\ Flow(up, i, srvSent[i], srvBuf[i], cliGot[i]) /\ Line(up, i, cliGot[i])
        /\ srvSent[i] \in Nat /\ cliGot[i] \in Seq(Chunks)
    BY <2>4, ConstAssumption DEF Upwards, ToCli, ChunkTypes
  <2>7. Head(up).type = "data"
    BY <1>11 DEF HostData, HostFrame
  <2>8. Len(cliGot[i]) < srvSent[i]
    BY <2>1, <2>4, <2>6, <2>7, HeadMissing
  <2> QED
    BY <2>1, <2>4, <2>5, <2>8 DEF CliCrossed
<1>12. CASE HostClose
  <2> DEFINE id == Head(up).id
  <2>1. /\ up # <<>> /\ up' = Tail(up) /\ down' = down /\ id \in Ids /\ hostRd' = hostRd
        /\ UNCHANGED contVars
    BY <1>12, HostTakes
  <2>2. Has(up, "close", id) /\ ~Has(up', "close", i)
    BY <1>12, <1>b, <2>1, PopShape DEF HostClose, HostFrame
  <2>3. i # id
    BY <1>b, <2>2
  <2> QED
    BY <1>1, <1>12, <1>b, <2>1, <2>2, <2>3 DEF HostClose, HostTypes, contVars, CliGone, SrvGone
<1>13. CASE ContOpen \/ ContDialFails \/ ContData \/ ContClose
  <2> DEFINE id == Head(down).id
  <2>1. /\ down # <<>> /\ down' = Tail(down) /\ id \in Ids
        /\ UNCHANGED hostVars /\ UNCHANGED cliVars /\ UNCHANGED <<srvSent, srvBuf>>
    BY <1>13, ContTakes
  <2>2. ~Has(down', "close", i)
    BY <1>b, <2>1, PopShape
  <2>3. SrvGone(i)' \/ Has(up', "close", i)
    BY <1>1, <1>b, <2>1, <2>2 DEF CliGone, hostVars
  <2>4. Close(id) \in Frames /\ Close(id).type = "close" /\ Close(id).id = id
    BY <2>1, CloseFrame
  <2>5. CASE ContOpen
    BY <1>b, <2>1, <2>3, <2>5 DEF ContOpen, ContTypes, SrvGone
  <2>6. CASE ContDialFails
    <3>1. /\ up' = Append(up, Close(id)) /\ srv' = [srv EXCEPT ![id] = "closed"]
          /\ UNCHANGED <<contFd, contRd>>
      BY <1>a, <2>6 DEF ContDialFails
    <3>2. i = id
      BY <1>b, <2>3, <2>4, <3>1, PushShape DEF SrvGone
    <3>3. Head(down).type = "open"
      BY <2>6 DEF ContDialFails, ContFrame
    <3>4. srv[i] = "none" /\ srvSent[i] = 0
      BY <2>1, <3>2, <3>3, PopShape DEF Opened, Fresh
    <3>5. Len(srvBuf[i]) <= 0 /\ srvBuf[i] \in Seq(Chunks)
      BY <3>4 DEF Upwards, Flow, Buffered, ChunkTypes
    <3>6. srvBuf[i] = <<>>
      BY <3>5
    <3> QED
      BY <2>1, <3>1, <3>2, <3>6 DEF ContTypes
  <2>7. CASE ContClose
    <3>1. Has(down, "close", id)
      BY <2>1, <2>7, PopShape DEF ContClose, ContFrame
    <3>2. i # id
      BY <1>b, <3>1
    <3> QED
      BY <1>b, <2>1, <2>3, <2>7, <3>2 DEF ContClose, ContTypes, SrvGone
  <2>8. CASE ContData
    <3>1. UNCHANGED <<contRd, srv>>
      BY <2>8 DEF ContData
    <3>2. contFd'[i] # contFd[i] \/ Has(up', "close", i)
      BY <1>b, <2>3, <3>1 DEF SrvGone
    <3>a. \/ up' = up /\ contFd' = contFd
          \/ /\ id \in contConns /\ ~(contFd[id] = "open" /\ srv[id] = "open")
             /\ contFd' = [contFd EXCEPT ![id] = "closed"] /\ up' = Append(up, Close(id))
             /\ srvGot' = srvGot
      BY <1>a, <2>8 DEF ContData
    <3>3. /\ i = id /\ i \in contConns /\ ~(contFd[i] = "open" /\ srv[i] = "open")
          /\ srvGot' = srvGot
      <4>1. ~(up' = up /\ contFd' = contFd)
        BY <1>b, <3>2
      <4>2. contFd' = [contFd EXCEPT ![id] = "closed"] /\ up' = Append(up, Close(id))
        BY <3>a, <4>1
      <4>3. i # id => contFd'[i] = contFd[i]
        BY <2>1, <4>2 DEF ContTypes
      <4>4. i # id => ~Has(up', "close", i)
        BY <1>b, <2>4, <4>2, PushShape
      <4> QED
        BY <3>2, <3>a, <4>1, <4>3, <4>4
    <3>4. srv[i] = "closed"
      BY <1>a, <3>3 DEF EntryOpen, Opened, ContTypes, FdStates
    <3>5. /\ Flow(down, i, cliSent[i], cliBuf[i], srvGot[i]) /\ Line(down, i, srvGot[i])
          /\ cliSent[i] \in Nat /\ srvGot[i] \in Seq(Chunks)
      BY <3>3, ConstAssumption DEF Downwards, ToSrv, ChunkTypes
    <3>6. Head(down).type = "data"
      BY <2>8 DEF ContData, ContFrame
    <3>7. Len(srvGot[i]) < cliSent[i]
      BY <2>1, <3>3, <3>5, <3>6, HeadMissing
    <3> QED
      BY <2>1, <3>1, <3>3, <3>4, <3>7 DEF SrvCrossed, cliVars
  <2> QED
    BY <1>13, <2>5, <2>6, <2>7, <2>8
<1>14. CASE HostEOF \/ HostExit \/ ContEOF \/ ContExit \/ LinkCut
  BY <1>14, <1>a DEF HostEOF, HostExit, ContEOF, ContExit, LinkCut
<1>15. CASE UNCHANGED vars
  BY <1>1, <1>15, <1>b DEF vars, hostVars, contVars, pipeVars, CliGone, SrvGone
<1> QED
  BY <1>2, <1>3, <1>4, <1>5, <1>6, <1>7, <1>8, <1>9, <1>10, <1>11, <1>12, <1>13, <1>14, <1>15,
     Steps

\* Whatever closes follows from an end that has closed.
LEMMA EndedFirstNext ==
    ASSUME IInv, Fresh, EntryOpen, EndedFirst, [Next]_vars PROVE EndedFirst'
<1> SUFFICES ASSUME link' = "up", NEW i \in Ids, Ending(i)'
             PROVE  /\ srv'[i] # "closed" =>
                        cli'[i] = "closed" /\ (cliBuf'[i] = <<>> \/ CliCrossed(i)')
                    /\ cli'[i] # "closed" =>
                        srv'[i] = "closed" /\ (srvBuf'[i] = <<>> \/ SrvCrossed(i)')
  BY DEF EndedFirst
<1>1. CASE Ending(i)
  <2>1. /\ cliSent[i] \in Nat /\ srvSent[i] \in Nat
        /\ Len(cliGot[i]) \in Nat /\ Len(srvGot[i]) \in Nat
        /\ cliSent'[i] \in Nat /\ srvSent'[i] \in Nat
    BY TypeNext, TypeParts, ConstAssumption DEF IInv, ChunkTypes
  <2>2. link = "up"
    BY LinkUp
  <2> QED
    BY <1>1, <2>1, <2>2, EndsStay DEF EndedFirst, CliCrossed, SrvCrossed
<1>2. CASE ~Ending(i)
  BY <1>2, EndingBegins
<1> QED
  BY <1>1, <1>2

\* The server's end of a connection that is still there begins to close only
\* as its CLOSE is read.
LEMMA SrvGoneBegins ==
    ASSUME IInv, EntryOpen, [Next]_vars, link' = "up", NEW i \in Ids,
           ~SrvGone(i), SrvGone(i)', srv'[i] # "closed"
    PROVE  ContClose /\ Head(down).id = i /\ i \in contConns
<1>0. /\ ContTypes /\ TypeOK /\ Opened /\ Shut
  BY TypeParts DEF IInv
<1> USE <1>0
<1>a. link = "up" /\ ~Broken /\ host = "serve" /\ cont = "serve"
  BY LinkUp DEF Shut
<1>b. contFd'[i] # contFd[i] \/ contRd'[i] # contRd[i]
  BY DEF SrvGone
<1>c. srv[i] # "closed"
  BY EndsStay
<1>1. CASE UNCHANGED <<contFd, contRd>>
  BY <1>1, <1>b
<1>2. ASSUME NEW id \in Ids, CliSend(id) \/ CliClose(id) \/ SrvSend(id) \/ SrvClose(id)
                             \/ HostOpen(id) \/ HostRead(id) \/ HostEnd(id) \/ HostEnded(id)
      PROVE  UNCHANGED <<contFd, contRd>>
  BY <1>2 DEF CliSend, CliClose, SrvSend, SrvClose, HostOpen, HostRead, HostEnd, HostEnded,
     contVars
<1>3. ASSUME NEW id \in Ids, ContRead(id) PROVE UNCHANGED <<contFd, contRd>>
  BY <1>3, <1>a DEF ContRead
<1>4. ASSUME NEW id \in Ids, ContEnd(id) PROVE FALSE
  <2>1. i = id /\ contFd[i] # "closed"
    BY <1>4, <1>b DEF ContEnd, ContTypes, SrvGone
  <2> QED
    BY <1>4, <1>c, <2>1 DEF ContEnd, ContReadEnds
<1>5. ASSUME NEW id \in Ids, ContEnded(id) PROVE FALSE
  BY <1>5, <1>b DEF ContEnded, ContTypes, SrvGone
<1>6. CASE HostAccept \/ HostData \/ HostClose \/ HostEOF \/ HostExit \/ UNCHANGED vars
  <2>1. UNCHANGED contVars
    BY <1>6 DEF HostAccept, HostData, HostClose, HostEOF, HostExit, vars
  <2> QED
    BY <1>b, <2>1 DEF contVars
<1>7. CASE ContOpen \/ ContDialFails
  <2>1. Head(down).id \in Ids
    BY <1>7, ContTakes
  <2> QED
    BY <1>7, <2>1 DEF ContOpen, ContDialFails, ContTypes, SrvGone
<1>8. CASE ContData
  <2>1. Head(down).id \in Ids
    BY <1>8, ContTakes
  <2>2. i = Head(down).id /\ i \in contConns /\ ~(contFd[i] = "open" /\ srv[i] = "open")
    BY <1>8, <1>b, <2>1 DEF ContData, ContTypes
  <2>3. srv[i] = "closed"
    BY <1>a, <2>2 DEF EntryOpen, Opened, ContTypes, FdStates
  <2> QED
    BY <1>c, <2>3
<1>9. CASE ContClose
  <2>1. Head(down).id \in Ids
    BY <1>9, ContTakes
  <2> QED
    BY <1>9, <1>b, <2>1 DEF ContClose, ContTypes
<1>10. CASE ContEOF \/ ContExit \/ LinkCut
  BY <1>10, <1>a DEF ContEOF, ContExit, LinkCut
<1> QED
  BY <1>1, <1>2, <1>3, <1>4, <1>5, <1>6, <1>7, <1>8, <1>9, <1>10, Steps

\* And the client's.
LEMMA CliGoneBegins ==
    ASSUME IInv, EntryOpen, [Next]_vars, link' = "up", NEW i \in Ids,
           ~CliGone(i), CliGone(i)', cli'[i] # "closed"
    PROVE  HostClose /\ Head(up).id = i /\ i \in hostConns
<1>0. /\ HostTypes /\ TypeOK /\ Opened /\ Shut
  BY TypeParts DEF IInv
<1> USE <1>0
<1>a. link = "up" /\ ~Broken /\ host = "serve" /\ cont = "serve"
  BY LinkUp DEF Shut
<1>b. hostFd'[i] # hostFd[i] \/ hostRd'[i] # hostRd[i]
  BY DEF CliGone
<1>c. cli[i] # "closed"
  BY EndsStay
<1>1. CASE UNCHANGED <<hostFd, hostRd>>
  BY <1>1, <1>b
<1>2. ASSUME NEW id \in Ids, CliSend(id) \/ CliClose(id) \/ SrvSend(id) \/ SrvClose(id)
                             \/ ContRead(id) \/ ContEnd(id) \/ ContEnded(id)
      PROVE  UNCHANGED <<hostFd, hostRd>>
  BY <1>2 DEF CliSend, CliClose, SrvSend, SrvClose, ContRead, ContEnd, ContEnded, hostVars
<1>3. ASSUME NEW id \in Ids, HostRead(id) PROVE UNCHANGED <<hostFd, hostRd>>
  BY <1>3, <1>a DEF HostRead
<1>4. ASSUME NEW id \in Ids, HostOpen(id) PROVE FALSE
  BY <1>4, <1>a, <1>b DEF HostOpen, HostTypes, CliGone
<1>5. ASSUME NEW id \in Ids, HostEnd(id) PROVE FALSE
  <2>1. i = id /\ hostFd[i] # "closed"
    BY <1>5, <1>b DEF HostEnd, HostTypes, CliGone
  <2> QED
    BY <1>5, <1>c, <2>1 DEF HostEnd, HostReadEnds
<1>6. ASSUME NEW id \in Ids, HostEnded(id) PROVE FALSE
  BY <1>6, <1>b DEF HostEnded, HostDrop, HostTypes, CliGone
<1>7. CASE HostAccept
  BY <1>7 DEF HostAccept, HostTypes, CliGone
<1>8. CASE HostData
  <2>1. Head(up).id \in Ids
    BY <1>8, HostTakes
  <2>2. i = Head(up).id /\ i \in hostConns /\ ~(hostFd[i] = "open" /\ cli[i] = "open")
    BY <1>8, <1>b, <2>1 DEF HostData, HostTypes
  <2>3. cli[i] = "closed"
    BY <1>a, <2>2 DEF EntryOpen, Opened, HostTypes, FdStates
  <2> QED
    BY <1>c, <2>3
<1>9. CASE HostClose
  <2>1. Head(up).id \in Ids
    BY <1>9, HostTakes
  <2> QED
    BY <1>9, <1>b, <2>1 DEF HostClose, HostTypes
<1>10. CASE ContOpen \/ ContDialFails \/ ContData \/ ContClose \/ UNCHANGED vars
  <2>1. UNCHANGED hostVars
    BY <1>10, ContTakes DEF vars
  <2> QED
    BY <1>b, <2>1 DEF hostVars
<1>11. CASE HostEOF \/ HostExit \/ ContEOF \/ ContExit \/ LinkCut
  BY <1>11, <1>a DEF HostEOF, HostExit, ContEOF, ContExit, LinkCut
<1> QED
  BY <1>1, <1>2, <1>3, <1>4, <1>5, <1>6, <1>7, <1>8, <1>9, <1>10, <1>11, Steps

\* Who sees the end has been given the last chunk.
LEMMA SeenWholeNext ==
    ASSUME IInv, EndInv, [Next]_vars PROVE SeenWhole'
<1> SUFFICES ASSUME link' = "up", NEW i \in Ids
             PROVE  /\ srv'[i] # "closed" /\ SrvGone(i)' =>
                        Len(srvGot'[i]) = cliSent'[i] \/ CliCrossed(i)'
                    /\ cli'[i] # "closed" /\ CliGone(i)' =>
                        Len(cliGot'[i]) = srvSent'[i] \/ SrvCrossed(i)'
  BY DEF SeenWhole
<1>0. /\ HostTypes /\ ContTypes /\ ChunkTypes /\ PipeTypes /\ TypeOK /\ Opened
      /\ Downwards /\ Upwards /\ down \in Seq(Frames) /\ up \in Seq(Frames)
      /\ Fresh /\ ClosedLast /\ EntryOpen /\ EndedFirst /\ SeenWhole
  BY TypeParts DEF IInv, PipeTypes, EndInv
<1> USE <1>0
<1>a. link = "up"
  BY LinkUp
<1>b. /\ cliSent[i] \in Nat /\ srvSent[i] \in Nat
      /\ Len(cliGot[i]) \in Nat /\ Len(srvGot[i]) \in Nat
  BY ConstAssumption DEF ChunkTypes
<1>c. /\ cliSent'[i] \in Nat /\ srvSent'[i] \in Nat
      /\ Len(cliGot'[i]) \in Nat /\ Len(srvGot'[i]) \in Nat
  BY TypeNext, TypeParts, ConstAssumption DEF ChunkTypes
<1>d. Len(srvGot'[i]) <= cliSent'[i] /\ Len(cliGot'[i]) <= srvSent'[i]
  <2>1. Downwards' /\ Upwards'
    BY DownwardsNext, UpwardsNext
  <2> QED
    BY <2>1 DEF Downwards, Upwards, Flow, Given
<1>1. ASSUME srv'[i] # "closed", SrvGone(i)'
      PROVE  Len(srvGot'[i]) = cliSent'[i] \/ CliCrossed(i)'
  <2>1. srv[i] # "closed"
    BY <1>1, EndsStay
  <2>2. CASE SrvGone(i)
    <3>1. cli[i] = "closed"
      BY <1>a, <2>1, <2>2 DEF EndedFirst, Ending
    <3>2. Len(srvGot[i]) = cliSent[i] \/ CliCrossed(i)
      BY <1>a, <2>1, <2>2 DEF SeenWhole
    <3> QED
      BY <1>b, <1>c, <1>d, <3>1, <3>2, EndsStay DEF CliCrossed
  <2>3. CASE ~SrvGone(i)
    <3>1. ContClose /\ Head(down).id = i /\ i \in contConns
      BY <1>1, <2>3, SrvGoneBegins DEF IInv
    <3>2. down # <<>> /\ Head(down).type = "close"
      BY <3>1 DEF ContClose, ContFrame
    <3>3. Has(down, "close", i)
      BY <3>1, <3>2, PopShape
    <3>4. cli[i] = "closed" /\ (cliBuf[i] = <<>> \/ CliCrossed(i))
      BY <1>a, <2>1, <3>3 DEF EndedFirst, Ending
    <3>5. CASE CliCrossed(i)
      BY <1>b, <1>c, <3>4, <3>5, EndsStay DEF CliCrossed
    <3>6. CASE cliBuf[i] = <<>>
      <4>1. CloseLast(down, i)
        BY DEF ClosedLast
      <4>2. NoData(down, i)
        BY <3>1, <3>2, <4>1, PopLast
      <4>3. Full(down, i, cliSent[i], cliBuf[i], srvGot[i])
        BY <1>a, <3>1 DEF Downwards, ToSrv
      <4>4. Len(srvGot[i]) = cliSent[i]
        BY <1>b, <3>6, <4>2, <4>3, Drained
      <4> QED
        BY <3>4, <4>4, <1>b, <1>c, <1>d, EndsStay
    <3> QED
      BY <3>4, <3>5, <3>6
  <2> QED
    BY <2>2, <2>3
<1>2. ASSUME cli'[i] # "closed", CliGone(i)'
      PROVE  Len(cliGot'[i]) = srvSent'[i] \/ SrvCrossed(i)'
  <2>1. cli[i] # "closed"
    BY <1>2, EndsStay
  <2>2. CASE CliGone(i)
    <3>1. srv[i] = "closed"
      BY <1>a, <2>1, <2>2 DEF EndedFirst, Ending
    <3>2. Len(cliGot[i]) = srvSent[i] \/ SrvCrossed(i)
      BY <1>a, <2>1, <2>2 DEF SeenWhole
    <3> QED
      BY <1>b, <1>c, <1>d, <3>1, <3>2, EndsStay DEF SrvCrossed
  <2>3. CASE ~CliGone(i)
    <3>1. HostClose /\ Head(up).id = i /\ i \in hostConns
      BY <1>2, <2>3, CliGoneBegins DEF IInv
    <3>2. up # <<>> /\ Head(up).type = "close"
      BY <3>1 DEF HostClose, HostFrame
    <3>3. Has(up, "close", i)
      BY <3>1, <3>2, PopShape
    <3>4. srv[i] = "closed" /\ (srvBuf[i] = <<>> \/ SrvCrossed(i))
      BY <1>a, <2>1, <3>3 DEF EndedFirst, Ending
    <3>5. CASE SrvCrossed(i)
      BY <1>b, <1>c, <3>4, <3>5, EndsStay DEF SrvCrossed
    <3>6. CASE srvBuf[i] = <<>>
      <4>1. CloseLast(up, i)
        BY DEF ClosedLast
      <4>2. NoData(up, i)
        BY <3>1, <3>2, <4>1, PopLast
      <4>3. Full(up, i, srvSent[i], srvBuf[i], cliGot[i])
        BY <1>a, <3>1 DEF Upwards, ToCli
      <4>4. Len(cliGot[i]) = srvSent[i]
        BY <1>b, <3>6, <4>2, <4>3, Drained
      <4> QED
        BY <3>4, <4>4, <1>b, <1>c, <1>d, EndsStay
    <3> QED
      BY <3>4, <3>5, <3>6
  <2> QED
    BY <2>2, <2>3
<1> QED
  BY <1>1, <1>2

-----------------------------------------------------------------------------
\* EndInv is inductive, beside IInv.
LEMMA EndInvariant == Spec => []EndInv
<1>1. Init => EndInv
  <2> SUFFICES ASSUME Init PROVE EndInv
    OBVIOUS
  <2>1. down = <<>> /\ up = <<>> /\ Len(down) = 0 /\ Len(up) = 0 /\ \A k \in 1 .. 0 : FALSE
    BY DEF Init
  <2>2. Fresh /\ EntryOpen
    BY DEF Init, Fresh, EntryOpen
  <2>3. ClosedLast
    BY <2>1 DEF ClosedLast, CloseLast, Has
  <2>4. \A i \in Ids : ~Ending(i)
    BY <2>1 DEF Init, Ending, CliGone, SrvGone, Has
  <2> QED
    BY <2>2, <2>3, <2>4 DEF EndInv, EndedFirst, SeenWhole, Ending
<1>2. IInv /\ EndInv /\ [Next]_vars => EndInv'
  BY FreshNext, ClosedLastNext, EntryOpenNext, EndedFirstNext, SeenWholeNext DEF EndInv
<1> QED
  BY <1>1, <1>2, Invariant, PTL DEF Spec

\* Who sees the end of its connection while the transport holds has been
\* given all that the other end wrote, or the two closed on each other
\* (host.go 112-115 and 140-161, container.go 57-63 and 81-88).
THEOREM NothingCutShortHolds == Spec => []NothingCutShort
<1>1. EndInv => NothingCutShort
  BY DEF EndInv, SeenWhole, SrvGone, CliGone, CliCrossed, SrvCrossed, NothingCutShort
<1> QED
  BY <1>1, EndInvariant, PTL

-----------------------------------------------------------------------------
(***************************************************************************)
(* Each connection is a Stream.                                            *)
(***************************************************************************)

\* Nothing of connection i that its ends see has changed.
LEMMA Stutter ==
    ASSUME NEW i \in Ids, link' = link,
           cli'[i] = cli[i], srv'[i] = srv[i], hostFd'[i] = hostFd[i], contFd'[i] = contFd[i],
           cliSent'[i] = cliSent[i], srvSent'[i] = srvSent[i],
           cliGot'[i] = cliGot[i], srvGot'[i] = srvGot[i]
    PROVE  UNCHANGED Conn(i)!vars
  BY DEF Conn!vars

\* The client's end of i goes, or nothing does.
LEMMA CliEndsNow ==
    ASSUME EndInv', NEW i \in Ids, link \in {"up", "cut"}, link' = link,
           cli'[i] = cli[i], srv'[i] = srv[i], contFd'[i] = contFd[i],
           cliSent'[i] = cliSent[i], srvSent'[i] = srvSent[i],
           cliGot'[i] = cliGot[i], srvGot'[i] = srvGot[i],
           hostFd'[i] = hostFd[i] \/ (hostFd[i] = "open" /\ hostFd'[i] = "closed")
    PROVE  [Conn(i)!Next]_(Conn(i)!vars)
<1>1. CASE hostFd'[i] = hostFd[i]
  BY <1>1, Stutter
<1>2. CASE hostFd[i] = "open" /\ hostFd'[i] = "closed"
  <2>1. \/ cli[i] = "closed"
        \/ /\ srv[i] = "closed"
           /\ Len(cliGot[i]) = srvSent[i] \/ Len(srvGot[i]) < cliSent[i]
        \/ link = "cut"
    BY <1>2 DEF EndInv, EndedFirst, SeenWhole, Ending, CliGone, SrvCrossed
  <2>2. Conn(i)!CliEnds
    BY <1>2, <2>1 DEF Conn!CliEnds, Conn!Complete
  <2> QED
    BY <2>2 DEF Conn!Next
<1> QED
  BY <1>1, <1>2

\* The server's end of i goes, or nothing does.
LEMMA SrvEndsNow ==
    ASSUME EndInv', NEW i \in Ids, link \in {"up", "cut"}, link' = link,
           cli'[i] = cli[i], srv'[i] = srv[i], hostFd'[i] = hostFd[i],
           cliSent'[i] = cliSent[i], srvSent'[i] = srvSent[i],
           cliGot'[i] = cliGot[i], srvGot'[i] = srvGot[i],
           contFd'[i] = contFd[i] \/ (contFd[i] = "open" /\ contFd'[i] = "closed")
    PROVE  [Conn(i)!Next]_(Conn(i)!vars)
<1>1. CASE contFd'[i] = contFd[i]
  BY <1>1, Stutter
<1>2. CASE contFd[i] = "open" /\ contFd'[i] = "closed"
  <2>1. \/ srv[i] = "closed"
        \/ /\ cli[i] = "closed"
           /\ Len(srvGot[i]) = cliSent[i] \/ Len(cliGot[i]) < srvSent[i]
        \/ link = "cut"
    BY <1>2 DEF EndInv, EndedFirst, SeenWhole, Ending, SrvGone, CliCrossed
  <2>2. Conn(i)!SrvEnds
    BY <1>2, <2>1 DEF Conn!SrvEnds, Conn!Complete
  <2> QED
    BY <2>2 DEF Conn!Next
<1> QED
  BY <1>1, <1>2

\* A chunk at the head of its pipe is the next of its connection.
LEMMA HeadNext ==
    ASSUME NEW p \in Seq(Frames), p # <<>>, NEW i \in Ids, NEW sent \in Nat,
           NEW buf \in Seq(Chunks), NEW got \in Seq(Chunks),
           Flow(p, i, sent, buf, got), Line(p, i, got), Head(p).type = "data", Head(p).id = i
    PROVE  /\ Len(got) < sent
           /\ Head(p).chunk = [id |-> i, n |-> Len(got) + 1]
<1>1. Head(p) = p[1] /\ Head(p) \in Frames
  OBVIOUS
<1>2. IsData(p, 1, i) /\ Head(p).chunk \in Chunks
  BY <1>1, FrameFields DEF IsData
<1> DEFINE c == Head(p).chunk
<1>3. Given(Append(got, c), i, sent)
  BY <1>2, GiveFlow DEF Flow
<1> HIDE DEF c
<1>4. Len(got) + 1 \in 1 .. Len(Append(got, c)) /\ Append(got, c)[Len(got) + 1] = c
  OBVIOUS
<1>5. c = [id |-> i, n |-> Len(got) + 1]
  BY <1>3, <1>4 DEF Given
<1> QED
  BY <1>5, HeadMissing DEF c

\* Every step of the relay is a step of the Stream of each connection, or
\* none of it.
LEMMA StreamStep ==
    ASSUME IInv, EndInv, [Next]_vars, NEW i \in Ids
    PROVE  [Conn(i)!Next]_(Conn(i)!vars)
<1>0. /\ HostTypes /\ ContTypes /\ ChunkTypes /\ PipeTypes /\ TypeOK /\ Opened /\ Shut
      /\ Downwards /\ Upwards /\ Fresh /\ link \in {"up", "cut"}
  BY TypeParts DEF IInv, PipeTypes, EndInv
<1>p. EndInv'
  BY FreshNext, ClosedLastNext, EntryOpenNext, EndedFirstNext, SeenWholeNext DEF EndInv
<1> USE <1>0
<1> DEFINE Goal == [Conn(i)!Next]_(Conn(i)!vars)
<1> SUFFICES Goal
  OBVIOUS
<1>1. ASSUME NEW id \in Ids, CliSend(id) \/ CliClose(id) PROVE Goal
  <2>1. CASE i = id
    <3>1. Conn(i)!CliSend \/ Conn(i)!CliClose
      BY <1>1, <2>1 DEF CliSend, CliClose, HostTypes, ChunkTypes, Conn!CliSend, Conn!CliClose,
         hostVars, contVars, srvVars, pipeVars
    <3> QED
      BY <3>1 DEF Conn!Next
  <2>2. CASE i # id
    BY <1>1, <2>2, Stutter DEF CliSend, CliClose, HostTypes, ChunkTypes, hostVars, contVars,
       srvVars, pipeVars
  <2> QED
    BY <2>1, <2>2
<1>2. ASSUME NEW id \in Ids, SrvSend(id) \/ SrvClose(id) PROVE Goal
  <2>1. CASE i = id
    <3>1. Conn(i)!SrvSend \/ Conn(i)!SrvClose
      BY <1>2, <2>1 DEF SrvSend, SrvClose, ContTypes, ChunkTypes, Conn!SrvSend, Conn!SrvClose,
         hostVars, contVars, cliVars, pipeVars
    <3> QED
      BY <3>1 DEF Conn!Next
  <2>2. CASE i # id
    BY <1>2, <2>2, Stutter DEF SrvSend, SrvClose, ContTypes, ChunkTypes, hostVars, contVars,
       cliVars, pipeVars
  <2> QED
    BY <2>1, <2>2
<1>3. ASSUME NEW id \in Ids, HostOpen(id) \/ HostRead(id) \/ HostEnd(id) \/ HostEnded(id)
      PROVE  Goal
  <2>1. hostFd' = hostFd \/ hostFd' = [hostFd EXCEPT ![id] = "closed"]
    BY <1>3 DEF HostOpen, HostRead, HostEnd, HostEnded, HostDrop
  <2>2. hostFd[id] # "none"
    BY <1>3 DEF HostOpen, HostRead, HostEnd, HostEnded, Fresh
  <2>3. hostFd'[i] = hostFd[i] \/ (hostFd[i] = "open" /\ hostFd'[i] = "closed")
    BY <2>1, <2>2 DEF HostTypes, FdStates
  <2>4. UNCHANGED <<link, cli, cliSent, cliGot>> /\ UNCHANGED contVars /\ UNCHANGED srvVars
    BY <1>3 DEF HostOpen, HostRead, HostEnd, HostEnded, cliVars, pipeVars
  <2> QED
    BY <1>p, <2>3, <2>4, CliEndsNow DEF contVars, srvVars
<1>4. ASSUME NEW id \in Ids, ContRead(id) \/ ContEnd(id) \/ ContEnded(id) PROVE Goal
  <2>1. contFd' = contFd \/ contFd' = [contFd EXCEPT ![id] = "closed"]
    BY <1>4 DEF ContRead, ContEnd, ContEnded
  <2>2. contFd[id] # "none"
    BY <1>4 DEF ContRead, ContEnd, ContEnded, Fresh
  <2>3. contFd'[i] = contFd[i] \/ (contFd[i] = "open" /\ contFd'[i] = "closed")
    BY <2>1, <2>2 DEF ContTypes, FdStates
  <2>4. UNCHANGED <<link, srv, srvSent, srvGot>> /\ UNCHANGED hostVars /\ UNCHANGED cliVars
    BY <1>4 DEF ContRead, ContEnd, ContEnded, srvVars, pipeVars
  <2> QED
    BY <1>p, <2>3, <2>4, SrvEndsNow DEF hostVars, cliVars
<1>5. CASE HostAccept
  <2>1. nextID + 1 \in Ids /\ cli[nextID + 1] = "none"
    BY <1>5, ConstAssumption DEF HostAccept, HostTypes, Opened, Ids
  <2>2. CASE i = nextID + 1
    <3>1. Conn(i)!Connect
      BY <1>5, <2>1, <2>2 DEF HostAccept, HostTypes, Conn!Connect, contVars, srvVars, pipeVars
    <3> QED
      BY <3>1 DEF Conn!Next
  <2>3. CASE i # nextID + 1
    BY <1>5, <2>3, Stutter DEF HostAccept, HostTypes, contVars, srvVars, pipeVars
  <2> QED
    BY <2>2, <2>3
<1>6. CASE HostData \/ HostClose
  <2> DEFINE id == Head(up).id
  <2>1. /\ up # <<>> /\ up \in Seq(Frames) /\ id \in Ids
        /\ UNCHANGED <<link, cli, cliSent>> /\ UNCHANGED contVars /\ UNCHANGED srvVars
    BY <1>6, HostTakes
  <2>2. \/ /\ cliGot' = cliGot
           /\ hostFd' = hostFd
              \/ (id \in hostConns /\ hostFd' = [hostFd EXCEPT ![id] = "closed"])
        \/ /\ Head(up).type = "data" /\ id \in hostConns
           /\ hostFd[id] = "open" /\ cli[id] = "open" /\ hostFd' = hostFd
           /\ cliGot' = [cliGot EXCEPT ![id] = Append(@, Head(up).chunk)]
    BY <1>6 DEF HostData, HostClose, HostFrame, cliVars
  <2>3. CASE cliGot' = cliGot
    <3>1. id \in hostConns => hostFd[id] # "none"
      BY <2>1 DEF Opened
    <3>2. hostFd'[i] = hostFd[i] \/ (hostFd[i] = "open" /\ hostFd'[i] = "closed")
      BY <2>1, <2>2, <3>1 DEF HostTypes, FdStates
    <3> QED
      BY <1>p, <2>1, <2>3, <3>2, CliEndsNow DEF contVars, srvVars
  <2>4. CASE /\ Head(up).type = "data" /\ id \in hostConns
             /\ hostFd[id] = "open" /\ cli[id] = "open" /\ hostFd' = hostFd
             /\ cliGot' = [cliGot EXCEPT ![id] = Append(@, Head(up).chunk)]
    <3>1. CASE i = id
      <4>1. /\ Flow(up, i, srvSent[i], srvBuf[i], cliGot[i]) /\ Line(up, i, cliGot[i])
            /\ srvSent[i] \in Nat /\ cliGot[i] \in Seq(Chunks) /\ srvBuf[i] \in Seq(Chunks)
        BY <2>4, <3>1, ConstAssumption DEF Upwards, ToCli, ChunkTypes
      <4>2. /\ Len(cliGot[i]) < srvSent[i]
            /\ Head(up).chunk = [id |-> i, n |-> Len(cliGot[i]) + 1]
        BY <2>1, <2>4, <3>1, <4>1, HeadNext
      <4>3. Conn(i)!CliGets
        BY <2>1, <2>4, <3>1, <4>2 DEF Conn!CliGets, ChunkTypes, contVars, srvVars
      <4> QED
        BY <4>3 DEF Conn!Next
    <3>2. CASE i # id
      BY <2>1, <2>4, <3>2, Stutter DEF ChunkTypes, contVars, srvVars
    <3> QED
      BY <3>1, <3>2
  <2> QED
    BY <2>2, <2>3, <2>4
<1>7. CASE ContOpen \/ ContDialFails
  <2> DEFINE id == Head(down).id
  <2>1. /\ down # <<>> /\ down \in Seq(Frames) /\ id \in Ids /\ link' = link
        /\ UNCHANGED hostVars /\ UNCHANGED cliVars /\ UNCHANGED <<srvSent, srvGot>>
    BY <1>7, ContTakes DEF ContOpen, ContDialFails
  <2>2. Head(down).type = "open"
    BY <1>7 DEF ContOpen, ContDialFails, ContFrame
  <2>3. Has(down, "open", id) /\ ~Absent(down, id)
    BY <2>1, <2>2, PopShape
  <2>4. srv[id] = "none" /\ cli[id] # "none"
    BY <2>1, <2>3 DEF Opened, Fresh
  <2>5. \/ /\ srv' = [srv EXCEPT ![id] = "open"] /\ contFd' = [contFd EXCEPT ![id] = "open"]
        \/ /\ srv' = [srv EXCEPT ![id] = "closed"] /\ contFd' = contFd
    BY <1>7 DEF ContOpen, ContDialFails
  <2>6. CASE i = id
    <3>1. Conn(i)!Dial
      BY <2>1, <2>4, <2>5, <2>6 DEF Conn!Dial, ContTypes, hostVars, cliVars
    <3> QED
      BY <3>1 DEF Conn!Next
  <2>7. CASE i # id
    BY <2>1, <2>5, <2>7, Stutter DEF ContTypes, hostVars, cliVars
  <2> QED
    BY <2>6, <2>7
<1>8. CASE ContData \/ ContClose
  <2> DEFINE id == Head(down).id
  <2>1. /\ down # <<>> /\ down \in Seq(Frames) /\ id \in Ids /\ link' = link
        /\ UNCHANGED hostVars /\ UNCHANGED cliVars /\ UNCHANGED <<srv, srvSent>>
    BY <1>8, ContTakes DEF ContData, ContClose, srvVars
  <2>2. \/ /\ srvGot' = srvGot
           /\ contFd' = contFd
              \/ (id \in contConns /\ contFd' = [contFd EXCEPT ![id] = "closed"])
        \/ /\ Head(down).type = "data" /\ id \in contConns
           /\ contFd[id] = "open" /\ srv[id] = "open" /\ contFd' = contFd
           /\ srvGot' = [srvGot EXCEPT ![id] = Append(@, Head(down).chunk)]
    BY <1>8 DEF ContData, ContClose, ContFrame, srvVars
  <2>3. CASE srvGot' = srvGot
    <3>1. id \in contConns => contFd[id] # "none"
      BY <2>1 DEF Opened
    <3>2. contFd'[i] = contFd[i] \/ (contFd[i] = "open" /\ contFd'[i] = "closed")
      BY <2>1, <2>2, <3>1 DEF ContTypes, FdStates
    <3> QED
      BY <1>p, <2>1, <2>3, <3>2, SrvEndsNow DEF hostVars, cliVars
  <2>4. CASE /\ Head(down).type = "data" /\ id \in contConns
             /\ contFd[id] = "open" /\ srv[id] = "open" /\ contFd' = contFd
             /\ srvGot' = [srvGot EXCEPT ![id] = Append(@, Head(down).chunk)]
    <3>1. CASE i = id
      <4>1. /\ Flow(down, i, cliSent[i], cliBuf[i], srvGot[i]) /\ Line(down, i, srvGot[i])
            /\ cliSent[i] \in Nat /\ srvGot[i] \in Seq(Chunks) /\ cliBuf[i] \in Seq(Chunks)
        BY <2>4, <3>1, ConstAssumption DEF Downwards, ToSrv, ChunkTypes
      <4>2. /\ Len(srvGot[i]) < cliSent[i]
            /\ Head(down).chunk = [id |-> i, n |-> Len(srvGot[i]) + 1]
        BY <2>1, <2>4, <3>1, <4>1, HeadNext
      <4>3. Conn(i)!SrvGets
        BY <2>1, <2>4, <3>1, <4>2 DEF Conn!SrvGets, ChunkTypes, hostVars, cliVars
      <4> QED
        BY <4>3 DEF Conn!Next
    <3>2. CASE i # id
      BY <2>1, <2>4, <3>2, Stutter DEF ChunkTypes, hostVars, cliVars
    <3> QED
      BY <3>1, <3>2
  <2> QED
    BY <2>2, <2>3, <2>4
<1>9. CASE HostEOF \/ HostExit
  <2>1. hostFd'[i] = hostFd[i] \/ (hostFd[i] = "open" /\ hostFd'[i] = "closed")
    BY <1>9 DEF HostEOF, HostExit, Opened, HostTypes, FdStates
  <2>2. link' = link /\ UNCHANGED cliVars /\ UNCHANGED contVars /\ UNCHANGED srvVars
    BY <1>9 DEF HostEOF, HostExit, pipeVars
  <2> QED
    BY <1>p, <2>1, <2>2, CliEndsNow DEF cliVars, contVars, srvVars
<1>10. CASE ContEOF
  <2>1. contFd'[i] = contFd[i] \/ (contFd[i] = "open" /\ contFd'[i] = "closed")
    BY <1>10 DEF ContEOF, Opened, ContTypes, FdStates
  <2>2. link' = link /\ UNCHANGED cliVars /\ UNCHANGED hostVars /\ UNCHANGED srvVars
    BY <1>10 DEF ContEOF, pipeVars
  <2> QED
    BY <1>p, <2>1, <2>2, SrvEndsNow DEF cliVars, hostVars, srvVars
<1>11. CASE ContExit
  <2>1. link = "cut"
    BY <1>11 DEF ContExit, Shut
  <2>2. /\ link' = link /\ UNCHANGED cliVars /\ UNCHANGED hostVars
        /\ UNCHANGED <<srvSent, srvGot>>
        /\ contFd'[i] = IF contFd[i] = "open" THEN "closed" ELSE contFd[i]
        /\ srv'[i] = IF srv[i] = "open" THEN "closed" ELSE srv[i]
    BY <1>11 DEF ContExit, pipeVars
  <2>3. CASE srv[i] = "open"
    <3>1. contFd'[i] = "closed"
      BY <2>2, <2>3 DEF Fresh, ContTypes, FdStates
    <3>2. Conn(i)!ServerGone
      BY <2>1, <2>2, <2>3, <3>1 DEF Conn!ServerGone, cliVars, hostVars
    <3> QED
      BY <3>2 DEF Conn!Next
  <2>4. CASE srv[i] # "open"
    BY <1>p, <2>2, <2>4, SrvEndsNow DEF cliVars, hostVars
  <2> QED
    BY <2>3, <2>4
<1>12. CASE LinkCut
  <2>1. Conn(i)!Cut
    BY <1>12 DEF LinkCut, Conn!Cut, hostVars, cliVars, contVars, srvVars
  <2> QED
    BY <2>1 DEF Conn!Next
<1>13. CASE UNCHANGED vars
  BY <1>13, Stutter DEF vars, hostVars, cliVars, contVars, srvVars, pipeVars
<1> QED
  BY <1>1, <1>2, <1>3, <1>4, <1>5, <1>6, <1>7, <1>8, <1>9, <1>10, <1>11, <1>12, <1>13, Steps

\* The two ends of every connection are connected as if the client had
\* dialled the server itself: the frames, maps and goroutines in between, and
\* the other connections, are not visible (host.go 90-179, container.go 18-88).
THEOREM RelayImplementsStreams == Spec => ImplementsStreams
<1>1. Init => \A i \in Ids : Conn(i)!Init
  BY DEF Init, Conn!Init
<1>2. IInv /\ EndInv /\ [Next]_vars => [\A i \in Ids : [Conn(i)!Next]_(Conn(i)!vars)]_vars
  BY StreamStep
<1> QED
  BY <1>1, <1>2, Invariant, EndInvariant, PTL DEF Spec, ImplementsStreams

\* The same for one of them: it refines the abstract specification.
THEOREM ConnectionIsStream == ASSUME NEW i \in Ids PROVE Spec => Conn(i)!Spec
<1>1. Init => Conn(i)!Init
  BY DEF Init, Conn!Init
<1>2. IInv /\ EndInv /\ [Next]_vars => [Conn(i)!Next]_(Conn(i)!vars)
  BY StreamStep
<1> QED
  BY <1>1, <1>2, Invariant, EndInvariant, PTL DEF Spec, Conn!Spec

=============================================================================
