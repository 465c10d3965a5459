---------------------------- MODULE RelayProofs ----------------------------
(***************************************************************************)
(* Proofs about module Relay, for any number of connections and chunks and *)
(* any capacity of the pipe. The argument: the chunks of a connection that *)
(* are in a pipe follow, without a gap, those its far end has been given,  *)
(* and those still in its socket follow them; and a CLOSE is in a pipe     *)
(* only when one of the two ends has closed.                               *)
(***************************************************************************)
EXTENDS Relay, TLAPS

-----------------------------------------------------------------------------
(***************************************************************************)
(* Chunks in a pipe.                                                       *)
(***************************************************************************)
IsData(p, k, i) == p[k].type = "data" /\ p[k].id = i
Num(p, k) == p[k].chunk.n

\* Connection i has been given g chunks: those in p follow without a gap.
InOrder(p, i, g) ==
    /\ \A k \in 1 .. Len(p) : IsData(p, k, i) =>
        /\ Num(p, k) > g
        /\ \/ Num(p, k) = g + 1
           \/ \E j \in 1 .. k - 1 : IsData(p, j, i) /\ Num(p, j) = Num(p, k) - 1
    /\ \A k, l \in 1 .. Len(p) :
        k < l /\ IsData(p, k, i) /\ IsData(p, l, i) => Num(p, k) < Num(p, l)

\* v is the number of the last chunk of i in p, or g if there is none.
Fed(p, i, g, v) ==
    /\ v = g \/ \E k \in 1 .. Len(p) : IsData(p, k, i) /\ Num(p, k) = v
    /\ \A k \in 1 .. Len(p) : IsData(p, k, i) => Num(p, k) <= v

\* Every chunk of i in p is one of its own, and has been sent.
Written(p, i, sent) ==
    \A k \in 1 .. Len(p) : IsData(p, k, i) => p[k].chunk.id = i /\ Num(p, k) <= sent

\* The socket of i holds the last of the chunks sent.
Buffered(buf, i, sent) ==
    /\ Len(buf) <= sent
    /\ \A m \in 1 .. Len(buf) : buf[m] = [id |-> i, n |-> sent - Len(buf) + m]

\* What is given to i are the first of the chunks sent.
Given(got, i, sent) ==
    /\ Len(got) <= sent
    /\ \A n \in 1 .. Len(got) : got[n] = [id |-> i, n |-> n]

\* What a frame is.
LEMMA FrameFields ==
    ASSUME NEW f \in Frames
    PROVE  f.id \in Ids /\ (f.type = "data" => f.chunk \in Chunks /\ f.chunk.n \in Nat)
  BY ConstAssumption DEF Frames, Chunks, Ids

\* Numbers of chunks.
LEMMA NumNat ==
    ASSUME NEW p \in Seq(Frames), NEW i \in Ids, NEW k \in 1 .. Len(p), IsData(p, k, i)
    PROVE  Num(p, k) \in Nat
<1>1. p[k] \in Frames
  OBVIOUS
<1> QED
  BY <1>1, FrameFields DEF IsData, Num

\* The first frame goes and is not a chunk of i.
LEMMA PopOther ==
    ASSUME NEW p \in Seq(Frames), p # <<>>, NEW i \in Ids, ~IsData(p, 1, i)
    PROVE  /\ \A g \in Nat : InOrder(p, i, g) => InOrder(Tail(p), i, g)
           /\ \A g, v \in Nat : Fed(p, i, g, v) => Fed(Tail(p), i, g, v)
           /\ \A s \in Nat : Written(p, i, s) => Written(Tail(p), i, s)
<1>1. Len(Tail(p)) = Len(p) - 1 /\ \A k \in 1 .. Len(p) - 1 : Tail(p)[k] = p[k + 1]
  OBVIOUS
<1>2. \A k \in 1 .. Len(p) - 1 :
        (IsData(Tail(p), k, i) <=> IsData(p, k + 1, i)) /\ Num(Tail(p), k) = Num(p, k + 1)
  BY <1>1 DEF IsData, Num
<1>3. ASSUME NEW g \in Nat, InOrder(p, i, g) PROVE InOrder(Tail(p), i, g)
  <2>1. ASSUME NEW k \in 1 .. Len(p) - 1, IsData(Tail(p), k, i),
               Num(Tail(p), k) # g + 1
        PROVE  \E j \in 1 .. k - 1 : IsData(Tail(p), j, i) /\ Num(Tail(p), j) = Num(Tail(p), k) - 1
    <3>1. PICK j \in 1 .. k : IsData(p, j, i) /\ Num(p, j) = Num(p, k + 1) - 1
      BY <1>2, <1>3, <2>1 DEF InOrder
    <3>2. j # 1
      BY <3>1
    <3>3. j - 1 \in 1 .. k - 1 /\ j - 1 \in 1 .. Len(p) - 1 /\ (j - 1) + 1 = j
      BY <3>2
    <3>4. IsData(Tail(p), j - 1, i) /\ Num(Tail(p), j - 1) = Num(Tail(p), k) - 1
      BY <1>2, <3>1, <3>3
    <3> QED
      BY <3>3, <3>4
  <2>2. ASSUME NEW k \in 1 .. Len(p) - 1, IsData(Tail(p), k, i) PROVE Num(Tail(p), k) > g
    BY <1>2, <1>3, <2>2 DEF InOrder
  <2>3. ASSUME NEW k \in 1 .. Len(p) - 1, NEW l \in 1 .. Len(p) - 1, k < l,
               IsData(Tail(p), k, i), IsData(Tail(p), l, i)
        PROVE  Num(Tail(p), k) < Num(Tail(p), l)
    BY <1>2, <1>3, <2>3 DEF InOrder
  <2> QED
    BY <1>1, <2>1, <2>2, <2>3 DEF InOrder
<1>4. ASSUME NEW g \in Nat, NEW v \in Nat, Fed(p, i, g, v) PROVE Fed(Tail(p), i, g, v)
  <2>1. ASSUME v # g
        PROVE  \E k \in 1 .. Len(p) - 1 : IsData(Tail(p), k, i) /\ Num(Tail(p), k) = v
    <3>1. PICK k \in 1 .. Len(p) : IsData(p, k, i) /\ Num(p, k) = v
      BY <1>4, <2>1 DEF Fed
    <3>2. k - 1 \in 1 .. Len(p) - 1 /\ (k - 1) + 1 = k
      BY <3>1
    <3> QED
      BY <1>2, <3>1, <3>2
  <2>2. \A k \in 1 .. Len(p) - 1 : IsData(Tail(p), k, i) => Num(Tail(p), k) <= v
    BY <1>2, <1>4 DEF Fed
  <2> QED
    BY <1>1, <2>1, <2>2 DEF Fed
<1>5. ASSUME NEW s \in Nat, Written(p, i, s) PROVE Written(Tail(p), i, s)
  BY <1>1, <1>2, <1>5 DEF Written, IsData
<1> QED
  BY <1>3, <1>4, <1>5

\* The first frame goes and is a chunk of i: the one it waits for.
LEMMA PopOwn ==
    ASSUME NEW p \in Seq(Frames), p # <<>>, NEW i \in Ids, IsData(p, 1, i),
           NEW g \in Nat, InOrder(p, i, g)
    PROVE  /\ Num(p, 1) = g + 1
           /\ InOrder(Tail(p), i, g + 1)
           /\ \A v \in Nat : Fed(p, i, g, v) => Fed(Tail(p), i, g + 1, v)
           /\ \A s \in Nat : Written(p, i, s) => Written(Tail(p), i, s) /\ g + 1 <= s
<1>1. Len(p) \in Nat \ {0} /\ Len(Tail(p)) = Len(p) - 1
      /\ \A k \in 1 .. Len(p) - 1 : Tail(p)[k] = p[k + 1]
  OBVIOUS
<1>2. \A k \in 1 .. Len(p) - 1 :
        (IsData(Tail(p), k, i) <=> IsData(p, k + 1, i)) /\ Num(Tail(p), k) = Num(p, k + 1)
  BY <1>1 DEF IsData, Num
<1>3. Num(p, 1) = g + 1
  BY <1>1 DEF InOrder
<1>4. \A k \in 1 .. Len(p) - 1 : IsData(p, k + 1, i) =>
        Num(p, k + 1) \in Nat /\ Num(p, k + 1) > g + 1
  BY <1>1, <1>3, NumNat DEF InOrder
<1>5. InOrder(Tail(p), i, g + 1)
  <2>1. ASSUME NEW k \in 1 .. Len(p) - 1, IsData(Tail(p), k, i),
               Num(Tail(p), k) # g + 2
        PROVE  \E j \in 1 .. k - 1 : IsData(Tail(p), j, i) /\ Num(Tail(p), j) = Num(Tail(p), k) - 1
    <3>1. PICK j \in 1 .. k : IsData(p, j, i) /\ Num(p, j) = Num(p, k + 1) - 1
      BY <1>2, <1>4, <2>1 DEF InOrder
    <3>2. j # 1
      BY <1>2, <1>3, <1>4, <2>1, <3>1
    <3>3. j - 1 \in 1 .. k - 1 /\ j - 1 \in 1 .. Len(p) - 1 /\ (j - 1) + 1 = j
      BY <3>2
    <3>4. IsData(Tail(p), j - 1, i) /\ Num(Tail(p), j - 1) = Num(Tail(p), k) - 1
      BY <1>2, <3>1, <3>3
    <3> QED
      BY <3>3, <3>4
  <2>2. ASSUME NEW k \in 1 .. Len(p) - 1, NEW l \in 1 .. Len(p) - 1, k < l,
               IsData(Tail(p), k, i), IsData(Tail(p), l, i)
        PROVE  Num(Tail(p), k) < Num(Tail(p), l)
    BY <1>2, <2>2 DEF InOrder
  <2> QED
    BY <1>1, <1>2, <1>4, <2>1, <2>2 DEF InOrder
<1>6. ASSUME NEW v \in Nat, Fed(p, i, g, v) PROVE Fed(Tail(p), i, g + 1, v)
  <2>1. ASSUME v # g + 1
        PROVE  \E k \in 1 .. Len(p) - 1 : IsData(Tail(p), k, i) /\ Num(Tail(p), k) = v
    <3>0. v >= g + 1
      BY <1>1, <1>3, <1>6 DEF Fed
    <3>1. PICK k \in 1 .. Len(p) : IsData(p, k, i) /\ Num(p, k) = v
      BY <1>6, <2>1, <3>0 DEF Fed
    <3>2. k - 1 \in 1 .. Len(p) - 1 /\ (k - 1) + 1 = k
      BY <1>3, <2>1, <3>1
    <3> QED
      BY <1>2, <3>1, <3>2
  <2>2. \A k \in 1 .. Len(p) - 1 : IsData(Tail(p), k, i) => Num(Tail(p), k) <= v
    BY <1>2, <1>6 DEF Fed
  <2> QED
    BY <1>1, <2>1, <2>2 DEF Fed
<1>7. ASSUME NEW s \in Nat, Written(p, i, s) PROVE Written(Tail(p), i, s) /\ g + 1 <= s
  BY <1>1, <1>2, <1>3, <1>7 DEF Written, IsData
<1> QED
  BY <1>3, <1>5, <1>6, <1>7

\* A frame is written that is not a chunk of i.
LEMMA PushOther ==
    ASSUME NEW p \in Seq(Frames), NEW i \in Ids, NEW f \in Frames,
           ~(f.type = "data" /\ f.id = i)
    PROVE  /\ \A g \in Nat : InOrder(p, i, g) => InOrder(Append(p, f), i, g)
           /\ \A g, v \in Nat : Fed(p, i, g, v) => Fed(Append(p, f), i, g, v)
           /\ \A s \in Nat : Written(p, i, s) => Written(Append(p, f), i, s)
<1> DEFINE q == Append(p, f)
<1>1. Len(q) = Len(p) + 1 /\ q[Len(p) + 1] = f /\ \A k \in 1 .. Len(p) : q[k] = p[k]
  OBVIOUS
<1>2. \A k \in 1 .. Len(p) : (IsData(q, k, i) <=> IsData(p, k, i)) /\ Num(q, k) = Num(p, k)
  BY <1>1 DEF IsData, Num
<1>3. ~IsData(q, Len(p) + 1, i)
  BY <1>1 DEF IsData
<1>4. \A k \in 1 .. Len(q) : IsData(q, k, i) => k \in 1 .. Len(p)
  BY <1>1, <1>3
<1> HIDE DEF q
<1>5. ASSUME NEW g \in Nat, InOrder(p, i, g) PROVE InOrder(q, i, g)
  BY <1>1, <1>2, <1>4, <1>5 DEF InOrder
<1>6. ASSUME NEW g \in Nat, NEW v \in Nat, Fed(p, i, g, v) PROVE Fed(q, i, g, v)
  BY <1>1, <1>2, <1>4, <1>6 DEF Fed
<1>7. ASSUME NEW s \in Nat, Written(p, i, s) PROVE Written(q, i, s)
  BY <1>1, <1>2, <1>4, <1>7 DEF Written
<1> QED
  BY <1>5, <1>6, <1>7 DEF q

\* The next chunk of i is written.
LEMMA PushOwn ==
    ASSUME NEW p \in Seq(Frames), NEW i \in Ids, NEW f \in Frames,
           f.type = "data" /\ f.id = i, NEW v \in Nat, f.chunk.n = v + 1
    PROVE  /\ \A g \in Nat : InOrder(p, i, g) /\ Fed(p, i, g, v) =>
                InOrder(Append(p, f), i, g) /\ Fed(Append(p, f), i, g, v + 1)
           /\ \A s \in Nat : Written(p, i, s) /\ f.chunk.id = i /\ v + 1 <= s =>
                Written(Append(p, f), i, s)
<1> DEFINE q == Append(p, f)
           z == Len(p) + 1
<1>1. Len(q) = z /\ q[z] = f /\ \A k \in 1 .. Len(p) : q[k] = p[k]
  OBVIOUS
<1>2. \A k \in 1 .. Len(p) : (IsData(q, k, i) <=> IsData(p, k, i)) /\ Num(q, k) = Num(p, k)
  BY <1>1 DEF IsData, Num
<1>3. IsData(q, z, i) /\ Num(q, z) = v + 1
  BY <1>1 DEF IsData, Num
<1>4. Len(p) \in Nat /\ \A k \in 1 .. Len(q) : k = z \/ k \in 1 .. Len(p)
  BY <1>1
<1> HIDE DEF q
<1>5. ASSUME NEW g \in Nat, InOrder(p, i, g), Fed(p, i, g, v) PROVE InOrder(q, i, g)
  <2>1. v >= g
    BY <1>5 DEF InOrder, Fed
  <2>2. v + 1 = g + 1 \/ \E j \in 1 .. z - 1 : IsData(q, j, i) /\ Num(q, j) = (v + 1) - 1
    BY <1>2, <1>4, <1>5 DEF Fed
  <2>3. ASSUME NEW k \in 1 .. Len(q), IsData(q, k, i)
        PROVE  /\ Num(q, k) > g
               /\ \/ Num(q, k) = g + 1
                  \/ \E j \in 1 .. k - 1 : IsData(q, j, i) /\ Num(q, j) = Num(q, k) - 1
    <3>1. CASE k = z
      BY <1>3, <2>1, <2>2, <3>1
    <3>2. CASE k \in 1 .. Len(p)
      BY <1>2, <1>5, <2>3, <3>2 DEF InOrder
    <3> QED
      BY <1>4, <3>1, <3>2
  <2>4. ASSUME NEW k \in 1 .. Len(q), NEW l \in 1 .. Len(q), k < l,
               IsData(q, k, i), IsData(q, l, i)
        PROVE  Num(q, k) < Num(q, l)
    <3>1. k \in 1 .. Len(p)
      BY <1>1, <1>4, <2>4
    <3>2. CASE l = z
      BY <1>2, <1>3, <1>5, <2>4, <3>1, <3>2, NumNat DEF Fed
    <3>3. CASE l \in 1 .. Len(p)
      BY <1>2, <1>5, <2>4, <3>1, <3>3 DEF InOrder
    <3> QED
      BY <1>4, <3>2, <3>3
  <2> QED
    BY <2>3, <2>4 DEF InOrder
<1>6. ASSUME NEW g \in Nat, Fed(p, i, g, v) PROVE Fed(q, i, g, v + 1)
  <2>1. \A k \in 1 .. Len(q) : IsData(q, k, i) => Num(q, k) <= v + 1
    BY <1>2, <1>3, <1>4, <1>6, NumNat DEF Fed
  <2> QED
    BY <1>1, <1>3, <1>4, <2>1 DEF Fed
<1>7. ASSUME NEW s \in Nat, Written(p, i, s), f.chunk.id = i, v + 1 <= s PROVE Written(q, i, s)
  BY <1>1, <1>2, <1>3, <1>4, <1>7 DEF Written, Num
<1> QED
  BY <1>5, <1>6, <1>7 DEF q

\* What a broken pipe still delivers.
LEMMA Prefix ==
    ASSUME NEW p \in Seq(Frames), NEW i \in Ids, NEW m \in 0 .. Len(p)
    PROVE  /\ SubSeq(p, 1, m) \in Seq(Frames) /\ Len(SubSeq(p, 1, m)) = m
           /\ \A k \in 1 .. m : SubSeq(p, 1, m)[k] = p[k]
           /\ \A g \in Nat : InOrder(p, i, g) => InOrder(SubSeq(p, 1, m), i, g)
           /\ \A s \in Nat : Written(p, i, s) => Written(SubSeq(p, 1, m), i, s)
<1> DEFINE q == SubSeq(p, 1, m)
<1>1. q \in Seq(Frames) /\ Len(q) = m /\ \A k \in 1 .. m : q[k] = p[k]
  OBVIOUS
<1>2. \A k \in 1 .. m : (IsData(q, k, i) <=> IsData(p, k, i)) /\ Num(q, k) = Num(p, k)
  BY <1>1 DEF IsData, Num
<1>3. m \in Nat /\ m <= Len(p) /\ \A k \in 1 .. m : k \in 1 .. Len(p)
  OBVIOUS
<1> HIDE DEF q
<1>4. ASSUME NEW g \in Nat, InOrder(p, i, g) PROVE InOrder(q, i, g)
  BY <1>1, <1>2, <1>3, <1>4 DEF InOrder
<1>5. ASSUME NEW s \in Nat, Written(p, i, s) PROVE Written(q, i, s)
  BY <1>1, <1>2, <1>3, <1>5 DEF Written
<1> QED
  BY <1>1, <1>4, <1>5 DEF q

-----------------------------------------------------------------------------
(***************************************************************************)
(* The inductive invariant.                                                *)
(***************************************************************************)
Has(p, type, i) == \E k \in 1 .. Len(p) : p[k].type = type /\ p[k].id = i
Absent(p, i) == \A k \in 1 .. Len(p) : p[k].id # i

\* i is opened once in p, before any of its chunks.
OpenOnce(p, i) ==
    \A j, k \in 1 .. Len(p) :
        p[j].type = "open" /\ p[j].id = i /\ p[k].type = "open" /\ p[k].id = i => j = k
OpenFirst(p, i) ==
    \A k \in 1 .. Len(p) : IsData(p, k, i) =>
        \E j \in 1 .. k - 1 : p[j].type = "open" /\ p[j].id = i

\* A connection is opened once, and its OPEN goes before everything else.
Opened ==
    \A i \in Ids :
        /\ i > nextID => hostRd[i] = "none" /\ cli[i] = "none"
        /\ hostRd[i] \in {"none", "opening"} => srv[i] = "none" /\ Absent(down, i)
        /\ srv[i] = "none" =>
            /\ contRd[i] = "none" /\ i \notin contConns
            /\ Absent(up, i) /\ OpenFirst(down, i)
            /\ hostRd[i] = "reading" /\ link = "up" => Has(down, "open", i)
        /\ Has(down, "open", i) => srv[i] = "none"
        /\ OpenOnce(down, i)
        /\ i \in hostConns => hostFd[i] # "none" /\ cli[i] # "none"
        /\ i \in contConns => contFd[i] # "none"

\* While the transport holds, everything that closes follows from an end
\* that has closed.
Shut ==
    link = "up" =>
        /\ host = "serve" /\ cont = "serve"
        /\ \A i \in Ids :
            \/ hostFd[i] = "closed" \/ hostRd[i] \in {"closing", "done"}
            \/ contFd[i] = "closed" \/ contRd[i] \in {"closing", "done"}
            \/ Has(down, "close", i) \/ Has(up, "close", i)
            => cli[i] = "closed" \/ srv[i] = "closed"

\* Frames of i still reach, or will reach, the server; and the client.
ToSrv(i) == i \in contConns \/ srv[i] = "none"
ToCli(i) == i \in hostConns \/ hostRd[i] = "none"

\* What one end of i sent: in its socket, in pipe p, given to the other end.
Flow(p, i, sent, buf, got) ==
    Written(p, i, sent) /\ Buffered(buf, i, sent) /\ Given(got, i, sent)
Line(p, i, got) == InOrder(p, i, Len(got))
Full(p, i, sent, buf, got) == Fed(p, i, Len(got), sent - Len(buf))

\* What the client sent is given to the server, in down, or in its socket.
Downwards ==
    \A i \in Ids :
        /\ Flow(down, i, cliSent[i], cliBuf[i], srvGot[i])
        /\ ToSrv(i) => Line(down, i, srvGot[i])
        /\ ToSrv(i) /\ link = "up" => Full(down, i, cliSent[i], cliBuf[i], srvGot[i])

\* And the other way round.
Upwards ==
    \A i \in Ids :
        /\ Flow(up, i, srvSent[i], srvBuf[i], cliGot[i])
        /\ ToCli(i) => Line(up, i, cliGot[i])
        /\ ToCli(i) /\ link = "up" => Full(up, i, srvSent[i], srvBuf[i], cliGot[i])

IInv == TypeOK /\ EntryHasReader /\ Opened /\ Shut /\ Downwards /\ Upwards

\* Next, action by action.
LEMMA Steps ==
    ASSUME [Next]_vars
    PROVE  \/ \E id \in Ids : CliSend(id) \/ CliClose(id) \/ SrvSend(id) \/ SrvClose(id)
           \/ \E id \in Ids : HostOpen(id) \/ HostRead(id) \/ HostEnd(id) \/ HostEnded(id)
           \/ \E id \in Ids : ContRead(id) \/ ContEnd(id) \/ ContEnded(id)
           \/ HostAccept \/ HostData \/ HostClose \/ HostEOF \/ HostExit
           \/ ContOpen \/ ContDialFails \/ ContData \/ ContClose \/ ContEOF \/ ContExit
           \/ LinkCut \/ UNCHANGED vars
  BY DEF Next, HostGoroutine, ContGoroutine, HostReader, ContReader, Idle

-----------------------------------------------------------------------------
\* The types hold at first.
LEMMA TypeInit == Init => TypeOK
  BY ConstAssumption DEF Init, TypeOK, Ids, FdStates, ReaderStates

\* The frames that are written.
LEMMA FrameTypes ==
    /\ \A id \in Ids : Open(id) \in Frames /\ Close(id) \in Frames
    /\ \A c \in Chunks : Data(c) \in Frames /\ Data(c).type = "data" /\ Data(c).id = c.id
                         /\ Data(c).chunk = c
  BY DEF Frames, Chunks, Open, Close, Data

\* TypeOK in four parts.
HostTypes ==
    /\ nextID \in 0 .. MaxConns /\ host \in {"serve", "returned", "ended"}
    /\ hostConns \subseteq Ids
    /\ hostFd \in [Ids -> FdStates] /\ hostRd \in [Ids -> ReaderStates]
    /\ cli \in [Ids -> FdStates]
ContTypes ==
    /\ cont \in {"serve", "returned", "ended"} /\ contConns \subseteq Ids
    /\ contFd \in [Ids -> FdStates] /\ contRd \in [Ids -> ReaderStates]
    /\ srv \in [Ids -> FdStates]
PipeTypes ==
    /\ link \in {"up", "cut"} /\ down \in Seq(Frames) /\ up \in Seq(Frames)
    /\ Len(down) <= Capacity /\ Len(up) <= Capacity
ChunkTypes ==
    /\ cliSent \in [Ids -> 0 .. MaxChunks] /\ srvSent \in [Ids -> 0 .. MaxChunks]
    /\ cliBuf \in [Ids -> Seq(Chunks)] /\ srvBuf \in [Ids -> Seq(Chunks)]
    /\ cliGot \in [Ids -> Seq(Chunks)] /\ srvGot \in [Ids -> Seq(Chunks)]

\* They are TypeOK.
LEMMA TypeParts ==
    /\ TypeOK <=> HostTypes /\ ContTypes /\ PipeTypes /\ ChunkTypes
    /\ TypeOK' <=> HostTypes' /\ ContTypes' /\ PipeTypes' /\ ChunkTypes'
  BY DEF TypeOK, HostTypes, ContTypes, PipeTypes, ChunkTypes

\* The states a connection goes through.
LEMMA StateNames ==
    /\ "open" \in FdStates /\ "closed" \in FdStates
    /\ {"opening", "reading", "closing", "done"} \subseteq ReaderStates
  BY DEF FdStates, ReaderStates

\* The frame at the head of a pipe.
LEMMA HeadTypes ==
    ASSUME NEW p \in Seq(Frames), p # <<>>
    PROVE  /\ Head(p) \in Frames /\ Head(p).id \in Ids /\ Head(p) = p[1]
           /\ Head(p).type = "data" => Head(p).chunk \in Chunks
           /\ Tail(p) \in Seq(Frames) /\ Len(Tail(p)) = Len(p) - 1
<1>1. Head(p) \in Frames
  OBVIOUS
<1> QED
  BY <1>1, FrameFields

\* A frame that is written.
LEMMA WriteTypes ==
    ASSUME NEW p \in Seq(Frames), NEW f \in Frames, Room(p)
    PROVE  Append(p, f) \in Seq(Frames) /\ Len(Append(p, f)) <= Capacity
  BY ConstAssumption DEF Room

\* A chunk that is sent.
LEMMA SendTypes ==
    ASSUME NEW id \in Ids, NEW n \in 0 .. MaxChunks, n < MaxChunks
    PROVE  [id |-> id, n |-> n + 1] \in Chunks /\ n + 1 \in 0 .. MaxChunks
  BY ConstAssumption DEF Chunks

\* HostSide's types are kept.
LEMMA HostTypesNext == ASSUME TypeOK, [Next]_vars PROVE HostTypes'
<1>0. HostTypes /\ PipeTypes
  BY TypeParts
<1> USE <1>0, StateNames DEF HostTypes
<1>1. ASSUME NEW id \in Ids, CliSend(id) \/ CliClose(id) \/ SrvSend(id) \/ SrvClose(id)
      PROVE  HostTypes'
  BY <1>1 DEF CliSend, CliClose, SrvSend, SrvClose, hostVars, cliVars
<1>2. ASSUME NEW id \in Ids, HostOpen(id) \/ HostRead(id) \/ HostEnd(id) \/ HostEnded(id)
      PROVE  HostTypes'
  BY <1>2 DEF HostOpen, HostRead, HostEnd, HostEnded, HostDrop, cliVars
<1>3. ASSUME NEW id \in Ids, ContRead(id) \/ ContEnd(id) \/ ContEnded(id) PROVE HostTypes'
  BY <1>3 DEF ContRead, ContEnd, ContEnded, hostVars, cliVars
<1>4. CASE HostAccept
  BY <1>4, ConstAssumption DEF HostAccept, Ids
<1>5. CASE HostData \/ HostClose
  <2>1. Head(up).id \in Ids
    BY <1>5, HeadTypes DEF HostData, HostClose, HostFrame, PipeTypes
  <2> QED
    BY <1>5, <2>1 DEF HostData, HostClose, cliVars
<1>6. CASE HostEOF \/ HostExit
  BY <1>6 DEF HostEOF, HostExit, cliVars
<1>7. CASE ContOpen \/ ContDialFails \/ ContData \/ ContClose \/ ContEOF \/ ContExit
  BY <1>7 DEF ContOpen, ContDialFails, ContData, ContClose, ContEOF, ContExit, hostVars, cliVars
<1>8. CASE LinkCut \/ UNCHANGED vars
  BY <1>8 DEF LinkCut, vars, hostVars, cliVars
<1> QED
  BY <1>1, <1>2, <1>3, <1>4, <1>5, <1>6, <1>7, <1>8, Steps

\* So are ContainerSide's.
LEMMA ContTypesNext == ASSUME TypeOK, [Next]_vars PROVE ContTypes'
<1>0. ContTypes /\ PipeTypes
  BY TypeParts
<1> USE <1>0, StateNames DEF ContTypes
<1>1. ASSUME NEW id \in Ids, CliSend(id) \/ CliClose(id) \/ SrvSend(id) \/ SrvClose(id)
      PROVE  ContTypes'
  BY <1>1 DEF CliSend, CliClose, SrvSend, SrvClose, contVars, srvVars
<1>2. ASSUME NEW id \in Ids, HostOpen(id) \/ HostRead(id) \/ HostEnd(id) \/ HostEnded(id)
      PROVE  ContTypes'
  BY <1>2 DEF HostOpen, HostRead, HostEnd, HostEnded, contVars, srvVars
<1>3. ASSUME NEW id \in Ids, ContRead(id) \/ ContEnd(id) \/ ContEnded(id) PROVE ContTypes'
  BY <1>3 DEF ContRead, ContEnd, ContEnded, srvVars
<1>4. CASE HostAccept \/ HostData \/ HostClose \/ HostEOF \/ HostExit
  BY <1>4 DEF HostAccept, HostData, HostClose, HostEOF, HostExit, contVars, srvVars
<1>5. CASE ContOpen \/ ContDialFails \/ ContData \/ ContClose
  <2>1. Head(down).id \in Ids
    BY <1>5, HeadTypes DEF ContOpen, ContDialFails, ContData, ContClose, ContFrame, PipeTypes
  <2> QED
    BY <1>5, <2>1 DEF ContOpen, ContDialFails, ContData, ContClose, srvVars
<1>6. CASE ContEOF \/ ContExit
  BY <1>6 DEF ContEOF, ContExit, srvVars
<1>7. CASE LinkCut \/ UNCHANGED vars
  BY <1>7 DEF LinkCut, vars, contVars, srvVars
<1> QED
  BY <1>1, <1>2, <1>3, <1>4, <1>5, <1>6, <1>7, Steps

\* So are the two pipes.
LEMMA PipeTypesNext == ASSUME TypeOK, [Next]_vars PROVE PipeTypes'
<1>0. PipeTypes /\ ChunkTypes
  BY TypeParts
<1> USE <1>0 DEF PipeTypes
<1>1. ASSUME NEW id \in Ids, CliSend(id) \/ CliClose(id) \/ SrvSend(id) \/ SrvClose(id)
      PROVE  PipeTypes'
  BY <1>1 DEF CliSend, CliClose, SrvSend, SrvClose, pipeVars
<1>2. ASSUME NEW id \in Ids, HostOpen(id) \/ HostEnd(id) \/ HostEnded(id) \/ ContEnd(id)
             \/ ContEnded(id)
      PROVE  PipeTypes'
  <2>1. Open(id) \in Frames /\ Close(id) \in Frames
    BY FrameTypes
  <2> QED
    BY <1>2, <2>1, WriteTypes DEF HostOpen, HostEnd, HostEnded, ContEnd, ContEnded, pipeVars
<1>3. ASSUME NEW id \in Ids, HostRead(id) PROVE PipeTypes'
  <2>1. Head(cliBuf[id]) \in Chunks
    BY <1>3 DEF HostRead, ChunkTypes
  <2>2. Data(Head(cliBuf[id])) \in Frames
    BY <2>1, FrameTypes
  <2> QED
    BY <1>3, <2>2, WriteTypes DEF HostRead
<1>4. ASSUME NEW id \in Ids, ContRead(id) PROVE PipeTypes'
  <2>1. Head(srvBuf[id]) \in Chunks
    BY <1>4 DEF ContRead, ChunkTypes
  <2>2. Data(Head(srvBuf[id])) \in Frames
    BY <2>1, FrameTypes
  <2> QED
    BY <1>4, <2>2, WriteTypes DEF ContRead
<1>5. CASE HostData \/ HostClose
  <2>1. Tail(up) \in Seq(Frames) /\ Len(Tail(up)) <= Capacity
    BY <1>5, HeadTypes, ConstAssumption DEF HostData, HostClose, HostFrame
  <2> QED
    BY <1>5, <2>1 DEF HostData, HostClose
<1>6. CASE ContOpen \/ ContDialFails \/ ContData \/ ContClose
  <2>1. Close(Head(down).id) \in Frames /\ Tail(down) \in Seq(Frames)
        /\ Len(Tail(down)) <= Capacity
    BY <1>6, HeadTypes, FrameTypes, ConstAssumption
       DEF ContOpen, ContDialFails, ContData, ContClose, ContFrame
  <2> QED
    BY <1>6, <2>1, WriteTypes DEF ContOpen, ContDialFails, ContData, ContClose
<1>7. CASE HostAccept \/ HostEOF \/ HostExit \/ ContEOF \/ ContExit \/ UNCHANGED vars
  BY <1>7 DEF HostAccept, HostEOF, HostExit, ContEOF, ContExit, vars, pipeVars
<1>8. CASE LinkCut
  BY <1>8, ConstAssumption DEF LinkCut
<1> QED
  BY <1>1, <1>2, <1>3, <1>4, <1>5, <1>6, <1>7, <1>8, Steps

\* So are the chunks of the ends.
LEMMA ChunkTypesNext == ASSUME TypeOK, [Next]_vars PROVE ChunkTypes'
<1>0. PipeTypes /\ ChunkTypes
  BY TypeParts
<1> USE <1>0 DEF ChunkTypes
<1>1. ASSUME NEW id \in Ids, CliSend(id) PROVE ChunkTypes'
  <2>1. [id |-> id, n |-> cliSent[id] + 1] \in Chunks /\ cliSent[id] + 1 \in 0 .. MaxChunks
    BY <1>1, SendTypes DEF CliSend
  <2> QED
    BY <1>1, <2>1 DEF CliSend, srvVars
<1>2. ASSUME NEW id \in Ids, SrvSend(id) PROVE ChunkTypes'
  <2>1. [id |-> id, n |-> srvSent[id] + 1] \in Chunks /\ srvSent[id] + 1 \in 0 .. MaxChunks
    BY <1>2, SendTypes DEF SrvSend
  <2> QED
    BY <1>2, <2>1 DEF SrvSend, cliVars
<1>3. ASSUME NEW id \in Ids, HostRead(id) \/ ContRead(id) PROVE ChunkTypes'
  <2>1. HostRead(id) => Tail(cliBuf[id]) \in Seq(Chunks)
    BY DEF HostRead
  <2>2. ContRead(id) => Tail(srvBuf[id]) \in Seq(Chunks)
    BY DEF ContRead
  <2> QED
    BY <1>3, <2>1, <2>2 DEF HostRead, ContRead, cliVars, srvVars
<1>4. ASSUME NEW id \in Ids, CliClose(id) \/ SrvClose(id) \/ HostOpen(id) \/ HostEnd(id)
             \/ HostEnded(id) \/ ContEnd(id) \/ ContEnded(id)
      PROVE  ChunkTypes'
  BY <1>4 DEF CliClose, SrvClose, HostOpen, HostEnd, HostEnded, ContEnd, ContEnded,
     cliVars, srvVars
<1>5. CASE HostData
  <2>1. Head(up).id \in Ids /\ Head(up).chunk \in Chunks
    BY <1>5, HeadTypes DEF HostData, HostFrame, PipeTypes
  <2>2. Append(cliGot[Head(up).id], Head(up).chunk) \in Seq(Chunks)
    BY <2>1
  <2> QED
    BY <1>5, <2>1, <2>2 DEF HostData, srvVars
<1>6. CASE ContData
  <2>1. Head(down).id \in Ids /\ Head(down).chunk \in Chunks
    BY <1>6, HeadTypes DEF ContData, ContFrame, PipeTypes
  <2>2. Append(srvGot[Head(down).id], Head(down).chunk) \in Seq(Chunks)
    BY <2>1
  <2> QED
    BY <1>6, <2>1, <2>2 DEF ContData, cliVars
<1>7. CASE HostAccept \/ HostClose \/ HostEOF \/ HostExit \/ ContOpen \/ ContDialFails
           \/ ContClose \/ ContEOF \/ ContExit \/ LinkCut \/ UNCHANGED vars
  BY <1>7 DEF HostAccept, HostClose, HostEOF, HostExit, ContOpen, ContDialFails, ContClose,
     ContEOF, ContExit, LinkCut, vars, cliVars, srvVars
<1> QED
  BY <1>1, <1>2, <1>3, <1>4, <1>5, <1>6, <1>7, Steps

\* The types are kept by every step.
LEMMA TypeNext == ASSUME TypeOK, [Next]_vars PROVE TypeOK'
  BY HostTypesNext, ContTypesNext, PipeTypesNext, ChunkTypesNext, TypeParts

-----------------------------------------------------------------------------
(***************************************************************************)
(* What a pipe carries, as it is read, written and cut.                    *)
(***************************************************************************)

\* The first frame is read.
LEMMA PopShape ==
    ASSUME NEW p \in Seq(Frames), p # <<>>, NEW i \in Ids
    PROVE  /\ Absent(p, i) => Absent(Tail(p), i)
           /\ \A t : Has(Tail(p), t, i) => Has(p, t, i)
           /\ \A t : Has(p, t, i) /\ ~(Head(p).type = t /\ Head(p).id = i) => Has(Tail(p), t, i)
           /\ OpenOnce(p, i) => OpenOnce(Tail(p), i)
           /\ OpenOnce(p, i) /\ Head(p).type = "open" /\ Head(p).id = i =>
                ~Has(Tail(p), "open", i)
           /\ OpenFirst(p, i) /\ ~(Head(p).type = "open" /\ Head(p).id = i) =>
                OpenFirst(Tail(p), i)
           /\ \A t : Head(p).type = t /\ Head(p).id = i => Has(p, t, i) /\ ~Absent(p, i)
           /\ OpenFirst(p, i) => ~IsData(p, 1, i)
<1> DEFINE q == Tail(p)
           z == Len(p) - 1
<1>1. Len(p) \in Nat \ {0} /\ Len(q) = z /\ Head(p) = p[1] /\ \A k \in 1 .. z : q[k] = p[k + 1]
  OBVIOUS
<1>2. \A k \in 1 .. Len(p) : k = 1 \/ (k - 1 \in 1 .. z /\ q[k - 1] = p[k])
  BY <1>1
<1>3. \A k \in 1 .. z : k + 1 \in 1 .. Len(p) /\ k + 1 # 1
  BY <1>1
<1> HIDE DEF q
<1>4. Absent(p, i) => Absent(q, i)
  BY <1>1, <1>3 DEF Absent
<1>5. ASSUME NEW t, Has(q, t, i) PROVE Has(p, t, i)
  BY <1>1, <1>3, <1>5 DEF Has
<1>6. ASSUME NEW t, Has(p, t, i), ~(Head(p).type = t /\ Head(p).id = i) PROVE Has(q, t, i)
  BY <1>1, <1>2, <1>6 DEF Has
<1>7. OpenOnce(p, i) => OpenOnce(q, i)
  <2> SUFFICES ASSUME OpenOnce(p, i), NEW j \in 1 .. z, NEW k \in 1 .. z,
                      q[j].type = "open" /\ q[j].id = i /\ q[k].type = "open" /\ q[k].id = i
               PROVE  j = k
    BY <1>1 DEF OpenOnce
  <2>1. j + 1 = k + 1
    BY <1>1, <1>3 DEF OpenOnce
  <2> QED
    BY <2>1
<1>8. OpenOnce(p, i) /\ Head(p).type = "open" /\ Head(p).id = i => ~Has(q, "open", i)
  <2> SUFFICES ASSUME OpenOnce(p, i), p[1].type = "open", p[1].id = i, NEW k \in 1 .. z,
                      q[k].type = "open" /\ q[k].id = i
               PROVE  FALSE
    BY <1>1 DEF Has
  <2> QED
    BY <1>1, <1>3 DEF OpenOnce
<1>9. OpenFirst(p, i) /\ ~(Head(p).type = "open" /\ Head(p).id = i) => OpenFirst(q, i)
  <2> SUFFICES ASSUME OpenFirst(p, i), ~(p[1].type = "open" /\ p[1].id = i),
                      NEW k \in 1 .. z, IsData(q, k, i)
               PROVE  \E j \in 1 .. k - 1 : q[j].type = "open" /\ q[j].id = i
    BY <1>1 DEF OpenFirst
  <2>1. PICK j \in 1 .. (k + 1) - 1 : p[j].type = "open" /\ p[j].id = i
    BY <1>1, <1>3 DEF OpenFirst, IsData
  <2>2. j # 1 /\ j \in 1 .. Len(p)
    BY <1>1, <2>1
  <2>3. j - 1 \in 1 .. k - 1 /\ q[j - 1] = p[j]
    BY <1>2, <2>2
  <2> QED
    BY <2>1, <2>3
<1>10. ASSUME NEW t, Head(p).type = t /\ Head(p).id = i PROVE Has(p, t, i) /\ ~Absent(p, i)
  <2>1. 1 \in 1 .. Len(p)
    BY <1>1
  <2> QED
    BY <1>1, <1>10, <2>1 DEF Has, Absent
<1>11. OpenFirst(p, i) => ~IsData(p, 1, i)
  BY <1>1 DEF OpenFirst
<1> QED
  BY <1>4, <1>5, <1>6, <1>7, <1>8, <1>9, <1>10, <1>11 DEF q

\* A frame is written.
LEMMA PushShape ==
    ASSUME NEW p \in Seq(Frames), NEW f \in Frames, NEW i \in Ids
    PROVE  /\ Absent(p, i) /\ f.id # i => Absent(Append(p, f), i)
           /\ \A t : Has(Append(p, f), t, i) <=> Has(p, t, i) \/ (f.type = t /\ f.id = i)
           /\ OpenOnce(p, i) /\ ~(f.type = "open" /\ f.id = i /\ Has(p, "open", i)) =>
                OpenOnce(Append(p, f), i)
           /\ OpenFirst(p, i) /\ (f.type = "data" /\ f.id = i => Has(p, "open", i)) =>
                OpenFirst(Append(p, f), i)
           /\ Absent(p, i) => ~Has(p, "open", i)
<1> DEFINE q == Append(p, f)
           z == Len(p) + 1
<1>1. Len(p) \in Nat /\ Len(q) = z /\ q[z] = f /\ \A k \in 1 .. Len(p) : q[k] = p[k]
  OBVIOUS
<1>2. \A k \in 1 .. z : k = z \/ k \in 1 .. Len(p)
  BY <1>1
<1>3. \A k \in 1 .. Len(p) : k \in 1 .. z
  BY <1>1
<1>4. z \in 1 .. z
  BY <1>1
<1> HIDE DEF q
<1>5. Absent(p, i) /\ f.id # i => Absent(q, i)
  BY <1>1, <1>2 DEF Absent
<1>6. ASSUME NEW t PROVE Has(q, t, i) <=> Has(p, t, i) \/ (f.type = t /\ f.id = i)
  BY <1>1, <1>2, <1>3, <1>4 DEF Has
<1>7. OpenOnce(p, i) /\ ~(f.type = "open" /\ f.id = i /\ Has(p, "open", i)) => OpenOnce(q, i)
  BY <1>1, <1>2 DEF OpenOnce, Has
<1>8. OpenFirst(p, i) /\ (f.type = "data" /\ f.id = i => Has(p, "open", i)) => OpenFirst(q, i)
  <2> SUFFICES ASSUME OpenFirst(p, i), f.type = "data" /\ f.id = i => Has(p, "open", i),
                      NEW k \in 1 .. z, IsData(q, k, i)
               PROVE  \E j \in 1 .. k - 1 : q[j].type = "open" /\ q[j].id = i
    BY <1>1 DEF OpenFirst
  <2>1. CASE k = z
    BY <1>1, <2>1 DEF Has, IsData
  <2>2. CASE k \in 1 .. Len(p)
    BY <1>1, <2>2 DEF OpenFirst, IsData
  <2> QED
    BY <1>2, <2>1, <2>2
<1>9. Absent(p, i) => ~Has(p, "open", i)
  BY DEF Absent, Has
<1> QED
  BY <1>5, <1>6, <1>7, <1>8, <1>9 DEF q

\* The pipe breaks.
LEMMA PrefixShape ==
    ASSUME NEW p \in Seq(Frames), NEW m \in 0 .. Len(p), NEW i \in Ids
    PROVE  /\ Absent(p, i) => Absent(SubSeq(p, 1, m), i)
           /\ \A t : Has(SubSeq(p, 1, m), t, i) => Has(p, t, i)
           /\ OpenOnce(p, i) => OpenOnce(SubSeq(p, 1, m), i)
           /\ OpenFirst(p, i) => OpenFirst(SubSeq(p, 1, m), i)
<1> DEFINE q == SubSeq(p, 1, m)
<1>1. Len(q) = m /\ \A k \in 1 .. m : q[k] = p[k]
  BY Prefix
<1>2. m \in Nat /\ \A k \in 1 .. m : k \in 1 .. Len(p)
  OBVIOUS
<1> HIDE DEF q
<1>3. Absent(p, i) => Absent(q, i)
  BY <1>1, <1>2 DEF Absent
<1>4. ASSUME NEW t, Has(q, t, i) PROVE Has(p, t, i)
  BY <1>1, <1>2, <1>4 DEF Has
<1>5. OpenOnce(p, i) => OpenOnce(q, i)
  BY <1>1, <1>2 DEF OpenOnce
<1>6. OpenFirst(p, i) => OpenFirst(q, i)
  BY <1>1, <1>2 DEF OpenFirst, IsData
<1> QED
  BY <1>3, <1>4, <1>5, <1>6 DEF q

-----------------------------------------------------------------------------
(***************************************************************************)
(* What a frame reader finds at the head of its pipe.                      *)
(***************************************************************************)

\* HostSide's frame reader takes a frame.
LEMMA HostTakes ==
    ASSUME TypeOK, HostData \/ HostClose
    PROVE  /\ up # <<>> /\ up \in Seq(Frames) /\ up' = Tail(up) /\ down' = down
           /\ Head(up) = up[1] /\ Head(up) \in Frames /\ Head(up).id \in Ids
           /\ link' = link /\ UNCHANGED <<contVars, srvVars, hostRd, nextID, host, cli, cliSent, cliBuf>>
<1>1. up # <<>> /\ up \in Seq(Frames) /\ up' = Tail(up)
  BY DEF HostData, HostClose, HostFrame, TypeOK
<1> QED
  BY <1>1, HeadTypes DEF HostData, HostClose, cliVars

\* ContainerSide's frame reader takes a frame.
LEMMA ContTakes ==
    ASSUME TypeOK, ContOpen \/ ContDialFails \/ ContData \/ ContClose
    PROVE  /\ down # <<>> /\ down \in Seq(Frames) /\ down' = Tail(down)
           /\ Head(down) = down[1] /\ Head(down) \in Frames /\ Head(down).id \in Ids
           /\ link' = link /\ UNCHANGED <<hostVars, cliVars, srvSent, srvBuf>>
<1>1. down # <<>> /\ down \in Seq(Frames) /\ down' = Tail(down)
  BY DEF ContOpen, ContDialFails, ContData, ContClose, ContFrame, TypeOK
<1>2. link' = link /\ UNCHANGED <<hostVars, cliVars, srvSent, srvBuf>>
  BY DEF ContOpen, ContDialFails, ContData, ContClose, srvVars
<1> QED
  BY <1>1, <1>2, HeadTypes

\* The chunk that is read from a socket is the next of its connection.
LEMMA NextChunk ==
    ASSUME NEW i \in Ids, NEW buf \in Seq(Chunks), buf # <<>>, NEW sent \in Nat,
           Buffered(buf, i, sent)
    PROVE  /\ Data(Head(buf)) \in Frames
           /\ Data(Head(buf)).type = "data" /\ Data(Head(buf)).id = i
           /\ Data(Head(buf)).chunk.id = i
           /\ Data(Head(buf)).chunk.n = sent - Len(buf) + 1
           /\ sent - Len(buf) \in Nat /\ sent - Len(buf) + 1 <= sent
           /\ Buffered(Tail(buf), i, sent)
           /\ sent - Len(Tail(buf)) = sent - Len(buf) + 1
<1>1. Len(buf) \in Nat \ {0} /\ Head(buf) = buf[1] /\ Head(buf) \in Chunks
      /\ Len(Tail(buf)) = Len(buf) - 1 /\ \A m \in 1 .. Len(buf) - 1 : Tail(buf)[m] = buf[m + 1]
  OBVIOUS
<1>2. Head(buf) = [id |-> i, n |-> sent - Len(buf) + 1]
  BY <1>1 DEF Buffered
<1>3. Len(buf) <= sent
  BY DEF Buffered
<1>4. \A m \in 1 .. Len(buf) - 1 : buf[m + 1] = [id |-> i, n |-> sent - (Len(buf) - 1) + m]
  <2> SUFFICES ASSUME NEW m \in 1 .. Len(buf) - 1
               PROVE  buf[m + 1] = [id |-> i, n |-> sent - (Len(buf) - 1) + m]
    OBVIOUS
  <2>1. m + 1 \in 1 .. Len(buf)
    BY <1>1
  <2>2. sent - Len(buf) + (m + 1) = sent - (Len(buf) - 1) + m
    BY <1>1
  <2> QED
    BY <2>1, <2>2 DEF Buffered
<1>5. Buffered(Tail(buf), i, sent)
  BY <1>1, <1>3, <1>4 DEF Buffered
<1>6. Data(Head(buf)) \in Frames /\ Data(Head(buf)).type = "data"
      /\ Data(Head(buf)).id = Head(buf).id /\ Data(Head(buf)).chunk = Head(buf)
  BY <1>1, FrameTypes
<1> QED
  BY <1>1, <1>2, <1>3, <1>5, <1>6

-----------------------------------------------------------------------------
\* An entry keeps its goroutine.
LEMMA EntryNext ==
    ASSUME TypeOK, Opened, EntryHasReader, [Next]_vars PROVE EntryHasReader'
<1> DEFINE HostPart == host = "serve" =>
                \A i \in hostConns : hostRd[i] \in {"opening", "reading", "closing"}
           ContPart == cont = "serve" /\ link = "up" =>
                \A i \in contConns : contRd[i] \in {"reading", "closing"}
<1>0. HostTypes /\ ContTypes
  BY TypeParts
<1> SUFFICES HostPart' /\ ContPart'
  BY DEF EntryHasReader
<1>1. HostPart'
  <2> USE <1>0 DEF EntryHasReader, HostTypes
  <2>1. ASSUME NEW id \in Ids, HostOpen(id) \/ HostRead(id) \/ HostEnd(id) \/ HostEnded(id)
        PROVE  HostPart'
    BY <2>1 DEF HostOpen, HostRead, HostEnd, HostEnded, HostDrop
  <2>2. CASE HostAccept
    BY <2>2, ConstAssumption DEF HostAccept, Ids
  <2>3. CASE HostData \/ HostClose \/ HostEOF \/ HostExit
    BY <2>3 DEF HostData, HostClose, HostEOF, HostExit
  <2>4. CASE UNCHANGED <<host, hostConns, hostRd>>
    BY <2>4
  <2> QED
    BY <2>1, <2>2, <2>3, <2>4, Steps DEF vars, hostVars, CliSend, CliClose, SrvSend, SrvClose,
       ContRead, ContEnd, ContEnded, ContOpen, ContDialFails, ContData, ContClose, ContEOF,
       ContExit, LinkCut
<1>2. ContPart'
  <2> USE <1>0 DEF EntryHasReader, ContTypes
  <2>1. ASSUME NEW id \in Ids, ContRead(id) \/ ContEnd(id) \/ ContEnded(id) PROVE ContPart'
    BY <2>1 DEF ContRead, ContEnd, ContEnded, Broken, pipeVars
  <2>2. CASE ContOpen \/ ContDialFails \/ ContData \/ ContClose
    <3>1. Head(down).id \in Ids /\ link' = link
      BY <2>2, ContTakes
    <3> QED
      BY <2>2, <3>1 DEF ContOpen, ContDialFails, ContData, ContClose
  <2>3. CASE ContEOF \/ ContExit
    BY <2>3 DEF ContEOF, ContExit
  <2>4. CASE LinkCut
    BY <2>4 DEF LinkCut
  <2>5. CASE UNCHANGED <<cont, link, contConns, contRd>>
    BY <2>5
  <2> QED
    BY <2>1, <2>2, <2>3, <2>4, <2>5, Steps DEF vars, contVars, pipeVars, CliSend, CliClose,
       SrvSend, SrvClose, HostOpen, HostRead, HostEnd, HostEnded, HostAccept, HostData,
       HostClose, HostEOF, HostExit
<1> QED
  BY <1>1, <1>2

\* Connections are opened in order.
LEMMA OpenedNext ==
    ASSUME TypeOK, Opened, Downwards, Upwards, [Next]_vars PROVE Opened'
<1>0. HostTypes /\ ContTypes /\ PipeTypes
  BY TypeParts
<1> USE <1>0
<1>1. ASSUME NEW id \in Ids, CliSend(id) \/ CliClose(id) \/ SrvSend(id) \/ SrvClose(id)
      PROVE  Opened'
  BY <1>1 DEF CliSend, CliClose, SrvSend, SrvClose, Opened, HostTypes, ContTypes,
     hostVars, contVars, pipeVars, cliVars, srvVars
<1>2. ASSUME NEW id \in Ids, HostOpen(id) PROVE Opened'
  <2>1. Open(id) \in Frames /\ Open(id).type = "open" /\ Open(id).id = id
    BY FrameTypes DEF Open
  <2>2. CASE down' = Append(down, Open(id)) /\ hostRd' = [hostRd EXCEPT ![id] = "reading"]
             /\ UNCHANGED <<hostConns, hostFd>>
    BY <1>2, <2>1, <2>2, PushShape DEF HostOpen, Opened, HostTypes, PipeTypes, contVars,
       srvVars, cliVars
  <2>3. CASE HostDrop(id) /\ down' = down
    BY <1>2, <2>3 DEF HostOpen, HostDrop, Opened, HostTypes, contVars, srvVars, cliVars, Broken
  <2> QED
    BY <1>2, <2>2, <2>3 DEF HostOpen
<1>3. ASSUME NEW id \in Ids, HostRead(id) PROVE Opened'
  <2> DEFINE f == Data(Head(cliBuf[id]))
  <2>1. f \in Frames /\ f.type = "data" /\ f.id = id
    <3>1. cliBuf[id] \in Seq(Chunks) /\ cliBuf[id] # <<>> /\ cliSent[id] \in Nat
      BY <1>3, ConstAssumption DEF HostRead, TypeOK
    <3>2. Buffered(cliBuf[id], id, cliSent[id])
      BY DEF Downwards, Flow
    <3> QED
      BY <3>1, <3>2, NextChunk
  <2> HIDE DEF f
  <2>2. CASE down' = Append(down, f) /\ link = "up" /\ UNCHANGED <<hostConns, hostFd, hostRd>>
    BY <1>3, <2>1, <2>2, PushShape DEF HostRead, Opened, HostTypes, PipeTypes, contVars,
       srvVars, cliVars
  <2>3. CASE Broken /\ HostDrop(id) /\ down' = down
    BY <1>3, <2>3 DEF HostRead, HostDrop, Opened, HostTypes, contVars, srvVars, cliVars, Broken
  <2> QED
    BY <1>3, <2>2, <2>3 DEF HostRead, Room, f
<1>4. ASSUME NEW id \in Ids, HostEnd(id) PROVE Opened'
  <2>1. Close(id) \in Frames /\ Close(id).type = "close" /\ Close(id).id = id
    BY FrameTypes DEF Close
  <2>2. CASE down' = Append(down, Close(id))
    BY <1>4, <2>1, <2>2, PushShape DEF HostEnd, Opened, HostTypes, PipeTypes, contVars, srvVars,
       cliVars
  <2>3. CASE Broken /\ down' = down
    BY <1>4, <2>3 DEF HostEnd, Opened, HostTypes, contVars, srvVars, cliVars, Broken
  <2> QED
    BY <1>4, <2>2, <2>3 DEF HostEnd
<1>5. ASSUME NEW id \in Ids, HostEnded(id) PROVE Opened'
  BY <1>5 DEF HostEnded, HostDrop, Opened, HostTypes, contVars, srvVars, cliVars, pipeVars
<1>6. ASSUME NEW id \in Ids, ContRead(id) PROVE Opened'
  <2> DEFINE f == Data(Head(srvBuf[id]))
  <2>1. f \in Frames /\ f.id = id
    <3>1. srvBuf[id] \in Seq(Chunks) /\ srvBuf[id] # <<>> /\ srvSent[id] \in Nat
      BY <1>6, ConstAssumption DEF ContRead, TypeOK
    <3>2. Buffered(srvBuf[id], id, srvSent[id])
      BY DEF Upwards, Flow
    <3> QED
      BY <3>1, <3>2, NextChunk
  <2> HIDE DEF f
  <2>2. up' = Append(up, f) \/ up' = up
    BY <1>6 DEF ContRead, f
  <2>3. \A i \in Ids : srv[i] = "none" => i # id /\ contRd'[i] = "none"
    BY <1>6 DEF ContRead, Opened, ContTypes
  <2>4. \A i \in Ids : srv[i] = "none" => Absent(up', i)
    <3>1. CASE up' = Append(up, f)
      BY <2>1, <2>3, <3>1, PushShape DEF Opened, PipeTypes
    <3>2. CASE up' = up
      BY <3>2 DEF Opened
    <3> QED
      BY <2>2, <3>1, <3>2
  <2> QED
    BY <1>6, <2>3, <2>4 DEF ContRead, Opened, ContTypes, hostVars, cliVars
<1>7. ASSUME NEW id \in Ids, ContEnd(id) \/ ContEnded(id) PROVE Opened'
  <2>1. Close(id) \in Frames /\ Close(id).id = id
    BY FrameTypes DEF Close
  <2>2. up' = Append(up, Close(id)) \/ up' = up
    BY <1>7 DEF ContEnd, ContEnded, pipeVars
  <2>3. \A i \in Ids : srv[i] = "none" => i # id /\ contRd'[i] = "none"
    BY <1>7 DEF ContEnd, ContEnded, Opened, ContTypes
  <2>4. \A i \in Ids : srv[i] = "none" => Absent(up', i)
    <3>1. CASE up' = Append(up, Close(id))
      BY <2>1, <2>3, <3>1, PushShape DEF Opened, PipeTypes
    <3>2. CASE up' = up
      BY <3>2 DEF Opened
    <3> QED
      BY <2>2, <3>1, <3>2
  <2> QED
    BY <1>7, <2>3, <2>4 DEF ContEnd, ContEnded, Opened, ContTypes, hostVars, cliVars, srvVars,
       pipeVars
<1>8. CASE HostAccept
  <2>1. nextID + 1 \in Ids /\ nextID \in Nat /\ \A i \in Ids : i \in Nat
    BY <1>8, ConstAssumption DEF HostAccept, HostTypes, Ids
  <2>2. hostRd[nextID + 1] = "none"
    BY <2>1 DEF Opened
  <2> QED
    BY <1>8, <2>1, <2>2 DEF HostAccept, Opened, HostTypes, contVars, srvVars, pipeVars
<1>9. CASE HostData \/ HostClose
  <2>1. \A i \in Ids : Absent(up, i) => Absent(up', i)
    BY <1>9, HostTakes, PopShape
  <2>2. hostConns' \subseteq hostConns /\ \A i \in Ids : hostFd'[i] \in {hostFd[i], "closed"}
    BY <1>9, HostTakes DEF HostData, HostClose, HostTypes
  <2> QED
    BY <1>9, <2>1, <2>2, HostTakes DEF Opened, contVars, srvVars
<1>10. CASE HostEOF \/ HostExit
  BY <1>10 DEF HostEOF, HostExit, Opened, HostTypes, contVars, srvVars, pipeVars, cliVars
<1>11. CASE ContOpen \/ ContDialFails
  <2> DEFINE id == Head(down).id
  <2>1. Head(down).type = "open" /\ id \in Ids /\ Head(down) \in Frames
    BY <1>11, ContTakes DEF ContOpen, ContDialFails, ContFrame
  <2>a. down # <<>> /\ down \in Seq(Frames)
    BY <1>11, ContTakes
  <2>b. down' = Tail(down)
    BY <1>11, ContTakes
  <2>c. OpenOnce(down, id)
    BY <2>1 DEF Opened
  <2>2. Has(down, "open", id) /\ ~Absent(down, id) /\ ~Has(down', "open", id)
    BY <2>1, <2>a, <2>b, <2>c, PopShape
  <2>3. \A i \in Ids : /\ OpenOnce(down', i) /\ (Absent(down, i) => Absent(down', i))
                       /\ Has(down', "open", i) => Has(down, "open", i)
    BY <2>a, <2>b, PopShape DEF Opened
  <2>4. \A i \in Ids \ {id} : (OpenFirst(down, i) => OpenFirst(down', i))
            /\ (Has(down, "open", i) => Has(down', "open", i))
    BY <2>a, <2>b, PopShape
  <2>5. up' = up \/ up' = Append(up, Close(id))
    BY <1>11 DEF ContOpen, ContDialFails
  <2>6. Close(id) \in Frames /\ Close(id).id = id
    BY <2>1, FrameTypes DEF Close
  <2>7. \A i \in Ids \ {id} : Absent(up, i) => Absent(up', i)
    <3>1. CASE up' = Append(up, Close(id))
      BY <2>6, <3>1, PushShape DEF PipeTypes
    <3> QED
      BY <2>5, <3>1
  <2>8. srv'[id] # "none" /\ hostRd[id] \notin {"none", "opening"} /\ id \notin contConns
    BY <1>11, <2>1, <2>2 DEF Opened, ContOpen, ContDialFails, ContTypes
  <2>9. \A i \in Ids \ {id} : srv'[i] = srv[i] /\ contRd'[i] = contRd[i]
            /\ contFd'[i] = contFd[i] /\ (i \in contConns' <=> i \in contConns)
    BY <1>11, <2>1 DEF ContOpen, ContDialFails, ContTypes
  <2>10. id \in contConns' => contFd'[id] # "none"
    BY <1>11, <2>1, <2>8 DEF ContOpen, ContDialFails, ContTypes
  <2> HIDE DEF id
  <2>11. UNCHANGED <<hostVars, cliVars>> /\ link' = link
    BY <1>11, ContTakes
  <2>12. ASSUME NEW i \in Ids \ {id}
         PROVE  /\ i > nextID' => hostRd'[i] = "none" /\ cli'[i] = "none"
                /\ hostRd'[i] \in {"none", "opening"} => srv'[i] = "none" /\ Absent(down', i)
                /\ srv'[i] = "none" =>
                    /\ contRd'[i] = "none" /\ i \notin contConns'
                    /\ Absent(up', i) /\ OpenFirst(down', i)
                    /\ hostRd'[i] = "reading" /\ link' = "up" => Has(down', "open", i)
                /\ Has(down', "open", i) => srv'[i] = "none"
                /\ OpenOnce(down', i)
                /\ i \in hostConns' => hostFd'[i] # "none" /\ cli'[i] # "none"
                /\ i \in contConns' => contFd'[i] # "none"
    BY <2>3, <2>4, <2>7, <2>9, <2>11 DEF Opened, hostVars, cliVars
  <2> QED
    BY <2>1, <2>2, <2>3, <2>8, <2>10, <2>11, <2>12 DEF Opened, hostVars, cliVars
<1>12. CASE ContData \/ ContClose
  <2> DEFINE id == Head(down).id
  <2>1. Head(down).type # "open" /\ id \in Ids /\ Head(down) \in Frames
    BY <1>12, ContTakes DEF ContData, ContClose, ContFrame
  <2>2. \A i \in Ids : /\ OpenOnce(down', i) /\ (Absent(down, i) => Absent(down', i))
                       /\ Has(down', "open", i) <=> Has(down, "open", i)
                       /\ OpenFirst(down, i) => OpenFirst(down', i)
    <3>1. down # <<>> /\ down \in Seq(Frames)
      BY <1>12, ContTakes
    <3>2. down' = Tail(down)
      BY <1>12, ContTakes
    <3> QED
      BY <2>1, <3>1, <3>2, PopShape DEF Opened
  <2>3. up' = up \/ (up' = Append(up, Close(id)) /\ id \in contConns)
    BY <1>12 DEF ContData, ContClose
  <2>4. Close(id) \in Frames /\ Close(id).id = id
    BY <2>1, FrameTypes DEF Close
  <2>5. \A i \in Ids : srv[i] = "none" => Absent(up', i)
    <3>1. CASE up' = Append(up, Close(id)) /\ id \in contConns
      BY <2>1, <2>4, <3>1, PushShape DEF PipeTypes, Opened
    <3>2. CASE up' = up
      BY <3>2 DEF Opened
    <3> QED
      BY <2>3, <3>1, <3>2
  <2>6. /\ UNCHANGED <<srv, contRd>> /\ contConns' \subseteq contConns
        /\ \A i \in Ids : contFd'[i] \in {contFd[i], "closed"}
    BY <1>12 DEF ContData, ContClose, ContTypes, srvVars
  <2>7. UNCHANGED <<hostVars, cliVars>> /\ link' = link
    BY <1>12, ContTakes
  <2> QED
    BY <2>2, <2>5, <2>6, <2>7 DEF Opened, hostVars, cliVars
<1>13. CASE ContEOF \/ ContExit
  BY <1>13 DEF ContEOF, ContExit, Opened, ContTypes, hostVars, cliVars, srvVars, pipeVars
<1>14. CASE LinkCut
  <2>1. \A i \in Ids : /\ Absent(down, i) => Absent(down', i)
                       /\ Absent(up, i) => Absent(up', i)
                       /\ Has(down', "open", i) => Has(down, "open", i)
                       /\ OpenOnce(down, i) => OpenOnce(down', i)
                       /\ OpenFirst(down, i) => OpenFirst(down', i)
    BY <1>14, PrefixShape DEF LinkCut, PipeTypes
  <2> QED
    BY <1>14, <2>1 DEF LinkCut, Opened, hostVars, contVars, cliVars, srvVars
<1>15. CASE UNCHANGED vars
  BY <1>15 DEF vars, Opened, hostVars, contVars, cliVars, srvVars, pipeVars
<1> QED
  BY <1>1, <1>2, <1>3, <1>4, <1>5, <1>6, <1>7, <1>8, <1>9, <1>10, <1>11, <1>12, <1>13, <1>14,
     <1>15, Steps

\* While the transport holds, only connections of an end that has closed are
\* closed.
LEMMA ShutNext ==
    ASSUME TypeOK, Opened, Shut, Downwards, Upwards, [Next]_vars PROVE Shut'
<1>0. HostTypes /\ ContTypes /\ PipeTypes
  BY TypeParts
<1> USE <1>0
<1>a. link' = "up" => link = "up"
  BY Steps DEF CliSend, CliClose, SrvSend, SrvClose, HostOpen, HostRead, HostEnd, HostEnded,
     ContRead, ContEnd, ContEnded, HostAccept, HostData, HostClose, HostEOF, HostExit,
     ContOpen, ContDialFails, ContData, ContClose, ContEOF, ContExit, LinkCut, vars, pipeVars
<1> DEFINE Dead(i) == cli[i] = "closed" \/ srv[i] = "closed"
           Ended(i) == \/ hostFd[i] = "closed" \/ hostRd[i] \in {"closing", "done"}
                       \/ contFd[i] = "closed" \/ contRd[i] \in {"closing", "done"}
                       \/ Has(down, "close", i) \/ Has(up, "close", i)
<1> SUFFICES ASSUME link' = "up"
             PROVE  host' = "serve" /\ cont' = "serve" /\ \A i \in Ids : Ended(i)' => Dead(i)'
  BY DEF Shut
<1>b. link = "up" /\ ~Broken /\ host = "serve" /\ cont = "serve" /\ \A i \in Ids : Ended(i) => Dead(i)
  BY <1>a DEF Shut, Broken
<1> DEFINE Goal == host' = "serve" /\ cont' = "serve" /\ \A i \in Ids : Ended(i)' => Dead(i)'
<1> SUFFICES Goal
  OBVIOUS
<1>1. ASSUME NEW id \in Ids, CliSend(id) \/ CliClose(id) \/ SrvSend(id) \/ SrvClose(id)
      PROVE  Goal
  BY <1>1, <1>b DEF CliSend, CliClose, SrvSend, SrvClose, HostTypes, ContTypes,
     hostVars, contVars, pipeVars, cliVars, srvVars
<1>2. ASSUME NEW id \in Ids, HostOpen(id) PROVE Goal
  <2>1. Open(id) \in Frames /\ Open(id).type = "open"
    BY FrameTypes DEF Open
  <2>2. down' = Append(down, Open(id))
    BY <1>2, <1>b DEF HostOpen
  <2>3. \A i \in Ids : Has(down', "close", i) => Has(down, "close", i)
    BY <2>1, <2>2, PushShape DEF PipeTypes
  <2> QED
    BY <1>2, <1>b, <2>3 DEF HostOpen, HostTypes, contVars, srvVars, cliVars
<1>3. ASSUME NEW id \in Ids, HostRead(id) PROVE Goal
  <2> DEFINE f == Data(Head(cliBuf[id]))
  <2>1. cliBuf[id] \in Seq(Chunks) /\ cliBuf[id] # <<>> /\ cliSent[id] \in Nat
    BY <1>3, ConstAssumption DEF HostRead, TypeOK
  <2>2. Buffered(cliBuf[id], id, cliSent[id])
    BY DEF Downwards, Flow
  <2>3. f \in Frames /\ f.type = "data"
    BY <2>1, <2>2, NextChunk
  <2>4. down' = Append(down, f)
    BY <1>3, <1>b DEF HostRead
  <2> HIDE DEF f
  <2>5. \A i \in Ids : Has(down', "close", i) => Has(down, "close", i)
    BY <2>3, <2>4, PushShape DEF PipeTypes
  <2> QED
    BY <1>3, <1>b, <2>5 DEF HostRead, HostTypes, contVars, srvVars, cliVars
<1>4. ASSUME NEW id \in Ids, HostEnd(id) PROVE Goal
  <2>1. Close(id) \in Frames /\ Close(id).type = "close" /\ Close(id).id = id
    BY FrameTypes DEF Close
  <2>2. down' = Append(down, Close(id))
    BY <1>4, <1>b DEF HostEnd
  <2>3. \A i \in Ids \ {id} : Has(down', "close", i) => Has(down, "close", i)
    BY <2>1, <2>2, PushShape DEF PipeTypes
  <2>4. Dead(id)
    BY <1>4, <1>b DEF HostEnd, HostReadEnds
  <2> QED
    BY <1>4, <1>b, <2>3, <2>4 DEF HostEnd, HostTypes, contVars, srvVars, cliVars
<1>5. ASSUME NEW id \in Ids, HostEnded(id) PROVE Goal
  BY <1>5, <1>b DEF HostEnded, HostDrop, HostTypes, contVars, srvVars, cliVars, pipeVars
<1>6. ASSUME NEW id \in Ids, ContRead(id) PROVE Goal
  <2> DEFINE f == Data(Head(srvBuf[id]))
  <2>1. srvBuf[id] \in Seq(Chunks) /\ srvBuf[id] # <<>> /\ srvSent[id] \in Nat
    BY <1>6, ConstAssumption DEF ContRead, TypeOK
  <2>2. Buffered(srvBuf[id], id, srvSent[id])
    BY DEF Upwards, Flow
  <2>3. f \in Frames /\ f.type = "data"
    BY <2>1, <2>2, NextChunk
  <2>4. up' = Append(up, f)
    BY <1>6, <1>b DEF ContRead
  <2> HIDE DEF f
  <2>5. \A i \in Ids : Has(up', "close", i) => Has(up, "close", i)
    BY <2>3, <2>4, PushShape DEF PipeTypes
  <2> QED
    BY <1>6, <1>b, <2>5 DEF ContRead, ContTypes, hostVars, cliVars
<1>7. ASSUME NEW id \in Ids, ContEnd(id) PROVE Goal
  <2>1. Close(id) \in Frames /\ Close(id).type = "close" /\ Close(id).id = id
    BY FrameTypes DEF Close
  <2>2. up' = Append(up, Close(id))
    BY <1>7, <1>b DEF ContEnd
  <2>3. \A i \in Ids \ {id} : Has(up', "close", i) => Has(up, "close", i)
    BY <2>1, <2>2, PushShape DEF PipeTypes
  <2>4. Dead(id)
    BY <1>7, <1>b DEF ContEnd, ContReadEnds
  <2> QED
    BY <1>7, <1>b, <2>3, <2>4 DEF ContEnd, ContTypes, hostVars, cliVars, srvVars
<1>8. ASSUME NEW id \in Ids, ContEnded(id) PROVE Goal
  BY <1>8, <1>b DEF ContEnded, ContTypes, hostVars, cliVars, srvVars, pipeVars
<1>9. CASE HostAccept
  <2>1. nextID + 1 \in Ids /\ nextID \in Nat
    BY <1>9, ConstAssumption DEF HostAccept, HostTypes, Ids
  <2>2. hostRd[nextID + 1] = "none" /\ srv[nextID + 1] = "none" /\ contFd' = contFd
    BY <1>9, <2>1 DEF Opened, HostAccept, contVars
  <2>3. cli[nextID + 1] # "closed"
    BY <2>1 DEF Opened
  <2> QED
    BY <1>9, <1>b, <2>1, <2>2, <2>3 DEF HostAccept, HostTypes, contVars, srvVars, pipeVars
<1>10. CASE HostData \/ HostClose
  <2> DEFINE id == Head(up).id
  <2>1. up # <<>> /\ up \in Seq(Frames) /\ id \in Ids
    BY <1>10, HostTakes
  <2>2. up' = Tail(up)
    BY <1>10, HostTakes
  <2>3. \A i \in Ids : Has(up', "close", i) => Has(up, "close", i)
    BY <2>1, <2>2, PopShape
  <2>4. HostClose => Has(up, "close", id)
    BY <2>1, PopShape DEF HostClose, HostFrame
  <2>5. id \in hostConns => hostFd[id] # "none" /\ cli[id] # "none"
    BY <2>1 DEF Opened
  <2>6. hostFd'[id] = "closed" => Dead(id)
    BY <1>10, <1>b, <2>1, <2>4, <2>5 DEF HostData, HostClose, HostTypes, FdStates
  <2>7. \A i \in Ids \ {id} : hostFd'[i] = hostFd[i]
    BY <1>10, <2>1 DEF HostData, HostClose, HostTypes
  <2> QED
    BY <1>10, <1>b, <2>3, <2>6, <2>7, HostTakes DEF contVars, srvVars
<1>11. CASE HostEOF \/ HostExit \/ ContEOF \/ ContExit
  BY <1>11, <1>b DEF HostEOF, HostExit, ContEOF, ContExit
<1>12. CASE ContOpen \/ ContDialFails \/ ContData \/ ContClose
  <2> DEFINE id == Head(down).id
  <2>1. down # <<>> /\ down \in Seq(Frames) /\ id \in Ids
    BY <1>12, ContTakes
  <2>2. down' = Tail(down)
    BY <1>12, ContTakes
  <2>3. \A i \in Ids : Has(down', "close", i) => Has(down, "close", i)
    BY <2>1, <2>2, PopShape
  <2>4. Close(id) \in Frames /\ Close(id).type = "close" /\ Close(id).id = id
    BY <2>1, FrameTypes DEF Close
  <2>5. UNCHANGED <<hostVars, cliVars>>
    BY <1>12, ContTakes
  <2>6. Head(down).type = "open" => srv[id] = "none"
    BY <2>1, PopShape DEF Opened
  <2>7. CASE ContOpen
    BY <1>b, <2>1, <2>3, <2>5, <2>6, <2>7 DEF ContOpen, ContTypes, ContFrame, hostVars, cliVars
  <2>8. CASE ContDialFails
    <3>1. up' = Append(up, Close(id))
      BY <1>b, <2>8 DEF ContDialFails
    <3>2. \A i \in Ids \ {id} : Has(up', "close", i) => Has(up, "close", i)
      BY <2>4, <3>1, PushShape DEF PipeTypes
    <3>3. srv' = [srv EXCEPT ![id] = "closed"] /\ UNCHANGED <<cont, contFd, contRd>>
      BY <1>b, <2>8 DEF ContDialFails
    <3> QED
      BY <1>b, <2>1, <2>3, <2>5, <3>2, <3>3 DEF ContTypes, hostVars, cliVars
  <2>9. CASE ContClose
    <3>1. Has(down, "close", id)
      BY <2>1, <2>9, PopShape DEF ContClose, ContFrame
    <3> QED
      BY <1>b, <2>1, <2>3, <2>5, <2>9, <3>1 DEF ContClose, ContTypes, hostVars, cliVars, srvVars
  <2>10. CASE ContData
    <3>1. id \in contConns => contFd[id] # "none" /\ srv[id] # "none"
      BY <2>1 DEF Opened
    <3>2. CASE up' = Append(up, Close(id)) /\ id \in contConns
               /\ ~(contFd[id] = "open" /\ srv[id] = "open")
      <4>1. Dead(id)
        BY <1>b, <2>1, <3>1, <3>2 DEF ContTypes, FdStates
      <4>2. \A i \in Ids \ {id} : Has(up', "close", i) => Has(up, "close", i)
        BY <2>4, <3>2, PushShape DEF PipeTypes
      <4>3. \A i \in Ids \ {id} : contFd'[i] = contFd[i]
        BY <2>1, <2>10 DEF ContData, ContTypes
      <4>4. UNCHANGED <<cont, contRd, srv>>
        BY <1>b, <2>10 DEF ContData
      <4> QED
        BY <1>b, <2>3, <2>5, <4>1, <4>2, <4>3, <4>4 DEF hostVars, cliVars
    <3>3. CASE UNCHANGED <<up, cont, contFd>>
      BY <1>b, <2>3, <2>5, <2>10, <3>3 DEF ContData, hostVars, cliVars
    <3> QED
      BY <1>b, <2>10, <3>2, <3>3 DEF ContData
  <2> QED
    BY <1>12, <2>7, <2>8, <2>9, <2>10
<1>13. CASE LinkCut
  BY <1>13 DEF LinkCut
<1>14. CASE UNCHANGED vars
  BY <1>14, <1>b DEF vars, hostVars, contVars, cliVars, srvVars, pipeVars
<1> QED
  BY <1>1, <1>2, <1>3, <1>4, <1>5, <1>6, <1>7, <1>8, <1>9, <1>10, <1>11, <1>12, <1>13, <1>14,
     Steps

-----------------------------------------------------------------------------
(***************************************************************************)
(* The chunks of a connection on their way.                                *)
(***************************************************************************)

\* Its sender sends.
LEMMA SendFlow ==
    ASSUME NEW p \in Seq(Frames), NEW i \in Ids, NEW s \in Nat, NEW b \in Seq(Chunks),
           NEW g \in Seq(Chunks), Flow(p, i, s, b, g)
    PROVE  /\ Flow(p, i, s + 1, Append(b, [id |-> i, n |-> s + 1]), g)
           /\ Full(p, i, s, b, g) => Full(p, i, s + 1, Append(b, [id |-> i, n |-> s + 1]), g)
<1> DEFINE c == [id |-> i, n |-> s + 1]
           z == Len(b) + 1
           d == Append(b, c)
<1>1. Len(b) \in Nat /\ Len(d) = z /\ d[z] = c /\ \A m \in 1 .. Len(b) : d[m] = b[m]
  OBVIOUS
<1>2. Len(b) <= s /\ \A m \in 1 .. Len(b) : b[m] = [id |-> i, n |-> s - Len(b) + m]
  BY DEF Flow, Buffered
<1>3. (s + 1) - z = s - Len(b)
  BY <1>1
<1> HIDE DEF d
<1>4. Buffered(d, i, s + 1)
  <2> SUFFICES ASSUME NEW m \in 1 .. z PROVE d[m] = [id |-> i, n |-> (s + 1) - z + m]
    BY <1>1, <1>2 DEF Buffered
  <2>1. CASE m = z
    <3>1. (s + 1) - z + z = s + 1
      BY <1>1
    <3> QED
      BY <1>1, <2>1, <3>1
  <2>2. CASE m \in 1 .. Len(b)
    BY <1>1, <1>2, <1>3, <2>2
  <2> QED
    BY <1>1, <2>1, <2>2
<1>5. Written(p, i, s + 1)
  BY NumNat DEF Flow, Written
<1>6. Given(g, i, s + 1)
  BY DEF Flow, Given
<1>7. Full(p, i, s, b, g) => Full(p, i, s + 1, d, g)
  BY <1>1, <1>3 DEF Full
<1> QED
  BY <1>4, <1>5, <1>6, <1>7 DEF Flow, d

\* Its reader takes a chunk, and writes it or not.
LEMMA ReadFlow ==
    ASSUME NEW p \in Seq(Frames), NEW i \in Ids, NEW s \in Nat, NEW b \in Seq(Chunks),
           NEW g \in Seq(Chunks), Flow(p, i, s, b, g), b # <<>>
    PROVE  /\ Flow(p, i, s, Tail(b), g)
           /\ Flow(Append(p, Data(Head(b))), i, s, Tail(b), g)
           /\ Line(p, i, g) /\ Full(p, i, s, b, g) =>
                /\ Line(Append(p, Data(Head(b))), i, g)
                /\ Full(Append(p, Data(Head(b))), i, s, Tail(b), g)
<1> DEFINE f == Data(Head(b))
           v == s - Len(b)
           w == s - Len(Tail(b))
<1>1. Buffered(b, i, s) /\ Written(p, i, s) /\ Given(g, i, s) /\ Len(g) \in Nat
  BY DEF Flow
<1>2. /\ f \in Frames /\ f.type = "data" /\ f.id = i /\ f.chunk.id = i /\ f.chunk.n = v + 1
      /\ v \in Nat /\ v + 1 <= s /\ Buffered(Tail(b), i, s) /\ w = v + 1
  BY <1>1, NextChunk
<1> HIDE DEF f, v, w
<1>3. Written(Append(p, f), i, s)
  BY <1>1, <1>2, PushOwn
<1>4. ASSUME InOrder(p, i, Len(g)), Fed(p, i, Len(g), v)
      PROVE  InOrder(Append(p, f), i, Len(g)) /\ Fed(Append(p, f), i, Len(g), v + 1)
  BY <1>1, <1>2, <1>4, PushOwn
<1> QED
  BY <1>1, <1>2, <1>3, <1>4 DEF Flow, Line, Full, f, v, w

\* A frame is written that is not a chunk of i.
LEMMA PushFlow ==
    ASSUME NEW p \in Seq(Frames), NEW i \in Ids, NEW s \in Nat, NEW b \in Seq(Chunks),
           NEW g \in Seq(Chunks), Flow(p, i, s, b, g), NEW f \in Frames,
           f.type # "data" \/ f.id # i
    PROVE  /\ Flow(Append(p, f), i, s, b, g)
           /\ Line(p, i, g) => Line(Append(p, f), i, g)
           /\ Full(p, i, s, b, g) => Full(Append(p, f), i, s, b, g)
<1>1. Len(g) \in Nat /\ s - Len(b) \in Nat
  BY DEF Flow, Buffered
<1> QED
  BY <1>1, PushOther DEF Flow, Line, Full

\* The first frame is taken and not given to the other end of i.
LEMMA TakeFlow ==
    ASSUME NEW p \in Seq(Frames), NEW i \in Ids, NEW s \in Nat, NEW b \in Seq(Chunks),
           NEW g \in Seq(Chunks), Flow(p, i, s, b, g), p # <<>>
    PROVE  /\ Flow(Tail(p), i, s, b, g)
           /\ ~IsData(p, 1, i) =>
                /\ Line(p, i, g) => Line(Tail(p), i, g)
                /\ Full(p, i, s, b, g) => Full(Tail(p), i, s, b, g)
<1>1. Len(g) \in Nat /\ s - Len(b) \in Nat
  BY DEF Flow, Buffered
<1>2. Written(Tail(p), i, s)
  <2>1. Len(Tail(p)) = Len(p) - 1 /\ \A k \in 1 .. Len(p) - 1 : Tail(p)[k] = p[k + 1]
    OBVIOUS
  <2> QED
    BY <2>1 DEF Flow, Written, IsData, Num
<1>3. ~IsData(p, 1, i) => /\ Line(p, i, g) => Line(Tail(p), i, g)
                          /\ Full(p, i, s, b, g) => Full(Tail(p), i, s, b, g)
  BY <1>1, PopOther DEF Line, Full
<1> QED
  BY <1>2, <1>3 DEF Flow

\* It is given to it.
LEMMA GiveFlow ==
    ASSUME NEW p \in Seq(Frames), NEW i \in Ids, NEW s \in Nat, NEW b \in Seq(Chunks),
           NEW g \in Seq(Chunks), Flow(p, i, s, b, g), p # <<>>, IsData(p, 1, i), Line(p, i, g)
    PROVE  /\ Flow(Tail(p), i, s, b, Append(g, Head(p).chunk))
           /\ Line(Tail(p), i, Append(g, Head(p).chunk))
           /\ Full(p, i, s, b, g) => Full(Tail(p), i, s, b, Append(g, Head(p).chunk))
<1> DEFINE c == Head(p).chunk
           z == Len(g) + 1
           h == Append(g, c)
<1>1. Head(p) = p[1] /\ 1 \in 1 .. Len(p) /\ p[1] \in Frames
  OBVIOUS
<1>2. c \in Chunks /\ c.id = i /\ c.n = Num(p, 1)
  BY <1>1, FrameFields DEF Flow, Written, IsData, Num
<1>3. Len(g) \in Nat /\ s - Len(b) \in Nat /\ Written(p, i, s) /\ Given(g, i, s)
  BY DEF Flow, Buffered
<1>4. InOrder(p, i, Len(g))
  BY DEF Line
<1>5. Num(p, 1) = z /\ InOrder(Tail(p), i, z) /\ Written(Tail(p), i, s) /\ z <= s
      /\ (Fed(p, i, Len(g), s - Len(b)) => Fed(Tail(p), i, z, s - Len(b)))
  BY <1>3, <1>4, PopOwn
<1>6. c = [id |-> i, n |-> z]
  BY <1>2, <1>5 DEF Chunks
<1>7. Len(h) = z /\ h[z] = c /\ \A n \in 1 .. Len(g) : h[n] = g[n]
  BY <1>2
<1> HIDE DEF h, c
<1>8. Given(h, i, s)
  <2> SUFFICES ASSUME NEW n \in 1 .. z PROVE h[n] = [id |-> i, n |-> n]
    BY <1>5, <1>7 DEF Given
  <2>1. CASE n = z
    BY <1>6, <1>7, <2>1
  <2>2. CASE n \in 1 .. Len(g)
    BY <1>3, <1>7, <2>2 DEF Given
  <2> QED
    BY <1>3, <2>1, <2>2
<1> QED
  BY <1>5, <1>7, <1>8 DEF Flow, Line, Full, h, c

\* The pipe breaks.
LEMMA CutFlow ==
    ASSUME NEW p \in Seq(Frames), NEW i \in Ids, NEW s \in Nat, NEW b \in Seq(Chunks),
           NEW g \in Seq(Chunks), Flow(p, i, s, b, g), NEW m \in 0 .. Len(p)
    PROVE  /\ Flow(SubSeq(p, 1, m), i, s, b, g)
           /\ Line(p, i, g) => Line(SubSeq(p, 1, m), i, g)
<1>1. Len(g) \in Nat
  OBVIOUS
<1> QED
  BY <1>1, Prefix DEF Flow, Line

\* The chunks of the clients stay in order.
LEMMA DownwardsNext ==
    ASSUME TypeOK, Opened, Downwards, Upwards, [Next]_vars PROVE Downwards'
<1>0. /\ HostTypes /\ ContTypes /\ PipeTypes /\ ChunkTypes /\ down \in Seq(Frames)
      /\ \A i \in Ids : cliSent[i] \in Nat /\ cliBuf[i] \in Seq(Chunks) /\ srvGot[i] \in Seq(Chunks)
  BY TypeParts, ConstAssumption DEF PipeTypes, ChunkTypes
<1> USE <1>0
<1> DEFINE Good(i) ==
        /\ Flow(down, i, cliSent[i], cliBuf[i], srvGot[i])
        /\ ToSrv(i) => Line(down, i, srvGot[i])
        /\ ToSrv(i) /\ link = "up" => Full(down, i, cliSent[i], cliBuf[i], srvGot[i])
<1>a. \A i \in Ids : Good(i)
  BY DEF Downwards
<1>b. ASSUME \A i \in Ids : Good(i)' PROVE Downwards'
  BY <1>b DEF Downwards
<1>1. ASSUME NEW id \in Ids, CliSend(id) PROVE Downwards'
  <2>1. cliSent' = [cliSent EXCEPT ![id] = @ + 1] /\ UNCHANGED <<down, srvGot, link>>
        /\ cliBuf' = [cliBuf EXCEPT ![id] = Append(@, [id |-> id, n |-> cliSent[id] + 1])]
    BY <1>1 DEF CliSend, srvVars, pipeVars
  <2>2. \A i \in Ids : ToSrv(i)' <=> ToSrv(i)
    BY <1>1 DEF CliSend, ToSrv, contVars, srvVars
  <2>3. /\ Flow(down, id, cliSent[id] + 1,
                Append(cliBuf[id], [id |-> id, n |-> cliSent[id] + 1]), srvGot[id])
        /\ Full(down, id, cliSent[id], cliBuf[id], srvGot[id]) =>
            Full(down, id, cliSent[id] + 1,
                 Append(cliBuf[id], [id |-> id, n |-> cliSent[id] + 1]), srvGot[id])
    BY <1>a, SendFlow
  <2>4. Good(id)'
    BY <1>a, <2>1, <2>2, <2>3 DEF ChunkTypes
  <2>5. ASSUME NEW i \in Ids \ {id} PROVE Good(i)'
    BY <1>a, <2>1, <2>2 DEF ChunkTypes
  <2> QED
    BY <1>b, <2>4, <2>5
<1>2. ASSUME NEW id \in Ids, HostRead(id) PROVE Downwards'
  <2> DEFINE f == Data(Head(cliBuf[id]))
  <2>1. cliBuf' = [cliBuf EXCEPT ![id] = Tail(@)] /\ UNCHANGED <<cliSent, srvGot, link>>
        /\ cliBuf[id] # <<>> /\ \A i \in Ids : ToSrv(i)' <=> ToSrv(i)
    BY <1>2 DEF HostRead, ToSrv, contVars, srvVars
  <2>2. f \in Frames /\ f.type = "data" /\ f.id = id
    BY <1>a, <2>1, NextChunk DEF Flow
  <2>3. /\ Flow(down, id, cliSent[id], Tail(cliBuf[id]), srvGot[id])
        /\ Flow(Append(down, f), id, cliSent[id], Tail(cliBuf[id]), srvGot[id])
        /\ Line(down, id, srvGot[id]) /\ Full(down, id, cliSent[id], cliBuf[id], srvGot[id]) =>
            /\ Line(Append(down, f), id, srvGot[id])
            /\ Full(Append(down, f), id, cliSent[id], Tail(cliBuf[id]), srvGot[id])
    BY <1>a, <2>1, ReadFlow
  <2> HIDE DEF f
  <2>4. CASE link = "up" /\ down' = Append(down, f)
    <3>1. Good(id)'
      BY <1>a, <2>1, <2>3, <2>4 DEF ChunkTypes
    <3>2. ASSUME NEW i \in Ids \ {id} PROVE Good(i)'
      BY <1>a, <2>1, <2>2, <2>4, PushFlow DEF ChunkTypes
    <3> QED
      BY <1>b, <3>1, <3>2
  <2>5. CASE Broken /\ down' = down
    <3>1. Good(id)'
      BY <1>a, <2>1, <2>3, <2>5 DEF ChunkTypes, Broken
    <3>2. ASSUME NEW i \in Ids \ {id} PROVE Good(i)'
      BY <1>a, <2>1, <2>5 DEF ChunkTypes
    <3> QED
      BY <1>b, <3>1, <3>2
  <2> QED
    BY <1>2, <2>4, <2>5 DEF HostRead, Room, f
<1>3. ASSUME NEW id \in Ids, HostOpen(id) \/ HostEnd(id) PROVE Downwards'
  <2>1. UNCHANGED <<cliSent, cliBuf, srvGot, link>> /\ \A i \in Ids : ToSrv(i)' <=> ToSrv(i)
    BY <1>3 DEF HostOpen, HostEnd, ToSrv, cliVars, contVars, srvVars
  <2>2. ASSUME NEW f \in Frames, f.type # "data", down' = Append(down, f) PROVE Downwards'
    BY <1>a, <1>b, <2>1, <2>2, PushFlow
  <2>3. Open(id) \in Frames /\ Open(id).type # "data"
    BY FrameTypes DEF Open
  <2>4. Close(id) \in Frames /\ Close(id).type # "data"
    BY FrameTypes DEF Close
  <2>5. CASE down' = down
    BY <1>a, <1>b, <2>1, <2>5
  <2>6. down' = down \/ down' = Append(down, Open(id)) \/ down' = Append(down, Close(id))
    BY <1>3 DEF HostOpen, HostEnd
  <2> QED
    BY <2>2, <2>3, <2>4, <2>5, <2>6
<1>4. CASE ContOpen \/ ContDialFails \/ ContClose
           \/ (ContData /\ ~(Head(down).id \in contConns /\ contFd[Head(down).id] = "open"
                                                     /\ srv[Head(down).id] = "open"))
  <2> DEFINE id == Head(down).id
  <2>1. /\ down # <<>> /\ Head(down) = down[1] /\ id \in Ids
        /\ UNCHANGED <<cliSent, cliBuf, link>>
    BY <1>4, ContTakes DEF cliVars
  <2>2. down' = Tail(down)
    BY <1>4, ContTakes
  <2>3. srvGot' = srvGot
    BY <1>4 DEF ContOpen, ContDialFails, ContClose, ContData, srvVars
  <2>4. ASSUME NEW i \in Ids, IsData(down, 1, i) PROVE ~ToSrv(i)'
    <3>1. /\ ContData /\ i = id
          /\ ~(id \in contConns /\ contFd[id] = "open" /\ srv[id] = "open")
      BY <1>4, <2>1, <2>4 DEF ContOpen, ContDialFails, ContClose, ContFrame, IsData
    <3>2. ~OpenFirst(down, i)
      BY <2>1, <2>4, PopShape
    <3>3. srv[i] # "none"
      BY <3>2 DEF Opened
    <3>4. srv' = srv
      BY <3>1 DEF ContData
    <3>5. i \notin contConns'
      BY <3>1 DEF ContData
    <3> QED
      BY <3>3, <3>4, <3>5 DEF ToSrv
  <2>5. ASSUME NEW i \in Ids, ToSrv(i)' PROVE ToSrv(i)
    <3>1. CASE ContOpen \/ ContDialFails
      <4>1. srv[id] = "none"
        BY <2>1, <3>1, PopShape DEF Opened, ContOpen, ContDialFails, ContFrame
      <4> QED
        BY <2>1, <2>5, <3>1, <4>1 DEF ContOpen, ContDialFails, ContTypes, ToSrv
    <3>2. CASE ContClose \/ ContData
      BY <2>5, <3>2 DEF ContClose, ContData, ToSrv, srvVars
    <3> QED
      BY <1>4, <3>1, <3>2
  <2>6. ASSUME NEW i \in Ids PROVE Good(i)'
    <3>1. /\ Flow(Tail(down), i, cliSent[i], cliBuf[i], srvGot[i])
          /\ ~IsData(down, 1, i) =>
                /\ Line(down, i, srvGot[i]) => Line(Tail(down), i, srvGot[i])
                /\ Full(down, i, cliSent[i], cliBuf[i], srvGot[i]) =>
                        Full(Tail(down), i, cliSent[i], cliBuf[i], srvGot[i])
      BY <1>a, <2>1, TakeFlow
    <3> QED
      BY <1>a, <2>1, <2>2, <2>3, <2>4, <2>5, <3>1
  <2> QED
    BY <1>b, <2>6
<1>5. CASE ContData /\ Head(down).id \in contConns /\ contFd[Head(down).id] = "open"
                    /\ srv[Head(down).id] = "open"
  <2>0. PICK id \in Ids : id = Head(down).id
    BY <1>5, ContTakes
  <2>1. /\ down # <<>> /\ Head(down) = down[1] /\ id = Head(down).id
        /\ UNCHANGED <<cliSent, cliBuf, link>>
    BY <1>5, <2>0, ContTakes DEF cliVars
  <2>2. down' = Tail(down)
    BY <1>5, ContTakes
  <2>3. srvGot' = [srvGot EXCEPT ![id] = Append(@, Head(down).chunk)]
        /\ \A i \in Ids : ToSrv(i)' <=> ToSrv(i)
    BY <1>5, <2>0 DEF ContData, ToSrv
  <2>4. IsData(down, 1, id) /\ ToSrv(id) /\ \A i \in Ids \ {id} : ~IsData(down, 1, i)
    BY <1>5, <2>1 DEF ContData, ContFrame, IsData, ToSrv
  <2>5. /\ Flow(Tail(down), id, cliSent[id], cliBuf[id], Append(srvGot[id], Head(down).chunk))
        /\ Line(Tail(down), id, Append(srvGot[id], Head(down).chunk))
        /\ Full(down, id, cliSent[id], cliBuf[id], srvGot[id]) =>
            Full(Tail(down), id, cliSent[id], cliBuf[id], Append(srvGot[id], Head(down).chunk))
    BY <1>a, <2>1, <2>4, GiveFlow
  <2>5a. srvGot'[id] = Append(srvGot[id], Head(down).chunk)
         /\ cliSent'[id] = cliSent[id] /\ cliBuf'[id] = cliBuf[id]
    BY <2>1, <2>3 DEF ChunkTypes
  <2>6. Good(id)'
    BY <1>a, <2>1, <2>2, <2>4, <2>5, <2>5a
  <2>7. ASSUME NEW i \in Ids \ {id} PROVE Good(i)'
    <3>1. /\ Flow(Tail(down), i, cliSent[i], cliBuf[i], srvGot[i])
          /\ Line(down, i, srvGot[i]) => Line(Tail(down), i, srvGot[i])
          /\ Full(down, i, cliSent[i], cliBuf[i], srvGot[i]) =>
                Full(Tail(down), i, cliSent[i], cliBuf[i], srvGot[i])
      BY <1>a, <2>1, <2>4, TakeFlow
    <3>2. srvGot'[i] = srvGot[i] /\ cliSent'[i] = cliSent[i] /\ cliBuf'[i] = cliBuf[i]
          /\ (ToSrv(i)' <=> ToSrv(i)) /\ link' = link
      BY <2>1, <2>3 DEF ChunkTypes
    <3> QED
      BY <1>a, <2>2, <3>1, <3>2
  <2> QED
    BY <1>b, <2>6, <2>7
<1>6. CASE LinkCut
  <2>1. PICK m \in 0 .. Len(down) : down' = SubSeq(down, 1, m)
    BY <1>6 DEF LinkCut
  <2>2. UNCHANGED <<cliSent, cliBuf, srvGot>> /\ link' # "up"
        /\ \A i \in Ids : ToSrv(i)' <=> ToSrv(i)
    BY <1>6 DEF LinkCut, ToSrv, cliVars, contVars, srvVars
  <2>3. ASSUME NEW i \in Ids PROVE Good(i)'
    <3>1. /\ Flow(SubSeq(down, 1, m), i, cliSent[i], cliBuf[i], srvGot[i])
          /\ Line(down, i, srvGot[i]) => Line(SubSeq(down, 1, m), i, srvGot[i])
      BY <1>a, CutFlow
    <3> QED
      BY <1>a, <2>1, <2>2, <3>1
  <2> QED
    BY <1>b, <2>3
<1>7. CASE /\ UNCHANGED <<down, cliSent, cliBuf, srvGot, link>>
           /\ \A i \in Ids : ToSrv(i)' => ToSrv(i)
  BY <1>a, <1>b, <1>7
<1>8. ASSUME NEW id \in Ids, CliClose(id) \/ SrvSend(id) \/ SrvClose(id) \/ HostEnded(id)
             \/ ContRead(id) \/ ContEnd(id) \/ ContEnded(id)
      PROVE  /\ UNCHANGED <<down, cliSent, cliBuf, srvGot, link>>
             /\ \A i \in Ids : ToSrv(i)' => ToSrv(i)
  BY <1>8 DEF CliClose, SrvSend, SrvClose, HostEnded, ContRead, ContEnd, ContEnded, ToSrv,
     ContTypes, hostVars, cliVars, contVars, srvVars, pipeVars
<1>9. ASSUME HostAccept \/ HostData \/ HostClose \/ HostEOF \/ HostExit \/ ContEOF \/ ContExit
             \/ UNCHANGED vars
      PROVE  /\ UNCHANGED <<down, cliSent, cliBuf, srvGot, link>>
             /\ \A i \in Ids : ToSrv(i)' => ToSrv(i)
  BY <1>9 DEF HostAccept, HostData, HostClose, HostEOF, HostExit, ContEOF, ContExit, ToSrv,
     ContTypes, hostVars, cliVars, contVars, srvVars, pipeVars, vars
<1> QED
  BY <1>1, <1>2, <1>3, <1>4, <1>5, <1>6, <1>7, <1>8, <1>9, Steps

\* So do those of the server.
LEMMA UpwardsNext ==
    ASSUME TypeOK, Opened, Upwards, Upwards, [Next]_vars PROVE Upwards'
<1>0. /\ HostTypes /\ ContTypes /\ PipeTypes /\ ChunkTypes /\ up \in Seq(Frames)
      /\ \A i \in Ids : srvSent[i] \in Nat /\ srvBuf[i] \in Seq(Chunks) /\ cliGot[i] \in Seq(Chunks)
  BY TypeParts, ConstAssumption DEF PipeTypes, ChunkTypes
<1> USE <1>0
<1> DEFINE Good(i) ==
        /\ Flow(up, i, srvSent[i], srvBuf[i], cliGot[i])
        /\ ToCli(i) => Line(up, i, cliGot[i])
        /\ ToCli(i) /\ link = "up" => Full(up, i, srvSent[i], srvBuf[i], cliGot[i])
<1>a. \A i \in Ids : Good(i)
  BY DEF Upwards
<1>b. ASSUME \A i \in Ids : Good(i)' PROVE Upwards'
  BY <1>b DEF Upwards
<1>1. ASSUME NEW id \in Ids, SrvSend(id) PROVE Upwards'
  <2>1. srvSent' = [srvSent EXCEPT ![id] = @ + 1] /\ UNCHANGED <<up, cliGot, link>>
        /\ srvBuf' = [srvBuf EXCEPT ![id] = Append(@, [id |-> id, n |-> srvSent[id] + 1])]
    BY <1>1 DEF SrvSend, cliVars, pipeVars
  <2>2. \A i \in Ids : ToCli(i)' <=> ToCli(i)
    BY <1>1 DEF SrvSend, ToCli, hostVars, cliVars
  <2>3. /\ Flow(up, id, srvSent[id] + 1,
                Append(srvBuf[id], [id |-> id, n |-> srvSent[id] + 1]), cliGot[id])
        /\ Full(up, id, srvSent[id], srvBuf[id], cliGot[id]) =>
            Full(up, id, srvSent[id] + 1,
                 Append(srvBuf[id], [id |-> id, n |-> srvSent[id] + 1]), cliGot[id])
    BY <1>a, SendFlow
  <2>4. Good(id)'
    BY <1>a, <2>1, <2>2, <2>3 DEF ChunkTypes
  <2>5. ASSUME NEW i \in Ids \ {id} PROVE Good(i)'
    BY <1>a, <2>1, <2>2 DEF ChunkTypes
  <2> QED
    BY <1>b, <2>4, <2>5
<1>2. ASSUME NEW id \in Ids, ContRead(id) PROVE Upwards'
  <2> DEFINE f == Data(Head(srvBuf[id]))
  <2>1. srvBuf' = [srvBuf EXCEPT ![id] = Tail(@)] /\ UNCHANGED <<srvSent, cliGot, link>>
        /\ srvBuf[id] # <<>> /\ \A i \in Ids : ToCli(i)' <=> ToCli(i)
    BY <1>2 DEF ContRead, ToCli, hostVars, cliVars
  <2>2. f \in Frames /\ f.type = "data" /\ f.id = id
    BY <1>a, <2>1, NextChunk DEF Flow
  <2>3. /\ Flow(up, id, srvSent[id], Tail(srvBuf[id]), cliGot[id])
        /\ Flow(Append(up, f), id, srvSent[id], Tail(srvBuf[id]), cliGot[id])
        /\ Line(up, id, cliGot[id]) /\ Full(up, id, srvSent[id], srvBuf[id], cliGot[id]) =>
            /\ Line(Append(up, f), id, cliGot[id])
            /\ Full(Append(up, f), id, srvSent[id], Tail(srvBuf[id]), cliGot[id])
    BY <1>a, <2>1, ReadFlow
  <2> HIDE DEF f
  <2>4. CASE link = "up" /\ up' = Append(up, f)
    <3>1. Good(id)'
      BY <1>a, <2>1, <2>3, <2>4 DEF ChunkTypes
    <3>2. ASSUME NEW i \in Ids \ {id} PROVE Good(i)'
      BY <1>a, <2>1, <2>2, <2>4, PushFlow DEF ChunkTypes
    <3> QED
      BY <1>b, <3>1, <3>2
  <2>5. CASE Broken /\ up' = up
    <3>1. Good(id)'
      BY <1>a, <2>1, <2>3, <2>5 DEF ChunkTypes, Broken
    <3>2. ASSUME NEW i \in Ids \ {id} PROVE Good(i)'
      BY <1>a, <2>1, <2>5 DEF ChunkTypes
    <3> QED
      BY <1>b, <3>1, <3>2
  <2> QED
    BY <1>2, <2>4, <2>5 DEF ContRead, Room, f
<1>3. ASSUME NEW id \in Ids, ContEnd(id) \/ ContDialFails \/ ContData PROVE Upwards'
  <2>1. UNCHANGED <<srvSent, srvBuf, cliGot, link>> /\ \A i \in Ids : ToCli(i)' <=> ToCli(i)
    BY <1>3 DEF ContEnd, ContDialFails, ContData, ToCli, hostVars, cliVars, srvVars
  <2>2. ASSUME NEW i \in Ids, up' = Append(up, Close(i)) PROVE Upwards'
    <3>1. Close(i) \in Frames /\ Close(i).type # "data"
      BY FrameTypes DEF Close
    <3> QED
      BY <1>a, <1>b, <2>1, <2>2, <3>1, PushFlow
  <2>3. CASE up' = up
    BY <1>a, <1>b, <2>1, <2>3
  <2>4. up' = up \/ \E i \in Ids : up' = Append(up, Close(i))
    <3>1. CASE ContEnd(id)
      BY <3>1 DEF ContEnd
    <3>2. CASE ContDialFails \/ ContData
      <4>1. Head(down).id \in Ids
        BY <3>2, ContTakes
      <4> QED
        BY <3>2, <4>1 DEF ContDialFails, ContData
    <3> QED
      BY <1>3, <3>1, <3>2
  <2> QED
    BY <2>2, <2>3, <2>4
<1>4. CASE HostClose
           \/ (HostData /\ ~(Head(up).id \in hostConns /\ hostFd[Head(up).id] = "open"
                                                   /\ cli[Head(up).id] = "open"))
  <2> DEFINE id == Head(up).id
  <2>1. /\ up # <<>> /\ Head(up) = up[1] /\ id \in Ids
        /\ UNCHANGED <<srvSent, srvBuf, link>>
    BY <1>4, HostTakes DEF srvVars
  <2>2. up' = Tail(up)
    BY <1>4, HostTakes
  <2>3. cliGot' = cliGot /\ hostRd' = hostRd /\ hostConns' \subseteq hostConns
    BY <1>4 DEF HostClose, HostData, cliVars
  <2>4. ASSUME NEW i \in Ids, IsData(up, 1, i) PROVE ~ToCli(i)'
    <3>1. /\ HostData /\ i = id
          /\ ~(id \in hostConns /\ hostFd[id] = "open" /\ cli[id] = "open")
      BY <1>4, <2>1, <2>4 DEF HostClose, HostFrame, IsData
    <3>2. ~Absent(up, i)
      BY <2>1, <3>1, PopShape
    <3>3. hostRd[i] # "none"
      BY <3>2 DEF Opened
    <3>4. i \notin hostConns'
      BY <3>1 DEF HostData
    <3> QED
      BY <2>3, <3>3, <3>4 DEF ToCli
  <2>5. \A i \in Ids : ToCli(i)' => ToCli(i)
    BY <2>3 DEF ToCli
  <2>6. ASSUME NEW i \in Ids PROVE Good(i)'
    <3>1. /\ Flow(Tail(up), i, srvSent[i], srvBuf[i], cliGot[i])
          /\ ~IsData(up, 1, i) =>
                /\ Line(up, i, cliGot[i]) => Line(Tail(up), i, cliGot[i])
                /\ Full(up, i, srvSent[i], srvBuf[i], cliGot[i]) =>
                        Full(Tail(up), i, srvSent[i], srvBuf[i], cliGot[i])
      BY <1>a, <2>1, TakeFlow
    <3> QED
      BY <1>a, <2>1, <2>2, <2>3, <2>4, <2>5, <3>1
  <2> QED
    BY <1>b, <2>6
<1>5. CASE HostData /\ Head(up).id \in hostConns /\ hostFd[Head(up).id] = "open"
                    /\ cli[Head(up).id] = "open"
  <2>0. PICK id \in Ids : id = Head(up).id
    BY <1>5, HostTakes
  <2>1. /\ up # <<>> /\ Head(up) = up[1] /\ id = Head(up).id
        /\ UNCHANGED <<srvSent, srvBuf, link>>
    BY <1>5, <2>0, HostTakes DEF srvVars
  <2>2. up' = Tail(up)
    BY <1>5, HostTakes
  <2>3. cliGot' = [cliGot EXCEPT ![id] = Append(@, Head(up).chunk)]
        /\ \A i \in Ids : ToCli(i)' <=> ToCli(i)
    BY <1>5, <2>0 DEF HostData, ToCli
  <2>4. IsData(up, 1, id) /\ ToCli(id) /\ \A i \in Ids \ {id} : ~IsData(up, 1, i)
    BY <1>5, <2>1 DEF HostData, HostFrame, IsData, ToCli
  <2>5. /\ Flow(Tail(up), id, srvSent[id], srvBuf[id], Append(cliGot[id], Head(up).chunk))
        /\ Line(Tail(up), id, Append(cliGot[id], Head(up).chunk))
        /\ Full(up, id, srvSent[id], srvBuf[id], cliGot[id]) =>
            Full(Tail(up), id, srvSent[id], srvBuf[id], Append(cliGot[id], Head(up).chunk))
    BY <1>a, <2>1, <2>4, GiveFlow
  <2>5a. cliGot'[id] = Append(cliGot[id], Head(up).chunk)
         /\ srvSent'[id] = srvSent[id] /\ srvBuf'[id] = srvBuf[id]
    BY <2>1, <2>3 DEF ChunkTypes
  <2>6. Good(id)'
    BY <1>a, <2>1, <2>2, <2>4, <2>5, <2>5a
  <2>7. ASSUME NEW i \in Ids \ {id} PROVE Good(i)'
    <3>1. /\ Flow(Tail(up), i, srvSent[i], srvBuf[i], cliGot[i])
          /\ Line(up, i, cliGot[i]) => Line(Tail(up), i, cliGot[i])
          /\ Full(up, i, srvSent[i], srvBuf[i], cliGot[i]) =>
                Full(Tail(up), i, srvSent[i], srvBuf[i], cliGot[i])
      BY <1>a, <2>1, <2>4, TakeFlow
    <3>2. cliGot'[i] = cliGot[i] /\ srvSent'[i] = srvSent[i] /\ srvBuf'[i] = srvBuf[i]
          /\ (ToCli(i)' <=> ToCli(i)) /\ link' = link
      BY <2>1, <2>3 DEF ChunkTypes
    <3> QED
      BY <1>a, <2>2, <3>1, <3>2
  <2> QED
    BY <1>b, <2>6, <2>7
<1>6. CASE LinkCut
  <2>1. PICK m \in 0 .. Len(up) : up' = SubSeq(up, 1, m)
    BY <1>6 DEF LinkCut
  <2>2. UNCHANGED <<srvSent, srvBuf, cliGot>> /\ link' # "up"
        /\ \A i \in Ids : ToCli(i)' <=> ToCli(i)
    BY <1>6 DEF LinkCut, ToCli, hostVars, cliVars, srvVars
  <2>3. ASSUME NEW i \in Ids PROVE Good(i)'
    <3>1. /\ Flow(SubSeq(up, 1, m), i, srvSent[i], srvBuf[i], cliGot[i])
          /\ Line(up, i, cliGot[i]) => Line(SubSeq(up, 1, m), i, cliGot[i])
      BY <1>a, CutFlow
    <3> QED
      BY <1>a, <2>1, <2>2, <3>1
  <2> QED
    BY <1>b, <2>3
<1>7. CASE /\ UNCHANGED <<up, srvSent, srvBuf, cliGot, link>>
           /\ \A i \in Ids : ToCli(i)' => ToCli(i)
  BY <1>a, <1>b, <1>7
<1>8. ASSUME NEW id \in Ids, CliSend(id) \/ CliClose(id) \/ SrvClose(id) \/ ContEnded(id)
      PROVE  /\ UNCHANGED <<up, srvSent, srvBuf, cliGot, link>>
             /\ \A i \in Ids : ToCli(i)' => ToCli(i)
  BY <1>8 DEF CliSend, CliClose, SrvClose, ContEnded, ToCli, hostVars, cliVars, srvVars, pipeVars
<1>9. ASSUME NEW id \in Ids, HostOpen(id) \/ HostRead(id) \/ HostEnd(id) \/ HostEnded(id)
      PROVE  /\ UNCHANGED <<up, srvSent, srvBuf, cliGot, link>>
             /\ \A i \in Ids : ToCli(i)' => ToCli(i)
  BY <1>9 DEF HostOpen, HostRead, HostEnd, HostEnded, HostDrop, ToCli, HostTypes, cliVars,
     srvVars, pipeVars
<1>10. ASSUME HostAccept
       PROVE  /\ UNCHANGED <<up, srvSent, srvBuf, cliGot, link>>
              /\ \A i \in Ids : ToCli(i)' => ToCli(i)
  <2>1. nextID + 1 \in Ids /\ nextID \in Nat
    BY <1>10, ConstAssumption DEF HostAccept, HostTypes, Ids
  <2>2. hostRd[nextID + 1] = "none"
    BY <2>1 DEF Opened
  <2> QED
    BY <1>10, <2>1, <2>2 DEF HostAccept, ToCli, HostTypes, srvVars, pipeVars
<1>11. ASSUME HostEOF \/ HostExit \/ ContOpen \/ ContClose \/ ContEOF \/ ContExit
              \/ UNCHANGED vars
       PROVE  /\ UNCHANGED <<up, srvSent, srvBuf, cliGot, link>>
              /\ \A i \in Ids : ToCli(i)' => ToCli(i)
  BY <1>11 DEF HostEOF, HostExit, ContOpen, ContClose, ContEOF, ContExit, ToCli,
     hostVars, cliVars, srvVars, pipeVars, vars
<1>12. 1 \in Ids
  BY ConstAssumption DEF Ids
<1> QED
  BY <1>1, <1>2, <1>3, <1>4, <1>5, <1>6, <1>7, <1>8, <1>9, <1>10, <1>11, <1>12, Steps

-----------------------------------------------------------------------------
\* IInv is inductive.
LEMMA Invariant == Spec => []IInv
<1>1. Init => IInv
  <2> SUFFICES ASSUME Init PROVE IInv
    OBVIOUS
  <2>1. down = <<>> /\ up = <<>> /\ Len(down) = 0 /\ Len(up) = 0
    BY DEF Init
  <2>2. EntryHasReader /\ Shut
    BY <2>1 DEF Init, EntryHasReader, Shut, Has
  <2>3. Opened
    BY <2>1 DEF Init, Opened, Has, Absent, OpenOnce, OpenFirst
  <2>4. ASSUME NEW i \in Ids
        PROVE  Flow(<<>>, i, 0, <<>>, <<>>) /\ Line(<<>>, i, <<>>) /\ Full(<<>>, i, 0, <<>>, <<>>)
    <3>1. Len(<<>>) = 0 /\ \A k \in 1 .. 0 : FALSE
      OBVIOUS
    <3>2. Written(<<>>, i, 0)
      BY <3>1 DEF Written
    <3>3. Buffered(<<>>, i, 0) /\ Given(<<>>, i, 0)
      BY <3>1 DEF Buffered, Given
    <3>4. InOrder(<<>>, i, 0)
      BY <3>1 DEF InOrder
    <3>5. Fed(<<>>, i, 0, 0 - 0)
      BY <3>1 DEF Fed
    <3> QED
      BY <3>1, <3>2, <3>3, <3>4, <3>5 DEF Flow, Line, Full
  <2>5. Downwards /\ Upwards
    BY <2>1, <2>4 DEF Init, Downwards, Upwards
  <2> QED
    BY <2>2, <2>3, <2>5, TypeInit DEF IInv
<1>2. IInv /\ [Next]_vars => IInv'
  BY TypeNext, EntryNext, OpenedNext, ShutNext, DownwardsNext, UpwardsNext DEF IInv
<1> QED
  BY <1>1, <1>2, PTL DEF Spec

\* The types of both processes, the pipes and the ends.
THEOREM TypesHold == Spec => []TypeOK
  BY Invariant, PTL DEF IInv

\* Each end is given a prefix of what the other end of its connection sent
\* (host.go 103-111 and 140-161, container.go 46-79).
THEOREM StreamIntegrityHolds == Spec => []StreamIntegrity
<1>1. IInv => StreamIntegrity
  BY DEF IInv, Downwards, Upwards, Flow, Given, StreamIntegrity
<1> QED
  BY <1>1, Invariant, PTL

\* A connection never dies of another one's end (host.go 112-115, 153-157,
\* container.go 57-63, 81-85).
THEOREM OwnCloseOnlyHolds == Spec => []OwnCloseOnly
<1>1. IInv => OwnCloseOnly
  BY DEF IInv, Shut, OwnCloseOnly
<1> QED
  BY <1>1, Invariant, PTL

\* A connection of a map has a goroutine that takes it out (host.go 128, 156;
\* container.go 43, 61).
THEOREM EntryHasReaderHolds == Spec => []EntryHasReader
  BY Invariant, PTL DEF IInv

=============================================================================
