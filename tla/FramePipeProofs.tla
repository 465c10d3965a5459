-------------------------- MODULE FramePipeProofs --------------------------
(***************************************************************************)
(* Proofs about module FramePipe, for any number of goroutines and frames, *)
(* any header, payload and pipe. The argument: what ReadFrame has read of  *)
(* a frame and what is in the pipe behind it are one string, which goes on *)
(* without a gap from the first byte of the first frame not yet returned   *)
(* to the last byte put; so what ReadFrame collects are the bytes of that  *)
(* frame, in their places.                                                 *)
(***************************************************************************)
EXTENDS FramePipe, FiniteSetTheorems, SequenceTheorems, TLAPS

Size(f) == HeaderLen + f.len

Strings == Seq(Bytes \cup Noise)
Indices == [Nat -> Nat]

\* s is made of the frames fs after the first n: byte k is one of fs[ix[k]].
Spell(s, ix, n, fs) ==
    /\ s # <<>> => ix[1] = n + 1 /\ s[1].at = 1
    /\ \A k \in 1 .. Len(s) :
        /\ ix[k] \in n + 1 .. Len(fs)
        /\ s[k].of = fs[ix[k]] /\ s[k].at \in 1 .. Size(fs[ix[k]])
    /\ \A k \in 1 .. Len(s) - 1 :
        \/ ix[k + 1] = ix[k] /\ s[k + 1].at = s[k].at + 1
        \/ ix[k + 1] = ix[k] + 1 /\ s[k].at = Size(fs[ix[k]]) /\ s[k + 1].at = 1
    /\ \A j, k \in 1 .. Len(s) : j <= k => ix[j] <= ix[k]

\* s ends with the first p bytes of the last frame.
Upto(s, ix, n, fs, p) ==
    IF fs = <<>> THEN s = <<>> /\ n = 0
    ELSE IF p = 0
    THEN IF s = <<>> THEN n = Len(fs) - 1
         ELSE ix[Len(s)] = Len(fs) - 1 /\ s[Len(s)].at = Size(fs[Len(fs) - 1])
    ELSE IF s = <<>> THEN n = Len(fs) /\ p = Size(fs[Len(fs)])
         ELSE ix[Len(s)] = Len(fs) /\ s[Len(s)].at = p

\* The first b bytes of s are those of frame n + 1, in their places.
Started(s, ix, n, b) == \A k \in 1 .. b : ix[k] = n + 1 /\ s[k].at = k

String == buf \o pipe
Last == begun[Len(begun)]
LastPut == IF begun = <<>> THEN 0 ELSE put[Last.by]

Flow(ix) ==
    /\ Spell(String, ix, Len(got), begun)
    /\ Upto(String, ix, Len(got), begun, LastPut)
    /\ Started(String, ix, Len(got), Len(buf))

\* A remote shell's message, which is all there ever is.
Noisy ==
    /\ broken /\ begun = <<>> /\ got = <<>> /\ reader = "header"
    /\ \A k \in 1 .. Len(String) : String[k].of = None

Stream == Reading => Noisy \/ \E ix \in Indices : Flow(ix)

\* The mutex is held for the last frame begun, until it is put or given up.
Held ==
    /\ mu # None => begun # <<>> /\ Last.by = mu /\ frame[mu] = Last
    /\ \A w \in Writers : frame[w] # None => mu = w
    /\ mu = None /\ ~broken /\ begun # <<>> => LastPut = Size(Last)

Asking ==
    /\ reader = "header" => Len(buf) <= HeaderLen
    /\ reader = "payload" => Len(buf) >= HeaderLen /\ Len(buf) <= Wants

Ended == reader = "EOF" => broken /\ CleanEndLosesNothing

IInv == TypeOK /\ Stream /\ Held /\ Asking /\ Ended

-----------------------------------------------------------------------------
(***************************************************************************)
(* Strings.                                                                *)
(***************************************************************************)

\* Sizes and places are numbers.
LEMMA Sizes ==
    /\ HeaderLen \in Nat /\ HeaderLen >= 1 /\ MaxPayload \in Nat
    /\ \A f \in Frames : f.len \in Nat /\ f.by \in Writers /\ Size(f) \in Nat /\ Size(f) >= HeaderLen
  BY SizeAssumption DEF Size, Frames

\* One more byte of the last frame is put.
LEMMA PutSpells ==
    ASSUME NEW s \in Strings, NEW ix \in Indices, NEW n \in Nat, NEW fs \in Seq(Frames),
           NEW p \in Nat, fs # <<>>, p < Size(fs[Len(fs)]),
           Spell(s, ix, n, fs), Upto(s, ix, n, fs, p),
           NEW byte \in Bytes, byte = [of |-> fs[Len(fs)], at |-> p + 1]
    PROVE  /\ Spell(Append(s, byte), [ix EXCEPT ![Len(s) + 1] = Len(fs)], n, fs)
           /\ Upto(Append(s, byte), [ix EXCEPT ![Len(s) + 1] = Len(fs)], n, fs, p + 1)
<1> DEFINE t == Append(s, byte)
           jx == [ix EXCEPT ![Len(s) + 1] = Len(fs)]
<1>1. /\ Len(s) \in Nat /\ Len(fs) \in Nat /\ Len(fs) > 0 /\ fs[Len(fs)] \in Frames
      /\ s = <<>> <=> Len(s) = 0
  BY DEF Strings
<1>2. /\ Len(t) = Len(s) + 1 /\ t # <<>> /\ t[Len(s) + 1] = byte
      /\ \A k \in 1 .. Len(s) : t[k] = s[k]
  BY DEF Strings
<1>3. /\ jx[Len(s) + 1] = Len(fs) /\ \A k \in 1 .. Len(s) : jx[k] = ix[k]
      /\ \A k \in 1 .. Len(s) : ix[k] \in Nat
  <2>1. Len(s) + 1 \in Nat /\ \A k \in 1 .. Len(s) : k \in Nat /\ k # Len(s) + 1
    BY <1>1
  <2>2. ix \in [Nat -> Nat]
    BY DEF Indices
  <2>3. jx[Len(s) + 1] = Len(fs)
    BY <2>1, <2>2
  <2>4. \A k \in 1 .. Len(s) : jx[k] = ix[k]
    BY <2>1, <2>2
  <2> QED
    BY <2>1, <2>2, <2>3, <2>4
<1>4. byte.of = fs[Len(fs)] /\ byte.at = p + 1 /\ p + 1 \in 1 .. Size(fs[Len(fs)])
  <2>1. byte.of = fs[Len(fs)] /\ byte.at = p + 1
    OBVIOUS
  <2>2. Size(fs[Len(fs)]) \in Nat
    BY <1>1, Sizes
  <2> QED
    BY <2>1, <2>2
<1> HIDE DEF t, jx
<1>5. Upto(t, jx, n, fs, p + 1)
  BY <1>1, <1>2, <1>3, <1>4 DEF Upto
<1>6. Spell(t, jx, n, fs)
  <2>1. s = <<>> => n = Len(fs) - 1 /\ p = 0
    BY <1>1 DEF Upto
  <2>2. n + 1 <= Len(fs)
    BY <2>1, <1>1 DEF Spell
  <2>3. ASSUME NEW k \in 1 .. Len(s), k = Len(s)
        PROVE  \/ jx[k + 1] = jx[k] /\ t[k + 1].at = t[k].at + 1
               \/ jx[k + 1] = jx[k] + 1 /\ t[k].at = Size(fs[jx[k]]) /\ t[k + 1].at = 1
    BY <2>3, <1>1, <1>2, <1>3, <1>4 DEF Upto
  <2>4. t # <<>> => jx[1] = n + 1 /\ t[1].at = 1
    <3>1. CASE s = <<>>
      BY <3>1, <2>1, <1>1, <1>2, <1>3, <1>4
    <3>2. CASE s # <<>>
      BY <3>2, <1>1, <1>2, <1>3 DEF Spell
    <3> QED
      BY <3>1, <3>2
  <2>5. \A k \in 1 .. Len(t) :
          /\ jx[k] \in n + 1 .. Len(fs)
          /\ t[k].of = fs[jx[k]] /\ t[k].at \in 1 .. Size(fs[jx[k]])
    <3> SUFFICES ASSUME NEW k \in 1 .. Len(t)
                 PROVE  /\ jx[k] \in n + 1 .. Len(fs)
                        /\ t[k].of = fs[jx[k]] /\ t[k].at \in 1 .. Size(fs[jx[k]])
      OBVIOUS
    <3>1. CASE k = Len(s) + 1
      BY <3>1, <2>2, <1>1, <1>2, <1>3, <1>4
    <3>2. CASE k \in 1 .. Len(s)
      BY <3>2, <1>2, <1>3 DEF Spell
    <3> QED
      BY <3>1, <3>2, <1>1, <1>2
  <2>6. ASSUME NEW k \in 1 .. Len(t) - 1
        PROVE  \/ jx[k + 1] = jx[k] /\ t[k + 1].at = t[k].at + 1
               \/ jx[k + 1] = jx[k] + 1 /\ t[k].at = Size(fs[jx[k]]) /\ t[k + 1].at = 1
    <3>1. CASE k = Len(s)
      BY <3>1, <2>3, <1>1
    <3>2. CASE k \in 1 .. Len(s) - 1
      <4>1. k \in 1 .. Len(s) /\ k + 1 \in 1 .. Len(s)
        BY <3>2, <1>1
      <4> QED
        BY <3>2, <4>1, <1>2, <1>3 DEF Spell
    <3> QED
      BY <3>1, <3>2, <1>1, <1>2
  <2>7. \A j, k \in 1 .. Len(t) : j <= k => jx[j] <= jx[k]
    <3> SUFFICES ASSUME NEW j \in 1 .. Len(t), NEW k \in 1 .. Len(t), j <= k
                 PROVE  jx[j] <= jx[k]
      OBVIOUS
    <3>1. CASE k = Len(s) + 1
      BY <3>1, <2>5, <1>1, <1>3
    <3>2. CASE k \in 1 .. Len(s)
      <4>1. j \in 1 .. Len(s)
        BY <3>2, <1>1, <1>2
      <4> QED
        BY <3>2, <4>1, <1>3 DEF Spell
    <3> QED
      BY <3>1, <3>2, <1>1, <1>2
  <2> QED
    BY <2>4, <2>5, <2>6, <2>7 DEF Spell
<1> QED
  BY <1>5, <1>6 DEF t, jx

\* A frame is begun when the last one is put.
LEMMA BeginSpells ==
    ASSUME NEW s \in Strings, NEW ix \in Indices, NEW n \in Nat, NEW fs \in Seq(Frames),
           NEW p \in Nat, NEW f \in Frames,
           fs # <<>> => p = Size(fs[Len(fs)]),
           Spell(s, ix, n, fs), Upto(s, ix, n, fs, p)
    PROVE  Spell(s, ix, n, Append(fs, f)) /\ Upto(s, ix, n, Append(fs, f), 0)
<1> DEFINE gs == Append(fs, f)
<1>1. /\ Len(s) \in Nat /\ Len(fs) \in Nat /\ (s = <<>> <=> Len(s) = 0)
      /\ (fs = <<>> <=> Len(fs) = 0)
      /\ Len(fs) > 0 => fs[Len(fs)] \in Frames
  BY DEF Strings
<1>2. /\ Len(gs) = Len(fs) + 1 /\ gs # <<>>
      /\ \A m \in 1 .. Len(fs) : gs[m] = fs[m]
  OBVIOUS
<1> HIDE DEF gs
<1>3. \A k \in 1 .. Len(s) : ix[k] \in 1 .. Len(fs)
  BY <1>1 DEF Spell
<1>4. Spell(s, ix, n, gs)
  <2>1. \A k \in 1 .. Len(s) : gs[ix[k]] = fs[ix[k]]
    BY <1>2, <1>3
  <2>2. \A k \in 1 .. Len(s) : ix[k] \in n + 1 .. Len(gs)
    BY <1>1, <1>2 DEF Spell
  <2>3. \A k \in 1 .. Len(s) - 1 : k \in 1 .. Len(s)
    BY <1>1
  <2> QED
    BY <2>1, <2>2, <2>3 DEF Spell
<1>5. Upto(s, ix, n, gs, 0)
  <2>1. Len(fs) > 0 => p > 0
    BY <1>1, Sizes
  <2>2. Len(fs) > 0 => gs[Len(fs)] = fs[Len(fs)]
    BY <1>1, <1>2
  <2> QED
    BY <1>1, <1>2, <2>1, <2>2 DEF Upto
<1> QED
  BY <1>4, <1>5 DEF gs

\* ReadFrame takes frame n + 1, which is b bytes long, off the string.
LEMMA ReadSpells ==
    ASSUME NEW s \in Strings, NEW ix \in Indices, NEW n \in Nat, NEW fs \in Seq(Frames),
           NEW p \in Nat, NEW b \in Nat, NEW t \in Strings,
           Spell(s, ix, n, fs), Upto(s, ix, n, fs, p), Started(s, ix, n, b),
           n < Len(fs), b = Size(fs[n + 1]), b <= Len(s), Len(t) = Len(s) - b,
           \A k \in 1 .. Len(t) : t[k] = s[k + b]
    PROVE  /\ Spell(t, [k \in Nat |-> ix[k + b]], n + 1, fs)
           /\ Upto(t, [k \in Nat |-> ix[k + b]], n + 1, fs, p)
<1> DEFINE jx == [k \in Nat |-> ix[k + b]]
<1>0. Len(s) \in Nat /\ Len(t) \in Nat /\ Len(fs) \in Nat /\ fs[n + 1] \in Frames
  BY DEF Strings
<1>1. /\ b >= 1 /\ b \in 1 .. Len(s) /\ Len(s) >= 1
      /\ (t = <<>> <=> Len(t) = 0) /\ s # <<>> /\ fs # <<>>
  <2>1. b >= 1
    BY <1>0, Sizes
  <2> QED
    BY <2>1, <1>0 DEF Strings
<1>2. \A k \in 1 .. Len(t) : jx[k] = ix[k + b] /\ k \in Nat /\ k + b \in 1 .. Len(s)
  <2>1. \A k \in 1 .. Len(t) : k \in Nat /\ k + b \in 1 .. Len(s)
    BY <1>0, <1>1
  <2> QED
    BY <2>1
<1> HIDE DEF jx
<1>3. ix[b] = n + 1 /\ s[b].at = b
  BY <1>1 DEF Started
<1>4. ASSUME b + 1 \in 1 .. Len(s) PROVE ix[b + 1] = n + 2 /\ s[b + 1].at = 1
  <2>1. b \in 1 .. Len(s) - 1
    BY <1>4, <1>0, <1>1
  <2>2. ix[b + 1] = n + 1 => s[b + 1].at <= b
    <3>1. s[b + 1].at \in 1 .. Size(fs[ix[b + 1]])
      BY <1>4 DEF Spell
    <3> QED
      BY <3>1
  <2>3. \/ ix[b + 1] = ix[b] /\ s[b + 1].at = s[b].at + 1
        \/ ix[b + 1] = ix[b] + 1 /\ s[b + 1].at = 1
    BY <2>1 DEF Spell
  <2> QED
    BY <1>3, <2>2, <2>3
<1>5. \A k \in 1 .. Len(t) : ix[k + b] >= n + 2 /\ ix[k + b] \in n + 1 .. Len(fs)
  <2> SUFFICES ASSUME NEW k \in 1 .. Len(t)
               PROVE  ix[k + b] >= n + 2 /\ ix[k + b] \in n + 1 .. Len(fs)
    OBVIOUS
  <2>1. k + b \in 1 .. Len(s) /\ b + 1 \in 1 .. Len(s) /\ b + 1 <= k + b
    BY <1>0, <1>1, <1>2
  <2> QED
    BY <2>1, <1>4 DEF Spell
<1>6. Spell(t, jx, n + 1, fs)
  <2>1. t # <<>> => jx[1] = n + 2 /\ t[1].at = 1
    BY <1>0, <1>1, <1>2, <1>4
  <2>2. \A k \in 1 .. Len(t) :
          /\ jx[k] \in n + 2 .. Len(fs)
          /\ t[k].of = fs[jx[k]] /\ t[k].at \in 1 .. Size(fs[jx[k]])
    <3> SUFFICES ASSUME NEW k \in 1 .. Len(t)
                 PROVE  /\ jx[k] \in n + 2 .. Len(fs)
                        /\ t[k].of = fs[jx[k]] /\ t[k].at \in 1 .. Size(fs[jx[k]])
      OBVIOUS
    <3>1. jx[k] \in n + 2 .. Len(fs)
      BY <1>0, <1>2, <1>5
    <3> QED
      BY <3>1, <1>2 DEF Spell
  <2>3. ASSUME NEW k \in 1 .. Len(t) - 1
        PROVE  \/ jx[k + 1] = jx[k] /\ t[k + 1].at = t[k].at + 1
               \/ jx[k + 1] = jx[k] + 1 /\ t[k].at = Size(fs[jx[k]]) /\ t[k + 1].at = 1
    <3>0. k \in Nat /\ b \in Nat
      OBVIOUS
    <3>1. k \in 1 .. Len(t) /\ k + 1 \in 1 .. Len(t) /\ k + b \in 1 .. Len(s) - 1
      BY <1>0, <3>0
    <3>2. (k + b) + 1 = (k + 1) + b
      BY <3>0
    <3>3. jx[k] = ix[k + b] /\ jx[k + 1] = ix[(k + b) + 1]
          /\ t[k] = s[k + b] /\ t[k + 1] = s[(k + b) + 1]
      BY <3>1, <3>2, <1>2
    <3> QED
      BY <3>1, <3>3 DEF Spell
  <2>4. ASSUME NEW j \in 1 .. Len(t), NEW k \in 1 .. Len(t), j <= k PROVE jx[j] <= jx[k]
    <3>1. j + b \in 1 .. Len(s) /\ k + b \in 1 .. Len(s) /\ j + b <= k + b
      BY <2>4, <1>0, <1>2
    <3>2. ix[j + b] <= ix[k + b]
      BY <3>1 DEF Spell
    <3> QED
      BY <3>2, <1>2
  <2>5. (n + 1) + 1 = n + 2
    OBVIOUS
  <2>6. /\ t # <<>> => jx[1] = (n + 1) + 1 /\ t[1].at = 1
        /\ \A k \in 1 .. Len(t) :
            /\ jx[k] \in (n + 1) + 1 .. Len(fs)
            /\ t[k].of = fs[jx[k]] /\ t[k].at \in 1 .. Size(fs[jx[k]])
    BY <2>1, <2>2, <2>5
  <2> QED
    BY <2>3, <2>4, <2>6, Zenon DEF Spell
<1>7. Upto(t, jx, n + 1, fs, p)
  <2>1. CASE t = <<>>
    BY <2>1, <1>0, <1>1, <1>3 DEF Upto
  <2>2. CASE t # <<>>
    <3>1. jx[Len(t)] = ix[Len(s)] /\ t[Len(t)] = s[Len(s)]
      BY <2>2, <1>0, <1>1, <1>2
    <3> QED
      BY <2>2, <3>1, <1>1 DEF Upto
  <2> QED
    BY <2>1, <2>2
<1> QED
  BY <1>6, <1>7 DEF jx

\* The next byte of the string is the next one of frame n + 1.
LEMMA NextStarted ==
    ASSUME NEW s \in Strings, NEW ix \in Indices, NEW n \in Nat, NEW fs \in Seq(Frames),
           NEW b \in Nat, b < Len(s),
           Spell(s, ix, n, fs), Started(s, ix, n, b), b < Size(fs[n + 1])
    PROVE  Started(s, ix, n, b + 1)
<1>0. Len(s) \in Nat /\ s # <<>>
  BY DEF Strings
<1>1. ix[b + 1] = n + 1 /\ s[b + 1].at = b + 1
  <2>1. CASE b = 0
    BY <2>1, <1>0 DEF Spell
  <2>2. CASE b > 0
    <3>1. b \in 1 .. Len(s) - 1 /\ b \in 1 .. b
      BY <2>2, <1>0
    <3>2. ix[b] = n + 1 /\ s[b].at = b
      BY <3>1 DEF Started
    <3>3. Size(fs[ix[b]]) # b
      BY <3>2, <3>1, <1>0, Sizes DEF Spell
    <3> QED
      BY <3>1, <3>2, <3>3 DEF Spell
  <2> QED
    BY <2>1, <2>2
<1> QED
  BY <1>1 DEF Started

-----------------------------------------------------------------------------
(***************************************************************************)
(* Steps.                                                                  *)
(***************************************************************************)

\* What types say.
LEMMA Facts ==
    ASSUME TypeOK
    PROVE  /\ Len(buf) \in Nat /\ Len(pipe) \in Nat /\ Len(got) \in Nat /\ Len(begun) \in Nat
           /\ String \in Strings /\ Len(String) = Len(buf) + Len(pipe)
           /\ \A k \in 1 .. Len(buf) : String[k] = buf[k]
           /\ \A k \in 1 .. Len(pipe) : String[Len(buf) + k] = pipe[k]
           /\ begun # <<>> <=> Len(begun) > 0
           /\ begun # <<>> => Last \in Frames
           /\ LastPut \in Nat
           /\ \A w \in Writers : put[w] \in Nat /\ Written(w) \in Nat
<1>1. /\ Len(buf) \in Nat /\ Len(pipe) \in Nat /\ Len(got) \in Nat /\ Len(begun) \in Nat
      /\ begun # <<>> <=> Len(begun) > 0
  BY DEF TypeOK
<1>2. /\ String \in Strings /\ Len(String) = Len(buf) + Len(pipe)
      /\ \A k \in 1 .. Len(buf) : String[k] = buf[k]
      /\ \A k \in 1 .. Len(pipe) : String[Len(buf) + k] = pipe[k]
  BY DEF TypeOK, String, Strings
<1>3. begun # <<>> => Last \in Frames
  BY <1>1 DEF TypeOK, Last
<1>4. \A w \in Writers : put[w] \in Nat
  BY Sizes DEF TypeOK
<1>5. LastPut \in Nat
  BY <1>3, <1>4, Sizes DEF LastPut
<1>6. ASSUME NEW w \in Writers PROVE Written(w) \in Nat
  <2>1. IsFiniteSet(DOMAIN begun)
    BY <1>1, FS_Interval DEF TypeOK
  <2>2. IsFiniteSet({i \in DOMAIN begun : begun[i].by = w})
    BY <2>1, FS_Subset
  <2> QED
    BY <2>2, FS_CardinalityType DEF Written
<1> QED
  BY <1>1, <1>2, <1>3, <1>4, <1>5, <1>6

\* While the string, what is returned and what is put stay, so does Stream.
LEMMA StreamStays ==
    ASSUME Stream, UNCHANGED <<buf, pipe, got, begun, reader>>, LastPut' = LastPut,
           broken => broken'
    PROVE  Stream'
<1>1. UNCHANGED String
  BY DEF String
<1> QED
  BY <1>1 DEF Stream, Reading, Noisy, Flow

\* A frame is begun.
LEMMA BeginKeeps == ASSUME IInv, NEW w \in Writers, Begin(w) PROVE IInv'
<1> PICK n \in 0 .. MaxPayload :
        LET f == [by |-> w, no |-> Written(w) + 1, len |-> n]
        IN  frame' = [frame EXCEPT ![w] = f] /\ begun' = Append(begun, f)
  BY DEF Begin
<1> DEFINE f == [by |-> w, no |-> Written(w) + 1, len |-> n]
<1>1. /\ frame' = [frame EXCEPT ![w] = f] /\ begun' = Append(begun, f) /\ f.by = w
      /\ put' = [put EXCEPT ![w] = 0] /\ mu' = w /\ mu = None /\ ~broken
      /\ UNCHANGED <<pipe, broken, readVars>> /\ Written(w) < MaxFrames
  BY DEF Begin, Lock
<1>2. f \in Frames
  BY <1>1, Facts, SizeAssumption DEF Frames, IInv
<1> HIDE DEF f
<1>3. TypeOK'
  BY <1>1, <1>2, Sizes DEF IInv, TypeOK, readVars
<1>4. begun' # <<>> /\ Last' = f /\ LastPut' = 0
  <2>1. begun' # <<>> /\ begun'[Len(begun')] = f
    BY <1>1, <1>2 DEF IInv, TypeOK
  <2>2. put'[w] = 0
    BY <1>1 DEF IInv, TypeOK
  <2> QED
    BY <2>1, <2>2, <1>1 DEF Last, LastPut
<1>5. Stream'
  <2> SUFFICES ASSUME Reading PROVE Stream'
    BY <1>1 DEF Stream, Reading, readVars
  <2>1. PICK ix \in Indices : Flow(ix)
    BY <1>1 DEF IInv, Stream, Noisy
  <2>2. begun # <<>> => LastPut = Size(begun[Len(begun)])
    BY <1>1 DEF IInv, Held, Last
  <2>3. /\ Spell(String, ix, Len(got), Append(begun, f))
        /\ Upto(String, ix, Len(got), Append(begun, f), 0)
    BY <2>1, <2>2, <1>2, Facts, BeginSpells DEF IInv, TypeOK, Flow
  <2>4. UNCHANGED <<String, got, buf>>
    BY <1>1 DEF String, readVars
  <2>5. Flow(ix)'
    BY <2>1, <2>3, <2>4, <1>1, <1>4 DEF Flow
  <2> QED
    BY <2>5 DEF Stream
<1>6. Held'
  BY <1>1, <1>2, <1>4, SizeAssumption DEF IInv, Held, TypeOK
<1>7. Asking' /\ Ended'
  BY <1>1 DEF IInv, Asking, Ended, Wants, readVars
<1> QED
  BY <1>3, <1>5, <1>6, <1>7 DEF IInv

\* A byte is put.
LEMMA PutKeeps == ASSUME IInv, NEW w \in Writers, PutByte(w) PROVE IInv'
<1> DEFINE byte == [of |-> frame[w], at |-> put[w] + 1]
<1>1. /\ frame[w] # None /\ put[w] < HeaderLen + frame[w].len /\ ~broken
      /\ pipe' = Append(pipe, byte) /\ put' = [put EXCEPT ![w] = put[w] + 1]
      /\ UNCHANGED <<mu, frame, begun, broken, readVars>>
  BY DEF PutByte
<1>2. mu = w /\ begun # <<>> /\ Last.by = w /\ frame[w] = Last /\ Last \in Frames
  BY <1>1, Facts, SizeAssumption DEF IInv, Held
<1>3. LastPut = put[w] /\ LastPut' = put[w] + 1 /\ put[w] < Size(Last) /\ put[w] \in Nat
  BY <1>1, <1>2, Facts DEF LastPut, Last, Size, IInv, TypeOK
<1>4. byte \in Bytes /\ put[w] + 1 \in 0 .. HeaderLen + MaxPayload
  <2>1. Last.len \in 0 .. MaxPayload
    BY <1>2 DEF Frames
  <2>2. put[w] + 1 \in 1 .. HeaderLen + MaxPayload
    BY <2>1, <1>3, Sizes DEF Size
  <2> QED
    BY <2>2, <1>2 DEF Bytes
<1>5. byte = [of |-> begun[Len(begun)], at |-> LastPut + 1]
  BY <1>2, <1>3 DEF Last
<1> HIDE DEF byte
<1>6. TypeOK'
  BY <1>1, <1>4 DEF IInv, TypeOK, readVars
<1>7. Stream'
  <2> SUFFICES ASSUME Reading PROVE Stream'
    BY <1>1 DEF Stream, Reading, readVars
  <2>1. PICK ix \in Indices : Flow(ix)
    BY <1>1 DEF IInv, Stream, Noisy
  <2>0. [ix EXCEPT ![Len(String) + 1] = Len(begun)] \in Indices
    BY Facts DEF Indices, IInv
  <2> PICK jx \in Indices : jx = [ix EXCEPT ![Len(String) + 1] = Len(begun)]
    BY <2>0
  <2>2. /\ Spell(Append(String, byte), jx, Len(got), begun)
        /\ Upto(Append(String, byte), jx, Len(got), begun, LastPut + 1)
    BY <2>1, <1>2, <1>3, <1>4, <1>5, Facts, PutSpells DEF IInv, TypeOK, Flow, Last
  <2>3. String' = Append(String, byte)
    BY <1>1, <1>4 DEF String, IInv, TypeOK, readVars
  <2>4. \A k \in 1 .. Len(buf) : jx[k] = ix[k]
    <3>1. \A k \in 1 .. Len(buf) : k \in Nat /\ k # Len(String) + 1
      BY Facts DEF IInv
    <3> QED
      BY <3>1 DEF Indices
  <2>5. Started(String', jx, Len(got), Len(buf))
    <3>1. \A k \in 1 .. Len(buf) : String'[k] = String[k]
      BY <2>3, Facts DEF IInv, Strings
    <3> QED
      BY <3>1, <2>4, <2>1 DEF Flow, Started
  <2>6. Flow(jx)'
    BY <2>2, <2>3, <2>5, <1>1, <1>3 DEF Flow, readVars
  <2> QED
    BY <2>6 DEF Stream
<1>8. Held'
  BY <1>1, <1>2, SizeAssumption DEF IInv, Held, Last
<1>9. Asking' /\ Ended'
  BY <1>1 DEF IInv, Asking, Ended, Wants, readVars
<1> QED
  BY <1>6, <1>7, <1>8, <1>9 DEF IInv

\* Write returns, or the transport breaks.
LEMMA ReturnKeeps ==
    ASSUME IInv, (\E w \in Writers : Return(w)) \/ Break PROVE IInv'
<1>1. /\ UNCHANGED <<put, begun, pipe, readVars>> /\ (broken => broken')
      /\ LastPut' = LastPut /\ Last' = Last
  BY DEF Return, Break, writeVars, LastPut, Last
<1>2. TypeOK' /\ Held'
  <2>1. CASE Break
    BY <2>1 DEF Break, IInv, TypeOK, Held, writeVars, readVars, Last, LastPut
  <2>2. ASSUME NEW w \in Writers, Return(w) PROVE TypeOK' /\ Held'
    <3>1. /\ frame[w] # None /\ frame' = [frame EXCEPT ![w] = None] /\ mu' = None
          /\ broken \/ put[w] = HeaderLen + frame[w].len
          /\ UNCHANGED <<put, begun, pipe, broken, readVars>>
      BY <2>2 DEF Return, Unlocked
    <3>2. mu = w /\ begun # <<>> /\ Last.by = w /\ frame[w] = Last
      BY <3>1, SizeAssumption DEF IInv, Held
    <3>3. TypeOK'
      BY <3>1 DEF IInv, TypeOK, readVars
    <3>4. \A v \in Writers : frame'[v] = None
      BY <3>1, <3>2 DEF IInv, Held, TypeOK
    <3>5. Held'
      BY <3>1, <3>2, <3>4, <1>1 DEF Held, LastPut, Size
    <3> QED
      BY <3>3, <3>5
  <2> QED
    BY <2>1, <2>2
<1>3. Stream'
  BY <1>1, StreamStays DEF IInv, readVars
<1>4. Asking' /\ Ended'
  BY <1>1 DEF IInv, Asking, Ended, Wants, readVars, CleanEndLosesNothing
<1> QED
  BY <1>2, <1>3, <1>4 DEF IInv

\* A shell writes a message.
LEMMA TextKeeps == ASSUME IInv, RemoteText PROVE IInv'
<1>1. /\ begun = <<>> /\ pipe = <<>> /\ ~broken /\ reader = "header" /\ broken' = TRUE
      /\ UNCHANGED <<writeVars, readVars>>
  BY DEF RemoteText
<1>2. PICK n \in 1 .. MaxNoise : pipe' \in [1 .. n -> Noise]
  BY DEF RemoteText
<1>3. PICK ix \in Indices : Flow(ix)
  BY <1>1 DEF IInv, Stream, Reading, Noisy
<1>4. buf = <<>> /\ got = <<>>
  <2>1. String = <<>> /\ Len(got) = 0
    BY <1>1, <1>3 DEF Flow, Upto
  <2> QED
    BY <2>1, Facts DEF IInv, TypeOK
<1>5. pipe' \in Seq(Noise) /\ \A k \in 1 .. Len(pipe') : pipe'[k].of = None
  <2>1. pipe' \in Seq(Noise)
    BY <1>2, SizeAssumption
  <2>2. \A b \in Noise : b.of = None
    BY DEF Noise
  <2> QED
    BY <2>1, <2>2
<1>6. TypeOK'
  BY <1>1, <1>5 DEF IInv, TypeOK, writeVars, readVars
<1>7. Stream'
  <2>1. String' = pipe'
    BY <1>1, <1>4, <1>5 DEF String, readVars
  <2>2. Noisy'
    BY <1>1, <1>4, <1>5, <2>1 DEF Noisy, readVars, writeVars
  <2> QED
    BY <2>2 DEF Stream
<1>8. Held' /\ Asking' /\ Ended'
  BY <1>1, <1>4, SizeAssumption DEF IInv, Held, Asking, Ended, writeVars, readVars, Last, LastPut
<1> QED
  BY <1>6, <1>7, <1>8 DEF IInv

\* Where ReadFrame is in its frame.
LEMMA InFrame ==
    ASSUME IInv, NEW ix \in Indices, Flow(ix), Len(buf) > 0
    PROVE  /\ Len(got) < Len(begun) /\ begun[Len(got) + 1] \in Frames
           /\ \A k \in 1 .. Len(buf) : buf[k].of = begun[Len(got) + 1]
<1>1. ASSUME NEW k \in 1 .. Len(buf)
      PROVE  ix[k] = Len(got) + 1 /\ ix[k] \in 1 .. Len(begun) /\ buf[k].of = begun[ix[k]]
  <2>1. k \in 1 .. Len(String) /\ String[k] = buf[k]
    BY Facts DEF IInv
  <2>2. ix[k] = Len(got) + 1
    BY DEF Flow, Started
  <2>3. ix[k] \in Len(got) + 1 .. Len(begun) /\ String[k].of = begun[ix[k]]
    BY <2>1 DEF Flow, Spell
  <2> QED
    BY <2>1, <2>2, <2>3, Facts DEF IInv
<1>2. 1 \in 1 .. Len(buf) /\ Len(got) \in Nat /\ Len(begun) \in Nat
  BY Facts DEF IInv
<1>3. Len(got) + 1 \in 1 .. Len(begun)
  BY <1>1, <1>2
<1> QED
  BY <1>1, <1>2, <1>3 DEF IInv, TypeOK

\* What it asks for once it has the header: the frame.
LEMMA InPayload ==
    ASSUME IInv, reader = "payload"
    PROVE  /\ Len(got) < Len(begun) /\ begun[Len(got) + 1] \in Frames
           /\ \A k \in 1 .. Len(buf) : buf[k].of = begun[Len(got) + 1]
           /\ HeaderLen \in 1 .. Len(buf) /\ Wants = Size(begun[Len(got) + 1])
           /\ \E ix \in Indices : Flow(ix)
<1>1. PICK ix \in Indices : Flow(ix)
  BY DEF IInv, Stream, Reading, Noisy
<1>2. HeaderLen \in 1 .. Len(buf)
  BY Sizes, Facts DEF IInv, Asking
<1>3. Len(buf) > 0
  BY <1>2, Facts DEF IInv
<1>4. /\ Len(got) < Len(begun) /\ begun[Len(got) + 1] \in Frames
      /\ \A k \in 1 .. Len(buf) : buf[k].of = begun[Len(got) + 1]
  BY <1>1, <1>3, InFrame
<1>5. Wants = Size(begun[Len(got) + 1])
  BY <1>2, <1>4 DEF Wants, Size
<1> QED
  BY <1>1, <1>2, <1>4, <1>5

\* ReadFull gets a byte.
LEMMA GetKeeps == ASSUME IInv, GetByte PROVE IInv'
<1>1. /\ Reading /\ Len(buf) < Wants /\ pipe # <<>>
      /\ buf' = Append(buf, Head(pipe)) /\ pipe' = Tail(pipe)
      /\ UNCHANGED <<writeVars, broken, reader, got>>
  BY DEF GetByte
<1>2. /\ Len(buf') = Len(buf) + 1 /\ \A k \in 1 .. Len(buf) : buf'[k] = buf[k]
      /\ Len(buf) < Len(String)
      /\ buf' \in Strings /\ pipe' \in Strings
      /\ Len(buf) \in Nat /\ Len(pipe) \in Nat /\ Len(got) \in Nat
  <2>1. Len(pipe) > 0 /\ Head(pipe) \in Bytes \cup Noise
    BY <1>1 DEF IInv, TypeOK
  <2> QED
    BY <1>1, <2>1, Facts DEF IInv, TypeOK, Strings
<1>3. String' = String
  <2>1. buf \in Strings /\ pipe \in Strings
    BY DEF IInv, TypeOK, Strings
  <2>2. Append(buf, Head(pipe)) \o Tail(pipe) = buf \o pipe
    <3> DEFINE l == Append(buf, Head(pipe)) \o Tail(pipe)
               r == buf \o pipe
    <3>1. l \in Strings /\ r \in Strings
      BY <1>1, <1>2, <2>1 DEF Strings
    <3>2. Len(l) = Len(r)
      BY <1>1, <1>2, <2>1 DEF Strings
    <3>3. \A k \in 1 .. Len(l) : l[k] = r[k]
      BY <1>1, <1>2, <2>1 DEF Strings
    <3> QED
      BY <3>1, <3>2, <3>3, SeqEqual DEF Strings
  <2> QED
    BY <1>1, <2>2 DEF String
<1>4. Stream' /\ Len(buf') <= HeaderLen + MaxPayload
  <2>1. CASE Noisy
    <3>1. Noisy'
      BY <2>1, <1>1, <1>3 DEF Noisy, writeVars
    <3>2. Wants = HeaderLen
      BY <2>1 DEF Noisy, Wants
    <3> QED
      BY <3>1, <3>2, <1>1, <1>2, Sizes DEF Stream
  <2>2. CASE ~Noisy
    <3>1. PICK ix \in Indices : Flow(ix)
      BY <2>2, <1>1 DEF IInv, Stream
    <3>2. 1 \in 1 .. Len(String) /\ String # <<>>
      BY <1>2, Facts DEF IInv, Strings
    <3>3. Len(got) + 1 \in 1 .. Len(begun)
      BY <3>1, <3>2, <1>2, Facts DEF IInv, Flow, Spell
    <3>4. begun[Len(got) + 1] \in Frames
      BY <3>3 DEF IInv, TypeOK
    <3>5. Wants <= Size(begun[Len(got) + 1])
      <4>1. CASE reader = "header"
        BY <4>1, <3>4, Sizes DEF Wants
      <4>2. CASE reader = "payload"
        BY <4>2, <3>4, InPayload, Sizes
      <4> QED
        BY <4>1, <4>2, <1>1 DEF Reading
    <3>6. Size(begun[Len(got) + 1]) \in Nat /\ Size(begun[Len(got) + 1]) <= HeaderLen + MaxPayload
      <4>1. begun[Len(got) + 1].len \in 0 .. MaxPayload
        BY <3>4 DEF Frames
      <4> QED
        BY <4>1, Sizes DEF Size
    <3>7. Wants \in Nat
      <4>1. CASE reader = "header"
        BY <4>1, Sizes DEF Wants
      <4>2. CASE reader = "payload"
        BY <4>2, <3>6, InPayload
      <4> QED
        BY <4>1, <4>2, <1>1 DEF Reading
    <3>8. Len(buf) < Size(begun[Len(got) + 1])
      BY <3>5, <3>6, <3>7, <1>1, <1>2
    <3>9. Started(String, ix, Len(got), Len(buf) + 1)
      BY <3>1, <3>8, <1>2, Facts, NextStarted DEF Flow, IInv, TypeOK
    <3>10. LastPut' = LastPut
      BY <1>1 DEF LastPut, Last, writeVars
    <3>11. Flow(ix)'
      BY <3>1, <3>9, <3>10, <1>1, <1>2, <1>3 DEF Flow, writeVars
    <3> QED
      BY <3>6, <3>8, <3>11, <1>2, Sizes DEF Stream
  <2> QED
    BY <2>1, <2>2
<1>5. TypeOK'
  BY <1>1, <1>2, <1>4 DEF IInv, TypeOK, writeVars, Strings
<1>6. Asking'
  <2>1. CASE reader = "header"
    BY <2>1, <1>1, <1>2, Sizes DEF Asking, Wants
  <2>2. CASE reader = "payload"
    <3>1. HeaderLen \in 1 .. Len(buf) /\ begun[Len(got) + 1] \in Frames
          /\ Wants = Size(begun[Len(got) + 1])
      BY <2>2, InPayload
    <3>2. buf'[HeaderLen] = buf[HeaderLen] /\ Wants \in Nat
      BY <3>1, <1>2, Sizes
    <3>3. Wants' = Wants
      BY <3>2, <1>1 DEF Wants
    <3> QED
      BY <2>2, <3>1, <3>2, <3>3, <1>1, <1>2, Sizes DEF Asking
  <2> QED
    BY <2>1, <2>2, <1>1 DEF Reading
<1>7. Held' /\ Ended'
  BY <1>1 DEF IInv, Held, Ended, Reading, writeVars, Last, LastPut
<1> QED
  BY <1>4, <1>5, <1>6, <1>7 DEF IInv

\* The header is read and is valid.
LEMMA HeaderKeeps == ASSUME IInv, HeaderRead PROVE IInv'
<1>1. /\ reader = "header" /\ Len(buf) = HeaderLen /\ ValidHeader /\ reader' = "payload"
      /\ UNCHANGED <<writeVars, pipe, broken, buf, got>>
  BY DEF HeaderRead
<1>2. 1 \in 1 .. Len(buf) /\ HeaderLen \in 1 .. Len(buf)
  BY <1>1, Sizes
<1>3. ~Noisy
  <2>1. buf[1].of # None
    BY <1>1, <1>2 DEF ValidHeader
  <2>2. 1 \in 1 .. Len(String) /\ String[1] = buf[1]
    BY <1>2, Facts DEF IInv
  <2> QED
    BY <2>1, <2>2 DEF Noisy
<1>4. PICK ix \in Indices : Flow(ix)
  BY <1>1, <1>3 DEF IInv, Stream, Reading
<1>5. Stream'
  <2>1. Flow(ix)'
    BY <1>1, <1>4 DEF Flow, String, LastPut, Last, writeVars
  <2> QED
    BY <2>1 DEF Stream
<1>6. Asking'
  <2>1. Len(buf) > 0
    BY <1>1, Sizes
  <2>2. buf[HeaderLen].of \in Frames
    BY <2>1, <1>2, <1>4, InFrame
  <2> QED
    BY <1>1, <2>2, Sizes DEF Asking, Wants
<1>7. TypeOK' /\ Held' /\ Ended'
  BY <1>1 DEF IInv, TypeOK, Held, Ended, writeVars, Last, LastPut
<1> QED
  BY <1>5, <1>6, <1>7 DEF IInv

\* What ReadFrame returns is the next frame begun.
LEMMA Returned ==
    ASSUME IInv, FrameRead
    PROVE  /\ Reading /\ Reading' /\ UNCHANGED begun
           /\ Len(got) < Len(begun) /\ got' = Append(got, begun[Len(got) + 1])
<1>1. reader = "payload" /\ reader' = "header" /\ UNCHANGED begun
      /\ got' = Append(got, [buf[1].of EXCEPT !.len = buf[HeaderLen].of.len])
  BY DEF FrameRead, writeVars
<1>2. buf[1].of = begun[Len(got) + 1] /\ buf[HeaderLen].of = begun[Len(got) + 1]
      /\ begun[Len(got) + 1] \in Frames /\ Len(got) < Len(begun)
  <2>1. 1 \in 1 .. Len(buf) /\ HeaderLen \in 1 .. Len(buf)
    BY <1>1, InPayload, Facts DEF IInv
  <2> QED
    BY <2>1, <1>1, InPayload
<1>3. ASSUME NEW f \in Frames PROVE [f EXCEPT !.len = f.len] = f
  BY DEF Frames
<1> QED
  BY <1>1, <1>2, <1>3 DEF Reading

\* The string then starts with the frame after it.
LEMMA FrameKeeps == ASSUME IInv, FrameRead PROVE IInv'
<1>1. /\ reader = "payload" /\ reader' = "header" /\ Len(buf) = Wants /\ buf' = <<>>
      /\ UNCHANGED <<writeVars, pipe, broken>>
  BY DEF FrameRead
<1>2. /\ Len(got) < Len(begun) /\ begun[Len(got) + 1] \in Frames
      /\ Len(buf) = Size(begun[Len(got) + 1])
      /\ got' = Append(got, begun[Len(got) + 1])
  BY <1>1, Returned, InPayload
<1>3. /\ Len(buf) \in Nat /\ Len(pipe) \in Nat /\ Len(got) \in Nat /\ Len(got') = Len(got) + 1
  BY <1>2, Facts DEF IInv, TypeOK
<1>4. TypeOK'
  BY <1>1, <1>2, Sizes DEF IInv, TypeOK, writeVars
<1>5. Stream'
  <2>1. PICK ix \in Indices : Flow(ix)
    BY <1>1, InPayload
  <2>2. [k \in Nat |-> ix[k + Len(buf)]] \in Indices
    BY <1>3 DEF Indices
  <2>3. PICK jx \in Indices : jx = [k \in Nat |-> ix[k + Len(buf)]]
    BY <2>2
  <2>4. /\ pipe \in Strings /\ Len(pipe) = Len(String) - Len(buf) /\ Len(buf) <= Len(String)
        /\ \A k \in 1 .. Len(pipe) : pipe[k] = String[k + Len(buf)]
    <3>1. \A k \in 1 .. Len(pipe) : k + Len(buf) = Len(buf) + k
      BY <1>3
    <3> QED
      BY <3>1, <1>3, Facts DEF IInv, TypeOK, Strings
  <2>5. Spell(pipe, jx, Len(got) + 1, begun) /\ Upto(pipe, jx, Len(got) + 1, begun, LastPut)
    <3>1. String \in Strings /\ begun \in Seq(Frames) /\ LastPut \in Nat
      BY Facts DEF IInv, TypeOK
    <3>2. /\ Spell(String, ix, Len(got), begun) /\ Upto(String, ix, Len(got), begun, LastPut)
          /\ Started(String, ix, Len(got), Len(buf))
      BY <2>1 DEF Flow
    <3> DEFINE shifted == [k \in Nat |-> ix[k + Len(buf)]]
    <3>3. Spell(pipe, shifted, Len(got) + 1, begun) /\ Upto(pipe, shifted, Len(got) + 1, begun, LastPut)
      BY <3>1, <3>2, <2>4, <1>2, <1>3, ReadSpells
    <3> QED
      BY <3>3, <2>3
  <2>6. String' = pipe
    <3>1. <<>> \o pipe = pipe
      BY DEF IInv, TypeOK
    <3> QED
      BY <3>1, <1>1 DEF String
  <2>7. LastPut' = LastPut
    BY <1>1 DEF LastPut, Last, writeVars
  <2>8. Started(pipe, jx, Len(got) + 1, 0)
    BY DEF Started
  <2>9. Flow(jx)'
    BY <2>5, <2>6, <2>7, <2>8, <1>1, <1>3 DEF Flow, writeVars
  <2> QED
    BY <2>9 DEF Stream
<1>6. Held' /\ Asking' /\ Ended'
  BY <1>1, Sizes DEF IInv, Held, Asking, Ended, writeVars, Last, LastPut
<1> QED
  BY <1>4, <1>5, <1>6 DEF IInv

\* ReadFrame fails.
LEMMA FailKeeps == ASSUME IInv, RecoverTextError \/ EndOfPipe PROVE IInv'
<1>1. /\ reader' \in {"EOF", "unexpectedEOF", "text", "invalid"}
      /\ UNCHANGED <<writeVars, broken, buf, got>>
  BY DEF RecoverTextError, EndOfPipe
<1>2. pipe' \in Strings
  <2>1. CASE RecoverTextError
    <3>1. PICK n \in 0 .. Len(pipe) : pipe' = SubSeq(pipe, n + 1, Len(pipe))
      BY <2>1 DEF RecoverTextError
    <3> QED
      BY <3>1, Facts DEF IInv, TypeOK, Strings
  <2>2. CASE EndOfPipe
    BY <2>2 DEF EndOfPipe, IInv, TypeOK, Strings
  <2> QED
    BY <2>1, <2>2
<1>3. TypeOK'
  BY <1>1, <1>2 DEF IInv, TypeOK, writeVars, Strings
<1>4. Stream' /\ Asking' /\ Held'
  BY <1>1 DEF IInv, Stream, Reading, Asking, Held, writeVars, Last, LastPut
<1>5. Ended'
  <2> SUFFICES ASSUME reader' = "EOF" PROVE broken /\ CleanEndLosesNothing'
    BY <1>1 DEF Ended
  <2>1. Reading /\ broken /\ pipe = <<>> /\ buf = <<>>
    BY DEF RecoverTextError, EndOfPipe
  <2>2. String = <<>>
    BY <2>1 DEF String
  <2>3. Len(got) < Len(begun) => Len(got) = Len(begun) - 1 /\ LastPut = 0
    <3>1. CASE Noisy
      BY <3>1 DEF Noisy
    <3>2. CASE ~Noisy
      <4>1. PICK ix \in Indices : Flow(ix)
        BY <3>2, <2>1 DEF IInv, Stream
      <4> QED
        BY <4>1, <2>2, Facts DEF Flow, Upto, IInv
    <3> QED
      BY <3>1, <3>2
  <2>4. Len(got) < Len(begun) => put[begun[Len(begun)].by] = 0
    <3>1. Len(got) < Len(begun) => begun # <<>>
      BY Facts DEF IInv
    <3> QED
      BY <3>1, <2>3 DEF LastPut, Last
  <2> QED
    BY <2>1, <2>3, <2>4, <1>1 DEF CleanEndLosesNothing, writeVars
<1> QED
  BY <1>3, <1>4, <1>5 DEF IInv

\* IInv is inductive.
LEMMA InvInit == Init => IInv
<1> SUFFICES ASSUME Init PROVE IInv
  OBVIOUS
<1>1. TypeOK
  <2>1. 0 \in 0 .. HeaderLen + MaxPayload /\ Len(<<>>) = 0
    BY Sizes
  <2>2. /\ frame \in [Writers -> Frames \cup {None}]
        /\ put \in [Writers -> 0 .. HeaderLen + MaxPayload]
    BY <2>1 DEF Init
  <2>3. Len(buf) <= HeaderLen + MaxPayload
    BY <2>1, Sizes DEF Init
  <2>4. \A S : <<>> \in Seq(S)
    OBVIOUS
  <2> QED
    BY <2>2, <2>3, <2>4 DEF Init, TypeOK
<1>2. Stream
  <2>1. PICK ix \in Indices : ix = [k \in Nat |-> 0]
    BY DEF Indices
  <2>2. String = <<>> /\ Len(String) = 0 /\ Len(buf) = 0 /\ Len(got) = 0
    BY DEF Init, String
  <2>3. Flow(ix)
    BY <2>2 DEF Init, Flow, Spell, Upto, Started
  <2> QED
    BY <2>3 DEF Stream
<1>3. Held /\ Asking /\ Ended
  BY Sizes DEF Init, Held, Asking, Ended
<1> QED
  BY <1>1, <1>2, <1>3 DEF IInv

\* Nothing changes.
LEMMA StutterKeeps == ASSUME IInv, UNCHANGED vars PROVE IInv'
<1>1. UNCHANGED <<mu, frame, put, begun, pipe, broken, buf, reader, got>>
  BY DEF vars, writeVars, readVars
<1>2. Stream'
  BY <1>1, StreamStays DEF IInv, LastPut, Last
<1>3. TypeOK' /\ Held' /\ Asking' /\ Ended'
  BY <1>1 DEF IInv, TypeOK, Held, Asking, Wants, Ended, CleanEndLosesNothing, Last, LastPut
<1> QED
  BY <1>2, <1>3 DEF IInv

\* Every step keeps the invariant.
LEMMA InvNext == IInv /\ [Next]_vars => IInv'
<1> SUFFICES ASSUME IInv, [Next]_vars PROVE IInv'
  OBVIOUS
<1>1. ASSUME NEW w \in Writers, WriteFrame(w) PROVE IInv'
  BY <1>1, BeginKeeps, PutKeeps, ReturnKeeps DEF WriteFrame
<1>2. CASE ReadFrame
  BY <1>2, GetKeeps, HeaderKeeps, FrameKeeps, FailKeeps DEF ReadFrame
<1>3. CASE Break \/ RemoteText
  BY <1>3, ReturnKeeps, TextKeeps
<1>4. CASE Quiet \/ UNCHANGED vars
  BY <1>4, StutterKeeps DEF Quiet
<1> QED
  BY <1>1, <1>2, <1>3, <1>4 DEF Next

\* The invariant of FramePipe.
LEMMA Invariant == Spec => []IInv
  BY InvInit, InvNext, PTL DEF Spec

-----------------------------------------------------------------------------
\* The types of the writers, the pipe and ReadFrame: no byte that it takes
\* for a length is anything else (frame.go 48-72).
THEOREM TypesHold == Spec => []TypeOK
  BY Invariant, PTL DEF IInv

\* At a clean end no byte of a frame is lost (frame.go 51-53, 67-69).
THEOREM CleanEndHolds == Spec => []CleanEndLosesNothing
<1>1. IInv => CleanEndLosesNothing
  BY DEF IInv, Ended, CleanEndLosesNothing
<1> QED
  BY <1>1, Invariant, PTL

\* The steps of the channel that a step is.
LEMMA WriteRefines ==
    ASSUME IInv, NEW w \in Writers, WriteFrame(w)
    PROVE  (\E f \in Frames : Channel!Write(f)) \/ UNCHANGED Channel!vars
<1>1. CASE Begin(w)
  <2>1. IInv'
    BY <1>1, BeginKeeps
  <2>2. PICK f : begun' = Append(begun, f)
    BY <1>1 DEF Begin
  <2>3. f \in Frames
    <3>1. begun' \in Seq(Frames) /\ begun \in Seq(Frames)
      BY <2>1 DEF IInv, TypeOK
    <3>2. Len(begun') = Len(begun) + 1 /\ begun'[Len(begun) + 1] = f
      BY <2>2, <3>1
    <3> QED
      BY <3>1, <3>2
  <2> QED
    BY <2>2, <2>3, <1>1 DEF Begin, readVars, Reading, Channel!Write
<1>2. CASE PutByte(w) \/ Return(w)
  BY <1>2 DEF PutByte, Return, readVars, Reading, Channel!vars
<1> QED
  BY <1>1, <1>2 DEF WriteFrame

\* Goroutines that share a writer, bytes and buffers implement a channel of
\* whole frames (frame.go 30-72, 119-135).
THEOREM FramePipeImplementsChannel == Spec => ImplementsChannel
<1>1. Init => Channel!Init
  BY DEF Init, Reading, Channel!Init
<1>2. IInv /\ [Next]_vars => [Channel!Next]_(Channel!vars)
  <2> SUFFICES ASSUME IInv, [Next]_vars PROVE Channel!Next \/ UNCHANGED Channel!vars
    OBVIOUS
  <2>1. ASSUME NEW w \in Writers, WriteFrame(w) PROVE Channel!Next \/ UNCHANGED Channel!vars
    BY <2>1, WriteRefines DEF Channel!Next
  <2>2. CASE GetByte \/ HeaderRead
    BY <2>2 DEF GetByte, HeaderRead, writeVars, Reading, Channel!vars
  <2>3. CASE FrameRead
    BY <2>3, Returned DEF Channel!Next, Channel!Read
  <2>4. CASE RecoverTextError \/ EndOfPipe
    BY <2>4 DEF RecoverTextError, EndOfPipe, writeVars, Reading, Channel!Next, Channel!Stop
  <2>5. CASE Break \/ RemoteText \/ Quiet \/ UNCHANGED vars
    BY <2>5 DEF Break, RemoteText, Quiet, vars, writeVars, readVars, Reading, Channel!vars
  <2> QED
    BY <2>1, <2>2, <2>3, <2>4, <2>5 DEF Next, ReadFrame
<1> QED
  BY <1>1, <1>2, Invariant, PTL DEF Spec, ImplementsChannel, Channel!Spec

=============================================================================
