---------------------------- MODULE FramePipe ----------------------------
(***************************************************************************)
(* The frame codec of the relay over a pipe of bytes                       *)
(* (internal/adapter/relay/frame.go): goroutines that share a FrameWriter, *)
(* the pipe, which takes and gives a byte at a time, may be full and may   *)
(* break anywhere, and the goroutine in ReadFrame. A frame is known by its *)
(* writer, its number and the length of its payload; a byte of it by its   *)
(* place, so that a header is HeaderLen bytes, of which the last tells the *)
(* length.                                                                 *)
(***************************************************************************)
EXTENDS Naturals, Sequences, FiniteSets

CONSTANTS
    Writers,      \* goroutines that share the FrameWriter
    MaxFrames,    \* frames each of them writes
    HeaderLen,    \* bytes of a header
    MaxPayload,   \* bytes of the longest payload
    PipeSize,     \* bytes the pipe holds
    MaxNoise,     \* bytes of what a remote shell writes in place of frames
    None          \* nobody

ASSUME SizeAssumption ==
    /\ MaxFrames \in Nat /\ MaxPayload \in Nat /\ MaxNoise \in Nat
    /\ HeaderLen \in Nat \ {0} /\ PipeSize \in Nat \ {0}
    /\ None \notin Writers

VARIABLES
    mu,        \* holder of FrameWriter.mu
    frame,     \* the frame a goroutine is writing
    put,       \* how many bytes of it are in the pipe
    pipe,      \* bytes in the pipe
    broken,    \* the writing end is gone
    buf,       \* bytes ReadFrame has read of its frame
    reader,    \* what ReadFrame is doing, or how it failed
    got,       \* frames it has returned
    begun      \* frames in the order of their first bytes

writeVars == <<mu, frame, put, begun>>
readVars  == <<buf, reader, got>>
vars == <<writeVars, pipe, broken, readVars>>

Frames == [by : Writers, no : 1 .. MaxFrames, len : 0 .. MaxPayload]
Bytes == [of : Frames, at : 1 .. HeaderLen + MaxPayload]

\* Bytes of no frame, printable (1) or not (0).
Noise == [of : {None}, at : {0, 1}]

TypeOK ==
    /\ mu \in Writers \cup {None}
    /\ frame \in [Writers -> Frames \cup {None}]
    /\ put \in [Writers -> 0 .. HeaderLen + MaxPayload]
    /\ pipe \in Seq(Bytes \cup Noise)
    /\ broken \in BOOLEAN
    /\ buf \in Seq(Bytes \cup Noise) /\ Len(buf) <= HeaderLen + MaxPayload
    /\ reader \in {"header", "payload", "EOF", "unexpectedEOF", "text", "invalid"}
    /\ got \in Seq(Frames) /\ begun \in Seq(Frames)

Init ==
    /\ mu = None
    /\ frame = [w \in Writers |-> None] /\ put = [w \in Writers |-> 0]
    /\ pipe = <<>> /\ broken = FALSE
    /\ buf = <<>> /\ reader = "header" /\ got = <<>> /\ begun = <<>>

-----------------------------------------------------------------------------
(***************************************************************************)
(* FrameWriter.Write and WriteFrame.                                       *)
(***************************************************************************)
Written(w) == Cardinality({i \in DOMAIN begun : begun[i].by = w})

\* Mutant: the mutex is not taken.
Lock_Skipped(w) == frame[w] = None /\ ~broken

Lock(w) == frame[w] = None /\ mu = None /\ ~broken

Begin(w) ==
    /\ Lock(w)
    /\ Written(w) < MaxFrames
    /\ \E n \in 0 .. MaxPayload :
        LET f == [by |-> w, no |-> Written(w) + 1, len |-> n]
        IN  frame' = [frame EXCEPT ![w] = f] /\ begun' = Append(begun, f)
    /\ put' = [put EXCEPT ![w] = 0]
    /\ mu' = w
    /\ UNCHANGED <<pipe, broken, readVars>>

\* Mutant: the mutex is unlocked after the payload is written, if there is one.
Unlocked_AfterPayload(w) == IF frame[w].len > 0 THEN None ELSE mu

\* defer fw.mu.Unlock().
Unlocked(w) == None

\* A byte of the header, or of the payload after it.
PutByte(w) ==
    /\ frame[w] # None /\ put[w] < HeaderLen + frame[w].len
    /\ ~broken /\ Len(pipe) < PipeSize
    /\ pipe' = Append(pipe, [of |-> frame[w], at |-> put[w] + 1])
    /\ put' = [put EXCEPT ![w] = @ + 1]
    /\ UNCHANGED <<mu, frame, begun, broken, readVars>>

\* The frame is written, or a Write has failed.
Return(w) ==
    /\ frame[w] # None
    /\ broken \/ put[w] = HeaderLen + frame[w].len
    /\ frame' = [frame EXCEPT ![w] = None]
    /\ mu' = Unlocked(w)
    /\ UNCHANGED <<put, begun, pipe, broken, readVars>>

-----------------------------------------------------------------------------
(***************************************************************************)
(* The transport.                                                          *)
(***************************************************************************)

\* Nothing more is written; what is in the pipe can still be read.
Break ==
    /\ ~broken
    /\ broken' = TRUE
    /\ UNCHANGED <<writeVars, pipe, readVars>>

\* ssh, docker or a shell fails with a message in place of the remote command.
RemoteText ==
    /\ begun = <<>> /\ pipe = <<>> /\ ~broken /\ reader = "header"
    /\ \E n \in 1 .. MaxNoise : pipe' \in [1 .. n -> Noise]
    /\ broken' = TRUE
    /\ UNCHANGED <<writeVars, readVars>>

-----------------------------------------------------------------------------
(***************************************************************************)
(* ReadFrame.                                                              *)
(***************************************************************************)

\* How many bytes ReadFull still asks for: first those of the header.
Wants == IF reader = "header" THEN HeaderLen ELSE HeaderLen + buf[HeaderLen].of.len

Reading == reader \in {"header", "payload"}

GetByte ==
    /\ Reading /\ Len(buf) < Wants
    /\ pipe # <<>>
    /\ buf' = Append(buf, Head(pipe))
    /\ pipe' = Tail(pipe)
    /\ UNCHANGED <<writeVars, broken, reader, got>>

\* A type from 1 to 4 and a length within the limit.
ValidHeader == \A i \in 1 .. HeaderLen : buf[i].of # None

HeaderRead ==
    /\ reader = "header" /\ Len(buf) = HeaderLen
    /\ ValidHeader
    /\ reader' = "payload"
    /\ UNCHANGED <<writeVars, pipe, broken, buf, got>>

\* The type and the id are of the first header bytes, the length of the last.
FrameRead ==
    /\ reader = "payload" /\ Len(buf) = Wants
    /\ got' = Append(got, [buf[1].of EXCEPT !.len = buf[HeaderLen].of.len])
    /\ buf' = <<>> /\ reader' = "header"
    /\ UNCHANGED <<writeVars, pipe, broken>>

LooksLikeText(bytes) ==
    bytes # <<>> /\
    (Cardinality({i \in DOMAIN bytes : bytes[i].at = 1}) * 100) \div Len(bytes) > 80

\* recoverTextError: one more Read, of whatever there is in two seconds.
RecoverTextError ==
    /\ reader = "header" /\ Len(buf) = HeaderLen
    /\ ~ValidHeader
    /\ \E n \in 0 .. Len(pipe) :
        /\ pipe' = SubSeq(pipe, n + 1, Len(pipe))
        /\ reader' = IF LooksLikeText(buf \o SubSeq(pipe, 1, n)) THEN "text" ELSE "invalid"
    /\ UNCHANGED <<writeVars, broken, buf, got>>

\* Mutant: a header cut in two ends the stream like one that is missing.
EndOfPipe_AlwaysClean ==
    /\ Reading /\ Len(buf) < Wants
    /\ broken /\ pipe = <<>>
    /\ reader' = IF reader = "header" THEN "EOF" ELSE "unexpectedEOF"
    /\ UNCHANGED <<writeVars, pipe, broken, buf, got>>

EndOfPipe ==
    /\ Reading /\ Len(buf) < Wants
    /\ broken /\ pipe = <<>>
    /\ reader' = IF buf = <<>> THEN "EOF" ELSE "unexpectedEOF"
    /\ UNCHANGED <<writeVars, pipe, broken, buf, got>>

ReadFrame == GetByte \/ HeaderRead \/ FrameRead \/ RecoverTextError \/ EndOfPipe

WriteFrame(w) == Begin(w) \/ PutByte(w) \/ Return(w)

\* Every writer has written what it had, and the reader waits or has failed.
Quiet ==
    /\ mu = None /\ \A w \in Writers : frame[w] = None
    /\ broken \/ \A w \in Writers : Written(w) = MaxFrames
    /\ ~Reading \/ (pipe = <<>> /\ buf = <<>> /\ ~broken)
    /\ UNCHANGED vars

Next ==
    \/ \E w \in Writers : WriteFrame(w)
    \/ ReadFrame
    \/ Break \/ RemoteText
    \/ Quiet

\* Goroutines are scheduled; a mutex that is released again and again is had
\* by everyone who waits for it (sync.Mutex is fair after a millisecond).
Fairness ==
    /\ \A w \in Writers : WF_vars(PutByte(w) \/ Return(w)) /\ SF_vars(Begin(w))
    /\ WF_vars(ReadFrame)

Spec == Init /\ [][Next]_vars
FairSpec == Spec /\ Fairness

-----------------------------------------------------------------------------
Channel == INSTANCE FrameChannel WITH
    sent <- begun, received <- got, reading <- Reading

\* However its bytes are interleaved with other goroutines, split by the pipe
\* or cut off, a frame is read whole or not at all, in the order of writing,
\* and text is never taken for one (frame.go 48-72 and 130-135).
ImplementsChannel == Channel!Spec

\* A clean end is one between two frames: no byte of a frame is lost in it
\* (frame.go 51-53, 67-69).
CleanEndLosesNothing ==
    reader = "EOF" /\ Len(got) < Len(begun) =>
        Len(got) = Len(begun) - 1 /\ put[begun[Len(begun)].by] = 0

\* As long as the transport stands, every frame that a goroutine has to write
\* is read: none waits for ever for the writer, or for the rest of a frame
\* (frame.go 37-44, 131-134).
FrameArrives == <>(broken \/ Len(got) = Cardinality(Writers) * MaxFrames)

=============================================================================
