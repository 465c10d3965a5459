# Verification of codetap

codetap gives a VS Code Server inside a container a Unix socket on the host,
keeps it running, and lets VS Code windows negotiate its version over a small
line protocol. This directory models it in TLA+, from the download of a server to the windows
that hold its tokens, checks the models with TLC and proves their safety
results for every number of clients, commits, connections and processes with
TLAPS.

Paths are relative to the repository root. `service.go` is
`internal/app/service.go`, `main.go` is `cmd/codetap/main.go`, `host.go`,
`container.go`, `frame.go` are in `internal/adapter/relay/`, `process.go` in
`internal/adapter/server/`, `http.go`, `tar.go`, `resolve.go` in
`internal/adapter/downloader/`, `extractor/`, `commit/`, `reaper_linux.go` in
`internal/app/`, `extension.ts`, `sessionWatcher.ts` in `extension/src/`.

## 1. The system

```
 VS Code window                                      container
 +--------------+  CTAP1 CONNECT   +---------------------------------------+
 | extension.ts |----------------->| <name>.ctl.sock   codetap run         |
 |  lease conn  |<-- OK <token> ---|  handlers, lifecycle, main goroutine  |
 |  data conn   |----------------->| <name>.sock  code-server: sh + node   |
 +--------------+                  +---------------------------------------+

 extension --ctl/data--> codetap relay == stdin/stdout frames ==> codetap run --stdio --> code-server
```

| component | state it keeps | operations | where |
|---|---|---|---|
| session | `sessionState` (commit, token, leases, restartInProgress) behind a mutex; the server process; `restartCh`, `serverDone`, `done` | CONNECT, INFO, lease monitor, restart, server exit, signal, cleanup | service.go 161-414, process.go |
| relay mux | two `conns` maps, `nextID`, the frame pipes | accept, OPEN/DATA/CLOSE, end of stream | host.go 90-179, container.go |
| relay control | `relayState`, `commitOnce`, `commitCh`, the init handshake | CONNECT, init frame, ack | main.go 420-552, host.go 22-88, service.go 516-611 |
| startup and socket directory | files `<name>.sock`, `<name>.ctl.sock` of all sessions | start, list, clean, remove | service.go 69-161, 420-513, store/file.go |
| provisioning | cache and repository directories | download, extract | service.go 43-67, downloader/http.go, extractor/tar.go |
| orphan reaper | none (the kernel's zombies) | Wait4(-1) at SIGCHLD | reaper_linux.go |
| frame codec | none | encode, decode | frame.go |
| commit resolution | none | flag, environment, file, CLI, latest | commit/resolve.go, main.go 130-175 |
| extension | lease list, watcher's session map, resolver's sessions | connect, poll, resolve | extension/src |
| command line, platform, token, logger | none | | main.go, internal/adapter |

**How they interact.** In direct mode the extension talks to the session's
control socket and then to code-server's data socket. Handlers of control
connections share `sessionState` with the lifecycle goroutine, which alone
starts and stops servers; a handler asks it for a version switch over an
unbuffered channel and waits, without the lock, for the result. In relay mode
the control socket belongs to `codetap relay`, which starts a remote command
only when a first client has named a version, sends it over the frame pipe,
and then carries every data connection over the same pipe.

**What is hard.** Handlers, lease monitors, the lifecycle goroutine, the
waiter of the server, signals and the server itself interleave; the lock is
released during a restart and state read before is used after; a server may
crash while a request to replace it is on its way; codetap may be killed
between any two steps; frames of many connections share two bounded pipes and
CLOSE frames cross; CONNECTs race for the one negotiation of a relay. Every
such hazard, with the line where it bites, is in `PROJECT.json` under
`hazards`, with the properties that would notice it going wrong.

**What makes each part correct.**

- session: a token always opens a server of the version asked for; one server
  per socket path; one version switch at a time; a lease lives exactly as long
  as its connection; every CONNECT is answered; a codetap that ends in good
  order has told every server it started to end.
- relay mux: each stream arrives in order, complete up to the close, at its
  own peer only; a close reaches the other end; nothing stays in the maps.
- relay control: all grants of a relay are for one version, the remote runs
  it, and a granted client is served or told.
- socket directory: a live session keeps its sockets, left-overs block nobody,
  an orderly end leaves no file.
- provisioning: what `Provision` returns is a complete tree of the commit the
  settings name, whatever other processes, crashes and the network did.
- frame codec: frames come out whole and in order, or not at all, and the end
  of a stream in the middle of a frame is noticed.
- extension: a window's token opens the server it was given for, a call ends,
  and a call that was given up is not counted as a client.

## 2. Modules

| module | what it is |
|---|---|
| `Session` | `codetap run` after its startup: handlers, leases, switches, lifecycle, processes, signals |
| `VersionGate` | abstract: one current version, its token, one switch at a time |
| `SessionGate` | `Session` implements `VersionGate` (refinement mapping) |
| `SessionProofs` | inductive invariants of `Session`, the safety theorems and the refinement |
| `Relay` | both sides of the mux relay and the transport between them |
| `Stream` | abstract: two ends connected directly |
| `RelayStreams` | `Relay` implements one `Stream` per connection (refinement mapping) |
| `RelayProofs` | inductive invariant of `Relay`: streams in order, closes owned, entries read |
| `RelayStreamProofs` | how connections end: completeness at a close, and the refinement |
| `RelayCtl` | version negotiation of `codetap relay` with `run --stdio`, to the end of both |
| `Negotiation` | abstract: one version is chosen, granted, and taken over by the remote command |
| `RelayNegotiation` | `RelayCtl` implements `Negotiation` (refinement mapping) |
| `RelayCtlProofs` | one version per relay, however many clients race for it, and the refinement |
| `SocketDir` | the two files of a session name, and the run, relay and clean processes that share them |
| `SocketDirProofs` | live sessions keep their sockets, left-overs block nobody |
| `Commit` | the chain of settings that names a commit, as operators |
| `Provision` | processes that download and extract into one home (uses `Commit`) |
| `Install` | abstract: the tree of a commit is absent or complete |
| `ProvisionProofs` | invariant of `Provision`, and that it implements `Install` |
| `FramePipe` | the frame codec over a pipe of bytes |
| `FramePipeProofs` | frames read are frames begun, and that it implements `FrameChannel` |
| `FrameChannel` | abstract: frames written in one step and read whole, what `Relay` takes a pipe for |
| `Extension` | windows, their lists, calls and tokens against sessions and relays that come and go |
| `ExtensionProofs` | types, and that a token goes stale only through a stale list |
| `MC...` | instances for TLC |

### Session

The model starts where `Run` has its first server and listens (service.go
161). One critical section of `state.mu` is one action, and the write of a
reply outside the lock is another.

| code | model |
|---|---|
| `state.commit`, `token`, `leases`, `restartInProgress` | variables of the same names |
| goroutine of `handleConnect`, then `monitorLease` | `pc[k]`: connect, send (on restartCh), wait (for the result), restarted or refused, reply, monitor, done |
| first critical section, by outcome (321-382) | `ConnectGranted`, `ConnectMismatch`, `ConnectBusy`, `ConnectRestart` |
| second critical section (384-396) | `RestartGranted`, `RestartRefused` |
| `OK <token>` and `go monitorLease` (346, 398) | `WriteOK`, `MonitorLease` |
| lifecycle goroutine, `doRestart` (164-208, 229-266) | `life`; `TakeRequest`, `Drained`, `DoneWithPending`, `DoneIdle`, `Provisioned`, `StartServer`, `SocketReady`, `SocketTimeout`, `Publish`, `Answer`, `RestartFails` |
| `wait`, `stop` of `Run` | `cur`, the server they belong to |
| code-server: the shell that `wait()` waits for and the node process it runs, which binds the socket file | `srv`, `node`, `sock`; `ServerBind`, `NodeExits`, `ShellExits`, `Waited` |
| signals to the process group, Pdeathsig to the shell, exit (process.go 50-88, procattr_linux.go) | `TermGroups`, `TermShells`; `SignalForwarded`, `Die`, `MainDone`, `Exit` |

`overtaken` is a history variable: the connections whose lease a restart was
granted over (service.go 394).

An unbuffered channel is a rendezvous: a handler in `send` is blocked on
`restartCh`, and the action of the receiver moves both. A server is named by
the connection whose request started it, and a token by the server it was
drawn for, which is what distinct random tokens amount to. INFO and malformed
lines change nothing and are left out. `HangUp` may happen at any time, which
covers the extension's 5 second timeout, a closed window and a crash.

### VersionGate and SessionGate

`VersionGate` has no leases, goroutines or processes: requests ask for a
version, are given its token while it is current, and one of them at a time
may hold a switch, which succeeds or is abandoned. `SessionGate` maps a
connection to a request, `tok` to what it was given, and the one handler
between its reservation and the end of its restart to the holder.

The gate permits a grant of the current version during a switch, because the
code does (section 5); what it excludes is a second switch, a token of another
version, and a switch that ends with somebody else.

### Relay

Both sides from the end of the handshake on. On each side: the `conns` map as
a set of ids, the state of each descriptor, and the program counter of each
reader goroutine. The frame pipes are bounded queues, `FrameWriter.Write` is
atomic (it holds its mutex) and blocks while the pipe is full. A chunk is what
one `Read` returns, named by its connection and number. `CLOSE` written and
entry deleted are two steps of the goroutine, so that frames can arrive in
between. `LinkCut` leaves any prefix of either pipe; each side then closes
what is in its map, lingers with its goroutines running, and exits. The two
ends (client and code-server) are external.

### Stream and RelayStreams

A `Stream` is what one client and its server would have if the client had
dialled the data socket itself: what an end has sent and has been given, the
descriptor it holds, and the transport. An end is given the next chunk of the
other one; its descriptor is closed once it has closed itself, once the other
end has and nothing is missing, or once the transport is gone. Something may
be missing if both ends closed, the other one with chunks not read. There are
no frames, pipes, maps or reader goroutines, and no other connections.
`RelayStreams` instantiates it for each connection with the variables of
`Relay` that an end can observe; `cliBuf`, `srvBuf`, `down`, `up`, `hostConns`,
`contConns` and the goroutines do not occur in it.

### RelayCtl

`handleRelayCtlConn` is split where `sync.Once` can make a handler wait:
`OnceRuns` (the first one, which stores the commit), `SendCommit`,
`OncePasses`, then `CheckRejects` or `CheckGrants`, and the lease. `TakeCommit`
and `SetCommit` are relayCmd's two statements after `<-commitCh`; `Listen`,
`WriteInit`, `ReadAck` are HostSide; `Remote*` is RunStdio. `local` is the
commit the remote command resolved by itself (flag, environment, file or CLI),
if any.

RunStdio goes on to serve, to see the end of its stdin and to stop its server,
and HostSide may leave at any step of it: `NothingOutlivesRelay` is about the
two ends of that. A remote command that is killed leaves a server that nobody
tells to end, as in `Session`, and is excepted.

### Negotiation and RelayNegotiation

`Negotiation` chooses one version, one that somebody asked for, grants it once
to whoever asks for it, and refuses others only; the remote command may take
over that version. The mapping: `relayState.commit` is the choice, `OnceRuns`
makes it, `CheckGrants` and `CheckRejects` answer (or stutter, when the client
has gone), `RemoteReadsInit` takes it over; the two later assignments of the
commit, the pipes and the processes are not visible. A remote command with a
commit of its own takes nothing, as it does in the code (section 5).

### SocketDir

Each system call on a path is a step: the stat, the dial, the two removals, the
bind by the server, the listen, and at the end the listener's close (which in
Go unlinks its path) and `FileStore.Remove`. A file is named by the process
that bound it; a dial is answered when that process still has its listener
open. `Die` leaves files, and the server to itself: the death signal is for its
shell, and the node process binds. `stop()` does not stop it from binding
either, as nobody waits for it: `RunAwait` is the last look for the file,
`RunGiveUp` what comes a tenth of a second later, and a server that binds after
the first, or after the end of its codetap, is `late`. `code-server` (external)
is taken to fail on a path that exists and not to remove its file. `calm` is a
history variable: it turns false once two processes have been on their way in
or out at the same time, or a relay was started under the name of a live
session. The protocol has no lock, so two of its guarantees are for calm
behaviours; section 5 shows what happens in the others. One name is enough,
for no process touches the files of another.

### Commit, Provision and Install

`Commit` is a chain of pure decisions. A text is abstracted to what the code
tells apart (a hash, a version, `latest`, blank, anything else), and what the
Update API answers is not determined, so `DirectCommit(s)` is the set of
possible results of the settings `s`. `Provision` takes the steps that another
process can see, in the code's order:

| code | model |
|---|---|
| resolution at the start of `run` (main.go 147-175) | `Start` |
| `IsProvisioned` (service.go 466), stat of the cache (http.go 37) | `IsProvisioned`, `DownloadStat` |
| `http.Get`, `os.CreateTemp`, `io.Copy`, `os.Rename` (http.go 50-84) | `DownloadGet`, `DownloadCopy`, `DownloadRename` |
| stat, `os.MkdirTemp`, tar, check of the binary, `os.Rename` (tar.go 45-82) | `ExtractStat`, `StartTar`, `TarDone`, `CheckBinary`, `InstallTree` |
| the tar process | `TarExits`, which also happens after its parent was killed |
| `Wait4(-1)` (reaper_linux.go 20) | `Reap` |
| SIGKILL, a crash | `Die`, which leaves the file system as it is |

A tarball is cut off, good, unreadable, or readable without a server in it;
the network delivers any of them, except that a cut one is an error of
`io.Copy`. `Install` has none of this: a tree per commit, which a caller
completes in one step or finds complete. `ImplementsInstall` maps a target
directory to `absent`, `complete` (the whole tree of its own commit) or
`broken`, a state that `Install` does not have.

### FramePipe and FrameChannel

A byte at a time, from several goroutines that share a `FrameWriter`, through a
pipe smaller than a frame. A byte is known by its frame and its place, so that
a frame composed of the bytes of two would show. `Break` ends the stream after
any byte; `RemoteText` is a shell's message in place of frames, which
`recoverTextError` reports. `FrameChannel` is what module `Relay` assumes:
frames are written in one step, and come out whole and in that order until the
reader stops. `ImplementsChannel` maps the frames in the order of their first
bytes to those written, and what ReadFrame has returned to those read.

### Extension

| code | model |
|---|---|
| `getSessions`, INFO (sessionWatcher.ts 29-86) | `GetSessions`: what a window's tree then shows may be of a process that is gone |
| `codetap.connect`, `ctapConnect` (extension.ts 38-136) | `CtapConnect`, `OnOK`, `OnERR`, `OnTimeout`, `OnClose` |
| `CodetapResolver.sessions` | `resolver` |
| `deactivate`, a window that crashes | `WindowCloses` |
| the codetap that owns the name: direct (service.go 321-414) or relay (main.go 510-541) | `HostStarts`, `RunGrants`, `RunRefuses`, `RunReserves`, `Switches`, `RelayGrants`, `RelayRefuses`, `LeaseEnds`, `HostEnds` |

What a host does between two answers is `Session`'s and `RelayCtl`'s; here an
answer is one step, and a version switch, which may take longer than the five
seconds of a call, is two (`RunReserves`, `Switches`).

## 3. Runs

| run | instance | shows |
|---|---|---|
| `session_safety` | 3 clients, 3 connections, 2 commits, symmetry of clients and of connections | grants match the server, one server, leases tracked, `ImplementsGate` |
| `session_liveness` | 2 clients, 2 connections, 2 commits | every CONNECT settles, dead leases are released, a dead server is replaced, servers end with codetap |
| `session_switch_under_lease` | 2 clients, 2 connections | finding (section 5) |
| `relay_safety` | 2 connections, 1 chunk each way, pipes of 2 frames, unbroken transport | integrity and ownership between connections, entries have readers, `ImplementsStreams` |
| `relay_cut` | 1 connection, 2 chunks each way, transport may break | completeness, closing, delivery, entries forgotten |
| `relayctl_negotiation` | 2 connections, 2 commits, remote with and without a commit of its own | one version, kept and run; `ImplementsNegotiation`; answers; service or an end; nothing left on the remote side |
| `socketdir` | 2 runs, 1 relay, 1 clean, any of them killed anywhere | three safety properties, `StartSettles` |
| `provision` | 2 processes, 2 commits, 1 version, seven kinds of settings | cache, causes of failure, litter, the commit named, `ImplementsInstall`, every call ends |
| `provision_reaped` | the same | finding (section 5) |
| `frame_codec` | 2 writers of 2 frames of 0 to 2 bytes, header of 2, pipe of 3, up to 6 bytes of text | `ImplementsChannel`, a clean end, arrival |
| `extension` | 2 windows with old lists, 2 commits, 2 calls, 2 hosts one after the other | stale tokens, calls settle, given-up calls released |
| `extension_relay` | the same | finding (section 5) |

**Why the bounds are enough to be interesting.** A connection is used once, so
a bound on connections bounds CONNECTs. Three connections and three clients
give a holder of a stale lease, a requester of a switch and a bystander, and a
client that retries while its first attempt is still waiting; they also allow
three restarts in a row, each of which may crash, time out or be interrupted.
Two commits suffice for every comparison `handleConnect` makes. In the relay,
ownership needs two connections and order needs two chunks; a pipe of two
frames is full after an OPEN and a DATA, so every writer is seen blocking.
`RelayCtl` needs one connection that negotiates and one that meets it.
In `SocketDir` two runs give a left-over and its successor, or a session and a
rival, with a relay or a clean before, between or after them.
In `Provision` two processes race for one commit or work on two; the seven
settings let each source, the CLI included, decide once and contain every kind
of text. In
`FramePipe` a header of two bytes can be cut in two and a pipe of three holds
the end of one frame and the start of the next; six bytes of text are a header
and more. In `Extension` two hosts give a list that has outlived its session,
and two windows of which one connects from it.
TLC reports all of these exhausted; the theorems of section 4 do not depend on
the sizes.

**Fairness.**

- Session: weak fairness of each handler, of the lifecycle goroutine, of the
  main goroutine's end and of the waiter: they are goroutines of a running
  process. `ShellExits`: the shell exits on SIGTERM, or when its node process
  has ended; `Provisioned`: the download returns. The code enforces neither
  (`stop` never sends SIGKILL, the HTTP client has no timeout), so these are
  assumptions of the liveness results. A node process owes nothing, not even an
  end when it was told to; nor do clients, binds, signals and `Die`.
- Relay: weak fairness of every goroutine. Both ends go on reading what they
  are sent: the frame reader writes to a connection directly, so one that
  stops reading stops every other one behind it. Ends need not send or close.
  When the transport is gone, the remote command and the server exit.
- RelayCtl: weak fairness of handlers, relayCmd and RunStdio, and of the exit of
  a server that `stop()` has told. Provisioning may fail, and the remote or the
  relay may die at any time.
- Provision: weak fairness of every process and of tar; the server that is
  asked answers or fails. Kills and the reaper have none.
- FramePipe: weak fairness of the reader and of a write under way, strong
  fairness of the mutex (Go's mutex hands over after a millisecond of waiting).
  Breaks have none.
- Extension: weak fairness of handlers and of the window's events, the timeout
  among them. A version switch, hosts and users have none.
- SocketDir: weak fairness of every run that was started. Starting, dying,
  serving, relays, cleans and servers have none.

Each property of each passing run has a mutant in `PROJECT.json`: a defect of
the kind a change to the code could bring, defined next to the action it
changes, which the run's instance exposes.

## 4. Proofs

Assumptions: the named ones on the constants only. `InitCommit` is a commit,
`First` is not a connection, kinds of processes are disjoint, bounds are
natural numbers, a chunk has a place in the pipe, `Release` gives a commit,
`None` is none of the others. Sets may be infinite, and bounds of any size.

**Session.** `SessionProofs` proves, in the order of their dependence:

| invariant | says | needed for |
|---|---|---|
| `LineRead` | a handler past the read has a client and a commit | typing of the leases and of the published commit |
| `Core` = `TypeOK` + `LineRead` + `OneRestart` | types and the protocol of the restart | everything; inductive as it stands |
| `TokenKnown`, `GrantInv` | `token` names a server whose commit is `commit`; grants keep theirs | `GrantMatchesServer` |
| `Placement` | which servers' shells can be alive in each state of the lifecycle goroutine | `OneServer`, which is not inductive: that the new server is alone follows from the old one having been waited for |
| `NoneStaleBeforePublish`, `StaleInv` | from the reservation on there is no stale lease of anyone else that a second switch could add to | `OneStaleGeneration` |
| `Tracked` | the lease entry of a granted connection from before the reply is written | `TrackedUnlessOvertaken`, whose `reply` is set one step too late to be inductive; `overtaken` makes its exception that of the connection overwritten, and no other |

The refinement (`SessionImplementsGate`) rests on `Core` and the grant invariant:
since at most one handler is in flight, the `CHOOSE` of the mapping is that
handler (`HolderIs`), is unchanged by a step that neither reserves nor ends a
restart (`HolderKept`), and is `None` otherwise (`HolderNone`). Then each
action of `Session` is one action of the gate or a stutter: `HandleCtlConn` is
`Ask`, `ConnectGranted` is `Give`, `ConnectRestart` is `Reserve`, `Publish` is
`Switch`, `RestartGranted` is `Finish`, `RestartRefused` is `Abandon`.

**Relay.** Stream integrity speaks of the two ends of a connection, and what is
between them is a socket buffer and a pipe shared with every other connection.
The strengthening says what is in between: `InOrder`, the chunks of `i` in the
pipe follow those its end was given without a gap; `Fed`, those in the socket
follow the last of them; `Written`, `Buffered`, `Given`, that they are its own.
First come lemmas on what a pipe that loses its first frame, gains a last one
or is cut to a prefix keeps of these, then the steps. `Downwards` and `Upwards`
put it together per direction. The order holds while frames of `i` are still
let through (`ToSrv`, `ToCli`), and the sequence is complete only while the
transport stands. `Opened` says that an OPEN precedes all else of its
connection and comes once; `Shut` that, while the transport stands, each thing
that closes, CLOSE frames on their way included, has an end that closed.

`RelayStreamProofs` adds how a connection ends, which `NothingCutShort` is
about and which is not inductive: the reader goroutine, the CLOSE frame and the
other side's map entry each pass the end on before an end sees it. `EndInv` has
five parts. `Fresh`: a side that has not got to a connection has nothing of it,
and one that serves it a descriptor. `EntryOpen`: an entry of a map is of an
open descriptor. `ClosedLast`: no chunk of a connection is behind its CLOSE in
a pipe, and none is read once it is there. `EndedFirst`: while the transport
holds, whatever of a connection is ending at one end that is still there comes
from the other end, which has closed and whose last chunk has left its socket,
unless that end closed on chunks it was not given. `SeenWhole`: an end whose
connection is ending has been given that chunk. `EndingBegins`, `SrvGoneBegins`
and `CliGoneBegins` are the three ways an end begins to be seen; all other
steps keep what was known (`EndsStay`). The refinement takes the steps of the
relay one by one: `HostData` and `ContData` are `CliGets` and `SrvGets` of the
connection of the frame, since `InOrder` makes its chunk the next; a closing
goroutine, a CLOSE frame or the end of the transport is `CliEnds` or `SrvEnds`,
with `SeenWhole` and `Shut` for its guard; for all other connections the step
is a stutter.

**RelayCtl.** `OneCommit`: whatever travels between the handler that ran
`commitOnce`, relayCmd, HostSide and the remote command is the one commit of
the relay, which is what makes the three later assignments of it harmless.
`Agreed`: handlers past the once know that commit, and grant no other. The
refinement follows action by action, with `LineRead` for a handler not having
answered before its check. `Holder` is about the waiting: the function of
`commitOnce` is being run exactly while one handler is about to send, and until
it has sent, the slot of `commitCh` is free; so a handler that waits for the
once waits for one that can go on (`OnceHolderCanSend`, the part of
`ConnectAnswered` that is not liveness).

**SocketDir.** `Owned`: a file belongs to a process that will remove it, was
killed or found an address in use, or to a late server. `Placed`: a server is
started past the removal of the data socket, and is not late while its run
waits for it or serves. In
calm behaviours `Alone`, `Free` and `Kept` say that a process that is about to
remove or to bind has found nobody listening, and that nobody can have begun to
since: any two processes doing so at a time are an overlap. For any number of
processes, each killed at any step.

**Provision.** `Downloading` and `Extracting` tie temporary names to what a
process is doing, `Extracting` what tar made to the tarball it opened (which a
rename can replace in the cache meanwhile), `TargetWhole` the result. The
refinement follows: `InstallTree` on an absent target is `Complete`, and every
other answer finds a complete tree.

**Extension.** `OneVersion`: as long as everybody who called the running
session had listed that session, they all sent the commit it runs, so it never
switched, and there is one token. `Past` and `Answered` keep calls and tokens
of earlier hosts apart from it. The bound that `TypeOK` puts on tokens is
`Counted`: each new token belongs to another host or to another call that was
answered OK, of which there are at most as many as calls.

**FramePipe.** What ReadFrame has of a frame and what is in the pipe behind it
are one string, `buf \o pipe`, which a read does not change. `Spell` says that
it runs without a gap from the first byte of the first frame not yet returned,
`Upto` that it ends with the last byte put, `Started` that what is in `buf` are
the first bytes of that frame in their places. Which frame a byte is of is a
function the invariant says to exist (`\E ix`); the steps exhibit it
(`PutSpells`, `BeginSpells`, `ReadSpells`, `NextStarted`). `Held` ties the
mutex to the last frame begun, `Noisy` is the stream that is a shell's message.
The refinement follows from `Returned`: what ReadFrame returns, composed of the
identity in its first byte and the length in its header's last, is the next
frame begun.

| theorem | statement |
|---|---|
| `SessionProofs`: `TypesHold`, `OneRestartHolds`, `GrantMatchesServerHolds`, `OneServerHolds`, `NoLeakedLeaseHolds`, `OneStaleGenerationHolds`, `TrackedUnlessOvertakenHolds` | `Spec => []...` of the definition named |
| `SessionProofs`: `SessionImplementsGate` | `Spec => ImplementsGate` |
| `RelayProofs`: `TypesHold`, `StreamIntegrityHolds`, `OwnCloseOnlyHolds`, `EntryHasReaderHolds` | `Spec => []...` |
| `RelayStreamProofs`: `NothingCutShortHolds` | `Spec => []...` |
| `RelayStreamProofs`: `RelayImplementsStreams` | `Spec => ImplementsStreams` |
| `RelayStreamProofs`: `ConnectionIsStream` | `Spec => Conn(i)!Spec` for each connection |
| `RelayCtlProofs`: `TypesHold`, `GrantsAgreeHolds`, `NegotiatedVersionHolds`, `OnceHolderCanSendHolds` | `Spec => []...` |
| `RelayCtlProofs`: `RelayCtlImplementsNegotiation` | `Spec => ImplementsNegotiation` |
| `RelayCtlProofs`: `CommitSettledHolds` | `Spec => CommitSettled`, an action property |
| `SocketDirProofs`: `TypesHold`, `LiveKeepsSocketsHolds`, `LeftoverNeverBlocksHolds`, `NothingLeftHolds` | `Spec => []...` |
| `ProvisionProofs`: `TypesHold`, `CacheWholeHolds`, `FailureHasCauseHolds`, `NoLitterHolds`, `ServerIsNamedHolds` | `Spec => []...` |
| `ProvisionProofs`: `ProvisionImplementsInstall` | `Spec => ImplementsInstall` |
| `ExtensionProofs`: `TypesHold`, `StaleTokenNeedsStaleListHolds` | `Spec => []...` |
| `FramePipeProofs`: `TypesHold`, `CleanEndHolds` | `Spec => []...` |
| `FramePipeProofs`: `FramePipeImplementsChannel` | `Spec => ImplementsChannel` |

**Only model-checked.** All liveness, as fairness and ENABLED are out of the
prover's reach: `ConnectSettles`, `DeadLeaseReleased`, `DeadServerReplaced`,
`ServersEndWithCodetap`, `CloseReachesPeer`, `SentArrives`, `EntriesForgotten`,
`ConnectAnswered`, `NegotiatedServed`, `NothingOutlivesRelay`, `StartSettles`,
`Settles`, `FrameArrives`, `CallSettles`, `GivenUpReleases`. Every invariant,
action property and refinement that a passing run checks is a theorem; the
type invariants are theorems of every module with proofs, which runs need not
repeat (only that of `Extension`, which counts tokens, is also run). The
refinements are of the safety part of the specifications: that a `Stream`
delivers in the end is `SentArrives` and `CloseReachesPeer`, which TLC checks
on `Relay` itself.

## 5. Where the documentation and the code differ

Three runs end in a counterexample:

- **A switch under a lease** (`NoSwitchUnderLease`). `handleConnect` grants a
  CONNECT for the running version without looking at `restartInProgress`
  (service.go 340). A client that connects after another one's switch was
  reserved gets `OK` and the old token, and its server is then replaced.
  README.md 165 has switches happen only when no other client is connected; a
  lease of the requester's own client id does not count.
  `OneStaleGeneration` is what remains true: the leases left behind are all of
  one former server.
- **A stolen exit status** (`SuccessReported`). The reaper runs in every
  codetap, and its `Wait4(-1)` (reaper_linux.go 20) may be faster than
  `exec.Cmd.Wait` on tar. A tree that was unpacked completely is then thrown
  away, and the start, or on a version switch the running session, ends with
  "no child processes". service.go 88 has it reap orphans, as PID 1.
  `FailureHasCause` and `NoLitter` are what remains true.
- **A relay that is never told a version** (`FirstConnectNegotiates`). The
  extension sends the commit that INFO reported (extension.ts 69), which a
  relay has none of before its first CONNECT: the line has three fields and is
  refused. README.md 180 has the extension send the client's commit.

The conditions of some passing properties mark others, each found as a
counterexample of the property without its condition:

- **An overwritten lease** (`TrackedUnlessOvertaken`). After a restart the
  requester enters its lease without looking at the entry its client id holds
  by then (service.go 394). A client that gave up after 5 seconds and retried
  is granted its lease as soon as the new version is published; the first
  attempt's handler then overwrites it, and its monitor deletes the entry
  because that connection is dead. README.md 161 says open leases are tracked.
- **A failed restart may go unanswered** (`ConnectSettles`: answered or
  closed). The lifecycle goroutine hands the error to the handler and at once
  ends the session (service.go 178-180); codetap may exit before the handler
  has written its `ERR` line. README.md 155-158 has every CONNECT answered.
- **A call that never settles** (`CallSettles`: as long as its connection is
  open). `ctapConnect` listens for data, errors and the timeout, not for the
  close (extension.ts 109-136): a connection that the host closes unanswered
  takes its timer with it, and the promise stays pending.
- **A remote with its own commit never answers** (`NegotiatedServed`,
  `NegotiatedVersion`: for a remote without one). With `--commit`,
  `CODETAP_COMMIT`, `~/.codetap/.commit` or a `code` CLI on the remote side,
  RunStdio skips the init phase (service.go 518), HostSide waits for an ack
  that never comes (host.go 78), and the client keeps a lease that was
  answered `OK`. README.md 180 promises the negotiated version.
- **An orphaned server** (`ServersEndWithCodetap`: for the node process, after
  an orderly end). When codetap is killed, Pdeathsig (procattr_linux.go 8-13)
  goes to its direct child, the shell. The node process that the shell runs is
  in the same group (process.go 25, 47), but whoever would signal the group is
  dead: it goes on with the data socket and the token. The comment calls
  Pdeathsig a safety net if codetap dies unexpectedly; for node it is none.
- **A socket file left by a start that was given up** (`NothingLeft`: but for a
  late server's). `waitForSocket` sleeps after its last look (service.go 618),
  and `Run` then signals the server and returns (140-141) before its cleanup is
  registered (152), without waiting for it. A server that binds in that time
  leaves `<name>.sock`. The same goes for a failed restart (253) whose server
  binds after the session's cleanup. `clean` looks for control sockets only
  (store/file.go 30-45) and does not see the file; the next start removes it
  (113), but if the late server binds after that removal, `waitForSocket` of
  the next start takes the file for its own server's.
- **A killed remote** (`NothingOutlivesRelay`: for one that was not). The same
  Pdeathsig, on the other machine.
- **A clobbered session, and a cleaned one** (`LiveKeepsSockets`,
  `LeftoverNeverBlocks`: in calm behaviours). The liveness check of a name
  (service.go 103) and the listen on it (146) are a server start apart: a
  second start that passed the check in that time removes the data socket of
  the first (113). A session that starts between `clean`'s probe and its
  removal loses its sockets (448-453). The comment at service.go 102 and
  README.md 107 say otherwise.

## 6. Not modelled

- Command line, platform, token, logger and domain types: single-shot lookups,
  formatting and interfaces. Distinct random tokens are an assumption.
  API declarations, packaging and CI.
- INFO, syntax errors and read deadlines on control sockets in `Session` and
  `RelayCtl`: no state. `list`, which only reads.
- The read of `monitorLease` also returns on a byte from the client; the only
  client, the extension, sends nothing after its CONNECT line.
- The 2 second limit of `QueryCtlInfo`: in `SocketDir` a session that listens
  is taken to answer in time. A slow one is, for `clean`, a session that
  starts too late to be seen.
- A code-server that ignores SIGTERM and an HTTP server that never answers:
  nothing in the code limits either, so a restart then waits for ever with
  `restartInProgress` set. They are excluded by the fairness of section 3.
- A shell that somebody else kills while its node process lives; codetap would
  take the server for dead. A node process that removes its socket file when it
  exits: one that was told to end may do so after the next server has bound the
  path, as `wait()` waits for the shell only. Platforms other than Linux, where
  there is no Pdeathsig (`procattr_other.go`).
- A home directory shared by machines of different architectures or C
  libraries, whose trees of a commit share a directory; a user who deletes files
  in it. A tarball that was delivered whole but useless stays in the cache,
  and every later call fails on it (tar.go 76), which `FailureHasCause` allows.
- Errors of `os.Rename` into the repository other than a target with files.
- `RunStdio`'s answer to an init frame without a commit, which no relay sends.
- Two session names in one window, the window's own data connection, and the
  picker and tree of the extension.
- The wrap of `nextID` after 2^32 connections.

## 7. What could follow

A composition of `RelayCtl` and `Extension` in which the relay's commit reaches
the window's list step by step, and one of `Session` and `Extension`, whose
hosts are now taken to behave like `VersionGate` and `Negotiation`.
