---------------------------- MODULE Extension ----------------------------
(***************************************************************************)
(* The VS Code extension (extension/src): windows that list the session of *)
(* one name, connect to it and keep the token they are given, against the  *)
(* control socket of whichever codetap owns the name: sessions and relays  *)
(* that start, switch versions and end. What a host does between two       *)
(* answers is modules Session's and RelayCtl's; here a handler answers in  *)
(* one step, and only a version switch takes time.                         *)
(***************************************************************************)
EXTENDS Naturals, FiniteSets

CONSTANTS
    Windows,     \* VS Code windows, each with a CLIENT_ID of its own
    Commits,     \* VS Code Server commits
    MaxCalls,    \* calls of ctapConnect made during a behaviour
    MaxHosts,    \* codetap processes that own the name, one after the other
    ListedBefore,  \* what trees may show at first, of processes before these
    None         \* nothing

ASSUME BoundAssumption ==
    /\ MaxCalls \in Nat /\ MaxHosts \in Nat
    /\ None \notin Windows \cup Commits \cup Nat
    /\ ListedBefore \subseteq [Windows -> [no : {0}, commit : Commits] \cup {None}]

Calls == 1 .. MaxCalls

VARIABLES
    host,        \* what the name is bound by
    no,          \* number of that process
    commit,      \* the commit its INFO reports, None for a relay at first
    token,       \* number of the last code-server of a session
    switching,   \* the call a version switch is under way for
    leases,      \* sessionState.leases: the call every window has a lease by
    shown,       \* what a window's tree shows: process and commit
    gone,        \* windows that have been closed
    by, listed, asked, to,  \* a call: its window, the process it was listed by,
                            \* the commit it sends, the process it reaches
    sock,        \* its connection; "closed" by the host, "destroyed" by the window
    reply,       \* what the host has written to it
    given,       \* and the token in it; 0 is no token
    promise,     \* what the window knows of it
    resolver     \* CodetapResolver.sessions: the call a window's token is from

hostVars == <<host, no, commit, token, switching, leases>>
callVars == <<by, listed, asked, to>>
vars == <<hostVars, shown, gone, callVars, sock, reply, given, promise, resolver>>

MaybeCalls == Calls \cup {None}

TypeOK ==
    /\ host \in {"none", "run", "relay"} /\ no \in 0 .. MaxHosts
    /\ commit \in Commits \cup {None} /\ token \in 0 .. MaxHosts + MaxCalls
    /\ switching \in MaybeCalls
    /\ leases \in [Windows -> MaybeCalls]
    /\ shown \in [Windows -> [no : 0 .. MaxHosts, commit : Commits \cup {None}] \cup {None}]
    /\ gone \subseteq Windows
    /\ by \in [Calls -> Windows \cup {None}] /\ listed \in [Calls -> 0 .. MaxHosts]
    /\ asked \in [Calls -> Commits \cup {None}] /\ to \in [Calls -> 0 .. MaxHosts]
    /\ sock \in [Calls -> {"none", "open", "closed", "destroyed"}]
    /\ reply \in [Calls -> {"none", "OK", "ERR"}]
    /\ given \in [Calls -> 0 .. MaxHosts + MaxCalls]
    /\ promise \in [Calls -> {"free", "pending", "resolved", "rejected"}]
    /\ resolver \in [Windows -> MaybeCalls]

Init ==
    /\ host = "none" /\ no = 0 /\ commit = None /\ token = 0 /\ switching = None
    /\ leases = [w \in Windows |-> None]
    /\ shown \in ListedBefore /\ gone = {}
    /\ by = [c \in Calls |-> None] /\ listed = [c \in Calls |-> 0]
    /\ asked = [c \in Calls |-> None] /\ to = [c \in Calls |-> 0]
    /\ sock = [c \in Calls |-> "none"]
    /\ reply = [c \in Calls |-> "none"] /\ given = [c \in Calls |-> 0]
    /\ promise = [c \in Calls |-> "free"]
    /\ resolver = [w \in Windows |-> None]

-----------------------------------------------------------------------------
(***************************************************************************)
(* The codetap behind the control socket.                                  *)
(***************************************************************************)
NoLeases == [w \in Windows |-> None]

HostStarts ==
    /\ host = "none" /\ no < MaxHosts
    /\ no' = no + 1
    /\ \/ host' = "run" /\ commit' \in Commits /\ token' = token + 1
       \/ host' = "relay" /\ commit' = None /\ UNCHANGED token
    /\ leases' = NoLeases /\ switching' = None
    /\ UNCHANGED <<shown, gone, callVars, sock, reply, given, promise, resolver>>

\* Also when a switch fails: its ERR line may or may not be written first.
HostEnds ==
    /\ host # "none"
    /\ host' = "none" /\ commit' = None
    /\ leases' = NoLeases /\ switching' = None
    /\ reply' \in {reply, [c \in Calls |-> IF c = switching THEN "ERR" ELSE reply[c]]}
    /\ sock' = [c \in Calls |-> IF sock[c] = "open" THEN "closed" ELSE sock[c]]
    /\ UNCHANGED <<no, token, shown, gone, callVars, given, promise, resolver>>

\* A CONNECT line no handler has dealt with; it is read also if the window has
\* given up since.
Handled(c) == host = "none" \/ to[c] # no \/ reply[c] # "none" \/ c = switching

Connected(c) == sock[c] \in {"open", "destroyed"} /\ ~Handled(c)

\* The lease of the same client id and its connection are dropped, whatever
\* comes of the new one.
Replaced(c) == leases[by[c]]

Closed(S) == [d \in Calls |-> IF d \in S /\ sock[d] = "open" THEN "closed" ELSE sock[d]]

Answers(c, r) == reply' = [reply EXCEPT ![c] = r]

Gives(c, t) == Answers(c, "OK") /\ given' = [given EXCEPT ![c] = t]

Refuses(c) == Answers(c, "ERR") /\ UNCHANGED given

\* Four fields: a line without a commit has three.
RefuseSyntax(c) ==
    /\ Connected(c) /\ asked[c] = None
    /\ Refuses(c) /\ sock' = Closed({c})
    /\ UNCHANGED <<hostVars, shown, gone, callVars, promise, resolver>>

\* Mutant: the version is not compared.
SameVersion_Never(c) == FALSE

SameVersion(c) == asked[c] = commit

RunGrants(c) ==
    /\ host = "run" /\ Connected(c) /\ asked[c] # None
    /\ SameVersion(c)
    /\ Gives(c, token) /\ sock' = Closed({Replaced(c)})
    /\ leases' = [leases EXCEPT ![by[c]] = c]
    /\ UNCHANGED <<host, no, commit, token, switching, shown, gone, callVars, promise, resolver>>

Others(c) == {w \in Windows \ {by[c]} : leases[w] # None}

RunRefuses(c) ==
    /\ host = "run" /\ Connected(c) /\ asked[c] # None
    /\ ~SameVersion(c) /\ (Others(c) # {} \/ switching # None)
    /\ Refuses(c) /\ sock' = Closed({Replaced(c), c})
    /\ leases' = [leases EXCEPT ![by[c]] = None]
    /\ UNCHANGED <<host, no, commit, token, switching, shown, gone, callVars, promise, resolver>>

RunReserves(c) ==
    /\ host = "run" /\ Connected(c) /\ asked[c] # None
    /\ ~SameVersion(c) /\ Others(c) = {} /\ switching = None
    /\ switching' = c
    /\ sock' = Closed({Replaced(c)})
    /\ leases' = [leases EXCEPT ![by[c]] = None]
    /\ UNCHANGED <<host, no, commit, token, shown, gone, callVars, reply, given, promise, resolver>>

Switches(c) ==
    /\ c = switching
    /\ commit' = asked[c] /\ token' = token + 1 /\ switching' = None
    /\ Gives(c, token')
    /\ leases' = [leases EXCEPT ![by[c]] = c]
    /\ UNCHANGED <<host, no, shown, gone, callVars, sock, promise, resolver>>

\* The first CONNECT tells a relay its version; there is no token.
RelayGrants(c) ==
    /\ host = "relay" /\ Connected(c) /\ asked[c] # None
    /\ commit \in {None, asked[c]}
    /\ commit' = asked[c]
    /\ Gives(c, 0)
    /\ UNCHANGED <<host, no, token, switching, leases, shown, gone, callVars, sock, promise, resolver>>

RelayRefuses(c) ==
    /\ host = "relay" /\ Connected(c) /\ asked[c] # None
    /\ commit \notin {None, asked[c]}
    /\ Refuses(c) /\ sock' = Closed({c})
    /\ UNCHANGED <<hostVars, shown, gone, callVars, promise, resolver>>

\* monitorLease.
LeaseEnds(c) ==
    /\ by[c] # None /\ leases[by[c]] = c /\ sock[c] = "destroyed"
    /\ leases' = [leases EXCEPT ![by[c]] = None]
    /\ UNCHANGED <<host, no, commit, token, switching, shown, gone, callVars,
                   sock, reply, given, promise, resolver>>

Handler(c) ==
    \/ RefuseSyntax(c) \/ RunGrants(c) \/ RunRefuses(c) \/ RunReserves(c)
    \/ RelayGrants(c) \/ RelayRefuses(c) \/ LeaseEnds(c)

-----------------------------------------------------------------------------
(***************************************************************************)
(* A window.                                                               *)
(***************************************************************************)

\* INFO; the tree keeps the answer until the next. A session that does not
\* answer is shown as dead and not connected to, like one that is not clicked.
GetSessions(w) ==
    /\ w \notin gone /\ host # "none"
    /\ \E c \in Calls : promise[c] = "free"
    /\ shown' = [shown EXCEPT ![w] = [no |-> no, commit |-> commit]]
    /\ UNCHANGED <<hostVars, gone, callVars, sock, reply, given, promise, resolver>>

\* Mutant: another field of the metadata is sent.
Sent_WrongField(w) == shown[w].no

\* session.metadata.commit.
Sent(w) == shown[w].commit

\* codetap.connect: what is sent is the commit the session was listed with.
CtapConnect(w, c) ==
    /\ w \notin gone /\ shown[w] # None
    /\ promise[c] = "free" /\ \A d \in 1 .. c - 1 : promise[d] # "free"
    /\ by' = [by EXCEPT ![c] = w]
    /\ listed' = [listed EXCEPT ![c] = shown[w].no]
    /\ asked' = [asked EXCEPT ![c] = Sent(w)]
    /\ IF host = "none"
       THEN promise' = [promise EXCEPT ![c] = "rejected"] /\ UNCHANGED <<to, sock>>
       ELSE /\ promise' = [promise EXCEPT ![c] = "pending"]
            /\ to' = [to EXCEPT ![c] = no] /\ sock' = [sock EXCEPT ![c] = "open"]
    /\ UNCHANGED <<hostVars, shown, gone, reply, given, resolver>>

Pending(c) == promise[c] = "pending" /\ by[c] \notin gone /\ sock[c] # "destroyed"

\* The connection of a resolved call is pushed to the window's leases and stays
\* open; its token replaces the one the resolver had for the name.
OnOK(c) ==
    /\ Pending(c) /\ reply[c] = "OK"
    /\ promise' = [promise EXCEPT ![c] = "resolved"]
    /\ resolver' = [resolver EXCEPT ![by[c]] = c]
    /\ UNCHANGED <<hostVars, shown, gone, callVars, sock, reply, given>>

Destroyed(c) == [sock EXCEPT ![c] = "destroyed"]

OnERR(c) ==
    /\ Pending(c) /\ reply[c] = "ERR"
    /\ promise' = [promise EXCEPT ![c] = "rejected"]
    /\ sock' = Destroyed(c)
    /\ UNCHANGED <<hostVars, shown, gone, callVars, reply, given, resolver>>

\* Mutant: there is no timeout.
OnTimeout_NotSet(c) == FALSE /\ UNCHANGED vars

\* Mutant: conn.destroy() is left out.
OnTimeout_KeepsSocket(c) ==
    /\ Pending(c)
    /\ promise' = [promise EXCEPT ![c] = "rejected"]
    /\ UNCHANGED <<hostVars, shown, gone, callVars, sock, reply, given, resolver>>

\* Five seconds without an answer, which may be on its way.
OnTimeout(c) ==
    /\ Pending(c)
    /\ promise' = [promise EXCEPT ![c] = "rejected"]
    /\ sock' = Destroyed(c)
    /\ UNCHANGED <<hostVars, shown, gone, callVars, reply, given, resolver>>

\* A connection that ends without an answer destroys itself and its timer; no
\* listener is told, and the promise is never settled.
OnClose(c) ==
    /\ Pending(c) /\ sock[c] = "closed" /\ reply[c] = "none"
    /\ sock' = Destroyed(c)
    /\ UNCHANGED <<hostVars, shown, gone, callVars, reply, given, promise, resolver>>

\* deactivate, and whatever the window still waited for.
WindowCloses(w) ==
    /\ w \in {by[c] : c \in Calls} \ (gone \cup {None})
    /\ gone' = gone \cup {w}
    /\ shown' = [shown EXCEPT ![w] = None]
    /\ sock' = [c \in Calls |-> IF by[c] = w THEN "destroyed" ELSE sock[c]]
    /\ UNCHANGED <<hostVars, callVars, reply, given, promise, resolver>>

Window(c) == OnOK(c) \/ OnERR(c) \/ OnTimeout(c) \/ OnClose(c)

\* Every call is made and every host has been.
Finished ==
    /\ host = "none" /\ no = MaxHosts
    /\ \A c \in Calls : ~Pending(c)
    /\ UNCHANGED vars

Next ==
    \/ HostStarts \/ HostEnds
    \/ \E c \in Calls : Handler(c) \/ Switches(c) \/ Window(c)
    \/ \E w \in Windows :
        \/ GetSessions(w) \/ WindowCloses(w)
        \/ \E c \in Calls : CtapConnect(w, c)
    \/ Finished

\* Handlers and event loops are scheduled; a version switch may take for ever.
Fairness == \A c \in Calls : WF_vars(Handler(c)) /\ WF_vars(Window(c))

Spec == Init /\ [][Next]_vars
FairSpec == Spec /\ Fairness

-----------------------------------------------------------------------------
\* A window holds a token that the running session no longer takes only if
\* somebody connected to that session from a list of an earlier one: as the
\* extension sends back the commit INFO reported, nothing else can make a
\* session switch under it (extension.ts 67-72, sessionWatcher.ts 29-59,
\* service.go 340-399).
StaleTokenNeedsStaleList ==
    \A w \in Windows \ gone :
        LET c == resolver[w]
        IN  c # None /\ host = "run" /\ to[c] = no /\ given[c] # token =>
                \E d \in Calls : to[d] = no /\ listed[d] # no

\* A call is settled, however long the host takes, unless its connection is
\* closed unanswered: then no listener of ctapConnect hears of it
\* (extension.ts 109-136).
CallSettles == \A c \in Calls :
    promise[c] = "pending" ~> (promise[c] # "pending" \/ sock[c] # "open")

\* A call the window has given up does not keep its window counted as a
\* client, also when it is granted later (extension.ts 132-135, service.go
\* 404-414).
GivenUpReleases == \A c \in Calls, w \in Windows :
    (promise[c] = "rejected" /\ leases[w] = c) ~> (leases[w] # c)

(***************************************************************************)
(* What the documentation says and the code does not do.                   *)
(***************************************************************************)

\* README.md 180: in relay mode the extension sends the client's commit with
\* CONNECT and the version is negotiated from it. It sends the commit the
\* relay reported, which is empty before the first CONNECT, so that the relay
\* refuses the line and never has a version.
FirstConnectNegotiates ==
    \A c \in Calls : host = "relay" /\ to[c] = no /\ reply[c] = "ERR" => commit # None

=============================================================================
