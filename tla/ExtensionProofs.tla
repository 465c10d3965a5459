-------------------------- MODULE ExtensionProofs --------------------------
(***************************************************************************)
(* Proofs about module Extension, for any windows, commits and numbers of  *)
(* calls and hosts. The argument: as long as everybody who connected to    *)
(* the running session had listed that session itself, all of them sent    *)
(* the commit it runs, so that it never switched and gave one token only.  *)
(***************************************************************************)
EXTENDS Extension, FiniteSetTheorems, TLAPS

\* Calls and lists are of hosts that have been; a call not made has nothing.
Past ==
    /\ host # "none" => no > 0
    /\ \A w \in Windows : shown[w] # None => shown[w].no <= no
    /\ \A c \in Calls :
        /\ to[c] <= no
        /\ promise[c] = "free" => to[c] = 0 /\ reply[c] = "none"

\* What a window keeps is a token it was given; who waits has no answer yet.
Answered ==
    /\ \A w \in Windows : resolver[w] # None => reply[resolver[w]] = "OK"
    /\ switching # None => reply[switching] = "none" /\ promise[switching] # "free"

\* Everybody who reached the running session had listed it.
UpToDate == \A d \in Calls : to[d] = no => listed[d] = no

\* It then runs what they were told, and gives one token.
OneVersion ==
    host = "run" /\ UpToDate =>
        /\ switching = None
        /\ \A w \in Windows : shown[w] # None /\ shown[w].no = no => shown[w].commit = commit
        /\ \A c \in Calls : to[c] = no =>
            asked[c] = commit /\ (reply[c] = "OK" => given[c] = token)

\* TypeOK, without the bound that MaxHosts and MaxCalls put on tokens.
HostTypes ==
    /\ host \in {"none", "run", "relay"} /\ no \in Nat
    /\ commit \in Commits \cup {None} /\ token \in Nat
    /\ switching \in MaybeCalls
CallTypes ==
    /\ shown \in [Windows -> [no : Nat, commit : Commits \cup {None}] \cup {None}]
    /\ by \in [Calls -> Windows \cup {None}] /\ listed \in [Calls -> Nat]
    /\ asked \in [Calls -> Commits \cup {None}] /\ to \in [Calls -> Nat]
AnswerTypes ==
    /\ reply \in [Calls -> {"none", "OK", "ERR"}]
    /\ given \in [Calls -> Nat]
    /\ promise \in [Calls -> {"free", "pending", "resolved", "rejected"}]
    /\ resolver \in [Windows -> MaybeCalls]

\* The rest of TypeOK: leases and connections, and how high the numbers get.
\* A session begins with a new token, and a switch gives one to a call that
\* was not answered before.
Granted == {c \in Calls : reply[c] = "OK"}
LeaseTypes ==
    /\ leases \in [Windows -> MaybeCalls] /\ gone \subseteq Windows
    /\ sock \in [Calls -> {"none", "open", "closed", "destroyed"}]
Counted ==
    /\ no <= MaxHosts /\ token <= no + Cardinality(Granted)
    /\ \A c \in Calls : listed[c] <= no /\ given[c] <= token

IInv == HostTypes /\ CallTypes /\ AnswerTypes /\ Past /\ Answered /\ OneVersion

-----------------------------------------------------------------------------
\* Next, action by action.
LEMMA Steps ==
    ASSUME [Next]_vars
    PROVE  \/ HostStarts \/ HostEnds
           \/ \E c \in Calls :
                \/ RefuseSyntax(c) \/ RunGrants(c) \/ RunRefuses(c) \/ RunReserves(c)
                \/ Switches(c) \/ RelayGrants(c) \/ RelayRefuses(c) \/ LeaseEnds(c)
                \/ OnOK(c) \/ OnERR(c) \/ OnTimeout(c) \/ OnClose(c)
           \/ \E w \in Windows : GetSessions(w) \/ WindowCloses(w)
           \/ \E w \in Windows, c \in Calls : CtapConnect(w, c)
           \/ UNCHANGED vars
  BY DEF Next, Handler, Window, Finished

\* Numbers.
LEMMA Numbers ==
    /\ \A c \in Calls : c \in Nat
    /\ None \notin Calls /\ None \notin Windows /\ None \notin Commits /\ None \notin Nat
  BY BoundAssumption DEF Calls

\* Hosts come and go.
LEMMA HostKeeps == ASSUME IInv, HostStarts \/ HostEnds PROVE IInv'
<1> USE Numbers DEF IInv, HostTypes, CallTypes, AnswerTypes, MaybeCalls, callVars
<1>1. CASE HostStarts
  <2>1. HostTypes' /\ CallTypes' /\ AnswerTypes' /\ Past' /\ Answered'
    BY <1>1 DEF HostStarts, Past, Answered
  <2>2. OneVersion'
    BY <1>1 DEF HostStarts, OneVersion, Past
  <2> QED
    BY <2>1, <2>2
<1>2. CASE HostEnds
  <2>1. HostTypes' /\ CallTypes' /\ AnswerTypes'
    BY <1>2 DEF HostEnds
  <2>2. /\ host' = "none" /\ switching' = None
        /\ UNCHANGED <<no, shown, callVars, given, promise, resolver>>
        /\ \A c \in Calls : reply'[c] = reply[c] \/ (c = switching /\ reply'[c] = "ERR")
    BY <1>2 DEF HostEnds
  <2>3. \A c \in Calls : c = switching => reply[c] = "none" /\ promise[c] # "free"
    BY DEF Answered
  <2>4. \A c \in Calls : promise'[c] = "free" => to'[c] = 0 /\ reply'[c] = "none"
    BY <2>2, <2>3 DEF Past
  <2>5. Past'
    BY <2>2, <2>4 DEF Past
  <2>6. \A w \in Windows : resolver[w] # None => resolver[w] \in Calls
    OBVIOUS
  <2>7. Answered'
    BY <2>2, <2>3, <2>6 DEF Answered
  <2>8. OneVersion'
    BY <2>2 DEF OneVersion
  <2> QED
    BY <2>1, <2>5, <2>7, <2>8
<1> QED
  BY <1>1, <1>2

\* A host answers a call, or takes time to.
LEMMA HandlerKeeps ==
    ASSUME IInv, NEW c \in Calls,
           \/ RefuseSyntax(c) \/ RunGrants(c) \/ RunRefuses(c) \/ RunReserves(c)
           \/ Switches(c) \/ RelayGrants(c) \/ RelayRefuses(c) \/ LeaseEnds(c)
    PROVE  IInv'
<1> USE Numbers DEF IInv, HostTypes, CallTypes, AnswerTypes, MaybeCalls, callVars, hostVars,
        Connected, Handled, Gives, Refuses, Answers, Past, Answered
<1>1. CASE RefuseSyntax(c) \/ RunRefuses(c) \/ RelayRefuses(c)
  <2>1. reply' = [reply EXCEPT ![c] = "ERR"] /\ reply[c] = "none" /\ c # switching
        /\ UNCHANGED <<given, host, no, commit, token, switching>>
        /\ UNCHANGED <<shown, callVars, promise, resolver>>
        /\ to[c] = no /\ host # "none"
    BY <1>1 DEF RefuseSyntax, RunRefuses, RelayRefuses
  <2> QED
    BY <2>1 DEF OneVersion, UpToDate
<1>2. CASE RunGrants(c)
  <2>1. reply' = [reply EXCEPT ![c] = "OK"] /\ given' = [given EXCEPT ![c] = token]
        /\ reply[c] = "none" /\ c # switching /\ to[c] = no /\ host # "none"
        /\ UNCHANGED <<host, no, commit, token, switching>>
        /\ UNCHANGED <<shown, callVars, promise, resolver>>
    BY <1>2 DEF RunGrants
  <2> QED
    BY <2>1 DEF OneVersion, UpToDate
<1>3. CASE RunReserves(c)
  <2>1. switching' = c /\ reply[c] = "none" /\ to[c] = no /\ asked[c] # commit /\ host = "run"
        /\ UNCHANGED <<host, no, commit, token>>
        /\ UNCHANGED <<shown, callVars, promise, resolver, reply, given>>
    BY <1>3 DEF RunReserves, SameVersion
  <2>2. ~UpToDate
    BY <2>1 DEF OneVersion
  <2>3. promise[c] # "free"
    BY <2>1
  <2> QED
    BY <2>1, <2>2, <2>3 DEF OneVersion, UpToDate
<1>4. CASE Switches(c)
  <2>1. reply' = [reply EXCEPT ![c] = "OK"] /\ given' = [given EXCEPT ![c] = token + 1]
        /\ switching = c /\ reply[c] = "none" /\ switching' = None
        /\ commit' = asked[c] /\ token' = token + 1
        /\ UNCHANGED <<host, no, shown, callVars, promise, resolver>>
    BY <1>4 DEF Switches
  <2>2. host = "run" => ~UpToDate
    BY <2>1 DEF OneVersion
  <2>3. promise[c] # "free"
    BY <2>1
  <2> QED
    BY <2>1, <2>2, <2>3 DEF OneVersion, UpToDate
<1>5. CASE RelayGrants(c)
  <2>1. reply' = [reply EXCEPT ![c] = "OK"] /\ given' = [given EXCEPT ![c] = 0]
        /\ reply[c] = "none" /\ c # switching /\ to[c] = no /\ commit' = asked[c]
        /\ host = "relay"
        /\ UNCHANGED <<host, no, token, switching, shown, callVars, promise, resolver>>
    BY <1>5 DEF RelayGrants
  <2> QED
    BY <2>1 DEF OneVersion, UpToDate
<1>6. CASE LeaseEnds(c)
  BY <1>6 DEF LeaseEnds, OneVersion, UpToDate
<1> QED
  BY <1>1, <1>2, <1>3, <1>4, <1>5, <1>6

\* A window learns the outcome of a call.
LEMMA WindowKeeps ==
    ASSUME IInv, NEW c \in Calls, OnOK(c) \/ OnERR(c) \/ OnTimeout(c) \/ OnClose(c)
    PROVE  IInv'
<1>1. /\ UNCHANGED <<hostVars, shown, callVars, reply, given>>
      /\ promise' \in [Calls -> {"free", "pending", "resolved", "rejected"}]
      /\ \A d \in Calls : promise'[d] = "free" => promise[d] = "free"
      /\ UNCHANGED resolver \/ (resolver' = [resolver EXCEPT ![by[c]] = c] /\ reply[c] = "OK")
  BY DEF OnOK, OnERR, OnTimeout, OnClose, Pending, IInv, AnswerTypes
<1> QED
  BY <1>1, Numbers DEF IInv, HostTypes, CallTypes, AnswerTypes, MaybeCalls, callVars, hostVars,
     Past, Answered, OneVersion, UpToDate

\* A window lists the sessions, or is closed.
LEMMA ListKeeps ==
    ASSUME IInv, NEW w \in Windows, GetSessions(w) \/ WindowCloses(w) PROVE IInv'
<1>1. /\ UNCHANGED <<hostVars, callVars, reply, given, promise, resolver>>
      /\ \/ shown' = [shown EXCEPT ![w] = [no |-> no, commit |-> commit]]
         \/ shown' = [shown EXCEPT ![w] = None]
  BY DEF GetSessions, WindowCloses
<1> QED
  BY <1>1, Numbers DEF IInv, HostTypes, CallTypes, AnswerTypes, MaybeCalls, callVars, hostVars,
     Past, Answered, OneVersion, UpToDate

\* A window calls a session it has listed.
LEMMA CallKeeps ==
    ASSUME IInv, NEW w \in Windows, NEW c \in Calls, CtapConnect(w, c) PROVE IInv'
<1> USE Numbers DEF IInv, HostTypes, CallTypes, AnswerTypes, MaybeCalls, hostVars
<1>1. /\ shown[w] # None /\ promise[c] = "free"
      /\ by' = [by EXCEPT ![c] = w] /\ listed' = [listed EXCEPT ![c] = shown[w].no]
      /\ asked' = [asked EXCEPT ![c] = shown[w].commit]
      /\ UNCHANGED <<hostVars, shown, reply, given, resolver>>
      /\ \E s \in {"pending", "rejected"} : promise' = [promise EXCEPT ![c] = s]
      /\ \/ host = "none" /\ to' = to
         \/ host # "none" /\ to' = [to EXCEPT ![c] = no]
  BY DEF CtapConnect, Sent
<1>2. to[c] = 0 /\ reply[c] = "none" /\ shown[w].no \in Nat
  BY <1>1 DEF Past
<1>3. HostTypes' /\ CallTypes' /\ AnswerTypes'
  BY <1>1, <1>2
<1>4. Past' /\ Answered'
  BY <1>1, <1>2 DEF Past, Answered
<1>5. OneVersion'
  <2> SUFFICES ASSUME host = "run", UpToDate' PROVE OneVersion'
    BY <1>1 DEF OneVersion
  <2>1. UpToDate
    BY <1>1, <1>2 DEF UpToDate, Past
  <2>2. shown[w].no = no
    BY <1>1 DEF UpToDate
  <2> QED
    BY <1>1, <1>2, <2>1, <2>2 DEF OneVersion
<1> QED
  BY <1>3, <1>4, <1>5

\* IInv is inductive.
LEMMA Invariant == Spec => []IInv
<1>1. Init => IInv
  <2> SUFFICES ASSUME Init PROVE IInv
    OBVIOUS
  <2>1. shown \in [Windows -> [no : {0}, commit : Commits] \cup {None}]
    BY BoundAssumption DEF Init
  <2> QED
    BY <2>1, Numbers DEF Init, IInv, HostTypes, CallTypes, AnswerTypes, MaybeCalls, Past,
       Answered, OneVersion
<1>2. IInv /\ [Next]_vars => IInv'
  <2> SUFFICES ASSUME IInv, [Next]_vars PROVE IInv'
    OBVIOUS
  <2>1. CASE UNCHANGED vars
    BY <2>1 DEF vars, hostVars, callVars, IInv, HostTypes, CallTypes, AnswerTypes, MaybeCalls,
       Past, Answered, OneVersion, UpToDate
  <2> QED
    BY <2>1, Steps, HostKeeps, HandlerKeeps, WindowKeeps, ListKeeps, CallKeeps
<1> QED
  BY <1>1, <1>2, PTL DEF Spec

-----------------------------------------------------------------------------
\* A window's token goes stale under a running session only when somebody
\* connected to that session from a list of an earlier one (extension.ts
\* 67-72, sessionWatcher.ts 29-59, service.go 340-399).
THEOREM StaleTokenNeedsStaleListHolds == Spec => []StaleTokenNeedsStaleList
<1>1. IInv => StaleTokenNeedsStaleList
  BY DEF IInv, AnswerTypes, MaybeCalls, Answered, OneVersion, UpToDate, StaleTokenNeedsStaleList
<1> QED
  BY <1>1, Invariant, PTL

-----------------------------------------------------------------------------
\* Calls that were granted.
LEMMA GrantedSize ==
    /\ IsFiniteSet(Granted) /\ Cardinality(Granted) \in 0 .. MaxCalls
    /\ IsFiniteSet(Granted') /\ Cardinality(Granted') \in 0 .. MaxCalls
<1>1. IsFiniteSet(Calls) /\ Cardinality(Calls) = MaxCalls
  BY BoundAssumption, FS_Interval DEF Calls
<1>2. ASSUME NEW S \in SUBSET Calls
      PROVE  IsFiniteSet(S) /\ Cardinality(S) \in 0 .. MaxCalls
  BY <1>1, FS_Subset, FS_CardinalityType, BoundAssumption
<1>3. Granted \in SUBSET Calls /\ Granted' \in SUBSET Calls
  BY DEF Granted
<1> QED
  BY <1>2, <1>3

\* An answer stays, and a call answered OK now was not counted before.
LEMMA GrantedGrows ==
    ASSUME AnswerTypes, NEW c \in Calls, NEW r \in {"OK", "ERR"},
           reply[c] = "none", reply' = [reply EXCEPT ![c] = r]
    PROVE  /\ Cardinality(Granted) <= Cardinality(Granted')
           /\ r = "OK" => Cardinality(Granted) + 1 <= Cardinality(Granted')
<1>1. Granted \subseteq Granted' /\ c \notin Granted
  BY DEF Granted, AnswerTypes
<1>2. Cardinality(Granted) <= Cardinality(Granted')
  BY <1>1, GrantedSize, FS_Subset
<1>3. ASSUME r = "OK" PROVE Cardinality(Granted) + 1 <= Cardinality(Granted')
  <2>1. Granted \cup {c} \subseteq Granted'
    BY <1>1, <1>3 DEF Granted, AnswerTypes
  <2>2. Cardinality(Granted \cup {c}) = Cardinality(Granted) + 1
    BY <1>1, GrantedSize, FS_AddElement
  <2> QED
    BY <2>1, <2>2, GrantedSize, FS_Subset
<1> QED
  BY <1>2, <1>3

\* Leases are of calls.
LEMMA LeaseTypesNext ==
    ASSUME IInv, LeaseTypes, [Next]_vars PROVE LeaseTypes'
<1> USE Numbers DEF LeaseTypes, MaybeCalls
<1>1. CASE HostStarts \/ HostEnds
  BY <1>1 DEF HostStarts, HostEnds, NoLeases
<1>2. ASSUME NEW c \in Calls,
             \/ RefuseSyntax(c) \/ RunGrants(c) \/ RunRefuses(c) \/ RunReserves(c)
             \/ Switches(c) \/ RelayGrants(c) \/ RelayRefuses(c) \/ LeaseEnds(c)
      PROVE  LeaseTypes'
  BY <1>2 DEF RefuseSyntax, RunGrants, RunRefuses, RunReserves, Switches, RelayGrants,
     RelayRefuses, LeaseEnds, Closed, hostVars
<1>3. ASSUME NEW c \in Calls, OnOK(c) \/ OnERR(c) \/ OnTimeout(c) \/ OnClose(c)
      PROVE  LeaseTypes'
  BY <1>3 DEF OnOK, OnERR, OnTimeout, OnClose, Destroyed, hostVars
<1>4. ASSUME NEW w \in Windows, GetSessions(w) \/ WindowCloses(w) PROVE LeaseTypes'
  BY <1>4 DEF GetSessions, WindowCloses, hostVars
<1>5. ASSUME NEW w \in Windows, NEW c \in Calls, CtapConnect(w, c) PROVE LeaseTypes'
  BY <1>5 DEF CtapConnect, hostVars
<1>6. CASE UNCHANGED vars
  BY <1>6 DEF vars, hostVars
<1> QED
  BY <1>1, <1>2, <1>3, <1>4, <1>5, <1>6, Steps

\* Each new token is of another host or another call.
LEMMA CountedNext ==
    ASSUME IInv, Counted, [Next]_vars PROVE Counted'
<1>a. HostTypes /\ CallTypes /\ AnswerTypes /\ Past /\ Answered
  BY DEF IInv
<1>b. Cardinality(Granted) \in Nat /\ Cardinality(Granted') \in Nat
  BY GrantedSize, BoundAssumption
<1>c. reply' = reply => Granted' = Granted
  BY DEF Granted
<1> USE <1>a, <1>b, Numbers, BoundAssumption DEF HostTypes, CallTypes, AnswerTypes, MaybeCalls
<1>1. CASE HostStarts
  <2>1. no' = no + 1 /\ no < MaxHosts /\ token' <= token + 1 /\ token <= token' /\ reply' = reply
        /\ UNCHANGED <<listed, given>>
    BY <1>1 DEF HostStarts, callVars
  <2>2. token' \in Nat
    BY <1>1 DEF HostStarts
  <2> QED
    BY <1>c, <2>1, <2>2 DEF Counted
<1>2. CASE HostEnds
  <2>1. UNCHANGED <<no, token, listed, given>>
    BY <1>2 DEF HostEnds, callVars
  <2>2. reply' = reply \/ reply' = [c \in Calls |-> IF c = switching THEN "ERR" ELSE reply[c]]
    BY <1>2 DEF HostEnds
  <2>3. Granted' = Granted
    BY <2>2 DEF Granted, Answered
  <2> QED
    BY <2>1, <2>3 DEF Counted
<1>3. ASSUME NEW c \in Calls,
             RefuseSyntax(c) \/ RunGrants(c) \/ RunRefuses(c) \/ RelayGrants(c) \/ RelayRefuses(c)
      PROVE  Counted'
  <2>1. /\ reply[c] = "none" /\ UNCHANGED <<no, token, listed>>
        /\ \E r \in {"OK", "ERR"} : reply' = [reply EXCEPT ![c] = r]
        /\ \/ given' = given \/ given' = [given EXCEPT ![c] = token]
           \/ given' = [given EXCEPT ![c] = 0]
    BY <1>3 DEF RefuseSyntax, RunGrants, RunRefuses, RelayGrants, RelayRefuses, Connected, Handled,
       Gives, Refuses, Answers, hostVars, callVars
  <2>2. Cardinality(Granted) <= Cardinality(Granted')
    BY <2>1, GrantedGrows
  <2>3. \A d \in Calls : given'[d] <= token
    BY <2>1 DEF Counted
  <2> QED
    BY <2>1, <2>2, <2>3 DEF Counted
<1>4. ASSUME NEW c \in Calls, Switches(c) PROVE Counted'
  <2>1. /\ token' = token + 1 /\ UNCHANGED <<no, listed>> /\ c = switching
        /\ reply' = [reply EXCEPT ![c] = "OK"] /\ given' = [given EXCEPT ![c] = token + 1]
    BY <1>4 DEF Switches, Gives, Answers, callVars
  <2>2. reply[c] = "none"
    BY <2>1 DEF Answered
  <2>3. Cardinality(Granted) + 1 <= Cardinality(Granted')
    BY <2>1, <2>2, GrantedGrows
  <2>4. \A d \in Calls : given'[d] <= token + 1
    BY <2>1 DEF Counted
  <2> QED
    BY <2>1, <2>3, <2>4 DEF Counted
<1>5. ASSUME NEW w \in Windows, NEW c \in Calls, CtapConnect(w, c) PROVE Counted'
  <2>1. /\ shown[w] # None /\ listed' = [listed EXCEPT ![c] = shown[w].no]
        /\ UNCHANGED <<no, token, reply, given>>
    BY <1>5 DEF CtapConnect, hostVars
  <2>2. shown[w].no <= no
    BY <2>1 DEF Past
  <2> QED
    BY <1>c, <2>1, <2>2 DEF Counted
<1>6. ASSUME UNCHANGED <<no, token, listed, given, reply>> PROVE Counted'
  BY <1>c, <1>6 DEF Counted
<1>7. ASSUME NEW c \in Calls, RunReserves(c) \/ LeaseEnds(c) \/ OnOK(c) \/ OnERR(c)
                              \/ OnTimeout(c) \/ OnClose(c)
      PROVE  UNCHANGED <<no, token, listed, given, reply>>
  BY <1>7 DEF RunReserves, LeaseEnds, OnOK, OnERR, OnTimeout, OnClose, hostVars, callVars
<1>8. ASSUME NEW w \in Windows, GetSessions(w) \/ WindowCloses(w)
      PROVE  UNCHANGED <<no, token, listed, given, reply>>
  BY <1>8 DEF GetSessions, WindowCloses, hostVars, callVars
<1>9. CASE UNCHANGED vars
  BY <1>6, <1>9 DEF vars, hostVars, callVars
<1> QED
  BY <1>1, <1>2, <1>3, <1>4, <1>5, <1>6, <1>7, <1>8, <1>9, Steps

\* Types of hosts, windows and calls, and what bounds the tokens: a session
\* has a new one at its start and for each version switch it makes for a call
\* (service.go 123-134 and 384-402).
THEOREM TypesHold == Spec => []TypeOK
<1>1. Init => LeaseTypes /\ Counted
  <2> SUFFICES ASSUME Init PROVE LeaseTypes /\ Counted
    OBVIOUS
  <2>1. LeaseTypes
    BY DEF Init, LeaseTypes, MaybeCalls
  <2>2. Cardinality(Granted) \in Nat
    BY GrantedSize, BoundAssumption
  <2> QED
    BY <2>1, <2>2, BoundAssumption DEF Init, Counted
<1>2. IInv /\ LeaseTypes /\ Counted /\ [Next]_vars => LeaseTypes' /\ Counted'
  BY LeaseTypesNext, CountedNext
<1>3. ASSUME IInv, LeaseTypes, Counted PROVE TypeOK
  <2>1. Cardinality(Granted) \in 0 .. MaxCalls
    BY GrantedSize
  <2>2. no \in 0 .. MaxHosts /\ token \in 0 .. MaxHosts + MaxCalls
    BY <1>3, <2>1, BoundAssumption DEF IInv, HostTypes, Counted
  <2>3. \A c \in Calls : /\ to[c] \in 0 .. MaxHosts /\ listed[c] \in 0 .. MaxHosts
                          /\ given[c] \in 0 .. MaxHosts + MaxCalls
    BY <1>3, <2>2, BoundAssumption DEF IInv, HostTypes, CallTypes, AnswerTypes, Past, Counted
  <2>4. \A w \in Windows : shown[w] # None =>
            shown[w] \in [no : 0 .. MaxHosts, commit : Commits \cup {None}]
    BY <1>3, <2>2, BoundAssumption DEF IInv, HostTypes, CallTypes, Past
  <2>5. /\ to \in [Calls -> 0 .. MaxHosts] /\ listed \in [Calls -> 0 .. MaxHosts]
        /\ given \in [Calls -> 0 .. MaxHosts + MaxCalls]
    BY <1>3, <2>3 DEF IInv, CallTypes, AnswerTypes
  <2>6. shown \in [Windows -> [no : 0 .. MaxHosts, commit : Commits \cup {None}] \cup {None}]
    BY <1>3, <2>4 DEF IInv, CallTypes
  <2> QED
    BY <1>3, <2>2, <2>5, <2>6 DEF IInv, HostTypes, CallTypes, AnswerTypes, LeaseTypes, TypeOK
<1> QED
  BY <1>1, <1>2, <1>3, Invariant, PTL DEF Spec

=============================================================================
