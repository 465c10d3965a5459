-------------------------- MODULE ProvisionProofs --------------------------
(***************************************************************************)
(* Safety of Provision for any number of processes and commits, and that   *)
(* it implements Install.                                                  *)
(***************************************************************************)
EXTENDS Provision, TLAPS

Unpacking == {"wait", "check", "install"}

\* The commit of a call is one its settings resolve to.
Asked(p) ==
    /\ pc[p] \in {"idle", "unresolved"} => commit[p] = None
    /\ pc[p] \notin {"idle", "unresolved"} =>
        commit[p] \in Commits /\ commit[p] \in DirectCommit(setting[p])

\* A process has a temporary file exactly while it downloads.
Downloading(p) ==
    /\ pc[p] \notin {"copy", "rename", "killed"} => part[p] = None
    /\ pc[p] \in {"copy", "rename"} => part[p] # None /\ part[p].of = commit[p]
    /\ pc[p] = "rename" => part[p].kind # "cut"
    /\ pc[p] \in {"extract", "mkdir"} => cache[commit[p]] # None

\* A process has a temporary directory exactly while it extracts, and what is
\* in it is what tar has made of the tarball it opened.
Extracting(p) ==
    /\ pc[p] \notin Unpacking \cup {"killed"} => tree[p] = None
    /\ pc[p] \in Unpacking => tree[p] # None /\ tree[p].of = commit[p]
    /\ tar[p] # "none" =>
        input[p] # None /\ input[p].of = commit[p] /\ input[p].kind # "cut" /\ commit[p] \in Commits
    /\ tar[p] = "running" => pc[p] \in {"wait", "killed"}
    /\ pc[p] \in Unpacking => tar[p] # "none"
    /\ pc[p] = "wait" /\ tar[p] = "ok" =>
        tree[p].kind = (IF input[p].kind = "good" THEN "whole" ELSE "other")
    /\ tar[p] = "ok" => input[p].kind # "corrupt"
    /\ tar[p] = "failed" => input[p].kind = "corrupt"
    /\ pc[p] \in {"check", "install"} => tar[p] = "ok"
    /\ pc[p] = "check" =>
        tree[p].kind = (IF input[p].kind = "good" THEN "whole" ELSE "other")
    /\ pc[p] = "install" => tree[p].kind = "whole"

\* A tree that is in the repository is the commit's own and complete.
TargetWhole ==
    \A c \in Commits : target[c] # None => target[c] = [of |-> c, kind |-> "whole"]

\* How a call ended.
Outcome(p) ==
    /\ pc[p] = "tarError" => input[p] # None /\ (input[p].kind = "corrupt" \/ tar[p] = "noSpace" \/ p \in reaped)
    /\ pc[p] = "corrupt" => input[p] # None /\ input[p].kind = "other"
    /\ pc[p] \in {"ok", "lost"} => target[commit[p]] # None

Inv ==
    /\ TypeOK
    /\ CacheWhole
    /\ TargetWhole
    /\ \A p \in Procs : Asked(p) /\ Downloading(p) /\ Extracting(p) /\ Outcome(p)

\* What the chain can yield is a commit or an error.
LEMMA DirectCommitType ==
    ASSUME NEW s \in Settings, NEW c \in DirectCommit(s), c # Error
    PROVE  c \in Commits
  <1>1. \A t \in Texts : Resolve(t) \subseteq Commits \cup {None, Error}
    BY CommitAssumption, TextAssumption DEF Resolve, FetchCommit, Texts, Trimmed, Unset, Blank, Latest, Junk, Error
  <1>2. ResolveCommit(s) \in Texts
    BY DEF ResolveCommit, Trimmed, Texts, Settings, Unset, Blank, Latest, Junk
  <1>3. Resolve(Latest) = {Error} \cup Commits
    BY CommitAssumption, TextAssumption DEF Resolve, FetchCommit, Trimmed, Unset, Blank, Latest, Junk, Error
  <1>4. LocalCommit(s) \subseteq Commits \cup {None, Error}
    BY <1>1, <1>2 DEF LocalCommit, Settings
  <1>5. QED
    BY <1>3, <1>4 DEF DirectCommit
LEMMA InvInit == Init => Inv
  BY CommitAssumption, SettingsAssumption
  DEF Init, Inv, TypeOK, CacheWhole, TargetWhole, Asked, Downloading, Extracting, Outcome, Nobody, Unpacking

\* Every step keeps the invariant.
LEMMA InvStep == Inv /\ [Next]_vars => Inv'
  <1> SUFFICES ASSUME Inv, [Next]_vars PROVE Inv'
    OBVIOUS
  <1> USE NoneAssumption, CommitAssumption DEF Inv, Goto, callVars, tarVars
  <1> USE DEF Working, Ends, Failures, Exits, Tarballs, Trees, Unpacking
  <1>1. ASSUME NEW p \in Procs, Start(p) PROVE Inv'
    <2>1. TypeOK'
      BY <1>1, DirectCommitType, SettingsAssumption DEF Start, TypeOK, Asked
    <2>2. CacheWhole' /\ TargetWhole'
      BY <1>1 DEF Start, TypeOK, CacheWhole, TargetWhole, Asked, Downloading, Extracting
    <2>3. ASSUME NEW q \in Procs PROVE Asked(q)' /\ Downloading(q)'
      BY <1>1, DirectCommitType, SettingsAssumption DEF Start, TypeOK, Asked, Downloading
    <2>4. ASSUME NEW q \in Procs PROVE Extracting(q)'
      BY <1>1 DEF Start, TypeOK, CacheWhole, Asked, Downloading, Extracting
    <2>5. ASSUME NEW q \in Procs PROVE Outcome(q)'
      BY <1>1 DEF Start, TypeOK, Asked, Extracting, Outcome
    <2>6. QED
      BY <2>1, <2>2, <2>3, <2>4, <2>5
  <1>2. ASSUME NEW p \in Procs, IsProvisioned(p) PROVE Inv'
    <2>1. TypeOK'
      BY <1>2 DEF IsProvisioned, TypeOK, Asked, Provisioned
    <2>2. CacheWhole' /\ TargetWhole'
      BY <1>2 DEF IsProvisioned, TypeOK, CacheWhole, TargetWhole, Asked, Downloading, Extracting, Provisioned
    <2>3. ASSUME NEW q \in Procs PROVE Asked(q)' /\ Downloading(q)'
      BY <1>2 DEF IsProvisioned, TypeOK, Asked, Downloading, Provisioned
    <2>4. ASSUME NEW q \in Procs PROVE Extracting(q)'
      BY <1>2 DEF IsProvisioned, TypeOK, CacheWhole, Asked, Downloading, Extracting, Provisioned
    <2>5. ASSUME NEW q \in Procs PROVE Outcome(q)'
      BY <1>2 DEF IsProvisioned, TypeOK, Asked, Extracting, Outcome, Provisioned
    <2>6. QED
      BY <2>1, <2>2, <2>3, <2>4, <2>5
  <1>3. ASSUME NEW p \in Procs, DownloadStat(p) PROVE Inv'
    <2>1. TypeOK'
      BY <1>3 DEF DownloadStat, TypeOK, Asked
    <2>2. CacheWhole' /\ TargetWhole'
      BY <1>3 DEF DownloadStat, TypeOK, CacheWhole, TargetWhole, Asked, Downloading, Extracting
    <2>3. ASSUME NEW q \in Procs PROVE Asked(q)' /\ Downloading(q)'
      BY <1>3 DEF DownloadStat, TypeOK, Asked, Downloading
    <2>4. ASSUME NEW q \in Procs PROVE Extracting(q)'
      BY <1>3 DEF DownloadStat, TypeOK, CacheWhole, Asked, Downloading, Extracting
    <2>5. ASSUME NEW q \in Procs PROVE Outcome(q)'
      BY <1>3 DEF DownloadStat, TypeOK, Asked, Extracting, Outcome
    <2>6. QED
      BY <2>1, <2>2, <2>3, <2>4, <2>5
  <1>4. ASSUME NEW p \in Procs, DownloadGet(p) PROVE Inv'
    <2>1. TypeOK'
      <3>1. [of |-> commit[p], kind |-> "cut"] \in Tarballs
        BY <1>4 DEF DownloadGet, TypeOK, Asked, Downloading
      <3>2. part' \in [Procs -> Tarballs \cup {None}]
        BY <1>4, <3>1 DEF DownloadGet, TypeOK
      <3>3. QED
        BY <1>4, <3>2 DEF DownloadGet, TypeOK
    <2>2. CacheWhole' /\ TargetWhole'
      BY <1>4 DEF DownloadGet, TypeOK, CacheWhole, TargetWhole, Asked, Downloading, Extracting
    <2>3. ASSUME NEW q \in Procs PROVE Asked(q)' /\ Downloading(q)'
      BY <1>4 DEF DownloadGet, TypeOK, Asked, Downloading
    <2>4. ASSUME NEW q \in Procs PROVE Extracting(q)'
      BY <1>4 DEF DownloadGet, TypeOK, CacheWhole, Asked, Downloading, Extracting
    <2>5. ASSUME NEW q \in Procs PROVE Outcome(q)'
      BY <1>4 DEF DownloadGet, TypeOK, Asked, Extracting, Outcome
    <2>6. QED
      BY <2>1, <2>2, <2>3, <2>4, <2>5
  <1>5. ASSUME NEW p \in Procs, DownloadCopy(p) PROVE Inv'
    <2>1. TypeOK'
      <3>1. \A k \in {"good", "corrupt", "other"} : [of |-> commit[p], kind |-> k] \in Tarballs
        BY <1>5 DEF DownloadCopy, TypeOK, Asked, Downloading
      <3>2. part' \in [Procs -> Tarballs \cup {None}]
        BY <1>5, <3>1 DEF DownloadCopy, TypeOK
      <3>3. QED
        BY <1>5, <3>2 DEF DownloadCopy, TypeOK
    <2>2. CacheWhole' /\ TargetWhole'
      BY <1>5 DEF DownloadCopy, TypeOK, CacheWhole, TargetWhole, Asked, Downloading, Extracting
    <2>3. ASSUME NEW q \in Procs PROVE Asked(q)' /\ Downloading(q)'
      BY <1>5 DEF DownloadCopy, TypeOK, Asked, Downloading
    <2>4. ASSUME NEW q \in Procs PROVE Extracting(q)'
      BY <1>5 DEF DownloadCopy, TypeOK, CacheWhole, Asked, Downloading, Extracting
    <2>5. ASSUME NEW q \in Procs PROVE Outcome(q)'
      BY <1>5 DEF DownloadCopy, TypeOK, Asked, Extracting, Outcome
    <2>6. QED
      BY <2>1, <2>2, <2>3, <2>4, <2>5
  <1>6. ASSUME NEW p \in Procs, DownloadRename(p) PROVE Inv'
    <2>1. TypeOK'
      BY <1>6 DEF DownloadRename, TypeOK, Asked
    <2>2. CacheWhole' /\ TargetWhole'
      BY <1>6 DEF DownloadRename, TypeOK, CacheWhole, TargetWhole, Asked, Downloading, Extracting
    <2>3. ASSUME NEW q \in Procs PROVE Asked(q)' /\ Downloading(q)'
      BY <1>6 DEF DownloadRename, TypeOK, Asked, Downloading
    <2>4. ASSUME NEW q \in Procs PROVE Extracting(q)'
      BY <1>6 DEF DownloadRename, TypeOK, CacheWhole, Asked, Downloading, Extracting
    <2>5. ASSUME NEW q \in Procs PROVE Outcome(q)'
      BY <1>6 DEF DownloadRename, TypeOK, Asked, Extracting, Outcome
    <2>6. QED
      BY <2>1, <2>2, <2>3, <2>4, <2>5
  <1>7. ASSUME NEW p \in Procs, ExtractStat(p) PROVE Inv'
    <2>1. TypeOK'
      BY <1>7 DEF ExtractStat, TypeOK, Asked, Provisioned
    <2>2. CacheWhole' /\ TargetWhole'
      BY <1>7 DEF ExtractStat, TypeOK, CacheWhole, TargetWhole, Asked, Downloading, Extracting, Provisioned
    <2>3. ASSUME NEW q \in Procs PROVE Asked(q)' /\ Downloading(q)'
      BY <1>7 DEF ExtractStat, TypeOK, Asked, Downloading, Provisioned
    <2>4. ASSUME NEW q \in Procs PROVE Extracting(q)'
      BY <1>7 DEF ExtractStat, TypeOK, CacheWhole, Asked, Downloading, Extracting, Provisioned
    <2>5. ASSUME NEW q \in Procs PROVE Outcome(q)'
      BY <1>7 DEF ExtractStat, TypeOK, Asked, Extracting, Outcome, Provisioned
    <2>6. QED
      BY <2>1, <2>2, <2>3, <2>4, <2>5
  <1>8. ASSUME NEW p \in Procs, StartTar(p) PROVE Inv'
    <2>1. TypeOK'
      <3>1. [of |-> commit[p], kind |-> "unfinished"] \in Trees /\ cache[commit[p]] \in Tarballs \cup {None}
        BY <1>8 DEF StartTar, TypeOK, Asked, Downloading
      <3>2. tree' \in [Procs -> Trees \cup {None}] /\ input' \in [Procs -> Tarballs \cup {None}]
        BY <1>8, <3>1 DEF StartTar, TypeOK
      <3>3. QED
        BY <1>8, <3>2 DEF StartTar, TypeOK
    <2>2. CacheWhole' /\ TargetWhole'
      BY <1>8 DEF StartTar, TypeOK, CacheWhole, TargetWhole, Asked, Downloading, Extracting
    <2>3. ASSUME NEW q \in Procs PROVE Asked(q)' /\ Downloading(q)'
      BY <1>8 DEF StartTar, TypeOK, Asked, Downloading
    <2>4. ASSUME NEW q \in Procs PROVE Extracting(q)'
      BY <1>8 DEF StartTar, TypeOK, CacheWhole, Asked, Downloading, Extracting
    <2>5. ASSUME NEW q \in Procs PROVE Outcome(q)'
      BY <1>8 DEF StartTar, TypeOK, Asked, Extracting, Outcome
    <2>6. QED
      BY <2>1, <2>2, <2>3, <2>4, <2>5
  <1>9. ASSUME NEW p \in Procs, TarDone(p) PROVE Inv'
    <2>1. TypeOK'
      BY <1>9 DEF TarDone, TypeOK, Asked, TarSucceeded
    <2>2. CacheWhole' /\ TargetWhole'
      BY <1>9 DEF TarDone, TypeOK, CacheWhole, TargetWhole, Asked, Downloading, Extracting, TarSucceeded
    <2>3. ASSUME NEW q \in Procs PROVE Asked(q)' /\ Downloading(q)'
      BY <1>9 DEF TarDone, TypeOK, Asked, Downloading, TarSucceeded
    <2>4. ASSUME NEW q \in Procs PROVE Extracting(q)'
      BY <1>9 DEF TarDone, TypeOK, CacheWhole, Asked, Downloading, Extracting, TarSucceeded
    <2>5. ASSUME NEW q \in Procs PROVE Outcome(q)'
      BY <1>9 DEF TarDone, TypeOK, Asked, Extracting, Outcome, TarSucceeded
    <2>6. QED
      BY <2>1, <2>2, <2>3, <2>4, <2>5
  <1>10. ASSUME NEW p \in Procs, CheckBinary(p) PROVE Inv'
    <2>1. TypeOK'
      BY <1>10 DEF CheckBinary, TypeOK, Asked
    <2>2. CacheWhole' /\ TargetWhole'
      BY <1>10 DEF CheckBinary, TypeOK, CacheWhole, TargetWhole, Asked, Downloading, Extracting
    <2>3. ASSUME NEW q \in Procs PROVE Asked(q)' /\ Downloading(q)'
      BY <1>10 DEF CheckBinary, TypeOK, Asked, Downloading
    <2>4. ASSUME NEW q \in Procs PROVE Extracting(q)'
      BY <1>10 DEF CheckBinary, TypeOK, CacheWhole, Asked, Downloading, Extracting
    <2>5. ASSUME NEW q \in Procs PROVE Outcome(q)'
      BY <1>10 DEF CheckBinary, TypeOK, Asked, Extracting, Outcome
    <2>6. QED
      BY <2>1, <2>2, <2>3, <2>4, <2>5
  <1>11. ASSUME NEW p \in Procs, InstallTree(p) PROVE Inv'
    <2>1. TypeOK'
      BY <1>11 DEF InstallTree, TypeOK, Asked
    <2>2. CacheWhole' /\ TargetWhole'
      BY <1>11 DEF InstallTree, TypeOK, CacheWhole, TargetWhole, Asked, Downloading, Extracting
    <2>3. ASSUME NEW q \in Procs PROVE Asked(q)' /\ Downloading(q)'
      BY <1>11 DEF InstallTree, TypeOK, Asked, Downloading
    <2>4. ASSUME NEW q \in Procs PROVE Extracting(q)'
      BY <1>11 DEF InstallTree, TypeOK, CacheWhole, Asked, Downloading, Extracting
    <2>5. ASSUME NEW q \in Procs PROVE Outcome(q)'
      BY <1>11 DEF InstallTree, TypeOK, Asked, Extracting, Outcome
    <2>6. QED
      BY <2>1, <2>2, <2>3, <2>4, <2>5
  <1>12. ASSUME NEW p \in Procs, TarExits(p) PROVE Inv'
    <2>1. TypeOK'
      BY <1>12 DEF TarExits, TypeOK, Asked, Readable
    <2>2. CacheWhole' /\ TargetWhole'
      BY <1>12 DEF TarExits, TypeOK, CacheWhole, TargetWhole, Asked, Downloading, Extracting, Readable
    <2>3. ASSUME NEW q \in Procs PROVE Asked(q)' /\ Downloading(q)'
      BY <1>12 DEF TarExits, TypeOK, Asked, Downloading, Readable
    <2>4. ASSUME NEW q \in Procs PROVE Extracting(q)'
      BY <1>12 DEF TarExits, TypeOK, CacheWhole, Asked, Downloading, Extracting, Readable
    <2>5. ASSUME NEW q \in Procs PROVE Outcome(q)'
      BY <1>12 DEF TarExits, TypeOK, Asked, Extracting, Outcome, Readable
    <2>6. QED
      BY <2>1, <2>2, <2>3, <2>4, <2>5
  <1>13. ASSUME NEW p \in Procs, Reap(p) PROVE Inv'
    <2>1. TypeOK'
      BY <1>13 DEF Reap, TypeOK, Asked
    <2>2. CacheWhole' /\ TargetWhole'
      BY <1>13 DEF Reap, TypeOK, CacheWhole, TargetWhole, Asked, Downloading, Extracting
    <2>3. ASSUME NEW q \in Procs PROVE Asked(q)' /\ Downloading(q)'
      BY <1>13 DEF Reap, TypeOK, Asked, Downloading
    <2>4. ASSUME NEW q \in Procs PROVE Extracting(q)'
      BY <1>13 DEF Reap, TypeOK, CacheWhole, Asked, Downloading, Extracting
    <2>5. ASSUME NEW q \in Procs PROVE Outcome(q)'
      BY <1>13 DEF Reap, TypeOK, Asked, Extracting, Outcome
    <2>6. QED
      BY <2>1, <2>2, <2>3, <2>4, <2>5
  <1>14. ASSUME NEW p \in Procs, Die(p) PROVE Inv'
    <2>1. TypeOK'
      BY <1>14 DEF Die, TypeOK, Asked
    <2>2. CacheWhole' /\ TargetWhole'
      BY <1>14 DEF Die, TypeOK, CacheWhole, TargetWhole, Asked, Downloading, Extracting
    <2>3. ASSUME NEW q \in Procs PROVE Asked(q)' /\ Downloading(q)'
      BY <1>14 DEF Die, TypeOK, Asked, Downloading
    <2>4. ASSUME NEW q \in Procs PROVE Extracting(q)'
      BY <1>14 DEF Die, TypeOK, CacheWhole, Asked, Downloading, Extracting
    <2>5. ASSUME NEW q \in Procs PROVE Outcome(q)'
      BY <1>14 DEF Die, TypeOK, Asked, Extracting, Outcome
    <2>6. QED
      BY <2>1, <2>2, <2>3, <2>4, <2>5
  <1>15. CASE UNCHANGED vars
    BY <1>15 DEF vars, TypeOK, CacheWhole, TargetWhole, Asked, Downloading, Extracting, Outcome
  <1>16. QED
    BY <1>1, <1>2, <1>3, <1>4, <1>5, <1>6, <1>7, <1>8, <1>9, <1>10, <1>11, <1>12, <1>13, <1>14, <1>15 DEF Next, Advance, Download, Extract, Finished

\* The invariant of Provision.
THEOREM InvHolds == Spec => []Inv
  BY InvInit, InvStep, PTL DEF Spec

\* Type correctness (all of Provision).
THEOREM TypesHold == Spec => []TypeOK
  BY InvHolds, PTL DEF Inv

\* The cache holds finished downloads only, under the right name.
THEOREM CacheWholeHolds == Spec => []CacheWhole
  BY InvHolds, PTL DEF Inv

\* A failed call never owes its failure to a half-done step of another one.
THEOREM FailureHasCauseHolds == Spec => []FailureHasCause
  <1>1. Inv => FailureHasCause
    BY DEF Inv, Outcome, FailureHasCause
  <1>2. QED
    BY <1>1, InvHolds, PTL

\* A call that ended by itself has removed its temporary names.
THEOREM NoLitterHolds == Spec => []NoLitter
  <1>1. Inv => NoLitter
    BY DEF Inv, NoLitter, Downloading, Extracting, Unpacking, Ends, Failures
  <1>2. QED
    BY <1>1, InvHolds, PTL

\* What the first text that is set names is what the chain yields.
LEMMA DecidedBy ==
    ASSUME NEW s \in Settings, NEW c \in DirectCommit(s), c \in Commits
    PROVE  /\ \A d \in Commits : Decides(s, d) => c = d
           /\ \A v \in Versions : Decides(s, v) => c = Release[v]
           /\ {s.flag, s.env, s.file} = {Unset} /\ s.cli # None => c = s.cli
  <1> USE CommitAssumption, TextAssumption DEF Unset, Blank, Latest, Junk, Error
  <1>1. ASSUME NEW t \in Commits \cup Versions, Decides(s, t) PROVE ResolveCommit(s) = t
    BY <1>1 DEF Decides, ResolveCommit, Trimmed
  <1>2. ASSUME NEW d \in Commits, Decides(s, d) PROVE c = d
    <2>1. Resolve(d) = {d}
      BY DEF Resolve, Trimmed
    <2>2. LocalCommit(s) = {d}
      BY <1>1, <1>2, <2>1 DEF LocalCommit
    <2>3. QED
      BY <2>2 DEF DirectCommit
  <1>3. ASSUME NEW v \in Versions, Decides(s, v) PROVE c = Release[v]
    <2>1. Resolve(v) = {Error, Release[v]}
      BY DEF Resolve, Trimmed, FetchCommit
    <2>2. LocalCommit(s) = {Error, Release[v]}
      BY <1>1, <1>3, <2>1 DEF LocalCommit
    <2>3. QED
      BY <2>2 DEF DirectCommit
  <1>4. ASSUME {s.flag, s.env, s.file} = {Unset}, s.cli # None PROVE c = s.cli
    <2>1. ResolveCommit(s) = Unset
      <3>1. s.flag = Unset /\ s.env = Unset /\ s.file = Unset
        BY <1>4
      <3>2. QED
        BY <3>1 DEF ResolveCommit, Trimmed
    <2>2. Resolve(Unset) = {None}
      BY DEF Resolve, Trimmed
    <2>3. LocalCommit(s) = {s.cli}
      BY <2>1, <2>2 DEF LocalCommit
    <2>4. QED
      BY <1>4, <2>3 DEF DirectCommit
  <1>5. QED
    BY <1>2, <1>3, <1>4

\* Every call is handed the server its settings name.
THEOREM ServerIsNamedHolds == Spec => []ServerIsNamed
  <1>1. Inv => ServerIsNamed
    <2> SUFFICES ASSUME Inv, NEW p \in Procs, pc[p] = "ok"
        PROVE  /\ \A c \in Commits : Decides(setting[p], c) => target[commit[p]].of = c
               /\ \A v \in Versions : Decides(setting[p], v) => target[commit[p]].of = Release[v]
               /\ {setting[p].flag, setting[p].env, setting[p].file} = {Unset} /\ setting[p].cli # None
                    => target[commit[p]].of = setting[p].cli
      BY DEF ServerIsNamed
    <2>1. commit[p] \in Commits /\ commit[p] \in DirectCommit(setting[p]) /\ setting[p] \in Settings
      BY DEF Inv, Asked, TypeOK
    <2>2. target[commit[p]].of = commit[p]
      <3>1. target[commit[p]] # None
        BY DEF Inv, Outcome
      <3>2. target[commit[p]] = [of |-> commit[p], kind |-> "whole"]
        BY <2>1, <3>1 DEF Inv, TargetWhole
      <3>3. QED
        BY <3>2
    <2>3. QED
      BY <2>1, <2>2, DecidedBy
  <1>2. QED
    BY <1>1, InvHolds, PTL

\* Every step of Provision is a step of Install or leaves what it shows alone.
THEOREM ProvisionImplementsInstall == Spec => ImplementsInstall
  <1> DEFINE State == [c \in Commits |-> TreeState(c)]
             Answers == [p \in Procs |-> Answer(p)]
  <1>1. Init => Installed!Init
    BY DEF Init, Installed!Init, Nobody, TreeState, Answer, Ends, Failures
  <1>2. Inv /\ Inv' /\ [Next]_vars => [Installed!Next]_(Installed!vars)
    <2> SUFFICES ASSUME Inv, Inv', [Next]_vars PROVE [Installed!Next]_(Installed!vars)
      OBVIOUS
    <2> USE DEF Inv, TypeOK, Goto, callVars, tarVars
    <2>1. ASSUME NEW p \in Procs, Start(p) PROVE Installed!Next
      <3>1. commit[p] = None /\ Answer(p) = "none" /\ State' = State
        BY <2>1 DEF Start, Asked, Answer, Ends, Failures, TreeState
      <3>2. CASE pc'[p] = "look"
        <4>1. commit'[p] \in Commits /\ commit' = [commit EXCEPT ![p] = commit'[p]] /\ Answers' = Answers
          BY <2>1, <3>2 DEF Start, Asked, Answer, Ends, Failures
        <4>2. Installed!Ask(p, commit'[p])
          BY <3>1, <4>1 DEF Installed!Ask
        <4>3. QED
          BY <4>1, <4>2 DEF Installed!Next
      <3>3. CASE pc'[p] = "unresolved"
        <4>1. commit' = commit /\ Answers' = [Answers EXCEPT ![p] = "failed"]
          BY <2>1, <3>3 DEF Start, Asked, Answer, Ends, Failures
        <4>2. Installed!Fail(p)
          BY <3>1, <4>1 DEF Installed!Fail
        <4>3. QED
          BY <4>2 DEF Installed!Next
      <3>4. QED
        BY <2>1, <3>2, <3>3 DEF Start
    <2>2. ASSUME NEW p \in Procs, pc[p] \in Working, commit' = commit, target' = target,
                 \E step \in Working \cup Ends : pc' = [pc EXCEPT ![p] = step]
          PROVE  [Installed!Next]_(Installed!vars)
      <3>1. State' = State /\ Answer(p) = "none" /\ commit[p] \in Commits
        BY <2>2 DEF TreeState, Answer, Ends, Failures, Working, Asked
      <3>2. CASE pc'[p] \in Working
        <4>1. Answers' = Answers
          BY <2>2, <3>2 DEF Answer, Ends, Failures, Working
        <4>2. QED
          BY <2>2, <3>1, <4>1 DEF Installed!vars
      <3>3. CASE pc'[p] = "ok"
        <4>1. Answers' = [Answers EXCEPT ![p] = "ok"]
          BY <2>2, <3>3 DEF Answer, Ends, Failures, Working
        <4>2. State[commit[p]] = "complete" /\ commit[p] # None
          BY <2>2, <3>1, <3>3, CommitAssumption DEF Outcome, TargetWhole, TreeState
        <4>3. Installed!Give(p)
          BY <2>2, <3>1, <4>1, <4>2 DEF Installed!Give
        <4>4. QED
          BY <4>3 DEF Installed!Next
      <3>4. CASE pc'[p] \in Ends \ {"ok"}
        <4>1. Answers' = [Answers EXCEPT ![p] = "failed"]
          BY <2>2, <3>4 DEF Answer, Ends, Failures, Working
        <4>2. Installed!Fail(p)
          BY <2>2, <3>1, <4>1 DEF Installed!Fail
        <4>3. QED
          BY <4>2 DEF Installed!Next
      <3>5. QED
        BY <2>2, <3>2, <3>3, <3>4
    <2>3. ASSUME NEW p \in Procs, Advance(p), ~InstallTree(p) PROVE [Installed!Next]_(Installed!vars)
      BY <2>2, <2>3
      DEF Advance, Download, Extract, IsProvisioned, DownloadStat, DownloadGet, DownloadCopy, DownloadRename,
          ExtractStat, StartTar, TarDone, CheckBinary, Working, Ends, Failures
    <2>4. ASSUME NEW p \in Procs, InstallTree(p) PROVE [Installed!Next]_(Installed!vars)
      <3>1. CASE target[commit[p]] = None
        <4>1. commit' = commit /\ commit[p] \in Commits /\ commit[p] # None /\ Answer(p) = "none"
          BY <2>4, CommitAssumption DEF InstallTree, Asked, Answer, Ends, Failures
        <4>2. tree[p] = [of |-> commit[p], kind |-> "whole"] /\ tree[p] # None
          BY <2>4 DEF InstallTree, Extracting, Unpacking, Trees
        <4>3. State' = [State EXCEPT ![commit[p]] = "complete"]
          BY <2>4, <3>1, <4>1, <4>2 DEF InstallTree, TreeState
        <4>4. Answers' = [Answers EXCEPT ![p] = "ok"]
          BY <2>4, <3>1 DEF InstallTree, Answer, Ends, Failures
        <4>5. State[commit[p]] = "absent"
          BY <3>1, <4>1 DEF TreeState
        <4>6. Installed!Complete(p)
          BY <4>1, <4>3, <4>4, <4>5 DEF Installed!Complete
        <4>7. QED
          BY <4>6 DEF Installed!Next
      <3>2. CASE target[commit[p]] # None
        BY <2>2, <2>4, <3>2 DEF InstallTree, Working, Ends, Failures
      <3>3. QED
        BY <3>1, <3>2
    <2>5. ASSUME NEW p \in Procs, Die(p) PROVE [Installed!Next]_(Installed!vars)
      BY <2>2, <2>5 DEF Die, Working, Ends
    <2>6. ASSUME NEW p \in Procs, TarExits(p) \/ Reap(p) PROVE UNCHANGED Installed!vars
      BY <2>6 DEF TarExits, Reap, Installed!vars, TreeState, Answer
    <2>7. CASE UNCHANGED vars
      BY <2>7 DEF vars, Installed!vars, TreeState, Answer
    <2>8. QED
      BY <2>1, <2>3, <2>4, <2>5, <2>6, <2>7 DEF Next, Finished
  <1>3. QED
    BY <1>1, <1>2, InvHolds, PTL DEF Spec, ImplementsInstall, Installed!Spec

=============================================================================
