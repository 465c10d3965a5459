----------------------------- MODULE Provision -----------------------------
(***************************************************************************)
(* codetap processes that provision servers into one home directory:       *)
(* Service.Provision (internal/app/service.go), HTTPDownloader.Download    *)
(* (internal/adapter/downloader/http.go), TarExtractor                     *)
(* (internal/adapter/extractor/tar.go) and the reaper that runs beside     *)
(* them (internal/app/reaper_linux.go). The cache and the repository have  *)
(* no lock. Steps are the system calls on them that others can see.        *)
(***************************************************************************)
EXTENDS Commit

CONSTANTS
    Procs,          \* codetap processes, each started at most once
    StartedWith     \* the settings they may be started with

ASSUME SettingsAssumption == StartedWith \subseteq Settings

VARIABLES
    pc,        \* what a process does next, or how its call ended
    setting,   \* the settings it was started with
    commit,    \* the commit they resolved to
    cache,     \* the tarball under ~/.codetap/cache, for every commit
    target,    \* the tree under ~/.codetap/repository, for every commit
    part,      \* a process's .download-* file
    tree,      \* a process's .extract-* directory
    tar,       \* its tar child
    input,     \* the tarball that child has opened
    reaped     \* processes whose reaper took the exit status of their tar

callVars == <<setting, commit>>
tarVars  == <<tar, input, reaped>>
vars == <<pc, callVars, cache, target, part, tree, tarVars>>

\* A tarball: "cut" is one whose download has not finished, tar fails on a
\* "corrupt" one, and an "other" one holds no bin/code-server.
Tarballs == [of : Commits, kind : {"cut", "good", "corrupt", "other"}]
Trees == [of : Commits, kind : {"unfinished", "whole", "other"}]

ASSUME NoneAssumption == None \notin Tarballs \cup Trees

Working == {"look", "cached", "get", "copy", "rename", "extract", "mkdir", "wait", "check", "install"}
Failures == {"unresolved", "httpError", "ioError", "tarError", "corrupt", "lost"}
Ends == {"ok", "killed"} \cup Failures

\* Of tar: on a tarball it cannot read it fails, on a good one for want of
\* space.
Exits == {"ok", "failed", "noSpace"}

TypeOK ==
    /\ pc \in [Procs -> {"idle"} \cup Working \cup Ends]
    /\ setting \in [Procs -> Settings]
    /\ commit \in [Procs -> Commits \cup {None}]
    /\ cache \in [Commits -> Tarballs \cup {None}]
    /\ target \in [Commits -> Trees \cup {None}]
    /\ part \in [Procs -> Tarballs \cup {None}]
    /\ tree \in [Procs -> Trees \cup {None}]
    /\ tar \in [Procs -> {"none", "running"} \cup Exits]
    /\ input \in [Procs -> Tarballs \cup {None}]
    /\ reaped \in SUBSET Procs

Nobody == [p \in Procs |-> None]

Init ==
    /\ pc = [p \in Procs |-> "idle"]
    /\ setting \in [Procs -> StartedWith]
    /\ commit = Nobody
    /\ cache = [c \in Commits |-> None] /\ target = [c \in Commits |-> None]
    /\ part = Nobody /\ tree = Nobody
    /\ tar = [p \in Procs |-> "none"] /\ input = Nobody /\ reaped = {}

Goto(p, step) == pc' = [pc EXCEPT ![p] = step]

-----------------------------------------------------------------------------
(***************************************************************************)
(* The commit, and the tarball of it.                                      *)
(***************************************************************************)

Start(p) ==
    /\ pc[p] = "idle"
    /\ \E c \in DirectCommit(setting[p]) :
        \/ /\ c # Error
           /\ commit' = [commit EXCEPT ![p] = c]
           /\ Goto(p, "look")
        \/ c = Error /\ Goto(p, "unresolved") /\ UNCHANGED commit
    /\ UNCHANGED <<setting, cache, target, part, tree, tarVars>>

\* bin/code-server is in every tree that has been installed.
Provisioned(c) == target[c] # None

IsProvisioned(p) ==
    /\ pc[p] = "look"
    /\ Goto(p, IF Provisioned(commit[p]) THEN "ok" ELSE "cached")
    /\ UNCHANGED <<callVars, cache, target, part, tree, tarVars>>

DownloadStat(p) ==
    /\ pc[p] = "cached"
    /\ Goto(p, IF cache[commit[p]] # None THEN "extract" ELSE "get")
    /\ UNCHANGED <<callVars, cache, target, part, tree, tarVars>>

\* http.Get, its status, and the temporary file.
DownloadGet(p) ==
    /\ pc[p] = "get"
    /\ \/ /\ part' = [part EXCEPT ![p] = [of |-> commit[p], kind |-> "cut"]]
          /\ Goto(p, "copy")
       \/ (Goto(p, "httpError") \/ Goto(p, "ioError")) /\ UNCHANGED part
    /\ UNCHANGED <<callVars, cache, target, tree, tarVars>>

\* Mutant: the error of io.Copy is not looked at.
DownloadCopy_NoCheck(p) ==
    /\ pc[p] = "copy"
    /\ \E k \in {"cut", "good", "corrupt", "other"} :
        part' = [part EXCEPT ![p] = [of |-> commit[p], kind |-> k]]
    /\ Goto(p, "rename")
    /\ UNCHANGED <<callVars, cache, target, tree, tarVars>>

\* io.Copy has seen the whole body, whatever that is, or fails.
DownloadCopy(p) ==
    /\ pc[p] = "copy"
    /\ \/ /\ \E k \in {"good", "corrupt", "other"} : part' = [part EXCEPT ![p] = [of |-> commit[p], kind |-> k]]
          /\ Goto(p, "rename")
       \/ /\ part' = [part EXCEPT ![p] = None]
          /\ Goto(p, "ioError")
    /\ UNCHANGED <<callVars, cache, target, tree, tarVars>>

\* It replaces a tarball that another process has put there meanwhile.
DownloadRename(p) ==
    /\ pc[p] = "rename"
    /\ \/ /\ cache' = [cache EXCEPT ![commit[p]] = part[p]]
          /\ Goto(p, "extract")
       \/ UNCHANGED cache /\ Goto(p, "ioError")
    /\ part' = [part EXCEPT ![p] = None]
    /\ UNCHANGED <<callVars, target, tree, tarVars>>

-----------------------------------------------------------------------------
(***************************************************************************)
(* Extract.                                                                *)
(***************************************************************************)
ExtractStat(p) ==
    /\ pc[p] = "extract"
    /\ Goto(p, IF Provisioned(commit[p]) THEN "ok" ELSE "mkdir")
    /\ UNCHANGED <<callVars, cache, target, part, tree, tarVars>>

\* The directory is made and tar started, which opens what is then cached.
StartTar(p) ==
    /\ pc[p] = "mkdir"
    /\ \/ /\ tree' = [tree EXCEPT ![p] = [of |-> commit[p], kind |-> "unfinished"]]
          /\ tar' = [tar EXCEPT ![p] = "running"]
          /\ input' = [input EXCEPT ![p] = cache[commit[p]]]
          /\ Goto(p, "wait")
       \/ Goto(p, "ioError") /\ UNCHANGED <<tree, tar, input>>
    /\ UNCHANGED <<callVars, cache, target, part, reaped>>

Readable(tarball) == tarball # None /\ tarball.kind \in {"good", "other"}

\* tar ends, also when the codetap that started it is no longer there.
TarExits(p) ==
    /\ tar[p] = "running"
    /\ \/ /\ Readable(input[p])
          /\ tar' = [tar EXCEPT ![p] = "ok"]
          /\ tree' = [tree EXCEPT ![p] =
                [of |-> input[p].of, kind |-> IF input[p].kind = "good" THEN "whole" ELSE "other"]]
       \/ ~Readable(input[p]) /\ tar' = [tar EXCEPT ![p] = "failed"] /\ UNCHANGED tree
       \/ tar' = [tar EXCEPT ![p] = "noSpace"] /\ UNCHANGED tree
    /\ UNCHANGED <<pc, callVars, cache, target, part, input, reaped>>

\* startReaper's Wait4(-1) is for orphans, and takes any child that ended.
Reap(p) ==
    /\ pc[p] = "wait" /\ tar[p] \in Exits
    /\ reaped' = reaped \cup {p}
    /\ UNCHANGED <<pc, callVars, cache, target, part, tree, tar, input>>

\* Mutant: ECHILD is taken for a normal exit.
TarSucceeded_OrUnknown(p) == tar[p] = "ok" \/ p \in reaped

\* What cmd.Run returns: without the status, Wait4's ECHILD is an error.
TarSucceeded(p) == tar[p] = "ok" /\ p \notin reaped

\* Mutant: tar is waited for by its status only.
TarDone_OwnStatus(p) ==
    /\ pc[p] = "wait" /\ tar[p] \in Exits /\ p \notin reaped
    /\ \/ TarSucceeded(p) /\ Goto(p, "check") /\ UNCHANGED tree
       \/ ~TarSucceeded(p) /\ Goto(p, "tarError") /\ tree' = [tree EXCEPT ![p] = None]
    /\ UNCHANGED <<callVars, cache, target, part, tarVars>>

TarDone(p) ==
    /\ pc[p] = "wait" /\ tar[p] \in Exits
    /\ \/ TarSucceeded(p) /\ Goto(p, "check") /\ UNCHANGED tree
       \/ ~TarSucceeded(p) /\ Goto(p, "tarError") /\ tree' = [tree EXCEPT ![p] = None]
    /\ UNCHANGED <<callVars, cache, target, part, tarVars>>

\* Mutant: the tarball that proved useless is removed from the cache.
CheckBinary_RemovesTarball(p) ==
    /\ pc[p] = "check"
    /\ \/ tree[p].kind # "other" /\ Goto(p, "install") /\ UNCHANGED <<tree, cache>>
       \/ /\ tree[p].kind # "whole"
          /\ tree' = [tree EXCEPT ![p] = None]
          /\ cache' = [cache EXCEPT ![commit[p]] = None]
          /\ Goto(p, "corrupt")
    /\ UNCHANGED <<callVars, target, part, tarVars>>

\* bin/code-server may or may not be among the files of an unfinished tree.
CheckBinary(p) ==
    /\ pc[p] = "check"
    /\ \/ tree[p].kind # "other" /\ Goto(p, "install") /\ UNCHANGED tree
       \/ /\ tree[p].kind # "whole"
          /\ tree' = [tree EXCEPT ![p] = None]
          /\ Goto(p, "corrupt")
    /\ UNCHANGED <<callVars, cache, target, part, tarVars>>

\* Mutant: a tree that cannot be moved into place is left behind.
InstallTree_LeavesTemp(p) ==
    /\ pc[p] = "install"
    /\ IF target[commit[p]] = None
       THEN /\ target' = [target EXCEPT ![commit[p]] = tree[p]]
            /\ tree' = [tree EXCEPT ![p] = None]
            /\ Goto(p, "ok")
       ELSE Goto(p, "lost") /\ UNCHANGED <<target, tree>>
    /\ UNCHANGED <<callVars, cache, part, tarVars>>

\* os.Rename onto a directory with files in it fails.
InstallTree(p) ==
    /\ pc[p] = "install"
    /\ \/ /\ target[commit[p]] = None
          /\ target' = [target EXCEPT ![commit[p]] = tree[p]]
          /\ Goto(p, "ok")
       \/ target[commit[p]] # None /\ Goto(p, "lost") /\ UNCHANGED target
    /\ tree' = [tree EXCEPT ![p] = None]
    /\ UNCHANGED <<callVars, cache, part, tarVars>>

-----------------------------------------------------------------------------
\* Killed, by a signal or a crash: what is in the file system stays.
Die(p) ==
    /\ pc[p] \in Working
    /\ Goto(p, "killed")
    /\ UNCHANGED <<callVars, cache, target, part, tree, tarVars>>

Download(p) == DownloadStat(p) \/ DownloadGet(p) \/ DownloadCopy(p) \/ DownloadRename(p)
Extract(p) == ExtractStat(p) \/ StartTar(p) \/ TarDone(p) \/ CheckBinary(p) \/ InstallTree(p)
Advance(p) == IsProvisioned(p) \/ Download(p) \/ Extract(p)

Finished ==
    /\ \A p \in Procs : pc[p] \in Ends /\ tar[p] # "running"
    /\ UNCHANGED vars

Next ==
    \/ \E p \in Procs : Start(p) \/ Advance(p) \/ TarExits(p) \/ Reap(p) \/ Die(p)
    \/ Finished

\* The server that is asked answers or fails, and tar ends.
Fairness == \A p \in Procs : WF_vars(Advance(p)) /\ WF_vars(TarExits(p))

Spec == Init /\ [][Next]_vars
FairSpec == Spec /\ Fairness

-----------------------------------------------------------------------------
(***************************************************************************)
(* Safety.                                                                 *)
(***************************************************************************)

\* What the tree of a commit and a call look like to Install.
TreeState(c) ==
    IF target[c] = None THEN "absent"
    ELSE IF target[c] = [of |-> c, kind |-> "whole"] THEN "complete" ELSE "broken"

Answer(p) ==
    IF pc[p] = "ok" THEN "ok" ELSE IF pc[p] \in Ends THEN "failed" ELSE "none"

Installed == INSTANCE Install WITH
    state  <- [c \in Commits |-> TreeState(c)],
    wanted <- commit,
    answer <- [p \in Procs |-> Answer(p)]

\* Whatever processes do at the same time, wherever they are killed, and
\* whatever the network delivers, a tree is absent or complete, is never
\* replaced, and only a complete one is handed out (service.go 466-477,
\* tar.go 45-86).
ImplementsInstall == Installed!Spec

\* A download that was cut off is never taken for a tarball, nor one commit's
\* for another's (http.go 62-84).
CacheWhole ==
    \A c \in Commits : cache[c] # None => cache[c].of = c /\ cache[c].kind # "cut"

\* A call that fails has a cause in what the network delivered, the disk, the
\* reaper or a call that succeeded: no process makes another one fail by what
\* it leaves half done or takes away (http.go 69-84, tar.go 64-82).
FailureHasCause ==
    \A p \in Procs :
        /\ pc[p] = "tarError" => input[p] # None /\ (input[p].kind = "corrupt" \/ tar[p] = "noSpace" \/ p \in reaped)
        /\ pc[p] = "corrupt" => input[p] # None /\ input[p].kind = "other"
        /\ pc[p] = "lost" => target[commit[p]] # None

\* Calls that end by themselves leave no temporary file or directory.
NoLitter ==
    \A p \in Procs : pc[p] \in Ends \ {"killed"} => part[p] = None /\ tree[p] = None

\* The text that decides is the first one set, in the documented order.
Decides(s, text) ==
    \/ s.flag = text
    \/ s.flag = Unset /\ s.env = text
    \/ s.flag = Unset /\ s.env = Unset /\ s.file = text

\* The tree handed out is of the commit that the setting first in the
\* documented order names (main.go 147-175, README.md 167-178).
ServerIsNamed ==
    \A p \in Procs : pc[p] = "ok" =>
        LET s == setting[p]
            server == target[commit[p]].of
        IN  /\ \A c \in Commits : Decides(s, c) => server = c
            /\ \A v \in Versions : Decides(s, v) => server = Release[v]
            /\ {s.flag, s.env, s.file} = {Unset} /\ s.cli # None => server = s.cli

(***************************************************************************)
(* Liveness.                                                               *)
(***************************************************************************)

\* Every call ends, also when the reaper has taken tar's exit status.
Settles == \A p \in Procs : (pc[p] \in Working) ~> (pc[p] \in Ends)

(***************************************************************************)
(* What the documentation says and the code does not do.                   *)
(***************************************************************************)

\* service.go 88: the reaper reaps orphaned zombies. It takes the status of
\* tar as well, and an extraction that succeeded is reported as failed.
SuccessReported == \A p \in Procs : pc[p] = "tarError" => tar[p] # "ok"

=============================================================================
