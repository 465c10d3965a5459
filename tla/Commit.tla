------------------------------ MODULE Commit ------------------------------
(***************************************************************************)
(* Which VS Code Server commit a codetap process uses: the chain of        *)
(* settings of runCmd (cmd/codetap/main.go), Platform.ResolveCommit        *)
(* (internal/adapter/platform/platform.go), Resolver.Resolve and           *)
(* ProbeCodeCLI (internal/adapter/commit/resolve.go). A text is known by   *)
(* what the code tells apart: a hash stands for itself, in either case.    *)
(* What the Update API answers is not determined, so the operators yield   *)
(* sets of results.                                                        *)
(***************************************************************************)
CONSTANTS
    Commits,      \* 40 digit hashes
    Versions,     \* texts like 1.109.5
    Release,      \* the commit of each version, in the Update API
    None          \* no commit

ASSUME CommitAssumption ==
    /\ Release \in [Versions -> Commits]
    /\ None \notin Commits /\ Versions \cap Commits = {}

Unset == "unset"          \* the empty string, or no such variable or file
Blank == "blank"          \* white space only
Latest == "latest"
Junk == "junk"            \* any other text
Error == "error"

ASSUME TextAssumption ==
    {Unset, Blank, Latest, Junk, Error} \cap (Commits \cup Versions \cup {None}) = {}

Texts == Commits \cup Versions \cup {Unset, Blank, Latest, Junk}

\* --commit, CODETAP_COMMIT, ~/.codetap/.commit, code --version.
Settings == [flag : Texts, env : Texts, file : Texts, cli : Commits \cup {None}]

Trimmed(text) == IF text = Blank THEN Unset ELSE text

\* Mutant: the environment overrides the flag.
ResolveCommit_EnvFirst(s) ==
    IF s.env # Unset THEN s.env
    ELSE IF s.flag # Unset THEN s.flag
    ELSE Trimmed(s.file)

\* Only the file is trimmed before it is tested for being empty.
ResolveCommit(s) ==
    IF s.flag # Unset THEN s.flag
    ELSE IF s.env # Unset THEN s.env
    ELSE Trimmed(s.file)

\* fetchCommit: the API may be out of reach or answer something else.
FetchCommit(text) ==
    {Error} \cup (IF text = Latest THEN Commits ELSE {Release[text]})

Resolve(text) ==
    IF Trimmed(text) = Unset THEN {None}
    ELSE IF text \in Commits THEN {text}
    ELSE IF text \in Versions \cup {Latest} THEN FetchCommit(text)
    ELSE {Error}

\* The first part of the chain, which a `run --stdio` stops after.
LocalCommit(s) ==
    {IF c = None THEN s.cli ELSE c : c \in Resolve(ResolveCommit(s))}

\* The whole chain of a direct `run`.
DirectCommit(s) ==
    UNION {IF c = None THEN Resolve(Latest) ELSE {c} : c \in LocalCommit(s)}

=============================================================================
