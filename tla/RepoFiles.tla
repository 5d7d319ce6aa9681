----------------------------- MODULE RepoFiles -----------------------------
(***************************************************************************)
(* What gatherCandidate reads of one repository: GetHeadSHA, GetGoMod with *)
(* ParseGoModVersion and GoBehind on what it returns, GetMaintainerConfig  *)
(* with ParseConsent.  A file is looked at as it is when the call asks for *)
(* it; Watcher has the commits between the calls.                          *)
(***************************************************************************)
EXTENDS ApiCall, GoVersion

CONSTANTS
  MaxContentBytes,  \* maxContentBytes
  GoModFiles,       \* what a path go.mod may hold
  ConfigFiles,      \* what a path .maintainer.yaml may hold
  Releases          \* the versions a cycle may have as its target

\* A line of a go.mod by its first field, and by the second if there is one.
Line == [kind: {"other", "too_long", "bare_go"}] \cup [kind: {"go"}, value: Text]

\* A consent file: empty, not decodable into the expected sections, or with
\* a node goUpdate.autoUpdate that is absent, a scalar or something nested.
Config ==
  [kind: {"empty", "undecodable"}]
  \cup [kind: {"decodable"}, node: {"absent", "scalar", "nested"},
        bool: BOOLEAN, value: {"true", "false", "other"}]

\* A path holds nothing, a directory, or a file with the size GitHub reports
\* and the one its content has when it can be decoded.
Path(content) ==
  [kind: {"absent", "directory"}]
  \cup [kind: {"file"}, size: Nat, length: Nat, decodes: BOOLEAN, content: content]

ASSUME RepoFilesAssumption ==
  /\ MaxContentBytes \in Nat
  /\ GoModFiles \subseteq Path(Seq(Line))
  /\ ConfigFiles \subseteq Path(Config)
  /\ Releases \subseteq Version

VARIABLES
  file,       \* what the path holds
  reachable,  \* the installation can read the branch the listing named
  latestGo,   \* the cycle's target version
  scanned     \* lines of the go.mod scanned, or NotYet

fileVars == <<file, reachable, latestGo, scanned>>

NotYet == -1

NoFile == [kind |-> "absent"]

FilesIdle ==
  /\ file = NoFile
  /\ reachable = FALSE
  /\ latestGo = NoVersion
  /\ scanned = NotYet

ForgetFile ==
  /\ file' = NoFile
  /\ reachable' = FALSE
  /\ latestGo' = NoVersion
  /\ scanned' = NotYet

-----------------------------------------------------------------------------
(* Reading a path *)

Oversize == file.size > MaxContentBytes \/ file.length > MaxContentBytes

\* GitHub answers 404 for a path that holds nothing, and for a repository or
\* a branch the installation cannot read (any more).  For the code both, and
\* a directory, are an absent file.
Absent == ~reachable \/ file.kind \in {"absent", "directory"}

Unreadable == ~Absent /\ (Oversize \/ ~file.decodes)

Readable == ~Absent /\ ~Unreadable

FileCall == op \in {"head_sha", "go_mod", "maintainer_config"}

\* The request itself fails.
FileRequestFails ==
  /\ FileCall
  /\ scanned = NotYet
  /\ \E e \in RequestErrors : Return(e)
  /\ ForgetFile

\* The file that has arrived is too large, or its content does not decode.
ContentFails ==
  /\ op \in {"go_mod", "maintainer_config"}
  /\ scanned = NotYet
  /\ ~cancelled
  /\ Unreadable
  /\ Return(Failed)
  /\ ForgetFile

-----------------------------------------------------------------------------
(* GetHeadSHA *)

BeginGetHeadSHA ==
  /\ Begin("head_sha")
  /\ UNCHANGED fileVars

\* A repository listed without a default branch has no HEAD to ask for.
GetHeadSHA ==
  /\ op = "head_sha"
  /\ \/ Return(Failed)
     \/ ~cancelled /\ Return([kind |-> "ok"])
  /\ ForgetFile

-----------------------------------------------------------------------------
(* GetGoMod and ParseGoModVersion *)

BeginGetGoMod ==
  /\ Begin("go_mod")
  /\ file' \in GoModFiles
  /\ reachable' \in BOOLEAN
  /\ latestGo' \in Releases
  /\ UNCHANGED scanned

\* Mutant: a repository at the cycle's version counts as behind it.
GoBehindOrEqual(v) == v # NoVersion /\ ~Less(latestGo, v)

\* Candidate.GoBehind.
GoBehind(v) == v # NoVersion /\ Less(v, latestGo)

\* The candidate's account of a go.mod that declares v.
Declares(v) ==
  [kind |-> "ok", present |-> TRUE, parsable |-> v # NoVersion, behind |-> GoBehind(v)]

NoGoMod == [kind |-> "ok", present |-> FALSE, parsable |-> FALSE, behind |-> FALSE]

GetGoMod ==
  /\ op = "go_mod"
  /\ scanned = NotYet
  /\ ~cancelled
  /\ \/ Absent /\ Return(NoGoMod) /\ ForgetFile
     \/ /\ Readable
        /\ scanned' = 0
        /\ UNCHANGED <<callVars, file, reachable, latestGo>>

NextLine == file.content[scanned + 1]

\* The scanner gives up on a line that does not fit its buffer; the first go
\* line with a value decides; any other line is passed over.
ScanLine ==
  /\ op = "go_mod"
  /\ scanned # NotYet
  /\ scanned < Len(file.content)
  /\ \/ NextLine.kind = "too_long" /\ Return(Declares(NoVersion)) /\ ForgetFile
     \/ NextLine.kind = "go" /\ Return(Declares(ParseGoDirective(NextLine.value)))
                             /\ ForgetFile
     \/ /\ NextLine.kind \in {"other", "bare_go"}
        /\ scanned' = scanned + 1
        /\ UNCHANGED <<callVars, file, reachable, latestGo>>

NoDirective ==
  /\ op = "go_mod"
  /\ scanned # NotYet
  /\ scanned = Len(file.content)
  /\ Return(Declares(NoVersion))
  /\ ForgetFile

-----------------------------------------------------------------------------
(* GetMaintainerConfig and ParseConsent *)

BeginGetMaintainerConfig ==
  /\ Begin("maintainer_config")
  /\ file' \in ConfigFiles
  /\ reachable' \in BOOLEAN
  /\ UNCHANGED <<latestGo, scanned>>

IsBool(c) == c.kind = "decodable" /\ c.node = "scalar" /\ c.bool

\* Mutant: the value decides and its YAML type does not.
ParseConsentUntyped(c) ==
  IF c.kind = "undecodable" THEN Failed
  ELSE [kind |-> "ok",
        consent |-> IF c.kind = "decodable" /\ c.node = "scalar" /\ c.value = "true" THEN "granted"
                    ELSE IF IsBool(c) /\ c.value = "false" THEN "refused"
                    ELSE "undecided"]

ParseConsent(c) ==
  IF c.kind = "undecodable" THEN Failed
  ELSE [kind |-> "ok",
        consent |-> IF IsBool(c) /\ c.value = "true" THEN "granted"
                    ELSE IF IsBool(c) /\ c.value = "false" THEN "refused"
                    ELSE "undecided"]

GetMaintainerConfig ==
  /\ op = "maintainer_config"
  /\ ~cancelled
  /\ \/ Absent /\ Return([kind |-> "ok", consent |-> "undecided"])
     \/ Readable /\ Return(ParseConsent(file.content))
  /\ ForgetFile

FilesStep ==
  \/ FileRequestFails
  \/ ContentFails
  \/ GetHeadSHA
  \/ GetGoMod
  \/ ScanLine
  \/ NoDirective
  \/ GetMaintainerConfig

-----------------------------------------------------------------------------
(* Properties *)

\* The positions of the lines that hold the go directive of a go.mod, or
\* keep the lines after them from being read.
Deciding(lines) == {i \in DOMAIN lines : lines[i].kind \in {"go", "too_long"}}

\* The go.mod declares, in the first line that decides, a version older than
\* the cycle's.
Outdated(lines) ==
  \E i \in Deciding(lines) :
    /\ \A j \in Deciding(lines) : i <= j
    /\ lines[i].kind = "go"
    /\ Names(lines[i].value, FALSE)
    /\ Precedes(Numbers(lines[i].value), NumbersOf(latestGo))

Small == file.size <= MaxContentBytes /\ file.length <= MaxContentBytes

\* A repository is reported behind exactly if its go.mod, of a size the
\* client accepts, declares an older version: failed requests, oversize or
\* broken files, unreadable directives and a 404 of any cause never do.
BehindIsOutdated ==
  [][op = "go_mod" /\ op' = "none" /\ answer'.kind = "ok" =>
       (answer'.behind <=> /\ reachable
                           /\ file.kind = "file"
                           /\ Small
                           /\ Outdated(file.content))]_<<callVars, fileVars>>

\* What the owner wrote into a consent file the client accepts, if it is a
\* plain YAML boolean.
OwnerWrote(b) ==
  /\ file.kind = "file"
  /\ Small
  /\ file.decodes
  /\ file.content.kind = "decodable"
  /\ file.content.node = "scalar"
  /\ file.content.bool
  /\ file.content.value = b

\* Consent is granted or refused only by a plain boolean the owner wrote, and
\* such a boolean reads as undecided only when GitHub answers 404 although
\* the file is there (access lost or branch renamed since the listing).
ConsentIsOwners ==
  [][op = "maintainer_config" /\ op' = "none" /\ answer'.kind = "ok" =>
       /\ answer'.consent = "granted" => reachable /\ OwnerWrote("true")
       /\ answer'.consent = "refused" => reachable /\ OwnerWrote("false")
       /\ answer'.consent = "undecided" /\ reachable =>
            ~OwnerWrote("true") /\ ~OwnerWrote("false")]_<<callVars, fileVars>>

=============================================================================
