------------------------------ MODULE Adoption ------------------------------
(***************************************************************************)
(* The adoption check that stands before a free licence key                *)
(* (packages/*/scripts/check_v0_adoption.py).                              *)
(*                                                                         *)
(* Twelve packages have a script each.  The scripts differ in the package  *)
(* they look for and in its anchors, hashes of its conformance vectors.    *)
(* Four checks read the files of a submitted project, one by one, in the   *)
(* order in which directories are listed and sets of names are iterated;   *)
(* the project may change meanwhile, and a file may be unreadable.         *)
(*                                                                         *)
(* A path is [dir, name]: the directories from the root of the project,    *)
(* and stem and suffix of the name.  The content of a file is the set of   *)
(* lines that matter: <<form, package>>, <<"anchor", hash>> (by its first  *)
(* digits), or AlgoVoi named alone.                                        *)
(***************************************************************************)
EXTENDS Naturals, FiniteSets, SequencesExt

CONSTANTS
    Submission,   \* projects, [path -> content], by the package they are submitted for
    Option,       \* command lines: [project, lockfile, notice]
    Missing,      \* an option that is not given
    MaxEdits      \* bound: changes and unreadable files during one check

ASSUME AdoptionAssumption ==
    /\ \A o \in Option : o.project \/ o.lockfile # Missing
    /\ MaxEdits \in Nat

-----------------------------------------------------------------------------
(* The patterns and the anchors *)

Declaring == {"==", "~=", "@", "--hash", ">=", "@algovoi/", "AlgoVoi.", "named"}
Naming == Declaring \ {"AlgoVoi."}
Pinning == {"==", "~=", "@", "--hash"}
AlgoVoi == <<"AlgoVoi", "">>

\* A script is told apart by its package and its anchors: a record stands for
\* the whole file, that is, the checks below for this package and these anchors.
Script(package, hashes) ==
    [package |-> package, anchors |-> {<<"anchor", h>> : h \in hashes}]

AgentPassport == Script("algovoi-agent-passport-lite", {"b3594e", "57ff61", "ecd1dd"})
\* Fault: the anchors were copied from the script of the cancellation receipt.
RefundReceiptCopied == Script("algovoi-refund-receipt-lite", {"9f2913", "5de4ae", "b1021a"})
CancellationReceipt == Script("algovoi-cancellation-receipt-lite", {"9f2913", "5de4ae", "b1021a"})
ComplianceGate ==
    Script("algovoi-compliance-gate-lite", {"863779", "43d8d8", "9a25b3", "bff637", "d4a1f0"})
CompositeTrustQuery == Script("algovoi-composite-trust-query-lite", {"2ba78e", "1335da", "9ae59e"})
Delegation == Script("algovoi-delegation-ref", {"4e59d4", "91329d", "e30dbd", "b4b5df", "be6fd7"})
PaymentMandate == Script("algovoi-payment-mandate-lite", {"a4f8cb", "fefcf6", "8976a5"})
PolicyBinding ==
    Script("algovoi-policy-binding",
           {"acc943", "858fd6", "65390e", "7329a6", "7a2d7b", "bf6bac", "aaee20", "e6629e"})
RecomputeDrift == Script("algovoi-recompute-drift", {"c6505e", "4839ef", "f65a02", "cd912f", "ad2337"})
RefundReceipt == Script("algovoi-refund-receipt-lite", {"1d32c8", "908db9", "e2713b"})
RetentionChain ==
    Script("algovoi-retention-chain",
           {"f15a1d", "7114dc", "d3bddc", "24c3e2", "55d4a6", "08a132", "60081d", "d23aeb", "43f888",
            "deeb8f", "6c76bc", "e91e6f", "52ef8d", "ced0cd", "683eb3", "7aa77a", "9c589d", "2277ec"})
SpendGuardrail == Script("algovoi-spend-guardrail-lite", {"2a444c", "792a5b", "6d78a4", "b3594e", "a4f8cb"})
SubstrateGuard == Script("algovoi-substrate-guard", {"a4791b", "aafdb5"})

Scripts ==
    {AgentPassport, CancellationReceipt, ComplianceGate, CompositeTrustQuery, Delegation, PaymentMandate,
     PolicyBinding, RecomputeDrift, RefundReceipt, RetentionChain, SpendGuardrail, SubstrateGuard}

VARIABLES
    script,   \* the script that runs
    option,   \* its command line
    tree,     \* the submitted project
    at,       \* the check it is in
    listed,   \* the files it found
    todo,     \* the files this check still has to read
    result,   \* which checks have passed
    edits,    \* changes and unreadable files so far
    seen      \* history: the lines each file has had since the run began

vars == <<script, option, tree, at, listed, todo, result, edits, seen>>

Has(lines, forms) == \E form \in forms : <<form, script.package>> \in lines

\* What a check looks for in a file.
Match(check, lines) ==
    CASE check = "dependency" -> Has(lines, Declaring)
      [] check = "anchor"     -> lines \cap script.anchors # {}
      [] check = "notice"     -> Has(lines, Naming)
      [] check = "pin"        -> Has(lines, Pinning)

MentionsAlgoVoi(lines) == \E line \in lines : line[1] \in Naming \cup {"AlgoVoi", "AlgoVoi."}

\* Fault: a NOTICE that lacks the package does not end the search.
SettlesOnMatch(check, lines) == check \in {"notice", "pin"} /\ Match(check, lines)

\* The first NOTICE that mentions AlgoVoi decides, and the first pin does.
Settles(check, lines) ==
    \/ check = "notice" /\ MentionsAlgoVoi(lines)
    \/ check = "pin" /\ Match(check, lines)

-----------------------------------------------------------------------------
(* Files *)

LockfileNames ==
    ({"requirements", "requirements-lock", "constraints"} \X {".txt"}) \cup
    ({"pyproject", "Cargo"} \X {".toml"}) \cup ({"poetry", "Pipfile", "Cargo", "yarn", "Gemfile"} \X {".lock"}) \cup
    ({"package", "package-lock", "packages.lock"} \X {".json"}) \cup
    {<<"setup", ".cfg">>, <<"setup", ".py">>, <<"Pipfile", "">>, <<"go", ".mod">>, <<"go", ".sum">>,
     <<"pnpm-lock", ".yaml">>, <<"Gemfile", "">>, <<"pom", ".xml">>, <<"build", ".gradle">>,
     <<"build.gradle", ".kts">>, <<"*", ".csproj">>}
NoticeNames == {"NOTICE"} \X {"", ".txt", ".md", ".rst"}
SkipDirs == {".git", ".hg", "node_modules", "__pycache__", ".tox", ".venv", "venv", "env", "dist", "build",
             "target", ".gradle"}
TextExtensions == {".py", ".ts", ".js", ".go", ".rs", ".rb", ".cs", ".java", ".kt", ".toml", ".json", ".yaml",
                   ".yml", ".txt", ".md", ".lock", ".sum", ".cfg", ".ini", ".env"}

Skipped(f) == ToSet(f.dir) \cap SkipDirs # {}

TextFiles ==
    {f \in DOMAIN tree :
        ~Skipped(f) /\ (f.name[2] \in TextExtensions \/ f.name \in LockfileNames \cup NoticeNames)}

IsLockfile(f) == f.name \in LockfileNames \/ f.name[2] = ".csproj"

\* Where a NOTICE is looked for: the one given, the root, the next level.
Rank(f) == IF f = option.notice THEN 0 ELSE IF f.dir = << >> THEN 1 ELSE 2
Notices ==
    {f \in DOMAIN tree : option.project /\ f.name \in NoticeNames /\ Len(f.dir) <= 1 /\ ~Skipped(f)}
    \cup ({option.notice} \ {Missing})

\* Fault: a pin is looked for in every file, prose included.
FilesForAnyPin(check) ==
    CASE check = "notice" -> Notices
      [] check \in {"anchor", "pin"} -> listed
      [] check = "dependency" -> {f \in listed : IsLockfile(f)}

\* The files that a check reads.
FilesFor(check) ==
    CASE check = "notice" -> Notices
      [] check = "anchor" -> listed
      [] check \in {"dependency", "pin"} -> {f \in listed : IsLockfile(f)}

-----------------------------------------------------------------------------
(* A run *)

Checks == <<"dependency", "anchor", "notice", "pin">>

Init ==
    /\ script \in Scripts
    /\ option \in Option
    /\ tree \in UNION {Submission[p] : p \in DOMAIN Submission}
    /\ at = "start"
    /\ listed = {} /\ todo = {}
    /\ result = [check \in ToSet(Checks) |-> FALSE]
    /\ edits = 0
    /\ seen = tree

\* run_checks: the files are listed once.
Start ==
    /\ at = "start"
    /\ listed' = (IF option.project THEN TextFiles ELSE {}) \cup ({option.lockfile} \cap DOMAIN tree)
    /\ at' = "dependency"
    /\ todo' = {f \in listed' : IsLockfile(f)}
    /\ UNCHANGED <<script, option, tree, result, edits, seen>>

Content(f) == IF f \in DOMAIN tree THEN tree[f] ELSE {}

ReadFile(f, lines) ==
    /\ f \in todo
    /\ at = "notice" => \A g \in todo : Rank(f) <= Rank(g)
    /\ result' = [result EXCEPT ![at] = @ \/ Match(at, lines)]
    /\ todo' = IF Settles(at, lines) THEN {} ELSE todo \ {f}
    /\ UNCHANGED <<script, option, tree, at, listed, seen>>

Read == \E f \in todo : ReadFile(f, Content(f)) /\ UNCHANGED edits

\* _read_safe: an error counts as an empty file.
ReadFails ==
    /\ edits < MaxEdits
    /\ edits' = edits + 1
    /\ \E f \in todo : ReadFile(f, {})

NextCheck ==
    /\ at \in ToSet(Checks) /\ todo = {}
    /\ LET i == CHOOSE i \in DOMAIN Checks : Checks[i] = at
       IN  IF i = Len(Checks) THEN at' = "done" /\ todo' = {}
           ELSE at' = Checks[i + 1] /\ todo' = FilesFor(at')
    /\ UNCHANGED <<script, option, tree, listed, result, edits, seen>>

\* A file of the project is emptied, removed or replaced by another's content.
Edit ==
    /\ at \in ToSet(Checks)
    /\ edits < MaxEdits
    /\ edits' = edits + 1
    /\ \/ \E f, g \in DOMAIN tree : tree' = [tree EXCEPT ![f] = tree[g]]
       \/ \E f \in DOMAIN tree : tree' = [g \in DOMAIN tree \ {f} |-> tree[g]]
    /\ tree' # tree
    /\ seen' = [f \in DOMAIN seen |-> seen[f] \cup IF f \in DOMAIN tree' THEN tree'[f] ELSE {}]
    /\ UNCHANGED <<script, option, at, listed, todo, result>>

Next == Start \/ Read \/ ReadFails \/ NextCheck \/ Edit

Spec == Init /\ [][Next]_vars

\* The exit code: 0 is ISSUE_V0_KEY, 2 is REJECT; there is no 1, HOLD.
ExitCode == IF \A check \in DOMAIN result : result[check] THEN 0 ELSE 2
Issued == at = "done" /\ ExitCode = 0

-----------------------------------------------------------------------------
(* Properties *)

\* The candidates of the first place where a NOTICE mentions AlgoVoi.
Deciding ==
    LET mention == {f \in Notices : MentionsAlgoVoi(Content(f))}
    IN  {f \in mention : \A g \in mention : Rank(f) <= Rank(g)}

\* Some of them name the package, some do not.
NoticesDisagree ==
    \E f, g \in Deciding : Match("notice", Content(f)) /\ ~Match("notice", Content(g))

\* What the scripts ask for, of the project as it is.
Qualifies ==
    /\ \A check \in {"dependency", "anchor", "pin"} :
        \E f \in FilesFor(check) : Match(check, Content(f))
    /\ \E f \in Deciding : Match("notice", Content(f))

\* The order in which files are listed and read does not decide over a key:
\* a project that does not change gets the verdict that its files deserve,
\* unless NOTICE files of the same place disagree about the package.  Then the
\* same project is accepted in one run and rejected in the next.
VerdictReproducible ==
    at = "done" /\ edits = 0 /\ ~NoticesDisagree => (Issued <=> Qualifies)

\* A key is never issued without evidence, whatever is changed or unreadable
\* while the four checks read the files one after the other: a manifest
\* declared the package and one pinned it, a file had an anchor and a NOTICE
\* the package's name, each at some moment of the run.
IssuedOnEvidence ==
    Issued =>
        /\ \E f \in DOMAIN seen : IsLockfile(f) /\ Has(seen[f], Declaring)
        /\ \E f \in DOMAIN seen : IsLockfile(f) /\ Has(seen[f], Pinning)
        /\ \E f \in DOMAIN seen : f \in listed /\ seen[f] \cap script.anchors # {}
        /\ \E f \in DOMAIN seen : Has(seen[f], Naming) /\ (f.name \in NoticeNames \/ f = option.notice)

\* The anchors tell the packages apart: whoever has the vectors of one package
\* only passes the anchor check of no other script, but for the guardrail,
\* whose anchors include one of the passport and one of the mandate.
AnchorsTellApart ==
    at = "done" /\ edits = 0 /\ result["anchor"] =>
        \A other \in Scripts \ {script} :
            {line \in UNION {tree[f] : f \in DOMAIN tree} : line[1] = "anchor"} \subseteq other.anchors =>
                \/ script = SpendGuardrail /\ other \in {AgentPassport, PaymentMandate}
                \/ other = SpendGuardrail /\ script \in {AgentPassport, PaymentMandate}
=============================================================================
