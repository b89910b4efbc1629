------------------------------ MODULE Workspace ------------------------------
(***************************************************************************)
(* The disposable project a proof works in                                 *)
(* (runtime/src/proof/proof-workspace.ts), the command classes of it and   *)
(* of the local sandbox (runtime/src/sandbox/local-sandbox.ts), and the    *)
(* gates that judge a change (runtime/src/agents/implementation-gates.ts). *)
(*                                                                         *)
(* A path is the record of what the code looks at in one: where it points, *)
(* whether it looks like a secret, what kind of file it names, and whether *)
(* the project's own commands leave output there.                          *)
(***************************************************************************)
EXTENDS Naturals, FiniteSets, Sequences

CONSTANTS
          None,     \* no such file, no commit
          Path,     \* [place, secretLike, code, dir, mark, output]
          Content,  \* the contents a file can have
          Traits,   \* Content -> SUBSET {"secret", "token", "dependency", "dangerous"}
          Seed      \* what the fixture holds: [Path -> Content \cup {None}]

WorkspaceAssumption ==
  /\ None \notin Content
  /\ Seed \in [Path -> Content \cup {None}]

VARIABLES files,  \* the working tree
          root,   \* the tree of the first commit, once there is one
          git     \* environment: "works", "diff fails" or "unavailable"

workspaceVars == <<files, root, git>>

\* The constructor copies the fixture into an empty directory; a directory that
\* holds something already (a resumed proof) is left as it is. git init comes later.
WorkspaceInit ==
  /\ files = Seed
  /\ root = None
  /\ git \in {"works", "diff fails", "unavailable"}

-------------------------------------------------------------------------------
\* safePath: empty, absolute, climbing and hidden paths are refused for every
\* operation, secret-like ones for those that write.
Writes == {"write", "patch"}

\* Fault: only the contents of a secret are looked for, not its name.
SafePathAnyName(p, op) == p.place = "inside"

SafePath(p, op) == p.place = "inside" /\ (op \in Writes => ~p.secretLike)

Exists(p) == files[p] # None

\* write, patch and read throw when they cannot; then the files stay.
CanWrite(p) == SafePath(p, "write")
CanPatch(p, find) == SafePath(p, "patch") /\ Exists(p) /\ files[p] = find
CanRead(p) == SafePath(p, "read") /\ Exists(p)

-------------------------------------------------------------------------------
(***************************************************************************)
(* Commands, by the words found in them.                                   *)
(***************************************************************************)
CommandTrait ==
  {"hard", "destroys", "deploys", "network", "publishes", "installs", "tests", "redirects", "listed"}

\* ProofWorkspace.classifyCommand
ClassifyCommand(c) ==
  IF c \cap {"hard", "deploys", "publishes"} # {} THEN "DESTRUCTIVE"
  ELSE IF "network" \in c THEN "EXTERNAL_WRITE"
  ELSE IF c \cap {"installs", "tests"} # {} THEN "DEVELOPMENT_WRITE" ELSE "READ_ONLY"

\* LocalSandbox.classify
ClassifyInSandbox(c) ==
  IF c \cap {"hard", "destroys"} # {} THEN "DESTRUCTIVE"
  ELSE IF "deploys" \in c THEN "PRODUCTION_WRITE"
  ELSE IF c \cap {"network", "publishes"} # {} THEN "EXTERNAL_WRITE"
  ELSE IF c \cap {"installs", "redirects"} # {} THEN "DEVELOPMENT_WRITE" ELSE "READ_ONLY"

\* ProofWorkspace.exec refuses by class and then takes only what its list names;
\* LocalSandbox.exec only by class, and writes only for a caller who may.
MayExec(c) == ClassifyCommand(c) \in {"READ_ONLY", "DEVELOPMENT_WRITE"} /\ "listed" \in c

MayExecInSandbox(c, allowWrite, disposed) ==
  /\ ~disposed
  /\ \/ ClassifyInSandbox(c) = "READ_ONLY"
     \/ ClassifyInSandbox(c) = "DEVELOPMENT_WRITE" /\ allowWrite

NpmTest == {"tests", "listed"}

-------------------------------------------------------------------------------
(***************************************************************************)
(* git. The first use of it makes the first commit of what is there then,  *)
(* or adopts the first commit a proof before this one made.                *)
(***************************************************************************)
EnsureGit == root' = IF root = None /\ git # "unavailable" THEN files ELSE root

ChangedSince(tree) == {p \in Path : files[p] # tree[p]}

\* What diff() shows: the changed paths, or nothing when it has no commit to
\* compare with or fails. Evaluated after EnsureGit: `base` is the first commit.
Diff(base) == IF git = "works" THEN ChangedSince(base) ELSE {}

\* A diff that fails reads as a change; one that git is missing for does not.
HasChanges(base) ==
  \/ git = "works" /\ ChangedSince(base) # {}
  \/ git = "diff fails"

\* snapshot commits the tree and gives its name; restore goes back to one and
\* removes what came after. Without git there is nothing to go back to.
Snapshot == IF git = "unavailable" THEN None ELSE files
Restored(rev) == IF rev = None THEN files ELSE rev

-------------------------------------------------------------------------------
(***************************************************************************)
(* The gates.                                                              *)
(***************************************************************************)
\* A directory named tests hides a file from both.
IsSourceFile(p) == p.code /\ p.dir = None /\ p.mark = None
IsTestFile(p) == p.dir = "test" \/ (p.code /\ p.mark # None)

\* The evidence of one `npm test`: the exit code and what could be counted.
TestEvidence == [exitCode : 0 .. 1, passed : 0 .. 1, failed : 0 .. 1, ran : BOOLEAN]

Green(e) == e.exitCode = 0 /\ e.failed = 0 /\ e.passed > 0

\* deterministicSecurityChecks: no secret in what was or is in a changed file, no
\* dependency and no dangerous call in what is.
TraitsOf(c) == IF c = None THEN {} ELSE Traits[c]

SecurityChecksPass(base) ==
  \A p \in Diff(base) :
    /\ "secret" \notin TraitsOf(files[p]) \cup TraitsOf(base[p])
    /\ TraitsOf(files[p]) \cap {"dependency", "dangerous"} = {}

\* requireInSource, over the files the workspace lists. With no such requirement
\* the code says null, which is no objection.
SourceContainsRequired(plan) ==
  plan.requireInSource => \E p \in Path : p.code /\ "token" \in TraitsOf(files[p])

\* Fault: tests that pass excuse everything the change lacks.
DecideByTests(i) == IF i.tests # None /\ Green(i.tests) THEN i.baseStatus ELSE "FAIL"

\* decideImplementationOutcome: what the change lacks blocks it, and what the
\* tests and the scan found fails it, over whatever the model said of itself.
DecideImplementationOutcome(i) ==
  LET wroteSource == \E p \in i.changedFiles : IsSourceFile(p)
      wroteTest == \E p \in i.changedFiles : IsTestFile(p)
      blocked ==
        \/ i.requireWorkspaceChange /\ ~i.hadChangeAttempt /\ i.changedFiles = {}
        \/ i.requireWorkspaceChange /\ ~wroteSource /\ i.changedFiles # {}
        \/ i.requireTestChange /\ ~wroteTest
        \/ i.requireWorkspaceChange /\ ~i.workspaceHasChanges
        \/ ~i.sourceContainsRequired
      failed ==
        \/ i.tests # None /\ (~Green(i.tests) \/ ~i.tests.ran)
        \/ ~i.securityPasses
  IN  IF failed THEN "FAIL" ELSE IF blocked THEN "BLOCKED" ELSE i.baseStatus

\* evaluateImplementationGates judges what a harness left behind: it is not asked
\* for its opinion, and its changed files are those git names.
HarnessOutcome(plan, succeeded, changed, tests, base) ==
  DecideImplementationOutcome(
    [changedFiles           |-> changed,
     hadChangeAttempt       |-> succeeded \/ changed # {},
     workspaceHasChanges    |-> HasChanges(base),
     sourceContainsRequired |-> SourceContainsRequired(plan),
     tests                  |-> tests,
     securityPasses         |-> plan.runSecurityScan => SecurityChecksPass(base),
     requireWorkspaceChange |-> plan.requireWorkspaceChange,
     requireTestChange      |-> plan.requireTestChange,
     baseStatus             |-> "PASS"])
===============================================================================
