---------------------------- MODULE ProjectFactory ----------------------------
(***************************************************************************)
(* The project factory (runtime/src/project-factory): one project          *)
(* directory, and the command lines that create the project, take it       *)
(* through its lifecycle and authorize its build. Everything is in files.  *)
(* There is no lock and no transaction: a command reads what it needs,     *)
(* then writes one file after another, and writeFileSync empties a file    *)
(* before it fills it. Commands may overlap, may be killed anywhere, and   *)
(* stop halfway at a text they refuse to write.                            *)
(***************************************************************************)
EXTENDS Intake

CONSTANTS None,         \* no file, no command, no authorization
          Empty,        \* a file that is there, with nothing in it
          Proc,         \* command lines
          Creator,      \* those of them that create projects
          Goal,         \* the values of --stop-at
          Raw,          \* the intakes there are
          Caller,       \* who may ask for a build authorization
          HUMAN_FOUNDER,
          MaxCommands   \* bound on the commands started

\* What the intake settles of a project.
Terms(raw) ==
  LET s == ParseIntake(raw)
  IN  [risk_level     |-> s.risk_level,
       security_level |-> s.security_level,
       budget_policy  |-> ResolveBudgetPolicy(
                            BudgetPolicyForRisk(s.risk_level, s.security_level), raw.budget)]

ASSUME FactoryAssumption ==
  /\ Goal \subseteq {"DRAFT", "INTAKE", "DISCOVERY", "SPEC_READY", "PLAN_READY", "READY_FOR_BUILD"}
  /\ MaxCommands \in Nat
  /\ None # Empty /\ None # HUMAN_FOUNDER

VARIABLES dir,        \* whether the project's directory is there
          disk,       \* its files
          proc,       \* what each command line is doing
          commands,
          latest,     \* the definition last written whole
          overlapped, \* whether two commands ever ran at once
          cutShort    \* whether a command was ever killed, or refused a text halfway

factoryVars == <<dir, disk, proc, commands, latest, overlapped, cutShort>>

PROJECT_LIFECYCLE ==
  <<"DRAFT", "INTAKE", "DISCOVERY", "SPEC_READY", "PLAN_READY", "READY_FOR_BUILD">>

\* A file that is absent or empty holds neither a package nor a definition.
ASSUME AbsenceAssumption ==
  LET states == {PROJECT_LIFECYCLE[i] : i \in 1 .. 6}
      terms == {Terms(r) : r \in Raw}
  IN  \A absent \in {None, Empty} :
        /\ absent \notin [id : 1 .. MaxCommands, terms : terms, granted_by : {None, HUMAN_FOUNDER}]
        /\ absent \notin [id : 1 .. MaxCommands, terms : terms,
                          secret : {r.secretName : r \in Raw}, status : states,
                          granted_by : {None, HUMAN_FOUNDER}, history : Seq(states)]

Rank(state) == CHOOSE i \in DOMAIN PROJECT_LIFECYCLE : PROJECT_LIFECYCLE[i] = state

\* Fault: a transition may skip a state.
NextButOne(state) ==
  PROJECT_LIFECYCLE[IF Rank(state) < 5 THEN Rank(state) + 2 ELSE 6]

NextLifecycleState(state) == PROJECT_LIFECYCLE[Rank(state) + 1]

PROJECT_YML == "project.yml"
HANDOFF == "artifacts/runtime-handoff.json"
LOG == "state/lifecycle.md"

Documents(state) ==
  CASE state = "INTAKE"     -> {"brief"}
    [] state = "DISCOVERY"  -> {"requirements", "business-rules"}
    [] state = "SPEC_READY" -> {"user-stories", "acceptance-criteria"}
    [] state = "PLAN_READY" -> {"build-plan"}
    [] OTHER                -> {}

StatesUpTo(state) == {PROJECT_LIFECYCLE[i] : i \in 1 .. Rank(state)}
DocumentsUpTo(state) == UNION {Documents(s) : s \in StatesUpTo(state)}
AllDocuments == DocumentsUpTo("READY_FOR_BUILD")
ProductSpec == DocumentsUpTo("SPEC_READY")
File == AllDocuments \cup {PROJECT_YML, HANDOFF, LOG}

Whole(file) == disk[file] \notin {None, Empty}

-------------------------------------------------------------------------------
(***************************************************************************)
(* A command is a sequence of file operations, most of them writes.        *)
(***************************************************************************)
Open(file) == [do |-> "open", file |-> file]
Fill(file) == [do |-> "fill", file |-> file]
Write(file) == <<Open(file), Fill(file)>>
LookForDir == [do |-> "look", file |-> None]
MakeDir == [do |-> "make", file |-> None]
AssembleHandoff == [do |-> "assemble", file |-> None]
Operation ==
  [do : {"open", "fill"}, file : File] \cup {LookForDir, MakeDir, AssembleHandoff}

Materialize(state) ==
  CASE state = "INTAKE"     -> Write("brief")
    [] state = "DISCOVERY"  -> Write("requirements") \o Write("business-rules")
    [] state = "SPEC_READY" -> Write("user-stories") \o Write("acceptance-criteria")
    [] state = "PLAN_READY" -> Write("build-plan")
    [] OTHER                -> <<AssembleHandoff>> \o Write(HANDOFF)

CreateProgram == <<LookForDir, MakeDir>> \o Write(PROJECT_YML) \o Write(LOG)

\* Fault: the definition is saved before what it promises.
AdvanceDefinitionFirst(state) == Write(PROJECT_YML) \o Materialize(state) \o Write(LOG)

AdvanceProgram(state) == Materialize(state) \o Write(PROJECT_YML) \o Write(LOG)

\* Fault: the package the Runtime is given stays as it was.
AuthorizeDefinitionOnly == <<AssembleHandoff>> \o Write(PROJECT_YML) \o Write(LOG)

AuthorizeProgram ==
  <<AssembleHandoff>> \o Write(HANDOFF) \o Write(PROJECT_YML) \o Write(LOG)

-------------------------------------------------------------------------------
Idle == [op |-> None, todo |-> <<>>, def |-> None, pkg |-> None, goal |-> None]

NewDefinition(raw, id) ==
  [id |-> id, terms |-> Terms(raw), secret |-> raw.secretName,
   status |-> "DRAFT", granted_by |-> None, history |-> <<"DRAFT">>]

\* buildHandoffPackage. The inherited governance is in every package alike.
Package(def) == [id |-> def.id, terms |-> def.terms, granted_by |-> def.granted_by]

\* What createProject refuses before it touches the disk.
CreateRefused(raw) ==
  IntakeRefused(raw) \/ BudgetRefused(raw.budget) \/ ~raw.fits \/ disk[PROJECT_YML] # None

Begin(p, op, def, goal, todo) ==
  /\ proc[p] = Idle /\ commands < MaxCommands
  /\ proc' = [proc EXCEPT ![p] = [op |-> op, todo |-> todo, def |-> def,
                                  pkg |-> None, goal |-> goal]]
  /\ commands' = commands + 1
  /\ overlapped' = (overlapped \/ \E q \in Proc \ {p} : proc[q] # Idle)
  /\ UNCHANGED <<dir, disk, latest, cutShort>>

\* ai-company new (not while the runtime is paused).
StartCreate(p) ==
  \E raw \in Raw, goal \in Goal :
    /\ p \in Creator
    /\ ~CreateRefused(raw)
    /\ Begin(p, "create", NewDefinition(raw, commands + 1), goal, CreateProgram)

Advanced(def) ==
  LET next == NextLifecycleState(def.status)
  IN  [def EXCEPT !.status = next, !.history = Append(@, next)]

\* advanceProject: every document of the states reached is there, and not empty.
\* (A definition that is empty cannot be loaded.)
MayAdvance ==
  /\ Whole(PROJECT_YML)
  /\ disk[PROJECT_YML].status # "READY_FOR_BUILD"
  /\ \A d \in DocumentsUpTo(disk[PROJECT_YML].status) : Whole(d)

StartAdvance(p) ==
  /\ MayAdvance
  /\ LET def == Advanced(disk[PROJECT_YML])
     IN  Begin(p, "advance", def, def.status, AdvanceProgram(def.status))

\* Fault: a build can be authorized before the project is ready for it.
MayAuthorizeEarly(by) ==
  /\ Whole(PROJECT_YML) /\ by = HUMAN_FOUNDER
  /\ disk[PROJECT_YML].granted_by = None

MayAuthorize(by) ==
  /\ Whole(PROJECT_YML) /\ by = HUMAN_FOUNDER
  /\ disk[PROJECT_YML].status = "READY_FOR_BUILD"
  /\ disk[PROJECT_YML].granted_by = None

StartAuthorize(p) ==
  \E by \in Caller :
    /\ MayAuthorize(by)
    /\ LET def == [disk[PROJECT_YML] EXCEPT !.granted_by = by,
                                            !.history = Append(@, "READY_FOR_BUILD")]
       IN  Begin(p, "authorize", def, def.status, AuthorizeProgram)

\* ai-company project verify: what it reports of the files as they are.
Verify ==
  [ok         |-> Whole(PROJECT_YML) /\ disk[HANDOFF] # Empty,
   authorized |-> IF Whole(HANDOFF) THEN disk[HANDOFF].granted_by # None ELSE FALSE]

-------------------------------------------------------------------------------
Running(p, op) ==
  /\ proc[p].todo # <<>> /\ Head(proc[p].todo).do = op

Proceed(p) == proc' = [proc EXCEPT ![p].todo = Tail(@)]
End(p) == proc' = [proc EXCEPT ![p] = Idle]

\* scaffold: looks for the directory, then makes it, whoever made it meanwhile.
LookForDirectory(p) ==
  /\ Running(p, "look")
  /\ IF dir THEN End(p) ELSE Proceed(p)
  /\ UNCHANGED <<dir, disk, latest>>

MakeDirectory(p) ==
  /\ Running(p, "make")
  /\ dir' = TRUE /\ Proceed(p)
  /\ UNCHANGED <<disk, latest>>

\* assembleHandoff reads the product documents and stops at one that is empty.
Assemble(p) ==
  /\ Running(p, "assemble")
  /\ IF \A d \in ProductSpec : Whole(d)
     THEN proc' = [proc EXCEPT ![p].todo = Tail(@), ![p].pkg = Package(proc[p].def)]
     ELSE End(p)
  /\ UNCHANGED <<dir, disk, latest>>

\* A definition with a secret in it is refused just before it would be written;
\* its directory stays.
OpenFile(p) ==
  /\ Running(p, "open")
  /\ LET file == Head(proc[p].todo).file
     IN  IF file = PROJECT_YML /\ proc[p].def.secret
         THEN End(p) /\ UNCHANGED disk
         ELSE Proceed(p) /\ disk' = [disk EXCEPT ![file] = Empty]
  /\ UNCHANGED <<dir, latest>>

Content(p, file) ==
  CASE file = PROJECT_YML -> proc[p].def
    [] file = HANDOFF     -> proc[p].pkg
    [] file = LOG         -> proc[p].def.history
    [] OTHER              -> proc[p].def.id

FillFile(p) ==
  /\ Running(p, "fill")
  /\ LET file == Head(proc[p].todo).file
     IN  /\ disk' = [disk EXCEPT ![file] = Content(p, file)]
         /\ latest' = IF file = PROJECT_YML THEN proc[p].def ELSE latest
  /\ Proceed(p)
  /\ UNCHANGED dir

\* Fault: the loop of createProject advances the definition it began with.
TakeTurnStale(p) ==
  /\ proc[p] # Idle /\ proc[p].todo = <<>>
  /\ IF proc[p].def.status = proc[p].goal THEN End(p)
     ELSE proc' = [proc EXCEPT ![p].todo = AdvanceProgram(Advanced(proc[p].def).status)]
  /\ UNCHANGED <<dir, disk, latest>>

\* The end of a command, or the next turn of createProject's loop.
TakeTurn(p) ==
  /\ proc[p] # Idle /\ proc[p].todo = <<>>
  /\ IF proc[p].def.status = proc[p].goal THEN End(p)
     ELSE LET def == Advanced(proc[p].def)
          IN  proc' = [proc EXCEPT ![p].def = def, ![p].todo = AdvanceProgram(def.status)]
  /\ UNCHANGED <<dir, disk, latest>>

Step(p) ==
  /\ \/ LookForDirectory(p)
     \/ MakeDirectory(p)
     \/ Assemble(p)
     \/ OpenFile(p)
     \/ FillFile(p)
     \/ TakeTurn(p)
  /\ UNCHANGED <<commands, overlapped, cutShort>>

Cut(p) ==
  /\ End(p) /\ cutShort' = TRUE
  /\ UNCHANGED <<dir, disk, commands, latest, overlapped>>

\* A document, the log or the package that looks like a secret, or a package that is
\* not valid, is refused before its file is touched; what was written before stays.
RefuseText(p) ==
  /\ \/ Running(p, "assemble")
     \/ Running(p, "open") /\ Head(proc[p].todo).file # PROJECT_YML
  /\ Cut(p)

Kill(p) == proc[p] # Idle /\ Cut(p)

FactoryInit ==
  /\ dir = FALSE
  /\ disk = [f \in File |-> None]
  /\ proc = [p \in Proc |-> Idle]
  /\ commands = 0 /\ latest = None
  /\ overlapped = FALSE /\ cutShort = FALSE

FactoryNext ==
  \E p \in Proc : \/ StartCreate(p) \/ StartAdvance(p) \/ StartAuthorize(p)
                  \/ Step(p) \/ RefuseText(p) \/ Kill(p)

FactorySpec == FactoryInit /\ [][FactoryNext]_factoryVars

\* A command is one synchronous program: it goes on until it ends or is killed.
FairFactorySpec == FactorySpec /\ \A p \in Proc : WF_factoryVars(Step(p))
===============================================================================
