---------------------------- MODULE ProjectProofs ----------------------------
(***************************************************************************)
(* Machine-checked proofs about ProjectFactory, for any intakes and any    *)
(* number of command lines that overlap and are killed as they may.        *)
(***************************************************************************)
EXTENDS ProjectSafety, SequenceTheorems, TLAPS

States == {PROJECT_LIFECYCLE[i] : i \in 1 .. 6}

LEMMA Lifecycle ==
  /\ PROJECT_LIFECYCLE \in Seq(States) /\ Len(PROJECT_LIFECYCLE) = 6
  /\ PROJECT_LIFECYCLE[1] = "DRAFT" /\ PROJECT_LIFECYCLE[2] = "INTAKE"
  /\ PROJECT_LIFECYCLE[3] = "DISCOVERY" /\ PROJECT_LIFECYCLE[4] = "SPEC_READY"
  /\ PROJECT_LIFECYCLE[5] = "PLAN_READY" /\ PROJECT_LIFECYCLE[6] = "READY_FOR_BUILD"
  /\ States = {"DRAFT", "INTAKE", "DISCOVERY", "SPEC_READY", "PLAN_READY", "READY_FOR_BUILD"}
<1>1. /\ Len(PROJECT_LIFECYCLE) = 6
      /\ PROJECT_LIFECYCLE[1] = "DRAFT" /\ PROJECT_LIFECYCLE[2] = "INTAKE"
      /\ PROJECT_LIFECYCLE[3] = "DISCOVERY" /\ PROJECT_LIFECYCLE[4] = "SPEC_READY"
      /\ PROJECT_LIFECYCLE[5] = "PLAN_READY" /\ PROJECT_LIFECYCLE[6] = "READY_FOR_BUILD"
  BY DEF PROJECT_LIFECYCLE
<1>2. \A x : x \in States <=> \E i \in {1, 2, 3, 4, 5, 6} : x = PROJECT_LIFECYCLE[i]
  BY DEF States
<1>3. States = {"DRAFT", "INTAKE", "DISCOVERY", "SPEC_READY", "PLAN_READY", "READY_FOR_BUILD"}
  BY <1>1, <1>2
<1>4. PROJECT_LIFECYCLE \in Seq(States)
  BY <1>3 DEF PROJECT_LIFECYCLE
<1> QED
  BY <1>1, <1>3, <1>4

\* Every state has its rank, and no state has another's.
LEMMA Ranks ==
  /\ Rank("DRAFT") = 1 /\ Rank("INTAKE") = 2 /\ Rank("DISCOVERY") = 3
  /\ Rank("SPEC_READY") = 4 /\ Rank("PLAN_READY") = 5 /\ Rank("READY_FOR_BUILD") = 6
<1>1. DOMAIN PROJECT_LIFECYCLE = {1, 2, 3, 4, 5, 6}
  BY DEF PROJECT_LIFECYCLE
<1> QED
  BY <1>1, Lifecycle DEF Rank

\* The state that follows another is the next in rank.
LEMMA NextState ==
  ASSUME NEW s \in States, s # "READY_FOR_BUILD"
  PROVE  /\ NextLifecycleState(s) \in States \ {"DRAFT"}
         /\ Rank(NextLifecycleState(s)) = Rank(s) + 1
         /\ Rank(s) \in 1 .. 5
         /\ PROJECT_LIFECYCLE[Rank(s) + 1] = NextLifecycleState(s)
  BY Lifecycle, Ranks DEF NextLifecycleState

\* The lifecycle up to a state, and one state more.
LEMMA LifecycleGrows ==
  /\ SubSeq(PROJECT_LIFECYCLE, 1, 1) = <<"DRAFT">>
  /\ \A k \in 1 .. 5 : SubSeq(PROJECT_LIFECYCLE, 1, k + 1)
                        = SubSeq(PROJECT_LIFECYCLE, 1, k) \o <<PROJECT_LIFECYCLE[k + 1]>>
<1>1. ASSUME NEW n \in 1 .. 6
      PROVE  SubSeq(PROJECT_LIFECYCLE, 1, n)
               = SubSeq(PROJECT_LIFECYCLE, 1, n - 1) \o <<PROJECT_LIFECYCLE[n]>>
  <2>1. 1 \in 1 .. Len(PROJECT_LIFECYCLE) /\ n \in 1 .. Len(PROJECT_LIFECYCLE)
    BY Lifecycle
  <2> QED
    BY <2>1, Lifecycle, SubSeqRecursiveSecond
<1>2. SubSeq(PROJECT_LIFECYCLE, 1, 0) = <<>>
  BY SubSeqEmpty
<1>3. SubSeq(PROJECT_LIFECYCLE, 1, 1) = <<"DRAFT">>
  <2>1. SubSeq(PROJECT_LIFECYCLE, 1, 1) = <<>> \o <<"DRAFT">>
    <3>1. 1 \in 1 .. 6 /\ 1 - 1 = 0
      OBVIOUS
    <3>2. SubSeq(PROJECT_LIFECYCLE, 1, 1)
            = SubSeq(PROJECT_LIFECYCLE, 1, 1 - 1) \o <<PROJECT_LIFECYCLE[1]>>
      BY <1>1, <3>1
    <3> QED
      BY <1>2, <3>1, <3>2, Lifecycle
  <2>2. <<"DRAFT">> \in Seq(States)
    BY Lifecycle
  <2> QED
    BY <2>1, <2>2, ConcatEmptySeq
<1>4. ASSUME NEW k \in 1 .. 5
      PROVE  SubSeq(PROJECT_LIFECYCLE, 1, k + 1)
               = SubSeq(PROJECT_LIFECYCLE, 1, k) \o <<PROJECT_LIFECYCLE[k + 1]>>
  <2>1. k + 1 \in 1 .. 6 /\ (k + 1) - 1 = k
    OBVIOUS
  <2> QED
    BY <1>1, <2>1
<1> QED
  BY <1>3, <1>4

-------------------------------------------------------------------------------
PackageSet ==
  [id : 1 .. MaxCommands, terms : {Terms(r) : r \in Raw}, granted_by : {None, HUMAN_FOUNDER}]

\* A definition whose history is the one its state and its authorization call for.
SoundDefinition ==
  {d \in [id : 1 .. MaxCommands, terms : {Terms(r) : r \in Raw},
          secret : {r.secretName : r \in Raw}, status : States,
          granted_by : {None, HUMAN_FOUNDER}, history : Seq(States)] :
     /\ d.history = HistoryOf(d)
     /\ d.granted_by # None => d.status = "READY_FOR_BUILD"}

\* createProject begins with a sound definition.
LEMMA NewIsSound ==
  ASSUME NEW raw \in Raw, NEW id \in 1 .. MaxCommands
  PROVE  NewDefinition(raw, id) \in SoundDefinition
<1> DEFINE d == NewDefinition(raw, id)
<1>1. HistoryOf(d) = SubSeq(PROJECT_LIFECYCLE, 1, 1) \o <<>>
  BY Ranks DEF HistoryOf, NewDefinition
<1>2. SubSeq(PROJECT_LIFECYCLE, 1, 1) = <<"DRAFT">>
  BY LifecycleGrows
<1>3. <<"DRAFT">> \in Seq(States) /\ <<"DRAFT">> \o <<>> = <<"DRAFT">>
  BY Lifecycle
<1> QED
  BY <1>1, <1>2, <1>3, Lifecycle DEF SoundDefinition, NewDefinition

\* A sound definition that is advanced is sound (advanceProject).
LEMMA AdvancedIsSound ==
  ASSUME NEW def \in SoundDefinition, def.status # "READY_FOR_BUILD"
  PROVE  /\ Advanced(def) \in SoundDefinition
         /\ Rank(Advanced(def).status) = Rank(def.status) + 1
<1> DEFINE next == NextLifecycleState(def.status)
           d == Advanced(def)
<1>1. /\ next \in States /\ Rank(next) = Rank(def.status) + 1 /\ Rank(def.status) \in 1 .. 5
      /\ PROJECT_LIFECYCLE[Rank(def.status) + 1] = next
  BY NextState DEF SoundDefinition
<1>2. /\ d.id = def.id /\ d.terms = def.terms /\ d.secret = def.secret /\ d.status = next
      /\ d.granted_by = None /\ d.history = Append(def.history, next)
      /\ def.granted_by = None
  BY FactoryAssumption DEF Advanced, SoundDefinition
<1>3. def.history = SubSeq(PROJECT_LIFECYCLE, 1, Rank(def.status))
  <2>1. SubSeq(PROJECT_LIFECYCLE, 1, Rank(def.status)) \in Seq(States)
    BY <1>1, Lifecycle
  <2> QED
    BY <1>2, <2>1, ConcatEmptySeq DEF SoundDefinition, HistoryOf
<1>4. SubSeq(PROJECT_LIFECYCLE, 1, Rank(next))
        = SubSeq(PROJECT_LIFECYCLE, 1, Rank(def.status)) \o <<next>>
  BY <1>1, LifecycleGrows
<1>5. SubSeq(PROJECT_LIFECYCLE, 1, Rank(next)) \in Seq(States)
  BY <1>1, Lifecycle
<1>6. d.history = HistoryOf(d)
  <2>1. d.history = SubSeq(PROJECT_LIFECYCLE, 1, Rank(next))
    BY <1>1, <1>2, <1>3, <1>4, AppendIsConcat DEF SoundDefinition
  <2> QED
    BY <1>2, <1>5, <2>1, ConcatEmptySeq DEF HistoryOf
<1>7. d.history \in Seq(States)
  BY <1>1, <1>2, AppendProperties DEF SoundDefinition
<1> QED
  BY <1>1, <1>2, <1>6, <1>7 DEF SoundDefinition, Advanced

\* So is one that the founder authorizes when it is ready (authorizeBuild).
LEMMA AuthorizedIsSound ==
  ASSUME NEW def \in SoundDefinition, def.status = "READY_FOR_BUILD", def.granted_by = None
  PROVE  [def EXCEPT !.granted_by = HUMAN_FOUNDER, !.history = Append(@, "READY_FOR_BUILD")]
           \in SoundDefinition
<1> DEFINE d == [def EXCEPT !.granted_by = HUMAN_FOUNDER,
                            !.history = Append(@, "READY_FOR_BUILD")]
<1>1. /\ d.id = def.id /\ d.terms = def.terms /\ d.secret = def.secret
      /\ d.status = "READY_FOR_BUILD" /\ d.granted_by = HUMAN_FOUNDER
      /\ d.history = Append(def.history, "READY_FOR_BUILD")
  BY DEF SoundDefinition
<1>2. SubSeq(PROJECT_LIFECYCLE, 1, 6) \in Seq(States) /\ "READY_FOR_BUILD" \in States
  BY Lifecycle
<1> DEFINE whole == SubSeq(PROJECT_LIFECYCLE, 1, 6)
<1>3. def.history = whole
  <2>1. def.history = whole \o <<>>
    BY Ranks DEF SoundDefinition, HistoryOf
  <2> HIDE DEF whole
  <2> QED
    BY <1>2, <2>1, ConcatEmptySeq DEF whole
<1>4. d.history = HistoryOf(d)
  <2>1. HistoryOf(d) = whole \o <<"READY_FOR_BUILD">>
    BY <1>1, Ranks, FactoryAssumption DEF HistoryOf
  <2>2. d.history = Append(whole, "READY_FOR_BUILD")
    BY <1>1, <1>3
  <2> HIDE DEF whole, d
  <2> QED
    BY <1>2, <2>1, <2>2, AppendIsConcat DEF whole
<1>5. d.history \in Seq(States)
  BY <1>1, <1>2, <1>3, AppendProperties
<1> QED
  BY <1>1, <1>2, <1>4, <1>5 DEF SoundDefinition

\* The package of a sound definition.
LEMMA PackageTyped ==
  ASSUME NEW def \in SoundDefinition
  PROVE  Package(def) \in PackageSet
  BY DEF Package, PackageSet, SoundDefinition

-------------------------------------------------------------------------------
(***************************************************************************)
(* What is still to do of a command never fills the package before it has  *)
(* assembled it, nor a definition that is ready before it has opened the   *)
(* package.                                                                *)
(***************************************************************************)
AssembledBeforeFilled(todo, pkg) ==
  \A i \in 1 .. Len(todo) :
    todo[i] = Fill(HANDOFF) =>
      pkg \in PackageSet \/ \E j \in 1 .. i - 1 : todo[j] = AssembleHandoff

OpenedBeforeReady(todo, handoff) ==
  \A i \in 1 .. Len(todo) :
    todo[i] = Fill(PROJECT_YML) =>
      handoff # None \/ \E j \in 1 .. i - 1 : todo[j] = Open(HANDOFF)

LEMMA OperationsTyped ==
  /\ LookForDir \in Operation /\ MakeDir \in Operation /\ AssembleHandoff \in Operation
  /\ \A f \in File : Open(f) \in Operation /\ Fill(f) \in Operation
  BY DEF LookForDir, MakeDir, AssembleHandoff, Operation, Open, Fill

LEMMA FilesTyped ==
  {"brief", "requirements", "business-rules", "user-stories", "acceptance-criteria",
   "build-plan", PROJECT_YML, HANDOFF, LOG} \subseteq File
<1>1. \A s \in States : Documents(s) \subseteq AllDocuments
  <2>1. StatesUpTo("READY_FOR_BUILD") = States
    BY Ranks DEF StatesUpTo, States
  <2> QED
    BY <2>1 DEF AllDocuments, DocumentsUpTo
<1>2. /\ Documents("INTAKE") = {"brief"}
      /\ Documents("DISCOVERY") = {"requirements", "business-rules"}
      /\ Documents("SPEC_READY") = {"user-stories", "acceptance-criteria"}
      /\ Documents("PLAN_READY") = {"build-plan"}
  BY DEF Documents
<1>3. {"INTAKE", "DISCOVERY", "SPEC_READY", "PLAN_READY"} \subseteq States
  BY Lifecycle
<1> QED
  BY <1>1, <1>2, <1>3 DEF File

LEMMA WriteIs ==
  ASSUME NEW f \in File
  PROVE  /\ Write(f) \in Seq(Operation) /\ Len(Write(f)) = 2
         /\ Write(f)[1] = Open(f) /\ Write(f)[2] = Fill(f)
  BY OperationsTyped DEF Write

\* One more file that is written: its package is assembled, or it is no package;
\* the package is opened, or it is no definition.
LEMMA OneMoreWrite ==
  ASSUME NEW t \in Seq(Operation), NEW f \in File
  PROVE  /\ t \o Write(f) \in Seq(Operation)
         /\ Len(t \o Write(f)) = Len(t) + 2
         /\ \A i \in 1 .. Len(t) : (t \o Write(f))[i] = t[i]
         /\ (t \o Write(f))[Len(t) + 1] = Open(f)
         /\ (t \o Write(f))[Len(t) + 2] = Fill(f)
<1>1. /\ Write(f) \in Seq(Operation) /\ Len(Write(f)) = 2
      /\ Write(f)[1] = Open(f) /\ Write(f)[2] = Fill(f)
  BY WriteIs
<1> DEFINE w == Write(f)
<1>0. w \in Seq(Operation) /\ Len(w) = 2 /\ w[1] = Open(f) /\ w[2] = Fill(f)
  BY <1>1
<1> HIDE DEF w
<1>2. /\ t \o w \in Seq(Operation) /\ Len(t \o w) = Len(t) + 2
      /\ \A i \in 1 .. Len(t) + 2 :
           (t \o w)[i] = IF i <= Len(t) THEN t[i] ELSE w[i - Len(t)]
  <2>1. /\ t \o w \in Seq(Operation) /\ Len(t \o w) = Len(t) + Len(w)
        /\ \A i \in 1 .. Len(t) + Len(w) :
             (t \o w)[i] = IF i <= Len(t) THEN t[i] ELSE w[i - Len(t)]
    BY ONLY <1>0, ConcatProperties, Zenon
  <2> QED
    BY <1>0, <2>1
<1>3. Len(t) \in Nat
  BY LenProperties
<1>4. /\ (Len(t) + 1) - Len(t) = 1 /\ (Len(t) + 2) - Len(t) = 2
      /\ Len(t) + 1 \in 1 .. Len(t) + 2 /\ Len(t) + 2 \in 1 .. Len(t) + 2
      /\ ~(Len(t) + 1 <= Len(t)) /\ ~(Len(t) + 2 <= Len(t))
  BY <1>3
<1>5. (t \o w)[Len(t) + 1] = w[1] /\ (t \o w)[Len(t) + 2] = w[2]
  BY <1>2, <1>4
<1>6. \A i \in 1 .. Len(t) : (t \o w)[i] = t[i]
  BY <1>2, <1>3
<1> QED
  BY <1>0, <1>2, <1>5, <1>6 DEF w

LEMMA FillsDiffer ==
  ASSUME NEW f, NEW g
  PROVE  /\ Open(f) # Fill(g)
         /\ Fill(f) = Fill(g) => f = g
         /\ AssembleHandoff # Fill(f) /\ LookForDir # Fill(f) /\ MakeDir # Fill(f)
  BY DEF Open, Fill, AssembleHandoff, LookForDir, MakeDir

LEMMA StaysAssembled ==
  ASSUME NEW t \in Seq(Operation), NEW f \in File, NEW pkg,
         AssembledBeforeFilled(t, pkg),
         \/ f # HANDOFF
         \/ \E j \in 1 .. Len(t) : t[j] = AssembleHandoff
  PROVE  AssembledBeforeFilled(t \o Write(f), pkg)
<1> DEFINE u == t \o Write(f)
<1>0. Len(t) \in Nat /\ Len(u) = Len(t) + 2
  BY OneMoreWrite, LenProperties
<1>1. SUFFICES ASSUME NEW i \in 1 .. Len(u), u[i] = Fill(HANDOFF)
               PROVE  pkg \in PackageSet \/ \E j \in 1 .. i - 1 : u[j] = AssembleHandoff
  BY DEF AssembledBeforeFilled
<1>2. CASE i \in 1 .. Len(t)
  <2>1. t[i] = Fill(HANDOFF)
    BY <1>1, <1>2, OneMoreWrite
  <2>2. pkg \in PackageSet \/ \E j \in 1 .. i - 1 : t[j] = AssembleHandoff
    BY <1>2, <2>1 DEF AssembledBeforeFilled
  <2> QED
    BY <1>0, <1>2, <2>2, OneMoreWrite
<1>3. CASE i = Len(t) + 1
  BY <1>1, <1>3, OneMoreWrite, FillsDiffer
<1>4. CASE i = Len(t) + 2
  <2>1. f = HANDOFF
    BY <1>1, <1>4, OneMoreWrite, FillsDiffer
  <2>2. PICK j \in 1 .. Len(t) : t[j] = AssembleHandoff
    BY <2>1
  <2> QED
    BY <1>0, <1>4, <2>2, OneMoreWrite
<1> QED
  BY <1>0, <1>2, <1>3, <1>4

LEMMA StaysOpened ==
  ASSUME NEW t \in Seq(Operation), NEW f \in File, NEW handoff,
         OpenedBeforeReady(t, handoff),
         \/ f # PROJECT_YML
         \/ \E j \in 1 .. Len(t) : t[j] = Open(HANDOFF)
  PROVE  OpenedBeforeReady(t \o Write(f), handoff)
<1> DEFINE u == t \o Write(f)
<1>0. Len(t) \in Nat /\ Len(u) = Len(t) + 2
  BY OneMoreWrite, LenProperties
<1>1. SUFFICES ASSUME NEW i \in 1 .. Len(u), u[i] = Fill(PROJECT_YML)
               PROVE  handoff # None \/ \E j \in 1 .. i - 1 : u[j] = Open(HANDOFF)
  BY DEF OpenedBeforeReady
<1>2. CASE i \in 1 .. Len(t)
  <2>1. t[i] = Fill(PROJECT_YML)
    BY <1>1, <1>2, OneMoreWrite
  <2>2. handoff # None \/ \E j \in 1 .. i - 1 : t[j] = Open(HANDOFF)
    BY <1>2, <2>1 DEF OpenedBeforeReady
  <2> QED
    BY <1>0, <1>2, <2>2, OneMoreWrite
<1>3. CASE i = Len(t) + 1
  BY <1>1, <1>3, OneMoreWrite, FillsDiffer
<1>4. CASE i = Len(t) + 2
  <2>1. f = PROJECT_YML
    BY <1>1, <1>4, OneMoreWrite, FillsDiffer
  <2>2. PICK j \in 1 .. Len(t) : t[j] = Open(HANDOFF)
    BY <2>1
  <2> QED
    BY <1>0, <1>4, <2>2, OneMoreWrite
<1> QED
  BY <1>0, <1>2, <1>3, <1>4

\* What a command for a definition in this state may still have to do.
SafeProgram(todo, status, pkg, handoff) ==
  /\ todo \in Seq(Operation)
  /\ AssembledBeforeFilled(todo, pkg)
  /\ status = "READY_FOR_BUILD" => OpenedBeforeReady(todo, handoff)

LEMMA FileNames ==
  /\ PROJECT_YML \in File /\ HANDOFF \in File /\ LOG \in File
  /\ PROJECT_YML # HANDOFF /\ PROJECT_YML # LOG /\ HANDOFF # LOG
  BY FilesTyped DEF PROJECT_YML, HANDOFF, LOG

LEMMA CreateIsSafe ==
  ASSUME NEW pkg, NEW handoff
  PROVE  SafeProgram(CreateProgram, "DRAFT", pkg, handoff)
<1> DEFINE first == <<LookForDir, MakeDir>>
<1>1. first \in Seq(Operation) /\ Len(first) = 2 /\ first[1] = LookForDir /\ first[2] = MakeDir
  BY OperationsTyped
<1>2. AssembledBeforeFilled(first, pkg)
  BY <1>1, FillsDiffer DEF AssembledBeforeFilled
<1>3. CreateProgram = (first \o Write(PROJECT_YML)) \o Write(LOG)
  BY DEF CreateProgram
<1> HIDE DEF first
<1>4. /\ first \o Write(PROJECT_YML) \in Seq(Operation)
      /\ AssembledBeforeFilled(first \o Write(PROJECT_YML), pkg)
  BY <1>1, <1>2, OneMoreWrite, StaysAssembled, FileNames
<1> QED
  BY <1>3, <1>4, OneMoreWrite, StaysAssembled, FileNames DEF SafeProgram

LEMMA AuthorizeIsSafe ==
  ASSUME NEW pkg, NEW handoff
  PROVE  SafeProgram(AuthorizeProgram, "READY_FOR_BUILD", pkg, handoff)
<1> DEFINE first == <<AssembleHandoff>>
           second == first \o Write(HANDOFF)
           third == second \o Write(PROJECT_YML)
<1>1. first \in Seq(Operation) /\ Len(first) = 1 /\ first[1] = AssembleHandoff
  BY OperationsTyped
<1>2. AssembledBeforeFilled(first, pkg) /\ OpenedBeforeReady(first, handoff)
  BY <1>1, FillsDiffer DEF AssembledBeforeFilled, OpenedBeforeReady
<1>3. AuthorizeProgram = third \o Write(LOG)
  BY DEF AuthorizeProgram
<1> HIDE DEF first
<1>4. /\ second \in Seq(Operation) /\ Len(second) = 3 /\ second[2] = Open(HANDOFF)
      /\ AssembledBeforeFilled(second, pkg) /\ OpenedBeforeReady(second, handoff)
  <2>1. \E j \in 1 .. Len(first) : first[j] = AssembleHandoff
    BY <1>1
  <2>2. second \in Seq(Operation) /\ Len(second) = 3 /\ second[2] = Open(HANDOFF)
    <3>1. /\ second \in Seq(Operation) /\ Len(second) = Len(first) + 2
          /\ second[Len(first) + 1] = Open(HANDOFF)
      BY <1>1, OneMoreWrite, FileNames
    <3>2. Len(first) + 1 = 2 /\ Len(first) + 2 = 3
      BY <1>1
    <3> HIDE DEF second
    <3> QED
      BY <3>1, <3>2
  <2>3. AssembledBeforeFilled(second, pkg)
    BY <1>1, <1>2, <2>1, StaysAssembled, FileNames
  <2>4. OpenedBeforeReady(second, handoff)
    BY <1>1, <1>2, StaysOpened, FileNames
  <2> QED
    BY <2>2, <2>3, <2>4
<1> HIDE DEF second
<1>5. /\ third \in Seq(Operation)
      /\ AssembledBeforeFilled(third, pkg) /\ OpenedBeforeReady(third, handoff)
  <2>1. \E j \in 1 .. Len(second) : second[j] = Open(HANDOFF)
    BY <1>4
  <2> QED
    BY <1>4, <2>1, OneMoreWrite, StaysAssembled, StaysOpened, FileNames
<1> HIDE DEF third
<1> QED
  BY <1>3, <1>5, OneMoreWrite, StaysAssembled, StaysOpened, FileNames DEF SafeProgram

LEMMA ReadyIs == AdvanceProgram("READY_FOR_BUILD") = AuthorizeProgram
<1>1. Materialize("READY_FOR_BUILD") = <<AssembleHandoff>> \o Write(HANDOFF)
  BY DEF Materialize
<1> QED
  BY <1>1 DEF AdvanceProgram, AuthorizeProgram

\* The documents of every other state are plain files.
LEMMA DocumentsAreSafe ==
  ASSUME NEW state \in States \ {"DRAFT", "READY_FOR_BUILD"}, NEW pkg
  PROVE  /\ Materialize(state) \in Seq(Operation)
         /\ AssembledBeforeFilled(Materialize(state), pkg)
<1>1. ASSUME NEW f \in File, f # HANDOFF
      PROVE  Write(f) \in Seq(Operation) /\ AssembledBeforeFilled(Write(f), pkg)
  <2>1. /\ Write(f) \in Seq(Operation) /\ Len(Write(f)) = 2
        /\ Write(f)[1] = Open(f) /\ Write(f)[2] = Fill(f)
    BY WriteIs
  <2> QED
    BY <1>1, <2>1, FillsDiffer DEF AssembledBeforeFilled
<1>2. ASSUME NEW f \in File \ {HANDOFF}, NEW g \in File \ {HANDOFF}
      PROVE  /\ Write(f) \o Write(g) \in Seq(Operation)
             /\ AssembledBeforeFilled(Write(f) \o Write(g), pkg)
  BY <1>1, OneMoreWrite, StaysAssembled
<1>3. {"brief", "requirements", "business-rules", "user-stories", "acceptance-criteria",
       "build-plan"} \subseteq File \ {HANDOFF}
  BY FilesTyped DEF HANDOFF
<1>4. CASE state = "INTAKE"
  BY <1>1, <1>3, <1>4 DEF Materialize
<1>5. CASE state = "DISCOVERY"
  BY <1>2, <1>3, <1>5 DEF Materialize
<1>6. CASE state = "SPEC_READY"
  BY <1>2, <1>3, <1>6 DEF Materialize
<1>7. CASE state = "PLAN_READY"
  BY <1>1, <1>3, <1>7 DEF Materialize
<1> QED
  BY <1>4, <1>5, <1>6, <1>7, Lifecycle

LEMMA AdvanceIsSafe ==
  ASSUME NEW state \in States \ {"DRAFT"}, NEW pkg, NEW handoff
  PROVE  SafeProgram(AdvanceProgram(state), state, pkg, handoff)
<1>1. CASE state = "READY_FOR_BUILD"
  BY <1>1, ReadyIs, AuthorizeIsSafe
<1>2. CASE state # "READY_FOR_BUILD"
  <2> DEFINE second == Materialize(state) \o Write(PROJECT_YML)
  <2>1. second \in Seq(Operation) /\ AssembledBeforeFilled(second, pkg)
    BY <1>2, DocumentsAreSafe, OneMoreWrite, StaysAssembled, FileNames
  <2>2. AdvanceProgram(state) = second \o Write(LOG)
    BY DEF AdvanceProgram
  <2> HIDE DEF second
  <2> QED
    BY <1>2, <2>1, <2>2, OneMoreWrite, StaysAssembled, FileNames DEF SafeProgram
<1> QED
  BY <1>1, <1>2

-------------------------------------------------------------------------------
(***************************************************************************)
(* The inductive invariant.                                                *)
(***************************************************************************)
DiskOK ==
  /\ disk = [f \in File |-> disk[f]]
  /\ disk[PROJECT_YML] \in SoundDefinition \cup {None, Empty}
  /\ disk[HANDOFF] \in PackageSet \cup {None, Empty}
  /\ Whole(PROJECT_YML) /\ disk[PROJECT_YML].status = "READY_FOR_BUILD" =>
       disk[HANDOFF] # None

Command ==
  [op : {"create", "advance", "authorize"}, todo : Seq(Operation), def : SoundDefinition,
   pkg : PackageSet \cup {None}, goal : States]

\* A command under way carries a sound definition, no further than its goal, and
\* is only going to do what is safe.
CommandOK(p) ==
  /\ proc[p].todo \in Seq(Operation)
  /\ proc[p] # Idle =>
       /\ proc[p] \in Command
       /\ Rank(proc[p].def.status) <= Rank(proc[p].goal)
       /\ SafeProgram(proc[p].todo, proc[p].def.status, proc[p].pkg, disk[HANDOFF])

FactoryInv ==
  /\ commands \in Nat
  /\ DiskOK
  /\ proc = [p \in Proc |-> proc[p]]
  /\ \A p \in Proc : CommandOK(p)

\* A package that is there once is there for good, so what other commands were
\* safe to do they stay safe to do.
LEMMA StaysSafe ==
  ASSUME NEW todo, NEW status, NEW pkg, NEW h, NEW h1,
         SafeProgram(todo, status, pkg, h), h # None => h1 # None
  PROVE  SafeProgram(todo, status, pkg, h1)
  BY DEF SafeProgram, OpenedBeforeReady

\* What is left of a safe program after its first operation is safe, when that
\* operation did what it is for.
LEMMA TailIsSafe ==
  ASSUME NEW todo \in Seq(Operation), NEW status, NEW pkg, NEW pkg1, NEW h, NEW h1,
         SafeProgram(todo, status, pkg, h), todo # <<>>,
         pkg \in PackageSet \/ Head(todo) = AssembleHandoff => pkg1 \in PackageSet,
         h # None \/ Head(todo) = Open(HANDOFF) => h1 # None
  PROVE  SafeProgram(Tail(todo), status, pkg1, h1)
<1> DEFINE t == Tail(todo)
<1>1. /\ t \in Seq(Operation) /\ Len(t) = Len(todo) - 1 /\ Len(todo) \in Nat \ {0}
      /\ \A i \in 1 .. Len(t) : t[i] = todo[i + 1]
      /\ Head(todo) = todo[1]
  BY HeadTailProperties, EmptySeq
<1> HIDE DEF t
<1>2. AssembledBeforeFilled(t, pkg1)
  <2>1. SUFFICES ASSUME NEW i \in 1 .. Len(t), t[i] = Fill(HANDOFF), pkg1 \notin PackageSet
                 PROVE  \E j \in 1 .. i - 1 : t[j] = AssembleHandoff
    BY DEF AssembledBeforeFilled
  <2>2. i + 1 \in 1 .. Len(todo) /\ todo[i + 1] = Fill(HANDOFF)
    BY <1>1, <2>1
  <2>3. PICK j \in 1 .. (i + 1) - 1 : todo[j] = AssembleHandoff
    BY <2>1, <2>2 DEF SafeProgram, AssembledBeforeFilled
  <2>4. j # 1
    BY <1>1, <2>1, <2>3
  <2>5. j - 1 \in 1 .. i - 1 /\ t[j - 1] = todo[(j - 1) + 1] /\ (j - 1) + 1 = j
    BY <1>1, <2>3, <2>4
  <2> QED
    BY <2>3, <2>5
<1>3. ASSUME status = "READY_FOR_BUILD"
      PROVE  OpenedBeforeReady(t, h1)
  <2>1. SUFFICES ASSUME NEW i \in 1 .. Len(t), t[i] = Fill(PROJECT_YML), h1 = None
                 PROVE  \E j \in 1 .. i - 1 : t[j] = Open(HANDOFF)
    BY DEF OpenedBeforeReady
  <2>2. i + 1 \in 1 .. Len(todo) /\ todo[i + 1] = Fill(PROJECT_YML)
    BY <1>1, <2>1
  <2>3. PICK j \in 1 .. (i + 1) - 1 : todo[j] = Open(HANDOFF)
    BY <1>3, <2>1, <2>2 DEF SafeProgram, OpenedBeforeReady
  <2>4. j # 1
    BY <1>1, <2>1, <2>3
  <2>5. j - 1 \in 1 .. i - 1 /\ t[j - 1] = todo[(j - 1) + 1] /\ (j - 1) + 1 = j
    BY <1>1, <2>3, <2>4
  <2> QED
    BY <2>3, <2>5
<1> QED
  BY <1>1, <1>2, <1>3 DEF SafeProgram, t

-------------------------------------------------------------------------------
LEMMA RanksBound ==
  ASSUME NEW s \in States
  PROVE  Rank(s) \in 1 .. 6 /\ (Rank(s) = 6 <=> s = "READY_FOR_BUILD")
  BY Lifecycle, Ranks

\* A step of one command, which at most makes the package appear, leaves the others
\* as they were.
LEMMA OthersKeep ==
  ASSUME FactoryInv, NEW p \in Proc, NEW q \in Proc \ {p}, NEW r,
         proc' = [proc EXCEPT ![p] = r],
         disk[HANDOFF] # None => disk'[HANDOFF] # None
  PROVE  CommandOK(q)'
<1>1. proc'[q] = proc[q] /\ CommandOK(q)
  BY DEF FactoryInv
<1> QED
  BY <1>1, StaysSafe DEF CommandOK

\* A command that begins, on a sound definition and with a safe program.
LEMMA BeginKeeps ==
  ASSUME FactoryInv, NEW p \in Proc, NEW op \in {"create", "advance", "authorize"},
         NEW def \in SoundDefinition, NEW goal \in States, NEW todo,
         Rank(def.status) <= Rank(goal),
         SafeProgram(todo, def.status, None, disk[HANDOFF]),
         Begin(p, op, def, goal, todo)
  PROVE  FactoryInv'
<1>1. /\ proc' = [proc EXCEPT ![p] = [op |-> op, todo |-> todo, def |-> def,
                                     pkg |-> None, goal |-> goal]]
      /\ commands' = commands + 1 /\ disk' = disk
  BY DEF Begin
<1>2. proc'[p] = [op |-> op, todo |-> todo, def |-> def, pkg |-> None, goal |-> goal]
  BY <1>1 DEF FactoryInv
<1>3. CommandOK(p)'
  BY <1>1, <1>2 DEF CommandOK, Command, SafeProgram
<1>4. \A q \in Proc \ {p} : CommandOK(q)'
  BY <1>1, OthersKeep
<1>5. proc' = [q \in Proc |-> proc'[q]]
  BY <1>1 DEF FactoryInv
<1> QED
  BY <1>1, <1>3, <1>4, <1>5 DEF FactoryInv, DiskOK, Whole

\* A command that ends or is killed with the files as they are.
LEMMA EndKeeps ==
  ASSUME FactoryInv, NEW p \in Proc, End(p), disk' = disk, commands' = commands
  PROVE  FactoryInv'
<1>1. proc' = [proc EXCEPT ![p] = Idle]
  BY DEF End
<1>2. CommandOK(p)'
  <2>1. proc'[p] = Idle /\ Idle.todo = <<>>
    BY <1>1 DEF FactoryInv, Idle
  <2> QED
    BY <2>1 DEF CommandOK
<1>3. \A q \in Proc \ {p} : CommandOK(q)'
  BY <1>1, OthersKeep
<1>4. proc' = [q \in Proc |-> proc'[q]]
  BY <1>1 DEF FactoryInv
<1> QED
  BY <1>2, <1>3, <1>4 DEF FactoryInv, DiskOK, Whole

\* A command that has done its first operation, with what that did to the package
\* it carries and to the file.
LEMMA ProceedKeeps ==
  ASSUME FactoryInv, NEW p \in Proc, proc[p].todo # <<>>, NEW pkg \in PackageSet \cup {None},
         proc' = [proc EXCEPT ![p].todo = Tail(@), ![p].pkg = pkg],
         proc[p].pkg \in PackageSet \/ Head(proc[p].todo) = AssembleHandoff => pkg \in PackageSet,
         disk[HANDOFF] # None \/ Head(proc[p].todo) = Open(HANDOFF) => disk'[HANDOFF] # None,
         DiskOK', commands' = commands
  PROVE  FactoryInv'
<1>0. proc[p] # Idle
  BY DEF Idle
<1>1. /\ proc[p] \in Command
      /\ Rank(proc[p].def.status) <= Rank(proc[p].goal)
      /\ SafeProgram(proc[p].todo, proc[p].def.status, proc[p].pkg, disk[HANDOFF])
  BY <1>0 DEF FactoryInv, CommandOK
<1>2. proc'[p] = [proc[p] EXCEPT !.todo = Tail(@), !.pkg = pkg]
  BY DEF FactoryInv
<1>3. /\ proc'[p].todo = Tail(proc[p].todo) /\ proc'[p].pkg = pkg
      /\ proc'[p].def = proc[p].def /\ proc'[p].goal = proc[p].goal /\ proc'[p].op = proc[p].op
  BY <1>1 DEF FactoryInv, Command
<1>4. SafeProgram(Tail(proc[p].todo), proc[p].def.status, pkg, disk'[HANDOFF])
  <2>1. proc[p].todo \in Seq(Operation)
    BY <1>1 DEF SafeProgram
  <2> QED
    BY <1>1, <2>1, TailIsSafe
<1>5. CommandOK(p)'
  <2>1. Tail(proc[p].todo) \in Seq(Operation)
    BY <1>4 DEF SafeProgram
  <2> QED
    BY <1>1, <1>2, <1>3, <1>4, <2>1 DEF CommandOK, Command
<1>6. \A q \in Proc \ {p} : CommandOK(q)'
  <2>1. proc' = [proc EXCEPT ![p] = proc'[p]]
    BY <1>2 DEF FactoryInv
  <2> QED
    BY <2>1, OthersKeep
<1>7. proc' = [q \in Proc |-> proc'[q]]
  BY DEF FactoryInv
<1> QED
  BY <1>5, <1>6, <1>7 DEF FactoryInv

\* What is known of a command that is under way.
LEMMA UnderWay ==
  ASSUME FactoryInv, NEW p \in Proc, proc[p] # Idle
  PROVE  /\ proc[p] \in Command
         /\ proc[p].todo \in Seq(Operation) /\ proc[p].def \in SoundDefinition
         /\ proc[p].pkg \in PackageSet \cup {None} /\ proc[p].goal \in States
         /\ Rank(proc[p].def.status) <= Rank(proc[p].goal)
         /\ SafeProgram(proc[p].todo, proc[p].def.status, proc[p].pkg, disk[HANDOFF])
  BY DEF FactoryInv, CommandOK, Command

\* The operation a command is at.
LEMMA AtOperation ==
  ASSUME FactoryInv, NEW p \in Proc, NEW op \in {"look", "make", "assemble", "open", "fill"},
         Running(p, op)
  PROVE  /\ proc[p] # Idle /\ proc[p].todo # <<>>
         /\ Head(proc[p].todo) \in Operation /\ Head(proc[p].todo).do = op
         /\ Head(proc[p].todo) = proc[p].todo[1] /\ 1 \in 1 .. Len(proc[p].todo)
<1>1. proc[p] # Idle /\ proc[p].todo # <<>> /\ Head(proc[p].todo).do = op
  BY DEF Running, Idle
<1>2. proc[p].todo \in Seq(Operation)
  BY <1>1, UnderWay
<1> QED
  BY <1>1, <1>2, HeadTailProperties, EmptySeq

\* A command that goes on with the package it has.
LEMMA ProceedIs ==
  ASSUME FactoryInv, NEW p \in Proc, proc[p] # Idle, Proceed(p)
  PROVE  proc' = [proc EXCEPT ![p].todo = Tail(@), ![p].pkg = proc[p].pkg]
<1>1. proc[p] \in Command
  BY UnderWay
<1> DEFINE r == proc[p]
<1>2. [r EXCEPT !.todo = Tail(@)] = [r EXCEPT !.todo = Tail(@), !.pkg = r.pkg]
  BY <1>1 DEF Command
<1> QED
  BY <1>2 DEF Proceed, FactoryInv

LEMMA LookKeeps ==
  ASSUME FactoryInv, NEW p \in Proc, LookForDirectory(p) \/ MakeDirectory(p), commands' = commands
  PROVE  FactoryInv'
<1>1. PICK op \in {"look", "make"} : Running(p, op)
  BY DEF LookForDirectory, MakeDirectory
<1>2. disk' = disk
  BY DEF LookForDirectory, MakeDirectory
<1>3. CASE End(p)
  BY <1>2, <1>3, EndKeeps
<1>4. CASE Proceed(p)
  <2>1. Head(proc[p].todo) # AssembleHandoff /\ Head(proc[p].todo) # Open(HANDOFF)
    BY <1>1, AtOperation DEF AssembleHandoff, Open
  <2>2. DiskOK'
    BY <1>2 DEF FactoryInv, DiskOK, Whole
  <2> QED
    BY <1>1, <1>2, <1>4, <2>1, <2>2, AtOperation, UnderWay, ProceedIs, ProceedKeeps
<1> QED
  BY <1>3, <1>4 DEF LookForDirectory, MakeDirectory

LEMMA AssembleKeeps ==
  ASSUME FactoryInv, NEW p \in Proc, Assemble(p), commands' = commands
  PROVE  FactoryInv'
<1>1. Running(p, "assemble") /\ disk' = disk
  BY DEF Assemble
<1>2. CASE End(p)
  BY <1>1, <1>2, EndKeeps
<1>3. CASE proc' = [proc EXCEPT ![p].todo = Tail(@), ![p].pkg = Package(proc[p].def)]
  <2>1. Package(proc[p].def) \in PackageSet
    BY <1>1, AtOperation, UnderWay, PackageTyped
  <2>2. Head(proc[p].todo) # Open(HANDOFF)
    BY <1>1, AtOperation DEF Open
  <2>3. DiskOK'
    BY <1>1 DEF FactoryInv, DiskOK, Whole
  <2> QED
    BY <1>1, <1>3, <2>1, <2>2, <2>3, AtOperation, ProceedKeeps
<1> QED
  BY <1>2, <1>3 DEF Assemble

LEMMA OpenKeeps ==
  ASSUME FactoryInv, NEW p \in Proc, OpenFile(p), commands' = commands
  PROVE  FactoryInv'
<1> DEFINE file == Head(proc[p].todo).file
<1>1. Running(p, "open")
  BY DEF OpenFile
<1>2. file \in File /\ Head(proc[p].todo) = Open(file) /\ Head(proc[p].todo) # AssembleHandoff
  BY <1>1, AtOperation DEF Operation, Open, LookForDir, MakeDir, AssembleHandoff
<1>3. CASE End(p) /\ disk' = disk
  BY <1>3, EndKeeps
<1>4. CASE Proceed(p) /\ disk' = [disk EXCEPT ![file] = Empty]
  <2>1. \A f \in File : disk'[f] = IF f = file THEN Empty ELSE disk[f]
    BY <1>4 DEF FactoryInv, DiskOK
  <2>2. disk[HANDOFF] # None \/ Head(proc[p].todo) = Open(HANDOFF) => disk'[HANDOFF] # None
    BY <1>2, <2>1, FileNames, FactoryAssumption DEF Open
  <2>3. DiskOK'
    BY <1>2, <1>4, <2>1, <2>2, FileNames DEF FactoryInv, DiskOK, Whole
  <2> QED
    BY <1>1, <1>2, <1>4, <2>2, <2>3, AtOperation, UnderWay, ProceedIs, ProceedKeeps
<1> QED
  BY <1>3, <1>4 DEF OpenFile

LEMMA FillKeeps ==
  ASSUME FactoryInv, NEW p \in Proc, FillFile(p), commands' = commands
  PROVE  FactoryInv'
<1> DEFINE file == Head(proc[p].todo).file
<1>1. Running(p, "fill") /\ Proceed(p) /\ disk' = [disk EXCEPT ![file] = Content(p, file)]
  BY DEF FillFile
<1>2. /\ file \in File /\ Head(proc[p].todo) = Fill(file)
      /\ Head(proc[p].todo) # AssembleHandoff /\ Head(proc[p].todo) # Open(HANDOFF)
  BY <1>1, AtOperation DEF Operation, Open, Fill, LookForDir, MakeDir, AssembleHandoff
<1>3. \A f \in File : disk'[f] = IF f = file THEN Content(p, file) ELSE disk[f]
  BY <1>1 DEF FactoryInv, DiskOK
<1>4. /\ proc[p].todo[1] = Fill(file) /\ 1 \in 1 .. Len(proc[p].todo)
      /\ SafeProgram(proc[p].todo, proc[p].def.status, proc[p].pkg, disk[HANDOFF])
      /\ proc[p].def \in SoundDefinition
  BY <1>1, <1>2, AtOperation, UnderWay
<1>5. file = HANDOFF => Content(p, file) \in PackageSet /\ Content(p, file) # None
  <2>1. ASSUME file = HANDOFF
        PROVE  proc[p].pkg \in PackageSet
    BY <1>4, <2>1 DEF SafeProgram, AssembledBeforeFilled
  <2>2. None \notin PackageSet
    BY AbsenceAssumption DEF PackageSet
  <2> QED
    BY <2>1, <2>2, FileNames DEF Content
<1>6. file = PROJECT_YML => Content(p, file) = proc[p].def
  <2>1. Content(p, PROJECT_YML) = proc[p].def
    BY FileNames DEF Content
  <2> QED
    BY <2>1
<1>7. file = PROJECT_YML /\ proc[p].def.status = "READY_FOR_BUILD" => disk[HANDOFF] # None
  BY <1>4 DEF SafeProgram, OpenedBeforeReady
<1>8. disk[HANDOFF] # None => disk'[HANDOFF] # None
  BY <1>3, <1>5, FileNames
<1>9. DiskOK'
  BY <1>1, <1>2, <1>3, <1>4, <1>5, <1>6, <1>7, <1>8, FileNames DEF FactoryInv, DiskOK, Whole
<1> QED
  BY <1>1, <1>2, <1>8, <1>9, AtOperation, UnderWay, ProceedIs, ProceedKeeps

LEMMA TurnKeeps ==
  ASSUME FactoryInv, NEW p \in Proc, TakeTurn(p), commands' = commands
  PROVE  FactoryInv'
<1>1. proc[p] # Idle /\ disk' = disk
  BY DEF TakeTurn
<1>2. CASE End(p)
  BY <1>1, <1>2, EndKeeps
<1>3. CASE proc[p].def.status # proc[p].goal
  <2> DEFINE def == Advanced(proc[p].def)
             todo == AdvanceProgram(def.status)
  <2>1. /\ proc[p] \in Command /\ proc[p].def \in SoundDefinition /\ proc[p].goal \in States
        /\ Rank(proc[p].def.status) <= Rank(proc[p].goal)
    BY <1>1, UnderWay
  <2>2. proc[p].def.status \in States
    BY <2>1 DEF SoundDefinition
  <2>3. Rank(proc[p].def.status) # Rank(proc[p].goal)
    BY <1>3, <2>1, <2>2, Lifecycle, Ranks
  <2>4. /\ Rank(proc[p].def.status) + 1 <= Rank(proc[p].goal)
        /\ proc[p].def.status # "READY_FOR_BUILD"
    BY <2>1, <2>2, <2>3, RanksBound
  <2>5. def \in SoundDefinition /\ Rank(def.status) <= Rank(proc[p].goal)
    BY <2>1, <2>4, AdvancedIsSound
  <2>6. def.status \in States \ {"DRAFT"}
    <3>1. def.status \in States
      BY <2>5 DEF SoundDefinition
    <3>2. Rank(def.status) = Rank(proc[p].def.status) + 1
      BY <2>1, <2>4, AdvancedIsSound
    <3> QED
      BY <2>2, <3>1, <3>2, RanksBound, Ranks
  <2>7. SafeProgram(todo, def.status, proc[p].pkg, disk[HANDOFF])
    BY <2>6, AdvanceIsSafe
  <2>8. proc' = [proc EXCEPT ![p].def = def, ![p].todo = todo]
    BY <1>3 DEF TakeTurn
  <2> HIDE DEF def, todo
  <2>9. /\ proc'[p] \in Command /\ proc'[p].def = def /\ proc'[p].todo = todo
        /\ proc'[p].pkg = proc[p].pkg /\ proc'[p].goal = proc[p].goal
    <3>1. todo \in Seq(Operation)
      BY <2>7 DEF SafeProgram
    <3> QED
      BY <2>1, <2>5, <2>8, <3>1 DEF FactoryInv, Command
  <2>10. CommandOK(p)'
    BY <1>1, <2>5, <2>7, <2>9 DEF CommandOK, SafeProgram
  <2>11. \A q \in Proc \ {p} : CommandOK(q)'
    <3>1. proc' = [proc EXCEPT ![p] = proc'[p]]
      BY <2>8 DEF FactoryInv
    <3> QED
      BY <1>1, <3>1, OthersKeep
  <2>12. proc' = [q \in Proc |-> proc'[q]]
    BY <2>8 DEF FactoryInv
  <2> QED
    BY <1>1, <2>10, <2>11, <2>12 DEF FactoryInv, DiskOK, Whole
<1> QED
  BY <1>2, <1>3 DEF TakeTurn

-------------------------------------------------------------------------------
LEMMA CreateKeeps ==
  ASSUME FactoryInv, NEW p \in Proc, StartCreate(p)
  PROVE  FactoryInv'
<1>1. PICK raw \in Raw, goal \in Goal :
        Begin(p, "create", NewDefinition(raw, commands + 1), goal, CreateProgram)
  BY DEF StartCreate
<1> DEFINE def == NewDefinition(raw, commands + 1)
<1>2. commands + 1 \in 1 .. MaxCommands
  BY <1>1, FactoryAssumption DEF Begin, FactoryInv
<1>3. def \in SoundDefinition /\ def.status = "DRAFT"
  BY <1>2, NewIsSound DEF NewDefinition
<1>4. goal \in States /\ Rank("DRAFT") <= Rank(goal)
  BY FactoryAssumption, Lifecycle, Ranks, RanksBound
<1> HIDE DEF def
<1> QED
  BY <1>1, <1>3, <1>4, CreateIsSafe, BeginKeeps DEF def

LEMMA AdvanceKeeps ==
  ASSUME FactoryInv, NEW p \in Proc, StartAdvance(p)
  PROVE  FactoryInv'
<1> DEFINE old == disk[PROJECT_YML]
           def == Advanced(old)
<1>1. /\ old \in SoundDefinition /\ old.status # "READY_FOR_BUILD"
      /\ Begin(p, "advance", def, def.status, AdvanceProgram(def.status))
  BY DEF StartAdvance, MayAdvance, FactoryInv, DiskOK, Whole
<1>2. /\ def \in SoundDefinition /\ def.status \in States
      /\ Rank(def.status) = Rank(old.status) + 1 /\ old.status \in States
  BY <1>1, AdvancedIsSound DEF SoundDefinition
<1>3. def.status # "DRAFT"
  BY <1>2, RanksBound, Ranks
<1>4. Rank(def.status) <= Rank(def.status)
  BY <1>2, RanksBound
<1>5. SafeProgram(AdvanceProgram(def.status), def.status, None, disk[HANDOFF])
  BY <1>2, <1>3, AdvanceIsSafe
<1> HIDE DEF def
<1> QED
  BY <1>1, <1>2, <1>4, <1>5, BeginKeeps

LEMMA AuthorizeKeeps ==
  ASSUME FactoryInv, NEW p \in Proc, StartAuthorize(p)
  PROVE  FactoryInv'
<1> DEFINE old == disk[PROJECT_YML]
           def == [old EXCEPT !.granted_by = HUMAN_FOUNDER,
                              !.history = Append(@, "READY_FOR_BUILD")]
<1>1. /\ old \in SoundDefinition /\ old.status = "READY_FOR_BUILD" /\ old.granted_by = None
      /\ Begin(p, "authorize", def, def.status, AuthorizeProgram)
  BY DEF StartAuthorize, MayAuthorize, FactoryInv, DiskOK, Whole
<1>2. def \in SoundDefinition
  BY <1>1, AuthorizedIsSound
<1>3. def.status = "READY_FOR_BUILD"
  BY <1>1 DEF SoundDefinition
<1>4. def.status \in States /\ Rank(def.status) <= Rank(def.status)
  BY <1>3, Lifecycle, RanksBound
<1>5. SafeProgram(AuthorizeProgram, def.status, None, disk[HANDOFF])
  BY <1>3, AuthorizeIsSafe
<1> HIDE DEF def
<1> QED
  BY <1>1, <1>2, <1>4, <1>5, BeginKeeps

THEOREM FactoryInitially == FactoryInit => FactoryInv
<1> SUFFICES ASSUME FactoryInit PROVE FactoryInv
  OBVIOUS
<1>1. DiskOK
  BY FileNames DEF FactoryInit, DiskOK, Whole
<1>2. ASSUME NEW p \in Proc PROVE CommandOK(p)
  <2>1. proc[p] = Idle /\ Idle.todo = <<>>
    BY DEF FactoryInit, Idle
  <2> QED
    BY <2>1 DEF CommandOK
<1> QED
  BY <1>1, <1>2 DEF FactoryInit, FactoryInv

THEOREM FactoryStep == FactoryInv /\ [FactoryNext]_factoryVars => FactoryInv'
<1> SUFFICES ASSUME FactoryInv, [FactoryNext]_factoryVars
             PROVE  FactoryInv'
  OBVIOUS
<1>1. CASE UNCHANGED factoryVars
  BY <1>1 DEF factoryVars, FactoryInv, DiskOK, Whole, CommandOK
<1>2. CASE FactoryNext
  <2>1. PICK p \in Proc : \/ StartCreate(p) \/ StartAdvance(p) \/ StartAuthorize(p)
                         \/ Step(p) \/ RefuseText(p) \/ Kill(p)
    BY <1>2 DEF FactoryNext
  <2>2. CASE StartCreate(p)
    BY <2>2, CreateKeeps
  <2>3. CASE StartAdvance(p)
    BY <2>3, AdvanceKeeps
  <2>4. CASE StartAuthorize(p)
    BY <2>4, AuthorizeKeeps
  <2>5. CASE Step(p)
    BY <2>5, LookKeeps, AssembleKeeps, OpenKeeps, FillKeeps, TurnKeeps DEF Step
  <2>6. CASE RefuseText(p) \/ Kill(p)
    BY <2>6, EndKeeps DEF RefuseText, Kill, Cut
  <2> QED
    BY <2>1, <2>2, <2>3, <2>4, <2>5, <2>6
<1> QED
  BY <1>1, <1>2

\* The invariant is what the property asks for.
THEOREM FactoryInvSuffices == FactoryInv => DefinitionsAreSound
<1> SUFFICES ASSUME FactoryInv PROVE DefinitionsAreSound
  OBVIOUS
<1>1. ASSUME Whole(PROJECT_YML)
      PROVE  LET def == disk[PROJECT_YML]
             IN  /\ def.history = HistoryOf(def)
                 /\ def.granted_by # None =>
                      def.granted_by = HUMAN_FOUNDER /\ def.status = "READY_FOR_BUILD"
                 /\ def.status = "READY_FOR_BUILD" => disk[HANDOFF] # None
  <2>1. disk[PROJECT_YML] \in SoundDefinition
    BY <1>1 DEF FactoryInv, DiskOK, Whole
  <2> QED
    BY <1>1, <2>1 DEF FactoryInv, DiskOK, SoundDefinition
<1>2. ASSUME Verify.authorized
      PROVE  disk[HANDOFF].granted_by = HUMAN_FOUNDER
  <2>1. Whole(HANDOFF) /\ disk[HANDOFF].granted_by # None
    BY <1>2 DEF Verify
  <2> QED
    BY <2>1 DEF FactoryInv, DiskOK, Whole, PackageSet
<1> QED
  BY <1>1, <1>2 DEF DefinitionsAreSound

\* For any intakes and any number of commands that overlap and are killed anywhere,
\* a definition that can be read went through the lifecycle in order and is
\* authorized by the founder or not at all (lifecycle.ts, authorizeBuild).
THEOREM DefinitionsSound == FactorySpec => []DefinitionsAreSound
<1>1. FactorySpec => []FactoryInv
  BY FactoryInitially, FactoryStep, PTL DEF FactorySpec
<1> QED
  BY <1>1, FactoryInvSuffices, PTL

-------------------------------------------------------------------------------
(***************************************************************************)
(* Commands that do not overlap. What a command still has to do is told by *)
(* the operations in it, whatever their place, but for three things: a     *)
(* file that is opened is filled next, after its definition a command only *)
(* writes its log, and what may end a command comes before all it writes.  *)
(***************************************************************************)
Does(todo, op) == \E i \in 1 .. Len(todo) : todo[i] = op

FilledNext(todo) ==
  \A i \in 1 .. Len(todo), f \in File :
    todo[i] = Open(f) => i + 1 \in 1 .. Len(todo) /\ todo[i + 1] = Fill(f)

LogLast(todo) ==
  \A i, j \in 1 .. Len(todo) :
    todo[i] = Fill(PROJECT_YML) /\ i < j => todo[j] \in {Open(LOG), Fill(LOG)}

AsksFirst(todo) ==
  \A i \in 1 .. Len(todo) : todo[i] \in {LookForDir, AssembleHandoff} => i = 1

Orderly(todo) == FilledNext(todo) /\ LogLast(todo) /\ AsksFirst(todo)

Touches(todo, f) == Does(todo, Open(f)) \/ Does(todo, Fill(f))

\* def is what a command makes of old, once.
Follows(old, def) ==
  /\ def.id = old.id /\ def.terms = old.terms /\ def.secret = old.secret
  /\ old.granted_by = None
  /\ \/ Rank(def.status) = Rank(old.status) + 1 /\ def.granted_by = None
     \/ def.status = old.status /\ def.granted_by # None

\* What PromisesAreKept asks of a definition.
Kept(def) ==
  /\ \A d \in DocumentsUpTo(def.status) : disk[d] = def.id
  /\ Whole(HANDOFF) => disk[HANDOFF].id = def.id /\ disk[HANDOFF].terms = def.terms
  /\ def.granted_by # None => disk[HANDOFF] = Package(def)

\* The files are those of the definition last written, or there are none yet.
LatestOK ==
  /\ latest \in SoundDefinition \cup {None}
  /\ Whole(PROJECT_YML) => latest = disk[PROJECT_YML]
  /\ disk[PROJECT_YML] = None => latest = None
  /\ latest = None => disk[HANDOFF] = None
  /\ latest # None => Kept(latest) /\ ~latest.secret

\* A command that is to write a definition goes on from the one last written, and
\* writes what its own promises first, and nothing of what is promised already.
ToBeDefined(c) ==
  /\ latest = None => c.def.status = "DRAFT" /\ ~Touches(c.todo, HANDOFF)
  /\ latest # None =>
       /\ Follows(latest, c.def)
       /\ \A d \in DocumentsUpTo(latest.status) : ~Touches(c.todo, d)
       /\ ~Does(c.todo, LookForDir)
  /\ c.def.secret => Does(c.todo, Open(PROJECT_YML))
  /\ \A d \in DocumentsUpTo(c.def.status) : disk[d] = c.def.id \/ Does(c.todo, Fill(d))
  /\ c.def.granted_by # None =>
       disk[HANDOFF] = Package(c.def) \/ Does(c.todo, Fill(HANDOFF))

Defined(c) ==
  /\ latest = c.def
  /\ \A op \in Operation : Does(c.todo, op) => op \in {Open(LOG), Fill(LOG)}

OneCommand ==
  \A p, q \in Proc : proc[p] # Idle /\ proc[q] # Idle => p = q

Underway(c) ==
  /\ Orderly(c.todo)
  /\ c.pkg \in {None, Package(c.def)}
  /\ IF Does(c.todo, Fill(PROJECT_YML)) THEN ToBeDefined(c) ELSE Defined(c)

Sequential ==
  /\ OneCommand
  /\ LatestOK
  /\ \A p \in Proc : proc[p] # Idle => Underway(proc[p])

SequentialInv == ~overlapped => Sequential

\* Between commands the package and the log are those of the definition.
FilesAgree ==
  /\ disk[HANDOFF] # Empty
  /\ latest # None =>
       /\ disk[LOG] = latest.history
       /\ Whole(HANDOFF) => disk[HANDOFF].granted_by = latest.granted_by

WillAgree(c) ==
  /\ Does(c.todo, LookForDir) \/ Does(c.todo, AssembleHandoff) => FilesAgree
  /\ Does(c.todo, Fill(LOG)) \/ disk[LOG] = c.def.history
  /\ \/ Does(c.todo, Fill(HANDOFF))
     \/ /\ disk[HANDOFF] # Empty
        /\ Whole(HANDOFF) => disk[HANDOFF].granted_by = c.def.granted_by

Agreement ==
  /\ (\A p \in Proc : proc[p] = Idle) => FilesAgree
  /\ \A p \in Proc : proc[p] # Idle => WillAgree(proc[p])

AgreementInv == ~overlapped /\ ~cutShort => Agreement

-------------------------------------------------------------------------------
\* A command that has done an operation.
LEMMA DoesTail ==
  ASSUME NEW todo \in Seq(Operation), todo # <<>>
  PROVE  \A op : Does(todo, op) <=> Head(todo) = op \/ Does(Tail(todo), op)
<1> DEFINE t == Tail(todo)
<1>1. /\ t \in Seq(Operation) /\ Len(t) = Len(todo) - 1 /\ Len(todo) \in Nat \ {0}
      /\ \A i \in 1 .. Len(t) : t[i] = todo[i + 1]
      /\ Head(todo) = todo[1]
  BY HeadTailProperties, EmptySeq
<1> HIDE DEF t
<1>2. ASSUME NEW op, Does(todo, op), Head(todo) # op
      PROVE  Does(t, op)
  <2>1. PICK i \in 1 .. Len(todo) : todo[i] = op
    BY <1>2 DEF Does
  <2>2. i - 1 \in 1 .. Len(t) /\ (i - 1) + 1 = i
    BY <1>1, <1>2, <2>1
  <2> QED
    BY <1>1, <2>1, <2>2 DEF Does
<1>3. ASSUME NEW op, Does(t, op)
      PROVE  Does(todo, op)
  <2>1. PICK i \in 1 .. Len(t) : t[i] = op
    BY <1>3 DEF Does
  <2>2. i + 1 \in 1 .. Len(todo)
    BY <1>1, <2>1
  <2> QED
    BY <1>1, <2>1, <2>2 DEF Does
<1>4. ASSUME NEW op, Head(todo) = op
      PROVE  Does(todo, op)
  BY <1>1, <1>4 DEF Does
<1> QED
  BY <1>2, <1>3, <1>4 DEF t

LEMMA OrderlyTail ==
  ASSUME NEW todo \in Seq(Operation), todo # <<>>, Orderly(todo)
  PROVE  /\ Orderly(Tail(todo))
         /\ \A f \in File : Head(todo) = Open(f) => Does(Tail(todo), Fill(f))
         /\ Head(todo) = Fill(PROJECT_YML) =>
              \A op : Does(Tail(todo), op) => op \in {Open(LOG), Fill(LOG)}
         /\ ~Does(Tail(todo), LookForDir) /\ ~Does(Tail(todo), AssembleHandoff)
<1> DEFINE t == Tail(todo)
<1>1. /\ t \in Seq(Operation) /\ Len(t) = Len(todo) - 1 /\ Len(todo) \in Nat \ {0}
      /\ \A i \in 1 .. Len(t) : t[i] = todo[i + 1] /\ i + 1 \in 1 .. Len(todo)
      /\ Head(todo) = todo[1] /\ 1 \in 1 .. Len(todo)
  BY HeadTailProperties, EmptySeq
<1> HIDE DEF t
<1>2. FilledNext(t)
  <2> SUFFICES ASSUME NEW i \in 1 .. Len(t), NEW f \in File, t[i] = Open(f)
               PROVE  i + 1 \in 1 .. Len(t) /\ t[i + 1] = Fill(f)
    BY DEF FilledNext
  <2>1. (i + 1) + 1 \in 1 .. Len(todo) /\ todo[(i + 1) + 1] = Fill(f)
    BY <1>1 DEF Orderly, FilledNext
  <2>2. i + 1 \in 1 .. Len(t)
    BY <1>1, <2>1
  <2> QED
    BY <1>1, <2>1, <2>2
<1>3. LogLast(t)
  <2> SUFFICES ASSUME NEW i \in 1 .. Len(t), NEW j \in 1 .. Len(t),
                      t[i] = Fill(PROJECT_YML), i < j
               PROVE  t[j] \in {Open(LOG), Fill(LOG)}
    BY DEF LogLast
  <2>1. i + 1 < j + 1 /\ i + 1 \in 1 .. Len(todo) /\ j + 1 \in 1 .. Len(todo)
    BY <1>1
  <2> QED
    BY <1>1, <2>1 DEF Orderly, LogLast
<1>4. ASSUME NEW i \in 1 .. Len(t)
      PROVE  t[i] \notin {LookForDir, AssembleHandoff}
  <2>1. i + 1 # 1
    BY <1>1
  <2> QED
    BY <1>1, <2>1 DEF Orderly, AsksFirst
<1>5. ASSUME NEW f \in File, Head(todo) = Open(f)
      PROVE  Does(t, Fill(f))
  <2>1. 1 + 1 \in 1 .. Len(todo) /\ todo[1 + 1] = Fill(f)
    BY <1>1, <1>5 DEF Orderly, FilledNext
  <2>2. 1 \in 1 .. Len(t)
    BY <1>1, <2>1
  <2> QED
    BY <1>1, <2>1, <2>2 DEF Does
<1>6. ASSUME Head(todo) = Fill(PROJECT_YML), NEW op, Does(t, op)
      PROVE  op \in {Open(LOG), Fill(LOG)}
  <2>1. PICK i \in 1 .. Len(t) : t[i] = op
    BY <1>6 DEF Does
  <2>2. 1 < i + 1
    BY <1>1
  <2> QED
    BY <1>1, <1>6, <2>1, <2>2 DEF Orderly, LogLast
<1> QED
  BY <1>2, <1>3, <1>4, <1>5, <1>6 DEF Orderly, AsksFirst, Does, t

\* A program that writes one file more.
LEMMA DoesWrite ==
  ASSUME NEW t \in Seq(Operation), NEW f \in File
  PROVE  \A op : Does(t \o Write(f), op) <=> Does(t, op) \/ op \in {Open(f), Fill(f)}
<1> DEFINE u == t \o Write(f)
<1>1. /\ Len(t) \in Nat /\ Len(u) = Len(t) + 2
      /\ \A i \in 1 .. Len(t) : u[i] = t[i]
      /\ u[Len(t) + 1] = Open(f) /\ u[Len(t) + 2] = Fill(f)
  BY OneMoreWrite, LenProperties
<1> HIDE DEF u
<1>2. ASSUME NEW op, Does(u, op)
      PROVE  Does(t, op) \/ op \in {Open(f), Fill(f)}
  <2>1. PICK i \in 1 .. Len(u) : u[i] = op
    BY <1>2 DEF Does
  <2>2. i \in 1 .. Len(t) \/ i = Len(t) + 1 \/ i = Len(t) + 2
    BY <1>1, <2>1
  <2> QED
    BY <1>1, <2>1, <2>2 DEF Does
<1>3. ASSUME NEW op, Does(t, op)
      PROVE  Does(u, op)
  <2>1. PICK i \in 1 .. Len(t) : t[i] = op
    BY <1>3 DEF Does
  <2>2. i \in 1 .. Len(u)
    BY <1>1, <2>1
  <2> QED
    BY <1>1, <2>1, <2>2 DEF Does
<1>4. Does(u, Open(f)) /\ Does(u, Fill(f))
  <2>1. Len(t) + 1 \in 1 .. Len(u) /\ Len(t) + 2 \in 1 .. Len(u)
    BY <1>1
  <2> QED
    BY <1>1, <2>1 DEF Does
<1> QED
  BY <1>2, <1>3, <1>4 DEF u

LEMMA OrderlyWrite ==
  ASSUME NEW t \in Seq(Operation), Orderly(t), NEW f \in File,
         f = LOG \/ ~Does(t, Fill(PROJECT_YML))
  PROVE  Orderly(t \o Write(f))
<1> DEFINE u == t \o Write(f)
<1>1. /\ Len(t) \in Nat /\ Len(u) = Len(t) + 2
      /\ \A i \in 1 .. Len(t) : u[i] = t[i]
      /\ u[Len(t) + 1] = Open(f) /\ u[Len(t) + 2] = Fill(f)
  BY OneMoreWrite, LenProperties
<1> HIDE DEF u
<1>2. \A i \in 1 .. Len(u) : i \in 1 .. Len(t) \/ i = Len(t) + 1 \/ i = Len(t) + 2
  BY <1>1
<1>3. \A g : Open(f) # Fill(g) /\ (Open(f) = Open(g) => f = g) /\ (Fill(f) = Fill(g) => f = g)
  BY DEF Open, Fill
<1>4. ASSUME NEW i \in 1 .. Len(u), NEW g \in File, u[i] = Open(g)
      PROVE  i + 1 \in 1 .. Len(u) /\ u[i + 1] = Fill(g)
  <2>1. CASE i \in 1 .. Len(t)
    <3>1. i + 1 \in 1 .. Len(t) /\ t[i + 1] = Fill(g)
      BY <1>1, <1>4, <2>1 DEF Orderly, FilledNext
    <3> QED
      BY <1>1, <3>1
  <2>2. CASE i = Len(t) + 1
    BY <1>1, <1>3, <1>4, <2>2
  <2>3. CASE i = Len(t) + 2
    BY <1>1, <1>4, <2>3, FillsDiffer
  <2> QED
    BY <1>2, <2>1, <2>2, <2>3
<1>5. ASSUME NEW i \in 1 .. Len(u), NEW j \in 1 .. Len(u), u[i] = Fill(PROJECT_YML), i < j
      PROVE  u[j] \in {Open(LOG), Fill(LOG)}
  <2>1. i \in 1 .. Len(t) \/ (i = Len(t) + 1 /\ j = Len(t) + 2)
    BY <1>1, <1>2, <1>5
  <2>2. CASE i \in 1 .. Len(t)
    <3>1. Does(t, Fill(PROJECT_YML)) /\ f = LOG
      BY <1>1, <1>5, <2>2 DEF Does
    <3>2. CASE j \in 1 .. Len(t)
      BY <1>1, <1>5, <2>2, <3>2 DEF Orderly, LogLast
    <3> QED
      BY <1>1, <1>2, <3>1, <3>2
  <2>3. CASE i = Len(t) + 1
    BY <1>1, <1>3, <1>5, <2>3
  <2> QED
    BY <2>1, <2>2, <2>3
<1>6. ASSUME NEW i \in 1 .. Len(u), u[i] \in {LookForDir, AssembleHandoff}
      PROVE  i = 1
  <2>1. Open(f) \notin {LookForDir, AssembleHandoff} /\ Fill(f) \notin {LookForDir, AssembleHandoff}
    BY DEF Open, Fill, LookForDir, AssembleHandoff
  <2>2. i \in 1 .. Len(t)
    BY <1>1, <1>2, <1>6, <2>1
  <2> QED
    BY <1>1, <1>6, <2>2 DEF Orderly, AsksFirst
<1> QED
  BY <1>4, <1>5, <1>6 DEF Orderly, FilledNext, LogLast, AsksFirst, u

Docs == {"brief", "requirements", "business-rules", "user-stories", "acceptance-criteria", "build-plan"}

LEMMA DocumentsAre ==
  /\ \A s \in States : Documents(s) \subseteq Docs
  /\ \A s, t \in States : s # t => Documents(s) \cap Documents(t) = {}
  /\ Documents("DRAFT") = {} /\ Documents("READY_FOR_BUILD") = {}
  /\ \A s \in States : DocumentsUpTo(s) \subseteq Docs
  /\ DocumentsUpTo("DRAFT") = {}
  /\ File = Docs \cup {PROJECT_YML, HANDOFF, LOG}
  /\ Docs \cap {PROJECT_YML, HANDOFF, LOG} = {}
<1>1. /\ Documents("DRAFT") = {} /\ Documents("READY_FOR_BUILD") = {}
      /\ Documents("INTAKE") = {"brief"}
      /\ Documents("DISCOVERY") = {"requirements", "business-rules"}
      /\ Documents("SPEC_READY") = {"user-stories", "acceptance-criteria"}
      /\ Documents("PLAN_READY") = {"build-plan"}
  BY DEF Documents
<1>2. \A s \in States : Documents(s) \subseteq Docs
  BY <1>1, Lifecycle DEF Docs
<1>3. ASSUME NEW s \in States, NEW t \in States, s # t
      PROVE  Documents(s) \cap Documents(t) = {}
  BY <1>1, <1>3, Lifecycle
<1>4. \A s \in States : StatesUpTo(s) \subseteq States
  <2> SUFFICES ASSUME NEW s \in States, NEW i \in 1 .. Rank(s)
               PROVE  PROJECT_LIFECYCLE[i] \in States
    BY DEF StatesUpTo
  <2>1. Rank(s) \in 1 .. 6
    BY Lifecycle, Ranks
  <2> QED
    BY <2>1 DEF States
<1>5. \A s \in States : DocumentsUpTo(s) \subseteq Docs
  BY <1>2, <1>4 DEF DocumentsUpTo
<1>6. DocumentsUpTo("DRAFT") = {}
  <2>1. StatesUpTo("DRAFT") = {"DRAFT"}
    BY Lifecycle, Ranks DEF StatesUpTo
  <2> QED
    BY <1>1, <2>1 DEF DocumentsUpTo
<1>7. AllDocuments = Docs
  <2>1. StatesUpTo("READY_FOR_BUILD") = States
    BY Ranks DEF StatesUpTo, States
  <2>2. AllDocuments = UNION {Documents(s) : s \in States}
    BY <2>1 DEF AllDocuments, DocumentsUpTo
  <2>3. Docs \subseteq UNION {Documents(s) : s \in States}
    <3>1. Docs = Documents("INTAKE") \cup Documents("DISCOVERY") \cup Documents("SPEC_READY")
                   \cup Documents("PLAN_READY")
      BY <1>1 DEF Docs
    <3>2. {"INTAKE", "DISCOVERY", "SPEC_READY", "PLAN_READY"} \subseteq States
      BY Lifecycle
    <3> QED
      BY <3>1, <3>2
  <2>4. UNION {Documents(s) : s \in States} \subseteq Docs
    BY <1>2
  <2> QED
    BY <2>2, <2>3, <2>4
<1>8. File = Docs \cup {PROJECT_YML, HANDOFF, LOG}
  BY <1>7 DEF File
<1>9. Docs \cap {PROJECT_YML, HANDOFF, LOG} = {}
  BY DEF Docs, PROJECT_YML, HANDOFF, LOG
<1> QED
  BY <1>1, <1>2, <1>3, <1>5, <1>6, <1>8, <1>9

\* What the next state adds to the documents there must be, and that it is new.
LEMMA DocumentsGrow ==
  ASSUME NEW s \in States, s # "READY_FOR_BUILD"
  PROVE  LET next == NextLifecycleState(s)
         IN  /\ DocumentsUpTo(next) = DocumentsUpTo(s) \cup Documents(next)
             /\ Documents(next) \cap DocumentsUpTo(s) = {}
<1> DEFINE next == NextLifecycleState(s)
<1>1. /\ next \in States /\ Rank(next) = Rank(s) + 1 /\ Rank(s) \in 1 .. 5
      /\ PROJECT_LIFECYCLE[Rank(s) + 1] = next
  BY NextState
<1> HIDE DEF next
<1>2. StatesUpTo(next) = StatesUpTo(s) \cup {next}
  <2>1. 1 .. Rank(next) = 1 .. Rank(s) \cup {Rank(s) + 1}
    BY <1>1
  <2> QED
    BY <1>1, <2>1 DEF StatesUpTo
<1>3. StatesUpTo(s) \subseteq States \ {next}
  <2> SUFFICES ASSUME NEW i \in 1 .. Rank(s)
               PROVE  PROJECT_LIFECYCLE[i] \in States /\ PROJECT_LIFECYCLE[i] # next
    BY DEF StatesUpTo
  <2>1. i \in 1 .. 5 /\ i # Rank(s) + 1
    BY <1>1
  <2>2. Rank(PROJECT_LIFECYCLE[i]) = i /\ PROJECT_LIFECYCLE[i] \in States
    BY <2>1, Lifecycle, Ranks
  <2> QED
    BY <1>1, <2>1, <2>2
<1>4. DocumentsUpTo(next) = DocumentsUpTo(s) \cup Documents(next)
  BY <1>2 DEF DocumentsUpTo
<1>5. \A t \in StatesUpTo(s) : Documents(next) \cap Documents(t) = {}
  BY <1>1, <1>3, DocumentsAre
<1>6. Documents(next) \cap DocumentsUpTo(s) = {}
  BY <1>5 DEF DocumentsUpTo
<1> QED
  BY <1>4, <1>6 DEF next

\* All that a program does, and that it does it in order.
LEMMA CreateDoes ==
  /\ Orderly(CreateProgram)
  /\ \A op : Does(CreateProgram, op) <=>
       op \in {LookForDir, MakeDir, Open(PROJECT_YML), Fill(PROJECT_YML), Open(LOG), Fill(LOG)}
<1> DEFINE first == <<LookForDir, MakeDir>>
           second == first \o Write(PROJECT_YML)
<1>1. first \in Seq(Operation) /\ Len(first) = 2 /\ first[1] = LookForDir /\ first[2] = MakeDir
  BY OperationsTyped
<1>2. CreateProgram = second \o Write(LOG)
  BY DEF CreateProgram
<1> HIDE DEF first
<1>3. \A op : Does(first, op) <=> op \in {LookForDir, MakeDir}
  <2>1. \A i : i \in 1 .. Len(first) <=> i = 1 \/ i = 2
    BY <1>1
  <2> QED
    BY <1>1, <2>1 DEF Does
<1>4. Orderly(first)
  <2>1. \A i \in 1 .. Len(first) : i = 1 \/ i = 2
    BY <1>1
  <2>2. /\ \A f : LookForDir \notin {Open(f), Fill(f)} /\ MakeDir \notin {Open(f), Fill(f)}
        /\ MakeDir \notin {LookForDir, AssembleHandoff}
    BY DEF LookForDir, MakeDir, AssembleHandoff, Open, Fill
  <2> QED
    BY <1>1, <2>1, <2>2 DEF Orderly, FilledNext, LogLast, AsksFirst
<1>5. ~Does(first, Fill(PROJECT_YML))
  BY <1>3, FillsDiffer
<1>6. /\ second \in Seq(Operation) /\ Orderly(second)
      /\ \A op : Does(second, op) <=> Does(first, op) \/ op \in {Open(PROJECT_YML), Fill(PROJECT_YML)}
  BY <1>1, <1>4, <1>5, OneMoreWrite, OrderlyWrite, DoesWrite, FileNames
<1> HIDE DEF second
<1> QED
  BY <1>2, <1>3, <1>6, OrderlyWrite, DoesWrite, FileNames

\* Every state brings its documents, the last one the package instead.
Brought(state) ==
  {Open(d) : d \in Documents(state)} \cup {Fill(d) : d \in Documents(state)}
    \cup IF state = "READY_FOR_BUILD" THEN {AssembleHandoff, Open(HANDOFF), Fill(HANDOFF)} ELSE {}

LEMMA MaterializeDoes ==
  ASSUME NEW state \in States \ {"DRAFT"}
  PROVE  /\ Materialize(state) \in Seq(Operation)
         /\ Orderly(Materialize(state))
         /\ \A op : Does(Materialize(state), op) <=> op \in Brought(state)
<1>1. ASSUME NEW f \in File
      PROVE  /\ Write(f) \in Seq(Operation)
             /\ \A op : Does(Write(f), op) <=> op \in {Open(f), Fill(f)}
             /\ f # PROJECT_YML => Orderly(Write(f))
  <2>1. /\ Write(f) \in Seq(Operation) /\ Len(Write(f)) = 2
        /\ Write(f)[1] = Open(f) /\ Write(f)[2] = Fill(f)
    BY WriteIs
  <2>2. \A i : i \in 1 .. Len(Write(f)) <=> i = 1 \/ i = 2
    BY <2>1
  <2>3. \A op : Does(Write(f), op) <=> op \in {Open(f), Fill(f)}
    BY <2>1, <2>2 DEF Does
  <2>4. ASSUME f # PROJECT_YML
        PROVE  Orderly(Write(f))
    <3>1. \A g : /\ Open(f) # Fill(g) /\ Fill(f) # Open(g)
                 /\ (Open(f) = Open(g) => f = g) /\ (Fill(f) = Fill(g) => f = g)
      BY DEF Open, Fill
    <3>2. {Open(f), Fill(f)} \cap {LookForDir, AssembleHandoff} = {}
      BY DEF Open, Fill, LookForDir, AssembleHandoff
    <3>3. FilledNext(Write(f))
      BY <2>1, <2>2, <3>1 DEF FilledNext
    <3>4. LogLast(Write(f))
      BY <2>1, <2>2, <2>4, <3>1 DEF LogLast
    <3>5. AsksFirst(Write(f))
      BY <2>1, <2>2, <3>2 DEF AsksFirst
    <3> QED
      BY <3>3, <3>4, <3>5 DEF Orderly
  <2> QED
    BY <2>1, <2>3, <2>4
<1>2. ASSUME NEW f \in Docs, NEW g \in Docs
      PROVE  /\ Write(f) \o Write(g) \in Seq(Operation)
             /\ Orderly(Write(f) \o Write(g))
             /\ \A op : Does(Write(f) \o Write(g), op) <=> op \in {Open(f), Fill(f), Open(g), Fill(g)}
  <2>1. /\ f \in File /\ g \in File /\ f # PROJECT_YML
        /\ Fill(f) # Fill(PROJECT_YML) /\ Open(f) # Fill(PROJECT_YML)
    BY DocumentsAre, FillsDiffer
  <2>2. ~Does(Write(f), Fill(PROJECT_YML)) /\ Orderly(Write(f)) /\ Write(f) \in Seq(Operation)
    BY <1>1, <2>1
  <2>3. \A op : Does(Write(f) \o Write(g), op) <=> Does(Write(f), op) \/ op \in {Open(g), Fill(g)}
    BY <2>1, <2>2, DoesWrite
  <2> QED
    BY <1>1, <2>1, <2>2, <2>3, OneMoreWrite, OrderlyWrite
<1>3. /\ Documents("INTAKE") = {"brief"}
      /\ Documents("DISCOVERY") = {"requirements", "business-rules"}
      /\ Documents("SPEC_READY") = {"user-stories", "acceptance-criteria"}
      /\ Documents("PLAN_READY") = {"build-plan"}
      /\ Documents("READY_FOR_BUILD") = {}
  BY DEF Documents
<1>4. ASSUME NEW f \in Docs, Documents(state) = {f}, state # "READY_FOR_BUILD"
      PROVE  Brought(state) = {Open(f), Fill(f)}
  BY <1>4 DEF Brought
<1>5. ASSUME NEW f \in Docs, NEW g \in Docs, Documents(state) = {f, g}, state # "READY_FOR_BUILD"
      PROVE  Brought(state) = {Open(f), Fill(f), Open(g), Fill(g)}
  BY <1>5 DEF Brought
<1>6. ASSUME NEW f \in Docs, Documents(state) = {f}, Materialize(state) = Write(f),
             state # "READY_FOR_BUILD"
      PROVE  /\ Materialize(state) \in Seq(Operation)
             /\ Orderly(Materialize(state))
             /\ \A op : Does(Materialize(state), op) <=> op \in Brought(state)
  BY <1>1, <1>4, <1>6, DocumentsAre
<1>7. ASSUME NEW f \in Docs, NEW g \in Docs, Documents(state) = {f, g},
             Materialize(state) = Write(f) \o Write(g), state # "READY_FOR_BUILD"
      PROVE  /\ Materialize(state) \in Seq(Operation)
             /\ Orderly(Materialize(state))
             /\ \A op : Does(Materialize(state), op) <=> op \in Brought(state)
  BY <1>2, <1>5, <1>7
<1>8. CASE state = "READY_FOR_BUILD"
  <2> DEFINE first == <<AssembleHandoff>>
  <2>1. first \in Seq(Operation) /\ Len(first) = 1 /\ first[1] = AssembleHandoff
    BY OperationsTyped
  <2>2. Materialize(state) = first \o Write(HANDOFF)
    BY <1>8 DEF Materialize
  <2> HIDE DEF first
  <2>3. \A i : i \in 1 .. Len(first) <=> i = 1
    BY <2>1
  <2>4. \A op : Does(first, op) <=> op = AssembleHandoff
    BY <2>1, <2>3 DEF Does
  <2>5. Orderly(first) /\ ~Does(first, Fill(PROJECT_YML))
    <3>1. \A f : AssembleHandoff \notin {Open(f), Fill(f)}
      BY DEF AssembleHandoff, Open, Fill
    <3> QED
      BY <2>1, <2>3, <2>4, <3>1 DEF Orderly, FilledNext, LogLast, AsksFirst
  <2>6. Brought(state) = {AssembleHandoff, Open(HANDOFF), Fill(HANDOFF)}
    BY <1>3, <1>8 DEF Brought
  <2> QED
    BY <2>1, <2>2, <2>4, <2>5, <2>6, OneMoreWrite, OrderlyWrite, DoesWrite, FileNames
<1>9. CASE state \in {"INTAKE", "PLAN_READY"}
  <2>1. PICK f \in Docs : Documents(state) = {f} /\ Materialize(state) = Write(f)
    BY <1>3, <1>9 DEF Materialize, Docs
  <2> QED
    BY <1>6, <1>9, <2>1
<1>10. CASE state \in {"DISCOVERY", "SPEC_READY"}
  <2>1. PICK f, g \in Docs : Documents(state) = {f, g} /\ Materialize(state) = Write(f) \o Write(g)
    BY <1>3, <1>10 DEF Materialize, Docs
  <2> QED
    BY <1>7, <1>10, <2>1, SMTT(30)
<1> QED
  BY <1>8, <1>9, <1>10, Lifecycle

LEMMA AdvanceDoes ==
  ASSUME NEW state \in States \ {"DRAFT"}
  PROVE  /\ AdvanceProgram(state) \in Seq(Operation) /\ Orderly(AdvanceProgram(state))
         /\ \A op : Does(AdvanceProgram(state), op) <=>
              op \in Brought(state) \cup {Open(PROJECT_YML), Fill(PROJECT_YML), Open(LOG), Fill(LOG)}
<1> DEFINE first == Materialize(state)
           second == first \o Write(PROJECT_YML)
<1>1. /\ first \in Seq(Operation) /\ Orderly(first)
      /\ \A op : Does(first, op) <=> op \in Brought(state)
  BY MaterializeDoes
<1>2. AdvanceProgram(state) = second \o Write(LOG)
  BY DEF AdvanceProgram
<1>3. Fill(PROJECT_YML) \notin Brought(state)
  <2>1. PROJECT_YML \notin Documents(state)
    BY DocumentsAre
  <2> QED
    BY <2>1, FileNames, FillsDiffer DEF Brought
<1> HIDE DEF first
<1>4. /\ second \in Seq(Operation) /\ Orderly(second)
      /\ \A op : Does(second, op) <=> Does(first, op) \/ op \in {Open(PROJECT_YML), Fill(PROJECT_YML)}
  BY <1>1, <1>3, OneMoreWrite, OrderlyWrite, DoesWrite, FileNames
<1> HIDE DEF second
<1>5. /\ second \o Write(LOG) \in Seq(Operation) /\ Orderly(second \o Write(LOG))
      /\ \A op : Does(second \o Write(LOG), op) <=> Does(second, op) \/ op \in {Open(LOG), Fill(LOG)}
  BY <1>4, OneMoreWrite, OrderlyWrite, DoesWrite, FileNames
<1> QED
  BY <1>1, <1>2, <1>4, <1>5

-------------------------------------------------------------------------------
LEMMA AbsentIsNothing ==
  /\ None \notin SoundDefinition /\ Empty \notin SoundDefinition
  /\ None \notin PackageSet /\ Empty \notin PackageSet
  BY AbsenceAssumption DEF PackageSet, SoundDefinition, States

\* What a command does next is an operation on a file of the project, or none.
LEMMA OperationIs ==
  ASSUME NEW op \in Operation
  PROVE  \/ op \in {LookForDir, MakeDir, AssembleHandoff}
         \/ op.file \in File /\ (op = Open(op.file) \/ op = Fill(op.file))
  BY DEF Operation, Open, Fill

LEMMA OperationsDiffer ==
  /\ \A f, g : Open(f) # Fill(g) /\ (Open(f) = Open(g) => f = g) /\ (Fill(f) = Fill(g) => f = g)
  /\ \A f : {LookForDir, MakeDir, AssembleHandoff} \cap {Open(f), Fill(f)} = {}
  /\ LookForDir # AssembleHandoff /\ LookForDir # MakeDir /\ MakeDir # AssembleHandoff
  BY DEF Open, Fill, LookForDir, MakeDir, AssembleHandoff

\* Only the command that takes a step matters.
LEMMA OneStep ==
  ASSUME FactoryInv, NEW p \in Proc,
         (OneCommand /\ proc[p] # Idle) \/ \A q \in Proc \ {p} : proc[q] = Idle,
         proc' = [proc EXCEPT ![p] = proc'[p]],
         LatestOK', proc'[p] # Idle => Underway(proc[p])'
  PROVE  Sequential'
<1>1. \A q \in Proc \ {p} : proc[q] = Idle
  BY DEF OneCommand
<1>2. \A q \in Proc \ {p} : proc'[q] = Idle
  BY <1>1 DEF FactoryInv
<1>3. OneCommand'
  BY <1>2 DEF OneCommand
<1>4. \A q \in Proc : proc'[q] # Idle => Underway(proc[q])'
  BY <1>2
<1> QED
  BY <1>3, <1>4 DEF Sequential

\* The command that goes on, with the package it has or has made.
LEMMA NextUp ==
  ASSUME FactoryInv, NEW p \in Proc, proc[p].todo # <<>>, NEW pkg,
         proc' = [proc EXCEPT ![p].todo = Tail(@), ![p].pkg = pkg]
  PROVE  /\ proc[p] # Idle /\ proc[p].todo \in Seq(Operation)
         /\ proc'[p].todo = Tail(proc[p].todo) /\ proc'[p].pkg = pkg
         /\ proc'[p].def = proc[p].def /\ proc'[p].goal = proc[p].goal
         /\ proc' = [proc EXCEPT ![p] = proc'[p]]
<1>1. proc[p] # Idle
  BY DEF Idle
<1>2. proc[p] \in Command
  BY <1>1, UnderWay
<1>3. proc'[p] = [proc[p] EXCEPT !.todo = Tail(@), !.pkg = pkg]
  BY DEF FactoryInv
<1>4. proc' = [proc EXCEPT ![p] = proc'[p]]
  BY <1>3 DEF FactoryInv
<1>5. /\ proc'[p].todo = Tail(proc[p].todo) /\ proc'[p].pkg = pkg
      /\ proc'[p].def = proc[p].def /\ proc'[p].goal = proc[p].goal
  BY <1>2 DEF FactoryInv, Command
<1>6. proc[p].todo \in Seq(Operation)
  BY <1>1, UnderWay
<1> QED
  BY <1>1, <1>4, <1>5, <1>6

\* Looking, making the directory and assembling the package touch no file.
LEMMA QuietStep ==
  ASSUME FactoryInv, Sequential, NEW p \in Proc, proc[p].todo # <<>>,
         Head(proc[p].todo) \in {LookForDir, MakeDir, AssembleHandoff},
         disk' = disk, latest' = latest, NEW pkg \in {proc[p].pkg, Package(proc[p].def)},
         proc' = [proc EXCEPT ![p].todo = Tail(@), ![p].pkg = pkg]
  PROVE  Sequential'
<1> DEFINE todo == proc[p].todo
           rest == Tail(todo)
<1>1. /\ proc[p] # Idle /\ todo \in Seq(Operation)
      /\ proc'[p].todo = rest /\ proc'[p].pkg = pkg /\ proc'[p].def = proc[p].def
      /\ proc' = [proc EXCEPT ![p] = proc'[p]]
  BY NextUp
<1>2. Underway(proc[p]) /\ LatestOK /\ OneCommand
  BY <1>1 DEF Sequential
<1>3. Orderly(rest) /\ \A op : Does(todo, op) <=> Head(todo) = op \/ Does(rest, op)
  BY <1>1, <1>2, OrderlyTail, DoesTail DEF Underway
<1>4. \A f : (Does(todo, Open(f)) <=> Does(rest, Open(f))) /\ (Does(todo, Fill(f)) <=> Does(rest, Fill(f)))
  BY <1>3, OperationsDiffer
<1> HIDE DEF rest
<1>5. LatestOK'
  BY <1>2 DEF LatestOK, Kept, Whole
<1>6. CASE Does(todo, Fill(PROJECT_YML))
  <2>1. ToBeDefined(proc[p])
    BY <1>2, <1>6 DEF Underway
  <2>2. ToBeDefined(proc[p])'
    BY <1>1, <1>3, <1>4, <2>1 DEF ToBeDefined, Touches
  <2>3. Underway(proc[p])'
    BY <1>1, <1>2, <1>3, <1>4, <1>6, <2>2 DEF Underway
  <2> QED
    BY <1>1, <1>2, <1>5, <2>3, OneStep
<1>7. CASE ~Does(todo, Fill(PROJECT_YML))
  <2>1. Defined(proc[p])
    BY <1>2, <1>7 DEF Underway
  <2>2. Defined(proc[p])'
    BY <1>1, <1>3, <2>1 DEF Defined
  <2>3. Underway(proc[p])'
    BY <1>1, <1>2, <1>3, <1>4, <1>7, <2>2 DEF Underway
  <2> QED
    BY <1>1, <1>2, <1>5, <2>3, OneStep
<1> QED
  BY <1>6, <1>7

\* A file that is opened is none of those that are promised already.
LEMMA OpenStep ==
  ASSUME FactoryInv, Sequential, NEW p \in Proc, proc[p].todo # <<>>, NEW f \in File,
         Head(proc[p].todo) = Open(f), f = PROJECT_YML => ~proc[p].def.secret,
         disk' = [disk EXCEPT ![f] = Empty], latest' = latest,
         proc' = [proc EXCEPT ![p].todo = Tail(@), ![p].pkg = proc[p].pkg]
  PROVE  Sequential'
<1> DEFINE todo == proc[p].todo
           rest == Tail(todo)
           def == proc[p].def
<1>1. /\ proc[p] # Idle /\ todo \in Seq(Operation)
      /\ proc'[p].todo = rest /\ proc'[p].pkg = proc[p].pkg /\ proc'[p].def = def
      /\ proc' = [proc EXCEPT ![p] = proc'[p]]
  BY NextUp
<1>2. Underway(proc[p]) /\ LatestOK /\ OneCommand
  BY <1>1 DEF Sequential
<1>3. /\ Orderly(rest) /\ Does(rest, Fill(f))
      /\ \A op : Does(todo, op) <=> Head(todo) = op \/ Does(rest, op)
  BY <1>1, <1>2, OrderlyTail, DoesTail DEF Underway
<1>4. /\ Does(todo, Open(f))
      /\ \A g : Does(todo, Fill(g)) <=> Does(rest, Fill(g))
      /\ \A g : g # f => (Does(todo, Open(g)) <=> Does(rest, Open(g)))
      /\ \A g : Does(rest, Open(g)) => Does(todo, Open(g))
  BY <1>3, OperationsDiffer
<1> HIDE DEF rest
<1>5. \A g \in File : disk'[g] = IF g = f THEN Empty ELSE disk[g]
  BY DEF FactoryInv, DiskOK
<1>6. /\ def \in SoundDefinition /\ def # None
      /\ None # Empty /\ Empty \notin PackageSet
  BY <1>1, UnderWay, AbsentIsNothing, FactoryAssumption
<1>7. ASSUME NEW kept \in SoundDefinition, Kept(kept), f # HANDOFF \/ kept.granted_by = None,
             f \notin DocumentsUpTo(kept.status)
      PROVE  Kept(kept)'
  <2>1. DocumentsUpTo(kept.status) \subseteq File
    BY DocumentsAre DEF SoundDefinition
  <2>2. \A d \in DocumentsUpTo(kept.status) : disk'[d] = kept.id
    BY <1>5, <1>7, <2>1 DEF Kept
  <2>3. /\ Whole(HANDOFF)' => Whole(HANDOFF) /\ disk'[HANDOFF] = disk[HANDOFF]
        /\ kept.granted_by # None => disk'[HANDOFF] = disk[HANDOFF]
    BY <1>5, <1>7, FileNames DEF Whole
  <2> QED
    BY <1>7, <2>2, <2>3 DEF Kept
<1>8. /\ latest = None => f # HANDOFF
      /\ latest # None => /\ f # HANDOFF \/ latest.granted_by = None
                          /\ f \notin DocumentsUpTo(latest.status)
  <2>1. CASE Does(todo, Fill(PROJECT_YML))
    BY <1>2, <1>4, <2>1 DEF Underway, ToBeDefined, Touches, Follows
  <2>2. CASE ~Does(todo, Fill(PROJECT_YML))
    <3>1. f = LOG /\ latest = def
      BY <1>2, <1>4, <2>2, OperationsTyped, OperationsDiffer DEF Underway, Defined
    <3>2. f \notin DocumentsUpTo(latest.status)
      BY <1>6, <3>1, DocumentsAre DEF SoundDefinition
    <3> QED
      BY <1>6, <3>1, <3>2, FileNames
  <2> QED
    BY <2>1, <2>2
<1>9. LatestOK'
  <2>1. Whole(PROJECT_YML)' => Whole(PROJECT_YML) /\ disk'[PROJECT_YML] = disk[PROJECT_YML]
    BY <1>5, FileNames DEF Whole
  <2>2. disk'[PROJECT_YML] = None => disk[PROJECT_YML] = None
    BY <1>5, <1>6, FileNames
  <2>3. latest = None => disk'[HANDOFF] = disk[HANDOFF]
    BY <1>5, <1>8, FileNames
  <2>4. latest # None => Kept(latest)'
    <3>1. SUFFICES ASSUME latest # None PROVE Kept(latest)'
      OBVIOUS
    <3>2. PICK kept \in SoundDefinition : kept = latest
      BY <1>2, <3>1 DEF LatestOK
    <3>3. Kept(kept)
      BY <1>2, <3>1, <3>2 DEF LatestOK
    <3>4. Kept(kept)'
      BY <1>7, <1>8, <3>1, <3>2, <3>3
    <3> QED
      BY <3>2, <3>4 DEF Kept
  <2> QED
    BY <1>2, <2>1, <2>2, <2>3, <2>4 DEF LatestOK
<1>10. CASE Does(todo, Fill(PROJECT_YML))
  <2>1. ToBeDefined(proc[p])
    BY <1>2, <1>10 DEF Underway
  <2>2. \A d \in DocumentsUpTo(def.status) : disk'[d] = def.id \/ Does(rest, Fill(d))
    <3>1. DocumentsUpTo(def.status) \subseteq File
      BY <1>6, DocumentsAre DEF SoundDefinition
    <3> QED
      BY <1>3, <1>4, <1>5, <2>1, <3>1 DEF ToBeDefined
  <2>3. def.granted_by # None => disk'[HANDOFF] = Package(def) \/ Does(rest, Fill(HANDOFF))
    BY <1>3, <1>4, <1>5, <2>1, FileNames DEF ToBeDefined
  <2>4. def.secret => Does(rest, Open(PROJECT_YML))
    BY <1>4, <2>1 DEF ToBeDefined
  <2>5. \A g : Touches(rest, g) => Touches(todo, g)
    BY <1>4 DEF Touches
  <2>6. latest = None => def.status = "DRAFT" /\ ~Touches(rest, HANDOFF)
    BY <2>1, <2>5 DEF ToBeDefined
  <2>7. latest # None =>
          /\ Follows(latest, def)
          /\ \A d \in DocumentsUpTo(latest.status) : ~Touches(rest, d)
          /\ ~Does(rest, LookForDir)
    BY <1>3, <2>1, <2>5 DEF ToBeDefined
  <2> HIDE DEF def
  <2>8. ToBeDefined(proc[p])'
    BY <1>1, <2>2, <2>3, <2>4, <2>6, <2>7 DEF ToBeDefined
  <2>9. Underway(proc[p])'
    BY <1>1, <1>2, <1>3, <1>4, <1>10, <2>8 DEF Underway, def
  <2> QED
    BY <1>1, <1>2, <1>9, <2>9, OneStep
<1>11. CASE ~Does(todo, Fill(PROJECT_YML))
  <2>1. Defined(proc[p])'
    BY <1>1, <1>2, <1>3, <1>11 DEF Underway, Defined
  <2>2. Underway(proc[p])'
    BY <1>1, <1>2, <1>3, <1>4, <1>11, <2>1 DEF Underway
  <2> QED
    BY <1>1, <1>2, <1>9, <2>2, OneStep
<1> QED
  BY <1>10, <1>11


\* A file that is filled is what the command's definition promises, or is the
\* definition itself, whose promises are kept by then.
LEMMA FillStep ==
  ASSUME FactoryInv, Sequential, NEW p \in Proc, proc[p].todo # <<>>, NEW f \in File,
         Head(proc[p].todo) = Fill(f), disk' = [disk EXCEPT ![f] = Content(p, f)],
         latest' = IF f = PROJECT_YML THEN proc[p].def ELSE latest,
         proc' = [proc EXCEPT ![p].todo = Tail(@), ![p].pkg = proc[p].pkg]
  PROVE  Sequential'
<1> DEFINE todo == proc[p].todo
           rest == Tail(todo)
           def == proc[p].def
<1>1. /\ proc[p] # Idle /\ todo \in Seq(Operation)
      /\ proc'[p].todo = rest /\ proc'[p].pkg = proc[p].pkg /\ proc'[p].def = def
      /\ proc' = [proc EXCEPT ![p] = proc'[p]]
  BY NextUp
<1>2. Underway(proc[p]) /\ LatestOK /\ OneCommand
  BY <1>1 DEF Sequential
<1>3. /\ Orderly(rest)
      /\ \A op : Does(todo, op) <=> Head(todo) = op \/ Does(rest, op)
      /\ f = PROJECT_YML => \A op : Does(rest, op) => op \in {Open(LOG), Fill(LOG)}
  BY <1>1, <1>2, OrderlyTail, DoesTail DEF Underway
<1>4. /\ Does(todo, Fill(f))
      /\ \A g : Does(todo, Open(g)) <=> Does(rest, Open(g))
      /\ \A g : g # f => (Does(todo, Fill(g)) <=> Does(rest, Fill(g)))
      /\ \A g : Does(rest, Fill(g)) => Does(todo, Fill(g))
  BY <1>3, OperationsDiffer
<1>5. \A g \in File : disk'[g] = IF g = f THEN Content(p, f) ELSE disk[g]
  BY DEF FactoryInv, DiskOK
<1>6. /\ def \in SoundDefinition /\ def # None
      /\ SafeProgram(todo, def.status, proc[p].pkg, disk[HANDOFF])
  BY <1>1, UnderWay, AbsentIsNothing
<1>7. DocumentsUpTo(def.status) \subseteq Docs
  BY <1>6, DocumentsAre DEF SoundDefinition
<1>8. f \in Docs \/ f = PROJECT_YML \/ f = HANDOFF \/ f = LOG
  BY DocumentsAre
<1>9. f \in Docs => Content(p, f) = def.id
  BY DocumentsAre DEF Content
<1>10. f = HANDOFF => Content(p, f) = Package(def)
  <2>1. SUFFICES ASSUME f = HANDOFF PROVE Content(p, f) = Package(def)
    OBVIOUS
  <2>2. Content(p, HANDOFF) = proc[p].pkg
    BY FileNames DEF Content
  <2>3. todo[1] = Fill(HANDOFF) /\ 1 \in 1 .. Len(todo)
    BY <1>1, <2>1, HeadTailProperties, EmptySeq
  <2>4. proc[p].pkg \in PackageSet
    BY <1>6, <2>3 DEF SafeProgram, AssembledBeforeFilled
  <2> QED
    BY <1>2, <2>1, <2>2, <2>4, AbsentIsNothing DEF Underway
<1>11. f = PROJECT_YML => Content(p, f) = def
  BY FileNames DEF Content
<1>12. f # LOG => Does(todo, Fill(PROJECT_YML))
  <2>1. CASE ~Does(todo, Fill(PROJECT_YML))
    BY <1>2, <1>4, <2>1, OperationsTyped, OperationsDiffer DEF Underway, Defined
  <2> QED
    BY <2>1
<1> HIDE DEF rest
<1>13. CASE f = PROJECT_YML
  <2>1. ToBeDefined(proc[p])
    BY <1>2, <1>12, <1>13, FileNames DEF Underway
  <2>2. \A op : Does(todo, op) => op \in {Fill(PROJECT_YML), Open(LOG), Fill(LOG)}
    BY <1>3, <1>13
  <2>3. latest' = def /\ disk'[PROJECT_YML] = def /\ disk'[HANDOFF] = disk[HANDOFF]
    BY <1>5, <1>11, <1>13, FileNames
  <2>4. \A d \in DocumentsUpTo(def.status) : disk'[d] = def.id
    <3>1. SUFFICES ASSUME NEW d \in DocumentsUpTo(def.status) PROVE disk'[d] = def.id
      OBVIOUS
    <3>2. d \in Docs /\ d \in File /\ d # PROJECT_YML /\ d # LOG
      BY <1>7, <3>1, DocumentsAre
    <3>3. ~Does(todo, Fill(d))
      BY <2>2, <3>2, OperationsDiffer
    <3> QED
      BY <1>5, <1>13, <2>1, <3>2, <3>3 DEF ToBeDefined
  <2>5. def.granted_by # None => disk[HANDOFF] = Package(def)
    <3>1. ~Does(todo, Fill(HANDOFF))
      BY <2>2, FileNames, OperationsDiffer
    <3> QED
      BY <2>1, <3>1 DEF ToBeDefined
  <2>6. ~def.secret
    <3>1. ~Does(todo, Open(PROJECT_YML))
      BY <2>2, FileNames, OperationsDiffer
    <3> QED
      BY <2>1, <3>1 DEF ToBeDefined
  <2>7. Whole(HANDOFF) => disk[HANDOFF].id = def.id /\ disk[HANDOFF].terms = def.terms
    <3>1. CASE latest = None
      BY <1>2, <3>1 DEF LatestOK, Whole
    <3>2. CASE latest # None
      BY <1>2, <2>1, <3>2 DEF LatestOK, Kept, ToBeDefined, Follows
    <3> QED
      BY <3>1, <3>2
  <2>8. ~Does(rest, Fill(PROJECT_YML))
    BY <1>3, <1>13, FileNames, OperationsDiffer
  <2> HIDE DEF def
  <2>9. PICK kept \in SoundDefinition : kept = def
    BY <1>6
  <2>10. Kept(kept)'
    BY <2>3, <2>4, <2>5, <2>7, <2>9 DEF Kept, Whole
  <2>11. LatestOK'
    BY <1>6, <2>3, <2>6, <2>9, <2>10 DEF LatestOK, Kept
  <2>12. Defined(proc[p])'
    BY <1>1, <1>3, <1>13, <2>3 DEF Defined
  <2>13. Underway(proc[p])'
    BY <1>1, <1>2, <1>3, <2>8, <2>12 DEF Underway, def
  <2> QED
    BY <1>1, <1>2, <2>11, <2>13, OneStep
<1>14. CASE f # PROJECT_YML
  <2>1. latest' = latest /\ disk'[PROJECT_YML] = disk[PROJECT_YML]
    BY <1>5, <1>14, FileNames
  <2>2. /\ latest = None => f # HANDOFF
        /\ latest # None => /\ f \notin DocumentsUpTo(latest.status)
                            /\ f = HANDOFF => Follows(latest, def)
    <3>1. CASE Does(todo, Fill(PROJECT_YML))
      BY <1>2, <1>4, <3>1 DEF Underway, ToBeDefined, Touches
    <3>2. CASE ~Does(todo, Fill(PROJECT_YML))
      <4>1. f = LOG /\ latest = def
        BY <1>2, <1>12, <3>2 DEF Underway, Defined
      <4> QED
        BY <1>6, <1>7, <4>1, DocumentsAre, FileNames
    <3> QED
      BY <3>1, <3>2
  <2>3. LatestOK'
    <3>1. latest = None => disk'[HANDOFF] = disk[HANDOFF]
      BY <1>5, <2>2, FileNames
    <3>2. latest # None => Kept(latest)'
      <4>1. SUFFICES ASSUME latest # None PROVE Kept(latest)'
        OBVIOUS
      <4>2. Kept(latest) /\ latest \in SoundDefinition
        BY <1>2, <4>1 DEF LatestOK
      <4>3. DocumentsUpTo(latest.status) \subseteq File
        BY <4>2, DocumentsAre DEF SoundDefinition
      <4>4. \A d \in DocumentsUpTo(latest.status) : disk'[d] = latest.id
        BY <1>5, <2>2, <4>1, <4>2, <4>3 DEF Kept
      <4>5. CASE f # HANDOFF
        BY <1>5, <2>1, <4>2, <4>4, <4>5, FileNames DEF Kept, Whole
      <4>6. CASE f = HANDOFF
        <5>1. disk'[HANDOFF] = Package(def) /\ Follows(latest, def)
          BY <1>5, <1>10, <2>2, <4>1, <4>6
        <5>2. disk'[HANDOFF].id = latest.id /\ disk'[HANDOFF].terms = latest.terms
              /\ latest.granted_by = None
          BY <5>1 DEF Package, Follows
        <5> QED
          BY <2>1, <4>4, <5>2 DEF Kept
      <4> QED
        BY <4>5, <4>6
    <3>3. Whole(PROJECT_YML)' <=> Whole(PROJECT_YML)
      BY <2>1 DEF Whole
    <3> QED
      BY <1>2, <2>1, <3>1, <3>2, <3>3 DEF LatestOK
  <2>4. CASE Does(todo, Fill(PROJECT_YML))
    <3>1. ToBeDefined(proc[p])
      BY <1>2, <2>4 DEF Underway
    <3>2. \A d \in DocumentsUpTo(def.status) : disk'[d] = def.id \/ Does(rest, Fill(d))
      <4>1. DocumentsUpTo(def.status) \subseteq File
        BY <1>7, DocumentsAre
      <4> QED
        BY <1>4, <1>5, <1>7, <1>9, <3>1, <4>1 DEF ToBeDefined
    <3>3. def.granted_by # None => disk'[HANDOFF] = Package(def) \/ Does(rest, Fill(HANDOFF))
      BY <1>4, <1>5, <1>10, <3>1, FileNames DEF ToBeDefined
    <3>4. def.secret => Does(rest, Open(PROJECT_YML))
      BY <1>4, <3>1 DEF ToBeDefined
    <3>5. \A g : Touches(rest, g) => Touches(todo, g)
      BY <1>4 DEF Touches
    <3>6. latest = None => def.status = "DRAFT" /\ ~Touches(rest, HANDOFF)
      BY <3>1, <3>5 DEF ToBeDefined
    <3>7. latest # None =>
            /\ Follows(latest, def)
            /\ \A d \in DocumentsUpTo(latest.status) : ~Touches(rest, d)
            /\ ~Does(rest, LookForDir)
      BY <1>3, <3>1, <3>5 DEF ToBeDefined
    <3> HIDE DEF def
    <3>8. ToBeDefined(proc[p])'
      BY <1>1, <2>1, <3>2, <3>3, <3>4, <3>6, <3>7 DEF ToBeDefined
    <3>9. Underway(proc[p])'
      BY <1>1, <1>2, <1>3, <1>4, <1>14, <2>4, <3>8 DEF Underway, def
    <3> QED
      BY <1>1, <1>2, <2>3, <3>9, OneStep
  <2>5. CASE ~Does(todo, Fill(PROJECT_YML))
    <3>1. Defined(proc[p])'
      BY <1>1, <1>2, <1>3, <2>1, <2>5 DEF Underway, Defined
    <3>2. Underway(proc[p])'
      BY <1>1, <1>2, <1>3, <1>4, <2>5, <3>1 DEF Underway
    <3> QED
      BY <1>1, <1>2, <2>3, <3>2, OneStep
  <2> QED
    BY <2>4, <2>5
<1> QED
  BY <1>13, <1>14

\* A command that ends leaves the files as they are.
LEMMA EndStep ==
  ASSUME FactoryInv, Sequential, NEW p \in Proc, proc[p] # Idle, End(p),
         disk' = disk, latest' = latest
  PROVE  Sequential'
<1>1. proc' = [proc EXCEPT ![p] = proc'[p]] /\ proc'[p] = Idle
  BY DEF End, FactoryInv
<1>2. LatestOK'
  BY DEF Sequential, LatestOK, Kept, Whole
<1> QED
  BY <1>1, <1>2, OneStep DEF Sequential

\* To advance the definition last written is to go on from it.
LEMMA AdvanceFollows ==
  ASSUME LatestOK, latest # None, latest.status # "READY_FOR_BUILD", NEW c,
         c.def = Advanced(latest), c.todo = AdvanceProgram(Advanced(latest).status)
  PROVE  /\ Advanced(latest) \in SoundDefinition /\ Follows(latest, c.def)
         /\ Orderly(c.todo) /\ ToBeDefined(c) /\ Does(c.todo, Fill(PROJECT_YML))
         /\ Does(c.todo, Fill(LOG)) /\ ~Does(c.todo, LookForDir)
         /\ Package(c.def) = Package(latest)
<1> DEFINE next == NextLifecycleState(latest.status)
           def == Advanced(latest)
           todo == AdvanceProgram(next)
<1>1. latest \in SoundDefinition /\ latest.status \in States /\ Kept(latest) /\ ~latest.secret
  BY DEF LatestOK, SoundDefinition
<1>2. /\ next \in States \ {"DRAFT"} /\ Rank(next) = Rank(latest.status) + 1
  BY <1>1, NextState
<1>3. /\ def.id = latest.id /\ def.terms = latest.terms /\ def.secret = latest.secret
      /\ def.status = next /\ def.granted_by = latest.granted_by /\ latest.granted_by = None
  BY <1>1, FactoryAssumption DEF SoundDefinition, Advanced
<1>4. def \in SoundDefinition
  BY <1>1, AdvancedIsSound
<1>5. c.todo = todo /\ c.def = def
  BY <1>3
<1>6. Follows(latest, def)
  BY <1>2, <1>3 DEF Follows
<1>7. /\ Orderly(todo)
      /\ \A op : Does(todo, op) <=>
           op \in Brought(next) \cup {Open(PROJECT_YML), Fill(PROJECT_YML), Open(LOG), Fill(LOG)}
  BY <1>2, AdvanceDoes
<1> DEFINE old == latest.status
<1>8. /\ DocumentsUpTo(next) = DocumentsUpTo(old) \cup Documents(next)
      /\ Documents(next) \cap DocumentsUpTo(old) = {}
      /\ DocumentsUpTo(old) \subseteq Docs
  BY <1>1, DocumentsGrow, DocumentsAre
<1> HIDE DEF next, todo, def, old
<1>9. \A d \in DocumentsUpTo(old) : ~Touches(todo, d)
  <2> SUFFICES ASSUME NEW d \in DocumentsUpTo(old) PROVE ~Touches(todo, d)
    OBVIOUS
  <2>1. d \notin {PROJECT_YML, HANDOFF, LOG} /\ d \notin Documents(next)
    BY <1>8, DocumentsAre
  <2>2. /\ Open(d) \notin {Open(PROJECT_YML), Fill(PROJECT_YML), Open(LOG), Fill(LOG)}
        /\ Fill(d) \notin {Open(PROJECT_YML), Fill(PROJECT_YML), Open(LOG), Fill(LOG)}
    BY <2>1, OperationsDiffer
  <2>3. /\ {Open(d), Fill(d)} \cap {AssembleHandoff, Open(HANDOFF), Fill(HANDOFF)} = {}
        /\ {Open(d), Fill(d)} \cap ({Open(x) : x \in Documents(next)} \cup {Fill(x) : x \in Documents(next)}) = {}
    BY <2>1, OperationsDiffer
  <2>4. Open(d) \notin Brought(next) /\ Fill(d) \notin Brought(next)
    BY <2>3 DEF Brought
  <2> QED
    BY <1>7, <2>2, <2>4 DEF Touches
<1>10. ~Does(todo, LookForDir)
  <2>1. LookForDir \notin Brought(next)
    BY OperationsDiffer DEF Brought
  <2> QED
    BY <1>7, <2>1, OperationsDiffer
<1>11. \A d \in DocumentsUpTo(next) : disk[d] = latest.id \/ Does(todo, Fill(d))
  <2>1. \A d \in Documents(next) : Fill(d) \in Brought(next)
    BY DEF Brought
  <2> QED
    BY <1>1, <1>7, <1>8, <2>1 DEF Kept, old
<1>12. ToBeDefined(c)
  BY <1>1, <1>3, <1>5, <1>6, <1>9, <1>10, <1>11 DEF ToBeDefined, old
<1> QED
  BY <1>3, <1>4, <1>5, <1>6, <1>7, <1>10, <1>12 DEF Package, def


-------------------------------------------------------------------------------
\* A command that begins while nothing runs.
LEMMA BeginStep ==
  ASSUME FactoryInv, SequentialInv, NEW p \in Proc, NEW op, NEW def, NEW goal, NEW todo,
         Begin(p, op, def, goal, todo), ~overlapped', Orderly(todo),
         Does(todo, Fill(PROJECT_YML)),
         ToBeDefined([op |-> op, todo |-> todo, def |-> def, pkg |-> None, goal |-> goal])
  PROVE  Sequential'
<1> DEFINE c == [op |-> op, todo |-> todo, def |-> def, pkg |-> None, goal |-> goal]
<1>1. /\ proc[p] = Idle /\ proc' = [proc EXCEPT ![p] = c]
      /\ disk' = disk /\ latest' = latest
      /\ ~overlapped /\ \A q \in Proc \ {p} : proc[q] = Idle
  BY DEF Begin
<1>2. proc'[p] = c /\ proc' = [proc EXCEPT ![p] = proc'[p]]
  BY <1>1 DEF FactoryInv
<1>3. LatestOK'
  BY <1>1 DEF SequentialInv, Sequential, LatestOK, Kept, Whole
<1>4. ToBeDefined(c) /\ c.todo = todo /\ c.pkg = None
  OBVIOUS
<1> HIDE DEF c
<1>5. ToBeDefined(proc[p])'
  BY <1>1, <1>2, <1>4 DEF ToBeDefined
<1>6. Underway(proc[p])'
  BY <1>2, <1>4, <1>5 DEF Underway
<1> QED
  BY <1>1, <1>2, <1>3, <1>6, OneStep

LEMMA StartingKeeps ==
  ASSUME FactoryInv, SequentialInv, ~overlapped', NEW p \in Proc,
         StartCreate(p) \/ StartAdvance(p) \/ StartAuthorize(p)
  PROVE  Sequential'
<1>1. ~overlapped
  BY DEF StartCreate, StartAdvance, StartAuthorize, Begin
<1>2. LatestOK
  BY <1>1 DEF SequentialInv, Sequential
<1>3. CASE StartCreate(p)
  <2>1. PICK raw \in Raw, goal \in Goal :
          /\ disk[PROJECT_YML] = None
          /\ Begin(p, "create", NewDefinition(raw, commands + 1), goal, CreateProgram)
    BY <1>3 DEF StartCreate, CreateRefused
  <2>2. PICK def : def = NewDefinition(raw, commands + 1)
    OBVIOUS
  <2>3. PICK todo : todo = CreateProgram
    OBVIOUS
  <2>4. latest = None
    BY <1>2, <2>1 DEF LatestOK
  <2>5. /\ Orderly(todo) /\ Does(todo, Fill(PROJECT_YML)) /\ Does(todo, Open(PROJECT_YML))
        /\ ~Touches(todo, HANDOFF)
    <3>1. /\ {LookForDir, MakeDir} \cap {Open(HANDOFF), Fill(HANDOFF)} = {}
          /\ {Open(PROJECT_YML), Fill(PROJECT_YML), Open(LOG), Fill(LOG)}
               \cap {Open(HANDOFF), Fill(HANDOFF)} = {}
      BY FileNames, OperationsDiffer
    <3> QED
      BY <2>3, <3>1, CreateDoes DEF Touches
  <2>6. def.status = "DRAFT" /\ def.granted_by = None /\ DocumentsUpTo(def.status) = {}
    BY <2>2, DocumentsAre DEF NewDefinition
  <2>7. ToBeDefined([op |-> "create", todo |-> todo, def |-> def, pkg |-> None, goal |-> goal])
    BY <2>4, <2>5, <2>6 DEF ToBeDefined
  <2> QED
    BY <2>1, <2>2, <2>3, <2>5, <2>7, BeginStep
<1>4. ASSUME StartAdvance(p) \/ StartAuthorize(p)
      PROVE  /\ latest = disk[PROJECT_YML] /\ latest # None /\ latest \in SoundDefinition
             /\ Kept(latest) /\ ~latest.secret
  BY <1>2, <1>4 DEF StartAdvance, StartAuthorize, MayAdvance, MayAuthorize, LatestOK, Whole
<1>5. CASE StartAdvance(p)
  <2>1. PICK def : def = Advanced(latest)
    OBVIOUS
  <2>2. PICK goal : goal = def.status
    OBVIOUS
  <2>3. PICK todo : todo = AdvanceProgram(Advanced(latest).status)
    OBVIOUS
  <2>4. latest.status # "READY_FOR_BUILD" /\ Begin(p, "advance", def, goal, todo)
    BY <1>4, <1>5, <2>1, <2>2, <2>3 DEF StartAdvance, MayAdvance
  <2> DEFINE c == [op |-> "advance", todo |-> todo, def |-> def, pkg |-> None, goal |-> goal]
  <2>5. c.def = Advanced(latest) /\ c.todo = AdvanceProgram(Advanced(latest).status)
    BY <2>1, <2>3
  <2>6. Orderly(todo) /\ Does(todo, Fill(PROJECT_YML)) /\ ToBeDefined(c)
    <3> HIDE DEF c
    <3>1. Orderly(c.todo) /\ Does(c.todo, Fill(PROJECT_YML)) /\ ToBeDefined(c)
      BY <1>2, <1>4, <1>5, <2>4, <2>5, AdvanceFollows
    <3> QED
      BY <3>1 DEF c
  <2> QED
    BY <2>4, <2>6, BeginStep
<1>6. CASE StartAuthorize(p)
  <2>1. PICK def : def = [latest EXCEPT !.granted_by = HUMAN_FOUNDER,
                                        !.history = Append(@, "READY_FOR_BUILD")]
    OBVIOUS
  <2>2. PICK goal : goal = def.status
    OBVIOUS
  <2>3. PICK todo : todo = AuthorizeProgram
    OBVIOUS
  <2>4. /\ latest.status = "READY_FOR_BUILD" /\ latest.granted_by = None
        /\ Begin(p, "authorize", def, goal, todo)
    BY <1>4, <1>6, <2>1, <2>2, <2>3 DEF StartAuthorize, MayAuthorize
  <2>5. /\ def.id = latest.id /\ def.terms = latest.terms /\ def.secret = latest.secret
        /\ def.status = latest.status /\ def.granted_by = HUMAN_FOUNDER
    BY <1>4, <1>6, <2>1 DEF SoundDefinition
  <2>6. Follows(latest, def)
    BY <2>4, <2>5, FactoryAssumption DEF Follows
  <2>7. /\ Orderly(todo)
        /\ \A op : Does(todo, op) <=>
             op \in {AssembleHandoff, Open(HANDOFF), Fill(HANDOFF), Open(PROJECT_YML),
                     Fill(PROJECT_YML), Open(LOG), Fill(LOG)}
    <3>1. "READY_FOR_BUILD" \in States \ {"DRAFT"}
      BY Lifecycle
    <3>2. Brought("READY_FOR_BUILD") = {AssembleHandoff, Open(HANDOFF), Fill(HANDOFF)}
      BY DocumentsAre DEF Brought
    <3> QED
      BY <2>3, <3>1, <3>2, AdvanceDoes, ReadyIs
  <2>8. \A d \in DocumentsUpTo(latest.status) : ~Touches(todo, d)
    <3> SUFFICES ASSUME NEW d \in DocumentsUpTo(latest.status) PROVE ~Touches(todo, d)
      OBVIOUS
    <3>1. d \notin {PROJECT_YML, HANDOFF, LOG}
      BY <1>4, <1>6, DocumentsAre DEF SoundDefinition
    <3>2. /\ AssembleHandoff \notin {Open(d), Fill(d)}
          /\ {Open(HANDOFF), Fill(HANDOFF), Open(PROJECT_YML), Fill(PROJECT_YML), Open(LOG), Fill(LOG)}
               \cap {Open(d), Fill(d)} = {}
      BY <3>1, OperationsDiffer
    <3> QED
      BY <2>7, <3>2 DEF Touches
  <2>9. ~Does(todo, LookForDir)
    BY <2>7, OperationsDiffer
  <2>10. ToBeDefined([op |-> "authorize", todo |-> todo, def |-> def, pkg |-> None, goal |-> goal])
    BY <1>4, <1>6, <2>5, <2>6, <2>7, <2>8, <2>9 DEF ToBeDefined, Kept
  <2>11. Does(todo, Fill(PROJECT_YML))
    BY <2>7
  <2> QED
    BY <2>4, <2>7, <2>10, <2>11, BeginStep
<1> QED
  BY <1>3, <1>5, <1>6

LEMMA TurnStep ==
  ASSUME FactoryInv, Sequential, NEW p \in Proc, TakeTurn(p)
  PROVE  Sequential'
<1>1. proc[p] # Idle /\ proc[p].todo = <<>> /\ disk' = disk /\ latest' = latest
  BY DEF TakeTurn
<1>2. CASE End(p)
  BY <1>1, <1>2, EndStep
<1>3. CASE proc[p].def.status # proc[p].goal
  <2>1. /\ proc[p] \in Command /\ proc[p].def \in SoundDefinition /\ proc[p].goal \in States
        /\ Rank(proc[p].def.status) <= Rank(proc[p].goal)
    BY <1>1, UnderWay
  <2>2. proc[p].def.status \in States
    BY <2>1 DEF SoundDefinition
  <2>3. proc[p].def.status # "READY_FOR_BUILD"
    <3>1. Rank(proc[p].def.status) # Rank(proc[p].goal)
      BY <1>3, <2>1, <2>2, Lifecycle, Ranks
    <3> QED
      BY <2>1, <2>2, <3>1, RanksBound
  <2>4. Underway(proc[p]) /\ LatestOK /\ OneCommand
    BY <1>1 DEF Sequential
  <2>5. latest = proc[p].def /\ latest # None
    <3>1. ~Does(<<>>, Fill(PROJECT_YML))
      BY DEF Does
    <3> QED
      BY <1>1, <2>1, <2>4, <3>1, AbsentIsNothing DEF Underway, Defined
  <2>6. proc' = [proc EXCEPT ![p].def = Advanced(latest),
                             ![p].todo = AdvanceProgram(Advanced(latest).status)]
    BY <1>3, <2>5 DEF TakeTurn
  <2>7. PICK def : def = Advanced(latest)
    OBVIOUS
  <2>8. PICK todo : todo = AdvanceProgram(Advanced(latest).status)
    OBVIOUS
  <2>9. /\ proc'[p].def = def /\ proc'[p].todo = todo /\ proc'[p].pkg = proc[p].pkg
        /\ proc' = [proc EXCEPT ![p] = proc'[p]]
    BY <2>1, <2>6, <2>7, <2>8 DEF FactoryInv, Command
  <2>10. PICK c : c = proc'[p]
    OBVIOUS
  <2>11. /\ Orderly(c.todo) /\ ToBeDefined(c) /\ Does(c.todo, Fill(PROJECT_YML))
         /\ Package(c.def) = Package(latest)
    BY <2>3, <2>4, <2>5, <2>7, <2>8, <2>9, <2>10, AdvanceFollows
  <2>12. ToBeDefined(proc[p])'
    BY <1>1, <2>10, <2>11 DEF ToBeDefined
  <2>13. proc'[p].pkg \in {None, Package(proc'[p].def)}
    BY <2>4, <2>5, <2>9, <2>10, <2>11 DEF Underway
  <2>14. Underway(proc[p])'
    BY <2>10, <2>11, <2>12, <2>13 DEF Underway
  <2>15. LatestOK'
    BY <1>1, <2>4 DEF LatestOK, Kept, Whole
  <2> QED
    BY <1>1, <2>4, <2>9, <2>14, <2>15, OneStep
<1> QED
  BY <1>2, <1>3 DEF TakeTurn

LEMMA OperationStep ==
  ASSUME FactoryInv, Sequential, NEW p \in Proc, Step(p)
  PROVE  Sequential'
<1>1. CASE LookForDirectory(p) \/ MakeDirectory(p)
  <2>1. PICK op \in {"look", "make"} : Running(p, op)
    BY <1>1 DEF LookForDirectory, MakeDirectory
  <2>2. disk' = disk /\ latest' = latest
    BY <1>1 DEF LookForDirectory, MakeDirectory
  <2>3. CASE End(p)
    BY <2>1, <2>2, <2>3, AtOperation, EndStep
  <2>4. CASE Proceed(p)
    <3>1. Head(proc[p].todo) \in {LookForDir, MakeDir}
      BY <2>1, AtOperation DEF Operation, LookForDir, MakeDir, AssembleHandoff
    <3> QED
      BY <2>1, <2>2, <2>4, <3>1, AtOperation, ProceedIs, QuietStep
  <2> QED
    BY <1>1, <2>3, <2>4 DEF LookForDirectory, MakeDirectory
<1>2. CASE Assemble(p)
  <2>1. Running(p, "assemble") /\ disk' = disk /\ latest' = latest
    BY <1>2 DEF Assemble
  <2>2. CASE End(p)
    BY <2>1, <2>2, AtOperation, EndStep
  <2>3. CASE proc' = [proc EXCEPT ![p].todo = Tail(@), ![p].pkg = Package(proc[p].def)]
    <3>1. Head(proc[p].todo) = AssembleHandoff
      BY <2>1, AtOperation DEF Operation, LookForDir, MakeDir, AssembleHandoff
    <3> QED
      BY <2>1, <2>3, <3>1, AtOperation, QuietStep
  <2> QED
    BY <1>2, <2>2, <2>3 DEF Assemble
<1>3. CASE OpenFile(p)
  <2>1. Running(p, "open") /\ latest' = latest
    BY <1>3 DEF OpenFile
  <2>2. PICK f : f = Head(proc[p].todo).file
    OBVIOUS
  <2>3. f \in File /\ Head(proc[p].todo) = Open(f)
    BY <2>1, <2>2, AtOperation DEF Operation, Open, LookForDir, MakeDir, AssembleHandoff
  <2>4. CASE f = PROJECT_YML /\ proc[p].def.secret
    BY <1>3, <2>1, <2>2, <2>4, AtOperation, EndStep DEF OpenFile
  <2>5. CASE ~(f = PROJECT_YML /\ proc[p].def.secret)
    <3>1. Proceed(p) /\ disk' = [disk EXCEPT ![f] = Empty]
      BY <1>3, <2>2, <2>5 DEF OpenFile
    <3> QED
      BY <2>1, <2>3, <2>5, <3>1, AtOperation, ProceedIs, OpenStep
  <2> QED
    BY <2>4, <2>5
<1>4. CASE FillFile(p)
  <2>1. Running(p, "fill") /\ Proceed(p)
    BY <1>4 DEF FillFile
  <2>2. PICK f : f = Head(proc[p].todo).file
    OBVIOUS
  <2>3. f \in File /\ Head(proc[p].todo) = Fill(f)
    BY <2>1, <2>2, AtOperation DEF Operation, Fill, LookForDir, MakeDir, AssembleHandoff
  <2>4. /\ disk' = [disk EXCEPT ![f] = Content(p, f)]
        /\ latest' = IF f = PROJECT_YML THEN proc[p].def ELSE latest
    BY <1>4, <2>2 DEF FillFile
  <2> QED
    BY <2>1, <2>3, <2>4, AtOperation, ProceedIs, FillStep
<1> QED
  BY <1>1, <1>2, <1>3, <1>4, TurnStep DEF Step

LEMMA SequentialStep ==
  ASSUME FactoryInv, SequentialInv, [FactoryNext]_factoryVars
  PROVE  SequentialInv'
<1> SUFFICES ASSUME ~overlapped' PROVE Sequential'
  BY DEF SequentialInv
<1>1. CASE UNCHANGED factoryVars
  BY <1>1 DEF factoryVars, SequentialInv, Sequential, OneCommand, LatestOK, Kept, Whole,
              Underway, ToBeDefined, Defined
<1>2. ASSUME NEW p \in Proc, StartCreate(p) \/ StartAdvance(p) \/ StartAuthorize(p)
      PROVE  Sequential'
  BY <1>2, StartingKeeps
<1>3. ASSUME NEW p \in Proc, Step(p)
      PROVE  Sequential'
  <2>1. ~overlapped
    BY <1>3 DEF Step
  <2> QED
    BY <1>3, <2>1, OperationStep DEF SequentialInv
<1>4. ASSUME NEW p \in Proc, RefuseText(p) \/ Kill(p)
      PROVE  Sequential'
  <2>1. proc[p] # Idle
    BY <1>4 DEF RefuseText, Kill, Running, Idle
  <2> QED
    BY <1>4, <2>1, EndStep DEF RefuseText, Kill, Cut, SequentialInv
<1> QED
  BY <1>1, <1>2, <1>3, <1>4 DEF FactoryNext

LEMMA SequentialInitially == FactoryInit => SequentialInv
<1> SUFFICES ASSUME FactoryInit PROVE Sequential
  BY DEF SequentialInv
<1>1. /\ latest = None /\ \A f \in File : disk[f] = None
      /\ \A p \in Proc : proc[p] = Idle
  BY DEF FactoryInit
<1> QED
  BY <1>1, FileNames DEF Sequential, OneCommand, LatestOK, Whole

THEOREM SequentialInvariance == FactorySpec => [](FactoryInv /\ SequentialInv)
<1>1. FactoryInit => FactoryInv /\ SequentialInv
  BY FactoryInitially, SequentialInitially
<1>2. FactoryInv /\ SequentialInv /\ [FactoryNext]_factoryVars => FactoryInv' /\ SequentialInv'
  BY FactoryStep, SequentialStep
<1> QED
  BY <1>1, <1>2, PTL DEF FactorySpec

\* For any intakes and however many commands were killed anywhere: as long as no two
\* overlapped, what a definition on disk promises is on disk, written for its project,
\* and it says it is authorized only if the Runtime's package says so
\* (advanceProject and authorizeBuild write in that order).
THEOREM PromisesKept == FactorySpec => []PromisesAreKept
<1>1. SequentialInv => PromisesAreKept
  BY DEF SequentialInv, Sequential, LatestOK, Kept, Whole, PromisesAreKept
<1> QED
  BY <1>1, SequentialInvariance, PTL


\* The only step that writes a definition is one of a command that follows it up.
LEMMA DefinitionsFollow ==
  ASSUME FactoryInv, SequentialInv, [FactoryNext]_factoryVars, ~overlapped,
         latest # None, latest' # latest
  PROVE  \E def \in SoundDefinition : latest' = def /\ Follows(latest, def)
<1>1. PICK p \in Proc : FillFile(p)
  BY DEF FactoryNext, factoryVars, StartCreate, StartAdvance, StartAuthorize, Begin, Step, RefuseText,
         Kill, Cut, LookForDirectory, MakeDirectory, Assemble, OpenFile, TakeTurn
<1>2. Running(p, "fill") /\ Head(proc[p].todo).file = PROJECT_YML /\ latest' = proc[p].def
  BY <1>1 DEF FillFile
<1>3. /\ proc[p] # Idle /\ proc[p].todo # <<>> /\ proc[p].todo \in Seq(Operation)
      /\ Head(proc[p].todo) \in Operation /\ Head(proc[p].todo).do = "fill"
      /\ proc[p].def \in SoundDefinition
  BY <1>2, AtOperation, UnderWay
<1>4. Head(proc[p].todo) = Fill(PROJECT_YML)
  BY <1>2, <1>3 DEF Operation, Fill, LookForDir, MakeDir, AssembleHandoff
<1>5. Does(proc[p].todo, Fill(PROJECT_YML))
  BY <1>3, <1>4, DoesTail
<1>6. Underway(proc[p])
  BY <1>3 DEF SequentialInv, Sequential
<1> QED
  BY <1>2, <1>3, <1>5, <1>6 DEF Underway, ToBeDefined

\* As long as no two commands overlap, a project only ever goes forward, one state at
\* a time or to its authorization, and stays what it is (lifecycle.ts: "linear and
\* forward-only"), wherever its commands were killed.
THEOREM GoesForwardOnly == FactorySpec => ForwardOnly
<1> DEFINE Forward ==
      latest # None /\ ~overlapped =>
        /\ latest'.id = latest.id /\ latest'.terms = latest.terms
        /\ \/ Rank(latest'.status) = Rank(latest.status) + 1
           \/ latest'.status = latest.status /\ latest'.granted_by # None
        /\ latest.granted_by # None => latest'.granted_by = latest.granted_by
<1>1. FactoryInv /\ SequentialInv /\ [FactoryNext]_factoryVars => [Forward]_latest
  <2> SUFFICES ASSUME FactoryInv, SequentialInv, [FactoryNext]_factoryVars,
                      latest' # latest, latest # None, ~overlapped
               PROVE  Forward
    OBVIOUS
  <2>1. PICK def \in SoundDefinition : latest' = def /\ Follows(latest, def)
    BY DefinitionsFollow
  <2> QED
    BY <2>1 DEF Follows
<1> QED
  BY <1>1, SequentialInvariance, PTL DEF FactorySpec, ForwardOnly

-------------------------------------------------------------------------------
LEMMA AgreeOneStep ==
  ASSUME FactoryInv, NEW p \in Proc,
         (OneCommand /\ proc[p] # Idle) \/ \A q \in Proc \ {p} : proc[q] = Idle,
         proc' = [proc EXCEPT ![p] = proc'[p]],
         proc'[p] = Idle => FilesAgree', proc'[p] # Idle => WillAgree(proc[p])'
  PROVE  Agreement'
<1>1. \A q \in Proc \ {p} : proc[q] = Idle
  BY DEF OneCommand
<1>2. \A q \in Proc \ {p} : proc'[q] = Idle
  BY <1>1 DEF FactoryInv
<1>3. \A q \in Proc : proc'[q] # Idle => WillAgree(proc[q])'
  BY <1>2
<1>4. (\A q \in Proc : proc'[q] = Idle) => FilesAgree'
  OBVIOUS
<1> QED
  BY <1>3, <1>4 DEF Agreement

LEMMA QuietAgrees ==
  ASSUME FactoryInv, Sequential, Agreement, NEW p \in Proc, proc[p].todo # <<>>,
         Head(proc[p].todo) \in {LookForDir, MakeDir, AssembleHandoff},
         disk' = disk, latest' = latest, NEW pkg,
         proc' = [proc EXCEPT ![p].todo = Tail(@), ![p].pkg = pkg]
  PROVE  Agreement'
<1>1. /\ proc[p] # Idle /\ proc[p].todo \in Seq(Operation)
      /\ proc'[p].todo = Tail(proc[p].todo) /\ proc'[p].def = proc[p].def
      /\ proc' = [proc EXCEPT ![p] = proc'[p]]
  BY NextUp
<1>2. Underway(proc[p]) /\ OneCommand /\ WillAgree(proc[p])
  BY <1>1 DEF Sequential, Agreement
<1> DEFINE todo == proc[p].todo
           rest == Tail(todo)
<1>3. /\ ~Does(rest, LookForDir) /\ ~Does(rest, AssembleHandoff)
      /\ \A op : Does(todo, op) <=> Head(todo) = op \/ Does(rest, op)
  BY <1>1, <1>2, OrderlyTail, DoesTail DEF Underway
<1> HIDE DEF rest
<1>4. \A f : Does(todo, Fill(f)) => Does(rest, Fill(f))
  BY <1>3, OperationsDiffer
<1>5. proc'[p] # Idle
  BY <1>1, UnderWay, AbsentIsNothing DEF Idle
<1>6. WillAgree(proc[p])'
  BY <1>1, <1>2, <1>3, <1>4 DEF WillAgree, Whole, rest
<1> QED
  BY <1>1, <1>2, <1>5, <1>6, AgreeOneStep


LEMMA OpeningAgrees ==
  ASSUME FactoryInv, Sequential, Agreement, NEW p \in Proc, proc[p].todo # <<>>,
         NEW f \in File, Head(proc[p].todo) = Open(f),
         disk' = [disk EXCEPT ![f] = Empty], latest' = latest,
         proc' = [proc EXCEPT ![p].todo = Tail(@), ![p].pkg = proc[p].pkg]
  PROVE  Agreement'
<1> DEFINE todo == proc[p].todo
           rest == Tail(todo)
           def == proc[p].def
<1>1. /\ proc[p] # Idle /\ todo \in Seq(Operation)
      /\ proc'[p].todo = rest /\ proc'[p].def = def
      /\ proc' = [proc EXCEPT ![p] = proc'[p]]
  BY NextUp
<1>2. Underway(proc[p]) /\ OneCommand /\ WillAgree(proc[p])
  BY <1>1 DEF Sequential, Agreement
<1>3. /\ ~Does(rest, LookForDir) /\ ~Does(rest, AssembleHandoff) /\ Does(rest, Fill(f))
      /\ \A op : Does(todo, op) <=> Head(todo) = op \/ Does(rest, op)
  BY <1>1, <1>2, OrderlyTail, DoesTail DEF Underway
<1>4. \A g : Does(todo, Fill(g)) => Does(rest, Fill(g))
  BY <1>3, OperationsDiffer
<1>5. proc'[p] # Idle
  BY <1>1, UnderWay, AbsentIsNothing DEF Idle
<1> HIDE DEF rest
<1>6. \A g \in File : g # f => disk'[g] = disk[g]
  BY DEF FactoryInv, DiskOK
<1>7. Does(rest, Fill(LOG)) \/ disk'[LOG] = def.history
  BY <1>2, <1>3, <1>4, <1>6, FileNames DEF WillAgree
<1>8. \/ Does(rest, Fill(HANDOFF))
      \/ disk'[HANDOFF] # Empty /\ (Whole(HANDOFF)' => disk'[HANDOFF].granted_by = def.granted_by)
  BY <1>2, <1>3, <1>4, <1>6, FileNames DEF WillAgree, Whole
<1> HIDE DEF def
<1>9. WillAgree(proc[p])'
  BY <1>1, <1>3, <1>7, <1>8 DEF WillAgree
<1> QED
  BY <1>1, <1>2, <1>5, <1>9, AgreeOneStep

LEMMA FillingAgrees ==
  ASSUME FactoryInv, Sequential, Agreement, NEW p \in Proc, proc[p].todo # <<>>,
         NEW f \in File, Head(proc[p].todo) = Fill(f),
         disk' = [disk EXCEPT ![f] = Content(p, f)],
         proc' = [proc EXCEPT ![p].todo = Tail(@), ![p].pkg = proc[p].pkg]
  PROVE  Agreement'
<1> DEFINE todo == proc[p].todo
           rest == Tail(todo)
           def == proc[p].def
<1>1. /\ proc[p] # Idle /\ todo \in Seq(Operation)
      /\ proc'[p].todo = rest /\ proc'[p].def = def
      /\ proc' = [proc EXCEPT ![p] = proc'[p]]
  BY NextUp
<1>2. Underway(proc[p]) /\ OneCommand /\ WillAgree(proc[p])
  BY <1>1 DEF Sequential, Agreement
<1>3. /\ ~Does(rest, LookForDir) /\ ~Does(rest, AssembleHandoff)
      /\ \A op : Does(todo, op) <=> Head(todo) = op \/ Does(rest, op)
  BY <1>1, <1>2, OrderlyTail, DoesTail DEF Underway
<1>4. \A g : g # f /\ Does(todo, Fill(g)) => Does(rest, Fill(g))
  BY <1>3, OperationsDiffer
<1>5. proc'[p] # Idle
  BY <1>1, UnderWay, AbsentIsNothing DEF Idle
<1>6. \A g \in File : disk'[g] = IF g = f THEN Content(p, f) ELSE disk[g]
  BY DEF FactoryInv, DiskOK
<1>7. f = LOG => Content(p, f) = def.history
  BY FileNames DEF Content
<1>8. f = HANDOFF => Content(p, f) = Package(def) /\ Package(def) # Empty
  <2>1. SUFFICES ASSUME f = HANDOFF PROVE Content(p, f) = Package(def) /\ Package(def) # Empty
    OBVIOUS
  <2>2. Content(p, HANDOFF) = proc[p].pkg
    BY FileNames DEF Content
  <2>3. todo[1] = Fill(HANDOFF) /\ 1 \in 1 .. Len(todo)
    BY <1>1, <2>1, HeadTailProperties, EmptySeq
  <2>4. SafeProgram(todo, def.status, proc[p].pkg, disk[HANDOFF])
    BY <1>1, UnderWay
  <2>5. proc[p].pkg \in PackageSet
    BY <2>3, <2>4 DEF SafeProgram, AssembledBeforeFilled
  <2> QED
    BY <1>2, <2>1, <2>2, <2>5, AbsentIsNothing DEF Underway
<1> HIDE DEF rest
<1>9. Does(rest, Fill(LOG)) \/ disk'[LOG] = def.history
  BY <1>2, <1>4, <1>6, <1>7, FileNames DEF WillAgree
<1>10. \/ Does(rest, Fill(HANDOFF))
       \/ disk'[HANDOFF] # Empty /\ (Whole(HANDOFF)' => disk'[HANDOFF].granted_by = def.granted_by)
  <2>1. CASE f = HANDOFF
    <3>1. disk'[HANDOFF] = Package(def)
      BY <1>6, <1>8, <2>1
    <3> QED
      BY <1>8, <2>1, <3>1 DEF Package
  <2>2. CASE f # HANDOFF
    BY <1>2, <1>4, <1>6, <2>2, FileNames DEF WillAgree, Whole
  <2> QED
    BY <2>1, <2>2
<1> HIDE DEF def
<1>11. WillAgree(proc[p])'
  BY <1>1, <1>3, <1>9, <1>10 DEF WillAgree
<1> QED
  BY <1>1, <1>2, <1>5, <1>11, AgreeOneStep

\* A command ends before it has written anything, or after it has written all.
LEMMA EndingAgrees ==
  ASSUME FactoryInv, Sequential, NEW p \in Proc, proc[p] # Idle, End(p),
         disk' = disk, latest' = latest, FilesAgree
  PROVE  Agreement'
<1>1. proc' = [proc EXCEPT ![p] = proc'[p]] /\ proc'[p] = Idle
  BY DEF End, FactoryInv
<1>2. FilesAgree'
  BY DEF FilesAgree, Whole
<1> QED
  BY <1>1, <1>2, AgreeOneStep DEF Sequential

LEMMA TurnAgrees ==
  ASSUME FactoryInv, Sequential, Agreement, NEW p \in Proc, TakeTurn(p)
  PROVE  Agreement'
<1>1. proc[p] # Idle /\ proc[p].todo = <<>> /\ disk' = disk /\ latest' = latest
  BY DEF TakeTurn
<1>2. /\ proc[p] \in Command /\ proc[p].def \in SoundDefinition /\ proc[p].goal \in States
      /\ Rank(proc[p].def.status) <= Rank(proc[p].goal)
  BY <1>1, UnderWay
<1>3. Underway(proc[p]) /\ LatestOK /\ OneCommand /\ WillAgree(proc[p])
  BY <1>1 DEF Sequential, Agreement
<1>4. \A op : ~Does(<<>>, op)
  BY DEF Does
<1>5. latest = proc[p].def /\ latest # None
  BY <1>1, <1>2, <1>3, <1>4, AbsentIsNothing DEF Underway, Defined
<1>6. FilesAgree
  BY <1>1, <1>3, <1>4, <1>5 DEF WillAgree, FilesAgree
<1>7. CASE End(p)
  BY <1>1, <1>6, <1>7, EndingAgrees
<1>8. CASE proc[p].def.status # proc[p].goal
  <2>1. proc[p].def.status # "READY_FOR_BUILD"
    <3>1. proc[p].def.status \in States
      BY <1>2 DEF SoundDefinition
    <3>2. Rank(proc[p].def.status) # Rank(proc[p].goal)
      BY <1>2, <1>8, <3>1, Lifecycle, Ranks
    <3> QED
      BY <1>2, <3>1, <3>2, RanksBound
  <2>2. proc' = [proc EXCEPT ![p].def = Advanced(latest),
                             ![p].todo = AdvanceProgram(Advanced(latest).status)]
    BY <1>5, <1>8 DEF TakeTurn
  <2>3. PICK def : def = Advanced(latest)
    OBVIOUS
  <2>4. PICK todo : todo = AdvanceProgram(Advanced(latest).status)
    OBVIOUS
  <2>5. /\ proc'[p].def = def /\ proc'[p].todo = todo
        /\ proc' = [proc EXCEPT ![p] = proc'[p]]
    BY <1>2, <2>2, <2>3, <2>4 DEF FactoryInv, Command
  <2>6. PICK c : c = proc'[p]
    OBVIOUS
  <2>7. /\ Does(c.todo, Fill(LOG)) /\ Package(c.def) = Package(latest) /\ c.def \in SoundDefinition
    BY <1>3, <1>5, <2>1, <2>3, <2>4, <2>5, <2>6, AdvanceFollows
  <2>8. c.def.granted_by = latest.granted_by
    BY <2>7 DEF Package
  <2>9. WillAgree(proc[p])'
    BY <1>1, <1>5, <1>6, <2>6, <2>7, <2>8 DEF WillAgree, FilesAgree, Whole
  <2>10. proc'[p] # Idle
    BY <2>6, <2>7, AbsentIsNothing DEF Idle
  <2> QED
    BY <1>1, <1>3, <2>5, <2>9, <2>10, AgreeOneStep
<1> QED
  BY <1>7, <1>8 DEF TakeTurn

LEMMA OperationAgrees ==
  ASSUME FactoryInv, Sequential, Agreement, NEW p \in Proc, Step(p)
  PROVE  Agreement'
<1>0. ASSUME proc[p] # Idle, proc[p].todo # <<>>, Head(proc[p].todo) \in {LookForDir, AssembleHandoff}
      PROVE  FilesAgree
  <2>1. WillAgree(proc[p]) /\ proc[p].todo \in Seq(Operation)
    BY <1>0, UnderWay DEF Agreement
  <2> QED
    BY <1>0, <2>1, DoesTail DEF WillAgree
<1>1. CASE LookForDirectory(p)
  <2>1. Running(p, "look") /\ disk' = disk /\ latest' = latest
    BY <1>1 DEF LookForDirectory
  <2>2. Head(proc[p].todo) = LookForDir
    BY <2>1, AtOperation DEF Operation, LookForDir, MakeDir, AssembleHandoff
  <2>3. CASE End(p)
    BY <1>0, <2>1, <2>2, <2>3, AtOperation, EndingAgrees
  <2>4. CASE Proceed(p)
    BY <2>1, <2>2, <2>4, AtOperation, ProceedIs, QuietAgrees
  <2> QED
    BY <1>1, <2>3, <2>4 DEF LookForDirectory
<1>2. CASE MakeDirectory(p)
  <2>1. Running(p, "make") /\ disk' = disk /\ latest' = latest /\ Proceed(p)
    BY <1>2 DEF MakeDirectory
  <2>2. Head(proc[p].todo) = MakeDir
    BY <2>1, AtOperation DEF Operation, LookForDir, MakeDir, AssembleHandoff
  <2> QED
    BY <2>1, <2>2, AtOperation, ProceedIs, QuietAgrees
<1>3. CASE Assemble(p)
  <2>1. Running(p, "assemble") /\ disk' = disk /\ latest' = latest
    BY <1>3 DEF Assemble
  <2>2. Head(proc[p].todo) = AssembleHandoff
    BY <2>1, AtOperation DEF Operation, LookForDir, MakeDir, AssembleHandoff
  <2>3. CASE End(p)
    BY <1>0, <2>1, <2>2, <2>3, AtOperation, EndingAgrees
  <2>4. CASE proc' = [proc EXCEPT ![p].todo = Tail(@), ![p].pkg = Package(proc[p].def)]
    BY <2>1, <2>2, <2>4, AtOperation, QuietAgrees
  <2> QED
    BY <1>3, <2>3, <2>4 DEF Assemble
<1>4. CASE OpenFile(p)
  <2>1. Running(p, "open") /\ latest' = latest
    BY <1>4 DEF OpenFile
  <2>2. PICK f : f = Head(proc[p].todo).file
    OBVIOUS
  <2>3. f \in File /\ Head(proc[p].todo) = Open(f)
    BY <2>1, <2>2, AtOperation DEF Operation, Open, LookForDir, MakeDir, AssembleHandoff
  <2>4. CASE f = PROJECT_YML /\ proc[p].def.secret
    <3>1. proc[p] # Idle /\ proc[p].todo # <<>> /\ proc[p].todo \in Seq(Operation)
      BY <2>1, AtOperation, UnderWay
    <3>2. Underway(proc[p]) /\ LatestOK
      BY <3>1 DEF Sequential
    <3>3. Does(proc[p].todo, Fill(PROJECT_YML))
      BY <2>3, <2>4, <3>1, <3>2, OrderlyTail, DoesTail DEF Underway
    <3>4. latest = None
      BY <2>4, <3>2, <3>3 DEF Underway, ToBeDefined, Follows, LatestOK
    <3>5. FilesAgree
      BY <3>2, <3>4, FactoryAssumption DEF LatestOK, FilesAgree
    <3>6. End(p) /\ disk' = disk
      BY <1>4, <2>2, <2>4 DEF OpenFile
    <3> QED
      BY <2>1, <3>1, <3>5, <3>6, EndingAgrees
  <2>5. CASE ~(f = PROJECT_YML /\ proc[p].def.secret)
    <3>1. Proceed(p) /\ disk' = [disk EXCEPT ![f] = Empty]
      BY <1>4, <2>2, <2>5 DEF OpenFile
    <3> QED
      BY <2>1, <2>3, <3>1, AtOperation, ProceedIs, OpeningAgrees
  <2> QED
    BY <2>4, <2>5
<1>5. CASE FillFile(p)
  <2>1. Running(p, "fill") /\ Proceed(p)
    BY <1>5 DEF FillFile
  <2>2. PICK f : f = Head(proc[p].todo).file
    OBVIOUS
  <2>3. f \in File /\ Head(proc[p].todo) = Fill(f)
    BY <2>1, <2>2, AtOperation DEF Operation, Fill, LookForDir, MakeDir, AssembleHandoff
  <2>4. disk' = [disk EXCEPT ![f] = Content(p, f)]
    BY <1>5, <2>2 DEF FillFile
  <2> QED
    BY <2>1, <2>3, <2>4, AtOperation, ProceedIs, FillingAgrees
<1> QED
  BY <1>1, <1>2, <1>3, <1>4, <1>5, TurnAgrees DEF Step

LEMMA BeginAgrees ==
  ASSUME FactoryInv, NEW p \in Proc, NEW op, NEW def \in SoundDefinition, NEW goal, NEW todo,
         Begin(p, op, def, goal, todo), ~overlapped', FilesAgree, Does(todo, Fill(LOG)),
         \/ Does(todo, Fill(HANDOFF))
         \/ Whole(HANDOFF) => disk[HANDOFF].granted_by = def.granted_by
  PROVE  Agreement'
<1> DEFINE c == [op |-> op, todo |-> todo, def |-> def, pkg |-> None, goal |-> goal]
<1>1. /\ proc[p] = Idle /\ proc' = [proc EXCEPT ![p] = c]
      /\ disk' = disk /\ latest' = latest
      /\ \A q \in Proc \ {p} : proc[q] = Idle
  BY DEF Begin
<1>2. proc'[p] = c /\ proc' = [proc EXCEPT ![p] = proc'[p]]
  BY <1>1 DEF FactoryInv
<1>3. c.todo = todo /\ c.def = def /\ c # Idle
  <2>1. c.todo = todo /\ c.def = def
    OBVIOUS
  <2>2. Idle.def = None
    BY DEF Idle
  <2> QED
    BY <2>1, <2>2, AbsentIsNothing
<1> HIDE DEF c
<1>4. WillAgree(proc[p])'
  BY <1>1, <1>2, <1>3 DEF WillAgree, FilesAgree, Whole
<1> QED
  BY <1>1, <1>2, <1>3, <1>4, AgreeOneStep

LEMMA StartingAgrees ==
  ASSUME FactoryInv, SequentialInv, AgreementInv, ~overlapped', ~cutShort', NEW p \in Proc,
         StartCreate(p) \/ StartAdvance(p) \/ StartAuthorize(p)
  PROVE  Agreement'
<1>1. /\ ~overlapped /\ ~cutShort /\ \A q \in Proc : proc[q] = Idle
  <2>1. ASSUME NEW op, NEW def, NEW goal, NEW todo, Begin(p, op, def, goal, todo)
        PROVE  ~overlapped /\ ~cutShort /\ \A q \in Proc : proc[q] = Idle
    BY <2>1 DEF Begin
  <2>2. \E op, def, goal, todo : Begin(p, op, def, goal, todo)
    <3>1. CASE StartCreate(p)
      BY <3>1, Zenon DEF StartCreate
    <3>2. CASE StartAdvance(p)
      BY <3>2, Zenon DEF StartAdvance
    <3>3. CASE StartAuthorize(p)
      BY <3>3, Zenon DEF StartAuthorize
    <3> QED
      BY <3>1, <3>2, <3>3
  <2> QED
    BY <2>1, <2>2
<1>2. LatestOK /\ FilesAgree
  BY <1>1 DEF SequentialInv, Sequential, AgreementInv, Agreement
<1>3. CASE StartCreate(p)
  <2>1. PICK raw \in Raw, goal \in Goal :
          /\ disk[PROJECT_YML] = None
          /\ Begin(p, "create", NewDefinition(raw, commands + 1), goal, CreateProgram)
    BY <1>3 DEF StartCreate, CreateRefused
  <2>2. PICK def : def = NewDefinition(raw, commands + 1)
    OBVIOUS
  <2>3. PICK todo : todo = CreateProgram
    OBVIOUS
  <2>4. commands + 1 \in 1 .. MaxCommands
    BY <2>1, FactoryAssumption DEF Begin, FactoryInv
  <2>5. def \in SoundDefinition /\ Does(todo, Fill(LOG))
    BY <2>2, <2>3, <2>4, NewIsSound, CreateDoes
  <2>6. ~Whole(HANDOFF)
    BY <1>2, <2>1 DEF LatestOK, Whole
  <2> QED
    BY <1>2, <2>1, <2>2, <2>3, <2>5, <2>6, BeginAgrees
<1>4. ASSUME StartAdvance(p) \/ StartAuthorize(p)
      PROVE  /\ latest = disk[PROJECT_YML] /\ latest # None /\ latest \in SoundDefinition
             /\ Whole(HANDOFF) => disk[HANDOFF].granted_by = latest.granted_by
  BY <1>2, <1>4 DEF StartAdvance, StartAuthorize, MayAdvance, MayAuthorize, LatestOK, FilesAgree, Whole
<1>5. CASE StartAdvance(p)
  <2>1. PICK def : def = Advanced(latest)
    OBVIOUS
  <2>2. PICK goal : goal = def.status
    OBVIOUS
  <2>3. PICK todo : todo = AdvanceProgram(Advanced(latest).status)
    OBVIOUS
  <2>4. latest.status # "READY_FOR_BUILD" /\ Begin(p, "advance", def, goal, todo)
    BY <1>4, <1>5, <2>1, <2>2, <2>3 DEF StartAdvance, MayAdvance
  <2> DEFINE c == [op |-> "advance", todo |-> todo, def |-> def, pkg |-> None, goal |-> goal]
  <2>5. c.def = Advanced(latest) /\ c.todo = AdvanceProgram(Advanced(latest).status)
    BY <2>1, <2>3
  <2>6. Does(todo, Fill(LOG)) /\ Package(def) = Package(latest) /\ def \in SoundDefinition
    <3> HIDE DEF c
    <3>1. Does(c.todo, Fill(LOG)) /\ Package(c.def) = Package(latest) /\ c.def \in SoundDefinition
      BY <1>2, <1>4, <1>5, <2>4, <2>5, AdvanceFollows
    <3> QED
      BY <3>1 DEF c
  <2>7. def.granted_by = latest.granted_by
    BY <2>6 DEF Package
  <2> QED
    BY <1>2, <1>4, <1>5, <2>4, <2>6, <2>7, BeginAgrees
<1>6. CASE StartAuthorize(p)
  <2>1. PICK def : def = [latest EXCEPT !.granted_by = HUMAN_FOUNDER,
                                        !.history = Append(@, "READY_FOR_BUILD")]
    OBVIOUS
  <2>2. PICK goal : goal = def.status
    OBVIOUS
  <2>3. PICK todo : todo = AuthorizeProgram
    OBVIOUS
  <2>4. /\ latest.status = "READY_FOR_BUILD" /\ latest.granted_by = None
        /\ Begin(p, "authorize", def, goal, todo)
    BY <1>4, <1>6, <2>1, <2>2, <2>3 DEF StartAuthorize, MayAuthorize
  <2>5. def \in SoundDefinition
    BY <1>4, <1>6, <2>1, <2>4, AuthorizedIsSound
  <2>6. Does(todo, Fill(HANDOFF)) /\ Does(todo, Fill(LOG))
    <3>1. "READY_FOR_BUILD" \in States \ {"DRAFT"}
      BY Lifecycle
    <3>2. Fill(HANDOFF) \in Brought("READY_FOR_BUILD")
      BY DEF Brought
    <3> QED
      BY <2>3, <3>1, <3>2, AdvanceDoes, ReadyIs
  <2> QED
    BY <1>2, <2>4, <2>5, <2>6, BeginAgrees
<1> QED
  BY <1>3, <1>5, <1>6

LEMMA AgreementStep ==
  ASSUME FactoryInv, SequentialInv, AgreementInv, [FactoryNext]_factoryVars
  PROVE  AgreementInv'
<1> SUFFICES ASSUME ~overlapped', ~cutShort' PROVE Agreement'
  BY DEF AgreementInv
<1>1. CASE UNCHANGED factoryVars
  BY <1>1 DEF factoryVars, AgreementInv, Agreement, FilesAgree, WillAgree, Whole
<1>2. ASSUME NEW p \in Proc, StartCreate(p) \/ StartAdvance(p) \/ StartAuthorize(p)
      PROVE  Agreement'
  BY <1>2, StartingAgrees
<1>3. ASSUME NEW p \in Proc, Step(p)
      PROVE  Agreement'
  <2>1. ~overlapped /\ ~cutShort
    BY <1>3 DEF Step
  <2> QED
    BY <1>3, <2>1, OperationAgrees DEF SequentialInv, AgreementInv
<1>4. ASSUME NEW p \in Proc, RefuseText(p) \/ Kill(p)
      PROVE  Agreement'
  BY <1>4 DEF RefuseText, Kill, Cut
<1> QED
  BY <1>1, <1>2, <1>3, <1>4 DEF FactoryNext

\* For any intakes and any number of commands, none of which overlapped another, was
\* killed or stopped at a text it refused: whenever nothing runs, `project verify` is content, the package says of
\* the authorization what the definition says, and the log tells its history.
THEOREM FilesAgreeWhenAtRest == FactorySpec => []FilesAgreeAtRest
<1>1. FactoryInit => AgreementInv
  <2> SUFFICES ASSUME FactoryInit PROVE Agreement
    BY DEF AgreementInv
  <2>1. latest = None /\ disk[HANDOFF] # Empty /\ \A p \in Proc : proc[p] = Idle
    BY FileNames, FactoryAssumption DEF FactoryInit
  <2> QED
    BY <2>1 DEF Agreement, FilesAgree
<1>2. ASSUME FactoryInv, SequentialInv, AgreementInv
      PROVE  FilesAgreeAtRest
  <2> SUFFICES ASSUME ~overlapped, ~cutShort, Whole(PROJECT_YML), \A p \in Proc : proc[p] = Idle
               PROVE  LET def == disk[PROJECT_YML]
                      IN  /\ Verify = [ok |-> TRUE, authorized |-> def.granted_by # None]
                          /\ disk[LOG] = def.history
    BY DEF FilesAgreeAtRest
  <2>1. LatestOK /\ FilesAgree
    BY <1>2 DEF SequentialInv, Sequential, AgreementInv, Agreement
  <2>2. latest = disk[PROJECT_YML] /\ latest # None /\ Kept(latest) /\ latest \in SoundDefinition
    BY <2>1 DEF LatestOK, Whole
  <2>3. disk[HANDOFF] # Empty /\ disk[LOG] = latest.history
    BY <2>1, <2>2 DEF FilesAgree
  <2>4. (IF Whole(HANDOFF) THEN disk[HANDOFF].granted_by # None ELSE FALSE) = (latest.granted_by # None)
    <3>1. CASE Whole(HANDOFF)
      BY <2>1, <2>2, <3>1 DEF FilesAgree
    <3>2. CASE ~Whole(HANDOFF)
      <4>1. Package(latest) \notin {None, Empty}
        BY <2>2, PackageTyped, AbsentIsNothing
      <4>2. latest.granted_by = None
        BY <2>2, <3>2, <4>1 DEF Kept, Whole
      <4> QED
        BY <3>2, <4>2
    <3> QED
      BY <3>1, <3>2
  <2> QED
    BY <2>2, <2>3, <2>4 DEF Verify
<1>3. AgreementInv /\ FactoryInv /\ SequentialInv /\ [FactoryNext]_factoryVars => AgreementInv'
  BY AgreementStep
<1> QED
  BY <1>1, <1>2, <1>3, SequentialInvariance, PTL DEF FactorySpec


-------------------------------------------------------------------------------
(***************************************************************************)
(* The intake, whatever the brief and the overrides say.                   *)
(***************************************************************************)
\* The first rule that matches has a value of the rules.
LEMMA FirstMatchTyped ==
  ASSUME NEW rules, DOMAIN rules \subseteq 1 .. 8, NEW text, NEW Value,
         \A i \in DOMAIN rules : rules[i].value \in Value, NEW default \in Value
  PROVE  FirstMatch(rules, text, default) \in Value
<1>1. PICK hits : hits = {i \in DOMAIN rules : rules[i].words \cap text # {}}
  OBVIOUS
<1>2. FirstMatch(rules, text, default) = IF hits = {} THEN default ELSE rules[Min(hits)].value
  BY <1>1 DEF FirstMatch
<1>3. hits \subseteq 1 .. 8 /\ hits \subseteq DOMAIN rules
  BY <1>1
<1>4. ASSUME hits # {} PROVE Min(hits) \in hits
  <2>1. ASSUME \A x \in hits : \E y \in hits : y < x
        PROVE  FALSE
    <3>1. 1 \notin hits /\ 2 \notin hits
      BY <1>3, <2>1
    <3>2. 3 \notin hits /\ 4 \notin hits
      BY <1>3, <2>1, <3>1
    <3>3. 5 \notin hits /\ 6 \notin hits
      BY <1>3, <2>1, <3>1, <3>2
    <3>4. 7 \notin hits /\ 8 \notin hits
      BY <1>3, <2>1, <3>1, <3>2, <3>3
    <3>5. PICK x : x \in hits
      BY <1>4
    <3>6. x \in 1 .. 8
      BY <1>3, <3>5
    <3> QED
      BY <3>1, <3>2, <3>3, <3>4, <3>5, <3>6
  <2>2. \E x \in hits : \A y \in hits : x <= y
    BY <1>3, <2>1
  <2> QED
    BY <2>2 DEF Min
<1> QED
  BY <1>2, <1>3, <1>4

LEMMA ProjectTypeInferred == ASSUME NEW text PROVE InferProjectType(text) \in PROJECT_TYPES
<1>1. PICK rules : rules =
        <<Rule({"marketplace", "storefront"}, "ecommerce"), Rule({"mobile app"}, "mobile_app"),
          Rule({"command-line"}, "cli_tool"), Rule({"warehouse"}, "data_platform"),
          Rule({"internal tool"}, "internal_tool"), Rule({"sdk"}, "library"),
          Rule({"rest api"}, "api_service"), Rule({"portal", "saas"}, "web_app")>>
  OBVIOUS
<1>2. DOMAIN rules \subseteq 1 .. 8 /\ \A i \in DOMAIN rules : rules[i].value \in PROJECT_TYPES
  <2>1. DOMAIN rules = 1 .. 8
    <3>1. \A a, b, c, d, e, f, g, h : DOMAIN <<a, b, c, d, e, f, g, h>> = 1 .. 8
      OBVIOUS
    <3> QED
      BY <1>1, <3>1, Zenon
  <2>2. \A words, value : Rule(words, value).value = value
    BY DEF Rule
  <2>3. /\ rules[1].value = "ecommerce"
        /\ rules[2].value = "mobile_app"
        /\ rules[3].value = "cli_tool"
        /\ rules[4].value = "data_platform"
        /\ rules[5].value = "internal_tool"
        /\ rules[6].value = "library"
        /\ rules[7].value = "api_service"
        /\ rules[8].value = "web_app"
    BY <1>1, <2>2
  <2> QED
    BY <2>1, <2>3 DEF PROJECT_TYPES
<1>3. FirstMatch(rules, text, "other") \in PROJECT_TYPES
  <2>1. "other" \in PROJECT_TYPES
    BY DEF PROJECT_TYPES
  <2> QED
    BY <1>2, <2>1, FirstMatchTyped
<1> QED
  BY <1>1, <1>3 DEF InferProjectType

LEMMA BusinessModelInferred == ASSUME NEW text PROVE InferBusinessModel(text) \in BUSINESS_MODELS
<1>1. PICK rules : rules =
        <<Rule({"marketplace"}, "marketplace"), Rule({"saas"}, "subscription"),
          Rule({"wholesale"}, "b2b"), Rule({"consumer"}, "b2c"),
          Rule({"internal tool"}, "internal"), Rule({"open source"}, "open_source")>>
  OBVIOUS
<1>2. DOMAIN rules \subseteq 1 .. 8 /\ \A i \in DOMAIN rules : rules[i].value \in BUSINESS_MODELS
  <2>1. DOMAIN rules = 1 .. 6
    <3>1. \A a, b, c, d, e, f : DOMAIN <<a, b, c, d, e, f>> = 1 .. 6
      OBVIOUS
    <3> QED
      BY <1>1, <3>1, Zenon
  <2>2. \A words, value : Rule(words, value).value = value
    BY DEF Rule
  <2>3. /\ rules[1].value = "marketplace"
        /\ rules[2].value = "subscription"
        /\ rules[3].value = "b2b"
        /\ rules[4].value = "b2c"
        /\ rules[5].value = "internal"
        /\ rules[6].value = "open_source"
    BY <1>1, <2>2
  <2> QED
    BY <2>1, <2>3 DEF BUSINESS_MODELS
<1>3. FirstMatch(rules, text, "other") \in BUSINESS_MODELS /\ "b2b2c" \in BUSINESS_MODELS
  <2>1. {"other", "b2b2c"} \subseteq BUSINESS_MODELS
    BY DEF BUSINESS_MODELS
  <2> QED
    BY <1>2, <2>1, FirstMatchTyped
<1> QED
  BY <1>1, <1>3 DEF InferBusinessModel

LEMMA PlatformsInferred ==
  ASSUME NEW text, NEW type
  PROVE  InferPlatforms(text, type) \subseteq PLATFORMS /\ InferPlatforms(text, type) # {}
<1>1. PlatformsNamed(text) \subseteq PLATFORMS
  BY DEF PlatformsNamed
<1>2. PICK p : p = CASE type = "api_service" -> "api"
                     [] type = "mobile_app"  -> "mobile"
                     [] type = "cli_tool"    -> "cli"
                     [] OTHER                -> "web"
  OBVIOUS
<1>3. p \in PLATFORMS
  BY <1>2 DEF PLATFORMS
<1> QED
  <2>1. InferPlatforms(text, type) = IF PlatformsNamed(text) # {} THEN PlatformsNamed(text) ELSE {p}
    BY <1>2 DEF InferPlatforms
  <2> QED
    BY <1>1, <1>3, <2>1

\* Every word more can only raise the risk of a text.
LEMMA RiskGrows ==
  ASSUME NEW less, NEW more, less \subseteq more
  PROVE  /\ AssessRiskFromText(SignalsOf(less), 2) \in {2, 3, 5}
         /\ AssessRiskFromText(SignalsOf(less), 2) <= AssessRiskFromText(SignalsOf(more), 2)
<1>1. SignalsOf(less) \subseteq SignalsOf(more)
  BY DEF SignalsOf
<1>2. \A signals : AssessRiskFromText(signals, 2) =
        IF "critical" \in signals THEN 5 ELSE IF "structural" \in signals THEN 3 ELSE 2
  BY DEF AssessRiskFromText
<1> QED
  BY <1>1, <1>2

\* A brief that says more in a place that is scanned differs in nothing else.
LEMMA MoreIsScanned ==
  ASSUME NEW raw, IsIntake(raw), NEW w, NEW more, more = MoreSaid(raw, w)
  PROVE  /\ IsIntake(more) /\ more.over = raw.over
         /\ SearchText(raw) \subseteq SearchText(more)
         /\ Has(more.fields, "security_level") <=> Has(raw.fields, "security_level")
         /\ Has(raw.fields, "security_level") =>
              more.fields.security_level = raw.fields.security_level
<1>1. CASE ~Labelled(raw)
  <2>1. /\ more.over = raw.over /\ more.fields = raw.fields /\ raw.prose \subseteq more.prose
        /\ DOMAIN more = DOMAIN raw
    BY <1>1 DEF IsIntake, MoreSaid
  <2>2. SearchText(raw) \subseteq SearchText(more)
    BY <2>1 DEF SearchText, Description, Given, Labelled
  <2>3. IsIntake(more)
    BY <2>1 DEF IsIntake
  <2> QED
    BY <2>1, <2>2, <2>3
<1>2. CASE Labelled(raw)
  <2>1. PICK fields : fields =
          [l \in DOMAIN raw.fields \cup {"description"} |->
             IF l = "description" THEN DescriptionLabel(raw) \cup {w} ELSE raw.fields[l]]
    OBVIOUS
  <2>2. /\ more.over = raw.over /\ more.fields = fields /\ more.prose = raw.prose
        /\ DOMAIN more = DOMAIN raw
    BY <1>2, <2>1 DEF IsIntake, MoreSaid
  <2>3. /\ DOMAIN fields = DOMAIN raw.fields \cup {"description"}
        /\ fields["description"] = DescriptionLabel(raw) \cup {w}
        /\ \A l \in DOMAIN raw.fields : l # "description" => fields[l] = raw.fields[l]
    BY <2>1
  <2>4. Given(more, "project_name") = Given(raw, "project_name")
    BY <2>2, <2>3 DEF Given, Has
  <2>5. Given(raw, "description") \subseteq Given(more, "description")
    <3>1. CASE Has(raw.over, "description")
      BY <2>2, <3>1 DEF Given
    <3>2. CASE ~Has(raw.over, "description")
      <4>1. Given(raw, "description") = DescriptionLabel(raw)
        BY <3>2 DEF Given, DescriptionLabel
      <4>2. Given(more, "description") = DescriptionLabel(raw) \cup {w}
        BY <2>2, <2>3, <3>2 DEF Given, Has
      <4> QED
        BY <4>1, <4>2
    <3> QED
      BY <3>1, <3>2
  <2>6. Labelled(more)
    BY <2>2, <2>3 DEF Labelled
  <2>7. SearchText(raw) \subseteq SearchText(more)
    BY <1>2, <2>4, <2>5, <2>6 DEF SearchText, Description
  <2>8. IsIntake(more)
    BY <2>2 DEF IsIntake
  <2>9. /\ Has(more.fields, "security_level") <=> Has(raw.fields, "security_level")
        /\ Has(raw.fields, "security_level") =>
             more.fields.security_level = raw.fields.security_level
    BY <2>2, <2>3 DEF Has
  <2> QED
    BY <2>2, <2>7, <2>8, <2>9
<1> QED
  BY <1>1, <1>2

LEMMA RiskType ==
  ASSUME NEW raw, IsIntake(raw)
  PROVE  RiskOf(raw) \in 0 .. 5
<1>1. CASE Has(raw.over, "risk_level")
  BY <1>1 DEF RiskOf, ClampRisk, IsIntake
<1>2. CASE ~Has(raw.over, "risk_level")
  <2>1. PICK m : m = AssessRiskFromText(SignalsOf(SearchText(raw)), 2)
    OBVIOUS
  <2>2. m \in {2, 3, 5}
    BY <2>1, RiskGrows
  <2> QED
    BY <1>2, <2>1, <2>2 DEF RiskOf, ClampRisk
<1> QED
  BY <1>1, <1>2

\* Nothing that is scanned lowers the risk of a brief.
LEMMA RiskOfMore ==
  ASSUME NEW raw, IsIntake(raw), NEW w, NEW more, more = MoreSaid(raw, w)
  PROVE  RiskOf(more) >= RiskOf(raw)
<1>1. more.over = raw.over /\ SearchText(raw) \subseteq SearchText(more)
  BY MoreIsScanned
<1>2. CASE Has(raw.over, "risk_level")
  BY <1>1, <1>2 DEF RiskOf, ClampRisk, IsIntake
<1>3. CASE ~Has(raw.over, "risk_level")
  <2>1. PICK m, n : /\ m = AssessRiskFromText(SignalsOf(SearchText(raw)), 2)
                    /\ n = AssessRiskFromText(SignalsOf(SearchText(more)), 2)
    OBVIOUS
  <2>2. m \in {2, 3, 5} /\ n \in {2, 3, 5} /\ m <= n
    BY <1>1, <2>1, RiskGrows
  <2>3. RiskOf(raw) = ClampRisk(m) /\ RiskOf(more) = ClampRisk(n)
    BY <1>1, <1>3, <2>1 DEF RiskOf
  <2>4. ClampRisk(m) = m /\ ClampRisk(n) = n
    BY <2>2 DEF ClampRisk
  <2> QED
    BY <2>2, <2>3, <2>4
<1> QED
  BY <1>2, <1>3

\* Nor its security level, nor the budget that follows from both.
LEMMA SecurityOfMore ==
  ASSUME NEW raw, IsIntake(raw), NEW w, NEW more, more = MoreSaid(raw, w)
  PROVE  LET s == ParseIntake(raw)
             t == ParseIntake(more)
         IN  /\ t.risk_level >= s.risk_level
             /\ SecurityRank[t.security_level] >= SecurityRank[s.security_level]
             /\ BudgetPolicyForRisk(t.risk_level, t.security_level)
                  >= BudgetPolicyForRisk(s.risk_level, s.security_level)
<1>1. PICK low, high : low = RiskOf(raw) /\ high = RiskOf(more)
  OBVIOUS
<1>2. low \in 0 .. 5 /\ high \in 0 .. 5 /\ low <= high
  BY <1>1, MoreIsScanned, RiskType, RiskOfMore
<1>3. PICK l, h : /\ l = Chosen(raw, "security_level", SECURITY_LEVELS,
                                InferSecurityLevel(SearchText(raw), low))
                  /\ h = Chosen(more, "security_level", SECURITY_LEVELS,
                                InferSecurityLevel(SearchText(more), high))
  OBVIOUS
<1>4. /\ ParseIntake(raw).risk_level = low /\ ParseIntake(raw).security_level = l
      /\ ParseIntake(more).risk_level = high /\ ParseIntake(more).security_level = h
  BY <1>1, <1>3 DEF ParseIntake
<1>5. \/ l = h /\ l \in SECURITY_LEVELS
      \/ l = "standard" /\ h \in {"standard", "elevated", "high"}
      \/ l = "elevated" /\ h \in {"elevated", "high"}
      \/ l = "high" /\ h = "high"
  <2>1. CASE SecurityIsChosen(raw)
    <3>1. PICK a, b : /\ a = InferSecurityLevel(SearchText(raw), low)
                      /\ b = InferSecurityLevel(SearchText(more), high)
      OBVIOUS
    <3>2. CASE Has(raw.over, "security_level")
      BY <1>3, <3>1, <3>2, MoreIsScanned DEF Chosen, IsIntake
    <3>3. CASE ~Has(raw.over, "security_level")
      <4>1. Has(raw.fields, "security_level") /\ raw.fields.security_level \in SECURITY_LEVELS
        BY <2>1, <3>3 DEF SecurityIsChosen
      <4> QED
        BY <1>3, <3>1, <3>3, <4>1, MoreIsScanned DEF Chosen
    <3> QED
      BY <3>2, <3>3
  <2>2. CASE ~SecurityIsChosen(raw)
    <3>1. /\ l = InferSecurityLevel(SearchText(raw), low)
          /\ h = InferSecurityLevel(SearchText(more), high)
      <4>1. PICK a, b : /\ a = InferSecurityLevel(SearchText(raw), low)
                        /\ b = InferSecurityLevel(SearchText(more), high)
        OBVIOUS
      <4> QED
        BY <1>3, <2>2, <4>1, MoreIsScanned DEF SecurityIsChosen, Chosen
    <3>2. SearchText(raw) \subseteq SearchText(more)
      BY MoreIsScanned
    <3> QED
      BY <1>2, <3>1, <3>2 DEF InferSecurityLevel
  <2> QED
    BY <2>1, <2>2
<1>6. SecurityRank[h] >= SecurityRank[l]
  BY <1>5 DEF SecurityRank, SECURITY_LEVELS
<1>7. BudgetPolicyForRisk(high, h) >= BudgetPolicyForRisk(low, l)
  BY <1>2, <1>5 DEF BudgetPolicyForRisk
<1> QED
  BY <1>2, <1>4, <1>6, <1>7

LEMMA IntakeTyped ==
  ASSUME NEW raw, IsIntake(raw)
  PROVE  LET s == ParseIntake(raw)
         IN  /\ s.project_type \in PROJECT_TYPES /\ s.business_model \in BUSINESS_MODELS
             /\ s.platforms \subseteq PLATFORMS /\ s.platforms # {}
             /\ s.target_users # {} /\ s.core_features # {}
             /\ s.risk_level = RiskOf(raw) /\ s.security_level \in SECURITY_LEVELS
<1>1. PICK text : text = SearchText(raw)
  OBVIOUS
<1>2. PICK type : type = Chosen(raw, "project_type", {}, InferProjectType(text))
  OBVIOUS
<1>3. PICK model : model = Chosen(raw, "business_model", BUSINESS_MODELS, InferBusinessModel(text))
  OBVIOUS
<1>4. type \in PROJECT_TYPES
  BY <1>2, ProjectTypeInferred DEF Chosen, IsIntake
<1>5. model \in BUSINESS_MODELS
  BY <1>3, BusinessModelInferred DEF Chosen, IsIntake
<1>6. /\ ChosenSet(raw, "platforms", PLATFORMS, InferPlatforms(text, type)) \subseteq PLATFORMS
      /\ ChosenSet(raw, "platforms", PLATFORMS, InferPlatforms(text, type)) # {}
  <2>1. PICK inferred : inferred = InferPlatforms(text, type)
    OBVIOUS
  <2>2. inferred \subseteq PLATFORMS /\ inferred # {}
    BY <2>1, PlatformsInferred
  <2>3. ASSUME Has(raw.over, "platforms") PROVE raw.over.platforms \subseteq PLATFORMS
    BY <2>3 DEF IsIntake
  <2>4. ChosenSet(raw, "platforms", PLATFORMS, inferred) \subseteq PLATFORMS
    BY <2>2, <2>3 DEF ChosenSet
  <2>5. ChosenSet(raw, "platforms", PLATFORMS, inferred) # {}
    BY <2>2 DEF ChosenSet
  <2> QED
    BY <2>1, <2>4, <2>5
<1>7. ChosenSet(raw, "target_users", Given(raw, "target_users"), InferTargetUsers(text, model)) # {}
  <2>1. InferTargetUsers(text, model) # {}
    BY DEF InferTargetUsers
  <2> QED
    BY <2>1 DEF ChosenSet
<1>8. ChosenSet(raw, "core_features", Given(raw, "core_features"), InferFeatures(text)) # {}
  BY DEF ChosenSet, InferFeatures
<1>9. Chosen(raw, "security_level", SECURITY_LEVELS, InferSecurityLevel(text, RiskOf(raw)))
        \in SECURITY_LEVELS
  <2>1. InferSecurityLevel(text, RiskOf(raw)) \in SECURITY_LEVELS
    BY DEF InferSecurityLevel, SECURITY_LEVELS
  <2> QED
    BY <2>1 DEF Chosen, IsIntake
<1> QED
  BY <1>1, <1>2, <1>3, <1>4, <1>5, <1>6, <1>7, <1>8, <1>9 DEF ParseIntake

LEMMA SecurityEarned ==
  ASSUME NEW raw, IsIntake(raw), ~SecurityIsChosen(raw)
  PROVE  LET s == ParseIntake(raw)
         IN  /\ s.risk_level >= 4 => s.security_level # "standard"
             /\ "payment" \in SearchText(raw) => s.security_level = "high"
<1>1. PICK risk, level : /\ risk = RiskOf(raw)
                         /\ level = InferSecurityLevel(SearchText(raw), risk)
  OBVIOUS
<1>2. risk \in 0 .. 5
  BY <1>1, RiskType
<1>3. ParseIntake(raw).risk_level = risk /\ ParseIntake(raw).security_level = level
  BY <1>1 DEF ParseIntake, Chosen, SecurityIsChosen
<1>4. /\ risk >= 4 => level # "standard"
      /\ "payment" \in SearchText(raw) => level = "high"
  BY <1>1, <1>2 DEF InferSecurityLevel
<1> QED
  BY <1>3, <1>4

\* Of any brief and any overrides of their types: an intake is complete; a further word
\* where the brief is scanned, which is the description alone of a labelled brief,
\* lowers neither risk nor security nor budget; and of what is scanned, payments and
\* high risk get the security that goes with them, unless another was chosen.
THEOREM IntakesAreSafe == FactorySpec => []IntakeIsSafe
<1>1. IntakeIsSafe
  <2> SUFFICES ASSUME NEW raw \in Sample, NEW s, s = ParseIntake(raw)
               PROVE  /\ s.project_type \in PROJECT_TYPES /\ s.business_model \in BUSINESS_MODELS
                      /\ s.platforms \subseteq PLATFORMS /\ s.platforms # {}
                      /\ s.target_users # {} /\ s.core_features # {}
                      /\ s.risk_level \in 0 .. 5 /\ s.security_level \in SECURITY_LEVELS
                      /\ \A w \in Word :
                           LET more == ParseIntake(MoreSaid(raw, w))
                           IN  /\ more.risk_level >= s.risk_level
                               /\ SecurityRank[more.security_level] >= SecurityRank[s.security_level]
                               /\ BudgetPolicyForRisk(more.risk_level, more.security_level)
                                    >= BudgetPolicyForRisk(s.risk_level, s.security_level)
                      /\ ~SecurityIsChosen(raw) =>
                           /\ s.risk_level >= 4 => s.security_level # "standard"
                           /\ "payment" \in SearchText(raw) => s.security_level = "high"
    BY DEF IntakeIsSafe
  <2>1. IsIntake(raw)
    BY SampleAssumption
  <2>2. /\ s.project_type \in PROJECT_TYPES /\ s.business_model \in BUSINESS_MODELS
        /\ s.platforms \subseteq PLATFORMS /\ s.platforms # {}
        /\ s.target_users # {} /\ s.core_features # {}
        /\ s.risk_level = RiskOf(raw) /\ s.security_level \in SECURITY_LEVELS
    BY <2>1, IntakeTyped
  <2>3. s.risk_level \in 0 .. 5
    BY <2>1, <2>2, RiskType
  <2>4. ASSUME NEW w \in Word
        PROVE  LET more == ParseIntake(MoreSaid(raw, w))
               IN  /\ more.risk_level >= s.risk_level
                   /\ SecurityRank[more.security_level] >= SecurityRank[s.security_level]
                   /\ BudgetPolicyForRisk(more.risk_level, more.security_level)
                        >= BudgetPolicyForRisk(s.risk_level, s.security_level)
    BY <2>1, SecurityOfMore
  <2>5. ~SecurityIsChosen(raw) =>
          /\ s.risk_level >= 4 => s.security_level # "standard"
          /\ "payment" \in SearchText(raw) => s.security_level = "high"
    BY <2>1, SecurityEarned
  <2> QED
    BY <2>2, <2>3, <2>4, <2>5
<1> QED
  BY <1>1, PTL
===============================================================================
