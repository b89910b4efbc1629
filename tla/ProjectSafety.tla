----------------------------- MODULE ProjectSafety -----------------------------
(***************************************************************************)
(* What the project factory must guarantee.                                *)
(***************************************************************************)
EXTENDS ProjectFactory

CONSTANT Sample   \* the intakes over which IntakeIsSafe is checked

ASSUME SampleAssumption == \A raw \in Sample : IsIntake(raw)

HistoryOf(def) ==
  SubSeq(PROJECT_LIFECYCLE, 1, Rank(def.status))
    \o (IF def.granted_by = None THEN <<>> ELSE <<"READY_FOR_BUILD">>)

\* Whatever commands overlap and wherever they are killed, a definition that can
\* be read is one that some command made: it went through the whole lifecycle in
\* order, its build is authorized by the founder or not at all, and only at the
\* end; and a project that is READY_FOR_BUILD has its package, if an empty one
\* (lifecycle.ts: "linear and forward-only"; authorizeBuild's three conditions).
DefinitionsAreSound ==
  /\ Whole(PROJECT_YML) =>
       LET def == disk[PROJECT_YML]
       IN  /\ def.history = HistoryOf(def)
           /\ def.granted_by # None =>
                def.granted_by = HUMAN_FOUNDER /\ def.status = "READY_FOR_BUILD"
           /\ def.status = "READY_FOR_BUILD" => disk[HANDOFF] # None
  /\ Verify.authorized => disk[HANDOFF].granted_by = HUMAN_FOUNDER

\* As long as no two commands overlap, and however many were cut short: what a
\* definition promises is on disk (STATE_ARTIFACTS), written for this project; the
\* package is of this project; and a definition says it is authorized only when
\* the package the Runtime will be given says so too.
PromisesAreKept ==
  ~overlapped /\ Whole(PROJECT_YML) =>
    LET def == disk[PROJECT_YML]
    IN  /\ \A d \in DocumentsUpTo(def.status) : disk[d] = def.id
        /\ Whole(HANDOFF) =>
             disk[HANDOFF].id = def.id /\ disk[HANDOFF].terms = def.terms
        /\ def.granted_by # None => disk[HANDOFF] = Package(def)

\* When nothing runs, and no command overlapped another, was killed or stopped halfway
\* at a text it refused, the files agree: `project verify` is content and says of the
\* authorization what the definition says, and the log tells the definition's history.
FilesAgreeAtRest ==
  /\ ~overlapped /\ ~cutShort /\ Whole(PROJECT_YML)
  /\ \A p \in Proc : proc[p] = Idle
  => LET def == disk[PROJECT_YML]
     IN  /\ Verify = [ok |-> TRUE, authorized |-> def.granted_by # None]
         /\ disk[LOG] = def.history

\* As long as no two commands overlap, the definitions written of a project, one
\* after another and whatever was killed in between, take it forward one state at
\* a time, keep what it is, and never take an authorization back.
ForwardOnly ==
  [][latest # None /\ ~overlapped =>
       /\ latest'.id = latest.id /\ latest'.terms = latest.terms
       /\ \/ Rank(latest'.status) = Rank(latest.status) + 1
          \/ latest'.status = latest.status /\ latest'.granted_by # None
       /\ latest.granted_by # None => latest'.granted_by = latest.granted_by]_latest

\* Every command ends; createProject's loop comes to the state it was asked for.
CommandsEnd == \A p \in Proc : proc[p] # Idle ~> proc[p] = Idle

SecurityRank == [standard |-> 0, elevated |-> 1, high |-> 2, critical |-> 3]

\* Whether the caller or a label that can be used sets the security level.
SecurityIsChosen(raw) ==
  \/ Has(raw.over, "security_level")
  \/ Has(raw.fields, "security_level") /\ raw.fields.security_level \in SECURITY_LEVELS

DescriptionLabel(raw) == IF Has(raw.fields, "description") THEN raw.fields.description ELSE {}

\* The brief with one more word where the intake looks for words: anywhere in prose,
\* but only in the description of a labelled brief.
MoreSaid(raw, w) ==
  IF ~Labelled(raw) THEN [raw EXCEPT !.prose = @ \cup {w}]
  ELSE [raw EXCEPT !.fields =
          [l \in DOMAIN raw.fields \cup {"description"} |->
             IF l = "description" THEN DescriptionLabel(raw) \cup {w} ELSE raw.fields[l]]]

\* Every intake that is accepted has all its fields, of the schema's values. A further
\* word never makes a project look safer, as long as it is said where it is looked
\* for: in prose, or in the description of a labelled brief. Neither the risk nor the
\* security level nor the budget gets lower by it. Of what is looked at, a mention of
\* payments makes the security high and RISK 4 rules out standard security, unless the
\* caller or a label chose the level. What a labelled brief says under other labels,
\* its core features among them, counts for nothing here (NoSignalMeansNone), and
\* giving a prose brief its first label may lower both (intake.ts:262).
IntakeIsSafe ==
  commands = 0 =>
    \A raw \in {r \in Sample : ~IntakeRefused(r)} :
      LET s == ParseIntake(raw)
      IN  /\ s.project_type \in PROJECT_TYPES /\ s.business_model \in BUSINESS_MODELS
          /\ s.platforms \subseteq PLATFORMS /\ s.platforms # {}
          /\ s.target_users # {} /\ s.core_features # {}
          /\ s.risk_level \in 0 .. 5 /\ s.security_level \in SECURITY_LEVELS
          /\ \A w \in Word :
               LET more == ParseIntake(MoreSaid(raw, w))
               IN  /\ more.risk_level >= s.risk_level
                   /\ SecurityRank[more.security_level] >= SecurityRank[s.security_level]
                   /\ BudgetPolicyForRisk(more.risk_level, more.security_level)
                        >= BudgetPolicyForRisk(s.risk_level, s.security_level)
          /\ ~SecurityIsChosen(raw) =>
               /\ s.risk_level >= 4 => s.security_level # "standard"
               /\ "payment" \in SearchText(raw) => s.security_level = "high"

\* Everything a brief says in words, under whatever label.
TextLabels == {"project_name", "description", "target_users", "core_features"}
WholeBrief(raw) ==
  raw.prose \cup UNION {raw.fields[l] : l \in DOMAIN raw.fields \cap TextLabels}

\* A project whose security is inferred to be standard, for which the intake notes
\* "no elevated-security signal in the brief" (intake.ts:205, and so written into the
\* project's intake assumptions), has none in its brief.
NoSignalMeansNone ==
  commands = 0 =>
    \A raw \in {r \in Sample : ~IntakeRefused(r) /\ ~SecurityIsChosen(r)} :
      ParseIntake(raw).security_level = "standard" =>
        WholeBrief(raw) \cap {"payment", "card", "account", "login"} = {}
===============================================================================
