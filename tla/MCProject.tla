------------------------------- MODULE MCProject -------------------------------
(***************************************************************************)
(* Two command lines on one project. The intakes are prose of up to two    *)
(* telling words and labelled briefs, with and without overrides; six of   *)
(* them are what projects are created from, three of them in vain.         *)
(***************************************************************************)
EXTENDS ProjectSafety

MCGoal == {"PLAN_READY", "READY_FOR_BUILD"}

Nothing == [x \in {} |-> {}]

RawIntake(prose, fields, over) ==
  [prose |-> prose, fields |-> fields, over |-> over, budget |-> Nothing,
   secret |-> FALSE, secretName |-> FALSE, fits |-> TRUE]

OneWord == {{}} \cup {{w} : w \in Word}
TwoWords == kSubset(2, {"wholesale", "consumer", "saas", "restaurant", "login",
                        "rest api", "deploy", "typo"})

Labels ==
  {[description |-> t, security_level |-> level] :
     t \in {{}, {"plain"}, {"payment", "portal"}}, level \in {"elevated", "garbled"}}
  \cup {[project_name |-> {"restaurant"}, business_model |-> "b2b", platforms |-> ps,
          core_features |-> {"payment"}] : ps \in {{"web", "garbled"}, {"garbled"}, {}}}

Overrides ==
  {Nothing, [description |-> {"deploy"}], [risk_level |-> -1], [risk_level |-> 9],
   [security_level |-> "critical", platforms |-> {}], [project_type |-> "cli_tool"]}

MCSample ==
  {RawIntake(t, Nothing, o) : t \in OneWord, o \in Overrides}
    \cup {RawIntake(t, Nothing, Nothing) : t \in TwoWords}
    \cup {RawIntake({}, l, o) : l \in Labels, o \in Overrides}

Ordinary == RawIntake({"portal"}, Nothing, Nothing)
Payments == RawIntake({"payment"}, Nothing, Nothing)

MCRaw ==
  {Ordinary, Payments,
   [Ordinary EXCEPT !.secret = TRUE], [Payments EXCEPT !.secretName = TRUE],
   [Ordinary EXCEPT !.budget = [free_first |-> FALSE]],
   [Ordinary EXCEPT !.fits = FALSE]}
===============================================================================
