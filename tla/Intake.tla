-------------------------------- MODULE Intake --------------------------------
(***************************************************************************)
(* The deterministic intake of the project factory (intake.ts) and the     *)
(* budget policy it leads to (budget-policy.ts). A text is the set of the  *)
(* telling words in it; every regular expression is the set of the words   *)
(* of this vocabulary it finds.                                            *)
(***************************************************************************)
EXTENDS RiskText, FiniteSets, FiniteSetsExt, Sequences

Word ==
  {"marketplace", "storefront", "mobile app", "command-line", "warehouse",
   "internal tool", "sdk", "rest api", "portal", "saas", "wholesale", "consumer",
   "open source", "restaurant", "electron", "developer", "company", "payment", "card",
   "account", "login", "deploy", "typo", "supports", "plain"}

PROJECT_TYPES ==
  {"web_app", "api_service", "ecommerce", "mobile_app", "cli_tool", "data_platform",
   "internal_tool", "library", "other"}
PLATFORMS == {"web", "mobile", "api", "desktop", "cli"}
SECURITY_LEVELS == {"standard", "elevated", "high", "critical"}
BUSINESS_MODELS ==
  {"b2c", "b2b", "b2b2c", "marketplace", "subscription", "internal", "open_source", "other"}

\* The value of the first rule whose words the text has.
FirstMatch(rules, text, default) ==
  LET hits == {i \in DOMAIN rules : rules[i].words \cap text # {}}
  IN  IF hits = {} THEN default ELSE rules[Min(hits)].value

Rule(words, value) == [words |-> words, value |-> value]

InferProjectType(text) ==
  FirstMatch(<<Rule({"marketplace", "storefront"}, "ecommerce"),
               Rule({"mobile app"}, "mobile_app"),
               Rule({"command-line"}, "cli_tool"),
               Rule({"warehouse"}, "data_platform"),
               Rule({"internal tool"}, "internal_tool"),
               Rule({"sdk"}, "library"),
               Rule({"rest api"}, "api_service"),
               Rule({"portal", "saas"}, "web_app")>>, text, "other")

InferBusinessModel(text) ==
  IF {"wholesale", "consumer"} \subseteq text THEN "b2b2c"
  ELSE FirstMatch(<<Rule({"marketplace"}, "marketplace"),
                    Rule({"saas"}, "subscription"),
                    Rule({"wholesale"}, "b2b"),
                    Rule({"consumer"}, "b2c"),
                    Rule({"internal tool"}, "internal"),
                    Rule({"open source"}, "open_source")>>, text, "other")

\* The pattern for an api also finds the "rest" in "restaurant".
PlatformsNamed(text) ==
  {p \in PLATFORMS :
     CASE p = "web"     -> text \cap {"portal", "storefront"} # {}
       [] p = "mobile"  -> "mobile app" \in text
       [] p = "api"     -> text \cap {"rest api", "restaurant"} # {}
       [] p = "desktop" -> "electron" \in text
       [] p = "cli"     -> "command-line" \in text}

InferPlatforms(text, type) ==
  IF PlatformsNamed(text) # {} THEN PlatformsNamed(text)
  ELSE {CASE type = "api_service" -> "api"
          [] type = "mobile_app"  -> "mobile"
          [] type = "cli_tool"    -> "cli"
          [] OTHER                -> "web"}

InferTargetUsers(text, model) ==
  LET named == (IF "consumer" \in text THEN {"individual customers"} ELSE {})
                 \cup (IF text \cap {"wholesale", "company"} # {}
                       THEN {"business customers"} ELSE {})
                 \cup (IF "developer" \in text THEN {"developers"} ELSE {})
  IN  IF named # {} THEN named
      ELSE {CASE model = "b2b"         -> "business customers"
              [] model = "internal"    -> "internal operators"
              [] model = "open_source" -> "developers"
              [] OTHER                 -> "end users"}

InferSecurityLevel(text, risk) ==
  IF text \cap {"payment", "card"} # {} \/ risk >= 5 THEN "high"
  ELSE IF text \cap {"account", "login"} # {} \/ risk >= 4 THEN "elevated"
  ELSE "standard"

\* One feature per sentence of action, or one to begin with.
InferFeatures(text) == IF "supports" \in text THEN {"supports"} ELSE {"a first version"}

SignalsOf(text) ==
  (IF text \cap {"payment", "login"} # {} THEN {"critical"} ELSE {})
    \cup (IF "deploy" \in text THEN {"structural"} ELSE {})
    \cup (IF text \cap {"rest api"} # {} THEN {"feature"} ELSE {})
    \cup (IF "typo" \in text THEN {"wording"} ELSE {})

-------------------------------------------------------------------------------
(***************************************************************************)
(* parseIntake. A brief has either labels ("Label: value") or only prose;  *)
(* `fields` has the labels LABELS knows of, and no label is known for the  *)
(* project type. `over` has the caller's overrides. Every field comes from *)
(* its override, else from its label when that can be used, else from the  *)
(* text. What is scanned of a labelled brief is its name and description.  *)
(***************************************************************************)
Has(r, key) == key \in DOMAIN r

\* RawIntake: an override has a value of its field's type, a label may say anything.
IsIntake(raw) ==
  /\ {"prose", "fields", "over"} \subseteq DOMAIN raw
  /\ Has(raw.over, "project_type") => raw.over.project_type \in PROJECT_TYPES
  /\ Has(raw.over, "business_model") => raw.over.business_model \in BUSINESS_MODELS
  /\ Has(raw.over, "platforms") => raw.over.platforms \subseteq PLATFORMS
  /\ Has(raw.over, "security_level") => raw.over.security_level \in SECURITY_LEVELS
  /\ Has(raw.over, "risk_level") => raw.over.risk_level \in Int

Given(raw, key) ==
  IF Has(raw.over, key) THEN raw.over[key]
  ELSE IF Has(raw.fields, key) THEN raw.fields[key] ELSE {}

Labelled(raw) == DOMAIN raw.fields # {}

Description(raw) ==
  IF Has(raw.over, "description") \/ Labelled(raw) THEN Given(raw, "description")
  ELSE raw.prose

\* With no description the name stands in for it, and the other way round.
SearchText(raw) ==
  Given(raw, "project_name") \cup Description(raw)
    \cup (IF Labelled(raw) THEN {} ELSE raw.prose)

IntakeRefused(raw) ==
  \/ raw.secret
  \/ /\ ~Labelled(raw) /\ raw.prose = {}
     /\ ~Has(raw.over, "description") /\ ~Has(raw.over, "project_name")

\* COERCE_ENUM: what a label says counts only when it is one of the values.
Chosen(raw, key, allowed, inferred) ==
  IF Has(raw.over, key) THEN raw.over[key]
  ELSE IF Has(raw.fields, key) /\ raw.fields[key] \in allowed THEN raw.fields[key]
  ELSE inferred

ChosenSet(raw, key, allowed, inferred) ==
  IF Has(raw.over, key) /\ raw.over[key] # {} THEN raw.over[key]
  ELSE IF Has(raw.fields, key) /\ raw.fields[key] \cap allowed # {}
       THEN raw.fields[key] \cap allowed
  ELSE inferred

\* An override may lower the risk; without one it is at least 2.
RiskOf(raw) ==
  IF Has(raw.over, "risk_level") THEN ClampRisk(raw.over.risk_level)
  ELSE ClampRisk(AssessRiskFromText(SignalsOf(SearchText(raw)), 2))

ParseIntake(raw) ==
  LET text == SearchText(raw)
      type == Chosen(raw, "project_type", {}, InferProjectType(text))
      model == Chosen(raw, "business_model", BUSINESS_MODELS, InferBusinessModel(text))
  IN  [project_type   |-> type,
       business_model |-> model,
       platforms      |-> ChosenSet(raw, "platforms", PLATFORMS, InferPlatforms(text, type)),
       target_users   |-> ChosenSet(raw, "target_users", Given(raw, "target_users"),
                                    InferTargetUsers(text, model)),
       core_features  |-> ChosenSet(raw, "core_features", Given(raw, "core_features"),
                                    InferFeatures(text)),
       risk_level     |-> RiskOf(raw),
       security_level |-> Chosen(raw, "security_level", SECURITY_LEVELS,
                                 InferSecurityLevel(text, RiskOf(raw)))]

\* budgetPolicyForRisk: the requests a project may make of real providers.
BudgetPolicyForRisk(risk, security) ==
  IF risk >= 4 \/ security \in {"high", "critical"} THEN 60 ELSE 30

\* resolveBudgetPolicy, of the overrides a caller may give.
BudgetRefused(b) ==
  \/ Has(b, "free_first") /\ ~b.free_first
  \/ Has(b, "premium_authorization_required") /\ ~b.premium_authorization_required
  \/ Has(b, "max_real_provider_requests") /\ b.max_real_provider_requests \notin 0 .. 1000
  \/ Has(b, "max_premium_invocations") /\ b.max_premium_invocations \notin 0 .. 100

ResolveBudgetPolicy(base, b) ==
  IF Has(b, "max_real_provider_requests") THEN b.max_real_provider_requests ELSE base
===============================================================================
