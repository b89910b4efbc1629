------------------------------- MODULE Providers -------------------------------
(***************************************************************************)
(* Which provider a proof runs on (runtime/src/models/real-provider.ts),   *)
(* and which task it may send there (runtime/src/proof/                    *)
(* proof-sensitivity.ts). An environment is the record of the variables    *)
(* these functions read, None where one is not set; a key variable is the  *)
(* name of the variable that holds the key, and `keys` those that are set. *)
(***************************************************************************)
CONSTANTS None,
          Env   \* the environments: [kind, host, keyEnv, fallback, premium, premiumKeyEnv, keys]

GROQ_API_KEY == "GROQ_API_KEY"
NVIDIA_API_KEY == "NVIDIA_API_KEY"
OPENROUTER_API_KEY == "OPENROUTER_API_KEY"
OPENAI_API_KEY == "OPENAI_API_KEY"

RealProviderId == {"groq", "nvidia", "openrouter", "openai-compatible"}
DISABLED == {"disabled", "off", "none"}

Given(value, default) == IF value = None THEN default ELSE value

-------------------------------------------------------------------------------
\* freeTierRateLimitDefaults: intervals in hundreds of milliseconds, tokens in thousands.
FreeTierRateLimitDefaults(minInterval) ==
  [maxRetryCycles |-> 3, minInterval |-> minInterval, requestsPerWindow |-> 30, tokensPerWindow |-> 6]

\* defaultsForKind: what is known of each vendor, by the names it goes by.
\* `schema`: the endpoint keeps to a JSON schema; `thinks`: thinking must be turned off.
Kinds ==
  [groq |-> {"groq", "groq-direct"}, nvidia |-> {"nvidia", "nvidia-nim", "nim"},
   openrouter |-> {"openrouter"}, compatible |-> {"openai-compatible"}]

Vendor(id, host, key, schema, thinks, rateLimit) ==
  [id |-> id, host |-> host, apiKeyEnv |-> key, schema |-> schema, thinks |-> thinks,
   rateLimit |-> rateLimit]

DefaultsForKind(kind) ==
  CASE kind \in Kinds.groq ->
         Vendor("groq", "groq", GROQ_API_KEY, TRUE, FALSE, FreeTierRateLimitDefaults(15))
    [] kind \in Kinds.nvidia ->
         Vendor("nvidia", "nvidia", NVIDIA_API_KEY, FALSE, TRUE,
                [maxRetryCycles |-> 3, minInterval |-> 12, requestsPerWindow |-> 40,
                 tokensPerWindow |-> 60])
    [] kind \in Kinds.openrouter ->
         Vendor("openrouter", "openrouter", OPENROUTER_API_KEY, FALSE, FALSE,
                FreeTierRateLimitDefaults(20))
    [] kind \in Kinds.compatible ->
         Vendor("openai-compatible", "groq", "AI_COMPANY_REAL_API_KEY", FALSE, FALSE,
                FreeTierRateLimitDefaults(10))
    [] OTHER -> None

IdFromBaseUrl(host, fallback) ==
  IF host \in {"groq", "nvidia", "openrouter"} THEN host ELSE fallback

\* Fault: a base URL of another vendor keeps the settings of the kind it overrides.
DescribeByKind(defaults, host, keyEnv) ==
  [id |-> IdFromBaseUrl(Given(host, defaults.host), defaults.id),
   host |-> Given(host, defaults.host), apiKeyEnv |-> Given(keyEnv, defaults.apiKeyEnv),
   schema |-> defaults.schema, thinks |-> defaults.thinks, rateLimit |-> defaults.rateLimit]

\* makeRealProviderDescriptor: a base URL of another vendor brings that vendor's
\* settings with it, but not its key.
MakeRealProviderDescriptor(defaults, host, keyEnv) ==
  LET baseUrl == Given(host, defaults.host)
      id == IdFromBaseUrl(baseUrl, defaults.id)
      effective == IF id = defaults.id THEN defaults ELSE DefaultsForKind(id)
  IN  [effective EXCEPT !.id = id, !.host = baseUrl,
                        !.apiKeyEnv = Given(keyEnv, defaults.apiKeyEnv)]

IsReady(env, descriptor) == descriptor # None /\ descriptor.apiKeyEnv \in env.keys

\* buildRealProvider: None for a kind that is disabled or unknown.
BuildRealProvider(env) ==
  LET defaults == DefaultsForKind(Given(env.kind, "groq"))
  IN  IF env.kind \in DISABLED \/ defaults = None THEN None
      ELSE MakeRealProviderDescriptor(defaults, env.host, env.keyEnv)

Active(descriptor) == IF descriptor = None THEN None ELSE descriptor.id

\* Fault: NVIDIA is appended whatever the first provider is.
FallbacksAlways(env) ==
  IF NVIDIA_API_KEY \in env.keys
  THEN <<MakeRealProviderDescriptor(DefaultsForKind("nvidia"), None, None)>> ELSE <<>>

\* resolveProofProviderChain: NVIDIA is the only fallback there is.
Fallbacks(env) ==
  IF /\ Given(env.fallback, "nvidia") \in {"nvidia", "nvidia-nim", "auto"}
     /\ Active(BuildRealProvider(env)) # "nvidia"
     /\ NVIDIA_API_KEY \in env.keys
  THEN <<MakeRealProviderDescriptor(DefaultsForKind("nvidia"), None, None)>> ELSE <<>>

\* resolvePremiumImplProvider, with what proofCmd makes of it: the paid API only
\* when its key is there, the Codex CLI unconditionally (it is probed later).
PremiumKind(env) ==
  IF env.premium \in {"codex-cli", "codex", "chatgpt"} THEN "codex-cli"
  ELSE IF env.premium = "openai" /\ Given(env.premiumKeyEnv, OPENAI_API_KEY) \in env.keys
       THEN "openai" ELSE None

-------------------------------------------------------------------------------
\* classifyProofSensitivity, over what its patterns find in a task.
SensitiveTrait ==
  {"customer data", "PII", "government identifier", "payment information",
   "payment data", "production secret", "confidential dataset", "secret"}

SensitivityAllows(task) == task \cap SensitiveTrait = {}

\* What runSoftwareFactoryProof looks at before it does anything.
MayStart(env, task) == IsReady(env, BuildRealProvider(env)) /\ SensitivityAllows(task)

-------------------------------------------------------------------------------
\* A proof that runs out of quota goes on with a provider that can answer, that is
\* not the one it came from, and whose key is its own (resolveProofProviderChain).
FallbackIsAnother ==
  \A env \in Env : \A i \in DOMAIN Fallbacks(env) :
    LET d == Fallbacks(env)[i]
    IN  /\ IsReady(env, d) /\ d.apiKeyEnv = NVIDIA_API_KEY
        /\ d.id # Active(BuildRealProvider(env))
        /\ \A j \in DOMAIN Fallbacks(env) : i # j => d.id # Fallbacks(env)[j].id

\* Whatever the kind and the base URL say together, an endpoint gets the settings
\* of the vendor it is of: thinking off where it would spoil the reply, a schema
\* only where it is kept, and the pace of the vendor's free tier.
SettingsFitTheEndpoint ==
  \A env \in Env :
    LET d == BuildRealProvider(env)
    IN  d # None =>
          /\ d.host \in RealProviderId => d.id = d.host
          /\ d.thinks = (d.id = "nvidia")
          /\ d.schema = (d.id = "groq")
          /\ d.rateLimit = DefaultsForKind(d.id).rateLimit
===============================================================================
