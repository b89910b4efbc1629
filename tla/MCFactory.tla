------------------------------- MODULE MCFactory -------------------------------
(***************************************************************************)
(* feature-development with one stage of each kind: an analysis, the       *)
(* implementation, an auxiliary stage, the review, the scan, the gate, and *)
(* behind it the founder's own step, an agent's, and the way back.         *)
(***************************************************************************)
EXTENDS FactorySafety, TLC

MCStep(owner, gate, risk, state, words, pass, fail) ==
  [owner |-> owner, human_approval |-> gate, risk_level |-> risk,
   project_state |-> state, words |-> words, on_pass |-> pass, on_fail |-> fail]

MCDef ==
  "feature-development" :>
    [risk_level |-> 4, first |-> "plan", steps |->
       "plan" :> MCStep("engineering-director", FALSE, None, "PLAN", {}, "implementation", "abort")
    @@ "implementation" :> MCStep("backend-engineer", FALSE, None, "BUILD", {"writes"}, "self_test", "plan")
    @@ "self_test" :> MCStep("backend-engineer", FALSE, None, "BUILD", {"writes"}, "code_review", "implementation")
    @@ "code_review" :> MCStep("senior-code-reviewer", FALSE, None, "REVIEW", {"writes"}, "security", "implementation")
    @@ "security" :> MCStep("application-security-engineer", FALSE, None, "SECURITY", {}, "human_approval", "implementation")
    @@ "human_approval" :> MCStep(HUMAN_FOUNDER, TRUE, 5, "APPROVAL", {}, "production", "implementation")
    @@ "production" :> MCStep(HUMAN_FOUNDER, FALSE, 5, "PRODUCTION", {"writes"}, "production_verify", "rollback")
    @@ "production_verify" :> MCStep("release-manager", FALSE, None, "PRODUCTION", {}, "end", "rollback")
    @@ "rollback" :> MCStep(HUMAN_FOUNDER, FALSE, 5, "PRODUCTION", {"writes"}, "end", "abort")]
MCSteps == DOMAIN MCDef["feature-development"].steps
MCIdentity ==
  {MCDef["feature-development"].steps[s].owner : s \in MCSteps} \cup {SYSTEM}

\* A source file, a test of it, and a file of neither kind that Codex may not touch.
MCFile(code, dir) ==
  [place |-> "inside", secretLike |-> FALSE, code |-> code, dir |-> dir, mark |-> None,
   output |-> FALSE]
Src == MCFile(TRUE, None)
Tst == MCFile(TRUE, "test")
Stray == MCFile(FALSE, None)
MCPath == {Src, Tst, Stray}
MCInScope == {Src, Tst}
MCSeed == [p \in MCPath |-> IF p = Src THEN "old" ELSE None]
MCContent == {"old", "health", "leak"}
MCTraits ==
  [c \in MCContent |-> CASE c = "health" -> {"token"} [] c = "leak" -> {"token", "secret"}
                         [] OTHER -> {}]

\* The change; without its test; with a secret; nothing but a test; out of scope.
MCWrite(to, content) == [to |-> to, content |-> content]
MCEdit ==
  {MCWrite({Src, Tst}, "health"), MCWrite({Src}, "health"), MCWrite({Src, Tst}, "leak"),
   MCWrite({Tst}, "old"), MCWrite({Src, Stray}, "health")}

MCTests == {[exitCode |-> 0, passed |-> n, failed |-> 0, ran |-> TRUE] : n \in 0 .. 1}

\* Groq with a fallback; with either premium beside it; not configured.
MCVars(keys, fallback, premium) ==
  [kind |-> None, host |-> None, keyEnv |-> None, fallback |-> fallback,
   premium |-> premium, premiumKeyEnv |-> None, keys |-> keys]
MCGroq == "GROQ_API_KEY"
MCEnv ==
  {MCVars({MCGroq, "NVIDIA_API_KEY"}, None, None),
   MCVars({MCGroq, "NVIDIA_API_KEY", "OPENAI_API_KEY"}, None, "openai"),
   MCVars({MCGroq, "NVIDIA_API_KEY"}, None, "codex-cli"),
   MCVars({}, None, "openai")}
MCEveryEnv ==
  [kind : {None, "groq", "nim", "openrouter", "openai-compatible", "off", "other"},
   host : {None, "groq", "nvidia", "openrouter", "elsewhere"},
   keyEnv : {None, "NVIDIA_API_KEY"}, fallback : {None, "auto", "none"},
   premium : {None}, premiumKeyEnv : {None},
   keys : SUBSET {MCGroq, "NVIDIA_API_KEY", "OPENROUTER_API_KEY"}]
MCTask == {{}, {"PII"}}
===============================================================================
