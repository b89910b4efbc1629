------------------------------ MODULE CallErrors ------------------------------
(***************************************************************************)
(* The errors a real model call ends with: the provider's, and the one the *)
(* rate-limit scheduler raises when its cycles are used up.                *)
(***************************************************************************)
ProviderError ==
  {"PROVIDER_NOT_CONFIGURED", "PROVIDER_QUOTA_EXHAUSTED", "PROVIDER_HTTP",
   "PROVIDER_API_ERROR", "PROVIDER_EMPTY", "PROVIDER_5XX", "PROVIDER_TIMEOUT",
   "PROVIDER_NETWORK"}

CallError == ProviderError \cup {"RATE_LIMIT_EXHAUSTED"}
===============================================================================
