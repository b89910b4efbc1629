------------------------------ MODULE CallContract ------------------------------
(***************************************************************************)
(* What a stage may expect of one real model call: it sends a bounded      *)
(* number of requests and ends with a reply or one error; the quota is     *)
(* declared exhausted only after one limited answer more than the retry    *)
(* cycles allow. StageRunner is built on this, ModelCall implements it.    *)
(***************************************************************************)
EXTENDS Naturals, CallErrors

CONSTANTS Cycles,       \* maxRetryCycles
          MaxRequests   \* HTTP requests of one call

CallOutcome == CallError \cup {"REPLY"}

VARIABLES called,    \* a call is under way
          requests,  \* HTTP requests it has sent
          limits,    \* answers that told it to wait
          result     \* how the last call ended

vars == <<called, requests, limits, result>>

Init == called = FALSE /\ requests = 0 /\ limits = 0 /\ result = "REPLY"

Call ==
  /\ ~called
  /\ called' = TRUE
  /\ UNCHANGED <<requests, limits, result>>

Request ==
  /\ called
  /\ requests < MaxRequests
  /\ requests' = requests + 1
  /\ UNCHANGED <<called, limits, result>>

Limited ==
  /\ called
  /\ limits < requests
  /\ limits < Cycles
  /\ limits' = limits + 1
  /\ UNCHANGED <<called, requests, result>>

Return(o) ==
  /\ called
  /\ o = "REPLY" => requests > limits
  /\ o = "RATE_LIMIT_EXHAUSTED" => limits = Cycles /\ requests > limits
  /\ called' = FALSE
  /\ requests' = 0
  /\ limits' = 0
  /\ result' = o

Next == Call \/ Request \/ Limited \/ \E o \in CallOutcome : Return(o)

Spec == Init /\ [][Next]_vars
===============================================================================
