--------------------------- MODULE MCGatedProduction ---------------------------
(***************************************************************************)
(* Definitions of four steps in the shape of the shipped ones: the last    *)
(* two may be PRODUCTION steps, and the second may be a gate.              *)
(***************************************************************************)
EXTENDS WorkflowGraph

MCName == {"build", "gate", "deploy", "verify", "end"}

Steps(id, passes, fails, gates, productions) ==
  [id : {id}, on_pass : passes, on_fail : fails,
   human_approval : gates, production : productions]

MCDefinition ==
  [steps : Steps("build", {"gate", "deploy"}, {"build", "verify"}, {FALSE}, {FALSE})
             \X Steps("gate", {"deploy"}, {"build"}, BOOLEAN, {FALSE})
             \X Steps("deploy", {"verify", "end"}, {"build", "end"}, {FALSE}, BOOLEAN)
             \X Steps("verify", {"end"}, {"build", "end"}, {FALSE}, BOOLEAN),
   reaches_production : BOOLEAN]
===============================================================================
