-------------------------------- MODULE MCGraph --------------------------------
(***************************************************************************)
(* Every definition of three steps whose ids are distinct and whose edges  *)
(* lead to one another or to "end", with every placing of gates and        *)
(* PRODUCTION steps behind the first; every one of two steps with repeated *)
(* ids and dangling edges besides.                                         *)
(***************************************************************************)
EXTENDS WorkflowGraph

MCName == {"s1", "s2", "s3", "end", "nowhere"}

Steps(ids, targets, gates, productions) ==
  [id : ids, on_pass : targets, on_fail : targets,
   human_approval : gates, production : productions]

Three ==
  LET targets == {"s1", "s2", "s3", "end"}
  IN  [steps : Steps({"s1"}, targets, BOOLEAN, {FALSE})
                 \X Steps({"s2"}, targets, BOOLEAN, BOOLEAN)
                 \X {s \in Steps({"s3"}, targets, BOOLEAN, BOOLEAN) :
                       ~(s.human_approval /\ s.production)},
       reaches_production : {TRUE}]

Two ==
  LET targets == {"s1", "s2", "end", "nowhere"}
  IN  [steps : Steps({"s1"}, targets, BOOLEAN, BOOLEAN)
                 \X Steps({"s1", "s2"}, targets, BOOLEAN, BOOLEAN),
       reaches_production : BOOLEAN]

MCDefinition == Three \cup Two
===============================================================================
