-------------------------------- MODULE MCCall --------------------------------
(***************************************************************************)
(* A runner that makes calls one after another over a provider with short  *)
(* and long windows, one of them longer than the scheduler will wait.      *)
(***************************************************************************)
EXTENDS ModelCall

MCWindows == {1, 3}
===============================================================================
