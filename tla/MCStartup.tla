----------------------------- MODULE MCStartup ------------------------------
(***************************************************************************)
(* Who may end early, for the model checker: nobody, a node in the middle  *)
(* that both calls and is called, or a stray.                              *)
(***************************************************************************)
EXTENDS Startup

MCFaulty == {{}, {1}, {5}}
=============================================================================
