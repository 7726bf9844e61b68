------------------------ MODULE MCProcessLifecycle ------------------------
(***************************************************************************)
(* Instances of ProcessLifecycle for TLC.                                  *)
(***************************************************************************)
EXTENDS ProcessLifecycle
=============================================================================
