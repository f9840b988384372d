----------------------------- MODULE MCInstance -----------------------------
(* Model-checking instance of Instance; the .cfg files give the bounds.   *)
EXTENDS Instance
=============================================================================
