--------------------------- MODULE MCEtcdRegistry ---------------------------
(* Model-checking instance of EtcdRegistry; the .cfg files give the bounds. *)
EXTENDS EtcdRegistry

=============================================================================
