---------------------------- MODULE MCDiscovery -----------------------------
(* Model-checking instance of Discovery: two service names, one a prefix  *)
(* of the other ("a" and "ab"), so that a read of "a" also reads "ab".    *)
EXTENDS Discovery

MCNames == {<<1>>, <<1, 2>>}
=============================================================================
