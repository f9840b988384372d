------------------------------ MODULE MCLogger -------------------------------
(* Model-checking instance of Logger: five words, one of each role.        *)
EXTENDS Logger

CONSTANTS msg, pw, sec, dr, w

MCWords == {msg, pw, sec, dr, w}

=============================================================================
