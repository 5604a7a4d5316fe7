------------------------------ MODULE MCTokens ------------------------------
(* A small instance of AuthHandoff for TLC: one login, whose user may be known. *)
EXTENDS AuthHandoff

CONSTANTS a, t, alice, bob

MCTokenOf == [c \in {a} |-> t]
MCUserOf  == [c \in {a} |-> alice]
=============================================================================
