------------------------------- MODULE MCChat -------------------------------
(***************************************************************************)
(* A small instance of Chat: one connection of each user, two messages,    *)
(* a history shorter than that, and one crash.                             *)
(***************************************************************************)
EXTENDS Chat

CONSTANTS a, b

TwoUsers == {a, b}
TwoSockets == {1, 2}
MCUserOf == <<a, b>>
=============================================================================
