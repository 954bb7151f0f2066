------------------------------ MODULE MCPeople ------------------------------
(***************************************************************************)
(* Accounts, Telegram verification and profiles share no state, so one run *)
(* checks them one after the other: part says which of them moves, and the *)
(* others stay in their initial state.                                     *)
(***************************************************************************)
EXTENDS Accounts, Telegram, Profiles, TLC

CONSTANTS n1, n2, s1, s2

TwoServers == {s1, s2}

\* The numbers and the servers are interchangeable.
PSymmetry == Permutations({n1, n2}) \cup Permutations(TwoServers)

VARIABLE part

pevars == <<avars, tvars, pvars, part>>

PInit ==
    /\ part \in {"accounts", "telegram", "profiles"}
    /\ AInit /\ TInit /\ PrInit
    /\ part # "profiles" => role = "QASSOB"

PNext ==
    /\ UNCHANGED part
    /\ \/ part = "accounts" /\ ANext /\ UNCHANGED <<tvars, pvars>>
       \/ part = "telegram" /\ TNext /\ UNCHANGED <<avars, pvars>>
       \/ part = "profiles" /\ PrNext /\ UNCHANGED <<avars, tvars>>

PSpec == PInit /\ [][PNext]_pevars
=============================================================================
