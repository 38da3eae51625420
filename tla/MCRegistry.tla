----------------------------- MODULE MCRegistry -----------------------------
(* A publication about a DID, a note for the other place if there is none yet, *)
(* a conditional update of the first, and a lookup, beside a stranger that may *)
(* write or reclaim once.                                                      *)
EXTENDS Registry, TLC

CONSTANTS p1, p2, p3, mine, newer, foreign, Other

MCAbout == mine :> Did @@ newer :> Did @@ foreign :> Other
MCCall ==
    p1 :> [at |-> "sharded", value |-> mine, condition |-> "none"] @@
    p2 :> [at |-> "legacy", value |-> newer, condition |-> "absent"] @@
    p3 :> [at |-> "sharded", value |-> newer, condition |-> mine]
=============================================================================
