---------------------------- MODULE MCGatewayName ----------------------------
(***************************************************************************)
(* GatewayName for TLC.                                                    *)
(***************************************************************************)
EXTENDS GatewayName, TLC

\* No name is singled out: they are compared, and nothing else.
Symmetry == Permutations(Name)

\* No step and no property reads the hashes on the chain, or asks of a contract that
\* has ended which name it was for or how the deployer came to forget it: states that
\* differ in these alone are one.
View ==
  <<nodeOf, live, nodes, paused, registered, namesPaused,
    [c \in NameContractId |->
       IF c \in registered \cup {gw.nameContract} THEN nameOf[c] ELSE nameOf[c] # None],
    gw, current \cap (live \cup {gw.deployment}), pc, before, outcome,
    lost \cap registered, dropped \cap registered, leaked \cap live, released \cap live, calls>>
=============================================================================
