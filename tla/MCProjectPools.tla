--------------------------- MODULE MCProjectPools ---------------------------
(* Instances of ProjectPools for TLC, and of Configs, which decides what   *)
(* servers a pool is for: three names, two of them with one identifier.    *)
EXTENDS ProjectPools, Configs
CONSTANTS dash, under, other
MCPyName == [n \in Names |-> IF n = dash THEN under ELSE n]

(* What ProjectPools_proofs proves of Configs, on this instance. *)
ASSUME ModesAgree /\ SearchIsRun
=============================================================================
