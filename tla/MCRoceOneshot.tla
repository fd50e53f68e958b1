--------------------------- MODULE MCRoceOneshot ---------------------------
(* Small instances of RoceOneshot: collectives of one and of three packs,  *)
(* launched with one and with two blocks.  A single pack leaves the second *)
(* HCA without a stripe.                                                   *)
EXTENDS RoceOneshot

MCPacks == [n \in 1 .. MaxOps |-> IF n % 3 = 2 THEN 3 ELSE 1]
MCGrid == [n \in 1 .. MaxOps |-> GridBlocks(MCPacks[n])]
=============================================================================
