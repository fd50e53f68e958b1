---------------------------- MODULE MCRoceSetup ----------------------------
(* Three ranks; GLM_ROCE_REQUIRE is 0 on all of them, or 1 on the last.    *)
EXTENDS RoceSetup

NoneRequire == [r \in Ranks |-> FALSE]
LastRequires == [r \in Ranks |-> r = World - 1]
=============================================================================
