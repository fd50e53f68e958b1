------------------------------ MODULE MCWorker ------------------------------
(***************************************************************************)
(* The four parts that decide from which state and with which lengths a    *)
(* step starts: the prefix hit, the recurrent state, its stash and the     *)
(* planned lengths.  They share no variable; `part` says whose behaviours  *)
(* are explored, and the other parts rest.                                 *)
(***************************************************************************)
EXTENDS PrefixHit, KdaState, KdaStash, ExactLens, TLC

VARIABLE part

(* Requests and their rows are interchangeable for the planned lengths.    *)
LensSymmetry == Permutations(LensReqs) \cup Permutations(StateRows)

MCInit ==
  /\ part \in {"hit", "state", "stash", "lens"}
  /\ HitInit /\ (part # "hit" => order = <<"full", "mamba", "draft">>)
  /\ StateInit /\ (part # "state" => stash = FALSE /\ \A b \in Budgets : budget <= b)
  /\ StashInit
  /\ LensInit /\ (part # "lens" => mirror = "early")

MCNext ==
  /\ UNCHANGED part
  /\ \/ part = "hit"   /\ HitNext   /\ UNCHANGED <<stateVars, stashVars, lensVars>>
     \/ part = "state" /\ StateNext /\ UNCHANGED <<hitVars, stashVars, lensVars>>
     \/ part = "stash" /\ StashNext /\ UNCHANGED <<hitVars, stateVars, lensVars>>
     \/ part = "lens"  /\ LensNext  /\ UNCHANGED <<hitVars, stateVars, stashVars>>

MCSpec == MCInit /\ [][MCNext]_<<part, hitVars, stateVars, stashVars, lensVars>>
=============================================================================
