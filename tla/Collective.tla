----------------------------- MODULE Collective -----------------------------
(***************************************************************************)
(* What a sequence of one-shot collectives promises to the program that    *)
(* calls it.  Rank r has contributed its data to the first given[r]        *)
(* collectives and holds the result of the first got[r] of them.  A rank   *)
(* has the result of a collective only when every rank has contributed to  *)
(* it, and it starts the next one only after that.  A rank that fails      *)
(* stops taking steps.                                                     *)
(***************************************************************************)
EXTENDS Integers

CONSTANTS Ranks, MaxOps

VARIABLES given, got
vars == <<given, got>>

Init == /\ given = [r \in Ranks |-> 0]
        /\ got = [r \in Ranks |-> 0]

Contribute(r) == /\ given[r] = got[r]
                 /\ given[r] < MaxOps
                 /\ given' = [given EXCEPT ![r] = @ + 1]
                 /\ UNCHANGED got

Complete(r) == /\ got[r] < given[r]
               /\ \A p \in Ranks : given[p] > got[r]
               /\ got' = [got EXCEPT ![r] = @ + 1]
               /\ UNCHANGED given

Next == \E r \in Ranks : Contribute(r) \/ Complete(r)

Spec == Init /\ [][Next]_vars
=============================================================================
