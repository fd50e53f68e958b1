------------------------------- MODULE MCHost -------------------------------
(***************************************************************************)
(* Parts in which the host runs ahead of the device: the collectives on    *)
(* their streams, the lookup drafts with the index they search, the        *)
(* truncation of drafts by confidences that arrive late, and the lengths   *)
(* of drafts under the asynchronous scheduler.                             *)
(* They share no variable; `part` says whose behaviours are explored, and  *)
(* the other parts rest.                                                   *)
(***************************************************************************)
EXTENDS MCRoceStreams, LookupDraft, ContextIndex, DraftTrunc, AdaptiveK, TLC

VARIABLE part

(* Two grams of two tokens share a key.                                    *)
MCKey(g) == IF g = <<1, 0>> THEN <<0, 1>> ELSE g

(* Token ids are interchangeable, lookup only compares them; and so are    *)
(* the requests whose drafts are sized.                                    *)
HostSymmetry == Permutations(Vocab) \cup Permutations(Reqs)

(* The harness may switch truncation off, or let it skip without a wait.   *)
Truncates == [on |-> TRUE, gate |-> TRUE, early |-> FALSE]
MCVariants == {Truncates, [Truncates EXCEPT !.early = TRUE],
               [on |-> FALSE, gate |-> FALSE, early |-> FALSE]}

MCInit ==
  /\ part \in {"streams", "lookup", "index", "trunc", "lengths"}
  /\ StreamsInit /\ (part # "streams" => use = Graphs)
  /\ LookupInit /\ (part # "lookup" => ~periodic /\ Cardinality({hist[i] : i \in DOMAIN hist}) = 1)
  /\ IndexInit
  /\ TruncInit /\ (part # "trunc" => variant = Truncates)
  /\ AdaptiveInit

MCNext ==
  /\ UNCHANGED part
  /\ \/ /\ part = "streams" /\ StreamsNext
        /\ UNCHANGED <<lookupVars, indexVars, truncVars, adaptiveVars>>
     \/ /\ part = "lookup" /\ LookupNext
        /\ UNCHANGED <<streamsVars, indexVars, truncVars, adaptiveVars>>
     \/ /\ part = "index" /\ IndexNext
        /\ UNCHANGED <<streamsVars, lookupVars, truncVars, adaptiveVars>>
     \/ /\ part = "trunc" /\ TruncNext
        /\ UNCHANGED <<streamsVars, lookupVars, indexVars, adaptiveVars>>
     \/ /\ part = "lengths" /\ AdaptiveNext
        /\ UNCHANGED <<streamsVars, lookupVars, indexVars, truncVars>>

MCSpec == MCInit /\ [][MCNext]_<<part, streamsVars, lookupVars, indexVars, truncVars, adaptiveVars>>
=============================================================================
