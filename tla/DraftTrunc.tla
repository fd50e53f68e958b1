----------------------------- MODULE DraftTrunc -----------------------------
(***************************************************************************)
(* Truncation of the scheduled drafts on every worker of a tensor parallel *)
(* group: the hooks of overlay/glm_draft_trunc.py around execute_model and *)
(* propose.  Each rank shortens its own copy of the scheduler's output     *)
(* from the confidences of the draft before, which its device copies to    *)
(* pinned memory at its own pace; a gate puts the decision off by a step.  *)
(* All ranks must run the same shape, since their collectives meet.        *)
(* What the policy makes of given confidences is a choice, the same on     *)
(* every rank.  The device selection of glm_devselect.py is off.           *)
(***************************************************************************)
EXTENDS Integers, Sequences, SequencesExt, FiniteSets

CONSTANTS TruncRanks,    \* ranks; 0 broadcasts
          TruncReqs,     \* requests
          Variants,      \* variants of the A/B harness: on, gate, earlyskip
          Ring,          \* RING: pinned slots of confidences
          MaxBehind,     \* steps that a rank may be behind the scheduler
          MaxTrunc       \* bound: steps

ASSUME TruncAssumption ==
  /\ 0 \in TruncRanks
  /\ Variants \subseteq [on : BOOLEAN, gate : BOOLEAN, early : BOOLEAN] /\ Variants # {}
  /\ Ring \in Nat \ {0} /\ MaxBehind \in Nat \ {0} /\ MaxTrunc \in Nat

None == [draft |-> 0]

VARIABLES variant,   \* of the last scheduled step
          seen,      \* requests scheduled since the last switch
          sent,      \* steps so far; step n ends with draft n
          inbox,     \* inbox[r]: steps that rank r has not executed
          copies,    \* copies[r]: confidences on their way to pinned memory
          pinned,    \* pinned[r]: the slots of the ring
          trunc      \* trunc[r]: the host state of rank r's hooks

truncVars == <<variant, seen, sent, inbox, copies, pinned, trunc>>

(* _W, what the last step did, and the last step with truncation off.      *)
NoHost == [step |-> 0, pend |-> None, unscored |-> None, last |-> None, vLast |-> None, slot |-> 0,
           used |-> None, gated |-> None, shape |-> "full", off |-> 0]

TruncInit ==
  /\ variant \in Variants /\ seen = {} /\ sent = 0
  /\ inbox = [r \in TruncRanks |-> <<>>]
  /\ copies = [r \in TruncRanks |-> <<>>]
  /\ pinned = [r \in TruncRanks |-> [s \in 0 .. Ring - 1 |-> <<>>]]
  /\ trunc = [r \in TruncRanks |-> NoHost]

-----------------------------------------------------------------------------
(* The scheduler's next step goes to every rank: the batch in the runner's *)
(* order, the requests with drafts in the scheduler's, and whether all     *)
(* have equally many and none has a grammar.  Variants change only when    *)
(* no request is left.  `policy` is what the policy decides about the      *)
(* draft that this step verifies: short, or the full shape, or the full    *)
(* shape by a margin that lets the gate skip the next decision.            *)
Orders(S) == {s \in [1 .. Cardinality(S) -> S] : IsInjective(s)}
SchedOrder(S) == CHOOSE s \in Orders(S) : TRUE
Dispatch(v, batch, drafted, uniform, policy) ==
  /\ sent' = sent + 1 /\ variant' = v
  /\ (drafted = {} \/ ~v.on) => uniform          \* where they make no difference
  /\ (drafted = {} \/ ~v.on \/ ~uniform) => policy = "narrow"
  /\ drafted \subseteq ToSet(batch) \cap (IF v = variant THEN seen ELSE {})
  /\ seen' = ToSet(batch) \cup (IF v = variant THEN seen ELSE {})
  /\ inbox' = [r \in TruncRanks |-> Append(inbox[r],
       [n |-> sent + 1, v |-> v, batch |-> batch, spec |-> SchedOrder(drafted),
        uniform |-> uniform, policy |-> policy])]
  /\ UNCHANGED <<copies, pinned, trunc>>

(* The device of a rank copies the confidences of a draft to their slot.   *)
CopyDone(r) ==
  /\ copies[r] # <<>>
  /\ pinned' = [pinned EXCEPT ![r][Head(copies[r]).slot] = Head(copies[r]).conf]
  /\ copies' = [copies EXCEPT ![r] = Tail(@)]
  /\ UNCHANGED <<variant, seen, sent, inbox, trunc>>

-----------------------------------------------------------------------------
(* propose: rank 0's scores are broadcast before they are reduced.         *)
OwnScores(r, n, batch) == [i \in DOMAIN batch |-> <<r, n, batch[i]>>]    \* mutant: no broadcast
Scores(r, n, batch) == [i \in DOMAIN batch |-> <<0, n, batch[i]>>]
OneSlot(i) == 0                              \* mutant: a single pinned buffer
Slot(i) == i % Ring
ProposeScores(r, h, step) ==
  IF ~step.v.on THEN [h EXCEPT !.pend = None, !.off = step.n]
  ELSE [h EXCEPT !.pend = [draft |-> step.n, rids |-> step.batch, slot |-> Slot(h.slot)],
                 !.slot = h.slot + 1]

(* The confidences of draft d for the requests in `live`, once the event   *)
(* behind the copy has fired.                                              *)
Arrived(r, d) == \A i \in DOMAIN copies[r] : copies[r][i].draft # d
Position(d, q) == CHOOSE i \in DOMAIN d.rids : d.rids[i] = q
Score(r, h, d, live, policy) ==
  [h EXCEPT !.used = [draft |-> d.draft, live |-> live,
                      conf |-> [i \in DOMAIN live |->
                        IF Position(d, live[i]) \in DOMAIN pinned[r][d.slot]
                        THEN pinned[r][d.slot][Position(d, live[i])] ELSE <<>>]],
            !.last = [draft |-> d.draft, policy |-> policy]]

(* eligible, and the same skips in truncate.                               *)
Eligible(step, d) == step.spec # <<>> /\ step.uniform /\ ToSet(step.spec) \subseteq ToSet(d.rids)

(* A draft that was gated one step ago is scored first.                    *)
PostHoc(r, h) ==
  IF h.unscored = None THEN h
  ELSE [Score(r, h, h.unscored.of, h.unscored.live, h.unscored.policy) EXCEPT !.unscored = None]

FreshVariant(h, v) ==
  IF v = h.vLast THEN h ELSE [h EXCEPT !.vLast = v, !.unscored = None, !.last = None]

(* The late decision about the pending draft.  The gate keeps the full     *)
(* shape without a wait when the decision before was clear.                *)
Gates(h, step) == step.v.gate /\ h.last # None /\ h.last.policy = "clear" /\ Eligible(step, h.pend)
KeepsLast(h) == h                            \* mutant: a skipped step keeps the old decision
Skip(h) == [h EXCEPT !.last = None]
Decide(r, h, step) ==
  LET d == h.pend
      full == [h EXCEPT !.pend = None]
  IN  CASE d = None -> full
        [] d # None /\ Gates(h, step) ->
             [full EXCEPT !.unscored = [draft |-> d.draft, of |-> d, live |-> step.spec,
                                        policy |-> step.policy],
                          !.gated = [draft |-> d.draft, saw |-> h.last.draft]]
        [] d # None /\ ~Gates(h, step) /\ Eligible(step, d) ->
             [Score(r, full, d, step.spec, step.policy) EXCEPT
               !.shape = IF step.policy = "short" THEN "short" ELSE "full"]
        [] OTHER -> Skip(full)

(* Whether the hook waits for the pending draft: for a decision, and for a *)
(* skip unless GLM_DRAFT_TRUNC_EARLYSKIP.                                  *)
WaitsForPend(h, step) ==
  h.pend # None /\ ~Gates(h, step) /\ (Eligible(step, h.pend) \/ ~step.v.early)

(* execute_model with its hook, and propose at its end.                    *)
ExecuteModel(r) ==
  /\ inbox[r] # <<>>
  /\ LET step == Head(inbox[r])
         begun == [trunc[r] EXCEPT !.step = step.n, !.used = None, !.gated = None, !.shape = "full"]
         h == FreshVariant(begun, step.v)
         scored == PostHoc(r, h)
     IN  \/ /\ ~step.v.on
            /\ trunc' = [trunc EXCEPT ![r] = ProposeScores(r, begun, step)]
            /\ UNCHANGED copies
         \/ /\ step.v.on
            /\ h.unscored # None => Arrived(r, h.unscored.draft)
            /\ WaitsForPend(scored, step) => Arrived(r, scored.pend.draft)
            /\ trunc' = [trunc EXCEPT ![r] = ProposeScores(r, Decide(r, scored, step), step)]
            /\ copies' = [copies EXCEPT ![r] = Append(@,
                 [draft |-> step.n, slot |-> trunc'[r].pend.slot, conf |-> Scores(r, step.n, step.batch)])]
  /\ inbox' = [inbox EXCEPT ![r] = Tail(@)]
  /\ UNCHANGED <<variant, seen, sent, pinned>>

CanDispatch == sent < MaxTrunc /\ \A r \in TruncRanks : Len(inbox[r]) < MaxBehind
TruncNext ==
  \/ /\ CanDispatch
     /\ \E v \in Variants, S \in (SUBSET TruncReqs) \ {{}}, drafted \in SUBSET TruncReqs,
           uniform \in BOOLEAN, policy \in {"short", "narrow", "clear"} :
          \E batch \in Orders(S) : Dispatch(v, batch, drafted, uniform, policy)
  \/ \E r \in TruncRanks : CopyDone(r) \/ ExecuteModel(r)

TruncSpec == TruncInit /\ [][TruncNext]_truncVars

-----------------------------------------------------------------------------
(* "Rank-invariant: every input is the broadcast confidence, scored in the *)
(* same order on every rank; timing never enters a decision": ranks that   *)
(* executed the same step ran the same shape, scored the same draft from   *)
(* the same confidences and will decide alike.                             *)
RanksDecideAlike == \A r, q \in TruncRanks : trunc[r].step = trunc[q].step => trunc[r] = trunc[q]

(* Every request is scored with its own confidences of the draft that is   *)
(* decided, also when its slot was left unread for a step, requests left   *)
(* the batch or the orders differ.                                         *)
OwnConfidences == \A r \in TruncRanks : LET u == trunc[r].used IN
  u # None => \A i \in DOMAIN u.live : u.conf[i] = <<0, u.draft, u.live[i]>>

(* "the gate always sees the policy's decision for the previous draft",    *)
(* unless a step with truncation off came in between: such a step leaves   *)
(* the last decision as it is.                                             *)
GateSeesPrevious == \A r \in TruncRanks : LET g == trunc[r].gated IN
  g # None => g.saw = g.draft - 1 \/ g.saw < trunc[r].off
=============================================================================
