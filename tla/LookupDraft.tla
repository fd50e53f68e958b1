---------------------------- MODULE LookupDraft -----------------------------
(***************************************************************************)
(* Lookup drafting for one request: the planner of the engine core         *)
(* (overlay/glm_lookup_draft.py) and the worker that executes its plans    *)
(* (overlay/glm_lookup_hooks.py), some steps behind.  A plan is made from  *)
(* the tokens the host knows; the worker checks it against the tokens it   *)
(* has by then, and the host repeats that check when the step's output is  *)
(* there, to learn whose draft was verified.                               *)
(* Which earlier occurrence is followed is the subject of ContextIndex,    *)
(* and the gate between the drafts is a choice.  The scheduler, preemption *)
(* and the model are external.                                             *)
(***************************************************************************)
EXTENDS Integers, Sequences, FiniteSets, FiniteSetsExt

CONSTANTS Vocab,         \* token ids
          Families,      \* draft lengths with captured graphs
          MinAgree,      \* GLM_LOOKUP_MIN_AGREE
          MaxDelta,      \* GLM_LOOKUP_MAX_DELTA
          IngestBudget,  \* GLM_LOOKUP_INGEST_BUDGET
          PlanCap,       \* plans kept for a request
          MaxQueued,     \* steps with the workers
          MaxPlanned,    \* bound: schedules
          MaxTokens,     \* bound: tokens of the request
          MaxEvents      \* bound: preemptions and switches

ASSUME LookupAssumption ==
  /\ Families \subseteq Nat \ {0} /\ Families # {} /\ IsFiniteSet(Families) /\ MinAgree \in Nat \ {0}
  /\ {MaxDelta, IngestBudget, PlanCap, MaxQueued} \subseteq Nat \ {0}
  /\ {MaxPlanned, MaxTokens, MaxEvents} \subseteq Nat

EngineK == Max(Families)
NoShadow == [src |-> -1, lhost |-> -1]
NoVerdict == [host |-> "none", device |-> "none", sure |-> FALSE, clean |-> TRUE]

VARIABLES lookup,    \* "off", "shadow" or "on"
          periodic,  \* GLM_LOOKUP_PERIODIC
          hist,      \* request.all_token_ids
          indexed,   \* length of the request's index
          lkPlans,   \* plans whose draft is not verified yet
          streak,    \* the last lookup step landed every draft
          lkSeq,     \* _lk_seq
          held,      \* placeholders for the next step: len(spec_token_ids)
          fresh,     \* the next step computes the prompt (again)
          todo,      \* steps that the worker has not executed
          outs,      \* outputs that the engine core has not processed
          dev,       \* the device's committed tokens, total_len of them
          drafted,   \* draft_tokens, and where they come from
          events,    \* preemptions and switches so far
          verdict    \* the last attribution, beside what happened

planner == <<lkPlans, streak, indexed>>
flight == <<todo, outs>>
lookupVars == <<lookup, periodic, hist, planner, lkSeq, held, fresh, flight, dev, drafted,
                events, verdict>>

LookupInit ==
  /\ lookup = "on" /\ periodic \in BOOLEAN
  /\ hist \in [1 .. MinAgree + 1 -> Vocab]
  /\ indexed = 0 /\ lkPlans = {} /\ streak = FALSE /\ lkSeq = 0
  /\ held = 0 /\ fresh = TRUE /\ todo = <<>> /\ outs = <<>>
  /\ dev = <<>> /\ drafted = [kind |-> "neural", ids |-> <<>>]
  /\ events = 0 /\ verdict = NoVerdict

-----------------------------------------------------------------------------
(* Positions count from 0, as in the code.                                 *)
At(s, i) == s[i + 1]
Smaller(m, n) == IF m < n THEN m ELSE n

(* Earlier sites that agree with the end of the history.                   *)
Sources == {s \in MinAgree .. Len(hist) - 1 :
  \A i \in 1 .. MinAgree : At(hist, s - i) = At(hist, Len(hist) - i)}

(* The copy continued while the plan was in flight: the kernel's check on  *)
(* the device and replay_check on the host.                                *)
Continues(s, length, src, lhost) ==
  /\ 0 <= length - lhost /\ length - lhost <= MaxDelta
  /\ 0 <= src /\ src < lhost
  /\ \A i \in 0 .. length - lhost - 1 : At(s, lhost + i) = At(s, src + i)
NoCompare(s, sh) == sh.src >= 0                  \* mutant: the device compares nothing
DeviceCheck(s, sh) == Continues(s, Len(s), sh.src, sh.lhost)
ReplayCheck(s, sh) == Continues(s, Len(s), sh.src, sh.lhost)

(* The draft of a row that passed, in the kernel and in lookup_draft.      *)
(* Without GLM_LOOKUP_PERIODIC it ends where the history does, and older   *)
(* ids stay behind it.                                                     *)
Period(sh) == sh.lhost - sh.src
Offsets(sh, k) == IF periodic THEN [j \in 1 .. k |-> (j - 1) % Period(sh)]
                  ELSE [j \in 1 .. Smaller(k, Period(sh)) |-> j - 1]
NoDelta(s, sh, k) ==                             \* mutant: continues from the plan's end
  [j \in DOMAIN Offsets(sh, k) |-> At(s, sh.src + Offsets(sh, k)[j])]
KernelIds(s, sh, k) ==
  [j \in DOMAIN Offsets(sh, k) |-> At(s, sh.src + Len(s) - sh.lhost + Offsets(sh, k)[j])]
LookupIds(s, sh, k) ==
  [j \in DOMAIN Offsets(sh, k) |-> At(s, sh.src + Len(s) - sh.lhost + Offsets(sh, k)[j])]

-----------------------------------------------------------------------------
(* A schedule: the step takes the placeholders of the one before, the plan *)
(* is for the draft at its end, and resizes the placeholders.  The draft   *)
(* model keeps its turn for any reason (a batch of several requests, no    *)
(* match, the gate; the shadow of such a plan only feeds the statistics),  *)
(* and is skipped only after a lookup step that landed every draft.  That  *)
(* is the default GLM_LOOKUP_SKIP_STREAK; without it, and in the modes     *)
(* that tests force, which are not modelled, any lookup step may skip.     *)
Caught(n) == Smaller(indexed + IngestBudget, n)
Modes(sh) ==
  IF sh = NoShadow THEN {"neural"}
  ELSE {"override"} \cup (IF streak THEN {"skip"} ELSE {})
Newest(S) == {p \in S : Cardinality({q \in S : q.seq > p.seq}) < PlanCap}
Placeholders(k, kPolicy) == k
Schedule(kPolicy, k, mode, sh) ==
  /\ Len(todo) + Len(outs) < MaxQueued /\ lkSeq < MaxPlanned
  /\ sh # NoShadow => lookup = "on" /\ Caught(Len(hist)) = Len(hist)
  /\ mode \in Modes(sh) /\ (mode = "neural" => k = kPolicy)
  /\ lkSeq' = lkSeq + 1
  /\ indexed' = IF lookup = "off" THEN indexed ELSE Caught(Len(hist))
  /\ lkPlans' = IF lookup = "off" THEN lkPlans
       ELSE Newest(lkPlans \cup {[seq |-> lkSeq', mode |-> mode, shadow |-> sh, prefill |-> fresh]})
  /\ todo' = Append(todo,
       [seq |-> lkSeq', k |-> held, prefill |-> fresh, base |-> IF fresh THEN hist ELSE <<>>,
        row |-> [mode |-> mode, src |-> sh.src, lhost |-> sh.lhost, k |-> IF mode = "neural" THEN 0 ELSE k],
        stale |-> FALSE])
  /\ held' = Placeholders(k, kPolicy) /\ fresh' = FALSE
  /\ verdict' = NoVerdict
  /\ UNCHANGED <<lookup, periodic, hist, streak, outs, dev, drafted, events>>

-----------------------------------------------------------------------------
(* The worker.  A draft is accepted as far as the model agrees, and the    *)
(* model's next token follows; ids past the end of a lookup draft, and ids *)
(* of the draft model, may agree or not.                                   *)
Agrees(gen, k) ==
  /\ Len(gen) <= k + 1
  /\ \A j \in 1 .. Smaller(Len(gen) - 1, Len(drafted.ids)) : gen[j] = drafted.ids[j]
  /\ Len(gen) <= k /\ Len(gen) <= Len(drafted.ids) => gen[Len(gen)] # drafted.ids[Len(gen)]

(* propose: a plan may skip the draft model when no row is a prefill.      *)
Skips(step) == step.row.mode = "skip" /\ ~step.prefill
Propose(step, s) ==
  IF step.row.mode # "neural" /\ DeviceCheck(s, step.row)
  THEN [kind |-> "lookup", ids |-> KernelIds(s, step.row, step.row.k)]
  ELSE [kind |-> IF Skips(step) THEN "junk" ELSE "neural", ids |-> <<>>]

WorkerStep(gen) ==
  /\ todo # <<>>
  /\ LET step == Head(todo)
         before == IF step.prefill THEN step.base ELSE dev
     IN  /\ IF step.k = 0 THEN Len(gen) = 1 ELSE Agrees(gen, step.k)
         /\ Len(before \o gen) <= MaxTokens
         /\ dev' = before \o gen
         /\ drafted' = Propose(step, before \o gen)
         /\ outs' = Append(outs, [seq |-> step.seq, k |-> step.k, gen |-> gen,
                                  device |-> drafted.kind, stale |-> step.stale])
  /\ todo' = Tail(todo)
  /\ verdict' = NoVerdict
  /\ UNCHANGED <<lookup, periodic, hist, planner, lkSeq, held, fresh, events>>

-----------------------------------------------------------------------------
(* classify, before the output's tokens are appended: the plan of the      *)
(* request's schedule before this one made the draft.                      *)
Older(seq) == {p \in lkPlans : p.seq < seq}
Latest(S) == CHOOSE p \in S : \A q \in S : q.seq <= p.seq
Source(rec, ok) == CASE rec.mode # "neural" /\ ok -> "lookup"
                     [] rec.mode = "skip" /\ ~ok  -> "junk"
                     [] OTHER                     -> "neural"

(* _account: on a lookup step the accepted count must be the common prefix *)
(* of the draft and the tokens that followed.                              *)
CommonPrefix(ids, gen) ==
  Max({n \in 0 .. Smaller(Len(ids), Len(gen)) : \A j \in 1 .. n : ids[j] = gen[j]})
Accounted(sh, k, gen) ==
  LET ids == LookupIds(hist, sh, EngineK)
      lcp == CommonPrefix(ids, gen)
      firm == Smaller(k, Len(ids))
      accepted == Len(gen) - 1
  IN  IF lcp < firm THEN accepted = lcp ELSE firm <= accepted /\ accepted <= k

ClassifyAndObserve(out) ==
  LET rec == Latest(Older(out.seq))
      ok == rec.shadow # NoShadow /\ indexed >= Len(hist) /\ ReplayCheck(hist, rec.shadow)
      source == Source(rec, ok)
  IN  /\ lkPlans' = lkPlans \ Older(out.seq)
      /\ indexed' = Caught(Len(hist \o out.gen))
      /\ streak' = IF source = "neural" THEN streak
                   ELSE source = "lookup" /\ Len(out.gen) - 1 >= out.k
      /\ verdict' = [host |-> source, device |-> out.device,
                     sure |-> indexed >= Len(hist) /\ ~rec.prefill,
                     clean |-> source = "lookup" => Accounted(rec.shadow, out.k, out.gen)]

(* update_from_output.  Outputs from before a preemption are dropped, and  *)
(* steps without drafts are not attributed.                                *)
UpdateFromOutput ==
  /\ outs # <<>>
  /\ LET out == Head(outs)
         attributed == ~out.stale /\ out.k > 0 /\ lookup # "off" /\ Older(out.seq) # {}
     IN  /\ hist' = IF out.stale THEN hist ELSE hist \o out.gen
         /\ \/ attributed /\ ClassifyAndObserve(out)
            \/ ~attributed /\ UNCHANGED planner /\ verdict' = NoVerdict
  /\ outs' = Tail(outs)
  /\ UNCHANGED <<lookup, periodic, lkSeq, held, fresh, todo, dev, drafted, events>>

(* The request loses its blocks; what is in flight for it becomes stale.   *)
Stale(q) == [i \in DOMAIN q |-> [q[i] EXCEPT !.stale = TRUE]]
Preempted ==
  /\ ~fresh /\ fresh' = TRUE /\ held' = 0
  /\ events < MaxEvents /\ events' = events + 1
  /\ todo' = Stale(todo) /\ outs' = Stale(outs)
  /\ verdict' = NoVerdict
  /\ UNCHANGED <<lookup, periodic, hist, planner, lkSeq, dev, drafted>>

(* The control file switches it live; "off" drops the planner.             *)
LookupSwitch(m) ==
  /\ m # lookup /\ lookup' = m
  /\ events < MaxEvents /\ events' = events + 1
  /\ IF m = "off" THEN lkPlans' = {} /\ streak' = FALSE /\ indexed' = 0 ELSE UNCHANGED planner
  /\ verdict' = NoVerdict
  /\ UNCHANGED <<periodic, hist, lkSeq, held, fresh, flight, dev, drafted>>

Texts == UNION {[1 .. n -> Vocab] : n \in 1 .. EngineK + 1}
LookupNext ==
  \/ \E kPolicy \in Families, k \in Families, mode \in {"neural", "override", "skip"} :
       \E sh \in {NoShadow} \cup {[src |-> s, lhost |-> Len(hist)] : s \in Sources} :
         Schedule(kPolicy, k, mode, sh)
  \/ \E gen \in Texts : WorkerStep(gen)
  \/ UpdateFromOutput \/ Preempted
  \/ \E m \in {"off", "shadow", "on"} : LookupSwitch(m)

LookupSpec == LookupInit /\ [][LookupNext]_lookupVars

-----------------------------------------------------------------------------
(* "attributes each step to lookup / neural / junk (skip with a failed     *)
(* check) exactly": whatever was in flight, switched or preempted, the     *)
(* host finds out whose draft a step verified.                             *)
AttributionExact == verdict.host # "none" => verdict.host = verdict.device

(* The same, where the draft was made by a decode step and the index has   *)
(* the history that the device had: a step that ends a prefill never skips *)
(* the draft model, and an output that is not attributed is not indexed.   *)
DecodeAttribution == verdict.sure => AttributionExact

(* "Accounting check (counted, never silent)": no lookup step is counted   *)
(* as a mismatch.                                                          *)
AccountingClean == verdict.clean
=============================================================================
