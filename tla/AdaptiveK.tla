----------------------------- MODULE AdaptiveK -----------------------------
(***************************************************************************)
(* Adaptive draft lengths: overlay/adaptive_k_scheduler.py, on top of      *)
(* vLLM's AsyncScheduler, which schedules one step ahead of the outputs    *)
(* that it receives.  Each step verifies the drafts that the step before   *)
(* it handed out as placeholders; the policy replaces the placeholders of  *)
(* the base scheduler, and learns from the outputs of its own ones.        *)
(*                                                                         *)
(* The moving average of a request is abstracted to where it lies with     *)
(* respect to the two thresholds.                                          *)
(***************************************************************************)
EXTENDS Integers, Sequences, FiniteSets, SequencesExt

CONSTANTS Reqs,
          KLo, KHi,      \* draft lengths of the low and of the high state
          NumSpec,       \* what the engine drafts: num_speculative_tokens
          Seed,          \* where VLLM_ADAPTIVE_K_SEED lies: the average of a new request
          Uniform,       \* VLLM_ADAPTIVE_K_MODE=batch-uniform
          Table,         \* num_speculative_tokens_per_batch_size is given
          MaySkip,       \* a step may leave out a running request
          MaxInFlight    \* the engine's batch queue

Zones == {"low", "between", "high"}

ASSUME AdaptiveKAssumption ==
  /\ IsFiniteSet(Reqs)
  /\ KLo \in Nat \ {0} /\ KHi \in Nat /\ NumSpec \in Nat
  /\ KLo <= KHi /\ KHi <= NumSpec /\ Seed \in Zones
  /\ {Uniform, Table, MaySkip} \subseteq BOOLEAN
  /\ MaxInFlight \in Nat \ {0}

VARIABLES status,   \* "new", "prefill", "running", "preempted", "finished", "gone"
          spec,     \* spec[r]: the placeholders of r, and whether the policy sized them
          steps,    \* steps in flight: the drafts each verifies, per request
          ring,     \* DraftedRing
          state,    \* AdaptiveKPolicy._state: of the requests that it tracks
          stale,    \* stale[r]: outputs in flight when r was preempted
          failed,   \* _ak_failed
          missed    \* not observed in the last report although the drafts were the policy's

adaptiveVars == <<status, spec, steps, ring, state, stale, failed, missed>>

NoDrafts == [n |-> 0, own |-> FALSE]
Lengths == [n : 0 .. NumSpec, own : BOOLEAN]
Slots == 3

(* In self.requests and not finished; a finished request may stay there    *)
(* until its blocks are freed.                                             *)
Live == {r \in Reqs : status[r] \in {"prefill", "running", "preempted"}}

AdaptiveInit ==
  /\ status = [r \in Reqs |-> "new"]
  /\ spec = [r \in Reqs |-> NoDrafts]
  /\ steps = <<>>
  /\ ring = <<>>
  /\ state = [r \in {} |-> 0]
  /\ stale = [r \in Reqs |-> 0]
  /\ failed = FALSE
  /\ missed = {}

-----------------------------------------------------------------------------
(* The policy.                                                             *)

KFor(zone, current) == CASE zone = "high" -> KHi
                         [] zone = "low" -> KLo
                         [] OTHER -> current

(* _get: an unknown request starts with the seed, and high unless the seed *)
(* is low.                                                                 *)
ReqState(r) == IF r \in DOMAIN state THEN state[r] ELSE [zone |-> Seed, k |-> KFor(Seed, KHi)]
DecideOne(r) == KFor(ReqState(r).zone, ReqState(r).k)
DecideBatch(rs) == IF \A r \in rs : DecideOne(r) = KHi THEN KHi ELSE KLo

With(st, rs, f(_)) == [r \in DOMAIN st \cup rs |-> IF r \in rs THEN f(r) ELSE st[r]]

(* assign_lengths, and placeholder_len.                                    *)
EachItsOwn(rs, r) == DecideOne(r)            \* mutant: the mode is ignored
AssignLength(rs, r) ==
  LET k == IF Uniform THEN DecideBatch(rs) ELSE DecideOne(r)
  IN  IF k < NumSpec THEN k ELSE NumSpec

LastOnly(rs) == <<rs>>                       \* mutant: only the last hand-out is kept
PushRing(rs) == IF Len(ring) < Slots THEN Append(ring, rs) ELSE Append(Tail(ring), rs)
Drafted == UNION Range(ring)

(* _free_request: the policy forgets the request, for good.                *)
Evict(rs, st) == [r \in DOMAIN st \ rs |-> st[r]]

-----------------------------------------------------------------------------
(* Requests come and go.                                                   *)

Arrive(r) ==
  /\ status[r] = "new"
  /\ status' = [status EXCEPT ![r] = "prefill"]
  /\ UNCHANGED <<spec, steps, ring, state, stale, failed, missed>>

Abort(r) ==
  /\ r \in Live
  /\ \E s \in {"finished", "gone"} : status' = [status EXCEPT ![r] = s]
  /\ state' = Evict({r}, state)
  /\ spec' = [spec EXCEPT ![r] = NoDrafts]
  /\ UNCHANGED <<steps, ring, stale, failed, missed>>

BlocksFreed(r) ==
  /\ status[r] = "finished"
  /\ status' = [status EXCEPT ![r] = "gone"]
  /\ UNCHANGED <<spec, steps, ring, state, stale, failed, missed>>

Preempt(r) ==
  /\ status[r] = "running"
  /\ status' = [status EXCEPT ![r] = "preempted"]
  /\ spec' = [spec EXCEPT ![r] = NoDrafts]
  /\ stale' = [stale EXCEPT ![r] = Cardinality({i \in DOMAIN steps : r \in DOMAIN steps[i]})]
  /\ UNCHANGED <<steps, ring, state, failed, missed>>

-----------------------------------------------------------------------------
(* schedule and _update_after_schedule.  S is scheduled; chunks are the    *)
(* requests of S whose prompt is not complete after this step.             *)

(* Drafts that a step verifies for r.  A request that resumes is padded by *)
(* the base scheduler to look like the others, unless there is a table.    *)
Drafts(r) == CASE status[r] = "running" -> spec[r]
               [] status[r] = "preempted" /\ ~Table -> [n |-> NumSpec, own |-> FALSE]
               [] OTHER -> NoDrafts

Scheduled(S, chunks) ==
  /\ S \subseteq Live /\ S # {}
  /\ chunks \subseteq {r \in S : status[r] = "prefill"}
  /\ MaySkip \/ \A r \in Live : status[r] = "running" => r \in S
  /\ Len(steps) < MaxInFlight
  /\ steps' = Append(steps, [r \in S |-> Drafts(r)])
  /\ status' = [r \in Reqs |-> IF r \in S \ chunks THEN "running" ELSE status[r]]

(* The base hands out as many placeholders as the engine drafts, or as the *)
(* table says; filter_candidates takes the requests that got some, and the *)
(* policy gives each its length.                                           *)
Sized(S, chunks) ==
  LET rs == S \ chunks
  IN  /\ ring' = PushRing(rs)
      /\ state' = With(state, rs, LAMBDA r : [zone |-> ReqState(r).zone, k |-> DecideOne(r)])
      /\ spec' = [r \in Reqs |-> IF r \in rs THEN [n |-> AssignLength(rs, r), own |-> TRUE]
                                 ELSE spec[r]]

BaseOnly(S, chunks) ==
  /\ \E n \in (IF Table THEN {KLo, KHi} ELSE {NumSpec}) :
       spec' = [r \in Reqs |-> IF r \in S \ chunks THEN [n |-> n, own |-> FALSE] ELSE spec[r]]
  /\ UNCHANGED state

ScheduleSized ==
  /\ ~failed
  /\ \E S, chunks \in SUBSET Live : Scheduled(S, chunks) /\ Sized(S, chunks)
  /\ UNCHANGED <<stale, failed, missed>>

(* An exception in the policy, and every step after it.  Nothing reads the *)
(* hand-outs any more.                                                     *)
ScheduleAsBase ==
  /\ failed' = TRUE /\ ring' = <<>>
  /\ \E S, chunks \in SUBSET Live : Scheduled(S, chunks) /\ BaseOnly(S, chunks)
  /\ UNCHANGED <<stale, missed>>

-----------------------------------------------------------------------------
(* update_from_output of the oldest step.                                  *)

(* should_observe, for a request of the step with a generated token.       *)
ObservesFinished(r, step) == step[r].n > 0 /\ r \in Drafted /\ stale[r] = 0    \* mutant
ShouldObserve(r, step) ==
  /\ status[r] \notin {"finished", "gone"}
  /\ step[r].n > 0
  /\ r \in Drafted
  /\ stale[r] = 0

(* The base scheduler's own part: the requests in fin finish on what they  *)
(* generated, those in held keep their blocks for a while.                 *)
Finishes(step, fin, held) ==
  /\ status' = [r \in Reqs |-> IF r \in held THEN "finished"
                               ELSE IF r \in fin THEN "gone" ELSE status[r]]
  /\ spec' = [r \in Reqs |-> IF r \in fin THEN NoDrafts ELSE spec[r]]
  /\ stale' = [r \in Reqs |-> IF r \in DOMAIN step /\ stale[r] > 0 THEN stale[r] - 1
                              ELSE stale[r]]
  /\ steps' = Tail(steps)

(* Outputs of the requests in gen; a failed policy, or a failed transfer   *)
(* of KV blocks, skips the observation of the whole step.  Where an        *)
(* average lies after an observation depends on how many drafts were       *)
(* accepted and on alpha: anywhere.                                        *)
Observe(obs, zone) == With(state, obs, LAMBDA r : [ReqState(r) EXCEPT !.zone = zone[r]])
Outcome(step, gen, skip, fin) ==
  LET obs == {r \in gen : ~skip /\ ShouldObserve(r, step)}
      due == {r \in gen \cap Live : ~skip /\ stale[r] = 0 /\ step[r].n > 0}
  IN  /\ \E zone \in [obs -> Zones] : state' = Evict(fin, Observe(obs, zone))
      /\ missed' = {r \in due : step[r].own} \ obs
Report ==
  /\ steps # <<>>
  /\ \E gen \in SUBSET DOMAIN Head(steps), skip \in {failed, TRUE} :
       \E fin \in SUBSET (gen \cap Live) : \E held \in {{}, fin} :
         Outcome(Head(steps), gen, skip, fin) /\ Finishes(Head(steps), fin, held)
  /\ UNCHANGED <<failed, ring>>

(* An exception in the policy after it has observed some of the requests;  *)
(* the averages are not read again.                                        *)
Touch(obs) == With(state, obs, LAMBDA r : ReqState(r))
ReportRaises ==
  /\ steps # <<>> /\ ~failed
  /\ \E gen \in SUBSET DOMAIN Head(steps) :
       \E fin \in SUBSET (gen \cap Live) : \E held \in {{}, fin} :
         /\ \E obs \in SUBSET {r \in gen : ShouldObserve(r, Head(steps))} :
              state' = Evict(fin, Touch(obs))
         /\ Finishes(Head(steps), fin, held)
  /\ failed' = TRUE /\ ring' = <<>> /\ missed' = {}

-----------------------------------------------------------------------------
AdaptiveNext ==
  \/ \E r \in Reqs : Arrive(r) \/ Abort(r) \/ BlocksFreed(r) \/ Preempt(r)
  \/ ScheduleSized \/ ScheduleAsBase \/ Report \/ ReportRaises

AdaptiveSpec == AdaptiveInit /\ [][AdaptiveNext]_adaptiveVars

-----------------------------------------------------------------------------
(* Properties.                                                             *)

(* Every variable has its type; no request is handed more drafts than the  *)
(* engine makes.                                                           *)
AdaptiveTypeOK ==
  /\ status \in [Reqs -> {"new", "prefill", "running", "preempted", "finished", "gone"}]
  /\ spec \in [Reqs -> Lengths]
  /\ Len(steps) <= MaxInFlight
  /\ \A i \in DOMAIN steps : \A r \in DOMAIN steps[i] : r \in Reqs /\ steps[i][r] \in Lengths
  /\ Len(ring) <= Slots /\ \A i \in DOMAIN ring : ring[i] \subseteq Reqs
  /\ \A r \in DOMAIN state : state[r].zone \in Zones /\ state[r].k \in {KLo, KHi}
  /\ stale \in [Reqs -> 0 .. MaxInFlight]
  /\ failed \in BOOLEAN
  /\ missed \subseteq Reqs

(* The policy tracks no request that has ended: an output that arrives     *)
(* after the end does not bring its state back.                            *)
NoLeak == DOMAIN state \subseteq Live

(* The hand-outs that are kept suffice: although steps are reported late,  *)
(* no result of the policy's own drafts is missed.                         *)
NothingMissed == missed = {}

(* Batch-uniform mode: the requests of a step that were in the step before *)
(* it too, and so got their drafts in one hand-out, verify one length,     *)
(* also when one of them was left out earlier.                             *)
UniformHandOuts ==
  Uniform /\ ~failed =>
    \A i \in 2 .. Len(steps) : \A r, q \in DOMAIN steps[i - 1] \cap DOMAIN steps[i] :
      steps[i][r].n > 0 /\ steps[i][q].n > 0 => steps[i][r].n = steps[i][q].n

(* Batch-uniform mode: every step is uniform.                              *)
UniformSteps ==
  Uniform /\ ~failed =>
    \A i \in DOMAIN steps : \A r, q \in DOMAIN steps[i] :
      steps[i][r].n > 0 /\ steps[i][q].n > 0 => steps[i][r].n = steps[i][q].n
=============================================================================
