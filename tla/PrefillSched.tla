---------------------------- MODULE PrefillSched ----------------------------
(***************************************************************************)
(* The decode-friendly prefill scheduler: overlay/glm_prefill_sched.py and *)
(* the loops of vLLM's Scheduler.schedule that its EDITS change.  One call *)
(* of schedule is BeginStep, then one action per request that its running  *)
(* and waiting loops look at, then EndStep.  Up to MaxInFlight steps are   *)
(* with the workers at a time (asynchronous scheduling); Return is the     *)
(* output of the oldest one.                                               *)
(***************************************************************************)
EXTENDS Integers, Sequences, FiniteSets, FiniteSetsExt, SequencesExt

CONSTANTS Reqs,
          Prompt,       \* Prompt[r]: prompt tokens
          Cached,       \* Cached[r]: prompt tokens that the prefix cache may hold
          MaxTokens,    \* MaxTokens[r]: outputs at which r finishes by length
          Unbounded,    \* requests without max_tokens, whose outputs are not counted
          Structured,   \* requests with structured output
          Interval,     \* GLM_PREFILL_CADENCE, or the vendor's interval
          ShortTokens,  \* GLM_PREFILL_SHORT_TOKENS
          WhenQueued,   \* GLM_PREFILL_CADENCE_WHEN_QUEUED
          EndDrain,     \* GLM_END_DRAIN
          Drafts,       \* speculative tokens per decode step
          TokenBudget,  \* max_num_batched_tokens
          MaxRunning,   \* max_num_seqs
          MaxInFlight,  \* steps with the workers
          CanFill       \* whether the KV cache may have no room for a waiting request

ASSUME SchedAssumption ==
  /\ IsFiniteSet(Reqs) /\ Structured \subseteq Reqs /\ Unbounded \subseteq Reqs
  /\ Prompt \in [Reqs -> Nat \ {0}] /\ MaxTokens \in [Reqs -> Nat \ {0}]
  /\ Cached \in [Reqs -> Nat] /\ \A r \in Reqs : Cached[r] < Prompt[r]
  /\ Interval \in Nat \ {0} /\ ShortTokens \in Nat /\ Drafts \in Nat
  /\ MaxRunning \in Nat \ {0} /\ MaxInFlight \in Nat \ {0}
  /\ TokenBudget \in Nat \ {0} /\ ShortTokens < TokenBudget
  /\ {WhenQueued, EndDrain, CanFill} \subseteq BOOLEAN

VARIABLES waiting,      \* the waiting queue
          running,      \* the running requests, in order
          arrived,      \* every request that has arrived, in order
          computed,     \* computed[r]: prompt tokens computed, at most Prompt[r]
          outputs,      \* outputs[r]: num_output_tokens
          placeholders, \* placeholders[r]: num_output_placeholders
          ended,        \* ended[r]: "no", "length" or "stop"
          inflight,     \* the steps with the workers: tokens each may generate
          current,      \* current_step modulo Interval
          latched,      \* prefill_capacity_bound
          phase,        \* "idle", or the loop that schedule is in
          index,        \* req_index
          defer,        \* defer_prefills of this step
          chosen,       \* num_scheduled_tokens of this step
          shortUsed,    \* _glm_short_used
          deferred      \* glm_deferred

requests == <<computed, outputs, placeholders, ended, arrived>>
vars == <<requests, waiting, running, inflight, current, latched,
          phase, index, defer, chosen, shortUsed, deferred>>

Nothing == [r \in Reqs |-> 0]

Init == /\ waiting = <<>> /\ running = <<>> /\ arrived = <<>>
        /\ computed = Nothing /\ outputs = Nothing /\ placeholders = Nothing
        /\ ended = [r \in Reqs |-> "no"]
        /\ inflight = <<>>
        /\ current = 0
        /\ latched = FALSE
        /\ phase = "idle" /\ index = 1 /\ defer = FALSE
        /\ chosen = Nothing /\ shortUsed = 0 /\ deferred = <<>>

IsPrefillChunk(r) == computed[r] < Prompt[r]
Budget == TokenBudget - SumFunction(chosen)
Least(a, b) == IF a < b THEN a ELSE b

-----------------------------------------------------------------------------
(* The helpers of glm_prefill_sched.                                       *)

NeverReleases == Interval > 1       \* mutant: every step is throttled
CadenceThrottles == Interval > 1 /\ current # 0

(* The step in flight may already finish r by length.                      *)
HoldsLate(r) == FALSE               \* mutant: nothing is held
Holds(r) ==
  /\ EndDrain
  /\ ~IsPrefillChunk(r)
  /\ r \notin Structured \cup Unbounded
  /\ placeholders[r] > 0
  /\ outputs[r] + placeholders[r] >= MaxTokens[r]

DeferPrefills(throttle) ==
  /\ throttle
  /\ latched => WhenQueued
  /\ \E r \in ToSet(running) : ~IsPrefillChunk(r) /\ ~Holds(r)

AdmitsAll(remaining) == 0 < remaining /\ remaining < ShortTokens   \* mutant: no budget
AdmitShort(remaining) ==
  0 < remaining /\ remaining < ShortTokens /\ shortUsed + remaining <= ShortTokens

-----------------------------------------------------------------------------
(* The environment.                                                        *)

Arrive(r) ==
  /\ phase = "idle"
  /\ r \notin ToSet(arrived)
  /\ arrived' = Append(arrived, r)
  /\ waiting' = Append(waiting, r)
  /\ UNCHANGED <<computed, outputs, placeholders, ended, running, inflight, current, latched,
                 phase, index, defer, chosen, shortUsed, deferred>>

(* The requests of a queue that have not ended, in order.                  *)
Unfinished(queue, end) ==
  LET kept[n \in 0 .. Len(queue)] ==
        CASE n = 0 -> <<>>
          [] n > 0 /\ end[queue[n]] = "no" -> Append(kept[n - 1], queue[n])
          [] OTHER -> kept[n - 1]
  IN  kept[Len(queue)]

(* The oldest step returns: of the tokens that it could generate for a     *)
(* request, at least one is accepted; a stop token may be among them.      *)
Return ==
  /\ phase = "idle"
  /\ inflight # <<>>
  /\ LET step == Head(inflight)
         out == {r \in Reqs : step[r] > 0 /\ ended[r] = "no"}
         counted == out \ Unbounded
     IN  \E accepted \in [out -> 1 .. Drafts + 1], stop \in SUBSET out :
           /\ \A r \in out : accepted[r] <= step[r]
           /\ outputs' = [r \in Reqs |-> IF r \in counted THEN Least(outputs[r] + accepted[r], MaxTokens[r])
                                         ELSE outputs[r]]
           /\ placeholders' = [r \in Reqs |-> placeholders[r] - (IF r \in out THEN step[r] ELSE 0)]
           /\ ended' = [r \in Reqs |-> CASE r \in counted /\ outputs'[r] = MaxTokens[r] -> "length"
                                         [] r \in stop /\ outputs'[r] < MaxTokens[r] -> "stop"
                                         [] OTHER -> ended[r]]
  /\ inflight' = Tail(inflight)
  /\ running' = Unfinished(running, ended')
  /\ UNCHANGED <<computed, arrived, waiting, current, latched,
                 phase, index, defer, chosen, shortUsed, deferred>>

-----------------------------------------------------------------------------
(* schedule                                                                *)

BeginStep ==
  /\ phase = "idle"
  /\ Len(inflight) < MaxInFlight
  /\ waiting # <<>> \/ running # <<>>
  /\ defer' = DeferPrefills(CadenceThrottles)
  /\ current' = (current + 1) % Interval
  /\ shortUsed' = 0
  /\ phase' = "running"
  /\ UNCHANGED <<requests, waiting, running, inflight, latched, index, chosen, deferred>>

(* Asynchronous scheduling leaves out a request that the step in flight    *)
(* finishes for certain.                                                   *)
SurelyDone(r) == r \notin Unbounded /\ placeholders[r] > 0 /\ outputs[r] + 1 >= MaxTokens[r]

Skip == index' = index + 1 /\ UNCHANGED <<chosen, shortUsed>>

(* The running loop looks at one request.                                  *)
ScheduleRunning ==
  /\ phase = "running"
  /\ index <= Len(running) /\ Budget > 0
  /\ LET r == running[index]
         remaining == Prompt[r] - computed[r]
     IN  IF IsPrefillChunk(r)
         THEN IF defer /\ ~AdmitShort(remaining)
              THEN Skip
              ELSE /\ chosen' = [chosen EXCEPT ![r] = Least(remaining, Budget)]
                   /\ shortUsed' = IF defer THEN shortUsed + remaining ELSE shortUsed
                   /\ index' = index + 1
         ELSE IF Holds(r) \/ SurelyDone(r)
              THEN Skip
              ELSE /\ chosen' = [chosen EXCEPT ![r] = Least(1 + Drafts, Budget)]
                   /\ index' = index + 1
                   /\ UNCHANGED shortUsed
  /\ UNCHANGED <<requests, waiting, running, inflight, current, latched, phase, defer, deferred>>

RunningDone ==
  /\ phase = "running"
  /\ index > Len(running) \/ Budget = 0
  /\ phase' = "waiting"
  /\ UNCHANGED <<requests, waiting, running, inflight, current, latched,
                 index, defer, chosen, shortUsed, deferred>>

MayAdmit == waiting # <<>> /\ Budget > 0 /\ Len(running) < MaxRunning

(* A long prefill on a deferred step is set aside (E27b) ...               *)
SetAsideLast(r) == Append(deferred, r)        \* mutant: the order is turned round
SetAside(r) == <<r>> \o deferred

TooLong(r, c) == defer /\ c < Prompt[r] - 1 /\ ~AdmitShort(Prompt[r] - c)

DeferWaiting ==
  /\ phase = "waiting" /\ MayAdmit
  /\ LET r == Head(waiting)
     IN  /\ \E c \in {0, Cached[r]} : TooLong(r, c)
         /\ IF ShortTokens > 0
            THEN waiting' = Tail(waiting) /\ deferred' = SetAside(r) /\ UNCHANGED phase
            ELSE phase' = "end" /\ UNCHANGED <<waiting, deferred>>
  /\ UNCHANGED <<requests, running, inflight, current, latched, index, defer, chosen, shortUsed>>

(* ... any other waiting request is admitted, if the KV cache has room.    *)
AdmitWaiting ==
  /\ phase = "waiting" /\ MayAdmit
  /\ LET r == Head(waiting)
     IN  \E c \in {0, Cached[r]} :
           /\ ~TooLong(r, c)
           /\ shortUsed' = IF defer /\ c < Prompt[r] - 1 THEN shortUsed + Prompt[r] - c ELSE shortUsed
           /\ chosen' = [chosen EXCEPT ![r] = Least(Prompt[r] - c, Budget)]
           /\ computed' = [computed EXCEPT ![r] = c]
           /\ running' = Append(running, r)
  /\ waiting' = Tail(waiting)
  /\ UNCHANGED <<outputs, placeholders, ended, arrived, inflight, current, latched,
                 phase, index, defer, deferred>>

(* There is room once the requests that end have ended.                    *)
NoRoom ==
  /\ CanFill /\ ToSet(running) \ Unbounded # {}
  /\ phase = "waiting" /\ MayAdmit
  /\ \E c \in {0, Cached[Head(waiting)]} : ~TooLong(Head(waiting), c)
  /\ phase' = "end"
  /\ UNCHANGED <<requests, waiting, running, inflight, current, latched,
                 index, defer, chosen, shortUsed, deferred>>

WaitingDone ==
  /\ phase = "waiting" /\ ~MayAdmit
  /\ phase' = "end"
  /\ UNCHANGED <<requests, waiting, running, inflight, current, latched,
                 index, defer, chosen, shortUsed, deferred>>

(* prepend_requests turns glm_deferred round once more: the requests that  *)
(* were set aside are in front again, in order.                            *)
ForgetDeferred == waiting                     \* mutant: they are not put back
RestoreDeferred == Reverse(deferred) \o waiting

(* Tokens that the step may generate for r: none for a chunk of a prompt,  *)
(* one at the end of a prompt, the drafts and one more in a decode step.   *)
Generates(r) == CASE ~IsPrefillChunk(r) -> chosen[r]
                  [] computed[r] + chosen[r] = Prompt[r] -> 1
                  [] OTHER -> 0

(* The end of schedule, with the asynchronous _update_after_schedule.  The *)
(* latch of the vendor is set or cleared on steps that defer nothing.      *)
EndStep ==
  /\ phase = "end"
  /\ waiting' = RestoreDeferred
  /\ deferred' = <<>>
  /\ latched' \in IF defer THEN {latched} ELSE {FALSE, waiting' # <<>>}
  /\ LET gen == [r \in Reqs |-> IF chosen[r] > 0 THEN Generates(r) ELSE 0]
     IN  /\ placeholders' = [r \in Reqs |-> placeholders[r] + gen[r]]
         /\ inflight' = Append(inflight, gen)
  /\ computed' = [r \in Reqs |-> Least(computed[r] + chosen[r], Prompt[r])]
  /\ phase' = "idle" /\ index' = 1 /\ defer' = FALSE /\ chosen' = Nothing
  /\ UNCHANGED <<outputs, ended, arrived, running, current, shortUsed>>

-----------------------------------------------------------------------------
Schedule == \/ BeginStep \/ ScheduleRunning \/ RunningDone
            \/ DeferWaiting \/ AdmitWaiting \/ NoRoom \/ WaitingDone \/ EndStep

Next == (\E r \in Reqs : Arrive(r)) \/ Return \/ Schedule

Spec == Init /\ [][Next]_vars

(* The engine loop goes on while there are requests, and workers answer.   *)
FairSpec == Spec /\ WF_vars(Schedule) /\ WF_vars(Return)

-----------------------------------------------------------------------------
(* Properties.                                                             *)

(* Every variable has its type.                                            *)
TypeOK ==
  /\ {waiting, running, arrived, deferred} \subseteq Seq(Reqs)
  /\ computed \in [Reqs -> Nat] /\ \A r \in Reqs : computed[r] <= Prompt[r]
  /\ outputs \in [Reqs -> Nat] /\ \A r \in Reqs : outputs[r] <= MaxTokens[r]
  /\ placeholders \in [Reqs -> 0 .. MaxInFlight * (Drafts + 1)]
  /\ ended \in [Reqs -> {"no", "length", "stop"}]
  /\ inflight \in Seq([Reqs -> 0 .. Drafts + 1]) /\ Len(inflight) <= MaxInFlight
  /\ current \in 0 .. Interval - 1
  /\ {latched, defer} \subseteq BOOLEAN
  /\ phase \in {"idle", "running", "waiting", "end"}
  /\ index \in 1 .. Len(running) + 1
  /\ chosen \in [Reqs -> 0 .. TokenBudget] /\ Budget >= 0
  /\ shortUsed \in 0 .. ShortTokens

(* A request that has arrived and not ended is in exactly one queue.       *)
NothingLost ==
  \A r \in Reqs :
    Cardinality({i \in DOMAIN (waiting \o running \o deferred) : (waiting \o running \o deferred)[i] = r})
      = IF r \in ToSet(arrived) /\ ended[r] = "no" THEN 1 ELSE 0

(* Long ones keep waiting in order: between two steps the waiting queue is *)
(* in order of arrival, whatever was admitted past its front.              *)
ArrivedBefore(q, r) == \E k, l \in DOMAIN arrived : k < l /\ arrived[k] = q /\ arrived[l] = r
InOrder(queue) == \A i, j \in DOMAIN queue : i < j => ArrivedBefore(queue[i], queue[j])
WaitInOrder == phase = "idle" => InOrder(waiting)

(* A deferred step spends at most GLM_PREFILL_SHORT_TOKENS on prefills, in *)
(* chunks of running prompts and new prompts together.                     *)
ShortBudget ==
  defer => SumFunctionOnSet(chosen, {r \in Reqs : Prompt[r] - computed[r] > 1}) <= ShortTokens

(* Prefills are deferred only for the sake of decoding: a deferred step    *)
(* schedules a decode.                                                     *)
DeferredStepDecodes ==
  phase = "end" /\ defer => \E r \in Reqs : chosen[r] > 0 /\ ~IsPrefillChunk(r)

(* Both: what a deferral costs the prompts is bounded, and buys a decode.  *)
(* The second needs EndDrain and Structured = {}: the running loop leaves  *)
(* out a request that is SurelyDone, DeferPrefills only one that is held.  *)
DeferralSound == ShortBudget /\ DeferredStepDecodes

(* End drain: when a request finishes by length, no later step with it is  *)
(* in flight.                                                              *)
NoStepWasted ==
  \A r \in Reqs \ Structured : ended[r] = "length" => \A i \in DOMAIN inflight : inflight[i][r] = 0

(* Neither the cadence nor the bypass nor a hold starves anybody, also     *)
(* while a request decodes for ever.                                       *)
EverybodyEnds == \A r \in Reqs \ Unbounded : r \in ToSet(arrived) ~> ended[r] # "no"
=============================================================================
