# A formal model of the GLM-5.3-Flash TP4 serving overlay

The repository serves GLM-5.3-Flash on four DGX Sparks with vLLM, tensor
parallel over the four machines. It does not change vLLM itself: an overlay
replaces functions of vLLM when they are imported (`overlay/`), and RoCEnante
(`roce/`) replaces NCCL's all-reduce and all-gather by one-shot collectives over
RDMA. This directory holds TLA+ modules for the parts of it whose correctness
depends on order, concurrency and failure, TLC configurations that check them on
small instances, and TLAPS proofs of what holds for every size.

Source references are relative to the repository (`src/` in `PROJECT.json`).
The RoCEnante runtime is `roce/b12x/b12x/comm/roce/`; its files are named
without that prefix below.

## 1. Inventory

| Part | State | Operations | Works with |
|---|---|---|---|
| One-shot collective: kernel (`_oneshot_cute.py`, `_cute_intrinsics.py`), proxy thread (`_roce_proxy.c`), host (`roce_oneshot.py`) | epoch, poison and error words, arrival counters, two send and receive slots, flags per HCA, doorbell and sizes, the proxy's position, queue pairs | launch, stage, ring, post, write, wait, reduce, publish, time out, fail, stop, restart, close | the other ranks' memory through RDMA; the host polls the words |
| Start-up (`roce/glm_roce/adapter.py`, constructor of `roce_oneshot.py`) | the place of each rank in a fixed sequence of gathers, its proxy | vote, create the proxy, exchange, connect, prepare, agree, give up | all ranks, through gloo's `all_gather_object` |
| Host launches (`roce_oneshot.py`) | last stream and its event, capture id and stream, shared scratch | `all_reduce`, `all_gather`, `capture` | CUDA streams and graphs; the collective takes their order for granted |
| Prefill scheduling (`overlay/glm_prefill_sched.py`, installed by `glm_prefill_hooks.py`) | cadence counter, latch, deferred queue, short budget; vLLM's waiting and running queues | schedule with cadence, short bypass, end drain, release, idle coalescing | vLLM's asynchronous scheduler, two steps in flight |
| Adaptive draft length (`overlay/adaptive_k_scheduler.py`) | moving average and length per request, ring of hand-outs, placeholders | decide, hand out, observe, evict, switch off | the asynchronous scheduler; outputs return one step late |
| Draft length of the step, live policies (`adaptive_draft_scheduler.py`, `spec_probe_scheduler.py`, `glm_levers_sched.py`) | policy file, per-request overrides | read, decide | subclass of the above |
| Draft truncation, device selection (`glm_draft_trunc.py`, `glm_devselect.py`) | confidences, cost table, predicates of a parent graph | choose a verify shape, roll back | worker and scheduler |
| Lookup drafting (`glm_lookup_draft.py`, `glm_lookup_hooks.py`) | index of committed tokens, plans | index, plan, overwrite drafts | scheduler to workers |
| Prefix cache and recurrent state (`kv_cache_coordinator.py`, `glm_mamba_align_fix.py`, `mamba_hybrid.py`, `kda_stash.py`) | block hashes per group, state slots | find the longest hit, allocate, split chunks, stash and restore | vLLM's block pool |
| Early planning (`glm_early_plan.py`, `glm_kv_lens_exact.py`) | rings of host copies, lagging mirror | copy, plan, fall back | asynchronous scheduling |
| A/B in one boot (`glm_ab.py`) | active variant, graph sets | switch, capture, replay | every rank |
| Sampling (`rejection_sampler_utils.py`, `gumbel.py`, `glm_gumbel_coupled.py`, `glm_target_argmax.py`, `glm_cert_head.py`) | none between steps | accept, resample, certify | numerics |
| Parsers (`abstract_parser.py`, `glm47_moe.py`) | stream state | deltas of reasoning and tool calls | API server |
| Installation (`roce/glm_roce/install.py`, `boot.py`, `overlay/sitecustomize.py`, `glm_*_hooks.py`) | which functions are replaced | patch, verify | import time |
| Model and kernels (`glm5next_*.py`, `mla_indexer.py`, CUDA and Triton sources) | tensors | arithmetic | numerics |
| Operations (`start.sh`, `scripts/`), benchmarks (`bench/`) | files, containers | sync, launch, stop, measure | shell and HTTP |

What is hard here. The one-shot collective is a lock-free protocol between GPU
blocks, a CPU thread, NICs and three other machines, with two slots and no
acknowledgement: its safety rests on how far ranks can run ahead of each other.
Start-up has no coordinator; a rank that decides alone strands the others.
Streams and captured graphs may reorder what the host launches. Both schedulers
work on counts that are one step old, because outputs return while the next step
runs, and the workers plan lengths, shapes and drafts from copies that the device
has made a step or two before. The recurrent state has no history: a request that
starts a step from the state of other tokens is wrong from there on, silently. `PROJECT.json` lists each hazard with its line under `hazards`.

## 2. Modules

| Module | Models | Checked by |
|---|---|---|
| `RoceGeometry` | grid of a launch, share of a block, stripes of an HCA (pure functions) | through `RoceOneshot` |
| `RoceOneshot` | kernel blocks, proxy threads, RDMA writes and hosts of all ranks | `RoceHealthy`, `RoceThree`, `RoceFaults`, `RoceNobodyHangs` |
| `Collective` | what a collective promises: a rank completes the n-th one only when all have contributed to it | `Implements` in `RoceFaults` |
| `RoceSetup` | vote, exchanges, agreement, killed processes | `SetupFailures`, `SetupEarlyFailure` |
| `RoceStreams` | host launches, events, scratch, captures, replays; streams that run concurrently | `HostAhead`, `StreamsScratch` |
| `LookupDraft` | one request's plans, their execution some steps later, and their attribution | `HostAhead` |
| `ContextIndex` | the n-gram index that plans are made from | `HostAhead` |
| `PrefillSched` | one scheduling step as running loop, waiting loop and end, with steps in flight | `SchedQueues` |
| `AdaptiveK` | hand-outs, ring, observation, eviction | `HostAhead`, `DraftsSkipped` |
| `PrefixHit` | the loop over the KV cache groups that finds the longest hit | `WorkerStart` |
| `KdaState` | a request's recurrent state through chunks, verify steps, plain decodes, preemption and prefix hits | `WorkerStart`, `StateTrimmed` |
| `KdaStash` | the verify kernel's records between the programs of one launch and of the next ones | `WorkerStart` |
| `ExactLens` | the two mirrors of the device's token counts | `WorkerStart` |
| `DraftTrunc` | the truncation hooks of every rank | `HostAhead` |
| `RoceInvariant` | the inductive invariant of `RoceOneshot` (definitions only) | TLC before it was proved, then TLAPS |
| `RoceOneshotProofs`, `RoceDataProofs` | theorems about the collective: types and order of ranks; payloads | TLAPS |
| `CacheProofs` | theorems about `PrefixHit`, `KdaStash` and `KdaState` | TLAPS |
| `HostViewProofs` | theorems about `DraftTrunc` and `ExactLens` | TLAPS |
| `RoceHostProofs` | theorems about `RoceSetup` and `RoceStreams` | TLAPS |
| `LookupProofs` | theorems about `LookupDraft` and `ContextIndex` | TLAPS |
| `PrefillSchedProofs`, `AdaptiveKProofs` | theorems about the two schedulers | TLAPS |
| `MC*` | small instances | |

How state and actions correspond to code is in `PROJECT.json` (`map`) and in the
comments. In short:

* **RoceOneshot.** One action per step of a block that another actor can observe:
  `Start` reads the epoch, `Stage` copies the block's share into the send slot
  and, for the last block to arrive, rings the doorbell; `WaitDone` and `Timeout`
  end the spin; `Reduce` stores the output; `Publish` is the tail, where the last
  block advances the epoch. The proxy sees a doorbell (`SeeDoorbell`), posts one
  peer and HCA at a time (`Post`), and ends the collective (`EndOp`). `WriteData`
  and `WriteFlag` are the NIC's: in order on one queue pair, in any order between
  queue pairs. Data is a collective's number, so a stale pack is visible as a
  number that is too small. `Unhealthy` is the host's poll.
* **RoceSetup.** `sent[r]` is the list of values that rank r gave to its gathers.
  Gloo pairs the k-th call of each rank with the k-th of the others whatever the
  call sites are, which is the interesting part.
* **RoceStreams.** The host appends tasks to the queue of a stream; streams run
  their heads in any order. A kernel has a begin and an end, so that two can
  overlap. The caller's discipline (which streams are eager, which need scratch,
  whether graphs are captured) is chosen once, in `use`.
* **PrefillSched.** vLLM's `schedule` is modelled from how the overlay's edits
  use it, and marked external; the cadence, the bypass, the latch and the end
  drain are the overlay's.
* **AdaptiveK.** The average is abstracted to below, between or above the two
  thresholds, starts at `Seed` (`VLLM_ADAPTIVE_K_SEED`), and an observation may move it
  anywhere. The policy may raise before
  a hand-out (`ScheduleAsBase`) or after any part of a report's observations
  (`ReportRaises`); the base scheduler then works on alone.
* **PrefixHit.** One action is one turn of the `for` over the groups. The pool is
  what each group has cached; `Ask` takes any content.
* **KdaState.** A column holds the number of tokens its state stands for, or
  `Junk`. `Prefill` and `Decode` are one step each of the runner: the migration of
  `preprocess_state`, the recurrence, and the saving of `postprocess_state`.
  `SpecRow` is the choice of `mamba_hybrid.py:249`: a row with drafts reads the slot
  of its last accepted token; every other row, a plain decode of one token included,
  reads and writes slot 0. `DecodeSizes` says which decodes there are. A resumed
  request holds no placeholders (`drafts`) and decodes one token
  (`adaptive_k_scheduler.py:67`); one that has them verifies at least one draft.
  vLLM's scheduler, which is outside this repository, may cut such a step to one
  token when that is all that is left of the budget or of the request's length:
  that is the constant `Trims`, off in `WorkerStart` and on in `StateTrimmed`. The
  workers' block size is assumed to be the state's (`WorkerAssumption`).
  Blocks are published under their hash as they fill, and a later admission reads
  what was published. `MaxLen` bounds a request's tokens: one that has reached it
  has ended, so it may finish but is not preempted.
* **KdaStash.** A state is the sequence of the tokens folded into it, so a torn,
  stale or doubly replayed record is visible as a wrong sequence. Programs of one
  launch interleave token by token. A plain decode between two launches rewrites
  slot 0 and leaves the rest, which is what a move (`Rebase`, `LaunchMoved`) does.
* **ExactLens.** The worker fills `stream`, the device works it off. `Build` is the
  point where lengths are needed; the mirrors may answer while `stream` is not
  empty, and the fall-back may not.
* **LookupDraft.** `todo` and `outs` are the steps on their way to the worker and
  back. A plan made in one schedule is for the draft at that step's end, which the
  next schedule verifies; `verdict` is what the host concluded beside what the
  device had done.
* **ContextIndex.** A tier is a function from key to latest position. `MCKey` lets
  two grams share a key.
* **DraftTrunc.** Confidences are tagged with rank, draft and request. What the
  policy makes of them is part of the step, so that ranks with equal inputs decide
  alike and ranks with other inputs are seen.

## 3. Runs, bounds and what they show

| Run | Instance | Shows |
|---|---|---|
| `RoceHealthy` | 2 ranks, 2 HCAs, 2 blocks, 6 collectives, send queues of one write, sequence words modulo 4, counters modulo 2 | `TypeOK`, `PublishedResult` through wrap-around; `AllComplete` |
| `RoceThree` | 3 ranks, 4 collectives, a stop and restart, a send queue of one | `SendSlotIntact`, `Lockstep`, `DoorbellBound` |
| `RoceFaults` | 2 ranks, 2 blocks, 2 collectives, a broken connection or a stop and restart of one of them, a send queue of one, time-outs, close | `FreshResult`, `FailStop`, refinement `Implements` |
| `RoceNobodyHangs` | 2 ranks, 2 collectives, a broken connection, time-outs | `NobodyHangs` |
| `SetupFailures` | 3 ranks, 2 limits, 2 configurations, 1 killed process, early failures, `GLM_ROCE_REQUIRE` on one rank | `AgreedRoute`, `ServesConnected`, `NoProxyLeft`, `ExchangesMatch`, `EverybodySettles` |
| `SetupEarlyFailure` | 3 ranks, none requires RoCE, nobody killed | **violated**: `FallsBack` |
| `HostAhead`: streams | 2 streams, 3 launches, 2 captures of up to 2 collectives | `LaunchOrder`, `OwnResult`, `CapturesApart` |
| `HostAhead`: lookup | 2 token ids (interchangeable), drafts of 1 and 2, 2 steps queued, 3 schedules, 6 tokens, 1 preemption or switch | `DecodeAttribution`, `AccountingClean` |
| `HostAhead`: index | 2 token ids, grams of 1 and 2, hot table of 3, slices from 3, 6 tokens, a colliding key | `IndexExact` (latest site, tiers that halve) |
| `HostAhead`: trunc | 2 ranks, 2 requests, 4 steps, ring of 3, 3 variants | `RanksDecideAlike`, `OwnConfidences`, `GateSeesPrevious` |
| `HostAhead`: lengths | 2 requests, 2 steps in flight, lengths 1 and 2 | `NoLeak`, `NothingMissed`, `UniformHandOuts` |
| `StreamsScratch` | misaligned inputs on both streams | **violated**: `OwnResult` |
| `SchedQueues` | a decoder that never ends, a long prompt (part cached) and two short ones, full KV cache | `NothingLost`, `WaitInOrder`, `NoStepWasted`, `DeferralSound` (short budget, decoding deferred steps), `EverybodyEnds` |
| `DraftsSkipped` | the instance of `HostAhead`: lengths | **violated**: `UniformSteps` |
| `WorkerStart`: hit | 5 hash blocks, alignment and window of 2, any content, both orders of the groups | `HitExact`, `UncachedExact`, `DraftWindow` |
| `WorkerStart`: state | state blocks of 6, scheduler blocks of 3, 2 drafts, budgets below and above a block, 17 tokens | `StateExact`, `SlotHoldsItsHash`, `ChunksExact` (chunks advance, the last block is cached) |
| `WorkerStart`: stash | 2 programs, 3 slots, 4 launches | `Rebuilt` |
| `WorkerStart`: lens | 2 requests, 2 rows, 3 steps, ring of 2, 2 records, 2 plans per step | `PlanExact` (lengths, uploads) |
| `StateTrimmed` | the instance of `WorkerStart`, where a verify step may be cut to one token | **violated**: `SlotHoldsItsHash` |

`HostAhead` and `WorkerStart` check several modules in one run. `MCHost` and
`MCWorker` are their sum: a variable `part` says whose behaviours are explored and
the other modules rest in one initial state. It is not a composition, since the
parts share no variable; the run explores the union of what the parts would
explore alone.

The other type invariants (`StreamsTypeOK`, `HitTypeOK`, `StateTypeOK`, and
`TypeOK` of `RoceSetup`, `PrefillSched` and `AdaptiveK`) hold on the same
instances; they say what values the variables take and are not listed with the
runs, except that the proofs of `RoceSetup`, `PrefixHit` and `KdaState` rest on theirs.

Why the bounds are enough. The collective has two slots and ranks are at most
one collective apart (`Lockstep`), so three consecutive collectives show every
reuse of a slot, and six with words modulo four show every wrap. Two HCAs give
stripes that arrive in either order, and one pack leaves an HCA without a stripe.
A third doorbell of a rank can only be pending from its fourth collective on, when
the first slot's flags and size word have been written twice: `RoceThree` runs
four. It does not check for deadlock: without time-outs the peers of a host whose
proxy has stopped wait for ever; that time-outs end such waits is shown in
`RoceNobodyHangs`, for a broken connection.
`RoceFaults`, with two blocks, stays with two collectives and uses each slot once; a
slot that is used again is `PublishedResult`'s case in `RoceHealthy` without
failures, and the theorem `OnlyFreshData`'s with them.
Three ranks give a rank that is ahead of one peer and behind another. Start-up has
four gathers; three ranks give a failing one, one that hears of it and one that
hears of something else. Two steps in flight is the engine's batch queue. The
scheduler's short budget is three tokens: the short prompts fit one at a time and
not together, the long one fits only when its cached part is found, and with an
interval of three a release falls before, on and after an admission.

For the prefix hit, five blocks leave room for a window that is cached at the hit
but not one block past it, which is the case the drop of the last block is about;
the theorems below cover every other size. Blocks of six are the smallest in
which two windows of replay records follow each other before one that reaches the
end; seventeen tokens are two full blocks, from either of which a request can
resume, and a third that it runs in; a scheduler block that is half a state block is what the fix is about. Two
launches of the stash show a replay against the writes of the same launch; four
show each parity twice with a full-mode launch or a move between them. Three steps
with a ring of two reuse a slot, and two records make a request that sits out a
step and another one fall off the queue. With a step queued and one executed, a
rank can be ahead of another by one step and its copies behind by two. Two steps
in flight are what the lookup planner sees; a history of six tokens has copies
of period one and two, and ones that end inside the draft.

Fairness. `RoceOneshot` has weak fairness on the steps of blocks, proxies, NICs
and hosts: blocks are co-resident and threads are scheduled by CUDA and Linux, and
an RC queue pair delivers or, when its other end is down, exhausts its retries and
breaks. Time-outs are fair only as a spin limit is:
a wait that stays unsatisfied ends. `RoceSetup` has weak fairness on each rank's
own steps; gloo's gathers raise when a member is gone (`PeerLost`), and nothing
forces a crash. `PrefillSched` has weak fairness on the engine loop, which runs
as long as there are requests; arrivals are not fair.

### Findings

* **Start-up.** A constructor that fails before its first exchange (`Layout`
  builds the proxy library there, `roce_oneshot.py:246`) shifts that rank's
  gathers against those of its peers, and `'; '.join(errors)` raises on a tuple
  whatever `GLM_ROCE_REQUIRE` says (`SetupEarlyFailure`). The agreement itself
  still holds: no rank serves alone, and nobody is stranded.
* **Scratch.** The copy into the alignment and staging buffers is queued before
  the wait that orders the streams (`roce_oneshot.py:559`, `:776`), so a second
  stream can overwrite the input of a kernel that is running (`StreamsScratch`).
* **Uniform steps.** In batch-uniform mode a request that a step leaves out keeps
  the placeholders of an earlier hand-out, so a step can verify two lengths
  although the docstring says that every step is uniform (`DraftsSkipped`). What
  does hold is `UniformHandOuts`.

* **Trimmed steps.** A row whose step is cut to its first token counts as one without
  drafts, so it starts from slot 0 although the step before accepted drafts
  (`mamba_hybrid.py:259`), and the state it reaches at the end of a block is cached
  under that block's hash (`StateTrimmed`). `glm_mamba_align_fix.py:9` states the
  invariant that this breaks. It needs a step with one token of budget left, or a
  request with one token left, in the column of a step that accepted drafts.

Observations from modelling, where code and comment differ and no run claims it:

* `glm_draft_trunc.py:43` says that the gate always sees the decision for the
  previous draft. A step with truncation off leaves `last` and `unscored` as they
  are and drops the pending draft (`:347`, `:208`); `GateSeesPrevious` therefore
  excepts a decision from before such a step.
* `glm_lookup_draft.py:41` says that each step is attributed exactly. A plan that
  skips the draft model on a step that ends a prefill is booked as junk although
  the device has drafted (`glm_lookup_hooks.py:279`), and when an output was not
  attributed the index lacks tokens that the device has (`:710`).
  `DecodeAttribution` is what holds; `AttributionExact` states the claim.
* `kv_cache_coordinator.py:844` says that a short draft window leaves the group
  empty. With the draft group ahead of the state group, blocks of an earlier,
  longer pass stay in it; `DraftWindow` is stated for the other order.
* `glm_kv_lens_exact.py:685` says that a dummy batch carries a stale serial. It is
  noted with the current one; that is harmless, since no request uses its lengths.

Limits that the models show and no run claims. The error and poison words
hold the sequence word, whose value 0 also means "no failure": a time-out of the
collective whose word is 0 is not recorded (`_oneshot_cute.py:275`); `FreshResult`
is therefore checked with time-outs only below the wrap, and `PublishedResult` is
what is checked across it. The words of the error record are written by several
blocks without a common atomic step (`:272`), so the logged record may mix two
time-outs; the poison word, which decides, is modelled. And a graph replay is not
ordered with eager collectives on another stream (`roce_oneshot.py:635`), nor are
eager collectives on two streams inside `capture()`, which forgets the last stream
(`:866`); vLLM uses one compute stream for both, and `use` in `RoceStreams` is
limited to that.

## 4. Proofs

`RoceHostProofs` proves of `RoceSetup`, for every number of ranks, every set of limits and
configurations, every `Require` and every number of killed processes
(`SetupAssumption` only asks that the constants have their types):

* `RouteAgreed`: `Spec => []AgreedRoute`. While a rank serves over RoCE no rank
  serves on NCCL, and none has raised unless a process was killed.
* `ServiceConnected`: `Spec => []ServesConnected`.
* `FallbackReleases`: `Spec => []NoProxyLeft`.

None of the three is inductive. `IInv` adds how many gathers a rank has entered at
each place (`Positions`: a rank that is in the last gather early has reported an
error there), what its proxy is (`Proxies`), and evidence for each outcome: a
ready rank has seen all ranks in their fourth gather without an error
(`ReadyAgreed`); a rank on NCCL stopped at the vote, or at a gather that holds an
error (`NcclRefused`, `Refused`); and while nobody was killed, a raised rank
implies that some rank refused (`RaisedRefused`), which covers the gathers that
raise because a peer is gone. Values in `sent` never change, so evidence stays.
`AgreedRoute` follows because a gather cannot both hold an error and be the clean
fourth gather of everybody. The proof has one lemma for steps that enter a gather
(`EnterKeeps`), one for those that do not (`MoveKeeps`), and one case per action.

* `GathersMeet`: `Spec => []ExchangesMatch`. As long as nobody is killed, ranks
  that have entered the same number of gathers are at the same call site, with one
  exception: a rank whose constructor failed before its first exchange (`Strayed`)
  meets one whose constructor did not, and then no rank connects, let alone serves.
  So the theorem covers failures of every step, and it does not say that gathers
  always meet: with an early failure they do not, and `SetupEarlyFailure` shows
  what comes of it.

  `TrackInv` is what holds with and without early failures: the sequence of calls a
  rank can have made (`Follows`), and that a rank connects only when every rank has
  made the first exchange. So where a rank has strayed, all others turn from
  the first exchange to the agreement, and only the second gather can mix. Where
  none has, `MeetInv` says where a rank can be: whoever is past the vote knows that
  all have voted for RoCE (`VotePassed`), the first gather is the vote and the
  fourth the agreement (`Sites`), the third is the exchange of verdicts if set-up
  succeeded everywhere and else the agreement (`Thirds`), and ranks raise together
  (`RaisedTogether`).

`CacheProofs` proves of `PrefixHit`, for every block size, alignment, window, prompt length,
order of the groups and content of the cache (`HitAssumption` only asks for
positive sizes):

* `HitIsExact`: `HitSpec => []HitExact`. What the loop returns is the longest
  length that attention and state both have cached, whatever the draft's window
  holds: the repair never shrinks the hit, and the passes never stop too early.
* `UncachedIsExact`: `HitSpec => []UncachedExact`.
* `WindowFollows`: `HitSpec => []DraftWindow`. With the draft's group after the
  state's, the blocks returned for the draft are the window of exactly this hit or
  none, and a hit below the limit gets its window whenever it is cached.

The invariant `LoopInv` says that no usable length is above the candidate
(`Bounded`), that once attention is looked up its hit is the longest length and
bounds the candidate (`Attention`), and that after the state's turn the candidate
has a cached state (`AfterState`); a pass that lowered nothing therefore ends on a
length that both have. For `WindowFollows`, `DraftInv` says what the draft's
turns have found: there are at most two passes, the first looks one block further
and drops it, and its window contains the one of the second.

`RoceOneshotProofs` first proves `TypeCorrect`: `Spec => []TypeOK` for every number of
ranks, blocks, HCAs, collectives and faults. The invariant `TypeInv` adds
`Running`: a block that is at work belongs to a launch, and a proxy that posts has
a doorbell pending; without it the size of the current launch, and the position
after it, have no type. What this gives
beyond types: sequence words and counters stay in their width, and the distance
between doorbell and proxy never leaves what the catch-up loop can name.

Then `RoceOneshotProofs` and `RoceDataProofs` prove what the collective is for, for
every number of ranks, blocks, HCAs, collectives, sizes and faults:

* `NeverTwoAhead`: `Spec => []Lockstep`; `TimeoutIsFinal`: `Spec => FailStop`;
* `ImplementsCollective`: `Spec => Implements`, the refinement of `Collective`;
* `OnlyFreshData`, `PublishedIsComplete`, `SendSlotsHold`, `DoorbellsBounded`:
  `FreshResult`, `PublishedResult`, `SendSlotIntact` and `DoorbellBound`.

Their one hypothesis beside the assumptions on the constants is `NoWrap`,
`MaxOps + 1 < SeqMod`: the run is shorter than 2^32 collectives. It is needed:
at the wrap a time-out writes the word 0, which means "no failure" (see the
findings), and `FreshResult` is then false. `RoceThree`, `RoceFaults`
and `RoceNobodyHangs` satisfy it; what happens across the wrap on a run without
time-outs is checked in `RoceHealthy`. TLC checked the four parts of the
invariant on the instances of `RoceThree`, `RoceFaults` and `RoceNobodyHangs` before
they were proved.

The invariant is `RoceInvariant`'s, in four parts, because no property of the
collective is inductive:

1. `KernelInv`, about one rank. The epoch and the number of launches
   tell which collective a block works on (`LaunchInv`), and the arrival
   counter of a grid, which is never reset, stands modulo the grid's size at the
   number of blocks that have arrived (`ArrivalInv`): the block that finds
   itself last is last. On a rank that timed out the counter may only be too low, so
   that a doorbell can be missing but never early. The doorbell is the
   epoch or the one after it (`DoorbellInv`).
2. `NetInv`, about a rank r and a peer p. Whatever p has learnt from r - a flag in
   its memory, a request on its way, a wait that ended, an epoch it published -
   is a collective that r has rung for and that r's proxy has reached (`Within`).
   With part 1 this gives `Lockstep`, and `ctrlSeq[r] <= epoch[p] + 2`: a rank that
   rings has published the collective before, so all its peers have rung for
   that one.
3. `DataInv`, about payloads. The 2 is what makes two slots enough:
   when r stages collective n+2 into the slot of n, all peers have n+1, hence are
   through with n. So a slot whose doorbell rang holds its collective until the
   next one is published (`HeldInv`). A request that is still queued for the
   overwritten slot copies the *newer* payload to a peer that is through with the older
   one and that does not read the slot again before the flag of the newer one; a
   stripe's flag is behind the stripe on its queue pair
   (`QueueInv`, `FlagInv`), a block reads after the flags of all HCAs
   (`BarrierInv`), and therefore stores this collective's data (`OutInv`).
4. `LastConnection`, for `DoorbellBound` only. As long as no connection of r broke, the
   peer at the end of the connection that r posts on last has seen no more than r has
   posted on all of them, so r cannot ring three times more than its proxy
   has worked off.

The proof that every step keeps a part has one case per action; before it stand
lemmas on what can change at all (`FlagMoves`, `RecvMoves`, `EntryMoves`,
`WaitMoves`, `EpochMoves`), so that most cases are "nothing this conjunct reads
has changed" or "it has grown".

`AdaptiveKProofs` proves `PolicyKeepsNoEnded`: `Spec => []NoLeak` for every set of
requests, draft lengths, mode and number of steps in flight. `NoLeak` alone is not
inductive: a late report makes the policy track what it observes, so `KeptInv`
adds that steps in flight only hold requests that have arrived (`Started`), beside
the types; with the guard of `should_observe` an observed request is then live
(`ObservedLive`). An exception in the middle of a report breaks nothing. Also:

* `RingSuffices`: `Spec => []NothingMissed` if `MaxInFlight <= Slots`. `HandedInv`
  says that the hand-out of the i-th step in flight is still in the ring, at the
  distance that its report will look (`Remembered`). The hypothesis is sharp (with one
  more step in flight TLC finds a miss), and the engine's batch queue holds two.
* `HandOutsUniform`: `Spec => []UniformHandOuts` under `Table`: there is a table of
  draft lengths, as `start.sh:47` always passes one
  (`adaptive_k_scheduler.py:58`). Without it a resumed request is padded to the
  engine's length and the property fails.

`RoceHostProofs` also proves of `RoceStreams`, for any number of streams, launches and captures:

* `CapturesKeptApart`: `StreamsSpec => []CapturesApart`. `CaptureInv`: all
  collectives of the current graph are on the stream that `known` holds, and `known`
  is of the current capture as soon as there is one.
* `LaunchesInOrder`: `StreamsSpec => []LaunchOrder`, if a caller with graphs uses one
  stream for its collectives and its replays (`OneGraphStream`; section 3 says why
  it must). `LaunchOrder` is about kernels that have begun; `OrderInv` is
  about the tasks still queued. Each launch that has not ended has its kernel in one
  stream (`OneEach`, `NotEnded`), and the kernels of a stream are in launch order
  (`Ascending`). Without graphs a kernel comes before its record (`InOrder`,
  `RecordsFollow`) and after the record of its predecessor, or behind a wait for it
  (`Behind`); with graphs no other stream has tasks (`Alone`). So the kernel at the head
  of a stream is the only one whose predecessor has ended (`HeadIsNext`). The
  assumption that `None` is no stream is needed: the first collective waits for
  nothing. A replay appends a fold over the graph; `FlattenUnfolds` and
  `ReplayGrows` go along it by a least counterexample (`UpTo`).
* `ResultsAreOwn`: `StreamsSpec => []OwnResult`, if besides, without graphs, the inputs
  that need scratch come on one stream (`OneScratchStream`; `StreamsScratch` shows what
  happens on two). `OwnQueue` says of every queued task that reads a
  buffer: before it in its stream its own launch fills the buffer, and nothing after
  that does for another launch, or the data is there already (`OwnNow`). What
  another stream could still overwrite is the output buffer of `all_reduce`, which
  launches on any stream share; the record behind the copy out of it (`CopyMarked`) and
  the order of launches exclude it (`NoForeignWrite`).

`PrefillSchedProofs` proves, for any finite set of requests with any prompts and
limits, and any budget, interval, number of drafts and of steps in flight
(`SchedAssumption`):

* `TypesHold`: `Spec => []TypeOK`;
* `NothingIsLost`: `Spec => []NothingLost`;
* `OrderIsKept`: `Spec => []WaitInOrder`;
* `NoStepIsWasted`: `Spec => []NoStepWasted`, with end drain;
* `ShortBudgetHolds`: `Spec => []ShortBudget`, the first half of `DeferralSound`;
* `DeferralIsSound`: `Spec => []DeferralSound`, with end drain and no structured output.

They share `Inv`. Its parts say that the three queues are disjoint and hold exactly
the requests that have arrived and not ended (`Queues`); that a step chooses only
running requests, each once (`Choosing`); that a request decodes only when its prompt
is computed and gets nothing from a step in flight before (`Progress`); and that
there is a ledger for each request, the running sum of what the steps in flight may
give it (`Ledgers`): its total is the placeholders, and a step that is not the oldest
gives the request something only if the steps before it cannot finish it, which is
what `holds` compares when the step is made. `Order`, `Spends` and `Buys` come on
top: what is set aside is the waiting queue's front in reverse; the tokens chosen
for prompts are in the short budget; and in the running loop of a deferred step,
either a decode is chosen, or nothing but short prompts is and the decode that
deferred is still to come. The budget cannot run out before it since the short budget is
smaller (`ShortTokens < TokenBudget`). The lemmas on finite sums (`SumSets`, `SumPut`)
replace the induction that `SumFunctionOnSet` is defined by with a least
counterexample among the sizes.

The hypotheses of `DeferralIsSound` are sharp. Without end drain, or with a request of
structured output, TLC finds a step that defers prefills and decodes nothing: with
one token to go and a step in flight, asynchronous scheduling leaves the request out,
but `holds` does not count it out, so `defer_prefills` defers for its sake. Such a step is
wasted and no more: the next output ends the request, and nobody starves.

`CacheProofs` proves of `KdaStash` `StateRebuilt`: `StashSpec => []Rebuilt` for every number of
programs, slots and launches. `Rebuilt` says nothing about programs that have not
replayed yet, nor about shared records that another program of the launch may
overwrite meanwhile. `StashInv` says, for each program, what it will start from
(`Prior`: the state of the committed tokens, or an older state and the records since) and
what it has stored of this launch (`Written`). Two programs always find the same parity
(`OneParity`), so the half that a fast program writes is not the one a slow
one still reads; `StoredStarts` shows that what a launch stored is a `Prior` for the next
one, however many tokens are accepted.

Of `KdaState` it proves, for every block size, scheduler block, budget, prompt and
number of drafts, under two hypotheses: a step drafts fewer tokens than a state block
has (`MaxDrafts < StateBlock`; as served `K_HI = 7`, `profiles/current.env:12`, and
`--block-size 2304`, `start.sh:99`), and no verify step is cut to one token (`~Trims`;
`StateTrimmed` shows that it is needed):

* `StepsStartExactly`: `StateSpec => []StateExact`;
* `HashesTellTheState`: `StateSpec => []SlotHoldsItsHash`;
* `ChunksStopRight`: `StateSpec => []ChunksExact`.

They share one invariant, since the state a request resumes from is what another one
published. `StateInv` says where a running request's state is (`HoldsState`): in the
slot that the accepted count names, or, with the stash, in slot 0 and the replay
records behind it. The second is allowed only while no window of the *next* step can
leave the column, which is why the flag of the stash has to look one window further
than the step it is set for. A chunk of a prompt that passes the end of a block
stops at the end of a block (`ChunkEnds`), so no column is published in the middle of
its block: columns after the one in work are not in `real` (`RealBehind`), and
the state at the end of the last whole block is there (`BlockBehind`, stronger than
what `ChunksExact` asks, as it speaks of decoding too). A plain decode reads slot 0
without an accepted count, which is right because a request without placeholders has
accepted nothing but one token since it was admitted (`OneAccepted`). The hypothesis on
the drafts is sharp: with a window of a whole block and one token more, TLC finds a slot that does not hold
its hash (blocks of two with two drafts, of three with three).

`HostViewProofs` proves of `DraftTrunc`, for any number of ranks, requests, steps and any set
of variants, if the ring has at least two slots (`RING = 3`,
`glm_draft_trunc.py:70`):

* `ScoresAreOwn`: `TruncSpec => []OwnConfidences`;
* `GateIsCurrent`: `TruncSpec => []GateSeesPrevious`;
* `DecisionsAgree`: `TruncSpec => []RanksDecideAlike`.

`TruncInv` says, for each rank, that the draft that will be scored, pending or gated,
is in its pinned slot or on its way there with no later copy to the same slot
behind it (`Held`); that the pending draft has the last slot and the gated
one the slot before (so two slots are enough, and one is not); and which draft the
last decision was about (`LastFollows`).

Ranks execute a step at different times, with different copies under way, so
`DecisionsAgree` needs a second invariant. `ExactStep` is the step with every score replaced
by the broadcast confidences: it mentions no rank, copy or pinned slot.
By `TruncInv`, `execute_model` on any rank is that function of the rank's state and the
step at the head of its inbox (`ExecuteExact`: what it waits for has arrived, what it
reads is held). `HistoryInv` then says that there is one history, of steps and of the
hosts they lead to, with every rank at a point of it and its inbox the rest; a
dispatch extends the history and an execution moves one rank along it.

Of `ExactLens` it proves `PlansAreExact`: `LensSpec => []PlanExact`, for any requests,
rows, counts that a step can add, ring of snapshots and length of the registry's
deque. The lengths a step is planned on are the ones its kernels find on the device,
and no upload is spoiled, whichever of the two mirrors is installed, whatever
snapshot or record fails to be made, and however far the device is behind. Of the
constants it assumes only that rows are not `Nowhere`, that ring and deque have a
slot, and that counts are natural numbers. `LensInv` was checked with TLC on two
requests and three steps first (1,146,810 states). Its parts:

* `Snapshots` (early): if the last snapshot is of the last sampled step, the device's
  copy is either still in the stream, with no other copy behind it, and the counts at
  that point of the stream agree with the ones at its end on every row that has not
  been added since (`Copies`), or it has arrived and no copy is on its way that could
  overwrite its slot. An event that has fired excludes the former.
* `Registry` (exact): if no step is missing from a request's last known count on, that
  count and what the records since then add to it is its count at the end of the
  stream (`Traced`). The deque drops its oldest record when it is full: the proof
  shows that then either that record is older than the known count, or the step is
  missing and the request is no longer known (`ForgetsGain`).
* `Uploads`: whenever a plan may be made without the fence nothing is being uploaded.

`Settled` (the counts when the first n pieces of work are done) and `Gained` are
recursive functions; their recursion equations and what a step does to them are
lemmas of the module (`SettledSteps`, `SettledShift`, `GainedSteps`, `GainedShift`).

`LookupProofs` proves of `LookupDraft`, for any vocabulary, draft lengths, delta, number
of steps queued, and any number of schedules, tokens, preemptions and switches:

* `AttributionHolds`: `LookupSpec => []DecodeAttribution`;
* `AccountingHolds`: `LookupSpec => []AccountingClean`.

`verdict` is about the output processed last, so the invariant has to say what the host
will find when it processes the outputs that are still queued. `LkInv` says it with
a chain of texts (`LkChain`): D[i] is the history the host will have after i outputs
(a stale output adds nothing). The step of output i + 1 was executed on the text D[i],
hence its draft was what its plan makes of D[i] (`LkTold`), and once all that is queued
decodes, the device's own text is the last of the chain (`LkTexts`). The plan is found
by number: kept plans have no gaps (`LkPlans`), so the latest one
before a step is the one its draft was made with; a step that waits carries the
row of its plan (`LkRows`); what the device holds now is what its last plan made
(`LkDrafted`). After a preemption no draft is verified until the prompt has been
computed again, which is when host and device agree on the text (`LkQueues`).

Of `ContextIndex` it proves `IndexHolds`: `IndexSpec => []IndexExact`, for any gram lengths,
any key function (collisions included), any limits of the hot table and of slices, and any
text. `IndexInv` says, for each gram length, of the tiers with the hot table behind:
every entry is a place behind a gram with its key (`Sound`), a younger table holds later
places of a key than an older one (`Sorted`), and every place is covered by an entry of
its key that is not earlier (`Complete`). Each table step is one lemma:
the hot table takes up the place before a new token (`HotPut`), a slice becomes a tier
(`TierIs`; its hypothesis is the empty hot table that `_freeze` leaves), and `_push_tier`
settles without losing an entry (`SettledGood`). With all
places covered in order, the first table that has the key has its latest place
(`GetIs`), and a site that is not found is hidden by a later place of a colliding
gram (`MissHidden`).

Only model-checked, and why:

* liveness (`AllComplete`, `NobodyHangs`, `EverybodySettles`, `EverybodyEnds`), which
  the prover does not handle under fairness;
* the collective across the wrap of its sequence word, where `FreshResult` is false.

## 5. Not modelled

Numerics (kernels, quantisation, sampling distributions, certified bounds) are out
of TLC's reach. Import hooks run once and sequentially. Shell scripts, downloads,
weight loading and benchmarks are I/O. vLLM, gloo, CUDA and the NIC appear as
external definitions, from how this code uses them. `roce/b12x/b12x/_lib` (two
fifths of the lines) and `docs/sglang` are vendored, and most of the rest of the
lines are tensor code in Triton, CUDA and PyTorch, whose content is numerical: a
model of it without the numbers would say nothing, which is why the map covers a
small share of the repository's lines although it covers most of its protocols. Of the modelled parts, the following is left out: the arithmetic of the
reduction and of the moving average, preemption and idle coalescing in
`PrefillSched`, the compilation and eligibility tests of the launchers, the
arithmetic of the truncation policy and of the lookup gate (choices), lookup for
several requests at once, the modes of the lookup planner that tests force and a
planner that may skip without a streak (`glm_lookup_draft.py:643`, `:653`), the attention metadata of `mamba_hybrid.py`, the growth
of the confidence ring, a policy that fails to load on one rank, the graph sets
and the vote of `glm_ab.py`, and the text of diagnostics.

## 6. Plan

Order of work, most important first; the first nine are done.

1. `RoceOneshot` with `Collective`: the data path of every layer.
2. `RoceSetup`: agreement on the route. 3. `RoceStreams`: the order that 1 needs.
4. `PrefillSched`, 5. `AdaptiveK`: the engine core's own decisions.
6. `PrefixHit`, `KdaState`, `KdaStash`: a cached slot holds the state after exactly
   the tokens that its hash names, and every step starts from its own state.
7. `ExactLens`: a plan that is used equals the one computed after the step.
8. `DraftTrunc`: one shape on every rank. 9. `LookupDraft`, `ContextIndex`.
10. Device selection as a refinement of the host's choice; the draft length by
    concurrency and the live policy file on top of `AdaptiveK`.
11. The installation's health guard, and the vote and graph sets of `glm_ab.py`.
12. The streaming parser: a stream cut anywhere gives the same message, with a
    recursive reference definition; the slabs of `glm_fast_load.py`.
13. A composition of `RoceStreams` and `RoceOneshot`: launch order as the interface.

Theorem next: that `RoceStreams` implements the order that `RoceOneshot` takes for
granted.
