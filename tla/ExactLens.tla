----------------------------- MODULE ExactLens ------------------------------
(***************************************************************************)
(* The two ways in which a worker plans its attention without waiting for  *)
(* the whole stream: overlay/glm_early_plan.py ("early": a copy of the     *)
(* device's token counts right after the verify, and its event) and        *)
(* overlay/glm_kv_lens_exact.py ("exact": a host registry that adds up the *)
(* sampled counts of the steps since the last known value).  They are      *)
(* mutually exclusive.  The worker's one thread fills a stream that the    *)
(* device works off at its own pace; the model runner is external.         *)
(***************************************************************************)
EXTENDS Integers, Sequences, SequencesExt, FiniteSetsExt

CONSTANTS LensReqs,      \* requests
          StateRows,     \* indices of req_states
          Deltas,        \* tokens a step can add to a request
          Starts,        \* counts a request can be added with
          RingSlots,     \* pinned slots of the snapshots
          MaxRecords,    \* maxlen of the registry's deque
          MaxSteps,      \* bound: real steps
          MaxPlans       \* bound: plans of a step

(* A row is an index, so that a request without one has none of them.      *)
Nowhere == -1
ASSUME LensAssumption ==
  /\ RingSlots \in Nat \ {0} /\ MaxRecords \in Nat \ {0} /\ Nowhere \notin StateRows
  /\ MaxSteps \in Nat /\ MaxPlans \in Nat \ {0} /\ Deltas \subseteq Nat /\ Starts \subseteq Nat

Unknown == [val |-> -1, serial |-> -1]

VARIABLES mirror,     \* which of the two is installed
          active,     \* GLM_EARLY_PLAN, switchable under the A/B harness
          stage,      \* what the worker does next
          isReal,     \* in_real_step
          serial,     \* real steps so far
          batch,      \* requests of this step
          rowOf,      \* a request's row, Nowhere while it has none
          staged,     \* the count that add_request staged for a request
          device,     \* num_computed_tokens on the device
          stream,     \* work that is enqueued and not done
          planned,    \* the counts that this step's plan is built on
          plans,      \* plans of this step
          added,      \* requests whose device value was set by add_request
          snap,       \* early: serial and ring position of the last snapshot
          ring,       \* early: pinned copies of the device's counts
          ringI,      \* early: ring_i, the next position
          tracker,    \* exact: the last known count of a request, and its step
          records     \* exact: what the last steps added

runner == <<stage, isReal, serial, batch, rowOf, staged>>
gpu == <<device, stream>>
plan == <<planned, plans>>
registry == <<added, snap, ring, ringI, tracker, records>>
lensVars == <<mirror, active, runner, gpu, plan, registry>>

LensInit ==
  /\ mirror \in {"early", "exact"} /\ active = TRUE
  /\ stage = "idle" /\ isReal = FALSE /\ serial = 0 /\ batch = {}
  /\ rowOf = [r \in LensReqs |-> Nowhere] /\ staged = [r \in LensReqs |-> 0]
  /\ device = [i \in StateRows |-> 0] /\ stream = <<>>
  /\ planned = [r \in LensReqs |-> 0] /\ plans = 0
  /\ added = {} /\ snap = Unknown /\ ringI = 0
  /\ ring = [s \in 0 .. RingSlots - 1 |-> device]
  /\ tracker = [r \in LensReqs |-> Unknown] /\ records = <<>>

-----------------------------------------------------------------------------
(* The device.  A count is advanced by post_update, which the host cannot  *)
(* see; Settled gives the counts when the first n pieces of work are done, *)
(* and Future the ones that prepare_pos will use, when all of them are.    *)
Apply(d, op) ==
  CASE op.kind = "set"  -> [d EXCEPT ![op.row] = op.val]
    [] op.kind = "post" -> [i \in StateRows |-> d[i] + op.val[i]]
    [] OTHER            -> d
Settled(d, work, n) ==
  LET after[k \in 0 .. n] == IF k = 0 THEN d ELSE Apply(after[k - 1], work[k])
  IN  after[n]
Future == Settled(device, stream, Len(stream))
Pending(kind, n) == \E k \in 1 .. Len(stream) : stream[k].kind = kind /\ stream[k].val = n

DeviceStep ==
  /\ stream # <<>>
  /\ LET op == Head(stream)
     IN  /\ device' = Apply(device, op)
         /\ ring' = IF op.kind = "copy" THEN [ring EXCEPT ![op.val % RingSlots] = device] ELSE ring
  /\ stream' = Tail(stream)
  /\ UNCHANGED <<mirror, active, runner, plan, added, snap, ringI, tracker, records>>

-----------------------------------------------------------------------------
(* execute_model: begin_step or note_serial.  A dummy step adds no         *)
(* requests and notes no batch.                                            *)
BeginStep(r) ==
  /\ stage = "idle" /\ serial < MaxSteps
  /\ isReal' = r /\ batch' = {} /\ serial' = IF r THEN serial + 1 ELSE serial
  /\ stage' = IF r THEN "update" ELSE "build"
  /\ added' = IF mirror = "exact" /\ r THEN {} ELSE added
  /\ plans' = 0
  /\ UNCHANGED <<mirror, active, rowOf, staged, gpu, planned, snap, ring, ringI, tracker, records>>

(* add_request stages the scheduler's count for the device.                *)
Add(r, i, n) ==
  /\ stage = "update" /\ rowOf[r] = Nowhere /\ \A q \in LensReqs : rowOf[q] # i
  /\ rowOf' = [rowOf EXCEPT ![r] = i] /\ staged' = [staged EXCEPT ![r] = n]
  /\ batch' = batch \cup {r}
  /\ added' = added \cup {r}
  /\ stream' = Append(stream, [kind |-> "set", row |-> i, val |-> n])
  /\ UNCHANGED <<mirror, active, stage, isReal, serial, device, plan, snap, ring, ringI, tracker,
                 records>>

(* prepare_inputs: the batch is noted.                                     *)
Prepare(b) ==
  /\ stage = "update" /\ b # {} /\ batch \subseteq b /\ \A r \in b : rowOf[r] # Nowhere
  /\ batch' = b /\ stage' = "build"
  /\ UNCHANGED <<mirror, active, isReal, serial, rowOf, staged, gpu, plan, registry>>

(* plan_bases: a snapshot of the step before, once its event has fired.    *)
HasSnapshot == snap # Unknown /\ snap.serial = serial - 1
SnapshotDone == ~Pending("copy", snap.val)
Early == mirror = "early" /\ active /\ isReal /\ HasSnapshot
Bases == [r \in LensReqs |->
  IF r \notin batch THEN 0
  ELSE IF r \in added THEN staged[r] ELSE ring[snap.val % RingSlots][rowOf[r]]]

(* host_values: every request was added now, or no step since its last     *)
(* known count is missing and the counts of the ones it took part in have  *)
(* arrived.                                                                *)
Since(r) == {k \in 1 .. Len(records) : records[k].serial >= tracker[r].serial}
NoGapCheck(r) == TRUE                             \* mutant: steps may be missing
NoGap(r) == tracker[r].serial .. serial - 1 \subseteq {records[k].serial : k \in Since(r)}
Known(r) ==
  /\ tracker[r] # Unknown /\ NoGap(r)
  /\ \A k \in Since(r) : r \in records[k].batch => ~Pending("counts", records[k].serial)
Gained(notes, from, r, n) ==
  LET sum[k \in 0 .. n] ==
        CASE k = 0 -> 0
          [] k > 0 /\ notes[k].serial >= from /\ r \in notes[k].batch -> sum[k - 1] + notes[k].delta[r]
          [] OTHER -> sum[k - 1]
  IN  sum[n]
Unfolded(r) == tracker[r].val + Gained(records, tracker[r].serial, r, Len(records))
Exact == mirror = "exact" /\ isReal /\ \A r \in batch : r \in added \/ Known(r)
Values == [r \in LensReqs |->
  IF r \notin batch THEN 0 ELSE IF r \in added THEN staged[r] ELSE Unfolded(r)]

(* The lengths of this step.  Whoever cannot vouch for them reads them     *)
(* from the device, behind all that is enqueued.                           *)
Anchored(v) == IF mirror = "exact"
  THEN [r \in LensReqs |-> IF r \in batch THEN [val |-> v[r], serial |-> serial] ELSE tracker[r]]
  ELSE tracker
Build ==
  /\ stage = "build" /\ stage' = "plan"
  /\ \/ Early /\ SnapshotDone /\ planned' = Bases
     \/ Exact /\ planned' = Values
     \/ /\ ~Early /\ ~Exact /\ stream = <<>>
        /\ planned' = [r \in LensReqs |-> IF r \in batch THEN device[rowOf[r]] ELSE 0]
  /\ tracker' = Anchored(planned')
  /\ UNCHANGED <<mirror, active, isReal, serial, batch, rowOf, staged, gpu, plans,
                 added, snap, ring, ringI, records>>

(* plan() rewrites the one pinned workspace, which spoils an upload that   *)
(* is not done, and uploads it; the fence waits for the upload before.     *)
Fence == \A k \in 1 .. Len(stream) : stream[k].kind # "upload"
Fenced == mirror = "early" /\ active
Spoiled == [k \in 1 .. Len(stream) |->
  IF stream[k].kind = "upload" THEN [stream[k] EXCEPT !.val = "spoiled"] ELSE stream[k]]
Plan ==
  /\ stage = "plan" /\ plans < MaxPlans /\ (Fenced => Fence)
  /\ plans' = plans + 1
  /\ stream' = IF Fenced THEN Append(Spoiled, [kind |-> "upload", val |-> "intact"]) ELSE Spoiled
  /\ UNCHANGED <<mirror, active, runner, device, planned, registry>>

Forward ==
  /\ stage = "plan" /\ plans > 0
  /\ stage' = IF isReal THEN "sample" ELSE "idle"
  /\ planned' = [r \in LensReqs |-> 0]
  /\ UNCHANGED <<mirror, active, isReal, serial, batch, rowOf, staged, gpu, plans, registry>>

(* sample_tokens: post_update, then the snapshot or the record, either of  *)
(* which may fail.                                                         *)
Consumed == {}
Snapshot(ok) ==
  /\ mirror = "early"
  /\ IF active /\ ok
     THEN /\ snap' = [serial |-> serial, val |-> ringI] /\ ringI' = ringI + 1
          /\ added' = Consumed
     ELSE /\ snap' = IF active THEN Unknown ELSE snap
          /\ ringI' \in {ringI, IF active THEN ringI + 1 ELSE ringI}
          /\ added' = added
  /\ UNCHANGED records
NoteSample(ok, d) ==
  /\ mirror = "exact"
  /\ records' = IF ok
       THEN LET all == Append(records, [serial |-> serial, batch |-> batch, delta |-> d])
            IN  SubSeq(all, Max({1, Len(all) - MaxRecords + 1}), Len(all))
       ELSE records
  /\ UNCHANGED <<snap, ringI, added>>
Sample(d, ok) ==
  /\ stage = "sample" /\ stage' = "idle"
  /\ stream' = stream
       \o <<[kind |-> "post", val |-> [i \in StateRows |-> SumFunctionOnSet(d, {r \in batch : rowOf[r] = i})]]>>
       \o (IF mirror = "early" /\ ~(active /\ ok) THEN <<>>
           ELSE IF mirror = "early" THEN <<[kind |-> "copy", val |-> ringI]>>
           ELSE <<[kind |-> "counts", val |-> serial]>>)
  /\ Snapshot(ok) \/ NoteSample(ok, d)
  /\ batch' = {}
  /\ UNCHANGED <<mirror, active, isReal, serial, rowOf, staged, device, plan, ring, tracker>>

(* A request finishes or is preempted; its row is free for another one.    *)
Leave(r) ==
  /\ stage = "idle" /\ rowOf[r] # Nowhere
  /\ rowOf' = [rowOf EXCEPT ![r] = Nowhere]
  /\ UNCHANGED <<mirror, active, stage, isReal, serial, batch, staged, gpu, plan, registry>>

(* An A/B switch, which the engine core allows only without requests.      *)
SwitchEarly ==
  /\ mirror = "early" /\ stage = "idle" /\ \A r \in LensReqs : rowOf[r] = Nowhere
  /\ active' = ~active
  /\ UNCHANGED <<mirror, runner, gpu, plan, registry>>

LensNext ==
  \/ DeviceStep \/ Build \/ Plan \/ Forward \/ SwitchEarly
  \/ \E r \in BOOLEAN : BeginStep(r)
  \/ \E r \in LensReqs : Leave(r) \/ \E i \in StateRows, n \in Starts : Add(r, i, n)
  \/ \E b \in SUBSET LensReqs : Prepare(b)
  \/ \E d \in [batch -> Deltas], ok \in BOOLEAN : Sample(d, ok)

LensSpec == LensInit /\ [][LensNext]_lensVars

-----------------------------------------------------------------------------
(* The counts a step is planned on are the ones its kernels will find on   *)
(* the device, though the host never waited for the work in between.       *)
LensExact ==
  stage = "plan" => \A r \in batch : planned[r] = Future[rowOf[r]]

(* Early planning never rewrites the pinned workspace under an upload of   *)
(* its own that the device has not done, however many plans a step makes   *)
(* and whenever it is switched.                                            *)
UploadsIntact == \A k \in 1 .. Len(stream) : stream[k].kind = "upload" => stream[k].val = "intact"

(* A step's plan is the right one: in its counts and on its way.           *)
PlanExact == LensExact /\ UploadsIntact
=============================================================================
