-------------------------- MODULE AdaptiveKProofs --------------------------
(* Proofs about AdaptiveK that hold for any requests, draft lengths, modes *)
(* and number of steps in flight.                                          *)
EXTENDS AdaptiveK, TLAPS

Statuses == {"new", "prefill", "running", "preempted", "finished", "gone"}
Step == UNION {[S -> Lengths] : S \in SUBSET Reqs}

(* A report can only be about requests that have arrived: what it observes *)
(* of a request that is not finished belongs to a live one.                *)
Started == \A i \in 1 .. Len(steps) : \A r \in DOMAIN steps[i] : status[r] # "new"

Typed ==
  /\ status \in [Reqs -> Statuses]
  /\ spec \in [Reqs -> Lengths]
  /\ steps \in Seq(Step)

Policy == \A r \in DOMAIN state : state[r].zone \in Zones /\ state[r].k \in {KLo, KHi}

KeptInv ==
  /\ Typed
  /\ Policy
  /\ NoLeak
  /\ Started

-----------------------------------------------------------------------------
LEMMA StepDomain == ASSUME NEW f \in Step PROVE DOMAIN f \subseteq Reqs
  BY DEF Step

LEMMA LengthsType == NoDrafts \in Lengths /\ KLo \in 0 .. NumSpec /\ KHi \in 0 .. NumSpec
  BY AdaptiveKAssumption DEF NoDrafts, Lengths

(* The policy names a length between KLo and KHi, known request or not.    *)
LEMMA DecideType ==
  ASSUME Policy, NEW r PROVE ReqState(r).zone \in Zones /\ ReqState(r).k \in {KLo, KHi} /\ DecideOne(r) \in {KLo, KHi}
  <1>1. ReqState(r).zone \in Zones /\ ReqState(r).k \in {KLo, KHi}
    BY AdaptiveKAssumption DEF Policy, ReqState, KFor, Zones
  <1>2. QED
    BY <1>1 DEF DecideOne, KFor

LEMMA AssignType ==
  ASSUME Policy, NEW rs, NEW r PROVE AssignLength(rs, r) \in 0 .. NumSpec
  BY DecideType, LengthsType, AdaptiveKAssumption DEF AssignLength, DecideBatch

LEMMA InitKept == AdaptiveInit => KeptInv
  <1> SUFFICES ASSUME AdaptiveInit PROVE KeptInv
    OBVIOUS
  <1>1. Typed
    BY LengthsType DEF AdaptiveInit, Typed, Statuses
  <1>2. DOMAIN state = {}
    BY DEF AdaptiveInit
  <1>3. Started
    BY DEF AdaptiveInit, Started
  <1>4. QED
    BY <1>1, <1>2, <1>3 DEF KeptInv, Policy, NoLeak

-----------------------------------------------------------------------------
(* Steps that touch neither the queue of steps nor arrivals.               *)
LEMMA SameSteps ==
  ASSUME KeptInv, Typed', UNCHANGED steps,
         \A r \in Reqs : status[r] # "new" => status'[r] # "new"
  PROVE  Started'
  <1> SUFFICES ASSUME NEW i \in 1 .. Len(steps), NEW r \in DOMAIN steps[i] PROVE status'[r] # "new"
    BY DEF Started
  <1>1. steps[i] \in Step
    BY DEF KeptInv, Typed
  <1>2. r \in Reqs
    BY <1>1, StepDomain
  <1>3. QED
    BY <1>2 DEF KeptInv, Started

LEMMA ArriveKept == ASSUME KeptInv, NEW q \in Reqs, Arrive(q) PROVE KeptInv'
  <1>1. Typed'
    BY DEF Arrive, KeptInv, Typed, Statuses
  <1>2. Policy' /\ NoLeak'
    BY DEF Arrive, KeptInv, Policy, NoLeak, Live, Typed
  <1>3. \A r \in Reqs : status[r] # "new" => status'[r] # "new"
    BY DEF Arrive, KeptInv, Typed
  <1>4. QED
    BY <1>1, <1>2, <1>3, SameSteps DEF KeptInv, Arrive

LEMMA AbortKept == ASSUME KeptInv, NEW q \in Reqs, Abort(q) PROVE KeptInv'
  <1>1. PICK s \in {"finished", "gone"} : status' = [status EXCEPT ![q] = s]
    BY DEF Abort
  <1>2. Typed'
    BY <1>1, LengthsType DEF Abort, KeptInv, Typed, Statuses
  <1>3. state' = [r \in DOMAIN state \ {q} |-> state[r]]
    BY DEF Abort, Evict
  <1>4. Policy'
    BY <1>3 DEF KeptInv, Policy
  <1>5. NoLeak'
    BY <1>1, <1>3 DEF KeptInv, NoLeak, Live, Typed
  <1>6. \A r \in Reqs : status[r] # "new" => status'[r] # "new"
    BY <1>1 DEF KeptInv, Typed
  <1>7. QED
    BY <1>2, <1>4, <1>5, <1>6, SameSteps DEF KeptInv, Abort

LEMMA BlocksFreedKept == ASSUME KeptInv, NEW q \in Reqs, BlocksFreed(q) PROVE KeptInv'
  <1>1. Typed'
    BY DEF BlocksFreed, KeptInv, Typed, Statuses
  <1>2. Policy' /\ NoLeak'
    BY DEF BlocksFreed, KeptInv, Policy, NoLeak, Live, Typed
  <1>3. \A r \in Reqs : status[r] # "new" => status'[r] # "new"
    BY DEF BlocksFreed, KeptInv, Typed
  <1>4. QED
    BY <1>1, <1>2, <1>3, SameSteps DEF KeptInv, BlocksFreed

LEMMA PreemptKept == ASSUME KeptInv, NEW q \in Reqs, Preempt(q) PROVE KeptInv'
  <1>1. Typed'
    BY LengthsType DEF Preempt, KeptInv, Typed, Statuses
  <1>2. Policy' /\ NoLeak'
    BY DEF Preempt, KeptInv, Policy, NoLeak, Live, Typed
  <1>3. \A r \in Reqs : status[r] # "new" => status'[r] # "new"
    BY DEF Preempt, KeptInv, Typed
  <1>4. QED
    BY <1>1, <1>2, <1>3, SameSteps DEF KeptInv, Preempt

-----------------------------------------------------------------------------
LEMMA DraftsType == ASSUME Typed, NEW r \in Reqs PROVE Drafts(r) \in Lengths
  <1>1. spec[r] \in Lengths /\ NoDrafts \in Lengths
    BY LengthsType DEF Typed
  <1>2. [n |-> NumSpec, own |-> FALSE] \in Lengths
    BY AdaptiveKAssumption DEF Lengths
  <1>3. QED
    BY <1>1, <1>2 DEF Drafts

(* Scheduling keeps who is live, and the new step holds live requests.     *)
LEMMA ScheduledKept ==
  ASSUME KeptInv, NEW S \in SUBSET Live, NEW chunks \in SUBSET Live, Scheduled(S, chunks)
  PROVE  /\ status' \in [Reqs -> Statuses]
         /\ steps' \in Seq(Step)
         /\ Live \subseteq Live'
         /\ Started'
  <1> DEFINE step == [r \in S |-> Drafts(r)]
  <1>1. S \in SUBSET Reqs /\ \A r \in S : status[r] # "new"
    BY DEF Live
  <1>2. step \in Step
    <2>1. step \in [S -> Lengths]
      BY <1>1, DraftsType DEF KeptInv
    <2>2. QED
      BY <1>1, <2>1 DEF Step
  <1>3. status' = [r \in Reqs |-> IF r \in S \ chunks THEN "running" ELSE status[r]]
    BY DEF Scheduled
  <1>4. status' \in [Reqs -> Statuses]
    BY <1>3 DEF KeptInv, Typed, Statuses
  <1>5. steps' = Append(steps, step)
    BY DEF Scheduled
  <1>6. steps \in Seq(Step)
    BY DEF KeptInv, Typed
  <1>7. Live \subseteq Live'
    BY <1>3 DEF Live
  <1>8. Started'
    <2> SUFFICES ASSUME NEW i \in 1 .. Len(steps'), NEW r \in DOMAIN steps'[i]
                 PROVE  status'[r] # "new"
      BY DEF Started
    <2>1. (i \in 1 .. Len(steps) /\ steps'[i] = steps[i]) \/ steps'[i] = step
      BY <1>2, <1>5, <1>6
    <2>2. CASE i \in 1 .. Len(steps) /\ steps'[i] = steps[i]
      <3>1. r \in Reqs /\ status[r] # "new"
        BY <1>6, <2>2, StepDomain DEF KeptInv, Started
      <3>2. QED
        BY <1>3, <3>1
    <2>3. CASE steps'[i] = step
      <3>1. r \in S
        BY <2>3
      <3>2. QED
        BY <1>1, <1>3, <3>1
    <2>4. QED
      BY <2>1, <2>2, <2>3
  <1>9. QED
    BY <1>2, <1>4, <1>5, <1>6, <1>7, <1>8

LEMMA ScheduleKept == ASSUME KeptInv, ScheduleSized PROVE KeptInv'
  <1>1. PICK S \in SUBSET Live, chunks \in SUBSET Live : Scheduled(S, chunks) /\ Sized(S, chunks)
    BY DEF ScheduleSized
  <1> DEFINE rs == S \ chunks
  <1>2. /\ state' = [r \in DOMAIN state \cup rs |->
                      IF r \in rs THEN [zone |-> ReqState(r).zone, k |-> DecideOne(r)] ELSE state[r]]
        /\ spec' = [r \in Reqs |-> IF r \in rs THEN [n |-> AssignLength(rs, r), own |-> TRUE]
                                   ELSE spec[r]]
    BY <1>1 DEF Sized, With
  <1>3. spec' \in [Reqs -> Lengths]
    BY <1>2, AssignType DEF KeptInv, Typed, Lengths
  <1>4. Policy'
    BY <1>2, DecideType DEF KeptInv, Policy
  <1>5. NoLeak'
    BY <1>1, <1>2, ScheduledKept DEF KeptInv, NoLeak
  <1>6. QED
    BY <1>1, <1>3, <1>4, <1>5, ScheduledKept DEF KeptInv, Typed

LEMMA ScheduleAsBaseKept == ASSUME KeptInv, ScheduleAsBase PROVE KeptInv'
  <1>1. PICK S \in SUBSET Live, chunks \in SUBSET Live : Scheduled(S, chunks) /\ BaseOnly(S, chunks)
    BY DEF ScheduleAsBase
  <1>2. PICK n \in 0 .. NumSpec :
          spec' = [r \in Reqs |-> IF r \in S \ chunks THEN [n |-> n, own |-> FALSE] ELSE spec[r]]
    <2>1. PICK n \in (IF Table THEN {KLo, KHi} ELSE {NumSpec}) :
            spec' = [r \in Reqs |-> IF r \in S \ chunks THEN [n |-> n, own |-> FALSE] ELSE spec[r]]
      BY <1>1 DEF BaseOnly
    <2>2. n \in 0 .. NumSpec
      BY LengthsType, AdaptiveKAssumption
    <2>3. QED
      BY <2>1, <2>2
  <1>3. spec' \in [Reqs -> Lengths]
    BY <1>2 DEF KeptInv, Typed, Lengths
  <1>4. UNCHANGED state
    BY <1>1 DEF BaseOnly
  <1>5. Policy' /\ NoLeak'
    BY <1>1, <1>4, ScheduledKept DEF KeptInv, Policy, NoLeak
  <1>6. QED
    BY <1>1, <1>3, <1>5, ScheduledKept DEF KeptInv, Typed

-----------------------------------------------------------------------------
(* The base scheduler's part: what is live and does not finish stays live. *)
LEMMA FinishesKept ==
  ASSUME KeptInv, steps # <<>>, NEW fin \in SUBSET Live, NEW held \in {{}, fin},
         Finishes(Head(steps), fin, held)
  PROVE  Typed' /\ Started' /\ Live \ fin \subseteq Live'
  <1>1. steps \in Seq(Step) /\ steps' = Tail(steps)
    BY DEF Finishes, KeptInv, Typed
  <1>2. /\ status' = [r \in Reqs |-> IF r \in held THEN "finished"
                                     ELSE IF r \in fin THEN "gone" ELSE status[r]]
        /\ spec' = [r \in Reqs |-> IF r \in fin THEN NoDrafts ELSE spec[r]]
    BY DEF Finishes
  <1>3. Typed'
    BY <1>1, <1>2, LengthsType DEF KeptInv, Typed, Statuses
  <1>4. Live \ fin \subseteq Live'
    BY <1>2 DEF Live
  <1>5. Started'
    <2> SUFFICES ASSUME NEW i \in 1 .. Len(steps'), NEW r \in DOMAIN steps'[i]
                 PROVE  status'[r] # "new"
      BY DEF Started
    <2>1. i + 1 \in 1 .. Len(steps) /\ steps'[i] = steps[i + 1]
      BY <1>1
    <2>2. r \in Reqs /\ status[r] # "new"
      BY <1>1, <2>1, StepDomain DEF KeptInv, Started
    <2>3. QED
      BY <1>2, <2>2
  <1>6. QED
    BY <1>3, <1>4, <1>5

(* A late output is of a request that has started; observing it makes the  *)
(* policy track the request, so that it must not have ended by then.       *)
LEMMA ObservedLive ==
  ASSUME KeptInv, steps # <<>>, NEW r \in DOMAIN Head(steps), ShouldObserve(r, Head(steps))
  PROVE  r \in Live
  <1>1. Head(steps) \in Step /\ Head(steps) = steps[1] /\ 1 \in 1 .. Len(steps)
    BY DEF KeptInv, Typed
  <1>2. r \in Reqs /\ status[r] # "new"
    BY <1>1, StepDomain DEF KeptInv, Started
  <1>3. QED
    BY <1>2 DEF ShouldObserve, Live, KeptInv, Typed, Statuses

LEMMA ReportKept == ASSUME KeptInv, Report PROVE KeptInv'
  <1> DEFINE step == Head(steps)
  <1>1. steps # <<>>
    BY DEF Report
  <1>2. PICK gen \in SUBSET DOMAIN step, skip \in {failed, TRUE} :
          \E fin \in SUBSET (gen \cap Live) : \E held \in {{}, fin} :
            Outcome(step, gen, skip, fin) /\ Finishes(step, fin, held)
    BY DEF Report
  <1>3. PICK fin \in SUBSET (gen \cap Live) : \E held \in {{}, fin} :
          Outcome(step, gen, skip, fin) /\ Finishes(step, fin, held)
    BY <1>2
  <1>4. PICK held \in {{}, fin} : Outcome(step, gen, skip, fin) /\ Finishes(step, fin, held)
    BY <1>3
  <1>5. Typed' /\ Started' /\ Live \ fin \subseteq Live'
    BY <1>1, <1>4, FinishesKept
  <1> DEFINE obs == {r \in gen : ~skip /\ ShouldObserve(r, step)}
  <1>6. PICK zone \in [obs -> Zones] : state' = Evict(fin, Observe(obs, zone))
    BY <1>4 DEF Outcome
  <1>7. state' = [r \in (DOMAIN state \cup obs) \ fin |->
                    IF r \in obs THEN [ReqState(r) EXCEPT !.zone = zone[r]] ELSE state[r]]
    BY <1>6 DEF Evict, Observe, With
  <1>8. NoLeak'
    <2>1. obs \subseteq Live
      BY <1>1, ObservedLive
    <2>2. QED
      BY <1>5, <1>7, <2>1 DEF NoLeak, KeptInv
  <1>9. Policy'
    <2> SUFFICES ASSUME NEW r \in DOMAIN state' PROVE state'[r].zone \in Zones /\ state'[r].k \in {KLo, KHi}
      BY DEF Policy
    <2>1. CASE r \in obs
      <3>1. state'[r] = [ReqState(r) EXCEPT !.zone = zone[r]] /\ zone[r] \in Zones
        BY <1>7, <2>1
      <3>2. ReqState(r).k \in {KLo, KHi}
        BY DecideType DEF KeptInv
      <3>3. QED
        BY <3>1, <3>2 DEF ReqState, KeptInv, Policy
    <2>2. CASE r \notin obs
      BY <1>7, <2>2 DEF KeptInv, Policy
    <2>3. QED
      BY <2>1, <2>2
  <1>10. QED
    BY <1>5, <1>8, <1>9 DEF KeptInv

LEMMA ReportRaisesKept == ASSUME KeptInv, ReportRaises PROVE KeptInv'
  <1> DEFINE step == Head(steps)
  <1>1. steps # <<>>
    BY DEF ReportRaises
  <1>2. PICK gen \in SUBSET DOMAIN step :
          \E fin \in SUBSET (gen \cap Live) : \E held \in {{}, fin} :
            /\ \E obs \in SUBSET {r \in gen : ShouldObserve(r, step)} :
                 state' = Evict(fin, Touch(obs))
            /\ Finishes(step, fin, held)
    BY DEF ReportRaises
  <1>3. PICK fin \in SUBSET (gen \cap Live) : \E held \in {{}, fin} :
            /\ \E obs \in SUBSET {r \in gen : ShouldObserve(r, step)} :
                 state' = Evict(fin, Touch(obs))
            /\ Finishes(step, fin, held)
    BY <1>2
  <1>4. PICK held \in {{}, fin} : Finishes(step, fin, held)
    BY <1>3
  <1>5. Typed' /\ Started' /\ Live \ fin \subseteq Live'
    BY <1>1, <1>4, FinishesKept
  <1>6. PICK obs \in SUBSET {r \in gen : ShouldObserve(r, step)} :
          state' = Evict(fin, Touch(obs))
    BY <1>3
  <1>7. state' = [r \in (DOMAIN state \cup obs) \ fin |->
                    IF r \in obs THEN ReqState(r) ELSE state[r]]
    BY <1>6 DEF Evict, Touch, With
  <1>8. obs \subseteq Live
    BY <1>1, ObservedLive
  <1>9. NoLeak'
    BY <1>5, <1>7, <1>8 DEF NoLeak, KeptInv
  <1>10. Policy'
    BY <1>7, DecideType DEF KeptInv, Policy
  <1>11. QED
    BY <1>5, <1>9, <1>10 DEF KeptInv

LEMMA NextKept == KeptInv /\ [AdaptiveNext]_adaptiveVars => KeptInv'
  <1> SUFFICES ASSUME KeptInv, [AdaptiveNext]_adaptiveVars PROVE KeptInv'
    OBVIOUS
  <1>1. CASE UNCHANGED adaptiveVars
    BY <1>1 DEF adaptiveVars, KeptInv, Typed, Policy, NoLeak, Live, Started
  <1>2. QED
    BY <1>1, ArriveKept, AbortKept, BlocksFreedKept, PreemptKept, ScheduleKept,
       ScheduleAsBaseKept, ReportKept, ReportRaisesKept DEF AdaptiveNext

(* The policy forgets every request that ends, for good: whatever outputs  *)
(* are still in flight then (_free_request and should_observe).            *)
THEOREM PolicyKeepsNoEnded == AdaptiveSpec => []NoLeak
  <1>1. KeptInv => NoLeak
    BY DEF KeptInv
  <1>2. QED
    BY <1>1, InitKept, NextKept, PTL DEF AdaptiveSpec

-----------------------------------------------------------------------------
(* What is kept of the hand-outs.                                          *)

(* A step that is not reported yet was scheduled at most as many hand-outs *)
(* ago as there are steps behind it.  The hand-out of its own schedule is  *)
(* kept, and holds every request whose drafts are the policy's.            *)
Remembered(i, r) ==
  /\ Len(steps) - i < Len(ring)
  /\ r \in ring[Len(ring) - (Len(steps) - i)]

HandedInv ==
  /\ ring \in Seq(SUBSET Reqs)
  /\ ~failed => \A i \in 1 .. Len(steps) : \A r \in DOMAIN steps[i] :
                  steps[i][r].own => Remembered(i, r)

(* Only requests that run have drafts of the policy.                       *)
LEMMA OwnDrafts == ASSUME NEW r, Drafts(r).own PROVE status[r] = "running"
  BY DEF Drafts, NoDrafts

(* A hand-out goes to the end of the ring, and the ring keeps the latest.  *)
LEMMA PushLast ==
  ASSUME NEW rs \in SUBSET Reqs, ring \in Seq(SUBSET Reqs)
  PROVE  /\ PushRing(rs) \in Seq(SUBSET Reqs) /\ Len(PushRing(rs)) \in Nat \ {0}
         /\ PushRing(rs)[Len(PushRing(rs))] = rs
         /\ \A d \in Nat : d < Len(ring) /\ d < Slots - 1 =>
              /\ d + 1 < Len(PushRing(rs))
              /\ PushRing(rs)[Len(PushRing(rs)) - (d + 1)] = ring[Len(ring) - d]
  <1>1. CASE Len(ring) < Slots
    <2>1. PushRing(rs) = Append(ring, rs)
      BY <1>1 DEF PushRing
    <2>2. QED
      BY <2>1 DEF Slots
  <1>2. CASE ~(Len(ring) < Slots)
    <2>1. PushRing(rs) = Append(Tail(ring), rs)
      BY <1>2 DEF PushRing
    <2>2. ring # <<>> /\ Len(ring) >= Slots
      BY <1>2 DEF Slots
    <2>3. /\ Tail(ring) \in Seq(SUBSET Reqs) /\ Len(Tail(ring)) = Len(ring) - 1
          /\ \A j \in 1 .. Len(ring) - 1 : Tail(ring)[j] = ring[j + 1]
      BY <2>2
    <2>4. /\ PushRing(rs) \in Seq(SUBSET Reqs) /\ Len(PushRing(rs)) = Len(ring) /\ PushRing(rs)[Len(ring)] = rs
          /\ \A j \in 1 .. Len(ring) - 1 : PushRing(rs)[j] = ring[j + 1]
      BY <2>1, <2>2, <2>3 DEF Slots
    <2>5. ASSUME NEW d \in Nat, d < Len(ring), d < Slots - 1
          PROVE  d + 1 < Len(ring) /\ PushRing(rs)[Len(ring) - (d + 1)] = ring[Len(ring) - d]
      <3>1. Len(ring) - (d + 1) \in 1 .. Len(ring) - 1 /\ d + 1 < Len(ring)
        BY <2>2, <2>5 DEF Slots
      <3>2. (Len(ring) - (d + 1)) + 1 = Len(ring) - d
        BY <2>2, <2>5
      <3>3. QED
        BY <2>4, <3>1, <3>2
    <2>6. QED
      BY <2>2, <2>4, <2>5 DEF Slots
  <1>3. QED
    BY <1>1, <1>2

(* No hand-outs at first.                                                  *)
LEMMA InitHanded == AdaptiveInit => HandedInv
  BY DEF AdaptiveInit, HandedInv

(* The hand-out of a schedule stands for the step that it makes; the steps *)
(* before it are one hand-out further back.                                *)
LEMMA ScheduleHanded ==
  ASSUME MaxInFlight <= Slots, KeptInv, HandedInv, ScheduleSized
  PROVE  HandedInv'
  <1>1. PICK S \in SUBSET Live, chunks \in SUBSET Live : Scheduled(S, chunks) /\ Sized(S, chunks)
    BY DEF ScheduleSized
  <1> DEFINE rs == S \ chunks
             step == [r \in S |-> Drafts(r)]
             L == Len(steps)
  <1>2. /\ rs \in SUBSET Reqs /\ ring \in Seq(SUBSET Reqs) /\ steps \in Seq(Step)
        /\ L \in Nat /\ L < MaxInFlight /\ MaxInFlight \in Nat
    BY <1>1, AdaptiveKAssumption DEF Live, HandedInv, KeptInv, Typed, Scheduled
  <1>3. ring' = PushRing(rs)
    BY <1>1 DEF Sized
  <1>4. ring' \in Seq(SUBSET Reqs) /\ Len(ring') \in Nat \ {0} /\ ring'[Len(ring')] = rs
    BY <1>2, <1>3, PushLast
  <1>5. steps' = Append(steps, step)
    BY <1>1 DEF Scheduled
  <1>6. Len(steps') = L + 1 /\ steps'[L + 1] = step /\ \A i \in 1 .. L : steps'[i] = steps[i]
    BY <1>2, <1>5
  <1>7. ASSUME ~failed', NEW i \in 1 .. Len(steps'), NEW r \in DOMAIN steps'[i], steps'[i][r].own
        PROVE  Len(steps') - i < Len(ring') /\ r \in ring'[Len(ring') - (Len(steps') - i)]
    <2>1. CASE i = L + 1
      <3>1. r \in S /\ Drafts(r).own
        BY <1>6, <1>7, <2>1
      <3>2. r \in rs
        BY <1>1, <3>1, OwnDrafts DEF Scheduled
      <3>3. Len(steps') - i = 0
        BY <1>2, <1>6, <2>1
      <3>4. Len(ring') - 0 = Len(ring')
        BY <1>4
      <3>5. QED
        BY <1>4, <3>2, <3>3, <3>4
    <2>2. CASE i \in 1 .. L
      <3> DEFINE d == L - i
      <3>1. d \in Nat /\ d < Slots - 1 /\ Len(steps') - i = d + 1
        BY <1>2, <1>6, <2>2 DEF Slots
      <3>2. ~failed /\ r \in DOMAIN steps[i] /\ steps[i][r].own
        BY <1>6, <1>7, <2>2 DEF ScheduleSized
      <3>3. d < Len(ring) /\ r \in ring[Len(ring) - d]
        BY <2>2, <3>2 DEF HandedInv, Remembered
      <3>4. d + 1 < Len(ring') /\ ring'[Len(ring') - (d + 1)] = ring[Len(ring) - d]
        BY <1>2, <1>3, <3>1, <3>3, PushLast
      <3>5. QED
        BY <3>1, <3>3, <3>4
    <2>3. QED
      BY <1>2, <1>6, <2>1, <2>2
  <1>8. QED
    BY <1>4, <1>7 DEF HandedInv, Remembered

(* A report takes the oldest step away, and its hand-out is not needed.    *)
LEMMA ReportHanded ==
  ASSUME KeptInv, HandedInv, steps # <<>>, steps' = Tail(steps), UNCHANGED <<ring, failed>>
  PROVE  HandedInv'
  <1>1. steps \in Seq(Step) /\ Len(steps) \in Nat \ {0} /\ ring \in Seq(SUBSET Reqs) /\ Len(ring) \in Nat
    BY DEF KeptInv, Typed, HandedInv
  <1>2. Len(steps') = Len(steps) - 1 /\ \A i \in 1 .. Len(steps) - 1 : steps'[i] = steps[i + 1]
    BY <1>1
  <1>3. ASSUME ~failed', NEW i \in 1 .. Len(steps'), NEW r \in DOMAIN steps'[i], steps'[i][r].own
        PROVE  Len(steps') - i < Len(ring') /\ r \in ring'[Len(ring') - (Len(steps') - i)]
    <2>1. /\ i + 1 \in 1 .. Len(steps) /\ r \in DOMAIN steps[i + 1] /\ steps[i + 1][r].own /\ ~failed
          /\ Len(steps') - i = Len(steps) - (i + 1)
      BY <1>1, <1>2, <1>3
    <2>2. Remembered(i + 1, r)
      BY <2>1 DEF HandedInv
    <2>3. QED
      BY <2>1, <2>2 DEF Remembered
  <1>4. QED
    BY <1>1, <1>3 DEF HandedInv, Remembered

(* No step lets a hand-out of a step in flight be overwritten.             *)
LEMMA NextHanded ==
  ASSUME MaxInFlight <= Slots, KeptInv, HandedInv, [AdaptiveNext]_adaptiveVars
  PROVE  HandedInv'
  <1>1. CASE UNCHANGED <<steps, ring, failed>>
    BY <1>1 DEF HandedInv, Remembered
  <1>2. CASE failed' = TRUE /\ ring' = <<>>
    BY <1>2 DEF HandedInv
  <1>3. CASE Report
    <2>1. steps # <<>> /\ steps' = Tail(steps) /\ UNCHANGED <<ring, failed>>
      BY <1>3 DEF Report, Finishes
    <2>2. QED
      BY <2>1, ReportHanded
  <1>4. QED
    BY <1>1, <1>2, <1>3, ScheduleHanded
    DEF AdaptiveNext, adaptiveVars, Arrive, Abort, BlocksFreed, Preempt, ScheduleAsBase, ReportRaises

(* Whatever a step brings of the policy's own drafts is then observed.     *)
LEMMA ReportMisses ==
  ASSUME KeptInv, HandedInv, Report PROVE missed' = {}
  <1> DEFINE step == Head(steps)
  <1>1. steps # <<>> /\ steps \in Seq(Step) /\ ring \in Seq(SUBSET Reqs)
    BY DEF Report, KeptInv, Typed, HandedInv
  <1>2. 1 \in 1 .. Len(steps) /\ step = steps[1]
    BY <1>1
  <1>3. PICK gen \in SUBSET DOMAIN step, skip \in {failed, TRUE} :
          \E fin \in SUBSET (gen \cap Live) : Outcome(step, gen, skip, fin)
    BY DEF Report
  <1> DEFINE obs == {r \in gen : ~skip /\ ShouldObserve(r, step)}
             due == {r \in gen \cap Live : ~skip /\ stale[r] = 0 /\ step[r].n > 0}
  <1>4. missed' = {r \in due : step[r].own} \ obs
    BY <1>3 DEF Outcome
  <1>5. ASSUME NEW r \in due, step[r].own PROVE r \in obs
    <2>1. r \in gen /\ r \in Live /\ ~skip /\ stale[r] = 0 /\ step[r].n > 0 /\ r \in DOMAIN step
      OBVIOUS
    <2>2. ~failed
      BY <1>3, <2>1
    <2>3. Remembered(1, r)
      BY <1>2, <1>5, <2>1, <2>2 DEF HandedInv
    <2> DEFINE k == Len(ring) - (Len(steps) - 1)
    <2>4. k \in DOMAIN ring /\ r \in ring[k]
      BY <1>1, <1>2, <2>3 DEF Remembered
    <2>5. r \in Drafted
      BY <2>4 DEF Drafted, Range
    <2>6. status[r] \notin {"finished", "gone"}
      BY <2>1 DEF Live
    <2>7. QED
      BY <2>1, <2>5, <2>6 DEF ShouldObserve
  <1>6. QED
    BY <1>4, <1>5

(* A report finds the hand-out of its step, so the counter of misses       *)
(* stays.                                                                  *)
LEMMA NextMisses ==
  ASSUME KeptInv, HandedInv, NothingMissed, [AdaptiveNext]_adaptiveVars PROVE NothingMissed'
  <1>1. CASE Report
    BY <1>1, ReportMisses DEF NothingMissed
  <1>2. CASE missed' = missed \/ missed' = {}
    BY <1>2 DEF NothingMissed
  <1>3. QED
    BY <1>1, <1>2
    DEF AdaptiveNext, adaptiveVars, Arrive, Abort, BlocksFreed, Preempt, ScheduleSized, ScheduleAsBase, ReportRaises

(* The ring of three hand-outs (DraftedRing) suffices for a batch queue of *)
(* up to three steps: every result of the policy's own drafts is observed, *)
(* also for requests that steps left out in between.                       *)
THEOREM RingSuffices == ASSUME MaxInFlight <= Slots PROVE AdaptiveSpec => []NothingMissed
  <1> DEFINE Inv == KeptInv /\ HandedInv /\ NothingMissed
  <1>1. AdaptiveInit => Inv
    BY InitKept, InitHanded DEF AdaptiveInit, NothingMissed
  <1>2. Inv /\ [AdaptiveNext]_adaptiveVars => Inv'
    BY NextKept, NextHanded, NextMisses
  <1>3. Inv => NothingMissed
    OBVIOUS
  <1>4. QED
    BY <1>1, <1>2, <1>3, PTL DEF AdaptiveSpec

-----------------------------------------------------------------------------
(* One length per hand-out.                                                *)

(* The requests of the latest step that still run wait for the next one    *)
(* with the length of the hand-out behind that step.                       *)
LastHandOut ==
  Uniform /\ ~failed /\ steps # <<>> =>
    \A r, q \in DOMAIN steps[Len(steps)] :
      status[r] = "running" /\ status[q] = "running" => spec[r].n = spec[q].n

UniformInv == LastHandOut /\ UniformHandOuts

(* No hand-out at first.                                                   *)
LEMMA InitUniform == AdaptiveInit => UniformInv
  BY DEF AdaptiveInit, UniformInv, LastHandOut, UniformHandOuts

(* With a table a request verifies nothing but what it was handed.         *)
LEMMA TableDrafts ==
  ASSUME Table, NEW r, Drafts(r).n > 0 PROVE status[r] = "running" /\ Drafts(r) = spec[r]
  BY DEF Drafts, NoDrafts

(* A schedule with the table hands out one length.                         *)
LEMMA ScheduleUniform ==
  ASSUME Table, KeptInv, UniformInv, ScheduleSized, Uniform, ~failed
  PROVE  UniformInv'
  <1>1. PICK S \in SUBSET Live, chunks \in SUBSET Live : Scheduled(S, chunks) /\ Sized(S, chunks)
    BY DEF ScheduleSized
  <1> DEFINE rs == S \ chunks
             step == [r \in S |-> Drafts(r)]
             L == Len(steps)
  <1>2. steps \in Seq(Step) /\ L \in Nat /\ S \subseteq Reqs /\ DOMAIN step = S
    BY DEF KeptInv, Typed, Live
  <1>3. steps' = Append(steps, step)
    BY <1>1 DEF Scheduled
  <1>4. Len(steps') = L + 1 /\ steps'[L + 1] = step /\ \A i \in 1 .. L : steps'[i] = steps[i]
    BY <1>2, <1>3
  <1>5. ASSUME NEW r \in S, status'[r] = "running"
        PROVE  spec'[r].n = IF DecideBatch(rs) < NumSpec THEN DecideBatch(rs) ELSE NumSpec
    <2>1. /\ status' = [q \in Reqs |-> IF q \in rs THEN "running" ELSE status[q]]
          /\ chunks \subseteq {q \in S : status[q] = "prefill"}
      BY <1>1 DEF Scheduled
    <2>2. r \in rs
      BY <1>2, <1>5, <2>1
    <2>3. spec'[r] = [n |-> AssignLength(rs, r), own |-> TRUE]
      BY <1>1, <1>2, <2>2 DEF Sized
    <2>4. QED
      BY <2>3 DEF AssignLength
  <1>6. LastHandOut'
    BY <1>2, <1>4, <1>5 DEF LastHandOut
  <1>7. ASSUME NEW i \in 2 .. L + 1,
               NEW r \in DOMAIN steps'[i - 1] \cap DOMAIN steps'[i],
               NEW q \in DOMAIN steps'[i - 1] \cap DOMAIN steps'[i],
               steps'[i][r].n > 0, steps'[i][q].n > 0
        PROVE  steps'[i][r].n = steps'[i][q].n
    <2>1. CASE i = L + 1
      <3>1. L \in 1 .. L /\ steps'[i - 1] = steps[L] /\ steps'[i] = step /\ steps # <<>>
        BY <1>2, <1>4, <1>7, <2>1
      <3>2. /\ r \in DOMAIN steps[L] /\ q \in DOMAIN steps[L] /\ r \in S /\ q \in S
            /\ Drafts(r).n > 0 /\ Drafts(q).n > 0
        BY <1>2, <1>7, <3>1
      <3>3. status[r] = "running" /\ status[q] = "running" /\ Drafts(r) = spec[r] /\ Drafts(q) = spec[q]
        BY <3>2, TableDrafts
      <3>4. spec[r].n = spec[q].n
        BY <3>1, <3>2, <3>3 DEF UniformInv, LastHandOut
      <3>5. QED
        BY <3>1, <3>2, <3>3, <3>4
    <2>2. CASE i \in 2 .. L
      <3>1. i - 1 \in 1 .. L /\ i \in 1 .. L
        BY <1>2, <2>2
      <3>2. steps'[i - 1] = steps[i - 1] /\ steps'[i] = steps[i]
        BY <1>4, <3>1
      <3>3. QED
        BY <1>7, <2>2, <3>2 DEF UniformInv, UniformHandOuts
    <2>3. QED
      BY <1>2, <2>1, <2>2
  <1>8. UniformHandOuts'
    BY <1>4, <1>7 DEF UniformHandOuts
  <1>9. QED
    BY <1>6, <1>8 DEF UniformInv

(* A request that stops running has no placeholders left; no other action  *)
(* than a schedule makes one run or sizes its placeholders.                *)
LEMMA OtherUniform ==
  ASSUME KeptInv, UniformInv, failed' = failed,
         steps' = steps \/ (steps # <<>> /\ steps' = Tail(steps)),
         \A r \in Reqs : status'[r] = "running" => status[r] = "running" /\ spec'[r] = spec[r]
  PROVE  UniformInv'
  <1>1. steps \in Seq(Step) /\ Len(steps) \in Nat
    BY DEF KeptInv, Typed
  <1>2. ASSUME steps' # <<>> PROVE steps # <<>> /\ steps'[Len(steps')] = steps[Len(steps)]
    BY <1>1, <1>2
  <1>3. ASSUME steps # <<>>, NEW r \in DOMAIN steps[Len(steps)] PROVE r \in Reqs
    <2>1. steps[Len(steps)] \in Step
      BY <1>1, <1>3
    <2>2. QED
      BY <1>3, <2>1, StepDomain
  <1>4. LastHandOut'
    BY <1>2, <1>3 DEF UniformInv, LastHandOut
  <1>5. ASSUME NEW i \in 2 .. Len(steps'), steps' # steps
        PROVE  i + 1 \in 2 .. Len(steps) /\ steps'[i] = steps[i + 1] /\ steps'[i - 1] = steps[(i + 1) - 1]
    BY <1>1, <1>5
  <1>6. CASE steps' = steps
    BY <1>4, <1>6 DEF UniformInv, UniformHandOuts
  <1>7. CASE steps' # steps
    <2> SUFFICES ASSUME Uniform, ~failed', NEW i \in 2 .. Len(steps'),
                        NEW r \in DOMAIN steps'[i - 1] \cap DOMAIN steps'[i],
                        NEW q \in DOMAIN steps'[i - 1] \cap DOMAIN steps'[i],
                        steps'[i][r].n > 0, steps'[i][q].n > 0
                 PROVE  steps'[i][r].n = steps'[i][q].n
      BY <1>4 DEF UniformInv, UniformHandOuts
    <2>1. i + 1 \in 2 .. Len(steps) /\ steps'[i] = steps[i + 1] /\ steps'[i - 1] = steps[(i + 1) - 1]
      BY <1>5, <1>7
    <2>2. QED
      BY <2>1 DEF UniformInv, UniformHandOuts
  <1>8. QED
    BY <1>6, <1>7

(* The other actions keep the last hand-out.                               *)
LEMMA ActUniform ==
  ASSUME KeptInv, UniformInv,
         \/ \E r \in Reqs : Arrive(r) \/ Abort(r) \/ BlocksFreed(r) \/ Preempt(r)
         \/ Report
  PROVE  UniformInv'
  <1>1. failed' = failed /\ (steps' = steps \/ (steps # <<>> /\ steps' = Tail(steps)))
    BY DEF Arrive, Abort, BlocksFreed, Preempt, Report, Finishes
  <1>2. ASSUME NEW q \in Reqs, NEW x \in {"prefill", "finished", "gone", "preempted"},
               status' = [status EXCEPT ![q] = x], spec' = spec \/ spec' = [spec EXCEPT ![q] = NoDrafts],
               NEW r \in Reqs, status'[r] = "running"
        PROVE  status[r] = "running" /\ spec'[r] = spec[r]
    BY <1>2 DEF KeptInv, Typed
  <1>3. ASSUME Report, NEW r \in Reqs, status'[r] = "running"
        PROVE  status[r] = "running" /\ spec'[r] = spec[r]
    <2>1. PICK fin \in SUBSET Live : \E held \in {{}, fin} : Finishes(Head(steps), fin, held)
      BY <1>3 DEF Report
    <2>2. PICK held \in {{}, fin} : Finishes(Head(steps), fin, held)
      BY <2>1
    <2>3. QED
      BY <1>3, <2>2 DEF Finishes
  <1>4. \A r \in Reqs : status'[r] = "running" => status[r] = "running" /\ spec'[r] = spec[r]
    BY <1>2, <1>3 DEF Arrive, Abort, BlocksFreed, Preempt
  <1>5. QED
    BY <1>1, <1>4, OtherUniform

(* Every step keeps UniformInv.                                            *)
LEMMA NextUniform ==
  ASSUME Table, KeptInv, UniformInv, [AdaptiveNext]_adaptiveVars PROVE UniformInv'
  <1>1. CASE UNCHANGED adaptiveVars
    BY <1>1 DEF adaptiveVars, UniformInv, LastHandOut, UniformHandOuts
  <1>2. CASE ~Uniform \/ failed'
    BY <1>2 DEF UniformInv, LastHandOut, UniformHandOuts
  <1>3. CASE Uniform /\ ~failed' /\ ScheduleSized
    BY <1>3, ScheduleUniform DEF ScheduleSized
  <1>4. QED
    BY <1>1, <1>2, <1>3, ActUniform DEF AdaptiveNext, ScheduleAsBase, ReportRaises

(* With the table that goes with the mode (start.sh passes it always), the *)
(* requests of a step that were in the step before it verify one length,   *)
(* whoever was preempted, left out or finished in between.                 *)
THEOREM HandOutsUniform == ASSUME Table PROVE AdaptiveSpec => []UniformHandOuts
  <1> DEFINE Inv == KeptInv /\ UniformInv
  <1>1. AdaptiveInit => Inv
    BY InitKept, InitUniform
  <1>2. Inv /\ [AdaptiveNext]_adaptiveVars => Inv'
    BY NextKept, NextUniform
  <1>3. Inv => UniformHandOuts
    BY DEF UniformInv
  <1>4. QED
    BY <1>1, <1>2, <1>3, PTL DEF AdaptiveSpec
=============================================================================
