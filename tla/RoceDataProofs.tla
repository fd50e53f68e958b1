--------------------------- MODULE RoceDataProofs ---------------------------
(***************************************************************************)
(* What the collectives of RoceOneshot deliver: no step breaks DataInv and *)
(* LastConnection, and the properties about results, send slots and        *)
(* doorbells follow from them.                                             *)
(***************************************************************************)
EXTENDS RoceOneshotProofs

-----------------------------------------------------------------------------
(* The geometry of a collective.                                           *)

(* Every pack is in the share of some block of the grid.                   *)
LEMMA SharesCover ==
  ASSUME NEW n \in Ops, NEW i \in 0 .. Packs[n] - 1
  PROVE  \E b \in 0 .. Grid[n] - 1 : i \in Share(b, Grid[n], Packs[n])
  <1>1. Grid[n] \in Nat \ {0} /\ Packs[n] \in Nat /\ Threads \in Nat \ {0}
    BY GridType, SizeType, Constants, GeometryAssumption
  <1>2. i \in Nat
    BY <1>1
  <1>3. i \div Threads \in Nat
    BY <1>1, <1>2, ModSplit
  <1>4. (i \div Threads) % Grid[n] \in 0 .. Grid[n] - 1
    BY <1>1, <1>3, ModSplit
  <1>5. QED
    BY <1>4 DEF Share

(* The share of a block is part of what the collective carries, and that   *)
(* fits the cells of a slot.                                               *)
LEMMA ShareType ==
  ASSUME NEW n \in Ops, NEW b, NEW g
  PROVE  Share(b, g, Packs[n]) \subseteq 0 .. Packs[n] - 1 /\ 0 .. Packs[n] - 1 \subseteq Cells
         /\ Packs[n] # 0 /\ Packs[n] \in Nat
  BY SizeType, Constants DEF Share, Cells

(* Every pack is in the stripe of some HCA, and a stripe has no others.    *)
LEMMA StripesCover ==
  ASSUME NEW n \in Ops
  PROVE  /\ \A h \in Hcas : Stripe(h, Packs[n]) \subseteq 0 .. Packs[n] - 1
         /\ \A i \in 0 .. Packs[n] - 1 : \E h \in Hcas : i \in Stripe(h, Packs[n])
  <1> DEFINE m == Packs[n]
  <1>1. m \in Nat /\ NHca \in {1, 2}
    BY SizeType, Constants
  <1> HIDE DEF m
  <1>2. CASE NHca = 1
    <2>1. \A i \in 0 .. m - 1 : i \in Stripe(0, m)
      BY <1>1, <1>2 DEF Stripe, PackOffset, StripePacks
    <2>2. \A h \in Hcas : Stripe(h, m) \subseteq 0 .. m - 1
      BY <1>1, <1>2 DEF Stripe, PackOffset, StripePacks, Hcas
    <2>3. QED
      BY <1>2, <2>1, <2>2 DEF Hcas, m
  <1>3. CASE NHca = 2
    <2>1. \A i \in 0 .. m - 1 : i \in Stripe(0, m) \/ i \in Stripe(1, m)
      BY <1>1, <1>3 DEF Stripe, PackOffset, StripePacks
    <2>2. \A h \in Hcas : Stripe(h, m) \subseteq 0 .. m - 1
      BY <1>1, <1>3 DEF Stripe, PackOffset, StripePacks, Hcas
    <2>3. QED
      BY <1>3, <2>1, <2>2 DEF Hcas, m
  <1>4. QED
    BY <1>1, <1>2, <1>3

(* The slots alternate.                                                    *)
LEMMA SlotsAlternate ==
  ASSUME NEW n \in Nat
  PROVE  Slot(n) \in SlotIds /\ Slot(n + 1) \in SlotIds /\ Slot(n) # Slot(n + 1)
  BY DEF Slot, SlotIds, SLOTS

-----------------------------------------------------------------------------
(* How far the doorbell of a rank may be ahead of a peer.                  *)

(* The peer that the proxy posts to last is a peer.                        *)
LEMMA PeerOf == ASSUME NEW r \in Ranks PROVE LastPeer(r) \in Peers(r)
  BY Constants DEF LastPeer, Peers, Ranks

(* How far a rank may be ahead of a peer, in epochs, doorbells and posts.  *)
(* Everything about the reuse of a slot rests on the 2 in it.              *)
LEMMA Ahead ==
  ASSUME OrderInv, NEW r \in Ranks, NEW p \in Peers(r)
  PROVE  /\ ctrlSeq[r] \in 0 .. MaxOps /\ epoch[p] \in 0 .. MaxOps /\ epoch[r] \in 0 .. MaxOps
         /\ last[r] \in Nat /\ MaxOps \in Nat
         /\ epoch[r] <= epoch[p] + 1 /\ ctrlSeq[r] <= epoch[p] + 2
         /\ epoch[p] <= ctrlSeq[r] /\ epoch[p] <= last[r] + 1 /\ ctrlSeq[r] <= last[r] + 3
  <1>1. TypeInv /\ KernelInv /\ NetInv /\ p \in Ranks /\ r \in Peers(p)
    BY DEF OrderInv, Peers
  <1>2. /\ ctrlSeq[r] \in 0 .. MaxOps /\ epoch[r] \in 0 .. MaxOps /\ ctrlSeq[r] <= epoch[r] + 1
        /\ ctrlSeq[p] \in 0 .. MaxOps /\ epoch[p] \in 0 .. MaxOps /\ ctrlSeq[p] <= epoch[p] + 1
        /\ last[r] \in Nat /\ MaxOps \in Nat
    BY <1>1, SeqBound, Seqs0, Constants
  <1>3. epoch[r] <= ctrlSeq[p] /\ epoch[p] <= ctrlSeq[r] /\ epoch[p] <= last[r] + 1
    BY <1>1 DEF NetInv, SentInv, EpochSent, Within
  <1>4. QED
    BY <1>2, <1>3

(* A collective that the peer has not published yet is in the send slot.   *)
LEMMA Held ==
  ASSUME OrderInv, NEW r \in Ranks, HeldInv(r), NEW p \in Peers(r),
         NEW n \in Nat, n <= ctrlSeq[r], n > epoch[p]
  PROVE  Full(r, n) /\ n \in Ops
  <1>1. /\ ctrlSeq[r] \in 0 .. MaxOps /\ epoch[p] \in 0 .. MaxOps /\ epoch[r] \in 0 .. MaxOps
        /\ MaxOps \in Nat /\ epoch[r] <= epoch[p] + 1 /\ ctrlSeq[r] <= epoch[p] + 2
    BY Ahead
  <1>2. n \in Ops /\ ctrlSeq[r] # 0
    BY <1>1 DEF Ops
  <1>3. CASE n = ctrlSeq[r]
    BY <1>2, <1>3 DEF HeldInv
  <1>4. CASE n # ctrlSeq[r]
    <2>1. n = ctrlSeq[r] - 1 /\ ctrlSeq[r] > 1 /\ epoch[r] < ctrlSeq[r]
      BY <1>1, <1>2, <1>4 DEF Ops
    <2>2. QED
      BY <1>2, <2>1 DEF HeldInv
  <1>5. QED
    BY <1>2, <1>3, <1>4

-----------------------------------------------------------------------------
(* The staged shares.                                                      *)

(* What is staged stays staged when the blocks that have staged are the    *)
(* same,                                                                   *)
LEMMA StagedKept ==
  ASSUME NEW r \in Ranks, StagedInv(r), Past(r)' = Past(r),
         UNCHANGED <<launches[r], stageCtr[r], send[r]>>,
         Healthy(r)' => Healthy(r), Staging(r)' => Staging(r), ~Idle(r)' => ~Idle(r)
  PROVE  StagedInv(r)'
  <1>1. Staged(r) => Staged(r)'
    BY DEF Staged
  <1>2. QED
    BY <1>1 DEF StagedInv

(* What is staged stays staged in a step that leaves the kernel alone.     *)
LEMMA StagedSame ==
  ASSUME NEW r \in Ranks, StagedInv(r),
         UNCHANGED <<launches[r], stageCtr[r], send[r], pc[r], ctrlErr[r]>>
  PROVE  StagedInv(r)'
  <1>1. Past(r)' = Past(r)
    BY DEF Past, GridOf
  <1>2. (Healthy(r)' <=> Healthy(r)) /\ (Staging(r)' <=> Staging(r)) /\ (Idle(r)' <=> Idle(r))
    BY DEF Healthy, Staging, Idle
  <1>3. QED
    BY <1>1, <1>2, StagedKept

(* Stage copies one share and, when it rings, the size.                    *)
LEMMA StageSends ==
  ASSUME TypeInv, NEW r \in Ranks, KernelOf(r), NEW b \in Blocks, Stage(r, b)
  PROVE  LET n == launches[r]
             rings == stageCtr'[r][Grid[n]] % Grid[n] = 0
         IN  /\ n \in Ops /\ n = epoch[r] + 1
             /\ \A q \in Ranks : q # r => send'[q] = send[q] /\ ctrlBytes'[q] = ctrlBytes[q]
             /\ \A s \in SlotIds : s # Slot(n) => /\ send'[r][s] = send[r][s]
                                                  /\ ctrlBytes'[r][s] = ctrlBytes[r][s]
             /\ \A i \in Cells : send'[r][Slot(n)][i] =
                   IF i \in Share(b, Grid[n], Packs[n]) THEN n ELSE send[r][Slot(n)][i]
             /\ rings => ctrlBytes'[r][Slot(n)] = Packs[n] /\ ctrlSeq'[r] = n
             /\ ~rings => ctrlBytes' = ctrlBytes /\ ctrlSeq' = ctrlSeq
             /\ \A q \in Ranks : q # r => ctrlSeq'[q] = ctrlSeq[q]
  <1> DEFINE n == launches[r]
             g == Grid[n]
             share == Share(b, g, Packs[n])
             rings == stageCtr'[r][g] % g = 0
  <1>1. /\ pc[r][b] = "stage"
        /\ stageCtr'[r][g] = (stageCtr[r][g] + 1) % CtrMod
        /\ ctrlSeq' = IF rings THEN [ctrlSeq EXCEPT ![r] = epoch[r] + 1] ELSE ctrlSeq
    BY StageEffect
  <1>2. n \in Ops /\ reg[r][b] = n /\ n = epoch[r] + 1
    BY <1>1, Working DEF KernelOf, LaunchInv, Busy
  <1>3. Slot(n) \in SlotIds
    BY <1>2, SlotType DEF Ops
  <1>4. /\ send' = [send EXCEPT ![r][Slot(n)] = [i \in Cells |-> IF i \in share THEN n ELSE @[i]]]
        /\ ctrlBytes' = IF rings THEN [ctrlBytes EXCEPT ![r][Slot(n)] = Packs[n]] ELSE ctrlBytes
    BY <1>1, <1>2 DEF Stage, CounterClass
  <1>5. /\ send \in [Ranks -> [SlotIds -> [Cells -> 0 .. MaxOps]]]
        /\ ctrlBytes \in [Ranks -> [SlotIds -> 0 .. MaxPacks]]
        /\ ctrlSeq \in [Ranks -> Seqs]
    BY DEF TypeInv, TypeOK, RegionType
  <1> HIDE DEF n, g, share, rings
  <1>6. /\ \A q \in Ranks : q # r => send'[q] = send[q]
        /\ \A s \in SlotIds : s # Slot(n) => send'[r][s] = send[r][s]
        /\ \A i \in Cells : send'[r][Slot(n)][i] = IF i \in share THEN n ELSE send[r][Slot(n)][i]
    BY <1>3, <1>4, <1>5
  <1>7. /\ \A q \in Ranks : q # r => ctrlBytes'[q] = ctrlBytes[q]
        /\ \A s \in SlotIds : s # Slot(n) => ctrlBytes'[r][s] = ctrlBytes[r][s]
        /\ rings => ctrlBytes'[r][Slot(n)] = Packs[n]
        /\ ~rings => ctrlBytes' = ctrlBytes
    BY <1>3, <1>4, <1>5
  <1>8. /\ rings => ctrlSeq'[r] = n
        /\ ~rings => ctrlSeq' = ctrlSeq
        /\ \A q \in Ranks : q # r => ctrlSeq'[q] = ctrlSeq[q]
    BY <1>1, <1>2, <1>5
  <1>9. QED
    BY <1>2, <1>6, <1>7, <1>8 DEF n, g, share, rings

(* The block that stages writes its own share and nothing of another       *)
(* block's.                                                                *)
LEMMA StageStages ==
  ASSUME TypeInv, KernelInv, NEW r \in Ranks, NEW b \in Blocks, Stage(r, b), Staged(r)
  PROVE  Staged(r)'
  <1> DEFINE n == launches[r]
  <1>1. KernelOf(r)
    BY DEF KernelInv
  <1>2. /\ n \in Ops
        /\ \A i \in Cells : send'[r][Slot(n)][i] =
             IF i \in Share(b, Grid[n], Packs[n]) THEN n ELSE send[r][Slot(n)][i]
    BY <1>1, StageSends
  <1>3. Past(r)' = Past(r) \cup {b} /\ launches' = launches
    BY <1>1, StageCounts, StageEffect
  <1>4. ASSUME NEW a \in Past(r)', NEW i \in Share(a, Grid[n], Packs[n])
        PROVE  send'[r][Slot(n)][i] = n
    <2>1. i \in Cells
      BY <1>2, ShareType
    <2>2. CASE a = b
      BY <1>2, <2>1, <2>2
    <2>3. CASE a # b
      <3>1. a \in Past(r)
        BY <1>3, <2>3
      <3>2. send[r][Slot(n)][i] = n
        BY <3>1 DEF Staged
      <3>3. QED
        BY <1>2, <2>1, <3>2
    <2>4. QED
      BY <2>2, <2>3
  <1>5. QED
    BY <1>3, <1>4 DEF Staged

(* Each step of a block keeps the shares staged.                           *)
LEMMA StagedBlock ==
  ASSUME NoWrap, TypeInv, KernelInv, NEW r \in Ranks, StagedInv(r), NEW b \in Blocks, BlockStep(r, b)
  PROVE  StagedInv(r)'
  <1>1. KernelOf(r) /\ TypeInv' /\ KernelInv' /\ [Next]_vars
    <2>1. [Next]_vars
      BY DEF Next
    <2>2. QED
      BY <2>1, NextTypeInv, NextKernel DEF KernelInv
  <1>2. Healthy(r)' => Healthy(r)
    BY <1>1, ErrorStays
  <1>3. ASSUME NEW x \in {"check", "tail"}, pc[r][b] \in {"wait", "check"},
               pc' = [pc EXCEPT ![r][b] = x], UNCHANGED <<launches, stageCtr, send>>
        PROVE  StagedInv(r)'
    <2>1. /\ Past(r)' = Past(r) /\ (Idle(r)' <=> Idle(r)) /\ (Staging(r)' <=> Staging(r))
      BY <1>3, BusyMoves
    <2>2. QED
      BY <1>2, <1>3, <2>1, StagedKept
  <1>4. CASE WaitDone(r, b) \/ Timeout(r, b) \/ Reduce(r, b)
    <2>1. UNCHANGED <<launches, stageCtr, send>>
      BY <1>4 DEF WaitDone, Timeout, Reduce, hostVars, regionVars
    <2>2. pc[r][b] \in {"wait", "check"} /\ \E x \in {"check", "tail"} : pc' = [pc EXCEPT ![r][b] = x]
      BY <1>4 DEF WaitDone, Timeout, Reduce
    <2>3. QED
      BY <1>3, <2>1, <2>2
  <1>5. CASE Publish(r, b)
    <2>1. /\ pc[r][b] = "tail" /\ pc' = [pc EXCEPT ![r][b] = "done"] /\ Past(r)' = Past(r)
          /\ UNCHANGED <<launches, stageCtr, send>>
      BY <1>1, <1>5, PublishEffect DEF regionVars
    <2>2. pc'[r][b] = "done" /\ \A a \in Blocks : a # b => pc'[r][a] = pc[r][a]
      BY <2>1, PcType
    <2>3. (Staging(r)' => Staging(r)) /\ ~Idle(r)
      BY <2>1, <2>2 DEF Staging, Idle
    <2>4. QED
      BY <1>2, <2>1, <2>3, StagedKept
  <1>6. CASE Start(r, b)
    <2>1. /\ pc[r][b] = "start" /\ UNCHANGED <<launches, stageCtr, send>>
          /\ pc' = [pc EXCEPT ![r][b] = IF poison[r] = 0 THEN "stage" ELSE "done"]
      BY <1>6 DEF Start, hostVars, regionVars
    <2>2. b \in GridOf(r) /\ GridOf(r) \subseteq Blocks /\ ~Idle(r)
      BY <1>1, <2>1, Working DEF KernelOf
    <2>3. GridOf(r)' = GridOf(r)
      BY <2>1 DEF GridOf
    <2>4. CASE poison[r] = 0
      <3>0. pc' = [pc EXCEPT ![r][b] = "stage"]
        BY <2>1, <2>4
      <3>1. pc'[r][b] = "stage" /\ \A a \in Blocks : a # b => pc'[r][a] = pc[r][a]
        BY <3>0, PcType
      <3>2. Past(r)' = Past(r)
        BY <2>1, <2>2, <2>3, <3>1 DEF Past
      <3>3. Staged(r)
        BY <1>1, <2>2, <2>4 DEF KernelOf, PoisonInv, Healthy, StagedInv
      <3>4. Staged(r)'
        BY <2>1, <3>2, <3>3 DEF Staged
      <3>5. QED
        BY <3>4 DEF StagedInv
    <2>5. CASE poison[r] # 0
      <3>0. pc' = [pc EXCEPT ![r][b] = "done"]
        BY <2>1, <2>5
      <3>1. pc'[r][b] = "done" /\ \A a \in Blocks : a # b => pc'[r][a] = pc[r][a]
        BY <3>0, PcType
      <3>2. ~Healthy(r)'
        BY <1>1, <1>2, <2>5 DEF KernelOf, PoisonInv, Healthy
      <3>3. Past(r)' = Past(r) \cup {b} /\ b \notin Past(r)
        BY <2>1, <2>2, <2>3, <3>1 DEF Past
      <3>4. ASSUME Staging(r)'
            PROVE  stageCtr[r][Grid[launches[r]]] % Grid[launches[r]] # Cardinality(Past(r)')
        <4> DEFINE g == Grid[launches[r]]
        <4>1. Staging(r)
          BY <2>1, <3>1, <3>4 DEF Staging
        <4>2. stageCtr[r][g] % g <= Cardinality(Past(r))
          BY <1>1, <4>1 DEF KernelOf, ArrivalInv
        <4>3. g \in Nat \ {0} /\ b \in 0 .. g - 1 /\ Past(r) \in SUBSET (0 .. g - 1)
          BY <1>1, <2>1, <2>2, Working, PastType DEF KernelOf, GridOf
        <4>4. g \in 1 .. MaxBlocks /\ stageCtr[r][g] \in Nat
          BY <1>1, <2>1, Working, KernelType, Constants DEF KernelOf
        <4> HIDE DEF g
        <4>5. /\ Cardinality(Past(r)) \in 0 .. g - 1
              /\ Cardinality(Past(r) \cup {b}) = Cardinality(Past(r)) + 1
              /\ Cardinality(Past(r)) + 1 = g <=> Past(r) \cup {b} = 0 .. g - 1
          <5>1. b \notin Past(r)
            BY <3>3
          <5> QED
            BY <4>3, <5>1, AddBlock, Zenon
        <4>6. stageCtr[r][g] % g \in Nat
          BY <4>3, <4>4, ModSplit
        <4>7. stageCtr[r][g] % g # Cardinality(Past(r)) + 1
          BY <4>2, <4>5, <4>6
        <4>8. QED
          BY <3>3, <4>5, <4>7 DEF g
      <3>5. QED
        BY <2>1, <3>2, <3>4 DEF StagedInv
    <2>6. QED
      BY <2>4, <2>5
  <1>7. CASE Stage(r, b)
    <2>1. Healthy(r)' /\ ~Idle(r)' => Staged(r)
      <3>1. pc[r][b] = "stage"
        BY <1>7 DEF Stage
      <3>2. ~Idle(r)
        BY <3>1 DEF Idle
      <3>3. QED
        BY <1>2, <3>2 DEF StagedInv
    <2>2. stageCtr'[r][Grid[launches[r]]] % Grid[launches[r]] = Cardinality(Past(r)') => Staged(r)
      <3>1. pc[r][b] = "stage"
        BY <1>7 DEF Stage
      <3>2. Staging(r)
        BY <3>1 DEF Staging
      <3>3. QED
        BY <1>1, <1>7, <3>2, StageCounts DEF StagedInv
    <2>3. launches' = launches
      BY <1>1, <1>7, StageEffect
    <2>4. QED
      BY <1>7, <2>1, <2>2, <2>3, StageStages DEF StagedInv
  <1>8. QED
    BY <1>4, <1>5, <1>6, <1>7 DEF BlockStep

(* A block writes nothing of another rank.                                 *)
LEMMA BlockElsewhere ==
  ASSUME TypeInv, NEW q \in Ranks, NEW b \in Blocks, BlockStep(q, b), NEW r \in Ranks, r # q
  PROVE  UNCHANGED <<epoch[r], poison[r], stageCtr[r], pc[r], reg[r], out[r],
                     send[r], ctrlSeq[r], ctrlErr[r], ctrlBytes[r]>>
  <1>1. /\ pc \in [Ranks -> [Blocks -> {"start", "stage", "wait", "check", "tail", "done"}]]
        /\ reg \in [Ranks -> [Blocks -> Seqs]]
        /\ epoch \in [Ranks -> Seqs] /\ poison \in [Ranks -> Seqs]
        /\ stageCtr \in [Ranks -> [1 .. MaxBlocks -> 0 .. CtrMod - 1]]
        /\ out \in [Ranks -> [Cells -> {Unset} \cup [Ranks -> 0 .. MaxOps]]]
    BY DEF TypeInv, TypeOK, GpuType
  <1>2. /\ send \in [Ranks -> [SlotIds -> [Cells -> 0 .. MaxOps]]]
        /\ ctrlSeq \in [Ranks -> Seqs] /\ ctrlErr \in [Ranks -> Seqs]
        /\ ctrlBytes \in [Ranks -> [SlotIds -> 0 .. MaxPacks]]
    BY DEF TypeInv, TypeOK, RegionType
  <1>3. CASE Start(q, b)
    BY <1>1, <1>3 DEF Start, regionVars
  <1>4. CASE Stage(q, b)
    BY <1>1, <1>2, <1>4 DEF Stage
  <1>5. CASE WaitDone(q, b)
    BY <1>1, <1>5 DEF WaitDone, regionVars
  <1>6. CASE Timeout(q, b)
    BY <1>1, <1>2, <1>6 DEF Timeout
  <1>7. CASE Reduce(q, b)
    BY <1>1, <1>7 DEF Reduce, regionVars
  <1>8. CASE Publish(q, b)
    BY <1>1, <1>8 DEF Publish, regionVars
  <1>9. QED
    BY <1>3, <1>4, <1>5, <1>6, <1>7, <1>8 DEF BlockStep

(* The launch on one rank leaves the kernel of another alone.              *)
LEMMA LaunchElsewhere ==
  ASSUME TypeInv, NEW q \in Ranks, Launch(q), NEW r \in Ranks, r # q
  PROVE  launches'[r] = launches[r] /\ pc'[r] = pc[r] /\ out'[r] = out[r]
  <1>1. /\ pc \in [Ranks -> [Blocks -> {"start", "stage", "wait", "check", "tail", "done"}]]
        /\ launches \in [Ranks -> 0 .. MaxOps]
        /\ out \in [Ranks -> [Cells -> {Unset} \cup [Ranks -> 0 .. MaxOps]]]
    BY DEF TypeInv, TypeOK, GpuType, HostType
  <1>2. QED
    BY <1>1 DEF Launch

(* What the launch of a grid sets: every block at its start, the output    *)
(* empty.                                                                  *)
LEMMA LaunchEffect ==
  ASSUME TypeInv, NEW r \in Ranks, Launch(r)
  PROVE  /\ Idle(r) /\ launches'[r] = launches[r] + 1 /\ launches'[r] \in Ops
         /\ \A b \in Blocks : pc'[r][b] = IF b < Grid[launches'[r]] THEN "start" ELSE "done"
         /\ \A i \in Cells : out'[r][i] = Unset
         /\ UNCHANGED <<host, epoch, poison, stageCtr, tailCtr, reg, regionVars, proxyVars, netVars>>
  <1>1. /\ pc \in [Ranks -> [Blocks -> {"start", "stage", "wait", "check", "tail", "done"}]]
        /\ launches \in [Ranks -> 0 .. MaxOps]
        /\ out \in [Ranks -> [Cells -> {Unset} \cup [Ranks -> 0 .. MaxOps]]]
    BY DEF TypeInv, TypeOK, GpuType, HostType
  <1>2. launches'[r] = launches[r] + 1 /\ launches[r] \in 0 .. MaxOps /\ launches[r] < MaxOps
    BY <1>1 DEF Launch
  <1>3. launches'[r] \in Ops
    BY <1>2, Constants DEF Ops
  <1>4. \A b \in Blocks : pc'[r][b] = IF b < Grid[launches'[r]] THEN "start" ELSE "done"
    BY <1>1, <1>2 DEF Launch
  <1>5. QED
    BY <1>1, <1>2, <1>3, <1>4 DEF Launch

(* Every step of the system keeps the shares staged.                       *)
LEMMA NextStaged ==
  ASSUME NoWrap, TypeInv, KernelInv, [Next]_vars, NEW r \in Ranks, StagedInv(r)
  PROVE  StagedInv(r)'
  <1>1. ASSUME NEW q \in Ranks, NEW b \in Blocks, BlockStep(q, b) PROVE StagedInv(r)'
    <2>1. CASE q = r
      BY <1>1, <2>1, StagedBlock
    <2>2. CASE q # r
      <3>1. UNCHANGED <<launches[r], stageCtr[r], send[r], pc[r], ctrlErr[r]>>
        BY <1>1, <2>2, BlockElsewhere, BlockQuiet DEF hostVars
      <3>2. QED
        BY <3>1, StagedSame
    <2>3. QED
      BY <2>1, <2>2
  <1>2. ASSUME NEW q \in Ranks, Launch(q) PROVE StagedInv(r)'
    <2>1. CASE q = r
      <3>1. /\ launches'[r] \in Ops
            /\ \A b \in Blocks : pc'[r][b] = IF b < Grid[launches'[r]] THEN "start" ELSE "done"
        BY <1>2, <2>1, LaunchEffect
      <3>2. GridOf(r)' \subseteq Blocks /\ \A b \in GridOf(r)' : b < Grid[launches'[r]]
        BY <3>1, GridType DEF GridOf
      <3>3. Past(r)' = {}
        BY <3>1, <3>2 DEF Past
      <3>4. QED
        BY <3>3 DEF StagedInv, Staged
    <2>2. CASE q # r
      <3>1. UNCHANGED <<launches[r], stageCtr[r], send[r], pc[r], ctrlErr[r]>>
        BY <1>2, <2>2, LaunchElsewhere, LaunchEffect DEF regionVars
      <3>2. QED
        BY <3>1, StagedSame
    <2>3. QED
      BY <2>1, <2>2
  <1>3. ASSUME UNCHANGED <<launches, stageCtr, send, pc, ctrlErr>> PROVE StagedInv(r)'
    BY <1>3, StagedSame
  <1>4. ASSUME NEW q \in Ranks, NEW p \in Peers(q), NEW h \in Hcas,
               NicStep(q, p, h) \/ BreakQp(q, p, h)
        PROVE  UNCHANGED <<launches, stageCtr, send, pc, ctrlErr>>
    BY <1>4, NicQuiet DEF gpuVars, hostVars
  <1>5. ASSUME NEW q \in Ranks, ProxyStep(q)
        PROVE  UNCHANGED <<launches, stageCtr, send, pc, ctrlErr>>
    BY <1>5, ProxyQuiet DEF gpuVars, hostVars, regionVars
  <1>6. ASSUME NEW q \in Ranks,
               CheckHealth(q) \/ Close(q) \/ Destroy(q) \/ RoceStop(q) \/ RoceStart(q)
        PROVE  UNCHANGED <<launches, stageCtr, send, pc, ctrlErr>>
    BY <1>6, HostQuiet DEF gpuVars, regionVars
  <1>7. ASSUME UNCHANGED vars PROVE UNCHANGED <<launches, stageCtr, send, pc, ctrlErr>>
    BY <1>7 DEF vars, gpuVars, hostVars, regionVars
  <1>8. QED
    BY <1>1, <1>2, <1>3, <1>4, <1>5, <1>6, <1>7 DEF Next, Done

-----------------------------------------------------------------------------
(* The send slots and the sizes that belong to the last two doorbells.     *)

(* A send slot goes on holding the collectives whose doorbell rang and that*)
(* it has not yet to give up.                                              *)
LEMMA HeldKept ==
  ASSUME NEW r \in Ranks, HeldInv(r), UNCHANGED <<send[r], ctrlSeq[r], ctrlBytes[r]>>,
         epoch'[r] < ctrlSeq[r] => epoch[r] < ctrlSeq[r]
  PROVE  HeldInv(r)'
  BY DEF HeldInv, Full

(* A block that stages the next collective takes the other slot, so the    *)
(* held collectives stay.                                                  *)
LEMMA HeldStage ==
  ASSUME NoWrap, TypeInv, KernelInv, NEW r \in Ranks, StagedInv(r), HeldInv(r),
         NEW b \in Blocks, Stage(r, b)
  PROVE  HeldInv(r)'
  <1> DEFINE n == launches[r]
             g == Grid[n]
             c == ctrlSeq[r]
  <1>1. KernelOf(r)
    BY DEF KernelInv
  <1>2. /\ n \in Ops /\ n = epoch[r] + 1
        /\ \A s \in SlotIds : s # Slot(n) => send'[r][s] = send[r][s] /\ ctrlBytes'[r][s] = ctrlBytes[r][s]
        /\ stageCtr'[r][g] % g = 0 => ctrlBytes'[r][Slot(n)] = Packs[n] /\ ctrlSeq'[r] = n
        /\ stageCtr'[r][g] % g # 0 => ctrlBytes' = ctrlBytes /\ ctrlSeq' = ctrlSeq
    BY <1>1, StageSends
  <1>3. pc[r][b] = "stage" /\ epoch' = epoch /\ launches' = launches
    BY <1>1, StageEffect
  <1>4. Staging(r)
    BY <1>3 DEF Staging
  <1>5. c = epoch[r] /\ c \in Nat /\ n = c + 1
    BY <1>1, <1>2, <1>4, KernelType DEF KernelOf, DoorbellInv
  <1>6. Slot(c) \in SlotIds /\ Slot(n) \in SlotIds /\ Slot(c) # Slot(n)
    BY <1>5, SlotsAlternate
  <1>7. c # 0 => (\A i \in 0 .. Packs[c] - 1 : send'[r][Slot(c)][i] = c) /\ ctrlBytes'[r][Slot(c)] = Packs[c]
    BY <1>2, <1>6 DEF HeldInv, Full
  <1>8. CASE stageCtr'[r][g] % g # 0
    <2>1. c > 1 => ctrlBytes'[r][Slot(c - 1)] = Packs[c - 1]
      BY <1>2, <1>8 DEF HeldInv
    <2>2. QED
      BY <1>2, <1>3, <1>5, <1>7, <1>8, <2>1 DEF HeldInv, Full
  <1>9. CASE stageCtr'[r][g] % g = 0
    <2>1. Past(r)' = GridOf(r) /\ stageCtr[r][g] % g = Cardinality(Past(r))
      BY <1>1, <1>9, StageCounts
    <2>2. Staged(r)'
      BY <1>4, <2>1, StageStages DEF StagedInv
    <2>3. ASSUME NEW i \in 0 .. Packs[n] - 1 PROVE send'[r][Slot(n)][i] = n
      <3>1. PICK a \in 0 .. g - 1 : i \in Share(a, g, Packs[n])
        BY <1>2, SharesCover
      <3>2. a \in Past(r)'
        BY <2>1, <3>1 DEF GridOf
      <3>3. QED
        BY <1>3, <2>2, <3>1, <3>2 DEF Staged
    <2>4. ctrlSeq'[r] = n /\ ctrlBytes'[r][Slot(n)] = Packs[n]
      BY <1>2, <1>9
    <2>5. n - 1 = c /\ (n > 1 => c # 0)
      BY <1>5
    <2>6. QED
      BY <1>3, <1>7, <2>3, <2>4, <2>5 DEF HeldInv, Full
  <1>10. QED
    BY <1>8, <1>9

(* Every step of the system keeps the held collectives.                    *)
LEMMA NextHeld ==
  ASSUME NoWrap, TypeInv, KernelInv, [Next]_vars, NEW r \in Ranks, StagedInv(r), HeldInv(r)
  PROVE  HeldInv(r)'
  <1>0. epoch'[r] < ctrlSeq[r] => epoch[r] < ctrlSeq[r]
    <2>1. epoch'[r] = epoch[r] \/ epoch'[r] = epoch[r] + 1
      BY EpochMoves
    <2>2. QED
      BY <2>1, KernelType
  <1>1. ASSUME NEW q \in Ranks, NEW b \in Blocks, BlockStep(q, b) PROVE HeldInv(r)'
    <2>1. CASE q # r
      BY <1>0, <1>1, <2>1, BlockElsewhere, HeldKept
    <2>2. CASE q = r /\ Stage(r, b)
      BY <2>2, HeldStage
    <2>3. CASE q = r /\ ~Stage(r, b)
      <3>1. UNCHANGED <<send, ctrlSeq, ctrlBytes>>
        BY <1>1, <2>3 DEF BlockStep, Start, WaitDone, Timeout, Reduce, Publish, regionVars
      <3>2. QED
        BY <1>0, <3>1, HeldKept
    <2>4. QED
      BY <2>1, <2>2, <2>3
  <1>2. ASSUME UNCHANGED <<send, ctrlSeq, ctrlBytes>> PROVE HeldInv(r)'
    BY <1>0, <1>2, HeldKept
  <1>3. ASSUME NEW q \in Ranks, Launch(q) PROVE UNCHANGED <<send, ctrlSeq, ctrlBytes>>
    BY <1>3, LaunchEffect DEF regionVars
  <1>4. ASSUME NEW q \in Ranks, NEW p \in Peers(q), NEW h \in Hcas,
               NicStep(q, p, h) \/ BreakQp(q, p, h)
        PROVE  UNCHANGED <<send, ctrlSeq, ctrlBytes>>
    BY <1>4, NicQuiet
  <1>5. ASSUME NEW q \in Ranks, ProxyStep(q) PROVE UNCHANGED <<send, ctrlSeq, ctrlBytes>>
    BY <1>5, ProxyQuiet DEF regionVars
  <1>6. ASSUME NEW q \in Ranks,
               CheckHealth(q) \/ Close(q) \/ Destroy(q) \/ RoceStop(q) \/ RoceStart(q)
        PROVE  UNCHANGED <<send, ctrlSeq, ctrlBytes>>
    BY <1>6, HostQuiet DEF regionVars
  <1>7. ASSUME UNCHANGED vars PROVE UNCHANGED <<send, ctrlSeq, ctrlBytes>>
    BY <1>7 DEF vars, regionVars
  <1>8. QED
    BY <1>1, <1>2, <1>3, <1>4, <1>5, <1>6, <1>7 DEF Next, Done

(* The size of a doorbell that is pending.                                 *)
LEMMA SizeWord ==
  ASSUME NEW r \in Ranks, HeldInv(r), NEW n \in Nat \ {0}, ctrlSeq[r] \in Nat,
         n <= ctrlSeq[r], ctrlSeq[r] <= n + 1
  PROVE  ctrlBytes[r][Slot(n)] = Packs[n]
  <1>1. CASE n = ctrlSeq[r]
    BY <1>1 DEF HeldInv
  <1>2. CASE n # ctrlSeq[r]
    <2>1. n = ctrlSeq[r] - 1 /\ ctrlSeq[r] > 1
      BY <1>2
    <2>2. QED
      BY <2>1 DEF HeldInv
  <1>3. QED
    BY <1>1, <1>2

(* The size that the proxy posts with stays the size of the collective it  *)
(* posts.                                                                  *)
LEMMA NextSize ==
  ASSUME NoWrap, OrderInv, [Next]_vars, NEW r \in Ranks, HeldInv(r), SizeInv(r)
  PROVE  SizeInv(r)'
  <1>1. TypeInv /\ KernelInv /\ (\A q \in Ranks : ProxyInv(q)) /\ TypeInv'
    BY NextTypeInv DEF OrderInv, NetInv
  <1>2. /\ ctrlSeq[r] \in Nat /\ last[r] \in Nat /\ ctrlSeq[r] <= last[r] + 3 /\ pend[r] \in 0 .. 2
    BY <1>1, PeerOf, Ahead, KernelType, Seqs0 DEF SLOTS
  <1>3. ASSUME last'[r] = last[r], nbytes'[r] = nbytes[r], px'[r] = px[r] \/ px'[r] # "post"
        PROVE  SizeInv(r)'
    BY <1>3 DEF SizeInv
  <1>4. ASSUME NEW q \in Ranks, SeeDoorbell(q) PROVE SizeInv(r)'
    <2>1. CASE q # r
      BY <1>1, <1>3, <1>4, <2>1, SeeDoorbellEffect
    <2>2. CASE q = r /\ px'[r] = "post"
      <3>1. /\ last'[r] = last[r] /\ pend'[r] = ctrlSeq[r] - last[r] /\ pend'[r] <= SLOTS
            /\ nbytes'[r] = ctrlBytes[r][Slot(last[r] + 1)]
        BY <1>1, <1>4, <2>2, SeeDoorbellEffect
      <3>2. pend'[r] # 0 /\ last[r] <= ctrlSeq[r]
        BY <1>1, <2>2 DEF TypeInv, Running, ProxyInv
      <3>3. last[r] + 1 \in Nat \ {0} /\ last[r] + 1 <= ctrlSeq[r] /\ ctrlSeq[r] <= last[r] + 1 + 1
        BY <1>2, <3>1, <3>2 DEF SLOTS
      <3>4. QED
        BY <1>2, <3>1, <3>3, SizeWord DEF SizeInv
    <2>3. CASE px'[r] # "post"
      BY <2>3 DEF SizeInv
    <2>4. QED
      BY <2>1, <2>2, <2>3
  <1>5. ASSUME NEW q \in Ranks, EndOp(q) PROVE SizeInv(r)'
    <2>1. CASE q # r
      BY <1>1, <1>3, <1>5, <2>1, EndOpEffect
    <2>2. CASE q = r /\ px'[r] = "post"
      <3>1. /\ px[r] = "post" /\ last'[r] = last[r] + 1 /\ pend[r] > 1
            /\ nbytes'[r] = ctrlBytes[r][Slot(last[r] + 2)]
        BY <1>1, <1>5, <2>2, EndOpEffect
      <3>2. last[r] + pend[r] <= ctrlSeq[r]
        BY <1>1, <3>1 DEF ProxyInv
      <3>3. last[r] + 2 \in Nat \ {0} /\ last[r] + 2 <= ctrlSeq[r] /\ ctrlSeq[r] <= last[r] + 2 + 1
        BY <1>2, <3>1, <3>2
      <3>4. nbytes'[r] = Packs[last[r] + 2] /\ last'[r] + 1 = last[r] + 2
        BY <1>2, <3>1, <3>3, SizeWord
      <3>5. QED
        BY <3>4 DEF SizeInv
    <2>3. CASE px'[r] # "post"
      BY <2>3 DEF SizeInv
    <2>4. QED
      BY <2>1, <2>2, <2>3
  <1>6. ASSUME NEW q \in Ranks,
               \/ Post(q) \/ PostFails(q) \/ ThreadExit(q) \/ \E h \in Hcas : DrainFails(q, h)
               \/ CheckHealth(q) \/ Close(q) \/ Destroy(q) \/ RoceStop(q) \/ RoceStart(q)
        PROVE  SizeInv(r)'
    BY <1>1, <1>3, <1>6, ProxyStays
  <1>7. ASSUME UNCHANGED proxyVars PROVE SizeInv(r)'
    BY <1>3, <1>7 DEF proxyVars
  <1>8. ASSUME NEW q \in Ranks, Launch(q) PROVE UNCHANGED proxyVars
    BY <1>1, <1>8, LaunchEffect
  <1>9. ASSUME NEW q \in Ranks, NEW b \in Blocks, BlockStep(q, b) PROVE UNCHANGED proxyVars
    BY <1>9, BlockQuiet
  <1>10. ASSUME NEW q \in Ranks, NEW p \in Peers(q), NEW h \in Hcas,
                NicStep(q, p, h) \/ BreakQp(q, p, h)
         PROVE  UNCHANGED proxyVars
    BY <1>10, NicQuiet
  <1>11. ASSUME UNCHANGED vars PROVE UNCHANGED proxyVars
    BY <1>11 DEF vars
  <1>12. QED
    BY <1>4, <1>5, <1>6, <1>7, <1>8, <1>9, <1>10, <1>11 DEF Next, Done, ProxyStep

-----------------------------------------------------------------------------
(* What arrives in the receive slots.                                      *)

(* A receive slot changes when the NIC copies a stripe from the send slot. *)
LEMMA DataEffect ==
  ASSUME TypeInv, NEW r \in Ranks, NEW p \in Peers(r), NEW w \in Request, PutData(r, p, w)
  PROVE  /\ \A q \in Ranks, o \in Ranks, s \in SlotIds, i \in Cells :
              recv'[q][o][s][i] =
                IF q = p /\ o = r /\ s = Slot(w.seq) /\ i \in w.packs THEN send[r][s][i]
                ELSE recv[q][o][s][i]
  <1>1. recv \in [Ranks -> [Ranks -> [SlotIds -> [Cells -> 0 .. MaxOps]]]] /\ p \in Ranks
    BY DEF TypeInv, TypeOK, RegionType, Peers
  <1>2. Slot(w.seq) \in SlotIds
    BY SlotType, SeqsNat DEF Request
  <1> DEFINE s == Slot(w.seq)
             x == [i \in Cells |-> IF i \in w.packs THEN send[r][s][i] ELSE recv[p][r][s][i]]
  <1>3. recv' = [recv EXCEPT ![p][r][s] = x]
    BY DEF PutData
  <1>4. \A i \in Cells : x[i] = IF i \in w.packs THEN send[r][s][i] ELSE recv[p][r][s][i]
    OBVIOUS
  <1> HIDE DEF s, x
  <1>5. /\ recv'[p][r][s] = x
        /\ \A q \in Ranks, o \in Ranks, t \in SlotIds :
             q # p \/ o # r \/ t # s => recv'[q][o][t] = recv[q][o][t]
    BY <1>1, <1>2, <1>3 DEF s
  <1>6. QED
    BY <1>4, <1>5 DEF s

(* A receive cell changes only to what the sender's slot holds at that     *)
(* moment.                                                                 *)
LEMMA RecvMoves ==
  ASSUME TypeInv, [Next]_vars, NEW r \in Ranks, NEW p \in Peers(r),
         NEW s \in SlotIds, NEW i \in Cells
  PROVE  recv'[p][r][s][i] \in {recv[p][r][s][i], send[r][s][i]}
  <1>0. p \in Ranks
    BY DEF Peers
  <1>1. ASSUME NEW q \in Ranks, NEW o \in Peers(q), NEW h \in Hcas, NicStep(q, o, h)
        PROVE  recv'[p][r][s][i] \in {recv[p][r][s][i], send[r][s][i]}
    <2>1. First(q, o, h) \in Request /\ (recv' = recv \/ PutData(q, o, First(q, o, h)))
      BY <1>1, NicEffect
    <2>2. QED
      BY <1>0, <2>1, DataEffect
  <1>2. ASSUME NEW q \in Ranks, NEW o \in Peers(q), NEW h \in Hcas, BreakQp(q, o, h)
        PROVE  recv' = recv
    BY <1>2 DEF BreakQp, regionVars
  <1>3. ASSUME NEW q \in Ranks, NEW b \in Blocks, BlockStep(q, b) PROVE recv' = recv
    BY <1>3, BlockQuiet
  <1>4. ASSUME NEW q \in Ranks, ProxyStep(q) PROVE recv' = recv
    BY <1>4, ProxyQuiet DEF regionVars
  <1>5. ASSUME NEW q \in Ranks, CheckHealth(q) \/ Close(q) \/ Destroy(q) \/ RoceStop(q) \/ RoceStart(q)
        PROVE  recv' = recv
    BY <1>5, HostQuiet DEF regionVars
  <1>6. ASSUME NEW q \in Ranks, Launch(q) PROVE recv' = recv
    BY <1>6, LaunchEffect DEF regionVars
  <1>7. ASSUME UNCHANGED vars PROVE recv' = recv
    BY <1>7 DEF vars, regionVars
  <1>8. QED
    BY <1>1, <1>2, <1>3, <1>4, <1>5, <1>6, <1>7 DEF Next, Done

(* Data of a collective that the peer has not published stays: whatever is *)
(* written over it is the same data.                                       *)
LEMMA CameStays ==
  ASSUME OrderInv, [Next]_vars, NEW r \in Ranks, HeldInv(r), NEW p \in Peers(r),
         NEW n \in Nat, n <= ctrlSeq[r], n > epoch[p],
         NEW packs \in SUBSET (0 .. Packs[n] - 1), Came(r, p, n, packs)
  PROVE  \A i \in packs : recv'[p][r][Slot(n)][i] = n
  <1>1. TypeInv
    BY DEF OrderInv
  <1>2. n \in Ops /\ Full(r, n)
    BY Held
  <1>3. Slot(n) \in SlotIds
    BY SlotType
  <1>4. ASSUME NEW i \in packs PROVE recv'[p][r][Slot(n)][i] = n
    <2>1. i \in Cells
      BY <1>2, ShareType
    <2>2. recv'[p][r][Slot(n)][i] \in {recv[p][r][Slot(n)][i], send[r][Slot(n)][i]}
      BY <1>1, <1>3, <2>1, RecvMoves
    <2>3. recv[p][r][Slot(n)][i] = n
      BY DEF Came
    <2>4. send[r][Slot(n)][i] = n
      BY <1>2 DEF Full
    <2>5. QED
      BY <2>2, <2>3, <2>4
  <1>5. QED
    BY <1>4

(* The write at the head of a queue copies the payload of its collective.  *)
LEMMA Delivered ==
  ASSUME OrderInv, NEW r \in Ranks, HeldInv(r), NEW p \in Peers(r), NEW h \in Hcas, QueueInv(r, p),
         NicStep(r, p, h), First(r, p, h).kind = "data", First(r, p, h).seq > epoch[p]
  PROVE  \A i \in Stripe(h, Packs[First(r, p, h).seq]) :
           recv'[p][r][Slot(First(r, p, h).seq)][i] = First(r, p, h).seq
  <1> DEFINE w == First(r, p, h)
             n == w.seq
  <1>1. TypeInv /\ p \in Ranks
    BY DEF OrderInv, Peers
  <1>2. w \in Request /\ wq[r][p][h] # <<>> /\ PutData(r, p, w)
    BY <1>1, NicEffect
  <1>3. 1 \in DOMAIN wq[r][p][h] /\ w = wq[r][p][h][1]
    BY <1>1, <1>2, QueueType DEF First
  <1>4. w.packs = Stripe(h, Packs[n])
    BY <1>3 DEF QueueInv, DataWrite
  <1>5. n \in Nat /\ n <= ctrlSeq[r]
    BY <1>1, <1>2, <1>3, SeqsNat DEF Request, OrderInv, NetInv, SentInv, QueuedSent, Within
  <1>6. n \in Ops /\ Full(r, n)
    BY <1>5, Held
  <1>7. Slot(n) \in SlotIds
    BY <1>5, SlotType
  <1>8. ASSUME NEW i \in Stripe(h, Packs[n]) PROVE recv'[p][r][Slot(n)][i] = n
    <2>1. i \in 0 .. Packs[n] - 1 /\ i \in Cells
      BY <1>6, StripesCover, ShareType
    <2>2. recv'[p][r][Slot(n)][i] = send[r][Slot(n)][i]
      BY <1>1, <1>2, <1>4, <1>7, <2>1, DataEffect
    <2>3. QED
      BY <1>6, <2>1, <2>2 DEF Full
  <1>9. QED
    BY <1>8

(* Epochs never go back.                                                   *)
LEMMA EpochGrows ==
  ASSUME TypeInv, KernelInv, [Next]_vars, NEW p \in Ranks
  PROVE  epoch[p] \in Nat /\ epoch'[p] \in Nat /\ epoch[p] <= epoch'[p]
  <1>1. epoch'[p] = epoch[p] \/ epoch'[p] = epoch[p] + 1
    BY EpochMoves
  <1>2. epoch[p] \in Nat
    BY KernelType
  <1>3. QED
    BY <1>1, <1>2

(* The order of the writes in a queue survives every step.                 *)
LEMMA NextQueue ==
  ASSUME NoWrap, OrderInv, [Next]_vars, NEW r \in Ranks, HeldInv(r), SizeInv(r),
         NEW p \in Peers(r), QueueInv(r, p)
  PROVE  QueueInv(r, p)'
  <1>1. TypeInv /\ KernelInv /\ p \in Ranks /\ ProxyInv(r)
    BY DEF OrderInv, NetInv, Peers
  <1>2. epoch[p] \in Nat /\ epoch'[p] \in Nat /\ epoch[p] <= epoch'[p]
    BY <1>1, EpochGrows
  <1> SUFFICES ASSUME NEW h \in Hcas, NEW k \in DOMAIN wq'[r][p][h]
               PROVE  DataWrite(h, wq[r][p][h][k])' /\ FlagWrite(r, p, h, k)'
    BY DEF QueueInv
  <1> DEFINE old == wq[r][p][h]
             new == wq'[r][p][h]
             n == new[k].seq
             stripe == Stripe(h, Packs[n])
             came == \A i \in stripe : recv'[p][r][Slot(n)][i] = n
  <1>3. SUFFICES /\ new[k].kind = "data" => new[k].packs = stripe
                 /\ new[k].kind = "flag" =>
                      /\ new[k].packs = {}
                      /\ k > 1 /\ stripe # {} => new[k - 1].kind = "data" /\ new[k - 1].seq = n
                      /\ k = 1 /\ n > epoch'[p] => came
    BY DEF DataWrite, FlagWrite, Came
  <1>4. ASSUME NEW j \in DOMAIN old
        PROVE  /\ old[j].kind = "data" => old[j].packs = Stripe(h, Packs[old[j].seq])
               /\ old[j].kind = "flag" =>
                    /\ old[j].packs = {}
                    /\ j > 1 /\ Stripe(h, Packs[old[j].seq]) # {} =>
                         old[j - 1].kind = "data" /\ old[j - 1].seq = old[j].seq
                    /\ j = 1 /\ old[j].seq > epoch[p] =>
                         Came(r, p, old[j].seq, Stripe(h, Packs[old[j].seq]))
               /\ old[j].seq \in Nat /\ old[j].seq <= ctrlSeq[r]
    <2>1. DataWrite(h, old[j]) /\ FlagWrite(r, p, h, j)
      BY DEF QueueInv
    <2>2. old[j].seq \in Nat
      BY <1>1, Seqs0
    <2>3. old[j].seq <= ctrlSeq[r]
      BY DEF OrderInv, NetInv, SentInv, QueuedSent, Within
    <2>4. QED
      BY <2>1, <2>2, <2>3 DEF DataWrite, FlagWrite
  <1>5. old \in Seq(Request) /\ k \in DOMAIN new
    BY <1>1, QueueType
  <1>0. \/ new = old
        \/ new = <<>>
        \/ NicStep(r, p, h) /\ old # <<>> /\ new = Tail(old)
        \/ Post(r) /\ new = old \o Posts(r, h)
    BY <1>1, QueueMoves
  <1> HIDE DEF old, new
  <1>6. CASE new = old
    <2>1. ASSUME new[k].kind = "flag", k = 1, n > epoch'[p] PROVE came
      <3>1. n > epoch[p] /\ n \in Nat /\ n <= ctrlSeq[r] /\ Came(r, p, n, stripe)
        BY <1>2, <1>4, <1>5, <1>6, <2>1
      <3>2. stripe \in SUBSET (0 .. Packs[n] - 1)
        BY <3>1, Held, StripesCover
      <3>3. QED
        BY <3>1, <3>2, CameStays
    <2>2. QED
      BY <1>4, <1>5, <1>6, <2>1
  <1>7. CASE new = <<>>
    BY <1>5, <1>7
  <1>8. CASE NicStep(r, p, h) /\ old # <<>> /\ new = Tail(old)
    <2>1. k \in Nat /\ k >= 1 /\ new[k] = old[k + 1] /\ k + 1 \in DOMAIN old
          /\ (k > 1 => new[k - 1] = old[k]) /\ 1 \in DOMAIN old
      BY <1>5, <1>8
    <2>2. /\ new[k].kind = "data" => new[k].packs = stripe
          /\ new[k].kind = "flag" => new[k].packs = {}
      BY <1>4, <2>1
    <2>3. new[k].kind = "flag" /\ stripe # {} => old[k].kind = "data" /\ old[k].seq = n
      <3>1. PICK j \in DOMAIN old : j = k + 1 /\ j > 1 /\ j - 1 = k /\ new[k] = old[j]
        BY <2>1
      <3>2. old[j].kind = "flag" /\ Stripe(h, Packs[old[j].seq]) # {} =>
              old[j - 1].kind = "data" /\ old[j - 1].seq = old[j].seq
        BY <1>4, <3>1
      <3>3. QED
        BY <2>1, <3>1, <3>2
    <2>4. ASSUME new[k].kind = "flag", k = 1, n > epoch'[p], stripe # {} PROVE came
      <3>1. First(r, p, h) = old[1]
        BY DEF First, old
      <3>2. First(r, p, h).kind = "data" /\ First(r, p, h).seq = n
        BY <2>3, <2>4, <3>1
      <3>3. First(r, p, h).seq > epoch[p]
        BY <1>2, <1>4, <2>1, <2>4, <3>1, <3>2
      <3>4. QED
        BY <1>8, <3>2, <3>3, Delivered
    <2>5. QED
      BY <2>1, <2>2, <2>3, <2>4
  <1>9. CASE Post(r) /\ new = old \o Posts(r, h)
    <2> DEFINE add == Posts(r, h)
               packs == Stripe(h, nbytes[r])
               data == [kind |-> "data", seq |-> Posting(r), packs |-> packs]
               mark == [kind |-> "flag", seq |-> Posting(r), packs |-> {}]
    <2>1. packs = Stripe(h, Packs[Posting(r)])
      <3>1. Posting(r) = last[r] + 1 /\ px[r] = "post"
        BY <1>1, <1>9, PostingIs DEF Post
      <3>2. QED
        BY <3>1 DEF SizeInv
    <2>2. add = IF packs = {} THEN <<mark>> ELSE <<data, mark>>
      BY DEF Posts
    <2>3. data.kind = "data" /\ data.packs = packs /\ data.seq = Posting(r)
          /\ mark.kind = "flag" /\ mark.packs = {} /\ mark.seq = Posting(r)
      OBVIOUS
    <2> HIDE DEF packs, data, mark
    <2>4. k \in 1 .. Len(old) + Len(add) /\ Len(old) \in Nat /\ Len(add) \in Nat
      <3>1. Len(add) \in Nat
        BY PostsType
      <3>2. new = old \o add
        BY <1>9
      <3>3. add \in Seq({data, mark})
        BY <2>2, OneOrTwo
      <3> HIDE DEF add
      <3>4. QED
        BY <1>5, <3>1, <3>2, <3>3
    <2>5. CASE k <= Len(old)
      <3>1. k \in DOMAIN old /\ new[k] = old[k] /\ (k > 1 => new[k - 1] = old[k - 1])
        BY <1>5, <1>9, <2>4, <2>5, <2>2
      <3>2. ASSUME new[k].kind = "flag", k = 1, n > epoch'[p] PROVE came
        <4>1. n > epoch[p] /\ n \in Nat /\ n <= ctrlSeq[r] /\ Came(r, p, n, stripe)
          BY <1>2, <1>4, <3>1, <3>2
        <4>2. stripe \in SUBSET (0 .. Packs[n] - 1)
          BY <4>1, Held, StripesCover
        <4>3. QED
          BY <4>1, <4>2, CameStays
      <3>3. QED
        BY <1>4, <3>1, <3>2
    <2>6. CASE k > Len(old) /\ packs = {}
      <3>1. new = old \o <<mark>>
        BY <1>9, <2>2, <2>6
      <3>2. new[k] = mark
        BY <1>5, <2>4, <2>6, <3>1
      <3>3. stripe = {} /\ new[k].kind = "flag" /\ new[k].packs = {}
        BY <2>1, <2>3, <2>6, <3>2
      <3>4. QED
        BY <3>3
    <2>7. CASE k > Len(old) /\ packs # {}
      <3>1. new = old \o <<data, mark>>
        BY <1>9, <2>2, <2>7
      <3>2. \/ new[k] = data
            \/ new[k] = mark /\ k > 1 /\ new[k - 1] = data
        BY <1>5, <2>4, <2>7, <3>1
      <3>3. stripe = packs
        BY <2>1, <2>3, <3>2
      <3>4. QED
        BY <2>3, <3>2, <3>3
    <2>8. QED
      BY <2>4, <2>5, <2>6, <2>7
  <1>10. QED
    BY <1>0, <1>6, <1>7, <1>8, <1>9

(* A flag arrives behind its stripe.                                       *)
LEMMA NextFlag ==
  ASSUME NoWrap, OrderInv, [Next]_vars, NEW r \in Ranks, HeldInv(r),
         NEW p \in Peers(r), QueueInv(r, p), FlagInv(r, p)
  PROVE  FlagInv(r, p)'
  <1>1. TypeInv /\ KernelInv /\ p \in Ranks
    BY DEF OrderInv, Peers
  <1>2. epoch[p] \in Nat /\ epoch'[p] \in Nat /\ epoch[p] <= epoch'[p]
    BY <1>1, EpochGrows
  <1>3. ASSUME NEW s \in SlotIds, NEW h \in Hcas, flag'[p][r][s][h] > epoch'[p]
        PROVE  \A i \in Stripe(h, Packs[flag'[p][r][s][h]]) :
                 recv'[p][r][Slot(flag'[p][r][s][h])][i] = flag'[p][r][s][h]
    <2>1. CASE flag'[p][r][s][h] = flag[p][r][s][h]
      <3> DEFINE n == flag[p][r][s][h]
      <3>1. n \in Nat /\ n <= ctrlSeq[r] /\ n > epoch[p]
        BY <1>1, <1>2, <1>3, <2>1, Seqs0 DEF OrderInv, NetInv, SentInv, FlagsSent, Within
      <3>2. Came(r, p, n, Stripe(h, Packs[n]))
        BY <3>1 DEF FlagInv
      <3>3. Stripe(h, Packs[n]) \in SUBSET (0 .. Packs[n] - 1)
        BY <3>1, Held, StripesCover
      <3> HIDE DEF n
      <3>4. \A i \in Stripe(h, Packs[n]) : recv'[p][r][Slot(n)][i] = n
        BY <3>1, <3>2, <3>3, CameStays
      <3>5. QED
        BY <2>1, <3>4 DEF n
    <2>2. CASE /\ wq[r][p][h] # <<>> /\ First(r, p, h).kind = "flag"
               /\ flag'[p][r][s][h] = First(r, p, h).seq /\ recv' = recv
      <3>1. 1 \in DOMAIN wq[r][p][h] /\ First(r, p, h) = wq[r][p][h][1]
        BY <1>1, <2>2, QueueType DEF First
      <3>2. First(r, p, h).seq \in Nat
        BY <1>1, <3>1, Seqs0
      <3>3. First(r, p, h).seq > epoch[p]
        BY <1>2, <1>3, <2>2, <3>2
      <3>4. Came(r, p, First(r, p, h).seq, Stripe(h, Packs[First(r, p, h).seq]))
        BY <2>2, <3>1, <3>3 DEF QueueInv, FlagWrite
      <3>5. QED
        BY <2>2, <3>4 DEF Came
    <2>3. QED
      BY <1>1, <2>1, <2>2, FlagMoves
  <1>4. QED
    BY <1>3 DEF FlagInv, Came

(* A block behind the barrier works with epoch + 1.                        *)
LEMMA BusyBlock ==
  ASSUME TypeInv, KernelInv, NEW p \in Ranks, NEW b \in Blocks, pc[p][b] \in Busy
  PROVE  /\ reg[p][b] = epoch[p] + 1 /\ reg[p][b] = launches[p] /\ reg[p][b] \in Ops
         /\ reg[p][b] \in Nat /\ reg[p][b] > epoch[p] /\ Slot(reg[p][b]) \in SlotIds
  <1>1. LaunchInv(p) /\ pc[p][b] # "done"
    BY DEF KernelInv, KernelOf, Busy
  <1>2. launches[p] \in Ops /\ epoch[p] \in Nat /\ reg[p][b] \in Nat
    BY <1>1, Working, KernelType
  <1>3. reg[p][b] = epoch[p] + 1 /\ reg[p][b] = launches[p]
    BY <1>1 DEF LaunchInv
  <1>4. QED
    BY <1>2, <1>3, SlotType

(* A block that has passed the barrier finds the data of every peer, until *)
(* it has combined its share.                                              *)
LEMMA NextBarrier ==
  ASSUME NoWrap, OrderInv, [Next]_vars, NEW r \in Ranks, HeldInv(r),
         NEW p \in Peers(r), FlagInv(r, p), BarrierInv(r, p)
  PROVE  BarrierInv(r, p)'
  <1>1. TypeInv /\ KernelInv /\ p \in Ranks /\ r \in Peers(p)
    BY DEF OrderInv, Peers
  <1>2. ASSUME NEW b \in Blocks, Healthy(p)', pc'[p][b] = "check"
        PROVE  /\ reg'[p][b] = reg[p][b]
               /\ \A i \in 0 .. Packs[reg[p][b]] - 1 : recv'[p][r][Slot(reg[p][b])][i] = reg[p][b]
    <2> DEFINE n == reg[p][b]
    <2>1. /\ Healthy(p) /\ reg'[p][b] = n
          /\ \/ pc'[p][b] = pc[p][b]
             \/ pc[p][b] = "check" /\ Reduce(p, b)
             \/ pc[p][b] = "wait" /\ pc'[p][b] = "check" /\ WaitDone(p, b)
      BY <1>1, <1>2, WaitMoves
    <2>2. pc[p][b] \in Busy
      BY <1>2, <2>1 DEF Busy
    <2>3. n \in Ops /\ n \in Nat /\ n > epoch[p] /\ Slot(n) \in SlotIds
      BY <1>1, <2>2, BusyBlock
    <2>4. CASE pc[p][b] = "check"
      <3>1. Came(r, p, n, 0 .. Packs[n] - 1)
        BY <2>1, <2>4 DEF BarrierInv
      <3>2. n <= ctrlSeq[r]
        BY <2>1, <2>4 DEF OrderInv, NetInv, SentInv, WaitedSent, Within
      <3> DEFINE packs == 0 .. Packs[n] - 1
      <3>4. packs \in SUBSET (0 .. Packs[n] - 1)
        OBVIOUS
      <3> HIDE DEF n, packs
      <3>5. Came(r, p, n, packs)
        BY <3>1 DEF packs
      <3>6. \A i \in packs : recv'[p][r][Slot(n)][i] = n
        BY <2>3, <3>4, <3>5, <3>2, CameStays
      <3>3. \A i \in 0 .. Packs[n] - 1 : recv'[p][r][Slot(n)][i] = n
        BY <3>6 DEF packs
      <3>7. QED
        BY <2>1, <3>3 DEF n
    <2>5. CASE WaitDone(p, b)
      <3>1. recv' = recv /\ \A h \in Hcas : flag[p][r][Slot(n)][h] = n
        BY <1>1, <2>5 DEF WaitDone, Arrived, regionVars
      <3>2. ASSUME NEW h \in Hcas PROVE Came(r, p, n, Stripe(h, Packs[n]))
        BY <2>3, <3>1 DEF FlagInv
      <3>3. ASSUME NEW i \in 0 .. Packs[n] - 1 PROVE recv[p][r][Slot(n)][i] = n
        <4>1. PICK h \in Hcas : i \in Stripe(h, Packs[n])
          BY <2>3, StripesCover
        <4>2. QED
          BY <3>2, <4>1 DEF Came
      <3>4. QED
        BY <2>1, <3>1, <3>3
    <2>6. QED
      BY <1>2, <2>1, <2>4, <2>5
  <1>3. QED
    BY <1>2 DEF BarrierInv, Came

-----------------------------------------------------------------------------
(* The results.                                                            *)

(* A result made of the ranks' contributions is not the empty cell.        *)
LEMMA NotUnset == ASSUME NEW f, DOMAIN f = Ranks PROVE f # Unset
  <1>1. 0 \in Ranks
    BY Constants DEF Ranks
  <1>2. DOMAIN Unset = {}
    BY DEF Unset
  <1>3. QED
    BY <1>1, <1>2

(* The outputs of the blocks that have reduced stay what they are when     *)
(* nothing is reduced.                                                     *)
LEMMA OutKept ==
  ASSUME NEW r \in Ranks, OutInv(r), UNCHANGED <<launches[r], out[r]>>,
         launches[r] # 0 => GridOf(r) \subseteq Blocks,
         Healthy(r)' => /\ Healthy(r)
                        /\ \A a \in Blocks : pc'[r][a] \in {"tail", "done"} => pc[r][a] \in {"tail", "done"}
  PROVE  OutInv(r)'
  <1>1. GridOf(r)' = GridOf(r)
    BY DEF GridOf
  <1>2. QED
    BY <1>1 DEF OutInv

(* A block that reduces after every peer's flag has come writes the sum of *)
(* this collective's contributions.                                        *)
LEMMA ReduceOut ==
  ASSUME OrderInv, NEW r \in Ranks, OutInv(r), \A p \in Peers(r) : BarrierInv(p, r),
         NEW b \in Blocks, Reduce(r, b)
  PROVE  OutInv(r)'
  <1> DEFINE n == launches[r]
             share == Share(b, Grid[n], Packs[n])
  <1>1. TypeInv /\ KernelInv /\ KernelOf(r)
    BY DEF OrderInv, KernelInv
  <1>2. /\ pc[r][b] = "check" /\ pc' = [pc EXCEPT ![r][b] = "tail"]
        /\ UNCHANGED <<launches, ctrlErr>>
    BY DEF Reduce, hostVars, regionVars
  <1>3. reg[r][b] = n /\ n \in Ops
    BY <1>1, <1>2, BusyBlock DEF Busy
  <1>4. pc'[r][b] = "tail" /\ \A a \in Blocks : a # b => pc'[r][a] = pc[r][a]
    BY <1>1, <1>2, PcType
  <1>5. GridOf(r)' = GridOf(r) /\ GridOf(r) \subseteq Blocks /\ (Healthy(r)' <=> Healthy(r))
    BY <1>2, <1>3, GridType DEF GridOf, Healthy
  <1>6. CASE poison[r] # 0
    <2>1. out' = out /\ ~Healthy(r)
      BY <1>1, <1>6 DEF Reduce, MayStore, KernelOf, PoisonInv, Healthy
    <2>2. QED
      BY <1>2, <1>5, <2>1, OutKept
  <1>7. CASE poison[r] = 0
    <2>1. Healthy(r)
      BY <1>1, <1>7 DEF KernelOf, PoisonInv, Healthy
    <2>2. out \in [Ranks -> [Cells -> {Unset} \cup [Ranks -> 0 .. MaxOps]]]
      BY <1>1 DEF TypeInv, TypeOK, GpuType
    <2>3. \A i \in Cells : out'[r][i] =
            IF i \in share THEN [p \in Ranks |-> IF p = r THEN n ELSE recv[r][p][Slot(n)][i]]
            ELSE out[r][i]
      BY <1>3, <1>7, <2>2 DEF Reduce, MayStore
    <2>4. ASSUME NEW p \in Peers(r), NEW i \in share PROVE recv[r][p][Slot(n)][i] = n
      <3>1. Came(p, r, n, 0 .. Packs[n] - 1)
        BY <1>2, <1>3, <2>1 DEF BarrierInv
      <3>2. i \in 0 .. Packs[n] - 1
        BY <1>3, ShareType
      <3>3. QED
        BY <3>1, <3>2 DEF Came
    <2>5. ASSUME NEW i \in share, i \in Cells
          PROVE  out'[r][i] # Unset /\ \A p \in Ranks : out'[r][i][p] = n
      <3> DEFINE f == [p \in Ranks |-> IF p = r THEN n ELSE recv[r][p][Slot(n)][i]]
      <3>1. out'[r][i] = f /\ DOMAIN f = Ranks
        BY <2>3, <2>5
      <3>2. \A p \in Ranks : f[p] = n
        BY <2>4 DEF Peers
      <3> HIDE DEF f
      <3>3. QED
        BY <3>1, <3>2, NotUnset
    <2> HIDE DEF share
    <2>6. ASSUME NEW i \in Cells, i \notin share PROVE out'[r][i] = out[r][i]
      BY <2>3, <2>6
    <2>7. \A i \in Cells : out'[r][i] = Unset \/ \A p \in Ranks : out'[r][i][p] = n
      BY <2>5, <2>6 DEF OutInv
    <2>8. ASSUME NEW a \in GridOf(r), pc'[r][a] \in {"tail", "done"},
                 NEW i \in Share(a, Grid[n], Packs[n])
          PROVE  out'[r][i] # Unset
      <3>1. i \in Cells
        BY <1>3, ShareType
      <3>2. CASE i \in share
        BY <2>5, <3>1, <3>2
      <3>3. CASE i \notin share
        <4>1. a # b
          BY <3>3 DEF share
        <4>2. pc[r][a] \in {"tail", "done"}
          BY <1>4, <1>5, <2>8, <4>1
        <4>3. n # 0
          BY <1>3 DEF Ops
        <4>4. out[r][i] # Unset
          BY <2>1, <4>2, <4>3 DEF OutInv
        <4>5. QED
          BY <2>6, <3>1, <3>3, <4>4
      <3>4. QED
        BY <3>2, <3>3
    <2>9. QED
      BY <1>2, <1>5, <2>7, <2>8 DEF OutInv
  <1>8. QED
    BY <1>6, <1>7

(* A step of another rank, or of the proxy, leaves the outputs alone.      *)
LEMMA OutSame ==
  ASSUME OrderInv, NEW r \in Ranks, OutInv(r), UNCHANGED <<launches[r], out[r], pc[r], ctrlErr[r]>>
  PROVE  OutInv(r)'
  <1>1. launches[r] # 0 => GridOf(r) \subseteq Blocks
    <2>1. launches[r] \in 0 .. MaxOps
      BY KernelType DEF OrderInv
    <2>2. launches[r] # 0 => launches[r] \in Ops
      BY <2>1, Constants DEF Ops
    <2>3. QED
      BY <2>2, GridType DEF GridOf
  <1>2. QED
    BY <1>1, OutKept DEF Healthy

(* Each step of a block keeps the outputs right.                           *)
LEMMA OutBlock ==
  ASSUME NoWrap, OrderInv, NEW r \in Ranks, OutInv(r), \A p \in Peers(r) : BarrierInv(p, r),
         NEW b \in Blocks, BlockStep(r, b)
  PROVE  OutInv(r)'
  <1>1. TypeInv /\ KernelInv /\ KernelOf(r) /\ [Next]_vars
    BY DEF OrderInv, KernelInv, Next
  <1>2. Healthy(r)' => Healthy(r) /\ ctrlErr'[r] = ctrlErr[r]
    BY <1>1, ErrorStays
  <1>3. pc[r][b] # "done"
    BY DEF BlockStep, Start, Stage, WaitDone, Timeout, Reduce, Publish
  <1>4. launches[r] \in Ops /\ GridOf(r) \subseteq Blocks
    BY <1>1, <1>3, Working DEF KernelOf
  <1>5. ASSUME NEW x, pc' = [pc EXCEPT ![r][b] = x], UNCHANGED <<launches, out>>,
               Healthy(r)' /\ x \in {"tail", "done"} => pc[r][b] \in {"tail", "done"}
        PROVE  OutInv(r)'
    <2>1. pc'[r][b] = x /\ \A a \in Blocks : a # b => pc'[r][a] = pc[r][a]
      BY <1>1, <1>5, PcType
    <2>2. ASSUME Healthy(r)', NEW a \in Blocks, pc'[r][a] \in {"tail", "done"}
          PROVE  pc[r][a] \in {"tail", "done"}
      BY <1>5, <2>1, <2>2
    <2>3. QED
      BY <1>2, <1>4, <1>5, <2>2, OutKept
  <1>6. CASE Start(r, b)
    <2>1. /\ pc' = [pc EXCEPT ![r][b] = IF poison[r] = 0 THEN "stage" ELSE "done"]
          /\ UNCHANGED <<launches, out, ctrlErr>>
      BY <1>6 DEF Start, hostVars, regionVars
    <2>2. Healthy(r)' => poison[r] = 0
      BY <1>1, <2>1 DEF KernelOf, PoisonInv, Healthy
    <2>3. QED
      BY <1>5, <2>1, <2>2
  <1>7. CASE Stage(r, b)
    <2>1. pc' = [pc EXCEPT ![r][b] = "wait"] /\ UNCHANGED <<launches, out>>
      BY <1>7 DEF Stage, hostVars
    <2>2. QED
      BY <1>5, <2>1
  <1>8. CASE WaitDone(r, b) \/ Timeout(r, b)
    <2>1. pc' = [pc EXCEPT ![r][b] = "check"] /\ UNCHANGED <<launches, out>>
      BY <1>8 DEF WaitDone, Timeout, hostVars
    <2>2. QED
      BY <1>5, <2>1
  <1>9. CASE Reduce(r, b)
    BY <1>9, ReduceOut
  <1>10. CASE Publish(r, b)
    <2>1. /\ pc[r][b] = "tail" /\ pc' = [pc EXCEPT ![r][b] = "done"]
          /\ UNCHANGED <<launches, out>>
      BY <1>10 DEF Publish, hostVars
    <2>2. QED
      BY <1>5, <2>1
  <1>11. QED
    BY <1>6, <1>7, <1>8, <1>9, <1>10 DEF BlockStep

(* Every step of the system keeps the outputs right.                       *)
LEMMA NextOut ==
  ASSUME NoWrap, OrderInv, [Next]_vars, NEW r \in Ranks, OutInv(r), \A p \in Peers(r) : BarrierInv(p, r)
  PROVE  OutInv(r)'
  <1>0. TypeInv
    BY DEF OrderInv
  <1>1. ASSUME NEW q \in Ranks, NEW b \in Blocks, BlockStep(q, b) PROVE OutInv(r)'
    <2>1. CASE q = r
      BY <1>1, <2>1, OutBlock
    <2>2. CASE q # r
      BY <1>0, <1>1, <2>2, BlockElsewhere, BlockQuiet, OutSame DEF hostVars
    <2>3. QED
      BY <2>1, <2>2
  <1>2. ASSUME NEW q \in Ranks, Launch(q) PROVE OutInv(r)'
    <2>1. CASE q = r
      <3>1. /\ launches'[r] \in Ops
            /\ \A b \in Blocks : pc'[r][b] = IF b < Grid[launches'[r]] THEN "start" ELSE "done"
            /\ \A i \in Cells : out'[r][i] = Unset
        BY <1>0, <1>2, <2>1, LaunchEffect
      <3>2. GridOf(r)' \subseteq Blocks /\ \A b \in GridOf(r)' : b < Grid[launches'[r]]
        BY <3>1, GridType DEF GridOf
      <3>3. \A b \in GridOf(r)' : pc'[r][b] = "start"
        BY <3>1, <3>2
      <3>4. QED
        BY <3>1, <3>3 DEF OutInv
    <2>2. CASE q # r
      <3>1. UNCHANGED <<launches[r], out[r], pc[r], ctrlErr[r]>>
        BY <1>0, <1>2, <2>2, LaunchElsewhere, LaunchEffect DEF regionVars
      <3>2. QED
        BY <3>1, OutSame
    <2>3. QED
      BY <2>1, <2>2
  <1>3. ASSUME UNCHANGED <<launches, out, pc, ctrlErr>> PROVE OutInv(r)'
    BY <1>3, OutSame
  <1>4. ASSUME NEW q \in Ranks, NEW p \in Peers(q), NEW h \in Hcas,
               NicStep(q, p, h) \/ BreakQp(q, p, h)
        PROVE  UNCHANGED <<launches, out, pc, ctrlErr>>
    BY <1>4, NicQuiet DEF gpuVars, hostVars
  <1>5. ASSUME NEW q \in Ranks, ProxyStep(q) PROVE UNCHANGED <<launches, out, pc, ctrlErr>>
    BY <1>5, ProxyQuiet DEF gpuVars, hostVars, regionVars
  <1>6. ASSUME NEW q \in Ranks,
               CheckHealth(q) \/ Close(q) \/ Destroy(q) \/ RoceStop(q) \/ RoceStart(q)
        PROVE  UNCHANGED <<launches, out, pc, ctrlErr>>
    BY <1>6, HostQuiet DEF gpuVars, regionVars
  <1>7. ASSUME UNCHANGED vars PROVE UNCHANGED <<launches, out, pc, ctrlErr>>
    BY <1>7 DEF vars, gpuVars, hostVars, regionVars
  <1>8. QED
    BY <1>1, <1>2, <1>3, <1>4, <1>5, <1>6, <1>7 DEF Next, Done

-----------------------------------------------------------------------------
(* The payloads of a run.                                                  *)
LEMMA InitData == ASSUME Init PROVE DataInv
  <1>1. ASSUME NEW r \in Ranks PROVE StagedInv(r) /\ HeldInv(r) /\ SizeInv(r) /\ OutInv(r)
    <2>1. /\ launches[r] = 0 /\ ctrlSeq[r] = 0 /\ px[r] = "poll"
          /\ \A b \in Blocks : pc[r][b] = "done"
          /\ \A i \in Cells : out[r][i] = Unset
      BY DEF Init
    <2>2. Idle(r) /\ ~Staging(r)
      BY <2>1 DEF Idle, Staging
    <2>3. QED
      BY <2>1, <2>2 DEF StagedInv, HeldInv, SizeInv, OutInv
  <1>2. ASSUME NEW r \in Ranks, NEW p \in Peers(r) PROVE TransitInv(r, p)
    <2>1. /\ epoch[p] = 0 /\ \A b \in Blocks : pc[p][b] = "done"
          /\ \A s \in SlotIds, h \in Hcas : flag[p][r][s][h] = 0
          /\ \A h \in Hcas : wq[r][p][h] = <<>>
      BY DEF Init, Peers
    <2>2. QED
      BY <2>1 DEF TransitInv, QueueInv, FlagInv, BarrierInv
  <1>3. QED
    BY <1>1, <1>2 DEF DataInv

(* Every step of the system keeps what is said of the payloads.            *)
LEMMA NextData == ASSUME NoWrap, OrderInv, DataInv, [Next]_vars PROVE DataInv'
  <1>1. TypeInv /\ KernelInv
    BY DEF OrderInv
  <1>2. ASSUME NEW r \in Ranks PROVE StagedInv(r)' /\ HeldInv(r)' /\ SizeInv(r)' /\ OutInv(r)'
    <2>1. StagedInv(r) /\ HeldInv(r) /\ SizeInv(r) /\ OutInv(r)
      BY DEF DataInv
    <2>2. \A p \in Peers(r) : BarrierInv(p, r)
      BY DEF DataInv, TransitInv, Peers
    <2>3. QED
      BY <1>1, <2>1, <2>2, NextStaged, NextHeld, NextSize, NextOut
  <1>3. ASSUME NEW r \in Ranks, NEW p \in Peers(r) PROVE TransitInv(r, p)'
    <2>1. HeldInv(r) /\ SizeInv(r) /\ QueueInv(r, p) /\ FlagInv(r, p) /\ BarrierInv(r, p)
      BY DEF DataInv, TransitInv
    <2>2. QED
      BY <2>1, NextQueue, NextFlag, NextBarrier DEF TransitInv
  <1>4. \A r \in Ranks : \A p \in Peers(r) : TransitInv(r, p)'
    BY <1>3
  <1>5. QED
    BY <1>2, <1>4 DEF DataInv, Peers

-----------------------------------------------------------------------------
(* The connection that is posted on last.                                  *)

(* A queue pair that went down stays down.                                 *)
LEMMA UpBefore ==
  ASSUME TypeInv, [Next]_vars, NEW r \in Ranks, AllUp(r)'
  PROVE  AllUp(r)
  <1>0. qpUp \in [Ranks -> [Ranks -> [Hcas -> BOOLEAN]]]
    BY DEF TypeInv, TypeOK, NetType
  <1>1. ASSUME NEW p \in Peers(r), NEW h \in Hcas, qpUp'[r][p][h] PROVE qpUp[r][p][h]
    <2>0. p \in Ranks
      BY DEF Peers
    <2>1. ASSUME NEW q \in Ranks, NEW o \in Peers(q), NEW i \in Hcas, BreakQp(q, o, i)
          PROVE  qpUp[r][p][h]
      <3> DEFINE down == FALSE
      <3>1. qpUp' = [qpUp EXCEPT ![q][o][i] = down] /\ o \in Ranks
        BY <2>1 DEF BreakQp, Peers
      <3> HIDE DEF down
      <3>2. ~qpUp'[q][o][i] /\ (r # q \/ p # o \/ h # i => qpUp'[r][p][h] = qpUp[r][p][h])
        <4>1. /\ qpUp'[q][o][i] = down
              /\ r # q \/ p # o \/ h # i => qpUp'[r][p][h] = qpUp[r][p][h]
          BY <1>0, <2>0, <3>1, PutOne
        <4>2. QED
          BY <4>1 DEF down
      <3>3. QED
        BY <1>1, <3>2
    <2>2. ASSUME NEW q \in Ranks, NEW o \in Peers(q), NEW i \in Hcas, NicStep(q, o, i)
          PROVE  qpUp' = qpUp
      BY <2>2 DEF NicStep, WriteData, WriteFlag, Executed
    <2>3. ASSUME NEW q \in Ranks, Destroy(q) PROVE qpUp[r][p][h]
      <3>1. qpUp' = [qpUp EXCEPT ![q] = [o \in Ranks |-> [i \in Hcas |-> FALSE]]]
        BY <2>3 DEF Destroy
      <3>2. CASE q = r
        <4>1. ~qpUp'[r][p][h]
          BY <1>0, <2>0, <3>1, <3>2
        <4>2. QED
          BY <1>1, <4>1
      <3>3. CASE q # r
        <4>1. qpUp'[r] = qpUp[r]
          BY <1>0, <3>1, <3>3
        <4>2. QED
          BY <1>1, <4>1
      <3>4. QED
        BY <3>2, <3>3
    <2>4. ASSUME NEW q \in Ranks,
                 Launch(q) \/ CheckHealth(q) \/ Close(q) \/ RoceStop(q) \/ RoceStart(q)
          PROVE  qpUp' = qpUp
      BY <2>4 DEF Launch, CheckHealth, Close, RoceStop, RoceStart, netVars
    <2>5. ASSUME NEW q \in Ranks, ProxyStep(q) PROVE qpUp' = qpUp
      BY <2>5 DEF ProxyStep, SeeDoorbell, Post, PostFails, EndOp, ThreadExit, DrainFails, netVars
    <2>6. ASSUME NEW q \in Ranks, NEW b \in Blocks, BlockStep(q, b) PROVE qpUp' = qpUp
      BY <2>6, BlockQuiet DEF netVars
    <2>7. ASSUME UNCHANGED vars PROVE qpUp' = qpUp
      BY <2>7 DEF vars, netVars
    <2>8. QED
      BY <1>1, <2>1, <2>2, <2>3, <2>4, <2>5, <2>6, <2>7 DEF Next, Done
  <1>2. QED
    BY <1>1 DEF AllUp, Broken

(* Posting on one connection moves the cursor to the next one.             *)
LEMMA PostEffect ==
  ASSUME TypeInv, NEW r \in Ranks, Post(r)
  PROVE  /\ px[r] = "post" /\ px' = px /\ last' = last /\ cursor[r].peer \in 0 .. World - 1
         /\ \A q \in Ranks : q # r => cursor'[q] = cursor[q]
         /\ cursor'[r] = IF cursor[r].hca + 1 < NHca
                         THEN [peer |-> cursor[r].peer, hca |-> cursor[r].hca + 1]
                         ELSE [peer |-> NextPeer(r, cursor[r].peer), hca |-> 0]
  <1>1. cursor \in [Ranks -> [peer : 0 .. World, hca : Hcas]]
    BY DEF TypeInv, TypeOK, ProxyType
  <1>2. cursor[r].peer \in 0 .. World /\ cursor[r].peer < World
    BY <1>1 DEF Post
  <1>3. cursor[r].peer \in 0 .. World - 1
    BY <1>2, Constants
  <1>4. QED
    BY <1>1, <1>3 DEF Post

(* Behind the last peer comes the end of the collective.                   *)
LEMMA LastPeerIs ==
  ASSUME NEW r \in Ranks
  PROVE  NextPeer(r, LastPeer(r)) >= World /\ LastHca \in Hcas /\ ~(LastHca + 1 < NHca)
  BY Constants DEF NextPeer, LastPeer, Ranks, LastHca, Hcas

(* As long as all connections work, what is posted on all of them grows.   *)
LEMMA PostedGrows ==
  ASSUME NoWrap, OrderInv, [Next]_vars, NEW r \in Ranks, SizeInv(r), AllUp(r)
  PROVE  Posted(r) \in Nat /\ Posted(r)' \in Nat /\ Posted(r) <= Posted(r)'
  <1>1. TypeInv /\ KernelInv /\ (\A q \in Ranks : ProxyInv(q)) /\ OrderInv'
    BY NextOrder DEF OrderInv, NetInv
  <1>2. TypeInv' /\ KernelInv' /\ \A q \in Ranks : ProxyInv(q)'
    BY <1>1 DEF OrderInv, NetInv
  <1>3. Posting(r) = last[r] + 1 /\ last[r] \in Nat
    BY <1>1, PostingIs, Seqs0
  <1>4. Posting(r)' = last'[r] + 1 /\ last'[r] \in Nat /\ last[r] <= last'[r]
    <2>1. last'[r] \in 0 .. MaxOps
      <3>1. last'[r] \in Seqs /\ last'[r] <= ctrlSeq'[r]
        BY <1>2 DEF TypeInv, TypeOK, ProxyType, ProxyInv
      <3>2. launches'[r] \in 0 .. MaxOps /\ epoch'[r] \in Seqs /\ ctrlSeq'[r] \in Seqs
        BY <1>2 DEF TypeInv, TypeOK, HostType, GpuType, RegionType
      <3>3. epoch'[r] \in Nat /\ ctrlSeq'[r] \in Nat /\ last'[r] \in Nat
        BY <3>1, <3>2, SeqsNat
      <3>4. LaunchInv(r)' /\ DoorbellInv(r)'
        BY <1>2 DEF KernelInv, KernelOf
      <3>5. ctrlSeq'[r] = epoch'[r] \/ ctrlSeq'[r] = epoch'[r] + 1
        BY <3>4 DEF DoorbellInv
      <3>6. epoch'[r] <= launches'[r] /\ (ctrlSeq'[r] # epoch'[r] => epoch'[r] < launches'[r])
        BY <3>2, <3>3, <3>4 DEF DoorbellInv, LaunchInv
      <3>7. QED
        BY <3>1, <3>2, <3>3, <3>5, <3>6, Constants
    <2>2. Posting(r)' = last'[r] + 1
      BY <2>1, SuccIs DEF Posting
    <2>3. last[r] <= last'[r]
      BY <1>1, NextProxy
    <2>4. QED
      BY <2>1, <2>2, <2>3, Constants
  <1>5. Posted(r) = IF px[r] = "post" /\ cursor[r].peer >= World THEN last[r] + 1 ELSE last[r]
    BY <1>3 DEF Posted
  <1>6. Posted(r)' = IF px'[r] = "post" /\ cursor'[r].peer >= World THEN last'[r] + 1 ELSE last'[r]
    BY <1>4 DEF Posted
  <1>7. ASSUME px[r] = "post", cursor[r].peer >= World
        PROVE  last'[r] = last[r] + 1 \/ (px'[r] = "post" /\ cursor'[r] = cursor[r])
    <2>1. nbytes[r] # 0
      <3>1. last[r] + pend[r] <= ctrlSeq[r] /\ ctrlSeq[r] \in 0 .. MaxOps /\ pend[r] \in 0 .. 2 /\ pend[r] # 0
        BY <1>1, <1>7, SeqBound, Seqs0 DEF ProxyInv, SLOTS
      <3>2. last[r] + 1 \in Ops
        BY <1>3, <3>1, Constants DEF Ops
      <3>3. QED
        BY <1>7, <3>2, ShareType DEF SizeInv
    <2>0. ~(cursor[r].peer < World)
      <3>1. cursor[r] \in [peer : 0 .. World, hca : Hcas]
        BY <1>1 DEF TypeInv, TypeOK, ProxyType
      <3>2. QED
        BY <1>7, <3>1, Constants
    <2>2. ASSUME NEW q \in Ranks, SeeDoorbell(q) PROVE px'[r] = px[r] /\ cursor'[r] = cursor[r]
      BY <1>1, <1>7, <2>2, SeeDoorbellEffect
    <2>3. ASSUME NEW q \in Ranks, EndOp(q)
          PROVE  last'[r] = last[r] + 1 \/ (px'[r] = px[r] /\ cursor'[r] = cursor[r])
      BY <1>1, <2>3, EndOpEffect
    <2>4. ASSUME NEW q \in Ranks,
                 \/ Post(q) \/ PostFails(q) \/ ThreadExit(q) \/ \E h \in Hcas : DrainFails(q, h)
                 \/ CheckHealth(q) \/ Close(q) \/ Destroy(q) \/ RoceStop(q) \/ RoceStart(q)
          PROVE  px'[r] = px[r] /\ cursor'[r] = cursor[r]
      <3>1. CASE q # r
        BY <1>1, <2>4, <3>1, ProxyStays
      <3>2. CASE q = r
        <4>1. ~Post(r) /\ ~PostFails(r) /\ ~ThreadExit(r)
          BY <1>7, <2>0, <2>1 DEF Post, PostFails, ThreadExit
        <4>2. ASSUME NEW h \in Hcas PROVE ~DrainFails(r, h)
          BY <1>7, <2>0 DEF DrainFails
        <4>3. ~RoceStart(r)
          BY <1>7 DEF RoceStart
        <4>4. CheckHealth(r) \/ Close(r) \/ Destroy(r) \/ RoceStop(r)
          BY <2>4, <3>2, <4>1, <4>2, <4>3
        <4>5. QED
          BY <4>4 DEF CheckHealth, Close, Destroy, RoceStop, proxyVars
      <3>3. QED
        BY <3>1, <3>2
    <2>5. ASSUME NEW q \in Ranks, Launch(q) PROVE UNCHANGED proxyVars
      BY <1>1, <2>5, LaunchEffect
    <2>6. ASSUME NEW q \in Ranks, NEW b \in Blocks, BlockStep(q, b) PROVE UNCHANGED proxyVars
      BY <2>6, BlockQuiet
    <2>7. ASSUME NEW q \in Ranks, NEW p \in Peers(q), NEW h \in Hcas,
                 NicStep(q, p, h) \/ BreakQp(q, p, h)
          PROVE  UNCHANGED proxyVars
      BY <2>7, NicQuiet
    <2>8. ASSUME UNCHANGED vars PROVE UNCHANGED proxyVars
      BY <2>8 DEF vars
    <2>9. ASSUME UNCHANGED proxyVars PROVE px'[r] = px[r] /\ cursor'[r] = cursor[r]
      BY <2>9 DEF proxyVars
    <2>10. QED
      BY <1>7, <2>2, <2>3, <2>4, <2>5, <2>6, <2>7, <2>8, <2>9 DEF Next, Done, ProxyStep
  <1>8. QED
    BY <1>3, <1>4, <1>5, <1>6, <1>7

(* Every step keeps what is said of the connection that is posted to last. *)
LEMMA NextLast ==
  ASSUME NoWrap, OrderInv, [Next]_vars, NEW r \in Ranks, SizeInv(r), LastInv(r)
  PROVE  LastInv(r)'
  <1> DEFINE p == LastPeer(r)
             h == LastHca
  <1>1. TypeInv /\ KernelInv
    BY DEF OrderInv
  <1>2. p \in Peers(r) /\ p \in Ranks /\ h \in Hcas /\ r \in Peers(p)
    BY PeerOf, LastPeerIs DEF Peers
  <1> SUFFICES ASSUME AllUp(r)'
               PROVE  /\ epoch'[p] <= Posted(r)'
                      /\ \A b \in Blocks : Healthy(p)' /\ pc'[p][b] \in {"check", "tail"}
                                             => reg'[p][b] <= Posted(r)'
                      /\ \A s \in SlotIds : flag'[p][r][s][h] <= Posted(r)'
                      /\ \A k \in DOMAIN wq'[r][p][h] : wq'[r][p][h][k].seq <= Posted(r)'
    BY DEF LastInv, Healthy, LastPeer, LastHca
  <1>3. AllUp(r)
    BY <1>1, UpBefore
  <1>4. Posted(r) \in Nat /\ Posted(r)' \in Nat /\ Posted(r) <= Posted(r)'
    BY <1>3, PostedGrows
  <1>5. /\ epoch[p] <= Posted(r)
        /\ \A b \in Blocks : Healthy(p) /\ pc[p][b] \in {"check", "tail"} => reg[p][b] <= Posted(r)
        /\ \A s \in SlotIds : flag[p][r][s][h] <= Posted(r)
        /\ \A k \in DOMAIN wq[r][p][h] : wq[r][p][h][k].seq <= Posted(r)
    BY <1>3 DEF LastInv
  <1> HIDE DEF p, h
  <1>6. ASSUME NEW n \in Nat, n <= Posted(r) PROVE n <= Posted(r)'
    BY <1>4, <1>6
  <1>7. epoch'[p] <= Posted(r)'
    <2>1. \/ epoch'[p] = epoch[p]
          \/ Healthy(p) /\ \E b \in Blocks : pc[p][b] = "tail" /\ reg[p][b] = epoch[p] + 1
                                             /\ epoch'[p] = epoch[p] + 1
      BY <1>1, <1>2, EpochMoves
    <2>2. epoch'[p] <= Posted(r) /\ epoch'[p] \in Nat
      BY <1>1, <1>2, <1>5, <2>1, EpochGrows
    <2>3. QED
      BY <1>6, <2>2
  <1>8. ASSUME NEW b \in Blocks, Healthy(p)', pc'[p][b] \in {"check", "tail"}
        PROVE  reg'[p][b] <= Posted(r)'
    <2>1. /\ Healthy(p) /\ reg'[p][b] = reg[p][b] /\ reg[p][b] \in Nat
          /\ \/ pc'[p][b] = pc[p][b]
             \/ pc[p][b] = "check"
             \/ WaitDone(p, b)
      BY <1>1, <1>2, <1>8, WaitMoves, KernelType
    <2>2. CASE pc[p][b] \in {"check", "tail"}
      BY <1>5, <1>6, <2>1, <2>2
    <2>3. CASE WaitDone(p, b)
      <3>1. flag[p][r][Slot(reg[p][b])][h] = reg[p][b] /\ Slot(reg[p][b]) \in SlotIds
        BY <1>2, <2>1, <2>3, SlotType DEF WaitDone, Arrived
      <3>2. QED
        BY <1>5, <1>6, <2>1, <3>1
    <2>4. QED
      BY <1>8, <2>1, <2>2, <2>3
  <1>9. ASSUME NEW s \in SlotIds PROVE flag'[p][r][s][h] <= Posted(r)'
    <2>1. CASE flag'[p][r][s][h] = flag[p][r][s][h]
      BY <1>1, <1>2, <1>5, <1>6, <2>1, Seqs0
    <2>2. CASE wq[r][p][h] # <<>> /\ flag'[p][r][s][h] = First(r, p, h).seq
      <3>1. 1 \in DOMAIN wq[r][p][h] /\ First(r, p, h) = wq[r][p][h][1]
        BY <1>1, <1>2, <2>2, QueueType DEF First
      <3>2. First(r, p, h).seq \in Nat /\ First(r, p, h).seq <= Posted(r)
        BY <1>1, <1>2, <1>5, <3>1, Seqs0
      <3>3. QED
        BY <1>6, <2>2, <3>2
    <2>3. QED
      BY <1>1, <1>2, <2>1, <2>2, FlagMoves
  <1>10. ASSUME NEW k \in DOMAIN wq'[r][p][h] PROVE wq'[r][p][h][k].seq <= Posted(r)'
    <2>1. CASE \E j \in DOMAIN wq[r][p][h] : wq'[r][p][h][k] = wq[r][p][h][j]
      BY <1>1, <1>2, <1>5, <1>6, <2>1, Seqs0
    <2>2. CASE /\ Post(r) /\ p = cursor[r].peer /\ h = cursor[r].hca
               /\ wq'[r][p][h][k].seq = Posting(r)
      <3>1. px'[r] = "post" /\ last' = last /\ cursor'[r].peer = NextPeer(r, p)
        <4>1. ~(cursor[r].hca + 1 < NHca)
          BY <2>2, LastPeerIs DEF h
        <4>2. cursor'[r] = [peer |-> NextPeer(r, cursor[r].peer), hca |-> 0]
          BY <1>1, <2>2, <4>1, PostEffect
        <4>3. px'[r] = "post" /\ last' = last
          BY <1>1, <2>2, PostEffect
        <4>4. cursor'[r].peer = NextPeer(r, cursor[r].peer)
          BY <4>2
        <4>5. QED
          BY <2>2, <4>3, <4>4
      <3>2. Posted(r)' = Posting(r)
        BY <3>1, LastPeerIs DEF Posted, Posting, p
      <3>3. QED
        BY <1>4, <2>2, <3>2
    <2>3. QED
      BY <1>1, <1>2, <2>1, <2>2, EntryMoves
  <1>11. QED
    BY <1>7, <1>8, <1>9, <1>10

(* It holds in the initial state.                                          *)
LEMMA InitLast == ASSUME Init PROVE LastConnection
  <1> SUFFICES ASSUME NEW r \in Ranks PROVE LastInv(r)
    BY DEF LastConnection
  <1>1. LastPeer(r) \in Ranks /\ LastHca \in Hcas
    BY PeerOf, LastPeerIs DEF Peers
  <1>2. px[r] = "poll" /\ last[r] = 0
    BY DEF Init
  <1>3. Posted(r) = 0
    BY <1>2 DEF Posted
  <1>4. /\ epoch[LastPeer(r)] = 0 /\ \A b \in Blocks : pc[LastPeer(r)][b] = "done"
        /\ \A s \in SlotIds : flag[LastPeer(r)][r][s][LastHca] = 0
        /\ wq[r][LastPeer(r)][LastHca] = <<>>
    BY <1>1 DEF Init
  <1>5. QED
    BY <1>3, <1>4 DEF LastInv

(* The whole invariant.                                                    *)
RunInv == OrderInv /\ DataInv /\ LastConnection

(* The invariant of the whole collective: order, payloads and the last     *)
(* connection.                                                             *)
LEMMA RunAlways == ASSUME NoWrap PROVE Spec => []RunInv
  <1>1. Init => RunInv
    BY InitOrder, InitData, InitLast DEF RunInv
  <1>2. RunInv /\ [Next]_vars => RunInv'
    <2> SUFFICES ASSUME RunInv, [Next]_vars PROVE RunInv'
      OBVIOUS
    <2>1. OrderInv /\ DataInv /\ \A r \in Ranks : SizeInv(r) /\ LastInv(r)
      BY DEF RunInv, DataInv, LastConnection
    <2>2. OrderInv' /\ DataInv'
      BY <2>1, NextOrder, NextData
    <2>3. ASSUME NEW r \in Ranks PROVE LastInv(r)'
      BY <2>1, NextLast
    <2>4. LastConnection'
      BY <2>3 DEF LastConnection
    <2>5. QED
      BY <2>2, <2>4 DEF RunInv
  <1>3. QED
    BY <1>1, <1>2, PTL DEF Spec

-----------------------------------------------------------------------------
(* The properties.                                                         *)

(* The invariant makes a finished result fresh.                            *)
LEMMA RunFresh == ASSUME RunInv PROVE FreshResult
  BY DEF RunInv, DataInv, OutInv, FreshResult

(* The invariant makes a published epoch complete.                         *)
LEMMA RunPublished == ASSUME NoWrap, RunInv PROVE PublishedResult
  <1> SUFFICES ASSUME NEW r \in Ranks, launches[r] > 0, epoch[r] = launches[r] % SeqMod,
                      NEW i \in 0 .. Packs[launches[r]] - 1
               PROVE  out[r][i] # Unset /\ \A p \in Ranks : out[r][i][p] = launches[r]
    BY DEF PublishedResult
  <1> DEFINE n == launches[r]
  <1>1. TypeInv /\ LaunchInv(r) /\ OutInv(r)
    BY DEF RunInv, OrderInv, KernelInv, KernelOf, DataInv
  <1>2. n \in 0 .. MaxOps /\ MaxOps \in Nat /\ SeqMod \in Nat /\ MaxOps + 1 < SeqMod
    BY <1>1, KernelType, Constants DEF NoWrap
  <1>3. n \in Ops /\ n # 0
    BY <1>2 DEF Ops
  <1>4. epoch[r] = n
    <2>1. SeqMod \in Nat \ {0} /\ n \in 0 .. SeqMod - 1 /\ 0 \in Int
      BY <1>2
    <2>2. (SeqMod * 0 + n) % SeqMod = n
      BY <2>1, ModUnique
    <2>3. SeqMod * 0 + n = n
      BY <2>1
    <2>4. QED
      BY <2>2, <2>3
  <1>5. Healthy(r) /\ Idle(r)
    <2>1. Healthy(r)
      BY <1>1, <1>2, <1>4 DEF LaunchInv
    <2>2. Idle(r)
      BY <1>1, <1>2, <1>4, <2>1 DEF LaunchInv
    <2>3. QED
      BY <2>1, <2>2
  <1>6. PICK b \in 0 .. Grid[n] - 1 : i \in Share(b, Grid[n], Packs[n])
    BY <1>3, SharesCover
  <1>7. b \in Blocks /\ b \in GridOf(r) /\ i \in Cells
    BY <1>3, <1>6, GridType, ShareType DEF GridOf
  <1>8. pc[r][b] = "done"
    BY <1>5, <1>7 DEF Idle
  <1>9. out[r][i] # Unset
    BY <1>1, <1>3, <1>5, <1>6, <1>7, <1>8 DEF OutInv
  <1>10. QED
    BY <1>1, <1>7, <1>9 DEF OutInv

(* The doorbells behind what is posted on all connections.                 *)
LEMMA PendingIs ==
  ASSUME NoWrap, RunInv, NEW r \in Ranks, AllUp(r)
  PROVE  /\ Posted(r) \in Nat /\ ctrlSeq[r] \in 0 .. MaxOps /\ MaxOps \in Nat
         /\ Posted(r) <= ctrlSeq[r] /\ ctrlSeq[r] <= Posted(r) + 2
         /\ Pending(r) = ctrlSeq[r] - Posted(r)
         /\ \E p \in Peers(r) : epoch[p] <= Posted(r)
  <1> DEFINE p == LastPeer(r)
  <1>1. TypeInv /\ KernelInv /\ OrderInv /\ ProxyInv(r)
    BY DEF RunInv, OrderInv, NetInv
  <1>2. /\ ctrlSeq[r] \in 0 .. MaxOps /\ MaxOps \in Nat /\ last[r] \in Nat /\ epoch[p] \in Nat
        /\ ctrlSeq[r] <= epoch[p] + 2
    BY <1>1, PeerOf, Ahead
  <1>3. epoch[p] <= Posted(r) /\ p \in Peers(r)
    BY PeerOf DEF RunInv, LastConnection, LastInv
  <1>4. Posted(r) \in Nat /\ Posted(r) <= ctrlSeq[r]
    <2>1. Posting(r) = last[r] + 1 /\ last[r] <= ctrlSeq[r]
      BY <1>1, PostingIs
    <2>2. px[r] = "post" => last[r] + pend[r] <= ctrlSeq[r] /\ pend[r] \in 0 .. 2 /\ pend[r] # 0
      BY <1>1, Seqs0 DEF ProxyInv, SLOTS
    <2>3. CASE px[r] = "post" /\ cursor[r].peer >= World
      BY <1>2, <2>1, <2>2, <2>3 DEF Posted
    <2>4. CASE ~(px[r] = "post" /\ cursor[r].peer >= World)
      <3>1. Posted(r) = last[r]
        BY <2>4 DEF Posted
      <3>2. QED
        BY <1>2, <2>1, <3>1
    <2>5. QED
      BY <2>3, <2>4
  <1> HIDE DEF p
  <1>5. ctrlSeq[r] <= Posted(r) + 2 /\ Posted(r) \in 0 .. MaxOps + 1
    BY <1>2, <1>3, <1>4
  <1>6. Pending(r) = ctrlSeq[r] - Posted(r)
    BY <1>2, <1>4, <1>5, Difference DEF Pending
  <1>7. QED
    BY <1>2, <1>3, <1>4, <1>5, <1>6

(* A collective that has still to be posted has its number, its data and   *)
(* its size in the slot where the proxy will look.                         *)
LEMMA PendingSeq ==
  ASSUME NoWrap, RunInv, NEW r \in Ranks, AllUp(r), NEW k \in 1 .. Pending(r)
  PROVE  /\ (Posted(r) + k) % SeqMod = Posted(r) + k /\ Posted(r) + k \in Ops
         /\ (Posted(r) + k) % SeqMod \in Nat
         /\ Full(r, Posted(r) + k)
         /\ ctrlBytes[r][Slot(Posted(r) + k)] = Packs[Posted(r) + k]
  <1> DEFINE n == Posted(r) + k
  <1>1. /\ Posted(r) \in Nat /\ ctrlSeq[r] \in 0 .. MaxOps /\ MaxOps \in Nat
        /\ ctrlSeq[r] <= Posted(r) + 2 /\ Pending(r) = ctrlSeq[r] - Posted(r)
    BY PendingIs
  <1>2. n \in Nat \ {0} /\ n <= ctrlSeq[r] /\ ctrlSeq[r] <= n + 1 /\ n > Posted(r)
    BY <1>1
  <1>3. n \in Ops /\ n \in 0 .. SeqMod - 1 /\ SeqMod \in Nat \ {0}
    BY <1>1, <1>2, Constants DEF NoWrap, Ops
  <1>4. n % SeqMod = n
    <2>1. (SeqMod * 0 + n) % SeqMod = n
      BY <1>3, ModUnique
    <2>2. SeqMod * 0 + n = n
      BY <1>3
    <2>3. QED
      BY <2>1, <2>2
  <1>5. PICK p \in Peers(r) : epoch[p] <= Posted(r)
    BY PendingIs
  <1>6. OrderInv /\ HeldInv(r)
    BY DEF RunInv, DataInv
  <1>7. n > epoch[p]
    <2>1. epoch[p] \in 0 .. MaxOps
      BY <1>6, Ahead
    <2>2. QED
      BY <1>1, <1>2, <1>5, <2>1
  <1> HIDE DEF n
  <1>8. Full(r, n)
    BY <1>2, <1>6, <1>7, Held
  <1>9. ctrlBytes[r][Slot(n)] = Packs[n]
    BY <1>1, <1>2, <1>6, SizeWord
  <1>10. QED
    BY <1>2, <1>3, <1>4, <1>8, <1>9 DEF n

(* The invariant bounds the distance of doorbell and proxy.                *)
LEMMA RunDoorbells == ASSUME NoWrap, RunInv PROVE DoorbellBound
  <1>1. ASSUME NEW r \in Ranks, AllUp(r) PROVE Pending(r) <= SLOTS
    BY <1>1, PendingIs DEF SLOTS
  <1>2. ASSUME NEW r \in Ranks, AllUp(r), NEW k \in 1 .. Pending(r)
        PROVE  LET seq == (Posted(r) + k) % SeqMod
               IN  \E n \in Ops : n % SeqMod = seq /\ ctrlBytes[r][Slot(seq)] = Packs[n]
    BY <1>2, PendingSeq
  <1>3. QED
    BY <1>1, <1>2 DEF DoorbellBound

(* A word below the wrap is the number of its collective.                  *)
LEMMA Unwraps ==
  ASSUME NoWrap, NEW n \in Ops PROVE n % SeqMod = n
  <1>1. n \in 0 .. SeqMod - 1 /\ SeqMod \in Nat \ {0}
    BY Constants DEF NoWrap, Ops
  <1>2. (SeqMod * 0 + n) % SeqMod = n
    BY <1>1, ModUnique
  <1>3. SeqMod * 0 + n = n
    BY <1>1
  <1>4. QED
    BY <1>2, <1>3

(* The invariant keeps a send slot unchanged while its writes are queued.  *)
LEMMA RunIntact == ASSUME NoWrap, RunInv PROVE SendSlotIntact
  <1>1. ASSUME NEW r \in Ranks, AllUp(r), NEW k \in 1 .. Pending(r)
        PROVE  LET seq == (Posted(r) + k) % SeqMod
               IN  Holds(r, seq, 0 .. ctrlBytes[r][Slot(seq)] - 1)
    <2> DEFINE n == Posted(r) + k
    <2>1. n % SeqMod = n /\ n \in Ops /\ Full(r, n) /\ ctrlBytes[r][Slot(n)] = Packs[n]
      BY <1>1, PendingSeq
    <2> HIDE DEF n
    <2>2. Holds(r, n, 0 .. ctrlBytes[r][Slot(n)] - 1)
      BY <2>1 DEF Holds, Full
    <2>3. QED
      BY <2>1, <2>2 DEF n
  <1>2. ASSUME NEW r \in Ranks, NEW p \in Peers(r), NEW h \in Hcas, NEW k \in DOMAIN wq[r][p][h],
               wq[r][p][h][k].seq \in {Succ(epoch[p]), Succ(Succ(epoch[p]))}
        PROVE  Holds(r, wq[r][p][h][k].seq, wq[r][p][h][k].packs)
    <2> DEFINE w == wq[r][p][h][k]
               n == w.seq
    <2>1. OrderInv /\ TypeInv /\ HeldInv(r) /\ QueueInv(r, p) /\ SentInv(r, p) /\ p \in Ranks
      BY DEF RunInv, OrderInv, NetInv, DataInv, TransitInv, Peers
    <2>2. n # 0 /\ n <= ctrlSeq[r] /\ n \in Nat
      BY <2>1, Seqs0 DEF SentInv, QueuedSent, Within
    <2>3. epoch[p] \in 0 .. MaxOps /\ MaxOps \in Nat /\ MaxOps + 1 < SeqMod /\ SeqMod \in Nat
      BY <2>1, Ahead, Constants DEF NoWrap
    <2>4. Succ(epoch[p]) = epoch[p] + 1
      BY <2>3, SuccIs
    <2>5. Succ(epoch[p] + 1) \in {epoch[p] + 2, 0}
      <3>1. CASE epoch[p] + 2 < SeqMod
        <4>1. epoch[p] + 2 \in 0 .. SeqMod - 1 /\ SeqMod \in Nat \ {0}
          BY <2>3, <3>1
        <4>2. (SeqMod * 0 + (epoch[p] + 2)) % SeqMod = epoch[p] + 2
          BY <4>1, ModUnique
        <4>3. SeqMod * 0 + (epoch[p] + 2) = epoch[p] + 1 + 1
          BY <2>3
        <4>4. QED
          BY <4>2, <4>3 DEF Succ
      <3>2. CASE ~(epoch[p] + 2 < SeqMod)
        <4>1. epoch[p] + 1 + 1 = SeqMod /\ SeqMod \in Nat \ {0}
          BY <2>3, <3>2
        <4>2. SeqMod % SeqMod = 0
          BY <4>1, ModSelf
        <4>3. QED
          BY <4>1, <4>2 DEF Succ
      <3>3. QED
        BY <3>1, <3>2
    <2>6. n > epoch[p]
      BY <1>2, <2>2, <2>3, <2>4, <2>5
    <2>7. n \in Ops /\ Full(r, n)
      BY <2>1, <2>2, <2>6, Held
    <2>8. w.kind \in {"data", "flag"}
      <3>1. w \in Request
        BY <2>1, QueueType
      <3>2. QED
        BY <3>1 DEF Request
    <2>9. w.packs = Stripe(h, Packs[n]) \/ w.packs = {}
      BY <2>1, <2>8 DEF QueueInv, DataWrite, FlagWrite
    <2>10. w.packs \subseteq 0 .. Packs[n] - 1
      BY <2>7, <2>9, StripesCover
    <2>11. n % SeqMod = n
      BY <2>7, Unwraps
    <2>12. QED
      BY <2>7, <2>10, <2>11 DEF Holds, Full
  <1>3. QED
    BY <1>1, <1>2 DEF SendSlotIntact

(* Whatever breaks and times out, a kernel stores nothing but the data     *)
(* that all ranks contributed to this very collective: the receive slots   *)
(* are never read too early nor overwritten too early.                     *)
THEOREM OnlyFreshData == ASSUME NoWrap PROVE Spec => []FreshResult
  <1>1. RunInv => FreshResult
    BY RunFresh
  <1>2. QED
    BY <1>1, RunAlways, PTL

(* A published epoch stands for a complete result: every pack of the       *)
(* output has been stored, with the data of all ranks.                     *)
THEOREM PublishedIsComplete == ASSUME NoWrap PROVE Spec => []PublishedResult
  <1>1. RunInv => PublishedResult
    BY RunPublished
  <1>2. QED
    BY <1>1, RunAlways, PTL

(* No send slot is staged over while the proxy still has to post it, or a  *)
(* NIC still has to read it for a peer that waits.                         *)
THEOREM SendSlotsHold == ASSUME NoWrap PROVE Spec => []SendSlotIntact
  <1>1. RunInv => SendSlotIntact
    BY RunIntact
  <1>2. QED
    BY <1>1, RunAlways, PTL

(* While its connections work, a proxy never finds more doorbells than     *)
(* there are slots, so that it never gives up on a healthy run, and the    *)
(* size next to each of them is the one of its collective.                 *)
THEOREM DoorbellsBounded == ASSUME NoWrap PROVE Spec => []DoorbellBound
  <1>1. RunInv => DoorbellBound
    BY RunDoorbells
  <1>2. QED
    BY <1>1, RunAlways, PTL
=============================================================================
