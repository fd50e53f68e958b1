------------------------- MODULE RoceOneshotProofs -------------------------
(***************************************************************************)
(* Proofs about RoceOneshot that hold for every number of ranks, blocks,   *)
(* HCAs, collectives and faults: first the types, then the order of the    *)
(* collectives, that is the counters of the blocks, the doorbell, the      *)
(* flags and the epoch.  The order holds as long as no sequence word wraps.*)
(***************************************************************************)
EXTENDS RoceInvariant, FiniteSetTheorems, TLAPS


(* TypeOK is not inductive by itself: a kernel that runs belongs to a      *)
(* launch, and a proxy that posts has a doorbell left to post.             *)
Running ==
  \A r \in Ranks : /\ (\E b \in Blocks : pc[r][b] # "done") => launches[r] # 0
                   /\ px[r] = "post" => pend[r] # 0

TypeInv == TypeOK /\ Running

-----------------------------------------------------------------------------
(* What the proofs use of the assumptions on the constants.                *)
LEMMA Constants ==
  /\ World \in Nat \ {0, 1} /\ MaxOps \in Nat \ {0} /\ MaxPacks \in Nat
  /\ SeqMod \in Nat \ {0} /\ CtrMod \in Nat \ {0} /\ MaxBlocks \in Nat \ {0}
  /\ MaxFaults \in Nat /\ MaxStops \in Nat /\ NHca \in {1, 2}
  BY GeometryAssumption, RoceAssumption DEF SLOTS

LEMMA SizeType ==
  ASSUME NEW n \in Ops PROVE Packs[n] \in 1 .. MaxPacks /\ Grid[n] \in 1 .. MaxBlocks
  BY RoceAssumption

LEMMA SlotType == ASSUME NEW s \in Nat PROVE Slot(s) \in SlotIds
  BY DEF Slot, SlotIds, SLOTS

LEMMA SuccType == ASSUME NEW s \in Nat PROVE Succ(s) \in Seqs
  BY Constants DEF Succ, Seqs

LEMMA SeqsNat == Seqs \subseteq Nat
  BY DEF Seqs

(* The stripe of an HCA lies within the payload.                           *)
LEMMA StripeType ==
  ASSUME NEW h \in Hcas, NEW n \in 0 .. MaxPacks
  PROVE  Stripe(h, n) \subseteq Cells
  <1>1. NHca \in {1, 2} /\ MaxPacks \in Nat
    BY GeometryAssumption, RoceAssumption
  <1>2. CASE NHca = 1
    BY <1>1, <1>2 DEF Stripe, PackOffset, StripePacks, Cells, Hcas
  <1>3. CASE NHca = 2
    BY <1>1, <1>3 DEF Stripe, PackOffset, StripePacks, Cells, Hcas
  <1>4. QED
    BY <1>1, <1>2, <1>3

LEMMA CounterType ==
  ASSUME NEW k \in Nat PROVE (k + 1) % CtrMod \in 0 .. CtrMod - 1
  BY Constants

(* After the connection to a peer comes one to a later peer, or the end.   *)
LEMMA NextPeerType ==
  ASSUME NEW r \in Ranks, NEW p \in 0 .. World, p < World
  PROVE  NextPeer(r, p) \in 0 .. World
  BY Constants DEF NextPeer, Ranks

(* Sequences of one or two requests, and requests joined to a queue.       *)
LEMMA OneOrTwo ==
  ASSUME NEW S, NEW a \in S, NEW b \in S
  PROVE  <<a>> \in Seq(S) /\ <<b, a>> \in Seq(S)
  OBVIOUS

LEMMA Joined ==
  ASSUME NEW S, NEW s \in Seq(S), NEW t \in Seq(S)
  PROVE  s \o t \in Seq(S)
  OBVIOUS

LEMMA HeadTail ==
  ASSUME NEW S, NEW q \in Seq(S), q # <<>>
  PROVE  Head(q) \in S /\ Tail(q) \in Seq(S)
  OBVIOUS


(* Replacing one entry of a nested function keeps its type.                *)
LEMMA PutCounter ==
  ASSUME NEW f \in [Ranks -> [1 .. MaxBlocks -> 0 .. CtrMod - 1]],
         NEW r \in Ranks, NEW g \in 1 .. MaxBlocks, NEW c \in 0 .. CtrMod - 1
  PROVE  [f EXCEPT ![r][g] = c] \in [Ranks -> [1 .. MaxBlocks -> 0 .. CtrMod - 1]]
  OBVIOUS

LEMMA PutSlot ==
  ASSUME NEW T, NEW f \in [Ranks -> [SlotIds -> T]],
         NEW r \in Ranks, NEW s \in SlotIds, NEW x \in T
  PROVE  [f EXCEPT ![r][s] = x] \in [Ranks -> [SlotIds -> T]]
  OBVIOUS

LEMMA PutQueue ==
  ASSUME NetType, NEW r \in Ranks, NEW p \in Ranks, NEW h \in Hcas,
         NEW q \in Seq(Request)
  PROVE  [wq EXCEPT ![r][p][h] = q] \in [Ranks -> [Ranks -> [Hcas -> Seq(Request)]]]
  <1>1. [wq[r] EXCEPT ![p][h] = q] \in [Ranks -> [Hcas -> Seq(Request)]]
    BY DEF NetType
  <1>2. QED
    BY <1>1 DEF NetType

LEMMA PutRecv ==
  ASSUME RegionType, NEW r \in Ranks, NEW p \in Ranks, NEW s \in SlotIds,
         NEW c \in [Cells -> 0 .. MaxOps]
  PROVE  [recv EXCEPT ![p][r][s] = c]
           \in [Ranks -> [Ranks -> [SlotIds -> [Cells -> 0 .. MaxOps]]]]
  <1>1. [recv[p] EXCEPT ![r][s] = c] \in [Ranks -> [SlotIds -> [Cells -> 0 .. MaxOps]]]
    BY DEF RegionType
  <1>2. QED
    BY <1>1 DEF RegionType

LEMMA PutFlagType ==
  ASSUME RegionType, NEW r \in Ranks, NEW p \in Ranks, NEW s \in SlotIds,
         NEW h \in Hcas, NEW v \in Seqs
  PROVE  [flag EXCEPT ![p][r][s][h] = v]
           \in [Ranks -> [Ranks -> [SlotIds -> [Hcas -> Seqs]]]]
  <1>1. [flag[p][r] EXCEPT ![s][h] = v] \in [SlotIds -> [Hcas -> Seqs]]
    BY DEF RegionType
  <1>2. [flag[p] EXCEPT ![r][s][h] = v] \in [Ranks -> [SlotIds -> [Hcas -> Seqs]]]
    BY <1>1 DEF RegionType
  <1>3. QED
    BY <1>2 DEF RegionType

LEMMA InitTypeInv == Init => TypeInv
  <1> SUFFICES ASSUME Init PROVE TypeInv
    OBVIOUS
  <1> USE GeometryAssumption, RoceAssumption DEF Init, SLOTS, SlotIds, Seqs
  <1>1. HostType
    BY DEF HostType
  <1>2. GpuType
    BY DEF GpuType, Unset
  <1>3. RegionType
    BY DEF RegionType, NoData
  <1>4. ProxyType
    BY DEF ProxyType, FirstPeer, Ranks, Hcas
  <1>5. NetType
    BY DEF NetType
  <1>6. Running
    BY DEF Running
  <1>7. QED
    BY <1>1, <1>2, <1>3, <1>4, <1>5, <1>6 DEF TypeInv, TypeOK

(* The parts of TypeOK whose variables a step leaves alone.                *)
LEMMA Stays ==
  /\ HostType /\ UNCHANGED <<hostVars, stops>> => HostType'
  /\ GpuType /\ UNCHANGED gpuVars => GpuType'
  /\ RegionType /\ UNCHANGED regionVars => RegionType'
  /\ ProxyType /\ UNCHANGED proxyVars => ProxyType'
  /\ NetType /\ UNCHANGED netVars => NetType'
  <1>1. HostType /\ UNCHANGED <<hostVars, stops>> => HostType'
    BY DEF HostType, hostVars
  <1>2. GpuType /\ UNCHANGED gpuVars => GpuType'
    BY DEF GpuType, gpuVars
  <1>3. RegionType /\ UNCHANGED regionVars => RegionType'
    BY DEF RegionType, regionVars
  <1>4. ProxyType /\ UNCHANGED proxyVars => ProxyType'
    BY DEF ProxyType, proxyVars
  <1>5. NetType /\ UNCHANGED netVars => NetType'
    BY DEF NetType, netVars
  <1>6. QED
    BY <1>1, <1>2, <1>3, <1>4, <1>5

LEMMA LaunchType ==
  ASSUME TypeInv, NEW r \in Ranks, Launch(r)
  PROVE  TypeInv'
  <1> USE DEF TypeInv, TypeOK, Launch
  <1>1. HostType'
    BY Constants DEF HostType, Ops
  <1>2. GpuType'
    BY DEF GpuType, Unset
  <1>3. RegionType'
    BY Stays
  <1>4. ProxyType'
    BY Stays
  <1>5. NetType'
    BY Stays
  <1>6. Running'
    BY DEF Running, HostType, GpuType, ProxyType, proxyVars
  <1>7. QED
    BY <1>1, <1>2, <1>3, <1>4, <1>5, <1>6

LEMMA CheckHealthType ==
  ASSUME TypeInv, NEW r \in Ranks, CheckHealth(r)
  PROVE  TypeInv'
  <1> USE DEF TypeInv, TypeOK, CheckHealth
  <1>1. HostType'
    BY DEF HostType
  <1>2. GpuType'
    BY Stays
  <1>3. RegionType'
    BY Stays
  <1>4. ProxyType'
    BY Stays
  <1>5. NetType'
    BY Stays
  <1>6. Running'
    BY DEF Running, hostVars, gpuVars, proxyVars
  <1>7. QED
    BY <1>1, <1>2, <1>3, <1>4, <1>5, <1>6

LEMMA CloseType ==
  ASSUME TypeInv, NEW r \in Ranks, Close(r)
  PROVE  TypeInv'
  <1> USE DEF TypeInv, TypeOK, Close
  <1>1. HostType'
    BY DEF HostType
  <1>2. GpuType'
    BY Stays
  <1>3. RegionType'
    BY Stays
  <1>4. ProxyType'
    BY DEF ProxyType
  <1>5. NetType'
    BY Stays
  <1>6. Running'
    BY DEF Running, hostVars, gpuVars, proxyVars
  <1>7. QED
    BY <1>1, <1>2, <1>3, <1>4, <1>5, <1>6

LEMMA DestroyType ==
  ASSUME TypeInv, NEW r \in Ranks, Destroy(r)
  PROVE  TypeInv'
  <1> USE DEF TypeInv, TypeOK, Destroy
  <1>1. HostType'
    BY DEF HostType
  <1>2. GpuType'
    BY Stays
  <1>3. RegionType'
    BY Stays
  <1>4. ProxyType'
    BY Stays
  <1>5. NetType'
    BY DEF NetType
  <1>6. Running'
    BY DEF Running, hostVars, gpuVars, proxyVars
  <1>7. QED
    BY <1>1, <1>2, <1>3, <1>4, <1>5, <1>6

LEMMA RoceStopType ==
  ASSUME TypeInv, NEW r \in Ranks, RoceStop(r)
  PROVE  TypeInv'
  <1> USE DEF TypeInv, TypeOK, RoceStop
  <1>1. HostType'
    <2>1. faults \in Nat
      BY Constants DEF NetType
    <2>2. QED
      BY <2>1, Constants DEF HostType, hostVars
  <1>2. GpuType'
    BY Stays
  <1>3. RegionType'
    BY Stays
  <1>4. ProxyType'
    BY DEF ProxyType
  <1>5. NetType'
    BY Stays
  <1>6. Running'
    BY DEF Running, hostVars, gpuVars, proxyVars
  <1>7. QED
    BY <1>1, <1>2, <1>3, <1>4, <1>5, <1>6

LEMMA RoceStartType ==
  ASSUME TypeInv, NEW r \in Ranks, RoceStart(r)
  PROVE  TypeInv'
  <1> USE DEF TypeInv, TypeOK, RoceStart
  <1>1. HostType'
    BY Stays
  <1>2. GpuType'
    BY Stays
  <1>3. RegionType'
    BY Stays
  <1>4. ProxyType'
    BY DEF ProxyType
  <1>5. NetType'
    BY Stays
  <1>6. Running'
    BY DEF Running, hostVars, gpuVars, proxyVars, ProxyType
  <1>7. QED
    BY <1>1, <1>2, <1>3, <1>4, <1>5, <1>6

LEMMA SeeDoorbellType ==
  ASSUME TypeInv, NEW r \in Ranks, SeeDoorbell(r)
  PROVE  TypeInv'
  <1> DEFINE Pending0 == (ctrlSeq[r] - last[r] + SeqMod) % SeqMod
  <1> USE DEF TypeInv, TypeOK, SeeDoorbell
  <1>1. HostType'
    BY Stays
  <1>2. GpuType'
    BY Stays
  <1>3. RegionType'
    BY Stays
  <1>4. ProxyType'
    <2>1. CASE Pending0 > SLOTS
      BY <2>1 DEF ProxyType, Fail
    <2>2. CASE ~(Pending0 > SLOTS)
      <3>1. Pending0 \in 1 .. SLOTS
        <4>1. ctrlSeq[r] \in Seqs /\ last[r] \in Seqs /\ Pending0 > 0
          BY DEF ProxyType, RegionType
        <4> HIDE DEF SeeDoorbell
        <4>2. Pending0 \in Int
          BY <4>1, Constants DEF Seqs
        <4>3. QED
          BY <4>1, <4>2, <2>2 DEF SLOTS
      <3>2. [peer |-> FirstPeer(r), hca |-> 0] \in [peer : 0 .. World, hca : Hcas]
        BY Constants DEF FirstPeer, Hcas
      <3>3. ctrlBytes[r][Slot(Succ(last[r]))] \in 0 .. MaxPacks
        <4>1. Succ(last[r]) \in Nat
          BY SuccType, SeqsNat DEF ProxyType
        <4>2. QED
          BY <4>1, SlotType DEF RegionType
      <3>4. /\ px' = [px EXCEPT ![r] = "post"]
            /\ pend' = [pend EXCEPT ![r] = Pending0]
            /\ cursor' = [cursor EXCEPT ![r] = [peer |-> FirstPeer(r), hca |-> 0]]
            /\ nbytes' = [nbytes EXCEPT ![r] = ctrlBytes[r][Slot(Succ(last[r]))]]
            /\ UNCHANGED <<running, failed, last>>
        BY <2>2 DEF BeginOp
      <3> HIDE DEF SeeDoorbell, Pending0
      <3>5. QED
        BY <3>1, <3>2, <3>3, <3>4 DEF ProxyType, SLOTS
    <2>3. QED
      BY <2>1, <2>2
  <1>5. NetType'
    BY Stays
  <1>6. Running'
    <2>1. Pending0 > 0
      OBVIOUS
    <2>2. Pending0 # 0
      BY <2>1
    <2>3. \/ px' = [px EXCEPT ![r] = "dead"] /\ pend' = pend
          \/ px' = [px EXCEPT ![r] = "post"] /\ pend' = [pend EXCEPT ![r] = Pending0]
      BY DEF Fail
    <2> HIDE DEF Pending0
    <2>4. QED
      BY <2>2, <2>3 DEF Running, hostVars, gpuVars, ProxyType
  <1>7. QED
    BY <1>1, <1>2, <1>3, <1>4, <1>5, <1>6

LEMMA PostType ==
  ASSUME TypeInv, NEW r \in Ranks, Post(r)
  PROVE  TypeInv'
  <1> USE DEF TypeInv, TypeOK, Post
  <1>1. HostType'
    BY Stays
  <1>2. GpuType'
    BY Stays
  <1>3. RegionType'
    BY Stays
  <1>4. ProxyType'
    <2> DEFINE p == cursor[r].peer
               h == cursor[r].hca
               next == IF h + 1 < NHca THEN [peer |-> p, hca |-> h + 1]
                                       ELSE [peer |-> NextPeer(r, p), hca |-> 0]
    <2>1. p \in 0 .. World /\ h \in Hcas /\ p < World /\ r \in 0 .. World - 1
      BY Constants DEF ProxyType, Ranks
    <2>2. cursor' = [cursor EXCEPT ![r] = next]
      OBVIOUS
    <2>3. UNCHANGED <<px, running, failed, last, pend, nbytes>>
      OBVIOUS
    <2> HIDE DEF Post, p, h
    <2>4. NextPeer(r, p) \in 0 .. World
      BY <2>1, NextPeerType
    <2>5. next \in [peer : 0 .. World, hca : Hcas]
      BY <2>1, <2>4, Constants DEF Hcas
    <2> HIDE DEF next
    <2>6. QED
      BY <2>2, <2>3, <2>5 DEF ProxyType
  <1>5. NetType'
    <2> DEFINE p == cursor[r].peer
               h == cursor[r].hca
               packs == Stripe(h, nbytes[r])
               data == [kind |-> "data", seq |-> Posting(r), packs |-> packs]
               mark == [kind |-> "flag", seq |-> Posting(r), packs |-> {}]
               new == IF packs = {} THEN <<mark>> ELSE <<data, mark>>
    <2>a. cursor[r] \in [peer : 0 .. World, hca : Hcas]
      BY DEF ProxyType
    <2>b. p < World
      OBVIOUS
    <2>1. p \in Ranks /\ h \in Hcas
      <3> HIDE DEF Post
      <3>1. QED
        BY <2>a, <2>b, Constants DEF Ranks
    <2>2. Posting(r) \in Seqs
      BY SuccType, SeqsNat DEF ProxyType, Posting
    <2>3. packs \in SUBSET Cells
      BY <2>1, StripeType DEF ProxyType
    <2>4. data \in Request /\ mark \in Request
      BY <2>2, <2>3 DEF Request
    <2>5. wq' = wq \/ wq' = [wq EXCEPT ![r][p][h] = wq[r][p][h] \o new]
      OBVIOUS
    <2>6. UNCHANGED <<qpUp, faults>>
      OBVIOUS
    <2> HIDE DEF Post, p, h, packs, data, mark
    <2>7. new \in Seq(Request)
      BY <2>4, OneOrTwo
    <2> HIDE DEF new
    <2>8. wq[r][p][h] \in Seq(Request)
      BY <2>1 DEF NetType
    <2>9. wq[r][p][h] \o new \in Seq(Request)
      BY <2>7, <2>8, Joined
    <2>10. [wq EXCEPT ![r][p][h] = wq[r][p][h] \o new]
             \in [Ranks -> [Ranks -> [Hcas -> Seq(Request)]]]
      BY <2>1, <2>9, PutQueue
    <2>11. QED
      BY <2>5, <2>6, <2>10 DEF NetType
  <1>6. Running'
    BY DEF Running, hostVars, gpuVars, proxyVars
  <1>7. QED
    BY <1>1, <1>2, <1>3, <1>4, <1>5, <1>6

LEMMA PostFailsType ==
  ASSUME TypeInv, NEW r \in Ranks, PostFails(r)
  PROVE  TypeInv'
  <1> USE DEF TypeInv, TypeOK, PostFails
  <1>1. HostType'
    BY Stays
  <1>2. GpuType'
    BY Stays
  <1>3. RegionType'
    BY Stays
  <1>4. ProxyType'
    BY DEF ProxyType, Fail
  <1>5. NetType'
    BY Stays
  <1>6. Running'
    BY DEF Running, hostVars, gpuVars, proxyVars, ProxyType, Fail
  <1>7. QED
    BY <1>1, <1>2, <1>3, <1>4, <1>5, <1>6

LEMMA EndOpType ==
  ASSUME TypeInv, NEW r \in Ranks, EndOp(r)
  PROVE  TypeInv'
  <1> USE DEF TypeInv, TypeOK, EndOp
  <1>1. HostType'
    BY Stays
  <1>2. GpuType'
    BY Stays
  <1>3. RegionType'
    BY Stays
  <1>4. ProxyType'
    <2>1. CASE \E h \in Hcas : Broken(r, h)
      BY <2>1 DEF ProxyType, Fail
    <2>2. CASE ~\E h \in Hcas : Broken(r, h)
      <3>1. Posting(r) \in Seqs
        BY SuccType, SeqsNat DEF ProxyType, Posting
      <3>2. [peer |-> FirstPeer(r), hca |-> 0] \in [peer : 0 .. World, hca : Hcas]
        BY Constants DEF FirstPeer, Hcas
      <3>3. ctrlBytes[r][Slot(Succ(Posting(r)))] \in 0 .. MaxPacks
        <4>1. Succ(Posting(r)) \in Nat
          BY <3>1, SuccType, SeqsNat
        <4>2. QED
          BY <4>1, SlotType DEF RegionType
      <3>4. pend[r] - 1 \in 0 .. SLOTS
        BY DEF ProxyType, Running, SLOTS
      <3>5. cursor' \in [Ranks -> [peer : 0 .. World, hca : Hcas]]
        BY <2>2, <3>2 DEF ProxyType, BeginOp
      <3>6. nbytes' \in [Ranks -> 0 .. MaxPacks]
        BY <2>2, <3>3 DEF ProxyType, BeginOp
      <3>7. /\ last' = [last EXCEPT ![r] = Posting(r)]
            /\ pend' = [pend EXCEPT ![r] = pend[r] - 1]
            /\ px' = px \/ px' = [px EXCEPT ![r] = "poll"]
            /\ UNCHANGED <<running, failed>>
        BY <2>2
      <3> HIDE DEF EndOp
      <3>8. last' \in [Ranks -> Seqs] /\ pend' \in [Ranks -> 0 .. SLOTS]
        BY <3>1, <3>4, <3>7 DEF ProxyType
      <3>9. px' \in [Ranks -> {"poll", "post", "off", "dead"}]
        BY <3>7 DEF ProxyType
      <3>10. QED
        BY <3>5, <3>6, <3>7, <3>8, <3>9 DEF ProxyType
    <2>3. QED
      BY <2>1, <2>2
  <1>5. NetType'
    BY Stays
  <1>6. Running'
    BY DEF Running, hostVars, gpuVars, proxyVars, ProxyType, Fail, SLOTS
  <1>7. QED
    BY <1>1, <1>2, <1>3, <1>4, <1>5, <1>6

LEMMA ThreadExitType ==
  ASSUME TypeInv, NEW r \in Ranks, ThreadExit(r)
  PROVE  TypeInv'
  <1> USE DEF TypeInv, TypeOK, ThreadExit
  <1>1. HostType'
    BY Stays
  <1>2. GpuType'
    BY Stays
  <1>3. RegionType'
    BY Stays
  <1>4. ProxyType'
    BY DEF ProxyType
  <1>5. NetType'
    BY Stays
  <1>6. Running'
    BY DEF Running, hostVars, gpuVars, proxyVars, ProxyType
  <1>7. QED
    BY <1>1, <1>2, <1>3, <1>4, <1>5, <1>6

LEMMA DrainFailsType ==
  ASSUME TypeInv, NEW r \in Ranks, NEW h \in Hcas, DrainFails(r, h)
  PROVE  TypeInv'
  <1> USE DEF TypeInv, TypeOK, DrainFails
  <1>1. HostType'
    BY Stays
  <1>2. GpuType'
    BY Stays
  <1>3. RegionType'
    BY Stays
  <1>4. ProxyType'
    BY DEF ProxyType, Fail
  <1>5. NetType'
    BY Stays
  <1>6. Running'
    BY DEF Running, hostVars, gpuVars, proxyVars, ProxyType, Fail
  <1>7. QED
    BY <1>1, <1>2, <1>3, <1>4, <1>5, <1>6

LEMMA StartType ==
  ASSUME TypeInv, NEW r \in Ranks, NEW b \in Blocks, Start(r, b)
  PROVE  TypeInv'
  <1> USE DEF TypeInv, TypeOK, Start
  <1>1. HostType'
    BY Stays
  <1>2. GpuType'
    BY SuccType, SeqsNat DEF GpuType
  <1>3. RegionType'
    BY Stays
  <1>4. ProxyType'
    BY Stays
  <1>5. NetType'
    BY Stays
  <1>6. Running'
    BY DEF Running, hostVars, gpuVars, proxyVars, GpuType
  <1>7. QED
    BY <1>1, <1>2, <1>3, <1>4, <1>5, <1>6

LEMMA StageType ==
  ASSUME TypeInv, NEW r \in Ranks, NEW b \in Blocks, Stage(r, b)
  PROVE  TypeInv'
  <1> USE DEF TypeInv, TypeOK, Stage
  <1>1. HostType'
    BY Stays
  <1>2. GpuType'
    <2> DEFINE g == Grid[launches[r]]
    <2>1. launches[r] \in Ops
      BY Constants DEF HostType, Running, Ops, GpuType
    <2>2. g \in 1 .. MaxBlocks
      BY <2>1, SizeType
    <2>3. stageCtr[r][g] \in Nat
      BY <2>2, Constants DEF GpuType
    <2>4. /\ stageCtr' = [stageCtr EXCEPT ![r][g] = (stageCtr[r][g] + 1) % CtrMod]
          /\ pc' = [pc EXCEPT ![r][b] = "wait"]
          /\ UNCHANGED <<epoch, poison, tailCtr, reg, out>>
      BY DEF CounterClass
    <2> HIDE DEF Stage, g
    <2>5. stageCtr' \in [Ranks -> [1 .. MaxBlocks -> 0 .. CtrMod - 1]]
      BY <2>2, <2>3, <2>4, CounterType, PutCounter DEF GpuType
    <2>6. QED
      BY <2>4, <2>5 DEF GpuType
  <1>3. RegionType'
    <2> DEFINE n == launches[r]
               slot == Slot(reg[r][b])
    <2>1. n \in Ops
      BY Constants DEF HostType, Running, Ops, GpuType
    <2>2. slot \in SlotIds /\ reg[r][b] \in Seqs
      BY SlotType, SeqsNat DEF GpuType
    <2>3. n \in 0 .. MaxOps /\ Packs[n] \in 0 .. MaxPacks
      BY <2>1, SizeType, Constants DEF Ops
    <2> HIDE DEF slot, n
    <2>4. send' \in [Ranks -> [SlotIds -> [Cells -> 0 .. MaxOps]]]
      <3>1. send' = [send EXCEPT ![r][slot] = [i \in Cells |->
                      IF i \in Share(b, Grid[n], Packs[n]) THEN n ELSE send[r][slot][i]]]
        BY DEF slot, n
      <3> HIDE DEF Stage
      <3>2. send \in [Ranks -> [SlotIds -> [Cells -> 0 .. MaxOps]]]
        BY DEF RegionType
      <3>3. [i \in Cells |-> IF i \in Share(b, Grid[n], Packs[n]) THEN n ELSE send[r][slot][i]]
              \in [Cells -> 0 .. MaxOps]
        BY <2>2, <2>3, <3>2
      <3>4. QED
        BY <2>2, <3>1, <3>2, <3>3, PutSlot
    <2>5. ctrlBytes' \in [Ranks -> [SlotIds -> 0 .. MaxPacks]]
      <3>1. \/ ctrlBytes' = ctrlBytes
            \/ ctrlBytes' = [ctrlBytes EXCEPT ![r][slot] = Packs[n]]
        BY DEF slot, n
      <3> HIDE DEF Stage
      <3>2. ctrlBytes \in [Ranks -> [SlotIds -> 0 .. MaxPacks]]
        BY DEF RegionType
      <3>3. [ctrlBytes EXCEPT ![r][slot] = Packs[n]] \in [Ranks -> [SlotIds -> 0 .. MaxPacks]]
        BY <2>2, <2>3, <3>2, PutSlot
      <3>4. QED
        BY <3>1, <3>2, <3>3
    <2>6. ctrlSeq' \in [Ranks -> Seqs]
      BY <2>2 DEF RegionType
    <2>7. QED
      BY <2>4, <2>5, <2>6 DEF RegionType
  <1>4. ProxyType'
    BY Stays
  <1>5. NetType'
    BY Stays
  <1>6. Running'
    BY DEF Running, hostVars, gpuVars, proxyVars, GpuType
  <1>7. QED
    BY <1>1, <1>2, <1>3, <1>4, <1>5, <1>6

LEMMA WaitDoneType ==
  ASSUME TypeInv, NEW r \in Ranks, NEW b \in Blocks, WaitDone(r, b)
  PROVE  TypeInv'
  <1> USE DEF TypeInv, TypeOK, WaitDone
  <1>1. HostType'
    BY Stays
  <1>2. GpuType'
    BY DEF GpuType
  <1>3. RegionType'
    BY Stays
  <1>4. ProxyType'
    BY Stays
  <1>5. NetType'
    BY Stays
  <1>6. Running'
    BY DEF Running, hostVars, gpuVars, proxyVars, GpuType
  <1>7. QED
    BY <1>1, <1>2, <1>3, <1>4, <1>5, <1>6

LEMMA TimeoutType ==
  ASSUME TypeInv, NEW r \in Ranks, NEW b \in Blocks, Timeout(r, b)
  PROVE  TypeInv'
  <1> USE DEF TypeInv, TypeOK, Timeout
  <1>1. HostType'
    BY Stays
  <1>2. GpuType'
    BY DEF GpuType
  <1>3. RegionType'
    BY DEF RegionType, GpuType
  <1>4. ProxyType'
    BY Stays
  <1>5. NetType'
    BY Stays
  <1>6. Running'
    BY DEF Running, hostVars, gpuVars, proxyVars, GpuType
  <1>7. QED
    BY <1>1, <1>2, <1>3, <1>4, <1>5, <1>6

LEMMA ReduceType ==
  ASSUME TypeInv, NEW r \in Ranks, NEW b \in Blocks, Reduce(r, b)
  PROVE  TypeInv'
  <1> USE DEF TypeInv, TypeOK, Reduce
  <1>1. HostType'
    BY Stays
  <1>2. GpuType'
    <2> DEFINE n == launches[r]
               slot == Slot(reg[r][b])
               sum(i) == [p \in Ranks |-> IF p = r THEN n ELSE recv[r][p][slot][i]]
    <2>1. slot \in SlotIds /\ n \in 0 .. MaxOps
      <3> HIDE DEF Reduce
      <3>1. reg[r][b] \in Nat
        BY SeqsNat DEF GpuType
      <3>2. QED
        BY <3>1, SlotType DEF HostType
    <2>2. \A i \in Cells : sum(i) \in [Ranks -> 0 .. MaxOps]
      BY <2>1 DEF RegionType
    <2>3. \/ out' = out
          \/ out' = [out EXCEPT ![r] = [i \in Cells |->
                       IF i \in Share(b, Grid[n], Packs[n]) THEN sum(i) ELSE out[r][i]]]
      OBVIOUS
    <2>4. UNCHANGED <<epoch, poison, stageCtr, tailCtr, reg>>
      OBVIOUS
    <2>5. pc' \in [Ranks -> [Blocks -> {"start", "stage", "wait", "check", "tail", "done"}]]
      BY DEF GpuType
    <2> DEFINE T == {Unset} \cup [Ranks -> 0 .. MaxOps]
    <2> HIDE DEF sum, Reduce
    <2>6. out' \in [Ranks -> [Cells -> T]]
      <3>1. \A i \in Cells : sum(i) \in T
        BY <2>2
      <3>2. out \in [Ranks -> [Cells -> T]]
        BY DEF GpuType
      <3> HIDE DEF T
      <3>3. QED
        BY <2>3, <3>1, <3>2
    <2>7. QED
      BY <2>4, <2>5, <2>6 DEF GpuType
  <1>3. RegionType'
    BY Stays
  <1>4. ProxyType'
    BY Stays
  <1>5. NetType'
    BY Stays
  <1>6. Running'
    BY DEF Running, hostVars, gpuVars, proxyVars, GpuType
  <1>7. QED
    BY <1>1, <1>2, <1>3, <1>4, <1>5, <1>6

LEMMA PublishType ==
  ASSUME TypeInv, NEW r \in Ranks, NEW b \in Blocks, Publish(r, b)
  PROVE  TypeInv'
  <1> USE DEF TypeInv, TypeOK, Publish
  <1>1. HostType'
    BY Stays
  <1>2. GpuType'
    <2> DEFINE g == Grid[launches[r]]
    <2>1. launches[r] \in Ops
      BY Constants DEF HostType, Running, Ops, GpuType
    <2>2. g \in 1 .. MaxBlocks
      BY <2>1, SizeType
    <2>3. tailCtr[r][g] \in Nat
      BY <2>2, Constants DEF GpuType
    <2>4. /\ tailCtr' = [tailCtr EXCEPT ![r][g] = (tailCtr[r][g] + 1) % CtrMod]
          /\ pc' = [pc EXCEPT ![r][b] = "done"]
          /\ epoch' = epoch \/ epoch' = [epoch EXCEPT ![r] = reg[r][b]]
          /\ UNCHANGED <<poison, stageCtr, reg, out>>
      BY DEF CounterClass
    <2> HIDE DEF Publish, g
    <2>5. tailCtr' \in [Ranks -> [1 .. MaxBlocks -> 0 .. CtrMod - 1]]
      BY <2>2, <2>3, <2>4, CounterType, PutCounter DEF GpuType
    <2>6. epoch' \in [Ranks -> Seqs]
      <3>1. epoch \in [Ranks -> Seqs] /\ reg[r][b] \in Seqs
        BY DEF GpuType
      <3>2. epoch' = epoch \/ epoch' = [epoch EXCEPT ![r] = reg[r][b]]
        BY <2>4
      <3>3. QED
        BY <3>1, <3>2
    <2>7. pc' \in [Ranks -> [Blocks -> {"start", "stage", "wait", "check", "tail", "done"}]]
      <3>1. pc' = [pc EXCEPT ![r][b] = "done"]
        BY <2>4
      <3>2. QED
        BY <3>1 DEF GpuType
    <2>8. QED
      BY <2>4, <2>5, <2>6, <2>7 DEF GpuType
  <1>3. RegionType'
    BY Stays
  <1>4. ProxyType'
    BY Stays
  <1>5. NetType'
    BY Stays
  <1>6. Running'
    BY DEF Running, hostVars, gpuVars, proxyVars, GpuType
  <1>7. QED
    BY <1>1, <1>2, <1>3, <1>4, <1>5, <1>6

LEMMA WriteDataType ==
  ASSUME TypeInv, NEW r \in Ranks, NEW p \in Peers(r), NEW h \in Hcas, WriteData(r, p, h)
  PROVE  TypeInv'
  <1> USE DEF TypeInv, TypeOK, WriteData
  <1>1. HostType'
    BY Stays
  <1>2. GpuType'
    BY Stays
  <1>3. wq[r][p][h] \in Seq(Request) /\ wq[r][p][h] # <<>> /\ p \in Ranks
    BY DEF NetType, Peers
  <1>4. RegionType'
    <2> DEFINE w == Head(wq[r][p][h])
    <2>1. w \in Request
      BY <1>3, HeadTail
    <2>2. PutData(r, p, w)
      OBVIOUS
    <2>3. UNCHANGED <<send, flag, ctrlSeq, ctrlErr, ctrlBytes>>
      OBVIOUS
    <2> HIDE DEF w, WriteData
    <2>4. Slot(w.seq) \in SlotIds /\ w.seq \in Seqs
      BY <2>1, SlotType, SeqsNat DEF Request
    <2>5. [i \in Cells |-> IF i \in w.packs THEN send[r][Slot(w.seq)][i]
                                        ELSE recv[p][r][Slot(w.seq)][i]]
            \in [Cells -> 0 .. MaxOps]
      BY <1>3, <2>4 DEF RegionType
    <2>6. recv' \in [Ranks -> [Ranks -> [SlotIds -> [Cells -> 0 .. MaxOps]]]]
      BY <1>3, <2>2, <2>4, <2>5, PutRecv DEF PutData
    <2>7. QED
      BY <2>3, <2>6 DEF RegionType
  <1>5. ProxyType'
    BY Stays
  <1>6. NetType'
    <2>1. Tail(wq[r][p][h]) \in Seq(Request)
      BY <1>3, HeadTail
    <2>2. wq' = [wq EXCEPT ![r][p][h] = Tail(wq[r][p][h])] /\ UNCHANGED <<qpUp, faults>>
      BY DEF Executed
    <2> HIDE DEF WriteData
    <2>3. QED
      BY <1>3, <2>1, <2>2, PutQueue DEF NetType
  <1>7. Running'
    BY DEF Running, hostVars, gpuVars, proxyVars
  <1>8. QED
    BY <1>1, <1>2, <1>4, <1>5, <1>6, <1>7

LEMMA WriteFlagType ==
  ASSUME TypeInv, NEW r \in Ranks, NEW p \in Peers(r), NEW h \in Hcas, WriteFlag(r, p, h)
  PROVE  TypeInv'
  <1> USE DEF TypeInv, TypeOK, WriteFlag
  <1>1. HostType'
    BY Stays
  <1>2. GpuType'
    BY Stays
  <1>3. wq[r][p][h] \in Seq(Request) /\ wq[r][p][h] # <<>> /\ p \in Ranks
    BY DEF NetType, Peers
  <1>4. RegionType'
    <2> DEFINE w == Head(wq[r][p][h])
    <2>1. w \in Request
      BY <1>3, HeadTail
    <2>2. PutFlag(r, p, h, w)
      OBVIOUS
    <2>3. UNCHANGED <<send, recv, ctrlSeq, ctrlErr, ctrlBytes>>
      OBVIOUS
    <2> HIDE DEF w, WriteFlag
    <2>4. Slot(w.seq) \in SlotIds /\ w.seq \in Seqs
      BY <2>1, SlotType, SeqsNat DEF Request
    <2>5. flag' \in [Ranks -> [Ranks -> [SlotIds -> [Hcas -> Seqs]]]]
      BY <1>3, <2>2, <2>4, PutFlagType DEF PutFlag
    <2>6. QED
      BY <2>3, <2>5 DEF RegionType
  <1>5. ProxyType'
    BY Stays
  <1>6. NetType'
    <2>1. Tail(wq[r][p][h]) \in Seq(Request)
      BY <1>3, HeadTail
    <2>2. wq' = [wq EXCEPT ![r][p][h] = Tail(wq[r][p][h])] /\ UNCHANGED <<qpUp, faults>>
      BY DEF Executed
    <2> HIDE DEF WriteFlag
    <2>3. QED
      BY <1>3, <2>1, <2>2, PutQueue DEF NetType
  <1>7. Running'
    BY DEF Running, hostVars, gpuVars, proxyVars
  <1>8. QED
    BY <1>1, <1>2, <1>4, <1>5, <1>6, <1>7

LEMMA BreakQpType ==
  ASSUME TypeInv, NEW r \in Ranks, NEW p \in Peers(r), NEW h \in Hcas, BreakQp(r, p, h)
  PROVE  TypeInv'
  <1> USE DEF TypeInv, TypeOK, BreakQp
  <1>1. HostType'
    BY Stays
  <1>2. GpuType'
    BY Stays
  <1>3. RegionType'
    BY Stays
  <1>4. ProxyType'
    BY Stays
  <1>5. NetType'
    <2>1. stops \in Nat
      BY Constants DEF HostType
    <2>2. QED
      BY <2>1, Constants DEF NetType, Peers
  <1>6. Running'
    BY DEF Running, hostVars, gpuVars, proxyVars
  <1>7. QED
    BY <1>1, <1>2, <1>3, <1>4, <1>5, <1>6

LEMMA NextTypeInv == TypeInv /\ [Next]_vars => TypeInv'
  <1> SUFFICES ASSUME TypeInv, [Next]_vars PROVE TypeInv'
    OBVIOUS
  <1>1. CASE UNCHANGED vars
    BY <1>1, Stays DEF vars, TypeInv, TypeOK, Running, hostVars, gpuVars, proxyVars
  <1>2. ASSUME NEW r \in Ranks, ProxyStep(r) PROVE TypeInv'
    BY <1>2, SeeDoorbellType, PostType, PostFailsType, EndOpType, ThreadExitType,
       DrainFailsType DEF ProxyStep
  <1>3. ASSUME NEW r \in Ranks, NEW b \in Blocks, BlockStep(r, b) PROVE TypeInv'
    BY <1>3, StartType, StageType, WaitDoneType, TimeoutType, ReduceType, PublishType
    DEF BlockStep
  <1>4. QED
    BY <1>1, <1>2, <1>3, LaunchType, CheckHealthType, CloseType, DestroyType,
       RoceStopType, RoceStartType, WriteDataType, WriteFlagType, BreakQpType
    DEF Next, NicStep, Done

(* Every variable keeps its type, whatever the constants are.              *)
THEOREM TypeCorrect == Spec => []TypeOK
  <1>1. TypeInv => TypeOK
    BY DEF TypeInv
  <1>2. QED
    BY <1>1, InitTypeInv, NextTypeInv, PTL DEF Spec

-----------------------------------------------------------------------------
(* The order of the collectives.                                           *)

(* Quotient and remainder.                                                 *)
LEMMA ModUnique ==
  ASSUME NEW g \in Nat \ {0}, NEW q \in Int, NEW t \in 0 .. g - 1
  PROVE  (g * q + t) % g = t
  BY Z3

(* A count is the round it lies in times the size of the round, plus its   *)
(* place in the round.                                                     *)
LEMMA ModSplit ==
  ASSUME NEW g \in Nat \ {0}, NEW k \in Nat
  PROVE  k = g * (k \div g) + (k % g) /\ k % g \in 0 .. g - 1 /\ k \div g \in Nat
  BY SMT

(* The remainder after t: the next one, or 0.                              *)
After(t, g) == IF t + 1 = g THEN 0 ELSE t + 1

(* Counting one on inside a modulus is counting one on and reducing.       *)
LEMMA AfterOne ==
  ASSUME NEW g \in Nat \ {0}, NEW k \in Nat
  PROVE  (k + 1) % g = After(k % g, g)
  <1> DEFINE q == k \div g
             t == k % g
  <1>1. k = g * q + t /\ t \in 0 .. g - 1 /\ q \in Nat
    BY ModSplit
  <1> HIDE DEF q, t
  <1>2. CASE t + 1 = g
    <2>1. k + 1 = g * (q + 1) + 0
      BY <1>1, <1>2
    <2>2. (g * (q + 1) + 0) % g = 0
      BY <1>1, ModUnique
    <2>3. (k + 1) % g = 0
      BY <2>1, <2>2
    <2>4. QED
      BY <2>3, <1>2 DEF t, After
  <1>3. CASE t + 1 # g
    <2>1. k + 1 = g * q + (t + 1) /\ t + 1 \in 0 .. g - 1
      BY <1>1, <1>3
    <2>2. (g * q + (t + 1)) % g = t + 1
      BY <1>1, <2>1, ModUnique
    <2>3. (k + 1) % g = t + 1
      BY <2>1, <2>2
    <2>4. QED
      BY <2>3, <1>1, <1>3 DEF t, After
  <1>4. QED
    BY <1>2, <1>3 DEF t

(* A counter that wraps at a multiple of g counts modulo g.                *)
LEMMA AfterOneCounted ==
  ASSUME NEW g \in Nat \ {0}, NEW m \in Nat \ {0}, m % g = 0, NEW k \in 0 .. m - 1
  PROVE  ((k + 1) % m) % g = After(k % g, g)
  <1>1. (k + 1) % g = After(k % g, g)
    <2>1. k \in Nat
      OBVIOUS
    <2>2. QED
      BY <2>1, AfterOne, Zenon
  <1>2. CASE k + 1 = m
    <2>1. (k + 1) % m = 0 /\ 0 % g = 0 /\ (k + 1) % g = 0
      <3>1. m = m * 1 + 0 /\ 0 = g * 0 + 0
        OBVIOUS
      <3>2. QED
        BY <3>1, <1>2, ModUnique
    <2>2. QED
      BY <2>1, <1>1
  <1>3. CASE k + 1 # m
    <2>1. (k + 1) % m = k + 1
      <3>1. k + 1 = m * 0 + (k + 1) /\ k + 1 \in 0 .. m - 1
        BY <1>3
      <3>2. QED
        BY <3>1, ModUnique
    <2>2. QED
      BY <2>1, <1>1
  <1>4. QED
    BY <1>2, <1>3

-----------------------------------------------------------------------------
(* Blocks that arrive.                                                     *)
LEMMA GridFinite ==
  ASSUME NEW g \in Nat \ {0}
  PROVE  IsFiniteSet(0 .. g - 1) /\ Cardinality(0 .. g - 1) = g
  BY FS_Interval

(* One more block of a grid: the grid is complete when all have arrived.   *)
LEMMA AddBlock ==
  ASSUME NEW g \in Nat \ {0}, NEW S \in SUBSET (0 .. g - 1),
         NEW b \in 0 .. g - 1, b \notin S
  PROVE  /\ Cardinality(S) \in 0 .. g - 1
         /\ Cardinality(S \cup {b}) = Cardinality(S) + 1
         /\ Cardinality(S) + 1 = g <=> S \cup {b} = 0 .. g - 1
  <1> DEFINE G == 0 .. g - 1
             T == S \cup {b}
  <1>0. IsFiniteSet(G) /\ Cardinality(G) = g
    BY GridFinite
  <1>1. IsFiniteSet(S) /\ Cardinality(S) \in Nat
    BY <1>0, FS_Subset, FS_CardinalityType
  <1>2. Cardinality(T) = Cardinality(S) + 1
    BY <1>1, FS_AddElement
  <1>3. T \in SUBSET G
    OBVIOUS
  <1> HIDE DEF G, T
  <1>4. Cardinality(T) <= Cardinality(G) /\ (Cardinality(G) = Cardinality(T) => G = T)
    BY <1>0, <1>3, FS_Subset
  <1>5. Cardinality(S) \in 0 .. g - 1 /\ (Cardinality(S) + 1 = g <=> T = G)
    BY <1>0, <1>1, <1>2, <1>4
  <1>6. QED
    BY <1>2, <1>5 DEF G, T

(* A counter that stands at the number of arrived blocks keeps doing so,   *)
(* and is a multiple of g when the last block arrives.                     *)
LEMMA Arrive ==
  ASSUME NEW g \in Nat \ {0}, CtrMod % g = 0, NEW S \in SUBSET (0 .. g - 1),
         NEW b \in 0 .. g - 1, b \notin S, NEW k \in 0 .. CtrMod - 1,
         k % g = Cardinality(S) % g
  PROVE  /\ ((k + 1) % CtrMod) % g = Cardinality(S \cup {b}) % g
         /\ ((k + 1) % CtrMod) % g = 0 <=> S \cup {b} = 0 .. g - 1
  <1> DEFINE c == Cardinality(S)
             a == ((k + 1) % CtrMod) % g
  <1>0. CtrMod \in Nat \ {0}
    BY Constants
  <1>1. /\ Cardinality(S) \in 0 .. g - 1
        /\ Cardinality(S \cup {b}) = Cardinality(S) + 1
        /\ Cardinality(S) + 1 = g <=> S \cup {b} = 0 .. g - 1
    BY ONLY b \notin S, AddBlock, Zenon
  <1>2. ((k + 1) % CtrMod) % g = After(k % g, g)
    BY <1>0, AfterOneCounted, Zenon
  <1>3. c \in 0 .. g - 1 /\ c \in Nat
    BY <1>1
  <1> HIDE DEF c
  <1>4. c % g = c
    <2>1. (g * 0 + c) % g = c
      BY <1>3, ModUnique
    <2>2. QED
      BY <2>1, <1>3
  <1>5. (c + 1) % g = After(c % g, g)
    BY <1>3, AfterOne, Zenon
  <1>6. k % g = c
    BY <1>4 DEF c
  <1>7. a = IF c + 1 = g THEN 0 ELSE c + 1
    BY <1>2, <1>6 DEF After
  <1>8. (c + 1) % g = IF c + 1 = g THEN 0 ELSE c + 1
    BY <1>4, <1>5 DEF After
  <1> HIDE DEF a
  <1>9. a = Cardinality(S \cup {b}) % g
    BY <1>1, <1>7, <1>8 DEF c
  <1>10. a = 0 <=> c + 1 = g
    BY <1>3, <1>7
  <1>11. QED
    BY <1>1, <1>9, <1>10 DEF a, c

(* The same for a counter that may be behind, because a block was skipped. *)
LEMMA ArriveLate ==
  ASSUME NEW g \in Nat \ {0}, CtrMod % g = 0, NEW S \in SUBSET (0 .. g - 1),
         NEW b \in 0 .. g - 1, b \notin S, NEW k \in 0 .. CtrMod - 1,
         k % g <= Cardinality(S)
  PROVE  /\ ((k + 1) % CtrMod) % g <= Cardinality(S \cup {b})
         /\ ((k + 1) % CtrMod) % g = 0 => S \cup {b} = 0 .. g - 1 /\ k % g = Cardinality(S)
         /\ ((k + 1) % CtrMod) % g = Cardinality(S \cup {b}) => k % g = Cardinality(S)
  <1> DEFINE c == Cardinality(S)
             a == ((k + 1) % CtrMod) % g
             t == k % g
  <1>0. CtrMod \in Nat \ {0} /\ k \in Nat
    BY Constants
  <1>1. /\ Cardinality(S) \in 0 .. g - 1
        /\ Cardinality(S \cup {b}) = Cardinality(S) + 1
        /\ Cardinality(S) + 1 = g <=> S \cup {b} = 0 .. g - 1
    BY ONLY b \notin S, AddBlock, Zenon
  <1>2. ((k + 1) % CtrMod) % g = After(k % g, g)
    BY <1>0, AfterOneCounted, Zenon
  <1>3. t \in 0 .. g - 1 /\ t <= c
    BY <1>0, ModSplit
  <1>4. a = IF t + 1 = g THEN 0 ELSE t + 1
    BY <1>2 DEF After
  <1>5. c \in 0 .. g - 1
    BY <1>1
  <1> HIDE DEF a, c, t
  <1>6. a <= c + 1 /\ (a = 0 => c + 1 = g /\ t = c) /\ (a = c + 1 => t = c)
    BY <1>3, <1>4, <1>5
  <1>7. QED
    BY <1>1, <1>6 DEF a, c, t

-----------------------------------------------------------------------------
(* The kernel of one rank.                                                 *)

(* The state that KernelOf(r) looks at.                                    *)
KernelVars(r) == <<launches[r], epoch[r], poison[r], stageCtr[r], tailCtr[r],
                   pc[r], reg[r], ctrlSeq[r], ctrlErr[r]>>

(* A step that leaves everything a rank's kernel invariant reads alone     *)
(* keeps that invariant.                                                   *)
LEMMA KernelSame ==
  ASSUME NEW r \in Ranks, KernelOf(r), UNCHANGED KernelVars(r)
  PROVE  KernelOf(r)'
  <1> USE DEF KernelVars
  <1>1. Past(r)' = Past(r) /\ Over(r)' = Over(r)
    BY DEF Past, Over, GridOf
  <1>2. /\ Healthy(r)' <=> Healthy(r)
        /\ Idle(r)' <=> Idle(r)
        /\ Entering(r)' <=> Entering(r)
        /\ Staging(r)' <=> Staging(r)
    BY DEF Healthy, Idle, Entering, Staging
  <1>3. PoisonInv(r)'
    BY DEF KernelOf, PoisonInv
  <1>4. LaunchInv(r)'
    BY <1>2 DEF KernelOf, LaunchInv
  <1>5. ArrivalInv(r)'
    BY <1>1, <1>2 DEF KernelOf, ArrivalInv, Expected
  <1>6. DoorbellInv(r)'
    BY <1>2 DEF KernelOf, DoorbellInv
  <1>7. QED
    BY <1>3, <1>4, <1>5, <1>6 DEF KernelOf

(* The types of the words of one rank, as numbers.                         *)
LEMMA KernelType ==
  ASSUME TypeInv, NEW r \in Ranks
  PROVE  /\ launches[r] \in 0 .. MaxOps
         /\ epoch[r] \in Nat /\ poison[r] \in Nat /\ ctrlSeq[r] \in Nat /\ ctrlErr[r] \in Nat
         /\ \A c \in 1 .. MaxBlocks : /\ stageCtr[r][c] \in 0 .. CtrMod - 1
                                     /\ tailCtr[r][c] \in 0 .. CtrMod - 1
         /\ \A b \in Blocks :
              /\ pc[r][b] \in {"start", "stage", "wait", "check", "tail", "done"}
              /\ reg[r][b] \in Nat
  <1>1. HostType /\ GpuType /\ RegionType
    BY DEF TypeInv, TypeOK
  <1>2. launches[r] \in 0 .. MaxOps
    BY <1>1 DEF HostType
  <1>3. epoch[r] \in Seqs /\ poison[r] \in Seqs /\ ctrlSeq[r] \in Seqs /\ ctrlErr[r] \in Seqs
    BY <1>1 DEF GpuType, RegionType
  <1>4. \A c \in 1 .. MaxBlocks : /\ stageCtr[r][c] \in 0 .. CtrMod - 1
                                 /\ tailCtr[r][c] \in 0 .. CtrMod - 1
    BY <1>1 DEF GpuType
  <1>5. \A b \in Blocks :
          /\ pc[r][b] \in {"start", "stage", "wait", "check", "tail", "done"}
          /\ reg[r][b] \in Seqs
    BY <1>1 DEF GpuType
  <1>6. QED
    BY <1>2, <1>3, <1>4, <1>5, SeqsNat

(* A grid has at least one block and at most MaxBlocks.                    *)
LEMMA GridType ==
  ASSUME NEW n \in Ops
  PROVE  /\ Grid[n] \in 1 .. MaxBlocks /\ Grid[n] \in Nat \ {0}
         /\ CtrMod % Grid[n] = 0
         /\ 0 .. Grid[n] - 1 \subseteq Blocks /\ 0 \in 0 .. Grid[n] - 1
  BY RoceAssumption, Constants DEF Blocks

(* A rank that works has launched something.                               *)
LEMMA Launched ==
  ASSUME TypeInv, NEW r \in Ranks, NEW b \in Blocks, pc[r][b] # "done"
  PROVE  launches[r] \in Ops
  <1>1. launches[r] # 0
    BY DEF TypeInv, Running
  <1>2. QED
    BY <1>1, KernelType, Constants DEF Ops

(* Below the wrap the next sequence number is the next natural number.     *)
LEMMA SuccIs ==
  ASSUME NoWrap, NEW n \in 0 .. MaxOps
  PROVE  Succ(n) = n + 1
  <1>1. SeqMod \in Nat \ {0} /\ MaxOps \in Nat /\ MaxOps + 1 < SeqMod
    BY Constants DEF NoWrap
  <1>2. n + 1 = SeqMod * 0 + (n + 1) /\ n + 1 \in 0 .. SeqMod - 1
    BY <1>1
  <1>3. (SeqMod * 0 + (n + 1)) % SeqMod = n + 1
    BY <1>1, <1>2, ModUnique
  <1>4. QED
    BY <1>2, <1>3 DEF Succ

(* The two counts at which a round begins reduce to zero.                  *)
LEMMA ModSelf ==
  ASSUME NEW g \in Nat \ {0} PROVE g % g = 0 /\ 0 % g = 0
  <1>1. g = g * 1 + 0 /\ 0 = g * 0 + 0 /\ 0 \in 0 .. g - 1
    OBVIOUS
  <1>2. (g * 1 + 0) % g = 0 /\ (g * 0 + 0) % g = 0
    BY <1>1, ModUnique
  <1>3. QED
    BY <1>1, <1>2

(* On an idle, healthy rank every counter stands at a multiple of its grid. *)
LEMMA CountersRest ==
  ASSUME TypeInv, NEW r \in Ranks, ArrivalInv(r), Healthy(r), Idle(r), NEW c \in 1 .. MaxBlocks
  PROVE  stageCtr[r][c] % c = 0 /\ tailCtr[r][c] % c = 0
  <1>1. c \in Nat \ {0}
    BY Constants
  <1>2. CASE launches[r] # 0 /\ c = Grid[launches[r]]
    <2>1. launches[r] \in Ops
      BY <1>2, KernelType, Constants DEF Ops
    <2>2. Past(r) = 0 .. c - 1 /\ Over(r) = 0 .. c - 1
      BY <1>2, <2>1, GridType DEF Past, Over, GridOf, Idle
    <2>3. Cardinality(Past(r)) = c /\ Cardinality(Over(r)) = c
      BY <1>1, <2>2, GridFinite
    <2>4. QED
      BY <1>1, <1>2, <2>3, ModSelf DEF ArrivalInv, Expected
  <1>3. CASE ~(launches[r] # 0 /\ c = Grid[launches[r]])
    BY <1>3 DEF ArrivalInv, Expected
  <1>4. QED
    BY <1>2, <1>3

(* The launch of a grid keeps the kernel invariant: the last grid is over, *)
(* so the counters stand at a multiple of the new grid's size.             *)
LEMMA LaunchKernel ==
  ASSUME NoWrap, TypeInv, KernelInv, NEW r \in Ranks, Launch(r)
  PROVE  KernelInv'
  <1> DEFINE n == launches[r] + 1
  <1>1. /\ Idle(r) /\ launches[r] < MaxOps
        /\ launches' = [launches EXCEPT ![r] = n]
        /\ pc' = [pc EXCEPT ![r] = [b \in Blocks |-> IF b < Grid[n] THEN "start" ELSE "done"]]
        /\ UNCHANGED <<epoch, poison, stageCtr, tailCtr, reg, ctrlSeq, ctrlErr>>
    BY DEF Launch, regionVars
  <1>2. ASSUME NEW q \in Ranks, q # r PROVE KernelOf(q)'
    <2>1. UNCHANGED KernelVars(q)
      BY <1>1, <1>2, TypeInv DEF KernelVars, TypeInv, TypeOK, HostType, GpuType
    <2>2. QED
      BY <2>1, KernelSame DEF KernelInv
  <1>3. KernelOf(r)
    BY DEF KernelInv
  <1>4. n \in Ops /\ launches'[r] = n
    BY <1>1, KernelType, Constants DEF Ops, TypeInv, TypeOK, HostType
  <1>5. \A b \in Blocks : pc'[r][b] = IF b < Grid[n] THEN "start" ELSE "done"
    BY <1>1 DEF TypeInv, TypeOK, GpuType
  <1> HIDE DEF n
  <1>6. /\ 0 \in Blocks /\ 0 < Grid[n] /\ pc'[r][0] = "start"
        /\ \A b \in Blocks : pc'[r][b] # "done" => b < Grid[n]
        /\ \A b \in Blocks : pc'[r][b] \notin Busy
    BY <1>4, <1>5, GridType DEF Busy
  <1>7. /\ ~Idle(r)' /\ Entering(r)' /\ ~Staging(r)'
        /\ Healthy(r)' <=> Healthy(r)
    BY <1>1, <1>5, <1>6 DEF Idle, Entering, Staging, Healthy, Busy
  <1>8. PoisonInv(r)'
    BY <1>1, <1>3 DEF KernelOf, PoisonInv
  <1>9. LaunchInv(r)'
    <2>1. launches[r] \in Nat /\ epoch[r] \in Nat /\ n = launches[r] + 1
      BY KernelType DEF n
    <2>2. QED
      BY <1>1, <1>3, <1>4, <1>6, <1>7, <2>1 DEF KernelOf, LaunchInv
  <1>10. ArrivalInv(r)'
    <2>1. Past(r)' = {} /\ Over(r)' = {}
      BY <1>4, <1>5, GridType DEF Past, Over, GridOf
    <2>2. ASSUME Healthy(r), NEW c \in 1 .. MaxBlocks
          PROVE  /\ stageCtr'[r][c] % c = Expected(r, Past(r), c)'
                 /\ tailCtr'[r][c] % c = Expected(r, Over(r), c)'
      <3>1. stageCtr[r][c] % c = 0 /\ tailCtr[r][c] % c = 0
        BY <1>1, <1>3, <2>2, CountersRest DEF KernelOf
      <3>2. 0 % c = 0 /\ Cardinality({}) = 0
        BY Constants, ModSelf, FS_EmptySet
      <3>3. QED
        BY <1>1, <2>1, <3>1, <3>2 DEF Expected
    <2>3. QED
      BY <1>7, <2>2 DEF ArrivalInv
  <1>11. DoorbellInv(r)'
    BY <1>1, <1>3, <1>7 DEF KernelOf, DoorbellInv
  <1>12. QED
    BY <1>2, <1>8, <1>9, <1>10, <1>11 DEF KernelInv, KernelOf

(* Where the blocks stand.                                                 *)
LEMMA PcType ==
  ASSUME TypeInv
  PROVE  pc \in [Ranks -> [Blocks -> {"start", "stage", "wait", "check", "tail", "done"}]]
  BY DEF TypeInv, TypeOK, GpuType

(* A block of the running grid that is not yet done.                       *)
LEMMA Working ==
  ASSUME TypeInv, NEW r \in Ranks, LaunchInv(r), NEW b \in Blocks, pc[r][b] # "done"
  PROVE  /\ launches[r] \in Ops
         /\ Grid[launches[r]] \in 1 .. MaxBlocks /\ Grid[launches[r]] \in Nat \ {0}
         /\ CtrMod % Grid[launches[r]] = 0
         /\ b \in GridOf(r) /\ GridOf(r) \subseteq Blocks
         /\ epoch[r] < launches[r] /\ ~Idle(r)
         /\ Healthy(r) => launches[r] = epoch[r] + 1
  <1>1. launches[r] \in Ops
    BY Launched
  <1>2. b < Grid[launches[r]]
    BY DEF LaunchInv
  <1>3. ~Idle(r)
    BY DEF Idle
  <1>4. b \in GridOf(r)
    BY <1>1, <1>2, GridType, Constants DEF GridOf, Blocks
  <1>5. epoch[r] < launches[r]
    BY <1>3, KernelType DEF LaunchInv
  <1>6. Healthy(r) => launches[r] = epoch[r] + 1
    BY <1>3 DEF LaunchInv
  <1>7. QED
    BY <1>1, <1>3, <1>4, <1>5, <1>6, GridType DEF GridOf

(* The blocks that have staged and those that have published are blocks of *)
(* the grid.                                                               *)
LEMMA PastType ==
  ASSUME NEW r \in Ranks
  PROVE  Past(r) \in SUBSET (0 .. Grid[launches[r]] - 1) /\ Over(r) \in SUBSET (0 .. Grid[launches[r]] - 1)
  BY DEF Past, Over, GridOf

(* While a block enters, fewer than all have arrived, and the counter of a *)
(* healthy rank stands at their number.                                    *)
LEMMA EnteringCount ==
  ASSUME TypeInv, NEW r \in Ranks, KernelOf(r), NEW b \in Blocks,
         pc[r][b] \in {"start", "stage"}, Healthy(r)
  PROVE  stageCtr[r][Grid[launches[r]]] % Grid[launches[r]] = Cardinality(Past(r))
  <1> DEFINE g == Grid[launches[r]]
             c == Cardinality(Past(r))
  <1>1. launches[r] \in Ops /\ g \in 1 .. MaxBlocks /\ g \in Nat \ {0} /\ b \in GridOf(r)
    BY Working DEF KernelOf
  <1>2. b \in 0 .. g - 1 /\ b \notin Past(r) /\ Past(r) \in SUBSET (0 .. g - 1)
    BY <1>1, PastType DEF GridOf, Past
  <1> HIDE DEF g
  <1>3. Cardinality(Past(r)) \in 0 .. g - 1
    BY <1>1, <1>2, AddBlock, Zenon
  <1>4. launches[r] # 0
    BY <1>1 DEF Ops
  <1>5. stageCtr[r][g] % g = c % g
    BY <1>1, <1>4 DEF KernelOf, ArrivalInv, Expected, g
  <1> HIDE DEF c
  <1>6. (g * 0 + c) % g = c /\ g * 0 + c = c
    BY <1>1, <1>3, ModUnique DEF c
  <1>7. QED
    BY <1>5, <1>6 DEF c, g

(* Taking the ticket of a collective keeps the kernel invariant.           *)
LEMMA StartKernel ==
  ASSUME NoWrap, TypeInv, KernelInv, NEW r \in Ranks, NEW b \in Blocks, Start(r, b)
  PROVE  KernelInv'
  <1>1. /\ pc[r][b] = "start"
        /\ reg' = [reg EXCEPT ![r][b] = Succ(epoch[r])]
        /\ pc' = [pc EXCEPT ![r][b] = IF poison[r] = 0 THEN "stage" ELSE "done"]
        /\ UNCHANGED <<launches, epoch, poison, stageCtr, tailCtr, ctrlSeq, ctrlErr>>
    BY DEF Start, regionVars, hostVars
  <1>2. /\ pc'[r][b] = IF poison[r] = 0 THEN "stage" ELSE "done"
        /\ \A a \in Blocks : a # b => pc'[r][a] = pc[r][a]
        /\ \A q \in Ranks : q # r => pc'[q] = pc[q]
    <2> DEFINE x == IF poison[r] = 0 THEN "stage" ELSE "done"
    <2>1. pc' = [pc EXCEPT ![r][b] = x]
      BY <1>1
    <2> HIDE DEF x
    <2>2. /\ pc'[r][b] = x
          /\ \A a \in Blocks : a # b => pc'[r][a] = pc[r][a]
          /\ \A q \in Ranks : q # r => pc'[q] = pc[q]
      BY <2>1, PcType
    <2>3. QED
      BY <2>2 DEF x
  <1>3. /\ reg'[r][b] = Succ(epoch[r])
        /\ \A a \in Blocks : a # b => reg'[r][a] = reg[r][a]
        /\ \A q \in Ranks : q # r => reg'[q] = reg[q]
    BY <1>1 DEF TypeInv, TypeOK, GpuType
  <1>4. KernelOf(r)
    BY DEF KernelInv
  <1>5. /\ launches[r] \in Ops
        /\ Grid[launches[r]] \in 1 .. MaxBlocks /\ Grid[launches[r]] \in Nat \ {0}
        /\ b \in GridOf(r)  /\ GridOf(r) \subseteq Blocks /\ epoch[r] < launches[r] /\ ~Idle(r)
        /\ Healthy(r) => launches[r] = epoch[r] + 1
    BY <1>1, <1>4, Working DEF KernelOf
  <1>6. epoch[r] \in Nat /\ launches[r] \in 0 .. MaxOps /\ Succ(epoch[r]) = epoch[r] + 1
    <2>1. epoch[r] \in Nat /\ launches[r] \in 0 .. MaxOps /\ MaxOps \in Nat
      BY KernelType, Constants
    <2>2. epoch[r] \in 0 .. MaxOps
      BY <1>5, <2>1
    <2>3. QED
      BY <2>1, <2>2, SuccIs
  <1>7. poison[r] = 0 <=> Healthy(r)
    BY <1>4 DEF KernelOf, PoisonInv, Healthy
  <1>8. Healthy(r)' <=> Healthy(r)
    BY <1>1 DEF Healthy
  <1>9. ASSUME NEW q \in Ranks, q # r PROVE KernelOf(q)'
    <2>1. UNCHANGED KernelVars(q)
      BY <1>1, <1>2, <1>3, <1>9 DEF KernelVars
    <2>2. QED
      BY <2>1, KernelSame DEF KernelInv
  <1>10. PoisonInv(r)'
    BY <1>1, <1>4 DEF KernelOf, PoisonInv
  <1>11. CASE Healthy(r)
    <2>1. pc'[r][b] = "stage"
      BY <1>2, <1>7, <1>11
    <2>2. /\ Past(r)' = Past(r) /\ Over(r)' = Over(r)
          /\ ~Idle(r)' /\ Entering(r) /\ Entering(r)' /\ Staging(r)'
      BY <1>1, <1>2, <1>5, <2>1 DEF Past, Over, GridOf, Idle, Entering, Staging
    <2>3. LaunchInv(r)'
      <3>1. ASSUME NEW a \in Blocks
            PROVE  /\ pc'[r][a] # "done" => a < Grid[launches[r]]
                   /\ pc'[r][a] \in Busy => reg'[r][a] = epoch[r] + 1 /\ launches[r] = epoch[r] + 1
        BY <1>1, <1>2, <1>3, <1>4, <1>5, <1>6, <1>11 DEF KernelOf, LaunchInv
      <3>2. QED
        BY <3>1, <1>1, <1>5, <1>6, <1>8, <1>11, <2>2 DEF LaunchInv
    <2>4. ArrivalInv(r)'
      <3>1. stageCtr[r][Grid[launches[r]]] % Grid[launches[r]] = Cardinality(Past(r))
        BY <1>1, <1>4, <1>11, EnteringCount
      <3>2. Cardinality(Past(r)) \in Nat
        BY <1>5, PastType, GridFinite, FS_Subset, FS_CardinalityType
      <3>3. QED
        BY <1>1, <1>4, <1>8, <1>11, <2>2, <3>1, <3>2 DEF KernelOf, ArrivalInv, Expected
    <2>5. DoorbellInv(r)'
      BY <1>1, <1>4, <1>8, <1>11, <2>2 DEF KernelOf, DoorbellInv
    <2>6. QED
      BY <1>9, <1>10, <2>3, <2>4, <2>5 DEF KernelInv, KernelOf
  <1>12. CASE ~Healthy(r)
    <2>1. pc'[r][b] = "done"
      BY <1>2, <1>7, <1>12
    <2>2. /\ Past(r)' = Past(r) \cup {b} /\ b \notin Past(r)
          /\ Staging(r)' => Staging(r)
      BY <1>1, <1>2, <1>5, <2>1 DEF Past, GridOf, Staging
    <2>3. LaunchInv(r)'
      <3>1. ASSUME NEW a \in Blocks
            PROVE  /\ pc'[r][a] # "done" => a < Grid[launches[r]]
                   /\ pc'[r][a] \in Busy => reg'[r][a] = epoch[r] + 1 /\ launches[r] = epoch[r] + 1
        BY <1>1, <1>2, <1>3, <1>4, <2>1 DEF KernelOf, LaunchInv, Busy
      <3>2. QED
        BY <3>1, <1>1, <1>5, <1>6, <1>8, <1>12 DEF LaunchInv
    <2>4. ArrivalInv(r)'
      <3> DEFINE g == Grid[launches[r]]
      <3>1. g \in Nat \ {0} /\ b \in 0 .. g - 1 /\ Past(r) \in SUBSET (0 .. g - 1)
        BY <1>5, PastType DEF GridOf
      <3>2. b \notin Past(r)
        BY <2>2
      <3> HIDE DEF g
      <3>3. /\ Cardinality(Past(r)) \in 0 .. g - 1
            /\ Cardinality(Past(r) \cup {b}) = Cardinality(Past(r)) + 1
            /\ Cardinality(Past(r)) + 1 = g <=> Past(r) \cup {b} = 0 .. g - 1
        BY <3>1, <3>2, AddBlock, Zenon
      <3>4. stageCtr[r][g] \in Nat
        BY <1>5, Constants, KernelType DEF g
      <3>5. stageCtr[r][g] % g \in Nat
        BY <3>1, <3>4, ModSplit
      <3>6. Staging(r) => stageCtr[r][g] % g <= Cardinality(Past(r) \cup {b})
        BY <1>4, <3>3, <3>5 DEF KernelOf, ArrivalInv, g
      <3>7. QED
        BY <1>1, <1>8, <1>12, <2>2, <3>6 DEF ArrivalInv, g
    <2>5. DoorbellInv(r)'
      BY <1>1, <1>4, <1>8, <1>12, <2>2 DEF KernelOf, DoorbellInv
    <2>6. QED
      BY <1>9, <1>10, <2>3, <2>4, <2>5 DEF KernelInv, KernelOf
  <1>13. QED
    BY <1>11, <1>12

(* What Stage does to the words of its rank.  Its block rings the doorbell *)
(* only when all other blocks have arrived.                                *)
LEMMA StageEffect ==
  ASSUME TypeInv, NEW r \in Ranks, KernelOf(r), NEW b \in Blocks, Stage(r, b)
  PROVE  LET g == Grid[launches[r]]
         IN  /\ pc[r][b] = "stage"
             /\ pc' = [pc EXCEPT ![r][b] = "wait"]
             /\ stageCtr' = [stageCtr EXCEPT ![r][g] = (stageCtr[r][g] + 1) % CtrMod]
             /\ stageCtr'[r][g] = (stageCtr[r][g] + 1) % CtrMod
             /\ ctrlSeq' = IF stageCtr'[r][g] % g = 0 THEN [ctrlSeq EXCEPT ![r] = epoch[r] + 1]
                                                      ELSE ctrlSeq
             /\ UNCHANGED <<launches, epoch, poison, tailCtr, reg, ctrlErr>>
  <1> DEFINE g == Grid[launches[r]]
  <1>1. /\ pc[r][b] = "stage"
        /\ pc' = [pc EXCEPT ![r][b] = "wait"]
        /\ stageCtr' = [stageCtr EXCEPT ![r][g] = (stageCtr[r][g] + 1) % CtrMod]
        /\ ctrlSeq' = IF ((stageCtr[r][g] + 1) % CtrMod) % g = 0
                      THEN [ctrlSeq EXCEPT ![r] = reg[r][b]] ELSE ctrlSeq
        /\ UNCHANGED <<launches, epoch, poison, tailCtr, reg, ctrlErr>>
    BY DEF Stage, CounterClass, hostVars
  <1>2. g \in 1 .. MaxBlocks
    BY <1>1, Working DEF KernelOf
  <1>3. reg[r][b] = epoch[r] + 1
    BY <1>1 DEF KernelOf, LaunchInv, Busy
  <1>4. stageCtr \in [Ranks -> [1 .. MaxBlocks -> 0 .. CtrMod - 1]]
    BY DEF TypeInv, TypeOK, GpuType
  <1> HIDE DEF g
  <1>5. stageCtr'[r][g] = (stageCtr[r][g] + 1) % CtrMod
    BY <1>1, <1>2, <1>4
  <1>6. QED
    BY <1>1, <1>3, <1>5 DEF g

(* The counts after Stage, on a healthy rank and on one that timed out.    *)
LEMMA StageCounts ==
  ASSUME TypeInv, NEW r \in Ranks, KernelOf(r), NEW b \in Blocks, Stage(r, b)
  PROVE  LET g == Grid[launches[r]]
             a == stageCtr'[r][g] % g
         IN  /\ Past(r)' = Past(r) \cup {b}
             /\ Healthy(r) => /\ a = Cardinality(Past(r)') % g
                              /\ a = 0 <=> Past(r)' = GridOf(r)
             /\ a <= Cardinality(Past(r)')
             /\ a = 0 => Past(r)' = GridOf(r) /\ stageCtr[r][g] % g = Cardinality(Past(r))
             /\ a = Cardinality(Past(r)') => stageCtr[r][g] % g = Cardinality(Past(r))
  <1> DEFINE g == Grid[launches[r]]
             k == stageCtr[r][g]
             P == Past(r)
  <1>1. /\ pc[r][b] = "stage"
        /\ pc' = [pc EXCEPT ![r][b] = "wait"]
        /\ stageCtr'[r][g] = (k + 1) % CtrMod
        /\ launches' = launches
    BY StageEffect
  <1>2. /\ pc'[r][b] = "wait"
        /\ \A c \in Blocks : c # b => pc'[r][c] = pc[r][c]
    BY <1>1, PcType
  <1>3. /\ g \in 1 .. MaxBlocks /\ g \in Nat \ {0} /\ CtrMod % g = 0
        /\ b \in GridOf(r) /\ GridOf(r) \subseteq Blocks /\ launches[r] \in Ops
    BY <1>1, Working DEF KernelOf
  <1>4. b \in 0 .. g - 1 /\ b \notin P /\ P \in SUBSET (0 .. g - 1)
    BY <1>1, <1>3, PastType DEF GridOf, Past
  <1>5. Past(r)' = P \cup {b}
    BY <1>1, <1>2, <1>3 DEF Past, GridOf
  <1>6. k \in 0 .. CtrMod - 1
    BY <1>3, KernelType
  <1>7. Staging(r)
    BY <1>1 DEF Staging
  <1>8. k % g <= Cardinality(P)
    BY <1>7 DEF KernelOf, ArrivalInv
  <1>9. Healthy(r) => k % g = Cardinality(P) % g
    BY <1>3 DEF KernelOf, ArrivalInv, Expected, Ops
  <1>10. GridOf(r) = 0 .. g - 1
    BY DEF GridOf
  <1> HIDE DEF g, k, P
  <1>a. g \in Nat \ {0} /\ CtrMod % g = 0
    BY <1>3
  <1>11. /\ ((k + 1) % CtrMod) % g <= Cardinality(P \cup {b})
         /\ ((k + 1) % CtrMod) % g = 0 => P \cup {b} = 0 .. g - 1 /\ k % g = Cardinality(P)
         /\ ((k + 1) % CtrMod) % g = Cardinality(P \cup {b}) => k % g = Cardinality(P)
    BY ONLY <1>a, <1>4, <1>6, <1>8, ArriveLate, SMTT(20)
  <1>12. ASSUME Healthy(r)
         PROVE  /\ ((k + 1) % CtrMod) % g = Cardinality(P \cup {b}) % g
                /\ ((k + 1) % CtrMod) % g = 0 <=> P \cup {b} = 0 .. g - 1
    <2>1. k % g = Cardinality(P) % g
      BY <1>9, <1>12
    <2>2. QED
      BY ONLY <1>a, <1>4, <1>6, <2>1, Arrive, SMTT(20)
  <1>13. QED
    BY <1>1, <1>5, <1>10, <1>11, <1>12 DEF g, k, P

(* Staging and counting up keeps it; the block that counts last rings the  *)
(* doorbell.                                                               *)
LEMMA StageKernel ==
  ASSUME NoWrap, TypeInv, KernelInv, NEW r \in Ranks, NEW b \in Blocks, Stage(r, b)
  PROVE  KernelInv'
  <1> DEFINE g == Grid[launches[r]]
             a == stageCtr'[r][g] % g
  <1>1. KernelOf(r)
    BY DEF KernelInv
  <1>2. /\ pc[r][b] = "stage"
        /\ pc' = [pc EXCEPT ![r][b] = "wait"]
        /\ stageCtr' = [stageCtr EXCEPT ![r][g] = (stageCtr[r][g] + 1) % CtrMod]
        /\ ctrlSeq' = IF a = 0 THEN [ctrlSeq EXCEPT ![r] = epoch[r] + 1] ELSE ctrlSeq
        /\ UNCHANGED <<launches, epoch, poison, tailCtr, reg, ctrlErr>>
    BY <1>1, StageEffect
  <1>3. /\ Past(r)' = Past(r) \cup {b}
        /\ Healthy(r) => /\ a = Cardinality(Past(r)') % g
                         /\ a = 0 <=> Past(r)' = GridOf(r)
        /\ a <= Cardinality(Past(r)')
        /\ a = 0 => Past(r)' = GridOf(r)
    BY <1>1, StageCounts
  <1>4. /\ pc'[r][b] = "wait"
        /\ \A c \in Blocks : c # b => pc'[r][c] = pc[r][c]
        /\ \A q \in Ranks : q # r => pc'[q] = pc[q]
    BY <1>2, PcType
  <1>5. /\ launches[r] \in Ops /\ g \in 1 .. MaxBlocks
        /\ b \in GridOf(r) /\ GridOf(r) \subseteq Blocks
        /\ epoch[r] < launches[r] /\ ~Idle(r)
    BY <1>1, <1>2, Working DEF KernelOf
  <1>6. \A q \in Ranks : q # r => stageCtr'[q] = stageCtr[q] /\ ctrlSeq'[q] = ctrlSeq[q]
    BY <1>2 DEF TypeInv, TypeOK, GpuType, RegionType
  <1>7. /\ \A c \in 1 .. MaxBlocks : c # g => stageCtr'[r][c] = stageCtr[r][c]
        /\ ctrlSeq'[r] = IF a = 0 THEN epoch[r] + 1 ELSE ctrlSeq[r]
    BY <1>2 DEF TypeInv, TypeOK, GpuType, RegionType
  <1> HIDE DEF a, g
  <1>8. /\ Healthy(r)' <=> Healthy(r)
        /\ ~Idle(r)' /\ Staging(r)
        /\ Over(r)' = Over(r) /\ GridOf(r)' = GridOf(r)
    BY <1>2, <1>4, <1>5 DEF Healthy, Idle, Staging, Over, GridOf
  <1>9. ASSUME NEW q \in Ranks, q # r PROVE KernelOf(q)'
    <2>1. UNCHANGED KernelVars(q)
      BY <1>2, <1>4, <1>6, <1>9 DEF KernelVars
    <2>2. QED
      BY <2>1, KernelSame DEF KernelInv
  <1>10. PoisonInv(r)'
    BY <1>1, <1>2 DEF KernelOf, PoisonInv
  <1>11. LaunchInv(r)'
    <2>1. ASSUME NEW c \in Blocks
          PROVE  /\ pc'[r][c] # "done" => c < Grid[launches[r]]
                 /\ pc'[r][c] \in Busy => reg[r][c] = epoch[r] + 1 /\ launches[r] = epoch[r] + 1
      BY <1>1, <1>2, <1>4 DEF KernelOf, LaunchInv, Busy
    <2>2. QED
      BY <2>1, <1>1, <1>2, <1>5, <1>8 DEF LaunchInv, KernelOf
  <1>12. ArrivalInv(r)'
    <2>1. ASSUME Healthy(r), NEW c \in 1 .. MaxBlocks
          PROVE  /\ stageCtr'[r][c] % c = Expected(r, Past(r), c)'
                 /\ tailCtr'[r][c] % c = Expected(r, Over(r), c)'
      <3>1. launches[r] # 0
        BY <1>5 DEF Ops
      <3>2. tailCtr[r][c] % c = Expected(r, Over(r), c) /\ stageCtr[r][c] % c = Expected(r, Past(r), c)
        BY <1>1, <2>1 DEF KernelOf, ArrivalInv
      <3>3. CASE c = g
        BY <1>2, <1>3, <1>8, <2>1, <3>1, <3>2, <3>3 DEF Expected, a, g
      <3>4. CASE c # g
        BY <1>2, <1>7, <1>8, <3>1, <3>2, <3>4 DEF Expected, g
      <3>5. QED
        BY <3>3, <3>4
    <2>2. stageCtr'[r][Grid[launches'[r]]] % Grid[launches'[r]] <= Cardinality(Past(r)')
      BY <1>2, <1>3 DEF a, g
    <2>3. QED
      BY <1>8, <2>1, <2>2 DEF ArrivalInv
  <1>13. DoorbellInv(r)'
    <2>1. ctrlSeq[r] = epoch[r] /\ epoch[r] \in Nat
      BY <1>1, <1>8, KernelType DEF KernelOf, DoorbellInv
    <2>2. Entering(r)' <=> Past(r)' # GridOf(r)
      <3>1. \A c \in Blocks : pc'[r][c] \in {"start", "stage"} => c \in GridOf(r)
        <4>1. \A c \in Blocks : pc'[r][c] \in {"start", "stage"} => c < Grid[launches[r]]
          BY <1>11, <1>2 DEF LaunchInv
        <4>2. QED
          BY <4>1, <1>5, GridType, Constants DEF GridOf, Blocks, g
      <3>2. QED
        BY <3>1, <1>5, <1>8 DEF Entering, Past
    <2>3. Staging(r)' => Entering(r)'
      BY DEF Staging, Entering
    <2>4. CASE a = 0
      BY <1>2, <1>3, <1>7, <1>8, <2>1, <2>2, <2>3, <2>4 DEF DoorbellInv
    <2>5. CASE a # 0
      BY <1>2, <1>3, <1>7, <1>8, <2>1, <2>2, <2>5 DEF DoorbellInv
    <2>6. QED
      BY <2>4, <2>5
  <1>14. QED
    BY <1>9, <1>10, <1>11, <1>12, <1>13 DEF KernelInv, KernelOf

(* A block that goes on behind its staging changes no count.               *)
LEMMA BusyMoves ==
  ASSUME TypeInv, NEW r \in Ranks, NEW b \in Blocks, NEW x \in {"wait", "check", "tail"},
         pc[r][b] \in {"wait", "check", "tail"}, pc' = [pc EXCEPT ![r][b] = x],
         launches' = launches
  PROVE  /\ Past(r)' = Past(r) /\ Over(r)' = Over(r)
         /\ Idle(r)' <=> Idle(r)
         /\ Entering(r)' <=> Entering(r)
         /\ Staging(r)' <=> Staging(r)
         /\ \A c \in Blocks : /\ pc'[r][c] # "done" <=> pc[r][c] # "done"
                              /\ pc'[r][c] \in Busy <=> pc[r][c] \in Busy
  <1>1. /\ pc'[r][b] = x
        /\ \A a \in Blocks : a # b => pc'[r][a] = pc[r][a]
    BY PcType
  <1>2. \A c \in Blocks : /\ pc'[r][c] # "done" <=> pc[r][c] # "done"
                          /\ pc'[r][c] \in {"start", "stage"} <=> pc[r][c] \in {"start", "stage"}
                          /\ pc'[r][c] = "stage" <=> pc[r][c] = "stage"
                          /\ pc'[r][c] \in Busy <=> pc[r][c] \in Busy
    BY <1>1 DEF Busy
  <1>3. Idle(r)' <=> Idle(r)
    BY <1>2 DEF Idle
  <1>4. (Entering(r)' <=> Entering(r)) /\ (Staging(r)' <=> Staging(r))
    BY <1>2 DEF Entering, Staging
  <1>5. \A c \in GridOf(r) : /\ pc'[r][c] = "done" <=> pc[r][c] = "done"
                             /\ pc'[r][c] \in {"start", "stage"} <=> pc[r][c] \in {"start", "stage"}
    <2>1. pc' = [pc EXCEPT ![r][b] = x] /\ pc \in [Ranks -> [Blocks -> {"start", "stage", "wait", "check", "tail", "done"}]]
      BY DEF TypeInv, TypeOK, GpuType
    <2>2. \A c \in GridOf(r) : c # b => pc'[r][c] = pc[r][c]
      BY <2>1
    <2>3. QED
      BY <1>1, <2>2
  <1>6. Past(r)' = Past(r) /\ Over(r)' = Over(r)
    BY <1>5 DEF Past, Over, GridOf
  <1>7. QED
    BY <1>2, <1>3, <1>4, <1>6

(* A block that ends its wait, with or without recording a failure, changes*)
(* neither counter nor doorbell and keeps it.                              *)
LEMMA BusyKernel ==
  ASSUME TypeInv, KernelInv, NEW r \in Ranks, NEW b \in Blocks, NEW x \in {"check", "tail"},
         pc[r][b] \in {"wait", "check", "tail"}, pc' = [pc EXCEPT ![r][b] = x],
         UNCHANGED <<launches, epoch, stageCtr, tailCtr, reg, ctrlSeq>>,
         \/ UNCHANGED <<poison, ctrlErr>>
         \/ /\ poison' = [poison EXCEPT ![r] = reg[r][b]]
            /\ ctrlErr' = [ctrlErr EXCEPT ![r] = reg[r][b]]
  PROVE  KernelInv'
  <1>1. KernelOf(r)
    BY DEF KernelInv
  <1>2. \A q \in Ranks : q # r => pc'[q] = pc[q]
    BY PcType
  <1>3. /\ Past(r)' = Past(r) /\ Over(r)' = Over(r)
        /\ Idle(r)' <=> Idle(r)
        /\ Entering(r)' <=> Entering(r)
        /\ Staging(r)' <=> Staging(r)
        /\ \A c \in Blocks : /\ pc'[r][c] # "done" <=> pc[r][c] # "done"
                             /\ pc'[r][c] \in Busy <=> pc[r][c] \in Busy
    BY BusyMoves
  <1>4. /\ reg[r][b] = epoch[r] + 1 /\ launches[r] = epoch[r] + 1 /\ epoch[r] \in Nat
    BY <1>1, KernelType DEF KernelOf, LaunchInv, Busy
  <1>5. ~Idle(r)
    BY DEF Idle
  <1>6. \A q \in Ranks : q # r => poison'[q] = poison[q] /\ ctrlErr'[q] = ctrlErr[q]
    BY DEF TypeInv, TypeOK, GpuType, RegionType
  <1>7. \/ poison'[r] = poison[r] /\ ctrlErr'[r] = ctrlErr[r]
        \/ poison'[r] # 0 /\ ctrlErr'[r] # 0
    BY <1>4 DEF TypeInv, TypeOK, GpuType, RegionType
  <1>8. Healthy(r)' => Healthy(r)
    BY <1>7 DEF Healthy
  <1>9. ASSUME NEW q \in Ranks, q # r PROVE KernelOf(q)'
    <2>1. UNCHANGED KernelVars(q)
      BY <1>2, <1>6, <1>9 DEF KernelVars
    <2>2. QED
      BY <2>1, KernelSame DEF KernelInv
  <1>10. PoisonInv(r)'
    BY <1>1, <1>7 DEF KernelOf, PoisonInv
  <1>11. LaunchInv(r)'
    BY <1>1, <1>3, <1>4, <1>5, <1>8 DEF KernelOf, LaunchInv
  <1>12. ArrivalInv(r)'
    BY <1>1, <1>3, <1>8 DEF KernelOf, ArrivalInv, Expected
  <1>13. DoorbellInv(r)'
    BY <1>1, <1>3, <1>8 DEF KernelOf, DoorbellInv
  <1>14. QED
    BY <1>9, <1>10, <1>11, <1>12, <1>13 DEF KernelInv, KernelOf

(* A wait that is satisfied is such a step.                                *)
LEMMA WaitDoneKernel ==
  ASSUME TypeInv, KernelInv, NEW r \in Ranks, NEW b \in Blocks, WaitDone(r, b)
  PROVE  KernelInv'
  <1>1. /\ pc[r][b] \in {"wait", "check", "tail"} /\ pc' = [pc EXCEPT ![r][b] = "check"]
        /\ UNCHANGED <<launches, epoch, stageCtr, tailCtr, reg, ctrlSeq>>
        /\ UNCHANGED <<poison, ctrlErr>>
    BY DEF WaitDone, hostVars, regionVars
  <1>2. QED
    BY <1>1, BusyKernel

(* A wait that times out is such a step, with the failure recorded under   *)
(* the block's own number.                                                 *)
LEMMA TimeoutKernel ==
  ASSUME TypeInv, KernelInv, NEW r \in Ranks, NEW b \in Blocks, Timeout(r, b)
  PROVE  KernelInv'
  <1>1. /\ pc[r][b] \in {"wait", "check", "tail"} /\ pc' = [pc EXCEPT ![r][b] = "check"]
        /\ UNCHANGED <<launches, epoch, stageCtr, tailCtr, reg, ctrlSeq>>
        /\ poison' = [poison EXCEPT ![r] = reg[r][b]]
        /\ ctrlErr' = [ctrlErr EXCEPT ![r] = reg[r][b]]
    BY DEF Timeout, hostVars
  <1>2. QED
    BY <1>1, BusyKernel

(* So is the check of the next share and its reduction.                    *)
LEMMA ReduceKernel ==
  ASSUME TypeInv, KernelInv, NEW r \in Ranks, NEW b \in Blocks, Reduce(r, b)
  PROVE  KernelInv'
  <1>1. /\ pc[r][b] \in {"wait", "check", "tail"} /\ pc' = [pc EXCEPT ![r][b] = "tail"]
        /\ UNCHANGED <<launches, epoch, stageCtr, tailCtr, reg, ctrlSeq>>
        /\ UNCHANGED <<poison, ctrlErr>>
    BY DEF Reduce, hostVars, regionVars
  <1>2. QED
    BY <1>1, BusyKernel

(* What Publish does to the words of its rank: a healthy rank advances its *)
(* epoch when the last block is done, a rank that timed out never does.    *)
LEMMA PublishEffect ==
  ASSUME TypeInv, NEW r \in Ranks, KernelOf(r), NEW b \in Blocks, Publish(r, b)
  PROVE  /\ pc[r][b] = "tail"
         /\ pc' = [pc EXCEPT ![r][b] = "done"]
         /\ UNCHANGED <<launches, poison, stageCtr, reg, out>>
         /\ UNCHANGED <<regionVars, proxyVars, netVars>>
         /\ \A q \in Ranks : q # r => tailCtr'[q] = tailCtr[q] /\ epoch'[q] = epoch[q]
         /\ \A c \in 1 .. MaxBlocks : c # Grid[launches[r]] => tailCtr'[r][c] = tailCtr[r][c]
         /\ Past(r)' = Past(r) /\ Over(r)' = Over(r) \cup {b} /\ b \notin Over(r)
         /\ Healthy(r) =>
              /\ tailCtr'[r][Grid[launches[r]]] % Grid[launches[r]]
                   = Cardinality(Over(r)') % Grid[launches[r]]
              /\ epoch'[r] = IF Over(r)' = GridOf(r) THEN epoch[r] + 1 ELSE epoch[r]
         /\ ~Healthy(r) => epoch'[r] = epoch[r]
  <1> DEFINE g == Grid[launches[r]]
             k == tailCtr[r][g]
             a == (k + 1) % CtrMod
             P == Over(r)
  <1>1. /\ pc[r][b] = "tail"
        /\ pc' = [pc EXCEPT ![r][b] = "done"]
        /\ tailCtr' = [tailCtr EXCEPT ![r][g] = a]
        /\ epoch' = IF a % g = 0 /\ ctrlErr[r] = 0 THEN [epoch EXCEPT ![r] = reg[r][b]] ELSE epoch
        /\ UNCHANGED <<launches, poison, stageCtr, reg, out>>
        /\ UNCHANGED <<regionVars, proxyVars, netVars>>
    BY DEF Publish, CounterClass, hostVars, MayPublish
  <1>2. /\ pc'[r][b] = "done"
        /\ \A c \in Blocks : c # b => pc'[r][c] = pc[r][c]
    BY <1>1, PcType
  <1>3. /\ g \in 1 .. MaxBlocks /\ g \in Nat \ {0} /\ CtrMod % g = 0
        /\ b \in GridOf(r) /\ GridOf(r) \subseteq Blocks /\ launches[r] \in Ops
    BY <1>1, Working DEF KernelOf
  <1>4. b \in 0 .. g - 1 /\ b \notin P /\ P \in SUBSET (0 .. g - 1)
    BY <1>1, <1>3, PastType DEF GridOf, Over
  <1>5. Over(r)' = P \cup {b} /\ Past(r)' = Past(r)
    BY <1>1, <1>2, <1>3 DEF Over, Past, GridOf
  <1>6. k \in 0 .. CtrMod - 1
    BY <1>3, KernelType
  <1>7. Healthy(r) => k % g = Cardinality(P) % g
    BY <1>3 DEF KernelOf, ArrivalInv, Expected, Ops
  <1>8. reg[r][b] = epoch[r] + 1
    BY <1>1 DEF KernelOf, LaunchInv, Busy
  <1>9. GridOf(r) = 0 .. g - 1
    BY DEF GridOf
  <1>10. /\ \A q \in Ranks : q # r => tailCtr'[q] = tailCtr[q] /\ epoch'[q] = epoch[q]
         /\ epoch'[r] = IF a % g = 0 /\ Healthy(r) THEN epoch[r] + 1 ELSE epoch[r]
    BY <1>1, <1>8 DEF TypeInv, TypeOK, GpuType, Healthy
  <1>11. tailCtr \in [Ranks -> [1 .. MaxBlocks -> 0 .. CtrMod - 1]]
    BY DEF TypeInv, TypeOK, GpuType
  <1> HIDE DEF g, k, P
  <1>12. /\ tailCtr'[r][g] = a
         /\ \A c \in 1 .. MaxBlocks : c # g => tailCtr'[r][c] = tailCtr[r][c]
    BY <1>1, <1>3, <1>11
  <1>13. g \in Nat \ {0} /\ CtrMod % g = 0
    BY <1>3
  <1>14. ASSUME Healthy(r)
         PROVE  /\ ((k + 1) % CtrMod) % g = Cardinality(P \cup {b}) % g
                /\ ((k + 1) % CtrMod) % g = 0 <=> P \cup {b} = 0 .. g - 1
    <2>1. k % g = Cardinality(P) % g
      BY <1>7, <1>14
    <2>2. QED
      BY ONLY <1>13, <1>4, <1>6, <2>1, Arrive, SMTT(20)
  <1>15. QED
    BY <1>1, <1>4, <1>5, <1>9, <1>10, <1>12, <1>14 DEF g, P

(* Counting in the tail keeps it; the block that counts last publishes the *)
(* epoch.                                                                  *)
LEMMA PublishKernel ==
  ASSUME TypeInv, KernelInv, NEW r \in Ranks, NEW b \in Blocks, Publish(r, b)
  PROVE  KernelInv'
  <1> DEFINE g == Grid[launches[r]]
  <1>1. KernelOf(r)
    BY DEF KernelInv
  <1>2. /\ pc[r][b] = "tail"
        /\ pc' = [pc EXCEPT ![r][b] = "done"]
        /\ UNCHANGED <<launches, poison, stageCtr, reg, ctrlSeq, ctrlErr>>
        /\ \A q \in Ranks : q # r => tailCtr'[q] = tailCtr[q] /\ epoch'[q] = epoch[q]
        /\ \A c \in 1 .. MaxBlocks : c # g => tailCtr'[r][c] = tailCtr[r][c]
        /\ Past(r)' = Past(r) /\ Over(r)' = Over(r) \cup {b}
        /\ Healthy(r) =>
             /\ tailCtr'[r][g] % g = Cardinality(Over(r)') % g
             /\ epoch'[r] = IF Over(r)' = GridOf(r) THEN epoch[r] + 1 ELSE epoch[r]
        /\ ~Healthy(r) => epoch'[r] = epoch[r]
    BY <1>1, PublishEffect DEF regionVars
  <1>3. /\ pc'[r][b] = "done"
        /\ \A c \in Blocks : c # b => pc'[r][c] = pc[r][c]
        /\ \A q \in Ranks : q # r => pc'[q] = pc[q]
    BY <1>2, PcType
  <1>4. /\ launches[r] \in Ops /\ g \in 1 .. MaxBlocks
        /\ b \in GridOf(r) /\ GridOf(r) \subseteq Blocks
        /\ epoch[r] < launches[r] /\ ~Idle(r)
        /\ Healthy(r) => launches[r] = epoch[r] + 1
    BY <1>1, <1>2, Working DEF KernelOf
  <1>5. epoch[r] \in Nat /\ launches[r] \in Nat /\ ctrlSeq[r] \in Nat
    BY KernelType
  <1> HIDE DEF g
  <1>6. /\ Healthy(r)' <=> Healthy(r)
        /\ Staging(r)' <=> Staging(r)
        /\ Entering(r)' <=> Entering(r)
    BY <1>2, <1>3 DEF Healthy, Staging, Entering
  <1>7. Idle(r)' <=> Over(r)' = GridOf(r)
    <2>1. \A c \in Blocks : pc'[r][c] # "done" => c \in GridOf(r)
      <3>1. \A c \in Blocks : pc'[r][c] # "done" => c < Grid[launches[r]]
        BY <1>1, <1>3 DEF KernelOf, LaunchInv
      <3>2. QED
        BY <3>1, <1>4, GridType, Constants DEF GridOf, Blocks
    <2>2. GridOf(r)' = GridOf(r)
      BY <1>2 DEF GridOf
    <2>3. QED
      BY <2>1, <2>2, <1>4 DEF Idle, Over
  <1>8. ASSUME NEW q \in Ranks, q # r PROVE KernelOf(q)'
    <2>1. UNCHANGED KernelVars(q)
      BY <1>2, <1>3, <1>8 DEF KernelVars
    <2>2. QED
      BY <2>1, KernelSame DEF KernelInv
  <1>9. PoisonInv(r)'
    BY <1>1, <1>2 DEF KernelOf, PoisonInv
  <1>10. LaunchInv(r)'
    <2>1. ASSUME NEW c \in Blocks
          PROVE  /\ pc'[r][c] # "done" => c < Grid[launches[r]]
                 /\ pc'[r][c] \in Busy => reg[r][c] = epoch[r] + 1 /\ launches[r] = epoch[r] + 1
                 /\ Idle(r)' => pc'[r][c] \notin Busy
      BY <1>1, <1>3 DEF KernelOf, LaunchInv, Busy, Idle
    <2>2. CASE Healthy(r)
      BY <2>1, <2>2, <1>2, <1>4, <1>5, <1>6, <1>7 DEF LaunchInv
    <2>3. CASE ~Healthy(r)
      BY <2>1, <2>3, <1>2, <1>4, <1>5, <1>6 DEF LaunchInv
    <2>4. QED
      BY <2>2, <2>3
  <1>11. ArrivalInv(r)'
    <2>1. ASSUME Healthy(r), NEW c \in 1 .. MaxBlocks
          PROVE  /\ stageCtr'[r][c] % c = Expected(r, Past(r), c)'
                 /\ tailCtr'[r][c] % c = Expected(r, Over(r), c)'
      <3>1. launches[r] # 0
        BY <1>4 DEF Ops
      <3>2. tailCtr[r][c] % c = Expected(r, Over(r), c) /\ stageCtr[r][c] % c = Expected(r, Past(r), c)
        BY <1>1, <2>1 DEF KernelOf, ArrivalInv
      <3>3. CASE c = g
        BY <1>2, <2>1, <3>1, <3>2, <3>3 DEF Expected, g
      <3>4. CASE c # g
        BY <1>2, <3>1, <3>2, <3>4 DEF Expected, g
      <3>5. QED
        BY <3>3, <3>4
    <2>2. QED
      BY <1>1, <1>2, <1>6, <2>1 DEF ArrivalInv, KernelOf
  <1>12. DoorbellInv(r)'
    <2>1. ~Healthy(r) \/ ~Idle(r)'  => epoch'[r] = epoch[r]
      BY <1>2, <1>7
    <2>2. CASE Healthy(r) /\ Idle(r)'
      <3>1. epoch'[r] = epoch[r] + 1
        BY <1>2, <1>7, <2>2
      <3>2. ~Entering(r)' /\ ~Staging(r)'
        BY <2>2 DEF Idle, Entering, Staging
      <3>3. ctrlSeq[r] = epoch[r] + 1
        BY <1>1, <1>4, <1>6, <2>2, <3>2 DEF KernelOf, DoorbellInv
      <3>4. QED
        BY <1>2, <1>5, <2>2, <3>1, <3>2, <3>3 DEF DoorbellInv
    <2>3. CASE ~(Healthy(r) /\ Idle(r)')
      BY <1>1, <1>2, <1>4, <1>6, <2>1, <2>3 DEF KernelOf, DoorbellInv
    <2>4. QED
      BY <2>2, <2>3
  <1>13. QED
    BY <1>8, <1>9, <1>10, <1>11, <1>12 DEF KernelInv, KernelOf

(* The proxies and NICs, and the host apart from its launches, change      *)
(* nothing that KernelInv looks at.                                        *)
LEMMA OthersKernel ==
  ASSUME KernelInv, UNCHANGED <<launches, epoch, poison, stageCtr, tailCtr, pc, reg, ctrlSeq, ctrlErr>>
  PROVE  KernelInv'
  <1>1. ASSUME NEW q \in Ranks PROVE KernelOf(q)'
    <2>1. UNCHANGED KernelVars(q)
      BY DEF KernelVars
    <2>2. QED
      BY <2>1, KernelSame DEF KernelInv
  <1>2. QED
    BY <1>1 DEF KernelInv

(* The invariant holds before the first launch.                            *)
LEMMA InitKernel == Init => KernelInv
  <1> SUFFICES ASSUME Init, NEW r \in Ranks PROVE KernelOf(r)
    BY DEF KernelInv
  <1>1. /\ launches[r] = 0 /\ epoch[r] = 0 /\ poison[r] = 0 /\ ctrlSeq[r] = 0 /\ ctrlErr[r] = 0
        /\ \A c \in 1 .. MaxBlocks : stageCtr[r][c] = 0 /\ tailCtr[r][c] = 0
        /\ \A b \in Blocks : pc[r][b] = "done"
    BY DEF Init
  <1>2. /\ Idle(r) /\ ~Staging(r)
    BY <1>1 DEF Idle, Staging
  <1>3. \A c \in 1 .. MaxBlocks : 0 % c = 0
    BY ModSelf, Constants
  <1>4. ArrivalInv(r)
    BY <1>1, <1>2, <1>3 DEF ArrivalInv, Expected
  <1>5. QED
    BY <1>1, <1>2, <1>4 DEF KernelOf, PoisonInv, LaunchInv, DoorbellInv, Busy, Healthy

(* Every step of a proxy, and every step of the host but a launch, leaves  *)
(* the kernels alone.                                                      *)
LEMMA ProxyQuiet ==
  ASSUME NEW r \in Ranks, ProxyStep(r) PROVE UNCHANGED <<hostVars, gpuVars, regionVars, stops>>
  BY DEF ProxyStep, SeeDoorbell, Post, PostFails, EndOp, ThreadExit, DrainFails, netVars

(* The host's health checks, stops, restarts and close touch neither the   *)
(* kernel's state nor the region it shares with the proxy.                 *)
LEMMA HostQuiet ==
  ASSUME NEW r \in Ranks, CheckHealth(r) \/ Close(r) \/ Destroy(r) \/ RoceStop(r) \/ RoceStart(r)
  PROVE  UNCHANGED <<launches, gpuVars, regionVars>>
  BY DEF CheckHealth, Close, Destroy, RoceStop, RoceStart, hostVars

(* An HCA that delivers, and a connection that breaks, change the peer's   *)
(* memory and the queue only.                                              *)
LEMMA NicQuiet ==
  ASSUME NEW r \in Ranks, NEW p \in Peers(r), NEW h \in Hcas, NicStep(r, p, h) \/ BreakQp(r, p, h)
  PROVE  UNCHANGED <<hostVars, gpuVars, send, ctrlSeq, ctrlErr, ctrlBytes, proxyVars, stops>>
  BY DEF NicStep, WriteData, WriteFlag, BreakQp, regionVars

(* Every step of the system keeps the kernel invariant of every rank.      *)
LEMMA NextKernel ==
  ASSUME NoWrap, TypeInv, KernelInv, [Next]_vars
  PROVE  KernelInv'
  <1>1. CASE UNCHANGED vars
    BY <1>1, OthersKernel DEF vars, hostVars, gpuVars, regionVars
  <1>2. ASSUME NEW r \in Ranks, ProxyStep(r) PROVE KernelInv'
    BY <1>2, ProxyQuiet, OthersKernel DEF hostVars, gpuVars, regionVars
  <1>3. ASSUME NEW r \in Ranks, CheckHealth(r) \/ Close(r) \/ Destroy(r) \/ RoceStop(r) \/ RoceStart(r)
        PROVE  KernelInv'
    BY <1>3, HostQuiet, OthersKernel DEF gpuVars, regionVars
  <1>4. ASSUME NEW r \in Ranks, NEW p \in Peers(r), NEW h \in Hcas,
               NicStep(r, p, h) \/ BreakQp(r, p, h)
        PROVE  KernelInv'
    BY <1>4, NicQuiet, OthersKernel DEF hostVars, gpuVars
  <1>5. ASSUME NEW r \in Ranks, NEW b \in Blocks, BlockStep(r, b) PROVE KernelInv'
    BY <1>5, StartKernel, StageKernel, WaitDoneKernel, TimeoutKernel, ReduceKernel, PublishKernel
    DEF BlockStep
  <1>6. QED
    BY <1>1, <1>2, <1>3, <1>4, <1>5, LaunchKernel DEF Next, Done

-----------------------------------------------------------------------------
(* What the steps do to the words that two ranks share.                    *)

(* The doorbell does not run ahead of the launches.                        *)
LEMMA SeqBound ==
  ASSUME TypeInv, KernelInv, NEW r \in Ranks
  PROVE  ctrlSeq[r] \in 0 .. MaxOps /\ epoch[r] \in 0 .. MaxOps /\ epoch[r] <= ctrlSeq[r]
         /\ ctrlSeq[r] <= epoch[r] + 1 /\ ctrlSeq[r] <= launches[r] /\ launches[r] \in 0 .. MaxOps
  <1>1. KernelOf(r)
    BY DEF KernelInv
  <1>2. /\ launches[r] \in 0 .. MaxOps /\ MaxOps \in Nat /\ epoch[r] \in Nat /\ ctrlSeq[r] \in Nat
    BY KernelType, Constants
  <1>3. ctrlSeq[r] = epoch[r] \/ ctrlSeq[r] = epoch[r] + 1
    BY <1>1 DEF KernelOf, DoorbellInv
  <1>4. ctrlSeq[r] # epoch[r] => epoch[r] < launches[r]
    BY <1>1, <1>2 DEF KernelOf, DoorbellInv, LaunchInv
  <1>5. epoch[r] <= launches[r]
    BY <1>1 DEF KernelOf, LaunchInv
  <1>6. QED
    BY <1>2, <1>3, <1>4, <1>5

(* Only a block step touches the kernel's words, only Stage the doorbell,  *)
(* only Timeout the error word and only Publish the epoch.                 *)
LEMMA BlockQuiet ==
  ASSUME NEW r \in Ranks, NEW b \in Blocks, BlockStep(r, b)
  PROVE  /\ UNCHANGED <<hostVars, recv, flag, proxyVars, netVars, stops>>
         /\ Stage(r, b) \/ ctrlSeq' = ctrlSeq
         /\ Timeout(r, b) \/ ctrlErr' = ctrlErr
         /\ Publish(r, b) \/ epoch' = epoch
  BY DEF BlockStep, Start, Stage, WaitDone, Timeout, Reduce, Publish, regionVars

(* The sequence numbers in the proxy, the flags and the queues are         *)
(* naturals.                                                               *)
LEMMA Seqs0 ==
  ASSUME TypeInv, NEW r \in Ranks
  PROVE  /\ last[r] \in Nat /\ pend[r] \in 0 .. SLOTS
         /\ px[r] = "post" => pend[r] # 0
         /\ \A p \in Ranks, s \in SlotIds, h \in Hcas : flag[r][p][s][h] \in Nat
         /\ \A p \in Ranks, h \in Hcas : \A k \in DOMAIN wq[r][p][h] : wq[r][p][h][k].seq \in Nat
  <1>1. last[r] \in Seqs /\ pend[r] \in 0 .. SLOTS
    BY DEF TypeInv, TypeOK, ProxyType
  <1>2. \A p \in Ranks, s \in SlotIds, h \in Hcas : flag[r][p][s][h] \in Seqs
    BY DEF TypeInv, TypeOK, RegionType
  <1>3. ASSUME NEW p \in Ranks, NEW h \in Hcas, NEW k \in DOMAIN wq[r][p][h]
        PROVE  wq[r][p][h][k].seq \in Seqs
    <2>1. wq[r][p][h] \in Seq(Request)
      BY DEF TypeInv, TypeOK, NetType
    <2>2. wq[r][p][h][k] \in Request
      BY <2>1
    <2>3. QED
      BY <2>2 DEF Request
  <1>4. px[r] = "post" => pend[r] # 0
    BY DEF TypeInv, Running
  <1>5. QED
    BY <1>1, <1>2, <1>3, <1>4, SeqsNat

(* The doorbell of every rank only goes up.                                *)
LEMMA DoorbellGrows ==
  ASSUME TypeInv, KernelInv, [Next]_vars, NEW q \in Ranks
  PROVE  ctrlSeq[q] <= ctrlSeq'[q]
  <1>0. ctrlSeq[q] \in Nat
    BY KernelType
  <1>1. CASE UNCHANGED vars
    BY <1>0, <1>1 DEF vars, regionVars
  <1>2. ASSUME NEW r \in Ranks, ProxyStep(r) PROVE ctrlSeq' = ctrlSeq
    BY <1>2, ProxyQuiet DEF regionVars
  <1>3. ASSUME NEW r \in Ranks, CheckHealth(r) \/ Close(r) \/ Destroy(r) \/ RoceStop(r) \/ RoceStart(r)
        PROVE  ctrlSeq' = ctrlSeq
    BY <1>3, HostQuiet DEF regionVars
  <1>4. ASSUME NEW r \in Ranks, NEW p \in Peers(r), NEW h \in Hcas,
               NicStep(r, p, h) \/ BreakQp(r, p, h)
        PROVE  ctrlSeq' = ctrlSeq
    BY <1>4, NicQuiet
  <1>5. ASSUME NEW r \in Ranks, NEW b \in Blocks, BlockStep(r, b) PROVE ctrlSeq[q] <= ctrlSeq'[q]
    <2>1. CASE Stage(r, b)
      <3>1. KernelOf(r)
        BY DEF KernelInv
      <3>2. pc[r][b] = "stage" /\ (ctrlSeq' = ctrlSeq \/ ctrlSeq' = [ctrlSeq EXCEPT ![r] = epoch[r] + 1])
        BY <2>1, <3>1, StageEffect
      <3>3. ctrlSeq[r] = epoch[r] /\ epoch[r] \in Nat
        BY <3>1, <3>2, KernelType DEF KernelOf, DoorbellInv, Staging
      <3>4. ctrlSeq \in [Ranks -> Seqs]
        BY DEF TypeInv, TypeOK, RegionType
      <3>5. CASE q = r
        BY <1>0, <3>2, <3>3, <3>4, <3>5
      <3>6. CASE q # r
        BY <1>0, <3>2, <3>4, <3>6
      <3>7. QED
        BY <3>5, <3>6
    <2>2. QED
      BY <1>0, <1>5, <2>1, BlockQuiet
  <1>6. ASSUME NEW r \in Ranks, Launch(r) PROVE ctrlSeq' = ctrlSeq
    BY <1>6 DEF Launch, regionVars
  <1>7. QED
    BY <1>0, <1>1, <1>2, <1>3, <1>4, <1>5, <1>6 DEF Next, Done

(* The doorbells that wait, as a difference.                               *)
LEMMA Difference ==
  ASSUME NoWrap, NEW m \in 0 .. MaxOps + 1, NEW n \in 0 .. MaxOps, m <= n
  PROVE  (n - m + SeqMod) % SeqMod = n - m
  <1>1. SeqMod \in Nat \ {0} /\ MaxOps \in Nat /\ MaxOps + 1 < SeqMod
    BY Constants DEF NoWrap
  <1>2. n - m + SeqMod = SeqMod * 1 + (n - m) /\ n - m \in 0 .. SeqMod - 1
    BY <1>1
  <1>3. (SeqMod * 1 + (n - m)) % SeqMod = n - m
    BY <1>1, <1>2, ModUnique
  <1>4. QED
    BY <1>2, <1>3

(* What the proxy is posting is the collective after the last one it       *)
(* finished, below the wrap.                                               *)
LEMMA PostingIs ==
  ASSUME NoWrap, TypeInv, KernelInv, NEW r \in Ranks, ProxyInv(r)
  PROVE  Posting(r) = last[r] + 1 /\ last[r] \in 0 .. MaxOps /\ last[r] <= ctrlSeq[r]
  <1>1. last[r] \in Nat /\ last[r] <= ctrlSeq[r] /\ ctrlSeq[r] \in 0 .. MaxOps /\ MaxOps \in Nat
    BY Seqs0, SeqBound, Constants DEF ProxyInv
  <1>2. last[r] \in 0 .. MaxOps
    BY <1>1
  <1>3. QED
    BY <1>1, <1>2, SuccIs DEF Posting

(* What the proxy does when it sees the doorbell: it dies when it is more  *)
(* than the slots behind, else it starts to post every collective it has   *)
(* missed.                                                                 *)
LEMMA SeeDoorbellEffect ==
  ASSUME NoWrap, TypeInv, KernelInv, NEW r \in Ranks, ProxyInv(r), SeeDoorbell(r)
  PROVE  /\ px[r] = "poll"
         /\ UNCHANGED last
         /\ \A q \in Ranks : q # r => px'[q] = px[q] /\ pend'[q] = pend[q] /\ cursor'[q] = cursor[q]
                                      /\ nbytes'[q] = nbytes[q]
         /\ \/ px'[r] = "dead" /\ ctrlSeq[r] - last[r] > SLOTS
            \/ /\ px'[r] = "post" /\ pend'[r] = ctrlSeq[r] - last[r] /\ pend'[r] <= SLOTS
               /\ cursor'[r] = [peer |-> FirstPeer(r), hca |-> 0]
               /\ nbytes'[r] = ctrlBytes[r][Slot(last[r] + 1)]
  <1> DEFINE d == (ctrlSeq[r] - last[r] + SeqMod) % SeqMod
  <1>1. Posting(r) = last[r] + 1 /\ last[r] \in 0 .. MaxOps /\ last[r] <= ctrlSeq[r]
    BY PostingIs
  <1>2. ctrlSeq[r] \in 0 .. MaxOps /\ MaxOps \in Nat
    BY SeqBound, Constants
  <1>3. d = ctrlSeq[r] - last[r]
    BY <1>1, <1>2, Difference
  <1>4. /\ px[r] = "poll"
        /\ UNCHANGED last
        /\ \/ d > SLOTS /\ Fail(r)
           \/ /\ ~(d > SLOTS) /\ px' = [px EXCEPT ![r] = "post"] /\ pend' = [pend EXCEPT ![r] = d]
              /\ BeginOp(r, last[r])
    BY DEF SeeDoorbell, Fail
  <1>5. px \in [Ranks -> {"poll", "post", "off", "dead"}] /\ pend \in [Ranks -> 0 .. SLOTS]
        /\ cursor \in [Ranks -> [peer : 0 .. World, hca : Hcas]] /\ nbytes \in [Ranks -> 0 .. MaxPacks]
    BY DEF TypeInv, TypeOK, ProxyType
  <1> HIDE DEF d
  <1>6. CASE d > SLOTS /\ Fail(r)
    BY <1>3, <1>4, <1>5, <1>6 DEF Fail
  <1>7. CASE ~(d > SLOTS) /\ px' = [px EXCEPT ![r] = "post"] /\ pend' = [pend EXCEPT ![r] = d]
              /\ BeginOp(r, last[r])
    <2>1. nbytes'[r] = ctrlBytes[r][Slot(last[r] + 1)]
      BY <1>1, <1>5, <1>7 DEF BeginOp, Posting
    <2>2. cursor'[r] = [peer |-> FirstPeer(r), hca |-> 0]
      BY <1>5, <1>7 DEF BeginOp
    <2>3. px'[r] = "post" /\ pend'[r] = d
      BY <1>5, <1>7
    <2>4. \A q \in Ranks : q # r => px'[q] = px[q] /\ pend'[q] = pend[q] /\ cursor'[q] = cursor[q]
                                    /\ nbytes'[q] = nbytes[q]
      BY <1>5, <1>7 DEF BeginOp
    <2>5. d <= SLOTS
      BY <1>1, <1>2, <1>3, <1>7 DEF SLOTS
    <2>6. QED
      BY <1>3, <1>4, <2>1, <2>2, <2>3, <2>4, <2>5
  <1>8. QED
    BY <1>4, <1>6, <1>7

(* What it does at the end of one collective: it dies of a broken          *)
(* connection, or goes on with the next one, or polls again.               *)
LEMMA EndOpEffect ==
  ASSUME NoWrap, TypeInv, KernelInv, NEW r \in Ranks, ProxyInv(r), EndOp(r)
  PROVE  /\ px[r] = "post" /\ cursor[r].peer >= World
         /\ \A q \in Ranks : q # r => px'[q] = px[q] /\ pend'[q] = pend[q] /\ last'[q] = last[q]
                                      /\ cursor'[q] = cursor[q] /\ nbytes'[q] = nbytes[q]
         /\ \/ px'[r] = "dead" /\ last'[r] = last[r] /\ ~AllUp(r)
            \/ /\ last'[r] = last[r] + 1 /\ pend'[r] = pend[r] - 1
               /\ \/ px'[r] = "poll" /\ pend[r] <= 1
                  \/ /\ px'[r] = "post" /\ pend[r] > 1
                     /\ cursor'[r] = [peer |-> FirstPeer(r), hca |-> 0]
                     /\ nbytes'[r] = ctrlBytes[r][Slot(last[r] + 2)]
  <1>1. Posting(r) = last[r] + 1 /\ last[r] \in 0 .. MaxOps /\ last[r] <= ctrlSeq[r]
    BY PostingIs
  <1>2. /\ px \in [Ranks -> {"poll", "post", "off", "dead"}] /\ pend \in [Ranks -> 0 .. SLOTS]
        /\ last \in [Ranks -> Seqs]
        /\ cursor \in [Ranks -> [peer : 0 .. World, hca : Hcas]] /\ nbytes \in [Ranks -> 0 .. MaxPacks]
    BY DEF TypeInv, TypeOK, ProxyType
  <1>3. px[r] = "post" /\ cursor[r].peer >= World
    BY DEF EndOp
  <1>4. CASE (\E h \in Hcas : Broken(r, h)) /\ Fail(r)
    BY <1>2, <1>3, <1>4 DEF Fail, AllUp
  <1>5. CASE /\ last' = [last EXCEPT ![r] = Posting(r)]
             /\ pend' = [pend EXCEPT ![r] = @ - 1]
             /\ pend[r] > 1 /\ BeginOp(r, Posting(r)) /\ UNCHANGED px
    <2>1. last[r] + 1 \in 0 .. MaxOps /\ last[r] \in Nat
      <3>1. last[r] + pend[r] <= ctrlSeq[r] /\ ctrlSeq[r] \in 0 .. MaxOps /\ pend[r] \in Nat
            /\ pend[r] # 0 /\ MaxOps \in Nat
        BY <1>3, Seqs0, SeqBound, Constants DEF ProxyInv
      <3>2. QED
        BY <1>1, <3>1
    <2>2. Succ(Posting(r)) = last[r] + 2
      BY <1>1, <2>1, SuccIs
    <2>3. nbytes' = [nbytes EXCEPT ![r] = ctrlBytes[r][Slot(last[r] + 2)]]
      BY <1>5, <2>2 DEF BeginOp
    <2>4. cursor' = [cursor EXCEPT ![r] = [peer |-> FirstPeer(r), hca |-> 0]]
      BY <1>5 DEF BeginOp
    <2>5. QED
      BY <1>1, <1>2, <1>3, <1>5, <2>3, <2>4
  <1>6. CASE /\ last' = [last EXCEPT ![r] = Posting(r)]
             /\ pend' = [pend EXCEPT ![r] = @ - 1]
             /\ ~(pend[r] > 1) /\ px' = [px EXCEPT ![r] = "poll"] /\ UNCHANGED <<cursor, nbytes>>
    <2>1. pend[r] <= 1
      BY <1>2, <1>6 DEF SLOTS
    <2>2. QED
      BY <1>1, <1>2, <1>3, <1>6, <2>1
  <1>7. QED
    BY <1>4, <1>5, <1>6 DEF EndOp

(* The steps of a proxy that post nothing completely.                      *)
LEMMA ProxyStays ==
  ASSUME TypeInv, NEW r \in Ranks,
         \/ Post(r) \/ PostFails(r) \/ ThreadExit(r) \/ \E h \in Hcas : DrainFails(r, h)
         \/ CheckHealth(r) \/ Close(r) \/ Destroy(r) \/ RoceStop(r) \/ RoceStart(r)
  PROVE  /\ UNCHANGED <<last, pend, nbytes>>
         /\ \A q \in Ranks : px'[q] = px[q] \/ px'[q] # "post"
         /\ \A q \in Ranks : q # r => px'[q] = px[q] /\ cursor'[q] = cursor[q]
  <1>1. px \in [Ranks -> {"poll", "post", "off", "dead"}]
        /\ cursor \in [Ranks -> [peer : 0 .. World, hca : Hcas]]
    BY DEF TypeInv, TypeOK, ProxyType
  <1>2. CASE Post(r)
    BY <1>1, <1>2 DEF Post
  <1>3. CASE PostFails(r) \/ \E h \in Hcas : DrainFails(r, h)
    BY <1>1, <1>3 DEF PostFails, DrainFails, Fail
  <1>4. CASE ThreadExit(r) \/ RoceStart(r)
    BY <1>1, <1>4 DEF ThreadExit, RoceStart
  <1>5. CASE CheckHealth(r) \/ Close(r) \/ Destroy(r) \/ RoceStop(r)
    BY <1>1, <1>5 DEF CheckHealth, Close, Destroy, RoceStop, proxyVars
  <1>6. QED
    BY <1>2, <1>3, <1>4, <1>5

(* What a proxy has posted completely only grows, one collective at a      *)
(* time, and stays behind the doorbell.                                    *)
LEMMA NextProxy ==
  ASSUME NoWrap, TypeInv, KernelInv, \A r \in Ranks : ProxyInv(r), [Next]_vars, NEW q \in Ranks
  PROVE  ProxyInv(q)' /\ last[q] <= last'[q]
  <1>1. /\ ctrlSeq[q] <= ctrlSeq'[q] /\ ctrlSeq[q] \in Nat /\ ctrlSeq'[q] \in Nat
        /\ last[q] \in Nat /\ pend[q] \in Nat
    <2>1. ctrlSeq[q] <= ctrlSeq'[q] /\ ctrlSeq[q] \in Nat
      BY DoorbellGrows, KernelType
    <2>2. TypeInv'
      BY NextTypeInv
    <2>3. ctrlSeq'[q] \in Seqs
      BY <2>2 DEF TypeInv, TypeOK, RegionType
    <2>4. last[q] \in Nat /\ pend[q] \in 0 .. SLOTS
      BY Seqs0
    <2>5. ctrlSeq'[q] \in Nat
      BY <2>3, SeqsNat
    <2>6. pend[q] \in Nat
      BY <2>4 DEF SLOTS
    <2>7. QED
      BY <2>1, <2>4, <2>5, <2>6
  <1>2. ProxyInv(q)
    OBVIOUS
  <1>3. ASSUME last'[q] = last[q], pend'[q] = pend[q], px'[q] = px[q] \/ px'[q] # "post"
        PROVE  ProxyInv(q)' /\ last[q] <= last'[q]
    BY <1>1, <1>2, <1>3 DEF ProxyInv
  <1>4. CASE UNCHANGED proxyVars
    BY <1>3, <1>4 DEF proxyVars
  <1>5. ASSUME NEW r \in Ranks,
               \/ Post(r) \/ PostFails(r) \/ ThreadExit(r) \/ \E h \in Hcas : DrainFails(r, h)
               \/ CheckHealth(r) \/ Close(r) \/ Destroy(r) \/ RoceStop(r) \/ RoceStart(r)
        PROVE  ProxyInv(q)' /\ last[q] <= last'[q]
    BY <1>3, <1>5, ProxyStays
  <1>6. ASSUME NEW r \in Ranks, SeeDoorbell(r) PROVE ProxyInv(q)' /\ last[q] <= last'[q]
    <2>1. CASE q = r
      <3>1. /\ last'[q] = last[q]
            /\ px'[q] = "dead" \/ pend'[q] = ctrlSeq[q] - last[q]
        BY <1>6, <2>1, SeeDoorbellEffect
      <3>2. QED
        BY <1>1, <1>2, <3>1 DEF ProxyInv
    <2>2. CASE q # r
      BY <1>3, <1>6, <2>2, SeeDoorbellEffect
    <2>3. QED
      BY <2>1, <2>2
  <1>7. ASSUME NEW r \in Ranks, EndOp(r) PROVE ProxyInv(q)' /\ last[q] <= last'[q]
    <2>1. CASE q = r
      <3>1. /\ px[q] = "post"
            /\ \/ px'[q] = "dead" /\ last'[q] = last[q]
               \/ last'[q] = last[q] + 1 /\ pend'[q] = pend[q] - 1
        BY <1>7, <2>1, EndOpEffect
      <3>2. pend[q] # 0
        BY <3>1, Seqs0
      <3>3. QED
        BY <1>1, <1>2, <3>1, <3>2 DEF ProxyInv
    <2>2. CASE q # r
      BY <1>3, <1>7, <2>2, EndOpEffect
    <2>3. QED
      BY <2>1, <2>2
  <1>8. ASSUME NEW r \in Ranks, Launch(r) PROVE UNCHANGED proxyVars
    BY <1>8 DEF Launch
  <1>9. ASSUME NEW r \in Ranks, NEW b \in Blocks, BlockStep(r, b) PROVE UNCHANGED proxyVars
    BY <1>9, BlockQuiet
  <1>10. ASSUME NEW r \in Ranks, NEW p \in Peers(r), NEW h \in Hcas,
                NicStep(r, p, h) \/ BreakQp(r, p, h)
         PROVE  UNCHANGED proxyVars
    BY <1>10, NicQuiet
  <1>11. ASSUME NEW r \in Ranks, ProxyStep(r) PROVE ProxyInv(q)' /\ last[q] <= last'[q]
    BY <1>5, <1>6, <1>7, <1>11 DEF ProxyStep
  <1>12. CASE UNCHANGED vars
    BY <1>4, <1>12 DEF vars
  <1>13. QED
    BY <1>4, <1>5, <1>8, <1>9, <1>10, <1>11, <1>12 DEF Next, Done

(* A number that a rank's proxy has reached stays reached.                 *)
LEMMA WithinGrows ==
  ASSUME NoWrap, TypeInv, KernelInv, \A r \in Ranks : ProxyInv(r), [Next]_vars,
         NEW r \in Ranks, NEW n \in Nat, Within(r, n)
  PROVE  n <= ctrlSeq'[r] /\ n <= last'[r] + 1
  <1>1. ctrlSeq[r] <= ctrlSeq'[r] /\ last[r] <= last'[r]
    BY DoorbellGrows, NextProxy
  <1>2. TypeInv'
    BY NextTypeInv
  <1>3. ctrlSeq[r] \in Seqs /\ last[r] \in Seqs /\ ctrlSeq'[r] \in Seqs /\ last'[r] \in Seqs
    BY <1>2 DEF TypeInv, TypeOK, RegionType, ProxyType
  <1>4. ctrlSeq[r] \in Nat /\ last[r] \in Nat /\ ctrlSeq'[r] \in Nat /\ last'[r] \in Nat
    BY <1>3, SeqsNat
  <1>5. QED
    BY <1>1, <1>4 DEF Within

(* A rank publishes when it is healthy and a block of it is at the tail.   *)
LEMMA EpochMoves ==
  ASSUME TypeInv, KernelInv, [Next]_vars, NEW q \in Ranks
  PROVE  \/ epoch'[q] = epoch[q]
         \/ /\ Healthy(q) /\ epoch'[q] = epoch[q] + 1
            /\ UNCHANGED <<ctrlSeq, ctrlErr, launches, proxyVars, regionVars, netVars>>
            /\ \A p \in Ranks : p # q => epoch'[p] = epoch[p]
            /\ \E b \in Blocks : /\ pc[q][b] = "tail" /\ reg[q][b] = epoch[q] + 1
                                 /\ Over(q)' = GridOf(q) /\ Past(q)' = Past(q)
  <1>1. ASSUME NEW r \in Ranks, NEW b \in Blocks, Publish(r, b), epoch'[q] # epoch[q]
        PROVE  /\ Healthy(q) /\ epoch'[q] = epoch[q] + 1
               /\ UNCHANGED <<ctrlSeq, ctrlErr, launches, proxyVars, regionVars, netVars>>
               /\ \A p \in Ranks : p # q => epoch'[p] = epoch[p]
               /\ \E a \in Blocks : /\ pc[q][a] = "tail" /\ reg[q][a] = epoch[q] + 1
                                    /\ Over(q)' = GridOf(q) /\ Past(q)' = Past(q)
    <2>1. KernelOf(r)
      BY DEF KernelInv
    <2>2. /\ pc[r][b] = "tail"
          /\ \A p \in Ranks : p # r => epoch'[p] = epoch[p]
          /\ Healthy(r) => epoch'[r] = IF Over(r)' = GridOf(r) THEN epoch[r] + 1 ELSE epoch[r]
          /\ ~Healthy(r) => epoch'[r] = epoch[r]
          /\ UNCHANGED <<launches, proxyVars, regionVars, netVars>>
          /\ Past(r)' = Past(r)
      BY <1>1, <2>1, PublishEffect
    <2>3. q = r
      BY <1>1, <2>2
    <2>4. reg[r][b] = epoch[r] + 1
      BY <2>1, <2>2 DEF KernelOf, LaunchInv, Busy
    <2>5. QED
      BY <1>1, <2>2, <2>3, <2>4 DEF regionVars
  <1>2. ASSUME NEW r \in Ranks, NEW b \in Blocks, BlockStep(r, b) PROVE Publish(r, b) \/ epoch' = epoch
    BY <1>2, BlockQuiet
  <1>3. ASSUME NEW r \in Ranks, NEW p \in Peers(r), NEW h \in Hcas,
               NicStep(r, p, h) \/ BreakQp(r, p, h)
        PROVE  epoch' = epoch
    BY <1>3, NicQuiet DEF gpuVars
  <1>4. ASSUME NEW r \in Ranks, ProxyStep(r) PROVE epoch' = epoch
    BY <1>4, ProxyQuiet DEF gpuVars
  <1>5. ASSUME NEW r \in Ranks, CheckHealth(r) \/ Close(r) \/ Destroy(r) \/ RoceStop(r) \/ RoceStart(r)
        PROVE  epoch' = epoch
    BY <1>5, HostQuiet DEF gpuVars
  <1>6. ASSUME NEW r \in Ranks, Launch(r) PROVE epoch' = epoch
    BY <1>6 DEF Launch
  <1>7. CASE UNCHANGED vars
    BY <1>7 DEF vars, gpuVars
  <1>8. QED
    BY <1>1, <1>2, <1>3, <1>4, <1>5, <1>6, <1>7 DEF Next, Done

(* A block that times out records the sequence number it waited for, which *)
(* is not zero.                                                            *)
LEMMA TimeoutRecords ==
  ASSUME TypeInv, KernelInv, NEW r \in Ranks, NEW b \in Blocks, Timeout(r, b)
  PROVE  ctrlErr'[r] # 0 /\ \A q \in Ranks : q # r => ctrlErr'[q] = ctrlErr[q]
  <1>1. pc[r][b] = "wait" /\ ctrlErr' = [ctrlErr EXCEPT ![r] = reg[r][b]]
    BY DEF Timeout
  <1>2. LaunchInv(r)
    BY DEF KernelInv, KernelOf
  <1>3. reg[r][b] = epoch[r] + 1 /\ epoch[r] \in Nat
    BY <1>1, <1>2, KernelType DEF LaunchInv, Busy
  <1>4. ctrlErr \in [Ranks -> Seqs]
    BY DEF TypeInv, TypeOK, RegionType
  <1>5. ctrlErr'[r] = epoch[r] + 1 /\ \A q \in Ranks : q # r => ctrlErr'[q] = ctrlErr[q]
    BY <1>1, <1>3, <1>4
  <1>6. QED
    BY <1>3, <1>5

(* Only Timeout and Publish write the words that a failure is about.       *)
LEMMA ErrorStays ==
  ASSUME TypeInv, KernelInv, [Next]_vars, NEW q \in Ranks, Healthy(q)'
  PROVE  Healthy(q) /\ ctrlErr'[q] = ctrlErr[q]
  <1>1. ASSUME NEW r \in Ranks, NEW b \in Blocks, BlockStep(r, b) PROVE ctrlErr'[q] = ctrlErr[q]
    <2>1. CASE Timeout(r, b)
      BY <2>1, TimeoutRecords DEF Healthy
    <2>2. QED
      BY <1>1, <2>1, BlockQuiet
  <1>2. ASSUME NEW r \in Ranks, NEW p \in Peers(r), NEW h \in Hcas,
               NicStep(r, p, h) \/ BreakQp(r, p, h)
        PROVE  ctrlErr' = ctrlErr
    BY <1>2, NicQuiet
  <1>3. ASSUME NEW r \in Ranks, ProxyStep(r) PROVE ctrlErr' = ctrlErr
    BY <1>3, ProxyQuiet DEF regionVars
  <1>4. ASSUME NEW r \in Ranks, CheckHealth(r) \/ Close(r) \/ Destroy(r) \/ RoceStop(r) \/ RoceStart(r)
        PROVE  ctrlErr' = ctrlErr
    BY <1>4, HostQuiet DEF regionVars
  <1>5. ASSUME NEW r \in Ranks, Launch(r) PROVE ctrlErr' = ctrlErr
    BY <1>5 DEF Launch, regionVars
  <1>6. ASSUME UNCHANGED vars PROVE ctrlErr' = ctrlErr
    BY <1>6 DEF vars, regionVars
  <1>7. ctrlErr'[q] = ctrlErr[q]
    BY <1>1, <1>2, <1>3, <1>4, <1>5, <1>6 DEF Next, Done
  <1>8. QED
    BY <1>7 DEF Healthy

(* A block behind the barrier of a healthy rank has just seen all flags,   *)
(* has just combined its share, or was there already.                      *)
LEMMA BlockMoves ==
  ASSUME TypeInv, KernelInv, NEW r \in Ranks, NEW b \in Blocks, BlockStep(r, b),
         NEW q \in Ranks, NEW a \in Blocks, Healthy(q)', pc'[q][a] \in {"check", "tail"}
  PROVE  /\ reg'[q][a] = reg[q][a]
         /\ \/ pc'[q][a] = pc[q][a]
            \/ q = r /\ a = b /\ pc[q][a] = "check" /\ pc'[q][a] = "tail" /\ Reduce(q, a)
            \/ q = r /\ a = b /\ pc[q][a] = "wait" /\ pc'[q][a] = "check" /\ WaitDone(q, a)
  <1>1. CASE Start(r, b)
    <2>1. PICK x \in {"stage", "done"} : pc' = [pc EXCEPT ![r][b] = x]
      BY <1>1 DEF Start
    <2>2. reg' = [reg EXCEPT ![r][b] = Succ(epoch[r])] /\ reg \in [Ranks -> [Blocks -> Seqs]]
      BY <1>1 DEF Start, TypeInv, TypeOK, GpuType
    <2>3. (q # r \/ a # b) /\ pc'[q][a] = pc[q][a]
      <3>1. /\ pc'[r][b] = x
            /\ \A c \in Blocks : c # b => pc'[r][c] = pc[r][c]
            /\ \A p \in Ranks : p # r => pc'[p] = pc[p]
        BY <2>1, PcType
      <3>2. QED
        BY <3>1
    <2>4. QED
      BY <2>2, <2>3
  <1>2. CASE Stage(r, b)
    <2>1. pc' = [pc EXCEPT ![r][b] = "wait"] /\ reg' = reg
      BY <1>2 DEF Stage
    <2>2. QED
      BY <2>1, PcType
  <1>3. CASE WaitDone(r, b)
    <2>1. pc[r][b] = "wait" /\ pc' = [pc EXCEPT ![r][b] = "check"] /\ reg' = reg
      BY <1>3 DEF WaitDone
    <2>2. QED
      BY <1>3, <2>1, PcType
  <1>4. CASE Timeout(r, b)
    <2>1. pc' = [pc EXCEPT ![r][b] = "check"] /\ reg' = reg
      BY <1>4 DEF Timeout
    <2>2. q # r
      BY <1>4, TimeoutRecords DEF Healthy
    <2>3. QED
      BY <2>1, <2>2, PcType
  <1>5. CASE Reduce(r, b)
    <2>1. pc[r][b] = "check" /\ pc' = [pc EXCEPT ![r][b] = "tail"] /\ reg' = reg
      BY <1>5 DEF Reduce
    <2>2. QED
      BY <1>5, <2>1, PcType
  <1>6. CASE Publish(r, b)
    <2>1. pc' = [pc EXCEPT ![r][b] = "done"] /\ reg' = reg
      BY <1>6 DEF Publish
    <2>2. QED
      BY <2>1, PcType
  <1>7. QED
    BY <1>1, <1>2, <1>3, <1>4, <1>5, <1>6 DEF BlockStep

(* A block that is past its wait on a rank without failure was there       *)
(* before, or its wait was just satisfied.                                 *)
LEMMA WaitMoves ==
  ASSUME TypeInv, KernelInv, [Next]_vars, NEW q \in Ranks, NEW a \in Blocks,
         Healthy(q)', pc'[q][a] \in {"check", "tail"}
  PROVE  /\ Healthy(q) /\ reg'[q][a] = reg[q][a]
         /\ \/ pc'[q][a] = pc[q][a]
            \/ pc[q][a] = "check" /\ Reduce(q, a)
            \/ pc[q][a] = "wait" /\ pc'[q][a] = "check" /\ WaitDone(q, a)
  <1>1. Healthy(q)
    BY ErrorStays
  <1>2. ASSUME NEW r \in Ranks, NEW b \in Blocks, BlockStep(r, b)
        PROVE  /\ reg'[q][a] = reg[q][a]
               /\ \/ pc'[q][a] = pc[q][a]
                  \/ pc[q][a] = "check" /\ Reduce(q, a)
                  \/ pc[q][a] = "wait" /\ pc'[q][a] = "check" /\ WaitDone(q, a)
    BY <1>2, BlockMoves
  <1>3. ASSUME NEW r \in Ranks, NEW p \in Peers(r), NEW h \in Hcas,
               NicStep(r, p, h) \/ BreakQp(r, p, h)
        PROVE  UNCHANGED <<pc, reg>>
    BY <1>3, NicQuiet DEF gpuVars
  <1>4. ASSUME NEW r \in Ranks, ProxyStep(r) PROVE UNCHANGED <<pc, reg>>
    BY <1>4, ProxyQuiet DEF gpuVars
  <1>5. ASSUME NEW r \in Ranks, CheckHealth(r) \/ Close(r) \/ Destroy(r) \/ RoceStop(r) \/ RoceStart(r)
        PROVE  UNCHANGED <<pc, reg>>
    BY <1>5, HostQuiet DEF gpuVars
  <1>6. ASSUME NEW r \in Ranks, Launch(r) PROVE UNCHANGED <<pc[q], reg>>
    <2>1. pc' = [pc EXCEPT ![r] = [b \in Blocks |->
                   IF b < Grid[launches[r] + 1] THEN "start" ELSE "done"]]
          /\ reg' = reg
      BY <1>6 DEF Launch
    <2>2. pc \in [Ranks -> [Blocks -> {"start", "stage", "wait", "check", "tail", "done"}]]
      BY DEF TypeInv, TypeOK, GpuType
    <2>3. q # r
      BY <2>1, <2>2
    <2>4. QED
      BY <2>1, <2>2, <2>3
  <1>7. ASSUME UNCHANGED vars PROVE UNCHANGED <<pc, reg>>
    BY <1>7 DEF vars, gpuVars
  <1>8. QED
    BY <1>1, <1>2, <1>3, <1>4, <1>5, <1>6, <1>7 DEF Next, Done

(* Replacing one entry of a nested function leaves the others alone.       *)
LEMMA PutOne ==
  ASSUME NEW S, NEW H, NEW f \in [Ranks -> [Ranks -> [H -> S]]],
         NEW r \in Ranks, NEW p \in Ranks, NEW h \in H, NEW x,
         NEW g, g = [f EXCEPT ![r][p][h] = x]
  PROVE  /\ g[r][p][h] = x
         /\ \A q \in Ranks, o \in Ranks, i \in H :
              q # r \/ o # p \/ i # h => g[q][o][i] = f[q][o][i]
  OBVIOUS

(* A write to one flag changes this flag only.                             *)
LEMMA PutTwo ==
  ASSUME NEW S, NEW f \in [Ranks -> [Ranks -> [SlotIds -> [Hcas -> S]]]],
         NEW r \in Ranks, NEW p \in Ranks, NEW s \in SlotIds, NEW h \in Hcas, NEW x,
         NEW g, g = [f EXCEPT ![r][p][s][h] = x]
  PROVE  /\ g[r][p][s][h] = x
         /\ \A q \in Ranks, o \in Ranks, t \in SlotIds, i \in Hcas :
              q # r \/ o # p \/ t # s \/ i # h => g[q][o][t][i] = f[q][o][t][i]
  OBVIOUS

(* The head of a queue is a work request, the first of its list.           *)
LEMMA QueueType ==
  ASSUME TypeInv, NEW r \in Ranks, NEW p \in Ranks, NEW h \in Hcas
  PROVE  /\ wq[r][p][h] \in Seq(Request)
         /\ \A k \in DOMAIN wq[r][p][h] : wq[r][p][h][k] \in Request
         /\ wq[r][p][h] # <<>> => Head(wq[r][p][h]) \in Request /\ 1 \in DOMAIN wq[r][p][h]
                                  /\ Head(wq[r][p][h]) = wq[r][p][h][1]
  <1>1. wq[r][p][h] \in Seq(Request)
    BY DEF TypeInv, TypeOK, NetType
  <1>2. QED
    BY <1>1

(* A NIC takes the first request from the queue and executes it.           *)
First(r, p, h) == wq[r][p][h][1]

(* An HCA takes the first request from its queue and writes either data or *)
(* a flag.                                                                 *)
LEMMA NicEffect ==
  ASSUME TypeInv, NEW r \in Ranks, NEW p \in Peers(r), NEW h \in Hcas, NicStep(r, p, h)
  PROVE  /\ wq[r][p][h] # <<>> /\ First(r, p, h) \in Request
         /\ wq' = [wq EXCEPT ![r][p][h] = Tail(wq[r][p][h])]
         /\ \/ First(r, p, h).kind = "data" /\ flag' = flag /\ PutData(r, p, First(r, p, h))
            \/ First(r, p, h).kind = "flag" /\ recv' = recv /\ PutFlag(r, p, h, First(r, p, h))
  <1> DEFINE w == First(r, p, h)
  <1>1. wq[r][p][h] # <<>>
    BY DEF NicStep, WriteData, WriteFlag
  <1>2. w = Head(wq[r][p][h]) /\ w \in Request
    BY <1>1, QueueType DEF Peers, First
  <1>3. wq' = [wq EXCEPT ![r][p][h] = Tail(wq[r][p][h])]
    BY DEF NicStep, WriteData, WriteFlag, Executed
  <1>4. \/ w.kind = "data" /\ flag' = flag /\ PutData(r, p, w)
        \/ w.kind = "flag" /\ recv' = recv /\ PutFlag(r, p, h, w)
    BY <1>2 DEF NicStep, WriteData, WriteFlag
  <1>5. QED
    BY <1>1, <1>2, <1>3, <1>4

(* A flag changes when the NIC executes the write at the head of a queue.  *)
LEMMA FlagMoves ==
  ASSUME TypeInv, [Next]_vars, NEW r \in Ranks, NEW p \in Peers(r), NEW s \in SlotIds, NEW h \in Hcas
  PROVE  \/ flag'[p][r][s][h] = flag[p][r][s][h]
         \/ /\ NicStep(r, p, h) /\ wq[r][p][h] # <<>> /\ First(r, p, h).kind = "flag"
            /\ s = Slot(First(r, p, h).seq) /\ flag'[p][r][s][h] = First(r, p, h).seq
            /\ recv' = recv
  <1>0. p \in Ranks
    BY DEF Peers
  <1>1. ASSUME NEW q \in Ranks, NEW o \in Peers(q), NEW i \in Hcas, NicStep(q, o, i)
        PROVE  \/ flag'[p][r][s][h] = flag[p][r][s][h]
               \/ /\ NicStep(r, p, h) /\ wq[r][p][h] # <<>> /\ First(r, p, h).kind = "flag"
                  /\ s = Slot(First(r, p, h).seq) /\ flag'[p][r][s][h] = First(r, p, h).seq
                  /\ recv' = recv
    <2> DEFINE w == First(q, o, i)
               t == Slot(w.seq)
    <2>0. o \in Ranks /\ flag \in [Ranks -> [Ranks -> [SlotIds -> [Hcas -> Seqs]]]]
      BY DEF Peers, TypeInv, TypeOK, RegionType
    <2>1. /\ wq[q][o][i] # <<>> /\ w \in Request
          /\ \/ flag' = flag
             \/ w.kind = "flag" /\ recv' = recv /\ PutFlag(q, o, i, w)
      BY <1>1, NicEffect
    <2>2. t \in SlotIds
      BY <2>1, SlotType, SeqsNat DEF Request
    <2>3. CASE w.kind = "flag" /\ recv' = recv /\ PutFlag(q, o, i, w)
      <3>0. flag' = [flag EXCEPT ![o][q][t][i] = w.seq]
        BY <2>3 DEF PutFlag
      <3> HIDE DEF t
      <3>1. /\ flag'[o][q][t][i] = w.seq
            /\ p # o \/ r # q \/ s # t \/ h # i => flag'[p][r][s][h] = flag[p][r][s][h]
        BY <1>0, <2>0, <2>2, <3>0, PutTwo
      <3>2. QED
        BY <1>1, <2>1, <2>3, <3>1 DEF t
    <2>4. QED
      BY <2>1, <2>3
  <1>2. ASSUME NEW q \in Ranks, NEW o \in Peers(q), NEW i \in Hcas, BreakQp(q, o, i)
        PROVE  flag' = flag
    BY <1>2 DEF BreakQp, regionVars
  <1>3. ASSUME NEW q \in Ranks, NEW b \in Blocks, BlockStep(q, b) PROVE flag' = flag
    BY <1>3, BlockQuiet
  <1>4. ASSUME NEW q \in Ranks, ProxyStep(q) PROVE flag' = flag
    BY <1>4, ProxyQuiet DEF regionVars
  <1>5. ASSUME NEW q \in Ranks, CheckHealth(q) \/ Close(q) \/ Destroy(q) \/ RoceStop(q) \/ RoceStart(q)
        PROVE  flag' = flag
    BY <1>5, HostQuiet DEF regionVars
  <1>6. ASSUME NEW q \in Ranks, Launch(q) PROVE flag' = flag
    BY <1>6 DEF Launch, regionVars
  <1>7. ASSUME UNCHANGED vars PROVE flag' = flag
    BY <1>7 DEF vars, regionVars
  <1>8. QED
    BY <1>1, <1>2, <1>3, <1>4, <1>5, <1>6, <1>7 DEF Next, Done

(* What a proxy posts on one connection.                                   *)
Posts(r, h) ==
  LET data == [kind |-> "data", seq |-> Posting(r), packs |-> Stripe(h, nbytes[r])]
      mark == [kind |-> "flag", seq |-> Posting(r), packs |-> {}]
  IN  IF Stripe(h, nbytes[r]) = {} THEN <<mark>> ELSE <<data, mark>>

(* The requests posted for one connection carry the number that is being   *)
(* posted.                                                                 *)
LEMMA PostsType ==
  ASSUME NEW r \in Ranks, NEW h \in Hcas
  PROVE  /\ Len(Posts(r, h)) \in Nat
         /\ Posts(r, h) \in Seq([kind : {"data", "flag"}, seq : {Posting(r)},
                                 packs : {Stripe(h, nbytes[r]), {}}])
         /\ \A j \in 1 .. Len(Posts(r, h)) : Posts(r, h)[j].seq = Posting(r)
  <1> DEFINE packs == Stripe(h, nbytes[r])
             S == [kind : {"data", "flag"}, seq : {Posting(r)}, packs : {packs, {}}]
             data == [kind |-> "data", seq |-> Posting(r), packs |-> packs]
             mark == [kind |-> "flag", seq |-> Posting(r), packs |-> {}]
  <1>1. data \in S /\ mark \in S
    OBVIOUS
  <1>2. Posts(r, h) = <<mark>> \/ Posts(r, h) = <<data, mark>>
    BY DEF Posts
  <1> HIDE DEF S, data, mark
  <1>3. Posts(r, h) \in Seq(S)
    BY <1>1, <1>2, OneOrTwo
  <1>4. \A x \in S : x.seq = Posting(r)
    BY DEF S
  <1>5. Len(Posts(r, h)) \in Nat /\ \A j \in 1 .. Len(Posts(r, h)) : Posts(r, h)[j] \in S
    BY <1>3
  <1>6. \A j \in 1 .. Len(Posts(r, h)) : Posts(r, h)[j].seq = Posting(r)
    BY <1>4, <1>5
  <1>7. QED
    BY <1>3, <1>5, <1>6 DEF S

(* A queue changes when the proxy posts on it, when the NIC executes its   *)
(* first write, and when the connection is gone.                           *)
LEMMA QueueMoves ==
  ASSUME TypeInv, [Next]_vars, NEW r \in Ranks, NEW p \in Peers(r), NEW h \in Hcas
  PROVE  \/ wq'[r][p][h] = wq[r][p][h]
         \/ wq'[r][p][h] = <<>>
         \/ NicStep(r, p, h) /\ wq[r][p][h] # <<>> /\ wq'[r][p][h] = Tail(wq[r][p][h])
         \/ /\ Post(r) /\ p = cursor[r].peer /\ h = cursor[r].hca
            /\ wq'[r][p][h] = wq[r][p][h] \o Posts(r, h)
  <1>0. p \in Ranks /\ wq \in [Ranks -> [Ranks -> [Hcas -> Seq(Request)]]]
    BY DEF Peers, TypeInv, TypeOK, NetType
  <1>1. ASSUME NEW q \in Ranks, NEW o \in Peers(q), NEW i \in Hcas, NicStep(q, o, i)
        PROVE  \/ wq'[r][p][h] = wq[r][p][h]
               \/ NicStep(r, p, h) /\ wq[r][p][h] # <<>> /\ wq'[r][p][h] = Tail(wq[r][p][h])
    <2>0. o \in Ranks
      BY DEF Peers
    <2>1. wq[q][o][i] # <<>> /\ wq' = [wq EXCEPT ![q][o][i] = Tail(wq[q][o][i])]
      BY <1>1, NicEffect
    <2>2. /\ wq'[q][o][i] = Tail(wq[q][o][i])
          /\ r # q \/ p # o \/ h # i => wq'[r][p][h] = wq[r][p][h]
      BY <1>0, <2>0, <2>1
    <2>3. QED
      BY <1>1, <2>1, <2>2
  <1>2. ASSUME NEW q \in Ranks, NEW o \in Peers(q), NEW i \in Hcas, BreakQp(q, o, i)
        PROVE  wq'[r][p][h] = wq[r][p][h] \/ wq'[r][p][h] = <<>>
    <2>1. wq' = [wq EXCEPT ![q][o][i] = <<>>] /\ o \in Ranks
      BY <1>2 DEF BreakQp, Peers
    <2>2. /\ wq'[q][o][i] = <<>>
          /\ r # q \/ p # o \/ h # i => wq'[r][p][h] = wq[r][p][h]
      BY <1>0, <2>1
    <2>3. QED
      BY <2>2
  <1>3. ASSUME NEW q \in Ranks, Post(q)
        PROVE  \/ wq'[r][p][h] = wq[r][p][h]
               \/ /\ Post(r) /\ p = cursor[r].peer /\ h = cursor[r].hca
                  /\ wq'[r][p][h] = wq[r][p][h] \o Posts(r, h)
    <2> DEFINE o == cursor[q].peer
               i == cursor[q].hca
    <2>1. \/ wq' = wq
          \/ wq' = [wq EXCEPT ![q][o][i] = wq[q][o][i] \o Posts(q, i)]
      BY <1>3 DEF Post, Posts
    <2>2. o \in Ranks /\ i \in Hcas
      <3>1. cursor[q] \in [peer : 0 .. World, hca : Hcas]
        BY DEF TypeInv, TypeOK, ProxyType
      <3>2. cursor[q].peer < World
        BY <1>3 DEF Post
      <3>3. QED
        BY <3>1, <3>2, Constants DEF Ranks
    <2> DEFINE x == wq[q][o][i] \o Posts(q, i)
    <2> HIDE DEF o, i, x
    <2>3. CASE wq' = [wq EXCEPT ![q][o][i] = x]
      <3>1. /\ wq'[q][o][i] = x
            /\ r # q \/ p # o \/ h # i => wq'[r][p][h] = wq[r][p][h]
        BY <1>0, <2>2, <2>3
      <3>2. QED
        BY <1>3, <3>1 DEF o, i, x
    <2>4. QED
      BY <2>1, <2>3 DEF x
  <1>4. ASSUME NEW q \in Ranks, PostFails(q) \/ SeeDoorbell(q) \/ EndOp(q) \/ ThreadExit(q)
                                \/ \E i \in Hcas : DrainFails(q, i)
        PROVE  wq' = wq
    BY <1>4 DEF PostFails, SeeDoorbell, EndOp, ThreadExit, DrainFails, netVars
  <1>5. ASSUME NEW q \in Ranks, Destroy(q)
        PROVE  wq'[r][p][h] = wq[r][p][h] \/ wq'[r][p][h] = <<>>
    BY <1>0, <1>5 DEF Destroy
  <1>6. ASSUME NEW q \in Ranks, Launch(q) \/ CheckHealth(q) \/ Close(q) \/ RoceStop(q) \/ RoceStart(q)
        PROVE  wq' = wq
    BY <1>6 DEF Launch, CheckHealth, Close, RoceStop, RoceStart, netVars
  <1>7. ASSUME NEW q \in Ranks, NEW b \in Blocks, BlockStep(q, b) PROVE wq' = wq
    BY <1>7, BlockQuiet DEF netVars
  <1>8. ASSUME UNCHANGED vars PROVE wq' = wq
    BY <1>8 DEF vars, netVars
  <1>9. QED
    BY <1>1, <1>2, <1>3, <1>4, <1>5, <1>6, <1>7, <1>8 DEF Next, Done, ProxyStep

(* A request in the queue was there before, or is the one being posted.    *)
LEMMA EntryMoves ==
  ASSUME TypeInv, [Next]_vars, NEW r \in Ranks, NEW p \in Peers(r), NEW h \in Hcas,
         NEW k \in DOMAIN wq'[r][p][h]
  PROVE  \/ \E j \in DOMAIN wq[r][p][h] : wq'[r][p][h][k] = wq[r][p][h][j]
         \/ /\ Post(r) /\ p = cursor[r].peer /\ h = cursor[r].hca
            /\ wq'[r][p][h][k].seq = Posting(r)
  <1> DEFINE old == wq[r][p][h]
             new == wq'[r][p][h]
             add == Posts(r, h)
  <1>1. old \in Seq(Request)
    BY QueueType DEF Peers
  <1>2. Len(add) \in Nat /\ add \in Seq([kind : {"data", "flag"}, seq : {Posting(r)}, packs : {Stripe(h, nbytes[r]), {}}])
        /\ \A j \in 1 .. Len(add) : add[j].seq = Posting(r)
    BY PostsType
  <1>3. \/ new = old
        \/ new = <<>>
        \/ old # <<>> /\ new = Tail(old)
        \/ Post(r) /\ p = cursor[r].peer /\ h = cursor[r].hca /\ new = old \o add
    BY QueueMoves
  <1>4. k \in DOMAIN new
    OBVIOUS
  <1> SUFFICES \/ \E j \in DOMAIN old : new[k] = old[j]
               \/ Post(r) /\ p = cursor[r].peer /\ h = cursor[r].hca /\ new[k].seq = Posting(r)
    OBVIOUS
  <1> HIDE DEF old, new, add
  <1>5. CASE new = old
    BY <1>4, <1>5
  <1>6. CASE new = <<>>
    BY <1>4, <1>6
  <1>7. CASE old # <<>> /\ new = Tail(old)
    <2>1. Len(new) = Len(old) - 1 /\ k \in 1 .. Len(new) /\ new[k] = old[k + 1]
      BY <1>1, <1>4, <1>7
    <2>2. k + 1 \in DOMAIN old
      BY <1>1, <2>1
    <2>3. QED
      BY <2>1, <2>2
  <1>8. CASE Post(r) /\ p = cursor[r].peer /\ h = cursor[r].hca /\ new = old \o add
    <2>1. k \in 1 .. Len(old) + Len(add)
      BY <1>1, <1>2, <1>4, <1>8
    <2>2. CASE k <= Len(old)
      BY <1>1, <1>2, <1>8, <2>1, <2>2
    <2>3. CASE k > Len(old)
      <3>1. k - Len(old) \in 1 .. Len(add) /\ new[k] = add[k - Len(old)]
        BY <1>1, <1>2, <1>8, <2>1, <2>3
      <3>2. add[k - Len(old)].seq = Posting(r)
        BY <1>2, <3>1
      <3>3. QED
        BY <1>8, <3>1, <3>2
    <2>4. QED
      BY <1>1, <2>1, <2>2, <2>3
  <1>9. QED
    BY <1>3, <1>5, <1>6, <1>7, <1>8

-----------------------------------------------------------------------------
(* No rank gets ahead of what its peers have sent.                         *)
OrderInv == TypeInv /\ KernelInv /\ NetInv

(* An epoch that a rank has published stays covered by what its peers have *)
(* posted.                                                                 *)
LEMMA EpochSentMoves ==
  ASSUME NoWrap, OrderInv, [Next]_vars, NEW r \in Ranks, NEW p \in Peers(r)
  PROVE  EpochSent(r, p)'
  <1>1. TypeInv /\ KernelInv /\ p \in Ranks /\ (\A q \in Ranks : ProxyInv(q)) /\ SentInv(r, p)
    BY DEF OrderInv, NetInv, Peers
  <1>2. epoch[p] \in Nat
    BY <1>1, KernelType
  <1>3. CASE epoch'[p] = epoch[p]
    <2>1. epoch[p] <= ctrlSeq'[r] /\ epoch[p] <= last'[r] + 1
      BY <1>1, <1>2, WithinGrows DEF SentInv, EpochSent
    <2>2. QED
      BY <1>3, <2>1 DEF EpochSent, Within
  <1>4. CASE epoch'[p] # epoch[p]
    <2>1. PICK b \in Blocks : /\ Healthy(p) /\ epoch'[p] = epoch[p] + 1
                              /\ pc[p][b] = "tail" /\ reg[p][b] = epoch[p] + 1
      BY <1>1, <1>4, EpochMoves
    <2>2. Within(r, epoch[p] + 1)
      BY <1>1, <2>1 DEF SentInv, WaitedSent
    <2>3. epoch[p] + 1 \in Nat
      BY <1>2
    <2>4. epoch[p] + 1 <= ctrlSeq'[r] /\ epoch[p] + 1 <= last'[r] + 1
      BY <1>1, <2>3, <2>2, WithinGrows
    <2>5. QED
      BY <2>1, <2>4 DEF EpochSent, Within
  <1>5. QED
    BY <1>3, <1>4

(* The number that a block waited for stays so covered.                    *)
LEMMA WaitedSentMoves ==
  ASSUME NoWrap, OrderInv, [Next]_vars, NEW r \in Ranks, NEW p \in Peers(r)
  PROVE  WaitedSent(r, p)'
  <1>1. TypeInv /\ KernelInv /\ p \in Ranks /\ (\A q \in Ranks : ProxyInv(q)) /\ SentInv(r, p)
    BY DEF OrderInv, NetInv, Peers
  <1>2. ASSUME NEW b \in Blocks, Healthy(p)', pc'[p][b] \in {"check", "tail"}
        PROVE  Within(r, reg[p][b])' 
    <2>1. reg[p][b] \in Nat
      BY <1>1, KernelType
    <2>2. /\ Healthy(p) /\ reg'[p][b] = reg[p][b]
          /\ \/ pc'[p][b] = pc[p][b]
             \/ pc[p][b] = "check" /\ Reduce(p, b)
             \/ pc[p][b] = "wait" /\ pc'[p][b] = "check" /\ WaitDone(p, b)
      BY <1>1, <1>2, WaitMoves
    <2>3. CASE pc[p][b] \in {"check", "tail"}
      <3>1. Within(r, reg[p][b])
        BY <1>1, <2>2, <2>3 DEF SentInv, WaitedSent
      <3>2. QED
        BY <1>1, <2>1, <2>2, <3>1, WithinGrows DEF Within
    <2>4. CASE WaitDone(p, b)
      <3>1. r \in Peers(p) /\ 0 \in Hcas
        BY Constants DEF Peers, Hcas
      <3>2. flag[p][r][Slot(reg[p][b])][0] = reg[p][b]
        BY <2>4, <3>1 DEF WaitDone, Arrived
      <3>3. Slot(reg[p][b]) \in SlotIds
        BY <2>1, SlotType
      <3>4. Within(r, reg[p][b])
        BY <1>1, <3>1, <3>2, <3>3 DEF SentInv, FlagsSent
      <3>5. QED
        BY <1>1, <2>1, <2>2, <3>4, WithinGrows DEF Within
    <2>5. QED
      BY <1>2, <2>2, <2>3, <2>4
  <1>3. QED
    BY <1>2 DEF WaitedSent

(* Every flag in a rank's memory stays so covered.                         *)
LEMMA FlagsSentMoves ==
  ASSUME NoWrap, OrderInv, [Next]_vars, NEW r \in Ranks, NEW p \in Peers(r)
  PROVE  FlagsSent(r, p)'
  <1>1. TypeInv /\ KernelInv /\ p \in Ranks /\ (\A q \in Ranks : ProxyInv(q)) /\ SentInv(r, p)
    BY DEF OrderInv, NetInv, Peers
  <1>2. ASSUME NEW s \in SlotIds, NEW h \in Hcas PROVE Within(r, flag[p][r][s][h])'
    <2>1. flag[p][r][s][h] \in Nat
      BY <1>1, Seqs0
    <2>2. CASE flag'[p][r][s][h] = flag[p][r][s][h]
      <3>1. Within(r, flag[p][r][s][h])
        BY <1>1 DEF SentInv, FlagsSent
      <3>2. QED
        BY <1>1, <2>1, <2>2, <3>1, WithinGrows DEF Within
    <2>3. CASE wq[r][p][h] # <<>> /\ flag'[p][r][s][h] = First(r, p, h).seq
      <3>1. 1 \in DOMAIN wq[r][p][h]
        BY <1>1, <2>3, QueueType
      <3>2. Within(r, First(r, p, h).seq) /\ First(r, p, h).seq \in Nat
        BY <1>1, <3>1, Seqs0 DEF SentInv, QueuedSent, First
      <3>3. QED
        BY <1>1, <2>3, <3>2, WithinGrows DEF Within
    <2>4. QED
      BY <1>1, <2>2, <2>3, FlagMoves
  <1>3. QED
    BY <1>2 DEF FlagsSent

(* Every request in a queue stays so covered.                              *)
LEMMA QueuedSentMoves ==
  ASSUME NoWrap, OrderInv, [Next]_vars, NEW r \in Ranks, NEW p \in Peers(r)
  PROVE  QueuedSent(r, p)'
  <1>1. TypeInv /\ KernelInv /\ p \in Ranks /\ (\A q \in Ranks : ProxyInv(q)) /\ SentInv(r, p)
    BY DEF OrderInv, NetInv, Peers
  <1>2. ASSUME NEW h \in Hcas, NEW k \in DOMAIN wq'[r][p][h]
        PROVE  wq'[r][p][h][k].seq # 0 /\ Within(r, wq[r][p][h][k].seq)'
    <2>1. CASE \E j \in DOMAIN wq[r][p][h] : wq'[r][p][h][k] = wq[r][p][h][j]
      <3>1. PICK j \in DOMAIN wq[r][p][h] : wq'[r][p][h][k] = wq[r][p][h][j]
        BY <2>1
      <3>2. /\ wq[r][p][h][j].seq # 0 /\ wq[r][p][h][j].seq \in Nat
            /\ Within(r, wq[r][p][h][j].seq)
        BY <1>1, Seqs0 DEF SentInv, QueuedSent
      <3>3. QED
        BY <1>1, <3>1, <3>2, WithinGrows DEF Within
    <2>2. CASE Post(r) /\ wq'[r][p][h][k].seq = Posting(r)
      <3>1. Posting(r) = last[r] + 1 /\ last[r] \in Nat
        BY <1>1, PostingIs, Seqs0
      <3>2. px[r] = "post"
        BY <2>2 DEF Post
      <3>3. last[r] + pend[r] <= ctrlSeq[r] /\ pend[r] \in 0 .. 2 /\ pend[r] # 0 /\ ctrlSeq[r] \in Nat
        BY <1>1, <3>2, Seqs0, KernelType DEF ProxyInv, SLOTS
      <3>4. Within(r, last[r] + 1) /\ last[r] + 1 \in Nat /\ last[r] + 1 # 0
        BY <3>1, <3>3 DEF Within
      <3>5. QED
        BY <1>1, <2>2, <3>1, <3>4, WithinGrows DEF Within
    <2>3. QED
      BY <1>1, <2>1, <2>2, EntryMoves
  <1>3. QED
    BY <1>2 DEF QueuedSent

(* The order between ranks holds in the initial state.                     *)
LEMMA InitOrder == ASSUME Init PROVE OrderInv
  <1>1. TypeInv /\ KernelInv
    BY InitTypeInv, InitKernel
  <1>2. \A r \in Ranks : ProxyInv(r)
    BY DEF Init, ProxyInv
  <1>3. ASSUME NEW r \in Ranks, NEW p \in Peers(r) PROVE SentInv(r, p)
    BY <1>3 DEF Peers, Init, SentInv, EpochSent, WaitedSent, FlagsSent, QueuedSent, Within
  <1>4. QED
    BY <1>1, <1>2, <1>3 DEF OrderInv, NetInv

(* Every step keeps the order, below the wrap.                             *)
LEMMA NextOrder == ASSUME NoWrap, OrderInv, [Next]_vars PROVE OrderInv'
  <1>1. TypeInv /\ KernelInv /\ \A q \in Ranks : ProxyInv(q)
    BY DEF OrderInv, NetInv
  <1>2. TypeInv' /\ KernelInv'
    BY <1>1, NextTypeInv, NextKernel
  <1>3. ASSUME NEW r \in Ranks PROVE ProxyInv(r)'
    BY <1>1, NextProxy
  <1>4. ASSUME NEW r \in Ranks, NEW p \in Peers(r) PROVE SentInv(r, p)'
    BY EpochSentMoves, WaitedSentMoves, FlagsSentMoves, QueuedSentMoves DEF SentInv
  <1>5. \A r \in Ranks : \A p \in Peers(r) : SentInv(r, p)'
    BY <1>4
  <1>6. NetInv'
    BY <1>3, <1>5 DEF NetInv, Peers
  <1>7. QED
    BY <1>2, <1>6 DEF OrderInv

(* The order always holds.                                                 *)
LEMMA OrderAlways == ASSUME NoWrap PROVE Spec => []OrderInv
  <1>1. Init => OrderInv
    BY InitOrder
  <1>2. OrderInv /\ [Next]_vars => OrderInv'
    BY NextOrder
  <1>3. QED
    BY <1>1, <1>2, PTL DEF Spec

(* The order contains the lockstep of the ranks: this is the conjunct that *)
(* was to be shown.                                                        *)
LEMMA OrderLockstep == ASSUME NoWrap, OrderInv PROVE Lockstep
  <1> SUFFICES ASSUME NEW r \in Ranks, NEW p \in Ranks
               PROVE  \/ epoch[p] \in {epoch[r], Succ(epoch[r])}
                      \/ epoch[r] = Succ(epoch[p])
    BY DEF Lockstep
  <1>1. TypeInv /\ KernelInv
    BY DEF OrderInv
  <1>2. /\ epoch[r] \in 0 .. MaxOps /\ ctrlSeq[r] <= epoch[r] + 1
        /\ epoch[p] \in 0 .. MaxOps /\ ctrlSeq[p] <= epoch[p] + 1
        /\ ctrlSeq[r] \in 0 .. MaxOps /\ ctrlSeq[p] \in 0 .. MaxOps
    BY <1>1, SeqBound
  <1>3. Succ(epoch[r]) = epoch[r] + 1 /\ Succ(epoch[p]) = epoch[p] + 1
    BY <1>2, SuccIs
  <1>4. p # r => epoch[p] <= ctrlSeq[r] /\ epoch[r] <= ctrlSeq[p]
    BY DEF OrderInv, NetInv, SentInv, EpochSent, Within, Peers
  <1>5. QED
    BY <1>2, <1>3, <1>4, Constants

(* On every schedule, and whatever breaks or times out, a rank is at most  *)
(* one published collective ahead of another.                              *)
THEOREM NeverTwoAhead == ASSUME NoWrap PROVE Spec => []Lockstep
  <1>1. OrderInv => Lockstep
    BY OrderLockstep
  <1>2. QED
    BY <1>1, OrderAlways, PTL

(* A rank that has recorded a time-out never publishes again, and keeps    *)
(* the record: the second half of the fail-stop protocol of the kernels.   *)
THEOREM TimeoutIsFinal == ASSUME NoWrap PROVE Spec => FailStop
  <1>1. ASSUME OrderInv, [Next]_vars, NEW r \in Ranks, ctrlErr[r] # 0
        PROVE  epoch'[r] = epoch[r] /\ ctrlErr'[r] # 0
    <2>1. TypeInv /\ KernelInv
      BY <1>1 DEF OrderInv
    <2>2. ~Healthy(r)
      BY <1>1 DEF Healthy
    <2>3. epoch'[r] = epoch[r]
      BY <1>1, <2>1, <2>2, EpochMoves
    <2>4. ~Healthy(r)'
      BY <1>1, <2>1, <2>2, ErrorStays
    <2>5. QED
      BY <2>3, <2>4 DEF Healthy
  <1>2. OrderInv /\ [Next]_vars
          => [\A r \in Ranks : ctrlErr[r] # 0 => epoch'[r] = epoch[r] /\ ctrlErr'[r] # 0]_vars
    BY <1>1
  <1>3. QED
    BY <1>2, OrderAlways, PTL DEF Spec, FailStop

-----------------------------------------------------------------------------
(* The detailed specification implements the abstract collective.          *)

(* The step that rings a doorbell is the contribution of its rank to the   *)
(* abstract collective.                                                    *)
LEMMA StageContributes ==
  ASSUME OrderInv, NEW r \in Ranks, NEW b \in Blocks, Stage(r, b)
  PROVE  UNCHANGED <<ctrlSeq, epoch>> \/ Promise!Contribute(r)
  <1>1. TypeInv /\ KernelInv /\ KernelOf(r)
    BY DEF OrderInv, KernelInv
  <1>2. /\ pc[r][b] = "stage" /\ epoch' = epoch
        /\ ctrlSeq' = ctrlSeq \/ ctrlSeq' = [ctrlSeq EXCEPT ![r] = epoch[r] + 1]
    BY <1>1, StageEffect
  <1>3. Staging(r) /\ ctrlSeq[r] = epoch[r]
    BY <1>1, <1>2 DEF Staging, KernelOf, DoorbellInv
  <1>4. epoch[r] < launches[r] /\ launches[r] \in 0 .. MaxOps /\ epoch[r] \in Nat /\ MaxOps \in Nat
    BY <1>1, <1>2, Working, KernelType, Constants DEF KernelOf
  <1>5. epoch[r] < MaxOps
    BY <1>4
  <1>6. QED
    BY <1>2, <1>3, <1>5 DEF Promise!Contribute

(* The step that publishes an epoch is the completion of the abstract      *)
(* collective at its rank.                                                 *)
LEMMA PublishCompletes ==
  ASSUME NoWrap, OrderInv, [Next]_vars, NEW q \in Ranks, epoch'[q] # epoch[q]
  PROVE  Promise!Complete(q)
  <1>1. TypeInv /\ KernelInv /\ NetInv
    BY DEF OrderInv
  <1>2. PICK b \in Blocks : /\ epoch'[q] = epoch[q] + 1
                            /\ UNCHANGED ctrlSeq
                            /\ \A p \in Ranks : p # q => epoch'[p] = epoch[p]
                            /\ Healthy(q) /\ pc[q][b] = "tail" /\ reg[q][b] = epoch[q] + 1
    BY <1>1, EpochMoves
  <1>3. TypeInv' /\ KernelInv'
    BY <1>1, NextTypeInv, NextKernel
  <1>4. epoch \in [Ranks -> Seqs] /\ epoch' \in [Ranks -> Seqs]
    BY <1>1, <1>3 DEF TypeInv, TypeOK, GpuType
  <1>5. epoch' = [epoch EXCEPT ![q] = @ + 1]
    BY <1>2, <1>4
  <1>6. epoch[q] \in Nat /\ \A p \in Ranks : ctrlSeq[p] \in Nat
    BY <1>1, KernelType
  <1>7. ctrlSeq[q] > epoch[q]
    <2>1. ctrlSeq[q] \in {epoch[q], epoch[q] + 1}
      BY <1>1 DEF KernelInv, KernelOf, DoorbellInv
    <2>2. DoorbellInv(q)'
      BY <1>3 DEF KernelInv, KernelOf
    <2>3. ctrlSeq[q] \in {epoch[q] + 1, epoch[q] + 1 + 1}
      BY <1>2, <2>2 DEF DoorbellInv
    <2>4. QED
      BY <1>6, <2>1, <2>3
  <1>8. ASSUME NEW p \in Ranks PROVE ctrlSeq[p] > epoch[q]
    <2>1. CASE p = q
      BY <1>7, <2>1
    <2>2. CASE p # q
      <3>1. Within(p, reg[q][b])
        BY <1>1, <1>2, <2>2 DEF NetInv, SentInv, WaitedSent, Peers
      <3>2. QED
        BY <1>2, <1>6, <3>1 DEF Within
    <2>3. QED
      BY <2>1, <2>2
  <1>9. QED
    BY <1>2, <1>5, <1>6, <1>7, <1>8 DEF Promise!Complete

(* Every step is a contribution, a completion or a stutter of the abstract *)
(* collective.                                                             *)
LEMMA StepImplements ==
  ASSUME NoWrap, OrderInv, [Next]_vars
  PROVE  [Promise!Next]_<<ctrlSeq, epoch>>
  <1>1. TypeInv /\ KernelInv
    BY DEF OrderInv
  <1>2. CASE \E q \in Ranks : epoch'[q] # epoch[q]
    BY <1>2, PublishCompletes DEF Promise!Next
  <1>3. CASE \A q \in Ranks : epoch'[q] = epoch[q]
    <2>0. epoch' = epoch
      <3>1. TypeInv'
        BY <1>1, NextTypeInv
      <3>2. epoch \in [Ranks -> Seqs] /\ epoch' \in [Ranks -> Seqs]
        BY <1>1, <3>1 DEF TypeInv, TypeOK, GpuType
      <3>3. QED
        BY <1>3, <3>2
    <2>1. ASSUME NEW r \in Ranks, NEW b \in Blocks, BlockStep(r, b)
          PROVE  ctrlSeq' = ctrlSeq \/ Promise!Contribute(r)
      BY <2>1, StageContributes, BlockQuiet
    <2>2. ASSUME NEW r \in Ranks, NEW p \in Peers(r), NEW h \in Hcas,
                 NicStep(r, p, h) \/ BreakQp(r, p, h)
          PROVE  ctrlSeq' = ctrlSeq
      BY <2>2, NicQuiet
    <2>3. ASSUME NEW r \in Ranks, ProxyStep(r) PROVE ctrlSeq' = ctrlSeq
      BY <2>3, ProxyQuiet DEF regionVars
    <2>4. ASSUME NEW r \in Ranks,
                 CheckHealth(r) \/ Close(r) \/ Destroy(r) \/ RoceStop(r) \/ RoceStart(r)
          PROVE  ctrlSeq' = ctrlSeq
      BY <2>4, HostQuiet DEF regionVars
    <2>5. ASSUME NEW r \in Ranks, Launch(r) PROVE ctrlSeq' = ctrlSeq
      BY <2>5 DEF Launch, regionVars
    <2>6. ASSUME UNCHANGED vars PROVE ctrlSeq' = ctrlSeq
      BY <2>6 DEF vars, regionVars
    <2>7. ctrlSeq' = ctrlSeq \/ \E r \in Ranks : Promise!Contribute(r)
      BY <2>1, <2>2, <2>3, <2>4, <2>5, <2>6 DEF Next, Done
    <2>8. QED
      BY <2>0, <2>7 DEF Promise!Next
  <1>4. QED
    BY <1>2, <1>3

(* The kernels, proxies and NICs implement the abstract collective: a rank *)
(* publishes a collective only when every rank has rung its doorbell for   *)
(* it, and rings for the next one only after it has published.             *)
THEOREM ImplementsCollective == ASSUME NoWrap PROVE Spec => Implements
  <1>1. Init => Promise!Init
    BY DEF Init, Promise!Init
  <1>2. OrderInv /\ [Next]_vars => [Promise!Next]_(Promise!vars)
    BY StepImplements DEF Promise!vars
  <1>3. QED
    BY <1>1, <1>2, OrderAlways, PTL DEF Spec, Implements, Promise!Spec
=============================================================================
