--------------------------- MODULE RoceHostProofs ---------------------------
(***************************************************************************)
(* Proofs about the host's side of RoCEnante.  RoceSetup, for every number *)
(* of ranks: they agree on the route, whoever fails or is killed at        *)
(* whatever step.  RoceStreams, for any number of streams, launches and    *)
(* captures: launches run in order and keep out of each other's buffers.   *)
(***************************************************************************)
EXTENDS RoceSetup, RoceStreams, SequenceTheorems, FiniteSetTheorems, WellFoundedInduction, TLAPS

-----------------------------------------------------------------------------
(* The start-up.                                                           *)

(* Where a rank stands tells how many gathers it has entered; one that is  *)
(* in the last gather early has reported an error.                         *)
Positions ==
  \A r \in Ranks :
    /\ pc[r] = "check" => Len(sent[r]) = 0
    /\ pc[r] \in {"vote", "construct"} => Len(sent[r]) = 1
    /\ pc[r] \in {"exchange", "connect"} => Len(sent[r]) = 2
    /\ pc[r] \in {"verdicts", "prepare"} => Len(sent[r]) = 3
    /\ pc[r] = "agree" => Len(sent[r]) \in 2 .. 4
    /\ pc[r] = "agree" /\ Len(sent[r]) < 4 => sent[r][Len(sent[r])].bad = TRUE

(* What a rank's proxy is, where it matters.                               *)
Proxies ==
  \A r \in Ranks :
    /\ pc[r] \in {"check", "vote", "construct", "nccl"} => proxy[r] = "none"
    /\ pc[r] = "verdicts" /\ sent[r][3].bad = FALSE => proxy[r] = "running"
    /\ pc[r] = "prepare" => proxy[r] = "running"
    /\ pc[r] = "agree" /\ Len(sent[r]) = 4 /\ sent[r][4].bad = FALSE => proxy[r] = "running"
    /\ pc[r] = "ready" => proxy[r] = "running"

(* Rank p gave an error, or what reads as one, to its k-th gather.         *)
BadAt(p, k) == k \in 1 .. Len(sent[p]) /\ (sent[p][k].bad = TRUE \/ sent[p][k].site = "exchange")

(* Rank q stopped at the vote, or at a gather with an error in it.         *)
Refused(q) == Len(sent[q]) = 1 \/ \E p \in Ranks : BadAt(p, Len(sent[q]))

ReadyAgreed ==
  \A r \in Ranks : pc[r] = "ready" => \A p \in Ranks : Len(sent[p]) = 4 /\ ~BadAt(p, 4)
NcclRefused == \A r \in Ranks : pc[r] = "nccl" => Refused(r)
RaisedRefused ==
  crashes = 0 =>
    \A r \in Ranks : pc[r] = "raised" => \E q \in Ranks : pc[q] \in {"nccl", "raised"} /\ Refused(q)
CrashCounted == \A r \in Ranks : pc[r] = "crashed" => crashes > 0

IInv == /\ TypeOK /\ Positions /\ Proxies
        /\ ReadyAgreed /\ NcclRefused /\ RaisedRefused /\ CrashCounted

-----------------------------------------------------------------------------
Data == Limits \cup Configs \cup {NoData}
Places == Gathers \cup Settled \cup {"check", "construct", "connect", "prepare"}

(* Entering a gather: the place of r changes and its sequence grows by one *)
(* value (all_gather_object of adapter.py and roce_oneshot.py).            *)
LEMMA EnterFacts ==
  ASSUME TypeOK, NEW r \in Ranks, NEW site \in Gathers, NEW bad \in BOOLEAN, NEW data \in Data,
         Enter(r, site, bad, data)
  PROVE  /\ pc' \in [Ranks -> Places]
         /\ \A p \in Ranks : pc'[p] = IF p = r THEN site ELSE pc[p]
         /\ sent' \in [Ranks -> Seq(Values)]
         /\ \A p \in Ranks : Len(sent'[p]) = IF p = r THEN Len(sent[p]) + 1 ELSE Len(sent[p])
         /\ \A p \in Ranks : \A k \in 1 .. Len(sent[p]) : sent'[p][k] = sent[p][k]
         /\ sent'[r][Len(sent[r]) + 1].bad = bad
         /\ sent'[r][Len(sent[r]) + 1].site = site
<1> DEFINE v == [site |-> site, bad |-> bad, data |-> data]
<1>1. v \in Values
  BY DEF Values, Data
<1>2. pc \in [Ranks -> Places] /\ sent \in [Ranks -> Seq(Values)]
  BY DEF TypeOK, Places
<1>3. pc' = [pc EXCEPT ![r] = site] /\ sent' = [sent EXCEPT ![r] = Append(sent[r], v)]
  BY DEF Enter
<1>4. pc' \in [Ranks -> Places] /\ \A p \in Ranks : pc'[p] = IF p = r THEN site ELSE pc[p]
  BY <1>2, <1>3 DEF Places
<1>5. v.bad = bad /\ v.site = site
  OBVIOUS
<1> HIDE DEF v
<1>6. sent[r] \in Seq(Values)
  BY <1>2
<1>7. /\ Append(sent[r], v) \in Seq(Values)
      /\ Len(Append(sent[r], v)) = Len(sent[r]) + 1
      /\ Append(sent[r], v)[Len(sent[r]) + 1] = v
      /\ \A k \in 1 .. Len(sent[r]) : Append(sent[r], v)[k] = sent[r][k]
  BY <1>1, <1>6
<1>8. \A p \in Ranks : sent'[p] = IF p = r THEN Append(sent[r], v) ELSE sent[p]
  BY <1>2, <1>3
<1>9. sent' \in [Ranks -> Seq(Values)]
  BY <1>2, <1>3, <1>7
<1> QED
  BY <1>4, <1>5, <1>7, <1>8, <1>9

(* No rank makes more than four gathers.                                   *)
LEMMA LengthType ==
  ASSUME TypeOK PROVE \A p \in Ranks : Len(sent[p]) \in 0 .. 4
<1> TAKE p \in Ranks
<1>1. sent[p] \in Seq(Values) /\ Len(sent[p]) <= 4
  BY DEF TypeOK
<1>2. Len(sent[p]) \in Nat
  BY <1>1, LenProperties
<1>3. \A n \in Nat : n <= 4 => n \in 0 .. 4
  OBVIOUS
<1> QED
  BY <1>1, <1>2, <1>3, Zenon

(* A step that enters a gather keeps the invariant, if the gather follows  *)
(* the ones that the rank has made and the proxy is as its report says.    *)
LEMMA EnterKeeps ==
  ASSUME IInv, NEW r \in Ranks, NEW site \in Gathers, NEW bad \in BOOLEAN, NEW data \in Data,
         Enter(r, site, bad, data),
         pc[r] \notin Settled,
         site = "vote" => Len(sent[r]) = 0,
         site = "exchange" => Len(sent[r]) = 1,
         site = "verdicts" => Len(sent[r]) = 2,
         site = "agree" => Len(sent[r]) \in 1 .. 3,
         site = "agree" /\ Len(sent[r]) < 3 => bad = TRUE,
         crashes' = crashes,
         proxy' \in [Ranks -> {"none", "created", "running"}],
         \A p \in Ranks \ {r} : proxy'[p] = proxy[p],
         site = "vote" => proxy'[r] = "none",
         site \in {"verdicts", "agree"} /\ bad = FALSE => proxy'[r] = "running"
  PROVE  IInv'
<1>1. TypeOK /\ Positions /\ Proxies /\ ReadyAgreed /\ NcclRefused /\ RaisedRefused /\ CrashCounted
  BY DEF IInv
<1>2. /\ pc' \in [Ranks -> Places]
      /\ \A p \in Ranks : pc'[p] = IF p = r THEN site ELSE pc[p]
      /\ sent' \in [Ranks -> Seq(Values)]
      /\ \A p \in Ranks : Len(sent'[p]) = IF p = r THEN Len(sent[p]) + 1 ELSE Len(sent[p])
      /\ \A p \in Ranks : \A k \in 1 .. Len(sent[p]) : sent'[p][k] = sent[p][k]
      /\ sent'[r][Len(sent[r]) + 1].bad = bad
      /\ sent'[r][Len(sent[r]) + 1].site = site
  BY <1>1, EnterFacts
<1>3. \A p \in Ranks : Len(sent[p]) \in 0 .. 4
  BY <1>1, LengthType
<1>4. Len(sent[r]) \in 0 .. 3 /\ site \in {"vote", "exchange", "verdicts", "agree"}
  BY <1>3 DEF Gathers
<1>5. TypeOK'
  <2>1. /\ \A n \in 0 .. 3 : n + 1 <= 4
        /\ \A n \in 0 .. 4 : n <= 4
    OBVIOUS
  <2>2. Len(sent'[r]) <= 4
    BY <1>2, <1>4, <2>1, Zenon
  <2>3. \A p \in Ranks \ {r} : Len(sent'[p]) <= 4
    BY <1>2, <1>3, <2>1, Zenon
  <2>4. \A p \in Ranks : Len(sent'[p]) <= 4
    BY <2>2, <2>3, Zenon
  <2>5. crashes' \in 0 .. MaxCrashes
    BY <1>1 DEF TypeOK
  <2> QED
    BY <1>2, <2>4, <2>5 DEF TypeOK, Places
<1>6. Positions'
  <2>1. ASSUME NEW p \in Ranks, p # r
        PROVE  /\ pc'[p] = pc[p] /\ Len(sent'[p]) = Len(sent[p])
               /\ Len(sent[p]) # 0 => sent'[p][Len(sent[p])] = sent[p][Len(sent[p])]
    <3>1. \A n \in 0 .. 4 : n # 0 => n \in 1 .. n
      OBVIOUS
    <3>2. Len(sent[p]) # 0 => Len(sent[p]) \in 1 .. Len(sent[p])
      BY <1>3, <3>1, Zenon
    <3> QED
      BY <1>2, <2>1, <3>2, Zenon
  <2>2. /\ pc'[r] = site /\ Len(sent'[r]) = Len(sent[r]) + 1
        /\ sent'[r][Len(sent'[r])].bad = bad
    BY <1>2
  <2>3. ASSUME NEW p \in Ranks, p # r
        PROVE  /\ pc'[p] = "check" => Len(sent'[p]) = 0
               /\ pc'[p] \in {"vote", "construct"} => Len(sent'[p]) = 1
               /\ pc'[p] \in {"exchange", "connect"} => Len(sent'[p]) = 2
               /\ pc'[p] \in {"verdicts", "prepare"} => Len(sent'[p]) = 3
               /\ pc'[p] = "agree" => Len(sent'[p]) \in 2 .. 4
               /\ pc'[p] = "agree" /\ Len(sent'[p]) < 4 => sent'[p][Len(sent'[p])].bad = TRUE
    BY <1>1, <2>1, <2>3 DEF Positions
  <2>4. /\ pc'[r] = "check" => Len(sent'[r]) = 0
        /\ pc'[r] \in {"vote", "construct"} => Len(sent'[r]) = 1
        /\ pc'[r] \in {"exchange", "connect"} => Len(sent'[r]) = 2
        /\ pc'[r] \in {"verdicts", "prepare"} => Len(sent'[r]) = 3
        /\ pc'[r] = "agree" => Len(sent'[r]) \in 2 .. 4
        /\ pc'[r] = "agree" /\ Len(sent'[r]) < 4 => sent'[r][Len(sent'[r])].bad = TRUE
    <3>1. /\ site = "vote" => Len(sent'[r]) = 1
          /\ site = "exchange" => Len(sent'[r]) = 2
          /\ site = "verdicts" => Len(sent'[r]) = 3
          /\ site = "agree" => Len(sent'[r]) \in 2 .. 4
          /\ site = "agree" /\ Len(sent'[r]) < 4 => bad = TRUE
      <4> DEFINE n == Len(sent[r])
      <4>1. /\ n \in 0 .. 3 /\ Len(sent'[r]) = n + 1
            /\ site = "vote" => n = 0
            /\ site = "exchange" => n = 1
            /\ site = "verdicts" => n = 2
            /\ site = "agree" => n \in 1 .. 3
            /\ site = "agree" /\ n < 3 => bad = TRUE
        BY <1>4, <2>2
      <4> HIDE DEF n
      <4> QED
        BY <4>1
    <3>2. /\ pc'[r] # "check"
          /\ pc'[r] \in {"vote", "construct"} => site = "vote"
          /\ pc'[r] \in {"exchange", "connect"} => site = "exchange"
          /\ pc'[r] \in {"verdicts", "prepare"} => site = "verdicts"
          /\ pc'[r] = "agree" => site = "agree"
      BY <1>4, <2>2
    <3> QED
      BY <2>2, <3>1, <3>2, Zenon
  <2> QED
    BY <2>3, <2>4 DEF Positions
<1>7. Proxies'
  <2>1. ASSUME NEW p \in Ranks, p # r
        PROVE  /\ pc'[p] = pc[p] /\ proxy'[p] = proxy[p] /\ Len(sent'[p]) = Len(sent[p])
               /\ pc[p] = "verdicts" => sent'[p][3] = sent[p][3]
               /\ pc[p] = "agree" /\ Len(sent[p]) = 4 => sent'[p][4] = sent[p][4]
    <3>1. pc'[p] = pc[p] /\ proxy'[p] = proxy[p] /\ Len(sent'[p]) = Len(sent[p])
      BY <1>2, <2>1
    <3>2. pc[p] = "verdicts" => Len(sent[p]) = 3
      BY <1>1 DEF Positions
    <3>3. \A k \in 1 .. Len(sent[p]) : sent'[p][k] = sent[p][k]
      BY <1>2
    <3> QED
      BY <3>1, <3>2, <3>3
  <2>2. /\ pc'[r] = site
        /\ site = "verdicts" => sent'[r][3].bad = bad
        /\ site = "agree" /\ Len(sent'[r]) = 4 => sent'[r][4].bad = bad
    <3>1. Len(sent[r]) = 2 => sent'[r][3].bad = bad
      BY <1>2
    <3>2. Len(sent'[r]) = 4 => Len(sent[r]) = 3
      <4>1. \A n \in 0 .. 3 : n + 1 = 4 => n = 3
        OBVIOUS
      <4> QED
        BY <1>2, <1>4, <4>1, Zenon
    <3>3. Len(sent[r]) = 3 => sent'[r][4].bad = bad
      BY <1>2
    <3> QED
      BY <1>2, <3>1, <3>2, <3>3
  <2> QED
    BY <1>1, <1>4, <2>1, <2>2 DEF Proxies
<1>8. \A p \in Ranks : pc[p] # "ready"
  <2>1. Len(sent[r]) # 4
    <3>1. \A n \in 0 .. 3 : n # 4
      OBVIOUS
    <3> QED
      BY <1>4, <3>1, Zenon
  <2> QED
    BY <1>1, <2>1 DEF ReadyAgreed
<1>9. ReadyAgreed'
  BY <1>2, <1>4, <1>8 DEF ReadyAgreed
<1>10. ASSUME NEW p \in Ranks, NEW k \in 1 .. 4, BadAt(p, k)
       PROVE  BadAt(p, k)'
  BY <1>2, <1>3, <1>10 DEF BadAt
<1>11. ASSUME NEW q \in Ranks, pc[q] \in {"nccl", "raised"}, Refused(q)
       PROVE  Refused(q)'
  <2>1. q # r /\ Len(sent'[q]) = Len(sent[q])
    BY <1>2, <1>11 DEF Settled, Gone
  <2>2. CASE Len(sent[q]) = 1
    BY <2>1, <2>2 DEF Refused
  <2>3. CASE Len(sent[q]) # 1
    <3>1. PICK p \in Ranks : BadAt(p, Len(sent[q]))
      BY <1>11, <2>3 DEF Refused
    <3>2. Len(sent[q]) \in 1 .. 4
      BY <1>3, <3>1 DEF BadAt
    <3>3. BadAt(p, Len(sent[q]))'
      BY <1>10, <2>1, <3>1, <3>2 DEF BadAt
    <3> QED
      BY <3>3 DEF Refused
  <2> QED
    BY <2>2, <2>3
<1>12. NcclRefused'
  BY <1>1, <1>2, <1>4, <1>11 DEF NcclRefused
<1>13. RaisedRefused'
  <2> SUFFICES ASSUME crashes' = 0, NEW p \in Ranks, pc'[p] = "raised"
               PROVE  \E q \in Ranks : pc'[q] \in {"nccl", "raised"} /\ Refused(q)'
    BY DEF RaisedRefused
  <2>1. pc[p] = "raised"
    BY <1>2, <1>4
  <2>2. PICK q \in Ranks : pc[q] \in {"nccl", "raised"} /\ Refused(q)
    BY <1>1, <2>1 DEF RaisedRefused
  <2>3. q # r
    BY <2>2 DEF Settled, Gone
  <2> QED
    BY <1>2, <1>11, <2>2, <2>3
<1>14. CrashCounted'
  BY <1>1, <1>2, <1>4 DEF CrashCounted
<1> QED
  BY <1>5, <1>6, <1>7, <1>9, <1>12, <1>13, <1>14 DEF IInv

(* A step that enters no gather keeps the invariant, if the rank has made  *)
(* the gathers that lead to its new place and a refusal has its reason.    *)
LEMMA MoveKeeps ==
  ASSUME IInv, NEW r \in Ranks,
         NEW x \in {"construct", "connect", "prepare", "ready", "nccl", "raised", "crashed"},
         pc' = [pc EXCEPT ![r] = x],
         sent' = sent,
         crashes' \in 0 .. MaxCrashes, crashes' = 0 => crashes = 0,
         crashes > 0 => crashes' > 0,
         proxy' \in [Ranks -> {"none", "created", "running"}],
         \A p \in Ranks \ {r} : proxy'[p] = proxy[p],
         x = "construct" => Len(sent[r]) = 1 /\ proxy'[r] = "none",
         x = "connect" => Len(sent[r]) = 2,
         x = "prepare" => Len(sent[r]) = 3 /\ proxy'[r] = "running",
         x = "ready" => /\ proxy'[r] = "running"
                        /\ \A p \in Ranks : Len(sent[p]) = 4 /\ ~BadAt(p, 4),
         x = "nccl" => proxy'[r] = "none" /\ Refused(r),
         x = "raised" /\ crashes' = 0 =>
           \E q \in Ranks : (q = r \/ pc[q] \in {"nccl", "raised"}) /\ Refused(q),
         x = "crashed" => crashes' > 0,
         crashes' = 0 => pc[r] \notin {"nccl", "raised"}
  PROVE  IInv'
<1>1. TypeOK /\ Positions /\ Proxies /\ ReadyAgreed /\ NcclRefused /\ RaisedRefused /\ CrashCounted
  BY DEF IInv
<1>2. /\ pc' \in [Ranks -> Places]
      /\ pc'[r] = x
      /\ \A p \in Ranks \ {r} : pc'[p] = pc[p]
  BY <1>1 DEF TypeOK, Places, Settled, Gone
<1>3. TypeOK'
  BY <1>1, <1>2 DEF TypeOK, Places
<1>4. Positions'
  BY <1>1, <1>2 DEF Positions
<1>5. Proxies'
  BY <1>1, <1>2 DEF Proxies
<1>6. \A p \in Ranks : \A k : BadAt(p, k)' <=> BadAt(p, k)
  BY DEF BadAt
<1>7. \A q \in Ranks : Refused(q)' <=> Refused(q)
  BY DEF Refused, BadAt
<1>8. ReadyAgreed'
  BY <1>1, <1>2, <1>6 DEF ReadyAgreed
<1>9. NcclRefused'
  BY <1>1, <1>2, <1>7 DEF NcclRefused
<1>10. RaisedRefused'
  <2> SUFFICES ASSUME crashes' = 0, NEW p \in Ranks, pc'[p] = "raised"
               PROVE  \E q \in Ranks : pc'[q] \in {"nccl", "raised"} /\ Refused(q)'
    BY DEF RaisedRefused
  <2>1. CASE p = r
    <3>1. PICK q \in Ranks : (q = r \/ pc[q] \in {"nccl", "raised"}) /\ Refused(q)
      BY <1>2, <2>1
    <3> QED
      BY <1>2, <1>7, <2>1, <3>1
  <2>2. CASE p # r
    <3>1. PICK q \in Ranks : pc[q] \in {"nccl", "raised"} /\ Refused(q)
      BY <1>1, <1>2, <2>2 DEF RaisedRefused
    <3> QED
      BY <1>2, <1>7, <3>1
  <2> QED
    BY <2>1, <2>2
<1>11. CrashCounted'
  BY <1>1, <1>2 DEF CrashCounted
<1> QED
  BY <1>3, <1>4, <1>5, <1>8, <1>9, <1>10, <1>11 DEF IInv

-----------------------------------------------------------------------------
(* What the invariant says of one rank, in the form the actions use.       *)
LEMMA RankFacts ==
  ASSUME IInv, NEW r \in Ranks
  PROVE  /\ proxy \in [Ranks -> {"none", "created", "running"}]
         /\ crashes \in 0 .. MaxCrashes
         /\ pc[r] = "check" => Len(sent[r]) = 0
         /\ pc[r] \in {"vote", "construct"} => Len(sent[r]) = 1
         /\ pc[r] \in {"exchange", "connect"} => Len(sent[r]) = 2
         /\ pc[r] \in {"verdicts", "prepare"} => Len(sent[r]) = 3
         /\ pc[r] = "agree" => Len(sent[r]) \in 2 .. 4
         /\ pc[r] = "agree" /\ Len(sent[r]) < 4 => sent[r][Len(sent[r])].bad = TRUE
         /\ pc[r] \in {"check", "vote", "construct"} => proxy[r] = "none"
         /\ pc[r] = "prepare" => proxy[r] = "running"
BY DEF IInv, TypeOK, Positions, Proxies

(* The values in a gather have the type of Values.                         *)
LEMMA GivenType ==
  ASSUME IInv, NEW p \in Ranks, NEW k \in 1 .. Len(sent[p])
  PROVE  sent[p][k].bad \in BOOLEAN
<1>1. sent[p] \in Seq(Values)
  BY DEF IInv, TypeOK
<1>2. sent[p][k] \in Values
  BY <1>1, ElementOfSeq
<1> QED
  BY <1>2 DEF Values

(* The vote and the steps up to the first exchange (adapter.py and the     *)
(* start of the constructor).                                              *)
LEMMA VoteKeeps ==
  ASSUME IInv, NEW r \in Ranks,
         LocalCapability(r) \/ ReceiveVote(r) \/ ConstructFailsEarly(r) \/ CreateProxy(r)
  PROVE  IInv'
<1>1. CASE LocalCapability(r)
  <2>1. PICK bad \in BOOLEAN, data \in Data : Enter(r, "vote", bad, data)
    BY <1>1 DEF LocalCapability, Data
  <2>2. pc[r] = "check" /\ proxy' = proxy /\ crashes' = crashes
    BY <1>1 DEF LocalCapability
  <2>3. /\ Len(sent[r]) = 0 /\ proxy'[r] = "none"
        /\ proxy' \in [Ranks -> {"none", "created", "running"}]
    BY <2>2, RankFacts
  <2>4. "vote" \in Gathers /\ pc[r] \notin Settled
    BY <2>2 DEF Gathers, Settled, Gone
  <2> QED
    BY <2>1, <2>2, <2>3, <2>4, EnterKeeps
<1>2. CASE ReceiveVote(r)
  <2>1. /\ pc[r] = "vote" /\ sent' = sent /\ proxy' = proxy /\ crashes' = crashes
        /\ \E x \in {"construct", "nccl", "raised"} : pc' = [pc EXCEPT ![r] = x]
    BY <1>2 DEF ReceiveVote, GiveUp
  <2>2. PICK x \in {"construct", "nccl", "raised"} : pc' = [pc EXCEPT ![r] = x]
    BY <2>1
  <2>3. /\ Len(sent[r]) = 1 /\ proxy'[r] = "none"
        /\ proxy' \in [Ranks -> {"none", "created", "running"}]
        /\ crashes' \in 0 .. MaxCrashes
    BY <2>1, RankFacts
  <2>4. Refused(r)
    BY <2>3 DEF Refused
  <2> QED
    BY <2>1, <2>2, <2>3, <2>4, MoveKeeps
<1>3. CASE ConstructFailsEarly(r)
  <2>1. /\ Enter(r, "agree", TRUE, NoData)
        /\ pc[r] = "construct" /\ proxy' = proxy /\ crashes' = crashes
    BY <1>3 DEF ConstructFailsEarly
  <2>2. Len(sent[r]) = 1 /\ proxy' \in [Ranks -> {"none", "created", "running"}]
    BY <2>1, RankFacts
  <2>3. "agree" \in Gathers /\ pc[r] \notin Settled /\ NoData \in Data
    BY <2>1 DEF Gathers, Settled, Gone, Data
  <2>4. Len(sent[r]) \in 1 .. 3
    <3>1. 1 \in 1 .. 3
      OBVIOUS
    <3> QED
      BY <2>2, <3>1, Zenon
  <2> QED
    BY <2>1, <2>2, <2>3, <2>4, EnterKeeps
<1>4. CASE CreateProxy(r)
  <2>1. PICK ok \in BOOLEAN, c \in Configs :
          /\ proxy' = [proxy EXCEPT ![r] = IF ok THEN "created" ELSE "none"]
          /\ Enter(r, "exchange", ~ok, c)
    BY <1>4 DEF CreateProxy
  <2>2. pc[r] = "construct" /\ crashes' = crashes
    BY <1>4 DEF CreateProxy
  <2>3. /\ Len(sent[r]) = 1 /\ proxy' \in [Ranks -> {"none", "created", "running"}]
        /\ \A p \in Ranks \ {r} : proxy'[p] = proxy[p]
    BY <2>1, <2>2, RankFacts
  <2>4. "exchange" \in Gathers /\ pc[r] \notin Settled /\ c \in Data /\ (~ok) \in BOOLEAN
    BY <2>1, <2>2 DEF Gathers, Settled, Gone, Data
  <2> QED
    BY <2>1, <2>2, <2>3, <2>4, EnterKeeps
<1> QED
  BY <1>1, <1>2, <1>3, <1>4

(* The constructor gives up: it closes its proxy and the adapter reports   *)
(* the error in the last gather.                                           *)
LEMMA AbortKeeps ==
  ASSUME IInv, NEW r \in Ranks, pc[r] \in {"exchange", "verdicts"}, Abort(r), crashes' = crashes
  PROVE  IInv'
<1>1. proxy' = [proxy EXCEPT ![r] = "none"] /\ Enter(r, "agree", TRUE, NoData)
  BY DEF Abort, Release
<1>2. /\ proxy' \in [Ranks -> {"none", "created", "running"}]
      /\ \A p \in Ranks \ {r} : proxy'[p] = proxy[p]
  BY <1>1, RankFacts
<1>3. "agree" \in Gathers /\ pc[r] \notin Settled /\ NoData \in Data
  BY DEF Gathers, Settled, Gone, Data
<1>4. Len(sent[r]) \in 1 .. 3
  <2>1. Len(sent[r]) \in {2, 3}
    BY RankFacts
  <2>2. {2, 3} \subseteq 1 .. 3
    OBVIOUS
  <2> QED
    BY <2>1, <2>2, Zenon
<1> QED
  BY <1>1, <1>2, <1>3, <1>4, EnterKeeps

(* The two exchanges of the constructor, and the preparation after them    *)
(* (roce_oneshot.py).                                                      *)
LEMMA ConstructorKeeps ==
  ASSUME IInv, NEW r \in Ranks,
         ReceiveExchange(r) \/ ConnectStart(r) \/ ReceiveVerdicts(r) \/ Prepare(r)
  PROVE  IInv'
<1>1. CASE ReceiveExchange(r)
  <2>1. pc[r] = "exchange" /\ crashes' = crashes
    BY <1>1 DEF ReceiveExchange
  <2>2. CASE Abort(r)
    BY <2>1, <2>2, AbortKeeps
  <2>3. CASE ~Abort(r)
    <3>1. pc' = [pc EXCEPT ![r] = "connect"] /\ sent' = sent /\ proxy' = proxy
      BY <1>1, <2>3 DEF ReceiveExchange
    <3>2. /\ Len(sent[r]) = 2 /\ crashes' \in 0 .. MaxCrashes
          /\ proxy' \in [Ranks -> {"none", "created", "running"}]
      BY <2>1, <3>1, RankFacts
    <3> QED
      BY <2>1, <3>1, <3>2, MoveKeeps
  <2> QED
    BY <2>2, <2>3
<1>2. CASE ConnectStart(r)
  <2>1. PICK ok \in BOOLEAN :
          /\ proxy' = IF ok THEN [proxy EXCEPT ![r] = "running"] ELSE proxy
          /\ Enter(r, "verdicts", ~ok, NoData)
    BY <1>2 DEF ConnectStart
  <2>2. pc[r] = "connect" /\ crashes' = crashes
    BY <1>2 DEF ConnectStart
  <2>3. /\ Len(sent[r]) = 2 /\ proxy' \in [Ranks -> {"none", "created", "running"}]
        /\ \A p \in Ranks \ {r} : proxy'[p] = proxy[p]
        /\ (~ok) = FALSE => proxy'[r] = "running"
    BY <2>1, <2>2, RankFacts
  <2>4. /\ "verdicts" \in Gathers /\ pc[r] \notin Settled /\ NoData \in Data
        /\ (~ok) \in BOOLEAN
    BY <2>1, <2>2 DEF Gathers, Settled, Gone, Data
  <2> QED
    BY <2>1, <2>2, <2>3, <2>4, EnterKeeps
<1>3. CASE ReceiveVerdicts(r)
  <2>1. pc[r] = "verdicts" /\ crashes' = crashes
    BY <1>3 DEF ReceiveVerdicts
  <2>2. CASE Abort(r)
    BY <2>1, <2>2, AbortKeeps
  <2>3. CASE ~Abort(r)
    <3>1. /\ pc' = [pc EXCEPT ![r] = "prepare"] /\ sent' = sent /\ proxy' = proxy
          /\ ~Given(r, r).bad
      BY <1>3, <2>3 DEF ReceiveVerdicts
    <3>2. /\ Len(sent[r]) = 3 /\ crashes' \in 0 .. MaxCrashes
          /\ proxy' \in [Ranks -> {"none", "created", "running"}]
      BY <2>1, <3>1, RankFacts
    <3>3. sent[r][3].bad \in BOOLEAN
      BY <3>2, GivenType
    <3>4. sent[r][3].bad = FALSE
      BY <3>1, <3>2, <3>3 DEF Given
    <3>5. proxy[r] = "running"
      BY <2>1, <3>4 DEF IInv, Proxies
    <3> QED
      BY <2>1, <3>1, <3>2, <3>5, MoveKeeps
  <2> QED
    BY <2>2, <2>3
<1>4. CASE Prepare(r)
  <2>1. PICK ok \in BOOLEAN : Enter(r, "agree", ~ok, NoData)
    BY <1>4 DEF Prepare
  <2>2. pc[r] = "prepare" /\ proxy' = proxy /\ crashes' = crashes
    BY <1>4 DEF Prepare
  <2>3. /\ Len(sent[r]) = 3 /\ proxy' \in [Ranks -> {"none", "created", "running"}]
        /\ proxy'[r] = "running"
    BY <2>2, RankFacts
  <2>4. /\ "agree" \in Gathers /\ pc[r] \notin Settled /\ NoData \in Data
        /\ (~ok) \in BOOLEAN
    BY <2>1, <2>2 DEF Gathers, Settled, Gone, Data
  <2>5. Len(sent[r]) \in 1 .. 3 /\ ~(Len(sent[r]) < 3)
    <3>1. 3 \in 1 .. 3 /\ ~(3 < 3)
      OBVIOUS
    <3> QED
      BY <2>3, <3>1, Zenon
  <2> QED
    BY <2>1, <2>2, <2>3, <2>4, <2>5, EnterKeeps
<1> QED
  BY <1>1, <1>2, <1>3, <1>4

(* The last gather: a rank that finds no error has met every other rank in *)
(* its fourth gather; one that finds an error has its refusal recorded.    *)
LEMMA AgreementKeeps ==
  ASSUME IInv, NEW r \in Ranks, ReceiveAgreement(r)
  PROVE  IInv'
<1>1. /\ pc[r] = "agree" /\ sent' = sent /\ crashes' = crashes
      /\ Complete(r)
      /\ IF Errors(r) = {} THEN pc' = [pc EXCEPT ![r] = "ready"] /\ proxy' = proxy
         ELSE /\ proxy' = [proxy EXCEPT ![r] = "none"]
              /\ \E x \in {"nccl", "raised"} : pc' = [pc EXCEPT ![r] = x]
  BY DEF ReceiveAgreement, Release, GiveUp
<1> DEFINE n == Len(sent[r])
<1>2. /\ n \in 2 .. 4 /\ crashes' \in 0 .. MaxCrashes
      /\ n < 4 => sent[r][n].bad = TRUE
      /\ proxy' \in [Ranks -> {"none", "created", "running"}]
      /\ \A p \in Ranks \ {r} : proxy'[p] = proxy[p]
  BY <1>1, RankFacts
<1>3. \A p \in Ranks : Len(sent[p]) \in 0 .. 4 /\ Len(sent[p]) >= n
  BY <1>1, LengthType DEF IInv, Complete
<1>4. Errors(r) = {p \in Ranks : sent[p][n].bad \/ sent[p][n].site = "exchange"}
  BY DEF Errors, Given
<1> HIDE DEF n
<1>5. CASE Errors(r) = {}
  <2>1. n = 4
    BY <1>2, <1>4, <1>5
  <2>2. ASSUME NEW p \in Ranks PROVE Len(sent[p]) = 4 /\ ~BadAt(p, 4)
    <3>1. Len(sent[p]) = 4
      <4>1. \A l \in 0 .. 4 : l >= 4 => l = 4
        OBVIOUS
      <4> QED
        BY <1>3, <2>1, <4>1, Zenon
    <3>2. ~sent[p][4].bad /\ sent[p][4].site # "exchange"
      BY <1>4, <1>5, <2>1
    <3> QED
      BY <3>1, <3>2 DEF BadAt
  <2>3. sent[r][4].bad \in BOOLEAN /\ ~sent[r][4].bad
    <3>1. 4 \in 1 .. Len(sent[r])
      <4>1. 4 \in 1 .. 4
        OBVIOUS
      <4> QED
        BY <2>2, <4>1, Zenon
    <3> QED
      BY <1>4, <1>5, <2>1, <3>1, GivenType
  <2>4. proxy[r] = "running"
    <3>1. sent[r][4].bad = FALSE /\ Len(sent[r]) = 4
      BY <2>2, <2>3
    <3> QED
      BY <1>1, <3>1 DEF IInv, Proxies
  <2> QED
    BY <1>1, <1>2, <1>5, <2>2, <2>4, MoveKeeps
<1>6. CASE Errors(r) # {}
  <2>1. PICK p \in Ranks : sent[p][n].bad \/ sent[p][n].site = "exchange"
    BY <1>4, <1>6
  <2>2. n \in 1 .. Len(sent[p])
    <3>1. \A l \in 0 .. 4 : l >= n => n \in 1 .. l
      BY <1>2
    <3> QED
      BY <1>3, <3>1, Zenon
  <2>3. BadAt(p, n)
    BY <2>1, <2>2, GivenType DEF BadAt
  <2>4. Refused(r)
    BY <2>3 DEF Refused, n
  <2>5. PICK x \in {"nccl", "raised"} : pc' = [pc EXCEPT ![r] = x]
    BY <1>1, <1>6
  <2>6. proxy'[r] = "none"
    BY <1>1, <1>6, RankFacts
  <2> QED
    BY <1>1, <1>2, <2>4, <2>5, <2>6, MoveKeeps
<1> QED
  BY <1>5, <1>6

(* A killed process, and a gather that raises because a member is gone.    *)
LEMMA LossKeeps ==
  ASSUME IInv, NEW r \in Ranks, PeerLost(r) \/ Crash(r)
  PROVE  IInv'
<1>1. CASE PeerLost(r)
  <2>1. pc[r] \in Gathers /\ crashes' = crashes
    BY <1>1 DEF PeerLost
  <2>2. CASE pc[r] \in {"exchange", "verdicts"}
    BY <1>1, <2>2, AbortKeeps DEF PeerLost
  <2>3. CASE pc[r] \notin {"exchange", "verdicts"}
    <3>1. pc' = [pc EXCEPT ![r] = "raised"] /\ sent' = sent /\ proxy' = proxy
      BY <1>1, <2>3 DEF PeerLost
    <3>2. PICK p \in Ranks : pc[p] \in {"raised", "crashed"}
      BY <1>1 DEF PeerLost, Gone
    <3>3. crashes = 0 => \E q \in Ranks : pc[q] \in {"nccl", "raised"} /\ Refused(q)
      BY <3>2 DEF IInv, CrashCounted, RaisedRefused
    <3>4. /\ crashes' \in 0 .. MaxCrashes
          /\ proxy' \in [Ranks -> {"none", "created", "running"}]
      BY <2>1, <3>1, RankFacts
    <3>5. pc[r] \notin {"nccl", "raised"}
      BY <2>1 DEF Gathers
    <3> QED
      BY <2>1, <3>1, <3>3, <3>4, <3>5, MoveKeeps
  <2> QED
    BY <2>2, <2>3
<1>2. CASE Crash(r)
  <2>1. /\ pc' = [pc EXCEPT ![r] = "crashed"] /\ sent' = sent /\ proxy' = proxy
        /\ crashes' = crashes + 1 /\ crashes < MaxCrashes
    BY <1>2 DEF Crash
  <2>2. /\ crashes \in 0 .. MaxCrashes
        /\ proxy' \in [Ranks -> {"none", "created", "running"}]
    BY <2>1, RankFacts
  <2>3. MaxCrashes \in Nat
    BY SetupAssumption
  <2>4. crashes' \in 0 .. MaxCrashes /\ crashes' > 0 /\ crashes' # 0
    BY <2>1, <2>2, <2>3
  <2> QED
    BY <2>1, <2>2, <2>4, MoveKeeps
<1> QED
  BY <1>1, <1>2

-----------------------------------------------------------------------------
(* Every step of every rank keeps the invariant.                           *)
LEMMA Inductive == IInv /\ [Next]_vars => IInv'
<1> SUFFICES ASSUME IInv, [Next]_vars PROVE IInv'
  OBVIOUS
<1>1. CASE UNCHANGED vars
  BY <1>1 DEF vars, IInv, TypeOK, Positions, Proxies, ReadyAgreed, NcclRefused,
              RaisedRefused, CrashCounted, Refused, BadAt
<1>2. CASE Next
  <2>1. PICK r \in Ranks : Step(r) \/ Crash(r)
    BY <1>2 DEF Next
  <2> QED
    BY <2>1, VoteKeeps, ConstructorKeeps, AgreementKeeps, LossKeeps DEF Step
<1> QED
  BY <1>1, <1>2

(* At the start no rank has made a call and no proxy exists.               *)
LEMMA Initially == Init => IInv
<1> SUFFICES ASSUME Init PROVE IInv
  OBVIOUS
<1>1. \A r \in Ranks : pc[r] = "check" /\ sent[r] = <<>> /\ Len(sent[r]) = 0 /\ proxy[r] = "none"
  BY EmptySeq DEF Init
<1>2. TypeOK
  <2>1. 0 \in 0 .. MaxCrashes
    BY SetupAssumption
  <2>2. sent \in [Ranks -> Seq(Values)]
    BY EmptySeq DEF Init
  <2>3. \A r \in Ranks : Len(sent[r]) <= 4
    BY <1>1
  <2> QED
    BY <2>1, <2>2, <2>3 DEF Init, TypeOK
<1> QED
  BY <1>1, <1>2 DEF IInv, Positions, Proxies, ReadyAgreed, NcclRefused, RaisedRefused, CrashCounted

(* The invariant implies what is promised of the route.                    *)
LEMMA Promises == IInv => AgreedRoute /\ ServesConnected /\ NoProxyLeft
<1> SUFFICES ASSUME IInv PROVE AgreedRoute /\ ServesConnected /\ NoProxyLeft
  OBVIOUS
<1>1. ASSUME NEW r \in Ranks, pc[r] = "ready", NEW q \in Ranks PROVE ~Refused(q)
  <2>1. \A p \in Ranks : Len(sent[p]) = 4 /\ ~BadAt(p, 4)
    BY <1>1 DEF IInv, ReadyAgreed
  <2>2. 4 # 1
    OBVIOUS
  <2>3. Len(sent[q]) = 4 /\ Len(sent[q]) # 1
    BY <2>1, <2>2, Zenon
  <2> QED
    BY <2>1, <2>3, Zenon DEF Refused
<1>2. AgreedRoute
  BY <1>1 DEF IInv, AgreedRoute, NcclRefused, RaisedRefused
<1>3. ServesConnected
  <2> SUFFICES ASSUME NEW r \in Ranks, NEW p \in Ranks, pc[r] = "ready", pc[p] \notin Gone
               PROVE  proxy[p] = "running"
    BY DEF ServesConnected
  <2>1. Len(sent[p]) = 4 /\ ~BadAt(p, 4)
    BY DEF IInv, ReadyAgreed
  <2>2. pc[p] # "nccl"
    BY <1>2 DEF AgreedRoute
  <2>3. pc[p] \in {"agree", "ready"}
    <3>1. pc[p] \in Places
      BY DEF IInv, TypeOK, Places
    <3>2. ~(4 = 0) /\ ~(4 = 1) /\ ~(4 = 2) /\ ~(4 = 3)
      OBVIOUS
    <3>3. pc[p] \notin {"check", "vote", "construct", "exchange", "connect", "verdicts", "prepare"}
      BY <2>1, <3>2, RankFacts
    <3> QED
      BY <2>2, <3>1, <3>3 DEF Places, Gathers, Settled, Gone
  <2>4. 4 \in 1 .. Len(sent[p])
    <3>1. 4 \in 1 .. 4
      OBVIOUS
    <3> QED
      BY <2>1, <3>1, Zenon
  <2>5. sent[p][4].bad = FALSE
    BY <2>1, <2>4, GivenType DEF BadAt
  <2> QED
    BY <2>1, <2>3, <2>5 DEF IInv, Proxies
<1>4. NoProxyLeft
  BY DEF IInv, Proxies, NoProxyLeft
<1> QED
  BY <1>2, <1>3, <1>4

(* The inductive invariant holds in every reachable state, for every       *)
(* number of ranks and of killed processes, with and without failures      *)
(* before the first exchange.                                              *)
THEOREM SetupInvariant == Spec => []IInv
<1> QED
  BY Initially, Inductive, PTL DEF Spec

(* No rank falls back alone: the adapter never leaves one rank on RoCE and *)
(* another on NCCL, whatever fails in the vote, the constructor or its     *)
(* exchanges.                                                              *)
THEOREM RouteAgreed == Spec => []AgreedRoute
<1> QED
  BY SetupInvariant, Promises, PTL

(* A rank enters service only with peers whose proxies are connected and   *)
(* running.                                                                *)
THEOREM ServiceConnected == Spec => []ServesConnected
<1> QED
  BY SetupInvariant, Promises, PTL

(* A rank that falls back to NCCL has closed its proxy.                    *)
THEOREM FallbackReleases == Spec => []NoProxyLeft
<1> QED
  BY SetupInvariant, Promises, PTL

-----------------------------------------------------------------------------
(* Which gathers meet as long as no process is killed.                     *)

(* The calls of a rank, in order: the vote, then the first exchange or, in *)
(* a rank whose constructor failed before it, the agreement, the last call *)
(* of every rank.  A rank connects only when every rank has made the first *)
(* exchange, even if gathers raise.                                        *)
Follows(r) ==
  /\ Len(sent[r]) >= 1 => sent[r][1].site = "vote"
  /\ Len(sent[r]) >= 2 => sent[r][2].site = "exchange" \/ (sent[r][2].site = "agree" /\ Len(sent[r]) = 2)
  /\ Len(sent[r]) >= 3 => sent[r][3].site = "verdicts" \/ (sent[r][3].site = "agree" /\ Len(sent[r]) = 3)
  /\ Len(sent[r]) >= 4 => sent[r][4].site = "agree"
  /\ pc[r] = "exchange" => sent[r][2].site = "exchange"
  /\ pc[r] \in {"verdicts", "prepare"} => sent[r][3].site = "verdicts"
Tracks == \A r \in Ranks : Follows(r)
Connects(r) ==
  pc[r] = "connect" \/ (Len(sent[r]) >= 3 /\ sent[r][3].site = "verdicts")
AllExchanged == \A p \in Ranks : Len(sent[p]) >= 2 /\ sent[p][2].site = "exchange"
TrackInv == Tracks /\ \A r \in Ranks : Connects(r) => AllExchanged

(* Entering a gather, from each of the places where a rank does so.        *)
LEMMA EnterTracks ==
  ASSUME IInv, TrackInv, NEW r \in Ranks, NEW site \in Gathers, NEW bad \in BOOLEAN, NEW data \in Data,
         Enter(r, site, bad, data),
         \/ pc[r] = "check" /\ site = "vote"
         \/ pc[r] = "construct" /\ site \in {"exchange", "agree"}
         \/ pc[r] \in {"exchange", "verdicts", "prepare"} /\ site = "agree"
         \/ pc[r] = "connect" /\ site = "verdicts"
  PROVE  TrackInv'
<1>1. /\ \A p \in Ranks : pc'[p] = IF p = r THEN site ELSE pc[p]
      /\ \A p \in Ranks : Len(sent'[p]) = IF p = r THEN Len(sent[p]) + 1 ELSE Len(sent[p])
      /\ \A p \in Ranks : \A k \in 1 .. Len(sent[p]) : sent'[p][k] = sent[p][k]
      /\ sent'[r][Len(sent[r]) + 1].site = site
  BY EnterFacts DEF IInv
<1>2. \A p \in Ranks : Len(sent[p]) \in 0 .. 4
  BY LengthType DEF IInv
<1>3. /\ pc[r] = "check" => Len(sent[r]) = 0
      /\ pc[r] = "construct" => Len(sent[r]) = 1
      /\ pc[r] \in {"exchange", "connect"} => Len(sent[r]) = 2
      /\ pc[r] \in {"verdicts", "prepare"} => Len(sent[r]) = 3
  BY RankFacts
<1>4. pc[r] = "connect" => sent[r][2].site = "exchange"
  BY DEF TrackInv, Connects, AllExchanged
<1>5. ASSUME NEW p \in Ranks
      PROVE  /\ Len(sent[p]) >= 1 => sent'[p][1] = sent[p][1]
             /\ Len(sent[p]) >= 2 => sent'[p][2] = sent[p][2]
             /\ Len(sent[p]) >= 3 => sent'[p][3] = sent[p][3]
             /\ Len(sent[p]) >= 4 => sent'[p][4] = sent[p][4]
  <2>1. \A n \in 0 .. 4 : /\ n >= 1 => 1 \in 1 .. n
                          /\ n >= 2 => 2 \in 1 .. n
                          /\ n >= 3 => 3 \in 1 .. n
                          /\ n >= 4 => 4 \in 1 .. n
    OBVIOUS
  <2> QED
    BY <1>1, <1>2, <2>1, Zenon
<1>6. Tracks'
  <2> SUFFICES ASSUME NEW p \in Ranks PROVE Follows(p)'
    BY DEF Tracks
  <2>0. Follows(p)
    BY DEF TrackInv, Tracks
  <2>1. CASE p # r
    <3>1. Len(sent'[p]) = Len(sent[p]) /\ pc'[p] = pc[p]
      BY <1>1, <2>1
    <3>2. /\ pc[p] = "exchange" => Len(sent[p]) >= 2
          /\ pc[p] \in {"verdicts", "prepare"} => Len(sent[p]) >= 3
      <4>1. /\ pc[p] = "exchange" => Len(sent[p]) = 2
            /\ pc[p] \in {"verdicts", "prepare"} => Len(sent[p]) = 3
        BY RankFacts
      <4>2. 2 >= 2 /\ 3 >= 3
        OBVIOUS
      <4> QED
        BY <4>1, <4>2, Zenon
    <3> QED
      BY <1>5, <2>0, <3>1, <3>2 DEF Follows
  <2>2. CASE p = r
    <3>1. Len(sent'[r]) = Len(sent[r]) + 1 /\ pc'[r] = site /\ sent'[r][Len(sent[r]) + 1].site = site
      BY <1>1
    <3>2. CASE pc[r] = "check"
      BY <1>3, <2>2, <3>1, <3>2 DEF Follows
    <3>3. CASE pc[r] = "construct"
      <4>1. Len(sent[r]) = 1 /\ Len(sent'[r]) = 2 /\ sent'[r][2].site = site /\ pc'[r] = site
        <5>1. 1 + 1 = 2
          OBVIOUS
        <5> QED
          BY <1>3, <3>1, <3>3, <5>1, Zenon
      <4>2. sent'[r][1].site = "vote"
        BY <1>5, <2>0, <2>2, <4>1 DEF Follows
      <4>3. site = "exchange" \/ site = "agree"
        BY <3>3
      <4> QED
        BY ONLY <2>2, <4>1, <4>2, <4>3 DEF Follows
    <3>4. CASE pc[r] \in {"exchange", "connect"}
      <4>1. Len(sent[r]) = 2 /\ Len(sent'[r]) = 3 /\ sent'[r][3].site = site /\ pc'[r] = site
        <5>1. 2 + 1 = 3
          OBVIOUS
        <5> QED
          BY <1>3, <3>1, <3>4, <5>1, Zenon
      <4>2. sent'[r][1].site = "vote" /\ sent'[r][2].site = "exchange"
        BY <1>4, <1>5, <2>0, <2>2, <3>4, <4>1 DEF Follows
      <4>3. site = "verdicts" \/ site = "agree"
        BY <3>4
      <4>4. /\ Len(sent'[r]) >= 1 => sent'[r][1].site = "vote"
            /\ Len(sent'[r]) >= 2 => sent'[r][2].site = "exchange"
            /\ pc'[r] = "exchange" => sent'[r][2].site = "exchange"
        BY <4>2
      <4>5. ~(Len(sent'[r]) >= 4)
        BY <4>1
      <4>6. sent'[r][3].site = "verdicts" \/ (sent'[r][3].site = "agree" /\ Len(sent'[r]) = 3)
        BY <4>1, <4>3
      <4>7. pc'[r] \in {"verdicts", "prepare"} => sent'[r][3].site = "verdicts"
        BY <4>1, <4>3
      <4> QED
        BY <2>2, <4>4, <4>5, <4>6, <4>7 DEF Follows
    <3>5. CASE pc[r] \in {"verdicts", "prepare"}
      <4>1. Len(sent[r]) = 3 /\ Len(sent'[r]) = 4 /\ sent'[r][4].site = "agree" /\ pc'[r] = "agree"
        <5>1. 3 + 1 = 4
          OBVIOUS
        <5> QED
          BY <1>3, <3>1, <3>5, <5>1
      <4>2. sent'[r][1].site = "vote" /\ sent'[r][2].site = "exchange" /\ sent'[r][3].site = "verdicts"
        BY <1>5, <2>0, <2>2, <3>5, <4>1 DEF Follows
      <4> QED
        BY <2>2, <4>1, <4>2 DEF Follows
    <3> QED
      BY <3>2, <3>3, <3>4, <3>5
  <2> QED
    BY <2>1, <2>2
<1>7. ASSUME NEW p \in Ranks, Connects(p)' PROVE AllExchanged'
  <2>1. \E q \in Ranks : Connects(q)
    <3>1. CASE p # r
      <4>1. Connects(p)
        BY <1>1, <1>5, <1>7, <3>1 DEF Connects
      <4> QED
        BY <4>1
    <3>2. CASE p = r
      <4>1. pc'[r] = site /\ site # "connect"
        BY <1>1 DEF Gathers
      <4>2. Len(sent'[r]) >= 3 /\ sent'[r][3].site = "verdicts" /\ Len(sent'[r]) = Len(sent[r]) + 1
        BY <1>1, <1>7, <3>2, <4>1 DEF Connects
      <4>3. CASE Len(sent[r]) >= 3
        BY <1>5, <4>2, <4>3 DEF Connects
      <4>4. CASE ~(Len(sent[r]) >= 3)
        <5>1. Len(sent[r]) = 2
          <6>1. \A n \in 0 .. 4 : n + 1 >= 3 /\ ~(n >= 3) => n = 2
            OBVIOUS
          <6> QED
            BY <1>2, <4>2, <4>4, <6>1, Zenon
        <5>2. site = "verdicts"
          BY <1>1, <4>2, <5>1
        <5> QED
          BY <5>2 DEF Connects
      <4> QED
        BY <4>3, <4>4
    <3> QED
      BY <3>1, <3>2
  <2>2. AllExchanged
    BY <2>1 DEF TrackInv
  <2>3. ASSUME NEW q \in Ranks PROVE Len(sent'[q]) >= 2 /\ sent'[q][2].site = "exchange"
    <3>1. Len(sent[q]) >= 2 /\ sent[q][2].site = "exchange" /\ Len(sent[q]) \in 0 .. 4
      BY <1>2, <2>2 DEF AllExchanged
    <3>2. Len(sent'[q]) = Len(sent[q]) \/ Len(sent'[q]) = Len(sent[q]) + 1
      BY <1>1
    <3>3. \A n \in 0 .. 4 : n >= 2 => n + 1 >= 2
      OBVIOUS
    <3> QED
      BY <1>5, <3>1, <3>2, <3>3
  <2> QED
    BY <2>3 DEF AllExchanged
<1> QED
  BY <1>6, <1>7 DEF TrackInv

(* A step that enters no gather.                                           *)
LEMMA MoveTracks ==
  ASSUME IInv, TrackInv, NEW r \in Ranks, NEW x \in Places, pc' = [pc EXCEPT ![r] = x], sent' = sent,
         x \notin {"exchange", "verdicts"},
         x = "prepare" => pc[r] = "verdicts",
         x = "connect" => AllExchanged
  PROVE  TrackInv'
<1>1. \A p \in Ranks : pc'[p] = IF p = r THEN x ELSE pc[p]
  BY DEF IInv, TypeOK
<1>2. Tracks'
  BY <1>1 DEF TrackInv, Tracks, Follows
<1>3. AllExchanged' <=> AllExchanged
  BY DEF AllExchanged
<1>4. ASSUME NEW p \in Ranks, Connects(p)' PROVE AllExchanged
  <2>1. Connects(p) \/ x = "connect"
    BY <1>1, <1>4 DEF Connects
  <2> QED
    BY <2>1 DEF TrackInv
<1> QED
  BY <1>2, <1>3, <1>4 DEF TrackInv

(* Every step keeps to the tracks, failures before the first exchange,     *)
(* killed processes and gathers that raise included.                       *)
LEMMA NextTracks == ASSUME IInv, TrackInv, [Next]_vars PROVE TrackInv'
<1>1. CASE UNCHANGED vars
  BY <1>1 DEF vars, TrackInv, Tracks, Follows, Connects, AllExchanged
<1>2. CASE Next
  <2>1. PICK r \in Ranks : Step(r) \/ Crash(r)
    BY <1>2 DEF Next
  <2>0. Gathers \subseteq Places /\ NoData \in Data /\ "agree" \in Gathers /\ "raised" \in Places /\ "nccl" \in Places
    BY DEF Places, Data, Gathers, Settled, Gone
  <2>2. CASE LocalCapability(r)
    <3>1. PICK bad \in BOOLEAN, l \in Data : Enter(r, "vote", bad, l)
      BY <2>2 DEF LocalCapability, Data
    <3>2. pc[r] = "check" /\ "vote" \in Gathers
      BY <2>2 DEF LocalCapability, Gathers
    <3> QED
      BY <3>1, <3>2, EnterTracks
  <2>3. CASE ReceiveVote(r)
    <3>1. PICK x \in {"construct", "raised", "nccl"} : pc' = [pc EXCEPT ![r] = x]
      BY <2>3 DEF ReceiveVote, GiveUp
    <3>2. x \in Places /\ x \notin {"exchange", "verdicts", "prepare", "connect"} /\ sent' = sent
      BY <2>3 DEF ReceiveVote, Places, Settled, Gone
    <3> QED
      BY <3>1, <3>2, MoveTracks
  <2>4. CASE ConstructFailsEarly(r)
    <3>1. Enter(r, "agree", TRUE, NoData) /\ pc[r] = "construct"
      BY <2>4 DEF ConstructFailsEarly
    <3> QED
      BY <2>0, <3>1, EnterTracks
  <2>5. CASE CreateProxy(r)
    <3>1. PICK ok \in BOOLEAN, c \in Configs : Enter(r, "exchange", ~ok, c)
      BY <2>5 DEF CreateProxy
    <3>2. pc[r] = "construct" /\ "exchange" \in Gathers /\ c \in Data /\ (~ok) \in BOOLEAN
      BY <2>5 DEF CreateProxy, Gathers, Data
    <3> QED
      BY <3>1, <3>2, EnterTracks
  <2>6. CASE ReceiveExchange(r)
    <3>1. pc[r] = "exchange" /\ Complete(r)
      BY <2>6 DEF ReceiveExchange
    <3>2. CASE SetupFailed(r)
      <4>1. Enter(r, "agree", TRUE, NoData)
        BY <2>6, <3>2 DEF ReceiveExchange, Abort
      <4> QED
        BY <2>0, <3>1, <4>1, EnterTracks
    <3>3. CASE ~SetupFailed(r)
      <4>1. pc' = [pc EXCEPT ![r] = "connect"] /\ sent' = sent /\ "connect" \in Places
        BY <2>6, <3>3 DEF ReceiveExchange, Places
      <4>2. Len(sent[r]) = 2
        BY <3>1, RankFacts
      <4>3. AllExchanged
        BY <3>1, <3>3, <4>2 DEF Complete, SetupFailed, Given, AllExchanged
      <4> QED
        BY <4>1, <4>3, MoveTracks
    <3> QED
      BY <3>2, <3>3
  <2>7. CASE ConnectStart(r)
    <3>1. PICK ok \in BOOLEAN : Enter(r, "verdicts", ~ok, NoData)
      BY <2>7 DEF ConnectStart
    <3>2. pc[r] = "connect" /\ "verdicts" \in Gathers /\ (~ok) \in BOOLEAN
      BY <2>7 DEF ConnectStart, Gathers
    <3> QED
      BY <2>0, <3>1, <3>2, EnterTracks
  <2>8. CASE ReceiveVerdicts(r)
    <3>1. pc[r] = "verdicts"
      BY <2>8 DEF ReceiveVerdicts
    <3>2. CASE Enter(r, "agree", TRUE, NoData)
      BY <2>0, <3>1, <3>2, EnterTracks
    <3>3. CASE pc' = [pc EXCEPT ![r] = "prepare"] /\ sent' = sent
      <4>1. "prepare" \in Places
        BY DEF Places
      <4> QED
        BY <3>1, <3>3, <4>1, MoveTracks
    <3> QED
      BY <2>8, <3>2, <3>3 DEF ReceiveVerdicts, Abort
  <2>9. CASE Prepare(r)
    <3>1. PICK ok \in BOOLEAN : Enter(r, "agree", ~ok, NoData)
      BY <2>9 DEF Prepare
    <3>2. pc[r] = "prepare" /\ (~ok) \in BOOLEAN
      BY <2>9 DEF Prepare
    <3> QED
      BY <2>0, <3>1, <3>2, EnterTracks
  <2>10. CASE ReceiveAgreement(r)
    <3>1. PICK x \in {"ready", "raised", "nccl"} : pc' = [pc EXCEPT ![r] = x]
      BY <2>10 DEF ReceiveAgreement, GiveUp
    <3>2. x \in Places /\ x \notin {"exchange", "verdicts", "prepare", "connect"} /\ sent' = sent
      BY <2>10 DEF ReceiveAgreement, Places, Settled, Gone
    <3> QED
      BY <3>1, <3>2, MoveTracks
  <2>11. CASE PeerLost(r)
    <3>1. CASE pc[r] \in {"exchange", "verdicts"}
      <4>1. Enter(r, "agree", TRUE, NoData)
        BY <2>11, <3>1 DEF PeerLost, Abort
      <4> QED
        BY <2>0, <3>1, <4>1, EnterTracks
    <3>2. CASE pc[r] \notin {"exchange", "verdicts"}
      <4>1. pc' = [pc EXCEPT ![r] = "raised"] /\ sent' = sent
        BY <2>11, <3>2 DEF PeerLost
      <4> QED
        BY <2>0, <4>1, MoveTracks
    <3> QED
      BY <3>1, <3>2
  <2>12. CASE Crash(r)
    <3>1. pc' = [pc EXCEPT ![r] = "crashed"] /\ sent' = sent /\ "crashed" \in Places
      BY <2>12 DEF Crash, Places, Settled, Gone
    <3> QED
      BY <3>1, MoveTracks
  <2> QED
    BY <2>1, <2>2, <2>3, <2>4, <2>5, <2>6, <2>7, <2>8, <2>9, <2>10, <2>11, <2>12 DEF Step
<1> QED
  BY <1>1, <1>2

(* No gathers at first.                                                    *)
LEMMA InitTracks == Init => TrackInv
<1> SUFFICES ASSUME Init PROVE TrackInv
  OBVIOUS
<1>1. \A r \in Ranks : pc[r] = "check" /\ Len(sent[r]) = 0
  BY EmptySeq DEF Init
<1>2. ~(0 >= 1) /\ ~(0 >= 2) /\ ~(0 >= 3) /\ ~(0 >= 4)
  OBVIOUS
<1> QED
  BY <1>1, <1>2 DEF TrackInv, Tracks, Follows, Connects

(* No constructor has failed before its first exchange.                    *)
ReachedExchange == \A r \in Ranks : ~Strayed(r)

(* What the ranks gave to their first, and to their second gather, lets    *)
(* them go on.                                                             *)
VoteOk == \A p \in Ranks : ~sent[p][1].bad /\ sent[p][1].data = sent[0][1].data
SetupOk ==
  \A p \in Ranks : /\ ~sent[p][2].bad /\ sent[p][2].site = "exchange"
                   /\ sent[p][2].data = sent[0][2].data

AllAt(k) == \A p \in Ranks : Len(sent[p]) >= k

(* All ranks draw the same conclusion from a gather, so that the third one *)
(* is the same call on all of them; whoever raises does so when no rank    *)
(* can be waiting in a gather that the others leave out.                   *)
VotePassed == \A r \in Ranks : pc[r] = "construct" \/ Len(sent[r]) >= 2 => AllAt(1) /\ VoteOk
Sites ==
  \A r \in Ranks :
    /\ Len(sent[r]) >= 1 => sent[r][1].site = "vote"
    /\ Len(sent[r]) >= 4 => sent[r][4].site = "agree"
    /\ pc[r] = "agree" => sent[r][Len(sent[r])].site = "agree"
Thirds ==
  \A r \in Ranks :
    /\ pc[r] = "connect" => AllAt(2) /\ SetupOk
    /\ Len(sent[r]) >= 3 => AllAt(2) /\ sent[r][3].site = IF SetupOk THEN "verdicts" ELSE "agree"
RaisedTogether ==
  \A r \in Ranks : pc[r] = "raised" =>
    \/ (\A p \in Ranks : Len(sent[p]) = 1) /\ ~VoteOk
    \/ AllAt(3)

Undisturbed == crashes = 0 /\ ReachedExchange
MeetInv == Undisturbed => VotePassed /\ Sites /\ Thirds /\ RaisedTogether

(* What was given to a gather stays.                                       *)
LEMMA ReachedBefore ==
  ASSUME \A p \in Ranks : Len(sent[p]) \in 0 .. 4 /\ Len(sent'[p]) \in 0 .. 4 /\ Len(sent[p]) <= Len(sent'[p]),
         \A p \in Ranks : \A k \in 1 .. Len(sent[p]) : sent'[p][k] = sent[p][k],
         ReachedExchange'
  PROVE  ReachedExchange
<1> SUFFICES ASSUME NEW p \in Ranks, Len(sent[p]) > 1 PROVE sent[p][2].site = "exchange"
  BY DEF ReachedExchange, Strayed
<1>1. Len(sent'[p]) > 1 /\ 2 \in 1 .. Len(sent[p])
  OBVIOUS
<1> QED
  BY <1>1 DEF ReachedExchange, Strayed

(* Entering a gather.                                                      *)
LEMMA EnterMeets ==
  ASSUME IInv, MeetInv, IInv', NEW r \in Ranks, NEW site \in Gathers, NEW bad \in BOOLEAN, NEW data \in Data,
         Enter(r, site, bad, data), crashes' = crashes,
         pc[r] \notin Settled,
         site = "vote" <=> Len(sent[r]) = 0,
         Len(sent[r]) = 1 => pc[r] = "construct",
         Undisturbed /\ Len(sent[r]) = 2 =>
           AllAt(2) /\ site = IF SetupOk THEN "verdicts" ELSE "agree",
         Len(sent[r]) = 3 => site = "agree"
  PROVE  MeetInv'
<1> SUFFICES ASSUME Undisturbed' PROVE VotePassed' /\ Sites' /\ Thirds' /\ RaisedTogether'
  BY DEF MeetInv
<1> DEFINE L == Len(sent[r])
<1>1. /\ \A p \in Ranks : pc'[p] = IF p = r THEN site ELSE pc[p]
      /\ \A p \in Ranks : Len(sent'[p]) = IF p = r THEN Len(sent[p]) + 1 ELSE Len(sent[p])
      /\ \A p \in Ranks : \A k \in 1 .. Len(sent[p]) : sent'[p][k] = sent[p][k]
      /\ sent'[r][L + 1].site = site
  BY EnterFacts DEF IInv
<1>2. \A p \in Ranks : Len(sent[p]) \in 0 .. 4
  BY LengthType DEF IInv
<1>3. \A p \in Ranks : Len(sent'[p]) \in 0 .. 4
  <2>1. ASSUME NEW p \in Ranks PROVE Len(sent'[p]) \in 0 .. 4
    <3>1. sent'[p] \in Seq(Values) /\ Len(sent'[p]) <= 4
      BY DEF IInv, TypeOK
    <3>2. Len(sent'[p]) \in Nat
      BY <3>1, LenProperties
    <3> HIDE DEF IInv, TypeOK
    <3>3. \A n \in Nat : n <= 4 => n \in 0 .. 4
      OBVIOUS
    <3> QED
      BY <3>1, <3>2, <3>3, Zenon
  <2> QED
    BY <2>1
<1>4. ReachedExchange
  BY <1>1, <1>2, <1>3, ReachedBefore DEF Undisturbed
<1>5. Undisturbed /\ VotePassed /\ Sites /\ Thirds /\ RaisedTogether
  BY <1>4 DEF Undisturbed, MeetInv
<1>6. 0 \in Ranks
  BY SetupAssumption DEF Ranks
<1>7. /\ L \in 0 .. 3 /\ Len(sent'[r]) = L + 1
      /\ \A p \in Ranks : p # r => Len(sent'[p]) = Len(sent[p])
  <2>1. Len(sent'[r]) = L + 1 /\ \A p \in Ranks : p # r => Len(sent'[p]) = Len(sent[p])
    BY <1>1, Zenon
  <2>2. L \in 0 .. 4 /\ L + 1 \in 0 .. 4
    BY <1>2, <1>3, <2>1, Zenon
  <2>3. \A n \in 0 .. 4 : n + 1 \in 0 .. 4 => n \in 0 .. 3
    OBVIOUS
  <2> QED
    BY <2>1, <2>2, <2>3, Zenon
<1>8. ASSUME AllAt(1) PROVE AllAt(1)' /\ (VoteOk' <=> VoteOk)
  <2>1. \A p \in Ranks : 1 \in 1 .. Len(sent[p])
    BY <1>2, <1>8 DEF AllAt
  <2>2. \A p \in Ranks : sent'[p][1] = sent[p][1]
    BY <1>1, <2>1
  <2>3. AllAt(1)'
    BY <1>1, <1>2, <1>8 DEF AllAt
  <2> QED
    BY <1>6, <2>2, <2>3, Zenon DEF VoteOk
<1>9. ASSUME AllAt(2) PROVE AllAt(2)' /\ (SetupOk' <=> SetupOk)
  <2>1. \A p \in Ranks : 2 \in 1 .. Len(sent[p])
    BY <1>2, <1>9 DEF AllAt
  <2>2. \A p \in Ranks : sent'[p][2] = sent[p][2]
    BY <1>1, <2>1
  <2>3. AllAt(2)'
    BY <1>1, <1>2, <1>9 DEF AllAt
  <2> QED
    BY <1>6, <2>2, <2>3, Zenon DEF SetupOk
<1>10. VotePassed'
  <2> SUFFICES ASSUME NEW q \in Ranks, pc'[q] = "construct" \/ Len(sent'[q]) >= 2
               PROVE  AllAt(1)' /\ VoteOk'
    BY DEF VotePassed
  <2>1. pc[q] = "construct" \/ Len(sent[q]) >= 2
    <3>1. \A n \in 0 .. 3 : n + 1 >= 2 => n = 1 \/ n >= 2
      OBVIOUS
    <3>2. site # "construct"
      BY DEF Gathers
    <3>3. CASE q = r
      BY <1>1, <1>7, <3>1, <3>2, <3>3, Zenon
    <3>4. CASE q # r
      BY <1>1, <1>7, <3>4, Zenon
    <3> QED
      BY <3>3, <3>4
  <2> QED
    BY <1>5, <1>8, <2>1 DEF VotePassed
<1>11. Sites'
  <2> SUFFICES ASSUME NEW q \in Ranks
               PROVE  /\ Len(sent'[q]) >= 1 => sent'[q][1].site = "vote"
                      /\ Len(sent'[q]) >= 4 => sent'[q][4].site = "agree"
                      /\ pc'[q] = "agree" => sent'[q][Len(sent'[q])].site = "agree"
    BY DEF Sites
  <2>1. CASE q # r
    <3>1. Len(sent'[q]) = Len(sent[q]) /\ pc'[q] = pc[q]
      BY <1>1, <2>1
    <3>2. Len(sent[q]) >= 1 => sent'[q][1].site = "vote"
      BY <1>1, <1>2, <1>5 DEF Sites
    <3>3. Len(sent[q]) >= 4 => sent'[q][4].site = "agree"
      BY <1>1, <1>2, <1>5 DEF Sites
    <3>4. ASSUME pc[q] = "agree" PROVE sent'[q][Len(sent[q])].site = "agree"
      <4>1. \A n \in 2 .. 4 : n \in 1 .. n
        OBVIOUS
      <4>2. Len(sent[q]) \in 1 .. Len(sent[q])
        BY <3>4, <4>1, RankFacts, Zenon
      <4> QED
        BY <1>1, <1>5, <3>4, <4>2 DEF Sites
    <3> QED
      BY <3>1, <3>2, <3>3, <3>4
  <2>2. CASE q = r
    <3>1. L >= 1 => sent'[r][1].site = "vote"
      BY <1>1, <1>5, <1>7 DEF Sites
    <3>2. L = 0 => sent'[r][1].site = "vote"
      BY <1>1
    <3>3. L = 3 => sent'[r][4].site = "agree"
      BY <1>1
    <3>4. pc'[r] = site /\ Len(sent'[r]) = L + 1 /\ sent'[r][L + 1].site = site
      BY <1>1
    <3>5. L \in 0 .. 3
      BY <1>7
    <3>6. sent'[r][1].site = "vote"
      <4>1. \A n \in 0 .. 3 : n = 0 \/ n >= 1
        OBVIOUS
      <4> QED
        BY <3>1, <3>2, <3>5, <4>1, Zenon
    <3>7. L + 1 >= 4 => L = 3
      <4>1. \A n \in 0 .. 3 : n + 1 >= 4 => n = 3
        OBVIOUS
      <4> QED
        BY <3>5, <4>1, Zenon
    <3> QED
      BY <2>2, <3>3, <3>4, <3>6, <3>7, Zenon
  <2> QED
    BY <2>1, <2>2
<1>12. Thirds'
  <2> SUFFICES ASSUME NEW q \in Ranks
               PROVE  /\ pc'[q] = "connect" => AllAt(2)' /\ SetupOk'
                      /\ Len(sent'[q]) >= 3 =>
                           AllAt(2)' /\ sent'[q][3].site = IF SetupOk' THEN "verdicts" ELSE "agree"
    BY DEF Thirds
  <2>1. ASSUME pc'[q] = "connect" PROVE AllAt(2)' /\ SetupOk'
    <3>1. pc[q] = "connect"
      BY <1>1, <2>1 DEF Gathers
    <3> QED
      BY <1>5, <1>9, <3>1 DEF Thirds
  <2>2. ASSUME Len(sent[q]) >= 3
        PROVE  AllAt(2)' /\ sent'[q][3].site = IF SetupOk' THEN "verdicts" ELSE "agree"
    <3>1. AllAt(2) /\ sent[q][3].site = IF SetupOk THEN "verdicts" ELSE "agree"
      BY <1>5, <2>2 DEF Thirds
    <3>2. sent'[q][3] = sent[q][3]
      BY <1>1, <1>2, <2>2
    <3> QED
      BY <1>9, <3>1, <3>2
  <2>3. ASSUME ~(Len(sent[q]) >= 3), Len(sent'[q]) >= 3
        PROVE  AllAt(2)' /\ sent'[q][3].site = IF SetupOk' THEN "verdicts" ELSE "agree"
    <3>1. q = r /\ L = 2
      <4>1. q = r
        BY <1>7, <2>3, Zenon
      <4>2. \A n \in 0 .. 3 : n + 1 >= 3 /\ ~(n >= 3) => n = 2
        OBVIOUS
      <4> QED
        BY <1>7, <2>3, <4>1, <4>2, Zenon
    <3>2. AllAt(2) /\ site = IF SetupOk THEN "verdicts" ELSE "agree"
      BY <1>5, <3>1
    <3>3. sent'[q][3].site = site
      BY <1>1, <3>1
    <3> QED
      BY <1>9, <3>2, <3>3
  <2> QED
    BY <2>1, <2>2, <2>3
<1>13. RaisedTogether'
  <2> SUFFICES ASSUME NEW q \in Ranks, pc'[q] = "raised"
               PROVE  ((\A p \in Ranks : Len(sent'[p]) = 1) /\ ~VoteOk') \/ AllAt(3)'
    BY DEF RaisedTogether
  <2>1. pc[q] = "raised"
    BY <1>1 DEF Gathers
  <2>2. CASE AllAt(3)
    BY <1>1, <1>2, <2>2 DEF AllAt
  <2>3. CASE (\A p \in Ranks : Len(sent[p]) = 1) /\ ~VoteOk
    <3>1. pc[r] = "construct"
      BY <2>3
    <3> QED
      BY <1>5, <2>3, <3>1 DEF VotePassed
  <2> QED
    BY <1>5, <2>1, <2>2, <2>3 DEF RaisedTogether
<1> QED
  BY <1>10, <1>11, <1>12, <1>13

(* A step that enters no gather.                                           *)
LEMMA MoveMeets ==
  ASSUME IInv, MeetInv, NEW r \in Ranks, NEW x \in Places \ {"agree"}, pc' = [pc EXCEPT ![r] = x],
         sent' = sent, crashes' = 0 => crashes = 0,
         Undisturbed /\ x = "construct" => AllAt(1) /\ VoteOk,
         Undisturbed /\ x = "connect" => AllAt(2) /\ SetupOk,
         Undisturbed /\ x = "raised" =>
           ((\A p \in Ranks : Len(sent[p]) = 1) /\ ~VoteOk) \/ AllAt(3)
  PROVE  MeetInv'
<1> SUFFICES ASSUME Undisturbed' PROVE VotePassed' /\ Sites' /\ Thirds' /\ RaisedTogether'
  BY DEF MeetInv
<1>1. Undisturbed /\ VotePassed /\ Sites /\ Thirds /\ RaisedTogether
  BY DEF Undisturbed, ReachedExchange, Strayed, MeetInv
<1>2. \A p \in Ranks : pc'[p] = IF p = r THEN x ELSE pc[p]
  BY DEF IInv, TypeOK
<1>3. (AllAt(1)' <=> AllAt(1)) /\ (AllAt(2)' <=> AllAt(2)) /\ (AllAt(3)' <=> AllAt(3))
  BY DEF AllAt
<1>4. (VoteOk' <=> VoteOk) /\ (SetupOk' <=> SetupOk)
  BY DEF VoteOk, SetupOk
<1>5. VotePassed'
  BY <1>1, <1>2, <1>3, <1>4, Zenon DEF VotePassed
<1>6. Sites'
  BY <1>1, <1>2 DEF Sites
<1>7. Thirds'
  BY <1>1, <1>2, <1>3, <1>4 DEF Thirds
<1>8. RaisedTogether'
  BY <1>1, <1>2, <1>3, <1>4 DEF RaisedTogether
<1> QED
  BY <1>5, <1>6, <1>7, <1>8

(* The vote: it is decided for all ranks by the same values.               *)
LEMMA VoteMeets ==
  ASSUME IInv, MeetInv, IInv', NEW r \in Ranks,
         LocalCapability(r) \/ ReceiveVote(r) \/ ConstructFailsEarly(r) \/ CreateProxy(r)
  PROVE  MeetInv'
<1>1. CASE LocalCapability(r)
  <2>1. PICK bad \in BOOLEAN, l \in Limits \cup {NoData} : Enter(r, "vote", bad, l)
    BY <1>1 DEF LocalCapability
  <2>2. pc[r] = "check" /\ Len(sent[r]) = 0
    BY <1>1, RankFacts DEF LocalCapability
  <2>3. l \in Data /\ "vote" \in Gathers /\ pc[r] \notin Settled /\ crashes' = crashes
    BY <1>1, <2>2 DEF LocalCapability, Data, Gathers, Settled, Gone
  <2>4. 0 # 1 /\ 0 # 2 /\ 0 # 3
    OBVIOUS
  <2> QED
    BY <2>1, <2>2, <2>3, <2>4, EnterMeets
<1>2. CASE ReceiveVote(r)
  <2>1. pc[r] = "vote" /\ Len(sent[r]) = 1 /\ Complete(r) /\ sent' = sent /\ crashes' = crashes
    BY <1>2, RankFacts DEF ReceiveVote
  <2>2. AllAt(1)
    BY <2>1 DEF Complete, AllAt
  <2>3. VoteFailed(r) <=> ~VoteOk
    BY <2>1 DEF VoteFailed, Given, VoteOk
  <2>4. CASE ~VoteFailed(r)
    <3>1. pc' = [pc EXCEPT ![r] = "construct"] /\ "construct" \in Places \ {"agree"}
      BY <1>2, <2>4 DEF ReceiveVote, Places
    <3> QED
      BY <2>1, <2>2, <2>3, <2>4, <3>1, MoveMeets
  <2>5. CASE VoteFailed(r)
    <3>1. PICK x \in {"raised", "nccl"} : pc' = [pc EXCEPT ![r] = x]
      BY <1>2, <2>5 DEF ReceiveVote, GiveUp
    <3>2. x \in Places \ {"agree"} /\ x # "construct" /\ x # "connect"
      BY DEF Places, Settled, Gone
    <3>3. ASSUME Undisturbed PROVE (\A p \in Ranks : Len(sent[p]) = 1) /\ ~VoteOk
      <4>1. VotePassed /\ ~VoteOk
        BY <2>3, <2>5, <3>3 DEF MeetInv
      <4>2. ASSUME NEW p \in Ranks PROVE Len(sent[p]) = 1
        <5>1. Len(sent[p]) >= 1 /\ ~(Len(sent[p]) >= 2)
          BY <2>2, <4>1 DEF AllAt, VotePassed
        <5>2. Len(sent[p]) \in 0 .. 4
          BY LengthType DEF IInv
        <5>3. \A n \in 0 .. 4 : n >= 1 /\ ~(n >= 2) => n = 1
          OBVIOUS
        <5> QED
          BY <5>1, <5>2, <5>3, Zenon
      <4> QED
        BY <4>1, <4>2
    <3> QED
      BY <2>1, <3>1, <3>2, <3>3, MoveMeets
  <2> QED
    BY <2>4, <2>5
<1>3. CASE CreateProxy(r)
  <2>1. PICK ok \in BOOLEAN, c \in Configs : Enter(r, "exchange", ~ok, c)
    BY <1>3 DEF CreateProxy
  <2>2. pc[r] = "construct" /\ Len(sent[r]) = 1
    BY <1>3, RankFacts DEF CreateProxy
  <2>3. c \in Data /\ "exchange" \in Gathers /\ pc[r] \notin Settled /\ crashes' = crashes
    BY <1>3, <2>2 DEF CreateProxy, Data, Gathers, Settled, Gone
  <2>4. 1 # 0 /\ 1 # 2 /\ 1 # 3 /\ "exchange" # "vote"
    OBVIOUS
  <2>5. (~ok) \in BOOLEAN
    OBVIOUS
  <2> QED
    BY <2>1, <2>2, <2>3, <2>4, <2>5, EnterMeets
<1>4. CASE ConstructFailsEarly(r)
  <2>1. pc[r] = "construct" /\ Len(sent[r]) = 1 /\ Enter(r, "agree", TRUE, NoData)
    BY <1>4, RankFacts DEF ConstructFailsEarly
  <2>2. NoData \in Data /\ "agree" \in Gathers
    BY DEF Data, Gathers
  <2>3. Len(sent'[r]) = 1 + 1 /\ sent'[r][1 + 1].site = "agree"
    BY <2>1, <2>2, EnterFacts DEF IInv
  <2>4. Len(sent'[r]) > 1 /\ sent'[r][2].site # "exchange"
    BY <2>3
  <2>5. ~ReachedExchange'
    BY <2>4 DEF ReachedExchange, Strayed
  <2> QED
    BY <2>5 DEF MeetInv, Undisturbed
<1> QED
  BY <1>1, <1>2, <1>3, <1>4

(* The constructor's two exchanges.                                        *)
LEMMA ExchangeMeets ==
  ASSUME IInv, MeetInv, IInv', NEW r \in Ranks,
         ReceiveExchange(r) \/ ConnectStart(r) \/ ReceiveVerdicts(r) \/ Prepare(r)
  PROVE  MeetInv'
<1>1. CASE ReceiveExchange(r)
  <2>1. pc[r] = "exchange" /\ Len(sent[r]) = 2 /\ Complete(r) /\ crashes' = crashes
    BY <1>1, RankFacts DEF ReceiveExchange
  <2>2. AllAt(2)
    BY <2>1 DEF Complete, AllAt
  <2>3. SetupFailed(r) <=> ~SetupOk
    BY <2>1 DEF SetupFailed, Given, SetupOk
  <2>4. CASE SetupFailed(r)
    <3>1. Enter(r, "agree", TRUE, NoData)
      BY <1>1, <2>4 DEF ReceiveExchange, Abort
    <3>2. NoData \in Data /\ "agree" \in Gathers /\ pc[r] \notin Settled
      BY <2>1 DEF Data, Gathers, Settled, Gone
    <3>3. 2 # 0 /\ 2 # 1 /\ 2 # 3 /\ "agree" # "vote"
      OBVIOUS
    <3> QED
      BY <2>1, <2>2, <2>3, <2>4, <3>1, <3>2, <3>3, EnterMeets
  <2>5. CASE ~SetupFailed(r)
    <3>1. pc' = [pc EXCEPT ![r] = "connect"] /\ sent' = sent /\ "connect" \in Places \ {"agree"}
      BY <1>1, <2>5 DEF ReceiveExchange, Places
    <3> QED
      BY <2>1, <2>2, <2>3, <2>5, <3>1, MoveMeets
  <2> QED
    BY <2>4, <2>5
<1>2. CASE ConnectStart(r)
  <2>1. PICK ok \in BOOLEAN : Enter(r, "verdicts", ~ok, NoData)
    BY <1>2 DEF ConnectStart
  <2>2. pc[r] = "connect" /\ Len(sent[r]) = 2 /\ crashes' = crashes
    BY <1>2, RankFacts DEF ConnectStart
  <2>3. NoData \in Data /\ "verdicts" \in Gathers /\ pc[r] \notin Settled
    BY <2>2 DEF Data, Gathers, Settled, Gone
  <2>4. 2 # 0 /\ 2 # 1 /\ 2 # 3 /\ "verdicts" # "vote"
    OBVIOUS
  <2>5. Undisturbed => AllAt(2) /\ SetupOk
    BY <2>2 DEF MeetInv, Thirds
  <2>6. (~ok) \in BOOLEAN
    OBVIOUS
  <2> QED
    BY <2>1, <2>2, <2>3, <2>4, <2>5, <2>6, EnterMeets
<1>3. CASE ReceiveVerdicts(r)
  <2>1. pc[r] = "verdicts" /\ Len(sent[r]) = 3 /\ crashes' = crashes
    BY <1>3, RankFacts DEF ReceiveVerdicts
  <2>2. CASE pc' = [pc EXCEPT ![r] = "prepare"] /\ sent' = sent
    <3>1. "prepare" \in Places \ {"agree"}
      BY DEF Places
    <3> QED
      BY <2>1, <2>2, <3>1, MoveMeets
  <2>3. CASE Enter(r, "agree", TRUE, NoData)
    <3>1. NoData \in Data /\ "agree" \in Gathers /\ pc[r] \notin Settled
      BY <2>1 DEF Data, Gathers, Settled, Gone
    <3>2. 3 # 0 /\ 3 # 1 /\ 3 # 2 /\ "agree" # "vote"
      OBVIOUS
    <3> QED
      BY <2>1, <2>3, <3>1, <3>2, EnterMeets
  <2> QED
    BY <1>3, <2>2, <2>3 DEF ReceiveVerdicts, Abort
<1>4. CASE Prepare(r)
  <2>1. PICK ok \in BOOLEAN : Enter(r, "agree", ~ok, NoData)
    BY <1>4 DEF Prepare
  <2>2. pc[r] = "prepare" /\ Len(sent[r]) = 3 /\ crashes' = crashes
    BY <1>4, RankFacts DEF Prepare
  <2>3. NoData \in Data /\ "agree" \in Gathers /\ pc[r] \notin Settled
    BY <2>2 DEF Data, Gathers, Settled, Gone
  <2>4. 3 # 0 /\ 3 # 1 /\ 3 # 2 /\ "agree" # "vote"
    OBVIOUS
  <2>5. (~ok) \in BOOLEAN
    OBVIOUS
  <2> QED
    BY <2>1, <2>2, <2>3, <2>4, <2>5, EnterMeets
<1> QED
  BY <1>1, <1>2, <1>3, <1>4

(* In the last gather all ranks have made their second exchange, or have   *)
(* all left it out; nobody waits in one that the others skipped.           *)
LEMMA LateMeets ==
  ASSUME IInv, MeetInv, NEW r \in Ranks, Undisturbed, pc[r] = "agree"
  PROVE  Len(sent[r]) >= 3
<1>1. Len(sent[r]) \in 2 .. 4
  BY RankFacts
<1>2. sent[r][Len(sent[r])].site = "agree"
  BY DEF MeetInv, Sites
<1>3. CASE Len(sent[r]) = 2
  <2>1. Len(sent[r]) > 1
    BY <1>3
  <2>2. sent[r][2].site = "exchange"
    BY <2>1 DEF Undisturbed, ReachedExchange, Strayed
  <2> QED
    BY <1>2, <1>3, <2>2
<1>4. \A n \in 2 .. 4 : n # 2 => n >= 3
  OBVIOUS
<1> QED
  BY <1>1, <1>3, <1>4, Zenon

(* The steps of the vote and of the agreement.                             *)
LEMMA AgreementMeets ==
  ASSUME IInv, MeetInv, NEW r \in Ranks, ReceiveAgreement(r) \/ Crash(r)
  PROVE  MeetInv'
<1>1. CASE ReceiveAgreement(r)
  <2>1. pc[r] = "agree" /\ Complete(r) /\ sent' = sent /\ crashes' = crashes
    BY <1>1 DEF ReceiveAgreement
  <2>2. PICK x \in {"ready", "raised", "nccl"} : pc' = [pc EXCEPT ![r] = x]
    BY <1>1 DEF ReceiveAgreement, GiveUp
  <2>3. x \in Places \ {"agree"} /\ x # "construct" /\ x # "connect"
    BY DEF Places, Settled, Gone
  <2>4. ASSUME Undisturbed PROVE AllAt(3)
    <3>1. Len(sent[r]) >= 3 /\ Len(sent[r]) \in 0 .. 4
      BY <2>1, <2>4, LateMeets, LengthType DEF IInv
    <3>2. ASSUME NEW p \in Ranks PROVE Len(sent[p]) >= 3
      <4>1. Len(sent[p]) >= Len(sent[r]) /\ Len(sent[p]) \in 0 .. 4
        BY <2>1, LengthType DEF Complete, IInv
      <4>2. \A n, m \in 0 .. 4 : n >= 3 /\ m >= n => m >= 3
        OBVIOUS
      <4> QED
        BY <3>1, <4>1, <4>2, Zenon
    <3> QED
      BY <3>2 DEF AllAt
  <2> QED
    BY <2>1, <2>2, <2>3, <2>4, MoveMeets
<1>2. CASE Crash(r)
  <2>1. crashes' # 0
    BY <1>2 DEF Crash, IInv, TypeOK
  <2> QED
    BY <2>1 DEF MeetInv, Undisturbed
<1> QED
  BY <1>1, <1>2

(* A gather that raises: somebody else has raised, for one of the reasons  *)
(* that RaisedTogether names, and then no rank waits in an exchange.       *)
LEMMA LossMeets ==
  ASSUME IInv, MeetInv, IInv', NEW r \in Ranks, PeerLost(r)
  PROVE  MeetInv'
<1>1. pc[r] \in Gathers /\ crashes' = crashes
  BY DEF PeerLost
<1>2. PICK p \in Ranks : pc[p] \in Gone
  BY DEF PeerLost
<1>3. Undisturbed => ((\A q \in Ranks : Len(sent[q]) = 1) /\ ~VoteOk) \/ AllAt(3)
  <2> SUFFICES ASSUME Undisturbed PROVE ((\A q \in Ranks : Len(sent[q]) = 1) /\ ~VoteOk) \/ AllAt(3)
    OBVIOUS
  <2>1. pc[p] = "raised"
    BY <1>2 DEF Gone, IInv, CrashCounted, Undisturbed
  <2> QED
    BY <2>1 DEF MeetInv, RaisedTogether
<1>4. CASE pc[r] \notin {"exchange", "verdicts"}
  <2>1. pc' = [pc EXCEPT ![r] = "raised"] /\ sent' = sent
    BY <1>4 DEF PeerLost
  <2>2. "raised" \in Places \ {"agree"}
    BY DEF Places, Settled, Gone
  <2> QED
    BY <1>1, <1>3, <2>1, <2>2, MoveMeets
<1>5. CASE pc[r] \in {"exchange", "verdicts"}
  <2>1. Enter(r, "agree", TRUE, NoData)
    BY <1>5 DEF PeerLost, Abort
  <2>2. NoData \in Data /\ "agree" \in Gathers /\ pc[r] \notin Settled
    BY <1>5 DEF Data, Gathers, Settled, Gone
  <2>3. Len(sent[r]) = 2 \/ Len(sent[r]) = 3
    BY <1>5, RankFacts
  <2>4. CASE Len(sent[r]) = 3
    <3>1. 3 # 0 /\ 3 # 1 /\ 3 # 2 /\ "agree" # "vote"
      OBVIOUS
    <3> QED
      BY <1>1, <2>1, <2>2, <2>4, <3>1, EnterMeets
  <2>5. CASE Len(sent[r]) = 2
    <3>1. 2 # 0 /\ 2 # 1 /\ 2 # 3 /\ "agree" # "vote" /\ ~(2 >= 3)
      OBVIOUS
    <3>2. ~Undisturbed
      BY <1>3, <2>5, <3>1 DEF AllAt
    <3> QED
      BY <1>1, <2>1, <2>2, <2>5, <3>1, <3>2, EnterMeets
  <2> QED
    BY <2>3, <2>4, <2>5
<1> QED
  BY <1>4, <1>5

(* Every step keeps MeetInv.                                               *)
LEMMA NextMeets == ASSUME IInv, MeetInv, [Next]_vars PROVE MeetInv'
<1>1. IInv'
  BY Inductive
<1>2. CASE UNCHANGED vars
  BY <1>2 DEF vars, MeetInv, Undisturbed, ReachedExchange, Strayed, VotePassed, Sites, Thirds, RaisedTogether,
              AllAt, VoteOk, SetupOk
<1>3. CASE Next
  <2>1. PICK r \in Ranks : Step(r) \/ Crash(r)
    BY <1>3 DEF Next
  <2> QED
    BY <1>1, <2>1, VoteMeets, ExchangeMeets, AgreementMeets, LossMeets DEF Step
<1> QED
  BY <1>2, <1>3

(* No gathers at first.                                                    *)
LEMMA InitMeets == Init => MeetInv
<1> SUFFICES ASSUME Init PROVE MeetInv
  OBVIOUS
<1>1. \A r \in Ranks : pc[r] = "check" /\ Len(sent[r]) = 0
  BY EmptySeq DEF Init
<1>2. ~(0 >= 1) /\ ~(0 >= 2) /\ ~(0 >= 3) /\ ~(0 >= 4)
  OBVIOUS
<1> QED
  BY <1>1, <1>2 DEF MeetInv, VotePassed, Sites, Thirds, RaisedTogether

(* Where a constructor failed early, no rank connects, and the calls of    *)
(* the ranks differ in the second gather only; elsewhere MeetInv decides.  *)
LEMMA MeetPromise == ASSUME IInv, TrackInv, MeetInv PROVE ExchangesMatch
<1> SUFFICES ASSUME crashes = 0, NEW r \in Ranks, NEW p \in Ranks, NEW k \in 1 .. Len(sent[r]),
                    k <= Len(sent[p]), sent[r][k].site # sent[p][k].site
             PROVE  /\ Strayed(r) # Strayed(p)
                    /\ \A q \in Ranks : pc[q] \notin {"connect", "verdicts", "prepare", "ready"}
  BY DEF ExchangesMatch
<1>1. \A q \in Ranks : Len(sent[q]) \in 0 .. 4
  BY LengthType DEF IInv
<1>2. k \in 1 .. 4 /\ Len(sent[r]) >= k /\ Len(sent[p]) >= k
  <2>1. \A n, m \in 0 .. 4 : \A j \in 1 .. n : j <= m => j \in 1 .. 4 /\ n >= j /\ m >= j
    OBVIOUS
  <2> QED
    BY <1>1, <2>1, Zenon
<1>3. ~ReachedExchange
  <2> SUFFICES ASSUME ReachedExchange PROVE FALSE
    OBVIOUS
  <2>1. Sites /\ Thirds
    BY DEF MeetInv, Undisturbed
  <2>2. CASE k = 1
    BY <1>2, <2>1, <2>2 DEF Sites
  <2>3. CASE k = 2
    BY <1>1, <1>2, <2>3 DEF ReachedExchange, Strayed
  <2>4. CASE k = 3
    BY <1>2, <2>1, <2>4 DEF Thirds
  <2>5. CASE k = 4
    BY <1>2, <2>1, <2>5 DEF Sites
  <2> QED
    BY <1>2, <2>2, <2>3, <2>4, <2>5
<1>4. ASSUME NEW q \in Ranks PROVE ~Connects(q)
  <2>1. PICK s \in Ranks : Strayed(s)
    BY <1>3 DEF ReachedExchange
  <2>2. ~AllExchanged
    BY <2>1 DEF Strayed, AllExchanged
  <2> QED
    BY <2>2 DEF TrackInv
<1>5. ASSUME NEW q \in Ranks
      PROVE  /\ Len(sent[q]) >= 1 => sent[q][1].site = "vote"
             /\ Len(sent[q]) >= 2 => \/ sent[q][2].site = "exchange"
                                    \/ (sent[q][2].site = "agree" /\ Len(sent[q]) = 2)
             /\ Len(sent[q]) >= 3 => sent[q][3].site = "agree" /\ Len(sent[q]) = 3
  <2>1. Len(sent[q]) >= 3 => sent[q][3].site # "verdicts"
    BY <1>4 DEF Connects
  <2> QED
    BY <2>1 DEF TrackInv, Tracks, Follows
<1>6. ASSUME NEW q \in Ranks PROVE pc[q] \notin {"connect", "verdicts", "prepare", "ready"}
  <2>1. pc[q] # "connect"
    BY <1>4 DEF Connects
  <2>2. pc[q] \notin {"verdicts", "prepare"}
    <3>1. pc[q] \in {"verdicts", "prepare"} => Len(sent[q]) = 3 /\ sent[q][3].site = "verdicts"
      BY RankFacts DEF TrackInv, Tracks, Follows
    <3> QED
      BY <1>5, <3>1
  <2>3. pc[q] # "ready"
    <3>1. pc[q] = "ready" => Len(sent[q]) = 4
      BY DEF IInv, ReadyAgreed
    <3>2. 4 >= 3 /\ 4 # 3
      OBVIOUS
    <3> QED
      BY <1>5, <3>1, <3>2, Zenon
  <2> QED
    BY <2>1, <2>2, <2>3
<1>7. k = 2
  <2>1. k # 1
    BY <1>2, <1>5
  <2>2. k # 3 /\ k # 4
    BY <1>1, <1>2, <1>5
  <2> QED
    BY <1>2, <2>1, <2>2
<1>8. Strayed(r) # Strayed(p)
  <2>1. Len(sent[r]) > 1 /\ Len(sent[p]) > 1
    BY <1>1, <1>2, <1>7
  <2>2. CASE sent[r][2].site = "exchange"
    <3>1. ~Strayed(r) /\ Strayed(p)
      BY <1>7, <2>1, <2>2 DEF Strayed
    <3> QED
      BY <3>1
  <2>3. CASE sent[r][2].site # "exchange"
    <3>1. sent[r][2].site = "agree"
      BY <1>2, <1>5, <1>7, <2>3
    <3>2. sent[p][2].site = "exchange"
      BY <1>2, <1>5, <1>7, <3>1
    <3>3. Strayed(r) /\ ~Strayed(p)
      BY <2>1, <2>3, <3>2 DEF Strayed
    <3> QED
      BY <3>3
  <2> QED
    BY <2>2, <2>3
<1> QED
  BY <1>6, <1>8

(* The constructor coordinates its own failures (_complete_proxy_setup and *)
(* adapter.py): with no process killed, a gather pairs different calls     *)
(* only when one of two constructors failed before its first exchange,     *)
(* and then no rank connects or serves.  Failures of every step are        *)
(* included, those before the first exchange with CanFailEarly.            *)
THEOREM GathersMeet == Spec => []ExchangesMatch
<1>1. Init => IInv /\ TrackInv /\ MeetInv
  BY Initially, InitTracks, InitMeets
<1>2. IInv /\ TrackInv /\ MeetInv /\ [Next]_vars => (IInv /\ TrackInv /\ MeetInv)'
  BY Inductive, NextTracks, NextMeets
<1>3. IInv /\ TrackInv /\ MeetInv => ExchangesMatch
  BY MeetPromise
<1> QED
  BY <1>1, <1>2, <1>3, PTL DEF Spec

-----------------------------------------------------------------------------
(* Streams and captures.                                                   *)

(* Captures: the stream that a capture is bound to is the one of all its   *)
(* collectives, and it is bound by the first of them.                      *)
CaptureInv ==
  /\ captures \in Nat /\ capture \in 0 .. captures /\ known.id \in 0 .. captures
  /\ graph.kinds \in Seq(Kinds)
  /\ \E s : graph.on \subseteq {s}
  /\ capture # 0 /\ known.id = capture => graph.on \subseteq {known.stream} /\ graph.kinds # <<>>
  /\ capture # 0 /\ known.id # capture => graph.on = {}

-----------------------------------------------------------------------------
(* Launches.  Inputs are copied into Ins, outputs out of Outs.             *)
Ins == {"align0", "staged"}
Outs == {"align1", "gathered"}
Task == [op : {"copyin"}, n : Nat, buf : Ins]
          \cup [op : {"copyout"}, n : Nat, buf : Outs]
          \cup [op : {"kernel"}, n : Nat, src : {"inp"} \cup Ins, dst : {"out"} \cup Outs]
          \cup [op : {"wait", "record"}, n : Nat]

Has(q, op, n) == \E i \in 1 .. Len(q) : q[i].op = op /\ q[i].n = n
Pending(op, n) == \E s \in Streams : Has(queue[s], op, n)
OneEach(op) ==
  \A n \in Nat : \A s, t \in Streams : Has(queue[s], op, n) /\ Has(queue[t], op, n) => s = t
WaitBefore(q, i, n) == \E j \in 1 .. i - 1 : q[j].op = "wait" /\ q[j].n = n
Ascending(q) ==
  \A i, j \in 1 .. Len(q) : i < j /\ q[i].op = "kernel" /\ q[j].op = "kernel" => q[i].n < q[j].n

Typed ==
  /\ launched \in Nat /\ event \in Nat /\ event <= launched
  /\ ran \in Seq(Nat) /\ Len(ran) <= launched
  /\ queue \in [Streams -> Seq(Task)]
  /\ \A s \in Streams : \A i \in 1 .. Len(queue[s]) : queue[s][i].n <= launched

(* Each launch that has not ended has its kernel in one stream; at most one*)
(* has begun, and the ones before it have ended.                           *)
NotEnded ==
  \A n \in Nat : Pending("kernel", n) <=> n \in DOMAIN running \/ n \in Len(ran) + 1 .. launched
InTurn ==
  /\ \A i \in 1 .. Len(ran) : ran[i] = i
  /\ DOMAIN running \subseteq {Len(ran)}
TurnInv ==
  /\ Typed /\ (\A s \in Streams : Ascending(queue[s]))
  /\ OneEach("kernel") /\ NotEnded /\ InTurn

(* Without graphs the streams are ordered by records and waits: the kernel *)
(* of a launch comes before its record, and after the record of the launch *)
(* before or a wait for it.                                                *)
Place(t) == IF t.op = "record" THEN 2 * t.n + 1 ELSE 2 * t.n
InOrder(q) ==
  \A i, j \in 1 .. Len(q) :
    i < j /\ {q[i].op, q[j].op} \subseteq {"kernel", "record"} => Place(q[i]) < Place(q[j])
RecordsFollow(q) == \A n \in Nat : Has(q, "kernel", n) => Has(q, "record", n)
Behind ==
  \A s \in Streams : \A i \in 1 .. Len(queue[s]) : \A n \in Nat :
    /\ queue[s][i].op = "kernel" /\ queue[s][i].n = n + 1
    /\ Pending("record", n)
    => Has(queue[s], "record", n) \/ WaitBefore(queue[s], i, n)
LastLaunch ==
  /\ event = launched
  /\ lastStream = NoStream => launched = 0
  /\ \A s \in Streams : Has(queue[s], "record", launched) => s = lastStream
WaitInv ==
  /\ capture = 0 /\ graph.kinds = <<>>
  /\ \A s \in Streams : InOrder(queue[s]) /\ RecordsFollow(queue[s])
  /\ OneEach("record") /\ Behind /\ LastLaunch
  /\ \A n \in Nat : Pending("record", n) => n >= Len(ran)

(* With graphs one stream has all the launches.                            *)
Alone == \A s \in Streams \ (use.eager \cup use.replay) : queue[s] = <<>>

OrderInv ==
  /\ use \in Uses
  /\ TurnInv
  /\ use.graphs => Alone
  /\ ~use.graphs => WaitInv

-----------------------------------------------------------------------------
(* Captures.                                                               *)
LEMMA InitCaptures == StreamsInit => CaptureInv
  BY DEF StreamsInit, CaptureInv, EmptyGraph, NotKnown

(* The device and the launches do not touch what the captures are about.   *)
LEMMA CapturesAlone ==
  ASSUME CaptureInv, UNCHANGED <<capture, captures, known, graph>> PROVE CaptureInv'
  BY DEF CaptureInv

(* Every step keeps CaptureInv.                                            *)
LEMMA NextCaptures == CaptureInv /\ [StreamsNext]_streamsVars => CaptureInv'
<1> SUFFICES ASSUME CaptureInv, [StreamsNext]_streamsVars PROVE CaptureInv'
  OBVIOUS
<1>1. CASE \E s \in use.eager, k \in Kinds : Eager(s, k)
  BY <1>1, CapturesAlone DEF Eager
<1>2. CASE CaptureContext
  BY <1>2 DEF CaptureContext, CaptureInv, NotKnown
<1>3. CASE BeginCapture
  BY <1>3 DEF BeginCapture, CaptureInv, EmptyGraph
<1>4. CASE EndCapture
  <2>1. capture' = 0 /\ UNCHANGED <<captures, known, graph>>
    BY <1>4 DEF EndCapture
  <2>2. captures \in Nat /\ 0 \in 0 .. captures
    BY DEF CaptureInv
  <2> QED
    BY <2>1, <2>2, Zenon DEF CaptureInv
<1>5. ASSUME NEW s \in Streams, NEW k \in Kinds, Captured(s, k) PROVE CaptureInv'
  <2>1. /\ capture # 0
        /\ known.id = capture => known.stream = s
        /\ known' = IF known.id # capture THEN [id |-> capture, stream |-> s] ELSE known
        /\ graph'.on = graph.on \cup {s} /\ graph'.kinds = Append(graph.kinds, k)
        /\ UNCHANGED <<capture, captures>>
    BY <1>5 DEF Captured, SameStream
  <2>2. known'.id = capture /\ known'.stream = s /\ graph'.on \subseteq {s}
    BY <2>1 DEF CaptureInv
  <2>3. graph'.kinds # <<>> /\ graph'.kinds \in Seq(Kinds)
    <3>1. graph.kinds \in Seq(Kinds)
      BY DEF CaptureInv
    <3> HIDE DEF Kinds
    <3>2. Append(graph.kinds, k) \in Seq(Kinds) /\ Append(graph.kinds, k) # <<>>
      BY <3>1, AppendProperties
    <3> QED
      BY <3>2, <2>1
  <2> QED
    BY <2>1, <2>2, <2>3 DEF CaptureInv
<1>6. CASE \E s \in use.replay : graph.on = {s} /\ Replay(s)
  BY <1>6, CapturesAlone DEF Replay
<1>7. CASE \E s \in Streams : Run(s)
  BY <1>7, CapturesAlone
  DEF Run, RunCopyIn, RunCopyOut, RunWait, RunRecord, KernelBegin, KernelEnd, host
<1>8. CASE UNCHANGED streamsVars
  BY <1>8, CapturesAlone DEF streamsVars
<1> QED
  BY <1>1, <1>2, <1>3, <1>4, <1>5, <1>6, <1>7, <1>8 DEF StreamsNext

(* However captures on different streams follow each other, a graph holds  *)
(* collectives of one stream only, and a new capture may use any stream:   *)
(* the refusal in _order_stream goes by the capture's id.                  *)
THEOREM CapturesKeptApart == StreamsSpec => []CapturesApart
<1>1. CaptureInv => CapturesApart
  <2> SUFFICES ASSUME CaptureInv PROVE CapturesApart
    OBVIOUS
  <2>1. PICK s : graph.on \subseteq {s}
    BY DEF CaptureInv
  <2>2. graph.on = {} \/ graph.on = {s}
    BY <2>1
  <2>3. Cardinality(graph.on) <= 1
    <3>1. Cardinality({}) = 0
      BY FS_EmptySet
    <3>2. Cardinality({s}) = 1
      BY FS_Singleton
    <3>3. 0 <= 1 /\ 1 <= 1
      OBVIOUS
    <3>4. Cardinality(graph.on) = 0 \/ Cardinality(graph.on) = 1
      BY <2>2, <3>1, <3>2, Zenon
    <3> QED
      BY <3>4
  <2> QED
    BY <2>3 DEF CaptureInv, CapturesApart, OneStreamPerGraph, FreshCapture, SameStream
<1> QED
  BY <1>1, InitCaptures, NextCaptures, PTL DEF StreamsSpec

-----------------------------------------------------------------------------
-----------------------------------------------------------------------------
(* The sequences of a graph, put together one after the other.             *)

(* Induction up to N, over a set.                                          *)
LEMMA UpTo ==
  ASSUME NEW N \in Nat \ {0}, NEW G, 1 \in G, \A i \in 1 .. N - 1 : i \in G => i + 1 \in G
  PROVE  N \in G
<1> DEFINE Bad == {i \in Nat : i \in 1 .. N /\ i \notin G}
<1>1. SUFFICES ASSUME Bad # {} PROVE FALSE
  OBVIOUS
<1>2. PICK m \in Bad : \A i \in Bad : ~(<<i, m>> \in OpToRel(<, Nat))
  BY <1>1, NatLessThanWellFounded, WFMin
<1>3. m \in 1 .. N /\ m \notin G /\ \A i \in Nat : i < m => i \notin Bad
  BY <1>2 DEF OpToRel
<1>4. m # 1 /\ m - 1 \in 1 .. N - 1 /\ m - 1 \in Nat /\ m - 1 < m /\ m - 1 \in 1 .. N /\ (m - 1) + 1 = m
  BY <1>3
<1>5. m - 1 \in G
  BY <1>3, <1>4
<1>6. (m - 1) + 1 \in G
  BY <1>4, <1>5
<1> QED
  BY <1>3, <1>4, <1>6

(* A recursive function on 1 .. N has a value on all of it.                *)
Unfolds(g, seqs, k) == g = [i \in 1 .. k |-> IF i = 1 THEN seqs[i] ELSE g[i - 1] \o seqs[i]]
LEMMA FlattenExists ==
  ASSUME NEW seqs, NEW N \in Nat \ {0}
  PROVE  \E g : Unfolds(g, seqs, N)
<1> DEFINE G == {k \in 1 .. N : \E g : Unfolds(g, seqs, k)}
<1>1. 1 \in G
  <2> DEFINE g == [i \in 1 .. 1 |-> seqs[i]]
  <2>1. g = [i \in 1 .. 1 |-> IF i = 1 THEN seqs[i] ELSE g[i - 1] \o seqs[i]]
    OBVIOUS
  <2> HIDE DEF g
  <2>2. Unfolds(g, seqs, 1)
    BY <2>1 DEF Unfolds
  <2> QED
    BY <2>2
<1>2. ASSUME NEW k \in 1 .. N - 1, k \in G PROVE k + 1 \in G
  <2>1. PICK g : Unfolds(g, seqs, k)
    BY <1>2
  <2> DEFINE m == k + 1
             h == [i \in 1 .. m |-> IF i \in 1 .. k THEN g[i] ELSE g[i - 1] \o seqs[i]]
  <2>2. ASSUME NEW i \in 1 .. m
        PROVE  h[i] = IF i = 1 THEN seqs[i] ELSE h[i - 1] \o seqs[i]
    <3>1. i # 1 => i - 1 \in 1 .. k /\ i - 1 \in 1 .. m
      OBVIOUS
    <3>2. i # 1 => h[i - 1] = g[i - 1]
      BY <3>1
    <3>3. i \in 1 .. k => g[i] = IF i = 1 THEN seqs[i] ELSE g[i - 1] \o seqs[i]
      BY <2>1 DEF Unfolds
    <3>4. i \notin 1 .. k => h[i] = g[i - 1] \o seqs[i]
      OBVIOUS
    <3>6. 1 \in 1 .. k
      OBVIOUS
    <3>5. i \in 1 .. k => h[i] = g[i]
      OBVIOUS
    <3> HIDE DEF h
    <3> QED
      BY <3>2, <3>3, <3>4, <3>5, <3>6
  <2>3. h = [i \in 1 .. m |-> h[i]]
    OBVIOUS
  <2> HIDE DEF h
  <2>4. Unfolds(h, seqs, m)
    BY <2>2, <2>3 DEF Unfolds
  <2>5. m \in 1 .. N
    OBVIOUS
  <2> QED
    BY <2>4, <2>5
<1> HIDE DEF G
<1>3. N \in G
  BY <1>1, <1>2, UpTo
<1> QED
  BY <1>3 DEF G

(* What FlattenSeq puts together.                                          *)
LEMMA FlattenUnfolds ==
  ASSUME NEW seqs, Len(seqs) \in Nat \ {0}
  PROVE  \E g : Unfolds(g, seqs, Len(seqs)) /\ FlattenSeq(seqs) = g[Len(seqs)]
<1> DEFINE f == CHOOSE g : Unfolds(g, seqs, Len(seqs))
<1>1. Unfolds(f, seqs, Len(seqs))
  BY FlattenExists, Zenon
<1>2. FlattenSeq(seqs) = f[Len(seqs)]
  BY DEF FlattenSeq, Unfolds
<1> QED
  BY <1>1, <1>2

(* Queues: the first task is taken away, or the tasks of a launch are added*)
LEMMA TaskOps ==
  ASSUME NEW t \in Task
  PROVE  /\ t.op \in {"copyin", "copyout", "kernel", "wait", "record"} /\ t.n \in Nat
         /\ Place(t) \in Nat
         /\ t.op = "record" => t = [op |-> "record", n |-> t.n]
  BY DEF Task, Place

(* The tail of a queue.                                                    *)
LEMMA TailShifts ==
  ASSUME NEW q \in Seq(Task), q # <<>>
  PROVE  /\ Tail(q) \in Seq(Task) /\ Len(q) \in Nat /\ Len(q) >= 1
         /\ Len(Tail(q)) = Len(q) - 1 /\ Head(q) = q[1] /\ Head(q) \in Task
         /\ \A i \in 1 .. Len(q) - 1 : i + 1 \in 1 .. Len(q) /\ Tail(q)[i] = q[i + 1]
         /\ \A i \in 2 .. Len(q) : i - 1 \in 1 .. Len(q) - 1 /\ Tail(q)[i - 1] = q[i]
<1>1. /\ Tail(q) \in Seq(Task) /\ Len(q) \in Nat /\ Len(q) >= 1
      /\ Len(Tail(q)) = Len(q) - 1 /\ Head(q) = q[1]
      /\ \A i \in 1 .. Len(q) - 1 : Tail(q)[i] = q[i + 1]
  BY HeadTailProperties, EmptySeq, LenProperties
<1>2. Head(q) \in Task
  <2>1. 1 \in 1 .. Len(q)
    BY <1>1
  <2> QED
    BY <1>1, <2>1, ElementOfSeq
<1>3. \A i \in 2 .. Len(q) : i - 1 \in 1 .. Len(q) - 1 /\ (i - 1) + 1 = i
  BY <1>1
<1>4. \A i \in 1 .. Len(q) - 1 : i + 1 \in 1 .. Len(q)
  BY <1>1
<1> QED
  BY <1>1, <1>2, <1>3, <1>4

(* A queue without its head still has its other tasks, behind the same     *)
(* waits.                                                                  *)
LEMMA TailQueue ==
  ASSUME NEW q \in Seq(Task), q # <<>>
  PROVE  /\ \A op, n : Has(Tail(q), op, n) => Has(q, op, n)
         /\ \A op, n : Has(q, op, n) /\ ~(Head(q).op = op /\ Head(q).n = n) => Has(Tail(q), op, n)
         /\ \A i \in 1 .. Len(q) - 1, n \in Nat :
              WaitBefore(q, i + 1, n) /\ ~(Head(q).op = "wait" /\ Head(q).n = n)
                => WaitBefore(Tail(q), i, n)
<1> DEFINE t == Tail(q)
<1>1. /\ t \in Seq(Task) /\ Len(q) \in Nat /\ Len(q) >= 1 /\ Len(t) = Len(q) - 1 /\ Head(q) = q[1]
      /\ \A i \in 1 .. Len(q) - 1 : i + 1 \in 1 .. Len(q) /\ t[i] = q[i + 1]
      /\ \A i \in 2 .. Len(q) : i - 1 \in 1 .. Len(q) - 1 /\ t[i - 1] = q[i]
  BY TailShifts
<1> HIDE DEF t
<1>2. ASSUME NEW op, NEW n, Has(t, op, n) PROVE Has(q, op, n)
  BY <1>1, <1>2 DEF Has
<1>3. ASSUME NEW op, NEW n, Has(q, op, n), ~(q[1].op = op /\ q[1].n = n) PROVE Has(t, op, n)
  <2>1. PICK i \in 1 .. Len(q) : q[i].op = op /\ q[i].n = n
    BY <1>3 DEF Has
  <2>2. i \in 2 .. Len(q)
    BY <2>1, <1>1, <1>3
  <2>3. i - 1 \in 1 .. Len(t) /\ t[i - 1] = q[i]
    BY <2>2, <1>1
  <2> QED
    BY <2>1, <2>3 DEF Has
<1>4. ASSUME NEW i \in 1 .. Len(q) - 1, NEW n \in Nat,
             WaitBefore(q, i + 1, n), ~(q[1].op = "wait" /\ q[1].n = n)
      PROVE  WaitBefore(t, i, n)
  <2>1. PICK j \in 1 .. (i + 1) - 1 : q[j].op = "wait" /\ q[j].n = n
    BY <1>4 DEF WaitBefore
  <2>2. j # 1
    BY <2>1, <1>4
  <2>3. j - 1 \in 1 .. i - 1 /\ j \in 2 .. Len(q)
    BY <2>2, <1>1
  <2>4. t[j - 1] = q[j]
    BY <2>3, <1>1
  <2> QED
    BY <2>1, <2>3, <2>4 DEF WaitBefore
<1> QED
  BY <1>1, <1>2, <1>3, <1>4 DEF t

(* Its kernels are still in ascending order, and the head's kernel is gone.*)
LEMMA TailAscends ==
  ASSUME NEW q \in Seq(Task), q # <<>>, Ascending(q)
  PROVE  /\ Ascending(Tail(q))
         /\ Head(q).op = "kernel" => \A n : Has(Tail(q), "kernel", n) => Head(q).n < n
<1> DEFINE t == Tail(q)
<1>1. /\ t \in Seq(Task) /\ Len(q) \in Nat /\ Len(q) >= 1 /\ Len(t) = Len(q) - 1 /\ Head(q) = q[1]
      /\ \A i \in 1 .. Len(q) - 1 : i + 1 \in 1 .. Len(q) /\ t[i] = q[i + 1]
  BY TailShifts
<1> HIDE DEF t
<1>2. Ascending(t)
  <2> SUFFICES ASSUME NEW i \in 1 .. Len(t), NEW j \in 1 .. Len(t), i < j,
                      t[i].op = "kernel", t[j].op = "kernel"
               PROVE  t[i].n < t[j].n
    BY DEF Ascending
  <2>1. i + 1 \in 1 .. Len(q) /\ j + 1 \in 1 .. Len(q) /\ i + 1 < j + 1
    BY <1>1
  <2>2. t[i] = q[i + 1] /\ t[j] = q[j + 1]
    BY <1>1
  <2> QED
    BY <2>1, <2>2 DEF Ascending
<1>3. ASSUME q[1].op = "kernel", NEW n, Has(t, "kernel", n) PROVE q[1].n < n
  <2>1. PICK i \in 1 .. Len(t) : t[i].op = "kernel" /\ t[i].n = n
    BY <1>3 DEF Has
  <2>2. i + 1 \in 1 .. Len(q) /\ t[i] = q[i + 1] /\ 1 \in 1 .. Len(q) /\ 1 < i + 1
    BY <1>1
  <2> QED
    BY <2>1, <2>2, <1>3 DEF Ascending
<1> QED
  BY <1>1, <1>2, <1>3 DEF t

(* So are its records, each behind its kernel.                             *)
LEMMA TailInOrder ==
  ASSUME NEW q \in Seq(Task), q # <<>>, InOrder(q), RecordsFollow(q)
  PROVE  InOrder(Tail(q)) /\ RecordsFollow(Tail(q))
<1> DEFINE t == Tail(q)
<1>1. /\ t \in Seq(Task) /\ Len(q) \in Nat /\ Len(q) >= 1 /\ Len(t) = Len(q) - 1 /\ Head(q) = q[1]
      /\ \A i \in 1 .. Len(q) - 1 : i + 1 \in 1 .. Len(q) /\ t[i] = q[i + 1]
      /\ \A i \in 2 .. Len(q) : i - 1 \in 1 .. Len(q) - 1 /\ t[i - 1] = q[i]
  BY TailShifts
<1> HIDE DEF t
<1>2. InOrder(t)
  <2> SUFFICES ASSUME NEW i \in 1 .. Len(t), NEW j \in 1 .. Len(t), i < j,
                      {t[i].op, t[j].op} \subseteq {"kernel", "record"}
               PROVE  Place(t[i]) < Place(t[j])
    BY DEF InOrder
  <2>1. i + 1 \in 1 .. Len(q) /\ j + 1 \in 1 .. Len(q) /\ i + 1 < j + 1
    BY <1>1
  <2>2. t[i] = q[i + 1] /\ t[j] = q[j + 1]
    BY <1>1
  <2> QED
    BY <2>1, <2>2 DEF InOrder
<1>3. RecordsFollow(t)
  <2> SUFFICES ASSUME NEW n \in Nat, Has(t, "kernel", n) PROVE Has(t, "record", n)
    BY DEF RecordsFollow
  <2>1. PICK i \in 1 .. Len(t) : t[i].op = "kernel" /\ t[i].n = n
    BY DEF Has
  <2>2. i + 1 \in 1 .. Len(q) /\ t[i] = q[i + 1] /\ 1 \in 1 .. Len(q) /\ 1 < i + 1
    BY <1>1
  <2>3. PICK j \in 1 .. Len(q) : q[j].op = "record" /\ q[j].n = n
    BY <2>1, <2>2 DEF RecordsFollow, Has
  <2>4. j # 1
    <3> SUFFICES ASSUME j = 1 PROVE FALSE
      OBVIOUS
    <3>1. Place(q[1]) < Place(q[i + 1])
      BY <2>1, <2>2, <2>3 DEF InOrder
    <3>2. Place(q[1]) = 2 * n + 1 /\ Place(q[i + 1]) = 2 * n
      BY <2>1, <2>2, <2>3 DEF Place
    <3> QED
      BY <3>1, <3>2
  <2>5. j \in 2 .. Len(q)
    BY <2>4, <1>1
  <2>6. j - 1 \in 1 .. Len(t) /\ t[j - 1] = q[j]
    BY <2>5, <1>1
  <2> QED
    BY <2>3, <2>6 DEF Has
<1> QED
  BY <1>2, <1>3 DEF t

(* Where the elements of two sequences are in their concatenation.         *)
LEMMA Joined ==
  ASSUME NEW s \in Seq(Task), NEW t \in Seq(Task)
  PROVE  /\ s \o t \in Seq(Task) /\ Len(s) \in Nat /\ Len(t) \in Nat
         /\ Len(s \o t) = Len(s) + Len(t)
         /\ \A i \in 1 .. Len(s) : i \in 1 .. Len(s \o t) /\ (s \o t)[i] = s[i]
         /\ \A i \in 1 .. Len(t) : Len(s) + i \in 1 .. Len(s \o t) /\ (s \o t)[Len(s) + i] = t[i]
         /\ \A i \in 1 .. Len(s \o t) :
              \/ i \in 1 .. Len(s)
              \/ i > Len(s) /\ \E j \in 1 .. Len(t) : i = Len(s) + j
<1>1. Len(s) \in Nat /\ Len(t) \in Nat
  BY LenProperties
<1>2. /\ s \o t \in Seq(Task) /\ Len(s \o t) = Len(s) + Len(t)
      /\ \A i \in 1 .. Len(s) + Len(t) : (s \o t)[i] = IF i <= Len(s) THEN s[i] ELSE t[i - Len(s)]
  BY ConcatProperties
<1>3. ASSUME NEW i \in 1 .. Len(s) PROVE i \in 1 .. Len(s \o t) /\ (s \o t)[i] = s[i]
  BY <1>1, <1>2
<1>4. ASSUME NEW i \in 1 .. Len(t)
      PROVE  Len(s) + i \in 1 .. Len(s \o t) /\ (s \o t)[Len(s) + i] = t[i]
  <2>1. /\ Len(s) + i \in 1 .. Len(s) + Len(t) /\ ~(Len(s) + i <= Len(s))
        /\ (Len(s) + i) - Len(s) = i
    BY <1>1
  <2> QED
    BY <2>1, <1>2
<1>5. ASSUME NEW i \in 1 .. Len(s \o t), i \notin 1 .. Len(s)
      PROVE  i > Len(s) /\ \E j \in 1 .. Len(t) : i = Len(s) + j
  <2>1. i > Len(s) /\ i - Len(s) \in 1 .. Len(t) /\ i = Len(s) + (i - Len(s))
    BY <1>1, <1>2, <1>5
  <2> QED
    BY <2>1
<1> QED
  BY <1>1, <1>2, <1>3, <1>4, <1>5

(* The tasks T of launch n: the kernel is the c-th, before it are only     *)
(* copies and waits, and behind it copies and records.                     *)
KernelAt(T, c, n) ==
  /\ T \in Seq(Task) /\ Len(T) \in Nat /\ c \in 1 .. Len(T)
  /\ \A i \in 1 .. Len(T) :
       /\ i < c => T[i].op \in {"copyin", "wait"}
       /\ i = c => T[i].op = "kernel" /\ T[i].n = n
       /\ i > c => T[i].op \in {"copyout", "record"} /\ T[i].n = n
RecordOnce(T) ==
  /\ \E i \in 1 .. Len(T) : T[i].op = "record"
  /\ \A i, j \in 1 .. Len(T) : T[i].op = "record" /\ T[j].op = "record" => i = j

(* Which tasks of a launch are what.                                       *)
LEMMA KernelOnce ==
  ASSUME NEW T, NEW c, NEW n \in Nat, KernelAt(T, c, n), NEW i \in 1 .. Len(T)
  PROVE  /\ T[i].op = "kernel" => i = c
         /\ T[i].op = "record" => i > c /\ T[i].n = n
         /\ i = c \/ i > c => T[i].n = n
<1>1. i < c \/ i = c \/ i > c
  BY DEF KernelAt
<1>2. CASE i < c
  <2>1. T[i].op \in {"copyin", "wait"} /\ ~(i = c \/ i > c)
    BY <1>2 DEF KernelAt
  <2> QED
    BY <2>1
<1>3. CASE i = c
  BY <1>3 DEF KernelAt
<1>4. CASE i > c
  <2>1. T[i].op \in {"copyout", "record"} /\ T[i].n = n
    BY <1>4 DEF KernelAt
  <2> QED
    BY <1>4, <2>1
<1> QED
  BY <1>1, <1>2, <1>3, <1>4

(* A launch behind the earlier ones: its kernel is the last.               *)
KernelBehind(p, q, T, c, n) ==
  /\ p \in Seq(Task)
  /\ \A m : Has(p, "kernel", m) <=> Has(q, "kernel", m) \/ m = n
  /\ Ascending(q) => Ascending(p)
LEMMA PushKernel ==
  ASSUME NEW q \in Seq(Task), NEW n \in Nat, \A i \in 1 .. Len(q) : q[i].n < n,
         NEW T, NEW c, KernelAt(T, c, n),
         NEW p, p = q \o T
  PROVE  KernelBehind(p, q, T, c, n)
<1>1. /\ T \in Seq(Task) /\ c \in 1 .. Len(T) /\ T[c].op = "kernel" /\ T[c].n = n
  BY DEF KernelAt
<1>2. /\ p \in Seq(Task) /\ Len(q) \in Nat /\ Len(T) \in Nat /\ Len(p) = Len(q) + Len(T)
      /\ \A i \in 1 .. Len(q) : i \in 1 .. Len(p) /\ p[i] = q[i]
      /\ \A i \in 1 .. Len(T) : Len(q) + i \in 1 .. Len(p) /\ p[Len(q) + i] = T[i]
      /\ \A i \in 1 .. Len(p) : i \in 1 .. Len(q) \/ (i > Len(q) /\ \E j \in 1 .. Len(T) : i = Len(q) + j)
  BY <1>1, Joined, Zenon
<1>3. ASSUME NEW i \in 1 .. Len(p), p[i].op = "kernel"
      PROVE  (i \in 1 .. Len(q) /\ p[i] = q[i]) \/ (i = Len(q) + c /\ p[i].n = n)
  <2>1. CASE i \in 1 .. Len(q)
    BY <2>1, <1>2
  <2>2. CASE i \notin 1 .. Len(q)
    <3>1. PICK b \in 1 .. Len(T) : i = Len(q) + b
      BY <2>2, <1>2
    <3>2. p[i] = T[b]
      BY <3>1, <1>2
    <3>3. b = c
      BY <3>2, <1>3, KernelOnce
    <3> QED
      BY <3>1, <3>2, <3>3, <1>1
  <2> QED
    BY <2>1, <2>2
<1>4. ASSUME NEW m PROVE Has(p, "kernel", m) <=> Has(q, "kernel", m) \/ m = n
  <2>1. Has(q, "kernel", m) => Has(p, "kernel", m)
    BY <1>2 DEF Has
  <2>2. Has(p, "kernel", n)
    <3>1. Len(q) + c \in 1 .. Len(p) /\ p[Len(q) + c] = T[c]
      BY <1>1, <1>2
    <3>2. T[c].op = "kernel" /\ T[c].n = n
      BY <1>1
    <3> QED
      BY <3>1, <3>2 DEF Has
  <2>3. ASSUME Has(p, "kernel", m) PROVE Has(q, "kernel", m) \/ m = n
    BY <1>3, <2>3 DEF Has
  <2> QED
    BY <2>1, <2>2, <2>3
<1>5. ASSUME Ascending(q) PROVE Ascending(p)
  <2> SUFFICES ASSUME NEW i \in 1 .. Len(p), NEW j \in 1 .. Len(p), i < j,
                      p[i].op = "kernel", p[j].op = "kernel"
               PROVE  p[i].n < p[j].n
    BY DEF Ascending
  <2>1. CASE i \in 1 .. Len(q) /\ p[i] = q[i] /\ j \in 1 .. Len(q) /\ p[j] = q[j]
    BY <2>1, <1>5 DEF Ascending
  <2>2. CASE i \in 1 .. Len(q) /\ p[i] = q[i] /\ p[j].n = n
    BY <2>2
  <2>3. CASE i = Len(q) + c
    <3>1. j \notin 1 .. Len(q) /\ j # Len(q) + c
      BY <2>3, <1>1, <1>2
    <3> QED
      BY <3>1, <1>3
  <2> QED
    BY <1>3, <2>1, <2>2, <2>3
<1> QED
  BY <1>2, <1>4, <1>5 DEF KernelBehind

(* The same with records: the queue stays in order.                        *)
RecordBehind(p, q, T, c, n) ==
  /\ InOrder(p) /\ RecordsFollow(p)
  /\ \A m : Has(p, "record", m) <=> Has(q, "record", m) \/ m = n
  /\ \A i \in 1 .. Len(p) : p[i].op = "kernel" =>
       \/ i \in 1 .. Len(q) /\ p[i] = q[i]
       \/ p[i].n = n /\ \A m \in Nat : WaitBefore(T, c, m) => WaitBefore(p, i, m)
  /\ \A i \in 1 .. Len(q), m \in Nat : WaitBefore(q, i, m) => WaitBefore(p, i, m)
LEMMA PushRecord ==
  ASSUME NEW q \in Seq(Task), InOrder(q), RecordsFollow(q),
         NEW n \in Nat, \A i \in 1 .. Len(q) : q[i].n < n,
         NEW T, NEW c, KernelAt(T, c, n), RecordOnce(T),
         NEW p, p = q \o T
  PROVE  RecordBehind(p, q, T, c, n)
<1>1. PICK l : l = Len(q)
  OBVIOUS
<1>2. PICK e : e = Len(T)
  OBVIOUS
<1>3. /\ T \in Seq(Task) /\ e \in Nat /\ c \in 1 .. e
      /\ T[c].op = "kernel" /\ T[c].n = n
      /\ \E i \in 1 .. e : T[i].op = "record"
      /\ \A i, j \in 1 .. e : T[i].op = "record" /\ T[j].op = "record" => i = j
  BY <1>2 DEF KernelAt, RecordOnce
<1>0. \A i \in 1 .. e : /\ T[i].op = "kernel" => i = c
                        /\ T[i].op = "record" => i > c /\ T[i].n = n
                        /\ i = c \/ i > c => T[i].n = n
  BY <1>2, KernelOnce
<1>4. /\ p \in Seq(Task) /\ l \in Nat /\ Len(p) = l + e
      /\ \A i \in 1 .. l : i \in 1 .. l + e /\ p[i] = q[i]
      /\ \A i \in 1 .. e : l + i \in 1 .. l + e /\ p[l + i] = T[i]
      /\ \A i \in 1 .. l + e : i \in 1 .. l \/ (i > l /\ \E j \in 1 .. e : i = l + j)
  <2>1. /\ q \o T \in Seq(Task) /\ Len(q) \in Nat /\ Len(q \o T) = Len(q) + Len(T)
        /\ \A i \in 1 .. Len(q) : i \in 1 .. Len(q \o T) /\ (q \o T)[i] = q[i]
        /\ \A i \in 1 .. Len(T) : Len(q) + i \in 1 .. Len(q \o T) /\ (q \o T)[Len(q) + i] = T[i]
        /\ \A i \in 1 .. Len(q \o T) :
             i \in 1 .. Len(q) \/ (i > Len(q) /\ \E j \in 1 .. Len(T) : i = Len(q) + j)
    BY <1>3, Joined, Zenon
  <2> QED
    BY <2>1, <1>1, <1>2, Zenon
<1>5. \A i \in 1 .. l : q[i].n \in Nat /\ q[i].n < n
  BY <1>1, ElementOfSeq, TaskOps
<1>7. InOrder(p)
  <2> SUFFICES ASSUME NEW i \in 1 .. l + e, NEW j \in 1 .. l + e, i < j,
                      p[i].op \in {"kernel", "record"}, p[j].op \in {"kernel", "record"}
               PROVE  Place(p[i]) < Place(p[j])
    BY <1>4 DEF InOrder
  <2>1. CASE i \in 1 .. l /\ j \in 1 .. l
    BY <2>1, <1>1, <1>4 DEF InOrder
  <2>2. CASE i \in 1 .. l /\ j \notin 1 .. l
    <3>1. PICK b \in 1 .. e : j = l + b
      BY <2>2, <1>4
    <3>2. p[j].n = n
      <4>1. p[j] = T[b] /\ T[b].op \in {"kernel", "record"}
        BY <3>1, <1>4
      <4> QED
        BY <4>1, <1>0
    <3>3. p[i].n \in Nat /\ p[i].n < n
      BY <2>2, <1>4, <1>5
    <3>4. Place(p[i]) = 2 * p[i].n \/ Place(p[i]) = 2 * p[i].n + 1
      BY <3>3 DEF Place
    <3>5. Place(p[j]) = 2 * n \/ Place(p[j]) = 2 * n + 1
      BY <3>2 DEF Place
    <3>6. \A x, y \in Nat : x < y => 2 * x < 2 * y /\ 2 * x + 1 < 2 * y /\ 2 * x < 2 * y + 1
                                       /\ 2 * x + 1 < 2 * y + 1
      OBVIOUS
    <3> QED
      BY <3>3, <3>4, <3>5, <3>6
  <2>3. CASE i \notin 1 .. l
    <3>1. PICK b \in 1 .. e : i = l + b
      BY <2>3, <1>4
    <3>2. j \notin 1 .. l
      BY <2>3, <1>4
    <3>3. PICK m \in 1 .. e : j = l + m
      BY <3>2, <1>4
    <3>4. b < m
      BY <3>1, <3>3, <1>4
    <3>5. p[i] = T[b] /\ p[j] = T[m]
      BY <3>1, <3>3, <1>4
    <3>6. {T[b].op, T[m].op} \subseteq {"kernel", "record"}
      BY <3>5
    <3>7. (b = c \/ b > c) /\ (m = c \/ m > c)
      BY <3>6, <1>0
    <3>8. T[m].op = "record" /\ T[m].n = n
      <4>1. m # c
        BY <3>4, <3>7, <1>3
      <4> QED
        BY <4>1, <3>6, <1>0
    <3>9. T[b].op # "record"
      BY <3>4, <3>8, <1>3
    <3>10. b = c
      BY <3>6, <3>9, <1>0
    <3>11. p[i].op = "kernel" /\ p[i].n = n /\ p[j].op = "record" /\ p[j].n = n
      BY <3>5, <3>8, <3>10, <1>3
    <3>12. Place(p[i]) = 2 * n /\ Place(p[j]) = 2 * n + 1
      BY <3>11 DEF Place
    <3>13. 2 * n < 2 * n + 1
      OBVIOUS
    <3> QED
      BY <3>12, <3>13, Zenon
  <2> QED
    BY <2>1, <2>2, <2>3
<1>8. \A m : Has(p, "kernel", m) <=> Has(q, "kernel", m) \/ m = n
  BY PushKernel DEF KernelBehind
<1>9. ASSUME NEW m PROVE Has(p, "record", m) <=> Has(q, "record", m) \/ m = n
  <2>1. Has(q, "record", m) => Has(p, "record", m)
    BY <1>1, <1>4 DEF Has
  <2>2. Has(p, "record", n)
    <3>1. PICK r \in 1 .. e : T[r].op = "record"
      BY <1>3
    <3>2. T[r].n = n /\ l + r \in 1 .. Len(p) /\ p[l + r] = T[r]
      BY <3>1, <1>0, <1>4
    <3> QED
      BY <3>1, <3>2 DEF Has
  <2>3. ASSUME Has(p, "record", m) PROVE Has(q, "record", m) \/ m = n
    <3>1. PICK i \in 1 .. l + e : p[i].op = "record" /\ p[i].n = m
      BY <2>3, <1>4 DEF Has
    <3>2. CASE i \in 1 .. l
      BY <3>1, <3>2, <1>1, <1>4 DEF Has
    <3>3. CASE i \notin 1 .. l
      <4>1. PICK b \in 1 .. e : i = l + b
        BY <3>3, <1>4
      <4> QED
        BY <4>1, <3>1, <1>0, <1>4
    <3> QED
      BY <3>2, <3>3
  <2> QED
    BY <2>1, <2>2, <2>3
<1>11. RecordsFollow(p)
  BY <1>8, <1>9 DEF RecordsFollow
<1>12. ASSUME NEW m \in Nat, WaitBefore(T, c, m) PROVE WaitBefore(p, l + c, m)
  <2>1. PICK j \in 1 .. c - 1 : T[j].op = "wait" /\ T[j].n = m
    BY <1>12 DEF WaitBefore
  <2>2. j \in 1 .. e /\ l + j \in 1 .. (l + c) - 1
    BY <1>3, <1>4
  <2> QED
    BY <2>1, <2>2, <1>4 DEF WaitBefore
<1>13. ASSUME NEW i \in 1 .. l, NEW m \in Nat, WaitBefore(q, i, m) PROVE WaitBefore(p, i, m)
  <2>1. PICK j \in 1 .. i - 1 : q[j].op = "wait" /\ q[j].n = m
    BY <1>13 DEF WaitBefore
  <2>2. j \in 1 .. l
    BY <1>4
  <2> QED
    BY <2>1, <2>2, <1>4 DEF WaitBefore
<1>14. ASSUME NEW i \in 1 .. l + e, p[i].op = "kernel"
       PROVE  \/ i \in 1 .. l /\ p[i] = q[i]
              \/ p[i].n = n /\ \A m \in Nat : WaitBefore(T, c, m) => WaitBefore(p, i, m)
  <2>1. CASE i \in 1 .. l
    BY <2>1, <1>4
  <2>2. CASE i \notin 1 .. l
    <3>1. PICK b \in 1 .. e : i = l + b
      BY <2>2, <1>4
    <3>2. p[i] = T[b]
      BY <3>1, <1>4
    <3>3. b = c
      BY <3>2, <1>0, <1>14
    <3> QED
      BY <3>1, <3>2, <3>3, <1>3, <1>12
  <2> QED
    BY <2>1, <2>2
<1> QED
  BY <1>1, <1>4, <1>7, <1>9, <1>11, <1>13, <1>14 DEF RecordBehind

-----------------------------------------------------------------------------
(* Scratch: which tasks use which buffers.                                 *)
Writes(t, b) == (t.op = "copyin" /\ t.buf = b) \/ (t.op = "kernel" /\ t.dst = b)
Reads(t, b) == (t.op = "copyout" /\ t.buf = b) \/ (t.op = "kernel" /\ t.src = b)

(* The i-th task of q, which reads b, will find there what its own launch  *)
(* has left, whatever other streams do: since the last of them, no task    *)
(* before it leaves anything else.                                         *)
OwnBefore(q, i, b) ==
  \E j \in 1 .. i - 1 :
    /\ Writes(q[j], b)
    /\ \A k \in j .. i - 1 : Writes(q[k], b) => q[k].n = q[i].n

(* Or it is there already.                                                 *)
OwnNow(q, i, b) ==
  /\ \A k \in 1 .. i - 1 : ~Writes(q[k], b)
  /\ b \in Outs => ~Has(q, "kernel", q[i].n)
OwnQueue(q, buffers) ==
  \A i \in 1 .. Len(q), b \in Scratch : Reads(q[i], b) =>
    OwnBefore(q, i, b) \/ (OwnNow(q, i, b) /\ buffers[b] \subseteq {q[i].n})

(* The tasks of a launch use a buffer only for themselves.                 *)
OwnTasks(T, n) ==
  /\ \A i \in 1 .. Len(T) : T[i].op # "wait" => T[i].n = n
  /\ \A i \in 1 .. Len(T), b \in Scratch : Reads(T[i], b) => \E j \in 1 .. i - 1 : Writes(T[j], b)

(* A task that writes is no wait, and one that writes what is copied out   *)
(* is a kernel.                                                            *)
LEMMA BufferOps ==
  ASSUME NEW t \in Task, NEW b
  PROVE  /\ Writes(t, b) \/ Reads(t, b) => t.op # "wait"
         /\ Writes(t, b) /\ b \in Outs => t.op = "kernel"
BY DEF Task, Writes, Reads, Ins, Outs

(* The head is executed and leaves its own data where it writes.           *)
LEMMA OwnTail ==
  ASSUME NEW q \in Seq(Task), q # <<>>, Ascending(q),
         NEW old, OwnQueue(q, old),
         NEW new, \A b \in Scratch : IF Writes(Head(q), b) THEN new[b] \subseteq {Head(q).n}
                                                           ELSE new[b] = old[b]
  PROVE  OwnQueue(Tail(q), new)
<1> DEFINE t == Tail(q)
<1>1. /\ t \in Seq(Task) /\ Len(q) \in Nat /\ Len(q) >= 1 /\ Len(t) = Len(q) - 1 /\ Head(q) = q[1]
      /\ \A i \in 1 .. Len(q) - 1 : i + 1 \in 1 .. Len(q) /\ t[i] = q[i + 1]
      /\ \A i \in 2 .. Len(q) : i - 1 \in 1 .. Len(q) - 1 /\ t[i - 1] = q[i]
      /\ q[1] \in Task
  BY TailShifts
<1>2. /\ \A n : Has(t, "kernel", n) => Has(q, "kernel", n)
      /\ q[1].op = "kernel" => ~Has(t, "kernel", q[1].n)
  <2>1. q[1].n \in Nat
    BY <1>1, TaskOps
  <2>2. \A op, n : Has(t, op, n) => Has(q, op, n)
    BY TailQueue
  <2>3. q[1].op = "kernel" => \A n : Has(t, "kernel", n) => q[1].n < n
    BY <1>1, TailAscends
  <2>4. ~(q[1].n < q[1].n)
    BY <2>1
  <2> QED
    BY <2>2, <2>3, <2>4
<1> HIDE DEF t
<1> SUFFICES ASSUME NEW i \in 1 .. Len(t), NEW b \in Scratch, Reads(t[i], b)
             PROVE  OwnBefore(t, i, b) \/ (OwnNow(t, i, b) /\ new[b] \subseteq {t[i].n})
  BY DEF OwnQueue, t
<1>3. /\ i \in Int /\ i + 1 \in 1 .. Len(q) /\ t[i] = q[i + 1] /\ i <= Len(q) - 1 /\ (i + 1) - 1 = i
      /\ \A k \in 1 .. i - 1 : k + 1 \in 2 .. i /\ t[k] = q[k + 1]
      /\ \A k \in 2 .. i : k - 1 \in 1 .. i - 1 /\ t[k - 1] = q[k]
  BY <1>1
<1>4. OwnBefore(q, i + 1, b) \/ (OwnNow(q, i + 1, b) /\ old[b] \subseteq {q[i + 1].n})
  BY <1>3 DEF OwnQueue
<1>5. CASE OwnBefore(q, i + 1, b)
  <2>1. PICK j \in 1 .. i : /\ Writes(q[j], b)
                            /\ \A k \in j .. i : Writes(q[k], b) => q[k].n = t[i].n
    BY <1>3, <1>5 DEF OwnBefore
  <2>2. ASSUME NEW k \in 2 .. i, j <= k, Writes(q[k], b) PROVE OwnBefore(t, i, b)
    <3>1. k - 1 \in 1 .. i - 1 /\ k \in 2 .. i /\ Writes(t[k - 1], b)
      BY <1>3, <2>2
    <3>2. ASSUME NEW m \in k - 1 .. i - 1, Writes(t[m], b) PROVE t[m].n = t[i].n
      <4>1. m \in 1 .. i - 1 /\ m + 1 \in j .. i
        <5>1. i \in Int /\ j \in Int /\ k \in 2 .. i /\ j <= k
          BY <1>3, <2>1, <2>2
        <5> QED
          BY ONLY <5>1, m \in k - 1 .. i - 1
      <4> QED
        BY <4>1, <1>3, <2>1, <3>2
    <3> QED
      BY <3>1, <3>2 DEF OwnBefore
  <2>3. CASE \A k \in 2 .. i : j <= k => ~Writes(q[k], b)
    <3>1. j = 1
      <4>1. j \in 2 .. i => FALSE
        BY <2>1, <2>3
      <4> QED
        BY <4>1, <1>3
    <3>2. Writes(q[1], b) /\ q[1].n = t[i].n
      BY <2>1, <3>1, <1>3
    <3>3. new[b] \subseteq {t[i].n}
      BY <1>1, <3>2
    <3>4. \A k \in 1 .. i - 1 : ~Writes(t[k], b)
      <4> SUFFICES ASSUME NEW k \in 1 .. i - 1 PROVE ~Writes(t[k], b)
        OBVIOUS
      <4>1. k + 1 \in 2 .. i /\ 1 <= k + 1 /\ t[k] = q[k + 1]
        BY <1>3
      <4> QED
        BY <4>1, <3>1, <2>3
    <3>5. b \in Outs => ~Has(t, "kernel", t[i].n)
      BY <1>1, <1>2, <3>2, BufferOps
    <3> QED
      BY <3>3, <3>4, <3>5 DEF OwnNow
  <2> QED
    BY <2>2, <2>3
<1>6. CASE OwnNow(q, i + 1, b) /\ old[b] \subseteq {q[i + 1].n}
  <2>1. /\ \A k \in 1 .. i : ~Writes(q[k], b)
        /\ b \in Outs => ~Has(q, "kernel", t[i].n)
    BY <1>3, <1>6 DEF OwnNow
  <2>2. 1 \in 1 .. i
    BY <1>3
  <2>3. new[b] \subseteq {t[i].n}
    BY <2>1, <2>2, <1>1, <1>3, <1>6
  <2>4. \A k \in 1 .. i - 1 : ~Writes(t[k], b)
    <3> SUFFICES ASSUME NEW k \in 1 .. i - 1 PROVE ~Writes(t[k], b)
      OBVIOUS
    <3>1. k + 1 \in 1 .. i /\ t[k] = q[k + 1]
      BY <1>3
    <3> QED
      BY <3>1, <2>1
  <2> QED
    BY <2>1, <2>3, <2>4, <1>2 DEF OwnNow
<1> QED
  BY <1>4, <1>5, <1>6

(* What the head finds: its own data.                                      *)
LEMMA OwnHead ==
  ASSUME NEW q \in Seq(Task), q # <<>>, NEW buffers, OwnQueue(q, buffers),
         NEW b \in Scratch, Reads(Head(q), b)
  PROVE  buffers[b] \subseteq {Head(q).n}
<1>1. Head(q) = q[1] /\ 1 \in 1 .. Len(q)
  BY TailShifts
<1>2. ~OwnBefore(q, 1, b)
  BY DEF OwnBefore
<1> QED
  BY <1>1, <1>2 DEF OwnQueue

(* A launch behind the others.                                             *)
LEMMA OwnPush ==
  ASSUME NEW q \in Seq(Task), NEW n \in Nat, \A i \in 1 .. Len(q) : q[i].n < n,
         NEW T, NEW c, KernelAt(T, c, n), OwnTasks(T, n),
         NEW p, p = q \o T,
         NEW buffers, OwnQueue(q, buffers)
  PROVE  OwnQueue(p, buffers)
<1>1. T \in Seq(Task)
  BY DEF KernelAt
<1>2. /\ p \in Seq(Task) /\ Len(q) \in Nat /\ Len(T) \in Nat /\ Len(p) = Len(q) + Len(T)
      /\ \A i \in 1 .. Len(q) : i \in 1 .. Len(p) /\ p[i] = q[i]
      /\ \A i \in 1 .. Len(T) : Len(q) + i \in 1 .. Len(p) /\ p[Len(q) + i] = T[i]
      /\ \A i \in 1 .. Len(p) : i \in 1 .. Len(q) \/ (i > Len(q) /\ \E j \in 1 .. Len(T) : i = Len(q) + j)
  BY <1>1, Joined, Zenon
<1>3. \A m : Has(p, "kernel", m) <=> Has(q, "kernel", m) \/ m = n
  BY PushKernel DEF KernelBehind
<1> SUFFICES ASSUME NEW i \in 1 .. Len(p), NEW b \in Scratch, Reads(p[i], b)
             PROVE  OwnBefore(p, i, b) \/ (OwnNow(p, i, b) /\ buffers[b] \subseteq {p[i].n})
  BY DEF OwnQueue
<1>4. CASE i \in 1 .. Len(q)
  <2>1. /\ p[i] = q[i] /\ \A k \in 1 .. i - 1 : k \in 1 .. Len(q) /\ p[k] = q[k]
    BY <1>2, <1>4
  <2>2. CASE OwnBefore(q, i, b)
    <3>1. PICK j \in 1 .. i - 1 : /\ Writes(q[j], b)
                                  /\ \A k \in j .. i - 1 : Writes(q[k], b) => q[k].n = q[i].n
      BY <2>2 DEF OwnBefore
    <3>2. \A k \in j .. i - 1 : k \in 1 .. i - 1
      BY <1>4
    <3> QED
      BY <2>1, <3>1, <3>2 DEF OwnBefore
  <2>3. CASE OwnNow(q, i, b) /\ buffers[b] \subseteq {q[i].n}
    <3>1. q[i].n # n
      <4>1. q[i].n \in Nat /\ q[i].n < n
        BY <1>4, ElementOfSeq, TaskOps
      <4> QED
        BY <4>1
    <3> QED
      BY <2>1, <2>3, <3>1, <1>3 DEF OwnNow
  <2> QED
    BY <1>4, <2>1, <2>2, <2>3 DEF OwnQueue
<1>5. CASE i \notin 1 .. Len(q)
  <2>1. PICK d \in 1 .. Len(T) : i = Len(q) + d
    BY <1>2, <1>5
  <2>2. p[i] = T[d]
    BY <2>1, <1>2
  <2>3. PICK j \in 1 .. d - 1 : Writes(T[j], b)
    BY <2>2 DEF OwnTasks
  <2>4. /\ Len(q) + j \in 1 .. i - 1 /\ p[Len(q) + j] = T[j]
    BY <2>1, <1>2
  <2>5. ASSUME NEW k \in Len(q) + j .. i - 1, Writes(p[k], b) PROVE p[k].n = p[i].n
    <3>1. k \in 1 .. Len(p) /\ k \notin 1 .. Len(q)
      BY <1>2, <2>1
    <3>2. PICK a \in 1 .. Len(T) : k = Len(q) + a
      BY <3>1, <1>2
    <3>3. p[k] = T[a] /\ T[a] \in Task /\ T[d] \in Task
      BY <3>2, <1>1, <1>2, ElementOfSeq
    <3> QED
      BY <3>3, <2>2, <2>5, BufferOps DEF OwnTasks
  <2> QED
    BY <2>2, <2>3, <2>4, <2>5 DEF OwnBefore
<1> QED
  BY <1>4, <1>5

(* Two sequences of one task.                                              *)
LEMMA Pair == ASSUME NEW s \in Task, NEW t \in Task PROVE <<s>> \o <<t>> = <<s, t>>
<1> DEFINE a == <<s>>
           b == <<t>>
<1>1. /\ a \in Seq(Task) /\ Len(a) = 1 /\ a[1] = s
      /\ b \in Seq(Task) /\ Len(b) = 1 /\ b[1] = t
  OBVIOUS
<1>2. <<s, t>> \in Seq(Task) /\ Len(<<s, t>>) = 2 /\ <<s, t>>[1] = s /\ <<s, t>>[2] = t
  OBVIOUS
<1> HIDE DEF a, b
<1>3. /\ a \o b \in Seq(Task) /\ Len(a \o b) = 2
      /\ (a \o b)[1] = s /\ (a \o b)[2] = t
  <2>1. 1 \in 1 .. 1 /\ 1 + 1 = 2
    OBVIOUS
  <2>2. /\ a \o b \in Seq(Task) /\ Len(a \o b) = Len(a) + Len(b)
        /\ \A i \in 1 .. Len(a) : (a \o b)[i] = a[i]
        /\ \A i \in 1 .. Len(b) : (a \o b)[Len(a) + i] = b[i]
    BY <1>1, Joined, Zenon
  <2> QED
    BY <1>1, <2>1, <2>2
<1>4. \A i \in 1 .. 2 : i = 1 \/ i = 2
  OBVIOUS
<1>5. a \o b = <<s, t>>
  BY <1>2, <1>3, <1>4, SeqEqual
<1> QED
  BY <1>5 DEF a, b

-----------------------------------------------------------------------------
(* The tasks of one collective.                                            *)
InTask(n, k) == [op |-> "copyin", n |-> n, buf |-> k.src]
OutTask(n, k) == [op |-> "copyout", n |-> n, buf |-> k.dst]
KernelTask(n, k) == [op |-> "kernel", n |-> n, src |-> k.src, dst |-> k.dst]
WaitTask(n) == [op |-> "wait", n |-> n]
RecordTask(n) == [op |-> "record", n |-> n]

LEMMA KindIs ==
  ASSUME NEW k \in Kinds
  PROVE  /\ k.src \in {"inp"} \cup Ins /\ k.dst \in {"out"} \cup Outs
         /\ k.src = "inp" => k \in Reduces
         /\ k \notin Reduces => k.dst = "gathered"
         /\ k \in Reduces => k.dst # "gathered"
BY DEF Kinds, Reduces, PaddedGather, Ins, Outs

LEMMA TaskIs ==
  ASSUME NEW n \in Nat, NEW k \in Kinds
  PROVE  /\ KernelTask(n, k) \in Task /\ KernelTask(n, k).op = "kernel" /\ KernelTask(n, k).n = n
         /\ KernelTask(n, k).src = k.src /\ KernelTask(n, k).dst = k.dst
         /\ RecordTask(n) \in Task /\ RecordTask(n).op = "record" /\ RecordTask(n).n = n
         /\ WaitTask(n) \in Task /\ WaitTask(n).op = "wait" /\ WaitTask(n).n = n
         /\ k.src # "inp" => /\ InTask(n, k) \in Task /\ InTask(n, k).op = "copyin"
                             /\ InTask(n, k).n = n /\ InTask(n, k).buf = k.src
         /\ k.dst # "out" => /\ OutTask(n, k) \in Task /\ OutTask(n, k).op = "copyout"
                             /\ OutTask(n, k).n = n /\ OutTask(n, k).buf = k.dst
BY KindIs DEF Task, KernelTask, RecordTask, WaitTask, InTask, OutTask

(* Before the kernel: the copy of the input, if any, and the wait, if any. *)
InPart(A, o, n, k) ==
  /\ A \in Seq(Task)
  /\ \A i \in 1 .. Len(A) : (k.src # "inp" /\ A[i] = InTask(n, k)) \/ \E j \in 1 .. Len(o) : A[i] = o[j]
  /\ k.src # "inp" => \E i \in 1 .. Len(A) : A[i] = InTask(n, k)
  /\ \A j \in 1 .. Len(o) : \E i \in 1 .. Len(A) : A[i] = o[j]
LEMMA InPartIs ==
  ASSUME NEW n \in Nat, NEW k \in Kinds, NEW o \in Seq(Task)
  PROVE  InPart(CopyIn(n, k) \o o, o, n, k)
<1> DEFINE ci == CopyIn(n, k)
<1>1. /\ ci \in Seq(Task)
      /\ \A i \in 1 .. Len(ci) : k.src # "inp" /\ ci[i] = InTask(n, k)
      /\ k.src # "inp" => \E i \in 1 .. Len(ci) : ci[i] = InTask(n, k)
  <2>1. CASE k.src = "inp"
    BY <2>1 DEF CopyIn
  <2>2. CASE k.src # "inp"
    <3>1. InTask(n, k) \in Task
      BY <2>2, TaskIs
    <3>2. ci = <<InTask(n, k)>>
      BY <2>2 DEF CopyIn, InTask
    <3> HIDE DEF ci
    <3>3. ci \in Seq(Task) /\ Len(ci) = 1 /\ ci[1] = InTask(n, k)
      BY <3>1, <3>2
    <3> QED
      BY <2>2, <3>3
  <2> QED
    BY <2>1, <2>2
<1> HIDE DEF ci
<1>2. /\ ci \o o \in Seq(Task)
      /\ \A i \in 1 .. Len(ci) : i \in 1 .. Len(ci \o o) /\ (ci \o o)[i] = ci[i]
      /\ \A i \in 1 .. Len(o) : Len(ci) + i \in 1 .. Len(ci \o o) /\ (ci \o o)[Len(ci) + i] = o[i]
      /\ \A i \in 1 .. Len(ci \o o) :
           i \in 1 .. Len(ci) \/ (i > Len(ci) /\ \E j \in 1 .. Len(o) : i = Len(ci) + j)
  BY <1>1, Joined, Zenon
<1>3. PICK A : A = ci \o o
  OBVIOUS
<1>4. InPart(A, o, n, k)
  <2>1. ASSUME NEW i \in 1 .. Len(A)
        PROVE  (k.src # "inp" /\ A[i] = InTask(n, k)) \/ \E j \in 1 .. Len(o) : A[i] = o[j]
    BY <1>1, <1>2, <1>3
  <2>2. ASSUME k.src # "inp" PROVE \E i \in 1 .. Len(A) : A[i] = InTask(n, k)
    BY <2>2, <1>1, <1>2, <1>3
  <2>3. ASSUME NEW j \in 1 .. Len(o) PROVE \E i \in 1 .. Len(A) : A[i] = o[j]
    BY <1>2, <1>3
  <2> QED
    BY <1>2, <1>3, <2>1, <2>2, <2>3 DEF InPart
<1> QED
  BY <1>3, <1>4 DEF ci

(* Behind it: the copy of the output and the record, in the order of the   *)
(* two functions; all_reduce marks the stream after the copy.              *)
OutPart(B, m, n, k) ==
  /\ B \in Seq(Task)
  /\ \A i \in 1 .. Len(B) : (k.dst # "out" /\ B[i] = OutTask(n, k)) \/ B[i] = RecordTask(n)
  /\ m # <<>> =>
       /\ \E i \in 1 .. Len(B) : B[i].op = "record"
       /\ \A i, j \in 1 .. Len(B) : B[i].op = "record" /\ B[j].op = "record" => i = j
       /\ k \in Reduces =>
            \A i, j \in 1 .. Len(B) : B[i].op = "copyout" /\ B[j].op = "record" => i < j

(* One or two tasks.                                                       *)
LEMMA OneOrTwo ==
  ASSUME NEW s \in Task, NEW t \in Task
  PROVE  /\ <<s>> \in Seq(Task) /\ Len(<<s>>) = 1 /\ <<s>>[1] = s
         /\ <<s, t>> \in Seq(Task) /\ Len(<<s, t>>) = 2 /\ <<s, t>>[1] = s /\ <<s, t>>[2] = t
OBVIOUS

LEMMA OutPartIs ==
  ASSUME NEW n \in Nat, NEW k \in Kinds, NEW m, m = <<>> \/ m = <<RecordTask(n)>>,
         NEW B, B = IF k \in Reduces THEN CopyOut(n, k) \o m ELSE m \o CopyOut(n, k)
  PROVE  OutPart(B, m, n, k)
<1>1. PICK r : r = RecordTask(n)
  OBVIOUS
<1>2. PICK t : t = OutTask(n, k)
  OBVIOUS
<1>3. r \in Task /\ r.op = "record"
  BY <1>1, TaskIs
<1>4. CopyOut(n, k) = <<>> \/ (k.dst # "out" /\ t \in Task /\ t.op = "copyout" /\ CopyOut(n, k) = <<t>>)
  BY <1>2, TaskIs DEF CopyOut, OutTask
<1>5. \/ B = <<>> /\ m = <<>>
      \/ B = <<r>>
      \/ /\ k.dst # "out" /\ t \in Task /\ t.op = "copyout"
         /\ (B = <<t>> /\ m = <<>>) \/ B = <<t, r>> \/ (B = <<r, t>> /\ k \notin Reduces)
  <2>1. CASE CopyOut(n, k) = <<>>
    <3>1. <<>> \o <<>> = <<>> /\ <<>> \o <<r>> = <<r>> /\ <<r>> \o <<>> = <<r>>
      BY <1>3
    <3> QED
      BY <2>1, <3>1, <1>1
  <2>2. CASE k.dst # "out" /\ t \in Task /\ t.op = "copyout" /\ CopyOut(n, k) = <<t>>
    <3>1. <<t>> \o <<r>> = <<t, r>> /\ <<r>> \o <<t>> = <<r, t>>
      BY <2>2, <1>3, Pair
    <3>2. <<t>> \o <<>> = <<t>> /\ <<>> \o <<t>> = <<t>>
      BY <2>2
    <3> QED
      BY <2>2, <3>1, <3>2, <1>1
  <2> QED
    BY <1>4, <2>1, <2>2
<1>6. CASE B = <<>> /\ m = <<>>
  <2>1. B \in Seq(Task) /\ 1 .. Len(B) = {}
    BY <1>6
  <2> QED
    BY <1>6, <2>1 DEF OutPart
<1>7. CASE B = <<r>>
  <2>1. B \in Seq(Task) /\ Len(B) = 1 /\ B[1] = r
    <3>1. r \in Task /\ B = <<r>>
      BY <1>3, <1>7
    <3> QED
      BY ONLY <3>1
  <2>2. \A i \in 1 .. 1 : i = 1
    OBVIOUS
  <2>3. 1 \in 1 .. 1 /\ r.op # "copyout"
    BY <1>3
  <2> QED
    BY <1>1, <1>3, <2>1, <2>2, <2>3 DEF OutPart
<1>8. CASE k.dst # "out" /\ t \in Task /\ t.op = "copyout" /\ B = <<t>> /\ m = <<>>
  <2>1. B \in Seq(Task) /\ Len(B) = 1 /\ B[1] = t
    <3>1. t \in Task /\ B = <<t>>
      BY <1>8
    <3> QED
      BY ONLY <3>1
  <2>2. \A i \in 1 .. 1 : i = 1
    OBVIOUS
  <2> QED
    BY <1>2, <1>8, <2>1, <2>2 DEF OutPart
<1>9. CASE k.dst # "out" /\ t \in Task /\ t.op = "copyout" /\ B = <<t, r>>
  <2>1. B \in Seq(Task) /\ Len(B) = 2 /\ B[1] = t /\ B[2] = r
    <3>1. r \in Task /\ t \in Task
      BY <1>3, <1>9
    <3>2. /\ <<t, r>> \in Seq(Task) /\ Len(<<t, r>>) = 2
          /\ <<t, r>>[1] = t /\ <<t, r>>[2] = r
      BY <3>1, OneOrTwo
    <3>3. B = <<t, r>>
      BY <1>9
    <3> QED
      BY <3>2, <3>3, Zenon
  <2>2. (\A i \in 1 .. 2 : i = 1 \/ i = 2) /\ 2 \in 1 .. 2 /\ 1 < 2
    OBVIOUS
  <2>3. \A i \in 1 .. Len(B) : /\ B[i] = t \/ B[i] = r
                               /\ B[i].op = "record" => i = 2
                               /\ B[i].op = "copyout" => i = 1
    BY <2>1, <2>2, <1>3, <1>9
  <2> QED
    BY <1>1, <1>2, <1>3, <1>9, <2>1, <2>2, <2>3 DEF OutPart
<1>10. CASE k.dst # "out" /\ t \in Task /\ t.op = "copyout" /\ B = <<r, t>> /\ k \notin Reduces
  <2>1. B \in Seq(Task) /\ Len(B) = 2 /\ B[1] = r /\ B[2] = t
    <3>1. r \in Task /\ t \in Task
      BY <1>3, <1>10
    <3>2. /\ <<r, t>> \in Seq(Task) /\ Len(<<r, t>>) = 2
          /\ <<r, t>>[1] = r /\ <<r, t>>[2] = t
      BY <3>1, OneOrTwo
    <3>3. B = <<r, t>>
      BY <1>10
    <3> QED
      BY <3>2, <3>3, Zenon
  <2>2. (\A i \in 1 .. 2 : i = 1 \/ i = 2) /\ 1 \in 1 .. 2
    OBVIOUS
  <2>3. \A i \in 1 .. Len(B) : /\ B[i] = t \/ B[i] = r
                               /\ B[i].op = "record" => i = 1
    BY <2>1, <2>2, <1>3, <1>10
  <2> QED
    BY <1>1, <1>2, <1>3, <1>10, <2>1, <2>2, <2>3 DEF OutPart
<1> QED
  BY <1>5, <1>6, <1>7, <1>8, <1>9, <1>10

(* A kernel x, the c-th of T, between two groups of tasks.                 *)
Placed(T, A, x, B, c) ==
  /\ c = Len(A) + 1 /\ c \in 1 .. Len(T)
  /\ T \in Seq(Task) /\ Len(A) \in Nat /\ Len(B) \in Nat /\ Len(T) = c + Len(B)
  /\ T[c] = x
  /\ \A i \in 1 .. Len(A) : i \in 1 .. c - 1 /\ T[i] = A[i]
  /\ \A i \in 1 .. Len(B) : c + i \in 1 .. Len(T) /\ T[c + i] = B[i]
  /\ \A i \in 1 .. Len(T) : i < c => i \in 1 .. Len(A)
  /\ \A i \in 1 .. Len(T) : i > c => \E j \in 1 .. Len(B) : i = c + j

LEMMA Around ==
  ASSUME NEW A \in Seq(Task), NEW x \in Task, NEW B \in Seq(Task), NEW T, T = (A \o <<x>>) \o B
  PROVE  \E c \in Nat : Placed(T, A, x, B, c)
<1>1. <<x>> \in Seq(Task) /\ Len(<<x>>) = 1 /\ <<x>>[1] = x
  BY OneOrTwo
<1>2. PICK d : d = A \o <<x>>
  OBVIOUS
<1>3. PICK c : c = Len(A) + 1
  OBVIOUS
<1>4. /\ d \in Seq(Task) /\ Len(A) \in Nat /\ Len(d) = c
      /\ \A i \in 1 .. Len(A) : d[i] = A[i]
      /\ d[c] = x
  <2>1. /\ A \o <<x>> \in Seq(Task) /\ Len(A) \in Nat /\ Len(A \o <<x>>) = Len(A) + 1
        /\ \A i \in 1 .. Len(A) : (A \o <<x>>)[i] = A[i]
    BY <1>1, Joined
  <2>2. (A \o <<x>>)[Len(A) + 1] = x
    <3>1. 1 \in 1 .. Len(<<x>>)
      BY <1>1
    <3>2. (A \o <<x>>)[Len(A) + 1] = <<x>>[1]
      BY <1>1, <3>1, Joined, Zenon
    <3> QED
      BY <3>2, <1>1
  <2> QED
    BY <1>2, <1>3, <2>1, <2>2
<1>5. /\ T \in Seq(Task) /\ Len(B) \in Nat /\ Len(T) = c + Len(B)
      /\ \A i \in 1 .. c : T[i] = d[i]
      /\ \A i \in 1 .. Len(B) : c + i \in 1 .. Len(T) /\ T[c + i] = B[i]
      /\ \A i \in 1 .. Len(T) : i \in 1 .. c \/ (i > c /\ \E j \in 1 .. Len(B) : i = c + j)
  <2>1. T = d \o B
    BY <1>2
  <2>2. /\ d \o B \in Seq(Task) /\ Len(B) \in Nat /\ Len(d \o B) = Len(d) + Len(B)
        /\ \A i \in 1 .. Len(d) : (d \o B)[i] = d[i]
        /\ \A i \in 1 .. Len(B) : Len(d) + i \in 1 .. Len(d \o B) /\ (d \o B)[Len(d) + i] = B[i]
        /\ \A i \in 1 .. Len(d \o B) :
             i \in 1 .. Len(d) \/ (i > Len(d) /\ \E j \in 1 .. Len(B) : i = Len(d) + j)
    BY <1>4, Joined, Zenon
  <2> QED
    BY <1>4, <2>1, <2>2, Zenon
<1>6. c \in Nat /\ c \in 1 .. Len(T) /\ c \in 1 .. c
  BY <1>3, <1>4, <1>5
<1>7. \A i \in 1 .. Len(A) : i \in 1 .. c - 1 /\ i \in 1 .. c
  BY <1>3, <1>4
<1>8. \A i \in 1 .. Len(T) : i < c => i \in 1 .. Len(A)
  BY <1>3, <1>4
<1>9. \A i \in 1 .. Len(T) : i > c => \E j \in 1 .. Len(B) : i = c + j
  BY <1>5, <1>6
<1>10. Len(T) = c + Len(B) /\ T[c] = x
  <2>1. c \in 1 .. c
    BY <1>6
  <2> QED
    BY <2>1, <1>4, <1>5
<1>11. \A i \in 1 .. Len(A) : T[i] = A[i]
  BY <1>4, <1>5, <1>7
<1>12. Placed(T, A, x, B, c)
  BY <1>3, <1>4, <1>5, <1>6, <1>7, <1>8, <1>9, <1>10, <1>11, Zenon DEF Placed
<1> QED
  BY <1>6, <1>12

(* What the tasks of a collective are: T, for the waits o and the mark m.  *)
Shape(T, c, o, m, n, k) ==
  /\ KernelAt(T, c, n) /\ OwnTasks(T, n)
  /\ \A j \in 1 .. Len(o) : \E i \in 1 .. c - 1 : T[i] = o[j]
  /\ \A i \in 1 .. Len(T) : T[i].op = "wait" => \E j \in 1 .. Len(o) : T[i] = o[j]
  /\ \A i \in 1 .. Len(T), b \in Scratch : Writes(T[i], b) \/ Reads(T[i], b) => b \in {k.src, k.dst}
  /\ m # <<>> =>
       /\ RecordOnce(T)
       /\ k \in Reduces =>
            \A i, j \in 1 .. Len(T) : T[i].op = "copyout" /\ T[j].op = "record" => i < j

LEMMA TasksShape ==
  ASSUME NEW n \in Nat, NEW k \in Kinds,
         NEW o \in Seq(Task), \A i \in 1 .. Len(o) : o[i].op = "wait",
         NEW m, m = <<>> \/ m = <<RecordTask(n)>>,
         NEW T, T = Tasks(n, k, o, m)
  PROVE  \E c \in Nat : Shape(T, c, o, m, n, k)
<1>1. PICK A : A = CopyIn(n, k) \o o
  OBVIOUS
<1>2. PICK B : B = IF k \in Reduces THEN CopyOut(n, k) \o m ELSE m \o CopyOut(n, k)
  OBVIOUS
<1>3. PICK x : x = KernelTask(n, k)
  OBVIOUS
<1>4. PICK t : t = InTask(n, k)
  OBVIOUS
<1>5. PICK u : u = OutTask(n, k)
  OBVIOUS
<1>6. PICK r : r = RecordTask(n)
  OBVIOUS
<1>7. /\ x \in Task /\ x.op = "kernel" /\ x.n = n /\ x.src = k.src /\ x.dst = k.dst
      /\ k.src # "inp" => t \in Task /\ t.op = "copyin" /\ t.n = n /\ t.buf = k.src
      /\ k.dst # "out" => u \in Task /\ u.op = "copyout" /\ u.n = n /\ u.buf = k.dst
      /\ r \in Task /\ r.op = "record" /\ r.n = n
  BY <1>3, <1>4, <1>5, <1>6, TaskIs
<1>8. /\ A \in Seq(Task)
      /\ \A i \in 1 .. Len(A) : (k.src # "inp" /\ A[i] = t) \/ \E j \in 1 .. Len(o) : A[i] = o[j]
      /\ k.src # "inp" => \E i \in 1 .. Len(A) : A[i] = t
      /\ \A j \in 1 .. Len(o) : \E i \in 1 .. Len(A) : A[i] = o[j]
  <2>1. InPart(A, o, n, k)
    BY <1>1, InPartIs
  <2> QED
    BY <2>1, <1>4 DEF InPart
<1>9. /\ B \in Seq(Task)
      /\ \A i \in 1 .. Len(B) : (k.dst # "out" /\ B[i] = u) \/ B[i] = r
      /\ m # <<>> =>
           /\ \E i \in 1 .. Len(B) : B[i].op = "record"
           /\ \A i, j \in 1 .. Len(B) : B[i].op = "record" /\ B[j].op = "record" => i = j
           /\ k \in Reduces =>
                \A i, j \in 1 .. Len(B) : B[i].op = "copyout" /\ B[j].op = "record" => i < j
  <2>1. OutPart(B, m, n, k)
    BY <1>2, OutPartIs
  <2> QED
    BY <2>1, <1>5, <1>6 DEF OutPart
<1>10. T = (A \o <<x>>) \o B
  BY <1>1, <1>2, <1>3 DEF Tasks, Kernel, KernelTask
<1>20. PICK c \in Nat : Placed(T, A, x, B, c)
  <2>1. A \in Seq(Task) /\ x \in Task /\ B \in Seq(Task)
    BY <1>7, <1>8, <1>9
  <2> QED
    BY <2>1, <1>10, Around
<1>11. /\ c = Len(A) + 1 /\ c \in 1 .. Len(T)
       /\ T \in Seq(Task) /\ Len(A) \in Nat /\ Len(B) \in Nat /\ Len(T) = c + Len(B)
       /\ T[c] = x
       /\ \A i \in 1 .. Len(A) : i \in 1 .. c - 1 /\ T[i] = A[i]
       /\ \A i \in 1 .. Len(B) : c + i \in 1 .. Len(T) /\ T[c + i] = B[i]
       /\ \A i \in 1 .. Len(T) : i < c => i \in 1 .. Len(A)
       /\ \A i \in 1 .. Len(T) : i > c => \E j \in 1 .. Len(B) : i = c + j
  BY <1>20 DEF Placed
<1>12. \A i \in 1 .. Len(T) :
         /\ i < c => (k.src # "inp" /\ T[i] = t) \/ \E j \in 1 .. Len(o) : T[i] = o[j]
         /\ i = c => T[i] = x
         /\ i > c => (k.dst # "out" /\ T[i] = u) \/ T[i] = r
         /\ i < c \/ i = c \/ i > c
  <2> SUFFICES ASSUME NEW i \in 1 .. Len(T)
               PROVE  /\ i < c => (k.src # "inp" /\ T[i] = t) \/ \E j \in 1 .. Len(o) : T[i] = o[j]
                      /\ i = c => T[i] = x
                      /\ i > c => (k.dst # "out" /\ T[i] = u) \/ T[i] = r
                      /\ i < c \/ i = c \/ i > c
    OBVIOUS
  <2>1. ASSUME i > c PROVE (k.dst # "out" /\ T[i] = u) \/ T[i] = r
    <3>1. PICK j \in 1 .. Len(B) : i = c + j
      BY <2>1, <1>11
    <3> QED
      BY <3>1, <1>9, <1>11
  <2>2. ASSUME i < c PROVE (k.src # "inp" /\ T[i] = t) \/ \E j \in 1 .. Len(o) : T[i] = o[j]
    <3>1. i \in 1 .. Len(A) /\ T[i] = A[i]
      BY <2>2, <1>11
    <3> QED
      BY <3>1, <1>8
  <2>3. i < c \/ i = c \/ i > c
    BY <1>11
  <2> QED
    BY <2>1, <2>2, <2>3, <1>11
<1>13. KernelAt(T, c, n)
  <2>1. Len(T) \in Nat /\ T \in Seq(Task) /\ c \in 1 .. Len(T)
    BY <1>11
  <2>2. ASSUME NEW i \in 1 .. Len(T)
        PROVE  /\ i < c => T[i].op \in {"copyin", "wait"}
               /\ i = c => T[i].op = "kernel" /\ T[i].n = n
               /\ i > c => T[i].op \in {"copyout", "record"} /\ T[i].n = n
    BY <1>7, <1>12
  <2> QED
    BY <2>1, <2>2 DEF KernelAt
<1>14. ASSUME NEW i \in 1 .. Len(T)
       PROVE  (k.src # "inp" /\ T[i] = t) \/ T[i] = x \/ (k.dst # "out" /\ T[i] = u) \/ T[i] = r
                \/ \E j \in 1 .. Len(o) : T[i] = o[j]
  BY <1>12
<1>15. OwnTasks(T, n)
  <2>1. \A i \in 1 .. Len(T) : T[i].op # "wait" => T[i].n = n
    BY <1>7, <1>14
  <2>2. ASSUME NEW i \in 1 .. Len(T), NEW b \in Scratch, Reads(T[i], b)
        PROVE  \E j \in 1 .. i - 1 : Writes(T[j], b)
    <3>1. CASE T[i].op = "kernel"
      <4>1. i = c
        BY <3>1, <1>13, KernelOnce
      <4>2. b = k.src /\ k.src # "inp"
        BY <2>2, <3>1, <4>1, <1>7, <1>11 DEF Reads, Scratch
      <4>3. PICK j \in 1 .. Len(A) : A[j] = t
        BY <4>2, <1>8
      <4>4. j \in 1 .. i - 1 /\ T[j] = t
        BY <4>1, <4>3, <1>11
      <4> QED
        BY <4>2, <4>4, <1>7 DEF Writes
    <3>2. CASE T[i].op = "copyout" /\ T[i].buf = b
      <4>1. k.dst # "out" /\ T[i] = u
        BY <3>2, <1>7, <1>14
      <4>2. ~(i < c) /\ i # c
        BY <3>2, <1>13 DEF KernelAt
      <4>3. c \in 1 .. i - 1
        <5>1. c \in 1 .. Len(T)
          BY <1>11
        <5> QED
          BY <4>2, <5>1
      <4>4. Writes(x, b)
        BY <3>2, <4>1, <1>7 DEF Writes
      <4> QED
        BY <4>3, <4>4, <1>11
    <3> QED
      BY <2>2, <3>1, <3>2 DEF Reads
  <2> QED
    BY <2>1, <2>2 DEF OwnTasks
<1>16. ASSUME NEW j \in 1 .. Len(o) PROVE \E i \in 1 .. c - 1 : T[i] = o[j]
  <2>1. PICK i \in 1 .. Len(A) : A[i] = o[j]
    BY <1>8
  <2> QED
    BY <2>1, <1>11
<1>17. ASSUME NEW i \in 1 .. Len(T), T[i].op = "wait" PROVE \E j \in 1 .. Len(o) : T[i] = o[j]
  BY <1>7, <1>14, <1>17
<1>18. ASSUME NEW i \in 1 .. Len(T), NEW b \in Scratch, Writes(T[i], b) \/ Reads(T[i], b)
       PROVE  b \in {k.src, k.dst}
  BY <1>7, <1>14, <1>18 DEF Writes, Reads
<1>19. ASSUME m # <<>>
       PROVE  /\ RecordOnce(T)
              /\ k \in Reduces =>
                   \A i, j \in 1 .. Len(T) : T[i].op = "copyout" /\ T[j].op = "record" => i < j
  <2>1. ASSUME NEW i \in 1 .. Len(T), T[i].op \in {"record", "copyout"}
        PROVE  \E d \in 1 .. Len(B) : i = c + d /\ B[d] = T[i]
    <3>1. i > c
      BY <2>1, <1>13 DEF KernelAt
    <3>2. PICK d \in 1 .. Len(B) : i = c + d
      BY <3>1, <1>11
    <3> QED
      BY <3>2, <1>11
  <2>2. \E i \in 1 .. Len(T) : T[i].op = "record"
    <3>1. PICK d \in 1 .. Len(B) : B[d].op = "record"
      BY <1>9, <1>19
    <3> QED
      BY <3>1, <1>11
  <2>3. ASSUME NEW i \in 1 .. Len(T), NEW j \in 1 .. Len(T), T[i].op = "record", T[j].op = "record"
        PROVE  i = j
    <3>1. PICK d \in 1 .. Len(B) : i = c + d /\ B[d] = T[i]
      BY <2>1, <2>3
    <3>2. PICK e \in 1 .. Len(B) : j = c + e /\ B[e] = T[j]
      BY <2>1, <2>3
    <3>3. d = e
      BY <3>1, <3>2, <2>3, <1>9, <1>19
    <3> QED
      BY <3>1, <3>2, <3>3
  <2>4. ASSUME k \in Reduces, NEW i \in 1 .. Len(T), NEW j \in 1 .. Len(T),
               T[i].op = "copyout", T[j].op = "record"
        PROVE  i < j
    <3>1. PICK d \in 1 .. Len(B) : i = c + d /\ B[d] = T[i]
      BY <2>1, <2>4
    <3>2. PICK e \in 1 .. Len(B) : j = c + e /\ B[e] = T[j]
      BY <2>1, <2>4
    <3>3. d < e
      BY <3>1, <3>2, <2>4, <1>9, <1>19
    <3> QED
      BY <3>1, <3>2, <3>3, <1>11
  <2> QED
    BY <2>2, <2>3, <2>4 DEF RecordOnce
<1> QED
  BY <1>13, <1>15, <1>16, <1>17, <1>18, <1>19 DEF Shape

-----------------------------------------------------------------------------
(* The order of launches.  A caller that captures graphs has one stream for*)
(* its eager collectives and for its replays, as vLLM has.                 *)
OneGraphStream == \A u \in Uses : u.graphs => \E s : u.eager \cup u.replay \subseteq {s}

(* With graphs no two streams have tasks.                                  *)
LEMMA AloneIs ==
  ASSUME OneGraphStream, use \in Uses, use.graphs, Alone,
         NEW s \in Streams, NEW t \in Streams, queue[s] # <<>>, queue[t] # <<>>
  PROVE  s = t
BY DEF OneGraphStream, Alone

(* A queue that has a task is not empty.                                   *)
LEMMA HasSome == ASSUME NEW q, NEW op, NEW n, Has(q, op, n) PROVE q # <<>>
BY DEF Has

(* The first state.                                                        *)
LEMMA InitOrder == StreamsInit => OrderInv
<1> SUFFICES ASSUME StreamsInit PROVE OrderInv
  OBVIOUS
<1>1. /\ \A t \in Streams : queue[t] = <<>> /\ Len(queue[t]) = 0
      /\ queue \in [Streams -> Seq(Task)] /\ ran = <<>> /\ Len(ran) = 0 /\ ran \in Seq(Nat)
      /\ launched = 0 /\ event = 0 /\ DOMAIN running = {} /\ use \in Uses
  BY DEF StreamsInit
<1>2. 1 .. 0 = {} /\ 0 + 1 .. 0 = {}
  OBVIOUS
<1>3. \A t \in Streams : \A op, n : ~Has(queue[t], op, n)
  BY <1>1, <1>2 DEF Has
<1>4. \A op, n : ~Pending(op, n)
  BY <1>3 DEF Pending
<1>5. Typed /\ InTurn
  BY <1>1, <1>2 DEF Typed, InTurn
<1>6. \A t \in Streams : Ascending(queue[t]) /\ InOrder(queue[t]) /\ RecordsFollow(queue[t])
  BY <1>1, <1>2, <1>3 DEF Ascending, InOrder, RecordsFollow
<1>7. OneEach("kernel") /\ OneEach("record") /\ NotEnded /\ Behind
  BY <1>1, <1>2, <1>3, <1>4 DEF OneEach, NotEnded, Behind
<1>8. WaitInv
  BY <1>1, <1>3, <1>4, <1>6, <1>7 DEF WaitInv, LastLaunch, StreamsInit, EmptyGraph
<1>9. Alone
  BY <1>1 DEF Alone
<1> QED
  BY <1>1, <1>5, <1>6, <1>7, <1>8, <1>9 DEF OrderInv, TurnInv

(* A kernel at the head of its stream has no predecessor in any queue, nor *)
(* its record.                                                             *)
LEMMA HeadIsNext ==
  ASSUME OneGraphStream, OrderInv, NEW s \in Streams, NextIs(s, "kernel")
  PROVE  /\ Head(queue[s]).n \in Nat /\ Has(queue[s], "kernel", Head(queue[s]).n)
         /\ \A m \in Nat : Head(queue[s]).n = m + 1 =>
              ~Pending("kernel", m) /\ (~use.graphs => ~Pending("record", m))
<1>1. queue[s] \in Seq(Task) /\ queue[s] # <<>> /\ Head(queue[s]).op = "kernel"
  BY DEF NextIs, OrderInv, TurnInv, Typed
<1>2. /\ Len(queue[s]) \in Nat /\ Len(queue[s]) >= 1 /\ 1 \in 1 .. Len(queue[s])
      /\ Head(queue[s]) = queue[s][1] /\ queue[s][1].n \in Nat /\ queue[s][1].op = "kernel"
  BY <1>1, TailShifts, TaskOps
<1>3. Has(queue[s], "kernel", queue[s][1].n)
  BY <1>2 DEF Has
<1>4. ASSUME NEW m \in Nat, queue[s][1].n = m + 1, ~use.graphs, Pending("record", m) PROVE FALSE
  <2>1. WaitInv
    BY <1>4 DEF OrderInv
  <2>2. Has(queue[s], "record", m) \/ WaitBefore(queue[s], 1, m)
    BY <1>2, <1>4, <2>1 DEF WaitInv, Behind
  <2>3. ~WaitBefore(queue[s], 1, m)
    BY DEF WaitBefore
  <2>4. PICK i \in 1 .. Len(queue[s]) : queue[s][i].op = "record" /\ queue[s][i].n = m
    BY <2>2, <2>3 DEF Has
  <2>5. 1 < i
    BY <2>4, <1>2
  <2>6. Place(queue[s][1]) < Place(queue[s][i])
    BY <1>2, <2>1, <2>4, <2>5 DEF WaitInv, InOrder
  <2>7. Place(queue[s][1]) = 2 * (m + 1) /\ Place(queue[s][i]) = 2 * m + 1
    BY <1>2, <1>4, <2>4 DEF Place
  <2> QED
    BY <2>6, <2>7
<1>5. ASSUME NEW m \in Nat, queue[s][1].n = m + 1, Pending("kernel", m) PROVE FALSE
  <2>1. PICK u \in Streams : Has(queue[u], "kernel", m)
    BY <1>5 DEF Pending
  <2>2. CASE ~use.graphs
    <3>1. Has(queue[u], "record", m)
      BY <2>1, <2>2 DEF OrderInv, WaitInv, RecordsFollow
    <3> QED
      BY <2>2, <3>1, <1>4, <1>5 DEF Pending
  <2>3. CASE use.graphs
    <3>1. u = s
      BY <1>1, <2>1, <2>3, AloneIs, HasSome DEF OrderInv
    <3>2. PICK i \in 1 .. Len(queue[s]) : queue[s][i].op = "kernel" /\ queue[s][i].n = m
      BY <2>1, <3>1 DEF Has
    <3>3. i # 1
      BY <3>2, <1>5
    <3>4. 1 < i
      BY <3>3, <1>2
    <3>5. queue[s][1].n < queue[s][i].n
      BY <1>2, <3>2, <3>4 DEF OrderInv, TurnInv, Ascending
    <3>6. m + 1 < m
      BY <1>5, <3>2, <3>5
    <3> QED
      BY <3>6
  <2> QED
    BY <2>2, <2>3
<1> QED
  BY <1>2, <1>3, <1>4, <1>5

(* What taking a task away does to the queues.                             *)
LEMMA PopQueues ==
  ASSUME TurnInv, NEW s \in Streams, queue[s] # <<>>, Pop(s)
  PROVE  /\ queue' \in [Streams -> Seq(Task)]
         /\ queue'[s] = Tail(queue[s]) /\ \A t \in Streams : t # s => queue'[t] = queue[t]
         /\ \A t \in Streams : Ascending(queue'[t])
         /\ \A t \in Streams : \A op, n : Has(queue'[t], op, n) => Has(queue[t], op, n)
         /\ \A t \in Streams : \A op, n :
              Has(queue[t], op, n) /\ ~(t = s /\ Head(queue[s]).op = op /\ Head(queue[s]).n = n)
                => Has(queue'[t], op, n)
         /\ Head(queue[s]).op = "kernel" => ~Has(queue'[s], "kernel", Head(queue[s]).n)
         /\ \A t \in Streams : \A i \in 1 .. Len(queue'[t]) : \E j \in 1 .. Len(queue[t]) :
              /\ queue'[t][i] = queue[t][j]
              /\ \A n \in Nat :
                   WaitBefore(queue[t], j, n) /\ ~(t = s /\ Head(queue[s]).op = "wait" /\ Head(queue[s]).n = n)
                     => WaitBefore(queue'[t], i, n)
<1>1. /\ queue \in [Streams -> Seq(Task)] /\ queue[s] \in Seq(Task)
      /\ queue'[s] = Tail(queue[s])
      /\ \A t \in Streams : t # s => queue'[t] = queue[t]
      /\ \A t \in Streams : Ascending(queue[t])
  BY DEF Pop, TurnInv, Typed
<1>2. /\ Tail(queue[s]) \in Seq(Task) /\ Len(queue[s]) \in Nat /\ Len(queue[s]) >= 1
      /\ Len(Tail(queue[s])) = Len(queue[s]) - 1
      /\ \A i \in 1 .. Len(queue[s]) - 1 : i + 1 \in 1 .. Len(queue[s]) /\ Tail(queue[s])[i] = queue[s][i + 1]
      /\ Head(queue[s]) \in Task
  BY <1>1, TailShifts
<1>3. queue' \in [Streams -> Seq(Task)]
  BY <1>1, <1>2 DEF Pop
<1>4. /\ \A op, n : Has(Tail(queue[s]), op, n) => Has(queue[s], op, n)
      /\ \A op, n : Has(queue[s], op, n) /\ ~(Head(queue[s]).op = op /\ Head(queue[s]).n = n)
                      => Has(Tail(queue[s]), op, n)
      /\ \A i \in 1 .. Len(queue[s]) - 1, n \in Nat :
           WaitBefore(queue[s], i + 1, n) /\ ~(Head(queue[s]).op = "wait" /\ Head(queue[s]).n = n)
             => WaitBefore(Tail(queue[s]), i, n)
  BY <1>1, TailQueue
<1>5. ASSUME NEW t \in Streams, NEW i \in 1 .. Len(queue'[t])
      PROVE  \E j \in 1 .. Len(queue[t]) :
               /\ queue'[t][i] = queue[t][j]
               /\ \A n \in Nat :
                    WaitBefore(queue[t], j, n) /\ ~(t = s /\ Head(queue[s]).op = "wait" /\ Head(queue[s]).n = n)
                      => WaitBefore(queue'[t], i, n)
  <2>1. CASE t # s
    BY <2>1, <1>1
  <2>2. CASE t = s
    <3>1. i \in 1 .. Len(queue[s]) - 1 /\ i + 1 \in 1 .. Len(queue[s])
      BY <2>2, <1>1, <1>2
    <3>2. queue'[s][i] = queue[s][i + 1]
      BY <3>1, <1>1, <1>2
    <3>3. \A n \in Nat :
            WaitBefore(queue[s], i + 1, n) /\ ~(Head(queue[s]).op = "wait" /\ Head(queue[s]).n = n)
              => WaitBefore(queue'[s], i, n)
      BY <3>1, <1>1, <1>4, Zenon
    <3> QED
      BY <2>2, <3>1, <3>2, <3>3
  <2> QED
    BY <2>1, <2>2
<1>6. /\ Ascending(Tail(queue[s]))
      /\ Head(queue[s]).op = "kernel" => ~Has(Tail(queue[s]), "kernel", Head(queue[s]).n)
  <2>1. /\ Ascending(Tail(queue[s]))
        /\ Head(queue[s]).op = "kernel" => \A n : Has(Tail(queue[s]), "kernel", n) => Head(queue[s]).n < n
    BY <1>1, TailAscends
  <2>2. Head(queue[s]).n \in Nat
    BY <1>2, TaskOps
  <2>3. ~(Head(queue[s]).n < Head(queue[s]).n)
    BY <2>2
  <2> QED
    BY <2>1, <2>3
<1>7. \A t \in Streams : Ascending(queue'[t])
  BY <1>1, <1>6, Zenon
<1>8. ASSUME NEW t \in Streams, NEW op, NEW n
      PROVE  /\ Has(queue'[t], op, n) => Has(queue[t], op, n)
             /\ Has(queue[t], op, n) /\ ~(t = s /\ Head(queue[s]).op = op /\ Head(queue[s]).n = n)
                  => Has(queue'[t], op, n)
  <2>1. CASE t # s
    BY <2>1, <1>1
  <2>2. CASE t = s
    BY <2>2, <1>1, <1>4, Zenon
  <2> QED
    BY <2>1, <2>2
<1> QED
  BY <1>1, <1>3, <1>5, <1>6, <1>7, <1>8

(* Taking a task away keeps what is said of the queues.                    *)
LEMMA PopTurn ==
  ASSUME TurnInv, NEW s \in Streams, queue[s] # <<>>, Pop(s), UNCHANGED launched
  PROVE  /\ \A t \in Streams : \A i \in 1 .. Len(queue'[t]) : queue'[t][i].n <= launched'
         /\ OneEach("kernel")' /\ (OneEach("record") => OneEach("record")')
         /\ \A n \in Nat : Pending("kernel", n)' <=>
              Pending("kernel", n) /\ ~(Head(queue[s]).op = "kernel" /\ Head(queue[s]).n = n)
         /\ \A n : Pending("record", n)' => Pending("record", n)
<1>1. /\ \A t \in Streams : \A op, n : Has(queue'[t], op, n) => Has(queue[t], op, n)
      /\ \A t \in Streams : \A op, n :
           Has(queue[t], op, n) /\ ~(t = s /\ Head(queue[s]).op = op /\ Head(queue[s]).n = n)
             => Has(queue'[t], op, n)
      /\ Head(queue[s]).op = "kernel" => ~Has(queue'[s], "kernel", Head(queue[s]).n)
      /\ \A t \in Streams : \A i \in 1 .. Len(queue'[t]) : \E j \in 1 .. Len(queue[t]) :
           /\ queue'[t][i] = queue[t][j]
           /\ \A n \in Nat :
                WaitBefore(queue[t], j, n) /\ ~(t = s /\ Head(queue[s]).op = "wait" /\ Head(queue[s]).n = n)
                  => WaitBefore(queue'[t], i, n)
  BY PopQueues
<1>2. \A n \in Nat, t, u \in Streams : Has(queue[t], "kernel", n) /\ Has(queue[u], "kernel", n) => t = u
  BY DEF TurnInv, OneEach
<1>3. OneEach("kernel")' /\ (OneEach("record") => OneEach("record")')
  BY <1>1, <1>2 DEF OneEach
<1>4. ASSUME NEW n \in Nat
      PROVE  Pending("kernel", n)' <=>
               Pending("kernel", n) /\ ~(Head(queue[s]).op = "kernel" /\ Head(queue[s]).n = n)
  <2>1. CASE Head(queue[s]).op = "kernel" /\ Head(queue[s]).n = n
    <3>1. Has(queue[s], "kernel", n)
      <4>1. queue[s] \in Seq(Task)
        BY DEF TurnInv, Typed
      <4>2. Head(queue[s]) = queue[s][1] /\ 1 \in 1 .. Len(queue[s])
        BY <4>1, TailShifts
      <4> QED
        BY <4>2, <2>1 DEF Has
    <3>2. ASSUME NEW t \in Streams PROVE ~Has(queue'[t], "kernel", n)
      <4>1. CASE t = s
        BY <2>1, <4>1, <1>1, Zenon
      <4>2. Has(queue'[t], "kernel", n) => t = s
        BY <3>1, <1>1, <1>2
      <4> QED
        BY <4>1, <4>2
    <3> QED
      BY <2>1, <3>2 DEF Pending
  <2>2. CASE ~(Head(queue[s]).op = "kernel" /\ Head(queue[s]).n = n)
    BY <2>2, <1>1 DEF Pending
  <2> QED
    BY <2>1, <2>2
<1>5. \A n : Pending("record", n)' => Pending("record", n)
  BY <1>1 DEF Pending
<1>6. \A t \in Streams : \A i \in 1 .. Len(queue'[t]) : queue'[t][i].n <= launched'
  BY <1>1 DEF TurnInv, Typed
<1> QED
  BY <1>3, <1>4, <1>5, <1>6

(* A wait is taken away when the record that it is for has been executed.  *)
LEMMA PopWaits ==
  ASSUME TurnInv, WaitInv, NEW s \in Streams, queue[s] # <<>>, Pop(s),
         Head(queue[s]).op = "wait" => ~Pending("record", Head(queue[s]).n),
         UNCHANGED <<ran, host>>
  PROVE  WaitInv'
<1>1. /\ queue'[s] = Tail(queue[s]) /\ \A t \in Streams : t # s => queue'[t] = queue[t]
      /\ \A t \in Streams : \A op, n : Has(queue'[t], op, n) => Has(queue[t], op, n)
      /\ \A t \in Streams : \A op, n :
           Has(queue[t], op, n) /\ ~(t = s /\ Head(queue[s]).op = op /\ Head(queue[s]).n = n)
             => Has(queue'[t], op, n)
      /\ \A t \in Streams : \A i \in 1 .. Len(queue'[t]) : \E j \in 1 .. Len(queue[t]) :
           /\ queue'[t][i] = queue[t][j]
           /\ \A n \in Nat :
                WaitBefore(queue[t], j, n) /\ ~(t = s /\ Head(queue[s]).op = "wait" /\ Head(queue[s]).n = n)
                  => WaitBefore(queue'[t], i, n)
  BY PopQueues
<1>2. UNCHANGED <<launched, lastStream, event, capture, graph, ran>>
  BY DEF host
<1>3. OneEach("record")' /\ \A n : Pending("record", n)' => Pending("record", n)
  BY <1>2, PopTurn DEF WaitInv
<1>4. \A t \in Streams : InOrder(queue'[t]) /\ RecordsFollow(queue'[t])
  <2>1. queue[s] \in Seq(Task) /\ \A t \in Streams : InOrder(queue[t]) /\ RecordsFollow(queue[t])
    BY DEF TurnInv, Typed, WaitInv
  <2>2. InOrder(Tail(queue[s])) /\ RecordsFollow(Tail(queue[s]))
    BY <2>1, TailInOrder
  <2> QED
    BY <1>1, <2>1, <2>2, Zenon
<1>5. Behind'
  <2> SUFFICES ASSUME NEW t \in Streams, NEW i \in 1 .. Len(queue'[t]), NEW n \in Nat,
                      queue'[t][i].op = "kernel", queue'[t][i].n = n + 1, Pending("record", n)'
               PROVE  Has(queue'[t], "record", n) \/ WaitBefore(queue'[t], i, n)
    BY DEF Behind
  <2>1. PICK j \in 1 .. Len(queue[t]) :
          /\ queue'[t][i] = queue[t][j]
          /\ \A m \in Nat :
               WaitBefore(queue[t], j, m) /\ ~(t = s /\ Head(queue[s]).op = "wait" /\ Head(queue[s]).n = m)
                 => WaitBefore(queue'[t], i, m)
    BY <1>1
  <2>2. Pending("record", n)
    BY <1>3
  <2>3. Has(queue[t], "record", n) \/ WaitBefore(queue[t], j, n)
    BY <2>1, <2>2 DEF WaitInv, Behind
  <2>4. ~(Head(queue[s]).op = "wait" /\ Head(queue[s]).n = n)
    BY <2>2
  <2>5. CASE Has(queue[t], "record", n) /\ ~Has(queue'[t], "record", n)
    <3>1. t = s /\ Head(queue[s]).op = "record" /\ Head(queue[s]).n = n
      BY <2>5, <1>1
    <3>2. PICK u \in Streams : Has(queue'[u], "record", n)
      BY DEF Pending
    <3>3. u = t
      BY <3>2, <2>5, <1>1 DEF WaitInv, OneEach
    <3> QED
      BY <3>2, <3>3, <2>5
  <2> QED
    BY <2>1, <2>3, <2>4, <2>5
<1>6. LastLaunch'
  BY <1>1, <1>2 DEF WaitInv, LastLaunch
<1>7. \A n \in Nat : Pending("record", n)' => n >= Len(ran')
  BY <1>2, <1>3 DEF WaitInv
<1> QED
  BY <1>2, <1>3, <1>4, <1>5, <1>6, <1>7 DEF WaitInv

(* A queue without tasks does not get any.                                 *)
LEMMA PopAlone ==
  ASSUME TurnInv, Alone, NEW s \in Streams, queue[s] # <<>>, Pop(s), UNCHANGED use PROVE Alone'
BY PopQueues DEF Alone

(* A wait that is over is for a record that is in no queue.                *)
LEMMA WaitIsOver ==
  ASSUME TurnInv, NEW s \in Streams, RunWait(s) PROVE ~Pending("record", Head(queue[s]).n)
<1>1. \A t \in Streams : ~Contains(queue[t], [op |-> "record", n |-> Head(queue[s]).n])
  BY DEF RunWait
<1>2. PICK m : m = Head(queue[s]).n
  OBVIOUS
<1>3. ASSUME NEW t \in Streams, Has(queue[t], "record", m) PROVE FALSE
  <2>1. queue[t] \in Seq(Task)
    BY DEF TurnInv, Typed
  <2>2. PICK i \in 1 .. Len(queue[t]) : queue[t][i].op = "record" /\ queue[t][i].n = m
    BY <1>3 DEF Has
  <2>3. queue[t][i] = [op |-> "record", n |-> m]
    BY <2>1, <2>2, ElementOfSeq, TaskOps
  <2> QED
    BY <1>1, <1>2, <2>2, <2>3 DEF Contains
<1> QED
  BY <1>2, <1>3 DEF Pending

(* A copy, a record, or a wait whose record has been executed.             *)
LEMMA OtherTurn ==
  ASSUME OrderInv, NEW s \in Streams, RunCopyIn(s) \/ RunCopyOut(s) \/ RunWait(s) \/ RunRecord(s)
  PROVE  OrderInv'
<1>1. TurnInv /\ use \in Uses
  BY DEF OrderInv
<1>2. /\ queue[s] # <<>> /\ Pop(s) /\ Head(queue[s]).op # "kernel"
      /\ UNCHANGED <<running, ran, host>>
      /\ Head(queue[s]).op = "wait" => RunWait(s)
  BY DEF RunCopyIn, RunCopyOut, RunWait, RunRecord, NextIs, device
<1>3. UNCHANGED <<launched, event, use>>
  BY <1>2 DEF host
<1>4. Head(queue[s]).op = "wait" => ~Pending("record", Head(queue[s]).n)
  BY <1>1, <1>2, WaitIsOver
<1>5. TurnInv'
  <2>1. queue' \in [Streams -> Seq(Task)] /\ \A t \in Streams : Ascending(queue'[t])
    BY <1>1, <1>2, PopQueues
  <2>2. /\ \A t \in Streams : \A i \in 1 .. Len(queue'[t]) : queue'[t][i].n <= launched'
        /\ OneEach("kernel")'
        /\ \A n \in Nat : Pending("kernel", n)' <=> Pending("kernel", n)
    BY <1>1, <1>2, <1>3, PopTurn
  <2>3. NotEnded'
    BY <1>1, <1>2, <1>3, <2>2 DEF TurnInv, NotEnded
  <2>4. Typed' /\ InTurn'
    BY <1>1, <1>2, <1>3, <2>1, <2>2 DEF TurnInv, Typed, InTurn
  <2> QED
    BY <2>1, <2>2, <2>3, <2>4 DEF TurnInv
<1>6. use.graphs => Alone'
  BY <1>1, <1>2, <1>3, PopAlone DEF OrderInv
<1>7. ~use.graphs => WaitInv'
  BY <1>1, <1>2, <1>4, PopWaits DEF OrderInv
<1> QED
  BY <1>1, <1>3, <1>5, <1>6, <1>7 DEF OrderInv

(* A kernel begins: it is the next one, and none is running.               *)
LEMMA BeginTurn ==
  ASSUME OneGraphStream, OrderInv, NEW s \in Streams, KernelBegin(s)
  PROVE  OrderInv' /\ Head(queue[s]).n = Len(ran) + 1 /\ DOMAIN running = {}
<1>1. Typed /\ NotEnded /\ InTurn /\ use \in Uses
  BY DEF OrderInv, TurnInv
<1>2. PICK h : h = Head(queue[s]).n
  OBVIOUS
<1>3. /\ NextIs(s, "kernel") /\ h \notin DOMAIN running
      /\ DOMAIN running' = DOMAIN running \cup {h} /\ ran' = Append(ran, h)
      /\ UNCHANGED <<queue, launched, lastStream, event, use, capture, graph>>
  BY <1>2 DEF KernelBegin, host
<1>4. /\ h \in Nat /\ Pending("kernel", h)
      /\ \A m \in Nat : h = m + 1 => ~Pending("kernel", m) /\ (~use.graphs => ~Pending("record", m))
  BY <1>2, <1>3, HeadIsNext DEF Pending
<1>5. PICK l \in Nat : l = Len(ran)
  BY <1>1, LenProperties DEF Typed
<1>6. launched \in Nat /\ l <= launched /\ DOMAIN running \subseteq {l}
  BY <1>1, <1>5 DEF Typed, InTurn
<1>7. \A n \in Nat : Pending("kernel", n) <=> n \in DOMAIN running \/ n \in l + 1 .. launched
  BY <1>1, <1>5 DEF NotEnded
<1>8. h \in l + 1 .. launched
  BY <1>3, <1>4, <1>7
<1>9. h = l + 1
  <2> SUFFICES ASSUME h # l + 1 PROVE FALSE
    OBVIOUS
  <2>1. h - 1 \in Nat /\ h = (h - 1) + 1 /\ h - 1 \in l + 1 .. launched
    BY <1>4, <1>6, <1>8
  <2> QED
    BY <2>1, <1>4, <1>7
<1>10. DOMAIN running = {}
  <2>1. l \notin DOMAIN running
    BY <1>4, <1>7, <1>9
  <2> QED
    BY <2>1, <1>6
<1>11. /\ ran' \in Seq(Nat) /\ Len(ran') = l + 1 /\ ran'[l + 1] = h
       /\ \A i \in 1 .. l : ran'[i] = ran[i]
  <2>1. ran \in Seq(Nat)
    BY <1>1 DEF Typed
  <2> QED
    BY <2>1, <1>3, <1>4, <1>5, AppendProperties
<1>12. Typed'
  BY <1>1, <1>3, <1>8, <1>9, <1>11 DEF Typed
<1>13. InTurn'
  <2>1. \A i \in 1 .. l + 1 : i \in 1 .. l \/ i = l + 1
    BY <1>5
  <2>2. \A i \in 1 .. l : ran[i] = i
    BY <1>1, <1>5 DEF InTurn
  <2> QED
    BY <2>1, <2>2, <1>3, <1>9, <1>10, <1>11 DEF InTurn
<1>14. /\ \A n \in Nat : Pending("kernel", n)' <=> Pending("kernel", n)
       /\ \A n \in Nat : Pending("record", n)' <=> Pending("record", n)
  BY <1>3 DEF Pending
<1>15. NotEnded'
  <2> SUFFICES ASSUME NEW n \in Nat
               PROVE  Pending("kernel", n)' <=> n \in DOMAIN running' \/ n \in Len(ran') + 1 .. launched'
    BY DEF NotEnded
  <2>1. Pending("kernel", n)' <=> n \in l + 1 .. launched
    BY <1>7, <1>10, <1>14
  <2>2. n \in l + 1 .. launched <=> n = l + 1 \/ n \in (l + 1) + 1 .. launched
    BY <1>6, <1>8, <1>9
  <2> QED
    BY <2>1, <2>2, <1>3, <1>9, <1>10, <1>11
<1>16. TurnInv'
  <2>1. OneEach("kernel")' /\ \A t \in Streams : Ascending(queue'[t])
    BY <1>3 DEF OrderInv, TurnInv, OneEach
  <2> QED
    BY <2>1, <1>12, <1>13, <1>15 DEF TurnInv
<1>17. use.graphs => Alone'
  BY <1>3 DEF OrderInv, Alone
<1>18. ASSUME ~use.graphs PROVE WaitInv'
  <2>1. WaitInv
    BY <1>18 DEF OrderInv
  <2>2. ASSUME NEW n \in Nat, Pending("record", n)' PROVE n >= Len(ran')
    <3>1. n >= l /\ n # l
      BY <2>1, <2>2, <1>4, <1>5, <1>9, <1>14, <1>18 DEF WaitInv
    <3> QED
      BY <3>1, <1>11
  <2>3. OneEach("record")' /\ LastLaunch' /\ \A t \in Streams : InOrder(queue'[t]) /\ RecordsFollow(queue'[t])
    BY <2>1, <1>3 DEF WaitInv, OneEach, LastLaunch
  <2>4. Behind'
    BY <2>1, <1>3, <1>14 DEF WaitInv, Behind
  <2> QED
    BY <2>1, <2>2, <2>3, <2>4, <1>3 DEF WaitInv
<1> QED
  BY <1>1, <1>2, <1>3, <1>5, <1>9, <1>10, <1>16, <1>17, <1>18 DEF OrderInv

(* A kernel ends: it is the one that began last.                           *)
LEMMA EndTurn ==
  ASSUME OrderInv, NEW s \in Streams, KernelEnd(s)
  PROVE  OrderInv' /\ Head(queue[s]).n = Len(ran) /\ Len(ran) \in Nat
<1>1. TurnInv /\ Typed /\ NotEnded /\ InTurn /\ use \in Uses
  BY DEF OrderInv, TurnInv
<1>2. PICK h : h = Head(queue[s]).n
  OBVIOUS
<1>3. /\ queue[s] # <<>> /\ Head(queue[s]).op = "kernel" /\ Pop(s)
      /\ h \in DOMAIN running /\ DOMAIN running' = DOMAIN running \ {h}
      /\ UNCHANGED <<ran, host>>
  BY <1>2 DEF KernelEnd, NextIs
<1>4. UNCHANGED <<launched, event, use>>
  BY <1>3 DEF host
<1>5. PICK l \in Nat : l = Len(ran)
  BY <1>1, LenProperties DEF Typed
<1>6. h = l /\ DOMAIN running = {l} /\ DOMAIN running' = {}
  BY <1>1, <1>3, <1>5 DEF InTurn
<1>7. TurnInv'
  <2>1. queue' \in [Streams -> Seq(Task)] /\ \A t \in Streams : Ascending(queue'[t])
    BY <1>1, <1>3, PopQueues
  <2>2. /\ \A t \in Streams : \A i \in 1 .. Len(queue'[t]) : queue'[t][i].n <= launched'
        /\ OneEach("kernel")'
        /\ \A n \in Nat : Pending("kernel", n)' <=> Pending("kernel", n) /\ ~(Head(queue[s]).op = "kernel" /\ Head(queue[s]).n = n)
    BY <1>1, <1>3, <1>4, PopTurn
  <2>3. NotEnded'
    <3> SUFFICES ASSUME NEW n \in Nat
                 PROVE  Pending("kernel", n)' <=> n \in DOMAIN running' \/ n \in Len(ran') + 1 .. launched'
      BY DEF NotEnded
    <3>1. Pending("kernel", n) <=> n \in DOMAIN running \/ n \in l + 1 .. launched
      BY <1>1, <1>5 DEF NotEnded
    <3>2. l \notin l + 1 .. launched
      BY <1>1 DEF Typed
    <3> QED
      BY <3>1, <3>2, <2>2, <1>2, <1>3, <1>4, <1>5, <1>6
  <2>4. Typed' /\ InTurn'
    BY <1>1, <1>3, <1>4, <1>6, <2>1, <2>2 DEF Typed, InTurn
  <2> QED
    BY <2>1, <2>2, <2>3, <2>4 DEF TurnInv
<1>8. use.graphs => Alone'
  BY <1>1, <1>3, <1>4, PopAlone DEF OrderInv
<1>9. ~use.graphs => WaitInv'
  BY <1>1, <1>3, PopWaits DEF OrderInv
<1> QED
  BY <1>1, <1>2, <1>4, <1>5, <1>6, <1>7, <1>8, <1>9 DEF OrderInv

-----------------------------------------------------------------------------
(* Launches are queued.                                                    *)

(* p is q with the tasks of the launches l + 1 .. e behind it, and its     *)
(* readers of buffers find their own data if those of q do.                *)
Grown(p, q, l, e) ==
  /\ p \in Seq(Task) /\ Ascending(p)
  /\ \A m : Has(p, "kernel", m) <=> Has(q, "kernel", m) \/ m \in l + 1 .. e
  /\ \A i \in 1 .. Len(p) : p[i].n <= e
  /\ \A buffers : OwnQueue(q, buffers) => OwnQueue(p, buffers)

(* The tasks that a launch is made of belong to it or are waits.           *)
Waits(o, e) == o \in Seq(Task) /\ \A i \in 1 .. Len(o) : o[i].op = "wait" /\ o[i].n <= e

(* One launch more.                                                        *)
LEMMA GrowOne ==
  ASSUME NEW q, NEW l \in Nat, NEW e \in Nat, l <= e,
         NEW r, Grown(r, q, l, e),
         NEW k \in Kinds, NEW o, Waits(o, e), NEW mark, mark = <<>> \/ mark = <<RecordTask(e + 1)>>,
         NEW T, T = Tasks(e + 1, k, o, mark)
  PROVE  T \in Seq(Task) /\ Grown(r \o T, q, l, e + 1)
<1>1. PICK n \in Nat : n = e + 1
  OBVIOUS
<1>2. /\ o \in Seq(Task) /\ \A i \in 1 .. Len(o) : o[i].op = "wait" /\ o[i].n <= e
      /\ \A i \in 1 .. Len(o) : o[i].n \in Nat
  <2>1. o \in Seq(Task) /\ \A i \in 1 .. Len(o) : o[i].op = "wait" /\ o[i].n <= e
    BY DEF Waits
  <2> QED
    BY <2>1, ElementOfSeq, TaskOps
<1>3. PICK c \in Nat : Shape(T, c, o, mark, n, k)
  <2>1. T = Tasks(n, k, o, mark) /\ (mark = <<>> \/ mark = <<RecordTask(n)>>)
    BY <1>1
  <2> QED
    BY <1>2, <2>1, TasksShape
<1>4. /\ KernelAt(T, c, n) /\ OwnTasks(T, n) /\ T \in Seq(Task)
      /\ \A i \in 1 .. Len(T) : T[i].op = "wait" => \E j \in 1 .. Len(o) : T[i] = o[j]
  BY <1>3 DEF Shape, KernelAt
<1>5. /\ r \in Seq(Task) /\ Ascending(r)
      /\ \A a : Has(r, "kernel", a) <=> Has(q, "kernel", a) \/ a \in l + 1 .. e
      /\ \A i \in 1 .. Len(r) : r[i].n <= e
      /\ \A buffers : OwnQueue(q, buffers) => OwnQueue(r, buffers)
  BY DEF Grown
<1>6. \A i \in 1 .. Len(r) : r[i].n \in Nat /\ r[i].n < n
  <2> SUFFICES ASSUME NEW i \in 1 .. Len(r) PROVE r[i].n \in Nat /\ r[i].n < n
    OBVIOUS
  <2>1. r[i].n \in Nat /\ r[i].n <= e
    BY <1>5, ElementOfSeq, TaskOps
  <2> QED
    BY <2>1, <1>1
<1>7. PICK p : p = r \o T
  OBVIOUS
<1>20. r \in Seq(Task) /\ (\A i \in 1 .. Len(r) : r[i].n < n) /\ KernelAt(T, c, n) /\ OwnTasks(T, n)
  BY <1>4, <1>5, <1>6
<1>8. /\ p \in Seq(Task)
      /\ \A a : Has(p, "kernel", a) <=> Has(r, "kernel", a) \/ a = n
      /\ Ascending(p)
  <2>1. KernelBehind(p, r, T, c, n)
    BY <1>7, <1>20, PushKernel
  <2> QED
    BY <2>1, <1>5 DEF KernelBehind
<1>9. \A buffers : OwnQueue(r, buffers) => OwnQueue(p, buffers)
  BY <1>7, <1>20, OwnPush
<1>10. ASSUME NEW a PROVE Has(p, "kernel", a) <=> Has(q, "kernel", a) \/ a \in l + 1 .. n
  <2>1. a \in l + 1 .. n <=> a \in l + 1 .. e \/ a = n
    BY <1>1
  <2> QED
    BY <2>1, <1>5, <1>8
<1>11. ASSUME NEW i \in 1 .. Len(p) PROVE p[i].n <= n
  <2>1. /\ r \o T \in Seq(Task) /\ Len(r) \in Nat /\ Len(T) \in Nat
        /\ \A j \in 1 .. Len(r) : (r \o T)[j] = r[j]
        /\ \A j \in 1 .. Len(T) : (r \o T)[Len(r) + j] = T[j]
        /\ \A j \in 1 .. Len(r \o T) :
             j \in 1 .. Len(r) \/ (j > Len(r) /\ \E d \in 1 .. Len(T) : j = Len(r) + d)
    <3>1. r \in Seq(Task) /\ T \in Seq(Task)
      BY <1>4, <1>5
    <3> QED
      BY ONLY <3>1, Joined, Zenon
  <2>2. CASE i \in 1 .. Len(r)
    <3>1. p[i] = r[i] /\ r[i].n \in Nat /\ r[i].n < n
      BY <2>1, <2>2, <1>6, <1>7
    <3> QED
      BY <3>1
  <2>3. CASE i \notin 1 .. Len(r)
    <3>1. PICK d \in 1 .. Len(T) : p[i] = T[d]
      BY <2>1, <2>3, <1>7
    <3>2. CASE T[d].op = "wait"
      <4>1. PICK j \in 1 .. Len(o) : T[d] = o[j]
        BY <3>2, <1>4
      <4>2. o[j].n \in Nat /\ o[j].n <= e
        BY <1>2
      <4> QED
        BY <4>1, <4>2, <3>1, <1>1
    <3>3. CASE T[d].op # "wait"
      BY <3>1, <3>3, <1>4 DEF OwnTasks
    <3> QED
      BY <3>2, <3>3
  <2> QED
    BY <2>2, <2>3
<1> HIDE DEF Grown
<1>12. Grown(p, q, l, n)
  BY <1>5, <1>8, <1>9, <1>10, <1>11 DEF Grown
<1> QED
  BY <1>1, <1>4, <1>7, <1>12

(* One stream has its queue grown, by the launches up to the last one.     *)
LEMMA GrowTurn ==
  ASSUME TurnInv, NEW s \in Streams, NEW e \in Nat, launched <= e, launched' = e,
         NEW p, Grown(p, queue[s], launched, e), queue' = [queue EXCEPT ![s] = p],
         event' \in Nat, event' <= e, UNCHANGED <<running, ran>>
  PROVE  TurnInv'
<1>1. PICK l \in Nat : l = launched
  BY DEF TurnInv, Typed
<1>2. /\ p \in Seq(Task) /\ Ascending(p)
      /\ \A m : Has(p, "kernel", m) <=> Has(queue[s], "kernel", m) \/ m \in l + 1 .. e
      /\ \A i \in 1 .. Len(p) : p[i].n <= e
  BY <1>1 DEF Grown
<1>3. /\ queue \in [Streams -> Seq(Task)] /\ \A t \in Streams : Ascending(queue[t])
      /\ \A t \in Streams : \A i \in 1 .. Len(queue[t]) :
           queue[t][i].n \in Nat /\ queue[t][i].n <= l
  <2>1. /\ queue \in [Streams -> Seq(Task)] /\ \A t \in Streams : Ascending(queue[t])
        /\ \A t \in Streams : \A i \in 1 .. Len(queue[t]) : queue[t][i].n <= l
    BY <1>1 DEF TurnInv, Typed
  <2>2. ASSUME NEW t \in Streams, NEW i \in 1 .. Len(queue[t]) PROVE queue[t][i].n \in Nat
    BY <2>1, ElementOfSeq, TaskOps
  <2> QED
    BY <2>1, <2>2
<1>4. queue'[s] = p /\ \A t \in Streams : t # s => queue'[t] = queue[t]
  BY <1>3
<1>5. queue' \in [Streams -> Seq(Task)] /\ \A t \in Streams : Ascending(queue'[t])
  BY <1>2, <1>3, <1>4
<1>6. \A t \in Streams, m \in Nat : Has(queue[t], "kernel", m) => m <= l
  BY <1>3 DEF Has
<1>7. \A t \in Streams, m \in Nat :
        Has(queue'[t], "kernel", m) <=> Has(queue[t], "kernel", m) \/ (t = s /\ m \in l + 1 .. e)
  BY <1>2, <1>4
<1>8. \A m \in Nat : Pending("kernel", m)' <=> Pending("kernel", m) \/ m \in l + 1 .. e
  BY <1>7 DEF Pending
<1>9. \A m \in l + 1 .. e : ~(m <= l)
  BY <1>1
<1>10. OneEach("kernel")'
  <2>1. \A n \in Nat : \A t, u \in Streams : Has(queue[t], "kernel", n) /\ Has(queue[u], "kernel", n) => t = u
    BY DEF TurnInv, OneEach
  <2> SUFFICES ASSUME NEW n \in Nat, NEW t \in Streams, NEW u \in Streams,
                      Has(queue'[t], "kernel", n), Has(queue'[u], "kernel", n)
               PROVE  t = u
    BY DEF OneEach
  <2> QED
    BY <2>1, <1>6, <1>7, <1>9
<1>11. PICK a \in Nat : a = Len(ran) /\ a <= l
  BY <1>1, LenProperties DEF TurnInv, Typed
<1>12. NotEnded'
  <2> SUFFICES ASSUME NEW n \in Nat
               PROVE  Pending("kernel", n)' <=> n \in DOMAIN running \/ n \in a + 1 .. e
    BY <1>11 DEF NotEnded
  <2>1. Pending("kernel", n) <=> n \in DOMAIN running \/ n \in a + 1 .. l
    BY <1>1, <1>11 DEF TurnInv, NotEnded
  <2>2. n \in a + 1 .. e <=> n \in a + 1 .. l \/ n \in l + 1 .. e
    BY <1>1, <1>11
  <2> QED
    BY <2>1, <2>2, <1>8
<1>13. Typed'
  <2>1. ASSUME NEW t \in Streams, NEW i \in 1 .. Len(queue'[t]) PROVE queue'[t][i].n <= e
    <3>1. CASE t # s
      <4>1. queue'[t][i].n \in Nat /\ queue'[t][i].n <= l
        BY <3>1, <1>3, <1>4
      <4> QED
        BY <4>1, <1>1
    <3>2. CASE t = s
      BY <3>2, <1>2, <1>4
    <3> QED
      BY <3>1, <3>2
  <2>2. ran' \in Seq(Nat) /\ Len(ran') <= e
    BY <1>1, <1>11 DEF TurnInv, Typed
  <2> QED
    BY <2>1, <2>2, <1>5 DEF Typed
<1>14. InTurn'
  BY DEF TurnInv, InTurn
<1> QED
  BY <1>5, <1>10, <1>12, <1>13, <1>14 DEF TurnInv

(* Another stream than that of the graphs has no tasks still.              *)
LEMMA GrowAlone ==
  ASSUME TurnInv, Alone, NEW s \in use.eager \cup use.replay, NEW p, queue' = [queue EXCEPT ![s] = p],
         UNCHANGED use
  PROVE  Alone'
BY DEF Alone, TurnInv, Typed

(* A queue that has grown by nothing.                                      *)
LEMMA GrownSelf ==
  ASSUME TurnInv, NEW s \in Streams
  PROVE  Grown(queue[s], queue[s], launched, launched)
<1>1. /\ queue[s] \in Seq(Task) /\ Ascending(queue[s]) /\ launched \in Nat
      /\ \A i \in 1 .. Len(queue[s]) : queue[s][i].n <= launched
  BY DEF TurnInv, Typed
<1>2. \A m : m \notin launched + 1 .. launched
  BY <1>1
<1> QED
  BY <1>1, <1>2 DEF Grown

(* The waits of _order_stream: for the event, when the stream changes.     *)
LEMMA OrderWaits ==
  ASSUME event \in Nat, NEW s
  PROVE  /\ Waits(OrderStream(s), event)
         /\ lastStream # NoStream /\ s # lastStream =>
              Len(OrderStream(s)) = 1 /\ OrderStream(s)[1] = WaitTask(event)
<1>1. PICK w : w = WaitTask(event)
  OBVIOUS
<1>2. w \in Task /\ w.op = "wait" /\ w.n = event /\ event <= event
  BY <1>1 DEF Task, WaitTask
<1>3. PICK o : o = OrderStream(s)
  OBVIOUS
<1>4. CASE lastStream # NoStream /\ s # lastStream
  <2>1. o = <<w>>
    BY <1>1, <1>3, <1>4 DEF OrderStream, WaitTask
  <2>2. o \in Seq(Task) /\ Len(o) = 1 /\ o[1] = w
    BY <1>2, <2>1
  <2> QED
    BY <1>1, <1>2, <1>3, <2>2 DEF Waits
<1>5. CASE ~(lastStream # NoStream /\ s # lastStream)
  <2>1. o = <<>>
    BY <1>3, <1>5 DEF OrderStream
  <2>2. <<>> \in Seq(Task) /\ Len(<<>>) = 0
    OBVIOUS
  <2>3. o \in Seq(Task) /\ \A i \in 1 .. Len(o) : FALSE
    BY <2>1, <2>2
  <2>4. Waits(o, event)
    BY <2>3 DEF Waits
  <2> QED
    BY <2>4, <1>3, <1>5
<1> QED
  BY <1>4, <1>5

(* A collective outside graphs puts its tasks behind those of its stream.  *)
LEMMA EagerGrows ==
  ASSUME TurnInv, NEW s \in Streams, NEW k \in Kinds, Eager(s, k),
         NEW o, o = OrderStream(s), NEW T, T = Tasks(launched + 1, k, o, <<RecordTask(launched + 1)>>)
  PROVE  /\ T \in Seq(Task) /\ Waits(o, launched)
         /\ \E c \in Nat : Shape(T, c, o, <<RecordTask(launched + 1)>>, launched + 1, k)
         /\ Grown(queue[s] \o T, queue[s], launched, launched + 1)
         /\ queue' = [queue EXCEPT ![s] = queue[s] \o T]
         /\ queue'[s] = queue[s] \o T /\ \A t \in Streams : t # s => queue'[t] = queue[t]
         /\ launched' = launched + 1 /\ event' = launched + 1 /\ lastStream' = s
         /\ UNCHANGED <<running, ran, capture, graph, use>>
<1>1. /\ launched' = launched + 1 /\ event' = launched + 1 /\ lastStream' = s
      /\ queue' = [queue EXCEPT ![s] = queue[s] \o T]
      /\ UNCHANGED <<running, ran, capture, graph, use>>
  BY DEF Eager, device, MarkStream, RecordTask
<1>2. launched \in Nat /\ event \in Nat /\ event <= launched /\ queue \in [Streams -> Seq(Task)]
  BY DEF TurnInv, Typed
<1>3. Waits(o, launched) /\ o \in Seq(Task) /\ \A i \in 1 .. Len(o) : o[i].op = "wait"
  <2>1. Waits(o, event)
    BY <1>2, OrderWaits
  <2>2. ASSUME NEW i \in 1 .. Len(o) PROVE o[i].op = "wait" /\ o[i].n <= launched
    <3>1. o \in Seq(Task) /\ o[i].op = "wait" /\ o[i].n <= event
      BY <2>1 DEF Waits
    <3>2. o[i].n \in Nat
      BY <3>1, ElementOfSeq, TaskOps
    <3> QED
      BY <1>2, <3>1, <3>2
  <2> QED
    BY <2>1, <2>2 DEF Waits
<1>4. T \in Seq(Task) /\ Grown(queue[s] \o T, queue[s], launched, launched + 1)
  <2>1. Grown(queue[s], queue[s], launched, launched) /\ launched <= launched
    BY <1>2, GrownSelf
  <2>2. PICK m : m = <<RecordTask(launched + 1)>>
    OBVIOUS
  <2>3. T = Tasks(launched + 1, k, o, m)
    BY <2>2
  <2> QED
    BY <1>2, <1>3, <2>1, <2>2, <2>3, GrowOne
<1>5. \E c \in Nat : Shape(T, c, o, <<RecordTask(launched + 1)>>, launched + 1, k)
  <2>1. PICK n \in Nat : n = launched + 1
    BY <1>2
  <2>2. PICK m : m = <<RecordTask(n)>>
    OBVIOUS
  <2>3. T = Tasks(n, k, o, m)
    BY <2>1, <2>2
  <2>4. \E c \in Nat : Shape(T, c, o, m, n, k)
    BY <1>3, <2>2, <2>3, TasksShape
  <2> QED
    BY <2>1, <2>2, <2>4
<1> QED
  BY <1>1, <1>2, <1>3, <1>4, <1>5

(* Without graphs the streams stay ordered: on another stream than that of *)
(* the last launch, the kernel is behind a wait for its record.            *)
LEMMA EagerWaits ==
  ASSUME TurnInv, WaitInv, NEW s \in Streams, NEW k \in Kinds, Eager(s, k)
  PROVE  WaitInv'
<1>1. PICK l \in Nat : l = launched
  BY DEF TurnInv, Typed
<1>2. PICK o : o = OrderStream(s)
  OBVIOUS
<1>3. PICK m : m = <<RecordTask(l + 1)>>
  OBVIOUS
<1>4. PICK T : T = Tasks(l + 1, k, o, m)
  OBVIOUS
<1>5. PICK n \in Nat : n = l + 1
  OBVIOUS
<1>6. /\ \E c \in Nat : Shape(T, c, o, m, n, k)
      /\ queue'[s] = queue[s] \o T /\ \A t \in Streams : t # s => queue'[t] = queue[t]
      /\ launched' = n /\ event' = n /\ lastStream' = s
      /\ UNCHANGED <<running, ran, capture, graph, use>>
  BY <1>1, <1>2, <1>3, <1>4, <1>5, EagerGrows
<1>7. PICK c \in Nat : Shape(T, c, o, m, n, k)
  BY <1>6
<1>8. /\ KernelAt(T, c, n) /\ RecordOnce(T)
      /\ \A j \in 1 .. Len(o) : \E i \in 1 .. c - 1 : T[i] = o[j]
  BY <1>3, <1>7 DEF Shape
<1>9. PICK q : q = queue[s]
  OBVIOUS
<1>10. PICK p : p = q \o T
  OBVIOUS
<1>11. /\ queue \in [Streams -> Seq(Task)] /\ q \in Seq(Task)
       /\ \A t \in Streams : \A i \in 1 .. Len(queue[t]) :
            queue[t][i].n \in Nat /\ queue[t][i].n <= l /\ queue[t][i].n < n
  <2>1. /\ queue \in [Streams -> Seq(Task)] /\ q \in Seq(Task)
        /\ \A t \in Streams : \A i \in 1 .. Len(queue[t]) : queue[t][i].n <= l
    BY <1>1, <1>9 DEF TurnInv, Typed
  <2>2. ASSUME NEW t \in Streams, NEW i \in 1 .. Len(queue[t])
        PROVE  queue[t][i].n \in Nat /\ queue[t][i].n <= l /\ queue[t][i].n < n
    <3>1. queue[t][i].n \in Nat
      BY <2>1, ElementOfSeq, TaskOps
    <3> QED
      BY <2>1, <3>1, <1>5
  <2> QED
    BY <2>1, <2>2
<1>12. InOrder(q) /\ RecordsFollow(q)
  BY <1>9 DEF WaitInv
<1>13. RecordBehind(p, q, T, c, n)
  <2>1. \A i \in 1 .. Len(q) : q[i].n < n
    BY <1>9, <1>11
  <2> QED
    BY <2>1, <1>8, <1>10, <1>11, <1>12, PushRecord
<1>14. /\ InOrder(p) /\ RecordsFollow(p)
       /\ \A a : Has(p, "record", a) <=> Has(q, "record", a) \/ a = n
       /\ \A i \in 1 .. Len(p) : p[i].op = "kernel" =>
            \/ i \in 1 .. Len(q) /\ p[i] = q[i]
            \/ p[i].n = n /\ \A a \in Nat : WaitBefore(T, c, a) => WaitBefore(p, i, a)
       /\ \A i \in 1 .. Len(q), a \in Nat : WaitBefore(q, i, a) => WaitBefore(p, i, a)
  BY <1>13 DEF RecordBehind
<1>15. queue'[s] = p
  BY <1>6, <1>9, <1>10
<1>16. \A t \in Streams, a \in Nat : Has(queue[t], "record", a) => a # n
  BY <1>11 DEF Has
<1>17. \A t \in Streams : \A a :
         Has(queue'[t], "record", a) <=> Has(queue[t], "record", a) \/ (t = s /\ a = n)
  BY <1>6, <1>9, <1>14, <1>15
<1>18. \A a : Pending("record", a)' <=> Pending("record", a) \/ a = n
  BY <1>17 DEF Pending
<1>19. \A t \in Streams : InOrder(queue'[t]) /\ RecordsFollow(queue'[t])
  BY <1>6, <1>14, <1>15 DEF WaitInv
<1>20. OneEach("record")'
  BY <1>16, <1>17 DEF WaitInv, OneEach
<1>21. Behind'
  <2> SUFFICES ASSUME NEW t \in Streams, NEW i \in 1 .. Len(queue'[t]), NEW a \in Nat,
                      queue'[t][i].op = "kernel", queue'[t][i].n = a + 1, Pending("record", a)'
               PROVE  Has(queue'[t], "record", a) \/ WaitBefore(queue'[t], i, a)
    BY DEF Behind
  <2>1. ASSUME NEW j \in 1 .. Len(queue[t]), queue[t][j] = queue'[t][i]
        PROVE  Has(queue[t], "record", a) \/ WaitBefore(queue[t], j, a)
    <3>1. a + 1 <= l
      BY <2>1, <1>11
    <3>2. a # n
      BY <3>1, <1>5
    <3> QED
      BY <2>1, <3>2, <1>18 DEF WaitInv, Behind
  <2>2. CASE t # s
    BY <2>1, <2>2, <1>6
  <2>3. CASE t = s /\ i \in 1 .. Len(q) /\ p[i] = q[i]
    BY <2>1, <2>3, <1>9, <1>14, <1>15, <1>17
  <2>4. CASE t = s /\ p[i].n = n /\ \A b \in Nat : WaitBefore(T, c, b) => WaitBefore(p, i, b)
    <3>1. a = l
      BY <2>4, <1>5, <1>15
    <3>2. Pending("record", l)
      BY <3>1, <1>5, <1>18
    <3>3. PICK u \in Streams : Has(queue[u], "record", l)
      BY <3>2 DEF Pending
    <3>4. u = lastStream /\ lastStream # NoStream /\ event = l
      BY <3>3, <1>1, StreamsAssumption DEF WaitInv, LastLaunch
    <3>5. CASE s = lastStream
      BY <2>4, <3>1, <3>3, <3>4, <3>5, <1>17
    <3>6. CASE s # lastStream
      <4>1. Len(o) = 1 /\ o[1] = WaitTask(l)
        BY <3>4, <3>6, <1>2, OrderWaits
      <4>2. PICK j \in 1 .. c - 1 : T[j] = o[1]
        BY <4>1, <1>8
      <4>3. WaitBefore(T, c, l)
        BY <4>1, <4>2 DEF WaitBefore, WaitTask
      <4> QED
        BY <2>4, <3>1, <4>3, <1>15
    <3> QED
      BY <3>5, <3>6
  <2> QED
    BY <2>2, <2>3, <2>4, <1>14, <1>15
<1>22. LastLaunch'
  <2>1. s # NoStream
    BY StreamsAssumption
  <2> QED
    BY <2>1, <1>5, <1>6, <1>16, <1>17 DEF LastLaunch
<1>23. \A a \in Nat : Pending("record", a)' => a >= Len(ran')
  <2>1. Len(ran) \in Nat /\ Len(ran) <= l
    BY <1>1, LenProperties DEF TurnInv, Typed
  <2>2. n >= Len(ran)
    BY <2>1, <1>5
  <2> QED
    BY <2>2, <1>6, <1>18 DEF WaitInv
<1> QED
  BY <1>6, <1>19, <1>20, <1>21, <1>22, <1>23 DEF WaitInv

(* So a collective outside graphs keeps the order.                         *)
LEMMA EagerTurn ==
  ASSUME OrderInv, NEW s \in use.eager, NEW k \in Kinds, Eager(s, k) PROVE OrderInv'
<1>1. TurnInv /\ use \in Uses /\ launched \in Nat /\ s \in Streams
  BY StreamsAssumption DEF OrderInv, TurnInv, Typed
<1>2. PICK o : o = OrderStream(s)
  OBVIOUS
<1>3. PICK T : T = Tasks(launched + 1, k, o, <<RecordTask(launched + 1)>>)
  OBVIOUS
<1>4. /\ Grown(queue[s] \o T, queue[s], launched, launched + 1)
      /\ queue' = [queue EXCEPT ![s] = queue[s] \o T]
      /\ launched' = launched + 1 /\ event' = launched + 1
      /\ UNCHANGED <<running, ran, use>>
  BY <1>1, <1>2, <1>3, EagerGrows
<1>5. launched + 1 \in Nat /\ launched <= launched + 1 /\ launched + 1 <= launched + 1
  BY <1>1
<1>6. TurnInv'
  BY <1>1, <1>4, <1>5, GrowTurn
<1>7. use.graphs => Alone'
  BY <1>1, <1>4, GrowAlone DEF OrderInv
<1>8. ~use.graphs => WaitInv'
  BY <1>1, EagerWaits DEF OrderInv
<1> QED
  BY <1>1, <1>4, <1>6, <1>7, <1>8 DEF OrderInv

(* Three parts of a queue, put together in either order.                   *)
LEMMA Regroup ==
  ASSUME NEW s \in Seq(Task), NEW t \in Seq(Task), NEW u \in Seq(Task)
  PROVE  (s \o t) \o u = s \o (t \o u)
OBVIOUS

(* A replay puts the launches of its graph behind the tasks of its stream, *)
(* one after the other.                                                    *)
LEMMA ReplayGrows ==
  ASSUME TurnInv, CaptureInv, NEW s \in Streams, Replay(s)
  PROVE  \E p : /\ Grown(p, queue[s], launched, launched + Len(graph.kinds))
                /\ queue' = [queue EXCEPT ![s] = p]
                /\ launched' = launched + Len(graph.kinds) /\ Len(graph.kinds) \in Nat
                /\ UNCHANGED <<running, ran, scratch, result, event, use>>
<1> DEFINE N == Len(graph.kinds)
           Part(i) == Tasks(launched + i, graph.kinds[i], <<>>, <<>>)
           parts == [i \in DOMAIN graph.kinds |-> Part(i)]
<1>1. /\ graph.kinds \in Seq(Kinds) /\ graph.kinds # <<>> /\ launched' = launched + N
      /\ queue' = [queue EXCEPT ![s] = queue[s] \o FlattenSeq(parts)]
      /\ UNCHANGED <<running, ran, scratch, result, event, use>>
  BY DEF Replay, CaptureInv, device
<1>2. N \in Nat \ {0} /\ DOMAIN graph.kinds = 1 .. N /\ \A i \in 1 .. N : graph.kinds[i] \in Kinds
  <2> HIDE DEF Kinds
  <2> QED
    BY <1>1, EmptySeq, LenProperties, ElementOfSeq
<1>3. Len(parts) = N /\ \A i \in 1 .. N : parts[i] = Part(i)
  BY <1>2
<1> HIDE DEF parts
<1>4. PICK g : Unfolds(g, parts, N) /\ FlattenSeq(parts) = g[N]
  BY <1>2, <1>3, FlattenUnfolds
<1>5. g[1] = parts[1] /\ \A i \in 1 .. N - 1 : g[i + 1] = g[i] \o parts[i + 1]
  <2>1. \A i \in 1 .. N : g[i] = IF i = 1 THEN parts[i] ELSE g[i - 1] \o parts[i]
    BY <1>4 DEF Unfolds
  <2>2. 1 \in 1 .. N /\ \A i \in 1 .. N - 1 : i + 1 \in 1 .. N /\ i + 1 # 1 /\ (i + 1) - 1 = i
    BY <1>2
  <2> QED
    BY <2>1, <2>2
<1>6. launched \in Nat /\ queue[s] \in Seq(Task)
  BY DEF TurnInv, Typed
<1> HIDE DEF N
<1> DEFINE G == {i \in 1 .. N : g[i] \in Seq(Task) /\ Grown(queue[s] \o g[i], queue[s], launched, launched + i)}
<1>7. ASSUME NEW i \in 0 .. N - 1, NEW r, Grown(r, queue[s], launched, launched + i)
      PROVE  /\ parts[i + 1] \in Seq(Task)
             /\ Grown(r \o parts[i + 1], queue[s], launched, launched + (i + 1))
  <2>1. PICK e \in Nat : e = launched + i /\ launched <= e /\ launched + (i + 1) = e + 1
    BY <1>6
  <2>2. PICK k \in Kinds : k = graph.kinds[i + 1]
    BY <1>2
  <2>3. i + 1 \in 1 .. N
    BY <1>2
  <2>4. parts[i + 1] = Tasks(e + 1, k, <<>>, <<>>)
    BY <1>3, <2>1, <2>2, <2>3
  <2>5. PICK o : o = <<>>
    OBVIOUS
  <2>6. Waits(o, e)
    <3>1. <<>> \in Seq(Task) /\ Len(<<>>) = 0
      OBVIOUS
    <3>2. o \in Seq(Task) /\ \A j \in 1 .. Len(o) : FALSE
      BY <3>1, <2>5
    <3> QED
      BY <3>2 DEF Waits
  <2>7. PICK m : m = <<>>
    OBVIOUS
  <2>8. parts[i + 1] = Tasks(e + 1, k, o, m)
    BY <2>4, <2>5, <2>7
  <2>9. PICK T : T = parts[i + 1]
    OBVIOUS
  <2>10. T = Tasks(e + 1, k, o, m) /\ Grown(r, queue[s], launched, e)
    BY <1>7, <2>1, <2>8, <2>9
  <2>11. T \in Seq(Task) /\ Grown(r \o T, queue[s], launched, e + 1)
    BY <1>6, <2>1, <2>6, <2>7, <2>10, GrowOne
  <2> QED
    BY <2>1, <2>9, <2>11
<1>8. 1 \in G
  <2>1. Grown(queue[s], queue[s], launched, launched + 0)
    <3>1. launched + 0 = launched
      BY <1>6
    <3> QED
      BY <3>1, GrownSelf
  <2>2. 0 \in 0 .. N - 1 /\ 0 + 1 = 1 /\ 1 \in 1 .. N
    BY <1>2
  <2>3. parts[0 + 1] \in Seq(Task) /\ Grown(queue[s] \o parts[0 + 1], queue[s], launched, launched + (0 + 1))
    BY <1>7, <2>1, <2>2
  <2> QED
    BY <2>2, <2>3, <1>5
<1>9. ASSUME NEW i \in 1 .. N - 1, i \in G PROVE i + 1 \in G
  <2>1. g[i] \in Seq(Task) /\ Grown(queue[s] \o g[i], queue[s], launched, launched + i)
    BY <1>9
  <2>2. i \in 0 .. N - 1 /\ i + 1 \in 1 .. N
    BY <1>2
  <2>3. /\ parts[i + 1] \in Seq(Task)
        /\ Grown((queue[s] \o g[i]) \o parts[i + 1], queue[s], launched, launched + (i + 1))
    BY <1>7, <2>1, <2>2
  <2>4. (queue[s] \o g[i]) \o parts[i + 1] = queue[s] \o (g[i] \o parts[i + 1])
    <3>1. queue[s] \in Seq(Task) /\ g[i] \in Seq(Task) /\ parts[i + 1] \in Seq(Task)
      BY <1>6, <2>1, <2>3
    <3> QED
      BY <3>1, Regroup
  <2>5. g[i] \o parts[i + 1] \in Seq(Task)
    BY <2>1, <2>3, ConcatProperties
  <2> QED
    BY <1>5, <2>2, <2>3, <2>4, <2>5
<1> HIDE DEF G
<1>10. N \in G
  BY <1>2, <1>8, <1>9, UpTo
<1>11. Grown(queue[s] \o FlattenSeq(parts), queue[s], launched, launched + N)
  BY <1>4, <1>10 DEF G
<1>12. N \in Nat
  BY <1>2
<1> QED
  BY <1>1, <1>11, <1>12 DEF N

(* So a replay keeps the order.                                            *)
LEMMA ReplayTurn ==
  ASSUME OrderInv, CaptureInv, NEW s \in use.replay, Replay(s) PROVE OrderInv'
<1>1. TurnInv /\ use \in Uses /\ launched \in Nat /\ event \in Nat /\ event <= launched /\ s \in Streams
  BY StreamsAssumption DEF OrderInv, TurnInv, Typed
<1>2. PICK p : /\ Grown(p, queue[s], launched, launched + Len(graph.kinds))
               /\ queue' = [queue EXCEPT ![s] = p]
               /\ launched' = launched + Len(graph.kinds) /\ Len(graph.kinds) \in Nat
               /\ UNCHANGED <<running, ran, scratch, result, event, use>>
  BY <1>1, ReplayGrows
<1>3. PICK e \in Nat : e = launched + Len(graph.kinds) /\ launched <= e /\ event <= e
  BY <1>1, <1>2
<1>4. TurnInv'
  <2>1. Grown(p, queue[s], launched, e) /\ launched' = e /\ event' \in Nat /\ event' <= e
    BY <1>1, <1>2, <1>3
  <2> QED
    BY <1>1, <1>2, <1>3, <2>1, GrowTurn
<1>5. use.graphs => Alone'
  BY <1>1, <1>2, GrowAlone DEF OrderInv
<1>6. use.graphs
  BY DEF Replay, OrderInv, WaitInv
<1> QED
  BY <1>1, <1>2, <1>4, <1>5, <1>6 DEF OrderInv

(* Every step keeps OrderInv.                                              *)
LEMMA NextOrder ==
  ASSUME OneGraphStream, OrderInv, CaptureInv, [StreamsNext]_streamsVars PROVE OrderInv'
<1>1. TurnInv /\ use \in Uses
  BY DEF OrderInv
<1>2. ASSUME NEW s \in use.eager, NEW k \in Kinds, Eager(s, k) PROVE OrderInv'
  BY <1>2, EagerTurn
<1>3. ASSUME NEW s \in use.replay, Replay(s) PROVE OrderInv'
  BY <1>3, ReplayTurn
<1>4. ASSUME NEW s \in Streams, Run(s) PROVE OrderInv'
  BY <1>4, OtherTurn, BeginTurn, EndTurn DEF Run
<1>5. ASSUME use.graphs, UNCHANGED <<queue, device, launched, event, use>> PROVE OrderInv'
  <2>1. TurnInv'
    BY <1>1, <1>5 DEF device, TurnInv, Typed, OneEach, NotEnded, Pending, InTurn
  <2>2. Alone'
    BY <1>5 DEF OrderInv, Alone
  <2> QED
    BY <1>1, <1>5, <2>1, <2>2 DEF OrderInv
<1>6. CASE CaptureContext \/ BeginCapture
  BY <1>5, <1>6 DEF CaptureContext, BeginCapture
<1>7. CASE EndCapture \/ \E s \in Streams, k \in Kinds : Captured(s, k)
  <2>1. capture # 0 /\ UNCHANGED <<queue, device, launched, event, use>>
    BY <1>7 DEF EndCapture, Captured
  <2>2. use.graphs
    BY <2>1 DEF OrderInv, WaitInv
  <2> QED
    BY <1>5, <2>1, <2>2
<1>8. CASE UNCHANGED streamsVars
  <2>1. UNCHANGED <<queue, running, ran, launched, event, lastStream, capture, graph, use>>
    BY <1>8 DEF streamsVars
  <2>2. TurnInv'
    BY <1>1, <2>1 DEF TurnInv, Typed, OneEach, NotEnded, Pending, InTurn
  <2>3. Alone => Alone'
    BY <2>1 DEF Alone
  <2>4. WaitInv => WaitInv'
    BY <2>1 DEF WaitInv, OneEach, Behind, LastLaunch, Pending
  <2> QED
    BY <1>1, <2>1, <2>2, <2>3, <2>4 DEF OrderInv
<1> QED
  BY <1>2, <1>3, <1>4, <1>6, <1>7, <1>8 DEF StreamsNext

-----------------------------------------------------------------------------
(* What a call returns is its own.                                         *)

(* The copy of an all_reduce out of its buffer is covered by its record.   *)
CopyMarked(q) ==
  \A i \in 1 .. Len(q) : q[i].op = "copyout" /\ q[i].buf = "align1" =>
    \E j \in 1 .. Len(q) : i < j /\ q[j].op = "record" /\ q[j].n = q[i].n

(* Without graphs the buffers other than that one belong to the streams    *)
(* with unaligned inputs and padded gathers.                               *)
Placement ==
  \A s \in Streams : \A i \in 1 .. Len(queue[s]), b \in Scratch \ {"align1"} :
    Writes(queue[s][i], b) \/ Reads(queue[s][i], b) => s \in use.scratch

BufferInv ==
  /\ DOMAIN scratch = Scratch /\ DOMAIN result = Launches
  /\ \A n \in DOMAIN running : running[n] \subseteq {n}
  /\ OwnResult
  /\ \A s \in Streams : OwnQueue(queue[s], scratch)
  /\ ~use.graphs => Placement /\ \A s \in Streams : CopyMarked(queue[s])

(* Those buffers are used on one stream.                                   *)
OneScratchStream == \A u \in Uses : u.graphs \/ \E s : u.scratch \subseteq {s}

(* No task about to write into a buffer meets on another stream a reader   *)
(* whose data is already there.                                            *)
LEMMA NoForeignWrite ==
  ASSUME OneGraphStream, OneScratchStream, OrderInv, BufferInv,
         NEW s \in Streams, queue[s] # <<>>, Head(queue[s]).op = "kernel" => Head(queue[s]).n = Len(ran),
         NEW b \in Scratch, Writes(Head(queue[s]), b),
         NEW t \in Streams, t # s, NEW i \in 1 .. Len(queue[t]),
         Reads(queue[t][i], b), OwnNow(queue[t], i, b)
  PROVE  FALSE
<1>1. /\ queue[s] \in Seq(Task) /\ queue[t] \in Seq(Task) /\ use \in Uses
      /\ \A j \in 1 .. Len(queue[t]) : queue[t][j].n <= launched
      /\ launched \in Nat /\ Len(ran) \in Nat
  BY LenProperties DEF OrderInv, TurnInv, Typed
<1>2. /\ Head(queue[s]) = queue[s][1] /\ 1 \in 1 .. Len(queue[s]) /\ Head(queue[s]) \in Task
  BY <1>1, TailShifts
<1>3. queue[t] # <<>> /\ queue[t][i] \in Task
  BY <1>1, ElementOfSeq
<1>4. ~use.graphs
  BY <1>1, <1>3, AloneIs DEF OrderInv
<1>5. WaitInv /\ Placement /\ CopyMarked(queue[t])
  BY <1>4 DEF OrderInv, BufferInv
<1>6. b = "align1"
  <2> SUFFICES ASSUME b # "align1" PROVE FALSE
    OBVIOUS
  <2>1. s \in use.scratch /\ t \in use.scratch
    BY <1>2, <1>5 DEF Placement
  <2>2. PICK u : use.scratch \subseteq {u}
    BY <1>1, <1>4 DEF OneScratchStream
  <2> QED
    BY <2>1, <2>2
<1>7. PICK n \in Nat : n = Len(ran) /\ Head(queue[s]).op = "kernel" /\ Head(queue[s]).n = n
  BY <1>1, <1>2, <1>6, BufferOps DEF Outs
<1>8. Has(queue[s], "kernel", n)
  BY <1>2, <1>7 DEF Has
<1>9. Has(queue[s], "record", n)
  BY <1>5, <1>8 DEF WaitInv, RecordsFollow
<1>10. PICK m \in Nat : m = queue[t][i].n
  BY <1>3, TaskOps
<1>11. queue[t][i].op = "copyout" /\ queue[t][i].buf = "align1"
  BY <1>3, <1>6 DEF Reads, Task, Ins
<1>12. Has(queue[t], "record", m)
  BY <1>5, <1>10, <1>11 DEF CopyMarked, Has
<1>13. m >= n /\ m # n
  <2>1. Pending("record", m)
    BY <1>12 DEF Pending
  <2>2. m >= n
    BY <2>1, <1>5, <1>7 DEF WaitInv
  <2>3. m # n
    BY <1>5, <1>9, <1>12 DEF WaitInv, OneEach
  <2> QED
    BY <2>2, <2>3
<1>14. m \in n + 1 .. launched
  <2>1. m <= launched
    BY <1>1, <1>10
  <2> QED
    BY <2>1, <1>1, <1>13
<1>15. PICK u \in Streams : Has(queue[u], "kernel", m)
  BY <1>7, <1>14 DEF OrderInv, TurnInv, NotEnded, Pending
<1>16. u = t
  <2>1. Has(queue[u], "record", m)
    BY <1>5, <1>15 DEF WaitInv, RecordsFollow
  <2> QED
    BY <2>1, <1>5, <1>12 DEF WaitInv, OneEach
<1> QED
  BY <1>6, <1>10, <1>15, <1>16 DEF OwnNow, Outs

(* A task is executed and leaves its own data where it writes.             *)
LEMMA PopBuffers ==
  ASSUME OneGraphStream, OneScratchStream, OrderInv, BufferInv, NEW s \in Streams, queue[s] # <<>>,
         Head(queue[s]).op = "kernel" => Head(queue[s]).n = Len(ran), Pop(s), UNCHANGED use,
         \A b \in Scratch : IF Writes(Head(queue[s]), b) THEN scratch'[b] \subseteq {Head(queue[s]).n}
                                                         ELSE scratch'[b] = scratch[b]
  PROVE  /\ \A t \in Streams : OwnQueue(queue'[t], scratch')
         /\ ~use.graphs => Placement' /\ \A t \in Streams : CopyMarked(queue'[t])
<1>1. TurnInv /\ queue[s] \in Seq(Task) /\ Ascending(queue[s]) /\ OwnQueue(queue[s], scratch)
  BY DEF OrderInv, TurnInv, Typed, BufferInv
<1>2. /\ queue'[s] = Tail(queue[s]) /\ \A t \in Streams : t # s => queue'[t] = queue[t]
      /\ \A t \in Streams : \A i \in 1 .. Len(queue'[t]) : \E j \in 1 .. Len(queue[t]) :
           /\ queue'[t][i] = queue[t][j]
           /\ \A n \in Nat :
                WaitBefore(queue[t], j, n) /\ ~(t = s /\ Head(queue[s]).op = "wait" /\ Head(queue[s]).n = n)
                  => WaitBefore(queue'[t], i, n)
  BY <1>1, PopQueues
<1>3. OwnQueue(Tail(queue[s]), scratch')
  BY <1>1, OwnTail
<1>4. ASSUME NEW t \in Streams, t # s PROVE OwnQueue(queue[t], scratch')
  <2> SUFFICES ASSUME NEW i \in 1 .. Len(queue[t]), NEW b \in Scratch, Reads(queue[t][i], b)
               PROVE  OwnBefore(queue[t], i, b) \/ (OwnNow(queue[t], i, b) /\ scratch'[b] \subseteq {queue[t][i].n})
    BY DEF OwnQueue
  <2>1. OwnBefore(queue[t], i, b) \/ (OwnNow(queue[t], i, b) /\ scratch[b] \subseteq {queue[t][i].n})
    BY DEF BufferInv, OwnQueue
  <2>2. OwnNow(queue[t], i, b) => ~Writes(Head(queue[s]), b)
    BY <1>4, NoForeignWrite
  <2> QED
    BY <2>1, <2>2
<1>5. ASSUME ~use.graphs PROVE Placement'
  BY <1>2, <1>5 DEF BufferInv, Placement
<1>6. ASSUME ~use.graphs PROVE CopyMarked(Tail(queue[s]))
  <2>1. PICK q : q = queue[s]
    OBVIOUS
  <2>2. PICK p : p = Tail(q)
    OBVIOUS
  <2>3. /\ CopyMarked(q) /\ Len(q) \in Nat /\ Len(q) >= 1 /\ Len(p) = Len(q) - 1
        /\ \A i \in 1 .. Len(q) - 1 : i + 1 \in 1 .. Len(q) /\ p[i] = q[i + 1]
        /\ \A i \in 2 .. Len(q) : i - 1 \in 1 .. Len(q) - 1 /\ p[i - 1] = q[i]
    BY <1>1, <1>6, <2>1, <2>2, TailShifts DEF BufferInv
  <2> SUFFICES ASSUME NEW i \in 1 .. Len(p), p[i].op = "copyout", p[i].buf = "align1"
               PROVE  \E j \in 1 .. Len(p) : i < j /\ p[j].op = "record" /\ p[j].n = p[i].n
    BY <2>1, <2>2 DEF CopyMarked
  <2>4. i + 1 \in 1 .. Len(q) /\ p[i] = q[i + 1]
    BY <2>3
  <2>5. PICK j \in 1 .. Len(q) : i + 1 < j /\ q[j].op = "record" /\ q[j].n = p[i].n
    BY <2>3, <2>4 DEF CopyMarked
  <2>6. j \in 2 .. Len(q) /\ i < j - 1
    BY <2>4, <2>5
  <2>7. j - 1 \in 1 .. Len(p) /\ p[j - 1] = q[j]
    BY <2>3, <2>6
  <2> QED
    BY <2>5, <2>6, <2>7
<1>7. ASSUME ~use.graphs PROVE \A t \in Streams : CopyMarked(queue'[t])
  BY <1>2, <1>6, <1>7 DEF BufferInv
<1>8. \A t \in Streams : OwnQueue(queue'[t], scratch')
  BY <1>2, <1>3, <1>4
<1> QED
  BY <1>5, <1>7, <1>8

(* A copy, a wait or a record is executed.                                 *)
LEMMA OtherBuffers ==
  ASSUME OneGraphStream, OneScratchStream, OrderInv, BufferInv, NEW s \in Streams,
         RunCopyIn(s) \/ RunCopyOut(s) \/ RunWait(s) \/ RunRecord(s)
  PROVE  BufferInv'
<1>1. PICK h : h = Head(queue[s])
  OBVIOUS
<1>2. /\ queue[s] # <<>> /\ Pop(s) /\ h.op # "kernel" /\ UNCHANGED <<running, ran, host>>
  BY <1>1 DEF RunCopyIn, RunCopyOut, RunWait, RunRecord, NextIs, device
<1>3. h \in Task /\ queue[s] \in Seq(Task)
  <2>1. queue[s] \in Seq(Task)
    BY DEF OrderInv, TurnInv, Typed
  <2> QED
    BY <2>1, <1>1, <1>2, TailShifts
<1>4. UNCHANGED use
  BY <1>2 DEF host
<1>5. DOMAIN scratch = Scratch /\ DOMAIN result = Launches /\ OwnResult
  BY DEF BufferInv
<1>6. /\ DOMAIN scratch' = Scratch /\ DOMAIN result' = Launches /\ OwnResult'
      /\ \A b \in Scratch : IF Writes(h, b) THEN scratch'[b] \subseteq {h.n} ELSE scratch'[b] = scratch[b]
  <2>1. CASE RunCopyIn(s)
    <3>1. h.op = "copyin" /\ h.buf \in Ins
      BY <2>1, <1>1, <1>3 DEF RunCopyIn, NextIs, Task
    <3>2. UNCHANGED result /\ scratch' = [scratch EXCEPT ![h.buf] = {h.n}]
      BY <2>1, <3>1, <1>1 DEF RunCopyIn, Store, Ins
    <3> QED
      BY <3>1, <3>2, <1>5 DEF Writes, OwnResult
  <2>2. CASE RunCopyOut(s)
    <3>1. h.op = "copyout" /\ h.buf \in Outs
      BY <2>2, <1>1, <1>3 DEF RunCopyOut, NextIs, Task
    <3>2. UNCHANGED scratch /\ result' = [result EXCEPT ![h.n] = scratch[h.buf]]
      BY <2>2, <3>1, <1>1 DEF RunCopyOut, Store, Read, Outs
    <3>3. scratch[h.buf] \subseteq {h.n}
      <4>1. Reads(h, h.buf) /\ h.buf \in Scratch /\ OwnQueue(queue[s], scratch)
        BY <3>1 DEF Reads, Outs, Scratch, BufferInv
      <4> QED
        BY <4>1, <1>1, <1>2, <1>3, OwnHead
    <3> QED
      BY <3>1, <3>2, <3>3, <1>5 DEF Writes, OwnResult
  <2>3. CASE RunWait(s) \/ RunRecord(s)
    <3>1. UNCHANGED <<scratch, result>> /\ h.op \in {"wait", "record"}
      BY <2>3, <1>1 DEF RunWait, RunRecord, NextIs, device
    <3> QED
      BY <3>1, <1>5 DEF Writes, OwnResult
  <2> QED
    BY <2>1, <2>2, <2>3
<1>7. /\ \A t \in Streams : OwnQueue(queue'[t], scratch')
      /\ ~use.graphs => Placement' /\ \A t \in Streams : CopyMarked(queue'[t])
  BY <1>1, <1>2, <1>4, <1>6, PopBuffers
<1>8. \A n \in DOMAIN running' : running'[n] \subseteq {n}
  BY <1>2 DEF BufferInv
<1> QED
  BY <1>4, <1>6, <1>7, <1>8 DEF BufferInv

(* What a kernel reads is of its own launch.                               *)
LEMMA KernelReadsOwn ==
  ASSUME OrderInv, BufferInv, NEW s \in Streams, NextIs(s, "kernel"), NEW h, h = Head(queue[s])
  PROVE  /\ h \in Task /\ h.op = "kernel" /\ h.dst \in {"out"} \cup Outs
         /\ Read(h.n, h.src) \subseteq {h.n}
<1>1. queue[s] # <<>> /\ queue[s] \in Seq(Task) /\ h.op = "kernel"
  BY DEF NextIs, OrderInv, TurnInv, Typed
<1>2. h \in Task
  BY <1>1, TailShifts
<1>3. h.src \in {"inp"} \cup Ins /\ h.dst \in {"out"} \cup Outs
  BY <1>1, <1>2 DEF Task
<1>4. CASE h.src = "inp"
  BY <1>1, <1>2, <1>3, <1>4 DEF Read
<1>5. CASE h.src # "inp"
  <2>1. Reads(h, h.src) /\ h.src \in Scratch /\ OwnQueue(queue[s], scratch)
    BY <1>1, <1>3, <1>5 DEF Reads, Ins, Scratch, BufferInv
  <2>2. scratch[h.src] \subseteq {h.n}
    BY <2>1, <1>1, OwnHead
  <2> QED
    BY <2>2, <1>1, <1>2, <1>3, <1>5 DEF Read
<1> QED
  BY <1>4, <1>5

(* A kernel begins, and keeps what it has read.                            *)
LEMMA BeginBuffers ==
  ASSUME OrderInv, BufferInv, NEW s \in Streams, KernelBegin(s) PROVE BufferInv'
<1>1. PICK h : h = Head(queue[s])
  OBVIOUS
<1>2. /\ NextIs(s, "kernel") /\ UNCHANGED <<queue, scratch, result, use>>
      /\ running' = [m \in DOMAIN running \cup {h.n} |-> IF m = h.n THEN Read(h.n, h.src) ELSE running[m]]
  BY <1>1 DEF KernelBegin, host
<1>3. Read(h.n, h.src) \subseteq {h.n}
  BY <1>1, <1>2, KernelReadsOwn
<1>4. \A n \in DOMAIN running' : running'[n] \subseteq {n}
  BY <1>2, <1>3 DEF BufferInv
<1> QED
  BY <1>2, <1>4 DEF BufferInv, OwnResult, Placement

(* A kernel ends, and leaves what it has read and reads again.             *)
LEMMA EndBuffers ==
  ASSUME OneGraphStream, OneScratchStream, OrderInv, BufferInv, NEW s \in Streams, KernelEnd(s)
  PROVE  BufferInv'
<1>1. PICK h : h = Head(queue[s])
  OBVIOUS
<1>2. PICK data : data = running[h.n] \cup Read(h.n, h.src)
  OBVIOUS
<1>3. /\ NextIs(s, "kernel") /\ queue[s] # <<>> /\ h.n \in DOMAIN running /\ Pop(s)
      /\ Store(h.n, h.dst, data) /\ UNCHANGED use
      /\ running' = [m \in DOMAIN running \ {h.n} |-> running[m]]
  BY <1>1, <1>2 DEF KernelEnd, NextIs, host
<1>4. h \in Task /\ h.op = "kernel" /\ h.dst \in {"out"} \cup Outs /\ Read(h.n, h.src) \subseteq {h.n}
  BY <1>1, <1>3, KernelReadsOwn
<1>5. data \subseteq {h.n}
  BY <1>2, <1>3, <1>4 DEF BufferInv
<1>6. DOMAIN scratch = Scratch /\ DOMAIN result = Launches /\ OwnResult
  BY DEF BufferInv
<1>7. /\ DOMAIN scratch' = Scratch /\ DOMAIN result' = Launches /\ OwnResult'
      /\ \A b \in Scratch : IF Writes(h, b) THEN scratch'[b] \subseteq {h.n} ELSE scratch'[b] = scratch[b]
  <2>1. CASE h.dst = "out"
    <3>1. UNCHANGED scratch /\ result' = [result EXCEPT ![h.n] = data]
      BY <2>1, <1>3 DEF Store
    <3>2. \A b \in Scratch : ~Writes(h, b)
      BY <2>1, <1>4 DEF Writes, Scratch
    <3> QED
      BY <3>1, <3>2, <1>5, <1>6 DEF OwnResult
  <2>2. CASE h.dst # "out"
    <3>1. UNCHANGED result /\ scratch' = [scratch EXCEPT ![h.dst] = data]
      BY <2>2, <1>3 DEF Store
    <3>2. \A b \in Scratch : Writes(h, b) <=> b = h.dst
      BY <1>4 DEF Writes
    <3> QED
      BY <3>1, <3>2, <1>5, <1>6 DEF OwnResult
  <2> QED
    BY <2>1, <2>2
<1>8. h.n = Len(ran)
  BY <1>1, EndTurn
<1>9. /\ \A t \in Streams : OwnQueue(queue'[t], scratch')
      /\ ~use.graphs => Placement' /\ \A t \in Streams : CopyMarked(queue'[t])
  BY <1>1, <1>3, <1>7, <1>8, PopBuffers
<1>10. \A n \in DOMAIN running' : running'[n] \subseteq {n}
  BY <1>3 DEF BufferInv
<1> QED
  BY <1>3, <1>7, <1>9, <1>10 DEF BufferInv

(* A collective outside graphs.                                            *)
LEMMA EagerBuffers ==
  ASSUME OrderInv, BufferInv, NEW s \in use.eager, NEW k \in Kinds, Eager(s, k)
  PROVE  BufferInv'
<1>1. /\ TurnInv /\ use \in Uses /\ launched \in Nat /\ s \in Streams /\ queue[s] \in Seq(Task)
      /\ queue \in [Streams -> Seq(Task)]
  BY StreamsAssumption DEF OrderInv, TurnInv, Typed
<1>2. PICK o : o = OrderStream(s)
  OBVIOUS
<1>3. PICK n \in Nat : n = launched + 1
  BY <1>1
<1>4. PICK m : m = <<RecordTask(n)>>
  OBVIOUS
<1>5. PICK T : T = Tasks(n, k, o, m)
  OBVIOUS
<1>6. PICK p : p = queue[s] \o T
  OBVIOUS
<1>7. /\ T \in Seq(Task)
      /\ \E c \in Nat : Shape(T, c, o, m, n, k)
      /\ Grown(p, queue[s], launched, n)
      /\ queue'[s] = p /\ \A t \in Streams : t # s => queue'[t] = queue[t]
      /\ UNCHANGED <<running, ran, use>>
  BY <1>1, <1>2, <1>3, <1>4, <1>5, <1>6, EagerGrows
<1>8. UNCHANGED <<scratch, result>> /\ (k.src # "inp" => s \in use.scratch)
  BY DEF Eager, device
<1>9. \A t \in Streams : OwnQueue(queue'[t], scratch')
  BY <1>7, <1>8 DEF BufferInv, Grown
<1>10. PICK c \in Nat : Shape(T, c, o, m, n, k)
  BY <1>7
<1>11. /\ \A i \in 1 .. Len(T), b \in Scratch : Writes(T[i], b) \/ Reads(T[i], b) => b \in {k.src, k.dst}
       /\ KernelAt(T, c, n) /\ RecordOnce(T)
       /\ k \in Reduces =>
            \A i, j \in 1 .. Len(T) : T[i].op = "copyout" /\ T[j].op = "record" => i < j
  BY <1>4, <1>10 DEF Shape
<1>12. /\ p \in Seq(Task) /\ Len(queue[s]) \in Nat /\ Len(T) \in Nat
       /\ \A i \in 1 .. Len(queue[s]) : i \in 1 .. Len(p) /\ p[i] = queue[s][i]
       /\ \A i \in 1 .. Len(T) : Len(queue[s]) + i \in 1 .. Len(p) /\ p[Len(queue[s]) + i] = T[i]
       /\ \A i \in 1 .. Len(p) :
            i \in 1 .. Len(queue[s]) \/ (i > Len(queue[s]) /\ \E j \in 1 .. Len(T) : i = Len(queue[s]) + j)
  <2>1. /\ queue[s] \o T \in Seq(Task) /\ Len(queue[s]) \in Nat /\ Len(T) \in Nat
        /\ Len(queue[s] \o T) = Len(queue[s]) + Len(T)
        /\ \A i \in 1 .. Len(queue[s]) : i \in 1 .. Len(queue[s] \o T) /\ (queue[s] \o T)[i] = queue[s][i]
        /\ \A i \in 1 .. Len(T) :
             Len(queue[s]) + i \in 1 .. Len(queue[s] \o T) /\ (queue[s] \o T)[Len(queue[s]) + i] = T[i]
        /\ \A i \in 1 .. Len(queue[s] \o T) :
             \/ i \in 1 .. Len(queue[s])
             \/ i > Len(queue[s]) /\ \E j \in 1 .. Len(T) : i = Len(queue[s]) + j
    BY <1>1, <1>7, Joined, Zenon
  <2> QED
    BY <2>1, <1>6
<1>13. k.src \in {"inp"} \cup Ins /\ k.dst \in {"out"} \cup Outs
       /\ (k.src = "inp" => k.dst # "gathered")
       /\ (k.dst = "align1" => k \in Reduces)
  BY KindIs
<1>14. ASSUME ~use.graphs PROVE Placement'
  <2>1. Placement
    BY <1>14 DEF BufferInv
  <2> SUFFICES ASSUME NEW t \in Streams, NEW i \in 1 .. Len(queue'[t]), NEW b \in Scratch \ {"align1"},
                      Writes(queue'[t][i], b) \/ Reads(queue'[t][i], b)
               PROVE  t \in use.scratch
    BY <1>7 DEF Placement
  <2>2. CASE t # s
    BY <2>1, <2>2, <1>7 DEF Placement
  <2>3. CASE t = s /\ i \in 1 .. Len(queue[s])
    BY <2>1, <2>3, <1>7, <1>12 DEF Placement
  <2>4. ASSUME NEW j \in 1 .. Len(T), i = Len(queue[s]) + j, t = s PROVE s \in use.scratch
    <3>1. p[i] = T[j] /\ b \in {k.src, k.dst}
      BY <2>4, <1>7, <1>11, <1>12
    <3>2. k.src # "inp"
      BY <3>1, <1>13 DEF Outs, Scratch
    <3> QED
      BY <3>2, <1>8
  <2> QED
    BY <2>2, <2>3, <2>4, <1>7, <1>12
<1>15. ASSUME ~use.graphs PROVE CopyMarked(p)
  <2>1. CopyMarked(queue[s])
    BY <1>1, <1>15 DEF BufferInv
  <2> SUFFICES ASSUME NEW i \in 1 .. Len(p), p[i].op = "copyout", p[i].buf = "align1"
               PROVE  \E j \in 1 .. Len(p) : i < j /\ p[j].op = "record" /\ p[j].n = p[i].n
    BY DEF CopyMarked
  <2>2. CASE i \in 1 .. Len(queue[s])
    <3>1. PICK j \in 1 .. Len(queue[s]) : i < j /\ queue[s][j].op = "record" /\ queue[s][j].n = queue[s][i].n
      BY <2>1, <2>2, <1>12 DEF CopyMarked
    <3> QED
      BY <2>2, <3>1, <1>12
  <2>3. ASSUME NEW d \in 1 .. Len(T), i = Len(queue[s]) + d
        PROVE  \E j \in 1 .. Len(p) : i < j /\ p[j].op = "record" /\ p[j].n = p[i].n
    <3>1. T[d].op = "copyout" /\ T[d].buf = "align1"
      BY <2>3, <1>12
    <3>2. k \in Reduces
      <4>1. "align1" \in {k.src, k.dst}
        BY <3>1, <1>11 DEF Reads, Scratch
      <4> QED
        BY <4>1, <1>13 DEF Ins
    <3>3. PICK j \in 1 .. Len(T) : T[j].op = "record"
      BY <1>11 DEF RecordOnce
    <3>4. d < j /\ T[j].n = n
      BY <3>1, <3>2, <3>3, <1>11, KernelOnce
    <3>5. T[d].n = n
      <4>1. ~(d < c) /\ d # c
        BY <3>1, <1>11 DEF KernelAt
      <4> QED
        BY <4>1, <1>11, <1>12 DEF KernelAt
    <3>6. Len(queue[s]) + j \in 1 .. Len(p) /\ p[Len(queue[s]) + j] = T[j] /\ i < Len(queue[s]) + j
      BY <2>3, <3>3, <3>4, <1>12
    <3> QED
      BY <2>3, <3>3, <3>4, <3>5, <3>6, <1>12
  <2> QED
    BY <2>2, <2>3, <1>12
<1>16. ASSUME ~use.graphs PROVE \A t \in Streams : CopyMarked(queue'[t])
  BY <1>7, <1>15, <1>16 DEF BufferInv
<1> QED
  BY <1>7, <1>8, <1>9, <1>14, <1>16 DEF BufferInv, OwnResult

(* A graph is replayed.                                                    *)
LEMMA ReplayBuffers ==
  ASSUME OrderInv, BufferInv, CaptureInv, NEW s \in use.replay, Replay(s) PROVE BufferInv'
<1>1. TurnInv /\ use \in Uses /\ s \in Streams /\ queue \in [Streams -> Seq(Task)]
  BY StreamsAssumption DEF OrderInv, TurnInv, Typed
<1>2. PICK p : /\ Grown(p, queue[s], launched, launched + Len(graph.kinds))
               /\ queue' = [queue EXCEPT ![s] = p]
               /\ launched' = launched + Len(graph.kinds) /\ Len(graph.kinds) \in Nat
               /\ UNCHANGED <<running, ran, scratch, result, event, use>>
  BY <1>1, ReplayGrows
<1>3. use.graphs
  BY DEF Replay, OrderInv, WaitInv
<1>4. \A t \in Streams : OwnQueue(queue'[t], scratch')
  BY <1>1, <1>2 DEF BufferInv, Grown
<1> QED
  BY <1>2, <1>3, <1>4 DEF BufferInv, OwnResult

(* Every step keeps BufferInv.                                             *)
LEMMA NextBuffers ==
  ASSUME OneGraphStream, OneScratchStream, OrderInv, CaptureInv, BufferInv, [StreamsNext]_streamsVars
  PROVE  BufferInv'
<1>1. ASSUME NEW s \in use.eager, NEW k \in Kinds, Eager(s, k) PROVE BufferInv'
  BY <1>1, EagerBuffers
<1>2. ASSUME NEW s \in use.replay, Replay(s) PROVE BufferInv'
  BY <1>2, ReplayBuffers
<1>3. ASSUME NEW s \in Streams, Run(s) PROVE BufferInv'
  BY <1>3, OtherBuffers, BeginBuffers, EndBuffers DEF Run
<1>4. ASSUME UNCHANGED <<queue, device, use>> PROVE BufferInv'
  BY <1>4 DEF device, BufferInv, OwnResult, Placement
<1>5. CASE CaptureContext \/ BeginCapture \/ EndCapture
  BY <1>4, <1>5 DEF CaptureContext, BeginCapture, EndCapture
<1>6. CASE \E s \in Streams, k \in Kinds : Captured(s, k)
  BY <1>4, <1>6 DEF Captured
<1>7. CASE UNCHANGED streamsVars
  BY <1>4, <1>7 DEF streamsVars, device
<1> QED
  BY <1>1, <1>2, <1>3, <1>5, <1>6, <1>7 DEF StreamsNext

(* The first state.                                                        *)
LEMMA InitBuffers == StreamsInit => BufferInv
<1> SUFFICES ASSUME StreamsInit PROVE BufferInv
  OBVIOUS
<1>1. /\ \A t \in Streams : queue[t] = <<>> /\ Len(queue[t]) = 0
      /\ DOMAIN running = {} /\ DOMAIN scratch = Scratch
      /\ DOMAIN result = Launches /\ \A n \in Launches : result[n] = {}
  BY DEF StreamsInit, Launches
<1>2. \A t \in Streams : OwnQueue(queue[t], scratch) /\ CopyMarked(queue[t])
  BY <1>1 DEF OwnQueue, CopyMarked
<1>3. Placement
  BY <1>1 DEF Placement
<1> QED
  BY <1>1, <1>2, <1>3 DEF BufferInv, OwnResult

-----------------------------------------------------------------------------
(* The kernels of all streams run one at a time and in the order of their  *)
(* launches.  Without graphs the event of _order_stream is enough, however *)
(* many streams the caller uses; a caller with graphs, whose replays make  *)
(* no call into the runtime, has to launch and replay on one stream.       *)
THEOREM LaunchesInOrder ==
  ASSUME OneGraphStream PROVE StreamsSpec => []LaunchOrder
<1>1. OrderInv => LaunchOrder
  <2> SUFFICES ASSUME OrderInv PROVE LaunchOrder
    OBVIOUS
  <2>1. ran \in Seq(Nat) /\ (\A i \in 1 .. Len(ran) : ran[i] = i) /\ DOMAIN running \subseteq {Len(ran)}
    BY DEF OrderInv, TurnInv, Typed, InTurn
  <2>2. \A i \in DOMAIN ran : ran[i] = i
    BY <2>1
  <2>3. Cardinality({}) = 0 /\ Cardinality({Len(ran)}) = 1
    BY FS_EmptySet, FS_Singleton
  <2>4. DOMAIN running = {} \/ DOMAIN running = {Len(ran)}
    BY <2>1
  <2>5. Cardinality(DOMAIN running) = 0 \/ Cardinality(DOMAIN running) = 1
    BY <2>3, <2>4, Zenon
  <2>6. Cardinality(DOMAIN running) <= 1
    BY <2>5
  <2> QED
    BY <2>2, <2>6 DEF LaunchOrder
<1>2. OrderInv /\ CaptureInv /\ [StreamsNext]_streamsVars => OrderInv'
  BY NextOrder
<1> QED
  BY <1>1, <1>2, InitOrder, InitCaptures, NextCaptures, PTL DEF StreamsSpec

(* What a collective returns comes from its own input, although calls share*)
(* the alignment buffers and those of the padded gather and nothing waits  *)
(* for their copies: without graphs it is enough that the inputs which need*)
(* such a buffer come on one stream, since the record of all_reduce covers *)
(* its copy out of the one buffer that launches of any stream share.       *)
THEOREM ResultsAreOwn ==
  ASSUME OneGraphStream, OneScratchStream PROVE StreamsSpec => []OwnResult
<1>1. OrderInv /\ CaptureInv /\ [StreamsNext]_streamsVars => OrderInv'
  BY NextOrder
<1>2. OrderInv /\ CaptureInv /\ BufferInv /\ [StreamsNext]_streamsVars => BufferInv'
  BY NextBuffers
<1>3. BufferInv => OwnResult
  BY DEF BufferInv
<1> QED
  BY <1>1, <1>2, <1>3, InitOrder, InitCaptures, InitBuffers, NextCaptures, PTL DEF StreamsSpec
=============================================================================
