--------------------------- MODULE LookupProofs ----------------------------
(***************************************************************************)
(* Proofs about LookupDraft, for any vocabulary, number of speculative     *)
(* tokens and length of text: the host books every outcome against the     *)
(* draft that was verified, and counts every step once.  Proofs about      *)
(* ContextIndex, for any gram lengths, key and limits: a match is the      *)
(* latest site of its gram, and the tiers halve.                           *)
(***************************************************************************)
EXTENDS LookupDraft, ContextIndex, SequenceTheorems, FiniteSetTheorems, WellFoundedInduction, TLAPS

(* What holds at 0 and passes from n to n + 1 holds at N.                  *)
LEMMA FromZero ==
  ASSUME NEW N \in Nat, NEW G, 0 \in G, \A n \in 0 .. N - 1 : n \in G => n + 1 \in G
  PROVE  N \in G
<1> DEFINE Bad == {n \in Nat : n \in 0 .. N /\ n \notin G}
<1>1. SUFFICES ASSUME Bad # {} PROVE FALSE
  OBVIOUS
<1>2. PICK m \in Bad : \A n \in Bad : ~(<<n, m>> \in OpToRel(<, Nat))
  BY <1>1, NatLessThanWellFounded, WFMin
<1>3. m \in 0 .. N /\ m \notin G /\ \A n \in Nat : n < m => n \notin Bad
  BY <1>2 DEF OpToRel
<1>4. m # 0 /\ m - 1 \in 0 .. N - 1 /\ m - 1 \in Nat /\ m - 1 < m /\ (m - 1) + 1 = m
  BY <1>3
<1>5. m - 1 \in G /\ (m - 1) + 1 \in G
  BY <1>3, <1>4
<1> QED
  BY <1>3, <1>4, <1>5

-----------------------------------------------------------------------------
(* The inductive invariant, in parts.                                      *)
LkModes == {"neural", "override", "skip"}
Shadows == [src : Int, lhost : Int]
Lengths == {0} \cup Families
LkSteps == [seq : Int, k : Lengths, prefill : BOOLEAN, base : Seq(Vocab),
            row : [mode : LkModes, src : Int, lhost : Int, k : Lengths], stale : BOOLEAN]
LkOuts == [seq : Int, k : Lengths, gen : Seq(Vocab) \ {<<>>}, device : {"lookup", "junk", "neural"},
           stale : BOOLEAN]
LkPlanSet == [seq : Nat, mode : LkModes, shadow : Shadows, prefill : BOOLEAN]

LkTypes ==
  /\ lookup \in {"off", "shadow", "on"} /\ hist \in Seq(Vocab)
  /\ lkPlans \subseteq LkPlanSet /\ IsFiniteSet(lkPlans) /\ lkSeq \in Nat /\ held \in Lengths
  /\ fresh \in BOOLEAN /\ todo \in Seq(LkSteps) /\ outs \in Seq(LkOuts) /\ dev \in Seq(Vocab)
  /\ drafted.kind \in {"lookup", "junk", "neural"}

(* The plans that are kept are the ones since some schedule, so the latest *)
(* one before a step is the one that its draft was made with.              *)
LkPlans ==
  /\ lookup = "off" => lkPlans = {}
  /\ \A p \in lkPlans : p.seq <= lkSeq
  /\ \A p, q \in lkPlans : p.seq = q.seq => p = q
  /\ \A p \in lkPlans : \A s \in p.seq .. lkSeq : \E q \in lkPlans : q.seq = s

(* Steps are executed and processed in order.                              *)
LkNumbers ==
  /\ \A i \in 1 .. Len(todo) : todo[i].seq = lkSeq - Len(todo) + i
  /\ \A i \in 1 .. Len(outs) : outs[i].seq = lkSeq - Len(todo) - Len(outs) + i

(* A step that the worker has not executed carries its plan, and the       *)
(* length that the next step verifies.                                     *)
RowIs(p, step) ==
  /\ step.row.mode = p.mode /\ step.row.src = p.shadow.src /\ step.row.lhost = p.shadow.lhost
  /\ step.prefill = p.prefill
KAfter(i) == IF i = Len(todo) THEN held ELSE todo[i + 1].k
LkRows ==
  /\ \A p \in lkPlans : \A i \in 1 .. Len(todo) : todo[i].seq = p.seq => RowIs(p, todo[i])
  /\ \A i \in 1 .. Len(todo) :
       KAfter(i) > 0 /\ todo[i].row.mode # "neural" => todo[i].row.k = KAfter(i)

(* What the device holds as drafts is what its last step's plan makes of   *)
(* the device's tokens.                                                    *)
KindOf(p, s) ==
  IF p.mode # "neural" /\ Continues(s, Len(s), p.shadow.src, p.shadow.lhost) THEN "lookup"
  ELSE IF p.mode = "skip" /\ ~p.prefill THEN "junk" ELSE "neural"
Reach(per, sh, k) == IF per THEN k ELSE Smaller(k, sh.lhost - sh.src)
Copied(per, s, sh, k, j) ==
  At(s, sh.src + Len(s) - sh.lhost + (IF per THEN (j - 1) % (sh.lhost - sh.src) ELSE j - 1))
IdsOf(per, s, sh, k) == [j \in 1 .. Reach(per, sh, k) |-> Copied(per, s, sh, k, j)]
NextK == IF todo = <<>> THEN held ELSE todo[1].k
LkDrafted == \A p \in lkPlans : p.seq = lkSeq - Len(todo) =>
  /\ drafted.kind = KindOf(p, dev)
  /\ drafted.kind = "lookup" /\ NextK > 0 => drafted.ids = IdsOf(periodic, dev, p.shadow, NextK)

(* A preempted request's steps are stale until the prompt is computed      *)
(* again.                                                                  *)
AllDecode == \A j \in 1 .. Len(todo) : ~todo[j].stale /\ ~todo[j].prefill
LkQueues ==
  /\ fresh => /\ held = 0
              /\ \A i \in 1 .. Len(todo) : todo[i].stale
              /\ \A i \in 1 .. Len(outs) : outs[i].stale
  /\ \A i, j \in 1 .. Len(todo) : i < j /\ ~todo[i].stale => ~todo[j].stale /\ ~todo[j].prefill
  /\ ~fresh /\ (\E i \in 1 .. Len(todo) : todo[i].stale) =>
       \E j \in 1 .. Len(todo) : ~todo[j].stale /\ todo[j].prefill
  /\ \A i \in 1 .. Len(todo) : todo[i].prefill => todo[i].k = 0

(* After the first i outputs the host will know the text D[i], which is    *)
(* the one that the device had before it executed the next step; and that  *)
(* step's draft is what its plan makes of that text.                       *)
Agreed(ids, gen, k) ==
  /\ Len(gen) <= k + 1
  /\ \A j \in 1 .. Smaller(Len(gen) - 1, Len(ids)) : gen[j] = ids[j]
  /\ Len(gen) <= k /\ Len(gen) <= Len(ids) => gen[Len(gen)] # ids[Len(gen)]
Told(per, p, s, out) ==
  /\ out.device = KindOf(p, s)
  /\ out.device = "lookup" => Agreed(IdsOf(per, s, p.shadow, out.k), out.gen, out.k)
Texted(D) ==
  /\ D \in [0 .. Len(outs) -> Seq(Vocab)] /\ D[0] = hist
  /\ \A i \in 1 .. Len(outs) : D[i] = IF outs[i].stale THEN D[i - 1] ELSE D[i - 1] \o outs[i].gen
LkTold(D) ==
  \A i \in 1 .. Len(outs) : ~outs[i].stale /\ outs[i].k > 0 =>
    \A p \in lkPlans : p.seq + 1 = outs[i].seq => Told(periodic, p, D[i - 1], outs[i])
LkTexts(D) ==
  /\ fresh => D[Len(outs)] = hist
  /\ \A j \in 1 .. Len(todo) : ~todo[j].stale /\ todo[j].prefill => todo[j].base = D[Len(outs)]
  /\ ~fresh /\ AllDecode => dev = D[Len(outs)]
Chain(D) == Texted(D) /\ LkTold(D) /\ LkTexts(D)
LkChain == \E D : Chain(D)

LkVerdict == DecodeAttribution /\ AccountingClean
LkInv == LkTypes /\ LkPlans /\ LkNumbers /\ LkRows /\ LkDrafted /\ LkQueues /\ LkChain /\ LkVerdict

-----------------------------------------------------------------------------
(* Drafts.                                                                 *)
LEMMA KernelIdsAre ==
  ASSUME NEW s, NEW sh, NEW k \in Nat, sh.lhost \in Int, sh.src \in Int
  PROVE  /\ KernelIds(s, sh, k) = IdsOf(periodic, s, sh, k)
         /\ LookupIds(s, sh, k) = IdsOf(periodic, s, sh, k)
<1>1. CASE periodic
  <2>1. Offsets(sh, k) = [j \in 1 .. k |-> (j - 1) % (sh.lhost - sh.src)]
    BY <1>1 DEF Offsets, Period
  <2>2. DOMAIN Offsets(sh, k) = 1 .. Reach(periodic, sh, k)
    BY <1>1, <2>1 DEF Reach
  <2>3. \A j \in 1 .. Reach(periodic, sh, k) :
          At(s, sh.src + Len(s) - sh.lhost + Offsets(sh, k)[j]) = Copied(periodic, s, sh, k, j)
    BY <1>1, <2>1 DEF Reach, Copied
  <2> QED
    BY <2>2, <2>3 DEF KernelIds, LookupIds, IdsOf
<1>2. CASE ~periodic
  <2>1. Offsets(sh, k) = [j \in 1 .. Smaller(k, sh.lhost - sh.src) |-> j - 1]
    BY <1>2 DEF Offsets, Period
  <2>2. DOMAIN Offsets(sh, k) = 1 .. Reach(periodic, sh, k)
    BY <1>2, <2>1 DEF Reach
  <2>3. \A j \in 1 .. Reach(periodic, sh, k) :
          At(s, sh.src + Len(s) - sh.lhost + Offsets(sh, k)[j]) = Copied(periodic, s, sh, k, j)
    BY <1>2, <2>1 DEF Reach, Copied
  <2> QED
    BY <2>2, <2>3 DEF KernelIds, LookupIds, IdsOf
<1> QED
  BY <1>1, <1>2

(* A longer draft starts with a shorter one of the same copy.              *)
LEMMA IdsLen ==
  ASSUME NEW per, NEW s, NEW sh, NEW k \in Nat, sh.lhost \in Int, sh.src \in Int, sh.src < sh.lhost
  PROVE  /\ Reach(per, sh, k) \in Nat /\ Len(IdsOf(per, s, sh, k)) = Reach(per, sh, k)
         /\ \A j \in 1 .. Reach(per, sh, k) : IdsOf(per, s, sh, k)[j] = Copied(per, s, sh, k, j)
<1>1. Reach(per, sh, k) \in Nat
  BY DEF Reach, Smaller
<1> QED
  BY <1>1 DEF IdsOf
(* A member of a set that no other exceeds.                                *)
Tops(S) == \E m \in S : \A y \in S : m >= y
(* A finite set of naturals that is not empty has a largest member.        *)
LEMMA FiniteTops ==
  ASSUME NEW S \in SUBSET Nat, IsFiniteSet(S), S # {}
  PROVE  Max(S) \in S /\ \A y \in S : Max(S) >= y
<1> DEFINE G == {n \in Nat : \A T \in SUBSET Nat : IsFiniteSet(T) /\ Cardinality(T) = n /\ T # {} => Tops(T)}
<1>1. 0 \in G
  BY FS_EmptySet
<1>2. ASSUME NEW n \in Nat, n \in G PROVE n + 1 \in G
  <2> SUFFICES ASSUME NEW T \in SUBSET Nat, IsFiniteSet(T), Cardinality(T) = n + 1, T # {} PROVE Tops(T)
    OBVIOUS
  <2>1. PICK x \in T : TRUE
    OBVIOUS
  <2>2. IsFiniteSet(T \ {x}) /\ Cardinality(T \ {x}) = n
    <3>1. IsFiniteSet(T \ {x}) /\ Cardinality(T \ {x}) = Cardinality(T) - 1
      BY <2>1, FS_RemoveElement
    <3> QED
      BY <3>1
  <2>3. CASE T \ {x} = {}
    <3>1. \A y \in T : y = x
      BY <2>3
    <3>2. x \in T /\ x \in Nat
      BY <2>1
    <3> QED
      BY <3>1, <3>2 DEF Tops
  <2>4. CASE T \ {x} # {}
    <3>1. Tops(T \ {x})
      BY <1>2, <2>2, <2>4
    <3>2. PICK m \in T \ {x} : \A y \in T \ {x} : m >= y
      BY <3>1 DEF Tops
    <3>3. m \in Nat /\ x \in Nat /\ m \in T /\ x \in T
      BY <2>1, <3>2
    <3>4. CASE m >= x
      BY <3>2, <3>3, <3>4 DEF Tops
    <3>5. CASE x >= m
      <4>1. \A y \in T : x >= y
        BY <3>2, <3>3, <3>5
      <4> QED
        BY <3>3, <4>1 DEF Tops
    <3> QED
      BY <3>3, <3>4, <3>5
  <2> QED
    BY <2>3, <2>4
<1>3. \A n \in Nat : n \in G
  <2> HIDE DEF G
  <2> SUFFICES ASSUME NEW N \in Nat PROVE N \in G
    OBVIOUS
  <2> QED
    BY <1>1, <1>2, FromZero
<1>4. Tops(S)
  BY <1>3, FS_CardinalityType
<1> QED
  BY <1>4 DEF Tops, Max

(* No family is longer than the engine's draft length.                     *)
LEMMA UpToEngineK == ASSUME NEW k \in Families PROVE k \in Nat /\ EngineK \in Nat /\ k <= EngineK
<1>1. Families \in SUBSET Nat /\ IsFiniteSet(Families) /\ Families # {}
  BY LookupAssumption
<1>2. Max(Families) \in Families /\ Max(Families) >= k
  BY <1>1, FiniteTops
<1> QED
  BY <1>1, <1>2 DEF EngineK

(* CommonPrefix is the length of the longest common prefix.                *)
LEMMA CommonPrefixIs ==
  ASSUME NEW ids, NEW gen, Len(ids) \in Nat, Len(gen) \in Nat
  PROVE  LET n == CommonPrefix(ids, gen)
         IN  /\ n \in 0 .. Smaller(Len(ids), Len(gen)) /\ \A j \in 1 .. n : ids[j] = gen[j]
             /\ \A m \in 0 .. Smaller(Len(ids), Len(gen)) : (\A j \in 1 .. m : ids[j] = gen[j]) => m <= n
<1> DEFINE S == {n \in 0 .. Smaller(Len(ids), Len(gen)) : \A j \in 1 .. n : ids[j] = gen[j]}
           b == Smaller(Len(ids), Len(gen))
<1>1. b \in Nat
  BY DEF Smaller
<1>2. S \in SUBSET Nat /\ S # {} /\ \A s \in S : s <= b
  <2>1. 0 \in S
    BY <1>1
  <2> QED
    BY <1>1, <2>1
<1>3. IsFiniteSet(S)
  BY <1>1, <1>2, FS_BoundedSetOfNaturals
<1>4. Max(S) \in S /\ \A y \in S : Max(S) >= y
  BY <1>2, <1>3, FiniteTops
<1>5. CommonPrefix(ids, gen) = Max(S)
  BY DEF CommonPrefix
<1>6. \A y \in S : y \in Nat /\ Max(S) \in Nat
  BY <1>2, <1>4
<1> HIDE DEF S, b
<1>7. \A y \in S : y <= Max(S)
  BY <1>4, <1>6
<1> QED
  BY <1>4, <1>5, <1>7 DEF S

(* What the worker accepts of a copied draft is what the host counts.      *)
Matching(sh) == sh.lhost \in Int /\ sh.src \in Int /\ sh.src < sh.lhost
LEMMA AgreedIsAccounted ==
  ASSUME NEW sh, Matching(sh), NEW k \in Nat, k <= EngineK, EngineK \in Nat,
         NEW gen \in Seq(Vocab), gen # <<>>, Agreed(IdsOf(periodic, hist, sh, k), gen, k)
  PROVE  Accounted(sh, k, gen)
<1> DEFINE ids == IdsOf(periodic, hist, sh, EngineK)
           few == IdsOf(periodic, hist, sh, k)
           J == Reach(periodic, sh, k)
           g == Len(gen)
           lcp == CommonPrefix(ids, gen)
<1>1. g \in Nat /\ g >= 1
  OBVIOUS
<1>2. /\ J \in Nat /\ Len(few) = J /\ \A j \in 1 .. J : few[j] = Copied(periodic, hist, sh, k, j)
      /\ Reach(periodic, sh, EngineK) \in Nat /\ Len(ids) = Reach(periodic, sh, EngineK)
      /\ \A j \in 1 .. Len(ids) : ids[j] = Copied(periodic, hist, sh, EngineK, j)
  BY IdsLen DEF Matching
<1>3. J = Smaller(k, Len(ids)) /\ J <= Len(ids) /\ J <= k
  BY <1>2 DEF Reach, Smaller, Matching
<1>4. \A j \in 1 .. J : few[j] = ids[j]
  BY <1>2, <1>3 DEF Copied
<1>5. /\ lcp \in 0 .. Smaller(Len(ids), g) /\ \A j \in 1 .. lcp : ids[j] = gen[j]
      /\ \A m \in 0 .. Smaller(Len(ids), g) : (\A j \in 1 .. m : ids[j] = gen[j]) => m <= lcp
  BY <1>1, <1>2, CommonPrefixIs
<1>6. LookupIds(hist, sh, EngineK) = ids
  BY KernelIdsAre DEF Matching
<1>7. /\ g <= k + 1 /\ \A j \in 1 .. Smaller(g - 1, J) : gen[j] = few[j]
      /\ g <= k /\ g <= J => gen[g] # few[g]
  BY <1>2 DEF Agreed
<1> HIDE DEF ids, few, J, g, lcp
<1>8. Smaller(g - 1, J) \in Nat /\ Smaller(g - 1, J) <= J /\ Smaller(g - 1, J) <= g - 1
      /\ Smaller(g - 1, J) \in {g - 1, J} /\ lcp \in Nat /\ lcp <= g /\ lcp <= Len(ids) /\ Len(ids) \in Nat
  BY <1>1, <1>2, <1>3, <1>5 DEF Smaller
<1>9. Smaller(g - 1, J) <= lcp
  <2>1. \A j \in 1 .. Smaller(g - 1, J) : ids[j] = gen[j]
    BY <1>2, <1>4, <1>7, <1>8
  <2>2. Smaller(g - 1, J) \in 0 .. Smaller(Len(ids), g)
    BY <1>1, <1>2, <1>3, <1>8 DEF Smaller
  <2> QED
    BY <1>5, <2>1, <2>2
<1>10. g <= J => lcp # g
  <2> SUFFICES ASSUME g <= J, lcp = g PROVE FALSE
    OBVIOUS
  <2>1. ids[g] = gen[g] /\ few[g] = ids[g] /\ g <= k
    BY <1>1, <1>2, <1>3, <1>4, <1>5
  <2> QED
    BY <1>7, <2>1
<1>11. lcp < J => g - 1 = lcp
  BY <1>1, <1>2, <1>3, <1>8, <1>9, <1>10
<1>12. ~(lcp < J) => J <= g - 1 /\ g - 1 <= k
  BY <1>1, <1>2, <1>3, <1>7, <1>8, <1>9, <1>10
<1>13. Accounted(sh, k, gen) = IF lcp < J THEN g - 1 = lcp ELSE J <= g - 1 /\ g - 1 <= k
  BY <1>3, <1>6 DEF Accounted, lcp, g
<1> QED
  BY <1>11, <1>12, <1>13

-----------------------------------------------------------------------------
(* Queues.                                                                 *)
Added(r, q, e) ==
  /\ Len(q) \in Nat /\ Len(r) = Len(q) + 1 /\ r[Len(q) + 1] = e
  /\ \A i \in 1 .. Len(q) : r[i] = q[i]
(* Appending adds one item behind the others; Tail drops the first.        *)
LEMMA AddLast ==
  ASSUME NEW S, NEW q \in Seq(S), NEW e \in S
  PROVE  Append(q, e) \in Seq(S) /\ Added(Append(q, e), q, e)
  BY DEF Added
Dropped(r, q) ==
  /\ Len(q) \in Nat \ {0} /\ Len(r) = Len(q) - 1
  /\ \A i \in 1 .. Len(r) : r[i] = q[i + 1]
(* Tail drops the first item and moves the others up.                      *)
LEMMA DropFirst ==
  ASSUME NEW S, NEW q \in Seq(S), q # <<>>
  PROVE  Tail(q) \in Seq(S) /\ Dropped(Tail(q), q) /\ Head(q) = q[1] /\ q[1] \in S
  BY DEF Dropped
(* The items of a sequence, and the type of a concatenation.               *)
LEMMA Item == ASSUME NEW S, NEW q \in Seq(S) PROVE Len(q) \in Nat /\ \A i \in 1 .. Len(q) : q[i] \in S
  OBVIOUS
(* Two sequences over a set, joined, are a sequence over it.               *)
LEMMA Joined == ASSUME NEW S, NEW q \in Seq(S), NEW r \in Seq(S) PROVE q \o r \in Seq(S)
  OBVIOUS

(* A draft length is 0 or one of the families.                             *)
LEMMA LengthsAre == ASSUME NEW k \in Lengths PROVE k \in Nat /\ EngineK \in Nat /\ k <= EngineK
<1>1. PICK f \in Families : TRUE
  BY LookupAssumption
<1>2. EngineK \in Nat
  BY <1>1, UpToEngineK
<1>3. CASE k = 0
  BY <1>2, <1>3
<1>4. CASE k \in Families
  BY <1>4, UpToEngineK
<1> QED
  BY <1>3, <1>4 DEF Lengths

(* Dropping the oldest plans leaves the others together.                   *)
Together(S, n) == \A p \in S : \A s \in p.seq .. n : \E q \in S : q.seq = s
LEMMA NewestKeeps ==
  ASSUME NEW S \in SUBSET LkPlanSet, IsFiniteSet(S), NEW n \in Int, Together(S, n)
  PROVE  Together(Newest(S), n) /\ Newest(S) \subseteq S /\ IsFiniteSet(Newest(S))
<1>1. Newest(S) \subseteq S
  BY DEF Newest
<1>2. ASSUME NEW p \in Newest(S), NEW s \in p.seq .. n PROVE \E q \in Newest(S) : q.seq = s
  <2>1. p \in S /\ p.seq \in Nat /\ s \in Int /\ s >= p.seq
    BY <1>1, <1>2 DEF LkPlanSet
  <2>2. PICK q \in S : q.seq = s
    BY <1>2, <2>1 DEF Together
  <2> DEFINE A == {x \in S : x.seq > p.seq}
             B == {x \in S : x.seq > q.seq}
  <2>3. B \subseteq A
    <3> SUFFICES ASSUME NEW x \in S, x.seq > q.seq PROVE x.seq > p.seq
      OBVIOUS
    <3>1. x.seq \in Nat
      BY DEF LkPlanSet
    <3> QED
      BY <2>1, <2>2, <3>1
  <2>4. IsFiniteSet(A)
    BY FS_Subset
  <2>5. Cardinality(B) <= Cardinality(A) /\ Cardinality(A) \in Nat /\ Cardinality(B) \in Nat
    BY <2>3, <2>4, FS_Subset, FS_CardinalityType
  <2>6. Cardinality(A) < PlanCap
    BY <1>2 DEF Newest
  <2>7. PlanCap \in Nat
    BY LookupAssumption
  <2>8. Cardinality(B) < PlanCap
    BY <2>5, <2>6, <2>7
  <2>9. q \in Newest(S)
    BY <2>2, <2>8 DEF Newest
  <2> QED
    BY <2>2, <2>9
<1>3. IsFiniteSet(Newest(S))
  BY <1>1, FS_Subset
<1> QED
  BY <1>1, <1>2, <1>3 DEF Together

-----------------------------------------------------------------------------
(* The start.                                                              *)
LEMMA LkInitially == LookupInit => LkInv
<1> SUFFICES ASSUME LookupInit PROVE LkInv
  OBVIOUS
<1>1. /\ lkPlans = {} /\ todo = <<>> /\ outs = <<>> /\ fresh = TRUE /\ held = 0 /\ lkSeq = 0
      /\ dev = <<>> /\ lookup = "on" /\ drafted.kind = "neural" /\ verdict = NoVerdict
  BY DEF LookupInit
<1>2. hist \in Seq(Vocab)
  <2>1. hist \in [1 .. MinAgree + 1 -> Vocab] /\ MinAgree + 1 \in Nat
    BY LookupAssumption DEF LookupInit
  <2> QED
    BY <2>1
<1>3. Len(todo) = 0 /\ Len(outs) = 0
  BY <1>1
<1>4. LkTypes
  BY <1>1, <1>2, FS_EmptySet DEF LkTypes, Lengths
<1>5. LkPlans /\ LkDrafted
  BY <1>1 DEF LkPlans, LkDrafted
<1>6. LkNumbers /\ LkRows /\ LkQueues
  BY <1>1, <1>3 DEF LkNumbers, LkRows, LkQueues
<1>7. LkChain
  <2> DEFINE D == [i \in 0 .. 0 |-> hist]
  <2>1. D \in [0 .. 0 -> Seq(Vocab)] /\ D[0] = hist
    BY <1>2
  <2> HIDE DEF D
  <2>2. Texted(D)
    BY <1>3, <2>1 DEF Texted
  <2>3. LkTold(D)
    BY <1>3 DEF LkTold
  <2>4. LkTexts(D)
    BY <1>1, <1>3, <2>1 DEF LkTexts
  <2> QED
    BY <2>2, <2>3, <2>4 DEF LkChain, Chain
<1>8. LkVerdict
  BY <1>1 DEF LkVerdict, DecodeAttribution, AccountingClean, NoVerdict
<1> QED
  BY <1>4, <1>5, <1>6, <1>7, <1>8 DEF LkInv

-----------------------------------------------------------------------------
(* Steps that change only some of it.                                      *)
LEMMA NoVerdictHolds == ASSUME verdict' = NoVerdict PROVE LkVerdict'
  BY DEF LkVerdict, DecodeAttribution, AccountingClean, NoVerdict

(* A schedule: what it changes, for arguments that LookupNext may choose.  *)
StepOf(mode, sh, k) ==
  [seq |-> lkSeq', k |-> held, prefill |-> fresh, base |-> IF fresh THEN hist ELSE <<>>,
   row |-> [mode |-> mode, src |-> sh.src, lhost |-> sh.lhost, k |-> IF mode = "neural" THEN 0 ELSE k],
   stale |-> FALSE]
PlanOf(mode, sh) == [seq |-> lkSeq', mode |-> mode, shadow |-> sh, prefill |-> fresh]
Scheduled(mode, sh, k) ==
  /\ lkSeq' = lkSeq + 1 /\ held' = k /\ fresh' = FALSE
  /\ Added(todo', todo, StepOf(mode, sh, k))
  /\ lkPlans' = IF lookup = "off" THEN lkPlans ELSE Newest(lkPlans \cup {PlanOf(mode, sh)})
  /\ UNCHANGED <<lookup, periodic, hist, outs, dev, drafted>>

(* A schedule keeps the types and gives no verdict.                        *)
LEMMA ScheduleDoes ==
  ASSUME LkInv, NEW kPolicy \in Families, NEW k \in Families, NEW mode \in LkModes, NEW sh \in Shadows,
         Schedule(kPolicy, k, mode, sh)
  PROVE  Scheduled(mode, sh, k) /\ LkTypes' /\ LkVerdict'
<1>1. /\ lkSeq' = lkSeq + 1 /\ fresh' = FALSE /\ todo' = Append(todo, StepOf(mode, sh, k))
      /\ lkPlans' = IF lookup = "off" THEN lkPlans ELSE Newest(lkPlans \cup {PlanOf(mode, sh)})
      /\ verdict' = NoVerdict
      /\ UNCHANGED <<lookup, periodic, hist, outs, dev, drafted>>
  BY DEF Schedule, StepOf, PlanOf
<1>2. held' = k
  BY DEF Schedule, Placeholders
<1>3. LkTypes
  BY DEF LkInv
<1>4. lkSeq \in Nat /\ fresh \in BOOLEAN /\ hist \in Seq(Vocab) /\ held \in Lengths /\ k \in Lengths /\ 0 \in Lengths
  BY <1>3 DEF LkTypes, Lengths
<1>5. StepOf(mode, sh, k) \in LkSteps
  <2>1. (IF fresh THEN hist ELSE <<>>) \in Seq(Vocab)
    BY <1>4
  <2>2. (IF mode = "neural" THEN 0 ELSE k) \in Lengths /\ sh.src \in Int /\ sh.lhost \in Int /\ lkSeq' \in Int
    BY <1>1, <1>4 DEF Shadows
  <2> QED
    BY <1>4, <2>1, <2>2 DEF StepOf, LkSteps
<1>6. PlanOf(mode, sh) \in LkPlanSet
  BY <1>1, <1>4 DEF PlanOf, LkPlanSet
<1>7. todo' \in Seq(LkSteps) /\ Added(todo', todo, StepOf(mode, sh, k))
  BY <1>1, <1>3, <1>5, AddLast DEF LkTypes
<1>8. lkPlans' \subseteq LkPlanSet /\ IsFiniteSet(lkPlans')
  <2> DEFINE S == lkPlans \cup {PlanOf(mode, sh)}
  <2>1. lkPlans \subseteq LkPlanSet /\ IsFiniteSet(lkPlans)
    BY <1>3 DEF LkTypes
  <2>2. S \subseteq LkPlanSet
    BY <1>6, <2>1
  <2>3. IsFiniteSet(S)
    BY <2>1, FS_AddElement
  <2> HIDE DEF S
  <2>4. Newest(S) \subseteq S
    BY DEF Newest
  <2>5. IsFiniteSet(Newest(S)) /\ Newest(S) \subseteq LkPlanSet
    BY <2>2, <2>3, <2>4, FS_Subset
  <2> QED
    BY <1>1, <2>1, <2>5 DEF S
<1>9. LkTypes'
  <2>1. lkSeq' \in Nat /\ held' \in Lengths /\ fresh' \in BOOLEAN
    <3>1. lkSeq' = lkSeq + 1 /\ fresh' = FALSE
      BY <1>1
    <3>2. lkSeq \in Nat /\ held' \in Lengths
      BY <1>2, <1>4
    <3>3. lkSeq' \in Nat
      BY <3>1, <3>2
    <3>4. fresh' \in BOOLEAN
      BY <3>1, Zenon
    <3> QED
      BY <3>2, <3>3, <3>4
  <2>2. /\ lookup' \in {"off", "shadow", "on"} /\ hist' \in Seq(Vocab) /\ outs' \in Seq(LkOuts)
        /\ dev' \in Seq(Vocab) /\ drafted'.kind \in {"lookup", "junk", "neural"}
    BY <1>1, <1>3 DEF LkTypes
  <2> QED
    BY <1>7, <1>8, <2>1, <2>2 DEF LkTypes
<1> QED
  BY <1>1, <1>2, <1>7, <1>9, NoVerdictHolds DEF Scheduled

(* A plan of an earlier schedule was there before.                         *)
LEMMA EarlierPlan ==
  ASSUME LkInv, NEW mode, NEW sh, NEW k, Scheduled(mode, sh, k), NEW p \in lkPlans'
  PROVE  (p \in lkPlans /\ p.seq <= lkSeq) \/ (p = PlanOf(mode, sh) /\ p.seq = lkSeq + 1)
<1>1. lkPlans' = lkPlans \/ lkPlans' = Newest(lkPlans \cup {PlanOf(mode, sh)})
  BY DEF Scheduled
<1>2. Newest(lkPlans \cup {PlanOf(mode, sh)}) \subseteq lkPlans \cup {PlanOf(mode, sh)}
  BY DEF Newest
<1>3. p \in lkPlans \/ p = PlanOf(mode, sh)
  BY <1>1, <1>2
<1>4. \A x \in lkPlans : x.seq <= lkSeq
  BY DEF LkInv, LkPlans
<1>5. PlanOf(mode, sh).seq = lkSeq + 1
  BY DEF Scheduled, PlanOf
<1> QED
  BY <1>3, <1>4, <1>5

(* A schedule adds the plan that follows the others.                       *)
LEMMA SchedulePlans ==
  ASSUME LkInv, NEW mode \in LkModes, NEW sh \in Shadows, NEW k, Scheduled(mode, sh, k)
  PROVE  LkPlans'
<1>1. LkTypes /\ LkPlans /\ lkSeq \in Nat /\ lkSeq' = lkSeq + 1 /\ lookup' = lookup
  BY DEF LkInv, LkTypes, Scheduled
<1>2. CASE lookup = "off"
  <2>1. lkPlans = {} /\ lkPlans' = {}
    BY <1>1, <1>2 DEF LkPlans, Scheduled
  <2> QED
    BY <2>1 DEF LkPlans
<1>3. CASE lookup # "off"
  <2> DEFINE new == PlanOf(mode, sh)
             S == lkPlans \cup {new}
  <2>1. lkPlans' = Newest(S) /\ new.seq = lkSeq + 1
    BY <1>3 DEF Scheduled, PlanOf
  <2>2. new \in LkPlanSet
    BY <1>1 DEF PlanOf, LkPlanSet, LkTypes
  <2>3. lkPlans \subseteq LkPlanSet /\ IsFiniteSet(lkPlans) /\ \A x \in lkPlans : x.seq \in Nat /\ x.seq <= lkSeq
    BY <1>1 DEF LkTypes, LkPlans, LkPlanSet
  <2> HIDE DEF new
  <2>4. S \subseteq LkPlanSet /\ IsFiniteSet(S)
    BY <2>2, <2>3, FS_AddElement
  <2>5. Together(S, lkSeq + 1)
    <3> SUFFICES ASSUME NEW p \in S, NEW s \in p.seq .. lkSeq + 1 PROVE \E q \in S : q.seq = s
      BY DEF Together
    <3>1. CASE s = lkSeq + 1
      BY <2>1, <3>1
    <3>2. CASE s # lkSeq + 1
      <4>1. p \in lkPlans /\ s \in p.seq .. lkSeq
        BY <1>1, <2>1, <2>3, <3>2
      <4> QED
        BY <1>1, <4>1 DEF LkPlans
    <3> QED
      BY <3>1, <3>2
  <2>6. \A p, q \in S : p.seq = q.seq => p = q
    <3> SUFFICES ASSUME NEW p \in S, NEW q \in S, p.seq = q.seq PROVE p = q
      OBVIOUS
    <3>1. CASE p \in lkPlans /\ q \in lkPlans
      BY <1>1, <3>1 DEF LkPlans
    <3>2. CASE p = new \/ q = new
      BY <1>1, <2>1, <2>3, <3>2
    <3> QED
      BY <3>1, <3>2
  <2>7. \A p \in S : p.seq <= lkSeq + 1
    BY <1>1, <2>1, <2>3
  <2> HIDE DEF S
  <2>8. Together(Newest(S), lkSeq + 1) /\ Newest(S) \subseteq S
    BY <1>1, <2>4, <2>5, NewestKeeps
  <2>9. \A p \in lkPlans' : \A s \in p.seq .. lkSeq' : \E q \in lkPlans' : q.seq = s
    BY <1>1, <2>1, <2>8 DEF Together
  <2>10. lkPlans' \subseteq S
    BY <2>1, <2>8
  <2>11. \A p \in lkPlans' : p.seq <= lkSeq'
    BY <1>1, <2>7, <2>10
  <2>12. \A p, q \in lkPlans' : p.seq = q.seq => p = q
    BY <2>6, <2>10
  <2> QED
    BY <1>1, <1>3, <2>9, <2>11, <2>12 DEF LkPlans
<1> QED
  BY <1>2, <1>3

(* The step that is scheduled carries its plan and the length held so far. *)
LEMMA ScheduleRows ==
  ASSUME LkInv, NEW mode \in LkModes, NEW sh \in Shadows, NEW k, Scheduled(mode, sh, k)
  PROVE  LkNumbers' /\ LkRows'
<1> DEFINE n == Len(todo)
           step == StepOf(mode, sh, k)
<1>1. /\ n \in Nat /\ Len(todo') = n + 1 /\ todo'[n + 1] = step /\ \A i \in 1 .. n : todo'[i] = todo[i]
      /\ lkSeq' = lkSeq + 1 /\ held' = k /\ outs' = outs /\ lkSeq \in Nat /\ Len(outs) \in Nat
  BY DEF Scheduled, Added, LkInv, LkTypes
<1>2. LkNumbers /\ LkRows
  BY DEF LkInv
<1>3. step.seq = lkSeq + 1 /\ step.k = held
  BY <1>1 DEF StepOf
<1> HIDE DEF n, step
<1>4. LkNumbers'
  <2>1. \A i \in 1 .. n : todo'[i].seq = lkSeq - n + i
    BY <1>1, <1>2 DEF LkNumbers, n
  <2>2. ASSUME NEW i \in 1 .. n + 1 PROVE todo'[i].seq = lkSeq' - (n + 1) + i
    <3>1. n \in Nat /\ lkSeq \in Nat /\ lkSeq' = lkSeq + 1
      BY <1>1
    <3>2. CASE i \in 1 .. n
      <4>1. todo'[i].seq = lkSeq - n + i
        BY <1>1, <2>1, <3>2
      <4> QED
        BY <3>1, <3>2, <4>1
    <3>3. CASE i = n + 1
      <4>1. todo'[i].seq = lkSeq + 1
        BY <1>1, <1>3, <3>3
      <4> QED
        BY <3>1, <3>3, <4>1
    <3> QED
      BY <3>1, <3>2, <3>3
  <2>3. \A i \in 1 .. Len(outs) : outs[i].seq = lkSeq - n - Len(outs) + i
    BY <1>2 DEF LkNumbers, n
  <2>4. \A i \in 1 .. Len(outs) : outs[i].seq = lkSeq' - (n + 1) - Len(outs) + i
    BY <1>1, <2>3
  <2> QED
    BY <1>1, <2>2, <2>4 DEF LkNumbers
<1>5. ASSUME NEW p \in lkPlans', NEW i \in 1 .. n + 1, todo'[i].seq = p.seq
      PROVE  RowIs(p, todo'[i])
  <2>1. CASE i = n + 1
    <3>1. p = PlanOf(mode, sh)
      BY <1>1, <1>3, <1>5, <2>1, EarlierPlan
    <3>2. /\ step.row.mode = mode /\ step.row.src = sh.src /\ step.row.lhost = sh.lhost /\ step.prefill = fresh
          /\ p.mode = mode /\ p.shadow = sh /\ p.prefill = fresh
      BY <3>1 DEF PlanOf, StepOf, step
    <3> QED
      BY <1>1, <2>1, <3>2 DEF RowIs
  <2>2. CASE i # n + 1
    <3>1. i \in 1 .. n /\ todo'[i] = todo[i]
      BY <1>1, <2>2
    <3>2. todo[i].seq = lkSeq - n + i
      BY <1>2, <3>1 DEF LkNumbers, n
    <3>3. p.seq # lkSeq + 1
      BY <1>1, <1>5, <3>1, <3>2
    <3>4. p \in lkPlans
      BY <3>3, EarlierPlan
    <3> QED
      BY <1>2, <1>5, <3>1, <3>4 DEF LkRows, n
  <2> QED
    BY <2>1, <2>2
<1>6. ASSUME NEW i \in 1 .. n + 1, KAfter(i)' > 0, todo'[i].row.mode # "neural"
      PROVE  todo'[i].row.k = KAfter(i)'
  <2>1. CASE i = n + 1
    <3>1. KAfter(i)' = k
      BY <1>1, <2>1 DEF KAfter
    <3>2. step.row.mode = mode /\ (mode # "neural" => step.row.k = k)
      BY DEF StepOf, step
    <3> QED
      BY <1>1, <1>6, <2>1, <3>1, <3>2
  <2>2. CASE i # n + 1
    <3>1. i \in 1 .. n /\ todo'[i] = todo[i] /\ i # n + 1
      BY <1>1, <2>2
    <3>2. KAfter(i)' = todo'[i + 1].k
      BY <1>1, <2>2 DEF KAfter
    <3>3. todo'[i + 1].k = KAfter(i)
      BY <1>1, <1>3, <3>1 DEF KAfter, n
    <3> QED
      BY <1>2, <1>6, <3>1, <3>2, <3>3 DEF LkRows, n
  <2> QED
    BY <2>1, <2>2
<1> QED
  BY <1>1, <1>4, <1>5, <1>6 DEF LkRows

(* A schedule does not touch what the device holds as drafts.              *)
LEMMA ScheduleDrafted ==
  ASSUME LkInv, NEW mode \in LkModes, NEW sh \in Shadows, NEW k, Scheduled(mode, sh, k)
  PROVE  LkDrafted'
<1> DEFINE n == Len(todo)
<1>1. /\ n \in Nat /\ Len(todo') = n + 1 /\ todo'[n + 1].k = held /\ \A i \in 1 .. n : todo'[i] = todo[i]
      /\ lkSeq' = lkSeq + 1 /\ lkSeq \in Nat
      /\ UNCHANGED <<dev, drafted, periodic>>
  BY DEF Scheduled, Added, StepOf, LkInv, LkTypes
<1>2. NextK' = NextK
  <2>1. todo' # <<>> /\ (todo = <<>> <=> n = 0)
    BY <1>1 DEF LkInv, LkTypes
  <2>2. CASE n = 0
    BY <1>1, <2>1, <2>2 DEF NextK
  <2>3. CASE n # 0
    BY <1>1, <2>1, <2>3 DEF NextK
  <2> QED
    BY <2>2, <2>3
<1>3. LkDrafted
  BY DEF LkInv
<1>4. ASSUME NEW p \in lkPlans', p.seq = lkSeq' - Len(todo')
      PROVE  p \in lkPlans /\ p.seq = lkSeq - n
  <2>1. p.seq = lkSeq - n /\ p.seq # lkSeq + 1
    BY <1>1, <1>4
  <2> QED
    BY <2>1, EarlierPlan
<1> QED
  BY <1>1, <1>2, <1>3, <1>4 DEF LkDrafted

(* The first schedule after a preemption computes the prompt.              *)
LEMMA ScheduleQueues ==
  ASSUME LkInv, NEW mode \in LkModes, NEW sh \in Shadows, NEW k, Scheduled(mode, sh, k)
  PROVE  LkQueues'
<1> DEFINE n == Len(todo)
           step == StepOf(mode, sh, k)
<1>1. /\ n \in Nat /\ Len(todo') = n + 1 /\ todo'[n + 1] = step /\ \A i \in 1 .. n : todo'[i] = todo[i]
      /\ fresh' = FALSE /\ fresh \in BOOLEAN
  BY DEF Scheduled, Added, LkInv, LkTypes
<1>2. LkQueues
  BY DEF LkInv
<1>3. step.k = held /\ step.prefill = fresh /\ ~step.stale
  BY DEF StepOf
<1> HIDE DEF step, n
<1>4. ASSUME NEW i \in 1 .. n + 1, NEW j \in 1 .. n + 1, i < j, ~todo'[i].stale
      PROVE  ~todo'[j].stale /\ ~todo'[j].prefill
  <2>1. i \in 1 .. n /\ ~todo[i].stale
    BY <1>1, <1>4
  <2>2. CASE j = n + 1
    <3>1. ~fresh
      BY <1>2, <2>1 DEF LkQueues, n
    <3> QED
      BY <1>1, <1>3, <2>2, <3>1
  <2>3. CASE j # n + 1
    <3>1. j \in 1 .. n /\ todo'[j] = todo[j]
      BY <1>1, <2>3
    <3> QED
      BY <1>2, <1>4, <2>1, <3>1 DEF LkQueues, n
  <2> QED
    BY <2>2, <2>3
<1>5. ASSUME NEW i \in 1 .. n + 1, todo'[i].stale
      PROVE  \E j \in 1 .. n + 1 : ~todo'[j].stale /\ todo'[j].prefill
  <2>1. i \in 1 .. n /\ todo[i].stale
    <3>1. i # n + 1
      BY <1>1, <1>3, <1>5
    <3> QED
      BY <1>1, <1>5, <3>1
  <2>2. CASE fresh
    <3>1. n + 1 \in 1 .. n + 1 /\ ~todo'[n + 1].stale /\ todo'[n + 1].prefill
      BY <1>1, <1>3, <2>2
    <3> QED
      BY <3>1
  <2>3. CASE ~fresh
    <3>1. PICK j \in 1 .. n : ~todo[j].stale /\ todo[j].prefill
      BY <1>2, <2>1, <2>3 DEF LkQueues, n
    <3>2. j \in 1 .. n + 1 /\ todo'[j] = todo[j]
      BY <1>1
    <3> QED
      BY <3>1, <3>2
  <2> QED
    BY <2>2, <2>3
<1>6. ASSUME NEW i \in 1 .. n + 1, todo'[i].prefill PROVE todo'[i].k = 0
  <2>1. CASE i = n + 1
    <3>1. fresh
      BY <1>1, <1>3, <1>6, <2>1
    <3>2. held = 0
      BY <1>2, <3>1 DEF LkQueues
    <3> QED
      BY <1>1, <1>3, <2>1, <3>2
  <2>2. CASE i # n + 1
    <3>1. i \in 1 .. n /\ todo'[i] = todo[i]
      BY <1>1, <2>2
    <3> QED
      BY <1>2, <1>6, <3>1 DEF LkQueues, n
  <2> QED
    BY <2>1, <2>2
<1> QED
  BY <1>1, <1>4, <1>5, <1>6 DEF LkQueues

(* A schedule does not change the text that the outputs will make.         *)
LEMMA ScheduleChain ==
  ASSUME LkInv, NEW mode \in LkModes, NEW sh \in Shadows, NEW k, Scheduled(mode, sh, k)
  PROVE  LkChain'
<1> DEFINE n == Len(todo)
           step == StepOf(mode, sh, k)
<1>1. /\ n \in Nat /\ Len(todo') = n + 1 /\ todo'[n + 1] = step /\ \A i \in 1 .. n : todo'[i] = todo[i]
      /\ fresh' = FALSE /\ fresh \in BOOLEAN /\ lkSeq \in Nat
      /\ UNCHANGED <<hist, outs, dev, periodic>>
  BY DEF Scheduled, Added, LkInv, LkTypes
<1>2. LkQueues /\ LkNumbers
  BY DEF LkInv
<1>3. step.prefill = fresh /\ ~step.stale /\ (fresh => step.base = hist)
  BY DEF StepOf
<1>4. PICK D : Chain(D)
  BY DEF LkInv, LkChain
<1> HIDE DEF step, n
<1>5. Texted(D)'
  BY <1>1, <1>4 DEF Chain, Texted
<1>6. LkTold(D)'
  <2>1. ASSUME NEW i \in 1 .. Len(outs), NEW p \in lkPlans', p.seq + 1 = outs[i].seq
        PROVE  p \in lkPlans
    <3>1. outs[i].seq = lkSeq - n - Len(outs) + i /\ Len(outs) \in Nat
      BY <1>2 DEF LkNumbers, n, LkInv, LkTypes
    <3>2. p.seq # lkSeq + 1
      BY <1>1, <2>1, <3>1
    <3> QED
      BY <3>2, EarlierPlan
  <2> QED
    BY <1>1, <1>4, <2>1 DEF Chain, LkTold
<1>7. LkTexts(D)'
  <2>0. LkTexts(D)
    BY <1>4 DEF Chain
  <2>1. ASSUME NEW j \in 1 .. n + 1, ~todo'[j].stale, todo'[j].prefill
        PROVE  todo'[j].base = D[Len(outs)]
    <3>1. CASE j = n + 1
      BY <1>1, <1>3, <2>0, <2>1, <3>1 DEF LkTexts
    <3>2. CASE j # n + 1
      <4>1. j \in 1 .. n /\ todo'[j] = todo[j]
        BY <1>1, <3>2
      <4> QED
        BY <2>0, <2>1, <4>1 DEF LkTexts, n
    <3> QED
      BY <3>1, <3>2
  <2>2. AllDecode' => ~fresh /\ AllDecode
    <3> SUFFICES ASSUME AllDecode' PROVE ~fresh /\ AllDecode
      OBVIOUS
    <3>1. \A j \in 1 .. n + 1 : ~todo'[j].stale /\ ~todo'[j].prefill
      BY <1>1 DEF AllDecode
    <3>2. \A j \in 1 .. n : ~todo[j].stale /\ ~todo[j].prefill
      BY <1>1, <3>1
    <3>3. ~fresh
      BY <1>1, <1>3, <3>1
    <3> QED
      BY <3>2, <3>3 DEF AllDecode, n
  <2> QED
    BY <1>1, <2>0, <2>1, <2>2 DEF LkTexts
<1> QED
  BY <1>5, <1>6, <1>7 DEF LkChain, Chain

(* A schedule keeps LkInv.                                                 *)
LEMMA ScheduleKeeps ==
  ASSUME LkInv, NEW kPolicy \in Families, NEW k \in Families, NEW mode \in LkModes, NEW sh \in Shadows,
         Schedule(kPolicy, k, mode, sh)
  PROVE  LkInv'
<1>1. Scheduled(mode, sh, k) /\ LkTypes' /\ LkVerdict'
  BY ScheduleDoes
<1> QED
  BY <1>1, SchedulePlans, ScheduleRows, ScheduleDrafted, ScheduleQueues, ScheduleChain DEF LkInv

-----------------------------------------------------------------------------
(* A step of the worker.                                                   *)
Before == IF Head(todo).prefill THEN Head(todo).base ELSE dev
OutOf(gen) ==
  [seq |-> Head(todo).seq, k |-> Head(todo).k, gen |-> gen, device |-> drafted.kind,
   stale |-> Head(todo).stale]
Worked(gen) ==
  /\ Dropped(todo', todo) /\ Head(todo) = todo[1] /\ todo[1] \in LkSteps
  /\ Added(outs', outs, OutOf(gen)) /\ gen \in Seq(Vocab) \ {<<>>}
  /\ (todo[1].k > 0 => Agrees(gen, todo[1].k)) /\ dev' = Before \o gen
  /\ drafted' = Propose(todo[1], dev')
  /\ UNCHANGED <<lookup, periodic, hist, lkPlans, lkSeq, held, fresh>>

(* A step of the worker keeps the types and gives no verdict.              *)
LEMMA WorkerDoes ==
  ASSUME LkInv, NEW gen \in Texts, WorkerStep(gen)
  PROVE  Worked(gen) /\ LkTypes' /\ LkVerdict'
<1>1. /\ todo # <<>> /\ todo' = Tail(todo) /\ dev' = Before \o gen /\ drafted' = Propose(Head(todo), Before \o gen)
      /\ outs' = Append(outs, OutOf(gen)) /\ verdict' = NoVerdict
      /\ UNCHANGED <<lookup, periodic, hist, lkPlans, lkSeq, held, fresh>>
  BY DEF WorkerStep, Before, OutOf, planner
<1>2. IF Head(todo).k = 0 THEN Len(gen) = 1 ELSE Agrees(gen, Head(todo).k)
  BY DEF WorkerStep
<1>3. LkTypes
  BY DEF LkInv
<1>4. /\ todo \in Seq(LkSteps) /\ outs \in Seq(LkOuts) /\ dev \in Seq(Vocab)
      /\ drafted.kind \in {"lookup", "junk", "neural"}
  BY <1>3 DEF LkTypes
<1>5. todo' \in Seq(LkSteps) /\ Dropped(todo', todo) /\ Head(todo) = todo[1] /\ todo[1] \in LkSteps
  BY <1>1, <1>4, DropFirst
<1>6. todo[1].k \in Lengths /\ todo[1].seq \in Int /\ todo[1].stale \in BOOLEAN /\ todo[1].base \in Seq(Vocab)
  BY <1>5 DEF LkSteps
<1>7. gen \in Seq(Vocab) \ {<<>>}
  <2>1. PICK n \in 1 .. EngineK + 1 : gen \in [1 .. n -> Vocab]
    BY DEF Texts
  <2>2. \E f \in Families : TRUE
    BY LookupAssumption
  <2>3. EngineK \in Nat
    BY <2>2, UpToEngineK
  <2>4. n \in Nat /\ n >= 1
    BY <2>1, <2>3
  <2>5. gen \in Seq(Vocab) /\ Len(gen) = n
    BY <2>1, <2>4
  <2> QED
    BY <2>4, <2>5
<1>8. OutOf(gen) \in LkOuts
  BY <1>4, <1>5, <1>6, <1>7 DEF OutOf, LkOuts
<1>9. outs' \in Seq(LkOuts) /\ Added(outs', outs, OutOf(gen))
  BY <1>1, <1>4, <1>8, AddLast
<1>10. dev' \in Seq(Vocab)
  <2>1. Before \in Seq(Vocab)
    BY <1>4, <1>5, <1>6 DEF Before
  <2> QED
    BY <1>1, <1>7, <2>1, Joined
<1>11. drafted'.kind \in {"lookup", "junk", "neural"}
  BY <1>1 DEF Propose
<1>12. LkTypes'
  <2>1. UNCHANGED <<lookup, hist, lkPlans, lkSeq, held, fresh>>
    BY <1>1
  <2> QED
    BY <1>3, <1>5, <1>9, <1>10, <1>11, <2>1 DEF LkTypes
<1>13. todo[1].k > 0 => Agrees(gen, todo[1].k)
  <2>1. 0 \in Nat /\ (todo[1].k > 0 => todo[1].k # 0)
    OBVIOUS
  <2> QED
    BY <1>2, <1>5, <2>1
<1> QED
  BY <1>1, <1>5, <1>7, <1>9, <1>12, <1>13, NoVerdictHolds DEF Worked

(* The worker takes the first of the scheduled steps.                      *)
LEMMA WorkerRows ==
  ASSUME LkInv, NEW gen, Worked(gen)
  PROVE  LkPlans' /\ LkNumbers' /\ LkRows'
<1> DEFINE n == Len(todo')
           m == Len(outs)
<1>1. /\ n \in Nat /\ Len(todo) = n + 1 /\ \A i \in 1 .. n : todo'[i] = todo[i + 1]
      /\ m \in Nat /\ Len(outs') = m + 1 /\ outs'[m + 1].seq = todo[1].seq /\ \A i \in 1 .. m : outs'[i] = outs[i]
      /\ lkSeq \in Nat /\ UNCHANGED <<lookup, lkPlans, lkSeq, held>>
  <2>1. Dropped(todo', todo) /\ Added(outs', outs, OutOf(gen)) /\ UNCHANGED <<lookup, lkPlans, lkSeq, held>>
    BY DEF Worked
  <2>2. n \in Nat /\ Len(todo) = n + 1 /\ \A i \in 1 .. n : todo'[i] = todo[i + 1]
    BY <2>1 DEF Dropped
  <2>3. m \in Nat /\ Len(outs') = m + 1 /\ outs'[m + 1] = OutOf(gen) /\ \A i \in 1 .. m : outs'[i] = outs[i]
    BY <2>1 DEF Added
  <2>4. OutOf(gen).seq = todo[1].seq /\ lkSeq \in Nat
    <3>1. Head(todo) = todo[1] /\ lkSeq \in Nat
      BY DEF Worked, LkInv, LkTypes
    <3> QED
      BY <3>1 DEF OutOf
  <2> QED
    BY <2>1, <2>2, <2>3, <2>4
<1>2. LkPlans /\ LkNumbers /\ LkRows
  BY DEF LkInv
<1> HIDE DEF n, m
<1>3. LkPlans'
  BY <1>1, <1>2 DEF LkPlans
<1>4. \A i \in 1 .. n : i + 1 \in 1 .. n + 1 /\ i + 1 \in 1 .. Len(todo)
  BY <1>1
<1>5. LkNumbers'
  <2>1. \A i \in 1 .. n + 1 : todo[i].seq = lkSeq - (n + 1) + i
    BY <1>1, <1>2 DEF LkNumbers
  <2>2. \A i \in 1 .. n : todo'[i].seq = lkSeq - n + i
    BY <1>1, <1>4, <2>1
  <2>3. \A i \in 1 .. m : outs[i].seq = lkSeq - (n + 1) - m + i
    BY <1>1, <1>2 DEF LkNumbers, m
  <2>4. todo[1].seq = lkSeq - n
    BY <1>1, <2>1
  <2>5. ASSUME NEW i \in 1 .. m + 1 PROVE outs'[i].seq = lkSeq - n - (m + 1) + i
    <3>1. CASE i = m + 1
      BY <1>1, <2>4, <3>1
    <3>2. CASE i # m + 1
      <4>1. i \in 1 .. m /\ outs'[i] = outs[i]
        BY <1>1, <3>2
      <4>2. outs[i].seq = lkSeq - (n + 1) - m + i
        BY <2>3, <4>1
      <4> QED
        BY <1>1, <4>1, <4>2
    <3> QED
      BY <3>1, <3>2
  <2> QED
    BY <1>1, <2>2, <2>5 DEF LkNumbers, n
<1>6. ASSUME NEW p \in lkPlans, NEW i \in 1 .. n, todo'[i].seq = p.seq PROVE RowIs(p, todo'[i])
  BY <1>1, <1>2, <1>4, <1>6 DEF LkRows
<1>7. \A i \in 1 .. n : KAfter(i)' = KAfter(i + 1)
  BY <1>1, <1>4 DEF KAfter, n
<1>8. ASSUME NEW i \in 1 .. n, KAfter(i)' > 0, todo'[i].row.mode # "neural"
      PROVE  todo'[i].row.k = KAfter(i)'
  BY <1>1, <1>2, <1>4, <1>7, <1>8 DEF LkRows
<1> QED
  BY <1>1, <1>3, <1>5, <1>6, <1>8 DEF LkRows, n

(* What the worker proposes is what the plan of its step makes of its      *)
(* text.                                                                   *)
LEMMA WorkerDrafted ==
  ASSUME LkInv, NEW gen, Worked(gen), LkTypes'
  PROVE  LkDrafted'
<1> DEFINE n == Len(todo')
           step == todo[1]
<1>1. /\ n \in Nat /\ Len(todo) = n + 1 /\ \A i \in 1 .. n : todo'[i] = todo[i + 1]
      /\ step \in LkSteps /\ lkSeq \in Nat /\ drafted' = Propose(step, dev')
      /\ UNCHANGED <<periodic, lkPlans, lkSeq, held>>
  <2>1. /\ Dropped(todo', todo) /\ step \in LkSteps /\ drafted' = Propose(step, dev')
        /\ UNCHANGED <<periodic, lkPlans, lkSeq, held>>
    BY DEF Worked
  <2>2. n \in Nat /\ Len(todo) = n + 1 /\ \A i \in 1 .. n : todo'[i] = todo[i + 1]
    BY <2>1 DEF Dropped
  <2>3. lkSeq \in Nat
    BY DEF LkInv, LkTypes
  <2> QED
    BY <2>1, <2>2, <2>3
<1>2. LkRows /\ LkNumbers
  BY DEF LkInv
<1>3. todo' = <<>> <=> n = 0
  <2>1. todo' \in Seq(LkSteps)
    BY DEF LkTypes
  <2> QED
    BY <2>1
<1> HIDE DEF n
<1>4. NextK' = KAfter(1)
  <2>1. CASE n = 0
    BY <1>1, <1>3, <2>1 DEF NextK, KAfter
  <2>2. CASE n # 0
    <3>1. 1 \in 1 .. n /\ todo'[1] = todo[1 + 1] /\ 1 # Len(todo)
      BY <1>1, <2>2
    <3> QED
      BY <1>3, <2>2, <3>1 DEF NextK, KAfter
  <2> QED
    BY <2>1, <2>2
<1>5. 1 \in 1 .. Len(todo) /\ step.row.k \in Lengths /\ step.row.src \in Int /\ step.row.lhost \in Int
  BY <1>1 DEF LkSteps
<1>6. PICK s : s = dev'
  OBVIOUS
<1>7. PICK k : k = NextK'
  OBVIOUS
<1>8. ASSUME NEW p \in lkPlans, p.seq = lkSeq - n
      PROVE  /\ drafted'.kind = KindOf(p, s)
             /\ drafted'.kind = "lookup" /\ k > 0 => drafted'.ids = IdsOf(periodic, s, p.shadow, k)
  <2>1. step.seq = p.seq
    BY <1>1, <1>2, <1>5, <1>8 DEF LkNumbers
  <2>2. RowIs(p, step)
    BY <1>2, <1>5, <2>1 DEF LkRows
  <2>3. /\ step.row.mode = p.mode /\ step.row.src = p.shadow.src /\ step.row.lhost = p.shadow.lhost
        /\ step.prefill = p.prefill
    BY <2>2 DEF RowIs
  <2>4. drafted' = Propose(step, s)
    BY <1>1, <1>6
  <2>5. CASE p.mode # "neural" /\ Continues(s, Len(s), p.shadow.src, p.shadow.lhost)
    <3>1. drafted' = [kind |-> "lookup", ids |-> KernelIds(s, step.row, step.row.k)]
      BY <2>3, <2>4, <2>5 DEF Propose, DeviceCheck
    <3>2. k > 0 => step.row.k = k
      BY <1>2, <1>4, <1>5, <1>7, <2>3, <2>5 DEF LkRows
    <3>3. step.row.k \in Nat
      BY <1>5, LengthsAre
    <3>4. KernelIds(s, step.row, step.row.k) = IdsOf(periodic, s, step.row, step.row.k)
      BY <1>5, <3>3, KernelIdsAre
    <3>5. IdsOf(periodic, s, step.row, step.row.k) = IdsOf(periodic, s, p.shadow, step.row.k)
      BY <2>3 DEF IdsOf, Reach, Copied
    <3>6. KindOf(p, s) = "lookup"
      BY <2>5 DEF KindOf
    <3> QED
      BY <3>1, <3>2, <3>4, <3>5, <3>6
  <2>6. CASE ~(p.mode # "neural" /\ Continues(s, Len(s), p.shadow.src, p.shadow.lhost))
    <3>1. drafted' = [kind |-> IF Skips(step) THEN "junk" ELSE "neural", ids |-> <<>>]
      BY <2>3, <2>4, <2>6 DEF Propose, DeviceCheck
    <3>2. Skips(step) <=> p.mode = "skip" /\ ~p.prefill
      BY <2>3 DEF Skips
    <3>3. drafted'.kind = IF p.mode = "skip" /\ ~p.prefill THEN "junk" ELSE "neural"
      BY <3>1, <3>2
    <3>4. KindOf(p, s) = IF p.mode = "skip" /\ ~p.prefill THEN "junk" ELSE "neural"
      BY <2>6 DEF KindOf
    <3> QED
      BY <3>3, <3>4
  <2> QED
    BY <2>5, <2>6
<1> QED
  BY <1>1, <1>6, <1>7, <1>8 DEF LkDrafted, n

(* The worker keeps the order of stale and prefill steps.                  *)
LEMMA WorkerQueues ==
  ASSUME LkInv, NEW gen, Worked(gen)
  PROVE  LkQueues'
<1> DEFINE n == Len(todo')
           m == Len(outs)
<1>1. /\ n \in Nat /\ Len(todo) = n + 1 /\ \A i \in 1 .. n : todo'[i] = todo[i + 1]
      /\ m \in Nat /\ Len(outs') = m + 1 /\ outs'[m + 1].stale = todo[1].stale /\ \A i \in 1 .. m : outs'[i] = outs[i]
      /\ UNCHANGED <<held, fresh>>
  <2>1. Dropped(todo', todo) /\ Added(outs', outs, OutOf(gen)) /\ UNCHANGED <<held, fresh>>
    BY DEF Worked
  <2>2. n \in Nat /\ Len(todo) = n + 1 /\ \A i \in 1 .. n : todo'[i] = todo[i + 1]
    BY <2>1 DEF Dropped
  <2>3. m \in Nat /\ Len(outs') = m + 1 /\ outs'[m + 1] = OutOf(gen) /\ \A i \in 1 .. m : outs'[i] = outs[i]
    BY <2>1 DEF Added
  <2>4. OutOf(gen).stale = todo[1].stale
    <3>1. Head(todo) = todo[1]
      BY DEF Worked
    <3> QED
      BY <3>1 DEF OutOf
  <2> QED
    BY <2>1, <2>2, <2>3, <2>4
<1>2. LkQueues
  BY DEF LkInv
<1> HIDE DEF n, m
<1>3. \A i \in 1 .. n : i + 1 \in 1 .. n + 1 /\ i + 1 \in 1 .. Len(todo)
  BY <1>1
<1>4. ASSUME fresh
      PROVE  held = 0 /\ (\A i \in 1 .. n : todo'[i].stale) /\ \A i \in 1 .. m + 1 : outs'[i].stale
  <2>1. \A i \in 1 .. n : todo'[i].stale
    BY <1>1, <1>2, <1>3, <1>4 DEF LkQueues
  <2>2. todo[1].stale
    BY <1>1, <1>2, <1>4 DEF LkQueues
  <2>3. \A i \in 1 .. m : outs'[i].stale
    BY <1>1, <1>2, <1>4 DEF LkQueues, m
  <2>4. \A i \in 1 .. m + 1 : i \in 1 .. m \/ i = m + 1
    BY <1>1
  <2> QED
    BY <1>1, <1>2, <1>4, <2>1, <2>2, <2>3, <2>4 DEF LkQueues
<1>5. ASSUME NEW i \in 1 .. n, NEW j \in 1 .. n, i < j, ~todo'[i].stale
      PROVE  ~todo'[j].stale /\ ~todo'[j].prefill
  <2>1. i + 1 < j + 1
    BY <1>5
  <2> QED
    BY <1>1, <1>2, <1>3, <1>5, <2>1 DEF LkQueues
<1>6. ASSUME ~fresh, NEW i \in 1 .. n, todo'[i].stale
      PROVE  \E j \in 1 .. n : ~todo'[j].stale /\ todo'[j].prefill
  <2>1. i + 1 \in 1 .. Len(todo) /\ todo[i + 1].stale /\ 1 \in 1 .. Len(todo) /\ 1 < i + 1
    BY <1>1, <1>3, <1>6
  <2>2. PICK j \in 1 .. Len(todo) : ~todo[j].stale /\ todo[j].prefill
    BY <1>2, <1>6, <2>1 DEF LkQueues
  <2>3. j # 1
    BY <1>2, <2>1, <2>2 DEF LkQueues
  <2>4. j - 1 \in 1 .. n /\ (j - 1) + 1 = j
    BY <1>1, <2>2, <2>3
  <2>5. todo'[j - 1] = todo[j]
    BY <1>1, <2>4
  <2> QED
    BY <2>2, <2>4, <2>5
<1>7. \A i \in 1 .. n : todo'[i].prefill => todo'[i].k = 0
  BY <1>1, <1>2, <1>3 DEF LkQueues
<1> QED
  BY <1>1, <1>4, <1>5, <1>6, <1>7 DEF LkQueues, n

(* The worker's output extends the text that the host will know; it was    *)
(* verified against the draft that its plan makes of that text.            *)
LEMMA WorkerChain ==
  ASSUME LkInv, NEW gen, Worked(gen)
  PROVE  LkChain'
<1> DEFINE n == Len(todo')
           m == Len(outs)
           step == todo[1]
<1>1. /\ n \in Nat /\ Len(todo) = n + 1 /\ \A i \in 1 .. n : todo'[i] = todo[i + 1]
      /\ m \in Nat /\ Len(outs') = m + 1 /\ outs'[m + 1] = OutOf(gen) /\ \A i \in 1 .. m : outs'[i] = outs[i]
      /\ Head(todo) = step /\ gen \in Seq(Vocab) /\ lkSeq \in Nat /\ hist \in Seq(Vocab) /\ dev' = Before \o gen
      /\ (step.k > 0 => Agrees(gen, step.k))
      /\ UNCHANGED <<periodic, hist, lkPlans, lkSeq, held, fresh>>
  <2>1. Dropped(todo', todo) /\ Added(outs', outs, OutOf(gen))
    BY DEF Worked
  <2>2. n \in Nat /\ Len(todo) = n + 1 /\ \A i \in 1 .. n : todo'[i] = todo[i + 1]
    BY <2>1 DEF Dropped
  <2>3. m \in Nat /\ Len(outs') = m + 1 /\ outs'[m + 1] = OutOf(gen) /\ \A i \in 1 .. m : outs'[i] = outs[i]
    BY <2>1 DEF Added
  <2>4. Head(todo) = step /\ gen \in Seq(Vocab) /\ dev' = Before \o gen /\ (step.k > 0 => Agrees(gen, step.k))
        /\ UNCHANGED <<periodic, hist, lkPlans, lkSeq, held, fresh>>
    BY DEF Worked
  <2>5. lkSeq \in Nat /\ hist \in Seq(Vocab)
    BY DEF LkInv, LkTypes
  <2> QED
    BY <2>2, <2>3, <2>4, <2>5
<1>2. LkQueues /\ LkNumbers /\ LkDrafted
  BY DEF LkInv
<1>3. PICK D : Chain(D)
  BY DEF LkInv, LkChain
<1>4. Texted(D) /\ LkTold(D) /\ LkTexts(D)
  BY <1>3 DEF Chain
<1>5. D \in [0 .. m -> Seq(Vocab)] /\ D[0] = hist /\ D[m] \in Seq(Vocab)
  <2>1. D \in [0 .. m -> Seq(Vocab)] /\ D[0] = hist
    BY <1>4 DEF Texted
  <2> QED
    BY <1>1, <2>1
<1>6. step \in LkSteps /\ step.stale \in BOOLEAN /\ step.prefill \in BOOLEAN
  BY DEF Worked, LkSteps
<1> DEFINE out == OutOf(gen)
<1>7. out.seq = step.seq /\ out.k = step.k /\ out.gen = gen /\ out.device = drafted.kind /\ out.stale = step.stale
  BY <1>1 DEF OutOf
<1>8. Before = IF step.prefill THEN step.base ELSE dev
  BY <1>1 DEF Before
<1> HIDE DEF n, m, step, out
<1>9. \A i \in 1 .. n : i + 1 \in 1 .. n + 1 /\ i + 1 \in 1 .. Len(todo) /\ 1 < i + 1 /\ 1 \in 1 .. Len(todo)
  BY <1>1
<1>10. 1 \in 1 .. Len(todo)
  BY <1>1
<1> DEFINE last == IF step.stale THEN D[m] ELSE D[m] \o gen
<1>11. PICK E : E \in [0 .. m + 1 -> Seq(Vocab)] /\ E[m + 1] = last /\ \A i \in 0 .. m : E[i] = D[i]
  <2> DEFINE F == [i \in 0 .. m + 1 |-> IF i = m + 1 THEN last ELSE D[i]]
  <2>1. last \in Seq(Vocab)
    BY <1>1, <1>5, Joined
  <2>2. \A i \in 0 .. m + 1 : i # m + 1 => i \in 0 .. m
    BY <1>1
  <2>3. \A i \in 0 .. m : D[i] \in Seq(Vocab)
    BY <1>5
  <2>4. m + 1 \in 0 .. m + 1 /\ \A i \in 0 .. m : i \in 0 .. m + 1 /\ i # m + 1
    BY <1>1
  <2> HIDE DEF last
  <2>5. F \in [0 .. m + 1 -> Seq(Vocab)] /\ F[m + 1] = last /\ \A i \in 0 .. m : F[i] = D[i]
    BY <2>1, <2>2, <2>3, <2>4
  <2> HIDE DEF F
  <2> QED
    BY <2>5
<1>12. Texted(E)'
  <2>1. E \in [0 .. Len(outs') -> Seq(Vocab)]
    BY <1>1, <1>11
  <2>2. E[0] = hist'
    BY <1>1, <1>5, <1>11
  <2>3. ASSUME NEW i \in 1 .. m + 1
        PROVE  E[i] = IF outs'[i].stale THEN E[i - 1] ELSE E[i - 1] \o outs'[i].gen
    <3>1. i - 1 \in 0 .. m /\ E[i - 1] = D[i - 1]
      BY <1>1, <1>11
    <3>2. CASE i = m + 1
      <4>1. E[i] = last /\ i - 1 = m /\ outs'[i] = out
        BY <1>1, <1>11, <3>2 DEF out
      <4> QED
        BY <1>7, <3>1, <4>1
    <3>3. CASE i # m + 1
      <4>1. i \in 1 .. m /\ i \in 0 .. m /\ outs'[i] = outs[i]
        BY <1>1, <3>3
      <4>2. D[i] = IF outs[i].stale THEN D[i - 1] ELSE D[i - 1] \o outs[i].gen
        BY <1>4, <4>1 DEF Texted, m
      <4>3. E[i] = D[i]
        BY <1>11, <4>1
      <4> QED
        BY <3>1, <4>1, <4>2, <4>3
    <3> QED
      BY <3>2, <3>3
  <2>4. Len(outs') = m + 1
    BY <1>1
  <2> QED
    BY <2>1, <2>2, <2>3, <2>4 DEF Texted
<1>13. ~step.stale => ~fresh /\ \A j \in 1 .. n : ~todo'[j].stale /\ ~todo'[j].prefill
  <2> SUFFICES ASSUME ~step.stale PROVE ~fresh /\ \A j \in 1 .. n : ~todo'[j].stale /\ ~todo'[j].prefill
    OBVIOUS
  <2>1. ~fresh
    BY <1>2, <1>10 DEF LkQueues, step
  <2>2. ASSUME NEW j \in 1 .. n PROVE ~todo'[j].stale /\ ~todo'[j].prefill
    <3>1. ~todo[j + 1].stale /\ ~todo[j + 1].prefill
      BY <1>2, <1>9 DEF LkQueues, step
    <3> QED
      BY <1>1, <3>1
  <2> QED
    BY <2>1, <2>2
<1>14. ASSUME ~step.stale PROVE Before = D[m]
  <2>1. CASE step.prefill
    <3>1. step.base = D[m]
      BY <1>4, <1>10, <1>14, <2>1 DEF LkTexts, step, m
    <3> QED
      BY <1>8, <2>1, <3>1
  <2>2. CASE ~step.prefill
    <3>1. AllDecode
      <4> SUFFICES ASSUME NEW j \in 1 .. Len(todo) PROVE ~todo[j].stale /\ ~todo[j].prefill
        BY DEF AllDecode
      <4>1. CASE j = 1
        BY <1>14, <2>2, <4>1 DEF step
      <4>2. CASE j # 1
        <5>1. 1 < j
          BY <4>2
        <5> QED
          BY <1>2, <1>10, <1>14, <5>1 DEF LkQueues, step
      <4> QED
        BY <4>1, <4>2
    <3>2. dev = D[m]
      BY <1>4, <1>13, <1>14, <3>1 DEF LkTexts, m
    <3> QED
      BY <1>8, <2>2, <3>2
  <2> QED
    BY <2>1, <2>2
<1>15. LkTold(E)'
  <2> SUFFICES ASSUME NEW i \in 1 .. m + 1, ~outs'[i].stale, outs'[i].k > 0, NEW p \in lkPlans, p.seq + 1 = outs'[i].seq
               PROVE  Told(periodic, p, E[i - 1], outs'[i])
    <3>1. Len(outs') = m + 1 /\ lkPlans' = lkPlans /\ periodic' = periodic
      BY <1>1
    <3> QED
      BY <3>1 DEF LkTold
  <2>1. i - 1 \in 0 .. m /\ E[i - 1] = D[i - 1]
    BY <1>1, <1>11
  <2>2. CASE i # m + 1
    <3>1. i \in 1 .. m /\ outs'[i] = outs[i]
      BY <1>1, <2>2
    <3> QED
      BY <1>4, <2>1, <3>1 DEF LkTold, m
  <2>3. CASE i = m + 1
    <3>1. outs'[i] = out /\ i - 1 = m /\ E[i - 1] = D[m]
      BY <1>1, <2>1, <2>3 DEF out
    <3>2. ~step.stale /\ step.k > 0 /\ p.seq + 1 = step.seq
      BY <1>7, <3>1
    <3>3. ~step.prefill
      <4>1. step.prefill => step.k = 0
        BY <1>2, <1>10 DEF LkQueues, step
      <4> QED
        BY <3>2, <4>1
    <3>4. dev = D[m]
      BY <1>8, <1>14, <3>2, <3>3
    <3>5. p.seq = lkSeq - Len(todo)
      <4>1. step.seq = lkSeq - Len(todo) + 1
        BY <1>2, <1>10 DEF LkNumbers, step
      <4>2. p.seq \in Int
        BY DEF LkInv, LkTypes, LkPlanSet
      <4>3. lkSeq \in Int /\ Len(todo) \in Int
        BY <1>1
      <4> QED
        BY <3>2, <4>1, <4>2, <4>3
    <3>6. NextK = step.k
      <4>1. todo # <<>>
        BY <1>1
      <4> QED
        BY <4>1 DEF NextK, step
    <3>7. /\ drafted.kind = KindOf(p, D[m])
          /\ drafted.kind = "lookup" => drafted.ids = IdsOf(periodic, D[m], p.shadow, step.k)
      BY <1>2, <3>2, <3>4, <3>5, <3>6 DEF LkDrafted
    <3>8. Agreed(drafted.ids, gen, step.k)
      <4>1. Agrees(gen, step.k)
        BY <1>1, <3>2
      <4> QED
        BY <4>1 DEF Agrees, Agreed
    <3>9. Told(periodic, p, D[m], out)
      BY <1>7, <3>7, <3>8 DEF Told
    <3> QED
      BY <3>1, <3>9
  <2> QED
    BY <2>2, <2>3
<1>16. LkTexts(E)'
  <2>1. E[m + 1] = last
    BY <1>11
  <2>2. fresh => E[m + 1] = hist
    <3>1. fresh => step.stale /\ D[m] = hist
      BY <1>2, <1>4, <1>10 DEF LkQueues, LkTexts, step, m
    <3> QED
      BY <2>1, <3>1
  <2>3. ASSUME NEW j \in 1 .. n, ~todo'[j].stale, todo'[j].prefill
        PROVE  todo'[j].base = E[m + 1]
    <3>1. step.stale
      BY <1>13, <2>3
    <3>2. todo[j + 1].base = D[m]
      BY <1>1, <1>4, <1>9, <2>3 DEF LkTexts, m
    <3> QED
      BY <1>1, <2>1, <3>1, <3>2
  <2>4. ASSUME ~fresh, \A j \in 1 .. n : ~todo'[j].stale /\ ~todo'[j].prefill
        PROVE  dev' = E[m + 1]
    <3>1. ~step.stale
      <4> SUFFICES ASSUME step.stale PROVE FALSE
        OBVIOUS
      <4>1. PICK j \in 1 .. Len(todo) : ~todo[j].stale /\ todo[j].prefill
        BY <1>2, <1>10, <2>4 DEF LkQueues, step
      <4>2. j # 1
        BY <4>1 DEF step
      <4>3. j - 1 \in 1 .. n /\ (j - 1) + 1 = j
        BY <1>1, <4>1, <4>2
      <4>4. todo'[j - 1] = todo[j]
        BY <1>1, <4>3
      <4> QED
        BY <2>4, <4>1, <4>3, <4>4
    <3> QED
      BY <1>1, <1>14, <2>1, <3>1
  <2> QED
    <3>1. Len(outs') = m + 1 /\ fresh' = fresh /\ hist' = hist /\ Len(todo') = n
      BY <1>1 DEF n
    <3> QED
      BY <2>2, <2>3, <2>4, <3>1 DEF LkTexts, AllDecode
<1> QED
  BY <1>12, <1>15, <1>16 DEF LkChain, Chain

(* A step of the worker keeps LkInv.                                       *)
LEMMA WorkerKeeps == ASSUME LkInv, NEW gen \in Texts, WorkerStep(gen) PROVE LkInv'
<1>1. Worked(gen) /\ LkTypes' /\ LkVerdict'
  BY WorkerDoes
<1> QED
  BY <1>1, WorkerRows, WorkerDrafted, WorkerQueues, WorkerChain DEF LkInv

-----------------------------------------------------------------------------
(* An output is processed.                                                 *)
Processed ==
  /\ Dropped(outs', outs) /\ Head(outs) = outs[1] /\ outs[1] \in LkOuts
  /\ hist' = IF outs[1].stale THEN hist ELSE hist \o outs[1].gen
  /\ lkPlans' = lkPlans \/ lkPlans' = lkPlans \ Older(outs[1].seq)
  /\ UNCHANGED <<lookup, periodic, lkSeq, held, fresh, todo, dev, drafted>>

(* An update takes the first output into the history.                      *)
LEMMA UpdateDoes == ASSUME LkInv, UpdateFromOutput PROVE Processed /\ LkTypes'
<1>1. /\ outs # <<>> /\ outs' = Tail(outs)
      /\ hist' = IF Head(outs).stale THEN hist ELSE hist \o Head(outs).gen
      /\ UNCHANGED <<lookup, periodic, lkSeq, held, fresh, todo, dev, drafted>>
  BY DEF UpdateFromOutput
<1>2. lkPlans' = lkPlans \/ lkPlans' = lkPlans \ Older(Head(outs).seq)
  BY DEF UpdateFromOutput, ClassifyAndObserve, planner
<1>3. LkTypes
  BY DEF LkInv
<1>4. outs \in Seq(LkOuts) /\ hist \in Seq(Vocab) /\ lkPlans \subseteq LkPlanSet /\ IsFiniteSet(lkPlans)
  BY <1>3 DEF LkTypes
<1>5. outs' \in Seq(LkOuts) /\ Dropped(outs', outs) /\ Head(outs) = outs[1] /\ outs[1] \in LkOuts
  BY <1>1, <1>4, DropFirst
<1>6. hist' \in Seq(Vocab)
  <2>1. outs[1].gen \in Seq(Vocab)
    BY <1>5 DEF LkOuts
  <2>2. hist \o outs[1].gen \in Seq(Vocab)
    BY <1>4, <2>1, Joined
  <2> QED
    BY <1>1, <1>4, <1>5, <2>2
<1>7. lkPlans' \subseteq lkPlans
  BY <1>2
<1>8. lkPlans' \subseteq LkPlanSet /\ IsFiniteSet(lkPlans')
  BY <1>4, <1>7, FS_Subset
<1>9. LkTypes'
  <2>1. UNCHANGED <<lookup, lkSeq, held, fresh, todo, dev, drafted>>
    BY <1>1
  <2> QED
    BY <1>3, <1>5, <1>6, <1>8, <2>1 DEF LkTypes
<1> QED
  BY <1>1, <1>2, <1>5, <1>9 DEF Processed

(* An update drops plans older than its output only.                       *)
LEMMA UpdatePlans == ASSUME LkInv, Processed PROVE LkPlans' /\ LkNumbers' /\ LkRows' /\ LkDrafted' /\ LkQueues'
<1> DEFINE n == Len(todo)
           m == Len(outs')
<1>1. /\ n \in Nat /\ m \in Nat /\ Len(outs) = m + 1 /\ \A i \in 1 .. m : outs'[i] = outs[i + 1]
      /\ lkSeq \in Nat /\ lookup' = lookup /\ lkSeq' = lkSeq
  BY DEF Processed, Dropped, LkInv, LkTypes
<1>2. UNCHANGED <<periodic, held, fresh, todo, dev, drafted>>
  BY DEF Processed
<1>3. LkPlans /\ LkNumbers /\ LkRows /\ LkDrafted /\ LkQueues
  BY DEF LkInv
<1>4. lkPlans' \subseteq lkPlans
  BY DEF Processed
<1> HIDE DEF n, m
<1>5. \A i \in 1 .. m : i + 1 \in 1 .. Len(outs) /\ i \in Int
  BY <1>1
<1>6. LkPlans'
  <2>1. ASSUME NEW p \in lkPlans', NEW s \in p.seq .. lkSeq PROVE \E q \in lkPlans' : q.seq = s
    <3>1. PICK q \in lkPlans : q.seq = s
      BY <1>3, <1>4, <2>1 DEF LkPlans
    <3>2. CASE lkPlans' = lkPlans
      BY <3>1, <3>2
    <3>3. CASE lkPlans' = lkPlans \ Older(outs[1].seq)
      <4>1. p \notin Older(outs[1].seq) /\ p \in lkPlans
        BY <2>1, <3>3
      <4>2. ~(p.seq < outs[1].seq)
        BY <4>1 DEF Older
      <4>3. p.seq \in Nat /\ outs[1].seq \in Int
        BY <4>1 DEF LkInv, LkTypes, LkPlanSet, Processed, LkOuts
      <4>4. s >= p.seq /\ s \in Int
        BY <2>1, <4>3
      <4>5. ~(q.seq < outs[1].seq)
        BY <3>1, <4>2, <4>3, <4>4
      <4>6. q \notin Older(outs[1].seq)
        BY <4>5 DEF Older
      <4> QED
        BY <3>1, <3>3, <4>6
    <3> QED
      BY <3>2, <3>3 DEF Processed
  <2>2. \A p \in lkPlans' : p.seq <= lkSeq
    BY <1>3, <1>4 DEF LkPlans
  <2>3. \A p, q \in lkPlans' : p.seq = q.seq => p = q
    BY <1>3, <1>4 DEF LkPlans
  <2>4. lookup = "off" => lkPlans' = {}
    BY <1>3, <1>4 DEF LkPlans
  <2> QED
    BY <1>1, <2>1, <2>2, <2>3, <2>4 DEF LkPlans
<1>7. LkNumbers'
  <2>1. \A i \in 1 .. n : todo[i].seq = lkSeq - n + i
    BY <1>3 DEF LkNumbers, n
  <2>2. \A i \in 1 .. m + 1 : outs[i].seq = lkSeq - n - (m + 1) + i
    BY <1>1, <1>3 DEF LkNumbers, n
  <2>3. ASSUME NEW i \in 1 .. m PROVE outs'[i].seq = lkSeq - n - m + i
    <3>1. outs[i + 1].seq = lkSeq - n - (m + 1) + (i + 1)
      BY <1>1, <1>5, <2>2
    <3> QED
      BY <1>1, <1>5, <3>1
  <2> QED
    BY <1>1, <1>2, <2>1, <2>3 DEF LkNumbers, n, m
<1>8. LkRows'
  <2>1. \A p \in lkPlans' : \A i \in 1 .. n : todo[i].seq = p.seq => RowIs(p, todo[i])
    BY <1>3, <1>4 DEF LkRows, n
  <2>2. \A i \in 1 .. n : KAfter(i)' = KAfter(i)
    BY <1>2 DEF KAfter
  <2>3. \A i \in 1 .. n : KAfter(i) > 0 /\ todo[i].row.mode # "neural" => todo[i].row.k = KAfter(i)
    BY <1>3 DEF LkRows, n
  <2> QED
    BY <1>2, <2>1, <2>2, <2>3 DEF LkRows, n
<1>9. LkDrafted'
  <2>1. NextK' = NextK
    BY <1>2 DEF NextK
  <2>2. ASSUME NEW p \in lkPlans', p.seq = lkSeq - n
        PROVE  /\ drafted.kind = KindOf(p, dev)
               /\ drafted.kind = "lookup" /\ NextK > 0 => drafted.ids = IdsOf(periodic, dev, p.shadow, NextK)
    BY <1>3, <1>4, <2>2 DEF LkDrafted, n
  <2> QED
    BY <1>1, <1>2, <2>1, <2>2 DEF LkDrafted, n
<1>10. LkQueues'
  <2>1. fresh => \A i \in 1 .. m : outs'[i].stale
    BY <1>1, <1>3, <1>5 DEF LkQueues
  <2> QED
    BY <1>2, <1>3, <2>1 DEF LkQueues, m
<1> QED
  BY <1>6, <1>7, <1>8, <1>9, <1>10

(* After an update the text of the remaining outputs starts one later.     *)
LEMMA UpdateChain == ASSUME LkInv, Processed PROVE LkChain'
<1> DEFINE n == Len(todo)
           m == Len(outs')
           out == outs[1]
<1>1. /\ n \in Nat /\ m \in Nat /\ Len(outs) = m + 1 /\ \A i \in 1 .. m : outs'[i] = outs[i + 1]
      /\ hist' = IF out.stale THEN hist ELSE hist \o out.gen
  BY DEF Processed, Dropped, LkInv, LkTypes
<1>2. UNCHANGED <<periodic, fresh, todo, dev>> /\ lkPlans' \subseteq lkPlans
  BY DEF Processed
<1>3. PICK D : Chain(D)
  BY DEF LkInv, LkChain
<1>4. Texted(D) /\ LkTold(D) /\ LkTexts(D) /\ LkQueues
  BY <1>3 DEF Chain, LkInv
<1> HIDE DEF n, m, out
<1>5. /\ D \in [0 .. m + 1 -> Seq(Vocab)] /\ D[0] = hist
      /\ \A i \in 1 .. m + 1 : D[i] = IF outs[i].stale THEN D[i - 1] ELSE D[i - 1] \o outs[i].gen
  BY <1>1, <1>4 DEF Texted
<1>6. PICK E : E \in [0 .. m -> Seq(Vocab)] /\ \A i \in 0 .. m : E[i] = D[i + 1]
  <2> DEFINE F == [i \in 0 .. m |-> D[i + 1]]
  <2>1. \A i \in 0 .. m : i + 1 \in 0 .. m + 1
    BY <1>1
  <2>2. F \in [0 .. m -> Seq(Vocab)] /\ \A i \in 0 .. m : F[i] = D[i + 1]
    BY <1>5, <2>1
  <2> HIDE DEF F
  <2> QED
    BY <2>2
<1>7. \A i \in 1 .. m : i + 1 \in 1 .. m + 1 /\ i - 1 \in 0 .. m /\ i \in 0 .. m /\ (i - 1) + 1 = i /\ (i + 1) - 1 = i
  BY <1>1
<1>8. Texted(E)'
  <2>1. E[0] = hist'
    <3>1. E[0] = D[1] /\ 1 \in 1 .. m + 1
      <4>1. 0 \in 0 .. m /\ 0 + 1 = 1 /\ 1 \in 1 .. m + 1
        BY <1>1
      <4> QED
        BY <1>6, <4>1
    <3>2. D[1] = IF out.stale THEN D[0] ELSE D[0] \o out.gen
      <4>1. 1 - 1 = 0
        OBVIOUS
      <4> QED
        BY <1>5, <3>1, <4>1 DEF out
    <3> QED
      BY <1>1, <1>5, <3>1, <3>2
  <2>2. ASSUME NEW i \in 1 .. m PROVE E[i] = IF outs'[i].stale THEN E[i - 1] ELSE E[i - 1] \o outs'[i].gen
    <3>1. E[i] = D[i + 1] /\ E[i - 1] = D[i] /\ outs'[i] = outs[i + 1]
      BY <1>1, <1>6, <1>7
    <3>2. D[i + 1] = IF outs[i + 1].stale THEN D[i] ELSE D[i] \o outs[i + 1].gen
      BY <1>5, <1>7
    <3> QED
      BY <3>1, <3>2
  <2> QED
    BY <1>6, <2>1, <2>2 DEF Texted, m
<1>9. LkTold(E)'
  <2> SUFFICES ASSUME NEW i \in 1 .. m, ~outs'[i].stale, outs'[i].k > 0, NEW p \in lkPlans', p.seq + 1 = outs'[i].seq
               PROVE  Told(periodic, p, E[i - 1], outs'[i])
    BY <1>2 DEF LkTold, m
  <2>1. E[i - 1] = D[i] /\ outs'[i] = outs[i + 1] /\ p \in lkPlans /\ (i + 1) - 1 = i /\ i + 1 \in 1 .. Len(outs)
    BY <1>1, <1>2, <1>6, <1>7
  <2> QED
    BY <1>4, <2>1 DEF LkTold
<1>10. LkTexts(E)'
  <2>1. E[m] = D[Len(outs)]
    BY <1>1, <1>6
  <2>2. fresh => E[m] = hist'
    <3>1. 1 \in 1 .. Len(outs)
      BY <1>1
    <3>2. fresh => out.stale
      BY <1>4, <3>1 DEF LkQueues, out
    <3> QED
      BY <1>1, <1>4, <2>1, <3>2 DEF LkTexts
  <2>3. \A j \in 1 .. Len(todo) : ~todo[j].stale /\ todo[j].prefill => todo[j].base = E[m]
    BY <1>4, <2>1 DEF LkTexts
  <2>4. ~fresh /\ AllDecode => dev = E[m]
    BY <1>4, <2>1 DEF LkTexts
  <2>5. AllDecode' = AllDecode
    BY <1>2 DEF AllDecode
  <2> QED
    BY <1>2, <2>2, <2>3, <2>4, <2>5 DEF LkTexts, m
<1> QED
  BY <1>8, <1>9, <1>10 DEF LkChain, Chain

-----------------------------------------------------------------------------
(* The attribution.                                                        *)
Attributed(out) ==
  /\ ~out.stale /\ out.k > 0 /\ Older(out.seq) # {} /\ ClassifyAndObserve(out)
(* An update judges an output that is not stale, that had drafts and whose *)
(* plan is kept.                                                           *)
LEMMA UpdateVerdict ==
  ASSUME LkInv, UpdateFromOutput
  PROVE  verdict' = NoVerdict \/ Attributed(outs[1])
<1>1. outs # <<>> /\ outs \in Seq(LkOuts)
  BY DEF UpdateFromOutput, LkInv, LkTypes
<1>2. Head(outs) = outs[1]
  BY <1>1, DropFirst
<1> QED
  BY <1>2 DEF UpdateFromOutput, Attributed

(* The plan that is looked up is the one before the output's step.         *)
LEMMA LatestPlan ==
  ASSUME LkInv, outs # <<>>, Older(outs[1].seq) # {}
  PROVE  Latest(Older(outs[1].seq)) \in lkPlans /\ Latest(Older(outs[1].seq)).seq + 1 = outs[1].seq
<1> DEFINE S == Older(outs[1].seq)
           t == outs[1].seq
<1>1. /\ Len(outs) \in Nat /\ Len(todo) \in Nat /\ lkSeq \in Nat /\ lkPlans \subseteq LkPlanSet
      /\ 1 \in 1 .. Len(outs)
  <2>1. outs \in Seq(LkOuts)
    BY DEF LkInv, LkTypes
  <2>2. Len(outs) \in Nat /\ Len(outs) # 0
    BY <2>1
  <2> QED
    BY <2>2 DEF LkInv, LkTypes
<1>2. t = lkSeq - Len(todo) - Len(outs) + 1
  BY <1>1 DEF LkInv, LkNumbers
<1>3. t \in Int /\ t <= lkSeq
  BY <1>1, <1>2
<1>4. \A p \in S : p \in lkPlans /\ p.seq < t /\ p.seq \in Nat
  BY <1>1 DEF Older, LkPlanSet
<1> HIDE DEF S, t
<1>5. PICK p \in S : TRUE
  BY DEF S
<1>6. t - 1 \in p.seq .. lkSeq
  BY <1>1, <1>3, <1>4
<1>7. PICK q \in lkPlans : q.seq = t - 1
  BY <1>4, <1>6 DEF LkInv, LkPlans
<1>8. q \in S
  BY <1>3, <1>7 DEF S, t, Older
<1>9. \A x \in S : x.seq <= q.seq
  BY <1>3, <1>4, <1>7
<1>10. Latest(S) \in S /\ \A x \in S : x.seq <= Latest(S).seq
  BY <1>8, <1>9 DEF Latest
<1>11. q.seq <= Latest(S).seq /\ Latest(S).seq < t /\ Latest(S).seq \in Nat /\ Latest(S) \in lkPlans
  BY <1>4, <1>8, <1>10
<1>12. Latest(S).seq + 1 = t
  BY <1>3, <1>7, <1>11
<1> QED
  BY <1>11, <1>12 DEF S, t

(* What the host replays from its plan is what the device verified.        *)
LEMMA AttributedRight ==
  ASSUME LkInv, outs # <<>>, Attributed(outs[1])
  PROVE  LkVerdict'
<1> DEFINE out == outs[1]
           rec == Latest(Older(out.seq))
           sh == rec.shadow
           ok == sh # NoShadow /\ indexed >= Len(hist) /\ ReplayCheck(hist, sh)
           source == Source(rec, ok)
<1>1. ~out.stale /\ out.k > 0 /\ Older(out.seq) # {}
  BY DEF Attributed
<1>2. verdict' = [host |-> source, device |-> out.device, sure |-> indexed >= Len(hist) /\ ~rec.prefill,
                  clean |-> source = "lookup" => Accounted(sh, out.k, out.gen)]
  BY DEF Attributed, ClassifyAndObserve
<1>3. rec \in lkPlans /\ rec.seq + 1 = out.seq
  BY <1>1, LatestPlan
<1>4. /\ rec.mode \in LkModes /\ sh \in Shadows /\ sh.src \in Int /\ sh.lhost \in Int
      /\ out \in LkOuts /\ out.k \in Lengths /\ out.gen \in Seq(Vocab) /\ out.gen # <<>>
      /\ 1 \in 1 .. Len(outs) /\ hist \in Seq(Vocab)
  <2>1. rec \in LkPlanSet /\ outs \in Seq(LkOuts) /\ hist \in Seq(Vocab)
    BY <1>3 DEF LkInv, LkTypes
  <2>2. out \in LkOuts /\ 1 \in 1 .. Len(outs)
    BY <2>1
  <2>3. rec.mode \in LkModes /\ sh \in Shadows
    BY <2>1 DEF LkPlanSet
  <2> QED
    BY <2>1, <2>2, <2>3 DEF LkOuts, Shadows
<1>5. Told(periodic, rec, hist, out)
  <2>1. PICK D : Chain(D)
    BY DEF LkInv, LkChain
  <2>2. LkTold(D) /\ D[0] = hist /\ 1 - 1 = 0
    BY <2>1 DEF Chain, Texted
  <2>3. Told(periodic, rec, D[1 - 1], outs[1])
    BY <1>1, <1>3, <1>4, <2>2 DEF LkTold
  <2> QED
    BY <2>2, <2>3
<1> HIDE DEF out, rec
<1>6. ok => Continues(hist, Len(hist), sh.src, sh.lhost)
  BY DEF ReplayCheck
<1>7. indexed >= Len(hist) /\ Continues(hist, Len(hist), sh.src, sh.lhost) => ok
  <2>1. Continues(hist, Len(hist), sh.src, sh.lhost) => sh # NoShadow
    <3>1. NoShadow.src = -1 /\ ~(0 <= -1)
      BY DEF NoShadow
    <3> QED
      BY <3>1 DEF Continues
  <2> QED
    BY <2>1 DEF ReplayCheck
<1>8. out.device = KindOf(rec, hist)
  BY <1>5 DEF Told
<1> HIDE DEF ok, sh
<1>9. DecodeAttribution'
  <2> SUFFICES ASSUME indexed >= Len(hist), ~rec.prefill PROVE source = out.device
    <3>1. verdict'.sure = (indexed >= Len(hist) /\ ~rec.prefill) /\ verdict'.host = source /\ verdict'.device = out.device
      BY <1>2
    <3> QED
      BY <3>1 DEF DecodeAttribution, AttributionExact
  <2>1. ok <=> Continues(hist, Len(hist), sh.src, sh.lhost)
    BY <1>6, <1>7
  <2>2. CASE rec.mode = "neural"
    BY <1>8, <2>2 DEF Source, KindOf
  <2>3. CASE rec.mode # "neural" /\ ok
    BY <1>8, <2>1, <2>3 DEF Source, KindOf, sh
  <2>4. CASE rec.mode = "skip" /\ ~ok
    BY <1>8, <2>1, <2>4 DEF Source, KindOf, sh
  <2>5. CASE rec.mode = "override" /\ ~ok
    BY <1>8, <2>1, <2>5 DEF Source, KindOf, sh
  <2> QED
    BY <1>4, <2>2, <2>3, <2>4, <2>5 DEF LkModes
<1>10. AccountingClean'
  <2> SUFFICES ASSUME source = "lookup" PROVE Accounted(sh, out.k, out.gen)
    <3>1. verdict'.clean = (source = "lookup" => Accounted(sh, out.k, out.gen))
      BY <1>2
    <3> QED
      BY <3>1 DEF AccountingClean
  <2>1. rec.mode # "neural" /\ ok
    BY DEF Source
  <2>2. Continues(hist, Len(hist), sh.src, sh.lhost)
    BY <1>6, <2>1
  <2>3. KindOf(rec, hist) = "lookup"
    BY <2>1, <2>2 DEF KindOf, sh
  <2>4. Agreed(IdsOf(periodic, hist, sh, out.k), out.gen, out.k)
    BY <1>5, <1>8, <2>3 DEF Told, sh
  <2>5. Matching(sh)
    BY <1>4, <2>2 DEF Matching, Continues
  <2>6. out.k \in Nat /\ EngineK \in Nat /\ out.k <= EngineK
    BY <1>4, LengthsAre
  <2> QED
    BY <1>4, <2>4, <2>5, <2>6, AgreedIsAccounted
<1> QED
  BY <1>9, <1>10 DEF LkVerdict

(* An update keeps LkInv.                                                  *)
LEMMA UpdateKeeps == ASSUME LkInv, UpdateFromOutput PROVE LkInv'
<1>1. Processed /\ LkTypes'
  BY UpdateDoes
<1>2. outs # <<>>
  BY DEF UpdateFromOutput
<1>3. LkVerdict'
  BY <1>2, UpdateVerdict, AttributedRight, NoVerdictHolds
<1> QED
  BY <1>1, <1>3, UpdatePlans, UpdateChain DEF LkInv

-----------------------------------------------------------------------------
(* Preemption and the switch.                                              *)
Marked(r, q) ==
  /\ Len(q) \in Nat /\ Len(r) = Len(q)
  /\ \A i \in 1 .. Len(q) : r[i] = [q[i] EXCEPT !.stale = TRUE]
(* Marking a queue stale changes this mark only.                           *)
LEMMA StaleMarks == ASSUME NEW S, NEW q \in Seq(S) PROVE Marked(Stale(q), q)
<1>1. Len(q) \in Nat /\ DOMAIN q = 1 .. Len(q)
  OBVIOUS
<1> QED
  BY <1>1 DEF Marked, Stale
(* It keeps the types of the steps.                                        *)
LEMMA StaleSteps == ASSUME NEW q \in Seq(LkSteps) PROVE Stale(q) \in Seq(LkSteps)
<1>1. Len(q) \in Nat /\ DOMAIN q = 1 .. Len(q) /\ \A i \in 1 .. Len(q) : q[i] \in LkSteps
  OBVIOUS
<1>2. \A x \in LkSteps : [x EXCEPT !.stale = TRUE] \in LkSteps
  BY DEF LkSteps
<1>3. Stale(q) \in [1 .. Len(q) -> LkSteps]
  BY <1>1, <1>2 DEF Stale
<1> QED
  BY <1>1, <1>3
(* It keeps the types of the outputs.                                      *)
LEMMA StaleOuts == ASSUME NEW q \in Seq(LkOuts) PROVE Stale(q) \in Seq(LkOuts)
<1>1. Len(q) \in Nat /\ DOMAIN q = 1 .. Len(q) /\ \A i \in 1 .. Len(q) : q[i] \in LkOuts
  OBVIOUS
<1>2. \A x \in LkOuts : [x EXCEPT !.stale = TRUE] \in LkOuts
  BY DEF LkOuts
<1>3. Stale(q) \in [1 .. Len(q) -> LkOuts]
  BY <1>1, <1>2 DEF Stale
<1> QED
  BY <1>1, <1>3
SameStep(x, y) ==
  x.stale /\ x.seq = y.seq /\ x.k = y.k /\ x.prefill = y.prefill /\ x.row = y.row
(* A marked step is the step.                                              *)
LEMMA MarkedStep == ASSUME NEW y \in LkSteps PROVE SameStep([y EXCEPT !.stale = TRUE], y)
  BY DEF LkSteps, SameStep
(* A marked output keeps its number.                                       *)
LEMMA MarkedOut ==
  ASSUME NEW y \in LkOuts PROVE [y EXCEPT !.stale = TRUE].stale /\ [y EXCEPT !.stale = TRUE].seq = y.seq
  BY DEF LkOuts

(* A preemption makes all that is under way stale and keeps LkInv.         *)
LEMMA PreemptedKeeps == ASSUME LkInv, Preempted PROVE LkInv'
<1> DEFINE n == Len(todo)
           m == Len(outs)
<1>1. /\ fresh' = TRUE /\ held' = 0 /\ todo' = Stale(todo) /\ outs' = Stale(outs) /\ verdict' = NoVerdict
      /\ UNCHANGED <<lookup, periodic, hist, lkPlans, lkSeq, dev, drafted>>
  BY DEF Preempted, planner
<1>2. LkTypes /\ LkPlans /\ LkNumbers /\ LkRows /\ LkDrafted /\ LkQueues
  BY DEF LkInv
<1>3. todo \in Seq(LkSteps) /\ outs \in Seq(LkOuts) /\ hist \in Seq(Vocab)
  BY <1>2 DEF LkTypes
<1>4. n \in Nat /\ Len(todo') = n /\ \A i \in 1 .. n : SameStep(todo'[i], todo[i])
  <2>1. Marked(todo', todo)
    BY <1>1, <1>3, StaleMarks
  <2>2. \A i \in 1 .. n : todo[i] \in LkSteps
    BY <1>3
  <2>3. n \in Nat /\ Len(todo') = n /\ \A i \in 1 .. n : todo'[i] = [todo[i] EXCEPT !.stale = TRUE]
    BY <2>1 DEF Marked
  <2>4. ASSUME NEW i \in 1 .. n PROVE SameStep(todo'[i], todo[i])
    <3>1. todo[i] \in LkSteps /\ todo'[i] = [todo[i] EXCEPT !.stale = TRUE]
      BY <2>2, <2>3
    <3>2. PICK y : y = todo[i]
      OBVIOUS
    <3>3. y \in LkSteps /\ todo'[i] = [y EXCEPT !.stale = TRUE]
      BY <3>1, <3>2, Zenon
    <3>4. SameStep([y EXCEPT !.stale = TRUE], y)
      BY <3>3, MarkedStep
    <3> QED
      BY <3>2, <3>3, <3>4, Zenon
  <2> QED
    BY <2>3, <2>4
<1>5. m \in Nat /\ Len(outs') = m /\ \A i \in 1 .. m : outs'[i].stale /\ outs'[i].seq = outs[i].seq
  <2>1. Marked(outs', outs)
    BY <1>1, <1>3, StaleMarks
  <2>2. \A i \in 1 .. m : outs[i] \in LkOuts
    BY <1>3
  <2>3. m \in Nat /\ Len(outs') = m /\ \A i \in 1 .. m : outs'[i] = [outs[i] EXCEPT !.stale = TRUE]
    BY <2>1 DEF Marked
  <2>4. ASSUME NEW i \in 1 .. m PROVE outs'[i].stale /\ outs'[i].seq = outs[i].seq
    <3>1. outs[i] \in LkOuts /\ outs'[i] = [outs[i] EXCEPT !.stale = TRUE]
      BY <2>2, <2>3
    <3>2. PICK y : y = outs[i]
      OBVIOUS
    <3>3. y \in LkOuts /\ outs'[i] = [y EXCEPT !.stale = TRUE]
      BY <3>1, <3>2, Zenon
    <3>4. [y EXCEPT !.stale = TRUE].stale /\ [y EXCEPT !.stale = TRUE].seq = y.seq
      BY <3>3, MarkedOut
    <3> QED
      BY <3>2, <3>3, <3>4, Zenon
  <2> QED
    BY <2>3, <2>4
<1>6. todo' \in Seq(LkSteps) /\ outs' \in Seq(LkOuts)
  BY <1>1, <1>3, StaleSteps, StaleOuts
<1> HIDE DEF n, m
<1>7. LkTypes'
  <2>1. fresh' \in BOOLEAN
    BY <1>1, Zenon
  <2>2. held' \in Lengths
    BY <1>1 DEF Lengths
  <2>3. UNCHANGED <<lookup, hist, lkPlans, lkSeq, dev, drafted>>
    BY <1>1
  <2> QED
    BY <1>2, <1>6, <2>1, <2>2, <2>3 DEF LkTypes
<1>8. LkPlans'
  BY <1>1, <1>2 DEF LkPlans
<1>9. LkNumbers'
  <2>1. \A i \in 1 .. n : todo'[i].seq = lkSeq - n + i
    BY <1>2, <1>4 DEF LkNumbers, SameStep, n
  <2>2. \A i \in 1 .. m : outs'[i].seq = lkSeq - n - m + i
    BY <1>2, <1>5 DEF LkNumbers, n, m
  <2> QED
    BY <1>1, <1>4, <1>5, <2>1, <2>2 DEF LkNumbers
<1>10. LkRows'
  <2>1. ASSUME NEW p \in lkPlans, NEW i \in 1 .. n, todo'[i].seq = p.seq PROVE RowIs(p, todo'[i])
    <3>1. SameStep(todo'[i], todo[i])
      BY <1>4
    <3>2. RowIs(p, todo[i])
      BY <1>2, <2>1, <3>1 DEF LkRows, SameStep, n
    <3> QED
      BY <3>1, <3>2 DEF RowIs, SameStep
  <2>2. ASSUME NEW i \in 1 .. n, KAfter(i)' > 0, todo'[i].row.mode # "neural" PROVE todo'[i].row.k = KAfter(i)'
    <3>1. i # n
      BY <1>1, <1>4, <2>2 DEF KAfter
    <3>2. i + 1 \in 1 .. n /\ i # n
      BY <1>4, <3>1
    <3>3. KAfter(i)' = todo'[i + 1].k /\ KAfter(i) = todo[i + 1].k
      BY <1>4, <3>2 DEF KAfter, n
    <3>4. KAfter(i)' = KAfter(i) /\ todo'[i].row = todo[i].row
      BY <1>4, <3>2, <3>3 DEF SameStep
    <3> QED
      BY <1>2, <2>2, <3>4 DEF LkRows, n
  <2> QED
    BY <1>1, <1>4, <2>1, <2>2 DEF LkRows
<1>11. LkDrafted'
  <2>1. NextK' > 0 => NextK' = NextK
    <3>1. CASE n = 0
      <4>1. todo' = <<>>
        BY <1>4, <1>6, <3>1
      <4> QED
        BY <1>1, <4>1 DEF NextK
    <3>2. CASE n # 0
      <4>1. todo' # <<>> /\ todo # <<>>
        BY <1>3, <1>4, <1>6, <3>2 DEF n
      <4>2. 1 \in 1 .. n
        BY <1>4, <3>2
      <4>3. todo'[1].k = todo[1].k
        BY <1>4, <4>2 DEF SameStep
      <4> QED
        BY <4>1, <4>3 DEF NextK
    <3> QED
      BY <3>1, <3>2
  <2>2. UNCHANGED <<lkPlans, lkSeq, drafted, dev, periodic>> /\ Len(todo') = Len(todo)
    BY <1>1, <1>4 DEF n
  <2> QED
    BY <1>2, <2>1, <2>2 DEF LkDrafted
<1>12. LkQueues'
  <2>1. \A i \in 1 .. n : todo'[i].stale /\ (todo'[i].prefill => todo'[i].k = 0)
    BY <1>2, <1>4 DEF SameStep, LkQueues, n
  <2> QED
    BY <1>1, <1>4, <1>5, <2>1 DEF LkQueues
<1>13. LkChain'
  <2>1. PICK E : E \in [0 .. m -> Seq(Vocab)] /\ \A i \in 0 .. m : E[i] = hist
    <3> DEFINE F == [i \in 0 .. m |-> hist]
    <3>1. F \in [0 .. m -> Seq(Vocab)] /\ \A i \in 0 .. m : F[i] = hist
      BY <1>3
    <3> HIDE DEF F
    <3> QED
      BY <3>1
  <2>2. \A i \in 1 .. m : i - 1 \in 0 .. m /\ i \in 0 .. m
    BY <1>5
  <2>3. 0 \in 0 .. m /\ m \in 0 .. m
    BY <1>5
  <2>4. Texted(E)'
    <3>1. \A i \in 1 .. m : E[i] = E[i - 1]
      BY <2>1, <2>2
    <3>2. E[0] = hist' /\ Len(outs') = m
      BY <1>1, <1>5, <2>1, <2>3
    <3>3. \A i \in 1 .. m : outs'[i].stale
      BY <1>5
    <3> QED
      BY <2>1, <3>1, <3>2, <3>3 DEF Texted
  <2>5. LkTold(E)'
    BY <1>5 DEF LkTold
  <2>6. LkTexts(E)'
    <3>1. E[m] = hist' /\ Len(outs') = m /\ Len(todo') = n
      BY <1>1, <1>4, <1>5, <2>1, <2>3
    <3>2. \A j \in 1 .. n : todo'[j].stale
      BY <1>4 DEF SameStep
    <3> QED
      BY <1>1, <3>1, <3>2 DEF LkTexts
  <2> QED
    BY <2>4, <2>5, <2>6 DEF LkChain, Chain
<1> QED
  BY <1>1, <1>7, <1>8, <1>9, <1>10, <1>11, <1>12, <1>13, NoVerdictHolds DEF LkInv

(* Forgetting plans breaks nothing else.                                   *)
LEMMA FewerPlans ==
  ASSUME LkInv, lkPlans' \subseteq lkPlans,
         UNCHANGED <<periodic, hist, lkSeq, held, fresh, todo, outs, dev, drafted>>
  PROVE  LkNumbers' /\ LkRows' /\ LkDrafted' /\ LkQueues' /\ LkChain'
<1>1. LkNumbers /\ LkRows /\ LkDrafted /\ LkQueues
  BY DEF LkInv
<1>2. LkNumbers' /\ LkQueues'
  BY <1>1 DEF LkNumbers, LkQueues
<1>3. LkRows'
  BY <1>1 DEF LkRows, KAfter
<1>4. LkDrafted'
  <2>1. NextK' = NextK
    BY DEF NextK
  <2> QED
    BY <1>1, <2>1 DEF LkDrafted
<1>5. PICK D : Chain(D)
  BY DEF LkInv, LkChain
<1>6. Texted(D)'
  BY <1>5 DEF Chain, Texted
<1>7. LkTold(D)'
  BY <1>5 DEF Chain, LkTold
<1>8. LkTexts(D)'
  <2>1. AllDecode' = AllDecode
    BY DEF AllDecode
  <2> QED
    BY <1>5, <2>1 DEF Chain, LkTexts
<1> QED
  BY <1>2, <1>3, <1>4, <1>6, <1>7, <1>8 DEF LkChain, Chain

(* A switch of the mode keeps LkInv.                                       *)
LEMMA SwitchKeeps ==
  ASSUME LkInv, NEW mode \in {"off", "shadow", "on"}, LookupSwitch(mode)
  PROVE  LkInv'
<1>1. /\ mode # lookup /\ lookup' = mode /\ verdict' = NoVerdict
      /\ UNCHANGED <<periodic, hist, lkSeq, held, fresh, todo, outs, dev, drafted>>
  BY DEF LookupSwitch, flight
<1>2. IF mode = "off" THEN lkPlans' = {} ELSE lkPlans' = lkPlans
  BY DEF LookupSwitch, planner
<1>3. LkTypes /\ LkPlans
  BY DEF LkInv
<1>4. LkTypes'
  <2>1. lkPlans' \subseteq LkPlanSet /\ IsFiniteSet(lkPlans')
    BY <1>2, <1>3, FS_EmptySet DEF LkTypes
  <2>2. UNCHANGED <<hist, lkSeq, held, fresh, todo, outs, dev, drafted>> /\ lookup' \in {"off", "shadow", "on"}
    BY <1>1
  <2> QED
    BY <1>3, <2>1, <2>2 DEF LkTypes
<1>5. LkPlans'
  <2>1. CASE mode = "off"
    BY <1>2, <2>1 DEF LkPlans
  <2>2. CASE mode # "off"
    <3>1. lookup' # "off" /\ lkPlans' = lkPlans /\ lkSeq' = lkSeq
      BY <1>1, <1>2, <2>2
    <3> QED
      BY <1>3, <3>1 DEF LkPlans
  <2> QED
    BY <2>1, <2>2
<1>6. lkPlans' \subseteq lkPlans
  BY <1>2
<1> QED
  BY <1>1, <1>4, <1>5, <1>6, FewerPlans, NoVerdictHolds DEF LkInv

(* Every step keeps LkInv.                                                 *)
LEMMA LookupStepKeeps == LkInv /\ [LookupNext]_lookupVars => LkInv'
<1> SUFFICES ASSUME LkInv, [LookupNext]_lookupVars PROVE LkInv'
  OBVIOUS
<1>1. CASE \E kPolicy \in Families, k \in Families, mode \in {"neural", "override", "skip"} :
             \E sh \in {NoShadow} \cup {[src |-> s, lhost |-> Len(hist)] : s \in Sources} :
               Schedule(kPolicy, k, mode, sh)
  <2>1. PICK kPolicy \in Families, k \in Families, mode \in LkModes,
             sh \in {NoShadow} \cup {[src |-> s, lhost |-> Len(hist)] : s \in Sources} :
               Schedule(kPolicy, k, mode, sh)
    BY <1>1 DEF LkModes
  <2>2. sh \in Shadows
    <3>1. NoShadow \in Shadows
      BY DEF NoShadow, Shadows
    <3>2. Len(hist) \in Int
      BY DEF LkInv, LkTypes
    <3>3. \A s \in Sources : s \in Int
      BY <3>2, LookupAssumption DEF Sources
    <3>4. \A s \in Sources : [src |-> s, lhost |-> Len(hist)] \in Shadows
      BY <3>2, <3>3 DEF Shadows
    <3> QED
      BY <3>1, <3>4
  <2> QED
    BY <2>1, <2>2, ScheduleKeeps
<1>2. CASE \E gen \in Texts : WorkerStep(gen)
  BY <1>2, WorkerKeeps
<1>3. CASE UpdateFromOutput
  BY <1>3, UpdateKeeps
<1>4. CASE Preempted
  BY <1>4, PreemptedKeeps
<1>5. CASE \E m \in {"off", "shadow", "on"} : LookupSwitch(m)
  BY <1>5, SwitchKeeps
<1>6. CASE UNCHANGED lookupVars
  <2>1. UNCHANGED <<lookup, periodic, hist, lkPlans, lkSeq, held, fresh, todo, outs, dev, drafted, verdict>>
    BY <1>6 DEF lookupVars, planner, flight
  <2>2. LkTypes' /\ LkPlans' /\ LkVerdict'
    BY <2>1 DEF LkInv, LkTypes, LkPlans, LkVerdict, DecodeAttribution, AttributionExact, AccountingClean
  <2>3. lkPlans' \subseteq lkPlans
    BY <2>1
  <2> QED
    BY <2>1, <2>2, <2>3, FewerPlans DEF LkInv
<1> QED
  BY <1>1, <1>2, <1>3, <1>4, <1>5, <1>6 DEF LookupNext

(* LkInv holds in every state.                                             *)
LEMMA LkInvHolds == LookupSpec => []LkInv
  BY LkInitially, LookupStepKeeps, PTL DEF LookupSpec

(* The kind of draft that the host books for a processed output, from a    *)
(* plan that it made steps earlier and from its own history, is the kind   *)
(* that the device verified, where the plan was that of a decode step and  *)
(* the index had the device's history.                                     *)
THEOREM AttributionHolds == LookupSpec => []DecodeAttribution
<1>1. LkInv => DecodeAttribution
  BY DEF LkInv, LkVerdict
<1> QED
  BY <1>1, LkInvHolds, PTL

(* The acceptance that the host recomputes from its own history agrees     *)
(* with the tokens the worker returned, whatever was preempted, switched   *)
(* or overlapped in between.                                               *)
THEOREM AccountingHolds == LookupSpec => []AccountingClean
<1>1. LkInv => AccountingClean
  BY DEF LkInv, LkVerdict
<1> QED
  BY <1>1, LkInvHolds, PTL

-----------------------------------------------------------------------------
(* The n-gram index.  Its tables map keys to positions.                    *)
Keys == {Key(g) : g \in Seq(TextVocab)}
Tables == UNION {[K -> Nat] : K \in SUBSET Keys}
IndexSet ==
  [tokens : Seq(TextVocab), hot : [Grams -> Tables], count : Nat, tiers : [Grams -> Seq(Tables)]]

(* The places behind an n-gram with this key.                              *)
Ends(s, n, k) == {e \in n .. Len(s) - 1 : KeyAt(s, n, e) = k}

(* Tables, the oldest first: an entry is such a place, a younger table     *)
(* holds later places, and no place is later than all entries of its key.  *)
Sound(ts, s, n) == \A i \in 1 .. Len(ts) : \A k \in DOMAIN ts[i] : ts[i][k] \in Ends(s, n, k)
Sorted(ts) ==
  \A i, j \in 1 .. Len(ts) : i < j => \A k \in DOMAIN ts[i] \cap DOMAIN ts[j] : ts[i][k] <= ts[j][k]
Covers(t, k, e) == k \in DOMAIN t /\ e <= t[k]
Complete(ts, s, n) ==
  \A e \in n .. Len(s) - 1 : \E i \in 1 .. Len(ts) : Covers(ts[i], KeyAt(s, n, e), e)
Good(ts, s, n) == Sound(ts, s, n) /\ Sorted(ts) /\ Complete(ts, s, n)
Halving(ts) == \A i \in 1 .. Len(ts) - 1 : Size(ts[i]) > 2 * Size(ts[i + 1])

IndexGood(x) ==
  /\ x \in IndexSet
  /\ \A n \in Grams : Good(Append(x.tiers[n], x.hot[n]), x.tokens, n) /\ Halving(x.tiers[n])
IndexInv == text \in Seq(TextVocab) /\ IndexGood(idx)

(* A table.                                                                *)
LEMMA TableIs == ASSUME NEW t \in Tables PROVE DOMAIN t \subseteq Keys /\ t \in [DOMAIN t -> Nat]
<1>1. PICK K \in SUBSET Keys : t \in [K -> Nat]
  BY DEF Tables
<1> QED
  BY <1>1

(* A function from keys to positions is a table.                           *)
LEMMA IsTable == ASSUME NEW K \in SUBSET Keys, NEW t \in [K -> Nat] PROVE t \in Tables
  BY DEF Tables

(* The empty table is one.                                                 *)
LEMMA EmptyTable == Empty \in Tables /\ DOMAIN Empty = {}
<1>1. {} \in SUBSET Keys /\ Empty \in [{} -> Nat]
  BY DEF Empty
<1> QED
  BY <1>1, IsTable DEF Empty

(* The n tokens before place e.                                            *)
LEMMA Stretch ==
  ASSUME NEW s \in Seq(TextVocab), NEW n \in Nat \ {0}, NEW e \in n .. Len(s)
  PROVE  /\ SubSeq(s, e - n + 1, e) \in Seq(TextVocab) /\ Len(SubSeq(s, e - n + 1, e)) = n
         /\ \A i \in 1 .. n : SubSeq(s, e - n + 1, e)[i] = s[e - n + i]
<1>1. e \in Int /\ n \in Int /\ Len(s) \in Nat /\ e - n + 1 \in Int
      /\ \A i \in e - n + 1 .. e : i \in 1 .. Len(s)
  BY LenProperties
<1>2. \A i \in e - n + 1 .. e : s[i] \in TextVocab
  BY <1>1, ElementOfSeq
<1> DEFINE a == e - n + 1
<1>3. /\ a \in Int /\ a <= e /\ e - a + 1 = n
      /\ \A i \in 1 .. n : a + i - 1 = e - n + i
  BY <1>1
<1> HIDE DEF a
<1>4. SubSeq(s, a, e) \in Seq(TextVocab)
  BY <1>1, <1>2, <1>3, SubSeqProperties DEF a
<1>5. Len(SubSeq(s, a, e)) = n
  <2>1. Len(SubSeq(s, a, e)) = IF a <= e THEN e - a + 1 ELSE 0
    BY <1>1, <1>2, <1>3, SubSeqProperties DEF a
  <2> QED
    BY <2>1, <1>3
<1>6. \A i \in 1 .. n : SubSeq(s, a, e)[i] = s[e - n + i]
  <2>1. \A i \in 1 .. e - a + 1 : SubSeq(s, a, e)[i] = s[a + i - 1]
    BY <1>1, <1>2, <1>3, SubSeqProperties DEF a
  <2> QED
    BY <2>1, <1>3
<1> QED
  BY <1>4, <1>5, <1>6 DEF a

(* The key before a place is that of a gram.                               *)
LEMMA KeyIs ==
  ASSUME NEW s \in Seq(TextVocab), NEW n \in Nat \ {0}, NEW e \in n .. Len(s)
  PROVE  KeyAt(s, n, e) \in Keys
  BY Stretch DEF KeyAt, Keys

(* Two stretches of tokens that are the same have one key.                 *)
SameTokens(s, d, r, e, n) == \A i \in 1 .. n : s[d - n + i] = r[e - n + i]
(* Equal stretches of tokens have equal keys, which is why a site is never *)
(* missed by its key.                                                      *)
LEMMA SameStretch ==
  ASSUME NEW s \in Seq(TextVocab), NEW r \in Seq(TextVocab), NEW n \in Nat \ {0},
         NEW d \in n .. Len(s), NEW e \in n .. Len(r),
         SameTokens(s, d, r, e, n)
  PROVE  KeyAt(s, n, d) = KeyAt(r, n, e)
<1> DEFINE u == SubSeq(s, d - n + 1, d)
           v == SubSeq(r, e - n + 1, e)
<1>1. u \in Seq(TextVocab) /\ Len(u) = n /\ \A i \in 1 .. n : u[i] = s[d - n + i]
  BY Stretch
<1>2. v \in Seq(TextVocab) /\ Len(v) = n /\ \A i \in 1 .. n : v[i] = r[e - n + i]
  BY Stretch
<1>3. u = v
  <2> HIDE DEF u, v
  <2> QED
    BY <1>1, <1>2, SeqEqual DEF SameTokens
<1> QED
  BY <1>3 DEF KeyAt

-----------------------------------------------------------------------------
(* Merging.                                                                *)

(* A merged table holds the latest of each key's entries.                  *)
MergeOf(m, ts, j) ==
  /\ m \in Tables
  /\ \A k \in DOMAIN m : \E i \in j .. Len(ts) : k \in DOMAIN ts[i] /\ m[k] = ts[i][k]
  /\ \A i \in j .. Len(ts) : \A k \in DOMAIN ts[i] : Covers(m, k, ts[i][k])
(* Merging the tables from the j-th on is a merge.                         *)
LEMMA MergedIs ==
  ASSUME NEW ts \in Seq(Tables), NEW j \in 1 .. Len(ts)
  PROVE  MergeOf(Merged(ts, j), ts, j)
<1> DEFINE m == Merged(ts, j)
           K == UNION {DOMAIN ts[i] : i \in j .. Len(ts)}
           V(k) == {ts[i][k] : i \in Holding(ts, j, k)}
<1>1. Len(ts) \in Nat /\ j \in Nat /\ \A i \in j .. Len(ts) : i \in 1 .. Len(ts)
  BY LenProperties
<1>2. \A i \in j .. Len(ts) : ts[i] \in Tables
  BY <1>1, ElementOfSeq
<1>3. \A i \in j .. Len(ts) : DOMAIN ts[i] \subseteq Keys /\ ts[i] \in [DOMAIN ts[i] -> Nat]
  BY <1>2, TableIs
<1>4. K \in SUBSET Keys
  BY <1>3
<1>5. ASSUME NEW k \in K
      PROVE  Max(V(k)) \in V(k) /\ (\A y \in V(k) : Max(V(k)) >= y) /\ V(k) \subseteq Nat
  <2>1. PICK i \in j .. Len(ts) : k \in DOMAIN ts[i]
    OBVIOUS
  <2>2. i \in Holding(ts, j, k)
    BY <2>1 DEF Holding
  <2>3. V(k) # {}
    BY <2>2
  <2>4. V(k) \in SUBSET Nat
    <3>1. ASSUME NEW h \in Holding(ts, j, k) PROVE ts[h][k] \in Nat
      <4>1. h \in j .. Len(ts) /\ k \in DOMAIN ts[h]
        BY DEF Holding
      <4> QED
        BY <4>1, <1>3
    <3> QED
      BY <3>1
  <2>5. IsFiniteSet(V(k))
    <3>1. Holding(ts, j, k) \subseteq j .. Len(ts)
      BY DEF Holding
    <3>2. IsFiniteSet(j .. Len(ts))
      BY <1>1, FS_Interval
    <3>3. IsFiniteSet(Holding(ts, j, k))
      BY <3>1, <3>2, FS_Subset
    <3> DEFINE H == Holding(ts, j, k)
               f == [g \in H |-> ts[g][k]]
    <3>4. f \in Surjection(H, V(k))
      BY DEF Surjection
    <3> HIDE DEF f, V
    <3> QED
      BY <3>3, <3>4, FS_Surjection
  <2> HIDE DEF V
  <2> QED
    BY <2>3, <2>4, <2>5, FiniteTops
<1>6. m = [k \in K |-> Max(V(k))]
  BY DEF Merged
<1> HIDE DEF m
<1>7. DOMAIN m = K /\ \A k \in K : m[k] = Max(V(k))
  BY <1>6
<1>8. m \in Tables
  <2>1. \A k \in K : Max(V(k)) \in Nat
    BY <1>5
  <2>2. m \in [K -> Nat]
    BY <1>6, <2>1
  <2> QED
    BY <1>4, <2>2, IsTable
<1>9. ASSUME NEW k \in DOMAIN m
      PROVE  \E i \in j .. Len(ts) : k \in DOMAIN ts[i] /\ m[k] = ts[i][k]
  <2>1. k \in K /\ m[k] \in V(k)
    BY <1>5, <1>7
  <2>2. PICK i \in Holding(ts, j, k) : m[k] = ts[i][k]
    BY <2>1
  <2> QED
    BY <2>2 DEF Holding
<1>10. ASSUME NEW i \in j .. Len(ts), NEW k \in DOMAIN ts[i]
       PROVE  Covers(m, k, ts[i][k])
  <2>1. k \in K
    OBVIOUS
  <2>2. ts[i][k] \in V(k)
    BY DEF Holding
  <2>3. m[k] >= ts[i][k] /\ ts[i][k] \in Nat /\ m[k] \in Nat
    BY <1>5, <1>7, <2>1, <2>2
  <2> QED
    BY <1>7, <2>1, <2>3 DEF Covers
<1> QED
  BY <1>8, <1>9, <1>10 DEF m, MergeOf

(* Where the tiers settle.                                                 *)
SettledAt(r, ts, j) ==
  /\ j \in 1 .. Len(ts) /\ j \in Stops(ts) /\ Len(ts) \in Nat
  /\ r \in Seq(Tables) /\ Len(r) = j
  /\ \A i \in 1 .. j - 1 : r[i] = ts[i]
  /\ r[j] = Merged(ts, j)
(* The tiers settle at some place.                                         *)
LEMMA SettledIs ==
  ASSUME NEW ts \in Seq(Tables), ts # <<>>
  PROVE  \E j \in 1 .. Len(ts) : SettledAt(Settled(ts), ts, j)
<1>1. Len(ts) \in Nat \ {0}
  OBVIOUS
<1>2. Stops(ts) \subseteq 1 .. Len(ts) /\ 1 \in Stops(ts)
  <2>1. 1 \in 1 .. Len(ts) /\ ~(1 > 1)
    BY <1>1
  <2> QED
    BY <2>1, Zenon DEF Stops
<1>3. IsFiniteSet(Stops(ts)) /\ Stops(ts) \in SUBSET Nat /\ Stops(ts) # {}
  <2>1. IsFiniteSet(1 .. Len(ts))
    BY <1>1, FS_Interval
  <2>2. 1 .. Len(ts) \subseteq Nat
    OBVIOUS
  <2> QED
    BY <1>2, <2>1, <2>2, FS_Subset
<1> DEFINE j == Max(Stops(ts))
<1>4. j \in Stops(ts)
  BY <1>3, FiniteTops
<1>5. j \in 1 .. Len(ts)
  BY <1>2, <1>4
<1>6. Settled(ts) = Append(SubSeq(ts, 1, j - 1), Merged(ts, j))
  BY DEF Settled
<1> HIDE DEF j
<1>7. Merged(ts, j) \in Tables
  BY <1>5, MergedIs DEF MergeOf
<1> DEFINE f == SubSeq(ts, 1, j - 1)
<1>8. f \in Seq(Tables) /\ Len(f) = j - 1 /\ \A i \in 1 .. j - 1 : f[i] = ts[i]
  <2>1. 1 \in Int /\ j - 1 \in Int /\ \A i \in 1 .. j - 1 : i \in 1 .. Len(ts) /\ 1 + i - 1 = i
    BY <1>1, <1>5
  <2>2. \A i \in 1 .. j - 1 : ts[i] \in Tables
    BY <2>1, ElementOfSeq
  <2>3. f \in Seq(Tables)
    BY <2>1, <2>2, SubSeqProperties
  <2>4. Len(f) = IF 1 <= j - 1 THEN (j - 1) - 1 + 1 ELSE 0
    BY <2>1, <2>2, SubSeqProperties
  <2>5. \A i \in 1 .. (j - 1) - 1 + 1 : f[i] = ts[1 + i - 1]
    BY <2>1, <2>2, SubSeqProperties
  <2>6. (j - 1) - 1 + 1 = j - 1 /\ (~(1 <= j - 1) => j - 1 = 0)
    BY <1>5
  <2> HIDE DEF f
  <2>7. Len(f) = j - 1
    BY <2>4, <2>6, Zenon
  <2>8. \A i \in 1 .. j - 1 : f[i] = ts[i]
    BY <2>1, <2>5, <2>6
  <2> QED
    BY <2>3, <2>7, <2>8
<1> HIDE DEF f
<1>9. PICK r : r = Append(f, Merged(ts, j))
  OBVIOUS
<1>10. r \in Seq(Tables) /\ Added(r, f, Merged(ts, j))
  BY <1>7, <1>8, <1>9, AddLast
<1>11. Len(r) = j /\ r[j] = Merged(ts, j) /\ \A i \in 1 .. j - 1 : r[i] = ts[i]
  <2>1. Len(f) + 1 = j
    BY <1>5, <1>8
  <2> QED
    BY <2>1, <1>8, <1>10 DEF Added
<1>12. SettledAt(r, ts, j)
  BY <1>1, <1>4, <1>5, <1>10, <1>11 DEF SettledAt
<1> QED
  BY <1>5, <1>6, <1>9, <1>12 DEF f

(* Settling loses nothing and mixes nothing up.                            *)
LEMMA SettledGood ==
  ASSUME NEW ts \in Seq(Tables), ts # <<>>, NEW s \in Seq(TextVocab), NEW n \in Nat, Good(ts, s, n)
  PROVE  Settled(ts) \in Seq(Tables) /\ Good(Settled(ts), s, n)
<1>1. PICK r : r = Settled(ts)
  OBVIOUS
<1>2. PICK j \in 1 .. Len(ts) : SettledAt(r, ts, j)
  BY <1>1, SettledIs
<1>3. /\ Len(ts) \in Nat /\ j \in Nat \ {0} /\ r \in Seq(Tables) /\ Len(r) = j
      /\ \A i \in 1 .. j - 1 : r[i] = ts[i] /\ i \in 1 .. Len(ts)
      /\ r[j] = Merged(ts, j)
  BY <1>2 DEF SettledAt
<1> DEFINE m == Merged(ts, j)
<1>4. /\ \A k \in DOMAIN m : \E i \in j .. Len(ts) : k \in DOMAIN ts[i] /\ m[k] = ts[i][k]
      /\ \A i \in j .. Len(ts) : \A k \in DOMAIN ts[i] : Covers(m, k, ts[i][k])
      /\ m \in Tables
  BY MergedIs DEF MergeOf
<1>5. Sound(ts, s, n) /\ Sorted(ts) /\ Complete(ts, s, n)
  BY DEF Good
<1> HIDE DEF m
<1>6. \A i \in 1 .. Len(r) : i \in 1 .. j - 1 \/ i = j
  BY <1>3
<1>7. Sound(r, s, n)
  <2> SUFFICES ASSUME NEW i \in 1 .. Len(r), NEW k \in DOMAIN r[i] PROVE r[i][k] \in Ends(s, n, k)
    BY DEF Sound
  <2>1. CASE i \in 1 .. j - 1
    BY <1>3, <1>5, <2>1 DEF Sound
  <2>2. CASE i = j
    <3>1. k \in DOMAIN m /\ r[i][k] = m[k]
      BY <1>3, <2>2 DEF m
    <3>2. PICK h \in j .. Len(ts) : k \in DOMAIN ts[h] /\ m[k] = ts[h][k]
      BY <1>4, <3>1
    <3>3. h \in 1 .. Len(ts)
      BY <1>3
    <3> QED
      BY <1>5, <3>1, <3>2, <3>3 DEF Sound
  <2> QED
    BY <1>6, <2>1, <2>2
<1>8. Sorted(r)
  <2> SUFFICES ASSUME NEW i \in 1 .. Len(r), NEW h \in 1 .. Len(r), i < h,
                      NEW k \in DOMAIN r[i] \cap DOMAIN r[h]
               PROVE  r[i][k] <= r[h][k]
    BY DEF Sorted
  <2>1. i \in 1 .. j - 1 /\ r[i] = ts[i] /\ i \in 1 .. Len(ts)
    BY <1>3
  <2>2. CASE h \in 1 .. j - 1
    BY <1>3, <1>5, <2>1, <2>2 DEF Sorted
  <2>3. CASE h = j
    <3>1. k \in DOMAIN m /\ r[h][k] = m[k] /\ k \in DOMAIN ts[i]
      BY <1>3, <2>1, <2>3 DEF m
    <3>2. PICK g \in j .. Len(ts) : k \in DOMAIN ts[g] /\ m[k] = ts[g][k]
      BY <1>4, <3>1
    <3>3. g \in 1 .. Len(ts) /\ i < g
      BY <1>3, <2>1
    <3>4. ts[i][k] <= ts[g][k]
      BY <1>5, <2>1, <3>1, <3>2, <3>3 DEF Sorted
    <3> QED
      BY <2>1, <3>1, <3>2, <3>4
  <2> QED
    BY <1>6, <2>2, <2>3
<1>9. Complete(r, s, n)
  <2> SUFFICES ASSUME NEW e \in n .. Len(s) - 1
               PROVE  \E i \in 1 .. Len(r) : Covers(r[i], KeyAt(s, n, e), e)
    BY DEF Complete
  <2> DEFINE k == KeyAt(s, n, e)
  <2>1. PICK i \in 1 .. Len(ts) : Covers(ts[i], k, e)
    BY <1>5 DEF Complete
  <2> HIDE DEF k
  <2>2. CASE i \in 1 .. j - 1
    <3>1. i \in 1 .. Len(r) /\ r[i] = ts[i]
      BY <1>3, <2>2
    <3> QED
      BY <2>1, <3>1 DEF k
  <2>3. CASE i \in j .. Len(ts)
    <3>1. k \in DOMAIN ts[i] /\ e <= ts[i][k]
      BY <2>1 DEF Covers
    <3>2. k \in DOMAIN m /\ ts[i][k] <= m[k]
      BY <1>4, <2>3, <3>1 DEF Covers
    <3>3. m[k] \in Nat /\ ts[i][k] \in Nat /\ e \in Int
      <4>1. m[k] \in Nat
        BY <1>4, <3>2, TableIs
      <4>2. ts[i] \in Tables
        BY <2>1, ElementOfSeq
      <4>3. ts[i][k] \in Nat
        BY <3>1, <4>2, TableIs
      <4>4. e \in Int
        BY LenProperties
      <4> QED
        BY <4>1, <4>3, <4>4
    <3>4. e <= m[k]
      BY <3>1, <3>2, <3>3
    <3>5. j \in 1 .. Len(r) /\ r[j] = m
      BY <1>3 DEF m
    <3> QED
      BY <3>2, <3>4, <3>5 DEF Covers, k
  <2>4. i \in 1 .. j - 1 \/ i \in j .. Len(ts)
    BY <1>3
  <2> QED
    BY <2>2, <2>3, <2>4
<1> QED
  BY <1>1, <1>3, <1>7, <1>8, <1>9 DEF Good

(* The sizes still halve.                                                  *)
LEMMA SettledHalves ==
  ASSUME NEW ts \in Seq(Tables), NEW t \in Tables, Halving(ts)
  PROVE  Halving(PushTier(ts, t))
<1>1. PICK q : q = Append(ts, t)
  OBVIOUS
<1>2. q \in Seq(Tables) /\ Added(q, ts, t)
  BY <1>1, AddLast
<1>3. q # <<>> /\ PushTier(ts, t) = Settled(q)
  BY <1>1 DEF PushTier
<1>4. PICK r : r = Settled(q)
  OBVIOUS
<1>5. PICK j \in 1 .. Len(q) : SettledAt(r, q, j)
  BY <1>2, <1>3, <1>4, SettledIs
<1>6. /\ Len(ts) \in Nat /\ Len(q) = Len(ts) + 1 /\ j \in Nat \ {0} /\ Len(r) = j
      /\ \A i \in 1 .. j - 1 : r[i] = q[i] /\ i \in 1 .. Len(ts) /\ q[i] = ts[i]
      /\ r[j] = Merged(q, j) /\ j \in Stops(q)
  BY <1>2, <1>5 DEF SettledAt, Added
<1>7. ASSUME NEW i \in 1 .. Len(r) - 1 PROVE Size(r[i]) > 2 * Size(r[i + 1])
  <2>1. CASE i + 1 = j
    <3>1. i = j - 1 /\ i \in 1 .. j - 1 /\ j > 1
      BY <1>6, <2>1
    <3>2. Size(q[j - 1]) > 2 * Size(Merged(q, j))
      BY <1>6, <3>1 DEF Stops
    <3> QED
      BY <1>6, <2>1, <3>1, <3>2
  <2>2. CASE i + 1 # j
    <3>1. i \in 1 .. j - 1 /\ i + 1 \in 1 .. j - 1 /\ i \in 1 .. Len(ts) - 1
      BY <1>6, <2>2
    <3>2. r[i] = ts[i] /\ r[i + 1] = ts[i + 1]
      BY <1>6, <3>1
    <3> QED
      BY <3>1, <3>2 DEF Halving
  <2> QED
    BY <2>1, <2>2
<1> QED
  BY <1>3, <1>4, <1>7 DEF Halving

-----------------------------------------------------------------------------
(* The youngest table, the hot one, changes.                               *)

(* Tokens are added behind the old ones.                                   *)
Longer(r, s) ==
  /\ s \in Seq(TextVocab) /\ r \in Seq(TextVocab) /\ Len(s) <= Len(r)
  /\ \A i \in 1 .. Len(s) : r[i] = s[i]
(* Tokens added later do not change the key of an earlier place.           *)
LEMMA EndsKept ==
  ASSUME NEW s, NEW r, Longer(r, s), NEW n \in Nat \ {0}, NEW e \in n .. Len(s)
  PROVE  KeyAt(r, n, e) = KeyAt(s, n, e)
<1>1. s \in Seq(TextVocab) /\ r \in Seq(TextVocab) /\ Len(s) \in Nat /\ Len(r) \in Nat /\ e \in n .. Len(r)
  BY LenProperties DEF Longer
<1>2. SameTokens(r, e, s, e, n)
  <2>1. \A i \in 1 .. n : e - n + i \in 1 .. Len(s)
    BY <1>1
  <2> QED
    BY <2>1 DEF Longer, SameTokens
<1> QED
  BY <1>1, <1>2, SameStretch

(* A table h that takes up the places of the new tokens, and keeps the     *)
(* other entries.                                                          *)
TakesUp(h, old, r, s, n) ==
  /\ h \in Tables
  /\ \A k \in DOMAIN old : k \in DOMAIN h
  /\ \A k \in DOMAIN h : (k \in DOMAIN old /\ h[k] = old[k]) \/ (h[k] \in Ends(r, n, k) /\ h[k] >= Len(s))
  /\ \A e \in n .. Len(r) - 1 : e >= Len(s) => Covers(h, KeyAt(r, n, e), e)

(* With such a table in the place of the youngest, the tables are good for *)
(* the longer text.                                                        *)
LEMMA NewTable ==
  ASSUME NEW ts \in Seq(Tables), NEW old \in Tables, NEW h, NEW s, NEW r, Longer(r, s),
         NEW n \in Nat \ {0}, Good(Append(ts, old), s, n), TakesUp(h, old, r, s, n)
  PROVE  Append(ts, h) \in Seq(Tables) /\ Good(Append(ts, h), r, n)
<1>1. PICK q, p : q = Append(ts, old) /\ p = Append(ts, h)
  OBVIOUS
<1> DEFINE l == Len(ts) + 1
<1>2. /\ q \in Seq(Tables) /\ Added(q, ts, old) /\ p \in Seq(Tables) /\ Added(p, ts, h)
  BY <1>1, AddLast DEF TakesUp
<1>3. /\ Len(ts) \in Nat /\ Len(q) = l /\ Len(p) = l /\ q[l] = old /\ p[l] = h
      /\ \A i \in 1 .. Len(ts) : p[i] = q[i]
      /\ \A i \in 1 .. l : i \in 1 .. Len(ts) \/ i = l
      /\ \A i \in 1 .. Len(ts) : i \in 1 .. l
      /\ l \in 1 .. l
  BY <1>2 DEF Added
<1>4. Sound(q, s, n) /\ Sorted(q) /\ Complete(q, s, n)
  BY <1>1 DEF Good
<1>5. Len(s) \in Nat /\ Len(r) \in Nat /\ Len(s) <= Len(r) /\ n \in Nat
  BY LenProperties DEF Longer
<1> HIDE DEF l
<1>6. ASSUME NEW k, NEW e \in Ends(s, n, k) PROVE e \in Ends(r, n, k) /\ e < Len(s) /\ e \in Nat
  <2>1. e \in n .. Len(s) - 1 /\ KeyAt(s, n, e) = k
    BY DEF Ends
  <2>2. e \in n .. Len(s) /\ e \in n .. Len(r) - 1 /\ e < Len(s) /\ e \in Nat
    BY <1>5, <2>1
  <2>3. KeyAt(r, n, e) = k
    BY <2>1, <2>2, EndsKept
  <2> QED
    BY <2>2, <2>3 DEF Ends
<1>7. ASSUME NEW i \in 1 .. l, NEW k \in DOMAIN q[i]
      PROVE  q[i][k] \in Ends(r, n, k) /\ q[i][k] < Len(s) /\ q[i][k] \in Nat
  <2>1. q[i][k] \in Ends(s, n, k)
    BY <1>3, <1>4 DEF Sound
  <2> QED
    BY <1>6, <2>1
<1>8. ASSUME NEW k \in DOMAIN h
      PROVE  (k \in DOMAIN old /\ h[k] = old[k]) \/ (h[k] \in Ends(r, n, k) /\ h[k] >= Len(s) /\ h[k] \in Nat)
  <2>1. h[k] \in Nat
    BY TableIs DEF TakesUp
  <2> QED
    BY <2>1 DEF TakesUp
<1>9. Sound(p, r, n)
  <2> SUFFICES ASSUME NEW i \in 1 .. l, NEW k \in DOMAIN p[i] PROVE p[i][k] \in Ends(r, n, k)
    BY <1>3 DEF Sound
  <2>1. CASE i \in 1 .. Len(ts)
    BY <1>3, <1>7, <2>1
  <2>2. CASE i = l
    <3>1. k \in DOMAIN h /\ p[i][k] = h[k]
      BY <1>3, <2>2
    <3>2. k \in DOMAIN old => old[k] \in Ends(r, n, k)
      BY <1>3, <1>7
    <3> QED
      BY <1>8, <3>1, <3>2
  <2> QED
    BY <1>3, <2>1, <2>2
<1>10. Sorted(p)
  <2> SUFFICES ASSUME NEW i \in 1 .. l, NEW j \in 1 .. l, i < j, NEW k \in DOMAIN p[i] \cap DOMAIN p[j]
               PROVE  p[i][k] <= p[j][k]
    BY <1>3 DEF Sorted
  <2>1. i \in 1 .. Len(ts) /\ p[i] = q[i]
    <3>1. l \in Nat /\ \A a, b \in 1 .. l : a < b => a # l
      BY <1>3
    <3>2. i # l
      BY <3>1
    <3> QED
      BY <1>3, <3>2
  <2>2. CASE j \in 1 .. Len(ts)
    BY <1>3, <1>4, <2>1, <2>2 DEF Sorted
  <2>3. CASE j = l
    <3>1. k \in DOMAIN h /\ p[j][k] = h[k] /\ k \in DOMAIN q[i]
      BY <1>3, <2>1, <2>3
    <3>2. q[i][k] < Len(s) /\ q[i][k] \in Nat
      BY <1>7, <3>1
    <3>3. CASE k \in DOMAIN old /\ h[k] = old[k]
      <4>1. q[i][k] <= q[j][k]
        BY <1>3, <1>4, <2>1, <2>3, <3>1, <3>3 DEF Sorted
      <4> QED
        BY <1>3, <2>1, <2>3, <3>1, <3>3, <4>1
    <3>4. CASE h[k] >= Len(s) /\ h[k] \in Nat
      <4>1. q[i][k] <= h[k]
        BY <1>5, <3>2, <3>4
      <4> QED
        BY <2>1, <3>1, <4>1
    <3> QED
      BY <1>8, <3>1, <3>3, <3>4
  <2> QED
    BY <1>3, <2>2, <2>3
<1>11. Complete(p, r, n)
  <2> SUFFICES ASSUME NEW e \in n .. Len(r) - 1
               PROVE  \E i \in 1 .. l : Covers(p[i], KeyAt(r, n, e), e)
    BY <1>3 DEF Complete
  <2> DEFINE k == KeyAt(r, n, e)
  <2>1. e \in Nat
    BY <1>5
  <2>2. CASE e >= Len(s)
    <3>1. Covers(h, k, e)
      BY <2>2 DEF TakesUp
    <3> QED
      BY <1>3, <3>1
  <2>3. CASE e < Len(s)
    <3>1. e \in n .. Len(s) - 1 /\ e \in n .. Len(s)
      BY <1>5, <2>1, <2>3
    <3>2. k = KeyAt(s, n, e)
      BY <3>1, EndsKept
    <3>3. PICK i \in 1 .. l : Covers(q[i], k, e)
      BY <1>3, <1>4, <3>1, <3>2 DEF Complete
    <3> HIDE DEF k
    <3>4. CASE i \in 1 .. Len(ts)
      BY <1>3, <3>3, <3>4 DEF k
    <3>5. CASE i = l
      <4>1. k \in DOMAIN old /\ e <= old[k]
        BY <1>3, <3>3, <3>5 DEF Covers
      <4>2. k \in DOMAIN h
        BY <4>1 DEF TakesUp
      <4>3. e <= h[k]
        <5>1. CASE h[k] = old[k]
          BY <4>1, <5>1
        <5>2. CASE h[k] >= Len(s) /\ h[k] \in Nat
          BY <1>5, <2>1, <2>3, <5>2
        <5> QED
          BY <1>8, <4>2, <5>1, <5>2
      <4> QED
        BY <1>3, <4>2, <4>3 DEF Covers, k
    <3> QED
      BY <1>3, <3>4, <3>5
  <2> QED
    BY <1>5, <2>1, <2>2, <2>3
<1> QED
  BY <1>1, <1>2, <1>9, <1>10, <1>11 DEF Good

(* An empty hot table may be put behind any tables.                        *)
LEMMA EmptyBehind ==
  ASSUME NEW ts \in Seq(Tables), NEW s \in Seq(TextVocab), NEW n \in Nat, Good(ts, s, n)
  PROVE  Good(Append(ts, Empty), s, n)
<1>1. PICK p : p = Append(ts, Empty)
  OBVIOUS
<1>2. DOMAIN Empty = {} /\ Empty \in Tables
  BY EmptyTable
<1>3. Added(p, ts, Empty)
  BY <1>1, <1>2, AddLast
<1> DEFINE l == Len(ts) + 1
<1>4. /\ Len(ts) \in Nat /\ Len(p) = l /\ p[l] = Empty
      /\ \A i \in 1 .. Len(ts) : p[i] = ts[i] /\ i \in 1 .. l
      /\ \A i \in 1 .. l : i \in 1 .. Len(ts) \/ i = l
  BY <1>3 DEF Added
<1>5. Sound(ts, s, n) /\ Sorted(ts) /\ Complete(ts, s, n)
  BY DEF Good
<1> HIDE DEF l
<1>6. Sound(p, s, n)
  <2> SUFFICES ASSUME NEW i \in 1 .. l, NEW k \in DOMAIN p[i] PROVE p[i][k] \in Ends(s, n, k)
    BY <1>4 DEF Sound
  <2>1. i \in 1 .. Len(ts) /\ p[i] = ts[i]
    BY <1>2, <1>4
  <2> QED
    BY <1>5, <2>1 DEF Sound
<1>7. Sorted(p)
  <2> SUFFICES ASSUME NEW i \in 1 .. l, NEW j \in 1 .. l, i < j, NEW k \in DOMAIN p[i] \cap DOMAIN p[j]
               PROVE  p[i][k] <= p[j][k]
    BY <1>4 DEF Sorted
  <2>1. i \in 1 .. Len(ts) /\ p[i] = ts[i] /\ j \in 1 .. Len(ts) /\ p[j] = ts[j]
    BY <1>2, <1>4
  <2> QED
    BY <1>5, <2>1 DEF Sorted
<1>8. Complete(p, s, n)
  BY <1>4, <1>5 DEF Complete
<1> QED
  BY <1>1, <1>6, <1>7, <1>8 DEF Good

-----------------------------------------------------------------------------
(* The operations of the index.                                            *)

(* A record is in IndexSet when its fields are.                            *)
LEMMA IndexFields ==
  ASSUME NEW x \in IndexSet
  PROVE  /\ x.tokens \in Seq(TextVocab) /\ x.hot \in [Grams -> Tables] /\ x.count \in Nat
         /\ x.tiers \in [Grams -> Seq(Tables)]
  BY DEF IndexSet

(* Pushing a table as a tier keeps the tables good, with an empty hot      *)
(* table behind.                                                           *)
LEMMA Pushes ==
  ASSUME NEW ts \in Seq(Tables), NEW t \in Tables, NEW s \in Seq(TextVocab), NEW n \in Nat,
         Good(Append(ts, t), s, n), Halving(ts)
  PROVE  /\ PushTier(ts, t) \in Seq(Tables)
         /\ Good(PushTier(ts, t), s, n) /\ Good(Append(PushTier(ts, t), Empty), s, n)
         /\ Halving(PushTier(ts, t))
<1>1. PICK q : q = Append(ts, t)
  OBVIOUS
<1>2. q \in Seq(Tables) /\ q # <<>> /\ PushTier(ts, t) = Settled(q)
  BY <1>1, AddLast DEF PushTier
<1>3. PushTier(ts, t) \in Seq(Tables) /\ Good(PushTier(ts, t), s, n)
  BY <1>1, <1>2, SettledGood
<1> QED
  BY <1>3, EmptyBehind, SettledHalves

(* An index whose fields are replaced.                                     *)
Names == {"tokens", "hot", "count", "tiers"}
Has(y, p, h, c, q) ==
  y = [f \in Names |-> y[f]] /\ y.tokens = p /\ y.hot = h /\ y.count = c /\ y.tiers = q
(* Fields of the right types make an index.                                *)
LEMMA HasAll ==
  ASSUME NEW y, NEW p \in Seq(TextVocab), NEW h \in [Grams -> Tables], NEW c \in Nat,
         NEW q \in [Grams -> Seq(Tables)], Has(y, p, h, c, q)
  PROVE  y \in IndexSet
  BY DEF IndexSet, Names, Has
(* An index is a record of these fields.                                   *)
LEMMA Fielded == ASSUME NEW x \in IndexSet PROVE x = [f \in Names |-> x[f]]
  BY DEF IndexSet, Names

(* The fields that _freeze replaces.                                       *)
LEMMA Frozen ==
  ASSUME NEW x \in IndexSet, NEW a, NEW b, NEW c, NEW y,
         y = [x EXCEPT !.tiers = a, !.hot = b, !.count = c]
  PROVE  Has(y, x.tokens, b, c, a)
<1>1. x = [f \in Names |-> x[f]]
  BY Fielded
<1> QED
  BY <1>1 DEF Names, Has

(* The fields that _push replaces.                                         *)
LEMMA Pushing ==
  ASSUME NEW x \in IndexSet, NEW a, NEW b, NEW c, NEW y,
         y = [x EXCEPT !.tokens = a, !.hot = b, !.count = c]
  PROVE  Has(y, a, b, c, x.tiers)
<1>1. x = [f \in Names |-> x[f]]
  BY Fielded
<1> QED
  BY <1>1 DEF Names, Has

(* The fields that _bulk replaces.                                         *)
LEMMA Filling ==
  ASSUME NEW x \in IndexSet, NEW a, NEW b, NEW y, y = [x EXCEPT !.tokens = a, !.tiers = b]
  PROVE  Has(y, a, x.hot, x.count, b)
<1>1. x = [f \in Names |-> x[f]]
  BY Fielded
<1> QED
  BY <1>1 DEF Names, Has

(* _freeze keeps the index good and empties the hot tables.                *)
LEMMA FreezeKeeps ==
  ASSUME NEW x, IndexGood(x)
  PROVE  /\ IndexGood(Freeze(x)) /\ Freeze(x).tokens = x.tokens
         /\ \A n \in Grams : Freeze(x).hot[n] = Empty
<1> DEFINE T == [n \in Grams |-> IF x.hot[n] = Empty THEN x.tiers[n] ELSE PushTier(x.tiers[n], x.hot[n])]
           y == Freeze(x)
<1>1. x \in IndexSet /\ \A n \in Grams : Good(Append(x.tiers[n], x.hot[n]), x.tokens, n) /\ Halving(x.tiers[n])
  BY DEF IndexGood
<1>2. /\ x.tokens \in Seq(TextVocab) /\ x.hot \in [Grams -> Tables] /\ x.count \in Nat
      /\ x.tiers \in [Grams -> Seq(Tables)]
  BY <1>1, IndexFields
<1> DEFINE E == [n \in Grams |-> Empty]
<1>3. Has(y, x.tokens, E, 0, T)
  <2>1. PICK a, b, c : a = T /\ b = E /\ c = 0
    OBVIOUS
  <2>2. y = [x EXCEPT !.tiers = a, !.hot = b, !.count = c]
    BY <2>1 DEF Freeze
  <2> HIDE DEF y, T, E
  <2>3. Has(y, x.tokens, b, c, a)
    BY <1>1, <2>2, Frozen
  <2> QED
    BY <2>1, <2>3
<1> HIDE DEF y
<1>4. ASSUME NEW n \in Grams
      PROVE  T[n] \in Seq(Tables) /\ Good(Append(T[n], Empty), x.tokens, n) /\ Halving(T[n])
  <2>1. x.tiers[n] \in Seq(Tables) /\ x.hot[n] \in Tables /\ n \in Nat
    BY <1>2, IndexAssumption
  <2>2. Good(Append(x.tiers[n], x.hot[n]), x.tokens, n) /\ Halving(x.tiers[n])
    BY <1>1
  <2>3. CASE x.hot[n] = Empty
    BY <2>1, <2>2, <2>3
  <2>4. CASE x.hot[n] # Empty
    <3>1. T[n] = PushTier(x.tiers[n], x.hot[n])
      BY <2>4
    <3> HIDE DEF T
    <3> QED
      BY <2>1, <2>2, <3>1, <1>2, Pushes
  <2> QED
    BY <2>3, <2>4
<1>5. T \in [Grams -> Seq(Tables)]
  <2>1. \A n \in Grams : T[n] \in Seq(Tables)
    BY <1>4
  <2> QED
    BY <2>1
<1> HIDE DEF T
<1>6. y \in IndexSet
  <2>1. E \in [Grams -> Tables] /\ 0 \in Nat
    BY EmptyTable
  <2> HIDE DEF E
  <2> QED
    BY <1>2, <1>3, <1>5, <2>1, HasAll
<1>7. y.tokens = x.tokens /\ y.tiers = T /\ \A n \in Grams : y.hot[n] = Empty
  <2>1. y.tokens = x.tokens /\ y.tiers = T /\ y.hot = E
    BY <1>3 DEF Has
  <2> QED
    BY <2>1
<1>8. ASSUME NEW n \in Grams
      PROVE  Good(Append(y.tiers[n], y.hot[n]), y.tokens, n) /\ Halving(y.tiers[n])
  BY <1>4, <1>7
<1>9. IndexGood(y)
  BY <1>6, <1>8 DEF IndexGood
<1> QED
  BY <1>7, <1>9 DEF y

(* A token is pushed.                                                      *)
HasPut(h, t, k, i) ==
  h \in Tables /\ DOMAIN h = DOMAIN t \cup {k} /\ h[k] = i /\ \A j \in DOMAIN t : j # k => h[j] = t[j]
(* Writing an entry into a table.                                          *)
LEMMA PutIs ==
  ASSUME NEW t \in Tables, NEW k \in Keys, NEW i \in Nat
  PROVE  HasPut(Put(t, k, i), t, k, i)
<1>1. DOMAIN t \subseteq Keys /\ \A j \in DOMAIN t : t[j] \in Nat
  BY TableIs
<1> DEFINE p == Put(t, k, i)
           K == DOMAIN t \cup {k}
<1>2. p = [j \in K |-> IF j = k THEN i ELSE t[j]]
  BY DEF Put
<1>3. p \in [K -> Nat] /\ K \in SUBSET Keys
  BY <1>1, <1>2
<1>4. p \in Tables
  BY <1>3, IsTable
<1> QED
  BY <1>2, <1>4 DEF HasPut

(* Appending a token makes a text longer.                                  *)
LEMMA OneLonger ==
  ASSUME NEW s \in Seq(TextVocab), NEW t \in TextVocab
  PROVE  /\ Longer(Append(s, t), s) /\ Append(s, t) \in Seq(TextVocab)
         /\ Len(Append(s, t)) = Len(s) + 1 /\ Len(s) \in Nat
  BY DEF Longer

(* The hot table takes up the place before the token that is pushed.       *)
LEMMA HotPut ==
  ASSUME NEW old \in Tables, NEW s \in Seq(TextVocab), NEW t \in TextVocab, NEW n \in Nat \ {0},
         NEW h, h = IF n > Len(s) THEN old ELSE Put(old, KeyAt(s, n, Len(s)), Len(s))
  PROVE  TakesUp(h, old, Append(s, t), s, n)
<1>1. PICK r : r = Append(s, t)
  OBVIOUS
<1>2. Longer(r, s) /\ r \in Seq(TextVocab) /\ Len(r) = Len(s) + 1 /\ Len(s) \in Nat
  BY <1>1, OneLonger
<1>3. CASE n > Len(s)
  <2>1. h = old /\ h \in Tables
    BY <1>3
  <2>2. \A e \in n .. Len(r) - 1 : ~(e >= Len(s))
    BY <1>2, <1>3
  <2> QED
    BY <1>1, <2>1, <2>2 DEF TakesUp
<1>4. CASE ~(n > Len(s))
  <2> DEFINE i == Len(s)
             k == KeyAt(s, n, i)
  <2>1. i \in Nat /\ i \in n .. i /\ i \in n .. Len(r) - 1
    BY <1>2, <1>4
  <2>2. k \in Keys /\ KeyAt(r, n, i) = k
    BY <1>2, <2>1, KeyIs, EndsKept
  <2>3. h = Put(old, k, i)
    BY <1>4
  <2> HIDE DEF i, k
  <2>4. /\ h \in Tables /\ DOMAIN h = DOMAIN old \cup {k} /\ h[k] = i
        /\ \A j \in DOMAIN old : j # k => h[j] = old[j]
    <3>1. i \in Nat /\ k \in Keys /\ old \in Tables
      BY <2>1, <2>2
    <3>2. HasPut(h, old, k, i)
      BY <3>1, <2>3, PutIs
    <3> QED
      BY <3>2 DEF HasPut
  <2>5. i \in Ends(r, n, k) /\ i >= Len(s)
    BY <2>1, <2>2 DEF Ends, i
  <2>6. ASSUME NEW j \in DOMAIN h
        PROVE  (j \in DOMAIN old /\ h[j] = old[j]) \/ (h[j] \in Ends(r, n, j) /\ h[j] >= Len(s))
    <3>1. CASE j = k
      BY <2>4, <2>5, <3>1
    <3>2. CASE j # k
      BY <2>4, <3>2
    <3> QED
      BY <3>1, <3>2
  <2>7. ASSUME NEW e \in n .. Len(r) - 1, e >= Len(s) PROVE Covers(h, KeyAt(r, n, e), e)
    <3>1. e = i
      BY <1>2, <2>7 DEF i
    <3>2. k \in DOMAIN h /\ e <= h[k]
      BY <2>1, <2>4, <3>1
    <3> QED
      BY <2>2, <3>1, <3>2 DEF Covers
  <2> QED
    BY <1>1, <2>4, <2>6, <2>7 DEF TakesUp
<1> QED
  BY <1>3, <1>4

(* _push keeps the index good.                                             *)
LEMMA PushKeeps ==
  ASSUME NEW x, IndexGood(x), NEW t \in TextVocab
  PROVE  IndexGood(Push(x, t)) /\ Push(x, t).tokens = Append(x.tokens, t)
<1> DEFINE i == Len(x.tokens)
           H == [n \in Grams |-> IF n > i THEN x.hot[n] ELSE Put(x.hot[n], KeyAt(x.tokens, n, i), i)]
           y == [x EXCEPT !.tokens = Append(x.tokens, t), !.hot = H, !.count = x.count + 1]
           s == Append(x.tokens, t)
<1>1. x \in IndexSet /\ \A n \in Grams : Good(Append(x.tiers[n], x.hot[n]), x.tokens, n) /\ Halving(x.tiers[n])
  BY DEF IndexGood
<1>2. /\ x.tokens \in Seq(TextVocab) /\ x.hot \in [Grams -> Tables] /\ x.count \in Nat
      /\ x.tiers \in [Grams -> Seq(Tables)]
  BY <1>1, IndexFields
<1>3. Push(x, t) = IF y.count >= HotLimit THEN Freeze(y) ELSE y
  BY DEF Push
<1>4. Has(y, s, H, x.count + 1, x.tiers)
  <2>1. PICK a, b, c : a = s /\ b = H /\ c = x.count + 1
    OBVIOUS
  <2>2. y = [x EXCEPT !.tokens = a, !.hot = b, !.count = c]
    BY <2>1
  <2> HIDE DEF H, s, y
  <2>3. Has(y, a, b, c, x.tiers)
    BY <1>1, <2>2, Pushing
  <2> QED
    BY <2>1, <2>3
<1> HIDE DEF y
<1>5. Longer(s, x.tokens) /\ s \in Seq(TextVocab)
  BY <1>2, OneLonger
<1>6. ASSUME NEW n \in Grams
      PROVE  H[n] \in Tables /\ Good(Append(x.tiers[n], H[n]), s, n) /\ Halving(x.tiers[n])
  <2>1. x.tiers[n] \in Seq(Tables) /\ x.hot[n] \in Tables /\ n \in Nat \ {0}
    BY <1>2, IndexAssumption
  <2>2. Good(Append(x.tiers[n], x.hot[n]), x.tokens, n) /\ Halving(x.tiers[n])
    BY <1>1
  <2>3. PICK h : h = H[n]
    OBVIOUS
  <2>4. h = IF n > Len(x.tokens) THEN x.hot[n] ELSE Put(x.hot[n], KeyAt(x.tokens, n, Len(x.tokens)), Len(x.tokens))
    BY <2>3
  <2> HIDE DEF H
  <2>5. TakesUp(h, x.hot[n], s, x.tokens, n)
    BY <1>2, <2>1, <2>4, HotPut
  <2> HIDE DEF s
  <2>6. Good(Append(x.tiers[n], h), s, n)
    BY <1>5, <2>1, <2>2, <2>5, NewTable
  <2> QED
    BY <2>2, <2>3, <2>5, <2>6 DEF TakesUp
<1>7. H \in [Grams -> Tables]
  <2>1. \A n \in Grams : H[n] \in Tables
    BY <1>6
  <2> QED
    BY <2>1
<1> HIDE DEF H, s
<1>8. y \in IndexSet
  <2>1. x.count + 1 \in Nat
    BY <1>2
  <2> QED
    BY <1>2, <1>4, <1>5, <1>7, <2>1, HasAll
<1>9. y.tokens = s /\ y.hot = H /\ y.tiers = x.tiers
  BY <1>4 DEF Has
<1>10. IndexGood(y)
  BY <1>6, <1>8, <1>9 DEF IndexGood
<1>11. IndexGood(Freeze(y)) /\ Freeze(y).tokens = s
  BY <1>9, <1>10, FreezeKeeps
<1> QED
  BY <1>3, <1>9, <1>10, <1>11 DEF s

-----------------------------------------------------------------------------
(* A slice goes straight into a tier.                                      *)
LEMMA JoinedText ==
  ASSUME NEW s \in Seq(TextVocab), NEW new \in Seq(TextVocab)
  PROVE  Longer(s \o new, s) /\ s \o new \in Seq(TextVocab) /\ Len(s \o new) = Len(s) + Len(new)
<1>1. /\ s \o new \in Seq(TextVocab) /\ Len(s \o new) = Len(s) + Len(new)
      /\ Len(s) \in Nat /\ Len(new) \in Nat
      /\ \A i \in 1 .. Len(s) : (s \o new)[i] = s[i]
  BY ConcatProperties, LenProperties
<1>2. Len(s) <= Len(s) + Len(new)
  BY <1>1
<1> QED
  BY <1>1, <1>2, Zenon DEF Longer

NewEnds(r, s, n) == {i \in Len(s) .. Len(r) - 1 : i >= n}
LatestEnd(r, E, n, k) ==
  CHOOSE i \in E : KeyAt(r, n, i) = k /\ \A j \in E : KeyAt(r, n, j) = k => j <= i
(* The latest place of a key among the new ones exists.                    *)
LEMMA LatestEndIs ==
  ASSUME NEW r \in Seq(TextVocab), NEW s \in Seq(TextVocab), NEW n \in Nat, NEW E,
         E = NewEnds(r, s, n), NEW e \in E, NEW k, k = KeyAt(r, n, e)
  PROVE  /\ LatestEnd(r, E, n, k) \in E /\ KeyAt(r, n, LatestEnd(r, E, n, k)) = k
         /\ \A j \in E : KeyAt(r, n, j) = k => j <= LatestEnd(r, E, n, k)
<1> DEFINE S == {i \in E : KeyAt(r, n, i) = k}
<1>1. Len(r) \in Nat /\ Len(s) \in Nat
  BY LenProperties
<1>2. E \subseteq 0 .. Len(r) /\ E \in SUBSET Nat
  BY <1>1 DEF NewEnds
<1>3. S \subseteq 0 .. Len(r) /\ S \in SUBSET Nat /\ S # {}
  BY <1>2
<1>4. IsFiniteSet(S)
  <2>1. IsFiniteSet(0 .. Len(r))
    BY <1>1, FS_Interval
  <2> HIDE DEF S
  <2> QED
    BY <1>3, <2>1, FS_Subset
<1>5. Max(S) \in S /\ \A y \in S : Max(S) >= y
  <2> HIDE DEF S
  <2> QED
    BY <1>3, <1>4, FiniteTops
<1>6. PICK m : m = Max(S)
  OBVIOUS
<1>7. m \in E /\ KeyAt(r, n, m) = k
  BY <1>5, <1>6
<1>8. ASSUME NEW j \in E, KeyAt(r, n, j) = k PROVE j <= m
  <2>1. j \in S /\ m \in Nat /\ j \in Nat
    BY <1>2, <1>7, <1>8
  <2>2. m >= j
    BY <1>5, <1>6, <2>1
  <2> QED
    BY <2>1, <2>2
<1> HIDE DEF S
<1>9. m \in E /\ KeyAt(r, n, m) = k /\ \A j \in E : KeyAt(r, n, j) = k => j <= m
  BY <1>7, <1>8
<1>10. \E i \in E : KeyAt(r, n, i) = k /\ \A j \in E : KeyAt(r, n, j) = k => j <= i
  BY <1>9, Zenon
<1> QED
  BY <1>10 DEF LatestEnd

(* The tier that _bulk makes takes up the places of the slice.             *)
LEMMA TierIs ==
  ASSUME NEW s, NEW r, Longer(r, s), NEW n \in Nat \ {0}, NEW E, E = NewEnds(r, s, n),
         NEW h, h = [k \in {KeyAt(r, n, i) : i \in E} |-> LatestEnd(r, E, n, k)]
  PROVE  TakesUp(h, Empty, r, s, n)
<1>1. s \in Seq(TextVocab) /\ r \in Seq(TextVocab) /\ Len(s) \in Nat /\ Len(r) \in Nat
  BY LenProperties DEF Longer
<1> DEFINE K == {KeyAt(r, n, i) : i \in E}
<1>2. \A e \in E : e \in n .. Len(r) - 1 /\ e >= Len(s) /\ e \in n .. Len(r) /\ e \in Nat
  BY <1>1 DEF NewEnds
<1>3. \A e \in E : KeyAt(r, n, e) \in Keys
  BY <1>1, <1>2, KeyIs
<1>4. K \in SUBSET Keys
  BY <1>3
<1>5. ASSUME NEW e \in E, NEW k, k = KeyAt(r, n, e)
      PROVE  /\ k \in K /\ h[k] \in E /\ KeyAt(r, n, h[k]) = k
             /\ \A j \in E : KeyAt(r, n, j) = k => j <= h[k]
  <2>1. k \in K
    BY <1>5
  <2>2. h[k] = LatestEnd(r, E, n, k)
    BY <2>1
  <2> HIDE DEF K
  <2>3. /\ LatestEnd(r, E, n, k) \in E /\ KeyAt(r, n, LatestEnd(r, E, n, k)) = k
        /\ \A j \in E : KeyAt(r, n, j) = k => j <= LatestEnd(r, E, n, k)
    BY <1>1, <1>5, LatestEndIs
  <2> QED
    BY <2>1, <2>2, <2>3, Zenon
<1>6. DOMAIN h = K /\ h = [k \in K |-> h[k]]
  OBVIOUS
<1>7. \A k \in K : \E e \in E : k = KeyAt(r, n, e)
  OBVIOUS
<1> HIDE DEF K
<1>8. ASSUME NEW k \in K PROVE h[k] \in Nat /\ h[k] \in Ends(r, n, k) /\ h[k] >= Len(s)
  <2>1. PICK e \in E : k = KeyAt(r, n, e)
    BY <1>7
  <2>2. h[k] \in E /\ KeyAt(r, n, h[k]) = k
    BY <1>5, <2>1
  <2> QED
    BY <1>2, <2>2 DEF Ends
<1>9. h \in Tables
  <2>1. h \in [K -> Nat]
    BY <1>6, <1>8
  <2> QED
    BY <1>4, <2>1, IsTable
<1>10. ASSUME NEW e \in n .. Len(r) - 1, e >= Len(s) PROVE Covers(h, KeyAt(r, n, e), e)
  <2>1. e \in E
    BY <1>1, <1>10 DEF NewEnds
  <2>2. PICK k : k = KeyAt(r, n, e)
    OBVIOUS
  <2>3. k \in K /\ e <= h[k]
    BY <1>5, <2>1, <2>2
  <2> QED
    BY <1>6, <2>2, <2>3 DEF Covers
<1>11. DOMAIN Empty = {}
  BY EmptyTable
<1> QED
  BY <1>6, <1>8, <1>9, <1>10, <1>11 DEF TakesUp

(* _bulk keeps the index good if the hot tables are empty: an older entry  *)
(* there would be in front.                                                *)
LEMMA BulkKeeps ==
  ASSUME NEW x, IndexGood(x), \A n \in Grams : x.hot[n] = Empty, NEW new \in Seq(TextVocab)
  PROVE  IndexGood(Bulk(x, new)) /\ Bulk(x, new).tokens = x.tokens \o new
<1> DEFINE s == x.tokens
           all == s \o new
           ends(n) == {i \in Len(s) .. Len(all) - 1 : i >= n}
           tier(n) == [k \in {KeyAt(all, n, i) : i \in ends(n)} |->
                        CHOOSE i \in ends(n) : /\ KeyAt(all, n, i) = k
                                               /\ \A j \in ends(n) : KeyAt(all, n, j) = k => j <= i]
           T == [n \in Grams |-> IF ends(n) = {} THEN x.tiers[n] ELSE PushTier(x.tiers[n], tier(n))]
           y == Bulk(x, new)
<1>1. x \in IndexSet /\ \A n \in Grams : Good(Append(x.tiers[n], x.hot[n]), x.tokens, n) /\ Halving(x.tiers[n])
  BY DEF IndexGood
<1>2. /\ x.tokens \in Seq(TextVocab) /\ x.hot \in [Grams -> Tables] /\ x.count \in Nat
      /\ x.tiers \in [Grams -> Seq(Tables)]
  BY <1>1, IndexFields
<1>3. Has(y, all, x.hot, x.count, T)
  <2>1. PICK a, b : a = all /\ b = T
    OBVIOUS
  <2>2. y = [x EXCEPT !.tokens = a, !.tiers = b]
    BY <2>1 DEF Bulk
  <2> HIDE DEF y, T, all
  <2>3. Has(y, a, x.hot, x.count, b)
    BY <1>1, <2>2, Filling
  <2> QED
    BY <2>1, <2>3
<1> HIDE DEF y
<1>4. PICK r : r = all
  OBVIOUS
<1>5. Longer(r, s) /\ r \in Seq(TextVocab) /\ s \in Seq(TextVocab)
  <2> HIDE DEF s
  <2>1. s \in Seq(TextVocab)
    BY <1>2 DEF s
  <2> QED
    BY <2>1, <1>4, JoinedText
<1>6. ASSUME NEW n \in Grams
      PROVE  T[n] \in Seq(Tables) /\ Good(Append(T[n], Empty), r, n) /\ Halving(T[n])
  <2>1. x.tiers[n] \in Seq(Tables) /\ x.hot[n] = Empty /\ n \in Nat \ {0} /\ Empty \in Tables
    BY <1>2, IndexAssumption, EmptyTable
  <2>2. Good(Append(x.tiers[n], Empty), s, n) /\ Halving(x.tiers[n])
    BY <1>1, <2>1
  <2>3. ends(n) = NewEnds(r, s, n)
    BY <1>4 DEF NewEnds
  <2>4. CASE ends(n) = {}
    <3>1. T[n] = x.tiers[n]
      BY <2>4
    <3>2. \A e \in n .. Len(r) - 1 : e >= Len(s) => e \in NewEnds(r, s, n)
      <4>1. Len(r) \in Nat /\ Len(s) \in Nat
        BY <1>5, LenProperties
      <4> HIDE DEF s
      <4> QED
        BY <4>1, <2>1 DEF NewEnds
    <3>3. TakesUp(Empty, Empty, r, s, n)
      <4>1. \A e \in n .. Len(r) - 1 : ~(e >= Len(s))
        BY <2>3, <2>4, <3>2
      <4>2. DOMAIN Empty = {}
        BY EmptyTable
      <4> QED
        BY <2>1, <4>1, <4>2 DEF TakesUp
    <3> HIDE DEF T, ends, tier, s, all
    <3>4. Good(Append(x.tiers[n], Empty), r, n)
      BY <1>5, <2>1, <2>2, <3>3, NewTable
    <3> QED
      BY <2>1, <2>2, <3>1, <3>4
  <2>5. CASE ends(n) # {}
    <3>1. PICK E, h : E = ends(n) /\ h = tier(n)
      OBVIOUS
    <3>2. T[n] = PushTier(x.tiers[n], h)
      BY <2>5, <3>1
    <3>3. h = [k \in {KeyAt(r, n, i) : i \in E} |-> LatestEnd(r, E, n, k)]
      BY <1>4, <3>1 DEF LatestEnd
    <3>4. E = NewEnds(r, s, n)
      BY <2>3, <3>1
    <3> HIDE DEF T, ends, tier, s, all
    <3>5. TakesUp(h, Empty, r, s, n)
      BY <1>5, <2>1, <3>3, <3>4, TierIs
    <3>6. Good(Append(x.tiers[n], h), r, n) /\ h \in Tables
      BY <1>5, <2>1, <2>2, <3>5, NewTable DEF TakesUp
    <3> QED
      BY <1>5, <2>1, <2>2, <3>2, <3>6, Pushes
  <2> QED
    BY <2>4, <2>5
<1>7. T \in [Grams -> Seq(Tables)]
  <2>1. \A n \in Grams : T[n] \in Seq(Tables)
    BY <1>6
  <2> QED
    BY <2>1
<1> HIDE DEF T, all, s
<1>8. y \in IndexSet
  BY <1>2, <1>3, <1>4, <1>5, <1>7, HasAll
<1>9. y.tokens = all /\ y.hot = x.hot /\ y.tiers = T
  BY <1>3 DEF Has
<1>10. ASSUME NEW n \in Grams
       PROVE  Good(Append(y.tiers[n], y.hot[n]), y.tokens, n) /\ Halving(y.tiers[n])
  BY <1>4, <1>6, <1>9
<1>11. IndexGood(y)
  BY <1>8, <1>10 DEF IndexGood
<1> QED
  BY <1>9, <1>11 DEF y, all, s

-----------------------------------------------------------------------------
(* A slice is pushed token by token.                                       *)
PushedOf(x, new, f, i) == IF i = 0 THEN x ELSE Push(f[i - 1], new[i])
PushesUp(x, new, N, f) == f = [i \in 0 .. N |-> PushedOf(x, new, f, i)]
(* The recursive function of extend exists.                                *)
LEMMA PushesExist == ASSUME NEW x, NEW new, NEW N \in Nat PROVE \E f : PushesUp(x, new, N, f)
<1> DEFINE G == {m \in Nat : \E f : PushesUp(x, new, m, f)}
<1>1. 0 \in G
  <2> DEFINE g == [i \in 0 .. 0 |-> x]
  <2>1. \A i \in 0 .. 0 : i = 0
    OBVIOUS
  <2>2. g = [i \in 0 .. 0 |-> PushedOf(x, new, g, i)]
    BY <2>1 DEF PushedOf
  <2> HIDE DEF g
  <2>3. PushesUp(x, new, 0, g)
    BY <2>2 DEF PushesUp
  <2> QED
    BY <2>3
<1>2. ASSUME NEW m \in 0 .. N - 1, m \in G PROVE m + 1 \in G
  <2>1. m \in Nat /\ m + 1 \in Nat
    OBVIOUS
  <2>2. PICK g : PushesUp(x, new, m, g)
    BY <1>2
  <2> DEFINE h == [i \in 0 .. m + 1 |-> PushedOf(x, new, g, i)]
  <2>3. ASSUME NEW i \in 0 .. m + 1 PROVE PushedOf(x, new, g, i) = PushedOf(x, new, h, i)
    <3>1. CASE i = 0
      BY <3>1 DEF PushedOf
    <3>2. CASE i # 0
      <4>1. i - 1 \in 0 .. m /\ i - 1 \in 0 .. m + 1
        BY <2>1, <3>2
      <4>2. h[i - 1] = PushedOf(x, new, g, i - 1)
        BY <4>1
      <4>3. g[i - 1] = PushedOf(x, new, g, i - 1)
        BY <2>2, <4>1 DEF PushesUp
      <4> HIDE DEF h
      <4> QED
        BY <3>2, <4>2, <4>3 DEF PushedOf
    <3> QED
      BY <3>1, <3>2
  <2>4. h = [i \in 0 .. m + 1 |-> PushedOf(x, new, h, i)]
    BY <2>3
  <2> HIDE DEF h
  <2>5. PushesUp(x, new, m + 1, h)
    BY <2>4 DEF PushesUp
  <2> QED
    BY <2>1, <2>5
<1> HIDE DEF G
<1>3. N \in G
  BY <1>1, <1>2, FromZero
<1> QED
  BY <1>3 DEF G

(* Pushing a slice token by token keeps the index good.                    *)
LEMMA PushedKeeps ==
  ASSUME NEW x, IndexGood(x), NEW new \in Seq(TextVocab)
  PROVE  IndexGood(Pushed(x, new))
<1> DEFINE N == Len(new)
           f == CHOOSE g : PushesUp(x, new, N, g)
<1>1. N \in Nat
  BY LenProperties
<1>2. PushesUp(x, new, N, f)
  BY <1>1, PushesExist, Zenon
<1>3. Pushed(x, new) = f[N]
  BY DEF Pushed, PushesUp, PushedOf
<1> HIDE DEF f
<1> DEFINE G == {i \in Nat : IndexGood(f[i])}
<1>4. ASSUME NEW i \in 0 .. N PROVE f[i] = PushedOf(x, new, f, i)
  BY <1>2 DEF PushesUp
<1>5. 0 \in G
  <2>1. 0 \in 0 .. N
    BY <1>1
  <2>2. f[0] = x
    BY <2>1, <1>4 DEF PushedOf
  <2> QED
    BY <2>2
<1>6. ASSUME NEW i \in 0 .. N - 1, i \in G PROVE i + 1 \in G
  <2>1. i + 1 \in 0 .. N /\ i + 1 \in 1 .. N /\ i + 1 # 0 /\ (i + 1) - 1 = i /\ i + 1 \in Nat
    BY <1>1
  <2>2. f[i + 1] = PushedOf(x, new, f, i + 1)
    BY <1>4, <2>1
  <2>3. f[i + 1] = Push(f[i], new[i + 1])
    BY <2>1, <2>2 DEF PushedOf
  <2>4. new[i + 1] \in TextVocab
    BY <2>1, ElementOfSeq
  <2>5. IndexGood(f[i])
    BY <1>6
  <2>6. IndexGood(Push(f[i], new[i + 1]))
    BY <2>4, <2>5, PushKeeps
  <2> QED
    BY <2>1, <2>3, <2>6
<1> HIDE DEF G
<1>7. N \in G
  BY <1>1, <1>5, <1>6, FromZero
<1> QED
  BY <1>3, <1>7 DEF G

(* extend keeps the index good, whichever way it takes.                    *)
LEMMA ExtendKeeps ==
  ASSUME NEW x, IndexGood(x), NEW new \in Seq(TextVocab)
  PROVE  IndexGood(Extend(x, new))
<1>1. PICK y : y = Freeze(x)
  OBVIOUS
<1>2. IndexGood(y) /\ \A n \in Grams : y.hot[n] = Empty
  BY <1>1, FreezeKeeps
<1>3. IndexGood(Bulk(y, new))
  BY <1>2, BulkKeeps
<1>4. IndexGood(Pushed(x, new))
  BY PushedKeeps
<1> QED
  BY <1>1, <1>3, <1>4 DEF Extend, BeforeBulk

(* An index that starts over is good.                                      *)
LEMMA ResetGood == IndexGood(Reset)
<1>1. PICK y : y = Reset
  OBVIOUS
<1>2. PICK s, q, E, T : s = <<>> /\ q = <<>> /\ E = [n \in Grams |-> Empty] /\ T = [n \in Grams |-> q]
  OBVIOUS
<1>3. Has(y, s, E, 0, T)
  BY <1>1, <1>2 DEF Reset, Has, Names
<1>4. Empty \in Tables
  BY EmptyTable
<1>5. q \in Seq(Tables) /\ Len(q) = 0 /\ s \in Seq(TextVocab) /\ Len(s) = 0
  BY <1>2
<1>6. E \in [Grams -> Tables] /\ T \in [Grams -> Seq(Tables)] /\ 0 \in Nat
  BY <1>2, <1>4, <1>5
<1>7. y \in IndexSet
  BY <1>3, <1>5, <1>6, HasAll
<1>8. ASSUME NEW n \in Grams
      PROVE  Good(Append(y.tiers[n], y.hot[n]), y.tokens, n) /\ Halving(y.tiers[n])
  <2>1. y.tiers[n] = q /\ y.hot[n] = Empty /\ y.tokens = s /\ n \in Nat \ {0}
    BY <1>2, <1>3, IndexAssumption DEF Has
  <2>2. \A i : ~(i \in 1 .. Len(q)) /\ ~(i \in n .. Len(s) - 1)
    BY <1>5, <2>1
  <2>3. Good(q, s, n)
    BY <2>2, Zenon DEF Good, Sound, Sorted, Complete
  <2>4. Good(Append(q, Empty), s, n)
    BY <1>5, <2>1, <2>3, EmptyBehind
  <2>5. \A i : ~(i \in 1 .. Len(q) - 1)
    BY <1>5
  <2>6. Halving(q)
    BY <2>5, Zenon DEF Halving
  <2> QED
    BY <2>1, <2>4, <2>6
<1> QED
  BY <1>1, <1>7, <1>8 DEF IndexGood

-----------------------------------------------------------------------------
(* The index is good in every state.                                       *)
LEMMA SyncKeeps == ASSUME IndexInv, NEW budget \in 1 .. MaxText, Sync(budget) PROVE IndexInv'
<1>1. PICK x : x = IF Disagrees THEN Reset ELSE idx
  OBVIOUS
<1> DEFINE n == Len(x.tokens)
           take == IF Len(text) - n < budget THEN Len(text) - n ELSE budget
<1>2. idx' = (IF take = 0 THEN x ELSE Extend(x, SubSeq(text, n + 1, n + take))) /\ text' = text
  BY <1>1 DEF Sync
<1>3. text \in Seq(TextVocab) /\ IndexGood(idx)
  BY DEF IndexInv
<1>4. IndexGood(x)
  BY <1>1, <1>3, ResetGood
<1>5. x.tokens \in Seq(TextVocab) /\ n \in Nat /\ Len(text) \in Nat /\ budget \in Nat
  <2>1. x.tokens \in Seq(TextVocab) /\ MaxText \in Nat
    BY <1>4, IndexAssumption DEF IndexGood, IndexSet
  <2> QED
    BY <1>3, <2>1, LenProperties
<1>6. take \in Int /\ n + take <= Len(text)
  <2>1. PICK a, b : a = Len(text) /\ b = n
    OBVIOUS
  <2>2. take = IF a - b < budget THEN a - b ELSE budget
    BY <2>1
  <2> HIDE DEF take, n
  <2>3. a \in Nat /\ b \in Nat /\ budget \in Nat
    BY <1>5, <2>1
  <2>4. take \in Int /\ b + take <= a
    BY <2>2, <2>3
  <2> QED
    BY <2>1, <2>4
<1> HIDE DEF take, n
<1>7. SubSeq(text, n + 1, n + take) \in Seq(TextVocab)
  <2>1. \A i \in n + 1 .. n + take : i \in 1 .. Len(text)
    BY <1>5, <1>6
  <2>2. \A i \in n + 1 .. n + take : text[i] \in TextVocab
    BY <1>3, <2>1, ElementOfSeq
  <2>3. n + 1 \in Int /\ n + take \in Int
    BY <1>5, <1>6
  <2> QED
    BY <2>2, <2>3, SubSeqProperties
<1>8. IndexGood(Extend(x, SubSeq(text, n + 1, n + take)))
  BY <1>4, <1>7, ExtendKeeps
<1>9. IndexGood(idx')
  BY <1>2, <1>4, <1>8
<1> QED
  BY <1>2, <1>3, <1>9 DEF IndexInv, IndexGood

(* IndexInv holds at the start.                                            *)
LEMMA IndexInitially == IndexInit => IndexInv
<1> SUFFICES ASSUME IndexInit PROVE IndexInv
  OBVIOUS
<1>1. text = <<>> /\ idx = Reset
  BY DEF IndexInit
<1>2. text \in Seq(TextVocab)
  BY <1>1
<1> QED
  BY <1>1, <1>2, ResetGood DEF IndexInv

(* Every step keeps IndexInv.                                              *)
LEMMA IndexStepKeeps == IndexInv /\ [IndexNext]_indexVars => IndexInv'
<1> SUFFICES ASSUME IndexInv, [IndexNext]_indexVars PROVE IndexInv'
  OBVIOUS
<1>1. text \in Seq(TextVocab) /\ IndexGood(idx)
  BY DEF IndexInv
<1>2. Slices \subseteq Seq(TextVocab)
  <2> SUFFICES ASSUME NEW new \in Slices PROVE new \in Seq(TextVocab)
    OBVIOUS
  <2>1. PICK n \in 1 .. 2 : new \in [1 .. n -> TextVocab]
    BY DEF Slices
  <2> QED
    BY <2>1
<1>3. ASSUME NEW new \in Slices, Grow(new) PROVE IndexInv'
  <2>1. text' = text \o new /\ idx' = idx
    BY <1>3 DEF Grow
  <2>2. text' \in Seq(TextVocab)
    BY <1>1, <1>2, <2>1, ConcatProperties
  <2> QED
    BY <1>1, <2>1, <2>2 DEF IndexInv, IndexGood
<1>4. ASSUME NEW new \in Slices, Rewrite(new) PROVE IndexInv'
  <2>1. text' = new /\ idx' = idx
    BY <1>4 DEF Rewrite
  <2> QED
    BY <1>1, <1>2, <2>1 DEF IndexInv, IndexGood
<1>5. ASSUME NEW budget \in 1 .. MaxText, Sync(budget) PROVE IndexInv'
  BY <1>5, SyncKeeps
<1>6. CASE UNCHANGED indexVars
  <2>1. text' = text /\ idx' = idx
    BY <1>6 DEF indexVars
  <2> QED
    BY <1>1, <2>1 DEF IndexInv, IndexGood
<1> QED
  BY <1>3, <1>4, <1>5, <1>6 DEF IndexNext

(* IndexInv holds in every state.                                          *)
LEMMA IndexInvHolds == IndexSpec => []IndexInv
  BY IndexInitially, IndexStepKeeps, PTL DEF IndexSpec

-----------------------------------------------------------------------------
(* A lookup finds the latest place of a key.                               *)
LEMMA PutLast == ASSUME NEW q \in Seq(Tables), NEW t \in Tables PROVE q \o <<t>> = Append(q, t)
<1>1. PICK a, b : a = q \o <<t>> /\ b = Append(q, t)
  OBVIOUS
<1>2. b \in Seq(Tables) /\ Added(b, q, t)
  BY <1>1, AddLast
<1>3. <<t>> \in Seq(Tables) /\ Len(<<t>>) = 1 /\ <<t>>[1] = t
  OBVIOUS
<1>4. /\ a \in Seq(Tables) /\ Len(a) = Len(q) + Len(<<t>>)
      /\ \A i \in 1 .. Len(q) + Len(<<t>>) : a[i] = IF i <= Len(q) THEN q[i] ELSE <<t>>[i - Len(q)]
  BY <1>1, <1>3, ConcatProperties
<1>5. Len(q) \in Nat /\ Len(a) = Len(q) + 1 /\ Len(b) = Len(q) + 1
  BY <1>2, <1>3, <1>4 DEF Added
<1>6. ASSUME NEW i \in 1 .. Len(q) + 1 PROVE a[i] = b[i]
  <2>1. CASE i \in 1 .. Len(q)
    <3>1. i \in 1 .. Len(q) + Len(<<t>>) /\ i <= Len(q)
      BY <1>3, <1>5, <2>1
    <3>2. a[i] = q[i]
      BY <1>4, <3>1
    <3> QED
      BY <1>2, <2>1, <3>2 DEF Added
  <2>2. CASE i = Len(q) + 1
    <3>1. i \in 1 .. Len(q) + Len(<<t>>) /\ ~(i <= Len(q)) /\ i - Len(q) = 1
      BY <1>3, <1>5, <2>2
    <3>2. a[i] = t
      BY <1>3, <1>4, <3>1
    <3> QED
      BY <1>2, <2>2, <3>2 DEF Added
  <2> QED
    BY <1>5, <2>1, <2>2
<1>7. a = b
  BY <1>2, <1>4, <1>5, <1>6, SeqEqual
<1> QED
  BY <1>1, <1>7

Found(g, s, n, k) ==
  \/ g = -1 /\ Ends(s, n, k) = {}
  \/ g \in Ends(s, n, k) /\ \A e \in Ends(s, n, k) : e <= g
(* get returns the latest place of a key, or nothing when there is none.   *)
LEMMA GetIs == ASSUME IndexInv, NEW n \in Grams, NEW k PROVE Found(Get(n, k), idx.tokens, n, k)
<1>1. IndexGood(idx)
  BY DEF IndexInv
<1> DEFINE s == idx.tokens
           all == idx.tiers[n] \o <<idx.hot[n]>>
           has == {i \in DOMAIN all : k \in DOMAIN all[i]}
<1>2. idx.tiers[n] \in Seq(Tables) /\ idx.hot[n] \in Tables /\ s \in Seq(TextVocab) /\ n \in Nat \ {0}
  BY <1>1, IndexAssumption DEF IndexGood, IndexSet
<1>3. PICK q : q = all
  OBVIOUS
<1>4. q = Append(idx.tiers[n], idx.hot[n])
  BY <1>2, <1>3, PutLast
<1>5. q \in Seq(Tables) /\ Good(q, s, n)
  <2>1. Append(idx.tiers[n], idx.hot[n]) \in Seq(Tables)
    BY <1>2, AddLast
  <2> QED
    BY <1>1, <1>4, <2>1 DEF IndexGood
<1>6. Sound(q, s, n) /\ Sorted(q) /\ Complete(q, s, n)
  BY <1>5 DEF Good
<1>7. PICK S : S = has
  OBVIOUS
<1>8. Get(n, k) = IF S = {} THEN -1 ELSE q[CHOOSE i \in S : \A j \in S : j <= i][k]
  BY <1>3, <1>7 DEF Get
<1>9. DOMAIN q = 1 .. Len(q) /\ Len(q) \in Nat
  BY <1>5, LenProperties
<1>10. S = {i \in 1 .. Len(q) : k \in DOMAIN q[i]}
  BY <1>3, <1>7, <1>9
<1> HIDE DEF has, all
<1>11. ASSUME NEW e \in Ends(s, n, k) PROVE \E i \in S : e <= q[i][k]
  <2>1. e \in n .. Len(s) - 1 /\ KeyAt(s, n, e) = k
    BY DEF Ends
  <2>2. PICK i \in 1 .. Len(q) : Covers(q[i], k, e)
    BY <1>6, <2>1 DEF Complete
  <2> QED
    BY <1>10, <2>2 DEF Covers
<1>12. CASE S = {}
  <2>1. Get(n, k) = -1 /\ Ends(s, n, k) = {}
    BY <1>8, <1>11, <1>12
  <2> QED
    BY <2>1 DEF Found
<1>13. CASE S # {}
  <2>1. IsFiniteSet(S) /\ S \in SUBSET Nat
    <3>1. IsFiniteSet(1 .. Len(q))
      BY <1>9, FS_Interval
    <3>2. S \subseteq 1 .. Len(q)
      BY <1>10
    <3>3. IsFiniteSet(S)
      BY <3>1, <3>2, FS_Subset
    <3>4. 1 .. Len(q) \subseteq Nat
      BY <1>9
    <3> QED
      BY <3>2, <3>3, <3>4
  <2>2. \E i \in S : \A j \in S : j <= i
    <3>1. Max(S) \in S /\ \A y \in S : Max(S) >= y
      BY <1>13, <2>1, FiniteTops
    <3>2. PICK m : m = Max(S)
      OBVIOUS
    <3>3. m \in S /\ \A y \in S : y <= m
      BY <2>1, <3>1, <3>2
    <3> QED
      BY <3>3
  <2>3. PICK i : i = CHOOSE c \in S : \A j \in S : j <= c
    OBVIOUS
  <2>4. i \in S /\ \A j \in S : j <= i
    BY <2>2, <2>3
  <2>5. PICK g : g = Get(n, k)
    OBVIOUS
  <2>6. g = q[i][k]
    BY <1>8, <1>13, <2>3, <2>5
  <2>7. i \in 1 .. Len(q) /\ k \in DOMAIN q[i]
    BY <1>10, <2>4
  <2>8. g \in Ends(s, n, k)
    BY <1>6, <2>6, <2>7 DEF Sound
  <2>9. ASSUME NEW e \in Ends(s, n, k) PROVE e <= g
    <3>1. PICK j \in S : e <= q[j][k]
      BY <1>11
    <3>2. j \in 1 .. Len(q) /\ k \in DOMAIN q[j] /\ j <= i
      BY <1>10, <2>4
    <3>3. CASE j = i
      BY <2>6, <3>1, <3>3
    <3>4. CASE j # i
      <4>1. j < i
        BY <2>7, <3>2, <3>4
      <4>2. q[j][k] <= g
        BY <1>6, <2>6, <2>7, <3>2, <4>1 DEF Sorted
      <4>3. e \in Int /\ g \in Int /\ q[j][k] \in Int
        <5>1. q[j][k] \in Ends(s, n, k)
          BY <1>6, <3>2 DEF Sound
        <5>2. \A d \in Ends(s, n, k) : d \in Int
          BY DEF Ends
        <5> QED
          BY <2>8, <5>1, <5>2
      <4> QED
        BY <3>1, <4>2, <4>3
    <3> QED
      BY <3>3, <3>4
  <2> QED
    BY <2>5, <2>8, <2>9 DEF Found
<1> QED
  BY <1>12, <1>13

-----------------------------------------------------------------------------
(* A match is the latest site.                                             *)
LEMMA SitesShareKey ==
  ASSUME IndexInv, NEW n \in Grams, NEW e \in Sites(n)
  PROVE  e \in Ends(idx.tokens, n, KeyAt(idx.tokens, n, Length)) /\ Length > n
<1> DEFINE s == idx.tokens
<1>1. s \in Seq(TextVocab) /\ n \in Nat \ {0} /\ Length = Len(s) /\ Length \in Nat
  <2>1. s \in Seq(TextVocab) /\ n \in Nat \ {0}
    BY IndexAssumption DEF IndexInv, IndexGood, IndexSet
  <2> QED
    BY <2>1, LenProperties DEF Length
<1>2. e \in n .. Length - 1 /\ SameGram(e, n)
  BY DEF Sites
<1>3. e \in n .. Len(s) /\ Length \in n .. Len(s) /\ Length > n /\ e \in n .. Len(s) - 1
  BY <1>1, <1>2
<1>4. SameTokens(s, e, s, Length, n)
  <2> SUFFICES ASSUME NEW i \in 1 .. n PROVE s[e - n + i] = s[Length - n + i]
    BY DEF SameTokens
  <2>1. PICK h : h = n + 1 - i
    OBVIOUS
  <2>2. h \in 1 .. n /\ e - h + 1 = e - n + i /\ Length - h + 1 = Length - n + i
    BY <1>1, <1>2, <2>1
  <2>3. s[e - h + 1] = s[Length - h + 1]
    BY <1>2, <2>2 DEF SameGram
  <2> QED
    BY <2>2, <2>3
<1> HIDE DEF s
<1>5. KeyAt(s, n, e) = KeyAt(s, n, Length)
  BY <1>1, <1>3, <1>4, SameStretch
<1> QED
  BY <1>3, <1>5 DEF Ends, s

(* A gram that matches, does so at its latest site.                        *)
LEMMA MatchesLatest ==
  ASSUME IndexInv, NEW n \in Grams, Matches(n), NEW g, g = Get(n, KeyAt(idx.tokens, n, Length))
  PROVE  g \in Sites(n) /\ \A e \in Sites(n) : e <= g
<1> DEFINE k == KeyAt(idx.tokens, n, Length)
<1>1. g >= 0 /\ SameGram(g, n)
  BY DEF Matches, IsMatch
<1>2. Found(g, idx.tokens, n, k)
  BY GetIs
<1>3. g \in Ends(idx.tokens, n, k) /\ \A e \in Ends(idx.tokens, n, k) : e <= g
  <2>1. g # -1
    BY <1>1
  <2> QED
    BY <1>2, <2>1 DEF Found
<1>4. g \in Sites(n)
  BY <1>1, <1>3 DEF Ends, Sites, Length
<1> QED
  BY <1>3, <1>4, SitesShareKey

(* A gram that has a site and does not match is hidden by another of the   *)
(* same key.                                                               *)
LEMMA MissHidden ==
  ASSUME IndexInv, NEW n \in Grams, ~Matches(n), Sites(n) # {}
  PROVE  Hidden(n)
<1> DEFINE k == KeyAt(idx.tokens, n, Length)
<1>1. PICK e \in Sites(n) : TRUE
  OBVIOUS
<1>2. e \in Ends(idx.tokens, n, k) /\ Length > n
  BY SitesShareKey
<1>3. PICK g : g = Get(n, k)
  OBVIOUS
<1>4. Found(g, idx.tokens, n, k)
  BY <1>3, GetIs
<1>5. g \in Ends(idx.tokens, n, k) /\ \A d \in Ends(idx.tokens, n, k) : d <= g
  BY <1>2, <1>4 DEF Found
<1>6. \A d \in Sites(n) : d \in Int /\ d <= g
  <2>1. \A d \in Sites(n) : d \in Int
    BY DEF Sites
  <2> QED
    BY <1>5, <2>1, SitesShareKey
<1>7. g \in n .. Length - 1 /\ KeyAt(idx.tokens, n, g) = k
  BY <1>5 DEF Ends, Length
<1>8. g >= 0
  <2>1. n \in Nat
    BY IndexAssumption
  <2> QED
    BY <1>7, <2>1
<1>9. ~SameGram(g, n)
  BY <1>2, <1>3, <1>8 DEF Matches, IsMatch
<1>10. g \notin Sites(n)
  BY <1>9 DEF Sites
<1>11. \A d \in Sites(n) : d < g
  <2>1. g \in Int
    BY <1>7
  <2> QED
    BY <1>6, <1>10, <2>1
<1> QED
  BY <1>7, <1>9, <1>11 DEF Hidden

(* A good index finds what there is.                                       *)
LEMMA IndexInvExact == IndexInv => IndexExact
<1> SUFFICES ASSUME IndexInv PROVE IndexExact
  OBVIOUS
<1>1. TiersHalve
  BY DEF IndexInv, IndexGood, Halving, TiersHalve
<1>2. CASE ~\E n \in Grams : Matches(n)
  <2>1. Match = NoMatch /\ Match.n = 0
    BY <1>2 DEF Match, NoMatch
  <2>2. \A n \in Grams : Sites(n) # {} => Hidden(n)
    BY <1>2, MissHidden
  <2> QED
    BY <1>1, <2>1, <2>2 DEF IndexExact, MatchLatest
<1>3. CASE \E n \in Grams : Matches(n)
  <2> DEFINE S == {n \in Grams : Matches(n)}
  <2>1. S \in SUBSET Nat /\ IsFiniteSet(S) /\ S # {}
    <3>1. S \subseteq Grams /\ S # {}
      BY <1>3
    <3>2. Grams \subseteq Nat /\ IsFiniteSet(Grams)
      BY IndexAssumption
    <3> HIDE DEF S
    <3> QED
      BY <3>1, <3>2, FS_Subset
  <2>2. \E m \in Grams : Matches(m) /\ \A k \in Grams : Matches(k) => k <= m
    <3>1. PICK m : m = Max(S)
      OBVIOUS
    <3>2. m \in S /\ \A y \in S : m >= y
      <4> HIDE DEF S
      <4> QED
        BY <2>1, <3>1, FiniteTops
    <3>3. \A y \in S : y <= m
      <4> HIDE DEF S
      <4>1. \A y \in S : y \in Nat
        BY <2>1
      <4> QED
        BY <3>2, <4>1
    <3> QED
      BY <3>2, <3>3
  <2>3. PICK n : n = CHOOSE m \in Grams : Matches(m) /\ \A k \in Grams : Matches(k) => k <= m
    OBVIOUS
  <2>4. n \in Grams /\ Matches(n) /\ \A k \in Grams : Matches(k) => k <= n
    BY <2>2, <2>3
  <2>5. PICK g : g = Get(n, KeyAt(idx.tokens, n, Length))
    OBVIOUS
  <2>6. Match = [src |-> g, n |-> n]
    BY <1>3, <2>3, <2>5 DEF Match
  <2>7. Match.src = g /\ Match.n = n
    BY <2>6
  <2>8. g \in Sites(n) /\ \A e \in Sites(n) : e <= g
    BY <2>4, <2>5, MatchesLatest
  <2>9. ASSUME NEW m \in Grams, m > n, Sites(m) # {} PROVE Hidden(m)
    <3>1. m \in Nat /\ n \in Nat
      BY <2>4, IndexAssumption
    <3>2. ~Matches(m)
      BY <2>4, <2>9, <3>1
    <3> QED
      BY <2>9, <3>2, MissHidden
  <2> QED
    BY <1>1, <2>7, <2>8, <2>9 DEF IndexExact, MatchLatest
<1> QED
  BY <1>2, <1>3

(* The lookup finds the latest place where the longest known gram has      *)
(* occurred, in tiers that halve, whatever was frozen, merged or rebuilt.  *)
THEOREM IndexHolds == IndexSpec => []IndexExact
  BY IndexInvHolds, IndexInvExact, PTL
=============================================================================
