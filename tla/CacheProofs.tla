---------------------------- MODULE CacheProofs -----------------------------
(***************************************************************************)
(* Proofs about the caches of a worker.  PrefixHit, for every block size,  *)
(* window and prompt length, and whatever is cached: the coordinator       *)
(* returns the longest length that attention and recurrent state have both *)
(* cached, and reports as uncached exactly what attention alone has beyond *)
(* it.  KdaStash, for any number of programs, slots and launches: every    *)
(* program verifies on the committed tokens.  KdaState, for every block    *)
(* size, budget and request, if a step drafts fewer tokens than a block    *)
(* has: every step starts from the state after the computed tokens, and    *)
(* every hash tells its state.                                             *)
(***************************************************************************)
EXTENDS PrefixHit, KdaStash, KdaState, SequenceTheorems, WellFoundedInduction, TLAPS

-----------------------------------------------------------------------------
(* PrefixHit: what the coordinator finds.                                  *)

(* The loop invariant.  No usable length is above the candidate; once      *)
(* attention is looked up, its hit is what longest holds and bounds the    *)
(* candidate; after the state's turn the candidate has a cached state.     *)
Bounded ==
  /\ curr <= hit /\ hit <= limit
  /\ \A b \in Usable : b <= curr
Attention ==
  IF found["full"] = NoBlocks
  THEN turn = 1 /\ curr = limit /\ longest = 0
  ELSE /\ found["full"] \in Longest(FullHits(limit))
       /\ longest = found["full"]
       /\ turn > 1 \/ curr < limit
       /\ curr \in Boundaries /\ curr <= found["full"]
AfterState ==
  \A i \in 1 .. 3 : order[i] = "mamba" /\ i < turn => curr = 0 \/ curr \in mamba
LoopInv ==
  /\ HitTypeOK
  /\ call = "runs" => Bounded /\ Attention /\ AfterState
  /\ HitExact /\ UncachedExact

LEMMA NoneFound == [g \in HitGroups |-> NoBlocks] \in [HitGroups -> Lengths \cup {NoBlocks}]
OBVIOUS

LEMMA HitInitial == HitInit => LoopInv
<1> SUFFICES ASSUME HitInit PROVE LoopInv
  OBVIOUS
<1>1. 0 \in Lengths
  BY HitAssumption DEF Lengths
<1>2. HitTypeOK
  <2>1. found \in [HitGroups -> Lengths \cup {NoBlocks}] /\ verified \in BOOLEAN
    BY NoneFound, Zenon DEF HitInit
  <2> QED
    BY <1>1, <2>1 DEF HitInit, HitTypeOK
<1> QED
  BY <1>2 DEF HitInit, LoopInv, HitExact, UncachedExact

LEMMA AskKeeps == LoopInv /\ Ask => LoopInv'
<1> SUFFICES ASSUME LoopInv, Ask PROVE LoopInv'
  OBVIOUS
<1>1. HitTypeOK'
  <2>1. 0 \in Lengths /\ order \in LookupOrders
    BY HitAssumption DEF Lengths, LoopInv, HitTypeOK
  <2>2. found' \in [HitGroups -> Lengths \cup {NoBlocks}] /\ verified' \in BOOLEAN
    BY NoneFound, Zenon DEF Ask
  <2> QED
    BY <2>1, <2>2 DEF Ask, HitTypeOK
<1>2. Bounded' /\ Attention' /\ AfterState'
  BY <1>1 DEF Ask, Bounded, Attention, AfterState, Usable, Lengths, Boundaries, HitGroups,
     HitTypeOK, NoBlocks
<1> QED
  BY <1>1, <1>2 DEF LoopInv, Ask, HitExact, UncachedExact

(* The turns of the three groups: the types first, then the invariant.     *)
LEMMA SettleType ==
  ASSUME HitTypeOK, NEW g \in HitGroups, NEW n \in Lengths, Settle(g, n)
  PROVE  curr' \in Lengths /\ longest' \in Lengths /\ verified' \in BOOLEAN
         /\ found' \in [HitGroups -> Lengths \cup {NoBlocks}]
<1>1. verified' \in BOOLEAN
  BY DEF Settle
<1>2. found' \in [HitGroups -> Lengths \cup {NoBlocks}]
  BY DEF Settle, HitTypeOK
<1> QED
  BY <1>1, <1>2 DEF Settle, HitTypeOK

LEMMA FullKeeps == LoopInv /\ LookupFull => LoopInv'
<1> SUFFICES ASSUME LoopInv, LookupFull PROVE LoopInv'
  OBVIOUS
<1>1. HitTypeOK /\ Bounded /\ Attention /\ AfterState /\ call = "runs" /\ call' = "runs"
  BY DEF LoopInv, LookupFull, Turn
<1>2. turn = 1 /\ turn' = 2
  BY <1>1 DEF LookupFull, Turn, HitTypeOK, LookupOrders
<1>3. AfterState'
  BY <1>1, <1>2 DEF AfterState, LookupFull, HitTypeOK, LookupOrders, pool
<1>4. CASE found["full"] # NoBlocks
  <2>1. curr' = curr /\ found' = found /\ longest' = longest /\ verified' = verified
    BY <1>1, <1>4 DEF LookupFull, Attention, HitTypeOK, Lengths, Boundaries
  <2>2. HitTypeOK'
    BY <1>1, <1>2, <2>1 DEF LookupFull, HitTypeOK, pool
  <2>3. Bounded' /\ Attention'
    BY <1>1, <1>2, <1>4, <2>1 DEF LookupFull, Bounded, Attention, Usable, Longest, FullHits, pool
  <2> QED
    BY <1>1, <1>3, <2>2, <2>3 DEF LoopInv, HitExact, UncachedExact
<1>5. CASE found["full"] = NoBlocks
  <2>1. PICK n \in Longest(FullHits(curr)) : Settle("full", n)
    BY <1>5 DEF LookupFull
  <2>2. curr = limit /\ n \in Boundaries /\ n <= limit /\ n <= full
    BY <1>1, <1>5 DEF Attention, Longest, FullHits
  <2>3. HitTypeOK'
    BY <1>1, <1>2, <2>1, <2>2, SettleType DEF LookupFull, HitTypeOK, pool, HitGroups, Boundaries
  <2>4. found'["full"] = n /\ longest' = n /\ curr' = n
    <3>1. longest = 0
      BY <1>1, <1>5 DEF Attention
    <3> QED
      BY <1>1, <3>1, <2>1, <2>2 DEF Settle, HitTypeOK, HitGroups, Lengths, Boundaries
  <2>5. Bounded'
    BY <1>1, <2>1, <2>2, <2>4 DEF LookupFull, Bounded, Usable, Longest, FullHits, pool,
       HitTypeOK, Lengths, Boundaries
  <2>6. Attention'
    BY <1>1, <1>2, <2>1, <2>2, <2>4 DEF LookupFull, Attention, Longest, FullHits, pool,
       HitTypeOK, Lengths, Boundaries, NoBlocks
  <2> QED
    BY <1>1, <1>3, <2>3, <2>5, <2>6 DEF LoopInv, HitExact, UncachedExact
<1> QED
  BY <1>4, <1>5
LEMMA StateKeeps == LoopInv /\ LookupState => LoopInv'
<1> SUFFICES ASSUME LoopInv, LookupState PROVE LoopInv'
  OBVIOUS
<1>1. HitTypeOK /\ Bounded /\ Attention /\ AfterState /\ call = "runs" /\ call' = "runs"
  BY DEF LoopInv, LookupState, Turn
<1>2. turn \in 2 .. 3 /\ turn' = turn + 1
  BY <1>1 DEF LookupState, Turn, HitTypeOK, LookupOrders
<1>3. PICK n \in Longest(StateHits(curr)) : Settle("mamba", n)
  BY DEF LookupState
<1>4. n \in Boundaries /\ n \in Lengths /\ n <= curr /\ (n = 0 \/ n \in mamba)
  BY DEF Longest, StateHits, Boundaries
<1>5. HitTypeOK'
  BY <1>1, <1>2, <1>3, <1>4, SettleType DEF LookupState, HitTypeOK, pool, HitGroups
<1>6. found["full"] # NoBlocks
  BY <1>1, <1>2 DEF Attention
<1>7. curr' = n /\ found'["full"] = found["full"] /\ longest' = longest
  BY <1>1, <1>3, <1>4, <1>6 DEF Settle, HitTypeOK, HitGroups, Attention, Lengths
<1>8. UNCHANGED <<full, mamba, limit, hit, order>>
  BY DEF LookupState, pool
<1>9. Bounded'
  BY <1>1, <1>3, <1>4, <1>6, <1>7, <1>8 DEF Bounded, Attention, Usable, Longest, FullHits,
     StateHits, HitTypeOK, Lengths, Boundaries
<1>10. Attention'
  BY <1>1, <1>2, <1>4, <1>6, <1>7, <1>8 DEF Attention, Longest, FullHits, HitTypeOK, Lengths,
     Boundaries
<1>11. AfterState'
  BY <1>4, <1>7, <1>8 DEF AfterState
<1> QED
  BY <1>1, <1>5, <1>9, <1>10, <1>11 DEF LoopInv, HitExact, UncachedExact

LEMMA DraftTurn == LoopInv /\ LookupDraft => LoopInv'
<1> SUFFICES ASSUME LoopInv, LookupDraft PROVE LoopInv'
  OBVIOUS
<1>1. HitTypeOK /\ Bounded /\ Attention /\ AfterState /\ call = "runs" /\ call' = "runs"
  BY DEF LoopInv, LookupDraft, Turn
<1>2. turn \in 2 .. 3 /\ turn' = turn + 1 /\ order[turn] = "draft"
  BY <1>1 DEF LookupDraft, Turn, HitTypeOK, LookupOrders
<1>3. PICK n \in Boundaries : DraftKeeps(n) /\ verified' = (~verified \/ n >= curr)
  BY DEF LookupDraft, Longest, DraftHits
<1>4. UNCHANGED <<pool, hit, longest, curr>>
  BY <1>3 DEF LookupDraft, DraftKeeps
<1>5. found'["full"] = found["full"] /\ found' \in [HitGroups -> Lengths \cup {NoBlocks}]
  <2>1. n \in Lengths
    BY DEF Boundaries
  <2> QED
    BY <1>1, <1>3, <2>1 DEF DraftKeeps, HitTypeOK, HitGroups
<1>6. verified' \in BOOLEAN
  BY <1>3
<1>7. HitTypeOK'
  BY <1>1, <1>2, <1>4, <1>5, <1>6 DEF HitTypeOK, pool
<1>8. Bounded'
  BY <1>1, <1>4 DEF Bounded, Usable, pool
<1>9. Attention'
  BY <1>1, <1>2, <1>4, <1>5 DEF Attention, Longest, FullHits, pool
<1>10. AfterState'
  BY <1>1, <1>2, <1>4 DEF AfterState, pool
<1> QED
  BY <1>1, <1>7, <1>8, <1>9, <1>10 DEF LoopInv, HitExact, UncachedExact

(* The end of a pass: a stable candidate is usable, for the state group    *)
(* has had its turn at it.                                                 *)
LEMMA EndKeeps == LoopInv /\ EndPass => LoopInv'
<1> SUFFICES ASSUME LoopInv, EndPass PROVE LoopInv'
  OBVIOUS
<1>1. HitTypeOK /\ Bounded /\ Attention /\ AfterState /\ call = "runs" /\ turn = 4
  BY DEF LoopInv, EndPass
<1>2. UNCHANGED <<full, mamba, draft, limit, order, verified, longest, curr>>
  BY DEF EndPass, pool
<1>3. curr = 0 \/ curr \in mamba
  BY <1>1 DEF AfterState, HitTypeOK, LookupOrders
<1>4. /\ found["full"] \in Longest(FullHits(limit)) /\ longest = found["full"]
      /\ curr \in Boundaries /\ curr <= found["full"]
  BY <1>1 DEF Attention
<1>5. CASE Stable
  <2>1. hit = curr /\ hit' = hit /\ turn' = turn
    BY <1>1, <1>5 DEF EndPass, Stable, Bounded, HitTypeOK, Lengths
  <2>2. call' = "returned" /\ found' = [found EXCEPT !["full"] = hit]
    BY <1>5 DEF EndPass
  <2>3. HitTypeOK'
    BY <1>1, <1>2, <2>1, <2>2 DEF HitTypeOK, HitGroups
  <2>4. curr \in Usable
    BY <1>1, <1>3, <1>4 DEF Usable, Longest, FullHits, Bounded, HitTypeOK, Lengths, Boundaries
  <2>5. HitExact'
    BY <1>1, <1>2, <2>1, <2>4 DEF HitExact, Bounded, Longest, Usable
  <2>6. UncachedExact'
    BY <1>2, <1>4 DEF UncachedExact, Longest, FullHits
  <2> QED
    BY <2>2, <2>3, <2>5, <2>6 DEF LoopInv
<1>6. CASE ~Stable
  <2>1. hit' = curr /\ turn' = 1 /\ found' = found /\ call' = "runs"
    BY <1>1, <1>6 DEF EndPass
  <2>2. HitTypeOK'
    BY <1>1, <1>2, <2>1 DEF HitTypeOK
  <2>3. curr < limit
    BY <1>1, <1>6 DEF Stable, Bounded, HitTypeOK, Lengths
  <2>4. Bounded'
    BY <1>1, <1>2, <2>1, <2>3 DEF Bounded, Usable, HitTypeOK, Lengths
  <2>5. Attention'
    BY <1>1, <1>2, <1>4, <2>1, <2>3 DEF Attention, Longest, FullHits
  <2>6. AfterState'
    BY <2>1 DEF AfterState
  <2> QED
    BY <2>1, <2>2, <2>4, <2>5, <2>6 DEF LoopInv, HitExact, UncachedExact
<1> QED
  BY <1>5, <1>6

LEMMA HitStutters == LoopInv /\ UNCHANGED hitVars => LoopInv'
BY DEF LoopInv, hitVars, pool, HitTypeOK, Bounded, Attention, AfterState, HitExact,
   UncachedExact, Usable, Longest, FullHits

LEMMA LoopInvariant == HitSpec => []LoopInv
<1>1. LoopInv /\ [HitNext]_hitVars => LoopInv'
  BY AskKeeps, FullKeeps, StateKeeps, DraftTurn, EndKeeps, HitStutters DEF HitNext
<1> QED
  BY <1>1, HitInitial, PTL DEF HitSpec

(* find_longest_cache_hit returns the longest usable length, for every     *)
(* content of the cache and both orders of the groups.                     *)
THEOREM HitIsExact == HitSpec => []HitExact
BY LoopInvariant, PTL DEF LoopInv

(* num_uncached_common_prefix_tokens counts exactly what full attention    *)
(* has cached past the hit.                                                *)
THEOREM UncachedIsExact == HitSpec => []UncachedExact
BY LoopInvariant, PTL DEF LoopInv

-----------------------------------------------------------------------------
(* The draft group's blocks, when its turn comes after the state's.        *)

(* What the draft group holds is the window of length n, or nothing.       *)
WindowOf(n) ==
  found["draft"] = NoBlocks \/ (found["draft"] = n /\ (n = 0 \/ WindowCached(n, 0)))

(* A call makes two passes at most: after the first one the candidate has  *)
(* attention and state, so that the second one shrinks nothing.  The draft *)
(* is looked up with a block to drop in the first and without in the       *)
(* second one, and the former window contains the latter.                  *)
FirstPass ==
  /\ turn < 4 => ~verified /\ found["draft"] = NoBlocks
  /\ turn = 4 => verified /\ WindowOf(curr)
SecondPass ==
  /\ curr = hit
  /\ hit = 0 \/ hit \in mamba
  /\ WindowOf(hit)
  /\ turn < 4 => verified
  /\ turn = 4 /\ WindowCached(hit, 0) => found["draft"] = hit
DraftInv ==
  /\ call = "runs" /\ order[2] = "mamba" => IF hit < limit THEN SecondPass ELSE FirstPass
  /\ DraftWindow

(* Lengths count whole blocks.                                             *)
LEMMA DivType == ASSUME NEW n \in Lengths PROVE n \div HashBlock \in Int
BY HitAssumption DEF Lengths

(* The window with a block to drop contains the one without.               *)
LEMMA WindowShrinks ==
  ASSUME NEW n \in Lengths, WindowCached(n, 1) PROVE WindowCached(n, 0)
<1> DEFINE d == n \div HashBlock
<1>1. d \in Int
  BY DivType
<1>2. \A i \in DraftBlocks : i < d + 1 /\ i >= (d + 1) - Window - 1 => i \in draft
  BY Zenon DEF WindowCached
<1> HIDE DEF d
<1>3. \A i \in DraftBlocks : i < d + 0 /\ i >= (d + 0) - Window - 0 => i \in draft
  <2> SUFFICES ASSUME NEW i \in DraftBlocks, i < d + 0, i >= (d + 0) - Window - 0 PROVE i \in draft
    OBVIOUS
  <2>1. i \in Int
    BY DEF DraftBlocks
  <2> QED
    BY <1>1, <1>2, <2>1, HitAssumption
<1> QED
  BY <1>3, Zenon DEF WindowCached, d

(* The draft group keeps what it finds when that reaches the candidate.    *)
LEMMA KeepsWindow ==
  ASSUME HitTypeOK, UNCHANGED draft, NEW n \in Lengths, n <= curr, n = 0 \/ WindowCached(n, 0),
         WindowOf(curr), DraftKeeps(n)
  PROVE  /\ curr' = curr /\ WindowOf(curr)'
         /\ n = curr => found'["draft"] = curr
         /\ \A g \in HitGroups : g # "draft" => found'[g] = found[g]
<1>1. curr \in Lengths /\ curr \in Nat /\ n \in Nat /\ found \in [HitGroups -> Lengths \cup {NoBlocks}]
  BY DEF HitTypeOK, Lengths
<1>2. curr' = curr /\ found' = IF n >= curr THEN [found EXCEPT !["draft"] = n] ELSE found
  BY DEF DraftKeeps
<1>3. WindowCached(curr, 0)' <=> WindowCached(curr, 0)
  BY <1>2 DEF WindowCached
<1>4. CASE n >= curr
  <2>1. n = curr /\ found'["draft"] = curr /\ \A g \in HitGroups : g # "draft" => found'[g] = found[g]
    BY <1>1, <1>2, <1>4 DEF HitGroups
  <2> QED
    BY <1>2, <1>3, <2>1 DEF WindowOf
<1>5. CASE ~(n >= curr)
  <2>1. n # curr /\ found' = found
    BY <1>1, <1>2, <1>5
  <2> QED
    BY <1>2, <1>3, <2>1 DEF WindowOf
<1> QED
  BY <1>4, <1>5

(* The lookup in the first pass, with a block to drop.                     *)
LEMMA DraftFirst ==
  ASSUME HitTypeOK, NEW n \in Longest(DraftHits(WithMargin(curr, limit), 1))
  PROVE  n \in Lengths /\ n <= curr /\ (n = 0 \/ WindowCached(n, 0))
<1>1. n \in Boundaries /\ (n = 0 \/ (n + 1 * HashBlock <= WithMargin(curr, limit) /\ WindowCached(n, 1)))
  BY DEF Longest, DraftHits
<1>2. n \in Lengths /\ n \in Nat /\ curr \in Nat /\ limit \in Nat /\ HashBlock \in Nat
  BY <1>1, HitAssumption DEF Boundaries, Lengths, HitTypeOK
<1>3. WithMargin(curr, limit) <= curr + HashBlock
  BY <1>2 DEF WithMargin
<1>4. n <= curr
  BY <1>1, <1>2, <1>3 DEF WithMargin
<1> QED
  BY <1>1, <1>2, <1>4, WindowShrinks

(* The lookup in the second pass, without.                                 *)
LEMMA DraftSecond ==
  ASSUME HitTypeOK, NEW n \in Longest(DraftHits(curr, 0)), curr \in Boundaries
  PROVE  /\ n \in Lengths /\ n <= curr /\ (n = 0 \/ WindowCached(n, 0))
         /\ WindowCached(curr, 0) => n = curr
<1>1. n \in Boundaries /\ (n = 0 \/ (n + 0 * HashBlock <= curr /\ WindowCached(n, 0)))
  BY DEF Longest, DraftHits
<1>2. n \in Lengths /\ n \in Nat /\ curr \in Nat /\ HashBlock \in Nat
  BY <1>1, HitAssumption DEF Boundaries, Lengths, HitTypeOK
<1>3. n <= curr
  BY <1>1, <1>2
<1>4. ASSUME WindowCached(curr, 0) PROVE curr <= n
  <2>1. curr \in DraftHits(curr, 0)
    <3>1. curr + 0 * HashBlock <= curr
      BY <1>2
    <3> QED
      BY <1>4, <3>1 DEF DraftHits
  <2> QED
    BY <2>1 DEF Longest
<1> QED
  BY <1>1, <1>2, <1>3, <1>4

-----------------------------------------------------------------------------
(* The first state.                                                        *)
LEMMA InitDraft == HitInit => DraftInv
BY DEF HitInit, DraftInv, DraftWindow

(* A new prompt starts a new lookup.                                       *)
LEMMA AskDraft == ASSUME LoopInv, Ask PROVE DraftInv'
<1>1. hit' = limit' /\ turn' = 1 /\ limit' \in Nat /\ ~verified' /\ found'["draft"] = NoBlocks /\ call' = "runs"
  BY DEF Ask, Lengths, HitGroups
<1> QED
  BY <1>1 DEF DraftInv, FirstPass, DraftWindow

(* In the first two turns nothing of the draft group changes, and in the   *)
(* second pass the candidate stays.                                        *)
LEMMA FullDraft == ASSUME LoopInv, DraftInv, LookupFull PROVE DraftInv'
<1>1. HitTypeOK /\ Bounded /\ Attention /\ call = "runs" /\ call' = "runs"
  BY DEF LoopInv, LookupFull, Turn
<1>2. turn = 1 /\ turn' = 2 /\ UNCHANGED <<full, mamba, draft, limit, order, hit>>
  BY <1>1 DEF LookupFull, Turn, HitTypeOK, LookupOrders, pool
<1> SUFFICES ASSUME order[2] = "mamba" PROVE IF hit < limit THEN SecondPass' ELSE FirstPass'
  BY <1>1, <1>2 DEF DraftInv, DraftWindow
<1>3. CASE found["full"] # NoBlocks
  <2>1. curr' = curr /\ found' = found /\ verified' = verified
    BY <1>1, <1>3 DEF LookupFull, Attention, HitTypeOK, Lengths, Boundaries
  <2> QED
    BY <1>1, <1>2, <2>1 DEF DraftInv, SecondPass, FirstPass, WindowOf, WindowCached
<1>4. CASE found["full"] = NoBlocks
  <2>1. curr = limit /\ hit = limit
    BY <1>1, <1>4 DEF Attention, Bounded, HitTypeOK, Lengths
  <2>2. ~verified /\ found["draft"] = NoBlocks
    BY <1>1, <1>2, <2>1 DEF DraftInv, FirstPass, HitTypeOK, Lengths
  <2>3. PICK n \in Longest(FullHits(curr)) : Settle("full", n)
    BY <1>4 DEF LookupFull
  <2>4. ~verified' /\ found'["draft"] = NoBlocks
    BY <1>1, <2>2, <2>3 DEF Settle, HitTypeOK, HitGroups
  <2> QED
    BY <1>1, <1>2, <2>1, <2>4 DEF FirstPass, HitTypeOK, Lengths
<1> QED
  BY <1>3, <1>4

(* The state's turn only lowers the candidate.                             *)
LEMMA StateDraft == ASSUME LoopInv, DraftInv, LookupState PROVE DraftInv'
<1>1. HitTypeOK /\ Bounded /\ Attention /\ call = "runs" /\ call' = "runs"
  BY DEF LoopInv, LookupState, Turn
<1>2. UNCHANGED <<full, mamba, draft, limit, order, hit>> /\ turn' = turn + 1 /\ order[turn] = "mamba"
      /\ turn \in 2 .. 3
  BY <1>1 DEF LookupState, Turn, HitTypeOK, LookupOrders, pool
<1> SUFFICES ASSUME order[2] = "mamba" PROVE IF hit < limit THEN SecondPass' ELSE FirstPass'
  BY <1>1, <1>2 DEF DraftInv, DraftWindow
<1>3. turn = 2 /\ turn' = 3
  BY <1>1, <1>2 DEF HitTypeOK, LookupOrders
<1>4. PICK n \in Longest(StateHits(curr)) : Settle("mamba", n)
  BY DEF LookupState
<1>5. curr' = n /\ verified' = (verified /\ n >= curr) /\ found'["draft"] = found["draft"]
  BY <1>1, <1>4 DEF Settle, HitTypeOK, HitGroups
<1>6. CASE ~(hit < limit)
  <2>1. ~verified /\ found["draft"] = NoBlocks
    BY <1>1, <1>3, <1>6 DEF DraftInv, FirstPass
  <2>2. ~verified'
    BY <1>5, <2>1
  <2> QED
    BY <1>2, <1>3, <1>5, <1>6, <2>1, <2>2 DEF FirstPass
<1>7. CASE hit < limit
  <2>1. SecondPass
    BY <1>1, <1>7 DEF DraftInv
  <2>2. curr \in StateHits(curr)
    BY <1>1, <1>3, <2>1 DEF StateHits, SecondPass, Attention, HitTypeOK, Lengths
  <2>3. n = curr /\ n >= curr
    BY <1>1, <2>2 DEF Longest, StateHits, Boundaries, Lengths, HitTypeOK
  <2>4. verified'
    <3>1. verified
      BY <1>3, <2>1 DEF SecondPass
    <3> QED
      BY <1>5, <2>3, <3>1, Zenon
  <2>5. curr' = curr /\ found'["draft"] = found["draft"]
    BY <1>5, <2>3
  <2> QED
    BY <1>2, <1>3, <1>7, <2>1, <2>4, <2>5 DEF SecondPass, WindowOf, WindowCached
<1> QED
  BY <1>6, <1>7

(* The draft's turn: its first lookup drops a block, its second does not.  *)
LEMMA DraftDraft == ASSUME LoopInv, DraftInv, LookupDraft PROVE DraftInv'
<1>1. HitTypeOK /\ Bounded /\ Attention /\ AfterState /\ call = "runs" /\ call' = "runs"
  BY DEF LoopInv, LookupDraft, Turn
<1>2. UNCHANGED <<full, mamba, draft, limit, order, hit>> /\ turn' = turn + 1 /\ order[turn] = "draft"
      /\ turn < 4
  BY <1>1 DEF LookupDraft, Turn, pool
<1> SUFFICES ASSUME order[2] = "mamba" PROVE IF hit < limit THEN SecondPass' ELSE FirstPass'
  BY <1>1, <1>2 DEF DraftInv, DraftWindow
<1>3. turn = 3 /\ turn' = 4
  BY <1>1, <1>2 DEF HitTypeOK, LookupOrders
<1>4. CASE ~(hit < limit)
  <2>1. ~verified /\ found["draft"] = NoBlocks
    BY <1>1, <1>3, <1>4 DEF DraftInv, FirstPass
  <2>2. PICK n \in Longest(DraftHits(WithMargin(curr, limit), 1)) : DraftKeeps(n) /\ verified' = TRUE
    BY <2>1 DEF LookupDraft
  <2>3. n \in Lengths /\ n <= curr /\ (n = 0 \/ WindowCached(n, 0))
    BY <1>1, DraftFirst
  <2>4. WindowOf(curr)'
    BY <1>1, <1>2, <2>1, <2>2, <2>3, KeepsWindow DEF WindowOf
  <2> QED
    BY <1>3, <1>4, <2>2, <2>4 DEF FirstPass
<1>5. CASE hit < limit
  <2>1. SecondPass /\ verified
    BY <1>1, <1>3, <1>5 DEF DraftInv, SecondPass
  <2>2. PICK n \in Longest(DraftHits(curr, 0)) : DraftKeeps(n)
    BY <2>1 DEF LookupDraft
  <2>3. curr \in Boundaries
    BY <1>1, <1>3 DEF Attention
  <2>4. n \in Lengths /\ n <= curr /\ (n = 0 \/ WindowCached(n, 0)) /\ (WindowCached(curr, 0) => n = curr)
    BY <1>1, <2>3, DraftSecond
  <2>5. curr' = curr /\ WindowOf(curr)' /\ (WindowCached(curr, 0) => found'["draft"] = curr)
    BY <1>1, <1>2, <2>1, <2>2, <2>4, KeepsWindow DEF SecondPass
  <2> QED
    BY <1>2, <1>3, <1>5, <2>1, <2>5 DEF SecondPass, WindowOf, WindowCached
<1> QED
  BY <1>4, <1>5

(* At the end of a pass either nothing shrank, and the blocks are those of *)
(* the hit, or this was the first pass.                                    *)
LEMMA EndDraft == ASSUME LoopInv, DraftInv, EndPass PROVE DraftInv'
<1>1. HitTypeOK /\ Bounded /\ Attention /\ AfterState /\ call = "runs" /\ turn = 4
  BY DEF LoopInv, EndPass
<1>2. UNCHANGED <<full, mamba, draft, limit, order, curr, verified>>
  BY DEF EndPass, pool
<1> SUFFICES ASSUME order[2] = "mamba" PROVE DraftInv'
  BY <1>2 DEF DraftInv, DraftWindow
<1>3. CASE Stable
  <2>1. call' = "returned" /\ hit' = hit /\ hit = curr /\ found'["draft"] = found["draft"]
    BY <1>1, <1>3 DEF EndPass, Stable, Bounded, HitTypeOK, HitGroups, Lengths
  <2>2. WindowOf(hit) /\ (hit < limit /\ WindowCached(hit, 0) => found["draft"] = hit)
    BY <1>1, <2>1 DEF DraftInv, SecondPass, FirstPass
  <2>3. DraftWindow'
    BY <1>2, <2>1, <2>2 DEF DraftWindow, WindowOf, WindowCached
  <2> QED
    BY <2>1, <2>3 DEF DraftInv
<1>4. CASE ~Stable
  <2>1. call' = "runs" /\ hit' = curr /\ turn' = 1 /\ found' = found
    BY <1>1, <1>4 DEF EndPass
  <2>2. ~(hit < limit) /\ curr < limit
    BY <1>1, <1>4 DEF DraftInv, SecondPass, Stable, Bounded, HitTypeOK, Lengths
  <2>3. verified /\ WindowOf(curr) /\ (curr = 0 \/ curr \in mamba)
    BY <1>1, <2>2 DEF DraftInv, FirstPass, AfterState
  <2>4. SecondPass'
    BY <1>2, <2>1, <2>3 DEF SecondPass, WindowOf, WindowCached
  <2> QED
    BY <1>2, <2>1, <2>2, <2>4 DEF DraftInv, DraftWindow
<1> QED
  BY <1>3, <1>4

(* With the draft group last, its blocks are the window of exactly the     *)
(* hit, or none; and a hit below the limit whose window is cached gets it. *)
THEOREM WindowFollows == HitSpec => []DraftWindow
<1> DEFINE Inv == LoopInv /\ DraftInv
<1>1. HitInit => Inv
  BY HitInitial, InitDraft
<1>2. Inv /\ [HitNext]_hitVars => Inv'
  <2> SUFFICES ASSUME Inv, [HitNext]_hitVars PROVE Inv'
    OBVIOUS
  <2>1. LoopInv'
    BY AskKeeps, FullKeeps, StateKeeps, DraftTurn, EndKeeps, HitStutters DEF HitNext
  <2>2. CASE UNCHANGED hitVars
    BY <2>1, <2>2 DEF hitVars, pool, DraftInv, SecondPass, FirstPass, WindowOf, WindowCached, DraftWindow
  <2>3. QED
    BY <2>1, <2>2, AskDraft, FullDraft, StateDraft, DraftDraft, EndDraft DEF HitNext
<1>3. Inv => DraftWindow
  BY DEF DraftInv
<1> QED
  BY <1>1, <1>2, <1>3, PTL DEF HitSpec

-----------------------------------------------------------------------------
(* KdaStash: the state that a launch starts from.                          *)

Steps == {"mark", "replay", "verify", "done"}
Cells == [mark : Parities \cup {NoMark}, val : Seq(Int)]

Typed ==
  /\ rows \in [Prog -> [Slots -> Cells]]
  /\ aux \in [Slots -> [Parities -> Int]]
  /\ launch \in Nat /\ width \in 0 .. MaxSpec + 1 /\ nAcc \in 1 .. MaxSpec + 1
  /\ fullMode \in BOOLEAN
  /\ committed \in Seq(Int)
  /\ step \in [Prog -> Steps]
  /\ at \in [Prog -> 0 .. MaxSpec + 1]
  /\ par \in [Prog -> Parities]
  /\ h \in [Prog -> Seq(Int)]

(* The parity of the last records, read from the marker or still to be.    *)
Found(p) == IF Marked(p, 1) THEN rows[p][1].mark ELSE 1
Previous(p) == IF step[p] = "mark" THEN Found(p) ELSE par[p]
OneParity == \A p, q \in Prog : Previous(p) = Previous(q)

(* What a program that has not verified yet starts from: the state of the  *)
(* committed tokens, or an older state and the records of the tokens since,*)
(* whose shared parts are in the half of the previous parity.              *)
Base == Len(committed) - nAcc + 1
Replays(p) == nAcc > 1 /\ Marked(p, nAcc - 1)
RecordsHeld(p) ==
  \A j \in 1 .. nAcc - 1 :
    /\ rows[p][j].val = <<committed[Base + j]>>
    /\ aux[j][Previous(p)] = committed[Base + j]
Prior(p) ==
  IF Replays(p)
  THEN /\ nAcc <= Len(committed) + 1
       /\ rows[p][0].val = SubSeq(committed, 1, Base)
       /\ RecordsHeld(p)
  ELSE rows[p][nAcc - 1].val = committed

Replaying(p) ==
  /\ Replays(p)
  /\ at[p] \in 1 .. nAcc - 1
  /\ h[p] = SubSeq(committed, 1, Base + at[p] - 1)

(* What a program has stored of this launch, up to its n-th token.         *)
Written(p, n) ==
  \A j \in 0 .. n - 1 :
    IF j = 0 \/ fullMode
    THEN rows[p][j] = State(committed \o Tokens(launch, j + 1))
    ELSE /\ rows[p][j] = Stored(p, j)
         /\ p = 0 => aux[j][NewParity(p)] = Token(launch, j)

InLaunch(p) ==
  /\ step[p] \in {"mark", "replay"} => Prior(p)
  /\ step[p] = "replay" => Replaying(p)
  /\ step[p] = "verify" => at[p] < width /\ Written(p, at[p])
  /\ step[p] = "done" => Written(p, width)

(* Before the first launch, and when the sequence was moved.               *)
Rested(p) ==
  /\ step[p] = "done"
  /\ nAcc = 1
  /\ rows[p][0].val = committed
FoundAlike == \A p, q \in Prog : Found(p) = Found(q)

StashInv ==
  /\ Typed
  /\ OneParity
  /\ IF launch = 0 \/ width = 0
     THEN (launch = 0 => width = 1 /\ committed = <<>>) /\ FoundAlike /\ \A p \in Prog : Rested(p)
     ELSE width >= 2 /\ \A p \in Prog : InLaunch(p)
  /\ Rebuilt

-----------------------------------------------------------------------------
(* Tokens of a launch, and sequences that grow by them.                    *)
LEMMA TokenType == ASSUME NEW l \in Nat, NEW i \in Nat PROVE Token(l, i) \in Int
<1>1. l * (MaxSpec + 1) \in Int
  BY StashAssumption
<1> QED
  BY <1>1 DEF Token

(* A launch's tokens are a sequence of integers.                           *)
LEMMA TokensType ==
  ASSUME NEW l \in Nat, NEW n \in Nat
  PROVE  /\ Tokens(l, n) \in Seq(Int) /\ Len(Tokens(l, n)) = n
         /\ \A i \in 1 .. n : Tokens(l, n)[i] = Token(l, i - 1)
<1>1. \A i \in 1 .. n : Token(l, i - 1) \in Int
  BY TokenType
<1> QED
  BY <1>1, SMT DEF Tokens

(* The committed sequence and the first tokens of a launch.                *)
LEMMA WithTokens ==
  ASSUME NEW c \in Seq(Int), NEW l \in Nat, NEW n \in Nat
  PROVE  /\ c \o Tokens(l, n) \in Seq(Int)
         /\ Len(c \o Tokens(l, n)) = Len(c) + n
         /\ \A i \in 1 .. Len(c) : (c \o Tokens(l, n))[i] = c[i]
         /\ \A i \in 1 .. n : (c \o Tokens(l, n))[Len(c) + i] = Token(l, i - 1)
<1>1. /\ Tokens(l, n) \in Seq(Int) /\ Len(Tokens(l, n)) = n
      /\ \A i \in 1 .. n : Tokens(l, n)[i] = Token(l, i - 1)
  BY TokensType
<1>2. Len(c) \in Nat
  BY LenProperties
<1> HIDE DEF Tokens
<1>3. /\ c \o Tokens(l, n) \in Seq(Int)
      /\ Len(c \o Tokens(l, n)) = Len(c) + n
      /\ \A i \in 1 .. Len(c) + n : (c \o Tokens(l, n))[i] =
           IF i <= Len(c) THEN c[i] ELSE Tokens(l, n)[i - Len(c)]
  BY <1>1, ConcatProperties
<1>4. ASSUME NEW i \in 1 .. n PROVE (c \o Tokens(l, n))[Len(c) + i] = Token(l, i - 1)
  <2>1. Len(c) + i \in 1 .. Len(c) + n /\ ~(Len(c) + i <= Len(c)) /\ (Len(c) + i) - Len(c) = i
    BY <1>2
  <2> QED
    BY <2>1, <1>3, <1>1
<1>5. ASSUME NEW i \in 1 .. Len(c) PROVE (c \o Tokens(l, n))[i] = c[i]
  BY <1>2, <1>3
<1> QED
  BY <1>3, <1>4, <1>5

(* A prefix that is one token longer.                                      *)
LEMMA Extends ==
  ASSUME NEW c \in Seq(Int), NEW l \in Nat, NEW n \in Nat
  PROVE  Append(c \o Tokens(l, n), Token(l, n)) = c \o Tokens(l, n + 1)
<1> DEFINE s == c \o Tokens(l, n)
           t == c \o Tokens(l, n + 1)
<1>1. /\ s \in Seq(Int) /\ Len(s) = Len(c) + n
      /\ \A i \in 1 .. Len(c) : s[i] = c[i]
      /\ \A i \in 1 .. n : s[Len(c) + i] = Token(l, i - 1)
  BY WithTokens
<1>0. n + 1 \in Nat
  OBVIOUS
<1>2. /\ t \in Seq(Int) /\ Len(t) = Len(c) + (n + 1)
      /\ \A i \in 1 .. Len(c) : t[i] = c[i]
      /\ \A i \in 1 .. n + 1 : t[Len(c) + i] = Token(l, i - 1)
  BY <1>0, WithTokens
<1>3. Token(l, n) \in Int /\ Len(c) \in Nat
  BY TokenType, LenProperties
<1> HIDE DEF s, t
<1>4. /\ Append(s, Token(l, n)) \in Seq(Int) /\ Len(Append(s, Token(l, n))) = Len(s) + 1
      /\ \A i \in 1 .. Len(s) : Append(s, Token(l, n))[i] = s[i]
      /\ Append(s, Token(l, n))[Len(s) + 1] = Token(l, n)
  BY <1>1, <1>3, AppendProperties
<1>5. ASSUME NEW i \in 1 .. Len(c) + n + 1 PROVE Append(s, Token(l, n))[i] = t[i]
  <2>1. CASE i <= Len(c)
    BY <2>1, <1>1, <1>2, <1>3, <1>4
  <2>2. CASE i > Len(c) /\ i <= Len(c) + n
    <3>1. PICK k \in 1 .. n : i = Len(c) + k
      <4>1. i - Len(c) \in 1 .. n /\ i = Len(c) + (i - Len(c))
        BY <2>2, <1>3
      <4> QED
        BY <4>1
    <3>2. s[i] = Token(l, k - 1) /\ t[i] = Token(l, k - 1)
      <4>1. k \in 1 .. n + 1
        OBVIOUS
      <4> QED
        BY <3>1, <4>1, <1>1, <1>2
    <3>3. i \in 1 .. Len(s)
      BY <2>2, <1>1, <1>3
    <3> QED
      BY <3>2, <3>3, <1>4
  <2>3. CASE i = Len(c) + (n + 1)
    <3>1. t[i] = Token(l, (n + 1) - 1)
      <4>1. n + 1 \in 1 .. n + 1
        OBVIOUS
      <4> QED
        BY <4>1, <2>3, <1>2
    <3>3. (n + 1) - 1 = n
      OBVIOUS
    <3>2. i = Len(s) + 1
      BY <2>3, <1>1, <1>3
    <3> QED
      BY <3>1, <3>2, <3>3, <1>4
  <2>4. \A d \in Nat : i <= d \/ (i > d /\ i <= d + n) \/ i = d + (n + 1) \/ i > d + (n + 1)
    OBVIOUS
  <2>5. ~(i > Len(c) + (n + 1))
    BY <1>3
  <2> QED
    BY <2>1, <2>2, <2>3, <2>4, <2>5, <1>3
<1>6. Len(Append(s, Token(l, n))) = Len(t) /\ Len(t) = Len(c) + n + 1
  BY <1>1, <1>2, <1>3, <1>4
<1>7. Append(s, Token(l, n)) = t
  BY <1>2, <1>4, <1>5, <1>6, SeqEqual
<1> QED
  BY <1>7 DEF s, t

(* A prefix grows by the element after it.                                 *)
LEMMA PrefixGrows ==
  ASSUME NEW s \in Seq(Int), NEW k \in Nat, k < Len(s)
  PROVE  Append(SubSeq(s, 1, k), s[k + 1]) = SubSeq(s, 1, k + 1)
<1>1. Len(s) \in Nat
  BY LenProperties
<1>2. 1 \in 1 .. Len(s) + 1 /\ k + 1 \in 1 - 1 .. Len(s) /\ 1 <= k + 1 /\ 1 \in Nat
  BY <1>1
<1> QED
  BY <1>1, <1>2, SubSeqRecursiveSecond

LEMMA WholeIsPrefix == ASSUME NEW s \in Seq(Int) PROVE SubSeq(s, 1, Len(s)) = s
  BY SubSeqFull

(* No token at all.                                                        *)
LEMMA NoTokens ==
  ASSUME NEW c \in Seq(Int), NEW l \in Nat PROVE c \o Tokens(l, 0) = c
<1>1. Tokens(l, 0) = <<>>
  BY TokensType, EmptySeq
<1> QED
  BY <1>1, ConcatEmptySeq

-----------------------------------------------------------------------------
(* The first state.                                                        *)
LEMMA InitStash == StashInit => StashInv
<1> SUFFICES ASSUME StashInit PROVE StashInv
  OBVIOUS
<1>1. <<>> \in Seq(Int)
  BY EmptySeq
<1>2. State(<<>>) \in Cells
  BY <1>1 DEF State, Cells, NoMark
<1>3. Typed
  <2>1. fullMode \in BOOLEAN
    BY Zenon DEF StashInit
  <2>2. /\ rows \in [Prog -> [Slots -> Cells]]
        /\ h \in [Prog -> Seq(Int)] /\ committed \in Seq(Int)
    BY <1>1, <1>2 DEF StashInit
  <2>3. /\ aux \in [Slots -> [Parities -> Int]]
        /\ step \in [Prog -> Steps] /\ par \in [Prog -> Parities]
    BY DEF StashInit, Torn, Steps, Parities
  <2>4. launch \in Nat /\ width \in 0 .. MaxSpec + 1 /\ nAcc \in 1 .. MaxSpec + 1
    BY StashAssumption DEF StashInit
  <2>5. at \in [Prog -> 0 .. MaxSpec + 1]
    BY StashAssumption DEF StashInit
  <2> QED
    BY <2>1, <2>2, <2>3, <2>4, <2>5, Zenon DEF Typed
<1>4. 1 \in Slots /\ 0 \in Slots
  BY StashAssumption DEF Slots
<1>5. \A p \in Prog : ~Marked(p, 1) /\ rows[p][0].val = <<>>
  BY <1>4 DEF StashInit, Marked, State
<1>6. OneParity /\ FoundAlike /\ \A p \in Prog : Rested(p)
  BY <1>5 DEF StashInit, OneParity, FoundAlike, Previous, Found, Rested
<1>7. Rebuilt
  BY DEF StashInit, Rebuilt
<1> QED
  BY <1>3, <1>6, <1>7 DEF StashInv, StashInit

(* A program only works during a launch.                                   *)
LEMMA AtWork ==
  ASSUME StashInv, NEW p \in Prog, step[p] # "done"
  PROVE  launch # 0 /\ width # 0 /\ width >= 2 /\ \A q \in Prog : InLaunch(q)
BY DEF StashInv, Rested

(* What stays of a program when only another one does something.           *)
LEMMA OthersAlone ==
  ASSUME NEW p \in Prog,
         UNCHANGED <<launch, width, fullMode, nAcc, committed>>,
         step'[p] = step[p], at'[p] = at[p], par'[p] = par[p], h'[p] = h[p],
         rows'[p] = rows[p],
         \A j \in 1 .. nAcc - 1 : step[p] \in {"mark", "replay"} =>
           aux'[j][Previous(p)] = aux[j][Previous(p)],
         p = 0 => aux' = aux,
         InLaunch(p), step[p] = "verify" => h[p] = committed \o Tokens(launch, at[p])
  PROVE  /\ Previous(p)' = Previous(p)
         /\ InLaunch(p)'
         /\ step'[p] = "verify" => h'[p] = committed' \o Tokens(launch', at'[p])
<1>1. Previous(p)' = Previous(p)
  BY DEF Previous, Found, Marked
<1>2. Base' = Base
  BY DEF Base
<1>3. step[p] \in {"mark", "replay"} => (Prior(p) <=> Prior(p)')
  <2> SUFFICES ASSUME step[p] \in {"mark", "replay"} PROVE Prior(p) <=> Prior(p)'
    OBVIOUS
  <2>1. RecordsHeld(p) <=> RecordsHeld(p)'
    BY <1>1, <1>2 DEF RecordsHeld
  <2> QED
    BY <1>2, <2>1 DEF Prior, Replays, Marked
<1>4. Replaying(p) <=> Replaying(p)'
  BY <1>2 DEF Replaying, Replays, Marked
<1>6. Written(p, at[p]) => Written(p, at[p])'
  BY DEF Written, Stored, NewParity
<1>7. Written(p, width) => Written(p, width)'
  BY DEF Written, Stored, NewParity
<1> QED
  BY <1>1, <1>3, <1>4, <1>6, <1>7 DEF InLaunch

-----------------------------------------------------------------------------
(* A program reads its marker and chooses where to start.                  *)
LEMMA ReadKeeps == ASSUME StashInv, NEW p \in Prog, ReadMark(p) PROVE StashInv'
<1> DEFINE replays == nAcc > 1 /\ Marked(p, nAcc - 1)
<1>1. /\ launch # 0 /\ width # 0 /\ width >= 2 /\ \A q \in Prog : InLaunch(q)
      /\ step[p] = "mark"
  BY AtWork DEF ReadMark
<1>2. Typed /\ OneParity /\ Rebuilt
  BY DEF StashInv
<1>3. UNCHANGED <<rows, aux, launch, width, fullMode, nAcc, committed>>
  BY DEF ReadMark
<1>4. nAcc - 1 \in Slots /\ 1 \in Slots /\ 0 \in Slots
  BY <1>2, StashAssumption DEF Typed, Slots
<1>5. par' = [par EXCEPT ![p] = Found(p)] /\ Found(p) \in Parities
  <2>1. rows[p][1].mark \in Parities \cup {NoMark}
    BY <1>2, <1>4 DEF Typed, Cells
  <2> QED
    BY <2>1 DEF ReadMark, Found, Marked, NoMark, Parities
<1>6. /\ h' = [h EXCEPT ![p] = rows[p][IF replays THEN 0 ELSE nAcc - 1].val]
      /\ step' = [step EXCEPT ![p] = IF replays THEN "replay" ELSE "verify"]
      /\ at' = [at EXCEPT ![p] = IF replays THEN 1 ELSE 0]
  BY DEF ReadMark, Go
<1>7. Typed'
  <2>1. rows[p][IF replays THEN 0 ELSE nAcc - 1].val \in Seq(Int)
    BY <1>2, <1>4 DEF Typed, Cells
  <2>2. h' \in [Prog -> Seq(Int)] /\ par' \in [Prog -> Parities]
    BY <2>1, <1>2, <1>5, <1>6 DEF Typed
  <2>3. step' \in [Prog -> Steps] /\ at' \in [Prog -> 0 .. MaxSpec + 1]
    BY <1>2, <1>6, StashAssumption DEF Typed, Steps
  <2> QED
    BY <2>2, <2>3, <1>2, <1>3 DEF Typed
<1>8. par'[p] = Found(p) /\ step'[p] # "mark"
  BY <1>2, <1>5, <1>6 DEF Typed
<1>9. Previous(p)' = Previous(p)
  BY <1>1, <1>8 DEF Previous
<1>10. ASSUME NEW q \in Prog, q # p
       PROVE  /\ Previous(q)' = Previous(q)
              /\ InLaunch(q)'
              /\ step'[q] = "verify" => h'[q] = committed' \o Tokens(launch', at'[q])
  <2>1. step'[q] = step[q] /\ at'[q] = at[q] /\ par'[q] = par[q] /\ h'[q] = h[q]
    BY <1>2, <1>5, <1>6, <1>10 DEF Typed
  <2>2. InLaunch(q) /\ (step[q] = "verify" => h[q] = committed \o Tokens(launch, at[q]))
    BY <1>1, <1>2 DEF Rebuilt
  <2> QED
    BY <2>1, <2>2, <1>3, OthersAlone
<1>11. Prior(p)
  BY <1>1 DEF InLaunch
<1>12. Base' = Base /\ (Replays(p)' <=> Replays(p)) /\ (Replays(p) <=> replays)
  BY <1>3 DEF Base, Replays, Marked
<1>13. Prior(p)'
  <2>1. RecordsHeld(p) <=> RecordsHeld(p)'
    BY <1>3, <1>9, <1>12 DEF RecordsHeld
  <2> QED
    BY <1>3, <1>11, <1>12, <2>1 DEF Prior
<1>14. ASSUME replays PROVE InLaunch(p)' /\ step'[p] = "replay"
  <2>1. step'[p] = "replay" /\ at'[p] = 1 /\ h'[p] = rows[p][0].val
    BY <1>14, <1>2, <1>6 DEF Typed
  <2>2. h'[p] = SubSeq(committed, 1, Base)
    BY <2>1, <1>11, <1>12, <1>14 DEF Prior
  <2>3. Base + 1 - 1 = Base
    BY <1>2, LenProperties DEF Base, Typed
  <2>4. 1 \in 1 .. nAcc - 1
    BY <1>2, <1>14 DEF Typed
  <2>5. Replaying(p)'
    BY <1>3, <1>12, <1>14, <2>1, <2>2, <2>3, <2>4 DEF Replaying
  <2> QED
    BY <2>1, <2>5, <1>13 DEF InLaunch
<1>15. ASSUME ~replays
       PROVE  InLaunch(p)' /\ h'[p] = committed' \o Tokens(launch', at'[p])
  <2>1. step'[p] = "verify" /\ at'[p] = 0 /\ h'[p] = rows[p][nAcc - 1].val
    BY <1>15, <1>2, <1>6 DEF Typed
  <2>2. h'[p] = committed
    BY <2>1, <1>11, <1>12, <1>15 DEF Prior
  <2>3. h'[p] = committed' \o Tokens(launch', at'[p])
    BY <2>1, <2>2, <1>2, <1>3, NoTokens DEF Typed
  <2>4. InLaunch(p)'
    BY <2>1, <1>1, <1>3, <1>2 DEF InLaunch, Written, Typed
  <2> QED
    BY <2>1, <2>3, <2>4
<1>16. /\ \A q \in Prog : InLaunch(q)' /\ Previous(q)' = Previous(q)
       /\ \A q \in Prog : step'[q] = "verify" => h'[q] = committed' \o Tokens(launch', at'[q])
  <2>1. InLaunch(p)' /\ (step'[p] = "verify" => h'[p] = committed' \o Tokens(launch', at'[p]))
    BY <1>14, <1>15
  <2> QED
    BY <2>1, <1>9, <1>10
<1>17. OneParity' /\ Rebuilt'
  BY <1>2, <1>16 DEF OneParity, Rebuilt
<1> QED
  BY <1>1, <1>3, <1>7, <1>16, <1>17 DEF StashInv

-----------------------------------------------------------------------------
(* A record is folded in: its two halves are of the same token.            *)
LEMMA ReplayKeeps == ASSUME StashInv, NEW p \in Prog, ReplayOne(p) PROVE StashInv'
<1> DEFINE j == at[p]
           own == rows[p][j].val[1]
           tok == IF aux[j][par[p]] = own THEN own ELSE Torn
<1>1. /\ launch # 0 /\ width # 0 /\ width >= 2 /\ \A q \in Prog : InLaunch(q)
      /\ step[p] = "replay"
  BY AtWork DEF ReplayOne
<1>2. Typed /\ OneParity /\ Rebuilt
  BY DEF StashInv
<1>3. UNCHANGED <<rows, aux, launch, width, fullMode, nAcc, committed, par>>
  BY DEF ReplayOne
<1>4. /\ h' = [h EXCEPT ![p] = Append(h[p], tok)]
      /\ step' = [step EXCEPT ![p] = IF j + 1 < nAcc THEN "replay" ELSE "verify"]
      /\ at' = [at EXCEPT ![p] = IF j + 1 < nAcc THEN j + 1 ELSE 0]
  BY DEF ReplayOne, Go
<1>5. Prior(p) /\ Replaying(p) /\ Replays(p)
  BY <1>1 DEF InLaunch, Replaying
<1>6. /\ j \in 1 .. nAcc - 1 /\ nAcc <= Len(committed) + 1 /\ RecordsHeld(p)
      /\ h[p] = SubSeq(committed, 1, Base + j - 1)
  BY <1>5 DEF Prior, Replaying
<1>7. Len(committed) \in Nat /\ committed \in Seq(Int) /\ nAcc \in Nat
  BY <1>2, LenProperties, StashAssumption DEF Typed
<1>8. Base + j - 1 \in Nat /\ Base + j - 1 < Len(committed) /\ (Base + j - 1) + 1 = Base + j
  <2>1. \A n, a \in Nat : \A i \in 1 .. a - 1 : a <= n + 1 =>
          /\ (n - a + 1) + i - 1 \in Nat /\ (n - a + 1) + i - 1 < n
          /\ ((n - a + 1) + i - 1) + 1 = (n - a + 1) + i
    OBVIOUS
  <2> HIDE DEF j
  <2> QED
    BY <2>1, <1>6, <1>7, Zenon DEF Base
<1>9. tok = committed[Base + j]
  <2>1. rows[p][j].val = <<committed[Base + j]>> /\ aux[j][par[p]] = committed[Base + j]
    BY <1>1, <1>6 DEF RecordsHeld, Previous
  <2> QED
    BY <2>1
<1>10. Append(h[p], tok) = SubSeq(committed, 1, Base + j)
  <2> HIDE DEF tok, Base
  <2> QED
    BY <1>6, <1>7, <1>8, <1>9, PrefixGrows
<1>11. Append(h[p], tok) \in Seq(Int)
  <2>1. h[p] \in Seq(Int)
    BY <1>2 DEF Typed
  <2>2. Base + j \in 1 .. Len(committed)
    BY <1>6, <1>7 DEF Base
  <2>3. tok \in Int
    BY <1>7, <1>9, <2>2, ElementOfSeq
  <2> HIDE DEF tok
  <2> QED
    BY <2>1, <2>3, AppendProperties
<1>12. Typed'
  <2>1. h' \in [Prog -> Seq(Int)]
    BY <1>2, <1>4, <1>11 DEF Typed
  <2>2. step' \in [Prog -> Steps] /\ at' \in [Prog -> 0 .. MaxSpec + 1]
    BY <1>2, <1>4, StashAssumption DEF Typed, Steps
  <2> QED
    BY <2>1, <2>2, <1>2, <1>3 DEF Typed
<1>13. Previous(p)' = Previous(p)
  BY <1>1, <1>2, <1>3, <1>4 DEF Previous, Typed
<1>14. ASSUME NEW q \in Prog, q # p
       PROVE  /\ Previous(q)' = Previous(q)
              /\ InLaunch(q)'
              /\ step'[q] = "verify" => h'[q] = committed' \o Tokens(launch', at'[q])
  <2>1. step'[q] = step[q] /\ at'[q] = at[q] /\ par'[q] = par[q] /\ h'[q] = h[q]
    BY <1>2, <1>3, <1>4, <1>14 DEF Typed
  <2>2. InLaunch(q) /\ (step[q] = "verify" => h[q] = committed \o Tokens(launch, at[q]))
    BY <1>1, <1>2 DEF Rebuilt
  <2> QED
    BY <2>1, <2>2, <1>3, OthersAlone
<1>15. Base' = Base /\ (Replays(p)' <=> Replays(p))
  BY <1>3 DEF Base, Replays, Marked
<1>16. Prior(p)'
  <2>1. RecordsHeld(p) <=> RecordsHeld(p)'
    BY <1>3, <1>13, <1>15 DEF RecordsHeld
  <2> QED
    BY <1>3, <1>5, <1>15, <2>1 DEF Prior
<1>17. ASSUME j + 1 < nAcc PROVE InLaunch(p)' /\ step'[p] = "replay"
  <2>1. step'[p] = "replay" /\ at'[p] = j + 1 /\ h'[p] = Append(h[p], tok)
    BY <1>17, <1>2, <1>4 DEF Typed
  <2>2. j + 1 \in 1 .. nAcc - 1 /\ Base + (j + 1) - 1 = Base + j
    <3>1. Base \in Int /\ nAcc \in Nat /\ j \in 1 .. nAcc - 1 /\ j + 1 < nAcc
      BY <1>6, <1>7, <1>17 DEF Base
    <3> HIDE DEF j, Base
    <3> QED
      BY ONLY <3>1
  <2>3. h'[p] = SubSeq(committed, 1, Base + (j + 1) - 1)
    BY <2>1, <2>2, <1>10
  <2>4. Replaying(p)'
    BY <1>3, <1>5, <1>15, <2>1, <2>2, <2>3 DEF Replaying
  <2> QED
    BY <2>1, <2>4, <1>16 DEF InLaunch
<1>18. ASSUME ~(j + 1 < nAcc)
       PROVE  InLaunch(p)' /\ h'[p] = committed' \o Tokens(launch', at'[p])
  <2>1. step'[p] = "verify" /\ at'[p] = 0 /\ h'[p] = Append(h[p], tok)
    BY <1>18, <1>2, <1>4 DEF Typed
  <2>2. Base + j = Len(committed)
    <3>1. \A n, a \in Nat : \A i \in 1 .. a - 1 : ~(i + 1 < a) => (n - a + 1) + i = n
      OBVIOUS
    <3> HIDE DEF j
    <3> QED
      BY <3>1, <1>6, <1>7, <1>18, Zenon DEF Base
  <2>3. h'[p] = committed
    BY <2>1, <2>2, <1>7, <1>10, WholeIsPrefix
  <2>4. h'[p] = committed' \o Tokens(launch', at'[p])
    BY <2>1, <2>3, <1>2, <1>3, NoTokens DEF Typed
  <2>5. InLaunch(p)'
    BY <2>1, <1>1, <1>3, <1>2 DEF InLaunch, Written, Typed
  <2> QED
    BY <2>4, <2>5
<1>19. InLaunch(p)' /\ (step'[p] = "verify" => h'[p] = committed' \o Tokens(launch', at'[p]))
  BY <1>17, <1>18
<1>20. /\ \A q \in Prog : InLaunch(q)' /\ Previous(q)' = Previous(q)
       /\ \A q \in Prog : step'[q] = "verify" => h'[q] = committed' \o Tokens(launch', at'[q])
  BY <1>13, <1>14, <1>19
<1>21. OneParity' /\ Rebuilt'
  BY <1>2, <1>20 DEF OneParity, Rebuilt
<1> QED
  BY <1>1, <1>3, <1>12, <1>20, <1>21 DEF StashInv

-----------------------------------------------------------------------------
(* A token is verified and stored; its shared part goes to the half that   *)
(* nobody reads in this launch.                                            *)
LEMMA VerifyKeeps == ASSUME StashInv, NEW p \in Prog, VerifyOne(p) PROVE StashInv'
<1> DEFINE i == at[p]
           s == Append(h[p], Token(launch, i))
           keeps == i = 0 \/ fullMode
           cell == IF keeps THEN State(s) ELSE Stored(p, i)
           Holds(j) == IF j = 0 \/ fullMode
                       THEN rows'[p][j] = State(committed \o Tokens(launch, j + 1))
                       ELSE /\ rows'[p][j] = Stored(p, j)
                            /\ p = 0 => aux'[j][NewParity(p)] = Token(launch, j)
<1>1. /\ launch # 0 /\ width # 0 /\ width >= 2 /\ \A q \in Prog : InLaunch(q)
      /\ step[p] = "verify"
  BY AtWork DEF VerifyOne
<1>2. Typed /\ OneParity /\ Rebuilt
  BY DEF StashInv
<1>3. UNCHANGED <<launch, width, fullMode, nAcc, committed, par>>
  BY DEF VerifyOne
<1>4. /\ h' = [h EXCEPT ![p] = s]
      /\ rows' = [rows EXCEPT ![p][i] = cell]
      /\ aux' = IF keeps \/ p # 0 THEN aux
                ELSE [aux EXCEPT ![i][NewParity(p)] = Token(launch, i)]
      /\ step' = [step EXCEPT ![p] = IF i + 1 < width THEN "verify" ELSE "done"]
      /\ at' = [at EXCEPT ![p] = IF i + 1 < width THEN i + 1 ELSE 0]
  BY DEF VerifyOne, Go
<1>5. i < width /\ Written(p, i)
  BY <1>1 DEF InLaunch
<1>6. i \in Nat /\ i \in Slots /\ i + 1 \in Nat /\ width \in Nat /\ launch \in Nat /\ i + 1 <= MaxSpec + 1
  BY <1>2, <1>5, StashAssumption DEF Typed, Slots
<1>7. s = committed \o Tokens(launch, i + 1)
  <2>1. h[p] = committed \o Tokens(launch, i)
    BY <1>1, <1>2 DEF Rebuilt
  <2> QED
    BY <2>1, <1>2, <1>6, Extends DEF Typed
<1>8. s \in Seq(Int) /\ Token(launch, i) \in Int
  <2>1. committed \o Tokens(launch, i + 1) \in Seq(Int)
    BY <1>2, <1>6, WithTokens DEF Typed
  <2>2. Token(launch, i) \in Int
    BY <1>6, TokenType
  <2> QED
    BY <2>1, <2>2, <1>7
<1>9. NewParity(p) \in Parities /\ NewParity(p) # par[p] /\ par[p] \in Parities
  BY <1>2 DEF NewParity, Parities, Typed
<1>10. cell \in Cells
  <2>1. <<Token(launch, i)>> \in Seq(Int)
    BY <1>8
  <2> QED
    BY <2>1, <1>8, <1>9 DEF State, Stored, Record, Cells
<1>11. Typed'
  <2>1. rows' \in [Prog -> [Slots -> Cells]]
    BY <1>2, <1>4, <1>6, <1>10 DEF Typed
  <2>2. aux' \in [Slots -> [Parities -> Int]]
    BY <1>2, <1>4, <1>6, <1>8, <1>9 DEF Typed
  <2>3. h' \in [Prog -> Seq(Int)] /\ step' \in [Prog -> Steps] /\ at' \in [Prog -> 0 .. MaxSpec + 1]
    BY <1>2, <1>4, <1>6, <1>8, StashAssumption DEF Typed, Steps
  <2> QED
    BY <2>1, <2>2, <2>3, <1>2, <1>3 DEF Typed
<1>12. Previous(p) = par[p] /\ Previous(p)' = par[p]
  BY <1>1, <1>2, <1>3, <1>4 DEF Previous, Typed
<1>13. ASSUME NEW q \in Prog, q # p
       PROVE  /\ Previous(q)' = Previous(q)
              /\ InLaunch(q)'
              /\ step'[q] = "verify" => h'[q] = committed' \o Tokens(launch', at'[q])
  <2>1. /\ step'[q] = step[q] /\ at'[q] = at[q] /\ par'[q] = par[q] /\ h'[q] = h[q]
        /\ rows'[q] = rows[q]
    BY <1>2, <1>3, <1>4, <1>13 DEF Typed
  <2>2. InLaunch(q) /\ (step[q] = "verify" => h[q] = committed \o Tokens(launch, at[q]))
    BY <1>1, <1>2 DEF Rebuilt
  <2>3. Previous(q) = par[p]
    BY <1>2, <1>12 DEF OneParity
  <2>4. ASSUME NEW j \in 1 .. nAcc - 1 PROVE aux'[j][Previous(q)] = aux[j][Previous(q)]
    <3>1. j \in Slots
      BY <1>2, StashAssumption DEF Typed, Slots
    <3> QED
      BY <3>1, <2>3, <1>2, <1>4, <1>6, <1>9 DEF Typed
  <2>5. q = 0 => aux' = aux
    BY <1>4, <1>13
  <2> QED
    BY <2>1, <2>2, <2>4, <2>5, <1>3, OthersAlone
<1>14. ASSUME NEW j \in 0 .. (i + 1) - 1 PROVE Holds(j)
  <2>1. CASE j = i
    <3>1. rows'[p][j] = cell
      BY <2>1, <1>2, <1>4, <1>6 DEF Typed
    <3>2. ~keeps /\ p = 0 => aux'[j][NewParity(p)] = Token(launch, j)
      BY <2>1, <1>2, <1>4, <1>6, <1>9 DEF Typed
    <3> QED
      BY <2>1, <3>1, <3>2, <1>7
  <2>2. CASE j # i
    <3>1. j \in 0 .. i - 1 /\ j \in Slots
      <4>1. \A m, a \in Nat : \A b \in 0 .. (a + 1) - 1 :
              b # a /\ a + 1 <= m + 1 => b \in 0 .. a - 1 /\ b \in 0 .. m
        OBVIOUS
      <4> HIDE DEF i
      <4> QED
        BY <4>1, <2>2, <1>6, StashAssumption, Zenon DEF Slots
    <3>2. rows'[p][j] = rows[p][j] /\ aux'[j] = aux[j]
      BY <2>2, <3>1, <1>2, <1>4, <1>6 DEF Typed
    <3> QED
      BY <3>1, <3>2, <1>5 DEF Written
  <2> QED
    BY <2>1, <2>2
<1>15. ASSUME i + 1 < width
       PROVE  InLaunch(p)' /\ h'[p] = committed' \o Tokens(launch', at'[p])
  <2>1. step'[p] = "verify" /\ at'[p] = i + 1 /\ h'[p] = s
    BY <1>15, <1>2, <1>4 DEF Typed
  <2>2. Written(p, at[p])'
    <3>1. \A j \in 0 .. at'[p] - 1 : Holds(j)
      BY <2>1, <1>14
    <3> QED
      BY <3>1, <1>3 DEF Written, Stored, NewParity
  <2> QED
    BY <2>1, <2>2, <1>3, <1>7, <1>15 DEF InLaunch
<1>16. ASSUME ~(i + 1 < width) PROVE InLaunch(p)' /\ step'[p] = "done"
  <2>1. step'[p] = "done"
    BY <1>16, <1>2, <1>4 DEF Typed
  <2>2. i + 1 = width
    BY <1>5, <1>6, <1>16
  <2>3. Written(p, width)'
    <3>1. \A j \in 0 .. width - 1 : Holds(j)
      BY <2>2, <1>14
    <3> QED
      BY <3>1, <1>3 DEF Written, Stored, NewParity
  <2> QED
    BY <2>1, <2>3 DEF InLaunch
<1>17. /\ \A q \in Prog : InLaunch(q)' /\ Previous(q)' = Previous(q)
       /\ \A q \in Prog : step'[q] = "verify" => h'[q] = committed' \o Tokens(launch', at'[q])
  <2>1. InLaunch(p)' /\ (step'[p] = "verify" => h'[p] = committed' \o Tokens(launch', at'[p]))
    BY <1>15, <1>16
  <2> QED
    BY <2>1, <1>12, <1>13
<1>18. OneParity' /\ Rebuilt'
  BY <1>2, <1>17 DEF OneParity, Rebuilt
<1> QED
  BY <1>1, <1>3, <1>11, <1>17, <1>18 DEF StashInv

-----------------------------------------------------------------------------
(* What a launch has stored, seen from the a tokens of it that are accepted*)
LEMMA FirstOfLaunch ==
  ASSUME NEW c \in Seq(Int), NEW l \in Nat, NEW a \in Nat \ {0}
  PROVE  SubSeq(c \o Tokens(l, a), 1, Len(c) + 1) = c \o Tokens(l, 1)
<1> DEFINE s == c \o Tokens(l, a)
           t == c \o Tokens(l, 1)
<1>1. /\ s \in Seq(Int) /\ Len(s) = Len(c) + a
      /\ \A i \in 1 .. Len(c) : s[i] = c[i]
      /\ \A i \in 1 .. a : s[Len(c) + i] = Token(l, i - 1)
  BY WithTokens
<1>2. /\ t \in Seq(Int) /\ Len(t) = Len(c) + 1
      /\ \A i \in 1 .. Len(c) : t[i] = c[i]
      /\ \A i \in 1 .. 1 : t[Len(c) + i] = Token(l, i - 1)
  <2>1. 1 \in Nat
    OBVIOUS
  <2> HIDE DEF s
  <2> QED
    BY <2>1, WithTokens, Zenon
<1>3. Len(c) \in Nat
  BY LenProperties
<1> HIDE DEF s, t
<1> DEFINE u == SubSeq(s, 1, Len(c) + 1)
<1>4. /\ u \in Seq(Int) /\ Len(u) = Len(c) + 1
      /\ \A i \in 1 .. Len(c) + 1 : u[i] = s[i]
  <2>1. u = [i \in 1 .. Len(c) + 1 |-> s[i]]
    <3>1. ASSUME NEW n \in Nat PROVE SubSeq(s, 1, n) = [i \in 1 .. n |-> s[i]]
      <4>1. 1 .. 1 + n - 1 = 1 .. n /\ \A i \in 1 .. n : i + 1 - 1 = i
        OBVIOUS
      <4> QED
        BY ONLY <4>1, n \in Nat DEF SubSeq
    <3>2. Len(c) + 1 \in Nat
      BY <1>3
    <3> QED
      BY <3>1, <3>2, Zenon
  <2>2. \A i \in 1 .. Len(c) + 1 : s[i] \in Int
    BY <1>1, <1>3, ElementOfSeq
  <2> HIDE DEF u
  <2> QED
    BY <2>1, <2>2, <1>3
<1>5. s[Len(c) + 1] = Token(l, 1 - 1) /\ t[Len(c) + 1] = Token(l, 1 - 1)
  <2>1. 1 \in 1 .. a /\ 1 \in 1 .. 1
    OBVIOUS
  <2> QED
    BY <2>1, <1>1, <1>2
<1>6. ASSUME NEW i \in 1 .. Len(c) + 1 PROVE u[i] = t[i]
  <2>1. i \in 1 .. Len(c) \/ i = Len(c) + 1
    BY <1>3
  <2> HIDE DEF u
  <2> QED
    BY <2>1, <1>1, <1>2, <1>4, <1>5
<1> HIDE DEF u
<1>7. u = t
  BY <1>2, <1>4, <1>6, SeqEqual
<1> QED
  BY <1>7 DEF u, s, t

(* What a launch stored is what the next one starts from, however many     *)
(* tokens were accepted.                                                   *)
LEMMA StoredStarts ==
  ASSUME StashInv, launch # 0, width # 0, \A q \in Prog : step[q] = "done",
         NEW p \in Prog, NEW a \in 1 .. width,
         NEW c, c = committed \o Tokens(launch, a)
  PROVE  /\ IF a > 1 /\ Marked(p, a - 1)
            THEN /\ a <= Len(c) + 1
                 /\ rows[p][0].val = SubSeq(c, 1, Len(c) - a + 1)
                 /\ \A j \in 1 .. a - 1 :
                      /\ rows[p][j].val = <<c[(Len(c) - a + 1) + j]>>
                      /\ aux[j][Found(p)] = c[(Len(c) - a + 1) + j]
            ELSE rows[p][a - 1].val = c
         /\ Found(p) = IF fullMode THEN 1 ELSE NewParity(p)
<1>1. width >= 2 /\ \A q \in Prog : Written(q, width)
  BY DEF StashInv, InLaunch
<1>2. Typed /\ OneParity
  BY DEF StashInv
<1>3. /\ committed \in Seq(Int) /\ Len(committed) \in Nat /\ launch \in Nat /\ a \in Nat \ {0}
      /\ width \in Nat /\ width <= MaxSpec + 1
  BY <1>2, LenProperties, StashAssumption DEF Typed
<1>4. 0 \in Prog
  BY StashAssumption DEF Prog
<1>5. NewParity(p) \in Parities /\ NewParity(p) = NewParity(0)
  <2>1. par[p] = par[0] /\ par[p] \in Parities
    BY <1>2, <1>4 DEF OneParity, Previous, Typed
  <2> QED
    BY <2>1 DEF NewParity, Parities
<1>6. Found(p) = IF fullMode THEN 1 ELSE NewParity(p)
  <2>1. 1 \in 0 .. width - 1
    BY <1>1, <1>3
  <2>2. rows[p][1] = IF fullMode THEN State(committed \o Tokens(launch, 1 + 1)) ELSE Stored(p, 1)
    <3>1. 1 # 0
      OBVIOUS
    <3> QED
      BY <2>1, <3>1, <1>1 DEF Written
  <2> QED
    BY <2>2, <1>5 DEF Found, Marked, Stored, Record, State, NoMark, Parities
<1>7. ASSUME NEW j \in 0 .. a - 1
      PROVE  IF j = 0 \/ fullMode
             THEN rows[p][j].mark = NoMark /\ rows[p][j].val = committed \o Tokens(launch, j + 1)
             ELSE /\ rows[p][j].mark # NoMark /\ rows[p][j].val = <<Token(launch, j)>>
                  /\ aux[j][NewParity(p)] = Token(launch, j)
  <2>1. j \in 0 .. width - 1
    BY <1>3
  <2>2. IF j = 0 \/ fullMode
        THEN rows[p][j] = State(committed \o Tokens(launch, j + 1))
        ELSE rows[p][j] = Stored(p, j) /\ aux[j][NewParity(p)] = Token(launch, j)
    BY <2>1, <1>1, <1>4, <1>5 DEF Written
  <2>3. CASE j = 0 \/ fullMode
    <3>1. rows[p][j] = State(committed \o Tokens(launch, j + 1))
      BY <2>2, <2>3
    <3>2. \A x : State(x).mark = NoMark /\ State(x).val = x
      BY DEF State
    <3> QED
      BY <2>3, <3>1, <3>2, Zenon
  <2>4. CASE ~(j = 0 \/ fullMode)
    <3>1. NewParity(p) # NoMark
      BY <1>5 DEF Parities, NoMark
    <3>2. rows[p][j] = Stored(p, j) /\ aux[j][NewParity(p)] = Token(launch, j)
      BY <2>2, <2>4
    <3> QED
      BY <2>4, <3>1, <3>2 DEF Stored, Record
  <2> QED
    BY <2>3, <2>4
<1>8. /\ c \in Seq(Int) /\ Len(c) = Len(committed) + a
      /\ \A i \in 1 .. a : c[Len(committed) + i] = Token(launch, i - 1)
  <2>1. committed \in Seq(Int) /\ launch \in Nat /\ a \in Nat
    BY <1>3
  <2> QED
    BY ONLY <2>1, c = committed \o Tokens(launch, a), WithTokens, Zenon
<1>9. Len(c) - a + 1 = Len(committed) + 1 /\ a <= Len(c) + 1
  <2>1. \A n \in Nat, m \in Nat \ {0} : (n + m) - m + 1 = n + 1 /\ m <= (n + m) + 1
    OBVIOUS
  <2> QED
    BY <2>1, <1>3, <1>8, Zenon
<1>10. CASE a > 1 /\ Marked(p, a - 1)
  <2>1. a - 1 \in 0 .. a - 1 /\ a - 1 # 0 /\ 0 \in 0 .. a - 1 /\ 0 + 1 = 1
    BY <1>3, <1>10
  <2>2. ~fullMode
    BY <2>1, <1>7, <1>10 DEF Marked
  <2>3. rows[p][0].val = SubSeq(c, 1, Len(c) - a + 1)
    <3>1. rows[p][0].val = committed \o Tokens(launch, 0 + 1)
      BY <2>1, <1>7
    <3> QED
      BY <3>1, <2>1, <1>3, <1>9, FirstOfLaunch
  <2>4. ASSUME NEW j \in 1 .. a - 1
        PROVE  /\ rows[p][j].val = <<c[(Len(c) - a + 1) + j]>>
               /\ aux[j][Found(p)] = c[(Len(c) - a + 1) + j]
    <3>1. j \in 0 .. a - 1 /\ j # 0 /\ j + 1 \in 1 .. a /\ (j + 1) - 1 = j
      BY <1>3
    <3>2. (Len(c) - a + 1) + j = Len(committed) + (j + 1)
      <4>1. \A n \in Nat : (n + 1) + j = n + (j + 1)
        OBVIOUS
      <4> QED
        BY <4>1, <1>3, <1>9, Zenon
    <3>3. c[(Len(c) - a + 1) + j] = Token(launch, j)
      BY <3>1, <3>2, <1>8
    <3> QED
      BY <3>1, <3>3, <2>2, <1>6, <1>7
  <2> QED
    BY <2>3, <2>4, <1>6, <1>9, <1>10
<1>11. CASE ~(a > 1 /\ Marked(p, a - 1))
  <2>1. a - 1 \in 0 .. a - 1 /\ (a - 1) + 1 = a /\ (a > 1 \/ a - 1 = 0)
    BY <1>3
  <2>2. a - 1 = 0 \/ fullMode
    BY <2>1, <1>7, <1>11 DEF Marked
  <2>3. rows[p][a - 1].val = c
    BY <2>1, <2>2, <1>7
  <2> QED
    BY <2>3, <1>6, <1>11
<1> QED
  BY <1>10, <1>11

-----------------------------------------------------------------------------
(* A launch whose programs all have a start, and agree on the parity.      *)
LEMMA LaunchStarts ==
  ASSUME Typed', launch' # 0, width' >= 2, UNCHANGED <<rows, aux>>,
         \A p \in Prog : step'[p] = "mark" /\ Prior(p)', FoundAlike
  PROVE  StashInv'
<1>1. \A p \in Prog : InLaunch(p)'
  BY DEF InLaunch
<1>2. OneParity'
  BY DEF OneParity, Previous, Found, Marked, FoundAlike
<1>3. Rebuilt'
  BY DEF Rebuilt
<1>4. width' # 0
  BY DEF Typed
<1> QED
  BY <1>1, <1>2, <1>3, <1>4 DEF StashInv

(* The tokens that were accepted are committed, and each program can start *)
(* from what it has stored of them.                                        *)
LEMMA LaunchKeeps ==
  ASSUME StashInv, NEW t \in 2 .. MaxSpec + 1, NEW a \in 1 .. MaxSpec + 1, NEW f \in BOOLEAN,
         Launch(t, a, f)
  PROVE  StashInv'
<1>1. /\ \A p \in Prog : step[p] = "done"
      /\ a <= width
      /\ committed' = IF launch = 0 THEN committed ELSE committed \o Tokens(launch, a)
      /\ nAcc' = a /\ width' = t /\ fullMode' = f /\ launch' = launch + 1
      /\ step' = [p \in Prog |-> "mark"]
      /\ UNCHANGED <<rows, aux, at, par, h>>
  BY DEF Launch
<1>2. Typed
  BY DEF StashInv
<1>3. width # 0 /\ launch + 1 \in Nat /\ launch + 1 # 0 /\ a \in 1 .. width /\ a \in Nat
  BY <1>1, <1>2, StashAssumption DEF Typed
<1>4. committed' \in Seq(Int)
  BY <1>1, <1>2, <1>3, WithTokens DEF Typed
<1>5. Typed'
  <2>1. fullMode' \in BOOLEAN
    BY <1>1, Zenon
  <2>2. step' \in [Prog -> Steps]
    BY <1>1 DEF Steps
  <2>3. width' \in 0 .. MaxSpec + 1 /\ nAcc' \in 1 .. MaxSpec + 1 /\ launch' \in Nat
    BY <1>1, <1>3, StashAssumption
  <2>4. /\ rows' \in [Prog -> [Slots -> Cells]] /\ aux' \in [Slots -> [Parities -> Int]]
        /\ at' \in [Prog -> 0 .. MaxSpec + 1] /\ par' \in [Prog -> Parities] /\ h' \in [Prog -> Seq(Int)]
    BY <1>1, <1>2 DEF Typed
  <2> QED
    BY <2>1, <2>2, <2>3, <2>4, <1>4, Zenon DEF Typed
<1>6. FoundAlike /\ \A p \in Prog : Prior(p)'
  <2>1. CASE launch = 0
    <3>1. width = 1 /\ FoundAlike /\ \A p \in Prog : rows[p][0].val = committed
      BY <2>1 DEF StashInv, Rested
    <3>2. nAcc' = 1 /\ committed' = committed
      BY <2>1, <3>1, <1>1, <1>3
    <3>3. ASSUME NEW p \in Prog PROVE Prior(p)'
      BY <3>1, <3>2, <1>1 DEF Prior, Replays
    <3> QED
      BY <3>1, <3>3
  <2>2. CASE launch # 0
    <3> DEFINE c == committed \o Tokens(launch, a)
    <3>1. ASSUME NEW p \in Prog
          PROVE  /\ IF a > 1 /\ Marked(p, a - 1)
                    THEN /\ a <= Len(c) + 1
                         /\ rows[p][0].val = SubSeq(c, 1, Len(c) - a + 1)
                         /\ \A j \in 1 .. a - 1 :
                              /\ rows[p][j].val = <<c[(Len(c) - a + 1) + j]>>
                              /\ aux[j][Found(p)] = c[(Len(c) - a + 1) + j]
                    ELSE rows[p][a - 1].val = c
                 /\ Found(p) = IF fullMode THEN 1 ELSE NewParity(p)
      BY <2>2, <1>1, <1>3, StoredStarts
    <3>2. committed' = c
      BY <2>2, <1>1
    <3>3. ASSUME NEW p \in Prog, NEW q \in Prog PROVE Found(p) = Found(q)
      <4>1. par[p] = par[q]
        BY <1>1 DEF StashInv, OneParity, Previous
      <4> QED
        BY <4>1, <3>1 DEF NewParity
    <3> HIDE DEF c
    <3>4. Base' = Len(c) - a + 1
      BY <3>2, <1>1 DEF Base
    <3>5. ASSUME NEW p \in Prog PROVE Prior(p)'
      <4>1. Found(p)' = Found(p) /\ Previous(p)' = Found(p)
        BY <1>1 DEF Found, Previous, Marked
      <4>2. Replays(p)' <=> a > 1 /\ Marked(p, a - 1)
        BY <1>1 DEF Replays, Marked
      <4>3. CASE Replays(p)'
        <5>1. RecordsHeld(p)'
          BY <4>1, <4>2, <4>3, <3>1, <3>2, <3>4, <1>1 DEF RecordsHeld
        <5> QED
          BY <5>1, <4>2, <4>3, <3>1, <3>2, <3>4, <1>1 DEF Prior
      <4>4. CASE ~Replays(p)'
        BY <4>2, <4>4, <3>1, <3>2, <1>1 DEF Prior
      <4> QED
        BY <4>3, <4>4
    <3> QED
      BY <3>3, <3>5 DEF FoundAlike
  <2> QED
    BY <2>1, <2>2
<1> QED
  BY <1>1, <1>3, <1>5, <1>6, LaunchStarts

(* After a move every program finds the state of the committed tokens, and *)
(* the same left-over marker.                                              *)
LEMMA RebaseKeeps ==
  ASSUME StashInv, NEW a \in 1 .. MaxSpec + 1, NEW m \in Parities \cup {NoMark}, Rebase(a, m)
  PROVE  StashInv'
<1> DEFINE c == committed \o Tokens(launch, a)
<1>1. /\ \A p \in Prog : step[p] = "done"
      /\ launch \in 1 .. MaxVerify - 1 /\ a <= width
      /\ committed' = c
      /\ rows' = [p \in Prog |-> [j \in Slots |-> IF j = 0 THEN State(c) ELSE Record(Torn, m)]]
      /\ aux' = [j \in Slots |-> [q \in Parities |-> Torn]]
      /\ width' = 0 /\ nAcc' = 1
      /\ UNCHANGED <<launch, fullMode, programs>>
  BY DEF Rebase
<1>2. Typed /\ OneParity
  BY DEF StashInv
<1>3. c \in Seq(Int)
  <2>1. a \in Nat /\ launch \in Nat
    BY <1>2, StashAssumption DEF Typed
  <2> QED
    BY <2>1, <1>2, WithTokens DEF Typed
<1> HIDE DEF c
<1>4. 0 \in Slots /\ 1 \in Slots
  BY StashAssumption DEF Slots
<1>5. Typed'
  <2>1. State(c) \in Cells /\ Record(Torn, m) \in Cells
    <3>1. <<Torn>> \in Seq(Int)
      BY DEF Torn
    <3> QED
      BY <3>1, <1>3 DEF State, Record, Cells
  <2>2. rows' \in [Prog -> [Slots -> Cells]]
    BY <2>1, <1>1
  <2>3. aux' \in [Slots -> [Parities -> Int]]
    BY <1>1 DEF Torn
  <2>4. width' \in 0 .. MaxSpec + 1 /\ nAcc' \in 1 .. MaxSpec + 1
    BY <1>1, StashAssumption
  <2> QED
    BY <2>2, <2>3, <2>4, <1>1, <1>2, <1>3 DEF Typed, programs
<1>6. \A p \in Prog : Rested(p)'
  BY <1>1, <1>4 DEF Rested, State, programs
<1>7. ASSUME NEW p \in Prog PROVE Found(p)' = IF m # NoMark THEN m ELSE 1
  <2>1. rows'[p][1] = Record(Torn, m)
    BY <1>1, <1>4
  <2> QED
    BY <2>1 DEF Found, Marked, Record
<1>8. FoundAlike'
  BY <1>7 DEF FoundAlike
<1>9. \A p \in Prog : Previous(p)' = Previous(p)
  BY <1>1 DEF Previous, programs
<1>10. OneParity' /\ Rebuilt'
  BY <1>1, <1>2, <1>9 DEF OneParity, Rebuilt, programs
<1>11. launch' # 0
  BY <1>1
<1> QED
  BY <1>1, <1>5, <1>6, <1>8, <1>10, <1>11 DEF StashInv

(* A moved sequence keeps the invariant.                                   *)
LEMMA MovedKeeps ==
  ASSUME StashInv, NEW t \in 2 .. MaxSpec + 1, NEW f \in BOOLEAN, LaunchMoved(t, f)
  PROVE  StashInv'
<1>1. /\ width = 0
      /\ width' = t /\ fullMode' = f /\ launch' = launch + 1
      /\ step' = [p \in Prog |-> "mark"]
      /\ UNCHANGED <<rows, aux, nAcc, committed, at, par, h>>
  BY DEF LaunchMoved
<1>2. Typed /\ FoundAlike /\ \A p \in Prog : Rested(p)
  BY <1>1 DEF StashInv
<1>3. launch + 1 \in Nat /\ launch + 1 # 0 /\ t \in 0 .. MaxSpec + 1
  BY <1>2, StashAssumption DEF Typed
<1>4. Typed'
  <2>1. fullMode' \in BOOLEAN
    BY <1>1, Zenon
  <2>2. step' \in [Prog -> Steps]
    BY <1>1 DEF Steps
  <2> QED
    BY <2>1, <2>2, <1>1, <1>2, <1>3, Zenon DEF Typed
<1>5. ASSUME NEW p \in Prog PROVE Prior(p)'
  BY <1>1, <1>2 DEF Rested, Prior, Replays
<1> QED
  BY <1>1, <1>2, <1>3, <1>4, <1>5, LaunchStarts

-----------------------------------------------------------------------------
(* Every step keeps StashInv.                                              *)
LEMMA NextStash == StashInv /\ [StashNext]_stashVars => StashInv'
<1> SUFFICES ASSUME StashInv, [StashNext]_stashVars PROVE StashInv'
  OBVIOUS
<1>1. CASE \E t \in 2 .. MaxSpec + 1 : \E f \in BOOLEAN :
             (\E a \in 1 .. MaxSpec + 1 : Launch(t, a, f)) \/ LaunchMoved(t, f)
  BY <1>1, LaunchKeeps, MovedKeeps
<1>2. CASE \E a \in 1 .. MaxSpec + 1 : \E m \in Parities \cup {NoMark} : Rebase(a, m)
  BY <1>2, RebaseKeeps
<1>3. CASE \E p \in Prog : ReadMark(p) \/ ReplayOne(p) \/ VerifyOne(p)
  BY <1>3, ReadKeeps, ReplayKeeps, VerifyKeeps
<1>4. CASE UNCHANGED stashVars
  <2>1. UNCHANGED <<rows, aux, launch, width, fullMode, nAcc, committed, step, at, par, h>>
    BY <1>4 DEF stashVars, programs
  <2>2. Typed' /\ Rebuilt'
    BY <2>1 DEF StashInv, Typed, Rebuilt
  <2>3. \A p \in Prog : (Found(p)' = Found(p)) /\ (Previous(p)' = Previous(p))
    BY <2>1 DEF Found, Previous, Marked
  <2>4. OneParity' /\ (FoundAlike => FoundAlike') /\ \A p \in Prog : Rested(p) => Rested(p)'
    BY <2>1, <2>3 DEF StashInv, OneParity, FoundAlike, Rested
  <2>5. ASSUME NEW p \in Prog, InLaunch(p) PROVE InLaunch(p)'
    BY <2>1, <2>5, <2>3, OthersAlone DEF StashInv, Rebuilt
  <2> QED
    BY <2>1, <2>2, <2>4, <2>5 DEF StashInv
<1> QED
  BY <1>1, <1>2, <1>3, <1>4 DEF StashNext

(* A program verifies on the state of exactly the committed tokens, however *)
(* the programs interleave (kda_verify_stash_kernel): records of the launch *)
(* before stay whole while program 0 already writes those of this launch,   *)
(* also after full launches and moves of the sequence to other slots.       *)
THEOREM StateRebuilt == StashSpec => []Rebuilt
<1>1. StashInv => Rebuilt
  BY DEF StashInv
<1> QED
  BY <1>1, InitStash, NextStash, PTL DEF StashSpec

-----------------------------------------------------------------------------
(* KdaState.  First, the arithmetic of blocks.                             *)

(* Division by the block: n lies in the block of its quotient, and in no   *)
(* other one.                                                              *)
LEMMA InBlock ==
  ASSUME NEW n \in Int
  PROVE  /\ n \div StateBlock \in Int
         /\ (n \div StateBlock) * StateBlock <= n
         /\ n < (n \div StateBlock) * StateBlock + StateBlock
BY StateAssumption

(* No other block holds n.                                                 *)
LEMMA OnlyBlock ==
  ASSUME NEW n \in Int, NEW q \in Int, q * StateBlock <= n, n < q * StateBlock + StateBlock
  PROVE  n \div StateBlock = q
BY StateAssumption, Z3

(* A block ends before a later one begins.                                 *)
LEMMA BlocksApart ==
  ASSUME NEW c \in Int, NEW d \in Int, c < d
  PROVE  c * StateBlock + StateBlock <= d * StateBlock
<1>1. \A k \in Nat, b \in Nat : (c + 1 + k) * b = c * b + b + k * b /\ k * b >= 0
  OBVIOUS
<1>2. d - c - 1 \in Nat /\ StateBlock \in Nat /\ c + 1 + (d - c - 1) = d
  BY StateAssumption
<1> QED
  BY <1>1, <1>2

(* Floor is the start of the block that n lies in.                         *)
LEMMA FloorIs ==
  ASSUME NEW n \in Int
  PROVE  /\ Floor(n, StateBlock) = (n \div StateBlock) * StateBlock
         /\ Floor(n, StateBlock) \in Int /\ Floor(n, StateBlock) <= n
         /\ n < Floor(n, StateBlock) + StateBlock
         /\ Floor(n, StateBlock) \div StateBlock = n \div StateBlock
         /\ n % StateBlock = n - Floor(n, StateBlock)
<1>1. Floor(n, StateBlock) = (n \div StateBlock) * StateBlock
  BY DEF Floor
<1>2. Floor(n, StateBlock) \in Int
  BY <1>1, InBlock, StateAssumption
<1>3. n % StateBlock = n - (n \div StateBlock) * StateBlock
  BY StateAssumption
<1>4. Floor(n, StateBlock) \div StateBlock = n \div StateBlock
  BY <1>1, <1>2, InBlock, OnlyBlock, StateAssumption
<1> QED
  BY <1>1, <1>2, <1>3, <1>4, InBlock

(* The end of a block is the block's number times its size.                *)
LEMMA EndOfBlock ==
  ASSUME NEW b \in Ends
  PROVE  /\ b \in 1 .. MaxLen
         /\ b = (b \div StateBlock) * StateBlock
         /\ (b \div StateBlock) - 1 \in Columns
         /\ (b \div StateBlock) - 1 >= 0
<1>1. b \in 1 .. MaxLen /\ b % StateBlock = 0
  BY DEF Ends
<1>2. b = (b \div StateBlock) * StateBlock
  BY <1>1, FloorIs, StateAssumption
<1>3. b \div StateBlock >= 1
  <2>1. CASE b \div StateBlock <= 0
    <3>1. (b \div StateBlock) * StateBlock <= 0
      <4>1. CASE b \div StateBlock = 0
        BY <4>1, StateAssumption
      <4>2. CASE b \div StateBlock < 0
        BY <4>2, <1>1, InBlock, BlocksApart, StateAssumption
      <4> QED
        BY <4>1, <4>2, <2>1, <1>1, InBlock
    <3> QED
      BY <3>1, <1>1, <1>2
  <2> QED
    BY <2>1, <1>1, InBlock
<1>4. b \div StateBlock <= MaxLen \div StateBlock
  BY <1>1, InBlock, BlocksApart, StateAssumption
<1> QED
  BY <1>1, <1>2, <1>3, <1>4, InBlock, StateAssumption DEF Columns

(* A boundary ends the column before it.                                   *)
LEMMA EndsItsBlock ==
  ASSUME NEW b \in Ends
  PROVE  \E k \in Nat : /\ k = (b \div StateBlock) - 1 /\ k \in Columns
                        /\ k = (b - 1) \div StateBlock
                        /\ b = k * StateBlock + StateBlock /\ b = (k + 1) * StateBlock
<1> DEFINE k == (b \div StateBlock) - 1
<1>1. b \in 1 .. MaxLen /\ b \div StateBlock \in Int /\ b = (b \div StateBlock) * StateBlock /\ k \in Columns /\ k >= 0
  BY EndOfBlock, InBlock
<1>2. k \in Nat /\ b \div StateBlock = k + 1
  BY <1>1
<1>3. b = (k + 1) * StateBlock
  BY <1>1, <1>2
<1> HIDE DEF k
<1>4. b = k * StateBlock + StateBlock
  BY <1>2, <1>3, StateAssumption
<1>5. (b - 1) \div StateBlock = k
  BY <1>1, <1>2, <1>4, OnlyBlock, StateAssumption
<1> QED
  BY <1>1, <1>2, <1>3, <1>4, <1>5 DEF k

(* The smaller and the larger one of two numbers.                          *)
LEMMA OfTwo ==
  ASSUME NEW a \in Int, NEW b \in Int
  PROVE  /\ Max({a, b}) = IF a >= b THEN a ELSE b
         /\ Min({a, b}) = IF a <= b THEN a ELSE b
BY DEF Max, Min

(* A set of numbers has a least element, which Min chooses.                *)
LEMMA LeastOf ==
  ASSUME NEW S \in SUBSET Nat, S # {}
  PROVE  Min(S) \in S /\ \A s \in S : Min(S) <= s
<1> DEFINE R == OpToRel(<, Nat)
<1>1. IsWellFoundedOn(R, Nat)
  BY NatLessThanWellFounded
<1>2. \A x, y \in Nat : y < x => <<y, x>> \in R
  BY DEF OpToRel
<1> HIDE DEF R
<1>3. PICK m \in S : \A k \in S : ~ (<<k, m>> \in R)
  BY <1>1, WFMin, Zenon
<1>4. \A k \in S : ~ (k < m)
  BY <1>2, <1>3, Zenon
<1>5. \A k \in S : m <= k
  BY <1>4
<1> QED
  BY <1>3, <1>5 DEF Min

(* A bounded set of numbers has a greatest element, which Max chooses.     *)
LEMMA GreatestOf ==
  ASSUME NEW top \in Nat, NEW S \in SUBSET (0 .. top), S # {}
  PROVE  Max(S) \in S /\ \A s \in S : s <= Max(S)
<1> DEFINE T == {top - s : s \in S}
<1>1. \A s \in S : s \in Nat /\ top - s \in Nat
  OBVIOUS
<1>2. T \in SUBSET Nat /\ T # {}
  BY <1>1
<1> HIDE DEF T
<1>3. PICK m \in T : \A k \in T : m <= k
  BY <1>2, LeastOf
<1> USE DEF T
<1>4. PICK g \in S : m = top - g
  BY <1>3
<1>5. \A s \in S : s <= g
  BY <1>1, <1>3, <1>4
<1>6. \E x \in S : \A y \in S : x >= y
  BY <1>5
<1> QED
  BY <1>6 DEF Max

-----------------------------------------------------------------------------
(* A request that runs starts its next step from the accepted slot, or     *)
(* from slot 0 and the records after it; these it only has when no window  *)
(* of the next step can leave the column.                                  *)
InSlot == col[stateIdx + acc - 1] = computed
InRecords ==
  /\ stash /\ acc > 1
  /\ col[stateIdx] >= 0 /\ col[stateIdx] + acc - 1 = computed
  /\ \A i \in 1 .. acc - 1 : col[stateIdx + i] = Replay
  /\ computed >= PrefillEnd
  /\ computed \div StateBlock = stateIdx /\ (computed + MaxDrafts) \div StateBlock = stateIdx
HoldsState ==
  phase = "running" =>
    IF stateIdx = -1 THEN computed = 0
    ELSE stateIdx + acc - 1 \in Columns /\ (InSlot \/ InRecords)

(* While the prompt is computed, no column beyond the one it stands in has *)
(* a block.                                                                *)
RealBehind ==
  phase = "running" /\ computed < PrefillEnd => \A c \in real : c * StateBlock < computed

Within ==
  /\ phase = "waiting" => prompt > 0 /\ tokens < MaxLen /\ prompt <= tokens
  /\ phase = "running" => prompt > 0 /\ prompt <= tokens /\ computed <= tokens
  /\ phase = "running" /\ computed < PrefillEnd => tokens < MaxLen

(* The state at the end of the last whole block is there.                  *)
BlockBehind ==
  phase = "running" /\ computed >= StateBlock =>
    /\ (computed \div StateBlock) - 1 \in real
    /\ col[(computed \div StateBlock) - 1] = Floor(computed, StateBlock)

(* A step that takes no account of the accepted count finds it at one:     *)
(* a chunk always does, and so does the first decode of a request that was *)
(* resumed.                                                                *)
OneAccepted == phase = "running" /\ (computed < PrefillEnd \/ ~drafts) => acc = 1

StateInv == /\ StateTypeOK /\ SlotHoldsItsHash /\ HoldsState /\ OneAccepted
            /\ RealBehind /\ BlockBehind /\ Within

(* The columns, and the first of them, which are not only for drafts.      *)
LEMMA ColumnsType ==
  /\ MaxLen \div StateBlock \in Nat
  /\ Columns \subseteq Nat
  /\ 0 .. MaxLen \div StateBlock \subseteq Columns
<1>1. MaxLen \div StateBlock \in Nat
  BY StateAssumption
<1> QED
  BY <1>1, StateAssumption DEF Columns

(* Division by the block is monotonic.                                     *)
LEMMA SameColumn ==
  ASSUME NEW m \in Int, NEW n \in Int, m <= n
  PROVE  m \div StateBlock <= n \div StateBlock
BY InBlock, BlocksApart, StateAssumption

(* The end of the prefill, without the maximum.                            *)
LEMMA EndIs ==
  ASSUME StateTypeOK
  PROVE  PrefillEnd = IF prompt >= tokens - 1 THEN prompt ELSE tokens - 1
BY OfTwo, StateAssumption DEF PrefillEnd, StateTypeOK

(* A step of n tokens is in a column, and one that stays within the limit  *)
(* in one of the first.                                                    *)
LEMMA ColumnIs ==
  ASSUME StateTypeOK, NEW n \in Nat \ {0}
  PROVE  /\ Column(n) \in Nat
         /\ Column(n) * StateBlock <= computed + n - 1
         /\ computed + n - 1 < Column(n) * StateBlock + StateBlock
         /\ computed + n <= MaxLen => Column(n) \in 0 .. MaxLen \div StateBlock
<1>1. computed + n - 1 \in Nat
  BY StateAssumption DEF StateTypeOK
<1>2. Column(n) \in Nat
  <2>1. (computed + n - 1) \div StateBlock \in Nat
    BY <1>1, StateAssumption
  <2> QED
    BY <2>1 DEF Column
<1>3. computed + n <= MaxLen => Column(n) <= MaxLen \div StateBlock
  <2>1. ASSUME computed + n <= MaxLen
        PROVE  (computed + n - 1) \div StateBlock <= MaxLen \div StateBlock
    <3>1. computed + n - 1 <= MaxLen /\ MaxLen \in Int /\ computed + n - 1 \in Int
      BY <1>1, <2>1, StateAssumption DEF StateTypeOK
    <3> QED
      BY <3>1, SameColumn
  <2> QED
    BY <2>1 DEF Column
<1> QED
  BY <1>1, <1>2, <1>3, InBlock, ColumnsType DEF Column

(* A request's columns keep their type when its state is taken along.      *)
LEMMA PrecopiedType ==
  ASSUME StateTypeOK, NEW n \in Nat \ {0}, HoldsState, phase = "running"
  PROVE  Precopied(n) \in [Columns -> Contents]
<1>1. CASE Moves(n)
  <2>1. stateIdx + acc - 1 \in Columns /\ col \in [Columns -> Contents]
    BY <1>1 DEF HoldsState, Moves, StateTypeOK
  <2>2. col[stateIdx + acc - 1] \in Contents
    BY <2>1
  <2> QED
    BY <1>1, <2>1, <2>2 DEF Precopied
<1>2. CASE ~ Moves(n)
  BY <1>2 DEF Precopied, StateTypeOK
<1> QED
  BY <1>1, <1>2

(* What the next step starts from is the state after the computed tokens,  *)
(* if it takes the accepted count into account or finds it at one.         *)
LEMMA ReadsExactly ==
  ASSUME StateTypeOK, HoldsState, phase = "running",
         NEW n \in Nat \ {0}, Column(n) \in Columns,
         computed >= PrefillEnd => n <= MaxDrafts + 1,
         SpecRow(n) \/ acc = 1
  PROVE  Read(n) = computed
<1>0. Offset(n) = IF Moves(n) THEN 0 ELSE acc - 1
  BY DEF Offset
<1>1. CASE stateIdx = -1
  BY <1>1 DEF Read, HoldsState
<1>2. CASE stateIdx # -1 /\ InSlot
  <2>1. stateIdx \in Nat /\ computed \in Nat /\ acc \in Nat /\ stateIdx + acc - 1 \in Columns
    BY <1>2, StateAssumption DEF StateTypeOK, HoldsState
  <2>2. Precopied(n)[Column(n) + Offset(n)] = computed
    <3>1. CASE Moves(n)
      BY <1>0, <3>1, <1>2, <2>1, ColumnIs DEF Precopied, InSlot, StateTypeOK
    <3>2. CASE ~ Moves(n)
      BY <1>0, <3>2, <1>2, <2>1 DEF Precopied, InSlot, Moves
    <3> QED
      BY <3>1, <3>2
  <2> QED
    BY <2>1, <2>2 DEF Read, Replay
<1>3. CASE stateIdx # -1 /\ InRecords
  <2>1. stateIdx \in Nat /\ computed \in Nat /\ acc \in Nat
    BY <1>3, StateAssumption DEF StateTypeOK
  <2>2. Column(n) = stateIdx
    <3>1. n <= MaxDrafts + 1
      BY <1>3 DEF InRecords
    <3>2. computed <= computed + n - 1 /\ computed + n - 1 <= computed + MaxDrafts
      BY <2>1, <3>1, StateAssumption
    <3>3. computed \div StateBlock <= Column(n) /\ Column(n) <= (computed + MaxDrafts) \div StateBlock
      BY <2>1, <3>2, SameColumn, StateAssumption DEF Column
    <3>4. computed \div StateBlock = stateIdx /\ (computed + MaxDrafts) \div StateBlock = stateIdx
      BY <1>3 DEF InRecords
    <3>5. Column(n) \in Nat
      BY ColumnIs
    <3> QED
      BY <2>1, <3>3, <3>4, <3>5
  <2>3. ~ Moves(n) /\ Precopied(n) = col /\ Offset(n) = acc - 1
    BY <1>0, <2>2 DEF Moves, Precopied
  <2>4. col[stateIdx + acc - 1] = Replay
    <3>1. acc - 1 \in 1 .. acc - 1
      BY <1>3, <2>1 DEF InRecords
    <3>2. col[stateIdx + (acc - 1)] = Replay
      BY <1>3, <3>1 DEF InRecords
    <3> QED
      BY <2>1, <3>2
  <2> QED
    BY <1>3, <2>1, <2>2, <2>3, <2>4 DEF Read, InRecords, Replay
<1> QED
  BY <1>1, <1>2, <1>3 DEF HoldsState

(* A step that reads the right state writes the right ones.                *)
LEMMA AfterIs ==
  ASSUME NEW n, NEW i, Read(n) = computed
  PROVE  After(n, i) = computed + i
BY DEF After

(* A chunk is no longer than it may be, and ends with the block it starts  *)
(* in the middle of.                                                       *)
LEMMA SplitBounds ==
  ASSUME StateTypeOK, NEW start \in Nat, NEW n \in Nat, start < PrefillEnd
  PROVE  /\ Split(start, n) \in Nat
         /\ Split(start, n) <= n
         /\ start % StateBlock # 0 =>
              start + Split(start, n) <= Floor(start, StateBlock) + StateBlock
<1> DEFINE end == IF Aligns(start, start + n) THEN Floor(start + n, SplitBlock) ELSE start + n
           S == {end} \cup {s \in Stops(start, end) : start < s /\ s < end}
           stop == Min(S)
<1>1. end \in Nat /\ end <= start + n
  <2>1. Floor(start + n, SplitBlock) \in Nat /\ Floor(start + n, SplitBlock) <= start + n
    <3>1. (start + n) \div StateBlock \in Nat
      BY StateAssumption
    <3>2. Floor(start + n, SplitBlock) \in Nat
      BY <3>1, StateAssumption DEF Floor, SplitBlock
    <3> QED
      BY <3>2, FloorIs DEF SplitBlock
  <2> QED
    BY <2>1
<1> HIDE DEF end
<1>2. Stops(start, end) \subseteq Int
  <2>1. Floor(start, SplitBlock) \in Int /\ Floor(tokens, SplitBlock) \in Int
        /\ Floor(junction - start, SplitBlock) \in Int
    BY FloorIs DEF SplitBlock, StateTypeOK
  <2> QED
    BY <2>1, StateAssumption DEF Stops, LastBlock, SplitBlock
<1>3. S \in SUBSET Nat /\ S # {}
  BY <1>1, <1>2
<1>4. stop \in S /\ \A s \in S : stop <= s
  <2> HIDE DEF S
  <2> QED
    BY <1>3, LeastOf
<1>5. stop \in Nat /\ stop <= end
  BY <1>3, <1>4
<1>6. Split(start, n) = IF stop - start >= 0 THEN stop - start ELSE 0
  <2>1. Split(start, n) = Max({stop - start, 0})
    <3>1. ~ (start >= PrefillEnd)
      <4>1. PrefillEnd \in Int
        BY EndIs DEF StateTypeOK
      <4> QED
        BY <4>1
    <3> QED
      BY <3>1, Zenon DEF Split, end, S, stop
  <2> HIDE DEF stop
  <2> QED
    BY <1>5, <2>1, OfTwo
<1>7. ASSUME start % StateBlock # 0
      PROVE  stop <= Floor(start, StateBlock) + StateBlock
  <2> DEFINE f == Floor(start, StateBlock) + StateBlock
  <2>1. f \in Int /\ start < f
    BY FloorIs, StateAssumption
  <2>2. f \in Stops(start, end)
    BY <1>7 DEF Stops, SplitBlock
  <2>3. f < end => f \in S
    BY <2>1, <2>2
  <2> HIDE DEF f, stop, S
  <2>4. stop <= f
    BY <1>1, <1>4, <1>5, <2>1, <2>3
  <2> QED
    BY <2>4 DEF f
<1>8. Floor(start, StateBlock) \in Int /\ StateBlock \in Nat
      /\ (start % StateBlock # 0 => start < Floor(start, StateBlock) + StateBlock)
  BY FloorIs, StateAssumption
<1> HIDE DEF stop, S
<1>9. Split(start, n) \in Nat /\ Split(start, n) <= n
  BY <1>1, <1>5, <1>6
<1>10. ASSUME start % StateBlock # 0
       PROVE  start + Split(start, n) <= Floor(start, StateBlock) + StateBlock
  BY <1>5, <1>6, <1>7, <1>8, <1>10
<1> QED
  BY <1>9, <1>10

(* Without an edge in it that is no multiple, a chunk is not empty: a      *)
(* budget below the block is not rounded down, any other has a whole block.*)
LEMMA SplitAdvances ==
  ASSUME StateTypeOK, NEW start \in Nat, NEW n \in Nat \ {0}, start < PrefillEnd,
         n < StateBlock /\ start + n < PrefillEnd => budget < StateBlock
  PROVE  Split(start, n) > 0
<1> DEFINE end == IF Aligns(start, start + n) THEN Floor(start + n, SplitBlock) ELSE start + n
           S == {end} \cup {s \in Stops(start, end) : start < s /\ s < end}
           stop == Min(S)
<1>1. end \in Nat /\ start < end
  <2>1. Floor(start + n, StateBlock) \in Nat
    <3>1. (start + n) \div StateBlock \in Nat
      BY StateAssumption
    <3> QED
      BY <3>1, StateAssumption DEF Floor
  <2>2. CASE Aligns(start, start + n)
    <3>1. start + n < Floor(start + n, StateBlock) + StateBlock
      BY FloorIs
    <3>2. Floor(start + n, StateBlock) > start \/ n >= StateBlock
      <4>1. budget \in Nat /\ StateBlock \in Nat
        BY StateAssumption DEF StateTypeOK
      <4> QED
        BY <2>2, <4>1 DEF Aligns, SplitBlock
    <3>3. Floor(start + n, StateBlock) > start
      BY <2>1, <3>1, <3>2, StateAssumption
    <3> QED
      BY <2>1, <2>2, <3>3 DEF SplitBlock
  <2>3. CASE ~ Aligns(start, start + n)
    BY <2>3
  <2> QED
    BY <2>2, <2>3
<1> HIDE DEF end
<1>2. Stops(start, end) \subseteq Int
  <2>1. Floor(start, SplitBlock) \in Int /\ Floor(tokens, SplitBlock) \in Int
        /\ Floor(junction - start, SplitBlock) \in Int
    BY FloorIs DEF SplitBlock, StateTypeOK
  <2> QED
    BY <1>1, <2>1, StateAssumption DEF Stops, LastBlock, SplitBlock
<1>3. S \in SUBSET Nat /\ S # {} /\ \A s \in S : start < s
  BY <1>1, <1>2
<1>4. stop \in Nat /\ start < stop
  <2> HIDE DEF S
  <2> QED
    BY <1>3, LeastOf
<1>5. Split(start, n) = Max({stop - start, 0})
  <2>1. ~ (start >= PrefillEnd)
    BY EndIs DEF StateTypeOK
  <2> QED
    BY <2>1, Zenon DEF Split, end, S, stop
<1> HIDE DEF stop
<1> QED
  BY <1>4, <1>5, OfTwo

(* Whole blocks leave no remainder.                                        *)
LEMMA Multiple ==
  ASSUME NEW q \in Int
  PROVE  q * StateBlock \in Int /\ (q * StateBlock) % StateBlock = 0
<1>1. q * StateBlock \in Int
  BY StateAssumption
<1>2. (q * StateBlock) \div StateBlock = q
  BY <1>1, OnlyBlock, StateAssumption
<1> QED
  BY <1>1, <1>2, FloorIs

(* The blocks next to a block.                                             *)
LEMMA NextBlock ==
  ASSUME NEW q \in Int
  PROVE  (q + 1) * StateBlock = q * StateBlock + StateBlock
         /\ (q - 1) * StateBlock = q * StateBlock - StateBlock
BY StateAssumption

(* What leaves no remainder is whole blocks.                               *)
LEMMA WholeBlocks ==
  ASSUME NEW n \in Int, n % StateBlock = 0
  PROVE  n = (n \div StateBlock) * StateBlock /\ n \div StateBlock \in Int
BY FloorIs, InBlock

(* A chunk that passes the end of a block ends at the end of a block: an   *)
(* aligned request is cut there, and the end of a prompt is not reached    *)
(* without a stop at its last full block.                                  *)
LEMMA ChunkEnds ==
  ASSUME StateTypeOK, NEW start \in Nat, NEW n \in Nat, start < PrefillEnd,
         start + n <= tokens, prompt <= tokens
  PROVE  LET e == start + Split(start, n)
         IN  e \div StateBlock = start \div StateBlock \/ e % StateBlock = 0
<1> DEFINE end == IF Aligns(start, start + n) THEN Floor(start + n, SplitBlock) ELSE start + n
           S == {end} \cup {s \in Stops(start, end) : start < s /\ s < end}
           stop == Min(S)
           e == start + Split(start, n)
           B == StateBlock
           f == Floor(tokens, B)
<1>1. PICK N \in Int : N = Split(start, n) /\ e = start + N /\ e \in Nat /\ e <= start + n
        /\ (start % B # 0 => e <= Floor(start, B) + B)
  BY SplitBounds
<1>2. /\ end \in S /\ S \in SUBSET Nat
      /\ stop \in S /\ (\A s \in S : stop <= s)
      /\ Split(start, n) = Max({stop - start, 0})
  <2>1. end \in Nat
    <3>1. (start + n) \div B \in Nat
      BY StateAssumption
    <3>2. Floor(start + n, SplitBlock) \in Nat
      BY <3>1, StateAssumption DEF Floor, SplitBlock
    <3> QED
      BY <3>2
  <2>2. Stops(start, end) \subseteq Int
    <3> HIDE DEF end
    <3>1. Floor(start, SplitBlock) \in Int /\ Floor(tokens, SplitBlock) \in Int
          /\ Floor(junction - start, SplitBlock) \in Int
      BY FloorIs DEF SplitBlock, StateTypeOK
    <3> QED
      BY <2>1, <3>1, StateAssumption DEF Stops, LastBlock, SplitBlock
  <2>3. S \in SUBSET Nat /\ end \in S
    <3> HIDE DEF end
    <3> QED
      BY <2>1, <2>2
  <2>4. stop \in S /\ \A s \in S : stop <= s
    <3> HIDE DEF S
    <3> QED
      BY <2>3, LeastOf
  <2>5. ~ (start >= PrefillEnd)
    BY EndIs DEF StateTypeOK
  <2>6. Split(start, n) = Max({stop - start, 0})
    BY <2>5, Zenon DEF Split, end, S, stop
  <2> QED
    BY <2>3, <2>4, <2>6
<1>3. stop \in Nat /\ end \in Nat
  <2> HIDE DEF S, stop, end
  <2> QED
    BY <1>2
<1>4. stop > start => e = stop
  <2>1. Max({stop - start, 0}) = IF stop - start >= 0 THEN stop - start ELSE 0
    <3> HIDE DEF stop
    <3> QED
      BY <1>3, OfTwo
  <2> HIDE DEF stop, S, end
  <2> QED
    BY <1>1, <1>2, <1>3, <2>1
<1>5. ~ (stop > start) => e = start
  <2>1. Max({stop - start, 0}) = IF stop - start >= 0 THEN stop - start ELSE 0
    <3> HIDE DEF stop
    <3> QED
      BY <1>3, OfTwo
  <2> HIDE DEF stop, S, end
  <2> QED
    BY <1>1, <1>2, <1>3, <2>1
<1>6. /\ f \in Int /\ f % B = 0 /\ (f - B) % B = 0 /\ f <= tokens /\ tokens < f + B
      /\ f \div B = tokens \div B /\ tokens \in Nat /\ B \in Nat \ {0} /\ prompt \in Nat
  <2>1. tokens \in Int /\ tokens \in Nat /\ prompt \in Nat
    BY StateAssumption DEF StateTypeOK
  <2>2. f = (tokens \div B) * B /\ tokens \div B \in Int /\ f - B = (tokens \div B - 1) * B
    <3>1. f = (tokens \div B) * B /\ tokens \div B \in Int
      BY <2>1, FloorIs, InBlock
    <3> QED
      BY <3>1, NextBlock
  <2>3. f % B = 0 /\ (f - B) % B = 0
    BY <2>2, Multiple
  <2> QED
    BY <2>1, <2>3, FloorIs, StateAssumption
<1>7. CASE start % B # 0
  <2> HIDE DEF e
  <2>1. start < e => (e \div B = start \div B \/ e = Floor(start, B) + B)
    <3>1. ASSUME start < e, e # Floor(start, B) + B
          PROVE  e \div B = start \div B
      <4>1. start \div B \in Int /\ Floor(start, B) = (start \div B) * B /\ Floor(start, B) <= start
            /\ Floor(start, B) \in Int
        BY InBlock, FloorIs
      <4>2. (start \div B) * B <= e /\ e < (start \div B) * B + B
        BY <1>1, <1>7, <3>1, <4>1, StateAssumption
      <4> QED
        BY <1>1, <4>1, <4>2, OnlyBlock
    <3> QED
      BY <3>1
  <2>2. (Floor(start, B) + B) % B = 0
    <3> DEFINE q == start \div B
    <3>1. Floor(start, B) = q * B /\ q \in Int
      BY FloorIs, InBlock
    <3> HIDE DEF q
    <3>2. Floor(start, B) + B = (q + 1) * B /\ q + 1 \in Int
      BY <3>1, NextBlock
    <3> QED
      BY <3>2, Multiple
  <2>3. start < e \/ e = start
    BY <1>3, <1>4, <1>5 DEF stop
  <2> QED
    BY <2>1, <2>2, <2>3 DEF e
<1>8. CASE start % B = 0 /\ stop > start
  <2>1. start = Floor(start, B) /\ start = (start \div B) * B /\ start \div B \in Int
    BY <1>8, FloorIs, InBlock
  <2>2. ASSUME stop # end PROVE stop % B = 0
    <3>1. stop \in Stops(start, end)
      <4> HIDE DEF stop, end
      <4> QED
        BY <1>2, <2>2
    <3>2. stop \in {0, f - B, f, start + Floor(junction - start, B)}
      <4> HIDE DEF stop, end
      <4> QED
        BY <3>1, <1>8 DEF Stops, LastBlock, SplitBlock
    <3>3. (start + Floor(junction - start, B)) % B = 0
      <4> DEFINE j == junction - start
      <4>1. j \in Int
        BY DEF StateTypeOK
      <4> HIDE DEF j
      <4>2. Floor(j, B) = (j \div B) * B /\ j \div B \in Int
        BY <4>1, FloorIs, InBlock
      <4>3. start + Floor(j, B) = (start \div B + j \div B) * B
        BY <2>1, <4>2, StateAssumption
      <4> QED
        BY <2>1, <4>2, <4>3, Multiple DEF j
    <3> HIDE DEF stop, f
    <3> QED
      BY <3>2, <3>3, <1>3, <1>6, <1>8
  <2>3. ASSUME stop = end, Aligns(start, start + n) PROVE stop % B = 0
    <3>1. end = ((start + n) \div B) * B /\ (start + n) \div B \in Int
      BY <2>3, InBlock, FloorIs DEF SplitBlock
    <3> QED
      BY <2>3, <3>1, Multiple
  <2>4. ASSUME stop = end, ~ Aligns(start, start + n)
        PROVE  stop \div B = start \div B \/ stop % B = 0
    <3>1. end = start + n
      BY <2>4
    <3> HIDE DEF stop, end, S
    <3>2. CASE end < PrefillEnd
      <4>1. Floor(start + n, B) <= start
        <5>1. Floor(start + n, B) \in Int
          BY FloorIs
        <5> QED
          BY <2>4, <3>1, <3>2, <5>1 DEF Aligns, SplitBlock
      <4>2. ((start + n) \div B) * B <= (start \div B) * B /\ (start + n) \div B \in Int
        BY <2>1, <4>1, FloorIs, InBlock
      <4>3. ~ (start \div B < (start + n) \div B)
        BY <1>6, <2>1, <4>2, BlocksApart
      <4>4. start \div B <= (start + n) \div B
        BY SameColumn
      <4> QED
        BY <2>1, <2>4, <3>1, <4>2, <4>3, <4>4
    <3>3. CASE ~ (end < PrefillEnd)
      <4>1. end >= tokens - 1 /\ end <= tokens
        BY <1>3, <1>6, <3>1, <3>3, EndIs
      <4>2. CASE f <= start
        <5>1. start \div B = tokens \div B
          <6>1. f \div B <= start \div B /\ start \div B <= tokens \div B
            <7>1. f \in Int /\ start \in Int /\ tokens \in Int /\ f <= start /\ start <= tokens
              BY <1>3, <1>6, <1>8, <4>1, <4>2, <2>4
            <7> HIDE DEF f
            <7> QED
              BY <7>1, SameColumn
          <6> QED
            BY <1>6, <2>1, <6>1, InBlock
        <5>2. start \div B <= end \div B /\ end \div B <= tokens \div B
          <6>1. start \in Int /\ end \in Int /\ tokens \in Int /\ start <= end /\ end <= tokens
            BY <1>3, <1>6, <1>8, <4>1, <2>4
          <6> QED
            BY <6>1, SameColumn
        <5> QED
          BY <1>3, <2>1, <2>4, <5>1, <5>2, InBlock
      <4>3. CASE f > start /\ f < end
        <5>1. f \in S
          <6>1. f \in Stops(start, end)
            BY DEF Stops, LastBlock, SplitBlock
          <6> QED
            BY <4>3, <6>1 DEF S
        <5> QED
          BY <1>2, <1>3, <1>6, <2>4, <4>3, <5>1
      <4>4. CASE f = end
        BY <1>6, <2>4, <4>4
      <4>5. CASE f > end
        <5>1. f = tokens /\ end = f - 1
          BY <1>3, <1>6, <4>1, <4>5
        <5>2. CASE f - B <= start
          <6> DEFINE q == (f - B) \div B
          <6>1. f - B = q * B /\ q \in Int
            <7>1. f - B \in Int /\ (f - B) % B = 0
              BY <1>6
            <7> HIDE DEF f
            <7> QED
              BY <7>1, WholeBlocks
          <6> HIDE DEF q, f
          <6>2. q * B <= start /\ start < q * B + B /\ q * B <= end /\ end < q * B + B
            BY <1>3, <1>6, <1>8, <2>4, <5>1, <5>2, <6>1
          <6>3. start \div B = q /\ end \div B = q
            BY <1>3, <6>1, <6>2, OnlyBlock
          <6> QED
            BY <2>4, <6>3
        <5>3. CASE f - B > start /\ f - B = end
          BY <1>6, <2>4, <5>3
        <5>4. CASE f - B > start /\ f - B < end
          <6>1. f - B \in S
            <7>1. f - B \in Stops(start, end)
              BY DEF Stops, SplitBlock
            <7> QED
              BY <5>4, <7>1 DEF S
          <6> QED
            BY <1>2, <1>3, <1>6, <2>4, <5>4, <6>1
        <5> QED
          BY <1>6, <5>1, <5>2, <5>3, <5>4
      <4> QED
        BY <1>3, <1>6, <4>2, <4>3, <4>4, <4>5
    <3> QED
      BY <3>2, <3>3
  <2> HIDE DEF stop, e
  <2> QED
    BY <1>4, <1>8, <2>2, <2>3, <2>4 DEF e
<1>9. CASE ~ (stop > start)
  BY <1>5, <1>9
<1> QED
  BY <1>7, <1>8, <1>9

-----------------------------------------------------------------------------
(* Every step keeps the invariant.                                         *)
(* No request yet, and an empty cache.                                     *)
LEMMA InitState == StateInit => StateInv
<1> SUFFICES ASSUME StateInit PROVE StateInv
  OBVIOUS
<1>1. col \in [Columns -> Contents] /\ cached \in [Ends -> Contents] /\ stateIdx \in -1 .. MaxLen \div StateBlock
  <2>1. Junk \in Contents /\ 0 \in Contents
    BY StateAssumption DEF Contents
  <2> QED
    BY <2>1, ColumnsType DEF StateInit
<1>2. StateTypeOK
  <2>1. 0 \in 0 .. MaxLen /\ 1 \in 1 .. MaxDrafts + 1
    BY StateAssumption
  <2>2. /\ phase = "none" /\ prompt = 0 /\ tokens = 0 /\ junction = 0 /\ computed = 0 /\ acc = 1
        /\ drafts = FALSE /\ real = {} /\ stash \in BOOLEAN /\ budget \in Budgets
    BY Zenon DEF StateInit
  <2> QED
    BY <1>1, <2>1, <2>2, Zenon DEF StateTypeOK
<1> QED
  BY <1>2 DEF StateInit, StateInv, SlotHoldsItsHash, HoldsState, OneAccepted, RealBehind, BlockBehind, Within

(* A new request waits.                                                    *)
LEMMA ArriveState ==
  ASSUME StateInv, NEW p \in 1 .. MaxLen - MaxDrafts - 1, NEW j \in 0 .. p, Arrive(p, j)
  PROVE  StateInv'
<1>1. StateTypeOK'
  BY StateAssumption DEF StateInv, StateTypeOK, Arrive, slots
<1>2. SlotHoldsItsHash' /\ HoldsState' /\ OneAccepted' /\ RealBehind' /\ BlockBehind' /\ Within'
  BY StateAssumption DEF StateInv, Arrive, SlotHoldsItsHash, HoldsState, OneAccepted, RealBehind, BlockBehind, Within
<1> QED
  BY <1>1, <1>2 DEF StateInv

Hits == {0} \cup {b \in Ends : b < tokens /\ cached[b] # 0}

(* A request comes in with the state that its hit's hash promises.         *)
LEMMA AdmitState ==
  ASSUME StateInv, Admit
  PROVE  StateInv'
<1> DEFINE resume == Max(Hits)
<1>1. resume \in Hits
  <2>1. Hits \in SUBSET (0 .. MaxLen) /\ Hits # {} /\ MaxLen \in Nat
    BY StateAssumption DEF Hits, Ends
  <2> QED
    BY <2>1, GreatestOf
<1>2. /\ computed' = resume /\ stateIdx' = (resume - 1) \div StateBlock
      /\ col' = [c \in Columns |-> IF (c + 1) * StateBlock = resume THEN cached[resume] ELSE Junk]
      /\ real' = IF resume = 0 THEN {} ELSE {(resume \div StateBlock) - 1}
  BY WorkerAssumption, Zenon DEF Admit, Hits
<1>3. /\ acc' = 1 /\ drafts' = FALSE /\ phase = "waiting" /\ phase' = "running"
      /\ UNCHANGED <<prompt, tokens, junction, cached, stash, budget>>
  BY DEF Admit, FreshCount
<1>4. resume \in 0 .. MaxLen /\ resume <= tokens
  BY <1>1, StateAssumption DEF Hits, Ends, StateInv, StateTypeOK
<1> HIDE DEF resume
<1>5. CASE resume = 0
  <2>1. stateIdx' = -1
    BY <1>2, <1>5, OnlyBlock, StateAssumption
  <2>2. col' = [c \in Columns |-> Junk]
    <3>1. \A c \in Columns : (c + 1) * StateBlock # 0
      BY ColumnsType, StateAssumption
    <3> QED
      BY <1>2, <1>5, <3>1
  <2>3. StateTypeOK'
    <3>1. computed' \in 0 .. MaxLen /\ acc' \in 1 .. MaxDrafts + 1 /\ stateIdx' \in -1 .. MaxLen \div StateBlock
      BY <1>2, <1>3, <1>4, <2>1, ColumnsType, StateAssumption
    <3>2. drafts' \in BOOLEAN /\ phase' \in {"none", "waiting", "running"}
      BY <1>3, Zenon
    <3>3. col' \in [Columns -> Contents] /\ real' \subseteq Columns
      BY <1>2, <1>5, <2>2 DEF Contents
    <3>4. /\ prompt' \in 0 .. MaxLen /\ tokens' \in 0 .. MaxLen /\ junction' \in 0 .. MaxLen
          /\ cached' \in [Ends -> Contents] /\ stash' \in BOOLEAN /\ budget' \in Budgets
      BY <1>3 DEF StateInv, StateTypeOK
    <3> QED
      BY <3>1, <3>2, <3>3, <3>4, Zenon DEF StateTypeOK
  <2>4. SlotHoldsItsHash' /\ HoldsState' /\ OneAccepted' /\ RealBehind' /\ BlockBehind'
    BY <1>2, <1>3, <1>5, <2>1, StateAssumption
       DEF StateInv, SlotHoldsItsHash, HoldsState, OneAccepted, RealBehind, BlockBehind
  <2>5. Within'
    BY <1>2, <1>3, <1>4 DEF StateInv, Within
  <2> QED
    BY <2>3, <2>4, <2>5 DEF StateInv
<1>6. CASE resume # 0
  <2>1. resume \in Ends /\ cached[resume] = resume
    BY <1>1, <1>6 DEF Hits, StateInv, SlotHoldsItsHash
  <2>2. PICK k \in Nat : /\ k = (resume \div StateBlock) - 1 /\ k \in Columns
                         /\ k = (resume - 1) \div StateBlock
                         /\ resume = k * StateBlock + StateBlock /\ resume = (k + 1) * StateBlock
    BY <2>1, EndsItsBlock
  <2>3. computed' = resume
    BY <1>2
  <2>4. stateIdx' = k
    BY <1>2, <2>2
  <2>5. k \in 0 .. MaxLen \div StateBlock
    <3>1. (resume - 1) \div StateBlock <= MaxLen \div StateBlock
      BY <1>4, SameColumn, StateAssumption
    <3> QED
      BY <1>2, <2>2, <2>4, <3>1, ColumnsType
  <2>6. col'[k] = resume /\ col' \in [Columns -> Contents]
    <3>1. cached[resume] \in Contents /\ Junk \in Contents
      BY <2>1 DEF StateInv, StateTypeOK, Contents
    <3> QED
      BY <1>2, <2>1, <2>2, <3>1
  <2>7. real' = {k}
    BY <1>2, <1>6, <2>2
  <2>8. StateTypeOK'
    <3>1. computed' \in 0 .. MaxLen /\ acc' \in 1 .. MaxDrafts + 1
      BY <1>3, <1>4, <2>3, StateAssumption
    <3>2. stateIdx' \in -1 .. MaxLen \div StateBlock
      BY <2>4, <2>5, ColumnsType
    <3>3. col' \in [Columns -> Contents] /\ real' \subseteq Columns
      BY <2>2, <2>6, <2>7
    <3>4. /\ prompt' \in 0 .. MaxLen /\ tokens' \in 0 .. MaxLen /\ junction' \in 0 .. MaxLen
          /\ cached' \in [Ends -> Contents] /\ stash' \in BOOLEAN /\ budget' \in Budgets
      BY <1>3 DEF StateInv, StateTypeOK
    <3>5. drafts' \in BOOLEAN /\ phase' \in {"none", "waiting", "running"}
      BY <1>3, Zenon
    <3> QED
      BY <3>1, <3>2, <3>3, <3>4, <3>5, Zenon DEF StateTypeOK
  <2>9. HoldsState'
    <3>1. stateIdx' + acc' - 1 = k /\ stateIdx' # -1
      <4>1. acc' = 1
        BY <1>3
      <4> QED
        BY <4>1, <2>4
    <3>2. InSlot'
      BY <1>2, <2>6, <3>1 DEF InSlot
    <3> QED
      BY <2>2, <3>1, <3>2 DEF HoldsState
  <2>10. RealBehind'
    BY <2>2, <2>3, <2>7, StateAssumption DEF RealBehind
  <2>11. Within' /\ SlotHoldsItsHash' /\ OneAccepted'
    BY <1>2, <1>3, <1>4 DEF StateInv, Within, SlotHoldsItsHash, OneAccepted
  <2>12. BlockBehind'
    <3>1. resume = Floor(resume, StateBlock)
      BY <2>1 , EndOfBlock DEF Floor
    <3> QED
      BY <2>2, <2>3, <2>6, <2>7, <3>1 DEF BlockBehind
  <2> QED
    BY <2>8, <2>9, <2>10, <2>11, <2>12 DEF StateInv
<1> QED
  BY <1>5, <1>6

(* A chunk stores its end state; a block whose end lies in the chunk is    *)
(* either the chunk's own, or has no block of the cache yet.               *)
LEMMA PrefillState ==
  ASSUME StateInv, NEW left \in 1 .. budget, Prefill(left)
  PROVE  StateInv'
<1> DEFINE m == Min({left, tokens - computed})
           n == Split(computed, m)
<1>1. StateTypeOK /\ phase = "running" /\ computed < PrefillEnd /\ computed \in Nat /\ computed <= tokens
      /\ tokens < MaxLen /\ prompt <= tokens /\ prompt > 0 /\ budget \in Nat /\ MaxLen \in Nat
      /\ tokens \in Nat /\ prompt \in Nat
  BY StateAssumption DEF Prefill, StateInv, StateTypeOK, Within
<1>2. m \in Nat /\ m <= tokens - computed
  BY <1>1, OfTwo
<1>3. /\ n > 0 /\ computed' = computed + n /\ stateIdx' = Column(n) /\ acc' = 1
      /\ drafts' = (computed + n = tokens)
      /\ col' = [Precopied(n) EXCEPT ![Column(n)] = After(n, n)]
      /\ real' = real \cup {Column(n)}
      /\ tokens' = IF computed + n = tokens THEN tokens + 1 ELSE tokens
      /\ Publish(computed, computed + n, col')
      /\ UNCHANGED <<phase, prompt, junction, stash, budget>>
  BY DEF Prefill
<1> HIDE DEF m
<1>4. n \in Nat \ {0} /\ n <= m /\ computed + n <= tokens
      /\ (computed % StateBlock # 0 => computed + n <= Floor(computed, StateBlock) + StateBlock)
  <2>1. n \in Nat /\ n <= m
        /\ (computed % StateBlock # 0 => computed + n <= Floor(computed, StateBlock) + StateBlock)
    BY <1>1, <1>2, SplitBounds
  <2> HIDE DEF n
  <2> QED
    BY <1>1, <1>2, <1>3, <2>1
<1>14. (computed + n) \div StateBlock = computed \div StateBlock \/ (computed + n) % StateBlock = 0
  <2>1. computed + m <= tokens
    BY <1>1, <1>2
  <2> QED
    BY <1>1, <1>2, <2>1, ChunkEnds
<1> HIDE DEF n
<1>5. /\ Column(n) \in Nat /\ Column(n) \in 0 .. MaxLen \div StateBlock /\ Column(n) \in Columns
      /\ Column(n) * StateBlock <= computed + n - 1
      /\ computed + n - 1 < Column(n) * StateBlock + StateBlock
  <2>1. computed + n <= MaxLen
    BY <1>1, <1>4
  <2> QED
    BY <1>1, <1>4, <2>1, ColumnIs, ColumnsType
<1>6. After(n, n) = computed + n
  <2>1. ~ (computed >= PrefillEnd)
    BY <1>1, EndIs
  <2>2. Read(n) = computed
    BY <1>1, <1>4, <1>5, <2>1, ReadsExactly DEF StateInv, OneAccepted
  <2> QED
    BY <2>2, AfterIs
<1>7. col' \in [Columns -> Contents] /\ col'[Column(n)] = computed + n
  <2>1. Precopied(n) \in [Columns -> Contents]
    BY <1>1, <1>4, PrecopiedType DEF StateInv
  <2>2. computed + n \in Contents
    BY <1>1, <1>4 DEF Contents
  <2> QED
    BY <1>3, <1>5, <1>6, <2>1, <2>2
<1>8. ASSUME NEW b \in Ends, computed < b, b <= computed + n, (b \div StateBlock) - 1 \in real'
      PROVE  col'[(b \div StateBlock) - 1] = b
  <2>1. PICK k \in Nat : /\ k = (b \div StateBlock) - 1 /\ k \in Columns
                         /\ k = (b - 1) \div StateBlock
                         /\ b = k * StateBlock + StateBlock /\ b = (k + 1) * StateBlock
    BY EndsItsBlock
  <2>2. b = k * StateBlock + StateBlock /\ b \in Nat
    BY <2>1, StateAssumption
  <2>3. b = computed + n
    <3>1. CASE k = Column(n)
      BY <3>1, <1>1, <1>4, <1>5, <1>8, <2>1, <2>2
    <3>2. CASE k \in real
      <4>1. k * StateBlock < computed
        BY <3>2, <1>1 DEF StateInv, RealBehind
      <4>2. computed \div StateBlock = k
        BY <4>1, <1>1, <1>8, <2>1, <2>2, OnlyBlock, StateAssumption
      <4>3. Floor(computed, StateBlock) = k * StateBlock /\ computed % StateBlock # 0
        <5>1. Floor(computed, StateBlock) = k * StateBlock
          BY <4>2, <1>1, FloorIs
        <5>2. computed % StateBlock = computed - k * StateBlock
          BY <5>1, <1>1, FloorIs
        <5> QED
          BY <4>1, <5>1, <5>2, <1>1, <2>2, StateAssumption
      <4> QED
        BY <4>3, <1>1, <1>4, <1>8, <2>1, <2>2
    <3> QED
      BY <3>1, <3>2, <1>3, <1>8, <2>1
  <2>4. k = Column(n)
    <3>1. k * StateBlock <= computed + n - 1 /\ computed + n - 1 < k * StateBlock + StateBlock
      BY <1>1, <1>4, <2>1, <2>2, <2>3, StateAssumption
    <3> QED
      BY <3>1, <1>1, <1>4, <2>1, OnlyBlock DEF Column
  <2> QED
    BY <2>1, <2>3, <2>4, <1>7
<1>9. cached' \in [Ends -> Contents] /\ SlotHoldsItsHash'
  <2>1. \A b \in Ends : cached'[b] \in {cached[b], b}
    BY <1>3, <1>8 DEF Publish
  <2>2. cached' = [b \in Ends |-> cached'[b]]
    BY <1>3 DEF Publish
  <2>3. \A b \in Ends : cached'[b] \in {0, b} /\ cached'[b] \in Contents
    BY <2>1 DEF StateInv, StateTypeOK, SlotHoldsItsHash, Contents
  <2> QED
    BY <2>2, <2>3 DEF SlotHoldsItsHash
<1>16. OneAccepted' /\ drafts' \in BOOLEAN
  BY <1>3 DEF OneAccepted
<1>10. StateTypeOK'
  BY <1>16, <1>1, <1>3, <1>4, <1>5, <1>7, <1>9, StateAssumption DEF StateTypeOK
<1>11. HoldsState'
  <2>1. stateIdx' + acc' - 1 = Column(n)
    BY <1>3, <1>5
  <2>2. stateIdx' # -1
    BY <1>3, <1>5
  <2>3. InSlot'
    BY <1>3, <1>7, <2>1 DEF InSlot
  <2> QED
    BY <1>5, <2>1, <2>2, <2>3 DEF HoldsState
<1>12. RealBehind'
  BY <1>1, <1>3, <1>4, <1>5, ColumnsType, StateAssumption DEF StateInv, RealBehind, StateTypeOK
<1>15. BlockBehind'
  <2> SUFFICES ASSUME computed' >= StateBlock
               PROVE  /\ (computed' \div StateBlock) - 1 \in real'
                      /\ col'[(computed' \div StateBlock) - 1] = Floor(computed', StateBlock)
    BY DEF BlockBehind
  <2>1. CASE (computed + n) % StateBlock = 0
    <3>1. computed + n \in Ends
      BY <1>1, <1>4, <2>1 DEF Ends
    <3>2. ((computed + n) \div StateBlock) - 1 = Column(n) /\ Floor(computed + n, StateBlock) = computed + n
      <4>1. PICK b \in Ends : b = computed + n
        BY <3>1
      <4>2. (b \div StateBlock) - 1 = (b - 1) \div StateBlock /\ b = (b \div StateBlock) * StateBlock
        BY EndsItsBlock, EndOfBlock
      <4>3. Column(n) = (b - 1) \div StateBlock
        <5>1. computed + n - 1 = b - 1
          BY <1>1, <1>4, <4>1
        <5> QED
          BY <5>1 DEF Column
      <4>4. Floor(b, StateBlock) = b
        BY <4>2 DEF Floor
      <4> QED
        BY <4>1, <4>2, <4>3, <4>4
    <3> QED
      BY <1>3, <1>7, <3>2
  <2>2. CASE (computed + n) \div StateBlock = computed \div StateBlock
    <3> DEFINE q == computed \div StateBlock
    <3>1. q \in Int /\ q * StateBlock <= computed /\ computed < q * StateBlock + StateBlock
          /\ computed + n < q * StateBlock + StateBlock
      BY <1>1, <1>4, <2>2, InBlock
    <3>2. Floor(computed + n, StateBlock) = Floor(computed, StateBlock)
      BY <2>2 DEF Floor
    <3> HIDE DEF q
    <3>3. Column(n) = q
      <4>1. computed + n - 1 \in Int /\ q * StateBlock <= computed + n - 1
            /\ computed + n - 1 < q * StateBlock + StateBlock
        BY <1>1, <1>4, <3>1, StateAssumption
      <4> QED
        BY <3>1, <4>1, OnlyBlock DEF Column
    <3>4. computed >= StateBlock
      <4>1. q >= 1
        <5>1. CASE q <= 0
          <6>1. q * StateBlock <= 0 * StateBlock
            BY <3>1, <5>1, StateAssumption
          <6> QED
            BY <1>3, <3>1, <6>1, StateAssumption
        <5> QED
          BY <3>1, <5>1
      <4>2. StateBlock <= q * StateBlock
        BY <3>1, <4>1, StateAssumption
      <4> QED
        BY <1>1, <3>1, <4>2, StateAssumption
    <3>5. q - 1 \in real /\ col[q - 1] = Floor(computed, StateBlock)
      BY <1>1, <3>4 DEF StateInv, BlockBehind, q
    <3>6. Precopied(n)[q - 1] = col[q - 1]
      BY <1>1, <3>1, <3>3, <3>5 DEF Precopied, StateTypeOK
    <3>7. col'[q - 1] = col[q - 1]
      <4>1. Precopied(n) \in [Columns -> Contents] /\ q - 1 \in Columns
        BY <1>1, <1>4, <3>5, PrecopiedType DEF StateInv, StateTypeOK
      <4> QED
        BY <1>3, <3>1, <3>3, <3>6, <4>1
    <3> QED
      BY <1>3, <2>2, <3>2, <3>5, <3>7 DEF q
  <2> QED
    BY <1>14, <2>1, <2>2
<1>13. Within'
  <2>1. PrefillEnd' = IF prompt >= tokens' - 1 THEN prompt ELSE tokens' - 1
    <3>1. (prompt = prompt') /\ tokens' - 1 \in Int
      BY <1>1, <1>3
    <3> QED
      BY <1>1, <3>1, OfTwo DEF PrefillEnd
  <2> QED
    BY <1>1, <1>3, <1>4, <2>1 DEF Within
<1> QED
  BY <1>9, <1>10, <1>11, <1>12, <1>13, <1>15, <1>16 DEF StateInv

(* A decode step of one token that is not a cut one finds the count at one.*)
LEMMA DecodeSize ==
  ASSUME ~Trims, OneAccepted, phase = "running", computed >= PrefillEnd, NEW t \in DecodeSizes
  PROVE  t \in 1 .. MaxDrafts + 1 /\ (SpecRow(t) \/ acc = 1)
<1>1. CASE drafts
  BY <1>1, StateAssumption DEF DecodeSizes, SpecRow
<1>2. CASE ~drafts
  BY <1>2 DEF DecodeSizes, OneAccepted
<1> QED
  BY <1>1, <1>2

(* A decode step: it saves the state at a block's end that the accepted    *)
(* tokens pass, and keeps records only when no window of the next step can *)
(* leave the column.                                                       *)
LEMMA DecodeState ==
  ASSUME MaxDrafts < StateBlock, ~Trims, StateInv,
         NEW t \in DecodeSizes, NEW a \in 1 .. t, Decode(t, a)
  PROVE  StateInv'
<1> DEFINE cur == Column(t)
           records == stash /\ ~ Full(computed, t)
           written == [c \in Columns |->
             IF c < cur \/ c >= cur + t THEN Precopied(t)[c]
             ELSE IF c # cur /\ stash /\ ~Full(computed, t) THEN Replay
             ELSE IF c - cur < a THEN After(t, c - cur + 1) ELSE Junk]
           aligned == Floor(computed + a, StateBlock)
           dst == (aligned \div StateBlock) - 1
           saves == aligned > computed
           B == StateBlock
           M == MaxDrafts
<1>1. /\ StateTypeOK /\ phase = "running" /\ computed >= PrefillEnd /\ computed + t < MaxLen
      /\ computed \in Nat /\ prompt \in Nat /\ tokens \in Nat /\ prompt > 0 /\ MaxLen \in Nat
      /\ t \in Nat /\ a \in Nat /\ t \in Nat \ {0} /\ 1 <= a /\ a <= t /\ t <= M + 1 /\ t <= B
      /\ B \in Nat \ {0} /\ M \in Nat
  <2>1. t \in 1 .. MaxDrafts + 1
    BY DecodeSize DEF Decode, StateInv
  <2> QED
    BY <2>1, StateAssumption DEF Decode, StateInv, StateTypeOK, Within
<1>2. /\ computed' = computed + a /\ tokens' = computed + a + 1
      /\ stateIdx' = cur /\ acc' = IF saves /\ cur = dst THEN 1 ELSE a
      /\ col' = IF saves THEN [written EXCEPT ![dst] = written[cur + aligned - computed - 1]] ELSE written
      /\ real' = real \cup {cur} \cup (IF saves THEN {dst} ELSE {})
      /\ Publish(computed, computed + a, col')
  BY Zenon DEF Decode
<1>3. UNCHANGED <<phase, prompt, junction, stash, budget>> /\ drafts' = TRUE
  BY DEF Decode
<1>4. prompt <= computed
  BY <1>1, EndIs
<1>5. /\ cur \in Nat /\ cur \in 0 .. MaxLen \div B /\ cur \in Columns
      /\ cur * B <= computed + t - 1 /\ computed + t - 1 < cur * B + B
  <2>1. computed + t <= MaxLen
    BY <1>1
  <2> QED
    BY <1>1, <2>1, ColumnIs, ColumnsType
<1>6. \A i \in 0 .. t - 1 : cur + i \in Columns
  BY <1>1, <1>5, ColumnsType DEF Columns
<1>7. \A i : After(t, i) = computed + i
  <2>1. SpecRow(t) \/ acc = 1
    BY <1>1, DecodeSize DEF StateInv
  <2>2. Read(t) = computed
    BY <1>1, <1>5, <2>1, ReadsExactly DEF StateInv
  <2> QED
    BY <2>2, AfterIs
<1>8. written \in [Columns -> Contents]
      /\ \A i \in 0 .. t - 1 : written[cur + i] =
           IF i # 0 /\ records THEN Replay ELSE IF i < a THEN computed + i + 1 ELSE Junk
  <2>1. Precopied(t) \in [Columns -> Contents]
    BY <1>1, PrecopiedType DEF StateInv
  <2>2. \A c \in Columns : c \in Nat
    BY ColumnsType
  <2>3. written = [c \in Columns |->
          IF c < cur \/ c >= cur + t THEN Precopied(t)[c]
          ELSE IF c # cur /\ records THEN Replay
          ELSE IF c - cur < a THEN computed + (c - cur + 1) ELSE Junk]
    BY <1>7, Zenon
  <2> HIDE DEF cur, written, records
  <2>4. \A c \in Columns : ~ (c < cur) /\ c - cur < a => computed + (c - cur + 1) \in 0 .. MaxLen
    BY <1>1, <1>5, <2>2
  <2>5. Replay \in Contents /\ Junk \in Contents /\ 0 .. MaxLen \subseteq Contents
    BY DEF Contents
  <2>6. written \in [Columns -> Contents]
    BY <2>1, <2>3, <2>4, <2>5
  <2>7. ASSUME NEW i \in 0 .. t - 1
        PROVE  written[cur + i] =
           IF i # 0 /\ records THEN Replay ELSE IF i < a THEN computed + i + 1 ELSE Junk
    <3>1. cur + i \in Columns /\ ~ (cur + i < cur \/ cur + i >= cur + t) /\ (cur + i # cur <=> i # 0)
          /\ (cur + i) - cur = i
      <4>1. cur + i \in Columns
        BY <1>6
      <4>2. cur \in Nat /\ i \in Nat /\ i < t /\ t \in Nat
        BY <1>1, <1>5
      <4> QED
        BY <4>1, <4>2
    <3> QED
      BY <1>1, <2>3, <3>1
  <2> QED
    BY <2>6, <2>7
<1>9. /\ aligned \in Int /\ aligned <= computed + a /\ computed + a < aligned + B
      /\ aligned = ((computed + a) \div B) * B /\ aligned \div B = (computed + a) \div B
  <2>1. computed + a \in Int
    BY <1>1
  <2> QED
    BY <2>1, FloorIs
<1> HIDE DEF cur, written, records, aligned, dst, saves
<1>10. ASSUME saves
       PROVE  \E e \in Nat : /\ dst = e /\ e \in Columns /\ aligned = e * B + B
                             /\ e <= cur /\ ~ records
                             /\ written[cur + aligned - computed - 1] = aligned
                             /\ e = cur => aligned = computed + a
  <2>1. aligned \in Ends
    <3>1. aligned > computed /\ aligned \in 1 .. MaxLen
      BY <1>1, <1>9, <1>10 DEF saves
    <3>2. aligned = Floor(aligned, B)
      BY <1>9 DEF Floor
    <3>3. aligned % B = 0
      BY <1>9, <3>2, FloorIs
    <3> QED
      BY <3>1, <3>3 DEF Ends
  <2>2. PICK e \in Nat : /\ e = (aligned \div B) - 1 /\ e \in Columns
                         /\ aligned = e * B + B /\ aligned = (e + 1) * B
    BY <2>1, EndsItsBlock
  <2>3. aligned > computed
    BY <1>10 DEF saves
  <2>4. e <= cur
    <3>1. CASE cur < e
      <4>1. cur * B + B <= e * B
        BY <3>1, <1>5, BlocksApart
      <4> QED
        BY <4>1, <1>1, <1>5, <1>9, <2>2
    <3> QED
      BY <3>1, <1>5
  <2>5. ~ records
    <3>1. CASE ~ Full(computed, t)
      <4> DEFINE q == computed \div B
      <4>1. q \in Int /\ q * B <= computed /\ computed < q * B + B
        BY <1>1, InBlock
      <4>2. computed + t + M < q * B + B
        <5>1. (computed + t + M) \div B = q
          BY <3>1 DEF Full
        <5> QED
          BY <5>1, <1>1, InBlock
      <4> HIDE DEF q
      <4>3. q < e + 1
        <5>1. CASE e + 1 < q
          <6>1. (e + 1) * B + B <= q * B
            BY <5>1, <4>1, BlocksApart
          <6> QED
            BY <6>1, <1>1, <1>9, <2>2, <2>3, <4>1
        <5>2. CASE e + 1 = q
          BY <5>2, <1>1, <1>9, <2>2, <2>3, <4>1
        <5> QED
          BY <5>1, <5>2, <4>1
      <4>4. q * B + B <= (e + 1) * B
        BY <4>1, <4>3, BlocksApart
      <4> QED
        BY <1>1, <1>9, <2>2, <4>1, <4>2, <4>4
    <3> QED
      BY <3>1 DEF records
  <2>6. written[cur + aligned - computed - 1] = aligned
    <3>1. PICK i \in 0 .. t - 1 : i = aligned - computed - 1 /\ i < a
      <4>1. /\ computed \in Nat /\ t \in Nat /\ a \in Nat /\ a <= t
            /\ aligned \in Int /\ aligned <= computed + a
        BY <1>1, <1>9
      <4>2. aligned - computed - 1 \in 0 .. t - 1 /\ aligned - computed - 1 < a
        BY <4>1, <2>3
      <4> QED
        BY <4>2, Zenon
    <3>2. cur + aligned - computed - 1 = cur + i
      BY <1>1, <1>5, <1>9, <3>1
    <3>3. written[cur + i] = computed + i + 1
      BY <1>8, <2>5, <3>1
    <3> QED
      BY <1>1, <1>9, <3>1, <3>2, <3>3
  <2>7. e = cur => aligned = computed + a
    BY <1>1, <1>5, <1>9, <2>2
  <2> QED
    BY <2>2, <2>4, <2>5, <2>6, <2>7 DEF dst
<1>0. PICK e \in Nat : saves => /\ dst = e /\ e \in Columns /\ aligned = e * B + B
                                /\ e <= cur /\ ~ records
                                /\ written[cur + aligned - computed - 1] = aligned
                                /\ e = cur => aligned = computed + a
  <2>1. CASE saves
    BY <1>10, <2>1, Zenon
  <2>2. CASE ~ saves
    BY <2>2
  <2> QED
    BY <2>1, <2>2
<1>11. col' \in [Columns -> Contents] /\ real' \subseteq Columns
  <2>1. CASE saves
    <3>1. dst = e /\ e \in Columns /\ written[cur + aligned - computed - 1] = aligned
      BY <2>1, <1>0
    <3>2. aligned \in Contents
      <4>1. aligned \in 0 .. MaxLen
        BY <1>1, <1>9, <2>1 DEF saves
      <4> QED
        BY <4>1 DEF Contents
    <3>3. col' = [written EXCEPT ![dst] = aligned]
      BY <1>2, <2>1, <3>1
    <3>4. real' = real \cup {cur} \cup {dst}
      BY <1>2, <2>1
    <3> QED
      BY <1>1, <1>5, <1>8, <3>1, <3>2, <3>3, <3>4 DEF StateTypeOK
  <2>2. CASE ~ saves
    <3>1. col' = written /\ real' = real \cup {cur}
      BY <1>2, <2>2
    <3> QED
      BY <1>1, <1>5, <1>8, <3>1 DEF StateTypeOK
  <2> QED
    BY <2>1, <2>2
<1>12. acc' \in 1 .. MaxDrafts + 1
  <2>1. acc' \in {1, a}
    BY <1>2
  <2> QED
    BY <1>1, <2>1
<1>13. HoldsState'
  <2>1. CASE saves
    <3>1. /\ dst = e /\ e \in Columns /\ e <= cur /\ ~ records
          /\ written[cur + aligned - computed - 1] = aligned
          /\ e = cur => aligned = computed + a
      BY <2>1, <1>0
    <3>2. col' = [written EXCEPT ![e] = aligned] /\ acc' = IF cur = e THEN 1 ELSE a
      BY <1>2, <2>1, <3>1
    <3>3. stateIdx' + acc' - 1 \in Columns /\ stateIdx' # -1
      <4>1. stateIdx' + acc' - 1 \in {cur, cur + (a - 1)} /\ stateIdx' # -1
        BY <1>1, <1>2, <1>5, <3>2
      <4>2. cur + (a - 1) \in Columns
        BY <1>1, <1>6
      <4> QED
        BY <1>5, <4>1, <4>2
    <3>4. col'[stateIdx' + acc' - 1] = computed'
      <4>1. CASE cur = e
        <5>1. stateIdx' + acc' - 1 = e
          BY <1>2, <1>5, <3>2, <4>1
        <5> QED
          BY <1>2, <1>8, <3>1, <3>2, <4>1, <5>1
      <4>2. CASE cur # e
        <5>1. stateIdx' + acc' - 1 = cur + (a - 1) /\ cur + (a - 1) # e /\ cur + (a - 1) \in Columns
              /\ a - 1 \in 0 .. t - 1 /\ a - 1 < a
          BY <1>1, <1>2, <1>5, <1>6, <3>1, <3>2, <4>2
        <5>2. written[cur + (a - 1)] = computed + (a - 1) + 1
          BY <1>8, <3>1, <5>1
        <5> QED
          BY <1>1, <1>2, <1>8, <3>2, <5>1, <5>2
      <4> QED
        BY <4>1, <4>2
    <3> QED
      BY <3>3, <3>4 DEF HoldsState, InSlot
  <2>2. CASE ~ saves
    <3>1. col' = written /\ acc' = a /\ stateIdx' = cur /\ computed' = computed + a
      BY <1>2, <2>2
    <3>2. stateIdx' + acc' - 1 = cur + (a - 1) /\ cur + (a - 1) \in Columns /\ stateIdx' # -1
      BY <1>1, <1>5, <1>6, <3>1
    <3>3. CASE a = 1 \/ ~ records
      <4>1. a - 1 \in 0 .. t - 1 /\ a - 1 < a /\ (a - 1 = 0 \/ ~ records)
        BY <1>1, <3>3
      <4>2. written[cur + (a - 1)] = computed + (a - 1) + 1
        BY <1>8, <4>1
      <4> QED
        BY <1>1, <3>1, <3>2, <4>2 DEF HoldsState, InSlot
    <3>4. CASE a > 1 /\ records
      <4>1. written[cur] = computed + 1
        <5>1. written[cur + 0] = computed + 0 + 1
          BY <1>1, <1>8
        <5> QED
          BY <5>1, <1>1, <1>5
      <4>2. ASSUME NEW i \in 1 .. a - 1 PROVE written[cur + i] = Replay
        <5>1. i \in 0 .. t - 1 /\ i # 0
          BY <1>1
        <5> QED
          BY <1>8, <3>4, <5>1
      <4>3. (computed + a) \div B = cur /\ (computed + a + M) \div B = cur
        <5>1. computed \div B = (computed + t + M) \div B
          BY <3>4 DEF records, Full
        <5>2. /\ computed \div B <= (computed + t - 1) \div B
              /\ (computed + t - 1) \div B <= (computed + t + M) \div B
              /\ computed \div B <= (computed + a) \div B
              /\ (computed + a) \div B <= (computed + a + M) \div B
              /\ (computed + a + M) \div B <= (computed + t + M) \div B
          <6>1. /\ computed <= computed + t - 1 /\ computed + t - 1 <= computed + t + M
                /\ computed <= computed + a /\ computed + a <= computed + a + M
                /\ computed + a + M <= computed + t + M
                /\ computed \in Int /\ computed + t - 1 \in Int /\ computed + t + M \in Int
                /\ computed + a \in Int /\ computed + a + M \in Int
            BY <1>1
          <6> QED
            BY <6>1, SameColumn
        <5>3. /\ computed \div B \in Int /\ (computed + t - 1) \div B \in Int
              /\ (computed + a) \div B \in Int /\ (computed + a + M) \div B \in Int
          BY <1>1, InBlock
        <5>4. (computed + t - 1) \div B = cur
          BY DEF cur, Column
        <5> QED
          BY <5>1, <5>2, <5>3, <5>4
      <4>4. computed' >= PrefillEnd'
        <5>1. PrefillEnd' = IF prompt >= tokens' - 1 THEN prompt ELSE tokens' - 1
          <6>1. prompt' = prompt /\ tokens' - 1 \in Int
            BY <1>1, <1>2, <1>3
          <6> QED
            BY <1>1, <6>1, OfTwo DEF PrefillEnd
        <5> QED
          BY <1>1, <1>2, <1>4, <5>1
      <4>5. stash' /\ acc' > 1 /\ col'[stateIdx'] >= 0 /\ col'[stateIdx'] + acc' - 1 = computed'
        BY <1>1, <1>3, <3>1, <3>4, <4>1 DEF records
      <4>6. \A i \in 1 .. acc' - 1 : col'[stateIdx' + i] = Replay
        BY <3>1, <4>2
      <4>7. computed' \div B = stateIdx' /\ (computed' + M) \div B = stateIdx'
        BY <3>1, <4>3
      <4>8. InRecords'
        BY <4>4, <4>5, <4>6, <4>7 DEF InRecords
      <4> QED
        BY <3>2, <4>8 DEF HoldsState
    <3> QED
      BY <1>1, <3>3, <3>4
  <2> QED
    BY <2>1, <2>2
<1>14. ASSUME NEW b \in Ends, computed < b, b <= computed + a
       PROVE  col'[(b \div B) - 1] = b
  <2>1. PICK k \in Nat : /\ k = (b \div B) - 1 /\ k \in Columns
                         /\ b = k * B + B /\ b = (k + 1) * B
    BY EndsItsBlock
  <2>2. (computed + a) \div B = k + 1
    <3>1. computed + a \in Int /\ k + 1 \in Int /\ (k + 1) * B <= computed + a
          /\ computed + a < b + B
      BY <1>1, <1>14, <2>1
    <3>2. computed + a < (k + 1) * B + B
      BY <2>1, <3>1
    <3> QED
      BY <3>1, <3>2, OnlyBlock
  <2>3. aligned = b /\ saves
    BY <1>9, <1>14, <2>1, <2>2 DEF saves
  <2>4. dst = e /\ e \in Columns /\ written[cur + aligned - computed - 1] = aligned
    BY <2>3, <1>0
  <2>5. e = k
    BY <2>1, <2>3, <2>4 DEF dst
  <2>6. col' = [written EXCEPT ![e] = aligned]
    BY <1>2, <2>3, <2>4
  <2> QED
    BY <1>8, <2>1, <2>3, <2>4, <2>5, <2>6
<1>15. cached' \in [Ends -> Contents] /\ SlotHoldsItsHash'
  <2>1. \A b \in Ends : cached'[b] \in {cached[b], b}
    BY <1>2, <1>14 DEF Publish
  <2>2. cached' = [b \in Ends |-> cached'[b]]
    BY <1>2 DEF Publish
  <2>3. \A b \in Ends : cached'[b] \in {0, b} /\ cached'[b] \in Contents
    BY <2>1 DEF StateInv, StateTypeOK, SlotHoldsItsHash, Contents
  <2> QED
    BY <2>2, <2>3 DEF SlotHoldsItsHash
<1>16. computed' \in 0 .. MaxLen /\ tokens' \in 0 .. MaxLen
  BY <1>1, <1>2
<1>17. StateTypeOK'
  BY <1>1, <1>2, <1>3, <1>5, <1>11, <1>12, <1>15, <1>16, ColumnsType DEF StateTypeOK
<1>18. RealBehind' /\ Within' /\ OneAccepted'
  <2>1. PrefillEnd' = IF prompt >= tokens' - 1 THEN prompt ELSE tokens' - 1
    <3>1. prompt' = prompt /\ tokens' - 1 \in Int
      BY <1>1, <1>2, <1>3
    <3> QED
      BY <1>1, <3>1, OfTwo DEF PrefillEnd
  <2>2. ~ (computed' < PrefillEnd') /\ phase' = "running" /\ prompt' = prompt
    BY <1>1, <1>2, <1>3, <1>4, <2>1
  <2> QED
    BY <1>1, <1>2, <1>3, <1>4, <2>2 DEF RealBehind, Within, OneAccepted
<1>19. BlockBehind'
  <2> SUFFICES ASSUME computed' >= B
               PROVE  /\ (computed' \div B) - 1 \in real'
                      /\ col'[(computed' \div B) - 1] = Floor(computed', B)
    BY DEF BlockBehind
  <2>1. (computed' \div B) - 1 = dst /\ Floor(computed', B) = aligned
    BY <1>2, <1>9 DEF dst, aligned
  <2>2. CASE saves
    <3>1. dst = e /\ e \in Columns /\ written[cur + aligned - computed - 1] = aligned
      BY <2>2, <1>0
    <3>2. col' = [written EXCEPT ![dst] = aligned] /\ dst \in real'
      BY <1>2, <2>2, <3>1
    <3> QED
      BY <1>8, <2>1, <3>1, <3>2
  <2>3. CASE ~ saves
    <3> DEFINE q == computed \div B
    <3>1. q \in Int /\ q * B <= computed /\ computed < q * B + B /\ Floor(computed, B) = q * B
      <4>1. computed \in Int
        BY <1>1
      <4> QED
        BY <4>1, InBlock, FloorIs
    <3>2. (computed + a) \div B = q
      <4>1. aligned <= computed
        BY <1>1, <1>9, <2>3 DEF saves
      <4>2. q <= (computed + a) \div B
        BY <1>1, SameColumn
      <4>3. ~ (q < (computed + a) \div B)
        BY <1>1, <1>9, <3>1, <4>1, BlocksApart, InBlock
      <4> QED
        BY <1>1, <3>1, <4>2, <4>3, InBlock
    <3>3. q <= cur
      BY <1>1, SameColumn DEF cur, Column
    <3> HIDE DEF q
    <3>4. computed >= B
      <4>1. q * B = aligned /\ dst = q - 1
        BY <1>9, <3>2 DEF dst
      <4>2. q >= 1
        <5>1. CASE q <= 0
          <6>1. q * B <= 0 * B
            BY <1>1, <3>1, <5>1
          <6> QED
            BY <1>1, <1>2, <1>9, <4>1, <6>1
        <5> QED
          BY <3>1, <5>1
      <4>3. B <= q * B
        BY <1>1, <3>1, <4>2
      <4> QED
        BY <1>1, <3>1, <4>3
    <3>5. q - 1 \in real /\ col[q - 1] = Floor(computed, B)
      BY <1>1, <3>4 DEF StateInv, BlockBehind, q
    <3>6. q - 1 \in Columns
      BY <1>1, <3>5 DEF StateTypeOK
    <3>7. col' = written /\ real' = real \cup {cur}
      BY <1>2, <2>3
    <3>8. written[q - 1] = Precopied(t)[q - 1]
      BY <1>5, <3>1, <3>3, <3>6 DEF written
    <3>9. Precopied(t)[q - 1] = col[q - 1]
      <4>1. Column(t) # q - 1
        BY <1>5, <3>1, <3>3 DEF cur
      <4> QED
        BY <1>1, <3>6, <4>1 DEF Precopied, StateTypeOK
    <3>10. aligned = Floor(computed, B) /\ dst = q - 1
      BY <1>9, <3>1, <3>2 DEF dst
    <3> QED
      BY <2>1, <3>5, <3>7, <3>8, <3>9, <3>10
  <2> QED
    BY <2>2, <2>3
<1> QED
  BY <1>13, <1>15, <1>17, <1>18, <1>19 DEF StateInv

(* A request that does not run has no columns.                             *)
LEMMA ReleaseState ==
  ASSUME StateInv, Preempt \/ Finish
  PROVE  StateInv'
<1>1. StateTypeOK'
  <2>1. col' \in [Columns -> Contents]
    BY DEF Preempt, Finish, Release, Contents
  <2>2. drafts' \in BOOLEAN /\ phase' \in {"none", "waiting", "running"}
    BY Zenon DEF Preempt, Finish, Release
  <2>3. prompt' \in 0 .. MaxLen /\ tokens' \in 0 .. MaxLen /\ junction' \in 0 .. MaxLen
    BY StateAssumption DEF StateInv, StateTypeOK, Preempt, Finish
  <2>4. /\ computed' \in 0 .. MaxLen /\ real' \subseteq Columns
        /\ UNCHANGED <<stateIdx, acc, cached, stash, budget>>
    BY StateAssumption DEF Preempt, Finish, Release
  <2> QED
    BY <2>1, <2>2, <2>3, <2>4 DEF StateInv, StateTypeOK
<1>2. SlotHoldsItsHash' /\ HoldsState' /\ OneAccepted' /\ RealBehind' /\ BlockBehind' /\ Within'
  BY DEF StateInv, Preempt, Finish, Release, SlotHoldsItsHash, HoldsState, OneAccepted, RealBehind, BlockBehind,
     Within
<1> QED
  BY <1>1, <1>2 DEF StateInv

(* Evictions, switches between requests, and stutters.                     *)
LEMMA OtherState ==
  ASSUME StateInv, (\E b \in Ends : Evict(b)) \/ Switch \/ UNCHANGED stateVars
  PROVE  StateInv'
<1>1. CASE \E b \in Ends : Evict(b)
  <2>1. PICK b \in Ends : Evict(b)
    BY <1>1
  <2>2. UNCHANGED <<request, slots, stash, budget>> /\ cached' = [cached EXCEPT ![b] = 0]
    BY <2>1 DEF Evict
  <2>3. cached' \in [Ends -> Contents] /\ SlotHoldsItsHash'
    BY <2>2, StateAssumption DEF StateInv, StateTypeOK, SlotHoldsItsHash, Contents
  <2> QED
    BY <2>2, <2>3 DEF StateInv, StateTypeOK, HoldsState, OneAccepted, InSlot, InRecords, RealBehind, BlockBehind, Within,
       PrefillEnd, request, slots
<1>2. CASE Switch
  BY <1>2 DEF Switch, Busy, StateInv, StateTypeOK, HoldsState, OneAccepted, SlotHoldsItsHash, RealBehind, BlockBehind, Within,
     PrefillEnd, request, slots
<1>3. CASE UNCHANGED stateVars
  BY <1>3 DEF StateInv, StateTypeOK, HoldsState, OneAccepted, InSlot, InRecords, SlotHoldsItsHash, RealBehind, BlockBehind, Within,
     PrefillEnd, stateVars, request, slots
<1> QED
  BY <1>1, <1>2, <1>3

(* All steps; only decoding needs blocks longer than its drafts, and steps *)
(* that are not cut to one token.                                          *)
LEMMA NextState ==
  ASSUME MaxDrafts < StateBlock, ~Trims, StateInv, [StateNext]_stateVars
  PROVE  StateInv'
<1>1. CASE \E p \in 1 .. MaxLen - MaxDrafts - 1 : \E j \in 0 .. p : Arrive(p, j)
  BY <1>1, ArriveState
<1>2. CASE Admit
  BY <1>2, AdmitState
<1>3. CASE \E left \in 1 .. budget : Prefill(left)
  BY <1>3, PrefillState
<1>4. CASE \E t \in DecodeSizes : \E a \in 1 .. t : Decode(t, a)
  BY <1>4, DecodeState
<1>5. CASE Preempt \/ Finish
  BY <1>5, ReleaseState
<1>6. CASE (\E b \in Ends : Evict(b)) \/ Switch \/ UNCHANGED stateVars
  BY <1>6, OtherState
<1> QED
  BY <1>1, <1>2, <1>3, <1>4, <1>5, <1>6 DEF StateNext

(* The invariant holds in every reachable state.                           *)
LEMMA StateInvariant == ASSUME MaxDrafts < StateBlock, ~Trims PROVE StateSpec => []StateInv
<1>1. StateInit => StateInv
  BY InitState
<1>2. StateInv /\ [StateNext]_stateVars => StateInv'
  BY NextState
<1> QED
  BY <1>1, <1>2, PTL DEF StateSpec

-----------------------------------------------------------------------------
(* Whatever its next step is, a running request starts it from the state   *)
(* after exactly its computed tokens.                                      *)
LEMMA StartsExactly == ASSUME ~Trims PROVE StateInv => StateExact
<1> SUFFICES ASSUME StateInv, phase = "running", NEW n \in NextSizes, Column(n) + acc - 1 \in Columns
             PROVE  Read(n) = computed
  BY DEF StateExact
<1>1. StateTypeOK /\ HoldsState /\ computed \in Nat /\ tokens \in Nat /\ computed <= tokens /\ PrefillEnd \in Int
      /\ MaxDrafts \in Nat
  BY EndIs, StateAssumption DEF StateInv, StateTypeOK, Within
<1>2. n \in Nat \ {0} /\ (computed >= PrefillEnd => n <= MaxDrafts + 1) /\ (SpecRow(n) \/ acc = 1)
  <2>1. CASE computed < PrefillEnd
    <3>1. PICK left \in 1 .. budget : n = Split(computed, Min({left, tokens - computed})) /\ n # 0
      BY <2>1 DEF NextSizes
    <3>2. Min({left, tokens - computed}) \in Nat
      <4>1. left \in Nat /\ tokens - computed \in Nat
        BY <1>1, StateAssumption DEF StateTypeOK
      <4>2. \A x, y \in Nat : Min({x, y}) \in Nat
        BY OfTwo
      <4> QED
        BY <4>1, <4>2
    <3>3. n \in Nat
      BY <1>1, <2>1, <3>1, <3>2, SplitBounds
    <3> QED
      BY <1>1, <2>1, <3>1, <3>3 DEF StateInv, OneAccepted
  <2>2. CASE ~ (computed < PrefillEnd)
    BY <1>1, <2>2, DecodeSize DEF NextSizes, StateInv
  <2> QED
    BY <2>1, <2>2
<1>3. Column(n) \in Columns
  <2>1. Column(n) \in Nat /\ acc \in Nat \ {0}
    BY <1>1, <1>2, ColumnIs DEF StateTypeOK
  <2> QED
    BY <1>1, <2>1, ColumnsType DEF Columns
<1> QED
  BY <1>1, <1>2, <1>3, ReadsExactly

(* StateExact: no chunk, verify step or plain decode of a resumed request, *)
(* after any history of chunks, accepted drafts, records, preemptions,     *)
(* evictions and hits, starts from another state than the one after        *)
(* exactly the computed tokens, as long as no verify step is cut to one    *)
(* token.                                                                  *)
THEOREM StepsStartExactly == ASSUME MaxDrafts < StateBlock, ~Trims PROVE StateSpec => []StateExact
<1>1. StateSpec => []StateInv
  BY StateInvariant
<1> QED
  BY <1>1, StartsExactly, PTL

(* SlotHoldsItsHash: what is cached under the hash of b tokens is the      *)
(* state after b tokens.                                                   *)
THEOREM HashesTellTheState == ASSUME MaxDrafts < StateBlock, ~Trims PROVE StateSpec => []SlotHoldsItsHash
<1>1. StateSpec => []StateInv
  BY StateInvariant
<1>2. StateInv => SlotHoldsItsHash
  BY DEF StateInv
<1> QED
  BY <1>1, <1>2, PTL

(* A request that gets the whole budget always advances, and a prompt that *)
(* is computed has left the state of its last full block.                  *)
LEMMA PromptsChunked == StateInv => ChunksExact
<1> SUFFICES ASSUME StateInv PROVE ChunkAdvances /\ LastBlockCached
  BY DEF ChunksExact
<1>1. /\ StateTypeOK /\ computed \in Nat /\ tokens \in Nat /\ prompt \in Nat /\ budget \in Nat \ {0}
      /\ StateBlock \in Nat \ {0} /\ real \subseteq Columns
  BY StateAssumption DEF StateInv, StateTypeOK
<1>2. ChunkAdvances
  <2> SUFFICES ASSUME phase = "running", computed < PrefillEnd
               PROVE  Split(computed, Min({budget, tokens - computed})) > 0
    BY DEF ChunkAdvances
  <2>1. PrefillEnd = (IF prompt >= tokens - 1 THEN prompt ELSE tokens - 1) /\ prompt <= tokens
    BY <1>1, EndIs DEF StateInv, Within
  <2>2. tokens - computed \in Nat \ {0}
    BY <1>1, <2>1
  <2>3. PICK n \in Nat \ {0} :
          /\ n = Min({budget, tokens - computed})
          /\ n = budget \/ computed + n = tokens
    <3>1. \A x, y \in Nat \ {0} : Min({x, y}) \in {x, y}
      BY OfTwo
    <3> QED
      BY <1>1, <2>2, <3>1
  <2>4. n < StateBlock /\ computed + n < PrefillEnd => budget < StateBlock
    BY <1>1, <2>1, <2>3
  <2>5. Split(computed, n) > 0
    BY <1>1, <2>4, SplitAdvances
  <2> QED
    BY <2>3, <2>5
<1>3. LastBlockCached
  <2> SUFFICES ASSUME phase = "running", computed >= prompt, prompt >= StateBlock
               PROVE  \E c \in real : c >= (prompt \div StateBlock) - 1 /\ col[c] = (c + 1) * StateBlock
    BY DEF LastBlockCached
  <2> DEFINE c == (computed \div StateBlock) - 1
  <2>1. c \in real /\ col[c] = Floor(computed, StateBlock)
    BY <1>1 DEF StateInv, BlockBehind
  <2>2. Floor(computed, StateBlock) = (c + 1) * StateBlock
    <3>1. c + 1 = computed \div StateBlock
      BY <1>1, InBlock
    <3> QED
      BY <3>1 DEF Floor
  <2>3. c >= (prompt \div StateBlock) - 1
    BY <1>1, SameColumn, InBlock
  <2> QED
    BY <2>1, <2>2, <2>3
<1> QED
  BY <1>2, <1>3

(* ChunksExact: a request with the whole budget advances, and a computed   *)
(* prompt has left the state of its last full block in a column of its own.*)
THEOREM ChunksStopRight == ASSUME MaxDrafts < StateBlock, ~Trims PROVE StateSpec => []ChunksExact
<1>1. StateSpec => []StateInv
  BY StateInvariant
<1> QED
  BY <1>1, PromptsChunked, PTL
=============================================================================
