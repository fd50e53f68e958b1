----------------------------- MODULE PrefixHit ------------------------------
(***************************************************************************)
(* HybridKVCacheCoordinator.find_longest_cache_hit of                      *)
(* overlay/kv_cache_coordinator.py, with the repair that keeps the draft   *)
(* group from shrinking the hit.  Three groups take part: the target's     *)
(* full attention, the recurrent state and the draft's sliding window,     *)
(* which alone is flagged for the EAGLE drop.  One action is one turn of   *)
(* the loop over the groups.  What a manager finds in the block pool is    *)
(* external, and given by what is cached.                                  *)
(***************************************************************************)
EXTENDS Integers, Sequences

CONSTANTS HashBlock,    \* tokens of a draft and of a hash block
          Align,        \* _cache_hit_alignment_tokens
          Window,       \* draft blocks that the sliding window needs
          MaxPrompt     \* bound: tokens of a prompt

ASSUME HitAssumption ==
  /\ HashBlock \in Nat \ {0} /\ Align \in Nat \ {0}
  /\ Window \in Nat \ {0} /\ MaxPrompt \in Nat

HitGroups == {"full", "mamba", "draft"}
Lengths == 0 .. MaxPrompt
Boundaries == {n \in Lengths : n % Align = 0}
DraftBlocks == 0 .. MaxPrompt \div HashBlock
NoBlocks == -1
LookupOrders == {<<"full", "mamba", "draft">>, <<"full", "draft", "mamba">>}

VARIABLES full,      \* tokens whose attention blocks are cached from the start on
          mamba,     \* boundaries whose recurrent state is cached
          draft,     \* draft blocks that are cached
          limit,     \* max_cache_hit_length
          order,     \* attention_groups: full attention is sorted to the front
          hit,       \* hit_length
          curr,      \* curr_hit_length
          turn,      \* the group whose turn it is, 4 after the loop
          verified,  \* whether the draft group is in eagle_verified
          found,     \* hit_length_by_group, NoBlocks while a group has no blocks
          longest,   \* longest_hit_length
          call       \* none is made, it runs, or it has returned

pool == <<full, mamba, draft, limit, order>>
hitVars == <<pool, hit, curr, turn, verified, found, longest, call>>

HitTypeOK ==
  /\ full \in Lengths /\ mamba \subseteq Boundaries /\ draft \subseteq DraftBlocks
  /\ limit \in Lengths /\ order \in LookupOrders
  /\ hit \in Lengths /\ curr \in Lengths /\ turn \in 1 .. 4
  /\ verified \in BOOLEAN /\ call \in {"none", "runs", "returned"}
  /\ found \in [HitGroups -> Lengths \cup {NoBlocks}]
  /\ longest \in Lengths

(* One call; the next one starts from the same state.                      *)
HitInit ==
  /\ full = 0 /\ mamba = {} /\ draft = {} /\ limit = 0
  /\ order \in LookupOrders
  /\ hit = 0 /\ curr = 0 /\ turn = 4
  /\ verified = FALSE /\ longest = 0 /\ call = "none"
  /\ found = [g \in HitGroups |-> NoBlocks]

-----------------------------------------------------------------------------
(* What the managers find, no longer than n: the longest of these lengths. *)
(* The window must be cached up to the hit, and one block more when the    *)
(* last one is dropped.                                                    *)
Longest(S) == {b \in S : \A c \in S : c <= b}
FullHits(n) == {b \in Boundaries : b <= n /\ b <= full}
StateHits(n) == {b \in Boundaries : b <= n /\ (b = 0 \/ b \in mamba)}
WindowCached(b, extra) ==
  LET end == b \div HashBlock + extra
  IN  \A i \in DraftBlocks : i < end /\ i >= end - Window - extra => i \in draft
DraftHits(n, extra) ==
  {b \in Boundaries : b = 0 \/ (b + extra * HashBlock <= n /\ WindowCached(b, extra))}

-----------------------------------------------------------------------------
(* A call, with whatever the pool holds by then.                           *)
Ask ==
  /\ call = "none"
  /\ full' \in Lengths /\ limit' \in Lengths
  /\ mamba' \in SUBSET (Boundaries \ {0})
  /\ draft' \in SUBSET DraftBlocks
  /\ hit' = limit' /\ curr' = limit' /\ turn' = 1
  /\ verified' = FALSE
  /\ found' = [g \in HitGroups |-> NoBlocks]
  /\ longest' = 0 /\ call' = "runs"
  /\ UNCHANGED order

Turn(g) == call = "runs" /\ turn < 4 /\ order[turn] = g /\ turn' = turn + 1

(* A group that is not the draft's sets the candidate.                     *)
SettleLast(g, n) ==                       \* mutant: the last length, not the longest
  /\ found' = [found EXCEPT ![g] = n]
  /\ curr' = n
  /\ longest' = n
  /\ verified' = (verified /\ n >= curr)
Settle(g, n) ==
  /\ found' = [found EXCEPT ![g] = n]
  /\ curr' = n
  /\ longest' = IF n > longest THEN n ELSE longest
  /\ verified' = (verified /\ n >= curr)

(* Full attention is looked up once and trimmed afterwards.                *)
LookupFull ==
  /\ Turn("full")
  /\ IF found["full"] # NoBlocks
     THEN /\ curr' = IF found["full"] < curr THEN found["full"] ELSE curr
          /\ UNCHANGED <<found, longest, verified>>
     ELSE \E n \in Longest(FullHits(curr)) : Settle("full", n)
  /\ UNCHANGED <<pool, hit, call>>

LookupState ==
  /\ Turn("mamba")
  /\ \E n \in Longest(StateHits(curr)) : Settle("mamba", n)
  /\ UNCHANGED <<pool, hit, call>>

(* The draft group keeps what it finds only when that reaches the          *)
(* candidate, and never shrinks it.                                        *)
DraftShrinks(n) ==                        \* mutant: the loop before the repair
  /\ found' = [found EXCEPT !["draft"] = n]
  /\ curr' = n
KeepsShort(n) ==                          \* mutant: also a window that is too short
  /\ found' = [found EXCEPT !["draft"] = n]
  /\ curr' = curr
DraftKeeps(n) ==
  /\ found' = IF n >= curr THEN [found EXCEPT !["draft"] = n] ELSE found
  /\ curr' = curr
WithMargin(c, lim) == IF c + HashBlock <= lim THEN c + HashBlock ELSE lim
LookupDraft ==
  /\ Turn("draft")
  /\ \E n \in Longest(IF verified THEN DraftHits(curr, 0)
                      ELSE DraftHits(WithMargin(curr, limit), 1)) :
       /\ DraftKeeps(n)
       /\ verified' = (~verified \/ n >= curr)
  /\ UNCHANGED <<pool, hit, longest, call>>

(* The end of a pass: nothing shrank, or every group is asked again.  At   *)
(* the end the attention blocks are cut to the hit.                        *)
Stable == curr >= hit
EndPass ==
  /\ call = "runs" /\ turn = 4
  /\ \/ /\ Stable
        /\ call' = "returned"
        /\ found' = [found EXCEPT !["full"] = hit]
        /\ UNCHANGED <<hit, curr, turn>>
     \/ /\ ~Stable
        /\ hit' = curr /\ turn' = 1
        /\ UNCHANGED <<found, curr, call>>
  /\ UNCHANGED <<pool, verified, longest>>

HitNext == Ask \/ LookupFull \/ LookupState \/ LookupDraft \/ EndPass
HitSpec == HitInit /\ [][HitNext]_hitVars

-----------------------------------------------------------------------------
(* Lengths at which a request can start: attention and state are cached.   *)
Usable == {b \in Boundaries : b <= limit /\ b <= full /\ (b = 0 \/ b \in mamba)}

(* What the call returns is the longest length that both the target's      *)
(* attention and its recurrent state have cached: the passes lose nothing  *)
(* and stop nowhere else, whatever the draft's window holds.               *)
HitExact == call = "returned" => hit \in Longest(Usable)

(* The uncached common prefix it reports, longest - hit, is what attention *)
(* alone has cached past the hit.                                          *)
UncachedExact == call = "returned" => longest \in Longest(FullHits(limit))

(* With the draft group after the state group, the draft's blocks are the  *)
(* window of exactly this hit, or none at all; and a hit below the limit   *)
(* whose window is cached always gets it, since the first pass shrank and  *)
(* the last one no longer drops a block.                                   *)
DraftWindow ==
  call = "returned" /\ order[2] = "mamba" =>
    /\ found["draft"] # NoBlocks => found["draft"] = hit /\ (hit = 0 \/ WindowCached(hit, 0))
    /\ hit < limit /\ WindowCached(hit, 0) => found["draft"] = hit
=============================================================================
