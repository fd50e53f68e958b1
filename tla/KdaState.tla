------------------------------ MODULE KdaState ------------------------------
(***************************************************************************)
(* The recurrent (KDA) state of a request through prefill, decode steps    *)
(* with and without drafts, preemption and prefix hits:                    *)
(* overlay/glm_mamba_align_fix.py with the scheduler method it edits       *)
(* (tests/fixtures/), overlay/mamba_hybrid.py, the two paths of            *)
(* overlay/glm5next_kda.py, the boundary flag of overlay/glm_kda_stash.py  *)
(* and the guard of overlay/glm_ab.py.                                     *)
(*                                                                         *)
(* Column c of a request holds the state after (c + 1) * StateBlock tokens *)
(* once they are computed, and is then cached under their hash; while the  *)
(* request runs in column c, columns c, c + 1, ... are the slots of the    *)
(* speculative tokens.  A column's content is abstracted to the number of  *)
(* tokens that the state stands for, or to a replay record.                *)
(***************************************************************************)
EXTENDS Integers, FiniteSetsExt

CONSTANTS StateBlock,   \* mamba_block_size
          SmallBlock,   \* cache_config.block_size of the scheduler's process
          WorkerBlock,  \* cache_config.block_size of the workers' processes
          MaxDrafts,    \* speculative tokens of a step
          Budgets,      \* values of max_num_scheduled_tokens
          Trims,        \* whether budget or length may cut a verify step to one token
          MaxLen        \* bound: tokens of a request

ASSUME StateAssumption ==
  /\ StateBlock \in Nat \ {0} /\ SmallBlock \in Nat \ {0}
  /\ MaxDrafts \in Nat \ {0} /\ MaxLen \in Nat
  /\ Budgets \subseteq Nat \ {0} /\ Trims \in BOOLEAN

(* --block-size sets both; only the engine core overwrites its own later.  *)
ASSUME WorkerAssumption == WorkerBlock = StateBlock

Columns == 0 .. MaxLen \div StateBlock + MaxDrafts
Ends == {n \in 1 .. MaxLen : n % StateBlock = 0}
Junk == -1          \* a state of other tokens, or of none
Replay == -2        \* a replay record of the stash

VARIABLES phase,      \* "none", "waiting" or "running"
          prompt,     \* num_prompt_tokens
          tokens,     \* num_tokens: prompt and output
          junction,   \* shared_prefix_boundary
          computed,   \* num_computed_tokens
          stateIdx,   \* _mamba_state_idx_gpu: the column the request runs in
          acc,        \* num_accepted_tokens_gpu
          drafts,     \* the request has been handed placeholders for drafts
          col,        \* content of the request's columns
          real,       \* columns with a block of their own: the others are null
          cached,     \* the prefix cache: content under the hash of a boundary
          stash,      \* GLM_KDA_STASH, switchable under the A/B harness
          budget      \* max_num_scheduled_tokens

request == <<phase, prompt, tokens, junction>>
slots == <<computed, stateIdx, acc, drafts, col, real>>
stateVars == <<request, slots, cached, stash, budget>>

Contents == Ends \cup (0 .. MaxLen) \cup {Junk, Replay}
StateTypeOK ==
  /\ phase \in {"none", "waiting", "running"}
  /\ prompt \in 0 .. MaxLen /\ tokens \in 0 .. MaxLen /\ junction \in 0 .. MaxLen
  /\ computed \in 0 .. MaxLen /\ stateIdx \in -1 .. MaxLen \div StateBlock
  /\ acc \in 1 .. MaxDrafts + 1 /\ drafts \in BOOLEAN
  /\ col \in [Columns -> Contents] /\ real \subseteq Columns
  /\ cached \in [Ends -> Contents]
  /\ stash \in BOOLEAN /\ budget \in Budgets

StateInit ==
  /\ phase = "none" /\ prompt = 0 /\ tokens = 0 /\ junction = 0
  /\ computed = 0 /\ stateIdx = -1 /\ acc = 1 /\ drafts = FALSE
  /\ col = [c \in Columns |-> Junk] /\ real = {}
  /\ cached = [b \in Ends |-> 0]               \* 0: nothing under this hash
  /\ stash \in BOOLEAN
  /\ budget \in Budgets

-----------------------------------------------------------------------------
Floor(n, block) == (n \div block) * block

(* _mamba_block_aligned_split, with the two edits of the fix: the block is *)
(* the state's, and the last full block of the request is a stop.          *)
PrefillEnd == Max({prompt, tokens - 1})
SmallSplitBlock == SmallBlock                  \* mutant: the stock method
SplitBlock == StateBlock
NoLastBlock == 0                               \* mutant: without the second edit
LastBlock == Floor(tokens, SplitBlock)
Aligns(start, end) ==
  end < PrefillEnd /\ (Floor(end, SplitBlock) > start \/ SplitBlock <= budget)
Stops(start, end) ==
  {IF start % SplitBlock # 0 THEN Floor(start, SplitBlock) + SplitBlock ELSE 0,
   Floor(tokens, SplitBlock) - SplitBlock,
   LastBlock,
   IF start < junction /\ junction < end THEN start + Floor(junction - start, SplitBlock) ELSE 0}
Split(start, n) ==
  LET end == IF Aligns(start, start + n) THEN Floor(start + n, SplitBlock) ELSE start + n
      stop == Min({end} \cup {s \in Stops(start, end) : start < s /\ s < end})
  IN  IF start >= PrefillEnd THEN n ELSE Max({stop - start, 0})

(* preprocess_state: a request that moves to another column takes its      *)
(* state along, from the slot of the last accepted token.                  *)
Column(n) == (computed + n - 1) \div StateBlock
Moves(n) == stateIdx >= 0 /\ stateIdx # Column(n)
Precopied(n) == IF Moves(n) THEN [col EXCEPT ![Column(n)] = col[stateIdx + acc - 1]] ELSE col

(* A row with drafts behind a computed prompt is a spec row, and starts    *)
(* from its last accepted slot.  Every other row, a chunk or a plain       *)
(* decode of one token, reads and writes slot 0 and knows no count.        *)
SpecRow(n) == computed >= PrefillEnd /\ n > 1
Offset(n) == IF Moves(n) \/ ~SpecRow(n) THEN 0 ELSE acc - 1

(* A decode step verifies the drafts that were handed out, possibly fewer. *)
(* A resumed request has none: it decodes one token where the table of     *)
(* draft lengths is passed, and verifies padding where it is not.          *)
DecodeSizes ==
  (IF drafts THEN 2 .. MaxDrafts + 1 ELSE 1 .. MaxDrafts + 1) \cup (IF Trims THEN {1} ELSE {})

(* The state a step of n tokens starts from.  A verify step of the stash   *)
(* replays from slot 0 when the accepted slot holds a record.              *)
Read(n) ==
  LET c == Precopied(n)
      slot == c[Column(n) + Offset(n)]
      replays == \A i \in 1 .. Offset(n) : c[Column(n) + i] = Replay
  IN  IF stateIdx < 0 THEN 0
      ELSE IF slot # Replay THEN slot
      ELSE IF stash /\ replays /\ c[Column(n)] >= 0 THEN c[Column(n)] + Offset(n) ELSE Junk
After(n, i) == IF Read(n) = computed THEN computed + i ELSE Junk

(* Full blocks enter the cache; a hash that is there already stays.        *)
Publish(from, to, c) ==
  cached' = [b \in Ends |->
    IF from < b /\ b <= to /\ (b \div StateBlock) - 1 \in real' /\ cached[b] = 0
    THEN c[(b \div StateBlock) - 1] ELSE cached[b]]

-----------------------------------------------------------------------------
Arrive(p, j) ==
  /\ phase = "none"
  /\ phase' = "waiting" /\ prompt' = p /\ tokens' = p /\ junction' = j
  /\ UNCHANGED <<slots, cached, stash, budget>>

(* add_request, with the longest cached prefix below the last token.       *)
FreshCount == 1
Admit ==
  /\ phase = "waiting"
  /\ LET hit == Max({0} \cup {b \in Ends : b < tokens /\ cached[b] # 0})
     IN  /\ computed' = hit
         /\ stateIdx' = (hit - 1) \div WorkerBlock
         /\ col' = [c \in Columns |-> IF (c + 1) * StateBlock = hit THEN cached[hit] ELSE Junk]
         /\ real' = IF hit = 0 THEN {} ELSE {(hit \div StateBlock) - 1}
  /\ acc' = FreshCount /\ drafts' = FALSE /\ phase' = "running"
  /\ UNCHANGED <<prompt, tokens, junction, cached, stash, budget>>

(* A chunk, from whatever budget the other requests leave.  Only its last  *)
(* state is written; the last chunk samples a token and is followed by     *)
(* drafts.                                                                 *)
Prefill(left) ==
  /\ phase = "running" /\ computed < PrefillEnd
  /\ LET n == Split(computed, Min({left, tokens - computed}))
     IN  /\ n > 0
         /\ computed' = computed + n
         /\ stateIdx' = Column(n) /\ acc' = 1 /\ drafts' = (computed + n = tokens)
         /\ col' = [Precopied(n) EXCEPT ![Column(n)] = After(n, n)]
         /\ real' = real \cup {Column(n)}
         /\ tokens' = IF computed + n = tokens THEN tokens + 1 ELSE tokens
         /\ Publish(computed, computed + n, col')
  /\ UNCHANGED <<phase, prompt, junction, stash, budget>>

(* The stash keeps full states in every slot when this window or the next  *)
(* one can reach the end of the block.                                     *)
WindowOnly(first, t) == (first + t) \div StateBlock # first \div StateBlock  \* mutant: no lookahead
Full(first, t) == (first + t + MaxDrafts) \div StateBlock # first \div StateBlock

(* A decode step of t tokens that accepts a of them; postprocess_state     *)
(* then saves the state at a block's end that was passed.  Without drafts, *)
(* t = 1, only slot 0 is written and the stash has no part in it.          *)
Decode(t, a) ==
  /\ phase = "running" /\ computed >= PrefillEnd /\ computed + t < MaxLen
  /\ LET cur == Column(t)
         written == [c \in Columns |->
           IF c < cur \/ c >= cur + t THEN Precopied(t)[c]
           ELSE IF c # cur /\ stash /\ ~Full(computed, t) THEN Replay
           ELSE IF c - cur < a THEN After(t, c - cur + 1) ELSE Junk]
         aligned == Floor(computed + a, StateBlock)
         dst == (aligned \div StateBlock) - 1
         saves == aligned > computed
     IN  /\ computed' = computed + a /\ tokens' = computed + a + 1
         /\ stateIdx' = cur /\ drafts' = TRUE
         /\ acc' = IF saves /\ cur = dst THEN 1 ELSE a
         /\ col' = IF saves THEN [written EXCEPT ![dst] = written[cur + aligned - computed - 1]]
                   ELSE written
         /\ real' = real \cup {cur} \cup (IF saves THEN {dst} ELSE {})
         /\ Publish(computed, computed + a, col')
  /\ UNCHANGED <<phase, prompt, junction, stash, budget>>

(* The blocks and the placeholders are gone; the row's accepted count and  *)
(* column stay as they are for the request that gets the row next.  A      *)
(* request of MaxLen tokens has ended, and is not preempted.               *)
Release ==
  /\ phase = "running"
  /\ computed' = 0 /\ drafts' = FALSE /\ col' = [c \in Columns |-> Junk] /\ real' = {}
  /\ UNCHANGED <<stateIdx, acc, cached, stash, budget>>
Preempt ==
  /\ Release /\ tokens < MaxLen
  /\ phase' = "waiting" /\ UNCHANGED <<prompt, tokens, junction>>
Finish == Release /\ phase' = "none" /\ prompt' = 0 /\ tokens' = 0 /\ junction' = 0

Evict(b) ==
  /\ cached[b] # 0 /\ cached' = [cached EXCEPT ![b] = 0]
  /\ UNCHANGED <<request, slots, stash, budget>>

(* The engine core refuses a switch while a request is unfinished.         *)
Busy == phase # "none"
Switch ==
  /\ ~Busy /\ stash' = ~stash
  /\ UNCHANGED <<request, slots, cached, budget>>

StateNext ==
  \/ \E p \in 1 .. MaxLen - MaxDrafts - 1 : \E j \in 0 .. p : Arrive(p, j)
  \/ Admit
  \/ \E left \in 1 .. budget : Prefill(left)
  \/ \E t \in DecodeSizes : \E a \in 1 .. t : Decode(t, a)
  \/ Preempt \/ Finish \/ (\E b \in Ends : Evict(b)) \/ Switch

StateSpec == StateInit /\ [][StateNext]_stateVars

-----------------------------------------------------------------------------
(* The sizes the request's next step can have.                             *)
NextSizes ==
  IF computed < PrefillEnd
  THEN {Split(computed, Min({left, tokens - computed})) : left \in 1 .. budget} \ {0}
  ELSE DecodeSizes

(* Whatever its next step is, a chunk, a verify step or a plain decode, a  *)
(* running request starts it from the state after exactly its computed     *)
(* tokens: across block ends, records and full states, moves back and      *)
(* forth, preemption and prefix hits.  It is false when Trims: a verify    *)
(* step that is cut to one token starts from slot 0 although the step      *)
(* before accepted drafts.                                                 *)
StateExact ==
  phase = "running" => \A n \in NextSizes : Column(n) + acc - 1 \in Columns => Read(n) = computed

(* "slot i holds the state after exactly (i + 1) * block tokens": what is  *)
(* cached under the hash of b tokens is the state after b tokens.  False   *)
(* when Trims, for the same reason.                                        *)
SlotHoldsItsHash == \A b \in Ends : cached[b] \in {0, b}

(* When a prompt is computed, the state at its last full block has been    *)
(* materialised in the column whose hash the coordinator exposes, unless   *)
(* the request was resumed from a later block.                             *)
LastBlockCached ==
  phase = "running" /\ computed >= prompt /\ prompt >= StateBlock =>
    \E c \in real : c >= (prompt \div StateBlock) - 1 /\ col[c] = (c + 1) * StateBlock

(* A request that gets the whole budget always advances.                   *)
ChunkAdvances ==
  phase = "running" /\ computed < PrefillEnd =>
    Split(computed, Min({budget, tokens - computed})) > 0

(* The splits of a prompt reach its end and stop where they have to.       *)
ChunksExact == ChunkAdvances /\ LastBlockCached
=============================================================================
