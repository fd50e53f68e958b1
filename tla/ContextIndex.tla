---------------------------- MODULE ContextIndex ----------------------------
(***************************************************************************)
(* The n-gram index over a request's committed tokens: ContextIndex and    *)
(* _Tier of overlay/glm_lookup_draft.py.  Young grams are in a hot table,  *)
(* older ones in tiers that are merged as they grow.  Positions count from *)
(* 0; a gram's position is that of the token after it.                     *)
(***************************************************************************)
EXTENDS Integers, Sequences, FiniteSets, FiniteSetsExt

CONSTANTS TextVocab,       \* token ids
          Grams,       \* ns: lengths of the indexed grams
          Key(_),      \* gram_key, which may collide
          HotLimit,    \* GLM_LOOKUP_HOT_TOKENS
          BulkMin,     \* tokens that are indexed at once
          MaxText      \* bound: tokens of a request

ASSUME IndexAssumption ==
  /\ Grams \subseteq Nat \ {0} /\ IsFiniteSet(Grams)
  /\ {HotLimit, BulkMin} \subseteq Nat \ {0} /\ MaxText \in Nat

VARIABLES text,      \* the committed tokens: request.all_token_ids
          idx        \* tokens, hot tables, hot_count and tiers of the index

indexVars == <<text, idx>>

Empty == [k \in {} |-> 0]
NoMatch == [src |-> -1, n |-> 0]
Reset == [tokens |-> <<>>, hot |-> [n \in Grams |-> Empty], count |-> 0, tiers |-> [n \in Grams |-> <<>>]]
IndexInit == text = <<>> /\ idx = Reset

-----------------------------------------------------------------------------
(* _Tier: from a key to its latest position.                               *)
Size(t) == Cardinality(DOMAIN t)

(* The key of the n-gram before position i.                                *)
KeyAt(s, n, i) == Key(SubSeq(s, i - n + 1, i))

(* _push_tier: the last tier swallows its elder while that is at most      *)
(* twice its size, so it ends as the merge of the tiers from the first     *)
(* place on where it stops.                                                *)
Holding(ts, j, k) == {i \in j .. Len(ts) : k \in DOMAIN ts[i]}
Merged(ts, j) ==
  [k \in UNION {DOMAIN ts[i] : i \in j .. Len(ts)} |-> Max({ts[i][k] : i \in Holding(ts, j, k)})]
Stops(ts) == {j \in 1 .. Len(ts) : j > 1 => Size(ts[j - 1]) > 2 * Size(Merged(ts, j))}
Settled(ts) == LET j == Max(Stops(ts)) IN Append(SubSeq(ts, 1, j - 1), Merged(ts, j))
PushTier(ts, t) == Settled(Append(ts, t))

Freeze(x) ==
  [x EXCEPT !.tiers = [n \in Grams |-> IF x.hot[n] = Empty THEN x.tiers[n] ELSE PushTier(x.tiers[n], x.hot[n])],
            !.hot = [n \in Grams |-> Empty],
            !.count = 0]

Put(t, k, i) == [j \in DOMAIN t \cup {k} |-> IF j = k THEN i ELSE t[j]]

(* _push: the grams that end before the new token.                         *)
Push(x, t) ==
  LET i == Len(x.tokens)
      y == [x EXCEPT !.tokens = Append(x.tokens, t),
                     !.hot = [n \in Grams |-> IF n > i THEN x.hot[n]
                              ELSE Put(x.hot[n], KeyAt(x.tokens, n, i), i)],
                     !.count = x.count + 1]
  IN  IF y.count >= HotLimit THEN Freeze(y) ELSE y

(* extend: a long slice goes straight into a tier, behind the hot table.   *)
StaysHot(x) == x                               \* mutant: the hot table is not frozen first
BeforeBulk(x) == Freeze(x)
Bulk(x, new) ==
  LET all == x.tokens \o new
      ends(n) == {i \in Len(x.tokens) .. Len(all) - 1 : i >= n}
      tier(n) == [k \in {KeyAt(all, n, i) : i \in ends(n)} |->
                   CHOOSE i \in ends(n) : /\ KeyAt(all, n, i) = k
                                          /\ \A j \in ends(n) : KeyAt(all, n, j) = k => j <= i]
  IN  [x EXCEPT !.tokens = all,
                !.tiers = [n \in Grams |-> IF ends(n) = {} THEN x.tiers[n] ELSE PushTier(x.tiers[n], tier(n))]]
Pushed(x, new) ==
  LET after[i \in 0 .. Len(new)] == IF i = 0 THEN x ELSE Push(after[i - 1], new[i])
  IN  after[Len(new)]
Extend(x, new) == IF Len(new) >= BulkMin THEN Bulk(BeforeBulk(x), new) ELSE Pushed(x, new)

-----------------------------------------------------------------------------
(* The request's tokens grow, or the history is another one.               *)
Grow(new) ==
  /\ Len(text \o new) <= MaxText /\ text' = text \o new
  /\ UNCHANGED idx
Rewrite(s) ==
  /\ text # <<>> /\ text' = s
  /\ UNCHANGED idx

(* sync: start over when a probe disagrees, then take what the budget      *)
(* allows.                                                                 *)
Disagrees ==
  LET n == Len(idx.tokens)
  IN  \/ n > Len(text)
      \/ n > 0 /\ \E i \in {0, n \div 2, n - 1} : text[i + 1] # idx.tokens[i + 1]
Sync(budget) ==
  /\ LET x == IF Disagrees THEN Reset ELSE idx
         n == Len(x.tokens)
         take == IF Len(text) - n < budget THEN Len(text) - n ELSE budget
     IN  idx' = IF take = 0 THEN x ELSE Extend(x, SubSeq(text, n + 1, n + take))
  /\ UNCHANGED text

Slices == UNION {[1 .. n -> TextVocab] : n \in 1 .. 2}
IndexNext ==
  \/ \E new \in Slices : Grow(new) \/ Rewrite(new)
  \/ \E budget \in 1 .. MaxText : Sync(budget)

IndexSpec == IndexInit /\ [][IndexNext]_indexVars

-----------------------------------------------------------------------------
(* get: the hot table, then the tiers from the newest on.                  *)
Get(n, k) ==
  LET all == idx.tiers[n] \o <<idx.hot[n]>>
      has == {i \in DOMAIN all : k \in DOMAIN all[i]}
  IN  IF has = {} THEN -1 ELSE all[CHOOSE i \in has : \A j \in has : j <= i][k]

(* match: the longest gram first; a candidate is compared with the tokens. *)
Length == Len(idx.tokens)
SameGram(e, n) == \A i \in 1 .. n : idx.tokens[e - i + 1] = idx.tokens[Length - i + 1]
IsMatch(n, e) == e >= 0 /\ SameGram(e, n)
Matches(n) == Length > n /\ IsMatch(n, Get(n, KeyAt(idx.tokens, n, Length)))
Match ==
  IF ~\E n \in Grams : Matches(n) THEN NoMatch
  ELSE LET n == CHOOSE m \in Grams : Matches(m) /\ \A k \in Grams : Matches(k) => k <= m
           e == Get(n, KeyAt(idx.tokens, n, Length))
       IN  [src |-> e, n |-> n]

-----------------------------------------------------------------------------
Sites(n) == {e \in n .. Length - 1 : SameGram(e, n)}
Hidden(n) == \E e \in n .. Length - 1 :
  /\ KeyAt(idx.tokens, n, e) = KeyAt(idx.tokens, n, Length) /\ ~SameGram(e, n)
  /\ \A s \in Sites(n) : s < e

(* Through hot tables, frozen tiers, merges, slices and resets, a match is *)
(* the latest earlier site of its gram, and no longer gram has one: "a     *)
(* collision can only make a lookup miss".                                 *)
MatchLatest ==
  /\ Match # NoMatch => Match.src \in Sites(Match.n) /\ \A e \in Sites(Match.n) : e <= Match.src
  /\ \A n \in Grams : n > Match.n /\ Sites(n) # {} => Hidden(n)

(* The tiers of a gram length more than halve from one to the next, so     *)
(* their number stays logarithmic.                                         *)
TiersHalve ==
  \A n \in Grams : \A i \in 1 .. Len(idx.tiers[n]) - 1 :
    Size(idx.tiers[n][i]) > 2 * Size(idx.tiers[n][i + 1])

(* The index finds what there is, in few tables.                           *)
IndexExact == MatchLatest /\ TiersHalve
=============================================================================
