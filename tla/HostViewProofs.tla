--------------------------- MODULE HostViewProofs ---------------------------
(***************************************************************************)
(* Proofs about what a worker's host decides from copies that its device   *)
(* writes at its own pace.  DraftTrunc, for any number of ranks, requests  *)
(* and steps, any set of variants and any ring of at least two slots: the  *)
(* confidences that a request is scored with are its own, and all ranks    *)
(* decide alike.  ExactLens, for any requests, rows and counts, any ring   *)
(* and any registry: the lengths of a plan are the ones that its kernels   *)
(* will find on the device.                                                *)
(***************************************************************************)
EXTENDS DraftTrunc, ExactLens, SequenceTheorems, WellFoundedInduction, TLAPS

-----------------------------------------------------------------------------
(* DraftTrunc: the confidences of a draft.                                 *)
Fields == {"step", "pend", "unscored", "last", "vLast", "slot", "used", "gated", "shape", "off"}
IsHost(h) == h = [f \in Fields |-> h[f]] /\ h.step \in Nat /\ h.off \in 0 .. h.step /\ h.slot \in Nat

(* The confidences of draft d are in its slot, or behind all other copies  *)
(* to that slot.                                                           *)
Confidences(d) == [i \in DOMAIN d.rids |-> <<0, d.draft, d.rids[i]>>]
Copy(d) == [draft |-> d.draft, slot |-> d.slot, conf |-> Confidences(d)]
Leaves(cs, from, s) == \A j \in from .. Len(cs) : cs[j].slot # s
Held(cs, pn, d) ==
  \/ pn[d.slot] = Confidences(d) /\ Leaves(cs, 1, d.slot)
  \/ \E i \in 1 .. Len(cs) : cs[i] = Copy(d) /\ Leaves(cs, i + 1, d.slot)

(* The pending draft is the last step's, and has the last slot that was    *)
(* given out; a draft that was gated has the slot before it.               *)
PendHeld(h, cs, pn) ==
  h.pend # None => h.pend.draft = h.step /\ h.slot >= 1 /\ h.pend.slot = Slot(h.slot - 1) /\ Held(cs, pn, h.pend)
GatedHeld(h, cs, pn) ==
  h.unscored # None =>
    /\ h.slot >= 2 /\ h.unscored.of.slot = Slot(h.slot - 2) /\ Held(cs, pn, h.unscored.of)
    /\ h.unscored.draft = h.unscored.of.draft
    /\ ToSet(h.unscored.live) \subseteq ToSet(h.unscored.of.rids)

(* The last decision is about the draft before the pending one, once the   *)
(* draft that was gated is scored, or older than the last step without     *)
(* truncation.                                                             *)
Follows(h, n) == n \in 0 .. h.step /\ (n < h.off \/ (h.pend # None /\ n = h.pend.draft - 1))
LastFollows(h) ==
  /\ h.last # None => h.last.draft \in 0 .. h.step /\ (h.unscored = None => Follows(h, h.last.draft))
  /\ h.unscored # None => Follows(h, h.unscored.of.draft)
  /\ h.pend = None => (h.last # None => h.last.draft < h.off)

OwnUsed(h) == h.used # None => \A i \in DOMAIN h.used.live : h.used.conf[i] = <<0, h.used.draft, h.used.live[i]>>
SawPrevious(h) == h.gated # None => h.gated.saw = h.gated.draft - 1 \/ h.gated.saw < h.off

HostInv(h, cs, pn) ==
  /\ IsHost(h) /\ PendHeld(h, cs, pn) /\ GatedHeld(h, cs, pn) /\ LastFollows(h)
  /\ OwnUsed(h) /\ SawPrevious(h)

TruncInv ==
  /\ sent \in Nat
  /\ trunc = [r \in TruncRanks |-> trunc[r]] /\ inbox = [r \in TruncRanks |-> inbox[r]]
  /\ copies = [r \in TruncRanks |-> copies[r]] /\ pinned = [r \in TruncRanks |-> pinned[r]]
  /\ \A r \in TruncRanks :
       /\ HostInv(trunc[r], copies[r], pinned[r])
       /\ \E S : inbox[r] \in Seq(S)
       /\ \E S : copies[r] \in Seq(S)
       /\ pinned[r] = [s \in 0 .. Ring - 1 |-> pinned[r][s]]
       /\ trunc[r].step + Len(inbox[r]) = sent
       /\ \A i \in 1 .. Len(inbox[r]) : inbox[r][i].n = trunc[r].step + i

-----------------------------------------------------------------------------
(* Sequences of anything.                                                  *)
LEMMA Appended ==
  ASSUME NEW s, \E S : s \in Seq(S), NEW x
  PROVE  /\ \E S : Append(s, x) \in Seq(S)
         /\ Len(s) \in Nat /\ Len(Append(s, x)) = Len(s) + 1
         /\ \A i \in 1 .. Len(s) : Append(s, x)[i] = s[i]
         /\ Append(s, x)[Len(s) + 1] = x
<1>1. PICK S : s \in Seq(S)
  OBVIOUS
<1>2. s \in Seq(S \cup {x}) /\ x \in S \cup {x}
  BY <1>1, SeqMonotonic
<1>3. Len(s) \in Nat
  BY <1>1, LenProperties
<1>4. /\ Append(s, x) \in Seq(S \cup {x}) /\ Len(Append(s, x)) = Len(s) + 1
      /\ \A i \in 1 .. Len(s) : Append(s, x)[i] = s[i]
      /\ Append(s, x)[Len(s) + 1] = x
  BY <1>2, AppendProperties
<1> QED
  BY <1>3, <1>4

(* Without its head.                                                       *)
LEMMA Taken ==
  ASSUME NEW s, \E S : s \in Seq(S), s # <<>>
  PROVE  /\ \E S : Tail(s) \in Seq(S)
         /\ Len(s) \in Nat /\ Len(s) >= 1 /\ Len(Tail(s)) = Len(s) - 1 /\ Head(s) = s[1]
         /\ \A i \in 1 .. Len(s) - 1 : Tail(s)[i] = s[i + 1]
<1>1. PICK S : s \in Seq(S)
  OBVIOUS
<1> QED
  BY <1>1, HeadTailProperties, EmptySeq, LenProperties

LEMMA Domain == ASSUME NEW s, \E S : s \in Seq(S) PROVE DOMAIN s = 1 .. Len(s) /\ Len(s) \in Nat
  BY LenProperties

(* Quotient and remainder.                                                 *)
LEMMA ModUnique ==
  ASSUME NEW g \in Nat \ {0}, NEW q \in Int, NEW t \in 0 .. g - 1
  PROVE  (g * q + t) % g = t
  BY Z3

LEMMA ModSplit ==
  ASSUME NEW g \in Nat \ {0}, NEW k \in Nat
  PROVE  k = g * (k \div g) + (k % g) /\ k % g \in 0 .. g - 1 /\ k \div g \in Nat
  BY SMT

(* Consecutive drafts have different slots of a ring of at least two.      *)
LEMMA SlotsDiffer ==
  ASSUME Ring >= 2, NEW i \in Nat
  PROVE  Slot(i) \in 0 .. Ring - 1 /\ Slot(i + 1) # Slot(i)
<1>1. PICK g \in Nat \ {0} : g = Ring
  BY TruncAssumption
<1>2. PICK q \in Nat, t \in 0 .. g - 1 : i = g * q + t /\ t = i % g
  BY ModSplit
<1>3. (i + 1) % g # t
  <2>1. CASE t + 1 = g
    <3>1. i + 1 = g * (q + 1) + 0
      BY <1>2, <2>1
    <3>2. (g * (q + 1) + 0) % g = 0
      BY <1>1, <1>2, ModUnique
    <3> QED
      BY <3>1, <3>2, <2>1, <1>1
  <2>2. CASE t + 1 # g
    <3>1. PICK m \in 0 .. g - 1 : m = t + 1
      BY <1>2, <2>2
    <3>2. (g * q + m) % g = m
      <4>1. q \in Int
        OBVIOUS
      <4> QED
        BY <4>1, ModUnique
    <3>3. i + 1 = g * q + m /\ m # t
      BY <1>2, <3>1
    <3> QED
      BY <3>2, <3>3
  <2> QED
    BY <2>1, <2>2
<1> QED
  BY <1>1, <1>2, <1>3 DEF Slot

-----------------------------------------------------------------------------
(* A copy to another slot leaves what is held, and so does one that ends.  *)
LEMMA HeldAppend ==
  ASSUME NEW cs, \E S : cs \in Seq(S), NEW pn, NEW d, Held(cs, pn, d), NEW c, c.slot # d.slot
  PROVE  Held(Append(cs, c), pn, d)
<1>1. PICK l \in Nat : l = Len(cs)
  BY Domain
<1>2. /\ Len(Append(cs, c)) = l + 1 /\ Append(cs, c)[l + 1] = c
      /\ \A i \in 1 .. l : Append(cs, c)[i] = cs[i]
  BY <1>1, Appended
<1>3. ASSUME NEW k \in Nat, k >= 1, Leaves(cs, k, d.slot) PROVE Leaves(Append(cs, c), k, d.slot)
  <2> SUFFICES ASSUME NEW j \in k .. l + 1 PROVE Append(cs, c)[j].slot # d.slot
    BY <1>2 DEF Leaves
  <2>1. CASE j = l + 1
    BY <2>1, <1>2
  <2>2. CASE j # l + 1
    <3>1. j \in 1 .. l /\ j \in k .. l
      BY <2>2, <1>3
    <3> QED
      BY <3>1, <1>1, <1>2, <1>3 DEF Leaves
  <2> QED
    BY <2>1, <2>2
<1>4. CASE pn[d.slot] = Confidences(d) /\ Leaves(cs, 1, d.slot)
  BY <1>3, <1>4 DEF Held
<1>5. ASSUME NEW i \in 1 .. l, cs[i] = Copy(d), Leaves(cs, i + 1, d.slot)
      PROVE  Held(Append(cs, c), pn, d)
  <2>1. i \in 1 .. l + 1 /\ i + 1 \in Nat /\ i + 1 >= 1
    BY <1>1
  <2>2. Append(cs, c)[i] = Copy(d) /\ Leaves(Append(cs, c), i + 1, d.slot)
    BY <2>1, <1>2, <1>3, <1>5
  <2> QED
    BY <2>1, <2>2, <1>2 DEF Held
<1> QED
  BY <1>1, <1>4, <1>5 DEF Held

LEMMA HeldNew ==
  ASSUME NEW cs, \E S : cs \in Seq(S), NEW pn, NEW d PROVE Held(Append(cs, Copy(d)), pn, d)
<1>1. PICK l \in Nat : l = Len(cs)
  BY Domain
<1>2. Len(Append(cs, Copy(d))) = l + 1 /\ Append(cs, Copy(d))[l + 1] = Copy(d)
  BY <1>1, Appended
<1>3. l + 1 \in 1 .. l + 1 /\ (l + 1) + 1 .. l + 1 = {}
  OBVIOUS
<1> QED
  BY <1>2, <1>3 DEF Held, Leaves

LEMMA HeldTail ==
  ASSUME NEW cs, \E S : cs \in Seq(S), cs # <<>>,
         NEW pn, pn = [s \in 0 .. Ring - 1 |-> pn[s]],
         NEW d, d.slot \in 0 .. Ring - 1, Held(cs, pn, d)
  PROVE  Held(Tail(cs), [pn EXCEPT ![Head(cs).slot] = Head(cs).conf], d)
<1>1. PICK l \in Nat : l = Len(cs) /\ l >= 1
  BY Taken
<1>2. PICK t : t = Tail(cs)
  OBVIOUS
<1>3. Len(t) = l - 1 /\ Head(cs) = cs[1] /\ \A i \in 1 .. l - 1 : t[i] = cs[i + 1]
  BY <1>1, <1>2, Taken
<1>4. PICK new : new = [pn EXCEPT ![Head(cs).slot] = Head(cs).conf]
  OBVIOUS
<1>5. new[d.slot] = IF cs[1].slot = d.slot THEN cs[1].conf ELSE pn[d.slot]
  BY <1>3, <1>4
<1>6. ASSUME NEW k \in Nat, k >= 1, Leaves(cs, k + 1, d.slot) PROVE Leaves(t, k, d.slot)
  <2> SUFFICES ASSUME NEW j \in k .. l - 1 PROVE t[j].slot # d.slot
    BY <1>3 DEF Leaves
  <2>1. j \in 1 .. l - 1 /\ j + 1 \in k + 1 .. l
    BY <1>6
  <2> QED
    BY <2>1, <1>1, <1>3, <1>6 DEF Leaves
<1>7. CASE pn[d.slot] = Confidences(d) /\ Leaves(cs, 1, d.slot)
  <2>1. 1 \in 1 .. l /\ \A j \in 1 + 1 .. l : j \in 1 .. l
    BY <1>1
  <2>2. cs[1].slot # d.slot /\ Leaves(cs, 1 + 1, d.slot)
    BY <2>1, <1>1, <1>7 DEF Leaves
  <2>3. Leaves(t, 1, d.slot)
    BY <2>2, <1>6
  <2> QED
    BY <2>2, <2>3, <1>2, <1>4, <1>5, <1>7 DEF Held
<1>8. ASSUME NEW i \in 1 .. l, cs[i] = Copy(d), Leaves(cs, i + 1, d.slot)
      PROVE  Held(t, new, d)
  <2>1. CASE i = 1
    <3>1. new[d.slot] = Confidences(d)
      BY <2>1, <1>5, <1>8 DEF Copy
    <3>2. Leaves(t, 1, d.slot)
      BY <2>1, <1>6, <1>8
    <3> QED
      BY <3>1, <3>2 DEF Held
  <2>2. CASE i # 1
    <3>1. PICK k : k = i - 1
      OBVIOUS
    <3>2. k \in 1 .. l - 1 /\ k + 1 = i
      BY <3>1, <2>2, <1>1
    <3>3. t[k] = Copy(d)
      BY <3>2, <1>3, <1>8
    <3>4. Leaves(t, k + 1, d.slot)
      <4>1. k + 1 \in Nat /\ k + 1 >= 1 /\ (k + 1) + 1 = i + 1
        BY <3>2
      <4> QED
        BY <4>1, <1>6, <1>8
    <3> QED
      BY <3>2, <3>3, <3>4, <1>3 DEF Held
  <2> QED
    BY <2>1, <2>2
<1> QED
  BY <1>1, <1>2, <1>4, <1>7, <1>8 DEF Held

-----------------------------------------------------------------------------
(* The stages of execute_model, one after the other.                       *)
Same(h, g) ==
  h.step = g.step /\ h.pend = g.pend /\ h.slot = g.slot /\ h.off = g.off /\ h.gated = g.gated

(* Once the copy has arrived, a score uses the confidences of its own draft.*)
LEMMA ScoreOwn ==
  ASSUME NEW r, \E S : copies[r] \in Seq(S), NEW h, IsHost(h), NEW d, NEW live, NEW policy,
         ToSet(live) \subseteq ToSet(d.rids), Held(copies[r], pinned[r], d), Arrived(r, d.draft)
  PROVE  /\ IsHost(Score(r, h, d, live, policy)) /\ Same(Score(r, h, d, live, policy), h)
         /\ Score(r, h, d, live, policy).unscored = h.unscored
         /\ Score(r, h, d, live, policy).last.draft = d.draft
         /\ OwnUsed(Score(r, h, d, live, policy))
<1> DEFINE conf == [i \in DOMAIN live |->
                      IF Position(d, live[i]) \in DOMAIN pinned[r][d.slot]
                      THEN pinned[r][d.slot][Position(d, live[i])] ELSE <<>>]
           u == [draft |-> d.draft, live |-> live, conf |-> conf]
           l == [draft |-> d.draft, policy |-> policy]
           s == Score(r, h, d, live, policy)
<1>1. s = [h EXCEPT !.used = u, !.last = l]
  BY DEF Score
<1>2. pinned[r][d.slot] = Confidences(d)
  <2>1. DOMAIN copies[r] = 1 .. Len(copies[r])
    BY Domain
  <2>2. ASSUME NEW i \in 1 .. Len(copies[r]), copies[r][i] = Copy(d) PROVE FALSE
    <3>1. copies[r][i].draft = d.draft
      BY <2>2 DEF Copy
    <3> QED
      BY <2>1, <3>1 DEF Arrived
  <2> QED
    BY <2>2 DEF Held
<1>3. ASSUME NEW i \in DOMAIN live PROVE conf[i] = <<0, d.draft, live[i]>>
  <2>1. live[i] \in ToSet(d.rids)
    BY DEF ToSet
  <2>2. \E j \in DOMAIN d.rids : d.rids[j] = live[i]
    BY <2>1 DEF ToSet
  <2>3. PICK p : p = Position(d, live[i])
    OBVIOUS
  <2>4. p \in DOMAIN d.rids /\ d.rids[p] = live[i]
    BY <2>2, <2>3 DEF Position
  <2>5. p \in DOMAIN Confidences(d) /\ Confidences(d)[p] = <<0, d.draft, live[i]>>
    BY <2>4 DEF Confidences
  <2> QED
    BY <2>3, <2>5, <1>2
<1>4. u.live = live /\ u.draft = d.draft /\ u.conf = conf
  OBVIOUS
<1> HIDE DEF conf
<1>5. /\ s = [f \in Fields |-> s[f]] /\ s.used = u /\ s.last = l
      /\ s.step = h.step /\ s.pend = h.pend /\ s.slot = h.slot /\ s.off = h.off
      /\ s.gated = h.gated /\ s.unscored = h.unscored
  <2> HIDE DEF u, l, s
  <2> QED
    BY <1>1 DEF IsHost, Fields
<1>6. OwnUsed(s)
  <2> SUFFICES ASSUME NEW i \in DOMAIN u.live PROVE u.conf[i] = <<0, u.draft, u.live[i]>>
    BY <1>5 DEF OwnUsed
  <2> QED
    BY <1>3, <1>4
<1>7. l.draft = d.draft
  OBVIOUS
<1> HIDE DEF s, l, u
<1> QED
  BY <1>5, <1>6, <1>7 DEF IsHost, Same, s

(* What the step leaves of the decisions before it.                        *)
LEMMA Freshened ==
  ASSUME NEW h, IsHost(h), NEW v
  PROVE  /\ IsHost(FreshVariant(h, v)) /\ Same(FreshVariant(h, v), h)
         /\ FreshVariant(h, v).used = h.used
         /\ \/ FreshVariant(h, v).unscored = h.unscored /\ FreshVariant(h, v).last = h.last
            \/ FreshVariant(h, v).unscored = None /\ FreshVariant(h, v).last = None
<1>1. CASE v = h.vLast
  BY <1>1 DEF FreshVariant, Same
<1>2. CASE v # h.vLast
  <2>1. PICK f : f = FreshVariant(h, v)
    OBVIOUS
  <2>2. f = [h EXCEPT !.vLast = v, !.unscored = None, !.last = None]
    BY <1>2, <2>1 DEF FreshVariant
  <2>3. /\ f = [x \in Fields |-> f[x]] /\ f.unscored = None /\ f.last = None /\ f.used = h.used
        /\ f.step = h.step /\ f.pend = h.pend /\ f.slot = h.slot /\ f.off = h.off /\ f.gated = h.gated
    BY <2>2 DEF IsHost, Fields
  <2> QED
    BY <2>1, <2>3 DEF IsHost, Same
<1> QED
  BY <1>1, <1>2

(* Between the score of a gated draft and the decision about the pending   *)
(* one: pend is of step n, and the last decision is about the one before.  *)
Scored(h, n) ==
  /\ IsHost(h) /\ h.unscored = None /\ h.gated = None /\ OwnUsed(h)
  /\ h.last # None =>
       /\ h.last.draft \in 0 .. n
       /\ h.last.draft < h.off \/ (h.pend # None /\ h.last.draft = h.pend.draft - 1)

(* A draft that was gated is scored first.                                 *)
LEMMA PostHocScores ==
  ASSUME NEW r, \E S : copies[r] \in Seq(S), NEW g, HostInv(g, copies[r], pinned[r]),
         NEW h, IsHost(h), h.pend = g.pend, h.slot = g.slot, h.off = g.off,
         h.gated = None, h.used = None,
         \/ h.unscored = g.unscored /\ h.last = g.last
         \/ h.unscored = None /\ h.last = None,
         h.unscored # None => Arrived(r, h.unscored.draft)
  PROVE  /\ Scored(PostHoc(r, h), g.step)
         /\ PostHoc(r, h).pend = g.pend /\ PostHoc(r, h).slot = g.slot
         /\ PostHoc(r, h).off = g.off /\ PostHoc(r, h).step = h.step
<1>1. CASE h.unscored = None
  <2>1. PostHoc(r, h) = h
    BY <1>1 DEF PostHoc
  <2>2. h.last # None => h.last = g.last /\ g.unscored = None
    BY <1>1
  <2>3. h.last # None => /\ h.last.draft \in 0 .. g.step
                         /\ h.last.draft < h.off \/ (h.pend # None /\ h.last.draft = h.pend.draft - 1)
    BY <2>2 DEF HostInv, LastFollows, Follows
  <2> QED
    BY <1>1, <2>1, <2>3 DEF Scored, OwnUsed
<1>2. CASE h.unscored # None
  <2>1. h.unscored = g.unscored
    BY <1>2
  <2>2. PICK d, live, policy : /\ d = h.unscored.of /\ live = h.unscored.live
                               /\ policy = h.unscored.policy
    OBVIOUS
  <2>3. /\ Held(copies[r], pinned[r], d) /\ ToSet(live) \subseteq ToSet(d.rids)
        /\ Arrived(r, d.draft) /\ d.draft \in 0 .. g.step
        /\ d.draft < h.off \/ (h.pend # None /\ d.draft = h.pend.draft - 1)
    BY <1>2, <2>1, <2>2 DEF HostInv, GatedHeld, LastFollows, Follows
  <2>4. PICK s : s = Score(r, h, d, live, policy)
    OBVIOUS
  <2>5. IsHost(s) /\ Same(s, h) /\ s.last.draft = d.draft /\ OwnUsed(s)
    BY <2>3, <2>4, ScoreOwn
  <2>6. PICK p : p = PostHoc(r, h)
    OBVIOUS
  <2>7. p = [s EXCEPT !.unscored = None]
    BY <1>2, <2>2, <2>4, <2>6 DEF PostHoc
  <2>8. /\ p = [x \in Fields |-> p[x]] /\ p.unscored = None
        /\ p.last = s.last /\ p.used = s.used
        /\ p.step = s.step /\ p.pend = s.pend /\ p.slot = s.slot /\ p.off = s.off /\ p.gated = s.gated
    BY <2>5, <2>7 DEF IsHost, Fields
  <2>9. OwnUsed(p)
    BY <2>5, <2>8 DEF OwnUsed
  <2>10. IsHost(p)
    BY <2>5, <2>8 DEF IsHost
  <2> QED
    BY <2>3, <2>5, <2>6, <2>8, <2>9, <2>10 DEF Scored, Same
<1> QED
  BY <1>1, <1>2

(* After the decision, before the next draft, which will be n + 1.         *)
Decided(e, g) ==
  /\ IsHost(e) /\ e.pend = None /\ OwnUsed(e) /\ SawPrevious(e)
  /\ e.unscored # None =>
       /\ g.pend # None /\ e.unscored.of = g.pend /\ e.unscored.draft = g.pend.draft
       /\ ToSet(e.unscored.live) \subseteq ToSet(g.pend.rids)
  /\ e.last # None =>
       /\ e.last.draft \in 0 .. g.step
       /\ e.unscored = None => e.last.draft < e.off \/ e.last.draft = g.step

(* Each outcome of the late decision.                                      *)
LEMMA DecideKeeps ==
  ASSUME NEW r, \E S : copies[r] \in Seq(S), NEW g, HostInv(g, copies[r], pinned[r]),
         NEW h, Scored(h, g.step), h.pend = g.pend, h.slot = g.slot, h.off = g.off, h.step = g.step + 1,
         NEW step, WaitsForPend(h, step) => Arrived(r, h.pend.draft)
  PROVE  /\ Decided(Decide(r, h, step), g)
         /\ Decide(r, h, step).slot = g.slot /\ Decide(r, h, step).off = g.off
         /\ Decide(r, h, step).step = h.step
<1> DEFINE full == [h EXCEPT !.pend = None]
<1>1. PICK d : d = h.pend
  OBVIOUS
<1>2. PICK e : e = Decide(r, h, step)
  OBVIOUS
<1>3. /\ full = [x \in Fields |-> full[x]] /\ full.pend = None
      /\ full.unscored = None /\ full.last = h.last /\ full.used = h.used /\ full.gated = None
      /\ full.step = h.step /\ full.slot = h.slot /\ full.off = h.off
  BY DEF Scored, IsHost, Fields
<1>4. IsHost(full) /\ OwnUsed(full) /\ SawPrevious(full)
  <2> HIDE DEF full
  <2>1. IsHost(full)
    BY <1>3 DEF Scored, IsHost
  <2> QED
    BY <2>1, <1>3 DEF Scored, OwnUsed, SawPrevious
<1>5. g.pend # None => g.pend.draft = g.step /\ Held(copies[r], pinned[r], g.pend)
  BY DEF HostInv, PendHeld
<1>6. g.step \in Nat
  BY DEF HostInv, IsHost
<1>7. CASE d = None
  <2>1. e = full
    BY <1>1, <1>2, <1>7 DEF Decide
  <2> HIDE DEF full
  <2>2. h.last # None => h.last.draft \in 0 .. g.step /\ h.last.draft < h.off
    BY <1>1, <1>7 DEF Scored
  <2> QED
    BY <1>2, <1>3, <1>4, <2>1, <2>2 DEF Decided
<1>8. CASE d # None /\ Gates(h, step)
  <2> DEFINE u == [draft |-> d.draft, of |-> d, live |-> step.spec, policy |-> step.policy]
             w == [draft |-> d.draft, saw |-> h.last.draft]
  <2>1. e = [full EXCEPT !.unscored = u, !.gated = w]
    BY <1>1, <1>2, <1>8 DEF Decide
  <2>2. u.draft = d.draft /\ u.of = d /\ u.live = step.spec /\ w.draft = d.draft /\ w.saw = h.last.draft
    OBVIOUS
  <2>3. h.last # None /\ ToSet(step.spec) \subseteq ToSet(d.rids)
    BY <1>1, <1>8 DEF Gates, Eligible
  <2>4. h.last.draft \in 0 .. g.step /\ (h.last.draft < h.off \/ h.last.draft = d.draft - 1)
    BY <2>3, <1>1 DEF Scored
  <2> HIDE DEF full, u, w
  <2>5. /\ e = [x \in Fields |-> e[x]] /\ e.pend = None /\ e.unscored = u /\ e.gated = w
        /\ e.last = h.last /\ e.used = full.used /\ e.step = h.step /\ e.slot = h.slot /\ e.off = h.off
    BY <2>1, <1>3 DEF Fields
  <2>6. IsHost(e)
    BY <2>5, <1>3, <1>4 DEF IsHost
  <2>7. OwnUsed(e)
    BY <2>5, <1>4 DEF OwnUsed
  <2>8. SawPrevious(e)
    BY <2>2, <2>4, <2>5 DEF SawPrevious
  <2>9. u # None
    <3>1. "of" \in DOMAIN u
      BY DEF u
    <3>2. "of" \notin DOMAIN None
      BY DEF None
    <3> QED
      BY <3>1, <3>2
  <2> QED
    BY <2>2, <2>3, <2>4, <2>5, <2>6, <2>7, <2>8, <2>9, <1>1, <1>2, <1>8 DEF Decided
<1>9. CASE d # None /\ ~Gates(h, step) /\ Eligible(step, d)
  <2>1. PICK s : s = Score(r, full, d, step.spec, step.policy)
    OBVIOUS
  <2>2. PICK x : x = IF step.policy = "short" THEN "short" ELSE "full"
    OBVIOUS
  <2>3. e = [s EXCEPT !.shape = x]
    <3>1. e = [Score(r, full, d, step.spec, step.policy) EXCEPT
                 !.shape = IF step.policy = "short" THEN "short" ELSE "full"]
      BY <1>1, <1>2, <1>9 DEF Decide
    <3> QED
      BY <3>1, <2>1, <2>2
  <2>4. Arrived(r, d.draft)
    BY <1>1, <1>9 DEF WaitsForPend
  <2>5. ToSet(step.spec) \subseteq ToSet(d.rids) /\ Held(copies[r], pinned[r], d) /\ d.draft = g.step
    BY <1>1, <1>5, <1>9 DEF Eligible
  <2> HIDE DEF full
  <2>6. /\ IsHost(s) /\ Same(s, full) /\ s.unscored = full.unscored
        /\ s.last.draft = d.draft /\ OwnUsed(s)
    BY <1>4, <2>1, <2>4, <2>5, ScoreOwn
  <2>7. /\ e = [f \in Fields |-> e[f]] /\ e.pend = s.pend /\ e.unscored = s.unscored
        /\ e.gated = s.gated /\ e.last = s.last /\ e.used = s.used
        /\ e.step = s.step /\ e.slot = s.slot /\ e.off = s.off
    BY <2>3, <2>6 DEF IsHost, Fields
  <2>8. IsHost(e) /\ OwnUsed(e)
    BY <2>6, <2>7 DEF IsHost, OwnUsed
  <2>9. e.gated = None /\ e.unscored = None /\ e.pend = None /\ e.last.draft = g.step
    BY <1>3, <2>5, <2>6, <2>7 DEF Same
  <2>10. Decided(e, g)
    BY <1>6, <2>8, <2>9 DEF Decided, SawPrevious
  <2> QED
    BY <1>2, <1>3, <2>6, <2>7, <2>10 DEF Same
<1>10. CASE d # None /\ ~Gates(h, step) /\ ~Eligible(step, d)
  <2>1. e = Skip(full)
    BY <1>1, <1>2, <1>10 DEF Decide
  <2>2. e = [full EXCEPT !.last = None]
    BY <2>1 DEF Skip
  <2> HIDE DEF full
  <2>3. /\ e = [f \in Fields |-> e[f]] /\ e.pend = None /\ e.unscored = None
        /\ e.gated = None /\ e.last = None /\ e.used = full.used
        /\ e.step = h.step /\ e.slot = h.slot /\ e.off = h.off
    BY <1>3, <2>2 DEF Fields
  <2>4. IsHost(e) /\ OwnUsed(e)
    BY <1>3, <1>4, <2>3 DEF IsHost, OwnUsed
  <2> QED
    BY <1>2, <2>3, <2>4 DEF Decided, SawPrevious
<1> QED
  BY <1>7, <1>8, <1>9, <1>10

(* What propose has its device copy.                                       *)
IsCopyOf(c, r, step, slot) ==
  c = [draft |-> step.n, slot |-> slot, conf |-> Scores(r, step.n, step.batch)]

(* The next draft takes the next slot, which no draft that is still needed has.*)
LEMMA ProposeKeeps ==
  ASSUME Ring >= 2, NEW r, NEW cs, \E S : cs \in Seq(S), NEW pn,
         NEW g, HostInv(g, cs, pn),
         NEW e, Decided(e, g), e.slot = g.slot, e.off = g.off, e.step = g.step + 1,
         NEW step, step.v.on, step.n = g.step + 1,
         NEW f, f = ProposeScores(r, e, step),
         NEW c, IsCopyOf(c, r, step, f.pend.slot)
  PROVE  HostInv(f, Append(cs, c), pn) /\ f.step = e.step
<1> DEFINE p == [draft |-> step.n, rids |-> step.batch, slot |-> Slot(e.slot)]
<1>1. f = [e EXCEPT !.pend = p, !.slot = e.slot + 1]
  BY DEF ProposeScores
<1>2. p.draft = step.n /\ p.rids = step.batch /\ p.slot = Slot(e.slot)
  OBVIOUS
<1>3. g.step \in Nat /\ g.slot \in Nat /\ g.off \in 0 .. g.step
  BY DEF HostInv, IsHost
<1> HIDE DEF p
<1>4. /\ f = [x \in Fields |-> f[x]] /\ f.pend = p /\ f.slot = g.slot + 1
      /\ f.step = g.step + 1 /\ f.off = g.off
      /\ f.unscored = e.unscored /\ f.last = e.last /\ f.used = e.used /\ f.gated = e.gated
  BY <1>1 DEF Decided, IsHost, Fields
<1>5. IsHost(f)
  BY <1>3, <1>4 DEF IsHost
<1>6. c = Copy(p)
  BY <1>2, <1>4 DEF Copy, Confidences, Scores, IsCopyOf
<1>7. (g.slot + 1) - 1 = g.slot /\ g.slot + 1 >= 1
  BY <1>3
<1>8. PendHeld(f, Append(cs, c), pn)
  <2>1. Held(Append(cs, c), pn, p)
    BY <1>6, HeldNew
  <2>2. f.pend.draft = f.step /\ f.slot >= 1 /\ f.pend.slot = Slot(f.slot - 1)
    BY <1>2, <1>4, <1>7
  <2> QED
    BY <1>4, <2>1, <2>2 DEF PendHeld
<1>9. GatedHeld(f, Append(cs, c), pn)
  <2> SUFFICES ASSUME f.unscored # None PROVE GatedHeld(f, Append(cs, c), pn)
    BY DEF GatedHeld
  <2>1. /\ g.pend # None /\ f.unscored.of = g.pend /\ f.unscored.draft = g.pend.draft
        /\ ToSet(f.unscored.live) \subseteq ToSet(g.pend.rids)
    BY <1>4 DEF Decided
  <2>2. g.slot >= 1 /\ g.pend.slot = Slot(g.slot - 1) /\ Held(cs, pn, g.pend)
    BY <2>1 DEF HostInv, PendHeld
  <2>3. f.slot - 2 = g.slot - 1 /\ f.slot >= 2 /\ g.slot - 1 \in Nat /\ (g.slot - 1) + 1 = g.slot
    BY <1>3, <1>4, <2>2
  <2>4. c.slot # g.pend.slot
    <3>1. Slot((g.slot - 1) + 1) # Slot(g.slot - 1)
      BY <2>3, SlotsDiffer
    <3>2. c.slot = Slot(g.slot)
      BY <1>2, <1>4 DEF IsCopyOf
    <3> QED
      BY <2>2, <2>3, <3>1, <3>2
  <2>5. Held(Append(cs, c), pn, g.pend)
    BY <2>2, <2>4, HeldAppend
  <2> QED
    BY <2>1, <2>2, <2>3, <2>5 DEF GatedHeld
<1>10. LastFollows(f)
  <2>1. f.pend # None
    <3>1. f.pend.draft # 0
      BY <1>2, <1>3, <1>4
    <3> QED
      BY <3>1 DEF None
  <2>2. f.pend.draft - 1 = g.step /\ g.step \in 0 .. f.step
    BY <1>2, <1>3, <1>4
  <2>3. ASSUME f.last # None
        PROVE  f.last.draft \in 0 .. f.step /\ (f.unscored = None => Follows(f, f.last.draft))
    <3>1. /\ f.last.draft \in 0 .. g.step
          /\ f.unscored = None => f.last.draft < f.off \/ f.last.draft = g.step
      BY <2>3, <1>4 DEF Decided
    <3>2. f.last.draft \in 0 .. f.step
      BY <3>1, <1>3, <1>4
    <3> QED
      BY <2>1, <2>2, <3>1, <3>2 DEF Follows
  <2>4. ASSUME f.unscored # None PROVE Follows(f, f.unscored.of.draft)
    <3>1. f.unscored.of.draft = g.step
      BY <2>4, <1>4 DEF Decided, HostInv, PendHeld
    <3> QED
      BY <2>1, <2>2, <3>1 DEF Follows
  <2> QED
    BY <2>1, <2>3, <2>4 DEF LastFollows
<1>11. OwnUsed(f) /\ SawPrevious(f)
  BY <1>4 DEF Decided, OwnUsed, SawPrevious
<1> QED
  BY <1>4, <1>5, <1>8, <1>9, <1>10, <1>11 DEF HostInv, Decided

(* A step with truncation off drops the pending draft.                     *)
LEMMA OffKeeps ==
  ASSUME NEW r, NEW cs, NEW pn, NEW g, HostInv(g, cs, pn),
         NEW b, IsHost(b), b.pend = g.pend, b.unscored = g.unscored, b.last = g.last,
         b.slot = g.slot, b.step = g.step + 1, b.used = None, b.gated = None,
         NEW step, ~step.v.on, step.n = g.step + 1,
         NEW f, f = ProposeScores(r, b, step)
  PROVE  HostInv(f, cs, pn) /\ f.step = b.step
<1>1. f = [b EXCEPT !.pend = None, !.off = step.n]
  BY DEF ProposeScores
<1>2. g.step \in Nat /\ g.slot \in Nat
  BY DEF HostInv, IsHost
<1>3. /\ f = [x \in Fields |-> f[x]] /\ f.pend = None /\ f.slot = g.slot
      /\ f.step = g.step + 1 /\ f.off = g.step + 1
      /\ f.unscored = g.unscored /\ f.last = g.last /\ f.used = None /\ f.gated = None
  BY <1>1 DEF IsHost, Fields
<1>4. IsHost(f)
  BY <1>2, <1>3 DEF IsHost
<1>5. PendHeld(f, cs, pn) /\ OwnUsed(f) /\ SawPrevious(f)
  BY <1>3 DEF PendHeld, OwnUsed, SawPrevious
<1>6. GatedHeld(f, cs, pn)
  BY <1>3 DEF HostInv, GatedHeld
<1>7. \A n \in 0 .. g.step : n \in 0 .. f.step /\ n < f.off
  BY <1>2, <1>3
<1>8. LastFollows(f)
  BY <1>3, <1>7 DEF HostInv, LastFollows, Follows
<1> QED
  BY <1>3, <1>4, <1>5, <1>6, <1>8 DEF HostInv

-----------------------------------------------------------------------------
(* The steps of the specification.                                         *)
RankInv(r) ==
  /\ HostInv(trunc[r], copies[r], pinned[r])
  /\ \E S : inbox[r] \in Seq(S)
  /\ \E S : copies[r] \in Seq(S)
  /\ pinned[r] = [s \in 0 .. Ring - 1 |-> pinned[r][s]]
  /\ trunc[r].step + Len(inbox[r]) = sent
  /\ \A i \in 1 .. Len(inbox[r]) : inbox[r][i].n = trunc[r].step + i
Arrays ==
  /\ trunc = [r \in TruncRanks |-> trunc[r]] /\ inbox = [r \in TruncRanks |-> inbox[r]]
  /\ copies = [r \in TruncRanks |-> copies[r]] /\ pinned = [r \in TruncRanks |-> pinned[r]]

(* The invariant, rank by rank.                                            *)
LEMMA ByRank == TruncInv <=> sent \in Nat /\ Arrays /\ \A r \in TruncRanks : RankInv(r)
  BY DEF TruncInv, Arrays, RankInv

(* The first state.                                                        *)
LEMMA InitTrunc == TruncInit => TruncInv
<1> SUFFICES ASSUME TruncInit PROVE TruncInv
  OBVIOUS
<1>1. sent = 0 /\ Arrays
  BY DEF TruncInit, Arrays
<1>2. ASSUME NEW r \in TruncRanks PROVE RankInv(r)
  <2>1. /\ trunc[r] = NoHost /\ inbox[r] = <<>> /\ copies[r] = <<>>
        /\ pinned[r] = [s \in 0 .. Ring - 1 |-> <<>>]
    BY DEF TruncInit
  <2>2. <<>> \in Seq({}) /\ Len(<<>>) = 0
    OBVIOUS
  <2>3. /\ NoHost = [f \in Fields |-> NoHost[f]] /\ NoHost.step = 0 /\ NoHost.off = 0
        /\ NoHost.slot = 0 /\ NoHost.pend = None /\ NoHost.unscored = None /\ NoHost.last = None
        /\ NoHost.used = None /\ NoHost.gated = None
    BY DEF NoHost, Fields
  <2>4. HostInv(NoHost, copies[r], pinned[r])
    BY <2>3 DEF HostInv, IsHost, PendHeld, GatedHeld, LastFollows, OwnUsed, SawPrevious
  <2> QED
    BY <1>1, <2>1, <2>2, <2>3, <2>4 DEF RankInv
<1> QED
  BY <1>1, <1>2, ByRank

(* A step is added to every inbox.                                         *)
LEMMA DispatchKeeps ==
  ASSUME TruncInv, NEW v, NEW live, NEW drafted, NEW uniform, NEW policy,
         Dispatch(v, live, drafted, uniform, policy)
  PROVE  TruncInv'
<1>1. PICK x : x = [n |-> sent + 1, v |-> v, batch |-> live, spec |-> SchedOrder(drafted),
                    uniform |-> uniform, policy |-> policy]
  OBVIOUS
<1>2. /\ sent' = sent + 1 /\ inbox' = [r \in TruncRanks |-> Append(inbox[r], x)]
      /\ UNCHANGED <<copies, pinned, trunc>> /\ x.n = sent + 1
  BY <1>1 DEF Dispatch
<1>3. sent \in Nat /\ Arrays
  BY ByRank
<1>4. Arrays'
  BY <1>2, <1>3 DEF Arrays
<1>5. ASSUME NEW r \in TruncRanks PROVE RankInv(r)'
  <2>1. RankInv(r)
    BY ByRank
  <2>2. PICK q : q = inbox[r] /\ \E S : q \in Seq(S)
    BY <2>1 DEF RankInv
  <2>3. /\ \E S : Append(q, x) \in Seq(S)
        /\ Len(q) \in Nat /\ Len(Append(q, x)) = Len(q) + 1
        /\ \A i \in 1 .. Len(q) : Append(q, x)[i] = q[i]
        /\ Append(q, x)[Len(q) + 1] = x
    <3>1. \E S : q \in Seq(S)
      BY <2>2
    <3> QED
      BY <3>1, Appended, Zenon
  <2>4. inbox'[r] = Append(q, x)
    BY <1>2, <2>2
  <2>5. trunc[r].step \in Nat /\ trunc[r].step + Len(q) = sent
    BY <2>1, <2>2 DEF RankInv, HostInv, IsHost
  <2>6. PICK l \in Nat : l = Len(q)
    BY <2>3
  <2>7. ASSUME NEW i \in 1 .. l + 1 PROVE Append(q, x)[i].n = trunc[r].step + i
    <3>1. CASE i \in 1 .. l
      BY <3>1, <2>1, <2>2, <2>3, <2>6 DEF RankInv
    <3>2. CASE i = l + 1
      <4>1. Append(q, x)[i] = x
        BY <3>2, <2>3, <2>6
      <4>2. trunc[r].step + (l + 1) = sent + 1
        BY <2>5, <2>6
      <4> QED
        BY <3>2, <4>1, <4>2, <1>2
    <3> QED
      BY <3>1, <3>2, <2>6
  <2>8. trunc[r].step + (l + 1) = sent + 1
    BY <2>5, <2>6
  <2> QED
    BY <2>1, <2>3, <2>4, <2>6, <2>7, <2>8, <1>2 DEF RankInv
<1>6. sent' \in Nat
  BY <1>2, <1>3
<1> QED
  BY <1>4, <1>5, <1>6 DEF TruncInv, Arrays, RankInv

(* A copy arrives in its slot.                                             *)
LEMMA CopyDoneKeeps ==
  ASSUME Ring >= 2, TruncInv, NEW r \in TruncRanks, CopyDone(r) PROVE TruncInv'
<1>1. sent \in Nat /\ Arrays /\ RankInv(r)
  BY ByRank
<1>2. PICK cs : cs = copies[r] /\ \E S : cs \in Seq(S)
  BY <1>1 DEF RankInv
<1>3. PICK pn : pn = pinned[r] /\ pn = [s \in 0 .. Ring - 1 |-> pn[s]]
  BY <1>1 DEF RankInv
<1>4. PICK h : h = trunc[r]
  OBVIOUS
<1>5. PICK new : new = [pn EXCEPT ![Head(cs).slot] = Head(cs).conf]
  OBVIOUS
<1>6. /\ cs # <<>>
      /\ pinned' = [pinned EXCEPT ![r] = new] /\ copies' = [copies EXCEPT ![r] = Tail(cs)]
      /\ UNCHANGED <<sent, inbox, trunc>>
  BY <1>2, <1>3, <1>5 DEF CopyDone
<1>7. ASSUME NEW d, d.slot \in 0 .. Ring - 1, Held(cs, pn, d) PROVE Held(Tail(cs), new, d)
  BY <1>2, <1>3, <1>5, <1>6, <1>7, HeldTail
<1>8. ASSUME NEW i \in Nat PROVE Slot(i) \in 0 .. Ring - 1
  BY SlotsDiffer
<1>9. HostInv(h, cs, pn)
  BY <1>1, <1>2, <1>3, <1>4 DEF RankInv
<1>10. h.slot \in Nat
  BY <1>9 DEF HostInv, IsHost
<1>11. PendHeld(h, Tail(cs), new)
  <2> SUFFICES ASSUME h.pend # None PROVE PendHeld(h, Tail(cs), new)
    BY DEF PendHeld
  <2>1. h.pend.draft = h.step /\ h.slot >= 1 /\ h.pend.slot = Slot(h.slot - 1) /\ Held(cs, pn, h.pend)
    BY <1>9 DEF HostInv, PendHeld
  <2>2. h.slot - 1 \in Nat
    BY <1>10, <2>1
  <2>3. h.pend.slot \in 0 .. Ring - 1
    BY <1>8, <2>1, <2>2
  <2> QED
    BY <1>7, <2>1, <2>3 DEF PendHeld
<1>12. GatedHeld(h, Tail(cs), new)
  <2> SUFFICES ASSUME h.unscored # None PROVE GatedHeld(h, Tail(cs), new)
    BY DEF GatedHeld
  <2>1. /\ h.slot >= 2 /\ h.unscored.of.slot = Slot(h.slot - 2) /\ Held(cs, pn, h.unscored.of)
        /\ h.unscored.draft = h.unscored.of.draft
        /\ ToSet(h.unscored.live) \subseteq ToSet(h.unscored.of.rids)
    BY <1>9 DEF HostInv, GatedHeld
  <2>2. h.slot - 2 \in Nat
    BY <1>10, <2>1
  <2>3. h.unscored.of.slot \in 0 .. Ring - 1
    BY <1>8, <2>1, <2>2
  <2>4. Held(Tail(cs), new, h.unscored.of)
    BY <1>7, <2>1, <2>3
  <2> QED
    BY <2>1, <2>4 DEF GatedHeld
<1>13. HostInv(h, Tail(cs), new)
  BY <1>9, <1>11, <1>12 DEF HostInv
<1>14. \E S : Tail(cs) \in Seq(S)
  BY <1>2, <1>6, Taken
<1>15. Arrays'
  BY <1>1, <1>6 DEF Arrays
<1>16. copies'[r] = Tail(cs) /\ pinned'[r] = new /\ new = [s \in 0 .. Ring - 1 |-> new[s]]
  BY <1>1, <1>3, <1>5, <1>6 DEF Arrays
<1>17. ASSUME NEW q \in TruncRanks PROVE RankInv(q)'
  <2>1. CASE q = r
    BY <2>1, <1>1, <1>4, <1>6, <1>13, <1>14, <1>16 DEF RankInv
  <2>2. CASE q # r
    <3>1. RankInv(q)
      BY ByRank
    <3>2. copies'[q] = copies[q] /\ pinned'[q] = pinned[q]
      BY <2>2, <1>1, <1>6 DEF Arrays
    <3> QED
      BY <3>1, <3>2, <1>6 DEF RankInv
  <2> QED
    BY <2>1, <2>2
<1> QED
  BY <1>1, <1>6, <1>15, <1>17 DEF TruncInv, Arrays, RankInv

(* What execute_model leaves on its rank.                                  *)
LEMMA ExecuteHost ==
  ASSUME Ring >= 2, TruncInv, NEW r \in TruncRanks, ExecuteModel(r)
  PROVE  /\ HostInv(trunc'[r], copies'[r], pinned[r])
         /\ trunc'[r].step = trunc[r].step + 1
         /\ \E S : copies'[r] \in Seq(S)
         /\ trunc' = [trunc EXCEPT ![r] = trunc'[r]]
         /\ copies' = [copies EXCEPT ![r] = copies'[r]]
<1>1. Arrays /\ RankInv(r)
  BY ByRank
<1>2. PICK g : g = trunc[r] /\ HostInv(g, copies[r], pinned[r])
  BY <1>1 DEF RankInv
<1>3. PICK step : step = Head(inbox[r])
  OBVIOUS
<1>4. step.n = g.step + 1
  <2>1. inbox[r] # <<>>
    BY DEF ExecuteModel
  <2>2. Len(inbox[r]) \in Nat /\ Len(inbox[r]) >= 1 /\ step = inbox[r][1]
    BY <1>1, <1>3, <2>1, Taken DEF RankInv
  <2>3. 1 \in 1 .. Len(inbox[r])
    BY <2>2
  <2> QED
    BY <1>1, <1>2, <2>2, <2>3 DEF RankInv
<1>5. PICK b : b = [g EXCEPT !.step = step.n, !.used = None, !.gated = None, !.shape = "full"]
  OBVIOUS
<1>6. IsHost(g) /\ g.step \in Nat
  BY <1>2 DEF HostInv, IsHost
<1>7. /\ b = [x \in Fields |-> b[x]] /\ b.step = g.step + 1 /\ b.used = None /\ b.gated = None
      /\ b.pend = g.pend /\ b.unscored = g.unscored /\ b.last = g.last
      /\ b.slot = g.slot /\ b.off = g.off
  BY <1>4, <1>5, <1>6 DEF IsHost, Fields
<1>8. IsHost(b)
  BY <1>6, <1>7 DEF IsHost
<1>9. PICK h : h = FreshVariant(b, step.v)
  OBVIOUS
<1>10. PICK c : c = PostHoc(r, h)
  OBVIOUS
<1>11. \/ /\ ~step.v.on
          /\ trunc' = [trunc EXCEPT ![r] = ProposeScores(r, b, step)]
          /\ UNCHANGED copies
       \/ /\ step.v.on
          /\ h.unscored # None => Arrived(r, h.unscored.draft)
          /\ WaitsForPend(c, step) => Arrived(r, c.pend.draft)
          /\ trunc' = [trunc EXCEPT ![r] = ProposeScores(r, Decide(r, c, step), step)]
          /\ copies' = [copies EXCEPT ![r] = Append(@,
               [draft |-> step.n, slot |-> trunc'[r].pend.slot, conf |-> Scores(r, step.n, step.batch)])]
  BY <1>2, <1>3, <1>5, <1>9, <1>10 DEF ExecuteModel
<1>12. CASE /\ ~step.v.on
            /\ trunc' = [trunc EXCEPT ![r] = ProposeScores(r, b, step)]
            /\ UNCHANGED copies
  <2>1. PICK f : f = ProposeScores(r, b, step)
    OBVIOUS
  <2>2. HostInv(f, copies[r], pinned[r]) /\ f.step = b.step
    <3>1. PICK cs, pn : cs = copies[r] /\ pn = pinned[r]
      OBVIOUS
    <3>2. HostInv(g, cs, pn)
      BY <1>2, <3>1
    <3>3. HostInv(f, cs, pn) /\ f.step = b.step
      BY <1>4, <1>7, <1>8, <1>12, <2>1, <3>2, OffKeeps
    <3> QED
      BY <3>1, <3>3
  <2>3. trunc'[r] = f /\ copies' = [copies EXCEPT ![r] = copies'[r]]
    BY <1>1, <1>12, <2>1 DEF Arrays
  <2> QED
    BY <1>1, <1>2, <1>7, <1>12, <2>1, <2>2, <2>3 DEF RankInv
<1>13. CASE /\ step.v.on
            /\ h.unscored # None => Arrived(r, h.unscored.draft)
            /\ WaitsForPend(c, step) => Arrived(r, c.pend.draft)
            /\ trunc' = [trunc EXCEPT ![r] = ProposeScores(r, Decide(r, c, step), step)]
            /\ copies' = [copies EXCEPT ![r] = Append(@,
                 [draft |-> step.n, slot |-> trunc'[r].pend.slot, conf |-> Scores(r, step.n, step.batch)])]
  <2>1. /\ IsHost(h) /\ Same(h, b) /\ h.used = b.used
        /\ \/ h.unscored = b.unscored /\ h.last = b.last
           \/ h.unscored = None /\ h.last = None
    BY <1>8, <1>9, Freshened
  <2>2. /\ IsHost(h) /\ h.pend = g.pend /\ h.slot = g.slot /\ h.off = g.off /\ h.step = g.step + 1
        /\ h.gated = None /\ h.used = None
        /\ \/ h.unscored = g.unscored /\ h.last = g.last
           \/ h.unscored = None /\ h.last = None
        /\ h.unscored # None => Arrived(r, h.unscored.draft)
    BY <1>7, <1>13, <2>1 DEF Same
  <2>3. \E S : copies[r] \in Seq(S)
    BY <1>1 DEF RankInv
  <2>4. /\ Scored(c, g.step) /\ c.pend = g.pend /\ c.slot = g.slot /\ c.off = g.off /\ c.step = h.step
    BY <1>2, <1>10, <2>2, <2>3, PostHocScores
  <2>5. PICK e : e = Decide(r, c, step)
    OBVIOUS
  <2>6. Decided(e, g) /\ e.slot = g.slot /\ e.off = g.off /\ e.step = c.step
    <3>1. c.step = g.step + 1 /\ (WaitsForPend(c, step) => Arrived(r, c.pend.draft))
      BY <1>13, <2>2, <2>4
    <3> QED
      BY <1>2, <2>3, <2>4, <2>5, <3>1, DecideKeeps
  <2>7. PICK f : f = ProposeScores(r, e, step)
    OBVIOUS
  <2>8. trunc'[r] = f
    BY <1>1, <1>13, <2>5, <2>7 DEF Arrays
  <2>9. PICK x : x = [draft |-> step.n, slot |-> f.pend.slot, conf |-> Scores(r, step.n, step.batch)]
    OBVIOUS
  <2>10. copies' = [copies EXCEPT ![r] = Append(copies[r], x)]
    BY <1>13, <2>8, <2>9
  <2>11. copies'[r] = Append(copies[r], x)
    BY <1>1, <2>10 DEF Arrays
  <2>12. HostInv(f, Append(copies[r], x), pinned[r]) /\ f.step = e.step
    <3>1. PICK cs, pn : cs = copies[r] /\ pn = pinned[r]
      OBVIOUS
    <3>2. HostInv(g, cs, pn) /\ \E S : cs \in Seq(S)
      BY <1>2, <2>3, <3>1
    <3>3. e.step = g.step + 1 /\ step.v.on
      BY <1>13, <2>2, <2>4, <2>6
    <3>4. HostInv(f, Append(cs, x), pn) /\ f.step = e.step
      <4>1. IsCopyOf(x, r, step, f.pend.slot)
        BY <2>9 DEF IsCopyOf
      <4> QED
        BY <1>4, <2>6, <2>7, <3>2, <3>3, <4>1, ProposeKeeps
    <3> QED
      BY <3>1, <3>4
  <2>13. \E S : Append(copies[r], x) \in Seq(S)
    BY <2>3, Appended
  <2>14. f.step = g.step + 1
    BY <2>2, <2>4, <2>6, <2>12
  <2>15. /\ trunc' = [trunc EXCEPT ![r] = trunc'[r]]
         /\ copies' = [copies EXCEPT ![r] = copies'[r]]
    BY <1>13, <2>5, <2>7, <2>8, <2>10, <2>11
  <2> QED
    BY <1>2, <2>8, <2>11, <2>12, <2>13, <2>14, <2>15
<1> QED
  BY <1>11, <1>12, <1>13

(* A rank executes its next step.                                          *)
LEMMA ExecuteKeeps ==
  ASSUME Ring >= 2, TruncInv, NEW r \in TruncRanks, ExecuteModel(r) PROVE TruncInv'
<1>1. sent \in Nat /\ Arrays /\ RankInv(r)
  BY ByRank
<1>2. /\ HostInv(trunc'[r], copies'[r], pinned[r])
      /\ trunc'[r].step = trunc[r].step + 1
      /\ \E S : copies'[r] \in Seq(S)
      /\ trunc' = [trunc EXCEPT ![r] = trunc'[r]]
      /\ copies' = [copies EXCEPT ![r] = copies'[r]]
  BY ExecuteHost
<1>3. PICK q : q = inbox[r] /\ \E S : q \in Seq(S)
  BY <1>1 DEF RankInv
<1>4. q # <<>> /\ inbox' = [inbox EXCEPT ![r] = Tail(q)] /\ UNCHANGED <<sent, pinned>>
  BY <1>3 DEF ExecuteModel
<1>5. /\ \E S : Tail(q) \in Seq(S)
      /\ Len(q) \in Nat /\ Len(q) >= 1 /\ Len(Tail(q)) = Len(q) - 1
      /\ \A i \in 1 .. Len(q) - 1 : Tail(q)[i] = q[i + 1]
  BY <1>3, <1>4, Taken
<1>6. Arrays'
  <2>1. \A f, x : f = [p \in TruncRanks |-> f[p]] =>
          [f EXCEPT ![r] = x] = [p \in TruncRanks |-> [f EXCEPT ![r] = x][p]]
    OBVIOUS
  <2>2. trunc' = [p \in TruncRanks |-> trunc'[p]] /\ copies' = [p \in TruncRanks |-> copies'[p]]
    BY <1>1, <1>2 DEF Arrays
  <2>3. inbox' = [p \in TruncRanks |-> inbox'[p]] /\ pinned' = [p \in TruncRanks |-> pinned'[p]]
    BY <1>1, <1>4 DEF Arrays
  <2> QED
    BY <2>2, <2>3 DEF Arrays
<1>7. RankInv(r)'
  <2>1. inbox'[r] = Tail(q)
    BY <1>1, <1>4 DEF Arrays
  <2>2. PICK k : k = trunc[r].step
    OBVIOUS
  <2>3. PICK l \in Nat : l = Len(q) /\ l >= 1
    BY <1>5
  <2>4. k \in Nat /\ k + l = sent /\ \A i \in 1 .. l : q[i].n = k + i
    BY <1>1, <1>3, <2>2, <2>3 DEF RankInv, HostInv, IsHost
  <2>5. (k + 1) + (l - 1) = sent
    BY <2>3, <2>4
  <2>6. ASSUME NEW i \in 1 .. l - 1 PROVE Tail(q)[i].n = (k + 1) + i
    <3>1. i + 1 \in 1 .. l /\ k + (i + 1) = (k + 1) + i
      BY <2>3, <2>4
    <3>2. Tail(q)[i] = q[i + 1] /\ q[i + 1].n = k + (i + 1)
      BY <3>1, <2>3, <2>4, <1>5
    <3> QED
      BY <3>1, <3>2
  <2>7. trunc'[r].step = k + 1 /\ Len(Tail(q)) = l - 1
    BY <1>2, <1>5, <2>2, <2>3
  <2> QED
    BY <1>1, <1>2, <1>4, <1>5, <2>1, <2>5, <2>6, <2>7 DEF RankInv
<1>8. ASSUME NEW p \in TruncRanks PROVE RankInv(p)'
  <2>1. CASE p = r
    BY <2>1, <1>7
  <2>2. CASE p # r
    <3>1. RankInv(p)
      BY ByRank
    <3>2. trunc'[p] = trunc[p] /\ copies'[p] = copies[p] /\ inbox'[p] = inbox[p]
      BY <2>2, <1>1, <1>2, <1>4 DEF Arrays
    <3> QED
      BY <3>1, <3>2, <1>4 DEF RankInv
  <2> QED
    BY <2>1, <2>2
<1> QED
  BY <1>1, <1>4, <1>6, <1>8 DEF TruncInv, Arrays, RankInv

(* Every step keeps TruncInv.                                              *)
LEMMA NextTrunc == Ring >= 2 /\ TruncInv /\ [TruncNext]_truncVars => TruncInv'
<1> SUFFICES ASSUME Ring >= 2, TruncInv, [TruncNext]_truncVars PROVE TruncInv'
  OBVIOUS
<1>1. CASE \E v, live, drafted, uniform, policy : Dispatch(v, live, drafted, uniform, policy)
  BY <1>1, DispatchKeeps
<1>2. CASE \E r \in TruncRanks : CopyDone(r) \/ ExecuteModel(r)
  BY <1>2, CopyDoneKeeps, ExecuteKeeps
<1>3. CASE UNCHANGED truncVars
  BY <1>3 DEF truncVars, TruncInv
<1> QED
  BY <1>1, <1>2, <1>3 DEF TruncNext

(* With a ring of at least two slots (the code has three) every request is *)
(* scored with its own confidences of the draft that is decided: also when *)
(* the gate leaves a draft unscored for a step, requests leave the batch,  *)
(* the harness switches variants, and copies arrive late.                  *)
THEOREM ScoresAreOwn == ASSUME Ring >= 2 PROVE TruncSpec => []OwnConfidences
<1>1. TruncInv => OwnConfidences
  BY DEF TruncInv, HostInv, OwnUsed, OwnConfidences
<1>2. TruncInv /\ [TruncNext]_truncVars => TruncInv'
  BY NextTrunc
<1> QED
  BY <1>1, <1>2, InitTrunc, PTL DEF TruncSpec

(* The gate sees the decision for the previous draft, or one from before a *)
(* step with truncation off.                                               *)
THEOREM GateIsCurrent == ASSUME Ring >= 2 PROVE TruncSpec => []GateSeesPrevious
<1>1. TruncInv => GateSeesPrevious
  BY DEF TruncInv, HostInv, SawPrevious, GateSeesPrevious
<1>2. TruncInv /\ [TruncNext]_truncVars => TruncInv'
  BY NextTrunc
<1> QED
  BY <1>1, <1>2, InitTrunc, PTL DEF TruncSpec

-----------------------------------------------------------------------------
(* DraftTrunc: the ranks decide alike.  A step with every score exact: it  *)
(* names no rank, no copy and no slot's contents.                          *)
ExactScore(h, d, live, policy) ==
  [h EXCEPT !.used = [draft |-> d.draft, live |-> live,
                      conf |-> [i \in DOMAIN live |-> <<0, d.draft, live[i]>>]],
            !.last = [draft |-> d.draft, policy |-> policy]]
ExactPostHoc(h) ==
  IF h.unscored = None THEN h
  ELSE [ExactScore(h, h.unscored.of, h.unscored.live, h.unscored.policy) EXCEPT !.unscored = None]
Decides(h, step) == h.pend # None /\ ~Gates(h, step) /\ Eligible(step, h.pend)
ExactDecide(h, step) ==
  LET d == h.pend
      full == [h EXCEPT !.pend = None]
  IN  CASE d = None -> full
        [] d # None /\ Gates(h, step) ->
             [full EXCEPT !.unscored = [draft |-> d.draft, of |-> d, live |-> step.spec,
                                        policy |-> step.policy],
                          !.gated = [draft |-> d.draft, saw |-> h.last.draft]]
        [] Decides(h, step) ->
             [ExactScore(full, d, step.spec, step.policy) EXCEPT
               !.shape = IF step.policy = "short" THEN "short" ELSE "full"]
        [] OTHER -> Skip(full)
Begun(h, step) == [h EXCEPT !.step = step.n, !.used = None, !.gated = None, !.shape = "full"]
ExactStep(h, step) ==
  LET e == ExactDecide(ExactPostHoc(FreshVariant(Begun(h, step), step.v)), step)
  IN  ProposeScores(0, IF step.v.on THEN e ELSE Begun(h, step), step)

(* Once the copy has arrived, a score is exact.                            *)
LEMMA ScoreExact ==
  ASSUME NEW r, \E S : copies[r] \in Seq(S), NEW h, NEW d, NEW live, NEW policy,
         ToSet(live) \subseteq ToSet(d.rids), Held(copies[r], pinned[r], d), Arrived(r, d.draft)
  PROVE  Score(r, h, d, live, policy) = ExactScore(h, d, live, policy)
<1> DEFINE conf == [i \in DOMAIN live |->
                      IF Position(d, live[i]) \in DOMAIN pinned[r][d.slot]
                      THEN pinned[r][d.slot][Position(d, live[i])] ELSE <<>>]
           own == [i \in DOMAIN live |-> <<0, d.draft, live[i]>>]
<1>1. pinned[r][d.slot] = Confidences(d)
  <2>1. DOMAIN copies[r] = 1 .. Len(copies[r])
    BY Domain
  <2>2. ASSUME NEW i \in 1 .. Len(copies[r]), copies[r][i] = Copy(d) PROVE FALSE
    <3>1. copies[r][i].draft = d.draft
      BY <2>2 DEF Copy
    <3> QED
      BY <2>1, <3>1 DEF Arrived
  <2> QED
    BY <2>2 DEF Held
<1>2. ASSUME NEW i \in DOMAIN live PROVE conf[i] = <<0, d.draft, live[i]>>
  <2>1. \E j \in DOMAIN d.rids : d.rids[j] = live[i]
    BY DEF ToSet
  <2>2. PICK p : p = Position(d, live[i])
    OBVIOUS
  <2>3. p \in DOMAIN d.rids /\ d.rids[p] = live[i]
    BY <2>1, <2>2 DEF Position
  <2>4. p \in DOMAIN Confidences(d) /\ Confidences(d)[p] = <<0, d.draft, live[i]>>
    BY <2>3 DEF Confidences
  <2> QED
    BY <2>2, <2>4, <1>1
<1>3. conf = own
  <2>1. \A i \in DOMAIN live : conf[i] = own[i]
    BY <1>2
  <2>2. conf = [i \in DOMAIN live |-> conf[i]] /\ own = [i \in DOMAIN live |-> own[i]]
    OBVIOUS
  <2> HIDE DEF conf, own
  <2> QED
    BY <2>1, <2>2
<1>4. Score(r, h, d, live, policy) =
        [h EXCEPT !.used = [draft |-> d.draft, live |-> live, conf |-> conf],
                  !.last = [draft |-> d.draft, policy |-> policy]]
  BY DEF Score
<1>5. ExactScore(h, d, live, policy) =
        [h EXCEPT !.used = [draft |-> d.draft, live |-> live, conf |-> own],
                  !.last = [draft |-> d.draft, policy |-> policy]]
  BY DEF ExactScore
<1> HIDE DEF conf, own
<1> QED
  BY <1>3, <1>4, <1>5

(* The score of the draft that was gated.                                  *)
LEMMA PostHocExact ==
  ASSUME NEW r, \E S : copies[r] \in Seq(S), NEW g, HostInv(g, copies[r], pinned[r]),
         NEW h, h.unscored # None => h.unscored = g.unscored /\ Arrived(r, h.unscored.draft)
  PROVE  PostHoc(r, h) = ExactPostHoc(h)
<1>1. CASE h.unscored = None
  BY <1>1 DEF PostHoc, ExactPostHoc
<1>2. CASE h.unscored # None
  <2>1. PICK d, live, policy : /\ d = h.unscored.of /\ live = h.unscored.live
                               /\ policy = h.unscored.policy
    OBVIOUS
  <2>2. /\ Held(copies[r], pinned[r], d) /\ ToSet(live) \subseteq ToSet(d.rids)
        /\ Arrived(r, d.draft)
    BY <1>2, <2>1 DEF HostInv, GatedHeld
  <2>3. Score(r, h, d, live, policy) = ExactScore(h, d, live, policy)
    BY <2>2, ScoreExact
  <2>4. PostHoc(r, h) = [Score(r, h, d, live, policy) EXCEPT !.unscored = None]
    BY <1>2, <2>1 DEF PostHoc
  <2>5. ExactPostHoc(h) = [ExactScore(h, d, live, policy) EXCEPT !.unscored = None]
    BY <1>2, <2>1 DEF ExactPostHoc
  <2> QED
    BY <2>3, <2>4, <2>5
<1> QED
  BY <1>1, <1>2

(* The late decision.                                                      *)
LEMMA DecideExact ==
  ASSUME NEW r, \E S : copies[r] \in Seq(S), NEW g, HostInv(g, copies[r], pinned[r]),
         NEW h, h.pend = g.pend,
         NEW step, WaitsForPend(h, step) => Arrived(r, h.pend.draft)
  PROVE  Decide(r, h, step) = ExactDecide(h, step)
<1>1. CASE ~Decides(h, step)
  <2>1. CASE h.pend = None
    BY <2>1 DEF Decide, ExactDecide
  <2>2. CASE h.pend # None /\ Gates(h, step)
    BY <2>2 DEF Decide, ExactDecide
  <2>3. CASE h.pend # None /\ ~Gates(h, step) /\ ~Eligible(step, h.pend)
    <3>1. Decide(r, h, step) = Skip([h EXCEPT !.pend = None])
      BY <2>3 DEF Decide
    <3>2. ExactDecide(h, step) = Skip([h EXCEPT !.pend = None])
      BY <2>3 DEF ExactDecide, Decides
    <3> QED
      BY <3>1, <3>2
  <2> QED
    BY <1>1, <2>1, <2>2, <2>3 DEF Decides
<1>2. CASE Decides(h, step)
  <2>1. PICK d : d = h.pend
    OBVIOUS
  <2>2. PICK full : full = [h EXCEPT !.pend = None]
    OBVIOUS
  <2>3. PICK x : x = IF step.policy = "short" THEN "short" ELSE "full"
    OBVIOUS
  <2>4. d # None /\ ~Gates(h, step) /\ Eligible(step, d)
    BY <1>2, <2>1 DEF Decides
  <2>5. Arrived(r, d.draft)
    BY <2>1, <2>4 DEF WaitsForPend
  <2>6. ToSet(step.spec) \subseteq ToSet(d.rids) /\ Held(copies[r], pinned[r], d)
    BY <2>1, <2>4 DEF Eligible, HostInv, PendHeld
  <2>7. Score(r, full, d, step.spec, step.policy) = ExactScore(full, d, step.spec, step.policy)
    BY <2>5, <2>6, ScoreExact
  <2>8. Decide(r, h, step) = [Score(r, full, d, step.spec, step.policy) EXCEPT !.shape = x]
    BY <2>1, <2>2, <2>3, <2>4 DEF Decide
  <2>9. ExactDecide(h, step) = [ExactScore(full, d, step.spec, step.policy) EXCEPT !.shape = x]
    BY <1>2, <2>1, <2>2, <2>3, <2>4 DEF ExactDecide
  <2> QED
    BY <2>7, <2>8, <2>9
<1> QED
  BY <1>1, <1>2

(* What a step decides from: the score of the gated draft is exact, and    *)
(* the pending draft is the one the step found.                            *)
LEMMA BeforeDecision ==
  ASSUME TruncInv, NEW r \in TruncRanks, inbox[r] # <<>>, NEW step, step = Head(inbox[r]),
         NEW b, b = Begun(trunc[r], step), NEW h, h = FreshVariant(b, step.v),
         h.unscored # None => Arrived(r, h.unscored.draft)
  PROVE  PostHoc(r, h) = ExactPostHoc(h) /\ PostHoc(r, h).pend = trunc[r].pend
<1>1. RankInv(r) /\ \E S : copies[r] \in Seq(S)
  <2>1. RankInv(r)
    BY ByRank
  <2> QED
    BY <2>1 DEF RankInv
<1>2. PICK g : g = trunc[r] /\ HostInv(g, copies[r], pinned[r])
  BY <1>1 DEF RankInv
<1>3. step.n = g.step + 1
  <2>1. Len(inbox[r]) \in Nat /\ Len(inbox[r]) >= 1 /\ step = inbox[r][1]
    BY <1>1, Taken DEF RankInv
  <2>2. 1 \in 1 .. Len(inbox[r])
    BY <2>1
  <2> QED
    BY <1>1, <1>2, <2>1, <2>2 DEF RankInv
<1>4. IsHost(g) /\ g.step \in Nat
  BY <1>2 DEF HostInv, IsHost
<1>5. b = [g EXCEPT !.step = step.n, !.used = None, !.gated = None, !.shape = "full"]
  BY <1>2 DEF Begun
<1>6. /\ b = [x \in Fields |-> b[x]] /\ b.step = g.step + 1 /\ b.used = None /\ b.gated = None
      /\ b.pend = g.pend /\ b.unscored = g.unscored /\ b.last = g.last
      /\ b.slot = g.slot /\ b.off = g.off
  BY <1>3, <1>4, <1>5 DEF IsHost, Fields
<1>7. IsHost(b)
  BY <1>4, <1>6 DEF IsHost
<1>8. /\ IsHost(h) /\ Same(h, b) /\ h.used = b.used
      /\ \/ h.unscored = b.unscored /\ h.last = b.last
         \/ h.unscored = None /\ h.last = None
  BY <1>7, Freshened
<1>9. /\ IsHost(h) /\ h.pend = g.pend /\ h.slot = g.slot /\ h.off = g.off
      /\ h.gated = None /\ h.used = None
      /\ \/ h.unscored = g.unscored /\ h.last = g.last
         \/ h.unscored = None /\ h.last = None
  BY <1>6, <1>8 DEF Same
<1>10. PostHoc(r, h).pend = g.pend
  BY <1>1, <1>2, <1>9, PostHocScores
<1>11. PostHoc(r, h) = ExactPostHoc(h)
  BY <1>1, <1>2, <1>9, PostHocExact
<1> QED
  BY <1>2, <1>10, <1>11

(* A rank's step is the exact one, however late its copies were.           *)
LEMMA ExecuteExact ==
  ASSUME TruncInv, NEW r \in TruncRanks, ExecuteModel(r)
  PROVE  trunc'[r] = ExactStep(trunc[r], Head(inbox[r]))
<1>1. Arrays /\ RankInv(r)
  BY ByRank
<1>2. PICK g : g = trunc[r] /\ HostInv(g, copies[r], pinned[r])
  BY <1>1 DEF RankInv
<1>3. PICK step : step = Head(inbox[r])
  OBVIOUS
<1>4. PICK b : b = Begun(g, step)
  OBVIOUS
<1>5. PICK h : h = FreshVariant(b, step.v)
  OBVIOUS
<1>6. PICK c : c = PostHoc(r, h)
  OBVIOUS
<1>7. b = [g EXCEPT !.step = step.n, !.used = None, !.gated = None, !.shape = "full"]
  BY <1>4 DEF Begun
<1>8. \/ /\ ~step.v.on
         /\ trunc' = [trunc EXCEPT ![r] = ProposeScores(r, b, step)]
      \/ /\ step.v.on
         /\ h.unscored # None => Arrived(r, h.unscored.draft)
         /\ WaitsForPend(c, step) => Arrived(r, c.pend.draft)
         /\ trunc' = [trunc EXCEPT ![r] = ProposeScores(r, Decide(r, c, step), step)]
  BY <1>2, <1>3, <1>5, <1>6, <1>7 DEF ExecuteModel
<1>9. ASSUME NEW e PROVE ProposeScores(r, e, step) = ProposeScores(0, e, step)
  BY DEF ProposeScores
<1>10. CASE /\ ~step.v.on
            /\ trunc' = [trunc EXCEPT ![r] = ProposeScores(r, b, step)]
  <2>1. trunc'[r] = ProposeScores(r, b, step)
    BY <1>1, <1>10 DEF Arrays
  <2>2. ExactStep(g, step) = ProposeScores(0, b, step)
    BY <1>4, <1>10 DEF ExactStep
  <2> QED
    BY <2>1, <2>2, <1>2, <1>3, <1>9
<1>11. CASE /\ step.v.on
            /\ h.unscored # None => Arrived(r, h.unscored.draft)
            /\ WaitsForPend(c, step) => Arrived(r, c.pend.draft)
            /\ trunc' = [trunc EXCEPT ![r] = ProposeScores(r, Decide(r, c, step), step)]
  <2>1. inbox[r] # <<>>
    BY DEF ExecuteModel
  <2>2. c = ExactPostHoc(h) /\ c.pend = g.pend
    BY <2>1, <1>2, <1>3, <1>4, <1>5, <1>6, <1>11, BeforeDecision
  <2>3. PICK e : e = Decide(r, c, step)
    OBVIOUS
  <2>4. e = ExactDecide(c, step)
    <3>1. \E S : copies[r] \in Seq(S)
      BY <1>1 DEF RankInv
    <3> QED
      BY <3>1, <2>2, <2>3, <1>2, <1>11, DecideExact
  <2>5. trunc'[r] = ProposeScores(r, e, step)
    BY <1>1, <1>11, <2>3 DEF Arrays
  <2>6. ExactStep(g, step) = ProposeScores(0, e, step)
    BY <1>4, <1>5, <1>11, <2>2, <2>4 DEF ExactStep
  <2> QED
    BY <2>5, <2>6, <1>2, <1>3, <1>9
<1> QED
  BY <1>8, <1>10, <1>11

(* Every rank is at a point of one history: hosts[n] is the host after     *)
(* step n, and steps[n] is what the scheduler sent for it.                 *)
IsHistory(hosts, steps, n) ==
  hosts[0] = NoHost /\ \A i \in 1 .. n : hosts[i] = ExactStep(hosts[i - 1], steps[i])
IsOn(h, queue, hosts, steps) ==
  h = hosts[h.step] /\ \A i \in 1 .. Len(queue) : queue[i] = steps[h.step + i]
HistoryInv ==
  \E hosts, steps : /\ IsHistory(hosts, steps, sent)
                    /\ \A r \in TruncRanks : IsOn(trunc[r], inbox[r], hosts, steps)

LEMMA InitHistory == TruncInit => HistoryInv
<1> SUFFICES ASSUME TruncInit PROVE HistoryInv
  OBVIOUS
<1>1. PICK hosts : hosts = [n \in {0} |-> NoHost]
  OBVIOUS
<1>2. sent = 0 /\ IsHistory(hosts, <<>>, sent)
  BY <1>1 DEF TruncInit, IsHistory
<1>3. ASSUME NEW r \in TruncRanks PROVE IsOn(trunc[r], inbox[r], hosts, <<>>)
  <2>1. trunc[r] = NoHost /\ inbox[r] = <<>> /\ NoHost.step = 0
    BY DEF TruncInit, NoHost
  <2>2. trunc[r].step = 0 /\ Len(inbox[r]) = 0
    BY <2>1
  <2> QED
    BY <1>1, <2>1, <2>2 DEF IsOn
<1> QED
  BY <1>2, <1>3 DEF HistoryInv

(* A step that is sent extends the history.                                *)
LEMMA DispatchHistory ==
  ASSUME TruncInv, HistoryInv, NEW v, NEW live, NEW drafted, NEW uniform, NEW policy,
         Dispatch(v, live, drafted, uniform, policy)
  PROVE  HistoryInv'
<1>1. PICK x : inbox' = [r \in TruncRanks |-> Append(inbox[r], x)]
  BY DEF Dispatch
<1>2. PICK m : m = sent /\ m \in Nat
  BY ByRank
<1>3. sent' = m + 1 /\ trunc' = trunc
  BY <1>2 DEF Dispatch
<1>4. PICK H, S : IsHistory(H, S, m) /\ \A r \in TruncRanks : IsOn(trunc[r], inbox[r], H, S)
  BY <1>2 DEF HistoryInv
<1>5. PICK y : y = ExactStep(H[m], x)
  OBVIOUS
<1>6. PICK G : G = [n \in 0 .. m + 1 |-> IF n = m + 1 THEN y ELSE H[n]]
  OBVIOUS
<1>7. PICK T : T = [n \in 1 .. m + 1 |-> IF n = m + 1 THEN x ELSE S[n]]
  OBVIOUS
<1>8. /\ G[m + 1] = y /\ T[m + 1] = x
      /\ \A n \in 0 .. m : G[n] = H[n]
      /\ \A n \in 1 .. m : T[n] = S[n]
  BY <1>2, <1>6, <1>7
<1>9. IsHistory(G, T, m + 1)
  <2>1. G[0] = NoHost
    <3>1. 0 \in 0 .. m
      BY <1>2
    <3> QED
      BY <3>1, <1>4, <1>8 DEF IsHistory
  <2>2. ASSUME NEW i \in 1 .. m + 1 PROVE G[i] = ExactStep(G[i - 1], T[i])
    <3>1. CASE i = m + 1
      <4>1. i - 1 = m /\ m \in 0 .. m
        BY <3>1, <1>2
      <4> QED
        BY <3>1, <4>1, <1>5, <1>8
    <3>2. CASE i # m + 1
      <4>1. i \in 1 .. m /\ i \in 0 .. m /\ i - 1 \in 0 .. m
        BY <3>2, <1>2
      <4>2. H[i] = ExactStep(H[i - 1], S[i])
        BY <4>1, <1>4 DEF IsHistory
      <4> QED
        BY <4>1, <4>2, <1>8
    <3> QED
      BY <3>1, <3>2
  <2> QED
    BY <2>1, <2>2 DEF IsHistory
<1>10. ASSUME NEW r \in TruncRanks PROVE IsOn(trunc'[r], inbox'[r], G, T)
  <2>1. RankInv(r) /\ IsOn(trunc[r], inbox[r], H, S)
    BY <1>4, ByRank
  <2>2. PICK q : q = inbox[r] /\ \E U : q \in Seq(U)
    BY <2>1 DEF RankInv
  <2>3. PICK k \in Nat, l \in Nat : k = trunc[r].step /\ l = Len(q) /\ k + l = m
    <3>1. trunc[r].step \in Nat /\ trunc[r].step + Len(q) = m
      BY <1>2, <2>1, <2>2 DEF RankInv, HostInv, IsHost
    <3>2. Len(q) \in Nat
      BY <2>2, Domain
    <3> QED
      BY <3>1, <3>2
  <2>4. /\ inbox'[r] = Append(q, x)
        /\ Len(Append(q, x)) = l + 1 /\ Append(q, x)[l + 1] = x
        /\ \A i \in 1 .. l : Append(q, x)[i] = q[i]
    BY <1>1, <2>2, <2>3, Appended
  <2>5. trunc'[r] = trunc[r] /\ trunc[r] = H[k] /\ H[k] = G[k]
    <3>1. k \in 0 .. m
      BY <2>3, <1>2
    <3> QED
      BY <3>1, <1>3, <1>8, <2>1, <2>3 DEF IsOn
  <2>6. ASSUME NEW i \in 1 .. l + 1 PROVE Append(q, x)[i] = T[k + i]
    <3>1. CASE i = l + 1
      <4>1. k + i = m + 1
        BY <3>1, <2>3
      <4> QED
        BY <3>1, <4>1, <1>8, <2>4
    <3>2. CASE i # l + 1
      <4>1. i \in 1 .. l /\ k + i \in 1 .. m
        BY <3>2, <2>3, <1>2
      <4>2. q[i] = S[k + i]
        BY <4>1, <2>1, <2>2, <2>3 DEF IsOn
      <4> QED
        BY <4>1, <4>2, <1>8, <2>4
    <3> QED
      BY <3>1, <3>2
  <2> QED
    BY <2>3, <2>4, <2>5, <2>6 DEF IsOn
<1> QED
  BY <1>3, <1>9, <1>10, Zenon DEF HistoryInv

(* A rank that executes moves to the next point of the history.            *)
LEMMA ExecuteHistory ==
  ASSUME Ring >= 2, TruncInv, HistoryInv, NEW r \in TruncRanks, ExecuteModel(r)
  PROVE  HistoryInv'
<1>1. sent \in Nat /\ Arrays /\ RankInv(r)
  BY ByRank
<1>2. PICK H, S : IsHistory(H, S, sent) /\ \A p \in TruncRanks : IsOn(trunc[p], inbox[p], H, S)
  BY DEF HistoryInv
<1>3. PICK q : q = inbox[r] /\ \E U : q \in Seq(U)
  BY <1>1 DEF RankInv
<1>4. q # <<>> /\ inbox' = [inbox EXCEPT ![r] = Tail(q)] /\ sent' = sent
  BY <1>3 DEF ExecuteModel
<1>5. /\ Len(q) \in Nat /\ Len(q) >= 1 /\ Len(Tail(q)) = Len(q) - 1 /\ Head(q) = q[1]
      /\ \A i \in 1 .. Len(q) - 1 : Tail(q)[i] = q[i + 1]
  BY <1>3, <1>4, Taken
<1>6. PICK k, l \in Nat : k = trunc[r].step /\ l = Len(q) /\ l >= 1 /\ k \in Nat /\ k + l = sent
  BY <1>1, <1>3, <1>5 DEF RankInv, HostInv, IsHost
<1>7. PICK f : f = trunc'[r] /\ f.step = k + 1 /\ trunc' = [trunc EXCEPT ![r] = f]
  BY <1>6, ExecuteHost
<1>8. trunc[r] = H[k] /\ \A i \in 1 .. l : q[i] = S[k + i]
  BY <1>2, <1>3, <1>6 DEF IsOn
<1>9. f = H[k + 1]
  <2>1. f = ExactStep(trunc[r], Head(q))
    BY <1>3, <1>7, ExecuteExact
  <2>2. 1 \in 1 .. l /\ k + 1 \in 1 .. sent /\ (k + 1) - 1 = k
    BY <1>1, <1>6
  <2>3. Head(q) = S[k + 1]
    BY <2>2, <1>5, <1>8
  <2>4. H[k + 1] = ExactStep(H[k], S[k + 1])
    BY <2>2, <1>2 DEF IsHistory
  <2> QED
    BY <2>1, <2>3, <2>4, <1>8
<1>10. IsOn(trunc'[r], inbox'[r], H, S)
  <2>1. inbox'[r] = Tail(q)
    BY <1>1, <1>4 DEF Arrays
  <2>2. ASSUME NEW i \in 1 .. l - 1 PROVE Tail(q)[i] = S[(k + 1) + i]
    <3>1. i + 1 \in 1 .. l /\ k + (i + 1) = (k + 1) + i
      BY <1>6
    <3>2. Tail(q)[i] = q[i + 1] /\ q[i + 1] = S[k + (i + 1)]
      BY <3>1, <1>5, <1>6, <1>8
    <3> QED
      BY <3>1, <3>2
  <2>3. trunc'[r] = H[k + 1] /\ trunc'[r].step = k + 1 /\ Len(Tail(q)) = l - 1
    BY <1>5, <1>6, <1>7, <1>9
  <2> QED
    BY <2>1, <2>2, <2>3 DEF IsOn
<1>11. ASSUME NEW p \in TruncRanks PROVE IsOn(trunc'[p], inbox'[p], H, S)
  <2>1. CASE p = r
    BY <2>1, <1>10
  <2>2. CASE p # r
    <3>1. IsOn(trunc[p], inbox[p], H, S)
      BY <1>2
    <3>2. trunc'[p] = trunc[p] /\ inbox'[p] = inbox[p]
      BY <2>2, <1>1, <1>4, <1>7 DEF Arrays
    <3> QED
      BY <3>1, <3>2 DEF IsOn
  <2> QED
    BY <2>1, <2>2
<1> QED
  BY <1>2, <1>4, <1>11, Zenon DEF HistoryInv

LEMMA NextHistory ==
  Ring >= 2 /\ TruncInv /\ HistoryInv /\ [TruncNext]_truncVars => HistoryInv'
<1> SUFFICES ASSUME Ring >= 2, TruncInv, HistoryInv, [TruncNext]_truncVars PROVE HistoryInv'
  OBVIOUS
<1>1. CASE \E v, live, drafted, uniform, policy : Dispatch(v, live, drafted, uniform, policy)
  BY <1>1, DispatchHistory
<1>2. CASE \E r \in TruncRanks : ExecuteModel(r)
  BY <1>2, ExecuteHistory
<1>3. CASE UNCHANGED <<sent, inbox, trunc>>
  BY <1>3 DEF HistoryInv
<1>4. ASSUME NEW r, CopyDone(r) PROVE UNCHANGED <<sent, inbox, trunc>>
  BY <1>4 DEF CopyDone
<1>5. UNCHANGED truncVars => UNCHANGED <<sent, inbox, trunc>>
  BY DEF truncVars
<1> QED
  BY <1>1, <1>2, <1>3, <1>4, <1>5 DEF TruncNext

(* Ranks that executed the same step ran the same shape, scored the same   *)
(* draft from the same confidences and will decide alike: a rank's host is *)
(* a function of the steps that were sent to it, however late its device's *)
(* copies arrive and however far the ranks are apart.                      *)
THEOREM DecisionsAgree == ASSUME Ring >= 2 PROVE TruncSpec => []RanksDecideAlike
<1>1. TruncInit => TruncInv /\ HistoryInv
  BY InitTrunc, InitHistory
<1>2. TruncInv /\ HistoryInv /\ [TruncNext]_truncVars => (TruncInv /\ HistoryInv)'
  BY NextTrunc, NextHistory
<1>3. HistoryInv => RanksDecideAlike
  BY DEF HistoryInv, IsOn, RanksDecideAlike
<1> QED
  BY <1>1, <1>2, <1>3, PTL DEF TruncSpec

-----------------------------------------------------------------------------
(* ExactLens: induction over the natural numbers.                          *)
LEMMA FromZero ==
  ASSUME NEW N \in Nat, NEW G, 0 \in G, \A n \in 0 .. N - 1 : n \in G => n + 1 \in G
  PROVE  N \in G
<1> DEFINE Bad == {n \in Nat : n \in 0 .. N /\ n \notin G}
<1>1. SUFFICES ASSUME Bad # {} PROVE FALSE
  OBVIOUS
<1>2. PICK m \in Bad : \A n \in Bad : ~(<<n, m>> \in OpToRel(<, Nat))
  BY <1>1, NatLessThanWellFounded, WFMin
<1>3. m \in 0 .. N /\ m \notin G /\ \A n \in Nat : n < m => n \notin Bad
  BY <1>2 DEF OpToRel
<1>4. m # 0 /\ m - 1 \in 0 .. N - 1 /\ m - 1 \in Nat /\ m - 1 < m /\ (m - 1) + 1 = m
  BY <1>3
<1>5. m - 1 \in G /\ (m - 1) + 1 \in G
  BY <1>3, <1>4
<1> QED
  BY <1>3, <1>4, <1>5

(* Settled by its recursion.                                               *)
SettledOf(d, work, g, k) == IF k = 0 THEN d ELSE Apply(g[k - 1], work[k])
Settles(d, work, N, g) == g = [k \in 0 .. N |-> SettledOf(d, work, g, k)]

LEMMA SettlesExist ==
  ASSUME NEW d, NEW work, NEW N \in Nat
  PROVE  \E g : Settles(d, work, N, g)
<1> DEFINE G == {m \in Nat : \E g : Settles(d, work, m, g)}
<1>1. 0 \in G
  <2> DEFINE g == [k \in 0 .. 0 |-> d]
  <2>1. \A k \in 0 .. 0 : SettledOf(d, work, g, k) = d
    BY DEF SettledOf
  <2>2. g = [k \in 0 .. 0 |-> SettledOf(d, work, g, k)]
    BY <2>1
  <2> HIDE DEF g
  <2> QED
    BY <2>2 DEF Settles
<1>2. ASSUME NEW m \in Nat, m \in G PROVE m + 1 \in G
  <2>1. PICK g : Settles(d, work, m, g)
    BY <1>2
  <2> DEFINE h == [k \in 0 .. m + 1 |-> SettledOf(d, work, g, k)]
  <2>2. ASSUME NEW k \in 0 .. m + 1 PROVE SettledOf(d, work, g, k) = SettledOf(d, work, h, k)
    <3>1. CASE k = 0
      BY <3>1 DEF SettledOf
    <3>2. CASE k > 0
      <4>1. k - 1 \in 0 .. m /\ k - 1 \in 0 .. m + 1
        BY <3>2
      <4>2. h[k - 1] = SettledOf(d, work, g, k - 1)
        BY <4>1
      <4>3. g[k - 1] = SettledOf(d, work, g, k - 1)
        BY <2>1, <4>1 DEF Settles
      <4> HIDE DEF h
      <4> QED
        BY <3>2, <4>2, <4>3 DEF SettledOf
    <3> QED
      BY <3>1, <3>2
  <2>3. h = [k \in 0 .. m + 1 |-> SettledOf(d, work, h, k)]
    BY <2>2
  <2> HIDE DEF h
  <2> QED
    BY <2>3 DEF Settles
<1> HIDE DEF G
<1>3. N \in G
  BY <1>1, <1>2, FromZero
<1> QED
  BY <1>3 DEF G

LEMMA SettlesAgree ==
  ASSUME NEW d, NEW work, NEW M \in Nat, NEW N \in Nat, M <= N,
         NEW g, Settles(d, work, M, g), NEW h, Settles(d, work, N, h)
  PROVE  g[M] = h[M]
<1> DEFINE G == {k \in Nat : k <= M => g[k] = h[k]}
<1>1. \A k \in 0 .. M : g[k] = SettledOf(d, work, g, k) /\ h[k] = SettledOf(d, work, h, k)
  <2>1. g = [k \in 0 .. M |-> SettledOf(d, work, g, k)] /\ h = [k \in 0 .. N |-> SettledOf(d, work, h, k)]
    BY Zenon DEF Settles
  <2>2. \A k \in 0 .. M : k \in 0 .. N
    OBVIOUS
  <2>3. ASSUME NEW k \in 0 .. M PROVE g[k] = SettledOf(d, work, g, k)
    BY <2>1
  <2>4. ASSUME NEW k \in 0 .. N PROVE h[k] = SettledOf(d, work, h, k)
    BY <2>1
  <2> QED
    BY <2>2, <2>3, <2>4
<1>2. 0 \in G
  <2>1. g[0] = SettledOf(d, work, g, 0) /\ h[0] = SettledOf(d, work, h, 0)
    BY <1>1
  <2> QED
    BY <2>1 DEF SettledOf
<1>3. ASSUME NEW k \in 0 .. M - 1, k \in G PROVE k + 1 \in G
  <2>1. k + 1 \in 0 .. M /\ (k + 1) - 1 = k /\ k + 1 # 0
    BY <1>3
  <2>2. g[k + 1] = Apply(g[(k + 1) - 1], work[k + 1]) /\ h[k + 1] = Apply(h[(k + 1) - 1], work[k + 1])
    BY <1>1, <2>1 DEF SettledOf
  <2>3. g[k] = h[k]
    BY <1>3
  <2> QED
    BY <2>1, <2>2, <2>3
<1> HIDE DEF G
<1>4. M \in G
  BY <1>2, <1>3, FromZero
<1> QED
  BY <1>4 DEF G

LEMMA SettledUnfolds ==
  ASSUME NEW d, NEW work, NEW N \in Nat
  PROVE  \E g : Settles(d, work, N, g) /\ Settled(d, work, N) = g[N]
<1> DEFINE f == CHOOSE g : Settles(d, work, N, g)
<1>1. Settles(d, work, N, f)
  BY SettlesExist, Zenon
<1>2. Settled(d, work, N) = f[N]
  BY DEF Settled, Settles, SettledOf
<1> QED
  BY <1>1, <1>2

LEMMA SettledZero == ASSUME NEW d, NEW work PROVE Settled(d, work, 0) = d
<1>1. PICK g : Settles(d, work, 0, g) /\ Settled(d, work, 0) = g[0]
  BY SettledUnfolds
<1>2. g[0] = SettledOf(d, work, g, 0)
  BY <1>1 DEF Settles
<1> QED
  BY <1>1, <1>2 DEF SettledOf

LEMMA SettledNext ==
  ASSUME NEW d, NEW work, NEW n \in Nat
  PROVE  Settled(d, work, n + 1) = Apply(Settled(d, work, n), work[n + 1])
<1>1. PICK g : Settles(d, work, n, g) /\ Settled(d, work, n) = g[n]
  BY SettledUnfolds
<1>2. PICK h : Settles(d, work, n + 1, h) /\ Settled(d, work, n + 1) = h[n + 1]
  BY SettledUnfolds
<1>3. g[n] = h[n]
  BY <1>1, <1>2, SettlesAgree
<1>4. h[n + 1] = SettledOf(d, work, h, n + 1)
  BY <1>2 DEF Settles
<1>5. h[n + 1] = Apply(h[n], work[n + 1])
  BY <1>4 DEF SettledOf
<1> QED
  BY <1>1, <1>2, <1>3, <1>5

(* Work that does the same leaves the same behind.                         *)
Alike(o, p) == \A x : Apply(x, o) = Apply(x, p)
LEMMA SettledSame ==
  ASSUME NEW d, NEW v, NEW w, NEW N \in Nat, \A k \in 1 .. N : Alike(v[k], w[k])
  PROVE  Settled(d, v, N) = Settled(d, w, N)
<1> DEFINE G == {n \in Nat : n <= N => Settled(d, v, n) = Settled(d, w, n)}
<1>1. 0 \in G
  BY SettledZero
<1>2. ASSUME NEW n \in 0 .. N - 1, n \in G PROVE n + 1 \in G
  <2>1. n \in Nat /\ n + 1 \in 1 .. N /\ n <= N
    BY <1>2
  <2>2. Settled(d, v, n) = Settled(d, w, n)
    BY <1>2, <2>1
  <2>3. /\ Settled(d, v, n + 1) = Apply(Settled(d, v, n), v[n + 1])
        /\ Settled(d, w, n + 1) = Apply(Settled(d, w, n), w[n + 1])
    BY ONLY <2>1, SettledNext
  <2>4. Alike(v[n + 1], w[n + 1])
    BY <2>1
  <2> QED
    BY <2>1, <2>2, <2>3, <2>4 DEF Alike
<1> HIDE DEF G
<1>3. N \in G
  BY <1>1, <1>2, FromZero
<1> QED
  BY <1>3 DEF G

(* Working off the first piece of work changes nothing about the rest.     *)
Behind(v, w, N) == \A k \in 1 .. N : v[k] = w[k + 1]
LEMMA SettledShift ==
  ASSUME NEW d, NEW v, NEW w, NEW N \in Nat, Behind(v, w, N)
  PROVE  \A n \in 0 .. N : Settled(Apply(d, w[1]), v, n) = Settled(d, w, n + 1)
<1> SUFFICES ASSUME NEW M \in 0 .. N PROVE Settled(Apply(d, w[1]), v, M) = Settled(d, w, M + 1)
  OBVIOUS
<1> DEFINE e == Apply(d, w[1])
           G == {n \in Nat : n <= M => Settled(e, v, n) = Settled(d, w, n + 1)}
<1>1. 0 \in G
  <2>1. 0 \in Nat /\ 0 + 1 = 1
    OBVIOUS
  <2>2. Settled(d, w, 1) = Apply(Settled(d, w, 0), w[1])
    BY <2>1, SettledNext
  <2> QED
    BY <2>1, <2>2, SettledZero
<1> HIDE DEF e
<1>2. ASSUME NEW n \in 0 .. M - 1, n \in G PROVE n + 1 \in G
  <2>1. n \in Nat /\ n + 1 \in Nat /\ n + 1 \in 1 .. N /\ n <= M
    BY <1>2
  <2>2. Settled(e, v, n) = Settled(d, w, n + 1)
    BY <1>2, <2>1
  <2>3. /\ Settled(e, v, n + 1) = Apply(Settled(e, v, n), v[n + 1])
        /\ Settled(d, w, (n + 1) + 1) = Apply(Settled(d, w, n + 1), w[(n + 1) + 1])
    BY ONLY <2>1, SettledNext
  <2>4. v[n + 1] = w[(n + 1) + 1]
    BY <2>1 DEF Behind
  <2> QED
    BY <2>1, <2>2, <2>3, <2>4
<1> HIDE DEF G
<1>3. M \in Nat
  OBVIOUS
<1>4. M \in G
  BY <1>1, <1>2, <1>3, FromZero
<1> QED
  BY <1>3, <1>4 DEF G, e

(* Gained by its recursion.                                                *)
GainOf(notes, from, r, g, k) ==
  CASE k = 0 -> 0
    [] k > 0 /\ notes[k].serial >= from /\ r \in notes[k].batch -> g[k - 1] + notes[k].delta[r]
    [] OTHER -> g[k - 1]
Gain(notes, from, r, s, k) ==
  IF notes[k].serial >= from /\ r \in notes[k].batch THEN s + notes[k].delta[r] ELSE s
Gains(notes, from, r, N, g) == g = [k \in 0 .. N |-> GainOf(notes, from, r, g, k)]

LEMMA GainsExist ==
  ASSUME NEW notes, NEW from, NEW r, NEW N \in Nat
  PROVE  \E g : Gains(notes, from, r, N, g)
<1> DEFINE G == {m \in Nat : \E g : Gains(notes, from, r, m, g)}
<1>1. 0 \in G
  <2> DEFINE g == [k \in 0 .. 0 |-> 0]
  <2>1. \A k \in 0 .. 0 : GainOf(notes, from, r, g, k) = 0
    BY DEF GainOf, Gain
  <2>2. g = [k \in 0 .. 0 |-> GainOf(notes, from, r, g, k)]
    BY <2>1
  <2> HIDE DEF g
  <2> QED
    BY <2>2 DEF Gains
<1>2. ASSUME NEW m \in Nat, m \in G PROVE m + 1 \in G
  <2>1. PICK g : Gains(notes, from, r, m, g)
    BY <1>2
  <2> DEFINE h == [k \in 0 .. m + 1 |-> GainOf(notes, from, r, g, k)]
  <2>2. ASSUME NEW k \in 0 .. m + 1 PROVE GainOf(notes, from, r, g, k) = GainOf(notes, from, r, h, k)
    <3>1. CASE k = 0
      BY <3>1 DEF GainOf, Gain
    <3>2. CASE k > 0
      <4>1. k - 1 \in 0 .. m /\ k - 1 \in 0 .. m + 1
        BY <3>2
      <4>2. h[k - 1] = GainOf(notes, from, r, g, k - 1)
        BY <4>1
      <4>3. g[k - 1] = GainOf(notes, from, r, g, k - 1)
        BY <2>1, <4>1 DEF Gains
      <4> HIDE DEF h
      <4> QED
        BY <3>2, <4>2, <4>3 DEF GainOf, Gain
    <3> QED
      BY <3>1, <3>2
  <2>3. h = [k \in 0 .. m + 1 |-> GainOf(notes, from, r, h, k)]
    BY <2>2
  <2> HIDE DEF h
  <2> QED
    BY <2>3 DEF Gains
<1> HIDE DEF G
<1>3. N \in G
  BY <1>1, <1>2, FromZero
<1> QED
  BY <1>3 DEF G

LEMMA GainsAgree ==
  ASSUME NEW notes, NEW from, NEW r, NEW M \in Nat, NEW N \in Nat, M <= N,
         NEW g, Gains(notes, from, r, M, g), NEW h, Gains(notes, from, r, N, h)
  PROVE  g[M] = h[M]
<1> DEFINE G == {k \in Nat : k <= M => g[k] = h[k]}
<1>1. \A k \in 0 .. M : g[k] = GainOf(notes, from, r, g, k) /\ h[k] = GainOf(notes, from, r, h, k)
  <2>1. g = [k \in 0 .. M |-> GainOf(notes, from, r, g, k)] /\ h = [k \in 0 .. N |-> GainOf(notes, from, r, h, k)]
    BY Zenon DEF Gains
  <2>2. \A k \in 0 .. M : k \in 0 .. N
    OBVIOUS
  <2>3. ASSUME NEW k \in 0 .. M PROVE g[k] = GainOf(notes, from, r, g, k)
    BY <2>1
  <2>4. ASSUME NEW k \in 0 .. N PROVE h[k] = GainOf(notes, from, r, h, k)
    BY <2>1
  <2> QED
    BY <2>2, <2>3, <2>4
<1>2. 0 \in G
  <2>1. g[0] = GainOf(notes, from, r, g, 0) /\ h[0] = GainOf(notes, from, r, h, 0)
    BY <1>1
  <2> QED
    BY <2>1 DEF GainOf, Gain
<1>3. ASSUME NEW k \in 0 .. M - 1, k \in G PROVE k + 1 \in G
  <2>1. k + 1 \in 0 .. M /\ (k + 1) - 1 = k /\ k + 1 # 0
    BY <1>3
  <2>2. g[k + 1] = Gain(notes, from, r, g[(k + 1) - 1], k + 1) /\ h[k + 1] = Gain(notes, from, r, h[(k + 1) - 1], k + 1)
    BY <1>1, <2>1 DEF GainOf, Gain
  <2>3. g[k] = h[k]
    BY <1>3
  <2> QED
    BY <2>1, <2>2, <2>3
<1> HIDE DEF G
<1>4. M \in G
  BY <1>2, <1>3, FromZero
<1> QED
  BY <1>4 DEF G

LEMMA GainedUnfolds ==
  ASSUME NEW notes, NEW from, NEW r, NEW N \in Nat
  PROVE  \E g : Gains(notes, from, r, N, g) /\ Gained(notes, from, r, N) = g[N]
<1> DEFINE f == CHOOSE g : Gains(notes, from, r, N, g)
<1>1. Gains(notes, from, r, N, f)
  BY GainsExist, Zenon
<1>2. Gained(notes, from, r, N) = f[N]
  BY DEF Gained, Gains, GainOf
<1> QED
  BY <1>1, <1>2

LEMMA GainedSteps ==
  ASSUME NEW notes, NEW from, NEW r
  PROVE  /\ Gained(notes, from, r, 0) = 0
         /\ \A n \in Nat : Gained(notes, from, r, n + 1) = Gain(notes, from, r, Gained(notes, from, r, n), n + 1)
<1>1. Gained(notes, from, r, 0) = 0
  <2>1. PICK g : Gains(notes, from, r, 0, g) /\ Gained(notes, from, r, 0) = g[0]
    BY GainedUnfolds
  <2>2. g[0] = GainOf(notes, from, r, g, 0)
    BY <2>1 DEF Gains
  <2> QED
    BY <2>1, <2>2 DEF GainOf, Gain
<1>2. ASSUME NEW n \in Nat PROVE Gained(notes, from, r, n + 1) = Gain(notes, from, r, Gained(notes, from, r, n), n + 1)
  <2>1. PICK g : Gains(notes, from, r, n, g) /\ Gained(notes, from, r, n) = g[n]
    BY GainedUnfolds
  <2>2. PICK h : Gains(notes, from, r, n + 1, h) /\ Gained(notes, from, r, n + 1) = h[n + 1]
    BY GainedUnfolds
  <2>3. g[n] = h[n]
    BY <2>1, <2>2, GainsAgree
  <2>4. h[n + 1] = GainOf(notes, from, r, h, n + 1)
    BY <2>2 DEF Gains
  <2>5. h[n + 1] = Gain(notes, from, r, h[n], n + 1)
    BY <2>4 DEF GainOf, Gain
  <2> QED
    BY <2>1, <2>2, <2>3, <2>5
<1> QED
  BY <1>1, <1>2

(* Notes that gain the same give the same.                                 *)
LEMMA GainedSame ==
  ASSUME NEW v, NEW w, NEW from, NEW r, NEW N \in Nat, \A k \in 1 .. N : v[k] = w[k]
  PROVE  Gained(v, from, r, N) = Gained(w, from, r, N)
<1> DEFINE G == {n \in Nat : n <= N => Gained(v, from, r, n) = Gained(w, from, r, n)}
<1>1. 0 \in G
  BY GainedSteps
<1>2. ASSUME NEW n \in 0 .. N - 1, n \in G PROVE n + 1 \in G
  <2>1. n \in Nat /\ n + 1 \in 1 .. N /\ n <= N
    BY <1>2
  <2>2. Gained(v, from, r, n) = Gained(w, from, r, n)
    BY <1>2, <2>1
  <2>3. /\ Gained(v, from, r, n + 1) = Gain(v, from, r, Gained(v, from, r, n), n + 1)
        /\ Gained(w, from, r, n + 1) = Gain(w, from, r, Gained(w, from, r, n), n + 1)
    BY <2>1, GainedSteps
  <2>4. v[n + 1] = w[n + 1]
    BY <2>1
  <2> QED
    BY <2>1, <2>2, <2>3, <2>4 DEF Gain
<1> HIDE DEF G
<1>3. N \in G
  BY <1>1, <1>2, FromZero
<1> QED
  BY <1>3 DEF G

(* Notes of before do not count ...                                        *)
LEMMA GainedNothing ==
  ASSUME NEW w, NEW from, NEW r, NEW N \in Nat, \A k \in 1 .. N : ~(w[k].serial >= from)
  PROVE  Gained(w, from, r, N) = 0
<1> DEFINE G == {n \in Nat : n <= N => Gained(w, from, r, n) = 0}
<1>1. 0 \in G
  BY GainedSteps
<1>2. ASSUME NEW n \in 0 .. N - 1, n \in G PROVE n + 1 \in G
  <2>1. n \in Nat /\ n + 1 \in 1 .. N /\ n <= N
    BY <1>2
  <2>2. Gained(w, from, r, n) = 0
    BY <1>2, <2>1
  <2>3. Gained(w, from, r, n + 1) = Gain(w, from, r, Gained(w, from, r, n), n + 1)
    BY <2>1, GainedSteps
  <2>4. ~(w[n + 1].serial >= from)
    BY <2>1
  <2> QED
    BY <2>1, <2>2, <2>3, <2>4 DEF Gain
<1> HIDE DEF G
<1>3. N \in G
  BY <1>1, <1>2, FromZero
<1> QED
  BY <1>3 DEF G

(* ... and may be forgotten.                                               *)
Forgotten(v, w, from, N) ==
  N \in Nat /\ (\A k \in 1 .. N : v[k] = w[k + 1]) /\ ~(w[1].serial >= from)
LEMMA GainedShift ==
  ASSUME NEW v, NEW w, NEW from, NEW r, NEW N, Forgotten(v, w, from, N)
  PROVE  Gained(v, from, r, N) = Gained(w, from, r, N + 1)
<1>0. N \in Nat /\ (\A k \in 1 .. N : v[k] = w[k + 1]) /\ ~(w[1].serial >= from)
  BY DEF Forgotten
<1> DEFINE G == {n \in Nat : n <= N => Gained(v, from, r, n) = Gained(w, from, r, n + 1)}
<1>1. 0 \in G
  <2>1. Gained(w, from, r, 0 + 1) = Gain(w, from, r, Gained(w, from, r, 0), 0 + 1) /\ 0 + 1 = 1
    BY GainedSteps
  <2>2. Gained(w, from, r, 1) = 0
    BY <1>0, <2>1, GainedSteps DEF Gain
  <2> QED
    BY <2>1, <2>2, GainedSteps
<1>2. ASSUME NEW n \in 0 .. N - 1, n \in G PROVE n + 1 \in G
  <2>1. n \in Nat /\ n + 1 \in Nat /\ n + 1 \in 1 .. N /\ n <= N
    BY <1>0, <1>2
  <2>2. Gained(v, from, r, n) = Gained(w, from, r, n + 1)
    BY <1>2, <2>1
  <2>3. /\ Gained(v, from, r, n + 1) = Gain(v, from, r, Gained(v, from, r, n), n + 1)
        /\ Gained(w, from, r, (n + 1) + 1) = Gain(w, from, r, Gained(w, from, r, n + 1), (n + 1) + 1)
    BY <2>1, GainedSteps
  <2>4. v[n + 1] = w[(n + 1) + 1]
    BY <1>0, <2>1
  <2> QED
    BY <2>1, <2>2, <2>3, <2>4 DEF Gain
<1> HIDE DEF G
<1>3. N \in G
  BY <1>0, <1>1, <1>2, FromZero
<1> QED
  BY <1>0, <1>3 DEF G

(* The gain is a number of tokens.                                         *)
LEMMA GainedNat ==
  ASSUME NEW w, NEW from, NEW r, NEW N \in Nat, \A k \in 1 .. N : w[k].delta \in [w[k].batch -> Nat]
  PROVE  Gained(w, from, r, N) \in Nat
<1> DEFINE G == {n \in Nat : n <= N => Gained(w, from, r, n) \in Nat}
<1>1. 0 \in G
  BY GainedSteps
<1>2. ASSUME NEW n \in 0 .. N - 1, n \in G PROVE n + 1 \in G
  <2>1. n \in Nat /\ n + 1 \in 1 .. N /\ n <= N
    BY <1>2
  <2>2. Gained(w, from, r, n) \in Nat
    BY <1>2, <2>1
  <2>3. Gained(w, from, r, n + 1) = Gain(w, from, r, Gained(w, from, r, n), n + 1)
    BY <2>1, GainedSteps
  <2>4. r \in w[n + 1].batch => w[n + 1].delta[r] \in Nat
    BY <2>1
  <2>5. Gain(w, from, r, Gained(w, from, r, n), n + 1) \in Nat
    BY <2>2, <2>4 DEF Gain
  <2> QED
    BY <2>1, <2>3, <2>5
<1> HIDE DEF G
<1>3. N \in G
  BY <1>1, <1>2, FromZero
<1> QED
  BY <1>3 DEF G

-----------------------------------------------------------------------------
(* The inductive invariant, in parts.                                      *)
Counts == [StateRows -> Nat]
OpIs(op) ==
  \/ op.kind = "set" /\ op.row \in StateRows /\ op.val \in Nat
  \/ op.kind = "post" /\ op.val \in Counts
  \/ op.kind \in {"copy", "counts"} /\ op.val \in Nat
  \/ op.kind = "upload" /\ op.val \in {"intact", "spoiled"}
Ops == [kind : {"set"}, row : StateRows, val : Nat] \cup [kind : {"post"}, val : Counts]
       \cup [kind : {"copy", "counts"}, val : Nat] \cup [kind : {"upload"}, val : {"intact", "spoiled"}]
Notes == {n \in [serial : Nat, batch : SUBSET LensReqs, delta : UNION {[b -> Nat] : b \in SUBSET LensReqs}] :
            n.delta \in [n.batch -> Nat]}
Mark == [val : Nat \cup {-1}, serial : Nat \cup {-1}]

LensTypes ==
  /\ mirror \in {"early", "exact"} /\ active \in BOOLEAN /\ isReal \in BOOLEAN
  /\ stage \in {"idle", "update", "build", "plan", "sample"}
  /\ serial \in Nat /\ batch \subseteq LensReqs
  /\ rowOf \in [LensReqs -> StateRows \cup {Nowhere}] /\ staged \in [LensReqs -> Nat]
  /\ device \in Counts /\ stream \in Seq(Ops)
  /\ planned \in [LensReqs -> Nat] /\ plans \in Nat
  /\ added \subseteq LensReqs /\ snap \in Mark
  /\ ring \in [0 .. RingSlots - 1 -> Counts] /\ ringI \in Nat
  /\ tracker \in [LensReqs -> Mark]
  /\ records \in Seq(Notes) /\ Len(records) <= MaxRecords

(* How many steps have been sampled.                                       *)
Sampled == IF isReal /\ stage # "idle" THEN serial - 1 ELSE serial

(* A row belongs to one request, and a step's requests have rows.          *)
Rows ==
  /\ \A q, r \in LensReqs : rowOf[q] = rowOf[r] /\ rowOf[r] # Nowhere => q = r
  /\ \A r \in batch : rowOf[r] # Nowhere
  /\ stage = "idle" \/ ~isReal => batch = {}
  /\ stage \in {"update", "sample"} => isReal
  /\ isReal /\ stage # "idle" => serial > 0

(* Only early planning uploads, and what it finds in the stream when it    *)
(* does not fence its plans is done.                                       *)
Uploads ==
  /\ UploadsIntact
  /\ mirror = "exact" => Fence
  /\ stage = "plan" /\ ~active => Fence

(* early: a snapshot of the last sampled step holds the counts of every    *)
(* row but the ones that were set since, or it will when the device gets   *)
(* to its copy, which no other copy follows.                               *)
Fresh == mirror = "early" /\ snap # Unknown /\ snap.serial = Sampled
Agrees(counts, future, new, rows) ==
  \A i \in StateRows : counts[i] = future[i] \/ \E q \in new : rows[q] = i
Holds(counts) == Agrees(counts, Future, added, rowOf)
NoCopyAfter(k) == \A l \in 1 .. Len(stream) : l > k => stream[l].kind # "copy"
Copies(k) ==
  /\ stream[k].kind = "copy" /\ stream[k].val = snap.val
  /\ NoCopyAfter(k) /\ Holds(Settled(device, stream, k - 1))
Snapped ==
  \/ NoCopyAfter(0) /\ Holds(ring[snap.val % RingSlots])
  \/ \E k \in 1 .. Len(stream) : Copies(k)
AddedNow == \A r \in added : rowOf[r] # Nowhere /\ staged[r] = Future[rowOf[r]]
Snapshots ==
  /\ snap.serial <= Sampled /\ (snap # Unknown => snap.val \in Nat /\ snap.serial \in Nat)
  /\ Fresh => /\ added # {} => isReal /\ stage # "idle"
              /\ AddedNow /\ Snapped

(* exact: the registry's records are in order; and the last known count of *)
(* a request and what it gained since are its count, unless a step is      *)
(* missing or the request was added in this step.                          *)
Recorded == {records[k].serial : k \in 1 .. Len(records)}
NewNow(r) == isReal /\ stage \in {"update", "build"} /\ r \in added
Traced(r) ==
  /\ tracker[r].val \in Nat /\ tracker[r].serial \in Nat /\ tracker[r].serial <= Sampled + 1
  /\ tracker[r].serial .. Sampled \subseteq Recorded => Unfolded(r) = Future[rowOf[r]]
InOrder ==
  /\ \A k, l \in 1 .. Len(records) : k < l => records[k].serial < records[l].serial
  /\ \A k \in 1 .. Len(records) : records[k].serial <= Sampled
Registry == mirror = "exact" =>
  /\ InOrder
  /\ \A r \in LensReqs : rowOf[r] # Nowhere =>
       IF NewNow(r) THEN r \in batch /\ staged[r] = Future[rowOf[r]] ELSE Traced(r)
  /\ \A r \in added : isReal /\ stage \in {"update", "build"} => rowOf[r] # Nowhere

LensInv == LensTypes /\ Rows /\ Uploads /\ Snapshots /\ Registry /\ LensExact

-----------------------------------------------------------------------------
(* The device's work.                                                      *)
LEMMA LensConstants ==
  /\ RingSlots \in Nat \ {0} /\ MaxRecords \in Nat \ {0} /\ Nowhere \notin StateRows /\ Deltas \subseteq Nat
  /\ Starts \subseteq Nat /\ MaxPlans \in Nat \ {0} /\ MaxSteps \in Nat
  BY LensAssumption

LEMMA OpsAre == ASSUME NEW op \in Ops PROVE OpIs(op)
  BY DEF Ops, OpIs

(* What a piece of work does to the counts.                                *)
Does(d, op, e) ==
  /\ e \in Counts
  /\ op.kind = "set" => \A i \in StateRows : e[i] = IF i = op.row THEN op.val ELSE d[i]
  /\ op.kind = "post" => \A i \in StateRows : e[i] = d[i] + op.val[i]
  /\ op.kind \notin {"set", "post"} => e = d

LEMMA ApplyDoes ==
  ASSUME NEW op \in Ops, NEW d \in Counts
  PROVE  Does(d, op, Apply(d, op))
<1>1. OpIs(op)
  BY OpsAre
<1>2. CASE op.kind = "set" /\ op.row \in StateRows /\ op.val \in Nat
  <2>1. Apply(d, op) = [d EXCEPT ![op.row] = op.val]
    BY <1>2 DEF Apply
  <2>2. [d EXCEPT ![op.row] = op.val] \in Counts
    BY <1>2 DEF Counts
  <2>3. \A i \in StateRows : [d EXCEPT ![op.row] = op.val][i] = IF i = op.row THEN op.val ELSE d[i]
    BY DEF Counts
  <2> QED
    BY <1>2, <2>1, <2>2, <2>3 DEF Does
<1>3. CASE op.kind = "post" /\ op.val \in Counts
  <2>1. Apply(d, op) = [i \in StateRows |-> d[i] + op.val[i]]
    BY <1>3 DEF Apply
  <2>2. [i \in StateRows |-> d[i] + op.val[i]] \in Counts
    BY <1>3 DEF Counts
  <2> QED
    BY <1>3, <2>1, <2>2 DEF Does
<1>4. CASE op.kind \in {"copy", "counts", "upload"}
  BY <1>4 DEF Apply, Does
<1> QED
  BY <1>1, <1>2, <1>3, <1>4 DEF OpIs

LEMMA SettledCounts ==
  ASSUME NEW d \in Counts, NEW s \in Seq(Ops)
  PROVE  \A n \in 0 .. Len(s) : Settled(d, s, n) \in Counts
<1> SUFFICES ASSUME NEW N \in 0 .. Len(s) PROVE Settled(d, s, N) \in Counts
  OBVIOUS
<1> DEFINE G == {n \in Nat : n <= N => Settled(d, s, n) \in Counts}
<1>1. 0 \in G
  BY SettledZero
<1>2. ASSUME NEW n \in 0 .. N - 1, n \in G PROVE n + 1 \in G
  <2>1. n \in Nat /\ n + 1 \in 1 .. Len(s) /\ n <= N
    BY <1>2
  <2>2. Settled(d, s, n) \in Counts
    BY <1>2, <2>1
  <2>3. Settled(d, s, n + 1) = Apply(Settled(d, s, n), s[n + 1])
    BY <2>1, SettledNext
  <2>4. s[n + 1] \in Ops
    BY <2>1
  <2>5. Apply(Settled(d, s, n), s[n + 1]) \in Counts
    BY <2>2, <2>4, ApplyDoes DEF Does
  <2> QED
    BY <2>1, <2>3, <2>5
<1> HIDE DEF G
<1>3. N \in G
  BY <1>1, <1>2, FromZero
<1> QED
  BY <1>3 DEF G

(* What the counts will be does not depend on what comes behind.           *)
LEMMA SettledPrefix ==
  ASSUME NEW d, NEW s \in Seq(Ops), NEW t, \A k \in 1 .. Len(s) : t[k] = s[k]
  PROVE  \A n \in 0 .. Len(s) : Settled(d, t, n) = Settled(d, s, n)
<1> SUFFICES ASSUME NEW n \in 0 .. Len(s) PROVE Settled(d, t, n) = Settled(d, s, n)
  OBVIOUS
<1>1. n \in Nat /\ \A k \in 1 .. n : k \in 1 .. Len(s)
  OBVIOUS
<1>2. \A k \in 1 .. n : Alike(t[k], s[k])
  BY <1>1 DEF Alike
<1> QED
  BY <1>1, <1>2, SettledSame

(* More work behind what there is.                                         *)
LEMMA SettledMore ==
  ASSUME NEW d \in Counts, NEW s \in Seq(Ops), NEW op \in Ops
  PROVE  /\ Append(s, op) \in Seq(Ops) /\ Len(Append(s, op)) = Len(s) + 1 /\ Append(s, op)[Len(s) + 1] = op
         /\ Len(s) \in Nat
         /\ \A k \in 1 .. Len(s) : Append(s, op)[k] = s[k]
         /\ \A n \in 0 .. Len(s) : Settled(d, Append(s, op), n) = Settled(d, s, n)
         /\ Does(Settled(d, s, Len(s)), op, Settled(d, Append(s, op), Len(s) + 1))
<1> DEFINE t == Append(s, op)
<1>1. t \in Seq(Ops) /\ Len(t) = Len(s) + 1 /\ t[Len(s) + 1] = op /\ Len(s) \in Nat
      /\ \A k \in 1 .. Len(s) : t[k] = s[k]
  OBVIOUS
<1> HIDE DEF t
<1>2. \A n \in 0 .. Len(s) : Settled(d, t, n) = Settled(d, s, n)
  BY <1>1, SettledPrefix
<1>3. Settled(d, t, Len(s) + 1) = Apply(Settled(d, t, Len(s)), t[Len(s) + 1])
  BY <1>1, SettledNext
<1>4. Len(s) \in 0 .. Len(s)
  BY <1>1
<1>5. Settled(d, t, Len(s)) = Settled(d, s, Len(s)) /\ Settled(d, s, Len(s)) \in Counts
  BY <1>2, <1>4, SettledCounts
<1>6. Does(Settled(d, s, Len(s)), op, Apply(Settled(d, s, Len(s)), op))
  BY <1>5, ApplyDoes
<1> QED
  BY <1>1, <1>2, <1>3, <1>5, <1>6 DEF t

(* The sum over the requests of a row, of which there is at most one.      *)
Pick(s) == CHOOSE x \in s : TRUE
SumOf(f, g, s) == IF s = {} THEN 0 ELSE f[Pick(s)] + g[s \ {Pick(s)}]
Sums(f, S, g) == g = [s \in SUBSET S |-> SumOf(f, g, s)]
LEMMA SumUnfolds == ASSUME NEW f, NEW S PROVE SumFunctionOnSet(f, S) = (CHOOSE g : Sums(f, S, g))[S]
  BY DEF SumFunctionOnSet, FoldFunctionOnSet, MapThenFoldSet, SumOf, Sums, Pick

LEMMA SumRecurs ==
  ASSUME NEW d, NEW S, \E g : Sums(d, S, g)
  PROVE  \E g : Sums(d, S, g) /\ SumFunctionOnSet(d, S) = g[S]
<1> DEFINE f == CHOOSE g : Sums(d, S, g)
<1>1. Sums(d, S, f)
  BY Zenon
<1>2. SumFunctionOnSet(d, S) = f[S]
  BY SumUnfolds
<1> QED
  BY <1>1, <1>2

LEMMA SumOfNone == ASSUME NEW d PROVE SumFunctionOnSet(d, {}) = 0
<1> DEFINE g == [s \in SUBSET {} |-> 0]
<1>1. \A s \in SUBSET {} : SumOf(d, g, s) = 0
  BY DEF SumOf
<1>2. g = [s \in SUBSET {} |-> SumOf(d, g, s)]
  BY <1>1
<1> HIDE DEF g
<1>3. \E h : Sums(d, {}, h)
  BY <1>2 DEF Sums
<1>4. PICK h : Sums(d, {}, h) /\ SumFunctionOnSet(d, {}) = h[{}]
  BY <1>3, SumRecurs
<1>5. h[{}] = SumOf(d, h, {})
  BY <1>4 DEF Sums
<1> QED
  BY <1>4, <1>5 DEF SumOf

LEMMA SumOfOne == ASSUME NEW d, NEW q, d[q] \in Nat PROVE SumFunctionOnSet(d, {q}) = d[q]
<1> DEFINE g == [s \in SUBSET {q} |-> IF s = {} THEN 0 ELSE d[q]]
<1>1. Pick({q}) = q
  BY DEF Pick
<1>2. g[{}] = 0 /\ {q} # {} /\ {q} \ {q} = {}
  OBVIOUS
<1>3. ASSUME NEW s \in SUBSET {q} PROVE (IF s = {} THEN 0 ELSE d[q]) = SumOf(d, g, s)
  <2>1. CASE s = {}
    BY <2>1 DEF SumOf
  <2>2. CASE s = {q}
    <3> HIDE DEF g
    <3>1. SumOf(d, g, s) = d[q] + 0
      BY <1>1, <1>2, <2>2 DEF SumOf
    <3> QED
      BY <1>2, <2>2, <3>1
  <2> QED
    BY <2>1, <2>2
<1>4. g = [s \in SUBSET {q} |-> SumOf(d, g, s)]
  BY <1>3
<1> HIDE DEF g
<1>5. \E h : Sums(d, {q}, h)
  BY <1>4 DEF Sums
<1>6. PICK h : Sums(d, {q}, h) /\ SumFunctionOnSet(d, {q}) = h[{q}]
  BY <1>5, SumRecurs
<1>7. h[{}] = SumOf(d, h, {}) /\ h[{q}] = SumOf(d, h, {q})
  BY <1>6 DEF Sums
<1>8. {q} \ {q} = {}
  OBVIOUS
<1> QED
  BY <1>1, <1>6, <1>7, <1>8 DEF SumOf

-----------------------------------------------------------------------------
(* What the actions do to the stream, and to the counts at its end.        *)
Extends(n) ==
  /\ Len(stream') = Len(stream) + n /\ Len(stream) \in Nat /\ stream' \in Seq(Ops)
  /\ \A k \in 1 .. Len(stream) : stream'[k] = stream[k]
  /\ \A k \in 0 .. Len(stream) : Settled(device', stream', k) = Settled(device, stream, k)
StreamSame == Extends(0) /\ Future' = Future

LEMMA FutureIs ==
  ASSUME LensTypes
  PROVE  Future \in Counts /\ Len(stream) \in Nat /\ device \in Counts
         /\ \A k \in 0 .. Len(stream) : Settled(device, stream, k) \in Counts
<1>1. device \in Counts /\ stream \in Seq(Ops)
  BY DEF LensTypes
<1>2. Len(stream) \in Nat /\ Len(stream) \in 0 .. Len(stream)
  BY <1>1
<1> QED
  BY <1>1, <1>2, SettledCounts DEF Future

LEMMA Untouched ==
  ASSUME LensTypes, UNCHANGED gpu
  PROVE  StreamSame
<1>1. device' = device /\ stream' = stream /\ stream \in Seq(Ops)
  BY DEF gpu, LensTypes
<1>2. Future' = Future
  BY <1>1 DEF Future
<1> QED
  BY <1>1, <1>2 DEF StreamSame, Extends

(* The device works off the first piece.                                   *)
Works(op) ==
  /\ op \in Ops /\ op = stream[1] /\ stream' \in Seq(Ops) /\ device' \in Counts
  /\ Len(stream) = Len(stream') + 1 /\ Len(stream') \in Nat
  /\ \A k \in 1 .. Len(stream') : stream'[k] = stream[k + 1]
  /\ \A k \in 0 .. Len(stream') : Settled(device', stream', k) = Settled(device, stream, k + 1)
  /\ Future' = Future
  /\ ring' = IF op.kind = "copy" THEN [ring EXCEPT ![op.val % RingSlots] = device] ELSE ring

LEMMA DeviceStepDoes ==
  ASSUME LensTypes, DeviceStep
  PROVE  Works(Head(stream))
<1>1. device \in Counts /\ stream \in Seq(Ops) /\ stream # <<>>
  BY DEF LensTypes, DeviceStep
<1> DEFINE op == Head(stream)
<1>2. op \in Ops /\ op = stream[1] /\ stream' = Tail(stream) /\ device' = Apply(device, op)
      /\ ring' = IF op.kind = "copy" THEN [ring EXCEPT ![op.val % RingSlots] = device] ELSE ring
  BY <1>1 DEF DeviceStep
<1> HIDE DEF op
<1>3. /\ stream' \in Seq(Ops) /\ Len(stream) = Len(stream') + 1 /\ Len(stream') \in Nat
      /\ \A k \in 1 .. Len(stream') : stream'[k] = stream[k + 1]
  BY <1>1, <1>2
<1>4. device' \in Counts
  BY <1>1, <1>2, ApplyDoes DEF Does
<1>5. \A k \in 0 .. Len(stream') : Settled(Apply(device, stream[1]), stream', k) = Settled(device, stream, k + 1)
  <2>1. PICK N, v : N = Len(stream') /\ v = stream'
    OBVIOUS
  <2>2. N \in Nat /\ Behind(v, stream, N)
    BY <1>3, <2>1 DEF Behind
  <2>3. \A k \in 0 .. N : Settled(Apply(device, stream[1]), v, k) = Settled(device, stream, k + 1)
    BY ONLY <2>2, SettledShift
  <2> QED
    BY <2>1, <2>3, Zenon
<1>6. \A k \in 0 .. Len(stream') : Settled(device', stream', k) = Settled(device, stream, k + 1)
  BY <1>2, <1>5
<1>7. Future' = Future
  BY <1>3, <1>6 DEF Future
<1> QED
  BY <1>2, <1>3, <1>4, <1>6, <1>7 DEF Works, op

(* A new request's count is behind all that is enqueued.                   *)
LEMMA AddDoes ==
  ASSUME LensTypes, NEW r, NEW i \in StateRows, NEW n \in Starts, Add(r, i, n)
  PROVE  /\ Extends(1) /\ Future' \in Counts /\ device' = device
         /\ stream'[Len(stream) + 1].kind = "set"
         /\ \A j \in StateRows : Future'[j] = IF j = i THEN n ELSE Future[j]
<1> DEFINE op == [kind |-> "set", row |-> i, val |-> n]
<1>1. device \in Counts /\ stream \in Seq(Ops) /\ stream' = Append(stream, op) /\ device' = device
  BY DEF LensTypes, Add
<1>2. op \in Ops /\ op.kind = "set" /\ op.row = i /\ op.val = n
  BY LensConstants DEF Ops
<1> HIDE DEF op
<1>3. /\ stream' \in Seq(Ops) /\ Len(stream') = Len(stream) + 1 /\ stream'[Len(stream) + 1] = op
      /\ Len(stream) \in Nat
      /\ \A k \in 1 .. Len(stream) : stream'[k] = stream[k]
      /\ \A k \in 0 .. Len(stream) : Settled(device, stream', k) = Settled(device, stream, k)
      /\ Does(Settled(device, stream, Len(stream)), op, Settled(device, stream', Len(stream) + 1))
  BY <1>1, <1>2, SettledMore
<1>4. Future' = Settled(device, stream', Len(stream) + 1)
  BY <1>1, <1>3 DEF Future
<1> QED
  BY <1>1, <1>2, <1>3, <1>4 DEF Extends, Does, Future

(* As no upload is there to be spoiled, a plan at most adds its own.       *)
LEMMA PlanDoes ==
  ASSUME LensTypes, Uploads, Plan
  PROVE  \/ StreamSame
         \/ /\ mirror = "early" /\ active /\ Extends(1) /\ Future' = Future
            /\ stream'[Len(stream) + 1] = [kind |-> "upload", val |-> "intact"]
<1>1. device \in Counts /\ stream \in Seq(Ops) /\ mirror \in {"early", "exact"} /\ active \in BOOLEAN
      /\ device' = device
  BY DEF LensTypes, Plan
<1>2. Fence
  BY <1>1 DEF Uploads, Plan, Fenced
<1>3. Spoiled = stream
  <2>1. \A k \in 1 .. Len(stream) : stream[k].kind # "upload"
    BY <1>2 DEF Fence
  <2>2. Spoiled = [k \in 1 .. Len(stream) |-> stream[k]]
    BY <2>1 DEF Spoiled
  <2> QED
    BY <1>1, <2>2
<1>4. CASE ~Fenced
  <2>1. UNCHANGED gpu
    BY <1>1, <1>3, <1>4 DEF Plan, gpu
  <2> QED
    BY <2>1, Untouched
<1>5. CASE Fenced
  <2> DEFINE op == [kind |-> "upload", val |-> "intact"]
  <2>1. stream' = Append(stream, op)
    BY <1>3, <1>5 DEF Plan
  <2>2. op \in Ops /\ op.kind = "upload"
    BY DEF Ops
  <2> HIDE DEF op
  <2>3. /\ stream' \in Seq(Ops) /\ Len(stream') = Len(stream) + 1 /\ stream'[Len(stream) + 1] = op
        /\ Len(stream) \in Nat
        /\ \A k \in 1 .. Len(stream) : stream'[k] = stream[k]
        /\ \A k \in 0 .. Len(stream) : Settled(device, stream', k) = Settled(device, stream, k)
        /\ Does(Settled(device, stream, Len(stream)), op, Settled(device, stream', Len(stream) + 1))
    BY <1>1, <2>1, <2>2, SettledMore
  <2>4. Future' = Future
    BY <1>1, <2>2, <2>3 DEF Future, Does
  <2> QED
    BY <1>1, <1>5, <2>3, <2>4 DEF Extends, op, Fenced
<1> QED
  BY <1>4, <1>5
(* A sampled step adds its tokens, and asks for a copy if it can.          *)
Posted(d) == [i \in StateRows |-> SumFunctionOnSet(d, {r \in batch : rowOf[r] = i})]
GainNow(d, r) == IF r \in batch THEN d[r] ELSE 0

LEMMA PostedIs ==
  ASSUME LensTypes, Rows, NEW d \in [batch -> Deltas]
  PROVE  /\ Posted(d) \in Counts
         /\ \A r \in LensReqs : rowOf[r] # Nowhere => Posted(d)[rowOf[r]] = GainNow(d, r)
<1>1. \A r \in batch : d[r] \in Nat
  BY LensConstants
<1>2. batch \subseteq LensReqs /\ rowOf \in [LensReqs -> StateRows \cup {Nowhere}]
  BY DEF LensTypes
<1>3. ASSUME NEW i \in StateRows
      PROVE  /\ SumFunctionOnSet(d, {r \in batch : rowOf[r] = i}) \in Nat
             /\ \A r \in LensReqs : rowOf[r] = i =>
                  SumFunctionOnSet(d, {q \in batch : rowOf[q] = i}) = GainNow(d, r)
  <2>1. i # Nowhere
    BY LensConstants
  <2>2. CASE {r \in batch : rowOf[r] = i} = {}
    BY <2>2, SumOfNone DEF GainNow
  <2>3. CASE {r \in batch : rowOf[r] = i} # {}
    <3>1. PICK q \in batch : rowOf[q] = i
      BY <2>3
    <3>2. \A r \in LensReqs : rowOf[r] = i => r = q
      BY <1>2, <2>1, <3>1 DEF Rows
    <3>3. {r \in batch : rowOf[r] = i} = {q}
      BY <1>2, <3>1, <3>2
    <3>4. SumFunctionOnSet(d, {q}) = d[q]
      BY <1>1, <3>1, SumOfOne
    <3> QED
      BY <1>1, <3>1, <3>2, <3>3, <3>4 DEF GainNow
  <2> QED
    BY <2>2, <2>3
<1>4. Posted(d) \in Counts
  BY <1>3 DEF Posted, Counts
<1> QED
  BY <1>2, <1>3, <1>4 DEF Posted

(* The stream ends with the copy that the snapshot waits for.              *)
EndsWithCopy ==
  /\ Len(stream') = Len(stream) + 2
  /\ stream'[Len(stream) + 2] = [kind |-> "copy", val |-> ringI]
  /\ Settled(device', stream', Len(stream) + 1) = Future'
Samples(d, ok) ==
  /\ stream' \in Seq(Ops) /\ device' = device /\ Future' \in Counts /\ Len(stream') >= Len(stream)
  /\ \A k \in 1 .. Len(stream) : stream'[k] = stream[k]
  /\ \A k \in 1 .. Len(stream') : k > Len(stream) => stream'[k].kind # "upload"
  /\ \A r \in LensReqs : rowOf[r] # Nowhere => Future'[rowOf[r]] = Future[rowOf[r]] + GainNow(d, r)
  /\ mirror = "early" /\ active /\ ok => EndsWithCopy

LEMMA SampleDoes ==
  ASSUME LensTypes, Rows, NEW d \in [batch -> Deltas], NEW ok \in BOOLEAN, Sample(d, ok)
  PROVE  Samples(d, ok)
<1> DEFINE post == [kind |-> "post", val |-> Posted(d)]
           more == IF mirror = "early" THEN [kind |-> "copy", val |-> ringI] ELSE [kind |-> "counts", val |-> serial]
           mid == Append(stream, post)
<1>1. /\ device \in Counts /\ stream \in Seq(Ops) /\ device' = device
      /\ rowOf \in [LensReqs -> StateRows \cup {Nowhere}]
      /\ mirror \in {"early", "exact"} /\ ringI \in Nat /\ serial \in Nat
  BY DEF LensTypes, Sample
<1>2. post \in Ops /\ post.kind = "post" /\ post.val = Posted(d)
  BY PostedIs DEF Ops
<1>3. more \in Ops /\ more.kind \in {"copy", "counts"}
  BY <1>1 DEF Ops
<1>4. stream' = IF mirror = "early" /\ ~(active /\ ok) THEN mid ELSE Append(mid, more)
  <2>1. \A op : stream \o <<post>> = mid /\ mid \o <<op>> = Append(mid, op) /\ mid \o <<>> = mid
    BY <1>1, <1>2
  <2>2. stream' = stream \o <<post>>
          \o (IF mirror = "early" /\ ~(active /\ ok) THEN <<>>
              ELSE IF mirror = "early" THEN <<[kind |-> "copy", val |-> ringI]>>
              ELSE <<[kind |-> "counts", val |-> serial]>>)
    BY DEF Sample, Posted
  <2> HIDE DEF post, mid
  <2> QED
    BY <1>1, <2>1, <2>2
<1>5. mirror = "early" => more = [kind |-> "copy", val |-> ringI]
  OBVIOUS
<1> HIDE DEF post, more
<1>6. /\ mid \in Seq(Ops) /\ Len(mid) = Len(stream) + 1 /\ mid[Len(stream) + 1] = post
      /\ Len(stream) \in Nat
      /\ \A k \in 1 .. Len(stream) : mid[k] = stream[k]
      /\ \A k \in 0 .. Len(stream) : Settled(device, mid, k) = Settled(device, stream, k)
      /\ Does(Settled(device, stream, Len(stream)), post, Settled(device, mid, Len(stream) + 1))
  BY <1>1, <1>2, SettledMore
<1> HIDE DEF mid
<1> DEFINE late == Settled(device, mid, Len(stream) + 1)
           long == Append(mid, more)
<1>7. late \in Counts /\ \A i \in StateRows : late[i] = Future[i] + Posted(d)[i]
  BY <1>2, <1>6 DEF Does, Future
<1>8. /\ long \in Seq(Ops) /\ Len(long) = Len(stream) + 2 /\ long[Len(stream) + 2] = more
      /\ \A k \in 1 .. Len(mid) : long[k] = mid[k]
      /\ \A k \in 0 .. Len(mid) : Settled(device, long, k) = Settled(device, mid, k)
      /\ Does(Settled(device, mid, Len(mid)), more, Settled(device, long, Len(mid) + 1))
  BY <1>1, <1>3, <1>6, SettledMore
<1>9. Settled(device, long, Len(stream) + 1) = late /\ Settled(device, long, Len(stream) + 2) = late
  BY <1>3, <1>6, <1>8 DEF Does
<1> HIDE DEF long
<1>10. Future' = late
  BY <1>1, <1>4, <1>6, <1>8, <1>9 DEF Future, long
<1>11. \A r \in LensReqs : rowOf[r] # Nowhere => late[rowOf[r]] = Future[rowOf[r]] + GainNow(d, r)
  BY <1>1, <1>7, PostedIs
<1> HIDE DEF late
<1>12. CASE mirror = "early" /\ ~(active /\ ok)
  BY <1>1, <1>2, <1>4, <1>6, <1>7, <1>10, <1>11, <1>12 DEF Samples
<1>13. CASE ~(mirror = "early" /\ ~(active /\ ok))
  <2>1. stream' = long
    BY <1>4, <1>13 DEF long
  <2>2. \A k \in 1 .. Len(stream) : long[k] = stream[k]
    BY <1>6, <1>8
  <2>3. ASSUME NEW k \in 1 .. Len(long), k > Len(stream) PROVE long[k].kind # "upload"
    <3>1. k = Len(stream) + 1 \/ k = Len(stream) + 2
      BY <1>6, <1>8, <2>3
    <3>2. long[Len(stream) + 1] = post
      BY <1>6, <1>8
    <3> QED
      BY <1>2, <1>3, <1>8, <3>1, <3>2
  <2>4. mirror = "early" => EndsWithCopy
    BY <1>1, <1>5, <1>8, <1>9, <1>10, <2>1 DEF EndsWithCopy
  <2>5. Len(long) >= Len(stream)
    BY <1>6, <1>8
  <2> QED
    BY <1>1, <1>7, <1>8, <1>10, <1>11, <2>1, <2>2, <2>3, <2>4, <2>5 DEF Samples
<1> QED
  BY <1>12, <1>13
-----------------------------------------------------------------------------
(* What a step is planned on.                                              *)
Planned == [r \in LensReqs |-> IF r \in batch THEN Future[rowOf[r]] ELSE 0]

LEMMA BatchIsReal ==
  ASSUME LensTypes, Rows, stage \in {"build", "plan"}, batch # {}
  PROVE  isReal /\ Sampled = serial - 1 /\ serial \in Nat
  BY DEF LensTypes, Rows, Sampled

LEMMA RowsIn ==
  ASSUME LensTypes
  PROVE  \A r \in LensReqs : rowOf[r] # Nowhere => rowOf[r] \in StateRows
  BY DEF LensTypes

LEMMA EarlyPlans ==
  ASSUME LensTypes, Rows, Snapshots, stage = "build", Early, SnapshotDone, NEW r \in batch
  PROVE  Bases[r] = Future[rowOf[r]]
<1>1. r \in LensReqs /\ rowOf[r] # Nowhere /\ rowOf[r] \in StateRows
  BY RowsIn DEF LensTypes, Rows
<1>2. mirror = "early" /\ isReal /\ snap # Unknown /\ snap.serial = serial - 1
  BY DEF Early, HasSnapshot
<1>3. AddedNow /\ Snapped
  <2>1. Sampled = serial - 1
    BY <1>2 DEF Sampled
  <2> QED
    BY <1>2, <2>1 DEF Snapshots, Fresh
<1>4. \A k \in 1 .. Len(stream) : ~Copies(k)
  BY DEF SnapshotDone, Pending, Copies
<1>5. Holds(ring[snap.val % RingSlots])
  BY <1>3, <1>4 DEF Snapped
<1>6. CASE r \in added
  BY <1>1, <1>3, <1>6 DEF Bases, AddedNow
<1>7. CASE r \notin added
  <2>1. \A q \in added : rowOf[q] # rowOf[r]
    BY <1>1, <1>7 DEF Rows, LensTypes
  <2>2. ring[snap.val % RingSlots][rowOf[r]] = Future[rowOf[r]]
    BY <1>1, <1>5, <2>1 DEF Holds, Agrees
  <2> QED
    BY <1>1, <1>7, <2>2 DEF Bases
<1> QED
  BY <1>6, <1>7

LEMMA ExactPlans ==
  ASSUME LensTypes, Rows, Registry, stage = "build", Exact, NEW r \in batch
  PROVE  Values[r] = Future[rowOf[r]]
<1>1. r \in LensReqs /\ rowOf[r] # Nowhere
  BY DEF LensTypes, Rows
<1>2. mirror = "exact" /\ isReal /\ (r \in added \/ Known(r))
  BY DEF Exact
<1>3. CASE r \in added
  <2>1. NewNow(r)
    BY <1>2, <1>3 DEF NewNow
  <2> QED
    BY <1>1, <1>2, <1>3, <2>1 DEF Registry, Values
<1>4. CASE r \notin added
  <2>1. Traced(r)
    BY <1>1, <1>2, <1>4 DEF Registry, NewNow
  <2>2. tracker[r].serial .. Sampled \subseteq Recorded
    <3>1. Sampled = serial - 1
      BY <1>2 DEF Sampled
    <3>2. {records[k].serial : k \in Since(r)} \subseteq Recorded
      BY DEF Since, Recorded
    <3> QED
      BY <1>2, <1>4, <3>1, <3>2 DEF Known, NoGap
  <2>3. Unfolded(r) = Future[rowOf[r]]
    BY <2>1, <2>2 DEF Traced
  <2> QED
    BY <1>1, <1>4, <2>3 DEF Values
<1> QED
  BY <1>3, <1>4

LEMMA BuildPlans ==
  ASSUME LensTypes, Rows, Snapshots, Registry, Build
  PROVE  planned' = Planned
<1>1. stage = "build"
  BY DEF Build
<1>2. CASE Early /\ SnapshotDone /\ planned' = Bases
  <2>1. \A r \in batch : Bases[r] = Future[rowOf[r]]
    BY <1>1, <1>2, EarlyPlans
  <2>2. \A r \in LensReqs : Bases[r] = IF r \in batch THEN Future[rowOf[r]] ELSE 0
    BY <2>1 DEF Bases
  <2>3. Bases = [r \in LensReqs |-> Bases[r]]
    BY DEF Bases
  <2> QED
    BY <1>2, <2>2, <2>3 DEF Planned
<1>3. CASE Exact /\ planned' = Values
  <2>1. \A r \in batch : Values[r] = Future[rowOf[r]]
    BY <1>1, <1>3, ExactPlans
  <2>2. \A r \in LensReqs : Values[r] = IF r \in batch THEN Future[rowOf[r]] ELSE 0
    BY <2>1 DEF Values
  <2>3. Values = [r \in LensReqs |-> Values[r]]
    BY DEF Values
  <2> QED
    BY <1>3, <2>2, <2>3 DEF Planned
<1>4. CASE stream = <<>> /\ planned' = [r \in LensReqs |-> IF r \in batch THEN device[rowOf[r]] ELSE 0]
  <2>1. Len(stream) = 0
    BY <1>4
  <2>2. Future = device
    BY <2>1, SettledZero DEF Future
  <2> QED
    BY <1>4, <2>2 DEF Planned
<1> QED
  BY <1>2, <1>3, <1>4 DEF Build

LEMMA PlannedIs ==
  ASSUME LensTypes, Rows
  PROVE  Planned \in [LensReqs -> Nat] /\ \A r \in batch : Planned[r] = Future[rowOf[r]]
<1>1. Future \in Counts /\ batch \subseteq LensReqs
  BY FutureIs DEF LensTypes
<1>2. \A r \in batch : rowOf[r] \in StateRows
  BY <1>1, RowsIn DEF Rows
<1> QED
  BY <1>1, <1>2 DEF Planned, Counts

-----------------------------------------------------------------------------
(* The types.                                                              *)
Recent(all) == SubSeq(all, Max({1, Len(all) - MaxRecords + 1}), Len(all))

LEMMA MaxOfTwo ==
  ASSUME NEW m \in Int
  PROVE  Max({1, m}) = IF m <= 1 THEN 1 ELSE m
<1> DEFINE x == IF m <= 1 THEN 1 ELSE m
<1>1. x \in {1, m} /\ \A y \in {1, m} : x >= y
  OBVIOUS
<1>2. \A z : z \in {1, m} /\ (\A y \in {1, m} : z >= y) => z = x
  OBVIOUS
<1> HIDE DEF x
<1>3. (CHOOSE z \in {1, m} : \A y \in {1, m} : z >= y) = x
  BY <1>1, <1>2
<1> QED
  BY <1>3 DEF Max, x

(* The deque forgets at most its oldest record.                            *)
Forgets(all, out) ==
  /\ out \in Seq(Notes) /\ Len(all) \in Nat
  /\ \/ out = all /\ Len(all) <= MaxRecords
     \/ /\ Len(all) = MaxRecords + 1 /\ Len(out) = MaxRecords
        /\ \A k \in 1 .. Len(out) : out[k] = all[k + 1]
LEMMA RecentIs ==
  ASSUME NEW all \in Seq(Notes), Len(all) \in 1 .. MaxRecords + 1
  PROVE  Forgets(all, Recent(all))
<1>1. MaxRecords \in Nat /\ MaxRecords >= 1 /\ Len(all) \in Nat /\ Len(all) >= 1
  BY LensConstants
<1>2. CASE Len(all) <= MaxRecords
  <2>1. Max({1, Len(all) - MaxRecords + 1}) = 1
    BY <1>1, <1>2, MaxOfTwo
  <2>2. SubSeq(all, 1, Len(all)) = all
    BY <1>1
  <2> QED
    BY <1>1, <1>2, <2>1, <2>2 DEF Recent, Forgets
<1>3. CASE Len(all) = MaxRecords + 1
  <2>1. Max({1, Len(all) - MaxRecords + 1}) = 2
    BY <1>1, <1>3, MaxOfTwo
  <2>2. SubSeq(all, 2, Len(all)) \in Seq(Notes) /\ Len(SubSeq(all, 2, Len(all))) = MaxRecords
        /\ \A k \in 1 .. MaxRecords : SubSeq(all, 2, Len(all))[k] = all[k + 1]
    BY <1>1, <1>3
  <2> QED
    BY <1>1, <1>3, <2>1, <2>2 DEF Recent, Forgets
<1> QED
  BY <1>1, <1>2, <1>3
LEMMA NoteIs ==
  ASSUME NEW s \in Nat, NEW b \in SUBSET LensReqs, NEW d \in [b -> Deltas]
  PROVE  [serial |-> s, batch |-> b, delta |-> d] \in Notes
<1>1. d \in [b -> Nat]
  BY LensConstants
<1>2. d \in UNION {[c -> Nat] : c \in SUBSET LensReqs}
  BY <1>1
<1> QED
  BY <1>1, <1>2 DEF Notes

(* What the registry becomes.                                              *)
Note(d) == [serial |-> serial, batch |-> batch, delta |-> d]
LEMMA NoteSampleDoes ==
  ASSUME LensTypes, NEW d \in [batch -> Deltas], NEW ok \in BOOLEAN, NoteSample(ok, d)
  PROVE  /\ Note(d) \in Notes /\ Append(records, Note(d)) \in Seq(Notes)
         /\ IF ok THEN Forgets(Append(records, Note(d)), records') ELSE records' = records
         /\ records' \in Seq(Notes) /\ Len(records') <= MaxRecords
<1>1. serial \in Nat /\ batch \in SUBSET LensReqs /\ records \in Seq(Notes) /\ Len(records) <= MaxRecords
  BY DEF LensTypes
<1>2. Note(d) \in Notes
  BY <1>1, NoteIs DEF Note
<1> DEFINE all == Append(records, Note(d))
<1>3. all \in Seq(Notes) /\ Len(all) = Len(records) + 1 /\ Len(records) \in Nat
  BY <1>1, <1>2
<1>4. records' = IF ok THEN Recent(all) ELSE records
  BY DEF NoteSample, Recent, Note
<1> HIDE DEF all
<1>5. Len(all) \in 1 .. MaxRecords + 1
  BY <1>1, <1>3, LensConstants
<1>6. Forgets(all, Recent(all))
  BY <1>3, <1>5, RecentIs
<1>7. Recent(all) \in Seq(Notes) /\ Len(Recent(all)) <= MaxRecords
  BY <1>6, LensConstants DEF Forgets
<1> QED
  BY <1>1, <1>2, <1>3, <1>4, <1>6, <1>7 DEF all

LEMMA StepTypes ==
  ASSUME LensTypes, Rows, Uploads, Snapshots, Registry, [LensNext]_lensVars
  PROVE  LensTypes'
<1> USE LensConstants
<1>1. CASE DeviceStep
  <2>1. Works(Head(stream))
    BY <1>1, DeviceStepDoes
  <2>2. ring' \in [0 .. RingSlots - 1 -> Counts]
    BY <2>1 DEF Works, LensTypes
  <2>3. stream' \in Seq(Ops) /\ device' \in Counts
    BY <2>1 DEF Works
  <2> QED
    BY <1>1, <2>2, <2>3 DEF LensTypes, DeviceStep, runner, plan
<1>2. ASSUME NEW q \in BOOLEAN, BeginStep(q) PROVE LensTypes'
  BY <1>2 DEF LensTypes, BeginStep, gpu
<1>3. ASSUME NEW r \in LensReqs, NEW i \in StateRows, NEW n \in Starts, Add(r, i, n) PROVE LensTypes'
  <2>1. stream' \in Seq(Ops)
    BY <1>3, AddDoes DEF Extends
  <2>2. n \in Nat
    OBVIOUS
  <2> QED
    BY <1>3, <2>1, <2>2 DEF LensTypes, Add, plan
<1>4. ASSUME NEW b \in SUBSET LensReqs, Prepare(b) PROVE LensTypes'
  BY <1>4 DEF LensTypes, Prepare, gpu, plan, registry
<1>5. CASE Build
  <2>1. planned' \in [LensReqs -> Nat]
    BY <1>5, BuildPlans, PlannedIs
  <2>2. tracker' \in [LensReqs -> Mark]
    <3>1. tracker \in [LensReqs -> Mark] /\ serial \in Nat
      BY DEF LensTypes
    <3>2. \A r \in LensReqs : [val |-> planned'[r], serial |-> serial] \in Mark
      BY <2>1, <3>1 DEF Mark
    <3>3. tracker' = Anchored(planned')
      BY <1>5 DEF Build
    <3> QED
      BY <3>1, <3>2, <3>3 DEF Anchored
  <2> QED
    BY <1>5, <2>1, <2>2 DEF LensTypes, Build, gpu
<1>6. CASE Plan
  <2>1. stream' \in Seq(Ops)
    BY <1>6, PlanDoes DEF StreamSame, Extends
  <2> QED
    BY <1>6, <2>1 DEF LensTypes, Plan, runner, registry
<1>7. CASE Forward
  BY <1>7 DEF LensTypes, Forward, gpu, registry
<1>8. ASSUME NEW d \in [batch -> Deltas], NEW ok \in BOOLEAN, Sample(d, ok) PROVE LensTypes'
  <2>1. stream' \in Seq(Ops) /\ device' \in Counts
    BY <1>8, SampleDoes DEF Samples, LensTypes
  <2>2. /\ snap' \in Mark /\ ringI' \in Nat /\ added' \subseteq LensReqs
        /\ records' \in Seq(Notes) /\ Len(records') <= MaxRecords
    <3>1. snap \in Mark /\ ringI \in Nat /\ added \subseteq LensReqs /\ serial \in Nat
          /\ records \in Seq(Notes) /\ Len(records) <= MaxRecords
      BY DEF LensTypes
    <3>2. CASE Snapshot(ok)
      BY <3>1, <3>2 DEF Snapshot, Mark, Unknown, Consumed
    <3>3. CASE NoteSample(ok, d)
      <4>1. UNCHANGED <<snap, ringI, added>>
        BY <3>3 DEF NoteSample
      <4> QED
        BY <3>1, <3>3, <4>1, NoteSampleDoes
    <3> QED
      BY <1>8, <3>2, <3>3 DEF Sample
  <2>3. stage' = "idle" /\ batch' = {}
        /\ UNCHANGED <<mirror, active, isReal, serial, rowOf, staged, planned, plans, ring, tracker>>
    BY <1>8 DEF Sample, plan
  <2> QED
    BY <2>1, <2>2, <2>3 DEF LensTypes
<1>9. ASSUME NEW r \in LensReqs, Leave(r) PROVE LensTypes'
  BY <1>9 DEF LensTypes, Leave, gpu, plan, registry
<1>10. CASE SwitchEarly
  BY <1>10 DEF LensTypes, SwitchEarly, runner, gpu, plan, registry
<1>11. CASE UNCHANGED lensVars
  BY <1>11 DEF LensTypes, lensVars, runner, gpu, plan, registry
<1> QED
  BY <1>1, <1>2, <1>3, <1>4, <1>5, <1>6, <1>7, <1>8, <1>9, <1>10, <1>11 DEF LensNext

-----------------------------------------------------------------------------
(* The rows.                                                               *)
LEMMA StepRows ==
  ASSUME LensTypes, Rows, Uploads, Snapshots, Registry, [LensNext]_lensVars
  PROVE  Rows'
<1>1. CASE DeviceStep
  BY <1>1 DEF Rows, DeviceStep, runner
<1>2. ASSUME NEW q \in BOOLEAN, BeginStep(q) PROVE Rows'
  BY <1>2 DEF LensTypes, Rows, BeginStep
<1>3. ASSUME NEW r \in LensReqs, NEW i \in StateRows, NEW n \in Starts, Add(r, i, n) PROVE Rows'
  BY <1>3, LensConstants DEF LensTypes, Rows, Add
<1>4. ASSUME NEW b \in SUBSET LensReqs, Prepare(b) PROVE Rows'
  BY <1>4 DEF Rows, Prepare
<1>5. CASE Build
  BY <1>5 DEF Rows, Build
<1>6. CASE Plan
  BY <1>6 DEF Rows, Plan, runner
<1>7. CASE Forward
  BY <1>7 DEF Rows, Forward
<1>8. ASSUME NEW d \in [batch -> Deltas], NEW ok \in BOOLEAN, Sample(d, ok) PROVE Rows'
  <2>1. stage' = "idle" /\ batch' = {} /\ UNCHANGED <<isReal, serial, rowOf>>
    BY <1>8 DEF Sample
  <2> QED
    BY <2>1 DEF Rows
<1>9. ASSUME NEW r \in LensReqs, Leave(r) PROVE Rows'
  BY <1>9 DEF LensTypes, Rows, Leave
<1>10. CASE SwitchEarly
  BY <1>10 DEF Rows, SwitchEarly, runner
<1>11. CASE UNCHANGED lensVars
  BY <1>11 DEF Rows, lensVars, runner
<1> QED
  BY <1>1, <1>2, <1>3, <1>4, <1>5, <1>6, <1>7, <1>8, <1>9, <1>10, <1>11 DEF LensNext

(* The uploads.                                                            *)
LEMMA StepUploads ==
  ASSUME LensTypes, Rows, Uploads, Snapshots, Registry, [LensNext]_lensVars
  PROVE  Uploads'
<1> USE DEF Uploads, UploadsIntact, Fence
<1>1. CASE DeviceStep
  <2>1. Works(Head(stream))
    BY <1>1, DeviceStepDoes
  <2>2. \A k \in 1 .. Len(stream') : stream'[k] = stream[k + 1] /\ k + 1 \in 1 .. Len(stream)
    BY <2>1 DEF Works
  <2>3. UNCHANGED <<mirror, active, stage>>
    BY <1>1 DEF DeviceStep, runner
  <2> QED
    BY <2>2, <2>3
<1>2. ASSUME NEW q \in BOOLEAN, BeginStep(q) PROVE Uploads'
  BY <1>2 DEF BeginStep, gpu
<1>3. ASSUME NEW r \in LensReqs, NEW i \in StateRows, NEW n \in Starts, Add(r, i, n) PROVE Uploads'
  <2>1. \A k \in 1 .. Len(stream') : stream'[k].kind = "set" \/ (k \in 1 .. Len(stream) /\ stream'[k] = stream[k])
    <3>1. Extends(1) /\ stream'[Len(stream) + 1].kind = "set"
      BY <1>3, AddDoes
    <3>2. \A k \in 1 .. Len(stream') : k \in 1 .. Len(stream) \/ k = Len(stream) + 1
      BY <3>1 DEF Extends
    <3> QED
      BY <3>1, <3>2 DEF Extends
  <2>2. UNCHANGED <<mirror, active, stage>> /\ stage # "plan"
    BY <1>3 DEF Add
  <2> QED
    BY <2>1, <2>2
<1>4. ASSUME NEW b \in SUBSET LensReqs, Prepare(b) PROVE Uploads'
  BY <1>4 DEF Prepare, gpu
<1>5. CASE Build
  <2>1. UNCHANGED <<mirror, active, stream>>
    BY <1>5 DEF Build, gpu
  <2>2. ~active /\ mirror = "early" => stream = <<>>
    BY <1>5 DEF Build, Early, Exact
  <2>3. mirror \in {"early", "exact"}
    BY DEF LensTypes
  <2> QED
    BY <2>1, <2>2, <2>3
<1>6. CASE Plan
  <2>1. UNCHANGED <<mirror, active, stage>>
    BY <1>6 DEF Plan, runner
  <2>2. CASE StreamSame
    <3>1. \A k \in 1 .. Len(stream') : k \in 1 .. Len(stream) /\ stream'[k] = stream[k]
      BY <2>2 DEF StreamSame, Extends
    <3> QED
      BY <2>1, <3>1
  <2>3. CASE mirror = "early" /\ active /\ Extends(1)
             /\ stream'[Len(stream) + 1] = [kind |-> "upload", val |-> "intact"]
    <3>1. \A k \in 1 .. Len(stream') : stream'[k].val = "intact" \/ (k \in 1 .. Len(stream) /\ stream'[k] = stream[k])
      <4>1. \A k \in 1 .. Len(stream') : k \in 1 .. Len(stream) \/ k = Len(stream) + 1
        BY <2>3 DEF Extends
      <4> QED
        BY <2>3, <4>1 DEF Extends
    <3> QED
      BY <2>1, <2>3, <3>1
  <2> QED
    BY <1>6, <2>2, <2>3, PlanDoes
<1>7. CASE Forward
  BY <1>7 DEF Forward, gpu
<1>8. ASSUME NEW d \in [batch -> Deltas], NEW ok \in BOOLEAN, Sample(d, ok) PROVE Uploads'
  <2>1. stage' = "idle" /\ UNCHANGED mirror
    BY <1>8 DEF Sample
  <2>2. Samples(d, ok) /\ stream \in Seq(Ops)
    BY <1>8, SampleDoes DEF LensTypes
  <2>3. \A k \in 1 .. Len(stream') : stream'[k].kind # "upload" \/ (k \in 1 .. Len(stream) /\ stream'[k] = stream[k])
    <3>1. Len(stream) \in Nat /\ Len(stream') \in Nat
      BY <2>2 DEF Samples
    <3>2. \A k \in 1 .. Len(stream') : k \in 1 .. Len(stream) \/ k > Len(stream)
      BY <3>1
    <3> QED
      BY <2>2, <3>2 DEF Samples
  <2> QED
    BY <2>1, <2>3
<1>9. ASSUME NEW r \in LensReqs, Leave(r) PROVE Uploads'
  BY <1>9 DEF Leave, gpu
<1>10. CASE SwitchEarly
  BY <1>10 DEF SwitchEarly, runner, gpu
<1>11. CASE UNCHANGED lensVars
  BY <1>11 DEF lensVars, runner, gpu
<1> QED
  BY <1>1, <1>2, <1>3, <1>4, <1>5, <1>6, <1>7, <1>8, <1>9, <1>10, <1>11 DEF LensNext
-----------------------------------------------------------------------------
(* The counts that a step is planned on.                                   *)
LEMMA StepExact ==
  ASSUME LensTypes, Rows, Uploads, Snapshots, Registry, LensExact, [LensNext]_lensVars
  PROVE  LensExact'
<1>1. SUFFICES ASSUME stage' = "plan" PROVE \A r \in batch' : planned'[r] = Future'[rowOf'[r]]
  BY DEF LensExact
<1>2. CASE Build
  <2>1. planned' = Planned /\ UNCHANGED gpu /\ UNCHANGED <<batch, rowOf>>
    BY <1>2, BuildPlans DEF Build
  <2>2. Future' = Future
    BY <2>1, Untouched DEF StreamSame
  <2> QED
    BY <2>1, <2>2, PlannedIs
<1>3. CASE stage = "plan" /\ Future' = Future /\ UNCHANGED <<batch, planned, rowOf>>
  BY <1>3 DEF LensExact
<1>4. CASE DeviceStep
  <2>1. Future' = Future
    BY <1>4, DeviceStepDoes DEF Works
  <2>2. UNCHANGED <<stage, batch, planned, rowOf>>
    BY <1>4 DEF DeviceStep, runner, plan
  <2> QED
    BY <1>1, <1>3, <2>1, <2>2
<1>5. CASE Plan
  <2>1. Future' = Future
    BY <1>5, PlanDoes DEF StreamSame
  <2>2. UNCHANGED <<stage, batch, planned, rowOf>>
    BY <1>5 DEF Plan, runner
  <2> QED
    BY <1>1, <1>3, <2>1, <2>2
<1>6. CASE UNCHANGED lensVars
  <2>1. UNCHANGED <<stage, batch, planned, rowOf>> /\ UNCHANGED gpu
    BY <1>6 DEF lensVars, runner, plan
  <2>2. Future' = Future
    BY <2>1, Untouched DEF StreamSame
  <2> QED
    BY <1>1, <1>3, <2>1, <2>2
<1>7. ASSUME NEW q \in BOOLEAN, BeginStep(q) PROVE FALSE
  BY <1>1, <1>7 DEF BeginStep
<1>8. ASSUME NEW r \in LensReqs, NEW i \in StateRows, NEW n \in Starts, Add(r, i, n) PROVE FALSE
  BY <1>1, <1>8 DEF Add
<1>9. ASSUME NEW b \in SUBSET LensReqs, Prepare(b) PROVE FALSE
  BY <1>1, <1>9 DEF Prepare
<1>10. CASE Forward
  BY <1>1, <1>10 DEF Forward
<1>11. ASSUME NEW d \in [batch -> Deltas], NEW ok \in BOOLEAN, Sample(d, ok) PROVE FALSE
  BY <1>1, <1>11 DEF Sample
<1>12. ASSUME NEW r \in LensReqs, Leave(r) PROVE FALSE
  BY <1>1, <1>12 DEF Leave
<1>13. CASE SwitchEarly
  BY <1>1, <1>13 DEF SwitchEarly, runner
<1> QED
  BY <1>2, <1>4, <1>5, <1>6, <1>7, <1>8, <1>9, <1>10, <1>11, <1>12, <1>13 DEF LensNext

-----------------------------------------------------------------------------
(* The snapshots.                                                          *)

(* What a step does that leaves the last snapshot as it is.                *)
Kept ==
  /\ UNCHANGED <<mirror, snap>> /\ Sampled' = Sampled
  /\ added' = added
  /\ Fresh /\ added # {} => UNCHANGED <<staged, rowOf>> /\ isReal' /\ stage' # "idle"
  /\ Future' = Future

LEMMA KeptAgrees ==
  ASSUME Kept, Fresh, NEW c, Agrees(c, Future, added, rowOf)
  PROVE  Agrees(c, Future', added', rowOf')
<1>1. CASE added = {}
  BY <1>1 DEF Kept, Agrees
<1>2. CASE added # {}
  BY <1>2 DEF Kept
<1> QED
  BY <1>1, <1>2

(* Work that is no copy comes behind.                                      *)
LEMMA MoreWork ==
  ASSUME LensTypes, NEW n \in Nat, Extends(n), UNCHANGED <<snap, ring>>, Snapped,
         \A k \in 1 .. Len(stream') : k > Len(stream) => stream'[k].kind # "copy",
         \A c : Agrees(c, Future, added, rowOf) => Agrees(c, Future', added', rowOf')
  PROVE  Snapped'
<1>1. Len(stream) \in Nat /\ Len(stream') \in Nat /\ Len(stream) <= Len(stream')
  BY DEF Extends
<1>2. \A k \in 1 .. Len(stream') : k \in 1 .. Len(stream) \/ k > Len(stream)
  BY <1>1
<1>3. \A k \in 1 .. Len(stream) : stream'[k] = stream[k] /\ k \in 1 .. Len(stream')
  BY <1>1 DEF Extends
<1>4. \A k \in 0 .. Len(stream) : NoCopyAfter(k) => NoCopyAfter(k)'
  BY <1>2, <1>3 DEF NoCopyAfter
<1>5. CASE NoCopyAfter(0) /\ Holds(ring[snap.val % RingSlots])
  <2>1. NoCopyAfter(0)'
    BY <1>1, <1>4, <1>5
  <2>2. Agrees(ring'[snap'.val % RingSlots], Future', added', rowOf')
    BY <1>5 DEF Holds
  <2> QED
    BY <2>1, <2>2 DEF Snapped, Holds
<1>6. CASE \E k \in 1 .. Len(stream) : Copies(k)
  <2>1. PICK k \in 1 .. Len(stream) : Copies(k)
    BY <1>6
  <2>2. k - 1 \in 0 .. Len(stream) /\ k \in 0 .. Len(stream)
    BY <1>1
  <2>3. Settled(device', stream', k - 1) = Settled(device, stream, k - 1)
    BY <2>2 DEF Extends
  <2>4. Agrees(Settled(device', stream', k - 1), Future', added', rowOf')
    BY <2>1, <2>3 DEF Copies, Holds
  <2>5. stream'[k].kind = "copy" /\ stream'[k].val = snap'.val /\ NoCopyAfter(k)'
    BY <1>3, <1>4, <2>1, <2>2 DEF Copies
  <2>6. Copies(k)'
    BY <2>4, <2>5 DEF Copies, Holds
  <2> QED
    BY <1>3, <2>6 DEF Snapped
<1> QED
  BY <1>5, <1>6 DEF Snapped

(* The device works off a piece: if it is the copy, it arrives.            *)
LEMMA LessWork ==
  ASSUME LensTypes, NEW op, Works(op), UNCHANGED snap, snap.val \in Nat, Snapped,
         \A c : Agrees(c, Future, added, rowOf) => Agrees(c, Future', added', rowOf')
  PROVE  Snapped'
<1>1. Len(stream) = Len(stream') + 1 /\ Len(stream') \in Nat /\ op = stream[1]
  BY DEF Works
<1>2. \A k \in 1 .. Len(stream') : stream'[k] = stream[k + 1] /\ k + 1 \in 1 .. Len(stream)
  BY <1>1 DEF Works
<1>3. \A k \in 0 .. Len(stream') : NoCopyAfter(k + 1) => NoCopyAfter(k)'
  BY <1>1, <1>2 DEF NoCopyAfter
<1>4. CASE NoCopyAfter(0) /\ Holds(ring[snap.val % RingSlots])
  <2>1. op.kind # "copy"
    BY <1>1, <1>4 DEF NoCopyAfter
  <2>2. NoCopyAfter(0 + 1)
    BY <1>4 DEF NoCopyAfter
  <2>3. NoCopyAfter(0)'
    BY <1>1, <1>3, <2>2
  <2>4. ring' = ring
    BY <2>1 DEF Works
  <2>5. Agrees(ring'[snap'.val % RingSlots], Future', added', rowOf')
    BY <1>4, <2>4 DEF Holds
  <2> QED
    BY <2>3, <2>5 DEF Snapped, Holds
<1>5. ASSUME Copies(1) PROVE Snapped'
  <2>1. op.kind = "copy" /\ op.val = snap.val /\ NoCopyAfter(1) /\ Holds(Settled(device, stream, 1 - 1))
    BY <1>1, <1>5 DEF Copies
  <2>2. Holds(device)
    <3>1. 1 - 1 = 0
      OBVIOUS
    <3> QED
      BY <2>1, <3>1, SettledZero
  <2>3. NoCopyAfter(0)'
    BY <1>1, <1>3, <2>1
  <2>4. ring' = [ring EXCEPT ![snap.val % RingSlots] = device]
    BY <2>1 DEF Works
  <2>5. snap.val % RingSlots \in 0 .. RingSlots - 1
    BY LensConstants
  <2>6. ring'[snap'.val % RingSlots] = device
    BY <2>4, <2>5 DEF LensTypes
  <2>7. Agrees(ring'[snap'.val % RingSlots], Future', added', rowOf')
    BY <2>2, <2>6 DEF Holds
  <2> QED
    BY <2>3, <2>7 DEF Snapped, Holds
<1>6. ASSUME NEW k \in 1 .. Len(stream), k # 1, Copies(k) PROVE Snapped'
  <2> DEFINE l == k - 1
  <2>1. l \in 1 .. Len(stream') /\ l - 1 \in 0 .. Len(stream') /\ l \in 0 .. Len(stream') /\ l + 1 = k
        /\ (l - 1) + 1 = k - 1
    BY <1>1, <1>6
  <2>2. Settled(device', stream', l - 1) = Settled(device, stream, (l - 1) + 1)
    BY <2>1 DEF Works
  <2>3. Agrees(Settled(device', stream', l - 1), Future', added', rowOf')
    BY <1>6, <2>1, <2>2 DEF Copies, Holds
  <2>4. stream'[l].kind = "copy" /\ stream'[l].val = snap'.val /\ NoCopyAfter(l)'
    BY <1>2, <1>3, <1>6, <2>1 DEF Copies
  <2> HIDE DEF l
  <2>5. Copies(l)'
    BY <2>3, <2>4 DEF Copies, Holds
  <2> QED
    BY <2>1, <2>5 DEF Snapped
<1> QED
  BY <1>4, <1>5, <1>6 DEF Snapped

LEMMA KeptSnapshots ==
  ASSUME LensTypes, Snapshots, Kept, Fresh /\ Snapped => Snapped'
  PROVE  Snapshots'
<1>1. snap' = snap /\ snap'.serial <= Sampled' /\ (snap' # Unknown => snap'.val \in Nat /\ snap'.serial \in Nat)
  BY DEF Kept, Snapshots
<1>2. Fresh' => Fresh
  BY DEF Kept, Fresh
<1>3. Fresh => (added' # {} => isReal' /\ stage' # "idle") /\ AddedNow' /\ Snapped'
  <2> SUFFICES ASSUME Fresh PROVE (added' # {} => isReal' /\ stage' # "idle") /\ AddedNow' /\ Snapped'
    OBVIOUS
  <2>1. added # {} => isReal /\ stage # "idle"
    BY DEF Snapshots
  <2>2. AddedNow'
    <3>1. CASE added = {}
      BY <3>1 DEF Kept, AddedNow
    <3>2. CASE added # {}
      BY <3>2 DEF Kept, AddedNow, Snapshots
    <3> QED
      BY <3>1, <3>2
  <2>3. added' # {} => isReal' /\ stage' # "idle"
    BY <2>1 DEF Kept
  <2> QED
    BY <2>2, <2>3 DEF Snapshots
<1> QED
  BY <1>1, <1>2, <1>3 DEF Snapshots
LEMMA StaleSnapshots ==
  ASSUME LensTypes, Snapshots, snap' = snap, Sampled' \in Int, Sampled' >= Sampled,
         mirror' # "early" \/ Sampled' > Sampled
  PROVE  Snapshots'
<1>1. snap.serial <= Sampled /\ snap.serial \in Int /\ Sampled \in Int
  BY DEF LensTypes, Snapshots, Mark, Sampled
<1>2. ~Fresh'
  BY <1>1 DEF Fresh
<1> QED
  BY <1>1, <1>2 DEF Snapshots

(* Only sampling ends a step.                                              *)
LEMMA SampledStays ==
  ASSUME LensTypes, Rows, [LensNext]_lensVars
  PROVE  IF \E d \in [batch -> Deltas], ok \in BOOLEAN : Sample(d, ok)
         THEN Sampled' = Sampled + 1 /\ Sampled' = serial /\ Sampled \in Int
         ELSE Sampled' = Sampled
<1> USE DEF Sampled
<1>1. serial \in Nat
  BY DEF LensTypes
<1>2. CASE \E d \in [batch -> Deltas], ok \in BOOLEAN : Sample(d, ok)
  <2>1. stage = "sample" /\ stage' = "idle" /\ UNCHANGED <<isReal, serial>>
    BY <1>2 DEF Sample
  <2>2. isReal
    BY <2>1 DEF Rows
  <2> QED
    BY <1>1, <1>2, <2>1, <2>2
<1>3. CASE ~\E d \in [batch -> Deltas], ok \in BOOLEAN : Sample(d, ok)
  <2> SUFFICES Sampled' = Sampled
    BY <1>3
  <2>1. CASE DeviceStep
    BY <2>1 DEF DeviceStep, runner
  <2>2. ASSUME NEW q \in BOOLEAN, BeginStep(q) PROVE Sampled' = Sampled
    BY <1>1, <2>2 DEF BeginStep
  <2>3. ASSUME NEW r \in LensReqs, NEW i \in StateRows, NEW n \in Starts, Add(r, i, n) PROVE Sampled' = Sampled
    BY <2>3 DEF Add
  <2>4. ASSUME NEW b \in SUBSET LensReqs, Prepare(b) PROVE Sampled' = Sampled
    BY <2>4 DEF Prepare
  <2>5. CASE Build
    BY <2>5 DEF Build
  <2>6. CASE Plan
    BY <2>6 DEF Plan, runner
  <2>7. CASE Forward
    BY <2>7 DEF Forward
  <2>8. ASSUME NEW r \in LensReqs, Leave(r) PROVE Sampled' = Sampled
    BY <2>8 DEF Leave
  <2>9. CASE SwitchEarly
    BY <2>9 DEF SwitchEarly, runner
  <2>10. CASE UNCHANGED lensVars
    BY <2>10 DEF lensVars, runner
  <2> QED
    BY <1>3, <2>1, <2>2, <2>3, <2>4, <2>5, <2>6, <2>7, <2>8, <2>9, <2>10 DEF LensNext
<1> QED
  BY <1>2, <1>3

(* What happens behind the snapshot's copy leaves it as it is.             *)
LEMMA KeptMore ==
  ASSUME LensTypes, Snapshots, Kept, NEW n \in Nat, Extends(n), UNCHANGED ring,
         \A k \in 1 .. Len(stream') : k > Len(stream) => stream'[k].kind # "copy"
  PROVE  Snapshots'
<1>1. ASSUME Fresh, Snapped PROVE Snapped'
  <2>1. UNCHANGED <<snap, ring>>
    BY DEF Kept
  <2>2. \A c : Agrees(c, Future, added, rowOf) => Agrees(c, Future', added', rowOf')
    BY <1>1, KeptAgrees
  <2> QED
    BY <1>1, <2>1, <2>2, MoreWork
<1> QED
  BY <1>1, KeptSnapshots

LEMMA KeptSame ==
  ASSUME LensTypes, Snapshots, Kept, StreamSame, UNCHANGED ring
  PROVE  Snapshots'
<1>1. Extends(0) /\ 0 \in Nat
  BY DEF StreamSame
<1>2. Len(stream') = Len(stream) /\ Len(stream) \in Nat
  BY <1>1 DEF Extends
<1>3. \A k \in 1 .. Len(stream') : ~(k > Len(stream))
  BY <1>2
<1> QED
  BY <1>1, <1>3, KeptMore

LEMMA DeviceSnapshots ==
  ASSUME LensTypes, Snapshots, DeviceStep, Sampled' = Sampled
  PROVE  Snapshots'
<1>1. Works(Head(stream))
  BY DeviceStepDoes
<1>2. Kept
  BY <1>1 DEF Kept, Works, DeviceStep, runner, Snapshots
<1>3. ASSUME Fresh, Snapped PROVE Snapped'
  <2>1. UNCHANGED snap
    BY <1>2 DEF Kept
  <2>2. \A c : Agrees(c, Future, added, rowOf) => Agrees(c, Future', added', rowOf')
    BY <1>2, <1>3, KeptAgrees
  <2>3. snap.val \in Nat
    BY <1>3 DEF Snapshots, Fresh
  <2> QED
    BY <1>1, <1>3, <2>1, <2>2, <2>3, LessWork
<1> QED
  BY <1>2, <1>3, KeptSnapshots

LEMMA AddSnapshots ==
  ASSUME LensTypes, Rows, Snapshots, NEW r \in LensReqs, NEW i \in StateRows, NEW n \in Starts, Add(r, i, n),
         Sampled' = Sampled
  PROVE  Snapshots'
<1>1. /\ Extends(1) /\ stream'[Len(stream) + 1].kind = "set"
      /\ \A j \in StateRows : Future'[j] = IF j = i THEN n ELSE Future[j]
  BY AddDoes
<1>2. /\ UNCHANGED <<mirror, snap, ring, isReal, stage>> /\ added' = added \cup {r}
      /\ stage = "update" /\ rowOf[r] = Nowhere /\ (\A q \in LensReqs : rowOf[q] # i)
      /\ added \subseteq LensReqs
      /\ \A q \in LensReqs : rowOf'[q] = IF q = r THEN i ELSE rowOf[q]
      /\ \A q \in LensReqs : staged'[q] = IF q = r THEN n ELSE staged[q]
  BY DEF LensTypes, Add
<1>3. isReal /\ i # Nowhere
  BY <1>2, LensConstants DEF Rows
<1>4. snap' = snap /\ snap'.serial <= Sampled' /\ (snap' # Unknown => snap'.val \in Nat /\ snap'.serial \in Nat)
  BY <1>2 DEF Snapshots
<1>5. ASSUME Fresh PROVE AddedNow' /\ Snapped'
  <2>1. AddedNow /\ Snapped
    BY <1>5 DEF Snapshots
  <2>2. AddedNow'
    <3> SUFFICES ASSUME NEW q \in added' PROVE rowOf'[q] # Nowhere /\ staged'[q] = Future'[rowOf'[q]]
      BY DEF AddedNow
    <3>1. CASE q = r
      BY <1>1, <1>2, <1>3, <3>1
    <3>2. CASE q # r
      <4>1. q \in added /\ q \in LensReqs /\ rowOf[q] # Nowhere /\ rowOf[q] # i /\ staged[q] = Future[rowOf[q]]
        BY <1>2, <2>1, <3>2 DEF AddedNow
      <4>2. rowOf[q] \in StateRows
        BY <4>1, RowsIn
      <4> QED
        BY <1>1, <1>2, <3>2, <4>1, <4>2
    <3> QED
      BY <3>1, <3>2
  <2>3. ASSUME NEW c, Agrees(c, Future, added, rowOf) PROVE Agrees(c, Future', added', rowOf')
    <3> SUFFICES ASSUME NEW j \in StateRows PROVE c[j] = Future'[j] \/ \E q \in added' : rowOf'[q] = j
      BY DEF Agrees
    <3>1. CASE j = i
      BY <1>2, <3>1
    <3>2. CASE j # i
      <4>1. c[j] = Future[j] \/ \E q \in added : rowOf[q] = j
        BY <2>3 DEF Agrees
      <4>2. \A q \in added : rowOf'[q] = rowOf[q] \/ rowOf[q] = Nowhere
        BY <1>2
      <4> QED
        BY <1>1, <1>2, <3>2, <4>1, <4>2, LensConstants
    <3> QED
      BY <3>1, <3>2
  <2>4. \A k \in 1 .. Len(stream') : k > Len(stream) => stream'[k].kind # "copy"
    <3>1. \A k \in 1 .. Len(stream') : k > Len(stream) => k = Len(stream) + 1
      BY <1>1 DEF Extends
    <3> QED
      BY <1>1, <3>1
  <2>5. Snapped'
    BY <1>1, <1>2, <2>1, <2>3, <2>4, MoreWork
  <2> QED
    BY <2>2, <2>5
<1>6. Fresh' => Fresh
  BY <1>2 DEF Fresh
<1> QED
  BY <1>2, <1>3, <1>4, <1>5, <1>6 DEF Snapshots

LEMMA SampleSnapshots ==
  ASSUME LensTypes, Rows, Snapshots, NEW d \in [batch -> Deltas], NEW ok \in BOOLEAN, Sample(d, ok),
         Sampled' = Sampled + 1, Sampled' = serial, Sampled \in Int
  PROVE  Snapshots'
<1>1. Samples(d, ok) /\ mirror' = mirror
  BY SampleDoes DEF Sample
<1>2. CASE mirror = "early" /\ active /\ ok
  <2>1. snap' = [serial |-> serial, val |-> ringI] /\ added' = {}
    BY <1>2 DEF Sample, Snapshot, NoteSample, Consumed
  <2>2. serial \in Nat /\ ringI \in Nat
    BY DEF LensTypes
  <2>3. EndsWithCopy /\ Len(stream) \in Nat
    BY <1>1, <1>2, FutureIs DEF Samples
  <2>4. PICK k \in Nat : k = Len(stream) + 2
    BY <2>3
  <2>5. Snapped'
    <3>1. Len(stream') = k /\ stream'[k] = [kind |-> "copy", val |-> ringI] /\ k \in 1 .. Len(stream')
          /\ Settled(device', stream', k - 1) = Future'
      BY <2>3, <2>4 DEF EndsWithCopy
    <3>2. NoCopyAfter(k)'
      BY <3>1, <2>4 DEF NoCopyAfter
    <3>3. Agrees(Settled(device', stream', k - 1), Future', added', rowOf')
      BY <3>1 DEF Agrees
    <3>4. Copies(k)'
      BY <2>1, <3>1, <3>2, <3>3 DEF Copies, Holds
    <3> QED
      BY <3>1, <3>4 DEF Snapped
  <2>6. AddedNow'
    BY <2>1 DEF AddedNow
  <2> QED
    BY <2>1, <2>2, <2>5, <2>6 DEF Snapshots
<1>3. CASE snap' = snap
  BY <1>3, StaleSnapshots
<1>4. CASE snap' = Unknown
  <2>1. serial \in Nat
    BY DEF LensTypes
  <2>2. ~Fresh' /\ snap'.serial <= Sampled'
    BY <1>4, <2>1 DEF Fresh, Unknown
  <2> QED
    BY <1>4, <2>2 DEF Snapshots
<1> QED
  BY <1>2, <1>3, <1>4 DEF Sample, Snapshot, NoteSample

LEMMA StepSnapshots ==
  ASSUME LensTypes, Rows, Uploads, Snapshots, Registry, [LensNext]_lensVars
  PROVE  Snapshots'
<1> DEFINE Samples0 == \E d \in [batch -> Deltas], ok \in BOOLEAN : Sample(d, ok)
<1>1. IF Samples0 THEN Sampled' = Sampled + 1 /\ Sampled' = serial /\ Sampled \in Int ELSE Sampled' = Sampled
  BY SampledStays
<1>2. CASE Samples0
  BY <1>1, <1>2, SampleSnapshots
<1>3. CASE ~Samples0
  <2> HIDE DEF Samples0
  <2>1. Sampled' = Sampled /\ Sampled \in Int
    BY <1>1, <1>3 DEF LensTypes, Sampled
  <2>2. Fresh /\ added # {} => isReal /\ stage # "idle"
    BY DEF Snapshots
  <2>3. CASE DeviceStep
    BY <2>1, <2>3, DeviceSnapshots
  <2>4. ASSUME NEW q \in BOOLEAN, BeginStep(q) PROVE Snapshots'
    <3>1. UNCHANGED gpu /\ UNCHANGED <<mirror, snap, ring, rowOf, staged>> /\ stage = "idle"
      BY <2>4 DEF BeginStep
    <3>2. CASE mirror = "exact"
      BY <2>1, <3>1, <3>2, StaleSnapshots
    <3>3. CASE mirror # "exact"
      <4>1. added' = added
        BY <2>4, <3>3 DEF BeginStep
      <4>2. StreamSame
        BY <3>1, Untouched
      <4>3. Kept
        BY <2>1, <2>2, <3>1, <4>1, <4>2 DEF Kept, StreamSame
      <4> QED
        BY <3>1, <4>2, <4>3, KeptSame
    <3> QED
      BY <3>2, <3>3
  <2>5. ASSUME NEW r \in LensReqs, NEW i \in StateRows, NEW n \in Starts, Add(r, i, n) PROVE Snapshots'
    BY <2>1, <2>5, AddSnapshots
  <2>6. CASE Plan
    <3>1. UNCHANGED <<mirror, snap, ring, added, staged, rowOf, isReal, stage>>
      BY <2>6 DEF Plan, runner, registry
    <3>2. Future' = Future
      BY <2>6, PlanDoes DEF StreamSame
    <3>3. Kept
      BY <2>1, <2>2, <3>1, <3>2 DEF Kept
    <3>4. CASE StreamSame
      BY <3>1, <3>3, <3>4, KeptSame
    <3>5. CASE Extends(1) /\ stream'[Len(stream) + 1] = [kind |-> "upload", val |-> "intact"]
      <4>1. \A k \in 1 .. Len(stream') : k > Len(stream) => k = Len(stream) + 1
        BY <3>5 DEF Extends
      <4>2. \A k \in 1 .. Len(stream') : k > Len(stream) => stream'[k].kind # "copy"
        BY <3>5, <4>1
      <4> QED
        BY <3>1, <3>3, <3>5, <4>2, KeptMore
    <3> QED
      BY <2>6, <3>4, <3>5, PlanDoes
  <2>7. ASSUME UNCHANGED gpu, UNCHANGED <<mirror, snap, ring, added>>,
               Fresh /\ added # {} => UNCHANGED <<staged, rowOf>> /\ isReal' /\ stage' # "idle"
        PROVE  Snapshots'
    <3>1. StreamSame
      BY <2>7, Untouched
    <3>2. Kept
      BY <2>1, <2>7, <3>1 DEF Kept, StreamSame
    <3> QED
      BY <2>7, <3>1, <3>2, KeptSame
  <2>8. ASSUME NEW b \in SUBSET LensReqs, Prepare(b) PROVE Snapshots'
    BY <2>2, <2>7, <2>8 DEF Prepare, registry
  <2>9. CASE Build
    BY <2>2, <2>7, <2>9 DEF Build
  <2>10. CASE Forward
    BY <2>2, <2>7, <2>10 DEF Forward, registry
  <2>11. ASSUME NEW r \in LensReqs, Leave(r) PROVE Snapshots'
    BY <2>2, <2>7, <2>11 DEF Leave, registry
  <2>12. CASE SwitchEarly
    BY <2>2, <2>7, <2>12 DEF SwitchEarly, registry, runner
  <2>13. CASE UNCHANGED lensVars
    BY <2>2, <2>7, <2>13 DEF lensVars, registry, runner
  <2> QED
    BY <1>3, <2>3, <2>4, <2>5, <2>6, <2>8, <2>9, <2>10, <2>11, <2>12, <2>13 DEF LensNext, Samples0
<1> QED
  BY <1>2, <1>3
-----------------------------------------------------------------------------
(* The registry.                                                           *)
RowTold(r) == IF NewNow(r) THEN r \in batch /\ staged[r] = Future[rowOf[r]] ELSE Traced(r)

LEMMA TracedSame ==
  ASSUME NEW r, Traced(r), tracker'[r] = tracker[r], records' = records, Sampled' = Sampled,
         Future'[rowOf'[r]] = Future[rowOf[r]]
  PROVE  Traced(r)'
  BY DEF Traced, Unfolded, Recorded

LEMMA InOrderSame ==
  ASSUME InOrder, records' = records, Sampled' = Sampled
  PROVE  InOrder'
  BY DEF InOrder

(* A step that touches none of it.                                         *)
LEMMA RegistryKept ==
  ASSUME LensTypes, Registry, UNCHANGED <<mirror, tracker, records, rowOf, staged>>,
         Sampled' = Sampled, Future' = Future, batch \subseteq batch',
         \A r \in LensReqs : NewNow(r)' <=> NewNow(r),
         \A r \in added' : isReal' /\ stage' \in {"update", "build"} => NewNow(r)
  PROVE  Registry'
<1> SUFFICES ASSUME mirror = "exact" PROVE Registry'
  BY DEF Registry
<1>1. InOrder /\ (\A r \in LensReqs : rowOf[r] # Nowhere => RowTold(r))
      /\ \A r \in added : isReal /\ stage \in {"update", "build"} => rowOf[r] # Nowhere
  BY DEF Registry, RowTold
<1>2. InOrder'
  BY <1>1, InOrderSame
<1>3. ASSUME NEW r \in LensReqs, rowOf'[r] # Nowhere PROVE RowTold(r)'
  <2>1. RowTold(r)
    BY <1>1, <1>3
  <2>2. CASE NewNow(r)
    BY <2>1, <2>2 DEF RowTold
  <2>3. CASE ~NewNow(r)
    <3>1. Traced(r)
      BY <2>1, <2>3 DEF RowTold
    <3>2. Traced(r)'
      BY <3>1, TracedSame
    <3> QED
      BY <2>3, <3>2 DEF RowTold
  <2> QED
    BY <2>2, <2>3
<1>4. \A r \in added' : isReal' /\ stage' \in {"update", "build"} => rowOf'[r] # Nowhere
  BY <1>1 DEF NewNow
<1> QED
  BY <1>2, <1>3, <1>4 DEF Registry, RowTold

LEMMA BeginStepRegistry ==
  ASSUME LensTypes, Rows, Registry, NEW q \in BOOLEAN, BeginStep(q), Sampled' = Sampled
  PROVE  Registry'
<1> SUFFICES ASSUME mirror = "exact" PROVE Registry'
  BY DEF Registry, BeginStep
<1>1. UNCHANGED gpu /\ UNCHANGED <<mirror, tracker, records, rowOf, staged>> /\ stage = "idle" /\ batch = {}
  BY DEF BeginStep, Rows
<1>2. Future' = Future
  BY <1>1, Untouched DEF StreamSame
<1>3. \A r \in LensReqs : ~NewNow(r) /\ ~NewNow(r)'
  BY DEF NewNow, BeginStep
<1>4. ~(isReal' /\ stage' \in {"update", "build"} /\ added' # {})
  BY DEF BeginStep
<1> QED
  BY <1>1, <1>2, <1>3, <1>4, RegistryKept

LEMMA AddRegistry ==
  ASSUME LensTypes, Rows, Registry, NEW r \in LensReqs, NEW i \in StateRows, NEW n \in Starts, Add(r, i, n),
         Sampled' = Sampled
  PROVE  Registry'
<1> SUFFICES ASSUME mirror = "exact" PROVE Registry'
  BY DEF Registry, Add
<1>1. \A j \in StateRows : Future'[j] = IF j = i THEN n ELSE Future[j]
  BY AddDoes
<1>2. /\ UNCHANGED <<mirror, tracker, records, isReal, stage>> /\ added' = added \cup {r} /\ batch' = batch \cup {r}
      /\ stage = "update" /\ rowOf[r] = Nowhere /\ (\A q \in LensReqs : rowOf[q] # i)
      /\ added \subseteq LensReqs
      /\ \A q \in LensReqs : rowOf'[q] = IF q = r THEN i ELSE rowOf[q]
      /\ \A q \in LensReqs : staged'[q] = IF q = r THEN n ELSE staged[q]
  BY DEF LensTypes, Add
<1>3. isReal /\ i # Nowhere
  BY <1>2, LensConstants DEF Rows
<1>4. InOrder /\ (\A q \in LensReqs : rowOf[q] # Nowhere => RowTold(q))
      /\ \A q \in added : isReal /\ stage \in {"update", "build"} => rowOf[q] # Nowhere
  BY DEF Registry, RowTold
<1>5. InOrder'
  BY <1>2, <1>4, InOrderSame
<1>6. ASSUME NEW q \in LensReqs, rowOf'[q] # Nowhere PROVE RowTold(q)'
  <2>1. CASE q = r
    <3>1. NewNow(q)'
      BY <1>2, <1>3, <2>1 DEF NewNow
    <3> QED
      BY <1>1, <1>2, <2>1, <3>1 DEF RowTold
  <2>2. CASE q # r
    <3>1. rowOf'[q] = rowOf[q] /\ rowOf[q] # Nowhere /\ rowOf[q] # i /\ rowOf[q] \in StateRows /\ RowTold(q)
          /\ staged'[q] = staged[q]
      BY <1>2, <1>4, <1>6, <2>2, RowsIn
    <3>2. Future'[rowOf'[q]] = Future[rowOf[q]]
      BY <1>1, <3>1
    <3>3. NewNow(q)' <=> NewNow(q)
      BY <1>2, <2>2 DEF NewNow
    <3>4. Traced(q) => Traced(q)'
      BY <1>2, <3>2, TracedSame
    <3> QED
      BY <1>2, <3>1, <3>2, <3>3, <3>4 DEF RowTold
  <2> QED
    BY <2>1, <2>2
<1>7. \A q \in added' : rowOf'[q] # Nowhere
  BY <1>2, <1>3, <1>4
<1> QED
  BY <1>5, <1>6, <1>7 DEF Registry, RowTold

(* With its lengths planned, a step's requests have a known count.         *)
LEMMA BuildRegistry ==
  ASSUME LensTypes, Rows, Snapshots, Registry, Build, Sampled' = Sampled
  PROVE  Registry'
<1> SUFFICES ASSUME mirror = "exact" PROVE Registry'
  BY DEF Registry, Build
<1>1. /\ UNCHANGED gpu /\ UNCHANGED <<mirror, batch, rowOf, staged, added, isReal, serial, records>>
      /\ stage = "build" /\ stage' = "plan"
      /\ planned' = Planned
      /\ tracker' = [r \in LensReqs |-> IF r \in batch THEN [val |-> planned'[r], serial |-> serial] ELSE tracker[r]]
  BY BuildPlans DEF Build, Anchored
<1>2. Future' = Future
  BY <1>1, Untouched DEF StreamSame
<1>3. InOrder /\ (\A q \in LensReqs : rowOf[q] # Nowhere => RowTold(q))
  BY DEF Registry, RowTold
<1>4. InOrder'
  BY <1>1, <1>3, InOrderSame
<1>5. \A q \in LensReqs : ~NewNow(q)'
  BY <1>1 DEF NewNow
<1>6. ASSUME NEW q \in LensReqs, rowOf'[q] # Nowhere PROVE Traced(q)'
  <2>1. CASE q \in batch
    <3>1. tracker'[q] = [val |-> Planned[q], serial |-> serial] /\ Planned[q] = Future[rowOf[q]] /\ Planned[q] \in Nat
      BY <1>1, <2>1, PlannedIs
    <3>2. Sampled = serial - 1 /\ serial \in Nat
      BY <1>1, <2>1, BatchIsReal
    <3>3. \A k \in 1 .. Len(records') : ~(records'[k].serial >= serial)
      <4>1. \A k \in 1 .. Len(records) : records[k] \in Notes
        BY DEF LensTypes
      <4>2. \A k \in 1 .. Len(records) : records[k].serial \in Nat /\ records[k].serial <= serial - 1
        BY <1>3, <3>2, <4>1 DEF InOrder, Notes
      <4> QED
        BY <1>1, <3>2, <4>2
    <3>4. Len(records') \in Nat
      BY <1>1 DEF LensTypes
    <3>5. Gained(records', serial, q, Len(records')) = 0
      BY <3>3, <3>4, GainedNothing
    <3>6. Unfolded(q)' = Planned[q] + Gained(records', serial, q, Len(records'))
      BY <3>1 DEF Unfolded
    <3>7. Unfolded(q)' = Future'[rowOf'[q]]
      BY <1>1, <1>2, <3>1, <3>5, <3>6
    <3>8. tracker'[q].val \in Nat /\ tracker'[q].serial \in Nat /\ tracker'[q].serial <= Sampled' + 1
      BY <3>1, <3>2
    <3> QED
      BY <3>7, <3>8 DEF Traced
  <2>2. CASE q \notin batch
    <3>1. RowTold(q) /\ tracker'[q] = tracker[q]
      BY <1>1, <1>3, <1>6, <2>2
    <3>2. Traced(q)
      BY <2>2, <3>1 DEF RowTold
    <3> QED
      BY <1>1, <1>2, <3>1, <3>2, TracedSame
  <2> QED
    BY <2>1, <2>2
<1> QED
  BY <1>1, <1>4, <1>5, <1>6 DEF Registry
(* A sampled step's record, if it is written, tells what the step added;   *)
(* and no count is unfolded over a record that was forgotten.              *)
Ordered(all, top) ==
  /\ \A k, l \in 1 .. Len(all) : k < l => all[k].serial < all[l].serial
  /\ \A k \in 1 .. Len(all) : all[k].serial \in Nat /\ all[k].serial <= top

LEMMA RecordsAre ==
  ASSUME LensTypes, InOrder
  PROVE  Ordered(records, Sampled) /\ records \in Seq(Notes)
<1>1. records \in Seq(Notes) /\ \A k \in 1 .. Len(records) : records[k] \in Notes
  BY DEF LensTypes
<1>2. \A k \in 1 .. Len(records) : records[k].serial \in Nat
  BY <1>1 DEF Notes
<1> QED
  BY <1>1, <1>2 DEF Ordered, InOrder

LEMMA OneMore ==
  ASSUME NEW s \in Seq(Notes), NEW n \in Notes, NEW top \in Int, Ordered(s, top), n.serial = top + 1
  PROVE  Ordered(Append(s, n), top + 1)
<1> DEFINE all == Append(s, n)
<1>1. Len(all) = Len(s) + 1 /\ all[Len(s) + 1] = n /\ Len(s) \in Nat
      /\ \A k \in 1 .. Len(s) : all[k] = s[k]
  OBVIOUS
<1>2. n.serial \in Nat
  BY DEF Notes
<1> HIDE DEF all
<1>3. \A k \in 1 .. Len(all) : k \in 1 .. Len(s) \/ k = Len(s) + 1
  BY <1>1
<1>4. \A k \in 1 .. Len(s) : all[k].serial \in Nat /\ all[k].serial <= top /\ all[k].serial < n.serial
  BY <1>1, <1>2 DEF Ordered
<1>5. \A k \in 1 .. Len(all) : all[k].serial \in Nat /\ all[k].serial <= top + 1
  BY <1>1, <1>2, <1>3, <1>4
<1>6. ASSUME NEW k \in 1 .. Len(all), NEW l \in 1 .. Len(all), k < l PROVE all[k].serial < all[l].serial
  <2>1. k \in 1 .. Len(s)
    BY <1>1, <1>3, <1>6
  <2>2. CASE l \in 1 .. Len(s)
    BY <1>1, <1>6, <2>1, <2>2 DEF Ordered
  <2>3. CASE l = Len(s) + 1
    BY <1>1, <1>4, <2>1, <2>3
  <2> QED
    BY <1>3, <2>2, <2>3
<1> QED
  BY <1>5, <1>6 DEF Ordered, all

LEMMA ForgetsOrdered ==
  ASSUME NEW all, NEW out, NEW top, Forgets(all, out), Ordered(all, top)
  PROVE  /\ Ordered(out, top)
         /\ \A k \in 1 .. Len(out) : \E j \in 1 .. Len(all) : out[k] = all[j]
<1>1. CASE out = all
  BY <1>1
<1>2. CASE Len(all) = Len(out) + 1 /\ \A k \in 1 .. Len(out) : out[k] = all[k + 1]
  <2>1. Len(out) \in Nat
    BY DEF Forgets
  <2>2. \A k \in 1 .. Len(out) : k + 1 \in 1 .. Len(all) /\ out[k] = all[k + 1]
    BY <1>2, <2>1
  <2> QED
    BY <2>1, <2>2 DEF Ordered
<1> QED
  BY <1>1, <1>2 DEF Forgets

(* What was forgotten would be missed, so nothing was gained in it.        *)
NoneMissing(all, out, top, from) ==
  /\ all \in Seq(Notes) /\ top \in Int /\ from \in Nat
  /\ Forgets(all, out) /\ Ordered(all, top)
  /\ from .. top \subseteq {out[k].serial : k \in 1 .. Len(out)}
LEMMA ForgetsGain ==
  ASSUME NEW all, NEW out, NEW top, NEW from, NEW r, NoneMissing(all, out, top, from)
  PROVE  Gained(out, from, r, Len(out)) = Gained(all, from, r, Len(all))
<1> USE DEF NoneMissing
<1>1. CASE out = all
  BY <1>1
<1>2. CASE Len(all) = Len(out) + 1 /\ \A k \in 1 .. Len(out) : out[k] = all[k + 1]
  <2>1. Len(out) \in Nat /\ 1 \in 1 .. Len(all)
    BY <1>2 DEF Forgets
  <2>2. all[1].serial \in Nat /\ all[1].serial <= top
    BY <2>1 DEF Ordered
  <2>3. \A k \in 1 .. Len(out) : all[1].serial < out[k].serial /\ out[k].serial \in Nat
    <3>1. \A k \in 1 .. Len(out) : k + 1 \in 1 .. Len(all) /\ 1 < k + 1
      BY <1>2, <2>1
    <3> QED
      BY <1>2, <2>1, <3>1 DEF Ordered
  <2>4. ~(all[1].serial >= from)
    <3> SUFFICES ASSUME all[1].serial >= from PROVE FALSE
      OBVIOUS
    <3>1. all[1].serial \in from .. top
      BY <2>2
    <3> QED
      BY <2>2, <2>3, <3>1
  <2>5. Gained(out, from, r, Len(out)) = Gained(all, from, r, Len(out) + 1)
    <3>1. PICK N \in Nat : N = Len(out)
      BY <2>1
    <3>2. Forgotten(out, all, from, N)
      BY <1>2, <2>4, <3>1 DEF Forgotten
    <3>3. Gained(out, from, r, N) = Gained(all, from, r, N + 1)
      BY <3>2, GainedShift
    <3> QED
      BY <3>1, <3>3
  <2> QED
    BY <1>2, <2>5
<1> QED
  BY <1>1, <1>2 DEF Forgets

LEMMA SampleTraced ==
  ASSUME LensTypes, InOrder, NEW d \in [batch -> Deltas], NoteSample(TRUE, d), UNCHANGED tracker,
         Sampled' = Sampled + 1, Sampled' = serial, Sampled \in Int,
         NEW r \in LensReqs, Traced(r), Future[rowOf[r]] \in Nat,
         Future'[rowOf'[r]] = Future[rowOf[r]] + GainNow(d, r)
  PROVE  Traced(r)'
<1> DEFINE n == Len(records)
           all == Append(records, Note(d))
           from == tracker[r].serial
<1>1. records \in Seq(Notes) /\ Ordered(records, Sampled) /\ n \in Nat
  BY RecordsAre DEF LensTypes
<1>2. Note(d) \in Notes /\ Note(d).serial = serial /\ Note(d).batch = batch /\ Note(d).delta = d
  BY NoteSampleDoes DEF Note
<1>3. /\ all \in Seq(Notes) /\ Len(all) = n + 1 /\ all[n + 1] = Note(d)
      /\ \A k \in 1 .. n : all[k] = records[k]
      /\ Forgets(all, records')
  <2>1. Forgets(Append(records, Note(d)), records')
    BY NoteSampleDoes
  <2> QED
    BY <1>1, <1>2, <2>1
<1>4. Ordered(all, serial)
  BY <1>1, <1>2, OneMore
<1> HIDE DEF all
<1>5. from \in Nat /\ from <= serial /\ tracker[r].val \in Nat
  BY DEF Traced
<1>6. ASSUME from .. serial \subseteq Recorded' PROVE Unfolded(r)' = Future'[rowOf'[r]]
  <2>1. from .. Sampled \subseteq Recorded
    <3> SUFFICES ASSUME NEW x \in from .. Sampled PROVE x \in Recorded
      OBVIOUS
    <3>1. x \in from .. serial /\ x < serial
      BY <1>5
    <3>2. PICK k \in 1 .. Len(records') : records'[k].serial = x
      BY <1>6, <3>1 DEF Recorded
    <3>3. PICK j \in 1 .. Len(all) : records'[k] = all[j]
      BY <1>3, <1>4, ForgetsOrdered
    <3>4. j # n + 1
      BY <1>2, <1>3, <3>1, <3>2, <3>3
    <3>5. j \in 1 .. n
      BY <1>1, <1>3, <3>4
    <3> QED
      BY <1>3, <3>2, <3>3, <3>5 DEF Recorded
  <2>2. Unfolded(r) = Future[rowOf[r]]
    BY <2>1 DEF Traced
  <2>3. Gained(records', from, r, Len(records')) = Gained(all, from, r, n + 1)
    <3>1. from .. serial \subseteq {records'[k].serial : k \in 1 .. Len(records')}
      BY <1>6 DEF Recorded
    <3>2. serial \in Int
      BY DEF LensTypes
    <3> HIDE DEF from, n
    <3>3. Gained(records', from, r, Len(records')) = Gained(all, from, r, Len(all))
      <4>1. NoneMissing(all, records', serial, from)
        BY <1>3, <1>4, <1>5, <3>1, <3>2 DEF NoneMissing
      <4> QED
        BY <4>1, ForgetsGain
    <3>4. Len(all) = n + 1
      BY <1>3
    <3> QED
      BY <3>3, <3>4
  <2>4. Gained(all, from, r, n + 1) = Gain(all, from, r, Gained(all, from, r, n), n + 1)
    BY <1>1, GainedSteps
  <2>5. Gained(all, from, r, n) = Gained(records, from, r, n)
    BY <1>1, <1>3, GainedSame
  <2>6. Gained(records, from, r, n) \in Nat
    <3>1. \A k \in 1 .. n : records[k].delta \in [records[k].batch -> Nat]
      BY <1>1 DEF Notes
    <3> QED
      BY <1>1, <3>1, GainedNat
  <2>7. r \in batch => d[r] \in Nat
    BY LensConstants
  <2>8. Gain(all, from, r, Gained(all, from, r, n), n + 1) = Gained(records, from, r, n) + GainNow(d, r)
    <3>1. all[n + 1].serial >= from
      BY <1>2, <1>3, <1>5 DEF LensTypes
    <3> HIDE DEF from, n
    <3> QED
      BY <1>2, <1>3, <2>5, <2>6, <2>7, <3>1 DEF Gain, GainNow
  <2>9. Unfolded(r)' = tracker[r].val + Gained(records', from, r, Len(records'))
    BY DEF Unfolded
  <2>10. Unfolded(r) = tracker[r].val + Gained(records, from, r, n)
    BY DEF Unfolded
  <2>11. GainNow(d, r) \in Nat
    BY <2>7 DEF GainNow
  <2> HIDE DEF from, n
  <2> QED
    BY <1>5, <2>2, <2>3, <2>4, <2>6, <2>8, <2>9, <2>10, <2>11
<1>7. Traced(r)'
  <2>1. tracker'[r] = tracker[r] /\ Sampled' = serial /\ serial \in Nat
    BY DEF LensTypes
  <2>2. tracker'[r].serial .. Sampled' \subseteq Recorded' => Unfolded(r)' = Future'[rowOf'[r]]
    BY <1>6, <2>1
  <2>3. tracker'[r].val \in Nat /\ tracker'[r].serial \in Nat /\ tracker'[r].serial <= Sampled' + 1
    BY <1>5, <2>1
  <2> QED
    BY <2>2, <2>3 DEF Traced
<1> QED
  BY <1>7
LEMMA SampleRegistry ==
  ASSUME LensTypes, Rows, Registry, NEW d \in [batch -> Deltas], NEW ok \in BOOLEAN, Sample(d, ok),
         Sampled' = Sampled + 1, Sampled' = serial, Sampled \in Int
  PROVE  Registry'
<1> SUFFICES ASSUME mirror = "exact" PROVE Registry'
  BY DEF Registry, Sample
<1>1. /\ stage = "sample" /\ stage' = "idle" /\ UNCHANGED <<mirror, tracker, rowOf, staged>>
      /\ NoteSample(ok, d)
  BY DEF Sample, Snapshot
<1>2. InOrder /\ \A r \in LensReqs : rowOf[r] # Nowhere => Traced(r)
  BY <1>1 DEF Registry, NewNow
<1>3. Ordered(records, Sampled) /\ records \in Seq(Notes)
  BY <1>2, RecordsAre
<1>4. InOrder'
  <2>1. CASE ~ok
    <3>1. records' = records
      BY <1>1, <2>1 DEF NoteSample
    <3> QED
      BY <1>3, <3>1 DEF InOrder, Ordered
  <2>2. CASE ok
    <3>1. Note(d) \in Notes /\ Note(d).serial = Sampled + 1 /\ Forgets(Append(records, Note(d)), records')
      BY <1>1, <2>2, NoteSampleDoes DEF Note
    <3>2. Ordered(Append(records, Note(d)), Sampled + 1)
      BY <1>3, <3>1, OneMore
    <3>3. Ordered(records', Sampled + 1)
      BY <3>1, <3>2, ForgetsOrdered
    <3> QED
      BY <3>3 DEF InOrder, Ordered
  <2> QED
    BY <2>1, <2>2
<1>5. ASSUME NEW r \in LensReqs, rowOf'[r] # Nowhere PROVE Traced(r)'
  <2>1. Traced(r) /\ rowOf[r] # Nowhere /\ rowOf'[r] = rowOf[r]
    BY <1>1, <1>2, <1>5
  <2>2. Future[rowOf[r]] \in Nat
    BY <2>1, RowsIn, FutureIs DEF Counts
  <2>3. Future'[rowOf'[r]] = Future[rowOf[r]] + GainNow(d, r)
    BY <2>1, SampleDoes DEF Samples
  <2>4. CASE ok
    BY <1>1, <1>2, <2>1, <2>2, <2>3, <2>4, SampleTraced
  <2>5. CASE ~ok
    <3>1. records' = records /\ tracker' = tracker
      BY <1>1, <2>5 DEF NoteSample
    <3>2. \A x \in Recorded : x \in Int /\ x < serial
      BY <1>3 DEF Recorded, Ordered
    <3>3. /\ tracker[r].val \in Nat /\ tracker[r].serial \in Nat /\ tracker[r].serial <= serial
          /\ serial \in Nat
      BY <2>1 DEF Traced, LensTypes
    <3>4. ~(tracker[r].serial .. serial \subseteq Recorded)
      <4>1. serial \in tracker[r].serial .. serial
        BY <3>3
      <4> QED
        BY <3>2, <3>3, <4>1
    <3> QED
      BY <3>1, <3>3, <3>4 DEF Traced, Recorded
  <2> QED
    BY <2>4, <2>5
<1> QED
  BY <1>1, <1>4, <1>5 DEF Registry, NewNow

LEMMA LeaveRegistry ==
  ASSUME LensTypes, Registry, NEW r \in LensReqs, Leave(r), Sampled' = Sampled
  PROVE  Registry'
<1> SUFFICES ASSUME mirror = "exact" PROVE Registry'
  BY DEF Registry, Leave
<1>1. /\ stage = "idle" /\ UNCHANGED gpu /\ UNCHANGED <<mirror, tracker, records, stage, isReal, added>>
      /\ \A q \in LensReqs : rowOf'[q] = IF q = r THEN Nowhere ELSE rowOf[q]
  BY DEF LensTypes, Leave, registry
<1>2. Future' = Future
  BY <1>1, Untouched DEF StreamSame
<1>3. InOrder /\ \A q \in LensReqs : rowOf[q] # Nowhere => Traced(q)
  BY <1>1 DEF Registry, NewNow
<1>4. InOrder'
  BY <1>1, <1>3, InOrderSame
<1>5. \A q \in LensReqs : rowOf'[q] # Nowhere => Traced(q)'
  BY <1>1, <1>2, <1>3, TracedSame
<1> QED
  BY <1>1, <1>4, <1>5 DEF Registry, NewNow

LEMMA StepRegistry ==
  ASSUME LensTypes, Rows, Uploads, Snapshots, Registry, [LensNext]_lensVars
  PROVE  Registry'
<1> DEFINE Samples0 == \E d \in [batch -> Deltas], ok \in BOOLEAN : Sample(d, ok)
<1>1. IF Samples0 THEN Sampled' = Sampled + 1 /\ Sampled' = serial /\ Sampled \in Int ELSE Sampled' = Sampled
  BY SampledStays
<1>2. CASE Samples0
  BY <1>1, <1>2, SampleRegistry
<1>3. CASE ~Samples0
  <2> HIDE DEF Samples0
  <2>1. Sampled' = Sampled
    BY <1>1, <1>3
  <2>2. ASSUME UNCHANGED <<mirror, tracker, records, rowOf, staged, added, isReal>>, batch \subseteq batch',
               Future' = Future,
               stage' \in {"update", "build"} <=> stage \in {"update", "build"}
        PROVE  Registry'
    <3>1. \A r \in LensReqs : NewNow(r)' <=> NewNow(r)
      BY <2>2 DEF NewNow
    <3>2. \A r \in added' : isReal' /\ stage' \in {"update", "build"} => NewNow(r)
      BY <2>2 DEF NewNow
    <3> QED
      BY <2>1, <2>2, <3>1, <3>2, RegistryKept
  <2>3. CASE DeviceStep
    <3>1. Future' = Future
      BY <2>3, DeviceStepDoes DEF Works
    <3> QED
      BY <2>2, <2>3, <3>1 DEF DeviceStep, runner
  <2>4. ASSUME NEW q \in BOOLEAN, BeginStep(q) PROVE Registry'
    BY <2>1, <2>4, BeginStepRegistry
  <2>5. ASSUME NEW r \in LensReqs, NEW i \in StateRows, NEW n \in Starts, Add(r, i, n) PROVE Registry'
    BY <2>1, <2>5, AddRegistry
  <2>6. CASE Plan
    <3>1. Future' = Future
      BY <2>6, PlanDoes DEF StreamSame
    <3> QED
      BY <2>2, <2>6, <3>1 DEF Plan, runner, registry
  <2>7. CASE Build
    BY <2>1, <2>7, BuildRegistry
  <2>8. UNCHANGED gpu => Future' = Future
    BY Untouched DEF StreamSame
  <2>9. ASSUME NEW b \in SUBSET LensReqs, Prepare(b) PROVE Registry'
    BY <2>2, <2>8, <2>9 DEF Prepare, registry
  <2>10. CASE Forward
    BY <2>2, <2>8, <2>10 DEF Forward, registry
  <2>11. ASSUME NEW r \in LensReqs, Leave(r) PROVE Registry'
    BY <2>1, <2>11, LeaveRegistry
  <2>12. CASE SwitchEarly
    BY <2>2, <2>8, <2>12 DEF SwitchEarly, registry, runner
  <2>13. CASE UNCHANGED lensVars
    BY <2>2, <2>8, <2>13 DEF lensVars, registry, runner
  <2> QED
    BY <1>3, <2>3, <2>4, <2>5, <2>6, <2>7, <2>9, <2>10, <2>11, <2>12, <2>13 DEF LensNext, Samples0
<1> QED
  BY <1>2, <1>3

-----------------------------------------------------------------------------
(* The invariant holds.                                                    *)
LEMMA LensStarts == ASSUME LensInit PROVE LensInv
<1> USE LensConstants DEF LensInit
<1>1. LensTypes
  <2>1. device \in Counts /\ ring \in [0 .. RingSlots - 1 -> Counts]
    BY DEF Counts
  <2>2. stream \in Seq(Ops) /\ records \in Seq(Notes) /\ Len(records) <= MaxRecords
    OBVIOUS
  <2>3. snap \in Mark /\ tracker \in [LensReqs -> Mark]
    BY DEF Mark, Unknown
  <2> QED
    BY <2>1, <2>2, <2>3 DEF LensTypes
<1>2. Rows
  BY DEF Rows
<1>3. Uploads
  BY DEF Uploads, UploadsIntact, Fence
<1>4. Snapshots
  BY DEF Snapshots, Fresh, Unknown, Sampled
<1>5. Registry
  BY DEF Registry, InOrder
<1>6. LensExact
  BY DEF LensExact
<1> QED
  BY <1>1, <1>2, <1>3, <1>4, <1>5, <1>6 DEF LensInv

LEMMA LensSteps == LensInv /\ [LensNext]_lensVars => LensInv'
<1> SUFFICES ASSUME LensInv, [LensNext]_lensVars PROVE LensInv'
  OBVIOUS
<1>1. LensTypes /\ Rows /\ Uploads /\ Snapshots /\ Registry /\ LensExact
  BY DEF LensInv
<1> QED
  BY <1>1, StepTypes, StepRows, StepUploads, StepSnapshots, StepRegistry, StepExact DEF LensInv

(* The counts that a worker plans its attention on, without waiting for    *)
(* the device, are the ones its kernels will find there, and no plan is    *)
(* rewritten before it is uploaded: for any requests, rows and counts,     *)
(* however many snapshots or records are kept, and in whatever order the   *)
(* device gets to its work.                                                *)
THEOREM PlansAreExact == LensSpec => []PlanExact
<1>1. LensInit => LensInv
  BY LensStarts
<1>2. LensInv => PlanExact
  BY DEF LensInv, Uploads, PlanExact
<1> QED
  BY <1>1, <1>2, LensSteps, PTL DEF LensSpec
=============================================================================
