--------------------------- MODULE RoceInvariant ---------------------------
(***************************************************************************)
(* The inductive invariant of RoceOneshot, for runs in which no sequence   *)
(* word wraps.  KernelInv is about one rank alone, NetInv about how far a  *)
(* rank may be ahead of what its peers have sent, DataInv about the        *)
(* payloads, and LastInv about the connection that is posted on last.      *)
(***************************************************************************)
EXTENDS RoceOneshot

(* The words of every collective of the run are distinct, and those of the *)
(* two that would come after them are not the word of an earlier one.      *)
NoWrap == MaxOps + 1 < SeqMod

Busy == {"stage", "wait", "check", "tail"}

Healthy(r) == ctrlErr[r] = 0
Entering(r) == \E b \in Blocks : pc[r][b] \in {"start", "stage"}
Staging(r) == \E b \in Blocks : pc[r][b] = "stage"

(* The blocks of the last launch that are past their staging, and those    *)
(* that are done.                                                          *)
GridOf(r) == 0 .. Grid[launches[r]] - 1
Past(r) == {b \in GridOf(r) : pc[r][b] \notin {"start", "stage"}}
Over(r) == {b \in GridOf(r) : pc[r][b] = "done"}

-----------------------------------------------------------------------------
(* One rank.                                                               *)

(* The error word and the poison word tell the same.                       *)
PoisonInv(r) == poison[r] = 0 <=> ctrlErr[r] = 0

(* A healthy rank runs the collective after its epoch, or has published    *)
(* the last one it launched.  A rank that timed out never gets further.    *)
LaunchInv(r) ==
  /\ epoch[r] <= launches[r]
  /\ Healthy(r) /\ Idle(r) => launches[r] = epoch[r]
  /\ Healthy(r) /\ ~Idle(r) => launches[r] = epoch[r] + 1
  /\ ~Healthy(r) => epoch[r] < launches[r]
  /\ \A b \in Blocks :
       /\ pc[r][b] # "done" => b < Grid[launches[r]]
       /\ pc[r][b] \in Busy => reg[r][b] = epoch[r] + 1 /\ launches[r] = epoch[r] + 1

(* What the arrival counter of grid c stands at, modulo c, when the blocks *)
(* of S have arrived.                                                      *)
Expected(r, S, c) ==
  IF launches[r] # 0 /\ c = Grid[launches[r]] THEN Cardinality(S) % c ELSE 0

(* On a healthy rank the counters tell how many blocks have arrived.  When *)
(* a block still stages on a rank that timed out, they tell at most that.  *)
ArrivalInv(r) ==
  /\ Healthy(r) => \A c \in 1 .. MaxBlocks : /\ stageCtr[r][c] % c = Expected(r, Past(r), c)
                                             /\ tailCtr[r][c] % c = Expected(r, Over(r), c)
  /\ Staging(r) => stageCtr[r][Grid[launches[r]]] % Grid[launches[r]] <= Cardinality(Past(r))

(* The doorbell rings once in a collective, when no block is staging.      *)
DoorbellInv(r) ==
  /\ ctrlSeq[r] \in {epoch[r], epoch[r] + 1}
  /\ Staging(r) => ctrlSeq[r] = epoch[r]
  /\ Healthy(r) => (ctrlSeq[r] = epoch[r] <=> Idle(r) \/ Entering(r))

KernelOf(r) == PoisonInv(r) /\ LaunchInv(r) /\ ArrivalInv(r) /\ DoorbellInv(r)
KernelInv == \A r \in Ranks : KernelOf(r)

-----------------------------------------------------------------------------
(* Two ranks.                                                              *)

(* Rank r has rung its doorbell for collective n, and its proxy has posted *)
(* it or is about to.                                                      *)
Within(r, n) == n <= ctrlSeq[r] /\ n <= last[r] + 1

ProxyInv(r) ==
  /\ last[r] <= ctrlSeq[r]
  /\ px[r] = "post" => last[r] + pend[r] <= ctrlSeq[r]

(* What p has published, what its healthy blocks have waited for, a flag   *)
(* that has arrived from r and one on its way: r has posted all of them.   *)
EpochSent(r, p) == Within(r, epoch[p])

WaitedSent(r, p) ==
  \A b \in Blocks : Healthy(p) /\ pc[p][b] \in {"check", "tail"} => Within(r, reg[p][b])

FlagsSent(r, p) == \A s \in SlotIds, h \in Hcas : Within(r, flag[p][r][s][h])

QueuedSent(r, p) ==
  \A h \in Hcas : \A k \in DOMAIN wq[r][p][h] :
    wq[r][p][h][k].seq # 0 /\ Within(r, wq[r][p][h][k].seq)

SentInv(r, p) == EpochSent(r, p) /\ WaitedSent(r, p) /\ FlagsSent(r, p) /\ QueuedSent(r, p)

NetInv ==
  /\ \A r \in Ranks : ProxyInv(r)
  /\ \A r \in Ranks : \A p \in Peers(r) : SentInv(r, p)

-----------------------------------------------------------------------------
(* The payloads.                                                           *)

(* The send slot of r holds all of collective n.                           *)
Full(r, n) == \A i \in 0 .. Packs[n] - 1 : send[r][Slot(n)][i] = n

(* The receive slot of p holds these packs of collective n of rank r.      *)
Came(r, p, n, packs) == \A i \in packs : recv[p][r][Slot(n)][i] = n

Staged(r) ==
  \A b \in Past(r) : \A i \in Share(b, Grid[launches[r]], Packs[launches[r]]) :
     send[r][Slot(launches[r])][i] = launches[r]

(* The blocks that have arrived have staged their share.                   *)
StagedInv(r) ==
  /\ Healthy(r) /\ ~Idle(r) => Staged(r)
  /\ Staging(r) /\ stageCtr[r][Grid[launches[r]]] % Grid[launches[r]] = Cardinality(Past(r))
       => Staged(r)

(* The slots of the last two doorbells hold their payloads and sizes, the  *)
(* older one until the newer collective is published.                      *)
HeldInv(r) ==
  /\ ctrlSeq[r] # 0 => /\ Full(r, ctrlSeq[r])
                       /\ ctrlBytes[r][Slot(ctrlSeq[r])] = Packs[ctrlSeq[r]]
  /\ ctrlSeq[r] > 1 => /\ epoch[r] < ctrlSeq[r] => Full(r, ctrlSeq[r] - 1)
                       /\ ctrlBytes[r][Slot(ctrlSeq[r] - 1)] = Packs[ctrlSeq[r] - 1]

(* The proxy works with the size of the collective it posts.               *)
SizeInv(r) == px[r] = "post" => nbytes[r] = Packs[last[r] + 1]

(* A posted stripe is the one of its collective.                           *)
DataWrite(h, w) == w.kind = "data" => w.packs = Stripe(h, Packs[w.seq])

(* Before a posted flag goes its stripe, unless that has arrived already.  *)
FlagWrite(r, p, h, k) ==
  LET w == wq[r][p][h][k]
      stripe == Stripe(h, Packs[w.seq])
  IN  w.kind = "flag" =>
        /\ w.packs = {}
        /\ k > 1 /\ stripe # {} => /\ wq[r][p][h][k - 1].kind = "data"
                                   /\ wq[r][p][h][k - 1].seq = w.seq
        /\ k = 1 /\ w.seq > epoch[p] => Came(r, p, w.seq, stripe)

QueueInv(r, p) ==
  \A h \in Hcas : \A k \in DOMAIN wq[r][p][h] :
    DataWrite(h, wq[r][p][h][k]) /\ FlagWrite(r, p, h, k)

(* A flag that has arrived was written behind its stripe.                  *)
FlagInv(r, p) ==
  \A s \in SlotIds, h \in Hcas :
    LET n == flag[p][r][s][h] IN n > epoch[p] => Came(r, p, n, Stripe(h, Packs[n]))

(* A block that may read the receive slot finds all of its collective.     *)
BarrierInv(r, p) ==
  \A b \in Blocks : Healthy(p) /\ pc[p][b] = "check" =>
    Came(r, p, reg[p][b], 0 .. Packs[reg[p][b]] - 1)

TransitInv(r, p) == QueueInv(r, p) /\ FlagInv(r, p) /\ BarrierInv(r, p)

(* Whatever is stored is the data of this collective, and a healthy block  *)
(* that is through has stored its share.                                   *)
OutInv(r) ==
  /\ \A i \in Cells : out[r][i] = Unset \/ \A p \in Ranks : out[r][i][p] = launches[r]
  /\ Healthy(r) /\ launches[r] # 0 =>
       \A b \in GridOf(r) : pc[r][b] \in {"tail", "done"} =>
         \A i \in Share(b, Grid[launches[r]], Packs[launches[r]]) : out[r][i] # Unset

DataInv ==
  /\ \A r \in Ranks : StagedInv(r) /\ HeldInv(r) /\ SizeInv(r) /\ OutInv(r)
  /\ \A r \in Ranks : \A p \in Peers(r) : TransitInv(r, p)

-----------------------------------------------------------------------------
(* The connection that a proxy posts on last.                              *)
LastPeer(r) == IF r = World - 1 THEN World - 2 ELSE World - 1
LastHca == NHca - 1

(* As long as no connection of r broke, the peer at the end of the last    *)
(* one has seen no more than r has posted on all of them.                  *)
LastInv(r) ==
  LET p == LastPeer(r)
  IN  AllUp(r) =>
        /\ epoch[p] <= Posted(r)
        /\ \A b \in Blocks : Healthy(p) /\ pc[p][b] \in {"check", "tail"} => reg[p][b] <= Posted(r)
        /\ \A s \in SlotIds : flag[p][r][s][LastHca] <= Posted(r)
        /\ \A k \in DOMAIN wq[r][p][LastHca] : wq[r][p][LastHca][k].seq <= Posted(r)

LastConnection == \A r \in Ranks : LastInv(r)
=============================================================================
