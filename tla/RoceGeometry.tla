---------------------------- MODULE RoceGeometry ----------------------------
(***************************************************************************)
(* How one collective of RoCEnante is cut up: into the blocks of the       *)
(* kernel's grid, and into the stripes that the proxy sends on each HCA.   *)
(* Sizes are counted in packs of 16 bytes.                                 *)
(***************************************************************************)
EXTENDS Integers

CONSTANTS Threads,    \* threads of a block
          MaxBlocks,  \* upper bound of the grid, a power of two
          NHca        \* RDMA devices of a rank, 1 or 2

ASSUME GeometryAssumption == /\ Threads \in Nat \ {0}
                             /\ MaxBlocks \in Nat \ {0}
                             /\ NHca \in {1, 2}

Blocks == 0 .. MaxBlocks - 1
Hcas == 0 .. NHca - 1

-----------------------------------------------------------------------------
(* The smallest power of two that is at least n: 1 << (n - 1).bit_length() *)
PowerOfTwoAbove(n) ==
  LET powers == {2 ^ k : k \in 0 .. n}
  IN  CHOOSE p \in powers : p >= n /\ \A q \in powers : q >= n => p <= q

(* The grid of a launch over size packs, about two packs per thread.       *)
GridBlocks(size) ==
  LET required == (size + 2 * Threads - 1) \div (2 * Threads)
      rounded == PowerOfTwoAbove(IF required > 1 THEN required ELSE 1)
  IN  IF rounded < MaxBlocks THEN rounded ELSE MaxBlocks

(* The packs that block b of a grid of g blocks stages and stores.         *)
Share(b, g, size) == {i \in 0 .. size - 1 : (i \div Threads) % g = b}

(* The packs that travel on HCA h: total \div NHca of them, one more on    *)
(* the first total % NHca devices, contiguous in the order of the devices. *)
StripePacks(h, total) ==
  total \div NHca + (IF h < total % NHca THEN 1 ELSE 0)

PackOffset(h, total) == IF h = 0 THEN 0 ELSE StripePacks(0, total)

Stripe(h, total) ==
  PackOffset(h, total) .. PackOffset(h, total) + StripePacks(h, total) - 1
=============================================================================
