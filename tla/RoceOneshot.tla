---------------------------- MODULE RoceOneshot ----------------------------
(***************************************************************************)
(* The one-shot collective of RoCEnante (roce/b12x/b12x/comm/roce): the    *)
(* GPU kernels of all-reduce and all-gather, the proxy thread of every     *)
(* rank, and the reliable connections on which the proxies write into the  *)
(* pinned regions of their peers.                                          *)
(*                                                                         *)
(* All ranks run the same sequence of collectives, 1 .. MaxOps.  A pack    *)
(* of data is modelled by the number of the collective it belongs to; its  *)
(* rank and position are those of the memory cell that holds it.  Sequence *)
(* words (epoch, doorbell, flags, error and poison words) are unsigned     *)
(* words that wrap at SeqMod, arrival counters at CtrMod: 2^32 in the      *)
(* code.                                                                   *)
(***************************************************************************)
EXTENDS RoceGeometry, Sequences, FiniteSets

CONSTANTS World,      \* number of ranks
          MaxOps,     \* bound: collectives that a rank launches
          MaxPacks,   \* bound: packs of a collective (slot_bytes / 16)
          Packs,      \* Packs[n]: size of collective n in packs
          Grid,       \* Grid[n]: blocks of its launch
          SeqMod,     \* modulus of the sequence words
          CtrMod,     \* modulus of the arrival counters
          SendLimit,  \* writes outstanding on a connection (ROCE_SEND_DEPTH / 4)
          Faulty,     \* bound: ranks whose connections may break, or that are stopped
          MaxFaults,  \* bound: stops and broken connections when one more breaks
          MaxStops,   \* bound: stops (that a roce_start follows) and broken
                      \* connections when roce_stop is called once more
          CanTimeout, \* whether a spin limit may expire
          CanClose    \* whether the host closes the runtime

Ranks == 0 .. World - 1
Ops == 1 .. MaxOps
SLOTS == 2
SlotIds == 0 .. SLOTS - 1

ASSUME RoceAssumption ==
  /\ World \in Nat \ {0, 1}
  /\ MaxOps \in Nat \ {0}
  /\ SeqMod \in Nat /\ SeqMod > SLOTS /\ SeqMod % SLOTS = 0
  /\ CtrMod \in Nat \ {0}
  /\ MaxPacks \in Nat
  /\ \A n \in Ops : /\ Packs[n] \in 1 .. MaxPacks
                    /\ Grid[n] \in 1 .. MaxBlocks
                    /\ CtrMod % Grid[n] = 0
  /\ SendLimit \in Nat \ {0}
  /\ Faulty \subseteq Ranks
  /\ MaxFaults \in Nat /\ MaxStops \in Nat
  /\ CanTimeout \in BOOLEAN /\ CanClose \in BOOLEAN

Peers(r) == Ranks \ {r}
Seqs == 0 .. SeqMod - 1
OneSlot(seq) == 0             \* mutant: the slots are not alternated
Slot(seq) == seq % SLOTS
Unwrapped(seq) == seq + 1     \* mutant: the word does not wrap
Succ(seq) == (seq + 1) % SeqMod
Cells == 0 .. MaxPacks - 1

VARIABLES
  \* the host
  host,      \* "open", "raised", "closing" or "closed"
  launches,  \* collectives launched so far
  \* the GPU: device words, blocks of the running kernel
  epoch, poison, stageCtr, tailCtr,
  pc,        \* pc[r][b]: where block b of rank r stands
  reg,       \* reg[r][b]: the sequence number that block b works on
  out,       \* out[r][i]: per rank, the collective whose data pack i of the output combines
  \* the pinned region
  send, recv, flag, ctrlSeq, ctrlErr, ctrlBytes,
  \* the proxy thread
  px,        \* "poll", "post", "off" or "dead"
  running, failed, last,
  pend,      \* doorbells left to post
  cursor,    \* the connection to post on next
  nbytes,    \* the size of the collective being posted
  \* the network
  wq,        \* wq[r][p][h]: writes posted by r to p on HCA h
  qpUp,      \* qpUp[r][p][h]: the queue pair works
  faults, stops

hostVars == <<host, launches>>
gpuVars == <<epoch, poison, stageCtr, tailCtr, pc, reg, out>>
regionVars == <<send, recv, flag, ctrlSeq, ctrlErr, ctrlBytes>>
proxyVars == <<px, running, failed, last, pend, cursor, nbytes>>
netVars == <<wq, qpUp, faults>>
vars == <<hostVars, gpuVars, regionVars, proxyVars, netVars, stops>>

NoData == 0     \* what a cell of the zeroed region holds
Unset == <<>>   \* an output pack that no block has stored

(* Stage and tail arrivals are counted apart for every size of grid.       *)
OneClass(g) == 1              \* mutant: one counter for all grids
CounterClass(g) == g

(* What check_health looks at.                                             *)
ProxyOnly(r) == failed[r]     \* mutant: the error word is forgotten
Unhealthy(r) == failed[r] \/ ctrlErr[r] # 0

Idle(r) == \A b \in Blocks : pc[r][b] = "done"

FirstPeer(r) == IF r = 0 THEN 1 ELSE 0
NextPeer(r, p) == IF p + 1 = r THEN p + 2 ELSE p + 1

Init ==
  /\ host = [r \in Ranks |-> "open"]
  /\ launches = [r \in Ranks |-> 0]
  /\ epoch = [r \in Ranks |-> 0]
  /\ poison = [r \in Ranks |-> 0]
  /\ stageCtr = [r \in Ranks |-> [g \in 1 .. MaxBlocks |-> 0]]
  /\ tailCtr = [r \in Ranks |-> [g \in 1 .. MaxBlocks |-> 0]]
  /\ pc = [r \in Ranks |-> [b \in Blocks |-> "done"]]
  /\ reg = [r \in Ranks |-> [b \in Blocks |-> 0]]
  /\ out = [r \in Ranks |-> [i \in Cells |-> Unset]]
  /\ send = [r \in Ranks |-> [s \in SlotIds |-> [i \in Cells |-> NoData]]]
  /\ recv = [r \in Ranks |-> [p \in Ranks |->
               [s \in SlotIds |-> [i \in Cells |-> NoData]]]]
  /\ flag = [r \in Ranks |-> [p \in Ranks |->
               [s \in SlotIds |-> [h \in Hcas |-> 0]]]]
  /\ ctrlSeq = [r \in Ranks |-> 0]
  /\ ctrlErr = [r \in Ranks |-> 0]
  /\ ctrlBytes = [r \in Ranks |-> [s \in SlotIds |-> 0]]
  /\ px = [r \in Ranks |-> "poll"]
  /\ running = [r \in Ranks |-> TRUE]
  /\ failed = [r \in Ranks |-> FALSE]
  /\ last = [r \in Ranks |-> 0]
  /\ pend = [r \in Ranks |-> 0]
  /\ cursor = [r \in Ranks |-> [peer |-> FirstPeer(r), hca |-> 0]]
  /\ nbytes = [r \in Ranks |-> 0]
  /\ wq = [r \in Ranks |-> [p \in Ranks |-> [h \in Hcas |-> <<>>]]]
  /\ qpUp = [r \in Ranks |-> [p \in Ranks |-> [h \in Hcas |-> TRUE]]]
  /\ faults = 0
  /\ stops = 0

-----------------------------------------------------------------------------
(* The host.                                                               *)

(* The next collective starts on the GPU.  Launches are ordered (one       *)
(* stream, or an event between streams), so the previous kernel is over.   *)
(* A replayed graph launches without looking at the health of the runtime. *)
Launch(r) ==
  /\ host[r] = "open"
  /\ launches[r] < MaxOps
  /\ Idle(r)
  /\ launches' = [launches EXCEPT ![r] = @ + 1]
  /\ pc' = [pc EXCEPT ![r] = [b \in Blocks |->
              IF b < Grid[launches[r] + 1] THEN "start" ELSE "done"]]
  /\ out' = [out EXCEPT ![r] = [i \in Cells |-> Unset]]
  /\ UNCHANGED <<host, epoch, poison, stageCtr, tailCtr, reg>>
  /\ UNCHANGED <<regionVars, proxyVars, netVars, stops>>

(* check_health finds the runtime broken and raises; nothing is launched   *)
(* afterwards.                                                             *)
CheckHealth(r) ==
  /\ host[r] = "open"
  /\ Unhealthy(r)
  /\ host' = [host EXCEPT ![r] = "raised"]
  /\ UNCHANGED launches
  /\ UNCHANGED <<gpuVars, regionVars, proxyVars, netVars, stops>>

(* close: wait for the device, then stop the proxy.                        *)
Close(r) ==
  /\ CanClose
  /\ host[r] = "raised" \/ (host[r] = "open" /\ launches[r] = MaxOps)
  /\ Idle(r)
  /\ host' = [host EXCEPT ![r] = "closing"]
  /\ running' = [running EXCEPT ![r] = FALSE]
  /\ UNCHANGED launches
  /\ UNCHANGED <<px, failed, last, pend, cursor, nbytes>>
  /\ UNCHANGED <<gpuVars, regionVars, netVars, stops>>

(* roce_destroy after the thread was joined: the queue pairs are gone, and *)
(* with them the writes that were not sent yet.                            *)
Destroy(r) ==
  /\ host[r] = "closing"
  /\ px[r] \in {"off", "dead"}
  /\ host' = [host EXCEPT ![r] = "closed"]
  /\ qpUp' = [qpUp EXCEPT ![r] = [p \in Ranks |-> [h \in Hcas |-> FALSE]]]
  /\ wq' = [wq EXCEPT ![r] = [p \in Ranks |-> [h \in Hcas |-> <<>>]]]
  /\ UNCHANGED <<launches, faults>>
  /\ UNCHANGED <<gpuVars, regionVars, proxyVars, stops>>

-----------------------------------------------------------------------------
(* The kernel, one block at a time.                                        *)

(* The block reads the epoch and the poison word.  It does nothing at all  *)
(* on a poisoned runtime.                                                  *)
Start(r, b) ==
  /\ pc[r][b] = "start"
  /\ reg' = [reg EXCEPT ![r][b] = Succ(epoch[r])]
  /\ pc' = [pc EXCEPT ![r][b] = IF poison[r] = 0 THEN "stage" ELSE "done"]
  /\ UNCHANGED <<epoch, poison, stageCtr, tailCtr, out>>
  /\ UNCHANGED <<hostVars, regionVars, proxyVars, netVars, stops>>

(* The block copies its share of the input into the send slot.  The last   *)
(* block of the grid to do so publishes the size and rings the doorbell.   *)
Stage(r, b) ==
  LET n == launches[r]
      g == Grid[n]
      c == CounterClass(g)
      arrived == (stageCtr[r][c] + 1) % CtrMod
      slot == Slot(reg[r][b])
      rings == arrived % g = 0
  IN  /\ pc[r][b] = "stage"
      /\ send' = [send EXCEPT ![r][slot] = [i \in Cells |->
                    IF i \in Share(b, g, Packs[n]) THEN n ELSE @[i]]]
      /\ stageCtr' = [stageCtr EXCEPT ![r][c] = arrived]
      /\ ctrlBytes' = IF rings THEN [ctrlBytes EXCEPT ![r][slot] = Packs[n]]
                               ELSE ctrlBytes
      /\ ctrlSeq' = IF rings THEN [ctrlSeq EXCEPT ![r] = reg[r][b]] ELSE ctrlSeq
      /\ pc' = [pc EXCEPT ![r][b] = "wait"]
      /\ UNCHANGED <<epoch, poison, tailCtr, reg, out, recv, flag, ctrlErr>>
      /\ UNCHANGED <<hostVars, proxyVars, netVars, stops>>

(* mutants: any flag will do; one peer stands for all of them             *)
ArrivedOnce(r, b, p, h) == flag[r][p][Slot(reg[r][b])][h] # 0
ArrivedFirstPeer(r, b, p, h) ==
  p # FirstPeer(r) \/ flag[r][p][Slot(reg[r][b])][h] = reg[r][b]
Arrived(r, b, p, h) == flag[r][p][Slot(reg[r][b])][h] = reg[r][b]

(* Every waiting thread of the block has seen its flag.  A flag that a     *)
(* thread has seen stays: its peer writes that flag again two collectives  *)
(* later, which PublishedResult would show.                                 *)
WaitDone(r, b) ==
  /\ pc[r][b] = "wait"
  /\ \A p \in Peers(r), h \in Hcas : Arrived(r, b, p, h)
  /\ pc' = [pc EXCEPT ![r][b] = "check"]
  /\ UNCHANGED <<epoch, poison, stageCtr, tailCtr, reg, out>>
  /\ UNCHANGED <<hostVars, regionVars, proxyVars, netVars, stops>>

(* A thread of the block reaches its spin limit: it records the sequence   *)
(* in the error word and in the poison word.                               *)
Timeout(r, b) ==
  /\ CanTimeout
  /\ pc[r][b] = "wait"
  /\ \E p \in Peers(r), h \in Hcas : ~Arrived(r, b, p, h)
  /\ ctrlErr' = [ctrlErr EXCEPT ![r] = reg[r][b]]
  /\ poison' = [poison EXCEPT ![r] = reg[r][b]]
  /\ pc' = [pc EXCEPT ![r][b] = "check"]
  /\ UNCHANGED <<epoch, stageCtr, tailCtr, reg, out>>
  /\ UNCHANGED <<send, recv, flag, ctrlSeq, ctrlBytes>>
  /\ UNCHANGED <<hostVars, proxyVars, netVars, stops>>

AlwaysStore(r) == TRUE        \* mutant: the data phase runs after a timeout
MayStore(r) == poison[r] = 0

(* After the barrier: combine the own input and the peers' receive slots,  *)
(* unless a wait timed out.  All-reduce adds the packs in rank order and   *)
(* all-gather lays them side by side; either reads the same cells.         *)
Reduce(r, b) ==
  LET n == launches[r]
      slot == Slot(reg[r][b])
  IN  /\ pc[r][b] = "check"
      /\ out' = IF ~MayStore(r) THEN out
                ELSE [out EXCEPT ![r] = [i \in Cells |->
                        IF i \in Share(b, Grid[n], Packs[n])
                        THEN [p \in Ranks |-> IF p = r THEN n ELSE recv[r][p][slot][i]]
                        ELSE @[i]]]
      /\ pc' = [pc EXCEPT ![r][b] = "tail"]
      /\ UNCHANGED <<epoch, poison, stageCtr, tailCtr, reg>>
      /\ UNCHANGED <<hostVars, regionVars, proxyVars, netVars, stops>>

AlwaysPublish(r) == TRUE      \* mutant: a failed launch advances the epoch
MayPublish(r) == ctrlErr[r] = 0

(* The last block to arrive publishes the epoch, unless the launch failed. *)
Publish(r, b) ==
  LET g == Grid[launches[r]]
      c == CounterClass(g)
      arrived == (tailCtr[r][c] + 1) % CtrMod
  IN  /\ pc[r][b] = "tail"
      /\ tailCtr' = [tailCtr EXCEPT ![r][c] = arrived]
      /\ epoch' = IF arrived % g = 0 /\ MayPublish(r)
                  THEN [epoch EXCEPT ![r] = reg[r][b]] ELSE epoch
      /\ pc' = [pc EXCEPT ![r][b] = "done"]
      /\ UNCHANGED <<poison, stageCtr, reg, out>>
      /\ UNCHANGED <<hostVars, regionVars, proxyVars, netVars, stops>>

-----------------------------------------------------------------------------
(* The proxy thread.                                                       *)

(* Writes that are not completed: each has one flag.  A completion counts  *)
(* as polled at once; one that waits in the completion queue only delays   *)
(* the next Post, which may be late anyway.                                *)
Outstanding(r, p, h) ==
  Cardinality({k \in DOMAIN wq[r][p][h] : wq[r][p][h][k].kind = "flag"})

Broken(r, h) == \E p \in Peers(r) : ~qpUp[r][p][h]

LastAgain(r) == last[r]       \* mutant: the last sequence is posted again
Posting(r) == Succ(last[r])

Fail(r) ==
  /\ failed' = [failed EXCEPT ![r] = TRUE]
  /\ px' = [px EXCEPT ![r] = "dead"]
  /\ UNCHANGED <<running, last, pend, cursor, nbytes>>

(* What post_op starts with, for the collective after seq.                 *)
BeginOp(r, seq) ==
  /\ cursor' = [cursor EXCEPT ![r] = [peer |-> FirstPeer(r), hca |-> 0]]
  /\ nbytes' = [nbytes EXCEPT ![r] = ctrlBytes[r][Slot(Succ(seq))]]

(* The thread sees a new doorbell.  It has only the newest sequence, so it *)
(* may have to catch up; more than one doorbell per slot is fatal.         *)
SeeDoorbell(r) ==
  LET pending == (ctrlSeq[r] - last[r] + SeqMod) % SeqMod
  IN  /\ px[r] = "poll"
      /\ running[r]
      /\ pending > 0
      /\ IF pending > SLOTS
         THEN Fail(r)
         ELSE /\ px' = [px EXCEPT ![r] = "post"]
              /\ pend' = [pend EXCEPT ![r] = pending]
              /\ BeginOp(r, last[r])
              /\ UNCHANGED <<running, failed, last>>
      /\ UNCHANGED <<hostVars, gpuVars, regionVars, netVars, stops>>

(* The writes of one connection: the stripe of its HCA, when it is not     *)
(* empty, and the sequence number behind it.  A queue pair in the error    *)
(* state flushes what is posted.                                           *)
Post(r) ==
  LET p == cursor[r].peer
      h == cursor[r].hca
      seq == Posting(r)
      packs == Stripe(h, nbytes[r])
      data == [kind |-> "data", seq |-> seq, packs |-> packs]
      mark == [kind |-> "flag", seq |-> seq, packs |-> {}]
  IN  /\ px[r] = "post"
      /\ nbytes[r] # 0
      /\ p < World
      /\ Outstanding(r, p, h) < SendLimit
      /\ wq' = IF ~qpUp[r][p][h] THEN wq
               ELSE [wq EXCEPT ![r][p][h] =
                       @ \o (IF packs = {} THEN <<mark>> ELSE <<data, mark>>)]
      /\ cursor' = [cursor EXCEPT ![r] =
                      IF h + 1 < NHca THEN [peer |-> p, hca |-> h + 1]
                                      ELSE [peer |-> NextPeer(r, p), hca |-> 0]]
      /\ UNCHANGED <<px, running, failed, last, pend, nbytes, qpUp, faults>>
      /\ UNCHANGED <<hostVars, gpuVars, regionVars, stops>>

(* post_op gives up: the collective has no size, ibv_post_send refuses, or *)
(* the thread was told to stop while the queue is full.                    *)
PostFails(r) ==
  LET p == cursor[r].peer
      h == cursor[r].hca
  IN  /\ px[r] = "post"
      /\ \/ nbytes[r] = 0
         \/ p < World /\ ~qpUp[r][p][h]
         \/ p < World /\ Outstanding(r, p, h) >= SendLimit /\ ~running[r]
      /\ Fail(r)
      /\ UNCHANGED <<hostVars, gpuVars, regionVars, netVars, stops>>

(* All connections are served: poll the completions, advance last_seq, go  *)
(* on with the next missed doorbell.                                       *)
EndOp(r) ==
  /\ px[r] = "post"
  /\ cursor[r].peer >= World
  /\ IF \E h \in Hcas : Broken(r, h)
     THEN Fail(r)
     ELSE /\ last' = [last EXCEPT ![r] = Posting(r)]
          /\ pend' = [pend EXCEPT ![r] = @ - 1]
          /\ IF pend[r] > 1
             THEN BeginOp(r, Posting(r)) /\ UNCHANGED px
             ELSE px' = [px EXCEPT ![r] = "poll"] /\ UNCHANGED <<cursor, nbytes>>
          /\ UNCHANGED <<running, failed>>
  /\ UNCHANGED <<hostVars, gpuVars, regionVars, netVars, stops>>

(* drain_cq while the thread idles, or while it waits for room in a queue, *)
(* finds a write that failed.                                              *)
DrainFails(r, h) ==
  /\ \/ px[r] = "poll" /\ running[r] /\ ctrlSeq[r] = last[r]
     \/ px[r] = "post" /\ cursor[r].peer < World /\ cursor[r].hca = h
        /\ Outstanding(r, cursor[r].peer, h) >= SendLimit
  /\ Broken(r, h)
  /\ Fail(r)
  /\ UNCHANGED <<hostVars, gpuVars, regionVars, netVars, stops>>

(* The thread notices that it was told to stop.                            *)
ThreadExit(r) ==
  /\ px[r] = "poll"
  /\ ~running[r]
  /\ px' = [px EXCEPT ![r] = "off"]
  /\ UNCHANGED <<running, failed, last, pend, cursor, nbytes>>
  /\ UNCHANGED <<hostVars, gpuVars, regionVars, netVars, stops>>

RoceStop(r) ==
  /\ r \in Faulty /\ stops + faults < MaxStops
  /\ host[r] = "open"
  /\ running[r]
  /\ running' = [running EXCEPT ![r] = FALSE]
  /\ stops' = stops + 1
  /\ UNCHANGED <<px, failed, last, pend, cursor, nbytes>>
  /\ UNCHANGED <<hostVars, gpuVars, regionVars, netVars>>

(* roce_start once roce_stop has joined the thread: it resumes behind the  *)
(* last collective it posted completely.                                   *)
RoceStart(r) ==
  /\ host[r] \in {"open", "raised"}
  /\ ~running[r]
  /\ px[r] \in {"off", "dead"}
  /\ running' = [running EXCEPT ![r] = TRUE]
  /\ failed' = [failed EXCEPT ![r] = FALSE]
  /\ px' = [px EXCEPT ![r] = "poll"]
  /\ UNCHANGED <<last, pend, cursor, nbytes>>
  /\ UNCHANGED <<hostVars, gpuVars, regionVars, netVars, stops>>

-----------------------------------------------------------------------------
(* The network.  Writes of one connection are executed in order; nothing   *)
(* orders the connections.  The NIC reads the send slot when it executes   *)
(* the write, not when the write is posted.                                *)

Connected(r, p, h) == qpUp[r][p][h] /\ qpUp[p][r][h]

(* The request w of r is executed in the region of p.                      *)
PutData(r, p, w) ==
  LET s == Slot(w.seq)
  IN  recv' = [recv EXCEPT ![p][r][s] = [i \in Cells |->
                 IF i \in w.packs THEN send[r][s][i] ELSE @[i]]]

PutFlag(r, p, h, w) == flag' = [flag EXCEPT ![p][r][Slot(w.seq)][h] = w.seq]

Executed(r, p, h) == /\ wq' = [wq EXCEPT ![r][p][h] = Tail(@)]
                     /\ UNCHANGED <<qpUp, faults>>

WriteData(r, p, h) ==
  /\ Connected(r, p, h)
  /\ wq[r][p][h] # <<>>
  /\ Head(wq[r][p][h]).kind = "data"
  /\ PutData(r, p, Head(wq[r][p][h]))
  /\ Executed(r, p, h)
  /\ UNCHANGED <<send, flag, ctrlSeq, ctrlErr, ctrlBytes>>
  /\ UNCHANGED <<hostVars, gpuVars, proxyVars, stops>>

WriteFlag(r, p, h) ==
  /\ Connected(r, p, h)
  /\ wq[r][p][h] # <<>>
  /\ Head(wq[r][p][h]).kind = "flag"
  /\ PutFlag(r, p, h, Head(wq[r][p][h]))
  /\ Executed(r, p, h)
  /\ UNCHANGED <<send, recv, ctrlSeq, ctrlErr, ctrlBytes>>
  /\ UNCHANGED <<hostVars, gpuVars, proxyVars, stops>>

(* The retries of a connection are exhausted, because a link broke or      *)
(* because the other end is gone.  What was posted on it is flushed.       *)
BreakQp(r, p, h) ==
  /\ qpUp[r][p][h]
  /\ wq[r][p][h] # <<>>
  /\ \/ r \in Faulty /\ faults + stops < MaxFaults /\ faults' = faults + 1
     \/ ~qpUp[p][r][h] /\ UNCHANGED faults
  /\ qpUp' = [qpUp EXCEPT ![r][p][h] = FALSE]
  /\ wq' = [wq EXCEPT ![r][p][h] = <<>>]
  /\ UNCHANGED <<hostVars, gpuVars, regionVars, proxyVars, stops>>

-----------------------------------------------------------------------------
BlockStep(r, b) == \/ Start(r, b) \/ Stage(r, b) \/ WaitDone(r, b)
                   \/ Timeout(r, b) \/ Reduce(r, b) \/ Publish(r, b)

ProxyStep(r) == \/ SeeDoorbell(r) \/ Post(r) \/ PostFails(r) \/ EndOp(r)
                \/ ThreadExit(r) \/ \E h \in Hcas : DrainFails(r, h)

NicStep(r, p, h) == WriteData(r, p, h) \/ WriteFlag(r, p, h)

(* The rank has done what it is asked to, or has given up.                 *)
Finished(r) ==
  \/ host[r] = "closed"
  \/ ~CanClose /\ host[r] = "raised"
  \/ ~CanClose /\ launches[r] = MaxOps /\ Idle(r) /\ px[r] = "poll" /\ ctrlSeq[r] = last[r]

Done == (\A r \in Ranks : Finished(r)) /\ UNCHANGED vars

Next ==
  \/ \E r \in Ranks : \/ Launch(r) \/ CheckHealth(r) \/ Close(r) \/ Destroy(r)
                      \/ RoceStop(r) \/ RoceStart(r) \/ ProxyStep(r)
  \/ \E r \in Ranks, b \in Blocks : BlockStep(r, b)
  \/ \E r \in Ranks : \E p \in Peers(r), h \in Hcas :
        NicStep(r, p, h) \/ BreakQp(r, p, h)
  \/ Done

Spec == Init /\ [][Next]_vars

(* Threads, blocks and NICs keep running, and the host keeps launching     *)
(* until it has raised.  Nothing forces a link to break or a stop.         *)
Fairness ==
  /\ \A r \in Ranks : /\ WF_vars(Launch(r)) /\ WF_vars(CheckHealth(r))
                      /\ WF_vars(Close(r)) /\ WF_vars(Destroy(r))
                      /\ WF_vars(RoceStart(r)) /\ WF_vars(ProxyStep(r))
  /\ \A r \in Ranks, b \in Blocks : WF_vars(BlockStep(r, b))
  /\ \A r, p \in Ranks, h \in Hcas :
        p # r => WF_vars(NicStep(r, p, h)) /\ WF_vars(~qpUp[p][r][h] /\ BreakQp(r, p, h))

FairSpec == Spec /\ Fairness

-----------------------------------------------------------------------------
(* Properties.                                                             *)

Request == [kind : {"data", "flag"}, seq : Seqs, packs : SUBSET Cells]

HostType ==
  /\ host \in [Ranks -> {"open", "raised", "closing", "closed"}]
  /\ launches \in [Ranks -> 0 .. MaxOps]
  /\ stops \in 0 .. MaxStops

GpuType ==
  /\ epoch \in [Ranks -> Seqs]
  /\ poison \in [Ranks -> Seqs]
  /\ stageCtr \in [Ranks -> [1 .. MaxBlocks -> 0 .. CtrMod - 1]]
  /\ tailCtr \in [Ranks -> [1 .. MaxBlocks -> 0 .. CtrMod - 1]]
  /\ pc \in [Ranks -> [Blocks -> {"start", "stage", "wait", "check", "tail", "done"}]]
  /\ reg \in [Ranks -> [Blocks -> Seqs]]
  /\ out \in [Ranks -> [Cells -> {Unset} \cup [Ranks -> 0 .. MaxOps]]]

RegionType ==
  /\ send \in [Ranks -> [SlotIds -> [Cells -> 0 .. MaxOps]]]
  /\ recv \in [Ranks -> [Ranks -> [SlotIds -> [Cells -> 0 .. MaxOps]]]]
  /\ flag \in [Ranks -> [Ranks -> [SlotIds -> [Hcas -> Seqs]]]]
  /\ ctrlSeq \in [Ranks -> Seqs]
  /\ ctrlErr \in [Ranks -> Seqs]
  /\ ctrlBytes \in [Ranks -> [SlotIds -> 0 .. MaxPacks]]

ProxyType ==
  /\ px \in [Ranks -> {"poll", "post", "off", "dead"}]
  /\ running \in [Ranks -> BOOLEAN]
  /\ failed \in [Ranks -> BOOLEAN]
  /\ last \in [Ranks -> Seqs]
  /\ pend \in [Ranks -> 0 .. SLOTS]
  /\ cursor \in [Ranks -> [peer : 0 .. World, hca : Hcas]]
  /\ nbytes \in [Ranks -> 0 .. MaxPacks]

NetType ==
  /\ wq \in [Ranks -> [Ranks -> [Hcas -> Seq(Request)]]]
  /\ qpUp \in [Ranks -> [Ranks -> [Hcas -> BOOLEAN]]]
  /\ faults \in 0 .. MaxFaults

(* Every variable has its type.                                            *)
TypeOK == HostType /\ GpuType /\ RegionType /\ ProxyType /\ NetType

(* Nothing derived from an unreliable slot is stored: every pack of output *)
(* that a kernel stores combines the data that all ranks contributed to    *)
(* this very collective.                                                   *)
FreshResult ==
  \A r \in Ranks, i \in Cells :
    out[r][i] = Unset \/ \A p \in Ranks : out[r][i][p] = launches[r]

(* A published epoch stands for a complete result of this collective: no   *)
(* block was left behind, whatever the grids of the earlier launches were, *)
(* and no pack of an earlier one was taken for it.                         *)
PublishedResult ==
  \A r \in Ranks :
    launches[r] > 0 /\ epoch[r] = launches[r] % SeqMod
      => \A i \in 0 .. Packs[launches[r]] - 1 :
           out[r][i] # Unset /\ \A p \in Ranks : out[r][i][p] = launches[r]

(* The last collective whose writes are all posted, also in the moment     *)
(* before last_seq says so, and the doorbells behind it.                   *)
Posted(r) ==
  IF px[r] = "post" /\ cursor[r].peer >= World THEN Posting(r) ELSE last[r]
Pending(r) == (ctrlSeq[r] - Posted(r) + SeqMod) % SeqMod
AllUp(r) == \A h \in Hcas : ~Broken(r, h)
Holds(r, seq, packs) == \A i \in packs : send[r][Slot(seq)][i] % SeqMod = seq

(* Every send slot is intact when it is needed: the doorbells that the     *)
(* proxy has not posted yet, and the posted writes whose receiver has not  *)
(* published that collective, still find its complete payload.             *)
SendSlotIntact ==
  \A r \in Ranks :
    /\ AllUp(r) => \A k \in 1 .. Pending(r) :
         LET seq == (Posted(r) + k) % SeqMod
         IN  Holds(r, seq, 0 .. ctrlBytes[r][Slot(seq)] - 1)
    /\ \A p \in Peers(r), h \in Hcas : \A k \in DOMAIN wq[r][p][h] :
         LET w == wq[r][p][h][k]
         IN  w.seq \in {Succ(epoch[p]), Succ(Succ(epoch[p]))} => Holds(r, w.seq, w.packs)

(* At most one doorbell per slot is pending, and the size that goes with   *)
(* each of them is the one its collective was launched with.               *)
DoorbellBound ==
  \A r \in Ranks : AllUp(r) =>
    /\ Pending(r) <= SLOTS
    /\ \A k \in 1 .. Pending(r) :
         LET seq == (Posted(r) + k) % SeqMod
         IN  \E n \in Ops : n % SeqMod = seq /\ ctrlBytes[r][Slot(seq)] = Packs[n]

(* Peers cannot get further than one collective ahead of us.               *)
Lockstep ==
  \A r, p \in Ranks : epoch[p] \in {epoch[r], Succ(epoch[r])} \/ epoch[r] = Succ(epoch[p])

(* A failed sequence keeps the epoch: after a recorded timeout the rank    *)
(* never publishes another collective and never forgets the timeout.       *)
FailStop ==
  [][\A r \in Ranks : ctrlErr[r] # 0 => epoch'[r] = epoch[r] /\ ctrlErr'[r] # 0]_vars

(* The collectives of the program, as long as the sequence words do not    *)
(* wrap: a rank rings its doorbell to contribute, and publishes its epoch  *)
(* to complete.                                                            *)
Promise == INSTANCE Collective WITH given <- ctrlSeq, got <- epoch

(* The kernels, proxies and NICs implement the abstract collective, also   *)
(* when connections break and waits time out.                              *)
Implements == Promise!Spec

(* Every rank completes every collective when nothing breaks.              *)
AllComplete ==
  <>(\A r \in Ranks : launches[r] = MaxOps /\ Idle(r) /\ epoch[r] = MaxOps % SeqMod)

(* Whatever breaks, no rank hangs: it completes its collectives or its     *)
(* host learns of the failure.                                             *)
NobodyHangs ==
  \A r \in Ranks : <>(host[r] = "raised" \/ (Idle(r) /\ epoch[r] = MaxOps % SeqMod))
=============================================================================
