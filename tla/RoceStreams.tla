---------------------------- MODULE RoceStreams ----------------------------
(***************************************************************************)
(* How one rank's host puts collectives on CUDA streams: all_reduce,       *)
(* all_gather and capture of roce_oneshot.py.  The host queues tasks, each *)
(* stream runs its own tasks in order, streams run concurrently.  The      *)
(* runtime has one epoch and two slots, so kernels must run one at a time  *)
(* and in launch order: RoceOneshot takes that for granted.                *)
(*                                                                         *)
(* Every launch of a kernel, eager or by the replay of a graph, has a      *)
(* number.  Data is the set of the launches whose input it comes from.     *)
(***************************************************************************)
EXTENDS Integers, Sequences, FiniteSets, SequencesExt

CONSTANTS Streams,
          Uses,            \* how the caller may use the runtime
          MaxLaunches,     \* bound: launches
          MaxCaptures,     \* bound: graphs captured
          MaxGraph         \* bound: collectives of one graph

NoStream == "none"       \* the None of _last_stream

(* Streams with eager collectives; those among them whose inputs may need  *)
(* scratch; streams on which graphs are replayed; whether graphs are       *)
(* captured at all, inside and outside capture().                          *)
ASSUME StreamsAssumption ==
  /\ Uses \subseteq [eager : SUBSET Streams, scratch : SUBSET Streams,
                     replay : SUBSET Streams, graphs : BOOLEAN]
  /\ MaxLaunches \in Nat /\ MaxCaptures \in Nat /\ MaxGraph \in Nat
  /\ NoStream \notin Streams

(* Where a kernel reads and writes: the tensors of its own call, the two   *)
(* alignment buffers, or the two buffers of the padded gather.             *)
Reduces == [src : {"inp", "align0"}, dst : {"out", "align1"}]
PaddedGather == [src |-> "staged", dst |-> "gathered"]
Kinds == Reduces \cup {PaddedGather}    \* a direct gather is a direct reduce here
Scratch == {"align0", "align1", "staged", "gathered"}

VARIABLES queue,      \* queue[s]: tasks not yet executed, in order
          running,    \* kernels that have begun: launch number -> data read
          ran,        \* launch numbers in the order in which they began
          scratch,    \* scratch[b]: the data in buffer b
          result,     \* result[n]: the data in the output of launch n
          launched,   \* number of launches
          lastStream, \* _last_stream
          event,      \* the launch after which _stream_event was last recorded
          capture,    \* CUDA's capture id, 0 when no graph is being captured
          captures,   \* captures so far
          known,      \* _capture_id and _capture_stream
          graph,      \* the last graph: the kinds of its collectives, their streams
          gatherReady, \* _gather_buffers is allocated
          use         \* how this caller uses the runtime

streamsVars == <<queue, running, ran, scratch, result, launched, lastStream, event,
                 capture, captures, known, graph, gatherReady, use>>
device == <<running, ran, scratch, result>>

NotKnown == [id |-> 0, stream |-> NoStream]
EmptyGraph == [kinds |-> <<>>, on |-> {}]

StreamsInit ==
  /\ queue = [s \in Streams |-> <<>>]
  /\ running = [n \in {} |-> {}]
  /\ ran = <<>>
  /\ scratch = [b \in Scratch |-> {}]
  /\ result = [n \in 1 .. MaxLaunches |-> {}]
  /\ launched = 0
  /\ lastStream = NoStream
  /\ event = 0
  /\ capture = 0
  /\ captures = 0
  /\ known = NotKnown
  /\ graph = EmptyGraph
  /\ gatherReady = FALSE
  /\ use \in Uses

-----------------------------------------------------------------------------
(* The tasks of one collective.                                            *)

CopyIn(n, k) == IF k.src = "inp" THEN <<>> ELSE <<[op |-> "copyin", n |-> n, buf |-> k.src]>>
CopyOut(n, k) == IF k.dst = "out" THEN <<>> ELSE <<[op |-> "copyout", n |-> n, buf |-> k.dst]>>
Kernel(n, k) == <<[op |-> "kernel", n |-> n, src |-> k.src, dst |-> k.dst]>>

(* _order_stream: wait for the event when the previous collective was on   *)
(* another stream.                                                         *)
NeverWaits(s) == <<>>                        \* mutant: streams are not ordered
OrderStream(s) ==
  IF lastStream # NoStream /\ s # lastStream THEN <<[op |-> "wait", n |-> event]>> ELSE <<>>

(* _mark_stream *)
MarkStream(n) == <<[op |-> "record", n |-> n]>>

(* all_reduce copies its result out before it marks the stream, all_gather *)
(* afterwards; both copy their input in before they order the stream.      *)
MarkFirst(n, k, order, mark) ==              \* mutant: the mark does not cover the copy
  CopyIn(n, k) \o order \o Kernel(n, k) \o mark \o CopyOut(n, k)
Tasks(n, k, order, mark) ==
  CopyIn(n, k) \o order \o Kernel(n, k)
    \o (IF k \in Reduces THEN CopyOut(n, k) \o mark ELSE mark \o CopyOut(n, k))

Eager(s, k) ==
  /\ capture = 0
  /\ launched < MaxLaunches
  /\ k.src # "inp" => s \in use.scratch
  /\ launched' = launched + 1
  /\ queue' = [queue EXCEPT ![s] = @ \o Tasks(launched', k, OrderStream(s), MarkStream(launched'))]
  /\ event' = launched'
  /\ lastStream' = s
  /\ gatherReady' = (gatherReady \/ k = PaddedGather)
  /\ UNCHANGED <<device, capture, captures, known, graph, use>>

-----------------------------------------------------------------------------
(* Graphs.  capture() forgets the last stream when it is entered and left; *)
(* torch.cuda.graph synchronises the device before a capture begins.       *)

CaptureContext ==
  /\ use.graphs
  /\ capture = 0
  /\ lastStream' = NoStream
  /\ known' = NotKnown
  /\ UNCHANGED <<queue, device, launched, event, capture, captures, graph, gatherReady, use>>

BeginCapture ==
  /\ use.graphs
  /\ capture = 0
  /\ captures < MaxCaptures
  /\ \A s \in Streams : queue[s] = <<>>
  /\ running = [n \in {} |-> {}]
  /\ capture' = captures + 1
  /\ captures' = captures + 1
  /\ graph' = EmptyGraph
  /\ UNCHANGED <<queue, device, launched, lastStream, event, known, gatherReady, use>>

(* A collective under capture; it is refused on a second stream, and when  *)
(* it would allocate scratch.                                              *)
AnyStream(s) == TRUE                         \* mutant: the second stream is not refused
SameStream(s) == known.id = capture => known.stream = s

Captured(s, k) ==
  /\ capture # 0
  /\ Len(graph.kinds) < MaxGraph
  /\ k = PaddedGather => gatherReady
  /\ SameStream(s)
  /\ known' = IF known.id # capture THEN [id |-> capture, stream |-> s] ELSE known
  /\ graph' = [kinds |-> Append(graph.kinds, k), on |-> graph.on \cup {s}]
  /\ UNCHANGED <<queue, device, launched, lastStream, event, capture, captures, gatherReady, use>>

EndCapture ==
  /\ capture # 0
  /\ capture' = 0
  /\ UNCHANGED <<queue, device, launched, lastStream, event, captures, known, graph, gatherReady, use>>

(* A replay runs the captured collectives one after the other.  It makes   *)
(* no call into the runtime.                                               *)
Replay(s) ==
  /\ capture = 0
  /\ graph.kinds # <<>>
  /\ launched + Len(graph.kinds) <= MaxLaunches
  /\ launched' = launched + Len(graph.kinds)
  /\ LET Part(i) == Tasks(launched + i, graph.kinds[i], <<>>, <<>>)
     IN  queue' = [queue EXCEPT ![s] = @ \o FlattenSeq([i \in DOMAIN graph.kinds |-> Part(i)])]
  /\ UNCHANGED <<device, lastStream, event, capture, captures, known, graph, gatherReady, use>>

-----------------------------------------------------------------------------
(* The device: streams execute their tasks.                                *)

host == <<launched, lastStream, event, capture, captures, known, graph, gatherReady, use>>

NextIs(s, op) == queue[s] # <<>> /\ Head(queue[s]).op = op
Pop(s) == queue' = [queue EXCEPT ![s] = Tail(@)]

(* What a task reads from, and where it leaves, data of launch n.          *)
Read(n, b) == IF b = "inp" THEN {n} ELSE scratch[b]
Store(n, b, data) ==
  IF b = "out" THEN result' = [result EXCEPT ![n] = data] /\ UNCHANGED scratch
               ELSE scratch' = [scratch EXCEPT ![b] = data] /\ UNCHANGED result

RunCopyIn(s) ==
  /\ NextIs(s, "copyin")
  /\ Store(Head(queue[s]).n, Head(queue[s]).buf, {Head(queue[s]).n})
  /\ Pop(s)
  /\ UNCHANGED <<running, ran, host>>

RunCopyOut(s) ==
  /\ NextIs(s, "copyout")
  /\ Store(Head(queue[s]).n, "out", Read(Head(queue[s]).n, Head(queue[s]).buf))
  /\ Pop(s)
  /\ UNCHANGED <<running, ran, host>>

(* A wait is over when the recording that it refers to has been executed.  *)
RunWait(s) ==
  /\ NextIs(s, "wait")
  /\ \A t \in Streams : ~Contains(queue[t], [op |-> "record", n |-> Head(queue[s]).n])
  /\ Pop(s)
  /\ UNCHANGED <<device, host>>

RunRecord(s) ==
  /\ NextIs(s, "record")
  /\ Pop(s)
  /\ UNCHANGED <<device, host>>

(* A kernel reads its input when it stages it and again when it reduces.   *)
KernelBegin(s) ==
  /\ NextIs(s, "kernel")
  /\ LET t == Head(queue[s])
     IN  /\ t.n \notin DOMAIN running
         /\ running' = [m \in DOMAIN running \cup {t.n} |->
                          IF m = t.n THEN Read(t.n, t.src) ELSE running[m]]
         /\ ran' = Append(ran, t.n)
  /\ UNCHANGED <<queue, scratch, result, host>>

KernelEnd(s) ==
  /\ NextIs(s, "kernel")
  /\ LET t == Head(queue[s])
     IN  /\ t.n \in DOMAIN running
         /\ Store(t.n, t.dst, running[t.n] \cup Read(t.n, t.src))
         /\ running' = [m \in DOMAIN running \ {t.n} |-> running[m]]
  /\ Pop(s)
  /\ UNCHANGED <<ran, host>>

-----------------------------------------------------------------------------
Run(s) == \/ RunCopyIn(s) \/ RunCopyOut(s) \/ RunWait(s) \/ RunRecord(s)
          \/ KernelBegin(s) \/ KernelEnd(s)

StreamsNext ==
  \/ \E s \in use.eager, k \in Kinds : Eager(s, k)
  \/ CaptureContext \/ BeginCapture \/ EndCapture
  \/ \E s \in Streams, k \in Kinds : Captured(s, k)
  \/ \E s \in use.replay : graph.on = {s} /\ Replay(s)
  \/ \E s \in Streams : Run(s)

StreamsSpec == StreamsInit /\ [][StreamsNext]_streamsVars

-----------------------------------------------------------------------------
(* Properties.                                                             *)

Launches == 1 .. MaxLaunches

(* Every variable has its type.                                            *)
StreamsTypeOK ==
  /\ \A s \in Streams : \A i \in DOMAIN queue[s] :
       queue[s][i].op \in {"copyin", "copyout", "kernel", "wait", "record"} /\ queue[s][i].n \in Launches
  /\ DOMAIN running \subseteq Launches /\ \A n \in DOMAIN running : running[n] \subseteq Launches
  /\ \A i \in DOMAIN ran : ran[i] \in Launches
  /\ scratch \in [Scratch -> SUBSET Launches]
  /\ result \in [Launches -> SUBSET Launches]
  /\ launched \in 0 .. MaxLaunches /\ event \in 0 .. launched
  /\ lastStream \in Streams \cup {NoStream}
  /\ captures \in 0 .. MaxCaptures /\ capture \in {0, captures}
  /\ known.id \in 0 .. captures /\ known.stream \in Streams \cup {NoStream}
  /\ \A i \in DOMAIN graph.kinds : graph.kinds[i] \in Kinds
  /\ gatherReady \in BOOLEAN /\ use \in Uses

(* Collectives execute in launch order even across streams, and one at a   *)
(* time: what the single epoch, doorbell and pair of slots need.           *)
LaunchOrder ==
  /\ \A i \in DOMAIN ran : ran[i] = i
  /\ Cardinality(DOMAIN running) <= 1

(* What a call returns comes from the input of that call, whatever buffers *)
(* it was staged through and whatever runs on the other streams.           *)
OwnResult == \A n \in Launches : result[n] \subseteq {n}

(* All collectives of one graph were captured on one stream, also when     *)
(* captures follow each other on different streams.                        *)
OneStreamPerGraph == Cardinality(graph.on) <= 1

(* Consecutive captures may use different streams: what an earlier capture *)
(* left behind never refuses the first collective of a new one.            *)
FreshCapture == capture # 0 /\ graph.kinds = <<>> => \A s \in Streams : SameStream(s)

(* Both: captures are kept apart, by their ids and not by their streams.   *)
CapturesApart == OneStreamPerGraph /\ FreshCapture
=============================================================================
