----------------------------- MODULE RoceSetup -----------------------------
(***************************************************************************)
(* How the ranks of a TP group agree on RoCEnante at start-up: the vote of *)
(* the adapter (roce/glm_roce/adapter.py), the two exchanges of the        *)
(* runtime's constructor (roce_oneshot.py) and the final agreement of the  *)
(* adapter.  Each of them is an all-gather of one object over the gloo     *)
(* group.  Gloo knows nothing of call sites: the k-th call of one rank     *)
(* meets the k-th call of every other rank.                                *)
(***************************************************************************)
EXTENDS Integers, Sequences

CONSTANTS World,         \* number of ranks
          Limits,        \* size limits that a rank may have parsed
          Configs,       \* protocol configurations that a rank may have
          Require,       \* Require[r]: GLM_ROCE_REQUIRE of rank r
          CanFailEarly,  \* whether a constructor may fail before its first exchange
          MaxCrashes     \* bound: ranks whose process is killed

Ranks == 0 .. World - 1

ASSUME SetupAssumption == /\ World \in Nat \ {0}
                          /\ Limits # {} /\ Configs # {}
                          /\ Require \in [Ranks -> BOOLEAN]
                          /\ CanFailEarly \in BOOLEAN
                          /\ MaxCrashes \in Nat

VARIABLES pc,       \* where a rank stands; the name of the gather it waits in
          sent,     \* sent[r]: what rank r gave to its gathers, in order
          proxy,    \* "none", "created" or "running"
          crashes

vars == <<pc, sent, proxy, crashes>>

Gathers == {"vote", "exchange", "verdicts", "agree"}
Gone == {"raised", "crashed"}             \* the process is over
Settled == {"ready", "nccl"} \cup Gone

NoData == "nothing"

Init == /\ pc = [r \in Ranks |-> "check"]
        /\ sent = [r \in Ranks |-> <<>>]
        /\ proxy = [r \in Ranks |-> "none"]
        /\ crashes = 0

-----------------------------------------------------------------------------
(* all_gather_object.                                                      *)

Enter(r, site, bad, data) ==
  /\ pc' = [pc EXCEPT ![r] = site]
  /\ sent' = [sent EXCEPT ![r] = Append(@, [site |-> site, bad |-> bad, data |-> data])]

(* Every rank has made as many calls as r; what they gave to this one.     *)
Complete(r) == \A p \in Ranks : Len(sent[p]) >= Len(sent[r])
Given(r, p) == sent[p][Len(sent[r])]

-----------------------------------------------------------------------------
(* A rank reports in the vote why it cannot take part, or its limits.      *)
SkipVote(r) ==                \* mutant: a rank that cannot take part leaves
  /\ pc[r] = "check"
  /\ \/ pc' = [pc EXCEPT ![r] = "nccl"] /\ UNCHANGED sent
     \/ \E l \in Limits : Enter(r, "vote", FALSE, l)
  /\ UNCHANGED <<proxy, crashes>>
LocalCapability(r) ==
  /\ pc[r] = "check"
  /\ \/ Enter(r, "vote", TRUE, NoData)
     \/ \E l \in Limits : Enter(r, "vote", FALSE, l)
  /\ UNCHANGED <<proxy, crashes>>

VoteFailed(r) == \E p \in Ranks : Given(r, p).bad \/ Given(r, p).data # Given(r, 0).data

GiveUp(r) == pc' = [pc EXCEPT ![r] = IF Require[r] THEN "raised" ELSE "nccl"]

ReceiveVote(r) ==
  /\ pc[r] = "vote"
  /\ Complete(r)
  /\ IF VoteFailed(r) THEN GiveUp(r) ELSE pc' = [pc EXCEPT ![r] = "construct"]
  /\ UNCHANGED <<sent, proxy, crashes>>

(* What happens before the constructor's first try block may raise on one  *)
(* rank alone: reading the environment, pinning the region, and Layout,    *)
(* which builds and loads the proxy library.  The adapter catches it.      *)
ConstructFailsEarly(r) ==
  /\ CanFailEarly
  /\ pc[r] = "construct"
  /\ Enter(r, "agree", TRUE, NoData)
  /\ UNCHANGED <<proxy, crashes>>

(* The constructor creates the proxy and publishes its outcome.            *)
CreateProxy(r) ==
  /\ pc[r] = "construct"
  /\ \E ok \in BOOLEAN, c \in Configs :
       /\ proxy' = [proxy EXCEPT ![r] = IF ok THEN "created" ELSE "none"]
       /\ Enter(r, "exchange", ~ok, c)
  /\ UNCHANGED crashes

(* A failure, a configuration that differs, or a value of another gather,  *)
(* which reads as a failure.                                               *)
OwnFailure(r) == Given(r, r).bad          \* mutant: the peers are not looked at
SetupFailed(r) ==
  \E p \in Ranks : \/ Given(r, p).bad
                   \/ Given(r, p).site # "exchange"
                   \/ Given(r, p).data # Given(r, 0).data

(* close, and the exception that the adapter turns into its own report.    *)
Unclosed(r) == UNCHANGED proxy            \* mutant: close is forgotten
Release(r) == proxy' = [proxy EXCEPT ![r] = "none"]
Abort(r) == Release(r) /\ Enter(r, "agree", TRUE, NoData)

ReceiveExchange(r) ==
  /\ pc[r] = "exchange"
  /\ Complete(r)
  /\ IF SetupFailed(r) THEN Abort(r)
     ELSE pc' = [pc EXCEPT ![r] = "connect"] /\ UNCHANGED <<sent, proxy>>
  /\ UNCHANGED crashes

ConnectStart(r) ==
  /\ pc[r] = "connect"
  /\ \E ok \in BOOLEAN :
       /\ proxy' = IF ok THEN [proxy EXCEPT ![r] = "running"] ELSE proxy
       /\ Enter(r, "verdicts", ~ok, NoData)
  /\ UNCHANGED crashes

ReceiveVerdicts(r) ==
  /\ pc[r] = "verdicts"
  /\ Complete(r)
  /\ IF \E p \in Ranks : Given(r, p).bad THEN Abort(r)
     ELSE pc' = [pc EXCEPT ![r] = "prepare"] /\ UNCHANGED <<sent, proxy>>
  /\ UNCHANGED crashes

(* Compiling the launchers and allocating the scratch may fail as well.    *)
Prepare(r) ==
  /\ pc[r] = "prepare"
  /\ \E ok \in BOOLEAN : Enter(r, "agree", ~ok, NoData)
  /\ UNCHANGED <<proxy, crashes>>

(* Truthy values are errors: the reports, and the tuples of an exchange.   *)
OwnError(r) == IF Given(r, r).bad THEN {r} ELSE {}   \* mutant: no agreement
Errors(r) == {p \in Ranks : Given(r, p).bad \/ Given(r, p).site = "exchange"}

(* The last gather.  The message that lists the errors is joined from      *)
(* strings, so a tuple among them raises whatever GLM_ROCE_REQUIRE says.   *)
ReceiveAgreement(r) ==
  /\ pc[r] = "agree"
  /\ Complete(r)
  /\ IF Errors(r) = {} THEN pc' = [pc EXCEPT ![r] = "ready"] /\ UNCHANGED proxy
     ELSE /\ Release(r)
          /\ IF \E p \in Errors(r) : Given(r, p).site = "exchange"
             THEN pc' = [pc EXCEPT ![r] = "raised"]
             ELSE GiveUp(r)
  /\ UNCHANGED <<sent, crashes>>

-----------------------------------------------------------------------------
(* Killed processes, and gathers that raise because a member is gone.      *)

Crash(r) ==
  /\ crashes < MaxCrashes
  /\ pc[r] \notin Gone
  /\ pc' = [pc EXCEPT ![r] = "crashed"]
  /\ crashes' = crashes + 1
  /\ UNCHANGED <<sent, proxy>>

(* Only the gathers of the constructor are made inside the adapter's try.  *)
PeerLost(r) ==
  /\ pc[r] \in Gathers
  /\ \E p \in Ranks : pc[p] \in Gone
  /\ IF pc[r] \in {"exchange", "verdicts"} THEN Abort(r)
     ELSE pc' = [pc EXCEPT ![r] = "raised"] /\ UNCHANGED <<sent, proxy>>
  /\ UNCHANGED crashes

-----------------------------------------------------------------------------
Step(r) == \/ LocalCapability(r) \/ ReceiveVote(r)
           \/ ConstructFailsEarly(r) \/ CreateProxy(r) \/ ReceiveExchange(r)
           \/ ConnectStart(r) \/ ReceiveVerdicts(r)
           \/ Prepare(r) \/ ReceiveAgreement(r) \/ PeerLost(r)

(* Start-up is over, and the behaviour with it, when no step is left.      *)
Next == \E r \in Ranks : Step(r) \/ Crash(r)

Spec == Init /\ [][Next]_vars

(* Every rank goes on until it is settled; nothing forces a crash.         *)
FairSpec == Spec /\ \A r \in Ranks : WF_vars(Step(r))

-----------------------------------------------------------------------------
(* Properties.                                                             *)

Values == [site : Gathers, bad : BOOLEAN, data : Limits \cup Configs \cup {NoData}]

(* Every variable has its type, and no rank makes more than four gathers.  *)
TypeOK ==
  /\ pc \in [Ranks -> Gathers \cup Settled \cup {"check", "construct", "connect", "prepare"}]
  /\ sent \in [Ranks -> Seq(Values)]
  /\ \A r \in Ranks : Len(sent[r]) <= 4
  /\ proxy \in [Ranks -> {"none", "created", "running"}]
  /\ crashes \in 0 .. MaxCrashes

(* No rank can silently fall back alone: while one rank routes its         *)
(* collectives to RoCE, no other serves on NCCL, and none has raised       *)
(* unless a process was killed.                                            *)
AgreedRoute ==
  \A r, p \in Ranks :
    pc[r] = "ready" => pc[p] # "nccl" /\ (crashes = 0 => pc[p] # "raised")

(* A rank enters service only with peers that are connected and whose      *)
(* proxy threads run.                                                      *)
ServesConnected ==
  \A r, p \in Ranks : pc[r] = "ready" /\ pc[p] \notin Gone => proxy[p] = "running"

(* A rank that serves on NCCL has released its queue pairs and its thread. *)
NoProxyLeft == \A r \in Ranks : pc[r] = "nccl" => proxy[r] = "none"

(* The runtime coordinates its own failures.  As long as no process is     *)
(* killed, two ranks meet in a gather with different calls only if the     *)
(* constructor of one of them failed before its first exchange and that of *)
(* the other did not, and what they read then lets no rank connect, let    *)
(* alone serve.                                                            *)
Strayed(r) == Len(sent[r]) > 1 /\ sent[r][2].site # "exchange"
ExchangesMatch ==
  crashes = 0 =>
    \A r, p \in Ranks : \A k \in 1 .. Len(sent[r]) :
      k <= Len(sent[p]) /\ sent[r][k].site # sent[p][k].site =>
        /\ Strayed(r) # Strayed(p)
        /\ \A q \in Ranks : pc[q] \notin {"connect", "verdicts", "prepare", "ready"}

(* GLM_ROCE_REQUIRE=0 serves on NCCL instead: where no rank requires RoCE  *)
(* and no process is killed, a failed start-up raises nowhere.             *)
FallsBack ==
  crashes = 0 /\ (\A r \in Ranks : ~Require[r]) => \A r \in Ranks : pc[r] # "raised"

(* No rank is stranded in a gather: start-up ends everywhere.              *)
EverybodySettles == <>(\A r \in Ranks : pc[r] \in Settled)
=============================================================================
