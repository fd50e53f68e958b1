------------------------------ MODULE KdaStash ------------------------------
(***************************************************************************)
(* kda_verify_stash_kernel of overlay/kda_stash.py (and its copy in        *)
(* overlay/glm_kda_stash_fast.py): the verify recurrence of one head, whose*)
(* rows are split over the programs i_v of a launch.  The programs run in  *)
(* any order and share the side buffer aux, which program 0 alone writes;  *)
(* launches follow each other on one stream.                               *)
(* A state is abstracted to the sequence of the tokens folded into it.     *)
(***************************************************************************)
EXTENDS Integers, Sequences

CONSTANTS Programs,      \* NV: programs 0 .. Programs - 1 of a head
          MaxSpec,       \* speculative tokens: slots 0 .. MaxSpec
          MaxVerify      \* bound: launches

ASSUME StashAssumption == Programs \in Nat \ {0} /\ MaxSpec \in Nat \ {0} /\ MaxVerify \in Nat

Prog == 0 .. Programs - 1
Slots == 0 .. MaxSpec
Parities == {0, 1}
NoMark == 2                    \* the marker word is part of a state
Torn == 0                      \* a token whose k and v come from two records
Token(l, i) == l * (MaxSpec + 1) + i + 1

VARIABLES rows,      \* the program's rows of a slot: a state, or a record with its marker
          aux,       \* k and decay of a slot's token, one half for each parity
          launch,    \* launches so far
          width,     \* T: tokens of this launch
          fullMode,  \* full_mode of the sequence
          nAcc,      \* num_accepted_tokens, of the previous launch
          committed, \* the tokens the sequence consists of before this launch
          step,      \* what a program does next: "mark", "replay", "verify" or "done"
          at,        \* its loop counter
          par,       \* prev_par
          h          \* b_h

programs == <<step, at, par, h>>
stashVars == <<rows, aux, launch, width, fullMode, nAcc, committed, programs>>

Record(tok, m) == [mark |-> m, val |-> <<tok>>]
State(s) == [mark |-> NoMark, val |-> s]

StashInit ==
  /\ rows = [p \in Prog |-> [j \in Slots |-> State(<<>>)]]
  /\ aux = [j \in Slots |-> [q \in Parities |-> Torn]]
  /\ launch = 0 /\ width = 1 /\ fullMode = FALSE /\ nAcc = 1 /\ committed = <<>>
  /\ step = [p \in Prog |-> "done"] /\ at = [p \in Prog |-> 0]
  /\ par = [p \in Prog |-> 1] /\ h = [p \in Prog |-> <<>>]

Tokens(l, n) == [i \in 1 .. n |-> Token(l, i - 1)]
Go(p, s, i) == step' = [step EXCEPT ![p] = s] /\ at' = [at EXCEPT ![p] = i]

-----------------------------------------------------------------------------
(* The next launch: a tokens of the last one were accepted.                *)
Launch(t, a, f) ==
  /\ \A p \in Prog : step[p] = "done"
  /\ launch < MaxVerify /\ a <= width
  /\ committed' = IF launch = 0 THEN committed ELSE committed \o Tokens(launch, a)
  /\ nAcc' = a /\ width' = t /\ fullMode' = f /\ launch' = launch + 1
  /\ step' = [p \in Prog |-> "mark"]
  /\ UNCHANGED <<rows, aux, at, par, h>>

(* Between two launches align mode moves the sequence to other slots: the  *)
(* state of its accepted tokens goes to slot 0 and what the other slots    *)
(* hold is left over from another request.                                 *)
Rebase(a, m) ==
  /\ \A p \in Prog : step[p] = "done"
  /\ launch \in 1 .. MaxVerify - 1 /\ a <= width
  /\ committed' = committed \o Tokens(launch, a)
  /\ rows' = [p \in Prog |-> [j \in Slots |->
       IF j = 0 THEN State(committed \o Tokens(launch, a)) ELSE Record(Torn, m)]]
  /\ aux' = [j \in Slots |-> [q \in Parities |-> Torn]]
  /\ width' = 0 /\ nAcc' = 1
  /\ UNCHANGED <<launch, fullMode, programs>>
LaunchMoved(t, f) ==
  /\ width = 0 /\ launch < MaxVerify
  /\ width' = t /\ fullMode' = f /\ launch' = launch + 1
  /\ step' = [p \in Prog |-> "mark"]
  /\ UNCHANGED <<rows, aux, nAcc, committed, at, par, h>>

(* A program takes the previous parity from its own marker in slot 1, and  *)
(* its first state: of slot 0 when records are replayed on top of it.      *)
Marked(p, j) == rows[p][j].mark # NoMark
ReadMark(p) ==
  /\ step[p] = "mark"
  /\ par' = [par EXCEPT ![p] = IF Marked(p, 1) THEN rows[p][1].mark ELSE 1]
  /\ LET replays == nAcc > 1 /\ Marked(p, nAcc - 1)
     IN  /\ h' = [h EXCEPT ![p] = rows[p][IF replays THEN 0 ELSE nAcc - 1].val]
         /\ IF replays THEN Go(p, "replay", 1) ELSE Go(p, "verify", 0)
  /\ UNCHANGED <<rows, aux, launch, width, fullMode, nAcc, committed>>

(* A record's k and decay come from aux, its v and beta from the own rows. *)
ReplayOne(p) ==
  /\ step[p] = "replay"
  /\ LET j == at[p]
         own == rows[p][j].val[1]
         tok == IF aux[j][par[p]] = own THEN own ELSE Torn
     IN  /\ h' = [h EXCEPT ![p] = Append(h[p], tok)]
         /\ IF j + 1 < nAcc THEN Go(p, "replay", j + 1) ELSE Go(p, "verify", 0)
  /\ UNCHANGED <<rows, aux, launch, width, fullMode, nAcc, committed, par>>

SameParity(p) == par[p]                          \* mutant: the parity does not flip
NewParity(p) == 1 - par[p]
Stored(p, j) == Record(Token(launch, j), NewParity(p))

(* One token: a full state, or a record whose shared part program 0 writes.*)
VerifyOne(p) ==
  /\ step[p] = "verify"
  /\ LET i == at[p]
         s == Append(h[p], Token(launch, i))
         keeps == i = 0 \/ fullMode
     IN  /\ h' = [h EXCEPT ![p] = s]
         /\ rows' = [rows EXCEPT ![p][i] = IF keeps THEN State(s) ELSE Stored(p, i)]
         /\ aux' = IF keeps \/ p # 0 THEN aux
                   ELSE [aux EXCEPT ![i][NewParity(p)] = Token(launch, i)]
         /\ IF i + 1 < width THEN Go(p, "verify", i + 1) ELSE Go(p, "done", 0)
  /\ UNCHANGED <<launch, width, fullMode, nAcc, committed, par>>

StashNext ==
  \/ \E t \in 2 .. MaxSpec + 1 : \E f \in BOOLEAN :
       (\E a \in 1 .. MaxSpec + 1 : Launch(t, a, f)) \/ LaunchMoved(t, f)
  \/ \E a \in 1 .. MaxSpec + 1 : \E m \in Parities \cup {NoMark} : Rebase(a, m)
  \/ \E p \in Prog : ReadMark(p) \/ ReplayOne(p) \/ VerifyOne(p)

StashSpec == StashInit /\ [][StashNext]_stashVars

-----------------------------------------------------------------------------
(* However the programs of this launch and the kinds of the launches       *)
(* before it interleave, a program verifies on the state of exactly the    *)
(* committed tokens: no record is torn, stale, lost or replayed twice.     *)
Rebuilt ==
  \A p \in Prog : step[p] = "verify" => h[p] = committed \o Tokens(launch, at[p])
=============================================================================
