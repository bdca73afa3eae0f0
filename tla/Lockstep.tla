------------------------------ MODULE Lockstep ------------------------------
(***************************************************************************)
(* The synchronizer thread (synchronizer.rs) and the side of the party     *)
(* threads that talks to it (party.rs), joined by bounded FIFO channels.   *)
(* Sending to a thread that has ended fails if the thread was the only     *)
(* holder of the receiving end, and is lost without notice if another      *)
(* holds it too: a clone in the test harness, the TCP wrapper of io.rs.    *)
(* Both happen here.                                                       *)
(*                                                                         *)
(* Executing one instruction is a single state, "busy", which a party      *)
(* leaves with a reply or with an error; module Mpc opens it up.           *)
(***************************************************************************)
EXTENDS Integers, Sequences

CONSTANTS
  N,          \* the number of parties
  Cap,        \* the capacity of every channel
  Programs    \* the programs the parties may be given: functions on Party

Party == 0 .. N - 1

\* What an instruction means to the loop.  None of vm.rs makes a party answer
\* Abort; the synchronizer's test drives it with parties that do.
Instruction == {"op", "stop", "abort"}

ASSUME LockstepAssumption ==
  /\ N \in Nat \ {0}
  /\ Cap \in Nat \ {0}
  /\ Programs \subseteq [Party -> Seq(Instruction)]

SyncMsg == {"Start", "Next", "Abort"}
SyncReplyMsg == {"Ok", "Done", "Abort"}

VARIABLES
  spc,        \* where the synchronizer is
  sidx,       \* the channel its broadcast or receive loop has come to
  replies,    \* the replies it has received in this round, in channel order
  toParty,    \* toParty[p]: the messages in the channel to party p
  toSync,     \* toSync[p]: the replies in the channel from party p
  ppc,        \* ppc[p]: where party p is
  pc,         \* pc[p]: its instruction counter
  prog,       \* prog[p]: its program
  round,      \* history: the broadcasts of Next begun
  replied     \* history: the replies each party has sent

syncVars == <<spc, sidx, replies>>
chanVars == <<toParty, toSync>>
partyVars == <<ppc, pc, replied>>
vars == <<syncVars, chanVars, partyVars, prog, round>>

Ended == {"ok", "err", "panic"}
SyncGone_OkOnly == spc = "ok"
SyncGone == spc \in Ended
Gone(p) == ppc[p] \in Ended

TypeOK ==
  /\ spc \in {"start", "next", "collect", "abort"} \cup Ended
  /\ sidx \in 0 .. N
  /\ replies \in Seq(SyncReplyMsg)
  /\ toParty \in [Party -> Seq(SyncMsg)]
  /\ toSync \in [Party -> Seq(SyncReplyMsg)]
  /\ ppc \in [Party -> {"waiting", "running", "busy", "joining"} \cup Ended]
  /\ pc \in [Party -> Nat]
  /\ prog \in [Party -> Seq(Instruction)]
  /\ \A p \in Party : pc[p] <= Len(prog[p])
  /\ round \in Nat
  /\ replied \in [Party -> Nat]

Init ==
  /\ spc = "start" /\ sidx = 0 /\ replies = <<>>
  /\ toParty = [p \in Party |-> <<>>]
  /\ toSync = [p \in Party |-> <<>>]
  /\ ppc = [p \in Party |-> "waiting"]
  /\ pc = [p \in Party |-> 0]
  /\ prog \in Programs
  /\ round = 0
  /\ replied = [p \in Party |-> 0]

(* A definition named X_Y is X with a mistake Y: it is no part of the      *)
(* specification, and stands before the definition it is a variant of.     *)

-----------------------------------------------------------------------------
(* The synchronizer.                                                       *)

Broadcasting == spc \in {"start", "next", "abort"}

\* The loops over the channels, in broadcast and in receive, end here.
LoopEnds_Early == sidx > 0
LoopEnds == sidx = N

\* The message the broadcast in progress sends.
Announced_NextForAbort == IF spc = "start" THEN "Start" ELSE "Next"
Announced ==
  CASE spc = "start" -> "Start" [] spc = "next" -> "Next" [] OTHER -> "Abort"

\* One send of message::broadcast; it blocks while the channel is full.
Send ==
  /\ Broadcasting
  /\ sidx < N
  /\ Len(toParty[sidx]) < Cap
  /\ toParty' = [toParty EXCEPT ![sidx] = Append(@, Announced)]
  /\ sidx' = sidx + 1
  /\ UNCHANGED <<spc, replies, toSync, partyVars, prog, round>>

\* A send to a party that has ended may fail, and the broadcast with it: the
\* parties before this one have the message, those after do not.
SendFails ==
  /\ Broadcasting
  /\ sidx < N
  /\ Gone(sidx)
  /\ spc' = "err"
  /\ UNCHANGED <<sidx, replies, chanVars, partyVars, prog, round>>

\* Begin a broadcast of Next: the code does so after Start and in every round.
BroadcastNext ==
  /\ spc' = "next"
  /\ round' = round + 1

BroadcastEnds ==
  /\ Broadcasting
  /\ LoopEnds
  /\ sidx' = 0
  /\ CASE spc = "start" -> BroadcastNext
       [] spc = "next" -> spc' = "collect" /\ UNCHANGED round
       [] OTHER -> spc' = "ok" /\ UNCHANGED round
  /\ UNCHANGED <<replies, chanVars, partyVars, prog>>

\* One recv_timeout of message::receive that finds a reply.
Collect_Peek ==
  /\ spc = "collect"
  /\ sidx < N
  /\ toSync[sidx] # <<>>
  /\ replies' = Append(replies, Head(toSync[sidx]))
  /\ sidx' = sidx + 1
  /\ UNCHANGED <<spc, chanVars, partyVars, prog, round>>

Collect ==
  /\ spc = "collect"
  /\ sidx < N
  /\ toSync[sidx] # <<>>
  /\ replies' = Append(replies, Head(toSync[sidx]))
  /\ toSync' = [toSync EXCEPT ![sidx] = Tail(@)]
  /\ sidx' = sidx + 1
  /\ UNCHANGED <<spc, toParty, partyVars, prog, round>>

\* One that finds none: the party has ended, or one second has passed.
CollectFails ==
  /\ spc = "collect"
  /\ sidx < N
  /\ toSync[sidx] = <<>>
  /\ spc' = "err"
  /\ UNCHANGED <<sidx, replies, chanVars, partyVars, prog, round>>

\* Every party has replied: the if-chain of Synchronizer::listen.
Unanimous_Any(m) == \E i \in 1 .. Len(replies) : replies[i] = m
Unanimous(m) == \A i \in 1 .. Len(replies) : replies[i] = m

Decide ==
  /\ spc = "collect"
  /\ LoopEnds
  /\ sidx' = 0
  /\ replies' = <<>>
  /\ CASE Unanimous("Done") -> spc' = "ok" /\ UNCHANGED round
       [] \E i \in 1 .. Len(replies) : replies[i] = "Abort"
                            -> spc' = "abort" /\ UNCHANGED round
       [] Unanimous("Ok") -> BroadcastNext
       [] OTHER -> spc' = "panic" /\ UNCHANGED round
  /\ UNCHANGED <<chanVars, partyVars, prog>>

-----------------------------------------------------------------------------
(* A party.                                                                *)

\* Take the message at the head of the channel from the synchronizer.
TakeMsg(p) ==
  /\ toParty[p] # <<>>
  /\ toParty' = [toParty EXCEPT ![p] = Tail(@)]

\* The loop before Start drops every other message.
AwaitStart(p) ==
  /\ ppc[p] = "waiting"
  /\ TakeMsg(p)
  /\ ppc' = [ppc EXCEPT ![p] = IF Head(toParty[p]) = "Start" THEN "running" ELSE @]
  /\ UNCHANGED <<syncVars, toSync, pc, replied, prog, round>>

\* Fetch an instruction and hand it to the VM.  Abort, a second Start and a
\* Next beyond the end of the program panic.
Fetches_OffByOne(p) == Head(toParty[p]) = "Next" /\ pc[p] + 1 < Len(prog[p])
Fetches(p) == Head(toParty[p]) = "Next" /\ pc[p] < Len(prog[p])

Fetch(p) ==
  /\ ppc[p] = "running"
  /\ TakeMsg(p)
  /\ ppc' = [ppc EXCEPT ![p] = IF Fetches(p) THEN "busy" ELSE "panic"]
  /\ pc' = [pc EXCEPT ![p] = IF Fetches(p) THEN @ + 1 ELSE @]
  /\ UNCHANGED <<syncVars, toSync, replied, prog, round>>

\* recv on the channel of a synchronizer that has ended, once it is drained.
SyncLost(p) ==
  /\ ppc[p] \in {"waiting", "running"}
  /\ toParty[p] = <<>>
  /\ SyncGone
  /\ ppc' = [ppc EXCEPT ![p] = "err"]
  /\ UNCHANGED <<syncVars, chanVars, pc, replied, prog, round>>

\* handle_vm_actions has returned Ok: report the instruction as executed.
Executed(p) == prog[p][pc[p]]

Reply(p) ==
  /\ ppc[p] = "busy"
  /\ Executed(p) # "abort"
  /\ Len(toSync[p]) < Cap
  /\ LET last == Executed(p) = "stop" IN
       /\ toSync' = [toSync EXCEPT ![p] = Append(@, IF last THEN "Done" ELSE "Ok")]
       /\ ppc' = [ppc EXCEPT ![p] = IF last THEN "joining" ELSE "running"]
  /\ replied' = [replied EXCEPT ![p] = @ + 1]
  /\ UNCHANGED <<syncVars, toParty, pc, prog, round>>

ReplyAbort(p) ==
  /\ ppc[p] = "busy"
  /\ Executed(p) = "abort"
  /\ Len(toSync[p]) < Cap
  /\ toSync' = [toSync EXCEPT ![p] = Append(@, "Abort")]
  /\ ppc' = [ppc EXCEPT ![p] = "running"]
  /\ replied' = [replied EXCEPT ![p] = @ + 1]
  /\ UNCHANGED <<syncVars, toParty, pc, prog, round>>

\* The instruction fails, or it succeeds and the reply finds no synchronizer.
BusyFails(p) ==
  /\ ppc[p] = "busy"
  /\ ppc' = [ppc EXCEPT ![p] = "err"]
  /\ UNCHANGED <<syncVars, chanVars, pc, replied, prog, round>>

\* Between instructions only the preprocessing channel can end the party: it
\* is disconnected, or a forwarding channel is full.
PrepFails(p) ==
  /\ ppc[p] \in {"waiting", "running"}
  /\ ppc' = [ppc EXCEPT ![p] = "err"]
  /\ UNCHANGED <<syncVars, chanVars, pc, replied, prog, round>>

\* vm_handler.join(): the VM has answered Stop, so its result is Ok.
Join(p) ==
  /\ ppc[p] = "joining"
  /\ ppc' = [ppc EXCEPT ![p] = "ok"]
  /\ UNCHANGED <<syncVars, chanVars, pc, replied, prog, round>>

-----------------------------------------------------------------------------
Sync == \/ Send \/ SendFails \/ BroadcastEnds
        \/ Collect \/ CollectFails \/ Decide

PartyStep(p) == \/ AwaitStart(p) \/ Fetch(p) \/ SyncLost(p)
                \/ Reply(p) \/ ReplyAbort(p) \/ BusyFails(p) \/ Join(p)

AllEnded == spc \in Ended /\ \A p \in Party : Gone(p)
Terminated == AllEnded /\ UNCHANGED vars

Next == \/ Sync
        \/ \E p \in Party : PartyStep(p) \/ PrepFails(p)
        \/ Terminated

\* A thread that can take a step takes one.  A busy party has a step, as each
\* of its waits is a recv_timeout; nothing makes the preprocessing fail.
Fairness == WF_vars(Sync) /\ \A p \in Party : WF_vars(PartyStep(p))

Spec == Init /\ [][Next]_vars
LiveSpec == Spec /\ Fairness

-----------------------------------------------------------------------------
(* Properties.                                                             *)

\* No party is ever more than one instruction ahead of what any other party
\* has reported, although parties share no state and the synchronizer sends
\* and receives one channel at a time (Synchronizer::listen).
LockstepInv == \A p, q \in Party : pc[p] <= replied[q] + 1

\* The replies the synchronizer decides on all belong to the round it is in:
\* none is left over from an earlier one, none is missing (message::receive).
RepliesAreThisRound ==
  spc = "collect" =>
    \A p \in Party : p < sidx => replied[p] = round /\ toSync[p] = <<>>

\* The channels never hold more than Start and Next on the way out and one
\* reply on the way back, so no send of the protocol fills a channel of
\* capacity 5 and blocks (TEST_CAP, io.rs's capacities).
ChannelBound ==
  \A p \in Party : Len(toParty[p]) <= 2 /\ Len(toSync[p]) <= 1

NobodyAborts == \A p \in Party :
  \A i \in 1 .. Len(prog[p]) : prog[p][i] # "abort"

\* The same program for everyone, and it stops: what the configuration is
\* meant to give the nodes.
Uniform == \A p \in Party :
  /\ prog[p] = prog[0]
  /\ \E i \in 1 .. Len(prog[p]) : prog[p][i] = "stop"

\* With such a program and no Abort, none of the panics on this path is
\* reached, whichever thread fails and whenever: "unexpected messages",
\* "party already started", "instruction counter overflow", "abort".
UniformNeverPanics ==
  Uniform /\ NobodyAborts =>
    spc # "panic" /\ \A p \in Party : ppc[p] # "panic"

\* When the synchronizer returns Ok and nobody aborted, every party has
\* executed Stop and will return its result: no party fails on the way.
SuccessIsUnanimous ==
  spc = "ok" /\ NobodyAborts => \A p \in Party : ppc[p] \in {"joining", "ok"}

\* Once the synchronizer has decided to abort (or is done), no party executes
\* another instruction: there is no Next left on its way to any of them.
DecisionIsFinal == [][(spc = "abort" \/ spc = "ok") => UNCHANGED pc]_vars

\* Every thread ends: no failure leaves a party or the synchronizer waiting.
Terminates == <>AllEnded

\* The protocol implements the rounds it is written to provide.
R == INSTANCE Rounds WITH begun <- pc, finished <- replied
ImplementsRounds == R!Spec

-----------------------------------------------------------------------------
(* The inductive invariant behind LockstepInv, ChannelBound and            *)
(* ImplementsRounds (LockstepProofs).  It counts: every Next is for one    *)
(* instruction, every reply for one Next.                                  *)

\* The rounds whose Next has been sent to p.
Granted(p) == IF spc = "next" /\ p >= sidx THEN round - 1 ELSE round

\* The rounds whose reply from p has been received.
Received(p) ==
  IF spc = "abort" \/ (spc = "collect" /\ p < sidx) THEN round
  ELSE IF spc = "start" THEN 0 ELSE round - 1

\* The messages from the synchronizer that may be on their way at one time.
InFlight == {<<>>, <<"Start">>, <<"Next">>, <<"Start", "Next">>, <<"Abort">>}
Nexts(p) == IF toParty[p] \in {<<"Next">>, <<"Start", "Next">>} THEN 1 ELSE 0

RoundInv ==
  /\ spc = "start" => round = 0
  /\ spc \in {"next", "collect", "abort"} => round >= 1

OutboundInv(p) ==
  /\ toParty[p] \in InFlight
  /\ toParty[p] \in {<<"Start">>, <<"Start", "Next">>} => pc[p] = 0
  /\ toParty[p] = <<"Abort">> => SyncGone \/ (spc = "abort" /\ p < sidx)
  /\ spc = "start" /\ p >= sidx => toParty[p] = <<>>
  /\ pc[p] + Nexts(p) <= Granted(p)

InboundInv(p) ==
  /\ Len(toSync[p]) <= 1
  /\ ppc[p] = "busy" \/ Nexts(p) = 1 => toSync[p] = <<>>
  /\ ~SyncGone => replied[p] = Received(p) + Len(toSync[p])
  /\ spc \in {"abort", "ok"} => replied[p] = round
  /\ replied[p] >= round - 1

PartyInv(p) ==
  /\ replied[p] <= pc[p] /\ pc[p] <= replied[p] + 1
  /\ ppc[p] \in {"waiting", "running", "joining"} => replied[p] = pc[p]
  /\ ppc[p] = "busy" => replied[p] < pc[p]

IInv ==
  /\ TypeOK
  /\ RoundInv
  /\ \A p \in Party : OutboundInv(p) /\ InboundInv(p) /\ PartyInv(p)
=============================================================================
