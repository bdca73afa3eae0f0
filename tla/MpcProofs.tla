----------------------------- MODULE MpcProofs ------------------------------
(***************************************************************************)
(* What holds of the computation with its virtual machines and the channels*)
(* between parties, for any number of parties, program, preprocessing and  *)
(* capacities, whether timeouts are timely or not, in either wiring.  It is*)
(* an instance of Lockstep, so every theorem about Lockstep holds of it.   *)
(* What is proved beyond that rests on the handshake of a party's handler  *)
(* with its virtual machine.                                               *)
(***************************************************************************)
EXTENDS Mpc, LockstepProofs

\* The virtual machine of a party touches nothing that Lockstep sees.
LEMMA VMStepStutters == ASSUME NEW p \in Party, VMStep(p) PROVE UNCHANGED vars
  BY DEF VMStep, DoLocal, DoTriple, DoInput, DoOpen, DoStop, EndInput, EndOpen,
         EndCheck, VMTimeout

\* A step of a party's thread is a step of Lockstep's party, or one inside
\* the instruction it executes.
LEMMA PartyThreadSteps ==
  ASSUME NEW p \in Party, PartyThread(p)
  PROVE  PartyStep(p) \/ PrepFails(p) \/ UNCHANGED vars
<1>1. CASE Listen(p)
  BY <1>1 DEF Listen, PartyStep
<1>2. CASE Forward(p)
  BY <1>2 DEF Forward
<1>3. CASE ForwardFails(p)
  BY <1>3 DEF ForwardFails
<1>4. CASE OnNext(p)
  BY <1>4 DEF OnNext, PartyStep
<1>5. CASE HandlerFails(p)
  BY <1>5 DEF HandlerFails, PartyStep
<1>6. CASE GiveInstruction(p) \/ OnOpen(p) \/ OnInput(p) \/ OnCheck(p)
  BY <1>6 DEF GiveInstruction, OnOpen, OnInput, OnCheck
<1>7. CASE EndElems(p) \/ EndInputElem(p) \/ Commit(p) \/ EndComs(p) \/ Reveal(p) \/ EndOpens(p)
  BY <1>7 DEF EndElems, EndInputElem, Commit, EndComs, Reveal, EndOpens
<1>8. QED
  BY <1>1, <1>2, <1>3, <1>4, <1>5, <1>6, <1>7 DEF PartyThread

\* The composition implements Lockstep: no handler of VM actions, virtual
\* machine or preprocessing does what Lockstep's busy party could not.
THEOREM MpcImplementsLockstep == MpcSpec => Spec
<1>1. MpcInit => Init
  BY DEF MpcInit
<1>2. [MpcNext]_allVars => [Next]_vars
  <2> SUFFICES ASSUME [MpcNext]_allVars PROVE Next \/ UNCHANGED vars
    OBVIOUS
  <2>1. CASE SyncThread
    BY <2>1 DEF SyncThread, Next
  <2>2. ASSUME NEW p \in Party, PartyThread(p) PROVE Next \/ UNCHANGED vars
    BY <2>2, PartyThreadSteps DEF Next
  <2>3. ASSUME NEW p \in Party, VMStep(p) PROVE UNCHANGED vars
    BY <2>3, VMStepStutters
  <2>4. ASSUME NEW p \in Party, PrepEnds(p) PROVE Next
    BY <2>4 DEF PrepEnds, Next
  <2>5. CASE UNCHANGED allVars
    BY <2>5 DEF allVars
  <2>6. QED
    BY <2>1, <2>2, <2>3, <2>4, <2>5 DEF MpcNext
<1>3. QED
  BY <1>1, <1>2, PTL DEF MpcSpec, Spec

\* No party's virtual machine is given an instruction before every party has
\* finished the one before the last, in the whole computation (LockstepInv).
THEOREM MpcInLockstep == MpcSpec => []LockstepInv
  BY MpcImplementsLockstep, LockstepHolds, PTL

\* The synchronizer and the parties never block on each other's channels,
\* whatever the virtual machines do (ChannelBound).
THEOREM MpcChannelsBounded == MpcSpec => []ChannelBound
  BY MpcImplementsLockstep, ChannelBoundHolds, PTL

\* In the whole computation, too, no panic of the listening loops is reached
\* with one program for all that stops (Synchronizer::listen, Party::listen).
THEOREM MpcNoPanics == MpcSpec => []UniformNeverPanics
  BY MpcImplementsLockstep, NoPanics, PTL

\* When the synchronizer of a computation returns Ok, no party fails any more,
\* although its virtual machine and its peers could still make it.
THEOREM MpcSuccess == MpcSpec => []SuccessIsUnanimous
  BY MpcImplementsLockstep, SuccessHolds, PTL

\* The whole computation proceeds in the rounds of Rounds.
THEOREM MpcImplementsRounds == MpcSpec => ImplementsRounds
  BY MpcImplementsLockstep, Refinement, PTL

-----------------------------------------------------------------------------
(***************************************************************************)
(* What a party's handler of VM actions and its virtual machine keep       *)
(* between them (party.rs, vm.rs), for any number of parties, any program  *)
(* and preprocessing, whether timeouts are timely or not.                  *)
(***************************************************************************)

Elems(s) == {s[i] : i \in DOMAIN s}
IsSeq(s) == s \in Seq(Elems(s))

\* Every variable is a function on the parties.
Domains ==
  /\ DOMAIN vpc = Party /\ DOMAIN vmErr = Party /\ DOMAIN openings = Party
  /\ DOMAIN secret = Party /\ DOMAIN output = Party /\ DOMAIN verified = Party
  /\ DOMAIN randMsgs = Party /\ DOMAIN randChan = Party /\ DOMAIN tripleChan = Party
  /\ DOMAIN used = Party /\ DOMAIN fwd = Party /\ DOMAIN cause = Party
  /\ DOMAIN instChan = Party /\ DOMAIN actChan = Party /\ DOMAIN resp = Party
  /\ DOMAIN hpc = Party /\ DOMAIN todo = Party /\ DOMAIN coms = Party

\* What belongs to one party and its virtual machine alone.
Local(p) == <<ppc[p], pc[p], vpc[p], randMsgs[p], openings[p], output[p], vmErr[p],
              instChan[p], actChan[p], resp[p], fwd[p], randChan[p], tripleChan[p],
              hpc[p], todo[p], cause[p], used[p], verified[p]>>

LEMMA InitDomains == MpcInit => Domains
  BY DEF MpcInit, Domains

LEMMA VMStepDomains == ASSUME Domains, NEW p \in Party, VMStep(p) PROVE Domains'
<1> USE DEF Domains, prepVars, handVars, histVars, vmVars, linkVars, Ask, Done, VMFails, Take
<1>1. CASE DoLocal(p)
  BY <1>1 DEF DoLocal
<1>2. CASE DoTriple(p)
  BY <1>2 DEF DoTriple
<1>3. CASE DoInput(p)
  BY <1>3 DEF DoInput
<1>4. CASE DoOpen(p)
  BY <1>4 DEF DoOpen
<1>5. CASE DoStop(p)
  BY <1>5 DEF DoStop
<1>6. CASE EndInput(p)
  BY <1>6 DEF EndInput
<1>7. CASE EndOpen(p)
  BY <1>7 DEF EndOpen
<1>8. CASE EndCheck(p)
  BY <1>8 DEF EndCheck
<1>9. CASE VMTimeout(p)
  BY <1>9 DEF VMTimeout
<1>10. QED
  BY <1>1, <1>2, <1>3, <1>4, <1>5, <1>6, <1>7, <1>8, <1>9 DEF VMStep

LEMMA PartyDomains ==
  ASSUME Domains, NEW p \in Party, PartyThread(p) \/ PrepEnds(p)
  PROVE  Domains'
<1> USE DEF Domains, prepVars, handVars, histVars, vmVars, linkVars
<1>1. CASE Listen(p)
  BY <1>1 DEF Listen, Fails, mpcVars
<1>2. CASE Forward(p)
  BY <1>2 DEF Forward, TakePrep
<1>3. CASE ForwardFails(p) \/ PrepEnds(p) \/ HandlerFails(p)
  BY <1>3 DEF ForwardFails, PrepEnds, HandlerFails, Fails, TakePrep
<1>4. CASE GiveInstruction(p) \/ OnNext(p) \/ OnOpen(p) \/ OnInput(p) \/ OnCheck(p)
  BY <1>4 DEF GiveInstruction, OnNext, OnOpen, OnInput, OnCheck, TakeAction, Go
<1>5. CASE EndElems(p) \/ EndInputElem(p) \/ Commit(p) \/ EndComs(p) \/ Reveal(p) \/ EndOpens(p)
  BY <1>5 DEF EndElems, EndInputElem, Commit, EndComs, Reveal, EndOpens, Answer, Go
<1>6. QED
  BY <1>1, <1>2, <1>3, <1>4, <1>5 DEF PartyThread

\* A virtual machine's step leaves what belongs to other parties alone.
LEMMA VMStepLocal ==
  ASSUME Domains, NEW p \in Party, VMStep(p), NEW q \in Party, q # p
  PROVE  UNCHANGED Local(q)
<1> USE DEF Domains, prepVars, handVars, histVars, vmVars, linkVars, vars, partyVars,
            Ask, Done, VMFails, Take, Local
<1>1. CASE DoLocal(p)
  BY <1>1 DEF DoLocal
<1>2. CASE DoTriple(p)
  BY <1>2 DEF DoTriple
<1>3. CASE DoInput(p)
  BY <1>3 DEF DoInput
<1>4. CASE DoOpen(p)
  BY <1>4 DEF DoOpen
<1>5. CASE DoStop(p)
  BY <1>5 DEF DoStop
<1>6. CASE EndInput(p)
  BY <1>6 DEF EndInput
<1>7. CASE EndOpen(p)
  BY <1>7 DEF EndOpen
<1>8. CASE EndCheck(p)
  BY <1>8 DEF EndCheck
<1>9. CASE VMTimeout(p)
  BY <1>9 DEF VMTimeout
<1>10. QED
  BY <1>1, <1>2, <1>3, <1>4, <1>5, <1>6, <1>7, <1>8, <1>9 DEF VMStep

\* So does a step of a party's thread.
LEMMA PartyLocal ==
  ASSUME TypeOK, Domains, NEW p \in Party, PartyThread(p) \/ PrepEnds(p),
         NEW q \in Party, q # p
  PROVE  UNCHANGED Local(q)
<1> USE DEF Domains, prepVars, handVars, histVars, vmVars, linkVars, vars, partyVars,
            TypeOK, Local
<1>1. CASE Listen(p)
  <2>1. UNCHANGED <<ppc[q], pc[q]>>
    BY <1>1 DEF Listen, AwaitStart, Fetch, SyncLost, Join
  <2>2. QED
    BY <1>1, <2>1 DEF Listen, Fails, mpcVars
<1>2. CASE Forward(p)
  BY <1>2 DEF Forward, TakePrep
<1>3. CASE ForwardFails(p) \/ PrepEnds(p) \/ HandlerFails(p)
  BY <1>3 DEF ForwardFails, PrepEnds, HandlerFails, Fails, TakePrep, PrepFails, BusyFails
<1>4. CASE GiveInstruction(p) \/ OnNext(p) \/ OnOpen(p) \/ OnInput(p) \/ OnCheck(p)
  BY <1>4 DEF GiveInstruction, OnNext, OnOpen, OnInput, OnCheck, TakeAction, Go, Reply
<1>5. CASE EndElems(p) \/ EndInputElem(p) \/ Commit(p) \/ EndComs(p) \/ Reveal(p) \/ EndOpens(p)
  BY <1>5 DEF EndElems, EndInputElem, Commit, EndComs, Reveal, EndOpens, Answer, Go
<1>6. QED
  BY <1>1, <1>2, <1>3, <1>4, <1>5 DEF PartyThread

\* And the synchronizer leaves all of it alone.
LEMMA SyncLocal == SyncThread => Domains' = Domains /\ \A q \in Party : UNCHANGED Local(q)
  BY DEF SyncThread, Sync, Send, SendFails, BroadcastEnds, Collect, CollectFails, Decide,
     mpcVars, vmVars, linkVars, prepVars, handVars, histVars, partyVars, Local, Domains

-----------------------------------------------------------------------------
(* The handshake between a party's handler and its virtual machine: an     *)
(* instruction, an action or an answer is under way, never two of them.    *)

Op(p) == Code[pc[p]].op
CheckPhases == {"commit", "coms", "reveal", "opens"}
Opening == {"Open", "SOutput"}
Checking == {"SOutput", "Stop"}

\* Where the handler is says where the virtual machine is, or that it failed.
PhaseInv(p) ==
  /\ ppc[p] = "busy" => hpc[p] # "idle"
  /\ ppc[p] \notin {"busy", "err"} => hpc[p] = "idle"
  /\ hpc[p] # "idle" => pc[p] \in DOMAIN Code
  /\ hpc[p] = "idle" => vpc[p] \in {"idle", "done", "failed"}
  /\ hpc[p] = "give" => vpc[p] \in {"idle", "failed"}
  /\ hpc[p] = "elems" => vpc[p] \in {"open", "failed"} /\ Op(p) \in Opening
  /\ hpc[p] = "input" => vpc[p] \in {"input", "failed"} /\ Op(p) = "Input"
  /\ hpc[p] \in CheckPhases =>
       vpc[p] \in {"check", "failed"} /\ Op(p) \in Checking /\ todo[p] # <<>>
  /\ hpc[p] \notin CheckPhases => todo[p] = <<>>
  /\ ppc[p] \in {"joining", "ok"} => vpc[p] = "done"

VMInv(p) ==
  /\ vpc[p] = "input" => Op(p) = "Input" /\ hpc[p] \in {"action", "input"}
  /\ vpc[p] = "open" => Op(p) \in Opening /\ hpc[p] \in {"action", "elems"}
  /\ vpc[p] = "check" => Op(p) \in Checking /\ hpc[p] \in {"action"} \cup CheckPhases
  /\ vpc[p] = "done" =>
       /\ Op(p) = "Stop"
       /\ \/ hpc[p] = "action" /\ actChan[p] # <<>>
          \/ hpc[p] = "idle" /\ ppc[p] \notin {"waiting", "running"}

\* The action the virtual machine has sent is one its instruction asks for.
ActionFits(p, a) ==
  \/ /\ a.act = "Next" /\ vpc[p] \in {"idle", "done", "failed"}
     /\ Op(p) = "Stop" => vpc[p] = "done"
  \/ /\ a.act = "Input" /\ vpc[p] \in {"input", "failed"} /\ Op(p) = "Input"
     /\ a.id = Code[pc[p]].id
  \/ a.act = "Open" /\ vpc[p] \in {"open", "failed"} /\ Op(p) \in Opening
  \/ /\ a.act = "Check" /\ vpc[p] \in {"check", "failed"} /\ Op(p) \in Checking
     /\ a.list = openings[p] /\ a.list # <<>>

LinkInv(p) ==
  /\ hpc[p] # "action" => instChan[p] = <<>> /\ actChan[p] = <<>> /\ resp[p] = <<>>
  /\ instChan[p] # <<>> => /\ instChan[p] = <<Code[pc[p]]>> /\ vpc[p] = "idle"
                           /\ actChan[p] = <<>> /\ resp[p] = <<>>
  /\ actChan[p] # <<>> => /\ actChan[p] = <<Head(actChan[p])>> /\ resp[p] = <<>>
                          /\ ActionFits(p, Head(actChan[p]))
  /\ resp[p] # <<>> =>
       /\ resp[p] = <<Head(resp[p])>> /\ vpc[p] \in {"input", "open", "check"}
       /\ vpc[p] = "check" => Head(resp[p]) \in MACCheckError \cup {"Ok"}

ListInv(p) == IsSeq(openings[p]) /\ IsSeq(output[p]) /\ IsSeq(todo[p])

Handshake(p) == PhaseInv(p) /\ VMInv(p) /\ LinkInv(p) /\ ListInv(p)

HandInv == Domains /\ prog \in Programs /\ \A p \in Party : Handshake(p)

\* The program of a party is the code, as Lockstep sees it.
LEMMA CodeFacts ==
  /\ Len(Code) \in Nat /\ DOMAIN Code = 1 .. Len(Code)
  /\ prog \in Programs => \A p \in Party :
       /\ Len(prog[p]) = Len(Code)
       /\ \A k \in DOMAIN Code : prog[p][k] = "stop" <=> Code[k].op = "Stop"
<1>1. Len(Code) \in Nat /\ DOMAIN Code = 1 .. Len(Code)
  BY MpcAssumption
<1>2. ASSUME prog \in Programs, NEW p \in Party
      PROVE  /\ Len(prog[p]) = Len(Code)
             /\ \A k \in DOMAIN Code : prog[p][k] = "stop" <=> Code[k].op = "Stop"
  <2>1. prog[p] = [i \in DOMAIN Code |-> IF Code[i].op = "Stop" THEN "stop" ELSE "op"]
    BY <1>2, MpcAssumption
  <2>2. prog[p] \in Seq(Instruction)
    BY <1>2, LockstepAssumption
  <2>3. QED
    BY <1>1, <2>1, <2>2
<1>3. QED
  BY <1>1, <1>2

\* A sequence of one element, and how the channels get and lose it.
LEMMA OneElement ==
  ASSUME NEW e PROVE /\ <<e>> # <<>> /\ Head(<<e>>) = e /\ Tail(<<e>>) = <<>>
                     /\ Append(<<>>, e) = <<e>> /\ Len(<<e>>) = 1
  BY AppendToEmpty

LEMMA EmptyIsSeq == IsSeq(<<>>) /\ Elems(<<>>) = {}
<1>1. <<>> \in Seq(Elems(<<>>)) /\ DOMAIN <<>> = {}
  OBVIOUS
<1>2. QED
  BY <1>1 DEF IsSeq, Elems

LEMMA Appended ==
  ASSUME NEW s, IsSeq(s), NEW e
  PROVE  /\ IsSeq(Append(s, e)) /\ Append(s, e) # <<>>
         /\ Elems(Append(s, e)) = Elems(s) \cup {e}
         /\ DOMAIN s = 1 .. Len(s) /\ Len(s) \in Nat /\ Len(Append(s, e)) = Len(s) + 1
         /\ DOMAIN Append(s, e) = 1 .. Len(s) + 1
         /\ \A i \in DOMAIN s : Append(s, e)[i] = s[i]
         /\ Append(s, e)[Len(s) + 1] = e
<1> DEFINE S == Elems(s) \cup {e}
           t == Append(s, e)
<1>1. s \in Seq(S) /\ e \in S
  BY DEF IsSeq
<1>2. /\ t \in Seq(S) /\ t # <<>> /\ Len(t) = Len(s) + 1 /\ Len(s) \in Nat
      /\ DOMAIN s = 1 .. Len(s) /\ DOMAIN t = 1 .. Len(s) + 1
      /\ \A i \in DOMAIN s : t[i] = s[i]
      /\ t[Len(s) + 1] = e
  BY <1>1
<1>3. Elems(t) = S
  BY <1>2 DEF Elems
<1>4. QED
  BY <1>2, <1>3 DEF IsSeq

LEMMA HandshakeLocal ==
  ASSUME NEW q \in Party, Handshake(q), UNCHANGED Local(q)
  PROVE  Handshake(q)'
<1>1. PhaseInv(q)' /\ VMInv(q)'
  BY DEF Local, Handshake, PhaseInv, VMInv, Op
<1>2. LinkInv(q)'
  BY DEF Local, Handshake, LinkInv, ActionFits, Op
<1>3. ListInv(q)'
  BY DEF Local, Handshake, ListInv, IsSeq, Elems
<1>4. QED
  BY <1>1, <1>2, <1>3 DEF Handshake

\* The steps of the virtual machine.
LEMMA AskHandshake ==
  ASSUME NEW p \in Party, Domains, Domains', Handshake(p), ListInv(p)',
         NEW action, NEW at, Ask(p, action, at), at \in {"idle", "input", "open", "check", "done"},
         UNCHANGED <<ppc[p], pc[p], hpc[p], todo[p]>>,
         hpc[p] = "action",
         instChan'[p] = <<>>, actChan[p] = <<>>, resp'[p] = <<>>,
         \/ /\ action.act = "Next" /\ at \in {"idle", "done"}
            /\ Op(p) = "Stop" <=> at = "done"
         \/ /\ action.act = "Input" /\ at = "input" /\ Op(p) = "Input"
            /\ action.id = Code[pc[p]].id
         \/ action.act = "Open" /\ at = "open" /\ Op(p) \in Opening
         \/ /\ action.act = "Check" /\ at = "check" /\ Op(p) \in Checking
            /\ action.list = openings'[p] /\ action.list # <<>>
  PROVE  Handshake(p)'
<1>1. CASE Gone(p)
  <2>1. vpc'[p] = "failed" /\ actChan'[p] = <<>>
    BY <1>1 DEF Ask, VMFails, Domains
  <2>2. ppc[p] \notin {"joining", "ok"}
    BY DEF Handshake, PhaseInv
  <2>3. QED
    BY <2>1, <2>2, OneElement DEF Handshake, PhaseInv, VMInv, LinkInv, Op
<1>2. CASE ~Gone(p)
  <2>1. vpc'[p] = at /\ actChan'[p] = <<action>>
    BY <1>2, OneElement DEF Ask, Domains
  <2>2. ppc[p] \notin {"joining", "ok"}
    BY DEF Handshake, PhaseInv
  <2>3. ActionFits(p, action)'
    BY <2>1 DEF ActionFits, Op
  <2>4. LinkInv(p)'
    BY <2>1, <2>3, OneElement DEF LinkInv, Op
  <2>5. QED
    <3>1. PhaseInv(p)'
      BY <2>1, <2>2 DEF Handshake, PhaseInv, Op, CheckPhases
    <3>2. VMInv(p)'
      BY <2>1, <2>2, OneElement DEF Handshake, VMInv, Op, CheckPhases
    <3>3. QED
      BY <2>4, <3>1, <3>2 DEF Handshake
<1>3. QED
  BY <1>1, <1>2

LEMMA VMFailsHandshake ==
  ASSUME NEW p \in Party, Domains, Handshake(p), NEW e, VMFails(p, e),
         UNCHANGED <<ppc[p], pc[p], hpc[p], todo[p], openings[p], output[p]>>,
         vpc[p] \notin {"done", "failed"},
         instChan'[p] = <<>>, resp'[p] = <<>>
  PROVE  Handshake(p)'
<1>1. vpc'[p] = "failed" /\ actChan'[p] = actChan[p]
  BY DEF VMFails, Domains
<1>2. PhaseInv(p)'
  BY <1>1 DEF Handshake, PhaseInv, Op
<1>3. VMInv(p)'
  BY <1>1 DEF VMInv
<1>4. LinkInv(p)'
  BY <1>1 DEF Handshake, LinkInv, ActionFits, Op
<1>5. ListInv(p)'
  BY DEF Handshake, ListInv, IsSeq, Elems
<1>6. QED
  BY <1>2, <1>3, <1>4, <1>5 DEF Handshake

\* A virtual machine that takes an instruction takes that of its party's
\* counter, and leaves the channels empty.
LEMMA Taken ==
  ASSUME NEW p \in Party, Domains, Handshake(p), NEW ops, Take(p, ops)
  PROVE  /\ vpc[p] = "idle" /\ hpc[p] = "action"
         /\ Head(instChan[p]) = Code[pc[p]] /\ Op(p) \in ops
         /\ instChan'[p] = <<>> /\ actChan[p] = <<>> /\ resp[p] = <<>>
         /\ pc[p] \in DOMAIN Code /\ todo[p] = <<>>
  BY OneElement DEF Take, Domains, Handshake, LinkInv, PhaseInv, Op, CheckPhases

LEMMA DoHandshake ==
  ASSUME NEW p \in Party, Domains, Domains', Handshake(p),
         DoLocal(p) \/ DoTriple(p) \/ DoInput(p) \/ DoOpen(p) \/ DoStop(p)
  PROVE  Handshake(p)'
<1> USE DEF prepVars, handVars, histVars, vars, partyVars
<1>1. CASE DoLocal(p)
  <2>1. Take(p, {"Local", "COutput"})
    BY <1>1 DEF DoLocal
  <2>2. /\ UNCHANGED <<ppc[p], pc[p], hpc[p], todo[p], openings[p], resp[p]>>
        /\ Op(p) \notin {"Stop"}
    BY <1>1, <2>1, Taken DEF DoLocal
  <2>3. CASE Empty(p, Head(instChan[p]))
    <3>1. VMFails(p, "EmptyError") /\ UNCHANGED output[p]
      BY <1>1, <2>3 DEF DoLocal
    <3>2. QED
      BY <2>1, <2>2, <3>1, Taken, VMFailsHandshake
  <2>4. CASE ~Empty(p, Head(instChan[p]))
    <3>1. Done(p) /\ output'[p] \in {output[p], Append(output[p], pc[p])}
      BY <1>1, <2>4 DEF DoLocal, Domains
    <3>2. ListInv(p)'
      <4>1. IsSeq(output[p]) /\ IsSeq(Append(output[p], pc[p])) /\ IsSeq(openings[p])
        BY Appended DEF Handshake, ListInv
      <4>2. IsSeq(output'[p]) /\ IsSeq(openings'[p])
        BY <2>2, <3>1, <4>1, Zenon
      <4>3. QED
        BY <2>2, <4>2 DEF Handshake, ListInv, IsSeq, Elems
    <3>3. QED
      BY <2>1, <2>2, <3>1, <3>2, Taken, AskHandshake DEF Done
  <2>5. QED
    BY <2>3, <2>4
<1>2. CASE DoTriple(p)
  <2>1. Take(p, {"Triple"})
    BY <1>2 DEF DoTriple
  <2>2. /\ UNCHANGED <<ppc[p], pc[p], hpc[p], todo[p], openings[p], output[p], resp[p]>>
        /\ Op(p) \notin {"Stop"}
    BY <1>2, <2>1, Taken DEF DoTriple
  <2>3. ListInv(p)'
    BY <2>2 DEF Handshake, ListInv, IsSeq, Elems
  <2>4. VMFails(p, "RecvTimeoutError") \/ Done(p)
    BY <1>2 DEF DoTriple
  <2>5. QED
    BY <2>1, <2>2, <2>3, <2>4, Taken, AskHandshake, VMFailsHandshake DEF Done
<1>3. CASE DoInput(p)
  <2>1. Take(p, {"Input"})
    BY <1>3 DEF DoInput
  <2>2. UNCHANGED <<ppc[p], pc[p], hpc[p], todo[p], openings[p], output[p], resp[p]>>
    BY <1>3 DEF DoInput
  <2>3. ListInv(p)'
    BY <2>2 DEF Handshake, ListInv, IsSeq, Elems
  <2>4. \/ \E e : VMFails(p, e)
        \/ Ask(p, [act |-> "Input", id |-> Head(instChan[p]).id], "input")
    BY <1>3 DEF DoInput
  <2>5. Op(p) = "Input"
    BY <2>1, Taken
  <2>6. QED
    BY <2>1, <2>2, <2>3, <2>4, <2>5, Taken, AskHandshake, VMFailsHandshake
<1>4. CASE DoOpen(p)
  <2>1. Take(p, {"Open", "SOutput"})
    BY <1>4 DEF DoOpen
  <2>2. UNCHANGED <<ppc[p], pc[p], hpc[p], todo[p], openings[p], output[p], resp[p]>>
    BY <1>4 DEF DoOpen
  <2>3. ListInv(p)'
    BY <2>2 DEF Handshake, ListInv, IsSeq, Elems
  <2>4. \/ VMFails(p, "EmptyError")
        \/ Ask(p, [act |-> "Open", share |-> Operand(p)], "open")
    BY <1>4 DEF DoOpen
  <2>5. Op(p) \in Opening
    BY <2>1, Taken DEF Opening
  <2>6. QED
    BY <2>1, <2>2, <2>3, <2>4, <2>5, Taken, AskHandshake, VMFailsHandshake
<1>5. CASE DoStop(p)
  <2>1. Take(p, {"Stop"})
    BY <1>5 DEF DoStop
  <2>2. UNCHANGED <<ppc[p], pc[p], hpc[p], todo[p], openings[p], output[p], resp[p]>>
    BY <1>5 DEF DoStop
  <2>3. ListInv(p)'
    BY <2>2 DEF Handshake, ListInv, IsSeq, Elems
  <2>4. \/ Ask(p, [act |-> "Check", list |-> openings[p]], "check") /\ openings[p] # <<>>
        \/ Ask(p, [act |-> "Next"], "done")
    BY <1>5 DEF DoStop, Unchecked
  <2>5. Op(p) = "Stop" /\ Op(p) \in Checking
    BY <2>1, Taken DEF Checking
  <2>6. QED
    BY <2>1, <2>2, <2>3, <2>4, <2>5, Taken, AskHandshake
<1>6. QED
  BY <1>1, <1>2, <1>3, <1>4, <1>5

\* A virtual machine that finds an answer is the only one to have something.
LEMMA Answered ==
  ASSUME NEW p \in Party, Domains, Handshake(p), resp[p] # <<>>
  PROVE  /\ hpc[p] = "action" /\ instChan[p] = <<>> /\ actChan[p] = <<>>
         /\ pc[p] \in DOMAIN Code /\ todo[p] = <<>>
         /\ [resp EXCEPT ![p] = <<>>][p] = <<>>
         /\ vpc[p] = "check" => Head(resp[p]) \in MACCheckError \cup {"Ok"}
  BY DEF Domains, Handshake, LinkInv, PhaseInv, CheckPhases

LEMMA EndHandshake ==
  ASSUME NEW p \in Party, Domains, Domains', Handshake(p),
         EndInput(p) \/ EndOpen(p) \/ EndCheck(p)
  PROVE  Handshake(p)'
<1> USE DEF prepVars, handVars, histVars, vars, partyVars
<1>1. CASE EndInput(p)
  <2>1. /\ UNCHANGED <<ppc[p], pc[p], hpc[p], todo[p], openings[p], output[p], instChan[p]>>
        /\ resp[p] # <<>> /\ resp'[p] = <<>> /\ Op(p) = "Input" /\ Done(p)
    BY <1>1, Answered DEF EndInput, Handshake, VMInv, Domains
  <2>2. ListInv(p)'
    BY <2>1 DEF Handshake, ListInv, IsSeq, Elems
  <2>3. QED
    BY <2>1, <2>2, Answered, AskHandshake DEF Done
<1>2. CASE EndOpen(p)
  <2> DEFINE o == [at |-> pc[p], x |-> Head(resp[p]), share |-> Operand(p)]
  <2>1. /\ UNCHANGED <<ppc[p], pc[p], hpc[p], todo[p], output[p], instChan[p]>>
        /\ resp[p] # <<>> /\ resp'[p] = <<>> /\ Op(p) \in Opening
        /\ openings'[p] = Append(openings[p], o)
    BY <1>2, Answered DEF EndOpen, Handshake, VMInv, Domains
  <2>2. ListInv(p)' /\ openings'[p] # <<>>
    <3>1. IsSeq(openings'[p]) /\ openings'[p] # <<>>
      <4>1. IsSeq(Append(openings[p], o)) /\ Append(openings[p], o) # <<>>
        BY Appended DEF Handshake, ListInv
      <4>2. QED
        BY <2>1, <4>1, Zenon
    <3>2. QED
      BY <2>1, <3>1 DEF Handshake, ListInv, IsSeq, Elems
  <2>3. CASE Op(p) = "SOutput"
    <3>1. Ask(p, [act |-> "Check", list |-> openings'[p]], "check")
      BY <1>2, <2>3 DEF EndOpen, Op
    <3>2. QED
      BY <2>1, <2>2, <2>3, <3>1, Answered, AskHandshake DEF Checking
  <2>4. CASE Op(p) # "SOutput"
    <3>1. Done(p)
      BY <1>2, <2>4 DEF EndOpen, Op
    <3>2. Op(p) # "Stop"
      BY <2>1 DEF Opening
    <3>3. QED
      BY <2>1, <2>2, <3>1, <3>2, Answered, AskHandshake DEF Done
  <2>5. QED
    BY <2>3, <2>4
<1>3. CASE EndCheck(p)
  <2>1. /\ UNCHANGED <<ppc[p], pc[p], hpc[p], todo[p], instChan[p]>>
        /\ vpc[p] = "check" /\ resp[p] # <<>> /\ resp'[p] = <<>> /\ Op(p) \in Checking
        /\ Head(resp[p]) \in MACCheckError \cup {"Ok"}
    BY <1>3, Answered DEF EndCheck, Handshake, VMInv, Domains
  <2>2. CASE Head(resp[p]) = "Ok"
    <3>1. openings'[p] = <<>>
      BY <1>3, <2>2 DEF EndCheck, Domains
    <3>2. IsSeq(openings'[p])
      BY <3>1, EmptyIsSeq
    <3>3. CASE Op(p) = "SOutput"
      <4>1. output'[p] = Append(output[p], pc[p]) /\ Done(p)
        BY <1>3, <2>2, <3>3 DEF EndCheck, Domains, Op
      <4>2. IsSeq(output'[p])
        BY <4>1, Appended DEF Handshake, ListInv
      <4>3. ListInv(p)'
        BY <2>1, <3>2, <4>2 DEF Handshake, ListInv, IsSeq, Elems
      <4>4. QED
        BY <2>1, <3>3, <4>1, <4>3, Answered, AskHandshake DEF Done
    <3>4. CASE Op(p) # "SOutput"
      <4>1. output'[p] = output[p] /\ Ask(p, [act |-> "Next"], "done")
        BY <1>3, <2>2, <3>4 DEF EndCheck, Domains, Op
      <4>2. ListInv(p)'
        BY <2>1, <3>2, <4>1 DEF Handshake, ListInv, IsSeq, Elems
      <4>3. Op(p) = "Stop"
        BY <2>1, <3>4 DEF Checking
      <4>4. QED
        BY <2>1, <4>1, <4>2, <4>3, Answered, AskHandshake
    <3>5. QED
      BY <3>3, <3>4
  <2>3. CASE Head(resp[p]) # "Ok"
    <3>1. VMFails(p, Head(resp[p])) /\ UNCHANGED <<openings[p], output[p]>>
      BY <1>3, <2>3 DEF EndCheck
    <3>2. QED
      BY <2>1, <3>1, Answered, VMFailsHandshake
  <2>4. QED
    BY <2>2, <2>3
<1>4. QED
  BY <1>1, <1>2, <1>3

LEMMA TimeoutHandshake ==
  ASSUME NEW p \in Party, Domains, Handshake(p), VMTimeout(p)
  PROVE  Handshake(p)'
<1>1. /\ UNCHANGED <<ppc[p], pc[p], hpc[p], todo[p], openings[p], output[p],
                     instChan[p], resp[p]>>
      /\ VMFails(p, "RecvTimeoutError")
  BY DEF VMTimeout, prepVars, handVars, histVars, vars, partyVars
<1>2. vpc[p] \notin {"done", "failed"} /\ instChan[p] = <<>> /\ resp[p] = <<>>
  BY DEF VMTimeout, Handshake, LinkInv
<1>3. QED
  BY <1>1, <1>2, VMFailsHandshake

LEMMA VMHandshake ==
  ASSUME NEW p \in Party, Domains, Domains', Handshake(p), VMStep(p)
  PROVE  Handshake(p)'
  BY DoHandshake, EndHandshake, TimeoutHandshake DEF VMStep

-----------------------------------------------------------------------------
(* The steps of the party's thread.                                        *)

LEMMA SeqIsSeq ==
  ASSUME NEW S, NEW t \in Seq(S)
  PROVE  IsSeq(t) /\ DOMAIN t = 1 .. Len(t) /\ Len(t) \in Nat
<1>1. DOMAIN t = 1 .. Len(t) /\ Len(t) \in Nat /\ t = [i \in 1 .. Len(t) |-> t[i]]
  OBVIOUS
<1>2. \A i \in 1 .. Len(t) : t[i] \in Elems(t)
  BY <1>1 DEF Elems
<1>3. t \in Seq(Elems(t))
  BY <1>1, <1>2
<1>4. QED
  BY <1>1, <1>3 DEF IsSeq

LEMMA Shortened ==
  ASSUME NEW s, IsSeq(s), s # <<>>
  PROVE  /\ IsSeq(Tail(s)) /\ Len(s) \in Nat \ {0} /\ Len(Tail(s)) = Len(s) - 1
         /\ DOMAIN s = 1 .. Len(s) /\ DOMAIN Tail(s) = 1 .. Len(s) - 1
         /\ \A i \in 1 .. Len(s) - 1 : Tail(s)[i] = s[i + 1]
         /\ Head(s) = s[1]
         /\ Len(s) > 1 => Tail(s) # <<>>
<1>1. s \in Seq(Elems(s)) /\ DOMAIN s = 1 .. Len(s) /\ Len(s) \in Nat \ {0} /\ Head(s) = s[1]
  BY EmptySeq DEF IsSeq
<1>2. /\ Tail(s) \in Seq(Elems(s)) /\ Len(Tail(s)) = Len(s) - 1
      /\ \A i \in 1 .. Len(Tail(s)) : Tail(s)[i] = s[i + 1]
  BY <1>1, HeadTailProperties
<1>3. IsSeq(Tail(s)) /\ DOMAIN Tail(s) = 1 .. Len(Tail(s))
  BY <1>2, SeqIsSeq
<1>4. ASSUME NEW t, Len(t) > 0 PROVE t # <<>>
  BY <1>4
<1>5. Len(s) > 1 => Len(Tail(s)) > 0
  BY <1>1, <1>2
<1>6. Len(s) > 1 => Tail(s) # <<>>
  BY <1>4, <1>5, Zenon
<1>7. /\ DOMAIN Tail(s) = 1 .. Len(s) - 1
      /\ \A i \in 1 .. Len(s) - 1 : Tail(s)[i] = s[i + 1]
  BY <1>2, <1>3, Zenon
<1>8. QED
  BY <1>1, <1>2, <1>3, <1>6, <1>7, Zenon

LEMMA ListenHandshake ==
  ASSUME TypeOK, Domains, prog \in Programs, NEW p \in Party, Handshake(p),
         Listen(p) \/ Forward(p) \/ ForwardFails(p) \/ PrepEnds(p) \/ HandlerFails(p)
  PROVE  Handshake(p)'
<1> USE DEF prepVars, handVars, histVars, vars, partyVars, vmVars, linkVars
<1>1. /\ UNCHANGED <<vpc[p], openings[p], output[p], instChan[p], actChan[p], resp[p], todo[p]>>
      /\ ListInv(p)'
  <2>1. UNCHANGED <<vpc[p], openings[p], output[p], instChan[p], actChan[p], resp[p], todo[p]>>
    BY DEF Listen, Forward, ForwardFails, PrepEnds, HandlerFails, Fails, mpcVars
  <2>2. QED
    BY <2>1 DEF Handshake, ListInv, IsSeq, Elems
<1>2. ASSUME UNCHANGED <<pc[p], hpc[p]>>,
             \/ ppc'[p] = ppc[p]
             \/ ppc'[p] = "err"
             \/ ppc[p] = "waiting" /\ ppc'[p] = "running"
             \/ ppc[p] = "joining" /\ ppc'[p] = "ok"
             \/ ppc[p] = "running" /\ ppc'[p] = "panic"
      PROVE  Handshake(p)'
  <2>1. PhaseInv(p)'
    BY <1>1, <1>2 DEF Handshake, PhaseInv, Op
  <2>2. VMInv(p)'
    BY <1>1, <1>2 DEF Handshake, PhaseInv, VMInv, Op
  <2>3. LinkInv(p)'
    BY <1>1, <1>2 DEF Handshake, LinkInv, ActionFits, Op
  <2>4. QED
    BY <1>1, <2>1, <2>2, <2>3 DEF Handshake
<1>3. CASE Listen(p) /\ ~(Fetch(p) /\ Fetches(p))
  <2>1. UNCHANGED <<pc[p], hpc[p]>>
    BY <1>3 DEF Listen, AwaitStart, Fetch, SyncLost, Join, Fails, mpcVars, TypeOK
  <2>2. \/ ppc'[p] = ppc[p]
        \/ ppc'[p] = "err"
        \/ ppc[p] = "waiting" /\ ppc'[p] = "running"
        \/ ppc[p] = "joining" /\ ppc'[p] = "ok"
        \/ ppc[p] = "running" /\ ppc'[p] = "panic"
    BY <1>3 DEF Listen, AwaitStart, Fetch, SyncLost, Join, TypeOK
  <2>3. QED
    BY <1>2, <2>1, <2>2
<1>4. CASE Fetch(p) /\ Fetches(p) /\ Listen(p)
  <2>1. /\ ppc[p] = "running" /\ ppc'[p] = "busy" /\ pc'[p] = pc[p] + 1
        /\ pc[p] \in Nat /\ pc[p] < Len(prog[p])
    BY <1>4 DEF Fetch, Fetches, TypeOK
  <2>2. hpc'[p] = "give"
    BY <1>4, <2>1 DEF Listen, AwaitStart, SyncLost, Join, Domains
  <2>3. pc'[p] \in DOMAIN Code
    BY <2>1, CodeFacts
  <2>4. hpc[p] = "idle" /\ vpc[p] \in {"idle", "failed"} /\ todo[p] = <<>>
        /\ instChan[p] = <<>> /\ actChan[p] = <<>> /\ resp[p] = <<>>
    BY <2>1 DEF Handshake, PhaseInv, VMInv, LinkInv, CheckPhases
  <2>5. PhaseInv(p)' /\ VMInv(p)'
    BY <1>1, <2>1, <2>2, <2>3, <2>4 DEF PhaseInv, VMInv, CheckPhases
  <2>6. LinkInv(p)'
    BY <1>1, <2>4 DEF LinkInv
  <2>7. QED
    BY <1>1, <2>5, <2>6 DEF Handshake
<1>5. CASE Forward(p) \/ ForwardFails(p) \/ PrepEnds(p) \/ HandlerFails(p)
  <2>1. UNCHANGED <<pc[p], hpc[p]>> /\ ppc'[p] \in {ppc[p], "err"}
    BY <1>5 DEF Forward, ForwardFails, PrepEnds, HandlerFails, PrepFails, BusyFails, Fails, TypeOK
  <2>2. QED
    BY <1>2, <2>1
<1>6. QED
  BY <1>3, <1>4, <1>5

LEMMA LinkHandshake ==
  ASSUME Domains, TypeOK, prog \in Programs, NEW p \in Party, Handshake(p),
         GiveInstruction(p) \/ OnNext(p) \/ OnOpen(p) \/ OnInput(p) \/ OnCheck(p)
  PROVE  Handshake(p)'
<1> USE DEF prepVars, handVars, histVars, vars, partyVars, vmVars, linkVars
<1>1. /\ UNCHANGED <<pc[p], vpc[p], openings[p], output[p]>>
      /\ ppc[p] = "busy" /\ pc[p] \in DOMAIN Code
  BY DEF GiveInstruction, OnNext, OnOpen, OnInput, OnCheck, TakeAction, Reply, At,
         Handshake, PhaseInv
<1>2. CASE GiveInstruction(p)
  <2>1. /\ UNCHANGED <<ppc[p], actChan[p], resp[p], todo[p]>>
        /\ hpc[p] = "give" /\ hpc'[p] = "action" /\ vpc[p] = "idle"
        /\ instChan[p] = <<>> /\ actChan[p] = <<>> /\ resp[p] = <<>> /\ todo[p] = <<>>
    BY <1>2 DEF GiveInstruction, At, Go, VMGone, Domains, Handshake, PhaseInv, LinkInv,
                CheckPhases
  <2>2. instChan'[p] = <<Code[pc[p]]>>
    BY <1>2, <2>1, OneElement DEF GiveInstruction, Domains
  <2>3. ListInv(p)'
    BY <1>1, <2>1 DEF Handshake, ListInv, IsSeq, Elems
  <2>4. PhaseInv(p)' /\ VMInv(p)'
    BY <1>1, <2>1 DEF PhaseInv, VMInv, CheckPhases
  <2>5. LinkInv(p)'
    BY <1>1, <2>1, <2>2 DEF LinkInv
  <2>6. QED
    BY <2>3, <2>4, <2>5 DEF Handshake
<1>3. ASSUME NEW act, TakeAction(p, act), ~GiveInstruction(p), UNCHANGED resp[p]
      PROVE  /\ hpc[p] = "action" /\ todo[p] = <<>>
             /\ instChan'[p] = <<>> /\ actChan'[p] = <<>> /\ resp'[p] = <<>>
             /\ ActionFits(p, Head(actChan[p])) /\ Head(actChan[p]).act = act
             /\ actChan[p] # <<>>
  <2>1. hpc[p] = "action" /\ actChan[p] # <<>> /\ instChan' = instChan
        /\ actChan'[p] = Tail(actChan[p]) /\ Head(actChan[p]).act = act
    BY <1>3 DEF TakeAction, At, Domains
  <2>2. /\ actChan[p] = <<Head(actChan[p])>> /\ instChan[p] = <<>> /\ resp[p] = <<>>
        /\ todo[p] = <<>> /\ ActionFits(p, Head(actChan[p]))
    BY <2>1 DEF Handshake, LinkInv, PhaseInv, CheckPhases
  <2>3. Tail(actChan[p]) = <<>>
    BY <2>2, OneElement
  <2>4. QED
    BY <1>3, <2>1, <2>2, <2>3
<1>4. ASSUME instChan'[p] = <<>>, actChan'[p] = <<>>, resp'[p] = <<>> PROVE LinkInv(p)'
  BY <1>4 DEF LinkInv
<1>5. CASE OnNext(p)
  <2>1. TakeAction(p, "Next") /\ ~GiveInstruction(p) /\ UNCHANGED <<resp[p], todo[p]>>
        /\ hpc'[p] = "idle"
    BY <1>5 DEF OnNext, GiveInstruction, TakeAction, At, Go, Domains
  <2>2. /\ ActionFits(p, Head(actChan[p])) /\ Head(actChan[p]).act = "Next"
        /\ LinkInv(p)' /\ todo'[p] = <<>> /\ hpc[p] = "action"
    BY <1>3, <1>4, <2>1
  <2>3. vpc[p] \in {"idle", "done", "failed"} /\ (Op(p) = "Stop" => vpc[p] = "done")
    BY <2>2 DEF ActionFits
  <2>4. ppc'[p] = IF Op(p) = "Stop" THEN "joining" ELSE "running"
    BY <1>1, <1>5, CodeFacts DEF OnNext, Reply, Executed, Op, TypeOK
  <2>5. vpc[p] = "done" => Op(p) = "Stop"
    BY DEF Handshake, VMInv
  <2>6. PhaseInv(p)' /\ VMInv(p)'
    BY <1>1, <2>1, <2>2, <2>3, <2>4, <2>5 DEF PhaseInv, VMInv, Op, CheckPhases
  <2>7. ListInv(p)'
    BY <1>1, <2>1 DEF Handshake, ListInv, IsSeq, Elems
  <2>8. QED
    BY <2>2, <2>6, <2>7 DEF Handshake
<1>6. CASE OnOpen(p)
  <2>1. TakeAction(p, "Open") /\ ~GiveInstruction(p) /\ UNCHANGED <<ppc[p], resp[p], todo[p]>>
        /\ hpc'[p] = "elems"
    BY <1>6 DEF OnOpen, GiveInstruction, TakeAction, At, Go, Domains
  <2>2. /\ ActionFits(p, Head(actChan[p])) /\ Head(actChan[p]).act = "Open"
        /\ LinkInv(p)' /\ todo'[p] = <<>>
    BY <1>3, <1>4, <2>1
  <2>3. vpc[p] \in {"open", "failed"} /\ Op(p) \in Opening
    BY <2>2 DEF ActionFits
  <2>4. PhaseInv(p)' /\ VMInv(p)'
    BY <1>1, <2>1, <2>2, <2>3 DEF PhaseInv, VMInv, Op, CheckPhases
  <2>5. ListInv(p)'
    BY <1>1, <2>1 DEF Handshake, ListInv, IsSeq, Elems
  <2>6. QED
    BY <2>2, <2>4, <2>5 DEF Handshake
<1>7. CASE OnInput(p)
  <2>1. TakeAction(p, "Input") /\ ~GiveInstruction(p) /\ UNCHANGED <<ppc[p], resp[p], todo[p]>>
        /\ hpc'[p] = "input"
    BY <1>7 DEF OnInput, GiveInstruction, TakeAction, At, Go, Domains
  <2>2. /\ ActionFits(p, Head(actChan[p])) /\ Head(actChan[p]).act = "Input"
        /\ LinkInv(p)' /\ todo'[p] = <<>>
    BY <1>3, <1>4, <2>1
  <2>3. vpc[p] \in {"input", "failed"} /\ Op(p) = "Input"
    BY <2>2 DEF ActionFits
  <2>4. PhaseInv(p)' /\ VMInv(p)'
    BY <1>1, <2>1, <2>2, <2>3 DEF PhaseInv, VMInv, Op, CheckPhases
  <2>5. ListInv(p)'
    BY <1>1, <2>1 DEF Handshake, ListInv, IsSeq, Elems
  <2>6. QED
    BY <2>2, <2>4, <2>5 DEF Handshake
<1>8. CASE OnCheck(p)
  <2>1. TakeAction(p, "Check") /\ ~GiveInstruction(p) /\ UNCHANGED <<ppc[p], resp[p]>>
        /\ hpc'[p] = "commit" /\ todo'[p] = Head(actChan[p]).list
    BY <1>8 DEF OnCheck, GiveInstruction, TakeAction, At, Go, Domains
  <2>2. /\ ActionFits(p, Head(actChan[p])) /\ Head(actChan[p]).act = "Check"
        /\ LinkInv(p)'
    BY <1>3, <1>4, <2>1
  <2>3. /\ vpc[p] \in {"check", "failed"} /\ Op(p) \in Checking
        /\ todo'[p] = openings[p] /\ todo'[p] # <<>>
    BY <2>1, <2>2 DEF ActionFits
  <2>4. PhaseInv(p)' /\ VMInv(p)'
    BY <1>1, <2>1, <2>3 DEF PhaseInv, VMInv, Op, CheckPhases
  <2>5. ListInv(p)'
    BY <1>1, <2>3 DEF Handshake, ListInv, IsSeq, Elems
  <2>6. QED
    BY <2>2, <2>4, <2>5 DEF Handshake
<1>9. QED
  BY <1>2, <1>5, <1>6, <1>7, <1>8

\* An answer ends the handler's exchange with the other parties.
LEMMA AnswerHandshake ==
  ASSUME Domains, NEW p \in Party, Handshake(p), NEW v, Answer(p, v),
         UNCHANGED <<ppc[p], pc[p], vpc[p], openings[p], output[p], instChan[p], actChan[p]>>,
         todo'[p] = <<>>, ppc[p] = "busy",
         \/ hpc[p] \in {"elems", "input"}
         \/ hpc[p] \in CheckPhases /\ v \in MACCheckError \cup {"Ok"}
  PROVE  Handshake(p)'
<1>1. /\ hpc'[p] = "action" /\ resp[p] = <<>> /\ instChan[p] = <<>> /\ actChan[p] = <<>>
      /\ vpc[p] \notin {"done", "failed"} /\ pc[p] \in DOMAIN Code
      /\ resp'[p] = Append(<<>>, v)
  BY DEF Answer, Go, VMGone, Domains, Handshake, LinkInv, PhaseInv, CheckPhases
<1>2. resp'[p] = <<v>> /\ Head(resp'[p]) = v
  BY <1>1, OneElement
<1>3. /\ vpc[p] \in {"open", "input", "check"}
      /\ vpc[p] = "check" => v \in MACCheckError \cup {"Ok"}
  BY <1>1 DEF Handshake, PhaseInv, CheckPhases
<1>4. PhaseInv(p)' /\ VMInv(p)'
  BY <1>1, <1>3 DEF Handshake, PhaseInv, VMInv, Op, CheckPhases
<1>5. LinkInv(p)'
  BY <1>1, <1>2, <1>3 DEF LinkInv
<1>6. ListInv(p)'
  BY EmptyIsSeq DEF Handshake, ListInv, IsSeq, Elems
<1>7. QED
  BY <1>4, <1>5, <1>6 DEF Handshake

LEMMA PeerHandshake ==
  ASSUME Domains, NEW p \in Party, Handshake(p),
         \/ EndElems(p) \/ EndInputElem(p)
         \/ Commit(p) \/ EndComs(p) \/ Reveal(p) \/ EndOpens(p)
  PROVE  Handshake(p)'
<1> USE DEF prepVars, handVars, histVars, vars, partyVars, vmVars, linkVars
<1>1. /\ UNCHANGED <<ppc[p], pc[p], vpc[p], openings[p], output[p], instChan[p], actChan[p]>>
      /\ ppc[p] = "busy"
  BY DEF EndElems, EndInputElem, Commit, EndComs, Reveal, EndOpens, At
<1>2. CASE EndElems(p) \/ EndInputElem(p)
  <2>1. Answer(p, Values(p)) /\ hpc[p] \in {"elems", "input"} /\ todo'[p] = todo[p]
    BY <1>2 DEF EndElems, EndInputElem, At
  <2>2. todo[p] = <<>>
    BY <2>1 DEF Handshake, PhaseInv, CheckPhases
  <2>3. QED
    BY <1>1, <2>1, <2>2, AnswerHandshake
<1>3. ASSUME hpc[p] \in CheckPhases, hpc'[p] \in CheckPhases, todo'[p] # <<>>,
             UNCHANGED resp[p], ListInv(p)'
      PROVE  Handshake(p)'
  <2>1. PhaseInv(p)' /\ VMInv(p)'
    BY <1>1, <1>3 DEF Handshake, PhaseInv, VMInv, Op, CheckPhases
  <2>2. LinkInv(p)'
    BY <1>1, <1>3 DEF Handshake, LinkInv, CheckPhases
  <2>3. QED
    BY <1>3, <2>1, <2>2 DEF Handshake
<1>4. CASE Commit(p) \/ EndComs(p) \/ Reveal(p)
  <2>1. /\ hpc[p] \in CheckPhases /\ hpc'[p] \in CheckPhases
        /\ UNCHANGED <<resp[p], todo[p]>>
    BY <1>4 DEF Commit, EndComs, Reveal, Go, At, CheckPhases, Domains
  <2>2. todo[p] # <<>>
    BY <2>1 DEF Handshake, PhaseInv
  <2>3. ListInv(p)'
    BY <1>1, <2>1 DEF Handshake, ListInv, IsSeq, Elems
  <2>4. QED
    BY <1>3, <2>1, <2>2, <2>3
<1>5. CASE EndOpens(p)
  <2>1. hpc[p] \in CheckPhases /\ todo[p] # <<>> /\ IsSeq(todo[p])
    BY <1>5 DEF EndOpens, At, CheckPhases, Handshake, PhaseInv, ListInv
  <2>2. CASE Verdict(p) = "Ok" /\ Len(todo[p]) > 1
    <3>1. /\ hpc'[p] \in CheckPhases /\ UNCHANGED resp[p]
          /\ todo'[p] = Tail(todo[p])
      BY <1>5, <2>2 DEF EndOpens, Go, CheckPhases, Domains
    <3>2. todo'[p] # <<>> /\ IsSeq(Tail(todo[p]))
      BY <2>1, <2>2, <3>1, Shortened
    <3>3. ListInv(p)'
      BY <1>1, <3>1, <3>2 DEF Handshake, ListInv, IsSeq, Elems
    <3>4. QED
      BY <1>3, <2>1, <3>1, <3>2, <3>3
  <2>3. CASE ~(Verdict(p) = "Ok" /\ Len(todo[p]) > 1)
    <3>1. Answer(p, Verdict(p)) /\ todo'[p] = <<>>
      BY <1>5, <2>3 DEF EndOpens, Domains
    <3>2. Verdict(p) \in MACCheckError \cup {"Ok"}
      BY DEF Verdict, MACCheckError
    <3>3. QED
      BY <1>1, <2>1, <3>1, <3>2, AnswerHandshake
  <2>4. QED
    BY <2>2, <2>3
<1>6. QED
  BY <1>2, <1>4, <1>5

LEMMA InitHandInv == MpcInit => HandInv
<1> SUFFICES ASSUME MpcInit PROVE HandInv
  OBVIOUS
<1>1. ASSUME NEW p \in Party PROVE PhaseInv(p) /\ VMInv(p) /\ LinkInv(p)
  BY <1>1 DEF MpcInit, Init, PhaseInv, VMInv, LinkInv, CheckPhases
<1>2. ASSUME NEW p \in Party PROVE ListInv(p)
  <2>1. openings[p] = <<>> /\ output[p] = <<>> /\ todo[p] = <<>>
    BY <1>2 DEF MpcInit
  <2>2. QED
    BY <2>1, EmptyIsSeq DEF ListInv
<1>3. QED
  BY <1>1, <1>2, InitDomains DEF HandInv, Handshake, MpcInit, Init

\* Which party a step is of, and what it leaves alone.
LEMMA StepOf ==
  ASSUME TypeOK, Domains, [MpcNext]_allVars
  PROVE  /\ Domains' /\ prog' = prog
         /\ \/ \E p \in Party : /\ PartyThread(p) \/ VMStep(p) \/ PrepEnds(p)
                                /\ \A q \in Party \ {p} : UNCHANGED Local(q)
            \/ SyncThread /\ \A q \in Party : UNCHANGED Local(q)
            \/ UNCHANGED allVars /\ \A q \in Party : UNCHANGED Local(q)
<1>1. CASE SyncThread
  <2>1. prog' = prog
    BY <1>1 DEF SyncThread, Sync, Send, SendFails, BroadcastEnds, Collect, CollectFails, Decide
  <2>2. QED
    BY <1>1, <2>1, SyncLocal
<1>2. ASSUME NEW p \in Party, PartyThread(p) \/ PrepEnds(p)
      PROVE  Domains' /\ prog' = prog /\ \A q \in Party \ {p} : UNCHANGED Local(q)
  <2>1. prog' = prog
    <3>1. PartyStep(p) \/ PrepFails(p) \/ UNCHANGED vars
      BY <1>2, PartyThreadSteps DEF PrepEnds
    <3>2. QED
      BY <3>1 DEF PartyStep, PrepFails, AwaitStart, Fetch, SyncLost, Reply, ReplyAbort,
                  BusyFails, Join, vars
  <2>2. QED
    BY <1>2, <2>1, PartyDomains, PartyLocal
<1>3. ASSUME NEW p \in Party, VMStep(p)
      PROVE  Domains' /\ prog' = prog /\ \A q \in Party \ {p} : UNCHANGED Local(q)
  <2>1. prog' = prog
    BY <1>3, VMStepStutters DEF vars
  <2>2. QED
    BY <1>3, <2>1, VMStepDomains, VMStepLocal
<1>4. CASE UNCHANGED allVars
  BY <1>4 DEF allVars, vars, mpcVars, vmVars, linkVars, prepVars, handVars, histVars,
              partyVars, Local, Domains
<1>5. QED
  BY <1>1, <1>2, <1>3, <1>4 DEF MpcNext

LEMMA NextHandInv == TypeOK /\ HandInv /\ [MpcNext]_allVars => HandInv'
<1> SUFFICES ASSUME TypeOK, HandInv, [MpcNext]_allVars PROVE HandInv'
  OBVIOUS
<1>1. Domains' /\ prog' \in Programs
  BY StepOf DEF HandInv
<1>2. ASSUME NEW q \in Party, UNCHANGED Local(q) PROVE Handshake(q)'
  BY <1>2, HandshakeLocal DEF HandInv
<1>3. ASSUME NEW p \in Party, PartyThread(p) \/ VMStep(p) \/ PrepEnds(p)
      PROVE  Handshake(p)'
  <2>1. CASE VMStep(p)
    BY <1>1, <2>1, VMHandshake DEF HandInv
  <2>2. CASE PartyThread(p) \/ PrepEnds(p)
    BY <2>2, ListenHandshake, LinkHandshake, PeerHandshake DEF HandInv, PartyThread
  <2>3. QED
    BY <1>3, <2>1, <2>2
<1>4. \A q \in Party : Handshake(q)'
  <2>1. CASE \A q \in Party : UNCHANGED Local(q)
    BY <1>2, <2>1
  <2>2. ASSUME NEW p \in Party, PartyThread(p) \/ VMStep(p) \/ PrepEnds(p),
               \A q \in Party \ {p} : UNCHANGED Local(q)
        PROVE  \A q \in Party : Handshake(q)'
    <3>1. ASSUME NEW q \in Party, q # p PROVE Handshake(q)'
      BY <1>2, <2>2, <3>1
    <3>2. ASSUME NEW q \in Party, q = p PROVE Handshake(q)'
      BY <1>3, <2>2, <3>2
    <3>3. QED
      BY <3>1, <3>2
  <2>3. QED
    BY <2>1, <2>2, StepOf DEF HandInv
<1>5. QED
  BY <1>1, <1>4 DEF HandInv

\* The handshake holds in every reachable state of every computation.
THEOREM HandshakeHolds == MpcSpec => []HandInv
<1>1. MpcInit => HandInv
  BY InitHandInv
<1>2. TypeOK /\ HandInv /\ [MpcNext]_allVars => HandInv'
  BY NextHandInv
<1>3. QED
  BY <1>1, <1>2, MpcImplementsLockstep, TypeCorrect, PTL DEF MpcSpec

-----------------------------------------------------------------------------
(* The types of the computation's variables.                               *)

Sharing == {Prep[i] : i \in DOMAIN Prep}

MpcTypes ==
  /\ vpc \in [Party -> {"idle", "input", "open", "check", "done", "failed"}]
  /\ hpc \in [Party -> {"idle", "give", "action", "elems", "input",
                        "commit", "coms", "reveal", "opens"}]
  /\ vmErr \in [Party -> MPCError \cup {"none"}]
  /\ cause \in [Party -> MPCError \cup {"none", "Panic"}]
  /\ fwd \in [Party -> 0 .. Len(Prep)]
  /\ randMsgs \in [Party -> Seq(Sharing)]
  /\ randChan \in [Party -> Seq(Sharing)]
  /\ tripleChan \in [Party -> Seq(Sharing)]
  /\ \A p \in Party :
       Len(randChan[p]) <= ForwardingCap /\ Len(tripleChan[p]) <= ForwardingCap

LEMMA PrepFacts == Prep \in Seq(Sharing) /\ Len(Prep) \in Nat /\ DOMAIN Prep = 1 .. Len(Prep)
  BY MpcAssumption DEF Sharing

LEMMA InitTypes == MpcInit => MpcTypes
<1> SUFFICES ASSUME MpcInit PROVE MpcTypes
  OBVIOUS
<1>1. <<>> \in Seq(Sharing) /\ Len(<<>>) = 0 /\ ForwardingCap \in Nat
  BY MpcAssumption
<1>2. QED
  BY <1>1, PrepFacts DEF MpcInit, MpcTypes

LEMMA PoppedType ==
  ASSUME NEW S, NEW s \in Seq(S), NEW i \in DOMAIN s
  PROVE  /\ Popped(s, i) \in Seq(S) /\ Len(Popped(s, i)) = Len(s) - 1
         /\ \A j \in 1 .. Len(s) - 1 :
              Popped(s, i)[j] = IF j < i THEN s[j] ELSE s[j + 1]
<1>1. Len(s) \in Nat /\ DOMAIN s = 1 .. Len(s) /\ Len(s) - 1 \in Nat
  OBVIOUS
<1>2. \A j \in 1 .. Len(s) - 1 : (IF j < i THEN s[j] ELSE s[j + 1]) \in S
  BY <1>1
<1>3. QED
  BY <1>1, <1>2 DEF Popped

LEMMA VMTypes ==
  ASSUME MpcTypes, Domains, NEW p \in Party, Handshake(p), VMStep(p)
  PROVE  MpcTypes'
<1> USE DEF MpcTypes, prepVars, handVars
<1>1. ASSUME NEW e \in MPCError, VMFails(p, e)
      PROVE  /\ vpc' \in [Party -> {"idle", "input", "open", "check", "done", "failed"}]
             /\ vmErr' \in [Party -> MPCError \cup {"none"}]
  BY <1>1 DEF VMFails
<1>2. {"EmptyError", "RecvError", "RecvTimeoutError", "SendError"} \subseteq MPCError
  BY DEF MPCError
<1>3. ASSUME NEW a, NEW at \in {"idle", "input", "open", "check", "done"}, Ask(p, a, at)
      PROVE  /\ vpc' \in [Party -> {"idle", "input", "open", "check", "done", "failed"}]
             /\ vmErr' \in [Party -> MPCError \cup {"none"}]
  BY <1>1, <1>2, <1>3 DEF Ask
<1>4. CASE DoLocal(p)
  BY <1>1, <1>2, <1>3, <1>4 DEF DoLocal, Done
<1>5. CASE DoTriple(p)
  <2>1. \/ tripleChan' = tripleChan
        \/ tripleChan[p] # <<>> /\ tripleChan' = [tripleChan EXCEPT ![p] = Tail(tripleChan[p])]
    BY <1>5 DEF DoTriple
  <2>2. \A s \in Seq(Sharing) : s # <<>> => Tail(s) \in Seq(Sharing) /\ Len(Tail(s)) <= Len(s)
    BY HeadTailProperties
  <2>3. tripleChan' \in [Party -> Seq(Sharing)]
    <3>1. CASE tripleChan' = tripleChan
      BY <3>1
    <3>2. CASE /\ tripleChan[p] # <<>>
               /\ tripleChan' = [tripleChan EXCEPT ![p] = Tail(tripleChan[p])]
      <4>1. Tail(tripleChan[p]) \in Seq(Sharing)
        BY <2>2, <3>2
      <4>2. QED
        BY <3>2, <4>1
    <3>3. QED
      BY <2>1, <3>1, <3>2
  <2>4. \A q \in Party : Len(tripleChan'[q]) <= ForwardingCap
    <3>1. ASSUME NEW q \in Party PROVE Len(tripleChan'[q]) <= Len(tripleChan[q])
      <4>1. Len(tripleChan[q]) \in Nat
        OBVIOUS
      <4>2. CASE tripleChan'[q] = tripleChan[q]
        BY <4>1, <4>2
      <4>3. CASE tripleChan[q] # <<>> /\ tripleChan'[q] = Tail(tripleChan[q])
        BY <2>2, <4>3
      <4>4. QED
        BY <2>1, <4>2, <4>3
    <3>2. ASSUME NEW q \in Party PROVE Len(tripleChan'[q]) \in Nat /\ Len(tripleChan[q]) \in Nat
      BY <2>3
    <3>3. QED
      BY <3>1, <3>2, MpcAssumption
  <2>5. QED
    BY <1>1, <1>2, <1>3, <1>5, <2>3, <2>4 DEF DoTriple, Done
<1>6. CASE DoInput(p)
  <2>1. Drained(p) \in Seq(Sharing)
    BY ConcatProperties DEF Drained
  <2>2. \A i \in DOMAIN Drained(p) : Popped(Drained(p), i) \in Seq(Sharing)
    BY <2>1, PoppedType
  <2>3. randMsgs' \in [Party -> Seq(Sharing)]
    <3>1. \E s \in Seq(Sharing) : randMsgs' = [randMsgs EXCEPT ![p] = s]
      BY <1>6, <2>1, <2>2 DEF DoInput, MasksFor
    <3>2. QED
      BY <3>1
  <2>4. <<>> \in Seq(Sharing) /\ Len(<<>>) <= ForwardingCap
    BY MpcAssumption
  <2>5. /\ randChan' \in [Party -> Seq(Sharing)]
        /\ \A q \in Party : Len(randChan'[q]) <= ForwardingCap
    BY <1>6, <2>4 DEF DoInput
  <2>6. \/ \E e \in MPCError : VMFails(p, e)
        \/ \E a : Ask(p, a, "input")
    BY <1>2, <1>6 DEF DoInput
  <2>7. /\ vpc' \in [Party -> {"idle", "input", "open", "check", "done", "failed"}]
        /\ vmErr' \in [Party -> MPCError \cup {"none"}]
    BY <1>1, <1>3, <2>6
  <2>8. QED
    BY <1>6, <2>3, <2>5, <2>7 DEF DoInput
<1>7. CASE DoOpen(p)
  BY <1>1, <1>2, <1>3, <1>7 DEF DoOpen
<1>8. CASE DoStop(p)
  BY <1>3, <1>8 DEF DoStop
<1>9. CASE EndInput(p)
  BY <1>3, <1>9 DEF EndInput, Done
<1>10. CASE EndOpen(p)
  BY <1>3, <1>10 DEF EndOpen, Done
<1>11. CASE EndCheck(p)
  <2>1. Head(resp[p]) # "Ok" => Head(resp[p]) \in MPCError
    BY <1>11, Answered DEF EndCheck, MPCError
  <2>2. QED
    BY <1>1, <1>3, <1>11, <2>1 DEF EndCheck, Done
<1>12. CASE VMTimeout(p)
  BY <1>1, <1>2, <1>12 DEF VMTimeout
<1>13. QED
  BY <1>4, <1>5, <1>6, <1>7, <1>8, <1>9, <1>10, <1>11, <1>12 DEF VMStep

LEMMA PartyTypes ==
  ASSUME MpcTypes, Domains, NEW p \in Party, PartyThread(p) \/ PrepEnds(p)
  PROVE  MpcTypes'
<1> USE DEF MpcTypes, vmVars, linkVars, prepVars, handVars
<1>1. ASSUME NEW e, e \in MPCError \cup {"Panic"}, Fails(p, e), fwd' \in [Party -> 0 .. Len(Prep)]
      PROVE  MpcTypes'
  BY <1>1 DEF Fails
<1>2. {"TrySendError", "RecvError", "SendError", "RecvTimeoutError"} \subseteq MPCError
  BY DEF MPCError
<1>3. CASE Listen(p)
  BY <1>1, <1>2, <1>3 DEF Listen, mpcVars
<1>4. ASSUME TakePrep(p)
      PROVE  fwd' \in [Party -> 0 .. Len(Prep)] /\ Prep[fwd[p] + 1] \in Sharing
  <2>1. fwd[p] + 1 \in 1 .. Len(Prep)
    BY <1>4, PrepFacts DEF TakePrep
  <2>2. QED
    BY <1>4, <2>1, PrepFacts DEF TakePrep, Sharing
<1>5. CASE Forward(p)
  <2> DEFINE m == Prep[fwd[p] + 1]
  <2>1. /\ m \in Sharing /\ fwd' \in [Party -> 0 .. Len(Prep)]
        /\ ForwardingCap \in Nat
    BY <1>4, <1>5, MpcAssumption DEF Forward
  <2>2. \A s \in Seq(Sharing) : /\ Append(s, m) \in Seq(Sharing)
                                /\ Len(Append(s, m)) = Len(s) + 1
                                /\ Len(s) \in Nat
    BY <2>1
  <2> HIDE DEF m
  <2>3. CASE m.kind = "Rand"
    <3>1. /\ randChan' = [randChan EXCEPT ![p] = Append(@, m)] /\ UNCHANGED tripleChan
          /\ Len(randChan[p]) < ForwardingCap
      BY <1>5, <2>3 DEF Forward, Room, m
    <3>2. /\ randChan' \in [Party -> Seq(Sharing)]
          /\ \A q \in Party : Len(randChan'[q]) <= ForwardingCap
      BY <2>1, <2>2, <3>1
    <3>3. QED
      BY <1>5, <2>1, <3>1, <3>2 DEF Forward
  <2>4. CASE m.kind # "Rand"
    <3>1. /\ tripleChan' = [tripleChan EXCEPT ![p] = Append(@, m)] /\ UNCHANGED randChan
          /\ Len(tripleChan[p]) < ForwardingCap
      BY <1>5, <2>4 DEF Forward, Room, m
    <3>2. /\ tripleChan' \in [Party -> Seq(Sharing)]
          /\ \A q \in Party : Len(tripleChan'[q]) <= ForwardingCap
      BY <2>1, <2>2, <3>1
    <3>3. QED
      BY <1>5, <2>1, <3>1, <3>2 DEF Forward
  <2>5. QED
    BY <2>3, <2>4
<1>6. CASE ForwardFails(p) \/ PrepEnds(p) \/ HandlerFails(p)
  BY <1>1, <1>2, <1>4, <1>6 DEF ForwardFails, PrepEnds, HandlerFails, Errors
<1>7. CASE GiveInstruction(p) \/ OnNext(p) \/ OnOpen(p) \/ OnInput(p) \/ OnCheck(p)
  BY <1>7 DEF GiveInstruction, OnNext, OnOpen, OnInput, OnCheck, TakeAction, Go
<1>8. CASE EndElems(p) \/ EndInputElem(p) \/ Commit(p) \/ EndComs(p) \/ Reveal(p) \/ EndOpens(p)
  BY <1>8 DEF EndElems, EndInputElem, Commit, EndComs, Reveal, EndOpens, Answer, Go
<1>9. QED
  BY <1>3, <1>5, <1>6, <1>7, <1>8 DEF PartyThread

LEMMA NextTypes == HandInv /\ MpcTypes /\ [MpcNext]_allVars => MpcTypes'
<1> SUFFICES ASSUME HandInv, MpcTypes, [MpcNext]_allVars PROVE MpcTypes'
  OBVIOUS
<1>1. CASE SyncThread \/ UNCHANGED allVars
  BY <1>1 DEF SyncThread, allVars, mpcVars, vmVars, linkVars, prepVars, handVars, MpcTypes
<1>2. ASSUME NEW p \in Party, PartyThread(p) \/ VMStep(p) \/ PrepEnds(p) PROVE MpcTypes'
  BY <1>2, VMTypes, PartyTypes DEF HandInv
<1>3. QED
  BY <1>1, <1>2 DEF MpcNext

\* MpcTypeOK holds in every reachable state: at most one instruction, action
\* and answer is under way between a party and its virtual machine, and no
\* forwarding channel holds more than its capacity (do_triple, Party::listen).
THEOREM MpcTypeCorrect == MpcSpec => []MpcTypeOK
<1>1. MpcInit => MpcTypes
  BY InitTypes
<1>2. HandInv /\ MpcTypes /\ [MpcNext]_allVars => MpcTypes'
  BY NextTypes
<1>3. HandInv /\ MpcTypes => MpcTypeOK
  <2> SUFFICES ASSUME HandInv, MpcTypes PROVE MpcTypeOK
    OBVIOUS
  <2>1. ASSUME NEW s, s = <<>> \/ s = <<Head(s)>> PROVE Len(s) \in 0 .. 1
    <3>1. Len(<<>>) = 0 /\ Len(<<Head(s)>>) = 1
      BY OneElement
    <3>2. Len(s) = 0 \/ Len(s) = 1
      BY <2>1, <3>1, Zenon
    <3>3. QED
      BY <3>2
  <2>2. ASSUME NEW p \in Party
        PROVE  {Len(instChan[p]), Len(actChan[p]), Len(resp[p])} \subseteq 0 .. 1
    <3>1. /\ instChan[p] = <<>> \/ instChan[p] = <<Head(instChan[p])>>
          /\ actChan[p] = <<>> \/ actChan[p] = <<Head(actChan[p])>>
          /\ resp[p] = <<>> \/ resp[p] = <<Head(resp[p])>>
      <4>1. LinkInv(p)
        BY DEF HandInv, Handshake
      <4>2. instChan[p] = <<>> \/ instChan[p] = <<Code[pc[p]]>>
        BY <4>1 DEF LinkInv
      <4>3. instChan[p] = <<Code[pc[p]]>> => instChan[p] = <<Head(instChan[p])>>
        BY OneElement
      <4>4. QED
        BY <4>1, <4>2, <4>3 DEF LinkInv
    <3>2. QED
      BY <2>1, <3>1, Zenon
  <2>3. QED
    BY <2>2 DEF MpcTypes, MpcTypeOK
<1>4. QED
  BY <1>1, <1>2, <1>3, HandshakeHolds, PTL DEF MpcSpec

-----------------------------------------------------------------------------
(* What a virtual machine has opened, checked and output so far.           *)

Opens(k) == {i \in 1 .. k : Code[i].op \in Opening}
Outs(k) == {i \in 1 .. k : IsOutput(i)}

\* The instructions whose value is kept for a check, or has passed one.
Handled(p) ==
  {openings[p][i].at : i \in DOMAIN openings[p]} \cup {v.at : v \in verified[p]}

\* The virtual machine has completed the party's current instruction.
Complete(p) == \/ vpc[p] = "done"
               \/ vpc[p] = "idle" /\ (hpc[p] = "idle" \/ actChan[p] # <<>>)

OutputInv(p) ==
  /\ Elems(output[p]) \subseteq 1 .. pc[p]
  /\ \A i, j \in DOMAIN output[p] : i < j => output[p][i] < output[p][j]

WorkInv(p) ==
  /\ Complete(p) => Handled(p) = Opens(pc[p]) /\ Elems(output[p]) = Outs(pc[p])
  /\ (vpc[p] = "idle" /\ ~Complete(p)) \/ vpc[p] \in {"input", "open"} =>
       Handled(p) = Opens(pc[p] - 1) /\ Elems(output[p]) = Outs(pc[p] - 1)
  /\ vpc[p] = "check" =>
       Handled(p) = Opens(pc[p]) /\ Elems(output[p]) = Outs(pc[p] - 1)
  /\ vpc[p] = "done" => openings[p] = <<>>
  /\ OutputInv(p)

LEMMA WorkLocal ==
  ASSUME NEW q \in Party, WorkInv(q), UNCHANGED Local(q) PROVE WorkInv(q)'
  BY DEF WorkInv, OutputInv, Complete, Handled, Elems, Opens, Outs, Local

LEMMA OneMore ==
  ASSUME NEW k \in DOMAIN Code
  PROVE  /\ Opens(k) = IF Code[k].op \in Opening THEN Opens(k - 1) \cup {k} ELSE Opens(k - 1)
         /\ Outs(k) = IF IsOutput(k) THEN Outs(k - 1) \cup {k} ELSE Outs(k - 1)
         /\ Outs(k - 1) \subseteq 1 .. k - 1 /\ k \in Nat \ {0}
<1>1. k \in Nat \ {0} /\ 1 .. k = 1 .. k - 1 \cup {k} /\ k \notin 1 .. k - 1
  BY CodeFacts
<1>2. QED
  BY <1>1 DEF Opens, Outs

\* An instruction that adds to the output adds at its end.
LEMMA MoreOutput ==
  ASSUME NEW p \in Party, pc[p] \in DOMAIN Code, pc'[p] = pc[p],
         IsSeq(output[p]), OutputInv(p), Elems(output[p]) = Outs(pc[p] - 1),
         output'[p] = Append(output[p], pc[p])
  PROVE  /\ OutputInv(p)'
         /\ Elems(output'[p]) = Outs(pc[p] - 1) \cup {pc[p]}
<1> DEFINE o == output[p]
           n == Append(o, pc[p])
<1>1. /\ Elems(n) = Elems(o) \cup {pc[p]} /\ DOMAIN o = 1 .. Len(o) /\ Len(o) \in Nat
      /\ DOMAIN n = 1 .. Len(o) + 1 /\ \A i \in DOMAIN o : n[i] = o[i]
      /\ n[Len(o) + 1] = pc[p]
  BY Appended
<1>2. Elems(o) \subseteq 1 .. pc[p] - 1 /\ pc[p] \in Nat \ {0}
  BY OneMore
<1>3. \A i \in DOMAIN o : o[i] \in 1 .. pc[p] - 1
  BY <1>2 DEF Elems
<1>4. \A i, j \in DOMAIN o : i < j => o[i] < o[j]
  BY DEF OutputInv
<1>5. Elems(output'[p]) = Elems(o) \cup {pc[p]}
  BY <1>1, Zenon
<1>6. \A i, j \in DOMAIN n : i < j => n[i] < n[j]
  <2> HIDE DEF n, o
  <2>1. TAKE i, j \in DOMAIN n
  <2>2. HAVE i < j
  <2>3. i \in DOMAIN o /\ (j \in DOMAIN o \/ j = Len(o) + 1)
    BY <1>1, <2>2
  <2>4. QED
    BY <1>1, <1>2, <1>3, <1>4, <2>2, <2>3
<1>7. \A i, j \in DOMAIN output'[p] : i < j => output'[p][i] < output'[p][j]
  BY <1>6, Zenon
<1>8. Elems(output'[p]) \subseteq 1 .. pc'[p]
  BY <1>2, <1>5
<1>9. QED
  BY <1>5, <1>7, <1>8 DEF OutputInv, Elems

\* The virtual machine asks for the next step of its instruction.
LEMMA AskWork ==
  ASSUME NEW p \in Party, Domains, NEW action, NEW at, Ask(p, action, at),
         at \in {"idle", "input", "open", "check", "done"},
         hpc'[p] = "action", actChan[p] = <<>>, OutputInv(p)',
         at \in {"idle", "done"} =>
           Handled(p)' = Opens(pc'[p]) /\ Elems(output'[p]) = Outs(pc'[p]),
         at \in {"input", "open"} =>
           Handled(p)' = Opens(pc'[p] - 1) /\ Elems(output'[p]) = Outs(pc'[p] - 1),
         at = "check" =>
           Handled(p)' = Opens(pc'[p]) /\ Elems(output'[p]) = Outs(pc'[p] - 1),
         at = "done" => openings'[p] = <<>>
  PROVE  WorkInv(p)'
<1>1. CASE Gone(p)
  <2>1. vpc'[p] = "failed"
    BY <1>1 DEF Ask, VMFails, Domains
  <2>2. QED
    BY <2>1 DEF WorkInv, Complete
<1>2. CASE ~Gone(p)
  <2>1. vpc'[p] = at /\ actChan'[p] = <<action>> /\ actChan'[p] # <<>>
    BY <1>2, OneElement DEF Ask, Domains
  <2> DEFINE H(k) == Handled(p)' = Opens(k)
             E(k) == Elems(output[p])' = Outs(k)
  <2>2. /\ at \in {"idle", "done"} => H(pc'[p]) /\ E(pc'[p])
        /\ at \in {"input", "open"} => H(pc'[p] - 1) /\ E(pc'[p] - 1)
        /\ at = "check" => H(pc'[p]) /\ E(pc'[p] - 1)
    BY DEF Elems
  <2>3. /\ Complete(p)' <=> at \in {"idle", "done"}
        /\ at = "idle" => Complete(p)'
    BY <2>1 DEF Complete
  <2>4. /\ H(pc'[p]) <=> (Handled(p) = Opens(pc[p]))'
        /\ H(pc'[p] - 1) <=> (Handled(p) = Opens(pc[p] - 1))'
        /\ E(pc'[p]) <=> (Elems(output[p]) = Outs(pc[p]))'
        /\ E(pc'[p] - 1) <=> (Elems(output[p]) = Outs(pc[p] - 1))'
    BY DEF Opens, Outs, Elems
  <2>5. QED
    BY <2>1, <2>2, <2>3, <2>4 DEF WorkInv
<1>3. QED
  BY <1>1, <1>2

LEMMA FailWork ==
  ASSUME NEW p \in Party, Domains, WorkInv(p), vpc'[p] = "failed",
         UNCHANGED <<pc[p], output[p]>>
  PROVE  WorkInv(p)'
  BY DEF WorkInv, Complete, OutputInv, Elems

\* What holds when an instruction is taken.
LEMMA TakenWork ==
  ASSUME NEW p \in Party, Domains, Handshake(p), WorkInv(p), NEW ops, Take(p, ops)
  PROVE  /\ Handled(p) = Opens(pc[p] - 1) /\ Elems(output[p]) = Outs(pc[p] - 1)
         /\ OutputInv(p) /\ hpc[p] = "action" /\ actChan[p] = <<>> /\ pc[p] \in DOMAIN Code
         /\ Op(p) \in ops /\ IsSeq(output[p]) /\ IsSeq(openings[p])
<1>1. /\ vpc[p] = "idle" /\ hpc[p] = "action" /\ actChan[p] = <<>>
      /\ pc[p] \in DOMAIN Code /\ Op(p) \in ops
  BY Taken
<1>2. ~Complete(p)
  BY <1>1 DEF Complete
<1>3. QED
  BY <1>1, <1>2 DEF WorkInv, Handshake, ListInv

LEMMA SameOutput ==
  ASSUME NEW p \in Party, UNCHANGED <<pc[p], output[p]>>
  PROVE  /\ Elems(output'[p]) = Elems(output[p])
         /\ OutputInv(p) => OutputInv(p)'
  BY DEF Elems, OutputInv

LEMMA Instructions ==
  ASSUME NEW s PROVE {x.at : x \in Elems(s)} = {s[i].at : i \in DOMAIN s}
  BY DEF Elems

LEMMA UnionOf ==
  ASSUME NEW S, NEW T
  PROVE  {x.at : x \in S \cup T} = {x.at : x \in S} \cup {x.at : x \in T}
  OBVIOUS

LEMMA OfOne == ASSUME NEW e PROVE {x.at : x \in {e}} = {e.at}
  OBVIOUS

LEMMA SameWork ==
  ASSUME NEW p \in Party, UNCHANGED <<pc[p], output[p], openings[p], verified[p]>>
  PROVE  /\ Handled(p)' = Handled(p) /\ Elems(output'[p]) = Elems(output[p])
         /\ OutputInv(p) => OutputInv(p)'
  BY DEF Handled, Elems, OutputInv

LEMMA DoWork ==
  ASSUME NEW p \in Party, Domains, Handshake(p), WorkInv(p),
         DoLocal(p) \/ DoTriple(p) \/ DoInput(p) \/ DoOpen(p) \/ DoStop(p)
  PROVE  WorkInv(p)'
<1> USE DEF prepVars, handVars, histVars, vars, partyVars
<1>1. CASE DoLocal(p)
  <2>1. Take(p, {"Local", "COutput"})
    BY <1>1 DEF DoLocal
  <2>2. UNCHANGED <<pc[p], hpc[p], openings[p], verified[p]>>
    BY <1>1 DEF DoLocal
  <2>3. CASE Empty(p, Head(instChan[p]))
    <3>1. VMFails(p, "EmptyError") /\ UNCHANGED output[p]
      BY <1>1, <2>3 DEF DoLocal
    <3>2. QED
      BY <2>2, <3>1, FailWork DEF VMFails, Domains
  <2>4. CASE ~Empty(p, Head(instChan[p]))
    <3>1. /\ Done(p)
          /\ output'[p] = IF Op(p) = "COutput" THEN Append(output[p], pc[p]) ELSE output[p]
      BY <1>1, <2>1, <2>4, Taken DEF DoLocal, Domains, Op
    <3>2. Handled(p)' = Opens(pc[p]) /\ (IsOutput(pc[p]) <=> Op(p) = "COutput")
      <4>1. Handled(p)' = Handled(p)
        BY <2>2 DEF Handled
      <4>2. QED
        BY <2>1, <4>1, TakenWork, OneMore DEF Op, Opening, IsOutput
    <3>3. OutputInv(p)' /\ Elems(output'[p]) = Outs(pc[p])
      <4>1. CASE Op(p) = "COutput"
        BY <2>1, <2>2, <3>1, <3>2, <4>1, TakenWork, MoreOutput, OneMore
      <4>2. CASE Op(p) # "COutput"
        BY <2>1, <2>2, <3>1, <3>2, <4>2, TakenWork, SameWork, OneMore
      <4>3. QED
        BY <4>1, <4>2
    <3>4. QED
      BY <2>1, <2>2, <3>1, <3>2, <3>3, TakenWork, AskWork DEF Done
  <2>5. QED
    BY <2>3, <2>4
<1>2. CASE DoTriple(p)
  <2>1. Take(p, {"Triple"})
    BY <1>2 DEF DoTriple
  <2>2. UNCHANGED <<pc[p], hpc[p], output[p], openings[p], verified[p]>>
    BY <1>2 DEF DoTriple, Domains
  <2>3. /\ Handled(p)' = Opens(pc[p]) /\ Elems(output'[p]) = Outs(pc[p])
        /\ OutputInv(p)'
    BY <2>1, <2>2, TakenWork, SameWork, OneMore DEF Op, Opening, IsOutput
  <2>4. VMFails(p, "RecvTimeoutError") \/ Done(p)
    BY <1>2 DEF DoTriple
  <2>5. CASE VMFails(p, "RecvTimeoutError")
    BY <2>2, <2>5, FailWork DEF VMFails, Domains
  <2>6. CASE Done(p)
    BY <2>1, <2>2, <2>3, <2>6, TakenWork, AskWork DEF Done
  <2>7. QED
    BY <2>4, <2>5, <2>6
<1>3. CASE DoInput(p) \/ DoOpen(p)
  <2>1. Take(p, {"Input"}) \/ Take(p, {"Open", "SOutput"})
    BY <1>3 DEF DoInput, DoOpen
  <2>2. UNCHANGED <<pc[p], hpc[p], output[p], openings[p], verified[p]>>
    BY <1>3 DEF DoInput, DoOpen
  <2>3. /\ Handled(p)' = Opens(pc[p] - 1) /\ Elems(output'[p]) = Outs(pc[p] - 1)
        /\ OutputInv(p)'
    BY <2>1, <2>2, TakenWork, SameWork
  <2>4. \/ \E e : VMFails(p, e)
        \/ \E a : Ask(p, a, "input") \/ Ask(p, a, "open")
    BY <1>3 DEF DoInput, DoOpen
  <2>5. CASE \E e : VMFails(p, e)
    BY <2>2, <2>5, FailWork DEF VMFails, Domains
  <2>6. CASE \E a : Ask(p, a, "input") \/ Ask(p, a, "open")
    BY <2>1, <2>2, <2>3, <2>6, TakenWork, AskWork
  <2>7. QED
    BY <2>4, <2>5, <2>6
<1>4. CASE DoStop(p)
  <2>1. Take(p, {"Stop"})
    BY <1>4 DEF DoStop
  <2>2. UNCHANGED <<pc[p], hpc[p], output[p], openings[p], verified[p]>>
    BY <1>4 DEF DoStop
  <2>3. /\ Handled(p)' = Opens(pc[p]) /\ Elems(output'[p]) = Outs(pc[p])
        /\ Outs(pc[p]) = Outs(pc[p] - 1) /\ OutputInv(p)'
    BY <2>1, <2>2, TakenWork, SameWork, OneMore DEF Op, Opening, IsOutput
  <2>4. \/ \E a : Ask(p, a, "check")
        \/ Ask(p, [act |-> "Next"], "done") /\ openings[p] = <<>>
    BY <1>4 DEF DoStop, Unchecked
  <2>5. QED
    BY <2>1, <2>2, <2>3, <2>4, TakenWork, AskWork
<1>5. QED
  BY <1>1, <1>2, <1>3, <1>4

LEMMA EndWork ==
  ASSUME NEW p \in Party, Domains, Handshake(p), WorkInv(p),
         EndInput(p) \/ EndOpen(p) \/ EndCheck(p) \/ VMTimeout(p)
  PROVE  WorkInv(p)'
<1> USE DEF prepVars, handVars, histVars, vars, partyVars
<1>1. CASE EndInput(p)
  <2>1. /\ UNCHANGED <<pc[p], hpc[p], openings[p], output[p], verified[p]>>
        /\ resp[p] # <<>> /\ vpc[p] = "input" /\ Op(p) = "Input" /\ Done(p)
    BY <1>1 DEF EndInput, Handshake, VMInv
  <2>2. hpc[p] = "action" /\ actChan[p] = <<>> /\ pc[p] \in DOMAIN Code
    BY <2>1, Answered
  <2>3. /\ Handled(p)' = Opens(pc[p]) /\ Elems(output'[p]) = Outs(pc[p])
        /\ OutputInv(p)'
    BY <2>1, <2>2, SameWork, OneMore DEF WorkInv, Op, Opening, IsOutput
  <2>4. QED
    BY <2>1, <2>2, <2>3, AskWork DEF Done
<1>2. CASE EndOpen(p)
  <2> DEFINE o == [at |-> pc[p], x |-> Head(resp[p]), share |-> Operand(p)]
             os == openings[p]
  <2>1. /\ UNCHANGED <<pc[p], hpc[p], output[p], verified[p]>>
        /\ resp[p] # <<>> /\ vpc[p] = "open" /\ Op(p) \in Opening
        /\ openings'[p] = Append(os, o)
    BY <1>2 DEF EndOpen, Handshake, VMInv, Domains
  <2>2. hpc[p] = "action" /\ actChan[p] = <<>> /\ pc[p] \in DOMAIN Code /\ IsSeq(os)
    BY <2>1, Answered DEF Handshake, ListInv
  <2>3. Handled(p)' = Opens(pc[p])
    <3>1. {x.at : x \in Elems(openings'[p])} = {x.at : x \in Elems(os)} \cup {pc[p]}
      <4> HIDE DEF o, os
      <4>1. Elems(Append(os, o)) = Elems(os) \cup {o}
        BY <2>2, Appended
      <4>2. Elems(openings'[p]) = Elems(os) \cup {o}
        BY <2>1, <4>1, Zenon
      <4>3. o.at = pc[p]
        BY DEF o
      <4>4. {x.at : x \in Elems(os) \cup {o}} = {x.at : x \in Elems(os)} \cup {o.at}
        BY UnionOf, OfOne, Zenon
      <4>5. QED
        BY <4>2, <4>3, <4>4
    <3>2. Handled(p)' = Handled(p) \cup {pc[p]}
      <4>1. {openings'[p][i].at : i \in DOMAIN openings'[p]} =
              {os[i].at : i \in DOMAIN os} \cup {pc[p]}
        BY <3>1, Instructions
      <4>2. QED
        BY <2>1, <4>1 DEF Handled
    <3>3. Handled(p) = Opens(pc[p] - 1)
      BY <2>1 DEF WorkInv
    <3>4. QED
      BY <2>1, <2>2, <3>2, <3>3, OneMore DEF Op
  <2>4. Elems(output'[p]) = Outs(pc[p] - 1) /\ OutputInv(p)'
    BY <2>1, SameOutput DEF WorkInv
  <2>5. CASE Op(p) = "SOutput"
    <3>1. Ask(p, [act |-> "Check", list |-> openings'[p]], "check")
      BY <1>2, <2>5 DEF EndOpen, Op
    <3>2. QED
      BY <2>1, <2>2, <2>3, <2>4, <3>1, AskWork
  <2>6. CASE Op(p) # "SOutput"
    <3>1. Done(p)
      BY <1>2, <2>6 DEF EndOpen, Op
    <3>2. Outs(pc[p]) = Outs(pc[p] - 1)
      BY <2>1, <2>2, <2>6, OneMore DEF Op, Opening, IsOutput
    <3>3. QED
      BY <2>1, <2>2, <2>3, <2>4, <3>1, <3>2, AskWork DEF Done
  <2>7. QED
    BY <2>5, <2>6
<1>3. CASE EndCheck(p)
  <2>1. /\ UNCHANGED <<pc[p], hpc[p]>>
        /\ vpc[p] = "check" /\ resp[p] # <<>> /\ Op(p) \in Checking
    BY <1>3 DEF EndCheck, Handshake, VMInv
  <2>2. /\ hpc[p] = "action" /\ actChan[p] = <<>> /\ pc[p] \in DOMAIN Code
        /\ IsSeq(output[p])
    BY <2>1, Answered DEF Handshake, ListInv
  <2>3. CASE Head(resp[p]) = "Ok"
    <3>1. openings'[p] = <<>>
      BY <1>3, <2>3 DEF EndCheck, Domains
    <3>2. Handled(p)' = Opens(pc[p])
      <4>1. DOMAIN openings'[p] = {}
        BY <3>1
      <4> DEFINE Entry(i) == [at |-> openings[p][i].at, x |-> openings[p][i].x, by |-> pc[p]]
                 T == {Entry(i) : i \in DOMAIN openings[p]}
      <4>2. verified'[p] = verified[p] \cup T
        BY <1>3, <2>3 DEF EndCheck, Domains
      <4>3. {v.at : v \in verified'[p]} = Handled(p)
        <5>1. {v.at : v \in T} = {openings[p][i].at : i \in DOMAIN openings[p]}
          <6>1. \A i : Entry(i).at = openings[p][i].at
            OBVIOUS
          <6>2. {v.at : v \in T} = {Entry(i).at : i \in DOMAIN openings[p]}
            <7> HIDE DEF Entry
            <7> QED
              OBVIOUS
          <6>3. QED
            BY <6>1, <6>2
        <5>2. {v.at : v \in verified'[p]} = {v.at : v \in verified[p]} \cup {v.at : v \in T}
          <6> HIDE DEF T
          <6> QED
            BY <4>2, UnionOf, Zenon
        <5>3. QED
          BY <5>1, <5>2 DEF Handled
      <4>4. Handled(p)' = Handled(p)
        BY <4>1, <4>3 DEF Handled
      <4>5. QED
        BY <2>1, <4>4 DEF WorkInv
    <3>3. Elems(output[p]) = Outs(pc[p] - 1) /\ OutputInv(p)
      BY <2>1 DEF WorkInv
    <3>4. CASE Op(p) = "SOutput"
      <4>1. output'[p] = Append(output[p], pc[p]) /\ Done(p)
        BY <1>3, <2>3, <3>4 DEF EndCheck, Domains, Op
      <4>2. Elems(output'[p]) = Outs(pc[p]) /\ OutputInv(p)'
        BY <2>1, <2>2, <3>3, <3>4, <4>1, MoreOutput, OneMore DEF Op, IsOutput
      <4>3. QED
        BY <2>1, <2>2, <3>2, <4>1, <4>2, AskWork DEF Done
    <3>5. CASE Op(p) # "SOutput"
      <4>1. output'[p] = output[p] /\ Ask(p, [act |-> "Next"], "done")
        BY <1>3, <2>3, <3>5 DEF EndCheck, Domains, Op
      <4>2. Elems(output'[p]) = Outs(pc[p]) /\ OutputInv(p)'
        BY <2>1, <2>2, <3>3, <3>5, <4>1, SameOutput, OneMore DEF Op, IsOutput, Checking
      <4>3. QED
        BY <2>1, <2>2, <3>1, <3>2, <4>1, <4>2, AskWork
    <3>6. QED
      BY <3>4, <3>5
  <2>4. CASE Head(resp[p]) # "Ok"
    <3>1. VMFails(p, Head(resp[p])) /\ UNCHANGED output[p]
      BY <1>3, <2>4 DEF EndCheck
    <3>2. QED
      BY <2>1, <3>1, FailWork DEF VMFails, Domains
  <2>5. QED
    BY <2>3, <2>4
<1>4. CASE VMTimeout(p)
  BY <1>4, FailWork DEF VMTimeout, VMFails, Domains
<1>5. QED
  BY <1>1, <1>2, <1>3, <1>4
LEMMA PartyWork ==
  ASSUME TypeOK, HandInv, NEW p \in Party, WorkInv(p), PartyThread(p) \/ PrepEnds(p)
  PROVE  WorkInv(p)'
<1> USE DEF prepVars, handVars, histVars, vars, partyVars, vmVars, linkVars
<1>1. UNCHANGED <<openings[p], output[p], verified[p], vpc[p]>>
  BY DEF PartyThread, Listen, Forward, ForwardFails, PrepEnds, HandlerFails, Fails, mpcVars,
         GiveInstruction, OnNext, OnOpen, OnInput, OnCheck, TakeAction,
         EndElems, EndInputElem, Commit, EndComs, Reveal, EndOpens
<1>2. ASSUME UNCHANGED <<pc[p], output[p], openings[p], verified[p], vpc[p]>>,
             vpc[p] = "idle" => (Complete(p)' <=> Complete(p))
      PROVE  WorkInv(p)'
  <2>1. Complete(p)' <=> Complete(p)
    BY <1>2 DEF Complete
  <2>2. /\ Handled(p)' = Handled(p) /\ Elems(output[p])' = Elems(output[p])
        /\ OutputInv(p) => OutputInv(p)'
        /\ Opens(pc[p])' = Opens(pc[p]) /\ Opens(pc[p] - 1)' = Opens(pc[p] - 1)
        /\ Outs(pc[p])' = Outs(pc[p]) /\ Outs(pc[p] - 1)' = Outs(pc[p] - 1)
    BY <1>2, SameWork DEF Elems, Opens, Outs
  <2>3. QED
    BY <1>2, <2>1, <2>2 DEF WorkInv
<1>3. Handshake(p) /\ Domains
  BY DEF HandInv
<1>4. CASE Fetch(p) /\ Fetches(p) /\ Listen(p)
  <2>1. /\ ppc[p] = "running" /\ pc'[p] = pc[p] + 1 /\ pc[p] \in Nat
        /\ pc[p] < Len(prog[p])
    BY <1>4 DEF Fetch, Fetches, TypeOK
  <2>2. hpc'[p] = "give" /\ actChan'[p] = actChan[p]
    BY <1>3, <1>4, <2>1 DEF Listen, AwaitStart, SyncLost, Join, Domains
  <2>3. hpc[p] = "idle" /\ vpc[p] \in {"idle", "failed"} /\ actChan[p] = <<>>
    BY <1>3, <2>1 DEF Handshake, PhaseInv, VMInv, LinkInv
  <2>4. /\ vpc[p] = "idle" => Handled(p) = Opens(pc[p]) /\ Elems(output[p]) = Outs(pc[p])
        /\ OutputInv(p)
    BY <2>3 DEF WorkInv, Complete
  <2>5. ~Complete(p)'
    BY <1>1, <2>2, <2>3 DEF Complete
  <2>6. /\ Handled(p)' = Handled(p) /\ Elems(output[p])' = Elems(output[p])
    BY <1>1 DEF Handled, Elems
  <2>7. OutputInv(p)'
    BY <1>1, <2>1, <2>4 DEF OutputInv, Elems
  <2>8. Opens(pc[p] - 1)' = Opens(pc[p]) /\ Outs(pc[p] - 1)' = Outs(pc[p])
    <3>1. pc'[p] - 1 = pc[p]
      BY <2>1
    <3>2. QED
      BY <3>1 DEF Opens, Outs
  <2>9. QED
    BY <1>1, <2>3, <2>4, <2>5, <2>6, <2>7, <2>8 DEF WorkInv
<1>5. CASE (Listen(p) /\ ~(Fetch(p) /\ Fetches(p))) \/ Forward(p) \/ ForwardFails(p)
           \/ PrepEnds(p) \/ HandlerFails(p)
  <2>1. UNCHANGED <<pc[p], hpc[p], actChan[p]>>
    BY <1>5 DEF Listen, AwaitStart, Fetch, SyncLost, Join, Fails, mpcVars, TypeOK,
       Forward, ForwardFails, PrepEnds, HandlerFails, PrepFails, BusyFails
  <2>2. QED
    BY <1>1, <1>2, <2>1 DEF Complete
<1>6. CASE GiveInstruction(p)
  <2>1. UNCHANGED <<pc[p], actChan[p]>> /\ hpc[p] = "give" /\ hpc'[p] = "action"
    BY <1>3, <1>6 DEF GiveInstruction, At, Go, Domains
  <2>2. QED
    BY <1>1, <1>2, <2>1 DEF Complete
<1>7. CASE OnNext(p)
  <2>1. pc'[p] = pc[p] /\ hpc[p] = "action" /\ actChan[p] # <<>> /\ hpc'[p] = "idle"
    BY <1>3, <1>7 DEF OnNext, Reply, TakeAction, At, Go, Domains
  <2>2. QED
    BY <1>1, <1>2, <2>1 DEF Complete
<1>8. CASE OnOpen(p) \/ OnInput(p) \/ OnCheck(p)
  <2>1. pc'[p] = pc[p] /\ actChan[p] # <<>>
        /\ Head(actChan[p]).act \in {"Open", "Input", "Check"}
    BY <1>8 DEF OnOpen, OnInput, OnCheck, TakeAction
  <2>2. ActionFits(p, Head(actChan[p]))
    BY <1>3, <2>1 DEF Handshake, LinkInv
  <2>3. vpc[p] # "idle"
    BY <2>1, <2>2 DEF ActionFits
  <2>4. QED
    BY <1>1, <1>2, <2>1, <2>3
<1>9. CASE \/ EndElems(p) \/ EndInputElem(p)
           \/ Commit(p) \/ EndComs(p) \/ Reveal(p) \/ EndOpens(p)
  <2>1. /\ hpc[p] \in {"elems", "input"} \cup CheckPhases
        /\ UNCHANGED pc[p]
    BY <1>9 DEF EndElems, EndInputElem, Commit, EndComs, Reveal, EndOpens, At, CheckPhases
  <2>2. CASE vpc[p] # "idle"
    BY <1>1, <1>2, <2>1, <2>2
  <2>3. vpc[p] # "idle"
    BY <1>3, <2>1 DEF Handshake, PhaseInv
  <2>4. QED
    BY <2>2, <2>3
<1>10. QED
  BY <1>4, <1>5, <1>6, <1>7, <1>8, <1>9 DEF PartyThread

AllWork == \A p \in Party : WorkInv(p)

LEMMA InitWork == MpcInit => AllWork
<1> SUFFICES ASSUME MpcInit, NEW p \in Party PROVE WorkInv(p)
  BY DEF AllWork
<1>1. /\ openings[p] = <<>> /\ output[p] = <<>> /\ verified[p] = {} /\ pc[p] = 0
      /\ vpc[p] = "idle" /\ hpc[p] = "idle"
  BY DEF MpcInit, Init
<1>2. Opens(0) = {} /\ Outs(0) = {} /\ DOMAIN <<>> = {}
  BY DEF Opens, Outs
<1>3. Handled(p) = {} /\ Elems(output[p]) = {}
  BY <1>1, <1>2 DEF Handled, Elems
<1>4. QED
  BY <1>1, <1>2, <1>3 DEF WorkInv, Complete, OutputInv

LEMMA NextWork == TypeOK /\ HandInv /\ AllWork /\ [MpcNext]_allVars => AllWork'
<1> SUFFICES ASSUME TypeOK, HandInv, AllWork, [MpcNext]_allVars, NEW q \in Party
             PROVE  WorkInv(q)'
  BY DEF AllWork
<1>1. CASE UNCHANGED Local(q)
  BY <1>1, WorkLocal DEF AllWork
<1>2. CASE VMStep(q) \/ PartyThread(q) \/ PrepEnds(q)
  BY <1>2, DoWork, EndWork, PartyWork DEF VMStep, AllWork, HandInv
<1>3. QED
  BY <1>1, <1>2, StepOf DEF HandInv

\* A party that returns a result has had every opened value checked, and its
\* output is that of all its output instructions, in order (ResultIsChecked):
\* no path through the VM reaches the end of a program around the MAC check.
THEOREM ResultsAreChecked == MpcSpec => []ResultIsChecked
<1>1. HandInv /\ AllWork => ResultIsChecked
  <2> SUFFICES ASSUME HandInv, AllWork, NEW p \in Party, ppc[p] \in {"joining", "ok"}
               PROVE  /\ openings[p] = <<>>
                      /\ {v.at : v \in verified[p]} = Opens(pc[p])
                      /\ Elems(output[p]) = Outs(pc[p])
                      /\ OutputInv(p)
    BY DEF ResultIsChecked, Opens, Outs, Opening, Elems, OutputInv
  <2>1. vpc[p] = "done"
    BY DEF HandInv, Handshake, PhaseInv
  <2>2. /\ openings[p] = <<>> /\ Handled(p) = Opens(pc[p])
        /\ Elems(output[p]) = Outs(pc[p]) /\ OutputInv(p)
    BY <2>1 DEF AllWork, WorkInv, Complete
  <2>3. DOMAIN openings[p] = {}
    BY <2>2
  <2>4. QED
    BY <2>2, <2>3 DEF Handled
<1>2. QED
  BY <1>1, InitWork, NextWork, HandshakeHolds, MpcImplementsLockstep, TypeCorrect,
     PTL DEF MpcSpec

-----------------------------------------------------------------------------
(* The sharings a party has been forwarded, has still to use, and has used. *)

Distinct(s) == \A i, j \in DOMAIN s : s[i] = s[j] => i = j

\* d and t are the sharings not yet used, of f that were forwarded; u[i] are
\* those that instruction i has used.
Fresh(d, t, f, u) ==
  /\ Distinct(d) /\ Distinct(t)
  /\ Elems(d) \cap Elems(t) = {}
  /\ Elems(d) \cup Elems(t) \subseteq f
  /\ DOMAIN u = DOMAIN Code
  /\ \A i \in DOMAIN Code : u[i] \subseteq f \ (Elems(d) \cup Elems(t))
  /\ \A i, j \in DOMAIN Code : i # j => u[i] \cap u[j] = {}

Forwarded(p) == {Prep[i] : i \in 1 .. fwd[p]}
FreshInv(p) == Fresh(Drained(p), tripleChan[p], Forwarded(p), used[p])
AllFresh == \A p \in Party : FreshInv(p)

LEMMA AppendFacts ==
  ASSUME NEW S, NEW s \in Seq(S), NEW m \in S
  PROVE  /\ Append(s, m) \in Seq(S) /\ Len(Append(s, m)) = Len(s) + 1
         /\ \A i \in 1 .. Len(s) : Append(s, m)[i] = s[i]
         /\ Append(s, m)[Len(s) + 1] = m
  OBVIOUS

LEMMA AppendConcat ==
  ASSUME NEW s \in Seq(Sharing), NEW t \in Seq(Sharing), NEW m \in Sharing
  PROVE  s \o Append(t, m) = Append(s \o t, m)
<1> DEFINE S == Sharing
           u == Append(t, m)
           c == s \o t
           l == s \o u
           r == Append(c, m)
           a == Len(s)
           b == Len(t)
<1>1. a \in Nat /\ b \in Nat
  OBVIOUS
<1>2. /\ u \in Seq(S) /\ Len(u) = b + 1
      /\ \A i \in 1 .. b : u[i] = t[i]
      /\ u[b + 1] = m
  OBVIOUS
<1>3. /\ c \in Seq(S) /\ Len(c) = a + b
      /\ \A i \in 1 .. a + b : c[i] = IF i <= a THEN s[i] ELSE t[i - a]
  BY ConcatProperties
<1>4. /\ r \in Seq(S) /\ Len(r) = Len(c) + 1
      /\ \A i \in 1 .. Len(c) : r[i] = c[i]
      /\ r[Len(c) + 1] = m
  BY <1>3, AppendFacts
<1>5. /\ l \in Seq(S) /\ Len(l) = a + Len(u)
      /\ \A i \in 1 .. a + Len(u) : l[i] = IF i <= a THEN s[i] ELSE u[i - a]
  <2> HIDE DEF u
  <2> QED
    BY <1>2, ConcatProperties
<1> HIDE DEF S, u, c, l, r, a, b
<1>6. Len(l) = a + b + 1 /\ Len(r) = a + b + 1
  BY <1>1, <1>2, <1>3, <1>4, <1>5
<1>7. ASSUME NEW i \in 1 .. Len(l) PROVE l[i] = r[i]
  <2>1. i \in 1 .. a + b + 1
    BY <1>6
  <2>2. l[i] = IF i <= a THEN s[i] ELSE u[i - a]
    BY <1>1, <1>2, <1>5, <2>1
  <2>3. CASE i <= a + b
    <3>1. r[i] = IF i <= a THEN s[i] ELSE t[i - a]
      BY <1>1, <1>3, <1>4, <2>1, <2>3
    <3>2. i > a => u[i - a] = t[i - a]
      BY <1>1, <1>2, <2>1, <2>3
    <3>3. QED
      BY <1>1, <2>1, <2>2, <3>1, <3>2
  <2>4. CASE i = a + b + 1
    BY <1>1, <1>2, <1>3, <1>4, <2>2, <2>4
  <2>5. QED
    BY <1>1, <2>1, <2>3, <2>4
<1>8. l = r
  BY <1>4, <1>5, <1>6, <1>7, SeqEqual
<1>9. QED
  BY <1>8 DEF l, r, u, c, S

LEMMA AppendedFresh ==
  ASSUME NEW d \in Seq(Sharing), NEW t \in Seq(Sharing), NEW f, NEW u, Fresh(d, t, f, u),
         NEW m \in Sharing, m \notin f
  PROVE  /\ Fresh(Append(d, m), t, f \cup {m}, u)
         /\ Fresh(d, Append(t, m), f \cup {m}, u)
<1>1. ASSUME NEW s \in Seq(Sharing), Distinct(s), m \notin Elems(s)
      PROVE  Distinct(Append(s, m)) /\ Elems(Append(s, m)) = Elems(s) \cup {m}
  <2> DEFINE n == Append(s, m)
  <2>1. /\ DOMAIN s = 1 .. Len(s) /\ Len(s) \in Nat
        /\ DOMAIN n = 1 .. Len(s) + 1 /\ \A i \in DOMAIN s : n[i] = s[i]
        /\ n[Len(s) + 1] = m /\ Elems(n) = Elems(s) \cup {m}
    BY SeqIsSeq, Appended
  <2> HIDE DEF n
  <2>2. \A i \in DOMAIN s : s[i] # m
    BY <1>1 DEF Elems
  <2>3. \A i \in DOMAIN n : i \in DOMAIN s \/ i = Len(s) + 1
    BY <2>1
  <2>4. Distinct(n)
    BY <1>1, <2>1, <2>2, <2>3 DEF Distinct
  <2>5. QED
    BY <2>1, <2>4 DEF n
<1>2. m \notin Elems(d) /\ m \notin Elems(t)
  BY DEF Fresh
<1>3. QED
  BY <1>1, <1>2 DEF Fresh

LEMMA TailFresh ==
  ASSUME NEW d, NEW t \in Seq(Sharing), NEW f, NEW u, Fresh(d, t, f, u), t # <<>>,
         NEW k \in DOMAIN Code
  PROVE  Fresh(d, Tail(t), f, [u EXCEPT ![k] = {Head(t)}])
<1> DEFINE n == Tail(t)
           m == Head(t)
<1>1. /\ Len(t) \in Nat \ {0} /\ DOMAIN t = 1 .. Len(t) /\ DOMAIN n = 1 .. Len(t) - 1
      /\ \A i \in 1 .. Len(t) - 1 : n[i] = t[i + 1]
      /\ m = t[1]
  BY SeqIsSeq, Shortened
<1> HIDE DEF n, m
<1>2. Distinct(n)
  BY <1>1 DEF Distinct, Fresh
<1>3. Elems(n) \subseteq Elems(t) /\ m \in Elems(t) /\ m \notin Elems(n)
  <2>1. \A i \in DOMAIN n : i + 1 \in DOMAIN t /\ n[i] = t[i + 1] /\ i + 1 # 1
    BY <1>1
  <2>2. 1 \in DOMAIN t
    BY <1>1
  <2>3. \A i \in DOMAIN n : n[i] # m
    BY <1>1, <2>1, <2>2 DEF Distinct, Fresh
  <2>4. QED
    BY <1>1, <2>1, <2>2, <2>3 DEF Elems
<1>4. DOMAIN [u EXCEPT ![k] = {m}] = DOMAIN Code
      /\ \A i \in DOMAIN Code : [u EXCEPT ![k] = {m}][i] = IF i = k THEN {m} ELSE u[i]
  BY DEF Fresh
<1>5. Fresh(d, n, f, [u EXCEPT ![k] = {m}])
  BY <1>2, <1>3, <1>4 DEF Fresh
<1>6. QED
  BY <1>5 DEF n, m

LEMMA PoppedFresh ==
  ASSUME NEW d \in Seq(Sharing), NEW t, NEW f, NEW u, Fresh(d, t, f, u),
         NEW h \in DOMAIN d, NEW k \in DOMAIN Code
  PROVE  Fresh(Popped(d, h), t, f, [u EXCEPT ![k] = {d[h]}])
<1> DEFINE n == Popped(d, h)
           m == d[h]
<1>1. /\ Len(d) \in Nat \ {0} /\ DOMAIN d = 1 .. Len(d) /\ DOMAIN n = 1 .. Len(d) - 1
      /\ \A i \in 1 .. Len(d) - 1 : n[i] = IF i < h THEN d[i] ELSE d[i + 1]
      /\ h \in 1 .. Len(d)
  <2>1. /\ Len(d) \in Nat /\ DOMAIN d = 1 .. Len(d) /\ Len(d) # 0
    BY SeqIsSeq
  <2>2. QED
    BY <2>1, PoppedType DEF Popped
<1> HIDE DEF n
<1> DEFINE g(i) == IF i < h THEN i ELSE i + 1
<1>a. \A i \in DOMAIN n : g(i) \in DOMAIN d /\ n[i] = d[g(i)] /\ g(i) # h
  BY <1>1
<1>b. \A i, j \in DOMAIN n : g(i) = g(j) => i = j
  BY <1>1
<1> HIDE DEF g
<1>2. Distinct(n)
  BY <1>a, <1>b DEF Distinct, Fresh
<1>3. Elems(n) \subseteq Elems(d) /\ m \in Elems(d)
  BY <1>a DEF Elems
<1>4. m \notin Elems(n)
  BY <1>a DEF Elems, Distinct, Fresh
<1> HIDE DEF m
<1>5. DOMAIN [u EXCEPT ![k] = {m}] = DOMAIN Code
      /\ \A i \in DOMAIN Code : [u EXCEPT ![k] = {m}][i] = IF i = k THEN {m} ELSE u[i]
  BY DEF Fresh
<1>6. Fresh(n, t, f, [u EXCEPT ![k] = {m}])
  BY <1>2, <1>3, <1>4, <1>5 DEF Fresh
<1>7. QED
  BY <1>6 DEF n, m

LEMMA FreshNext ==
  ASSUME NEW q \in Party, NEW d, NEW t, NEW f, NEW u, Fresh(d, t, f, u),
         Drained(q)' = d, tripleChan'[q] = t, Forwarded(q)' = f, used'[q] = u
  PROVE  FreshInv(q)'
<1>1. Fresh(Drained(q)', tripleChan'[q], Forwarded(q)', used'[q])
  BY Zenon
<1>2. QED
  BY <1>1 DEF FreshInv, Fresh, Elems, Distinct

LEMMA SameFresh ==
  ASSUME NEW q \in Party, FreshInv(q),
         UNCHANGED <<randMsgs[q], randChan[q], tripleChan[q], fwd[q], used[q]>>
  PROVE  FreshInv(q)'
<1>1. Drained(q)' = Drained(q) /\ Forwarded(q)' = Forwarded(q)
  BY DEF Drained, Forwarded
<1>2. QED
  BY <1>1, FreshNext DEF FreshInv

LEMMA VMFresh ==
  ASSUME MpcTypes, Domains, NEW p \in Party, Handshake(p), FreshInv(p), VMStep(p)
  PROVE  FreshInv(p)'
<1> USE DEF prepVars, histVars
<1>1. /\ randMsgs[p] \in Seq(Sharing) /\ randChan[p] \in Seq(Sharing)
      /\ tripleChan[p] \in Seq(Sharing) /\ Drained(p) \in Seq(Sharing)
      /\ Fresh(Drained(p), tripleChan[p], Forwarded(p), used[p])
  BY ConcatProperties DEF MpcTypes, Drained, FreshInv
<1>2. CASE DoTriple(p) /\ tripleChan[p] # <<>>
  <2>1. /\ UNCHANGED <<randMsgs[p], randChan[p], fwd[p]>>
        /\ tripleChan'[p] = Tail(tripleChan[p])
        /\ used'[p] = [used[p] EXCEPT ![pc[p]] = {Head(tripleChan[p])}]
    BY <1>2 DEF DoTriple, Domains
  <2>2. pc[p] \in DOMAIN Code
    BY <1>2, Taken DEF DoTriple
  <2>3. Fresh(Drained(p), Tail(tripleChan[p]), Forwarded(p),
              [used[p] EXCEPT ![pc[p]] = {Head(tripleChan[p])}])
    BY <1>1, <1>2, <2>2, TailFresh
  <2>4. Drained(p)' = Drained(p) /\ Forwarded(p)' = Forwarded(p)
    BY <2>1 DEF Drained, Forwarded
  <2>5. QED
    BY <2>1, <2>3, <2>4, FreshNext, Zenon
<1>3. CASE DoInput(p)
  <2>1. /\ UNCHANGED <<tripleChan[p], fwd[p]>> /\ randChan'[p] = <<>>
        /\ \/ randMsgs'[p] = Drained(p) /\ used'[p] = used[p]
           \/ \E h \in DOMAIN Drained(p) :
                /\ randMsgs'[p] = Popped(Drained(p), h)
                /\ used'[p] = [used[p] EXCEPT ![pc[p]] = {Drained(p)[h]}]
    BY <1>3 DEF DoInput, MasksFor, Domains
  <2>2. pc[p] \in DOMAIN Code
    BY <1>3, Taken DEF DoInput
  <2> DEFINE S(d, u) == Fresh(d, tripleChan[p], Forwarded(p), u) /\ d \in Seq(Sharing)
  <2>3. S(randMsgs'[p], used'[p])
    <3>1. CASE randMsgs'[p] = Drained(p) /\ used'[p] = used[p]
      BY <1>1, <3>1
    <3>2. ASSUME NEW h \in DOMAIN Drained(p), randMsgs'[p] = Popped(Drained(p), h),
                 used'[p] = [used[p] EXCEPT ![pc[p]] = {Drained(p)[h]}]
          PROVE  S(randMsgs'[p], used'[p])
      <4>1. S(Popped(Drained(p), h), [used[p] EXCEPT ![pc[p]] = {Drained(p)[h]}])
        BY <1>1, <2>2, PoppedFresh, PoppedType
      <4> HIDE DEF S
      <4>2. QED
        BY <3>2, <4>1, Zenon
    <3>3. QED
      BY <2>1, <3>1, <3>2
  <2>4. Drained(p)' = randMsgs'[p] /\ Forwarded(p)' = Forwarded(p)
    BY <2>1, <2>3, ConcatEmptySeq DEF Drained, Forwarded
  <2>5. QED
    BY <2>1, <2>3, <2>4, FreshNext
<1>4. CASE ~DoInput(p) /\ ~(DoTriple(p) /\ tripleChan[p] # <<>>)
  <2>1. UNCHANGED <<randMsgs, randChan, tripleChan, fwd, used>>
    BY <1>4 DEF VMStep, DoLocal, DoTriple, DoOpen, DoStop, EndInput, EndOpen, EndCheck, VMTimeout
  <2>2. QED
    BY <2>1, SameFresh
<1>5. QED
  BY <1>2, <1>3, <1>4

LEMMA PartyFresh ==
  ASSUME MpcTypes, Domains, NEW p \in Party, FreshInv(p), PartyThread(p) \/ PrepEnds(p)
  PROVE  FreshInv(p)'
<1> USE DEF vmVars, linkVars, prepVars, handVars, histVars
<1>1. /\ randMsgs[p] \in Seq(Sharing) /\ randChan[p] \in Seq(Sharing)
      /\ tripleChan[p] \in Seq(Sharing) /\ Drained(p) \in Seq(Sharing)
      /\ Fresh(Drained(p), tripleChan[p], Forwarded(p), used[p])
  BY ConcatProperties DEF MpcTypes, Drained, FreshInv
<1>2. ASSUME TakePrep(p)
      PROVE  /\ fwd'[p] = fwd[p] + 1 /\ Prep[fwd[p] + 1] \in Sharing
             /\ Prep[fwd[p] + 1] \notin Forwarded(p)
             /\ Forwarded(p)' = Forwarded(p) \cup {Prep[fwd[p] + 1]}
  <2>1. fwd'[p] = fwd[p] + 1 /\ fwd[p] \in Nat /\ fwd[p] + 1 \in DOMAIN Prep
        /\ DOMAIN Prep = 1 .. Len(Prep)
    BY <1>2, PrepFacts DEF TakePrep, Domains, MpcTypes
  <2>2. 1 .. fwd[p] + 1 = (1 .. fwd[p]) \cup {fwd[p] + 1} /\ 1 .. fwd[p] \subseteq DOMAIN Prep
        /\ fwd[p] + 1 \notin 1 .. fwd[p]
    BY <2>1
  <2>3. Prep[fwd[p] + 1] \notin Forwarded(p)
    <3>1. \A i \in 1 .. fwd[p] : i \in DOMAIN Prep /\ i # fwd[p] + 1
      BY <2>2
    <3>2. \A i, j \in DOMAIN Prep : Prep[i] = Prep[j] => i = j
      BY MpcAssumption
    <3>3. QED
      BY <2>1, <3>1, <3>2 DEF Forwarded
  <2>4. QED
    BY <2>1, <2>2, <2>3 DEF Forwarded, Sharing
<1>3. CASE Forward(p)
  <2> DEFINE m == Prep[fwd[p] + 1]
  <2>1. /\ m \in Sharing /\ m \notin Forwarded(p) /\ Forwarded(p)' = Forwarded(p) \cup {m}
        /\ UNCHANGED <<randMsgs, used>>
        /\ \/ randChan'[p] = Append(randChan[p], m) /\ UNCHANGED tripleChan
           \/ tripleChan'[p] = Append(tripleChan[p], m) /\ UNCHANGED randChan
    BY <1>2, <1>3 DEF Forward, Domains
  <2> HIDE DEF m
  <2>2. CASE randChan'[p] = Append(randChan[p], m) /\ UNCHANGED tripleChan
    <3>1. Drained(p)' = Append(Drained(p), m)
      <4>1. randMsgs[p] \o Append(randChan[p], m) = Append(randMsgs[p] \o randChan[p], m)
        <5>1. randMsgs[p] \in Seq(Sharing) /\ randChan[p] \in Seq(Sharing) /\ m \in Sharing
          BY <1>1, <2>1
        <5>2. QED
          BY <5>1, AppendConcat
      <4>2. QED
        BY <2>1, <2>2, <4>1 DEF Drained
    <3>2. Fresh(Drained(p)', tripleChan[p], Forwarded(p)', used[p])
      BY <1>1, <2>1, <3>1, AppendedFresh
    <3>3. QED
      BY <2>1, <2>2, <3>2, FreshNext
  <2>3. CASE tripleChan'[p] = Append(tripleChan[p], m) /\ UNCHANGED randChan
    <3>1. Drained(p)' = Drained(p)
      BY <2>1, <2>3 DEF Drained
    <3>2. Fresh(Drained(p), Append(tripleChan[p], m), Forwarded(p) \cup {m}, used[p])
      BY <1>1, <2>1, AppendedFresh
    <3>3. QED
      BY <2>1, <2>3, <3>1, <3>2, FreshNext
  <2>4. QED
    BY <2>1, <2>2, <2>3
<1>4. CASE ForwardFails(p)
  <2>1. UNCHANGED <<randMsgs[p], randChan[p], tripleChan[p], used[p]>>
    BY <1>4 DEF ForwardFails, Fails
  <2>2. Drained(p)' = Drained(p) /\ Forwarded(p) \subseteq Forwarded(p)'
    BY <1>2, <1>4, <2>1 DEF ForwardFails, Drained
  <2>3. Fresh(Drained(p)', tripleChan[p], Forwarded(p)', used[p])
    BY <1>1, <2>2 DEF Fresh
  <2>4. QED
    BY <2>1, <2>3, FreshNext
<1>5. CASE ~Forward(p) /\ ~ForwardFails(p)
  <2>1. UNCHANGED <<randMsgs, randChan, tripleChan, fwd, used>>
    BY <1>5 DEF PartyThread, Listen, PrepEnds, HandlerFails, Fails, mpcVars,
         GiveInstruction, OnNext, OnOpen, OnInput, OnCheck, TakeAction,
         EndElems, EndInputElem, Commit, EndComs, Reveal, EndOpens
  <2>2. QED
    BY <2>1, SameFresh
<1>6. QED
  BY <1>3, <1>4, <1>5

LEMMA InitFresh == MpcInit => AllFresh
<1> SUFFICES ASSUME MpcInit, NEW p \in Party PROVE FreshInv(p)
  BY DEF AllFresh
<1>1. /\ randMsgs[p] = <<>> /\ randChan[p] = <<>> /\ tripleChan[p] = <<>> /\ fwd[p] = 0
      /\ used[p] = [i \in DOMAIN Code |-> {}]
  BY DEF MpcInit
<1>2. <<>> \o <<>> = <<>>
  <2>1. <<>> \in Seq(Sharing)
    OBVIOUS
  <2>2. QED
    BY <2>1, ConcatEmptySeq
<1>3. Drained(p) = <<>>
  BY <1>1, <1>2 DEF Drained
<1>4. Elems(<<>>) = {} /\ Distinct(<<>>)
  BY EmptyIsSeq DEF Distinct
<1>5. Fresh(<<>>, <<>>, Forwarded(p), used[p])
  BY <1>1, <1>4 DEF Fresh
<1>6. QED
  BY <1>1, <1>3, <1>5, Zenon DEF FreshInv

LEMMA NextFresh == TypeOK /\ HandInv /\ MpcTypes /\ AllFresh /\ [MpcNext]_allVars => AllFresh'
<1> SUFFICES ASSUME TypeOK, HandInv, MpcTypes, AllFresh, [MpcNext]_allVars, NEW q \in Party
             PROVE  FreshInv(q)'
  BY DEF AllFresh
<1>1. CASE UNCHANGED Local(q)
  BY <1>1, SameFresh DEF AllFresh, Local
<1>2. CASE VMStep(q) \/ PartyThread(q) \/ PrepEnds(q)
  BY <1>2, VMFresh, PartyFresh DEF AllFresh, HandInv
<1>3. QED
  BY <1>1, <1>2, StepOf DEF HandInv

\* No mask and no triple is ever used for two instructions (FreshSharing),
\* whatever arrives when, however full the channels are, and whoever fails.
THEOREM SharingsAreFresh == MpcSpec => []FreshSharing
<1>1. MpcInit => MpcTypes /\ AllFresh
  BY InitTypes, InitFresh
<1>2. TypeOK /\ HandInv /\ MpcTypes /\ AllFresh /\ [MpcNext]_allVars => MpcTypes' /\ AllFresh'
  BY NextTypes, NextFresh
<1>3. AllFresh => FreshSharing
  BY DEF AllFresh, FreshInv, Fresh, FreshSharing
<1>4. QED
  BY <1>1, <1>2, <1>3, HandshakeHolds, MpcImplementsLockstep, TypeCorrect, PTL DEF MpcSpec
=============================================================================
