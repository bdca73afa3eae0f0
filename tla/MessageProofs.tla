--------------------------- MODULE MessageProofs ----------------------------
(***************************************************************************)
(* The messages between parties: of every instruction that sends any, each *)
(* ordered pair of parties has in its channel exactly the ones that one of *)
(* them has sent and the other has not received, so a party always receives *)
(* the message it is waiting for (party.rs, message.rs).                   *)
(***************************************************************************)
EXTENDS MpcProofs, FiniteSetTheorems

-----------------------------------------------------------------------------
(* How many opened values wait for a check.                                *)

\* What the VM has opened and not checked after the instructions up to k.
Pending(k) == {i \in 1 .. k :
  Code[i].op \in Opening /\ \A j \in i .. k : Code[j].op \notin Checking}
Cnt(k) == Cardinality(Pending(k))

LEMMA CntFacts ==
  /\ Cnt(0) = 0
  /\ \A k \in DOMAIN Code :
       /\ Cnt(k) \in Nat /\ Cnt(k - 1) \in Nat
       /\ Code[k].op = "Open" => Cnt(k) = Cnt(k - 1) + 1
       /\ Code[k].op \in Checking => Cnt(k) = 0
       /\ Code[k].op \notin Opening \cup Checking => Cnt(k) = Cnt(k - 1)
<1>1. Cnt(0) = 0
  <2>1. Pending(0) = {}
    BY DEF Pending
  <2>2. QED
    BY <2>1, FS_EmptySet DEF Cnt
<1>2. ASSUME NEW k \in Nat PROVE IsFiniteSet(Pending(k)) /\ Cnt(k) \in Nat
  <2>1. IsFiniteSet(1 .. k)
    BY FS_Interval
  <2>2. Pending(k) \subseteq 1 .. k
    BY DEF Pending
  <2>3. QED
    BY <2>1, <2>2, FS_Subset, FS_CardinalityType DEF Cnt
<1>3. ASSUME NEW k \in DOMAIN Code
      PROVE  /\ Cnt(k) \in Nat /\ Cnt(k - 1) \in Nat
             /\ Code[k].op = "Open" => Cnt(k) = Cnt(k - 1) + 1
             /\ Code[k].op \in Checking => Cnt(k) = 0
             /\ Code[k].op \notin Opening \cup Checking => Cnt(k) = Cnt(k - 1)
  <2>1. k \in Nat \ {0} /\ k - 1 \in Nat
    BY CodeFacts
  <2>2. /\ 1 .. k = (1 .. k - 1) \cup {k} /\ k \notin 1 .. k - 1
        /\ \A i \in 1 .. k - 1 : i .. k = (i .. k - 1) \cup {k}
        /\ k .. k = {k}
    BY <2>1
  <2>3. CASE Code[k].op = "Open"
    <3>1. Pending(k) = Pending(k - 1) \cup {k}
      BY <2>2, <2>3 DEF Pending, Opening, Checking
    <3>2. k \notin Pending(k - 1)
      BY <2>2 DEF Pending
    <3>3. QED
      BY <1>2, <2>1, <2>3, <3>1, <3>2, FS_AddElement DEF Cnt, Opening, Checking
  <2>4. CASE Code[k].op \in Checking
    <3>1. Pending(k) = {}
      BY <2>2, <2>4 DEF Pending
    <3>2. QED
      BY <1>2, <2>1, <2>4, <3>1, FS_EmptySet DEF Cnt, Opening, Checking
  <2>5. CASE Code[k].op \notin Opening \cup Checking
    <3>1. Pending(k) = Pending(k - 1)
      BY <2>2, <2>5 DEF Pending
    <3>2. QED
      BY <1>2, <2>1, <2>5, <3>1 DEF Cnt, Opening, Checking
  <2>6. QED
    BY <2>3, <2>4, <2>5 DEF Opening, Checking
<1>4. QED
  BY <1>1, <1>3

\* The messages a party has still to send, and to receive, when it starts
\* instruction k: of an opening one, of each check two for each opened value.
Start(k) ==
  CASE Code[k].op \in {"Open", "Input"} -> 1
    [] Code[k].op = "SOutput" -> 2 * (Cnt(k - 1) + 1) + 1
    [] Code[k].op = "Stop" -> 2 * Cnt(k - 1)
    [] OTHER -> 0

\* Those of them that belong to the check.
Checks(k) == IF Code[k].op = "Stop" THEN Start(k) ELSE Start(k) - 1

LEMMA StartFacts ==
  ASSUME NEW k \in DOMAIN Code
  PROVE  /\ Start(k) \in Nat /\ Cnt(k) \in Nat /\ Cnt(k - 1) \in Nat
         /\ Code[k].op = "Open" => Start(k) = 1 /\ Cnt(k) = Cnt(k - 1) + 1
         /\ Code[k].op = "Input" => Start(k) = 1
         /\ Code[k].op = "SOutput" => /\ Start(k) = 2 * (Cnt(k - 1) + 1) + 1
                                      /\ Checks(k) = 2 * (Cnt(k - 1) + 1)
         /\ Code[k].op = "Stop" => Start(k) = 2 * Cnt(k - 1) /\ Checks(k) = 2 * Cnt(k - 1)
         /\ Code[k].op \notin Opening \cup Checking \cup {"Input"} => Start(k) = 0
         /\ Code[k].op \in Checking => Cnt(k) = 0
         /\ Code[k].op \notin Opening \cup Checking => Cnt(k) = Cnt(k - 1)
<1>1. Cnt(k) \in Nat /\ Cnt(k - 1) \in Nat
  BY CntFacts
<1>2. QED
  BY <1>1, CntFacts DEF Start, Checks, Opening, Checking

\* The list of openings is as long as the program says.
CountInv(p) ==
  /\ Complete(p) => Len(openings[p]) = Cnt(pc[p])
  /\ (vpc[p] = "idle" /\ ~Complete(p)) \/ vpc[p] \in {"input", "open"} =>
       Len(openings[p]) = Cnt(pc[p] - 1)
  /\ actChan[p] # <<>> /\ Head(actChan[p]).act = "Check" =>
       2 * Len(Head(actChan[p]).list) = Checks(pc[p])

AllCount == \A p \in Party : CountInv(p)

LEMMA CountLocal ==
  ASSUME NEW q \in Party, CountInv(q), UNCHANGED Local(q) PROVE CountInv(q)'
  BY DEF CountInv, Complete, Cnt, Pending, Checks, Start, Local

LEMMA AskCount ==
  ASSUME NEW p \in Party, Domains, NEW action, NEW at, Ask(p, action, at),
         at \in {"idle", "input", "open", "check", "done"},
         hpc'[p] = "action", actChan[p] = <<>>, pc'[p] = pc[p],
         at \in {"idle", "done"} => Len(openings'[p]) = Cnt(pc[p]),
         at \in {"input", "open"} => Len(openings'[p]) = Cnt(pc[p] - 1),
         action.act = "Check" => 2 * Len(action.list) = Checks(pc[p])
  PROVE  CountInv(p)'
<1>1. CASE Gone(p)
  <2>1. vpc'[p] = "failed" /\ actChan'[p] = <<>>
    BY <1>1 DEF Ask, VMFails, Domains
  <2>2. QED
    BY <2>1 DEF CountInv, Complete
<1>2. CASE ~Gone(p)
  <2>1. vpc'[p] = at /\ actChan'[p] = <<action>> /\ actChan'[p] # <<>>
        /\ Head(actChan'[p]) = action
    BY <1>2, OneElement DEF Ask, Domains
  <2>2. Complete(p)' <=> at \in {"idle", "done"}
    BY <2>1 DEF Complete
  <2>3. /\ Complete(p)' => Len(openings'[p]) = Cnt(pc'[p])
        /\ (vpc'[p] = "idle" /\ ~Complete(p)') \/ vpc'[p] \in {"input", "open"} =>
             Len(openings'[p]) = Cnt(pc'[p] - 1)
        /\ actChan'[p] # <<>> /\ Head(actChan'[p]).act = "Check" =>
             2 * Len(Head(actChan'[p]).list) = Checks(pc'[p])
    BY <2>1, <2>2
  <2>4. QED
    BY <2>3 DEF CountInv, Cnt, Pending, Checks, Start
<1>3. QED
  BY <1>1, <1>2

LEMMA FailCount ==
  ASSUME NEW p \in Party, Domains, CountInv(p), vpc'[p] = "failed",
         UNCHANGED <<pc[p], actChan[p]>>
  PROVE  CountInv(p)'
  BY DEF CountInv, Complete, Checks, Start, Cnt, Pending

LEMMA VMCount ==
  ASSUME NEW p \in Party, Domains, Handshake(p), CountInv(p), VMStep(p)
  PROVE  CountInv(p)'
<1> USE DEF prepVars, handVars, histVars, vars, partyVars
<1>1. ASSUME NEW ops, Take(p, ops), UNCHANGED <<pc[p], hpc[p], openings[p]>>
      PROVE  /\ Len(openings'[p]) = Cnt(pc[p] - 1) /\ pc[p] \in DOMAIN Code /\ Op(p) \in ops
             /\ hpc'[p] = "action" /\ actChan[p] = <<>> /\ IsSeq(openings[p])
  <2>1. /\ vpc[p] = "idle" /\ hpc[p] = "action" /\ actChan[p] = <<>>
        /\ pc[p] \in DOMAIN Code /\ Op(p) \in ops
    BY <1>1, Taken
  <2>2. ~Complete(p)
    BY <2>1 DEF Complete
  <2>3. QED
    BY <1>1, <2>1, <2>2 DEF CountInv, Handshake, ListInv
<1>2. ASSUME NEW e, VMFails(p, e), UNCHANGED pc[p] PROVE CountInv(p)'
  BY <1>2, FailCount DEF VMFails, Domains
<1>3. CASE DoLocal(p) \/ DoTriple(p)
  <2>1. /\ Take(p, {"Local", "COutput"}) \/ Take(p, {"Triple"})
        /\ UNCHANGED <<pc[p], hpc[p], openings[p]>>
        /\ Done(p) \/ \E e : VMFails(p, e)
    BY <1>3 DEF DoLocal, DoTriple
  <2>2. CASE Done(p)
    <3>1. Len(openings'[p]) = Cnt(pc[p])
      BY <1>1, <2>1, StartFacts DEF Op, Opening, Checking
    <3>2. QED
      BY <1>1, <2>1, <2>2, <3>1, AskCount DEF Done
  <2>3. QED
    BY <1>2, <2>1, <2>2
<1>4. CASE DoInput(p) \/ DoOpen(p)
  <2>1. /\ Take(p, {"Input"}) \/ Take(p, {"Open", "SOutput"})
        /\ UNCHANGED <<pc[p], hpc[p], openings[p]>>
        /\ \/ \E e : VMFails(p, e)
           \/ Ask(p, [act |-> "Input", id |-> Head(instChan[p]).id], "input")
           \/ Ask(p, [act |-> "Open", share |-> Operand(p)], "open")
    BY <1>4 DEF DoInput, DoOpen
  <2>2. CASE \E e : VMFails(p, e)
    BY <1>2, <2>1, <2>2
  <2>3. CASE Ask(p, [act |-> "Input", id |-> Head(instChan[p]).id], "input")
    BY <1>1, <2>1, <2>3, AskCount
  <2>4. CASE Ask(p, [act |-> "Open", share |-> Operand(p)], "open")
    BY <1>1, <2>1, <2>4, AskCount
  <2>5. QED
    BY <2>1, <2>2, <2>3, <2>4
<1>5. CASE DoStop(p)
  <2>1. /\ Take(p, {"Stop"}) /\ UNCHANGED <<pc[p], hpc[p], openings[p]>>
        /\ \/ Ask(p, [act |-> "Check", list |-> openings[p]], "check")
           \/ Ask(p, [act |-> "Next"], "done") /\ openings[p] = <<>>
    BY <1>5 DEF DoStop, Unchecked
  <2>2. Len(openings[p]) = Cnt(pc[p] - 1) /\ Op(p) = "Stop" /\ pc[p] \in DOMAIN Code
        /\ hpc'[p] = "action" /\ actChan[p] = <<>>
    BY <1>1, <2>1
  <2>3. 2 * Len(openings[p]) = Checks(pc[p]) /\ Cnt(pc[p]) = 0
    BY <2>2, StartFacts DEF Op, Checking
  <2>4. CASE Ask(p, [act |-> "Check", list |-> openings[p]], "check")
    BY <2>1, <2>2, <2>3, <2>4, AskCount
  <2>5. CASE Ask(p, [act |-> "Next"], "done") /\ openings[p] = <<>>
    <3>1. Len(openings'[p]) = Cnt(pc[p])
      BY <2>1, <2>3, <2>5
    <3>2. QED
      BY <2>1, <2>2, <2>5, <3>1, AskCount
  <2>6. QED
    BY <2>1, <2>4, <2>5
<1>6. CASE EndInput(p)
  <2>1. /\ UNCHANGED <<pc[p], hpc[p], openings[p]>>
        /\ resp[p] # <<>> /\ vpc[p] = "input" /\ Op(p) = "Input" /\ Done(p)
    BY <1>6 DEF EndInput, Handshake, VMInv
  <2>2. hpc[p] = "action" /\ actChan[p] = <<>> /\ pc[p] \in DOMAIN Code
    BY <2>1, Answered
  <2>3. Len(openings'[p]) = Cnt(pc[p])
    BY <2>1, <2>2, StartFacts DEF CountInv, Op, Opening, Checking
  <2>4. QED
    BY <2>1, <2>2, <2>3, AskCount DEF Done
<1>7. CASE EndOpen(p)
  <2> DEFINE o == [at |-> pc[p], x |-> Head(resp[p]), share |-> Operand(p)]
             os == openings[p]
  <2>1. /\ UNCHANGED <<pc[p], hpc[p]>>
        /\ resp[p] # <<>> /\ vpc[p] = "open" /\ Op(p) \in Opening
        /\ openings'[p] = Append(os, o)
    BY <1>7 DEF EndOpen, Handshake, VMInv, Domains
  <2>2. hpc[p] = "action" /\ actChan[p] = <<>> /\ pc[p] \in DOMAIN Code /\ IsSeq(os)
    BY <2>1, Answered DEF Handshake, ListInv
  <2>3. Len(openings'[p]) = Cnt(pc[p] - 1) + 1
    <3> HIDE DEF o, os
    <3>1. Len(Append(os, o)) = Len(os) + 1
      BY <2>2, Appended
    <3>2. Len(os) = Cnt(pc[p] - 1)
      BY <2>1 DEF CountInv, os
    <3>3. QED
      BY <2>1, <3>1, <3>2
  <2>4. CASE Op(p) = "SOutput"
    <3>1. Ask(p, [act |-> "Check", list |-> openings'[p]], "check")
      BY <1>7, <2>4 DEF EndOpen, Op
    <3>2. 2 * Len(openings'[p]) = Checks(pc[p])
      BY <2>2, <2>3, <2>4, StartFacts DEF Op
    <3>3. QED
      BY <2>1, <2>2, <3>1, <3>2, AskCount
  <2>5. CASE Op(p) # "SOutput"
    <3>1. Done(p)
      BY <1>7, <2>5 DEF EndOpen, Op
    <3>2. Len(openings'[p]) = Cnt(pc[p])
      BY <2>1, <2>2, <2>3, <2>5, StartFacts DEF Op, Opening
    <3>3. QED
      BY <2>1, <2>2, <3>1, <3>2, AskCount DEF Done
  <2>6. QED
    BY <2>4, <2>5
<1>8. CASE EndCheck(p)
  <2>1. /\ UNCHANGED <<pc[p], hpc[p]>>
        /\ vpc[p] = "check" /\ resp[p] # <<>> /\ Op(p) \in Checking
    BY <1>8 DEF EndCheck, Handshake, VMInv
  <2>2. hpc[p] = "action" /\ actChan[p] = <<>> /\ pc[p] \in DOMAIN Code
    BY <2>1, Answered
  <2>3. CASE Head(resp[p]) = "Ok"
    <3>1. openings'[p] = <<>> /\ (Done(p) \/ Ask(p, [act |-> "Next"], "done"))
      BY <1>8, <2>3 DEF EndCheck, Domains
    <3>2. Len(openings'[p]) = Cnt(pc[p])
      BY <2>1, <2>2, <3>1, StartFacts DEF Op
    <3>3. QED
      BY <2>1, <2>2, <3>1, <3>2, AskCount DEF Done
  <2>4. CASE Head(resp[p]) # "Ok"
    BY <1>2, <1>8, <2>4 DEF EndCheck
  <2>5. QED
    BY <2>3, <2>4
<1>9. CASE VMTimeout(p)
  BY <1>2, <1>9 DEF VMTimeout
<1>10. QED
  BY <1>3, <1>4, <1>5, <1>6, <1>7, <1>8, <1>9 DEF VMStep

LEMMA PartyCount ==
  ASSUME TypeOK, HandInv, NEW p \in Party, CountInv(p), PartyThread(p) \/ PrepEnds(p)
  PROVE  CountInv(p)'
<1> USE DEF prepVars, handVars, histVars, vars, partyVars, vmVars, linkVars
<1>1. UNCHANGED <<openings[p], vpc[p]>> /\ Handshake(p) /\ Domains
  BY DEF PartyThread, Listen, Forward, ForwardFails, PrepEnds, HandlerFails, Fails, mpcVars,
         GiveInstruction, OnNext, OnOpen, OnInput, OnCheck, TakeAction, HandInv,
         EndElems, EndInputElem, Commit, EndComs, Reveal, EndOpens
<1>2. ASSUME UNCHANGED pc[p], vpc[p] = "idle" => (Complete(p)' <=> Complete(p)),
             actChan'[p] \in {actChan[p], <<>>}
      PROVE  CountInv(p)'
  <2>1. Complete(p)' <=> Complete(p)
    BY <1>1, <1>2 DEF Complete
  <2>2. /\ Cnt(pc[p])' = Cnt(pc[p]) /\ Cnt(pc[p] - 1)' = Cnt(pc[p] - 1)
        /\ Checks(pc[p])' = Checks(pc[p])
    BY <1>2 DEF Cnt, Pending, Checks, Start
  <2>3. QED
    BY <1>1, <1>2, <2>1, <2>2 DEF CountInv
<1>3. CASE Fetch(p) /\ Fetches(p) /\ Listen(p)
  <2>1. /\ ppc[p] = "running" /\ pc'[p] = pc[p] + 1 /\ pc[p] \in Nat
    BY <1>3 DEF Fetch, Fetches, TypeOK
  <2>2. hpc'[p] = "give" /\ actChan'[p] = actChan[p]
    BY <1>1, <1>3, <2>1 DEF Listen, AwaitStart, SyncLost, Join, Domains
  <2>3. hpc[p] = "idle" /\ vpc[p] \in {"idle", "failed"} /\ actChan[p] = <<>>
    BY <1>1, <2>1 DEF Handshake, PhaseInv, VMInv, LinkInv
  <2>4. vpc[p] = "idle" => Len(openings[p]) = Cnt(pc[p])
    BY <2>3 DEF CountInv, Complete
  <2>5. ~Complete(p)'
    BY <1>1, <2>2, <2>3 DEF Complete
  <2>6. Cnt(pc[p] - 1)' = Cnt(pc[p])
    <3>1. pc'[p] - 1 = pc[p]
      BY <2>1
    <3>2. QED
      BY <3>1 DEF Cnt, Pending
  <2>7. QED
    BY <1>1, <2>2, <2>3, <2>4, <2>5, <2>6 DEF CountInv
<1>4. CASE (Listen(p) /\ ~(Fetch(p) /\ Fetches(p))) \/ Forward(p) \/ ForwardFails(p)
           \/ PrepEnds(p) \/ HandlerFails(p)
  <2>1. UNCHANGED <<pc[p], hpc[p], actChan[p]>>
    BY <1>4 DEF Listen, AwaitStart, Fetch, SyncLost, Join, Fails, mpcVars, TypeOK,
       Forward, ForwardFails, PrepEnds, HandlerFails, PrepFails, BusyFails
  <2>2. QED
    BY <1>1, <1>2, <2>1 DEF Complete
<1>5. CASE GiveInstruction(p)
  <2>1. UNCHANGED <<pc[p], actChan[p]>> /\ hpc[p] = "give" /\ hpc'[p] = "action"
    BY <1>1, <1>5 DEF GiveInstruction, At, Go, Domains
  <2>2. QED
    BY <1>1, <1>2, <2>1 DEF Complete
<1>6. ASSUME NEW act, TakeAction(p, act)
      PROVE  /\ actChan[p] # <<>> /\ actChan'[p] = <<>> /\ hpc[p] = "action"
             /\ ActionFits(p, Head(actChan[p])) /\ Head(actChan[p]).act = act
  <2>1. actChan[p] # <<>> /\ hpc[p] = "action" /\ Head(actChan[p]).act = act
        /\ actChan'[p] = Tail(actChan[p])
    BY <1>1, <1>6 DEF TakeAction, At, Domains
  <2>2. actChan[p] = <<Head(actChan[p])>> /\ ActionFits(p, Head(actChan[p]))
    BY <1>1, <2>1 DEF Handshake, LinkInv
  <2>3. Tail(actChan[p]) = <<>>
    BY <2>2, OneElement
  <2>4. QED
    BY <2>1, <2>2, <2>3
<1>7. CASE OnNext(p)
  <2>1. pc'[p] = pc[p] /\ hpc'[p] = "idle" /\ TakeAction(p, "Next")
    BY <1>1, <1>7 DEF OnNext, Reply, Go, Domains
  <2>2. QED
    BY <1>1, <1>2, <1>6, <2>1 DEF Complete
<1>8. CASE OnOpen(p) \/ OnInput(p) \/ OnCheck(p)
  <2>1. pc'[p] = pc[p] /\ \E act \in {"Open", "Input", "Check"} : TakeAction(p, act)
    BY <1>8 DEF OnOpen, OnInput, OnCheck
  <2>2. vpc[p] # "idle"
    BY <1>6, <2>1 DEF ActionFits
  <2>3. QED
    BY <1>1, <1>2, <1>6, <2>1, <2>2
<1>9. CASE \/ EndElems(p) \/ EndInputElem(p)
           \/ Commit(p) \/ EndComs(p) \/ Reveal(p) \/ EndOpens(p)
  <2>1. /\ hpc[p] \in {"elems", "input"} \cup CheckPhases
        /\ UNCHANGED <<pc[p], actChan[p]>>
    BY <1>9 DEF EndElems, EndInputElem, Commit, EndComs, Reveal, EndOpens, At, CheckPhases
  <2>2. vpc[p] # "idle"
    BY <1>1, <2>1 DEF Handshake, PhaseInv
  <2>3. QED
    BY <1>1, <1>2, <2>1, <2>2
<1>10. QED
  BY <1>3, <1>4, <1>5, <1>7, <1>8, <1>9 DEF PartyThread

LEMMA InitCount == MpcInit => AllCount
<1> SUFFICES ASSUME MpcInit, NEW p \in Party PROVE CountInv(p)
  BY DEF AllCount
<1>1. /\ openings[p] = <<>> /\ pc[p] = 0 /\ actChan[p] = <<>>
      /\ vpc[p] = "idle" /\ hpc[p] = "idle"
  BY DEF MpcInit, Init
<1>2. Len(openings[p]) = Cnt(0)
  BY <1>1, CntFacts
<1>3. QED
  BY <1>1, <1>2 DEF CountInv, Complete

LEMMA NextCount == TypeOK /\ HandInv /\ AllCount /\ [MpcNext]_allVars => AllCount'
<1> SUFFICES ASSUME TypeOK, HandInv, AllCount, [MpcNext]_allVars, NEW q \in Party
             PROVE  CountInv(q)'
  BY DEF AllCount
<1>1. CASE UNCHANGED Local(q)
  BY <1>1, CountLocal DEF AllCount
<1>2. CASE VMStep(q) \/ PartyThread(q) \/ PrepEnds(q)
  BY <1>2, VMCount, PartyCount DEF AllCount, HandInv
<1>3. QED
  BY <1>1, <1>2, StepOf DEF HandInv

-----------------------------------------------------------------------------
(* Where a party is in the exchanges of its instruction: it has u messages *)
(* still to send to every other party, and r to receive from each.         *)

Due(p, a) ==
  CASE a.act = "Next" -> 0
    [] a.act = "Check" -> Checks(pc[p])
    [] OTHER -> Start(pc[p])

Position(p, u, r) ==
  /\ 0 <= u /\ (hpc[p] # "idle" => r <= Start(pc[p]))
  /\ hpc[p] = "idle" => u = 0 /\ r = 0
  /\ hpc[p] \in {"give", "action", "commit", "reveal"} => u = r
  /\ hpc[p] \in {"elems", "input", "coms", "opens"} => r = u + 1
  /\ hpc[p] = "give" \/ instChan[p] # <<>> => u = Start(pc[p])
  /\ actChan[p] # <<>> => u = Due(p, Head(actChan[p]))
  /\ resp[p] # <<>> =>
       /\ vpc[p] = "input" => u = 0
       /\ vpc[p] = "open" => u = Start(pc[p]) - 1
       /\ vpc[p] = "check" /\ Head(resp[p]) = "Ok" => u = 0
  /\ hpc[p] \in {"elems", "input"} => r = Start(pc[p])
  /\ hpc[p] \in {"commit", "coms"} => r = 2 * Len(todo[p])
  /\ hpc[p] \in {"reveal", "opens"} => r = 2 * Len(todo[p]) - 1
  /\ hpc[p] \in CheckPhases => 2 * Len(todo[p]) <= Checks(pc[p])

LEMMA PositionLocal ==
  ASSUME NEW q \in Party, NEW u, NEW r, Position(q, u, r), UNCHANGED Local(q)
  PROVE  Position(q, u, r)'
  BY DEF Position, Due, Checks, Start, Cnt, Pending, Local

LEMMA AskPosition ==
  ASSUME NEW p \in Party, Domains, NEW action, NEW at, Ask(p, action, at),
         NEW u, NEW r, u = r, hpc[p] = "action",
         UNCHANGED <<pc[p], hpc[p]>>,
         instChan'[p] = <<>>, actChan[p] = <<>>, resp'[p] = <<>>,
         u = Due(p, action), 0 <= u, r <= Start(pc[p])
  PROVE  Position(p, u, r)'
<1>1. actChan'[p] = <<>> \/ actChan'[p] = <<action>>
  BY OneElement DEF Ask, VMFails, Domains
<1>2. actChan'[p] # <<>> => Head(actChan'[p]) = action
  BY <1>1, OneElement
<1>3. Due(p, action)' = Due(p, action)
  BY DEF Due, Checks, Start, Cnt, Pending
<1>4. actChan'[p] # <<>> => u = Due(p, Head(actChan[p]))'
  BY <1>2, <1>3 DEF Due, Checks, Start, Cnt, Pending
<1>5. r <= Start(pc[p])'
  BY DEF Start, Cnt, Pending
<1>6. QED
  BY <1>4, <1>5 DEF Position, CheckPhases

LEMMA FailPosition ==
  ASSUME NEW p \in Party, Domains, NEW e, VMFails(p, e),
         NEW u, NEW r, Position(p, u, r), 
         UNCHANGED <<pc[p], hpc[p], todo[p]>>, instChan'[p] = <<>>, resp'[p] = <<>>
  PROVE  Position(p, u, r)'
<1>1. actChan'[p] = actChan[p]
  BY DEF VMFails
<1>2. QED
  BY <1>1 DEF Position, Due, Checks, Start, Cnt, Pending

\* No step of a virtual machine moves its party in the exchanges.
LEMMA VMPosition ==
  ASSUME NEW p \in Party, Domains, Handshake(p), CountInv(p), VMStep(p),
         NEW u, NEW r, Position(p, u, r)
  PROVE  Position(p, u, r)'
<1> USE DEF prepVars, handVars, histVars, vars, partyVars
<1>1. ASSUME NEW ops, Take(p, ops)
      PROVE  /\ pc[p] \in DOMAIN Code /\ Op(p) \in ops /\ instChan'[p] = <<>>
             /\ hpc[p] = "action" /\ actChan[p] = <<>> /\ resp[p] = <<>>
             /\ u = Start(pc[p]) /\ u = r /\ 0 <= u /\ r <= Start(pc[p])
             /\ vpc[p] = "idle" /\ Len(openings[p]) = Cnt(pc[p] - 1)
  <2>1. /\ vpc[p] = "idle" /\ hpc[p] = "action" /\ actChan[p] = <<>> /\ instChan'[p] = <<>>
        /\ pc[p] \in DOMAIN Code /\ Op(p) \in ops /\ resp[p] = <<>>
    BY <1>1, Taken
  <2>2. ~Complete(p) /\ instChan[p] # <<>>
    BY <1>1, <2>1 DEF Complete, Take
  <2>3. QED
    BY <1>1, <2>1, <2>2 DEF CountInv, Position
<1>2. CASE DoLocal(p) \/ DoTriple(p)
  <2>1. /\ Take(p, {"Local", "COutput"}) \/ Take(p, {"Triple"})
        /\ UNCHANGED <<pc[p], hpc[p], todo[p], resp[p]>>
        /\ Done(p) \/ \E e : VMFails(p, e)
    BY <1>2 DEF DoLocal, DoTriple
  <2>2. u = 0
    <3>1. pc[p] \in DOMAIN Code /\ u = Start(pc[p])
      BY <1>1, <2>1
    <3>2. Op(p) \in {"Local", "COutput", "Triple"}
      BY <1>1, <2>1
    <3>3. QED
      BY <3>1, <3>2, StartFacts DEF Op, Opening, Checking
  <2>3. QED
    BY <1>1, <2>1, <2>2, AskPosition, FailPosition DEF Done, Due
<1>3. CASE DoInput(p) \/ DoOpen(p)
  <2>1. /\ Take(p, {"Input"}) \/ Take(p, {"Open", "SOutput"})
        /\ UNCHANGED <<pc[p], hpc[p], todo[p], resp[p]>>
        /\ \/ \E e : VMFails(p, e)
           \/ Ask(p, [act |-> "Input", id |-> Head(instChan[p]).id], "input")
           \/ Ask(p, [act |-> "Open", share |-> Operand(p)], "open")
    BY <1>3 DEF DoInput, DoOpen
  <2>2. CASE \E e : VMFails(p, e)
    BY <1>1, <2>1, <2>2, FailPosition
  <2>3. CASE Ask(p, [act |-> "Input", id |-> Head(instChan[p]).id], "input")
    <3>1. Due(p, [act |-> "Input", id |-> Head(instChan[p]).id]) = u
      BY <1>1, <2>1 DEF Due
    <3>2. QED
      BY <1>1, <2>1, <2>3, <3>1, AskPosition
  <2>4. CASE Ask(p, [act |-> "Open", share |-> Operand(p)], "open")
    <3>1. Due(p, [act |-> "Open", share |-> Operand(p)]) = u
      BY <1>1, <2>1 DEF Due
    <3>2. QED
      BY <1>1, <2>1, <2>4, <3>1, AskPosition
  <2>5. QED
    BY <2>1, <2>2, <2>3, <2>4
<1>4. CASE DoStop(p)
  <2>1. /\ Take(p, {"Stop"}) /\ UNCHANGED <<pc[p], hpc[p], todo[p], resp[p]>>
        /\ \/ Ask(p, [act |-> "Check", list |-> openings[p]], "check")
           \/ Ask(p, [act |-> "Next"], "done") /\ openings[p] = <<>>
    BY <1>4 DEF DoStop, Unchecked
  <2>2. /\ Checks(pc[p]) = u
        /\ openings[p] = <<>> => u = 0
    <3>1. Checks(pc[p]) = u /\ u = 2 * Len(openings[p])
      BY <1>1, <2>1, StartFacts DEF Op
    <3>2. QED
      BY <3>1
  <2>3. /\ Due(p, [act |-> "Check", list |-> openings[p]]) = u
        /\ openings[p] = <<>> => Due(p, [act |-> "Next"]) = u
    BY <2>2 DEF Due
  <2>4. QED
    BY <1>1, <2>1, <2>3, AskPosition
<1>5. ASSUME resp[p] # <<>>
      PROVE  /\ hpc[p] = "action" /\ actChan[p] = <<>> /\ instChan[p] = <<>>
             /\ pc[p] \in DOMAIN Code /\ u = r /\ 0 <= u /\ r <= Start(pc[p])
             /\ vpc[p] = "input" => u = 0
             /\ vpc[p] = "open" => u = Start(pc[p]) - 1
             /\ vpc[p] = "check" /\ Head(resp[p]) = "Ok" => u = 0
  BY <1>5, Answered DEF Position
<1>6. CASE EndInput(p)
  <2>1. /\ UNCHANGED <<pc[p], hpc[p], instChan[p]>> /\ resp[p] # <<>> /\ resp'[p] = <<>>
        /\ vpc[p] = "input" /\ Done(p)
    BY <1>6 DEF EndInput, Domains
  <2>2. QED
    BY <1>5, <2>1, AskPosition DEF Done, Due
<1>7. CASE EndOpen(p)
  <2>1. /\ UNCHANGED <<pc[p], hpc[p], instChan[p]>> /\ resp[p] # <<>> /\ resp'[p] = <<>>
        /\ vpc[p] = "open" /\ Op(p) \in Opening
    BY <1>7 DEF EndOpen, Handshake, VMInv, Domains
  <2>2. CASE Op(p) = "SOutput"
    <3>1. Ask(p, [act |-> "Check", list |-> openings'[p]], "check")
      BY <1>7, <2>2 DEF EndOpen, Op
    <3>2. u = Checks(pc[p])
      BY <1>5, <2>1, <2>2 DEF Checks, Op
    <3>3. Due(p, [act |-> "Check", list |-> openings'[p]]) = u
      BY <3>2 DEF Due
    <3>4. QED
      BY <1>5, <2>1, <3>1, <3>3, AskPosition
  <2>3. CASE Op(p) # "SOutput"
    <3>1. Done(p)
      BY <1>7, <2>3 DEF EndOpen, Op
    <3>2. u = 0
      BY <1>5, <2>1, <2>3, StartFacts DEF Op, Opening
    <3>3. QED
      BY <1>5, <2>1, <3>1, <3>2, AskPosition DEF Done, Due
  <2>4. QED
    BY <2>2, <2>3
<1>8. CASE EndCheck(p)
  <2>1. /\ UNCHANGED <<pc[p], hpc[p], todo[p], instChan[p]>> /\ resp[p] # <<>> /\ resp'[p] = <<>>
        /\ vpc[p] = "check"
    BY <1>8 DEF EndCheck, Domains
  <2>2. CASE Head(resp[p]) = "Ok"
    <3>1. Done(p) \/ Ask(p, [act |-> "Next"], "done")
      BY <1>8, <2>2 DEF EndCheck
    <3>2. QED
      BY <1>5, <2>1, <2>2, <3>1, AskPosition DEF Done, Due
  <2>3. CASE Head(resp[p]) # "Ok"
    BY <1>5, <1>8, <2>1, <2>3, FailPosition DEF EndCheck
  <2>4. QED
    BY <2>2, <2>3
<1>9. CASE VMTimeout(p)
  <2>1. /\ VMFails(p, "RecvTimeoutError")
        /\ UNCHANGED <<pc[p], hpc[p], todo[p], instChan[p], resp[p]>>
    BY <1>9 DEF VMTimeout
  <2>2. instChan[p] = <<>> /\ resp[p] = <<>>
    BY <1>9 DEF VMTimeout, Handshake, LinkInv
  <2>3. QED
    BY <2>1, <2>2, FailPosition
<1>10. QED
  BY <1>2, <1>3, <1>4, <1>6, <1>7, <1>8, <1>9 DEF VMStep

-----------------------------------------------------------------------------
(* What is in a channel between parties: of an instruction's messages, the *)
(* ones that have been sent and not received.                              *)

\* m is the message of instruction k that is sent when x are left to send.
Fits(m, k, x) ==
  \/ /\ Code[k].op # "Stop" /\ x = Start(k)
     /\ m.kind = "Elem" /\ m.at = <<k, 0>>
  \/ \E l \in Nat :
       /\ Code[k].op \in Checking /\ x <= Checks(k) /\ m.at = <<k, l>>
       /\ \/ m.kind = "Com" /\ x = 2 * l
          \/ m.kind = "Opening" /\ x = 2 * l - 1

\* Channel c holds the messages of instruction k of which e are left to
\* receive and d to send.
Carries(c, k, e, d) ==
  /\ IsSeq(c) /\ Len(c) = e - d
  /\ \A j \in DOMAIN c : Fits(c[j], k, e - j + 1)

Sends(q, k) == k \in DOMAIN Code /\ (Code[k].op = "Input" => Owns(q, Code[k].id))

Latest(p, q) == IF pc[p] < pc[q] THEN pc[q] ELSE pc[p]

\* A party that has not come to instruction k has all its messages left.
Left(p, x, k) == IF pc[p] < k THEN Start(k) ELSE x

Holds(p, q, k, u, r) ==
  IF q \in Peers(p) /\ Sends(q, k)
  THEN Carries(peer[p][q], k, Left(p, r, k), Left(q, u, k))
  ELSE peer[p][q] = <<>>

\* Channel from q, which has u messages to send, to p, which has r to receive.
Channel(p, q, u, r) == Holds(p, q, Latest(p, q), u, r)

Exchange(u, r) ==
  /\ \A p \in Party : Position(p, u[p], r[p])
  /\ \A p, q \in Party : Channel(p, q, u[q], r[p])

PeerDomains == DOMAIN peer = Party /\ \A p \in Party : DOMAIN peer[p] = Party

\* A party in the middle of an instruction has not replied to it.
Behind == \A p \in Party : hpc[p] # "idle" => replied[p] < pc[p]

ExchangeInv ==
  /\ PeerDomains
  /\ Behind
  /\ \E u, r \in [Party -> Int] : Exchange(u, r)

LEMMA CarriesNone ==
  ASSUME NEW k, NEW e \in Int
  PROVE  /\ Carries(<<>>, k, e, e)
         /\ \A c : Carries(c, k, e, e) => c = <<>>
<1>1. Carries(<<>>, k, e, e)
  <2>1. IsSeq(<<>>) /\ DOMAIN <<>> = {} /\ Len(<<>>) = e - e
    BY EmptyIsSeq
  <2>2. QED
    BY <2>1 DEF Carries
<1>2. ASSUME NEW c, Carries(c, k, e, e) PROVE c = <<>>
  <2>1. IsSeq(c) /\ Len(c) = 0
    BY <1>2 DEF Carries
  <2>2. QED
    BY <2>1, EmptySeq DEF IsSeq
<1>3. QED
  BY <1>1, <1>2

LEMMA CarriesMore ==
  ASSUME NEW c, NEW k, NEW e \in Int, NEW d \in Int, Carries(c, k, e, d),
         NEW m, Fits(m, k, d)
  PROVE  Carries(Append(c, m), k, e, d - 1)
<1> DEFINE n == Append(c, m)
<1>1. /\ IsSeq(n) /\ DOMAIN c = 1 .. Len(c) /\ Len(n) = Len(c) + 1
      /\ DOMAIN n = 1 .. Len(c) + 1 /\ \A i \in DOMAIN c : n[i] = c[i]
      /\ n[Len(c) + 1] = m /\ Len(c) \in Nat
  BY Appended DEF Carries
<1> HIDE DEF n
<1>2. Len(c) = e - d /\ \A j \in DOMAIN c : Fits(c[j], k, e - j + 1)
  BY DEF Carries
<1>3. ASSUME NEW j \in DOMAIN n PROVE Fits(n[j], k, e - j + 1)
  <2>1. CASE j \in DOMAIN c
    BY <1>1, <1>2, <2>1
  <2>2. CASE j = Len(c) + 1
    <3>1. e - j + 1 = d /\ n[j] = m
      BY <1>1, <1>2, <2>2
    <3>2. QED
      BY <3>1, Zenon
  <2>3. QED
    BY <1>1, <2>1, <2>2
<1>4. Len(n) = e - (d - 1)
  BY <1>1, <1>2
<1>5. QED
  BY <1>1, <1>3, <1>4 DEF Carries, n

LEMMA CarriesLess ==
  ASSUME NEW c, NEW k, NEW e \in Int, NEW d \in Int, Carries(c, k, e, d), c # <<>>
  PROVE  Carries(Tail(c), k, e - 1, d) /\ Fits(Head(c), k, e) /\ e > d
<1> DEFINE n == Tail(c)
           h == Head(c)
<1>1. /\ IsSeq(n) /\ Len(c) \in Nat \ {0} /\ Len(n) = Len(c) - 1
      /\ DOMAIN c = 1 .. Len(c) /\ DOMAIN n = 1 .. Len(c) - 1
      /\ \A i \in 1 .. Len(c) - 1 : n[i] = c[i + 1]
      /\ h = c[1]
  BY Shortened DEF Carries
<1> HIDE DEF n, h
<1>2. Len(c) = e - d /\ \A j \in DOMAIN c : Fits(c[j], k, e - j + 1)
  BY DEF Carries
<1>3. ASSUME NEW j \in DOMAIN n PROVE Fits(n[j], k, e - 1 - j + 1)
  <2>1. j + 1 \in DOMAIN c /\ n[j] = c[j + 1] /\ e - (j + 1) + 1 = e - 1 - j + 1
    BY <1>1
  <2>2. Fits(c[j + 1], k, e - (j + 1) + 1)
    BY <1>2, <2>1
  <2>3. QED
    BY <2>1, <2>2, Zenon
<1>4. Fits(h, k, e)
  <2>1. 1 \in DOMAIN c /\ e - 1 + 1 = e
    BY <1>1
  <2>2. Fits(c[1], k, e - 1 + 1)
    BY <1>2, <2>1
  <2>3. QED
    BY <1>1, <2>1, <2>2, Zenon
<1>5. Len(n) = e - 1 - d /\ e > d
  BY <1>1, <1>2
<1>6. QED
  BY <1>1, <1>3, <1>4, <1>5 DEF Carries, n, h

\* A party at work is ahead of, or level with, every other.
LEMMA BusyLeads ==
  ASSUME IInv, NEW p \in Party, ppc[p] = "busy", NEW q \in Party
  PROVE  pc[q] <= pc[p] /\ pc[p] \in Nat /\ pc[q] \in Nat
         /\ Latest(p, q) = pc[p] /\ Latest(q, p) = pc[p]
<1>1. pc[p] \in Nat /\ pc[q] \in Nat /\ replied[p] \in Nat
  BY DEF IInv, TypeOK
<1>2. pc[q] <= replied[p] + 1
  BY Counts DEF LockstepInv
<1>3. replied[p] < pc[p]
  BY DEF IInv, PartyInv
<1>4. QED
  BY <1>1, <1>2, <1>3 DEF Latest

LEMMA BehindNext ==
  ASSUME TypeOK, IInv, HandInv, Behind, [MpcNext]_allVars
  PROVE  Behind'
<1> SUFFICES ASSUME NEW q \in Party, hpc'[q] # "idle" PROVE replied'[q] < pc'[q]
  BY DEF Behind
<1>1. hpc[q] # "idle" => replied[q] < pc[q]
  BY DEF Behind
<1>2. ASSUME NEW p \in Party, PartyThread(p) \/ VMStep(p) \/ PrepEnds(p)
      PROVE  replied'[q] < pc'[q]
  <2> USE DEF prepVars, handVars, histVars, vars, partyVars, vmVars, linkVars
  <2>1. Domains /\ pc[p] \in Nat /\ replied[p] \in Nat
    BY DEF HandInv, TypeOK
  <2>2. CASE OnNext(p)
    <3>1. hpc' = [hpc EXCEPT ![p] = "idle"] /\ pc' = pc
          /\ replied' = [replied EXCEPT ![p] = @ + 1]
      BY <2>2 DEF OnNext, Reply, Go
    <3>2. QED
      BY <1>1, <2>1, <3>1 DEF TypeOK, Domains
  <2>3. CASE Fetch(p) /\ Listen(p)
    <3>1. replied' = replied /\ ppc[p] = "running"
      BY <2>3 DEF Fetch
    <3>2. replied[p] = pc[p] /\ hpc[p] = "idle"
      BY <3>1 DEF IInv, PartyInv, HandInv, Handshake, PhaseInv
    <3>3. CASE Fetches(p)
      <4>1. pc' = [pc EXCEPT ![p] = @ + 1] /\ hpc' = [hpc EXCEPT ![p] = "give"]
        BY <2>3, <3>1, <3>3 DEF Fetch, Listen, AwaitStart, SyncLost, Join, TypeOK
      <4>2. QED
        BY <1>1, <2>1, <3>1, <3>2, <4>1 DEF TypeOK, Domains
    <3>4. CASE ~Fetches(p)
      <4>1. pc' = pc /\ hpc' = hpc
        BY <2>3, <3>1, <3>4 DEF Fetch, Listen, AwaitStart, SyncLost, Join, TypeOK, Fails, mpcVars
      <4>2. QED
        BY <1>1, <3>1, <4>1
    <3>5. QED
      BY <3>3, <3>4
  <2>4. CASE VMStep(p)
    <3>1. UNCHANGED <<replied, pc, hpc>>
      BY <2>4 DEF VMStep, DoLocal, DoTriple, DoInput, DoOpen, DoStop, EndInput, EndOpen,
                  EndCheck, VMTimeout
    <3>2. QED
      BY <1>1, <3>1
  <2>5. CASE (PartyThread(p) \/ PrepEnds(p)) /\ ~OnNext(p) /\ ~(Fetch(p) /\ Listen(p))
    <3>1. UNCHANGED <<replied, pc>>
      BY <2>5 DEF PartyThread, Listen, AwaitStart, SyncLost, Join, Forward, ForwardFails, PrepEnds,
         HandlerFails, PrepFails, BusyFails, GiveInstruction, OnOpen, OnInput, OnCheck,
         EndElems, EndInputElem, Commit, EndComs, Reveal, EndOpens
    <3>2. hpc'[q] # "idle" => hpc[q] # "idle"
      BY <2>1, <2>5 DEF PartyThread, Listen, Fails, mpcVars, Forward, ForwardFails, PrepEnds,
         HandlerFails, GiveInstruction, OnOpen, OnInput, OnCheck, TakeAction, At,
         EndElems, EndInputElem, Commit, EndComs, Reveal, EndOpens, Go, Answer, Domains
    <3>3. QED
      BY <1>1, <3>1, <3>2
  <2>6. QED
    BY <1>2, <2>2, <2>3, <2>4, <2>5
<1>3. CASE SyncThread \/ UNCHANGED allVars
  <2>1. UNCHANGED <<replied, pc, hpc>>
    BY <1>3 DEF SyncThread, Sync, Send, SendFails, BroadcastEnds, Collect, CollectFails, Decide,
       partyVars, mpcVars, handVars, allVars, vars
  <2>2. QED
    BY <1>1, <2>1
<1>4. QED
  BY <1>2, <1>3 DEF MpcNext

LEMMA ChannelNext ==
  ASSUME NEW p \in Party, NEW q \in Party, NEW u, NEW r,
         NEW c, NEW k, NEW e, NEW d,
         peer'[p][q] = c, Latest(p, q)' = k, Left(p, r, k)' = e, Left(q, u, k)' = d,
         q \in Peers(p) /\ Sends(q, k) => Carries(c, k, e, d),
         ~(q \in Peers(p) /\ Sends(q, k)) => c = <<>>
  PROVE  Channel(p, q, u, r)'
<1>1. /\ Left(p, r, Latest(p, q))' = e
      /\ Left(q, u, Latest(p, q))' = d
  BY DEF Left
<1>2. /\ q \in Peers(p) /\ Sends(q, Latest(p, q)') =>
           Carries(peer'[p][q], Latest(p, q)', Left(p, r, Latest(p, q))', Left(q, u, Latest(p, q))')
      /\ ~(q \in Peers(p) /\ Sends(q, Latest(p, q)')) => peer'[p][q] = <<>>
  BY <1>1
<1>3. QED
  BY <1>2 DEF Channel, Holds

LEMMA ChannelNow ==
  ASSUME NEW p \in Party, NEW q \in Party, NEW u, NEW r, Channel(p, q, u, r), NEW k,
         Latest(p, q) = k
  PROVE  /\ q \in Peers(p) /\ Sends(q, k) => Carries(peer[p][q], k, Left(p, r, k), Left(q, u, k))
         /\ ~(q \in Peers(p) /\ Sends(q, k)) => peer[p][q] = <<>>
  BY DEF Channel, Holds

LEMMA ChannelSame ==
  ASSUME NEW p \in Party, NEW q \in Party, NEW u, NEW r, Channel(p, q, u, r),
         UNCHANGED <<pc[p], pc[q], peer[p][q]>>
  PROVE  Channel(p, q, u, r)'
<1>1. Latest(p, q)' = Latest(p, q) /\ \A k : Left(p, r, k)' = Left(p, r, k) /\ Left(q, u, k)' = Left(q, u, k)
  BY DEF Latest, Left
<1>2. QED
  BY <1>1, ChannelNow, ChannelNext

\* A step of p that changes no counter and no channel between parties.
LEMMA StillExchange ==
  ASSUME NEW p \in Party, NEW u, NEW r, Exchange(u, r), UNCHANGED <<pc, peer>>,
         \A q \in Party \ {p} : UNCHANGED Local(q),
         Position(p, u[p], r[p])'
  PROVE  Exchange(u, r)'
<1>1. \A q \in Party : Position(q, u[q], r[q])'
  BY PositionLocal DEF Exchange
<1>2. \A a, b \in Party : Channel(a, b, u[b], r[a])'
  BY ChannelSame DEF Exchange
<1>3. QED
  BY <1>1, <1>2 DEF Exchange

\* A broadcast of p, of the message that is due, to all who have a channel.
LEMMA SentExchange ==
  ASSUME IInv, NEW p \in Party, ppc[p] = "busy", PeerDomains,
         NEW u \in [Party -> Int], NEW r \in [Party -> Int], Exchange(u, r), pc' = pc,
         NEW kind, NEW val, Bcast(p, kind, val),
         Sends(p, pc[p]),
         Fits([kind |-> kind, at |-> Now(p), val |-> val], pc[p], u[p]),
         \A q \in Party \ {p} : UNCHANGED Local(q),
         Position(p, u[p] - 1, r[p])'
  PROVE  Exchange([u EXCEPT ![p] = @ - 1], r)'
<1> DEFINE w == [u EXCEPT ![p] = @ - 1]
           m == [kind |-> kind, at |-> Now(p), val |-> val]
           k == pc[p]
<1>1. w[p] = u[p] - 1 /\ \A q \in Party \ {p} : w[q] = u[q]
  OBVIOUS
<1>2. \A q \in Party : Position(q, w[q], r[q])'
  BY <1>1, PositionLocal DEF Exchange
<1>3. \A a, b \in Party :
        peer'[a][b] = IF b = p /\ a \in Peers(p) THEN Append(peer[a][p], m) ELSE peer[a][b]
  BY DEF Bcast, PeerDomains
<1> HIDE DEF w, m
<1>4. ASSUME NEW a \in Party, NEW b \in Party, b # p PROVE Channel(a, b, w[b], r[a])'
  <2>1. Channel(a, b, u[b], r[a]) /\ UNCHANGED <<pc[a], pc[b], peer[a][b]>>
    BY <1>3, <1>4 DEF Exchange
  <2>2. QED
    BY <1>1, <1>4, <2>1, ChannelSame
<1>5. ASSUME NEW a \in Party PROVE Channel(a, p, w[p], r[a])'
  <2>1. Latest(a, p) = k /\ Latest(a, p)' = k /\ pc[a] \in Nat /\ pc[p] \in Nat
    BY BusyLeads DEF Latest
  <2> DEFINE e == Left(a, r[a], k)
             c == peer[a][p]
  <2>2. /\ a \in Party /\ Left(p, u[p], k) = u[p] /\ Left(p, w[p], k)' = w[p]
        /\ Left(a, r[a], k)' = e
    BY <2>1 DEF Left
  <2>3. /\ p \in Peers(a) <=> a \in Peers(p)
    BY DEF Peers
  <2>4. Start(k) \in Int
    <3>1. k \in DOMAIN Code
      BY DEF Sends
    <3>2. QED
      BY <3>1, StartFacts
  <2>5. e \in Int
    BY <2>4 DEF Left
  <2>6. Channel(a, p, u[p], r[a])
    BY DEF Exchange
  <2> HIDE DEF k, e
  <2>7. CASE a \in Peers(p)
    <3>1. Carries(c, k, e, u[p])
      BY <2>1, <2>2, <2>3, <2>6, <2>7, ChannelNow DEF k, e
    <3>2. Carries(Append(c, m), k, e, u[p] - 1)
      BY <2>5, <3>1, CarriesMore DEF k, m
    <3>3. peer'[a][p] = Append(c, m)
      BY <1>3, <2>7
    <3>4. QED
      BY <1>1, <2>1, <2>2, <2>3, <2>7, <3>2, <3>3, ChannelNext DEF k
  <2>8. CASE a \notin Peers(p)
    <3>1. peer'[a][p] = <<>>
      BY <1>3, <2>1, <2>3, <2>6, <2>8, ChannelNow
    <3>2. QED
      BY <1>1, <2>1, <2>2, <2>3, <2>8, <3>1, ChannelNext
  <2>9. QED
    BY <2>7, <2>8
<1>6. \A a, b \in Party : Channel(a, b, w[b], r[a])'
  BY <1>4, <1>5
<1>7. Exchange(w, r)'
  BY <1>2, <1>6 DEF Exchange
<1>8. QED
  BY <1>7 DEF w

\* Party p turns to the next message it would send, were it to send this one.
LEMMA SkippedExchange ==
  ASSUME IInv, NEW p \in Party, ppc[p] = "busy",
         NEW u \in [Party -> Int], NEW r \in [Party -> Int], Exchange(u, r),
         UNCHANGED <<pc, peer>>, ~Sends(p, pc[p]),
         \A q \in Party \ {p} : UNCHANGED Local(q),
         Position(p, u[p] - 1, r[p])'
  PROVE  Exchange([u EXCEPT ![p] = @ - 1], r)'
<1> DEFINE w == [u EXCEPT ![p] = @ - 1]
<1>1. w[p] = u[p] - 1 /\ \A q \in Party \ {p} : w[q] = u[q]
  OBVIOUS
<1>2. \A q \in Party : Position(q, w[q], r[q])'
  BY <1>1, PositionLocal DEF Exchange
<1> HIDE DEF w
<1>3. ASSUME NEW a \in Party, NEW b \in Party, b # p PROVE Channel(a, b, w[b], r[a])'
  BY <1>1, <1>3, ChannelSame DEF Exchange
<1>4. ASSUME NEW a \in Party PROVE Channel(a, p, w[p], r[a])'
  <2>1. Latest(a, p) = pc[p] /\ Latest(a, p)' = pc[p]
    BY BusyLeads DEF Latest
  <2>2. peer'[a][p] = <<>>
    BY <2>1, ChannelNow DEF Exchange
  <2>3. QED
    BY <2>1, <2>2, ChannelNext
<1>5. \A a, b \in Party : Channel(a, b, w[b], r[a])'
  BY <1>3, <1>4
<1>6. Exchange(w, r)'
  BY <1>2, <1>5 DEF Exchange
<1>7. QED
  BY <1>6 DEF w

\* What a party finds in the channels it waits for.
LEMMA Found ==
  ASSUME IInv, NEW p \in Party, ppc[p] = "busy",
         NEW u \in [Party -> Int], NEW r \in [Party -> Int], Exchange(u, r),
         NEW q \in Party, peer[p][q] # <<>>
  PROVE  /\ q \in Peers(p) /\ Sends(q, pc[p])
         /\ Carries(peer[p][q], pc[p], r[p], Left(q, u[q], pc[p]))
         /\ Fits(Head(peer[p][q]), pc[p], r[p])
         /\ Left(q, u[q], pc[p]) \in Int
<1>1. Latest(p, q) = pc[p] /\ Left(p, r[p], pc[p]) = r[p]
  BY BusyLeads DEF Left
<1>2. q \in Peers(p) /\ Sends(q, pc[p])
  BY <1>1, ChannelNow DEF Exchange
<1>3. Carries(peer[p][q], pc[p], r[p], Left(q, u[q], pc[p]))
  BY <1>1, <1>2, ChannelNow DEF Exchange
<1>4. Left(q, u[q], pc[p]) \in Int
  BY <1>2, StartFacts DEF Left, Sends
<1>5. QED
  BY <1>2, <1>3, <1>4, CarriesLess

\* A message received from everyone that sends one.
LEMMA ReceivedExchange ==
  ASSUME IInv, NEW p \in Party, ppc[p] = "busy", PeerDomains,
         NEW u \in [Party -> Int], NEW r \in [Party -> Int], Exchange(u, r), pc' = pc,
         Receive(p),
         \A q \in Peers(p) : Sends(q, pc[p]) => q \in Awaited(p),
         \A q \in Party \ {p} : UNCHANGED Local(q),
         Position(p, u[p], r[p] - 1)'
  PROVE  Exchange(u, [r EXCEPT ![p] = @ - 1])'
<1> DEFINE w == [r EXCEPT ![p] = @ - 1]
           k == pc[p]
<1>1. w[p] = r[p] - 1 /\ \A q \in Party \ {p} : w[q] = r[q]
  OBVIOUS
<1>2. \A q \in Party : Position(q, u[q], w[q])'
  BY <1>1, PositionLocal DEF Exchange
<1>3. /\ \A a, b \in Party :
           peer'[a][b] = IF a = p /\ b \in Awaited(p) THEN Tail(peer[p][b]) ELSE peer[a][b]
      /\ \A q \in Awaited(p) : q \in Party /\ peer[p][q] # <<>>
  BY DEF Receive, Arrived, PeerDomains
<1> HIDE DEF w
<1>4. ASSUME NEW a \in Party, NEW b \in Party, a # p PROVE Channel(a, b, u[b], w[a])'
  <2>1. Channel(a, b, u[b], r[a]) /\ UNCHANGED <<pc[a], pc[b], peer[a][b]>>
    BY <1>3, <1>4 DEF Exchange
  <2>2. QED
    BY <1>1, <1>4, <2>1, ChannelSame
<1>5. ASSUME NEW b \in Party PROVE Channel(p, b, u[b], w[p])'
  <2>1. Latest(p, b) = k /\ Latest(p, b)' = k
    BY BusyLeads DEF Latest
  <2> DEFINE d == Left(b, u[b], k)
             c == peer[p][b]
  <2>2. /\ Left(p, w[p], k)' = w[p] /\ Left(b, u[b], k)' = d
    <3>1. ~(pc[p] < pc[p])
      BY BusyLeads
    <3>2. QED
      BY <3>1 DEF Left
  <2>3. CASE b \in Awaited(p)
    <3>1. c # <<>> /\ peer'[p][b] = Tail(c)
      BY <1>3, <2>3
    <3>2. /\ b \in Peers(p) /\ Sends(b, k) /\ Carries(c, k, r[p], d) /\ d \in Int
      BY <3>1, Found
    <3> HIDE DEF k, d, c
    <3>3. Carries(Tail(c), k, r[p] - 1, d)
      BY <3>1, <3>2, CarriesLess
    <3>4. Carries(Tail(c), k, w[p], d)
      BY <1>1, <3>3
    <3>5. QED
      BY <2>1, <2>2, <3>1, <3>2, <3>4, ChannelNext DEF k
  <2>4. CASE b \notin Awaited(p)
    <3>1. ~(b \in Peers(p) /\ Sends(b, k))
      BY <2>4
    <3>2. peer'[p][b] = <<>>
      BY <1>3, <2>1, <2>4, <3>1, ChannelNow DEF Exchange
    <3>3. QED
      BY <2>1, <2>2, <3>1, <3>2, ChannelNext
  <2>5. QED
    BY <2>3, <2>4
<1>6. \A a, b \in Party : Channel(a, b, u[b], w[a])'
  BY <1>4, <1>5
<1>7. Exchange(u, w)'
  BY <1>2, <1>6 DEF Exchange
<1>8. QED
  BY <1>7 DEF w

LEMMA PeerDomainsNext == PeerDomains /\ Domains /\ TypeOK /\ [MpcNext]_allVars => PeerDomains'
<1> SUFFICES ASSUME PeerDomains, [MpcNext]_allVars PROVE PeerDomains'
  OBVIOUS
<1>1. CASE UNCHANGED peer
  BY <1>1 DEF PeerDomains
<1>2. ASSUME NEW p \in Party, NEW kind, NEW val, Bcast(p, kind, val) PROVE PeerDomains'
  BY <1>2 DEF PeerDomains, Bcast
<1>3. ASSUME NEW p \in Party, Receive(p) PROVE PeerDomains'
  BY <1>3 DEF PeerDomains, Receive
<1>4. ASSUME NEW p \in Party, PartyThread(p)
      PROVE  \/ UNCHANGED peer
             \/ Receive(p)
             \/ \E kind, val : Bcast(p, kind, val)
  BY <1>4 DEF PartyThread, Listen, Forward, ForwardFails, HandlerFails, Fails, mpcVars,
         GiveInstruction, OnNext, OnOpen, OnInput, OnCheck, TakeAction,
         EndElems, EndInputElem, Commit, EndComs, Reveal, EndOpens
<1>5. ASSUME NEW p \in Party, VMStep(p) \/ PrepEnds(p) PROVE UNCHANGED peer
  BY <1>5 DEF VMStep, DoLocal, DoTriple, DoInput, DoOpen, DoStop, EndInput, EndOpen,
         EndCheck, VMTimeout, PrepEnds, Fails
<1>6. SyncThread \/ UNCHANGED allVars => UNCHANGED peer
  BY DEF SyncThread, mpcVars, allVars
<1>7. QED
  BY <1>1, <1>2, <1>3, <1>4, <1>5, <1>6 DEF MpcNext

\* The steps of a party that leave the channels between parties alone.
LEMMA QuietPosition ==
  ASSUME TypeOK, Domains, NEW p \in Party, Handshake(p), CountInv(p), NEW u, NEW r,
         Position(p, u, r),
         \/ Listen(p) /\ ~(Fetch(p) /\ Fetches(p))
         \/ Forward(p) \/ ForwardFails(p) \/ PrepEnds(p) \/ HandlerFails(p)
         \/ GiveInstruction(p) \/ OnNext(p) \/ OnCheck(p)
  PROVE  UNCHANGED <<pc, peer>> /\ Position(p, u, r)'
<1> USE DEF prepVars, handVars, histVars, vars, partyVars, vmVars, linkVars
<1>1. UNCHANGED <<pc, peer, vpc[p]>>
  BY DEF Listen, AwaitStart, Fetch, SyncLost, Join, Fails, mpcVars, TypeOK,
         Forward, ForwardFails, PrepEnds, HandlerFails, PrepFails, BusyFails,
         GiveInstruction, OnNext, OnCheck, Reply, TakeAction
<1>2. /\ Start(pc[p])' = Start(pc[p]) /\ Checks(pc[p])' = Checks(pc[p])
      /\ \A a : Due(p, a)' = Due(p, a)
  BY <1>1 DEF Due, Checks, Start, Cnt, Pending
<1>3. CASE \/ Listen(p) /\ ~(Fetch(p) /\ Fetches(p))
           \/ Forward(p) \/ ForwardFails(p) \/ PrepEnds(p) \/ HandlerFails(p)
  <2>1. UNCHANGED <<hpc[p], actChan[p], instChan[p], resp[p], todo[p]>>
    BY <1>3 DEF Listen, AwaitStart, Fetch, SyncLost, Join, Fails, mpcVars, TypeOK,
       Forward, ForwardFails, PrepEnds, HandlerFails, PrepFails, BusyFails
  <2>2. QED
    BY <1>1, <1>2, <2>1 DEF Position, Due, Checks, Start, Cnt, Pending
<1>4. CASE GiveInstruction(p)
  <2>1. /\ hpc[p] = "give" /\ hpc'[p] = "action"
        /\ UNCHANGED <<actChan[p], resp[p], todo[p]>>
    BY <1>4 DEF GiveInstruction, At, Go, Domains
  <2>2. actChan[p] = <<>> /\ resp[p] = <<>>
    BY <2>1 DEF Handshake, LinkInv
  <2>3. u = Start(pc[p]) /\ u = r /\ 0 <= u /\ r <= Start(pc[p])
    BY <2>1 DEF Position
  <2>4. QED
    BY <1>1, <1>2, <2>1, <2>2, <2>3 DEF Position, CheckPhases
<1>5. ASSUME NEW act, TakeAction(p, act)
      PROVE  /\ actChan'[p] = <<>> /\ instChan'[p] = <<>> /\ resp[p] = <<>>
             /\ Head(actChan[p]).act = act /\ u = Due(p, Head(actChan[p]))
             /\ u = r /\ 0 <= u /\ r <= Start(pc[p]) /\ actChan[p] # <<>>
  <2>1. /\ actChan[p] # <<>> /\ Head(actChan[p]).act = act /\ hpc[p] = "action"
        /\ actChan'[p] = Tail(actChan[p]) /\ instChan'[p] = instChan[p]
    BY <1>5 DEF TakeAction, At, Domains
  <2>2. actChan[p] = <<Head(actChan[p])>> /\ resp[p] = <<>> /\ instChan[p] = <<>>
    BY <2>1 DEF Handshake, LinkInv
  <2>3. Tail(actChan[p]) = <<>>
    BY <2>2, OneElement
  <2>4. QED
    BY <2>1, <2>2, <2>3 DEF Position
<1>6. CASE OnNext(p)
  <2>1. TakeAction(p, "Next") /\ hpc'[p] = "idle" /\ UNCHANGED <<resp[p], todo[p]>>
    BY <1>6 DEF OnNext, Go, Domains
  <2>2. u = 0 /\ r = 0
    BY <1>5, <2>1 DEF Due
  <2>3. QED
    BY <1>1, <1>2, <1>5, <2>1, <2>2 DEF Position, CheckPhases
<1>7. CASE OnCheck(p)
  <2>1. TakeAction(p, "Check") /\ hpc'[p] = "commit" /\ UNCHANGED resp[p]
        /\ todo'[p] = Head(actChan[p]).list
    BY <1>7 DEF OnCheck, Go, Domains
  <2>2. u = Checks(pc[p]) /\ 2 * Len(todo'[p]) = Checks(pc[p])
    BY <1>5, <2>1 DEF Due, CountInv
  <2>3. QED
    BY <1>1, <1>2, <1>5, <2>1, <2>2 DEF Position, CheckPhases
<1>8. QED
  BY <1>3, <1>4, <1>6, <1>7, <1>1

\* The action a party takes, and where that leaves it.
LEMMA ActionTaken ==
  ASSUME Domains, NEW p \in Party, Handshake(p), NEW act, TakeAction(p, act), NEW u, NEW r,
         Position(p, u, r)
  PROVE  /\ actChan'[p] = <<>> /\ instChan'[p] = <<>> /\ resp[p] = <<>> /\ todo[p] = <<>>
         /\ ppc[p] = "busy" /\ pc[p] \in DOMAIN Code
         /\ ActionFits(p, Head(actChan[p])) /\ Head(actChan[p]).act = act
         /\ u = Due(p, Head(actChan[p]))
         /\ u = r /\ 0 <= u /\ r <= Start(pc[p])
<1>1. /\ actChan[p] # <<>> /\ Head(actChan[p]).act = act /\ hpc[p] = "action" /\ ppc[p] = "busy"
      /\ actChan'[p] = Tail(actChan[p]) /\ instChan'[p] = instChan[p]
  BY DEF TakeAction, At, Domains
<1>2. /\ actChan[p] = <<Head(actChan[p])>> /\ resp[p] = <<>> /\ instChan[p] = <<>>
      /\ ActionFits(p, Head(actChan[p])) /\ todo[p] = <<>> /\ pc[p] \in DOMAIN Code
  BY <1>1 DEF Handshake, LinkInv, PhaseInv, CheckPhases
<1>3. Tail(actChan[p]) = <<>>
  BY <1>2, OneElement
<1>4. QED
  BY <1>1, <1>2, <1>3 DEF Position

LEMMA OpensExchange ==
  ASSUME IInv, HandInv, PeerDomains, NEW p \in Party,
         NEW u \in [Party -> Int], NEW r \in [Party -> Int], Exchange(u, r),
         \A q \in Party \ {p} : UNCHANGED Local(q),
         OnOpen(p) \/ OnInput(p)
  PROVE  Exchange([u EXCEPT ![p] = @ - 1], r)'
<1> USE DEF prepVars, handVars, histVars, vars, partyVars, vmVars, linkVars
<1> DEFINE a == Head(actChan[p])
<1>1. PICK act \in {"Open", "Input"} : TakeAction(p, act)
  BY DEF OnOpen, OnInput
<1>2. /\ actChan'[p] = <<>> /\ instChan'[p] = <<>> /\ resp[p] = <<>> /\ todo[p] = <<>>
      /\ ppc[p] = "busy" /\ pc[p] \in DOMAIN Code
      /\ ActionFits(p, a) /\ a.act = act
      /\ u[p] = Due(p, a) /\ u[p] = r[p] /\ 0 <= u[p] /\ r[p] <= Start(pc[p])
  BY <1>1, ActionTaken DEF HandInv, Exchange
<1>3. u[p] = Start(pc[p]) /\ Op(p) # "Stop" /\ u[p] - 1 \in Nat
  <2>1. u[p] = Start(pc[p])
    BY <1>1, <1>2 DEF Due
  <2>2. Op(p) \in Opening \cup {"Input"}
    BY <1>1, <1>2 DEF ActionFits
  <2>3. Start(pc[p]) - 1 \in Nat
    BY <1>2, <2>2, StartFacts DEF Op, Opening
  <2>4. QED
    BY <2>1, <2>2, <2>3 DEF Opening
<1>4. pc' = pc /\ resp'[p] = <<>> /\ todo'[p] = <<>>
  BY <1>2 DEF OnOpen, OnInput
<1>5. hpc'[p] \in {"elems", "input"}
  BY DEF OnOpen, OnInput, Go, HandInv, Domains
<1>6. Position(p, u[p] - 1, r[p])'
  <2>1. Start(pc[p])' = Start(pc[p])
    BY <1>4 DEF Start, Cnt, Pending
  <2>2. QED
    BY <1>2, <1>3, <1>4, <1>5, <2>1 DEF Position, CheckPhases
<1>7. Now(p) = <<pc[p], 0>>
  BY <1>2 DEF Now
<1>8. ASSUME NEW val
      PROVE  Fits([kind |-> "Elem", at |-> Now(p), val |-> val], pc[p], u[p])
  BY <1>3, <1>7 DEF Fits, Op
<1>9. CASE OnOpen(p)
  <2>1. TakeAction(p, "Open")
    BY <1>9 DEF OnOpen
  <2>2. Op(p) \in Opening
    BY <2>1, ActionTaken DEF ActionFits, HandInv, Exchange
  <2>3. Sends(p, pc[p])
    BY <1>2, <2>2 DEF Sends, Op, Opening
  <2>4. Bcast(p, "Elem", Head(actChan[p]).share)
    BY <1>9 DEF OnOpen
  <2>5. QED
    BY <1>2, <1>4, <1>6, <1>8, <2>3, <2>4, SentExchange
<1>10. CASE OnInput(p)
  <2>1. TakeAction(p, "Input")
    BY <1>10 DEF OnInput
  <2>2. Op(p) = "Input" /\ a.id = Code[pc[p]].id
    BY <2>1, ActionTaken DEF ActionFits, HandInv, Exchange
  <2>3. Sends(p, pc[p]) <=> Owns(p, a.id)
    BY <1>2, <2>2 DEF Sends, Op
  <2>4. CASE Owns(p, a.id)
    <3>1. Bcast(p, "Elem", {})
      BY <1>10, <2>4 DEF OnInput
    <3>2. QED
      BY <1>2, <1>4, <1>6, <1>8, <2>3, <2>4, <3>1, SentExchange
  <2>5. CASE ~Owns(p, a.id)
    <3>1. UNCHANGED peer
      BY <1>10, <2>5 DEF OnInput
    <3>2. QED
      BY <1>2, <1>4, <1>6, <2>3, <2>5, <3>1, SkippedExchange
  <2>6. QED
    BY <2>4, <2>5
<1>11. QED
  BY <1>9, <1>10

\* Where a party is in the middle of a check.
LEMMA InCheck ==
  ASSUME HandInv, NEW p \in Party, hpc[p] \in CheckPhases, NEW u, NEW r, Position(p, u, r)
  PROVE  /\ instChan[p] = <<>> /\ actChan[p] = <<>> /\ resp[p] = <<>>
         /\ pc[p] \in DOMAIN Code /\ Op(p) \in Checking /\ vpc[p] \in {"check", "failed"}
         /\ IsSeq(todo[p]) /\ todo[p] # <<>> /\ Len(todo[p]) \in Nat \ {0}
         /\ 2 * Len(todo[p]) <= Checks(pc[p])
<1>1. Handshake(p) /\ hpc[p] \notin {"idle", "action"}
  BY DEF HandInv, CheckPhases
<1>2. IsSeq(todo[p]) /\ todo[p] # <<>>
  BY <1>1 DEF Handshake, PhaseInv, ListInv
<1>3. Len(todo[p]) \in Nat \ {0}
  BY <1>2, Shortened
<1>4. QED
  BY <1>1, <1>2, <1>3 DEF Handshake, PhaseInv, LinkInv, Position

LEMMA ChecksExchange ==
  ASSUME IInv, HandInv, PeerDomains, NEW p \in Party,
         NEW u \in [Party -> Int], NEW r \in [Party -> Int], Exchange(u, r),
         \A q \in Party \ {p} : UNCHANGED Local(q),
         Commit(p) \/ Reveal(p)
  PROVE  Exchange([u EXCEPT ![p] = @ - 1], r)'
<1> USE DEF prepVars, handVars, histVars, vars, partyVars, vmVars, linkVars
<1>1. Position(p, u[p], r[p])
  BY DEF Exchange
<1>2. /\ ppc[p] = "busy" /\ hpc[p] \in {"commit", "reveal"} /\ hpc[p] \in CheckPhases
      /\ UNCHANGED <<pc, todo, instChan, actChan, resp>>
  BY DEF Commit, Reveal, At, CheckPhases
<1>3. /\ instChan[p] = <<>> /\ actChan[p] = <<>> /\ resp[p] = <<>>
      /\ pc[p] \in DOMAIN Code /\ Op(p) \in Checking
      /\ Len(todo[p]) \in Nat \ {0} /\ 2 * Len(todo[p]) <= Checks(pc[p])
  BY <1>1, <1>2, InCheck
<1>4. Sends(p, pc[p])
  BY <1>3 DEF Sends, Op, Checking
<1>5. /\ Start(pc[p])' = Start(pc[p]) /\ Checks(pc[p])' = Checks(pc[p])
  BY <1>2 DEF Checks, Start, Cnt, Pending
<1>6. u[p] = r[p] /\ r[p] <= Start(pc[p]) /\ r[p] \in Int
  BY <1>1, <1>2 DEF Position
<1>7. CASE Commit(p)
  <2>1. hpc[p] = "commit" /\ hpc'[p] = "coms" /\ Bcast(p, "Com", Commitment(D(p)))
    BY <1>7 DEF Commit, At, Go, HandInv, Domains
  <2>2. r[p] = 2 * Len(todo[p])
    BY <1>1, <2>1 DEF Position
  <2>3. Position(p, u[p] - 1, r[p])'
    BY <1>2, <1>3, <1>5, <1>6, <2>1, <2>2 DEF Position, CheckPhases
  <2>4. Fits([kind |-> "Com", at |-> Now(p), val |-> Commitment(D(p))], pc[p], u[p])
    BY <1>3, <1>6, <2>2 DEF Fits, Op, Now
  <2>5. QED
    BY <1>2, <1>4, <2>1, <2>3, <2>4, SentExchange
<1>8. CASE Reveal(p)
  <2>1. hpc[p] = "reveal" /\ hpc'[p] = "opens" /\ Bcast(p, "Opening", D(p))
    BY <1>8 DEF Reveal, At, Go, HandInv, Domains
  <2>2. r[p] = 2 * Len(todo[p]) - 1
    BY <1>1, <2>1 DEF Position
  <2>3. Position(p, u[p] - 1, r[p])'
    BY <1>2, <1>3, <1>5, <1>6, <2>1, <2>2 DEF Position, CheckPhases
  <2>4. u[p] <= Checks(pc[p])
    BY <1>1, <1>3, <1>6, <2>2, StartFacts DEF Op, Checking
  <2>5. Fits([kind |-> "Opening", at |-> Now(p), val |-> D(p)], pc[p], u[p])
    BY <1>3, <1>6, <2>2, <2>4 DEF Fits, Op, Now
  <2>6. QED
    BY <1>2, <1>4, <2>1, <2>3, <2>5, SentExchange
<1>9. QED
  BY <1>7, <1>8

LEMMA AnswersExchange ==
  ASSUME IInv, HandInv, PeerDomains, NEW p \in Party,
         NEW u \in [Party -> Int], NEW r \in [Party -> Int], Exchange(u, r),
         \A q \in Party \ {p} : UNCHANGED Local(q),
         EndElems(p) \/ EndInputElem(p)
  PROVE  Exchange(u, [r EXCEPT ![p] = @ - 1])'
<1> USE DEF prepVars, handVars, histVars, vars, partyVars, vmVars, linkVars
<1>1. Position(p, u[p], r[p]) /\ Handshake(p)
  BY DEF Exchange, HandInv
<1>2. /\ ppc[p] = "busy" /\ hpc[p] \in {"elems", "input"} /\ Receive(p) /\ vpc[p] # "failed"
      /\ hpc'[p] = "action" /\ UNCHANGED <<pc, todo, vpc, instChan, actChan>>
  BY DEF EndElems, EndInputElem, At, Answer, Go, VMGone, HandInv, Domains
<1>3. /\ instChan[p] = <<>> /\ actChan[p] = <<>> /\ pc[p] \in DOMAIN Code
      /\ hpc[p] = "elems" => vpc[p] = "open" /\ Op(p) \in Opening
      /\ hpc[p] = "input" => vpc[p] = "input" /\ Op(p) = "Input"
  BY <1>1, <1>2 DEF Handshake, PhaseInv, LinkInv
<1>4. r[p] = u[p] + 1 /\ r[p] = Start(pc[p]) /\ 0 <= u[p]
      /\ u[p] \in Int /\ r[p] \in Int
  BY <1>1, <1>2 DEF Position
<1>5. hpc[p] = "input" => u[p] = 0
  BY <1>3, <1>4, StartFacts DEF Op
<1>6. Position(p, u[p], r[p] - 1)'
  <2>1. Start(pc[p])' = Start(pc[p])
    BY <1>2 DEF Start, Cnt, Pending
  <2>2. r[p] - 1 = u[p] /\ u[p] = Start(pc[p]) - 1 /\ r[p] - 1 <= Start(pc[p])
    BY <1>4
  <2>3. vpc[p] \in {"open", "input"} /\ (vpc[p] = "input" => u[p] = 0)
    BY <1>2, <1>3, <1>5
  <2>4. QED
    BY <1>2, <1>3, <1>4, <2>1, <2>2, <2>3 DEF Position, CheckPhases
<1>7. ASSUME NEW q \in Peers(p), Sends(q, pc[p]) PROVE q \in Awaited(p)
  <2>1. CASE hpc[p] = "elems"
    BY <2>1 DEF Awaited
  <2>2. CASE hpc[p] = "input"
    <3> DEFINE s == Indexed(p, Code[pc[p]].id)
    <3>1. Awaited(p) = {s}
      BY <2>2 DEF Awaited
    <3>2. s \in Party /\ peer[p][s] # <<>>
      BY <1>2, <3>1 DEF Receive, Arrived
    <3> HIDE DEF s
    <3>3. Sends(s, pc[p])
      BY <1>2, <3>2, Found
    <3>4. s = Code[pc[p]].id /\ q = Code[pc[p]].id
      BY <1>3, <1>7, <2>2, <3>3 DEF Sends, Op, Owns
    <3>5. QED
      BY <3>1, <3>4
  <2>3. QED
    BY <1>2, <2>1, <2>2
<1>8. QED
  BY <1>2, <1>6, <1>7, ReceivedExchange

LEMMA CheckedExchange ==
  ASSUME IInv, HandInv, PeerDomains, NEW p \in Party,
         NEW u \in [Party -> Int], NEW r \in [Party -> Int], Exchange(u, r),
         \A q \in Party \ {p} : UNCHANGED Local(q),
         EndComs(p) \/ EndOpens(p)
  PROVE  Exchange(u, [r EXCEPT ![p] = @ - 1])'
<1> USE DEF prepVars, handVars, histVars, vars, partyVars, vmVars, linkVars
<1>1. Position(p, u[p], r[p])
  BY DEF Exchange
<1>2. /\ ppc[p] = "busy" /\ hpc[p] \in {"coms", "opens"} /\ hpc[p] \in CheckPhases /\ Receive(p)
      /\ UNCHANGED <<pc, vpc, instChan, actChan>>
  BY DEF EndComs, EndOpens, At, CheckPhases
<1>3. /\ instChan[p] = <<>> /\ actChan[p] = <<>> /\ resp[p] = <<>>
      /\ pc[p] \in DOMAIN Code /\ Op(p) \in Checking /\ vpc[p] \in {"check", "failed"}
      /\ IsSeq(todo[p]) /\ todo[p] # <<>> /\ Len(todo[p]) \in Nat \ {0}
      /\ 2 * Len(todo[p]) <= Checks(pc[p])
  BY <1>1, <1>2, InCheck
<1>4. /\ Start(pc[p])' = Start(pc[p]) /\ Checks(pc[p])' = Checks(pc[p])
  BY <1>2 DEF Checks, Start, Cnt, Pending
<1>5. r[p] = u[p] + 1 /\ r[p] <= Start(pc[p]) /\ 0 <= u[p] /\ u[p] \in Int /\ r[p] \in Int
  BY <1>1, <1>2 DEF Position
<1>6. CASE EndComs(p)
  <2>1. hpc[p] = "coms" /\ hpc'[p] = "reveal" /\ UNCHANGED <<todo, resp>>
    BY <1>6 DEF EndComs, At, Go, HandInv, Domains
  <2>2. r[p] = 2 * Len(todo[p])
    BY <1>1, <2>1 DEF Position
  <2>3. Start(pc[p]) \in Int
    BY <1>3, StartFacts
  <2>4. r[p] - 1 = u[p] /\ r[p] - 1 <= Start(pc[p]) /\ r[p] - 1 = 2 * Len(todo[p]) - 1
    BY <1>5, <2>2, <2>3
  <2>5. Position(p, u[p], r[p] - 1)'
    BY <1>2, <1>3, <1>4, <1>5, <2>1, <2>4 DEF Position, CheckPhases
  <2>6. Peers(p) = Awaited(p)
    BY <1>2 DEF Awaited
  <2>7. QED
    BY <1>2, <2>5, <2>6, ReceivedExchange
<1>7. CASE EndOpens(p)
  <2>1. hpc[p] = "opens"
    BY <1>7 DEF EndOpens, At
  <2>2. r[p] = 2 * Len(todo[p]) - 1
    BY <1>1, <2>1 DEF Position
  <2>3. Start(pc[p]) \in Int
    BY <1>3, StartFacts
  <2>4. r[p] - 1 = u[p] /\ r[p] - 1 <= Start(pc[p]) /\ u[p] = 2 * (Len(todo[p]) - 1)
    <3>1. ASSUME NEW n \in Nat, r[p] = 2 * n - 1 PROVE u[p] = 2 * (n - 1)
      BY <1>5, <3>1
    <3>2. u[p] = 2 * (Len(todo[p]) - 1)
      BY <1>3, <2>2, <3>1
    <3>3. QED
      BY <1>5, <2>3, <3>2
  <2>5. CASE Verdict(p) = "Ok" /\ Len(todo[p]) > 1
    <3>1. hpc'[p] = "commit" /\ todo'[p] = Tail(todo[p]) /\ resp' = resp
      BY <1>7, <2>5 DEF EndOpens, Go, HandInv, Domains
    <3>2. Len(todo'[p]) = Len(todo[p]) - 1
      BY <1>3, <3>1, Shortened
    <3>3. u[p] = 2 * Len(todo'[p]) /\ 2 * Len(todo'[p]) <= Checks(pc[p])
      <4>1. Checks(pc[p]) \in Int
        BY <1>3, StartFacts DEF Op, Checking
      <4>2. QED
        BY <1>3, <2>4, <3>2, <4>1
    <3>4. Position(p, u[p], r[p] - 1)'
      BY <1>2, <1>3, <1>4, <1>5, <2>4, <3>1, <3>3 DEF Position, CheckPhases
    <3>5. QED
      BY <1>2, <2>1, <3>4, ReceivedExchange DEF Awaited
  <2>6. CASE ~(Verdict(p) = "Ok" /\ Len(todo[p]) > 1)
    <3> DEFINE v == Verdict(p)
    <3>1. hpc'[p] = "action" /\ todo'[p] = <<>> /\ resp'[p] = Append(resp[p], v)
          /\ vpc[p] # "failed"
      BY <1>7, <2>6 DEF EndOpens, Answer, Go, HandInv, Domains, VMGone
    <3>2. v = "Ok" => u[p] = 0
      BY <1>3, <2>4, <2>6
    <3> HIDE DEF v
    <3>3. Head(resp'[p]) = v
      BY <1>3, <3>1, OneElement
    <3>4. vpc[p] = "check"
      BY <1>3, <3>1
    <3>5. Position(p, u[p], r[p] - 1)'
      BY <1>2, <1>3, <1>4, <1>5, <2>4, <3>1, <3>2, <3>3, <3>4 DEF Position, CheckPhases
    <3>6. QED
      BY <1>2, <2>1, <3>5, ReceivedExchange DEF Awaited
  <2>7. QED
    BY <2>5, <2>6
<1>8. QED
  BY <1>6, <1>7

\* Party p turns to the next instruction: whoever has not is done with the
\* last one, and whoever has, has p's messages of the new one to come.
LEMMA FetchExchange ==
  ASSUME TypeOK, IInv, HandInv, LockstepInv', Behind, NEW p \in Party,
         NEW u \in [Party -> Int], NEW r \in [Party -> Int], Exchange(u, r),
         \A q \in Party \ {p} : UNCHANGED Local(q),
         Fetch(p), Fetches(p), Listen(p), NEW s, s = Start(pc[p] + 1)
  PROVE  /\ s \in Int
         /\ Exchange([u EXCEPT ![p] = s], [r EXCEPT ![p] = s])'
<1> USE DEF prepVars, handVars, histVars, vars, partyVars, vmVars, linkVars
<1> DEFINE w == [u EXCEPT ![p] = s]
           v == [r EXCEPT ![p] = s]
<1> PICK k : k = pc[p]
  OBVIOUS
<1>1. /\ ppc[p] = "running" /\ pc'[p] = k + 1 /\ k \in Nat /\ UNCHANGED <<peer, replied>>
      /\ hpc'[p] = "give" /\ \A q \in Party \ {p} : pc'[q] = pc[q] /\ pc[q] \in Nat
      /\ UNCHANGED <<todo[p], resp[p], actChan[p], instChan[p]>>
  BY DEF Fetch, Fetches, Listen, AwaitStart, SyncLost, Join, TypeOK, HandInv, Domains
<1>2. hpc[p] = "idle" /\ todo[p] = <<>> /\ resp[p] = <<>> /\ actChan[p] = <<>>
      /\ instChan[p] = <<>>
  BY <1>1 DEF HandInv, Handshake, PhaseInv, LinkInv, CheckPhases
<1>3. k + 1 \in DOMAIN Code /\ s \in Nat
  <2>1. k + 1 \in DOMAIN Code
    BY <1>1, CodeFacts DEF Fetches, HandInv
  <2>2. QED
    BY <2>1, StartFacts
<1>4. /\ w[p] = s /\ v[p] = s
      /\ \A q \in Party \ {p} : w[q] = u[q] /\ v[q] = r[q]
  OBVIOUS
<1> HIDE DEF w, v
<1>5. \A q \in Party : Position(q, w[q], v[q])'
  <2>1. Start(pc[p])' = s
    BY <1>1 DEF Start, Cnt, Pending
  <2>2. Position(p, s, s)'
    BY <1>1, <1>2, <1>3, <2>1 DEF Position, CheckPhases
  <2>3. QED
    BY <1>4, <2>2, PositionLocal DEF Exchange
<1>6. ASSUME NEW q \in Party
      PROVE  /\ pc[q] = k \/ pc[q] = k + 1
             /\ pc[q] = k => u[q] = 0 /\ r[q] = 0
  <2>1. pc'[p] <= replied'[q] + 1
    BY DEF LockstepInv
  <2>2. /\ k <= replied[q] /\ replied[q] <= pc[q] /\ pc[q] <= replied[p] + 1 /\ replied[p] <= k
        /\ replied[q] \in Nat /\ pc[q] \in Nat /\ replied[p] \in Nat
    <3> HIDE DEF w, v
    <3>1. /\ replied[q] \in Nat /\ pc[q] \in Nat /\ round \in Nat
          /\ replied[q] <= pc[q] /\ pc[q] <= round
      <4>1. /\ replied[q] \in Nat /\ pc[q] \in Nat /\ round \in Nat
            /\ replied[q] <= pc[q] /\ pc[q] + Nexts(q) <= round
            /\ Nexts(q) \in {0, 1}
        BY Counts
      <4>2. QED
        BY <4>1
    <3>2. /\ replied[p] \in Nat /\ round <= replied[p] + 1 /\ replied[p] <= k
      BY Counts
    <3>3. k <= replied[q]
      BY <1>1, <2>1, <3>1
    <3>4. QED
      BY <3>1, <3>2, <3>3
  <2>3. pc[q] = k => hpc[q] = "idle"
    BY <2>2 DEF Behind
  <2>4. Position(q, u[q], r[q])
    BY DEF Exchange
  <2>5. QED
    BY <1>1, <2>2, <2>3, <2>4 DEF Position
<1>7. ASSUME NEW a \in Party, NEW b \in Party, pc[a] = k, pc[b] = k, a = p \/ b = p
      PROVE  Channel(a, b, w[b], v[a])'
  <2>1. Latest(a, b) = k /\ Latest(a, b)' = k + 1
    BY <1>1, <1>6, <1>7 DEF Latest
  <2>2. Left(a, r[a], k) = 0 /\ Left(b, u[b], k) = 0
    BY <1>1, <1>6, <1>7 DEF Left
  <2>3. peer[a][b] = <<>>
    <3>1. Channel(a, b, u[b], r[a])
      BY DEF Exchange
    <3>2. /\ b \in Peers(a) /\ Sends(b, k) => Carries(peer[a][b], k, 0, 0)
          /\ ~(b \in Peers(a) /\ Sends(b, k)) => peer[a][b] = <<>>
      BY <2>1, <2>2, <3>1, ChannelNow
    <3>3. QED
      BY <3>2, CarriesNone, 0 \in Int, Zenon
  <2>4. Left(a, v[a], k + 1)' = s /\ Left(b, w[b], k + 1)' = s
    BY <1>1, <1>4, <1>7 DEF Left
  <2>5. Carries(<<>>, k + 1, s, s)
    BY <1>3, CarriesNone
  <2>6. QED
    BY <1>1, <2>1, <2>3, <2>4, <2>5, ChannelNext
<1>8. ASSUME NEW a \in Party, NEW b \in Party, pc[a] = k + 1 \/ pc[b] = k + 1, a = p \/ b = p
      PROVE  Channel(a, b, w[b], v[a])'
  <2> DEFINE c == peer[a][b]
             e == Left(a, r[a], k + 1)
             d == Left(b, u[b], k + 1)
  <2>1. Latest(a, b) = k + 1 /\ Latest(a, b)' = k + 1
    BY <1>1, <1>6, <1>8 DEF Latest
  <2>2. Left(a, v[a], k + 1)' = e /\ Left(b, w[b], k + 1)' = d
    BY <1>1, <1>4, <1>8 DEF Left
  <2>3. /\ b \in Peers(a) /\ Sends(b, k + 1) => Carries(c, k + 1, e, d)
        /\ ~(b \in Peers(a) /\ Sends(b, k + 1)) => c = <<>>
    BY <2>1, ChannelNow DEF Exchange
  <2> HIDE DEF e, d
  <2>4. QED
    BY <1>1, <2>1, <2>2, <2>3, ChannelNext
<1>9. ASSUME NEW a \in Party, NEW b \in Party, a # p, b # p
      PROVE  Channel(a, b, w[b], v[a])'
  BY <1>1, <1>4, <1>9, ChannelSame DEF Exchange
<1>10. \A a, b \in Party : Channel(a, b, w[b], v[a])'
  BY <1>6, <1>7, <1>8, <1>9
<1>11. Exchange(w, v)'
  BY <1>5, <1>10 DEF Exchange
<1>12. QED
  BY <1>3, <1>11 DEF w, v

LEMMA InitExchange == MpcInit => ExchangeInv
<1> SUFFICES ASSUME MpcInit PROVE ExchangeInv
  OBVIOUS
<1> DEFINE z == [p \in Party |-> 0]
<1>1. /\ PeerDomains /\ Behind
      /\ \A p, q \in Party : peer[p][q] = <<>>
  BY DEF MpcInit, PeerDomains, Behind
<1>2. z \in [Party -> Int] /\ \A p \in Party : z[p] = 0
  OBVIOUS
<1> HIDE DEF z
<1>3. ASSUME NEW p \in Party PROVE Position(p, 0, 0)
  <2>1. /\ hpc[p] = "idle" /\ instChan[p] = <<>> /\ actChan[p] = <<>> /\ resp[p] = <<>>
    BY DEF MpcInit
  <2>2. QED
    BY <2>1 DEF Position, CheckPhases
<1>4. ASSUME NEW p \in Party, NEW q \in Party PROVE Channel(p, q, 0, 0)
  <2>1. Latest(p, q) = 0 /\ Left(p, 0, 0) = 0 /\ Left(q, 0, 0) = 0
    BY DEF MpcInit, Init, Latest, Left
  <2>2. Carries(<<>>, 0, 0, 0)
    BY CarriesNone, 0 \in Int
  <2>3. QED
    BY <1>1, <2>1, <2>2 DEF Channel, Holds
<1>5. Exchange(z, z)
  BY <1>2, <1>3, <1>4 DEF Exchange
<1>6. QED
  BY <1>1, <1>2, <1>5 DEF ExchangeInv

LEMMA PartyExchange ==
  ASSUME TypeOK, IInv, LockstepInv', HandInv, AllCount, PeerDomains, Behind,
         NEW p \in Party, PartyThread(p) \/ PrepEnds(p),
         \A q \in Party \ {p} : UNCHANGED Local(q),
         NEW u \in [Party -> Int], NEW r \in [Party -> Int], Exchange(u, r)
  PROVE  \E w, v \in [Party -> Int] : Exchange(w, v)'
<1>1. Position(p, u[p], r[p]) /\ Handshake(p) /\ Domains /\ CountInv(p)
  BY DEF Exchange, HandInv, AllCount
<1>2. CASE \/ Listen(p) /\ ~(Fetch(p) /\ Fetches(p))
           \/ Forward(p) \/ ForwardFails(p) \/ PrepEnds(p) \/ HandlerFails(p)
           \/ GiveInstruction(p) \/ OnNext(p) \/ OnCheck(p)
  <2>1. UNCHANGED <<pc, peer>> /\ Position(p, u[p], r[p])'
    BY <1>1, <1>2, QuietPosition
  <2>2. QED
    BY <2>1, StillExchange
<1>3. CASE Listen(p) /\ Fetch(p) /\ Fetches(p)
  <2>1. PICK s : s = Start(pc[p] + 1)
    OBVIOUS
  <2>2. s \in Int /\ Exchange([u EXCEPT ![p] = s], [r EXCEPT ![p] = s])'
    BY <1>3, <2>1, FetchExchange
  <2>3. [u EXCEPT ![p] = s] \in [Party -> Int] /\ [r EXCEPT ![p] = s] \in [Party -> Int]
    BY <2>2
  <2>4. QED
    BY <2>2, <2>3
<1>4. CASE OnOpen(p) \/ OnInput(p) \/ Commit(p) \/ Reveal(p)
  <2>1. Exchange([u EXCEPT ![p] = @ - 1], r)'
    BY <1>4, OpensExchange, ChecksExchange
  <2>2. [u EXCEPT ![p] = @ - 1] \in [Party -> Int]
    OBVIOUS
  <2>3. QED
    BY <2>1, <2>2
<1>5. CASE EndElems(p) \/ EndInputElem(p) \/ EndComs(p) \/ EndOpens(p)
  <2>1. Exchange(u, [r EXCEPT ![p] = @ - 1])'
    BY <1>5, AnswersExchange, CheckedExchange
  <2>2. [r EXCEPT ![p] = @ - 1] \in [Party -> Int]
    OBVIOUS
  <2>3. QED
    BY <2>1, <2>2
<1>6. QED
  BY <1>2, <1>3, <1>4, <1>5 DEF PartyThread

LEMMA NextExchange ==
  /\ TypeOK /\ IInv /\ LockstepInv' /\ HandInv /\ AllCount /\ ExchangeInv
  /\ [MpcNext]_allVars
  => ExchangeInv'
<1> SUFFICES ASSUME TypeOK, IInv, LockstepInv', HandInv, AllCount, ExchangeInv,
                    [MpcNext]_allVars
             PROVE  ExchangeInv'
  OBVIOUS
<1>1. PeerDomains' /\ Behind'
  BY PeerDomainsNext, BehindNext DEF ExchangeInv, HandInv
<1>2. PICK u, r \in [Party -> Int] : Exchange(u, r)
  BY DEF ExchangeInv
<1>3. \E w, v \in [Party -> Int] : Exchange(w, v)'
  <2>1. ASSUME NEW p \in Party, PartyThread(p) \/ PrepEnds(p),
               \A q \in Party \ {p} : UNCHANGED Local(q)
        PROVE  \E w, v \in [Party -> Int] : Exchange(w, v)'
    BY <1>2, <2>1, PartyExchange DEF ExchangeInv
  <2>2. ASSUME NEW p \in Party, VMStep(p), \A q \in Party \ {p} : UNCHANGED Local(q)
        PROVE  Exchange(u, r)'
    <3>1. UNCHANGED <<pc, peer>>
      <4>1. UNCHANGED vars
        BY <2>2, VMStepStutters
      <4>2. UNCHANGED peer
        BY <2>2 DEF VMStep, DoLocal, DoTriple, DoInput, DoOpen, DoStop, EndInput, EndOpen,
           EndCheck, VMTimeout
      <4>3. QED
        BY <4>1, <4>2 DEF vars, partyVars
    <3>2. Position(p, u[p], r[p])'
      BY <1>2, <2>2, VMPosition DEF Exchange, HandInv, AllCount
    <3>3. QED
      BY <1>2, <2>2, <3>1, <3>2, StillExchange
  <2>3. ASSUME SyncThread \/ UNCHANGED allVars, \A q \in Party : UNCHANGED Local(q)
        PROVE  Exchange(u, r)'
    <3>1. UNCHANGED <<pc, peer>>
      BY <2>3 DEF SyncThread, Sync, Send, SendFails, BroadcastEnds, Collect, CollectFails,
         Decide, partyVars, mpcVars, allVars, vars
    <3>2. \A q \in Party : Position(q, u[q], r[q])'
      BY <1>2, <2>3, PositionLocal DEF Exchange
    <3>3. \A a, b \in Party : Channel(a, b, u[b], r[a])'
      BY <1>2, <3>1, ChannelSame DEF Exchange
    <3>4. QED
      BY <3>2, <3>3 DEF Exchange
  <2>4. QED
    BY <1>2, <2>1, <2>2, <2>3, StepOf DEF HandInv
<1>4. QED
  BY <1>1, <1>3 DEF ExchangeInv

\* What is in the channels between parties is what has been sent and not yet
\* received of an instruction that the parties are at, or one of them is.
THEOREM ExchangeHolds == MpcSpec => []ExchangeInv
<1>1. MpcInit => AllCount /\ ExchangeInv
  BY InitCount, InitExchange
<1>2. TypeOK /\ HandInv /\ AllCount /\ [MpcNext]_allVars => AllCount'
  BY NextCount
<1>3. /\ TypeOK /\ IInv /\ LockstepInv' /\ HandInv /\ AllCount /\ ExchangeInv
      /\ [MpcNext]_allVars
      => ExchangeInv'
  BY NextExchange
<1>4. MpcSpec => []IInv
  BY MpcImplementsLockstep, Inductive, PTL
<1>5. QED
  BY <1>1, <1>2, <1>3, <1>4, HandshakeHolds, MpcImplementsLockstep, TypeCorrect, MpcInLockstep,
     PTL DEF MpcSpec

\* The message a party finds is the one it waits for (RightMessage), though no
\* message says what it belongs to: unwrap_elem, unwrap_com and unwrap_opening
\* never panic, whatever the program, however the threads are interleaved.
THEOREM MessagesAreRight == MpcSpec => []RightMessage
<1>1. IInv /\ HandInv /\ ExchangeInv => RightMessage
  <2> SUFFICES ASSUME IInv, HandInv, ExchangeInv, NEW p \in Party, ppc[p] = "busy",
                      NEW q \in Awaited(p) \cap Party, Arrived(p, q)
               PROVE  Unwraps(p, q) /\ Head(peer[p][q]).at = Now(p)
    BY DEF RightMessage
  <2>1. PICK u, r \in [Party -> Int] : Exchange(u, r)
    BY DEF ExchangeInv
  <2> DEFINE m == Head(peer[p][q])
             k == pc[p]
  <2>2. Fits(m, k, r[p])
    BY <2>1, Found DEF Arrived
  <2>3. Position(p, u[p], r[p]) /\ Handshake(p)
    BY <2>1 DEF Exchange, HandInv
  <2>4. k \in DOMAIN Code
    BY <2>3 DEF Handshake, PhaseInv
  <2> HIDE DEF m
  <2>5. CASE hpc[p] \in {"elems", "input"}
    <3>1. r[p] = Start(k) /\ todo[p] = <<>> /\ Op(p) \in Opening \cup {"Input"}
      BY <2>3, <2>5 DEF Position, Handshake, PhaseInv, CheckPhases
    <3>2. ~(Code[k].op \in Checking /\ r[p] <= Checks(k))
      BY <2>4, <3>1, StartFacts DEF Op, Opening, Checking
    <3>3. m.kind = "Elem" /\ m.at = <<k, 0>>
      BY <2>2, <3>2 DEF Fits
    <3>4. Now(p) = <<k, 0>> /\ Expected(p) = "Elem"
      BY <2>5, <3>1 DEF Now, Expected
    <3>5. QED
      BY <3>3, <3>4 DEF Unwraps, m
  <2>6. CASE hpc[p] \in {"coms", "opens"}
    <3>1. hpc[p] \in CheckPhases
      BY <2>6 DEF CheckPhases
    <3>2. Op(p) \in Checking /\ Len(todo[p]) \in Nat /\ 2 * Len(todo[p]) <= Checks(k)
      BY <2>3, <3>1, InCheck
    <3>3. /\ hpc[p] = "coms" => r[p] = 2 * Len(todo[p])
          /\ hpc[p] = "opens" => r[p] = 2 * Len(todo[p]) - 1
      BY <2>3 DEF Position
    <3>4. ~(Code[k].op # "Stop" /\ r[p] = Start(k))
      BY <2>4, <2>6, <3>2, <3>3, StartFacts DEF Op, Checking
    <3>5. PICK l \in Nat :
            /\ m.at = <<k, l>>
            /\ \/ m.kind = "Com" /\ r[p] = 2 * l
               \/ m.kind = "Opening" /\ r[p] = 2 * l - 1
      BY <2>2, <3>4 DEF Fits
    <3>6. /\ l = Len(todo[p])
          /\ hpc[p] = "coms" => m.kind = "Com"
          /\ hpc[p] = "opens" => m.kind = "Opening"
      BY <2>6, <3>2, <3>3, <3>5
    <3>7. QED
      BY <2>6, <3>5, <3>6 DEF Unwraps, Expected, Now, m
  <2>7. QED
    BY <2>5, <2>6 DEF Awaited
<1>2. QED
  BY <1>1, ExchangeHolds, HandshakeHolds, MpcImplementsLockstep, Inductive, PTL

\* A channel between parties never holds more than two messages (PeerBound),
\* so the five of create_party_chans are enough for any program.
THEOREM PeersBounded == MpcSpec => []PeerBound
<1>1. HandInv /\ MpcTypes /\ IInv /\ ExchangeInv => PeerBound
  <2> SUFFICES ASSUME HandInv, MpcTypes, IInv, ExchangeInv, NEW p \in Party, NEW q \in Party
               PROVE  Len(peer[p][q]) <= 2
    BY DEF PeerBound
  <2>1. PICK u, r \in [Party -> Int] : Exchange(u, r)
    BY DEF ExchangeInv
  <2>2. PICK k : k = Latest(p, q)
    OBVIOUS
  <2>3. CASE ~(q \in Peers(p) /\ Sends(q, k))
    <3>1. peer[p][q] = <<>>
      BY <2>1, <2>2, <2>3, ChannelNow DEF Exchange
    <3>2. QED
      BY <3>1
  <2>4. CASE q \in Peers(p) /\ Sends(q, k)
    <3> DEFINE e == Left(p, r[p], k)
               d == Left(q, u[q], k)
               ee == Left(q, r[q], k)
               dd == Left(p, u[p], k)
    <3>1. Len(peer[p][q]) = e - d
      BY <2>1, <2>2, <2>4, ChannelNow DEF Exchange, Carries
    <3>2. k \in DOMAIN Code /\ Start(k) \in Nat
      BY <2>4, StartFacts DEF Sends
    <3>3. pc[p] \in Nat /\ pc[q] \in Nat /\ k \in Nat /\ Latest(q, p) = k
          /\ pc[p] <= k /\ pc[q] <= k
      BY <2>2, Counts DEF Latest
    <3>4. \A s \in Party : u[s] \in Nat /\ r[s] \in Int /\ r[s] <= u[s] + 1
                           /\ (r[s] = 0 \/ r[s] <= Start(pc[s]))
      <4>1. ASSUME NEW s \in Party
            PROVE  u[s] \in Nat /\ r[s] \in Int /\ r[s] <= u[s] + 1
                           /\ (r[s] = 0 \/ r[s] <= Start(pc[s]))
        <5>1. Position(s, u[s], r[s]) /\ u[s] \in Int /\ r[s] \in Int
          BY <2>1 DEF Exchange
        <5>2. hpc[s] \in {"idle", "give", "action", "elems", "input",
                          "commit", "coms", "reveal", "opens"}
          BY DEF MpcTypes
        <5>3. QED
          BY <5>1, <5>2 DEF Position
      <4>2. QED
        BY <4>1
    <3>5. e <= dd + 1 /\ ee <= d + 1
          /\ e \in Int /\ d \in Nat /\ ee \in Int /\ dd \in Int
      BY <3>2, <3>4 DEF Left
    <3>6. CASE Sends(p, k)
      <4>1. p \in Peers(q)
        BY <2>4 DEF Peers
      <4>2. Carries(peer[q][p], k, ee, dd)
        BY <2>1, <3>3, <3>6, <4>1, ChannelNow DEF Exchange
      <4>3. Len(peer[q][p]) = ee - dd /\ Len(peer[q][p]) \in Nat
        BY <4>2, SeqIsSeq DEF Carries, IsSeq
      <4> HIDE DEF e, d, ee, dd
      <4>4. QED
        BY <3>1, <3>5, <4>3
    <3>7. CASE ~Sends(p, k)
      <4>1. Code[k].op = "Input"
        BY <3>2, <3>7 DEF Sends
      <4>2. Start(k) = 1
        BY <3>2, <4>1, StartFacts
      <4>3. e <= 1
        <5>1. CASE pc[p] < k
          BY <4>2, <5>1 DEF Left
        <5>2. CASE ~(pc[p] < k)
          <6>1. pc[p] = k /\ e = r[p]
            BY <3>3, <5>2 DEF Left
          <6>2. r[p] = 0 \/ r[p] <= Start(k)
            BY <3>4, <6>1
          <6>3. QED
            BY <4>2, <6>1, <6>2
        <5>3. QED
          BY <5>1, <5>2
      <4>4. QED
        BY <3>1, <3>5, <4>3
    <3>8. QED
      BY <3>6, <3>7
  <2>5. QED
    BY <2>3, <2>4
<1>2. MpcSpec => []MpcTypes
  <2>1. MpcInit => MpcTypes
    BY InitTypes
  <2>2. HandInv /\ MpcTypes /\ [MpcNext]_allVars => MpcTypes'
    BY NextTypes
  <2>3. QED
    BY <2>1, <2>2, HandshakeHolds, PTL DEF MpcSpec
<1>3. MpcSpec => []IInv
  BY MpcImplementsLockstep, Inductive, PTL
<1>4. QED
  BY <1>1, <1>2, <1>3, ExchangeHolds, HandshakeHolds, PTL
=============================================================================
