-------------------------- MODULE AgreementProofs ---------------------------
(***************************************************************************)
(* The parties agree on every value they open and on every verdict of a    *)
(* check, and the computation implements the ideal one of Computation, for *)
(* any number of parties and any program, when every party sends to itself *)
(* too (the wiring of integration_test.rs).  And what fails one: nothing   *)
(* but preprocessing that does not keep up, when program and preprocessing *)
(* suit each other and timeouts are timely.                                *)
(***************************************************************************)
EXTENDS MessageProofs, WellFoundedInduction

-----------------------------------------------------------------------------
(* Which opened values a check goes through, and in which order.           *)

\* The openings that instruction k finds unchecked, its own among them, and
\* the place of instruction i among those it is checked with.
Listed(k) == Pending(k - 1) \cup {i \in {k} : Code[i].op \in Opening}
Rank(i) == Cnt(i - 1) + 1

\* Instruction i is the one that check k is at when l are left.
Place(k, i, l) == i \in Listed(k) /\ 2 * (Rank(i) + l - 1) = Checks(k)

InOrder(k, list) ==
  \A j \in DOMAIN list : list[j].at \in Listed(k) /\ Rank(list[j].at) = j

OrderInv(p) ==
  /\ vpc[p] # "failed" => InOrder(pc[p], openings[p])
  /\ actChan[p] # <<>> /\ Head(actChan[p]).act = "Check" =>
       InOrder(pc[p], Head(actChan[p]).list)
  /\ \A j \in DOMAIN todo[p] : Place(pc[p], todo[p][j].at, Len(todo[p]) - j + 1)

AllOrder == \A p \in Party : OrderInv(p)

LEMMA PendingFinite ==
  ASSUME NEW k \in Nat PROVE IsFiniteSet(Pending(k)) /\ Cnt(k) \in Nat
<1>1. IsFiniteSet(1 .. k)
  BY FS_Interval
<1>2. Pending(k) \subseteq 1 .. k
  BY DEF Pending
<1>3. QED
  BY <1>1, <1>2, FS_Subset, FS_CardinalityType DEF Cnt

LEMMA RankGrows ==
  ASSUME NEW n \in Nat, NEW i \in Pending(n), NEW m \in i + 1 .. n + 1
  PROVE  Cnt(i - 1) < Cnt(m - 1)
<1>1. i \in 1 .. n /\ i - 1 \in Nat /\ m - 1 \in Nat /\ i <= m - 1 /\ m - 1 <= n
  BY DEF Pending
<1>2. i \in Pending(m - 1) /\ i \notin Pending(i - 1)
  BY <1>1 DEF Pending
<1>3. Pending(i - 1) \subseteq Pending(m - 1)
  <2> SUFFICES ASSUME NEW j \in Pending(i - 1) PROVE j \in Pending(m - 1)
    OBVIOUS
  <2>1. j \in 1 .. i - 1 /\ Code[j].op \in Opening /\ \A l \in j .. i - 1 : Code[l].op \notin Checking
    BY DEF Pending
  <2>2. \A l \in i .. n : Code[l].op \notin Checking
    BY DEF Pending
  <2>3. \A l \in j .. m - 1 : l \in j .. i - 1 \/ l \in i .. n
    BY <1>1, <2>1
  <2>4. QED
    BY <1>1, <2>1, <2>2, <2>3 DEF Pending
<1>4. Cardinality(Pending(i - 1)) <= Cardinality(Pending(m - 1))
      /\ Cardinality(Pending(i - 1)) # Cardinality(Pending(m - 1))
  BY <1>1, <1>2, <1>3, PendingFinite, FS_Subset
<1>5. Cnt(i - 1) \in Nat /\ Cnt(m - 1) \in Nat
  BY <1>1, PendingFinite
<1>6. QED
  BY <1>4, <1>5 DEF Cnt

LEMMA Ranks ==
  ASSUME NEW k \in DOMAIN Code
  PROVE  /\ \A i \in Listed(k) : /\ i \in DOMAIN Code /\ Code[i].op \in Opening /\ i <= k
                                 /\ Rank(i) \in Nat \ {0}
                                 /\ Code[k].op \in Checking => 2 * Rank(i) <= Checks(k)
         /\ \A i, j \in Listed(k) : Rank(i) = Rank(j) => i = j
         /\ Code[k].op \in Opening => k \in Listed(k)
         /\ Code[k].op \notin Checking => Listed(k) = Pending(k)
<1>1. k \in Nat \ {0} /\ k - 1 \in Nat /\ DOMAIN Code = 1 .. Len(Code) /\ k <= Len(Code)
      /\ Len(Code) \in Nat
  BY CodeFacts
<1>2. ASSUME NEW i \in Listed(k)
      PROVE  /\ i \in DOMAIN Code /\ Code[i].op \in Opening /\ i \in Nat \ {0} /\ i <= k
             /\ i \in Pending(k - 1) \/ i = k
             /\ i # k => i \in Pending(k - 1)
  BY <1>1 DEF Listed, Pending
<1>3. ASSUME NEW i \in Listed(k)
      PROVE  Rank(i) \in Nat \ {0} /\ Cnt(i - 1) \in Nat
  <2>1. i - 1 \in Nat
    BY <1>2
  <2>2. QED
    BY <2>1, PendingFinite DEF Rank
<1>4. ASSUME NEW i \in Listed(k), NEW j \in Listed(k), i < j
      PROVE  Rank(i) < Rank(j)
  <2>1. i \in Pending(k - 1) /\ j \in i + 1 .. k - 1 + 1 /\ k - 1 \in Nat
    BY <1>1, <1>2, <1>4
  <2>2. Cnt(i - 1) < Cnt(j - 1)
    BY <2>1, RankGrows
  <2>3. QED
    BY <1>3, <2>2 DEF Rank
<1>5. ASSUME NEW i \in Listed(k), NEW j \in Listed(k), Rank(i) = Rank(j)
      PROVE  i = j
  BY <1>2, <1>3, <1>4, <1>5
<1>6. ASSUME NEW i \in Listed(k), Code[k].op \in Checking
      PROVE  2 * Rank(i) <= Checks(k)
  <2>1. Cnt(k - 1) \in Nat
    BY <1>1, PendingFinite
  <2>2. CASE i \in Pending(k - 1)
    <3>1. k \in i + 1 .. k - 1 + 1
      BY <1>1, <2>2 DEF Pending
    <3>2. Cnt(i - 1) < Cnt(k - 1)
      BY <1>1, <2>2, <3>1, RankGrows
    <3>3. Rank(i) <= Cnt(k - 1) /\ Rank(i) \in Nat
      BY <1>3, <2>1, <3>2 DEF Rank
    <3>4. Checks(k) = 2 * Cnt(k - 1) \/ Checks(k) = 2 * (Cnt(k - 1) + 1)
      BY <1>6, StartFacts DEF Checking
    <3>5. QED
      BY <2>1, <3>3, <3>4
  <2>3. CASE i = k
    <3>1. Code[k].op = "SOutput"
      BY <1>2, <1>6, <2>3 DEF Opening, Checking
    <3>2. QED
      BY <2>1, <2>3, <3>1, StartFacts DEF Rank
  <2>4. QED
    BY <1>2, <2>2, <2>3
<1>7. Code[k].op \in Opening => k \in Listed(k)
  BY DEF Listed
<1>8. ASSUME Code[k].op \notin Checking PROVE Listed(k) = Pending(k)
  <2>1. /\ 1 .. k = (1 .. k - 1) \cup {k} /\ k \notin 1 .. k - 1
        /\ \A i \in 1 .. k - 1 : i .. k = (i .. k - 1) \cup {k}
        /\ k .. k = {k}
    BY <1>1
  <2>2. QED
    BY <1>8, <2>1 DEF Listed, Pending
<1>9. QED
  BY <1>2, <1>3, <1>5, <1>6, <1>7, <1>8

LEMMA OrderLocal ==
  ASSUME NEW q \in Party, OrderInv(q), UNCHANGED Local(q) PROVE OrderInv(q)'
<1>1. UNCHANGED <<pc[q], vpc[q], openings[q], actChan[q], todo[q]>>
  BY DEF Local
<1>2. QED
  BY <1>1 DEF OrderInv, InOrder, Place, Listed, Rank, Cnt, Pending, Checks, Start

LEMMA NoOrder == ASSUME NEW k PROVE InOrder(k, <<>>)
  BY EmptyIsSeq DEF InOrder

LEMMA AskOrder ==
  ASSUME NEW p \in Party, Domains, NEW action, NEW at, Ask(p, action, at),
         actChan[p] = <<>>, todo[p] = <<>>, UNCHANGED <<pc[p], todo[p]>>,
         InOrder(pc[p], openings'[p]),
         action.act = "Check" => action.list = openings'[p]
  PROVE  OrderInv(p)'
<1>1. actChan'[p] = <<>> \/ actChan'[p] = <<action>>
  BY OneElement DEF Ask, VMFails, Domains
<1>2. actChan'[p] # <<>> => Head(actChan'[p]) = action
  BY <1>1, OneElement
<1>3. DOMAIN todo'[p] = {}
  BY EmptyIsSeq
<1>4. InOrder(pc'[p], openings'[p])
  BY Zenon
<1>5. actChan'[p] # <<>> /\ Head(actChan'[p]).act = "Check" =>
        InOrder(pc'[p], Head(actChan'[p]).list)
  BY <1>2, <1>4
<1>6. QED
  BY <1>3, <1>4, <1>5 DEF OrderInv, InOrder, Listed, Rank, Cnt, Pending

LEMMA FailOrder ==
  ASSUME NEW p \in Party, Domains, OrderInv(p), vpc'[p] = "failed",
         UNCHANGED <<pc[p], actChan[p], todo[p]>>
  PROVE  OrderInv(p)'
  BY DEF OrderInv, InOrder, Place, Listed, Rank, Cnt, Pending, Checks, Start

LEMMA VMOrder ==
  ASSUME NEW p \in Party, Domains, Handshake(p), CountInv(p), OrderInv(p), VMStep(p)
  PROVE  OrderInv(p)'
<1> USE DEF prepVars, handVars, histVars, vars, partyVars
<1>1. ASSUME NEW ops, Take(p, ops)
      PROVE  actChan[p] = <<>> /\ todo[p] = <<>> /\ InOrder(pc[p], openings[p])
  BY <1>1, Taken DEF OrderInv
<1>2. ASSUME resp[p] # <<>>
      PROVE  /\ actChan[p] = <<>> /\ todo[p] = <<>> /\ pc[p] \in DOMAIN Code
             /\ vpc[p] # "failed" => InOrder(pc[p], openings[p])
  BY <1>2, Answered DEF OrderInv
<1>3. ASSUME NEW e, VMFails(p, e), UNCHANGED <<pc[p], todo[p]>> PROVE OrderInv(p)'
  BY <1>3, FailOrder DEF VMFails, Domains
<1>4. CASE DoLocal(p) \/ DoTriple(p) \/ DoInput(p) \/ DoOpen(p) \/ DoStop(p)
  <2>1. /\ \E ops : Take(p, ops)
        /\ UNCHANGED <<pc[p], todo[p], openings[p]>>
        /\ \/ \E e : VMFails(p, e)
           \/ \E action, at : /\ Ask(p, action, at)
                              /\ action.act = "Check" => action.list = openings[p]
    BY <1>4 DEF DoLocal, DoTriple, DoInput, DoOpen, DoStop, Done
  <2>2. QED
    BY <1>1, <1>3, <2>1, AskOrder
<1>5. CASE EndInput(p)
  <2>1. /\ UNCHANGED <<pc[p], todo[p], openings[p]>> /\ resp[p] # <<>> /\ vpc[p] = "input"
        /\ Ask(p, [act |-> "Next"], "idle")
    BY <1>5 DEF EndInput, Done
  <2>2. QED
    BY <1>2, <2>1, AskOrder
<1>6. CASE EndOpen(p)
  <2> DEFINE o == [at |-> pc[p], x |-> Head(resp[p]), share |-> Operand(p)]
             os == openings[p]
  <2>1. /\ UNCHANGED <<pc[p], todo[p]>> /\ resp[p] # <<>> /\ vpc[p] = "open"
        /\ openings'[p] = Append(os, o) /\ IsSeq(os) /\ Op(p) \in Opening
        /\ \/ Ask(p, [act |-> "Check", list |-> openings'[p]], "check")
           \/ Ask(p, [act |-> "Next"], "idle")
    BY <1>6 DEF EndOpen, Done, Domains, Handshake, ListInv, VMInv
  <2>2. o.at = pc[p]
    OBVIOUS
  <2> HIDE DEF o, os
  <2>3. InOrder(pc[p], Append(os, o))
    <3>1. /\ DOMAIN os = 1 .. Len(os) /\ Len(os) \in Nat
          /\ DOMAIN Append(os, o) = 1 .. Len(os) + 1
          /\ \A i \in DOMAIN os : Append(os, o)[i] = os[i]
          /\ Append(os, o)[Len(os) + 1] = o
      BY <2>1, Appended
    <3>2. InOrder(pc[p], os)
      BY <1>2, <2>1 DEF os
    <3>3. pc[p] \in Listed(pc[p]) /\ Rank(pc[p]) = Len(os) + 1
      BY <1>2, <2>1, Ranks DEF CountInv, Rank, Op, os
    <3> DEFINE n == Append(os, o)
    <3> HIDE DEF n
    <3>4. ASSUME NEW j \in DOMAIN n PROVE n[j].at \in Listed(pc[p]) /\ Rank(n[j].at) = j
      <4>1. CASE j \in DOMAIN os
        BY <3>1, <3>2, <4>1 DEF InOrder, n
      <4>2. CASE j = Len(os) + 1
        BY <2>2, <3>1, <3>3, <4>2 DEF n
      <4>3. QED
        BY <3>1, <4>1, <4>2 DEF n
    <3>5. QED
      BY <3>4 DEF InOrder, n
  <2>4. InOrder(pc[p], openings'[p])
    BY <2>1, <2>3
  <2>5. CASE Ask(p, [act |-> "Check", list |-> openings'[p]], "check")
    BY <1>2, <2>1, <2>4, <2>5, AskOrder
  <2>6. CASE Ask(p, [act |-> "Next"], "idle")
    BY <1>2, <2>1, <2>4, <2>6, AskOrder
  <2>7. QED
    BY <2>1, <2>5, <2>6
<1>7. CASE EndCheck(p)
  <2>1. UNCHANGED <<pc[p], todo[p]>> /\ resp[p] # <<>>
    BY <1>7 DEF EndCheck
  <2>2. CASE Head(resp[p]) = "Ok"
    <3>1. openings'[p] = <<>> /\ \E at : Ask(p, [act |-> "Next"], at)
      BY <1>7, <2>2 DEF EndCheck, Done, Domains
    <3>2. InOrder(pc[p], openings'[p])
      BY <3>1, NoOrder
    <3>3. QED
      BY <1>2, <2>1, <3>1, <3>2, AskOrder
  <2>3. CASE Head(resp[p]) # "Ok"
    BY <1>3, <1>7, <2>1, <2>3 DEF EndCheck
  <2>4. QED
    BY <2>2, <2>3
<1>8. CASE VMTimeout(p)
  BY <1>3, <1>8 DEF VMTimeout
<1>9. QED
  BY <1>4, <1>5, <1>6, <1>7, <1>8 DEF VMStep

LEMMA PartyOrder ==
  ASSUME TypeOK, HandInv, NEW p \in Party, CountInv(p), OrderInv(p), PartyThread(p) \/ PrepEnds(p)
  PROVE  OrderInv(p)'
<1> USE DEF prepVars, handVars, histVars, vars, partyVars, vmVars, linkVars
<1>1. UNCHANGED <<openings[p], vpc[p]>> /\ Handshake(p) /\ Domains
  BY DEF PartyThread, Listen, Forward, ForwardFails, PrepEnds, HandlerFails, Fails, mpcVars,
         GiveInstruction, OnNext, OnOpen, OnInput, OnCheck, TakeAction, HandInv,
         EndElems, EndInputElem, Commit, EndComs, Reveal, EndOpens
<1>2. ASSUME UNCHANGED pc[p], actChan'[p] \in {actChan[p], <<>>},
             \A j \in DOMAIN todo'[p] : Place(pc[p], todo'[p][j].at, Len(todo'[p]) - j + 1)
      PROVE  OrderInv(p)'
  BY <1>1, <1>2 DEF OrderInv, InOrder, Place, Listed, Rank, Cnt, Pending, Checks, Start
<1>3. ASSUME UNCHANGED <<pc[p], todo[p]>>, actChan'[p] \in {actChan[p], <<>>}
      PROVE  OrderInv(p)'
  BY <1>2, <1>3 DEF OrderInv
<1>4. ASSUME NEW act, TakeAction(p, act)
      PROVE  actChan'[p] = <<>> /\ actChan[p] # <<>> /\ Head(actChan[p]).act = act
             /\ hpc[p] = "action"
  <2>1. actChan[p] # <<>> /\ hpc[p] = "action" /\ Head(actChan[p]).act = act
        /\ actChan'[p] = Tail(actChan[p])
    BY <1>1, <1>4 DEF TakeAction, At, Domains
  <2>2. actChan[p] = <<Head(actChan[p])>>
    BY <1>1, <2>1 DEF Handshake, LinkInv
  <2>3. Tail(actChan[p]) = <<>>
    BY <2>2, OneElement
  <2>4. QED
    BY <2>1, <2>3
<1>5. CASE Fetch(p) /\ Fetches(p) /\ Listen(p)
  <2>1. /\ ppc[p] = "running" /\ pc'[p] = pc[p] + 1 /\ pc[p] \in Nat /\ pc[p] <= Len(prog[p])
    BY <1>5 DEF Fetch, Fetches, TypeOK
  <2>2. actChan'[p] = actChan[p] /\ todo'[p] = todo[p]
    BY <1>1, <1>5, <2>1 DEF Listen, AwaitStart, SyncLost, Join, Domains
  <2>3. hpc[p] = "idle" /\ vpc[p] \in {"idle", "failed"} /\ actChan[p] = <<>> /\ todo[p] = <<>>
    BY <1>1, <2>1 DEF Handshake, PhaseInv, VMInv, LinkInv, CheckPhases
  <2>4. DOMAIN todo'[p] = {}
    BY <2>2, <2>3, EmptyIsSeq
  <2>5. vpc[p] = "idle" => InOrder(pc[p] + 1, openings[p])
    <3>1. HAVE vpc[p] = "idle"
    <3>2. Len(openings[p]) = Cnt(pc[p]) /\ InOrder(pc[p], openings[p]) /\ IsSeq(openings[p])
      BY <1>1, <2>3, <3>1 DEF CountInv, Complete, OrderInv, Handshake, ListInv
    <3>3. pc[p] = 0 \/ pc[p] \in DOMAIN Code
      BY <2>1, CodeFacts DEF HandInv
    <3>4. CASE pc[p] = 0 \/ (pc[p] \in DOMAIN Code /\ Op(p) \in Checking)
      <4>1. Len(openings[p]) = 0
        BY <3>2, <3>4, CntFacts DEF Op
      <4>2. openings[p] = <<>>
        BY <3>2, <4>1, EmptySeq DEF IsSeq
      <4>3. QED
        BY <4>2, NoOrder
    <3>5. CASE pc[p] \in DOMAIN Code /\ Op(p) \notin Checking
      <4>1. Listed(pc[p]) = Pending(pc[p])
        BY <3>5, Ranks DEF Op
      <4>2. Pending(pc[p]) \subseteq Listed(pc[p] + 1)
        <5>1. \A k : pc[p] = k - 1 => Pending(pc[p]) \subseteq Listed(k)
          BY DEF Listed
        <5>2. QED
          BY <2>1, <5>1
      <4>3. QED
        BY <3>2, <4>1, <4>2 DEF InOrder
    <3>6. QED
      BY <3>3, <3>4, <3>5
  <2>6. vpc'[p] # "failed" => InOrder(pc'[p], openings'[p])
    BY <1>1, <2>1, <2>3, <2>5
  <2>7. QED
    BY <2>2, <2>3, <2>4, <2>6 DEF OrderInv, InOrder, Listed, Rank, Cnt, Pending
<1>6. CASE (Listen(p) /\ ~(Fetch(p) /\ Fetches(p))) \/ Forward(p) \/ ForwardFails(p)
           \/ PrepEnds(p) \/ HandlerFails(p)
  <2>1. UNCHANGED <<pc[p], todo[p], actChan[p]>>
    BY <1>6 DEF Listen, AwaitStart, Fetch, SyncLost, Join, Fails, mpcVars, TypeOK,
       Forward, ForwardFails, PrepEnds, HandlerFails, PrepFails, BusyFails
  <2>2. QED
    BY <1>3, <2>1
<1>7. CASE \/ GiveInstruction(p) \/ EndElems(p) \/ EndInputElem(p)
           \/ Commit(p) \/ EndComs(p) \/ Reveal(p)
  <2>1. UNCHANGED <<pc[p], todo[p], actChan[p]>>
    BY <1>7 DEF GiveInstruction, EndElems, EndInputElem, Commit, EndComs, Reveal
  <2>2. QED
    BY <1>3, <2>1
<1>8. CASE OnNext(p) \/ OnOpen(p) \/ OnInput(p)
  <2>1. UNCHANGED <<pc[p], todo[p]>> /\ \E act : TakeAction(p, act)
    BY <1>8 DEF OnNext, OnOpen, OnInput, Reply
  <2>2. QED
    BY <1>3, <1>4, <2>1
<1>9. CASE OnCheck(p)
  <2> DEFINE list == Head(actChan[p]).list
  <2>1. UNCHANGED pc[p] /\ TakeAction(p, "Check") /\ todo'[p] = list
    BY <1>1, <1>9 DEF OnCheck, Domains
  <2>2. /\ actChan'[p] = <<>> /\ 2 * Len(list) = Checks(pc[p]) /\ InOrder(pc[p], list)
        /\ IsSeq(list) /\ pc[p] \in DOMAIN Code
    BY <1>1, <1>4, <2>1 DEF CountInv, OrderInv, Handshake, LinkInv, ActionFits, ListInv, PhaseInv
  <2> HIDE DEF list
  <2>3. ASSUME NEW j \in DOMAIN list
        PROVE  Place(pc[p], list[j].at, Len(list) - j + 1)
    <3>1. DOMAIN list = 1 .. Len(list) /\ Len(list) \in Nat
      BY <2>2, SeqIsSeq DEF IsSeq
    <3>2. list[j].at \in Listed(pc[p]) /\ Rank(list[j].at) = j
      BY <2>2 DEF InOrder
    <3>3. Rank(list[j].at) + (Len(list) - j + 1) - 1 = Len(list)
      BY <3>1, <3>2
    <3>4. QED
      BY <2>2, <3>2, <3>3 DEF Place
  <2>4. QED
    BY <1>2, <2>1, <2>2, <2>3
<1>10. CASE EndOpens(p)
  <2>1. UNCHANGED <<pc[p], actChan[p]>>
    BY <1>10 DEF EndOpens
  <2>2. CASE todo'[p] = <<>>
    <3>1. DOMAIN todo'[p] = {}
      BY <2>2, EmptyIsSeq
    <3>2. QED
      BY <1>2, <2>1, <3>1
  <2>3. CASE todo'[p] = Tail(todo[p]) /\ Len(todo[p]) > 1
    <3> DEFINE t == todo[p]
               n == Tail(t)
    <3>1. IsSeq(t) /\ t # <<>>
      BY <1>1, <1>10 DEF EndOpens, At, Handshake, ListInv, PhaseInv, CheckPhases
    <3>2. /\ Len(t) \in Nat \ {0} /\ Len(n) = Len(t) - 1
          /\ DOMAIN t = 1 .. Len(t) /\ DOMAIN n = 1 .. Len(t) - 1
          /\ \A i \in 1 .. Len(t) - 1 : n[i] = t[i + 1]
      BY <3>1, Shortened
    <3> HIDE DEF n
    <3>3. ASSUME NEW j \in DOMAIN n
          PROVE  Place(pc[p], n[j].at, Len(n) - j + 1)
      <4>1. j + 1 \in DOMAIN t /\ n[j] = t[j + 1] /\ Len(n) - j + 1 = Len(t) - (j + 1) + 1
        BY <3>2
      <4>2. Place(pc[p], t[j + 1].at, Len(t) - (j + 1) + 1)
        BY <4>1 DEF OrderInv
      <4>3. QED
        BY <4>1, <4>2, Zenon
    <3>4. QED
      BY <1>2, <2>1, <2>3, <3>3 DEF n
  <2>4. QED
    BY <1>1, <1>10, <2>2, <2>3 DEF EndOpens, Domains
<1>11. QED
  BY <1>5, <1>6, <1>7, <1>8, <1>9, <1>10 DEF PartyThread

LEMMA InitOrder == MpcInit => AllOrder
<1> SUFFICES ASSUME MpcInit, NEW p \in Party PROVE OrderInv(p)
  BY DEF AllOrder
<1>1. openings[p] = <<>> /\ actChan[p] = <<>> /\ todo[p] = <<>>
  BY DEF MpcInit
<1>2. QED
  BY <1>1, NoOrder, EmptyIsSeq DEF OrderInv

LEMMA NextOrder ==
  TypeOK /\ HandInv /\ AllCount /\ AllOrder /\ [MpcNext]_allVars => AllOrder'
<1> SUFFICES ASSUME TypeOK, HandInv, AllCount, AllOrder, [MpcNext]_allVars, NEW q \in Party
             PROVE  OrderInv(q)'
  BY DEF AllOrder
<1>1. CASE UNCHANGED Local(q)
  BY <1>1, OrderLocal DEF AllOrder
<1>2. CASE VMStep(q) \/ PartyThread(q) \/ PrepEnds(q)
  BY <1>2, VMOrder, PartyOrder DEF AllOrder, AllCount, HandInv
<1>3. QED
  BY <1>1, <1>2, StepOf DEF HandInv

-----------------------------------------------------------------------------
(* The values the parties open and check.  s[p][i] is the share that party *)
(* p has sent for instruction i, {} if it has not sent one.                *)

Sum(s, i) == [q \in Party |-> s[q][i]]
Known(s, i) == \A q \in Party : s[q][i] # {}
Agreed(s, i) == \A q, r \in Party : s[q][i] = s[r][i]
Passed(s, i) == Known(s, i) /\ Agreed(s, i)

\* What p knows of the value that instruction i has opened.
Of(s, p, i) == [x |-> Sum(s, i), share |-> s[p][i]]

Recorded(s, p, e) ==
  /\ e.at \in DOMAIN Code /\ Code[e.at].op \in Opening /\ Known(s, e.at)
  /\ e.x = Sum(s, e.at) /\ e.share = s[p][e.at]

RecordInv(s, p) ==
  /\ \A j \in DOMAIN openings[p] : Recorded(s, p, openings[p][j])
  /\ \A j \in DOMAIN todo[p] : Recorded(s, p, todo[p][j])

\* The party has not sent the share that its instruction opens.
Unsent(p) == \/ hpc[p] = "give" \/ instChan[p] # <<>>
             \/ actChan[p] # <<>> /\ Head(actChan[p]).act = "Open"

SentInv(s, p) ==
  /\ \A i \in DOMAIN Code : s[p][i] # {} => i < pc[p] \/ (i = pc[p] /\ ~Unsent(p))
  /\ actChan[p] # <<>> /\ Head(actChan[p]).act = "Open" =>
       /\ Head(actChan[p]).share # {}
       /\ vpc[p] = "open" => Head(actChan[p]).share = Operand(p)
  /\ vpc[p] = "open" /\ ~Unsent(p) => s[p][pc[p]] # {} /\ Operand(p) = s[p][pc[p]]
  /\ vpc[p] = "open" /\ resp[p] # <<>> =>
       Known(s, pc[p]) /\ Head(resp[p]) = Sum(s, pc[p])

\* A check of instruction k can fail: shares of different sharings were used.
Broken(s, k) == \E i \in Listed(k) : Known(s, i) /\ ~Agreed(s, i)
Sound(s, k) == \A i \in Listed(k) : Passed(s, i)

CheckInv(s, p) ==
  /\ \A v \in verified[p] :
       /\ v.at \in DOMAIN Code /\ Code[v.at].op \in Opening
       /\ v.x = Sum(s, v.at) /\ Passed(s, v.at)
       /\ v.by \in DOMAIN Code /\ v.at <= v.by /\ v.by <= pc[p] /\ Sound(s, v.by)
  /\ vpc[p] = "check" /\ resp[p] # <<>> =>
       /\ Head(resp[p]) # "BadCommitment"
       /\ Head(resp[p]) = "Ok" => Sound(s, pc[p])
       /\ Head(resp[p]) = "SumIsNotZero" => Broken(s, pc[p])
  /\ hpc[p] \in CheckPhases => \A i \in Listed(pc[p]) :
       2 * (Rank(i) + Len(todo[p]) - 1) < Checks(pc[p]) => Passed(s, i)
  /\ hpc[p] \in {"reveal", "opens"} =>
       coms[p] = [q \in Party |-> Commitment(Of(s, q, Head(todo[p]).at))]
  /\ vmErr[p] # "BadCommitment"
  /\ vmErr[p] = "SumIsNotZero" =>
       /\ vpc[p] = "failed" /\ hpc[p] = "action" /\ actChan[p] = <<>>
       /\ pc[p] \in DOMAIN Code /\ Broken(s, pc[p])

\* What a message from q says of the values.
Good(s, q, m) ==
  /\ m.kind = "Elem" /\ Code[m.at[1]].op \in Opening =>
       m.val = s[q][m.at[1]] /\ m.val # {} /\ m.at[1] \in DOMAIN Code
  /\ m.kind = "Com" => \A i \in DOMAIN Code : Place(m.at[1], i, m.at[2]) =>
       Known(s, i) /\ m.val = Commitment(Of(s, q, i))
  /\ m.kind = "Opening" => \A i \in DOMAIN Code : Place(m.at[1], i, m.at[2]) =>
       Known(s, i) /\ m.val = Of(s, q, i)

ChannelGood(s, p, q) ==
  IsSeq(peer[p][q]) /\ \A j \in DOMAIN peer[p][q] : Good(s, q, peer[p][q][j])

Consistent(s) ==
  /\ \A p \in Party : RecordInv(s, p) /\ SentInv(s, p) /\ CheckInv(s, p)
  /\ \A p, q \in Party : ChannelGood(s, p, q)

ValuesInv == \E s : Consistent(s)

Own(p) == <<Local(p), secret[p], coms[p]>>

\* A share that has been sent is never sent again.
Grows(s, t) ==
  \A q \in Party : \A i \in DOMAIN Code : s[q][i] # {} => t[q][i] = s[q][i]

LEMMA Grown ==
  ASSUME NEW s, NEW t, Grows(s, t), NEW i \in DOMAIN Code, Known(s, i)
  PROVE  /\ Known(t, i) /\ Sum(t, i) = Sum(s, i) /\ Agreed(t, i) = Agreed(s, i)
         /\ \A q \in Party : Of(t, q, i) = Of(s, q, i) /\ t[q][i] = s[q][i]
<1>1. \A q \in Party : t[q][i] = s[q][i] /\ t[q][i] # {}
  BY DEF Grows, Known
<1>2. Sum(t, i) = Sum(s, i)
  BY <1>1 DEF Sum
<1>3. QED
  BY <1>1, <1>2 DEF Known, Agreed, Of

LEMMA RecordGrows ==
  ASSUME NEW s, NEW t, Grows(s, t), NEW p \in Party, RecordInv(s, p)
  PROVE  RecordInv(t, p)
<1>1. ASSUME NEW e, Recorded(s, p, e) PROVE Recorded(t, p, e)
  BY <1>1, Grown DEF Recorded
<1>2. QED
  BY <1>1 DEF RecordInv

LEMMA SentGrows ==
  ASSUME NEW s, NEW t, Grows(s, t), NEW p \in Party, SentInv(s, p), Handshake(p),
         \A i \in DOMAIN Code : t[p][i] = s[p][i]
  PROVE  SentInv(t, p)
<1>1. vpc[p] = "open" => pc[p] \in DOMAIN Code
  BY DEF Handshake, VMInv, PhaseInv
<1>2. vpc[p] = "open" /\ resp[p] # <<>> =>
        Known(t, pc[p]) /\ Head(resp[p]) = Sum(t, pc[p])
  BY <1>1, Grown DEF SentInv
<1>3. QED
  BY <1>1, <1>2 DEF SentInv

LEMMA VerdictGrows ==
  ASSUME NEW s, NEW t, Grows(s, t), NEW p \in Party, CheckInv(s, p), RecordInv(s, p),
         Handshake(p)
  PROVE  CheckInv(t, p)
<1>1. ASSUME NEW i \in DOMAIN Code
      PROVE  /\ Passed(s, i) => Passed(t, i)
             /\ Known(s, i) /\ ~Agreed(s, i) => Known(t, i) /\ ~Agreed(t, i)
  BY Grown DEF Passed
<1>2. ASSUME NEW k \in DOMAIN Code
      PROVE  /\ Sound(s, k) => Sound(t, k)
             /\ Broken(s, k) => Broken(t, k)
  <2>1. Listed(k) \subseteq DOMAIN Code
    BY Ranks
  <2>2. QED
    BY <1>1, <2>1 DEF Sound, Broken
<1>3. ASSUME NEW v \in verified[p]
      PROVE  /\ v.at \in DOMAIN Code /\ Code[v.at].op \in Opening
             /\ v.x = Sum(t, v.at) /\ Passed(t, v.at)
             /\ v.by \in DOMAIN Code /\ v.at <= v.by /\ v.by <= pc[p] /\ Sound(t, v.by)
  BY <1>1, <1>2, Grown DEF CheckInv, Passed
<1>4. vpc[p] = "check" /\ resp[p] # <<>> =>
       /\ Head(resp[p]) # "BadCommitment"
       /\ Head(resp[p]) = "Ok" => Sound(t, pc[p])
       /\ Head(resp[p]) = "SumIsNotZero" => Broken(t, pc[p])
  <2>1. vpc[p] = "check" /\ resp[p] # <<>> => pc[p] \in DOMAIN Code
    BY DEF Handshake, LinkInv, PhaseInv
  <2>2. QED
    BY <1>2, <2>1 DEF CheckInv
<1>5. ASSUME hpc[p] \in CheckPhases
      PROVE  /\ pc[p] \in DOMAIN Code /\ todo[p] # <<>> /\ IsSeq(todo[p])
             /\ Known(s, Head(todo[p]).at) /\ Head(todo[p]).at \in DOMAIN Code
  <2>1. pc[p] \in DOMAIN Code /\ todo[p] # <<>> /\ IsSeq(todo[p])
    BY <1>5 DEF Handshake, PhaseInv, ListInv, CheckPhases
  <2>2. 1 \in DOMAIN todo[p] /\ Head(todo[p]) = todo[p][1]
    BY <2>1, Shortened
  <2>3. QED
    BY <2>1, <2>2 DEF RecordInv, Recorded
<1>6. hpc[p] \in CheckPhases => \A i \in Listed(pc[p]) :
        2 * (Rank(i) + Len(todo[p]) - 1) < Checks(pc[p]) => Passed(t, i)
  <2>1. HAVE hpc[p] \in CheckPhases
  <2>2. Listed(pc[p]) \subseteq DOMAIN Code
    BY <1>5, <2>1, Ranks
  <2>3. QED
    BY <1>1, <2>1, <2>2 DEF CheckInv
<1>7. hpc[p] \in {"reveal", "opens"} =>
        coms[p] = [q \in Party |-> Commitment(Of(t, q, Head(todo[p]).at))]
  <2>1. HAVE hpc[p] \in {"reveal", "opens"}
  <2>2. hpc[p] \in CheckPhases
    BY <2>1 DEF CheckPhases
  <2>3. \A q \in Party : Of(t, q, Head(todo[p]).at) = Of(s, q, Head(todo[p]).at)
    BY <1>5, <2>2, Grown
  <2>4. QED
    BY <2>1, <2>3 DEF CheckInv
<1>8. QED
  BY <1>2, <1>3, <1>4, <1>6, <1>7 DEF CheckInv

LEMMA GoodGrows ==
  ASSUME NEW s, NEW t, Grows(s, t), NEW q \in Party, NEW m, Good(s, q, m)
  PROVE  Good(t, q, m)
<1>1. \A i \in DOMAIN Code : Known(s, i) => Known(t, i) /\ Of(t, q, i) = Of(s, q, i)
  BY Grown
<1>2. m.kind = "Elem" /\ Code[m.at[1]].op \in Opening =>
        m.val = t[q][m.at[1]] /\ m.val # {} /\ m.at[1] \in DOMAIN Code
  BY DEF Good, Grows
<1>3. QED
  BY <1>1, <1>2 DEF Good

LEMMA ValuesLocal ==
  ASSUME NEW s, NEW q \in Party, UNCHANGED Own(q)
  PROVE  /\ RecordInv(s, q) => RecordInv(s, q)'
         /\ SentInv(s, q) => SentInv(s, q)'
         /\ CheckInv(s, q) => CheckInv(s, q)'
<1>1. UNCHANGED <<pc[q], vpc[q], openings[q], vmErr[q], instChan[q], actChan[q], resp[q],
                  hpc[q], todo[q], verified[q], secret[q], coms[q]>>
  BY DEF Own, Local
<1>2. RecordInv(s, q) => RecordInv(s, q)'
  BY <1>1 DEF RecordInv, Recorded, Known, Sum
<1>3. SentInv(s, q) => SentInv(s, q)'
  BY <1>1 DEF SentInv, Unsent, Known, Sum, Operand
<1>4. CheckInv(s, q) => CheckInv(s, q)'
  <2>1. /\ Listed(pc[q])' = Listed(pc[q]) /\ Checks(pc[q])' = Checks(pc[q])
        /\ Sound(s, pc[q])' = Sound(s, pc[q]) /\ Broken(s, pc[q])' = Broken(s, pc[q])
    BY <1>1 DEF Sound, Broken, Listed, Cnt, Pending, Checks, Start
  <2>2. QED
    BY <1>1, <2>1 DEF CheckInv
<1>5. QED
  BY <1>2, <1>3, <1>4

-----------------------------------------------------------------------------
(* The steps of a virtual machine send no share.                           *)

LEMMA VMRecord ==
  ASSUME Domains, NEW s, NEW p \in Party, Handshake(p), RecordInv(s, p), SentInv(s, p),
         VMStep(p)
  PROVE  RecordInv(s, p)'
<1> USE DEF prepVars, handVars, histVars, vars, partyVars
<1>1. UNCHANGED todo[p]
  BY DEF VMStep, DoLocal, DoTriple, DoInput, DoOpen, DoStop, EndInput, EndOpen, EndCheck, VMTimeout
<1>2. ASSUME \A j \in DOMAIN openings'[p] : Recorded(s, p, openings'[p][j])
      PROVE  RecordInv(s, p)'
  BY <1>1, <1>2 DEF RecordInv, Recorded, Known, Sum
<1>3. CASE openings'[p] = openings[p]
  BY <1>2, <1>3 DEF RecordInv
<1>4. CASE openings'[p] = <<>>
  BY <1>2, <1>4, EmptyIsSeq
<1>5. CASE EndOpen(p)
  <2> DEFINE o == [at |-> pc[p], x |-> Head(resp[p]), share |-> Operand(p)]
             os == openings[p]
             n == Append(os, o)
  <2>1. /\ resp[p] # <<>> /\ vpc[p] = "open" /\ openings'[p] = n
        /\ IsSeq(os) /\ Code[pc[p]].op \in Opening
    BY <1>5 DEF EndOpen, Domains, Handshake, ListInv, VMInv, Op
  <2>2. hpc[p] = "action" /\ instChan[p] = <<>> /\ actChan[p] = <<>> /\ pc[p] \in DOMAIN Code
    BY <2>1, Answered
  <2>3. Recorded(s, p, o)
    BY <2>1, <2>2 DEF SentInv, Unsent, Recorded
  <2> HIDE DEF o
  <2>4. /\ DOMAIN os = 1 .. Len(os) /\ Len(os) \in Nat
        /\ DOMAIN n = 1 .. Len(os) + 1
        /\ \A i \in DOMAIN os : n[i] = os[i]
        /\ n[Len(os) + 1] = o
    BY <2>1, Appended
  <2> HIDE DEF n
  <2>5. ASSUME NEW j \in DOMAIN n PROVE Recorded(s, p, n[j])
    <3>1. CASE j \in DOMAIN os
      BY <2>4, <3>1 DEF RecordInv
    <3>2. CASE j = Len(os) + 1
      BY <2>3, <2>4, <3>2
    <3>3. QED
      BY <2>4, <3>1, <3>2
  <2>6. QED
    BY <1>2, <2>1, <2>5
<1>6. QED
  BY <1>3, <1>4, <1>5 DEF VMStep, DoLocal, DoTriple, DoInput, DoOpen, DoStop, EndInput,
     EndCheck, VMTimeout, Domains

\* What the virtual machine asks of its party does not speak of the values
\* unless it opens one.
LEMMA AskSent ==
  ASSUME NEW s, NEW p \in Party, Domains, NEW action, NEW at, Ask(p, action, at),
         \A i \in DOMAIN Code : s[p][i] # {} => i < pc[p] \/ (i = pc[p] /\ action.act # "Open"),
         pc'[p] = pc[p], hpc[p] = "action", hpc'[p] = hpc[p],
         instChan'[p] = <<>>, actChan[p] = <<>>, resp'[p] = <<>>,
         action.act = "Open" => action.share # {} /\ action.share = Operand(p)',
         at = "open" => action.act = "Open"
  PROVE  SentInv(s, p)'
<1>1. CASE VMFails(p, "SendError")
  <2>1. actChan'[p] = <<>> /\ vpc'[p] = "failed"
    BY <1>1 DEF VMFails, Domains
  <2>2. QED
    BY <2>1 DEF SentInv, Unsent
<1>2. CASE ~VMFails(p, "SendError")
  <2>1. actChan'[p] = <<action>> /\ vpc'[p] = at
    BY <1>2, OneElement DEF Ask, Domains
  <2>2. actChan'[p] # <<>> /\ Head(actChan'[p]) = action
    BY <2>1, OneElement
  <2>3. QED
    BY <2>1, <2>2 DEF SentInv, Unsent
<1>3. QED
  BY <1>1, <1>2

LEMMA FailSent ==
  ASSUME NEW s, NEW p \in Party, Domains, NEW e, VMFails(p, e), SentInv(s, p),
         UNCHANGED <<pc[p], hpc[p]>>, instChan'[p] = <<>>
  PROVE  SentInv(s, p)'
<1>1. vpc'[p] = "failed" /\ actChan'[p] = actChan[p]
  BY DEF VMFails, Domains
<1>2. QED
  BY <1>1 DEF SentInv, Unsent

LEMMA VMSent ==
  ASSUME Domains, NEW s, NEW p \in Party, Handshake(p), SentInv(s, p), VMStep(p)
  PROVE  SentInv(s, p)'
<1> USE DEF prepVars, handVars, histVars, vars, partyVars
<1>1. ASSUME NEW ops, Take(p, ops)
      PROVE  /\ hpc[p] = "action" /\ actChan[p] = <<>> /\ instChan'[p] = <<>> /\ resp[p] = <<>>
             /\ \A i \in DOMAIN Code : s[p][i] # {} => i < pc[p]
  <2>1. instChan[p] # <<>>
    BY <1>1 DEF Take
  <2>2. QED
    BY <1>1, <2>1, Taken DEF SentInv, Unsent
<1>2. ASSUME resp[p] # <<>>
      PROVE  /\ hpc[p] = "action" /\ actChan[p] = <<>> /\ instChan[p] = <<>>
             /\ \A i \in DOMAIN Code : s[p][i] # {} => i < pc[p] \/ i = pc[p]
  BY <1>2, Answered DEF SentInv
<1>3. CASE DoLocal(p) \/ DoTriple(p) \/ DoInput(p) \/ DoStop(p)
  <2>1. /\ \E ops : Take(p, ops)
        /\ UNCHANGED <<pc[p], hpc[p], resp[p]>>
        /\ \/ \E e : VMFails(p, e)
           \/ \E action, at : /\ Ask(p, action, at)
                              /\ action.act # "Open" /\ at # "open"
    BY <1>3 DEF DoLocal, DoTriple, DoInput, DoStop, Done
  <2>2. QED
    BY <1>1, <2>1, AskSent, FailSent
<1>4. CASE DoOpen(p)
  <2>1. /\ \E ops : Take(p, ops)
        /\ UNCHANGED <<pc[p], hpc[p], resp[p], Operand(p)>>
        /\ \/ \E e : VMFails(p, e)
           \/ /\ Ask(p, [act |-> "Open", share |-> Operand(p)], "open")
              /\ Operand(p) # {}
    BY <1>4 DEF DoOpen, Operand
  <2>2. QED
    BY <1>1, <2>1, AskSent, FailSent
<1>5. CASE EndInput(p) \/ EndOpen(p) \/ EndCheck(p)
  <2>1. /\ resp[p] # <<>> /\ resp'[p] = <<>>
        /\ UNCHANGED <<pc[p], hpc[p], instChan[p]>>
        /\ \/ \E e : VMFails(p, e)
           \/ \E action, at : /\ Ask(p, action, at)
                              /\ action.act # "Open" /\ at # "open"
    BY <1>5 DEF EndInput, EndOpen, EndCheck, Done, Domains
  <2>2. QED
    BY <1>2, <2>1, AskSent, FailSent
<1>6. CASE VMTimeout(p)
  <2>1. vpc'[p] = "failed" /\ UNCHANGED <<pc[p], hpc[p], instChan[p], actChan[p]>>
    BY <1>6 DEF VMTimeout, VMFails, Domains
  <2>2. QED
    BY <2>1 DEF SentInv, Unsent
<1>7. QED
  BY <1>3, <1>4, <1>5, <1>6 DEF VMStep

LEMMA VMVerdict ==
  ASSUME Domains, NEW s, NEW p \in Party, Handshake(p), RecordInv(s, p), CheckInv(s, p),
         OrderInv(p), pc[p] \in Nat, VMStep(p)
  PROVE  CheckInv(s, p)'
<1> USE DEF prepVars, handVars, histVars, vars, partyVars
<1>1. /\ UNCHANGED <<pc[p], hpc[p], todo[p], coms[p]>>
      /\ vpc[p] # "failed"
  BY DEF VMStep, DoLocal, DoTriple, DoInput, DoOpen, DoStop, EndInput, EndOpen, EndCheck,
         VMTimeout, Take
<1>2. /\ Listed(pc[p])' = Listed(pc[p]) /\ Checks(pc[p])' = Checks(pc[p])
      /\ Sound(s, pc[p])' = Sound(s, pc[p]) /\ Broken(s, pc[p])' = Broken(s, pc[p])
  BY <1>1 DEF Sound, Broken, Listed, Cnt, Pending, Checks, Start
<1>3. ASSUME resp'[p] = <<>> \/ vpc'[p] # "check",
             \A v \in verified'[p] :
               /\ v.at \in DOMAIN Code /\ Code[v.at].op \in Opening
               /\ v.x = Sum(s, v.at) /\ Passed(s, v.at)
               /\ v.by \in DOMAIN Code /\ v.at <= v.by /\ v.by <= pc[p] /\ Sound(s, v.by),
             vmErr'[p] # "BadCommitment",
             vmErr'[p] = "SumIsNotZero" =>
               /\ vpc'[p] = "failed" /\ hpc[p] = "action" /\ actChan'[p] = <<>>
               /\ pc[p] \in DOMAIN Code /\ Broken(s, pc[p])
      PROVE  CheckInv(s, p)'
  BY <1>1, <1>2, <1>3 DEF CheckInv
<1>4. vmErr[p] \notin MACCheckError
  BY <1>1 DEF CheckInv, MACCheckError
<1>5. CASE verified'[p] = verified[p] /\ vmErr'[p] \notin MACCheckError
           /\ (resp'[p] = <<>> \/ vpc'[p] # "check")
  BY <1>3, <1>5 DEF CheckInv, MACCheckError
<1>6. CASE DoLocal(p) \/ DoTriple(p) \/ DoInput(p) \/ DoOpen(p) \/ DoStop(p)
  <2>1. \E ops : Take(p, ops)
    BY <1>6 DEF DoLocal, DoTriple, DoInput, DoOpen, DoStop
  <2>2. resp[p] = <<>>
    BY <2>1, Taken
  <2>3. verified'[p] = verified[p] /\ resp'[p] = <<>> /\ vmErr'[p] \notin MACCheckError
    BY <1>4, <1>6, <2>2 DEF DoLocal, DoTriple, DoInput, DoOpen, DoStop, Done, Ask, VMFails,
       Domains, MACCheckError
  <2>4. QED
    BY <1>5, <2>3
<1>7. CASE EndInput(p) \/ EndOpen(p) \/ VMTimeout(p)
  <2>1. verified'[p] = verified[p] /\ vmErr'[p] \notin MACCheckError
        /\ (resp'[p] = <<>> \/ vpc'[p] # "check")
    BY <1>4, <1>7 DEF EndInput, EndOpen, VMTimeout, Done, Ask, VMFails, Domains, MACCheckError
  <2>2. QED
    BY <1>5, <2>1
<1>8. CASE EndCheck(p)
  <2>1. resp[p] # <<>> /\ vpc[p] = "check" /\ resp'[p] = <<>>
    BY <1>8 DEF EndCheck, Domains
  <2>2. /\ hpc[p] = "action" /\ actChan[p] = <<>> /\ pc[p] \in DOMAIN Code
        /\ Head(resp[p]) \in MACCheckError \cup {"Ok"}
    BY <2>1, Answered
  <2>3. CASE Head(resp[p]) = "Ok"
    <3> DEFINE new == {[at |-> openings[p][i].at, x |-> openings[p][i].x, by |-> pc[p]] :
                         i \in DOMAIN openings[p]}
    <3>1. verified'[p] = verified[p] \cup new
      BY <1>8, <2>3 DEF EndCheck, Domains
    <3>2. vmErr'[p] \notin MACCheckError
      BY <1>4, <1>8, <2>3 DEF EndCheck, Done, Ask, VMFails, Domains, MACCheckError
    <3>3. Sound(s, pc[p])
      BY <2>1, <2>3 DEF CheckInv
    <3>4. ASSUME NEW i \in DOMAIN openings[p]
          PROVE  /\ openings[p][i].at \in DOMAIN Code /\ Code[openings[p][i].at].op \in Opening
                 /\ openings[p][i].x = Sum(s, openings[p][i].at)
                 /\ Passed(s, openings[p][i].at) /\ openings[p][i].at <= pc[p]
      <4>1. Recorded(s, p, openings[p][i])
        BY DEF RecordInv
      <4>2. openings[p][i].at \in Listed(pc[p])
        BY <2>1 DEF OrderInv, InOrder
      <4>3. QED
        BY <2>2, <3>3, <4>1, <4>2, Ranks DEF Recorded, Sound
    <3>5. ASSUME NEW v \in new
          PROVE  /\ v.at \in DOMAIN Code /\ Code[v.at].op \in Opening
                 /\ v.x = Sum(s, v.at) /\ Passed(s, v.at)
                 /\ v.by \in DOMAIN Code /\ v.at <= v.by /\ v.by <= pc[p] /\ Sound(s, v.by)
      <4>1. PICK i \in DOMAIN openings[p] :
              v = [at |-> openings[p][i].at, x |-> openings[p][i].x, by |-> pc[p]]
        OBVIOUS
      <4>2. v.at = openings[p][i].at /\ v.x = openings[p][i].x /\ v.by = pc[p]
        BY <4>1
      <4>3. pc[p] <= pc[p]
        OBVIOUS
      <4>4. QED
        BY <2>2, <3>3, <3>4, <4>2, <4>3
    <3> HIDE DEF new
    <3>6. QED
      BY <1>3, <2>1, <3>1, <3>2, <3>5 DEF CheckInv, MACCheckError
  <2>4. CASE Head(resp[p]) # "Ok"
    <3>1. verified'[p] = verified[p] /\ vmErr'[p] = Head(resp[p]) /\ vpc'[p] = "failed"
          /\ actChan'[p] = <<>>
      BY <1>8, <2>2, <2>4 DEF EndCheck, VMFails, Domains
    <3>2. Head(resp[p]) = "SumIsNotZero" /\ Broken(s, pc[p])
      BY <2>1, <2>2, <2>4 DEF CheckInv, MACCheckError
    <3>3. QED
      BY <1>3, <2>1, <2>2, <3>1, <3>2 DEF CheckInv
  <2>5. QED
    BY <2>3, <2>4
<1>9. QED
  BY <1>6, <1>7, <1>8 DEF VMStep

-----------------------------------------------------------------------------
(* What a party makes of the messages it receives.                         *)

\* The opening that a check is at.
LEMMA AtHand ==
  ASSUME NEW s, NEW p \in Party, Handshake(p), RecordInv(s, p), OrderInv(p),
         hpc[p] \in CheckPhases, NEW h, h = Head(todo[p]).at
  PROVE  /\ pc[p] \in DOMAIN Code /\ Code[pc[p]].op \in Checking
         /\ IsSeq(todo[p]) /\ todo[p] # <<>> /\ Len(todo[p]) \in Nat \ {0}
         /\ h \in Listed(pc[p]) /\ h \in DOMAIN Code /\ Known(s, h)
         /\ D(p) = Of(s, p, h)
         /\ Place(pc[p], h, Len(todo[p]))
<1> DEFINE n == Len(todo[p])
<1>1. /\ pc[p] \in DOMAIN Code /\ Code[pc[p]].op \in Checking
      /\ IsSeq(todo[p]) /\ todo[p] # <<>>
  BY DEF Handshake, PhaseInv, ListInv, CheckPhases, Op
<1>2. 1 \in DOMAIN todo[p] /\ Head(todo[p]) = todo[p][1] /\ n \in Nat \ {0}
  BY <1>1, Shortened
<1>3. Recorded(s, p, Head(todo[p]))
  BY <1>2 DEF RecordInv
<1>4. Place(pc[p], h, n)
  <2>1. n - 1 + 1 = n
    BY <1>2
  <2>2. Place(pc[p], h, n - 1 + 1)
    BY <1>2 DEF OrderInv
  <2>3. QED
    BY <2>1, <2>2
<1>5. h \in Listed(pc[p])
  BY <1>4 DEF Place
<1>6. D(p) = Of(s, p, h)
  BY <1>3 DEF D, Of, Recorded
<1>7. h \in DOMAIN Code /\ Known(s, h)
  BY <1>3 DEF Recorded
<1>8. QED
  BY <1>1, <1>2, <1>4, <1>5, <1>6, <1>7

LEMMA OnePlace ==
  ASSUME NEW k \in DOMAIN Code, NEW n \in Nat, NEW i, NEW j, Place(k, i, n), Place(k, j, n)
  PROVE  i = j
<1>1. i \in Listed(k) /\ j \in Listed(k) /\ 2 * (Rank(i) + n - 1) = 2 * (Rank(j) + n - 1)
  BY DEF Place
<1>2. Rank(i) \in Nat /\ Rank(j) \in Nat
  BY <1>1, Ranks
<1>3. Rank(i) = Rank(j)
  BY <1>1, <1>2
<1>4. QED
  BY <1>1, <1>3, Ranks

\* The first messages of the channels waited for.
LEMMA Heads ==
  ASSUME Self, NEW s, NEW p \in Party, RightMessage, \A q \in Party : ChannelGood(s, p, q),
         ppc[p] = "busy", Receive(p), hpc[p] \in {"elems", "coms", "opens"}
  PROVE  /\ Awaited(p) = Party
         /\ \A q \in Party : /\ Good(s, q, Head(peer[p][q]))
                             /\ Head(peer[p][q]).kind = Expected(p)
                             /\ Head(peer[p][q]).at = <<pc[p], Len(todo[p])>>
<1>1. Awaited(p) = Party
  BY DEF Awaited, Peers
<1>2. ASSUME NEW q \in Party
      PROVE  /\ Good(s, q, Head(peer[p][q]))
             /\ Head(peer[p][q]).kind = Expected(p)
             /\ Head(peer[p][q]).at = <<pc[p], Len(todo[p])>>
  <2>1. Arrived(p, q) /\ q \in Awaited(p) \cap Party
    BY <1>1 DEF Receive
  <2>2. Head(peer[p][q]).kind = Expected(p) /\ Head(peer[p][q]).at = <<pc[p], Len(todo[p])>>
    BY <2>1 DEF RightMessage, Unwraps, Now
  <2>3. 1 \in DOMAIN peer[p][q] /\ Head(peer[p][q]) = peer[p][q][1]
    BY <2>1, Shortened DEF ChannelGood, Arrived
  <2>4. QED
    BY <2>2, <2>3 DEF ChannelGood
<1>3. QED
  BY <1>1, <1>2

LEMMA ReceivedElems ==
  ASSUME Self, NEW s, NEW p \in Party, RightMessage, \A q \in Party : ChannelGood(s, p, q),
         Receive(p), At(p, "elems"), Handshake(p)
  PROVE  Known(s, pc[p]) /\ Values(p) = Sum(s, pc[p])
<1>1. ppc[p] = "busy" /\ hpc[p] = "elems" /\ Code[pc[p]].op \in Opening
  BY DEF At, Handshake, PhaseInv, Op
<1>2. ASSUME NEW q \in Party
      PROVE  Head(peer[p][q]).val = s[q][pc[p]] /\ s[q][pc[p]] # {}
  <2>1. /\ Good(s, q, Head(peer[p][q])) /\ Head(peer[p][q]).kind = "Elem"
        /\ Head(peer[p][q]).at = <<pc[p], Len(todo[p])>>
    BY <1>1, Heads DEF Expected
  <2>2. Head(peer[p][q]).at[1] = pc[p]
    BY <2>1
  <2>3. QED
    BY <1>1, <2>1, <2>2 DEF Good
<1>3. Awaited(p) = Party
  BY <1>1, Heads
<1>4. Known(s, pc[p])
  BY <1>2 DEF Known
<1>5. [q \in Party |-> Head(peer[p][q]).val] = [q \in Party |-> s[q][pc[p]]]
  BY <1>2
<1>6. Values(p) = Sum(s, pc[p])
  BY <1>3, <1>5 DEF Values, Sum
<1>7. QED
  BY <1>4, <1>6

LEMMA ReceivedComs ==
  ASSUME Self, NEW s, NEW p \in Party, RightMessage, \A q \in Party : ChannelGood(s, p, q),
         Receive(p), At(p, "coms"), Handshake(p), RecordInv(s, p), OrderInv(p),
         NEW h, h = Head(todo[p]).at
  PROVE  Values(p) = [q \in Party |-> Commitment(Of(s, q, h))]
<1>1. ppc[p] = "busy" /\ hpc[p] = "coms" /\ hpc[p] \in CheckPhases
  BY DEF At, CheckPhases
<1>2. h \in DOMAIN Code /\ Place(pc[p], h, Len(todo[p]))
  BY <1>1, AtHand
<1>3. ASSUME NEW q \in Party PROVE Head(peer[p][q]).val = Commitment(Of(s, q, h))
  <2>1. /\ Good(s, q, Head(peer[p][q])) /\ Head(peer[p][q]).kind = "Com"
        /\ Head(peer[p][q]).at = <<pc[p], Len(todo[p])>>
    BY <1>1, Heads DEF Expected
  <2>2. Head(peer[p][q]).at[1] = pc[p] /\ Head(peer[p][q]).at[2] = Len(todo[p])
    BY <2>1
  <2>3. QED
    BY <1>2, <2>1, <2>2 DEF Good
<1>4. Awaited(p) = Party
  BY <1>1, Heads
<1>5. QED
  BY <1>3, <1>4 DEF Values

LEMMA ReceivedOpens ==
  ASSUME Self, NEW s, NEW p \in Party, RightMessage, \A q \in Party : ChannelGood(s, p, q),
         Receive(p), At(p, "opens"), Handshake(p), RecordInv(s, p), OrderInv(p),
         NEW h, h = Head(todo[p]).at
  PROVE  Values(p) = [q \in Party |-> Of(s, q, h)]
<1>1. ppc[p] = "busy" /\ hpc[p] = "opens" /\ hpc[p] \in CheckPhases
  BY DEF At, CheckPhases
<1>2. h \in DOMAIN Code /\ Place(pc[p], h, Len(todo[p]))
  BY <1>1, AtHand
<1>3. ASSUME NEW q \in Party PROVE Head(peer[p][q]).val = Of(s, q, h)
  <2>1. /\ Good(s, q, Head(peer[p][q])) /\ Head(peer[p][q]).kind = "Opening"
        /\ Head(peer[p][q]).at = <<pc[p], Len(todo[p])>>
    BY <1>1, Heads DEF Expected
  <2>2. Head(peer[p][q]).at[1] = pc[p] /\ Head(peer[p][q]).at[2] = Len(todo[p])
    BY <2>1
  <2>3. QED
    BY <1>2, <2>1, <2>2 DEF Good
<1>4. Awaited(p) = Party
  BY <1>1, Heads
<1>5. QED
  BY <1>3, <1>4 DEF Values

\* The sum of the ds is zero exactly if the parties' shares agree.
LEMMA SumTells ==
  ASSUME NEW s, NEW i, NEW ds, ds = [q \in Party |-> Of(s, q, i)]
  PROVE  SumIsZero(ds) <=> Agreed(s, i)
<1>1. DOMAIN ds = Party
  OBVIOUS
<1>2. \A q \in Party : ds[q].x = Sum(s, i) /\ ds[q].share = s[q][i] /\ ds[q] = Of(s, q, i)
  BY DEF Of
<1>3. ASSUME Agreed(s, i) PROVE SumIsZero(ds)
  <2>1. ASSUME NEW q \in Party, NEW r \in Party PROVE ds[q] = ds[r]
    <3>1. s[q][i] = s[r][i]
      BY <1>3 DEF Agreed
    <3>2. QED
      BY <1>2, <3>1 DEF Of
  <2>2. ASSUME NEW q \in Party PROVE ds[q].x = [r \in Party |-> ds[q].share]
    <3>1. \A r \in Party : s[r][i] = ds[q].share
      BY <1>2, <1>3 DEF Agreed
    <3>2. Sum(s, i) = [r \in Party |-> ds[q].share]
      BY <3>1 DEF Sum
    <3>3. QED
      BY <1>2, <3>2
  <2>3. QED
    BY <1>1, <2>1, <2>2 DEF SumIsZero
<1>4. ASSUME SumIsZero(ds) PROVE Agreed(s, i)
  <2>1. ASSUME NEW q \in Party, NEW r \in Party PROVE s[q][i] = s[r][i]
    <3>1. ds[q] = ds[r]
      BY <1>4 DEF SumIsZero
    <3>2. QED
      BY <1>2, <3>1
  <2>2. QED
    BY <2>1 DEF Agreed
<1>5. QED
  BY <1>3, <1>4

LEMMA Judged ==
  ASSUME Self, NEW s, NEW p \in Party, RightMessage, \A q \in Party : ChannelGood(s, p, q),
         Receive(p), At(p, "opens"), Handshake(p), RecordInv(s, p), OrderInv(p),
         CheckInv(s, p), NEW h, h = Head(todo[p]).at
  PROVE  /\ Agreed(s, h) => Verdict(p) = "Ok"
         /\ ~Agreed(s, h) => Verdict(p) = "SumIsNotZero"
<1>1. Values(p) = [q \in Party |-> Of(s, q, h)]
  BY ReceivedOpens
<1>2. coms[p] = [q \in Party |-> Commitment(Of(s, q, h))]
  BY DEF CheckInv, At
<1>3. Awaited(p) = Party
  BY DEF Awaited, Peers, At
<1>4. ~ \E q \in Awaited(p) : ~Verifies(Values(p)[q], coms[p][q])
  BY <1>1, <1>2, <1>3 DEF Verifies
<1>5. SumIsZero(Values(p)) <=> Agreed(s, h)
  BY <1>1, SumTells
<1>6. QED
  BY <1>4, <1>5 DEF Verdict

\* What a check has to show for itself when it has come past an opening.
LEMMA Further ==
  ASSUME NEW s, NEW p \in Party, Handshake(p), RecordInv(s, p), OrderInv(p), CheckInv(s, p),
         hpc[p] \in CheckPhases, NEW h, h = Head(todo[p]).at, Agreed(s, h),
         NEW i \in Listed(pc[p]),
         \/ Len(todo[p]) = 1
         \/ 2 * (Rank(i) + (Len(todo[p]) - 1) - 1) < Checks(pc[p])
  PROVE  Passed(s, i)
<1> DEFINE n == Len(todo[p])
           c == Checks(pc[p])
<1>1. /\ pc[p] \in DOMAIN Code /\ Code[pc[p]].op \in Checking /\ n \in Nat \ {0}
      /\ h \in Listed(pc[p]) /\ Known(s, h) /\ 2 * (Rank(h) + n - 1) = c
  BY AtHand DEF Place
<1>2. Rank(i) \in Nat /\ Rank(h) \in Nat /\ 2 * Rank(i) <= c
  BY <1>1, Ranks
<1> HIDE DEF n, c
<1>3. Rank(i) <= Rank(h)
  <2>1. CASE n = 1
    BY <1>1, <1>2, <2>1
  <2>2. CASE 2 * (Rank(i) + (n - 1) - 1) < c
    BY <1>1, <1>2, <2>2
  <2>3. QED
    BY <2>1, <2>2 DEF n, c
<1>4. CASE Rank(i) = Rank(h)
  <2>1. i = h
    BY <1>1, <1>4, Ranks
  <2>2. QED
    BY <1>1, <2>1 DEF Passed
<1>5. CASE Rank(i) < Rank(h)
  <2>1. 2 * (Rank(i) + n - 1) < c
    BY <1>1, <1>2, <1>5
  <2>2. QED
    BY <2>1 DEF CheckInv, n, c
<1>6. QED
  BY <1>2, <1>3, <1>4, <1>5

-----------------------------------------------------------------------------
(* The steps of a party's thread that send no share.                       *)

PartyQuiet(p) == (PartyThread(p) /\ ~OnOpen(p)) \/ PrepEnds(p)

LEMMA TakenAction ==
  ASSUME Domains, NEW p \in Party, Handshake(p), NEW act, TakeAction(p, act)
  PROVE  /\ ppc[p] = "busy" /\ hpc[p] = "action" /\ pc[p] \in DOMAIN Code /\ todo[p] = <<>>
         /\ actChan[p] # <<>> /\ Head(actChan[p]).act = act
         /\ ActionFits(p, Head(actChan[p]))
         /\ actChan'[p] = <<>> /\ instChan[p] = <<>> /\ instChan'[p] = <<>> /\ resp[p] = <<>>
<1>1. /\ ppc[p] = "busy" /\ hpc[p] = "action" /\ actChan[p] # <<>>
      /\ Head(actChan[p]).act = act /\ instChan' = instChan
      /\ actChan'[p] = Tail(actChan[p])
  BY DEF TakeAction, At, Domains
<1>2. /\ actChan[p] = <<Head(actChan[p])>> /\ resp[p] = <<>> /\ instChan[p] = <<>>
      /\ ActionFits(p, Head(actChan[p]))
  BY <1>1 DEF Handshake, LinkInv
<1>3. Tail(actChan[p]) = <<>>
  BY <1>2, OneElement
<1>4. pc[p] \in DOMAIN Code /\ todo[p] = <<>>
  BY <1>1 DEF Handshake, PhaseInv, CheckPhases
<1>5. QED
  BY <1>1, <1>2, <1>3, <1>4

LEMMA PartyKeeps ==
  ASSUME NEW p \in Party, PartyThread(p) \/ PrepEnds(p)
  PROVE  UNCHANGED <<vpc, secret, openings, vmErr, verified>>
  BY DEF PartyThread, Listen, Forward, ForwardFails, PrepEnds, HandlerFails, Fails, mpcVars,
         GiveInstruction, OnNext, OnOpen, OnInput, OnCheck, TakeAction, vmVars, histVars,
         EndElems, EndInputElem, Commit, EndComs, Reveal, EndOpens

LEMMA PartyRecord ==
  ASSUME TypeOK, Domains, NEW s, NEW p \in Party, Handshake(p), RecordInv(s, p),
         PartyThread(p) \/ PrepEnds(p)
  PROVE  RecordInv(s, p)'
<1> USE DEF prepVars, handVars, histVars, vars, partyVars, vmVars, linkVars
<1>1. openings' = openings
  BY PartyKeeps
<1>2. ASSUME \A j \in DOMAIN todo'[p] : Recorded(s, p, todo'[p][j])
      PROVE  RecordInv(s, p)'
  BY <1>1, <1>2 DEF RecordInv, Recorded, Known, Sum
<1>3. CASE todo'[p] = todo[p]
  BY <1>2, <1>3 DEF RecordInv
<1>4. CASE todo'[p] = <<>>
  BY <1>2, <1>4, EmptyIsSeq
<1>5. CASE OnCheck(p)
  <2>1. TakeAction(p, "Check") /\ todo'[p] = Head(actChan[p]).list
    BY <1>5 DEF OnCheck, Domains
  <2>2. todo'[p] = openings[p]
    BY <2>1, TakenAction DEF ActionFits
  <2>3. QED
    BY <1>2, <2>2 DEF RecordInv
<1>6. CASE EndOpens(p) /\ todo'[p] # <<>>
  <2> DEFINE n == Tail(todo[p])
  <2>1. todo'[p] = n /\ IsSeq(todo[p]) /\ todo[p] # <<>>
    BY <1>6 DEF EndOpens, Domains, At, Handshake, PhaseInv, ListInv, CheckPhases
  <2>2. /\ DOMAIN todo[p] = 1 .. Len(todo[p]) /\ DOMAIN n = 1 .. Len(todo[p]) - 1
        /\ Len(todo[p]) \in Nat
        /\ \A i \in 1 .. Len(todo[p]) - 1 : n[i] = todo[p][i + 1]
    BY <2>1, Shortened
  <2> HIDE DEF n
  <2>3. ASSUME NEW j \in DOMAIN n PROVE Recorded(s, p, n[j])
    <3>1. j + 1 \in DOMAIN todo[p] /\ n[j] = todo[p][j + 1]
      BY <2>2
    <3>2. QED
      BY <3>1 DEF RecordInv
  <2>4. QED
    BY <1>2, <2>1, <2>3
<1>7. QED
  BY <1>3, <1>4, <1>5, <1>6 DEF PartyThread, Listen, Forward, ForwardFails, PrepEnds,
     HandlerFails, Fails, mpcVars, GiveInstruction, OnNext, OnOpen, OnInput, TakeAction,
     EndElems, EndInputElem, Commit, EndComs, Reveal

LEMMA PartySent ==
  ASSUME Self, TypeOK, Domains, NEW s, NEW p \in Party, Handshake(p), SentInv(s, p),
         RightMessage, \A q \in Party : ChannelGood(s, p, q), PartyQuiet(p)
  PROVE  SentInv(s, p)'
<1> USE DEF prepVars, handVars, histVars, vars, partyVars, vmVars, linkVars
<1>1. vpc'[p] = vpc[p] /\ secret'[p] = secret[p]
  BY PartyKeeps DEF PartyQuiet
<1>2. ASSUME pc'[p] = pc[p], actChan'[p] = actChan[p] \/ actChan'[p] = <<>>,
             Unsent(p)' = Unsent(p),
             \/ resp'[p] = resp[p] \/ vpc[p] # "open"
             \/ Known(s, pc[p]) /\ Head(resp'[p]) = Sum(s, pc[p])
      PROVE  SentInv(s, p)'
  BY <1>1, <1>2 DEF SentInv, Operand, Known, Sum
<1>3. CASE Fetch(p) /\ Fetches(p) /\ Listen(p)
  <2>1. ppc[p] = "running" /\ pc'[p] = pc[p] + 1 /\ pc[p] \in Nat
    BY <1>3 DEF Fetch, Fetches, TypeOK
  <2>2. actChan'[p] = actChan[p] /\ resp'[p] = resp[p]
    BY <1>3, <2>1 DEF Listen, AwaitStart, SyncLost, Join
  <2>3. hpc[p] = "idle" /\ vpc[p] # "open" /\ actChan[p] = <<>>
    BY <2>1 DEF Handshake, PhaseInv, LinkInv
  <2>4. \A i \in DOMAIN Code : s[p][i] # {} => i < pc'[p]
    BY <2>1, CodeFacts DEF SentInv
  <2>5. QED
    BY <1>1, <2>2, <2>3, <2>4 DEF SentInv
<1>4. CASE (Listen(p) /\ ~(Fetch(p) /\ Fetches(p))) \/ Forward(p) \/ ForwardFails(p)
           \/ PrepEnds(p) \/ HandlerFails(p)
  <2>1. UNCHANGED <<pc[p], actChan[p], hpc[p], instChan[p], resp[p]>>
    BY <1>4 DEF Listen, AwaitStart, Fetch, SyncLost, Join, Fails, mpcVars, TypeOK,
       Forward, ForwardFails, PrepEnds, HandlerFails, PrepFails, BusyFails
  <2>2. Unsent(p)' = Unsent(p)
    BY <2>1 DEF Unsent
  <2>3. QED
    BY <1>2, <2>1, <2>2
<1>5. CASE GiveInstruction(p)
  <2>1. /\ hpc[p] = "give" /\ UNCHANGED <<pc[p], actChan[p], resp[p]>>
        /\ instChan'[p] = Append(instChan[p], Code[pc[p]])
    BY <1>5 DEF GiveInstruction, At, Domains
  <2>2. instChan[p] = <<>>
    BY <2>1 DEF Handshake, LinkInv
  <2>3. instChan'[p] # <<>>
    BY <2>1, <2>2, OneElement
  <2>4. Unsent(p)' = Unsent(p)
    BY <2>1, <2>3 DEF Unsent
  <2>5. QED
    BY <1>2, <2>1, <2>4
<1>6. CASE OnNext(p) \/ OnInput(p) \/ OnCheck(p)
  <2>1. PICK act \in {"Next", "Input", "Check"} : TakeAction(p, act)
    BY <1>6 DEF OnNext, OnInput, OnCheck
  <2>2. UNCHANGED <<pc[p], resp[p]>> /\ hpc'[p] \in {"idle", "input", "commit"}
    BY <1>6 DEF OnNext, OnInput, OnCheck, Reply, Go, Domains
  <2>3. /\ hpc[p] = "action" /\ actChan'[p] = <<>> /\ instChan[p] = <<>> /\ instChan'[p] = <<>>
        /\ Head(actChan[p]).act # "Open"
    BY <2>1, TakenAction
  <2>4. Unsent(p)' = Unsent(p)
    BY <2>2, <2>3 DEF Unsent
  <2>5. QED
    BY <1>2, <2>2, <2>3, <2>4
<1>7. CASE EndElems(p) \/ EndInputElem(p) \/ Commit(p) \/ EndComs(p) \/ Reveal(p) \/ EndOpens(p)
  <2>1. /\ UNCHANGED <<pc[p], actChan[p], instChan[p]>>
        /\ hpc'[p] \in {"action"} \cup CheckPhases
        /\ hpc[p] \in {"elems", "input"} \cup CheckPhases
    BY <1>7 DEF EndElems, EndInputElem, Commit, EndComs, Reveal, EndOpens, At, Answer, Go,
       Domains, CheckPhases
  <2>2. Unsent(p)' = Unsent(p)
    BY <2>1 DEF Unsent, CheckPhases
  <2>3. CASE EndElems(p)
    <3>1. /\ Receive(p) /\ At(p, "elems") /\ hpc[p] = "elems"
          /\ resp'[p] = Append(resp[p], Values(p))
      BY <1>7, <2>3 DEF EndElems, Answer, At, Domains
    <3>2. resp[p] = <<>>
      BY <3>1 DEF Handshake, LinkInv
    <3>3. Head(resp'[p]) = Values(p)
      BY <3>1, <3>2, OneElement
    <3>4. Known(s, pc[p]) /\ Values(p) = Sum(s, pc[p])
      BY <3>1, ReceivedElems
    <3>5. QED
      BY <1>2, <2>1, <2>2, <3>3, <3>4
  <2>4. CASE hpc[p] \in {"input"} \cup CheckPhases
    <3>1. vpc[p] # "open"
      BY <2>4 DEF Handshake, PhaseInv, CheckPhases
    <3>2. QED
      BY <1>2, <2>1, <2>2, <3>1
  <2>5. QED
    BY <1>7, <2>1, <2>3, <2>4 DEF EndInputElem, Commit, EndComs, Reveal, EndOpens, At
<1>8. QED
  BY <1>3, <1>4, <1>5, <1>6, <1>7 DEF PartyQuiet, PartyThread

\* What a party knows of its checks, put together from what it knew before.
LEMMA VerdictNext ==
  ASSUME TypeOK, Domains, NEW s, NEW p \in Party, Handshake(p), CheckInv(s, p),
         UNCHANGED <<vpc[p], vmErr[p], verified[p]>>, pc'[p] = pc[p],
         hpc[p] = "action" /\ actChan[p] = <<>> => hpc'[p] = "action" /\ actChan'[p] = <<>>,
         \/ resp'[p] = resp[p] \/ vpc[p] # "check"
         \/ /\ Head(resp'[p]) # "BadCommitment"
            /\ Head(resp'[p]) = "Ok" => Sound(s, pc[p])
            /\ Head(resp'[p]) = "SumIsNotZero" => Broken(s, pc[p]),
         hpc'[p] \in CheckPhases => \A i \in Listed(pc[p]) :
           2 * (Rank(i) + Len(todo'[p]) - 1) < Checks(pc[p]) => Passed(s, i),
         hpc'[p] \in {"reveal", "opens"} =>
           coms'[p] = [q \in Party |-> Commitment(Of(s, q, Head(todo'[p]).at))]
  PROVE  CheckInv(s, p)'
<1>1. /\ Listed(pc[p])' = Listed(pc[p]) /\ Checks(pc[p])' = Checks(pc[p])
      /\ Sound(s, pc[p])' = Sound(s, pc[p]) /\ Broken(s, pc[p])' = Broken(s, pc[p])
  BY DEF Sound, Broken, Listed, Cnt, Pending, Checks, Start
<1>2. \A v \in verified'[p] :
       /\ v.at \in DOMAIN Code /\ Code[v.at].op \in Opening
       /\ v.x = Sum(s, v.at) /\ Passed(s, v.at)
       /\ v.by \in DOMAIN Code /\ v.at <= v.by /\ v.by <= pc'[p] /\ Sound(s, v.by)
  BY DEF CheckInv
<1>3. vpc'[p] = "check" /\ resp'[p] # <<>> =>
       /\ Head(resp'[p]) # "BadCommitment"
       /\ Head(resp'[p]) = "Ok" => Sound(s, pc'[p])
       /\ Head(resp'[p]) = "SumIsNotZero" => Broken(s, pc'[p])
  BY <1>1 DEF CheckInv
<1>4. hpc'[p] \in CheckPhases => \A i \in Listed(pc'[p]) :
       2 * (Rank(i) + Len(todo'[p]) - 1) < Checks(pc'[p]) => Passed(s, i)
  BY <1>1
<1>5. /\ vmErr'[p] # "BadCommitment"
      /\ vmErr'[p] = "SumIsNotZero" =>
           /\ vpc'[p] = "failed" /\ hpc'[p] = "action" /\ actChan'[p] = <<>>
           /\ pc'[p] \in DOMAIN Code /\ Broken(s, pc'[p])
  BY <1>1 DEF CheckInv
<1>6. QED
  BY <1>1, <1>2, <1>3, <1>4, <1>5 DEF CheckInv

LEMMA OpensVerdict ==
  ASSUME Self, TypeOK, Domains, NEW s, NEW p \in Party, Handshake(p),
         RecordInv(s, p), CheckInv(s, p), OrderInv(p),
         RightMessage, \A q \in Party : ChannelGood(s, p, q), EndOpens(p)
  PROVE  CheckInv(s, p)'
<1> USE DEF prepVars, handVars, histVars, vars, partyVars, vmVars, linkVars
<1> DEFINE h == Head(todo[p]).at
<1>1. /\ Receive(p) /\ At(p, "opens") /\ hpc[p] = "opens" /\ hpc[p] \in CheckPhases
      /\ UNCHANGED <<vpc[p], vmErr[p], verified[p], pc[p]>>
  BY DEF EndOpens, At, CheckPhases
<1>2. /\ pc[p] \in DOMAIN Code /\ Code[pc[p]].op \in Checking
      /\ IsSeq(todo[p]) /\ todo[p] # <<>> /\ Len(todo[p]) \in Nat \ {0}
      /\ h \in Listed(pc[p]) /\ Known(s, h)
  BY <1>1, AtHand
<1>3. /\ Agreed(s, h) => Verdict(p) = "Ok"
      /\ ~Agreed(s, h) => Verdict(p) = "SumIsNotZero"
  BY <1>1, Judged
<1>4. \A i \in Listed(pc[p]) :
        Agreed(s, h) /\ (\/ Len(todo[p]) = 1
                         \/ 2 * (Rank(i) + (Len(todo[p]) - 1) - 1) < Checks(pc[p]))
        => Passed(s, i)
  BY <1>1, Further
<1> HIDE DEF h
<1>5. CASE Verdict(p) = "Ok" /\ Len(todo[p]) > 1
  <2>1. /\ todo'[p] = Tail(todo[p]) /\ hpc'[p] = "commit" /\ resp'[p] = resp[p]
    BY <1>5 DEF EndOpens, Go, Domains
  <2>2. Len(todo'[p]) = Len(todo[p]) - 1
    BY <1>2, <2>1, Shortened
  <2>3. Agreed(s, h)
    BY <1>3, <1>5
  <2>4. \A i \in Listed(pc[p]) :
          2 * (Rank(i) + Len(todo'[p]) - 1) < Checks(pc[p]) => Passed(s, i)
    BY <1>4, <2>2, <2>3
  <2>5. QED
    BY <1>1, <2>1, <2>4, VerdictNext
<1>6. CASE ~(Verdict(p) = "Ok" /\ Len(todo[p]) > 1)
  <2>1. /\ hpc'[p] = "action" /\ resp'[p] = Append(resp[p], Verdict(p))
    BY <1>6 DEF EndOpens, Answer, Go, Domains
  <2>2. resp[p] = <<>>
    BY <1>1 DEF Handshake, LinkInv
  <2>3. Head(resp'[p]) = Verdict(p)
    BY <2>1, <2>2, OneElement
  <2>4. Verdict(p) # "BadCommitment"
    BY <1>3
  <2>5. ASSUME Verdict(p) = "Ok" PROVE Sound(s, pc[p])
    <3>1. Agreed(s, h)
      BY <1>3, <2>5
    <3>2. Len(todo[p]) = 1
      <4>1. ~(Len(todo[p]) > 1)
        BY <1>6, <2>5, Zenon
      <4>2. Len(todo[p]) \in Nat \ {0}
        BY <1>2, Zenon
      <4>3. \A l \in Nat \ {0} : ~(l > 1) => l = 1
        OBVIOUS
      <4>4. QED
        BY <4>1, <4>2, <4>3, Zenon
    <3>3. QED
      BY <1>4, <3>1, <3>2 DEF Sound
  <2>6. ASSUME Verdict(p) = "SumIsNotZero" PROVE Broken(s, pc[p])
    BY <1>2, <1>3, <2>6 DEF Broken
  <2>7. hpc'[p] \notin CheckPhases /\ hpc'[p] \notin {"reveal", "opens"}
    BY <2>1 DEF CheckPhases
  <2>8. QED
    BY <1>1, <2>3, <2>4, <2>5, <2>6, <2>7, VerdictNext
<1>7. QED
  BY <1>5, <1>6

LEMMA PartyVerdict ==
  ASSUME Self, TypeOK, Domains, NEW s, NEW p \in Party, Handshake(p),
         RecordInv(s, p), CheckInv(s, p), OrderInv(p), CountInv(p),
         RightMessage, \A q \in Party : ChannelGood(s, p, q),
         PartyThread(p) \/ PrepEnds(p)
  PROVE  CheckInv(s, p)'
<1> USE DEF prepVars, handVars, histVars, vars, partyVars, vmVars, linkVars
<1>1. vpc'[p] = vpc[p] /\ vmErr'[p] = vmErr[p] /\ verified'[p] = verified[p]
  BY PartyKeeps
<1>2. CASE Fetch(p) /\ Fetches(p) /\ Listen(p)
  <2>1. ppc[p] = "running" /\ pc'[p] = pc[p] + 1 /\ pc[p] \in Nat /\ hpc'[p] = "give"
    BY <1>2 DEF Fetch, Fetches, TypeOK, Listen, AwaitStart, SyncLost, Join, Domains
  <2>2. hpc[p] = "idle" /\ vpc[p] # "check"
    BY <2>1 DEF Handshake, PhaseInv
  <2>3. vmErr[p] \notin MACCheckError
    BY <2>2 DEF CheckInv, MACCheckError
  <2>4. \A v \in verified'[p] :
          /\ v.at \in DOMAIN Code /\ Code[v.at].op \in Opening
          /\ v.x = Sum(s, v.at) /\ Passed(s, v.at)
          /\ v.by \in DOMAIN Code /\ v.at <= v.by /\ v.by <= pc'[p] /\ Sound(s, v.by)
    <3>1. ASSUME NEW v \in verified[p] PROVE v.by <= pc'[p]
      <4>1. v.by \in Nat /\ v.by <= pc[p]
        BY CodeFacts DEF CheckInv
      <4>2. QED
        BY <2>1, <4>1
    <3>2. QED
      BY <1>1, <3>1 DEF CheckInv
  <2>5. hpc'[p] \notin CheckPhases /\ hpc'[p] \notin {"reveal", "opens"}
    BY <2>1 DEF CheckPhases
  <2>6. QED
    BY <1>1, <2>2, <2>3, <2>4, <2>5 DEF CheckInv, MACCheckError
<1>3. CASE (Listen(p) /\ ~(Fetch(p) /\ Fetches(p))) \/ Forward(p) \/ ForwardFails(p)
           \/ PrepEnds(p) \/ HandlerFails(p)
  <2>1. UNCHANGED <<pc[p], actChan[p], hpc[p], resp[p], todo[p], coms[p]>>
    BY <1>3 DEF Listen, AwaitStart, Fetch, SyncLost, Join, Fails, mpcVars, TypeOK,
       Forward, ForwardFails, PrepEnds, HandlerFails, PrepFails, BusyFails
  <2>2. /\ hpc'[p] \in CheckPhases => \A i \in Listed(pc[p]) :
             2 * (Rank(i) + Len(todo'[p]) - 1) < Checks(pc[p]) => Passed(s, i)
        /\ hpc'[p] \in {"reveal", "opens"} =>
             coms'[p] = [q \in Party |-> Commitment(Of(s, q, Head(todo'[p]).at))]
    BY <2>1 DEF CheckInv
  <2>3. QED
    BY <1>1, <2>1, <2>2, VerdictNext
<1>4. CASE GiveInstruction(p) \/ OnNext(p) \/ OnOpen(p) \/ OnInput(p)
  <2>1. /\ UNCHANGED <<pc[p], resp[p]>>
        /\ hpc'[p] \in {"action", "idle", "elems", "input"}
        /\ ~(hpc[p] = "action" /\ actChan[p] = <<>>)
    BY <1>4 DEF GiveInstruction, OnNext, OnOpen, OnInput, Reply, Go, Domains, At, TakeAction
  <2>2. hpc'[p] \notin CheckPhases /\ hpc'[p] \notin {"reveal", "opens"}
    BY <2>1 DEF CheckPhases
  <2>3. QED
    BY <1>1, <2>1, <2>2, VerdictNext
<1>5. CASE EndElems(p) \/ EndInputElem(p)
  <2>1. /\ pc'[p] = pc[p] /\ hpc[p] \in {"elems", "input"} /\ hpc'[p] = "action"
    BY <1>5 DEF EndElems, EndInputElem, Answer, Go, Domains, At
  <2>2. vpc[p] # "check"
    BY <2>1 DEF Handshake, PhaseInv
  <2>3. hpc'[p] \notin CheckPhases /\ hpc'[p] \notin {"reveal", "opens"}
    BY <2>1 DEF CheckPhases
  <2>4. QED
    BY <1>1, <2>1, <2>2, <2>3, VerdictNext
<1>6. CASE OnCheck(p)
  <2> DEFINE l == Head(actChan[p]).list
             n == Len(l)
  <2>1. /\ TakeAction(p, "Check") /\ todo'[p] = l /\ hpc'[p] = "commit"
        /\ UNCHANGED <<pc[p], resp[p]>>
    BY <1>6 DEF OnCheck, Go, Domains
  <2>2. /\ hpc[p] = "action" /\ actChan[p] # <<>> /\ Head(actChan[p]).act = "Check"
        /\ pc[p] \in DOMAIN Code /\ ActionFits(p, Head(actChan[p]))
    BY <2>1, TakenAction
  <2>3. IsSeq(l) /\ 2 * n = Checks(pc[p])
    BY <2>2 DEF ActionFits, Handshake, ListInv, CountInv
  <2>4. n \in Nat
    BY <2>3, SeqIsSeq DEF IsSeq
  <2> HIDE DEF l, n
  <2>5. ASSUME NEW i \in Listed(pc[p]) PROVE ~(2 * (Rank(i) + n - 1) < Checks(pc[p]))
    <3>1. Rank(i) \in Nat \ {0}
      BY <2>2, Ranks
    <3>2. QED
      BY <2>3, <2>4, <3>1
  <2>6. Len(todo'[p]) = n
    BY <2>1 DEF n
  <2>7. QED
    BY <1>1, <2>1, <2>2, <2>5, <2>6, VerdictNext
<1>7. CASE Commit(p) \/ EndComs(p) \/ Reveal(p)
  <2>1. /\ UNCHANGED <<pc[p], resp[p], todo[p]>> /\ hpc[p] \in {"commit", "coms", "reveal"}
        /\ hpc[p] \in CheckPhases
    BY <1>7 DEF Commit, EndComs, Reveal, At, CheckPhases
  <2>2. \A i \in Listed(pc[p]) :
          2 * (Rank(i) + Len(todo'[p]) - 1) < Checks(pc[p]) => Passed(s, i)
    BY <2>1 DEF CheckInv
  <2>3. hpc'[p] \in {"reveal", "opens"} =>
          coms'[p] = [q \in Party |-> Commitment(Of(s, q, Head(todo'[p]).at))]
    <3>1. CASE Commit(p)
      BY <3>1 DEF Commit, Go, Domains
    <3>2. CASE EndComs(p)
      <4>1. Receive(p) /\ At(p, "coms") /\ coms'[p] = Values(p)
        BY <3>2 DEF EndComs, Domains
      <4>2. Values(p) = [q \in Party |-> Commitment(Of(s, q, Head(todo[p]).at))]
        BY <4>1, ReceivedComs
      <4>3. QED
        BY <2>1, <4>1, <4>2
    <3>3. CASE Reveal(p)
      <4>1. hpc[p] = "reveal" /\ coms'[p] = coms[p]
        BY <3>3 DEF Reveal, At
      <4>2. QED
        BY <2>1, <4>1 DEF CheckInv
    <3>4. QED
      BY <1>7, <3>1, <3>2, <3>3
  <2>4. QED
    BY <1>1, <2>1, <2>2, <2>3, VerdictNext
<1>8. CASE EndOpens(p)
  BY <1>8, OpensVerdict
<1>9. QED
  BY <1>2, <1>3, <1>4, <1>5, <1>6, <1>7, <1>8 DEF PartyThread

-----------------------------------------------------------------------------
(* What the messages under way say of the values.                          *)

AllGood(s) == \A q, r \in Party : ChannelGood(s, q, r)

LEMMA GoodSame ==
  ASSUME NEW s, NEW q \in Party, NEW r \in Party, ChannelGood(s, q, r),
         peer'[q][r] = peer[q][r]
  PROVE  ChannelGood(s, q, r)'
<1>1. \A c : c = peer[q][r] => (IsSeq(c) /\ \A j \in DOMAIN c : Good(s, r, c[j]))
  BY DEF ChannelGood
<1>2. QED
  BY <1>1 DEF ChannelGood, IsSeq, Elems

LEMMA GoodSent ==
  ASSUME PeerDomains, NEW s, AllGood(s), NEW p \in Party, NEW kind, NEW val,
         Bcast(p, kind, val),
         Good(s, p, [kind |-> kind, at |-> Now(p), val |-> val])
  PROVE  AllGood(s)'
<1> DEFINE m == [kind |-> kind, at |-> Now(p), val |-> val]
<1> SUFFICES ASSUME NEW q \in Party, NEW r \in Party PROVE ChannelGood(s, q, r)'
  BY DEF AllGood
<1>1. ChannelGood(s, q, r)
  BY DEF AllGood
<1>2. CASE q \in Peers(p) /\ r = p
  <2> DEFINE c == peer[q][r]
             n == Append(c, m)
  <2>1. peer'[q][r] = n
    BY <1>2 DEF Bcast, PeerDomains
  <2>2. Good(s, r, m)
    BY <1>2
  <2> HIDE DEF m
  <2>3. IsSeq(c) /\ \A j \in DOMAIN c : Good(s, r, c[j])
    BY <1>1 DEF ChannelGood
  <2> HIDE DEF c
  <2>4. /\ IsSeq(n) /\ DOMAIN n = 1 .. Len(c) + 1 /\ DOMAIN c = 1 .. Len(c) /\ Len(c) \in Nat
        /\ \A j \in DOMAIN c : n[j] = c[j]
        /\ n[Len(c) + 1] = m
    BY <2>3, Appended
  <2> HIDE DEF n
  <2>5. ASSUME NEW j \in DOMAIN n PROVE Good(s, r, n[j])
    <3>1. CASE j \in DOMAIN c
      BY <2>3, <2>4, <3>1
    <3>2. CASE j = Len(c) + 1
      BY <2>2, <2>4, <3>2
    <3>3. QED
      BY <2>4, <3>1, <3>2
  <2>6. QED
    BY <2>1, <2>4, <2>5 DEF ChannelGood, IsSeq, Elems
<1>3. CASE ~(q \in Peers(p) /\ r = p)
  <2>1. peer'[q][r] = peer[q][r]
    BY <1>3 DEF Bcast, PeerDomains
  <2>2. QED
    BY <1>1, <2>1, GoodSame
<1>4. QED
  BY <1>2, <1>3

LEMMA GoodReceived ==
  ASSUME PeerDomains, NEW s, AllGood(s), NEW p \in Party, Receive(p)
  PROVE  AllGood(s)'
<1> SUFFICES ASSUME NEW q \in Party, NEW r \in Party PROVE ChannelGood(s, q, r)'
  BY DEF AllGood
<1>1. ChannelGood(s, q, r)
  BY DEF AllGood
<1>2. CASE q = p /\ r \in Awaited(p)
  <2> DEFINE c == peer[q][r]
             n == Tail(c)
  <2>1. peer'[q][r] = n /\ c # <<>>
    BY <1>2 DEF Receive, Arrived, PeerDomains
  <2>2. IsSeq(c) /\ \A j \in DOMAIN c : Good(s, r, c[j])
    BY <1>1 DEF ChannelGood
  <2> HIDE DEF c
  <2>3. /\ IsSeq(n) /\ DOMAIN n = 1 .. Len(c) - 1 /\ DOMAIN c = 1 .. Len(c) /\ Len(c) \in Nat
        /\ \A j \in 1 .. Len(c) - 1 : n[j] = c[j + 1]
    BY <2>1, <2>2, Shortened
  <2> HIDE DEF n
  <2>4. ASSUME NEW j \in DOMAIN n PROVE Good(s, r, n[j])
    <3>1. j + 1 \in DOMAIN c /\ n[j] = c[j + 1]
      BY <2>3
    <3>2. QED
      BY <2>2, <3>1
  <2>5. QED
    BY <2>1, <2>3, <2>4 DEF ChannelGood, IsSeq, Elems
<1>3. CASE ~(q = p /\ r \in Awaited(p))
  <2>1. peer'[q][r] = peer[q][r]
    BY <1>3 DEF Receive, PeerDomains
  <2>2. QED
    BY <1>1, <2>1, GoodSame
<1>4. QED
  BY <1>2, <1>3

LEMMA QuietGood ==
  ASSUME TypeOK, PeerDomains, Domains, NEW s, AllGood(s), NEW p \in Party, Handshake(p),
         RecordInv(s, p), OrderInv(p), PartyQuiet(p)
  PROVE  AllGood(s)'
<1> USE DEF prepVars, handVars, histVars, vars, partyVars, vmVars, linkVars
<1>1. CASE UNCHANGED peer
  BY <1>1, GoodSame DEF AllGood
<1>2. CASE EndElems(p) \/ EndInputElem(p) \/ EndComs(p) \/ EndOpens(p)
  BY <1>2, GoodReceived DEF EndElems, EndInputElem, EndComs, EndOpens
<1>3. CASE OnInput(p) /\ ~UNCHANGED peer
  <2> DEFINE m == [kind |-> "Elem", at |-> Now(p), val |-> {}]
  <2>1. TakeAction(p, "Input") /\ Bcast(p, "Elem", {})
    BY <1>3 DEF OnInput
  <2>2. Code[pc[p]].op = "Input"
    BY <2>1, TakenAction DEF ActionFits, Op
  <2>3. m.kind = "Elem" /\ m.at[1] = pc[p]
    BY DEF Now
  <2>4. Good(s, p, m)
    BY <2>2, <2>3 DEF Good, Opening
  <2>5. QED
    BY <2>1, <2>4, GoodSent
<1>4. CASE Commit(p)
  <2> DEFINE m == [kind |-> "Com", at |-> Now(p), val |-> Commitment(D(p))]
  <2> PICK h : h = Head(todo[p]).at
    OBVIOUS
  <2>1. Bcast(p, "Com", Commitment(D(p))) /\ hpc[p] \in CheckPhases
    BY <1>4 DEF Commit, At, CheckPhases
  <2>2. /\ D(p) = Of(s, p, h) /\ Known(s, h) /\ Place(pc[p], h, Len(todo[p]))
        /\ pc[p] \in DOMAIN Code /\ Len(todo[p]) \in Nat
    BY <2>1, AtHand
  <2>3. m.kind = "Com" /\ m.at[1] = pc[p] /\ m.at[2] = Len(todo[p]) /\ m.val = Commitment(D(p))
    BY DEF Now
  <2> HIDE DEF m
  <2>4. ASSUME NEW i, Place(m.at[1], i, m.at[2]) PROVE Known(s, i) /\ m.val = Commitment(Of(s, p, i))
    <3>1. Place(pc[p], i, Len(todo[p]))
      BY <2>3, <2>4
    <3>2. i = h
      BY <2>2, <3>1, OnePlace
    <3>3. QED
      BY <2>2, <2>3, <3>2
  <2>5. Good(s, p, m)
    BY <2>3, <2>4 DEF Good
  <2>6. QED
    BY <2>1, <2>5, GoodSent DEF m
<1>5. CASE Reveal(p)
  <2> DEFINE m == [kind |-> "Opening", at |-> Now(p), val |-> D(p)]
  <2> PICK h : h = Head(todo[p]).at
    OBVIOUS
  <2>1. Bcast(p, "Opening", D(p)) /\ hpc[p] \in CheckPhases
    BY <1>5 DEF Reveal, At, CheckPhases
  <2>2. /\ D(p) = Of(s, p, h) /\ Known(s, h) /\ Place(pc[p], h, Len(todo[p]))
        /\ pc[p] \in DOMAIN Code /\ Len(todo[p]) \in Nat
    BY <2>1, AtHand
  <2>3. m.kind = "Opening" /\ m.at[1] = pc[p] /\ m.at[2] = Len(todo[p]) /\ m.val = D(p)
    BY DEF Now
  <2> HIDE DEF m
  <2>4. ASSUME NEW i, Place(m.at[1], i, m.at[2]) PROVE Known(s, i) /\ m.val = Of(s, p, i)
    <3>1. Place(pc[p], i, Len(todo[p]))
      BY <2>3, <2>4
    <3>2. i = h
      BY <2>2, <3>1, OnePlace
    <3>3. QED
      BY <2>2, <2>3, <3>2
  <2>5. Good(s, p, m)
    BY <2>3, <2>4 DEF Good
  <2>6. QED
    BY <2>1, <2>5, GoodSent DEF m
<1>6. CASE Listen(p) \/ Forward(p) \/ ForwardFails(p) \/ PrepEnds(p) \/ HandlerFails(p)
           \/ GiveInstruction(p) \/ OnNext(p) \/ OnCheck(p)
  BY <1>1, <1>6 DEF Listen, Forward, ForwardFails, PrepEnds, HandlerFails, Fails, mpcVars,
     GiveInstruction, OnNext, OnCheck
<1>7. QED
  BY <1>1, <1>2, <1>3, <1>4, <1>5, <1>6 DEF PartyQuiet, PartyThread

\* What belongs to one party stays as it is when another takes a step.
LEMMA OwnLocal ==
  ASSUME TypeOK, Domains, [MpcNext]_allVars
  PROVE  \/ \E p \in Party : /\ PartyThread(p) \/ VMStep(p) \/ PrepEnds(p)
                             /\ \A q \in Party \ {p} : UNCHANGED Own(q)
         \/ UNCHANGED peer /\ \A q \in Party : UNCHANGED Own(q)
<1> USE DEF prepVars, handVars, histVars, vars, partyVars, vmVars, linkVars
<1>1. CASE \E p \in Party : /\ PartyThread(p) \/ VMStep(p) \/ PrepEnds(p)
                            /\ \A q \in Party \ {p} : UNCHANGED Local(q)
  <2>1. PICK p \in Party : /\ PartyThread(p) \/ VMStep(p) \/ PrepEnds(p)
                           /\ \A q \in Party \ {p} : UNCHANGED Local(q)
    BY <1>1
  <2>2. ASSUME NEW q \in Party \ {p} PROVE secret'[q] = secret[q]
    <3>1. CASE PartyThread(p) \/ PrepEnds(p)
      BY <3>1, PartyKeeps
    <3>2. CASE VMStep(p)
      BY <3>2 DEF VMStep, DoLocal, DoTriple, DoInput, DoOpen, DoStop, EndInput, EndOpen,
         EndCheck, VMTimeout, Domains
    <3>3. QED
      BY <2>1, <3>1, <3>2
  <2>3. ASSUME NEW q \in Party \ {p} PROVE coms'[q] = coms[q]
    <3>1. CASE VMStep(p)
      BY <3>1 DEF VMStep, DoLocal, DoTriple, DoInput, DoOpen, DoStop, EndInput, EndOpen,
         EndCheck, VMTimeout
    <3>2. CASE PartyThread(p) \/ PrepEnds(p)
      BY <3>2 DEF PartyThread, Listen, Forward, ForwardFails, PrepEnds, HandlerFails, Fails,
         mpcVars, GiveInstruction, OnNext, OnOpen, OnInput, OnCheck, EndElems, EndInputElem,
         Commit, EndComs, Reveal, EndOpens, Domains
    <3>3. QED
      BY <2>1, <3>1, <3>2
  <2>4. \A q \in Party \ {p} : UNCHANGED Own(q)
    BY <2>1, <2>2, <2>3 DEF Own
  <2>5. QED
    BY <2>1, <2>4
<1>2. CASE SyncThread /\ \A q \in Party : UNCHANGED Local(q)
  BY <1>2 DEF SyncThread, mpcVars, Own
<1>3. CASE UNCHANGED allVars /\ \A q \in Party : UNCHANGED Local(q)
  BY <1>3 DEF allVars, mpcVars, Own
<1>4. QED
  BY <1>1, <1>2, <1>3, StepOf

-----------------------------------------------------------------------------
(* A party sends its share of the value that an instruction opens.         *)

\* t is s with the share that p sends now.
Sent(s, t, p) == \A q \in Party, i \in DOMAIN Code :
  t[q][i] = IF q = p /\ i = pc[p] THEN Head(actChan[p]).share ELSE s[q][i]

LEMMA OpenValues ==
  ASSUME Self, TypeOK, HandInv, AllCount, AllOrder, PeerDomains, RightMessage,
         NEW s, Consistent(s), NEW p \in Party, OnOpen(p),
         \A q \in Party \ {p} : UNCHANGED Own(q)
  PROVE  \E t : Consistent(t)' /\ Sent(s, t, p)
<1> USE DEF prepVars, handVars, histVars, vars, partyVars, vmVars, linkVars
<1> PICK share : share = Head(actChan[p]).share
  OBVIOUS
<1> PICK k : k = pc[p]
  OBVIOUS
<1> DEFINE t == [q \in Party |-> [i \in DOMAIN Code |->
                   IF q = p /\ i = k THEN share ELSE s[q][i]]]
           m == [kind |-> "Elem", at |-> Now(p), val |-> share]
<1>1. /\ Domains /\ Handshake(p) /\ TakeAction(p, "Open") /\ Bcast(p, "Elem", share)
      /\ UNCHANGED <<pc, resp, secret, vpc>> /\ hpc'[p] = "elems"
  BY DEF OnOpen, Go, Domains, HandInv, TakeAction
<1>2. /\ k \in DOMAIN Code /\ actChan[p] # <<>> /\ Head(actChan[p]).act = "Open"
      /\ actChan'[p] = <<>> /\ instChan'[p] = <<>> /\ resp[p] = <<>>
  BY <1>1, TakenAction
<1>3. SentInv(s, p) /\ Unsent(p)
  BY <1>2 DEF Consistent, Unsent
<1>4. s[p][k] = {} /\ share # {} /\ (vpc[p] = "open" => share = Operand(p))
  <2>1. k \in Nat /\ ~(k < k)
    BY <1>2, CodeFacts
  <2>2. QED
    BY <1>2, <1>3, <2>1 DEF SentInv
<1>5. /\ \A q \in Party, i \in DOMAIN Code : t[q][i] = IF q = p /\ i = k THEN share ELSE s[q][i]
  OBVIOUS
<1> HIDE DEF t
<1>6. Grows(s, t)
  BY <1>4, <1>5 DEF Grows
<1>7. AllGood(t)
  BY <1>6, GoodGrows DEF AllGood, Consistent, ChannelGood
<1>8. ASSUME NEW q \in Party
      PROVE  RecordInv(t, q) /\ CheckInv(t, q) /\ (q # p => SentInv(t, q))
  <2>1. RecordInv(s, q) /\ SentInv(s, q) /\ CheckInv(s, q) /\ Handshake(q)
    BY DEF Consistent, HandInv
  <2>2. q # p => \A i \in DOMAIN Code : t[q][i] = s[q][i]
    BY <1>5
  <2>3. QED
    BY <1>6, <2>1, <2>2, RecordGrows, SentGrows, VerdictGrows
<1>9. SentInv(t, p)'
  <2>1. Operand(p)' = Operand(p)
    BY <1>1 DEF Operand
  <2>2. ~Unsent(p)'
    BY <1>1, <1>2 DEF Unsent
  <2>3. \A i \in DOMAIN Code : t[p][i] # {} => i < k \/ i = k
    BY <1>3, <1>5 DEF SentInv
  <2>4. t[p][k] = share
    BY <1>2, <1>5
  <2>5. QED
    BY <1>1, <1>2, <1>4, <2>1, <2>2, <2>3, <2>4 DEF SentInv
<1>10. RecordInv(t, p)' /\ CheckInv(t, p)'
  <2>1. PartyThread(p) /\ OrderInv(p) /\ CountInv(p)
    BY DEF PartyThread, AllOrder, AllCount
  <2>2. RecordInv(t, p) /\ CheckInv(t, p) /\ \A q \in Party : ChannelGood(t, p, q)
    BY <1>7, <1>8 DEF AllGood
  <2>3. QED
    BY <1>1, <2>1, <2>2, PartyRecord, PartyVerdict
<1>11. ASSUME NEW q \in Party \ {p} PROVE RecordInv(t, q)' /\ SentInv(t, q)' /\ CheckInv(t, q)'
  BY <1>8, ValuesLocal
<1>12. AllGood(t)'
  <2>1. m.kind = "Elem" /\ m.at[1] = k /\ m.val = share
    BY DEF Now
  <2>2. t[p][k] = share
    BY <1>2, <1>5
  <2>3. Good(t, p, m)
    BY <1>2, <1>4, <2>1, <2>2 DEF Good
  <2>4. QED
    BY <1>1, <1>7, <2>3, GoodSent
<1>13. Consistent(t)'
  BY <1>9, <1>10, <1>11, <1>12 DEF Consistent, AllGood
<1>14. Sent(s, t, p)
  BY <1>5 DEF Sent
<1>15. QED
  BY <1>13, <1>14

LEMMA StepValues ==
  ASSUME Self, TypeOK, HandInv, AllCount, AllOrder, PeerDomains, RightMessage,
         NEW s, Consistent(s), NEW p \in Party, PartyQuiet(p) \/ VMStep(p),
         \A q \in Party \ {p} : UNCHANGED Own(q)
  PROVE  Consistent(s)'
<1>1. /\ Domains /\ Handshake(p) /\ CountInv(p) /\ OrderInv(p) /\ pc[p] \in Nat
      /\ RecordInv(s, p) /\ SentInv(s, p) /\ CheckInv(s, p) /\ AllGood(s)
      /\ \A q \in Party : ChannelGood(s, p, q)
  BY DEF HandInv, AllCount, AllOrder, Consistent, AllGood, TypeOK
<1>2. ASSUME NEW q \in Party \ {p} PROVE RecordInv(s, q)' /\ SentInv(s, q)' /\ CheckInv(s, q)'
  <2>1. UNCHANGED Own(q) /\ RecordInv(s, q) /\ SentInv(s, q) /\ CheckInv(s, q)
    BY DEF Consistent
  <2>2. QED
    BY <2>1, ValuesLocal
<1>3. CASE PartyQuiet(p)
  <2>1. RecordInv(s, p)'
    BY <1>1, <1>3, PartyRecord DEF PartyQuiet
  <2>2. SentInv(s, p)'
    BY <1>1, <1>3, PartySent
  <2>3. CheckInv(s, p)'
    BY <1>1, <1>3, PartyVerdict DEF PartyQuiet
  <2>4. AllGood(s)'
    BY <1>1, <1>3, QuietGood
  <2>5. QED
    BY <1>2, <2>1, <2>2, <2>3, <2>4 DEF Consistent, AllGood
<1>4. CASE VMStep(p)
  <2>1. UNCHANGED peer
    BY <1>4 DEF VMStep, DoLocal, DoTriple, DoInput, DoOpen, DoStop, EndInput, EndOpen,
       EndCheck, VMTimeout
  <2>2. AllGood(s)'
    BY <1>1, <2>1, GoodSame DEF AllGood
  <2>3. RecordInv(s, p)' /\ SentInv(s, p)' /\ CheckInv(s, p)'
    BY <1>1, <1>4, VMRecord, VMSent, VMVerdict
  <2>4. QED
    BY <1>2, <2>2, <2>3 DEF Consistent, AllGood
<1>5. QED
  BY <1>3, <1>4

LEMMA InitConsistent ==
  ASSUME MpcInit PROVE Consistent([q \in Party |-> [i \in DOMAIN Code |-> {}]])
<1> DEFINE s == [q \in Party |-> [i \in DOMAIN Code |-> {}]]
<1> SUFFICES Consistent(s)
  OBVIOUS
<1>1. \A p \in Party, i \in DOMAIN Code : s[p][i] = {}
  OBVIOUS
<1> HIDE DEF s
<1>2. ASSUME NEW p \in Party PROVE RecordInv(s, p) /\ SentInv(s, p) /\ CheckInv(s, p)
  <2>1. /\ openings[p] = <<>> /\ todo[p] = <<>> /\ actChan[p] = <<>> /\ resp[p] = <<>>
        /\ hpc[p] = "idle" /\ vpc[p] = "idle" /\ verified[p] = {} /\ vmErr[p] = "none"
    BY DEF MpcInit
  <2>2. RecordInv(s, p)
    BY <2>1, EmptyIsSeq DEF RecordInv
  <2>3. SentInv(s, p)
    BY <1>1, <2>1 DEF SentInv
  <2>4. CheckInv(s, p)
    BY <2>1 DEF CheckInv, CheckPhases
  <2>5. QED
    BY <2>2, <2>3, <2>4
<1>3. ASSUME NEW p \in Party, NEW q \in Party PROVE ChannelGood(s, p, q)
  <2>1. peer[p][q] = <<>>
    BY DEF MpcInit
  <2>2. QED
    BY <2>1, EmptyIsSeq DEF ChannelGood
<1>4. QED
  BY <1>2, <1>3 DEF Consistent

LEMMA InitValues == MpcInit => ValuesInv
  BY InitConsistent DEF ValuesInv

LEMMA NextValues ==
  ASSUME Self, TypeOK, HandInv, AllCount, AllOrder, PeerDomains, RightMessage, ValuesInv,
         [MpcNext]_allVars
  PROVE  ValuesInv'
<1>1. PICK s : Consistent(s)
  BY DEF ValuesInv
<1>2. CASE UNCHANGED peer /\ \A q \in Party : UNCHANGED Own(q)
  <2>1. ASSUME NEW q \in Party PROVE RecordInv(s, q)' /\ SentInv(s, q)' /\ CheckInv(s, q)'
    BY <1>1, <1>2, ValuesLocal DEF Consistent
  <2>2. AllGood(s)'
    BY <1>1, <1>2, GoodSame DEF AllGood, Consistent
  <2>3. Consistent(s)'
    BY <2>1, <2>2 DEF Consistent, AllGood
  <2>4. QED
    BY <2>3 DEF ValuesInv
<1>3. ASSUME NEW p \in Party, PartyThread(p) \/ VMStep(p) \/ PrepEnds(p),
             \A q \in Party \ {p} : UNCHANGED Own(q)
      PROVE  ValuesInv'
  <2>1. CASE OnOpen(p)
    <3>1. \E t : Consistent(t)'
      BY <1>1, <1>3, <2>1, OpenValues
    <3>2. QED
      BY <3>1 DEF ValuesInv
  <2>2. CASE PartyQuiet(p) \/ VMStep(p)
    <3>1. Consistent(s)'
      BY <1>1, <1>3, <2>2, StepValues
    <3>2. QED
      BY <3>1 DEF ValuesInv
  <2>3. QED
    BY <1>3, <2>1, <2>2 DEF PartyQuiet
<1>4. Domains
  BY DEF HandInv
<1>5. QED
  BY <1>2, <1>3, <1>4, OwnLocal

LEMMA ValuesHold == ASSUME Self PROVE MpcSpec => []ValuesInv
<1>1. MpcInit => AllCount /\ AllOrder /\ ValuesInv
  BY InitCount, InitOrder, InitValues
<1>2. TypeOK /\ HandInv /\ AllCount /\ [MpcNext]_allVars => AllCount'
  BY NextCount
<1>3. TypeOK /\ HandInv /\ AllCount /\ AllOrder /\ [MpcNext]_allVars => AllOrder'
  BY NextOrder
<1>4. /\ TypeOK /\ HandInv /\ AllCount /\ AllOrder /\ ExchangeInv /\ RightMessage /\ ValuesInv
      /\ [MpcNext]_allVars
      => ValuesInv'
  BY NextValues DEF ExchangeInv
<1>5. MpcSpec => []TypeOK
  BY MpcImplementsLockstep, TypeCorrect, PTL
<1>6. QED
  BY <1>1, <1>2, <1>3, <1>4, <1>5, HandshakeHolds, ExchangeHolds, MessagesAreRight,
     PTL DEF MpcSpec

\* What an Open leaves in the clear registers is the same for all parties, and
\* everybody's share is in it (OpenAgreement), in the wiring of
\* integration_test.rs, though no message says which value it belongs to.
THEOREM OpeningsAgree == ASSUME Self PROVE MpcSpec => []OpenAgreement
<1>1. ValuesInv => OpenAgreement
  <2> SUFFICES ASSUME ValuesInv, NEW p \in Party, NEW q \in Party,
                      NEW i \in DOMAIN openings[p], NEW j \in DOMAIN openings[q],
                      openings[p][i].at = openings[q][j].at
               PROVE  openings[p][i].x = openings[q][j].x /\ DOMAIN openings[p][i].x = Party
    BY DEF OpenAgreement
  <2>1. PICK s : Consistent(s)
    BY DEF ValuesInv
  <2>2. Recorded(s, p, openings[p][i]) /\ Recorded(s, q, openings[q][j])
    BY <2>1 DEF Consistent, RecordInv
  <2>3. openings[p][i].x = Sum(s, openings[p][i].at) /\ openings[q][j].x = Sum(s, openings[q][j].at)
    BY <2>2 DEF Recorded
  <2>4. DOMAIN Sum(s, openings[p][i].at) = Party
    BY DEF Sum
  <2>5. QED
    BY <2>3, <2>4
<1>2. QED
  BY <1>1, ValuesHold, PTL

\* A check that fails for one party passes for none, and no opening is ever
\* taken for that of another commitment (VerdictAgreement): the parties go
\* through their partial openings in the same order, and give up at the same.
THEOREM VerdictsAgree == ASSUME Self PROVE MpcSpec => []VerdictAgreement
<1>1. IInv /\ ExchangeInv /\ ValuesInv => VerdictAgreement
  <2> SUFFICES ASSUME IInv, ExchangeInv, ValuesInv, NEW p \in Party
               PROVE  /\ vmErr[p] # "BadCommitment"
                      /\ vmErr[p] = "SumIsNotZero" =>
                           \A q \in Party : \A v \in verified[q] : v.by < pc[p]
    BY DEF VerdictAgreement
  <2>1. PICK s : Consistent(s)
    BY DEF ValuesInv
  <2>2. CheckInv(s, p)
    BY <2>1 DEF Consistent
  <2>3. ASSUME vmErr[p] = "SumIsNotZero", NEW q \in Party, NEW v \in verified[q]
        PROVE  v.by < pc[p]
    <3>1. hpc[p] = "action" /\ pc[p] \in DOMAIN Code /\ Broken(s, pc[p])
      BY <2>2, <2>3 DEF CheckInv
    <3>2. v.by \in DOMAIN Code /\ v.at <= v.by /\ v.by <= pc[q] /\ Sound(s, v.by)
      BY <2>1 DEF Consistent, CheckInv
    <3>3. replied[p] < pc[p]
      BY <3>1 DEF ExchangeInv, Behind
    <3>4. pc[q] <= replied[p] + 1 /\ pc[p] \in Nat /\ pc[q] \in Nat /\ replied[p] \in Nat
      <4>1. /\ pc[q] + Nexts(q) <= round /\ Nexts(q) \in {0, 1} /\ round \in Nat
            /\ replied[p] >= round - 1 /\ pc[p] \in Nat /\ pc[q] \in Nat /\ replied[p] \in Nat
        BY Counts
      <4>2. QED
        BY <4>1
    <3>5. v.by # pc[p]
      BY <3>1, <3>2 DEF Broken, Sound, Passed
    <3>6. v.by \in Nat
      BY <3>2, CodeFacts
    <3>7. QED
      BY <3>2, <3>3, <3>4, <3>5, <3>6
  <2>4. QED
    BY <2>2, <2>3 DEF CheckInv
<1>2. MpcSpec => []IInv
  BY MpcImplementsLockstep, Inductive, PTL
<1>3. QED
  BY <1>1, <1>2, ValuesHold, ExchangeHolds, PTL

-----------------------------------------------------------------------------
(* The computation as the ideal functionality sees it.                     *)

\* A party executes nothing after its first Stop, and returns at that.
StopInv == \A p \in Party :
  /\ \A j \in 1 .. pc[p] - 1 : Code[j].op # "Stop"
  /\ ppc[p] \in {"waiting", "running"} =>
       pc[p] = 0 \/ (pc[p] \in DOMAIN Code /\ Code[pc[p]].op # "Stop")
  /\ ppc[p] \in {"joining", "ok"} => pc[p] \in DOMAIN Code /\ Code[pc[p]].op = "Stop"

LEMMA InitStop == Init => StopInv
  BY DEF Init, StopInv

LEMMA NextStop == TypeOK /\ HandInv /\ StopInv /\ [Next]_vars => StopInv'
<1> SUFFICES ASSUME TypeOK, HandInv, StopInv, [Next]_vars, NEW q \in Party
             PROVE  /\ \A j \in 1 .. pc'[q] - 1 : Code[j].op # "Stop"
                    /\ ppc'[q] \in {"waiting", "running"} =>
                         pc'[q] = 0 \/ (pc'[q] \in DOMAIN Code /\ Code[pc'[q]].op # "Stop")
                    /\ ppc'[q] \in {"joining", "ok"} =>
                         pc'[q] \in DOMAIN Code /\ Code[pc'[q]].op = "Stop"
  BY DEF StopInv
<1> USE DEF vars, syncVars, partyVars, chanVars
<1>1. /\ \A j \in 1 .. pc[q] - 1 : Code[j].op # "Stop"
      /\ ppc[q] \in {"waiting", "running"} =>
           pc[q] = 0 \/ (pc[q] \in DOMAIN Code /\ Code[pc[q]].op # "Stop")
      /\ ppc[q] \in {"joining", "ok"} => pc[q] \in DOMAIN Code /\ Code[pc[q]].op = "Stop"
      /\ pc[q] \in Nat /\ (ppc[q] = "busy" => pc[q] \in DOMAIN Code)
  BY DEF StopInv, TypeOK, HandInv, Handshake, PhaseInv
<1>2. CASE UNCHANGED <<pc[q], ppc[q]>>
  BY <1>1, <1>2
<1>3. CASE Fetch(q)
  <2>1. ppc[q] = "running" /\ ppc'[q] \in {"busy", "panic"} /\ pc'[q] \in {pc[q], pc[q] + 1}
    BY <1>3 DEF Fetch, TypeOK
  <2>2. \A j \in 1 .. pc'[q] - 1 : j \in 1 .. pc[q] - 1 \/ (pc[q] # 0 /\ j = pc[q])
    BY <1>1, <2>1
  <2>3. QED
    BY <1>1, <2>1, <2>2
<1>4. CASE Reply(q) \/ ReplyAbort(q)
  <2>1. /\ ppc[q] = "busy" /\ pc' = pc
        /\ ppc'[q] = IF prog[q][pc[q]] = "stop" THEN "joining" ELSE "running"
    BY <1>4 DEF Reply, ReplyAbort, Executed, TypeOK
  <2>2. prog[q][pc[q]] = "stop" <=> Code[pc[q]].op = "Stop"
    BY <1>1, <2>1, CodeFacts DEF HandInv
  <2>3. QED
    BY <1>1, <2>1, <2>2
<1>5. CASE AwaitStart(q)
  BY <1>1, <1>5 DEF AwaitStart, TypeOK
<1>6. CASE SyncLost(q) \/ BusyFails(q) \/ PrepFails(q) \/ Join(q)
  BY <1>1, <1>6 DEF SyncLost, BusyFails, PrepFails, Join, TypeOK
<1>7. CASE Sync
  BY <1>2, <1>7 DEF Sync, Send, SendFails, BroadcastEnds, Collect, CollectFails, Decide
<1>8. ASSUME NEW p \in Party \ {q}, PartyStep(p) \/ PrepFails(p)
      PROVE  UNCHANGED <<pc[q], ppc[q]>>
  BY <1>8 DEF PartyStep, AwaitStart, Fetch, SyncLost, Reply, ReplyAbort, BusyFails, Join,
     PrepFails, TypeOK
<1>9. QED
  BY <1>2, <1>3, <1>4, <1>5, <1>6, <1>7, <1>8 DEF Next, PartyStep, Terminated

\* A thread that has ended stays ended, and returns a result only by Join.
LEMMA EndSteps ==
  ASSUME TypeOK, NEW p \in Party, PartyThread(p) \/ PrepEnds(p)
  PROVE  /\ ppc[p] \in Ended => ppc'[p] = ppc[p]
         /\ ppc'[p] = "ok" => ppc[p] \in {"joining", "ok"}
<1>1. PartyStep(p) \/ PrepFails(p) \/ UNCHANGED vars
  BY PartyThreadSteps DEF PrepEnds
<1>2. QED
  BY <1>1 DEF PartyStep, AwaitStart, Fetch, SyncLost, Reply, ReplyAbort, BusyFails, Join,
     PrepFails, TypeOK, Ended, vars, partyVars

Checked(p) == {[at |-> v.at, x |-> v.x] : v \in verified[p]}
End(p) == CASE ppc[p] = "ok" -> "ok"
            [] ppc[p] \in {"err", "panic"} -> "failed"
            [] OTHER -> "running"
Openings == {i \in Reached : Code[i].op \in {"Open", "SOutput"}}

\* What a party takes for opened is opened before its Stop, and the sum of
\* everybody's shares, all of the same sharing.
LEMMA CheckedFacts ==
  ASSUME NEW s, Consistent(s), StopInv, TypeOK, NEW p \in Party, NEW w \in Checked(p)
  PROVE  /\ w = [at |-> w.at, x |-> w.x] /\ w.x = Sum(s, w.at) /\ Agreed(s, w.at)
         /\ w.at \in Openings
<1>1. PICK v \in verified[p] : w = [at |-> v.at, x |-> v.x]
  BY DEF Checked
<1>2. /\ v.at \in DOMAIN Code /\ Code[v.at].op \in Opening
      /\ v.x = Sum(s, v.at) /\ Passed(s, v.at)
      /\ v.by \in DOMAIN Code /\ v.at <= v.by /\ v.by <= pc[p]
  BY DEF Consistent, CheckInv
<1>3. w.at = v.at /\ w.x = v.x
  BY <1>1
<1>4. v.at \in Openings
  <2>1. v.at \in Nat /\ v.by \in Nat /\ pc[p] \in Nat
    BY <1>2, CodeFacts DEF TypeOK
  <2>2. Code[v.at].op \in {"Open", "SOutput"}
    BY <1>2 DEF Opening
  <2>3. ASSUME NEW j \in 1 .. v.at PROVE Code[j].op # "Stop"
    <3>1. CASE j = v.at
      BY <2>2, <3>1
    <3>2. CASE j # v.at
      <4>1. j \in 1 .. pc[p] - 1
        BY <1>2, <2>1, <3>2
      <4>2. QED
        BY <4>1 DEF StopInv
    <3>3. QED
      BY <3>1, <3>2
  <2>4. QED
    BY <1>2, <2>2, <2>3 DEF Openings, Reached
<1>5. QED
  BY <1>1, <1>2, <1>3, <1>4 DEF Passed

\* So the functionality would have it.
IdealInv == \A p, q \in Party : \A w \in Checked(p), v \in Checked(q) :
  /\ w.at \in Openings
  /\ C!Authentic(w.x)
  /\ w.at = v.at => w.x = v.x /\ w = v

LEMMA IdealHolds == TypeOK /\ StopInv /\ ValuesInv => IdealInv
<1> SUFFICES ASSUME TypeOK, StopInv, ValuesInv, NEW p \in Party, NEW q \in Party,
                    NEW w \in Checked(p), NEW v \in Checked(q)
             PROVE  /\ w.at \in Openings
                    /\ C!Authentic(w.x)
                    /\ w.at = v.at => w.x = v.x /\ w = v
  BY DEF IdealInv
<1>1. PICK s : Consistent(s)
  BY DEF ValuesInv
<1>2. /\ w = [at |-> w.at, x |-> w.x] /\ w.x = Sum(s, w.at) /\ Agreed(s, w.at)
      /\ w.at \in Openings
  BY <1>1, CheckedFacts
<1>3. v = [at |-> v.at, x |-> v.x] /\ v.x = Sum(s, v.at)
  BY <1>1, CheckedFacts
<1>4. C!Authentic(w.x)
  BY <1>2 DEF C!Authentic, Sum, Agreed
<1>5. ASSUME w.at = v.at PROVE w.x = v.x /\ w = v
  BY <1>2, <1>3, <1>5
<1>6. QED
  BY <1>2, <1>4, <1>5

\* A MAC check that passes is a Check of the functionality.
LEMMA CheckStep ==
  ASSUME Domains, IdealInv', NEW p \in Party, ppc[p] # "ok",
         verified[p] \subseteq verified'[p], UNCHANGED ppc,
         \A q \in Party \ {p} : verified'[q] = verified[q]
  PROVE  C!Check(p)
<1> DEFINE c == [q \in Party |-> Checked(q)]
           e == [q \in Party |-> End(q)]
<1>1. \A q \in Party \ {p} : Checked(q)' = Checked(q)
  BY DEF Checked
<1>2. Checked(p) \subseteq Checked(p)'
  BY DEF Checked
<1>3. End(p) # "ok" /\ \A q \in Party : End(q)' = End(q)
  BY DEF End
<1>4. ASSUME NEW w \in Checked(p)'
      PROVE  /\ w.at \in Openings /\ C!Authentic(w.x)
             /\ \A q \in Party : \A v \in Checked(q) : v.at = w.at => v.x = w.x
             /\ \A v \in Checked(p)' : v.at = w.at => v = w
  <2>1. \A q \in Party : Checked(q) \subseteq Checked(q)'
    BY <1>1, <1>2
  <2>2. \A q \in Party : \A v \in Checked(q)' :
          /\ w.at \in Openings /\ C!Authentic(w.x)
          /\ v.at = w.at => v.x = w.x /\ v = w
    BY DEF IdealInv
  <2>3. QED
    BY <2>1, <2>2
<1>5. QED
  BY <1>1, <1>2, <1>3, <1>4 DEF C!Check, C!Agrees, Checked, End, Openings

\* A party that returns has all the values that its program opens.
LEMMA ReturnStep ==
  ASSUME TypeOK, HandInv, StopInv, ResultIsChecked, NEW p \in Party, ppc[p] = "joining",
         ppc'[p] = "ok", UNCHANGED verified,
         \A q \in Party \ {p} : ppc'[q] = ppc[q]
  PROVE  C!Return(p)
<1>1. {w.at : w \in Checked(p)} = {v.at : v \in verified[p]}
  <2>1. ASSUME NEW w \in Checked(p) PROVE \E v \in verified[p] : w.at = v.at
    BY DEF Checked
  <2>2. ASSUME NEW v \in verified[p] PROVE \E w \in Checked(p) : w.at = v.at
    <3>1. [at |-> v.at, x |-> v.x] \in Checked(p) /\ [at |-> v.at, x |-> v.x].at = v.at
      BY DEF Checked
    <3>2. QED
      BY <3>1
  <2>3. QED
    BY <2>1, <2>2
<1>2. {v.at : v \in verified[p]} = {i \in 1 .. pc[p] : Code[i].op \in {"Open", "SOutput"}}
  BY DEF ResultIsChecked
<1>3. /\ pc[p] \in DOMAIN Code /\ Code[pc[p]].op = "Stop" /\ pc[p] \in Nat
      /\ \A j \in 1 .. pc[p] - 1 : Code[j].op # "Stop"
      /\ DOMAIN Code = 1 .. Len(Code) /\ Len(Code) \in Nat
  BY CodeFacts DEF StopInv, TypeOK
<1>4. ASSUME NEW i \in 1 .. pc[p], Code[i].op \in {"Open", "SOutput"} PROVE i \in Openings
  <2>1. i \in DOMAIN Code /\ \A j \in 1 .. i : j \in 1 .. pc[p] - 1
    BY <1>3, <1>4
  <2>2. QED
    BY <1>3, <1>4, <2>1 DEF Openings, Reached
<1>5. ASSUME NEW i \in Openings PROVE i \in 1 .. pc[p] /\ Code[i].op \in {"Open", "SOutput"}
  <2>1. i \in 1 .. Len(Code) /\ ~(pc[p] \in 1 .. i)
    BY <1>3 DEF Openings, Reached
  <2>2. QED
    BY <1>3, <2>1 DEF Openings
<1>6. {w.at : w \in Checked(p)} = Openings
  BY <1>1, <1>2, <1>4, <1>5
<1>7. /\ End(p) = "running" /\ End(p)' = "ok"
      /\ \A q \in Party \ {p} : End(q)' = End(q)
      /\ \A q \in Party : Checked(q)' = Checked(q)
  BY DEF End, Checked
<1>8. QED
  BY <1>6, <1>7 DEF C!Return, Checked, End, Openings

LEMMA FailStep ==
  ASSUME NEW p \in Party, ppc[p] \notin Ended, ppc'[p] \in {"err", "panic"}, UNCHANGED verified,
         \A q \in Party \ {p} : ppc'[q] = ppc[q]
  PROVE  C!Fail(p)
<1>1. /\ End(p) = "running" /\ End(p)' = "failed"
      /\ \A q \in Party \ {p} : End(q)' = End(q)
      /\ \A q \in Party : Checked(q)' = Checked(q)
  BY DEF End, Checked, Ended
<1>2. QED
  BY <1>1 DEF C!Fail, Checked, End

LEMMA SameStep ==
  ASSUME \A q \in Party : Checked(q)' = Checked(q) /\ End(q)' = End(q)
  PROVE  UNCHANGED C!vars
  BY DEF C!vars, Checked, End

LEMMA IdealStep ==
  ASSUME TypeOK, TypeOK', HandInv, StopInv, ResultIsChecked, IdealInv', [MpcNext]_allVars
  PROVE  [C!Next]_C!vars
<1> USE DEF prepVars, handVars, histVars, vars, partyVars, vmVars, linkVars
<1>1. Domains
  BY DEF HandInv
<1>2. CASE \A q \in Party : UNCHANGED Local(q)
  BY <1>2, SameStep DEF Local, Checked, End
<1>3. ASSUME NEW p \in Party, PartyThread(p) \/ VMStep(p) \/ PrepEnds(p),
             \A q \in Party \ {p} : UNCHANGED Local(q)
      PROVE  [C!Next]_C!vars
  <2>1. \A q \in Party \ {p} : verified'[q] = verified[q] /\ ppc'[q] = ppc[q]
    BY <1>3 DEF Local
  <2>2. CASE VMStep(p)
    <3>1. UNCHANGED ppc
      BY <2>2, VMStepStutters
    <3>2. verified[p] \subseteq verified'[p]
      BY <1>1, <2>2 DEF VMStep, DoLocal, DoTriple, DoInput, DoOpen, DoStop, EndInput, EndOpen,
         EndCheck, VMTimeout, Domains
    <3>3. CASE verified'[p] = verified[p]
      BY <2>1, <3>1, <3>3, SameStep DEF Checked, End
    <3>4. CASE verified'[p] # verified[p]
      <4>1. EndCheck(p)
        BY <2>2, <3>4 DEF VMStep, DoLocal, DoTriple, DoInput, DoOpen, DoStop, EndInput, EndOpen,
           VMTimeout
      <4>2. vpc[p] = "check"
        BY <4>1 DEF EndCheck
      <4>3. ppc[p] # "ok"
        BY <4>2 DEF HandInv, Handshake, PhaseInv
      <4>4. C!Check(p)
        BY <1>1, <2>1, <3>1, <3>2, <4>3, CheckStep
      <4>5. QED
        BY <4>4 DEF C!Next
    <3>5. QED
      BY <3>3, <3>4
  <2>3. CASE PartyThread(p) \/ PrepEnds(p)
    <3>1. UNCHANGED verified
      BY <2>3, PartyKeeps
    <3>2. /\ ppc[p] \in Ended => ppc'[p] = ppc[p]
          /\ ppc'[p] = "ok" => ppc[p] \in {"joining", "ok"}
      BY <2>3, EndSteps
    <3>3. CASE ppc[p] \in Ended \/ ppc'[p] \notin Ended
      <4>1. End(p)' = End(p)
        BY <3>2, <3>3 DEF End, Ended
      <4>2. QED
        BY <2>1, <3>1, <4>1, SameStep DEF Checked, End
    <3>4. CASE ppc[p] \notin Ended /\ ppc'[p] = "ok"
      <4>1. C!Return(p)
        BY <2>1, <3>1, <3>2, <3>4, ReturnStep DEF Ended
      <4>2. QED
        BY <4>1 DEF C!Next
    <3>5. CASE ppc[p] \notin Ended /\ ppc'[p] \in {"err", "panic"}
      <4>1. C!Fail(p)
        BY <2>1, <3>1, <3>5, FailStep
      <4>2. QED
        BY <4>1 DEF C!Next
    <3>6. QED
      BY <3>3, <3>4, <3>5 DEF Ended
  <2>4. QED
    BY <1>3, <2>2, <2>3
<1>4. QED
  BY <1>1, <1>2, <1>3, StepOf

\* The parties compute what the ideal functionality would have them compute, or
\* fail (ImplementsComputation): every check that passes, every result that is
\* returned and every failure is a step that Computation allows, for any number
\* of parties, program and preprocessing, however late the timeouts.
THEOREM ComputationIsIdeal == ASSUME Self PROVE MpcSpec => ImplementsComputation
<1>1. MpcInit => C!Init
  <2> SUFFICES ASSUME MpcInit PROVE C!Init
    OBVIOUS
  <2>1. \A q \in Party : verified[q] = {} /\ ppc[q] = "waiting"
    BY DEF MpcInit, Init
  <2>2. \A q \in Party : Checked(q) = {} /\ End(q) = "running"
    BY <2>1 DEF Checked, End
  <2>3. QED
    BY <2>2 DEF C!Init, Checked, End
<1>2. TypeOK /\ TypeOK' /\ HandInv /\ StopInv /\ ResultIsChecked /\ IdealInv'
        /\ [MpcNext]_allVars => [C!Next]_C!vars
  BY IdealStep
<1>3. MpcSpec => []TypeOK
  BY MpcImplementsLockstep, TypeCorrect, PTL
<1>4. MpcSpec => []StopInv
  BY <1>3, InitStop, NextStop, HandshakeHolds, MpcImplementsLockstep, PTL DEF Spec
<1>5. MpcSpec => []IdealInv
  BY <1>3, <1>4, IdealHolds, ValuesHold, PTL
<1>6. QED
  BY <1>1, <1>2, <1>3, <1>4, <1>5, HandshakeHolds, ResultsAreChecked,
     PTL DEF MpcSpec, ImplementsComputation, C!Spec

-----------------------------------------------------------------------------
(* What a computation takes from its preprocessing when its program and    *)
(* the preprocessing suit each other: everybody the same sharing for the   *)
(* same instruction, whatever arrives when.                                *)

LEMMA CountIsNat ==
  ASSUME NEW S, NEW k \in Int PROVE IsFiniteSet(S \cap (1 .. k)) /\ Count(S, k) \in Nat
<1>1. IsFiniteSet(1 .. k)
  BY FS_Interval
<1>2. QED
  BY <1>1, FS_Subset, FS_CardinalityType DEF Count

LEMMA CountFacts ==
  ASSUME NEW S, NEW k \in Nat
  PROVE  /\ Count(S, 0) = 0 /\ Count(S, k) \in Nat
         /\ k + 1 \in S => Count(S, k + 1) = Count(S, k) + 1
         /\ k + 1 \notin S => Count(S, k + 1) = Count(S, k)
         /\ \A j \in 1 .. k : j \in S /\ k \in S /\ Count(S, j) = Count(S, k) => j = k
<1>1. ASSUME NEW j \in Nat PROVE IsFiniteSet(S \cap (1 .. j)) /\ Count(S, j) \in Nat
  BY CountIsNat
<1>2. Count(S, 0) = 0
  <2>1. S \cap (1 .. 0) = {}
    OBVIOUS
  <2>2. QED
    BY <2>1, FS_EmptySet DEF Count
<1>3. k + 1 \in S => Count(S, k + 1) = Count(S, k) + 1
  <2>1. HAVE k + 1 \in S
  <2>2. S \cap (1 .. k + 1) = (S \cap (1 .. k)) \cup {k + 1} /\ k + 1 \notin S \cap (1 .. k)
    BY <2>1
  <2>3. QED
    BY <1>1, <2>2, FS_AddElement DEF Count
<1>4. k + 1 \notin S => Count(S, k + 1) = Count(S, k)
  <2>1. HAVE k + 1 \notin S
  <2>2. S \cap (1 .. k + 1) = S \cap (1 .. k)
    BY <2>1
  <2>3. QED
    BY <2>2 DEF Count
<1>5. ASSUME NEW j \in 1 .. k, j \in S, k \in S, j # k PROVE Count(S, j) # Count(S, k)
  <2> DEFINE A == S \cap (1 .. j)
  <2>1. k \notin A /\ A \cup {k} \subseteq S \cap (1 .. k)
    BY <1>5
  <2>2. IsFiniteSet(A) /\ Cardinality(A) \in Nat /\ IsFiniteSet(S \cap (1 .. k))
        /\ Cardinality(S \cap (1 .. k)) \in Nat
    BY <1>1 DEF Count
  <2>3. Cardinality(A \cup {k}) = Cardinality(A) + 1
    BY <2>1, <2>2, FS_AddElement
  <2>4. Cardinality(A \cup {k}) <= Cardinality(S \cap (1 .. k))
    BY <2>1, <2>2, FS_Subset
  <2>5. QED
    BY <2>2, <2>3, <2>4 DEF Count
<1>6. QED
  BY <1>1, <1>2, <1>3, <1>4, <1>5

\* The instructions that the virtual machine has taken, and of which it has
\* written the registers.
TakenUp(p) == IF hpc[p] = "give" \/ instChan[p] # <<>> THEN pc[p] - 1 ELSE pc[p]
Steps(p) == IF vpc[p] = "input" THEN pc[p] - 1 ELSE TakenUp(p)

\* The sharing that instruction i is meant for: the mask for its input, or
\* the triple that comes as the instruction does in the program.
Right(i) ==
  IF Code[i].op = "Input" THEN {Prep[l] : l \in MaskMsgs(Code[i].id)}
  ELSE {Prep[l] : l \in {m \in TripleMsgs : Count(TripleMsgs, m) = Count(TripleInsts, i)}}

\* c is the channel of triples after n instructions.
InTurn(c, n) == \A j \in DOMAIN c : \E l \in TripleMsgs :
  c[j] = Prep[l] /\ Count(TripleMsgs, l) = Count(TripleInsts, n) + j

\* Of the f messages forwarded the masks are in d or an instruction's.
NotLost(d, f, n) == \A l \in 1 .. f : Prep[l].kind = "Rand" =>
  \/ Prep[l] \in Elems(d)
  \/ \E i \in 1 .. n : Code[i].op = "Input" /\ Code[i].id = Prep[l].id

RightUse(u, n) == \A i \in DOMAIN Code : u[i] # {} => i <= n /\ u[i] = Right(i)

SupplyInv(p) ==
  /\ vpc[p] # "failed" =>
       /\ InTurn(tripleChan[p], TakenUp(p))
       /\ ~Gone(p) => Count(TripleMsgs, fwd[p]) = Count(TripleInsts, TakenUp(p)) + Len(tripleChan[p])
  /\ \A m \in Elems(Drained(p)) : m.kind = "Rand"
  /\ ~Gone(p) => NotLost(Drained(p), fwd[p], TakenUp(p))
  /\ RightUse(used[p], TakenUp(p))
  /\ vpc[p] = "input" => used[p][pc[p]] # {}
AllSupply == \A p \in Party : SupplyInv(p)

\* What has not reached its Stop executes an instruction before it.
LEMMA ReachedNow ==
  ASSUME StopInv, NEW p \in Party, pc[p] \in DOMAIN Code, Op(p) # "Stop"
  PROVE  pc[p] \in Reached
<1>1. \A j \in 1 .. pc[p] - 1 : Code[j].op # "Stop"
  BY DEF StopInv
<1>2. \A j \in 1 .. pc[p] : j \in 1 .. pc[p] - 1 \/ j = pc[p]
  BY CodeFacts
<1>3. QED
  BY <1>1, <1>2 DEF Reached, Op

LEMMA SuitsFacts ==
  ASSUME Suits, NEW i \in Reached
  PROVE  /\ i \in DOMAIN Code
         /\ Code[i].src \subseteq Written(i - 1)
         /\ Code[i].op \in Opening => Code[i].src # {}
         /\ Code[i].op \in {"Local", "COutput"} /\ Code[i].src = {} => Code[i].dst = {}
         /\ Code[i].op = "Triple" => Count(TripleInsts, i) <= Count(TripleMsgs, Len(Prep))
         /\ Code[i].op = "Input" =>
              /\ Code[i].id \in Party
              /\ \E m \in DOMAIN Prep : MaskMsgs(Code[i].id) = {m}
              /\ \A j \in Reached : Code[j].op = "Input" /\ Code[j].id = Code[i].id => j = i
  BY DEF Suits, Reached, Opening

\* The triple in turn is the right one.
LEMMA RightTriple ==
  ASSUME NEW i \in DOMAIN Code, Code[i].op = "Triple", NEW l \in TripleMsgs,
         Count(TripleMsgs, l) = Count(TripleInsts, i)
  PROVE  Right(i) = {Prep[l]}
<1>1. ASSUME NEW m \in TripleMsgs, Count(TripleMsgs, m) = Count(TripleMsgs, l) PROVE m = l
  <2>1. m \in Nat \ {0} /\ l \in Nat \ {0}
    BY PrepFacts DEF TripleMsgs
  <2>2. CASE m <= l
    <3>1. m \in 1 .. l
      BY <2>1, <2>2
    <3>2. QED
      BY <1>1, <2>1, <3>1, CountFacts
  <2>3. CASE l <= m
    <3>1. l \in 1 .. m
      BY <2>1, <2>3
    <3>2. QED
      BY <1>1, <2>1, <3>1, CountFacts
  <2>4. QED
    BY <2>1, <2>2, <2>3
<1>2. {m \in TripleMsgs : Count(TripleMsgs, m) = Count(TripleInsts, i)} = {l}
  BY <1>1
<1>3. QED
  BY <1>2 DEF Right

\* The one mask for an input party is the right one.
LEMMA RightMask ==
  ASSUME Suits, NEW i \in Reached, Code[i].op = "Input", NEW m \in Sharing,
         m.kind = "Rand", m.id = Code[i].id
  PROVE  Right(i) = {m}
<1>1. PICK l \in DOMAIN Prep : MaskMsgs(Code[i].id) = {l}
  BY SuitsFacts
<1>2. PICK j \in DOMAIN Prep : m = Prep[j]
  BY DEF Sharing
<1>3. j \in MaskMsgs(Code[i].id)
  BY <1>2 DEF MaskMsgs
<1>4. j = l
  BY <1>1, <1>3
<1>5. QED
  BY <1>1, <1>2, <1>4 DEF Right

LEMMA TriplesSoFar ==
  ASSUME NEW k \in DOMAIN Code
  PROVE  /\ k - 1 \in Nat /\ k \in Nat
         /\ Count(TripleInsts, k) \in Nat /\ Count(TripleInsts, k - 1) \in Nat
         /\ Code[k].op = "Triple" => Count(TripleInsts, k) = Count(TripleInsts, k - 1) + 1
         /\ Code[k].op # "Triple" => Count(TripleInsts, k) = Count(TripleInsts, k - 1)
<1>1. k - 1 \in Nat /\ k \in Nat /\ (k - 1) + 1 = k
  BY CodeFacts
<1>2. k \in TripleInsts <=> Code[k].op = "Triple"
  BY DEF TripleInsts
<1>3. /\ Count(TripleInsts, k - 1) \in Nat /\ Count(TripleInsts, k) \in Nat
      /\ (k - 1) + 1 \in TripleInsts =>
           Count(TripleInsts, (k - 1) + 1) = Count(TripleInsts, k - 1) + 1
      /\ (k - 1) + 1 \notin TripleInsts =>
           Count(TripleInsts, (k - 1) + 1) = Count(TripleInsts, k - 1)
  BY <1>1, CountFacts
<1>4. QED
  BY <1>1, <1>2, <1>3

LEMMA TakeMoves ==
  ASSUME NEW p \in Party, Domains, Handshake(p), NEW ops, Take(p, ops),
         UNCHANGED <<pc[p], hpc[p]>>
  PROVE  /\ TakenUp(p) = pc[p] - 1 /\ TakenUp(p)' = pc[p] /\ Steps(p) = pc[p] - 1
         /\ vpc[p] = "idle" /\ pc[p] \in DOMAIN Code /\ Op(p) \in ops
         /\ Head(instChan[p]) = Code[pc[p]] /\ hpc[p] = "action" /\ actChan[p] = <<>>
         /\ ppc[p] \in {"busy", "err"}
<1>1. /\ vpc[p] = "idle" /\ hpc[p] = "action" /\ instChan[p] # <<>> /\ instChan'[p] = <<>>
      /\ pc[p] \in DOMAIN Code /\ Op(p) \in ops /\ Head(instChan[p]) = Code[pc[p]]
      /\ actChan[p] = <<>>
  BY Taken DEF Take
<1>2. ppc[p] \in {"busy", "err"}
  BY <1>1 DEF Handshake, PhaseInv
<1>3. QED
  BY <1>1, <1>2 DEF TakenUp, Steps

LEMMA SupplySame ==
  ASSUME NEW p \in Party, SupplyInv(p),
         UNCHANGED <<randMsgs[p], randChan[p], tripleChan[p], fwd[p], used[p]>>,
         TakenUp(p)' = TakenUp(p), Gone(p) => Gone(p)',
         vpc[p] = "failed" => vpc'[p] = "failed",
         vpc'[p] = "input" => vpc[p] = "input" /\ pc'[p] = pc[p]
  PROVE  SupplyInv(p)'
<1>1. Drained(p)' = Drained(p)
  BY DEF Drained
<1>2. /\ InTurn(tripleChan[p], TakenUp(p))' <=> InTurn(tripleChan[p], TakenUp(p))
      /\ NotLost(Drained(p), fwd[p], TakenUp(p))' <=> NotLost(Drained(p), fwd[p], TakenUp(p))
      /\ RightUse(used[p], TakenUp(p))' <=> RightUse(used[p], TakenUp(p))
      /\ Elems(Drained(p))' = Elems(Drained(p))
  BY <1>1 DEF InTurn, NotLost, RightUse, Elems
<1>3. QED
  BY <1>1, <1>2 DEF SupplyInv

\* An instruction taken that needs nothing.
LEMMA SupplyTaken ==
  ASSUME NEW p \in Party, Domains, Handshake(p), SupplyInv(p), NEW ops, Take(p, ops),
         {"Triple", "Input"} \cap ops = {},
         UNCHANGED <<ppc[p], pc[p], hpc[p], randMsgs[p], randChan[p], tripleChan[p], fwd[p], used[p]>>,
         vpc'[p] # "input"
  PROVE  SupplyInv(p)'
<1> DEFINE k == pc[p]
<1>1. /\ TakenUp(p) = k - 1 /\ TakenUp(p)' = k /\ k \in DOMAIN Code /\ Op(p) \in ops
      /\ vpc[p] = "idle"
  BY TakeMoves
<1>2. /\ k - 1 \in Nat /\ k \in Nat /\ Code[k].op \notin {"Triple", "Input"}
      /\ Count(TripleInsts, k) = Count(TripleInsts, k - 1)
  BY <1>1, TriplesSoFar DEF Op
<1>3. Drained(p)' = Drained(p) /\ Gone(p)' = Gone(p)
  BY DEF Drained, Gone
<1>4. InTurn(tripleChan[p], k - 1) /\
      (~Gone(p) => Count(TripleMsgs, fwd[p]) = Count(TripleInsts, k - 1) + Len(tripleChan[p]))
  BY <1>1 DEF SupplyInv
<1> HIDE DEF k
<1>5. InTurn(tripleChan[p], k)
  BY <1>2, <1>4 DEF InTurn
<1>6. ~Gone(p) => NotLost(Drained(p), fwd[p], k)
  <2>1. HAVE ~Gone(p)
  <2>2. NotLost(Drained(p), fwd[p], k - 1)
    BY <1>1, <2>1 DEF SupplyInv
  <2>3. 1 .. k - 1 \subseteq 1 .. k
    BY <1>2
  <2>4. QED
    BY <2>2, <2>3 DEF NotLost
<1>7. RightUse(used[p], k)
  <2>1. RightUse(used[p], k - 1)
    BY <1>1 DEF SupplyInv
  <2>2. \A i \in DOMAIN Code : i <= k - 1 => i <= k
    BY <1>2, CodeFacts
  <2>3. QED
    BY <2>1, <2>2 DEF RightUse
<1>8. \A m \in Elems(Drained(p)) : m.kind = "Rand"
  BY DEF SupplyInv
<1>9. /\ tripleChan'[p] = tripleChan[p] /\ fwd'[p] = fwd[p] /\ used'[p] = used[p]
      /\ Elems(Drained(p))' = Elems(Drained(p))
  BY <1>3 DEF Elems
<1>10. InTurn(tripleChan'[p], TakenUp(p)') /\ RightUse(used'[p], TakenUp(p)')
       /\ (~Gone(p)' => NotLost(Drained(p)', fwd'[p], TakenUp(p)'))
  BY <1>1, <1>3, <1>5, <1>6, <1>7, <1>9 DEF k
<1>11. ~Gone(p)' => Count(TripleMsgs, fwd'[p]) = Count(TripleInsts, TakenUp(p)') + Len(tripleChan'[p])
  BY <1>1, <1>2, <1>3, <1>4, <1>9 DEF k
<1>12. InTurn(tripleChan[p], TakenUp(p))' /\ RightUse(used[p], TakenUp(p))'
       /\ (~Gone(p)' => NotLost(Drained(p), fwd[p], TakenUp(p))')
  BY <1>10 DEF InTurn, RightUse, NotLost, Elems
<1>13. QED
  BY <1>8, <1>9, <1>11, <1>12 DEF SupplyInv, Count

LEMMA SupplyNext ==
  ASSUME NEW p \in Party, NEW c, NEW n, NEW d, NEW f, NEW u,
         tripleChan'[p] = c, TakenUp(p)' = n, Drained(p)' = d, fwd'[p] = f, used'[p] = u,
         vpc'[p] # "failed" =>
           /\ InTurn(c, n)
           /\ ~Gone(p)' => Count(TripleMsgs, f) = Count(TripleInsts, n) + Len(c),
         \A m \in Elems(d) : m.kind = "Rand",
         ~Gone(p)' => NotLost(d, f, n),
         RightUse(u, n),
         vpc'[p] = "input" => u[pc'[p]] # {}
  PROVE  SupplyInv(p)'
<1>1. /\ vpc'[p] # "failed" =>
           /\ InTurn(tripleChan'[p], TakenUp(p)')
           /\ ~Gone(p)' => Count(TripleMsgs, fwd'[p]) =
                             Count(TripleInsts, TakenUp(p)') + Len(tripleChan'[p])
      /\ \A m \in Elems(Drained(p)') : m.kind = "Rand"
      /\ ~Gone(p)' => NotLost(Drained(p)', fwd'[p], TakenUp(p)')
      /\ RightUse(used'[p], TakenUp(p)')
      /\ vpc'[p] = "input" => used'[p][pc'[p]] # {}
  BY Zenon
<1>2. /\ InTurn(tripleChan[p], TakenUp(p))' <=> InTurn(tripleChan'[p], TakenUp(p)')
      /\ NotLost(Drained(p), fwd[p], TakenUp(p))' <=> NotLost(Drained(p)', fwd'[p], TakenUp(p)')
      /\ RightUse(used[p], TakenUp(p))' <=> RightUse(used'[p], TakenUp(p)')
      /\ Elems(Drained(p))' = Elems(Drained(p)')
      /\ Count(TripleMsgs, fwd[p])' = Count(TripleMsgs, fwd'[p])
      /\ Count(TripleInsts, TakenUp(p))' = Count(TripleInsts, TakenUp(p)')
  BY DEF InTurn, NotLost, RightUse, Elems, Count
<1>3. QED
  BY <1>1, <1>2 DEF SupplyInv

LEMMA TripleSupply ==
  ASSUME MpcTypes, NEW p \in Party, Domains, Handshake(p), FreshInv(p), SupplyInv(p), DoTriple(p)
  PROVE  SupplyInv(p)'
<1> USE DEF prepVars, handVars, histVars, vars, partyVars
<1> DEFINE k == pc[p]
           c == tripleChan[p]
<1>1. Take(p, {"Triple"}) /\ UNCHANGED <<ppc[p], pc[p], hpc[p], randMsgs[p], randChan[p], fwd[p]>>
  BY DEF DoTriple
<1>2. /\ TakenUp(p) = k - 1 /\ TakenUp(p)' = k /\ k \in DOMAIN Code /\ Code[k].op = "Triple"
      /\ vpc[p] = "idle" /\ Drained(p)' = Drained(p) /\ Gone(p)' = Gone(p) /\ pc'[p] = k
  BY <1>1, TakeMoves DEF Op, Drained, Gone
<1>3. /\ k - 1 \in Nat /\ k \in Nat
      /\ Count(TripleInsts, k) \in Nat /\ Count(TripleInsts, k - 1) \in Nat
      /\ Count(TripleInsts, k) = Count(TripleInsts, k - 1) + 1
  BY <1>2, TriplesSoFar
<1>4. /\ InTurn(c, k - 1) /\ RightUse(used[p], k - 1)
      /\ ~Gone(p) => Count(TripleMsgs, fwd[p]) = Count(TripleInsts, k - 1) + Len(c)
      /\ \A m \in Elems(Drained(p)) : m.kind = "Rand"
  BY <1>2 DEF SupplyInv
<1>5. ~Gone(p) => NotLost(Drained(p), fwd[p], k)
  <2>1. HAVE ~Gone(p)
  <2>2. NotLost(Drained(p), fwd[p], k - 1)
    BY <1>2, <2>1 DEF SupplyInv
  <2>3. 1 .. k - 1 \subseteq 1 .. k
    BY <1>3
  <2>4. QED
    BY <2>2, <2>3 DEF NotLost
<1>6. RightUse(used[p], k)
  <2>1. \A i \in DOMAIN Code : i <= k - 1 => i <= k
    BY <1>3, CodeFacts
  <2>2. QED
    BY <1>4, <2>1 DEF RightUse
<1>7. vpc'[p] \in {"idle", "failed"}
  BY DEF DoTriple, Done, Ask, VMFails, Domains
<1>8. CASE c = <<>>
  <2>1. vpc'[p] = "failed" /\ tripleChan'[p] = c /\ used'[p] = used[p]
    BY <1>8 DEF DoTriple, VMFails, Domains
  <2> HIDE DEF k, c
  <2>2. QED
    BY <1>1, <1>2, <1>4, <1>5, <1>6, <2>1, SupplyNext
<1>9. CASE c # <<>>
  <2> DEFINE n == Tail(c)
             t == Head(c)
             u == [used[p] EXCEPT ![k] = {t}]
  <2>1. tripleChan'[p] = n /\ used'[p] = u
    <3>1. /\ tripleChan'[p] = Tail(tripleChan[p])
          /\ used'[p] = [used[p] EXCEPT ![pc[p]] = {Head(tripleChan[p])}]
      BY <1>9 DEF DoTriple, Domains
    <3>2. QED
      BY <3>1
  <2>2. /\ Len(c) \in Nat \ {0} /\ DOMAIN c = 1 .. Len(c) /\ DOMAIN n = 1 .. Len(c) - 1
        /\ \A i \in 1 .. Len(c) - 1 : n[i] = c[i + 1]
        /\ t = c[1] /\ Len(n) = Len(c) - 1
    BY <1>9, SeqIsSeq, Shortened DEF MpcTypes
  <2>3. InTurn(n, k)
    <3> SUFFICES ASSUME NEW j \in DOMAIN n
                 PROVE  \E l \in TripleMsgs :
                          n[j] = Prep[l] /\ Count(TripleMsgs, l) = Count(TripleInsts, k) + j
      BY DEF InTurn
    <3> HIDE DEF n, k, c
    <3>1. j + 1 \in DOMAIN c /\ n[j] = c[j + 1] /\ j \in Nat
      BY <2>2
    <3>2. PICK l \in TripleMsgs :
            c[j + 1] = Prep[l] /\ Count(TripleMsgs, l) = Count(TripleInsts, k - 1) + (j + 1)
      BY <1>4, <3>1 DEF InTurn
    <3>3. QED
      BY <1>3, <3>1, <3>2
  <2>4. ~Gone(p) => Count(TripleMsgs, fwd[p]) = Count(TripleInsts, k) + Len(n)
    <3> HIDE DEF n, k, c
    <3> QED
      BY <1>3, <1>4, <2>2
  <2>5. DOMAIN used[p] = DOMAIN Code
    BY DEF FreshInv, Fresh
  <2>6. Right(k) = {t}
    <3> HIDE DEF k, c, t
    <3>1. PICK l \in TripleMsgs :
            c[1] = Prep[l] /\ Count(TripleMsgs, l) = Count(TripleInsts, k - 1) + 1
      BY <1>4, <2>2 DEF InTurn
    <3>2. QED
      BY <1>2, <1>3, <2>2, <3>1, RightTriple
  <2>7. RightUse(u, k)
    <3>1. \A i \in DOMAIN Code : u[i] = IF i = k THEN {t} ELSE used[p][i]
      BY <2>5
    <3> HIDE DEF u, t, k
    <3>2. ASSUME NEW i \in DOMAIN Code, u[i] # {} PROVE i <= k /\ u[i] = Right(i)
      <4>1. CASE i = k
        <5>1. i <= k
          BY <1>3, <4>1
        <5>2. u[k] = {t}
          BY <1>2, <3>1
        <5>3. QED
          BY <2>6, <4>1, <5>1, <5>2, Zenon
      <4>2. CASE i # k
        BY <1>6, <3>1, <3>2, <4>2 DEF RightUse
      <4>3. QED
        BY <4>1, <4>2
    <3>3. QED
      BY <3>2 DEF RightUse
  <2> HIDE DEF n, u, t, k, c
  <2>8. QED
    BY <1>1, <1>2, <1>4, <1>5, <1>7, <2>1, <2>3, <2>4, <2>7, SupplyNext
<1>10. QED
  BY <1>8, <1>9

\* What is left when a sharing has been popped.
LEMMA PoppedElems ==
  ASSUME NEW d \in Seq(Sharing), NEW h \in DOMAIN d
  PROVE  /\ Elems(Popped(d, h)) \subseteq Elems(d)
         /\ Elems(d) \subseteq Elems(Popped(d, h)) \cup {d[h]}
<1> DEFINE n == Popped(d, h)
<1>1. /\ Len(d) \in Nat \ {0} /\ DOMAIN d = 1 .. Len(d) /\ DOMAIN n = 1 .. Len(d) - 1
      /\ \A i \in 1 .. Len(d) - 1 : n[i] = IF i < h THEN d[i] ELSE d[i + 1]
      /\ h \in 1 .. Len(d)
  <2>1. /\ Len(d) \in Nat /\ DOMAIN d = 1 .. Len(d) /\ Len(d) # 0
    BY SeqIsSeq
  <2>2. QED
    BY <2>1, PoppedType DEF Popped
<1> HIDE DEF n
<1>2. ASSUME NEW i \in DOMAIN n PROVE n[i] \in Elems(d)
  <2>1. n[i] = d[i] \/ n[i] = d[i + 1]
    BY <1>1
  <2>2. i \in DOMAIN d /\ i + 1 \in DOMAIN d
    BY <1>1
  <2>3. QED
    BY <2>1, <2>2 DEF Elems
<1>3. ASSUME NEW i \in DOMAIN d, i # h PROVE d[i] \in Elems(n)
  <2>1. CASE i < h
    <3>1. i \in DOMAIN n /\ n[i] = d[i]
      BY <1>1, <2>1
    <3>2. QED
      BY <3>1 DEF Elems
  <2>2. CASE i > h
    <3>1. i - 1 \in DOMAIN n /\ n[i - 1] = d[i]
      BY <1>1, <2>2
    <3>2. QED
      BY <3>1 DEF Elems
  <2>3. QED
    BY <1>1, <1>3, <2>1, <2>2
<1>4. Elems(n) \subseteq Elems(d)
  BY <1>2 DEF Elems
<1>5. Elems(d) \subseteq Elems(n) \cup {d[h]}
  BY <1>3 DEF Elems
<1>6. QED
  BY <1>4, <1>5 DEF n

\* What was so of the instructions before stays so.
LEMMA SupplyGrows ==
  ASSUME NEW k \in DOMAIN Code, NEW d, NEW f, NEW u, RightUse(u, k - 1)
  PROVE  /\ NotLost(d, f, k - 1) => NotLost(d, f, k)
         /\ RightUse(u, k)
         /\ Code[k].op # "Triple" => \A c : InTurn(c, k - 1) => InTurn(c, k)
<1>1. k - 1 \in Nat /\ k \in Nat /\ 1 .. k - 1 \subseteq 1 .. k
      /\ \A i \in DOMAIN Code : i <= k - 1 => i <= k
  BY CodeFacts
<1>2. Code[k].op # "Triple" => Count(TripleInsts, k) = Count(TripleInsts, k - 1)
  BY TriplesSoFar
<1>3. Code[k].op # "Triple" => \A c : InTurn(c, k - 1) => InTurn(c, k)
  BY <1>2 DEF InTurn
<1>4. RightUse(u, k)
  BY <1>1 DEF RightUse
<1>5. NotLost(d, f, k - 1) => NotLost(d, f, k)
  BY <1>1 DEF NotLost
<1>6. QED
  BY <1>3, <1>4, <1>5

LEMMA InputSupply ==
  ASSUME Suits, StopInv, MpcTypes, NEW p \in Party, Domains, Handshake(p), FreshInv(p),
         SupplyInv(p), DoInput(p)
  PROVE  SupplyInv(p)'
<1> USE DEF prepVars, handVars, histVars, vars, partyVars
<1> DEFINE k == pc[p]
           d == Drained(p)
           c == tripleChan[p]
<1>1. /\ Take(p, {"Input"})
      /\ UNCHANGED <<ppc[p], pc[p], hpc[p], tripleChan[p], fwd[p]>> /\ randChan'[p] = <<>>
  BY DEF DoInput, Domains
<1>2. /\ TakenUp(p) = k - 1 /\ TakenUp(p)' = k /\ k \in DOMAIN Code /\ Code[k].op = "Input"
      /\ vpc[p] = "idle" /\ Gone(p)' = Gone(p) /\ pc'[p] = k /\ Head(instChan[p]) = Code[k]
  BY <1>1, TakeMoves DEF Op, Gone
<1>3. k \in Reached
  BY <1>2, ReachedNow DEF Op
<1>4. /\ k - 1 \in Nat /\ k \in Nat
      /\ Count(TripleInsts, k) = Count(TripleInsts, k - 1)
  BY <1>2, TriplesSoFar
<1>5. /\ InTurn(c, k - 1) /\ RightUse(used[p], k - 1)
      /\ ~Gone(p) => Count(TripleMsgs, fwd[p]) = Count(TripleInsts, k - 1) + Len(c)
      /\ \A m \in Elems(d) : m.kind = "Rand"
      /\ ~Gone(p) => NotLost(d, fwd[p], k - 1)
  BY <1>2 DEF SupplyInv
<1>6. /\ InTurn(c, k) /\ RightUse(used[p], k) /\ (~Gone(p) => NotLost(d, fwd[p], k))
  BY <1>2, <1>5, SupplyGrows
<1>7. /\ ~Gone(p)' => Count(TripleMsgs, fwd[p]) = Count(TripleInsts, k) + Len(c)
  BY <1>2, <1>4, <1>5
<1>8. d \in Seq(Sharing)
  BY ConcatProperties DEF MpcTypes, Drained
<1>9. randMsgs'[p] \in Seq(Sharing) => Drained(p)' = randMsgs'[p]
  BY <1>1, ConcatEmptySeq DEF Drained
<1>10. CASE randMsgs'[p] = d /\ used'[p] = used[p] /\ vpc'[p] = "failed"
  <2>1. Drained(p)' = d
    BY <1>8, <1>9, <1>10
  <2> HIDE DEF k, d, c
  <2>2. QED
    BY <1>1, <1>2, <1>5, <1>6, <1>7, <1>10, <2>1, SupplyNext DEF c
<1>11. ASSUME NEW h \in DOMAIN d, d[h].id = Code[k].id, randMsgs'[p] = Popped(d, h),
              used'[p] = [used[p] EXCEPT ![k] = {d[h]}]
       PROVE  SupplyInv(p)'
  <2> DEFINE n == Popped(d, h)
             u == [used[p] EXCEPT ![k] = {d[h]}]
  <2>1. n \in Seq(Sharing)
    BY <1>8, <1>11, PoppedType
  <2>2. Drained(p)' = n
    BY <1>9, <1>11, <2>1
  <2>3. Elems(n) \subseteq Elems(d) /\ Elems(d) \subseteq Elems(n) \cup {d[h]}
    BY <1>8, <1>11, PoppedElems
  <2>4. d[h] \in Sharing /\ d[h] \in Elems(d)
    BY <1>8, <1>11 DEF Elems
  <2>5. Right(k) = {d[h]}
    <3>1. d[h].kind = "Rand"
      BY <1>5, <2>4
    <3> HIDE DEF k, d
    <3>2. QED
      BY <1>2, <1>3, <1>11, <2>4, <3>1, RightMask
  <2>6. DOMAIN used[p] = DOMAIN Code
    BY DEF FreshInv, Fresh
  <2>7. \A i \in DOMAIN Code : u[i] = IF i = k THEN {d[h]} ELSE used[p][i]
    BY <2>6
  <2> HIDE DEF n, u, k, d
  <2>8. RightUse(u, k)
    <3>1. ASSUME NEW i \in DOMAIN Code, u[i] # {} PROVE i <= k /\ u[i] = Right(i)
      <4>1. CASE i = k
        <5>1. i <= k
          BY <1>4, <4>1
        <5>2. u[k] = {d[h]}
          BY <1>2, <2>7
        <5>3. QED
          BY <2>5, <4>1, <5>1, <5>2, Zenon
      <4>2. CASE i # k
        BY <1>6, <2>7, <3>1, <4>2 DEF RightUse
      <4>3. QED
        BY <4>1, <4>2
    <3>2. QED
      BY <3>1 DEF RightUse
  <2>9. ~Gone(p)' => NotLost(n, fwd[p], k)
    <3> SUFFICES ASSUME ~Gone(p), NEW l \in 1 .. fwd[p], Prep[l].kind = "Rand",
                        Prep[l] \notin Elems(n)
                 PROVE  \E i \in 1 .. k : Code[i].op = "Input" /\ Code[i].id = Prep[l].id
      BY <1>2 DEF NotLost
    <3>1. CASE Prep[l] \in Elems(d)
      <4>1. Prep[l] = d[h]
        BY <2>3, <3>1
      <4>2. k \in 1 .. k
        BY <1>2, CodeFacts
      <4>3. QED
        BY <1>2, <1>11, <4>1, <4>2
    <3>2. CASE Prep[l] \notin Elems(d)
      BY <1>6, <3>2 DEF NotLost
    <3>3. QED
      BY <3>1, <3>2
  <2>10. u[k] # {}
    BY <1>2, <2>7
  <2>11. \A m \in Elems(n) : m.kind = "Rand"
    BY <1>5, <2>3
  <2>12. tripleChan'[p] = c /\ used'[p] = u /\ fwd'[p] = fwd[p]
    BY <1>1, <1>11 DEF u
  <2> HIDE DEF c
  <2>13. QED
    BY <1>2, <1>6, <1>7, <2>2, <2>8, <2>9, <2>10, <2>11, <2>12, SupplyNext
<1>12. \/ randMsgs'[p] = d /\ used'[p] = used[p] /\ vpc'[p] = "failed"
       \/ \E h \in DOMAIN d : /\ d[h].id = Code[k].id /\ randMsgs'[p] = Popped(d, h)
                               /\ used'[p] = [used[p] EXCEPT ![k] = {d[h]}]
  <2>1. \/ randMsgs'[p] = Drained(p) /\ used'[p] = used[p] /\ vpc'[p] = "failed"
        \/ \E h \in DOMAIN Drained(p) :
             /\ Drained(p)[h].id = Head(instChan[p]).id
             /\ randMsgs'[p] = Popped(Drained(p), h)
             /\ used'[p] = [used[p] EXCEPT ![pc[p]] = {Drained(p)[h]}]
    BY DEF DoInput, MasksFor, VMFails, Domains
  <2>2. QED
    BY <1>2, <2>1
<1>13. QED
  BY <1>10, <1>11, <1>12

LEMMA VMSupply ==
  ASSUME Suits, StopInv, MpcTypes, NEW p \in Party, Domains, Handshake(p), FreshInv(p),
         SupplyInv(p), VMStep(p)
  PROVE  SupplyInv(p)'
<1> USE DEF prepVars, handVars, histVars, vars, partyVars
<1>1. CASE DoTriple(p)
  BY <1>1, TripleSupply
<1>2. CASE DoInput(p)
  BY <1>2, InputSupply
<1>3. CASE DoLocal(p)
  <2>1. /\ Take(p, {"Local", "COutput"}) /\ vpc'[p] # "input"
        /\ UNCHANGED <<ppc[p], pc[p], hpc[p], randMsgs[p], randChan[p], tripleChan[p], fwd[p],
                       used[p]>>
    BY <1>3 DEF DoLocal, Done, Ask, VMFails, Domains
  <2>2. QED
    BY <2>1, SupplyTaken
<1>4. CASE DoOpen(p)
  <2>1. /\ Take(p, {"Open", "SOutput"}) /\ vpc'[p] # "input"
        /\ UNCHANGED <<ppc[p], pc[p], hpc[p], randMsgs[p], randChan[p], tripleChan[p], fwd[p],
                       used[p]>>
    BY <1>4 DEF DoOpen, Done, Ask, VMFails, Domains
  <2>2. QED
    BY <2>1, SupplyTaken
<1>5. CASE DoStop(p)
  <2>1. /\ Take(p, {"Stop"}) /\ vpc'[p] # "input"
        /\ UNCHANGED <<ppc[p], pc[p], hpc[p], randMsgs[p], randChan[p], tripleChan[p], fwd[p],
                       used[p]>>
    BY <1>5 DEF DoStop, Done, Ask, VMFails, Domains
  <2>2. QED
    BY <2>1, SupplyTaken
<1>6. CASE EndInput(p) \/ EndOpen(p) \/ EndCheck(p) \/ VMTimeout(p)
  <2>1. /\ UNCHANGED <<ppc[p], pc[p], hpc[p], instChan[p], randMsgs[p], randChan[p],
                       tripleChan[p], fwd[p], used[p]>>
        /\ vpc[p] # "failed" /\ vpc'[p] # "input"
    BY <1>6 DEF EndInput, EndOpen, EndCheck, VMTimeout, Done, Ask, VMFails, Domains
  <2>2. TakenUp(p)' = TakenUp(p) /\ Gone(p)' = Gone(p)
    BY <2>1 DEF TakenUp, Gone
  <2>3. QED
    BY <2>1, <2>2, SupplySame
<1>7. QED
  BY <1>1, <1>2, <1>3, <1>4, <1>5, <1>6 DEF VMStep

LEMMA ForwardSupply ==
  ASSUME TypeOK, MpcTypes, NEW p \in Party, Domains, SupplyInv(p), Forward(p)
  PROVE  SupplyInv(p)'
<1> USE DEF prepVars, handVars, histVars, vars, partyVars, vmVars, linkVars
<1> DEFINE l == fwd[p] + 1
           m == Prep[l]
           d == Drained(p)
           c == tripleChan[p]
           n == TakenUp(p)
<1>1. /\ ~Gone(p) /\ fwd[p] \in Nat /\ l \in DOMAIN Prep /\ fwd'[p] = l /\ l \in Nat /\ 1 <= l
      /\ UNCHANGED <<ppc[p], pc[p], hpc[p], vpc[p], instChan[p], used[p], randMsgs[p]>>
      /\ \/ m.kind = "Rand" /\ randChan'[p] = Append(randChan[p], m) /\ tripleChan'[p] = c
         \/ m.kind # "Rand" /\ tripleChan'[p] = Append(c, m) /\ randChan'[p] = randChan[p]
  <2>1. TakePrep(p) /\ fwd[p] \in 0 .. Len(Prep)
    BY DEF Forward, MpcTypes
  <2>2. fwd[p] \in Nat /\ l \in DOMAIN Prep /\ l \in Nat /\ 1 <= l
    BY <2>1, PrepFacts DEF TakePrep
  <2>3. ~Gone(p) /\ fwd'[p] = l
    BY <2>1 DEF TakePrep, Between, Gone, Ended, Domains
  <2>4. QED
    BY <2>2, <2>3 DEF Forward, Domains
<1>2. /\ randMsgs[p] \in Seq(Sharing) /\ randChan[p] \in Seq(Sharing)
      /\ c \in Seq(Sharing) /\ d \in Seq(Sharing) /\ m \in Sharing
  BY <1>1, ConcatProperties DEF MpcTypes, Drained, Sharing
<1>3. n' = n /\ Gone(p)' = Gone(p)
  BY <1>1 DEF TakenUp, Gone
<1>4. /\ vpc[p] # "failed" =>
           InTurn(c, n) /\ Count(TripleMsgs, fwd[p]) = Count(TripleInsts, n) + Len(c)
      /\ \A e \in Elems(d) : e.kind = "Rand"
      /\ NotLost(d, fwd[p], n) /\ RightUse(used[p], n)
      /\ vpc[p] = "input" => used[p][pc[p]] # {}
  BY <1>1 DEF SupplyInv
<1>5. /\ l \in TripleMsgs => Count(TripleMsgs, l) = Count(TripleMsgs, fwd[p]) + 1
      /\ l \notin TripleMsgs => Count(TripleMsgs, l) = Count(TripleMsgs, fwd[p])
      /\ l \in TripleMsgs <=> m.kind # "Rand"
  <2>1. l \in TripleMsgs <=> m.kind # "Rand"
    BY <1>1 DEF TripleMsgs
  <2>2. QED
    BY <1>1, <2>1, CountFacts
<1>6. \A i \in 1 .. l : i \in 1 .. fwd[p] \/ i = l
  BY <1>1
<1>7. CASE m.kind = "Rand" /\ randChan'[p] = Append(randChan[p], m) /\ tripleChan'[p] = c
  <2> DEFINE e == Append(d, m)
  <2>1. Drained(p)' = e
    <3>1. randMsgs[p] \o Append(randChan[p], m) = Append(randMsgs[p] \o randChan[p], m)
      <4> HIDE DEF m
      <4> QED
        BY <1>2, AppendConcat
    <3> HIDE DEF m
    <3>2. QED
      BY <1>1, <1>7, <3>1 DEF Drained
  <2>2. Elems(e) = Elems(d) \cup {m}
    <3> HIDE DEF m, d
    <3> QED
      BY <1>2, SeqIsSeq, Appended
  <2>3. NotLost(e, l, n)
    <3> SUFFICES ASSUME NEW i \in 1 .. l, Prep[i].kind = "Rand"
                 PROVE  \/ Prep[i] \in Elems(e)
                        \/ \E j \in 1 .. n : Code[j].op = "Input" /\ Code[j].id = Prep[i].id
      BY DEF NotLost
    <3> HIDE DEF e, n
    <3>1. CASE i = l
      BY <2>2, <3>1
    <3>2. CASE i \in 1 .. fwd[p]
      BY <1>4, <2>2, <3>2 DEF NotLost
    <3>3. QED
      BY <1>6, <3>1, <3>2
  <2>4. \A x \in Elems(e) : x.kind = "Rand"
    <3> HIDE DEF e, m
    <3> QED
      BY <1>4, <1>7, <2>2
  <2>5. vpc[p] # "failed" =>
          InTurn(c, n) /\ Count(TripleMsgs, l) = Count(TripleInsts, n) + Len(c)
    BY <1>4, <1>5, <1>7
  <2> HIDE DEF e, n, l, c, m, d
  <2>6. QED
    BY <1>1, <1>3, <1>4, <1>7, <2>1, <2>3, <2>4, <2>5, SupplyNext DEF n
<1>8. CASE m.kind # "Rand" /\ tripleChan'[p] = Append(c, m) /\ randChan'[p] = randChan[p]
  <2> DEFINE e == Append(c, m)
  <2>1. Drained(p)' = d
    BY <1>1, <1>8 DEF Drained
  <2>2. /\ DOMAIN c = 1 .. Len(c) /\ Len(c) \in Nat /\ Len(e) = Len(c) + 1
        /\ DOMAIN e = 1 .. Len(c) + 1
        /\ \A i \in DOMAIN c : e[i] = c[i]
        /\ e[Len(c) + 1] = m
    <3> HIDE DEF m, c
    <3> QED
      BY <1>2, SeqIsSeq, Appended
  <2>3. NotLost(d, l, n)
    <3> SUFFICES ASSUME NEW i \in 1 .. l, Prep[i].kind = "Rand" PROVE i \in 1 .. fwd[p]
      BY <1>4 DEF NotLost
    <3>1. QED
      BY <1>6, <1>8
  <2>4. vpc[p] # "failed" => Count(TripleMsgs, l) = Count(TripleInsts, n) + Len(e)
    <3>1. Count(TripleMsgs, l) = Count(TripleMsgs, fwd[p]) + 1
      BY <1>5, <1>8
    <3>2. Count(TripleInsts, n) \in Int
      <4>1. n \in Int
        BY DEF TypeOK, TakenUp
      <4> HIDE DEF n
      <4>2. Count(TripleInsts, n) \in Nat
        BY <4>1, CountIsNat
      <4>3. QED
        BY <4>2
    <3> HIDE DEF e, n, c, l
    <3>3. QED
      BY <1>4, <2>2, <3>1, <3>2
  <2>5. vpc[p] # "failed" => InTurn(e, n)
    <3> SUFFICES ASSUME vpc[p] # "failed", NEW j \in DOMAIN e
                 PROVE  \E i \in TripleMsgs :
                          e[j] = Prep[i] /\ Count(TripleMsgs, i) = Count(TripleInsts, n) + j
      BY DEF InTurn
    <3> HIDE DEF e, n, c
    <3>1. CASE j \in DOMAIN c
      BY <1>4, <2>2, <3>1 DEF InTurn
    <3>2. CASE j = Len(c) + 1
      <4>1. l \in TripleMsgs /\ e[j] = Prep[l]
        BY <1>5, <1>8, <2>2, <3>2
      <4>2. Count(TripleMsgs, l) = Count(TripleInsts, n) + j
        BY <2>2, <2>4, <3>2
      <4>3. QED
        BY <4>1, <4>2
    <3>3. QED
      BY <2>2, <3>1, <3>2
  <2> HIDE DEF e, n, l, c, m, d
  <2>6. QED
    BY <1>1, <1>3, <1>4, <1>8, <2>1, <2>3, <2>4, <2>5, SupplyNext DEF n, e
<1>9. QED
  BY <1>1, <1>7, <1>8

\* A party's thread hands instructions out; taking them up is the VM's.
LEMMA PartyTakenUp ==
  ASSUME TypeOK, NEW p \in Party, Domains, Handshake(p), PartyThread(p) \/ PrepEnds(p)
  PROVE  /\ TakenUp(p)' = TakenUp(p) /\ Steps(p)' = Steps(p) /\ vpc'[p] = vpc[p]
         /\ vpc[p] \notin {"idle", "done", "failed"} => pc'[p] = pc[p]
<1> USE DEF prepVars, handVars, histVars, vars, partyVars, vmVars, linkVars
<1>1. vpc'[p] = vpc[p]
  BY PartyKeeps
<1>2. CASE GiveInstruction(p)
  <2>1. hpc[p] = "give" /\ pc'[p] = pc[p] /\ instChan'[p] = Append(instChan[p], Code[pc[p]])
    BY <1>2 DEF GiveInstruction, At, Domains
  <2>2. instChan[p] = <<>>
    BY <2>1 DEF Handshake, LinkInv
  <2>3. instChan'[p] # <<>>
    BY <2>1, <2>2, OneElement
  <2>4. QED
    BY <1>1, <2>1, <2>3 DEF TakenUp, Steps
<1>3. CASE Listen(p) /\ Fetch(p) /\ Fetches(p)
  <2>1. ppc[p] = "running" /\ pc'[p] = pc[p] + 1 /\ pc[p] \in Nat /\ hpc'[p] = "give"
    BY <1>3 DEF Listen, Fetch, AwaitStart, SyncLost, Join, TypeOK, Domains
  <2>2. hpc[p] = "idle" /\ instChan[p] = <<>>
        /\ vpc[p] \in {"idle", "done", "failed"}
    BY <2>1 DEF Handshake, PhaseInv, LinkInv
  <2>3. QED
    BY <1>1, <2>1, <2>2 DEF TakenUp, Steps
<1>4. CASE ~GiveInstruction(p) /\ ~(Listen(p) /\ Fetch(p) /\ Fetches(p))
  <2>1. UNCHANGED <<pc[p], instChan[p]>>
    BY <1>4 DEF PartyThread, Listen, PrepEnds, HandlerFails, Fails, mpcVars, Forward, ForwardFails,
       OnNext, OnOpen, OnInput, OnCheck, TakeAction, AwaitStart, Fetch, SyncLost, Join, Reply,
       EndElems, EndInputElem, Commit, EndComs, Reveal, EndOpens, PrepFails, BusyFails, TypeOK
  <2>2. hpc'[p] = "give" <=> hpc[p] = "give"
    BY <1>4 DEF PartyThread, Listen, PrepEnds, HandlerFails, Fails, mpcVars, Forward, ForwardFails,
       OnNext, OnOpen, OnInput, OnCheck, TakeAction, AwaitStart, Fetch, SyncLost, Join, At, Go,
       EndElems, EndInputElem, Commit, EndComs, Reveal, EndOpens, Answer, Domains
  <2>3. QED
    BY <1>1, <2>1, <2>2 DEF TakenUp, Steps
<1>5. QED
  BY <1>2, <1>3, <1>4

LEMMA PartySupply ==
  ASSUME TypeOK, MpcTypes, NEW p \in Party, Domains, Handshake(p), SupplyInv(p),
         PartyThread(p) \/ PrepEnds(p)
  PROVE  SupplyInv(p)'
<1> USE DEF prepVars, handVars, histVars, vars, partyVars, vmVars, linkVars
<1>1. CASE Forward(p)
  BY <1>1, ForwardSupply
<1>2. /\ TakenUp(p)' = TakenUp(p) /\ vpc'[p] = vpc[p] /\ (vpc[p] = "input" => pc'[p] = pc[p])
      /\ (Gone(p) => Gone(p)')
  BY PartyTakenUp, EndSteps DEF Gone
<1>3. CASE ForwardFails(p)
  <2>1. /\ UNCHANGED <<used[p], randMsgs[p], randChan[p], tripleChan[p]>> /\ Gone(p)'
    BY <1>3 DEF ForwardFails, Fails, PrepFails, Gone, Ended, TypeOK
  <2>2. Drained(p)' = Drained(p)
    BY <2>1 DEF Drained
  <2>3. QED
    BY <1>2, <2>1, <2>2, SupplyNext DEF SupplyInv
<1>4. CASE ~Forward(p) /\ ~ForwardFails(p)
  <2>1. UNCHANGED <<used[p], randMsgs[p], randChan[p], tripleChan[p], fwd[p]>>
    BY <1>4 DEF PartyThread, Listen, PrepEnds, HandlerFails, Fails, mpcVars,
         GiveInstruction, OnNext, OnOpen, OnInput, OnCheck, TakeAction,
         EndElems, EndInputElem, Commit, EndComs, Reveal, EndOpens
  <2>2. QED
    BY <1>2, <2>1, SupplySame
<1>5. QED
  BY <1>1, <1>3, <1>4

LEMMA InitSupply == MpcInit => AllSupply
<1> SUFFICES ASSUME MpcInit, NEW p \in Party PROVE SupplyInv(p)
  BY DEF AllSupply
<1>1. /\ randMsgs[p] = <<>> /\ randChan[p] = <<>> /\ tripleChan[p] = <<>> /\ fwd[p] = 0
      /\ used[p] = [i \in DOMAIN Code |-> {}] /\ vpc[p] = "idle" /\ hpc[p] = "idle"
      /\ instChan[p] = <<>> /\ pc[p] = 0
  BY DEF MpcInit, Init
<1>2. Drained(p) = <<>>
  <2>1. <<>> \in Seq(Sharing) /\ <<>> \o <<>> = <<>>
    BY ConcatEmptySeq
  <2>2. QED
    BY <1>1, <2>1 DEF Drained
<1>3. TakenUp(p) = 0
  BY <1>1 DEF TakenUp
<1>4. Count(TripleMsgs, 0) = 0 /\ Count(TripleInsts, 0) = 0 /\ Len(<<>>) = 0
  BY CountFacts
<1>5. InTurn(<<>>, 0) /\ NotLost(<<>>, 0, 0) /\ RightUse(used[p], 0)
  BY <1>1, EmptyIsSeq DEF InTurn, NotLost, RightUse
<1>6. QED
  BY <1>1, <1>2, <1>3, <1>4, <1>5, EmptyIsSeq DEF SupplyInv

LEMMA NextSupply ==
  ASSUME Suits, TypeOK, HandInv, MpcTypes, AllFresh, StopInv, AllSupply, [MpcNext]_allVars
  PROVE  AllSupply'
<1> SUFFICES ASSUME NEW q \in Party PROVE SupplyInv(q)'
  BY DEF AllSupply
<1>1. CASE UNCHANGED Local(q)
  <2>1. UNCHANGED <<vpc[q], used[q], randMsgs[q], randChan[q], tripleChan[q], fwd[q], pc[q],
                    hpc[q], instChan[q], ppc[q]>>
    BY <1>1 DEF Local
  <2>2. TakenUp(q)' = TakenUp(q) /\ Gone(q)' = Gone(q)
    BY <2>1 DEF TakenUp, Gone
  <2>3. QED
    BY <2>1, <2>2, SupplySame DEF AllSupply
<1>2. CASE VMStep(q) \/ PartyThread(q) \/ PrepEnds(q)
  BY <1>2, VMSupply, PartySupply DEF AllSupply, AllFresh, HandInv
<1>3. QED
  BY <1>1, <1>2, StepOf DEF HandInv

-----------------------------------------------------------------------------
(* What is in the secret registers: with everybody the same, whatever was  *)
(* opened, checked and supplied on the way.                                *)

\* Induction on the natural numbers, over a set of them.
LEMMA InductionOnSteps ==
  ASSUME NEW S, 0 \in S, \A n \in Nat : n \in S => n + 1 \in S
  PROVE  Nat \subseteq S
<1> DEFINE less == {ss \in Nat \X Nat : ss[1] < ss[2]}
           T == Nat \ S
<1>1. IsWellFoundedOn(less, Nat)
  BY NatLessThanWellFounded DEF OpToRel
<1>2. \A x, y \in Nat : x < y => <<x, y>> \in less
  OBVIOUS
<1>3. T \subseteq Nat
  OBVIOUS
<1> HIDE DEF less
<1>4. ASSUME T # {} PROVE FALSE
  <2>1. PICK y \in T : \A x \in T : <<x, y>> \notin less
    <3> HIDE DEF T
    <3> QED
      BY <1>1, <1>3, <1>4, WFMin
  <2>2. y - 1 \in Nat /\ y - 1 < y /\ y - 1 + 1 = y /\ y \in Nat
    BY <2>1
  <2>3. y - 1 \in T
    BY <2>1, <2>2
  <2>4. QED
    BY <1>2, <2>1, <2>2, <2>3
<1>5. QED
  BY <1>4

\* f is what instruction k finds in the secret registers.
Effect(f, k) == [r \in Regs |->
  IF r \notin Code[k].dst THEN f[r]
  ELSE CASE Code[k].op \in {"Local", "COutput"} -> UNION {f[x] : x \in Code[k].src}
         [] Code[k].op \in {"Input", "Triple"} -> Right(k)
         [] OTHER -> f[r]]

IsRun(run, n) ==
  /\ run[0] = [r \in Regs |-> {}]
  /\ \A k \in 1 .. n : run[k] = Effect(run[k - 1], k)

\* Run[k] is what k instructions leave in the registers.
Run == CHOOSE run : IsRun(run, Len(Code))

LEMMA RunFacts == IsRun(Run, Len(Code))
<1> DEFINE S == {n \in Nat : \E run : IsRun(run, n)}
<1>1. 0 \in S
  <2>1. IsRun([k \in {0} |-> [r \in Regs |-> {}]], 0)
    BY DEF IsRun
  <2>2. QED
    BY <2>1
<1>2. ASSUME NEW n \in Nat, n \in S PROVE n + 1 \in S
  <2>1. PICK run : IsRun(run, n)
    BY <1>2
  <2> DEFINE next == [k \in 0 .. n + 1 |-> IF k = n + 1 THEN Effect(run[n], n + 1) ELSE run[k]]
  <2>2. \A k \in 0 .. n : next[k] = run[k]
    OBVIOUS
  <2>3. next[n + 1] = Effect(run[n], n + 1)
    OBVIOUS
  <2> HIDE DEF next
  <2>4. next[0] = [r \in Regs |-> {}]
    BY <2>1, <2>2 DEF IsRun
  <2>5. ASSUME NEW k \in 1 .. n + 1 PROVE next[k] = Effect(next[k - 1], k)
    <3>1. next[k - 1] = run[k - 1]
      BY <2>2
    <3>2. CASE k = n + 1
      <4>1. k - 1 = n
        BY <3>2
      <4>2. QED
        BY <2>3, <3>1, <3>2, <4>1
    <3>3. CASE k \in 1 .. n
      <4>1. next[k] = run[k] /\ run[k] = Effect(run[k - 1], k)
        BY <2>1, <2>2, <3>3 DEF IsRun
      <4>2. QED
        BY <3>1, <4>1
    <3>4. QED
      BY <3>2, <3>3
  <2>6. IsRun(next, n + 1)
    BY <2>4, <2>5 DEF IsRun
  <2>7. QED
    BY <2>6
<1>3. Nat \subseteq S
  <2> HIDE DEF S
  <2> QED
    BY <1>1, <1>2, InductionOnSteps
<1>4. \E run : IsRun(run, Len(Code))
  BY <1>3, CodeFacts
<1>5. QED
  BY <1>4 DEF Run

RegInv(p) == vpc[p] # "failed" =>
  /\ secret[p] = Run[Steps(p)]
  /\ secret[p] = [r \in Regs |-> secret[p][r]]
  /\ \A r \in Written(Steps(p)) : secret[p][r] # {}
AllRegs == \A p \in Party : RegInv(p)

UsesRight == \A p \in Party : \A i \in DOMAIN Code : used[p][i] # {} => used[p][i] = Right(i)

LEMMA SupplyRight == AllSupply => UsesRight
  BY DEF AllSupply, SupplyInv, RightUse, UsesRight

LEMMA WrittenFacts ==
  ASSUME NEW k \in DOMAIN Code
  PROVE  /\ Written(k - 1) \subseteq Written(k)
         /\ Code[k].op \in Writing => Written(k) = Written(k - 1) \cup Code[k].dst
         /\ Code[k].op \notin Writing => Written(k) = Written(k - 1)
         /\ Written(k) \subseteq Regs /\ Code[k].src \subseteq Regs
<1>1. k \in Nat /\ \A j : j \in 1 .. k <=> j \in 1 .. k - 1 \/ j = k
  BY CodeFacts
<1>2. 1 .. k \subseteq DOMAIN Code
  BY CodeFacts
<1>3. \A j \in DOMAIN Code : Code[j].dst \subseteq Regs /\ Code[j].src \subseteq Regs
  BY DEF Regs
<1>4. QED
  BY <1>1, <1>2, <1>3 DEF Written

\* The virtual machine has executed instruction k.
LEMMA RegNext ==
  ASSUME NEW p \in Party, RegInv(p), vpc[p] # "failed", NEW k \in DOMAIN Code,
         Steps(p) = k - 1, Steps(p)' = k,
         vpc'[p] # "failed" =>
           /\ secret'[p] = Effect(secret[p], k)
           /\ \A r \in Written(k) : secret'[p][r] # {}
  PROVE  RegInv(p)'
<1>1. secret[p] = Run[k - 1]
  BY DEF RegInv
<1>2. Run[k] = Effect(Run[k - 1], k)
  BY RunFacts, CodeFacts DEF IsRun
<1>3. vpc'[p] # "failed" => secret'[p] = Run[Steps(p)']
  BY <1>1, <1>2, Zenon
<1>4. vpc'[p] # "failed" => \A r \in Written(Steps(p)') : secret'[p][r] # {}
  BY Zenon
<1>5. vpc'[p] # "failed" => secret'[p] = [r \in Regs |-> secret'[p][r]]
  BY DEF Effect
<1>6. Written(Steps(p))' = Written(Steps(p)')
  BY DEF Written
<1>7. Run[Steps(p)]' = Run[Steps(p)']
  OBVIOUS
<1>8. QED
  BY <1>3, <1>4, <1>5, <1>6, <1>7 DEF RegInv

LEMMA RegSame ==
  ASSUME NEW p \in Party, RegInv(p), secret'[p] = secret[p], Steps(p)' = Steps(p),
         vpc[p] = "failed" => vpc'[p] = "failed"
  PROVE  RegInv(p)'
<1>1. Written(Steps(p))' = Written(Steps(p)')
  BY DEF Written
<1>2. QED
  BY <1>1 DEF RegInv

\* An instruction that writes no secret register.
LEMMA RegSkipped ==
  ASSUME NEW p \in Party, RegInv(p), vpc[p] # "failed", NEW k \in DOMAIN Code,
         Steps(p) = k - 1, Steps(p)' = k, secret'[p] = secret[p], Code[k].op \notin Writing
  PROVE  RegInv(p)'
<1>1. /\ secret[p] = [r \in Regs |-> secret[p][r]]
      /\ \A r \in Written(k - 1) : secret[p][r] # {}
  BY DEF RegInv
<1>2. secret[p] = Effect(secret[p], k)
  BY <1>1 DEF Effect, Writing
<1>3. Written(k) = Written(k - 1)
  BY WrittenFacts
<1>4. QED
  BY <1>1, <1>2, <1>3, RegNext

LEMMA LocalRegs ==
  ASSUME Suits, StopInv, NEW p \in Party, Domains, Handshake(p), RegInv(p), DoLocal(p)
  PROVE  RegInv(p)'
<1> USE DEF prepVars, handVars, histVars, vars, partyVars
<1> DEFINE k == pc[p]
<1>1. Take(p, {"Local", "COutput"}) /\ UNCHANGED <<pc[p], hpc[p]>>
  BY DEF DoLocal
<1>2. /\ Steps(p) = k - 1 /\ TakenUp(p)' = k /\ vpc[p] = "idle" /\ k \in DOMAIN Code
      /\ Code[k].op \in {"Local", "COutput"} /\ Head(instChan[p]) = Code[k]
  BY <1>1, TakeMoves DEF Op
<1>3. vpc'[p] # "input"
  BY DEF DoLocal, Done, Ask, VMFails, Domains
<1>4. Steps(p)' = k
  BY <1>2, <1>3 DEF Steps
<1>5. k \in Reached
  BY <1>2, ReachedNow DEF Op
<1>6. /\ Code[k].src \subseteq Written(k - 1)
      /\ Code[k].src = {} => Code[k].dst = {}
  BY <1>2, <1>5, SuitsFacts
<1>7. \A r \in Written(k - 1) : secret[p][r] # {}
  BY <1>2 DEF RegInv
<1>8. vpc'[p] # "failed" => secret'[p] = [r \in Regs |->
        IF r \in Head(instChan[p]).dst
        THEN UNION {secret[p][x] : x \in Head(instChan[p]).src} ELSE secret[p][r]]
  BY DEF DoLocal, VMFails, Domains
<1> HIDE DEF k
<1>9. ASSUME vpc'[p] # "failed"
      PROVE  /\ secret'[p] = Effect(secret[p], k)
             /\ \A r \in Written(k) : secret'[p][r] # {}
  <2>1. secret'[p] = Effect(secret[p], k)
    BY <1>2, <1>8, <1>9 DEF Effect
  <2>2. ASSUME NEW r \in Written(k) PROVE secret'[p][r] # {}
    <3>1. r \in Regs /\ (r \in Written(k - 1) \/ r \in Code[k].dst)
      BY <1>2, <2>2, WrittenFacts DEF Writing
    <3>2. CASE r \in Code[k].dst
      <4>1. PICK s \in Code[k].src : secret[p][s] # {}
        BY <1>6, <1>7, <3>2
      <4>2. secret'[p][r] = UNION {secret[p][x] : x \in Code[k].src}
        BY <1>2, <1>8, <1>9, <3>1, <3>2
      <4>3. QED
        BY <4>1, <4>2
    <3>3. CASE r \notin Code[k].dst
      BY <1>2, <1>7, <1>8, <1>9, <3>1, <3>3
    <3>4. QED
      BY <3>2, <3>3
  <2>3. QED
    BY <2>1, <2>2
<1>10. QED
  BY <1>2, <1>4, <1>9, RegNext

\* An instruction that puts the sharing meant for it into its registers.
LEMMA SharingRegs ==
  ASSUME NEW p \in Party, RegInv(p), vpc[p] # "failed", NEW k \in DOMAIN Code,
         Steps(p) = k - 1, Steps(p)' = k, Code[k].op \in {"Input", "Triple"}, NEW t,
         vpc'[p] # "failed" =>
           /\ t # {} /\ t = Right(k)
           /\ secret'[p] = [r \in Regs |-> IF r \in Code[k].dst THEN t ELSE secret[p][r]]
  PROVE  RegInv(p)'
<1>1. \A r \in Written(k - 1) : secret[p][r] # {}
  BY DEF RegInv
<1>2. ASSUME vpc'[p] # "failed"
      PROVE  /\ secret'[p] = Effect(secret[p], k)
             /\ \A r \in Written(k) : secret'[p][r] # {}
  <2>1. secret'[p] = Effect(secret[p], k)
    BY <1>2 DEF Effect
  <2>2. ASSUME NEW r \in Written(k) PROVE secret'[p][r] # {}
    <3>1. r \in Regs /\ (r \in Written(k - 1) \/ r \in Code[k].dst)
      BY <2>2, WrittenFacts DEF Writing
    <3>2. QED
      BY <1>1, <1>2, <3>1
  <2>3. QED
    BY <2>1, <2>2
<1>3. QED
  BY <1>2, RegNext

LEMMA TripleRegs ==
  ASSUME NEW p \in Party, Domains, Handshake(p), FreshInv(p), SupplyInv(p)', RegInv(p),
         DoTriple(p)
  PROVE  RegInv(p)'
<1> USE DEF prepVars, handVars, histVars, vars, partyVars
<1> DEFINE k == pc[p]
           t == {Head(tripleChan[p])}
<1>1. Take(p, {"Triple"}) /\ UNCHANGED <<pc[p], hpc[p]>>
  BY DEF DoTriple
<1>2. /\ Steps(p) = k - 1 /\ TakenUp(p)' = k /\ vpc[p] = "idle" /\ k \in DOMAIN Code
      /\ Code[k].op = "Triple" /\ Head(instChan[p]) = Code[k]
  BY <1>1, TakeMoves DEF Op
<1>3. vpc'[p] # "input"
  BY DEF DoTriple, Done, Ask, VMFails, Domains
<1>4. Steps(p)' = k
  BY <1>2, <1>3 DEF Steps
<1>5. vpc'[p] # "failed" =>
        /\ used'[p] = [used[p] EXCEPT ![pc[p]] = {Head(tripleChan[p])}]
        /\ secret'[p] = [r \in Regs |-> IF r \in Head(instChan[p]).dst
                                        THEN {Head(tripleChan[p])} ELSE secret[p][r]]
  BY DEF DoTriple, VMFails, Domains
<1>6. DOMAIN used[p] = DOMAIN Code
  BY DEF FreshInv, Fresh
<1>7. RightUse(used'[p], k)
  BY <1>2 DEF SupplyInv, RightUse
<1> HIDE DEF k
<1>8. vpc'[p] # "failed" => used'[p][k] = t
  BY <1>2, <1>5, <1>6 DEF k
<1>9. vpc'[p] # "failed" => t # {} /\ t = Right(k)
  BY <1>2, <1>7, <1>8 DEF RightUse
<1>10. vpc'[p] # "failed" =>
         secret'[p] = [r \in Regs |-> IF r \in Code[k].dst THEN t ELSE secret[p][r]]
  BY <1>2, <1>5
<1>11. QED
  BY <1>2, <1>4, <1>9, <1>10, SharingRegs

LEMMA EndInputRegs ==
  ASSUME NEW p \in Party, Domains, Handshake(p), SupplyInv(p), RegInv(p), EndInput(p)
  PROVE  RegInv(p)'
<1> USE DEF prepVars, handVars, histVars, vars, partyVars
<1> DEFINE k == pc[p]
           t == used[p][k]
<1>1. /\ vpc[p] = "input" /\ hpc[p] = "action" /\ instChan[p] = <<>> /\ k \in DOMAIN Code
      /\ UNCHANGED <<pc[p], hpc[p], instChan[p]>> /\ Code[k].op = "Input"
  BY Answered DEF EndInput, Handshake, VMInv, Op
<1>2. vpc'[p] # "input"
  BY DEF EndInput, Done, Ask, VMFails, Domains
<1>3. Steps(p) = k - 1 /\ Steps(p)' = k
  BY <1>1, <1>2 DEF Steps, TakenUp
<1>4. t # {} /\ t = Right(k)
  BY <1>1 DEF SupplyInv, RightUse
<1>5. secret'[p] = [r \in Regs |-> IF r \in Code[pc[p]].dst THEN used[p][pc[p]] ELSE secret[p][r]]
  BY DEF EndInput, Domains
<1>6. QED
  BY <1>1, <1>3, <1>4, <1>5, SharingRegs

\* Steps of the virtual machine that write no secret register.
LEMMA OtherRegs ==
  ASSUME NEW p \in Party, Domains, Handshake(p), RegInv(p),
         \/ DoInput(p) \/ DoOpen(p) \/ DoStop(p)
         \/ EndOpen(p) \/ EndCheck(p) \/ VMTimeout(p)
  PROVE  RegInv(p)'
<1> USE DEF prepVars, handVars, histVars, vars, partyVars
<1> SUFFICES ASSUME vpc'[p] # "failed" PROVE RegInv(p)'
  BY DEF RegInv
<1>1. UNCHANGED <<pc[p], hpc[p], secret[p]>>
  BY DEF DoInput, DoOpen, DoStop, EndOpen, EndCheck, VMTimeout
<1>2. CASE DoInput(p)
  <2>1. vpc'[p] = "input" /\ Take(p, {"Input"})
    BY <1>2 DEF DoInput, Ask, VMFails, Domains
  <2>2. Steps(p) = pc[p] - 1 /\ vpc[p] = "idle"
    BY <1>1, <2>1, TakeMoves
  <2>3. Steps(p)' = Steps(p)
    BY <1>1, <2>1, <2>2 DEF Steps
  <2>4. QED
    BY <1>1, <2>2, <2>3, RegSame
<1>3. CASE DoOpen(p) \/ DoStop(p)
  <2>1. /\ vpc'[p] # "input"
        /\ Take(p, {"Open", "SOutput"}) \/ Take(p, {"Stop"})
    BY <1>3 DEF DoOpen, DoStop, Ask, VMFails, Domains
  <2>2. /\ Steps(p) = pc[p] - 1 /\ TakenUp(p)' = pc[p] /\ vpc[p] = "idle"
        /\ pc[p] \in DOMAIN Code /\ Code[pc[p]].op \in {"Open", "SOutput", "Stop"}
    BY <1>1, <2>1, TakeMoves DEF Op
  <2>3. Steps(p)' = pc[p] /\ Code[pc[p]].op \notin Writing
    BY <2>1, <2>2 DEF Steps, Writing
  <2>4. QED
    BY <1>1, <2>2, <2>3, RegSkipped
<1>4. CASE EndOpen(p) \/ EndCheck(p) \/ VMTimeout(p)
  <2>1. /\ vpc'[p] # "input" /\ vpc[p] \notin {"input", "failed"} /\ instChan'[p] = instChan[p]
    BY <1>4 DEF EndOpen, EndCheck, VMTimeout, Done, Ask, VMFails, Domains
  <2>2. Steps(p)' = Steps(p)
    BY <1>1, <2>1 DEF Steps, TakenUp
  <2>3. QED
    BY <1>1, <2>1, <2>2, RegSame
<1>5. QED
  BY <1>2, <1>3, <1>4

LEMMA InitRegs == MpcInit => AllRegs
<1> SUFFICES ASSUME MpcInit, NEW p \in Party PROVE RegInv(p)
  BY DEF AllRegs
<1>1. /\ secret[p] = [r \in Regs |-> {}] /\ vpc[p] = "idle" /\ hpc[p] = "idle"
      /\ instChan[p] = <<>> /\ pc[p] = 0
  BY DEF MpcInit, Init
<1>2. Steps(p) = 0
  BY <1>1 DEF Steps, TakenUp
<1>3. Run[0] = [r \in Regs |-> {}]
  BY RunFacts DEF IsRun
<1>4. Written(0) = {}
  BY DEF Written
<1>5. QED
  BY <1>1, <1>2, <1>3, <1>4 DEF RegInv

LEMMA NextRegs ==
  ASSUME Suits, TypeOK, HandInv, StopInv, AllFresh, AllSupply, AllSupply', AllRegs,
         [MpcNext]_allVars
  PROVE  AllRegs'
<1> SUFFICES ASSUME NEW q \in Party PROVE RegInv(q)'
  BY DEF AllRegs
<1>0. /\ RegInv(q) /\ Domains /\ Handshake(q) /\ FreshInv(q) /\ SupplyInv(q)
      /\ SupplyInv(q)'
  BY DEF AllRegs, HandInv, AllFresh, AllSupply
<1>1. CASE UNCHANGED Own(q)
  <2>1. UNCHANGED <<vpc[q], secret[q], pc[q], hpc[q], instChan[q]>>
    BY <1>1 DEF Own, Local
  <2>2. Steps(q)' = Steps(q)
    BY <2>1 DEF Steps, TakenUp
  <2>3. QED
    BY <1>0, <2>1, <2>2, RegSame
<1>2. CASE VMStep(q)
  BY <1>0, <1>2, LocalRegs, TripleRegs, EndInputRegs, OtherRegs DEF VMStep
<1>3. CASE PartyThread(q) \/ PrepEnds(q)
  <2>1. Steps(q)' = Steps(q) /\ vpc'[q] = vpc[q] /\ secret'[q] = secret[q]
    BY <1>0, <1>3, PartyTakenUp, PartyKeeps
  <2>2. QED
    BY <1>0, <2>1, RegSame
<1>4. QED
  BY <1>0, <1>1, <1>2, <1>3, OwnLocal

-----------------------------------------------------------------------------
(* What is in the clear registers: what was given and what has been written. *)

\* The instructions whose clear results are in their registers.
Finished(p) == IF vpc[p] = "idle" THEN TakenUp(p) ELSE pc[p] - 1

ClearInv(g, p) == ~VMGone(p) => g[p] \cup ClearWritten(Finished(p)) \subseteq clear[p]
AllClear == DOMAIN clear = Party /\ \E g \in Given : \A p \in Party : ClearInv(g, p)

LEMMA ClearWrittenFacts ==
  ASSUME NEW k \in DOMAIN Code
  PROVE  /\ ClearWritten(k - 1) \subseteq ClearWritten(k)
         /\ ClearWritten(k) \subseteq ClearWritten(k - 1) \cup Code[k].cdst
         /\ Code[k].op \notin {"Local", "COutput", "Open"} =>
              ClearWritten(k) = ClearWritten(k - 1)
<1>1. k \in Nat /\ \A j : j \in 1 .. k <=> j \in 1 .. k - 1 \/ j = k
  BY CodeFacts
<1>2. QED
  BY <1>1 DEF ClearWritten

\* Finished instructions are one more at most, and what that one writes has
\* been written.
LEMMA ClearNext ==
  ASSUME NEW g, NEW p \in Party, ClearInv(g, p), VMGone(p) => VMGone(p)',
         clear[p] \subseteq clear'[p],
         ~VMGone(p)' =>
           \/ Finished(p)' = Finished(p)
           \/ \E k \in DOMAIN Code :
                /\ Finished(p) = k - 1 /\ Finished(p)' = k
                /\ \/ Code[k].op \notin {"Local", "COutput", "Open"}
                   \/ Code[k].cdst \subseteq clear'[p]
  PROVE  ClearInv(g, p)'
<1> SUFFICES ASSUME ~VMGone(p)'
             PROVE  g[p] \cup ClearWritten(Finished(p)') \subseteq clear'[p]
  BY DEF ClearInv, ClearWritten
<1>1. g[p] \cup ClearWritten(Finished(p)) \subseteq clear'[p]
  BY DEF ClearInv
<1>2. CASE Finished(p)' = Finished(p)
  BY <1>1, <1>2
<1>3. ASSUME NEW k \in DOMAIN Code, Finished(p) = k - 1, Finished(p)' = k,
             Code[k].op \notin {"Local", "COutput", "Open"} \/ Code[k].cdst \subseteq clear'[p]
      PROVE  g[p] \cup ClearWritten(Finished(p)') \subseteq clear'[p]
  <2>1. ClearWritten(k) \subseteq clear'[p]
    BY <1>1, <1>3, ClearWrittenFacts
  <2>2. QED
    BY <1>1, <1>3, <2>1
<1>4. QED
  BY <1>2, <1>3

\* An instruction is taken: it is finished at once, or not yet.
LEMMA TakenClear ==
  ASSUME NEW g, NEW p \in Party, ClearInv(g, p), Domains, Handshake(p), NEW ops, Take(p, ops),
         UNCHANGED <<pc[p], hpc[p]>>, clear[p] \subseteq clear'[p],
         \/ vpc'[p] # "idle"
         \/ Code[pc[p]].cdst \subseteq clear'[p]
         \/ ops \cap {"Local", "COutput", "Open"} = {}
  PROVE  ClearInv(g, p)'
<1>1. /\ TakenUp(p) = pc[p] - 1 /\ TakenUp(p)' = pc[p] /\ vpc[p] = "idle"
      /\ pc[p] \in DOMAIN Code /\ Code[pc[p]].op \in ops
  BY TakeMoves DEF Op
<1>2. Finished(p) = pc[p] - 1 /\ ~VMGone(p)
  BY <1>1 DEF Finished, VMGone
<1>3. CASE vpc'[p] # "idle"
  <2>1. Finished(p)' = Finished(p)
    BY <1>2, <1>3 DEF Finished
  <2>2. QED
    BY <1>2, <2>1, ClearNext
<1>4. CASE vpc'[p] = "idle"
  <2>1. Finished(p)' = pc[p]
    BY <1>1, <1>4 DEF Finished
  <2>2. Code[pc[p]].op \notin {"Local", "COutput", "Open"} \/ Code[pc[p]].cdst \subseteq clear'[p]
    BY <1>1, <1>4
  <2>3. QED
    BY <1>1, <1>2, <2>1, <2>2, ClearNext, Zenon
<1>5. QED
  BY <1>3, <1>4

\* An answer ends the instruction, or asks for the check of SOutput.
LEMMA AnsweredClear ==
  ASSUME NEW g, NEW p \in Party, ClearInv(g, p), Domains, Handshake(p),
         vpc[p] \in {"input", "open", "check"}, resp[p] # <<>>,
         UNCHANGED <<pc[p], hpc[p], instChan[p]>>, clear[p] \subseteq clear'[p],
         \/ vpc'[p] # "idle"
         \/ Code[pc[p]].cdst \subseteq clear'[p]
         \/ Code[pc[p]].op \notin {"Local", "COutput", "Open"}
  PROVE  ClearInv(g, p)'
<1>1. /\ hpc[p] = "action" /\ instChan[p] = <<>> /\ pc[p] \in DOMAIN Code
  BY Answered DEF Handshake, VMInv
<1>2. Finished(p) = pc[p] - 1 /\ ~VMGone(p)
  BY DEF Finished, VMGone
<1>3. CASE vpc'[p] # "idle"
  <2>1. Finished(p)' = Finished(p)
    BY <1>2, <1>3 DEF Finished
  <2>2. QED
    BY <1>2, <2>1, ClearNext
<1>4. CASE vpc'[p] = "idle"
  <2>1. Finished(p)' = pc[p]
    BY <1>1, <1>4 DEF Finished, TakenUp
  <2>2. Code[pc[p]].op \notin {"Local", "COutput", "Open"} \/ Code[pc[p]].cdst \subseteq clear'[p]
    BY <1>4
  <2>3. QED
    BY <1>1, <1>2, <2>1, <2>2, ClearNext, Zenon
<1>5. QED
  BY <1>3, <1>4

LEMMA VMClear ==
  ASSUME NEW g, NEW p \in Party, DOMAIN clear = Party, ClearInv(g, p), Domains, Handshake(p),
         VMStep(p)
  PROVE  ClearInv(g, p)'
<1> USE DEF prepVars, handVars, histVars, vars, partyVars
<1>1. CASE DoLocal(p)
  <2>1. /\ Take(p, {"Local", "COutput"}) /\ UNCHANGED <<pc[p], hpc[p]>>
        /\ Head(instChan[p]) = Code[pc[p]]
    BY <1>1, TakeMoves DEF DoLocal
  <2>2. \/ vpc'[p] = "failed" /\ clear'[p] = clear[p]
        \/ clear'[p] = clear[p] \cup Code[pc[p]].cdst
    BY <1>1, <2>1 DEF DoLocal, VMFails, Domains
  <2>3. QED
    BY <2>1, <2>2, TakenClear
<1>2. CASE DoTriple(p)
  <2>1. Take(p, {"Triple"}) /\ UNCHANGED <<pc[p], hpc[p], clear>>
    BY <1>2 DEF DoTriple
  <2>2. QED
    BY <2>1, TakenClear
<1>3. CASE DoInput(p)
  <2>1. Take(p, {"Input"}) /\ UNCHANGED <<pc[p], hpc[p], clear>>
    BY <1>3 DEF DoInput
  <2>2. QED
    BY <2>1, TakenClear
<1>4. CASE DoOpen(p)
  <2>1. Take(p, {"Open", "SOutput"}) /\ UNCHANGED <<pc[p], hpc[p], clear>> /\ vpc'[p] # "idle"
    BY <1>4 DEF DoOpen, VMFails, Ask, Domains
  <2>2. QED
    BY <2>1, TakenClear
<1>5. CASE DoStop(p)
  <2>1. Take(p, {"Stop"}) /\ UNCHANGED <<pc[p], hpc[p], clear>>
    BY <1>5 DEF DoStop
  <2>2. QED
    BY <2>1, TakenClear
<1>6. CASE EndInput(p)
  <2>1. /\ vpc[p] = "input" /\ resp[p] # <<>>
        /\ UNCHANGED <<pc[p], hpc[p], instChan[p], clear>>
    BY <1>6 DEF EndInput
  <2>2. Code[pc[p]].op = "Input"
    BY <2>1, Answered DEF Handshake, VMInv, Op
  <2>3. QED
    BY <2>1, <2>2, AnsweredClear
<1>7. CASE EndOpen(p)
  <2>1. vpc[p] = "open" /\ resp[p] # <<>> /\ UNCHANGED <<pc[p], hpc[p], instChan[p]>>
    BY <1>7 DEF EndOpen
  <2>2. CASE Code[pc[p]].op = "SOutput"
    <3>1. vpc'[p] # "idle" /\ UNCHANGED clear
      BY <1>7, <2>2 DEF EndOpen, Ask, VMFails, Domains
    <3>2. QED
      BY <2>1, <3>1, AnsweredClear
  <2>3. CASE Code[pc[p]].op # "SOutput"
    <3>1. clear'[p] = clear[p] \cup Code[pc[p]].cdst
      BY <1>7, <2>3 DEF EndOpen
    <3>2. QED
      BY <2>1, <3>1, AnsweredClear
  <2>4. QED
    BY <2>2, <2>3
<1>8. CASE EndCheck(p)
  <2>1. /\ vpc[p] = "check" /\ resp[p] # <<>>
        /\ UNCHANGED <<pc[p], hpc[p], instChan[p], clear>>
    BY <1>8 DEF EndCheck
  <2>2. vpc'[p] = "idle" => Code[pc[p]].op = "SOutput"
    BY <1>8 DEF EndCheck, Done, Ask, VMFails, Domains
  <2>3. QED
    BY <2>1, <2>2, AnsweredClear
<1>9. CASE VMTimeout(p)
  BY <1>9 DEF VMTimeout, VMFails, VMGone, ClearInv, Domains
<1>10. QED
  BY <1>1, <1>2, <1>3, <1>4, <1>5, <1>6, <1>7, <1>8, <1>9 DEF VMStep

LEMMA ClearDomain ==
  ASSUME DOMAIN clear = Party, NEW p \in Party, VMStep(p)
  PROVE  DOMAIN clear' = Party /\ \A q \in Party \ {p} : clear'[q] = clear[q]
  BY DEF VMStep, DoLocal, DoTriple, DoInput, DoOpen, DoStop, EndInput, EndOpen, EndCheck,
     VMTimeout

LEMMA InitClear == MpcInit => AllClear
<1> SUFFICES ASSUME MpcInit PROVE AllClear
  OBVIOUS
<1>1. clear \in Given /\ DOMAIN clear = Party
  BY MpcAssumption DEF MpcInit
<1>2. ASSUME NEW p \in Party PROVE ClearInv(clear, p)
  <2>1. vpc[p] = "idle" /\ hpc[p] = "idle" /\ instChan[p] = <<>> /\ pc[p] = 0
    BY DEF MpcInit, Init
  <2>2. Finished(p) = 0
    BY <2>1 DEF Finished, TakenUp
  <2>3. ClearWritten(0) = {}
    BY DEF ClearWritten
  <2>4. QED
    BY <2>2, <2>3 DEF ClearInv
<1>3. QED
  BY <1>1, <1>2 DEF AllClear

LEMMA NextClear ==
  ASSUME TypeOK, HandInv, AllClear, [MpcNext]_allVars
  PROVE  AllClear'
<1> USE DEF mpcVars, vmVars
<1>1. DOMAIN clear = Party /\ Domains /\ \A p \in Party : Handshake(p)
  BY DEF AllClear, HandInv
<1>2. PICK g \in Given : \A p \in Party : ClearInv(g, p)
  BY DEF AllClear
<1>3. ASSUME NEW q \in Party, UNCHANGED Local(q), clear'[q] = clear[q] PROVE ClearInv(g, q)'
  <2>1. UNCHANGED <<vpc[q], pc[q], hpc[q], instChan[q]>>
    BY <1>3 DEF Local
  <2>2. Finished(q)' = Finished(q) /\ VMGone(q)' = VMGone(q)
    BY <2>1 DEF Finished, TakenUp, VMGone
  <2>3. QED
    BY <1>2, <1>3, <2>2, ClearNext
<1>4. ASSUME NEW p \in Party, VMStep(p), \A q \in Party \ {p} : UNCHANGED Local(q)
      PROVE  AllClear'
  <2>1. DOMAIN clear' = Party /\ \A q \in Party \ {p} : clear'[q] = clear[q]
    BY <1>1, <1>4, ClearDomain
  <2>2. ClearInv(g, p)'
    BY <1>1, <1>2, <1>4, VMClear
  <2>3. \A q \in Party : ClearInv(g, q)'
    BY <1>3, <1>4, <2>1, <2>2
  <2>4. QED
    BY <2>1, <2>3 DEF AllClear
<1>5. ASSUME NEW p \in Party, PartyThread(p) \/ PrepEnds(p),
             \A q \in Party \ {p} : UNCHANGED Local(q)
      PROVE  AllClear'
  <2>1. clear' = clear
    BY <1>5 DEF PartyThread, Listen, Forward, ForwardFails, PrepEnds, HandlerFails, Fails,
       GiveInstruction, OnNext, OnOpen, OnInput, OnCheck, TakeAction,
       EndElems, EndInputElem, Commit, EndComs, Reveal, EndOpens
  <2>2. TakenUp(p)' = TakenUp(p) /\ vpc'[p] = vpc[p]
    BY <1>1, <1>5, PartyTakenUp
  <2>3. vpc[p] \notin {"idle", "done", "failed"} => pc'[p] = pc[p]
    BY <1>1, <1>5, PartyTakenUp
  <2>4. VMGone(p)' = VMGone(p) /\ (~VMGone(p) => Finished(p)' = Finished(p))
    BY <2>2, <2>3 DEF Finished, VMGone
  <2>5. ClearInv(g, p)'
    BY <1>2, <2>1, <2>2, <2>4, ClearNext
  <2>6. \A q \in Party : ClearInv(g, q)'
    BY <1>3, <1>5, <2>1, <2>5
  <2>7. QED
    BY <1>1, <2>1, <2>6 DEF AllClear
<1>6. CASE SyncThread \/ UNCHANGED allVars
  <2>1. clear' = clear
    BY <1>6 DEF SyncThread, allVars
  <2>2. \A q \in Party : UNCHANGED Local(q)
    BY <1>1, <1>6, SyncLocal DEF allVars, vars, partyVars, linkVars, prepVars, handVars,
       histVars, Local
  <2>3. QED
    BY <1>1, <1>3, <2>1, <2>2 DEF AllClear
<1>7. QED
  BY <1>4, <1>5, <1>6, StepOf DEF HandInv

\* What an instruction reads from the clear registers is there.
LEMMA ClearReadable ==
  ASSUME ClearSuits, StopInv, Domains, AllClear, NEW p \in Party, Handshake(p), NEW ops,
         Take(p, ops), UNCHANGED <<pc[p], hpc[p]>>, "Stop" \notin ops
  PROVE  /\ Op(p) \in {"Local", "COutput"} => Code[pc[p]].csrc \subseteq clear[p]
         /\ Op(p) = "Input" /\ Code[pc[p]].id = p => Code[pc[p]].csrc \subseteq clear[p]
<1>1. PICK g \in Given : ClearInv(g, p)
  BY DEF AllClear
<1>2. /\ TakenUp(p) = pc[p] - 1 /\ vpc[p] = "idle" /\ pc[p] \in DOMAIN Code /\ Op(p) \in ops
  BY TakeMoves
<1>3. pc[p] \in Reached
  BY <1>2, ReachedNow
<1>4. g[p] \cup ClearWritten(pc[p] - 1) \subseteq clear[p]
  BY <1>1, <1>2 DEF ClearInv, Finished, VMGone
<1>5. QED
  BY <1>3, <1>4 DEF ClearSuits, Op

-----------------------------------------------------------------------------
(* What is left of a computation in which something has failed.            *)

DeadInv(p) ==
  /\ vmErr[p] # "none" => vpc[p] = "failed"
  /\ vpc[p] = "failed" =>
       Gone(p) \/ (ppc[p] = "busy" /\ hpc[p] = "action" /\ actChan[p] = <<>>)
  /\ cause[p] = "TrySendError" => ppc[p] = "err" /\ hpc[p] = "idle"
AllDead == \A p \in Party : DeadInv(p)

LEMMA VMDead ==
  ASSUME Timely, TypeOK, NEW p \in Party, Domains, Handshake(p), DeadInv(p), VMStep(p)
  PROVE  DeadInv(p)'
<1> USE DEF prepVars, handVars, histVars, vars, partyVars
<1>1. UNCHANGED <<ppc[p], hpc[p], cause[p]>> /\ vpc[p] \notin {"done", "failed"}
  BY DEF VMStep, DoLocal, DoTriple, DoInput, DoOpen, DoStop, EndInput, EndOpen, EndCheck,
     VMTimeout, Take
<1>2. vmErr[p] = "none"
  BY <1>1 DEF DeadInv
<1>3. vmErr'[p] # "none" => vpc'[p] = "failed"
  BY <1>2 DEF VMStep, DoLocal, DoTriple, DoInput, DoOpen, DoStop, EndInput, EndOpen, EndCheck,
     VMTimeout, Take, Done, Ask, VMFails, Domains
<1>4. ASSUME vpc'[p] = "failed"
      PROVE  Gone(p) \/ (ppc[p] = "busy" /\ hpc[p] = "action" /\ actChan'[p] = <<>>)
  <2>1. CASE VMTimeout(p)
    BY <2>1 DEF VMTimeout
  <2>2. ASSUME NEW ops, Take(p, ops)
        PROVE  hpc[p] = "action" /\ actChan[p] = <<>>
    BY <2>2, Taken
  <2>3. resp[p] # <<>> => hpc[p] = "action" /\ actChan[p] = <<>>
    BY Answered
  <2>4. CASE ~VMTimeout(p)
    <3>1. hpc[p] = "action" /\ actChan[p] = <<>>
      BY <2>2, <2>3, <2>4 DEF VMStep, DoLocal, DoTriple, DoInput, DoOpen, DoStop, EndInput,
         EndOpen, EndCheck
    <3>2. actChan'[p] = actChan[p]
      BY <1>1, <1>4, <2>4 DEF VMStep, DoLocal, DoTriple, DoInput, DoOpen, DoStop, EndInput,
         EndOpen, EndCheck, Take, Done, Ask, VMFails, Domains
    <3>3. ppc[p] \in {"busy", "err"}
      BY <3>1 DEF Handshake, PhaseInv
    <3>4. QED
      BY <3>1, <3>2, <3>3 DEF Gone, Ended
  <2>5. QED
    BY <2>1, <2>4
<1>5. Gone(p)' = Gone(p)
  BY <1>1 DEF Gone
<1>6. QED
  BY <1>1, <1>3, <1>4, <1>5 DEF DeadInv

LEMMA PartyDead ==
  ASSUME TypeOK, NEW p \in Party, Domains, Handshake(p), DeadInv(p),
         PartyThread(p) \/ PrepEnds(p)
  PROVE  DeadInv(p)'
<1> USE DEF prepVars, handVars, histVars, vars, partyVars, vmVars, linkVars, mpcVars
<1>1. UNCHANGED <<vpc[p], vmErr[p]>>
  BY PartyKeeps
<1>2. Gone(p) => Gone(p)'
  BY EndSteps DEF Gone
<1>3. CASE ForwardFails(p)
  <2>1. Between(p) /\ ppc'[p] = "err" /\ hpc'[p] = hpc[p]
    BY <1>3 DEF ForwardFails, TakePrep, PrepFails, Fails, TypeOK
  <2>2. hpc[p] = "idle"
    BY <2>1 DEF Between, Handshake, PhaseInv
  <2>3. QED
    BY <1>1, <2>1, <2>2 DEF DeadInv, Gone, Ended
<1>4. CASE ~ForwardFails(p)
  <2>1. cause'[p] = "TrySendError" =>
          cause[p] = "TrySendError" /\ ppc'[p] = "err" /\ hpc'[p] = "idle"
    <3>1. CASE cause'[p] = cause[p]
      <4>1. ASSUME ppc[p] = "err" PROVE hpc'[p] = hpc[p] /\ ppc'[p] = ppc[p]
        BY <1>4, <4>1 DEF PartyThread, Listen, AwaitStart, Fetch, SyncLost, Join, Forward,
           TakePrep, Between, GiveInstruction, At, OnNext, OnOpen, OnInput, OnCheck, TakeAction,
           EndElems, EndInputElem, Commit, EndComs, Reveal, EndOpens, HandlerFails, BusyFails,
           PrepEnds, PrepFails, TypeOK
      <4>2. QED
        BY <3>1, <4>1 DEF DeadInv
    <3>2. CASE cause'[p] # cause[p]
      <4>1. cause'[p] # "TrySendError"
        BY <1>4, <3>2 DEF PartyThread, Listen, Fails, Forward,
           GiveInstruction, OnNext, OnOpen, OnInput, OnCheck, TakeAction, Errors,
           EndElems, EndInputElem, Commit, EndComs, Reveal, EndOpens, HandlerFails, PrepEnds,
           Domains
      <4>2. QED
        BY <4>1
    <3>3. QED
      BY <3>1, <3>2
  <2>2. ASSUME ppc[p] = "busy", hpc[p] = "action", actChan[p] = <<>>
        PROVE  Gone(p)' \/ (ppc'[p] = "busy" /\ hpc'[p] = "action" /\ actChan'[p] = <<>>)
    <3>1. HandlerFails(p)
      BY <1>4, <2>2 DEF PartyThread, Listen, AwaitStart, Fetch, SyncLost, Join, Forward,
         TakePrep, Between, GiveInstruction, At, OnNext, OnOpen, OnInput, OnCheck, TakeAction,
         EndElems, EndInputElem, Commit, EndComs, Reveal, EndOpens, PrepEnds, PrepFails
    <3>2. QED
      BY <3>1 DEF HandlerFails, BusyFails, Gone, Ended, TypeOK
  <2>3. QED
    BY <1>1, <1>2, <2>1, <2>2 DEF DeadInv
<1>5. QED
  BY <1>3, <1>4

LEMMA InitDead == MpcInit => AllDead
  BY DEF MpcInit, AllDead, DeadInv

LEMMA NextDead ==
  ASSUME Timely, TypeOK, HandInv, AllDead, [MpcNext]_allVars
  PROVE  AllDead'
<1> SUFFICES ASSUME NEW q \in Party PROVE DeadInv(q)'
  BY DEF AllDead
<1>0. DeadInv(q) /\ Domains /\ Handshake(q)
  BY DEF AllDead, HandInv
<1>1. CASE UNCHANGED Local(q)
  BY <1>0, <1>1 DEF Local, DeadInv, Gone
<1>2. CASE VMStep(q) \/ PartyThread(q) \/ PrepEnds(q)
  BY <1>0, <1>2, VMDead, PartyDead
<1>3. QED
  BY <1>0, <1>1, <1>2, StepOf

\* A program that suits is the same for everybody, stops, and aborts nothing.
LEMMA SuitsLockstep ==
  ASSUME Suits, prog \in Programs
  PROVE  Uniform /\ NobodyAborts
<1>1. prog = [p \in Party |-> [i \in DOMAIN Code |-> IF Code[i].op = "Stop" THEN "stop" ELSE "op"]]
  BY MpcAssumption
<1>2. 0 \in Party
  BY LockstepAssumption DEF Party
<1>3. PICK i \in DOMAIN Code : Code[i].op = "Stop"
  BY DEF Suits
<1>4. \A p \in Party : /\ prog[p] = prog[0] /\ Len(prog[p]) = Len(Code)
                       /\ \A j \in 1 .. Len(prog[p]) : prog[p][j] \in {"stop", "op"}
  <2>1. \A p \in Party : prog[p] = prog[0] /\ Len(prog[p]) = Len(Code)
    BY <1>1, <1>2, CodeFacts
  <2>2. \A p \in Party, j \in DOMAIN Code : prog[p][j] \in {"stop", "op"}
    BY <1>1
  <2>3. QED
    BY <2>1, <2>2, CodeFacts
<1>5. \A p \in Party : i \in 1 .. Len(prog[p]) /\ prog[p][i] = "stop"
  BY <1>3, <1>4, CodeFacts
<1>6. QED
  BY <1>4, <1>5 DEF Uniform, NobodyAborts

\* The synchronizer begins a round only if the one before was not everybody's
\* last, and a party that returns has replied to all it has executed.
GoingOn == spc \in {"next", "collect"} => \A k \in 1 .. round - 1 : Code[k].op # "Stop"
Replied == \A p \in Party : ppc[p] = "ok" => replied[p] = pc[p]

LEMMA NextReplied == TypeOK /\ IInv /\ Replied /\ [Next]_vars => Replied'
<1> SUFFICES ASSUME TypeOK, IInv, Replied, [Next]_vars, NEW q \in Party, ppc'[q] = "ok"
             PROVE  replied'[q] = pc'[q]
  BY DEF Replied
<1> USE DEF vars, syncVars, partyVars, chanVars
<1>1. /\ ppc[q] = "ok" => replied[q] = pc[q]
      /\ ppc[q] = "joining" => replied[q] = pc[q]
  BY DEF Replied, IInv, PartyInv
<1>2. CASE UNCHANGED <<ppc[q], pc[q], replied[q]>>
  BY <1>1, <1>2
<1>3. CASE Sync
  BY <1>2, <1>3 DEF Sync, Send, SendFails, BroadcastEnds, Collect, CollectFails, Decide
<1>4. CASE PartyStep(q) \/ PrepFails(q)
  BY <1>1, <1>4 DEF PartyStep, AwaitStart, Fetch, SyncLost, Reply, ReplyAbort, BusyFails,
     Join, PrepFails, TypeOK
<1>5. ASSUME NEW p \in Party \ {q}, PartyStep(p) \/ PrepFails(p)
      PROVE  UNCHANGED <<ppc[q], pc[q], replied[q]>>
  BY <1>5 DEF PartyStep, AwaitStart, Fetch, SyncLost, Reply, ReplyAbort, BusyFails, Join,
     PrepFails, TypeOK
<1>6. QED
  BY <1>2, <1>3, <1>4, <1>5 DEF Next, Terminated

LEMMA NextGoingOn ==
  ASSUME TypeOK, IInv, Answers, prog \in Programs, GoingOn, [Next]_vars
  PROVE  GoingOn'
<1> SUFFICES ASSUME spc' \in {"next", "collect"} PROVE \A k \in 1 .. round' - 1 : Code[k].op # "Stop"
  BY DEF GoingOn
<1> USE DEF vars, syncVars, partyVars, chanVars
<1>1. CASE spc' = spc /\ round' = round
  BY <1>1 DEF GoingOn
<1>2. CASE BroadcastEnds
  <2>1. CASE spc = "start"
    <3>1. round' = 1
      BY <1>2, <2>1 DEF BroadcastEnds, BroadcastNext, IInv, RoundInv
    <3>2. QED
      BY <3>1
  <2>2. CASE spc # "start"
    BY <1>2, <2>2 DEF BroadcastEnds, Broadcasting, GoingOn
  <2>3. QED
    BY <2>1, <2>2
<1>3. CASE Decide
  <2>1. /\ spc = "collect" /\ sidx = N /\ N \in Nat \ {0} /\ round \in Nat /\ round >= 1
    BY <1>3, LockstepAssumption DEF Decide, LoopEnds, IInv, RoundInv, TypeOK
  <2>2. round' = round + 1 /\ Unanimous("Ok")
    BY <1>3 DEF Decide, BroadcastNext
  <2>3. Len(replies) = N /\ replies[0 + 1] = ReplyOf(0, round)
    BY <2>1 DEF Answers, VerdictInv
  <2>4. ReplyOf(0, round) = "Ok"
    BY <2>1, <2>2, <2>3 DEF Unanimous
  <2>5. prog[0][round] # "stop"
    BY <2>4 DEF ReplyOf
  <2>6. 0 \in Party
    BY <2>1 DEF Party
  <2>7. pc[0] >= round /\ pc[0] <= Len(prog[0]) /\ pc[0] \in Nat
    <3>1. replied[0] = round + Len(toSync[0]) /\ Len(toSync[0]) \in Nat
      BY <2>1, <2>6 DEF IInv, TypeOK, InboundInv, Received, SyncGone, Ended, Party
    <3>2. QED
      BY <2>1, <2>6, <3>1, Counts DEF TypeOK
  <2>8. round \in DOMAIN Code
    BY <2>1, <2>6, <2>7, CodeFacts
  <2>9. Code[round].op # "Stop"
    BY <2>5, <2>6, <2>8, CodeFacts
  <2>10. \A k \in 1 .. round' - 1 : k \in 1 .. round - 1 \/ k = round
    BY <2>1, <2>2
  <2>11. QED
    BY <2>1, <2>9, <2>10 DEF GoingOn
<1>4. CASE Sync /\ ~Decide /\ ~BroadcastEnds
  BY <1>1, <1>4 DEF Sync, Send, SendFails, Collect, CollectFails
<1>5. ASSUME NEW p \in Party, PartyStep(p) \/ PrepFails(p) PROVE spc' = spc /\ round' = round
  BY <1>5 DEF PartyStep, AwaitStart, Fetch, SyncLost, Reply, ReplyAbort, BusyFails, Join, PrepFails
<1>6. QED
  BY <1>1, <1>2, <1>3, <1>4, <1>5 DEF Next, Terminated

-----------------------------------------------------------------------------
(* As long as nothing has failed, everybody opens the same values.         *)

Calm == /\ spc \notin {"err", "panic"}
        /\ \A p \in Party : ppc[p] \notin {"err", "panic"} /\ vpc[p] # "failed"

\* The share that instruction i opens, and that those sent are it.
Opened(i) == UNION {Run[i - 1][r] : r \in Code[i].src}
Linked(s) == \A q \in Party, i \in DOMAIN Code : s[q][i] # {} => s[q][i] = Opened(i)

LEMMA LinkedAgrees ==
  ASSUME NEW s, Linked(s), NEW k \in DOMAIN Code
  PROVE  ~Broken(s, k)
<1>1. ASSUME NEW i \in Listed(k), Known(s, i) PROVE Agreed(s, i)
  <2>1. i \in DOMAIN Code
    BY Ranks
  <2>2. \A q \in Party : s[q][i] = Opened(i)
    BY <1>1, <2>1 DEF Linked, Known
  <2>3. QED
    BY <2>2 DEF Agreed
<1>2. QED
  BY <1>1 DEF Broken

\* What an opening finds in its register.
LEMMA OperandIs ==
  ASSUME NEW p \in Party, RegInv(p), vpc[p] # "failed", pc[p] \in DOMAIN Code,
         Op(p) \in Opening, Steps(p) = pc[p]
  PROVE  Operand(p) = Opened(pc[p])
<1> DEFINE k == pc[p]
<1>1. secret[p] = Run[k]
  BY DEF RegInv
<1>2. Run[k] = Effect(Run[k - 1], k)
  BY RunFacts, CodeFacts DEF IsRun
<1>3. \A r \in Regs : secret[p][r] = Run[k - 1][r]
  BY <1>1, <1>2 DEF Effect, Op, Opening
<1>4. Code[k].src \subseteq Regs
  BY WrittenFacts
<1>5. QED
  BY <1>3, <1>4 DEF Operand, Opened

LEMMA OpenLinked ==
  ASSUME HandInv, AllRegs, Calm, NEW p \in Party, OnOpen(p),
         NEW s, Consistent(s), Linked(s), NEW t, Sent(s, t, p)
  PROVE  Linked(t)
<1>1. /\ TakeAction(p, "Open") /\ Domains /\ Handshake(p) /\ RegInv(p) /\ SentInv(s, p)
      /\ vpc[p] # "failed"
  BY DEF OnOpen, HandInv, AllRegs, Consistent, Calm
<1>2. /\ hpc[p] = "action" /\ pc[p] \in DOMAIN Code /\ actChan[p] # <<>>
      /\ Head(actChan[p]).act = "Open" /\ ActionFits(p, Head(actChan[p])) /\ instChan[p] = <<>>
  BY <1>1, TakenAction
<1>3. vpc[p] = "open" /\ Op(p) \in Opening
  BY <1>1, <1>2 DEF ActionFits
<1>4. Steps(p) = pc[p]
  BY <1>2, <1>3 DEF Steps, TakenUp
<1>5. Head(actChan[p]).share = Opened(pc[p])
  BY <1>1, <1>2, <1>3, <1>4, OperandIs DEF SentInv
<1>6. QED
  BY <1>5 DEF Sent, Linked

SharesLinked == \E s : Consistent(s) /\ Linked(s)

LEMMA InitLinked == MpcInit => SharesLinked
<1> DEFINE s == [q \in Party |-> [i \in DOMAIN Code |-> {}]]
<1> SUFFICES ASSUME MpcInit PROVE Consistent(s) /\ Linked(s)
  BY DEF SharesLinked
<1>1. Linked(s)
  BY DEF Linked
<1>2. Consistent(s)
  BY InitConsistent
<1>3. QED
  BY <1>1, <1>2

LEMMA NextLinked ==
  ASSUME Self, TypeOK, HandInv, AllCount, AllOrder, PeerDomains, RightMessage, AllRegs, Calm,
         SharesLinked, [MpcNext]_allVars
  PROVE  SharesLinked'
<1>1. PICK s : Consistent(s) /\ Linked(s)
  BY DEF SharesLinked
<1>2. ASSUME NEW t, Linked(t), Consistent(t)' PROVE SharesLinked'
  <2>1. Linked(t)'
    BY <1>2 DEF Linked, Opened, Run, IsRun, Effect
  <2>2. QED
    BY <1>2, <2>1 DEF SharesLinked
<1>3. CASE UNCHANGED peer /\ \A q \in Party : UNCHANGED Own(q)
  <2>1. ASSUME NEW q \in Party PROVE RecordInv(s, q)' /\ SentInv(s, q)' /\ CheckInv(s, q)'
    BY <1>1, <1>3, ValuesLocal DEF Consistent
  <2>2. AllGood(s)'
    BY <1>1, <1>3, GoodSame DEF AllGood, Consistent
  <2>3. Consistent(s)'
    BY <2>1, <2>2 DEF Consistent, AllGood
  <2>4. QED
    BY <1>1, <1>2, <2>3
<1>4. ASSUME NEW p \in Party, PartyThread(p) \/ VMStep(p) \/ PrepEnds(p),
             \A q \in Party \ {p} : UNCHANGED Own(q)
      PROVE  SharesLinked'
  <2>1. CASE OnOpen(p)
    <3>1. PICK t : Consistent(t)' /\ Sent(s, t, p)
      BY <1>1, <1>4, <2>1, OpenValues
    <3>2. Linked(t)
      BY <1>1, <2>1, <3>1, OpenLinked
    <3>3. QED
      BY <1>2, <3>1, <3>2
  <2>2. CASE PartyQuiet(p) \/ VMStep(p)
    <3>1. Consistent(s)'
      BY <1>1, <1>4, <2>2, StepValues
    <3>2. QED
      BY <1>1, <1>2, <3>1
  <2>3. QED
    BY <1>4, <2>1, <2>2 DEF PartyQuiet
<1>5. Domains
  BY DEF HandInv
<1>6. QED
  BY <1>3, <1>4, <1>5, OwnLocal

-----------------------------------------------------------------------------
(* While nothing has failed, what can fail first is the preprocessing.     *)

Trouble == \E p \in Party : Starved(p) \/ Flooded(p)

\* Nobody ends while nothing has failed but with its result.
LEMMA CalmGone ==
  ASSUME Calm, HandInv, NEW p \in Party, Gone(p)
  PROVE  ppc[p] = "ok" /\ vpc[p] = "done" /\ hpc[p] = "idle"
  BY DEF Calm, Gone, Ended, HandInv, Handshake, PhaseInv

LEMMA SyncCalm ==
  ASSUME Timely, Calm, HandInv, IInv, Answers, UniformNeverPanics', Uniform, NobodyAborts,
         StopInv, Replied, GoingOn, prog' = prog, SyncThread
  PROVE  spc' \notin {"err", "panic"}
<1>1. Sync
  BY DEF SyncThread
<1>2. spc' # "panic"
  BY DEF UniformNeverPanics, Uniform, NobodyAborts
<1>3. ASSUME NEW p \in Party, Gone(p)
      PROVE  pc[p] \in DOMAIN Code /\ Op(p) = "Stop" /\ replied[p] = pc[p] /\ pc[p] \in Nat \ {0}
  <2>1. ppc[p] = "ok"
    BY <1>3, CalmGone
  <2>2. QED
    BY <2>1, CodeFacts DEF StopInv, Replied, Op
<1>4. CASE SendFails
  <2>1. sidx \in Party /\ Gone(sidx) /\ Broadcasting /\ round \in Nat
    BY <1>4, LockstepAssumption DEF SendFails, IInv, TypeOK, Party
  <2>2. spc \in {"start", "next"}
    BY <2>1 DEF Broadcasting, Answers, VerdictInv
  <2>3. pc[sidx] <= Granted(sidx)
    <3>1. OutboundInv(sidx) /\ Nexts(sidx) \in {0, 1} /\ pc[sidx] \in Nat
      BY <2>1, Counts DEF IInv
    <3>2. QED
      BY <2>1, <3>1 DEF OutboundInv, Granted
  <2>4. CASE spc = "start"
    BY <1>3, <2>1, <2>3, <2>4 DEF Granted, IInv, RoundInv
  <2>5. CASE spc = "next"
    <3>1. sidx >= sidx
      BY <2>1, LockstepAssumption DEF Party
    <3>2. pc[sidx] \in 1 .. round - 1
      BY <1>3, <2>1, <2>3, <2>5, <3>1 DEF Granted
    <3>3. QED
      BY <1>3, <2>1, <2>5, <3>2 DEF GoingOn, Op
  <2>6. QED
    BY <2>2, <2>4, <2>5
<1>5. CASE CollectFails
  <2>1. sidx \in Party /\ Gone(sidx) /\ spc = "collect" /\ toSync[sidx] = <<>> /\ round \in Nat
    BY <1>5, LockstepAssumption DEF CollectFails, IInv, TypeOK, Party, SyncThread
  <2>2. replied[sidx] = round - 1
    <3>1. ~(sidx < sidx) /\ Len(<<>>) = 0
      BY <2>1, LockstepAssumption DEF Party
    <3>2. replied[sidx] = Received(sidx) + Len(toSync[sidx])
      BY <2>1 DEF IInv, InboundInv, SyncGone, Ended
    <3>3. QED
      BY <2>1, <3>1, <3>2 DEF Received
  <2>3. pc[sidx] \in 1 .. round - 1
    BY <1>3, <2>1, <2>2
  <2>4. QED
    BY <1>3, <2>1, <2>3 DEF GoingOn, Op
<1>6. CASE ~SendFails /\ ~CollectFails
  BY <1>1, <1>2, <1>6 DEF Sync, Send, BroadcastEnds, BroadcastNext, Collect, Decide, Calm,
     Broadcasting
<1>7. QED
  BY <1>4, <1>5, <1>6

\* A party that waits for the message of one that has ended finds it.
LEMMA EndedHasSent ==
  ASSUME Calm, IInv, HandInv, StopInv, ExchangeInv, NEW p \in Party, ppc[p] = "busy",
         NEW q \in Awaited(p) \cap Party, Gone(q)
  PROVE  Arrived(p, q)
<1> DEFINE k == pc[p]
<1>1. PICK u, r \in [Party -> Int] : Exchange(u, r)
  BY DEF ExchangeInv
<1>2. ppc[q] = "ok" /\ hpc[q] = "idle"
  BY CalmGone
<1>3. pc[q] <= k /\ k \in Nat /\ pc[q] \in Nat /\ Latest(p, q) = k
  BY BusyLeads
<1>4. pc[q] \in DOMAIN Code /\ Code[pc[q]].op = "Stop"
  BY <1>2 DEF StopInv
<1>5. pc[q] = k
  <2>1. pc[q] \notin 1 .. k - 1
    BY <1>4 DEF StopInv
  <2>2. QED
    BY <1>3, <1>4, <2>1, CodeFacts
<1>6. Op(p) = "Stop"
  BY <1>4, <1>5 DEF Op
<1>7. hpc[p] \in {"coms", "opens"} /\ q \in Peers(p)
  <2>1. hpc[p] \in {"elems", "coms", "opens", "input"}
    BY DEF Awaited
  <2>2. hpc[p] \notin {"elems", "input"}
    BY <1>6 DEF HandInv, Handshake, PhaseInv, Opening
  <2>3. QED
    BY <2>1, <2>2 DEF Awaited
<1>8. r[p] \in Int /\ r[p] >= 1
  <2>1. Position(p, u[p], r[p]) /\ hpc[p] \in CheckPhases
    BY <1>1, <1>7 DEF Exchange, CheckPhases
  <2>2. Len(todo[p]) \in Nat \ {0}
    BY <2>1, InCheck
  <2>3. r[p] = 2 * Len(todo[p]) \/ r[p] = 2 * Len(todo[p]) - 1
    BY <1>7, <2>1 DEF Position
  <2>4. QED
    BY <2>2, <2>3
<1>9. u[q] = 0
  BY <1>1, <1>2 DEF Exchange, Position
<1>10. Sends(q, k)
  BY <1>4, <1>5 DEF Sends
<1>11. Carries(peer[p][q], k, r[p], 0)
  <2>1. Channel(p, q, u[q], r[p])
    BY <1>1 DEF Exchange
  <2>2. Left(p, r[p], k) = r[p] /\ Left(q, u[q], k) = 0
    BY <1>3, <1>5, <1>9 DEF Left
  <2> HIDE DEF k
  <2>3. QED
    BY <1>3, <1>7, <1>10, <2>1, <2>2, ChannelNow
<1>12. Len(peer[p][q]) >= 1
  BY <1>8, <1>11 DEF Carries
<1>13. peer[p][q] # <<>>
  BY <1>12
<1>14. QED
  BY <1>13 DEF Arrived

LEMMA HandlerCalm ==
  ASSUME Suits, Timely, Self, Calm, IInv, HandInv, StopInv, ExchangeInv, RightMessage,
         SuccessIsUnanimous, NobodyAborts, NEW p \in Party
  PROVE  ~HandlerFails(p)
<1> SUFFICES ASSUME ppc[p] = "busy", NEW e \in Errors(p) PROVE FALSE
  BY DEF HandlerFails, BusyFails
<1>1. Handshake(p) /\ vpc[p] # "failed" /\ (VMGone(p) => vpc[p] = "done")
  BY DEF HandInv, Calm, VMGone
<1>2. Awaited(p) # {} => hpc[p] \in {"elems", "coms", "opens", "input"}
  BY DEF Awaited
<1>3. CASE e = "SendError"
  <2>1. ~(hpc[p] = "give" /\ VMGone(p))
    BY <1>1 DEF Handshake, PhaseInv
  <2>2. ~(Awaited(p) # {} /\ VMGone(p))
    BY <1>1, <1>2 DEF Handshake, PhaseInv, CheckPhases
  <2>3. ~SyncGone
    BY DEF SyncGone, Ended, Calm, SuccessIsUnanimous
  <2>4. QED
    BY <1>3, <2>1, <2>2, <2>3 DEF Errors
<1>4. CASE e = "RecvTimeoutError"
  <2>1. ~(hpc[p] = "action" /\ actChan[p] = <<>> /\ VMGone(p))
    BY <1>1 DEF Handshake, VMInv
  <2>2. \A q \in Awaited(p) \cap Party : ~Late(p, q)
    BY EndedHasSent DEF Late
  <2>3. QED
    BY <1>4, <2>1, <2>2 DEF Errors
<1>5. CASE e = "Panic"
  <2>1. Awaited(p) \subseteq Party
    <3>1. CASE hpc[p] = "input"
      <4>1. Op(p) = "Input" /\ pc[p] \in DOMAIN Code
        BY <1>1, <3>1 DEF Handshake, PhaseInv
      <4>2. pc[p] \in Reached
        BY <4>1, ReachedNow
      <4>3. Code[pc[p]].id \in Party
        BY <4>1, <4>2, SuitsFacts DEF Op
      <4>4. QED
        BY <3>1, <4>3 DEF Awaited, Indexed
    <3>2. CASE hpc[p] # "input"
      BY <3>2 DEF Awaited, Peers
    <3>3. QED
      BY <3>1, <3>2
  <2>2. \A q \in Awaited(p) : ~(Arrived(p, q) /\ ~Unwraps(p, q))
    BY <2>1 DEF RightMessage
  <2>3. QED
    BY <1>5, <2>1, <2>2 DEF Errors
<1>6. QED
  BY <1>3, <1>4, <1>5 DEF Errors

\* A party that cannot forward has no room for it.
LEMMA ForwardFloods ==
  ASSUME Calm, MpcTypes, HandInv, NEW p \in Party, ForwardFails(p)
  PROVE  Flooded(p)'
<1>1. Between(p) /\ ~Room(p, Prep[fwd[p] + 1].kind)
  BY DEF ForwardFails, TakePrep
<1>2. ~VMGone(p)
  BY <1>1 DEF Between, HandInv, Handshake, PhaseInv, VMInv, Calm, VMGone
<1>3. /\ Len(randChan[p]) <= ForwardingCap /\ Len(tripleChan[p]) <= ForwardingCap
      /\ Len(randChan[p]) \in Nat /\ Len(tripleChan[p]) \in Nat /\ ForwardingCap \in Nat
  BY MpcAssumption DEF MpcTypes
<1>4. ForwardingCap \in {Len(randChan[p]), Len(tripleChan[p])}
  BY <1>1, <1>2, <1>3 DEF Room
<1>5. cause'[p] = "TrySendError" /\ UNCHANGED <<randChan, tripleChan>>
  BY DEF ForwardFails, Fails, HandInv, Domains
<1>6. QED
  BY <1>4, <1>5 DEF Flooded

LEMMA PartyCalm ==
  ASSUME Suits, Timely, Self, ~PrepCloses, Calm, TypeOK, IInv, MpcTypes, HandInv, StopInv,
         ExchangeInv, RightMessage, SuccessIsUnanimous, UniformNeverPanics', Uniform,
         NobodyAborts, prog' = prog, NEW p \in Party, PartyThread(p) \/ PrepEnds(p)
  PROVE  ppc'[p] \notin {"err", "panic"} \/ Flooded(p)'
<1> USE DEF prepVars, handVars, histVars, vars, partyVars, vmVars, linkVars, mpcVars
<1>1. CASE ForwardFails(p)
  BY <1>1, ForwardFloods
<1>2. ~HandlerFails(p) /\ ~PrepEnds(p)
  BY HandlerCalm DEF PrepEnds
<1>3. ~SyncLost(p)
  BY DEF SyncLost, SyncGone, Ended, Calm, SuccessIsUnanimous
<1>4. ppc'[p] # "panic"
  BY DEF UniformNeverPanics, Uniform, NobodyAborts
<1>5. CASE ~ForwardFails(p)
  BY <1>2, <1>3, <1>4, <1>5 DEF PartyThread, Listen, AwaitStart, Fetch, Join, Forward,
     GiveInstruction, OnNext, Reply, OnOpen, OnInput, OnCheck, EndElems, EndInputElem, Commit,
     EndComs, Reveal, EndOpens, Calm, TypeOK
<1>6. QED
  BY <1>1, <1>5

\* Asking the party for something does not fail while it is there.
LEMMA AskCalm ==
  ASSUME NEW p \in Party, Domains, ~Gone(p), NEW action, NEW at, Ask(p, action, at), at # "failed"
  PROVE  vpc'[p] # "failed"
  BY DEF Ask, Domains

\* The registers that an instruction reads have been written.
LEMMA Readable ==
  ASSUME Suits, StopInv, Domains, NEW p \in Party, Handshake(p), RegInv(p), NEW ops,
         Take(p, ops), UNCHANGED <<pc[p], hpc[p]>>, "Stop" \notin ops
  PROVE  /\ \A r \in Code[pc[p]].src : secret[p][r] # {}
         /\ pc[p] \in Reached /\ Op(p) \in ops /\ Head(instChan[p]) = Code[pc[p]]
<1>1. /\ Steps(p) = pc[p] - 1 /\ vpc[p] = "idle" /\ pc[p] \in DOMAIN Code /\ Op(p) \in ops
      /\ Head(instChan[p]) = Code[pc[p]]
  BY TakeMoves
<1>2. pc[p] \in Reached
  BY <1>1, ReachedNow
<1>3. Code[pc[p]].src \subseteq Written(pc[p] - 1)
  BY <1>2, SuitsFacts
<1>4. QED
  BY <1>1, <1>2, <1>3 DEF RegInv

LEMMA LocalCalm ==
  ASSUME Suits, ClearSuits, StopInv, Domains, AllClear, NEW p \in Party, Handshake(p), RegInv(p),
         ~Gone(p), DoLocal(p)
  PROVE  vpc'[p] # "failed"
<1> USE DEF prepVars, handVars, histVars, vars, partyVars
<1>1. Take(p, {"Local", "COutput"}) /\ UNCHANGED <<pc[p], hpc[p]>>
  BY DEF DoLocal
<1>2. /\ \A r \in Head(instChan[p]).src : secret[p][r] # {}
      /\ Op(p) \in {"Local", "COutput"} /\ Head(instChan[p]) = Code[pc[p]]
  BY <1>1, Readable
<1>3. ~Empty(p, Head(instChan[p]))
  BY <1>1, <1>2, ClearReadable DEF Empty
<1>4. Done(p)
  BY <1>3 DEF DoLocal
<1>5. QED
  BY <1>4, AskCalm DEF Done

LEMMA OpenCalm ==
  ASSUME Suits, StopInv, Domains, NEW p \in Party, Handshake(p), RegInv(p), ~Gone(p), DoOpen(p)
  PROVE  vpc'[p] # "failed"
<1> USE DEF prepVars, handVars, histVars, vars, partyVars
<1>1. Take(p, {"Open", "SOutput"}) /\ UNCHANGED <<pc[p], hpc[p]>>
  BY DEF DoOpen
<1>2. /\ \A r \in Code[pc[p]].src : secret[p][r] # {}
      /\ pc[p] \in Reached /\ Op(p) \in Opening
  BY <1>1, Readable DEF Opening
<1>3. Code[pc[p]].src # {}
  BY <1>2, SuitsFacts DEF Op
<1>4. Operand(p) # {}
  <2>1. PICK r \in Code[pc[p]].src : TRUE
    BY <1>3
  <2>2. QED
    BY <1>2, <2>1 DEF Operand
<1>5. Ask(p, [act |-> "Open", share |-> Operand(p)], "open")
  BY <1>4 DEF DoOpen
<1>6. QED
  BY <1>5, AskCalm

\* A triple that is missing has not been forwarded.
LEMMA TripleStarves ==
  ASSUME Suits, StopInv, MpcTypes, Domains, NEW p \in Party, Handshake(p), SupplyInv(p),
         FreshInv(p), ~Gone(p), DoTriple(p), vpc'[p] = "failed"
  PROVE  Starved(p)'
<1> USE DEF prepVars, handVars, histVars, vars, partyVars
<1> DEFINE k == pc[p]
<1>1. Take(p, {"Triple"}) /\ UNCHANGED <<pc[p], hpc[p], fwd[p]>>
  BY DEF DoTriple
<1>2. /\ TakenUp(p) = k - 1 /\ vpc[p] = "idle" /\ k \in DOMAIN Code /\ Op(p) = "Triple"
  BY <1>1, TakeMoves
<1>3. tripleChan[p] = <<>>
  <2>1. tripleChan[p] # <<>> => Done(p)
    BY DEF DoTriple
  <2>2. QED
    BY <2>1, AskCalm DEF Done
<1>4. vmErr'[p] = "RecvTimeoutError" /\ used' = used
  BY <1>3 DEF DoTriple, VMFails, Domains
<1>5. used[p][k] = {}
  <2>1. RightUse(used[p], k - 1) /\ k \in Nat /\ ~(k <= k - 1)
    BY <1>2, CodeFacts DEF SupplyInv
  <2>2. QED
    BY <1>2, <2>1 DEF RightUse
<1>6. fwd[p] < Len(Prep)
  <2>1. k \in Reached
    BY <1>2, ReachedNow
  <2>2. Count(TripleInsts, k) <= Count(TripleMsgs, Len(Prep))
    BY <1>2, <2>1, SuitsFacts DEF Op
  <2>3. Count(TripleMsgs, fwd[p]) = Count(TripleInsts, k - 1) + 0
    BY <1>2, <1>3 DEF SupplyInv
  <2>4. /\ Count(TripleInsts, k) = Count(TripleInsts, k - 1) + 1
        /\ Count(TripleInsts, k - 1) \in Nat
    BY <1>2, TriplesSoFar DEF Op
  <2>5. fwd[p] \in 0 .. Len(Prep) /\ Len(Prep) \in Nat
    BY PrepFacts DEF MpcTypes
  <2>6. fwd[p] # Len(Prep)
    BY <2>2, <2>3, <2>4
  <2>7. QED
    BY <2>5, <2>6
<1>7. QED
  BY <1>1, <1>2, <1>4, <1>5, <1>6 DEF Starved, Op

\* A mask that is missing has not been forwarded.
LEMMA InputStarves ==
  ASSUME Suits, ClearSuits, StopInv, MpcTypes, Domains, AllClear, NEW p \in Party, Handshake(p),
         SupplyInv(p), ~Gone(p), DoInput(p), vpc'[p] = "failed"
  PROVE  Starved(p)'
<1> USE DEF prepVars, handVars, histVars, vars, partyVars
<1> DEFINE k == pc[p]
           d == Drained(p)
<1>1. Take(p, {"Input"}) /\ UNCHANGED <<pc[p], hpc[p], fwd[p]>>
  BY DEF DoInput
<1>2. /\ TakenUp(p) = k - 1 /\ k \in DOMAIN Code /\ Op(p) = "Input" /\ k \in Nat
      /\ Head(instChan[p]) = Code[k]
  BY <1>1, TakeMoves, CodeFacts
<1> HIDE DEF k, d
<1>3. /\ {i \in DOMAIN d : d[i].id = Head(instChan[p]).id} = {}
      /\ vmErr'[p] = "EmptyError"
  <2>1. ASSUME NEW i \in DOMAIN d, d[i].id = p, Head(instChan[p]).id = p
        PROVE  CanMask(p, d[i])
    <3>1. Code[k].csrc \subseteq clear[p]
      BY <1>1, <1>2, <2>1, ClearReadable DEF k
    <3>2. d[i] \in Sharing /\ d[i] \in Elems(d)
      <4>1. d \in Seq(Sharing)
        BY ConcatProperties DEF MpcTypes, Drained, d
      <4>2. QED
        BY <2>1, <4>1 DEF Elems
    <3>3. d[i].kind = "Rand"
      BY <3>2 DEF SupplyInv, d
    <3>4. PICK m \in DOMAIN Prep : d[i] = Prep[m]
      BY <3>2 DEF Sharing
    <3>5. m \in MaskMsgs(p)
      BY <2>1, <3>3, <3>4 DEF MaskMsgs
    <3>6. k \in Reached
      BY <1>2, ReachedNow DEF k
    <3>7. PICK g \in Given : TRUE
      BY DEF AllClear
    <3>8. p \in Prep[m].clear
      BY <1>2, <2>1, <3>5, <3>6, <3>7 DEF ClearSuits, Op, k
    <3>9. QED
      BY <1>2, <3>1, <3>4, <3>8 DEF CanMask
  <2>2. QED
    BY <2>1 DEF DoInput, MasksFor, VMFails, Ask, Domains, d
<1>4. \A m \in Elems(d) : m.id # Code[k].id
  BY <1>2, <1>3 DEF Elems
<1>5. k \in Reached
  BY <1>2, ReachedNow DEF k
<1>6. PICK m \in DOMAIN Prep : MaskMsgs(Code[k].id) = {m}
  BY <1>2, <1>5, SuitsFacts DEF Op, k
<1>7. Prep[m].kind = "Rand" /\ Prep[m].id = Code[k].id
  BY <1>6 DEF MaskMsgs
<1>8. fwd[p] # Len(Prep)
  <2>1. NotLost(d, fwd[p], k - 1)
    BY <1>2 DEF SupplyInv, d
  <2>2. SUFFICES ASSUME m \in 1 .. fwd[p] PROVE FALSE
    BY <1>6, PrepFacts
  <2>3. PICK i \in 1 .. k - 1 : Code[i].op = "Input" /\ Code[i].id = Code[k].id
    BY <1>4, <1>7, <2>1, <2>2 DEF NotLost
  <2>4. i \in Reached
    <3>1. i \in DOMAIN Code /\ \A j \in 1 .. i : j \in 1 .. k
      BY <1>2, CodeFacts
    <3>2. QED
      BY <1>5, <3>1 DEF Reached
  <2>5. i = k
    BY <1>2, <1>5, <2>3, <2>4, SuitsFacts DEF Op, k
  <2>6. QED
    BY <1>2, <2>5
<1>9. fwd[p] \in 0 .. Len(Prep) /\ Len(Prep) \in Nat
  BY PrepFacts DEF MpcTypes
<1>10. QED
  BY <1>1, <1>3, <1>8, <1>9 DEF Starved

LEMMA VMCalm ==
  ASSUME Suits, ClearSuits, Timely, Calm, MpcTypes, HandInv, StopInv, AllFresh, AllSupply,
         AllRegs, AllClear, SharesLinked, NEW p \in Party, VMStep(p)
  PROVE  vpc'[p] # "failed" \/ Starved(p)'
<1>0. /\ Domains /\ Handshake(p) /\ FreshInv(p) /\ SupplyInv(p) /\ RegInv(p)
      /\ vpc[p] # "failed"
  BY DEF HandInv, AllFresh, AllSupply, AllRegs, Calm
<1>1. ~Gone(p)
  <2>1. vpc[p] # "done"
    BY DEF VMStep, DoLocal, DoTriple, DoInput, DoOpen, DoStop, EndInput, EndOpen, EndCheck,
       VMTimeout, Take
  <2>2. QED
    BY <2>1, CalmGone
<1>2. CASE DoLocal(p) \/ DoOpen(p)
  BY <1>0, <1>1, <1>2, LocalCalm, OpenCalm
<1>3. CASE DoTriple(p) \/ DoInput(p)
  BY <1>0, <1>1, <1>3, TripleStarves, InputStarves
<1>4. CASE DoStop(p) \/ EndInput(p) \/ EndOpen(p)
  BY <1>0, <1>1, <1>4, AskCalm DEF DoStop, EndInput, EndOpen, Done
<1>5. CASE EndCheck(p)
  <2>1. Head(resp[p]) = "Ok"
    <3>1. PICK s : Consistent(s) /\ Linked(s)
      BY DEF SharesLinked
    <3>2. vpc[p] = "check" /\ resp[p] # <<>>
      BY <1>5 DEF EndCheck
    <3>3. pc[p] \in DOMAIN Code /\ Head(resp[p]) \in MACCheckError \cup {"Ok"}
      BY <1>0, <3>2, Answered
    <3>4. ~Broken(s, pc[p])
      BY <3>1, <3>3, LinkedAgrees
    <3>5. CheckInv(s, p)
      BY <3>1 DEF Consistent
    <3>6. QED
      BY <3>2, <3>3, <3>4, <3>5 DEF CheckInv, MACCheckError
  <2>2. Done(p) \/ Ask(p, [act |-> "Next"], "done")
    BY <1>5, <2>1 DEF EndCheck
  <2>3. QED
    BY <1>0, <1>1, <2>2, AskCalm DEF Done
<1>6. CASE VMTimeout(p)
  BY <1>1, <1>6 DEF VMTimeout
<1>7. QED
  BY <1>2, <1>3, <1>4, <1>5, <1>6 DEF VMStep

\* A party that has ended takes no step, and one whose virtual machine has
\* failed none but to end.
LEMMA GoneIsStill ==
  ASSUME NEW p \in Party, Gone(p) PROVE ~PartyThread(p) /\ ~PrepEnds(p)
  BY DEF Gone, Ended, PartyThread, Listen, AwaitStart, Fetch, SyncLost, Join, Forward,
     ForwardFails, TakePrep, Between, GiveInstruction, At, OnNext, OnOpen, OnInput, OnCheck,
     TakeAction, EndElems, EndInputElem, Commit, EndComs, Reveal, EndOpens, HandlerFails,
     BusyFails, PrepEnds, PrepFails

LEMMA StarvedStays ==
  ASSUME TypeOK, HandInv, AllDead, [MpcNext]_allVars, NEW p \in Party, Starved(p)
  PROVE  Starved(p)'
<1> USE DEF prepVars, handVars, histVars, vars, partyVars, vmVars, linkVars, mpcVars
<1>1. DeadInv(p) /\ vpc[p] = "failed" /\ Domains
  BY DEF AllDead, DeadInv, Starved, HandInv
<1>2. CASE UNCHANGED Local(p)
  BY <1>2 DEF Local, Starved
<1>3. ~VMStep(p)
  BY <1>1 DEF VMStep, DoLocal, DoTriple, DoInput, DoOpen, DoStop, EndInput, EndOpen, EndCheck,
     VMTimeout, Take
<1>4. CASE PartyThread(p) \/ PrepEnds(p)
  <2>1. ppc[p] = "busy" /\ hpc[p] = "action" /\ actChan[p] = <<>>
    BY <1>1, <1>4, GoneIsStill DEF DeadInv
  <2>2. HandlerFails(p)
    BY <1>4, <2>1 DEF PartyThread, Listen, AwaitStart, Fetch, SyncLost, Join, Forward,
       ForwardFails, TakePrep, Between, GiveInstruction, At, OnNext, OnOpen, OnInput, OnCheck,
       TakeAction, EndElems, EndInputElem, Commit, EndComs, Reveal, EndOpens, PrepEnds, PrepFails
  <2>3. UNCHANGED <<vmErr, fwd, pc, used>>
    BY <2>2 DEF HandlerFails, BusyFails, Fails
  <2>4. QED
    BY <2>3 DEF Starved
<1>5. QED
  BY <1>1, <1>2, <1>3, <1>4, StepOf

LEMMA FloodedStays ==
  ASSUME TypeOK, HandInv, AllDead, [MpcNext]_allVars, NEW p \in Party, Flooded(p)
  PROVE  Flooded(p)'
<1> USE DEF prepVars, handVars, histVars, vars, partyVars, vmVars, linkVars, mpcVars
<1>1. ppc[p] = "err" /\ hpc[p] = "idle" /\ Domains /\ Handshake(p)
  BY DEF AllDead, DeadInv, Flooded, HandInv
<1>2. CASE UNCHANGED Local(p)
  BY <1>2 DEF Local, Flooded
<1>3. CASE VMStep(p)
  <2>1. \A ops : ~Take(p, ops)
    BY <1>1, Taken
  <2>2. UNCHANGED <<cause, randChan, tripleChan>>
    BY <1>3, <2>1 DEF VMStep, DoLocal, DoTriple, DoInput, DoOpen, DoStop, EndInput, EndOpen,
       EndCheck, VMTimeout
  <2>3. QED
    BY <2>2 DEF Flooded
<1>4. ~PartyThread(p) /\ ~PrepEnds(p)
  BY <1>1, GoneIsStill DEF Gone, Ended
<1>5. QED
  BY <1>1, <1>2, <1>3, <1>4, StepOf

-----------------------------------------------------------------------------
(* So only preprocessing that does not keep up makes a computation fail.   *)

FailInv == Trouble \/ (Calm /\ SharesLinked)

LEMMA NextFail ==
  ASSUME Suits, ClearSuits, Timely, Self, ~PrepCloses, TypeOK, IInv, AInv, UniformNeverPanics',
         SuccessIsUnanimous, HandInv, MpcTypes, AllCount, AllOrder, ExchangeInv, RightMessage,
         StopInv, Replied, GoingOn, AllFresh, AllSupply, AllRegs, AllClear, AllDead, FailInv,
         [MpcNext]_allVars
  PROVE  FailInv'
<1>1. CASE Trouble
  BY <1>1, StarvedStays, FloodedStays DEF FailInv, Trouble
<1>2. CASE Calm /\ SharesLinked
  <2>1. Domains /\ prog \in Programs /\ PeerDomains
    BY DEF HandInv, ExchangeInv
  <2>2. Uniform /\ NobodyAborts /\ Answers
    BY <2>1, SuitsLockstep DEF AInv
  <2>3. prog' = prog
    BY <2>1, StepOf
  <2>4. SharesLinked'
    BY <1>2, <2>1, NextLinked
  <2>5. CASE SyncThread
    <3>1. spc' \notin {"err", "panic"}
      BY <1>2, <2>2, <2>3, <2>5, SyncCalm
    <3>2. UNCHANGED <<ppc, vpc>>
      BY <2>5 DEF SyncThread, mpcVars, vmVars, Sync, Send, SendFails, BroadcastEnds, Collect,
         CollectFails, Decide, partyVars
    <3>3. Calm'
      BY <1>2, <3>1, <3>2 DEF Calm
    <3>4. QED
      BY <2>4, <3>3 DEF FailInv
  <2>6. ASSUME NEW p \in Party, PartyThread(p) \/ PrepEnds(p),
               \A q \in Party \ {p} : UNCHANGED Local(q)
        PROVE  FailInv'
    <3>1. ppc'[p] \notin {"err", "panic"} \/ Flooded(p)'
      BY <1>2, <2>2, <2>3, <2>6, PartyCalm
    <3>2. spc' = spc
      <4>1. PartyStep(p) \/ PrepFails(p) \/ UNCHANGED vars
        BY <2>6, PartyThreadSteps DEF PrepEnds
      <4>2. QED
        BY <4>1 DEF PartyStep, PrepFails, AwaitStart, Fetch, SyncLost, Reply, ReplyAbort,
           BusyFails, Join, vars, syncVars
    <3>3. vpc' = vpc
      BY <2>6, PartyKeeps
    <3>4. \A q \in Party \ {p} : ppc'[q] = ppc[q]
      BY <2>6 DEF Local
    <3>5. Calm' \/ Trouble'
      BY <1>2, <3>1, <3>2, <3>3, <3>4 DEF Calm, Trouble
    <3>6. QED
      BY <2>4, <3>5 DEF FailInv
  <2>7. ASSUME NEW p \in Party, VMStep(p), \A q \in Party \ {p} : UNCHANGED Local(q)
        PROVE  FailInv'
    <3>1. vpc'[p] # "failed" \/ Starved(p)'
      BY <1>2, <2>7, VMCalm
    <3>2. spc' = spc /\ ppc' = ppc
      BY <2>7, VMStepStutters DEF vars, syncVars, partyVars
    <3>3. \A q \in Party \ {p} : vpc'[q] = vpc[q]
      BY <2>7 DEF Local
    <3>4. Calm' \/ Trouble'
      BY <1>2, <3>1, <3>2, <3>3 DEF Calm, Trouble
    <3>5. QED
      BY <2>4, <3>4 DEF FailInv
  <2>8. CASE UNCHANGED allVars
    <3>1. Calm'
      BY <1>2, <2>8 DEF Calm, allVars, vars, syncVars, partyVars, mpcVars, vmVars
    <3>2. QED
      BY <2>4, <3>1 DEF FailInv
  <2>9. QED
    BY <2>1, <2>5, <2>6, <2>7, <2>8, StepOf
<1>3. QED
  BY <1>1, <1>2 DEF FailInv

\* Whatever the interleaving, every party uses for an instruction the sharing
\* meant for it, so all use the same one (SameSharing), when program and
\* preprocessing suit each other (VM::do_input, VM::do_triple).
THEOREM SharingsAreTheSame == ASSUME Suits PROVE MpcSpec => []SameSharing
<1>1. MpcSpec => []TypeOK
  BY MpcImplementsLockstep, TypeCorrect, PTL
<1>2. MpcSpec => []StopInv
  BY <1>1, InitStop, NextStop, HandshakeHolds, MpcImplementsLockstep, PTL DEF Spec
<1>3. MpcSpec => [](MpcTypes /\ AllFresh)
  BY <1>1, InitTypes, NextTypes, InitFresh, NextFresh, HandshakeHolds, PTL DEF MpcSpec
<1>4. /\ TypeOK /\ HandInv /\ MpcTypes /\ AllFresh /\ StopInv /\ AllSupply /\ [MpcNext]_allVars
      => AllSupply'
  BY NextSupply
<1>5. AllSupply => SameSharing
  BY SupplyRight DEF UsesRight, SameSharing
<1>6. QED
  BY <1>1, <1>2, <1>3, <1>4, <1>5, InitSupply, HandshakeHolds, PTL DEF MpcSpec

\* While timeouts are timely and the preprocessing channels stay open, the only
\* thing that makes a computation fail, in any of its threads, is preprocessing
\* that is not forwarded in time or that fills a forwarding channel
\* (FailsOnlyForPrep; the NOTE in Party::listen): no check fails, no message is
\* missing, no register is empty (opt_to_res) and nobody finds anybody gone, for
\* any number of parties, any capacities, and any program, preprocessing and
\* registers given that suit each other.
THEOREM FailsOnlyForPrepHolds ==
  ASSUME Suits, ClearSuits, Timely, Self, ~PrepCloses PROVE MpcSpec => []FailsOnlyForPrep
<1>1. MpcSpec => [](TypeOK /\ IInv /\ AInv)
  BY MpcImplementsLockstep, TypeCorrect, Inductive, AnswersInvariant, PTL
<1>2. MpcSpec => []StopInv
  BY <1>1, InitStop, NextStop, HandshakeHolds, MpcImplementsLockstep, PTL DEF Spec
<1>3. MpcSpec => []Replied
  <2>1. Init => Replied
    BY DEF Init, Replied
  <2>2. QED
    BY <1>1, <2>1, NextReplied, MpcImplementsLockstep, PTL DEF Spec
<1>4. MpcSpec => []GoingOn
  <2>1. Init => GoingOn
    BY DEF Init, GoingOn
  <2>2. TypeOK /\ IInv /\ AInv /\ HandInv /\ GoingOn /\ [Next]_vars => GoingOn'
    BY NextGoingOn, SuitsLockstep DEF AInv, HandInv
  <2>3. QED
    BY <1>1, <2>1, <2>2, HandshakeHolds, MpcImplementsLockstep, PTL DEF Spec
<1>5. MpcSpec => [](MpcTypes /\ AllFresh)
  BY <1>1, InitTypes, NextTypes, InitFresh, NextFresh, HandshakeHolds, PTL DEF MpcSpec
<1>6. MpcSpec => []AllSupply
  <2>1. /\ TypeOK /\ HandInv /\ MpcTypes /\ AllFresh /\ StopInv /\ AllSupply
        /\ [MpcNext]_allVars
        => AllSupply'
    BY NextSupply
  <2>2. QED
    BY <1>1, <1>2, <1>5, <2>1, InitSupply, HandshakeHolds, PTL DEF MpcSpec
<1>7. MpcSpec => []AllRegs
  <2>1. /\ TypeOK /\ HandInv /\ StopInv /\ AllFresh /\ AllSupply /\ AllSupply' /\ AllRegs
        /\ [MpcNext]_allVars
        => AllRegs'
    BY NextRegs
  <2>2. QED
    BY <1>1, <1>2, <1>5, <1>6, <2>1, InitRegs, HandshakeHolds, PTL DEF MpcSpec
<1>8. MpcSpec => []AllDead
  <2>1. TypeOK /\ HandInv /\ AllDead /\ [MpcNext]_allVars => AllDead'
    BY NextDead
  <2>2. QED
    BY <1>1, <2>1, InitDead, HandshakeHolds, PTL DEF MpcSpec
<1>9. MpcSpec => [](AllCount /\ AllOrder)
  <2>1. TypeOK /\ HandInv /\ AllCount /\ [MpcNext]_allVars => AllCount'
    BY NextCount
  <2>2. TypeOK /\ HandInv /\ AllCount /\ AllOrder /\ [MpcNext]_allVars => AllOrder'
    BY NextOrder
  <2>3. QED
    BY <1>1, <2>1, <2>2, InitCount, InitOrder, HandshakeHolds, PTL DEF MpcSpec
<1>10. MpcInit => FailInv
  <2>1. MpcInit => Calm
    BY DEF MpcInit, Init, Calm
  <2>2. QED
    BY <2>1, InitLinked DEF FailInv
<1>11. /\ TypeOK /\ IInv /\ AInv /\ UniformNeverPanics' /\ SuccessIsUnanimous /\ HandInv
       /\ MpcTypes /\ AllCount /\ AllOrder /\ ExchangeInv /\ RightMessage /\ StopInv
       /\ Replied /\ GoingOn /\ AllFresh /\ AllSupply /\ AllRegs /\ AllClear /\ AllDead
       /\ FailInv /\ [MpcNext]_allVars
       => FailInv'
  BY NextFail
<1>12. FailInv => FailsOnlyForPrep
  BY DEF FailInv, Calm, Trouble, FailsOnlyForPrep, Gone, SyncGone, Ended
<1>13. MpcSpec => []AllClear
  <2>1. TypeOK /\ HandInv /\ AllClear /\ [MpcNext]_allVars => AllClear'
    BY NextClear
  <2>2. QED
    BY <1>1, <2>1, InitClear, HandshakeHolds, PTL DEF MpcSpec
<1>14. QED
  BY <1>1, <1>2, <1>3, <1>4, <1>5, <1>6, <1>7, <1>8, <1>9, <1>10, <1>11, <1>12, <1>13,
     MpcNoPanics, MpcSuccess, HandshakeHolds, ExchangeHolds, MessagesAreRight, PTL DEF MpcSpec

=============================================================================
