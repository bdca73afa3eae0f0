--------------------------- MODULE LockstepProofs ---------------------------
(***************************************************************************)
(* For any number of parties, any capacity and any programs: IInv is an    *)
(* inductive invariant of Lockstep, and what follows from it.              *)
(***************************************************************************)
EXTENDS Lockstep, SequenceTheorems, TLAPS

\* The type invariant is inductive on its own.
LEMMA InitTypeOK == Init => TypeOK
  BY LockstepAssumption DEF Init, TypeOK, Ended

LEMMA NextTypeOK == TypeOK /\ [Next]_vars => TypeOK'
<1> SUFFICES ASSUME TypeOK, [Next]_vars PROVE TypeOK'
  OBVIOUS
<1> USE DEF TypeOK, Ended, syncVars, chanVars, partyVars
<1>1. CASE Send
  <2>1. sidx \in Party /\ sidx + 1 \in 0 .. N
    BY <1>1, LockstepAssumption DEF Send, Party
  <2>2. Announced \in SyncMsg
    BY <1>1 DEF Announced, SyncMsg
  <2>3. Append(toParty[sidx], Announced) \in Seq(SyncMsg)
    BY <2>1, <2>2
  <2>4. QED
    BY <1>1, <2>1, <2>3 DEF Send
<1>2. CASE SendFails
  BY <1>2 DEF SendFails
<1>3. CASE BroadcastEnds
  BY <1>3 DEF BroadcastEnds, BroadcastNext, Broadcasting, LoopEnds
<1>4. CASE Collect
  <2>1. sidx \in Party /\ sidx + 1 \in 0 .. N
    BY <1>4, LockstepAssumption DEF Collect, Party
  <2>2. Head(toSync[sidx]) \in SyncReplyMsg /\ Tail(toSync[sidx]) \in Seq(SyncReplyMsg)
    BY <1>4, <2>1 DEF Collect
  <2>3. Append(replies, Head(toSync[sidx])) \in Seq(SyncReplyMsg)
    BY <2>2
  <2>4. QED
    BY <1>4, <2>1, <2>2, <2>3 DEF Collect
<1>5. CASE CollectFails
  BY <1>5 DEF CollectFails
<1>6. CASE Decide
  BY <1>6 DEF Decide, BroadcastNext, LoopEnds
<1>7. ASSUME NEW p \in Party, AwaitStart(p) PROVE TypeOK'
  BY <1>7 DEF AwaitStart, TakeMsg
<1>8. ASSUME NEW p \in Party, Fetch(p) PROVE TypeOK'
  BY <1>8 DEF Fetch, TakeMsg, Fetches
<1>9. ASSUME NEW p \in Party, SyncLost(p) PROVE TypeOK'
  BY <1>9 DEF SyncLost
<1>10. ASSUME NEW p \in Party, Reply(p) PROVE TypeOK'
  BY <1>10 DEF Reply, SyncReplyMsg
<1>11. ASSUME NEW p \in Party, ReplyAbort(p) PROVE TypeOK'
  BY <1>11 DEF ReplyAbort, SyncReplyMsg
<1>12. ASSUME NEW p \in Party, BusyFails(p) \/ PrepFails(p) \/ Join(p) PROVE TypeOK'
  BY <1>12 DEF BusyFails, PrepFails, Join
<1>13. CASE UNCHANGED vars
  BY <1>13 DEF vars
<1>14. QED
  BY <1>1, <1>2, <1>3, <1>4, <1>5, <1>6, <1>7, <1>8, <1>9, <1>10, <1>11, <1>12,
     <1>13 DEF Next, Sync, PartyStep, Terminated
-----------------------------------------------------------------------------
(* The sequences InFlight names, and what taking from them leaves.         *)

LEMMA InFlightTail ==
  ASSUME NEW s \in InFlight, s # <<>>
  PROVE  \/ s = <<"Start">> /\ Head(s) = "Start" /\ Tail(s) = <<>>
         \/ s = <<"Next">> /\ Head(s) = "Next" /\ Tail(s) = <<>>
         \/ s = <<"Start", "Next">> /\ Head(s) = "Start" /\ Tail(s) = <<"Next">>
         \/ s = <<"Abort">> /\ Head(s) = "Abort" /\ Tail(s) = <<>>
<1>1. CASE s = <<"Start">>
  BY <1>1
<1>2. CASE s = <<"Next">>
  BY <1>2
<1>3. CASE s = <<"Start", "Next">>
  <2>1. Head(s) = "Start" /\ Tail(s) = <<"Next">>
    BY <1>3
  <2>2. QED
    BY <1>3, <2>1
<1>4. CASE s = <<"Abort">>
  BY <1>4
<1>5. QED
  BY <1>1, <1>2, <1>3, <1>4 DEF InFlight

LEMMA AppendToEmpty ==
  ASSUME NEW m PROVE Append(<<>>, m) = <<m>>
<1>1. Len(Append(<<>>, m)) = 1
  OBVIOUS
<1>2. Append(<<>>, m)[1] = m
  OBVIOUS
<1>3. Append(<<>>, m) \in Seq({m})
  OBVIOUS
<1>4. <<m>> \in Seq({m}) /\ Len(<<m>>) = 1 /\ <<m>>[1] = m
  OBVIOUS
<1>5. QED
  BY <1>1, <1>2, <1>3, <1>4

LEMMA InFlightAppend ==
  /\ Append(<<>>, "Start") = <<"Start">>
  /\ Append(<<>>, "Next") = <<"Next">>
  /\ Append(<<>>, "Abort") = <<"Abort">>
  /\ Append(<<"Start">>, "Next") = <<"Start", "Next">>
<1> DEFINE a == Append(<<"Start">>, "Next")
<1>1. Append(<<>>, "Start") = <<"Start">>
  BY AppendToEmpty
<1>2. Append(<<>>, "Next") = <<"Next">>
  BY AppendToEmpty
<1>3. Append(<<>>, "Abort") = <<"Abort">>
  BY AppendToEmpty
<1>4. Len(a) = 2 /\ a[1] = "Start" /\ a[2] = "Next"
  OBVIOUS
<1>5. a = <<"Start", "Next">>
  <2>1. a \in Seq(SyncMsg) /\ <<"Start", "Next">> \in Seq(SyncMsg)
    BY DEF SyncMsg
  <2>2. Len(<<"Start", "Next">>) = 2
    OBVIOUS
  <2>3. <<"Start", "Next">>[1] = "Start" /\ <<"Start", "Next">>[2] = "Next"
    OBVIOUS
  <2>4. \A i \in 1 .. Len(a) : a[i] = <<"Start", "Next">>[i]
    BY <1>4, <2>3
  <2>5. QED
    BY <1>4, <2>1, <2>2, <2>4, SeqEqual
<1>6. QED
  BY <1>1, <1>2, <1>3, <1>5

LEMMA InFlightDistinct ==
  /\ <<"Start">> # <<>> /\ <<"Next">> # <<>> /\ <<"Abort">> # <<>>
  /\ <<"Start", "Next">> # <<>> /\ <<"Start", "Next">> # <<"Start">>
  /\ <<"Start", "Next">> # <<"Next">> /\ <<"Start", "Next">> # <<"Abort">>
  /\ <<"Start">> # <<"Next">> /\ <<"Start">> # <<"Abort">> /\ <<"Next">> # <<"Abort">>
<1>1. <<"Start">> # <<>> /\ <<"Next">> # <<>> /\ <<"Abort">> # <<>>
  OBVIOUS
<1>2. <<"Start", "Next">> # <<>> /\ <<"Start", "Next">> # <<"Start">>
  OBVIOUS
<1>3. <<"Start", "Next">> # <<"Next">> /\ <<"Start", "Next">> # <<"Abort">>
  OBVIOUS
<1>4. <<"Start">> # <<"Next">>
  OBVIOUS
<1>5. <<"Start">> # <<"Abort">>
  OBVIOUS
<1>6. <<"Next">> # <<"Abort">>
  OBVIOUS
<1>7. QED
  BY <1>1, <1>2, <1>3, <1>4, <1>5, <1>6

LEMMA InFlightLen == \A s \in InFlight : Len(s) <= 2
  BY DEF InFlight

-----------------------------------------------------------------------------
(* IInv is inductive.                                                      *)

LEMMA InitIInv == Init => IInv
<1> SUFFICES ASSUME Init PROVE IInv
  OBVIOUS
<1>1. TypeOK
  BY InitTypeOK
<1>2. RoundInv
  BY DEF Init, RoundInv
<1>3. ASSUME NEW p \in Party PROVE OutboundInv(p)
  <2>1. toParty[p] = <<>>
    BY <1>3 DEF Init
  <2>2. Nexts(p) = 0
    BY <2>1, InFlightDistinct DEF Nexts
  <2>3. QED
    BY <1>3, <2>1, <2>2, InFlightDistinct
       DEF Init, OutboundInv, InFlight, Granted
<1>4. ASSUME NEW p \in Party PROVE InboundInv(p)
  BY <1>4 DEF Init, InboundInv, Received
<1>5. ASSUME NEW p \in Party PROVE PartyInv(p)
  BY <1>5 DEF Init, PartyInv
<1>6. QED
  BY <1>1, <1>2, <1>3, <1>4, <1>5 DEF IInv

\* A party that is yet to be sent the next message has none on its way, save
\* a Start it has not taken.
LEMMA NothingPending ==
  ASSUME IInv, Broadcasting, NEW p \in Party, p >= sidx
  PROVE  /\ Nexts(p) = 0 /\ toSync[p] = <<>>
         /\ toParty[p] # <<>> => spc = "next" /\ toParty[p] = <<"Start">>
<1> USE DEF IInv, TypeOK
<1>1. sidx \in Int /\ p \in Int /\ round \in Nat /\ pc[p] \in Nat /\ replied[p] \in Nat
  BY LockstepAssumption DEF Party
<1>2. OutboundInv(p) /\ InboundInv(p) /\ PartyInv(p) /\ RoundInv
  OBVIOUS
<1>3. Len(toSync[p]) \in Nat
  OBVIOUS
<1>4. replied[p] = Len(toSync[p]) + IF spc = "next" THEN round - 1 ELSE round
  BY <1>1, <1>2, <1>3 DEF InboundInv, Received, RoundInv, Broadcasting, SyncGone, Ended
<1>5. pc[p] + Nexts(p) <= IF spc = "next" THEN round - 1 ELSE round
  BY <1>1, <1>2 DEF OutboundInv, Granted
<1>6. pc[p] >= replied[p]
  BY <1>2 DEF PartyInv
<1>7. Nexts(p) = 0 /\ Len(toSync[p]) = 0
  BY <1>1, <1>3, <1>4, <1>5, <1>6 DEF Nexts
<1>8. toParty[p] \in {<<>>, <<"Start">>, <<"Abort">>}
  BY <1>2, <1>7 DEF OutboundInv, InFlight, Nexts
<1>9. toParty[p] # <<"Abort">>
  BY <1>1, <1>2 DEF OutboundInv, Broadcasting, SyncGone, Ended
<1>10. toSync[p] = <<>>
  BY <1>7
<1>11. CASE spc = "start"
  BY <1>1, <1>2, <1>7, <1>10, <1>11 DEF OutboundInv
<1>12. CASE spc = "abort"
  <2>1. pc[p] >= 1
    BY <1>1, <1>2, <1>3, <1>4, <1>6, <1>12 DEF RoundInv
  <2>2. QED
    BY <1>1, <1>2, <1>7, <1>8, <1>9, <1>10, <2>1 DEF OutboundInv
<1>13. CASE spc = "next"
  BY <1>7, <1>8, <1>9, <1>10, <1>13
<1>14. QED
  BY <1>11, <1>12, <1>13 DEF Broadcasting

\* The steps of the synchronizer.
LEMMA SyncIInv ==
  ASSUME IInv, TypeOK', Sync
  PROVE  IInv'
<1> USE DEF IInv, Ended, SyncGone, syncVars, chanVars, partyVars
<1> DEFINE P(p) == OutboundInv(p) /\ InboundInv(p) /\ PartyInv(p)
<1>0. /\ RoundInv
      /\ N \in Nat /\ sidx \in Int /\ round \in Nat
      /\ sidx' \in Int /\ round' \in Nat
      /\ \A p \in Party : P(p)
      /\ \A p \in Party : /\ p \in Int /\ p < N /\ p >= 0
                         /\ pc[p] \in Nat /\ replied[p] \in Nat
                         /\ Nexts(p) \in {0, 1} /\ Len(toSync[p]) \in Nat
  <2>1. N \in Nat /\ sidx \in Int /\ round \in Nat
    BY LockstepAssumption DEF TypeOK
  <2>2. sidx' \in Int /\ round' \in Nat
    BY LockstepAssumption DEF TypeOK
  <2>3. \A p \in Party : p \in Int /\ p < N /\ p >= 0
    BY LockstepAssumption DEF Party
  <2>4. \A p \in Party : pc[p] \in Nat /\ replied[p] \in Nat
    BY DEF TypeOK
  <2>5. \A p \in Party : Nexts(p) \in {0, 1} /\ Len(toSync[p]) \in Nat
    BY DEF TypeOK, Nexts
  <2>6. QED
    BY <2>1, <2>2, <2>3, <2>4, <2>5
<1>1. CASE Send
  <2>1. RoundInv'
    BY <1>0, <1>1 DEF Send, RoundInv
  <2>2. ASSUME NEW p \in Party PROVE P(p)'
    <3>1. CASE p = sidx
      <4>1. Nexts(p) = 0 /\ toSync[p] = <<>> /\ (toParty[p] # <<>> => spc = "next" /\ toParty[p] = <<"Start">>)
        BY <1>0, <1>1, <3>1, NothingPending DEF Send
      <4>2. toParty'[p] = Append(toParty[p], Announced)
        BY <1>1, <3>1 DEF Send, TypeOK
      <4>3. \/ spc = "start" /\ toParty'[p] = <<"Start">>
            \/ spc = "abort" /\ toParty'[p] = <<"Abort">>
            \/ spc = "next" /\ toParty'[p] = <<"Next">>
            \/ spc = "next" /\ toParty'[p] = <<"Start", "Next">> /\ toParty[p] = <<"Start">>
        BY <1>1, <4>1, <4>2, InFlightAppend DEF Send, Broadcasting, Announced
      <4>4. OutboundInv(p)'
        <5>1. pc[p] <= IF spc = "next" THEN round - 1 ELSE round
          BY <1>0, <3>1, <4>1 DEF OutboundInv, Granted
        <5>2. Nexts(p)' <= IF spc = "next" THEN 1 ELSE 0
          BY <4>3, InFlightDistinct DEF Nexts
        <5>3. Granted(p)' = round
          BY <1>0, <1>1, <3>1 DEF Send, Granted
        <5>4. (pc[p] + Nexts(p) <= Granted(p))'
          BY <1>0, <1>1, <5>1, <5>2, <5>3 DEF Send, Nexts
        <5>5. toParty'[p] \in InFlight /\ toParty'[p] # <<>>
          BY <4>3, InFlightDistinct DEF InFlight
        <5>6. toParty'[p] = <<"Abort">> => spc' = "abort" /\ p < sidx'
          BY <1>0, <1>1, <3>1, <4>3, InFlightDistinct DEF Send
        <5>7. toParty'[p] \in {<<"Start">>, <<"Start", "Next">>} => pc'[p] = 0
          <6>1. spc = "start" => pc[p] = 0
            BY <1>0, <5>1 DEF RoundInv
          <6>2. toParty[p] = <<"Start">> => pc[p] = 0
            BY <1>0 DEF OutboundInv
          <6>3. QED
            BY <1>1, <4>3, <6>1, <6>2, InFlightDistinct DEF Send
        <5>8. QED
          BY <1>0, <1>1, <3>1, <5>4, <5>5, <5>6, <5>7 DEF Send, OutboundInv
      <4>5. InboundInv(p)' /\ PartyInv(p)'
        BY <1>0, <1>1, <4>1 DEF Send, InboundInv, PartyInv, Received, Broadcasting
      <4>6. QED
        BY <4>4, <4>5
    <3>2. CASE p # sidx
      <4>1. toParty'[p] = toParty[p]
        BY <1>1, <3>2 DEF Send, TypeOK
      <4>2. OutboundInv(p)'
        BY <1>0, <1>1, <3>2, <4>1 DEF Send, OutboundInv, Nexts, Granted
      <4>3. InboundInv(p)' /\ PartyInv(p)'
        BY <1>0, <1>1, <4>1 DEF Send, InboundInv, PartyInv, Received, Broadcasting, Nexts
      <4>4. QED
        BY <4>2, <4>3
    <3>3. QED
      BY <3>1, <3>2
  <2>3. QED
    BY <2>1, <2>2
<1>2. CASE SendFails \/ CollectFails
  <2>1. RoundInv'
    BY <1>2 DEF SendFails, CollectFails, RoundInv
  <2>2. ASSUME NEW p \in Party PROVE P(p)'
    <3>1. OutboundInv(p)'
      BY <1>0, <1>2 DEF SendFails, CollectFails, OutboundInv, Nexts, Granted
    <3>2. InboundInv(p)' /\ PartyInv(p)'
      BY <1>0, <1>2 DEF SendFails, CollectFails, InboundInv, PartyInv, Nexts
    <3>3. QED
      BY <3>1, <3>2
  <2>3. QED
    BY <2>1, <2>2
<1>3. CASE BroadcastEnds
  <2> USE DEF BroadcastEnds, BroadcastNext, Broadcasting, LoopEnds
  <2>1. RoundInv'
    BY <1>0, <1>3 DEF RoundInv
  <2>2. ASSUME NEW p \in Party PROVE P(p)'
    <3>1. OutboundInv(p)'
      BY <1>0, <1>3 DEF OutboundInv, Nexts, Granted, RoundInv
    <3>2. InboundInv(p)' /\ PartyInv(p)'
      BY <1>0, <1>3 DEF InboundInv, PartyInv, Received, RoundInv, Nexts
    <3>3. QED
      BY <3>1, <3>2
  <2>3. QED
    BY <2>1, <2>2
<1>4. CASE Collect
  <2>1. RoundInv'
    BY <1>0, <1>4 DEF Collect, RoundInv
  <2>2. ASSUME NEW p \in Party PROVE P(p)'
    <3>1. OutboundInv(p)'
      BY <1>0, <1>4 DEF Collect, OutboundInv, Nexts, Granted
    <3>2. Len(toSync'[p]) = IF p = sidx THEN Len(toSync[p]) - 1 ELSE Len(toSync[p])
      BY <1>4 DEF Collect, TypeOK
    <3>3. Received(p)' = IF p = sidx THEN Received(p) + 1 ELSE Received(p)
      BY <1>0, <1>4 DEF Collect, Received
    <3>4. InboundInv(p)'
      <4>1. Received(p) \in Int
        BY <1>0 DEF Received
      <4>2. replied[p] = Received(p) + Len(toSync[p])
        BY <1>0, <1>4 DEF Collect, InboundInv
      <4>3. (replied[p] = Received(p) + Len(toSync[p]))'
        BY <1>0, <1>4, <3>2, <3>3, <4>1, <4>2 DEF Collect
      <4>4. Len(toSync'[p]) <= 1
        BY <1>0, <3>2 DEF InboundInv
      <4>5. toSync[p] = <<>> => toSync'[p] = <<>>
        BY <1>4 DEF Collect, TypeOK
      <4>6. QED
        BY <1>0, <1>4, <4>3, <4>4, <4>5 DEF Collect, InboundInv, Nexts
    <3>5. PartyInv(p)'
      BY <1>0, <1>4 DEF Collect, PartyInv
    <3>6. QED
      BY <3>1, <3>4, <3>5
  <2>3. QED
    BY <2>1, <2>2
<1>5. CASE Decide
  <2> USE DEF Decide, BroadcastNext, LoopEnds
  <2>1. RoundInv'
    BY <1>0, <1>5 DEF RoundInv
  <2>2. ASSUME NEW p \in Party PROVE P(p)'
    <3>1. Len(toSync[p]) = 0 /\ replied[p] = round
      BY <1>0, <1>5 DEF InboundInv, PartyInv, OutboundInv, Received, Granted
    <3>2. OutboundInv(p)'
      BY <1>0, <1>5 DEF OutboundInv, Nexts, Granted
    <3>3. InboundInv(p)' /\ PartyInv(p)'
      BY <1>0, <1>5, <3>1 DEF InboundInv, PartyInv, Received, Nexts
    <3>4. QED
      BY <3>2, <3>3
  <2>3. QED
    BY <2>1, <2>2
<1>6. QED
  BY <1>1, <1>2, <1>3, <1>4, <1>5 DEF Sync

\* The steps of a party: only what IInv says of that party can change.
LEMMA PartyIInv ==
  ASSUME IInv, TypeOK', NEW p \in Party, PartyStep(p) \/ PrepFails(p)
  PROVE  IInv'
<1> USE DEF IInv, Ended, SyncGone, syncVars, chanVars, partyVars
<1> DEFINE P(q) == OutboundInv(q) /\ InboundInv(q) /\ PartyInv(q)
<1>0. /\ RoundInv /\ round \in Nat
      /\ OutboundInv(p) /\ InboundInv(p) /\ PartyInv(p)
      /\ pc[p] \in Nat /\ replied[p] \in Nat /\ pc'[p] \in Nat /\ replied'[p] \in Nat
      /\ Nexts(p) \in {0, 1} /\ Len(toSync[p]) \in Nat
      /\ Granted(p) <= round /\ Granted(p) \in Int /\ Received(p) \in Int
  BY DEF TypeOK, Nexts, Granted, Received
<1>1. UNCHANGED <<syncVars, prog, round>>
  BY DEF PartyStep, AwaitStart, Fetch, SyncLost, Reply, ReplyAbort, BusyFails, Join, PrepFails
<1>2. RoundInv' /\ Granted(p)' = Granted(p) /\ Received(p)' = Received(p)
  BY <1>0, <1>1 DEF RoundInv, Granted, Received
<1>3. ASSUME NEW q \in Party, q # p PROVE P(q)'
  <2>1. /\ ppc'[q] = ppc[q] /\ pc'[q] = pc[q] /\ replied'[q] = replied[q]
        /\ toParty'[q] = toParty[q] /\ toSync'[q] = toSync[q]
    BY <1>3 DEF TypeOK, TakeMsg, PartyStep, AwaitStart, Fetch, SyncLost, Reply,
       ReplyAbort, BusyFails, Join, PrepFails
  <2>2. P(q)
    OBVIOUS
  <2>3. OutboundInv(q)'
    BY <1>1, <2>1, <2>2 DEF OutboundInv, Nexts, Granted
  <2>4. InboundInv(q)' /\ PartyInv(q)'
    BY <1>1, <2>1, <2>2 DEF InboundInv, PartyInv, Received, Nexts
  <2>5. QED
    BY <2>3, <2>4
<1>4. P(p)'
  <2>1. ASSUME AwaitStart(p) \/ Fetch(p) PROVE P(p)'
    <3>1. toParty[p] # <<>> /\ toParty'[p] = Tail(toParty[p])
      BY <2>1 DEF AwaitStart, Fetch, TakeMsg, TypeOK
    <3>2. \/ toParty[p] = <<"Start">> /\ Head(toParty[p]) = "Start" /\ toParty'[p] = <<>>
          \/ toParty[p] = <<"Next">> /\ Head(toParty[p]) = "Next" /\ toParty'[p] = <<>>
          \/ toParty[p] = <<"Start", "Next">> /\ Head(toParty[p]) = "Start" /\ toParty'[p] = <<"Next">>
          \/ toParty[p] = <<"Abort">> /\ Head(toParty[p]) = "Abort" /\ toParty'[p] = <<>>
      BY <1>0, <3>1, InFlightTail DEF OutboundInv
    <3>3. /\ toSync' = toSync /\ replied' = replied
          /\ ppc[p] \in {"waiting", "running"}
          /\ \/ ppc'[p] \in {"waiting", "running", "panic"} /\ pc'[p] = pc[p]
             \/ ppc'[p] = "busy" /\ pc'[p] = pc[p] + 1 /\ Head(toParty[p]) = "Next"
      <4>1. CASE AwaitStart(p)
        BY <4>1 DEF AwaitStart, TypeOK
      <4>2. CASE Fetch(p)
        BY <4>2 DEF Fetch, Fetches, TypeOK
      <4>3. QED
        BY <2>1, <4>1, <4>2
    <3>4. pc'[p] + Nexts(p)' <= pc[p] + Nexts(p)
      <4>1. CASE Head(toParty[p]) = "Next"
        <5>1. Nexts(p) = 1 /\ Nexts(p)' = 0
          BY <3>2, <4>1, InFlightDistinct DEF Nexts
        <5>2. QED
          BY <1>0, <3>3, <5>1
      <4>2. CASE Head(toParty[p]) # "Next"
        <5>1. Nexts(p)' <= Nexts(p)
          <6>1. CASE toParty'[p] = <<>>
            BY <6>1, InFlightDistinct DEF Nexts
          <6>2. CASE toParty[p] = <<"Start", "Next">>
            BY <6>2 DEF Nexts
          <6>3. QED
            BY <3>2, <4>2, <6>1, <6>2
        <5>2. Nexts(p)' \in {0, 1}
          BY DEF Nexts
        <5>3. QED
          BY <1>0, <3>3, <4>2, <5>1, <5>2
      <4>3. QED
        BY <4>1, <4>2
    <3>5. OutboundInv(p)'
      <4>1. toParty'[p] \in {<<>>, <<"Next">>}
        BY <3>2
      <4>2. pc'[p] + Nexts(p)' <= Granted(p)'
        BY <1>0, <1>2, <3>4 DEF OutboundInv, Nexts
      <4>3. spc = "start" /\ p >= sidx => toParty'[p] = <<>>
        BY <1>0, <3>1 DEF OutboundInv
      <4>4. QED
        BY <1>1, <4>1, <4>2, <4>3, InFlightDistinct DEF OutboundInv, InFlight
    <3>6. InboundInv(p)'
      <4>1. ppc'[p] = "busy" \/ Nexts(p)' = 1 => Nexts(p) = 1
        BY <3>2, <3>3, InFlightDistinct DEF Nexts
      <4>2. QED
        BY <1>0, <1>1, <1>2, <3>3, <4>1 DEF InboundInv
    <3>7. PartyInv(p)'
      BY <1>0, <3>3 DEF PartyInv
    <3>8. QED
      BY <3>5, <3>6, <3>7
  <2>2. ASSUME Reply(p) \/ ReplyAbort(p) PROVE P(p)'
    <3>1. /\ ppc[p] = "busy"
          /\ replied'[p] = replied[p] + 1 /\ pc' = pc /\ toParty' = toParty
          /\ Len(toSync'[p]) = Len(toSync[p]) + 1
          /\ ppc'[p] \in {"running", "joining"}
      BY <2>2 DEF Reply, ReplyAbort, TypeOK
    <3>2. replied'[p] = pc[p]
      BY <1>0, <3>1 DEF PartyInv
    <3>3. OutboundInv(p)'
      BY <1>0, <1>1, <1>2, <3>1 DEF OutboundInv, Nexts
    <3>4. Len(toSync[p]) = 0 /\ replied[p] + 1 <= round
      BY <1>0, <3>1, <3>2 DEF InboundInv, OutboundInv
    <3>5. Nexts(p) = 0 /\ spc \notin {"abort", "ok"}
      BY <1>0, <3>1, <3>2, <3>4 DEF InboundInv, OutboundInv
    <3>6. InboundInv(p)'
      <4>1. ppc'[p] # "busy" /\ Nexts(p)' = 0
        BY <3>1, <3>5 DEF Nexts
      <4>2. QED
        BY <1>0, <1>1, <1>2, <3>1, <3>4, <3>5, <4>1 DEF InboundInv
    <3>7. PartyInv(p)'
      BY <1>0, <3>1, <3>2 DEF PartyInv
    <3>8. QED
      BY <3>3, <3>6, <3>7
  <2>3. ASSUME SyncLost(p) \/ BusyFails(p) \/ PrepFails(p) \/ Join(p) PROVE P(p)'
    <3>1. UNCHANGED <<toParty, toSync, pc, replied>> /\ ppc'[p] \in Ended
      BY <2>3 DEF SyncLost, BusyFails, PrepFails, Join, TypeOK
    <3>2. OutboundInv(p)'
      BY <1>0, <1>1, <1>2, <3>1 DEF OutboundInv, Nexts
    <3>3. InboundInv(p)' /\ PartyInv(p)'
      BY <1>0, <1>1, <1>2, <3>1 DEF InboundInv, PartyInv, Nexts
    <3>4. QED
      BY <3>2, <3>3
  <2>4. QED
    BY <2>1, <2>2, <2>3 DEF PartyStep
<1>5. QED
  BY <1>2, <1>3, <1>4

LEMMA NextIInv == IInv /\ [Next]_vars => IInv'
<1> SUFFICES ASSUME IInv, [Next]_vars PROVE IInv'
  OBVIOUS
<1>1. TypeOK'
  BY NextTypeOK DEF IInv
<1>2. CASE Sync
  BY <1>1, <1>2, SyncIInv
<1>3. ASSUME NEW p \in Party, PartyStep(p) \/ PrepFails(p) PROVE IInv'
  BY <1>1, <1>3, PartyIInv
<1>4. CASE UNCHANGED vars
  BY <1>4 DEF vars, syncVars, chanVars, partyVars, IInv, TypeOK, RoundInv,
     OutboundInv, InboundInv, PartyInv, Granted, Received, Nexts, SyncGone
<1>5. QED
  BY <1>2, <1>3, <1>4 DEF Next, Terminated

-----------------------------------------------------------------------------
(* What Lockstep promises, for every N, Cap and Programs.                  *)

\* Every variable keeps its type (synchronizer.rs, party.rs).
THEOREM TypeCorrect == Spec => []TypeOK
<1>1. Init => TypeOK
  BY InitTypeOK
<1>2. TypeOK /\ [Next]_vars => TypeOK'
  BY NextTypeOK
<1>3. QED
  BY <1>1, <1>2, PTL DEF Spec

\* Replies, messages and instruction counters always add up (IInv).
THEOREM Inductive == Spec => []IInv
<1>1. Init => IInv
  BY InitIInv
<1>2. IInv /\ [Next]_vars => IInv'
  BY NextIInv
<1>3. QED
  BY <1>1, <1>2, PTL DEF Spec

\* The bounds on the numbers that the invariants below follow from.
LEMMA Counts ==
  ASSUME IInv, NEW p \in Party
  PROVE  /\ pc[p] \in Nat /\ replied[p] \in Nat /\ round \in Nat
         /\ Len(toSync[p]) \in Nat /\ Nexts(p) \in {0, 1}
         /\ replied[p] <= pc[p] /\ pc[p] + Nexts(p) <= round
         /\ replied[p] >= round - 1
<1>1. OutboundInv(p) /\ InboundInv(p) /\ PartyInv(p)
  BY DEF IInv
<1>2. /\ pc[p] \in Nat /\ replied[p] \in Nat /\ round \in Nat
      /\ Len(toSync[p]) \in Nat /\ Nexts(p) \in {0, 1}
  BY DEF IInv, TypeOK, Nexts
<1>3. Granted(p) <= round /\ Granted(p) \in Int
  BY <1>2 DEF Granted
<1>4. QED
  BY <1>1, <1>2, <1>3 DEF OutboundInv, InboundInv, PartyInv

\* No party is more than one instruction ahead of any other's report.
THEOREM LockstepHolds == Spec => []LockstepInv
<1>1. IInv => LockstepInv
  <2> SUFFICES ASSUME IInv, NEW p \in Party, NEW q \in Party
               PROVE  pc[p] <= replied[q] + 1
    BY DEF LockstepInv
  <2>1. pc[p] <= round /\ pc[p] \in Nat
    BY Counts
  <2>2. round <= replied[q] + 1 /\ replied[q] \in Nat /\ round \in Nat
    BY Counts
  <2>3. QED
    BY <2>1, <2>2
<1>2. QED
  BY <1>1, Inductive, PTL

\* The synchronizer never decides on a reply of another round.
THEOREM RepliesHold == Spec => []RepliesAreThisRound
<1>1. IInv => RepliesAreThisRound
  <2> SUFFICES ASSUME IInv, spc = "collect", NEW p \in Party, p < sidx
               PROVE  replied[p] = round /\ toSync[p] = <<>>
    BY DEF RepliesAreThisRound
  <2>1. replied[p] = round + Len(toSync[p])
    BY DEF IInv, InboundInv, Received, SyncGone, Ended
  <2>2. Len(toSync[p]) = 0 /\ replied[p] = round
    BY <2>1, Counts
  <2>3. toSync[p] = <<>>
    BY <2>2 DEF IInv, TypeOK
  <2>4. QED
    BY <2>2, <2>3
<1>2. QED
  BY <1>1, Inductive, PTL

\* At most Start and Next are ever queued for a party, and one reply from it.
THEOREM ChannelBoundHolds == Spec => []ChannelBound
<1>1. IInv => ChannelBound
  BY InFlightLen DEF IInv, OutboundInv, InboundInv, ChannelBound
<1>2. QED
  BY <1>1, Inductive, PTL

\* The only step that moves an instruction counter, and what is true before.
LEMMA Fetching ==
  ASSUME IInv, NEW p \in Party, Fetch(p), Fetches(p)
  PROVE  /\ replied[p] = pc[p]
         /\ \A q \in Party : replied[q] >= pc[p]
         /\ spc \notin {"abort", "ok"}
<1>1. OutboundInv(p) /\ InboundInv(p) /\ PartyInv(p)
  BY DEF IInv
<1>2. toParty[p] # <<>> /\ Head(toParty[p]) = "Next" /\ ppc[p] = "running"
  BY DEF Fetch, Fetches, TakeMsg
<1>3. Nexts(p) = 1
  BY <1>1, <1>2, InFlightTail DEF OutboundInv, Nexts
<1>4. replied[p] = pc[p] /\ pc[p] \in Nat /\ round \in Nat /\ pc[p] + 1 <= round
  BY <1>1, <1>2, <1>3, Counts DEF PartyInv
<1>5. ASSUME NEW q \in Party PROVE replied[q] >= pc[p]
  BY <1>4, <1>5, Counts
<1>6. spc \notin {"abort", "ok"}
  BY <1>1, <1>4 DEF InboundInv
<1>7. QED
  BY <1>4, <1>5, <1>6

\* A decision to abort or to stop is final: no instruction executes after it.
THEOREM DecisionHolds == Spec => DecisionIsFinal
<1>1. IInv /\ [Next]_vars => [(spc = "abort" \/ spc = "ok") => UNCHANGED pc]_vars
  <2> SUFFICES ASSUME IInv, [Next]_vars, spc = "abort" \/ spc = "ok"
               PROVE  UNCHANGED pc
    BY DEF vars
  <2>1. CASE Sync
    BY <2>1 DEF Sync, Send, SendFails, BroadcastEnds, Collect, CollectFails, Decide, partyVars
  <2>2. ASSUME NEW p \in Party, Fetch(p) PROVE UNCHANGED pc
    <3>1. ~Fetches(p)
      BY <2>2, Fetching
    <3>2. QED
      BY <2>2, <3>1 DEF Fetch, IInv, TypeOK
  <2>3. ASSUME NEW p \in Party, PartyStep(p) \/ PrepFails(p), ~Fetch(p)
        PROVE  UNCHANGED pc
    BY <2>3 DEF PartyStep, AwaitStart, SyncLost, Reply, ReplyAbort, BusyFails, Join, PrepFails
  <2>4. CASE UNCHANGED vars
    BY <2>4 DEF vars, partyVars
  <2>5. QED
    BY <2>1, <2>2, <2>3, <2>4 DEF Next, Terminated
<1>2. QED
  BY <1>1, Inductive, PTL DEF Spec, DecisionIsFinal

\* The channels and threads of Lockstep implement the rounds of Rounds: what
\* synchronizer.rs calls an alpha-synchronizer.
THEOREM Refinement == Spec => ImplementsRounds
<1>1. Init => R!Init
  BY DEF Init, R!Init
<1>2. IInv /\ [Next]_vars => [R!Next]_R!vars
  <2> SUFFICES ASSUME IInv, [Next]_vars PROVE [R!Next]_R!vars
    OBVIOUS
  <2> USE DEF R!vars
  <2>1. CASE Sync
    BY <2>1 DEF Sync, Send, SendFails, BroadcastEnds, Collect, CollectFails, Decide, partyVars
  <2>2. ASSUME NEW p \in Party, Fetch(p) PROVE [R!Next]_R!vars
    <3>1. CASE Fetches(p)
      <4>1. R!Begin(p)
        BY <2>2, <3>1, Fetching DEF R!Begin, Fetch
      <4>2. QED
        BY <2>2, <4>1 DEF R!Next
    <3>2. CASE ~Fetches(p)
      BY <2>2, <3>2 DEF Fetch, IInv, TypeOK
    <3>3. QED
      BY <3>1, <3>2
  <2>3. ASSUME NEW p \in Party, Reply(p) \/ ReplyAbort(p) PROVE [R!Next]_R!vars
    <3>1. replied[p] < pc[p]
      BY <2>3 DEF Reply, ReplyAbort, IInv, PartyInv
    <3>2. R!Finish(p)
      BY <2>3, <3>1 DEF R!Finish, Reply, ReplyAbort
    <3>3. QED
      BY <2>3, <3>2 DEF R!Next
  <2>4. ASSUME NEW p \in Party,
               AwaitStart(p) \/ SyncLost(p) \/ BusyFails(p) \/ PrepFails(p) \/ Join(p)
        PROVE  [R!Next]_R!vars
    BY <2>4 DEF AwaitStart, SyncLost, BusyFails, PrepFails, Join
  <2>5. CASE UNCHANGED vars
    BY <2>5 DEF vars, partyVars
  <2>6. QED
    BY <2>1, <2>2, <2>3, <2>4, <2>5 DEF Next, PartyStep, Terminated
<1>3. QED
  BY <1>1, <1>2, Inductive, PTL DEF Spec, ImplementsRounds, R!Spec

-----------------------------------------------------------------------------
(***************************************************************************)
(* What the parties answer, and what the synchronizer decides from it: for *)
(* any number of parties, no thread reaches a panic when everybody has the *)
(* same program and it stops, and the synchronizer succeeds only when all  *)
(* parties do.                                                             *)
(***************************************************************************)

\* What p answers to the instruction of round k, when nobody aborts.
ReplyOf(p, k) == IF prog[p][k] = "stop" THEN "Done" ELSE "Ok"

\* A party that has answered Done has succeeded; one that runs has taken its
\* Start and will find an instruction to execute.
AnswerInv(p) ==
  /\ toSync[p] # <<>> => toSync[p][1] = ReplyOf(p, replied[p])
  /\ \A k \in 1 .. replied[p] :
       prog[p][k] = "stop" => ppc[p] \in {"joining", "ok"}
  /\ toParty[p] # <<"Abort">>
  /\ ppc[p] \in {"running", "busy"} =>
       /\ toParty[p] \notin {<<"Start">>, <<"Start", "Next">>}
       /\ spc = "start" => p < sidx
  /\ Uniform => ppc[p] # "panic"

\* The synchronizer decides on the answers of one round.
VerdictInv ==
  /\ spc # "abort"
  /\ spc \in {"start", "next"} => replies = <<>>
  /\ spc = "collect" =>
       /\ Len(replies) = sidx
       /\ \A p \in 0 .. sidx - 1 : replies[p + 1] = ReplyOf(p, round)
  /\ spc = "ok" => \A p \in Party : ppc[p] \in {"joining", "ok"}
  /\ Uniform => spc # "panic"

Answers == VerdictInv /\ \A p \in Party : AnswerInv(p)
AInv == NobodyAborts => Answers

LEMMA InitAnswers == Init => Answers
  BY InFlightDistinct
     DEF Init, Answers, VerdictInv, AnswerInv, SyncGone, Ended

LEMMA SingleReply ==
  ASSUME NEW S, NEW s \in Seq(S), s # <<>>, Len(s) <= 1
  PROVE  Len(s) = 1 /\ Head(s) = s[1] /\ Tail(s) = <<>>
<1>1. Head(s) = s[1] /\ Tail(s) \in Seq(S) /\ Len(Tail(s)) = Len(s) - 1
  <2>1. Head(s) = s[1]
    OBVIOUS
  <2>2. QED
    BY <2>1, HeadTailProperties
<1>2. Len(s) \in Nat \ {0}
  BY EmptySeq
<1>3. Len(s) = 1
  BY <1>2
<1>4. Tail(s) = <<>>
  <2>1. Tail(s) \in Seq(S) /\ Len(Tail(s)) = 0
    BY <1>1, <1>3
  <2>2. ASSUME NEW t \in Seq(S), Len(t) = 0 PROVE t = <<>>
    BY <2>2, EmptySeq
  <2>3. QED
    BY <2>1, <2>2, Zenon
<1>5. QED
  BY <1>1, <1>3, <1>4

-----------------------------------------------------------------------------
(* The steps of the synchronizer.                                          *)

LEMMA SendAnswers ==
  ASSUME IInv, Answers, Send
  PROVE  Answers'
<1> USE DEF Answers
<1>1. /\ Broadcasting /\ sidx < N /\ sidx \in Party
      /\ UNCHANGED <<spc, replies, toSync, ppc, replied, prog, round>>
      /\ sidx' = sidx + 1
      /\ toParty' = [toParty EXCEPT ![sidx] = Append(toParty[sidx], Announced)]
  BY LockstepAssumption DEF Send, partyVars, IInv, TypeOK, Party
<1>2. VerdictInv'
  BY <1>1 DEF VerdictInv, Broadcasting, Uniform
<1>3. ASSUME NEW p \in Party, p # sidx PROVE AnswerInv(p)'
  <2>1. toParty'[p] = toParty[p]
    BY <1>1, <1>3 DEF IInv, TypeOK
  <2>2. ppc[p] \in {"running", "busy"} /\ spc' = "start" => p < sidx'
    BY <1>1 DEF AnswerInv, Party, IInv, TypeOK
  <2>3. QED
    BY <1>1, <2>1, <2>2 DEF AnswerInv, ReplyOf, Uniform
<1>4. ASSUME NEW p \in Party, p = sidx PROVE AnswerInv(p)'
  <2> DEFINE s == toParty[p]
  <2>1. s = <<>> \/ (spc = "next" /\ s = <<"Start">>)
    BY <1>1, <1>4, NothingPending DEF IInv, TypeOK
  <2>2. toParty'[p] = Append(s, Announced)
    BY <1>1, <1>4 DEF IInv, TypeOK
  <2>3. CASE spc = "start"
    <3>1. ppc[p] \notin {"running", "busy"}
      BY <1>1, <1>4, <2>3 DEF AnswerInv, Party
    <3>2. toParty'[p] = <<"Start">>
      BY <2>1, <2>2, <2>3, InFlightAppend DEF Announced
    <3>3. QED
      BY <1>1, <1>4, <3>1, <3>2, InFlightDistinct DEF AnswerInv, ReplyOf, Uniform
  <2>4. CASE spc = "next"
    <3>1. toParty'[p] = Append(s, "Next")
      BY <2>2, <2>4 DEF Announced
    <3>2. CASE s = <<>>
      <4>1. toParty'[p] = <<"Next">>
        BY <3>1, <3>2, InFlightAppend
      <4>2. QED
        BY <1>1, <1>4, <2>4, <4>1, InFlightDistinct DEF AnswerInv, ReplyOf, Uniform
    <3>3. CASE s = <<"Start">>
      <4>1. toParty'[p] = <<"Start", "Next">>
        BY <3>1, <3>3, InFlightAppend
      <4>2. ppc[p] \notin {"running", "busy"}
        BY <1>1, <1>4, <3>3 DEF AnswerInv
      <4>3. QED
        BY <1>1, <1>4, <2>4, <4>1, <4>2, InFlightDistinct DEF AnswerInv, ReplyOf, Uniform
    <3>4. QED
      BY <2>1, <3>2, <3>3
  <2>5. QED
    BY <1>1, <1>4, <2>3, <2>4 DEF Broadcasting, VerdictInv
<1>5. QED
  BY <1>2, <1>3, <1>4

LEMMA CollectAnswers ==
  ASSUME IInv, Answers, Collect
  PROVE  Answers'
<1> USE DEF Answers
<1> DEFINE m == Head(toSync[sidx])
<1>1. /\ spc = "collect" /\ sidx \in Party /\ sidx \in Nat /\ toSync[sidx] # <<>>
      /\ UNCHANGED <<spc, toParty, ppc, replied, prog, round>>
      /\ sidx' = sidx + 1 /\ replies' = Append(replies, m)
      /\ toSync' = [toSync EXCEPT ![sidx] = Tail(toSync[sidx])]
      /\ toSync \in [Party -> Seq(SyncReplyMsg)]
  BY LockstepAssumption DEF Collect, partyVars, IInv, TypeOK, Party
<1>2. /\ Len(toSync[sidx]) = 1 /\ toSync[sidx] \in Seq(SyncReplyMsg)
      /\ m = toSync[sidx][1] /\ Tail(toSync[sidx]) = <<>>
  <2>1. Len(toSync[sidx]) <= 1
    BY <1>1 DEF IInv, InboundInv
  <2>2. toSync[sidx] \in Seq(SyncReplyMsg) /\ toSync[sidx] # <<>>
    BY <1>1
  <2>3. QED
    BY <2>1, <2>2, SingleReply
<1>3. m = ReplyOf(sidx, round)
  <2>1. replied[sidx] = round
    BY <1>1, <1>2 DEF IInv, TypeOK, InboundInv, Received, SyncGone, Ended
  <2>2. QED
    BY <1>1, <1>2, <2>1 DEF AnswerInv
<1>4. VerdictInv'
  <2>1. /\ Len(replies) = sidx /\ replies \in Seq(SyncReplyMsg)
        /\ \A p \in 0 .. sidx - 1 : replies[p + 1] = ReplyOf(p, round)
    BY <1>1 DEF VerdictInv, IInv, TypeOK
  <2>2. m \in SyncReplyMsg
    BY <1>2
  <2>3. /\ Len(replies') = sidx + 1 /\ replies'[sidx + 1] = m
        /\ \A i \in 1 .. sidx : replies'[i] = replies[i]
    BY <1>1, <2>1, <2>2
  <2>4. ASSUME NEW p \in 0 .. sidx' - 1 PROVE replies'[p + 1] = ReplyOf(p, round)
    <3>1. CASE p = sidx
      BY <1>3, <2>3, <3>1
    <3>2. CASE p \in 0 .. sidx - 1
      <4>1. p + 1 \in 1 .. sidx
        BY <1>1, <3>2
      <4>2. QED
        BY <2>1, <2>3, <3>2, <4>1
    <3>3. sidx \in Nat /\ sidx' = sidx + 1
      BY <1>1
    <3>4. p \in 0 .. sidx
      BY <2>4, <3>3
    <3>5. QED
      BY <3>1, <3>2, <3>3, <3>4
  <2>5. QED
    BY <1>1, <2>3, <2>4 DEF VerdictInv, ReplyOf, Uniform
<1>5. ASSUME NEW p \in Party PROVE AnswerInv(p)'
  <2>1. toSync'[p] = IF p = sidx THEN <<>> ELSE toSync[p]
    BY <1>1, <1>2
  <2>2. QED
    BY <1>1, <2>1 DEF AnswerInv, ReplyOf, Uniform
<1>6. QED
  BY <1>4, <1>5

\* All answers are Done, or none is and the next round begins: with the same
\* program for everyone there is no third case.
LEMMA DecideAnswers ==
  ASSUME IInv, Answers, Decide
  PROVE  Answers'
<1> USE DEF Answers
<1>1. /\ spc = "collect" /\ sidx = N /\ sidx' = 0 /\ replies' = <<>>
      /\ UNCHANGED <<toParty, toSync, ppc, replied, prog>>
      /\ N \in Nat \ {0} /\ round \in Nat /\ round >= 1
  BY LockstepAssumption DEF Decide, LoopEnds, chanVars, partyVars, IInv, RoundInv, TypeOK
<1>2. Len(replies) = N /\ \A p \in Party : replies[p + 1] = ReplyOf(p, round)
  BY <1>1 DEF VerdictInv, Party
<1>3. ASSUME NEW m PROVE Unanimous(m) <=> \A p \in Party : ReplyOf(p, round) = m
  <2>1. ASSUME Unanimous(m), NEW p \in Party PROVE ReplyOf(p, round) = m
    BY <1>1, <1>2, <2>1 DEF Unanimous, Party
  <2>2. ASSUME \A p \in Party : ReplyOf(p, round) = m, NEW i \in 1 .. Len(replies)
        PROVE  replies[i] = m
    <3>1. i - 1 \in Party /\ (i - 1) + 1 = i
      BY <1>1, <1>2 DEF Party
    <3>2. QED
      BY <1>2, <2>2, <3>1
  <2>3. QED
    BY <2>1, <2>2 DEF Unanimous
<1>4. \A i \in 1 .. Len(replies) : replies[i] # "Abort"
  <2> SUFFICES ASSUME NEW i \in 1 .. Len(replies) PROVE replies[i] # "Abort"
    OBVIOUS
  <2>1. i - 1 \in Party /\ (i - 1) + 1 = i
    BY <1>1, <1>2 DEF Party
  <2>2. replies[i] = ReplyOf(i - 1, round)
    BY <1>2, <2>1
  <2>3. QED
    BY <2>2 DEF ReplyOf
<1>5. ASSUME spc' # "start", spc' # "abort" PROVE \A p \in Party : AnswerInv(p)'
  <2> SUFFICES ASSUME NEW p \in Party PROVE AnswerInv(p)'
    OBVIOUS
  <2>1. AnswerInv(p)
    OBVIOUS
  <2>2. UNCHANGED <<toParty, toSync, ppc, replied, prog>> /\ spc' # "start"
    BY <1>1, <1>5
  <2>3. QED
    BY <2>1, <2>2 DEF AnswerInv, ReplyOf, Uniform
<1>6. CASE Unanimous("Done")
  <2>1. spc' = "ok"
    <3>1. 0 \in Party
      BY <1>1 DEF Party
    <3>2. ~Unanimous("Ok")
      BY <1>3, <1>6, <3>1
    <3>3. QED
      BY <1>4, <1>6, <3>2 DEF Decide
  <2>2. ASSUME NEW p \in Party PROVE ppc[p] \in {"joining", "ok"}
    <3>1. prog[p][round] = "stop"
      BY <1>3, <1>6 DEF ReplyOf
    <3>2. replied[p] = round + Len(toSync[p]) /\ Len(toSync[p]) \in Nat /\ replied[p] \in Nat
      BY <1>1 DEF IInv, TypeOK, InboundInv, Received, SyncGone, Ended, Party
    <3>3. round \in 1 .. replied[p]
      BY <1>1, <3>2
    <3>4. QED
      BY <3>1, <3>3 DEF AnswerInv
  <2>3. QED
    BY <1>1, <1>5, <2>1, <2>2 DEF VerdictInv
<1>7. CASE ~Unanimous("Done") /\ Unanimous("Ok")
  <2>1. spc' = "next"
    BY <1>4, <1>7 DEF Decide, BroadcastNext
  <2>2. QED
    BY <1>1, <1>5, <2>1 DEF VerdictInv
<1>8. CASE ~Unanimous("Done") /\ ~Unanimous("Ok")
  <2>1. spc' = "panic"
    BY <1>4, <1>8 DEF Decide
  <2>2. ~Uniform
    <3>1. PICK p \in Party : ReplyOf(p, round) # "Done"
      BY <1>3, <1>8
    <3>2. PICK q \in Party : ReplyOf(q, round) # "Ok"
      BY <1>3, <1>8
    <3>3. prog[p] # prog[q]
      BY <3>1, <3>2 DEF ReplyOf
    <3>4. QED
      BY <3>3 DEF Uniform
  <2>3. ~Uniform'
    BY <1>1, <2>2 DEF Uniform
  <2>4. QED
    BY <1>1, <1>5, <2>1, <2>3 DEF VerdictInv
<1>9. QED
  BY <1>6, <1>7, <1>8

LEMMA SyncAnswers ==
  ASSUME IInv, Answers, Sync
  PROVE  Answers'
<1>1. CASE BroadcastEnds
  <2>1. /\ spc \in {"start", "next"} /\ sidx' = 0 /\ spc' \in {"next", "collect"}
        /\ UNCHANGED <<replies, toParty, toSync, ppc, replied, prog>>
        /\ replies = <<>>
    BY <1>1 DEF BroadcastEnds, Broadcasting, BroadcastNext, Answers, VerdictInv,
                chanVars, partyVars
  <2>2. VerdictInv'
    BY <2>1 DEF VerdictInv
  <2>3. \A p \in Party : AnswerInv(p)'
    BY <2>1 DEF Answers, AnswerInv, ReplyOf, Uniform
  <2>4. QED
    BY <2>2, <2>3 DEF Answers
<1>2. CASE SendFails \/ CollectFails
  <2>1. spc' = "err" /\ UNCHANGED <<toParty, toSync, ppc, replied, prog>>
    BY <1>2 DEF SendFails, CollectFails, chanVars, partyVars
  <2>2. VerdictInv'
    BY <2>1 DEF VerdictInv
  <2>3. \A p \in Party : AnswerInv(p)'
    BY <2>1 DEF Answers, AnswerInv, ReplyOf, Uniform
  <2>4. QED
    BY <2>2, <2>3 DEF Answers
<1>3. QED
  BY <1>1, <1>2, SendAnswers, CollectAnswers, DecideAnswers DEF Sync

-----------------------------------------------------------------------------
(* The steps of a party.                                                   *)

\* A party leaves the synchronizer's verdict and the other parties alone.
LEMMA OthersAnswers ==
  ASSUME IInv, Answers, NEW p \in Party,
         UNCHANGED <<syncVars, prog, round>>,
         \A q \in Party : q # p =>
           UNCHANGED <<toParty[q], toSync[q], ppc[q], replied[q]>>,
         AnswerInv(p)',
         ppc[p] \in {"waiting", "running", "busy"} \/ ppc'[p] = "ok"
  PROVE  Answers'
<1> USE DEF Answers
<1>1. ASSUME NEW q \in Party, q # p PROVE AnswerInv(q)'
  BY <1>1 DEF AnswerInv, ReplyOf, Uniform, syncVars
<1>2. VerdictInv'
  BY DEF VerdictInv, ReplyOf, Uniform, syncVars
<1>3. QED
  BY <1>1, <1>2

LEMMA PartyAnswers ==
  ASSUME IInv, Answers, NobodyAborts, NEW p \in Party, PartyStep(p) \/ PrepFails(p)
  PROVE  Answers'
<1> USE DEF syncVars, chanVars
<1>1. /\ OutboundInv(p) /\ InboundInv(p) /\ PartyInv(p) /\ AnswerInv(p)
      /\ toParty \in [Party -> Seq(SyncMsg)] /\ toSync \in [Party -> Seq(SyncReplyMsg)]
      /\ ppc \in [Party -> {"waiting", "running", "busy", "joining"} \cup Ended]
      /\ pc[p] \in Nat /\ replied \in [Party -> Nat] /\ replied[p] \in Nat
      /\ prog[p] \in Seq(Instruction) /\ pc[p] <= Len(prog[p]) /\ p \in Int
  BY LockstepAssumption DEF IInv, TypeOK, Answers, Party
<1>2. CASE AwaitStart(p)
  <2>1. /\ ppc[p] = "waiting" /\ toParty[p] # <<>>
        /\ toParty' = [toParty EXCEPT ![p] = Tail(toParty[p])]
        /\ ppc' = [ppc EXCEPT ![p] =
                     IF Head(toParty[p]) = "Start" THEN "running" ELSE "waiting"]
        /\ UNCHANGED <<syncVars, toSync, replied, prog, round>>
    BY <1>1, <1>2 DEF AwaitStart, TakeMsg
  <2>2. toParty'[p] \in {<<>>, <<"Next">>}
    BY <1>1, <2>1, InFlightTail DEF OutboundInv
  <2>3. spc = "start" => p < sidx
    BY <1>1, <2>1, LockstepAssumption DEF OutboundInv, IInv, TypeOK
  <2>4. ppc'[p] \in {"waiting", "running"}
    BY <1>1, <2>1
  <2>5. AnswerInv(p)'
    BY <1>1, <2>1, <2>2, <2>3, <2>4, InFlightDistinct DEF AnswerInv, ReplyOf, Uniform
  <2>6. QED
    BY <1>1, <2>1, <2>5, OthersAnswers
<1>3. CASE Fetch(p)
  <2>1. /\ ppc[p] = "running" /\ toParty[p] # <<>>
        /\ toParty' = [toParty EXCEPT ![p] = Tail(toParty[p])]
        /\ ppc' = [ppc EXCEPT ![p] = IF Fetches(p) THEN "busy" ELSE "panic"]
        /\ UNCHANGED <<syncVars, toSync, replied, prog, round>>
    BY <1>3 DEF Fetch, TakeMsg
  <2>2. Head(toParty[p]) = "Next" /\ Tail(toParty[p]) = <<>>
    BY <1>1, <2>1, InFlightTail DEF OutboundInv, AnswerInv
  <2>3. toParty'[p] = <<>>
    BY <1>1, <2>1, <2>2
  <2>4. \A k \in 1 .. replied[p] : prog[p][k] # "stop"
    BY <1>1, <2>1 DEF AnswerInv
  <2>5. Uniform => Fetches(p)
    <3> SUFFICES ASSUME Uniform PROVE pc[p] < Len(prog[p])
      BY <2>2 DEF Fetches
    <3>1. PICK i \in 1 .. Len(prog[p]) : prog[p][i] = "stop"
      BY DEF Uniform
    <3>2. replied[p] = pc[p]
      BY <1>1, <2>1 DEF PartyInv
    <3>3. QED
      BY <1>1, <2>4, <3>1, <3>2
  <2>6. spc = "start" => p < sidx
    BY <1>1, <2>1 DEF AnswerInv
  <2>7. ppc'[p] = IF Fetches(p) THEN "busy" ELSE "panic"
    BY <1>1, <2>1
  <2>8. AnswerInv(p)'
    BY <1>1, <2>1, <2>3, <2>4, <2>5, <2>6, <2>7, InFlightDistinct
       DEF AnswerInv, ReplyOf, Uniform
  <2>9. QED
    BY <1>1, <2>1, <2>8, OthersAnswers
<1>4. CASE SyncLost(p) \/ BusyFails(p) \/ PrepFails(p)
  <2>1. /\ ppc[p] \in {"waiting", "running", "busy"}
        /\ ppc' = [ppc EXCEPT ![p] = "err"]
        /\ UNCHANGED <<syncVars, toParty, toSync, replied, prog, round>>
    BY <1>4 DEF SyncLost, BusyFails, PrepFails
  <2>2. AnswerInv(p)'
    BY <1>1, <2>1 DEF AnswerInv, ReplyOf, Uniform
  <2>3. QED
    BY <1>1, <2>1, <2>2, OthersAnswers
<1>5. CASE Reply(p)
  <2> DEFINE last == Executed(p) = "stop"
             m == IF last THEN "Done" ELSE "Ok"
  <2>1. /\ ppc[p] = "busy"
        /\ toSync' = [toSync EXCEPT ![p] = Append(toSync[p], m)]
        /\ ppc' = [ppc EXCEPT ![p] = IF last THEN "joining" ELSE "running"]
        /\ replied' = [replied EXCEPT ![p] = replied[p] + 1]
        /\ UNCHANGED <<syncVars, toParty, prog, round>>
    BY <1>5 DEF Reply
  <2>2. toSync[p] = <<>> /\ pc[p] = replied[p] + 1
    BY <1>1, <2>1 DEF InboundInv, PartyInv
  <2>3. /\ replied'[p] = pc[p] /\ ppc'[p] = IF last THEN "joining" ELSE "running"
        /\ toSync'[p] = Append(<<>>, m)
    BY <1>1, <2>1, <2>2
  <2>4. toSync'[p][1] = ReplyOf(p, pc[p])
    BY <2>3 DEF ReplyOf, Executed
  <2>5. ASSUME NEW k \in 1 .. pc[p], prog[p][k] = "stop" PROVE ppc'[p] = "joining"
    <3>1. CASE k = pc[p]
      BY <2>3, <2>5, <3>1 DEF Executed
    <3>2. CASE k \in 1 .. replied[p]
      BY <1>1, <2>1, <2>5, <3>2 DEF AnswerInv
    <3>3. QED
      BY <1>1, <2>2, <2>5, <3>1, <3>2
  <2>6. AnswerInv(p)'
    BY <1>1, <2>1, <2>3, <2>4, <2>5 DEF AnswerInv, ReplyOf, Uniform
  <2>7. QED
    BY <1>1, <2>1, <2>6, OthersAnswers
<1>6. CASE ReplyAbort(p)
  <2>1. ppc[p] = "busy" /\ prog[p][pc[p]] = "abort"
    BY <1>6 DEF ReplyAbort, Executed
  <2>2. pc[p] \in 1 .. Len(prog[p])
    BY <1>1, <2>1 DEF PartyInv
  <2>3. QED
    BY <2>1, <2>2 DEF NobodyAborts
<1>7. CASE Join(p)
  <2>1. /\ ppc[p] = "joining" /\ ppc' = [ppc EXCEPT ![p] = "ok"]
        /\ UNCHANGED <<syncVars, toParty, toSync, replied, prog, round>>
    BY <1>7 DEF Join
  <2>2. AnswerInv(p)'
    BY <1>1, <2>1 DEF AnswerInv, ReplyOf, Uniform
  <2>3. QED
    BY <1>1, <2>1, <2>2, OthersAnswers
<1>8. QED
  BY <1>2, <1>3, <1>4, <1>5, <1>6, <1>7 DEF PartyStep

-----------------------------------------------------------------------------
LEMMA AnswersInvariant == Spec => []AInv
<1>1. Init => AInv
  BY InitAnswers DEF AInv
<1>2. IInv /\ AInv /\ [Next]_vars => AInv'
  <2> SUFFICES ASSUME IInv, AInv, [Next]_vars, NobodyAborts' PROVE Answers'
    BY DEF AInv
  <2>1. prog' = prog
    BY DEF Next, Sync, Send, SendFails, BroadcastEnds, Collect, CollectFails, Decide,
           PartyStep, AwaitStart, Fetch, SyncLost, Reply, ReplyAbort, BusyFails, Join,
           PrepFails, Terminated, vars
  <2>2. NobodyAborts /\ Answers
    BY <2>1 DEF NobodyAborts, AInv
  <2>3. CASE Sync
    BY <2>2, <2>3, SyncAnswers
  <2>4. ASSUME NEW p \in Party, PartyStep(p) \/ PrepFails(p) PROVE Answers'
    BY <2>2, <2>4, PartyAnswers
  <2>5. CASE UNCHANGED vars
    BY <2>2, <2>5 DEF vars, syncVars, chanVars, partyVars,
                      Answers, VerdictInv, AnswerInv, ReplyOf, Uniform
  <2>6. QED
    BY <2>3, <2>4, <2>5 DEF Next, Terminated
<1>3. QED
  BY <1>1, <1>2, Inductive, PTL DEF Spec

\* No panic of Synchronizer::listen and Party::listen is reached when all have
\* the same program and it stops, whichever thread fails and whenever.
THEOREM NoPanics == Spec => []UniformNeverPanics
<1>1. AInv => UniformNeverPanics
  BY DEF AInv, Answers, VerdictInv, AnswerInv, UniformNeverPanics
<1>2. QED
  BY <1>1, AnswersInvariant, PTL

\* A synchronizer that returns Ok leaves no party behind that could fail.
THEOREM SuccessHolds == Spec => []SuccessIsUnanimous
<1>1. AInv => SuccessIsUnanimous
  BY DEF AInv, Answers, VerdictInv, SuccessIsUnanimous
<1>2. QED
  BY <1>1, AnswersInvariant, PTL
=============================================================================
