--------------------------- MODULE TcpWrapProofs ----------------------------
(***************************************************************************)
(* For any number of messages: the messages between two wrapped ends run   *)
(* on from one queue to the next (FlowInv), and so the wrapped stream         *)
(* implements Link.                                                        *)
(***************************************************************************)
EXTENDS TcpWrap, SequenceTheorems, TLAPS

-----------------------------------------------------------------------------
(* Consecutive numbers, and what appending and taking leave of them.       *)

LEMMA AppendRuns ==
  ASSUME NEW s \in Seq(Nat), NEW n \in Nat, Runs(s, n)
  PROVE  LET t == Append(s, n + Len(s) + 1)
         IN t \in Seq(Nat) /\ Len(t) = Len(s) + 1 /\ Runs(t, n)
  BY DEF Runs

LEMMA TailRuns ==
  ASSUME NEW s \in Seq(Nat), s # <<>>
  PROVE  /\ Head(s) \in Nat /\ Tail(s) \in Seq(Nat)
         /\ Len(Tail(s)) = Len(s) - 1 /\ Len(s) \in Nat \ {0}
         /\ \A n \in Nat : Runs(s, n) => Head(s) = n + 1 /\ Runs(Tail(s), n + 1)
<1>1. /\ Head(s) \in Nat /\ Tail(s) \in Seq(Nat)
      /\ Len(Tail(s)) = Len(s) - 1 /\ Len(s) \in Nat \ {0}
      /\ \A i \in 1 .. Len(Tail(s)) : Tail(s)[i] = s[i + 1]
  BY HeadTailProperties
<1>2. ASSUME NEW n \in Nat, Runs(s, n) PROVE Head(s) = n + 1 /\ Runs(Tail(s), n + 1)
  <2>1. Head(s) = s[1]
    OBVIOUS
  <2>2. ASSUME NEW i \in 1 .. Len(Tail(s)) PROVE Tail(s)[i] = (n + 1) + i
    <3>1. i + 1 \in 1 .. Len(s)
      BY <1>1
    <3>2. s[i + 1] = n + (i + 1)
      BY <1>2, <3>1 DEF Runs
    <3>3. QED
      BY <1>1, <3>2
  <2>3. s[1] = n + 1
    BY <1>1, <1>2 DEF Runs
  <2>4. QED
    BY <2>1, <2>2, <2>3 DEF Runs
<1>3. QED
  BY <1>1, <1>2

-----------------------------------------------------------------------------
(* The type invariant.                                                     *)

LEMMA Ends == Other(0) = 1 /\ Other(1) = 0 /\ \A e \in End : Other(e) \in End /\ Other(Other(e)) = e
  BY DEF End, Other

LEMMA InitFlowInv == Init => FlowInv
<1> SUFFICES ASSUME Init PROVE FlowInv
  OBVIOUS
<1>1. TypeOK
  BY TcpAssumption DEF Init, TypeOK
<1>2. ASSUME NEW e \in End PROVE Flow(e)
  BY Ends DEF Init, Flow, Runs, Received, Passed, Written
<1>3. QED
  BY <1>1, <1>2 DEF FlowInv

\* The types of all but shut, whose values are Booleans, and shut's.
Types ==
  /\ main \in [End -> {"run", "over", "join"} \cup Exited]
  /\ wpc \in [End -> {"select", "stopped", "panic", "ended"}]
  /\ rpc \in [End -> {"read", "ended"}]
  /\ signal \in [End -> {0, 1}]
  /\ sent \in [End -> 0 .. K]
  /\ out \in [End -> Seq(Nat)] /\ net \in [End -> Seq(Nat)]
  /\ inn \in [End -> Seq(Nat)] /\ got \in [End -> Seq(Nat)]

LEMMA NextTypes == Types /\ [Next]_vars => Types'
<1> SUFFICES ASSUME Types, [Next]_vars PROVE Types'
  OBVIOUS
<1> USE TcpAssumption, Ends DEF Types, Exited, appVars, writerVars
<1>1. ASSUME NEW e \in End, Put(e) PROVE Types'
  <2>1. CASE WriterGone(e)
    BY <1>1, <2>1 DEF Put, Exit
  <2>2. CASE ~WriterGone(e)
    <3>1. sent[e] + 1 \in 0 .. K /\ Append(out[e], sent[e] + 1) \in Seq(Nat)
      BY <1>1 DEF Put
    <3>2. /\ sent' = [sent EXCEPT ![e] = @ + 1]
          /\ out' = [out EXCEPT ![e] = Append(@, sent[e] + 1)]
          /\ UNCHANGED <<main, wpc, rpc, got, signal, net, inn>>
      BY <1>1, <2>2 DEF Put
    <3>3. QED
      BY <3>1, <3>2
  <2>3. QED
    BY <2>1, <2>2
<1>2. ASSUME NEW e \in End, Get(e) PROVE Types'
  <2>1. Head(inn[e]) \in Nat /\ Tail(inn[e]) \in Seq(Nat)
    BY <1>2, TailRuns DEF Get
  <2>2. Append(got[e], Head(inn[e])) \in Seq(Nat)
    BY <2>1
  <2>3. QED
    BY <1>2, <2>1, <2>2 DEF Get
<1>3. ASSUME NEW e \in End, GetFails(e) \/ Finish(e) \/ Signal(e) \/ Join(e) PROVE Types'
  BY <1>3 DEF GetFails, Finish, Signal, Join, Exit
<1>4. ASSUME NEW e \in End, Write(e) \/ WriteFails(e) PROVE Types'
  <2>1. Head(out[e]) \in Nat /\ Tail(out[e]) \in Seq(Nat)
    BY <1>4, TailRuns DEF Write, WriteFails
  <2>2. Append(net[e], Head(out[e])) \in Seq(Nat)
    BY <2>1
  <2>3. CASE Write(e)
    BY <2>1, <2>2, <2>3 DEF Write
  <2>4. CASE WriteFails(e)
    BY <2>1, <2>2, <2>4 DEF WriteFails
  <2>5. QED
    BY <1>4, <2>3, <2>4
<1>5. ASSUME NEW e \in End, UnwrapPanics(e) \/ ShutDown(e) \/ WriterEnds(e) PROVE Types'
  <2>1. CASE UnwrapPanics(e)
    BY <2>1 DEF UnwrapPanics
  <2>2. CASE ShutDown(e)
    BY <2>2 DEF ShutDown
  <2>3. CASE WriterEnds(e)
    BY <2>3 DEF WriterEnds
  <2>4. QED
    BY <1>5, <2>1, <2>2, <2>3
<1>6. ASSUME NEW e \in End, Read(e) PROVE Types'
  <2>1. Head(net[Other(e)]) \in Nat /\ Tail(net[Other(e)]) \in Seq(Nat)
    BY <1>6, TailRuns DEF Read
  <2>2. Append(inn[e], Head(net[Other(e)])) \in Seq(Nat)
    BY <2>1
  <2>3. QED
    BY <1>6, <2>1, <2>2 DEF Read, ReaderEnds
<1>7. ASSUME NEW e \in End, ReadFails(e) PROVE Types'
  BY <1>7 DEF ReadFails, ReaderEnds
<1>8. CASE UNCHANGED vars
  BY <1>8 DEF vars
<1>9. QED
  BY <1>1, <1>2, <1>3, <1>4, <1>5, <1>6, <1>7, <1>8 DEF Next, User, Writer, Reader

LEMMA NextShut == shut \in [End -> BOOLEAN] /\ [Next]_vars => shut' \in [End -> BOOLEAN]
<1> SUFFICES ASSUME shut \in [End -> BOOLEAN], [Next]_vars
             PROVE  shut' \in [End -> BOOLEAN]
  OBVIOUS
<1>1. shut' = shut \/ \E e \in End : shut' = [shut EXCEPT ![e] = TRUE]
  BY DEF Next, User, Put, Get, GetFails, Finish, Signal, Join, Exit,
         Writer, Write, WriteFails, UnwrapPanics, ShutDown, WriterEnds,
         Reader, Read, ReadFails, ReaderEnds, vars
<1>2. ASSUME NEW e \in End PROVE [shut EXCEPT ![e] = TRUE] \in [End -> BOOLEAN]
  BY Zenon
<1>3. QED
  BY <1>1, <1>2

LEMMA NextTypeOK == TypeOK /\ [Next]_vars => TypeOK'
<1>1. (TypeOK <=> Types /\ shut \in [End -> BOOLEAN])
  BY Zenon DEF TypeOK, Types
<1>2. (TypeOK <=> Types /\ shut \in [End -> BOOLEAN])'
  BY Zenon DEF TypeOK, Types
<1>3. QED
  BY <1>1, <1>2, NextTypes, NextShut

-----------------------------------------------------------------------------
(* The flow of messages from each end.                                     *)

\* What Flow(e) is about.
Seen(e) == <<sent[e], out[e], net[e], inn[Other(e)], got[Other(e)]>>

\* A step that moves no message from e, and restarts no thread, keeps Flow(e).
LEMMA FlowKept ==
  ASSUME NEW e \in End, Flow(e), Seen(e)' = Seen(e),
         wpc'[e] = "select" => wpc[e] = "select",
         rpc'[Other(e)] = "read" => rpc[Other(e)] = "read"
  PROVE  Flow(e)'
  BY DEF Flow, Seen, Runs, Received, Passed, Written

LEMMA Lengths ==
  ASSUME TypeOK, NEW e \in End
  PROVE  /\ Received(e) \in Nat /\ Passed(e) \in Nat /\ Written(e) \in Nat
         /\ Len(inn[Other(e)]) \in Nat /\ Len(net[e]) \in Nat /\ Len(out[e]) \in Nat
         /\ sent[e] \in Nat
<1>1. /\ Len(got[Other(e)]) \in Nat /\ Len(inn[Other(e)]) \in Nat
      /\ Len(net[e]) \in Nat /\ Len(out[e]) \in Nat
  BY Ends, LenProperties DEF TypeOK
<1>2. sent[e] \in Nat
  BY TcpAssumption DEF TypeOK
<1>3. Received(e) \in Nat
  BY <1>1 DEF Received
<1>4. Passed(e) \in Nat
  BY <1>1, <1>3 DEF Passed
<1>5. Written(e) \in Nat
  BY <1>1, <1>4 DEF Written
<1>6. QED
  BY <1>1, <1>2, <1>3, <1>4, <1>5

LEMMA PutFlow ==
  ASSUME FlowInv, NEW e \in End, Put(e), ~WriterGone(e) PROVE Flow(e)'
<1>1. /\ sent'[e] = sent[e] + 1 /\ out'[e] = Append(out[e], sent[e] + 1)
      /\ UNCHANGED <<wpc, rpc, net, inn, got>>
  BY DEF Put, FlowInv, TypeOK
<1>2. UNCHANGED <<Received(e), Passed(e), Written(e)>>
  BY <1>1 DEF Received, Passed, Written
<1>3. out[e] \in Seq(Nat) /\ Len(out'[e]) = Len(out[e]) + 1
  BY <1>1, Lengths DEF FlowInv, TypeOK
<1>4. ASSUME rpc[Other(e)] = "read", wpc[e] = "select"
      PROVE  Runs(out'[e], Written(e)) /\ Written(e) + Len(out[e]) = sent[e]
  <2>1. Runs(out[e], Written(e)) /\ Written(e) + Len(out[e]) = sent[e]
    BY <1>4 DEF FlowInv, Flow
  <2>2. Runs(Append(out[e], Written(e) + Len(out[e]) + 1), Written(e))
    BY <1>3, <2>1, AppendRuns, Lengths DEF FlowInv
  <2>3. QED
    BY <1>1, <2>1, <2>2
<1>5. Flow(e)
  BY DEF FlowInv
<1>6. Written(e)' + Len(out'[e]) = Written(e) + Len(out[e]) + 1
  BY <1>2, <1>3, Lengths DEF FlowInv
<1>7. /\ Written(e)' + Len(out'[e]) <= sent'[e]
      /\ Written(e) + Len(out[e]) = sent[e] => Written(e)' + Len(out'[e]) = sent'[e]
  BY <1>1, <1>5, <1>6, Lengths DEF Flow, FlowInv
<1>8. QED
  BY <1>1, <1>2, <1>4, <1>5, <1>7 DEF Flow, Runs

LEMMA GetFlow ==
  ASSUME FlowInv, NEW e \in End, Get(Other(e)) PROVE Flow(e)'
<1> DEFINE o == Other(e)
<1>1. /\ got'[o] = Append(got[o], Head(inn[o])) /\ inn'[o] = Tail(inn[o])
      /\ UNCHANGED <<wpc, rpc, net, out, sent>> /\ inn[o] # <<>>
  BY Ends DEF Get, FlowInv, TypeOK, writerVars
<1>2. got[o] \in Seq(Nat) /\ inn[o] \in Seq(Nat)
  BY Ends DEF FlowInv, TypeOK
<1>3. /\ Head(inn[o]) \in Nat /\ Len(inn'[o]) = Len(inn[o]) - 1
      /\ Runs(inn'[o], Received(e) + 1)
  BY <1>1, <1>2, TailRuns, Lengths DEF FlowInv, Flow
<1>4. Received(e)' = Received(e) + 1
  BY <1>1, <1>2, <1>3 DEF Received
<1>5. Passed(e)' = Passed(e) /\ Written(e)' = Written(e)
  <2>1. Passed(e)' = Received(e)' + Len(inn'[o])
    BY <1>1 DEF Passed
  <2>2. QED
    BY <1>1, <1>3, <1>4, <2>1, Lengths DEF Passed, Written, FlowInv
<1>6. Flow(e)
  BY DEF FlowInv
<1>7. QED
  BY <1>1, <1>3, <1>4, <1>5, <1>6 DEF Flow, Runs

LEMMA WriteFlow ==
  ASSUME FlowInv, NEW e \in End, Write(e) PROVE Flow(e)'
<1>1. /\ out'[e] = Tail(out[e]) /\ net'[e] = Append(net[e], Head(out[e]))
      /\ UNCHANGED <<wpc, rpc, inn, got, sent>> /\ out[e] # <<>> /\ wpc[e] = "select"
  BY DEF Write, FlowInv, TypeOK, appVars, writerVars
<1>2. out[e] \in Seq(Nat) /\ net[e] \in Seq(Nat)
  BY DEF FlowInv, TypeOK
<1>3. Head(out[e]) \in Nat /\ Len(out'[e]) = Len(out[e]) - 1 /\ Len(net'[e]) = Len(net[e]) + 1
  BY <1>1, <1>2, TailRuns
<1>4. UNCHANGED <<Received(e), Passed(e)>> /\ Written(e)' = Written(e) + 1
  <2>1. UNCHANGED <<Received(e), Passed(e)>>
    BY <1>1 DEF Received, Passed
  <2>2. QED
    BY <1>3, <2>1, Lengths DEF Written, FlowInv
<1>5. Flow(e)
  BY DEF FlowInv
<1>6. ASSUME rpc[Other(e)] = "read"
      PROVE  Runs(net'[e], Passed(e)) /\ Runs(out'[e], Written(e) + 1)
  <2>1. Runs(net[e], Passed(e)) /\ Runs(out[e], Written(e))
    BY <1>1, <1>5, <1>6 DEF Flow
  <2>2. Head(out[e]) = Passed(e) + Len(net[e]) + 1 /\ Runs(out'[e], Written(e) + 1)
    BY <1>1, <1>2, <2>1, TailRuns, Lengths DEF Written, FlowInv
  <2>3. QED
    BY <1>1, <1>2, <2>1, <2>2, AppendRuns, Lengths DEF FlowInv
<1>7. Written(e)' + Len(out'[e]) = Written(e) + Len(out[e])
  BY <1>3, <1>4, Lengths DEF FlowInv
<1>8. QED
  BY <1>1, <1>4, <1>5, <1>6, <1>7 DEF Flow, Runs

\* A writer that gives up drops a message, and passes no other on.
LEMMA WriteFailsFlow ==
  ASSUME FlowInv, NEW e \in End, WriteFails(e) PROVE Flow(e)'
<1>1. /\ out'[e] = Tail(out[e]) /\ wpc'[e] = "stopped" /\ out[e] # <<>>
      /\ UNCHANGED <<rpc, net, inn, got, sent>>
  BY DEF WriteFails, FlowInv, TypeOK, appVars
<1>2. Len(out'[e]) = Len(out[e]) - 1
  BY <1>1, TailRuns DEF FlowInv, TypeOK
<1>3. UNCHANGED <<Received(e), Passed(e), Written(e)>>
  BY <1>1 DEF Received, Passed, Written
<1>4. Flow(e)
  BY DEF FlowInv
<1>5. QED
  BY <1>1, <1>2, <1>3, <1>4, Lengths DEF Flow, Runs, FlowInv

LEMMA ReadFlow ==
  ASSUME FlowInv, NEW e \in End, Read(Other(e)) PROVE Flow(e)'
<1> DEFINE o == Other(e)
<1>1. /\ net'[e] = Tail(net[e]) /\ net[e] # <<>> /\ rpc[o] = "read"
      /\ UNCHANGED <<wpc, out, got, sent>>
  BY Ends DEF Read, FlowInv, TypeOK, appVars, writerVars
<1>2. net[e] \in Seq(Nat) /\ inn[o] \in Seq(Nat)
  BY Ends DEF FlowInv, TypeOK
<1>3. Flow(e)
  BY DEF FlowInv
<1>4. /\ Len(net'[e]) = Len(net[e]) - 1
      /\ Head(net[e]) = Passed(e) + 1 /\ Runs(net'[e], Passed(e) + 1)
  BY <1>1, <1>2, <1>3, TailRuns, Lengths DEF Flow, FlowInv
<1>5. Received(e)' = Received(e)
  BY <1>1 DEF Received
<1>6. CASE main[o] = "run"
  <2>1. inn'[o] = Append(inn[o], Received(e) + Len(inn[o]) + 1) /\ rpc'[o] = "read"
    BY <1>1, <1>4, <1>6, Ends DEF Read, Passed, FlowInv, TypeOK
  <2>2. Len(inn'[o]) = Len(inn[o]) + 1 /\ Runs(inn'[o], Received(e))
    <3>1. Runs(inn[o], Received(e)) /\ Received(e) \in Nat
      BY <1>3, Lengths DEF Flow, FlowInv
    <3>2. QED
      BY <1>2, <2>1, <3>1, AppendRuns
  <2>3. Passed(e)' = Passed(e) + 1 /\ Written(e)' = Written(e)
    <3>1. Passed(e)' = Received(e)' + Len(inn'[o]) /\ Written(e)' = Passed(e)' + Len(net'[e])
      BY <1>1 DEF Passed, Written
    <3>2. Passed(e)' = Passed(e) + 1
      BY <1>5, <2>2, <3>1, Lengths DEF Passed, FlowInv
    <3>3. QED
      BY <1>4, <3>1, <3>2, Lengths DEF Written, FlowInv
  <2>4. QED
    BY <1>1, <1>3, <1>4, <1>5, <2>1, <2>2, <2>3 DEF Flow, Runs
<1>7. CASE main[o] # "run"
  <2>1. UNCHANGED inn /\ rpc'[o] = "ended"
    BY <1>1, <1>7, Ends DEF Read, ReaderEnds, FlowInv, TypeOK
  <2>2. Passed(e)' = Passed(e) /\ Written(e)' = Written(e) - 1
    <3>1. Passed(e)' = Passed(e) /\ Written(e)' = Passed(e)' + Len(net'[e])
      BY <1>5, <2>1 DEF Passed, Written
    <3>2. QED
      BY <1>4, <3>1, Lengths DEF Written, FlowInv
  <2>3. QED
    BY <1>1, <1>3, <1>5, <2>1, <2>2, Lengths DEF Flow, Runs, FlowInv
<1>8. QED
  BY <1>6, <1>7

\* What a step does to the messages from end e: one of the moves above, or
\* none.
LEMMA NextFlow ==
  ASSUME FlowInv, [Next]_vars, NEW e \in End PROVE Flow(e)'
<1>1. CASE Put(e) /\ ~WriterGone(e)
  BY <1>1, PutFlow
<1>2. CASE Get(Other(e))
  BY <1>2, GetFlow
<1>3. CASE Write(e) \/ WriteFails(e)
  BY <1>3, WriteFlow, WriteFailsFlow
<1>4. CASE Read(Other(e))
  BY <1>4, ReadFlow
<1> DEFINE Kept == /\ Seen(e)' = Seen(e)
                   /\ wpc'[e] = "select" => wpc[e] = "select"
                   /\ rpc'[Other(e)] = "read" => rpc[Other(e)] = "read"
<1> USE Ends DEF Seen, FlowInv, TypeOK, appVars, writerVars
<1>5. ASSUME NEW f \in End, Put(f), f = e => WriterGone(f) PROVE Kept
  <2>1. CASE WriterGone(f)
    BY <1>5, <2>1 DEF Put, Exit
  <2>2. CASE ~WriterGone(f)
    <3>1. /\ sent' = [sent EXCEPT ![f] = @ + 1]
          /\ out' = [out EXCEPT ![f] = Append(@, sent'[f])]
          /\ UNCHANGED <<wpc, rpc, net, inn, got>>
      BY <1>5, <2>2 DEF Put
    <3>2. QED
      BY <1>5, <2>2, <3>1
  <2>3. QED
    BY <2>1, <2>2
<1>6. ASSUME NEW f \in End, Get(f), f # Other(e) PROVE Kept
  BY <1>6 DEF Get
<1>7. ASSUME NEW f \in End, GetFails(f) \/ Finish(f) PROVE Kept
  BY <1>7 DEF GetFails, Finish, Exit
<1>8. ASSUME NEW f \in End, Signal(f) \/ Join(f) PROVE Kept
  BY <1>8 DEF Signal, Join, Exit
<1>9. ASSUME NEW f \in End, Write(f) \/ WriteFails(f), f # e PROVE Kept
  <2>1. CASE Write(f)
    BY <1>9, <2>1 DEF Write
  <2>2. CASE WriteFails(f)
    BY <1>9, <2>2 DEF WriteFails
  <2>3. QED
    BY <1>9, <2>1, <2>2
<1>10. ASSUME NEW f \in End, UnwrapPanics(f) \/ ShutDown(f) \/ WriterEnds(f) PROVE Kept
  BY <1>10 DEF UnwrapPanics, ShutDown, WriterEnds
<1>11. ASSUME NEW f \in End, Read(f), f # Other(e) PROVE Kept
  <2>1. Other(f) # e
    BY <1>11
  <2>2. CASE main[f] = "run"
    BY <1>11, <2>1, <2>2 DEF Read
  <2>3. CASE main[f] # "run"
    BY <1>11, <2>1, <2>3 DEF Read, ReaderEnds
  <2>4. QED
    BY <2>2, <2>3
<1>12. ASSUME NEW f \in End, ReadFails(f) PROVE Kept
  BY <1>12 DEF ReadFails, ReaderEnds
<1>13. ASSUME UNCHANGED vars PROVE Kept
  <2>1. UNCHANGED <<sent, out, net, inn, got, wpc, rpc>>
    BY <1>13 DEF vars
  <2>2. QED
    BY <2>1
<1>14. Kept => Flow(e)'
  BY FlowKept
<1> HIDE DEF Kept
<1>15. QED
  BY <1>1, <1>2, <1>3, <1>4, <1>5, <1>6, <1>7, <1>8, <1>9, <1>10, <1>11, <1>12,
     <1>13, <1>14 DEF Next, User, Writer, Reader

LEMMA NextFlowInv == FlowInv /\ [Next]_vars => FlowInv'
  BY NextTypeOK, NextFlow DEF FlowInv

-----------------------------------------------------------------------------
(* The theorems.                                                           *)

\* The messages from each end run on from queue to queue, and none is in two
\* of them, whatever fails and whoever shuts down (wrap_tcpstream).
THEOREM Inductive == Spec => []FlowInv
  BY InitFlowInv, NextFlowInv, PTL DEF Spec

\* A message received is the next one that the other end sent.
LEMMA GetIsNext ==
  ASSUME FlowInv, NEW e \in End, Get(e)
  PROVE  Head(inn[e]) = Len(got[e]) + 1 /\ Len(got[e]) < sent[Other(e)]
<1> DEFINE o == Other(e)
<1>1. o \in End /\ Other(o) = e
  BY Ends
<1>2. Flow(o) /\ inn[e] \in Seq(Nat) /\ inn[e] # <<>>
  BY <1>1 DEF FlowInv, TypeOK, Get
<1>3. Received(o) = Len(got[e]) /\ Passed(o) = Received(o) + Len(inn[e])
  BY <1>1 DEF Received, Passed
<1>4. Runs(inn[e], Received(o)) /\ Written(o) + Len(out[o]) <= sent[o]
  BY <1>1, <1>2 DEF Flow
<1>5. /\ Received(o) \in Nat /\ Len(net[o]) \in Nat /\ Len(out[o]) \in Nat
      /\ sent[o] \in Nat /\ Written(o) = Passed(o) + Len(net[o])
  BY <1>1, Lengths DEF FlowInv, Written
<1>6. Len(inn[e]) \in Nat \ {0} /\ Head(inn[e]) = Received(o) + 1
  BY <1>2, <1>4, <1>5, TailRuns
<1>7. Received(o) + Len(inn[e]) + Len(net[o]) + Len(out[o]) <= sent[o]
  BY <1>3, <1>4, <1>5
<1>8. Received(o) < sent[o]
  BY <1>5, <1>6, <1>7
<1>9. QED
  BY <1>3, <1>6, <1>8

\* The connection that wrap_tcpstream makes of a TCP stream delivers messages
\* in order, none twice and none left out, as the channels do that a party is
\* written for and tested with.
THEOREM WrapperImplementsLink == Spec => ImplementsLink
<1>1. Init => L!Init
  BY DEF Init, L!Init, End, L!End
<1>2. FlowInv /\ [Next]_vars => [L!Next]_L!vars
  <2> SUFFICES ASSUME FlowInv, [Next]_vars PROVE L!Next \/ UNCHANGED <<sent, got>>
    BY DEF L!vars
  <2>1. ASSUME NEW e \in End, Put(e) PROVE L!Next \/ UNCHANGED <<sent, got>>
    <3>1. CASE WriterGone(e)
      BY <2>1, <3>1 DEF Put
    <3>2. CASE ~WriterGone(e)
      <4>1. L!Put(e)
        BY <2>1, <3>2 DEF Put, L!Put
      <4>2. QED
        BY <4>1 DEF L!Next, End, L!End
    <3>3. QED
      BY <3>1, <3>2
  <2>2. ASSUME NEW e \in End, Get(e) PROVE L!Next
    <3>1. got' = [got EXCEPT ![e] = Append(@, Len(@) + 1)] /\ UNCHANGED sent
      BY <2>2, GetIsNext DEF Get
    <3>2. Len(got[e]) < sent[Other(e)]
      BY <2>2, GetIsNext
    <3>3. L!Get(e)
      BY <3>1, <3>2 DEF L!Get, Other, L!Other
    <3>4. QED
      BY <3>3 DEF L!Next, End, L!End
  <2>3. ASSUME NEW e \in End, GetFails(e) \/ Finish(e) \/ Signal(e) \/ Join(e)
        PROVE  UNCHANGED <<sent, got>>
    BY <2>3 DEF GetFails, Finish, Signal, Join
  <2>4. ASSUME NEW e \in End, Writer(e) \/ Reader(e) PROVE UNCHANGED <<sent, got>>
    BY <2>4 DEF Writer, Write, WriteFails, UnwrapPanics, ShutDown, WriterEnds,
                Reader, Read, ReadFails, appVars
  <2>5. CASE UNCHANGED vars
    BY <2>5 DEF vars, appVars
  <2>6. QED
    BY <2>1, <2>2, <2>3, <2>4, <2>5 DEF Next, User
<1>3. QED
  BY <1>1, <1>2, Inductive, PTL DEF Spec, ImplementsLink, L!Spec

-----------------------------------------------------------------------------
(* How the threads of one end give up.                                     *)

\* A thread of an end gives up only when the end is over or the other one has
\* shut the stream down; the reader, while it has a user, only when it has
\* read everything or the writer has given up before it.
Ending(e) ==
  /\ shut[e] \/ wpc[e] # "select" \/ rpc[e] = "ended" =>
       main[e] # "run" \/ shut[Other(e)]
  /\ signal[e] = 1 => main[e] # "run"
  /\ shut[e] /\ main[e] = "run" => wpc[e] # "select" \/ rpc[e] = "ended"
  /\ rpc[e] = "ended" /\ main[e] = "run" =>
       wpc[e] # "select" \/ (shut[Other(e)] /\ net[Other(e)] = <<>>)

EInv == \A e \in End : Ending(e)

LEMMA InitEnding == Init => EInv
  BY Ends DEF Init, EInv, Ending

\* Once an end is over, whatever else its threads do.
LEMMA OverEnding ==
  ASSUME NEW e \in End, main'[e] # "run" PROVE Ending(e)'
  BY DEF Ending

LEMMA KeptEnding ==
  ASSUME NEW e \in End, Ending(e), main'[e] = main[e],
         wpc'[e] = wpc[e], rpc'[e] = rpc[e], shut'[e] = shut[e],
         signal'[e] = signal[e], shut[Other(e)] => shut'[Other(e)],
         shut[Other(e)] /\ net[Other(e)] = <<>> => net'[Other(e)] = <<>>
  PROVE  Ending(e)'
  BY DEF Ending

LEMMA NextEnding ==
  ASSUME TypeOK, EInv, [Next]_vars
  PROVE  EInv'
<1> USE Ends DEF EInv, TypeOK, Exited, appVars, writerVars
<1>1. ASSUME NEW e \in End, Put(e) \/ GetFails(e) \/ Signal(e) \/ Join(e), NEW x \in End
      PROVE  Ending(x)'
  <2>1. /\ UNCHANGED net
        /\ \/ UNCHANGED <<main, wpc, rpc, shut, signal>>
           \/ main'[e] # "run"
    BY <1>1 DEF Put, GetFails, Signal, Join, Exit
  <2>2. \A y \in End : shut[y] => shut'[y]
    BY <1>1 DEF Put, GetFails, Signal, Join, Exit
  <2>3. CASE x = e
    BY <2>1, <2>2, <2>3, OverEnding, KeptEnding
  <2>4. CASE x # e
    <3>1. /\ main'[x] = main[x] /\ wpc'[x] = wpc[x] /\ rpc'[x] = rpc[x]
          /\ shut'[x] = shut[x] /\ signal'[x] = signal[x]
      BY <1>1, <2>4 DEF Put, GetFails, Signal, Join, Exit
    <3>2. QED
      BY <2>1, <2>2, <3>1, KeptEnding
  <2>5. QED
    BY <2>3, <2>4
<1>2. ASSUME NEW e \in End, Get(e) \/ Finish(e), NEW x \in End PROVE Ending(x)'
  <2>1. /\ UNCHANGED <<wpc, rpc, shut, signal, net>>
        /\ main'[x] = main[x] \/ main'[x] # "run"
    BY <1>2 DEF Get, Finish
  <2>2. QED
    BY <2>1, OverEnding, KeptEnding
<1>3. ASSUME NEW e \in End, Write(e), NEW x \in End PROVE Ending(x)'
  <2>1. /\ UNCHANGED <<main, wpc, rpc, shut, signal>> /\ ~shut[e]
        /\ \A y \in End : y # e => net'[y] = net[y]
    BY <1>3 DEF Write
  <2>2. QED
    BY <2>1, KeptEnding
<1>4. ASSUME NEW e \in End, WriteFails(e), NEW x \in End PROVE Ending(x)'
  <2>1. /\ UNCHANGED <<main, rpc, signal, net>> /\ wpc'[e] = "stopped"
        /\ shut' = [shut EXCEPT ![e] = TRUE]
        /\ \A y \in End : y # e => wpc'[y] = wpc[y]
    BY <1>4 DEF WriteFails
  <2>2. /\ shut'[e] /\ \A y \in End : y # e => shut'[y] = shut[y]
    BY <2>1
  <2>3. Ending(e)'
    <3>1. shut[e] \/ shut[Other(e)]
      BY <1>4 DEF WriteFails, End
    <3>2. main[e] # "run" \/ shut[Other(e)]
      BY <3>1 DEF Ending
    <3>3. Other(e) # e
      BY DEF End, Other
    <3>4. QED
      BY <2>1, <2>2, <3>2, <3>3 DEF Ending
  <2>4. CASE x # e
    BY <2>1, <2>2, <2>4, KeptEnding
  <2>5. QED
    BY <2>3, <2>4
<1>5. ASSUME NEW e \in End, UnwrapPanics(e) \/ ShutDown(e), NEW x \in End PROVE Ending(x)'
  <2>1. main[e] # "run" /\ UNCHANGED <<main, rpc, net>>
    <3>1. CASE UnwrapPanics(e)
      BY <3>1 DEF UnwrapPanics
    <3>2. CASE ShutDown(e)
      BY <3>2 DEF ShutDown, Ending
    <3>3. QED
      BY <1>5, <3>1, <3>2
  <2>2. \A y \in End : y # e => shut'[y] = shut[y] /\ wpc'[y] = wpc[y] /\ signal'[y] = signal[y]
    BY <1>5 DEF UnwrapPanics, ShutDown
  <2>3. \A y \in End : shut[y] => shut'[y]
    <3>1. shut' = shut \/ shut' = [shut EXCEPT ![e] = TRUE]
      BY <1>5 DEF UnwrapPanics, ShutDown
    <3>2. QED
      BY <3>1
  <2>4. QED
    BY <2>1, <2>2, <2>3, OverEnding, KeptEnding
<1>6. ASSUME NEW e \in End, WriterEnds(e), NEW x \in End PROVE Ending(x)'
  <2>1. /\ UNCHANGED <<main, rpc, signal, shut, net>>
        /\ wpc'[x] = wpc[x] \/ (wpc[x] = "stopped" /\ wpc'[x] = "ended")
    BY <1>6 DEF WriterEnds
  <2>2. QED
    BY <2>1 DEF Ending
<1>7. ASSUME NEW e \in End, Read(e) \/ ReadFails(e), NEW x \in End PROVE Ending(x)'
  <2>1. /\ UNCHANGED <<main, wpc, signal>>
        /\ \A y \in End : y # e => shut'[y] = shut[y] /\ rpc'[y] = rpc[y]
        /\ \A y \in End : shut[y] => shut'[y]
        /\ \A y \in End : net[y] = <<>> => net'[y] = <<>>
    <3>1. CASE Read(e)
      <4>1. \A y \in End : net'[y] = net[y] \/ net[y] # <<>>
        BY <3>1 DEF Read
      <4>2. QED
        BY <3>1, <4>1 DEF Read, ReaderEnds
    <3>2. CASE ReadFails(e)
      BY <3>2 DEF ReadFails, ReaderEnds
    <3>3. QED
      BY <1>7, <3>1, <3>2
  <2>2. CASE x # e
    BY <2>1, <2>2, KeptEnding
  <2>3. CASE x = e /\ main[e] # "run"
    BY <2>1, <2>3, OverEnding
  <2>4. CASE x = e /\ main[e] = "run" /\ Read(e)
    <3>1. shut'[e] = shut[e] /\ rpc'[e] = rpc[e]
      BY <2>4 DEF Read
    <3>2. QED
      BY <2>1, <2>4, <3>1, KeptEnding
  <2>5. CASE x = e /\ main[e] = "run" /\ ReadFails(e)
    <3>1. /\ shut[e] \/ (shut[Other(e)] /\ net[Other(e)] = <<>>)
          /\ rpc[e] = "read" /\ rpc'[e] = "ended" /\ UNCHANGED net
      BY <2>5 DEF ReadFails, ReaderEnds, EndOfStream
    <3>2. QED
      BY <2>1, <2>5, <3>1 DEF Ending
  <2>6. QED
    BY <1>7, <2>2, <2>3, <2>4, <2>5
<1>8. CASE UNCHANGED vars
  BY <1>8, KeptEnding DEF vars
<1>9. QED
  BY <1>1, <1>2, <1>3, <1>4, <1>5, <1>6, <1>7, <1>8 DEF Next, User, Writer, Reader

LEMMA EndingInvariant == Spec => []EInv
<1>1. FlowInv => TypeOK
  BY DEF FlowInv
<1>2. QED
  BY <1>1, InitEnding, NextEnding, Inductive, PTL DEF Spec

\* The writer loses nothing for a thread that still runs, to an end that still
\* reads.
THEOREM LossHolds == Spec => []LossOnlyAtTheEnd
<1>1. EInv => LossOnlyAtTheEnd
  BY DEF EInv, Ending, LossOnlyAtTheEnd
<1>2. QED
  BY <1>1, EndingInvariant, PTL

\* The reader gives up on a thread that still runs only when nothing is left
\* to read, or after the writer of the same end.
THEOREM DrainHolds == Spec => []ReaderDrains
<1>1. EInv => ReaderDrains
  BY DEF EInv, Ending, ReaderDrains
<1>2. QED
  BY <1>1, EndingInvariant, PTL
=============================================================================
