------------------------------ MODULE TcpWrap -------------------------------
(***************************************************************************)
(* Two processes joined by a TCP stream that each wraps in channels        *)
(* (wrap_tcpstream in io.rs): at each end a reader and a writer thread, the *)
(* thread that uses the channels (a party or the synchronizer), and the    *)
(* main function that waits for it and shuts the wrapper down              *)
(* (online_node_main, synchronizer_main).                                  *)
(*                                                                         *)
(* Each end sends K messages and receives K, in any order.  Channels never *)
(* fill up: they hold 1000 messages, and the protocol is never more than   *)
(* two ahead (PeerBound and ChannelBound).                                 *)
(***************************************************************************)
EXTENDS Integers, Sequences

CONSTANT K
ASSUME TcpAssumption == K \in Nat \ {0}

End == {0, 1}
Other(e) == 1 - e

VARIABLES
  main,     \* main[e]: "run" while the thread that uses the channels runs,
            \* "over" once it has returned Ok, "join" once the wrapper has been
            \* told to shut down, then how the process has exited
  sent,     \* the number of messages sent
  out,      \* the channel to the writer (writer_s, writer_r)
  signal,   \* the messages in the shutdown channel
  wpc,      \* where the writer is; "stopped": it waits for the reader to end
  net,      \* net[e]: what end e has written and the other has not read
  shut,     \* shut[e]: end e has shut down the stream
  rpc,      \* where the reader is
  inn,      \* the channel from the reader (reader_s, reader_r)
  got       \* the messages received, in order

appVars == <<main, sent, got>>
writerVars == <<wpc, signal>>
vars == <<appVars, writerVars, out, net, shut, rpc, inn>>

Init ==
  /\ main = [e \in End |-> "run"]
  /\ sent = [e \in End |-> 0]
  /\ out = [e \in End |-> <<>>]
  /\ signal = [e \in End |-> 0]
  /\ wpc = [e \in End |-> "select"]
  /\ net = [e \in End |-> <<>>]
  /\ shut = [e \in End |-> FALSE]
  /\ rpc = [e \in End |-> "read"]
  /\ inn = [e \in End |-> <<>>]
  /\ got = [e \in End |-> <<>>]

Exited == {"ok", "err", "panic"}

(* A definition named X_Y is X with a mistake Y: it is no part of the      *)
(* specification, and stands before the definition it is a variant of.     *)

\* The writer's thread holds its ends of the channels until it returns.
WriterGone(e) == wpc[e] \in {"panic", "ended"}

-----------------------------------------------------------------------------
(* The thread that uses the channels, and the main function.               *)

\* The process ends: its threads with it, and its end of the stream.
Exit(e, how) ==
  /\ main' = [main EXCEPT ![e] = how]
  /\ wpc' = [wpc EXCEPT ![e] = IF @ = "panic" THEN @ ELSE "ended"]
  /\ rpc' = [rpc EXCEPT ![e] = "ended"]
  /\ shut' = [shut EXCEPT ![e] = TRUE]

Put(e) ==
  /\ main[e] = "run"
  /\ sent[e] < K
  /\ IF WriterGone(e)
     THEN Exit(e, "err") /\ UNCHANGED <<sent, out>>
     ELSE /\ sent' = [sent EXCEPT ![e] = @ + 1]
          /\ out' = [out EXCEPT ![e] = Append(@, sent'[e])]
          /\ UNCHANGED <<main, wpc, rpc, shut>>
  /\ UNCHANGED <<got, signal, net, inn>>

Get(e) ==
  /\ main[e] = "run"
  /\ inn[e] # <<>>
  /\ got' = [got EXCEPT ![e] = Append(@, Head(inn[e]))]
  /\ inn' = [inn EXCEPT ![e] = Tail(@)]
  /\ UNCHANGED <<main, sent, writerVars, out, net, shut, rpc>>

\* A receive that expires, or finds the reader gone: the thread returns an
\* error, and so does main, leaving everything behind.
GetFails(e) ==
  /\ main[e] = "run"
  /\ Len(got[e]) < K
  /\ inn[e] = <<>>
  /\ Exit(e, "err")
  /\ UNCHANGED <<sent, got, signal, out, net, inn>>

\* The thread returns Ok, which drops its ends of the channels.
Finish(e) ==
  /\ main[e] = "run"
  /\ sent[e] = K
  /\ Len(got[e]) = K
  /\ main' = [main EXCEPT ![e] = "over"]
  /\ UNCHANGED <<sent, got, writerVars, out, net, shut, rpc, inn>>

Signal(e) ==
  /\ main[e] = "over"
  /\ IF WriterGone(e)
     THEN Exit(e, "err") /\ UNCHANGED signal
     ELSE /\ signal' = [signal EXCEPT ![e] = 1]
          /\ main' = [main EXCEPT ![e] = "join"]
          /\ UNCHANGED <<wpc, rpc, shut>>
  /\ UNCHANGED <<sent, got, out, net, inn>>

\* h.join().unwrap()
Join(e) ==
  /\ main[e] = "join"
  /\ WriterGone(e)
  /\ Exit(e, IF wpc[e] = "panic" THEN "panic" ELSE "ok")
  /\ UNCHANGED <<sent, got, signal, out, net, inn>>

-----------------------------------------------------------------------------
(* The writer: select! picks any channel that is ready.                    *)

\* Write the next message, unless this end has shut the stream down.
Write_Peek(e) ==
  /\ wpc[e] = "select"
  /\ out[e] # <<>>
  /\ ~shut[e]
  /\ net' = [net EXCEPT ![e] = Append(@, Head(out[e]))]
  /\ UNCHANGED <<appVars, writerVars, out, shut, rpc, inn>>

Write(e) ==
  /\ wpc[e] = "select"
  /\ out[e] # <<>>
  /\ ~shut[e]
  /\ out' = [out EXCEPT ![e] = Tail(@)]
  /\ net' = [net EXCEPT ![e] = Append(@, Head(out[e]))]
  /\ UNCHANGED <<appVars, writerVars, shut, rpc, inn>>

\* A write may fail once either end has shut the stream down.
WriteFails(e) ==
  /\ wpc[e] = "select"
  /\ out[e] # <<>>
  /\ shut[0] \/ shut[1]
  /\ out' = [out EXCEPT ![e] = Tail(@)]
  /\ shut' = [shut EXCEPT ![e] = TRUE]
  /\ wpc' = [wpc EXCEPT ![e] = "stopped"]
  /\ UNCHANGED <<appVars, signal, net, rpc, inn>>

\* msg_res.unwrap(): the channel is empty and nobody holds its other end.
UnwrapPanics(e) ==
  /\ wpc[e] = "select"
  /\ out[e] = <<>>
  /\ main[e] \in {"over", "join"}
  /\ wpc' = [wpc EXCEPT ![e] = "panic"]
  /\ UNCHANGED <<appVars, signal, out, net, shut, rpc, inn>>

ShutDown_WhenIdle(e) ==
  /\ wpc[e] = "select"
  /\ signal[e] = 1 \/ out[e] = <<>>
  /\ shut' = [shut EXCEPT ![e] = TRUE]
  /\ wpc' = [wpc EXCEPT ![e] = "stopped"]
  /\ UNCHANGED <<appVars, signal, out, net, rpc, inn>>

ShutDown_KeepsStream(e) ==
  /\ wpc[e] = "select"
  /\ signal[e] = 1
  /\ signal' = [signal EXCEPT ![e] = 0]
  /\ wpc' = [wpc EXCEPT ![e] = "stopped"]
  /\ UNCHANGED <<appVars, out, net, shut, rpc, inn>>

ShutDown(e) ==
  /\ wpc[e] = "select"
  /\ signal[e] = 1
  /\ signal' = [signal EXCEPT ![e] = 0]
  /\ shut' = [shut EXCEPT ![e] = TRUE]
  /\ wpc' = [wpc EXCEPT ![e] = "stopped"]
  /\ UNCHANGED <<appVars, out, net, rpc, inn>>

\* read_hdl.join()
WriterEnds(e) ==
  /\ wpc[e] = "stopped"
  /\ rpc[e] = "ended"
  /\ wpc' = [wpc EXCEPT ![e] = "ended"]
  /\ UNCHANGED <<appVars, signal, out, net, shut, rpc, inn>>

-----------------------------------------------------------------------------
(* The reader.                                                             *)

ReaderEnds(e) ==
  /\ rpc' = [rpc EXCEPT ![e] = "ended"]
  /\ shut' = [shut EXCEPT ![e] = TRUE]

\* Read a message and pass it on, if there is still somebody to receive it.
Read(e) ==
  /\ rpc[e] = "read"
  /\ net[Other(e)] # <<>>
  /\ net' = [net EXCEPT ![Other(e)] = Tail(@)]
  /\ IF main[e] = "run"
     THEN /\ inn' = [inn EXCEPT ![e] = Append(@, Head(net[Other(e)]))]
          /\ UNCHANGED <<rpc, shut>>
     ELSE ReaderEnds(e) /\ UNCHANGED inn
  /\ UNCHANGED <<appVars, writerVars, out>>

\* The stream ends: the other end has shut it down and all that was written
\* before has been read, or this end has shut it down itself (what has arrived
\* by then may or may not be read).
EndOfStream_NotDrained(e) == shut[e] \/ shut[Other(e)]
EndOfStream(e) == shut[e] \/ (shut[Other(e)] /\ net[Other(e)] = <<>>)

ReadFails(e) ==
  /\ rpc[e] = "read"
  /\ EndOfStream(e)
  /\ ReaderEnds(e)
  /\ UNCHANGED <<appVars, writerVars, out, net, inn>>

-----------------------------------------------------------------------------
User(e) == Put(e) \/ Get(e) \/ GetFails(e) \/ Finish(e) \/ Signal(e) \/ Join(e)
Writer(e) == Write(e) \/ WriteFails(e) \/ UnwrapPanics(e) \/ ShutDown(e) \/ WriterEnds(e)
Reader(e) == Read(e) \/ ReadFails(e)

AllExited == \A e \in End : main[e] \in Exited

Next == \/ \E e \in End : User(e) \/ Writer(e) \/ Reader(e)
        \/ AllExited /\ UNCHANGED vars

\* Threads run, and the operating system delivers what was written.
Fairness == \A e \in End :
  WF_vars(User(e)) /\ WF_vars(Writer(e)) /\ WF_vars(Reader(e))

Spec == Init /\ [][Next]_vars
LiveSpec == Spec /\ Fairness

-----------------------------------------------------------------------------
(* Properties.                                                             *)

TypeOK ==
  /\ main \in [End -> {"run", "over", "join"} \cup Exited]
  /\ wpc \in [End -> {"select", "stopped", "panic", "ended"}]
  /\ rpc \in [End -> {"read", "ended"}]
  /\ shut \in [End -> BOOLEAN]
  /\ signal \in [End -> {0, 1}]
  /\ sent \in [End -> 0 .. K]
  /\ out \in [End -> Seq(Nat)] /\ net \in [End -> Seq(Nat)]
  /\ inn \in [End -> Seq(Nat)] /\ got \in [End -> Seq(Nat)]

\* The messages from end e, numbered 1 to sent[e], are spread over what the
\* other end has received, its reader's channel, the stream and the writer's
\* channel, in this order.  The numbers run on from one to the next until a
\* reader or a writer has given up (wrap_tcpstream): what that one had in hand
\* is lost, and what is still behind it never gets any further.  This is the
\* inductive invariant behind ImplementsLink (TcpWrapProofs).
Runs(s, n) == \A i \in 1 .. Len(s) : s[i] = n + i

Received(e) == Len(got[Other(e)])
Passed(e) == Received(e) + Len(inn[Other(e)])
Written(e) == Passed(e) + Len(net[e])

Flow(e) ==
  /\ Runs(inn[Other(e)], Received(e))
  /\ rpc[Other(e)] = "read" => Runs(net[e], Passed(e))
  /\ rpc[Other(e)] = "read" /\ wpc[e] = "select" =>
       Runs(out[e], Written(e)) /\ Written(e) + Len(out[e]) = sent[e]
  /\ Written(e) + Len(out[e]) <= sent[e]

FlowInv == TypeOK /\ \A e \in End : Flow(e)

\* The wrapped stream is the connection the protocol assumes: Lockstep and
\* Mpc's channels.
L == INSTANCE Link
ImplementsLink == L!Spec

\* The writer drops a message that it was given only if the thread that gave
\* it has ended, or the other end is no longer reading.
LossOnlyAtTheEnd == \A e \in End :
  wpc[e] # "select" /\ out[e] # <<>> =>
    main[e] # "run" \/ shut[Other(e)]

\* The reader does not give up on a thread that is still receiving before all
\* that the other end wrote has been passed on, unless its own writer has
\* failed and shut the stream down.
ReaderDrains == \A e \in End :
  rpc[e] = "ended" /\ main[e] = "run" =>
    net[Other(e)] = <<>> \/ wpc[e] # "select"

\* Both processes exit, whichever end finishes, fails or shuts down first.
Exits == <>AllExited

\* A process whose computation has succeeded returns its result: the wrapper's
\* threads do not panic (h.join().unwrap()), and they take the shutdown signal.
ResultIsReturned == [][\A e \in End :
  main[e] \in {"over", "join"} => main'[e] \notin {"err", "panic"}]_vars
=============================================================================
