------------------------------ MODULE Shutdown -------------------------------
(***************************************************************************)
(* The end of a deployment (io.rs): N nodes and the synchronizer, with a   *)
(* wrapped TCP stream between any two of them.  The parties are in the     *)
(* last exchange of their last MAC check: each sends an Opening to every   *)
(* other, waits for theirs, and reports Done to the synchronizer.  A       *)
(* process whose computation is over shuts its connections down while      *)
(* others may still wait for what it sent last.                            *)
(*                                                                         *)
(* Of each connection this keeps what TcpWrap shows to matter: where the   *)
(* last message is in each direction, which writers run, and which ends    *)
(* have shut the stream down.  A reader has ended when its end has been    *)
(* shut down; that all threads of a wrapper then end is TcpWrap's Exits.   *)
(***************************************************************************)
EXTENDS Integers, FiniteSets

CONSTANT N    \* the number of nodes

Node == 0 .. N - 1
Sync == N
Process == Node \cup {Sync}
Others(p) == Process \ {p}
Peers(p) == Node \ {p}

ASSUME ShutdownAssumption == N \in Nat \ {0}

VARIABLES
  main,       \* where each process is: its party (or Synchronizer) is in
              \* "send" or "collect"; then the process is in "close", "last"
              \* (a node that has closed the connections to its peers), or out
  succeeded,  \* history: the processes whose computation has returned Ok
  mail,       \* mail[p][q]: where the last message from p to q is
  writer,     \* writer[p][q]: the writer of p's end of its connection to q
  signalled,  \* signalled[p]: where p's main has sent the shutdown signal
  shut,       \* shut[p]: the connections p's end of which is shut down
  late        \* whether a timeout may expire although the message will come

vars == <<main, succeeded, mail, writer, signalled, shut, late>>

Init ==
  /\ main = [p \in Process |-> IF p = Sync THEN "collect" ELSE "send"]
  /\ succeeded = {}
  /\ mail = [p \in Process |-> [q \in Others(p) |-> "none"]]
  /\ writer = [p \in Process |-> [q \in Others(p) |-> "select"]]
  /\ signalled = [p \in Process |-> {}]
  /\ shut = [p \in Process |-> {}]
  /\ late \in BOOLEAN

Exited(p) == main[p] \in {"ok", "err", "panic"}
Computing(p) == main[p] \in {"send", "collect"}

Mail(p, q, place) == mail' = [mail EXCEPT ![p][q] = place]

\* The process ends, and with it its threads and its ends of the streams; what
\* its writers still hold is lost.
Exit(p, how) ==
  /\ main' = [main EXCEPT ![p] = how]
  /\ shut' = [shut EXCEPT ![p] = Others(p)]
  /\ mail' = [mail EXCEPT ![p] = [q \in Others(p) |->
                IF @[q] = "queued" THEN "lost" ELSE @[q]]]
  /\ UNCHANGED <<writer, signalled, late>>

(* A definition named X_Y is X with a mistake Y: it is no part of the      *)
(* specification, and stands before the definition it is a variant of.     *)

-----------------------------------------------------------------------------
(* The computation.                                                        *)

\* bcast(Opening), and the wait for the others' begins.
SendOpenings(p) ==
  /\ main[p] = "send"
  /\ main' = [main EXCEPT ![p] = "collect"]
  /\ mail' = [mail EXCEPT ![p] = [q \in Others(p) |->
                IF q = Sync THEN @[q] ELSE "queued"]]
  /\ UNCHANGED <<succeeded, writer, signalled, shut, late>>

\* What is being waited for: Openings by a node, Dones by the synchronizer.
Awaited_FromOne(p) == {CHOOSE q \in Peers(p) : TRUE}
Awaited(p) == Peers(p)

\* Everything has come: a node reports Done, and the thread returns Ok, which
\* drops its ends of all channels.
Succeed(p) ==
  /\ main[p] = "collect"
  /\ \A q \in Awaited(p) : mail[q][p] = "passed"
  /\ main' = [main EXCEPT ![p] = "close"]
  /\ succeeded' = succeeded \cup {p}
  /\ IF p = Sync THEN UNCHANGED mail ELSE Mail(p, Sync, "queued")
  /\ UNCHANGED <<writer, signalled, shut, late>>

\* A recv_timeout expires, or finds the reader gone; the error ends the
\* process.  When timeouts are timely, they expire for lost messages only.
NeverComes(q, p) == mail[q][p] = "lost" \/ (mail[q][p] = "none" /\ Exited(q))

Fail(p) ==
  /\ main[p] = "collect"
  /\ \E q \in Awaited(p) :
       /\ mail[q][p] # "passed"
       /\ late \/ NeverComes(q, p)
  /\ Exit(p, "err")
  /\ UNCHANGED succeeded

-----------------------------------------------------------------------------
(* The threads of p's end of its connection to q.                          *)

Running(p, q) == ~Exited(p) /\ writer[p][q] = "select"

Write(p, q) ==
  /\ Running(p, q)
  /\ mail[p][q] = "queued"
  /\ q \notin shut[p]
  /\ Mail(p, q, "sent")
  /\ UNCHANGED <<main, succeeded, writer, signalled, shut, late>>

\* The writer stops, on the signal or because a write has failed, and shuts
\* the stream down.
Stop_KeepsStream(p, q) ==
  /\ writer' = [writer EXCEPT ![p][q] = "stopped"]
  /\ IF mail[p][q] = "queued" THEN Mail(p, q, "lost") ELSE UNCHANGED mail
  /\ UNCHANGED <<main, succeeded, signalled, shut, late>>

Stop(p, q) ==
  /\ writer' = [writer EXCEPT ![p][q] = "stopped"]
  /\ shut' = [shut EXCEPT ![p] = @ \cup {q}]
  /\ IF mail[p][q] = "queued" THEN Mail(p, q, "lost") ELSE UNCHANGED mail
  /\ UNCHANGED <<main, succeeded, signalled, late>>

WriteFails(p, q) ==
  /\ Running(p, q)
  /\ mail[p][q] = "queued"
  /\ q \in shut[p] \/ p \in shut[q]
  /\ Stop(p, q)

TakeSignal_Anytime(p, q) == Running(p, q) /\ Stop(p, q)
TakeSignal(p, q) ==
  /\ Running(p, q)
  /\ q \in signalled[p]
  /\ Stop(p, q)

\* msg_res.unwrap()
UnwrapPanics(p, q) ==
  /\ Running(p, q)
  /\ ~Computing(p)
  /\ mail[p][q] # "queued"
  /\ writer' = [writer EXCEPT ![p][q] = "panic"]
  /\ UNCHANGED <<main, succeeded, mail, signalled, shut, late>>

\* The reader passes a message on, or ends for want of somebody to take it.
Read(p, q) ==
  /\ ~Exited(p)
  /\ mail[q][p] = "sent"
  /\ IF Computing(p)
     THEN Mail(q, p, "passed") /\ UNCHANGED shut
     ELSE Mail(q, p, "lost") /\ shut' = [shut EXCEPT ![p] = @ \cup {q}]
  /\ UNCHANGED <<main, succeeded, writer, signalled, late>>

\* It ends with the stream, when all has been read; at an end that has been
\* shut down, what has arrived may stay unread.
ReaderEnds(p, q) ==
  /\ ~Exited(p)
  /\ \/ /\ q \notin shut[p] /\ p \in shut[q]
        /\ mail[q][p] # "sent"
        /\ UNCHANGED mail
     \/ /\ q \in shut[p]
        /\ mail[q][p] = "sent"
        /\ Mail(q, p, "lost")
  /\ shut' = [shut EXCEPT ![p] = @ \cup {q}]
  /\ UNCHANGED <<main, succeeded, writer, signalled, late>>

-----------------------------------------------------------------------------
(* The main functions, once the computation is over: online_node_main      *)
(* closes the connections to its peers and then the one to the             *)
(* synchronizer, synchronizer_main all of its connections.  The connection *)
(* to fake_prep, which a node closes in between, is left out: its sender   *)
(* stays in scope, and nobody waits for anything that is sent on it.       *)

Closing(p) ==
  CASE main[p] = "close" -> Peers(p)
    [] main[p] = "last" -> {Sync}
    [] OTHER -> {}

\* chan.send(())?, an error once the wrapper is gone: it has panicked, or it
\* could not write and both its threads have ended.
Signal(p, q) ==
  /\ q \in Closing(p) \ signalled[p]
  /\ \/ writer[p][q] # "select" /\ Exit(p, "err")
     \/ /\ writer[p][q] # "panic"
        /\ signalled' = [signalled EXCEPT ![p] = @ \cup {q}]
        /\ UNCHANGED <<main, mail, writer, shut, late>>
  /\ UNCHANGED succeeded

\* h.join().unwrap() for all of them: a wrapper has ended when its writer has
\* and the stream is shut down, so that its reader has, too.
Joined(p, q) == writer[p][q] = "stopped" /\ q \in shut[p]

Join(p) ==
  /\ ~Computing(p) /\ ~Exited(p)
  /\ Closing(p) \subseteq signalled[p]
  /\ \A q \in Closing(p) : Joined(p, q)
  /\ IF main[p] = "close" /\ p # Sync
     THEN /\ main' = [main EXCEPT ![p] = "last"]
          /\ UNCHANGED <<mail, writer, signalled, shut, late>>
     ELSE Exit(p, "ok")
  /\ UNCHANGED succeeded

JoinPanics(p) ==
  /\ Closing(p) \subseteq signalled[p]
  /\ \E q \in Closing(p) : writer[p][q] = "panic"
  /\ Exit(p, "panic")
  /\ UNCHANGED succeeded

-----------------------------------------------------------------------------
MainThread(p) ==
  \/ SendOpenings(p) \/ Succeed(p) \/ Fail(p) \/ Join(p) \/ JoinPanics(p)
  \/ \E q \in Others(p) : Signal(p, q)

Writer(p, q) ==
  Write(p, q) \/ WriteFails(p, q) \/ TakeSignal(p, q) \/ UnwrapPanics(p, q)

Reader(p, q) == Read(p, q) \/ ReaderEnds(p, q)

AllExited == \A p \in Process : Exited(p)

Next ==
  \/ \E p \in Process :
       MainThread(p) \/ \E q \in Others(p) : Writer(p, q) \/ Reader(p, q)
  \/ AllExited /\ UNCHANGED vars

\* Threads run, and the operating system delivers what was written.
Fairness == \A p \in Process :
  /\ WF_vars(MainThread(p))
  /\ \A q \in Others(p) : WF_vars(Writer(p, q)) /\ WF_vars(Reader(p, q))

Spec == Init /\ [][Next]_vars
LiveSpec == Spec /\ Fairness

-----------------------------------------------------------------------------
(* Properties.                                                             *)

\* When the synchronizer's computation has succeeded, so has that of every
\* node: nobody that still needs a message is left behind.
DoneMeansDone == Sync \in succeeded => Node \subseteq succeeded

\* The price of ending early: while timeouts are timely, a computation fails,
\* and others with it, only because somebody that had already succeeded shut
\* down before its last message was written.
FailsOnlyForTheEarly ==
  ~late /\ (\E p \in Process \ succeeded : main[p] = "err") =>
    \E p \in Process \ succeeded : \E q \in Awaited(p) \cap succeeded :
      mail[q][p] = "lost"

\* All processes exit: no join waits for a thread that waits for another
\* process's join.
AllExit == <>AllExited
=============================================================================
