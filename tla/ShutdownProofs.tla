--------------------------- MODULE ShutdownProofs ---------------------------
(***************************************************************************)
(* For any number of nodes: the synchronizer is not done before every node *)
(* is.  A Done is on its way from a node to the synchronizer only when the *)
(* computation of the node has succeeded.  And while timeouts are timely,  *)
(* computations fail only for messages that somebody who had succeeded did *)
(* not wait to have written.                                               *)
(***************************************************************************)
EXTENDS Shutdown, TLAPS

MailShape == mail = [p \in Process |-> [q \in Others(p) |-> mail[p][q]]]

DoneIsReported == \A n \in Node : mail[n][Sync] # "none" => n \in succeeded

DInv == MailShape /\ DoneIsReported /\ DoneMeansDone

LEMMA Processes ==
  /\ Sync \in Process /\ Sync \notin Node
  /\ \A n \in Node : n \in Process /\ Sync \in Others(n)
  BY ShutdownAssumption DEF Process, Others, Sync, Node

\* One message moves.
LEMMA MailMoves ==
  ASSUME NEW p \in Process, NEW q \in Others(p), NEW place, MailShape, Mail(p, q, place)
  PROVE  /\ MailShape'
         /\ \A a \in Process : \A b \in Others(a) :
              mail'[a][b] = IF a = p /\ b = q THEN place ELSE mail[a][b]
  BY DEF MailShape, Mail

\* All messages of one process do.
LEMMA MailsMove ==
  ASSUME NEW p \in Process, NEW f, MailShape,
         mail' = [mail EXCEPT ![p] = [q \in Others(p) |-> f[q]]]
  PROVE  /\ MailShape'
         /\ \A a \in Process : \A b \in Others(a) :
              mail'[a][b] = IF a = p THEN f[b] ELSE mail[a][b]
  BY DEF MailShape

LEMMA ExitMail ==
  ASSUME NEW p \in Process, NEW how, MailShape, Exit(p, how)
  PROVE  /\ MailShape'
         /\ \A a \in Process : \A b \in Others(a) :
              mail'[a][b] # "none" => mail[a][b] # "none"
<1> DEFINE f == [q \in Others(p) |-> IF mail[p][q] = "queued" THEN "lost" ELSE mail[p][q]]
<1>1. mail' = [mail EXCEPT ![p] = [q \in Others(p) |-> f[q]]]
  BY DEF Exit
<1>2. /\ MailShape'
      /\ \A a \in Process : \A b \in Others(a) :
           mail'[a][b] = IF a = p THEN f[b] ELSE mail[a][b]
  <2> HIDE DEF f
  <2>1. QED
    BY <1>1, MailsMove
<1>3. QED
  BY <1>2

\* What no step does: report Done for a node that is not.
Honest ==
  /\ MailShape'
  /\ succeeded \subseteq succeeded'
  /\ \A n \in Node : mail'[n][Sync] # "none" => mail[n][Sync] # "none" \/ n \in succeeded'

Silent == Honest /\ succeeded' = succeeded

LEMMA SucceedHonest ==
  ASSUME NEW p \in Process, DInv, Succeed(p)
  PROVE  Honest /\ (Sync \in succeeded' => Sync \in succeeded \/ Node \subseteq succeeded)
<1> USE Processes DEF DInv
<1>1. CASE p = Sync
  <2>1. Node \subseteq succeeded
    BY <1>1 DEF Succeed, Awaited, Peers, DoneIsReported
  <2>2. QED
    BY <1>1, <2>1 DEF Succeed, Honest, MailShape
<1>2. CASE p # Sync
  <2>1. p \in Node /\ Mail(p, Sync, "queued") /\ succeeded' = succeeded \cup {p}
    BY <1>2 DEF Succeed, Process
  <2>2. QED
    BY <2>1, MailMoves DEF Honest
<1>3. QED
  BY <1>1, <1>2

LEMMA MainThreadHonest ==
  ASSUME NEW p \in Process, DInv, MainThread(p)
  PROVE  Silent \/ Succeed(p)
<1> USE Processes DEF DInv
<1>1. CASE SendOpenings(p)
  <2> DEFINE f == [q \in Others(p) |-> IF q = Sync THEN mail[p][q] ELSE "queued"]
  <2>1. mail' = [mail EXCEPT ![p] = [q \in Others(p) |-> f[q]]]
    BY <1>1 DEF SendOpenings
  <2>2. /\ MailShape'
        /\ \A a \in Process : \A b \in Others(a) :
             mail'[a][b] = IF a = p THEN f[b] ELSE mail[a][b]
    <3>1. MailShape
      OBVIOUS
    <3> HIDE DEF f, DInv
    <3>2. QED
      BY <2>1, <3>1, MailsMove
  <2>3. QED
    BY <1>1, <2>2 DEF SendOpenings, Honest, Silent
<1>2. CASE Fail(p)
  BY <1>2, ExitMail DEF Fail, Honest, Silent
<1>3. CASE Join(p)
  BY <1>3, ExitMail DEF Join, Honest, Silent, MailShape
<1>4. CASE JoinPanics(p)
  BY <1>4, ExitMail DEF JoinPanics, Honest, Silent
<1>5. ASSUME NEW q \in Others(p), Signal(p, q) PROVE Silent
  BY <1>5, ExitMail DEF Signal, Honest, Silent, MailShape
<1>6. QED
  BY <1>1, <1>2, <1>3, <1>4, <1>5 DEF MainThread

LEMMA ThreadsSilent ==
  ASSUME NEW p \in Process, NEW q \in Others(p), DInv, Writer(p, q) \/ Reader(p, q)
  PROVE  Silent
<1> USE Processes DEF DInv
<1>1. p \in Others(q) /\ q \in Process
  BY DEF Others
<1>2. CASE Write(p, q)
  BY <1>2, MailMoves DEF Write, Honest, Silent
<1>3. CASE Stop(p, q)
  BY <1>3, MailMoves DEF Stop, Honest, Silent, MailShape
<1>4. CASE UnwrapPanics(p, q)
  BY <1>4 DEF UnwrapPanics, Honest, Silent, MailShape
<1>5. CASE Read(p, q)
  BY <1>1, <1>5, MailMoves DEF Read, Honest, Silent
<1>6. CASE ReaderEnds(p, q)
  BY <1>1, <1>6, MailMoves DEF ReaderEnds, Honest, Silent, MailShape
<1>7. QED
  BY <1>2, <1>3, <1>4, <1>5, <1>6 DEF Writer, Reader, WriteFails, TakeSignal

\* When the computation of the synchronizer has succeeded, that of every node
\* has: nodes report Done only at the end, and none of the steps of a shutdown
\* makes a Done that was not sent.
THEOREM DoneHolds == Spec => []DoneMeansDone
<1>1. Init => DInv
  BY Processes DEF Init, DInv, MailShape, DoneIsReported, DoneMeansDone
<1>2. DInv /\ [Next]_vars => DInv'
  <2> SUFFICES ASSUME DInv, [Next]_vars PROVE DInv'
    OBVIOUS
  <2>1. CASE Silent
    BY <2>1 DEF DInv, Silent, Honest, DoneIsReported, DoneMeansDone
  <2>2. ASSUME NEW p \in Process, Succeed(p) PROVE DInv'
    BY <2>2, SucceedHonest DEF DInv, Honest, DoneIsReported, DoneMeansDone
  <2>3. ASSUME NEW p \in Process, MainThread(p) PROVE DInv'
    BY <2>1, <2>2, <2>3, MainThreadHonest
  <2>4. ASSUME NEW p \in Process, NEW q \in Others(p), Writer(p, q) \/ Reader(p, q) PROVE DInv'
    BY <2>1, <2>4, ThreadsSilent
  <2>5. CASE UNCHANGED vars
    BY <2>5 DEF vars, DInv, MailShape, DoneIsReported, DoneMeansDone
  <2>6. QED
    BY <2>3, <2>4, <2>5 DEF Next
<1>3. DInv => DoneMeansDone
  BY DEF DInv
<1>4. QED
  BY <1>1, <1>2, <1>3, PTL DEF Spec

-----------------------------------------------------------------------------
(* Who fails, and why.                                                     *)

Failed == {p \in Process : main[p] = "err" /\ p \notin succeeded}

Shape ==
  /\ main \in [Process -> {"send", "collect", "close", "last", "ok", "err", "panic"}]
  /\ shut \in [Process -> SUBSET Process]
  /\ signalled \in [Process -> SUBSET Process]
  /\ succeeded \subseteq Process
  /\ MailShape

\* A process computes, has succeeded, or has failed.
Phases == \A p \in Process :
  /\ Computing(p) => p \notin succeeded /\ signalled[p] = {}
  /\ p \notin succeeded => Computing(p) \/ main[p] = "err"

\* A node has sent its Openings when it collects, and its Done when it has
\* succeeded.
Openings == \A p \in Node : \A q \in Others(p) :
  /\ mail[p][q] = "none" => main[p] = "send" \/ (q = Sync /\ p \notin succeeded)
  /\ main[p] = "send" => mail[p][q] = "none"

\* Until somebody fails, nothing is lost between processes that compute.
Connected == Failed = {} =>
  \A p \in Process : \A q \in Others(p) :
    p \notin succeeded /\ q \notin succeeded => q \notin shut[p] /\ mail[p][q] # "lost"

Blame == ~late /\ Failed # {} =>
  \E p \in Failed : \E q \in Awaited(p) \cap succeeded : mail[q][p] = "lost"

FInv == Shape /\ Phases /\ Openings /\ Connected /\ Blame /\ DoneIsReported

\* What the steps do that begin no phase of a computation and end none.
Gone(a, b) == a \in succeeded \/ b \in succeeded \/ Failed # {}

Tame ==
  /\ Shape'
  /\ succeeded' = succeeded /\ late' = late
  /\ \A a \in Process :
       /\ main'[a] = main[a] \/
            (a \in succeeded /\ main'[a] \notin {"send", "collect"})
       /\ signalled'[a] = signalled[a] \/ ~Computing(a)
       /\ \A b \in Others(a) :
            /\ mail'[a][b] = "none" <=> mail[a][b] = "none"
            /\ mail[a][b] = "lost" => mail'[a][b] = "lost"
            /\ mail'[a][b] = "lost" => mail[a][b] = "lost" \/ Gone(a, b)
            /\ b \in shut'[a] => b \in shut[a] \/ Gone(a, b)

LEMMA Symmetric == \A p \in Process : \A q \in Others(p) : q \in Process /\ p \in Others(q)
  BY DEF Others

LEMMA AwaitedOthers == \A p \in Process : \A q \in Awaited(p) : q \in Node /\ q \in Others(p) /\ p \in Others(q)
  BY DEF Awaited, Peers, Others, Process

LEMMA TamePreserves == FInv /\ Tame => FInv'
<1> SUFFICES ASSUME FInv, Tame PROVE FInv'
  OBVIOUS
<1> USE Processes, Symmetric, AwaitedOthers
<1>1. Failed' = Failed
  <2>1. \A p \in Process : p \notin succeeded => main'[p] = main[p]
    BY DEF Tame
  <2>2. QED
    BY <2>1 DEF Tame, Failed
<1>2. Phases'
  BY DEF FInv, Tame, Phases, Computing
<1>3. Openings'
  <2> SUFFICES ASSUME NEW p \in Node, NEW q \in Others(p)
               PROVE  /\ mail'[p][q] = "none" => main'[p] = "send" \/ (q = Sync /\ p \notin succeeded)
                      /\ main'[p] = "send" => mail'[p][q] = "none"
    BY DEF Openings, Tame
  <2>1. main[p] = "send" => p \notin succeeded
    BY DEF FInv, Phases, Computing
  <2>2. QED
    BY <2>1 DEF FInv, Tame, Openings
<1>4. Connected'
  BY <1>1 DEF FInv, Tame, Connected, Gone
<1>5. Blame'
  BY <1>1 DEF FInv, Tame, Blame, Failed, Awaited
<1>6. DoneIsReported'
  BY DEF FInv, Tame, DoneIsReported
<1>7. QED
  BY <1>2, <1>3, <1>4, <1>5, <1>6 DEF FInv, Tame

\* What an Exit does to the mail.
LEMMA ExitLoses ==
  ASSUME NEW p \in Process, NEW how, MailShape, Exit(p, how)
  PROVE  /\ MailShape'
         /\ \A a \in Process : \A b \in Others(a) :
              mail'[a][b] = IF a = p /\ mail[a][b] = "queued" THEN "lost" ELSE mail[a][b]
<1> DEFINE f == [q \in Others(p) |-> IF mail[p][q] = "queued" THEN "lost" ELSE mail[p][q]]
<1>1. mail' = [mail EXCEPT ![p] = [q \in Others(p) |-> f[q]]]
  BY DEF Exit
<1>2. /\ MailShape'
      /\ \A a \in Process : \A b \in Others(a) :
           mail'[a][b] = IF a = p THEN f[b] ELSE mail[a][b]
  <2> HIDE DEF f
  <2>1. QED
    BY <1>1, MailsMove
<1>3. QED
  BY <1>2

LEMMA ExitTame ==
  ASSUME NEW p \in Process, NEW how \in {"ok", "err", "panic"}, FInv, Exit(p, how),
         p \in succeeded, succeeded' = succeeded
  PROVE  Tame
<1>1. Others(p) \subseteq Process
  BY DEF Others
<1>2. Shape'
  BY <1>1, ExitLoses DEF FInv, Shape, Exit
<1>3. QED
  BY <1>2, ExitLoses DEF FInv, Shape, Exit, Tame, Gone

Moves(a, b) == \E place \in {"sent", "passed", "lost"} :
  /\ Mail(a, b, place)
  /\ mail[a][b] \in {"queued", "sent"}
  /\ place = "lost" => Gone(a, b)

\* A thread of a connection moves a message, or stops, or neither.
LEMMA ThreadTame ==
  ASSUME NEW p \in Process, NEW q \in Others(p), FInv,
         UNCHANGED <<main, succeeded, signalled, late>>,
         shut' = shut \/ (shut' = [shut EXCEPT ![p] = @ \cup {q}] /\ Gone(p, q)),
         mail' = mail \/ Moves(p, q) \/ Moves(q, p)
  PROVE  Tame
<1> USE Symmetric
<1>1. q \in Process
  OBVIOUS
<1>2. /\ MailShape'
      /\ \A a \in Process : \A b \in Others(a) :
           /\ mail'[a][b] = "none" <=> mail[a][b] = "none"
           /\ mail[a][b] = "lost" => mail'[a][b] = "lost"
           /\ mail'[a][b] = "lost" => mail[a][b] = "lost" \/ Gone(a, b)
  <2>1. CASE mail' = mail
    BY <2>1 DEF MailShape, FInv, Shape
  <2>2. ASSUME NEW a \in Process, NEW b \in Others(a), Moves(a, b)
        PROVE  /\ MailShape'
               /\ \A c \in Process : \A d \in Others(c) :
                    /\ mail'[c][d] = "none" <=> mail[c][d] = "none"
                    /\ mail[c][d] = "lost" => mail'[c][d] = "lost"
                    /\ mail'[c][d] = "lost" => mail[c][d] = "lost" \/ Gone(c, d)
    <3>1. PICK place \in {"sent", "passed", "lost"} :
            /\ Mail(a, b, place)
            /\ mail[a][b] \in {"queued", "sent"}
            /\ place = "lost" => Gone(a, b)
      BY <2>2 DEF Moves
    <3>2. /\ MailShape'
          /\ \A c \in Process : \A d \in Others(c) :
               mail'[c][d] = IF c = a /\ d = b THEN place ELSE mail[c][d]
      BY <3>1, MailMoves DEF FInv, Shape
    <3>3. QED
      BY <3>1, <3>2
  <2>3. QED
    BY <1>1, <2>1, <2>2
<1>3. Shape'
  BY <1>1, <1>2 DEF FInv, Shape
<1>4. \A a \in Process : \A b \in Others(a) : b \in shut'[a] => b \in shut[a] \/ Gone(a, b)
  BY <1>1 DEF FInv, Shape
<1>5. QED
  BY <1>2, <1>3, <1>4 DEF Tame

\* Who shuts a connection down, or finds it shut.
LEMMA NotComputing ==
  ASSUME NEW p \in Process, FInv, ~Computing(p)
  PROVE  p \in succeeded \/ Failed # {}
  BY DEF FInv, Phases, Failed

LEMMA Shutters ==
  ASSUME NEW p \in Process, NEW q \in Others(p), FInv, q \in shut[p] \/ p \in shut[q]
  PROVE  Gone(p, q)
  BY Symmetric DEF FInv, Connected, Gone

LEMMA StopTame ==
  ASSUME NEW p \in Process, NEW q \in Others(p), FInv, Stop(p, q), Gone(p, q)
  PROVE  Tame
<1>1. p # q
  BY DEF Others
<1>2. QED
  BY <1>1, ThreadTame DEF Stop, Moves

LEMMA WriterTame ==
  ASSUME NEW p \in Process, NEW q \in Others(p), FInv, Writer(p, q)
  PROVE  Tame
<1>1. p # q
  BY DEF Others
<1>2. CASE Write(p, q)
  BY <1>1, <1>2, ThreadTame DEF Write, Moves
<1>3. CASE WriteFails(p, q)
  BY <1>3, StopTame, Shutters DEF WriteFails
<1>4. CASE TakeSignal(p, q)
  <2>1. ~Computing(p)
    BY <1>4 DEF TakeSignal, FInv, Phases
  <2>2. QED
    BY <1>4, <2>1, NotComputing, StopTame DEF TakeSignal, Gone
<1>5. CASE UnwrapPanics(p, q)
  BY <1>5, ThreadTame DEF UnwrapPanics
<1>6. QED
  BY <1>2, <1>3, <1>4, <1>5 DEF Writer

LEMMA ReaderTame ==
  ASSUME NEW p \in Process, NEW q \in Others(p), FInv, Reader(p, q)
  PROVE  Tame
<1>1. p # q /\ q \in Process /\ p \in Others(q)
  BY DEF Others
<1>2. Gone(q, p) <=> Gone(p, q)
  BY DEF Gone
<1>3. CASE Read(p, q)
  <2>1. CASE Computing(p)
    BY <1>1, <1>3, <2>1, ThreadTame DEF Read, Moves
  <2>2. CASE ~Computing(p)
    <3>1. Gone(p, q)
      BY <2>2, NotComputing DEF Gone
    <3>2. QED
      BY <1>1, <1>2, <1>3, <2>2, <3>1, ThreadTame DEF Read, Moves
  <2>3. QED
    BY <2>1, <2>2
<1>4. CASE ReaderEnds(p, q)
  <2>1. Gone(p, q)
    BY <1>4, Shutters DEF ReaderEnds
  <2>2. mail' = mail \/ (mail[q][p] = "sent" /\ Mail(q, p, "lost"))
    BY <1>4 DEF ReaderEnds
  <2>3. QED
    BY <1>1, <1>2, <1>4, <2>1, <2>2, ThreadTame DEF ReaderEnds, Moves
<1>5. QED
  BY <1>3, <1>4 DEF Reader

\* Main functions close connections only after a success.
LEMMA ClosersSucceeded ==
  ASSUME NEW p \in Process, FInv, main[p] \in {"close", "last"}
  PROVE  p \in succeeded
  BY DEF FInv, Phases, Computing

LEMMA ClosingTame ==
  ASSUME NEW p \in Process, FInv,
         Join(p) \/ JoinPanics(p) \/ \E q \in Others(p) : Signal(p, q)
  PROVE  Tame
<1>1. CASE Join(p)
  <2>1. main[p] \in {"close", "last"}
    BY <1>1 DEF Join, Computing, Exited, FInv, Shape
  <2>2. CASE Exit(p, "ok")
    BY <1>1, <2>1, <2>2, ClosersSucceeded, ExitTame DEF Join
  <2>3. CASE main' = [main EXCEPT ![p] = "last"] /\ UNCHANGED <<mail, writer, signalled, shut, late>>
    BY <1>1, <2>1, <2>3, ClosersSucceeded DEF Join, Tame, FInv, Shape, MailShape
  <2>4. QED
    BY <1>1, <2>2, <2>3 DEF Join
<1>2. CASE JoinPanics(p)
  <2>1. main[p] \in {"close", "last"}
    BY <1>2 DEF JoinPanics, Closing
  <2>2. QED
    BY <1>2, <2>1, ClosersSucceeded, ExitTame DEF JoinPanics
<1>3. ASSUME NEW q \in Others(p), Signal(p, q) PROVE Tame
  <2>1. main[p] \in {"close", "last"} /\ ~Computing(p)
    BY <1>3 DEF Signal, Closing, Computing
  <2>2. CASE Exit(p, "err")
    BY <1>3, <2>1, <2>2, ClosersSucceeded, ExitTame DEF Signal
  <2>3. CASE /\ signalled' = [signalled EXCEPT ![p] = @ \cup {q}]
             /\ UNCHANGED <<main, mail, writer, shut, late>>
    <3>1. q \in Process
      BY Symmetric
    <3>2. QED
      BY <1>3, <2>1, <2>3, <3>1 DEF Signal, Tame, FInv, Shape, MailShape
  <2>4. QED
    BY <1>3, <2>2, <2>3 DEF Signal
<1>4. QED
  BY <1>1, <1>2, <1>3

LEMMA SendOpeningsMail ==
  ASSUME NEW p \in Process, MailShape, SendOpenings(p)
  PROVE  /\ MailShape'
         /\ \A a \in Process : \A b \in Others(a) :
              mail'[a][b] = IF a = p /\ b # Sync THEN "queued" ELSE mail[a][b]
<1> DEFINE f == [q \in Others(p) |-> IF q = Sync THEN mail[p][q] ELSE "queued"]
<1>1. mail' = [mail EXCEPT ![p] = [q \in Others(p) |-> f[q]]]
  BY DEF SendOpenings
<1>2. /\ MailShape'
      /\ \A a \in Process : \A b \in Others(a) :
           mail'[a][b] = IF a = p THEN f[b] ELSE mail[a][b]
  <2> HIDE DEF f
  <2>1. QED
    BY <1>1, MailsMove
<1>3. QED
  BY <1>2

LEMMA SendOpeningsPreserves ==
  ASSUME NEW p \in Process, FInv, SendOpenings(p)
  PROVE  FInv'
<1> USE Processes, Symmetric, AwaitedOthers
<1>1. /\ MailShape'
      /\ \A a \in Process : \A b \in Others(a) :
           mail'[a][b] = IF a = p /\ b # Sync THEN "queued" ELSE mail[a][b]
  BY SendOpeningsMail DEF FInv, Shape
<1>2. main[p] = "send" /\ p \notin succeeded
  BY DEF SendOpenings, FInv, Phases, Computing
<1>3. Shape'
  BY <1>1 DEF SendOpenings, FInv, Shape
<1>4. Failed' = Failed
  BY <1>2 DEF SendOpenings, FInv, Shape, Failed
<1>5. Phases'
  BY <1>2 DEF SendOpenings, FInv, Shape, Phases, Computing
<1>6. Openings'
  <2> SUFFICES ASSUME NEW n \in Node, NEW q \in Others(n)
               PROVE  /\ mail'[n][q] = "none" => main'[n] = "send" \/ (q = Sync /\ n \notin succeeded')
                      /\ main'[n] = "send" => mail'[n][q] = "none"
    BY DEF Openings
  <2>1. n \in Process /\ succeeded' = succeeded /\ main' = [main EXCEPT ![p] = "collect"]
    BY DEF SendOpenings
  <2>2. CASE n = p
    BY <1>1, <1>2, <2>1, <2>2 DEF FInv, Shape
  <2>3. CASE n # p
    BY <1>1, <2>1, <2>3 DEF FInv, Shape, Openings
  <2>4. QED
    BY <2>2, <2>3
<1>7. Connected'
  BY <1>1, <1>4 DEF SendOpenings, FInv, Connected
<1>8. Blame'
  <2> SUFFICES ASSUME ~late, Failed # {} PROVE Blame'
    BY <1>4 DEF SendOpenings, Blame
  <2>1. PICK r \in Failed : \E q \in Awaited(r) \cap succeeded : mail[q][r] = "lost"
    BY DEF FInv, Blame
  <2>2. PICK q \in Awaited(r) \cap succeeded : mail[q][r] = "lost"
    BY <2>1
  <2>3. r \in Process /\ q # p
    BY <1>2 DEF Failed
  <2>4. mail'[q][r] = "lost"
    BY <1>1, <2>2, <2>3
  <2>5. QED
    BY <1>4, <2>2, <2>4 DEF SendOpenings, Blame, Awaited
<1>9. DoneIsReported'
  BY <1>1 DEF SendOpenings, FInv, DoneIsReported
<1>10. QED
  BY <1>3, <1>5, <1>6, <1>7, <1>8, <1>9 DEF FInv

LEMMA SucceedPreserves ==
  ASSUME NEW p \in Process, FInv, Succeed(p)
  PROVE  FInv'
<1> USE Processes, Symmetric, AwaitedOthers
<1>1. main[p] = "collect" /\ p \notin succeeded
  BY DEF Succeed, FInv, Phases, Computing
<1>2. /\ MailShape'
      /\ \A a \in Process : \A b \in Others(a) :
           mail'[a][b] = IF a = p /\ b = Sync THEN "queued" ELSE mail[a][b]
  <2>1. CASE p = Sync
    <3>1. mail' = mail
      BY <2>1 DEF Succeed
    <3>2. \A b \in Others(p) : b # Sync
      BY <2>1 DEF Others
    <3>3. QED
      BY <2>1, <3>1, <3>2 DEF FInv, Shape, MailShape
  <2>2. CASE p # Sync
    <3>1. p \in Node /\ Mail(p, Sync, "queued")
      BY <2>2 DEF Succeed, Process
    <3>2. QED
      BY <3>1, MailMoves DEF FInv, Shape
  <2>3. QED
    BY <2>1, <2>2
<1>3. p \in Node => mail[p][Sync] = "none"
  BY <1>1 DEF FInv, DoneIsReported
<1>4. Shape'
  BY <1>2 DEF Succeed, FInv, Shape
<1>5. Failed' = Failed
  BY <1>1 DEF Succeed, FInv, Shape, Failed
<1>6. Phases'
  BY <1>1 DEF Succeed, FInv, Shape, Phases, Computing
<1>7. Openings'
  BY <1>1, <1>2 DEF Succeed, FInv, Shape, Openings
<1>8. Connected'
  BY <1>2, <1>5 DEF Succeed, FInv, Connected
<1>9. Blame'
  <2> SUFFICES ASSUME ~late, Failed # {} PROVE Blame'
    BY <1>5 DEF Succeed, Blame
  <2>1. PICK r \in Failed : \E q \in Awaited(r) \cap succeeded : mail[q][r] = "lost"
    BY DEF FInv, Blame
  <2>2. PICK q \in Awaited(r) \cap succeeded : mail[q][r] = "lost"
    BY <2>1
  <2>3. r \in Process /\ q # p
    BY <1>1 DEF Failed
  <2>4. mail'[q][r] = "lost"
    BY <1>2, <2>2, <2>3
  <2>5. QED
    BY <1>5, <2>2, <2>4 DEF Succeed, Blame, Awaited
<1>10. DoneIsReported'
  BY <1>2 DEF Succeed, FInv, DoneIsReported
<1>11. QED
  BY <1>4, <1>6, <1>7, <1>8, <1>9, <1>10 DEF FInv

\* The first failure is blamed on a message of a node that had succeeded.
LEMMA FailPreserves ==
  ASSUME NEW p \in Process, FInv, Fail(p)
  PROVE  FInv'
<1> USE Processes, Symmetric, AwaitedOthers
<1>1. main[p] = "collect" /\ p \notin succeeded /\ succeeded' = succeeded
  BY DEF Fail, FInv, Phases, Computing
<1>2. /\ MailShape'
      /\ \A a \in Process : \A b \in Others(a) :
           mail'[a][b] = IF a = p /\ mail[a][b] = "queued" THEN "lost" ELSE mail[a][b]
  BY ExitLoses DEF Fail, FInv, Shape
<1>3. Shape'
  <2>1. Others(p) \subseteq Process
    BY DEF Others
  <2>2. QED
    BY <1>1, <1>2, <2>1 DEF Fail, Exit, FInv, Shape
<1>4. Failed' = Failed \cup {p}
  BY <1>1 DEF Fail, Exit, FInv, Shape, Failed
<1>5. Phases'
  BY <1>1 DEF Fail, Exit, FInv, Shape, Phases, Computing
<1>6. Openings'
  <2> SUFFICES ASSUME NEW n \in Node, NEW q \in Others(n)
               PROVE  /\ mail'[n][q] = "none" => main'[n] = "send" \/ (q = Sync /\ n \notin succeeded')
                      /\ main'[n] = "send" => mail'[n][q] = "none"
    BY DEF Openings
  <2>1. n \in Process /\ main' = [main EXCEPT ![p] = "err"]
    BY DEF Fail, Exit
  <2>2. CASE n = p
    BY <1>1, <1>2, <2>1, <2>2 DEF FInv, Shape, Openings
  <2>3. CASE n # p
    BY <1>1, <1>2, <2>1, <2>3 DEF FInv, Shape, Openings
  <2>4. QED
    BY <2>2, <2>3
<1>7. Connected'
  BY <1>4 DEF Connected
<1>8. Blame'
  <2> SUFFICES ASSUME ~late
               PROVE  \E r \in Failed' : \E q \in Awaited(r) \cap succeeded : mail'[q][r] = "lost"
    BY <1>1 DEF Fail, Exit, Blame, Awaited
  <2>1. \E r \in Failed' : \E q \in Awaited(r) \cap succeeded : r \in Process /\ mail[q][r] = "lost"
    <3>1. CASE Failed # {}
      BY <1>4, <3>1 DEF FInv, Blame, Failed
    <3>2. CASE Failed = {}
      <4>1. PICK q \in Awaited(p) : NeverComes(q, p)
        BY DEF Fail
      <4>2. q \in Node /\ q \in Process /\ p \in Others(q)
        BY <4>1
      <4>3. q \in succeeded
        <5>1. CASE mail[q][p] = "lost"
          BY <1>1, <3>2, <4>2, <5>1 DEF FInv, Connected
        <5>2. CASE Exited(q)
          BY <3>2, <4>2, <5>2, NotComputing DEF Exited, Computing
        <5>3. QED
          BY <4>1, <5>1, <5>2 DEF NeverComes
      <4>4. main[q] # "send"
        BY <4>2, <4>3 DEF FInv, Phases, Computing
      <4>5. mail[q][p] = "lost"
        BY <4>1, <4>2, <4>3, <4>4 DEF NeverComes, FInv, Openings
      <4>6. QED
        BY <1>4, <4>1, <4>3, <4>5
    <3>3. QED
      BY <3>1, <3>2
  <2>2. QED
    BY <1>2, <2>1
<1>9. DoneIsReported'
  BY <1>1, <1>2 DEF FInv, DoneIsReported
<1>10. QED
  BY <1>3, <1>5, <1>6, <1>7, <1>8, <1>9 DEF FInv

LEMMA InitFInv == Init => FInv
<1> SUFFICES ASSUME Init PROVE FInv
  OBVIOUS
<1> USE Processes DEF Init
<1>1. Shape
  BY DEF Shape, MailShape
<1>2. Failed = {}
  BY DEF Failed
<1>3. Phases /\ Connected /\ Blame
  BY <1>2 DEF Phases, Computing, Connected, Blame
<1>4. Openings /\ DoneIsReported
  BY DEF Openings, DoneIsReported
<1>5. QED
  BY <1>1, <1>3, <1>4 DEF FInv

\* While timeouts are timely, whoever fails, somebody waits for a message that
\* a node which had succeeded lost when it shut down.
THEOREM FailuresHold == Spec => []FailsOnlyForTheEarly
<1>1. FInv /\ [Next]_vars => FInv'
  <2> SUFFICES ASSUME FInv, [Next]_vars PROVE FInv'
    OBVIOUS
  <2>1. ASSUME NEW p \in Process, MainThread(p) PROVE FInv'
    BY <2>1, SendOpeningsPreserves, SucceedPreserves, FailPreserves, ClosingTame,
       TamePreserves DEF MainThread
  <2>2. ASSUME NEW p \in Process, NEW q \in Others(p), Writer(p, q) \/ Reader(p, q) PROVE FInv'
    BY <2>2, WriterTame, ReaderTame, TamePreserves
  <2>3. CASE UNCHANGED vars
    <3>1. Tame
      BY <2>3 DEF vars, Tame, FInv, Shape, MailShape
    <3>2. QED
      BY <3>1, TamePreserves
  <2>4. QED
    BY <2>1, <2>2, <2>3 DEF Next
<1>2. FInv => FailsOnlyForTheEarly
  <2> SUFFICES ASSUME FInv, ~late, NEW p \in Process \ succeeded, main[p] = "err"
               PROVE  \E r \in Process \ succeeded : \E q \in Awaited(r) \cap succeeded :
                        mail[q][r] = "lost"
    BY DEF FailsOnlyForTheEarly
  <2>1. p \in Failed
    BY DEF Failed
  <2>2. QED
    BY <2>1 DEF FInv, Blame, Failed
<1>3. QED
  BY <1>1, <1>2, InitFInv, PTL DEF Spec
=============================================================================
