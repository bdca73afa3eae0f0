------------------------------- MODULE Startup --------------------------------
(***************************************************************************)
(* The start of a deployment up to its last preprocessing message (io.rs): *)
(* the nodes of Cluster, once they have formed the cluster, connect to the *)
(* process that deals the preprocessing (fake_prep_main).  It waits for    *)
(* all of them, sorts their connections by id, and writes the elements     *)
(* gen_fake_prep has made, one share of each to every node, first sharings *)
(* for the input of each party and then triples.                           *)
(*                                                                         *)
(* Nodes may end while it deals, whether their party has failed or needs   *)
(* no more preprocessing; a write to such a node may or may not fail.      *)
(***************************************************************************)
EXTENDS Cluster, SequencesExt

CONSTANTS
  RandCount,    \* rand_count_per_party
  TripleCount   \* triple_count

ASSUME StartupAssumption == RandCount \in Nat /\ TripleCount \in Nat

VARIABLES
  fpc,      \* where fake_prep_main is
  waiting,  \* the connections it has not accepted yet
  joined,   \* stream_map, in the order of arrival
  written,  \* how many messages it has written
  dealt,    \* dealt[c]: those it has written to process c
  npc,      \* where each process is in connecting to fake_prep
  named     \* the processes that have written their id to it

dealVars == <<fpc, waiting, joined, written, dealt>>
nodeVars == <<npc, named>>
allVars == <<vars, dealVars, nodeVars>>

StartupInit ==
  /\ Init
  /\ fpc \in {"boot", "accept"}
  /\ waiting = <<>> /\ joined = <<>> /\ written = 0
  /\ dealt = [c \in Process |-> <<>>]
  /\ npc = [c \in Process |-> "idle"]
  /\ named = {}

Left(c) == npc[c] \in {"err", "ended"}

-----------------------------------------------------------------------------
(* Process c and its connection to fake_prep.                              *)

PrepListens == fpc \in {"accept", "deal"}

\* Once its cluster is formed, a node connects.  A stray may call fake_prep
\* instead of the synchronizer.
ReadyForPrep(c) == ppc[c] = IF c \in Node THEN "formed" ELSE "connect"

\* There is one try only.
ConnectPrep(c) ==
  /\ ReadyForPrep(c)
  /\ npc[c] = "idle"
  /\ IF PrepListens
     THEN npc' = [npc EXCEPT ![c] = "id"] /\ waiting' = Append(waiting, c)
     ELSE npc' = [npc EXCEPT ![c] = "err"] /\ UNCHANGED waiting
  /\ UNCHANGED <<vars, fpc, joined, written, dealt, named>>

WritePrepId(c) ==
  /\ npc[c] = "id"
  /\ npc' = [npc EXCEPT ![c] = "run"]
  /\ named' = named \cup {c}
  /\ UNCHANGED <<vars, dealVars>>

\* A process ends, its party with it or because of it.
Leave(c) ==
  /\ c \in faulty
  /\ ReadyForPrep(c)
  /\ ~Left(c)
  /\ npc' = [npc EXCEPT ![c] = "ended"]
  /\ UNCHANGED <<vars, dealVars, named>>

-----------------------------------------------------------------------------
(* fake_prep_main                                                          *)

BindPrep ==
  /\ fpc = "boot"
  /\ fpc' = "accept"
  /\ UNCHANGED <<vars, waiting, joined, written, dealt, nodeVars>>

\* ids.contains, and the stream is not there yet; others are dropped.
Expects_Anyone(c) == \A i \in 1 .. Len(joined) : joined[i] # c
Expects(c) == c \in Node /\ \A i \in 1 .. Len(joined) : joined[i] # c

AcceptPrep ==
  /\ fpc = "accept"
  /\ waiting # <<>>
  /\ Head(waiting) \in named
  /\ waiting' = Tail(waiting)
  /\ joined' = IF Expects(Head(waiting)) THEN Append(joined, Head(waiting)) ELSE joined
  /\ fpc' = IF Len(joined') = N THEN "deal" ELSE fpc
  /\ UNCHANGED <<vars, written, dealt, nodeVars>>

\* The id of a process that has ended before it wrote one cannot be read.
AcceptPrepFails ==
  /\ fpc = "accept"
  /\ waiting # <<>>
  /\ Left(Head(waiting)) /\ Head(waiting) \notin named
  /\ fpc' = "err"
  /\ UNCHANGED <<vars, waiting, joined, written, dealt, nodeVars>>

\* stream_vec, after sort_by_key: in place i is the connection with i - 1 lower
\* ids, as no two are the same.
Streams_Unsorted == joined
Streams == [i \in DOMAIN joined |->
  CHOOSE c \in Range(joined) : Cardinality({d \in Range(joined) : d < c}) = i - 1]

\* Message number w, counted from 0: share i of element k, with the clear value
\* for the party whose input the element is meant for.
Rands == N * RandCount
Total == N * (Rands + TripleCount)

PrepMsg(w) ==
  LET k == w \div N
      i == w % N
  IN IF k < Rands
     THEN [kind |-> "RandShare", elem |-> k, share |-> i,
           party_id |-> k \div RandCount, clear |-> k \div RandCount = i]
     ELSE [kind |-> "Triple", elem |-> k, share |-> i]

Receiver == Streams[(written % N) + 1]

Deal ==
  /\ fpc = "deal"
  /\ IF written = Total
     THEN fpc' = "ok" /\ UNCHANGED <<written, dealt>>
     ELSE /\ written' = written + 1
          /\ dealt' = [dealt EXCEPT ![Receiver] = Append(@, PrepMsg(written))]
          /\ UNCHANGED fpc
  /\ UNCHANGED <<vars, waiting, joined, nodeVars>>

\* write_length(..)? or write_all(..)?: nobody gets any more.
DealFails ==
  /\ fpc = "deal"
  /\ written < Total
  /\ Left(Receiver)
  /\ fpc' = "err"
  /\ UNCHANGED <<vars, waiting, joined, written, dealt, nodeVars>>

-----------------------------------------------------------------------------
FakePrep == AcceptPrep \/ AcceptPrepFails \/ Deal \/ DealFails

InCluster(A) == A /\ UNCHANGED <<dealVars, nodeVars>>

MainThread(c) ==
  \/ InCluster(Step(c)) /\ (c \in Strays => npc[c] = "idle")
  \/ c \in Node /\ ConnectPrep(c)
  \/ WritePrepId(c)

StartupNext ==
  \/ InCluster(Discovery \/ \E n \in Node : Acceptor(n))
  \/ \E c \in Process : MainThread(c) \/ InCluster(Crash(c)) \/ Leave(c)
  \/ \E c \in Strays : ConnectPrep(c)
  \/ BindPrep \/ FakePrep

\* Threads of the system run.  Nobody promises what strays do, nor when
\* fake_prep is started.
StartupFairness ==
  /\ WF_allVars(InCluster(Discovery))
  /\ \A n \in Node : WF_allVars(MainThread(n))
  /\ \A n \in Node : WF_allVars(InCluster(Acceptor(n)))
  /\ WF_allVars(FakePrep)

StartupSpec == StartupInit /\ [][StartupNext]_allVars
StartupLiveSpec == StartupSpec /\ StartupFairness

-----------------------------------------------------------------------------
(* Properties.                                                             *)

\* Whatever the order in which the nodes have connected, a node gets its own
\* share of every element, in the order the elements were made, and the clear
\* value of those for its own inputs and of no other ("only one party knows
\* the random share", RandShareMsg).  No node is ahead of another by more than
\* one element.
OwnShares == \A n \in Node :
  /\ \A j \in 1 .. Len(dealt[n]) :
       /\ dealt[n][j].share = n /\ dealt[n][j].elem = j - 1
       /\ dealt[n][j].kind = "RandShare" =>
            (dealt[n][j].clear <=> dealt[n][j].party_id = n)
  /\ \A m \in Node : Len(dealt[n]) <= Len(dealt[m]) + 1

\* fake_prep has no connection to the synchronizer, but it does "wait for the
\* command from the synchronizer and then start": nothing is dealt before every
\* node has been told to form the cluster and has done so.
PrepWaits ==
  written > 0 => told = Node /\ \A n \in Node : ppc[n] = "formed"

\* A stray that is connected and keeps silent holds everybody up, as ids are
\* read from one connection at a time, without a timeout.
HeldUp ==
  /\ dpc = "accept" /\ queue # <<>>
  /\ Head(queue) \in Strays \ ids /\ ~Dead(Head(queue))
PrepHeldUp ==
  /\ fpc = "accept" /\ waiting # <<>>
  /\ Head(waiting) \in Strays \ named /\ ~Left(Head(waiting))

\* If no process ends early, and fake_prep is started in time, the cluster is
\* formed, discovery returns ("when all the nodes are online"), and every node
\* is sent all the preprocessing, unless a stray keeps its connection to the
\* synchronizer or to fake_prep open for ever and never writes an id to it.
Prepared ==
  faulty = {} /\ fpc = "accept" =>
    \/ <>(/\ dpc = "done" /\ fpc = "ok"
          /\ \A n \in Node : npc[n] = "run" /\ Len(dealt[n]) = Rands + TripleCount)
    \/ <>[](HeldUp \/ PrepHeldUp)

\* Once every node has sent its id to the synchronizer, every process gets as
\* far as it ever will, even if some end meanwhile.  Discovery returns, or waits
\* for a silent stray; a node that waits for the accepting thread of
\* form_cluster, which has no timeout, waits for one that has ended; and if
\* fake_prep still accepts then a stray is silent, or a node will not come.
StuckInForm(n) == ppc[n] = "form" /\ \E m \in ToReceive(n) \ taken[n] : Dead(m)

Settled ==
  /\ ~Listening \/ HeldUp
  /\ \A n \in Node :
       \/ Dead(n) \/ StuckInForm(n)
       \/ ppc[n] = "signal" /\ HeldUp
       \/ ppc[n] = "formed" /\ npc[n] \in {"run", "err", "ended"}
  /\ \/ fpc \in {"boot", "ok", "err"} \/ PrepHeldUp
     \/ fpc = "accept" /\ \E n \in Node \ Range(joined) :
          Dead(n) \/ StuckInForm(n) \/ Left(n) \/ ppc[n] = "signal"

Settles == Node \subseteq ids ~> []Settled
=============================================================================
