------------------------------- MODULE Cluster -------------------------------
(***************************************************************************)
(* How the nodes of a deployment find each other (io.rs): the synchronizer *)
(* waits until every node has connected to it (start_discovery), tells all *)
(* of them to form the cluster, and the nodes (wait_start, form_cluster)   *)
(* then connect to each other, each to those with lower ids while a thread *)
(* of its own accepts those with higher ids.                               *)
(*                                                                         *)
(* Strays are processes with an id that is not in the configuration.  Some *)
(* processes may crash before the cluster is formed; the system closes the *)
(* connections of a process that has ended, and refuses new ones.          *)
(***************************************************************************)
EXTENDS Integers, Sequences

CONSTANTS
  N,         \* the number of nodes in the configuration (PublicConf)
  Strays,    \* the other processes that connect to the synchronizer
  Faulty     \* the sets of processes that may crash, one of which is chosen

Node == 0 .. N - 1
Process == Node \cup Strays

ASSUME ClusterAssumption ==
  /\ N \in Nat \ {0}
  /\ Strays \subseteq Nat \ Node
  /\ Faulty \subseteq SUBSET Process

VARIABLES
  dpc,        \* where start_discovery is
  queue,      \* the connections it has not accepted yet
  found,      \* out: the processes it has accepted
  told,       \* those it has told to form the cluster
  ppc,        \* where each process is
  bound,      \* the nodes that have bound their own listener
  ids,        \* the processes that have written their id
  acks,       \* those that have written an acknowledgement
  calls,      \* calls[n]: the connections to node n it has not accepted yet
  dialed,     \* dialed[n]: the nodes that n has connected to
  made,       \* made[n]: those of them that it has written its id to
  taken,      \* taken[n]: the nodes that n has accepted
  panicked,   \* the nodes whose accepting thread has panicked
  faulty      \* who may crash

discVars == <<dpc, queue, found, told>>
procVars == <<ppc, bound, ids, acks>>
formVars == <<calls, dialed, made, taken, panicked>>
vars == <<discVars, procVars, formVars, faulty>>

Init ==
  /\ dpc = "accept" /\ queue = <<>>
  /\ found = {} /\ told = {}
  /\ ppc = [c \in Process |-> IF c \in Node THEN "bind" ELSE "connect"]
  /\ bound = {} /\ ids = {} /\ acks = {}
  /\ calls = [n \in Node |-> <<>>]
  /\ dialed = [n \in Node |-> {}]
  /\ made = [n \in Node |-> {}]
  /\ taken = [n \in Node |-> {}]
  /\ panicked = {}
  /\ faulty \in Faulty

Dead(c) == ppc[c] \in {"err", "crashed"}
Listening == dpc \in {"accept", "announce", "acks"}

(* A definition named X_Y is X with a mistake Y: it is no part of the      *)
(* specification, and stands before the definition it is a variant of.     *)

-----------------------------------------------------------------------------
(* start_discovery                                                         *)

\* Accept the first connection and read the id from it, waiting if need be.
\* An unknown id, or one already there, is shut out.
Wanted_Anyone(c) == c \notin found
Wanted(c) == c \notin found /\ c \in Node

\* out.len() == target_ids.len()
Complete_OneShort(in) == \E n \in Node : Node \ {n} \subseteq in
Complete(in) == Node \subseteq in

Accept_Unread ==
  /\ dpc = "accept"
  /\ queue # <<>>
  /\ LET c == Head(queue) IN
       /\ found' = IF Wanted(c) THEN found \cup {c} ELSE found
       /\ dpc' = IF Complete(found') THEN "announce" ELSE dpc
  /\ queue' = Tail(queue)
  /\ UNCHANGED <<told, procVars, formVars, faulty>>

Accept ==
  /\ dpc = "accept"
  /\ queue # <<>>
  /\ LET c == Head(queue) IN
       /\ c \in ids
       /\ found' = IF Wanted(c) THEN found \cup {c} ELSE found
       /\ dpc' = IF Complete(found') THEN "announce" ELSE dpc
  /\ queue' = Tail(queue)
  /\ UNCHANGED <<told, procVars, formVars, faulty>>

Announce ==
  /\ dpc = "announce"
  /\ \E c \in found \ told :
       /\ told' = told \cup {c}
       /\ dpc' = IF told' = found THEN "acks" ELSE dpc
  /\ UNCHANGED <<queue, found, procVars, formVars, faulty>>

\* Reading the acknowledgements changes nothing until the last has been read.
ReadAcks ==
  /\ dpc = "acks"
  /\ found \subseteq acks
  /\ dpc' = "done"
  /\ UNCHANGED <<queue, found, told, procVars, formVars, faulty>>

\* A connection whose other end is gone fails the read, the write or the
\* shutdown, and with it the discovery.
DiscoveryFails_NotOnAcks ==
  /\ \/ /\ dpc = "accept" /\ queue # <<>>
        /\ Dead(Head(queue))
        /\ Head(queue) \notin ids \/ ~Wanted(Head(queue))
     \/ dpc = "announce" /\ \E c \in found \ told : Dead(c)
  /\ dpc' = "err"
  /\ UNCHANGED <<queue, found, told, procVars, formVars, faulty>>

DiscoveryFails ==
  /\ \/ /\ dpc = "accept" /\ queue # <<>>
        /\ Dead(Head(queue))
        /\ Head(queue) \notin ids \/ ~Wanted(Head(queue))
     \/ dpc = "announce" /\ \E c \in found \ told : Dead(c)
     \/ dpc = "acks" /\ \E c \in found \ acks : Dead(c)
  /\ dpc' = "err"
  /\ UNCHANGED <<queue, found, told, procVars, formVars, faulty>>

-----------------------------------------------------------------------------
(* A process: wait_start.                                                  *)

Goes(c, from, to) ==
  /\ ppc[c] = from
  /\ ppc' = [ppc EXCEPT ![c] = to]

\* online_node_main binds the node's own listener before anything else.
Bind(n) ==
  /\ Goes(n, "bind", "connect")
  /\ bound' = bound \cup {n}
  /\ UNCHANGED <<discVars, ids, acks, formVars, faulty>>

\* retry_connection, once the synchronizer listens; and when it has stopped,
\* after the last try.
Connect(c) ==
  /\ Listening
  /\ Goes(c, "connect", "id")
  /\ queue' = Append(queue, c)
  /\ UNCHANGED <<dpc, found, told, bound, ids, acks, formVars, faulty>>

ConnectFails(c) ==
  /\ ~Listening
  /\ Goes(c, "connect", "err")
  /\ UNCHANGED <<discVars, bound, ids, acks, formVars, faulty>>

WriteId(c) ==
  /\ Goes(c, "id", "signal")
  /\ ids' = ids \cup {c}
  /\ UNCHANGED <<discVars, bound, acks, formVars, faulty>>

GetSignal(c) ==
  /\ c \in told
  /\ Goes(c, "signal", "form")
  /\ acks' = acks \cup {c}
  /\ UNCHANGED <<discVars, bound, ids, formVars, faulty>>

\* The connection is shut: by the synchronizer, which did not want it, or as
\* the synchronizer no longer listens or has failed.
Queued(c) == \E i \in 1 .. Len(queue) : queue[i] = c

SignalFails(c) ==
  /\ c \notin told
  /\ ~Listening \/ (c \notin found /\ ~Queued(c))
  /\ Goes(c, "signal", "err")
  /\ UNCHANGED <<discVars, bound, ids, acks, formVars, faulty>>

-----------------------------------------------------------------------------
(* Node n: form_cluster, its two threads.                                  *)

ToConnect(n) == {m \in Node : m < n}
ToReceive_AndSelf(n) == {m \in Node : m >= n}
ToReceive(n) == {m \in Node : m > n}

\* The listener is closed when everybody has been accepted, and by a panic of
\* the thread that owns it.
Accepting(n) ==
  /\ n \in bound /\ ~Dead(n)
  /\ taken[n] # ToReceive(n)
  /\ n \notin panicked

\* The next node of the configuration to connect to, if not connected yet.
Call(n, m) ==
  /\ ppc[n] = "form"
  /\ dialed[n] = made[n]
  /\ m \in ToConnect(n) \ made[n]
  /\ \A k \in ToConnect(n) \ made[n] : m <= k

MakeCall(n, m) ==
  /\ Call(n, m)
  /\ Accepting(m)
  /\ calls' = [calls EXCEPT ![m] = Append(@, n)]
  /\ dialed' = [dialed EXCEPT ![n] = @ \cup {m}]
  /\ UNCHANGED <<discVars, procVars, made, taken, panicked, faulty>>

\* The id goes into the stream, whether the other end is there to read it or
\* not; or the write finds that it is not.
Unnamed(n, m) == m \in dialed[n] \ made[n]

WriteCallId(n, m) ==
  /\ ppc[n] = "form"
  /\ Unnamed(n, m)
  /\ made' = [made EXCEPT ![n] = @ \cup {m}]
  /\ UNCHANGED <<discVars, procVars, calls, dialed, taken, panicked, faulty>>

WriteCallFails(n, m) ==
  /\ Unnamed(n, m)
  /\ Dead(m) \/ m \in panicked
  /\ Goes(n, "form", "err")
  /\ UNCHANGED <<discVars, bound, ids, acks, formVars, faulty>>

CallFails(n, m) ==
  /\ Call(n, m)
  /\ ~Accepting(m)
  /\ Goes(n, "form", "err")
  /\ UNCHANGED <<discVars, bound, ids, acks, formVars, faulty>>

\* The accepting thread reads the id, waiting if need be, and drops a connection
\* with another id, or from a node that it has accepted before.
TakeCall(n) ==
  /\ ppc[n] = "form"
  /\ Accepting(n)
  /\ calls[n] # <<>>
  /\ ~Unnamed(Head(calls[n]), n)
  /\ calls' = [calls EXCEPT ![n] = Tail(@)]
  /\ taken' = [taken EXCEPT ![n] =
       IF Head(calls[n]) \in ToReceive(n) THEN @ \cup {Head(calls[n])} ELSE @]
  /\ UNCHANGED <<discVars, procVars, dialed, made, panicked, faulty>>

\* expect("cannot read u32"): the caller has ended before it wrote its id.  The
\* listener goes with the thread, and the connections it has not accepted; the
\* node's main thread goes on until it joins.
TakeCallPanics(n) ==
  /\ ppc[n] = "form"
  /\ Accepting(n)
  /\ calls[n] # <<>>
  /\ Unnamed(Head(calls[n]), n) /\ Dead(Head(calls[n]))
  /\ panicked' = panicked \cup {n}
  /\ calls' = [calls EXCEPT ![n] = <<>>]
  /\ UNCHANGED <<discVars, procVars, dialed, made, taken, faulty>>

\* Both threads have finished; the number of connections is asserted.
Formed_NoJoin(n) ==
  /\ made[n] = ToConnect(n)
  /\ Goes(n, "form", "formed")
  /\ UNCHANGED <<discVars, bound, ids, acks, formVars, faulty>>

Formed(n) ==
  /\ made[n] = ToConnect(n)
  /\ taken[n] = ToReceive(n)
  /\ Goes(n, "form", "formed")
  /\ UNCHANGED <<discVars, bound, ids, acks, formVars, faulty>>

\* expect("form cluster thread panicked").
FormPanics(n) ==
  /\ made[n] = ToConnect(n)
  /\ n \in panicked
  /\ Goes(n, "form", "err")
  /\ UNCHANGED <<discVars, bound, ids, acks, formVars, faulty>>

-----------------------------------------------------------------------------
Crash(c) ==
  /\ c \in faulty
  /\ ~Dead(c) /\ ppc[c] # "formed"
  /\ ppc' = [ppc EXCEPT ![c] = "crashed"]
  /\ UNCHANGED <<discVars, bound, ids, acks, formVars, faulty>>

Discovery == Accept \/ Announce \/ ReadAcks \/ DiscoveryFails

Step(c) ==
  \/ Connect(c) \/ ConnectFails(c) \/ WriteId(c) \/ GetSignal(c) \/ SignalFails(c)
  \/ /\ c \in Node
     /\ \/ Bind(c) \/ Formed(c) \/ FormPanics(c)
        \/ \E m \in Node :
             \/ MakeCall(c, m) \/ CallFails(c, m)
             \/ WriteCallId(c, m) \/ WriteCallFails(c, m)

Acceptor(n) == TakeCall(n) \/ TakeCallPanics(n)

Next ==
  \/ Discovery
  \/ \E c \in Process : Step(c) \/ Crash(c)
  \/ \E n \in Node : Acceptor(n)

Spec == Init /\ [][Next]_vars

-----------------------------------------------------------------------------
(* Properties.                                                             *)

TypeOK ==
  /\ dpc \in {"accept", "announce", "acks", "done", "err"}
  /\ ppc \in [Process -> {"bind", "connect", "id", "signal", "form", "formed",
                           "err", "crashed"}]
  /\ told \subseteq found /\ found \subseteq ids
  /\ \A n \in Node :
       /\ made[n] \subseteq dialed[n] /\ dialed[n] \subseteq ToConnect(n)
       /\ taken[n] \subseteq ToReceive(n)
  /\ panicked \subseteq bound

\* No node calls another before all of them listen, although each is told to
\* form the cluster at a different time: a node refuses only when it has ended,
\* or when another has ended between connecting to it and writing its id, which
\* its accepting thread does not survive (read_party_id(..).expect).
CallsFindListeners == \A n, m \in Node :
  Call(n, m) => \/ Accepting(m) \/ Dead(m)
                \/ \E c \in Node : Dead(c) /\ Unnamed(c, m)

\* Two nodes that have formed the cluster share exactly one connection, which
\* one has made and the other has taken, and it is in nobody's queue.
OneConnection == \A n, m \in Node :
  n # m /\ ppc[n] = "formed" /\ ppc[m] = "formed" =>
    /\ (m \in made[n]) # (n \in made[m])
    /\ m \in made[n] <=> n \in taken[m]
    /\ calls[n] = <<>>

\* When discovery succeeds, exactly the nodes of the configuration have been
\* let in, and each has acknowledged; a stray never gets the signal.
DiscoveryIsExact ==
  /\ told \subseteq Node
  /\ dpc = "done" => found = Node /\ Node \subseteq acks
=============================================================================
