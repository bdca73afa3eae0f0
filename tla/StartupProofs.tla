---------------------------- MODULE StartupProofs ----------------------------
(***************************************************************************)
(* For any number of nodes and strays, any of which may crash: discovery   *)
(* lets in exactly the nodes of the configuration, no node is called       *)
(* before it listens, and two nodes that have formed the cluster share one *)
(* connection.  The start of a deployment is an instance of Cluster, so    *)
(* that this holds of it; nothing is dealt before all nodes have formed    *)
(* the cluster, and then each is dealt its own shares.                     *)
(***************************************************************************)
EXTENDS Startup, SequenceTheorems, FiniteSetTheorems, TLAPS

-----------------------------------------------------------------------------
(* Cluster.                                                                *)

States == {"bind", "connect", "id", "signal", "form", "formed", "err", "crashed"}

Shapes ==
  /\ calls \in [Node -> Seq(Node)]
  /\ dialed \in [Node -> SUBSET Node] /\ made \in [Node -> SUBSET Node]
  /\ taken \in [Node -> SUBSET Node]

\* Nobody is told to form the cluster before discovery has found all nodes.
Discovered ==
  /\ found \subseteq Node
  /\ dpc \in {"announce", "acks", "done"} \/ told # {} => found = Node
  /\ dpc = "done" => found \subseteq acks

\* A node listens before it gets in touch with the synchronizer, and forms the
\* cluster only when it is told to.
Listeners ==
  /\ \A n \in Node :
       ppc[n] \in {"connect", "id", "signal", "form", "formed"} \/ n \in ids => n \in bound
  /\ \A c \in Process : ppc[c] \in {"form", "formed"} => c \in told

\* A call is in the queue of the node that it was made to, until it is taken.
Connections ==
  /\ \A n \in Node : \A i \in 1 .. Len(calls[n]) :
       /\ calls[n][i] \in ToReceive(n) \ taken[n]
       /\ n \in dialed[calls[n][i]]
       /\ \A j \in 1 .. Len(calls[n]) : i # j => calls[n][i] # calls[n][j]
  /\ \A n \in Node : \A m \in taken[n] : n \in made[m]
  /\ \A n \in Node : ppc[n] = "formed" => made[n] = ToConnect(n) /\ taken[n] = ToReceive(n)

\* An accepting thread panics only over a node that ended before it wrote its id.
Panics == \A m \in panicked : \E c \in Node : Dead(c) /\ Unnamed(c, m)

CInv == TypeOK /\ Shapes /\ Discovered /\ Listeners /\ Connections /\ Panics

LEMMA Nodes == Node \subseteq Process /\ Node \subseteq Nat
  BY ClusterAssumption DEF Node, Process

LEMMA InitCInv == Init => CInv
<1> SUFFICES ASSUME Init PROVE CInv
  OBVIOUS
<1> USE Nodes DEF Init
<1>1. TypeOK /\ Shapes /\ Discovered
  BY ClusterAssumption DEF TypeOK, Shapes, Discovered
<1>2. Listeners
  BY DEF Listeners
<1>3. Connections /\ Panics
  BY DEF Connections, Panics
<1>4. QED
  BY <1>1, <1>2, <1>3 DEF CInv

\* What a step of discovery changes.
LEMMA DiscoveryPreserves == ASSUME CInv, Discovery PROVE CInv'
<1> USE Nodes DEF CInv
<1>1. UNCHANGED <<procVars, formVars, faulty>>
  BY DEF Discovery, Accept, Announce, ReadAcks, DiscoveryFails
<1>2. TypeOK' /\ Discovered' /\ told \subseteq told'
  <2>1. CASE Accept
    <3>1. /\ Head(queue) \in ids /\ told' = told
          /\ found' = IF Wanted(Head(queue)) THEN found \cup {Head(queue)} ELSE found
          /\ dpc' = IF Complete(found') THEN "announce" ELSE "accept"
      BY <2>1 DEF Accept
    <3>2. QED
      BY <1>1, <3>1 DEF TypeOK, Discovered, Wanted, Complete, procVars, formVars
  <2>2. CASE Announce
    BY <1>1, <2>2 DEF Announce, TypeOK, Discovered, procVars, formVars
  <2>3. CASE ReadAcks
    BY <1>1, <2>3 DEF ReadAcks, TypeOK, Discovered, procVars, formVars
  <2>4. CASE DiscoveryFails
    BY <1>1, <2>4 DEF DiscoveryFails, TypeOK, Discovered, procVars, formVars
  <2>5. QED
    BY <2>1, <2>2, <2>3, <2>4 DEF Discovery
<1>3. Shapes' /\ Listeners' /\ Connections' /\ Panics'
  BY <1>1, <1>2 DEF procVars, formVars, Shapes, Listeners, Connections, Panics, Dead, Unnamed
<1>4. QED
  BY <1>2, <1>3

\* A process goes on to another state than "formed", unless it has ended.
LEMMA GoesPreserves ==
  ASSUME CInv, NEW c \in Process, NEW from, NEW to \in States \ {"formed"}, Goes(c, from, to),
         from \notin {"err", "crashed"}, UNCHANGED <<dpc, found, told, formVars>>,
         bound \subseteq bound', ids \subseteq ids', acks \subseteq acks',
         ids' \subseteq ids \cup {c},
         to = "form" => c \in told,
         c \in Node /\ (to \in {"connect", "id", "signal", "form"} \/ ids' # ids) => c \in bound'
  PROVE  CInv'
<1> USE Nodes DEF CInv
<1>1. ppc' = [ppc EXCEPT ![c] = to] /\ ppc' \in [Process -> States]
  BY DEF Goes, TypeOK, States
<1>2. TypeOK' /\ Shapes'
  BY <1>1 DEF TypeOK, Shapes, formVars, States
<1>3. Discovered'
  BY DEF Discovered
<1>4. Listeners'
  BY <1>1 DEF Listeners, TypeOK, States
<1>5. Connections'
  BY <1>1 DEF Connections, TypeOK, States, formVars
<1>6. Panics'
  BY <1>1 DEF Panics, Dead, Unnamed, TypeOK, Goes, formVars
<1>7. QED
  BY <1>2, <1>3, <1>4, <1>5, <1>6

LEMMA WaitStartPreserves ==
  ASSUME CInv, NEW c \in Process,
         Connect(c) \/ ConnectFails(c) \/ WriteId(c) \/ GetSignal(c) \/ SignalFails(c) \/ Crash(c)
  PROVE  CInv'
<1> USE Nodes DEF formVars, discVars, States
<1>1. c \in Node /\ ppc[c] \in {"connect", "id", "signal"} => c \in bound
  BY DEF CInv, Listeners
<1>2. CASE Connect(c)
  BY <1>1, <1>2, GoesPreserves DEF Connect, Goes
<1>3. CASE ConnectFails(c)
  BY <1>3, GoesPreserves DEF ConnectFails
<1>4. CASE WriteId(c)
  BY <1>1, <1>4, GoesPreserves DEF WriteId, Goes
<1>5. CASE GetSignal(c)
  BY <1>1, <1>5, GoesPreserves DEF GetSignal, Goes
<1>6. CASE SignalFails(c)
  BY <1>6, GoesPreserves DEF SignalFails
<1>7. CASE Crash(c)
  BY <1>7, GoesPreserves DEF Crash, Goes, Dead
<1>8. QED
  BY <1>2, <1>3, <1>4, <1>5, <1>6, <1>7

LEMMA MakeCallPreserves ==
  ASSUME CInv, NEW n \in Node, NEW m \in Node, MakeCall(n, m)
  PROVE  CInv'
<1> USE Nodes DEF CInv
<1>1. /\ UNCHANGED <<discVars, procVars, made, taken, panicked, faulty>>
      /\ calls' = [calls EXCEPT ![m] = Append(calls[m], n)]
      /\ dialed' = [dialed EXCEPT ![n] = dialed[n] \cup {m}]
      /\ ppc[n] = "form" /\ m \in ToConnect(n) \ made[n] /\ dialed[n] = made[n]
  BY DEF MakeCall, Call
<1>2. Shapes' /\ TypeOK'
  BY <1>1 DEF Shapes, TypeOK, discVars, procVars
<1>3. Discovered' /\ Listeners'
  BY <1>1 DEF Discovered, Listeners, discVars, procVars
<1>4. n \in ToReceive(m) \ taken[m]
  BY <1>1 DEF Connections, ToReceive, ToConnect
<1>5. \A k \in Node : dialed[k] \subseteq dialed'[k]
  BY <1>1 DEF Shapes
<1>6. ASSUME NEW k \in Node, NEW i \in 1 .. Len(calls'[k])
      PROVE  /\ calls'[k][i] \in ToReceive(k) \ taken'[k]
             /\ k \in dialed'[calls'[k][i]]
             /\ \A j \in 1 .. Len(calls'[k]) : i # j => calls'[k][i] # calls'[k][j]
  <2>1. CASE k # m
    BY <1>1, <1>5, <1>6, <2>1 DEF Connections, Shapes, ToReceive
  <2>2. CASE k = m
    <3>1. calls[m] \in Seq(Node) /\ calls'[m] = Append(calls[m], n)
      BY <1>1 DEF Shapes
    <3>2. /\ Len(calls'[m]) = Len(calls[m]) + 1 /\ Len(calls[m]) \in Nat
          /\ calls'[m][Len(calls[m]) + 1] = n
          /\ \A j \in 1 .. Len(calls[m]) : calls'[m][j] = calls[m][j]
      BY <3>1
    <3>3. \A j \in 1 .. Len(calls[m]) : calls[m][j] # n
      BY <1>1 DEF Connections
    <3>4. m \in dialed'[n]
      BY <1>1 DEF Shapes
    <3>5. CASE i = Len(calls[m]) + 1
      BY <1>1, <1>4, <2>2, <3>2, <3>3, <3>4, <3>5
    <3>6. CASE i # Len(calls[m]) + 1
      <4>1. i \in 1 .. Len(calls[m]) /\ calls'[m][i] = calls[m][i] /\ calls[m][i] \in Node
        BY <1>6, <2>2, <3>1, <3>2, <3>6
      <4>2. calls[m][i] \in ToReceive(m) \ taken[m] /\ m \in dialed'[calls[m][i]]
        BY <1>5, <4>1 DEF Connections
      <4>3. \A j \in 1 .. Len(calls'[m]) : i # j => calls'[m][i] # calls'[m][j]
        <5>1. \A j \in 1 .. Len(calls[m]) : i # j => calls[m][i] # calls[m][j]
          BY <4>1 DEF Connections
        <5>2. \A j \in 1 .. Len(calls'[m]) : j \in 1 .. Len(calls[m]) \/ j = Len(calls[m]) + 1
          BY <3>2
        <5>3. QED
          BY <3>2, <3>3, <4>1, <5>1, <5>2
      <4>4. QED
        BY <1>1, <2>2, <4>1, <4>2, <4>3
    <3>7. QED
      BY <3>5, <3>6
  <2>3. QED
    BY <2>1, <2>2
<1>7. Connections'
  <2>1. \A k \in Node : ppc'[k] = "formed" => made'[k] = ToConnect(k) /\ taken'[k] = ToReceive(k)
    BY <1>1 DEF Connections, procVars, Shapes
  <2>2. \A k \in Node : \A l \in taken'[k] : k \in made'[l]
    BY <1>1, <1>5 DEF Connections, Shapes
  <2>3. QED
    BY <1>6, <2>1, <2>2 DEF Connections
<1>8. Panics'
  BY <1>1, <1>5 DEF Panics, Dead, Unnamed, procVars
<1>9. QED
  BY <1>2, <1>3, <1>7, <1>8

LEMMA WriteCallIdPreserves ==
  ASSUME CInv, NEW n \in Node, NEW m \in Node, WriteCallId(n, m)
  PROVE  CInv'
<1> USE Nodes DEF CInv
<1>1. /\ UNCHANGED <<discVars, procVars, calls, dialed, taken, panicked, faulty>>
      /\ made' = [made EXCEPT ![n] = made[n] \cup {m}]
      /\ ppc[n] = "form" /\ m \in dialed[n]
  BY DEF WriteCallId, Unnamed
<1>2. Shapes' /\ TypeOK'
  BY <1>1 DEF Shapes, TypeOK, discVars, procVars
<1>3. Discovered' /\ Listeners'
  BY <1>1 DEF Discovered, Listeners, discVars, procVars
<1>4. \A k \in Node : made[k] \subseteq made'[k] /\ (k # n => made'[k] = made[k])
  BY <1>1 DEF Shapes
<1>5. \A k \in Node : \A l \in taken'[k] : k \in made'[l]
  BY <1>1, <1>4 DEF Connections, Shapes
<1>6. Connections'
  BY <1>1, <1>4, <1>5 DEF Connections, procVars
<1>7. Panics'
  BY <1>1, <1>4 DEF Panics, Dead, Unnamed, procVars
<1>8. QED
  BY <1>2, <1>3, <1>6, <1>7

LEMMA TakeCallPreserves ==
  ASSUME CInv, NEW n \in Node, TakeCall(n)
  PROVE  CInv'
<1> USE Nodes DEF CInv
<1>1. /\ UNCHANGED <<discVars, procVars, dialed, made, panicked, faulty>>
      /\ ppc[n] = "form" /\ calls[n] # <<>> /\ ~Unnamed(Head(calls[n]), n)
      /\ calls' = [calls EXCEPT ![n] = Tail(calls[n])]
      /\ taken' = [taken EXCEPT ![n] =
           IF Head(calls[n]) \in ToReceive(n) THEN taken[n] \cup {Head(calls[n])} ELSE taken[n]]
  BY DEF TakeCall
<1>2. /\ calls[n] \in Seq(Node) /\ Len(calls[n]) \in Nat \ {0}
      /\ Head(calls[n]) = calls[n][1]
      /\ Tail(calls[n]) \in Seq(Node) /\ Len(Tail(calls[n])) = Len(calls[n]) - 1
      /\ \A i \in 1 .. Len(Tail(calls[n])) : Tail(calls[n])[i] = calls[n][i + 1]
  BY <1>1, HeadTailProperties DEF Shapes
<1>3. /\ calls[n][1] \in ToReceive(n) \ taken[n] /\ n \in made[calls[n][1]]
      /\ \A j \in 1 .. Len(calls[n]) : j # 1 => calls[n][1] # calls[n][j]
  BY <1>1, <1>2 DEF Connections, Unnamed
<1>4. taken'[n] = taken[n] \cup {calls[n][1]} /\ calls[n][1] \in Node
  BY <1>1, <1>2, <1>3 DEF Shapes, ToReceive
<1>5. \A k \in Node : k # n => taken'[k] = taken[k] /\ calls'[k] = calls[k]
  BY <1>1 DEF Shapes
<1>6. calls'[n] = Tail(calls[n])
  BY <1>1 DEF Shapes
<1>7. Shapes' /\ TypeOK'
  BY <1>1, <1>2, <1>3, <1>4, <1>5 DEF Shapes, TypeOK, discVars, procVars
<1>8. Discovered' /\ Listeners'
  BY <1>1 DEF Discovered, Listeners, discVars, procVars
<1>9. ASSUME NEW k \in Node, NEW i \in 1 .. Len(calls'[k])
      PROVE  /\ calls'[k][i] \in ToReceive(k) \ taken'[k]
             /\ k \in dialed'[calls'[k][i]]
             /\ \A j \in 1 .. Len(calls'[k]) : i # j => calls'[k][i] # calls'[k][j]
  <2>1. CASE k # n
    BY <1>1, <1>5, <2>1 DEF Connections
  <2>2. CASE k = n
    <3>1. /\ Len(calls'[n]) = Len(calls[n]) - 1 /\ i \in 1 .. Len(calls'[n])
          /\ \A j \in 1 .. Len(calls'[n]) : calls'[n][j] = calls[n][j + 1]
      BY <1>2, <1>6, <2>2
    <3>2. /\ i + 1 \in 1 .. Len(calls[n]) /\ i + 1 # 1 /\ calls'[n][i] = calls[n][i + 1]
          /\ \A j \in 1 .. Len(calls'[n]) : j + 1 \in 1 .. Len(calls[n])
      BY <1>2, <3>1
    <3>3. calls[n][i + 1] \in ToReceive(n) \ taken[n] /\ n \in dialed[calls[n][i + 1]]
      BY <3>2 DEF Connections
    <3>4. ASSUME NEW j \in 1 .. Len(calls'[n]), i # j PROVE calls[n][i + 1] # calls[n][j + 1]
      <4>1. i + 1 # j + 1
        BY <3>1, <3>4
      <4>2. QED
        BY <3>2, <4>1 DEF Connections
    <3>5. calls[n][i + 1] # calls[n][1]
      BY <1>3, <3>2
    <3>6. calls'[n][i] \in ToReceive(n) \ taken'[n]
      BY <1>4, <3>2, <3>3, <3>5
    <3>7. n \in dialed'[calls'[n][i]]
      BY <1>1, <3>2, <3>3
    <3>8. \A j \in 1 .. Len(calls'[n]) : i # j => calls'[n][i] # calls'[n][j]
      BY <3>1, <3>2, <3>4
    <3>9. QED
      BY <2>2, <3>6, <3>7, <3>8
  <2>3. QED
    BY <2>1, <2>2
<1>10. Connections'
  <2>1. \A k \in Node : ppc'[k] = "formed" => made'[k] = ToConnect(k) /\ taken'[k] = ToReceive(k)
    BY <1>1, <1>5 DEF Connections, procVars
  <2>2. \A k \in Node : \A l \in taken'[k] : k \in made'[l]
    <3>1. ASSUME NEW k \in Node, NEW l \in taken'[k] PROVE k \in made[l]
      <4>1. CASE k = n
        BY <1>3, <1>4, <3>1, <4>1 DEF Connections
      <4>2. CASE k # n
        BY <1>5, <3>1, <4>2 DEF Connections
      <4>3. QED
        BY <4>1, <4>2
    <3>2. QED
      BY <1>1, <3>1
  <2>3. QED
    BY <1>9, <2>1, <2>2 DEF Connections
<1>11. Panics'
  BY <1>1 DEF Panics, Dead, Unnamed, procVars
<1>12. QED
  BY <1>7, <1>8, <1>10, <1>11

LEMMA TakeCallPanicsPreserves ==
  ASSUME CInv, NEW n \in Node, TakeCallPanics(n)
  PROVE  CInv'
<1> USE Nodes DEF CInv
<1>1. /\ UNCHANGED <<discVars, procVars, dialed, made, taken, faulty>>
      /\ n \in bound /\ calls[n] # <<>>
      /\ Unnamed(Head(calls[n]), n) /\ Dead(Head(calls[n]))
      /\ panicked' = panicked \cup {n}
      /\ calls' = [calls EXCEPT ![n] = <<>>]
  BY DEF TakeCallPanics, Accepting
<1>2. Head(calls[n]) \in Node
  BY <1>1, HeadTailProperties DEF Shapes
<1>3. /\ calls'[n] = <<>> /\ calls' \in [Node -> Seq(Node)]
      /\ \A k \in Node : k # n => calls'[k] = calls[k]
  BY <1>1 DEF Shapes
<1>4. Shapes' /\ TypeOK'
  BY <1>1, <1>3 DEF Shapes, TypeOK, discVars, procVars
<1>5. Discovered' /\ Listeners'
  BY <1>1 DEF Discovered, Listeners, discVars, procVars
<1>6. Connections'
  <2>1. ASSUME NEW k \in Node, NEW i \in 1 .. Len(calls'[k]) PROVE k # n /\ calls'[k] = calls[k]
    BY <1>3, <2>1
  <2>2. \A k \in Node : \A i \in 1 .. Len(calls'[k]) :
          /\ calls'[k][i] \in ToReceive(k) \ taken'[k]
          /\ k \in dialed'[calls'[k][i]]
          /\ \A j \in 1 .. Len(calls'[k]) : i # j => calls'[k][i] # calls'[k][j]
    BY <1>1, <2>1 DEF Connections
  <2>3. /\ \A k \in Node : \A l \in taken'[k] : k \in made'[l]
        /\ \A k \in Node : ppc'[k] = "formed" => made'[k] = ToConnect(k) /\ taken'[k] = ToReceive(k)
    BY <1>1 DEF Connections, procVars
  <2>4. QED
    BY <2>2, <2>3 DEF Connections
<1>7. Panics'
  BY <1>1, <1>2 DEF Panics, Dead, Unnamed, procVars
<1>8. QED
  BY <1>4, <1>5, <1>6, <1>7

LEMMA FormedPreserves ==
  ASSUME CInv, NEW n \in Node, Formed(n)
  PROVE  CInv'
<1> USE Nodes DEF CInv
<1>1. /\ UNCHANGED <<discVars, bound, ids, acks, formVars, faulty>>
      /\ ppc[n] = "form" /\ ppc' = [ppc EXCEPT ![n] = "formed"]
      /\ made[n] = ToConnect(n) /\ taken[n] = ToReceive(n)
  BY DEF Formed, Goes
<1>2. Shapes' /\ TypeOK' /\ Discovered'
  BY <1>1 DEF Shapes, TypeOK, Discovered, discVars, formVars
<1>3. Listeners'
  BY <1>1 DEF Listeners, TypeOK, discVars
<1>4. Connections'
  BY <1>1 DEF Connections, TypeOK, formVars
<1>5. Panics'
  BY <1>1 DEF Panics, Dead, Unnamed, TypeOK, formVars
<1>6. QED
  BY <1>2, <1>3, <1>4, <1>5

\* The invariant of discovery and cluster formation, from which the theorems
\* about start_discovery and form_cluster follow.
THEOREM ClusterInductive == Spec => []CInv
<1>1. CInv /\ [Next]_vars => CInv'
  <2> SUFFICES ASSUME CInv, [Next]_vars PROVE CInv'
    OBVIOUS
  <2>1. CASE Discovery
    BY <2>1, DiscoveryPreserves
  <2>2. ASSUME NEW c \in Process, Step(c) \/ Crash(c) PROVE CInv'
    <3>1. ASSUME c \in Node, Bind(c) PROVE CInv'
      BY <3>1, GoesPreserves DEF Bind, discVars, formVars, States
    <3>2. ASSUME c \in Node, NEW m \in Node, CallFails(c, m) PROVE CInv'
      BY <3>2, GoesPreserves DEF CallFails, discVars, formVars, States
    <3>3. ASSUME c \in Node, NEW m \in Node, WriteCallFails(c, m) PROVE CInv'
      BY <3>3, GoesPreserves DEF WriteCallFails, discVars, formVars, States
    <3>4. ASSUME c \in Node, FormPanics(c) PROVE CInv'
      BY <3>4, GoesPreserves DEF FormPanics, discVars, formVars, States
    <3>5. QED
      BY <2>2, <3>1, <3>2, <3>3, <3>4, WaitStartPreserves, MakeCallPreserves,
         WriteCallIdPreserves, FormedPreserves DEF Step
  <2>3. ASSUME NEW n \in Node, Acceptor(n) PROVE CInv'
    BY <2>3, TakeCallPreserves, TakeCallPanicsPreserves DEF Acceptor
  <2>4. CASE UNCHANGED vars
    BY <2>4 DEF vars, discVars, procVars, formVars, CInv, TypeOK, Shapes, Discovered,
                Listeners, Connections, Panics, Dead, Unnamed
  <2>5. QED
    BY <2>1, <2>2, <2>3, <2>4 DEF Next
<1>2. QED
  BY <1>1, InitCInv, PTL DEF Spec

-----------------------------------------------------------------------------
\* No node is refused by another that is alive, unless its accepting thread has
\* panicked over a third one that ended in the middle of its call: form_cluster
\* calls only nodes that have bound their listener and still accept.
THEOREM ListenersHold == Spec => []CallsFindListeners
<1>1. CInv => CallsFindListeners
  <2> SUFFICES ASSUME CInv, NEW n \in Node, NEW m \in Node, Call(n, m), ~Dead(m),
                      ~\E c \in Node : Dead(c) /\ Unnamed(c, m)
               PROVE  Accepting(m)
    BY DEF CallsFindListeners
  <2>1. m \in bound
    BY Nodes DEF Call, CInv, TypeOK, Discovered, Listeners
  <2>2. n \in ToReceive(m) \ taken[m]
    BY DEF Call, CInv, Connections, ToConnect, ToReceive
  <2>3. m \notin panicked
    BY DEF CInv, Panics
  <2>4. QED
    BY <2>1, <2>2, <2>3 DEF Accepting
<1>2. QED
  BY <1>1, ClusterInductive, PTL

LEMMA FormedConnected == CInv => OneConnection
<1> SUFFICES ASSUME CInv, NEW n \in Node, NEW m \in Node, n # m,
                    ppc[n] = "formed", ppc[m] = "formed"
             PROVE  /\ (m \in made[n]) # (n \in made[m])
                    /\ m \in made[n] <=> n \in taken[m]
                    /\ calls[n] = <<>>
  BY DEF OneConnection
<1>1. /\ made[n] = ToConnect(n) /\ taken[n] = ToReceive(n)
      /\ made[m] = ToConnect(m) /\ taken[m] = ToReceive(m)
  BY DEF CInv, Connections
<1>2. n < m \/ m < n
  BY Nodes
<1>3. /\ (m \in made[n]) # (n \in made[m])
      /\ m \in made[n] <=> n \in taken[m]
  BY <1>1, <1>2, Nodes DEF ToConnect, ToReceive
<1>4. calls[n] = <<>>
  <2>1. calls[n] \in Seq(Node)
    BY DEF CInv, Shapes
  <2>2. Len(calls[n]) \in Nat /\ 1 \notin 1 .. Len(calls[n])
    BY <1>1, <2>1 DEF CInv, Connections
  <2>3. QED
    BY <2>1, <2>2
<1>5. QED
  BY <1>3, <1>4

\* Any two nodes that have formed the cluster share one connection, which the
\* one with the higher id has made (form_cluster).
THEOREM OneConnectionHolds == Spec => []OneConnection
  BY ClusterInductive, FormedConnected, PTL

\* start_discovery returns the configured nodes, all of them and no other, and
\* each has acknowledged.
THEOREM DiscoveryHolds == Spec => []DiscoveryIsExact
<1>1. CInv => DiscoveryIsExact
  BY DEF CInv, TypeOK, Discovered, DiscoveryIsExact
<1>2. QED
  BY <1>1, ClusterInductive, PTL

-----------------------------------------------------------------------------
(* Startup.                                                                *)

\* A node of a deployment does in the formation of the cluster what Cluster's
\* does: connecting to fake_prep and being dealt to change nothing of it.
THEOREM StartupImplementsCluster == StartupSpec => Spec
<1>1. StartupInit => Init
  BY DEF StartupInit
<1>2. [StartupNext]_allVars => [Next]_vars
  <2> SUFFICES ASSUME [StartupNext]_allVars PROVE Next \/ UNCHANGED vars
    OBVIOUS
  <2>1. CASE InCluster(Discovery \/ \E n \in Node : Acceptor(n))
    BY <2>1 DEF InCluster, Next
  <2>2. ASSUME NEW c \in Process, MainThread(c) \/ InCluster(Crash(c)) \/ Leave(c)
        PROVE  Next \/ UNCHANGED vars
    BY <2>2 DEF MainThread, InCluster, Next, ConnectPrep, WritePrepId, Leave
  <2>3. CASE \E c \in Strays : ConnectPrep(c)
    BY <2>3 DEF ConnectPrep
  <2>4. CASE BindPrep \/ FakePrep
    BY <2>4 DEF BindPrep, FakePrep, AcceptPrep, AcceptPrepFails, Deal, DealFails
  <2>5. CASE UNCHANGED allVars
    BY <2>5 DEF allVars
  <2>6. QED
    BY <2>1, <2>2, <2>3, <2>4, <2>5 DEF StartupNext
<1>3. QED
  BY <1>1, <1>2, PTL DEF StartupSpec, Spec

\* In a deployment, whoever ends early, a node that is called listens, unless it
\* has ended or its accepting thread has panicked over a caller that ended before
\* it wrote its id (form_cluster).
THEOREM StartupListeners == StartupSpec => []CallsFindListeners
  BY StartupImplementsCluster, ListenersHold, PTL

\* The variables of the formation keep their types in a deployment.
THEOREM StartupTypes == StartupSpec => []TypeOK
<1>1. CInv => TypeOK
  BY DEF CInv
<1>2. QED
  BY <1>1, StartupImplementsCluster, ClusterInductive, PTL

\* Nodes that have formed the cluster have one connection per pair when they
\* come to fake_prep (form_cluster).
THEOREM StartupOneConnection == StartupSpec => []OneConnection
  BY StartupImplementsCluster, OneConnectionHolds, PTL

\* In a deployment start_discovery returns the configured nodes, and no stray
\* (start_discovery).
THEOREM StartupDiscovery == StartupSpec => []DiscoveryIsExact
  BY StartupImplementsCluster, DiscoveryHolds, PTL

-----------------------------------------------------------------------------
(* Nothing is dealt before the cluster is there.                           *)

\* A node gets in touch with fake_prep after it has formed the cluster, and
\* there are as many connections as nodes only when all nodes are among them.
Named ==
  /\ npc \in [Process -> {"idle", "id", "run", "err", "ended"}]
  /\ \A n \in Node : npc[n] = "id" \/ n \in named => ppc[n] = "formed"

Joined ==
  /\ joined \in Seq(Node)
  /\ \A i \in 1 .. Len(joined) :
       /\ joined[i] \in named
       /\ \A j \in 1 .. Len(joined) : i # j => joined[i] # joined[j]
  /\ fpc = "deal" \/ written > 0 => Len(joined) = N
  /\ fpc \in {"boot", "accept"} => written = 0

SInv == Named /\ Joined

LEMMA FormedStays ==
  ASSUME CInv, [Next]_vars, NEW n \in Node, ppc[n] = "formed"
  PROVE  ppc'[n] = "formed"
<1> USE Nodes
<1>1. ppc \in [Process -> States]
  BY DEF CInv, TypeOK, States
<1>2. ASSUME NEW c \in Process, Step(c) PROVE ppc'[n] = "formed"
  <2>1. ASSUME Connect(c) \/ ConnectFails(c) \/ WriteId(c) \/ GetSignal(c) \/ SignalFails(c)
        PROVE  ppc'[n] = "formed"
    BY <1>1, <2>1 DEF Connect, ConnectFails, WriteId, GetSignal, SignalFails, Goes
  <2>2. ASSUME Bind(c) \/ Formed(c) PROVE ppc'[n] = "formed"
    BY <1>1, <2>2 DEF Bind, Formed, Goes
  <2>3. ASSUME NEW m \in Node, MakeCall(c, m) \/ CallFails(c, m) PROVE ppc'[n] = "formed"
    BY <1>1, <2>3 DEF MakeCall, CallFails, Goes, procVars
  <2>4. ASSUME NEW m \in Node, WriteCallId(c, m) \/ WriteCallFails(c, m) \/ FormPanics(c)
        PROVE  ppc'[n] = "formed"
    BY <1>1, <2>4 DEF WriteCallId, WriteCallFails, FormPanics, Goes, procVars
  <2>5. QED
    BY <1>2, <2>1, <2>2, <2>3, <2>4 DEF Step
<1>3. ASSUME NEW c \in Process, Crash(c) PROVE ppc'[n] = "formed"
  BY <1>1, <1>3 DEF Crash
<1>4. CASE Discovery
  BY <1>4 DEF Discovery, Accept, Announce, ReadAcks, DiscoveryFails, procVars
<1>5. ASSUME NEW m \in Node, Acceptor(m) PROVE ppc'[n] = "formed"
  BY <1>5 DEF Acceptor, TakeCall, TakeCallPanics, procVars
<1>6. CASE UNCHANGED vars
  BY <1>6 DEF vars, procVars
<1>7. QED
  BY <1>2, <1>3, <1>4, <1>5, <1>6 DEF Next

\* A step within the cluster.
LEMMA ClusterStepPreserves ==
  ASSUME CInv, SInv, [Next]_vars, UNCHANGED <<dealVars, nodeVars>>
  PROVE  SInv'
  BY FormedStays DEF SInv, Named, Joined, dealVars, nodeVars

LEMMA NodeStepPreserves ==
  ASSUME SInv, NEW c \in Process, ConnectPrep(c) \/ WritePrepId(c) \/ Leave(c)
  PROVE  SInv'
<1>1. UNCHANGED <<vars, fpc, joined, written>> /\ ppc' = ppc
  BY DEF ConnectPrep, WritePrepId, Leave, dealVars, vars, procVars
<1>2. Named'
  <2>1. CASE ConnectPrep(c)
    <3>1. /\ c \in Node => ppc[c] = "formed"
          /\ named' = named
          /\ \E to \in {"id", "err"} : npc' = [npc EXCEPT ![c] = to]
      BY <2>1 DEF ConnectPrep, ReadyForPrep
    <3>2. QED
      BY <1>1, <3>1 DEF SInv, Named
  <2>2. CASE WritePrepId(c)
    BY <1>1, <2>2 DEF WritePrepId, SInv, Named
  <2>3. CASE Leave(c)
    BY <1>1, <2>3 DEF Leave, SInv, Named
  <2>4. QED
    BY <2>1, <2>2, <2>3
<1>3. named \subseteq named'
  BY DEF ConnectPrep, WritePrepId, Leave
<1>4. Joined'
  BY <1>1, <1>3 DEF SInv, Joined
<1>5. QED
  BY <1>2, <1>4 DEF SInv

LEMMA FakePrepPreserves ==
  ASSUME SInv, BindPrep \/ FakePrep
  PROVE  SInv'
<1>1. Named'
  BY DEF SInv, Named, BindPrep, FakePrep, AcceptPrep, AcceptPrepFails, Deal, DealFails,
         nodeVars, vars, procVars
<1>2. CASE AcceptPrep
  <2>1. /\ Head(waiting) \in named /\ UNCHANGED <<named, written>>
        /\ fpc' = IF Len(joined') = N THEN "deal" ELSE fpc
        /\ fpc = "accept"
        /\ joined' = IF Expects(Head(waiting)) THEN Append(joined, Head(waiting)) ELSE joined
    BY <1>2 DEF AcceptPrep, nodeVars
  <2>2. CASE ~Expects(Head(waiting))
    <3>1. joined' = joined /\ written' = 0 /\ (fpc' = "deal" => Len(joined) = N)
      BY <2>1, <2>2 DEF SInv, Joined
    <3>2. QED
      BY <1>1, <2>1, <3>1 DEF SInv, Joined
  <2>3. CASE Expects(Head(waiting))
    <3>1. PICK c : c = Head(waiting)
      OBVIOUS
    <3>2. c \in Node /\ c \in named /\ joined' = Append(joined, c)
          /\ \A i \in 1 .. Len(joined) : joined[i] # c
      BY <2>1, <2>3, <3>1 DEF Expects
    <3>3. joined \in Seq(Node)
      BY DEF SInv, Joined
    <3>4. /\ joined' \in Seq(Node) /\ Len(joined') = Len(joined) + 1 /\ Len(joined) \in Nat
          /\ joined'[Len(joined) + 1] = c
          /\ \A i \in 1 .. Len(joined) : joined'[i] = joined[i]
      BY <3>2, <3>3
    <3>5. ASSUME NEW i \in 1 .. Len(joined')
          PROVE  /\ joined'[i] \in named'
                 /\ \A j \in 1 .. Len(joined') : i # j => joined'[i] # joined'[j]
      BY <2>1, <3>2, <3>4 DEF SInv, Joined
    <3>6. written' = 0 /\ (fpc' = "deal" => Len(joined') = N)
      BY <2>1 DEF SInv, Joined
    <3>7. Joined'
      BY <3>4, <3>5, <3>6 DEF Joined
    <3>8. QED
      BY <1>1, <3>7 DEF SInv
  <2>4. QED
    BY <1>1, <2>2, <2>3 DEF SInv
<1>3. CASE BindPrep \/ AcceptPrepFails \/ Deal \/ DealFails
  <2>1. UNCHANGED <<joined, named>>
    BY <1>3 DEF BindPrep, AcceptPrepFails, Deal, DealFails, nodeVars
  <2>2. /\ fpc' = "deal" \/ written' > 0 => fpc = "deal" \/ written > 0
        /\ fpc' \in {"boot", "accept"} => fpc \in {"boot", "accept"} /\ written' = written
    BY <1>3 DEF BindPrep, AcceptPrepFails, Deal, DealFails
  <2>3. QED
    BY <1>1, <2>1, <2>2 DEF SInv, Joined
<1>4. QED
  BY <1>2, <1>3 DEF FakePrep

LEMMA InitSInv == StartupInit => SInv
  BY Nodes DEF StartupInit, SInv, Named, Joined

\* N different nodes are all nodes.
LEMMA AllJoined ==
  ASSUME Joined, Len(joined) = N
  PROVE  /\ Range(joined) = Node
         /\ \A n \in Node : n \in named
<1> DEFINE R == Range(joined)
<1>1. joined \in [1 .. N -> R] /\ R \subseteq Node
  BY DEF Joined, Range
<1>2. IsFiniteSet(1 .. N) /\ Cardinality(1 .. N) = N
  BY FS_Interval, ClusterAssumption
<1>3. IsFiniteSet(Node) /\ Cardinality(Node) = N
  BY FS_Interval, ClusterAssumption DEF Node
<1>4. joined \in Injection(1 .. N, R)
  BY <1>1 DEF Joined, Injection, IsInjective
<1>5. joined \in Surjection(1 .. N, R)
  BY <1>1 DEF Surjection, Range
<1>6. ExistsBijection(1 .. N, R)
  BY <1>4, <1>5 DEF Bijection, ExistsBijection
<1>7. IsFiniteSet(R) /\ Cardinality(R) = N
  BY <1>2, <1>6, FS_Bijection
<1>8. R = Node
  BY <1>1, <1>3, <1>7, FS_Subset
<1>9. \A n \in Node : n \in named
  BY <1>1, <1>8 DEF Joined, Range
<1>10. QED
  BY <1>8, <1>9

\* Both invariants hold in a deployment.
LEMMA StartupKeeps == StartupSpec => [](CInv /\ SInv)
<1>1. CInv /\ SInv /\ [Next]_vars /\ [StartupNext]_allVars => SInv'
  <2> SUFFICES ASSUME CInv, SInv, [Next]_vars, [StartupNext]_allVars PROVE SInv'
    OBVIOUS
  <2>1. ASSUME UNCHANGED <<dealVars, nodeVars>> PROVE SInv'
    BY <2>1, ClusterStepPreserves
  <2>2. CASE InCluster(Discovery \/ \E n \in Node : Acceptor(n)) \/ UNCHANGED allVars
    BY <2>1, <2>2 DEF InCluster, allVars
  <2>3. ASSUME NEW c \in Process, MainThread(c) \/ InCluster(Crash(c)) \/ Leave(c) PROVE SInv'
    BY <2>1, <2>3, NodeStepPreserves DEF MainThread, InCluster
  <2>4. CASE \E c \in Strays : ConnectPrep(c)
    BY <2>4, NodeStepPreserves DEF Process
  <2>5. CASE BindPrep \/ FakePrep
    BY <2>5, FakePrepPreserves
  <2>6. QED
    BY <2>2, <2>3, <2>4, <2>5 DEF StartupNext
<1>2. QED
  BY <1>1, InitSInv, StartupImplementsCluster, ClusterInductive, PTL
     DEF StartupSpec, Spec

\* No preprocessing is dealt before every node has been told to form the
\* cluster and has formed it, although fake_prep_main hears nothing from the
\* synchronizer.
THEOREM PrepWaitsHolds == StartupSpec => []PrepWaits
<1>1. CInv /\ SInv => PrepWaits
  <2> SUFFICES ASSUME CInv, SInv, written > 0
               PROVE  told = Node /\ \A n \in Node : ppc[n] = "formed"
    BY DEF PrepWaits
  <2>1. \A n \in Node : ppc[n] = "formed"
    BY AllJoined DEF SInv, Joined, Named
  <2>2. Node \subseteq told
    BY <2>1, Nodes DEF CInv, Listeners
  <2>3. told \subseteq Node
    BY DEF CInv, TypeOK, Discovered
  <2>4. QED
    BY <2>1, <2>2, <2>3
<1>2. QED
  BY <1>1, StartupKeeps, PTL

-----------------------------------------------------------------------------
(* Every node is dealt its own shares.                                     *)

\* Message w is share i of element k when k elements and i shares have gone.
LEMMA Quotient ==
  ASSUME NEW k \in Nat, NEW i \in 0 .. N - 1
  PROVE  /\ k * N + i \in Nat
         /\ (k * N + i) \div N = k /\ (k * N + i) % N = i
<1>1. N \in Nat \ {0} /\ k * N \in Nat
  BY ClusterAssumption
<1>2. k * N + i \in Nat
  BY <1>1
<1> DEFINE w == k * N + i
           q == w \div N
           r == w % N
<1>3. q \in Int /\ r \in 0 .. N - 1 /\ w = N * q + r
  BY <1>1, <1>2
<1>4. N * (q - k) = i - r
  BY <1>1, <1>3
<1>5. \A d \in Int : d >= 1 => N * d >= N
  BY <1>1
<1>6. \A d \in Int : d <= -1 => N * d <= -N
  BY <1>1
<1>7. q - k = 0
  BY <1>1, <1>3, <1>4, <1>5, <1>6
<1>8. QED
  BY <1>1, <1>2, <1>3, <1>4, <1>7

\* Sorted by id, the connections of all nodes are in the order of the nodes.
LEMMA Sorted ==
  ASSUME Joined, Len(joined) = N, NEW i \in 0 .. N - 1
  PROVE  Streams[i + 1] = i
<1>1. Range(joined) = Node /\ i + 1 \in DOMAIN joined /\ N \in Nat
  BY AllJoined, ClusterAssumption DEF Joined
<1>2. ASSUME NEW c \in Node PROVE Cardinality({d \in Node : d < c}) = c
  <2>1. {d \in Node : d < c} = 0 .. c - 1 /\ c \in Nat
    BY <1>1 DEF Node
  <2>2. /\ 0 \in Int /\ c - 1 \in Int
        /\ (IF 0 > c - 1 THEN 0 ELSE (c - 1) - 0 + 1) = c
    BY <2>1
  <2>3. Cardinality(0 .. c - 1) = IF 0 > c - 1 THEN 0 ELSE (c - 1) - 0 + 1
    BY <2>2, FS_Interval
  <2>4. QED
    BY <2>1, <2>2, <2>3, Zenon
<1>3. i \in Node
  BY DEF Node
<1>4. Streams[i + 1] = CHOOSE c \in Node : Cardinality({d \in Node : d < c}) = i
  <2>1. Streams[i + 1] =
          CHOOSE c \in Range(joined) : Cardinality({d \in Range(joined) : d < c}) = (i + 1) - 1
    BY <1>1, Zenon DEF Streams
  <2>2. (i + 1) - 1 = i
    OBVIOUS
  <2>3. QED
    BY <1>1, <2>1, <2>2, Zenon
<1>5. QED
  BY <1>2, <1>3, <1>4

Messages == {PrepMsg(w) : w \in Nat}

\* k elements have been dealt, and i shares of the next one.
Progress(k, i) ==
  /\ written = k * N + i
  /\ \A n \in Node : Len(dealt[n]) = IF n < i THEN k + 1 ELSE k

DealInv ==
  /\ dealt \in [Process -> Seq(Messages)]
  /\ \A n \in Node : \A j \in 1 .. Len(dealt[n]) : dealt[n][j] = PrepMsg((j - 1) * N + n)
  /\ \E k \in Nat : \E i \in 0 .. N - 1 : Progress(k, i)

LEMMA InitDealInv == StartupInit => DealInv
<1> SUFFICES ASSUME StartupInit PROVE DealInv
  OBVIOUS
<1>1. dealt = [c \in Process |-> <<>>] /\ written = 0 /\ \A n \in Node : dealt[n] = <<>>
  BY Nodes DEF StartupInit
<1>2. 0 \in 0 .. N - 1 /\ written = 0 * N + 0 /\ \A n \in Node : ~(n < 0)
  BY <1>1, ClusterAssumption DEF Node
<1>3. Progress(0, 0)
  BY <1>1, <1>2 DEF Progress
<1>4. QED
  BY <1>1, <1>2, <1>3 DEF DealInv

LEMMA DealPreserves ==
  ASSUME DealInv, SInv, Deal
  PROVE  DealInv'
<1>1. CASE written = Total
  BY <1>1 DEF Deal, DealInv, Progress
<1>2. CASE written # Total
  <2>1. PICK k \in Nat, i \in 0 .. N - 1 : Progress(k, i)
    BY DEF DealInv
  <2>2. written \in Nat /\ written = k * N + i /\ written % N = i
    BY <2>1, Quotient DEF Progress
  <2>3. Joined /\ Len(joined) = N
    BY DEF SInv, Joined, Deal
  <2>4. Receiver = i /\ i \in Node /\ i \in Process
    BY <2>2, <2>3, Sorted, Nodes DEF Receiver, Node
  <2>5. /\ written' = written + 1
        /\ dealt' = [dealt EXCEPT ![i] = Append(dealt[i], PrepMsg(written))]
    BY <1>2, <2>4 DEF Deal
  <2>6. PrepMsg(written) \in Messages /\ dealt[i] \in Seq(Messages) /\ Len(dealt[i]) = k
    BY <2>1, <2>2, <2>4 DEF Messages, DealInv, Progress
  <2>7. /\ Append(dealt[i], PrepMsg(written)) \in Seq(Messages)
        /\ Len(Append(dealt[i], PrepMsg(written))) = k + 1
        /\ \A j \in 1 .. k + 1 : Append(dealt[i], PrepMsg(written))[j] =
             IF j <= k THEN dealt[i][j] ELSE PrepMsg(written)
    BY <2>6
  <2>8. dealt' \in [Process -> Seq(Messages)]
    BY <2>5, <2>7 DEF DealInv
  <2>9. /\ dealt'[i] = Append(dealt[i], PrepMsg(written))
        /\ \A n \in Node : n # i => dealt'[n] = dealt[n]
    BY <2>4, <2>5, Nodes DEF DealInv
  <2>10. ASSUME NEW n \in Node, NEW j \in 1 .. Len(dealt'[n])
         PROVE  dealt'[n][j] = PrepMsg((j - 1) * N + n)
    <3>1. CASE n # i
      BY <2>9, <2>10, <3>1 DEF DealInv
    <3>2. CASE n = i /\ j <= k
      <4>1. j \in 1 .. k + 1 /\ j \in 1 .. Len(dealt[i])
        BY <2>6, <2>10, <3>2
      <4>2. dealt'[n][j] = dealt[i][j]
        BY <2>7, <2>9, <3>2, <4>1
      <4>3. dealt[i][j] = PrepMsg((j - 1) * N + i)
        BY <2>4, <4>1 DEF DealInv
      <4>4. QED
        BY <3>2, <4>2, <4>3
    <3>3. CASE n = i /\ j = k + 1
      <4>1. (j - 1) * N + n = written
        BY <2>2, <3>3
      <4>2. QED
        BY <2>7, <2>9, <3>3, <4>1
    <3>4. QED
      BY <2>7, <2>9, <3>1, <3>2, <3>3
  <2>11. \A n \in Node : Len(dealt'[n]) = IF n <= i THEN k + 1 ELSE k
    BY <2>1, <2>7, <2>9, ClusterAssumption DEF Progress, Node
  <2>12. \E l \in Nat : \E m \in 0 .. N - 1 : Progress(l, m)'
    <3>1. CASE i < N - 1
      <4>1. i + 1 \in 0 .. N - 1 /\ written' = k * N + (i + 1)
        BY <2>2, <2>5, <3>1, ClusterAssumption
      <4>2. \A n \in Node : Len(dealt'[n]) = IF n < i + 1 THEN k + 1 ELSE k
        BY <2>11 DEF Node
      <4>3. QED
        BY <4>1, <4>2 DEF Progress
    <3>2. CASE i = N - 1
      <4>1. k + 1 \in Nat /\ 0 \in 0 .. N - 1 /\ written' = (k + 1) * N + 0
        BY <2>2, <2>5, <3>2, ClusterAssumption
      <4>2. \A n \in Node : Len(dealt'[n]) = IF n < 0 THEN (k + 1) + 1 ELSE k + 1
        BY <2>11, <3>2, ClusterAssumption DEF Node
      <4>3. QED
        BY <4>1, <4>2 DEF Progress
    <3>3. QED
      BY <3>1, <3>2, ClusterAssumption
  <2>13. QED
    BY <2>8, <2>10, <2>12 DEF DealInv
<1>3. QED
  BY <1>1, <1>2

\* Whatever the order in which nodes come to fake_prep_main, each is dealt its
\* own share of every element and the clear values of its own inputs alone, and
\* no node is ahead of another by more than one element (OwnShares).
THEOREM OwnSharesHold == StartupSpec => []OwnShares
<1>1. SInv /\ DealInv /\ [StartupNext]_allVars => DealInv'
  <2> SUFFICES ASSUME SInv, DealInv, [StartupNext]_allVars PROVE DealInv'
    OBVIOUS
  <2>1. CASE UNCHANGED <<dealt, written>>
    BY <2>1 DEF DealInv, Progress
  <2>2. CASE Deal
    BY <2>2, DealPreserves
  <2>3. UNCHANGED <<dealt, written>> \/ Deal
    BY DEF StartupNext, InCluster, MainThread, ConnectPrep, WritePrepId, Leave, BindPrep,
           FakePrep, AcceptPrep, AcceptPrepFails, DealFails, allVars, dealVars
  <2>4. QED
    BY <2>1, <2>2, <2>3
<1>2. DealInv => OwnShares
  <2> SUFFICES ASSUME DealInv, NEW n \in Node
               PROVE  /\ \A j \in 1 .. Len(dealt[n]) :
                           /\ dealt[n][j].share = n /\ dealt[n][j].elem = j - 1
                           /\ dealt[n][j].kind = "RandShare" =>
                                (dealt[n][j].clear <=> dealt[n][j].party_id = n)
                      /\ \A m \in Node : Len(dealt[n]) <= Len(dealt[m]) + 1
    BY DEF OwnShares
  <2>1. ASSUME NEW j \in 1 .. Len(dealt[n])
        PROVE  /\ dealt[n][j].share = n /\ dealt[n][j].elem = j - 1
               /\ dealt[n][j].kind = "RandShare" =>
                    (dealt[n][j].clear <=> dealt[n][j].party_id = n)
    <3>1. dealt[n][j] = PrepMsg((j - 1) * N + n)
      BY DEF DealInv
    <3>2. j - 1 \in Nat /\ n \in 0 .. N - 1
      BY DEF Node
    <3>3. ((j - 1) * N + n) \div N = j - 1 /\ ((j - 1) * N + n) % N = n
      BY <3>2, Quotient
    <3>4. PrepMsg((j - 1) * N + n) =
            IF j - 1 < Rands
            THEN [kind |-> "RandShare", elem |-> j - 1, share |-> n,
                  party_id |-> (j - 1) \div RandCount, clear |-> (j - 1) \div RandCount = n]
            ELSE [kind |-> "Triple", elem |-> j - 1, share |-> n]
      BY <3>3 DEF PrepMsg
    <3>5. CASE j - 1 < Rands
      <4> DEFINE owner == (j - 1) \div RandCount
      <4>1. dealt[n][j] = [kind |-> "RandShare", elem |-> j - 1, share |-> n,
                           party_id |-> owner, clear |-> owner = n]
        BY <3>1, <3>4, <3>5
      <4> HIDE DEF owner
      <4>2. dealt[n][j].share = n /\ dealt[n][j].elem = j - 1 /\ dealt[n][j].party_id = owner
        BY <4>1
      <4>3. dealt[n][j].clear = (owner = n)
        <5>1. \A b : [kind |-> "RandShare", elem |-> j - 1, share |-> n,
                      party_id |-> owner, clear |-> b].clear = b
          OBVIOUS
        <5>2. QED
          BY <4>1, <5>1, Zenon
      <4>4. QED
        BY <4>2, <4>3, Zenon
    <3>6. CASE ~(j - 1 < Rands)
      BY <3>1, <3>4, <3>6
    <3>7. QED
      BY <3>5, <3>6
  <2>2. \A m \in Node : Len(dealt[n]) <= Len(dealt[m]) + 1
    BY DEF DealInv, Progress
  <2>3. QED
    BY <2>1, <2>2
<1>3. QED
  BY <1>1, <1>2, InitDealInv, StartupKeeps, PTL DEF StartupSpec
=============================================================================
