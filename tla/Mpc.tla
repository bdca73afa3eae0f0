--------------------------------- MODULE Mpc ---------------------------------
(***************************************************************************)
(* The whole computation in one process, as integration_test.rs wires it:  *)
(* Lockstep's synchronizer and parties, with "busy" opened up into the     *)
(* party's handler of VM actions (party.rs), the virtual machine of each   *)
(* party (vm.rs), the channels between the parties, and the preprocessing  *)
(* messages the party forwards to its VM.                                  *)
(*                                                                         *)
(* Values are abstract.  A secret register holds the set of sharings its   *)
(* share was computed from, and an opened value is the function from each  *)
(* party whose share was added up to that set.  The sum is the shared      *)
(* value, and passes the MAC check, if the sets agree; if parties used     *)
(* different sharings it is not, and does not.  (Two sharings swapped      *)
(* between parties and then combined would pass for equal here: no program *)
(* that can swap them combines them.)  Of a clear register only whether it *)
(* holds a value is kept.                                                  *)
(***************************************************************************)
EXTENDS Lockstep, FiniteSets

CONSTANTS
  Code,           \* the program of every party, a sequence of instructions:
                  \* the secret and clear registers each reads and writes
  Given,          \* what clear registers may hold a value at first, by party
  Prep,           \* the preprocessing messages every party is sent, in order
  ForwardingCap,  \* the capacity of the channels they are forwarded through
  PrepCloses,     \* whether the channel may close, after the last or before
  Timely,         \* whether a recv_timeout expires only if its sender has ended
  Self            \* whether a party has a channel to itself

\* Error types that only differ in what could not be sent are one.
MACCheckError == {"BadCommitment", "SumIsNotZero"}
MPCError == {"EmptyError", "RecvError", "RecvTimeoutError", "SendError", "TrySendError"}
              \cup MACCheckError

Regs == UNION {Code[i].dst \cup Code[i].src : i \in DOMAIN Code}
ClearRegs == UNION {Code[i].cdst \cup Code[i].csrc : i \in DOMAIN Code}

ASSUME MpcAssumption ==
  /\ Programs = {[p \in Party |->
       [i \in DOMAIN Code |-> IF Code[i].op = "Stop" THEN "stop" ELSE "op"]]}
  /\ Code \in Seq({Code[i] : i \in DOMAIN Code})
  /\ Given \subseteq [Party -> SUBSET ClearRegs]
  /\ Prep \in Seq({Prep[i] : i \in DOMAIN Prep})
  /\ \A i, j \in DOMAIN Prep : Prep[i] = Prep[j] => i = j    \* each a sharing of its own
  /\ ForwardingCap \in Nat \ {0}
  /\ {PrepCloses, Timely, Self} \subseteq BOOLEAN
  /\ Self \/ N = 2    \* else the order of the channels is that of a HashMap

VARIABLES
  vpc,         \* where the VM is
  secret,      \* its secret registers; {} is an empty one
  clear,       \* the clear registers that are not empty
  randMsgs,    \* rand_msgs: the random sharings received, of all input parties
  openings,    \* partial_openings: what is opened and not yet checked
  output,      \* the instructions whose result is in the output vector
  vmErr,       \* the error the VM ended with
  instChan, actChan, resp,        \* between a party and its VM
  fwd,                            \* the number of Prep messages taken
  randChan, tripleChan,           \* the forwarding channels
  peer,        \* peer[p][q]: the channel from party q to party p
  hpc,         \* where handle_vm_actions is
  todo,        \* the openings mac_check has still to go through
  coms,        \* d_coms: the commitments received
  cause,       \* the error the party ended with
  used,        \* history: the sharing each instruction consumed
  verified     \* history: the opened values that passed a check, and in which

vmVars == <<vpc, secret, clear, randMsgs, openings, output, vmErr>>
linkVars == <<instChan, actChan, resp>>
prepVars == <<fwd, randChan, tripleChan>>
handVars == <<hpc, todo, coms, cause>>
histVars == <<used, verified>>
mpcVars == <<vmVars, linkVars, prepVars, handVars, peer, histVars>>
allVars == <<vars, mpcVars>>

MpcInit ==
  /\ Init
  /\ vpc = [p \in Party |-> "idle"]
  /\ secret = [p \in Party |-> [r \in Regs |-> {}]]
  /\ clear \in Given
  /\ randMsgs = [p \in Party |-> <<>>]
  /\ openings = [p \in Party |-> <<>>]
  /\ output = [p \in Party |-> <<>>]
  /\ vmErr = [p \in Party |-> "none"]
  /\ instChan = [p \in Party |-> <<>>]
  /\ actChan = [p \in Party |-> <<>>]
  /\ resp = [p \in Party |-> <<>>]
  /\ fwd = [p \in Party |-> 0]
  /\ randChan = [p \in Party |-> <<>>]
  /\ tripleChan = [p \in Party |-> <<>>]
  /\ peer = [p \in Party |-> [q \in Party |-> <<>>]]
  /\ hpc = [p \in Party |-> "idle"]
  /\ todo = [p \in Party |-> <<>>]
  /\ coms = [p \in Party |-> <<>>]
  /\ cause = [p \in Party |-> "none"]
  /\ used = [p \in Party |-> [i \in DOMAIN Code |-> {}]]
  /\ verified = [p \in Party |-> {}]

VMGone(p) == vpc[p] \in {"done", "failed"}

-----------------------------------------------------------------------------
(* The virtual machine of party p: VM::listen and the do_ functions.       *)

\* Take the next instruction; its kind is one of ops.
Take(p, ops) ==
  /\ vpc[p] = "idle"
  /\ instChan[p] # <<>>
  /\ Head(instChan[p]).op \in ops
  /\ instChan' = [instChan EXCEPT ![p] = Tail(@)]

VMFails(p, e) ==
  /\ vpc' = [vpc EXCEPT ![p] = "failed"]
  /\ vmErr' = [vmErr EXCEPT ![p] = e]
  /\ UNCHANGED actChan

\* Send an action to the party, if it is still there, and go to the state
\* that awaits the answer.
Ask(p, action, at) ==
  IF Gone(p) THEN VMFails(p, "SendError")
  ELSE /\ actChan' = [actChan EXCEPT ![p] = Append(@, action)]
       /\ vpc' = [vpc EXCEPT ![p] = at]
       /\ UNCHANGED vmErr

Done(p) == Ask(p, [act |-> "Next"], "idle")

\* The operations on registers: CAdd, CSub, CMul, SAdd, SSub, MAdd, MMul; and
\* COutput.  All fail on an operand that is empty.
Empty(p, i) == (\E r \in i.src : secret[p][r] = {}) \/ ~(i.csrc \subseteq clear[p])

DoLocal(p) ==
  /\ Take(p, {"Local", "COutput"})
  /\ LET i == Head(instChan[p]) IN
       IF Empty(p, i)
       THEN VMFails(p, "EmptyError") /\ UNCHANGED <<secret, clear, output>>
       ELSE /\ Done(p)
            /\ secret' = [secret EXCEPT ![p] = [r \in Regs |->
                 IF r \in i.dst THEN UNION {@[s] : s \in i.src} ELSE @[r]]]
            /\ clear' = [clear EXCEPT ![p] = @ \cup i.cdst]
            /\ output' = [output EXCEPT ![p] =
                 IF i.op = "COutput" THEN Append(@, pc[p]) ELSE @]
  /\ UNCHANGED <<vars, randMsgs, openings, resp, prepVars, handVars, peer, histVars>>

\* The party forwards nothing while it waits for the VM, so a triple that is
\* not there yet will not come and recv_timeout expires (see the NOTE in
\* party.rs).
DoTriple(p) ==
  /\ Take(p, {"Triple"})
  /\ IF tripleChan[p] = <<>>
     THEN VMFails(p, "RecvTimeoutError") /\ UNCHANGED <<secret, tripleChan, used>>
     ELSE LET t == {Head(tripleChan[p])} IN
          /\ Done(p)
          /\ tripleChan' = [tripleChan EXCEPT ![p] = Tail(@)]
          /\ secret' = [secret EXCEPT ![p] = [r \in Regs |->
               IF r \in Head(instChan[p]).dst THEN t ELSE @[r]]]
          /\ used' = [used EXCEPT ![p][pc[p]] = t]
  /\ UNCHANGED <<vars, clear, randMsgs, openings, output, resp, fwd, randChan, handVars,
                 peer, verified>>

\* get_rand_share_for_id: drain the channel into rand_msgs, then pop the
\* newest sharing for the input party.  A drained channel that nobody can send
\* to any more is an error of its own.
Drained(p) == randMsgs[p] \o randChan[p]

Popped_Peek(msgs, i) == msgs
Popped(msgs, i) ==
  [j \in 1 .. Len(msgs) - 1 |-> IF j < i THEN msgs[j] ELSE msgs[j + 1]]

MasksFor(msgs, id) == {i \in DOMAIN msgs : msgs[i].id = id}

\* The input party needs its input, and the clear value of the mask.
CanMask(p, mask) == Head(instChan[p]).csrc \subseteq clear[p] /\ p \in mask.clear

DoInput(p) ==
  /\ Take(p, {"Input"})
  /\ randChan' = [randChan EXCEPT ![p] = <<>>]
  /\ LET id == Head(instChan[p]).id
         msgs == Drained(p)
         own == MasksFor(msgs, id) IN
       IF own = {} \/ Gone(p)
       THEN /\ VMFails(p, IF Gone(p) THEN "RecvError" ELSE "EmptyError")
            /\ randMsgs' = [randMsgs EXCEPT ![p] = msgs]
            /\ UNCHANGED used
       ELSE \E i \in own :
            /\ \A j \in own : j <= i
            /\ randMsgs' = [randMsgs EXCEPT ![p] = Popped(msgs, i)]
            /\ used' = [used EXCEPT ![p][pc[p]] = {msgs[i]}]
            /\ IF p = id /\ ~CanMask(p, msgs[i]) THEN VMFails(p, "EmptyError")
               ELSE Ask(p, [act |-> "Input", id |-> id], "input")
  /\ UNCHANGED <<vars, secret, clear, openings, output, resp, fwd, tripleChan, handVars,
                 peer, verified>>

\* The answer is the masked input: the share of the mask (rand_share, kept in
\* used until here) becomes a share of the input.
EndInput(p) ==
  /\ vpc[p] = "input"
  /\ resp[p] # <<>>
  /\ resp' = [resp EXCEPT ![p] = <<>>]
  /\ secret' = [secret EXCEPT ![p] = [r \in Regs |->
       IF r \in Code[pc[p]].dst THEN used[p][pc[p]] ELSE @[r]]]
  /\ Done(p)
  /\ UNCHANGED <<vars, clear, randMsgs, openings, output, instChan, prepVars,
                 handVars, peer, histVars>>

\* do_open and the first half of do_secret_output.
Operand(p) == UNION {secret[p][r] : r \in Code[pc[p]].src}

DoOpen(p) ==
  /\ Take(p, {"Open", "SOutput"})
  /\ IF Operand(p) = {}
     THEN VMFails(p, "EmptyError")
     ELSE Ask(p, [act |-> "Open", share |-> Operand(p)], "open")
  /\ UNCHANGED <<vars, secret, clear, randMsgs, openings, output, resp, prepVars, handVars,
                 peer, histVars>>

\* Keep the opened value for the MAC check, which SOutput asks for at once;
\* Open leaves it in a clear register too.
EndOpen(p) ==
  /\ vpc[p] = "open"
  /\ resp[p] # <<>>
  /\ resp' = [resp EXCEPT ![p] = <<>>]
  /\ openings' = [openings EXCEPT ![p] =
       Append(@, [at |-> pc[p], x |-> Head(resp[p]), share |-> Operand(p)])]
  /\ IF Code[pc[p]].op = "SOutput"
     THEN Ask(p, [act |-> "Check", list |-> openings'[p]], "check") /\ UNCHANGED clear
     ELSE Done(p) /\ clear' = [clear EXCEPT ![p] = @ \cup Code[pc[p]].cdst]
  /\ UNCHANGED <<vars, secret, randMsgs, output, instChan, prepVars,
                 handVars, peer, histVars>>

\* Stop checks what has not been checked; the VM ends with its last Next.
Unchecked_Never(p) == FALSE
Unchecked(p) == openings[p] # <<>>

DoStop(p) ==
  /\ Take(p, {"Stop"})
  /\ IF Unchecked(p)
     THEN Ask(p, [act |-> "Check", list |-> openings[p]], "check")
     ELSE Ask(p, [act |-> "Next"], "done")
  /\ UNCHANGED <<vars, secret, clear, randMsgs, openings, output, resp, prepVars,
                 handVars, peer, histVars>>

EndCheck(p) ==
  /\ vpc[p] = "check"
  /\ resp[p] # <<>>
  /\ resp' = [resp EXCEPT ![p] = <<>>]
  /\ IF Head(resp[p]) = "Ok"
     THEN /\ openings' = [openings EXCEPT ![p] = <<>>]
          /\ verified' = [verified EXCEPT ![p] =
               @ \cup {[at |-> openings[p][i].at, x |-> openings[p][i].x, by |-> pc[p]] :
                      i \in DOMAIN openings[p]}]
          /\ IF Code[pc[p]].op = "SOutput"
             THEN Done(p) /\ output' = [output EXCEPT ![p] = Append(@, pc[p])]
             ELSE Ask(p, [act |-> "Next"], "done") /\ UNCHANGED output
     ELSE /\ VMFails(p, Head(resp[p]))
          /\ UNCHANGED <<openings, verified, output>>
  /\ UNCHANGED <<vars, secret, clear, randMsgs, instChan, prepVars, handVars, peer, used>>

\* Every wait of the VM is a recv_timeout, the one for an instruction too; it
\* fails at once if the party has ended.
VMTimeout(p) ==
  /\ \/ vpc[p] = "idle" /\ instChan[p] = <<>>
     \/ vpc[p] \in {"input", "open", "check"} /\ resp[p] = <<>>
  /\ Timely => Gone(p)
  /\ VMFails(p, "RecvTimeoutError")
  /\ UNCHANGED <<vars, secret, clear, randMsgs, openings, output, instChan, resp, prepVars,
                 handVars, peer, histVars>>

VMStep(p) == \/ DoLocal(p) \/ DoTriple(p) \/ DoInput(p) \/ DoOpen(p) \/ DoStop(p)
             \/ EndInput(p) \/ EndOpen(p) \/ EndCheck(p) \/ VMTimeout(p)

-----------------------------------------------------------------------------
(* Party p: the preprocessing messages it forwards between instructions.   *)

Between(p) == ppc[p] \in {"waiting", "running"}

\* try_send succeeds: the VM still holds the other end, and there is room.
Room_NoCap(p, kind) == ~VMGone(p)
Room(p, kind) ==
  /\ ~VMGone(p)
  /\ Len(IF kind = "Rand" THEN randChan[p] ELSE tripleChan[p]) < ForwardingCap

TakePrep(p) ==
  /\ Between(p)
  /\ fwd[p] < Len(Prep)
  /\ fwd' = [fwd EXCEPT ![p] = @ + 1]

Forward(p) ==
  /\ TakePrep(p)
  /\ LET m == Prep[fwd[p] + 1] IN
       /\ Room(p, m.kind)
       /\ IF m.kind = "Rand"
          THEN randChan' = [randChan EXCEPT ![p] = Append(@, m)] /\ UNCHANGED tripleChan
          ELSE tripleChan' = [tripleChan EXCEPT ![p] = Append(@, m)] /\ UNCHANGED randChan
  /\ UNCHANGED <<vars, vmVars, linkVars, handVars, peer, histVars>>

\* Why listen returns an error; the party's thread ends with it.
Fails(p, e) ==
  /\ cause' = [cause EXCEPT ![p] = e]
  /\ UNCHANGED <<vmVars, linkVars, randChan, tripleChan, hpc, todo, coms, peer, histVars>>

ForwardFails(p) ==
  /\ TakePrep(p)
  /\ ~Room(p, Prep[fwd[p] + 1].kind)
  /\ PrepFails(p)
  /\ Fails(p, "TrySendError")

\* The channel is disconnected and drained; what fake_prep has not written by
\* then never comes.
PrepEnds(p) ==
  /\ PrepCloses
  /\ PrepFails(p)
  /\ Fails(p, "RecvError")
  /\ UNCHANGED fwd

-----------------------------------------------------------------------------
(* Party p: handle_vm_actions and mac_check.                               *)

\* The parties p has channels to and from.  The sends of one broadcast, and
\* the receives of one message from everyone, are a single step: no other
\* thread uses the same ends of these channels, and they never fill up (see
\* PeerBound).  They do not disconnect: other holders keep both ends.
Peers(p) == IF Self THEN Party ELSE Party \ {p}

\* "at" is history: the instruction, and the opening within its MAC check.
Now(p) == <<pc[p], Len(todo[p])>>

Bcast(p, kind, val) ==
  peer' = [q \in Party |-> IF q \in Peers(p)
    THEN [peer[q] EXCEPT ![p] = Append(@, [kind |-> kind, at |-> Now(p), val |-> val])]
    ELSE peer[q]]

\* r_party_chans[id]; without a channel to oneself, the channel to the other
\* party comes first and there is no second.
Indexed(p, id) == IF Self \/ id < p THEN id ELSE id + 1

\* The channels the current wait is for, and the kind of message it unwraps.
Awaited_Others(p) ==
  CASE hpc[p] = "elems" -> Peers(p) \ {p}
    [] hpc[p] \in {"coms", "opens"} -> Peers(p)
    [] hpc[p] = "input" -> {Indexed(p, Code[pc[p]].id)}
    [] OTHER -> {}
Awaited(p) ==
  CASE hpc[p] \in {"elems", "coms", "opens"} -> Peers(p)
    [] hpc[p] = "input" -> {Indexed(p, Code[pc[p]].id)}
    [] OTHER -> {}

Expected_Swapped(p) ==
  CASE hpc[p] = "coms" -> "Opening" [] hpc[p] = "opens" -> "Com" [] OTHER -> "Elem"
Expected(p) ==
  CASE hpc[p] = "coms" -> "Com" [] hpc[p] = "opens" -> "Opening" [] OTHER -> "Elem"

At(p, phase) == ppc[p] = "busy" /\ hpc[p] = phase

Arrived(p, q) == q \in Party /\ peer[p][q] # <<>>
Unwraps(p, q) == Head(peer[p][q]).kind = Expected(p)

\* Receive what is awaited, as a function from sender to value.
Receive(p) ==
  /\ \A q \in Awaited(p) : Arrived(p, q) /\ Unwraps(p, q)
  /\ peer' = [peer EXCEPT ![p] = [q \in Party |->
       IF q \in Awaited(p) THEN Tail(@[q]) ELSE @[q]]]
Values(p) == [q \in Awaited(p) |-> Head(peer[p][q]).val]

Go(p, phase) == hpc' = [hpc EXCEPT ![p] = phase]

\* Answer the VM, which must still be there to take the answer.
Answer(p, v) ==
  /\ ~VMGone(p)
  /\ resp' = [resp EXCEPT ![p] = Append(@, v)]
  /\ Go(p, "action")

GiveInstruction(p) ==
  /\ At(p, "give")
  /\ ~VMGone(p)
  /\ instChan' = [instChan EXCEPT ![p] = Append(@, Code[pc[p]])]
  /\ Go(p, "action")
  /\ UNCHANGED <<vars, vmVars, actChan, resp, prepVars, todo, coms, cause, peer, histVars>>

\* Receive an action of one kind from the VM.
TakeAction(p, act) ==
  /\ At(p, "action")
  /\ actChan[p] # <<>>
  /\ Head(actChan[p]).act = act
  /\ actChan' = [actChan EXCEPT ![p] = Tail(@)]
  /\ UNCHANGED <<instChan, vmVars, prepVars, cause, histVars>>

OnNext(p) ==
  /\ TakeAction(p, "Next")
  /\ Reply(p)
  /\ Go(p, "idle")
  /\ UNCHANGED <<resp, todo, coms, peer>>

OnOpen(p) ==
  /\ TakeAction(p, "Open")
  /\ Bcast(p, "Elem", Head(actChan[p]).share)
  /\ Go(p, "elems")
  /\ UNCHANGED <<vars, resp, todo, coms>>

\* Only the input party has a masked input to send (e_option).
Owns_All(p, id) == TRUE
Owns_None(p, id) == FALSE
Owns(p, id) == id = p

OnInput(p) ==
  /\ TakeAction(p, "Input")
  /\ IF Owns(p, Head(actChan[p]).id) THEN Bcast(p, "Elem", {}) ELSE UNCHANGED peer
  /\ Go(p, "input")
  /\ UNCHANGED <<vars, resp, todo, coms>>

EndElems(p) ==
  /\ At(p, "elems")
  /\ Receive(p)
  /\ Answer(p, Values(p))
  /\ UNCHANGED <<vars, vmVars, instChan, actChan, prepVars, todo, coms, cause, histVars>>

\* The input party's message carries the masked input, the same for everyone.
EndInputElem(p) ==
  /\ At(p, "input")
  /\ Receive(p)
  /\ Answer(p, Values(p))
  /\ UNCHANGED <<vars, vmVars, instChan, actChan, prepVars, todo, coms, cause, histVars>>

\* The VM asks for a check only if there is something to check.
OnCheck(p) ==
  /\ TakeAction(p, "Check")
  /\ todo' = [todo EXCEPT ![p] = Head(actChan[p]).list]
  /\ Go(p, "commit")
  /\ UNCHANGED <<vars, resp, coms, peer>>

\* mac_check of the first opening left: d is determined by the opened value
\* and by the party's share of it and of its MAC.
D(p) == [x |-> Head(todo[p]).x, share |-> Head(todo[p]).share]

\* commit::Scheme: a commitment fixes the value it is to.
Commitment(v) == [c |-> v]
Verifies(opening, com) == com = Commitment(opening)

Commit(p) ==
  /\ At(p, "commit")
  /\ Bcast(p, "Com", Commitment(D(p)))
  /\ Go(p, "coms")
  /\ UNCHANGED <<vars, vmVars, linkVars, prepVars, todo, coms, cause, histVars>>

EndComs(p) ==
  /\ At(p, "coms")
  /\ Receive(p)
  /\ coms' = [coms EXCEPT ![p] = Values(p)]
  /\ Go(p, "reveal")
  /\ UNCHANGED <<vars, vmVars, linkVars, prepVars, todo, cause, histVars>>

Reveal(p) ==
  /\ At(p, "reveal")
  /\ Bcast(p, "Opening", D(p))
  /\ Go(p, "opens")
  /\ UNCHANGED <<vars, vmVars, linkVars, prepVars, todo, coms, cause, histVars>>

\* The ds sum to zero if all are for the same sharing and the same value, and
\* that value is the sum of everybody's share.
SumIsZero_ValuesOnly(ds) == \A q, r \in Party : ds[q].x = ds[r].x
SumIsZero(ds) == \A q, r \in Party :
  /\ q \in DOMAIN ds
  /\ ds[q] = ds[r]
  /\ ds[q].x = [s \in Party |-> ds[q].share]

Verdict_OneOther(p) ==
  LET q == (p + 1) % N IN
  IF Values(p)[q].share = Head(todo[p]).share THEN "Ok" ELSE "SumIsNotZero"
Verdict(p) ==
  CASE \E q \in Awaited(p) : ~Verifies(Values(p)[q], coms[p][q]) -> "BadCommitment"
    [] ~SumIsZero(Values(p)) -> "SumIsNotZero"
    [] OTHER -> "Ok"

EndOpens(p) ==
  /\ At(p, "opens")
  /\ Receive(p)
  /\ IF Verdict(p) = "Ok" /\ Len(todo[p]) > 1
     THEN /\ todo' = [todo EXCEPT ![p] = Tail(@)]
          /\ Go(p, "commit")
          /\ UNCHANGED resp
     ELSE /\ todo' = [todo EXCEPT ![p] = <<>>]
          /\ Answer(p, Verdict(p))
  /\ coms' = [coms EXCEPT ![p] = <<>>]
  /\ UNCHANGED <<vars, vmVars, instChan, actChan, prepVars, cause, histVars>>

\* What can go wrong in handle_vm_actions, and the error it ends with: the
\* other end is gone; a wait expires; a message of another kind, or an index
\* beyond the channels, panics.
Late(p, q) == ~Arrived(p, q) /\ (Timely => Gone(q))

Errors(p) ==
  LET sends == \/ hpc[p] = "give" /\ VMGone(p)
               \/ Awaited(p) # {} /\ VMGone(p)
               \/ hpc[p] = "action" /\ actChan[p] # <<>> /\ SyncGone
                     /\ Head(actChan[p]).act = "Next"
      waits == \/ hpc[p] = "action" /\ actChan[p] = <<>> /\ (Timely => VMGone(p))
               \/ \E q \in Awaited(p) \cap Party : Late(p, q)
      panics == \E q \in Awaited(p) : q \notin Party \/ (Arrived(p, q) /\ ~Unwraps(p, q))
  IN {e \in {"SendError", "RecvTimeoutError", "Panic"} :
        \/ e = "SendError" /\ sends
        \/ e = "RecvTimeoutError" /\ waits
        \/ e = "Panic" /\ panics}

HandlerFails(p) ==
  /\ BusyFails(p)
  /\ \E e \in Errors(p) : Fails(p, e)
  /\ UNCHANGED fwd

-----------------------------------------------------------------------------
(* The rest of the party and the synchronizer, as in Lockstep.             *)

Listen(p) ==
  \/ AwaitStart(p) /\ UNCHANGED mpcVars
  \/ /\ Fetch(p)
     /\ hpc' = IF Fetches(p) THEN [hpc EXCEPT ![p] = "give"] ELSE hpc
     /\ UNCHANGED <<vmVars, linkVars, prepVars, todo, coms, cause, peer, histVars>>
  \/ SyncLost(p) /\ Fails(p, "RecvError") /\ UNCHANGED fwd
  \/ Join(p) /\ VMGone(p) /\ UNCHANGED mpcVars

PartyThread(p) ==
  \/ Listen(p) \/ Forward(p) \/ ForwardFails(p)
  \/ GiveInstruction(p) \/ OnNext(p) \/ OnOpen(p) \/ OnInput(p) \/ OnCheck(p)
  \/ EndElems(p) \/ EndInputElem(p)
  \/ Commit(p) \/ EndComs(p) \/ Reveal(p) \/ EndOpens(p) \/ HandlerFails(p)

SyncThread ==
  /\ Sync
  /\ Timely /\ CollectFails => Gone(sidx)
  /\ UNCHANGED mpcVars

AllThreadsEnded == AllEnded /\ \A p \in Party : VMGone(p)

MpcNext ==
  \/ SyncThread
  \/ \E p \in Party : PartyThread(p) \/ VMStep(p) \/ PrepEnds(p)
  \/ AllThreadsEnded /\ UNCHANGED allVars

MpcFairness ==
  /\ WF_allVars(SyncThread)
  /\ \A p \in Party : WF_allVars(PartyThread(p)) /\ WF_allVars(VMStep(p))

MpcSpec == MpcInit /\ [][MpcNext]_allVars
MpcLiveSpec == MpcSpec /\ MpcFairness

-----------------------------------------------------------------------------
(* Properties.                                                             *)

MpcTypeOK ==
  /\ vpc \in [Party -> {"idle", "input", "open", "check", "done", "failed"}]
  /\ hpc \in [Party -> {"idle", "give", "action", "elems", "input",
                        "commit", "coms", "reveal", "opens"}]
  /\ vmErr \in [Party -> MPCError \cup {"none"}]
  /\ cause \in [Party -> MPCError \cup {"none", "Panic"}]
  /\ fwd \in [Party -> 0 .. Len(Prep)]
  /\ \A p \in Party :
       /\ {Len(instChan[p]), Len(actChan[p]), Len(resp[p])} \subseteq 0 .. 1
       /\ Len(randChan[p]) <= ForwardingCap /\ Len(tripleChan[p]) <= ForwardingCap

\* Messages between parties carry no instruction number.  Still the message a
\* party finds in a channel it waits for was always sent for the instruction,
\* and the step of the MAC check, that the party is at: unwrap_elem,
\* unwrap_com and unwrap_opening (message.rs) never panic.
RightMessage == \A p \in Party : ppc[p] = "busy" =>
  \A q \in Awaited(p) \cap Party : Arrived(p, q) =>
    Unwraps(p, q) /\ Head(peer[p][q]).at = Now(p)

\* Channels between parties hold two messages at most, of a capacity of 5
\* (create_party_chans): no broadcast blocks.
PeerBound == \A p, q \in Party : Len(peer[p][q]) <= 2

\* The parties use shares of the same random sharing, and of the same triple,
\* for the same instruction: "at the end all parties should hold an
\* authenticated share of the value in c1" (Instruction::Input).
SameSharing == \A p, q \in Party : \A i \in DOMAIN Code :
  used[p][i] # {} /\ used[q][i] # {} => used[p][i] = used[q][i]

\* No mask and no triple is ever used for two instructions: a mask used twice
\* would reveal the difference of two inputs.
FreshSharing == \A p \in Party : \A i, j \in DOMAIN Code :
  i # j => used[p][i] \cap used[p][j] = {}

\* Whatever an Open leaves in the clear registers, it is the same for all
\* parties, and the share of every party is in it.
OpenAgreement == \A p, q \in Party :
  \A i \in DOMAIN openings[p], j \in DOMAIN openings[q] :
    openings[p][i].at = openings[q][j].at =>
      openings[p][i].x = openings[q][j].x /\ DOMAIN openings[p][i].x = Party

\* A party that returns a result has had every value it opened checked, and
\* its output is that of all its output instructions, in order.
IsOutput(i) == Code[i].op \in {"COutput", "SOutput"}

ResultIsChecked == \A p \in Party : ppc[p] \in {"joining", "ok"} =>
  /\ openings[p] = <<>>
  /\ {v.at : v \in verified[p]} = {i \in 1 .. pc[p] : Code[i].op \in {"Open", "SOutput"}}
  /\ {output[p][i] : i \in DOMAIN output[p]} = {i \in 1 .. pc[p] : IsOutput(i)}
  /\ \A i, j \in DOMAIN output[p] : i < j => output[p][i] < output[p][j]

\* The parties compute what the ideal functionality would have them compute,
\* or fail: what passes mac_check is a value all parties hold shares of, the
\* same for all, and a party that returns has all of them, up to its Stop.
Reached == {i \in DOMAIN Code : \A j \in 1 .. i : Code[j].op # "Stop"}

C == INSTANCE Computation WITH
  Opening <- {i \in Reached : Code[i].op \in {"Open", "SOutput"}},
  checked <- [p \in Party |-> {[at |-> v.at, x |-> v.x] : v \in verified[p]}],
  end <- [p \in Party |-> CASE ppc[p] = "ok" -> "ok"
                              [] ppc[p] \in {"err", "panic"} -> "failed"
                              [] OTHER -> "running"]
ImplementsComputation == C!Spec

\* A check that fails for one party passes for none; and it is the sum that
\* fails, for every opening is that of the commitment it is verified against.
VerdictAgreement == \A p \in Party :
  /\ vmErr[p] # "BadCommitment"
  /\ vmErr[p] = "SumIsNotZero" => \A q \in Party : \A v \in verified[q] : v.by < pc[p]

\* While timeouts expire only for senders that have ended, only preprocessing
\* makes a computation fail: too late, when it has arrived but has not been
\* forwarded because the party was busy with instructions (the NOTE in
\* Party::listen); or too much, when a forwarding channel is full.
Starved(p) ==
  /\ fwd[p] < Len(Prep)
  /\ \/ vmErr[p] = "EmptyError"
     \/ /\ vmErr[p] = "RecvTimeoutError"
        /\ pc[p] \in DOMAIN Code
        /\ Code[pc[p]].op = "Triple"
        /\ used[p][pc[p]] = {}

Flooded(p) ==
  /\ cause[p] = "TrySendError"
  /\ ForwardingCap \in {Len(randChan[p]), Len(tripleChan[p])}

FailsOnlyForPrep ==
  (\E p \in Party : Gone(p) /\ ppc[p] # "ok") \/ (SyncGone /\ spc # "ok") =>
    \E p \in Party : Starved(p) \/ Flooded(p)

\* A program and preprocessing that suit each other, as the test of MUL_PROG
\* has them and as FailsOnlyForPrep needs them.  The program stops, reads a
\* register only after it has written it, and has one input of each party at
\* most; there is one mask for that input, and there are triples enough.
Writing == {"Local", "COutput", "Input", "Triple"}
Written(k) == UNION {Code[i].dst : i \in {j \in 1 .. k : Code[j].op \in Writing}}

TripleInsts == {i \in DOMAIN Code : Code[i].op = "Triple"}
TripleMsgs == {i \in DOMAIN Prep : Prep[i].kind # "Rand"}
MaskMsgs(id) == {i \in DOMAIN Prep : Prep[i].kind = "Rand" /\ Prep[i].id = id}
Count(S, k) == Cardinality(S \cap (1 .. k))

Suits ==
  /\ \E i \in DOMAIN Code : Code[i].op = "Stop"
  /\ \A i \in Reached :
       /\ Code[i].src \subseteq Written(i - 1)
       /\ Code[i].op \in {"Open", "SOutput"} => Code[i].src # {}
       /\ Code[i].op \in {"Local", "COutput"} /\ Code[i].src = {} => Code[i].dst = {}
       /\ Code[i].op = "Triple" => Count(TripleInsts, i) <= Count(TripleMsgs, Len(Prep))
       /\ Code[i].op = "Input" =>
            /\ Code[i].id \in Party
            /\ \E m \in DOMAIN Prep : MaskMsgs(Code[i].id) = {m}
            /\ \A j \in Reached : Code[j].op = "Input" /\ Code[j].id = Code[i].id => j = i

\* The same of clear registers, whatever is given: every party has the operands
\* it reads, and the input party its input and the clear value of the mask.
ClearWritten(k) == UNION {Code[i].cdst : i \in
  {j \in 1 .. k : Code[j].op \in {"Local", "COutput", "Open"}}}

ClearSuits == \A g \in Given : \A i \in Reached :
  /\ Code[i].op \in {"Local", "COutput"} =>
       \A p \in Party : Code[i].csrc \subseteq g[p] \cup ClearWritten(i - 1)
  /\ Code[i].op = "Input" =>
       /\ Code[i].csrc \subseteq g[Code[i].id] \cup ClearWritten(i - 1)
       /\ \A m \in MaskMsgs(Code[i].id) : Code[i].id \in Prep[m].clear

\* All threads end: synchronizer, parties and virtual machines.
MpcTerminates == <>AllThreadsEnded

\* A failed MAC check is what the party reports (error.rs: MPCError is "a
\* wrapper for all the errors in this software").
MacErrorSurfaces == \A p \in Party :
  ppc[p] = "err" /\ vmErr[p] \in MACCheckError => cause[p] = vmErr[p]
=============================================================================
