# A TLA+ verification project for ezmpc

ezmpc is an educational implementation of SPDZ in Rust: parties hold additive,
MAC-authenticated shares of secret values and execute one program together,
instruction by instruction, in step with a synchronizer. The program is small,
and what is hard about it is concurrent: each party runs three threads or more,
joined by a dozen kinds of channels, with one-second timeouts, `select!`, and
messages that carry no round number.

This directory holds TLA+ modules translated from the source, TLC
configurations that check them on small instances, and theorems about them that
the TLA+ proof system checks. `PROJECT.json` lists components, runs, mutants,
the source lines of every definition, known disagreements, hazards and theorems.
Paths are relative to the repository's `src/` directory.

Contents: 1 the system, 2 the modules, 3 the runs, 4 bounds, 5 fairness,
6 what is proved, 7 abstractions and assumptions, 8 known disagreements,
9 what is not modelled, 10 the plan.


## 1. The system

### Components

**Synchronizer** (`synchronizer.rs`, `message.rs`). State: the two vectors of
channels. It broadcasts `Start`, then `Next`; then in a loop receives one reply
from each party, channel after channel with a timeout each, and decides: all
`Done`, return; any `Abort`, broadcast `Abort` and return; all `Ok`, broadcast
`Next`; anything else panics. *Correct if* no party starts an instruction before
every party has finished the one before, no reply counts for another round, a
decision is final, nothing panics for a program that everybody shares, and every
failure ends everybody.

**Party** (`party.rs`). State: its share of the MAC key, channels to and from the
synchronizer, its peers, the preprocessing and its VM; the program and the
instruction counter. `listen` waits for `Start`, then `select!`s between
preprocessing (forwarded to the VM with `try_send`) and the synchronizer's `Next`;
on `Next` it gives the VM an instruction and serves the VM's actions
(`handle_vm_actions`: `Next`, `Open`, `Input`, `Check`) until the VM is done with
it, and then replies `Ok` or `Done`. `Check` runs `mac_check` once for every
opening: commit, receive the commitments, open, receive the openings, verify, sum.
*Correct if* a message is never taken for another one, sends never block, all
parties open the same value and reach the same verdict, and nothing is returned
that was not checked.

**Virtual machine** (`vm.rs`). State: 32 clear and 32 secret registers that may be
empty, random sharings received per input party, openings not checked yet. Takes
one instruction at a time, computes locally or asks the party, and returns the
output vector after `Stop`. *Correct if* registers stay sharings of what they are
meant to be, parties use shares of the same random sharing for the same
instruction and never one twice, and every opening is checked before the result.

**Shares, commitments, field** (`crypto.rs`, `algebra.rs`). Pure functions and the
generator of fake preprocessing. *Correct if* shares add up to the value and MACs
to the value times the key, and the check accepts exactly the right value.

**Discovery and cluster formation** (`io.rs`: `start_discovery`, `wait_start`,
`form_cluster`). The synchronizer accepts connections until every configured id
is there, tells each to go on, and reads an acknowledgement from each; nodes then
connect to those with lower ids while a thread of their own accepts those with
higher ids. *Correct if* exactly the configured nodes end up with exactly one
connection per pair, no node that is there refuses a call unless its accepting thread
did not survive an earlier caller, and it is known who may be left waiting.

**Fake preprocessing process** (`io.rs`: `fake_prep_main`). State: its listener,
the connections of the nodes by id, the elements it has generated. It accepts
connections until it has as many ids as there are nodes, sorts them, and writes
every element to all of them, one share each. *Correct if* every node gets its own
shares, in order, and the clear values of its own inputs only, and nothing is dealt
before the cluster is there.

**TCP wrapper** (`io.rs`: `wrap_tcpstream`). A reader and a writer thread turn a
stream into a pair of channels and a shutdown signal. *Correct if* it is to its
user what a pair of channels is: in order, once, nothing lost in the middle; and
both threads end.

**Main functions** (`io.rs`, `bin/`). They string the above together: discovery,
cluster, preprocessing, party or synchronizer, and in the end signal and join the
wrappers of all connections. *Correct if* a node that is done early takes nothing
from those that are not that they cannot do without, and every process exits.

**In-process wiring** (`integration_test.rs`), **error types** (`error.rs`),
**configuration and programs** (RON files, `conf/`, `prog/`).

### Interactions

    synchronizer --Start,Next,Abort-->  party  --instruction-->  VM
                 <----Ok,Done,Abort---         <----action------
                                               ----response---->
    preprocessing --sharings,triples--> party --forwarding-->    VM
    party <--Elem, Com, Opening (every pair, itself included)--> party

In one process these are crossbeam channels (capacity 5 in the tests; 1024 for
forwarding). Deployed, each connection to another process is a TCP stream behind
`wrap_tcpstream` (capacity 1000), after discovery and cluster formation:

    node --id, ack--> synchronizer      (discovery, then the same stream stays)
    node <--stream--> node              (every pair; the higher id connects)
    node --id--> fake_prep --sharings, triples--> node

### What is hard

Interleavings of `select!`; collections cut short by a timeout; broadcasts cut
short by a disconnected channel; the order of what is forwarded relative to the
instruction that needs it; openings that wait through many instructions for
their check; a check that stops in the middle; drops of channel ends that race
the shutdown signal; nodes that call each other before they all know that they
should; a dealer of preprocessing that hears nothing from anybody; nodes that are
done and shut down while others still wait for what they sent last. `PROJECT.json`
lists 37 such hazards, each at its line, with the properties that would catch it
going wrong.


## 2. The modules

| module | models | lines of code it stands for |
|---|---|---|
| `Rounds` | *abstract*: what the synchronizer promises | `Synchronizer::listen`'s purpose |
| `Lockstep` | synchronizer, parties' side of it, their channels | `synchronizer.rs`, `Party::listen`, `message.rs` |
| `Computation` | *abstract*: a computation as its user sees it, with abort | what `mac_check` is for |
| `Mpc` | `Lockstep` with "busy" opened up: VM, handler of VM actions, MAC check, channels between parties, preprocessing | `party.rs`, `vm.rs`, `message.rs`, `error.rs`, part of `integration_test.rs`, `online_node_main` |
| `Shares` | the values: field, shares, MACs, every instruction | `crypto.rs`, `vm.rs`, `algebra.rs` |
| `Link` | *abstract*: what the protocol takes a connection to be | |
| `TcpWrap` | both ends of a wrapped stream, with their main functions | `wrap_tcpstream`, ends of `*_main` |
| `Cluster` | discovery and formation | `start_discovery`, `wait_start`, `form_cluster` |
| `Startup` | the start of a deployment: `Cluster`, then fake_prep and what it deals | `fake_prep_main`, `gen_fake_prep`, `online_node_main` |
| `Shutdown` | the end of a deployment: all processes, all connections | ends of `online_node_main`, `synchronizer_main`, `wrap_tcpstream` |
| `MCLockstep`, `MCMpc`, `MCShares`, `MCStartup` | values of constants for TLC | |
| `LockstepProofs` | theorems about `Lockstep` | |
| `MpcProofs`, `MessageProofs`, `AgreementProofs` | theorems about `Mpc`, each module on top of the one before: handshake and virtual machines, channels between parties, values | |
| `TcpWrapProofs`, `ShutdownProofs`, `SharesProofs` | theorems about the module of that name | |
| `StartupProofs` | theorems about `Cluster`, and about `Startup` on top of it | |

`Mpc` EXTENDS `Lockstep`: an action of `Mpc` on this path *is* the action of
`Lockstep`, conjoined with what happens to the rest of the state. So `Mpc` implements
`Lockstep` (theorem), and `Lockstep` implements `Rounds` (theorem, and run). `Mpc` also
implements `Computation` (theorem, and run). `Startup` EXTENDS `Cluster` in the same way, and
implements it (theorem). `TcpWrap` implements `Link` (theorem, and run): the channels
of `Lockstep` and `Mpc` may be read as channels or as wrapped streams. `Shutdown` has
many connections where `TcpWrap` has one, and of each connection only what
`TcpWrap` shows to matter. `Mpc` follows the messages and takes values as opaque;
`Shares` follows the values and lets the parties take each instruction together,
which is what `Lockstep` shows they do. `Startup` deals what `Shares` computes and
`Mpc` consumes.

### State and code

*Lockstep.* `spc`/`sidx` are the synchronizer's position and that of the loop in
`message::broadcast` or `receive`; `Send`, `SendFails`, `BroadcastEnds`, `Collect`,
`CollectFails`, `Decide` are the iterations and exits of these loops and the if-chain of
`Synchronizer::listen`. `ppc[p]` is the position in `Party::listen`; `AwaitStart`,
`Fetch`, `SyncLost`, `Reply`, `BusyFails`, `PrepFails`, `Join` are its arms and
exits. `toParty`, `toSync` are the channels. `round` and `replied` are history.
`ReplyAbort`, for the instruction "abort", is the one thing no party in the code
does; `test_synchronizer` in `synchronizer.rs` drives the synchronizer so.

*Mpc.* `vpc` and the `Do...`/`End...` actions are `VM::listen` and the `do_`
functions, cut where they wait; `hpc` and `GiveInstruction`, `OnNext`, `OnOpen`,
`OnInput`, `OnCheck`, `EndElems`, `EndInputElem`, `Commit`, `EndComs`, `Reveal`,
`EndOpens` are `handle_vm_actions` and `mac_check`, cut in the same way;
`HandlerFails` is every `?`, `unwrap_` and index that can fail there. `Forward`,
`ForwardFails`, `PrepEnds` are the preprocessing arm of `select!`.
`randMsgs`, `openings`, `output` have the code's names (`rand_msgs`,
`partial_openings`, the output vector). `rand_msgs` is a vector per input party;
`randMsgs[p]` is one sequence of all that p's VM has drained, in the order in which it
came, and `Popped` takes the newest one of a given input party out of it.
`secret` are the secret registers; of the clear ones `clear` says which hold a
value, since that is what control depends on. They start as `Given` says: `from_prog`
fills a party's own inputs, the tests' `from_vec` also puts zeros where others have
theirs, and a program without inputs leaves all empty. An instruction's `csrc` and
`cdst` are the clear registers that it reads and writes.

*TcpWrap.* `wpc` and `rpc` are the two threads; `main` is the thread that uses the
channels and, after it, the main function: `Finish` (it returns Ok and drops its
ends), `Signal` (`chan.send(())?`), `Join` (`h.join().unwrap()`), `Exit`.

*Cluster.* `dpc`, `queue`, `found`, `told` are `start_discovery`, `ReadAcks` its last
loop; `ppc`, `ids`, `acks` are `wait_start`; `dialed`, `made` are the connecting thread of
`form_cluster` (`MakeCall` connects, `WriteCallId` writes the id, `WriteCallFails` is
its `?`), `calls`, `taken`, `panicked` the accepting one (`TakeCall`;
`TakeCallPanics` is `expect("cannot read u32")`, with which the listener goes), and
`FormPanics` is the join that finds it panicked.

*Startup.* `fpc`, `waiting`, `joined` are the accepting loop of `fake_prep_main`
(`stream_map`, in the order of arrival); `written` counts its writes, and
`dealt` holds what they wrote. `npc`, `named` are a node's connection to it.
`Leave` is a node that ends, with its party or because of it.

*Shutdown.* `main[p]` is the party's last exchange and then the main function;
`mail[p][q]` is where the last message from p to q is: queued, in the stream, passed
on, lost. `Signal`, `Join`, `JoinPanics` are the loops over all connections; `writer`,
`shut` are the two threads of each wrapper.

*Shares.* One action per kind of instruction, for all parties; `plain` is history:
the value each secret register stands for. `Total` is the loop of `unauth_combine`
(and of `unauth_share`), one addition after the other; `MulCode` is `MUL_PROG`.

A definition named `X_Y` is `X` with a plausible mistake `Y`. It is no part of the
specification: put in the place of `X` it makes some property fail, which shows that
the property says something (`PROJECT.json`, `mutants`).


## 3. The runs

| run | states | question |
|---|---|---|
| `lockstep` | 30 029 | With 3 parties, each of which may fail at any step or answer `Abort`, do rounds stay separate, does nothing block or panic, is the decision final, does everybody end, and is `Rounds` implemented? |
| `mpc` | 18 986 | Two parties multiply with a Beaver triple, timeouts being timely: do channels stay small, do openings agree, and what can make the computation fail? |
| `mpc_faults` | 137 000 | Two inputs, any timeout at any time, preprocessing that closes at any time, clear registers as `from_prog` or the tests fill them or empty: is a message ever confused, is anything unchecked ever returned? |
| `mpc_masks` | 54 768 | Three parties, two inputs of one party, random sharings still arriving: is a mask reused, is what was opened with different sharings rejected by all, is `Computation` implemented? |
| `tcp` | 7 124 | Do wrapped streams deliver in order and once, who may lose messages, and do processes exit? |
| `startup` | 177 517 | Does a cluster form with the right members and one connection per pair, and does each get its own preprocessing, with a stray process and with one that ends early? Who is left waiting then? |
| `shutdown` | 158 167 | When those that are done shut all their connections down while others still wait, who can fail, and do all processes exit? |
| `shares` | 90 912 | Are sharings, MACs, the check and the product right, for all inputs, keys and triples, and when may a check fail among parties that follow the protocol? |
| `mpc_mask_mismatch`, `mpc_mac_error`, `mpc_online_open`, `tcp_shutdown` | | One disagreement each between the code and what its comments say (section 8). |

What they show, beyond the words above:

- *Lockstep* (`LockstepInv`, `RepliesAreThisRound`, `ChannelBound`,
  `UniformNeverPanics`, `SuccessIsUnanimous`, `DecisionIsFinal`, `Terminates`). A
  collection cut short by a timeout ends the synchronizer, so the replies it leaves
  behind are never read; a party never has more than `Start` and `Next`, or one
  reply, in flight. A program that is the same for everyone and stops cannot reach
  any of the panics on this path; programs of different lengths, which the run
  includes, do. If the synchronizer returns Ok without an abort, no party fails.
- *Mpc* (`MpcTypeOK`, `RightMessage`, `PeerBound`, `OpenAgreement`, `FreshSharing`,
  `ResultIsChecked`, `VerdictAgreement`, `ImplementsComputation`,
  `FailsOnlyForPrep`, `MpcTerminates`). Messages need no sequence numbers: even with
  arbitrary timeouts, and after a check abandoned half-way, a message is only read
  in the phase it was sent for. Nothing is returned that was not checked, and what
  parties rely on is what an ideal functionality with abort would have given them:
  one value for all, with everybody's share of one and the same sharing in it. With
  timely timeouts the only causes of failure are preprocessing that had arrived but was
  not forwarded in time, and a forwarding channel that overflowed; that holds for programs
  that find what they read in their registers (`Suits`, `ClearSuits`). Without
  that, as in `mpc_faults`, a party also ends with `EmptyError`.
- *TcpWrap* (`FlowInv`, `ImplementsLink`, `LossOnlyAtTheEnd`, `ReaderDrains`, `Exits`). The
  writer drops messages only for a thread that has ended, or to a reader that
  has.
- *Startup* (`TypeOK`, `CallsFindListeners`, `OneConnection`, `DiscoveryIsExact`,
  `OwnShares`, `PrepWaits`, `Prepared`, `Settles`). Nodes may call a node that does not
  know yet that it should form a cluster; since every node binds its listener
  before it connects to the synchronizer, the call finds a listener. It is refused only by
  a node that has ended, or by one that lives but whose accepting thread has panicked
  because some other caller ended between connecting and writing its id (`io.rs:219`):
  the listener goes with that thread, and the node itself panics when it joins it
  (`io.rs:255`). fake_prep
  deals to the right nodes only because it sorts them, and not too early only
  because it takes configured ids. If a process ends early or a stray keeps silent,
  `Settles` says who may wait forever: the synchronizer and the nodes that wait for its signal,
  for the stray; nodes of lower id in `form_cluster`; and fake_prep.
- *Shutdown* (`DoneMeansDone`, `FailsOnlyForTheEarly`, `AllExit`). When the
  synchronizer succeeds every node has; but a node may fail because another one,
  which was done, shut its connections down before its last `Opening` was written,
  although every timeout is timely (the cause is that of `tcp_shutdown`: the
  signal overtakes queued messages). No two processes ever wait for each other's joins.
- *Shares* (`TypeOK`, `Authentic`, `CheckIsExact`, `HonestPasses`, `ProductIsRight`).
  Sharings stay sharings of what they are meant to be, and `MUL_PROG` multiplies. The
  check of honest parties passes as long as the program adds and multiplies by public
  values only (`PublicOperands`: opened, or computed from such); a program of the run
  that multiplies by an input, which every party takes from its own register, does fail it,
  so that this condition is needed.


## 4. Bounds, and why they are enough

- *Lockstep*: N = 3 parties, so that a broadcast or a collection can stop before,
  between and after other parties; the proofs remove this bound. Programs of at
  most three instructions, the same for all or different for one party; from the
  second round on rounds look alike. `Cap` = 5 as `TEST_CAP` and `DEFAULT_CAP`; the
  deployed 1000 is larger, and `ChannelBound` shows that 2 would do.
- *Mpc*: N = 2 for the long program (MUL_PROG's shape: two inputs, a triple, two
  openings, a result, Stop) and for arbitrary timeouts; N = 3 where verdicts of several
  parties are compared. `ForwardingCap` = 2 instead of 1024, so that overflow
  happens with five messages of preprocessing; the code behaves in the same way
  at its limit. Two sharings for one party are the least with which LIFO order
  matters.
- `Timely` says whether a `recv_timeout` may expire while its sender lives.
  TRUE assumes that one second is enough, which is what the authors count on; then one
  can ask what *else* makes a computation fail. FALSE assumes nothing.
- `PrepCloses`: whether the preprocessing channel may disconnect, after its last message
  or before, as when `fake_prep` ends or fails; the integration tests keep it open.
- `Self`: whether a party has a channel to itself, as in the integration tests, or not,
  as in `online_node_main`.
- `Given`: what clear registers may hold at first. `OwnInputs` (`from_prog`) where a program is
  to go through, `AllInputs` (`from_vec` in the tests) in two of the runs of section 8, and
  these two and empty registers in `mpc_faults`.
- *TcpWrap*: K = 3 messages each way, enough for messages to be in both channels
  and the stream at once; the proof is for every K.
- *Startup*: N = 3: the lowest node only accepts, the highest only calls, the
  middle one does both. One stray, which calls the synchronizer or fake_prep. `Faulty`:
  nobody, the middle node, or the stray. One sharing per party and one triple: four
  elements, so that the dealing can stop in the middle of each; the proofs are for
  all N, strays, faults and counts.
- *Shutdown*: N = 2 nodes and the synchronizer, each of them connected to the other two;
  `late` is chosen in the initial state and says whether timeouts may expire although the
  message will come. The proofs are for every N.
- *Shares*: N = 2, P = 3 (the least field in which signs matter), all inputs, keys,
  random values and triples; the masks of the random generator are restricted per
  program (`masks`) as their effect cancels in a sum. Registers 0 to 10 as in
  MUL_PROG. The four programs contain every instruction and both errors, `EmptyError` and
  `MACCheckError`; the proofs are for every N, prime P, program and masks.

Every run explores its whole state space; no constraint cuts it off. Deadlock is
checked everywhere but in `startup`, where the code has states in which processes
wait forever (section 8); `Settles` says which.


## 5. Fairness

Weak fairness for each thread's steps, and for nothing else: the operating system
schedules every thread that can run. It suffices because every wait of the online phase
is a `recv_timeout`, or a `recv` on a channel that disconnects when its sender ends,
and so a thread that waits always has a step in the end: the message, the error, or
the timeout. No action that stands for a failure of the environment is fair on
its own (`PrepFails`, `PrepEnds`, `Crash`, `Leave`, and that fake_prep is started at
all, have no fairness). In `TcpWrap` and `Shutdown` it includes that what was
written is delivered.

In `Startup` the strays have no fairness at all: nothing makes a process that is not
of the deployment go on. Discovery (`io.rs:155`) and fake_prep (`io.rs:499`) read an id from
one connection before they accept the next, without a timeout, so a stray that
connects and keeps silent does hold up everybody for as long as it likes. `Prepared` and
`Settles` have this among their outcomes (`HeldUp`, `PrepHeldUp`).


## 6. What is proved

All theorems are for every value of the constants that satisfies the named
assumptions (`LockstepAssumption`: N and Cap positive, programs are sequences of
instructions; `MpcAssumption`; `TcpAssumption`: K positive; `ClusterAssumption`: strays
are not nodes; `StartupAssumption`; `ShutdownAssumption`: N positive;
`SharesAssumption`: N positive, P above 1; `PrimeAssumption`: a product that is 0 modulo P
has a factor that is; `JobsAssumption`: programs are sequences of instructions with a
Stop). `PrimeAssumption` is all that is assumed of primes, and only `CheckIsExactHolds`
uses it.

**LockstepProofs.** `TypeCorrect`, `Inductive` (`Spec => []IInv`), and from it
`LockstepHolds`, `RepliesHold`, `ChannelBoundHolds`, `DecisionHolds` and
`Refinement` (`Spec => R!Spec`: Lockstep implements Rounds).

The lockstep property is not inductive: that party p may begin says something about
party q only through the synchronizer's count of replies, which lags behind by what is in
the channels. `IInv` counts. Of every round and every party it says whether `Next`
has been sent (`Granted`) and the reply received (`Received`); what p has begun
plus the `Next` in its channel is at most what was granted; what p has replied is
what was received plus the reply in its channel. The contents of a channel are one of
five sequences (`InFlight`). While the synchronizer collects, or after it failed,
`replied[q] >= round - 1` for all q and `pc[p] <= round` for all p, and lockstep
follows. The proof has one step per action, and under it one per conjunct.

The second part of the module proves `NoPanics` (`UniformNeverPanics`) and `SuccessHolds`
(`SuccessIsUnanimous`). On top of `IInv`, `AInv` says what a reply is: what a party has
answered in round k is determined by instruction k of its program (`ReplyOf`); a
party that answered Done is joining or has returned; one that runs has taken its
`Start`, so that only `Next` is in its channel; and the synchronizer's `replies` are those
of this round, in channel order. If programs are the same, so are the replies of a
round, and the if-chain of `Synchronizer::listen` cannot fall through; and a party
that has not answered Done has its Stop still ahead.

**MpcProofs.** `MpcImplementsLockstep` (`MpcSpec => Spec`): every step of a virtual
machine leaves Lockstep's variables alone, and every step of a party's thread
is a Lockstep step or leaves them alone. So `MpcInLockstep`,
`MpcChannelsBounded`, `MpcNoPanics`, `MpcSuccess`, `MpcImplementsRounds` hold of the
whole computation, for any program and preprocessing, either wiring, timely timeouts
or not.

What `Mpc` adds to `Lockstep` rests on one inductive invariant, `HandInv`
(`HandshakeHolds`). It is about one party at a time and relates the party's
thread to its virtual machine, which share three channels: of an instruction, an
action and an answer at most one is under way, and the positions of both threads
say which (`VMInv`, `LinkInv`); an action under way is one that the instruction at
hand makes (`ActionFits`); the openings that `mac_check` goes through are there only
while it runs (`PhaseInv`, `ListInv`). It also holds after a VM that gave up: its
thread leaves the party in `action` with nothing to take, and the party then ends with
an error. It needs nothing of other parties. From it:

- `MpcTypeCorrect` (`MpcTypeOK`): the invariant `MpcTypes` says in addition that
  channels and `randMsgs` hold sharings.
- `ResultsAreChecked` (`ResultIsChecked`), through `WorkInv`: what is in `openings`
  or `verified` is exactly the opening instructions executed so far, the one
  at hand counted or not according to where the VM is; the same for `output`, which
  is ordered; and a VM that is done has no openings left.
- `SharingsAreFresh` (`FreshSharing`), through `FreshInv`: of the sharings that were
  forwarded, those in `randMsgs` and its channel, those in the channel of triples
  and those used by each instruction are pairwise disjoint, and no sequence holds one
  twice. This is where `MpcAssumption`'s "each a sharing of its own" is used:
  `gen_fake_prep` makes every element anew.

**MessageProofs.** Messages between parties say nothing of the instruction or the
opening they belong to. `ExchangeHolds` proves what makes this right
(`ExchangeInv`). Every instruction has a number of messages that a party sends to
each peer in executing it: `Start(k)`, which is 1 for an input or an opening, plus
two for each opening it checks. How many values it checks depends only on the program
(`CountInv`, by a count of the openings since the last check). Of every party the
invariant says how many messages of its instruction it has still to send, u, and to
receive, r (`Position`: u = r between exchanges, r = u + 1 while it waits). Then the
channel from q to p holds, of the later of the two parties' instructions, exactly the
messages that q has sent and p not received: counted by what is left, those from p's r
down to q's u + 1 (`Carries`, `Fits`), where a
party that has not begun that instruction has all of it left (`Left`). That a party which has ended
an instruction has no messages of it left over, and that none is two
instructions ahead, is `LockstepInv` and what a reply means (`IInv`, `Behind`). From it:

- `MessagesAreRight` (`RightMessage`): what a party finds is of the kind, the
  instruction and the opening that it waits for, so no `unwrap_` panics.
- `PeersBounded` (`PeerBound`): r is at most u + 1, and two parties in one
  instruction are at most one exchange apart.

A party that gives up in the middle is covered: it stays where it was, and the counts with it.

**AgreementProofs.** What the parties agree on, and what makes a computation fail. The first three
theorems have the hypothesis `Self`: each party is one of its own
peers, as `integration_test.rs` wires them. Without it they are false, which is the
finding of `mpc_online_open`. Programs, the number of parties, preprocessing and timeouts are arbitrary.

- `OpeningsAgree` (`OpenAgreement`) and `VerdictsAgree` (`VerdictAgreement`). First
  `OrderInv`: openings are in program order, so the n-th of a check is the same
  instruction at every party (`Place`), which the message's number n alone does not
  say. Then `ValuesInv`: there is a table s of the share that each party sent for each
  instruction, such that what a party keeps or has verified for an instruction
  is what s has for it of all parties (`RecordInv`); that a share is sent once, with the
  action (`SentInv`); that commitments and openings in the channels and in `coms` are
  those of s (`Good`); and that a check that has passed found the shares of all its
  openings to agree, and one that failed found some that do not (`CheckInv`). The table is a
  witness carried from step to step: `OnOpen` extends it by one entry, every other
  step keeps it. Since a verdict depends only on s and on the instruction, it is the
  same for all.
- `ComputationIsIdeal` (`ImplementsComputation`, `MpcSpec => C!Spec`): a passed
  `EndCheck` is the ideal `Check`, a return is `Return`, a failure `Fail`, all else
  stutters. `StopInv` says that a party returns exactly at the first Stop,
  and so with every opening up to it checked; `IdealInv` that what was checked is one value per
  instruction, with everybody's share of the same sharing. (Writing this proof
  showed that `Computation` has to be given the openings up to the first Stop, and not
  those of code behind it: `Reached`.)

The last two are about programs and preprocessing that suit each other (`Suits`, in `Mpc`): the
program stops, reads a secret register only after it has written it, and has one input of
each party at most, for which there is one mask; and there are triples enough. The last one
needs the same of clear registers (`ClearSuits`): whatever registers the parties are given,
the owner of an input has its value, with the clear value of the mask, and everybody else
finds a value where an instruction reads one, given or written before it. TLC evaluates both
for `MUL_PROG` and for the program of `mpc_mac_error` (an assumption of `MCMpc`). They are
needed: with two inputs of one party, or two masks, sharings are mixed up
(`mpc_mask_mismatch`) and the check fails; and a register that is read empty, or
preprocessing that is not there at all, fails whoever needs it.

- `SharingsAreTheSame` (`SameSharing`, which `mpc_mask_mismatch` violates with a program that
  does not suit its preprocessing): whatever times out and however it is wired. `SupplyInv`
  counts: the triples in the channel are, in turn, those after the ones the
  instructions so far have taken (`InTurn`), a mask that was forwarded is waiting or was
  used by the one input it is for (`NotLost`), and so what an instruction has used is
  determined by program and preprocessing alone (`RightUse`).
- `FailsOnlyForPrepHolds` (`FailsOnlyForPrep`), with `ClearSuits`, `Timely`, `Self` and without
  `PrepCloses`. That no instruction finds a clear register empty is `AllClear`: what was given
  and what the instructions finished so far have written is in the clear registers
  (`ClearInv`), so what the next one reads is there (`ClearReadable`).
  Since everybody uses the same sharings, registers are the same at all parties: those of
  `Run`, the program executed on its own (`RegInv`, which also says that what has been
  written is not empty). So everybody sends the same share when it opens a value (`Linked`, of the
  table s above), and no check fails while nothing else has. The invariant is
  `FailInv`: either preprocessing has been too late or too much for somebody (`Trouble`,
  which stays), or nobody has failed in any way (`Calm`) and shares are linked. A step from
  calm must be calm or trouble, which is proved thread by thread: a timely timeout waits
  for a thread that has ended, in a calm state it ended with its result, and then, by
  `LockstepInv`, `ExchangeInv`, `GoingOn` and `Replied`, what the other waits for has been
  sent. `DeadInv` says which states of party and VM are left once a VM has failed.

**TcpWrapProofs.** `Inductive` (`Spec => []FlowInv`) and `WrapperImplementsLink`
(`Spec => L!Spec`). Messages are numbered. `Flow(e)` says that what the peer has
received, its reader's channel, the stream and the writer's channel hold, in this
order, consecutive numbers up to the last one sent; the part about the stream
only as long as the reader reads, the part about the writer's channel only as long
as the writer writes. What a thread that gives up had in hand is lost, and
nothing behind it moves any more, so no gap is ever received.

`LossHolds` and `DrainHolds` (`LossOnlyAtTheEnd`, `ReaderDrains`) follow from a
second invariant, `Ending`: of the two threads of an end, none gives up before the
end's user is over or the other end has shut the stream down; and while the user runs,
the reader gives up only after everything was read, or after its own writer.

**StartupProofs.** First of `Cluster`: `ClusterInductive` (`Spec => []CInv`) and from it `ListenersHold`,
`OneConnectionHolds`, `DiscoveryHolds`. The invariant ties the order of events at
different nodes together: who is told to go on is among those found, whose id was
written after their listener was bound; and of each pair, the call is nowhere,
in the queue of the lower node, or taken, in step with what the higher one has
made. A node is formed only with all its calls made and taken; and an accepting thread has
panicked only over a caller that has ended without writing its id (`Panics`).

Then of `Startup`: `StartupImplementsCluster` (`StartupSpec => Spec`), and so
`StartupTypes`, `StartupListeners`, `StartupOneConnection`, `StartupDiscovery`.
`PrepWaitsHolds`: a node names itself to fake_prep only once it has formed, which is
stable; `joined` holds different nodes that have named themselves; dealing begins when
there are N of them; and N different nodes are all nodes (a bijection, and the
library's facts about cardinalities). `OwnSharesHold` (`OwnShares`): as all nodes are
there, the node in place i of the sorted connections is node i - 1 (`Sorted`, by how many ids are lower),
so message number w goes to node w mod N; what a node has been dealt is then
determined by `written` (`DealInv`: k whole elements and i shares of the next).

**ShutdownProofs.** `DoneHolds` (`DoneMeansDone`): a `Done` is on its way only from a
node that has succeeded (`DoneIsReported`). `FailuresHold` (`FailsOnlyForTheEarly`)
needs to know that until somebody fails nothing is lost between processes that still
compute (`Connected`), so that the first to fail does so for a message of
one that had succeeded; and that this message stays lost, and its sender a
success, whatever happens after (`Blame`).

**SharesProofs.** Five theorems, one for each property of the run, for any number of
parties, any prime and any programs.

The sums over the parties are inductions over their number. The library's induction
theorems cannot be used (their parameter is an operator); `InductionOnSet` states
induction for a *set* of numbers instead, and follows from the least element of the set of
those that are not in it, by the library's well-founded orders. With it: `Residue` and what
follows from it, that the operations of `Fp` are those of a commutative ring
(`AddLaws`, `MulLaws`), are proved from the definition of `%`; `TotalAdd`, `TotalSub`,
`TotalMul`, `TotalOne` say that a sum over the parties commutes with addition,
subtraction and multiplication by one value, and that a value given to one party
counts once. What the operations of `AuthShare` do to a sharing (`PlusShares`,
`MinusShares`, `MulClearShares`, `AddClearShares`), what a dealt one is (`AuthShareIs`)
and what a check says of one (`CheckOfSharing`) then no longer mention parties one by one.

- `SharesInductive`: `SharesInv` says of every register that stands for a value that it
  holds a sharing of it under the MAC key. `TypesHold` (`TypeOK`), `AuthenticHolds`
  (`Authentic`) and `CheckIsExactHolds` (`CheckIsExact`) follow. The last one is where P
  must be a prime: the error of the value times the MAC key is 0 only if one of the two is.
- `HonestPassesHolds` (`HonestPasses`). The invariant `Honest` relates three parts of the
  state: registers that the program text so far makes public do hold one value
  (`PublicAfter`); so every register that is not empty stands for a value; and
  so the ds of every opening that is waiting, computed with the share of the time of
  the opening, sum to 0 (`ZeroDs`), and keep doing so when the register is overwritten.
- `ProductIsRightHolds` (`ProductIsRight`). `MulInv` follows `MUL_PROG` instruction by
  instruction (`MulPlain`: what each secret register stands for, `MulPublic`: what each
  clear one holds); `Beaver` is the identity (x - a)(y - b) + a(y - b) + b(x - a) + ab = xy in
  the field; and `SharesInductive` leads from the value back to the shares of the output.

Left to TLC:

- liveness (`Terminates`, `MpcTerminates`, `Exits`, `AllExit`, `Prepared`, `Settles`)
  and whatever needs ENABLED, which the provers do not handle;
- the properties that are violated (section 8), under the constants that violate them.

Every safety property of a passing run is stated by a theorem.


## 7. Abstractions and assumptions

- *Atomic broadcast between parties.* In `Mpc` a broadcast to the peers, and the
  receipt of one message from everyone, are single steps. Nobody else uses the same ends
  of these channels, no such send ever blocks (`PeerBound`), and none fails, as the test
  harness clones every sender and receiver and keeps the channels connected.
  (Deployed, a send fails once the wrapper's writer has given up, which it does only when
  an end is over, see `LossOnlyAtTheEnd`; it is then an error of the party, as is
  the timeout that the model has in its place.) The synchronizer's broadcast and collection
  are *not* atomic, since they can stop in the middle.
- *Sending to a thread that has ended* fails or is lost, depending on who else holds the
  channel; `Lockstep` allows both.
- *Values in `Mpc`.* A register holds the set of sharings it was computed from; an
  opened value is the map from the party to the set its share had. The MAC check passes iff
  all these agree. It is exact except for cancellation: two sharings swapped between
  parties and then added would pass for equal; no program of the runs that can swap
  sharings adds them.
- *Clear registers in `Mpc`* either hold a value or do not; what the value is, is in `Shares`.
- *Register addresses* are those of registers that exist; an address beyond 32 is an index out
  of bounds in the VM.
- *Commitments* are injective: a commitment stands for what it commits to.
- *Random values* are drawn when they are used (`Shares`). A MAC key of zero is
  possible and makes the check accept anything; `CheckIsExact` says so.
- *Threads of a process that exits* end with it (`TcpWrap`, `Shutdown`); what had been
  written to a stream by then is still delivered, what was queued is not.
- *`Shutdown` begins in the last exchange* of the last MAC check, since the online phase
  before it is `Mpc`'s. A node's connection to fake_prep is left out: its sender stays
  in scope, and nobody waits for what is sent on it. The wrapper's threads are reduced to
  the writer's state and whether the stream is shut.
- *A stray calls one process*, the synchronizer or fake_prep, once. It may use an id
  that is not configured; two processes with one id are not modelled.
- *Names of connections in `Startup`.* fake_prep's `HashMap` is the sequence of
  arrivals, and what it deals an element's number, kind, owner and share index.


## 8. Known disagreements

Shown by a run (`PROJECT.json`, `findings`):

1. `vm.rs:283`: parties may pop different random sharings for the same `Input`
   (`mpc_mask_mismatch`). The VM pops the newest sharing it has drained, and how many a party had
   forwarded by then is a race of its `select!`. The MAC check then rejects the result
   (`mpc_masks`), so the computation fails rather than being wrong. Needs two inputs
   of one party, or more sharings than inputs.
2. `party.rs:201`: after a failed MAC check the party reports a timeout, as the VM's
   error is only looked at after `Done` (`mpc_mac_error`).
3. `io.rs:433`: deployed, a party has no channel to itself, while the sum of an opening is over
   what is received (`mpc_online_open`).
4. `io.rs:324`: the end of a successful computation races the shutdown of its connections:
   `msg_res.unwrap()` may panic, and the result is not returned (`tcp_shutdown`).

Met while reading, without a run:

- `io.rs:199-200` says that a node accepts lower ids and connects to higher ones; the code
  (205-206) does the opposite, on both sides, which works.
- `vm.rs:130, 133` give `MAdd(s0, c1, s2, id)` and `MMul(s0, c1, s2)`; the code
  (244-260) takes the secret register second and the clear one third.
- `vm.rs:145` says that `SOutput` pushes the value; it pushes the party's share
  of it (`integration_test.rs` adds them up).
- `form_cluster` has no timeout: if a node with a higher id ends before it calls, those with lower
  ids wait forever (the case `StuckInForm` of `Settles`), and so does fake_prep for them. If it ends
  between connecting and writing its id, the node it called panics instead (`io.rs:219`, `255`).
- `create_register` (`from_prog`) fills only a party's own inputs, so a deployed node that runs
  `prog/io.ron`, which outputs two parties' inputs from clear registers, ends with `EmptyError` at the
  first `COutput` of another party's input; the tests of the same program start from
  `from_vec` with zeros there. `mpc_faults` has both.
- fake_prep ends after its last message, its streams close, and the preprocessing channel of
  every party disconnects: a party that is between instructions then fails with a
  `RecvError` (`party.rs:100`, `119`), although it may need no more preprocessing. The
  tests keep that channel open (`PrepCloses` is FALSE in `mpc`).
- `party.rs:141` notes that nothing is forwarded while an instruction executes; the effect is
  the case `Starved` of `FailsOnlyForPrep`.


## 9. Not modelled

- RON configuration and program files, argument parsing, logging: I/O without state.
- SHA-3 and the randomness of commitments; division, parsing and formatting of `Fp`:
  out of a model checker's reach, or without effect on the protocol.
- `Reg::from_vec`, used by tests, and `RegCreationError` for addresses beyond 32.
- The values of the elements `fake_prep_main` writes, apart from `Shares`'s instances.
- Two processes that are configured with the same id.


## 10. The plan

Order of modules, most important behaviour first: Rounds and Lockstep, Mpc,
TcpWrap and Link, Cluster, Shares, then Computation, Startup, Shutdown; all done, with the
runs and bounds above. What could come next is finer detail at the edges: TCP resets that discard
what was written, and processes that share an id.
