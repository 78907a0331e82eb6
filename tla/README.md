# TLA+ models of Kara

Kara is a fork of gVisor: a user-space kernel (the sentry) with its own network
stack, started and controlled by `runsc`. The fork adds to gVisor a gate that
asks the host about every outbound flow, a relay that carries connections from
the host into the sandbox, external gofers, a contract for checkpoint and
restore, and a library API. This directory holds TLA+ models of the concurrent
protocols at the fork's heart, of the life of the containers around them, and of
the parts of gVisor they stand on: the file RPC connection and two lock-free
primitives. With them come TLC configurations that check them on small
instances, and proofs of nearly all the safety properties for every instance.

Paths below are relative to `src/`.

## Parts of the system

| Part | State | Operations | What makes it hard |
| --- | --- | --- | --- |
| Ingress relay, `runsc/boot/ingress` | the table of carried connections, a queue per connection, the socket, a context, the first error | frames from the host, dial workers, guest readers, the peer monitor, `shutdown`, `Close` | one goroutine reads for all connections; IDs are used again; anything may fail while anything else is blocked |
| Egress gate client, `runsc/boot/network.go` | one stream, one turn, a `done` channel | `CheckTCP`, `CheckUDP`, `CheckL7`, `Close` | a verdict byte does not name its request; deadlines and `Close` race with the host's answer |
| TCP endpoint under the gate, `pkg/tcpip/transport/tcp` | the hold, the mirrored prefix, the write list and `writeNext` | connect, write, shutdown, acknowledgements, timers, path MTU, save, load, restore | several paths reach `sendData`; the payload is copied with the endpoint unlocked; a checkpoint may catch a held flow |
| The stack's gate, `pkg/tcpip/stack/save_restore.go` | the gate and `egressGated` | load with and without a donated gate | a chain of restores must not lose the gate |
| Flipcall, `pkg/flipcall` | a connection state in shared memory, a control state per endpoint | `Connect`, `RecvFirst`, `SendRecv`, `SendLast`, `Shutdown` | futexes, two processes, `Shutdown` at any instruction |
| Sleeper and Waker, `pkg/sleep` | lists threaded through the wakers, `waitingG` | `AddWaker`, `Fetch`, `AssertAndFetch`, `Done`, `Assert`, `Clear` | lock-free lists, lost wake-ups, wakers used again |
| LISAFS, `pkg/lisafs` | the client's pool of channels and batch of FDs, the server's gate and channels | RPCs over the socket or a channel, `StartChannels`, the watchdog, `Close` on both ends | a pool of channels torn down while it is filled and used; the gofer dies |
| Loader and restore, `runsc/boot` | `Loader.state`, `processes`, the restorer, the gofer monitors, the gate of every network stack | start, create, exec, destroy, wait; one restore call for each container | several control calls, the main goroutine and background ones share one lock and give it up in between |
| The rest of the sentry and of `runsc` | tasks, memory, files, sockets, containers | | see "What is not modelled" |

The parts meet in four places. The endpoint's `connect` and `classifyEgressL7`
call the gate client: `EgressFlow` takes from `EgressGateClient` that a check
returns some verdict, and `EgressGateClient` shows that a verdict is the host's
own on that very check. The stack and the stack creator get their gate from the
loader: `Loader` shows which checkpoints come back to run, and with which gate,
and `EgressFlow` what a flow in them may send. LISAFS channels are flipcall
endpoints: `Lisafs` takes from `Flipcall` that one side has control and that a
shutdown fails the calls of both. When a gofer dies, `Lisafs` says what becomes
of the calls, `Loader` what becomes of the container. Netstack's processor
goroutines and queueing disciplines sleep on `pkg/sleep`.

## Modules

**IngressRelay** models `runsc/boot/ingress/ingress.go`. Each goroutine is an
element of `Procs` with a program counter `pc`: `Serve`, the monitor, `Close`,
and a worker and a reader for each connection. `r` is the `Relay`, `cc[c]` a
`carried` with its worker's locals. Sections under `Relay.mu` and `carried.mu`
are single steps; `writeMu`, `shutdownOnce`, the bounded queues and the two
directions of the socket are explicit, since goroutines block on them.
`WriteCall` lists the seven places that write a frame. The host and the guest
are the environment. What they may do is a plan, chosen from the constant
`Plans` at the start of a behaviour: the IDs, how often each is opened, the
payloads, the moves besides OPEN and DATA, and whether the host reads. A connection is `<<id, gen>>`, where `gen` counts the OPENs of the ID:
the relay never looks at it, the properties do. **IngressProtocol** is the
abstract specification: what the host may read on one ID. `IngressRelay`
implements it with `view` and `rcvd`, the host's reading, as the mapping.
**MCIngressRelay** adds the plans and symmetry of IDs.

**EgressGateClient** models `egressGateClient`: the two selects on the turn, the
second look at `done` and the deadline, the write, the read of one byte, and
`Close` in its two steps (`done`, then the stream). Requests and replies are
labelled with their check, which no step of the client reads. The host answers
each request at most once, in order, with any byte, when it likes.

**EgressFlow** models one TCP endpoint and the stack's gate. `ep` is the
endpoint as one record, because it is saved as one; `image` is the checkpoint.
A byte is named after its writer, a segment is a sequence of bytes, the FIN is
`<<>>`. `StartWrite` and `FinishWrite` are the two halves of `Write` around the
unlocked copy. `Transmit` is `sendData`, which the window lets send `k`
segments. The fields `admitted`, `allowed`, `seen`, `sent`, `here`, `by` and
`held` are additions: only the properties read the first six, and `held`
stands for `egressL7Terminate` set by `afterLoad`. **MCEgressFlow** adds
symmetry, the bounds of the instance and a property that needs `FlattenSeq`.

**Flipcall** models `pkg/flipcall` with one action for each atomic operation or
futex call: the user thread of each side and any number of threads that call
`Shutdown`. `eps` is `ctrl.state`, `conn` the connection state, `pkt` the
datagram in the window. FUTEX_WAIT compares and sleeps in one step, as the
kernel does; a signal may end it at any time.

**Sleep** models `pkg/sleep` at the same grain: `next`, `shared` and `local`
are the pointers of the lists. The goroutine uses one sleeper after another
with the same wakers, while others assert and clear them.

**Lisafs** models both ends of a LISAFS connection: `Client` (`client.go`, with
the pool of channels, the fallback to the socket, the batches of `CloseFD`, the
watchdog and `Close`) and `Connection` (`connection.go`, with its gate, a
service goroutine for each channel and `close`). A thread of the sentry makes
one call, of the kinds `Mount`, `Channel` or `Close`. `execs` counts the
handlers run for a call and `late` the channels that became available after the
shutdown; only properties read them. **RPC** is the abstract specification: a call is executed
at most once, and if it succeeds, once. `Lisafs` implements it with `CallState`
and `execs` as the mapping.

**Loader** models the containers of one sandbox (`loader.go`, `restore.go` and
the container manager in `controller.go`). A critical section of `l.mu` is a
step; only `destroySubcontainer` sleeps in one, so `mu` names the container it
destroys. An incarnation `<<c, g>>` is the g-th start of container c: its init
process, its exec session and its gofer monitor. A task is where it is in its
life, with `ready` and `doomed` for a task that was created and not started.
`rpc[c]` is where the restore call of c stands, `post` the background part.
`net` is the gate of the root stack, of the stack creator and of a namespace
made later, `ckpt` what the image says of them. `plan` is as in IngressRelay.
**MCLoader** has the plans.

**EgressGateClientProofs**, **EgressFlowProofs**, **FlipcallProofs**,
**SleepProofs**, **LisafsProofs**, **LoaderProofs** and **IngressRelayProofs**
hold the theorems, each about the module it is named after;
**IngressRelayLemmas** holds the invariant of `IngressRelay` and most of its
proof.

## Runs

| Run | Instance | Shows |
| --- | --- | --- |
| `ingress_safety` | one ID opened twice with a payload each way; two IDs that compete for one connection while host and guests fail and `Close` runs | `ReuseIsSafe`: nothing of an incarnation is left when the host has read its CLOSE; `ProtocolSpec`: refinement of IngressProtocol; `ErrorsAreTheHosts`, `QuietAfterReturn`, `LiveBounded` |
| `ingress_liveness` | two payloads each way, half-closes, late frames, guest errors, a host that reads; three payloads into a queue of one with everyone stalled | `HalfCloseComplete`, `ConnectionsRetire`; `ShutdownStops` |
| `ingress_host_closure` | the host only closes its end | violated: `ServeNilOnHostClosure` (finding) |
| `egress_gate` | two checks of every kind, any host, deadlines, `Close` | `NoStaleVerdict`, `TurnDiscipline`, `ClosedDenies`, `ChecksReturn`, `CloseUnblocks`, and `TypeOK`, which lets only `CheckL7` be told to wait |
| `egress_flow` | two writers, two segments of up to four bytes, sniff limit 3, two rounds; four checkpoints or restores of short flows | `ClassifiedFirst`, `HostSawTheStream`, `StreamInOrder`, `EOFDecides`; `GateNeverLost`, `CurrentGateApproved`, `HeldNeverResumes` |
| `egress_held` | one writer, one checkpoint and one restore | violated: `HeldIsTerminated` (finding) |
| `flipcall` | two datagrams each way, three threads in `Shutdown` | `OneInControl`, `DatagramIsNext`, `OnlyShutdownErrors`, `LateCallsFail`, `ControlArrives`, `ShutdownUnblocks` |
| `sleep` | two wakers, two asserting goroutines, two sleepers in turn | `QueuedOnce`, `ReadiesParked`, `FetchReturns`, `DoneReturns` |
| `lisafs` | a mount, two channels, two FDs, a batch of two; the gofer may die, `Close` may come at any time | `RPCSpec`: refinement of RPC; `ChannelUse`, `ClosedOnce`; `CallsReturn`: every call and `Close` return, and the gofer's connection drains |
| `lisafs_late` | two channels, no other call | violated: `NoneAvailableAfterShutdown` (finding) |
| `loader` | a root and up to two more containers, started or restored, an exec session, a waiter | `StoppedIsDead`, `GateKept`, `DeadGoferKills`, `NothingHangs` |
| `loader_start` | the same | violated: `StartedOnce` (finding) |

Run one with `tlc -config <file>.cfg <module>`; `PROJECT.json` names module and
configuration.

The bounds are the smallest at which the case of interest happens: two
incarnations for reuse; a queue and socket buffers of one frame, so that every
writer blocks; two checks, one with the turn and one behind it; a sniff limit
below two full segments, so that a prefix is cut; two closers on one endpoint,
so that they race; two wakers, so that a push can lose its compare-and-swap;
two sleepers, so that a late `Assert` meets a goroutine that has moved on; two
channels, so that the second is made over the first; two FDs, so that a batch
is filled by one thread and sent by another. The six plans of `Loader` are a
container that is destroyed and comes back, a root that exits or loses its
gofer, a restored pod with exec sessions, three containers whose restore calls
race, and the two ways to come up with every combination of gates.
`egress_flow` is cut by the constraint `Envelope`: after the first checkpoint
only flows of one segment, one byte and one active writer are followed, which
bounds the instance like a constant does, as the run checks invariants only.
Deadlock checking is off
because every system here may rightly stop: all calls made, every bound used
up. Progress is checked by the liveness properties.

### Fairness

Goroutines and threads inside a call are weakly fair: the Go scheduler and the
kernel run what can run. So are the end of a dial, which has a timeout, the
monitors' tickers and the delivery of a SIGKILL. Nothing is assumed of the host,
the guest, deadlines, signals, the death of a gofer or whoever may start a call,
except in the plan of `ingress_liveness` in which the host reads what it is sent.
In `Sleep` a compare-and-swap may lose for ever, so `FetchReturns` speaks of wakers
that have reached a list.

`Lisafs` and `Loader` state weak fairness of the disjunction `Progress` of the
system's own steps, and their liveness properties have the form `<>[]P`. A
behaviour has only finitely many such steps (every thread makes one call, every
container a bounded number of starts), so the one condition already says that
the system goes on until none of its steps is possible, which is what fairness
of each step would say.

### Findings

1. `ingress_host_closure`: "Serve returns nil on host closure or Close"
   (`runsc/boot/ingress/ingress.go:177`). If a worker writes before `serve`
   reaches EOF, its failed write is the first error and `Serve` returns it.
2. `egress_held`: "Restore it as a terminated connection unconditionally"
   (`pkg/tcpip/transport/tcp/endpoint_state.go:145`). An endpoint that was reset
   while held keeps `egressL7Hold`; at restore `closeEndpointAtRestore` returns
   early and the socket comes back in `StateInitial`. No held byte is sent
   (`HeldNeverResumes` holds).
3. `lisafs_late`: "Prevent channels from becoming available and serving new
   requests" (`pkg/lisafs/client.go:210`). A goroutine of `StartChannels` that
   is past its RPC appends its channel afterwards, which makes the list non-nil
   again, and `releaseChannel` then puts back the channels still in use.
   `ChannelUse` and `CallsReturn` exempt the channels that became available in
   this way (`late`).
4. `loader_start`: "Start must be called exactly once for each task returned by
   NewTask" (`pkg/sentry/kernel/task_start.go:546`). `restore` gives up `l.mu`
   when `processes` is rebuilt, and `run` takes it again. The task of an exec
   that comes in between is started by the exec and again by `Kernel.Start`.

`Flipcall` shows a subtlety that is not a disagreement: `Shutdown` does not wait
for the call it interrupts, and that call may be the one to mark the connection.
A `SendLast` of the peer that starts in between still succeeds, so
`LateCallsFail` asks that the interrupted call has returned too.

## Proofs

Theorems have the form `Safety => []P` (`Spec => []P` for EgressFlow and
Loader), and for the two refinements `Safety => RPCSpec` and
`Safety => ProtocolSpec`. Each follows from an inductive invariant that is
proved action by action. Where a module has several questions there are several
invariants, each proved with the help of the ones before it.

- **EgressGateClientProofs**, for any set of checks. `NoStaleVerdict` is not
  inductive: it must be known that a stream not yet closed holds at most one
  message, which belongs to the holder of the turn (`StreamInv`), that the turn
  and the program counters agree (`TurnInv`), that a check with a request in the
  stream has returned nothing but a refusal (`ResultInv`), and that a late check
  never reaches the stream (`LateInv`). `TurnsAreClean` (`TurnDiscipline`) says
  that the turn comes back with nothing left in the stream.
- **EgressFlowProofs**, for any writers, limits and number of checkpoints.
  `Good(e)` says that a flow under classification has sent nothing and that a
  gated flow not yet allowed is under classification while it is active. It is
  an invariant of the running endpoint and of the saved one, because a restore
  brings the latter back; `Approved` ties it to the gate of this incarnation.
  `StreamInOrder` needs a second one, `OrderInv`: everything acknowledged and,
  unless the flow is held, everything before `writeNext` has left. A held flow
  may have its `writeNext` anywhere, and the release rewinds it.
- **FlipcallProofs**, for any number of datagrams and of threads in `Shutdown`.
  `ControlInv`: a side in control is the one the connection state names, unless
  it is shut down. `BitsInv`: the control state is exactly what the threads'
  positions say. `SwapInv`: once `epsShutdown` is set, the connection is shut
  down or someone is bound to do it. `ErrorInv` and `LateInv` give the results.
  `DatagramIsNext` is from `WindowInv`: the counts of the two sides follow from
  whose turn it is (`CountInv`, `TurnInv`), and a datagram about to be received
  stays in the window even when `Shutdown` has overwritten the connection state
  (`ReceiptInv`).
- **SleepProofs**, for any wakers, asserting goroutines and sleepers. The wakers
  of a list are the least set that is closed under `next`, so that lemmas on
  pushing, popping and reversing need no induction. `ReadiesParked` follows from
  what `nextWaker` has found at each of its steps (`WaitInv`, `StepInv`).
  `QueuedOnce` needs `QInv`: the three lists and the pushes under way have no
  waker in common, they hold exactly the wakers that are added and not idle, and
  no waker is reached from the one after it (`AcyclicInv`), on a list or not,
  since a pointer that a waker kept would tie a knot when it is queued again.
- **LisafsProofs**, for any threads, channels, FDs and batch size. `Inv` follows
  a request as a token: it is in one place (`TokenInv`), its place says whether
  its handler has run (`SockExec`, `ChanExec`, `ServeExec`), and what a waiting
  thread finds on its communicator is its own (`SockMatch`, `ChanMatch`), which
  in turn needs that a channel has one user (`PoolInv`). From it follow the
  refinement of RPC and, with the phases of the watchdog (`UseInv`),
  `ChannelUse`; with the batches as a partition of the FDs handed over
  (`BatchInv`), `ClosedOnce`.
- **LoaderProofs**, for any pod, plans, containers and waiters. `GateKept` is
  not inductive: a load may leave a kernel without its gate, and that it never
  starts depends on which call could still start it. `GateInv` adds that a call
  about to load or start is the only one and the last (`Calls`), and that an
  inconsistent network belongs to a kernel no call will start (`Dead`).
  `StoppedIsDead` needs `LifeInv`, which follows every incarnation: what runs is
  in `processes`, a session does not outlive its init process, and what a
  sleeping destroy has killed does not start again.
- **IngressRelayLemmas** and **IngressRelayProofs**, for any IDs, incarnations,
  payloads, queue depths and limits. `Inv` is long because the properties meet
  in it. `ConnInv` ties a connection's two goroutines, its guest connection and
  its entry in the map together, `RelayInv` the phases of `shutdown` to what
  still runs, `FaultInv` an error to who caused it. `FlowInv` says that the
  frames in the socket fit the host's phases one after the other; for it to
  survive a write, whoever may write next must be about to write a frame that
  fits (`WriteInv`, `RefuseInv`, `OpenInv`). `PayloadInv` says that the payloads
  on their way to the host have no gap. From `Inv` follow `ReuseIsSafe`,
  `ErrorsAreTheHosts` and `QuietAfterReturn`; with `StartInv` (an ID never
  opened is closed) the refinement of IngressProtocol, with `LimitInv` (the map
  and the queues) `LiveBounded`.

`TypeCorrect` of EgressFlowProofs and FlipcallProofs is only proved; TLC's runs
would add nothing.

Assumptions, all evaluated by TLC on every run: that the distinguished values
(`NoCheck`, `None`, `Nil`, `Asserted`, `Self`, `Sock`) are none of the others;
that limits and bounds are natural numbers, positive where the code's are; that
plans are made of the given IDs, moves and containers and have a largest number
of incarnations; and, for `LiveBounded`, which counts, that there are finitely
many IDs.

Only model-checked are:

- `HostSawTheStream`, which compares the held prefix with the concatenation of
  the segments: `FlattenSeq` is a recursion, and what it computes for every input
  needs induction over data, which the provers cannot do here;
- `HalfCloseComplete`, an action property. Its proof would need one more
  invariant on the frames from the host through `serve` and the queue to the
  guest;
- all liveness (`ConnectionsRetire`, `ShutdownStops`, `ChecksReturn`,
  `CloseUnblocks`, `ControlArrives`, `ShutdownUnblocks`, `FetchReturns`,
  `DoneReturns`, `CallsReturn`, `DeadGoferKills`, `NothingHangs`), which is
  beyond the prover.

## What the models leave out

- **Ingress.** Encoding of frames (a malformed frame is one kind, `BAD`), empty
  DATA frames, a second CLOSE_WRITE, a second call of `Serve`, validation of the
  donated descriptor. The guest's `Read` returns data or an error, not both, as
  gonet's does. The host opens an ID again only after reading its CLOSE, as the
  package comment demands. `HalfCloseComplete` speaks of connections that are
  not cancelled: afterwards a `select` may drop one frame and pass the next.
  A full queue stalls all connections; that is the design, not a property.
- **Gate client.** Addresses and encoding; destinations are four classes.
- **TCP.** Congestion control, loss recovery, zero-window probes, receiving,
  listeners, options. An acknowledgement of several segments is several steps.
  `connect` runs under the endpoint's lock, so `StateConnecting` is never seen.
  `used` drops by one more when the FIN is acknowledged, as in the code, where
  nothing depends on it afterwards. Guest threads are stopped at a save. The
  refusal to restore a gated checkpoint without a gate is in `Loader`; the check
  of each UDP datagram is not modelled. `CurrentGateApproved` exempts
  accepted connections and handshakes begun on an ungated stack.
- **Flipcall.** Failing futex calls and over-long lengths, which need a broken
  peer or kernel; the allocator of packet windows.
- **LISAFS.** Messages other than the three, sizes, donated descriptors, reference
  counts. `Connect` on a channel whose gofer died before its first answer waits
  on nothing that could wake it; `CallsReturn` exempts it (`Stranded`).
- **Loader.** Control calls of one container exclude each other, as `runsc` holds
  the container's lock for them; exec and wait do not take it. Each container has
  a PID namespace of its own. A restored container gets no gofer monitor, as in
  the code. The first part of `Restore` runs in one critical section; an error
  in it dereferences the nil `restoreDone`, which ends the process. Exit
  statuses, the extraction of a root file system from an image, mounts, devices
  and cgroups are left out; any of their steps may fail.
- **Sleep.** The scheduler hint `wakep` and the hooks for save and load.

Memory is sequentially consistent in `Flipcall` and `Sleep`, as Go's atomic
operations are.

## What is not modelled

`PROJECT.json` lists every part with its reason. In short: code whose behaviour
is the host kernel's or the hardware's (platforms, fsgofer, cgroups), code that
only observes (metrics, logs, seccheck), encodings and tables (ABI, messages,
system call tables), and large subsystems each of which would be a project
(tasks and signals, memory, the file systems, the rest of netstack). The source
is the whole of gVisor with the fork's additions; these models cover the fork's
concurrent protocols and what they rest on, which is a small part of its lines.

## Where it could grow

1. **LisafsServer**: reference counts of FDs and nodes under the rename lock.
2. **SyncGate** and **SeqCount** (`pkg/sync`), **SyncEvent** (`pkg/syncevent`),
   **Futex** (`pkg/sentry/kernel/futex`), at the grain of atomic operations.
3. **Container**: the state machine and file locks of `runsc/container`, composed
   with `Loader`, in place of the assumption that calls exclude each other.
4. `Flipcall` shown to implement the channel `Lisafs` assumes.
5. Theorems: `HalfCloseComplete` for `IngressRelay`, which needs an invariant of
   the frames on their way to the guest, like `PayloadInv` in the other
   direction; `HostSawTheStream` once the prover can do induction over data.
