# TLA+ models of crumblecracker

crumblecracker runs Linux guests in virtual machines on a desktop host. This
directory holds TLA+ models of the parts whose correctness depends on the order
of steps: what is written before what, who may act between two steps, what a
crash, a lost packet or a failed call leaves behind. TLC checks the models on
small instances; TLAPS proves most of the safety properties for every instance.

## The system and its models

A guest's files live in a *persistent image store*, an overlay over a read-only
image whose changes are kept in a host directory. The guest reaches services of
the host through a vsock device and the network through a user-mode TCP stack.
The VM manager starts and stops machines on the hosts of a placement, and the
headless server drives one machine for clients that speak HTTP.

| part | source (under `src/internal`) | modules |
|---|---|---|
| metadata log, snapshots, recovery of the store | `core/virtio/fs_persistent_wal.go`, `fs_persistent_store.go` | `PersistentWAL`, `PersistentStore`, `DurableStore` |
| file data of the store | `core/virtio/fs_persistent_store.go`, `fs_backends.go` | `PersistentData` |
| VM manager, placement | `core/vm/vm.go`, `core/vm/host/host.go` | `VMManager` |
| headless server, its driver and process | `desktopapp/headless_http.go`, `headless_runtime.go`, `headless_run.go` | `HeadlessServer` |
| vsock device | `core/virtio/vsock.go` | `Vsock` |
| TCP connections of the network stack, the proxy | `core/netstack/netstack.go`, `tcp.go` | `TcpConn` |

`MC*` modules give the constants of the runs. Proofs are in `*Proofs`,
`VMManagerCallers` and `VMManagerSlots`. The parts meet at narrow places, and the
models meet there too: `PersistentData` takes the commit of an inode record as one
step, which is what `PersistentStore` shows of the log; the headless server uses
one machine of a manager, of which it sees that it starts, exits and is released;
vsock and TCP treat the guest's driver and socket as external.
`PROJECT.json` lists every part of the repository with its status, and maps every
definition to the lines it translates.

## The persistent store: metadata

*Code.* The store directory holds `metadata.wal`, two snapshot slots
`metadata.0` and `metadata.1`, the markers `INITIALIZED` and `DIRTY`, and one
data file per inode. A mutation changes memory and marks the record pending. A *barrier*
(Fsync, FsyncDir, SyncFS, Close) syncs data files, appends one log record with
the next sequence number and syncs the log. A long log is compacted: a snapshot
is staged, renamed into the slot not in use, the directory is synced, the log is
truncated. Opening takes the valid slot with the highest sequence and replays the
records that continue it; the rest of the log is quarantined.

*State of `PersistentWAL`.* Every file has a visible contents (`wal`, `slot`,
`marks`), which a killed process leaves behind, and a stable one (`walDisk`,
`slotDisk`, `marksDisk`), towards which a power failure falls back. `host` is the
platform with the failures and crashes it may have: `syncPersistentDirectory` makes
the names in the directory stable on POSIX and does nothing on Windows (`SyncDir`).
The log's own name is taken to be stable; it could only be lost while a store is
created, before anything is promised. `sequence`, `metadataSlot`, `durable`
and `pending` are fields of `persistentImageStore`, `live` the file system in
memory, `pc` the place in the running operation. A persistent state is a function
from record keys to values and a delta a partial one; the encodings of records
and snapshots are abstracted to that, the order of every file operation is kept.
Three variables are history: `promise` holds the states a caller may find after a
crash, `hist[n]` the state that sequence number `n` stands for, `used` whether an
attachment was ever handed to a caller.

*Actions.* `OpenLoad`, `OpenInit`, `OpenRefused` open the store; `ReplaySkip`,
`ReplayApply`, `ReplayEnd` are `replayWAL` and `quarantineWALTail`;
`RecoverIncomplete`, `Restore`, `MarkInitialized`, `MarkAttached` and the directory
syncs `MarkSync` and `Attach` lead from there to an attachment; `Mutate` is any
mutation; `Fsync`, `FsyncDir`, `SyncFS`, `Close` begin a barrier; `AppendWrite`,
`AppendSync` are `appendDelta`; `Compact`, `RemoveSlot`, `Publish`, `DirSync` are
`save`; `ResetTruncate`, `ResetSync` are `resetWAL`; `MarkClean`, `CleanSync` are
`markClean`. Each has its failing variant, enabled by the host's `faults`.
`ProcessCrash` and `PowerFailure` may strike at every step, recovery included. A
power failure leaves the stable log or any prefix of the visible one that extends
it, the next record possibly torn; each name in the directory that is not stable,
a slot or a marker, survives or not on its own.

*What is promised.* `DurableStore` is the abstract specification: a barrier takes
effect at once or not at all, and is acknowledged only when a power failure cannot
undo it. `PersistentStore` maps its `store` to what recovery would read from
stable storage at this moment (`Recovered`). The properties: `Durability` (an
attachment finds a promised state), `AlwaysRecoverable` (so would one after a
power failure now), `Implements` (every step is a step of `DurableStore` or
changes nothing of it), `NothingForgotten` (a failed barrier keeps every change
pending), `UsedReopens` (a store that was once attached is never refused; on
Windows unless the power fails). The first three are stated for POSIX hosts: on
Windows nothing makes a rename stable, and the model reaches a lost barrier there.
`UsedReopens` does not speak of a store that is being created: a power failure can
keep `INITIALIZED` and lose the first snapshot, and such a store refuses to open,
but nobody was given anything in it.

## The persistent store: file data

`PersistentData` has the bytes of one file: its data file (visible and stable), the
inode in memory (`node`), `trim` (`pendingTrim`), the dirty mark, and the inode
record that recovery would load (`meta`). Pages are `PageSize` bytes, a byte is 0 or
1. Actions are open, write, truncation, the steps of a barrier (sync the bytes,
commit the record, trim), their failures, and the two kinds of crash; a power
failure keeps or loses every unsynced byte on its own. Close detaches also when it
could not sync the bytes (`SyncFails`); the next attachment shows them and takes
them for clean. The ghost `ideal` is the contents POSIX gives the file.
`FileContents`: an attachment shows `ideal`. `Readable`: no read runs past the data
file. `Restorable`: the record passes `restorePersistentNode`.

## The VM manager

*State.* `running`, `starting`, `leases`, `exited`, `closing` are the fields of
`Manager` (reservations have the same keys as starts). An element of `Attempts`
is one call of Start: its phase, its name, its address, its instance, its host
slot and the `Machine` it registers (`stop`, `stopping`, `stopPc`, `watch`, the
locks). `load` is the count of `placementVMHost`. `ops` are operations on a
running machine, `shut` the calls of ShutdownAll.

*Actions.* One per section under `Manager.mu` and one per call into the backend:
`Admit`, `ReserveHost`, `Boot`, `BootFails`, `Register`, `Discard`,
`DiscardClose`, `AbortClose`, `AbortFinish` are a start; `ShutdownInstance`,
`Reap`, `StopLock`, `StopClose`, `StopPublish` a stop; `Exit`, `WatchReturns`,
`WatchPublish` an instance that ends and its watcher; `OpLook` to `BalloonEnds`
the operations that use a machine; `ShutdownAll`, `ShutdownReturns`,
`ShutdownTimeout` the shutdown.

*Properties.* `LiveAccounted` (an instance that runs is known to the manager or
being discarded), `AddressesDistinct`, `AdmittedFits` (an admitted start finds
room on a host), `SlotsCounted` (an instance that boots or runs holds a slot of its
host, unless its Close failed, and a host counts at least the slots held and never
more than it has), `ExitHonest` (what was stopped is not reported as
crashed), `ShutdownComplete`, `ClosedNeverUsed`, `KeptForRetry`; `StopEnds` and
`ShutdownEnds` are liveness.

## The headless server

*State.* Requests in progress (`at`, `key`, `out`), the replay table (`request`,
`reply`), operations and their goroutines (`opState`, `job`, `waits`,
`cancelled`, `timer`), the virtual machines the server reports (`vmState`, `owns`,
`active`, `glass`, `vmJob`), the driver's machines and window (`machine`, `ui`),
the monitor, and the shutdown (`closing`, `gate`, `stopped`, `exit`). A key starts
at most one operation, so a key names its operation, job, context and machine.

*Actions.* `Request`, `Answer`, the `Accept...` actions, `Refuse` and `Responds`
are `ServeHTTP` and `mutate`; `JobBegins`, the `Start...`, `Stop...`, `Glass...`
actions and `PullEnds`, `Leave` the jobs; `TimesOut`, `TimerFires`, `TimerCancels`
deadlines; `GuestExits`, `MonitorLooks`, `MonitorAsks`, `MonitorFails` a guest that
ends by itself; `ParentGone`, `Shutdown...`, `ParentStops`, `ReleaseOwned`, `Exit`
the end of the process.

*Properties.* `OneMachine` ("max_active_vms": 1), `DetachedFirst` (a window is
closed before its guest is powered off), `ActiveHonest`, `ShutdownComplete`, the
action properties `FinishedStays` and `NeverRevived`, and `OperationsEnd`
(`docs/headless.md` 33-36 and 135-144 state the behaviour).

## The vsock device

*State.* The table of connections, each connection with its counters and the
channel pair of its service (`conn`), its `readFromBackend` goroutine (`reader`),
`pendingRx`, the used ring, the free receive buffers, the interrupt (`wake`), the
packet whose handler is in the backend with the device's lock held (`held`),
attachment and `Close`, the service's listener with its queue, whether a keepalive
runs, and, external, the guest's sockets and their packets. Counters are kept modulo
`Wrap` (2^32). `load` says what may happen in a behaviour.

*Actions.* `ProcessTX` is every handler of a guest packet. Two call the backend and
may block there with `v.mu` held, so that nothing else of the device happens:
`Connect` while the listener's queue is full (`ConnectDone`, `ConnectFails` end it)
and `Write` while the connection's channel is full (`WriteDone`, `WriteFails`).
`Reader` is the goroutine's steps; `Keepalive` starts and stops the goroutine that
calls `Poke` (KVM has one while a command or a restore runs, other hypervisors have
none); `NotifyRX`, `Detach`, `Reset`, `CloseMarks`, `CloseAll`, `CloseReturns` are
the device's calls; `Service...` and `ListenerClose` those of the service.

*Properties.* `CreditRespected` (no more bytes in flight than the guest granted),
`StreamIntact` (each stream whole and in order), `ReaderAlive`; liveness:
`Delivered` (bytes reach the guest while a keepalive runs), `CloseEnds` (Close
returns), `WriteEnds` (a handler leaves the backend). Each of the three excepts a
handler that waits for ever for a service that stays open and neither accepts nor
reads (`[]Stalled`): Close waits for the same lock and hangs with it.

## TCP connections

*State.* The fields of `tcpConn` (`c`), the retransmission queue (`sendBuf`), the
reassembly buffer (`ooo`), the channel `recvBuf`, the timer and its callback, the
proxy's two goroutines (`writer`, `reader`), the link (`toGuest`, `toHost`), and,
external, the guest's socket. A unit is the payload of one segment. Numbers are
kept modulo `SeqMod`.

*Actions.* `WritePick` to `WriteTimer` are `Write` between its locks, `CloseWrite`
the half-close, `TimerFires` to `TimeoutSchedules` the timer's callback
`onRetxTimeout`. `Segment...` are `handleSegment` under `c.mu`; what it does after
it has released the lock (deliver, acknowledge and send a FIN, or close) waits in
`rest` and is a step of its own (`HandleAnswers`, `HandleCloses`), so that the timer
and `Write` come between. `Read` and `ProxyCloses` are the proxy; `Guest...` and
`Loses` the guest and the link.

*Properties.* `InOrder`, `ResponseWhole`, `RequestWhole` (unless a FIN without data
came before data that precedes it: the code takes it, and the reader sees a clean
end after part of the request), `NothingLost`, `AckedKept`, `RetxArmed`, and `Ends`
(liveness).

## What the runs check

| run | checks | shows |
|---|---|---|
| `wal` | `Durability`, `AlwaysRecoverable`, `Implements` | a POSIX host, two power failures anywhere, every failure but those of the log write, the log sync and the directory sync: no acknowledged barrier is lost, the protocol refines the atomic store |
| `wal_faults` | `TypeOK`, `NothingForgotten`, `UsedReopens` | every failure, on POSIX with both kinds of crash, on Windows (a slot is replaced in two steps) with kills: a failed barrier forgets no change, a store once attached can be opened |
| `data` | `FileContents`, `Readable`, `Restorable` | kills and Closes that cannot sync the data, or power failures that tear unsynced bytes: a file keeps the contents of its last barrier |
| `headless` | `OneMachine`, `DetachedFirst`, `ActiveHonest`, `ShutdownComplete`, `FinishedStays`, `NeverRevived`, `OperationsEnd` | a pull, a start, a window or a stop, and a second start, stop or shutdown, with retries, deadlines, a guest that exits and a parent that goes away at any moment |
| `vm` | `TypeOK`, `LiveAccounted`, `AddressesDistinct`, `AdmittedFits`, `SlotsCounted`, `ExitHonest`, `ShutdownComplete` | three starts of two names on two hosts of one machine each, with failures, crashes, stops and a shutdown |
| `vm_ops` | `ClosedNeverUsed`, `KeptForRetry`, `StopEnds`, `ShutdownEnds` | an operation (also a snapshot or a balloon request) against stops that may fail and be retried, and a shutdown; stops and shutdowns end |
| `vsock` | `CreditRespected`, `StreamIntact`, `ReaderAlive` | several packets on their way, counters that wrap, credit that runs out, two connections one after the other on one port, all ends of a connection, of the listener and of the device but Close |
| `vsock_live` | `Delivered`, `CloseEnds`, `WriteEnds` | both directions, missed wakeups, a keepalive that comes and goes, a service that may stop accepting and reading, Close |
| `tcp` | `InOrder`, `ResponseWhole`, `RequestWhole`, `NothingLost`, `AckedKept`, `RetxArmed`, `Ends` | six kinds of connection: a queue smaller than the window, lost data, lost acknowledgements, a window of one unit, requests that are lost and reassembled, a reset |
| `wal_torn` | `Durability` (violated) | a log write that fails half way leaves a torn record; acknowledged records behind it are lost |
| `data_gap` | `FileContents` (violated) | a shrink, then a write beyond the new end, reveals discarded bytes |
| `tcp_half` | `ResponseWhole` (violated) | a guest that half-closes before the response has come gets its end before its last byte |

The three violated runs state what a comment of the code says and the code does
not do; `PROJECT.json` quotes the lines under "findings".

### Bounds

- `wal`, `wal_faults`: two record keys and two values are enough for a barrier that
  commits one change and not another. `MaxSeq` counts records and snapshots;
  creation takes two, so 4 or 5 leave two or three barriers with a compaction
  between them. `MaxLog` bounds the log where failed appends take no sequence
  number. Two crashes in `wal` give a crash during the recovery from another.
- `data`: two pages of two bytes and a lower file of three bytes give page
  boundaries, a partial page, and writes across pages.
- `vm`: with two hosts of one slot a third start needs a slot that another one gives
  back; four lease numbers for two names are as tight as the code's 253 for its
  capacity. `MaxStops` bounds retries of a stop. Names, starts and callers are
  symmetric.
- `headless`: four keys, each restricted to the routes that matter at its place
  (`Asks`). The safety properties were also checked with five keys (899,148 states).
- `vsock`, `vsock_live`: `Wrap` is one more than the larger allocation, the tightest
  the counters allow, so that they wrap while packets are on their way, also in the
  second connection. Chunks larger than the credit force the reader to wait, and a
  channel and a queue of one make both backend calls block. `Loads` gives each part
  of the device bounds of its own; together they would be too large.
- `tcp`: `RecvCap` and `SeqMod` are large enough that no number wraps and the channel
  does not overflow; what happens otherwise is listed below. `OOOCap`, `MaxRetries`
  and `DupThreshold` are small so that their limits are reached.

### Fairness

- `VMManager`: goroutines of the manager run; a start that has booted goes on, one
  that boots ends at the latest when a shutdown cancels its context; operations
  under `lifecycleMu` return; a snapshot only once it is cancelled; a balloon
  request only when its instance is gone.
- `HeadlessServer`: goroutines run, deadlines and timers pass, and what the driver
  does ends once its context has ended. Guests, windows and users need do nothing.
- `Vsock`: goroutines run, a keepalive calls `Poke` as long as it runs
  (`core/hv/kvm/session_stream_linux.go`), the guest takes and reads what has
  arrived. An interrupt is taken although it may be missed again and again (strong
  fairness on `GuestInterrupt`). Who waits for `v.mu` gets it although handlers take
  it again and again (strong fairness on `Reader`, `Poke` and `CloseAll`), since a
  `sync.Mutex` hands itself to a waiter that starves. Nothing is asked of the
  service.
- `TcpConn`: the program and the guest do not all stop while one of them can go on; a
  timer fires and its callback runs; a callback does not find the oldest segment
  too young for ever (strong fairness on `Timeout`), since its age grows.
- The persistent store promises no progress, so nothing is assumed of it.

## What is proved

The theorems hold for every value of the constants that the named `ASSUME`s of the
modules allow, and for any number of steps. No theorem has an unproved part.

| theorem | says | under |
|---|---|---|
| `PersistentStoreProofs!TypeCorrect` | `TypeOK` | - |
| `NothingForgottenCorrect`, `UsedReopensCorrect` | whatever fails, both platforms, both kinds of crash | - |
| `DurabilityCorrect`, `AlwaysRecoverableCorrect` | any number of power failures | `Reliable` |
| `ImplementsCorrect` | `PersistentStore` implements `DurableStore` | `Reliable` |
| `PersistentDataProofs!TypeCorrect`, `RestorableCorrect` | all clients, all crashes | - |
| `FileContentsCorrect`, `ReadableCorrect` | every page size and lower file | `Plain` |
| `VMManagerProofs!KeptForRetryCorrect`, `LiveAccountedCorrect`, `ExitHonestCorrect` | any names, starts, hosts | - |
| `VMManagerCallers!ClosedNeverUsedCorrect`, `ShutdownCompleteCorrect` | any operations and callers | - |
| `VMManagerSlots!AdmittedFitsCorrect`, `SlotsCountedCorrect`, `TypeCorrect` | any number of hosts | - |
| `VMManagerSlots!AddressesDistinctCorrect` | | `MaxVMs < LastLease` |
| `HeadlessServerProofs!OneMachineCorrect`, `DetachedFirstCorrect`, `ActiveHonestCorrect`, `ShutdownCompleteCorrect`, `TypeCorrect` | any clients, keys, routes | - |
| `HeadlessServerProofs!FinishedStaysCorrect`, `NeverRevivedCorrect` | action properties | - |
| `VsockProofs!ReaderAliveCorrect` | any ports, connections, widths | - |
| `TcpConnProofs!RetxArmedCorrect` | any load, any losses | - |

*`PersistentStoreProofs`.* `Reliable` says that the hosts are POSIX, that log
writes, log syncs and directory syncs do not fail and that only power failures
interrupt the store; without any one of these `Durability` is false (run `wal_torn`,
and the list below). `Durability` is not inductive: it says nothing about the disk.
`IInv` adds that stable storage always stands for one sequence number n (`At(n)`):
its newest slot, and a log whose first records that slot covers and whose others
lead step by step from the slot's state to a promised `hist[n]`; that the visible
files differ from the stable ones only by the step in progress; and that the
attachment's memory agrees with them. There is one lemma per action. `CoverInv`
(every record not pending has its durable contents, and the delta being appended is
the live contents) gives `NothingForgotten`. `OpenInv` says which slots and records
can exist at each step, whatever failed: it gives `UsedReopens`, and with `IInv`
that `Recovered`, what recovery would read, is `hist[n]`. The refinement then
follows action by action: each step keeps n, or moves it to the number of the
barrier in progress, which is `Commit` of the atomic store. `hist` is a variable so
that "the state after n records" needs no recursion; `Recovered` is defined by the
last record that writes each key, for the same reason.

*`PersistentDataProofs`.* `RecordInv` (types, and pages and size of the two records
are consistent) is inductive for every client. `DataInv` relates the three contents:
the data file covers what a record holds, the record and the file show `ideal`
wherever nothing is dirty, and stable bytes agree with visible ones where a barrier
has synced. `Plain` says that no write starts beyond the end, no truncation enlarges
the file, power failures do not happen beside kills or beside Closes that could not
sync the data, and the lower file has no page of zeroes only. TLC finds
`FileContents` violated when any one of these conditions is dropped.

*`VMManager*`.* `KInv` says who owns a name and a stop; `LInv` adds the locks that
operations hold and what a closed instance implies; `MInv` is a statement `Local(a)`
about each start and its machine (what each phase implies of the instance, the
watcher, the slot and the lease), with the names' leases and exits; `SInv` says what
a ShutdownAll has seen; `DInv` counts slots: `load` is the number of slots of a host,
and slots held or promised are at most `MaxVMs`; `Distinct` says that starts and
machines that may have an instance have different addresses, which needs a lease
number to be free for every admitted start (254 in the code); `TInv` adds the
remaining types. The steps of a start, a stop and a watcher change one element of
`Attempts`, so that most lemmas show `Local` of that one and that the others keep
theirs.

*`HeadlessServerProofs`.* `IInv` says which job may be where for each state of its
machine, that a machine that exists is owned, that at most one owns resources, which
job the machine's cancel and done functions belong to, and that a shutdown that has
drained the jobs stays alone. `RInv` adds the types, what the reports (`active`,
`glass`, operation states, replies) mean, and what is true once a shutdown has
succeeded. The two action properties follow from them step by step.

*`VsockProofs`, `TcpConnProofs`.* `ReaderAlive` needs that a connection in the table
has the port it is found under. `RetxArmed` needs that a timer that has fired has
its callback running (`FiredRuns`): a callback that stops, restarts or reschedules
then always leaves a timer, a stray one, or itself.

TLC checked each inductive invariant on the instances of the runs before it was
proved.

### Only model-checked

- Liveness (`StopEnds`, `ShutdownEnds`, `OperationsEnd`, `Delivered`, `CloseEnds`,
  `WriteEnds`, `Ends`): the provers do not handle fairness.
- `CreditRespected` and `StreamIntact`: they add up the bytes of a queue, and what a
  sum over a sequence does when the sequence grows needs induction over data, which
  the provers cannot apply.
- `InOrder`, `ResponseWhole`, `RequestWhole`, `NothingLost`, `AckedKept`.

## Outside the passing runs

The models reach a violation in these cases, so the runs and theorems exclude them
by constants or by the form of the property. Each is a hazard in `PROJECT.json` or a
note of the property.

- Store: a power failure on Windows; after a failed log sync or directory sync the
  record or snapshot stays and its sequence number is used again; a kill followed by
  a power failure during recovery; bytes left unsynced by a killed attachment or by
  a Close that could not sync them; all-zero pages of the lower file; the tail of an
  enlarged file cannot be read.
- VM manager: an instance whose Close failed in a start leaves the maps; one whose
  Close failed in a start or a stop gives its slot back and may run all the same; a
  second ShutdownAll may return before the first; when the 253 leases are used up,
  255 is given to every further start.
- Headless server: `releaseOwned` may free a machine while its window is open.
- Vsock: a port that is used again while the last connection's reader still runs can
  mix two streams (`EarlyReuse`); without a keepalive bytes can stay in `pendingRx`;
  a service that stays open and neither accepts nor reads blocks the device and
  Close.
- TCP: new acknowledgements are told by a plain comparison, which a wrapped sequence
  number defeats; a full `recvBuf` drops units that were acknowledged; Write can
  miss the broadcast between its test for room and its wait; a lost window update is
  not sent again; a FIN without data is taken whatever its number, and may cut the
  request; the host's FIN is sent once.

## Not modelled

- Store: the lock of the directory, usage accounting, the formats (a record is whole
  or torn), several files, hard links and unlinked open files, and the namespace
  operations of the image file system.
- VM manager: memory and CPU budgets, addresses chosen by the user, status reads,
  and commands inside a machine.
- Headless server: validation of bodies, reads, the progress of a pull, the insides
  of the driver's pull, Jupyter, and errors of `Serve`.
- Vsock: connections opened by the host, register reads, descriptor parsing.
- TCP: the handshake and listeners, Nagle (off), deadlines, congestion control and
  RTT, errors of `sendTCPPacket`, two timer callbacks at once, batches of `WriteTo`.
- The rest of the repository, most of its lines: hypervisor bindings and devices that
  are calls to the host, image download and file-system writers, parsers and
  encoders, graphics, terminal and windows, and command-line tools. They are
  sequential code or input and output, with little state that outlives a call;
  what they do is a matter of single results rather than of orders of steps.
