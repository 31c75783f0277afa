# A verification of GETWAY

GETWAY (C++, Linux) connects serial and Bluetooth devices to an MQTT broker. Next to the
gateway run an A/B firmware updater and a daemon that supervises both programs. This directory
holds TLA+ modules of its components, the configurations with which TLC checks them on small
instances, and theorems that TLAPS proves for every value of the constants.

`tlc -config X.cfg M` checks a module, `tlapm M.tla` checks its proofs. PROJECT.json lists the
runs, the mutants that show that each property can fail, the source lines each definition
models, the hazards, the findings and the theorems.

## 1. Inventory

### Components

| component | source | state | operations | module |
|---|---|---|---|---|
| ThreadPool | App/ThreadPool | task queue, mutex, condition, `stop_` | constructor, worker loop, `addtask`, `stopthread`, destructor | ThreadPool, TaskPool |
| Buffer | App/Buffer | byte vector, `start_`, `len_`, a mutex | `write`, `read`, `peek`, `clear`, queries | Buffer, ByteQueue |
| Device | App/Device | `fd_`, `isRunning_`, read thread, two Buffers, callback | `start`, `write`, `stop`, `close`, `backgroundTask`, `recvTask`, `sendTask` | Device |
| BluetoothDevice | App/bluetooth | 128-byte frame buffer | `postRead` (frame assembly), `preWrite` (AT command) | Bluetooth |
| Serial | App/Serial | termios of the line | configuration | input of Device (`Blocking`) |
| Message | App/Message | type, id, payload | binary and JSON codec | Message |
| MQTTClient | App/_MQTTClient, _MQTTCallback | `connected_`, `needResubscribe_`, `firstConnectDone_`, topic | `start`, `send`, `tryResubscribe`, callbacks, `close` | MQTTClient |
| Route, gateway main | App/Route, App/run, Getway.cpp | list of devices, `g_running` | `init`, `registerDevice`, `close`, message flow both ways, `runGateway`, `stopGateway` | Gateway |
| OTA updater | Ota/OTA, ota_main | boot meta, version file, slots A and B, retry count | `init`, `handlePendingBoot`, `commit`, rollback, `runOnce` | OTA |
| Daemon | Deamon/Deamon, deamonmain | processes with pid and counters, stop flags | `run`, `startAll`, `monitorLoop`, `handleChildExit`, `restartProcess`, `stopAll`, `stop`, signal handler, destructor | Daemon |
| build files, test.cpp, src/bin | | | | nothing to model |

### How they interact

    line --read()--> Device.backgroundTask --> recvBuffer_ --recvTask on the pool--> Route
         <-write()-- Device.sendTask       <-- sendBuffer_ <--Device.write()-------- Route
                                                             Route <-- Message --> MQTTClient <--> broker

* The read thread of a device stores bytes in a Buffer and adds a `recvTask` to the ThreadPool,
  one for every block; `Device::write` does the same with `sendTask`. Several tasks of one device
  can run at a time: nothing but the Buffer's own mutex, taken per call, keeps them apart.
* Route's callback runs on a worker of the pool; the broker's messages arrive on the MQTT
  library's thread and call `Device::write`.
* The updater talks to the gateway through the version file only, and to the boot loader through
  a callback (`setBootTarget`) and the two slots. It persists the boot meta and the version file
  by write-temporary, fsync, rename.
* The daemon owns programs as children (fork, waitpid, SIGTERM, SIGKILL): the gateway, and the
  updater if its line in deamonmain.cpp is put back.

### What is hard, and what must hold

* ThreadPool: `stop_` changes without the mutex; `notify_one` is sent after the unlock. No
  accepted task is lost, stranded or run twice; the destructor returns.
* Buffer: wrap-around and boundary arithmetic. A bounded FIFO queue of bytes, all or nothing on
  write.
* Device: blocks cut anywhere, tasks that overlap, storing and adding a task are two steps, stop
  races with read and write. Whole packets, in order, none left behind.
* OTA: a crash or a failed save between any two steps that persist something. Only verified
  images boot, a bad one is tried a bounded number of times, the confirmed one is never lost.
* Daemon: children exit, signals and `stop()` arrive at any moment. No child is lost, doubled,
  restarted beyond its limits or left running; a stop ends.
* Bluetooth: reads cut frames anywhere, noise and acknowledgements stand between them, payloads
  look like headers. No frame is cut, skipped or taken twice; what goes on carries its payload.
* MQTTClient: three flags shared by the library's callbacks, the senders and the main thread. The
  client knows its connection, and a lost subscription is made again.
* Gateway: four kinds of threads meet in Route without a lock; messages arrive before it is set
  up and while it is torn down. Messages get through or are given up with an error, no destroyed
  object is used, a stop ends.

The hazards, each at its line with the properties that cover it, are in PROJECT.json.

## 2. Plan

Order, most important behaviour first. All done.

1. **ThreadPool**, implementing **TaskPool**; theorems: type, drain before exit, no stranded
   task, refinement.
2. **OTA**: persistence under crashes; theorems: type, well-formed boot meta, verified images,
   bounded attempts, active image kept, confirms only what waits.
3. **Buffer**, implementing **ByteQueue**; theorems: type, refinement.
4. **Daemon**; theorems: see section 5.
5. **Device**, composed of the promises ByteQueue and TaskPool instead of their implementations.
6. **Message** as pure operators, used by Bluetooth.
7. **Bluetooth**: `postRead` over arbitrary reads of a stream of frames, `preWrite` of any document.
8. **MQTTClient**: the three flags, the callbacks, resubscription and a failing `send`.
9. **Gateway**: Route and `runGateway`, with the parts at the grain at which they disturb each
   other.
10. Gateway theorems: see section 5.
11. The theorems of MQTTClient, Device, Message and Bluetooth: see section 5.

Worth proving next: the safety half of the liveness properties, that in a state in which a thread
waits, another one is there that can wake it, with guards written out where ENABLED would stand.

## 3. Modules

Every module names each of its bounds in a comment beside the constant. A definition commented
"Fault:" is a wrong form of the definition below it; no specification uses it except in the
mutants, which show that a property can fail.

**ThreadPool** (run `pool`). Every step of a thread that another can observe
is an action: lock, predicate, block, front, pop, run; lock, check, push, notify; and for the
destructor set-flag, notify-all, join. A task is its ticket in the order of acceptance.
`SpuriousWakeup` may happen at any time. `TaskPool` is its abstract promise: tasks start in order
of acceptance, each once, and termination only when all have run.

**Buffer** (run `buffer_queue`). The ring, with the code's modulo and its two-part copies; one
action per call, because each holds the mutex throughout. `ret` records the call, its argument
and its result, so the refinement of `ByteQueue` is result by result.

**Device** (runs `device`, `device_cut_packets`, `device_silent_reader`). Threads:
the owner (`mpc`: register, start, stop, close in Route's order), the reader (`rpc`), a caller of
`write` (`opc`), and the pool's workers. The buffers are sequences (ByteQueue) and the pool is a
FIFO of tasks on any idle worker (TaskPool). A byte is its position in its stream and a packet an
interval of positions: `Ends` gives the last position of each packet, and any increasing sequence of
them is a stream. A header read out of step announces any length. `recvTask` and `sendTask`
are one loop over their direction.

**OTA** (runs `ota`, `ota_never_booted`). `pc` follows ota_main and the
`State` of the updater. Variables that survive a crash: `metaFile`, `verFile`, the two slots, the
boot target and the running slot; the others are lost. A save may fail before or after its
rename (`persistFile` fsyncs afterwards), a callback may fail, the process may be killed between
any two steps, the device may reboot. A version is a triple compared as the code compares it; an
image is the version it contains or `Damaged`.

**Daemon** (run `daemon`). `pc` is the main thread within `run`, `startAll`,
`monitorLoop`, `restartProcess`, `stopAll` and the destructor. `child` is every child ever
forked; a pid is an index of it. A child may exit, with or without success, at any moment, a
signal or a call of `stop()` may come at any moment.

**Message** (no state; used by Bluetooth). The constructor and the three conversions as
operators; where the code throws they give `Thrown`. A document is the function from the names of
its fields to their values, so a field may be missing or of another kind; a text is a sequence of
characters. `Narrow` is `get<int>()`, with the number of values of an int as a constant.

**Bluetooth** (runs `bluetooth`, `bluetooth_type_range`). `wire` is what the
module on the line has transmitted, `readBuffer_` the frame buffer, and a read takes any number of
bytes. `pending` holds the items transmitted and not taken yet, which is what the buffer is compared
with. Noise is any bytes that hold no begin of a header or an acknowledgement and complete none
(`LineAssumption`). `postRead` is one action, because only the read thread calls it; its outcomes are
its disjuncts. `Command` is the way down, `handleMqttMessage` with `preWrite`.

**MQTTClient** (run `mqtt`). One action for each access to a flag, the mutex or the connection:
the main thread (`mpc`: start, the loop with `tryResubscribe`, close), each sender (`spc`), the
library's thread with its callbacks in order (`cpc`, `callbacks`). The broker may forget the
session when the connection is lost. `muted` and `lostOrder` record that one of the two lost
updates of section 6 has happened and not been made good.

**Gateway** (run `gateway`). `mpc` follows `runGateway`,
`Route::init`, `registerDevice`, `Route::close`, the destructors and `stopthread`; `call` is the
library's thread in `onMessageArrived`, with the test of `isRunning_`, the store and the `addtask`
of `Device::write` as three steps. The buffers hold bytes, and a worker in `recvTask` or `sendTask`
peeks, tests the size and reads in three steps, as in Device, so overlapping tasks cut packets: a
byte is its message and its index in the packet, a header read out of step announces one of
`Announced` lengths, and a block that was cut may pass for a message nobody sent (`Garbage`). The
pool is its queue, and the missed notification of ThreadPool is an outcome of `StopPool`. The
history variables are evidence: `torn` is what was cut and `overlapped` whether two workers were in
one loop, `behind` what a failing `::write` left in the buffer, `dead` the objects destroyed,
`misused` their uses afterwards, and `overtaken`, for each object and kind of user, whether that
user was under way with that object when it was destroyed.

## 4. Runs

| run | instance | shows |
|---|---|---|
| pool | 3 workers, 2 callers, 4 tasks | DrainedBeforeExit, NoStrandedTask, TaskPoolSpec, AcceptedTaskRuns, StopEndsUnlessMissed |
| buffer_queue | 3 bytes, blocks up to 4, 2 values | ByteQueueSpec |
| device | 8 bytes in or out, or 5 in and 3 out, buffer 7, 2 workers, 1 failure | TypeOK, ReceivesWholePackets, SendsWholePackets, NoPacketStranded, PacketsAreTaken, StopReturns |
| device_cut_packets | 2 packets in, 2 workers | violation of EveryBlockIsPacket: overlapping tasks cut the stream |
| device_silent_reader | the same | violation of RunningMeansReading: silence ends the reader |
| ota | 3 versions, 2 checks, 2 failures, 3 restarts, 2 rounds | OnlyVerifiedImagesBoot, AttemptsBounded, ActiveImageKept, ConfirmsPendingUpgrade, VersionSavedFirst, PendingUpgradeDecided |
| ota_never_booted | 2 versions, 1 restart | violation of ConfirmedSlotIsRunning: restart without reboot |
| daemon | 2 processes, 2 restarts each, 4 crashes, 1 failure | ChildrenHeld, RestartAfterCrash, RestartsBounded, NoChildLeft, CrashedIsRestartedWithoutFaults, NoStartBeyondCrashLimit, StopEndsDaemon, ZombiesReaped |
| bluetooth | items of 5 kinds, 3 pending, reads up to 18 bytes, buffer 16, 331 documents | TypeOK, KeepsInStep, PublishesTheFrame, CommandCarriesTheDocument, WholeItemIsTaken |
| bluetooth_type_range | 1 item pending, the same documents | violation of WrittenTypeIsInRange: the type is narrowed before it is tested |
| mqtt | 2 senders, 2 losses, 1 failing connect or publish | KnowsConnection, OwesSubscription, SubscribedAgain, PublishMutexIsFreed |
| gateway | 2 messages up; or 1 down, 1 up and echoed, 1 loss; packets of 3 and 6 bytes, buffer 9, 2 workers | DeadAreNotUsed, AcceptedWhileServing, NoUplinkLost, AcceptedIsWritten, GatewayReturns |

The type invariants of ThreadPool, Buffer, OTA, Daemon, Gateway and MQTTClient, MetaWellFormed (OTA)
and TermBeforeKill (Daemon) are proved and therefore not in the runs.

### Bounds, and why they are enough

* Pool: two callers give every race at the mutex, three workers one that is asleep while others
  run and leave, and four tasks more than there are workers.
* Buffer: three bytes are the smallest ring in which start, wrapped part and free part are
  distinct and not all of length one; blocks of four are refused, read short and wrap.
* Device: more bytes arrive than the buffer holds, so blocks are discarded; a block can hold the
  end of one packet and the start of another, or complete two at once; a packet of four may be
  there by half; two workers overlap. `Scenarios` bounds the bytes of both directions together,
  since they share only the pool and the file: each by itself beyond a full buffer, or some of
  both. One failure reaches each error path; two of them only end more threads.
* OTA: two restarts reach the crash between the saves and the rollback after it, the third a
  restart after that; two faults make a save and the save that restores it fail; two rounds run
  `runOnce` on top of a waiting upgrade.
* Daemon: two processes are the least with which one crashes while the other is handled; both
  limits (2 and 4) are reached, separately and together.
* Bluetooth: the buffer holds a frame and a half, so a read may meet it full, complete two items or
  none; the frames' addresses and payloads look like headers and acknowledgements. `IntMod` is 1024
  instead of 2^32: all that matters is that types above a byte exist, inside and outside its range.
* MQTTClient: two losses give a loss while the subscribe for the first is on its way, two senders
  one that waits for the other's mutex.
* Gateway: packets have 3 and 6 bytes, so a task that peeked at the shorter one cuts the longer one,
  and what it leaves is long enough to pass for a packet. `Scenarios` says what may come in one run:
  two messages of the device, of which a cut block may come back; or one from either side with that of
  the device coming back from the broker (both topics are the same), so that two packets meet in the
  send buffer, which holds them or is full, and the connection may be lost. Two workers overlap in either
  direction. `g1` is a message for no device as well as what a cut block may pass for. Taken one at a
  time, the exceptions of the properties are each needed in this run, but for two of AcceptedIsWritten:
  `[]AllWait` takes a third message with two workers (it is needed when the same instance has one), and
  `[]~Aligned("send")` three packets in the send buffer.
* Larger instances were run once without an error: a fifth task in the pool, a second failure in
  the daemon, seven bytes in and three out in `device`, one worker in `gateway`, a third sender,
  three losses with two failures in `mqtt`, a fourth restart and a third round in `ota`.

Deadlock is checked in `buffer_queue` and `daemon` (the daemon's exit is an explicit stuttering
step). It is off where the system really stops: a pool that is joined, a
device that is closed, an updater that has used its restarts, a Bluetooth module that falls
silent, a client that is closed, a gateway that has returned.

### Fairness

* ThreadPool: weak fairness per thread. Nobody must call `addtask`, destroy the pool or wake
  spuriously. The mutex is handed out arbitrarily; weak fairness suffices in the bounded instance
  because calls end.
* Device: weak fairness of the reader, of each worker, of the writer and of a stop once it has
  begun; none of `read` errors, `start`, or the decision to close. In timeout mode `read` returns
  after half a second with data or with 0, and that is what fairness of `ReadNothing` says.
* OTA: weak fairness of the steps of a process that has been started (`Confirm`). None of its start:
  the daemon's main program does not add the updater (deamonmain.cpp:30), and would not restart it
  after a normal exit or past the limits; PendingUpgradeDecided excepts an updater that stays down.
  None of `runOnce`, faults, crashes and reboots; the last three are finite by their bounds.
* Daemon: weak fairness of the main thread, strong fairness of the two deadlines of `stopAll`,
  because the clock passes them however often the loop turns. None of the children: one may
  ignore SIGTERM for ever.
* MQTTClient: weak fairness of the main thread inside `start`, `tryResubscribe` and `close`, of the
  library's callbacks, and of the answer to a subscribe or a publish while the connection is up. None of
  losses, reconnects, calls of `send` and the end of the loop; the liveness properties therefore
  say "if the connection stays up".
* Gateway: weak fairness of the main thread while it starts and once it stops, of the library's thread
  inside a callback, of the read thread between its store and its `addtask`, and of each worker, whose
  token is answered while the connection is up. None of arrivals, the signal, losses, reconnects,
  failing publishes and spurious wake-ups.

## 5. Proofs

All theorems are about `Spec` (no fairness) and hold for every value of the constants that
satisfies the named assumption of the module.

* **ThreadPoolProofs** (ThreadAssumption: some worker; workers, callers and NoThread are
  distinct). IInv joins the type, who holds the mutex (MutexInv), what a worker concluded under
  the mutex (WorkerInv), when `stop_` is set (StopInv) and DrainedBeforeExit. WorkerInv is what
  makes it inductive: a worker that exits saw the queue empty under the mutex, and a caller past
  its test of `stop_` holds that mutex. NoStrandedTask is inductive on top of IInv. For
  ImplementsTaskPool, RefInv adds that the queue holds the consecutive tickets after those
  started, and that no two workers run one ticket.
* **BufferProofs** (BufferAssumption: the capacity may be 0). TypeOK is inductive by itself: the
  range of `start_` and `len_`. ImplementsByteQueue shows step by step that the two-part copies
  append to and take from the front of `Contents`.
* **OTAProofs** (OTAAssumption). IInv says which of memory, saved copy and file exists at each
  point and how they relate, so a crash or a failed save, which turns one into another, preserves
  it. From it: TypeCorrect, BootMetaWellFormed, VerifiedImagesOnly, AttemptsAreBounded, and the
  action properties ActiveImageIsKept and ConfirmsOnlyPendingUpgrade. SavesVersionFirst rests on
  VersionInv: at the save of a confirmed boot meta, the version file has its version already.
* **DaemonProofs** (DaemonAssumption). The properties about children need two facts that are not
  properties themselves: a held pid is that of a child not reaped (HeldAreChildren), so the scans
  with `kill(pid, 0)` drop nothing, and wherever startProcess can be reached all earlier children
  of the process crashed and were reaped (StartAllowedInv). CountersInv, CrashLimitInv and
  ForksInv carry a decision of shouldRestart through the delay to the fork; SignalsInv says which
  signal each running child has had at each point of stopAll. RestartedInv, on top of IInv, says
  that a process left down is the one being restarted unless a stop was requested. From these:
  TypeCorrect, EveryChildIsHeld, RestartsOnlyAfterCrash, RestartsAreBounded, TermsBeforeKill,
  LeavesNoChild, NoStartAtCrashLimit and CrashesAreRestarted.
* **GatewayProofs** (GatewayAssumption: packets have 3 to 513 bytes, and so do the lengths a header
  out of step announces; the sets of messages are disjoint). IInv says, for each place of the main
  thread, what is set up (SetUpInv) and what is destroyed (DeadInv). GoneInv says that whatever has
  not overtaken the destruction of an object cannot come to use it: with the device dead no task is
  queued or in a loop and no call has found it, with the route dead no call is under way and the
  connection is closed, and so on for each pair of an object and a kind of user. ServeInv follows a
  call that arrived in the main loop. UplinkInv says where a message of the device is: bytes of it are
  in the buffer, a worker holds the whole packet, or it is published, given up or cut. That alone would
  let everything be cut. StepInv adds that as long as no two workers have been in the loop of recvTask
  at a time, at most one is, the buffer consists of whole packets (each byte has all those of its packet
  around it), and the length that worker has in hand is that of the packet at the front; so what it
  reads is that packet, and nothing is cut. From these: TypeCorrect, NoDeadIsUsed, Serves and
  LosesNoUplink.
* **DeviceProofs** (DeviceAssumption: packets have three bytes or more and follow each other; at
  least one worker is not assumed). TypeOK gives TypeCorrect. StrandedInv says that while a whole
  packet lies at the front of a buffer, a task for it is queued, about to be added or Awake, that is
  not about to return without it; with it go LifeInv (owner, reader and callback) and TotalInv.
  NoPacketIsStranded needs no more: it holds whether or not tasks overlap. The order does need
  SingleInv, that no two tasks of a direction are in their loop until `overlapped` is set. RecvInv
  then places every byte in the buffer and in the reader's hands behind the packets taken out
  (InStep), so what a task reads of a header is the length of the next packet, and ReceivesPackets
  follows. SendInv is weaker per byte, because packets may be refused: the buffer holds whole packets
  (Whole) whose positions rise, after those handed over and before those not written yet
  (SendOrder). QuietInv covers the device that never started. From it: SendsPackets.
* **MQTTClientProofs** (ClientAssumption). LinkInv says that the last callback to come agrees with
  the state of the connection; KnowsInv, that with none to come `connected_` agrees with it; OwesInv,
  that a lost subscription is asked for, or will be by a callback to come, before the loop and in it.
  The exceptions `muted` and `lostOrder` are those of section 6. From these: TypeCorrect,
  KnowsItsConnection and OwesItsSubscription.
* **BluetoothProofs** (BluetoothAssumption, DocumentAssumption, LineAssumption, MessageAssumption).
  First the conversions: HexRoundTrip, BinaryRoundTrip and JsonRoundTrip, for every message the
  constructor accepts. Then `postRead`, over any items: `Stands(left, items)` says that `left` is the
  items from the first one on that is not noise, behind a rest of the noise. Noise is quiet, and stays
  so where two pieces meet or one is cut, so the scan cannot stop in it; since a frame or an
  acknowledgement begins behind it, the scan stops exactly there (HitIsItem), whatever the reads cut
  off. Hence InStep: buffer and line stand with `pending` unless a read was discarded. IInv adds that
  nothing is followed after that (Emptied) and the two properties about contents, which rest on the
  conversions. From these: TypeCorrect, StaysInStep, FramesArePublished, DocumentsAreCarried and the
  action property ItemsAreTaken. DocumentsAreCarried says BLE_MESH only of types that are bytes: others
  may get through, as `bluetooth_type_range` shows. The community modules have no theorem about
  FlattenSeq, SelectInSeq or IsSuffix; the module proves those it needs. FlattenSeq is defined by
  recursion, and its facts need induction: since the library's induction rules take an operator, the
  induction here is over a set of numbers (Smallest and Ind, from the well-foundedness of inclusion on
  finite sets).

### Only model-checked

Every safety invariant and every action property of the passing runs is proved. What TLC alone shows is
liveness, because fairness and ENABLED are out of the prover's reach: AcceptedTaskRuns and
StopEndsUnlessMissed (ThreadPool), PendingUpgradeDecided (OTA), PacketsAreTaken and StopReturns
(Device), StopEndsDaemon and ZombiesReaped (Daemon), SubscribedAgain and PublishMutexIsFreed
(MQTTClient), AcceptedIsWritten and GatewayReturns (Gateway).

## 6. What the runs found

Violations of what the repository says, each a run:

* `device_cut_packets`: peek, size test and read are separate calls, and tasks of one device
  overlap; packets are cut (Device.cpp:153).
* `device_silent_reader`: in the configured timeout mode half a second of silence ends the read
  thread for good while `isRunning()` stays true (Device.cpp:137).
* `ota_never_booted`: a restart of the process confirms a slot the device never ran from
  (OTA.cpp:522).
* `bluetooth_type_range`: `fromJson` narrows the type to an int before it tests its range, so types far
  outside 0..255 are written as BLE_MESH (Message.cpp:105).

Exceptions the passing properties had to name, because the code does not rule them out:

* ThreadPool (StopEndsUnlessMissed): `stopthread` sets `stop_` and notifies without the mutex; a worker
  between its predicate and its wait misses both, and the destructor's join hangs (ThreadPool.cpp:42).
* OTA (VersionSavedFirst): the version file is never behind the confirmed slot, but a crash between the
  two saves of a commit, and a rollback after it, leave it ahead: it names the version that was rolled
  back (OTA.cpp:530).
* Daemon (CrashedIsRestartedWithoutFaults): a restart that fails once is never tried again
  (Deamon.cpp:463).
* Bluetooth (CommandCarriesTheDocument): nothing is said of the begin of a command, which has the eight
  bytes of "AT+MESH" and its terminating zero where the comment has seven characters
  (bluetooth.cpp:162, 167).
* Bluetooth (KeepsInStep, WholeItemIsTaken): `postRead` takes one item for each read, so a second
  frame of a read waits for more bytes; once the buffer is too full for a read, that read and every
  later one is refused (bluetooth.cpp:38, 61).
* MQTTClient (KnowsConnection, SubscribedAgain): a send that fails late clears `connected_` of a
  connection made again meanwhile, and sends are skipped until the next loss (_MQTTClient.cpp:99);
  (OwesSubscription) clearing `needResubscribe_` after the subscribe can clear the order of a later
  connection (_MQTTClient.cpp:127).
* Gateway (AcceptedWhileServing): messages that arrive between the subscribe and the start of the
  device are dropped (Route.cpp:16).
* Gateway (DeadAreNotUsed): a task or a call that is under way with an object when it is destroyed uses
  it afterwards, and a connection that is down when it is closed may come back with a call
  (run.cpp:100).
* Gateway (NoUplinkLost, AcceptedIsWritten): once two workers are in one loop, packets are cut, and those
  cut are neither delivered nor reported (Device.cpp:153, 187).
* Gateway (AcceptedIsWritten): a `::write` that fails ends the task and leaves the packets behind the one
  it had, which wait for the next `Device::write` (Device.cpp:215, 225); while every worker waits for a
  token of a lost connection, nothing is written to the device either (_MQTTClient.cpp:91); a send
  buffer out of step may wait for bytes that never come (Device.cpp:195).
* Gateway (GatewayReturns): a send whose client is disconnected or destroyed while it waits for its token
  holds up the join of the pool if the library never answers (_MQTTClient.cpp:91, run.cpp:100), and so
  does a worker that has missed the notification.
* The gateway subscribes to the topic it publishes to, so each message of a device comes back and is
  written to the device (run.cpp:50).

## 7. Not modelled, and why

* Serial is terminal configuration (termios) without state of its own; the one setting that matters
  is Device's `Blocking`, and a configuration that fails is a branch of Gateway's `Configure`.
* ThreadPool: a second call of `stopthread` (no caller), an exception thrown by a task.
* Device: reuse of a descriptor number after `::close`, a file left open when `start` was never
  called. Device has the default `postRead` and `preWrite`; Bluetooth has the overrides.
* Message: the syntax of JSON, which the library parses; memory that runs out.
* Bluetooth: false headers in noise, which LineAssumption excludes, and frames longer than the
  buffer, which the runs have none of (the theorems do); both wedge the buffer as section 6 says.
* MQTTClient: the library and the broker themselves; `start` on a started client (no caller); a
  subscribe in `tryResubscribe` that throws later than its call.
* Gateway: the split of `readableSize` and `peek` at the begin of a loop, since either of them finding
  too little ends the task; the mutex that two sends take in turn, since the one that waits for it waits
  for the other's token. The undefined outcome of reading `devices_` or `Recvcb_` in the middle of a
  write (Route.cpp:22, 32), since what a build does there cannot be told from the code; the model has
  every order of the whole steps. `kMaxDeviceNum` is not reached with one device.
* OTA: the syntax of the JSON files and of the manifest (a field that is wrong makes the step
  fail; files are replaced atomically, so half-written ones do not occur), loss of a rename by
  power failure, `OTA::run`/`stop` (not used by ota_main) and the automatic reboot (switched off
  by ota_main, so `stepReboot` never runs). A later `runOnce` may write the slot of an upgrade
  that still waits, and a restart before the boot meta is saved then confirms the older version
  over the newer image; the model has this, no run is dedicated to it.
* Daemon: reuse of pids, signals before the handlers are installed (they kill a daemon that has
  no child), system calls on a child that was reaped elsewhere. daemonize, redirectStdIO and
  installSignalHandlers are one step. Configuration calls come before `run()` and are constants.
