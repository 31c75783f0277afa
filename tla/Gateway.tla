------------------------------ MODULE Gateway ------------------------------
(***************************************************************************)
(* App/Route.cpp and App/run.cpp: the gateway put together, from           *)
(* runGateway to its return.                                               *)
(*                                                                         *)
(* Four kinds of threads meet in Route: the main thread, which builds and  *)
(* tears down, the library's thread with the messages of the broker, the   *)
(* device's read thread, and the workers of the pool.  None of them takes  *)
(* a lock of Route.                                                        *)
(*                                                                         *)
(* The parts are taken at the grain at which they disturb each other.  The *)
(* buffers hold bytes, and a task peeks, tests the size and reads in three *)
(* steps, so that tasks in one loop may cut packets (as in Device).  A     *)
(* byte is a message and an index, and the header of a packet is in step   *)
(* with the stream where the index is 1; elsewhere it may announce any     *)
(* length, and the block may pass for a message nobody sent.  Storing and  *)
(* adding the task are two steps.  The pool begins tasks in order, and     *)
(* stopping it may miss a worker that is about to wait (as in ThreadPool). *)
(* A send is published, or fails, or waits while there is no connection    *)
(* (as in MQTTClient).  A document and its packet are one message          *)
(* (Message, Bluetooth); postRead hands over whole packets (Bluetooth).    *)
(***************************************************************************)
EXTENDS Integers, Sequences

CONSTANTS
    Down,       \* messages of the cloud
    Foreign,    \* messages that no device is registered for, or invalid ones
    Up,         \* messages of the device
    Garbage,    \* messages nobody sent, which a block that was cut may pass for
    Size,       \* for each message, the bytes of its packet
    Announced,  \* the lengths a header that is out of step may announce
    Workers,    \* threads of the pool
    Capacity,   \* bufferSize of the device's constructor
    Scenarios   \* bound: what may come from the device and the broker, and losses

Msgs == Down \cup Up \cup Garbage

ASSUME GatewayAssumption ==
    /\ Foreign \subseteq Down \cup Garbage
    /\ Down \cap Up = {} /\ Garbage \cap (Down \cup Up) = {}
    /\ \A m \in Msgs : Size[m] \in 3 .. 513
    /\ Announced \subseteq 3 .. 513
    /\ Capacity \in Nat \ {0}

VARIABLES
    mpc, g_running,     \* the main thread and its flag
    devices_,           \* Route::devices_, whether the device is in it
    Recvcb_,            \* MQTTClient::Recvcb_, whether it is set
    isRunning_, open,   \* of the device; open: fd_ >= 0
    buffer,             \* its recvBuffer_ and sendBuffer_
    coming, adding,     \* its read thread: messages to come, a task still to be added
    queue, worker,      \* the pool: tasks not begun, what the workers do
    missed,             \* workers that the notification of stopthread has missed
    link,               \* of the client: new, up, down, off
    topic,              \* messages on their way from the broker
    losses,
    call,               \* the library's thread in onMessageArrived
    line, published,    \* what was written to the device, what to the broker
    failed,             \* per direction, what was given up with an error
    torn,               \* per direction, what was cut
    behind,             \* what was in the send buffer when a ::write failed
    overlapped,         \* directions whose loop was run by two workers at a time
    dead,               \* objects whose destructor has run
    misused,            \* uses of dead objects, and by whom
    overtaken           \* what was under way when its object was destroyed

route == <<devices_, Recvcb_>>
device == <<isRunning_, open, buffer>>
reader == <<coming, adding>>
pool == <<queue, worker, missed>>
net == <<link, topic, losses>>
history == <<line, published, failed, torn, behind, overlapped>>
ends == <<dead, misused, overtaken>>
vars == <<mpc, g_running, route, device, reader, pool, net, call, history, ends>>

Dirs == {"recv", "send"}

Packet(m) == [i \in 1 .. Size[m] |-> <<m, i>>]

\* The messages bytes belong to.
In(bytes) == {bytes[k][1] : k \in DOMAIN bytes}

\* A block or buffer begins with a header.
InStep(bytes) == bytes[1][2] = 1

\* A worker in the loop: where it is, totalLen and fullPacket.
Doing(pc, d, total, block) == [pc |-> pc, dir |-> d, total |-> total, block |-> block]
Idle == Doing("idle", "recv", 0, <<>>)

NoBytes == [d \in Dirs |-> <<>>]
NoMsgs == [d \in Dirs |-> {}]

Init ==
    /\ mpc = "begin" /\ g_running = FALSE
    /\ devices_ = FALSE /\ Recvcb_ = FALSE
    /\ isRunning_ = FALSE /\ open = FALSE /\ buffer = NoBytes
    /\ coming = Up /\ adding = FALSE
    /\ queue = <<>> /\ worker = [w \in Workers |-> Idle] /\ missed = {}
    /\ link = "new" /\ topic = Down /\ losses = 0
    /\ call = [pc |-> "idle", result |-> "none", serving |-> FALSE]
    /\ line = {} /\ published = {} /\ failed = NoMsgs
    /\ torn = NoMsgs /\ behind = {} /\ overlapped = {}
    /\ dead = {} /\ misused = {} /\ overtaken = {}

\* What the device has sent, and what the broker has.
Sent == Up \ coming
Arrived == (Down \cup published) \ topic

MayHappen(up, down, lost) ==
    \E s \in Scenarios : up \subseteq s.up /\ down \subseteq s.down /\ lost <= s.losses

\* A use of objects, by a task, by the call or by the main thread.
Use(objects, by) == misused' = misused \cup ((objects \cap dead) \X {by})

Fits(d, bytes) == Len(bytes) <= Capacity - Len(buffer[d])

InLoop(d) == {w \in Workers : worker[w].pc # "idle" /\ worker[w].dir = d}

\* A task of the direction waits or runs.
UnderWay(d) == (\E k \in DOMAIN queue : queue[k] = d) \/ InLoop(d) # {}
-----------------------------------------------------------------------------
(* Starting: runGateway, Route::init, Route::registerDevice                *)

Goto(label) == mpc' = label

InstallSignals ==
    /\ mpc = "begin" /\ Goto("init")
    /\ g_running' = TRUE
    /\ UNCHANGED <<route, device, reader, pool, net, call, history, ends>>

\* mqttClient_.start: connected and subscribed, or the gateway returns, with or
\* without a connection.
StartClient ==
    /\ mpc = "init"
    /\ \/ link' = "up" /\ Goto("setCallback")
       \/ link' \in {link, "up"} /\ Goto("destroyRoute")
    /\ UNCHANGED <<g_running, route, device, reader, pool, topic, losses, call, history, ends>>

\* Fault: the callback is not set.
RegisterRecvCallbackNot ==
    /\ mpc = "setCallback" /\ Goto("configure")
    /\ UNCHANGED <<g_running, route, device, reader, pool, net, call, history, ends>>

RegisterRecvCallback ==
    /\ mpc = "setCallback" /\ Goto("configure")
    /\ Recvcb_' = TRUE
    /\ UNCHANGED <<g_running, devices_, device, reader, pool, net, call, history, ends>>

\* The device is built and the line configured; the constructor throws when the file
\* cannot be opened.
Configure ==
    /\ mpc = "configure"
    /\ \/ open' = TRUE /\ (Goto("push") \/ Goto("destroyDevice"))
       \/ UNCHANGED open /\ Goto("destroyRoute")
    /\ UNCHANGED <<g_running, route, isRunning_, buffer, reader, pool, net, call, history, ends>>

PushDevice ==
    /\ mpc = "push" /\ Goto("startDevice")
    /\ devices_' = TRUE
    /\ UNCHANGED <<g_running, Recvcb_, device, reader, pool, net, call, history, ends>>

\* isRunning_ is set before the thread is made.
StartDevice ==
    /\ mpc = "startDevice"
    /\ Goto("loop") \/ Goto("startFails")
    /\ isRunning_' = TRUE
    /\ UNCHANGED <<g_running, route, open, buffer, reader, pool, net, call, history, ends>>

StartDeviceFails ==
    /\ mpc = "startFails" /\ Goto("popDevice")
    /\ isRunning_' = FALSE
    /\ UNCHANGED <<g_running, route, open, buffer, reader, pool, net, call, history, ends>>

\* Fault: a device that did not start stays registered.
PopDeviceNot ==
    /\ mpc = "popDevice" /\ Goto("destroyDevice")
    /\ UNCHANGED <<g_running, route, device, reader, pool, net, call, history, ends>>

PopDevice ==
    /\ mpc = "popDevice" /\ Goto("destroyDevice")
    /\ devices_' = FALSE
    /\ UNCHANGED <<g_running, Recvcb_, device, reader, pool, net, call, history, ends>>

Starting ==
    \/ InstallSignals \/ StartClient \/ RegisterRecvCallback \/ Configure
    \/ PushDevice \/ StartDevice \/ StartDeviceFails \/ PopDevice
-----------------------------------------------------------------------------
(* Stopping: the signal, Route::close, the destructors                     *)

\* A signal, or stopGateway.  A signal before the flag is set is forgotten.
Stop ==
    /\ mpc # "returned"
    /\ g_running' = FALSE
    /\ UNCHANGED <<mpc, route, device, reader, pool, net, call, history, ends>>

LeaveLoop ==
    /\ mpc = "loop" /\ ~g_running /\ Goto("stopDevice")
    /\ call' = [call EXCEPT !.serving = FALSE]
    /\ UNCHANGED <<g_running, route, device, reader, pool, net, history, ends>>

StopDevice ==
    /\ mpc = "stopDevice" /\ Goto("closeFd")
    /\ isRunning_' = FALSE
    /\ UNCHANGED <<g_running, route, open, buffer, reader, pool, net, call, history, ends>>

CloseFd ==
    /\ mpc = "closeFd" /\ Goto("joinReader")
    /\ open' = FALSE
    /\ UNCHANGED <<g_running, route, isRunning_, buffer, reader, pool, net, call, history, ends>>

\* The read thread ends between two blocks.
JoinReader ==
    /\ mpc = "joinReader" /\ ~adding /\ Goto("clearRecv")
    /\ UNCHANGED <<g_running, route, device, reader, pool, net, call, history, ends>>

ClearBuffer ==
    /\ mpc \in {"clearRecv", "clearSend"}
    /\ buffer' = [buffer EXCEPT ![IF mpc = "clearRecv" THEN "recv" ELSE "send"] = <<>>]
    /\ Goto(IF mpc = "clearRecv" THEN "clearSend" ELSE "clearDevices")
    /\ UNCHANGED <<g_running, route, isRunning_, open, reader, pool, net, call, history, ends>>

ClearDevices ==
    /\ mpc = "clearDevices" /\ Goto("closeClient")
    /\ devices_' = FALSE
    /\ UNCHANGED <<g_running, Recvcb_, device, reader, pool, net, call, history, ends>>

\* MQTTClient::close: a client that is not connected is left to reconnect.
Closed == IF link = "up" THEN "off" ELSE link

\* Fault: close waits for a connection to send the disconnect on.
CloseClientWaits ==
    /\ mpc = "closeClient" /\ link = "up" /\ Goto("destroyDevice")
    /\ link' = Closed
    /\ UNCHANGED <<g_running, route, device, reader, pool, topic, losses, call, history, ends>>

CloseClient ==
    /\ mpc = "closeClient" /\ Goto("destroyDevice")
    /\ link' = Closed
    /\ UNCHANGED <<g_running, route, device, reader, pool, topic, losses, call, history, ends>>

\* What is under way with an object, when it is destroyed.
Overtakes(object, by) == overtaken' = overtaken \cup ({object} \X by)

When(condition, by) == IF condition THEN {by} ELSE {}

\* A call that has found the device goes on with it.
HasDevice == call.pc \in {"write", "store", "add"}

DestroyDevice ==
    /\ mpc = "destroyDevice" /\ Goto("destroyRoute")
    /\ isRunning_' = FALSE /\ buffer' = NoBytes
    /\ dead' = dead \cup {"device"}
    /\ Overtakes("device", When(UnderWay("recv") \/ UnderWay("send"), "task")
                               \cup When(HasDevice, "call"))
    /\ UNCHANGED <<g_running, route, open, reader, pool, net, call, history, misused>>

\* ~Route calls close again.
DestroyRoute ==
    /\ mpc = "destroyRoute" /\ Goto("destroyClient")
    /\ Use(IF devices_ THEN {"device"} ELSE {}, "main")
    /\ devices_' = FALSE
    /\ link' = Closed
    /\ dead' = dead \cup {"route"}
    /\ Overtakes("route", When(UnderWay("recv"), "task") \cup When(call.pc = "find", "call")
                              \cup When(Closed = "down", "link"))
    /\ UNCHANGED <<g_running, Recvcb_, device, reader, pool, topic, losses, call, history>>

DestroyClient ==
    /\ mpc = "destroyClient" /\ Goto("stopPool")
    /\ link' = "off"
    /\ dead' = dead \cup {"client"}
    /\ Overtakes("client", When(UnderWay("recv"), "task"))
    /\ UNCHANGED <<g_running, route, device, reader, pool, topic, losses, call, history, misused>>

\* stopthread sets stop_ and notifies without the mutex: a worker that holds it, and has
\* just found no task and no stop_, goes to sleep after the notification.
StopPool ==
    /\ mpc = "stopPool" /\ Goto("joinPool")
    /\ \/ UNCHANGED missed
       \/ queue = <<>> /\ \E w \in Workers : worker[w].pc = "idle" /\ missed' = {w}
    /\ UNCHANGED <<g_running, route, device, reader, queue, worker, net, call, history, ends>>

\* A worker that is awake ends when every task has been run.
JoinPool ==
    /\ mpc = "joinPool" /\ Goto("returned")
    /\ queue = <<>> /\ missed = {} /\ \A w \in Workers : worker[w].pc = "idle"
    /\ dead' = dead \cup {"pool"}
    /\ Overtakes("pool", When(HasDevice, "call"))
    /\ UNCHANGED <<g_running, route, device, reader, pool, net, call, history, misused>>

Stopping ==
    \/ LeaveLoop \/ StopDevice \/ CloseFd \/ JoinReader \/ ClearBuffer \/ ClearDevices
    \/ CloseClient \/ DestroyDevice \/ DestroyRoute \/ DestroyClient \/ StopPool \/ JoinPool

\* A condition variable may wake up for nothing.
SpuriousWakeup ==
    /\ missed # {}
    /\ missed' = {}
    /\ UNCHANGED <<mpc, g_running, route, device, reader, queue, worker, net, call, history, ends>>
-----------------------------------------------------------------------------
(* From the broker to the device: onMessageArrived, handleMqttMessage,     *)
(* Device::write                                                           *)

Returns(result) ==
    call' = [pc |-> "idle", msg |-> call.msg, result |-> result, serving |-> call.serving]

MessageArrives(m) ==
    /\ call.pc = "idle" /\ link = "up"
    /\ m \in topic /\ MayHappen(Sent, Arrived \cup {m}, losses)
    /\ topic' = topic \ {m}
    /\ call' = [pc |-> IF Recvcb_ THEN "find" ELSE "idle", msg |-> m,
                result |-> IF Recvcb_ THEN "none" ELSE "noCallback", serving |-> mpc = "loop"]
    /\ UNCHANGED <<mpc, g_running, route, device, reader, pool, link, losses, history, ends>>

\* fromJson, which may throw, and findDeviceByType.
FindDevice ==
    /\ call.pc = "find"
    /\ Use({"route"}, "call")
    /\ IF devices_ /\ call.msg \notin Foreign
       THEN call' = [call EXCEPT !.pc = "write"]
       ELSE Returns("noDevice")
    /\ UNCHANGED <<mpc, g_running, route, device, reader, pool, net, history, dead, overtaken>>

WriteTests ==
    /\ call.pc = "write"
    /\ Use({"device"}, "call")
    /\ IF isRunning_ THEN call' = [call EXCEPT !.pc = "store"] ELSE Returns("notRunning")
    /\ UNCHANGED <<mpc, g_running, route, device, reader, pool, net, history, dead, overtaken>>

WriteStores ==
    /\ call.pc = "store"
    /\ Use({"device"}, "call")
    /\ IF Fits("send", Packet(call.msg))
       THEN /\ buffer' = [buffer EXCEPT !["send"] = @ \o Packet(call.msg)]
            /\ call' = [call EXCEPT !.pc = "add"]
       ELSE Returns("full") /\ UNCHANGED buffer
    /\ UNCHANGED <<mpc, g_running, route, isRunning_, open, reader, pool, net, history, dead,
                   overtaken>>

\* Fault: no task is added.
AddSendTaskNot ==
    /\ call.pc = "add"
    /\ Use({"device", "pool"}, "call")
    /\ Returns("accepted")
    /\ UNCHANGED <<mpc, g_running, route, device, reader, pool, net, history, dead, overtaken>>

\* The pool refuses a task once it is being stopped; write returns true all the same.
AddSendTask ==
    /\ call.pc = "add"
    /\ Use({"device", "pool"}, "call")
    /\ queue' = IF mpc \in {"joinPool", "returned"} THEN queue ELSE Append(queue, "send")
    /\ Returns("accepted")
    /\ UNCHANGED <<mpc, g_running, route, device, reader, worker, missed, net, history, dead,
                   overtaken>>

Callback == FindDevice \/ WriteTests \/ WriteStores \/ AddSendTask
-----------------------------------------------------------------------------
(* The read thread: backgroundTask                                         *)

\* It stores a packet, or discards it; until it is joined, data may still come.
Receive(m) ==
    /\ mpc \in {"loop", "stopDevice", "closeFd", "joinReader"} /\ ~adding
    /\ m \in coming /\ MayHappen(Sent \cup {m}, Arrived, losses)
    /\ coming' = coming \ {m}
    /\ \/ /\ Fits("recv", Packet(m))
          /\ buffer' = [buffer EXCEPT !["recv"] = @ \o Packet(m)]
          /\ adding' = TRUE
          /\ UNCHANGED failed
       \/ failed' = [failed EXCEPT !["recv"] = @ \cup {m}] /\ UNCHANGED <<buffer, adding>>
    /\ UNCHANGED <<mpc, g_running, route, isRunning_, open, pool, net, call, line, published, torn,
                   behind, overlapped, ends>>

AddRecvTask ==
    /\ adding
    /\ adding' = FALSE
    /\ queue' = Append(queue, "recv")
    /\ UNCHANGED <<mpc, g_running, route, device, coming, worker, missed, net, call, history, ends>>
-----------------------------------------------------------------------------
(* The tasks: recvTask with handleDeviceMessage and send, sendTask         *)

Becomes(w, state) == worker' = [worker EXCEPT ![w] = state]
TaskEnds(w) == Becomes(w, Idle)
GoesOn(w, pc, total, block) == Becomes(w, Doing(pc, worker[w].dir, total, block))

TaskBegins(w) ==
    /\ worker[w].pc = "idle"
    /\ queue # <<>>
    /\ queue' = Tail(queue)
    /\ Becomes(w, Doing("peek", Head(queue), 0, <<>>))
    /\ overlapped' = overlapped \cup {d \in {Head(queue)} : InLoop(d) # {}}
    /\ Use({"device"}, "task")
    /\ UNCHANGED <<mpc, g_running, route, device, reader, missed, net, call, line, published, failed,
                   torn, behind, dead, overtaken>>

\* What the header at the front of a buffer announces.
TotalLen(d) == IF InStep(buffer[d]) THEN {Size[buffer[d][1][1]]} ELSE Announced

\* readableSize() < 3, and peek.
PeekHeader(w) ==
    LET d == worker[w].dir
    IN /\ worker[w].pc = "peek"
       /\ Use({"device"}, "task")
       /\ IF Len(buffer[d]) < 3
          THEN TaskEnds(w)
          ELSE \E n \in TotalLen(d) : GoesOn(w, "size", n, <<>>)
       /\ UNCHANGED <<mpc, g_running, route, device, reader, queue, missed, net, call, history, dead,
                      overtaken>>

TestSize(w) ==
    /\ worker[w].pc = "size"
    /\ Use({"device"}, "task")
    /\ IF Len(buffer[worker[w].dir]) < worker[w].total
       THEN TaskEnds(w)
       ELSE GoesOn(w, "read", worker[w].total, <<>>)
    /\ UNCHANGED <<mpc, g_running, route, device, reader, queue, missed, net, call, history, dead,
                   overtaken>>

\* The message a block carries: fromBinary wants its exact length, preWrite does not
\* look at what follows it.
Carried(d, block) ==
    {m \in In(block) :
        /\ Len(block) >= Size[m] /\ SubSeq(block, 1, Size[m]) = Packet(m)
        /\ d = "recv" => Len(block) = Size[m]}

\* read() takes what there is; if that is less than was asked for, it is lost.
ReadPacket(w) ==
    LET d == worker[w].dir
        n == worker[w].total
        block == SubSeq(buffer[d], 1, n)
    IN /\ worker[w].pc = "read"
       /\ Use({"device"}, "task")
       /\ IF Len(buffer[d]) < n
          THEN /\ buffer' = [buffer EXCEPT ![d] = <<>>]
               /\ torn' = [torn EXCEPT ![d] = @ \cup In(buffer[d])]
               /\ TaskEnds(w)
          ELSE /\ buffer' = [buffer EXCEPT ![d] = SubSeq(@, n + 1, Len(@))]
               /\ torn' = [torn EXCEPT ![d] = @ \cup (In(block) \ Carried(d, block))]
               /\ GoesOn(w, "hand", 0, block)
       /\ UNCHANGED <<mpc, g_running, route, isRunning_, open, reader, queue, missed, net, call, line,
                      published, failed, behind, overlapped, dead, overtaken>>

\* What a block is taken for.
ReadAs(d, block) == IF InStep(block) THEN Carried(d, block) ELSE Garbage

\* Fault: a send that is skipped while the connection is down is taken for success.
DeliverSilently(w) ==
    LET block == worker[w].block
    IN /\ worker[w].pc = "hand" /\ worker[w].dir = "recv"
       /\ Use({"route", "client"}, "task")
       /\ \/ /\ link = "up"
             /\ \E m \in ReadAs("recv", block) : GoesOn(w, "token", 0, Packet(m))
          \/ GoesOn(w, "peek", 0, <<>>)
       /\ UNCHANGED <<mpc, g_running, route, device, reader, queue, missed, net, call, history, dead,
                      overtaken>>

\* handleDeviceMessage up to the publish.  send fails when connected_ is FALSE, which it
\* may be with the connection up; fromBinary and toJson may throw.
Deliver(w) ==
    LET block == worker[w].block
    IN /\ worker[w].pc = "hand" /\ worker[w].dir = "recv"
       /\ Use(IF ReadAs("recv", block) = {} THEN {} ELSE {"route", "client"}, "task")
       /\ \/ /\ link = "up"
             /\ \E m \in ReadAs("recv", block) : GoesOn(w, "token", 0, Packet(m))
             /\ UNCHANGED failed
          \/ /\ failed' = [failed EXCEPT !["recv"] = @ \cup Carried("recv", block)]
             /\ GoesOn(w, "peek", 0, <<>>)
       /\ UNCHANGED <<mpc, g_running, route, device, reader, queue, missed, net, call, line, published,
                      torn, behind, overlapped, dead, overtaken>>

\* The topic to publish to is the one subscribed to: the message comes back.
Echo(m) == {m}

Published(w) ==
    LET m == worker[w].block[1][1]
    IN /\ worker[w].pc = "token" /\ link = "up"
       /\ published' = published \cup {m}
       /\ topic' = topic \cup Echo(m)
       /\ GoesOn(w, "peek", 0, <<>>)
       /\ Use({"client"}, "task")
       /\ UNCHANGED <<mpc, g_running, route, device, reader, queue, missed, link, losses, call, line,
                      failed, torn, behind, overlapped, dead, overtaken>>

PublishFails(w) ==
    /\ worker[w].pc = "token"
    /\ failed' = [failed EXCEPT !["recv"] = @ \cup In(worker[w].block)]
    /\ GoesOn(w, "peek", 0, <<>>)
    /\ Use({"client"}, "task")
    /\ UNCHANGED <<mpc, g_running, route, device, reader, queue, missed, net, call, line, published,
                   torn, behind, overlapped, dead, overtaken>>

\* preWrite refuses the block and the loop goes on; or ::write takes it; or the file is
\* closed or ::write fails, and the task returns, whatever is left in the buffer.
Transmit(w) ==
    LET block == worker[w].block
        GivenUp == failed' = [failed EXCEPT !["send"] = @ \cup Carried("send", block)]
    IN /\ worker[w].pc = "hand" /\ worker[w].dir = "send"
       /\ Use({"device"}, "task")
       /\ \/ GivenUp /\ GoesOn(w, "peek", 0, <<>>) /\ UNCHANGED <<line, behind>>
          \/ /\ open /\ \E m \in ReadAs("send", block) : line' = line \cup {m}
             /\ GoesOn(w, "peek", 0, <<>>)
             /\ UNCHANGED <<failed, behind>>
          \/ /\ ReadAs("send", block) # {} /\ GivenUp
             /\ behind' = behind \cup In(buffer["send"])
             /\ TaskEnds(w)
             /\ UNCHANGED line
       /\ UNCHANGED <<mpc, g_running, route, device, reader, queue, missed, net, call, published, torn,
                      overlapped, dead, overtaken>>

\* The steps of a worker that are taken when they can be; a publish need not fail.
Task(w) ==
    \/ TaskBegins(w) \/ PeekHeader(w) \/ TestSize(w) \/ ReadPacket(w)
    \/ Deliver(w) \/ Published(w) \/ Transmit(w)
-----------------------------------------------------------------------------
(* The connection                                                          *)

Lose ==
    /\ link = "up" /\ MayHappen(Sent, Arrived, losses + 1)
    /\ link' = "down"
    /\ losses' = losses + 1
    /\ UNCHANGED <<mpc, g_running, route, device, reader, pool, topic, call, history, ends>>

Reconnect ==
    /\ link = "down"
    /\ link' = "up"
    /\ UNCHANGED <<mpc, g_running, route, device, reader, pool, topic, losses, call, history, ends>>

Next ==
    \/ Starting \/ Stop \/ Stopping \/ SpuriousWakeup
    \/ (\E m \in Msgs : MessageArrives(m)) \/ Callback
    \/ (\E m \in Up : Receive(m)) \/ AddRecvTask
    \/ (\E w \in Workers : Task(w) \/ PublishFails(w))
    \/ Lose \/ Reconnect

Spec == Init /\ [][Next]_vars

\* Every thread goes on; a token is answered while the connection is up.  Nobody must
\* send a message, stop the gateway, lose or make a connection, or wake up for nothing.
FairSpec ==
    /\ Spec
    /\ WF_vars(Starting) /\ WF_vars(Stopping)
    /\ WF_vars(Callback) /\ WF_vars(AddRecvTask)
    /\ \A w \in Workers : WF_vars(Task(w))
-----------------------------------------------------------------------------
Bytes == Msgs \X Nat

WorkerState ==
    [pc : {"idle", "peek"}, dir : Dirs, total : {0}, block : {<<>>}]
        \cup [pc : {"size", "read"}, dir : Dirs, total : 3 .. 513, block : {<<>>}]
        \cup [pc : {"hand"}, dir : Dirs, total : {0}, block : Seq(Bytes)]
        \cup [pc : {"token"}, dir : {"recv"}, total : {0}, block : {Packet(m) : m \in Msgs}]

Results == {"none", "noCallback", "noDevice", "notRunning", "accepted", "full"}

\* The messages a device is registered for; only they get past findDeviceByType.
Handled == Msgs \ Foreign

CallState ==
    [pc : {"idle"}, result : Results, serving : BOOLEAN]
        \cup [pc : {"idle", "find"}, msg : Msgs, result : Results, serving : BOOLEAN]
        \cup [pc : {"write", "store", "add"}, msg : Handled, result : Results, serving : BOOLEAN]

Objects == {"device", "route", "client", "pool"}
Users == {"task", "call", "link", "main"}

\* The flags and the connection.
FlagsOK ==
    /\ mpc \in {"begin", "init", "setCallback", "configure", "push", "startDevice", "startFails",
                "popDevice", "loop", "stopDevice", "closeFd", "joinReader", "clearRecv", "clearSend",
                "clearDevices", "closeClient", "destroyDevice", "destroyRoute", "destroyClient",
                "stopPool", "joinPool", "returned"}
    /\ g_running \in BOOLEAN /\ devices_ \in BOOLEAN /\ Recvcb_ \in BOOLEAN
    /\ isRunning_ \in BOOLEAN /\ open \in BOOLEAN /\ adding \in BOOLEAN
    /\ link \in {"new", "up", "down", "off"} /\ losses \in Nat

\* The buffers and the ways of the messages.
DataOK ==
    /\ buffer \in [Dirs -> Seq(Bytes)] /\ \A d \in Dirs : Len(buffer[d]) <= Capacity
    /\ queue \in Seq(Dirs) /\ missed \subseteq Workers
    /\ coming \subseteq Up /\ topic \subseteq Msgs
    /\ line \subseteq Msgs /\ published \subseteq Msgs /\ behind \subseteq Msgs
    /\ failed \in [Dirs -> SUBSET Msgs] /\ torn \in [Dirs -> SUBSET Msgs] /\ overlapped \subseteq Dirs

\* Every variable has its type, the buffers their bound, and a call that has found the
\* device is about a message the device is registered for.
TypeOK ==
    /\ FlagsOK
    /\ DataOK
    /\ worker \in [Workers -> WorkerState]
    /\ call \in CallState
    /\ dead \subseteq Objects
    /\ misused \subseteq dead \X Users /\ overtaken \subseteq dead \X Users

\* A use of a dead object is excused by what was under way with the object when it was
\* destroyed: a task, a call, a task added by a call that had found the device, a call
\* over a connection that was down when the client was closed.
Excused(object, by) ==
    \/ <<object, by>> \in overtaken
    \/ object = "device" /\ by = "task" /\ <<"device", "call">> \in overtaken
    \/ object = "route" /\ by = "call" /\ <<"route", "link">> \in overtaken

\* No destructor leaves something behind that begins to use the object later: each use
\* of a destroyed device, route, client or pool is by what was under way with that very
\* object at its destruction, or over a connection that close() left to reconnect
\* (Route::close, ~Route, the order of the destructors in runGateway).
DeadAreNotUsed == \A use \in misused : Excused(use[1], use[2])

\* A message of the cloud that arrives while the gateway serves, and is handled
\* before it stops, is accepted by its device, unless the buffer is full.
AcceptedWhileServing ==
    call.pc = "idle" /\ call.serving /\ call.msg \notin Foreign =>
        call.result \in {"accepted", "full"}

\* The whole packet of a message is with a worker.
Held(m) == \E w \in Workers : worker[w].dir = "recv" /\ worker[w].block = Packet(m)

\* While the gateway serves, every message the device sent is published, given up with
\* an error, or under way in the buffer or with a worker, or it was cut; and none is cut
\* unless two workers have been in the loop of recvTask at a time (backgroundTask,
\* recvTask, handleDeviceMessage).
NoUplinkLost ==
    mpc = "loop" =>
        \A m \in Up \ coming :
            \/ m \in published \cup failed["recv"] \cup In(buffer["recv"])
            \/ Held(m)
            \/ m \in torn["recv"] /\ "recv" \in overlapped

\* Whether every worker waits for a token and there is no connection: then no task
\* runs, those for the device included.
AllWait == link # "up" /\ \A w \in Workers : worker[w].pc = "token"

\* A buffer that is not empty begins with a header.
Aligned(d) == buffer[d] # <<>> => InStep(buffer[d])

\* A message in the send buffer is written to the line in the end, whole, or given up with
\* an error, or cut; unless a ::write failed while it was in the buffer (the task that
\* failed leaves it there), the gateway stops, the connection is lost for good while
\* every worker is sending on it, or overlapping tasks have put the buffer out of step
\* for good (Device::write, sendTask, MQTTClient::send in recvTask).
AcceptedIsWritten ==
    \A m \in Down \cup Up :
        m \in In(buffer["send"])
            ~> \/ m \in line \cup failed["send"] \cup torn["send"] \cup behind
               \/ ~isRunning_
               \/ []AllWait
               \/ []~Aligned("send")

\* A gateway that is asked to stop returns, unless a send waits for ever for its token after
\* the gateway has disconnected or destroyed the client, whether the connection was lost
\* before or not, or a worker has missed the notification of stopthread for good
\* (LeaveLoop, Route::close, ~MQTTClient, the join of the pool).
GatewayReturns ==
    (mpc # "begin" /\ ~g_running)
        ~> \/ mpc = "returned"
           \/ [](link = "off" /\ \E w \in Workers : worker[w].pc = "token")
           \/ [](missed # {})
=============================================================================
