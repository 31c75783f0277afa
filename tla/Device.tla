------------------------------- MODULE Device -------------------------------
(***************************************************************************)
(* App/Device.cpp: a device with a read thread, a receive buffer and a     *)
(* send buffer, whose packets are taken out of the buffers by recvTask and *)
(* sendTask on the thread pool.                                            *)
(*                                                                         *)
(* The buffers are what ByteQueue promises (Buffer implements it) and the  *)
(* pool is what TaskPool promises (ThreadPool implements it): tasks begin  *)
(* in the order in which they were added, on any free worker.              *)
(*                                                                         *)
(* Each direction carries a stream of packets.  A byte is named by its     *)
(* position in its stream, so a packet is an interval of positions; what   *)
(* the two length bytes of a header say is known where a packet begins,    *)
(* and is arbitrary where a reader of the buffer is out of step.           *)
(*                                                                         *)
(* recvTask and sendTask are the same loop over their buffer; dir tells    *)
(* them apart.                                                             *)
(***************************************************************************)
EXTENDS Integers, Sequences

CONSTANTS
    Workers,    \* threads of the pool
    Ends,       \* for each direction, the last position of each packet of its stream
    Scenarios,  \* bound: how many bytes may arrive and be written in one run
    Capacity,   \* bufferSize of the constructor
    ReadChunk,  \* READ_CHUNK_SIZE
    Blocking,   \* Serial::Config::blocking
    MaxFaults   \* bound: failing or short system calls, failing thread creation

Dirs == {"recv", "send"}

ASSUME DeviceAssumption ==
    /\ Ends \in [Dirs -> Seq(Nat)]
    /\ \A d \in Dirs : \A p, q \in DOMAIN Ends[d] :
          Ends[d][p] >= 3 /\ (p < q => Ends[d][q] >= Ends[d][p] + 3)
    /\ Capacity \in Nat \ {0} /\ ReadChunk \in Nat \ {0}
    /\ Blocking \in BOOLEAN
    /\ MaxFaults \in Nat

VARIABLES
    isRunning_,     \* Device::isRunning_
    open,           \* fd_ >= 0
    recvCallback_,  \* a callback is registered
    buffer,         \* recvBuffer_ and sendBuffer_
    queue,          \* the pool's tasks not begun yet
    worker,         \* what each worker of the pool is doing
    rpc, chunk,     \* the read thread: where it is, buf
    taken,          \* bytes of the receive stream read so far
    mpc,            \* the thread that starts and closes the device
    opc, next,      \* the thread that calls write: where it is, its packet
    handed,         \* per direction, the blocks given to the callback or to ::write
    discarded,      \* a block that was read did not fit in recvBuffer_
    overlapped,     \* two workers were in the loop of one direction at a time
    faults          \* failures so far

life == <<isRunning_, open, recvCallback_, mpc>>
reader == <<rpc, chunk, taken, discarded>>
writer == <<opc, next>>
pool == <<worker, handed, overlapped>>
vars == <<life, buffer, queue, reader, writer, pool, faults>>

\* Positions of the packets of a stream.
First(d, p) == IF p = 1 THEN 1 ELSE Ends[d][p - 1] + 1
Length(d, p) == Ends[d][p] + 1 - First(d, p)
Packet(d, p) == [k \in 1 .. Length(d, p) |-> First(d, p) + k - 1]
StreamLen(d) == First(d, Len(Ends[d]) + 1) - 1

\* The packet after those whose write has begun.
NextToBegin == IF opc = "idle" THEN next ELSE next + 1

\* So many bytes may arrive, and the packets before this one be written.
MayPass(arrived, packet) ==
    \E s \in Scenarios : arrived <= s.recv /\ First("send", packet) - 1 <= s.send

\* Every length two bytes of a header can announce: 3 + 255 + 255 at most.
\* Beyond what any buffer holds the values make no difference.
AnyLength == 3 .. (IF Capacity + 1 < 513 THEN Capacity + 1 ELSE 513)

\* A worker in the loop: where it is, totalLen and fullPacket.
Doing(pc, d, total, packet) == [pc |-> pc, dir |-> d, total |-> total, packet |-> packet]
Idle == Doing("idle", "recv", 0, <<>>)

Init ==
    /\ isRunning_ = FALSE
    /\ open = TRUE
    /\ recvCallback_ = FALSE
    /\ buffer = [d \in Dirs |-> <<>>]
    /\ queue = <<>>
    /\ worker = [w \in Workers |-> Idle]
    /\ rpc = "none"
    /\ chunk = <<>>
    /\ taken = 0
    /\ mpc = "opened"
    /\ opc = "idle"
    /\ next = 1
    /\ handed = [d \in Dirs |-> <<>>]
    /\ discarded = FALSE
    /\ overlapped = FALSE
    /\ faults = 0

Fault ==
    /\ faults < MaxFaults
    /\ faults' = faults + 1

\* Fault: room for one byte more than there is.
FitsOneMore(d, bytes) == Len(bytes) <= Capacity - Len(buffer[d]) + 1

Fits(d, bytes) == Len(bytes) <= Capacity - Len(buffer[d])

AddTask(d) == queue' = Append(queue, d)
-----------------------------------------------------------------------------
(* The thread that owns the device: registerRecvCallback, start, stop and  *)
(* close, in the order in which Route calls them                           *)

RegisterRecvCallback ==
    /\ mpc = "opened"
    /\ recvCallback_' = TRUE
    /\ mpc' = "registered"
    /\ UNCHANGED <<isRunning_, open, buffer, queue, reader, writer, pool, faults>>

Start ==
    /\ mpc = "registered"
    /\ isRunning_' = TRUE
    /\ rpc' = "test"
    /\ mpc' = "up"
    /\ UNCHANGED <<open, recvCallback_, buffer, queue, chunk, taken, discarded, writer, pool, faults>>

\* std::thread throws: isRunning_ was true for a moment, as write may notice.
StartFails ==
    /\ mpc = "registered"
    /\ Fault
    /\ isRunning_' = TRUE
    /\ mpc' = "startFails"
    /\ UNCHANGED <<open, recvCallback_, buffer, queue, reader, writer, pool>>

StartCatches ==
    /\ mpc = "startFails"
    /\ isRunning_' = FALSE
    /\ mpc' = "startFailed"
    /\ UNCHANGED <<open, recvCallback_, buffer, queue, reader, writer, pool, faults>>

\* stop() returns at once when the device is not running.
StopBegins ==
    /\ mpc \in {"opened", "registered", "up", "startFailed"}
    /\ isRunning_' = FALSE
    /\ mpc' = IF isRunning_ THEN "closeFd" ELSE "clearRecv"
    /\ UNCHANGED <<open, recvCallback_, buffer, queue, reader, writer, pool, faults>>

StopClosesFd ==
    /\ mpc = "closeFd"
    /\ open' = FALSE
    /\ mpc' = "join"
    /\ UNCHANGED <<isRunning_, recvCallback_, buffer, queue, reader, writer, pool, faults>>

StopJoins ==
    /\ mpc = "join"
    /\ rpc = "ended"
    /\ mpc' = "clearRecv"
    /\ UNCHANGED <<isRunning_, open, recvCallback_, buffer, queue, reader, writer, pool, faults>>

CloseClears ==
    /\ mpc \in {"clearRecv", "clearSend"}
    /\ buffer' = [buffer EXCEPT ![IF mpc = "clearRecv" THEN "recv" ELSE "send"] = <<>>]
    /\ mpc' = IF mpc = "clearRecv" THEN "clearSend" ELSE "closed"
    /\ UNCHANGED <<isRunning_, open, recvCallback_, queue, reader, writer, pool, faults>>

Main ==
    \/ RegisterRecvCallback \/ Start \/ StartFails \/ StartCatches
    \/ StopBegins \/ StopClosesFd \/ StopJoins \/ CloseClears
-----------------------------------------------------------------------------
(* backgroundTask                                                          *)

ReaderTests ==
    /\ rpc = "test"
    /\ rpc' = IF isRunning_ /\ open THEN "read" ELSE "ended"
    /\ UNCHANGED <<life, buffer, queue, chunk, taken, discarded, writer, pool, faults>>

\* Data may arrive even when the file was closed while read() was under way.
ReadData ==
    /\ rpc = "read"
    /\ \E n \in 1 .. ReadChunk :
        /\ taken + n <= StreamLen("recv") /\ MayPass(taken + n, NextToBegin)
        /\ chunk' = [k \in 1 .. n |-> taken + k]
        /\ taken' = taken + n
    /\ rpc' = "store"
    /\ UNCHANGED <<life, buffer, queue, discarded, writer, pool, faults>>

\* Fault: the line is set to wait for a byte (VMIN = 1) in this mode too.
ReadWaits ==
    /\ rpc = "read"
    /\ Blocking
    /\ rpc' = "ended"
    /\ UNCHANGED <<life, buffer, queue, chunk, taken, discarded, writer, pool, faults>>

\* VMIN = 0, VTIME = 5: half a second without data, and read() returns 0.
ReadNothing ==
    /\ rpc = "read"
    /\ ~Blocking
    /\ rpc' = "ended"
    /\ UNCHANGED <<life, buffer, queue, chunk, taken, discarded, writer, pool, faults>>

\* EINTR and other errors are tried again, unless the device is being stopped.
ReadError ==
    /\ rpc = "read"
    /\ rpc' = IF isRunning_ /\ open THEN "test" ELSE "ended"
    /\ UNCHANGED <<life, buffer, queue, chunk, taken, discarded, writer, pool, faults>>

\* All or nothing: a block that does not fit is discarded.
StoreChunk ==
    /\ rpc = "store"
    /\ IF Fits("recv", chunk)
       THEN /\ buffer' = [buffer EXCEPT !["recv"] = @ \o chunk]
            /\ rpc' = "task"
            /\ UNCHANGED discarded
       ELSE /\ discarded' = TRUE
            /\ rpc' = "test"
            /\ UNCHANGED buffer
    /\ chunk' = <<>>
    /\ UNCHANGED <<life, queue, taken, writer, pool, faults>>

\* Fault: no task is added.
AddRecvTaskNot ==
    /\ rpc = "task"
    /\ rpc' = "test"
    /\ UNCHANGED <<life, buffer, queue, chunk, taken, discarded, writer, pool, faults>>

AddRecvTask ==
    /\ rpc = "task"
    /\ AddTask("recv")
    /\ rpc' = "test"
    /\ UNCHANGED <<life, buffer, chunk, taken, discarded, writer, pool, faults>>

Reader == ReaderTests \/ ReadData \/ ReadNothing \/ ReadError \/ StoreChunk \/ AddRecvTask
-----------------------------------------------------------------------------
(* write(), called with one whole packet at a time                         *)

WriteTests ==
    /\ opc = "idle"
    /\ next <= Len(Ends["send"]) /\ MayPass(taken, next + 1)
    /\ opc' = IF isRunning_ THEN "store" ELSE "idle"
    /\ next' = IF isRunning_ THEN next ELSE next + 1
    /\ UNCHANGED <<life, buffer, queue, reader, pool, faults>>

WriteStores ==
    /\ opc = "store"
    /\ IF Fits("send", Packet("send", next))
       THEN /\ buffer' = [buffer EXCEPT !["send"] = @ \o Packet("send", next)]
            /\ opc' = "task"
            /\ UNCHANGED next
       ELSE /\ opc' = "idle"
            /\ next' = next + 1
            /\ UNCHANGED buffer
    /\ UNCHANGED <<life, queue, reader, pool, faults>>

AddSendTask ==
    /\ opc = "task"
    /\ AddTask("send")
    /\ opc' = "idle"
    /\ next' = next + 1
    /\ UNCHANGED <<life, buffer, reader, pool, faults>>

Writer == WriteTests \/ WriteStores \/ AddSendTask
-----------------------------------------------------------------------------
(* recvTask and sendTask on the workers of the pool                        *)

InLoop(d) == {w \in Workers : worker[w].pc # "idle" /\ worker[w].dir = d}

Returns(w) == worker' = [worker EXCEPT ![w] = Idle]

GoesOn(w, pc, total, packet) ==
    worker' = [worker EXCEPT ![w] = Doing(pc, worker[w].dir, total, packet)]

\* The pool begins a task.  recvTask copies the callback first.
TaskBegins(w) ==
    /\ worker[w].pc = "idle"
    /\ queue # <<>>
    /\ queue' = Tail(queue)
    /\ LET d == Head(queue)
       IN IF d = "recv" /\ ~recvCallback_
          THEN UNCHANGED <<worker, overlapped>>
          ELSE /\ worker' = [worker EXCEPT ![w] = Doing("peek", d, 0, <<>>)]
               /\ overlapped' = (overlapped \/ InLoop(d) # {})
    /\ UNCHANGED <<life, buffer, reader, writer, handed, faults>>

\* What the header at the front of the buffer can announce.
TotalLen(d) ==
    LET i == buffer[d][1]
        aligned == {p \in DOMAIN Ends[d] :
                        First(d, p) = i /\ SubSeq(buffer[d], 1, 3) = SubSeq(Packet(d, p), 1, 3)}
    IN IF aligned = {} THEN AnyLength ELSE {Length(d, p) : p \in aligned}

\* readableSize() < 3, and then peek, which fails for the same reason.
PeekHeader(w) ==
    LET d == worker[w].dir
    IN /\ worker[w].pc = "peek"
       /\ IF Len(buffer[d]) < 3
          THEN Returns(w)
          ELSE \E n \in TotalLen(d) : GoesOn(w, "size", n, <<>>)
       /\ UNCHANGED <<life, buffer, queue, reader, writer, handed, overlapped, faults>>

\* Fault: the packet is taken out although it is not complete.
TestSizeNot(w) ==
    /\ worker[w].pc = "size"
    /\ GoesOn(w, "read", worker[w].total, <<>>)
    /\ UNCHANGED <<life, buffer, queue, reader, writer, handed, overlapped, faults>>

\* The packet is not complete yet: the task returns.
TestSize(w) ==
    /\ worker[w].pc = "size"
    /\ IF Len(buffer[worker[w].dir]) < worker[w].total
       THEN Returns(w)
       ELSE GoesOn(w, "read", worker[w].total, <<>>)
    /\ UNCHANGED <<life, buffer, queue, reader, writer, handed, overlapped, faults>>

\* Fault: read leaves the last byte of the packet behind.
ReadPacketButOne(w) ==
    LET d == worker[w].dir
        n == worker[w].total
    IN /\ worker[w].pc = "read"
       /\ Len(buffer[d]) >= n
       /\ buffer' = [buffer EXCEPT ![d] = SubSeq(@, n, Len(@))]
       /\ GoesOn(w, "hand", n, SubSeq(buffer[d], 1, n))
       /\ UNCHANGED <<life, queue, reader, writer, handed, overlapped, faults>>

\* read() takes what there is; if that is less than was asked for, it is lost.
ReadPacket(w) ==
    LET d == worker[w].dir
        n == worker[w].total
    IN /\ worker[w].pc = "read"
       /\ IF Len(buffer[d]) < n
          THEN /\ buffer' = [buffer EXCEPT ![d] = <<>>]
               /\ Returns(w)
          ELSE /\ buffer' = [buffer EXCEPT ![d] = SubSeq(@, n + 1, Len(@))]
               /\ GoesOn(w, "hand", n, SubSeq(buffer[d], 1, n))
       /\ UNCHANGED <<life, queue, reader, writer, handed, overlapped, faults>>

\* Fault: one packet for each task.
AgainNot(w) == Returns(w)

Again(w) == GoesOn(w, "peek", 0, <<>>)

\* The callback; its result is ignored.
Deliver(w) ==
    /\ worker[w].pc = "hand"
    /\ worker[w].dir = "recv"
    /\ handed' = [handed EXCEPT !["recv"] = Append(@, worker[w].packet)]
    /\ Again(w)
    /\ UNCHANGED <<life, buffer, queue, reader, writer, overlapped, faults>>

Transmit(w) ==
    /\ worker[w].pc = "hand"
    /\ worker[w].dir = "send"
    /\ open
    /\ handed' = [handed EXCEPT !["send"] = Append(@, worker[w].packet)]
    /\ Again(w)
    /\ UNCHANGED <<life, buffer, queue, reader, writer, overlapped, faults>>

\* ::write takes fewer bytes than it was given; nobody looks.
TransmitShort(w) ==
    /\ worker[w].pc = "hand"
    /\ worker[w].dir = "send"
    /\ open
    /\ Fault
    /\ \E n \in 1 .. worker[w].total - 1 :
        handed' = [handed EXCEPT !["send"] = Append(@, SubSeq(worker[w].packet, 1, n))]
    /\ Again(w)
    /\ UNCHANGED <<life, buffer, queue, reader, writer, overlapped>>

\* The file is closed, before the test of fd_ or after it, or ::write fails: the
\* packet is lost and the task returns.
TransmitFails(w) ==
    /\ worker[w].pc = "hand"
    /\ worker[w].dir = "send"
    /\ IF open THEN Fault ELSE UNCHANGED faults
    /\ Returns(w)
    /\ UNCHANGED <<life, buffer, queue, reader, writer, handed, overlapped>>

Task(w) ==
    \/ TaskBegins(w) \/ PeekHeader(w) \/ TestSize(w) \/ ReadPacket(w)
    \/ Deliver(w) \/ Transmit(w) \/ TransmitShort(w) \/ TransmitFails(w)

Next == Main \/ Reader \/ Writer \/ \E w \in Workers : Task(w)

Spec == Init /\ [][Next]_vars

\* Every thread goes on.  read() comes back with data or after VTIME, but no error
\* has to happen; the owner of the device need not close it, but a stop that has
\* begun is carried through.
FairSpec ==
    /\ Spec
    /\ WF_vars(ReaderTests \/ ReadData \/ ReadNothing \/ StoreChunk \/ AddRecvTask)
    /\ WF_vars(Writer)
    /\ WF_vars(StopClosesFd \/ StopJoins \/ CloseClears)
    /\ \A w \in Workers : WF_vars(Task(w))
-----------------------------------------------------------------------------
Positions(d) == 1 .. StreamLen(d)

WorkerState ==
    [pc : {"idle", "peek", "size", "read", "hand"}, dir : Dirs, total : Nat, packet : Seq(Nat)]

LifeOK ==
    /\ isRunning_ \in BOOLEAN /\ open \in BOOLEAN /\ recvCallback_ \in BOOLEAN
    /\ mpc \in {"opened", "registered", "up", "startFails", "startFailed", "closeFd", "join",
                "clearRecv", "clearSend", "closed"}

BufferOK ==
    /\ buffer \in [Dirs -> Seq(Nat)]
    /\ \A d \in Dirs : Len(buffer[d]) <= Capacity

ReaderOK ==
    /\ rpc \in {"none", "test", "read", "store", "task", "ended"}
    /\ chunk \in Seq(Positions("recv"))
    /\ taken \in 0 .. StreamLen("recv")
    /\ discarded \in BOOLEAN

WriterOK ==
    /\ opc \in {"idle", "store", "task"}
    /\ next \in 1 .. Len(Ends["send"]) + 1
    /\ opc # "idle" => next <= Len(Ends["send"])

PoolOK ==
    /\ queue \in Seq(Dirs)
    /\ worker \in [Workers -> WorkerState]
    /\ \A w \in Workers : worker[w].pc = "hand" => Len(worker[w].packet) = worker[w].total
    /\ handed \in [Dirs -> Seq(Seq(Nat))]
    /\ overlapped \in BOOLEAN

TypeOK == LifeOK /\ BufferOK /\ ReaderOK /\ WriterOK /\ PoolOK /\ faults \in 0 .. MaxFaults

\* The blocks handed over in a direction are whole packets, each at most once
\* and in order.
HandsWholePackets(d) ==
    /\ \A k \in DOMAIN handed[d] :
        \E p \in DOMAIN Ends[d] : handed[d][k] = Packet(d, p)
    /\ \A j, k \in DOMAIN handed[d] : j < k => handed[d][j][1] < handed[d][k][1]

\* The callback gets exactly the packets the device sent, whole, from the first
\* on and in order, however read() cuts the stream, as long as no block was
\* discarded and no two tasks ran the receive loop at a time (backgroundTask,
\* recvTask).
ReceivesWholePackets ==
    ~discarded /\ ~overlapped =>
        \A k \in DOMAIN handed["recv"] : handed["recv"][k] = Packet("recv", k)

\* What goes out to the device are whole packets in the order of the calls of
\* write, as long as no call failed and no two tasks ran the send loop at a time
\* (write, sendTask).
SendsWholePackets == faults = 0 /\ ~overlapped => HandsWholePackets("send")

\* The packet at the front of a buffer has arrived as a whole.
Complete(d) ==
    \E p \in DOMAIN Ends[d] :
        Len(buffer[d]) >= Length(d, p) /\ SubSeq(buffer[d], 1, Length(d, p)) = Packet(d, p)

\* Somebody will look at the buffer again: a task waits or runs, or the thread
\* that stored bytes is about to add one.
LookComing(d) ==
    \/ \E k \in DOMAIN queue : queue[k] = d
    \/ InLoop(d) # {}
    \/ IF d = "recv" THEN rpc = "task" ELSE opc = "task"

\* sendTask gives up when the file is closed or ::write fails.
Works(d) == d = "send" => open /\ faults = 0

\* A complete packet is never left in a buffer with nobody to take it out, for
\* any number of tasks at a time (backgroundTask, write, recvTask, sendTask).
NoPacketStranded == \A d \in Dirs : Complete(d) /\ Works(d) => LookComing(d)

\* A complete packet is taken out of its buffer in the end.
PacketsAreTaken == \A d \in Dirs : (Complete(d) /\ Works(d)) ~> (~Complete(d) \/ ~Works(d))

\* stop() and close() return (the join in stop()).
StopReturns == (mpc = "join") ~> (mpc = "closed")

\* The claim "整包" of recvTask: whatever the pool does, a block handed to the
\* callback is a whole packet.
EveryBlockIsPacket == ~discarded => HandsWholePackets("recv")

\* isRunning() says that the background thread runs.
RunningMeansReading == isRunning_ => rpc # "ended"
=============================================================================
