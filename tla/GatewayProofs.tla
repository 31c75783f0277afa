--------------------------- MODULE GatewayProofs ---------------------------
(***************************************************************************)
(* Theorems about Gateway, for all sets of messages and workers, all sizes *)
(* of the packets and of the buffers, any lengths that headers out of step *)
(* announce and any number of losses: type correctness; no destroyed       *)
(* object is used by what begins after its destruction; what arrives in    *)
(* the main loop is accepted; and no message of the device is lost, unless *)
(* overlapping tasks cut it.                                               *)
(***************************************************************************)
EXTENDS Gateway, SequenceTheorems, TLAPS

\* Where the main thread is decides what is set up ...
SetUpInv ==
    /\ Recvcb_ => mpc \notin {"begin", "init", "setCallback"}
    /\ mpc \in {"configure", "push", "startDevice", "startFails", "popDevice", "loop"} => Recvcb_
    /\ devices_ => mpc \in {"startDevice", "startFails", "popDevice", "loop", "stopDevice", "closeFd",
                            "joinReader", "clearRecv", "clearSend", "clearDevices"}
    /\ mpc = "startDevice" => devices_
    /\ isRunning_ => mpc \in {"startFails", "loop", "stopDevice"}
    /\ mpc = "loop" => devices_ /\ isRunning_
    /\ adding => mpc \in {"loop", "stopDevice", "closeFd", "joinReader"}

\* ... and what is destroyed.
DeadInv ==
    /\ "device" \in dead => mpc \in {"destroyRoute", "destroyClient", "stopPool", "joinPool", "returned"}
    /\ "route" \in dead => mpc \in {"destroyClient", "stopPool", "joinPool", "returned"}
    /\ "client" \in dead => mpc \in {"stopPool", "joinPool", "returned"}
    /\ "pool" \in dead => mpc = "returned"

\* Every misuse is excused, and unless one is, nothing that could begin it is left:
\* no task or call is under way with the object, and none can come.
GoneInv ==
    /\ \A use \in misused : Excused(use[1], use[2])
    /\ "device" \in dead =>
          /\ Excused("device", "call") \/ ~HasDevice
          /\ Excused("device", "task") \/ (~UnderWay("recv") /\ ~UnderWay("send"))
    /\ "route" \in dead =>
          /\ Excused("route", "call") \/ (call.pc # "find" /\ link \in {"new", "off"})
          /\ Excused("route", "task") \/ ~UnderWay("recv")
    /\ "client" \in dead => Excused("client", "task") \/ ~UnderWay("recv")
    /\ "pool" \in dead => Excused("pool", "call") \/ ~HasDevice

\* A message of the cloud that is served arrived in the main loop, which is not left
\* yet, and was not refused.
ServeInv ==
    call.serving =>
        /\ mpc = "loop"
        /\ call.pc = "idle" /\ call.msg \notin Foreign => call.result \in {"accepted", "full"}

\* Until the main loop is left, no buffer is cleared.
Stages == {"begin", "init", "setCallback", "configure", "push", "startDevice", "startFails",
           "popDevice", "loop"}

\* A message of the device that is published, given up, cut, or under way.
Kept(m) ==
    \/ m \in published \cup failed["recv"] \cup In(buffer["recv"]) \cup torn["recv"]
    \/ Held(m)

\* Every message the device sent is kept.
UplinkInv == mpc \in Stages => \A m \in Up \ coming : Kept(m)

\* The packet of a message follows the j-th byte.
PacketAt(bytes, j, m) == \A k \in 1 .. Size[m] : bytes[j + k] = <<m, k>>

\* A buffer of whole packets: each byte has all those of its packet around it.
Whole(bytes) ==
    \A j \in 1 .. Len(bytes) :
        LET m == bytes[j][1]
            i == bytes[j][2]
        IN /\ i \in 1 .. Size[m] /\ i <= j /\ j - i + Size[m] <= Len(bytes)
           /\ PacketAt(bytes, j - i, m)

\* As long as no two workers have been in the loop of recvTask at a time, at most one is,
\* and it goes by the length of the packet at the front of a buffer of whole packets.
StepInv ==
    "recv" \notin overlapped =>
        /\ \A v, w \in InLoop("recv") : v = w
        /\ mpc \in Stages =>
              /\ torn["recv"] = {}
              /\ Whole(buffer["recv"])
              /\ \A w \in InLoop("recv") :
                    worker[w].pc \in {"size", "read"} =>
                        buffer["recv"] # <<>> /\ worker[w].total = Size[buffer["recv"][1][1]]

IInv == TypeOK /\ SetUpInv /\ DeadInv /\ GoneInv /\ ServeInv /\ UplinkInv /\ StepInv
-----------------------------------------------------------------------------
(* Packets, blocks, and the states of the call and of the workers          *)

LEMMA Sizes == \A m \in Msgs : Size[m] \in 3 .. 513 /\ Size[m] \in Nat
BY GatewayAssumption DEF GatewayAssumption

\* A message of the device is a message, and one a device is registered for.
LEMMA UpHandled == Up \subseteq Handled /\ Handled \subseteq Msgs /\ Down \subseteq Msgs
BY GatewayAssumption DEF GatewayAssumption, Handled, Msgs

LEMMA PacketFacts ==
    ASSUME NEW m \in Msgs
    PROVE  /\ Packet(m) \in Seq(Bytes) /\ Len(Packet(m)) = Size[m] /\ Packet(m) # <<>>
           /\ \A k \in 1 .. Size[m] : Packet(m)[k] = <<m, k>>
           /\ In(Packet(m)) = {m} /\ InStep(Packet(m))
           /\ SubSeq(Packet(m), 1, Size[m]) = Packet(m)
<1>1. Size[m] \in 3 .. 513 /\ Size[m] \in Nat /\ Size[m] >= 1 /\ 1 \in 1 .. Size[m]
  BY Sizes
<1>2. /\ Packet(m) \in Seq(Bytes) /\ Len(Packet(m)) = Size[m] /\ DOMAIN Packet(m) = 1 .. Size[m]
      /\ \A k \in 1 .. Size[m] : Packet(m)[k] = <<m, k>>
  <2>1. \A k \in 1 .. Size[m] : <<m, k>> \in Bytes
    BY DEF Bytes
  <2> QED
    BY <1>1, <2>1, IsASeq DEF Packet
<1>3. Packet(m) # <<>> /\ InStep(Packet(m))
  <2>1. Len(Packet(m)) # 0
    BY <1>1, <1>2
  <2>2. Packet(m)[1] = <<m, 1>>
    BY <1>1, <1>2
  <2>3. Packet(m) # <<>>
    BY <2>1
  <2> QED
    BY <2>2, <2>3 DEF InStep
<1>4. In(Packet(m)) = {m}
  <2>1. \A k \in DOMAIN Packet(m) : Packet(m)[k][1] = m
    BY <1>2
  <2>2. 1 \in DOMAIN Packet(m)
    BY <1>1, <1>2
  <2> QED
    BY <2>1, <2>2 DEF In
<1>5. SubSeq(Packet(m), 1, Size[m]) = Packet(m)
  BY <1>1, <1>2
<1> QED
  BY <1>2, <1>3, <1>4, <1>5

\* What a block carries is in it, and a packet carries itself.
LEMMA CarriedFacts ==
    ASSUME NEW d \in Dirs, NEW m \in Msgs
    PROVE  Carried(d, Packet(m)) = {m} /\ ReadAs(d, Packet(m)) = {m}
BY PacketFacts DEF Carried, ReadAs

LEMMA ReadAsType ==
    ASSUME NEW d \in Dirs, NEW b \in Seq(Bytes)
    PROVE  /\ In(b) \subseteq Msgs /\ Carried(d, b) \subseteq Msgs /\ ReadAs(d, b) \subseteq Msgs
           /\ Carried("recv", b) = {} \/ \E m \in Msgs : b = Packet(m)
<1>1. In(b) \subseteq Msgs
  BY DEF In, Bytes
<1>2. Carried(d, b) \subseteq In(b) /\ Carried("recv", b) \subseteq In(b)
  BY DEF Carried
<1>3. ReadAs(d, b) \subseteq Msgs
  BY <1>1, <1>2 DEF ReadAs, Msgs
<1>4. ASSUME NEW m \in Carried("recv", b) PROVE b = Packet(m)
  <2>1. Len(b) = Size[m] /\ SubSeq(b, 1, Size[m]) = Packet(m)
    BY <1>4 DEF Carried
  <2>2. SubSeq(b, 1, Len(b)) = b
    OBVIOUS
  <2> QED
    BY <2>1, <2>2
<1> QED
  BY <1>1, <1>2, <1>3, <1>4

\* What two parts of a sequence of bytes contain.
LEMMA InConcat ==
    ASSUME NEW s \in Seq(Bytes), NEW t \in Seq(Bytes)
    PROVE  In(s \o t) = In(s) \cup In(t)
<1>1. Len(s) \in Nat /\ Len(t) \in Nat /\ DOMAIN s = 1 .. Len(s) /\ DOMAIN t = 1 .. Len(t)
  OBVIOUS
<1>2. /\ DOMAIN (s \o t) = 1 .. Len(s) + Len(t)
      /\ \A i \in 1 .. Len(s) : (s \o t)[i] = s[i]
      /\ \A i \in 1 .. Len(t) : (s \o t)[Len(s) + i] = t[i]
  OBVIOUS
<1>3. \A i \in 1 .. Len(s) + Len(t) : i \in 1 .. Len(s) \/ i - Len(s) \in 1 .. Len(t)
  BY <1>1
<1>4. In(s \o t) \subseteq In(s) \cup In(t)
  BY <1>1, <1>2, <1>3 DEF In
<1>5. In(s) \subseteq In(s \o t)
  BY <1>1, <1>2 DEF In
<1>6. In(t) \subseteq In(s \o t)
  <2> SUFFICES ASSUME NEW i \in 1 .. Len(t) PROVE t[i][1] \in In(s \o t)
    BY <1>1 DEF In
  <2>1. Len(s) + i \in DOMAIN (s \o t) /\ (s \o t)[Len(s) + i] = t[i]
    BY <1>1, <1>2
  <2> QED
    BY <2>1 DEF In
<1> QED
  BY <1>4, <1>5, <1>6

LEMMA InSplit ==
    ASSUME NEW b \in Seq(Bytes), NEW n \in 1 .. Len(b)
    PROVE  /\ SubSeq(b, 1, n) \in Seq(Bytes) /\ SubSeq(b, n + 1, Len(b)) \in Seq(Bytes)
           /\ Len(SubSeq(b, 1, n)) = n /\ Len(SubSeq(b, n + 1, Len(b))) = Len(b) - n
           /\ \A k \in 1 .. n : SubSeq(b, 1, n)[k] = b[k]
           /\ \A k \in 1 .. Len(b) - n : SubSeq(b, n + 1, Len(b))[k] = b[n + k]
           /\ In(b) = In(SubSeq(b, 1, n)) \cup In(SubSeq(b, n + 1, Len(b)))
<1> DEFINE s == SubSeq(b, 1, n)
           t == SubSeq(b, n + 1, Len(b))
<1>1. /\ s \in Seq(Bytes) /\ t \in Seq(Bytes) /\ Len(s) = n /\ Len(t) = Len(b) - n
      /\ \A k \in 1 .. n : s[k] = b[k]
      /\ \A k \in 1 .. Len(b) - n : t[k] = b[n + k]
  OBVIOUS
<1>2. Len(s \o t) = Len(b) /\ \A k \in 1 .. Len(b) : (s \o t)[k] = b[k]
  BY <1>1
<1>3. s \o t \in Seq(Bytes)
  BY <1>1
<1>4. s \o t = b
  BY <1>2, <1>3, SeqEqual
<1>5. In(s \o t) = In(s) \cup In(t)
  BY <1>1, InConcat
<1> HIDE DEF s, t
<1>6. In(b) = In(s) \cup In(t)
  BY <1>4, <1>5
<1> QED
  BY <1>1, <1>6 DEF s, t

\* The states of a call after each step.
LEMMA CallStates ==
    ASSUME NEW c \in CallState
    PROVE  /\ c.result \in Results /\ c.serving \in BOOLEAN
           /\ c.pc \in {"idle", "find", "write", "store", "add"}
           /\ c.pc # "idle" => c.msg \in Msgs
           /\ c.pc \in {"write", "store", "add"} => c.msg \in Handled
           /\ [c EXCEPT !.serving = FALSE] \in CallState /\ [c EXCEPT !.serving = FALSE].serving = FALSE
           /\ [c EXCEPT !.serving = FALSE].pc = c.pc
           /\ \A p : [c EXCEPT !.pc = p].pc = p /\ [c EXCEPT !.pc = p].serving = c.serving
           /\ c.pc = "find" /\ c.msg \notin Foreign => [c EXCEPT !.pc = "write"] \in CallState
           /\ c.pc = "write" => [c EXCEPT !.pc = "store"] \in CallState
           /\ c.pc = "store" => [c EXCEPT !.pc = "add"] \in CallState
<1>1. CASE c \in [pc : {"idle"}, result : Results, serving : BOOLEAN]
  BY <1>1 DEF CallState
<1>2. CASE c \in [pc : {"idle", "find"}, msg : Msgs, result : Results, serving : BOOLEAN]
  BY <1>2 DEF CallState, Handled
<1>3. CASE c \in [pc : {"write", "store", "add"}, msg : Handled, result : Results, serving : BOOLEAN]
  BY <1>3 DEF CallState, Handled
<1> QED
  BY <1>1, <1>2, <1>3 DEF CallState

\* A call that returns.
LEMMA CallReturns ==
    ASSUME NEW m \in Msgs, NEW r \in Results, NEW s \in BOOLEAN, NEW p \in {"idle", "find"}
    PROVE  [pc |-> p, msg |-> m, result |-> r, serving |-> s] \in CallState
BY DEF CallState

\* The states of a worker.
LEMMA WorkerMakes ==
    /\ Idle \in WorkerState
    /\ \A d \in Dirs : Doing("peek", d, 0, <<>>) \in WorkerState
    /\ \A d \in Dirs, n \in 3 .. 513 : /\ Doing("size", d, n, <<>>) \in WorkerState
                                       /\ Doing("read", d, n, <<>>) \in WorkerState
    /\ \A d \in Dirs, b \in Seq(Bytes) : Doing("hand", d, 0, b) \in WorkerState
    /\ \A m \in Msgs : Doing("token", "recv", 0, Packet(m)) \in WorkerState
BY DEF WorkerState, Doing, Idle, Dirs

LEMMA WorkerStates ==
    ASSUME NEW s \in WorkerState
    PROVE  /\ s.dir \in Dirs /\ s.pc \in {"idle", "peek", "size", "read", "hand", "token"}
           /\ s.pc \notin {"hand", "token"} => s.block = <<>>
           /\ s.pc \in {"size", "read"} => s.total \in 3 .. 513
           /\ s.pc = "hand" => s.block \in Seq(Bytes)
           /\ s.pc = "token" => s.dir = "recv" /\ \E m \in Msgs : s.block = Packet(m)
<1>1. CASE s \in [pc : {"idle", "peek"}, dir : Dirs, total : {0}, block : {<<>>}]
  BY <1>1
<1>2. CASE s \in [pc : {"size", "read"}, dir : Dirs, total : 3 .. 513, block : {<<>>}]
  BY <1>2
<1>3. CASE s \in [pc : {"hand"}, dir : Dirs, total : {0}, block : Seq(Bytes)]
  BY <1>3
<1>4. CASE s \in [pc : {"token"}, dir : {"recv"}, total : {0}, block : {Packet(m) : m \in Msgs}]
  BY <1>4 DEF Dirs
<1> QED
  BY <1>1, <1>2, <1>3, <1>4 DEF WorkerState

LEMMA DoingFields ==
    \A p, d, n, b : /\ Doing(p, d, n, b).pc = p /\ Doing(p, d, n, b).dir = d
                    /\ Doing(p, d, n, b).total = n /\ Doing(p, d, n, b).block = b
BY DEF Doing

\* A worker's step leaves the others alone.
LEMMA BecomesOne ==
    ASSUME worker \in [Workers -> WorkerState], NEW w \in Workers, NEW s, Becomes(w, s)
    PROVE  /\ worker'[w] = s /\ \A v \in Workers \ {w} : worker'[v] = worker[v]
           /\ s \in WorkerState => worker' \in [Workers -> WorkerState]
BY DEF Becomes

\* A use is by a user of what is dead.
LEMMA UseType ==
    ASSUME misused \subseteq dead \X Users, NEW objects, NEW by \in Users, Use(objects, by)
    PROVE  misused' \subseteq dead \X Users
BY DEF Use
-----------------------------------------------------------------------------
(* What the steps of each thread leave alone                               *)

MainStep == Starting \/ Stop \/ Stopping \/ SpuriousWakeup
CallStep == Callback \/ \E m \in Msgs : MessageArrives(m)
TaskStep(w) == Task(w) \/ PublishFails(w)
LinkStep == Lose \/ Reconnect

LEMMA Steps ==
    [Next]_vars => \/ MainStep \/ CallStep \/ (\E m \in Up : Receive(m)) \/ AddRecvTask
                   \/ (\E w \in Workers : TaskStep(w)) \/ LinkStep \/ UNCHANGED vars
BY DEF Next, MainStep, CallStep, TaskStep, LinkStep

LEMMA MainFrame ==
    ASSUME MainStep
    PROVE  /\ UNCHANGED <<coming, adding, queue, worker, topic, losses, history>>
           /\ call' = call \/ (LeaveLoop /\ call' = [call EXCEPT !.serving = FALSE])
           /\ \/ buffer' = buffer \/ buffer' = NoBytes
              \/ \E d \in Dirs : buffer' = [buffer EXCEPT ![d] = <<>>]
<1>1. CASE Starting
  BY <1>1 DEF Starting, InstallSignals, StartClient, RegisterRecvCallback, Configure, PushDevice,
              StartDevice, StartDeviceFails, PopDevice, route, device, reader, pool, net
<1>2. CASE Stop \/ SpuriousWakeup
  BY <1>2 DEF Stop, SpuriousWakeup, device, reader, pool, net
<1>3. CASE LeaveLoop \/ StopDevice \/ CloseFd \/ JoinReader \/ ClearDevices \/ CloseClient
  BY <1>3 DEF LeaveLoop, StopDevice, CloseFd, JoinReader, ClearDevices, CloseClient, device, reader,
              pool, net
<1>4. CASE ClearBuffer
  BY <1>4 DEF ClearBuffer, Dirs, device, reader, pool, net
<1>5. CASE DestroyDevice \/ DestroyRoute \/ DestroyClient \/ StopPool \/ JoinPool
  BY <1>5 DEF DestroyDevice, DestroyRoute, DestroyClient, StopPool, JoinPool, device, reader, pool, net
<1> QED
  BY <1>1, <1>2, <1>3, <1>4, <1>5 DEF MainStep, Stopping

\* The main thread's way: where it is set up, it has come by one step; what it destroys
\* it destroys once.
LEMMA MainWay ==
    ASSUME MainStep
    PROVE  /\ \/ UNCHANGED <<dead, misused, overtaken>>
              \/ DestroyDevice \/ DestroyRoute \/ DestroyClient \/ JoinPool
           /\ mpc' \in Stages => UNCHANGED buffer /\ mpc \in Stages
           /\ link' = link \/ StartClient \/ link' = Closed \/ DestroyClient
<1> USE DEF Goto, Stages
<1>1. CASE Starting
  BY <1>1 DEF Starting, InstallSignals, StartClient, RegisterRecvCallback, Configure, PushDevice,
              StartDevice, StartDeviceFails, PopDevice, device, net, ends
<1>2. CASE Stop \/ SpuriousWakeup
  BY <1>2 DEF Stop, SpuriousWakeup, device, net, ends
<1>3. CASE LeaveLoop \/ StopDevice \/ CloseFd \/ JoinReader \/ ClearDevices \/ CloseClient
  BY <1>3 DEF LeaveLoop, StopDevice, CloseFd, JoinReader, ClearDevices, CloseClient, net, ends
<1>4. CASE ClearBuffer
  BY <1>4 DEF ClearBuffer, net, ends
<1>5. CASE DestroyDevice \/ DestroyRoute \/ DestroyClient \/ StopPool \/ JoinPool
  BY <1>5 DEF DestroyDevice, DestroyRoute, DestroyClient, StopPool, JoinPool, net, ends
<1> QED
  BY <1>1, <1>2, <1>3, <1>4, <1>5 DEF MainStep, Stopping

LEMMA CallFrame ==
    ASSUME CallStep
    PROVE  /\ UNCHANGED <<mpc, g_running, devices_, Recvcb_, isRunning_, open, coming, adding, worker,
                          missed, link, losses, history, dead, overtaken>>
           /\ buffer' = buffer \/ (WriteStores /\ Fits("send", Packet(call.msg)))
           /\ queue' = queue \/ (AddSendTask /\ queue' = Append(queue, "send"))
           /\ topic' \subseteq topic
<1>1. CASE FindDevice \/ WriteTests
  BY <1>1 DEF FindDevice, WriteTests, route, device, reader, pool, net
<1>2. CASE WriteStores
  BY <1>2 DEF WriteStores, route, reader, pool, net
<1>3. CASE AddSendTask
  BY <1>3 DEF AddSendTask, route, device, reader, net
<1>4. ASSUME NEW m \in Msgs, MessageArrives(m)
      PROVE  /\ UNCHANGED <<mpc, g_running, devices_, Recvcb_, isRunning_, open, coming, adding, worker,
                            missed, link, losses, history, dead, overtaken, buffer, queue>>
             /\ topic' \subseteq topic
  BY <1>4 DEF MessageArrives, route, device, reader, pool, ends
<1> QED
  BY <1>1, <1>2, <1>3, <1>4 DEF CallStep, Callback

LEMMA ReceiveFrame ==
    ASSUME NEW m \in Up, Receive(m)
    PROVE  UNCHANGED <<mpc, g_running, devices_, Recvcb_, isRunning_, open, queue, worker, missed, link,
                       topic, losses, call, line, published, torn, behind, overlapped, dead, misused,
                       overtaken>>
BY DEF Receive, route, pool, net, ends

LEMMA AddFrame ==
    ASSUME AddRecvTask
    PROVE  UNCHANGED <<mpc, g_running, devices_, Recvcb_, isRunning_, open, buffer, coming, worker,
                       missed, link, topic, losses, call, line, published, failed, torn, behind,
                       overlapped, dead, misused, overtaken>>
BY DEF AddRecvTask, route, device, net, history, ends

LEMMA TaskFrame ==
    ASSUME NEW w \in Workers, TaskStep(w)
    PROVE  /\ UNCHANGED <<mpc, g_running, devices_, Recvcb_, isRunning_, open, coming, adding, missed,
                          link, losses, call, dead, overtaken>>
           /\ queue' = queue \/ TaskBegins(w)
           /\ buffer' = buffer \/ ReadPacket(w)
<1>1. CASE TaskBegins(w) \/ PeekHeader(w) \/ TestSize(w)
  BY <1>1 DEF TaskBegins, PeekHeader, TestSize, route, device, reader, net
<1>2. CASE ReadPacket(w)
  BY <1>2 DEF ReadPacket, route, reader, net
<1>3. CASE Deliver(w) \/ Transmit(w)
  BY <1>3 DEF Deliver, Transmit, route, device, reader, net
<1>4. CASE Published(w) \/ PublishFails(w)
  BY <1>4 DEF Published, PublishFails, route, device, reader, net
<1> QED
  BY <1>1, <1>2, <1>3, <1>4 DEF TaskStep, Task

LEMMA LinkFrame ==
    ASSUME LinkStep
    PROVE  /\ UNCHANGED <<mpc, g_running, devices_, Recvcb_, isRunning_, open, buffer, coming, adding,
                          queue, worker, missed, topic, call, history, dead, misused, overtaken>>
           /\ link \in {"up", "down"} /\ link' \in {"up", "down"}
BY DEF LinkStep, Lose, Reconnect, route, device, reader, pool, ends
-----------------------------------------------------------------------------
(* Type correctness                                                        *)

\* What a step may do to a buffer.
LEMMA BufferTypes ==
    ASSUME buffer \in [Dirs -> Seq(Bytes)], \A d \in Dirs : Len(buffer[d]) <= Capacity
    PROVE  /\ buffer' = NoBytes \/ (\E d \in Dirs : buffer' = [buffer EXCEPT ![d] = <<>>]) =>
                  buffer' \in [Dirs -> Seq(Bytes)] /\ \A d \in Dirs : Len(buffer'[d]) <= Capacity
           /\ \A d \in Dirs, m \in Msgs :
                  Fits(d, Packet(m)) /\ buffer' = [buffer EXCEPT ![d] = @ \o Packet(m)] =>
                      buffer' \in [Dirs -> Seq(Bytes)] /\ \A e \in Dirs : Len(buffer'[e]) <= Capacity
           /\ \A d \in Dirs, n \in Nat :
                  1 <= n /\ n <= Len(buffer[d]) /\
                  buffer' = [buffer EXCEPT ![d] = SubSeq(@, n + 1, Len(@))] =>
                      buffer' \in [Dirs -> Seq(Bytes)] /\ \A e \in Dirs : Len(buffer'[e]) <= Capacity
<1>0. Capacity \in Nat /\ \A d \in Dirs : buffer[d] \in Seq(Bytes) /\ Len(buffer[d]) \in Nat
  BY GatewayAssumption DEF GatewayAssumption
<1>1. ASSUME NEW d \in Dirs, NEW s \in Seq(Bytes), Len(s) <= Capacity, buffer' = [buffer EXCEPT ![d] = s]
      PROVE  buffer' \in [Dirs -> Seq(Bytes)] /\ \A e \in Dirs : Len(buffer'[e]) <= Capacity
  BY <1>1
<1>2. <<>> \in Seq(Bytes) /\ Len(<<>>) <= Capacity
  BY <1>0
<1>3. ASSUME buffer' = NoBytes \/ \E d \in Dirs : buffer' = [buffer EXCEPT ![d] = <<>>]
      PROVE  buffer' \in [Dirs -> Seq(Bytes)] /\ \A d \in Dirs : Len(buffer'[d]) <= Capacity
  BY <1>1, <1>2, <1>3 DEF NoBytes
<1>4. ASSUME NEW d \in Dirs, NEW m \in Msgs, Fits(d, Packet(m)),
             buffer' = [buffer EXCEPT ![d] = @ \o Packet(m)]
      PROVE  buffer' \in [Dirs -> Seq(Bytes)] /\ \A e \in Dirs : Len(buffer'[e]) <= Capacity
  <2> DEFINE s == buffer[d] \o Packet(m)
  <2>1. Packet(m) \in Seq(Bytes) /\ Len(Packet(m)) \in Nat
    BY PacketFacts
  <2>2. s \in Seq(Bytes) /\ Len(s) = Len(buffer[d]) + Len(Packet(m))
    BY <1>0, <2>1, ConcatProperties
  <2>3. Len(s) <= Capacity
    BY <1>0, <1>4, <2>1, <2>2 DEF Fits
  <2>4. buffer' = [buffer EXCEPT ![d] = s]
    BY <1>4
  <2> HIDE DEF s
  <2> QED
    BY <1>1, <2>2, <2>3, <2>4
<1>5. ASSUME NEW d \in Dirs, NEW n \in Nat, 1 <= n, n <= Len(buffer[d]),
             buffer' = [buffer EXCEPT ![d] = SubSeq(@, n + 1, Len(@))]
      PROVE  buffer' \in [Dirs -> Seq(Bytes)] /\ \A e \in Dirs : Len(buffer'[e]) <= Capacity
  <2> DEFINE s == SubSeq(buffer[d], n + 1, Len(buffer[d]))
  <2>1. n \in 1 .. Len(buffer[d])
    BY <1>0, <1>5
  <2>2. s \in Seq(Bytes) /\ Len(s) = Len(buffer[d]) - n
    BY <1>0, <2>1, InSplit
  <2>3. Len(s) <= Capacity
    BY <1>0, <1>5, <2>2
  <2>4. buffer' = [buffer EXCEPT ![d] = s]
    BY <1>5
  <2> HIDE DEF s
  <2> QED
    BY <1>1, <2>2, <2>3, <2>4
<1> QED
  BY <1>3, <1>4, <1>5

LEMMA TypeInit == Init => TypeOK
<1> SUFFICES ASSUME Init PROVE TypeOK
  OBVIOUS
<1>1. call \in CallState
  BY DEF Init, CallState, Results
<1>2. worker \in [Workers -> WorkerState]
  BY WorkerMakes DEF Init
<1>3. FlagsOK
  BY DEF Init, FlagsOK
<1>4. DataOK
  <2>1. NoBytes \in [Dirs -> Seq(Bytes)] /\ \A d \in Dirs : Len(NoBytes[d]) <= Capacity
    BY GatewayAssumption DEF GatewayAssumption, NoBytes
  <2>2. NoMsgs \in [Dirs -> SUBSET Msgs]
    BY DEF NoMsgs
  <2> QED
    BY <2>1, <2>2, UpHandled DEF Init, DataOK
<1>5. dead \subseteq Objects /\ misused \subseteq dead \X Users /\ overtaken \subseteq dead \X Users
  BY DEF Init
<1> QED
  BY <1>1, <1>2, <1>3, <1>4, <1>5 DEF TypeOK

LEMMA TypeMain == TypeOK /\ MainStep => TypeOK'
<1> SUFFICES ASSUME TypeOK, MainStep PROVE TypeOK'
  OBVIOUS
<1>1. FlagsOK'
  <2> USE DEF Goto, Closed, TypeOK, FlagsOK, route, device, reader, net
  <2>1. CASE Starting
    <3>1. CASE InstallSignals \/ StartClient \/ RegisterRecvCallback
      BY <3>1 DEF InstallSignals, StartClient, RegisterRecvCallback
    <3>2. CASE Configure \/ PushDevice \/ StartDevice
      BY <3>2 DEF Configure, PushDevice, StartDevice
    <3>3. CASE StartDeviceFails \/ PopDevice
      BY <3>3 DEF StartDeviceFails, PopDevice
    <3> QED
      BY <2>1, <3>1, <3>2, <3>3 DEF Starting
  <2>2. CASE Stop \/ SpuriousWakeup
    <3>1. /\ g_running' \in BOOLEAN
          /\ UNCHANGED <<mpc, devices_, Recvcb_, isRunning_, open, adding, link, losses>>
      BY <2>2 DEF Stop, SpuriousWakeup
    <3> QED
      BY <3>1
  <2>3. CASE LeaveLoop \/ StopDevice \/ CloseFd \/ JoinReader
    BY <2>3 DEF LeaveLoop, StopDevice, CloseFd, JoinReader
  <2>4. CASE ClearBuffer
    BY <2>4 DEF ClearBuffer
  <2>5. CASE ClearDevices \/ CloseClient
    BY <2>5 DEF ClearDevices, CloseClient
  <2>6. CASE DestroyDevice \/ DestroyRoute
    BY <2>6 DEF DestroyDevice, DestroyRoute
  <2>7. CASE DestroyClient \/ StopPool \/ JoinPool
    BY <2>7 DEF DestroyClient, StopPool, JoinPool
  <2> QED
    BY <2>1, <2>2, <2>3, <2>4, <2>5, <2>6, <2>7 DEF MainStep, Stopping
<1>2. DataOK'
  <2>1. buffer' \in [Dirs -> Seq(Bytes)] /\ \A d \in Dirs : Len(buffer'[d]) <= Capacity
    BY MainFrame, BufferTypes DEF TypeOK, DataOK
  <2>2. missed' \subseteq Workers
    <3>1. CASE Starting
      BY <3>1 DEF Starting, InstallSignals, StartClient, RegisterRecvCallback, Configure, PushDevice,
                  StartDevice, StartDeviceFails, PopDevice, pool, TypeOK, DataOK
    <3>2. CASE Stop \/ SpuriousWakeup
      BY <3>2 DEF Stop, SpuriousWakeup, pool, TypeOK, DataOK
    <3>3. CASE Stopping
      BY <3>3 DEF Stopping, LeaveLoop, StopDevice, CloseFd, JoinReader, ClearBuffer, ClearDevices,
                  CloseClient, DestroyDevice, DestroyRoute, DestroyClient, StopPool, JoinPool, pool,
                  TypeOK, DataOK
    <3> QED
      BY <3>1, <3>2, <3>3 DEF MainStep
  <2> QED
    BY <2>1, <2>2, MainFrame DEF TypeOK, DataOK, history
<1>3. call' \in CallState /\ UNCHANGED worker
  BY MainFrame, CallStates DEF TypeOK
<1>4. dead' \subseteq Objects /\ misused' \subseteq dead' \X Users /\ overtaken' \subseteq dead' \X Users
  <2> USE DEF TypeOK, Objects, Users, When, Overtakes
  <2>1. CASE UNCHANGED <<dead, misused, overtaken>>
    BY <2>1
  <2>2. CASE DestroyDevice
    BY <2>2 DEF DestroyDevice
  <2>3. CASE DestroyRoute
    BY <2>3 DEF DestroyRoute, Use
  <2>4. CASE DestroyClient
    BY <2>4 DEF DestroyClient
  <2>5. CASE JoinPool
    BY <2>5 DEF JoinPool
  <2> QED
    BY <2>1, <2>2, <2>3, <2>4, <2>5, MainWay
<1> QED
  BY <1>1, <1>2, <1>3, <1>4 DEF TypeOK

LEMMA TypeCall == TypeOK /\ CallStep => TypeOK'
<1> SUFFICES ASSUME TypeOK, CallStep PROVE TypeOK'
  OBVIOUS
<1>1. FlagsOK'
  BY CallFrame DEF TypeOK, FlagsOK
<1>2. call' \in CallState
  <2>0. {"noDevice", "notRunning", "accepted", "full", "none", "noCallback"} \subseteq Results
    BY DEF Results
  <2>1. ASSUME NEW m \in Msgs, MessageArrives(m) PROVE call' \in CallState
    <3>1. PICK p \in {"idle", "find"}, r \in Results, s \in BOOLEAN :
              call' = [pc |-> p, msg |-> m, result |-> r, serving |-> s]
      BY <2>0, <2>1 DEF MessageArrives
    <3> QED
      BY <3>1, CallReturns
  <2>2. CASE Callback
    <3>1. /\ call \in CallState /\ call.pc \in {"find", "write", "store", "add"}
          /\ call.msg \in Msgs /\ call.serving \in BOOLEAN
      BY <2>2, CallStates DEF TypeOK, Callback, FindDevice, WriteTests, WriteStores, AddSendTask
    <3>2. ASSUME NEW r \in Results, Returns(r) PROVE call' \in CallState
      BY <3>1, <3>2, CallReturns DEF Returns
    <3>3. CASE FindDevice
      BY <2>0, <3>1, <3>2, <3>3, CallStates DEF FindDevice
    <3>4. CASE WriteTests
      BY <2>0, <3>1, <3>2, <3>4, CallStates DEF WriteTests
    <3>5. CASE WriteStores
      BY <2>0, <3>1, <3>2, <3>5, CallStates DEF WriteStores
    <3>6. CASE AddSendTask
      BY <2>0, <3>2, <3>6 DEF AddSendTask
    <3> QED
      BY <2>2, <3>3, <3>4, <3>5, <3>6 DEF Callback
  <2> QED
    BY <2>1, <2>2 DEF CallStep
<1>3. DataOK'
  <2>1. buffer' \in [Dirs -> Seq(Bytes)] /\ \A d \in Dirs : Len(buffer'[d]) <= Capacity
    <3>1. CASE WriteStores /\ Fits("send", Packet(call.msg))
      <4>1. call.msg \in Msgs /\ "send" \in Dirs
        BY <3>1, CallStates DEF WriteStores, TypeOK, Dirs
      <4>2. buffer' = [buffer EXCEPT !["send"] = @ \o Packet(call.msg)]
        BY <3>1 DEF WriteStores
      <4> QED
        BY <3>1, <4>1, <4>2, BufferTypes DEF TypeOK, DataOK
    <3>2. CASE buffer' = buffer
      BY <3>2 DEF TypeOK, DataOK
    <3> QED
      BY <3>1, <3>2, CallFrame
  <2>2. queue' \in Seq(Dirs)
    <3>1. queue \in Seq(Dirs) /\ "send" \in Dirs
      BY DEF TypeOK, DataOK, Dirs
    <3>2. Append(queue, "send") \in Seq(Dirs)
      BY <3>1, AppendProperties
    <3> QED
      BY <3>1, <3>2, CallFrame
  <2> QED
    BY <2>1, <2>2, CallFrame DEF TypeOK, DataOK, history
<1>4. misused' \subseteq dead \X Users
  <2>1. CASE Callback
    BY <2>1, UseType DEF Callback, FindDevice, WriteTests, WriteStores, AddSendTask, TypeOK, Users
  <2>2. ASSUME NEW m \in Msgs, MessageArrives(m) PROVE misused' \subseteq dead \X Users
    BY <2>2 DEF MessageArrives, ends, TypeOK
  <2> QED
    BY <2>1, <2>2 DEF CallStep
<1> QED
  BY <1>1, <1>2, <1>3, <1>4, CallFrame DEF TypeOK

LEMMA TypeReceive == ASSUME NEW m \in Up PROVE TypeOK /\ Receive(m) => TypeOK'
<1> SUFFICES ASSUME TypeOK, Receive(m) PROVE TypeOK'
  OBVIOUS
<1>0. m \in Msgs /\ "recv" \in Dirs
  BY DEF Msgs, Dirs
<1>1. FlagsOK'
  BY ReceiveFrame DEF TypeOK, FlagsOK, Receive
<1>2. buffer' \in [Dirs -> Seq(Bytes)] /\ \A d \in Dirs : Len(buffer'[d]) <= Capacity
  <2>1. CASE Fits("recv", Packet(m)) /\ buffer' = [buffer EXCEPT !["recv"] = @ \o Packet(m)]
    BY <1>0, <2>1, BufferTypes DEF TypeOK, DataOK
  <2>2. CASE UNCHANGED buffer
    BY <2>2 DEF TypeOK, DataOK
  <2> QED
    BY <2>1, <2>2 DEF Receive
<1>3. failed' \in [Dirs -> SUBSET Msgs] /\ coming' \subseteq Up
  BY <1>0 DEF TypeOK, DataOK, Receive
<1> QED
  BY <1>1, <1>2, <1>3, ReceiveFrame DEF TypeOK, DataOK

LEMMA TypeAdd == TypeOK /\ AddRecvTask => TypeOK'
<1> SUFFICES ASSUME TypeOK, AddRecvTask PROVE TypeOK'
  OBVIOUS
<1>1. FlagsOK'
  <2>1. adding' \in BOOLEAN
    BY DEF AddRecvTask
  <2> QED
    BY <2>1, AddFrame DEF TypeOK, FlagsOK
<1>2. queue \in Seq(Dirs) /\ "recv" \in Dirs
  BY DEF TypeOK, DataOK, Dirs
<1>3. Append(queue, "recv") \in Seq(Dirs)
  BY <1>2, AppendProperties
<1>4. queue' \in Seq(Dirs)
  BY <1>3 DEF AddRecvTask
<1> QED
  BY <1>1, <1>4, AddFrame DEF TypeOK, DataOK

\* A read that finds too little takes it all; otherwise it takes what it asked for.
LEMMA ReadEffect ==
    ASSUME TypeOK, NEW w \in Workers, ReadPacket(w)
    PROVE  /\ worker[w].pc = "read"
           /\ \E d \in Dirs, n \in 3 .. 513 :
                /\ d = worker[w].dir /\ n = worker[w].total
                /\ buffer[d] \in Seq(Bytes) /\ Len(buffer[d]) \in Nat
                /\ \/ /\ Len(buffer[d]) < n
                      /\ buffer' = [buffer EXCEPT ![d] = <<>>]
                      /\ torn' = [torn EXCEPT ![d] = @ \cup In(buffer[d])]
                      /\ Becomes(w, Idle)
                   \/ LET block == SubSeq(buffer[d], 1, n)
                      IN /\ n \in 1 .. Len(buffer[d])
                         /\ block \in Seq(Bytes) /\ In(block) \subseteq Msgs
                         /\ buffer' = [buffer EXCEPT ![d] = SubSeq(@, n + 1, Len(@))]
                         /\ torn' = [torn EXCEPT ![d] = @ \cup (In(block) \ Carried(d, block))]
                         /\ Becomes(w, Doing("hand", d, 0, block))
<1>1. worker[w].pc = "read" /\ worker[w] \in WorkerState
  BY DEF ReadPacket, TypeOK
<1>2. PICK d \in Dirs, n \in 3 .. 513 : d = worker[w].dir /\ n = worker[w].total
  BY <1>1, WorkerStates
<1>3. buffer[d] \in Seq(Bytes) /\ Len(buffer[d]) \in Nat
  BY <1>2 DEF TypeOK, DataOK
<1>4. CASE Len(buffer[d]) < n
  BY <1>1, <1>2, <1>3, <1>4 DEF ReadPacket, TaskEnds
<1>5. CASE ~(Len(buffer[d]) < n)
  <2>1. n \in 1 .. Len(buffer[d])
    <3>1. \A k \in 3 .. 513, l \in Nat : ~(l < k) => k \in 1 .. l
      OBVIOUS
    <3> QED
      BY <1>3, <1>5, <3>1
  <2>2. SubSeq(buffer[d], 1, n) \in Seq(Bytes)
    BY <1>3, <2>1, InSplit
  <2>3. In(SubSeq(buffer[d], 1, n)) \subseteq Msgs
    BY <1>2, <2>2, ReadAsType
  <2>4. /\ buffer' = [buffer EXCEPT ![d] = SubSeq(@, n + 1, Len(@))]
        /\ torn' = [torn EXCEPT ![d] = @ \cup (In(SubSeq(buffer[d], 1, n))
                                                   \ Carried(d, SubSeq(buffer[d], 1, n)))]
        /\ Becomes(w, Doing("hand", d, 0, SubSeq(buffer[d], 1, n)))
    BY <1>2, <1>5 DEF ReadPacket, GoesOn
  <2> QED
    BY <1>1, <1>2, <1>3, <2>1, <2>2, <2>3, <2>4
<1> QED
  BY <1>4, <1>5

\* The worker's state, and the sets its step adds to.
LEMMA TypeWorker ==
    ASSUME TypeOK, NEW w \in Workers, TaskStep(w)
    PROVE  worker' \in [Workers -> WorkerState] /\ \E s \in WorkerState : Becomes(w, s)
<1>0. worker \in [Workers -> WorkerState] /\ worker[w] \in WorkerState /\ worker[w].dir \in Dirs
  BY WorkerStates DEF TypeOK
<1> SUFFICES \E s \in WorkerState : Becomes(w, s)
  BY <1>0, BecomesOne
<1> USE DEF TaskEnds, GoesOn
<1>1. CASE TaskBegins(w)
  <2>1. Head(queue) \in Dirs
    BY <1>1, HeadTailProperties DEF TaskBegins, TypeOK, DataOK
  <2> QED
    BY <1>1, <2>1, WorkerMakes DEF TaskBegins
<1>2. CASE PeekHeader(w)
  <2> DEFINE d == worker[w].dir
  <2>1. CASE TaskEnds(w)
    BY <2>1, WorkerMakes
  <2>2. CASE Len(buffer[d]) >= 3
    <3>1. buffer[d] \in Seq(Bytes) /\ Len(buffer[d]) \in Nat
      BY <1>0 DEF TypeOK, DataOK
    <3>2. buffer[d][1] \in Bytes
      BY <2>2, <3>1
    <3>3. buffer[d][1][1] \in Msgs
      BY <3>2 DEF Bytes
    <3>4. TotalLen(d) \subseteq 3 .. 513
      BY <3>3, Sizes, GatewayAssumption DEF TotalLen, GatewayAssumption
    <3>5. PICK n \in TotalLen(d) : GoesOn(w, "size", n, <<>>)
      BY <1>2, <2>2, <3>1 DEF PeekHeader
    <3> QED
      BY <1>0, <3>4, <3>5, WorkerMakes
  <2>3. Len(buffer[d]) < 3 \/ Len(buffer[d]) >= 3
    BY <1>0 DEF TypeOK, DataOK
  <2> QED
    BY <1>2, <2>1, <2>2, <2>3 DEF PeekHeader
<1>3. CASE TestSize(w)
  BY <1>0, <1>3, WorkerMakes, WorkerStates DEF TestSize
<1>4. CASE ReadPacket(w)
  BY <1>4, ReadEffect, WorkerMakes
<1>5. CASE Deliver(w)
  <2>1. worker[w].block \in Seq(Bytes) /\ worker[w].dir = "recv" /\ "recv" \in Dirs
    BY <1>0, <1>5, WorkerStates DEF Deliver, Dirs
  <2>2. ReadAs("recv", worker[w].block) \subseteq Msgs
    BY <2>1, ReadAsType
  <2>3. CASE GoesOn(w, "peek", 0, <<>>)
    BY <1>0, <2>3, WorkerMakes
  <2>4. ASSUME NEW m \in ReadAs("recv", worker[w].block), GoesOn(w, "token", 0, Packet(m))
        PROVE  \E s \in WorkerState : Becomes(w, s)
    BY <2>1, <2>2, <2>4, WorkerMakes
  <2> QED
    BY <1>5, <2>3, <2>4 DEF Deliver
<1>6. CASE Published(w) \/ PublishFails(w)
  BY <1>0, <1>6, WorkerMakes DEF Published, PublishFails
<1>7. CASE Transmit(w)
  BY <1>0, <1>7, WorkerMakes DEF Transmit
<1> QED
  BY <1>1, <1>2, <1>3, <1>4, <1>5, <1>6, <1>7 DEF TaskStep, Task

LEMMA TypeHistory ==
    ASSUME TypeOK, NEW w \in Workers, TaskStep(w)
    PROVE  /\ line' \subseteq Msgs /\ published' \subseteq Msgs /\ behind' \subseteq Msgs
           /\ topic' \subseteq Msgs /\ overlapped' \subseteq Dirs
           /\ failed' \in [Dirs -> SUBSET Msgs] /\ torn' \in [Dirs -> SUBSET Msgs]
<1>0. worker[w] \in WorkerState /\ worker[w].dir \in Dirs /\ "recv" \in Dirs /\ "send" \in Dirs
  BY WorkerStates DEF TypeOK, Dirs
<1>1. \A d \in Dirs : buffer[d] \in Seq(Bytes) /\ In(buffer[d]) \subseteq Msgs
  BY ReadAsType DEF TypeOK, DataOK
<1>2. worker[w].pc = "hand" =>
          /\ worker[w].block \in Seq(Bytes)
          /\ \A d \in Dirs : /\ Carried(d, worker[w].block) \subseteq Msgs
                             /\ ReadAs(d, worker[w].block) \subseteq Msgs
  BY <1>0, WorkerStates, ReadAsType
<1>3. CASE UNCHANGED history
  <2>1. topic' \subseteq Msgs
    <3>1. CASE UNCHANGED topic
      BY <3>1 DEF TypeOK, DataOK
    <3>2. CASE Published(w)
      <4>1. PICK m \in Msgs : worker[w].block = Packet(m)
        BY <1>0, <3>2, WorkerStates DEF Published
      <4>2. worker[w].block[1][1] = m
        BY <4>1, Sizes, PacketFacts
      <4> QED
        BY <3>2, <4>2 DEF Published, Echo, TypeOK, DataOK
    <3> QED
      BY <3>1, <3>2 DEF TaskStep, Task, TaskBegins, PeekHeader, TestSize, ReadPacket, Deliver,
                        PublishFails, Transmit, net
  <2> QED
    BY <1>3, <2>1 DEF history, TypeOK, DataOK
<1>4. CASE TaskBegins(w)
  <2>1. Head(queue) \in Dirs
    BY <1>4, HeadTailProperties DEF TaskBegins, TypeOK, DataOK
  <2> QED
    BY <1>4, <2>1 DEF TaskBegins, net, TypeOK, DataOK
<1>5. CASE ReadPacket(w)
  <2>1. PICK d \in Dirs, s \in SUBSET Msgs : torn' = [torn EXCEPT ![d] = @ \cup s]
    BY <1>1, <1>5, ReadEffect
  <2>2. torn' \in [Dirs -> SUBSET Msgs]
    BY <2>1 DEF TypeOK, DataOK
  <2> QED
    BY <1>5, <2>2 DEF ReadPacket, net, TypeOK, DataOK
<1>6. CASE Deliver(w)
  BY <1>0, <1>2, <1>6 DEF Deliver, net, TypeOK, DataOK
<1>7. CASE Transmit(w)
  <2>1. line' \subseteq Msgs
    BY <1>0, <1>2, <1>7 DEF Transmit, TypeOK, DataOK
  <2>2. behind' \subseteq Msgs
    BY <1>0, <1>1, <1>7 DEF Transmit, TypeOK, DataOK
  <2>3. failed' \in [Dirs -> SUBSET Msgs]
    BY <1>0, <1>2, <1>7 DEF Transmit, TypeOK, DataOK
  <2> QED
    BY <1>7, <2>1, <2>2, <2>3 DEF Transmit, net, TypeOK, DataOK
<1>8. CASE Published(w) \/ PublishFails(w)
  <2>1. PICK m \in Msgs : worker[w].block = Packet(m)
    BY <1>0, <1>8, WorkerStates DEF Published, PublishFails
  <2>2. worker[w].block[1][1] = m /\ In(worker[w].block) = {m}
    BY <2>1, Sizes, PacketFacts
  <2>3. CASE Published(w)
    BY <2>2, <2>3 DEF Published, Echo, TypeOK, DataOK
  <2>4. CASE PublishFails(w)
    BY <1>0, <2>2, <2>4 DEF PublishFails, net, TypeOK, DataOK
  <2> QED
    BY <1>8, <2>3, <2>4
<1> QED
  BY <1>3, <1>4, <1>5, <1>6, <1>7, <1>8 DEF TaskStep, Task, PeekHeader, TestSize

LEMMA TypeTask == ASSUME NEW w \in Workers PROVE TypeOK /\ TaskStep(w) => TypeOK'
<1> SUFFICES ASSUME TypeOK, TaskStep(w) PROVE TypeOK'
  OBVIOUS
<1>1. FlagsOK'
  BY TaskFrame DEF TypeOK, FlagsOK
<1>2. buffer' \in [Dirs -> Seq(Bytes)] /\ \A d \in Dirs : Len(buffer'[d]) <= Capacity
  <2>1. CASE ReadPacket(w)
    <3>1. PICK d \in Dirs, n \in 3 .. 513 :
              \/ buffer' = [buffer EXCEPT ![d] = <<>>]
              \/ n \in 1 .. Len(buffer[d]) /\ buffer' = [buffer EXCEPT ![d] = SubSeq(@, n + 1, Len(@))]
      BY <2>1, ReadEffect
    <3>2. CASE buffer' = [buffer EXCEPT ![d] = <<>>]
      BY <3>2, BufferTypes DEF TypeOK, DataOK
    <3>3. CASE n \in 1 .. Len(buffer[d]) /\ buffer' = [buffer EXCEPT ![d] = SubSeq(@, n + 1, Len(@))]
      <4>1. n \in Nat /\ 1 <= n /\ n <= Len(buffer[d])
        BY <3>3
      <4> QED
        BY <3>3, <4>1, BufferTypes DEF TypeOK, DataOK
    <3> QED
      BY <3>1, <3>2, <3>3
  <2>2. CASE buffer' = buffer
    BY <2>2 DEF TypeOK, DataOK
  <2> QED
    BY <2>1, <2>2, TaskFrame
<1>3. queue' \in Seq(Dirs)
  <2>1. CASE TaskBegins(w)
    BY <2>1, HeadTailProperties DEF TaskBegins, TypeOK, DataOK
  <2> QED
    BY <2>1, TaskFrame DEF TypeOK, DataOK
<1>4. misused' \subseteq dead \X Users
  <2>1. \E objects : Use(objects, "task")
    BY DEF TaskStep, Task, TaskBegins, PeekHeader, TestSize, ReadPacket, Deliver, Published,
           PublishFails, Transmit
  <2> QED
    BY <2>1, UseType DEF TypeOK, Users
<1> QED
  BY <1>1, <1>2, <1>3, <1>4, TaskFrame, TypeWorker, TypeHistory DEF TypeOK, DataOK

LEMMA TypeStep == TypeOK /\ [Next]_vars => TypeOK'
<1> SUFFICES ASSUME TypeOK, [Next]_vars PROVE TypeOK'
  OBVIOUS
<1>1. CASE LinkStep
  <2>1. link' \in {"new", "up", "down", "off"} /\ losses' \in Nat
    BY <1>1 DEF LinkStep, Lose, Reconnect, TypeOK, FlagsOK
  <2> QED
    BY <1>1, <2>1, LinkFrame DEF TypeOK, FlagsOK, DataOK, history
<1>2. CASE UNCHANGED vars
  BY <1>2 DEF TypeOK, FlagsOK, DataOK, vars, route, device, reader, pool, net, history, ends
<1> QED
  BY <1>1, <1>2, Steps, TypeMain, TypeCall, TypeReceive, TypeAdd, TypeTask
-----------------------------------------------------------------------------
(* Where the main thread is, what is set up, what is destroyed             *)

LEMMA SetUpStep == SetUpInv /\ [Next]_vars => SetUpInv'
<1> SUFFICES ASSUME SetUpInv, [Next]_vars PROVE SetUpInv'
  OBVIOUS
<1>1. CASE Starting
  <2> USE DEF SetUpInv, Goto, route, device, reader
  <2>1. CASE InstallSignals \/ StartClient \/ RegisterRecvCallback \/ Configure
    BY <2>1 DEF InstallSignals, StartClient, RegisterRecvCallback, Configure
  <2>2. CASE PushDevice \/ StartDevice \/ StartDeviceFails \/ PopDevice
    BY <2>2 DEF PushDevice, StartDevice, StartDeviceFails, PopDevice
  <2> QED
    BY <1>1, <2>1, <2>2 DEF Starting
<1>2. CASE Stopping
  <2> USE DEF SetUpInv, Goto, route, device, reader
  <2>1. CASE LeaveLoop \/ StopDevice \/ CloseFd \/ JoinReader
    BY <2>1 DEF LeaveLoop, StopDevice, CloseFd, JoinReader
  <2>2. CASE ClearBuffer \/ ClearDevices \/ CloseClient
    BY <2>2 DEF ClearBuffer, ClearDevices, CloseClient
  <2>3. CASE DestroyDevice \/ DestroyRoute \/ DestroyClient \/ StopPool \/ JoinPool
    BY <2>3 DEF DestroyDevice, DestroyRoute, DestroyClient, StopPool, JoinPool
  <2> QED
    BY <1>2, <2>1, <2>2, <2>3 DEF Stopping
<1>3. CASE UNCHANGED <<mpc, devices_, Recvcb_, isRunning_, adding>>
  BY <1>3 DEF SetUpInv
<1>4. CASE Stop \/ SpuriousWakeup \/ UNCHANGED vars
  BY <1>3, <1>4 DEF Stop, SpuriousWakeup, route, device, reader, vars
<1>5. CASE CallStep \/ LinkStep
  BY <1>3, <1>5, CallFrame, LinkFrame
<1>6. ASSUME NEW m \in Up, Receive(m) PROVE SetUpInv'
  <2>1. mpc \in {"loop", "stopDevice", "closeFd", "joinReader"}
    BY <1>6 DEF Receive
  <2> QED
    BY <1>6, <2>1, ReceiveFrame DEF SetUpInv
<1>7. CASE AddRecvTask
  <2>1. ~adding'
    BY <1>7 DEF AddRecvTask
  <2> QED
    BY <1>7, <2>1, AddFrame DEF SetUpInv
<1>8. ASSUME NEW w \in Workers, TaskStep(w) PROVE SetUpInv'
  BY <1>3, <1>8, TaskFrame
<1> QED
  BY <1>1, <1>2, <1>4, <1>5, <1>6, <1>7, <1>8, Steps DEF MainStep

LEMMA DeadStep == DeadInv /\ [Next]_vars => DeadInv'
<1> SUFFICES ASSUME DeadInv, [Next]_vars PROVE DeadInv'
  OBVIOUS
<1>1. CASE Starting
  <2> USE DEF DeadInv, Goto, ends
  <2>1. CASE InstallSignals \/ StartClient \/ RegisterRecvCallback \/ Configure
    BY <2>1 DEF InstallSignals, StartClient, RegisterRecvCallback, Configure
  <2>2. CASE PushDevice \/ StartDevice \/ StartDeviceFails \/ PopDevice
    BY <2>2 DEF PushDevice, StartDevice, StartDeviceFails, PopDevice
  <2> QED
    BY <1>1, <2>1, <2>2 DEF Starting
<1>2. CASE Stopping
  <2> USE DEF DeadInv, Goto, ends
  <2>1. CASE LeaveLoop \/ StopDevice \/ CloseFd \/ JoinReader
    BY <2>1 DEF LeaveLoop, StopDevice, CloseFd, JoinReader
  <2>2. CASE ClearBuffer \/ ClearDevices \/ CloseClient
    BY <2>2 DEF ClearBuffer, ClearDevices, CloseClient
  <2>3. CASE DestroyDevice \/ DestroyRoute \/ DestroyClient \/ StopPool \/ JoinPool
    BY <2>3 DEF DestroyDevice, DestroyRoute, DestroyClient, StopPool, JoinPool
  <2> QED
    BY <1>2, <2>1, <2>2, <2>3 DEF Stopping
<1>3. CASE UNCHANGED <<mpc, dead>>
  BY <1>3 DEF DeadInv
<1>4. CASE Stop \/ SpuriousWakeup \/ UNCHANGED vars
  BY <1>3, <1>4 DEF Stop, SpuriousWakeup, ends, vars
<1>5. CASE CallStep \/ LinkStep \/ AddRecvTask
  BY <1>3, <1>5, CallFrame, LinkFrame, AddFrame
<1>6. ASSUME NEW m \in Up, Receive(m) PROVE DeadInv'
  BY <1>3, <1>6, ReceiveFrame
<1>7. ASSUME NEW w \in Workers, TaskStep(w) PROVE DeadInv'
  BY <1>3, <1>7, TaskFrame
<1> QED
  BY <1>1, <1>2, <1>4, <1>5, <1>6, <1>7, Steps DEF MainStep
-----------------------------------------------------------------------------
(* No dead object is used                                                  *)

\* A use that is excused keeps every misuse excused.
LEMMA ExcusedUse ==
    ASSUME NEW objects, NEW by, Use(objects, by), overtaken \subseteq overtaken',
           \A use \in misused : Excused(use[1], use[2]),
           \A o \in objects \cap dead : Excused(o, by)
    PROVE  \A use \in misused' : Excused(use[1], use[2])'
BY DEF Use, Excused

\* A worker that does not begin a task stays in its loop or leaves it.
LEMMA LoopAfterTask ==
    ASSUME TypeOK, NEW w \in Workers, TaskStep(w), ~TaskBegins(w)
    PROVE  /\ worker[w].pc # "idle" /\ (worker'[w].pc = "idle" \/ worker'[w].dir = worker[w].dir)
           /\ \A v \in Workers \ {w} : worker'[v] = worker[v]
<1>0. worker \in [Workers -> WorkerState]
  BY DEF TypeOK
<1>1. worker[w].pc # "idle" /\ (TaskEnds(w) \/ \E p, n, b : GoesOn(w, p, n, b))
  BY DEF TaskStep, Task, PeekHeader, TestSize, ReadPacket, Deliver, Published, PublishFails, Transmit
<1>2. CASE TaskEnds(w)
  BY <1>0, <1>1, <1>2, BecomesOne, DoingFields DEF TaskEnds, Idle
<1>3. ASSUME NEW p, NEW n, NEW b, GoesOn(w, p, n, b)
      PROVE  worker'[w].dir = worker[w].dir /\ \A v \in Workers \ {w} : worker'[v] = worker[v]
  BY <1>0, <1>3, BecomesOne, DoingFields DEF GoesOn
<1> QED
  BY <1>1, <1>2, <1>3

\* Tasks under way come from tasks under way, or are added.
LEMMA UnderWayAfterTask ==
    ASSUME TypeOK, NEW w \in Workers, TaskStep(w), NEW d \in Dirs, UnderWay(d)'
    PROVE  UnderWay(d)
<1>0. worker \in [Workers -> WorkerState] /\ queue \in Seq(Dirs)
  BY DEF TypeOK, DataOK
<1>1. CASE TaskBegins(w)
  <2>1. /\ queue # <<>> /\ queue' = Tail(queue)
        /\ Becomes(w, Doing("peek", Head(queue), 0, <<>>))
    BY <1>1 DEF TaskBegins
  <2>2. /\ Len(queue) \in Nat \ {0} /\ Head(queue) = queue[1] /\ 1 \in DOMAIN queue
        /\ \A k \in DOMAIN queue' : queue'[k] = queue[k + 1] /\ k + 1 \in DOMAIN queue
    BY <1>0, <2>1
  <2>3. worker'[w].dir = Head(queue) /\ \A v \in Workers \ {w} : worker'[v] = worker[v]
    BY <1>0, <2>1, BecomesOne, DoingFields
  <2>4. CASE \E k \in DOMAIN queue' : queue'[k] = d
    BY <2>2, <2>4 DEF UnderWay
  <2>5. CASE InLoop(d)' # {}
    <3>1. PICK v \in Workers : worker'[v].pc # "idle" /\ worker'[v].dir = d
      BY <2>5 DEF InLoop
    <3>2. CASE v = w
      BY <2>2, <2>3, <3>1, <3>2 DEF UnderWay
    <3>3. CASE v # w
      BY <2>3, <3>1, <3>3 DEF UnderWay, InLoop
    <3> QED
      BY <3>2, <3>3
  <2> QED
    BY <2>4, <2>5 DEF UnderWay
<1>2. CASE ~TaskBegins(w)
  BY <1>2, TaskFrame, LoopAfterTask DEF UnderWay, InLoop
<1> QED
  BY <1>1, <1>2

LEMMA UnderWayUnchanged ==
    ASSUME UNCHANGED <<queue, worker>>
    PROVE  \A d \in Dirs : UnderWay(d)' <=> UnderWay(d)
BY DEF UnderWay, InLoop

LEMMA UnderWayAppend ==
    ASSUME queue \in Seq(Dirs), NEW e \in Dirs, queue' = Append(queue, e), UNCHANGED worker,
           NEW d \in Dirs, UnderWay(d)'
    PROVE  d = e \/ UnderWay(d)
<1>1. /\ Len(queue') = Len(queue) + 1 /\ Len(queue) \in Nat /\ queue'[Len(queue) + 1] = e
      /\ DOMAIN queue' = 1 .. Len(queue) + 1 /\ DOMAIN queue = 1 .. Len(queue)
      /\ \A k \in 1 .. Len(queue) : queue'[k] = queue[k]
  BY AppendProperties
<1>2. \A k \in 1 .. Len(queue) + 1 : k \in 1 .. Len(queue) \/ k = Len(queue) + 1
  BY <1>1
<1> QED
  BY <1>1, <1>2 DEF UnderWay, InLoop

LEMMA ExcusedStays ==
    ASSUME overtaken \subseteq overtaken'
    PROVE  /\ \A o, b : Excused(o, b) => Excused(o, b)'
           /\ Excused("device", "call") => Excused("device", "task")
BY DEF Excused

\* A worker's step uses the device while a task is under way, and the route or the client
\* while one of recvTask is.
LEMMA TaskUses ==
    ASSUME TypeOK, NEW w \in Workers, TaskStep(w)
    PROVE  \/ UnderWay("recv") /\ \E o \in SUBSET {"device", "route", "client"} : Use(o, "task")
           \/ UnderWay("send") /\ Use({"device"}, "task")
<1>0. worker[w] \in WorkerState /\ worker[w].dir \in Dirs /\ queue \in Seq(Dirs)
  BY WorkerStates DEF TypeOK, DataOK
<1>1. CASE TaskBegins(w)
  <2>1. queue # <<>> /\ Use({"device"}, "task")
    BY <1>1 DEF TaskBegins
  <2>2. 1 \in DOMAIN queue /\ queue[1] \in Dirs
    BY <1>0, <2>1
  <2> QED
    BY <2>1, <2>2 DEF UnderWay, Dirs
<1>2. CASE PeekHeader(w) \/ TestSize(w) \/ ReadPacket(w) \/ Transmit(w)
  <2>1. Use({"device"}, "task") /\ w \in InLoop(worker[w].dir)
    BY <1>2 DEF PeekHeader, TestSize, ReadPacket, Transmit, InLoop
  <2> QED
    BY <1>0, <2>1 DEF UnderWay, Dirs
<1>3. CASE Deliver(w) \/ Published(w) \/ PublishFails(w)
  <2>1. worker[w].pc # "idle" /\ worker[w].dir = "recv"
    BY <1>0, <1>3, WorkerStates DEF Deliver, Published, PublishFails
  <2>2. UnderWay("recv")
    BY <2>1 DEF UnderWay, InLoop
  <2>3. \E o \in SUBSET {"device", "route", "client"} : Use(o, "task")
    BY <1>3 DEF Deliver, Published, PublishFails
  <2> QED
    BY <2>2, <2>3
<1> QED
  BY <1>1, <1>2, <1>3 DEF TaskStep, Task

LEMMA GoneMain == IInv /\ MainStep => GoneInv'
<1> SUFFICES ASSUME IInv, MainStep PROVE GoneInv'
  OBVIOUS
<1>1. /\ UNCHANGED <<queue, worker>> /\ (UnderWay("recv")' <=> UnderWay("recv"))
      /\ (UnderWay("send")' <=> UnderWay("send"))
  BY MainFrame, UnderWayUnchanged DEF Dirs
<1>2. (call'.pc = call.pc) /\ (HasDevice' <=> HasDevice)
  BY MainFrame, CallStates DEF IInv, TypeOK, HasDevice
<1>3. overtaken \subseteq overtaken'
  BY MainWay DEF DestroyDevice, DestroyRoute, DestroyClient, JoinPool, Overtakes
<1>4. \A o, b : Excused(o, b) => Excused(o, b)'
  BY <1>3, ExcusedStays
<1>5. link \in {"new", "up", "down", "off"} /\ dead \subseteq Objects
  BY DEF IInv, TypeOK, FlagsOK
<1>6. CASE UNCHANGED <<dead, misused, overtaken>>
  <2>1. "route" \in dead /\ link \in {"new", "off"} => link' \in {"new", "off"}
    BY MainWay DEF StartClient, DestroyClient, Closed, IInv, DeadInv
  <2> QED
    BY <1>1, <1>2, <1>4, <1>6, <2>1 DEF IInv, GoneInv
<1>7. CASE DestroyDevice
  <2>1. dead = {} /\ dead' = {"device"} /\ UNCHANGED misused
    BY <1>5, <1>7 DEF DestroyDevice, IInv, DeadInv, Objects
  <2>2. HasDevice => Excused("device", "call")'
    BY <1>7 DEF DestroyDevice, Overtakes, When, Excused
  <2>3. UnderWay("recv") \/ UnderWay("send") => Excused("device", "task")'
    BY <1>7 DEF DestroyDevice, Overtakes, When, Excused
  <2> QED
    BY <1>1, <1>2, <1>4, <2>1, <2>2, <2>3 DEF IInv, GoneInv
<1>8. CASE DestroyRoute
  <2>1. /\ ~devices_ /\ dead' = dead \cup {"route"}
        /\ "route" \notin dead /\ "client" \notin dead /\ "pool" \notin dead
    BY <1>8 DEF DestroyRoute, IInv, SetUpInv, DeadInv
  <2>2. UNCHANGED misused
    BY <1>8, <2>1 DEF DestroyRoute, Use
  <2>3. UnderWay("recv") => Excused("route", "task")'
    BY <1>8 DEF DestroyRoute, Overtakes, When, Excused
  <2>4. Excused("route", "call")' \/ (call.pc # "find" /\ link' \in {"new", "off"})
    <3>1. call.pc = "find" \/ Closed = "down" => Excused("route", "call")'
      BY <1>8 DEF DestroyRoute, Overtakes, When, Excused
    <3>2. Closed # "down" => link' \in {"new", "off"}
      BY <1>5, <1>8 DEF DestroyRoute, Closed
    <3> QED
      BY <3>1, <3>2
  <2> QED
    BY <1>1, <1>2, <1>4, <2>1, <2>2, <2>3, <2>4 DEF IInv, GoneInv
<1>9. CASE DestroyClient
  <2>1. dead' = dead \cup {"client"} /\ UNCHANGED misused /\ link' = "off" /\ "pool" \notin dead
    BY <1>9 DEF DestroyClient, IInv, DeadInv
  <2>2. UnderWay("recv") => Excused("client", "task")'
    BY <1>9 DEF DestroyClient, Overtakes, When, Excused
  <2> QED
    BY <1>1, <1>2, <1>4, <2>1, <2>2 DEF IInv, GoneInv
<1>10. CASE JoinPool
  <2>1. dead' = dead \cup {"pool"} /\ UNCHANGED <<misused, link>>
    BY <1>10 DEF JoinPool, net
  <2>2. HasDevice => Excused("pool", "call")'
    BY <1>10 DEF JoinPool, Overtakes, When, Excused
  <2> QED
    BY <1>1, <1>2, <1>4, <2>1, <2>2 DEF IInv, GoneInv
<1> QED
  BY <1>6, <1>7, <1>8, <1>9, <1>10, MainWay

LEMMA GoneCall == IInv /\ CallStep => GoneInv'
<1> SUFFICES ASSUME IInv, CallStep PROVE GoneInv'
  OBVIOUS
<1>1. UNCHANGED <<dead, overtaken, link, worker>> /\ \A o, b : Excused(o, b)' <=> Excused(o, b)
  BY CallFrame DEF Excused
<1>2. UNCHANGED queue => /\ UnderWay("recv")' <=> UnderWay("recv")
                         /\ UnderWay("send")' <=> UnderWay("send")
  BY <1>1, UnderWayUnchanged DEF Dirs
<1>3. call \in CallState
  BY DEF IInv, TypeOK
<1>4. ASSUME NEW m \in Msgs, MessageArrives(m) PROVE GoneInv'
  <2>1. /\ link = "up" /\ UNCHANGED <<queue, misused>> /\ call'.pc \in {"idle", "find"}
    BY <1>4 DEF MessageArrives, pool, ends
  <2> QED
    BY <1>1, <1>2, <2>1 DEF IInv, GoneInv, HasDevice
<1>5. CASE FindDevice
  <2>1. call.pc = "find" /\ Use({"route"}, "call") /\ UNCHANGED queue
    BY <1>5 DEF FindDevice, pool
  <2>2. \A use \in misused' : Excused(use[1], use[2])'
    BY <1>1, <2>1, ExcusedUse DEF IInv, GoneInv
  <2>3. call'.pc \in {"idle", "write"} /\ (call'.pc = "write" => devices_)
    <3>1. CASE devices_ /\ call.msg \notin Foreign
      <4>1. call' = [call EXCEPT !.pc = "write"]
        BY <1>5, <3>1 DEF FindDevice
      <4> QED
        BY <1>3, <3>1, <4>1, CallStates
    <3>2. CASE ~(devices_ /\ call.msg \notin Foreign)
      BY <1>5, <3>2 DEF FindDevice, Returns
    <3> QED
      BY <3>1, <3>2
  <2>4. "device" \in dead \/ "pool" \in dead => ~devices_
    BY DEF IInv, SetUpInv, DeadInv
  <2> QED
    BY <1>1, <1>2, <2>1, <2>2, <2>3, <2>4 DEF IInv, GoneInv, HasDevice
<1>6. CASE WriteTests \/ WriteStores
  <2>1. HasDevice /\ Use({"device"}, "call") /\ UNCHANGED queue
    BY <1>6 DEF WriteTests, WriteStores, HasDevice, pool
  <2>2. \A use \in misused' : Excused(use[1], use[2])'
    BY <1>1, <2>1, ExcusedUse DEF IInv, GoneInv
  <2>3. call'.pc # "find"
    <3>1. ASSUME NEW r, Returns(r) PROVE call'.pc = "idle"
      BY <3>1 DEF Returns
    <3>2. ASSUME NEW p \in {"store", "add"}, call' = [call EXCEPT !.pc = p] PROVE call'.pc = p
      BY <1>3, <3>2, CallStates
    <3> QED
      BY <1>6, <3>1, <3>2 DEF WriteTests, WriteStores
  <2> QED
    BY <1>1, <1>2, <2>1, <2>2, <2>3 DEF IInv, GoneInv
<1>7. CASE AddSendTask
  <2>1. HasDevice /\ Use({"device", "pool"}, "call")
    BY <1>7 DEF AddSendTask, HasDevice
  <2>2. \A use \in misused' : Excused(use[1], use[2])'
    BY <1>1, <2>1, ExcusedUse DEF IInv, GoneInv
  <2>3. call'.pc = "idle"
    BY <1>7 DEF AddSendTask, Returns
  <2>4. UnderWay("recv")' => UnderWay("recv")
    <3>1. CASE UNCHANGED queue
      BY <1>2, <3>1
    <3>2. CASE queue' = Append(queue, "send")
      BY <1>1, <3>2, UnderWayAppend DEF Dirs, IInv, TypeOK, DataOK
    <3> QED
      BY <3>1, <3>2, CallFrame
  <2>5. "device" \in dead => Excused("device", "task")
    BY <2>1, <1>1, ExcusedStays DEF IInv, GoneInv
  <2> QED
    BY <1>1, <2>1, <2>2, <2>3, <2>4, <2>5 DEF IInv, GoneInv, HasDevice
<1> QED
  BY <1>4, <1>5, <1>6, <1>7 DEF CallStep, Callback

LEMMA GoneTask == ASSUME IInv, NEW w \in Workers, TaskStep(w) PROVE GoneInv'
<1>1. UNCHANGED <<dead, overtaken, link, call>> /\ \A o, b : Excused(o, b)' <=> Excused(o, b)
  BY TaskFrame DEF Excused
<1>2. (UnderWay("recv")' => UnderWay("recv")) /\ (UnderWay("send")' => UnderWay("send"))
  BY UnderWayAfterTask DEF IInv, Dirs
<1>3. \A use \in misused' : Excused(use[1], use[2])'
  <2>1. CASE UnderWay("send") /\ Use({"device"}, "task")
    BY <1>1, <2>1, ExcusedUse DEF IInv, GoneInv
  <2>2. ASSUME UnderWay("recv"), NEW o \in SUBSET {"device", "route", "client"}, Use(o, "task")
        PROVE  \A use \in misused' : Excused(use[1], use[2])'
    <3>1. \A p \in o \cap dead : Excused(p, "task")
      BY <2>2 DEF IInv, GoneInv
    <3> QED
      BY <1>1, <2>2, <3>1, ExcusedUse DEF IInv, GoneInv
  <2> QED
    BY <2>1, <2>2, TaskUses DEF IInv
<1> QED
  BY <1>1, <1>2, <1>3 DEF IInv, GoneInv, HasDevice

LEMMA GoneStep == IInv /\ [Next]_vars => GoneInv'
<1> SUFFICES ASSUME IInv, [Next]_vars PROVE GoneInv'
  OBVIOUS
<1>1. CASE UNCHANGED <<dead, misused, overtaken, queue, worker, call, link>>
  BY <1>1 DEF IInv, GoneInv, Excused, UnderWay, InLoop, HasDevice
<1>2. ASSUME NEW m \in Up, Receive(m) PROVE GoneInv'
  BY <1>1, <1>2, ReceiveFrame
<1>3. CASE UNCHANGED vars
  BY <1>1, <1>3 DEF vars, pool, net, ends
<1>4. CASE AddRecvTask
  <2>1. dead = {}
    BY <1>4 DEF AddRecvTask, IInv, TypeOK, Objects, SetUpInv, DeadInv
  <2>2. UNCHANGED <<dead, misused, overtaken>>
    BY <1>4, AddFrame
  <2> QED
    BY <2>1, <2>2 DEF IInv, GoneInv, Excused
<1>5. CASE LinkStep
  <2>1. UNCHANGED <<dead, misused, overtaken, queue, worker, call>> /\ link \in {"up", "down"}
    BY <1>5, LinkFrame
  <2> QED
    BY <2>1 DEF IInv, GoneInv, Excused, UnderWay, InLoop, HasDevice
<1> QED
  BY <1>2, <1>3, <1>4, <1>5, Steps, GoneMain, GoneCall, GoneTask
-----------------------------------------------------------------------------
(* Messages of the cloud are accepted                                      *)

LEMMA ServeStep == IInv /\ [Next]_vars => ServeInv'
<1> SUFFICES ASSUME IInv, [Next]_vars, call'.serving PROVE ServeInv'
  BY DEF ServeInv
<1>0. call \in CallState
  BY DEF IInv, TypeOK
<1>1. CASE UNCHANGED <<mpc, call>>
  BY <1>1 DEF IInv, ServeInv
<1>2. CASE MainStep
  <2>1. UNCHANGED call
    <3>1. ASSUME call' = [call EXCEPT !.serving = FALSE] PROVE FALSE
      BY <1>0, <3>1, CallStates
    <3> QED
      BY <1>2, <3>1, MainFrame
  <2>2. ~LeaveLoop
    <3>1. ASSUME LeaveLoop PROVE FALSE
      <4>1. call' = [call EXCEPT !.serving = FALSE]
        BY <3>1 DEF LeaveLoop
      <4> QED
        BY <1>0, <4>1, CallStates
    <3> QED
      BY <3>1
  <2>3. mpc = "loop"
    BY <2>1 DEF IInv, ServeInv
  <2>4. UNCHANGED mpc
    BY <1>2, <2>2, <2>3
       DEF MainStep, Starting, InstallSignals, StartClient, RegisterRecvCallback, Configure, PushDevice,
           StartDevice, StartDeviceFails, PopDevice, Stop, SpuriousWakeup, Stopping, StopDevice, CloseFd,
           JoinReader, ClearBuffer, ClearDevices, CloseClient, DestroyDevice, DestroyRoute,
           DestroyClient, StopPool, JoinPool
  <2> QED
    BY <1>1, <2>1, <2>4
<1>3. ASSUME NEW m \in Msgs, MessageArrives(m) PROVE ServeInv'
  BY <1>3 DEF IInv, SetUpInv, ServeInv, MessageArrives
<1>4. CASE Callback
  <2>1. UNCHANGED mpc
    BY <1>4, CallFrame DEF CallStep
  <2>2. ASSUME NEW r, Returns(r)
        PROVE  /\ call'.pc = "idle" /\ call'.msg = call.msg /\ call'.result = r
               /\ call'.serving = call.serving
    BY <2>2 DEF Returns
  <2>3. ASSUME NEW p \in {"write", "store", "add"}, call' = [call EXCEPT !.pc = p]
        PROVE  call'.pc # "idle" /\ call'.serving = call.serving
    BY <1>0, <2>3, CallStates
  <2>4. call.serving
    BY <1>4, <2>2, <2>3 DEF Callback, FindDevice, WriteTests, WriteStores, AddSendTask
  <2>5. mpc = "loop" /\ devices_ /\ isRunning_
    BY <2>4 DEF IInv, SetUpInv, ServeInv
  <2>6. call'.pc # "idle" \/ call'.msg \in Foreign \/ call'.result \in {"accepted", "full"}
    <3>1. CASE FindDevice
      BY <2>2, <2>3, <2>5, <3>1 DEF FindDevice
    <3>2. CASE WriteTests
      BY <2>3, <2>5, <3>2 DEF WriteTests
    <3>3. CASE WriteStores
      BY <2>2, <2>3, <3>3 DEF WriteStores
    <3>4. CASE AddSendTask
      BY <2>2, <3>4 DEF AddSendTask
    <3> QED
      BY <1>4, <3>1, <3>2, <3>3, <3>4 DEF Callback
  <2> QED
    BY <2>1, <2>5, <2>6 DEF ServeInv
<1>5. ASSUME NEW m \in Up, Receive(m) PROVE ServeInv'
  BY <1>1, <1>5, ReceiveFrame
<1>6. ASSUME NEW w \in Workers, TaskStep(w) PROVE ServeInv'
  BY <1>1, <1>6, TaskFrame
<1>7. CASE AddRecvTask \/ LinkStep
  BY <1>1, <1>7, AddFrame, LinkFrame
<1>8. CASE UNCHANGED vars
  BY <1>1, <1>8 DEF vars
<1> QED
  BY <1>2, <1>3, <1>4, <1>5, <1>6, <1>7, <1>8, Steps DEF CallStep
-----------------------------------------------------------------------------
(* No message of the device is lost                                        *)

\* What is published, given up or cut stays so.
LEMMA HistoryGrows ==
    ASSUME TypeOK, NEW w \in Workers, TaskStep(w)
    PROVE  published \cup failed["recv"] \cup torn["recv"]
               \subseteq published' \cup failed'["recv"] \cup torn'["recv"]
<1>1. failed \in [Dirs -> SUBSET Msgs] /\ torn \in [Dirs -> SUBSET Msgs] /\ "recv" \in Dirs
      /\ worker[w].dir \in Dirs
  BY WorkerStates DEF TypeOK, DataOK, Dirs
<1>2. CASE UNCHANGED <<published, failed, torn>>
  BY <1>2
<1>3. CASE TaskBegins(w) \/ PeekHeader(w) \/ TestSize(w)
  BY <1>2, <1>3 DEF TaskBegins, PeekHeader, TestSize, history
<1>4. CASE ReadPacket(w)
  <2>0. \A d \in Dirs : buffer[d] \in Seq(Bytes) /\ In(buffer[d]) \subseteq Msgs
    BY ReadAsType DEF TypeOK, DataOK
  <2>1. PICK d \in Dirs, s \in SUBSET Msgs : torn' = [torn EXCEPT ![d] = @ \cup s]
    BY <2>0, <1>4, ReadEffect
  <2>2. torn["recv"] \subseteq torn'["recv"]
    BY <1>1, <2>1
  <2> QED
    BY <1>4, <2>2 DEF ReadPacket
<1>5. CASE Deliver(w) \/ PublishFails(w)
  <2>1. UNCHANGED failed \/ \E s : failed' = [failed EXCEPT !["recv"] = @ \cup s]
    BY <1>5 DEF Deliver, PublishFails
  <2>2. failed["recv"] \subseteq failed'["recv"]
    BY <1>1, <2>1
  <2> QED
    BY <1>5, <2>2 DEF Deliver, PublishFails
<1>6. CASE Published(w)
  BY <1>6 DEF Published
<1>7. CASE Transmit(w)
  <2>1. UNCHANGED failed \/ \E s : failed' = [failed EXCEPT !["send"] = @ \cup s]
    BY <1>7 DEF Transmit
  <2>2. failed["recv"] \subseteq failed'["recv"]
    BY <1>1, <2>1
  <2> QED
    BY <1>7, <2>2 DEF Transmit
<1> QED
  BY <1>3, <1>4, <1>5, <1>6, <1>7 DEF TaskStep, Task

\* A packet that a worker holds stays with it, or is published or given up.
LEMMA HeldGoesOn ==
    ASSUME TypeOK, NEW w \in Workers, TaskStep(w), NEW m \in Msgs,
           worker[w].dir = "recv", worker[w].block = Packet(m)
    PROVE  Held(m)' \/ m \in published' \cup failed'["recv"]
<1>0. worker \in [Workers -> WorkerState] /\ worker[w] \in WorkerState /\ "recv" \in Dirs
      /\ failed \in [Dirs -> SUBSET Msgs]
  BY DEF TypeOK, DataOK, Dirs
<1>1. worker[w].pc \in {"hand", "token"}
  BY <1>0, WorkerStates, PacketFacts
<1>2. Deliver(w) \/ Published(w) \/ PublishFails(w)
  BY <1>1 DEF TaskStep, Task, TaskBegins, PeekHeader, TestSize, ReadPacket, Transmit
<1>3. /\ Carried("recv", worker[w].block) = {m} /\ ReadAs("recv", worker[w].block) = {m}
      /\ worker[w].block[1][1] = m /\ In(worker[w].block) = {m}
  BY <1>0, CarriedFacts, PacketFacts, Sizes
<1>4. CASE Deliver(w)
  <2>1. CASE GoesOn(w, "token", 0, Packet(m))
    <3>1. worker'[w] = Doing("token", "recv", 0, Packet(m))
      BY <1>0, <2>1, BecomesOne DEF GoesOn
    <3> QED
      BY <3>1, DoingFields DEF Held
  <2>2. CASE failed' = [failed EXCEPT !["recv"] = @ \cup {m}]
    BY <1>0, <2>2
  <2> QED
    BY <1>3, <1>4, <2>1, <2>2 DEF Deliver
<1>5. CASE Published(w)
  BY <1>3, <1>5 DEF Published
<1>6. CASE PublishFails(w)
  BY <1>0, <1>3, <1>6 DEF PublishFails
<1> QED
  BY <1>2, <1>4, <1>5, <1>6

\* A message in the receive buffer stays there, is with a worker, or is cut.
LEMMA BufferGoesOn ==
    ASSUME TypeOK, NEW w \in Workers, TaskStep(w), NEW m \in In(buffer["recv"])
    PROVE  Held(m)' \/ m \in In(buffer'["recv"]) \cup torn'["recv"]
<1>0. /\ worker \in [Workers -> WorkerState] /\ "recv" \in Dirs
      /\ torn \in [Dirs -> SUBSET Msgs] /\ buffer \in [Dirs -> Seq(Bytes)]
  BY DEF TypeOK, DataOK, Dirs
<1>1. CASE UNCHANGED buffer
  BY <1>1
<1>2. CASE ReadPacket(w)
  <2>1. PICK d \in Dirs, n \in 3 .. 513 :
          \/ /\ buffer' = [buffer EXCEPT ![d] = <<>>]
             /\ torn' = [torn EXCEPT ![d] = @ \cup In(buffer[d])]
          \/ /\ n \in 1 .. Len(buffer[d])
             /\ buffer' = [buffer EXCEPT ![d] = SubSeq(@, n + 1, Len(@))]
             /\ torn' = [torn EXCEPT ![d] = @ \cup (In(SubSeq(buffer[d], 1, n))
                                                        \ Carried(d, SubSeq(buffer[d], 1, n)))]
             /\ Becomes(w, Doing("hand", d, 0, SubSeq(buffer[d], 1, n)))
    BY <1>2, ReadEffect
  <2>2. CASE d # "recv"
    BY <1>0, <2>1, <2>2
  <2>3. CASE d = "recv" /\ torn' = [torn EXCEPT ![d] = @ \cup In(buffer[d])]
    BY <1>0, <2>3
  <2>4. CASE /\ d = "recv" /\ n \in 1 .. Len(buffer[d])
             /\ buffer' = [buffer EXCEPT ![d] = SubSeq(@, n + 1, Len(@))]
             /\ torn' = [torn EXCEPT ![d] = @ \cup (In(SubSeq(buffer[d], 1, n))
                                                        \ Carried(d, SubSeq(buffer[d], 1, n)))]
             /\ Becomes(w, Doing("hand", d, 0, SubSeq(buffer[d], 1, n)))
    <3> DEFINE block == SubSeq(buffer["recv"], 1, n)
               rest == SubSeq(buffer["recv"], n + 1, Len(buffer["recv"]))
    <3>1. /\ In(buffer["recv"]) = In(block) \cup In(rest) /\ block \in Seq(Bytes)
          /\ buffer'["recv"] = rest
      BY <1>0, <2>4, InSplit
    <3>2. torn'["recv"] = torn["recv"] \cup (In(block) \ Carried("recv", block))
      BY <1>0, <2>4
    <3>3. worker'[w] = Doing("hand", "recv", 0, block)
      BY <1>0, <2>4, BecomesOne
    <3> HIDE DEF block, rest
    <3>4. ASSUME m \in Carried("recv", block) PROVE Held(m)'
      <4>1. PICK p \in Msgs : block = Packet(p)
        BY <1>0, <3>1, <3>4, ReadAsType
      <4>2. p = m
        BY <1>0, <3>4, <4>1, CarriedFacts
      <4> QED
        BY <3>3, <4>1, <4>2, DoingFields DEF Held
    <3> QED
      BY <3>1, <3>2, <3>4
  <2> QED
    BY <2>1, <2>2, <2>3, <2>4
<1> QED
  BY <1>1, <1>2, TaskFrame

LEMMA UplinkStep == IInv /\ [Next]_vars => UplinkInv'
<1> SUFFICES ASSUME IInv, [Next]_vars, mpc' \in Stages, NEW m \in Up \ coming' PROVE Kept(m)'
  BY DEF UplinkInv, Stages
<1>0. m \in Msgs /\ "recv" \in Dirs /\ buffer \in [Dirs -> Seq(Bytes)]
      /\ worker \in [Workers -> WorkerState] /\ failed \in [Dirs -> SUBSET Msgs]
  BY DEF Msgs, Dirs, IInv, TypeOK, DataOK
<1>1. CASE /\ mpc \in Stages /\ buffer'["recv"] = buffer["recv"]
           /\ UNCHANGED <<coming, published, failed, torn, worker>>
  BY <1>1 DEF IInv, UplinkInv, Kept, Held
<1>2. CASE MainStep
  <2>1. mpc \in Stages /\ UNCHANGED <<buffer, coming, history, worker>>
    BY <1>2, MainWay, MainFrame
  <2> QED
    BY <1>1, <2>1 DEF history
<1>3. CASE CallStep
  <2>1. buffer'["recv"] = buffer["recv"]
    BY <1>0, <1>3, CallFrame DEF WriteStores
  <2> QED
    BY <1>1, <1>3, <2>1, CallFrame DEF history
<1>4. ASSUME NEW n \in Up, Receive(n) PROVE Kept(m)'
  <2>0. n \in Msgs /\ mpc \in Stages
    BY <1>4, ReceiveFrame DEF Msgs
  <2>1. /\ m = n \/ m \in Up \ coming
        /\ UNCHANGED <<published, torn, worker>>
    BY <1>4, ReceiveFrame DEF Receive
  <2>2. \/ /\ buffer'["recv"] = buffer["recv"] \o Packet(n)
           /\ UNCHANGED failed
        \/ failed'["recv"] = failed["recv"] \cup {n} /\ UNCHANGED buffer
    BY <1>0, <1>4 DEF Receive
  <2>3. In(buffer["recv"] \o Packet(n)) = In(buffer["recv"]) \cup {n}
    BY <1>0, <2>0, InConcat, PacketFacts
  <2>4. CASE m = n
    BY <2>2, <2>3, <2>4 DEF Kept
  <2>5. CASE m \in Up \ coming
    <3>1. Kept(m)
      BY <2>0, <2>5 DEF IInv, UplinkInv
    <3>2. Held(m) => Held(m)'
      BY <2>1 DEF Held
    <3>3. In(buffer["recv"]) \subseteq In(buffer'["recv"]) /\ failed["recv"] \subseteq failed'["recv"]
      BY <2>2, <2>3
    <3> QED
      BY <2>1, <3>1, <3>2, <3>3 DEF Kept
  <2> QED
    BY <2>1, <2>4, <2>5
<1>5. ASSUME NEW w \in Workers, TaskStep(w) PROVE Kept(m)'
  <2>1. Kept(m)
    BY <1>5, TaskFrame DEF IInv, UplinkInv
  <2>2. TypeOK
    BY DEF IInv
  <2>3. CASE m \in published \cup failed["recv"] \cup torn["recv"]
    BY <1>5, <2>2, <2>3, HistoryGrows DEF Kept
  <2>4. CASE m \in In(buffer["recv"])
    BY <1>5, <2>2, <2>4, BufferGoesOn DEF Kept
  <2>5. CASE Held(m)
    <3>1. PICK v \in Workers : worker[v].dir = "recv" /\ worker[v].block = Packet(m)
      BY <2>5 DEF Held
    <3>2. CASE v = w
      BY <1>0, <1>5, <2>2, <3>1, <3>2, HeldGoesOn DEF Kept
    <3>3. CASE v # w
      <4>1. worker'[v] = worker[v]
        BY <1>0, <1>5, <2>2, <3>3, TypeWorker, BecomesOne
      <4> QED
        BY <3>1, <4>1 DEF Kept, Held
    <3> QED
      BY <3>2, <3>3
  <2> QED
    BY <2>1, <2>3, <2>4, <2>5 DEF Kept
<1>6. CASE AddRecvTask \/ LinkStep
  <2>1. /\ mpc \in Stages /\ UNCHANGED <<buffer, coming, worker, published, failed, torn>>
    BY <1>6, AddFrame, LinkFrame DEF LinkStep, Lose, Reconnect, history
  <2> QED
    BY <1>1, <2>1
<1>7. CASE UNCHANGED vars
  BY <1>1, <1>7 DEF vars, device, reader, pool, history
<1> QED
  BY <1>2, <1>3, <1>4, <1>5, <1>6, <1>7, Steps
-----------------------------------------------------------------------------
(* Packets stay whole as long as one worker at a time is in the loop       *)

LEMMA WholeAt ==
    ASSUME NEW b, Whole(b), NEW j \in 1 .. Len(b), NEW m, NEW i, b[j] = <<m, i>>
    PROVE  i \in 1 .. Size[m] /\ i <= j /\ j - i + Size[m] <= Len(b) /\ PacketAt(b, j - i, m)
<1>1. b[j][1] = m /\ b[j][2] = i
  OBVIOUS
<1> QED
  BY <1>1, Zenon DEF Whole

LEMMA WholeFront ==
    ASSUME NEW b \in Seq(Bytes), Whole(b), b # <<>>
    PROVE  \E m \in Msgs :
              /\ b[1] = <<m, 1>> /\ Size[m] \in 1 .. Len(b) /\ InStep(b)
              /\ \A k \in 1 .. Size[m] : b[k] = <<m, k>>
              /\ SubSeq(b, 1, Size[m]) = Packet(m)
<1>1. Len(b) \in Nat /\ 1 \in 1 .. Len(b) /\ b[1] \in Bytes
  BY EmptySeq
<1>2. PICK m \in Msgs, i \in Nat : b[1] = <<m, i>>
  BY <1>1 DEF Bytes
<1>3. Size[m] \in 3 .. 513 /\ Size[m] \in Nat
  BY Sizes
<1>4. i \in 1 .. Size[m] /\ i <= 1 /\ 1 - i + Size[m] <= Len(b) /\ PacketAt(b, 1 - i, m)
  BY <1>1, <1>2, WholeAt
<1>5. i = 1
  BY <1>3, <1>4
<1>6. Size[m] \in 1 .. Len(b)
  BY <1>1, <1>3, <1>4, <1>5
<1>7. \A k \in 1 .. Size[m] : b[k] = <<m, k>>
  <2> TAKE k \in 1 .. Size[m]
  <2>1. 1 - i + k = k
    BY <1>3, <1>5
  <2> QED
    BY <1>4, <2>1 DEF PacketAt
<1>8. SubSeq(b, 1, Size[m]) = Packet(m)
  <2>1. /\ SubSeq(b, 1, Size[m]) \in Seq(Bytes) /\ Len(SubSeq(b, 1, Size[m])) = Size[m]
        /\ \A k \in 1 .. Size[m] : SubSeq(b, 1, Size[m])[k] = b[k]
    BY <1>6, InSplit
  <2>2. /\ Packet(m) \in Seq(Bytes) /\ Len(Packet(m)) = Size[m]
        /\ \A k \in 1 .. Size[m] : Packet(m)[k] = b[k]
    BY <1>7, PacketFacts
  <2> HIDE DEF Packet
  <2> QED
    BY <2>1, <2>2, SeqEqual
<1> QED
  BY <1>2, <1>5, <1>6, <1>7, <1>8 DEF InStep

\* Without the packet at its front, a buffer of whole packets still is one: a packet
\* that began in the part taken would be the one taken.
LEMMA WholeRest ==
    ASSUME NEW b \in Seq(Bytes), Whole(b), NEW m \in Msgs, Size[m] \in 1 .. Len(b),
           \A k \in 1 .. Size[m] : b[k] = <<m, k>>
    PROVE  Whole(SubSeq(b, Size[m] + 1, Len(b)))
<1> DEFINE n == Size[m]
           t == SubSeq(b, n + 1, Len(b))
<1>1. /\ Len(b) \in Nat /\ n \in Nat /\ n >= 1 /\ n <= Len(b) /\ t \in Seq(Bytes)
      /\ Len(t) = Len(b) - n /\ \A k \in 1 .. Len(b) - n : t[k] = b[n + k]
  <2>1. n \in 1 .. Len(b) /\ Len(b) \in Nat
    OBVIOUS
  <2> HIDE DEF n
  <2>2. /\ t \in Seq(Bytes) /\ Len(t) = Len(b) - n
        /\ \A k \in 1 .. Len(b) - n : t[k] = b[n + k]
    BY <2>1, InSplit
  <2> QED
    BY <2>1, <2>2
<1> HIDE DEF t
<1> SUFFICES ASSUME NEW j \in 1 .. Len(t)
             PROVE  /\ t[j][2] \in 1 .. Size[t[j][1]] /\ t[j][2] <= j
                    /\ j - t[j][2] + Size[t[j][1]] <= Len(t)
                    /\ PacketAt(t, j - t[j][2], t[j][1])
  BY DEF Whole, t
<1>2. n + j \in 1 .. Len(b) /\ t[j] = b[n + j] /\ b[n + j] \in Bytes
  BY <1>1
<1>3. PICK p \in Msgs, i \in Nat : b[n + j] = <<p, i>>
  BY <1>2 DEF Bytes
<1>4. Size[p] \in 3 .. 513 /\ Size[p] \in Nat
  BY Sizes
<1>5. i \in 1 .. Size[p] /\ i <= n + j /\ n + j - i + Size[p] <= Len(b) /\ PacketAt(b, n + j - i, p)
  <2> DEFINE J == n + j
  <2>1. J \in 1 .. Len(b) /\ b[J] = <<p, i>>
    BY <1>2, <1>3
  <2> HIDE DEF J
  <2>2. i \in 1 .. Size[p] /\ i <= J /\ J - i + Size[p] <= Len(b) /\ PacketAt(b, J - i, p)
    BY <2>1, WholeAt
  <2> QED
    BY <2>2 DEF J
<1>6. i <= j
  <2> SUFFICES ASSUME i > j PROVE FALSE
    BY <1>1
  <2>1. n + j - i + 1 \in 1 .. n /\ 1 \in 1 .. Size[p]
    BY <1>1, <1>4, <1>5
  <2>2. b[n + j - i + 1] = <<p, 1>>
    BY <1>5, <2>1 DEF PacketAt
  <2>3. b[n + j - i + 1] = <<m, n + j - i + 1>>
    BY <2>1
  <2>4. p = m /\ n + j - i + 1 = 1
    BY <2>2, <2>3
  <2> QED
    BY <1>1, <1>5, <2>4
<1>7. PacketAt(t, j - i, p)
  <2> SUFFICES ASSUME NEW k \in 1 .. Size[p] PROVE t[j - i + k] = <<p, k>>
    BY DEF PacketAt
  <2>0. /\ k \in Nat /\ k >= 1 /\ k <= Size[p] /\ j \in Nat /\ i <= j
        /\ n + j - i + Size[p] <= Len(b) /\ Len(b) \in Nat /\ n \in Nat
    BY <1>1, <1>4, <1>5, <1>6
  <2> HIDE DEF n
  <2>1. j - i + k \in 1 .. Len(b) - n /\ n + (j - i + k) = n + j - i + k
    BY <1>4, <2>0
  <2> QED
    BY <1>1, <1>5, <2>1 DEF PacketAt
<1>8. j - i + Size[p] <= Len(t)
  BY <1>1, <1>4, <1>5
<1> QED
  BY <1>2, <1>3, <1>5, <1>6, <1>7, <1>8

LEMMA WholeAppend ==
    ASSUME NEW b \in Seq(Bytes), Whole(b), NEW m \in Msgs
    PROVE  Whole(b \o Packet(m)) /\ (b # <<>> => b \o Packet(m) # <<>> /\ (b \o Packet(m))[1] = b[1])
<1> DEFINE q == Packet(m)
           t == b \o q
<1>1. /\ q \in Seq(Bytes) /\ Len(q) = Size[m] /\ Size[m] \in Nat /\ Len(b) \in Nat
      /\ \A k \in 1 .. Size[m] : q[k] = <<m, k>>
  BY PacketFacts, Sizes
<1> HIDE DEF q
<1>2. /\ t \in Seq(Bytes) /\ Len(t) = Len(b) + Size[m]
      /\ \A k \in 1 .. Len(b) : t[k] = b[k]
      /\ \A k \in 1 .. Size[m] : t[Len(b) + k] = q[k]
  BY <1>1, ConcatProperties
<1> HIDE DEF t
<1>3. ASSUME NEW j \in 1 .. Len(t)
      PROVE  /\ t[j][2] \in 1 .. Size[t[j][1]] /\ t[j][2] <= j
             /\ j - t[j][2] + Size[t[j][1]] <= Len(t)
             /\ PacketAt(t, j - t[j][2], t[j][1])
  <2>1. CASE j \in 1 .. Len(b)
    <3>1. t[j] = b[j] /\ b[j] \in Bytes
      BY <1>2, <2>1
    <3>2. PICK p \in Msgs, i \in Nat : b[j] = <<p, i>>
      BY <3>1 DEF Bytes
    <3>3. /\ i \in 1 .. Size[p] /\ i <= j /\ j - i + Size[p] <= Len(b) /\ Size[p] \in Nat
          /\ PacketAt(b, j - i, p)
      BY <2>1, <3>2, Sizes, WholeAt
    <3>4. PacketAt(t, j - i, p)
      <4> SUFFICES ASSUME NEW k \in 1 .. Size[p] PROVE t[j - i + k] = <<p, k>>
        BY DEF PacketAt
      <4>1. j - i + k \in 1 .. Len(b)
        BY <1>1, <2>1, <3>3
      <4> QED
        BY <1>2, <3>3, <4>1 DEF PacketAt
    <3>5. j - i + Size[p] <= Len(t)
      BY <1>1, <1>2, <3>3
    <3> QED
      BY <3>1, <3>2, <3>3, <3>4, <3>5
  <2>2. CASE j \notin 1 .. Len(b)
    <3>1. j - Len(b) \in 1 .. Size[m] /\ Len(b) + (j - Len(b)) = j
      BY <1>1, <1>2, <2>2
    <3>2. t[j] = <<m, j - Len(b)>>
      BY <1>1, <1>2, <3>1
    <3>3. \A k \in 1 .. Size[m] : j - (j - Len(b)) + k = Len(b) + k
      BY <1>1, <1>2
    <3>4. PacketAt(t, j - (j - Len(b)), m)
      BY <1>1, <1>2, <3>3 DEF PacketAt
    <3>5. j - Len(b) <= j /\ j - (j - Len(b)) + Size[m] <= Len(t)
      BY <1>1, <1>2
    <3> QED
      BY <3>1, <3>2, <3>4, <3>5
  <2> QED
    BY <2>1, <2>2
<1>4. Whole(t)
  BY <1>3 DEF Whole
<1>5. b # <<>> => t # <<>> /\ t[1] = b[1]
  BY <1>1, <1>2, EmptySeq
<1> QED
  BY <1>4, <1>5 DEF t, q

\* No step makes two workers be in the loop of recvTask and leaves that unrecorded.
LEMMA OneInLoop ==
    ASSUME TypeOK, NEW w \in Workers, TaskStep(w), "recv" \notin overlapped'
    PROVE  /\ "recv" \notin overlapped
           /\ \/ InLoop("recv")' \subseteq InLoop("recv")
              \/ InLoop("recv") = {} /\ InLoop("recv")' \subseteq {w}
           /\ \A v \in Workers \ {w} : worker'[v] = worker[v]
<1>0. worker \in [Workers -> WorkerState] /\ queue \in Seq(Dirs)
  BY DEF TypeOK, DataOK
<1>1. CASE TaskBegins(w)
  <2>1. /\ Becomes(w, Doing("peek", Head(queue), 0, <<>>))
        /\ overlapped' = overlapped \cup {d \in {Head(queue)} : InLoop(d) # {}}
    BY <1>1 DEF TaskBegins
  <2>2. worker'[w].dir = Head(queue) /\ \A v \in Workers \ {w} : worker'[v] = worker[v]
    BY <1>0, <2>1, BecomesOne, DoingFields
  <2>3. CASE Head(queue) = "recv"
    <3>1. InLoop("recv") = {}
      BY <2>1, <2>3
    <3> QED
      BY <2>1, <2>2, <3>1 DEF InLoop
  <2>4. CASE Head(queue) # "recv"
    BY <2>1, <2>2, <2>4 DEF InLoop
  <2> QED
    BY <2>3, <2>4
<1>2. CASE ~TaskBegins(w)
  <2>1. UNCHANGED overlapped
    BY <1>2 DEF TaskStep, Task, PeekHeader, TestSize, ReadPacket, Deliver, Published, PublishFails,
                Transmit, history
  <2> QED
    BY <1>2, <2>1, LoopAfterTask DEF InLoop
<1> QED
  BY <1>1, <1>2

\* The part of StepInv about the buffer.
Stepwise ==
    /\ torn["recv"] = {}
    /\ Whole(buffer["recv"])
    /\ \A w \in InLoop("recv") :
          worker[w].pc \in {"size", "read"} =>
              buffer["recv"] # <<>> /\ worker[w].total = Size[buffer["recv"][1][1]]

\* The only worker in the loop takes the packet at the front, whole.
LEMMA StepRead ==
    ASSUME TypeOK, Stepwise, NEW w \in Workers, ReadPacket(w), worker[w].dir = "recv",
           InLoop("recv") = {w}, InLoop("recv")' \subseteq {w}
    PROVE  Stepwise'
<1>0. /\ worker \in [Workers -> WorkerState] /\ "recv" \in Dirs /\ torn \in [Dirs -> SUBSET Msgs]
      /\ buffer \in [Dirs -> Seq(Bytes)]
  BY DEF TypeOK, DataOK, Dirs
<1> DEFINE b == buffer["recv"]
<1>1. b \in Seq(Bytes) /\ Len(b) \in Nat /\ b # <<>> /\ Whole(b) /\ worker[w].total = Size[b[1][1]]
  BY <1>0 DEF Stepwise, ReadPacket
<1>2. PICK m \in Msgs : /\ b[1] = <<m, 1>> /\ Size[m] \in 1 .. Len(b)
                        /\ \A k \in 1 .. Size[m] : b[k] = <<m, k>>
                        /\ SubSeq(b, 1, Size[m]) = Packet(m)
  BY <1>1, WholeFront
<1>3. worker[w].total = Size[m] /\ ~(Len(b) < Size[m])
  BY <1>1, <1>2, Sizes
<1>4. Whole(SubSeq(b, Size[m] + 1, Len(b)))
  BY <1>1, <1>2, WholeRest
<1>5. /\ buffer' = [buffer EXCEPT !["recv"] = SubSeq(@, Size[m] + 1, Len(@))]
      /\ torn' = [torn EXCEPT !["recv"] = @ \cup (In(Packet(m)) \ Carried("recv", Packet(m)))]
      /\ Becomes(w, Doing("hand", "recv", 0, Packet(m)))
  BY <1>2, <1>3 DEF ReadPacket, GoesOn
<1>6. torn'["recv"] = {}
  BY <1>0, <1>5, PacketFacts, CarriedFacts DEF Stepwise
<1>7. Whole(buffer'["recv"])
  BY <1>0, <1>4, <1>5
<1>8. worker'[w].pc = "hand"
  BY <1>0, <1>5, BecomesOne, DoingFields
<1> QED
  BY <1>6, <1>7, <1>8 DEF Stepwise

\* A step of a worker that does not read leaves the buffer, and knows the length.
LEMMA StepOther ==
    ASSUME TypeOK, Stepwise, NEW w \in Workers, TaskStep(w), ~(ReadPacket(w) /\ worker[w].dir = "recv"),
           \A v \in Workers \ {w} : worker'[v] = worker[v]
    PROVE  Stepwise'
<1>0. /\ worker \in [Workers -> WorkerState] /\ "recv" \in Dirs /\ torn \in [Dirs -> SUBSET Msgs]
      /\ buffer \in [Dirs -> Seq(Bytes)] /\ worker[w] \in WorkerState /\ worker[w].dir \in Dirs
  BY WorkerStates DEF TypeOK, DataOK, Dirs
<1> DEFINE b == buffer["recv"]
<1>1. buffer'["recv"] = b /\ torn'["recv"] = torn["recv"]
  <2>1. CASE ReadPacket(w)
    <3>1. worker[w].dir # "recv"
      BY <2>1
    <3> QED
      BY <1>0, <2>1, <3>1 DEF ReadPacket
  <2>2. CASE ~ReadPacket(w)
    <3>1. UNCHANGED torn
      BY <2>2 DEF TaskStep, Task, TaskBegins, PeekHeader, TestSize, Deliver, Published, PublishFails,
                  Transmit, history
    <3> QED
      BY <2>2, <3>1, TaskFrame
  <2> QED
    BY <2>1, <2>2
<1>2. ASSUME worker'[w].dir = "recv", worker'[w].pc \in {"size", "read"}
      PROVE  b # <<>> /\ worker'[w].total = Size[b[1][1]]
  <2>1. ~TaskBegins(w)
    BY <1>0, <1>2, BecomesOne, DoingFields DEF TaskBegins
  <2>2. worker[w].pc # "idle" /\ worker[w].dir = "recv"
    BY <1>2, <2>1, LoopAfterTask
  <2>3. ASSUME NEW p, NEW n, NEW s, GoesOn(w, p, n, s)
        PROVE  worker'[w].pc = p /\ worker'[w].total = n
    BY <1>0, <2>3, BecomesOne, DoingFields DEF GoesOn
  <2>4. ~TaskEnds(w)
    <3>1. ASSUME TaskEnds(w) PROVE worker'[w].pc = "idle"
      BY <1>0, <3>1, BecomesOne, DoingFields DEF TaskEnds, Idle
    <3> QED
      BY <1>2, <3>1
  <2>5. CASE PeekHeader(w)
    <3>1. /\ ~(Len(b) < 3) /\ \E n \in TotalLen("recv") : GoesOn(w, "size", n, <<>>)
      BY <2>2, <2>4, <2>5 DEF PeekHeader
    <3>2. b \in Seq(Bytes) /\ b # <<>>
      BY <1>0, <3>1
    <3>3. InStep(b)
      BY <3>2, WholeFront DEF Stepwise
    <3> QED
      BY <2>3, <3>1, <3>2, <3>3 DEF TotalLen
  <2>6. CASE TestSize(w)
    <3>1. GoesOn(w, "read", worker[w].total, <<>>) /\ worker[w].pc = "size" /\ w \in InLoop("recv")
      BY <2>2, <2>4, <2>6 DEF TestSize, InLoop
    <3> QED
      BY <2>3, <3>1 DEF Stepwise
  <2>7. CASE ReadPacket(w)
    BY <2>2, <2>7
  <2>8. CASE Deliver(w) \/ Published(w) \/ PublishFails(w) \/ Transmit(w)
    <3>1. \E p \in {"peek", "token"} : \E n, s : GoesOn(w, p, n, s)
      BY <2>4, <2>8 DEF Deliver, Published, PublishFails, Transmit
    <3> QED
      BY <1>2, <2>3, <3>1
  <2> QED
    BY <2>1, <2>5, <2>6, <2>7, <2>8 DEF TaskStep, Task
<1>3. \A v \in InLoop("recv")' : v # w => v \in InLoop("recv") /\ worker'[v] = worker[v]
  BY DEF InLoop
<1>4. ASSUME NEW v \in InLoop("recv")', worker'[v].pc \in {"size", "read"}
      PROVE  b # <<>> /\ worker'[v].total = Size[b[1][1]]
  <2>1. CASE v = w
    BY <1>2, <1>4, <2>1 DEF InLoop
  <2>2. CASE v # w
    BY <1>3, <1>4, <2>2 DEF Stepwise
  <2> QED
    BY <2>1, <2>2
<1> QED
  BY <1>1, <1>4 DEF Stepwise

LEMMA StepStep == IInv /\ [Next]_vars => StepInv'
<1> SUFFICES ASSUME IInv, [Next]_vars, "recv" \notin overlapped'
             PROVE  (\A v, w \in InLoop("recv") : v = w)' /\ (mpc' \in Stages => Stepwise')
  BY DEF StepInv, Stepwise, Stages
<1>0. TypeOK /\ "recv" \in Dirs /\ buffer \in [Dirs -> Seq(Bytes)]
  BY DEF IInv, TypeOK, DataOK, Dirs
<1>1. "recv" \notin overlapped =>
          (\A v, w \in InLoop("recv") : v = w) /\ (mpc \in Stages => Stepwise)
  BY DEF IInv, StepInv, Stepwise
<1>2. CASE /\ UNCHANGED <<overlapped, worker, torn>>
           /\ mpc' \in Stages => mpc \in Stages /\ buffer'["recv"] = buffer["recv"]
  <2>1. InLoop("recv")' = InLoop("recv")
    BY <1>2 DEF InLoop
  <2> QED
    BY <1>1, <1>2, <2>1 DEF Stepwise
<1>3. CASE MainStep
  BY <1>2, <1>3, MainFrame, MainWay DEF history
<1>4. CASE CallStep
  <2>1. buffer'["recv"] = buffer["recv"]
    BY <1>0, <1>4, CallFrame DEF WriteStores
  <2> QED
    BY <1>2, <1>4, <2>1, CallFrame DEF history
<1>5. ASSUME NEW n \in Up, Receive(n)
      PROVE  (\A v, w \in InLoop("recv") : v = w)' /\ (mpc' \in Stages => Stepwise')
  <2>0. n \in Msgs /\ UNCHANGED <<mpc, worker, torn, overlapped>>
    BY <1>5, ReceiveFrame DEF Msgs
  <2>1. \/ buffer'["recv"] = buffer["recv"] \o Packet(n)
        \/ buffer'["recv"] = buffer["recv"]
    BY <1>0, <1>5 DEF Receive
  <2>2. CASE buffer'["recv"] = buffer["recv"]
    BY <1>2, <2>0, <2>2
  <2>3. CASE buffer'["recv"] = buffer["recv"] \o Packet(n)
    <3>1. InLoop("recv")' = InLoop("recv")
      BY <2>0 DEF InLoop
    <3>2. ASSUME Stepwise PROVE Stepwise'
      <4>1. /\ Whole(buffer'["recv"])
            /\ buffer["recv"] # <<>> =>
                   buffer'["recv"] # <<>> /\ buffer'["recv"][1] = buffer["recv"][1]
        BY <1>0, <2>0, <2>3, <3>2, WholeAppend DEF Stepwise
      <4> QED
        BY <2>0, <3>1, <3>2, <4>1 DEF Stepwise
    <3> QED
      BY <1>1, <2>0, <3>1, <3>2
  <2> QED
    BY <2>1, <2>2, <2>3
<1>6. ASSUME NEW w \in Workers, TaskStep(w)
      PROVE  (\A v, u \in InLoop("recv") : v = u)' /\ (mpc' \in Stages => Stepwise')
  <2>1. /\ "recv" \notin overlapped /\ UNCHANGED mpc
        /\ InLoop("recv")' \subseteq InLoop("recv")
             \/ (InLoop("recv") = {} /\ InLoop("recv")' \subseteq {w})
        /\ \A v \in Workers \ {w} : worker'[v] = worker[v]
    BY <1>0, <1>6, OneInLoop, TaskFrame
  <2>2. (\A v, u \in InLoop("recv") : v = u)'
    BY <1>1, <2>1
  <2>3. ASSUME Stepwise PROVE Stepwise'
    <3>1. CASE ReadPacket(w) /\ worker[w].dir = "recv"
      <4>1. w \in InLoop("recv")
        BY <3>1 DEF ReadPacket, InLoop
      <4>2. InLoop("recv") = {w} /\ InLoop("recv")' \subseteq {w}
        BY <1>1, <2>1, <4>1
      <4> QED
        BY <1>0, <2>3, <3>1, <4>2, StepRead
    <3>2. CASE ~(ReadPacket(w) /\ worker[w].dir = "recv")
      BY <1>0, <1>6, <2>1, <2>3, <3>2, StepOther
    <3> QED
      BY <3>1, <3>2
  <2> QED
    BY <1>1, <2>1, <2>2, <2>3
<1>7. CASE AddRecvTask \/ LinkStep
  BY <1>2, <1>7, AddFrame, LinkFrame DEF LinkStep, Lose, Reconnect, history
<1>8. CASE UNCHANGED vars
  BY <1>2, <1>8 DEF vars, device, pool, history
<1> QED
  BY <1>3, <1>4, <1>5, <1>6, <1>7, <1>8, Steps
-----------------------------------------------------------------------------
(* The invariant, and the theorems                                         *)

LEMMA InitInv == Init => IInv
<1> SUFFICES ASSUME Init PROVE IInv
  OBVIOUS
<1>1. TypeOK
  BY TypeInit
<1>2. SetUpInv /\ DeadInv
  BY DEF Init, SetUpInv, DeadInv
<1>3. GoneInv
  BY DEF Init, GoneInv
<1>4. ServeInv /\ UplinkInv
  BY DEF Init, ServeInv, UplinkInv
<1>5. StepInv
  <2>1. InLoop("recv") = {}
    BY DoingFields DEF Init, InLoop, Idle
  <2>2. torn["recv"] = {} /\ buffer["recv"] = <<>>
    BY DEF Init, NoMsgs, NoBytes, Dirs
  <2>3. Whole(<<>>)
    BY DEF Whole
  <2> QED
    BY <2>1, <2>2, <2>3 DEF StepInv
<1> QED
  BY <1>1, <1>2, <1>3, <1>4, <1>5 DEF IInv

LEMMA NextInv == IInv /\ [Next]_vars => IInv'
BY TypeStep, SetUpStep, DeadStep, GoneStep, ServeStep, UplinkStep, StepStep DEF IInv

LEMMA Invariance == Spec => []IInv
BY InitInv, NextInv, PTL DEF Spec

\* Every variable keeps its type, the buffers stay within bufferSize, and a call gets past
\* findDeviceByType only for a message that a device is registered for.
THEOREM TypeCorrect == Spec => []TypeOK
<1>1. IInv => TypeOK
  BY DEF IInv
<1> QED
  BY <1>1, Invariance, PTL

\* Whatever is stopped, and at whatever step, a destroyed device, route, client or pool is
\* used only by what was under way with that very object when it was destroyed, or, for
\* the route, by a call over a connection that was down when the client was closed (the
\* destructors in runGateway).
THEOREM NoDeadIsUsed == Spec => []DeadAreNotUsed
<1>1. IInv => DeadAreNotUsed
  BY DEF IInv, GoneInv, DeadAreNotUsed
<1> QED
  BY <1>1, Invariance, PTL

\* A message that arrives and is handled while the gateway serves is accepted, or
\* finds the buffer full (Route::handleMqttMessage, Device::write).
THEOREM Serves == Spec => []AcceptedWhileServing
<1>1. IInv => AcceptedWhileServing
  BY DEF IInv, ServeInv, AcceptedWhileServing
<1> QED
  BY <1>1, Invariance, PTL

\* While the gateway serves, a message of the device is published, given up with an error
\* or under way, with any number of workers that peek, test and read in separate steps,
\* unless it was cut; and none is cut unless two workers have been in the loop of
\* recvTask at a time (backgroundTask, recvTask, handleDeviceMessage).
THEOREM LosesNoUplink == Spec => []NoUplinkLost
<1>1. IInv => NoUplinkLost
  <2> SUFFICES ASSUME IInv, mpc = "loop", NEW m \in Up \ coming
               PROVE  \/ m \in published \cup failed["recv"] \cup In(buffer["recv"])
                      \/ Held(m)
                      \/ m \in torn["recv"] /\ "recv" \in overlapped
    BY DEF NoUplinkLost
  <2>1. Kept(m)
    BY DEF IInv, UplinkInv, Stages
  <2>2. m \in torn["recv"] => "recv" \in overlapped
    BY DEF IInv, StepInv, Stages
  <2> QED
    BY <2>1, <2>2 DEF Kept
<1> QED
  BY <1>1, Invariance, PTL
=============================================================================
