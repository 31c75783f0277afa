---------------------------- MODULE DeviceProofs ----------------------------
(***************************************************************************)
(* Theorems about Device, for any number of workers, any two streams of    *)
(* packets and buffers of any size: no packet is left without a task, and  *)
(* while no two tasks overlap whole packets come out in order.             *)
(***************************************************************************)
EXTENDS Device, SequenceTheorems, TLAPS

\* What the owner of the device, its reader and its callback have to do with each other.
LifeInv ==
    /\ mpc \in {"opened", "registered", "startFails", "startFailed"} => rpc = "none"
    /\ mpc \in {"clearRecv", "clearSend", "closed"} => rpc \in {"none", "ended"}
    /\ mpc = "up" => isRunning_
    /\ mpc \in {"opened", "registered", "startFailed"} => ~isRunning_
    /\ mpc = "registered" \/ rpc # "none" => recvCallback_
    /\ ~recvCallback_ => \A k \in DOMAIN queue : queue[k] = "send"
    /\ rpc # "store" => chunk = <<>>

\* A device that never ran: nothing was written to it.
QuietInv ==
    /\ mpc \in {"startFails", "startFailed"} => faults > 0
    /\ mpc = "join" => ~open
    /\ open /\ faults = 0 /\ mpc \in {"opened", "registered", "clearRecv", "clearSend", "closed"}
           => ~isRunning_ /\ opc = "idle" /\ buffer["send"] = <<>>

\* One task at a time, until two overlap.
SingleInv ==
    ~overlapped => \A d \in Dirs : \A v, w \in InLoop(d) : v = w

\* A header announces three bytes or more.
TotalInv == \A w \in Workers : worker[w].pc \in {"size", "read"} => worker[w].total >= 3

\* A task that will not return before it has seen the packet at the front: what it read
\* of the header may be stale, but then it asks for bytes that are there.
Awake(w, d) ==
    /\ worker[w].dir = d
    /\ \/ worker[w].pc \in {"peek", "read", "hand"}
       \/ worker[w].pc = "size" /\ worker[w].total <= Len(buffer[d])

StrandedInv ==
    \A d \in Dirs : Complete(d) /\ Works(d) =>
        \/ \E k \in DOMAIN queue : queue[k] = d
        \/ \E w \in Workers : Awake(w, d)
        \/ IF d = "recv" THEN rpc = "task" ELSE opc = "task"

\* A task holds a packet that is taken out of the buffer and not handed over yet.
Holding(d) == \E w \in InLoop(d) : worker[w].pc = "hand"

\* Packets of a direction taken out of its buffer.
Out(d) == IF Holding(d) THEN Len(handed[d]) + 1 ELSE Len(handed[d])

Cleared == mpc \in {"clearSend", "closed"}

\* The bytes in the buffer and in the reader's hands follow the packets taken out.
InStep ==
    /\ \A k \in DOMAIN buffer["recv"] : buffer["recv"][k] = First("recv", Out("recv") + 1) + k - 1
    /\ \A k \in DOMAIN chunk : chunk[k] = First("recv", Out("recv") + 1) + Len(buffer["recv"]) + k - 1
    /\ First("recv", Out("recv") + 1) + Len(buffer["recv"]) + Len(chunk) = taken + 1
    /\ \A w \in InLoop("recv") : worker[w].pc \in {"size", "read"} =>
          /\ Out("recv") < Len(Ends["recv"])
          /\ worker[w].total = Length("recv", Out("recv") + 1)
          /\ worker[w].pc = "read" => worker[w].total <= Len(buffer["recv"])

RecvInv ==
    /\ Cleared => buffer["recv"] = <<>>
    /\ ~discarded /\ ~overlapped =>
        /\ Out("recv") <= Len(Ends["recv"])
        /\ \A k \in DOMAIN handed["recv"] : handed["recv"][k] = Packet("recv", k)
        /\ \A w \in InLoop("recv") :
              worker[w].pc = "hand" => worker[w].packet = Packet("recv", Len(handed["recv"]) + 1)
        /\ Cleared \/ InStep

\* Packet p lies in b after the first o bytes.
LiesAt(b, p, o) ==
    /\ o + Length("send", p) <= Len(b)
    /\ \A i \in 1 .. Length("send", p) : b[o + i] = First("send", p) + i - 1

\* Every byte of b belongs to a packet that is in b as a whole.
Whole(b) ==
    \A k \in DOMAIN b : \E p \in DOMAIN Ends["send"] : \E o \in 0 .. k - 1 :
        k <= o + Length("send", p) /\ LiesAt(b, p, o)

\* The first position of the packets not written yet.
Unwritten == First("send", IF opc = "task" THEN next + 1 ELSE next)

\* What is written, held and handed over are whole packets, in the order of the stream.
SendOrder ==
    /\ Whole(buffer["send"])
    /\ \A j, k \in DOMAIN buffer["send"] : j < k => buffer["send"][j] < buffer["send"][k]
    /\ \A k \in DOMAIN buffer["send"] : buffer["send"][k] < Unwritten
    /\ \A w \in InLoop("send") :
        /\ worker[w].pc \in {"size", "read"} =>
              \E p \in DOMAIN Ends["send"] : worker[w].total = Length("send", p) /\ LiesAt(buffer["send"], p, 0)
        /\ worker[w].pc = "hand" =>
            /\ \E p \in DOMAIN Ends["send"] : worker[w].packet = Packet("send", p)
            /\ worker[w].packet[1] < Unwritten
            /\ \A k \in DOMAIN buffer["send"] : worker[w].packet[1] < buffer["send"][k]
            /\ \A j \in DOMAIN handed["send"] : handed["send"][j][1] < worker[w].packet[1]
    /\ \A j \in DOMAIN handed["send"] :
        /\ handed["send"][j][1] < Unwritten
        /\ \A k \in DOMAIN buffer["send"] : handed["send"][j][1] < buffer["send"][k]

SendInv ==
    faults = 0 /\ ~overlapped => HandsWholePackets("send") /\ (open => SendOrder)
-----------------------------------------------------------------------------
(* The streams: packets follow each other and do not overlap               *)

LEMMA Stream ==
    ASSUME NEW d \in Dirs
    PROVE  /\ Ends[d] \in Seq(Nat) /\ Len(Ends[d]) \in Nat /\ DOMAIN Ends[d] = 1 .. Len(Ends[d])
           /\ \A p, q \in DOMAIN Ends[d] :
                 Ends[d][p] \in Nat /\ Ends[d][p] >= 3 /\ (p < q => Ends[d][q] >= Ends[d][p] + 3)
<1>1. Ends[d] \in Seq(Nat)
  BY DeviceAssumption DEF DeviceAssumption
<1>2. Len(Ends[d]) \in Nat /\ DOMAIN Ends[d] = 1 .. Len(Ends[d])
  BY <1>1, LenProperties
<1>3. \A p \in DOMAIN Ends[d] : Ends[d][p] \in Nat
  BY <1>1, <1>2, ElementOfSeq
<1> QED
  BY <1>1, <1>2, <1>3, DeviceAssumption DEF DeviceAssumption

LEMMA FirstBounds ==
    ASSUME NEW d \in Dirs, NEW p \in DOMAIN Ends[d]
    PROVE  /\ p \in Nat /\ p >= 1 /\ p <= Len(Ends[d])
           /\ First(d, p) \in Nat /\ First(d, p) >= 1
           /\ Length(d, p) \in Nat /\ Length(d, p) >= 3
           /\ First(d, p + 1) = First(d, p) + Length(d, p)
<1>1. p \in Nat /\ p >= 1 /\ p <= Len(Ends[d]) /\ Ends[d][p] \in Nat /\ Ends[d][p] >= 3
  BY Stream
<1>2. First(d, p + 1) = Ends[d][p] + 1
  BY <1>1 DEF First
<1>3. CASE p = 1
  <2>1. First(d, p) = 1
    BY <1>3 DEF First
  <2>2. Length(d, p) = Ends[d][p]
    BY <1>1, <2>1 DEF Length
  <2> QED
    BY <1>1, <1>2, <2>1, <2>2
<1>4. CASE p # 1
  <2>1. p - 1 \in DOMAIN Ends[d] /\ p - 1 < p
    BY <1>1, <1>4, Stream
  <2>2. PICK a \in Nat : a = Ends[d][p - 1] /\ Ends[d][p] >= a + 3
    BY <2>1, Stream
  <2>3. PICK b \in Nat : b = Ends[d][p]
    BY <1>1
  <2>4. First(d, p) = a + 1 /\ First(d, p + 1) = b + 1
    BY <1>2, <1>4, <2>2, <2>3 DEF First
  <2>5. Length(d, p) = b - a
    BY <2>3, <2>4 DEF Length
  <2>6. b >= a + 3 /\ b - a \in Nat /\ b - a >= 3 /\ b + 1 = (a + 1) + (b - a)
    BY <2>2, <2>3
  <2> QED
    BY <1>1, <2>4, <2>5, <2>6
<1> QED
  BY <1>3, <1>4

LEMMA PacketBytes ==
    ASSUME NEW d \in Dirs, NEW p \in DOMAIN Ends[d]
    PROVE  /\ Packet(d, p) \in Seq(Nat) /\ Len(Packet(d, p)) = Length(d, p)
           /\ DOMAIN Packet(d, p) = 1 .. Length(d, p)
           /\ \A k \in 1 .. Length(d, p) : Packet(d, p)[k] = First(d, p) + k - 1
<1>1. First(d, p) \in Nat /\ First(d, p) >= 1 /\ Length(d, p) \in Nat
  BY FirstBounds
<1> DEFINE n == Length(d, p)
           F(k) == First(d, p) + k - 1
<1>2. \A k \in 1 .. n : F(k) \in Nat
  BY <1>1
<1> HIDE DEF n
<1>3. [k \in 1 .. n |-> F(k)] \in Seq(Nat)
  BY <1>1, <1>2, IsASeq DEF n
<1>4. Packet(d, p) = [k \in 1 .. n |-> F(k)]
  BY DEF Packet, n
<1>5. DOMAIN Packet(d, p) = 1 .. n /\ n \in Nat
  BY <1>1, <1>4 DEF n
<1>6. Len(Packet(d, p)) = n
  BY <1>3, <1>4, <1>5, LenProperties
<1> QED
  BY <1>3, <1>4, <1>5, <1>6 DEF n

LEMMA PacketOrder ==
    ASSUME NEW d \in Dirs, NEW p \in DOMAIN Ends[d], NEW q \in DOMAIN Ends[d], p < q
    PROVE  First(d, p) + Length(d, p) <= First(d, q)
<1>1. q - 1 \in DOMAIN Ends[d] /\ q # 1 /\ (p = q - 1 \/ p < q - 1)
  BY Stream
<1>2. Ends[d][q - 1] \in Nat /\ Ends[d][p] \in Nat /\ Ends[d][q - 1] >= Ends[d][p]
  BY <1>1, Stream
<1>3. First(d, q) = Ends[d][q - 1] + 1
  BY <1>1 DEF First
<1>4. First(d, p) + Length(d, p) = First(d, p + 1)
  BY FirstBounds
<1>5. First(d, p + 1) = Ends[d][p] + 1
  BY FirstBounds DEF First
<1> QED
  BY <1>2, <1>3, <1>4, <1>5

\* A position belongs to one packet.
LEMMA PacketsApart ==
    ASSUME NEW d \in Dirs, NEW p \in DOMAIN Ends[d], NEW q \in DOMAIN Ends[d],
           First(d, p) <= First(d, q), First(d, q) < First(d, p) + Length(d, p)
    PROVE  p = q
<1>1. p \in Nat /\ q \in Nat /\ First(d, p) \in Nat /\ First(d, q) \in Nat /\ Length(d, p) \in Nat /\ Length(d, q) \in Nat
        /\ Length(d, q) >= 3
  BY FirstBounds
<1>2. CASE p < q
  BY <1>1, <1>2, PacketOrder
<1>3. CASE q < p
  BY <1>1, <1>3, PacketOrder
<1> QED
  BY <1>1, <1>2, <1>3

\* The end of the stream, and the position after any number of packets of it.
LEMMA StreamEnd ==
    ASSUME NEW d \in Dirs
    PROVE  /\ StreamLen(d) \in Nat
           /\ \A n \in 0 .. Len(Ends[d]) :
                 /\ First(d, n + 1) \in Nat /\ First(d, n + 1) >= 1
                 /\ First(d, n + 1) <= StreamLen(d) + 1
                 /\ n < Len(Ends[d]) => First(d, n + 2) = First(d, n + 1) + Length(d, n + 1)
<1>1. Len(Ends[d]) \in Nat /\ DOMAIN Ends[d] = 1 .. Len(Ends[d])
  BY Stream
<1>2. ASSUME NEW n \in 0 .. Len(Ends[d]) PROVE First(d, n + 1) = IF n = 0 THEN 1 ELSE Ends[d][n] + 1
  BY <1>1 DEF First
<1>3. StreamLen(d) = IF Len(Ends[d]) = 0 THEN 0 ELSE Ends[d][Len(Ends[d])]
  <2>1. CASE Len(Ends[d]) = 0
    BY <2>1 DEF StreamLen, First
  <2>2. CASE Len(Ends[d]) # 0
    <3>1. Len(Ends[d]) \in DOMAIN Ends[d]
      BY <1>1, <2>2
    <3>2. Ends[d][Len(Ends[d])] \in Nat
      BY <3>1, Stream
    <3> QED
      BY <1>1, <2>2, <3>2 DEF StreamLen, First
  <2> QED
    BY <2>1, <2>2
<1>4. ASSUME NEW n \in 0 .. Len(Ends[d]), n # 0
      PROVE  Ends[d][n] \in Nat /\ Ends[d][n] <= Ends[d][Len(Ends[d])] /\ Ends[d][Len(Ends[d])] \in Nat
  <2>1. n \in DOMAIN Ends[d] /\ Len(Ends[d]) \in DOMAIN Ends[d]
    BY <1>1, <1>4
  <2>2. n = Len(Ends[d]) \/ n < Len(Ends[d])
    BY <1>1
  <2> QED
    BY <2>1, <2>2, Stream
<1>5. StreamLen(d) \in Nat
  BY <1>1, <1>3, <1>4
<1>6. ASSUME NEW n \in 0 .. Len(Ends[d])
      PROVE  First(d, n + 1) \in Nat /\ First(d, n + 1) >= 1 /\ First(d, n + 1) <= StreamLen(d) + 1
  <2>1. CASE n = 0
    BY <1>2, <1>5, <2>1
  <2>2. CASE n # 0
    <3>1. PICK a \in Nat : a = Ends[d][n] /\ a <= StreamLen(d)
      BY <1>1, <1>3, <1>4, <2>2
    <3>2. First(d, n + 1) = a + 1
      BY <1>2, <2>2, <3>1
    <3>3. a + 1 \in Nat /\ a + 1 >= 1 /\ a + 1 <= StreamLen(d) + 1
      BY <1>5, <3>1
    <3> QED
      BY <3>2, <3>3
  <2> QED
    BY <2>1, <2>2
<1>7. ASSUME NEW n \in 0 .. Len(Ends[d]), n < Len(Ends[d])
      PROVE  First(d, n + 2) = First(d, n + 1) + Length(d, n + 1)
  <2>1. n + 1 \in DOMAIN Ends[d] /\ n + 1 + 1 = n + 2
    BY <1>1, <1>7
  <2> QED
    BY <2>1, FirstBounds
<1> QED
  BY <1>5, <1>6, <1>7

\* The header at the front of a buffer announces the packet that begins there.
LEMMA HeaderTells ==
    ASSUME NEW d \in Dirs, NEW p \in DOMAIN Ends[d], buffer[d] \in Seq(Nat), Len(buffer[d]) >= 3,
           \A i \in 1 .. 3 : buffer[d][i] = First(d, p) + i - 1
    PROVE  TotalLen(d) = {Length(d, p)}
<1> DEFINE Aligned(q) == First(d, q) = buffer[d][1] /\ SubSeq(buffer[d], 1, 3) = SubSeq(Packet(d, q), 1, 3)
<1>0. First(d, p) \in Nat /\ Length(d, p) \in Nat /\ Length(d, p) >= 3
  BY FirstBounds
<1>1. First(d, p) = buffer[d][1] /\ Packet(d, p) \in Seq(Nat) /\ Len(Packet(d, p)) >= 3
        /\ \A i \in 1 .. 3 : Packet(d, p)[i] = First(d, p) + i - 1
  <2>1. buffer[d][1] = First(d, p) + 1 - 1
    OBVIOUS
  <2>2. \A i \in 1 .. 3 : i \in 1 .. Length(d, p)
    BY <1>0
  <2> QED
    BY <1>0, <2>1, <2>2, PacketBytes
<1>2. SubSeq(buffer[d], 1, 3) = SubSeq(Packet(d, p), 1, 3)
  <2>1. /\ SubSeq(buffer[d], 1, 3) \in Seq(Nat) /\ Len(SubSeq(buffer[d], 1, 3)) = 3
        /\ \A i \in 1 .. 3 : SubSeq(buffer[d], 1, 3)[i] = buffer[d][i]
    <3>1. \A i \in 1 .. 3 : buffer[d][i] \in Nat
      BY LenProperties, ElementOfSeq
    <3> QED
      BY <3>1, SubSeqProperties
  <2>2. /\ SubSeq(Packet(d, p), 1, 3) \in Seq(Nat) /\ Len(SubSeq(Packet(d, p), 1, 3)) = 3
        /\ \A i \in 1 .. 3 : SubSeq(Packet(d, p), 1, 3)[i] = Packet(d, p)[i]
    <3>1. \A i \in 1 .. 3 : Packet(d, p)[i] \in Nat
      BY <1>1, LenProperties, ElementOfSeq
    <3> QED
      BY <3>1, SubSeqProperties
  <2> QED
    BY <1>1, <2>1, <2>2, SeqEqual
<1>3. ASSUME NEW q \in DOMAIN Ends[d], Aligned(q) PROVE q = p
  <2>1. First(d, q) = First(d, p)
    BY <1>1, <1>3
  <2>2. \A f, l \in Nat : l >= 3 => f <= f /\ f < f + l
    OBVIOUS
  <2>3. First(d, p) <= First(d, p) /\ First(d, p) < First(d, p) + Length(d, p)
    BY <1>0, <2>2
  <2> QED
    BY <2>1, <2>3, PacketsApart
<1>4. {q \in DOMAIN Ends[d] : Aligned(q)} = {p}
  BY <1>1, <1>2, <1>3
<1> QED
  BY <1>4 DEF TotalLen
-----------------------------------------------------------------------------
(* The workers and the buffers after a step                                *)

LEMMA WorkerFields ==
    ASSUME PoolOK, NEW w \in Workers
    PROVE  /\ worker[w].pc \in {"idle", "peek", "size", "read", "hand"} /\ worker[w].dir \in Dirs
           /\ worker[w].total \in Nat /\ worker[w].packet \in Seq(Nat)
BY DEF PoolOK, WorkerState

LEMMA DoingFields ==
    ASSUME NEW pc \in {"idle", "peek", "size", "read", "hand"}, NEW d \in Dirs, NEW n \in Nat, NEW b \in Seq(Nat)
    PROVE  /\ Doing(pc, d, n, b) \in WorkerState
           /\ Doing(pc, d, n, b).pc = pc /\ Doing(pc, d, n, b).dir = d
           /\ Doing(pc, d, n, b).total = n /\ Doing(pc, d, n, b).packet = b
BY DEF Doing, WorkerState

LEMMA IdleFields == Idle \in WorkerState /\ Idle.pc = "idle" /\ Idle.dir = "recv"
<1>1. <<>> \in Seq(Nat)
  OBVIOUS
<1> QED
  BY <1>1 DEF Idle, Doing, WorkerState, Dirs

\* One worker moves, the others stay as they are.
LEMMA OneMoves ==
    ASSUME PoolOK, NEW w \in Workers, NEW r \in WorkerState, worker' = [worker EXCEPT ![w] = r]
    PROVE  /\ worker' \in [Workers -> WorkerState]
           /\ worker'[w] = r /\ \A v \in Workers \ {w} : worker'[v] = worker[v]
BY DEF PoolOK

LEMMA Returned ==
    ASSUME PoolOK, NEW w \in Workers, Returns(w)
    PROVE  /\ worker' \in [Workers -> WorkerState]
           /\ worker'[w].pc = "idle" /\ worker'[w].dir = "recv"
           /\ \A v \in Workers \ {w} : worker'[v] = worker[v]
BY IdleFields, OneMoves DEF Returns

LEMMA WentOn ==
    ASSUME PoolOK, NEW w \in Workers, NEW pc \in {"peek", "size", "read", "hand"}, NEW n \in Nat, NEW b \in Seq(Nat),
           GoesOn(w, pc, n, b)
    PROVE  /\ worker' \in [Workers -> WorkerState]
           /\ worker'[w].pc = pc /\ worker'[w].dir = worker[w].dir
           /\ worker'[w].total = n /\ worker'[w].packet = b
           /\ \A v \in Workers \ {w} : worker'[v] = worker[v]
<1>1. worker[w].dir \in Dirs
  BY WorkerFields
<1>2. Doing(pc, worker[w].dir, n, b) \in WorkerState
  BY <1>1, DoingFields
<1>3. worker' \in [Workers -> WorkerState] /\ worker'[w] = Doing(pc, worker[w].dir, n, b)
        /\ \A v \in Workers \ {w} : worker'[v] = worker[v]
  BY <1>2, OneMoves DEF GoesOn
<1> QED
  BY <1>1, <1>3, DoingFields

\* A task that begins leaves the queue; recvTask returns at once without a callback.
LEMMA Begun ==
    ASSUME PoolOK, NEW w \in Workers, TaskBegins(w)
    PROVE  /\ Len(queue) \in Nat /\ Len(queue) >= 1 /\ queue[1] \in Dirs /\ worker[w].pc = "idle"
           /\ queue' \in Seq(Dirs)
           /\ \A k \in DOMAIN queue : k = 1 \/ (k - 1 \in DOMAIN queue' /\ queue'[k - 1] = queue[k])
           /\ \A k \in DOMAIN queue' : k + 1 \in DOMAIN queue /\ queue'[k] = queue[k + 1]
           /\ \/ queue[1] = "recv" /\ ~recvCallback_ /\ UNCHANGED <<worker, overlapped>>
              \/ /\ queue[1] # "recv" \/ recvCallback_
                 /\ overlapped' = (overlapped \/ InLoop(queue[1]) # {})
                 /\ worker' \in [Workers -> WorkerState]
                 /\ worker'[w].pc = "peek" /\ worker'[w].dir = queue[1]
                 /\ worker'[w].packet = <<>>
                 /\ \A v \in Workers \ {w} : worker'[v] = worker[v]
<1>1. queue \in Seq(Dirs) /\ queue # <<>>
  BY DEF PoolOK, TaskBegins
<1>2. Len(queue) \in Nat /\ Len(queue) >= 1 /\ DOMAIN queue = 1 .. Len(queue) /\ queue[1] \in Dirs
  BY <1>1, LenProperties, EmptySeq, ElementOfSeq
<1>3. queue' = Tail(queue) /\ Tail(queue) \in Seq(Dirs) /\ Len(Tail(queue)) = Len(queue) - 1 /\ Head(queue) = queue[1]
        /\ \A k \in 1 .. Len(queue) - 1 : Tail(queue)[k] = queue[k + 1]
  <2>1. queue' = Tail(queue)
    BY DEF TaskBegins
  <2> QED
    BY <1>1, <2>1, HeadTailProperties, LenProperties
<1>4. DOMAIN queue' = 1 .. Len(queue) - 1
  BY <1>3, LenProperties
<1>5. \A k \in DOMAIN queue : k = 1 \/ (k - 1 \in DOMAIN queue' /\ queue'[k - 1] = queue[k])
  BY <1>2, <1>3, <1>4
<1>6. CASE queue[1] = "recv" /\ ~recvCallback_
  BY <1>2, <1>3, <1>4, <1>5, <1>6 DEF TaskBegins
<1>7. CASE ~(queue[1] = "recv" /\ ~recvCallback_)
  <2>1. /\ worker' = [worker EXCEPT ![w] = Doing("peek", queue[1], 0, <<>>)]
        /\ overlapped' = (overlapped \/ InLoop(queue[1]) # {}) /\ worker[w].pc = "idle"
    BY <1>3, <1>7 DEF TaskBegins
  <2>2. <<>> \in Seq(Nat)
    OBVIOUS
  <2>3. Doing("peek", queue[1], 0, <<>>) \in WorkerState
    BY <1>2, <2>2, DoingFields
  <2>4. worker' \in [Workers -> WorkerState] /\ worker'[w] = Doing("peek", queue[1], 0, <<>>)
          /\ \A v \in Workers \ {w} : worker'[v] = worker[v]
    BY <2>1, <2>3, OneMoves
  <2>5. worker'[w].pc = "peek" /\ worker'[w].dir = queue[1] /\ worker'[w].packet = <<>>
    BY <2>4 DEF Doing
  <2> QED
    BY <1>2, <1>3, <1>4, <1>5, <1>7, <2>1, <2>4, <2>5
<1> QED
  BY <1>6, <1>7

\* What TotalLen yields is the length of a packet or any length of three or more.
LEMMA TotalBounds ==
    ASSUME NEW d \in Dirs, NEW n \in TotalLen(d)
    PROVE  n \in Nat /\ n >= 3
<1>1. CASE n \in AnyLength
  BY <1>1, DeviceAssumption DEF AnyLength, DeviceAssumption
<1>2. CASE \E p \in DOMAIN Ends[d] : n = Length(d, p)
  BY <1>2, FirstBounds
<1> QED
  BY <1>1, <1>2 DEF TotalLen

\* What a task takes out of the buffer of its direction.
LEMMA Cut ==
    ASSUME NEW b \in Seq(Nat), NEW n \in Nat, n <= Len(b)
    PROVE  /\ SubSeq(b, 1, n) \in Seq(Nat) /\ Len(SubSeq(b, 1, n)) = n
           /\ \A k \in 1 .. n : SubSeq(b, 1, n)[k] = b[k]
           /\ SubSeq(b, n + 1, Len(b)) \in Seq(Nat) /\ Len(SubSeq(b, n + 1, Len(b))) = Len(b) - n
           /\ \A k \in 1 .. Len(b) - n : SubSeq(b, n + 1, Len(b))[k] = b[n + k]
<1>1. Len(b) \in Nat /\ DOMAIN b = 1 .. Len(b) /\ \A k \in 1 .. Len(b) : b[k] \in Nat
  BY LenProperties, ElementOfSeq
<1>2. /\ SubSeq(b, 1, n) \in Seq(Nat) /\ Len(SubSeq(b, 1, n)) = (IF 1 <= n THEN n - 1 + 1 ELSE 0)
      /\ \A k \in 1 .. n - 1 + 1 : SubSeq(b, 1, n)[k] = b[1 + k - 1]
  <2>1. \A i \in 1 .. n : b[i] \in Nat
    BY <1>1
  <2> QED
    BY <2>1, SubSeqProperties
<1>3. /\ SubSeq(b, n + 1, Len(b)) \in Seq(Nat)
      /\ Len(SubSeq(b, n + 1, Len(b))) = (IF n + 1 <= Len(b) THEN Len(b) - (n + 1) + 1 ELSE 0)
      /\ \A k \in 1 .. Len(b) - (n + 1) + 1 : SubSeq(b, n + 1, Len(b))[k] = b[n + 1 + k - 1]
  <2>1. \A i \in n + 1 .. Len(b) : b[i] \in Nat
    BY <1>1
  <2>2. n + 1 \in Int /\ Len(b) \in Int
    BY <1>1
  <2> QED
    BY <2>1, <2>2, SubSeqProperties
<1>4. Len(SubSeq(b, 1, n)) = n /\ Len(SubSeq(b, n + 1, Len(b))) = Len(b) - n
  <2>1. (n = 0 => ~(1 <= n)) /\ (n # 0 => 1 <= n /\ n - 1 + 1 = n)
    OBVIOUS
  <2>2. CASE n = Len(b)
    BY <1>1, <1>2, <1>3, <2>1, <2>2
  <2>3. CASE n # Len(b)
    <3>1. n + 1 <= Len(b) /\ Len(b) - (n + 1) + 1 = Len(b) - n
      <4>1. Len(b) \in Nat
        BY <1>1
      <4> QED
        BY <2>3, <4>1
    <3> QED
      BY <1>2, <1>3, <2>1, <3>1
  <2> QED
    BY <2>2, <2>3
<1>5. \A k \in 1 .. n : k \in 1 .. n - 1 + 1 /\ 1 + k - 1 = k
  OBVIOUS
<1>6. \A k \in 1 .. Len(b) - n : k \in 1 .. Len(b) - (n + 1) + 1 /\ n + 1 + k - 1 = n + k
  BY <1>1
<1> QED
  BY <1>2, <1>3, <1>4, <1>5, <1>6

\* What is written follows what was there.
LEMMA Joined ==
    ASSUME NEW b \in Seq(Nat), NEW c \in Seq(Nat)
    PROVE  /\ b \o c \in Seq(Nat) /\ Len(b \o c) = Len(b) + Len(c)
           /\ \A k \in 1 .. Len(b) : (b \o c)[k] = b[k]
           /\ \A k \in 1 .. Len(c) : (b \o c)[Len(b) + k] = c[k]
<1>1. Len(b) \in Nat /\ Len(c) \in Nat
  BY LenProperties
<1>2. \A k \in 1 .. Len(c) : Len(b) + k > Len(b) /\ Len(b) + k \in 1 .. Len(b) + Len(c) /\ Len(b) + k - Len(b) = k
  BY <1>1
<1> QED
  BY <1>1, <1>2, ConcatProperties
-----------------------------------------------------------------------------
(* Type correctness                                                        *)

LEMMA LifeType == TypeOK /\ [Next]_vars => LifeOK'
<1> SUFFICES ASSUME LifeOK, [Next]_vars PROVE LifeOK'
  BY DEF TypeOK
<1> USE DEF LifeOK, life
<1>1. CASE RegisterRecvCallback \/ Start \/ StartFails \/ StartCatches
  BY <1>1 DEF RegisterRecvCallback, Start, StartFails, StartCatches
<1>2. CASE StopBegins \/ StopClosesFd \/ StopJoins \/ CloseClears
  BY <1>2 DEF StopBegins, StopClosesFd, StopJoins, CloseClears
<1>3. CASE Reader \/ Writer
  BY <1>3 DEF Reader, ReaderTests, ReadData, ReadNothing, ReadError, StoreChunk, AddRecvTask,
              Writer, WriteTests, WriteStores, AddSendTask
<1>4. ASSUME NEW w \in Workers, Task(w) PROVE LifeOK'
  BY <1>4 DEF Task, TaskBegins, PeekHeader, TestSize, ReadPacket, Deliver, Transmit, TransmitShort, TransmitFails
<1>5. CASE UNCHANGED vars
  BY <1>5 DEF vars
<1> QED
  BY <1>1, <1>2, <1>3, <1>4, <1>5 DEF Next, Main

LEMMA FaultType == TypeOK /\ [Next]_vars => (faults \in 0 .. MaxFaults)'
<1> SUFFICES ASSUME faults \in 0 .. MaxFaults, [Next]_vars PROVE faults' \in 0 .. MaxFaults
  BY DEF TypeOK
<1>0. MaxFaults \in Nat
  BY DeviceAssumption DEF DeviceAssumption
<1>1. Fault => faults' \in 0 .. MaxFaults
  BY <1>0 DEF Fault
<1>2. CASE Main
  BY <1>1, <1>2 DEF Main, RegisterRecvCallback, Start, StartFails, StartCatches, StopBegins, StopClosesFd, StopJoins,
                    CloseClears
<1>3. CASE Reader \/ Writer
  BY <1>3 DEF Reader, ReaderTests, ReadData, ReadNothing, ReadError, StoreChunk, AddRecvTask,
              Writer, WriteTests, WriteStores, AddSendTask
<1>4. ASSUME NEW w \in Workers, Task(w) PROVE faults' \in 0 .. MaxFaults
  BY <1>1, <1>4 DEF Task, TaskBegins, PeekHeader, TestSize, ReadPacket, Deliver, Transmit, TransmitShort, TransmitFails
<1>5. CASE UNCHANGED vars
  BY <1>5 DEF vars
<1> QED
  BY <1>2, <1>3, <1>4, <1>5 DEF Next

\* The block that read() brings in.
LEMMA DataRead ==
    ASSUME ReaderOK, NEW n \in 1 .. ReadChunk, taken + n <= StreamLen("recv"), chunk' = [k \in 1 .. n |-> taken + k]
    PROVE  /\ chunk' \in Seq(Positions("recv")) /\ Len(chunk') = n
           /\ \A k \in 1 .. n : chunk'[k] = taken + k
           /\ taken \in Nat /\ taken + n <= StreamLen("recv")
<1>1. n \in Nat /\ n >= 1 /\ taken \in Nat
  BY DeviceAssumption DEF DeviceAssumption, ReaderOK
<1>2. StreamLen("recv") \in Nat
  BY StreamEnd DEF Dirs
<1> DEFINE F(k) == taken + k
<1>3. \A k \in 1 .. n : F(k) \in Positions("recv")
  BY <1>1, <1>2 DEF Positions
<1>4. [k \in 1 .. n |-> F(k)] \in Seq(Positions("recv"))
  BY <1>1, <1>3, IsASeq
<1>5. chunk' = [k \in 1 .. n |-> F(k)]
  OBVIOUS
<1>6. Len(chunk') = n
  BY <1>1, <1>4, <1>5, LenProperties
<1> QED
  BY <1>1, <1>4, <1>5, <1>6

LEMMA ReaderType == TypeOK /\ [Next]_vars => ReaderOK'
<1> SUFFICES ASSUME ReaderOK, [Next]_vars PROVE ReaderOK'
  BY DEF TypeOK
<1>0. <<>> \in Seq(Positions("recv"))
  BY EmptySeq
<1>1. CASE ReadData
  <2>1. PICK n \in 1 .. ReadChunk : taken + n <= StreamLen("recv") /\ chunk' = [k \in 1 .. n |-> taken + k] /\ taken' = taken + n
    BY <1>1 DEF ReadData
  <2>2. chunk' \in Seq(Positions("recv"))
    BY <2>1, DataRead
  <2>3. taken' \in 0 .. StreamLen("recv")
    <3>1. n \in Nat /\ taken \in Nat /\ StreamLen("recv") \in Int
      BY DeviceAssumption, StreamEnd DEF DeviceAssumption, ReaderOK, Dirs
    <3> QED
      BY <2>1, <3>1
  <2> QED
    BY <1>1, <2>2, <2>3 DEF ReaderOK, ReadData
<1>2. CASE StoreChunk
  BY <1>0, <1>2 DEF ReaderOK, StoreChunk
<1>3. CASE ReaderTests \/ ReadNothing \/ ReadError \/ AddRecvTask
  BY <1>3 DEF ReaderOK, ReaderTests, ReadNothing, ReadError, AddRecvTask
<1>4. CASE Main
  BY <1>4 DEF ReaderOK, Main, RegisterRecvCallback, Start, StartFails, StartCatches, StopBegins, StopClosesFd, StopJoins,
              CloseClears, reader
<1>5. CASE Writer
  BY <1>5 DEF ReaderOK, Writer, WriteTests, WriteStores, AddSendTask, reader
<1>6. ASSUME NEW w \in Workers, Task(w) PROVE ReaderOK'
  BY <1>6 DEF ReaderOK, Task, TaskBegins, PeekHeader, TestSize, ReadPacket, Deliver, Transmit, TransmitShort,
              TransmitFails, reader
<1>7. CASE UNCHANGED vars
  BY <1>7 DEF ReaderOK, vars, reader
<1> QED
  BY <1>1, <1>2, <1>3, <1>4, <1>5, <1>6, <1>7 DEF Next, Reader

LEMMA WriterType == TypeOK /\ [Next]_vars => WriterOK'
<1> SUFFICES ASSUME WriterOK, [Next]_vars PROVE WriterOK'
  BY DEF TypeOK
<1>0. Len(Ends["send"]) \in Nat
  BY Stream DEF Dirs
<1>1. CASE WriteTests
  BY <1>0, <1>1 DEF WriterOK, WriteTests
<1>2. CASE WriteStores
  BY <1>0, <1>2 DEF WriterOK, WriteStores
<1>3. CASE AddSendTask
  BY <1>0, <1>3 DEF WriterOK, AddSendTask
<1>4. CASE Main
  BY <1>4 DEF WriterOK, Main, RegisterRecvCallback, Start, StartFails, StartCatches, StopBegins, StopClosesFd, StopJoins,
              CloseClears, writer
<1>5. CASE Reader
  BY <1>5 DEF WriterOK, Reader, ReaderTests, ReadData, ReadNothing, ReadError, StoreChunk, AddRecvTask, writer
<1>6. ASSUME NEW w \in Workers, Task(w) PROVE WriterOK'
  BY <1>6 DEF WriterOK, Task, TaskBegins, PeekHeader, TestSize, ReadPacket, Deliver, Transmit, TransmitShort,
              TransmitFails, writer
<1>7. CASE UNCHANGED vars
  BY <1>7 DEF WriterOK, vars, writer
<1> QED
  BY <1>1, <1>2, <1>3, <1>4, <1>5, <1>6, <1>7 DEF Next, Writer

\* The steps that reach the buffers and the pool.
LEMMA Elsewhere ==
    [Next]_vars =>
        \/ UNCHANGED <<buffer, queue, worker, handed, overlapped>>
        \/ CloseClears \/ StoreChunk \/ AddRecvTask \/ WriteStores \/ AddSendTask
        \/ \E w \in Workers : Task(w)
<1> SUFFICES ASSUME [Next]_vars
             PROVE  \/ UNCHANGED <<buffer, queue, worker, handed, overlapped>>
                    \/ CloseClears \/ StoreChunk \/ AddRecvTask \/ WriteStores \/ AddSendTask
                    \/ \E w \in Workers : Task(w)
  OBVIOUS
<1>1. CASE RegisterRecvCallback \/ Start \/ StartFails \/ StartCatches \/ StopBegins \/ StopClosesFd \/ StopJoins
  BY <1>1 DEF RegisterRecvCallback, Start, StartFails, StartCatches, StopBegins, StopClosesFd, StopJoins, pool
<1>2. CASE ReaderTests \/ ReadData \/ ReadNothing \/ ReadError
  BY <1>2 DEF ReaderTests, ReadData, ReadNothing, ReadError, pool
<1>3. CASE WriteTests
  BY <1>3 DEF WriteTests, pool
<1>4. CASE UNCHANGED vars
  BY <1>4 DEF vars, pool
<1> QED
  BY <1>1, <1>2, <1>3, <1>4 DEF Next, Main, Reader, Writer

\* read() of the buffer, with as many bytes there as are asked for.
LEMMA PacketTaken ==
    ASSUME TypeOK, NEW w \in Workers, ReadPacket(w), NEW d \in Dirs, d = worker[w].dir,
           Len(buffer[d]) >= worker[w].total
    PROVE  /\ worker[w].pc = "read" /\ worker'[w].pc = "hand" /\ worker'[w].dir = d
           /\ worker' \in [Workers -> WorkerState]
           /\ \A v \in Workers \ {w} : worker'[v] = worker[v]
           /\ worker'[w].packet \in Seq(Nat) /\ Len(worker'[w].packet) = worker[w].total
           /\ worker'[w].total = worker[w].total
           /\ \A k \in 1 .. worker[w].total : worker'[w].packet[k] = buffer[d][k]
           /\ buffer' \in [Dirs -> Seq(Nat)]
           /\ Len(buffer'[d]) = Len(buffer[d]) - worker[w].total
           /\ \A k \in 1 .. Len(buffer[d]) - worker[w].total : buffer'[d][k] = buffer[d][worker[w].total + k]
           /\ \A e \in Dirs \ {d} : buffer'[e] = buffer[e]
<1> DEFINE n == worker[w].total
           b == buffer[d]
<1>1. n \in Nat /\ PoolOK /\ b \in Seq(Nat) /\ buffer \in [Dirs -> Seq(Nat)]
  BY WorkerFields DEF TypeOK, BufferOK
<1>2. Len(b) \in Nat /\ ~(Len(b) < n)
  BY <1>1, LenProperties
<1>3. /\ worker[w].pc = "read" /\ GoesOn(w, "hand", n, SubSeq(b, 1, n))
      /\ buffer' = [buffer EXCEPT ![d] = SubSeq(b, n + 1, Len(b))]
  BY <1>2 DEF ReadPacket
<1>4. /\ SubSeq(b, 1, n) \in Seq(Nat) /\ Len(SubSeq(b, 1, n)) = n
      /\ \A k \in 1 .. n : SubSeq(b, 1, n)[k] = b[k]
      /\ SubSeq(b, n + 1, Len(b)) \in Seq(Nat) /\ Len(SubSeq(b, n + 1, Len(b))) = Len(b) - n
      /\ \A k \in 1 .. Len(b) - n : SubSeq(b, n + 1, Len(b))[k] = b[n + k]
  BY <1>1, <1>2, Cut
<1>5. /\ worker' \in [Workers -> WorkerState] /\ worker'[w].pc = "hand" /\ worker'[w].dir = d
      /\ worker'[w].packet = SubSeq(b, 1, n) /\ worker'[w].total = n
      /\ \A v \in Workers \ {w} : worker'[v] = worker[v]
  <2> HIDE DEF n, b
  <2>1. "hand" \in {"peek", "size", "read", "hand"}
    OBVIOUS
  <2>2. /\ worker' \in [Workers -> WorkerState] /\ worker'[w].pc = "hand" /\ worker'[w].dir = worker[w].dir
        /\ worker'[w].total = n /\ worker'[w].packet = SubSeq(b, 1, n)
        /\ \A v \in Workers \ {w} : worker'[v] = worker[v]
    BY <1>1, <1>3, <1>4, <2>1, WentOn
  <2> QED
    BY <2>2
<1>6. /\ buffer' \in [Dirs -> Seq(Nat)] /\ buffer'[d] = SubSeq(b, n + 1, Len(b))
      /\ \A e \in Dirs \ {d} : buffer'[e] = buffer[e]
  BY <1>1, <1>3, <1>4
<1> HIDE DEF n, b
<1>7. worker'[w].packet \in Seq(Nat) /\ Len(worker'[w].packet) = n /\ \A k \in 1 .. n : worker'[w].packet[k] = b[k]
  BY <1>4, <1>5
<1>8. Len(buffer'[d]) = Len(b) - n /\ \A k \in 1 .. Len(b) - n : buffer'[d][k] = b[n + k]
  BY <1>4, <1>6
<1> QED
  BY <1>3, <1>5, <1>6, <1>7, <1>8 DEF n, b

LEMMA BufferType == TypeOK /\ [Next]_vars => BufferOK'
<1> SUFFICES ASSUME TypeOK, [Next]_vars PROVE BufferOK'
  OBVIOUS
<1>0. buffer \in [Dirs -> Seq(Nat)] /\ \A d \in Dirs : Len(buffer[d]) \in Nat /\ Len(buffer[d]) <= Capacity
  BY LenProperties DEF TypeOK, BufferOK
<1>1. Capacity \in Nat /\ "recv" \in Dirs /\ "send" \in Dirs
  BY DeviceAssumption DEF DeviceAssumption, Dirs
<1>2. CASE UNCHANGED buffer
  BY <1>2 DEF TypeOK, BufferOK
<1>3. CASE CloseClears
  <2>1. PICK d \in Dirs : buffer' = [buffer EXCEPT ![d] = <<>>]
    BY <1>1, <1>3 DEF CloseClears
  <2>2. <<>> \in Seq(Nat) /\ Len(<<>>) = 0
    OBVIOUS
  <2> QED
    BY <1>0, <1>1, <2>1, <2>2 DEF BufferOK
<1>4. CASE StoreChunk
  <2>1. chunk \in Seq(Nat)
    <3>1. Positions("recv") \subseteq Nat
      BY <1>1, StreamEnd DEF Positions
    <3> QED
      BY <3>1, SeqMonotonic DEF TypeOK, ReaderOK
  <2>2. buffer["recv"] \o chunk \in Seq(Nat) /\ Len(buffer["recv"] \o chunk) = Len(buffer["recv"]) + Len(chunk)
          /\ Len(chunk) \in Nat
    BY <1>0, <1>1, <2>1, Joined, LenProperties
  <2>3. CASE Fits("recv", chunk)
    <3>1. buffer' = [buffer EXCEPT !["recv"] = buffer["recv"] \o chunk]
      BY <1>4, <2>3 DEF StoreChunk
    <3>2. Len(buffer["recv"] \o chunk) <= Capacity
      BY <1>0, <1>1, <2>2, <2>3 DEF Fits
    <3> QED
      BY <1>0, <1>1, <2>2, <3>1, <3>2 DEF BufferOK
  <2> QED
    BY <1>2, <1>4, <2>3 DEF StoreChunk
<1>5. CASE WriteStores
  <2>1. next \in DOMAIN Ends["send"]
    BY <1>1, <1>5, Stream DEF WriteStores, TypeOK, WriterOK
  <2> DEFINE c == Packet("send", next)
  <2>2. c \in Seq(Nat)
    BY <1>1, <2>1, PacketBytes
  <2> HIDE DEF c
  <2>3. buffer["send"] \o c \in Seq(Nat) /\ Len(buffer["send"] \o c) = Len(buffer["send"]) + Len(c) /\ Len(c) \in Nat
    BY <1>0, <1>1, <2>2, Joined, LenProperties
  <2>4. CASE Fits("send", c)
    <3>1. buffer' = [buffer EXCEPT !["send"] = buffer["send"] \o c]
      BY <1>5, <2>4 DEF WriteStores, c
    <3>2. Len(buffer["send"] \o c) <= Capacity
      BY <1>0, <1>1, <2>3, <2>4 DEF Fits
    <3> QED
      BY <1>0, <1>1, <2>3, <3>1, <3>2 DEF BufferOK
  <2> QED
    BY <1>2, <1>5, <2>4 DEF WriteStores, c
<1>6. ASSUME NEW w \in Workers, ReadPacket(w) PROVE BufferOK'
  <2> DEFINE d == worker[w].dir
  <2>0. d \in Dirs /\ worker[w].total \in Nat
    BY WorkerFields DEF TypeOK
  <2>1. CASE Len(buffer[d]) < worker[w].total
    <3>1. buffer' = [buffer EXCEPT ![d] = <<>>]
      BY <1>6, <2>1 DEF ReadPacket
    <3>2. <<>> \in Seq(Nat) /\ Len(<<>>) = 0
      OBVIOUS
    <3> QED
      BY <1>0, <1>1, <2>0, <3>1, <3>2 DEF BufferOK
  <2>2. CASE Len(buffer[d]) >= worker[w].total
    <3>1. /\ buffer' \in [Dirs -> Seq(Nat)] /\ Len(buffer'[d]) = Len(buffer[d]) - worker[w].total
          /\ \A e \in Dirs \ {d} : buffer'[e] = buffer[e]
      BY <1>6, <2>0, <2>2, PacketTaken
    <3>2. Len(buffer'[d]) <= Capacity
      BY <1>0, <1>1, <2>0, <3>1
    <3> QED
      BY <1>0, <3>1, <3>2 DEF BufferOK
  <2> QED
    BY <1>0, <2>0, <2>1, <2>2
<1>7. CASE AddRecvTask \/ AddSendTask
  BY <1>2, <1>7 DEF AddRecvTask, AddSendTask
<1>8. ASSUME NEW w \in Workers, Task(w) PROVE BufferOK'
  BY <1>2, <1>6, <1>8 DEF Task, TaskBegins, PeekHeader, TestSize, Deliver, Transmit, TransmitShort, TransmitFails
<1> QED
  BY <1>2, <1>3, <1>4, <1>5, <1>7, <1>8, Elsewhere

\* A block is handed over.
LEMMA Handed ==
    ASSUME PoolOK, NEW d \in Dirs, NEW b \in Seq(Nat), handed' = [handed EXCEPT ![d] = Append(@, b)]
    PROVE  /\ handed' \in [Dirs -> Seq(Seq(Nat))]
           /\ Len(handed[d]) \in Nat /\ Len(handed'[d]) = Len(handed[d]) + 1
           /\ DOMAIN handed[d] = 1 .. Len(handed[d]) /\ DOMAIN handed'[d] = 1 .. Len(handed[d]) + 1
           /\ handed'[d][Len(handed[d]) + 1] = b
           /\ \A k \in DOMAIN handed[d] : handed'[d][k] = handed[d][k]
           /\ \A e \in Dirs \ {d} : handed'[e] = handed[e]
<1>1. handed \in [Dirs -> Seq(Seq(Nat))] /\ handed[d] \in Seq(Seq(Nat))
  BY DEF PoolOK
<1>2. /\ Append(handed[d], b) \in Seq(Seq(Nat)) /\ Len(Append(handed[d], b)) = Len(handed[d]) + 1
      /\ Append(handed[d], b)[Len(handed[d]) + 1] = b
      /\ \A k \in 1 .. Len(handed[d]) : Append(handed[d], b)[k] = handed[d][k]
  BY <1>1, AppendProperties
<1>3. handed'[d] = Append(handed[d], b) /\ \A e \in Dirs \ {d} : handed'[e] = handed[e]
  BY <1>1
<1>4. handed' \in [Dirs -> Seq(Seq(Nat))]
  BY <1>1, <1>2
<1>5. DOMAIN handed[d] = 1 .. Len(handed[d]) /\ Len(handed[d]) \in Nat /\ DOMAIN handed'[d] = 1 .. Len(handed'[d])
  BY <1>1, <1>4, LenProperties
<1> QED
  BY <1>2, <1>3, <1>4, <1>5

\* What a task gives to ::write or to the callback.
LEMMA GivenOut ==
    ASSUME PoolOK, NEW w \in Workers, Deliver(w) \/ Transmit(w) \/ TransmitShort(w)
    PROVE  /\ worker[w].pc = "hand"
           /\ GoesOn(w, "peek", 0, <<>>)
           /\ UNCHANGED <<life, buffer, queue, reader, writer, overlapped>>
           /\ \E b \in Seq(Nat) : handed' = [handed EXCEPT ![worker[w].dir] = Append(@, b)]
<1>0. worker[w].packet \in Seq(Nat)
  BY WorkerFields
<1>1. CASE Deliver(w) \/ Transmit(w)
  BY <1>0, <1>1 DEF Deliver, Transmit, Again
<1>2. CASE TransmitShort(w)
  <2>1. PICK n \in 1 .. worker[w].total - 1 :
            handed' = [handed EXCEPT !["send"] = Append(@, SubSeq(worker[w].packet, 1, n))]
    BY <1>2 DEF TransmitShort
  <2>2. handed' = [handed EXCEPT ![worker[w].dir] = Append(@, SubSeq(worker[w].packet, 1, n))]
    BY <1>2, <2>1 DEF TransmitShort
  <2>3. SubSeq(worker[w].packet, 1, n) \in Seq(Nat)
    <3>1. n \in Nat /\ n <= Len(worker[w].packet)
      BY <1>0, <1>2, WorkerFields DEF TransmitShort, PoolOK
    <3> QED
      BY <1>0, <3>1, Cut
  <2>4. worker[w].pc = "hand" /\ GoesOn(w, "peek", 0, <<>>) /\ UNCHANGED <<life, buffer, queue, reader, writer, overlapped>>
    BY <1>2 DEF TransmitShort, Again
  <2> QED
    BY <2>2, <2>3, <2>4
<1> QED
  BY <1>1, <1>2

\* What a step of a task makes of the worker.
LEMMA WorkerSteps ==
    ASSUME TypeOK, NEW w \in Workers, Task(w) /\ ~TaskBegins(w)
    PROVE  /\ worker' \in [Workers -> WorkerState] /\ worker[w].pc # "idle"
           /\ worker'[w].pc = "idle" \/ worker'[w].dir = worker[w].dir
           /\ worker'[w].pc = "hand" => Len(worker'[w].packet) = worker'[w].total
           /\ worker'[w].pc \in {"size", "read"} => worker'[w].total >= 3 \/ worker'[w].total = worker[w].total
           /\ worker'[w].pc = "read" => worker[w].pc = "size"
           /\ \A v \in Workers \ {w} : worker'[v] = worker[v]
           /\ UNCHANGED <<queue, overlapped>>
<1>0. PoolOK /\ <<>> \in Seq(Nat) /\ worker[w].total \in Nat /\ worker[w].dir \in Dirs
  BY WorkerFields DEF TypeOK
<1>1. CASE PeekHeader(w)
  <2>1. CASE Returns(w)
    BY <1>0, <1>1, <2>1, Returned DEF PeekHeader
  <2>2. ASSUME NEW n \in TotalLen(worker[w].dir), GoesOn(w, "size", n, <<>>)
        PROVE  /\ worker' \in [Workers -> WorkerState] /\ worker'[w].dir = worker[w].dir /\ worker'[w].pc = "size"
               /\ worker'[w].total >= 3 /\ \A v \in Workers \ {w} : worker'[v] = worker[v]
    <3>1. n \in Nat /\ n >= 3
      BY <1>0, TotalBounds
    <3> QED
      BY <1>0, <2>2, <3>1, WentOn
  <2> QED
    BY <1>1, <2>1, <2>2 DEF PeekHeader
<1>2. CASE TestSize(w)
  <2>1. CASE Returns(w)
    BY <1>0, <1>2, <2>1, Returned DEF TestSize
  <2>2. CASE GoesOn(w, "read", worker[w].total, <<>>)
    <3>1. /\ worker' \in [Workers -> WorkerState] /\ worker'[w].dir = worker[w].dir /\ worker'[w].pc = "read"
          /\ worker'[w].total = worker[w].total /\ \A v \in Workers \ {w} : worker'[v] = worker[v]
      BY <1>0, <2>2, WentOn
    <3> QED
      BY <1>2, <3>1 DEF TestSize
  <2> QED
    BY <1>2, <2>1, <2>2 DEF TestSize
<1>3. CASE ReadPacket(w)
  <2>0. worker[w].pc = "read" /\ UNCHANGED <<queue, overlapped>>
    BY <1>3 DEF ReadPacket
  <2>1. CASE Returns(w)
    BY <1>0, <2>0, <2>1, Returned
  <2>2. CASE Len(buffer[worker[w].dir]) >= worker[w].total
    BY <1>0, <1>3, <2>0, <2>2, PacketTaken
  <2>3. Len(buffer[worker[w].dir]) \in Nat
    BY <1>0, LenProperties DEF TypeOK, BufferOK
  <2> QED
    BY <1>0, <1>3, <2>1, <2>2, <2>3 DEF ReadPacket
<1>4. CASE Deliver(w) \/ Transmit(w) \/ TransmitShort(w)
  <2>1. worker[w].pc = "hand" /\ GoesOn(w, "peek", 0, <<>>) /\ UNCHANGED <<queue, overlapped>>
    BY <1>0, <1>4, GivenOut
  <2>2. /\ worker' \in [Workers -> WorkerState] /\ worker'[w].dir = worker[w].dir /\ worker'[w].pc = "peek"
        /\ \A v \in Workers \ {w} : worker'[v] = worker[v]
    BY <1>0, <2>1, WentOn
  <2> QED
    BY <2>1, <2>2
<1>5. CASE TransmitFails(w)
  BY <1>0, <1>5, Returned DEF TransmitFails
<1> QED
  BY <1>1, <1>2, <1>3, <1>4, <1>5 DEF Task

LEMMA PoolType == TypeOK /\ [Next]_vars => PoolOK'
<1> SUFFICES ASSUME TypeOK, [Next]_vars PROVE PoolOK'
  OBVIOUS
<1>0. PoolOK
  BY DEF TypeOK
<1>1. CASE AddRecvTask \/ AddSendTask
  <2>1. queue \in Seq(Dirs) /\ "recv" \in Dirs /\ "send" \in Dirs
    BY <1>0 DEF PoolOK, Dirs
  <2>2. Append(queue, "recv") \in Seq(Dirs) /\ Append(queue, "send") \in Seq(Dirs)
    BY <2>1, AppendProperties
  <2>3. queue' \in Seq(Dirs) /\ UNCHANGED <<worker, handed, overlapped>>
    BY <1>1, <2>2 DEF AddRecvTask, AddSendTask, AddTask, pool
  <2> QED
    BY <1>0, <2>3 DEF PoolOK
<1>2. CASE CloseClears \/ StoreChunk \/ WriteStores
  BY <1>0, <1>2 DEF CloseClears, StoreChunk, WriteStores, pool, PoolOK
<1>3. ASSUME NEW w \in Workers, TaskBegins(w) PROVE PoolOK'
  <2>1. handed' = handed /\ queue' \in Seq(Dirs)
    BY <1>0, <1>3, Begun DEF TaskBegins
  <2>2. CASE UNCHANGED <<worker, overlapped>>
    BY <1>0, <2>1, <2>2 DEF PoolOK
  <2>3. CASE ~UNCHANGED <<worker, overlapped>>
    <3>1. /\ worker' \in [Workers -> WorkerState] /\ worker'[w].pc = "peek"
          /\ \A v \in Workers \ {w} : worker'[v] = worker[v]
      BY <1>0, <1>3, <2>3, Begun
    <3>2. overlapped' \in BOOLEAN
      BY <1>0, <1>3, Zenon DEF TaskBegins, PoolOK
    <3> QED
      BY <1>0, <2>1, <3>1, <3>2 DEF PoolOK
  <2> QED
    BY <2>2, <2>3
<1>4. ASSUME NEW w \in Workers, Task(w), ~TaskBegins(w) PROVE PoolOK'
  <2>1. /\ worker' \in [Workers -> WorkerState] /\ UNCHANGED <<queue, overlapped>>
        /\ worker'[w].pc = "hand" => Len(worker'[w].packet) = worker'[w].total
        /\ \A v \in Workers \ {w} : worker'[v] = worker[v]
    BY <1>4, WorkerSteps
  <2>2. handed' \in [Dirs -> Seq(Seq(Nat))]
    <3>1. CASE Deliver(w) \/ Transmit(w) \/ TransmitShort(w)
      <4>1. PICK b \in Seq(Nat) : handed' = [handed EXCEPT ![worker[w].dir] = Append(@, b)]
        BY <1>0, <3>1, GivenOut
      <4> QED
        BY <1>0, <4>1, Handed, WorkerFields
    <3>2. CASE ~(Deliver(w) \/ Transmit(w) \/ TransmitShort(w))
      BY <1>0, <1>4, <3>2 DEF Task, PeekHeader, TestSize, ReadPacket, TransmitFails, PoolOK
    <3> QED
      BY <3>1, <3>2
  <2> QED
    BY <1>0, <2>1, <2>2 DEF PoolOK
<1>5. CASE UNCHANGED <<buffer, queue, worker, handed, overlapped>>
  BY <1>0, <1>5 DEF PoolOK
<1> QED
  BY <1>1, <1>2, <1>3, <1>4, <1>5, Elsewhere

LEMMA TypeStep == TypeOK /\ [Next]_vars => TypeOK'
BY LifeType, FaultType, ReaderType, WriterType, BufferType, PoolType DEF TypeOK
-----------------------------------------------------------------------------
(* No packet is left without a task                                        *)

\* A task is added behind those that wait.
LEMMA Queued ==
    ASSUME PoolOK, NEW e \in Dirs, AddTask(e)
    PROVE  /\ \A k \in DOMAIN queue : k \in DOMAIN queue' /\ queue'[k] = queue[k]
           /\ \E k \in DOMAIN queue' : queue'[k] = e
           /\ \A k \in DOMAIN queue' : (k \in DOMAIN queue /\ queue'[k] = queue[k]) \/ queue'[k] = e
<1>1. queue \in Seq(Dirs) /\ Len(queue) \in Nat /\ DOMAIN queue = 1 .. Len(queue) /\ queue' = Append(queue, e)
  BY LenProperties DEF PoolOK, AddTask
<1>2. /\ queue' \in Seq(Dirs) /\ Len(queue') = Len(queue) + 1
      /\ \A i \in 1 .. Len(queue) : queue'[i] = queue[i]
      /\ queue'[Len(queue) + 1] = e
  BY <1>1, AppendProperties
<1>3. DOMAIN queue' = 1 .. Len(queue) + 1
  BY <1>2, LenProperties
<1>4. Len(queue) \in Nat
  BY <1>1
<1>5. \A k \in 1 .. Len(queue) + 1 : k \in 1 .. Len(queue) \/ k = Len(queue) + 1
  BY <1>4
<1>6. Len(queue) + 1 \in 1 .. Len(queue) + 1 /\ \A k \in 1 .. Len(queue) : k \in 1 .. Len(queue) + 1
  BY <1>4
<1> QED
  BY <1>1, <1>2, <1>3, <1>5, <1>6

LEMMA LifeStep == TypeOK /\ LifeInv /\ [Next]_vars => LifeInv'
<1> SUFFICES ASSUME TypeOK, LifeInv, [Next]_vars PROVE LifeInv'
  OBVIOUS
<1>0. queue \in Seq(Dirs) /\ DOMAIN queue = 1 .. Len(queue) /\ Len(queue) \in Nat /\ PoolOK
  BY LenProperties DEF TypeOK, PoolOK
<1>1. CASE Main
  <2> USE <1>1 DEF LifeInv, LifeOK, reader, pool, writer
  <2>1. UNCHANGED <<queue, chunk>>
    BY DEF Main, RegisterRecvCallback, Start, StartFails, StartCatches, StopBegins, StopClosesFd, StopJoins, CloseClears
  <2>2. CASE RegisterRecvCallback \/ Start \/ StartFails \/ StartCatches
    BY <2>1, <2>2 DEF RegisterRecvCallback, Start, StartFails, StartCatches
  <2>3. CASE StopBegins
    BY <2>1, <2>3 DEF StopBegins
  <2>4. CASE StopClosesFd \/ StopJoins \/ CloseClears
    BY <2>1, <2>4 DEF StopClosesFd, StopJoins, CloseClears
  <2> QED
    BY <2>2, <2>3, <2>4 DEF Main
<1>2. CASE ReaderTests \/ ReadData \/ ReadNothing \/ ReadError \/ StoreChunk
  BY <1>2 DEF LifeInv, ReaderTests, ReadData, ReadNothing, ReadError, StoreChunk, life, writer, pool
<1>3. CASE AddRecvTask
  <2>1. recvCallback_' /\ UNCHANGED life
    BY <1>3 DEF LifeInv, AddRecvTask, life
  <2> QED
    BY <1>3, <2>1 DEF LifeInv, AddRecvTask, life
<1>4. CASE AddSendTask
  <2>1. queue' = Append(queue, "send") /\ "send" \in Dirs /\ UNCHANGED <<life, reader>>
    BY <1>4 DEF AddSendTask, AddTask, Dirs
  <2>2. \A k \in DOMAIN queue' : (k \in DOMAIN queue /\ queue'[k] = queue[k]) \/ queue'[k] = "send"
    BY <1>0, <1>4, <2>1, Queued DEF AddSendTask
  <2> QED
    BY <2>1, <2>2 DEF LifeInv, life, reader
<1>5. CASE WriteTests \/ WriteStores \/ UNCHANGED vars
  BY <1>5 DEF LifeInv, WriteTests, WriteStores, vars, life, reader, pool
<1>6. ASSUME NEW w \in Workers, Task(w) PROVE LifeInv'
  <2>1. UNCHANGED <<life, reader>>
    BY <1>6 DEF Task, TaskBegins, PeekHeader, TestSize, ReadPacket, Deliver, Transmit, TransmitShort, TransmitFails
  <2>2. \A k \in DOMAIN queue' : \E j \in DOMAIN queue : queue'[k] = queue[j]
    <3>1. CASE TaskBegins(w)
      BY <1>0, <3>1, Begun
    <3>2. CASE ~TaskBegins(w)
      BY <1>6, <3>2, WorkerSteps
    <3> QED
      BY <3>1, <3>2
  <2> QED
    BY <2>1, <2>2 DEF LifeInv, life, reader
<1> QED
  BY <1>1, <1>2, <1>3, <1>4, <1>5, <1>6 DEF Next, Reader, Writer

\* The file stays closed and failures are counted for good.
LEMMA FaultsStay == TypeOK /\ [Next]_vars => (faults' = 0 => faults = 0) /\ (open' => open)
<1> SUFFICES ASSUME TypeOK, [Next]_vars PROVE (faults' = 0 => faults = 0) /\ (open' => open)
  OBVIOUS
<1>0. faults \in Nat /\ open \in BOOLEAN
  BY DEF TypeOK, LifeOK
<1>1. faults' = 0 => faults' = faults
  BY <1>0 DEF Next, Main, RegisterRecvCallback, Start, StartFails, StartCatches, StopBegins, StopClosesFd, StopJoins,
     CloseClears, Reader, ReaderTests, ReadData, ReadNothing, ReadError, StoreChunk, AddRecvTask, Writer, WriteTests,
     WriteStores, AddSendTask, Task, TaskBegins, PeekHeader, TestSize, ReadPacket, Deliver, Transmit, TransmitShort,
     TransmitFails, Fault, vars
<1>2. open' => open
  BY DEF Next, Main, RegisterRecvCallback, Start, StartFails, StartCatches, StopBegins, StopClosesFd, StopJoins,
     CloseClears, Reader, ReaderTests, ReadData, ReadNothing, ReadError, StoreChunk, AddRecvTask, Writer, WriteTests,
     WriteStores, AddSendTask, Task, TaskBegins, PeekHeader, TestSize, ReadPacket, Deliver, Transmit, TransmitShort,
     TransmitFails, life, vars
<1> QED
  BY <1>1, <1>2

LEMMA WorksStays == TypeOK /\ [Next]_vars => \A d \in Dirs : Works(d)' => Works(d)
BY FaultsStay DEF Works

\* A complete packet at the front: its bytes, and what a task reads of its header.
LEMMA CompleteTells ==
    ASSUME TypeOK, NEW d \in Dirs, Complete(d)
    PROVE  Len(buffer[d]) >= 3 /\ \A n \in TotalLen(d) : n <= Len(buffer[d])
<1>1. PICK p \in DOMAIN Ends[d] :
          Len(buffer[d]) >= Length(d, p) /\ SubSeq(buffer[d], 1, Length(d, p)) = Packet(d, p)
  BY DEF Complete
<1>2. Length(d, p) \in Nat /\ Length(d, p) >= 3 /\ buffer[d] \in Seq(Nat) /\ Len(buffer[d]) \in Nat
  BY FirstBounds, LenProperties DEF TypeOK, BufferOK
<1>3. \A k \in 1 .. Length(d, p) : buffer[d][k] = First(d, p) + k - 1
  BY <1>1, <1>2, Cut, PacketBytes
<1>4. Len(buffer[d]) >= 3 /\ \A k \in 1 .. 3 : k \in 1 .. Length(d, p)
  <2>1. Len(buffer[d]) >= Length(d, p)
    BY <1>1
  <2>2. Length(d, p) \in Nat /\ Length(d, p) >= 3 /\ Len(buffer[d]) \in Nat
    BY <1>2
  <2> QED
    BY <2>1, <2>2
<1>5. TotalLen(d) = {Length(d, p)}
  BY <1>2, <1>3, <1>4, HeaderTells
<1> QED
  BY <1>1, <1>4, <1>5

LEMMA StrandedStep == TypeOK /\ LifeInv /\ StrandedInv /\ [Next]_vars => StrandedInv'
<1> SUFFICES ASSUME TypeOK, LifeInv, StrandedInv, [Next]_vars, NEW d \in Dirs, Complete(d)', Works(d)'
             PROVE  \/ \E k \in DOMAIN queue' : queue'[k] = d
                    \/ \E w \in Workers : Awake(w, d)'
                    \/ IF d = "recv" THEN rpc' = "task" ELSE opc' = "task"
  BY DEF StrandedInv
<1> DEFINE Goal == \/ \E k \in DOMAIN queue' : queue'[k] = d
                   \/ \E w \in Workers : Awake(w, d)'
                   \/ IF d = "recv" THEN rpc' = "task" ELSE opc' = "task"
           Before == \/ \E k \in DOMAIN queue : queue[k] = d
                     \/ \E w \in Workers : Awake(w, d)
                     \/ IF d = "recv" THEN rpc = "task" ELSE opc = "task"
<1>0. Works(d)
  BY WorksStays
<1>1. PoolOK /\ queue \in Seq(Dirs) /\ DOMAIN queue = 1 .. Len(queue) /\ Len(queue) \in Nat
        /\ \A e \in Dirs : buffer[e] \in Seq(Nat) /\ Len(buffer[e]) \in Nat
  BY LenProperties DEF TypeOK, PoolOK, BufferOK
<1>2. buffer' \in [Dirs -> Seq(Nat)] /\ TypeOK'
  BY TypeStep DEF TypeOK, BufferOK
<1>3. ASSUME UNCHANGED buffer[d] PROVE Complete(d) /\ Before
  BY <1>0, <1>3 DEF StrandedInv, Complete
<1>4. ASSUME UNCHANGED <<buffer, queue, worker>>, rpc = "task" => rpc' = "task", opc = "task" => opc' = "task" PROVE Goal
  BY <1>3, <1>4 DEF Awake
<1> HIDE DEF Goal, Before
<1>5. ASSUME buffer'[d] = <<>> PROVE FALSE
  <2>1. PICK p \in DOMAIN Ends[d] : Len(buffer'[d]) >= Length(d, p)
    BY DEF Complete
  <2>2. Length(d, p) \in Nat /\ Length(d, p) >= 3 /\ Len(buffer'[d]) = 0
    BY <1>5, FirstBounds
  <2> QED
    BY <2>1, <2>2
<1>6. ASSUME Main PROVE Goal
  <2>1. UNCHANGED <<queue, worker, opc>> /\ (rpc = "task" => rpc' = "task")
    BY <1>6 DEF LifeInv, Main, RegisterRecvCallback, Start, StartFails, StartCatches, StopBegins, StopClosesFd, StopJoins,
            CloseClears, pool, writer, reader
  <2>2. buffer'[d] = <<>> \/ UNCHANGED buffer[d]
    BY <1>1, <1>6 DEF Main, RegisterRecvCallback, Start, StartFails, StartCatches, StopBegins, StopClosesFd, StopJoins,
            CloseClears, TypeOK, BufferOK
  <2> QED
    BY <1>3, <1>5, <2>1, <2>2 DEF Goal, Before, Awake
<1>7. ASSUME ReaderTests \/ ReadData \/ ReadNothing \/ ReadError \/ WriteTests \/ UNCHANGED vars PROVE Goal
  <2>1. UNCHANGED <<buffer, queue, worker>> /\ (rpc # "task" \/ UNCHANGED rpc)
    BY <1>7 DEF ReaderTests, ReadData, ReadNothing, ReadError, WriteTests, pool, vars, reader
  <2>2. UNCHANGED <<buffer, queue, worker>> /\ (opc # "task" \/ UNCHANGED opc)
    BY <1>7 DEF ReaderTests, ReadData, ReadNothing, ReadError, WriteTests, pool, vars, writer
  <2> QED
    BY <1>3, <2>1, <2>2 DEF Goal, Before, Awake
<1>8. ASSUME StoreChunk PROVE Goal
  <2>1. CASE rpc' = "task" /\ d = "recv"
    BY <2>1 DEF Goal
  <2>2. CASE UNCHANGED buffer[d]
    <3>1. UNCHANGED <<queue, worker, opc>> /\ rpc # "task"
      BY <1>8 DEF StoreChunk, pool, writer
    <3> QED
      BY <1>3, <2>2, <3>1 DEF Goal, Before, Awake
  <2> QED
    BY <1>1, <1>8, <2>1, <2>2 DEF StoreChunk, TypeOK, BufferOK, Dirs
<1>9. ASSUME WriteStores PROVE Goal
  <2>1. CASE opc' = "task" /\ d = "send"
    BY <2>1 DEF Goal
  <2>2. CASE UNCHANGED buffer[d]
    <3>1. UNCHANGED <<queue, worker, rpc>> /\ opc # "task"
      BY <1>9 DEF WriteStores, pool, reader
    <3> QED
      BY <1>3, <2>2, <3>1 DEF Goal, Before, Awake
  <2> QED
    BY <1>1, <1>9, <2>1, <2>2 DEF WriteStores, TypeOK, BufferOK, Dirs
<1>10. ASSUME NEW e \in Dirs, AddTask(e), UNCHANGED <<buffer, worker>>,
              e # "recv" => UNCHANGED rpc, e # "send" => UNCHANGED opc
       PROVE  Goal
  <2>1. \A k \in DOMAIN queue : k \in DOMAIN queue' /\ queue'[k] = queue[k]
    BY <1>1, <1>10, Queued
  <2>2. \E k \in DOMAIN queue' : queue'[k] = e
    BY <1>1, <1>10, Queued
  <2>3. Before
    BY <1>3, <1>10
  <2> QED
    BY <1>10, <2>1, <2>2, <2>3 DEF Goal, Before, Awake, Dirs
<1>11. ASSUME AddRecvTask \/ AddSendTask PROVE Goal
  <2>1. CASE AddRecvTask
    BY <1>10, <2>1 DEF AddRecvTask, life, writer, pool, Dirs
  <2>2. CASE AddSendTask
    BY <1>10, <2>2 DEF AddSendTask, life, reader, pool, Dirs
  <2> QED
    BY <1>11, <2>1, <2>2
<1>12. ASSUME NEW w \in Workers, TaskBegins(w) PROVE Goal
  <2>1. UNCHANGED <<buffer, rpc, opc>>
    BY <1>12 DEF TaskBegins, reader, writer
  <2>2. Before
    BY <1>3, <2>1
  <2>3. CASE \E v \in Workers : Awake(v, d)
    <3>1. PICK v \in Workers : Awake(v, d)
      BY <2>3
    <3>2. v # w /\ worker'[v] = worker[v]
      BY <1>1, <1>12, <3>1, Begun DEF Awake
    <3>3. Awake(v, d)'
      BY <2>1, <3>1, <3>2 DEF Awake
    <3> QED
      BY <3>3 DEF Goal
  <2>4. CASE \E k \in DOMAIN queue : queue[k] = d
    <3>1. PICK k \in DOMAIN queue : queue[k] = d
      BY <2>4
    <3>2. CASE k = 1
      <4>1. recvCallback_ \/ queue[1] # "recv"
        BY <1>1, <3>1, <3>2 DEF LifeInv
      <4>2. worker'[w].pc = "peek" /\ worker'[w].dir = d
        BY <1>1, <1>12, <3>1, <3>2, <4>1, Begun
      <4> QED
        BY <4>2 DEF Goal, Awake
    <3>3. CASE k # 1
      <4>1. k - 1 \in DOMAIN queue' /\ queue'[k - 1] = d
        BY <1>1, <1>12, <3>1, <3>3, Begun
      <4> QED
        BY <4>1 DEF Goal
    <3> QED
      BY <3>2, <3>3
  <2> QED
    BY <2>1, <2>2, <2>3, <2>4 DEF Goal, Before
<1>13. ASSUME NEW w \in Workers, Task(w), ~TaskBegins(w), UNCHANGED buffer[d],
              Awake(w, d) => Awake(w, d)'
       PROVE  Goal
  <2>1. Before /\ UNCHANGED <<rpc, opc>>
    BY <1>3, <1>13 DEF Task, PeekHeader, TestSize, ReadPacket, Deliver, Transmit, TransmitShort, TransmitFails,
                       reader, writer
  <2>2. UNCHANGED queue /\ \A v \in Workers \ {w} : worker'[v] = worker[v]
    BY <1>13, WorkerSteps
  <2>3. \A v \in Workers \ {w} : Awake(v, d) => Awake(v, d)'
    BY <1>13, <2>2 DEF Awake
  <2> QED
    BY <1>13, <2>1, <2>2, <2>3 DEF Goal, Before
<1>14. ASSUME NEW w \in Workers, Task(w), ~TaskBegins(w) PROVE Goal
  <2>0. worker[w].dir \in Dirs /\ worker[w].total \in Nat /\ <<>> \in Seq(Nat)
    BY <1>1, WorkerFields
  <2>1. CASE worker[w].dir # d
    <3>1. UNCHANGED buffer[d] /\ ~Awake(w, d)
      BY <1>1, <1>14, <2>0, <2>1 DEF Task, PeekHeader, TestSize, ReadPacket, Deliver, Transmit, TransmitShort, TransmitFails,
                        TypeOK, BufferOK, Awake
    <3> QED
      BY <1>13, <1>14, <3>1
  <2>2. CASE worker[w].dir = d /\ PeekHeader(w)
    <3>1. UNCHANGED buffer /\ Complete(d)
      BY <1>3, <2>2 DEF PeekHeader
    <3>2. PICK n \in TotalLen(d) : GoesOn(w, "size", n, <<>>) /\ n <= Len(buffer[d])
      BY <1>1, <2>2, <3>1, CompleteTells DEF PeekHeader
    <3>3. worker'[w].pc = "size" /\ worker'[w].dir = d /\ worker'[w].total = n
      <4>1. n \in Nat
        BY <3>2, TotalBounds
      <4>2. PoolOK /\ GoesOn(w, "size", n, <<>>) /\ <<>> \in Seq(Nat)
        BY <1>1, <2>0, <3>2
      <4>3. worker'[w].pc = "size" /\ worker'[w].dir = worker[w].dir /\ worker'[w].total = n
        BY <4>1, <4>2, WentOn
      <4> QED
        BY <2>2, <4>3
    <3> QED
      BY <3>1, <3>2, <3>3 DEF Goal, Awake
  <2>3. CASE worker[w].dir = d /\ TestSize(w)
    <3>1. UNCHANGED buffer /\ worker[w].pc = "size"
      BY <2>3 DEF TestSize
    <3>2. ASSUME Awake(w, d) PROVE Awake(w, d)'
      <4>1. GoesOn(w, "read", worker[w].total, <<>>)
        BY <1>1, <2>0, <2>3, <3>1, <3>2 DEF TestSize, Awake
      <4>2. worker'[w].pc = "read" /\ worker'[w].dir = d
        BY <1>1, <2>0, <2>3, <4>1, WentOn
      <4> QED
        BY <4>2 DEF Awake
    <3> QED
      BY <1>13, <1>14, <3>1, <3>2
  <2>4. CASE worker[w].dir = d /\ ReadPacket(w)
    <3>1. CASE Len(buffer[d]) < worker[w].total
      <4>1. buffer'[d] = <<>>
        BY <1>1, <2>0, <2>4, <3>1 DEF ReadPacket, TypeOK, BufferOK
      <4> QED
        BY <1>5, <4>1
    <3>2. CASE Len(buffer[d]) >= worker[w].total
      <4>1. worker'[w].pc = "hand" /\ worker'[w].dir = d
        BY <2>4, <3>2, PacketTaken
      <4> QED
        BY <4>1 DEF Goal, Awake
    <3> QED
      BY <1>1, <2>0, <3>1, <3>2
  <2>5. CASE worker[w].dir = d /\ (Deliver(w) \/ Transmit(w) \/ TransmitShort(w))
    <3>1. GoesOn(w, "peek", 0, <<>>)
      BY <1>1, <2>5, GivenOut
    <3>2. worker'[w].pc = "peek" /\ worker'[w].dir = d
      BY <1>1, <2>0, <2>5, <3>1, WentOn
    <3> QED
      BY <3>2 DEF Goal, Awake
  <2>6. CASE worker[w].dir = d /\ TransmitFails(w)
    <3>1. faults \in Nat /\ d = "send"
      BY <2>6 DEF TransmitFails, TypeOK
    <3>2. faults' # 0 \/ ~open'
      BY <2>6, <3>1 DEF TransmitFails, Fault, life
    <3> QED
      BY <3>1, <3>2 DEF Works
  <2> QED
    BY <1>14, <2>1, <2>2, <2>3, <2>4, <2>5, <2>6 DEF Task
<1> QED
  BY <1>6, <1>7, <1>8, <1>9, <1>11, <1>12, <1>14 DEF Next, Reader, Writer, Goal
-----------------------------------------------------------------------------
(* One task at a time                                                      *)

LEMMA TotalStep == TypeOK /\ TotalInv /\ [Next]_vars => TotalInv'
<1> SUFFICES ASSUME TypeOK, TotalInv, [Next]_vars PROVE TotalInv'
  OBVIOUS
<1>1. CASE UNCHANGED worker
  BY <1>1 DEF TotalInv
<1>2. ASSUME NEW w \in Workers, TaskBegins(w) PROVE TotalInv'
  <2>1. \/ UNCHANGED worker
        \/ worker'[w].pc = "peek" /\ \A v \in Workers \ {w} : worker'[v] = worker[v]
    BY <1>2, Begun DEF TypeOK
  <2> QED
    BY <1>1, <2>1 DEF TotalInv
<1>3. ASSUME NEW w \in Workers, Task(w), ~TaskBegins(w) PROVE TotalInv'
  <2>1. /\ worker'[w].pc \in {"size", "read"} => worker'[w].total >= 3 \/ worker'[w].total = worker[w].total
        /\ worker'[w].pc = "read" => worker[w].pc = "size"
        /\ \A v \in Workers \ {w} : worker'[v] = worker[v]
    BY <1>3, WorkerSteps
  <2>2. worker'[w].pc = "size" => worker'[w].total >= 3
    <3>1. CASE PeekHeader(w)
      <4>1. CASE Returns(w)
        BY <4>1, Returned DEF TypeOK
      <4>2. ASSUME NEW n \in TotalLen(worker[w].dir), GoesOn(w, "size", n, <<>>) PROVE worker'[w].total >= 3
        <5>1. n \in Nat /\ n >= 3 /\ <<>> \in Seq(Nat)
          BY TotalBounds, WorkerFields DEF TypeOK
        <5> QED
          BY <4>2, <5>1, WentOn DEF TypeOK
      <4> QED
        BY <3>1, <4>1, <4>2 DEF PeekHeader
    <3>2. CASE TestSize(w) \/ TransmitFails(w)
      <4>1. Returns(w) \/ GoesOn(w, "read", worker[w].total, <<>>)
        BY <3>2 DEF TestSize, TransmitFails
      <4>2. <<>> \in Seq(Nat) /\ worker[w].total \in Nat
        BY WorkerFields DEF TypeOK
      <4> QED
        BY <4>1, <4>2, Returned, WentOn DEF TypeOK
    <3>3. CASE ReadPacket(w)
      <4>1. CASE Returns(w)
        BY <4>1, Returned DEF TypeOK
      <4>2. CASE Len(buffer[worker[w].dir]) >= worker[w].total
        BY <3>3, <4>2, PacketTaken, WorkerFields DEF TypeOK
      <4>3. Len(buffer[worker[w].dir]) \in Nat /\ worker[w].total \in Nat
        BY LenProperties, WorkerFields DEF TypeOK, BufferOK
      <4> QED
        BY <3>3, <4>1, <4>2, <4>3 DEF ReadPacket
    <3>4. CASE Deliver(w) \/ Transmit(w) \/ TransmitShort(w)
      <4>1. GoesOn(w, "peek", 0, <<>>) /\ <<>> \in Seq(Nat)
        BY <3>4, GivenOut DEF TypeOK
      <4> QED
        BY <4>1, WentOn DEF TypeOK
    <3> QED
      BY <1>3, <3>1, <3>2, <3>3, <3>4 DEF Task
  <2> QED
    BY <2>1, <2>2 DEF TotalInv
<1>4. CASE CloseClears \/ StoreChunk \/ AddRecvTask \/ WriteStores \/ AddSendTask
  BY <1>1, <1>4 DEF CloseClears, StoreChunk, AddRecvTask, WriteStores, AddSendTask, pool
<1> QED
  BY <1>1, <1>2, <1>3, <1>4, Elsewhere

\* The workers in the loop of a direction, and what they do, stay the same.
SameLoop(d) == InLoop(d)' = InLoop(d) /\ \A w \in InLoop(d) : worker'[w] = worker[w]

\* Another task is in the loop now, which has only begun.
LEMMA LoopBegins ==
    ASSUME TypeOK, NEW w \in Workers, TaskBegins(w), NEW d \in Dirs
    PROVE  \/ SameLoop(d) /\ (overlapped => overlapped')
           \/ /\ InLoop(d)' = InLoop(d) \cup {w} /\ worker'[w].pc = "peek" /\ overlapped' = (overlapped \/ InLoop(d) # {})
              /\ \A v \in InLoop(d) : v # w /\ worker'[v] = worker[v]
<1>0. PoolOK /\ worker[w].pc = "idle"
  BY DEF TypeOK, TaskBegins
<1>1. CASE UNCHANGED <<worker, overlapped>>
  BY <1>1 DEF SameLoop, InLoop
<1>2. CASE ~UNCHANGED <<worker, overlapped>>
  <2>1. /\ overlapped' = (overlapped \/ InLoop(queue[1]) # {})
        /\ worker'[w].pc = "peek" /\ worker'[w].dir = queue[1]
        /\ \A v \in Workers \ {w} : worker'[v] = worker[v]
    BY <1>0, <1>2, Begun
  <2>2. CASE queue[1] = d
    <3>1. InLoop(d)' = InLoop(d) \cup {w}
      BY <1>0, <2>1, <2>2 DEF InLoop
    <3>2. \A v \in InLoop(d) : v # w /\ worker'[v] = worker[v]
      BY <1>0, <2>1 DEF InLoop
    <3>3. overlapped' = (overlapped \/ InLoop(d) # {})
      BY <2>1, <2>2
    <3> QED
      BY <2>1, <3>1, <3>2, <3>3
  <2>3. CASE queue[1] # d
    <3>1. SameLoop(d)
      BY <1>0, <2>1, <2>3 DEF SameLoop, InLoop
    <3>2. overlapped => overlapped'
      BY <2>1, Zenon
    <3> QED
      BY <3>1, <3>2
  <2> QED
    BY <2>2, <2>3
<1> QED
  BY <1>1, <1>2

\* A task that is alone in its loop; the other direction does not notice.
LEMMA LoopGoesOn ==
    ASSUME TypeOK, SingleInv, NEW w \in Workers, Task(w) /\ ~TaskBegins(w), NEW d \in Dirs, d = worker[w].dir
    PROVE  /\ UNCHANGED overlapped /\ w \in InLoop(d)
           /\ \A v \in InLoop(d)' : v \in InLoop(d) /\ (v # w => worker'[v] = worker[v])
           /\ \A e \in Dirs \ {d} : SameLoop(e)
           /\ ~overlapped => InLoop(d) = {w} /\ InLoop(d)' = (IF worker'[w].pc = "idle" THEN {} ELSE {w})
<1>1. /\ worker[w].pc # "idle" /\ (worker'[w].pc = "idle" \/ worker'[w].dir = d)
      /\ \A v \in Workers \ {w} : worker'[v] = worker[v]
      /\ UNCHANGED overlapped
  BY WorkerSteps
<1>2. w \in InLoop(d)
  BY <1>1 DEF InLoop
<1>3. \A e \in Dirs \ {d} : SameLoop(e)
  BY <1>1 DEF SameLoop, InLoop
<1>4. \A v \in InLoop(d)' : v \in InLoop(d) /\ (v # w => worker'[v] = worker[v])
  BY <1>1, <1>2 DEF InLoop
<1>5. ~overlapped => InLoop(d) = {w}
  BY <1>2 DEF SingleInv
<1>6. ~overlapped => InLoop(d)' = (IF worker'[w].pc = "idle" THEN {} ELSE {w})
  BY <1>1, <1>4, <1>5 DEF InLoop
<1> QED
  BY <1>1, <1>2, <1>3, <1>4, <1>5, <1>6

LEMMA SingleStep == TypeOK /\ SingleInv /\ [Next]_vars => SingleInv'
<1> SUFFICES ASSUME TypeOK, SingleInv, [Next]_vars, ~overlapped', NEW d \in Dirs,
                    NEW u \in InLoop(d)', NEW v \in InLoop(d)'
             PROVE  u = v
  BY DEF SingleInv
<1>1. CASE UNCHANGED <<worker, overlapped>>
  BY <1>1 DEF SingleInv, InLoop
<1>2. ASSUME NEW w \in Workers, TaskBegins(w) PROVE u = v
  <2>1. CASE SameLoop(d) /\ (overlapped => overlapped')
    BY <2>1 DEF SingleInv, SameLoop
  <2>2. CASE InLoop(d)' = InLoop(d) \cup {w} /\ overlapped' = (overlapped \/ InLoop(d) # {})
    BY <2>2
  <2> QED
    BY <1>2, <2>1, <2>2, LoopBegins
<1>3. ASSUME NEW w \in Workers, Task(w), ~TaskBegins(w) PROVE u = v
  <2>1. UNCHANGED overlapped /\ worker[w].dir \in Dirs
    BY <1>3, WorkerSteps, WorkerFields DEF TypeOK
  <2>2. u \in InLoop(d) /\ v \in InLoop(d)
    BY <1>3, <2>1, LoopGoesOn DEF SameLoop
  <2> QED
    BY <2>1, <2>2 DEF SingleInv
<1>4. CASE CloseClears \/ StoreChunk \/ AddRecvTask \/ WriteStores \/ AddSendTask
  BY <1>1, <1>4 DEF CloseClears, StoreChunk, AddRecvTask, WriteStores, AddSendTask, pool
<1> QED
  BY <1>1, <1>2, <1>3, <1>4, Elsewhere
-----------------------------------------------------------------------------
(* The callback gets the packets from the first on                         *)

LEMMA RecvFrame ==
    ASSUME RecvInv, SameLoop("recv"), Cleared' = Cleared, overlapped => overlapped',
           UNCHANGED <<buffer["recv"], handed["recv"], chunk, taken, discarded>>
    PROVE  RecvInv'
<1>1. Holding("recv")' = Holding("recv")
  BY DEF Holding, SameLoop
<1>2. Out("recv")' = Out("recv")
  BY <1>1 DEF Out
<1>3. InStep => InStep'
  BY <1>2 DEF InStep, SameLoop
<1> QED
  BY <1>2, <1>3 DEF RecvInv, SameLoop

\* How many packets are out is in range, and what follows them in the stream.
LEMMA OutBounds ==
    ASSUME TypeOK, Out("recv") <= Len(Ends["recv"])
    PROVE  /\ Out("recv") \in Nat /\ Len(handed["recv"]) \in Nat
           /\ Out("recv") \in 0 .. Len(Ends["recv"])
           /\ First("recv", Out("recv") + 1) \in Nat
           /\ StreamLen("recv") \in Nat /\ taken \in Nat /\ taken <= StreamLen("recv")
           /\ buffer["recv"] \in Seq(Nat) /\ Len(buffer["recv"]) \in Nat /\ DOMAIN buffer["recv"] = 1 .. Len(buffer["recv"])
           /\ chunk \in Seq(Nat) /\ Len(chunk) \in Nat /\ DOMAIN chunk = 1 .. Len(chunk)
           /\ Len(Ends["recv"]) \in Nat
<1>0. "recv" \in Dirs
  BY DEF Dirs
<1>1. Len(handed["recv"]) \in Nat
  BY <1>0, LenProperties DEF TypeOK, PoolOK
<1>2. Out("recv") \in Nat
  BY <1>1 DEF Out
<1>3. Len(Ends["recv"]) \in Nat
  BY <1>0, Stream
<1>4. Out("recv") \in 0 .. Len(Ends["recv"])
  BY <1>2, <1>3
<1>5. First("recv", Out("recv") + 1) \in Nat /\ StreamLen("recv") \in Nat
  BY <1>0, <1>4, StreamEnd
<1>6. taken \in Nat /\ taken <= StreamLen("recv")
  BY <1>5 DEF TypeOK, ReaderOK
<1>7. Positions("recv") \subseteq Nat
  BY <1>5 DEF Positions
<1>8. chunk \in Seq(Nat)
  BY <1>7, SeqMonotonic DEF TypeOK, ReaderOK
<1>9. Len(chunk) \in Nat /\ DOMAIN chunk = 1 .. Len(chunk)
  BY <1>8, LenProperties
<1>10. buffer["recv"] \in Seq(Nat) /\ Len(buffer["recv"]) \in Nat /\ DOMAIN buffer["recv"] = 1 .. Len(buffer["recv"])
  BY <1>0, LenProperties DEF TypeOK, BufferOK
<1> QED
  BY <1>1, <1>2, <1>3, <1>4, <1>5, <1>6, <1>8, <1>9, <1>10

LEMMA RecvReader ==
    ASSUME TypeOK, LifeInv, RecvInv, ReadData \/ StoreChunk
    PROVE  RecvInv'
<1> USE DEF Dirs
<1>0. /\ UNCHANGED <<worker, handed, overlapped, mpc>> /\ ~Cleared /\ ~Cleared' /\ SameLoop("recv")
      /\ Out("recv")' = Out("recv")
  <2>1. UNCHANGED <<worker, handed, overlapped, mpc>> /\ rpc \in {"read", "store"}
    BY DEF ReadData, StoreChunk, pool, life
  <2>2. ~Cleared /\ ~Cleared'
    BY <2>1 DEF LifeInv, Cleared
  <2>3. SameLoop("recv") /\ Holding("recv")' = Holding("recv")
    BY <2>1 DEF SameLoop, InLoop, Holding
  <2> QED
    BY <2>1, <2>2, <2>3 DEF Out
<1> SUFFICES ASSUME ~discarded', ~overlapped' PROVE InStep'
  <2>1. ~discarded' => ~discarded
    BY DEF ReadData, StoreChunk
  <2> QED
    BY <1>0, <2>1 DEF RecvInv, SameLoop
<1>1. ~discarded /\ ~overlapped
  BY <1>0 DEF ReadData, StoreChunk
<1>2. InStep /\ Out("recv") <= Len(Ends["recv"])
  BY <1>0, <1>1 DEF RecvInv
<1> DEFINE f == First("recv", Out("recv") + 1)
           b == buffer["recv"]
<1>3. f' = f
  BY <1>0 DEF First
<1>4. f \in Nat /\ taken \in Nat /\ b \in Seq(Nat) /\ Len(b) \in Nat /\ DOMAIN b = 1 .. Len(b)
        /\ chunk \in Seq(Nat) /\ Len(chunk) \in Nat /\ DOMAIN chunk = 1 .. Len(chunk)
  BY <1>2, OutBounds
<1>5. /\ \A k \in DOMAIN b : b[k] = f + k - 1
      /\ \A k \in DOMAIN chunk : chunk[k] = f + Len(b) + k - 1
      /\ f + Len(b) + Len(chunk) = taken + 1
  BY <1>2 DEF InStep
<1> HIDE DEF f, b
<1>6. CASE ReadData
  <2>1. PICK n \in 1 .. ReadChunk : taken + n <= StreamLen("recv") /\ chunk' = [k \in 1 .. n |-> taken + k] /\ taken' = taken + n
    BY <1>6 DEF ReadData
  <2>2. n \in Nat /\ Len(chunk') = n /\ DOMAIN chunk' = 1 .. n /\ \A k \in 1 .. n : chunk'[k] = taken + k
    <3>1. n \in Nat
      BY <2>1, DeviceAssumption DEF DeviceAssumption
    <3> QED
      BY <2>1, <3>1, DataRead DEF TypeOK
  <2>3. b' = b /\ Len(chunk) = 0
    BY <1>6 DEF ReadData, LifeInv, b
  <2>4. \A k \in DOMAIN chunk' : chunk'[k] = f + Len(b) + k - 1
    BY <1>4, <1>5, <2>2, <2>3
  <2>5. f + Len(b) + Len(chunk') = taken' + 1
    <3>1. taken' = taken + n /\ n \in Nat /\ Len(chunk') = n /\ Len(chunk) = 0
      BY <2>1, <2>2, <2>3
    <3> QED
      BY <1>4, <1>5, <3>1
  <2> QED
    BY <1>0, <1>2, <1>3, <1>5, <2>3, <2>4, <2>5 DEF InStep, SameLoop, f, b
<1>7. CASE StoreChunk
  <2>1. Fits("recv", chunk) /\ taken' = taken /\ chunk' = <<>> /\ Len(chunk') = 0 /\ DOMAIN chunk' = {}
    BY <1>7 DEF StoreChunk
  <2>2. b' = b \o chunk
    BY <1>7, <2>1 DEF StoreChunk, TypeOK, BufferOK, b
  <2>3. b' \in Seq(Nat) /\ Len(b') = Len(b) + Len(chunk) /\ DOMAIN b' = 1 .. Len(b) + Len(chunk)
          /\ (\A k \in 1 .. Len(b) : b'[k] = b[k])
          /\ (\A k \in 1 .. Len(chunk) : b'[Len(b) + k] = chunk[k])
    BY <1>4, <2>2, Joined, LenProperties
  <2>4. ASSUME NEW k \in DOMAIN b' PROVE b'[k] = f + k - 1
    <3>1. CASE k \in 1 .. Len(b)
      BY <1>4, <1>5, <2>3, <3>1
    <3>2. CASE k \notin 1 .. Len(b)
      <4>1. k - Len(b) \in 1 .. Len(chunk) /\ Len(b) + (k - Len(b)) = k
        BY <1>4, <2>3, <3>2
      <4>2. b'[k] = chunk[k - Len(b)]
        BY <2>3, <4>1
      <4>3. chunk[k - Len(b)] = f + Len(b) + (k - Len(b)) - 1
        BY <1>4, <1>5, <4>1
      <4> QED
        BY <1>4, <2>3, <4>2, <4>3
    <3> QED
      BY <3>1, <3>2
  <2>5. f + Len(b') + Len(chunk') = taken' + 1
    BY <1>4, <1>5, <2>1, <2>3
  <2>6. \A w \in InLoop("recv")' : worker'[w].pc \in {"size", "read"} =>
          /\ Out("recv") < Len(Ends["recv"])
          /\ worker'[w].total = Length("recv", Out("recv") + 1)
          /\ worker'[w].pc = "read" => worker'[w].total <= Len(b')
    <3> SUFFICES ASSUME NEW w \in InLoop("recv"), worker[w].pc \in {"size", "read"}
                 PROVE  /\ Out("recv") < Len(Ends["recv"])
                        /\ worker[w].total = Length("recv", Out("recv") + 1)
                        /\ worker[w].pc = "read" => worker[w].total <= Len(b')
      BY <1>0 DEF SameLoop
    <3>1. worker[w].total \in Nat
      BY WorkerFields DEF TypeOK, InLoop
    <3>2. worker[w].pc = "read" => worker[w].total <= Len(b)
      BY <1>2 DEF InStep, b
    <3> QED
      BY <1>2, <1>4, <2>3, <3>1, <3>2 DEF InStep
  <2> QED
    BY <1>0, <1>3, <2>1, <2>4, <2>5, <2>6 DEF InStep, f, b
<1> QED
  BY <1>6, <1>7

\* The task that is alone in recvTask, one step further.
LEMMA RecvTask ==
    ASSUME TypeOK, SingleInv, TotalInv, RecvInv, NEW w \in Workers, Task(w) /\ ~TaskBegins(w), worker[w].dir = "recv",
           ~discarded, ~overlapped
    PROVE  RecvInv'
<1> DEFINE d == "recv"
           H == Len(handed["recv"])
           b == buffer["recv"]
<1>0. d \in Dirs /\ PoolOK /\ worker[w].total \in Nat /\ <<>> \in Seq(Nat) /\ buffer \in [Dirs -> Seq(Nat)]
  BY WorkerFields DEF Dirs, TypeOK, BufferOK
<1>1. /\ UNCHANGED <<mpc, chunk, taken, discarded>>
      /\ UNCHANGED overlapped /\ InLoop(d) = {w} /\ InLoop(d)' = (IF worker'[w].pc = "idle" THEN {} ELSE {w})
  <2>1. UNCHANGED <<mpc, chunk, taken, discarded>>
    BY DEF Task, PeekHeader, TestSize, ReadPacket, Deliver, Transmit, TransmitShort, TransmitFails, TaskBegins, life, reader
  <2> QED
    BY <1>0, <2>1, LoopGoesOn
<1>2. Holding(d) = (worker[w].pc = "hand") /\ Holding(d)' = (worker'[w].pc = "hand")
  BY <1>1 DEF Holding
<1>3. /\ Cleared => b = <<>>
      /\ Out(d) <= Len(Ends[d]) /\ \A k \in DOMAIN handed[d] : handed[d][k] = Packet(d, k)
      /\ worker[w].pc = "hand" => worker[w].packet = Packet(d, H + 1)
      /\ Cleared \/ InStep
      /\ Cleared' = Cleared
  BY <1>1 DEF RecvInv, Cleared
<1>4. /\ Out(d) \in Nat /\ H \in Nat /\ Out(d) \in 0 .. Len(Ends[d]) /\ First(d, Out(d) + 1) \in Nat
      /\ StreamLen(d) \in Nat /\ taken \in Nat /\ taken <= StreamLen(d)
      /\ b \in Seq(Nat) /\ Len(b) \in Nat /\ DOMAIN b = 1 .. Len(b)
      /\ Len(chunk) \in Nat /\ Len(Ends[d]) \in Nat
  BY <1>3, OutBounds
\* As long as the task holds nothing new and hands nothing over, the streams stay in step.
<1>5. ASSUME worker[w].pc # "hand", worker'[w].pc # "hand", UNCHANGED <<buffer, handed>>,
             InStep /\ worker'[w].pc \in {"size", "read"} =>
                 /\ Out(d) < Len(Ends[d]) /\ worker'[w].total = Length(d, Out(d) + 1)
                 /\ worker'[w].pc = "read" => worker'[w].total <= Len(b)
      PROVE  RecvInv'
  <2>1. Out(d)' = Out(d)
    BY <1>2, <1>5 DEF Out
  <2>2. InStep => InStep'
    BY <1>1, <1>5, <2>1 DEF InStep
  <2> QED
    BY <1>1, <1>3, <1>5, <2>1, <2>2 DEF RecvInv
<1>6. CASE PeekHeader(w)
  <2>1. worker[w].pc = "peek" /\ UNCHANGED <<buffer, handed>>
    BY <1>6 DEF PeekHeader
  <2>2. CASE Returns(w)
    <3>1. worker'[w].pc = "idle"
      BY <1>0, <2>2, Returned
    <3> QED
      BY <1>5, <2>1, <3>1
  <2>3. ASSUME Len(b) >= 3, NEW n \in TotalLen(d), GoesOn(w, "size", n, <<>>) PROVE RecvInv'
    <3>1. n \in Nat
      BY <1>0, <2>3, TotalBounds
    <3>2. worker'[w].pc = "size" /\ worker'[w].total = n
      BY <1>0, <2>3, <3>1, WentOn
    <3>3. ASSUME InStep PROVE Out(d) < Len(Ends[d]) /\ n = Length(d, Out(d) + 1)
      <4>1. /\ \A k \in DOMAIN b : b[k] = First(d, Out(d) + 1) + k - 1
            /\ First(d, Out(d) + 1) + Len(b) + Len(chunk) = taken + 1
        BY <3>3 DEF InStep
      <4>2. First(d, Out(d) + 1) < StreamLen(d) + 1
        <5>1. First(d, Out(d) + 1) \in Nat /\ Len(b) \in Nat /\ Len(chunk) \in Nat /\ StreamLen(d) \in Nat /\ taken \in Nat
          BY <1>4
        <5>2. taken <= StreamLen(d) /\ Len(b) >= 3 /\ First(d, Out(d) + 1) + Len(b) + Len(chunk) = taken + 1
          BY <1>4, <2>3, <4>1
        <5> QED
          BY <5>1, <5>2
      <4>3. Out(d) < Len(Ends[d])
        <5>1. CASE Out(d) = Len(Ends[d])
          <6>1. First(d, Out(d) + 1) = StreamLen(d) + 1
            <7>1. StreamLen(d) = First(d, Len(Ends[d]) + 1) - 1 /\ First(d, Len(Ends[d]) + 1) \in Nat
              BY <1>4, <5>1 DEF StreamLen
            <7> QED
              BY <5>1, <7>1
          <6> QED
            BY <1>4, <4>2, <6>1
        <5> QED
          BY <1>4, <5>1
      <4>4. Out(d) + 1 \in DOMAIN Ends[d]
        BY <1>0, <1>4, <4>3, Stream
      <4>5. \A i \in 1 .. 3 : b[i] = First(d, Out(d) + 1) + i - 1
        <5>1. \A i \in 1 .. 3 : i \in DOMAIN b
          <6>1. Len(b) \in Nat /\ Len(b) >= 3
            BY <1>4, <2>3
          <6>2. DOMAIN b = 1 .. Len(b)
            BY <1>4
          <6> QED
            BY <6>1, <6>2
        <5> QED
          BY <4>1, <5>1
      <4>6. TotalLen(d) = {Length(d, Out(d) + 1)}
        BY <1>0, <1>4, <2>3, <4>4, <4>5, HeaderTells
      <4> QED
        BY <2>3, <4>3, <4>6
    <3> QED
      BY <1>5, <2>1, <3>2, <3>3
  <2>4. Len(b) < 3 \/ Len(b) >= 3
    BY <1>4
  <2> QED
    BY <1>6, <2>2, <2>3, <2>4 DEF PeekHeader
<1>7. CASE TestSize(w)
  <2>1. worker[w].pc = "size" /\ UNCHANGED <<buffer, handed>>
    BY <1>7 DEF TestSize
  <2>2. CASE Returns(w)
    <3>1. worker'[w].pc = "idle"
      BY <1>0, <2>2, Returned
    <3> QED
      BY <1>5, <2>1, <3>1
  <2>3. CASE ~(Len(b) < worker[w].total) /\ GoesOn(w, "read", worker[w].total, <<>>)
    <3>1. worker'[w].pc = "read" /\ worker'[w].total = worker[w].total
      BY <1>0, <2>3, WentOn
    <3>2. worker[w].total <= Len(b)
      BY <1>0, <1>4, <2>3
    <3>3. InStep => Out(d) < Len(Ends[d]) /\ worker[w].total = Length(d, Out(d) + 1)
      BY <1>1, <2>1 DEF InStep
    <3> QED
      BY <1>5, <2>1, <3>1, <3>2, <3>3
  <2> QED
    BY <1>7, <2>2, <2>3 DEF TestSize
<1>8. CASE ReadPacket(w)
  <2>0. worker[w].pc = "read" /\ UNCHANGED handed
    BY <1>8 DEF ReadPacket
  <2>1. CASE Cleared
    <3>1. Len(b) < worker[w].total
      <4>1. worker[w].total >= 3
        BY <2>0 DEF TotalInv
      <4>2. Len(b) = 0
        BY <1>3, <2>1
      <4> QED
        BY <1>0, <4>1, <4>2
    <3>2. Returns(w) /\ buffer'[d] = <<>>
      BY <1>0, <1>8, <3>1 DEF ReadPacket
    <3>3. worker'[w].pc = "idle"
      BY <1>0, <3>2, Returned
    <3>4. Out(d)' = Out(d)
      BY <1>2, <2>0, <3>3 DEF Out
    <3> QED
      BY <1>1, <1>3, <2>0, <2>1, <3>2, <3>3, <3>4 DEF RecvInv
  <2>2. CASE ~Cleared
    <3> DEFINE p == Out(d) + 1
               n == worker[w].total
    <3>1. /\ \A k \in DOMAIN b : b[k] = First(d, p) + k - 1
          /\ \A k \in DOMAIN chunk : chunk[k] = First(d, p) + Len(b) + k - 1
          /\ First(d, p) + Len(b) + Len(chunk) = taken + 1
          /\ Out(d) < Len(Ends[d]) /\ n = Length(d, p) /\ n <= Len(b)
      BY <1>1, <1>3, <2>0, <2>2 DEF InStep
    <3>2. p \in DOMAIN Ends[d] /\ p = H + 1
      <4>1. Out(d) = H
        BY <1>2, <2>0 DEF Out
      <4>2. Out(d) \in Nat /\ Len(Ends[d]) \in Nat /\ Out(d) < Len(Ends[d])
        BY <1>4, <3>1
      <4>3. Out(d) + 1 \in 1 .. Len(Ends[d])
        BY <4>2
      <4> QED
        BY <1>0, <4>1, <4>3, Stream
    <3>3. First(d, p) \in Nat /\ First(d, p + 1) = First(d, p) + n
      BY <1>0, <3>1, <3>2, FirstBounds
    <3>4. /\ worker'[w].pc = "hand" /\ worker'[w].packet \in Seq(Nat) /\ Len(worker'[w].packet) = n
          /\ \A k \in 1 .. n : worker'[w].packet[k] = b[k]
          /\ Len(buffer'[d]) = Len(b) - n /\ buffer' \in [Dirs -> Seq(Nat)]
          /\ \A k \in 1 .. Len(b) - n : buffer'[d][k] = b[n + k]
      <4>1. Len(buffer[d]) >= worker[w].total
        BY <1>0, <1>4, <3>1
      <4> QED
        BY <1>0, <1>8, <4>1, PacketTaken
    <3>5. Out(d)' = p
      BY <1>2, <2>0, <3>2, <3>4 DEF Out
    <3> HIDE DEF p, n, H, b
    <3>6. worker'[w].packet = Packet(d, p)
      <4>1. Packet(d, p) \in Seq(Nat) /\ Len(Packet(d, p)) = n /\ \A k \in 1 .. n : Packet(d, p)[k] = First(d, p) + k - 1
        BY <1>0, <3>1, <3>2, PacketBytes
      <4>2. n \in Nat
        BY <1>0 DEF n
      <4>3. \A k \in 1 .. n : k \in DOMAIN b
        BY <1>4, <3>1, <4>2 DEF b
      <4>4. \A k \in 1 .. n : worker'[w].packet[k] = Packet(d, p)[k]
        BY <3>1, <3>4, <4>1, <4>3
      <4> QED
        BY <3>4, <4>1, <4>4, SeqEqual
    <3>7. n \in Nat /\ Len(b) \in Nat /\ Len(chunk) \in Nat /\ taken \in Nat
      BY <1>0, <1>4 DEF n, b
    <3>8. ASSUME NEW k \in DOMAIN buffer'[d] PROVE buffer'[d][k] = First(d, p + 1) + k - 1
      <4>1. k \in 1 .. Len(b) - n
        <5>1. DOMAIN buffer'[d] = 1 .. Len(b) - n
          BY <1>0, <3>4, LenProperties
        <5> QED
          BY <5>1
      <4>2. n + k \in DOMAIN b /\ k \in Nat
        <5>1. DOMAIN b = 1 .. Len(b)
          BY <1>4 DEF b
        <5>2. n \in Nat /\ Len(b) \in Nat
          BY <3>7
        <5> QED
          BY <4>1, <5>1, <5>2
      <4>3. buffer'[d][k] = First(d, p) + (n + k) - 1
        BY <3>1, <3>4, <4>1, <4>2
      <4> QED
        BY <3>3, <3>7, <4>2, <4>3
    <3>9. ASSUME NEW k \in DOMAIN chunk PROVE chunk[k] = First(d, p + 1) + Len(buffer'[d]) + k - 1
      <4>1. k \in Nat
        <5>1. DOMAIN chunk = 1 .. Len(chunk)
          BY <1>3, OutBounds
        <5> QED
          BY <3>7, <5>1
      <4>2. chunk[k] = First(d, p) + Len(b) + k - 1
        BY <3>1, <3>9
      <4> QED
        BY <3>3, <3>4, <3>7, <4>1, <4>2
    <3>10. First(d, p + 1) + Len(buffer'[d]) + Len(chunk) = taken + 1
      BY <3>1, <3>3, <3>4, <3>7
    <3>11. InStep'
      BY <1>1, <3>4, <3>5, <3>8, <3>9, <3>10 DEF InStep
    <3>12. p <= Len(Ends[d])
      BY <1>0, <3>2, Stream
    <3> QED
      BY <1>1, <1>3, <2>0, <2>2, <3>2, <3>4, <3>5, <3>6, <3>11, <3>12 DEF RecvInv, H
  <2> QED
    BY <2>1, <2>2
<1>9. CASE Deliver(w)
  <2>1. /\ worker[w].pc = "hand" /\ handed' = [handed EXCEPT !["recv"] = Append(@, worker[w].packet)]
        /\ GoesOn(w, "peek", 0, <<>>) /\ UNCHANGED buffer
    BY <1>9 DEF Deliver, Again
  <2>2. worker'[w].pc = "peek"
    BY <1>0, <2>1, WentOn
  <2>3. /\ Len(handed'[d]) = H + 1 /\ DOMAIN handed'[d] = 1 .. H + 1 /\ DOMAIN handed[d] = 1 .. H
        /\ handed'[d][H + 1] = worker[w].packet /\ \A k \in DOMAIN handed[d] : handed'[d][k] = handed[d][k]
    BY <1>0, <2>1, Handed, WorkerFields
  <2>4. Out(d)' = Out(d)
    BY <1>2, <2>1, <2>2, <2>3 DEF Out
  <2>5. \A k \in DOMAIN handed'[d] : handed'[d][k] = Packet(d, k)
    <3>1. \A k \in 1 .. H + 1 : k \in 1 .. H \/ k = H + 1
      <4>1. H \in Nat
        BY <1>4
      <4> QED
        BY <4>1
    <3> QED
      BY <1>3, <2>1, <2>3, <3>1
  <2>6. InStep => InStep'
    BY <1>1, <2>1, <2>2, <2>4 DEF InStep
  <2> QED
    BY <1>1, <1>3, <2>1, <2>2, <2>4, <2>5, <2>6 DEF RecvInv
<1> QED
  BY <1>6, <1>7, <1>8, <1>9 DEF Task, Transmit, TransmitShort, TransmitFails

LEMMA RecvStep == TypeOK /\ LifeInv /\ SingleInv /\ TotalInv /\ RecvInv /\ [Next]_vars => RecvInv'
<1> SUFFICES ASSUME TypeOK, LifeInv, SingleInv, TotalInv, RecvInv, [Next]_vars PROVE RecvInv'
  OBVIOUS
<1>0. "recv" \in Dirs
  BY DEF Dirs
<1>1. CASE UNCHANGED <<worker, overlapped, handed, buffer["recv"], chunk, taken, discarded>> /\ Cleared' = Cleared
  BY <1>1, RecvFrame DEF SameLoop, InLoop
<1>2. CASE Main /\ ~CloseClears
  BY <1>1, <1>2 DEF Main, RegisterRecvCallback, Start, StartFails, StartCatches, StopBegins, StopClosesFd, StopJoins,
                    Cleared, pool, reader
<1>3. CASE CloseClears
  <2>1. UNCHANGED <<worker, overlapped, handed, chunk, taken, discarded>>
    BY <1>3 DEF CloseClears, pool, reader
  <2>2. buffer'["recv"] = <<>> /\ Cleared'
    BY <1>0, <1>3 DEF CloseClears, Cleared, RecvInv, TypeOK, BufferOK
  <2>3. SameLoop("recv") /\ Out("recv")' = Out("recv")
    BY <2>1 DEF SameLoop, InLoop, Out, Holding
  <2> QED
    BY <2>1, <2>2, <2>3 DEF RecvInv, SameLoop
<1>4. CASE ReadData \/ StoreChunk
  BY <1>4, RecvReader
<1>5. CASE ReaderTests \/ ReadNothing \/ ReadError \/ AddRecvTask
  BY <1>1, <1>5 DEF ReaderTests, ReadNothing, ReadError, AddRecvTask, Cleared, pool, life
<1>6. CASE Writer
  <2>1. UNCHANGED buffer["recv"]
    BY <1>0, <1>6 DEF Writer, WriteTests, WriteStores, AddSendTask, TypeOK, BufferOK
  <2> QED
    BY <1>1, <1>6, <2>1 DEF Writer, WriteTests, WriteStores, AddSendTask, Cleared, pool, life, reader
<1>7. ASSUME NEW w \in Workers, TaskBegins(w) PROVE RecvInv'
  <2>1. UNCHANGED <<buffer, handed, chunk, taken, discarded, mpc>>
    BY <1>7 DEF TaskBegins, life, reader
  <2>2. CASE SameLoop("recv") /\ (overlapped => overlapped')
    BY <2>1, <2>2, RecvFrame DEF Cleared
  <2>3. CASE /\ InLoop("recv")' = InLoop("recv") \cup {w} /\ worker'[w].pc = "peek"
             /\ overlapped' = (overlapped \/ InLoop("recv") # {})
             /\ \A v \in InLoop("recv") : v # w /\ worker'[v] = worker[v]
    <3>1. overlapped => overlapped'
      BY <2>3, Zenon
    <3>2. Holding("recv")' = Holding("recv")
      BY <2>3 DEF Holding
    <3>3. Out("recv")' = Out("recv")
      BY <2>1, <3>2 DEF Out
    <3>4. InStep => InStep'
      BY <2>1, <2>3, <3>3 DEF InStep
    <3>5. Cleared' = Cleared
      BY <2>1 DEF Cleared
    <3> QED
      BY <2>1, <2>3, <3>1, <3>3, <3>4, <3>5 DEF RecvInv
  <2> QED
    BY <1>0, <1>7, <2>2, <2>3, LoopBegins
<1>8. ASSUME NEW w \in Workers, Task(w), ~TaskBegins(w) PROVE RecvInv'
  <2>0. worker[w].dir \in Dirs
    BY WorkerFields DEF TypeOK
  <2>1. CASE worker[w].dir = "recv"
    <3>1. CASE discarded \/ overlapped
      <4>1. UNCHANGED <<discarded, overlapped, mpc>> /\ (buffer["recv"] = <<>> => buffer'["recv"] = <<>>)
        <5>1. UNCHANGED <<discarded, overlapped, mpc>>
          BY <1>8 DEF Task, PeekHeader, TestSize, ReadPacket, Deliver, Transmit, TransmitShort, TransmitFails, reader, life
        <5>2. ASSUME ReadPacket(w), buffer["recv"] = <<>> PROVE buffer'["recv"] = <<>>
          <6>1. Len(buffer["recv"]) < worker[w].total
            BY <5>2, <2>1, WorkerFields DEF ReadPacket, TotalInv, TypeOK
          <6> QED
            BY <1>0, <2>1, <5>2, <6>1 DEF ReadPacket, TypeOK, BufferOK
        <5> QED
          BY <1>8, <5>1, <5>2 DEF Task, PeekHeader, TestSize, Deliver, Transmit, TransmitShort, TransmitFails
      <4> QED
        BY <3>1, <4>1 DEF RecvInv, Cleared
    <3> QED
      BY <1>8, <2>1, <3>1, RecvTask
  <2>2. CASE worker[w].dir = "send"
    <3>1. SameLoop("recv") /\ UNCHANGED overlapped
      BY <1>0, <1>8, <2>0, <2>2, LoopGoesOn
    <3>2. UNCHANGED <<chunk, taken, discarded, mpc>>
      BY <1>8 DEF Task, PeekHeader, TestSize, ReadPacket, Deliver, Transmit, TransmitShort, TransmitFails, reader, life
    <3>3. UNCHANGED <<buffer["recv"], handed["recv"]>>
      BY <1>0, <1>8, <2>0, <2>2 DEF Task, PeekHeader, TestSize, ReadPacket, Deliver, Transmit, TransmitShort, TransmitFails,
         TypeOK, BufferOK, PoolOK
    <3> QED
      BY <3>1, <3>2, <3>3, RecvFrame DEF Cleared
  <2> QED
    BY <2>0, <2>1, <2>2 DEF Dirs
<1>9. CASE UNCHANGED vars
  BY <1>1, <1>9 DEF vars, pool, reader, life, Cleared
<1> QED
  BY <1>2, <1>3, <1>4, <1>5, <1>6, <1>7, <1>8, <1>9 DEF Next, Main, Reader
-----------------------------------------------------------------------------
(* A buffer that holds whole packets                                       *)

LEMMA WholeFront ==
    ASSUME NEW b \in Seq(Nat), Whole(b), Len(b) >= 3
    PROVE  \E p \in DOMAIN Ends["send"] :
              /\ LiesAt(b, p, 0) /\ Length("send", p) \in Nat /\ Length("send", p) <= Len(b)
              /\ \A i \in 1 .. Length("send", p) : b[i] = First("send", p) + i - 1
<1>1. Len(b) \in Nat /\ DOMAIN b = 1 .. Len(b) /\ 1 \in DOMAIN b
  <2>1. Len(b) \in Nat /\ DOMAIN b = 1 .. Len(b)
    BY LenProperties
  <2> QED
    BY <2>1
<1>2. PICK p \in DOMAIN Ends["send"] : \E o \in 0 .. 1 - 1 : LiesAt(b, p, o)
  BY <1>1 DEF Whole
<1>3. LiesAt(b, p, 0)
  BY <1>2
<1>4. Length("send", p) \in Nat
  BY FirstBounds DEF Dirs
<1>5. Length("send", p) <= Len(b) /\ \A i \in 1 .. Length("send", p) : b[i] = First("send", p) + i - 1
  <2>1. 0 + Length("send", p) <= Len(b) /\ \A i \in 1 .. Length("send", p) : b[0 + i] = First("send", p) + i - 1
    BY <1>3 DEF LiesAt
  <2>2. \A i \in 1 .. Length("send", p) : 0 + i = i
    BY <1>4
  <2> QED
    BY <1>1, <1>4, <2>1, <2>2
<1> QED
  BY <1>3, <1>4, <1>5

\* A packet stays where it is when bytes are written behind it.
LEMMA LiesAtJoined ==
    ASSUME NEW b \in Seq(Nat), NEW c \in Seq(Nat), NEW p \in DOMAIN Ends["send"], NEW o \in Nat, LiesAt(b, p, o)
    PROVE  LiesAt(b \o c, p, o)
<1>1. /\ o + Length("send", p) <= Len(b) /\ Length("send", p) \in Nat /\ Len(b) \in Nat /\ Len(c) \in Nat
      /\ \A i \in 1 .. Length("send", p) : b[o + i] = First("send", p) + i - 1
  BY FirstBounds, LenProperties DEF LiesAt, Dirs
<1>2. Len(b \o c) = Len(b) + Len(c) /\ \A k \in 1 .. Len(b) : (b \o c)[k] = b[k]
  BY Joined
<1>3. \A i \in 1 .. Length("send", p) : o + i \in 1 .. Len(b)
  BY <1>1
<1>4. o + Length("send", p) <= Len(b \o c)
  BY <1>1, <1>2
<1> QED
  BY <1>1, <1>2, <1>3, <1>4 DEF LiesAt

LEMMA WholeJoined ==
    ASSUME NEW b \in Seq(Nat), Whole(b), NEW p \in DOMAIN Ends["send"]
    PROVE  Whole(b \o Packet("send", p))
<1> DEFINE c == Packet("send", p)
<1>1. /\ c \in Seq(Nat) /\ Len(c) = Length("send", p) /\ Length("send", p) \in Nat
      /\ \A i \in 1 .. Length("send", p) : c[i] = First("send", p) + i - 1
  BY PacketBytes, FirstBounds DEF Dirs
<1>2. Len(b) \in Nat /\ DOMAIN b = 1 .. Len(b)
  BY LenProperties
<1> HIDE DEF c
<1>3. /\ b \o c \in Seq(Nat) /\ Len(b \o c) = Len(b) + Len(c)
      /\ \A i \in 1 .. Len(c) : (b \o c)[Len(b) + i] = c[i]
  BY <1>1, Joined
<1>4. DOMAIN (b \o c) = 1 .. Len(b) + Len(c)
  BY <1>3, LenProperties
<1>5. LiesAt(b \o c, p, Len(b))
  <2>1. Len(b) + Length("send", p) <= Len(b \o c)
    BY <1>1, <1>2, <1>3
  <2> QED
    BY <1>1, <1>3, <2>1 DEF LiesAt
<1> SUFFICES ASSUME NEW k \in DOMAIN (b \o c)
             PROVE  \E q \in DOMAIN Ends["send"] : \E o \in 0 .. k - 1 :
                        k <= o + Length("send", q) /\ LiesAt(b \o c, q, o)
  BY DEF Whole, c
<1>6. CASE k \in DOMAIN b
  <2>1. PICK q \in DOMAIN Ends["send"] : \E o \in 0 .. k - 1 : k <= o + Length("send", q) /\ LiesAt(b, q, o)
    BY <1>6 DEF Whole
  <2>2. PICK o \in 0 .. k - 1 : k <= o + Length("send", q) /\ LiesAt(b, q, o)
    BY <2>1
  <2>3. LiesAt(b \o c, q, o)
    BY <1>1, <1>2, <1>6, <2>2, LiesAtJoined
  <2> QED
    BY <2>2, <2>3
<1>7. CASE k \notin DOMAIN b
  <2>1. Len(b) \in 0 .. k - 1 /\ k <= Len(b) + Length("send", p)
    BY <1>1, <1>2, <1>4, <1>7
  <2> QED
    BY <1>5, <2>1
<1> QED
  BY <1>6, <1>7

\* Positions before and after the first n bytes are taken out.
LEMMA CutPositions ==
    \A n, m, k, l, o \in Nat :
        /\ k \in 1 .. m - n => k >= 1 /\ n + k \in 1 .. m
        /\ l >= 3 => m <= m + o /\ (o < l => m + o < m + l)
        /\ o >= n /\ o <= (n + k) - 1 /\ n + k <= o + l => o - n \in 0 .. k - 1 /\ k <= (o - n) + l
OBVIOUS

\* What is left of the buffer when the packet at the front is taken out.
LEMMA WholeCut ==
    ASSUME NEW b \in Seq(Nat), Whole(b), NEW p \in DOMAIN Ends["send"], LiesAt(b, p, 0), NEW c \in Seq(Nat),
           Len(c) = Len(b) - Length("send", p),
           \A k \in 1 .. Len(b) - Length("send", p) : c[k] = b[Length("send", p) + k]
    PROVE  Whole(c)
<1> DEFINE n == Length("send", p)
<1>1. /\ n \in Nat /\ n >= 3 /\ First("send", p) \in Nat /\ Len(b) \in Nat /\ DOMAIN b = 1 .. Len(b)
      /\ Len(c) \in Nat /\ DOMAIN c = 1 .. Len(c) /\ "send" \in Dirs
  BY FirstBounds, LenProperties DEF Dirs
<1>2. \A i \in 1 .. n : b[i] = First("send", p) + i - 1
  <2>1. \A i \in 1 .. n : b[0 + i] = First("send", p) + i - 1
    BY DEF LiesAt
  <2>2. \A i \in 1 .. n : 0 + i = i
    BY <1>1
  <2> QED
    BY <2>1, <2>2
<1>3. Len(c) = Len(b) - n /\ \A k \in 1 .. Len(b) - n : c[k] = b[n + k]
  OBVIOUS
<1> SUFFICES ASSUME NEW k \in DOMAIN c
             PROVE  \E q \in DOMAIN Ends["send"] : \E o \in 0 .. k - 1 : k <= o + Length("send", q) /\ LiesAt(c, q, o)
  BY DEF Whole
<1> HIDE DEF n
<1>4. k \in Nat /\ k >= 1 /\ n + k \in DOMAIN b
  <2>1. n \in Nat /\ Len(b) \in Nat /\ k \in 1 .. Len(b) - n
    BY <1>1, <1>3
  <2>2. k \in Nat
    BY <2>1
  <2>3. k >= 1 /\ n + k \in 1 .. Len(b)
    BY <2>1, <2>2, CutPositions
  <2> QED
    BY <1>1, <2>2, <2>3
<1>5. PICK q \in DOMAIN Ends["send"], o \in 0 .. (n + k) - 1 : n + k <= o + Length("send", q) /\ LiesAt(b, q, o)
  BY <1>4 DEF Whole
<1>6. /\ Length("send", q) \in Nat /\ Length("send", q) >= 3 /\ First("send", q) \in Nat /\ o \in Nat
      /\ o + Length("send", q) <= Len(b)
      /\ \A i \in 1 .. Length("send", q) : b[o + i] = First("send", q) + i - 1
  <2>1. Length("send", q) \in Nat /\ Length("send", q) >= 3 /\ First("send", q) \in Nat
    BY <1>1, FirstBounds
  <2>2. o \in Nat
    BY <1>1, <1>4
  <2> QED
    BY <1>5, <2>1, <2>2 DEF LiesAt
<1>7. o >= n
  <2> SUFFICES ASSUME o < n PROVE FALSE
    BY <1>1, <1>6
  <2>1. o + 1 \in 1 .. n /\ 1 \in 1 .. Length("send", q)
    BY <1>1, <1>6
  <2>2. b[o + 1] = First("send", p) + (o + 1) - 1 /\ b[o + 1] = First("send", q) + 1 - 1
    BY <1>2, <1>6, <2>1
  <2>3. First("send", q) = First("send", p) + o
    BY <1>1, <1>6, <2>2
  <2>4. First("send", p) <= First("send", q) /\ First("send", q) < First("send", p) + n
    <3>1. First("send", p) \in Nat /\ n \in Nat /\ o \in Nat /\ n >= 3 /\ o < n
      BY <1>1, <1>6
    <3>2. First("send", p) <= First("send", p) + o /\ First("send", p) + o < First("send", p) + n
      BY <3>1, CutPositions
    <3> QED
      BY <2>3, <3>2
  <2>5. p = q
    BY <1>1, <2>4, PacketsApart DEF n
  <2>6. o = 0 /\ Length("send", q) = n
    <3>1. First("send", p) = First("send", p) + o /\ First("send", p) \in Nat /\ o \in Nat
      BY <1>1, <1>6, <2>3, <2>5
    <3> QED
      BY <2>5, <3>1 DEF n
  <2>7. n + k <= 0 + n /\ n \in Nat /\ k \in Nat /\ k >= 1
    BY <1>1, <1>4, <1>5, <2>6
  <2> QED
    BY <2>7
<1>8. o - n \in 0 .. k - 1 /\ k <= (o - n) + Length("send", q)
  <2>1. n \in Nat /\ k \in Nat /\ o \in Nat /\ Length("send", q) \in Nat
    BY <1>1, <1>4, <1>6
  <2>2. o >= n /\ o <= (n + k) - 1 /\ n + k <= o + Length("send", q)
    BY <1>5, <1>7
  <2> QED
    BY <2>1, <2>2, CutPositions
<1>9. LiesAt(c, q, o - n)
  <2>1. (o - n) + Length("send", q) <= Len(c)
    BY <1>1, <1>3, <1>6, <1>7
  <2>2. ASSUME NEW i \in 1 .. Length("send", q) PROVE c[(o - n) + i] = First("send", q) + i - 1
    <3>1. (o - n) + i \in 1 .. Len(b) - n /\ n + ((o - n) + i) = o + i
      BY <1>1, <1>6, <1>7
    <3> QED
      BY <1>3, <1>6, <3>1
  <2> QED
    BY <2>1, <2>2 DEF LiesAt
<1> QED
  BY <1>8, <1>9

\* The packet that write is called with next, and the positions behind it.
LEMMA UnwrittenBounds ==
    ASSUME TypeOK
    PROVE  /\ Unwritten \in Nat /\ next \in Nat
           /\ First("send", next) \in Nat
           /\ next <= Len(Ends["send"]) =>
                /\ next \in DOMAIN Ends["send"] /\ Length("send", next) \in Nat /\ Length("send", next) >= 3
                /\ First("send", next + 1) = First("send", next) + Length("send", next)
<1>1. Len(Ends["send"]) \in Nat /\ DOMAIN Ends["send"] = 1 .. Len(Ends["send"]) /\ "send" \in Dirs
  BY Stream DEF Dirs
<1>2. next \in 1 .. Len(Ends["send"]) + 1 /\ (opc # "idle" => next <= Len(Ends["send"]))
  BY DEF TypeOK, WriterOK
<1>3. next \in Nat /\ next - 1 \in 0 .. Len(Ends["send"]) /\ (next - 1) + 1 = next
  BY <1>1, <1>2
<1>4. First("send", next) \in Nat
  BY <1>1, <1>3, StreamEnd
<1>5. next <= Len(Ends["send"]) =>
        /\ next \in DOMAIN Ends["send"] /\ Length("send", next) \in Nat /\ Length("send", next) >= 3
        /\ First("send", next + 1) = First("send", next) + Length("send", next)
  BY <1>1, <1>2, FirstBounds
<1>6. Unwritten \in Nat
  <2>1. CASE opc = "task"
    <3>1. First("send", next + 1) \in Nat
      BY <1>2, <1>4, <1>5, <2>1
    <3> QED
      BY <2>1, <3>1 DEF Unwritten
  <2>2. CASE opc # "task"
    BY <1>4, <2>2 DEF Unwritten
  <2> QED
    BY <2>1, <2>2
<1> QED
  BY <1>3, <1>4, <1>5, <1>6

\* The numbers that SendOrder compares.
LEMMA SendTypes ==
    ASSUME TypeOK
    PROVE  /\ buffer["send"] \in Seq(Nat) /\ Len(buffer["send"]) \in Nat
           /\ DOMAIN buffer["send"] = 1 .. Len(buffer["send"])
           /\ \A k \in DOMAIN buffer["send"] : buffer["send"][k] \in Nat
           /\ Len(handed["send"]) \in Nat /\ DOMAIN handed["send"] = 1 .. Len(handed["send"])
BY LenProperties, ElementOfSeq DEF TypeOK, BufferOK, PoolOK, Dirs

LEMMA PacketFirst ==
    ASSUME NEW d \in Dirs, NEW p \in DOMAIN Ends[d]
    PROVE  Packet(d, p)[1] = First(d, p) /\ First(d, p) \in Nat
<1>1. Length(d, p) \in Nat /\ Length(d, p) >= 3 /\ First(d, p) \in Nat
  BY FirstBounds
<1>2. 1 \in 1 .. Length(d, p)
  BY <1>1
<1>3. Packet(d, p)[1] = First(d, p) + 1 - 1
  BY <1>2, PacketBytes
<1> QED
  BY <1>1, <1>3

\* The blocks handed over begin with numbers.
LEMMA HandedFirst ==
    ASSUME HandsWholePackets("send"), NEW j \in DOMAIN handed["send"]
    PROVE  handed["send"][j][1] \in Nat
<1>1. PICK p \in DOMAIN Ends["send"] : handed["send"][j] = Packet("send", p)
  BY DEF HandsWholePackets
<1> QED
  BY <1>1, PacketFirst DEF Dirs
-----------------------------------------------------------------------------
(* What goes out are the packets that were written, in their order         *)

LEMMA QuietStep == TypeOK /\ LifeInv /\ TotalInv /\ QuietInv /\ [Next]_vars => QuietInv'
<1> SUFFICES ASSUME TypeOK, LifeInv, TotalInv, QuietInv, [Next]_vars PROVE QuietInv'
  OBVIOUS
<1> USE DEF Dirs
<1>0. faults \in Nat /\ buffer \in [Dirs -> Seq(Nat)]
  BY DEF TypeOK, BufferOK
<1>1. (mpc' \in {"startFails", "startFailed"} => faults' > 0) /\ (mpc' = "join" => ~open')
  <2>1. CASE Main
    BY <1>0, <2>1 DEF QuietInv, Main, RegisterRecvCallback, Start, StartFails, StartCatches, StopBegins, StopClosesFd,
                      StopJoins, CloseClears, Fault
  <2>2. CASE ~Main
    <3>1. UNCHANGED mpc
      BY <2>2 DEF Next, Reader, ReaderTests, ReadData, ReadNothing, ReadError, StoreChunk, AddRecvTask, Writer,
         WriteTests, WriteStores, AddSendTask, Task, TaskBegins, PeekHeader, TestSize, ReadPacket, Deliver, Transmit,
         TransmitShort, TransmitFails, life, vars
    <3>2. (open' => open) /\ (faults' = 0 => faults = 0) /\ faults' \in Nat
      BY FaultsStay, TypeStep DEF TypeOK
    <3> QED
      BY <1>0, <3>1, <3>2 DEF QuietInv
  <2> QED
    BY <2>1, <2>2
<1> SUFFICES ASSUME open', faults' = 0, mpc' \in {"opened", "registered", "clearRecv", "clearSend", "closed"}
             PROVE  ~isRunning_' /\ opc' = "idle" /\ buffer'["send"] = <<>>
  BY <1>1 DEF QuietInv
<1>2. open /\ faults = 0
  BY FaultsStay
<1>3. CASE Main
  <2>1. UNCHANGED opc
    BY <1>3 DEF Main, RegisterRecvCallback, Start, StartFails, StartCatches, StopBegins, StopClosesFd, StopJoins,
                CloseClears, writer
  <2>2. mpc \in {"opened", "registered", "clearRecv", "clearSend", "closed"}
    BY <1>2, <1>3 DEF LifeInv, QuietInv, Main, RegisterRecvCallback, Start, StartFails, StartCatches, StopBegins,
                      StopClosesFd, StopJoins, CloseClears
  <2>3. ~isRunning_ /\ opc = "idle" /\ buffer["send"] = <<>>
    BY <1>2, <2>2 DEF QuietInv
  <2>4. ~isRunning_'
    BY <1>3, <2>3 DEF Main, RegisterRecvCallback, Start, StartFails, StartCatches, StopBegins, StopClosesFd, StopJoins,
                      CloseClears
  <2>5. buffer'["send"] = <<>>
    BY <1>0, <1>3, <2>3 DEF Main, RegisterRecvCallback, Start, StartFails, StartCatches, StopBegins, StopClosesFd,
                            StopJoins, CloseClears
  <2> QED
    BY <2>1, <2>3, <2>4, <2>5
<1>4. CASE ~Main
  <2>1. UNCHANGED <<mpc, isRunning_>>
    BY <1>4 DEF Next, Reader, ReaderTests, ReadData, ReadNothing, ReadError, StoreChunk, AddRecvTask, Writer,
       WriteTests, WriteStores, AddSendTask, Task, TaskBegins, PeekHeader, TestSize, ReadPacket, Deliver, Transmit,
       TransmitShort, TransmitFails, life, vars
  <2>2. ~isRunning_ /\ opc = "idle" /\ buffer["send"] = <<>>
    BY <1>2, <2>1 DEF QuietInv
  <2>3. CASE Reader \/ Writer \/ UNCHANGED vars
    BY <1>0, <2>1, <2>2, <2>3 DEF Reader, ReaderTests, ReadData, ReadNothing, ReadError, StoreChunk, AddRecvTask, Writer,
       WriteTests, WriteStores, AddSendTask, writer, vars
  <2>4. ASSUME NEW w \in Workers, Task(w) PROVE opc' = "idle" /\ buffer'["send"] = <<>>
    <3>1. UNCHANGED opc
      BY <2>4 DEF Task, TaskBegins, PeekHeader, TestSize, ReadPacket, Deliver, Transmit, TransmitShort, TransmitFails,
         writer
    <3>2. CASE ReadPacket(w)
      <4>1. worker[w].dir = "send" => Len(buffer["send"]) < worker[w].total
        BY <2>2, <3>2, WorkerFields DEF ReadPacket, TotalInv, TypeOK
      <4> QED
        BY <1>0, <2>2, <3>1, <3>2, <4>1, WorkerFields DEF ReadPacket, TypeOK
    <3>3. CASE ~ReadPacket(w)
      BY <2>2, <2>4, <3>1, <3>3 DEF Task, TaskBegins, PeekHeader, TestSize, Deliver, Transmit, TransmitShort,
         TransmitFails
    <3> QED
      BY <3>2, <3>3
  <2> QED
    BY <1>4, <2>1, <2>2, <2>3, <2>4 DEF Next
<1> QED
  BY <1>3, <1>4

\* The stream of packets to be sent, while nothing is written, taken out or handed over.
LEMMA SendFrame ==
    ASSUME TypeOK, HandsWholePackets("send"), SendOrder,
           UNCHANGED <<buffer["send"], handed["send"]>>, Unwritten' \in Nat, Unwritten <= Unwritten',
           \A w \in InLoop("send")' :
              /\ worker'[w].pc \in {"size", "read"} =>
                    \E p \in DOMAIN Ends["send"] :
                        worker'[w].total = Length("send", p) /\ LiesAt(buffer["send"], p, 0)
              /\ worker'[w].pc = "hand" => w \in InLoop("send") /\ worker'[w] = worker[w]
    PROVE  HandsWholePackets("send")' /\ SendOrder'
<1>1. HandsWholePackets("send")'
  BY DEF HandsWholePackets
<1>2. Unwritten \in Nat /\ Unwritten' \in Nat /\ Unwritten <= Unwritten'
  BY UnwrittenBounds
<1>3. \A n \in Nat : n < Unwritten => n < Unwritten'
  BY <1>2
<1>4. Whole(buffer["send"])' /\ \A p \in DOMAIN Ends["send"] : LiesAt(buffer["send"], p, 0)' = LiesAt(buffer["send"], p, 0)
  BY DEF SendOrder, Whole, LiesAt
<1>5. \A k \in DOMAIN buffer["send"] : buffer["send"][k] < Unwritten'
  BY <1>3, SendTypes DEF SendOrder
<1>6. \A j \in DOMAIN handed["send"] : handed["send"][j][1] < Unwritten'
  BY <1>3, HandedFirst DEF SendOrder
<1>7. ASSUME NEW w \in InLoop("send"), worker[w].pc = "hand" PROVE worker[w].packet[1] < Unwritten'
  <2>1. worker[w].packet[1] < Unwritten
    BY <1>7 DEF SendOrder
  <2>2. worker[w].packet[1] \in Nat
    <3>1. PICK p \in DOMAIN Ends["send"] : worker[w].packet = Packet("send", p)
      BY <1>7 DEF SendOrder
    <3> QED
      BY <3>1, PacketFirst DEF Dirs
  <2> QED
    BY <1>3, <2>1, <2>2
<1>8. ASSUME NEW w \in InLoop("send")', worker'[w].pc = "hand"
      PROVE  /\ \E p \in DOMAIN Ends["send"] : worker'[w].packet = Packet("send", p)
             /\ worker'[w].packet[1] < Unwritten'
             /\ \A k \in DOMAIN buffer["send"] : worker'[w].packet[1] < buffer["send"][k]
             /\ \A j \in DOMAIN handed["send"] : handed["send"][j][1] < worker'[w].packet[1]
  <2>1. w \in InLoop("send") /\ worker'[w] = worker[w]
    BY <1>8
  <2> QED
    BY <1>7, <1>8, <2>1 DEF SendOrder
<1>9. /\ \A j, k \in DOMAIN buffer["send"] : j < k => buffer["send"][j] < buffer["send"][k]
      /\ \A j \in DOMAIN handed["send"] : \A k \in DOMAIN buffer["send"] : handed["send"][j][1] < buffer["send"][k]
  BY DEF SendOrder
<1> QED
  BY <1>1, <1>4, <1>5, <1>6, <1>8, <1>9 DEF SendOrder

\* write() puts a packet behind the others.
LEMMA SendWritten ==
    ASSUME TypeOK, HandsWholePackets("send"), SendOrder, WriteStores
    PROVE  HandsWholePackets("send")' /\ SendOrder'
<1> DEFINE b == buffer["send"]
           c == Packet("send", next)
           n == Length("send", next)
<1>0. "send" \in Dirs /\ opc = "store" /\ next <= Len(Ends["send"])
  BY DEF WriteStores, TypeOK, WriterOK, Dirs
<1>1. /\ next \in DOMAIN Ends["send"] /\ n \in Nat /\ n >= 3 /\ First("send", next) \in Nat
      /\ First("send", next + 1) = First("send", next) + n
      /\ Unwritten = First("send", next)
  BY <1>0, UnwrittenBounds DEF Unwritten
<1>2. UNCHANGED <<worker, handed>> /\ InLoop("send")' = InLoop("send")
  BY DEF WriteStores, pool, InLoop
<1>3. CASE ~Fits("send", c)
  <2>1. opc' = "idle" /\ next' = next + 1 /\ UNCHANGED buffer
    BY <1>3 DEF WriteStores
  <2>2. Unwritten' = First("send", next) + n
    BY <1>1, <2>1 DEF Unwritten
  <2>3. Unwritten' \in Nat /\ Unwritten <= Unwritten'
    BY <1>1, <2>2
  <2> QED
    BY <1>2, <2>1, <2>3, SendFrame DEF SendOrder
<1>4. CASE Fits("send", c)
  <2>1. opc' = "task" /\ next' = next /\ buffer'["send"] = b \o c
    BY <1>0, <1>4 DEF WriteStores, TypeOK, BufferOK
  <2>2. Unwritten' = First("send", next) + n
    BY <1>1, <2>1 DEF Unwritten
  <2>3. /\ b \in Seq(Nat) /\ Len(b) \in Nat /\ DOMAIN b = 1 .. Len(b) /\ \A k \in DOMAIN b : b[k] \in Nat
        /\ c \in Seq(Nat) /\ Len(c) = n /\ \A i \in 1 .. n : c[i] = First("send", next) + i - 1
    BY <1>0, <1>1, SendTypes, PacketBytes
  <2> DEFINE a == b \o c
             f == First("send", next)
  <2> HIDE DEF b, c, n, f
  <2>4. /\ a \in Seq(Nat) /\ Len(a) = Len(b) + n /\ DOMAIN a = 1 .. Len(b) + n
        /\ \A k \in DOMAIN b : a[k] = b[k]
        /\ \A i \in 1 .. n : a[Len(b) + i] = f + i - 1
    <3>1. /\ b \o c \in Seq(Nat) /\ Len(b \o c) = Len(b) + Len(c)
          /\ \A k \in 1 .. Len(b) : (b \o c)[k] = b[k]
          /\ \A k \in 1 .. Len(c) : (b \o c)[Len(b) + k] = c[k]
      BY <2>3, Joined
    <3>2. DOMAIN (b \o c) = 1 .. Len(b \o c)
      BY <3>1, LenProperties
    <3>3. \A i \in 1 .. n : c[i] = f + i - 1
      BY <2>3 DEF f
    <3> QED
      BY <2>3, <3>1, <3>2, <3>3
  <2> HIDE DEF a
  <2>5. f \in Nat /\ n \in Nat /\ n >= 3 /\ Len(b) \in Nat /\ Unwritten = f /\ Unwritten' = f + n
    BY <1>1, <2>2, <2>3 DEF f, n
  <2>6. \A k \in DOMAIN a : k \in Nat /\ (k \in DOMAIN b \/ (k - Len(b) \in 1 .. n /\ a[k] = f + (k - Len(b)) - 1))
    <3>1. \A k \in 1 .. Len(b) + n :
            k \in Nat /\ (k \in 1 .. Len(b) \/ (k - Len(b) \in 1 .. n /\ Len(b) + (k - Len(b)) = k))
      BY <2>5
    <3> QED
      BY <2>3, <2>4, <3>1
  <2>7. /\ \A j, k \in DOMAIN b : j < k => b[j] < b[k]
        /\ \A k \in DOMAIN b : b[k] < f
        /\ \A j \in DOMAIN handed["send"] :
              handed["send"][j][1] < f /\ \A k \in DOMAIN b : handed["send"][j][1] < b[k]
    BY <2>5 DEF SendOrder, b
\* The bytes that are new are not before any position that is written already.
  <2>8. \A m \in Nat : m < f => m < f + n /\ \A i \in 1 .. n : m < f + i - 1
    BY <2>5
  <2>9. ASSUME NEW k \in DOMAIN a PROVE a[k] < Unwritten'
    <3>1. CASE k \in DOMAIN b
      BY <2>3, <2>4, <2>5, <2>7, <2>8, <3>1
    <3>2. CASE k - Len(b) \in 1 .. n /\ a[k] = f + (k - Len(b)) - 1
      BY <2>5, <2>6, <3>2
    <3> QED
      BY <2>6, <3>1, <3>2
  <2>10. ASSUME NEW m \in Nat, m < f, \A k \in DOMAIN b : m < b[k], NEW k \in DOMAIN a PROVE m < a[k]
    <3>1. CASE k \in DOMAIN b
      BY <2>4, <2>10, <3>1
    <3>2. CASE k - Len(b) \in 1 .. n /\ a[k] = f + (k - Len(b)) - 1
      BY <2>8, <2>10, <3>2
    <3> QED
      BY <2>6, <3>1, <3>2
  <2>11. ASSUME NEW j \in DOMAIN a, NEW k \in DOMAIN a, j < k PROVE a[j] < a[k]
    <3>1. j \in Nat /\ k \in Nat
      BY <2>6
    <3>2. CASE j \in DOMAIN b /\ k \in DOMAIN b
      BY <2>4, <2>7, <2>11, <3>2
    <3>3. CASE j \in DOMAIN b /\ (k - Len(b) \in 1 .. n /\ a[k] = f + (k - Len(b)) - 1)
      BY <2>3, <2>4, <2>7, <2>8, <3>3
    <3>4. CASE /\ j - Len(b) \in 1 .. n /\ a[j] = f + (j - Len(b)) - 1
               /\ k - Len(b) \in 1 .. n /\ a[k] = f + (k - Len(b)) - 1
      <4>1. f + (j - Len(b)) - 1 < f + (k - Len(b)) - 1
        BY <2>5, <2>11, <3>1
      <4> QED
        BY <3>4, <4>1
    <3>5. CASE j - Len(b) \in 1 .. n /\ k \in DOMAIN b
      <4>1. k <= Len(b)
        BY <2>3, <3>5
      <4> QED
        BY <2>5, <2>11, <3>1, <3>5, <4>1
    <3> QED
      BY <2>6, <3>2, <3>3, <3>4, <3>5
  <2>12. Whole(a)
    BY <1>1, <2>3, WholeJoined DEF SendOrder, a, b, c
  <2>13. \A p \in DOMAIN Ends["send"] : LiesAt(b, p, 0) => LiesAt(a, p, 0)
    BY <2>3, LiesAtJoined DEF a
  <2>14. ASSUME NEW w \in InLoop("send"), worker[w].pc = "hand"
         PROVE  /\ worker[w].packet[1] < Unwritten' /\ \A k \in DOMAIN a : worker[w].packet[1] < a[k]
    <3>1. PICK p \in DOMAIN Ends["send"] : worker[w].packet = Packet("send", p)
      BY <2>14 DEF SendOrder
    <3>2. worker[w].packet[1] \in Nat
      BY <1>0, <3>1, PacketFirst
    <3>3. worker[w].packet[1] < f /\ \A k \in DOMAIN b : worker[w].packet[1] < b[k]
      BY <2>5, <2>14 DEF SendOrder, b
    <3> QED
      BY <2>5, <2>8, <2>10, <3>2, <3>3
  <2>15. ASSUME NEW j \in DOMAIN handed["send"]
         PROVE  handed["send"][j][1] < Unwritten' /\ \A k \in DOMAIN a : handed["send"][j][1] < a[k]
    <3>1. handed["send"][j][1] \in Nat
      BY HandedFirst
    <3> QED
      BY <2>5, <2>7, <2>8, <2>10, <3>1
  <2>16. buffer'["send"] = a
    BY <2>1 DEF a
  <2>17. ASSUME NEW w \in InLoop("send")
         PROVE  /\ worker[w].pc \in {"size", "read"} =>
                     \E p \in DOMAIN Ends["send"] : worker[w].total = Length("send", p) /\ LiesAt(a, p, 0)
                /\ worker[w].pc = "hand" =>
                     /\ \E p \in DOMAIN Ends["send"] : worker[w].packet = Packet("send", p)
                     /\ \A j \in DOMAIN handed["send"] : handed["send"][j][1] < worker[w].packet[1]
    BY <2>13 DEF SendOrder, b
  <2>18. \A p \in DOMAIN Ends["send"] : LiesAt(a, p, 0) => LiesAt(buffer["send"], p, 0)'
    BY <2>16 DEF LiesAt
  <2>19. Whole(buffer["send"])'
    BY <2>12, <2>16 DEF Whole, LiesAt
  <2> QED
    BY <1>2, <2>9, <2>11, <2>14, <2>15, <2>16, <2>17, <2>18, <2>19 DEF SendOrder, HandsWholePackets
<1> QED
  BY <1>3, <1>4

\* The task that is alone in sendTask, one step further.
LEMMA SendTask ==
    ASSUME TypeOK, SingleInv, TotalInv, HandsWholePackets("send"), SendOrder, NEW w \in Workers,
           Task(w) /\ ~TaskBegins(w), worker[w].dir = "send", ~overlapped, open', faults' = 0
    PROVE  HandsWholePackets("send")' /\ SendOrder'
<1> DEFINE d == "send"
           b == buffer["send"]
           n == worker[w].total
<1>0. d \in Dirs /\ PoolOK /\ n \in Nat /\ <<>> \in Seq(Nat) /\ buffer \in [Dirs -> Seq(Nat)]
        /\ b \in Seq(Nat) /\ Len(b) \in Nat /\ DOMAIN b = 1 .. Len(b) /\ \A k \in DOMAIN b : b[k] \in Nat
  BY WorkerFields, SendTypes DEF Dirs, TypeOK, BufferOK
<1>1. InLoop(d) = {w} /\ InLoop(d)' = (IF worker'[w].pc = "idle" THEN {} ELSE {w}) /\ UNCHANGED <<opc, next>>
  <2>1. UNCHANGED <<opc, next>>
    BY DEF Task, PeekHeader, TestSize, ReadPacket, Deliver, Transmit, TransmitShort, TransmitFails, writer
  <2> QED
    BY <1>0, <2>1, LoopGoesOn
<1>2. Unwritten' = Unwritten /\ Unwritten \in Nat
  BY <1>1, UnwrittenBounds DEF Unwritten
<1>3. ASSUME UNCHANGED <<buffer, handed>>, worker'[w].pc # "hand",
             worker'[w].pc \in {"size", "read"} =>
                \E p \in DOMAIN Ends["send"] : worker'[w].total = Length("send", p) /\ LiesAt(b, p, 0)
      PROVE  HandsWholePackets("send")' /\ SendOrder'
  <2>1. Unwritten' \in Nat /\ Unwritten <= Unwritten'
    BY <1>2
  <2> QED
    BY <1>1, <1>3, <2>1, SendFrame
<1>4. CASE PeekHeader(w)
  <2>1. worker[w].pc = "peek" /\ UNCHANGED <<buffer, handed>>
    BY <1>4 DEF PeekHeader
  <2>2. CASE Returns(w)
    <3>1. worker'[w].pc = "idle"
      BY <1>0, <2>2, Returned
    <3> QED
      BY <1>3, <2>1, <3>1
  <2>3. ASSUME Len(b) >= 3, NEW m \in TotalLen(d), GoesOn(w, "size", m, <<>>)
        PROVE  HandsWholePackets("send")' /\ SendOrder'
    <3>1. m \in Nat
      BY <1>0, <2>3, TotalBounds
    <3>2. worker'[w].pc = "size" /\ worker'[w].total = m
      BY <1>0, <2>3, <3>1, WentOn
    <3>3. PICK p \in DOMAIN Ends["send"] :
              /\ LiesAt(b, p, 0) /\ Length("send", p) \in Nat /\ Length("send", p) <= Len(b)
              /\ \A i \in 1 .. Length("send", p) : b[i] = First("send", p) + i - 1
      BY <1>0, <2>3, WholeFront DEF SendOrder
    <3>4. \A i \in 1 .. 3 : i \in 1 .. Length("send", p)
      <4>1. Length("send", p) \in Nat /\ Length("send", p) >= 3
        BY <1>0, FirstBounds
      <4> QED
        BY <4>1
    <3>5. TotalLen(d) = {Length("send", p)}
      BY <1>0, <2>3, <3>3, <3>4, HeaderTells
    <3> QED
      BY <1>3, <2>1, <2>3, <3>2, <3>3, <3>5
  <2>4. Len(b) < 3 \/ Len(b) >= 3
    BY <1>0
  <2> QED
    BY <1>4, <2>2, <2>3, <2>4 DEF PeekHeader
<1>5. CASE TestSize(w)
  <2>1. worker[w].pc = "size" /\ UNCHANGED <<buffer, handed>>
    BY <1>5 DEF TestSize
  <2>2. CASE Returns(w)
    <3>1. worker'[w].pc = "idle"
      BY <1>0, <2>2, Returned
    <3> QED
      BY <1>3, <2>1, <3>1
  <2>3. CASE GoesOn(w, "read", n, <<>>)
    <3>1. worker'[w].pc = "read" /\ worker'[w].total = n
      BY <1>0, <2>3, WentOn
    <3>2. \E p \in DOMAIN Ends["send"] : n = Length("send", p) /\ LiesAt(b, p, 0)
      BY <1>1, <2>1 DEF SendOrder
    <3> QED
      BY <1>3, <2>1, <3>1, <3>2
  <2> QED
    BY <1>5, <2>2, <2>3 DEF TestSize
<1>6. CASE ReadPacket(w)
  <2>0. worker[w].pc = "read" /\ UNCHANGED handed
    BY <1>6 DEF ReadPacket
  <2>1. PICK p \in DOMAIN Ends["send"] : n = Length("send", p) /\ LiesAt(b, p, 0)
    BY <1>1, <2>0 DEF SendOrder
  <2>2. n >= 3 /\ n <= Len(b) /\ \A i \in 1 .. n : b[i] = First("send", p) + i - 1
    <3>1. 0 + n <= Len(b) /\ \A i \in 1 .. n : b[0 + i] = First("send", p) + i - 1
      BY <2>1 DEF LiesAt
    <3>2. \A i \in 1 .. n : 0 + i = i
      BY <1>0
    <3>3. n >= 3
      BY <1>0, <2>1, FirstBounds
    <3> QED
      BY <1>0, <3>1, <3>2, <3>3
  <2>3. /\ worker'[w].pc = "hand" /\ worker'[w].packet \in Seq(Nat) /\ Len(worker'[w].packet) = n
        /\ \A k \in 1 .. n : worker'[w].packet[k] = b[k]
        /\ Len(buffer'[d]) = Len(b) - n /\ buffer' \in [Dirs -> Seq(Nat)]
        /\ \A k \in 1 .. Len(b) - n : buffer'[d][k] = b[n + k]
    <3>1. d \in Dirs /\ d = worker[w].dir /\ Len(buffer[d]) >= worker[w].total
      BY <1>0, <2>2
    <3> HIDE DEF d
    <3> QED
      BY <1>6, <3>1, PacketTaken DEF d
  <2> DEFINE c == buffer'["send"]
             a == worker'[w].packet
  <2>4. c \in Seq(Nat) /\ Len(c) = Len(b) - n /\ \A k \in 1 .. Len(b) - n : c[k] = b[n + k]
    BY <1>0, <2>3
  <2>5. DOMAIN c = 1 .. Len(b) - n
    BY <2>4, LenProperties
  <2>6. Whole(c)
    <3>1. Whole(b)
      BY DEF SendOrder
    <3>2. Len(c) = Len(b) - Length("send", p) /\ \A k \in 1 .. Len(b) - Length("send", p) : c[k] = b[Length("send", p) + k]
      BY <2>1, <2>4
    <3> HIDE DEF b, c, n
    <3> QED
      BY <1>0, <2>1, <2>4, <3>1, <3>2, WholeCut DEF b
  <2>7. a = Packet("send", p)
    <3>1. /\ Packet("send", p) \in Seq(Nat) /\ Len(Packet("send", p)) = n
          /\ \A k \in 1 .. n : Packet("send", p)[k] = First("send", p) + k - 1
      BY <1>0, <2>1, PacketBytes
    <3>2. \A k \in 1 .. n : a[k] = Packet("send", p)[k]
      BY <2>2, <2>3, <3>1
    <3> QED
      BY <2>3, <3>1, <3>2, SeqEqual
  <2>8. 1 \in 1 .. n /\ 1 \in DOMAIN b /\ a[1] = b[1]
    <3>1. 1 \in 1 .. n /\ 1 \in 1 .. Len(b)
      BY <1>0, <2>2
    <3> QED
      BY <1>0, <2>3, <3>1
  <2> HIDE DEF n, b, c, a
  <2>9. \A k \in DOMAIN c : k \in Nat /\ n + k \in DOMAIN b /\ 1 < n + k /\ c[k] = b[n + k]
    <3>1. \A k \in 1 .. Len(b) - n : k \in Nat /\ n + k \in 1 .. Len(b) /\ 1 < n + k
      <4>1. n \in Nat /\ n >= 3 /\ Len(b) \in Nat
        BY <1>0, <2>2 DEF n, b
      <4> QED
        BY <4>1
    <3>2. DOMAIN b = 1 .. Len(b)
      BY <1>0 DEF b
    <3> QED
      BY <2>4, <2>5, <3>1, <3>2
  <2>10. /\ \A j, k \in DOMAIN b : j < k => b[j] < b[k]
         /\ \A k \in DOMAIN b : b[k] < Unwritten
         /\ \A j \in DOMAIN handed["send"] :
               handed["send"][j][1] < Unwritten /\ \A k \in DOMAIN b : handed["send"][j][1] < b[k]
    BY DEF SendOrder, b
  <2>11. ASSUME NEW j \in DOMAIN c, NEW k \in DOMAIN c, j < k PROVE c[j] < c[k]
    <3>1. n \in Nat /\ j \in Nat /\ k \in Nat
      BY <1>0, <2>9 DEF n
    <3>2. n + j < n + k
      BY <2>11, <3>1
    <3> QED
      BY <2>9, <2>10, <3>2
  <2>12. ASSUME NEW k \in DOMAIN c
         PROVE  /\ c[k] < Unwritten /\ a[1] < c[k]
                /\ \A j \in DOMAIN handed["send"] : handed["send"][j][1] < c[k]
    BY <2>8, <2>9, <2>10
  <2>13. a[1] < Unwritten /\ \A j \in DOMAIN handed["send"] : handed["send"][j][1] < a[1]
    BY <2>8, <2>10
  <2>14. Whole(buffer["send"])'
    BY <2>6 DEF Whole, LiesAt, c
  <2>15. HandsWholePackets("send")'
    BY <2>0 DEF HandsWholePackets
  <2>16. \A v \in InLoop("send")' : v = w
    BY <1>1
  <2>17. worker'[w].pc = "hand"
    BY <2>3
  <2> QED
    BY <1>2, <2>0, <2>7, <2>10, <2>11, <2>12, <2>13, <2>14, <2>15, <2>16, <2>17 DEF SendOrder, a, c
<1>7. CASE Transmit(w)
  <2>1. /\ worker[w].pc = "hand" /\ handed' = [handed EXCEPT !["send"] = Append(@, worker[w].packet)]
        /\ GoesOn(w, "peek", 0, <<>>) /\ UNCHANGED buffer
    BY <1>7 DEF Transmit, Again
  <2>2. worker'[w].pc = "peek"
    BY <1>0, <2>1, WentOn
  <2> DEFINE H == Len(handed["send"])
             a == worker[w].packet
  <2>3. /\ H \in Nat /\ DOMAIN handed'[d] = 1 .. H + 1 /\ DOMAIN handed[d] = 1 .. H
        /\ handed'[d][H + 1] = a /\ \A k \in DOMAIN handed[d] : handed'[d][k] = handed[d][k]
    BY <1>0, <2>1, Handed, WorkerFields
  <2>4. /\ \E p \in DOMAIN Ends["send"] : a = Packet("send", p)
        /\ a[1] < Unwritten
        /\ \A k \in DOMAIN b : a[1] < b[k]
        /\ \A j \in DOMAIN handed["send"] : handed["send"][j][1] < a[1]
    BY <1>1, <2>1 DEF SendOrder
  <2> HIDE DEF H, a, b
  <2>5. \A k \in DOMAIN handed'[d] : k \in DOMAIN handed[d] \/ k = H + 1
    <3>1. \A k \in 1 .. H + 1 : k \in 1 .. H \/ k = H + 1
      <4>1. H \in Nat
        BY <2>3
      <4> QED
        BY <4>1
    <3> QED
      BY <2>3, <3>1
  <2>6. \A j, k \in DOMAIN handed'[d] : j < k => j \in DOMAIN handed[d]
    <3>1. \A j, k \in 1 .. H + 1 : j < k => j \in 1 .. H
      <4>1. H \in Nat
        BY <2>3
      <4> QED
        BY <4>1
    <3> QED
      BY <2>3, <3>1
  <2>7. \A k \in DOMAIN handed'[d] : \E p \in DOMAIN Ends["send"] : handed'[d][k] = Packet("send", p)
    BY <2>3, <2>4, <2>5 DEF HandsWholePackets
  <2>8. ASSUME NEW j \in DOMAIN handed'[d], NEW k \in DOMAIN handed'[d], j < k
        PROVE  handed'[d][j][1] < handed'[d][k][1]
    <3>1. j \in DOMAIN handed[d] /\ handed'[d][j] = handed[d][j]
      BY <2>3, <2>6, <2>8
    <3>2. CASE k \in DOMAIN handed[d]
      BY <2>3, <2>8, <3>1, <3>2 DEF HandsWholePackets
    <3>3. CASE k = H + 1
      BY <2>3, <2>4, <3>1, <3>3
    <3> QED
      BY <2>5, <3>2, <3>3
  <2>9. HandsWholePackets("send")'
    BY <2>7, <2>8 DEF HandsWholePackets
  <2>10. ASSUME NEW j \in DOMAIN handed'[d]
         PROVE  handed'[d][j][1] < Unwritten /\ \A k \in DOMAIN b : handed'[d][j][1] < b[k]
    BY <2>3, <2>4, <2>5 DEF SendOrder, b
  <2>11. Whole(buffer["send"])'
    BY <2>1 DEF SendOrder, Whole, LiesAt
  <2>12. \A v \in InLoop("send")' : worker'[v].pc = "peek"
    BY <1>1, <2>2
  <2> QED
    BY <1>2, <2>1, <2>9, <2>10, <2>11, <2>12 DEF SendOrder, b
<1>8. CASE TransmitFails(w) \/ TransmitShort(w)
  <2>1. open /\ faults \in Nat
    <3>1. UNCHANGED life
      BY <1>8 DEF TransmitFails, TransmitShort
    <3> QED
      BY <3>1 DEF life, TypeOK
  <2>2. faults' = faults + 1
    BY <1>8, <2>1 DEF TransmitFails, TransmitShort, Fault
  <2> QED
    BY <2>1, <2>2
<1> QED
  BY <1>4, <1>5, <1>6, <1>7, <1>8 DEF Task, Deliver

LEMMA SendStep == TypeOK /\ LifeInv /\ QuietInv /\ SingleInv /\ TotalInv /\ SendInv /\ [Next]_vars => SendInv'
<1> SUFFICES ASSUME TypeOK, LifeInv, QuietInv, SingleInv, TotalInv, SendInv, [Next]_vars, faults' = 0, ~overlapped'
             PROVE  HandsWholePackets("send")' /\ (open' => SendOrder')
  BY DEF SendInv
<1>0. "send" \in Dirs /\ PoolOK /\ buffer \in [Dirs -> Seq(Nat)] /\ handed \in [Dirs -> Seq(Seq(Nat))]
  BY DEF Dirs, TypeOK, BufferOK, PoolOK
<1>1. faults = 0 /\ (open' => open)
  BY FaultsStay
<1>2. ~overlapped
  <2>1. ASSUME NEW w \in Workers, TaskBegins(w) PROVE overlapped => overlapped'
    <3>1. CASE UNCHANGED overlapped
      BY <3>1
    <3>2. CASE overlapped' = (overlapped \/ InLoop(queue[1]) # {})
      BY <3>2, Zenon
    <3> QED
      BY <1>0, <2>1, <3>1, <3>2, Begun
  <2>2. ASSUME NEW w \in Workers, Task(w), ~TaskBegins(w) PROVE UNCHANGED overlapped
    BY <2>2, WorkerSteps
  <2>3. CASE CloseClears \/ StoreChunk \/ AddRecvTask \/ WriteStores \/ AddSendTask
    BY <2>3 DEF CloseClears, StoreChunk, AddRecvTask, WriteStores, AddSendTask, pool
  <2> QED
    BY <2>1, <2>2, <2>3, Elsewhere
<1>3. HandsWholePackets("send") /\ (open => SendOrder)
  BY <1>1, <1>2 DEF SendInv
\* Once the file is closed nothing is handed over.
<1>4. CASE ~open
  <2>1. UNCHANGED handed["send"]
    <3>1. ASSUME NEW w \in Workers, Task(w) PROVE UNCHANGED handed["send"]
      BY <1>0, <1>4, <3>1 DEF Task, TaskBegins, PeekHeader, TestSize, ReadPacket, Deliver, Transmit, TransmitShort,
         TransmitFails, Dirs
    <3>2. CASE CloseClears \/ StoreChunk \/ AddRecvTask \/ WriteStores \/ AddSendTask
      BY <3>2 DEF CloseClears, StoreChunk, AddRecvTask, WriteStores, AddSendTask, pool
    <3> QED
      BY <3>1, <3>2, Elsewhere
  <2> QED
    BY <1>1, <1>3, <1>4, <2>1 DEF HandsWholePackets
<1> SUFFICES ASSUME open PROVE HandsWholePackets("send")' /\ (open' => SendOrder')
  BY <1>4
<1>5. ASSUME UNCHANGED <<buffer["send"], handed["send"]>>, Unwritten' \in Nat, Unwritten <= Unwritten',
             \A w \in InLoop("send")' : worker'[w].pc = "peek" \/ (w \in InLoop("send") /\ worker'[w] = worker[w])
      PROVE  HandsWholePackets("send")' /\ SendOrder'
  <2>1. SendOrder
    BY <1>3
  <2>2. \A w \in InLoop("send")' : worker'[w].pc \in {"size", "read"} =>
            \E p \in DOMAIN Ends["send"] : worker'[w].total = Length("send", p) /\ LiesAt(buffer["send"], p, 0)
    BY <1>5, <2>1 DEF SendOrder
  <2> QED
    BY <1>3, <1>5, <2>1, <2>2, SendFrame
<1>6. ASSUME UNCHANGED <<opc, next>> PROVE Unwritten' \in Nat /\ Unwritten <= Unwritten'
  <2>1. Unwritten' = Unwritten
    BY <1>6 DEF Unwritten
  <2> QED
    BY <2>1, UnwrittenBounds
<1>7. CASE Main \/ Reader \/ UNCHANGED vars
  <2>1. UNCHANGED <<worker, handed, opc, next>>
    BY <1>7 DEF Main, RegisterRecvCallback, Start, StartFails, StartCatches, StopBegins, StopClosesFd, StopJoins,
                CloseClears, Reader, ReaderTests, ReadData, ReadNothing, ReadError, StoreChunk, AddRecvTask, pool, writer, vars
  <2>2. UNCHANGED buffer["send"]
    <3>1. CASE CloseClears
      <4>1. buffer["send"] = <<>>
        BY <1>1, <3>1 DEF QuietInv, CloseClears
      <4> QED
        BY <1>0, <3>1, <4>1 DEF CloseClears
    <3>2. CASE ~CloseClears
      BY <1>0, <1>7, <3>2 DEF Main, RegisterRecvCallback, Start, StartFails, StartCatches, StopBegins, StopClosesFd,
         StopJoins, Reader, ReaderTests, ReadData, ReadNothing, ReadError, StoreChunk, AddRecvTask, vars
    <3> QED
      BY <3>1, <3>2
  <2>3. InLoop("send")' = InLoop("send")
    BY <2>1 DEF InLoop
  <2> QED
    BY <1>5, <1>6, <2>1, <2>2, <2>3
<1>8. CASE WriteTests
  <2>1. UNCHANGED <<worker, handed, buffer>> /\ InLoop("send")' = InLoop("send")
    BY <1>8 DEF WriteTests, pool, InLoop
  <2>2. opc = "idle" /\ next <= Len(Ends["send"]) /\ opc' \in {"store", "idle"} /\ (next' = next \/ next' = next + 1)
    BY <1>8 DEF WriteTests
  <2>3. Unwritten = First("send", next) /\ Unwritten' = First("send", next')
    BY <2>2 DEF Unwritten
  <2>4. First("send", next) \in Nat /\ Length("send", next) \in Nat
          /\ First("send", next + 1) = First("send", next) + Length("send", next)
    BY <2>2, UnwrittenBounds
  <2>5. Unwritten' \in Nat /\ Unwritten <= Unwritten'
    BY <2>2, <2>3, <2>4
  <2> QED
    BY <1>5, <2>1, <2>5
<1>9. CASE WriteStores
  BY <1>3, <1>9, SendWritten
<1>10. CASE AddSendTask
  <2>1. UNCHANGED <<worker, handed, buffer>> /\ InLoop("send")' = InLoop("send")
    BY <1>10 DEF AddSendTask, pool, InLoop
  <2>2. Unwritten' = Unwritten
    BY <1>10 DEF AddSendTask, Unwritten
  <2>3. Unwritten' \in Nat /\ Unwritten <= Unwritten'
    BY <2>2, UnwrittenBounds
  <2> QED
    BY <1>5, <2>1, <2>3
<1>11. ASSUME NEW w \in Workers, TaskBegins(w) PROVE HandsWholePackets("send")' /\ SendOrder'
  <2>1. UNCHANGED <<buffer, handed, opc, next>>
    BY <1>11 DEF TaskBegins, writer
  <2>2. CASE SameLoop("send")
    BY <1>5, <1>6, <2>1, <2>2 DEF SameLoop
  <2>3. CASE /\ InLoop("send")' = InLoop("send") \cup {w} /\ worker'[w].pc = "peek"
             /\ \A v \in InLoop("send") : worker'[v] = worker[v]
    BY <1>5, <1>6, <2>1, <2>3
  <2> QED
    BY <1>0, <1>11, <2>2, <2>3, LoopBegins
<1>12. ASSUME NEW w \in Workers, Task(w), ~TaskBegins(w) PROVE HandsWholePackets("send")' /\ (open' => SendOrder')
  <2>0. worker[w].dir \in Dirs /\ UNCHANGED open
    BY <1>0, <1>12, WorkerFields DEF Task, PeekHeader, TestSize, ReadPacket, Deliver, Transmit, TransmitShort,
       TransmitFails, life
  <2>1. CASE worker[w].dir = "send"
    BY <1>2, <1>3, <1>12, <2>0, <2>1, SendTask
  <2>2. CASE worker[w].dir = "recv"
    <3>1. SameLoop("send")
      BY <1>0, <1>12, <2>0, <2>2, LoopGoesOn
    <3>2. UNCHANGED <<opc, next>>
      BY <1>12 DEF Task, PeekHeader, TestSize, ReadPacket, Deliver, Transmit, TransmitShort, TransmitFails, writer
    <3>3. UNCHANGED <<buffer["send"], handed["send"]>>
      BY <1>0, <1>12, <2>2 DEF Task, PeekHeader, TestSize, ReadPacket, Deliver, Transmit, TransmitShort, TransmitFails
    <3> QED
      BY <1>5, <1>6, <3>1, <3>2, <3>3 DEF SameLoop
  <2> QED
    BY <2>0, <2>1, <2>2 DEF Dirs
<1> QED
  BY <1>7, <1>8, <1>9, <1>10, <1>11, <1>12 DEF Next, Writer
-----------------------------------------------------------------------------
(* The invariant and the theorems                                          *)

IInv ==
    /\ TypeOK /\ LifeInv /\ QuietInv /\ SingleInv /\ TotalInv
    /\ StrandedInv /\ RecvInv /\ SendInv

LEMMA InitInv == Init => IInv
<1> SUFFICES ASSUME Init PROVE IInv
  OBVIOUS
<1>0. <<>> \in Seq(Nat) /\ <<>> \in Seq(Dirs) /\ <<>> \in Seq(Seq(Nat)) /\ <<>> \in Seq(Positions("recv"))
        /\ Len(<<>>) = 0 /\ DOMAIN <<>> = {} /\ "recv" \in Dirs /\ "send" \in Dirs
  BY DEF Dirs
<1>1. \A d \in Dirs : buffer[d] = <<>> /\ handed[d] = <<>>
  BY DEF Init
<1>2. \A w \in Workers : worker[w].pc = "idle"
  <2>1. ASSUME NEW w \in Workers PROVE worker[w] = Idle
    BY Zenon DEF Init
  <2> QED
    BY <2>1, IdleFields, Zenon
<1>3. \A d \in Dirs : InLoop(d) = {}
  BY <1>2 DEF InLoop
<1>4. StreamLen("recv") \in Nat /\ Len(Ends["send"]) \in Nat /\ Len(Ends["recv"]) \in Nat
        /\ First("recv", 1) = 1 /\ \A e \in DOMAIN Ends["recv"] : First("recv", e) \in Nat
  BY <1>0, StreamEnd, Stream, FirstBounds DEF First
<1>5. TypeOK
  <2>1. LifeOK
    BY DEF Init, LifeOK
  <2>2. BufferOK
    <3>1. Capacity \in Nat
      BY DeviceAssumption DEF DeviceAssumption
    <3> QED
      BY <1>0, <1>1, <3>1 DEF Init, BufferOK
  <2>3. ReaderOK
    <3>1. StreamLen("recv") \in Nat
      BY <1>4
    <3>2. rpc = "none" /\ chunk = <<>> /\ taken = 0 /\ discarded = FALSE
      BY Zenon DEF Init
    <3>3. taken \in 0 .. StreamLen("recv")
      BY <3>1, <3>2
    <3> QED
      BY <1>0, <3>2, <3>3, Zenon DEF ReaderOK
  <2>4. WriterOK
    BY <1>4 DEF Init, WriterOK
  <2>5. PoolOK
    BY <1>0, <1>2, IdleFields DEF Init, PoolOK
  <2>6. faults \in 0 .. MaxFaults
    BY DeviceAssumption DEF Init, DeviceAssumption
  <2> QED
    BY <2>1, <2>2, <2>3, <2>4, <2>5, <2>6 DEF TypeOK
<1>6. LifeInv
  BY <1>0 DEF Init, LifeInv
<1>7. QuietInv
  BY <1>0, <1>1 DEF Init, QuietInv
<1>8. SingleInv /\ TotalInv
  BY <1>2, <1>3 DEF SingleInv, TotalInv
<1>9. StrandedInv
  <2> SUFFICES ASSUME NEW d \in Dirs, Complete(d) PROVE FALSE
    BY DEF StrandedInv
  <2>1. Len(buffer[d]) >= 3
    BY <1>5, CompleteTells
  <2> QED
    BY <1>0, <1>1, <2>1
<1>10. RecvInv
  <2>1. Out("recv") = 0
    BY <1>0, <1>1, <1>3 DEF Out, Holding
  <2>2. InStep
    BY <1>0, <1>1, <1>3, <1>4, <2>1 DEF Init, InStep
  <2> QED
    BY <1>0, <1>1, <1>3, <1>4, <2>1, <2>2 DEF RecvInv
<1>11. SendInv
  BY <1>0, <1>1, <1>3 DEF SendInv, HandsWholePackets, SendOrder, Whole
<1> QED
  BY <1>5, <1>6, <1>7, <1>8, <1>9, <1>10, <1>11 DEF IInv

LEMMA NextInv == IInv /\ [Next]_vars => IInv'
BY TypeStep, LifeStep, QuietStep, SingleStep, TotalStep, StrandedStep, RecvStep, SendStep DEF IInv

LEMMA Invariance == Spec => []IInv
BY InitInv, NextInv, PTL DEF Spec

\* Every variable keeps its type: the buffers stay within their capacity, whatever the
\* reader, the callers of write and the tasks of the pool do (Device).
THEOREM TypeCorrect == Spec => []TypeOK
<1>1. IInv => TypeOK
  BY DEF IInv
<1> QED
  BY <1>1, Invariance, PTL

\* No complete packet is left in a buffer with no task to come for it, for any number of
\* workers and however many tasks run at a time (backgroundTask, write, recvTask, sendTask).
THEOREM NoPacketIsStranded == Spec => []NoPacketStranded
<1>1. IInv => NoPacketStranded
  <2> SUFFICES ASSUME IInv, NEW d \in Dirs, Complete(d), Works(d) PROVE LookComing(d)
    BY DEF NoPacketStranded
  <2>1. (\E w \in Workers : Awake(w, d)) => InLoop(d) # {}
    BY DEF Awake, InLoop
  <2> QED
    BY <2>1 DEF IInv, StrandedInv, LookComing
<1> QED
  BY <1>1, Invariance, PTL

\* The callback gets the packets of the stream one by one from the first on, whatever blocks
\* read() returns, as long as no block was discarded and no two tasks ran at a time (recvTask).
THEOREM ReceivesPackets == Spec => []ReceivesWholePackets
<1>1. IInv => ReceivesWholePackets
  BY DEF IInv, RecvInv, ReceivesWholePackets
<1> QED
  BY <1>1, Invariance, PTL

\* What is given to ::write are whole packets in the order in which write was called with them,
\* as long as no call failed and no two tasks ran at a time (write, sendTask).
THEOREM SendsPackets == Spec => []SendsWholePackets
<1>1. IInv => SendsWholePackets
  BY DEF IInv, SendInv, SendsWholePackets
<1> QED
  BY <1>1, Invariance, PTL
=============================================================================
