----------------------------- MODULE Bluetooth -----------------------------
(***************************************************************************)
(* App/bluetooth.cpp: how a Bluetooth device cuts what it reads into       *)
(* packets (postRead) and turns a packet into a command (preWrite), with   *)
(* Route's conversions on either side.                                     *)
(*                                                                         *)
(* postRead is called by the read thread only, so a read with the postRead *)
(* that follows it is one step.  The packets go through Device's buffers,  *)
(* which Device models.                                                    *)
(*                                                                         *)
(* The line carries items: frames, acknowledgements and noise.             *)
(***************************************************************************)
EXTENDS Message, SequencesExt

CONSTANTS
    Items,      \* what the device may transmit
    MaxPending, \* bound: items transmitted and not taken yet
    Capacity,   \* READ_BUFFER_CAPACITY
    MaxRead,    \* bound: bytes a read returns
    Documents   \* what the broker may send

ASSUME BluetoothAssumption ==
    /\ Items \subseteq Seq(Byte) \ {<<>>}
    /\ {MaxPending, Capacity, MaxRead} \subseteq Nat \ {0}

\* A JSON integer is an integer, and a JSON string a sequence of characters.
ASSUME DocumentAssumption ==
    \A doc \in Documents : \A f \in DOMAIN doc :
        /\ "int" \in DOMAIN doc[f] => doc[f].int \in Int
        /\ "text" \in DOMAIN doc[f] => doc[f].text \in Seq(STRING)

VARIABLES
    wire,           \* bytes transmitted and not read yet
    readBuffer_,    \* BluetoothDevice::readBuffer_
    dropped,        \* bytes were discarded
    pending,        \* items not taken yet, while nothing was dropped
    uplink,         \* the last packet, and the frame that was due
    command         \* the last document of the broker, and what was written for it

up == <<wire, readBuffer_, dropped, pending, uplink>>
vars == <<up, command>>

Header == <<241, 221>>    \* FIX_HEADER_0, FIX_HEADER_1
Ack == <<79, 75, 13, 10>> \* "OK\r\n"

StartsWith(s, i, t) == i + Len(t) - 1 <= Len(s) /\ SubSeq(s, i, i + Len(t) - 1) = t

\* readBuffer_[2] + 3 for a frame at the front.
FrameLen(s) == s[3] + 3

\* The header, the length, and in a valid frame the peer's address, two bytes nobody
\* looks at and the payload.
IsFrame(item) ==
    StartsWith(item, 1, Header) /\ Len(item) >= 4 /\ Len(item) = FrameLen(item)

IsNoise(item) == ~IsFrame(item) /\ item # Ack

\* Two bytes that begin a header or an acknowledgement.
Begins(a, b) == (a = Header[1] /\ b = Header[2]) \/ (a = Ack[1] /\ b = Ack[2])

\* Noise holds no such pair and does not complete one, or else it is no noise to a
\* program that looks for them.
ASSUME LineAssumption ==
    \A item \in Items : IsNoise(item) =>
        /\ item[1] \notin {Header[2], Ack[2]}
        /\ \A i \in 1 .. Len(item) - 1 : ~Begins(item[i], item[i + 1])

\* Fault: the bytes before n stay when the buffer holds more than n bytes.
ignoreBufferNot(s, n) == IF n >= Len(s) THEN <<>> ELSE s

ignoreBuffer(s, n) == SubSeq(s, n + 1, Len(s))

\* Fault: the last place the scan looks at is one too early.
HitsButLast(s) == {i \in 1 .. Len(s) - 4 : StartsWith(s, i, Ack) \/ StartsWith(s, i, Header)}

\* Where the scan can stop.
Hits(s) == {i \in 1 .. Len(s) - 3 : StartsWith(s, i, Ack) \/ StartsWith(s, i, Header)}

FirstHit(s) == CHOOSE i \in Hits(s) : \A j \in Hits(s) : i <= j

\* What is in the buffer when the scan begins, after a read of n bytes.
Grown(n) == readBuffer_ \o SubSeq(wire, 1, n)

\* The same from the frame on at which the scan stops.
FromFrame(n) == ignoreBuffer(Grown(n), FirstHit(Grown(n)) - 1)

\* Fault: the two bytes behind the address are taken for payload.
ToPacketShifted(s) == <<BLE_MESH, 2, s[3] - 4>> \o SubSeq(s, 4, 5) \o SubSeq(s, 6, s[3] + 1)

\* The packet for the frame at the front.
ToPacket(s) == <<BLE_MESH, 2, s[3] - 4>> \o SubSeq(s, 4, 5) \o SubSeq(s, 8, FrameLen(s))

Nothing == [packet |-> <<>>, frame |-> <<>>]

NoCommand == [doc |-> <<>>, line |-> <<>>]

Init ==
    /\ wire = <<>>
    /\ readBuffer_ = <<>>
    /\ dropped = FALSE
    /\ pending = <<>>
    /\ uplink = Nothing
    /\ command = NoCommand

\* Bound: nothing is transmitted once something was dropped or a command was given.
Transmit(item) ==
    /\ Len(pending) < MaxPending
    /\ ~dropped /\ command = NoCommand
    /\ wire' = wire \o item
    /\ pending' = Append(pending, item)
    /\ UNCHANGED <<readBuffer_, dropped, uplink, command>>
-----------------------------------------------------------------------------
(* postRead after a read of n bytes                                        *)

Read(n) ==
    /\ n \in 1 .. MaxRead
    /\ n <= Len(wire)
    /\ wire' = ignoreBuffer(wire, n)
    /\ UNCHANGED command

\* Fault: room for one byte more than there is.
ScanOneMore(n) == Read(n) /\ Len(Grown(n)) <= Capacity + 1

\* The read is appended to the buffer and scanned.
Scan(n) == Read(n) /\ Len(Grown(n)) <= Capacity

\* The items behind the first one of the given kinds.
Behind(items, kinds) ==
    LET k == SelectInSeq(items, LAMBDA item : item \in kinds) IN IF k = 0 THEN <<>> ELSE SubSeq(items, k + 1, Len(items))

\* The first frame that was not taken yet.
Due == LET k == SelectInSeq(pending, IsFrame) IN IF k = 0 THEN <<>> ELSE pending[k]

\* The whole read is discarded: the internal buffer is full.
ReadDiscarded(n) ==
    /\ Read(n)
    /\ Len(Grown(n)) > Capacity
    /\ dropped' = TRUE
    /\ pending' = <<>>
    /\ UNCHANGED <<readBuffer_, uplink>>

\* Fewer than four bytes, or no frame and no acknowledgement in them.
NothingFound(n) ==
    /\ Scan(n)
    /\ Hits(Grown(n)) = {}
    /\ readBuffer_' = Grown(n)
    /\ UNCHANGED <<dropped, pending, uplink>>

AckFound(n) ==
    /\ Scan(n)
    /\ Hits(Grown(n)) # {}
    /\ StartsWith(Grown(n), FirstHit(Grown(n)), Ack)
    /\ readBuffer_' = ignoreBuffer(Grown(n), FirstHit(Grown(n)) + 3)
    /\ pending' = Behind(pending, {Ack})
    /\ UNCHANGED <<dropped, uplink>>

FrameFound(n) ==
    /\ Scan(n)
    /\ Hits(Grown(n)) # {}
    /\ StartsWith(Grown(n), FirstHit(Grown(n)), Header)

HalfFrame(n) ==
    /\ FrameFound(n)
    /\ Len(FromFrame(n)) < FrameLen(FromFrame(n))
    /\ readBuffer_' = FromFrame(n)
    /\ UNCHANGED <<dropped, pending, uplink>>

WholeFrame(n) ==
    /\ FrameFound(n)
    /\ Len(FromFrame(n)) >= FrameLen(FromFrame(n))
    /\ readBuffer_' = ignoreBuffer(FromFrame(n), FrameLen(FromFrame(n)))

\* Too short for the address and the two bytes behind it.
InvalidFrame(n) ==
    /\ WholeFrame(n)
    /\ FromFrame(n)[3] < 4
    /\ pending' = Behind(pending, {item \in Items : IsFrame(item)})
    /\ UNCHANGED <<dropped, uplink>>

PacketFound(n) ==
    /\ WholeFrame(n)
    /\ FromFrame(n)[3] >= 4
    /\ uplink' = [packet |-> ToPacket(FromFrame(n)), frame |-> Due]
    /\ pending' = Behind(pending, {item \in Items : IsFrame(item)})
    /\ UNCHANGED dropped

postRead(n) ==
    \/ ReadDiscarded(n) \/ NothingFound(n) \/ AckFound(n) \/ HalfFrame(n)
    \/ InvalidFrame(n) \/ PacketFound(n)
-----------------------------------------------------------------------------
(* preWrite                                                                *)

AtMesh == <<65, 84, 43, 77, 69, 83, 72, 0>>   \* "AT+MESH" with its terminator

\* Fault: packets of every type are written.
AcceptsAnyType(packet) ==
    /\ Len(packet) >= 3
    /\ packet[2] = 2
    /\ Len(packet) >= 3 + packet[2] + packet[3]

\* The tests of preWrite.
Accepts(packet) ==
    /\ Len(packet) >= 3
    /\ packet[1] = BLE_MESH
    /\ packet[2] = 2
    /\ Len(packet) >= 3 + packet[2] + packet[3]

preWrite(packet) ==
    IF Accepts(packet)
    THEN AtMesh \o SubSeq(packet, 4, 5) \o SubSeq(packet, 6, 5 + packet[3]) \o <<13, 10>>
    ELSE <<>>

\* handleMqttMessage, and preWrite on the packet.  Neither shares state with
\* postRead, so commands are looked at before anything is transmitted.
Command(doc) ==
    /\ wire = <<>> /\ readBuffer_ = <<>> /\ uplink = Nothing /\ ~dropped
    /\ command' = [doc |-> doc,
                   line |-> IF fromJson(doc) = Thrown
                            THEN <<>>
                            ELSE preWrite(toBinary(fromJson(doc)))]
    /\ UNCHANGED up

Next ==
    \/ \E item \in Items : Transmit(item)
    \/ \E n \in 1 .. MaxRead : postRead(n)
    \/ \E doc \in Documents : Command(doc)

Spec == Init /\ [][Next]_vars
-----------------------------------------------------------------------------
TypeOK ==
    /\ wire \in Seq(Byte)
    /\ readBuffer_ \in Seq(Byte) /\ Len(readBuffer_) <= Capacity
    /\ dropped \in BOOLEAN
    /\ pending \in Seq(Items) /\ Len(pending) <= MaxPending
    /\ uplink.packet \in Seq(Byte)
    /\ command.line \in Seq(Byte)

\* However read() cuts the stream, what is buffered and under way is what was
\* transmitted from the first item not taken on; only noise in front of it may be
\* gone.  So no frame is cut, skipped or taken twice (postRead, ignoreBuffer).
KeepsInStep ==
    LET transmitted == FlattenSeq(pending)
        left == readBuffer_ \o wire
        noise == SelectInSeq(pending, LAMBDA item : ~IsNoise(item))
    IN ~dropped =>
        /\ IsSuffix(left, transmitted)
        /\ noise # 0 => IsSuffix(FlattenSeq(SubSeq(pending, noise, Len(pending))), left)

\* What is published for the frame that was due has the peer's address and the
\* payload of that frame, as text in hexadecimal (postRead, fromBinary, toJson).
PublishesTheFrame ==
    LET frame == uplink.frame
        doc == toJson(fromBinary(uplink.packet))
        id == SubSeq(frame, 4, 5)
        payload == SubSeq(frame, 8, Len(frame))
    IN frame # <<>> =>
        /\ fromBinary(uplink.packet) # Thrown
        /\ doc.connection_type.int = BLE_MESH
        /\ hexToBytes(doc.id.text) = id
        /\ hexToBytes(doc.data.text) = payload

\* A command is written only for an id of two bytes and, when the type is a byte, only
\* for BLE_MESH; it ends with that id, the data and the end of the line (fromJson,
\* toBinary, preWrite).
CommandCarriesTheDocument ==
    LET doc == command.doc
        carried == hexToBytes(doc.id.text) \o hexToBytes(doc.data.text)
    IN command.line # <<>> =>
        /\ doc.connection_type.int \in Byte => doc.connection_type.int = BLE_MESH
        /\ Len(doc.id.text) = 4
        /\ IsSuffix(carried \o <<13, 10>>, command.line)

\* fromJson says beside its test of the type that it must be within 0..255: a document
\* for which a command is written has such a type.
WrittenTypeIsInRange == command.line # <<>> => command.doc.connection_type.int \in Byte

\* A frame or an acknowledgement all of whose bytes are there is not passed over:
\* the read after which it is whole, or the next one, takes an item (postRead takes
\* at most one item for each read).
FirstWhole(s) ==
    LET k == SelectInSeq(pending, LAMBDA item : ~IsNoise(item))
        rest == Len(FlattenSeq(SubSeq(pending, k + 1, Len(pending))))
    IN k # 0 /\ Len(s) + Len(wire') >= rest + Len(pending[k]) /\ rest >= Len(wire')

WholeItemIsTaken ==
    [][\A n \in 1 .. MaxRead :
        postRead(n) /\ ~dropped /\ Len(Grown(n)) <= Capacity /\ FirstWhole(Grown(n))
            => pending' # pending]_vars
=============================================================================
