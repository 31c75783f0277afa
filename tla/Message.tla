------------------------------ MODULE Message ------------------------------
(***************************************************************************)
(* App/Message.cpp: the packet that travels between a device and Route,    *)
(* and the JSON document that travels between Route and the broker.  Both  *)
(* conversions are operators; where the code throws, they give Thrown.     *)
(*                                                                         *)
(* A document is the function from the names of its fields to their        *)
(* values.  A value that is an integer has the field int, one that is a    *)
(* string the field text, a sequence of characters; others have neither.   *)
(***************************************************************************)
EXTENDS Integers, Sequences

CONSTANT IntMod   \* number of values of an int, 2^32 in the program

ASSUME MessageAssumption == IntMod \in Nat /\ IntMod % 2 = 0 /\ IntMod > 512

Byte == 0 .. 255

\* enum class ConnectionType : uint8_t
NONE == 0
LORA == 1
BLE_MESH == 2

Thrown == [thrown |-> TRUE]

\* The constructor.
Message(type, id, data) ==
    IF Len(id) > 255 \/ Len(data) > 255
    THEN Thrown
    ELSE [type |-> type, id |-> id, data |-> data]

toBinary(m) == <<m.type, Len(m.id), Len(m.data)>> \o m.id \o m.data

\* The three length tests of fromBinary.
WellCut(bytes) == Len(bytes) >= 3 /\ Len(bytes) = 3 + bytes[2] + bytes[3]

fromBinary(bytes) ==
    IF WellCut(bytes)
    THEN Message(bytes[1], SubSeq(bytes, 4, 3 + bytes[2]), SubSeq(bytes, 4 + bytes[2], Len(bytes)))
    ELSE Thrown

UpperDigit == <<"0", "1", "2", "3", "4", "5", "6", "7", "8", "9", "A", "B", "C", "D", "E", "F">>
LowerDigit == <<"0", "1", "2", "3", "4", "5", "6", "7", "8", "9", "a", "b", "c", "d", "e", "f">>

bytesToHex(bytes) ==
    [k \in 1 .. 2 * Len(bytes) |->
        LET byte == bytes[(k + 1) \div 2]
        IN UpperDigit[1 + (IF k % 2 = 1 THEN byte \div 16 ELSE byte % 16)]]

HexChar(v) == {UpperDigit[v + 1], LowerDigit[v + 1]}

hexCharToValue(c) == CHOOSE v \in 0 .. 15 : c \in HexChar(v)

\* The texts hexToBytes does not throw at.
IsHex(text) ==
    /\ Len(text) % 2 = 0
    /\ \A k \in DOMAIN text : \E v \in 0 .. 15 : text[k] \in HexChar(v)

hexToBytes(text) ==
    [k \in 1 .. Len(text) \div 2 |->
        16 * hexCharToValue(text[2 * k - 1]) + hexCharToValue(text[2 * k])]

toJson(m) ==
    [connection_type |-> [int |-> m.type],
     id |-> [text |-> bytesToHex(m.id)],
     data |-> [text |-> bytesToHex(m.data)]]

\* get<int>() keeps the low bits of the integer.
Narrow(n) == ((n + IntMod \div 2) % IntMod) - IntMod \div 2

\* The documents fromJson does not throw at before it builds the message.
WellFormed(doc) ==
    /\ {"connection_type", "id", "data"} \subseteq DOMAIN doc
    /\ "int" \in DOMAIN doc.connection_type
    /\ "text" \in DOMAIN doc.id \cap DOMAIN doc.data
    /\ Narrow(doc.connection_type.int) \in Byte
    /\ IsHex(doc.id.text) /\ IsHex(doc.data.text)

fromJson(doc) ==
    IF WellFormed(doc)
    THEN Message(Narrow(doc.connection_type.int), hexToBytes(doc.id.text), hexToBytes(doc.data.text))
    ELSE Thrown
=============================================================================
