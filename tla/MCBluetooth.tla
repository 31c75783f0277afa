---------------------------- MODULE MCBluetooth ----------------------------
\* The instance of Bluetooth for TLC.
EXTENDS Bluetooth

Frame(id, payload) == Header \o <<Len(payload) + 4>> \o id \o <<0, 9>> \o payload

\* An empty frame, one whose address looks like a header and whose payload looks
\* like an acknowledgement, an acknowledgement, a byte of noise that looks like the
\* begin of a header, and a frame that is too short.
MCItems ==
    {Frame(<<1, 171>>, <<>>), Frame(Header, Ack), Ack, <<241>>, Header \o <<2, 1, 2>>}

Ids == {"0102", "abCD", "01", "0g02", "012"}

Text == [t \in Ids \cup {"", "F0", "0dfAC9"} |->
    CASE t = "0102" -> <<"0", "1", "0", "2">>
      [] t = "abCD" -> <<"a", "b", "C", "D">>
      [] t = "01" -> <<"0", "1">>
      [] t = "0g02" -> <<"0", "g", "0", "2">>
      [] t = "012" -> <<"0", "1", "2">>
      [] t = "" -> <<>>
      [] t = "F0" -> <<"F", "0">>
      [] t = "0dfAC9" -> <<"0", "d", "f", "A", "C", "9">>]

\* Documents with every type near the ends of the range and a type that is BLE_MESH
\* only once it is narrowed, and documents with a field missing or of another kind.
MCDocuments ==
    LET types == {-1, NONE, LORA, BLE_MESH, 255, 256, IntMod + BLE_MESH, BLE_MESH - IntMod}
        whole == [connection_type : {[int |-> n] : n \in types},
                  id : {[text |-> Text[t]] : t \in Ids},
                  data : {[text |-> Text[t]] : t \in DOMAIN Text}]
        some == [connection_type |-> [int |-> BLE_MESH], id |-> [text |-> Text["0102"]],
                 data |-> [text |-> Text[""]]]
        without == {[f \in DOMAIN some \ {g} |-> some[f]] : g \in DOMAIN some}
        other == {[some EXCEPT ![f] = [other |-> TRUE]] : f \in DOMAIN some}
    IN whole \cup without \cup other
=============================================================================
