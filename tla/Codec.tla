------------------------------- MODULE Codec --------------------------------
(***************************************************************************)
(* Frames of the RPC protocol: src/code/MiniRPC/src/codec.cpp. A unit on   *)
(* the wire is a number: an integer field of any width is one unit, a      *)
(* string is a sequence of units behind its length. A frame is a header of *)
(* five units (magic with version, type, request id, length of the         *)
(* metadata, length of the body), the metadata and the body.               *)
(***************************************************************************)
EXTENDS Naturals, Sequences

CONSTANTS MaxMessageSize,  \* kMaxMessageSize
          Raw              \* the serializer's name "raw"

ASSUME CodecAssumption == MaxMessageSize \in Nat /\ Raw \in Seq(Nat) /\ Raw # << >>

Magic     == 77   \* kRpcMagic with kProtocolVersion
MetaMagic == 78   \* kMetadataExtensionMagic with its version
Request   == 1    \* MessageType
Response  == 2

HeaderSize == 5   \* kRpcHeaderSize

\* RpcRequest and RpcResponse.
RequestRecords ==
    [type : {Request}, id : Nat, payload : Seq(Nat), service : Seq(Nat), method : Seq(Nat),
     timeout : Nat, attempt : Nat, trace : Seq(Nat), serializer : Seq(Nat)]
ResponseRecords ==
    [type : {Response}, id : Nat, payload : Seq(Nat), code : Nat, error : Seq(Nat),
     cost : Nat, trace : Seq(Nat), serializer : Seq(Nat)]

-----------------------------------------------------------------------------
(***************************************************************************)
(* Encoding.                                                               *)
(***************************************************************************)
String(s) == <<Len(s)>> \o s

\* The extension is left out when it says nothing; the defect takes an
\* attempt for nothing.
SaysMore(m) == IF m.type = Request
    THEN m.timeout # 0 \/ m.trace # << >> \/ m.serializer # Raw
    ELSE m.trace # << >> \/ m.cost # 0 \/ m.serializer # Raw

HasExtension(m) == SaysMore(m) \/ (m.type = Request /\ m.attempt # 0)

Extension(m) == <<MetaMagic>> \o (IF m.type = Request THEN <<m.timeout, m.attempt>> ELSE <<m.cost>>)
                   \o String(m.trace) \o String(m.serializer)

Metadata(m) == (IF m.type = Request THEN String(m.service) \o String(m.method)
                                    ELSE <<m.code>> \o String(m.error))
                  \o (IF HasExtension(m) THEN Extension(m) ELSE << >>)

\* encodeFrame throws when the message is too large.
Encodable(m) == Len(Metadata(m)) + Len(m.payload) <= MaxMessageSize

\* encodeRequest, encodeResponse.
Encode(m) == <<Magic, m.type, m.id, Len(Metadata(m)), Len(m.payload)>> \o Metadata(m) \o m.payload

-----------------------------------------------------------------------------
(***************************************************************************)
(* Decoding. A cursor walks through the metadata, collecting the fields it *)
(* has read. What a read returns is a set: the cursor behind the field, or *)
(* nothing when the field does not fit.                                    *)
(***************************************************************************)
Start(metadata) == {[rest |-> metadata, fields |-> << >>]}

ReadUint(cursors) ==
    {[rest |-> Tail(c.rest), fields |-> Append(c.fields, Head(c.rest))] :
        c \in {d \in cursors : d.rest # << >>}}

ReadString(cursors) ==
    {[rest   |-> SubSeq(c.rest, Head(c.rest) + 2, Len(c.rest)),
      fields |-> Append(c.fields, SubSeq(c.rest, 2, Head(c.rest) + 1))] :
        c \in {d \in cursors : d.rest # << >> /\ Head(d.rest) < Len(d.rest)}}

\* decodeRequestFields, decodeResponseFields, and the extensions behind them.
ReadFields(type, cursors) == ReadString(
    IF type = Request THEN ReadString(cursors) ELSE ReadUint(cursors))

ReadExtension(type, cursors) == ReadString(ReadString(ReadUint(
    IF type = Request THEN ReadUint(ReadUint(cursors)) ELSE ReadUint(cursors))))

NeedMoreData  == [status |-> "NeedMoreData"]
ProtocolError == [status |-> "ProtocolError"]

\* An empty name of a serializer stands for the raw one.
OrRaw(serializer) == IF serializer = << >> THEN Raw ELSE serializer

\* The message of the fields: two, or those of the extension as well.
Message(type, id, f, body) ==
    LET extended == Len(f) > 2
    IN  IF type = Request
          THEN [type |-> type, id |-> id, payload |-> body, service |-> f[1], method |-> f[2],
                timeout    |-> IF extended THEN f[4] ELSE 0,
                attempt    |-> IF extended THEN f[5] ELSE 0,
                trace      |-> IF extended THEN f[6] ELSE << >>,
                serializer |-> IF extended THEN OrRaw(f[7]) ELSE Raw]
          ELSE [type |-> type, id |-> id, payload |-> body, code |-> f[1], error |-> f[2],
                cost       |-> IF extended THEN f[4] ELSE 0,
                trace      |-> IF extended THEN f[5] ELSE << >>,
                serializer |-> IF extended THEN OrRaw(f[6]) ELSE Raw]

\* tryDecodeRequest, tryDecodeResponse, once the frame is there: nothing may
\* be left of the metadata.
DecodeFrame(type, id, metadata, body) ==
    LET plain    == ReadFields(type, Start(metadata))
        extended == {c \in ReadExtension(type, plain) : c.fields[3] = MetaMagic}
        complete == {c \in plain \cup extended : c.rest = << >>}
    IN  IF complete = {}
          THEN ProtocolError
          ELSE [status  |-> "Complete",
                message |-> Message(type, id, (CHOOSE c \in complete : TRUE).fields, body)]

\* parseFrame and what follows it, on the readable units b. The lengths are
\* trusted only after they were compared with the limit.
TryDecode(b, type) ==
    IF Len(b) < HeaderSize THEN NeedMoreData
    ELSE IF b[1] # Magic \/ b[2] # type THEN ProtocolError
    ELSE IF b[4] > MaxMessageSize \/ b[5] > MaxMessageSize - b[4] THEN ProtocolError
    ELSE IF Len(b) < HeaderSize + b[4] + b[5] THEN NeedMoreData
    ELSE DecodeFrame(type, b[3], SubSeq(b, HeaderSize + 1, HeaderSize + b[4]),
                     SubSeq(b, HeaderSize + b[4] + 1, HeaderSize + b[4] + b[5]))

\* The units of a complete frame at the head of b.
TotalLength(b) == HeaderSize + b[4] + b[5]

\* What a receiver makes of a message.
Normal(m) == [m EXCEPT !.serializer = OrRaw(@)]
=============================================================================
