---------------------------- MODULE ProtocolCodec ----------------------------
(***************************************************************************)
(* One exchange of the protocol: a client encodes a request, the server    *)
(* reads the frame, decodes the header and the body, a handler makes a     *)
(* response, the server encodes it and the client decodes it in the        *)
(* version it asked for.                                                   *)
(*                                                                         *)
(* What a handler answers is left open.  A handler that is not implemented *)
(* (StopReplica, OffsetCommit) and a request that handleRequest does not   *)
(* dispatch (AlterConfigs, DescribeConfigs) are exchanged with a server    *)
(* that would answer them: only their encoding is looked at.               *)
(***************************************************************************)
EXTENDS Messages

CONSTANTS
  MaxVersion,   \* the highest version a client asks for
  MaxElements,  \* bound on the elements of an array
  Numbers       \* what the integers of a message are counted from

ASSUME CodecAssumption ==
  /\ MaxVersion \in Nat
  /\ MaxElements \in Nat
  /\ Numbers \subseteq Int

VARIABLES
  exchange,  \* what the client sends and what the handler will answer
  stage,     \* "new", "sent", "received", "replied", "read"
  wire,      \* the bytes between the two
  length,    \* the length the first pass of Encode computed for them
  header,    \* the request header the server decoded
  got        \* the body decoded last

vars == <<exchange, stage, wire, length, header, got>>

-----------------------------------------------------------------------------
\* The messages of each API

APIKey ==
  [Produce |-> 0, Fetch |-> 1, Offsets |-> 2, Metadata |-> 3, LeaderAndISR |-> 4, StopReplica |-> 5,
   OffsetCommit |-> 8, OffsetFetch |-> 9, FindCoordinator |-> 10, JoinGroup |-> 11, Heartbeat |-> 12,
   LeaveGroup |-> 13, SyncGroup |-> 14, DescribeGroups |-> 15, ListGroups |-> 16, APIVersions |-> 18,
   CreateTopics |-> 19, DeleteTopics |-> 20, DescribeConfigs |-> 32, AlterConfigs |-> 33]

APIs == DOMAIN APIKey

RequestEncode(api, v) ==
  CASE api = "Produce" -> ProduceRequestEncode(v)
    [] api = "Fetch" -> FetchRequestEncode(v)
    [] api = "Offsets" -> OffsetsRequestEncode(v)
    [] api = "Metadata" -> MetadataRequestEncode(v)
    [] api = "LeaderAndISR" -> LeaderAndISRRequestEncode(v)
    [] api = "StopReplica" -> StopReplicaRequestEncode(v)
    [] api = "OffsetCommit" -> OffsetCommitRequestEncode(v)
    [] api = "OffsetFetch" -> OffsetFetchRequestEncode(v)
    [] api = "FindCoordinator" -> FindCoordinatorRequestEncode(v)
    [] api = "JoinGroup" -> JoinGroupRequestEncode(v)
    [] api = "Heartbeat" -> HeartbeatRequestEncode(v)
    [] api = "LeaveGroup" -> LeaveGroupRequestEncode(v)
    [] api = "SyncGroup" -> SyncGroupRequestEncode(v)
    [] api = "DescribeGroups" -> DescribeGroupsRequestEncode(v)
    [] api = "ListGroups" -> ListGroupsRequestEncode(v)
    [] api = "APIVersions" -> APIVersionsRequestEncode(v)
    [] api = "CreateTopics" -> CreateTopicRequestsEncode(v)
    [] api = "DeleteTopics" -> DeleteTopicsRequestEncode(v)
    [] api = "DescribeConfigs" -> DescribeConfigsRequestEncode(v)
    [] api = "AlterConfigs" -> AlterConfigsRequestEncode(v)

\* handleRequest picks the request's type by the key it received.
RequestDecode(key, v) ==
  CASE key = 0 -> ProduceRequestDecode(v)
    [] key = 1 -> FetchRequestDecode(v)
    [] key = 2 -> OffsetsRequestDecode(v)
    [] key = 3 -> MetadataRequestDecode(v)
    [] key = 4 -> LeaderAndISRRequestDecode(v)
    [] key = 5 -> StopReplicaRequestDecode(v)
    [] key = 8 -> OffsetCommitRequestDecode(v)
    [] key = 9 -> OffsetFetchRequestDecode(v)
    [] key = 10 -> FindCoordinatorRequestDecode(v)
    [] key = 11 -> JoinGroupRequestDecode(v)
    [] key = 12 -> HeartbeatRequestDecode(v)
    [] key = 13 -> LeaveGroupRequestDecode(v)
    [] key = 14 -> SyncGroupRequestDecode(v)
    [] key = 15 -> DescribeGroupsRequestDecode(v)
    [] key = 16 -> ListGroupsRequestDecode(v)
    [] key = 18 -> APIVersionsRequestDecode(v)
    [] key = 19 -> CreateTopicRequestsDecode(v)
    [] key = 20 -> DeleteTopicsRequestDecode(v)
    [] key = 32 -> DescribeConfigsRequestDecode(v)
    [] key = 33 -> AlterConfigsRequestDecode(v)

ResponseEncode(api, v) ==
  CASE api = "Produce" -> ProduceResponseEncode(v)
    [] api = "Fetch" -> FetchResponseEncode(v)
    [] api = "Offsets" -> OffsetsResponseEncode(v)
    [] api = "Metadata" -> MetadataResponseEncode(v)
    [] api = "LeaderAndISR" -> LeaderAndISRResponseEncode(v)
    [] api = "StopReplica" -> StopReplicaResponseEncode(v)
    [] api = "OffsetCommit" -> OffsetCommitResponseEncode(v)
    [] api = "OffsetFetch" -> OffsetFetchResponseEncode(v)
    [] api = "FindCoordinator" -> FindCoordinatorResponseEncode(v)
    [] api = "JoinGroup" -> JoinGroupResponseEncode(v)
    [] api = "Heartbeat" -> HeartbeatResponseEncode(v)
    [] api = "LeaveGroup" -> LeaveGroupResponseEncode(v)
    [] api = "SyncGroup" -> SyncGroupResponseEncode(v)
    [] api = "DescribeGroups" -> DescribeGroupsResponseEncode(v)
    [] api = "ListGroups" -> ListGroupsResponseEncode(v)
    [] api = "APIVersions" -> APIVersionsResponseEncode(v)
    [] api = "CreateTopics" -> CreateTopicsResponseEncode(v)
    [] api = "DeleteTopics" -> DeleteTopicsResponseEncode(v)
    [] api = "DescribeConfigs" -> DescribeConfigsResponseEncode(v)
    [] api = "AlterConfigs" -> AlterConfigsResponseEncode(v)

\* The client decodes into the response type of the call it made.
ResponseDecode(api, v) ==
  CASE api = "Produce" -> ProduceResponseDecode(v)
    [] api = "Fetch" -> FetchResponseDecode(v)
    [] api = "Offsets" -> OffsetsResponseDecode(v)
    [] api = "Metadata" -> MetadataResponseDecode(v)
    [] api = "LeaderAndISR" -> LeaderAndISRResponseDecode(v)
    [] api = "StopReplica" -> StopReplicaResponseDecode(v)
    [] api = "OffsetCommit" -> OffsetCommitResponseDecode(v)
    [] api = "OffsetFetch" -> OffsetFetchResponseDecode(v)
    [] api = "FindCoordinator" -> FindCoordinatorResponseDecode(v)
    [] api = "JoinGroup" -> JoinGroupResponseDecode(v)
    [] api = "Heartbeat" -> HeartbeatResponseDecode(v)
    [] api = "LeaveGroup" -> LeaveGroupResponseDecode(v)
    [] api = "SyncGroup" -> SyncGroupResponseDecode(v)
    [] api = "DescribeGroups" -> DescribeGroupsResponseDecode(v)
    [] api = "ListGroups" -> ListGroupsResponseDecode(v)
    [] api = "APIVersions" -> APIVersionsResponseDecode(v)
    [] api = "CreateTopics" -> CreateTopicsResponseDecode(v)
    [] api = "DeleteTopics" -> DeleteTopicsResponseDecode(v)
    [] api = "DescribeConfigs" -> DescribeConfigsResponseDecode(v)
    [] api = "AlterConfigs" -> AlterConfigsResponseDecode(v)

-----------------------------------------------------------------------------
\* The messages of the model: arrays of every length up to the bound, nil and
\* empty strings, times that were never set and others, and integers that differ
\* from field to field.

Shapes == [elements : 0 .. MaxElements, null : BOOLEAN, empty : BOOLEAN, number : Numbers]

\* A number that fits in w bits.
Narrow(x, w) == ((x + 2 ^ (w - 1)) % 2 ^ w) - 2 ^ (w - 1)

RECURSIVE Sample(_, _)

SampleField(f, s) ==
  LET text == IF s.empty THEN <<>> ELSE <<97, s.number % 128>>
  IN  CASE f.kind = "int8" -> Narrow(s.number, 8)
        [] f.kind = "int16" -> Narrow(s.number, 16)
        [] f.kind \in {"int32", "replica id"} -> s.number
        [] f.kind = "int64" -> <<s.number, s.number - 1>>
        [] f.kind = "time" -> IF s.null THEN ZeroTime
                              ELSE [millis |-> <<s.number % 1000, s.number>>, below |-> 1 + (s.number % 1000)]
        [] f.kind = "bool" -> s.number % 2 = 0
        [] f.kind = "string" -> text
        [] f.kind = "map key" -> <<97, s.number % 128>>
        [] f.kind \in {"nullable", "bytes"} -> IF s.null THEN Nil ELSE text
        [] f.kind \in {"array", "elements"} ->
             [i \in 1 .. s.elements |-> Sample(f.of, [s EXCEPT !.number = @ + 16 * i])]
        [] f.kind = "minus one" -> -1

Sample(fields, s) ==
  IF fields = <<>> THEN <<>>
  ELSE LET next == [s EXCEPT !.number = @ + 1]
       IN  (Head(fields).name :> SampleField(Head(fields), next)) @@ Sample(Tail(fields), next)

-----------------------------------------------------------------------------
\* Framing and versions

RequestHeader == <<Int16("APIKey"), Int16("APIVersion"), Int32("CorrelationID"), String("ClientID")>>
ResponseHeader == <<Int32("CorrelationID")>>

\* Encode with a SizeField in front: the length of the first pass and the bytes of the second.
Framed(fields, m) ==
  LET b == PutFields(fields, m)
  IN  [length |-> 4 + LenFields(fields, m), wire |-> PutInt(4, Len(b)) \o b]

\* The APIVersion of a decoded request: CreateTopicRequests.Decode does not set it.
DecodedVersion(key, v) == IF key = APIKey["CreateTopics"] THEN 0 ELSE v

\* The APIVersion of the response: handleAPIVersions always returns the same one.
ResponseVersion(api, v) == IF api = "APIVersions" THEN 0 ELSE DecodedVersion(APIKey[api], v)

-----------------------------------------------------------------------------
Init ==
  /\ \E api \in APIs, v \in 0 .. MaxVersion, s \in Shapes :
       exchange = [api |-> api, version |-> v,
                   header |-> Sample(<<Int32("CorrelationID"), String("ClientID")>>, [s EXCEPT !.number = 1]),
                   request |-> Sample(RequestEncode(api, v), s),
                   response |-> Sample(ResponseEncode(api, ResponseVersion(api, v)), s)]
  /\ stage = "new"
  /\ wire = <<>>
  /\ length = 0
  /\ header = <<>>
  /\ got = Failed

\* The header as writeRequest fills it in.
SentHeader ==
  ("APIKey" :> APIKey[exchange.api]) @@ ("APIVersion" :> exchange.version) @@ exchange.header

\* Conn.writeRequest
WriteRequest ==
  /\ stage = "new"
  /\ LET f == Framed(RequestHeader \o RequestEncode(exchange.api, exchange.version),
                     SentHeader @@ exchange.request)
     IN  wire' = f.wire /\ length' = f.length
  /\ stage' = "sent"
  /\ UNCHANGED <<exchange, header, got>>

\* Server.handleRequest: the size, as many bytes, the header and the body its key names.
HandleRequest ==
  /\ stage = "sent"
  /\ \E h \in {GetFields(RequestHeader, SubSeq(wire, 5, MakeInt(4, wire) + 4))} :
       /\ header' = h.v
       /\ got' = GetFields(RequestDecode(h.v["APIKey"], h.v["APIVersion"]), h.b)
  /\ stage' = "received"
  /\ UNCHANGED <<exchange, wire, length>>

\* Mutant: the response does not take the request's correlation ID.
ResponseIDUnset == 0

\* The CorrelationID Broker.Run gives the response.
ResponseID == header["CorrelationID"]

\* Broker.Run and Server.handleResponse; after a body that was not understood the
\* handler runs on what the decoder left, or the server is gone.
HandleResponse ==
  /\ stage = "received"
  /\ got.ok
  /\ LET f == Framed(ResponseHeader
                       \o ResponseEncode(exchange.api, ResponseVersion(exchange.api, header["APIVersion"])),
                     ("CorrelationID" :> ResponseID) @@ exchange.response)
     IN  wire' = f.wire /\ length' = f.length
  /\ stage' = "replied"
  /\ UNCHANGED <<exchange, header, got>>

\* Conn.peekResponseSizeAndID, skipResponseSizeAndID and readResponse
ReadResponse ==
  /\ stage = "replied"
  /\ MakeInt(4, Drop(wire, 4)) = exchange.header["CorrelationID"]
  /\ got' = GetFields(ResponseDecode(exchange.api, exchange.version),
                      SubSeq(wire, 9, MakeInt(4, wire) + 4))
  /\ stage' = "read"
  /\ UNCHANGED <<exchange, wire, length, header>>

Next == WriteRequest \/ HandleRequest \/ HandleResponse \/ ReadResponse

Spec == Init /\ [][Next]_vars /\ WF_vars(Next)

-----------------------------------------------------------------------------
\* Properties

\* The requests whose two methods disagree.
RequestMismatch(api, v) ==
  \/ api = "LeaderAndISR" /\ v >= 1
  \/ api \in {"JoinGroup", "OffsetCommit"}

\* The responses whose two methods disagree, or that are encoded in another version.
ResponseMismatch(api, v) ==
  \/ api = "Produce" /\ v <= 1
  \/ api = "JoinGroup" /\ v = 1
  \/ api \in {"Heartbeat", "CreateTopics"} /\ v >= 1
  \/ api \in {"APIVersions", "StopReplica", "OffsetCommit", "OffsetFetch"}

RequestArrived ==
  /\ header = SentHeader
  /\ got = Got(exchange.request, <<>>)

\* A message with its times as they can arrive: without what is below a millisecond,
\* and in the year 1754 if never set.
RECURSIVE InMillis(_, _)
InMillis(fields, x) ==
  [name \in DOMAIN x |->
     LET f == CHOOSE f \in {fields[i] : i \in DOMAIN fields} : f.name = name
     IN  CASE f.kind = "time" -> [millis |-> UnixMillis(x[name]), below |-> 0]
           [] f.kind = "array" -> [i \in DOMAIN x[name] |-> InMillis(f.of, x[name][i])]
           [] OTHER -> x[name]]

ResponseArrived ==
  got = Got(InMillis(ResponseEncode(exchange.api, exchange.version), exchange.response), <<>>)

\* Every request but the ones known to disagree arrives as it was sent: the header's
\* key, version, correlation ID and client ID, each field that its version encodes,
\* and no byte is left over.  A ReplicaID of 0, which FetchRequest writes as -1, is
\* not among the requests.
RequestUnderstood ==
  stage = "received" /\ ~RequestMismatch(exchange.api, exchange.version) => RequestArrived

\* Every response but the ones known to disagree arrives, when the client decodes it
\* in the version it put in its request: each field that its version encodes, a time
\* to the millisecond, and no byte is left over.  A time that the handler never set
\* arrives as one of 1754 and spoils nothing else; what a handler sets and the
\* version does not encode, as the Offsets of handleOffsets from version 1 on, is not
\* sent at all.
ResponseUnderstood ==
  stage = "read" /\ ~ResponseMismatch(exchange.api, exchange.version) => ResponseArrived

\* The two passes of Encode agree: the buffer LenEncoder sizes is neither too short,
\* which would panic, nor too long, which would put zeros after the message.
LengthExact == stage \in {"sent", "replied"} => length = Len(wire)

\* Every exchange whose messages agree is completed: the client finds its correlation
\* ID in front of the response.
ExchangeCompletes ==
  <>(stage = "read" \/ RequestMismatch(exchange.api, exchange.version))
=============================================================================
