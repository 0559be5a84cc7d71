------------------------------ MODULE Messages ------------------------------
(***************************************************************************)
(* What the Encode and the Decode method of every message of protocol/     *)
(* puts and gets in version v, in the order of the code.  A duration is    *)
(* a number of whole milliseconds, an int32.  The two methods are written down separately  *)
(* because they are separate code: that they agree is what ProtocolCodec   *)
(* checks.                                                                 *)
(***************************************************************************)
EXTENDS Wire

-----------------------------------------------------------------------------
\* Produce, fetch and offsets

ProduceRequestEncode(v) ==
  When(v >= 3, <<NullableString("TransactionalID")>>)
    \o <<Int16("Acks"), Int32("Timeout"),
         Array("TopicData", <<String("Topic"),
           Array("Data", <<Int32("Partition"), Bytes("RecordSet")>>)>>)>>

ProduceRequestDecode(v) ==
  When(v >= 3, <<NullableString("TransactionalID")>>)
    \o <<Int16("Acks"), Int32("Timeout"),
         Array("TopicData", <<String("Topic"),
           Array("Data", <<Int32("Partition"), Bytes("RecordSet")>>)>>)>>

ProduceResponseEncode(v) ==
  <<Array("Responses", <<String("Topic"),
      Array("PartitionResponses", <<Int32("Partition"), Int16("ErrorCode")>>
        \o When(v >= 2, <<Int64("BaseOffset"), Time("LogAppendTime")>>)
        \o When(v >= 5, <<Int64("LogStartOffset")>>))>>)>>
    \o When(v >= 1, <<Int32("ThrottleTime")>>)

ProduceResponseDecode(v) ==
  <<Array("Responses", <<String("Topic"),
      Array("PartitionResponses", <<Int32("Partition"), Int16("ErrorCode"), Int64("BaseOffset")>>
        \o When(v >= 2, <<Time("LogAppendTime")>>)
        \o When(v >= 5, <<Int64("LogStartOffset")>>))>>)>>
    \o When(v >= 1, <<Int32("ThrottleTime")>>)

FetchRequestEncode(v) ==
  <<ReplicaID("ReplicaID"), Int32("MaxWaitTime"), Int32("MinBytes")>>
    \o When(v >= 3, <<Int32("MaxBytes")>>)
    \o When(v >= 4, <<Int8("IsolationLevel")>>)
    \o <<Array("Topics", <<String("Topic"),
           Array("Partitions", <<Int32("Partition"), Int64("FetchOffset"), Int32("MaxBytes")>>)>>)>>

FetchRequestDecode(v) ==
  <<Int32("ReplicaID"), Int32("MaxWaitTime"), Int32("MinBytes")>>
    \o When(v >= 3, <<Int32("MaxBytes")>>)
    \o When(v >= 4, <<Int8("IsolationLevel")>>)
    \o <<Array("Topics", <<String("Topic"),
           Array("Partitions", <<Int32("Partition"), Int64("FetchOffset"), Int32("MaxBytes")>>)>>)>>

AbortedTransactionEncode == <<Int64("ProducerID"), Int64("FirstOffset")>>
AbortedTransactionDecode == <<Int64("ProducerID"), Int64("FirstOffset")>>

FetchPartitionResponseEncode(v) ==
  <<Int32("Partition"), Int16("ErrorCode"), Int64("HighWatermark")>>
    \o When(v >= 4, <<Int64("LastStableOffset"),
                      Array("AbortedTransactions", AbortedTransactionEncode)>>)
    \o <<Bytes("RecordSet")>>

FetchPartitionResponseDecode(v) ==
  <<Int32("Partition"), Int16("ErrorCode"), Int64("HighWatermark")>>
    \o When(v >= 4, <<Int64("LastStableOffset"),
                      Array("AbortedTransactions", AbortedTransactionDecode)>>)
    \o <<Bytes("RecordSet")>>

FetchResponseEncode(v) ==
  When(v >= 1, <<Int32("ThrottleTime")>>)
    \o <<Array("Responses", <<String("Topic"),
           Array("PartitionResponses", FetchPartitionResponseEncode(v))>>)>>

FetchResponseDecode(v) ==
  When(v >= 1, <<Int32("ThrottleTime")>>)
    \o <<Array("Responses", <<String("Topic"),
           Array("PartitionResponses", FetchPartitionResponseDecode(v))>>)>>

OffsetsRequestEncode(v) ==
  <<MinusOne("ReplicaID")>>
    \o When(v >= 2, <<Int8("IsolationLevel")>>)
    \o <<Array("Topics", <<String("Topic"),
           Array("Partitions", <<Int32("Partition"), Int64("Timestamp")>>
             \o When(v = 0, <<Int32("MaxNumOffsets")>>))>>)>>

OffsetsRequestDecode(v) ==
  <<Int32("ReplicaID")>>
    \o When(v >= 2, <<Int8("IsolationLevel")>>)
    \o <<Array("Topics", <<String("Topic"),
           Array("Partitions", <<Int32("Partition"), Int64("Timestamp")>>
             \o When(v = 0, <<Int32("MaxNumOffsets")>>))>>)>>

OffsetsResponseEncode(v) ==
  When(v >= 2, <<Int32("ThrottleTime")>>)
    \o <<Array("Responses", <<String("Topic"),
           Array("PartitionResponses", <<Int32("Partition"), Int16("ErrorCode")>>
             \o When(v = 0, <<Int64Array("Offsets")>>)
             \o When(v >= 1, <<Time("Timestamp"), Int64("Offset")>>))>>)>>

OffsetsResponseDecode(v) ==
  When(v >= 2, <<Int32("ThrottleTime")>>)
    \o <<Array("Responses", <<String("Topic"),
           Array("PartitionResponses", <<Int32("Partition"), Int16("ErrorCode")>>
             \o When(v = 0, <<Int64Array("Offsets")>>)
             \o When(v >= 1, <<Time("Timestamp"), Int64("Offset")>>))>>)>>

-----------------------------------------------------------------------------
\* Metadata and leadership

MetadataRequestEncode(v) ==
  <<StringArray("Topics")>> \o When(v >= 4, <<Bool("AllowAutoTopicCreation")>>)

MetadataRequestDecode(v) ==
  <<StringArray("Topics")>> \o When(v >= 4, <<Bool("AllowAutoTopicCreation")>>)

MetadataResponseEncode(v) ==
  <<Array("Brokers", <<Int32("NodeID"), String("Host"), Int32("Port")>>)>>
    \o When(v >= 1, <<Int32("ControllerID")>>)
    \o <<Array("TopicMetadata", <<Int16("TopicErrorCode"), String("Topic"),
           Array("PartitionMetadata", <<Int16("PartitionErrorCode"), Int32("PartitionID"),
             Int32("Leader"), Int32Array("Replicas"), Int32Array("ISR")>>)>>)>>

MetadataResponseDecode(v) ==
  <<Array("Brokers", <<Int32("NodeID"), String("Host"), Int32("Port")>>)>>
    \o When(v >= 1, <<Int32("ControllerID")>>)
    \o <<Array("TopicMetadata", <<Int16("TopicErrorCode"), String("Topic"),
           Array("PartitionMetadata", <<Int16("PartitionErrorCode"), Int32("PartitionID"),
             Int32("Leader"), Int32Array("Replicas"), Int32Array("ISR")>>)>>)>>

LeaderAndISRRequestEncode(v) ==
  <<Int32("ControllerID"), Int32("ControllerEpoch"),
    Array("PartitionStates", <<String("Topic"), Int32("Partition"), Int32("ControllerEpoch"),
        Int32("Leader"), Int32("LeaderEpoch"), Int32Array("ISR"), Int32("ZKVersion"),
        Int32Array("Replicas")>>
      \o When(v >= 1, <<Bool("IsNew")>>)),
    Array("LiveLeaders", <<Int32("ID"), String("Host"), Int32("Port")>>)>>

LeaderAndISRRequestDecode(v) ==
  <<Int32("ControllerID"), Int32("ControllerEpoch"),
    Array("PartitionStates", <<String("Topic"), Int32("Partition"), Int32("ControllerEpoch"),
        Int32("Leader"), Int32("LeaderEpoch"), Int32Array("ISR"), Int32("ZKVersion"),
        Int32Array("Replicas")>>),
    Array("LiveLeaders", <<Int32("ID"), String("Host"), Int32("Port")>>)>>

LeaderAndISRResponseEncode(v) ==
  <<Int16("ErrorCode"), Array("Partitions", <<String("Topic"), Int32("Partition"), Int16("ErrorCode")>>)>>

LeaderAndISRResponseDecode(v) ==
  <<Int16("ErrorCode"), Array("Partitions", <<String("Topic"), Int32("Partition"), Int16("ErrorCode")>>)>>

StopReplicaRequestEncode(v) ==
  <<Int32("ControllerID"), Int32("ControllerEpoch"), Bool("DeletePartitions"),
    Array("Partitions", <<String("Topic"), Int32("Partition")>>)>>

StopReplicaRequestDecode(v) ==
  <<Int32("ControllerID"), Int32("ControllerEpoch"), Bool("DeletePartitions"),
    Array("Partitions", <<String("Topic"), Int32("Partition")>>)>>

StopReplicaResponseEncode(v) ==
  <<Int16("ErrorCode"), Array("Partitions", <<String("Topic"), Int32("Partition"), Int16("ErrorCode")>>)>>

\* The elements are made as nil pointers and their fields assigned.
StopReplicaResponseDecode(v) ==
  <<Int16("ErrorCode"), NilPointers("Partitions", <<>>)>>

-----------------------------------------------------------------------------
\* Topics, configurations and versions

CreateTopicRequestsEncode(v) ==
  <<Array("Requests", <<String("Topic"), Int32("NumPartitions"), Int16("ReplicationFactor"),
      Array("ReplicaAssignment", <<Int32("Partition"), Int32Array("Replicas")>>),
      Array("Configs", <<String("Key"), NullableString("Value")>>)>>),
    Int32("Timeout")>>
    \o When(v >= 1, <<Bool("ValidateOnly")>>)

CreateTopicRequestsDecode(v) ==
  <<Array("Requests", <<String("Topic"), Int32("NumPartitions"), Int16("ReplicationFactor"),
      Array("ReplicaAssignment", <<Int32("Partition"), Int32Array("Replicas")>>),
      Array("Configs", <<String("Key"), NullableString("Value")>>)>>),
    Int32("Timeout")>>
    \o When(v >= 1, <<Bool("ValidateOnly")>>)

\* Mutant: the error message is put in every version.
CreateTopicsResponseEncodeMessage(v) ==
  When(v >= 2, <<Int32("ThrottleTime")>>)
    \o <<Array("TopicErrorCodes", <<String("Topic"), Int16("ErrorCode"), NullableString("ErrorMessage")>>)>>

CreateTopicsResponseEncode(v) ==
  When(v >= 2, <<Int32("ThrottleTime")>>)
    \o <<Array("TopicErrorCodes", <<String("Topic"), Int16("ErrorCode")>>
           \o When(v >= 1, <<NullableString("ErrorMessage")>>))>>

CreateTopicsResponseDecode(v) ==
  When(v >= 2, <<Int32("ThrottleTime")>>)
    \o <<Array("TopicErrorCodes", <<String("Topic"), Int16("ErrorCode")>>
           \o When(v >= 1, <<NullableString("ErrorMessage")>>))>>

DeleteTopicsRequestEncode(v) == <<StringArray("Topics"), Int32("Timeout")>>
DeleteTopicsRequestDecode(v) == <<StringArray("Topics"), Int32("Timeout")>>

DeleteTopicsResponseEncode(v) ==
  When(v >= 1, <<Int32("ThrottleTime")>>)
    \o <<Array("TopicErrorCodes", <<String("Topic"), Int16("ErrorCode")>>)>>

DeleteTopicsResponseDecode(v) ==
  When(v >= 1, <<Int32("ThrottleTime")>>)
    \o <<Array("TopicErrorCodes", <<String("Topic"), Int16("ErrorCode")>>)>>

DescribeConfigsRequestEncode(v) ==
  <<Array("Resources", <<Int8("Type"), String("Name"), StringArray("ConfigNames")>>)>>
    \o When(v >= 1, <<Bool("IncludeSynonyms")>>)

DescribeConfigsRequestDecode(v) ==
  <<Array("Resources", <<Int8("Type"), String("Name"), StringArray("ConfigNames")>>)>>
    \o When(v >= 1, <<Bool("IncludeSynonyms")>>)

DescribeConfigsResponseEncode(v) ==
  <<Int32("ThrottleTime"),
    Array("Resources", <<Int16("ErrorCode"), NullableString("ErrorMessage"), Int8("Type"), String("Name"),
      Array("ConfigEntries", <<String("Name"), NullableString("Value"),
          Bool("ReadOnly"), Bool("IsDefault"), Bool("IsSensitive")>>
        \o When(v >= 1, <<Array("Synonyms", <<String("Name"), NullableString("Value"), Int8("Source")>>)>>))>>)>>

DescribeConfigsResponseDecode(v) ==
  <<Int32("ThrottleTime"),
    Array("Resources", <<Int16("ErrorCode"), NullableString("ErrorMessage"), Int8("Type"), String("Name"),
      Array("ConfigEntries", <<String("Name"), NullableString("Value"),
          Bool("ReadOnly"), Bool("IsDefault"), Bool("IsSensitive")>>
        \o When(v >= 1, <<Array("Synonyms", <<String("Name"), NullableString("Value"), Int8("Source")>>)>>))>>)>>

AlterConfigsRequestEncode(v) ==
  <<Array("Resources", <<Int8("Type"), String("Name"),
      Array("Entries", <<String("Name"), NullableString("Value")>>)>>), Bool("ValidateOnly")>>

AlterConfigsRequestDecode(v) ==
  <<Array("Resources", <<Int8("Type"), String("Name"),
      Array("Entries", <<String("Name"), NullableString("Value")>>)>>), Bool("ValidateOnly")>>

AlterConfigsResponseEncode(v) ==
  <<Int32("ThrottleTime"),
    Array("Resources", <<Int16("ErrorCode"), NullableString("ErrorMessage"), Int8("Type"), String("Name")>>)>>

AlterConfigsResponseDecode(v) ==
  <<Int32("ThrottleTime"),
    Array("Resources", <<Int16("ErrorCode"), NullableString("ErrorMessage"), Int8("Type"), String("Name")>>)>>

APIVersionsRequestEncode(v) == <<>>
APIVersionsRequestDecode(v) == <<>>

APIVersionsResponseEncode(v) ==
  <<Int16("ErrorCode"), Array("APIVersions", <<Int16("APIKey"), Int16("MinVersion"), Int16("MaxVersion")>>)>>
    \o When(v >= 1, <<Int32("ThrottleTime")>>)

APIVersionsResponseDecode(v) ==
  <<Array("APIVersions", <<Int16("APIKey"), Int16("MinVersion"), Int16("MaxVersion")>>)>>
    \o When(v >= 1, <<Int32("ThrottleTime")>>)

-----------------------------------------------------------------------------
\* Consumer groups

FindCoordinatorRequestEncode(v) ==
  <<String("CoordinatorKey")>> \o When(v >= 1, <<Int8("CoordinatorType")>>)

FindCoordinatorRequestDecode(v) ==
  <<String("CoordinatorKey")>> \o When(v >= 1, <<Int8("CoordinatorType")>>)

FindCoordinatorResponseEncode(v) ==
  When(v >= 1, <<Int32("ThrottleTime")>>) \o <<Int16("ErrorCode")>>
    \o When(v >= 1, <<NullableString("ErrorMessage")>>)
    \o <<Int32("NodeID"), String("Host"), Int32("Port")>>

FindCoordinatorResponseDecode(v) ==
  When(v >= 1, <<Int32("ThrottleTime")>>) \o <<Int16("ErrorCode")>>
    \o When(v >= 1, <<NullableString("ErrorMessage")>>)
    \o <<Int32("NodeID"), String("Host"), Int32("Port")>>

JoinGroupRequestEncode(v) ==
  <<String("GroupID"), Int32("SessionTimeout")>>
    \o When(v >= 1, <<Int32("RebalanceTimeout")>>)
    \o <<String("MemberID"), String("ProtocolType"),
         Elements("GroupProtocols", <<String("ProtocolName"), Bytes("ProtocolMetadata")>>)>>

JoinGroupRequestDecode(v) ==
  <<String("GroupID"), Int32("SessionTimeout")>>
    \o When(v >= 1, <<Int32("RebalanceTimeout")>>)
    \o <<String("MemberID"), String("ProtocolType"),
         Array("GroupProtocols", <<String("ProtocolName"), Bytes("ProtocolMetadata")>>)>>

JoinGroupResponseEncode(v) ==
  When(v >= 1, <<Int32("ThrottleTime")>>)
    \o <<Int16("ErrorCode"), Int32("GenerationID"), String("GroupProtocol"), String("LeaderID"),
         String("MemberID"), Array("Members", <<String("MemberID"), Bytes("MemberMetadata")>>)>>

JoinGroupResponseDecode(v) ==
  When(v >= 2, <<Int32("ThrottleTime")>>)
    \o <<Int16("ErrorCode"), Int32("GenerationID"), String("GroupProtocol"), String("LeaderID"),
         String("MemberID"), Array("Members", <<String("MemberID"), Bytes("MemberMetadata")>>)>>

SyncGroupRequestEncode(v) ==
  <<String("GroupID"), Int32("GenerationID"), String("MemberID"),
    Array("GroupAssignments", <<String("MemberID"), Bytes("MemberAssignment")>>)>>

SyncGroupRequestDecode(v) ==
  <<String("GroupID"), Int32("GenerationID"), String("MemberID"),
    Array("GroupAssignments", <<String("MemberID"), Bytes("MemberAssignment")>>)>>

SyncGroupResponseEncode(v) ==
  When(v >= 1, <<Int32("ThrottleTime")>>) \o <<Int16("ErrorCode"), Bytes("MemberAssignment")>>

SyncGroupResponseDecode(v) ==
  When(v >= 1, <<Int32("ThrottleTime")>>) \o <<Int16("ErrorCode"), Bytes("MemberAssignment")>>

HeartbeatRequestEncode(v) == <<String("GroupID"), Int32("GenerationID"), String("MemberID")>>
HeartbeatRequestDecode(v) == <<String("GroupID"), Int32("GenerationID"), String("MemberID")>>

HeartbeatResponseEncode(v) == <<Int16("ErrorCode")>>
HeartbeatResponseDecode(v) == When(v >= 1, <<Divided("ThrottleTime")>>) \o <<Int16("ErrorCode")>>

LeaveGroupRequestEncode(v) == <<String("GroupID"), String("MemberID")>>
LeaveGroupRequestDecode(v) == <<String("GroupID"), String("MemberID")>>

LeaveGroupResponseEncode(v) == When(v >= 1, <<Int32("ThrottleTime")>>) \o <<Int16("ErrorCode")>>
LeaveGroupResponseDecode(v) == When(v >= 1, <<Int32("ThrottleTime")>>) \o <<Int16("ErrorCode")>>

ListGroupsRequestEncode(v) == <<>>
ListGroupsRequestDecode(v) == <<>>

ListGroupsResponseEncode(v) ==
  When(v >= 1, <<Int32("ThrottleTime")>>)
    \o <<Int16("ErrorCode"), Array("Groups", <<String("GroupID"), String("ProtocolType")>>)>>

ListGroupsResponseDecode(v) ==
  When(v >= 1, <<Int32("ThrottleTime")>>)
    \o <<Int16("ErrorCode"), Array("Groups", <<String("GroupID"), String("ProtocolType")>>)>>

DescribeGroupsRequestEncode(v) == <<StringArray("GroupIDs")>>
DescribeGroupsRequestDecode(v) == <<StringArray("GroupIDs")>>

GroupMemberEncode ==
  <<String("ClientID"), String("ClientHost"), Bytes("GroupMemberMetadata"), Bytes("GroupMemberAssignment")>>

GroupMemberDecode ==
  <<String("ClientID"), String("ClientHost"), Bytes("GroupMemberMetadata"), Bytes("GroupMemberAssignment")>>

\* The members are a map: the sequence is the order in which the encoder ranges over it.
GroupEncode ==
  <<Int16("ErrorCode"), String("GroupID"), String("State"), String("ProtocolType"), String("Protocol"),
    Array("GroupMembers", <<MapKey("memberID")>> \o GroupMemberEncode)>>

GroupDecode ==
  <<Int16("ErrorCode"), String("GroupID"), String("State"), String("ProtocolType"), String("Protocol"),
    Array("GroupMembers", <<MapKey("memberID")>> \o GroupMemberDecode)>>

DescribeGroupsResponseEncode(v) ==
  When(v >= 1, <<Int32("ThrottleTime")>>) \o <<Array("Groups", GroupEncode)>>

DescribeGroupsResponseDecode(v) ==
  When(v >= 1, <<Int32("ThrottleTime")>>) \o <<Array("Groups", GroupDecode)>>

\* The topic's name is neither put nor got; the other fields of versions 1 and 2
\* are only got.
OffsetCommitRequestEncode(v) ==
  <<String("GroupID"),
    Array("Topics", <<Array("Partitions", <<Int32("Partition"), Int64("Offset"), NullableString("Metadata")>>)>>)>>

OffsetCommitRequestDecode(v) ==
  <<String("GroupID")>>
    \o When(v >= 1, <<Int32("GenerationID"), String("MemberID")>>)
    \o When(v >= 2, <<Int64("RetentionTime")>>)
    \o <<Copies("Topics", <<Copies("Partitions", <<Int32("Partition"), Int64("Offset")>>
           \o When(v >= 1, <<Int64("Timestamp")>>) \o <<NullableString("Metadata")>>)>>)>>

OffsetCommitResponseEncode(v) ==
  When(v >= 3, <<Int32("ThrottleTime")>>)
    \o <<Array("Responses", <<String("Topic"),
           Array("PartitionResponses", <<Int32("Partition"), Int16("ErrorCode")>>)>>)>>

OffsetCommitResponseDecode(v) ==
  When(v >= 3, <<Int32("ThrottleTime")>>)
    \o <<Copies("Responses", <<String("Topic"),
           Copies("PartitionResponses", <<Int32("Partition"), Int16("ErrorCode")>>)>>)>>

OffsetFetchRequestEncode(v) ==
  <<String("GroupID"), Array("Topics", <<String("Topic"), Int32Array("Partitions")>>)>>

OffsetFetchRequestDecode(v) ==
  <<String("GroupID"), Array("Topics", <<String("Topic"), Int32Array("Partitions")>>)>>

OffsetFetchResponseEncode(v) ==
  <<Array("Responses", <<String("Topic"),
      Array("Partitions", <<Int32("Partition"), Int16("Offset"), NullableString("Metadata"), Int16("ErrorCode")>>)>>)>>

OffsetFetchResponseDecode(v) ==
  <<Copies("Responses", <<String("Topic"),
      Copies("Partitions", <<Int32("Partition"), Int16("Offset"), NullableString("Metadata"), Int16("ErrorCode")>>)>>)>>
=============================================================================
