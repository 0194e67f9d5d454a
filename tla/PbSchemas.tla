----------------------------- MODULE PbSchemas ------------------------------
(***************************************************************************)
(* The messages of bitmap/pb.pb.go: for each type, the fields its Unmarshal *)
(* method knows, each with the number of its case, its name and how it is  *)
(* read.  PbWire reads and writes messages by these.                       *)
(*                                                                         *)
(* The types of the other packages (api, badger's pb) are named too, but   *)
(* their fields are not in this repository: PbWire takes them as bytes.    *)
(***************************************************************************)
LOCAL INSTANCE TLC

Field(no, name, kind) == [number |-> no, name |-> name, kind |-> kind]

(* case no: if wireType != 0 { error }; a number is read.                 *)
Uint64(no, name) == Field(no, name, "uint64")
Int64(no, name)  == Field(no, name, "int64")
Uint32(no, name) == Field(no, name, "uint32")
Int32(no, name)  == Field(no, name, "int32")
Enum(no, name)   == Field(no, name, "int32")
Bool(no, name)   == Field(no, name, "bool")

(* if wireType != 1 { error }; eight bytes are read.                       *)
Fixed64(no, name) == Field(no, name, "fixed64")

(* if wireType != 2 { error }; a length and that many bytes are read.      *)
Bytes(no, name)   == Field(no, name, "bytes")
String(no, name)  == Field(no, name, "bytes")
Strings(no, name) == Field(no, name, "list of bytes")
ManyBytes(no, name) == Field(no, name, "list of bytes")
Message(no, name, of)  == Field(no, name, "message") @@ [of |-> of]
Messages(no, name, of) == Field(no, name, "list of messages") @@ [of |-> of]
Map(no, name, key, value) == Field(no, name, "map") @@ [key |-> key, value |-> value]

(* wireType 0 or 1: one element; wireType 2: a length and the elements.    *)
PackedUint64(no, name)  == Field(no, name, "packed") @@ [of |-> "uint64"]
PackedUint32(no, name)  == Field(no, name, "packed") @@ [of |-> "uint32"]
PackedFixed64(no, name) == Field(no, name, "packed") @@ [of |-> "fixed64"]
-----------------------------------------------------------------------------
List == {PackedFixed64(1, "Uids")}

TaskValue == {Bytes(1, "Val"), Enum(2, "ValType")}

SrcFunction == {String(1, "Name"), Strings(3, "Args"), Bool(4, "IsCount")}

Query ==
  {String(1, "Attr"), Strings(2, "Langs"), Fixed64(3, "AfterUid"),
   Bool(4, "DoCount"), Message(5, "UidList", "List"),
   Message(6, "SrcFunc", "SrcFunction"), Bool(7, "Reverse"),
   Message(8, "FacetParam", "FacetParams"),
   Message(9, "FacetsFilter", "FilterTree"), Bool(10, "ExpandAll"),
   Uint64(13, "ReadTs"), Int32(14, "Cache"), Int32(15, "First")}

ValueList == {Messages(1, "Values", "TaskValue")}

LangList == {Strings(1, "Lang")}

Result ==
  {Messages(1, "UidMatrix", "List"), Messages(2, "ValueMatrix", "ValueList"),
   PackedUint32(3, "Counts"), Bool(4, "IntersectDest"),
   Messages(5, "FacetMatrix", "FacetsList"),
   Messages(6, "LangMatrix", "LangList"), Bool(7, "List")}

Order == {String(1, "Attr"), Bool(2, "Desc"), Strings(3, "Langs")}

SortMessage ==
  {Messages(1, "Order", "Order"), Messages(2, "UidMatrix", "List"),
   Int32(3, "Count"), Int32(4, "Offset"), Uint64(13, "ReadTs")}

SortResult == {Messages(1, "UidMatrix", "List")}

RaftContext ==
  {Fixed64(1, "Id"), Uint32(2, "Group"), String(3, "Addr"),
   Uint64(4, "SnapshotTs"), Bool(5, "IsLearner")}

Member ==
  {Fixed64(1, "Id"), Uint32(2, "GroupId"), String(3, "Addr"),
   Bool(4, "Leader"), Bool(5, "AmDead"), Uint64(6, "LastUpdate"),
   Bool(7, "Learner"), Bool(13, "ClusterInfoOnly"), Bool(14, "ForceGroupId")}

Group ==
  {Map(1, "Members", Uint64(1, "key"), Message(2, "value", "Member")),
   Map(2, "Tablets", String(1, "key"), Message(2, "value", "Tablet")),
   Uint64(3, "SnapshotTs"), Uint64(4, "Checksum"), Uint64(5, "CheckpointTs")}

License ==
  {String(1, "User"), Uint64(2, "MaxNodes"), Int64(3, "ExpiryTs"),
   Bool(4, "Enabled")}

ZeroProposal ==
  {Map(1, "SnapshotTs", Uint32(1, "key"), Uint64(2, "value")),
   Message(2, "Member", "Member"), Message(3, "Tablet", "Tablet"),
   Uint64(4, "MaxUID"), Uint64(5, "MaxTxnTs"), Uint64(6, "MaxRaftId"),
   Message(7, "Txn", "api.TxnContext"), String(9, "Cid"),
   Message(10, "License", "License"), Message(11, "Snapshot", "ZeroSnapshot"),
   Uint64(12, "MaxNsID")}

MembershipState ==
  {Uint64(1, "Counter"),
   Map(2, "Groups", Uint32(1, "key"), Message(2, "value", "Group")),
   Map(3, "Zeros", Uint64(1, "key"), Message(2, "value", "Member")),
   Uint64(4, "MaxUID"), Uint64(5, "MaxTxnTs"), Uint64(6, "MaxRaftId"),
   Messages(7, "Removed", "Member"), String(8, "Cid"),
   Message(9, "License", "License"), Uint64(10, "MaxNsID")}

ConnectionState ==
  {Message(1, "Member", "Member"), Message(2, "State", "MembershipState"),
   Uint64(3, "MaxPending")}

HealthInfo ==
  {String(1, "Instance"), String(2, "Address"), String(3, "Status"),
   String(4, "Group"), String(5, "Version"), Int64(6, "Uptime"),
   Int64(7, "LastEcho"), Strings(8, "Ongoing"), Strings(9, "Indexing"),
   Strings(10, "EeFeatures"), Uint64(11, "MaxAssigned")}

Tablet ==
  {Uint32(1, "GroupId"), String(2, "Predicate"), Bool(3, "Force"),
   Int64(7, "OnDiskBytes"), Bool(8, "Remove"), Bool(9, "ReadOnly"),
   Uint64(10, "MoveTs"), Int64(11, "UncompressedBytes")}

DirectedEdge ==
  {Fixed64(1, "Entity"), String(2, "Attr"), Bytes(3, "Value"),
   Enum(4, "ValueType"), Fixed64(5, "ValueId"), String(6, "Label"),
   String(7, "Lang"), Enum(8, "Op"), Messages(9, "Facets", "api.Facet"),
   Strings(10, "AllowedPreds")}

Mutations ==
  {Uint32(1, "GroupId"), Uint64(2, "StartTs"),
   Messages(3, "Edges", "DirectedEdge"),
   Messages(4, "Schema", "SchemaUpdate"), Messages(6, "Types", "TypeUpdate"),
   Enum(7, "DropOp"), String(8, "DropValue"),
   Message(9, "Metadata", "Metadata")}

Metadata == {Map(1, "PredHints", String(1, "key"), Enum(2, "value"))}

Snapshot ==
  {Message(1, "Context", "RaftContext"), Uint64(2, "Index"),
   Uint64(3, "ReadTs"), Bool(4, "Done"), Uint64(5, "SinceTs")}

ZeroSnapshot ==
  {Uint64(1, "Index"), Uint64(2, "CheckpointTs"),
   Message(5, "State", "MembershipState")}

RestoreRequest ==
  {Uint32(1, "GroupId"), Uint64(2, "RestoreTs"), String(3, "Location"),
   String(4, "BackupId"), String(5, "AccessKey"), String(6, "SecretKey"),
   String(7, "SessionToken"), Bool(8, "Anonymous"),
   String(9, "EncryptionKeyFile"), String(10, "VaultAddr"),
   String(11, "VaultRoleidFile"), String(12, "VaultSecretidFile"),
   String(13, "VaultPath"), String(14, "VaultField"),
   String(15, "VaultFormat"), Uint64(16, "BackupNum")}

Proposal ==
  {Message(2, "Mutations", "Mutations"), Messages(4, "Kv", "pb.KV"),
   Message(5, "State", "MembershipState"), String(6, "CleanPredicate"),
   Message(8, "Delta", "OracleDelta"), Message(9, "Snapshot", "Snapshot"),
   Uint64(10, "Index"), Uint64(11, "ExpectedChecksum"),
   Message(12, "Restore", "RestoreRequest")}

KVS ==
  {Bool(2, "Done"), Strings(3, "Predicates"), Strings(4, "Types"),
   Bytes(5, "Data")}

Posting ==
  {Fixed64(1, "Uid"), Bytes(2, "Value"), Enum(3, "ValType"),
   Enum(4, "PostingType"), Bytes(5, "LangTag"), String(6, "Label"),
   Messages(9, "Facets", "api.Facet"), Uint32(12, "Op"),
   Uint64(13, "StartTs"), Uint64(14, "CommitTs")}

UidBlock == {Uint64(1, "Base"), Bytes(2, "Deltas"), Uint32(3, "NumUids")}

UidPack ==
  {Uint32(1, "BlockSize"), Messages(2, "Blocks", "UidBlock"),
   Uint64(23, "AllocRef")}

PostingList ==
  {Message(1, "Pack", "UidPack"), Messages(2, "Postings", "Posting"),
   Uint64(3, "CommitTs"), PackedUint64(4, "Splits")}

FacetParam == {String(1, "Key"), String(2, "Alias")}

FacetParams == {Bool(1, "AllKeys"), Messages(2, "Param", "FacetParam")}

Facets == {Messages(1, "Facets", "api.Facet")}

FacetsList == {Messages(1, "FacetsList", "Facets")}

Function == {String(1, "Name"), String(2, "Key"), Strings(3, "Args")}

FilterTree ==
  {String(1, "Op"), Messages(2, "Children", "FilterTree"),
   Message(3, "Func", "Function")}

SchemaRequest ==
  {Uint32(1, "GroupId"), Strings(2, "Predicates"), Strings(3, "Fields"),
   Strings(4, "Types")}

SchemaNode ==
  {String(1, "Predicate"), String(2, "Type"), Bool(3, "Index"),
   Strings(4, "Tokenizer"), Bool(5, "Reverse"), Bool(6, "Count"),
   Bool(7, "List"), Bool(8, "Upsert"), Bool(9, "Lang"),
   Bool(10, "NoConflict")}

SchemaResult == {Messages(1, "Schema", "SchemaNode")}

SchemaUpdate ==
  {String(1, "Predicate"), Enum(2, "ValueType"), Enum(3, "Directive"),
   Strings(4, "Tokenizer"), Bool(5, "Count"), Bool(6, "List"),
   Bool(8, "Upsert"), Bool(9, "Lang"), Bool(10, "NonNullable"),
   Bool(11, "NonNullableList"), String(12, "ObjectTypeName"),
   Bool(13, "NoConflict")}

TypeUpdate == {String(1, "TypeName"), Messages(2, "Fields", "SchemaUpdate")}

MapHeader == {ManyBytes(1, "PartitionKeys")}

MovePredicatePayload ==
  {String(1, "Predicate"), Uint32(2, "SourceGid"), Uint32(3, "DestGid"),
   Uint64(4, "TxnTs"), Uint64(5, "ExpectedChecksum")}

TxnStatus == {Uint64(1, "StartTs"), Uint64(2, "CommitTs")}

OracleDelta ==
  {Messages(1, "Txns", "TxnStatus"), Uint64(2, "MaxAssigned"),
   Map(3, "GroupChecksums", Uint32(1, "key"), Uint64(2, "value"))}

TxnTimestamps == {PackedUint64(1, "Ts")}

PeerResponse == {Bool(1, "Status")}

RaftBatch ==
  {Message(1, "Context", "RaftContext"), Message(2, "Payload", "api.Payload")}

SubscriptionRequest == {ManyBytes(1, "Prefixes")}

SubscriptionResponse == {Message(1, "Kvs", "pb.KVList")}

Num ==
  {Uint64(1, "Val"), Bool(2, "ReadOnly"), Bool(3, "Forwarded"),
   Enum(4, "Type")}

AssignedIds ==
  {Uint64(1, "StartId"), Uint64(2, "EndId"), Uint64(5, "ReadOnly")}

SnapshotMeta == {Uint64(1, "ClientTs"), Uint32(2, "GroupId")}

Status == {Int32(1, "Code"), String(2, "Msg")}

BackupRequest ==
  {Uint64(1, "ReadTs"), Uint64(2, "SinceTs"), Uint32(3, "GroupId"),
   String(4, "UnixTs"), String(5, "Destination"), String(6, "AccessKey"),
   String(7, "SecretKey"), String(8, "SessionToken"), Bool(9, "Anonymous"),
   Strings(10, "Predicates")}

BackupResponse == {Messages(1, "DropOperations", "DropOperation")}

DropOperation == {Enum(1, "DropOp"), String(2, "DropValue")}

ExportRequest ==
  {Uint32(1, "GroupId"), Uint64(2, "ReadTs"), Int64(3, "UnixTs"),
   String(4, "Format"), String(5, "Destination"), String(6, "AccessKey"),
   String(7, "SecretKey"), String(8, "SessionToken"), Bool(9, "Anonymous")}

ExportResponse == {Int32(1, "Code"), String(2, "Msg"), Strings(3, "Files")}

BackupKey ==
  {Enum(1, "Type"), String(2, "Attr"), Uint64(3, "Uid"),
   Uint64(4, "StartUid"), String(5, "Term"), Uint32(6, "Count")}

BackupPostingList ==
  {PackedUint64(1, "Uids"), Messages(2, "Postings", "Posting"),
   Uint64(3, "CommitTs"), PackedUint64(4, "Splits"), Bytes(5, "UidBytes")}

UpdateGraphQLSchemaRequest ==
  {Uint64(1, "StartTs"), String(2, "GraphqlSchema"),
   Messages(3, "DgraphPreds", "SchemaUpdate"),
   Messages(4, "DgraphTypes", "TypeUpdate")}

UpdateGraphQLSchemaResponse == {Uint64(1, "Uid")}

BulkMeta ==
  {Int64(1, "EdgeCount"),
   Map(2, "SchemaMap", String(1, "key"), Message(2, "value", "SchemaUpdate"))}

Schemas ==
  [List |-> List, TaskValue |-> TaskValue, SrcFunction |-> SrcFunction,
   Query |-> Query, ValueList |-> ValueList, LangList |-> LangList,
   Result |-> Result, Order |-> Order, SortMessage |-> SortMessage,
   SortResult |-> SortResult, RaftContext |-> RaftContext, Member |-> Member,
   Group |-> Group, License |-> License, ZeroProposal |-> ZeroProposal,
   MembershipState |-> MembershipState, ConnectionState |-> ConnectionState,
   HealthInfo |-> HealthInfo, Tablet |-> Tablet,
   DirectedEdge |-> DirectedEdge, Mutations |-> Mutations,
   Metadata |-> Metadata, Snapshot |-> Snapshot,
   ZeroSnapshot |-> ZeroSnapshot, RestoreRequest |-> RestoreRequest,
   Proposal |-> Proposal, KVS |-> KVS, Posting |-> Posting,
   UidBlock |-> UidBlock, UidPack |-> UidPack, PostingList |-> PostingList,
   FacetParam |-> FacetParam, FacetParams |-> FacetParams, Facets |-> Facets,
   FacetsList |-> FacetsList, Function |-> Function,
   FilterTree |-> FilterTree, SchemaRequest |-> SchemaRequest,
   SchemaNode |-> SchemaNode, SchemaResult |-> SchemaResult,
   SchemaUpdate |-> SchemaUpdate, TypeUpdate |-> TypeUpdate,
   MapHeader |-> MapHeader, MovePredicatePayload |-> MovePredicatePayload,
   TxnStatus |-> TxnStatus, OracleDelta |-> OracleDelta,
   TxnTimestamps |-> TxnTimestamps, PeerResponse |-> PeerResponse,
   RaftBatch |-> RaftBatch, SubscriptionRequest |-> SubscriptionRequest,
   SubscriptionResponse |-> SubscriptionResponse, Num |-> Num,
   AssignedIds |-> AssignedIds, SnapshotMeta |-> SnapshotMeta,
   Status |-> Status, BackupRequest |-> BackupRequest,
   BackupResponse |-> BackupResponse, DropOperation |-> DropOperation,
   ExportRequest |-> ExportRequest, ExportResponse |-> ExportResponse,
   BackupKey |-> BackupKey, BackupPostingList |-> BackupPostingList,
   UpdateGraphQLSchemaRequest |-> UpdateGraphQLSchemaRequest,
   UpdateGraphQLSchemaResponse |-> UpdateGraphQLSchemaResponse,
   BulkMeta |-> BulkMeta]
=============================================================================
