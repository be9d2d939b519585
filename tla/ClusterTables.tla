--------------------------- MODULE ClusterTables ---------------------------
(***************************************************************************)
(* What the generated data models share: the notation of their tables and  *)
(* the files that are the same in snippets/lit_icd/zap-generated and in    *)
(* src_old/default_zap/zap-generated (CodeDrivenInitShutdown.cpp,          *)
(* PluginApplicationCallbacks.h, the server counts of gen_config.h).       *)
(*                                                                         *)
(* Clusters are named, attributes and commands have their numbers.  Types, *)
(* default values, events and the size of an attribute that its server     *)
(* keeps itself (EXTERNAL_STORAGE) are left out.                           *)
(***************************************************************************)
EXTENDS Integers, Sequences

NULL == -1              \* nullptr
EndOfList == -1         \* chip::kInvalidCommandId
FeatureMap == 65532
ClusterRevision == 65533
Globals == <<FeatureMap, ClusterRevision>>

\* Privileges, each of which implies those before it.
View == 1
Operate == 2
Manage == 3
Administer == 4

From(first, last) == [i \in 1..(last - first + 1) |-> first + i - 1]

Times(n, x) == [i \in 1..n |-> x]

\* Rows of GENERATED_ATTRIBUTES; bytes is 0 for external storage.
AttributeRow(id, bytes, writable) ==
  [id |-> id, bytes |-> bytes, writable |-> writable]

Ext(ids) == [i \in DOMAIN ids |-> AttributeRow(ids[i], 0, FALSE)]
Rw(ids) == [i \in DOMAIN ids |-> AttributeRow(ids[i], 0, TRUE)]
Ram(id, bytes) == <<AttributeRow(id, bytes, FALSE)>>

\* A list of GENERATED_COMMANDS.
List(commands) == commands \o <<EndOfList>>

\* Rows of GENERATED_CLUSTERS.  The indices count from 0 as in the code.
Server(name, attributes, attributeCount, clusterSize, accepted) ==
  [cluster |-> name, server |-> TRUE, attributes |-> attributes,
   attributeCount |-> attributeCount, clusterSize |-> clusterSize,
   accepted |-> accepted]

Client(name, attributes) ==
  [cluster |-> name, server |-> FALSE, attributes |-> attributes,
   attributeCount |-> 0, clusterSize |-> 0, accepted |-> NULL]

EndpointType(clusters, clusterCount, size) ==
  [clusters |-> clusters, clusterCount |-> clusterCount, size |-> size]

\* Three parallel arrays of access.h.
Access(clusters, ids, privileges) ==
  [clusters |-> clusters, ids |-> ids, privileges |-> privileges]

-----------------------------------------------------------------------------
\* The cases of the two switches of CodeDrivenInitShutdown.cpp.
InitCases ==
  {"Identify", "Descriptor", "Binding", "AccessControl", "BasicInformation",
   "GeneralCommissioning", "DiagnosticLogs", "GeneralDiagnostics",
   "SoftwareDiagnostics", "WiFiNetworkDiagnostics",
   "AdministratorCommissioning", "OperationalCredentials",
   "GroupKeyManagement"}

\* Fault: the last case is missing.
ShutdownCasesStale == InitCases \ {"GroupKeyManagement"}

ShutdownCases ==
  {"Identify", "Descriptor", "Binding", "AccessControl", "BasicInformation",
   "GeneralCommissioning", "DiagnosticLogs", "GeneralDiagnostics",
   "SoftwareDiagnostics", "WiFiNetworkDiagnostics",
   "AdministratorCommissioning", "OperationalCredentials",
   "GroupKeyManagement"}

\* The calls of MATTER_PLUGINS_INIT.
PluginsInit ==
  {"Identify", "Groups", "Descriptor", "Binding", "AccessControl",
   "BasicInformation", "OtaSoftwareUpdateRequestor", "GeneralCommissioning",
   "NetworkCommissioning", "DiagnosticLogs", "GeneralDiagnostics",
   "SoftwareDiagnostics", "ThreadNetworkDiagnostics",
   "WiFiNetworkDiagnostics", "AdministratorCommissioning",
   "OperationalCredentials", "GroupKeyManagement", "IcdManagement"}

\* Fault: the descriptor of the second endpoint is not counted.
ServerEndpointCountStale == [name \in PluginsInit |-> 1]

\* MATTER_DM_..._CLUSTER_SERVER_ENDPOINT_COUNT, where it is not 0.
ServerEndpointCount ==
  [name \in PluginsInit |-> IF name = "Descriptor" THEN 2 ELSE 1]
=============================================================================
