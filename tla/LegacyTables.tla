--------------------------- MODULE LegacyTables ---------------------------
(***************************************************************************)
(* The data model of the legacy light switch as ZAP generated it: the      *)
(* files LitIcdTables is about, in src_old/default_zap/zap-generated.  It  *)
(* has no long-idle-time part in its ICD Management cluster.               *)
(***************************************************************************)
EXTENDS ClusterTables

-----------------------------------------------------------------------------
\* GENERATED_ATTRIBUTES, cluster by cluster, and the array they make up.
RootDescriptorAttributes == Ext(<<0, 1, 2, 3>> \o Globals)
AccessControlAttributes == Rw(<<0, 1>>) \o Ext(<<2, 3, 4>> \o Globals)
BasicInformationAttributes ==
  Ext(<<0, 1, 2, 3, 4>>) \o Rw(<<5, 6>>)
  \o Ext(<<7, 8, 9, 10, 11, 15, 18, 19, 21, 22>> \o Globals)
OtaSoftwareUpdateRequestorAttributes ==
  Rw(<<0>>) \o Ram(1, 1) \o Ram(2, 1) \o Ram(3, 1) \o Ram(FeatureMap, 4)
  \o Ram(ClusterRevision, 2)
GeneralCommissioningAttributes == Rw(<<0>>) \o Ext(<<1, 2, 3, 4>> \o Globals)
NetworkCommissioningAttributes ==
  Ext(<<0, 1, 2, 3>>) \o Rw(<<4>>) \o Ext(<<5, 6, 7, 8, 9, 10>> \o Globals)
DiagnosticLogsAttributes == Ext(Globals)
GeneralDiagnosticsAttributes == Ext(<<0, 1, 2, 3, 4, 8>> \o Globals)
SoftwareDiagnosticsAttributes == Ext(<<1, 2>> \o Globals)
ThreadNetworkDiagnosticsAttributes ==
  Ext(From(0, 62)) \o Ram(FeatureMap, 4) \o Ext(<<ClusterRevision>>)
WiFiNetworkDiagnosticsAttributes ==
  Ext(<<0, 1, 2, 3, 4, 6, 7, 8, 9, 10>>) \o Ram(FeatureMap, 4)
  \o Ram(ClusterRevision, 2)
AdministratorCommissioningAttributes ==
  Ext(<<0, 1, 2>>) \o Ram(FeatureMap, 4) \o Ext(<<ClusterRevision>>)
OperationalCredentialsAttributes == Ext(<<0, 1, 2, 3, 4, 5>> \o Globals)
GroupKeyManagementAttributes == Rw(<<0>>) \o Ext(<<1, 2, 3>> \o Globals)
IcdManagementAttributes ==
  Ext(<<0, 1, 2, FeatureMap>>) \o Ram(ClusterRevision, 2)
IdentifyAttributes == Rw(<<0>>) \o Ext(<<1>> \o Globals)
GroupsAttributes == Ram(0, 1) \o Ram(FeatureMap, 4) \o Ram(ClusterRevision, 2)
SwitchDescriptorAttributes == Ext(<<0, 1, 2, 3>> \o Globals)
BindingAttributes == Rw(<<0>>) \o Ext(Globals)

Attributes ==
  RootDescriptorAttributes \o AccessControlAttributes
  \o BasicInformationAttributes \o OtaSoftwareUpdateRequestorAttributes
  \o GeneralCommissioningAttributes \o NetworkCommissioningAttributes
  \o DiagnosticLogsAttributes \o GeneralDiagnosticsAttributes
  \o SoftwareDiagnosticsAttributes \o ThreadNetworkDiagnosticsAttributes
  \o WiFiNetworkDiagnosticsAttributes \o AdministratorCommissioningAttributes
  \o OperationalCredentialsAttributes \o GroupKeyManagementAttributes
  \o IcdManagementAttributes \o IdentifyAttributes \o GroupsAttributes
  \o SwitchDescriptorAttributes \o BindingAttributes

-----------------------------------------------------------------------------
\* GENERATED_COMMANDS and the rows of GENERATED_CLUSTERS that point into it.
Commands ==
  List(<<0>>) \o List(<<0, 2, 4>>) \o List(<<1, 3, 5>>)
  \o List(<<0, 2, 3, 4, 6, 8>>) \o List(<<1, 5, 7>>) \o List(<<0>>)
  \o List(<<1>>) \o List(<<0, 1>>) \o List(<<2>>) \o List(<<0>>)
  \o List(<<0, 1, 2>>) \o List(<<0, 2, 4, 6, 7, 9, 10, 11, 12, 13>>)
  \o List(<<1, 3, 5, 8, 14>>) \o List(<<0, 1, 3, 4>>) \o List(<<2, 5>>)
  \o List(<<0>>) \o List(<<0, 1, 2, 3, 4, 5>>) \o List(<<0, 1, 2, 3>>)

RootClusters ==
  << Server("Descriptor", 0, 6, 0, NULL),
     Server("AccessControl", 6, 7, 0, NULL),
     Server("BasicInformation", 13, 19, 0, NULL),
     Client("OtaSoftwareUpdateProvider", 32),
     Server("OtaSoftwareUpdateRequestor", 32, 6, 9, 0),
     Server("GeneralCommissioning", 38, 7, 0, 2),
     Server("NetworkCommissioning", 45, 13, 0, 10),
     Server("DiagnosticLogs", 58, 2, 0, 21) >>

NetworkClusters ==
  << Server("GeneralDiagnostics", 60, 8, 0, 25),
     Server("SoftwareDiagnostics", 68, 4, 0, NULL),
     Server("ThreadNetworkDiagnostics", 72, 65, 4, 30),
     Server("WiFiNetworkDiagnostics", 137, 12, 6, NULL),
     Server("AdministratorCommissioning", 149, 5, 4, 32),
     Server("OperationalCredentials", 154, 8, 0, 36),
     Server("GroupKeyManagement", 162, 6, 0, 53),
     Server("IcdManagement", 168, 5, 2, NULL) >>

SwitchClusters ==
  << Client("Identify", 173),
     Server("Identify", 173, 4, 0, 61),
     Server("Groups", 177, 3, 7, 63),
     Client("OnOff", 180),
     Client("LevelControl", 180),
     Server("Descriptor", 180, 6, 0, NULL),
     Server("Binding", 186, 3, 0, NULL) >>

Clusters == RootClusters \o NetworkClusters \o SwitchClusters

-----------------------------------------------------------------------------
\* Which rows each endpoint has, and the bytes set aside for its attributes.
EndpointTypes == << EndpointType(0, 16, 25), EndpointType(16, 7, 7) >>

AttributeMaxSize == 32

-----------------------------------------------------------------------------
\* The parallel arrays of access.h.
ReadClusters ==
  Times(2, "AccessControl") \o Times(5, "NetworkCommissioning")
  \o <<"OperationalCredentials">>
ReadIds == <<0, 1, 0, 1, 5, 6, 7, 0>>
ReadPrivileges == Times(8, Administer)
WriteClusters ==
  <<"Binding">> \o Times(2, "AccessControl") \o Times(2, "BasicInformation")
  \o <<"OtaSoftwareUpdateRequestor">> \o <<"GeneralCommissioning">>
  \o <<"NetworkCommissioning">> \o <<"GroupKeyManagement">>
WriteIds == <<0, 0, 1, 5, 6, 0, 0, 4, 0>>
WritePrivileges ==
  <<Manage>> \o Times(2, Administer) \o <<Manage>> \o Times(4, Administer)
  \o <<Manage>>
InvokeClusters ==
  <<"Identify">> \o Times(4, "Groups") \o <<"OtaSoftwareUpdateRequestor">>
  \o Times(3, "GeneralCommissioning") \o Times(6, "NetworkCommissioning")
  \o <<"GeneralDiagnostics">> \o <<"ThreadNetworkDiagnostics">>
  \o Times(3, "AdministratorCommissioning")
  \o Times(10, "OperationalCredentials") \o Times(4, "GroupKeyManagement")
InvokeIds == <<0, 0, 3, 4, 5, 0, 0, 2, 4, 0, 2, 3, 4, 6, 8, 0, 0, 0, 1, 2, 0,
               2, 4, 6, 7, 9, 10, 11, 12, 13, 0, 1, 3, 4>>
InvokePrivileges ==
  Times(5, Manage) \o Times(10, Administer) \o Times(2, Manage)
  \o Times(17, Administer)

-----------------------------------------------------------------------------
\* The cases of the switches of IMClusterCommandHandler.cpp.
GroupsCases == {0, 1, 2, 3, 4, 5}
OtaSoftwareUpdateRequestorCases == {0}
ThreadNetworkDiagnosticsCases == {0}
DispatchCases == [Groups |-> GroupsCases,
                  OtaSoftwareUpdateRequestor |-> OtaSoftwareUpdateRequestorCases,
                  ThreadNetworkDiagnostics |-> ThreadNetworkDiagnosticsCases]

Tables ==
  [attributes |-> Attributes, commands |-> Commands, clusters |-> Clusters,
   endpointTypes |-> EndpointTypes, maxSize |-> AttributeMaxSize,
   cases |-> DispatchCases,
   access |-> [read   |-> Access(ReadClusters, ReadIds, ReadPrivileges),
               write  |-> Access(WriteClusters, WriteIds, WritePrivileges),
               invoke |-> Access(InvokeClusters, InvokeIds, InvokePrivileges)]]
=============================================================================
