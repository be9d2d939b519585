---------------------------- MODULE LitIcdTables ----------------------------
(***************************************************************************)
(* The data model of the lit_icd snippet as ZAP generated it: the arrays   *)
(* of snippets/lit_icd/zap-generated/endpoint_config.h and access.h and    *)
(* the switches of IMClusterCommandHandler.cpp.                            *)
(***************************************************************************)
EXTENDS ClusterTables

-----------------------------------------------------------------------------
\* GENERATED_ATTRIBUTES, cluster by cluster, and the array they make up.
RootDescriptorAttributes == Ext(<<0, 1, 2, 3>> \o Globals)
AccessControlAttributes == Rw(<<0, 1>>) \o Ext(<<2, 3, 4>> \o Globals)
BasicInformationAttributes ==
  Ext(<<0, 1, 2, 3, 4>>) \o Rw(<<5, 6>>)
  \o Ext(<<7, 8, 9, 10, 11, 15, 18, 19, 21, 22>> \o Globals)
OtaSoftwareUpdateRequestorAttributes ==
  Rw(<<0>>) \o Ram(1, 1) \o Ram(2, 1) \o Ram(3, 1) \o Ram(FeatureMap, 4)
  \o Ram(ClusterRevision, 2)
GeneralCommissioningAttributes == Rw(<<0>>) \o Ext(<<1, 2, 3, 4>> \o Globals)
NetworkCommissioningAttributes ==
  Ext(<<0, 1, 2, 3>>) \o Rw(<<4>>) \o Ext(<<5, 6, 7, 8, 9, 10>> \o Globals)
DiagnosticLogsAttributes == Ext(Globals)
GeneralDiagnosticsAttributes == Ext(<<0, 1, 2, 3, 4, 8>> \o Globals)
SoftwareDiagnosticsAttributes == Ext(<<1, 2>> \o Globals)
ThreadNetworkDiagnosticsAttributes ==
  Ext(From(0, 62)) \o Ram(FeatureMap, 4) \o Ext(<<ClusterRevision>>)
WiFiNetworkDiagnosticsAttributes ==
  Ext(<<0, 1, 2, 3, 4, 6, 7, 8, 9, 10>>) \o Ram(FeatureMap, 4)
  \o Ram(ClusterRevision, 2)
AdministratorCommissioningAttributes ==
  Ext(<<0, 1, 2>>) \o Ram(FeatureMap, 4) \o Ext(<<ClusterRevision>>)
OperationalCredentialsAttributes == Ext(<<0, 1, 2, 3, 4, 5>> \o Globals)
GroupKeyManagementAttributes == Rw(<<0>>) \o Ext(<<1, 2, 3>> \o Globals)
IcdManagementAttributes ==
  Ext(<<0, 1, 2, 3, 4, 5>>) \o Ram(6, 4) \o Ram(7, 129)
  \o Ext(<<8, 9, FeatureMap>>) \o Ram(ClusterRevision, 2)
IdentifyAttributes == Rw(<<0>>) \o Ext(<<1>> \o Globals)
GroupsAttributes == Ram(0, 1) \o Ram(FeatureMap, 4) \o Ram(ClusterRevision, 2)
SwitchDescriptorAttributes == Ext(<<0, 1, 2, 3>> \o Globals)
BindingAttributes == Rw(<<0>>) \o Ext(Globals)

Attributes ==
  RootDescriptorAttributes \o AccessControlAttributes
  \o BasicInformationAttributes \o OtaSoftwareUpdateRequestorAttributes
  \o GeneralCommissioningAttributes \o NetworkCommissioningAttributes
  \o DiagnosticLogsAttributes \o GeneralDiagnosticsAttributes
  \o SoftwareDiagnosticsAttributes \o ThreadNetworkDiagnosticsAttributes
  \o WiFiNetworkDiagnosticsAttributes \o AdministratorCommissioningAttributes
  \o OperationalCredentialsAttributes \o GroupKeyManagementAttributes
  \o IcdManagementAttributes \o IdentifyAttributes \o GroupsAttributes
  \o SwitchDescriptorAttributes \o BindingAttributes

-----------------------------------------------------------------------------
\* GENERATED_COMMANDS and the rows of GENERATED_CLUSTERS that point into it.
Commands ==
  List(<<0>>) \o List(<<0, 2, 4>>) \o List(<<1, 3, 5>>)
  \o List(<<0, 2, 3, 4, 6, 8>>) \o List(<<1, 5, 7>>) \o List(<<0>>)
  \o List(<<1>>) \o List(<<0, 1>>) \o List(<<2>>) \o List(<<0>>)
  \o List(<<0, 1, 2>>) \o List(<<0, 2, 4, 6, 7, 9, 10, 11, 12, 13>>)
  \o List(<<1, 3, 5, 8, 14>>) \o List(<<0, 1, 3, 4>>) \o List(<<2, 5>>)
  \o List(<<0, 2, 3>>) \o List(<<1, 4>>) \o List(<<0>>)
  \o List(<<0, 1, 2, 3, 4, 5>>) \o List(<<0, 1, 2, 3>>)

RootClusters ==
  << Server("Descriptor", 0, 6, 0, NULL),
     Server("AccessControl", 6, 7, 0, NULL),
     Server("BasicInformation", 13, 19, 0, NULL),
     Client("OtaSoftwareUpdateProvider", 32),
     Server("OtaSoftwareUpdateRequestor", 32, 6, 9, 0),
     Server("GeneralCommissioning", 38, 7, 0, 2),
     Server("NetworkCommissioning", 45, 13, 0, 10),
     Server("DiagnosticLogs", 58, 2, 0, 21) >>

NetworkClusters ==
  << Server("GeneralDiagnostics", 60, 8, 0, 25),
     Server("SoftwareDiagnostics", 68, 4, 0, NULL),
     Server("ThreadNetworkDiagnostics", 72, 65, 4, 30),
     Server("WiFiNetworkDiagnostics", 137, 12, 6, NULL),
     Server("AdministratorCommissioning", 149, 5, 4, 32),
     Server("OperationalCredentials", 154, 8, 0, 36),
     Server("GroupKeyManagement", 162, 6, 0, 53),
     Server("IcdManagement", 168, 12, 135, 61) >>

SwitchClusters ==
  << Client("Identify", 180),
     Server("Identify", 180, 4, 0, 68),
     Server("Groups", 184, 3, 7, 70),
     Client("OnOff", 187),
     Client("LevelControl", 187),
     Server("Descriptor", 187, 6, 0, NULL),
     Server("Binding", 193, 3, 0, NULL) >>

Clusters == RootClusters \o NetworkClusters \o SwitchClusters

-----------------------------------------------------------------------------
\* Which rows each endpoint has, and the bytes set aside for its attributes.
\* Fault: the size of the root endpoint without its last string attribute.
EndpointTypesStale == << EndpointType(0, 16, 29), EndpointType(16, 7, 7) >>
EndpointTypes == << EndpointType(0, 16, 158), EndpointType(16, 7, 7) >>

\* Fault: the size left over from an older set of attributes.
AttributeMaxSizeStale == 32
AttributeMaxSize == 165

-----------------------------------------------------------------------------
\* The parallel arrays of access.h.
ReadClusters ==
  Times(2, "AccessControl") \o Times(5, "NetworkCommissioning")
  \o <<"OperationalCredentials">> \o Times(2, "IcdManagement")
ReadIds == <<0, 1, 0, 1, 5, 6, 7, 0, 3, 4>>
ReadPrivileges == Times(10, Administer)
WriteClusters ==
  <<"Binding">> \o Times(2, "AccessControl") \o Times(2, "BasicInformation")
  \o <<"OtaSoftwareUpdateRequestor">> \o <<"GeneralCommissioning">>
  \o <<"NetworkCommissioning">> \o <<"GroupKeyManagement">>
WriteIds == <<0, 0, 1, 5, 6, 0, 0, 4, 0>>
WritePrivileges ==
  <<Manage>> \o Times(2, Administer) \o <<Manage>> \o Times(4, Administer)
  \o <<Manage>>
InvokeClusters ==
  <<"Identify">> \o Times(4, "Groups") \o <<"OtaSoftwareUpdateRequestor">>
  \o Times(3, "GeneralCommissioning") \o Times(6, "NetworkCommissioning")
  \o <<"GeneralDiagnostics">> \o <<"ThreadNetworkDiagnostics">>
  \o Times(3, "AdministratorCommissioning")
  \o Times(10, "OperationalCredentials") \o Times(4, "GroupKeyManagement")
  \o Times(2, "IcdManagement")
InvokeIds == <<0, 0, 3, 4, 5, 0, 0, 2, 4, 0, 2, 3, 4, 6, 8, 0, 0, 0, 1, 2, 0,
               2, 4, 6, 7, 9, 10, 11, 12, 13, 0, 1, 3, 4, 0, 2>>
\* Fault: the privileges are one place off from the commands.
InvokePrivilegesShifted ==
  Times(6, Manage) \o Times(10, Administer) \o Times(2, Manage)
  \o Times(17, Administer) \o <<Manage>>
InvokePrivileges ==
  Times(5, Manage) \o Times(10, Administer) \o Times(2, Manage)
  \o Times(17, Administer) \o Times(2, Manage)

-----------------------------------------------------------------------------
\* The cases of the switches of IMClusterCommandHandler.cpp.
GroupsCases == {0, 1, 2, 3, 4, 5}
\* Fault: the case of StayActiveRequest is missing.
IcdManagementCasesStale == {0, 2}
IcdManagementCases == {0, 2, 3}
OtaSoftwareUpdateRequestorCases == {0}
ThreadNetworkDiagnosticsCases == {0}
DispatchCases == [Groups |-> GroupsCases,
                  IcdManagement |-> IcdManagementCases,
                  OtaSoftwareUpdateRequestor |-> OtaSoftwareUpdateRequestorCases,
                  ThreadNetworkDiagnostics |-> ThreadNetworkDiagnosticsCases]

Tables ==
  [attributes |-> Attributes, commands |-> Commands, clusters |-> Clusters,
   endpointTypes |-> EndpointTypes, maxSize |-> AttributeMaxSize,
   cases |-> DispatchCases,
   access |-> [read   |-> Access(ReadClusters, ReadIds, ReadPrivileges),
               write  |-> Access(WriteClusters, WriteIds, WritePrivileges),
               invoke |-> Access(InvokeClusters, InvokeIds, InvokePrivileges)]]
=============================================================================
