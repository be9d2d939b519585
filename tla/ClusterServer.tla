--------------------------- MODULE ClusterServer ---------------------------
(***************************************************************************)
(* The Matter data model engine on the generated tables: the start and the *)
(* shutdown of the cluster servers, the byte array that holds the RAM      *)
(* attributes, and the requests of clients with a privilege.               *)
(*                                                                         *)
(* The engine itself belongs to the SDK and is modelled from how it uses   *)
(* the tables; the tables, the dispatch of commands and the cases of the   *)
(* start and shutdown callbacks are the repository's.  Everything runs on  *)
(* the Matter thread, one callback or one request at a time.               *)
(***************************************************************************)
EXTENDS ClusterTables, PrefixSums, FiniteSets, Functions

CONSTANTS Configs,    \* the data models a firmware may be built with
          TablesOf,     \* the tables of each of them
          MaxWrites   \* bound: attribute writes of the servers between boots

Endpoints == 0..1
Values == {0, 1}    \* of an attribute; 0 is its default

-----------------------------------------------------------------------------
(* Reading the tables.  Their indices count from 0, sequences from 1.      *)

Rows(t, e) == LET type == t.endpointTypes[e + 1]
              IN  (type.clusters + 1)..(type.clusters + type.clusterCount)

RowAttributes(t, r) ==
  LET row == t.clusters[r]
  IN  [j \in 1..row.attributeCount |-> t.attributes[row.attributes + j]]

\* An accepted command list ends at the first kInvalidCommandId.
Accepted(t, r) ==
  LET rest == (t.clusters[r].accepted + 1)..Len(t.commands)
  IN  IF t.clusters[r].accepted = NULL THEN {}
      ELSE {t.commands[i] : i \in {j \in rest :
              \A k \in rest : k <= j => t.commands[k] # EndOfList}}

\* The clusters of the endpoints, with what their rows point to.
ClustersOf(t) ==
  UNION {{[endpoint |-> e, row |-> r, name |-> t.clusters[r].cluster,
           server |-> t.clusters[r].server,
           attributes |-> RowAttributes(t, r), accepted |-> Accepted(t, r)] :
            r \in Rows(t, e)} : e \in Endpoints}

Clusters == [c \in Configs |-> ClustersOf(TablesOf[c])]

Servers(c) == {s \in Clusters[c] : s.server}

\* The privilege for an attribute or command: that of the first entry for it
\* in the parallel arrays, and a default if there is none.
Required(c, op, name, id) ==
  LET a == TablesOf[c].access[op]
      entries == {i \in DOMAIN a.clusters :
                    a.clusters[i] = name /\ a.ids[i] = id}
  IN  IF entries = {} THEN IF op = "read" THEN View ELSE Operate
      ELSE a.privileges[CHOOSE i \in entries : \A j \in entries : i <= j]

\* The shape of the tables: rows and attributes are where others say they are,
\* and each row belongs to one endpoint.
ASSUME TablesAssumption ==
  \A c \in Configs : LET t == TablesOf[c] IN
    /\ t.endpointTypes \in Seq([clusters : Nat, clusterCount : Nat, size : Nat])
    /\ t.maxSize \in Nat
    /\ DOMAIN t.clusters = 1..Len(t.clusters) /\ Len(t.clusters) \in Nat \ {0}
    /\ \A r \in DOMAIN t.clusters :
         LET row == t.clusters[r] IN
           /\ row.server \in BOOLEAN
           /\ row.attributeCount \in Nat /\ row.clusterSize \in Nat
           /\ \A j \in 1..row.attributeCount :
                t.attributes[row.attributes + j].bytes \in Nat
           /\ \E e \in Endpoints : r \in Rows(t, e)
    /\ \A e \in Endpoints :
         /\ e + 1 \in DOMAIN t.endpointTypes
         /\ Rows(t, e) \subseteq DOMAIN t.clusters
         /\ \A f \in Endpoints \ {e} : Rows(t, e) \cap Rows(t, f) = {}
ASSUME WritesAssumption == MaxWrites \in Nat

-----------------------------------------------------------------------------
(* The layout of the RAM attributes in the storage.                        *)

EndpointSizes(t) ==
  [n \in DOMAIN t.endpointTypes |-> t.endpointTypes[n].size]

RowSizes(t, e) ==
  LET type == t.endpointTypes[e + 1]
  IN  [k \in 1..type.clusterCount |-> t.clusters[type.clusters + k].clusterSize]

AttributeSizes(t, r) ==
  [j \in DOMAIN RowAttributes(t, r) |-> RowAttributes(t, r)[j].bytes]

\* Where the engine finds the i-th attribute of a cluster: after the endpoints,
\* the clusters and the attributes before it, by the sizes the tables state.
EndpointOffset(t, e) == PrefixSum(EndpointSizes(t), e)

RowOffset(t, e, r) ==
  EndpointOffset(t, e)
  + PrefixSum(RowSizes(t, e), r - t.endpointTypes[e + 1].clusters - 1)

Offset(t, s, i) ==
  RowOffset(t, s.endpoint, s.row) + PrefixSum(AttributeSizes(t, s.row), i - 1)

\* The RAM attributes of a data model and the bytes they are kept in.
RamOf(c) ==
  UNION {{[config |-> c, endpoint |-> s.endpoint, cluster |-> s.name,
           id |-> s.attributes[i].id,
           bytes |-> LET first == Offset(TablesOf[c], s, i)
                     IN  first..(first + s.attributes[i].bytes - 1)] :
            i \in {j \in DOMAIN s.attributes : s.attributes[j].bytes > 0}} :
         s \in Servers(c)}

RamAttributes == [c \in Configs |-> RamOf(c)]

Storage(c) == 0..(TablesOf[c].maxSize - 1)

-----------------------------------------------------------------------------
VARIABLES
  config,   \* the data model the firmware is built with
  phase,    \* "clusters", "plugins", "serving", "shutdown" or "off"
  next,     \* during start and shutdown: the row whose turn it is
  running,  \* endpoint and name of the code-driven servers that are up
  plugged,  \* the clusters whose plugin has been initialised
  memory,   \* the bytes of the attribute storage
  writes,   \* attribute writes since boot, up to MaxWrites
  answer    \* the last request and its status, until it has been sent

vars == <<config, phase, next, running, plugged, memory, writes, answer>>

None == [status |-> "none"]

Init == /\ config \in Configs
        /\ phase = "clusters"
        /\ next = 1
        /\ running = {}
        /\ plugged = {}
        /\ memory = [b \in Storage(config) |-> 0]
        /\ writes = 0
        /\ answer = None

LastRow == Len(TablesOf[config].clusters)

\* The cluster whose turn it is.
Turn == CHOOSE s \in Clusters[config] : s.row = next

-----------------------------------------------------------------------------
(* Start and shutdown, row by row.                                         *)

\* MatterClusterServerInitCallback: a case of the switch starts an instance,
\* for which the server has as many places as it is on endpoints.
Start(e, name) ==
  IF /\ name \in InitCases
     /\ Cardinality({s \in running : s[2] = name}) < ServerEndpointCount[name]
  THEN running \cup {<<e, name>>}
  ELSE running

InitCluster ==
  /\ phase = "clusters"
  /\ running' = IF Turn.server THEN Start(Turn.endpoint, Turn.name) ELSE running
  /\ IF next = LastRow THEN phase' = "plugins" /\ next' = 1
     ELSE next' = next + 1 /\ UNCHANGED phase
  /\ UNCHANGED <<config, plugged, memory, writes, answer>>

InitPlugins ==
  /\ phase = "plugins"
  /\ plugged' = PluginsInit
  /\ phase' = "serving"
  /\ UNCHANGED <<config, next, running, memory, writes, answer>>

\* MatterClusterServerShutdownCallback.
Stop(e, name) ==
  IF name \in ShutdownCases THEN running \ {<<e, name>>} ELSE running

BeginShutdown ==
  /\ phase = "serving" /\ answer = None
  /\ phase' = "shutdown"
  /\ UNCHANGED <<config, next, running, plugged, memory, writes, answer>>

ShutdownCluster ==
  /\ phase = "shutdown"
  /\ running' = IF Turn.server THEN Stop(Turn.endpoint, Turn.name) ELSE running
  /\ IF next = LastRow THEN phase' = "off" /\ next' = 1
     ELSE next' = next + 1 /\ UNCHANGED phase
  /\ UNCHANGED <<config, plugged, memory, writes, answer>>

\* A power cycle, at any time.
Reboot ==
  /\ phase' = "clusters"
  /\ next' = 1
  /\ running' = {}
  /\ plugged' = {}
  /\ memory' = [b \in Storage(config) |-> 0]
  /\ writes' = 0
  /\ answer' = None
  /\ UNCHANGED config

-----------------------------------------------------------------------------
\* A server of the SDK writes one of its RAM attributes.  Bytes past the end
\* of the storage are written like any others.
WriteAttribute ==
  /\ phase = "serving" /\ writes < MaxWrites
  /\ \E a \in RamAttributes[config], v \in Values :
       memory' = [b \in DOMAIN memory \cup a.bytes |->
                    IF b \in a.bytes THEN v ELSE memory[b]]
  /\ writes' = writes + 1
  /\ UNCHANGED <<config, phase, next, running, plugged, answer>>

-----------------------------------------------------------------------------
(* Requests.                                                               *)

\* Servers of the SDK that register themselves in their plugin's init.
PluginServers == {"Groups", "OtaSoftwareUpdateRequestor",
                  "NetworkCommissioning", "ThreadNetworkDiagnostics",
                  "IcdManagement"}

Up(e, name) == \/ <<e, name>> \in running
               \/ name \in PluginServers \cap plugged

\* The server cluster a request is addressed to, and the attribute it names.
Addressed(c, req) == {s \in Servers(c) : /\ s.endpoint = req.endpoint
                                         /\ s.name = req.cluster}

Attribute(c, req) ==
  {a \in UNION {Range(s.attributes) : s \in Addressed(c, req)} : a.id = req.id}

Exists(c, req) == IF req.op = "invoke"
                  THEN \E s \in Addressed(c, req) : req.id \in s.accepted
                  ELSE Attribute(c, req) # {}

Writable(c, req) == \E a \in Attribute(c, req) : a.writable

Permitted(c, req) ==
  req.privilege >= Required(c, req.op, req.cluster, req.id)

Answer(req, status) ==
  /\ answer' = [status |-> status, request |-> req]
  /\ UNCHANGED <<config, phase, next, running, plugged, memory, writes>>

\* DispatchServerCommand of a cluster: an unknown command, and one whose data
\* cannot be decoded, get a status of their own.
DispatchServerCommand(cases, id, decodes) ==
  IF id \notin cases THEN "UnsupportedCommand"
  ELSE IF decodes THEN "Success" ELSE "InvalidCommand"

DispatchSingleClusterCommand(name, id, decodes) ==
  LET cases == TablesOf[config].cases
  IN  IF name \notin DOMAIN cases THEN "UnsupportedCluster"
      ELSE DispatchServerCommand(cases[name], id, decodes)

RefuseUnknown(req) == ~Exists(config, req) /\ Answer(req, "Unsupported")

RefuseAccess(req) == /\ Exists(config, req) /\ ~Permitted(config, req)
                     /\ Answer(req, "UnsupportedAccess")

\* The instance of a code-driven server, and the one object that serves
\* Network Commissioning, handle their commands themselves.
InvokeOnInstance(req) ==
  /\ req.op = "invoke" /\ Exists(config, req) /\ Permitted(config, req)
  /\ \/ <<req.endpoint, req.cluster>> \in running
     \/ req.cluster = "NetworkCommissioning" /\ req.cluster \in plugged
  /\ Answer(req, IF req.decodes THEN "Success" ELSE "InvalidCommand")

InvokeByDispatch(req) ==
  /\ req.op = "invoke" /\ Exists(config, req) /\ Permitted(config, req)
  /\ <<req.endpoint, req.cluster>> \notin running
  /\ req.cluster # "NetworkCommissioning"
  /\ Answer(req, DispatchSingleClusterCommand(req.cluster, req.id, req.decodes))

\* An attribute in RAM is read from the storage, any other from its server.
Read(req) ==
  /\ req.op = "read" /\ Exists(config, req) /\ Permitted(config, req)
  /\ Answer(req, IF \/ Up(req.endpoint, req.cluster)
                    \/ \E a \in Attribute(config, req) : a.bytes > 0
                 THEN "Success" ELSE "UnsupportedAttribute")

Write(req) ==
  /\ req.op = "write" /\ Exists(config, req) /\ Permitted(config, req)
  /\ Answer(req, IF ~Writable(config, req) THEN "UnsupportedWrite"
                 ELSE IF Up(req.endpoint, req.cluster) THEN "Success"
                 ELSE "UnsupportedAttribute")

Handle(req) == /\ phase = "serving" /\ answer = None
               /\ \/ RefuseUnknown(req)
                  \/ RefuseAccess(req)
                  \/ InvokeOnInstance(req)
                  \/ InvokeByDispatch(req)
                  \/ Read(req)
                  \/ Write(req)

Reply == /\ answer # None
         /\ answer' = None
         /\ UNCHANGED <<config, phase, next, running, plugged, memory, writes>>

-----------------------------------------------------------------------------
\* What clients ask for: every attribute and every command of every row, on
\* rows of clients too, and one number that no cluster of the firmware uses.
Unused == 255

RequestsTo(s) ==
  [op : {"read", "write"}, endpoint : {s.endpoint}, cluster : {s.name},
   id : {a.id : a \in Range(s.attributes)} \cup {Unused},
   privilege : View..Administer]
  \cup
  [op : {"invoke"}, endpoint : {s.endpoint}, cluster : {s.name},
   id : s.accepted \cup {Unused}, privilege : View..Administer,
   decodes : BOOLEAN]

Requests == [c \in Configs |-> UNION {RequestsTo(s) : s \in Clusters[c]}]

Next == \/ InitCluster
        \/ InitPlugins
        \/ BeginShutdown
        \/ ShutdownCluster
        \/ Reboot
        \/ WriteAttribute
        \/ \E req \in Requests[config] : Handle(req)
        \/ Reply

Spec == Init /\ [][Next]_vars

-----------------------------------------------------------------------------
\* Every attribute write of a server stays inside the attribute storage.
TypeOK ==
  /\ config \in Configs
  /\ phase \in {"clusters", "plugins", "serving", "shutdown", "off"}
  /\ next \in 1..LastRow
  /\ running \subseteq Endpoints \X InitCases
  /\ plugged \in {{}, PluginsInit}
  /\ memory \in [Storage(config) -> Values]
  /\ writes \in 0..MaxWrites

AllRamAttributes == UNION {RamAttributes[c] : c \in Configs}

\* What a register holds: the value its bytes agree on.
Content(a) == IF a.config # config THEN 0
              ELSE IF \A b \in a.bytes : memory[b] = 0 THEN 0
              ELSE IF \A b \in a.bytes : memory[b] = 1 THEN 1 ELSE "torn"

Registers == INSTANCE AttributeRegisters
               WITH Attributes <- AllRamAttributes, Default <- 0,
                    registers <- [a \in AllRamAttributes |-> Content(a)]

\* The sizes and counts of endpoint_config.h give every RAM attribute bytes of
\* its own: writing one never changes or tears another.
RegistersSpec == Registers!Spec

-----------------------------------------------------------------------------
(* What the generated files have to agree on.                              *)

\* endpoint_config.h: the attributes fit in the bytes of their cluster, the
\* clusters in those of their endpoint, the endpoints in the storage.
SizesFit(c) ==
  LET t == TablesOf[c] IN
    /\ \A r \in DOMAIN t.clusters :
         PrefixSum(AttributeSizes(t, r), t.clusters[r].attributeCount)
           <= t.clusters[r].clusterSize
    /\ \A e \in Endpoints :
         PrefixSum(RowSizes(t, e), t.endpointTypes[e + 1].clusterCount)
           <= t.endpointTypes[e + 1].size
    /\ PrefixSum(EndpointSizes(t), Len(t.endpointTypes)) <= t.maxSize

\* Instances a server has to keep: its endpoints.
Instances(c, name) ==
  {<<s.endpoint, s.name>> : s \in {x \in Servers(c) : x.name = name}}

\* CodeDrivenInitShutdown.cpp, PluginApplicationCallbacks.h and gen_config.h:
\* each server is started by a case, with a place for each endpoint, or by its
\* plugin, and no endpoint has a server twice.
ServersCounted(c) ==
  /\ \A s \in Servers(c) :
       \/ s.name \in InitCases
       \/ s.name \in PluginServers \cap PluginsInit
  /\ \A s, u \in Servers(c) : s.endpoint = u.endpoint /\ s.name = u.name => s = u
  /\ \A name \in InitCases :
       Cardinality(Instances(c, name)) <= ServerEndpointCount[name]

\* When requests are served, each server cluster of the tables has somebody
\* behind it: InitCases, ServerEndpointCount and PluginsInit, generated into
\* three other files, leave no row out.
ServersStarted ==
  phase = "serving" =>
    \A s \in Servers(config) : Up(s.endpoint, s.name)

\* The shutdown stops every instance the start created.
NoneLeftRunning == phase = "off" => running = {}

-----------------------------------------------------------------------------
(* The access clauses of light_switch.matter, snippets/lit_icd and         *)
(* src_old/default_zap, from which access.h was generated.                 *)

Declared == [
  read |-> {<<"AccessControl", {0, 1}, Administer>>,
            <<"NetworkCommissioning", {0, 1, 5, 6, 7}, Administer>>,
            <<"OperationalCredentials", {0}, Administer>>,
            <<"IcdManagement", {3, 4}, Administer>>},
  write |-> {<<"Identify", {0}, Operate>>,
             <<"Binding", {0}, Manage>>,
             <<"AccessControl", {0, 1}, Administer>>,
             <<"BasicInformation", {5}, Manage>>,
             <<"BasicInformation", {6}, Administer>>,
             <<"OtaSoftwareUpdateRequestor", {0}, Administer>>,
             <<"GeneralCommissioning", {0}, Administer>>,
             <<"NetworkCommissioning", {4}, Administer>>,
             <<"GroupKeyManagement", {0}, Manage>>},
  invoke |-> {<<"Identify", {0}, Manage>>,
              <<"Groups", {0, 3, 4, 5}, Manage>>,
              <<"GeneralDiagnostics", {0}, Manage>>,
              <<"ThreadNetworkDiagnostics", {0}, Manage>>,
              <<"IcdManagement", {0, 2}, Manage>>,
              <<"OtaSoftwareUpdateRequestor", {0}, Administer>>,
              <<"GeneralCommissioning", {0, 2, 4}, Administer>>,
              <<"NetworkCommissioning", {0, 2, 3, 4, 6, 8}, Administer>>,
              <<"AdministratorCommissioning", 0..2, Administer>>,
              <<"OperationalCredentials", {0, 2, 4, 6, 7} \cup 9..13, Administer>>,
              <<"GroupKeyManagement", {0, 1, 3, 4}, Administer>>}]

Clauses(req) == {d \in Declared[req.op] : d[1] = req.cluster /\ req.id \in d[2]}

\* An attribute that is not declared "readonly" is in Declared.write.
Allowed(req) ==
  IF Clauses(req) # {} THEN \E d \in Clauses(req) : req.privilege >= d[3]
  ELSE \/ req.op = "read"
       \/ req.op = "invoke" /\ req.privilege >= Operate

\* access.h: for what the device can do, the privilege it asks for is the one
\* that is declared, and what is declared to be writable can be written.
AccessGenerated(c) ==
  /\ \A req \in Requests[c] :
       Exists(c, req) /\ (req.op = "write" => Writable(c, req))
         => (Permitted(c, req) <=> Allowed(req))
  /\ \A req \in Requests[c] :
       Exists(c, req) /\ req.op = "write" /\ Allowed(req) => Writable(c, req)

\* IMClusterCommandHandler.cpp: the servers that do not handle their commands
\* themselves have a case for each.
CommandsDispatched(c) ==
  \A s \in Servers(c) :
    s.accepted # {} /\ s.name \notin InitCases \cup {"NetworkCommissioning"}
      => /\ s.name \in DOMAIN TablesOf[c].cases
         /\ s.accepted \subseteq TablesOf[c].cases[s.name]

Consistent == {c \in Configs : /\ SizesFit(c)
                               /\ ServersCounted(c)
                               /\ AccessGenerated(c)
                               /\ CommandsDispatched(c)}

\* The files that ZAP generated for the data model agree with each other and
\* with its declaration, where the engine relies on it.
FilesAgree == config \in Consistent

\* Nobody gets more than the declaration allows.
AccessAsDeclared == answer.status = "Success" => Allowed(answer.request)

\* Whatever the device announces, an attribute of its list or a command of an
\* accepted list, it serves to those the declaration allows to ask for it.
AnnouncedServed ==
  (answer # None /\ Exists(config, answer.request) /\ Allowed(answer.request)) =>
    \/ answer.status = "Success"
    \/ /\ answer.request.op = "invoke" /\ ~answer.request.decodes
       /\ answer.status = "InvalidCommand"
=============================================================================
