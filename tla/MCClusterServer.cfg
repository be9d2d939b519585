SPECIFICATION Spec
CONSTANTS
  Configs <- GeneratedConfigs
  TablesOf <- GeneratedTables
  MaxWrites = 1
INVARIANTS
  TypeOK
  FilesAgree
  ServersStarted
  NoneLeftRunning
  AccessAsDeclared
  AnnouncedServed
PROPERTY
  RegistersSpec
