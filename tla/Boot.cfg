SPECIFICATION FairSpec
CONSTANTS
  None = None
  Servers <- MCServers
  ToolsOf <- MCToolsOf
  BuiltIn = {"bash"}
  Runners <- MCRunners
INVARIANTS KeptIsComplete InUseIsOpen
PROPERTY ConnectsEnd
\* The server may be down or have failed.
CHECK_DEADLOCK FALSE
