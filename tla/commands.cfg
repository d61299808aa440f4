\* Two attempts, one of them deleted, two commands, the master stopped or dying once.
SPECIFICATION FairSpec
CONSTANTS
  Ips <- MCIps
  Ports <- MCPorts
  Clouds <- MCClouds
  MaxDeletes = 1
  MaxCommands = 2
  MaxUpsets = 1
INVARIANTS TypeOK NeverTwice
PROPERTIES CommandSpecHolds RightDevice NoCrashInSession CommandsSettle ListensAgain
CHECK_DEADLOCK FALSE
