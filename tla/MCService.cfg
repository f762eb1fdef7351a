SPECIFICATION Spec
CONSTANTS
  Procs <- MCProcs
  Bins <- MCBins
  V4 <- MCV4
  V6 <- MCV6
  Tailnet <- MCTailnet
  Loopbacks <- MCLoopbacks
  Home = "127.0.0.1"
  Lan = {"192.168.0.2"}
  DnsNames <- MCDnsNames
  Ports <- MCPorts
  Labels <- MCLabels
  Written <- MCWritten
  Managers = {"systemd", "launchd", "schtasks"}
  Edits <- MCEdits
  Nets <- MCNets
  OldBin = "old"
  HandOptions <- MCHandOptions
  MaxCommands = 2
  MaxFaults = 1
  MaxChanges = 1
INVARIANT AnswersToItsNames
PROPERTY InstallOk
PROPERTY UninstallOk
PROPERTY ServesInTheEnd
CHECK_DEADLOCK FALSE
