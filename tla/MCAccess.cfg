SPECIFICATION Spec
CONSTANTS
  Blank = ""
  Star = "*"
  NoLogin = "no login"
  Names <- MCNames
  Trim <- MCTrim
  Lower <- MCLower
  FirstLabel <- MCFirstLabel
  Words <- MCWords
  WordCaps <- MCWordCaps
  PlainEntries <- MCPlainEntries
  Tables <- MCTables
  FlagGrants <- MCFlagGrants
  PeerAnswers <- MCPeerAnswers
CHECK_DEADLOCK FALSE
INVARIANT GrantedIffWritten
INVARIANT CreatorIrrelevantForTagged
INVARIANT AdmittedMayAct
