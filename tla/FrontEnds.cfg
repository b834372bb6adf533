SPECIFICATION FrontEndsSpec
CONSTANTS
  p1 = p1
  p2 = p2
  p3 = p3
  hello = hello
  bye = bye
  Texts <- MCTexts
  Peers <- MCPeers
  PeerName <- MCPeerName
  Sessions <- MCSessions
  Typed <- MCTyped
  Places <- MCPlaces
  Agents <- MCAgents
  PageWidths <- MCPageWidths
  HeroPeers = 4
  NoTokens = NoTokens
  Unreachable = Unreachable
  Unreadable = Unreadable
  Unanswered = Unanswered
INVARIANTS
  TypeOK
  PulsesFollowEdges
  AnswersUnderTheirQuestion
  AskingIsShown
  SettingsAreKept
PROPERTIES
  TypedEditsStay
  RequestsEnd
  DashboardConverges
CHECK_DEADLOCK FALSE
