SPECIFICATION FrontEndsSpec
CONSTANTS
  p1 = p1
  p2 = p2
  p3 = p3
  hello = hello
  bye = bye
  Texts <- MCTexts
  Peers <- MCPeers
  PeerName <- MCPeerName
  Sessions <- MCOneSession
  Typed <- MCTyped
  Places <- MCPlaces
  Agents <- MCAgents
  PageWidths <- MCPageWidths
  HeroPeers = 4
  NoTokens = NoTokens
  Unreachable = Unreachable
  Unreadable = Unreadable
  Unanswered = Unanswered
PROPERTIES
  CountsAreDrawn
CHECK_DEADLOCK FALSE
