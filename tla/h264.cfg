CONSTANTS
  Mtu = 16
  HeaderLen = 12
  SeqMod = 8
  FirstSeq = 7
  Payloads <- MCPayloads
  Prefixes <- MCPrefixes
  Leads <- MCLeads
  MaxPieces = 4
SPECIFICATION H264Spec
INVARIANTS SplitInv OnePictureEach SendInv
CHECK_DEADLOCK FALSE
