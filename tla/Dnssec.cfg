CONSTANTS
  Absent = Absent
  Enabled = TRUE
  Anchors <- MCAnchors
  Hash <- MCHash
  Responses <- MCResponses
  Honest <- MCHonest
  Agreeing <- MCAgreeing
  Contents <- MCContents
  KeyReplies <- MCKeyReplies
  DsReplies <- MCDsReplies
  MaxRequests = 2
SPECIFICATION DnssecSpec
CHECK_DEADLOCK FALSE
INVARIANTS  HonestIsServed
