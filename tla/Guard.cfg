SPECIFICATION GuardSpec
CONSTANTS
  Quotes = {"wrong"}
  NoQuote = "no"
  NoOne = NoOne
  Length = 3
  Sessions <- MCSessions
  Reported <- MCClaims
CHECK_DEADLOCK FALSE
INVARIANTS NearestError RescuesMisplacedAnchor AnchorIgnoresModel
PROPERTIES GuardIdempotent
