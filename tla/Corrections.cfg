SPECIFICATION FairSpec
CONSTANTS
  Quotes = {"wrong"}
  NoQuote = "no"
  NoOne = NoOne
  Absent = Absent
  Torn = Torn
  NoRow = NoRow
  MaxReports = 2
  Text <- MCText
  Requests <- MCRequests
  Short <- MCShort
  Claims <- MCClaims
  First = {1, 2, 4}
INVARIANTS TypeOK ResumeRestores
PROPERTIES PublishedRowsHold ExhaustiveWhileQuiet EventuallyAllDone
