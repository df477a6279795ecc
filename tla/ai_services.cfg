SPECIFICATION Spec
CONSTANTS
  blank = blank
  plain = plain
  spaced = spaced
  number = number
  other = other
  pieces = pieces
  limit = limit
  rule = rule
  date = date
  inject = inject
  Texts <- MCTexts
  Normal <- MCNormal
  Blank = {blank}
  Numbers <- MCNumbers
  Dates <- MCDates
  PolicyTerm <- MCPolicyTerm
  Adjoined <- MCAdjoined
  Instructs <- MCInstructs
  HardArtifacts = {"MACRO"}
  OtherArtifacts = {"COMMENT"}
  Quote = Quote
  Documents <- MCDocuments
  Assessments <- MCAssessments
  Timeout = 3
  Longest = 4
  Listings = {"configured", "content", "timeout", "http5xx"}
INVARIANTS TypeOK AllowIsEarned StaticEvidenceStands HighRiskIsAudited DiffIsComplete NumbersAccounted WordingIsReviewed UnjudgedIsReviewed RetriesAreBounded
PROPERTIES ScreeningEnds
CHECK_DEADLOCK FALSE
