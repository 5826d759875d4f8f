SPECIFICATION FiltersSpec
CONSTANTS
  Cases <- MCCases
  Alphabet <- MCAlphabet
  Characters <- SieveCharacters
  MaxText = 3
  Inbox = "INBOX"
  Junk = "Junk"
  NoFolder = NoFolder
INVARIANT WildcardsAreLiteral
CHECK_DEADLOCK FALSE
