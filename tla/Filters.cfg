SPECIFICATION FiltersSpec
CONSTANTS
  Cases <- MCCases
  Alphabet <- MCAlphabet
  Characters <- LikeCharacters
  MaxText = 3
  Inbox = "INBOX"
  Junk = "Junk"
  NoFolder = NoFolder
INVARIANTS FiltersTypeOK FiledAsMeant AnnouncedWhereStored PreviewAgrees
CHECK_DEADLOCK FALSE
