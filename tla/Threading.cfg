SPECIFICATION FairSpec
CONSTANTS
  Inbox = Inbox
  Sent = Sent
  m0 = m0
  m1 = m1
  m2 = m2
  Messages <- MCMessages
  inReplyTo <- MCInReplyTo
  Folders = {Inbox, Sent}
  conversation <- MCConversation
  Copies <- MCCopies
  Announced <- MCAnnounced
  Requests = {r1, r2}
  MaxRemovals = 1
  MaxFailures = 1
  Null = Null
INVARIANTS TypeOK OpenedConversation
PROPERTY ThreadsConverge
