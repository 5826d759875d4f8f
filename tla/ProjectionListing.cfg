SPECIFICATION Spec
SYMMETRY Symmetry
CONSTANTS
  Requests = {r1, r2}
  Messages = {m1}
  Folders = {Inbox, Trash}
  Inbox = Inbox
  Trash = Trash
  Trashes = {Trash}
  FiledIn <- FiledInInbox
  Asked = {"list", "mark", "thread"}
  Ids = {i1, i2}
  MaxUid = 2
  MaxAnnounced = 1
  Null = Null
INVARIANT TypeOK
PROPERTY ListingRepairs
