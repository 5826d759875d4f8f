SPECIFICATION Spec
SYMMETRY Symmetry
CONSTANTS
  Requests = {r1, r2}
  Messages = {m1, m2}
  Folders = {Inbox, Trash}
  Inbox = Inbox
  Trash = Trash
  Trashes = {Trash, Null}
  FiledIn <- FiledInInbox
  Asked = {"list", "move", "remove"}
  Ids = {i1, i2}
  MaxUid = 2
  MaxAnnounced = 1
  Null = Null
INVARIANT UidNamesItsMessage
PROPERTY DestroyedOnlyFromTrash
