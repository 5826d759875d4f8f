SPECIFICATION Spec
SYMMETRY Symmetry
CONSTANTS
  inbox = inbox
  a = a
  b = b
  c = c
  Names <- MCNames
  Paths <- MCPaths
  Targets <- MCTargets
  Inbox <- MCInbox
  Twin <- Same
  Like <- Same
  Messages = {m1}
  Requests = {r1, r2}
  Null = Null
INVARIANTS TypeOK RowsKeepUp
PROPERTY TargetOutlivesDeletion
