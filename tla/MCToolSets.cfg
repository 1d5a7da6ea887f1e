\* Two processes, two loads, one paid resource and two versions of its table; the
\* turn is in the first process.
SPECIFICATION ToolsSpec
CONSTANTS
  Resources = {audit}
  Procs = {p1, p2}
  Loads = {l1, l2}
  MaxEdits = 2
  Host = p1
  ServerTools = {server_read}
  MobileTools = {mobile_write}
  Fetch = x402_fetch
  Stranger = stranger
INVARIANTS
  ToolsTypeOK
  OfferedWorks
PROPERTIES
  InvalidateShows
