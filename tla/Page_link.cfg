\* A session whose sources are gone, and a new link.
CONSTANTS
  None = None
  Custom = Custom
  Listed = {s1}
  First = s1
  Addresses = {a1}
  Modes = {native}
  MaxCodes = 2
  MaxHashes = 2
SPECIFICATION Spec
INVARIANTS NewLinkIsLive
CHECK_DEADLOCK FALSE
