\* One listed server and one typed, two codes, two hashes on their way.
CONSTANTS
  None = None
  Custom = Custom
  Listed = {s1}
  First = s1
  Addresses = {a1}
  Modes = {native, wasm}
  MaxCodes = 2
  MaxHashes = 2
SPECIFICATION Spec
INVARIANTS OnlineIsSelected LinkSettled ModeInStep LinkUnderWay
CHECK_DEADLOCK FALSE
