SPECIFICATION Spec
CONSTANTS
  Keys = {1, 2}
  Kinds = {"object", "array", "scalar", "text", "bigint", "huge",
           "badnumber", "badtoken", "strange", "torn"}
  MaxValues = 4
  Tails = {"none", "other", "bracket"}
  MaxDepth = 2
  NoSlot = 99
  Requests <- MCRequests
  Limits <- MCLimits
  NodeBytes = 2
  EdgeBytes = 1
  TextLength = 2
  Ops = {"select", "binary", "row", "streamed", "decode"}
  MaxCalls = 2
INVARIANT BigIntegersNamed
