SPECIFICATION GatewaySpec
CONSTANTS
  GatewayCalls = {"g1", "g2"}
  Artifacts = {"a", "b"}
  Declared <- DeclaredV
  Expected <- ExpectedV
  Totals = {7, 10}
  Modes = {"none", "self_hosted"}
  SelfHosted = TRUE
  Pin <- PinV
  Versions <- VersionsV
CHECK_DEADLOCK FALSE
INVARIANT CeilingIsHard
