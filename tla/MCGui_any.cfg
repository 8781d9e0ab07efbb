CONSTANTS
  Items = {"port", "in"}
  Incoming = {"in"}
  Lists = {"url", "file"}
  Local = {"file"}
  MaxCommands = 5
  Circumstances <- Worlds
SPECIFICATION Spec
INVARIANTS
  TypeOK
  AppliedIsFiled
  RulesFollow
  ButtonTells
