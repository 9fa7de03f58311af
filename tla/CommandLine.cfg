CONSTANTS
  Names = {"p", "path", "v", "h"}
  Values = {"", "project", "gone"}
  Existing = {"project"}
  NoValue = NoValue
  MaxArgs = 4
SPECIFICATION Spec
INVARIANTS
  TypeOK
  ParsedSoFar
  PathStated
  Heard
  DocumentedUse
CHECK_DEADLOCK FALSE
