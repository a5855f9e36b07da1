CONSTANTS
  Calls = {a, b, c}
  Seed = {a}
  Dialled = {b}
  Editors = {e1, e2}
  NoValue = {none}
SPECIFICATION AllowSpec
INVARIANT ConfirmedIsStored
INVARIANT TrustIsOperators
