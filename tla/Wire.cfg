SPECIFICATION Spec
CONSTANTS
  Cases <- AllCases
  Damage <- AllDamage
  Kinds = {"oneway", "request", "response"}
INVARIANTS
  SizeSuffices
  RoundTrip
  AcceptedDecodes
  HandlesOnce
  ValidatorsAgree
CHECK_DEADLOCK FALSE
