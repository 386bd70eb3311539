\* Three assets, a1 exposed; pages of at most three rows, and two paths in an answer.
SPECIFICATION Spec
CONSTANTS
  Kev = {"kev1"}
  External = {"a1"}
  PathLimit = 2
  Criticality <- MCCriticality
  Everything = "all"
  DefaultLimit = 2
  MaxLimit = 3
  Scopes <- MCScopes
INVARIANTS
  TypeOK
  PagesMissOnlyTies
  NearestEntryFound
  SevererRanksFirst
  BreachAgreesWithDays
