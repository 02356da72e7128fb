CONSTANTS
  Names <- MCNames
  Class <- MCClass
  Paths <- MCPaths
  PathClass <- MCPathClass
  Forms <- MCForms
  MaxChanges = 2
SPECIFICATION Spec
INVARIANTS
  SecretsHidden
  ValidJobsBuild
  TestPredictsRun
  SavedOrSaid
