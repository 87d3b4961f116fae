SPECIFICATION Spec
CONSTANTS
  SlugMax = 3
  TenantMax = 4
  BranchMax = 3
  HashLength = 2
  MaxTyped = 4
INVARIANTS NamesKeepToThemselves OneNameRule HashesAreKeys
