SPECIFICATION Spec
CONSTANTS
  name = name
  Names = {name}
  Addresses <- MCAddresses
  Urls <- MCUrls
  allowPrivateTargets = FALSE
  Limits <- MCLimits
  Timeouts = {1, 3}
  ConnectTimeout = 2
  MaxLookup = 1
INVARIANTS EngineTypeOK RedirectsBounded OnlyAllowedDialled SuccessWithinBudget StatusLineDecides
PROPERTY CheckEnds
