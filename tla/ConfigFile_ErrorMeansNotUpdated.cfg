SPECIFICATION Spec
CONSTANTS
  good1 = good1
  good2 = good2
  invalid = invalid
  badpattern = badpattern
  badkey = badkey
  unchecked = unchecked
  Partial = Partial
  Absent = Absent
  Scaled = Scaled
  Configs = {good1, good2, invalid, unchecked, badpattern, badkey}
  Invalid = {invalid, unchecked}
  Unchecked = {unchecked}
  BadPatterns = {badpattern}
  BadKeys = {badkey}
  MaxFailures = 0
  MaxCrashes = 0
CHECK_DEADLOCK FALSE
INVARIANT
  ErrorMeansNotUpdated
