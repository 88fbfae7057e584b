SPECIFICATION SettingsSpec
CONSTANTS
  Agencies = {a1, a2}
  NoAgency = NoAgency
  Values = {v1, v2}
  Default = Default
  Savers = {s1, s2, s3}
INVARIANTS
  PolicyFollowsSettings
CHECK_DEADLOCK FALSE
