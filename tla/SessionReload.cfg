\* Tokens of 15 minutes and 7 days, as the environment's defaults have them.
SPECIFICATION WebSpec
CONSTANTS
  People = {u1, u2}
  Nobody = Nobody
  Tabs = {w1, w2}
  AccessLife = 900
  RefreshLife = 604800
  Instants = {900, 604800, 900000}
INVARIANT
  ReloadKeepsSession
