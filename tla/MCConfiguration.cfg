CONSTANTS
  token = token
  aws = aws
  home = home
  control = control
  value = value
  garbled = garbled
  x = x
  y = y
  bad = bad
  Names <- MCNames
  Listed = {token}
  Prefixed = {aws}
  Control = {control}
  HostValues = {value, garbled}
  Garbled = {garbled}
  SetValues = {x, y}
  BadNames = {bad}
  BadValues = {bad}
  Files <- MCFiles
  Hosts <- MCHosts
  Lists <- MCLists
  Settings <- MCSettings
  Numbers <- MCNumbers
  Word = 16
  Headroom = 2
  MaxSets = 2
  MaxCalls = 3
  MaxChanges = 1
SPECIFICATION Spec
INVARIANTS
  TypeOK
  SecretsOnlyLate
  AllowlistSealed
  EnvironmentExact
  SettingsReach
  NprocHeadroom
