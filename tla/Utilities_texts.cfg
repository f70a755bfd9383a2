SPECIFICATION UtilitiesSpec
CONSTANTS
  Kinds <- RealKinds
  Keys <- RealKeys
  Texts <- SomeTexts
  Garbage = {0, 8, 16, 200}
  Bits = {512, 1024, 1030, 2048}
  SmallestKey = 1024
  Overheads = {11, 66}
  Sizes <- SomeSizes
  Bodies <- AllBodies
  Secrets <- SomeSecrets
  Contexts <- SomeContexts
  Settings <- SomeSettings
  Commands <- SomeCommands
  Configs <- MCConfigs
  Values <- MCValues
  Lower <- MCLower
  MaxRepeat = 1000
  MaxUpdates = 1
INVARIANTS
  RoundTrip
  RsaRoundTrip
  SignedIsHandled
  SecretComesBack
  NamedAreHidden
  ContentIsHidden
PROPERTY
  UpdatesEnd
CHECK_DEADLOCK FALSE
