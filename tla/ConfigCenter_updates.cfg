SPECIFICATION UpdatesSpec
CONSTANTS
  Params = {"MaxSize"}
  Values = {5, 6}
  Names = {"error", "verbose"}
  Confs <- Buffered
  Writers = {main, l1, l2}
  Holders = {h1}
  Traces = {FALSE}
  Masks = {TRUE}
  BufferSize = 2
  MaxEntries = 3
  Main = main
  Listeners = {l1, l2}
  Contents <- Full
  Local <- MCLocal
  MaxChanges = 3
INVARIANTS
  EntriesKept
  SettingsAgree
  ConfigIsLatest
  FieldsComeFromContents
PROPERTIES
  ContentReachesConfig
CHECK_DEADLOCK FALSE
