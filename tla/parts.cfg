SPECIFICATION Spec
CONSTANTS
  Pids = {"p1", "p2"}
  NoPid = NoPid
  MaxDeaths = 2
  Files = {"b"}
  Suffixes = {"1", "2"}
  Hour = 2
  Owned = {"a"}
  Others = {"x"}
  MaxHits = 1
  MaxMinute = 2
  MaxCycles = 3
  TestTargets = 2
  TestFiles = 2
  Contents <- SomeContents
  Broken = Broken
  ChainDirs = {"c1", "c2"}
  NoDir = NoDir
  MaxChanges = 3
  BadName = BadName
  NoName = NoName
  Names = {n1, n2}
  Hosts = {h}
  MaxLines = 5
  Inputs <- MCInputs
INVARIANTS
  TypeOK
  PidFileTruthful
  ResyncSpares
  AlertsOnChange
  PushComplete
  StatusTruthful
  RestWatched
  RestSynced
  TagsDistinct
  TagsDocumented
  NotesUsedOnce
  DnsPassSeesHosts
PROPERTIES
  RemindedHourly
  NoGap
  ActivityMeansChange
  DaemonReturns
  EditsReach
CHECK_DEADLOCK FALSE
