SPECIFICATION FairSpec
CONSTANTS
  a = a
  b = b
  Cfgs = {a, b}
  DefaultCfg = a
  CmdTopic = CmdTopic
  PerfTopic = PerfTopic
  NoTopic = NoTopic
  NSlots = 1
  NHist = 2
  Steps = {5}
  Requested <- MCRequested
  DefaultInterval = 2
  MaxClients = 2
  MaxCalls = 1
  MaxDrops = 1
  MaxCmds = 3
  MaxPublish = 1
  MaxFaults = 1
CONSTRAINT NoOverlap
INVARIANT ClientSound
INVARIANT StatusIsTrue
INVARIANT HistoryIsLatest
INVARIANT IntervalKept
INVARIANT HandleIsLive
PROPERTY ComesUp
