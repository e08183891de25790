SPECIFICATION AnalysisSpec
CONSTANTS
  NoInstance <- NoCallee
  NoDest <- NoHandle
  Instance <- Instances
  Sites <- AllSites
  Inputs <- Jobs
INVARIANT ChannelEndsMeet
