SPECIFICATION AnalysisSpec
CONSTANTS
  NoInstance <- NoCallee
  NoDest <- NoHandle
  Instance <- Instances
  Sites <- AllSites
  Inputs <- Jobs
INVARIANTS EveryCallEntered NothingElseSearched EnteredIsTranslated AtomicOperationsFound
  SharedMemoryShares ReportsAsAsked GroupsAreComponents KindsAgree ReceiversFound
  FollowedGuardsShare ReceiversFollowed
PROPERTY AnalysisReturns
