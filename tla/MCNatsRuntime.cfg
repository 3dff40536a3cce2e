\* The lifespan with its connection: three attempts, a threshold of one, two outages.
CONSTANTS
  MaxConnectAttempts = 3
  MaxSetupAttempts = 2
  ReportAfter = 1
  MaxOutages = 2
  MaxLaunches = 2
SPECIFICATION FairSpec
INVARIANTS TypeOK ConsumerHasDurable ConsumerStopsFirst NothingOutlivesShutdown LongOutageIsReported OneReportPerOutage
PROPERTY LifespanProceeds
