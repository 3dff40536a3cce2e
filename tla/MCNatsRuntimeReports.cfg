\* Is every long outage reported?
CONSTANTS
  MaxConnectAttempts = 3
  MaxSetupAttempts = 2
  ReportAfter = 1
  MaxOutages = 2
  MaxLaunches = 1
SPECIFICATION Spec
INVARIANT EachOutageIsReported
