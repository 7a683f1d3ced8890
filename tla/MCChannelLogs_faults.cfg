\* Every kind of channel and of request, with rejected calls and restarts.
SPECIFICATION Spec
CONSTANTS
  author = author
  reader = reader
  Author = author
  Subscribers = {reader}
  Parallel <- OneForTheAuthor
  Types = {"private", "privatePlus", "public"}
  Rights = {"Read", "ReadAndWrite", "Write"}
  Operations = {"get", "add", "reimport", "validate", "authorize", "revoke"}
  MaxLogs = 2
  Faults = {"fail", "crash"}
  MaxFaults = 1
INVARIANTS TypeOK CacheExact NothingFetchedTwice OnlyOwnLogsAhead AddedLogsValidate AnswersExact PagesExact
PROPERTIES StateNeverRewinds
CHECK_DEADLOCK FALSE
