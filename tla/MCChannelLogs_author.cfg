\* A subscriber publishes while the author authorizes; nothing fails.
SPECIFICATION Spec
CONSTANTS
  author = author
  reader = reader
  Author = author
  Subscribers = {reader}
  Parallel <- OneForTheAuthor
  Types = {"private"}
  Rights = {"ReadAndWrite"}
  Operations = {"add", "authorize"}
  MaxLogs = 2
  Faults = {}
  MaxFaults = 0
INVARIANT AuthorMissesNothing
CHECK_DEADLOCK FALSE
