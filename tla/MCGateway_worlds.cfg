\* One request of any kind, or two of the directory side by side.
SPECIFICATION WorldSpec
CONSTANTS
  Slots = {1, 2}
  Users = {"alice", "bob", "root"}
  Admins = {"root"}
  Guests = {"bob"}
  Names = {"door"}
  Containing <- ContainingNames
  MaxChannels = 4
  MaxRequests = 3
INVARIANTS TypeOK AuthorSubscribed HandlersPrepared
PROPERTIES CallsServed ChangedByOwner HiddenStaysHidden AnsweredAlone
CHECK_DEADLOCK FALSE
