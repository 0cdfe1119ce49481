CONSTANTS
  Client = {1, 2, 3}
  NameOf <- MCNameOf
  MAX_SESSIONS = 2
  MAX_SESSION_MESSAGES = 1
  MAX_LOCAL_GROUP_MEMBERS = 1
  WATER_MARK = 2
  Required = {}
  MaxRequests = 2
  None = None
SPECIFICATION SessSpec
INVARIANTS NoBugAlarm HandlerFinds NameStillOwned StraysOnlyByReuse StreamIntact
PROPERTIES KilledAreRemoved
CHECK_DEADLOCK FALSE
