CONSTANTS
  Daemon = {1, 2, 3}
  Seg <- TwoSegments
  Msg = {"m1", "m2"}
  Sender <- MsgSender
  Service <- MsgService
  Parts <- MsgParts
  SLOTS = 4
  None = None
  MAX_REPS = 3
  MAX_FORM_REPS = 3
  Up = {1, 2, 3}
  Load <- LoadTwo
  ARQ = 3
  Window = 1
  Personal_window = 1
  MAX_SEQ_GAP = 2
  MAX_EVS_ROUNDS = 3
  MaxForms = 0
  MaxFaults = 1
  MaxRetrans = 3
  Delays = FALSE
  Garbage = {None}
  Starts = {"formed"}
  Sent <- NoSent
  Held <- HeldAfter
SPECIFICATION FairSpec
INVARIANTS SeqUnique SafeIsStable
PROPERTIES AllDeliver
CHECK_DEADLOCK FALSE
