CONSTANTS
  Daemon = {1, 2, 3}
  Seg <- OneSegment
  Msg = {"m1", "m2", "m3"}
  Sender <- MsgSender
  Service <- MsgService
  Parts <- MsgParts
  SLOTS = 4
  None = None
  MAX_REPS = 3
  MAX_FORM_REPS = 3
  Up = {1, 2}
  Load <- LoadOne
  ARQ = 3
  Window = 1
  Personal_window = 1
  MAX_SEQ_GAP = 2
  MAX_EVS_ROUNDS = 3
  MaxForms = 2
  MaxFaults = 1
  MaxRetrans = 0
  Delays = FALSE
  Garbage = {None}
  Starts = {"boot", "formed", "broken"}
  Sent <- SentBefore
  Held <- HeldAfter
SPECIFICATION Spec
INVARIANTS VirtualSynchrony SameMembership AgreedOrder
CHECK_DEADLOCK FALSE
