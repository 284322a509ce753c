SPECIFICATION MCSpec
CONSTANTS
  MaxCount = 3
  EnableMsgs = {"send", "change", "eof"}
  Buttons = {"left", "right"}
  Hasty = TRUE
  ReArm = TRUE
  ReActivate = FALSE
  MaxInt = 32767
  MaxConns = 2
  MaxIds = 2
  MaxAsked = 2
  Block = 2
  Periods = {0, 1, 2, 700}
  Duties = {0, 50, 100, 120}
  Kinds = {"ollama"}
INVARIANT TasksArmedOnce
