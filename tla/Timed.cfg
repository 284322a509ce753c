SPECIFICATION MCSpec
CONSTANTS
  MaxCount = 3
  EnableMsgs = {"send", "change", "eof"}
  Buttons = {"left", "right"}
  Hasty = FALSE
  ReArm = FALSE
  ReActivate = FALSE
  MaxInt = 32767
  MaxConns = 2
  MaxIds = 3
  MaxAsked = 2
  Block = 2
  Periods = {0, 1, 2, 700}
  Duties = {0, 50, 100, 120}
  Kinds = {"comfyui", "stablediffusion", "ollama"}
INVARIANTS
  FlagIsTruth
  TrainTicks
  NeverMidPulse
  ButtonNeverLatched
  GenSound
  ClientTrue
  SocketPolled
  PeersTrue
  StreamsTrue
  PanelTrue
  PeersTold
PROPERTIES
  EndsAtCount
  TrainEnds
  ButtonRepeatDies
  GenShotEnds
  ClientGivesUp
