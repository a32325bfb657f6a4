CONSTANTS
  Depth = 2
  MaxSteps = 2
  MaxBeats = 2
  MaxFrames = 1
  SceneBusy = {TRUE, FALSE}
  QDepth = 2
  LevelMod = 3
  CountMod = 1
  MaxTris = 1
  CpuWrites = {"LOAD", "RENDER", "ABORT", "SOFT_RESET", "RENDER_CFG", "CMD_CFG", "CMD_PUSH", "FRAME_START"}
SPECIFICATION BlocksSpec
INVARIANTS QueueSound PresentAfterRetire RasterSound NoLateCommand
  AnswersSound PipelineSound PacketExclusive DrawServed PushKept
PROPERTIES FrontUntouched FramesRetire
