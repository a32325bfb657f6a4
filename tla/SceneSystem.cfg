CONSTANTS
  QDepth = 2
  LevelMod = 3
  CountMod = 2
  MaxTris = 2
  CpuWrites = {"LOAD", "RENDER", "ABORT", "RENDER_CFG", "CMD_CFG", "CMD_PUSH", "FRAME_START"}
  Depth = 1
  MaxSteps = 1
  MaxBeats = 1
  MaxFrames = 2
  RenderCfgs = {{}, {"AUTO_PRESENT"}}
  Stoppable = {{}}
SPECIFICATION PartSpec
INVARIANTS AccessServed PacketIntact CompletionsOwn CommandsArrive
PROPERTIES StaysDoubleBuffer WaitsEnd
