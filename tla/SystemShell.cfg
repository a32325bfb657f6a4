CONSTANTS
  QDepth = 2
  LevelMod = 3
  CountMod = 2
  MaxTris = 1
  CpuWrites = {"LOAD", "RENDER", "ABORT", "RENDER_CFG", "CMD_CFG", "CMD_PUSH", "FRAME_START"}
  Depth = 2
  MaxSteps = 1
  MaxBeats = 1
  MaxFrames = 1
  RenderCfgs = {{}}
  Stoppable = {}
SPECIFICATION ShellSpec
INVARIANTS
  ShellAnswered
