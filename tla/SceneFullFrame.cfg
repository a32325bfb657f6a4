CONSTANTS
  QDepth = 2
  LevelMod = 2
  CountMod = 1
  MaxTris = 1
  CpuWrites = {"CMD_CFG", "CMD_PUSH", "FRAME_START"}
SPECIFICATION TryingSceneSpec
PROPERTIES
  FullFrameStarts
