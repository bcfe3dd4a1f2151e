SPECIFICATION FairSpec
CONSTANTS
  m1 = m1
  m2 = m2
  ext = ext
  Method <- mMethod
  Hosted <- mHosted
  Listed <- mMethod
  Unreachable <- mUnreachable
  Pass <- FaultPass
  Meta <- FaultMeta
  Layers <- FaultLayers
  Normalize <- FaultNormalize
  Configs <- FaultConfigs
  Faulty = {"unflatten", "dce"}
  Fragile = {"dme"}
  Discovers = {}
  Rivals = {}
  MaxSurprises = 2
PROPERTY FailedMethodRestored
