SPECIFICATION Spec
CONSTANTS
  m1 = m1
  m2 = m2
  ext = ext
  Method <- mMethod
  Hosted <- mHosted
  Listed <- mMethod
  Unreachable <- mUnreachable
  Pass <- FixPass
  Meta <- FixMeta
  Layers <- FixLayers
  Normalize <- FixNormalize
  Configs <- FixConfigs
  Faulty = {}
  Fragile = {}
  Discovers = {"licm"}
  Rivals = {}
  MaxSurprises = 2
INVARIANT WorkIsDirty
