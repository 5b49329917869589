SPECIFICATION Spec
CONSTANTS
  Rpc = {h1, h2}
  Timeout = 1
  FenceTimeout = 2
  None = None
 
PROPERTIES
  SilenceBlocksPromotion
  SilenceEntersSafeMode
  DetachedNeverFences
