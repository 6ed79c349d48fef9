CONSTANTS
  Configs = {c0, c1, c2}
  Default = c0
  Invalid = Invalid
  MaxGeneration = 5
SPECIFICATION Spec
INVARIANTS
  LiveIsInFlash
  LoadFindsThisOrNext
 
