SPECIFICATION Spec
CONSTANTS
  img1 = img1
  img2 = img2
  img3 = img3
  img4 = img4
  a = a
  b = b
  c = c
  Images = {img1, img2, img3, img4}
  Digests = {a, b, c}
  LayersOf <- Layers
  Nydus = {img4}
  Trusted = {img1, img2, img4}
  MaxConcurrent = 2
  Attempts = 2
  None = None
  Corrupt = Corrupt
  MaxPulls = 2
  MaxCrashes = 1
  MaxFails = 2
CHECK_DEADLOCK FALSE
INVARIANTS LayerDbSound MountsIntact MountsVerified
PROPERTIES ImplementsImageStore PullsEnd
