SPECIFICATION ViewSpec
CONSTANTS
  v1 = v1
  v2 = v2
  wide = wide
  narrow = narrow
  Views = {v1, v2}
  Geometries = {wide, narrow}
  Size <- MCSize
  Nothing = nothing
  MaxSaves = 2
  MaxFaults = 2
INVARIANTS ValidFits HeightsFit
PROPERTIES ViewsAnswered PreviewImplementsCache
