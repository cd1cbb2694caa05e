CONSTANTS
  Capacity = 5
  Byte = {x, y}
SPECIFICATION Spec
SYMMETRY Symmetry
INVARIANTS TypeOK LayoutOK PostedSpaceFree EmptyTakesAll
PROPERTY RefinesByteFifo
