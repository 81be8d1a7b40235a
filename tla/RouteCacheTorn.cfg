SPECIFICATION Spec
CONSTANTS
  Writers = {w1}
  Readers = {r1}
  Fields = {f1, f2}
  MaxWrites = 3
INVARIANT TearFree
