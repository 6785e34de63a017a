CONSTANTS
    MaxDims = 3
SPECIFICATION Spec
INVARIANTS
    NormalizedIsPermutation
    Old2NewPlacesAxes
