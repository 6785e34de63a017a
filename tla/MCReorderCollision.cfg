CONSTANTS
    MaxDims = 2
SPECIFICATION Spec
INVARIANTS
    Old2NewHonoursRequest
