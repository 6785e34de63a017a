CONSTANTS
    MaxDims = 3
    i0 = i0  i1 = i1  i2 = i2  i3 = i3  i4 = i4  s0 = s0  s1 = s1  s2 = s2
    eSplit = eSplit  eMerge = eMerge  eSplitS = eSplitS
    IDs = {i0, i1, i2, i3, i4, s0, s1, s2}
    IdExprs = {eSplit, eMerge, eSplitS}
    Symbolic = {s0, s1, s2}
    Broadcast = {i3}
    Additional = {i3}
SPECIFICATION Spec
INVARIANTS
    NormalizedIsPermutation
    Old2NewPlacesAxes
    DomainsOfOneTensorValidate
    ValidatedDomainIsDerivedWhenChecked
