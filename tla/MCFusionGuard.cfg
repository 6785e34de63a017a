CONSTANTS
    Fusions = {f1, f2}
    NoFusion = NoFusion
    MaxDepth = 3
SPECIFICATION Spec
PROPERTY ImplementsScopedFusion
