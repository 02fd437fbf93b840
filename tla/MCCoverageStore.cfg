SPECIFICATION Spec
CONSTANTS
    n1 = n1
    n2 = n2
    i1 = i1
    i2 = i2
    a1 = a1
    f = f
    g = g
    Ids <- MCIds
    EraOf <- MCEraOf
    Fields <- MCFields
    MaxTick = 2
    None = None
SYMMETRY MCSymmetry
INVARIANT TypeOK
INVARIANT OneFieldPerName
INVARIANT PointerNamesNewest
INVARIANT OneNowcast
PROPERTY OnlyNowcastsLeave
PROPERTY CatalogueSpec
