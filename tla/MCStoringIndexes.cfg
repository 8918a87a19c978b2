\* Two sequences and a variant over three target integers.
CONSTANTS
    FT <- MCFT
    Scopes <- MCScopes
SPECIFICATION Spec
INVARIANT StoredIndexesConsistent
