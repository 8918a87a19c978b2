CONSTANTS
    NsPerS = 2
    SecPerDay = 4
    TzOffset = 1
    UIntMod = 8
    Params <- BoundsParams
    Upstreams <- BoundsUpstreams
    UpstreamBatch = 2
    MaxAgain = 0
SPECIFICATION Spec
INVARIANT BoundsAsIntended
