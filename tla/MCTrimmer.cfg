CONSTANTS
    NsPerS = 2
    SecPerDay = 4
    TzOffset = 1
    UIntMod = 8
    Params <- PassParams
    Upstreams <- PassUpstreams
    UpstreamBatch = 2
    MaxAgain = 1
SPECIFICATION Spec
INVARIANT MessagesReleased
PROPERTY CallReturns
