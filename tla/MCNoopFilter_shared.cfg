\* Two noop filters on two sources in one graph.
CONSTANTS
    f1 = f1
    f2 = f2
    s1 = s1
    s2 = s2
    None = None
    Filters <- TwoFilters
    Upstream <- TwoUpstreams
    UpstreamBatch = 2
    MaxNotifs = 2
    MaxAgain = 0
SPECIFICATION Spec
INVARIANT PassesOwnUpstream
