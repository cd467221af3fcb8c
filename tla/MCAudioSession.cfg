CONSTANTS
    Samples = {s1, s2, s3}
    Channels = {c1, c2, c3}
    NoNode = NoNode
SPECIFICATION Spec
INVARIANTS TypeOK SoundsLive SamplesOwned UninitOnce AudioFreed
CHECK_DEADLOCK FALSE
