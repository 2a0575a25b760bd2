CONSTANTS
    w0 = w0  d1 = d1  d2 = d2  nil = nil
    Upstream = w0
    DownstreamList <- MCDownstreamList
    UpSeqs = {1, 2}
    Labelled = {1}
    NoParent = nil
    ClusterOf <- MCClusterOf
SPECIFICATION Spec
INVARIANT TypeOK
INVARIANT ParentVersionFirst
INVARIANT DownstreamsCreated
CHECK_DEADLOCK FALSE
