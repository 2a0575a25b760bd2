CONSTANTS
    Requests = {r1, r2, r3}
    Clusters = {c1, c2}
    Install = Install
    NoOne = NoOne

SPECIFICATION Spec

INVARIANT TypeOK
INVARIANT DownstreamSequencing

CHECK_DEADLOCK FALSE
