CONSTANTS
    Requests = {r1, r2}
    Clusters = {c1}
    Install = Install
    NoOne = NoOne

SPECIFICATION Spec

INVARIANT CommittedVersionsArchived

CHECK_DEADLOCK FALSE
