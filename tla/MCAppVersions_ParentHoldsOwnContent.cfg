CONSTANTS
    Requests = {r1, r2}
    Clusters = {c1}
    Install = Install
    NoOne = NoOne

SPECIFICATION Spec
INVARIANT ParentHoldsOwnContent




CHECK_DEADLOCK FALSE
