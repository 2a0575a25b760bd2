CONSTANTS
    Kinds = {1, 2}
    Names = {1, 2}
    Namespaces = {1}
    N = 3

SPECIFICATION Spec

INVARIANT SortedBySortInterface

CHECK_DEADLOCK FALSE
