--------------------------- MODULE ResourceStates ---------------------------
(***************************************************************************)
(* The ordering of ResourceStates (operator/pkg/appstate/types/types.go),  *)
(* the sort.Interface that AppStatus.ResourceStates is sorted with, and    *)
(* the insertion sort sort.Sort runs on slices this short (Go's pdqsort    *)
(* falls back to insertionSort below 12 elements).  Strings are abstracted *)
(* by their rank: Go's string < is a total order, as < is on these sets.   *)
(***************************************************************************)
EXTENDS Naturals

CONSTANTS
    Kinds, Names, Namespaces,   \* ranks of the strings of each field
    N                           \* length of the slice being sorted

ResourceState == [kind : Kinds, name : Names, namespace : Namespaces]

VARIABLES
    input,    \* the slice handed to sort.Sort
    a,        \* the slice as the sort permutes it
    i,        \* outer loop of insertionSort
    j         \* inner loop of insertionSort

vars == <<input, a, i, j>>

(* ResourceStates.Less, as written.                                        *)
Less(s, x, y) ==
    \/ s[x].kind < s[y].kind
    \/ s[x].name < s[y].name
    \/ s[x].namespace < s[y].namespace

(* ResourceStates.Swap.                                                    *)
Swap(s, x, y) == [s EXCEPT ![x] = s[y], ![y] = s[x]]

TypeOK ==
    /\ input \in [1..N -> ResourceState]
    /\ a \in [1..N -> ResourceState]
    /\ i \in 2..(N + 1)
    /\ j \in 1..N

Init ==
    /\ input \in [1..N -> ResourceState]
    /\ a = input
    /\ i = 2
    /\ j = 2

(* for j := i; j > a && data.Less(j, j-1); j-- { data.Swap(j, j-1) }       *)
SwapDown ==
    /\ i <= N /\ j > 1 /\ Less(a, j, j - 1)
    /\ a' = Swap(a, j, j - 1)
    /\ j' = j - 1
    /\ UNCHANGED <<input, i>>

(* The inner loop stops; for i := a + 1; i < b; i++ moves on.              *)
NextElement ==
    /\ i <= N /\ (j > 1 => ~Less(a, j, j - 1))
    /\ i' = i + 1
    /\ j' = IF i < N THEN i + 1 ELSE j
    /\ UNCHANGED <<input, a>>

Next == SwapDown \/ NextElement

Spec == Init /\ [][Next]_vars /\ WF_vars(Next)
-----------------------------------------------------------------------------
(* Lexicographic order on (kind, name, namespace), as spec section 3       *)
(* requires for resource_states.                                           *)
LexLeq(x, y) ==
    \/ x.kind < y.kind
    \/ x.kind = y.kind /\ x.name < y.name
    \/ x.kind = y.kind /\ x.name = y.name /\ x.namespace <= y.namespace

(* Once sort.Sort returns, the resource states are in ascending            *)
(* (kind, name, namespace) order, whatever order they came in.             *)
SortedBySortInterface ==
    i > N => \A k \in 1..(N - 1) : LexLeq(a[k], a[k + 1])
=============================================================================
