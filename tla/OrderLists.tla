----------------------------- MODULE OrderLists -----------------------------
(***************************************************************************)
(* Lists that order what is in a cache or a window, from which elements    *)
(* are taken out, and the bytes of what is in one.                         *)
(***************************************************************************)
EXTENDS Integers, Sequences, FiniteSets

\* An element is in a list; no element is in it twice.
Lists(order, x) == \E i \in 1 .. Len(order) : order[i] = x
Once(order) == \A i, j \in 1 .. Len(order) : order[i] = order[j] => i = j

\* The places of the elements that stay.
Staying(order, gone) == {i \in 1 .. Len(order) : order[i] \notin gone}

\* How many of them are not behind a place.
Rank(order, gone, i) == Cardinality({j \in Staying(order, gone) : j <= i})

\* The places that stay, from the first to the last.
PlacesLeft(order, gone) ==
    [n \in 1 .. Cardinality(Staying(order, gone)) |->
        CHOOSE i \in Staying(order, gone) : Rank(order, gone, i) = n]

\* What is left of a list without the elements of a set, in the order it had.
\* (SelectSeq says the same, by a recursion that proofs cannot expand.)
WithoutAll(order, gone) ==
    LET place == PlacesLeft(order, gone) IN [n \in DOMAIN place |-> order[place[n]]]

\* An element is put at the end, for others that go.
PutLast(order, gone, x) == Append(WithoutAll(order, gone), x)

\* The sum of the sizes of the elements of a set, as the number of their bytes.
\* (A fold says the same, by a recursion that proofs cannot expand.)
ByteSet(S, size) == UNION {{x} \X (1 .. size[x]) : x \in S}
TotalOf(S, size) == Cardinality(ByteSet(S, size))
=============================================================================
