------------------------- MODULE AddressArrayUtils -------------------------
(***************************************************************************)
(* The array helpers of contracts/lib/AddressArrayUtils.sol on sequences.  *)
(* Solidity indexes from 0, a sequence from 1.                             *)
(***************************************************************************)
EXTENDS Integers, Sequences, Functions

contains(A, a) == a \in Range(A)

\* The first position holding a (meaningful only when contains(A, a)).
indexOf(A, a) ==
    CHOOSE i \in DOMAIN A : A[i] = a /\ \A j \in 1..(i - 1) : A[j] # a

hasDuplicate(A) == ~ IsInjective(A)

\* Removal that closes the gap and keeps the order (used on memory arrays).
remove(A, a) ==
    [k \in 1..(Len(A) - 1) |-> IF k < indexOf(A, a) THEN A[k] ELSE A[k + 1]]

\* Removal that moves the last element into the gap and pops the array: the
\* order is not kept.  The code reverts when a is absent.
removeStorage(A, a) ==
    [k \in 1..(Len(A) - 1) |-> IF k = indexOf(A, a) THEN A[Len(A)] ELSE A[k]]

extend(A, B) == A \o B
=============================================================================
