---- MODULE ListRows ----
(***************************************************************************)
(* The rows of an account's listing and the order its pages go by, which   *)
(* Listing and Statement share.                                            *)
(***************************************************************************)
EXTENDS Integers, FiniteSets

CONSTANTS
    Id,             \* row UUIDs, as numbers: ORDER BY compares them
    Time,           \* the instants rows are created at
    Limit,          \* the limit the client asks for
    Start,          \* no cursor: the walk has not begun
    End             \* next_cursor was null

ASSUME ListingAssumption ==
    /\ Id \subseteq Nat /\ Time \subseteq Nat
    /\ Limit \in Nat \ {0}
    /\ {Start, End} \cap [at : Time, id : Id] = {}
    /\ Start # End

ListedRow == [at : Time, id : Id]

(* ORDER BY created_at DESC, id DESC *)
Before(r, s) == r.at > s.at \/ (r.at = s.at /\ r.id > s.id)

(* LIMIT n *)
Top(n, S) == {r \in S : Cardinality({q \in S : Before(q, r)}) < n}
====
