---- MODULE ListingProofs ----
(***************************************************************************)
(* What a walk through an account's pages promises, proved for every set   *)
(* of ids and instants and every limit.                                    *)
(***************************************************************************)
EXTENDS Listing, TLAPS, FiniteSetTheorems, WellFoundedInduction

(* The rows of S that come before r in the listing's order. *)
Above(S, r) == {q \in S : Before(q, r)}

(* The order of the pages is strict and total. *)
LEMMA BeforeTransitive ==
    ASSUME NEW r \in ListedRow, NEW q \in ListedRow, NEW s \in ListedRow,
           Before(r, q), Before(q, s)
    PROVE  Before(r, s) /\ r # s
<1>1. /\ r.at \in Nat /\ q.at \in Nat /\ s.at \in Nat
      /\ r.id \in Nat /\ q.id \in Nat /\ s.id \in Nat
    BY ListingAssumption DEF ListedRow
<1> QED BY <1>1 DEF Before

(* Two different rows are one before the other: ids break the ties. *)
LEMMA BeforeTotal ==
    ASSUME NEW r \in ListedRow, NEW q \in ListedRow, r # q
    PROVE  Before(r, q) \/ Before(q, r)
<1>1. /\ r.at \in Nat /\ q.at \in Nat /\ r.id \in Nat /\ q.id \in Nat
    BY ListingAssumption DEF ListedRow
<1>2. r.at # q.at \/ r.id # q.id
    BY DEF ListedRow
<1> QED BY <1>1, <1>2 DEF Before

(* No row comes before itself. *)
LEMMA BeforeStrict ==
    ASSUME NEW r \in ListedRow
    PROVE  ~ Before(r, r)
<1>1. r.at \in Nat /\ r.id \in Nat
    BY ListingAssumption DEF ListedRow
<1> QED BY <1>1 DEF Before

(* A row counts more rows above it than any row above it does. *)
LEMMA RankGrows ==
    ASSUME NEW S \in SUBSET ListedRow, IsFiniteSet(S),
           NEW q \in S, NEW r \in S, Before(q, r)
    PROVE  /\ Cardinality(Above(S, q)) \in Nat
           /\ Cardinality(Above(S, r)) \in Nat
           /\ Cardinality(Above(S, q)) < Cardinality(Above(S, r))
<1>1. IsFiniteSet(Above(S, q)) /\ IsFiniteSet(Above(S, r))
    BY FS_Subset DEF Above
<1>2. Above(S, q) \subseteq Above(S, r)
    BY BeforeTransitive DEF Above
<1>3. q \in Above(S, r) /\ q \notin Above(S, q)
    BY BeforeStrict DEF Above
<1>4. Cardinality(Above(S, q)) \in Nat /\ Cardinality(Above(S, r)) \in Nat
    BY <1>1, FS_CardinalityType
<1>5. Cardinality(Above(S, q)) <= Cardinality(Above(S, r))
    BY <1>1, <1>2, FS_Subset
<1>6. Cardinality(Above(S, q)) # Cardinality(Above(S, r))
    BY <1>1, <1>2, <1>3, FS_Subset
<1> QED BY <1>4, <1>5, <1>6

(* LIMIT n takes from the top: with a row, every row above it. *)
LEMMA TopClosed ==
    ASSUME NEW n \in Nat, NEW S \in SUBSET ListedRow, IsFiniteSet(S),
           NEW r \in Top(n, S), NEW q \in S, Before(q, r)
    PROVE  q \in Top(n, S)
<1>1. r \in S /\ Cardinality(Above(S, r)) < n
    BY DEF Top, Above
<1>2. Cardinality(Above(S, q)) < n
    BY <1>1, RankGrows
<1> QED BY <1>2 DEF Top, Above

(* When limit + 1 rows are not to be had, the page holds all there are. *)
LEMMA ShortPageIsAll ==
    ASSUME NEW n \in Nat, NEW S \in SUBSET ListedRow, IsFiniteSet(S),
           ~ Cardinality(Top(n + 1, S)) > n
    PROVE  Top(n, S) = S
<1> DEFINE rank(r) == Cardinality(Above(S, r))
           Rest == {r \in S : ~ rank(r) < n}
           Ranks == {rank(r) : r \in Rest}
<1>1. \A r \in S : IsFiniteSet(Above(S, r)) /\ rank(r) \in Nat
    BY FS_Subset, FS_CardinalityType DEF Above
<1>2. SUFFICES ASSUME Rest # {} PROVE FALSE
    BY DEF Top, Above
<1>3. PICK k \in Ranks : \A j \in Ranks : ~ j < k
    <2>1. Ranks \subseteq Nat /\ Ranks # {}
        BY <1>1, <1>2
    <2>2. IsWellFoundedOn(OpToRel(<, Nat), Nat)
        BY NatLessThanWellFounded
    <2> HIDE DEF Ranks
    <2>3. PICK k \in Ranks : \A j \in Ranks : <<j, k>> \notin OpToRel(<, Nat)
        BY <2>1, <2>2, WFMin
    <2> QED BY <2>1, <2>3 DEF OpToRel
<1>4. PICK r \in Rest : k = rank(r)
    OBVIOUS
<1>5. Above(S, r) \subseteq Top(n, S)
    <2> SUFFICES ASSUME NEW q \in Above(S, r) PROVE q \in Top(n, S)
        OBVIOUS
    <2>1. q \in S /\ Before(q, r)
        BY DEF Above
    <2>2. rank(q) < rank(r)
        BY <2>1, RankGrows
    <2>3. q \notin Rest
        BY <2>2, <1>3, <1>4
    <2> QED BY <2>1, <2>3 DEF Top, Above
<1>6. Top(n, S) \subseteq Top(n + 1, S)
    <2>1. \A q \in S : rank(q) < n => rank(q) < n + 1
        BY <1>1
    <2> QED BY <2>1 DEF Top, Above
<1>7. /\ IsFiniteSet(Top(n + 1, S))
      /\ Cardinality(Top(n + 1, S)) \in Nat
    BY FS_Subset, FS_CardinalityType DEF Top
<1>8. rank(r) <= Cardinality(Top(n + 1, S))
    BY <1>5, <1>6, <1>7, FS_Subset
<1>9. rank(r) = n
    BY <1>1, <1>4, <1>7, <1>8
<1>10. r \in Top(n + 1, S)
    BY <1>4, <1>9 DEF Top, Above
<1>11. r \notin Above(S, r)
    BY BeforeStrict, <1>4 DEF Above
<1>12. Above(S, r) # Top(n + 1, S)
    BY <1>10, <1>11
<1>13. rank(r) # Cardinality(Top(n + 1, S))
    BY <1>5, <1>6, <1>7, <1>12, FS_Subset
<1> QED BY <1>1, <1>4, <1>7, <1>8, <1>9, <1>13

(* When they are, some row comes after the page's last one. *)
LEMMA FullPageIsNotAll ==
    ASSUME NEW n \in Nat \ {0}, NEW S \in SUBSET ListedRow, IsFiniteSet(S),
           Cardinality(Top(n + 1, S)) > n,
           NEW l \in Top(n, S), \A q \in Top(n, S) \ {l} : Before(q, l)
    PROVE  \E r \in S : Before(l, r)
<1>1. l \in S /\ Cardinality(Above(S, l)) < n /\ IsFiniteSet(Above(S, l))
    BY FS_Subset DEF Top, Above
<1>2. Cardinality(Above(S, l)) \in Nat
    BY <1>1, FS_CardinalityType
<1>3. l \notin Above(S, l)
    BY <1>1, BeforeStrict DEF Above
<1>4. /\ IsFiniteSet(Above(S, l) \cup {l})
      /\ Cardinality(Above(S, l) \cup {l}) = Cardinality(Above(S, l)) + 1
    BY <1>1, <1>3, FS_AddElement
<1>5. Cardinality(Above(S, l) \cup {l}) <= n
    BY <1>1, <1>2, <1>4
<1>6. PICK r \in Top(n + 1, S) : r \notin Above(S, l) \cup {l}
    <2> SUFFICES ASSUME Top(n + 1, S) \subseteq Above(S, l) \cup {l}
                 PROVE  FALSE
        OBVIOUS
    <2>1. Cardinality(Top(n + 1, S)) <= Cardinality(Above(S, l) \cup {l})
        BY <1>4, FS_Subset
    <2>2. Cardinality(Top(n + 1, S)) \in Nat
        BY FS_Subset, FS_CardinalityType DEF Top
    <2> QED BY <2>1, <2>2, <1>2, <1>4, <1>5
<1>7. r \in S /\ r # l /\ ~ Before(r, l)
    BY <1>6 DEF Top, Above
<1> QED BY <1>1, <1>7, BeforeTotal

----------------------------------------------------------------------------

(* The invariant: the cursor is the last row of the page, a row that was
   there from the start and was not returned yet comes after it, and rows
   committed since are no older than those. *)
CursorIsLast ==
    cursor \in rows => /\ cursor \in page
                       /\ \A r \in page \ {cursor} : Before(r, cursor)

AheadOfCursor ==
    \A r \in atStart \ Seen : cursor \in rows /\ Before(cursor, r)

LateIsLater == \A r \in rows \ atStart, q \in atStart : q.at <= r.at

Inv ==
    /\ TypeOK
    /\ CursorIsLast
    /\ AheadOfCursor
    /\ LateIsLater
    /\ InOrder
    /\ LateOnlyByTie
    /\ MoreIsMore

(* A row is neither of the two marks a cursor can be. *)
LEMMA CursorIsNoRow ==
    ASSUME rows \subseteq ListedRow
    PROVE  Start \notin rows /\ End \notin rows
BY ListingAssumption DEF ListedRow

(* What a page of the rows S leaves to be said of the cursor. *)
LEMMA Returned ==
    ASSUME Inv, NEW S \in SUBSET rows, Return(S), UNCHANGED rows
    PROVE  /\ page' \subseteq S
           /\ cursor' \in rows \cup {End}
           /\ CursorIsLast'
           /\ \A r \in S \ page' : cursor' \in rows /\ Before(cursor', r)
           /\ MoreIsMore'
<1>1. /\ S \in SUBSET ListedRow /\ IsFiniteSet(S)
      /\ rows \subseteq ListedRow
    BY FS_Subset DEF Inv, TypeOK
<1>2. Start \notin rows /\ End \notin rows
    BY <1>1, CursorIsNoRow
<1>3. Limit \in Nat \ {0}
    BY ListingAssumption
<1>4. page' = Top(Limit, S) /\ page' \subseteq S /\ rows' = rows
    BY DEF Return, Top
<1>5. CASE Cardinality(Top(Limit + 1, S)) > Limit
    <2>1. /\ cursor' \in page'
          /\ \A q \in page' \ {cursor'} : Before(q, cursor')
        BY <1>5 DEF Return
    <2>2. \E r \in S : Before(cursor', r)
        BY <1>1, <1>3, <1>4, <1>5, <2>1, FullPageIsNotAll
    <2>3. Below(cursor)' # {}
        BY <2>2, <1>4 DEF Below
    <2>4. \A r \in S \ page' : Before(cursor', r)
        <3> SUFFICES ASSUME NEW r \in S \ page' PROVE Before(cursor', r)
            OBVIOUS
        <3>1. cursor' \in ListedRow /\ r \in ListedRow /\ r # cursor'
            BY <1>1, <1>4, <2>1
        <3>2. ~ Before(r, cursor')
            BY <1>1, <1>3, <1>4, <2>1, TopClosed
        <3> QED BY <3>1, <3>2, BeforeTotal
    <2>5. CursorIsLast'
        BY <2>1 DEF CursorIsLast
    <2>6. MoreIsMore'
        BY <2>3 DEF MoreIsMore
    <2> QED BY <1>4, <2>1, <2>4, <2>5, <2>6
<1>6. CASE ~ Cardinality(Top(Limit + 1, S)) > Limit
    <2>1. cursor' = End
        BY <1>6 DEF Return
    <2>2. page' = S
        BY <1>1, <1>3, <1>4, <1>6, ShortPageIsAll
    <2>3. CursorIsLast' /\ MoreIsMore'
        BY <1>2, <1>4, <2>1 DEF CursorIsLast, MoreIsMore
    <2> QED BY <2>1, <2>2, <2>3
<1> QED BY <1>5, <1>6

(* A walk that begins has the first page and no debts. *)
LEMMA FirstPageInv ==
    ASSUME Inv, FirstPage
    PROVE  Inv'
<1>1. /\ rows' = rows /\ atStart' = rows /\ walk' = {} /\ Return(rows)
    BY DEF FirstPage
<1>2. /\ page' \subseteq rows /\ cursor' \in rows \cup {End}
      /\ CursorIsLast'
      /\ \A r \in rows \ page' : cursor' \in rows /\ Before(cursor', r)
      /\ MoreIsMore'
    BY <1>1, Returned
<1>3. TypeOK'
    BY <1>1, <1>2 DEF Inv, TypeOK, Seen
<1>4. AheadOfCursor' /\ LateIsLater' /\ InOrder' /\ LateOnlyByTie'
    BY <1>1, <1>2 DEF AheadOfCursor, LateIsLater, InOrder, LateOnlyByTie, Seen
<1> QED BY <1>2, <1>3, <1>4 DEF Inv

(* The next page continues below the cursor. *)
LEMMA NextPageInv ==
    ASSUME Inv, NextPage
    PROVE  Inv'
<1>1. /\ rows' = rows /\ atStart' = atStart /\ walk' = walk \cup page
      /\ Return(Below(cursor)) /\ Below(cursor) \subseteq rows
      /\ cursor \in rows
    BY DEF NextPage, Inv, TypeOK, Below
<1>2. /\ page' \subseteq Below(cursor) /\ cursor' \in rows \cup {End}
      /\ CursorIsLast'
      /\ \A r \in Below(cursor) \ page' :
            cursor' \in rows /\ Before(cursor', r)
      /\ MoreIsMore'
    BY <1>1, Returned
<1>3. Seen' = Seen \cup page'
    BY <1>1 DEF Seen
<1>4. TypeOK'
    BY <1>1, <1>2, <1>3 DEF Inv, TypeOK
<1>5. AheadOfCursor'
    BY <1>1, <1>2, <1>3 DEF Inv, AheadOfCursor, Below, TypeOK
<1>6. LateIsLater'
    BY <1>1 DEF Inv, LateIsLater
<1>7. InOrder'
    <2> SUFFICES ASSUME NEW r \in walk \cup page, NEW s \in page'
                 PROVE  Before(r, s)
        BY <1>1 DEF InOrder
    <2>1. Before(cursor, s)
        BY <1>2 DEF Below
    <2>2. r = cursor \/ Before(r, cursor)
        BY <1>1 DEF Inv, CursorIsLast, InOrder
    <2>3. r \in ListedRow /\ s \in ListedRow /\ cursor \in ListedRow
        BY <1>1, <1>2 DEF Inv, TypeOK, Seen
    <2> QED BY <2>1, <2>2, <2>3, BeforeTransitive
<1>8. LateOnlyByTie'
    <2> SUFFICES ASSUME NEW r \in (Seen \cup page') \ atStart
                 PROVE  \E q \in (Seen \cup page') \cap atStart : q.at = r.at
        BY <1>1, <1>3 DEF LateOnlyByTie
    <2>1. CASE r \in Seen
        BY <2>1 DEF Inv, LateOnlyByTie
    <2>2. CASE r \in page'
        <3>1. r \in rows \ atStart /\ Before(cursor, r)
            BY <1>1, <1>2, <2>2 DEF Below
        <3>2. PICK q \in Seen \cap atStart : q.at = cursor.at
            BY <1>1 DEF Inv, LateOnlyByTie, CursorIsLast, Seen
        <3>3. q.at <= r.at
            BY <3>1, <3>2 DEF Inv, LateIsLater
        <3>4. cursor.at >= r.at
            <4>1. cursor \in ListedRow /\ r \in ListedRow
                BY <1>1, <3>1 DEF Inv, TypeOK
            <4>2. cursor.at \in Nat /\ r.at \in Nat
                BY <4>1, ListingAssumption DEF ListedRow
            <4> QED BY <3>1, <4>2 DEF Before
        <3>5. q.at \in Nat /\ r.at \in Nat
            <4>1. q \in ListedRow /\ r \in ListedRow
                BY <3>1, <3>2 DEF Inv, TypeOK
            <4> QED BY <4>1, ListingAssumption DEF ListedRow
        <3>6. q.at = r.at
            BY <3>2, <3>3, <3>4, <3>5
        <3> QED BY <3>2, <3>6
    <2> QED BY <2>1, <2>2
<1> QED BY <1>2, <1>4, <1>5, <1>6, <1>7, <1>8 DEF Inv

(* A row posted now is before all others, so no walk under way meets it
   but among rows of its own instant. *)
LEMMA PostInv ==
    ASSUME Inv, NEW n \in ListedRow, Post(n)
    PROVE  Inv'
<1>1. /\ rows' = rows \cup {n} /\ UNCHANGED reader
      /\ \A q \in rows : q.at <= n.at /\ q.id # n.id
    BY DEF Post
<1>2. n \notin rows /\ n \notin atStart /\ n \notin Seen
    BY <1>1 DEF Inv, TypeOK
<1>3. /\ cursor' = cursor /\ page' = page /\ walk' = walk
      /\ atStart' = atStart /\ Seen' = Seen
    BY <1>1 DEF reader, Seen
<1>4. IsFiniteSet(rows')
    BY <1>1, FS_AddElement DEF Inv, TypeOK
<1>5. TypeOK'
    BY <1>1, <1>3, <1>4 DEF Inv, TypeOK
<1>6. cursor \in rows' => cursor \in rows
    BY <1>1, ListingAssumption DEF Inv, TypeOK, ListedRow
<1>7. CursorIsLast' /\ AheadOfCursor'
    BY <1>1, <1>3, <1>6 DEF Inv, CursorIsLast, AheadOfCursor
<1>8. LateIsLater'
    BY <1>1, <1>3 DEF Inv, LateIsLater, TypeOK
<1>9. InOrder' /\ LateOnlyByTie'
    BY <1>3 DEF Inv, InOrder, LateOnlyByTie
<1>10. MoreIsMore'
    BY <1>1, <1>3 DEF Inv, MoreIsMore, Below
<1> QED BY <1>5, <1>7, <1>8, <1>9, <1>10 DEF Inv

(* Every walk keeps the invariant, whatever is committed meanwhile. *)
THEOREM Invariance == Spec => []Inv
<1>1. Init => Inv
    <2> SUFFICES ASSUME Init PROVE Inv
        OBVIOUS
    <2>1. IsFiniteSet(rows)
        BY FS_EmptySet DEF Init
    <2> QED BY <2>1 DEF Init, Inv, TypeOK, Seen, CursorIsLast, AheadOfCursor,
               LateIsLater, InOrder, LateOnlyByTie, MoreIsMore
<1>2. Inv /\ [Next]_vars => Inv'
    <2> SUFFICES ASSUME Inv, [Next]_vars PROVE Inv'
        OBVIOUS
    <2>1. CASE FirstPage
        BY <2>1, FirstPageInv
    <2>2. CASE NextPage
        BY <2>2, NextPageInv
    <2>3. CASE \E r \in ListedRow : Post(r)
        BY <2>3, PostInv
    <2>4. CASE UNCHANGED vars
        BY <2>4 DEF vars, Inv, TypeOK, Seen, CursorIsLast, AheadOfCursor,
            LateIsLater, InOrder, LateOnlyByTie, MoreIsMore, Below
    <2> QED BY <2>1, <2>2, <2>3, <2>4 DEF Next, Read
<1> QED BY <1>1, <1>2, PTL DEF Spec

(* A walk that has come to its end has returned every row there was when it
   began: list_transactions's cursor loses none to rows posted meanwhile. *)
THEOREM WalkIsComplete == Spec => []NothingSkipped
<1>1. Inv => NothingSkipped
    BY CursorIsNoRow DEF Inv, TypeOK, AheadOfCursor, NothingSkipped
<1> QED BY <1>1, Invariance, PTL

(* The pages of a walk follow each other in (created_at, id) order, so no
   row is returned twice. *)
THEOREM WalkIsOrdered == Spec => []InOrder
BY Invariance, PTL DEF Inv

(* A row posted during the walk is only returned by it when it was created
   at the same instant as one that was there. *)
THEOREM WalkIsASnapshot == Spec => []LateOnlyByTie
BY Invariance, PTL DEF Inv

(* The extra row fetched tells the truth: a next_cursor is always followed
   by a page that is not empty. *)
THEOREM MoreMeansMore == Spec => []MoreIsMore
BY Invariance, PTL DEF Inv
====
