---- MODULE Listing ----
(***************************************************************************)
(* GET /accounts/{id}/transactions: a client walks through the rows of an  *)
(* account page by page, newest first, while further rows are committed.   *)
(* Here a row is committed at once, with a created_at no earlier than      *)
(* those before it; Statement shows that the handlers keep to that.        *)
(***************************************************************************)
EXTENDS ListRows

VARIABLES
    rows,           \* the account's committed rows
    cursor,         \* the row the last next_cursor named
    page,           \* the page returned last
    walk,           \* the rows on the pages before it
    atStart         \* the rows there were when the walk began

vars == <<rows, cursor, page, walk, atStart>>
reader == <<cursor, page, walk, atStart>>

Init ==
    /\ rows = {}
    /\ cursor = Start
    /\ page = {}
    /\ walk = {}
    /\ atStart = {}

(* Mutants: the id does not break ties; the cursor's own row comes again. *)
BelowByTime(c) == {r \in rows : r.at < c.at}

BelowOrEqual(c) == {r \in rows : r = c \/ Before(c, r)}

(* WHERE (created_at, id) < (cursor_created_at, cursor_uuid) *)
Below(c) == {r \in rows : Before(c, r)}

(* Mutant: a full page is taken to have a successor. *)
ReturnIfFull(S) ==
    /\ page' = Top(Limit, S)
    /\ IF Cardinality(Top(Limit, S)) = Limit
       THEN \E r \in page' : /\ \A q \in page' \ {r} : Before(q, r)
                             /\ cursor' = r
       ELSE cursor' = End

(* limit + 1 rows are fetched: the one too many only tells that the page
   is not the last, and then the cursor is the page's last row. *)
Return(S) ==
    /\ page' = Top(Limit, S)
    /\ IF Cardinality(Top(Limit + 1, S)) > Limit
       THEN \E r \in page' : /\ \A q \in page' \ {r} : Before(q, r)
                             /\ cursor' = r
       ELSE cursor' = End

(* No cursor, or one that does not decode or names no row: from the top. *)
FirstPage ==
    /\ cursor \in {Start, End}
    /\ atStart' = rows
    /\ walk' = {}
    /\ Return(rows)
    /\ UNCHANGED rows

(* The cursor's row is looked up by its id; rows are never changed or
   deleted, so looking it up and selecting the page are one step. *)
NextPage ==
    /\ cursor \notin {Start, End}
    /\ walk' = walk \cup page
    /\ Return(Below(cursor))
    /\ UNCHANGED <<rows, atStart>>

Post(r) ==
    /\ rows' = rows \cup {r}
    /\ \A q \in rows : q.at <= r.at /\ q.id # r.id
    /\ UNCHANGED reader

Read == FirstPage \/ NextPage

Next == Read \/ \E r \in ListedRow : Post(r)

Spec == Init /\ [][Next]_vars

----------------------------------------------------------------------------

Seen == walk \cup page

TypeOK ==
    /\ rows \subseteq ListedRow /\ IsFiniteSet(rows)
    /\ cursor \in rows \cup {Start, End}
    /\ atStart \subseteq rows
    /\ Seen \subseteq rows

(* However many rows are committed between the pages, a walk that has come
   to its end has returned every row that was there when it began. *)
NothingSkipped == cursor = End => atStart \subseteq Seen

(* Over the whole walk the rows come in order, so that none comes twice. *)
InOrder == \A r \in walk, s \in page : Before(r, s)

(* A row committed during the walk only joins it below the rows it was
   created at the same instant as: the walk shows the account as it was. *)
LateOnlyByTie ==
    \A r \in Seen \ atStart : \E q \in Seen \cap atStart : q.at = r.at

(* has_more tells the truth: a next_cursor is never followed by nothing. *)
MoreIsMore == cursor \notin {Start, End} => Below(cursor) # {}
====
