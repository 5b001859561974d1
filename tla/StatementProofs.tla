---- MODULE StatementProofs ----
(***************************************************************************)
(* Statement implements Listing: because created_at is read under the lock *)
(* of the account, the rows the handlers of Transfers commit to an account *)
(* become visible in the order of their stamps, however the requests       *)
(* interleave.                                                             *)
(***************************************************************************)
EXTENDS Statement, TransfersRefinement

(* The request's row on the account is committed. *)
HasRow(p) == \E r \in ledger : r.req = p /\ r.account = Viewed

(* Its row on the account is flushed and not committed. *)
Pending(p) ==
    \/ pc[p] = "insert_in" /\ body[p].from = Viewed
    \/ pc[p] = "commit" /\ Viewed \in {body[p].from, body[p].to}

(* The clock is not behind any row, and UUIDs do not repeat. *)
Stamped ==
    /\ now \in Nat
    /\ stamp \in [Req -> ListedRow \cup {NotFlushed}]
    /\ \A p \in Req : stamp[p] # NotFlushed => stamp[p].at <= now
    /\ \A p, q \in Req : p # q /\ stamp[p] # NotFlushed /\ stamp[q] # NotFlushed
                            => stamp[p].id # stamp[q].id

(* Whoever has a row on the account, committed or flushed, has its stamp. *)
RowsStamped == \A p \in Req : HasRow(p) \/ Pending(p) => stamp[p] # NotFlushed

(* A row waiting for its commit was stamped after those that are committed. *)
PendingLater ==
    \A p, q \in Req : Pending(p) /\ HasRow(q) => stamp[q].at <= stamp[p].at

(* What keeps the account's rows in order. *)
InStampOrder == Stamped /\ RowsStamped /\ PendingLater

(* One request moves in a step, and its body stays when it has arrived. *)
LEMMA OneMoves ==
    ASSUME Inv, Next
    PROVE  /\ \A p, q \in Req : pc'[p] # pc[p] /\ pc'[q] # pc[q] => p = q
           /\ \A p \in Req : pc[p] # "idle" => body'[p] = body[p]
           /\ \A p \in Req : pc'[p] = "insert_in" => pc[p] \in {"insert_out", "insert_in"}
           /\ \A p \in Req : pc'[p] = "commit" => pc[p] \in {"insert_in", "commit"}
  <1>0. pc \in [Req -> InFlight \cup {"idle", "done", "crashed"}]
        /\ body \in [Req -> TransferBody \cup DepositBody \cup {NoBody}]
    BY DEF Inv, TypeOK
  <1> DEFINE Goal == /\ \A p, q \in Req : pc'[p] # pc[p] /\ pc'[q] # pc[q] => p = q
                     /\ \A p \in Req : pc[p] # "idle" => body'[p] = body[p]
                     /\ \A p \in Req : pc'[p] = "insert_in" => pc[p] \in {"insert_out", "insert_in"}
                     /\ \A p \in Req : pc'[p] = "commit" => pc[p] \in {"insert_in", "commit"}
  <1>1. ASSUME NEW p \in Req, NEW l, Goto(p, l), UNCHANGED body,
               l = "insert_in" => pc[p] \in {"insert_out", "insert_in"},
               l = "commit" => pc[p] \in {"insert_in", "commit"}
        PROVE  Goal
    BY <1>0, <1>1 DEF Goto
  <1>2. ASSUME NEW p \in Req, Arrive(p) PROVE Goal
    BY <1>0, <1>2 DEF Arrive, Goto
  <1>3. ASSUME UNCHANGED <<pc, body>> PROVE Goal
    BY <1>3
  <1> HIDE DEF Goal
  <1>4. ASSUME NEW p \in Req, Handle(p) PROVE Goal
    <2>1. CASE Replay(p) \/ CheckKey(p) \/ CheckOwner(p) \/ PartialTransfer(p) \/ Refuse(p)
      <3>1. \E l \in {"notify", "owner", "lock", "done"} : Goto(p, l) /\ UNCHANGED body
        BY <2>1 DEF Replay, CheckKey, CheckOwner, PartialTransfer, Refuse, Answer
      <3> QED BY <3>1, <1>1
    <2>2. CASE LockRow(p) \/ Apply(p) \/ Commit(p) \/ Enqueue(p) \/ BrokerDown(p)
      <3>1. \E l \in {"lock", "apply", "insert_out", "notify", "done"} :
                Goto(p, l) /\ UNCHANGED body
        BY <2>2 DEF LockRow, Apply, Commit, Enqueue, BrokerDown, Answer
      <3> QED BY <3>1, <1>1
    <2>3. CASE InsertOut(p)
      <3>1. UNCHANGED body /\ pc[p] = "insert_out" /\ \E l \in {"insert_in", "done"} : Goto(p, l)
        BY <2>3 DEF InsertOut, Answer
      <3> QED BY <3>1, <1>1
    <2>4. CASE InsertIn(p)
      <3>1. UNCHANGED body /\ pc[p] = "insert_in" /\ \E l \in {"commit", "done"} : Goto(p, l)
        BY <2>4 DEF InsertIn, Answer
      <3> QED BY <3>1, <1>1
    <2>5. CASE LockDeposit(p) \/ ApplyDeposit(p) \/ CommitDeposit(p)
      <3>1. \E l \in {"deposit_apply", "deposit_commit", "done"} : Goto(p, l) /\ UNCHANGED body
        BY <2>5 DEF LockDeposit, ApplyDeposit, CommitDeposit, Answer
      <3> QED BY <3>1, <1>1
    <2> QED BY <1>4, <2>1, <2>2, <2>3, <2>4, <2>5 DEF Handle
  <1>5. ASSUME NEW p \in Req, Crash(p) PROVE Goal
    <2>1. Goto(p, "crashed") /\ UNCHANGED body
      BY <1>5 DEF Crash
    <2> QED BY <2>1, <1>1
  <1>6. ASSUME NEW a \in Accounts, NEW s \in Status, SetStatus(a, s) PROVE Goal
    BY <1>6, <1>3 DEF SetStatus
  <1>7. Goal
    BY <1>2, <1>4, <1>5, <1>6 DEF Next
  <1> QED BY <1>7 DEF Goal

(* A row is pending because it is flushed in this step or was pending. *)
LEMMA PendingStep ==
    ASSUME Inv, Next, NEW p \in Req, Pending(p)'
    PROVE  Pending(p) \/ Flushes(p)
  <1>1. /\ pc[p] # "idle" => body'[p] = body[p]
        /\ pc'[p] = "insert_in" => pc[p] \in {"insert_out", "insert_in"}
        /\ pc'[p] = "commit" => pc[p] \in {"insert_in", "commit"}
    BY OneMoves
  <1> QED BY <1>1 DEF Pending, Flushes

(* A committed row's request is past its commit. *)
LEMMA RowsAreFinal ==
    ASSUME Inv, NEW p \in Req, HasRow(p)
    PROVE  pc[p] \in {"notify", "crashed", "done"}
  BY DEF Inv, AnswersMatchLedger, HasRow

(* A pending row is on an account the request has locked. *)
LEMMA PendingHolds ==
    ASSUME Inv, NEW p \in Req, Pending(p)
    PROVE  Viewed \in held[p]
  BY DEF Inv, LocksHeld, LocksOf, Applied, Pending

(* Who commits a row of the account: its own, which was flushed under the
   lock and is the only one to appear. *)
LEMMA CommitsOwn ==
    ASSUME Inv, Next, NEW p \in Req, HasRow(p)', ~HasRow(p)
    PROVE  /\ Pending(p) \/ Flushes(p)
           /\ Viewed \in held[p]
           /\ pc'[p] # pc[p] /\ ~RollsBack(p)
           /\ \A q \in Req \ {p} : HasRow(q)' <=> HasRow(q)
  <1>0. pc \in [Req -> InFlight \cup {"idle", "done", "crashed"}]
    BY DEF Inv, TypeOK
  <1>1. ledger' # ledger
    BY DEF HasRow
  <1>2. PICK c \in Req :
             \/ Commit(c) /\ ledger' = ledger \cup {OutRow(c, body[c]), InRow(c, body[c])}
             \/ CommitDeposit(c) /\ ledger' = ledger \cup {DepositRow(c, body[c])}
    BY <1>1, NewRows
  <1>3. CASE Commit(c) /\ ledger' = ledger \cup {OutRow(c, body[c]), InRow(c, body[c])}
    <2>1. /\ OutRow(c, body[c]).req = c /\ OutRow(c, body[c]).account = body[c].from
          /\ InRow(c, body[c]).req = c /\ InRow(c, body[c]).account = body[c].to
      BY DEF OutRow, InRow
    <2>2. /\ c = p /\ Viewed \in {body[p].from, body[p].to}
          /\ \A q \in Req \ {p} : HasRow(q)' <=> HasRow(q)
      BY <1>3, <2>1 DEF HasRow
    <2>3. Pending(p) /\ pc'[p] # pc[p] /\ ~RollsBack(p)
      BY <1>0, <1>3, <2>2 DEF Commit, Goto, Pending, RollsBack
    <2> QED BY <2>2, <2>3, PendingHolds
  <1>4. CASE CommitDeposit(c) /\ ledger' = ledger \cup {DepositRow(c, body[c])}
    <2>1. DepositRow(c, body[c]).req = c /\ DepositRow(c, body[c]).account = body[c].account
      BY DEF DepositRow
    <2>2. /\ c = p /\ Viewed = body[p].account
          /\ \A q \in Req \ {p} : HasRow(q)' <=> HasRow(q)
      BY <1>4, <2>1 DEF HasRow
    <2>3. pc[p] = "deposit_commit" /\ pc'[p] = "done"
      BY <1>0, <1>4, <2>2 DEF CommitDeposit, Goto
    <2>4. Viewed \in held[p]
      BY <2>2, <2>3 DEF Inv, LocksHeld, LocksOf
    <2> QED BY <2>2, <2>3, <2>4 DEF Flushes, RollsBack
  <1> QED BY <1>2, <1>3, <1>4

(* The stamps change with the request that flushes or rolls back only. *)
LEMMA StampStep ==
    ASSUME Inv, InStampOrder, Write, NEW p \in Req
    PROVE  /\ stamp'[p] # stamp[p] => pc'[p] # pc[p] /\ ~HasRow(p)
           /\ Flushes(p) => stamp'[p] # NotFlushed /\ stamp'[p].at = now' /\ now <= now'
           /\ ~Flushes(p) /\ ~RollsBack(p) => stamp'[p] = stamp[p]
  <1>1. stamp \in [Req -> ListedRow \cup {NotFlushed}] /\ now \in Nat
    BY DEF InStampOrder, Stamped
  <1>2. \A q, r \in Req : pc'[q] # pc[q] /\ pc'[r] # pc[r] => q = r
    BY OneMoves DEF Write
  <1>3. \A q \in Req : Flushes(q) => pc'[q] # pc[q] /\ ~HasRow(q) /\ ~RollsBack(q)
    BY RowsAreFinal DEF Flushes, RollsBack
  <1>4. \A q \in Req : RollsBack(q) => pc'[q] # pc[q] /\ ~HasRow(q)
    BY RowsAreFinal DEF RollsBack
  <1>5. ASSUME NEW f \in Req, Flushes(f), Stamp(f)
        PROVE  /\ stamp'[p] # stamp[p] => pc'[p] # pc[p] /\ ~HasRow(p)
               /\ Flushes(p) => stamp'[p] # NotFlushed /\ stamp'[p].at = now' /\ now <= now'
               /\ ~Flushes(p) /\ ~RollsBack(p) => stamp'[p] = stamp[p]
    <2>1. PICK at \in {now, now + 1} \cap Time, id \in Id \ IdsUsed :
              stamp' = [stamp EXCEPT ![f] = [at |-> at, id |-> id]] /\ now' = at
      BY <1>5 DEF Stamp
    <2>2. [at |-> at, id |-> id] # NotFlushed
      BY NotFlushedAssumption DEF ListedRow
    <2>3. now <= now'
      BY <1>1, <2>1
    <2>4. CASE p = f
      <3>1. stamp'[p] = [at |-> at, id |-> id]
        BY <1>1, <2>1, <2>4
      <3>2. [at |-> at, id |-> id].at = at
        OBVIOUS
      <3> QED BY <1>3, <1>5, <2>1, <2>2, <2>3, <2>4, <3>1, <3>2
    <2>5. CASE p # f
      <3>1. stamp'[p] = stamp[p]
        BY <1>1, <2>1, <2>5
      <3>2. ~Flushes(p)
        BY <1>2, <1>3, <1>5, <2>5
      <3> QED BY <3>1, <3>2
    <2> QED BY <2>4, <2>5
  <1>6. ASSUME NEW f \in Req, RollsBack(f), stamp' = [stamp EXCEPT ![f] = NotFlushed]
        PROVE  /\ stamp'[p] # stamp[p] => pc'[p] # pc[p] /\ ~HasRow(p)
               /\ Flushes(p) => stamp'[p] # NotFlushed /\ stamp'[p].at = now' /\ now <= now'
               /\ ~Flushes(p) /\ ~RollsBack(p) => stamp'[p] = stamp[p]
    <2>1. p # f => stamp'[p] = stamp[p]
      BY <1>1, <1>6
    <2>2. ~Flushes(p)
      BY <1>2, <1>3, <1>4, <1>6
    <2> QED BY <1>4, <1>6, <2>1, <2>2
  <1>7. CASE (\A q \in Req : ~Flushes(q) /\ ~RollsBack(q)) /\ UNCHANGED clockVars
    BY <1>7 DEF clockVars
  <1> QED BY <1>5, <1>6, <1>7 DEF Write

(* The clock only advances, and what is stamped stays apart. *)
LEMMA StampedStep ==
    ASSUME Inv, InStampOrder, Write
    PROVE  Stamped' /\ now <= now'
  <1>1. /\ stamp \in [Req -> ListedRow \cup {NotFlushed}] /\ now \in Nat
        /\ \A p \in Req : stamp[p] # NotFlushed => stamp[p].at <= now
        /\ \A p, q \in Req : p # q /\ stamp[p] # NotFlushed /\ stamp[q] # NotFlushed
                            => stamp[p].id # stamp[q].id
        /\ Time \subseteq Nat
        /\ \A r \in ListedRow : r.at \in Nat
    BY ListingAssumption DEF InStampOrder, Stamped, ListedRow
  <1>2. ASSUME NEW f \in Req, Stamp(f) PROVE Stamped' /\ now <= now'
    <2>1. PICK at \in {now, now + 1} \cap Time, id \in Id \ IdsUsed :
              stamp' = [stamp EXCEPT ![f] = [at |-> at, id |-> id]] /\ now' = at
      BY <1>2 DEF Stamp
    <2> DEFINE new == [at |-> at, id |-> id]
    <2>2. new \in ListedRow /\ new.at = at /\ new.id = id
      BY DEF ListedRow
    <2> HIDE DEF new
    <2>3. stamp' = [stamp EXCEPT ![f] = new]
      BY <2>1 DEF new
    <2>4. now' \in Nat /\ now <= now'
      BY <1>1, <2>1
    <2>5. stamp' \in [Req -> ListedRow \cup {NotFlushed}]
      BY <1>1, <2>2, <2>3
    <2>6. \A p \in Req : stamp'[p] = IF p = f THEN new ELSE stamp[p]
      BY <1>1, <2>3
    <2>7. ASSUME NEW p \in Req, stamp'[p] # NotFlushed PROVE stamp'[p].at <= now'
      <3>1. CASE p = f
        BY <2>1, <2>2, <2>4, <2>6, <3>1
      <3>2. CASE p # f
        <4>1. stamp[p] \in ListedRow /\ stamp[p].at <= now /\ stamp'[p] = stamp[p]
          BY <1>1, <2>6, <2>7, <3>2
        <4>2. stamp[p].at \in Nat
          BY <1>1, <4>1
        <4> QED BY <1>1, <2>4, <4>1, <4>2
      <3> QED BY <3>1, <3>2
    <2>8. \A q \in Req : stamp[q] # NotFlushed => stamp[q].id # id
      BY <2>1 DEF IdsUsed
    <2>9. \A p, q \in Req : p # q /\ stamp'[p] # NotFlushed /\ stamp'[q] # NotFlushed
                            => stamp'[p].id # stamp'[q].id
      BY <1>1, <2>2, <2>6, <2>8
    <2> QED BY <2>4, <2>5, <2>7, <2>9 DEF Stamped
  <1>3. ASSUME NEW f \in Req, stamp' = [stamp EXCEPT ![f] = NotFlushed], UNCHANGED now
        PROVE  Stamped' /\ now <= now'
    <2>1. \A p \in Req : stamp'[p] = IF p = f THEN NotFlushed ELSE stamp[p]
      BY <1>1, <1>3
    <2>2. stamp' \in [Req -> ListedRow \cup {NotFlushed}]
      BY <1>1, <1>3
    <2> QED BY <1>1, <1>3, <2>1, <2>2 DEF Stamped
  <1>4. CASE UNCHANGED clockVars
    BY <1>1, <1>4 DEF clockVars, Stamped
  <1> QED BY <1>2, <1>3, <1>4 DEF Write

(* The order of the stamps is kept by every step of the handlers. *)
LEMMA WriteKeeps ==
    ASSUME Inv, InStampOrder, Write
    PROVE  InStampOrder'
  <1>1. Stamped' /\ now <= now' /\ Next
    BY StampedStep DEF Write
  <1>0. Inv'
    BY <1>1, NextInv
  <1>2. /\ now \in Nat /\ now' \in Nat
        /\ \A p \in Req : stamp[p] # NotFlushed => stamp[p] \in ListedRow /\ stamp[p].at <= now
        /\ \A p \in Req : stamp'[p] # NotFlushed => stamp'[p] \in ListedRow /\ stamp'[p].at <= now'
        /\ \A r \in ListedRow : r.at \in Nat
    BY <1>1, ListingAssumption DEF InStampOrder, Stamped, ListedRow
  <1>3. \A p \in Req : Pending(p)' => Pending(p) \/ Flushes(p)
    BY <1>1, PendingStep
  <1>4. \A p \in Req : Pending(p)' => ~RollsBack(p)
    BY DEF Pending, RollsBack
  <1>5. \A p \in Req : HasRow(p)' /\ ~HasRow(p) =>
            /\ Pending(p) \/ Flushes(p)
            /\ Viewed \in held[p] /\ pc'[p] # pc[p] /\ ~RollsBack(p)
            /\ \A q \in Req \ {p} : HasRow(q)' <=> HasRow(q)
    BY <1>1, CommitsOwn
  <1>6. ASSUME NEW p \in Req, HasRow(p) \/ Pending(p), ~RollsBack(p)
        PROVE  /\ stamp[p] # NotFlushed
               /\ ~Flushes(p) => stamp'[p] = stamp[p]
    BY <1>6, StampStep DEF InStampOrder, RowsStamped
  <1>7. \A p \in Req : HasRow(p)' => ~RollsBack(p)
    <2>1. \A p \in Req : HasRow(p) => ~RollsBack(p)
      BY RowsAreFinal DEF RollsBack
    <2> QED BY <1>5, <2>1
  <1>8. RowsStamped'
    BY <1>3, <1>4, <1>5, <1>6, <1>7, StampStep DEF RowsStamped
  <1>9. PendingLater'
    <2> SUFFICES ASSUME NEW p \in Req, NEW q \in Req, Pending(p)', HasRow(q)'
                 PROVE  stamp'[q].at <= stamp'[p].at
      BY DEF PendingLater
    <2>1. p # q
      <3>1. pc'[q] \in {"notify", "crashed", "done"}
        BY <1>0 DEF Inv, AnswersMatchLedger, HasRow
      <3> QED BY <3>1 DEF Pending
    <2>2. stamp'[q] # NotFlushed /\ stamp'[p] # NotFlushed
      BY <1>8 DEF RowsStamped
    <2>3. CASE Flushes(p)
      <3>1. stamp'[p].at = now'
        BY <2>3, StampStep
      <3> QED BY <1>2, <2>2, <3>1
    <2>4. CASE ~Flushes(p)
      <3>1. Pending(p) /\ stamp'[p] = stamp[p]
        BY <1>3, <1>4, <1>6, <2>4
      <3>2. HasRow(q)
        <4> SUFFICES ASSUME ~HasRow(q) PROVE FALSE
          OBVIOUS
        <4>1. Viewed \in held[q] /\ Viewed \in held[p]
          BY <1>5, <3>1, PendingHolds
        <4> QED BY <2>1, <4>1 DEF Inv, LocksHeld
      <3>3. stamp'[q] = stamp[q]
        BY <3>2, StampStep
      <3> QED BY <3>1, <3>2, <3>3 DEF InStampOrder, PendingLater
    <2> QED BY <2>3, <2>4
  <1> QED BY <1>1, <1>8, <1>9 DEF InStampOrder

(* Reading a page moves no request and no clock. *)
LEMMA ListKeeps ==
    ASSUME Inv, InStampOrder, List
    PROVE  Inv' /\ InStampOrder'
  <1>1. UNCHANGED vars /\ UNCHANGED <<now, stamp>>
    BY DEF List, clockVars
  <1>2. UNCHANGED <<ledger, pc, body>>
    BY <1>1 DEF vars
  <1>3. Inv'
    BY <1>1, NextInv
  <1>4. \A p \in Req : (HasRow(p)' <=> HasRow(p)) /\ (Pending(p)' <=> Pending(p))
    BY <1>2 DEF HasRow, Pending
  <1>5. Stamped'
    BY <1>1 DEF InStampOrder, Stamped
  <1>6. RowsStamped' /\ PendingLater'
    BY <1>1, <1>4 DEF InStampOrder, RowsStamped, PendingLater
  <1> QED BY <1>3, <1>5, <1>6 DEF InStampOrder

(* What is listed, request by request. *)
LEMMA ListedRows ==
    /\ Listed = {stamp[p] : p \in {q \in Req : HasRow(q)}}
    /\ Listed' = {stamp'[p] : p \in {q \in Req : HasRow(q)'}}
  BY DEF Listed, HasRow

(* A step of the handlers posts one row, later than all there are, or none. *)
LEMMA WritePosts ==
    ASSUME Inv, InStampOrder, Write
    PROVE  UNCHANGED Pages!vars \/ \E r \in ListedRow : Pages!Post(r)
  <1>1. /\ UNCHANGED reader /\ Next
        /\ \A p \in Req : HasRow(p) => stamp'[p] = stamp[p]
    BY StampStep DEF Write
  <1>2. \A p \in Req : HasRow(p) => HasRow(p)'
    BY <1>1, NewRows DEF HasRow
  <1>3. CASE \A p \in Req : HasRow(p)' => HasRow(p)
    <2>1. Listed' = Listed
      BY <1>1, <1>2, <1>3, ListedRows
    <2> QED BY <1>1, <2>1 DEF reader, Pages!vars
  <1>4. ASSUME NEW p \in Req, HasRow(p)', ~HasRow(p)
        PROVE  \E r \in ListedRow : Pages!Post(r)
    <2>1. /\ Pending(p) \/ Flushes(p)
          /\ ~RollsBack(p)
          /\ \A q \in Req \ {p} : HasRow(q)' <=> HasRow(q)
      BY <1>1, <1>4, CommitsOwn
    <2>2. InStampOrder'
      BY WriteKeeps
    <2>3. stamp'[p] # NotFlushed /\ stamp'[p] \in ListedRow
      BY <1>4, <2>2 DEF InStampOrder, Stamped, RowsStamped
    <2>4. Listed' = Listed \cup {stamp'[p]}
      BY <1>1, <1>4, <2>1, ListedRows
    <2>5. ASSUME NEW q \in Req, HasRow(q)
          PROVE  stamp[q].at <= stamp'[p].at /\ stamp[q].id # stamp'[p].id
      <3>1. q # p /\ stamp'[q] = stamp[q] /\ stamp[q] # NotFlushed
        BY <1>1, <1>4, <2>5 DEF InStampOrder, RowsStamped
      <3>2. stamp'[q].id # stamp'[p].id
        BY <2>2, <2>3, <3>1 DEF InStampOrder, Stamped
      <3>3. CASE Flushes(p)
        <4>1. stamp'[p].at = now' /\ now <= now' /\ stamp[q].at <= now
          BY <3>1, <3>3, StampStep DEF InStampOrder, Stamped
        <4>2. now \in Nat /\ now' \in Nat /\ stamp[q].at \in Nat
          BY <2>2, <3>1, ListingAssumption DEF InStampOrder, Stamped, ListedRow
        <4> QED BY <3>1, <3>2, <4>1, <4>2
      <3>4. CASE ~Flushes(p)
        <4>1. Pending(p) /\ stamp'[p] = stamp[p]
          BY <2>1, <3>4, StampStep
        <4> QED BY <2>5, <3>1, <3>2, <4>1 DEF InStampOrder, PendingLater
      <3> QED BY <3>3, <3>4
    <2>6. \A q \in Listed : q.at <= stamp'[p].at /\ q.id # stamp'[p].id
      BY <2>5, ListedRows
    <2>7. Pages!Post(stamp'[p])
      BY <1>1, <2>4, <2>6 DEF Pages!Post, Pages!reader, reader
    <2> QED BY <2>3, <2>7
  <1> QED BY <1>3, <1>4

(* The invariant holds when nothing has happened yet. *)
LEMMA StatementInitInv == StatementInit => Inv /\ InStampOrder
  <1> SUFFICES ASSUME StatementInit PROVE Inv /\ InStampOrder
    OBVIOUS
  <1>1. Inv
    BY InitInv DEF StatementInit
  <1>2. \A p \in Req : ~HasRow(p) /\ ~Pending(p)
    BY DEF StatementInit, Init, HasRow, Pending
  <1>3. Stamped
    BY DEF StatementInit, Stamped
  <1> QED BY <1>1, <1>2, <1>3 DEF InStampOrder, RowsStamped, PendingLater

(* Every step keeps it. *)
LEMMA StatementNextInv ==
    Inv /\ InStampOrder /\ [StatementNext]_allVars => (Inv /\ InStampOrder)'
  <1> SUFFICES ASSUME Inv, InStampOrder, [StatementNext]_allVars PROVE (Inv /\ InStampOrder)'
    OBVIOUS
  <1>1. CASE Write
    BY <1>1, NextInv, WriteKeeps DEF Write
  <1>2. CASE List
    BY <1>2, ListKeeps
  <1>3. CASE UNCHANGED allVars
    <2>1. UNCHANGED vars /\ UNCHANGED <<now, stamp>>
      BY <1>3 DEF allVars, clockVars
    <2>2. UNCHANGED <<ledger, pc, body>>
      BY <2>1 DEF vars
    <2>3. Inv'
      BY <2>1, NextInv
    <2>4. \A p \in Req : (HasRow(p)' <=> HasRow(p)) /\ (Pending(p)' <=> Pending(p))
      BY <2>2 DEF HasRow, Pending
    <2>5. Stamped'
      BY <2>1 DEF InStampOrder, Stamped
    <2>6. RowsStamped' /\ PendingLater'
      BY <2>1, <2>4 DEF InStampOrder, RowsStamped, PendingLater
    <2> QED BY <2>3, <2>5, <2>6 DEF InStampOrder
  <1> QED BY <1>1, <1>2, <1>3 DEF StatementNext

(* Each step of the handlers and of the client is one of Listing's. *)
LEMMA StepLists ==
    ASSUME Inv, InStampOrder, [StatementNext]_allVars
    PROVE  [Pages!Next]_(Pages!vars)
  <1>1. CASE Write
    BY <1>1, WritePosts DEF Pages!Next, Pages!ListedRow, ListedRow
  <1>2. CASE List
    BY <1>2 DEF List, Pages!Next
  <1>3. CASE UNCHANGED allVars
    BY <1>3 DEF allVars, vars, clockVars, reader, Listed, Pages!vars
  <1> QED BY <1>1, <1>2, <1>3 DEF StatementNext

(* The rows that deposits and transfers commit to an account are listed as
   if each were posted at once with a stamp no earlier than those before it:
   what the keyset pages of list_for_account take for granted. *)
THEOREM StatementImplementsListing == StatementSpec => ListingSpec
  <1>1. StatementInit => Pages!Init
    BY DEF StatementInit, Init, Listed, Pages!Init
  <1> QED
    BY <1>1, StatementInitInv, StatementNextInv, StepLists, PTL
       DEF StatementSpec, ListingSpec, Pages!Spec

(* The theorems about a walk, for the rows the handlers commit. *)
Walk == INSTANCE ListingProofs WITH rows <- Listed

(* Pages and Walk are the same instance of Listing. *)
LEMMA SameWalk ==
    /\ Pages!Init => Walk!Init
    /\ [Pages!Next]_(Pages!vars) => [Walk!Next]_(Walk!vars)
    /\ Walk!NothingSkipped => NothingSkipped
    /\ Walk!InOrder => InOrder
    /\ Walk!LateOnlyByTie => LateOnlyByTie
    /\ Walk!MoreIsMore => MoreIsMore
  <1>1. \A r, s : Walk!Before(r, s) <=> Pages!Before(r, s)
    BY DEF Walk!Before, Pages!Before
  <1>2. \A c : Walk!Below(c) = Pages!Below(c)
    BY <1>1 DEF Walk!Below, Pages!Below
  <1>0. \A S : Walk!Cardinality(S) = Pages!Cardinality(S)
    BY DEF Walk!Cardinality, Pages!Cardinality
  <1>3. \A S : Pages!Return(S) => Walk!Return(S)
    <2>1. \A n, S : Walk!Top(n, S) = Pages!Top(n, S)
      BY <1>0, <1>1 DEF Walk!Top, Pages!Top
    <2> QED BY <1>0, <1>1, <2>1 DEF Walk!Return, Pages!Return
  <1>4. Pages!FirstPage => Walk!FirstPage
    BY <1>3 DEF Walk!FirstPage, Pages!FirstPage
  <1>5. Pages!NextPage => Walk!NextPage
    BY <1>2, <1>3 DEF Walk!NextPage, Pages!NextPage
  <1>6. \A r : Pages!Post(r) => Walk!Post(r)
    BY DEF Walk!Post, Pages!Post, Walk!reader, Pages!reader
  <1>7. Pages!Next => Walk!Next
    BY <1>4, <1>5, <1>6 DEF Walk!Next, Pages!Next, Walk!Read, Pages!Read,
       Walk!ListedRow, Pages!ListedRow
  <1>8. Walk!Seen = Pages!Seen
    BY DEF Walk!Seen, Pages!Seen
  <1>9. Walk!InOrder => InOrder
    BY <1>1 DEF InOrder, Walk!InOrder, Pages!InOrder
  <1>10. Walk!MoreIsMore => MoreIsMore
    BY <1>2 DEF MoreIsMore, Walk!MoreIsMore, Pages!MoreIsMore
  <1> QED
    BY <1>7, <1>8, <1>9, <1>10
       DEF Pages!Init, Walk!Init, Pages!vars, Walk!vars,
       NothingSkipped, Walk!NothingSkipped, Pages!NothingSkipped,
       LateOnlyByTie, Walk!LateOnlyByTie, Pages!LateOnlyByTie

(* However the handlers write meanwhile, a walk that has come to its end has
   returned every row that was there when it began. *)
THEOREM StatementIsComplete == StatementSpec => []NothingSkipped
  BY SameWalk, StatementImplementsListing, Walk!WalkIsComplete, ListingAssumption, PTL
     DEF ListingSpec, Pages!Spec, Walk!Spec

(* Nor does it return a row twice, or a row out of order. *)
THEOREM StatementIsOrdered == StatementSpec => []InOrder
  BY SameWalk, StatementImplementsListing, Walk!WalkIsOrdered, ListingAssumption, PTL
     DEF ListingSpec, Pages!Spec, Walk!Spec

(* A row the handlers commit during the walk only joins it below the rows it
   shares its created_at with. *)
THEOREM StatementIsASnapshot == StatementSpec => []LateOnlyByTie
  BY SameWalk, StatementImplementsListing, Walk!WalkIsASnapshot, ListingAssumption, PTL
     DEF ListingSpec, Pages!Spec, Walk!Spec

(* A next_cursor is never followed by an empty page: rows are not deleted and
   the handlers commit none below it that could be missed. *)
THEOREM StatementHasMore == StatementSpec => []MoreIsMore
  BY SameWalk, StatementImplementsListing, Walk!MoreMeansMore, ListingAssumption, PTL
     DEF ListingSpec, Pages!Spec, Walk!Spec

----------------------------------------------------------------------------
(* GET /internal/users/{id}/context *)

(* The sums of the context endpoint, as those of the balance proofs. *)
LEMMA SumOfDelta ==
    ASSUME NEW rows \in SUBSET TransactionRow, IsFiniteSet(rows)
    PROVE  MapThenSumSet(Delta, rows) = Sum(Worth, rows)
  <1> DEFINE Adding(g, s) == IF s = {} THEN 0
                             ELSE LET x == CHOOSE x \in s : TRUE
                                  IN  Delta(x) + g[s \ {x}]
             f == CHOOSE g : g = [s \in SUBSET rows |-> Adding(g, s)]
  <1>1. MapThenSumSet(Delta, rows) = f[rows]
    BY DEF MapThenSumSet, MapThenFoldSet
  <1>2. ASSUME NEW g, NEW s \in SUBSET rows PROVE Adding(g, s) = Round(Worth, g, s)
    <2>1. CASE s = {}
      BY <2>1 DEF Round
    <2>2. CASE s # {}
      <3>1. (CHOOSE x \in s : TRUE) \in TransactionRow
        BY <2>2
      <3> QED BY <2>2, <3>1 DEF Round, Worth, Delta, Bank!Signed
    <2> QED BY <2>1, <2>2
  <1>3. PICK g : Solves(g, Worth, rows)
    BY Solvable
  <1> HIDE DEF Adding
  <1>4. g = [s \in SUBSET rows |-> Adding(g, s)]
    BY <1>2, <1>3 DEF Solves
  <1>5. f = [s \in SUBSET rows |-> Adding(f, s)]
    BY <1>4
  <1>6. Solves(f, Worth, rows)
    <2> HIDE DEF f
    <2> QED BY <1>2, <1>5 DEF Solves
  <1> HIDE DEF f
  <1> QED BY <1>1, <1>6, Solution

LEMMA SumOfFunds ==
    ASSUME NEW own \in SUBSET Accounts, IsFiniteSet(own)
    PROVE  MapThenSumSet(LAMBDA a : account[a].balance, own) = Sum(Funds, own)
  <1> DEFINE Adding(g, s) == IF s = {} THEN 0
                             ELSE LET x == CHOOSE x \in s : TRUE
                                  IN  account[x].balance + g[s \ {x}]
             f == CHOOSE g : g = [s \in SUBSET own |-> Adding(g, s)]
  <1>1. MapThenSumSet(LAMBDA a : account[a].balance, own) = f[own]
    BY DEF MapThenSumSet, MapThenFoldSet
  <1>2. \A g : \A s \in SUBSET own : Adding(g, s) = Round(Funds, g, s)
    <2> SUFFICES ASSUME NEW g, NEW s \in SUBSET own PROVE Adding(g, s) = Round(Funds, g, s)
      OBVIOUS
    <2>1. CASE s = {}
      BY <2>1 DEF Round
    <2>2. CASE s # {}
      <3>1. (CHOOSE x \in s : TRUE) \in Accounts
        BY <2>2
      <3> QED BY <2>2, <3>1 DEF Round, Funds
    <2> QED BY <2>1, <2>2
  <1>3. PICK g : Solves(g, Funds, own)
    BY Solvable
  <1> HIDE DEF Adding
  <1>4. g = [s \in SUBSET own |-> Adding(g, s)]
    BY <1>2, <1>3 DEF Solves
  <1>5. f = [s \in SUBSET own |-> Adding(f, s)]
    BY <1>4
  <1>6. Solves(f, Funds, own)
    <2> HIDE DEF f
    <2> QED BY <1>2, <1>5 DEF Solves
  <1> HIDE DEF f
  <1> QED BY <1>1, <1>6, Solution

LEMMA SumOfOpening ==
    ASSUME NEW own \in SUBSET Accounts, IsFiniteSet(own)
    PROVE  MapThenSumSet(LAMBDA a : Opening[a].balance, own) = Sum(OpeningFunds, own)
  <1> DEFINE Adding(g, s) == IF s = {} THEN 0
                             ELSE LET x == CHOOSE x \in s : TRUE
                                  IN  Opening[x].balance + g[s \ {x}]
             f == CHOOSE g : g = [s \in SUBSET own |-> Adding(g, s)]
  <1>1. MapThenSumSet(LAMBDA a : Opening[a].balance, own) = f[own]
    BY DEF MapThenSumSet, MapThenFoldSet
  <1>2. \A g : \A s \in SUBSET own : Adding(g, s) = Round(OpeningFunds, g, s)
    <2> SUFFICES ASSUME NEW g, NEW s \in SUBSET own
                 PROVE  Adding(g, s) = Round(OpeningFunds, g, s)
      OBVIOUS
    <2>1. CASE s = {}
      BY <2>1 DEF Round
    <2>2. CASE s # {}
      <3>1. (CHOOSE x \in s : TRUE) \in Accounts
        BY <2>2
      <3> QED BY <2>2, <3>1 DEF Round, OpeningFunds
    <2> QED BY <2>1, <2>2
  <1>3. PICK g : Solves(g, OpeningFunds, own)
    BY Solvable
  <1> HIDE DEF Adding
  <1>4. g = [s \in SUBSET own |-> Adding(g, s)]
    BY <1>2, <1>3 DEF Solves
  <1>5. f = [s \in SUBSET own |-> Adding(f, s)]
    BY <1>4
  <1>6. Solves(f, OpeningFunds, own)
    <2> HIDE DEF f
    <2> QED BY <1>2, <1>5 DEF Solves
  <1> HIDE DEF f
  <1> QED BY <1>1, <1>6, Solution

LEMMA ContextExplained ==
    ASSUME Inv, Balanced, SumsExplained, IsFiniteSet(Accounts)
    PROVE  ContextConserved
  <1> SUFFICES ASSUME NEW u \in User, NEW currency
      PROVE  LET own == {a \in Accounts : Owner[a] = u /\ CurrencyOf[a] = currency}
                 posted == {r \in ledger : r.account \in own /\ r.type = "deposit"}
                 crossed == {r \in ledger : r.account \in own /\ r.type # "deposit"
                                              /\ r.counterparty \notin own}
             IN  Bank!Within(ContextTotal(u, currency)
                               - (MapThenSumSet(LAMBDA a : Opening[a].balance, own)
                                  + MapThenSumSet(Delta, posted) + MapThenSumSet(Delta, crossed)),
                             own)
    BY DEF ContextConserved
  <1> DEFINE own == {a \in Accounts : Owner[a] = u /\ CurrencyOf[a] = currency}
  <1>1. own \in SUBSET Accounts /\ IsFiniteSet(own)
    BY FS_Subset
  <1>2. ContextTotal(u, currency) = MapThenSumSet(LAMBDA a : account[a].balance, own)
    BY DEF ContextTotal
  <1> HIDE DEF own
  <1>3. Conserved(own)
    BY <1>1 DEF SumsExplained
  <1>4. ContextTotal(u, currency) = Sum(Funds, own)
    BY <1>1, <1>2, SumOfFunds
  <1>5. MapThenSumSet(LAMBDA a : Opening[a].balance, own) = Sum(OpeningFunds, own)
    BY <1>1, SumOfOpening
  <1>6. /\ MapThenSumSet(Delta, Deposited(own)) = Sum(Worth, Deposited(own))
        /\ MapThenSumSet(Delta, Crossing(own)) = Sum(Worth, Crossing(own))
    BY FlowType, SumOfDelta DEF Balanced
  <1>7. Bank!Within(ContextTotal(u, currency)
                      - (MapThenSumSet(LAMBDA a : Opening[a].balance, own)
                         + MapThenSumSet(Delta, Deposited(own))
                         + MapThenSumSet(Delta, Crossing(own))), own)
    BY <1>3, <1>4, <1>5, <1>6 DEF Conserved, Surplus
  <1> QED BY <1>7 DEF own, Deposited, Crossing

(* The total of a user's accounts is never seen in the middle of a transfer
   between two of them, whatever else commits, and is what their rows come to
   but for the cents of deposits that were rounded up. *)
THEOREM ContextNeverSplit ==
    ASSUME IsFiniteSet(Accounts)
    PROVE  StatementSpec => []ContextConserved
  <1>1. StatementInit => Init
    BY DEF StatementInit
  <1>2. [StatementNext]_allVars => [Next]_vars
    BY DEF StatementNext, Write, List, allVars
  <1>3. Inv /\ Balanced /\ SumsExplained => ContextConserved
    BY ContextExplained
  <1> QED BY <1>1, <1>2, <1>3, Invariance, BalancedInvariance, SumsConserved, PTL
             DEF StatementSpec, Spec
====
