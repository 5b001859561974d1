---- MODULE HoldingsProofs ----
(***************************************************************************)
(* Proofs about Holdings, for any number of requests, cards and devices.   *)
(* A request decides on a row as it was read.  What saves it is that rows  *)
(* do not vanish, that only one request holds a row, and that whoever      *)
(* changed a row after it was read has an entry in the audit log since.    *)
(***************************************************************************)
EXTENDS Holdings, TLAPS

Stage == {"idle", "read", "insert", "update", "commit", "done", "crashed"}

Row == {"number", "card", "device"} \X (Number \cup Card \cup Device)

Entry == [action : {"ACCOUNT_CREATED", "CARD_CREATED", "CARD_FROZEN", "CARD_UNFROZEN",
                    "DEVICE_TOKEN_REGISTERED", "DEVICE_TOKEN_REMOVED"},
          user : User,
          row : AccountId \cup Card \cup Device,
          req : Req]

Typed ==
    /\ account \in [AccountId -> AccountRow \cup {NoRow}]
    /\ card \in [Card -> CardRow \cup {NoRow}]
    /\ device \in [Device -> DeviceRow \cup {NoRow}]
    /\ audit \in Seq(Entry)
    /\ pc \in [Req -> Stage]
    /\ call \in [Req -> Call \cup {NoCall}]
    /\ seen \in [Req -> Number \cup AccountRow \cup CardRow \cup DeviceRow \cup {NoRow}]
    /\ draws \in [Req -> 0 .. MaxDraws]
    /\ held \in [Req -> SUBSET Row]
    /\ since \in [Req -> Nat]
    /\ wasActive \in [Req -> SUBSET AccountId]

(* A request was sent, and has had every active account among wasActive; it
   issues its card, if any, in its last step. *)
Sent(p) ==
    /\ pc[p] = "idle" => draws[p] = 0
    /\ pc[p] # "idle" => call[p] \in Call /\ since[p] <= Len(audit) /\ Active \subseteq wasActive[p]
    /\ pc[p] # "done" => card[p] = NoRow
    /\ card[p] # NoRow => card[p].account \in wasActive[p]
    /\ pc[p] # "commit" => held[p] = {}

(* What an opening and an issue know. *)
KnowsAccounts(p) ==
    /\ At(p, "open", "read") => draws[p] < MaxDraws
    /\ At(p, "open", "insert") => seen[p] \in Number
    /\ At(p, "open", "commit") =>
         seen[p] \in Number /\ <<"number", seen[p]>> \in held[p] /\ ~Taken(seen[p])
    /\ At(p, "issue", "commit") => call[p].account \in wasActive[p]

(* What a freeze, a registration and a removal know of the row they read. *)
KnowsCard(p) ==
    call[p].op = "freeze" =>
        /\ pc[p] \in {"update", "commit"} => seen[p] \in CardRow /\ card[call[p].card] # NoRow
        /\ pc[p] = "commit" /\ held[p] = {} => seen[p].status = Wanted(p)

KnowsDevice(p) ==
    /\ call[p].op = "register" =>
         /\ pc[p] = "insert" => seen[p] = NoRow
         /\ pc[p] = "update" => seen[p] # NoRow
         /\ pc[p] \in {"update", "commit"} /\ seen[p] # NoRow =>
              seen[p] \in DeviceRow /\ device[call[p].device] # NoRow
         /\ pc[p] = "commit" /\ seen[p] = NoRow =>
              <<"device", call[p].device>> \in held[p] /\ device[call[p].device] = NoRow
         /\ pc[p] = "commit" /\ held[p] = {} => seen[p] = Registration(p)
    /\ call[p].op = "remove" =>
         /\ pc[p] \in {"update", "commit"} =>
              seen[p] \in DeviceRow /\ device[call[p].device] # NoRow /\ seen[p].owner = call[p].user
         /\ pc[p] = "commit" /\ held[p] = {} => ~seen[p].active

Knows(p) == KnowsAccounts(p) /\ KnowsCard(p) /\ KnowsDevice(p)

(* No row is held by two requests. *)
Apart == \A p, q \in Req : p # q => held[p] \cap held[q] = {}

Inv ==
    /\ Typed
    /\ \A p \in Req : Sent(p) /\ Knows(p)
    /\ Apart

----------------------------------------------------------------------------
(* What a step leaves as it was. *)

TakenAfter(n) == \E a \in AccountId : account'[a] # NoRow /\ account'[a].number = n

ActiveAfter == {a \in AccountId : account'[a] # NoRow /\ account'[a].status = "active"}

(* No step takes a card or a device away, or moves a card. *)
RowsStay ==
    /\ \A c \in Card : card[c] # NoRow => card'[c] # NoRow /\ card'[c].account = card[c].account
    /\ \A d \in Device : device[d] # NoRow => device'[d] # NoRow
    /\ Len(audit) <= Len(audit')

(* The step is another request's: this one and what it relies on stay. *)
Stays(q) ==
    /\ pc'[q] = pc[q] /\ call'[q] = call[q] /\ seen'[q] = seen[q] /\ draws'[q] = draws[q]
    /\ held'[q] = held[q] /\ since'[q] = since[q]
    /\ wasActive[q] \subseteq wasActive'[q]
    /\ pc[q] # "idle" => ActiveAfter \subseteq wasActive'[q]
    /\ card[q] = NoRow => card'[q] = NoRow
    /\ \A n \in Number : <<"number", n>> \in held[q] /\ ~Taken(n) => ~TakenAfter(n)
    /\ \A d \in Device : <<"device", d>> \in held[q] /\ device[d] = NoRow => device'[d] = NoRow

(* The fields of a request that has arrived. *)
LEMMA Fields ==
    ASSUME NEW p \in Req, Sent(p), pc[p] # "idle"
    PROVE  /\ call[p].user \in User
           /\ call[p].op = "issue" => call[p].account \in AccountId
           /\ call[p].op = "freeze" => call[p].card \in Card /\ call[p].frozen \in BOOLEAN
           /\ call[p].op \in {"register", "remove"} => call[p].device \in Device
           /\ call[p].op = "register" => call[p].platform \in Platform
  BY CallAssumption DEF Sent

(* A request that does not move keeps what it knows. *)
LEMMA Frame ==
    ASSUME Typed, NEW q \in Req, Sent(q), Knows(q), RowsStay, Stays(q)
    PROVE  Sent(q)' /\ Knows(q)'
  <1>0. q \in Card /\ q \in AccountId
    BY DEF Card, AccountId
  <1>1. /\ pc'[q] = pc[q] /\ call'[q] = call[q] /\ seen'[q] = seen[q] /\ draws'[q] = draws[q]
        /\ held'[q] = held[q] /\ since'[q] = since[q]
        /\ wasActive[q] \subseteq wasActive'[q]
        /\ pc[q] # "idle" => ActiveAfter \subseteq wasActive'[q]
        /\ card[q] = NoRow => card'[q] = NoRow
        /\ \A n \in Number : <<"number", n>> \in held[q] /\ ~Taken(n) => ~TakenAfter(n)
        /\ \A d \in Device : <<"device", d>> \in held[q] /\ device[d] = NoRow => device'[d] = NoRow
    BY DEF Stays
  <1>2. Sent(q)'
    <2>1. since[q] <= Len(audit) => since'[q] <= Len(audit')
      BY <1>1 DEF RowsStay, Typed
    <2>2. Active' = ActiveAfter
      BY DEF Active, ActiveAfter
    <2>3. card[q] # NoRow => card'[q].account = card[q].account
      BY <1>0 DEF RowsStay
    <2> QED
      BY <1>1, <2>1, <2>2, <2>3 DEF Sent
  <1>3. KnowsAccounts(q)'
    BY <1>1 DEF Knows, KnowsAccounts, At, Taken, TakenAfter
  <1>4. CASE pc[q] \in {"idle", "read", "done", "crashed"}
    BY <1>1, <1>2, <1>3, <1>4 DEF Knows, KnowsCard, KnowsDevice
  <1>5. CASE pc[q] \in {"insert", "update", "commit"}
    <2>1. /\ call[q].op = "freeze" => call[q].card \in Card
          /\ call[q].op \in {"register", "remove"} => call[q].device \in Device
      BY <1>5, Fields
    <2>2. KnowsCard(q)'
      BY <1>1, <2>1 DEF Knows, KnowsCard, RowsStay, Wanted
    <2>3. KnowsDevice(q)'
      BY <1>1, <2>1 DEF Knows, KnowsDevice, RowsStay, Registration
    <2> QED
      BY <1>2, <1>3, <2>2, <2>3 DEF Knows
  <1> QED
    BY <1>4, <1>5 DEF Typed, Stage

(* What a step of p must show: the rest follows by Frame. *)
Good(p) ==
    /\ Typed'
    /\ RowsStay
    /\ \A q \in Req \ {p} : Stays(q)
    /\ Sent(p)' /\ Knows(p)'
    /\ \A q \in Req \ {p} : held'[p] \cap held[q] = {}

(* A good step of one request keeps the invariant for all. *)
LEMMA GoodIsEnough ==
    ASSUME Inv, NEW p \in Req, Good(p)
    PROVE  Inv'
  <1>1. \A q \in Req \ {p} : Sent(q)' /\ Knows(q)'
    BY Frame DEF Inv, Good
  <1>2. \A q \in Req \ {p} : held'[q] = held[q]
    BY DEF Good, Stays
  <1>3. Apart'
    BY <1>2 DEF Good, Inv, Apart
  <1> QED
    BY <1>1, <1>3 DEF Good, Inv

(* A step that changes no table and nothing of other requests. *)
LEMMA QuietStays ==
    ASSUME Inv, NEW p \in Req, UNCHANGED <<tables, audit>>,
           \A q \in Req \ {p} :
              /\ pc'[q] = pc[q] /\ call'[q] = call[q] /\ seen'[q] = seen[q] /\ draws'[q] = draws[q]
              /\ held'[q] = held[q] /\ since'[q] = since[q] /\ wasActive'[q] = wasActive[q]
    PROVE  RowsStay /\ (\A q \in Req \ {p} : Stays(q)) /\ ActiveAfter = Active
  <1>1. ActiveAfter = Active /\ (\A n : Taken(n) <=> TakenAfter(n))
    BY DEF tables, ActiveAfter, Active, Taken, TakenAfter
  <1>2. RowsStay
    BY DEF tables, RowsStay, Inv, Typed
  <1>3. ASSUME NEW q \in Req \ {p} PROVE Stays(q)
    BY <1>1 DEF tables, Stays, Inv, Sent
  <1> QED
    BY <1>1, <1>2, <1>3

(* A request that goes on has still been sent. *)
LEMMA SentStays ==
    ASSUME NEW p \in Req, Typed, Sent(p), UNCHANGED <<tables, audit>>,
           pc[p] \notin {"idle", "done"}, pc'[p] \notin {"idle", "commit"} => held'[p] = {},
           pc'[p] # "idle", call'[p] = call[p], since'[p] = since[p], wasActive'[p] = wasActive[p]
    PROVE  Sent(p)'
  <1>1. Active' = Active
    BY DEF tables, Active
  <1> QED
    BY <1>1 DEF tables, Sent

----------------------------------------------------------------------------
(* Steps before the commit. *)

(* The row to be written is not another's; the rest of Inv needs p only. *)
LEMMA QuietIsGood ==
    ASSUME Inv, NEW p \in Req, UNCHANGED <<tables, audit, call, since, wasActive>>,
           pc[p] \notin {"idle", "done"}, pc'[p] \in Stage \ {"idle"},
           pc' = [pc EXCEPT ![p] = pc'[p]],
           seen'[p] \in Number \cup AccountRow \cup CardRow \cup DeviceRow \cup {NoRow},
           seen' = [seen EXCEPT ![p] = seen'[p]],
           draws'[p] \in 0 .. MaxDraws, draws' = [draws EXCEPT ![p] = draws'[p]],
           held'[p] \in SUBSET Row, held' = [held EXCEPT ![p] = held'[p]],
           pc'[p] # "commit" => held'[p] = {},
           \A q \in Req \ {p} : held'[p] \cap held[q] = {},
           Knows(p)'
    PROVE  Good(p)
  <1>1. Typed'
    BY DEF Inv, Typed, tables
  <1>2. \A q \in Req \ {p} :
              /\ pc'[q] = pc[q] /\ call'[q] = call[q] /\ seen'[q] = seen[q] /\ draws'[q] = draws[q]
              /\ held'[q] = held[q] /\ since'[q] = since[q] /\ wasActive'[q] = wasActive[q]
    BY DEF Inv, Typed
  <1>3. RowsStay /\ \A q \in Req \ {p} : Stays(q)
    BY <1>2, QuietStays
  <1>4. Sent(p)'
    BY SentStays DEF Inv
  <1> QED
    BY <1>1, <1>3, <1>4 DEF Good

(* An answer without a commit, a crash. *)
LEMMA EndStep ==
    ASSUME Inv, NEW p \in Req, Crash(p) \/ \E code : Refuse(p, code), pc[p] \notin {"idle", "done"}
    PROVE  Good(p)
  <1> USE DEF Goto
  <1>1. /\ UNCHANGED <<tables, audit, call, seen, draws, since, wasActive>>
        /\ held' = [held EXCEPT ![p] = {}] /\ \E l \in {"done", "crashed"} : pc' = [pc EXCEPT ![p] = l]
    BY DEF Crash, Refuse
  <1>2. pc'[p] \in {"done", "crashed"} /\ pc' = [pc EXCEPT ![p] = pc'[p]] /\ held'[p] = {}
    BY <1>1 DEF Inv, Typed
  <1>3. /\ seen' = [seen EXCEPT ![p] = seen'[p]] /\ draws' = [draws EXCEPT ![p] = draws'[p]]
        /\ seen'[p] \in Number \cup AccountRow \cup CardRow \cup DeviceRow \cup {NoRow}
        /\ draws'[p] \in 0 .. MaxDraws
    BY <1>1 DEF Inv, Typed
  <1>4. Knows(p)'
    BY <1>2 DEF Knows, KnowsAccounts, KnowsCard, KnowsDevice, At
  <1> QED
    BY <1>1, <1>2, <1>3, <1>4, QuietIsGood DEF Stage

(* A read keeps a row as it is now, for the next step. *)
LEMMA ReadStep ==
    ASSUME Inv, NEW p \in Req, NEW l \in Stage \ {"idle"},
           NEW row \in Number \cup AccountRow \cup CardRow \cup DeviceRow \cup {NoRow},
           Read(p, row, l), pc[p] \notin {"idle", "done", "commit"}
    PROVE  /\ Knows(p)' => Good(p)
           /\ pc'[p] = l /\ seen'[p] = row /\ call' = call /\ held'[p] = {}
           /\ UNCHANGED <<tables, wasActive>>
  <1> USE DEF Goto
  <1>1. /\ UNCHANGED <<tables, audit, call, draws, held, since, wasActive>>
        /\ pc'[p] = l /\ seen'[p] = row /\ held'[p] = {}
        /\ pc' = [pc EXCEPT ![p] = pc'[p]] /\ seen' = [seen EXCEPT ![p] = seen'[p]]
    BY DEF Read, Inv, Typed, Sent
  <1>2. /\ draws' = [draws EXCEPT ![p] = draws'[p]] /\ held' = [held EXCEPT ![p] = held'[p]]
        /\ draws'[p] \in 0 .. MaxDraws
    BY <1>1 DEF Inv, Typed
  <1> QED
    BY <1>1, <1>2, QuietIsGood

(* A row is written by one request at a time. *)
LEMMA HoldStep ==
    ASSUME Inv, NEW p \in Req, NEW row \in Row, Hold(p, row), pc[p] \notin {"idle", "done", "commit"}
    PROVE  /\ Knows(p)' => Good(p)
           /\ pc'[p] = "commit" /\ seen'[p] = seen[p] /\ call' = call /\ held'[p] = {row}
           /\ UNCHANGED <<tables, wasActive>>
  <1> USE DEF Goto
  <1>1. /\ UNCHANGED <<tables, audit, call, seen, draws, since, wasActive>>
        /\ pc'[p] = "commit" /\ held'[p] = {row}
        /\ pc' = [pc EXCEPT ![p] = pc'[p]] /\ held' = [held EXCEPT ![p] = held'[p]]
    BY DEF Hold, Inv, Typed
  <1>2. /\ draws' = [draws EXCEPT ![p] = draws'[p]] /\ seen' = [seen EXCEPT ![p] = seen'[p]]
        /\ draws'[p] \in 0 .. MaxDraws
        /\ seen'[p] \in Number \cup AccountRow \cup CardRow \cup DeviceRow \cup {NoRow}
    BY <1>1 DEF Inv, Typed
  <1>3. \A q \in Req \ {p} : held'[p] \cap held[q] = {}
    BY <1>1 DEF Hold, Free
  <1> QED
    BY <1>1, <1>2, <1>3, QuietIsGood DEF Stage

(* A request arrives at its first read. *)
LEMMA ArriveStep ==
    ASSUME Inv, NEW p \in Req, Arrive(p)
    PROVE  Good(p)
  <1> USE DEF Goto
  <1>1. PICK c \in Call : call' = [call EXCEPT ![p] = c]
    BY DEF Arrive
  <1>2. Typed'
    BY <1>1 DEF Arrive, Inv, Typed, tables, Stage, Active
  <1>3. \A q \in Req \ {p} :
              /\ pc'[q] = pc[q] /\ call'[q] = call[q] /\ seen'[q] = seen[q] /\ draws'[q] = draws[q]
              /\ held'[q] = held[q] /\ since'[q] = since[q] /\ wasActive'[q] = wasActive[q]
    BY DEF Arrive, Inv, Typed
  <1>4. RowsStay /\ (\A q \in Req \ {p} : Stays(q)) /\ ActiveAfter = Active
    BY <1>3, QuietStays DEF Arrive
  <1>5. /\ pc[p] = "idle" /\ pc'[p] = "read" /\ call'[p] = c /\ since'[p] = Len(audit)
        /\ wasActive'[p] = Active /\ held' = held /\ draws' = draws /\ audit' = audit /\ card' = card
        /\ Len(audit) \in Nat
    BY <1>1 DEF Arrive, Inv, Typed, tables
  <1>6. Sent(p)'
    <2>1. Active' = Active
      BY <1>4 DEF Active, ActiveAfter
    <2> QED
      BY <1>5, <2>1 DEF Inv, Sent
  <1>7. Knows(p)'
    <2>1. draws'[p] < MaxDraws
      BY <1>5, HoldingsAssumption DEF Inv, Sent
    <2> QED
      BY <1>5, <2>1 DEF Knows, KnowsAccounts, KnowsCard, KnowsDevice, At
  <1>8. held'[p] = {}
    BY <1>5 DEF Inv, Sent
  <1> QED
    BY <1>2, <1>4, <1>6, <1>7, <1>8 DEF Good

(* A turn of the loop leaves a turn for the next, or ends the request. *)
LEMMA DrawStep ==
    ASSUME Inv, NEW p \in Req, Draw(p)
    PROVE  Good(p)
  <1> USE DEF Goto
  <1>1. pc[p] = "read" /\ call[p].op = "open" /\ draws[p] < MaxDraws /\ draws[p] \in 0 .. MaxDraws
        /\ held[p] = {} /\ MaxDraws \in Nat
    BY HoldingsAssumption DEF Draw, At, Inv, Knows, KnowsAccounts, Sent, Typed
  <1>2. /\ UNCHANGED <<tables, audit, call, held, since, wasActive>>
        /\ draws' = [draws EXCEPT ![p] = @ + 1]
        /\ \/ pc' = [pc EXCEPT ![p] = "insert"] /\ \E n \in Number : seen' = [seen EXCEPT ![p] = n]
           \/ pc' = pc /\ seen' = seen /\ draws[p] + 1 < MaxDraws
           \/ pc' = [pc EXCEPT ![p] = "done"] /\ seen' = seen
    BY DEF Draw
  <1>3. /\ draws'[p] = draws[p] + 1 /\ draws'[p] \in 0 .. MaxDraws
        /\ draws' = [draws EXCEPT ![p] = draws'[p]]
    BY <1>1, <1>2 DEF Inv, Typed
  <1>4. /\ pc' = [pc EXCEPT ![p] = pc'[p]] /\ seen' = [seen EXCEPT ![p] = seen'[p]]
        /\ held' = [held EXCEPT ![p] = held'[p]] /\ held'[p] = {}
        /\ seen'[p] \in Number \cup AccountRow \cup CardRow \cup DeviceRow \cup {NoRow}
        /\ pc'[p] = "insert" => seen'[p] \in Number
        /\ pc'[p] = "read" => draws'[p] < MaxDraws
        /\ pc'[p] \in {"read", "insert", "done"}
    BY <1>1, <1>2, <1>3 DEF Inv, Typed
  <1>5. Knows(p)'
    BY <1>1, <1>2, <1>4 DEF Knows, KnowsAccounts, KnowsCard, KnowsDevice, At
  <1> QED
    BY <1>1, <1>2, <1>3, <1>4, <1>5, QuietIsGood DEF Stage

(* The index entry of a number that no account has. *)
LEMMA InsertAccountStep ==
    ASSUME Inv, NEW p \in Req, InsertAccount(p)
    PROVE  Good(p)
  <1>1. pc[p] = "insert" /\ call[p].op = "open" /\ seen[p] \in Number
    BY DEF InsertAccount, At, Inv, Knows, KnowsAccounts
  <1>2. CASE Hold(p, <<"number", seen[p]>>) /\ ~Taken(seen[p])
    <2>1. <<"number", seen[p]>> \in Row
      BY <1>1 DEF Row
    <2>2. /\ Knows(p)' => Good(p)
          /\ pc'[p] = "commit" /\ seen'[p] = seen[p] /\ call' = call
          /\ held'[p] = {<<"number", seen[p]>>} /\ UNCHANGED <<tables, wasActive>>
      BY <1>1, <1>2, <2>1, HoldStep
    <2>3. Knows(p)'
      BY <1>1, <1>2, <2>2 DEF Knows, KnowsAccounts, KnowsCard, KnowsDevice, At, Taken, tables
    <2> QED
      BY <2>2, <2>3
  <1>3. Refuse(p, "internal_error") \/ (Hold(p, <<"number", seen[p]>>) /\ ~Taken(seen[p]))
    BY DEF InsertAccount
  <1> QED
    BY <1>1, <1>2, <1>3, EndStep

(* A card is for an account that is active now. *)
LEMMA IssueReadStep ==
    ASSUME Inv, NEW p \in Req, IssueRead(p)
    PROVE  Good(p)
  <1> DEFINE a == call[p].account
             row == account[a]
  <1>1. pc[p] = "read" /\ call[p].op = "issue"
    BY DEF IssueRead, At
  <1>2. a \in AccountId /\ Active \subseteq wasActive[p]
    BY <1>1, Fields DEF Inv, Sent
  <1>3. CASE Read(p, row, "commit") /\ row # NoRow /\ row.status = "active"
    <2>1. row \in AccountRow
      BY <1>2, <1>3 DEF Inv, Typed
    <2>2. /\ Knows(p)' => Good(p)
          /\ pc'[p] = "commit" /\ seen'[p] = row /\ call' = call /\ held'[p] = {}
          /\ UNCHANGED <<tables, wasActive>>
      BY <1>1, <1>3, <2>1, ReadStep DEF Stage
    <2>3. a \in wasActive[p]
      BY <1>2, <1>3 DEF Active
    <2>4. Knows(p)'
      BY <1>1, <2>2, <2>3 DEF Knows, KnowsAccounts, KnowsCard, KnowsDevice, At
    <2> QED
      BY <2>2, <2>4
  <1>4. (\E code : Refuse(p, code)) \/ (Read(p, row, "commit") /\ row # NoRow /\ row.status = "active")
    BY DEF IssueRead
  <1> QED
    BY <1>1, <1>3, <1>4, EndStep

(* A freeze reads a card that is there. *)
LEMMA FreezeReadStep ==
    ASSUME Inv, NEW p \in Req, FreezeRead(p)
    PROVE  Good(p)
  <1> DEFINE row == card[call[p].card]
  <1>1. pc[p] = "read" /\ call[p].op = "freeze"
    BY DEF FreezeRead, At
  <1>2. CASE Read(p, row, "update") /\ row # NoRow
    <2>1. row \in CardRow
      BY <1>1, <1>2, Fields DEF Inv, Typed
    <2>2. /\ Knows(p)' => Good(p)
          /\ pc'[p] = "update" /\ seen'[p] = row /\ call' = call /\ held'[p] = {}
          /\ UNCHANGED <<tables, wasActive>>
      BY <1>1, <1>2, <2>1, ReadStep DEF Stage
    <2>3. Knows(p)'
      BY <1>1, <1>2, <2>1, <2>2 DEF Knows, KnowsAccounts, KnowsCard, KnowsDevice, At, tables
    <2> QED
      BY <2>2, <2>3
  <1>3. (\E code : Refuse(p, code)) \/ (Read(p, row, "update") /\ row # NoRow)
    BY DEF FreezeRead
  <1> QED
    BY <1>1, <1>2, <1>3, EndStep

(* The UPDATE of a card, unless it looked right when it was read. *)
LEMMA FreezeWriteStep ==
    ASSUME Inv, NEW p \in Req, FreezeWrite(p)
    PROVE  Good(p)
  <1>1. pc[p] = "update" /\ call[p].op = "freeze"
    BY DEF FreezeWrite, At
  <1>2. seen[p] \in CardRow /\ card[call[p].card] # NoRow /\ call[p].card \in Card
    BY <1>1, Fields DEF Inv, Knows, KnowsCard
  <1>3. CASE Read(p, seen[p], "commit") /\ seen[p].status = Wanted(p)
    <2>1. /\ Knows(p)' => Good(p)
          /\ pc'[p] = "commit" /\ seen'[p] = seen[p] /\ call' = call /\ held'[p] = {}
          /\ UNCHANGED <<tables, wasActive>>
      BY <1>1, <1>2, <1>3, ReadStep DEF Stage
    <2>2. Knows(p)'
      BY <1>1, <1>2, <1>3, <2>1 DEF Knows, KnowsAccounts, KnowsCard, KnowsDevice, At, tables, Wanted
    <2> QED
      BY <2>1, <2>2
  <1>4. CASE Hold(p, <<"card", call[p].card>>)
    <2>1. <<"card", call[p].card>> \in Row
      BY <1>2 DEF Row
    <2>2. /\ Knows(p)' => Good(p)
          /\ pc'[p] = "commit" /\ seen'[p] = seen[p] /\ call' = call
          /\ held'[p] = {<<"card", call[p].card>>} /\ UNCHANGED <<tables, wasActive>>
      BY <1>1, <1>4, <2>1, HoldStep
    <2>3. Knows(p)'
      BY <1>1, <1>2, <2>2 DEF Knows, KnowsAccounts, KnowsCard, KnowsDevice, At, tables
    <2> QED
      BY <2>2, <2>3
  <1> QED
    BY <1>3, <1>4 DEF FreezeWrite

(* A registration or a removal reads the device. *)
LEMMA DeviceReadStep ==
    ASSUME Inv, NEW p \in Req, RegisterRead(p) \/ RemoveRead(p)
    PROVE  Good(p)
  <1> DEFINE row == device[call[p].device]
  <1>1. pc[p] = "read" /\ call[p].op \in {"register", "remove"}
    BY DEF RegisterRead, RemoveRead, At
  <1>2. row \in DeviceRow \cup {NoRow}
    BY <1>1, Fields DEF Inv, Typed
  <1>3. ASSUME NEW l \in {"insert", "update"}, Read(p, row, l),
               l = "insert" => call[p].op = "register" /\ row = NoRow,
               l = "update" => row # NoRow,
               call[p].op = "remove" => row.owner = call[p].user
        PROVE  Good(p)
    <2>1. /\ Knows(p)' => Good(p)
          /\ pc'[p] = l /\ seen'[p] = row /\ call' = call /\ held'[p] = {} /\ UNCHANGED tables
      BY <1>1, <1>2, <1>3, ReadStep DEF Stage
    <2>2. Knows(p)'
      BY <1>1, <1>2, <1>3, <2>1 DEF Knows, KnowsAccounts, KnowsCard, KnowsDevice, At, tables
    <2> QED
      BY <2>1, <2>2
  <1>4. CASE RegisterRead(p)
    <2>1. call[p].op # "remove" /\ Read(p, row, IF row = NoRow THEN "insert" ELSE "update")
          /\ call[p].op = "register"
      BY <1>4 DEF RegisterRead, At
    <2>2. CASE row = NoRow
      BY <1>3, <2>1, <2>2
    <2>3. CASE row # NoRow
      BY <1>3, <2>1, <2>3
    <2> QED
      BY <2>2, <2>3
  <1>5. CASE RemoveRead(p)
    <2>1. \/ \E code : Refuse(p, code)
          \/ Read(p, row, "update") /\ row # NoRow /\ row.owner = call[p].user
      BY <1>5 DEF RemoveRead
    <2> QED
      BY <1>1, <1>3, <2>1, EndStep
  <1> QED
    BY <1>4, <1>5

(* The index entry of a device that nobody has. *)
LEMMA RegisterInsertStep ==
    ASSUME Inv, NEW p \in Req, RegisterInsert(p)
    PROVE  Good(p)
  <1> DEFINE d == call[p].device
  <1>1. pc[p] = "insert" /\ call[p].op = "register" /\ d \in Device /\ seen[p] = NoRow
    BY Fields DEF RegisterInsert, At, Inv, Knows, KnowsDevice
  <1>2. CASE Hold(p, <<"device", d>>) /\ device[d] = NoRow
    <2>1. <<"device", d>> \in Row
      BY <1>1 DEF Row
    <2>2. /\ Knows(p)' => Good(p)
          /\ pc'[p] = "commit" /\ seen'[p] = seen[p] /\ call' = call
          /\ held'[p] = {<<"device", d>>} /\ UNCHANGED <<tables, wasActive>>
      BY <1>1, <1>2, <2>1, HoldStep
    <2>3. Knows(p)'
      BY <1>1, <1>2, <2>2 DEF Knows, KnowsAccounts, KnowsCard, KnowsDevice, At, tables
    <2> QED
      BY <2>2, <2>3
  <1>3. (\E code : Refuse(p, code)) \/ (Hold(p, <<"device", d>>) /\ device[d] = NoRow)
    BY DEF RegisterInsert
  <1> QED
    BY <1>1, <1>2, <1>3, EndStep

(* The UPDATE of a device, unless it looked right when it was read. *)
LEMMA DeviceWriteStep ==
    ASSUME Inv, NEW p \in Req, RegisterWrite(p) \/ RemoveWrite(p)
    PROVE  Good(p)
  <1> DEFINE d == call[p].device
  <1>1. pc[p] = "update" /\ call[p].op \in {"register", "remove"}
    BY DEF RegisterWrite, RemoveWrite, At
  <1>2. /\ seen[p] \in DeviceRow /\ device[d] # NoRow /\ d \in Device
        /\ call[p].op = "remove" => seen[p].owner = call[p].user
    BY <1>1, Fields DEF Inv, Knows, KnowsDevice
  <1>3. CASE /\ Read(p, seen[p], "commit")
             /\ call[p].op = "register" => seen[p] = Registration(p)
             /\ call[p].op = "remove" => ~seen[p].active
    <2>1. /\ Knows(p)' => Good(p)
          /\ pc'[p] = "commit" /\ seen'[p] = seen[p] /\ call' = call /\ held'[p] = {}
          /\ UNCHANGED <<tables, wasActive>>
      BY <1>1, <1>2, <1>3, ReadStep DEF Stage
    <2>2. seen[p] # NoRow
      BY <1>2, HoldingsAssumption
    <2>3. Knows(p)'
      BY <1>1, <1>2, <1>3, <2>1, <2>2
      DEF Knows, KnowsAccounts, KnowsCard, KnowsDevice, At, tables, Registration
    <2> QED
      BY <2>1, <2>3
  <1>4. CASE Hold(p, <<"device", d>>)
    <2>1. <<"device", d>> \in Row
      BY <1>2 DEF Row
    <2>2. /\ Knows(p)' => Good(p)
          /\ pc'[p] = "commit" /\ seen'[p] = seen[p] /\ call' = call
          /\ held'[p] = {<<"device", d>>} /\ UNCHANGED <<tables, wasActive>>
      BY <1>1, <1>4, <2>1, HoldStep
    <2>3. seen[p] # NoRow
      BY <1>2, HoldingsAssumption
    <2>4. Knows(p)'
      BY <1>1, <1>2, <2>2, <2>3 DEF Knows, KnowsAccounts, KnowsCard, KnowsDevice, At, tables
    <2> QED
      BY <2>2, <2>4
  <1> QED
    BY <1>1, <1>3, <1>4 DEF RegisterWrite, RemoveWrite, At

----------------------------------------------------------------------------
(* Commits. *)

(* A commit ends a request; what it writes takes nothing from the others. *)
LEMMA CommitIsGood ==
    ASSUME Inv, NEW p \in Req, pc[p] = "commit", NEW action, NEW row, Commit(p, action, row),
           action \in {"ACCOUNT_CREATED", "CARD_CREATED", "CARD_FROZEN", "CARD_UNFROZEN",
                       "DEVICE_TOKEN_REGISTERED", "DEVICE_TOKEN_REMOVED"},
           row \in AccountId \cup Card \cup Device,
           account' \in [AccountId -> AccountRow \cup {NoRow}],
           card' \in [Card -> CardRow \cup {NoRow}],
           device' \in [Device -> DeviceRow \cup {NoRow}],
           \A c \in Card : card[c] # NoRow => card'[c] # NoRow /\ card'[c].account = card[c].account,
           \A c \in Card \ {p} : card[c] = NoRow => card'[c] = NoRow,
           card'[p] # NoRow => card'[p].account \in wasActive[p],
           \A d \in Device : device[d] # NoRow => device'[d] # NoRow,
           \A q \in Req \ {p}, n \in Number :
              <<"number", n>> \in held[q] /\ ~Taken(n) => ~TakenAfter(n),
           \A q \in Req \ {p}, d \in Device :
              <<"device", d>> \in held[q] /\ device[d] = NoRow => device'[d] = NoRow
    PROVE  Good(p)
  <1> USE DEF Goto
  <1>0. \A q \in Req : q \in Card
    BY DEF Card
  <1>1. /\ audit \in Seq(Entry)
        /\ audit' = Append(audit, [action |-> action, user |-> call[p].user, row |-> row, req |-> p])
    BY DEF Commit, Inv, Typed
  <1>2. [action |-> action, user |-> call[p].user, row |-> row, req |-> p] \in Entry
    BY Fields DEF Inv, Entry
  <1>3. audit' \in Seq(Entry) /\ Len(audit') = Len(audit) + 1 /\ Len(audit) \in Nat
    BY <1>1, <1>2
  <1>4. Active' = ActiveAfter /\ ActiveAfter \subseteq AccountId
    BY DEF Active, ActiveAfter
  <1>5. wasActive' = [q \in Req |-> wasActive[q] \cup ActiveAfter]
    BY <1>4 DEF Commit
  <1>6. Typed'
    BY <1>3, <1>4, <1>5 DEF Commit, Inv, Typed, Stage
  <1>7. /\ call' = call /\ since' = since /\ seen' = seen /\ draws' = draws
        /\ pc'[p] = "done" /\ held'[p] = {}
        /\ \A q \in Req \ {p} : pc'[q] = pc[q] /\ held'[q] = held[q]
        /\ \A q \in Req : wasActive'[q] = wasActive[q] \cup ActiveAfter
    BY <1>5 DEF Commit, Inv, Typed
  <1>8. RowsStay
    BY <1>3 DEF RowsStay
  <1>9. ASSUME NEW q \in Req \ {p} PROVE Stays(q)
    BY <1>0, <1>7 DEF Stays
  <1>10. Sent(p)'
    <2>1. call[p] \in Call /\ since[p] <= Len(audit) /\ since[p] \in Nat
      BY DEF Inv, Sent, Typed
    <2>2. since'[p] <= Len(audit')
      BY <1>3, <1>7, <2>1
    <2>3. card'[p] # NoRow => card'[p].account \in wasActive'[p]
      BY <1>7
    <2> QED
      BY <1>4, <1>7, <2>1, <2>2, <2>3 DEF Sent
  <1>11. Knows(p)'
    BY <1>7 DEF Knows, KnowsAccounts, KnowsCard, KnowsDevice, At
  <1> QED
    BY <1>6, <1>7, <1>8, <1>9, <1>10, <1>11 DEF Good

(* An opening adds an account with a number that was not taken. *)
LEMMA AccountRows ==
    ASSUME Inv, NEW p \in Req, CommitAccount(p)
    PROVE  /\ pc[p] = "commit" /\ call[p].op = "open" /\ seen[p] \in Number
           /\ account' \in [AccountId -> AccountRow \cup {NoRow}]
           /\ account'[p].number = seen[p] /\ ~Taken(seen[p]) /\ <<"number", seen[p]>> \in held[p]
           /\ \A a \in AccountId \ {p} : account'[a] = account[a]
  <1> DEFINE row == [owner |-> call[p].user, number |-> seen[p], status |-> "active"]
  <1>1. pc[p] = "commit" /\ call[p].op = "open" /\ account' = [account EXCEPT ![p] = row]
    BY DEF CommitAccount, At
  <1>2. seen[p] \in Number /\ <<"number", seen[p]>> \in held[p] /\ ~Taken(seen[p]) /\ call[p].user \in User
    BY <1>1, Fields DEF Inv, Knows, KnowsAccounts, At
  <1>3. row \in AccountRow /\ row.number = seen[p]
    BY <1>2 DEF AccountRow
  <1>4. account \in [AccountId -> AccountRow \cup {NoRow}] /\ p \in AccountId
    BY DEF Inv, Typed, AccountId
  <1> HIDE DEF row
  <1> QED
    BY <1>1, <1>2, <1>3, <1>4

(* The opening commits: the others' numbers are still free. *)
LEMMA CommitAccountStep ==
    ASSUME Inv, NEW p \in Req, CommitAccount(p)
    PROVE  Good(p)
  <1>1. card' = card /\ device' = device /\ Commit(p, "ACCOUNT_CREATED", p)
    BY DEF CommitAccount
  <1>2. card \in [Card -> CardRow \cup {NoRow}] /\ device \in [Device -> DeviceRow \cup {NoRow}]
    BY DEF Inv, Typed
  <1>3. p \in AccountId \cup Card \cup Device /\ p \in Card
    BY DEF Card
  <1>4. ASSUME NEW q \in Req \ {p}, NEW n \in Number, <<"number", n>> \in held[q], ~Taken(n)
        PROVE  ~TakenAfter(n)
    <2>1. n # seen[p]
      BY <1>4, AccountRows DEF Inv, Apart
    <2> QED
      BY <1>4, <2>1, AccountRows DEF Taken, TakenAfter
  <1>5. card'[p] = NoRow
    BY <1>1, AccountRows DEF Inv, Sent
  <1> QED
    BY <1>1, <1>2, <1>3, <1>4, <1>5, AccountRows, CommitIsGood

(* Commits that leave the accounts alone. *)
LEMMA SameAccounts ==
    ASSUME account' = account
    PROVE  \A n : ~Taken(n) => ~TakenAfter(n)
  BY DEF Taken, TakenAfter

(* An issue adds a card. *)
LEMMA IssueRows ==
    ASSUME Inv, NEW p \in Req, CommitIssue(p)
    PROVE  /\ pc[p] = "commit" /\ call[p].op = "issue" /\ call[p].account \in wasActive[p]
           /\ card' \in [Card -> CardRow \cup {NoRow}]
           /\ card'[p] # NoRow /\ card'[p].account = call[p].account
           /\ \A c \in Card \ {p} : card'[c] = card[c]
  <1> DEFINE row == [account |-> call[p].account, status |-> "active"]
  <1>1. pc[p] = "commit" /\ call[p].op = "issue" /\ card' = [card EXCEPT ![p] = row]
    BY DEF CommitIssue, At
  <1>2. call[p].account \in AccountId /\ call[p].account \in wasActive[p]
    BY <1>1, Fields DEF Inv, Knows, KnowsAccounts, At
  <1>3. row \in CardRow /\ row.account = call[p].account
    BY <1>2 DEF CardRow
  <1>4. row # NoRow
    BY <1>3, HoldingsAssumption
  <1>5. card \in [Card -> CardRow \cup {NoRow}] /\ p \in Card
    BY DEF Inv, Typed, Card
  <1> HIDE DEF row
  <1> QED
    BY <1>1, <1>2, <1>3, <1>4, <1>5

(* The issue commits: the card is its own. *)
LEMMA CommitIssueStep ==
    ASSUME Inv, NEW p \in Req, CommitIssue(p)
    PROVE  Good(p)
  <1>1. account' = account /\ device' = device /\ Commit(p, "CARD_CREATED", p)
    BY DEF CommitIssue
  <1>2. account \in [AccountId -> AccountRow \cup {NoRow}] /\ device \in [Device -> DeviceRow \cup {NoRow}]
    BY DEF Inv, Typed
  <1>3. p \in AccountId \cup Card \cup Device
    BY DEF Card
  <1>4. card[p] = NoRow
    BY IssueRows DEF Inv, Sent
  <1>5. \A c \in Card : card[c] # NoRow => card'[c] # NoRow /\ card'[c].account = card[c].account
    BY <1>4, IssueRows
  <1> QED
    BY <1>1, <1>2, <1>3, <1>5, IssueRows, SameAccounts, CommitIsGood

(* A freeze sets the status of its card, unless it looked right before. *)
LEMMA FreezeRows ==
    ASSUME Inv, NEW p \in Req, CommitFreeze(p)
    PROVE  /\ pc[p] = "commit" /\ call[p].op = "freeze" /\ call[p].card \in Card
           /\ seen[p] \in CardRow /\ Wanted(p) \in {"frozen", "active"}
           /\ card[call[p].card] # NoRow
           /\ card' \in [Card -> CardRow \cup {NoRow}]
           /\ \/ card' = card /\ seen[p].status = Wanted(p)
              \/ /\ card'[call[p].card] # NoRow
                 /\ card'[call[p].card].account = card[call[p].card].account
                 /\ card'[call[p].card].status = Wanted(p)
                 /\ \A c \in Card \ {call[p].card} : card'[c] = card[c]
  <1> DEFINE c == call[p].card
             row == [account |-> card[c].account, status |-> Wanted(p)]
  <1>1. pc[p] = "commit" /\ call[p].op = "freeze"
    BY DEF CommitFreeze, At
  <1>2. c \in Card /\ seen[p] \in CardRow /\ card[c] # NoRow
    BY <1>1, Fields DEF Inv, Knows, KnowsCard
  <1>3. Wanted(p) \in {"frozen", "active"}
    BY DEF Wanted
  <1>4. card \in [Card -> CardRow \cup {NoRow}]
    BY DEF Inv, Typed
  <1>5. row \in CardRow /\ row.account = card[c].account /\ row.status = Wanted(p)
    BY <1>2, <1>3, <1>4 DEF CardRow
  <1>6. row # NoRow
    BY <1>5, HoldingsAssumption
  <1>7. CASE held[p] = {}
    <2>1. card' = card /\ seen[p].status = Wanted(p)
      BY <1>1, <1>7 DEF CommitFreeze, Inv, Knows, KnowsCard
    <2> QED
      BY <1>1, <1>2, <1>3, <1>4, <2>1
  <1>8. CASE held[p] # {}
    <2>1. card' = [card EXCEPT ![c] = row]
      BY <1>8 DEF CommitFreeze
    <2> HIDE DEF row
    <2> QED
      BY <1>1, <1>2, <1>3, <1>4, <1>5, <1>6, <2>1
  <1> QED
    BY <1>7, <1>8

(* The freeze commits: no card appears or moves. *)
LEMMA CommitFreezeStep ==
    ASSUME Inv, NEW p \in Req, CommitFreeze(p)
    PROVE  Good(p)
  <1> DEFINE c == call[p].card
             action == IF call[p].frozen THEN "CARD_FROZEN" ELSE "CARD_UNFROZEN"
  <1>1. account' = account /\ device' = device /\ Commit(p, action, c)
    BY DEF CommitFreeze
  <1>2. account \in [AccountId -> AccountRow \cup {NoRow}] /\ device \in [Device -> DeviceRow \cup {NoRow}]
    BY DEF Inv, Typed
  <1>3. action \in {"CARD_FROZEN", "CARD_UNFROZEN"} /\ p \in Card
    BY DEF Card
  <1>4. card[p] = NoRow /\ c # p
    BY <1>3, FreezeRows DEF Inv, Sent
  <1>5. /\ \A x \in Card : card[x] # NoRow => card'[x] # NoRow /\ card'[x].account = card[x].account
        /\ \A x \in Card : card[x] = NoRow => card'[x] = NoRow
    BY FreezeRows
  <1> HIDE DEF c, action
  <1> QED
    BY <1>1, <1>2, <1>3, <1>4, <1>5, FreezeRows, SameAccounts, CommitIsGood DEF c

(* A registration writes the columns that were not its own when it read. *)
LEMMA RegisterRows ==
    ASSUME Inv, NEW p \in Req, CommitRegister(p)
    PROVE  LET d == call[p].device
           IN  /\ pc[p] = "commit" /\ call[p].op = "register" /\ d \in Device
               /\ call[p].user \in User
               /\ device' \in [Device -> DeviceRow \cup {NoRow}]
               /\ device'[d] # NoRow
               /\ \A x \in Device \ {d} : device'[x] = device[x]
               /\ \/ /\ seen[p] = NoRow /\ <<"device", d>> \in held[p]
                     /\ device'[d].owner = call[p].user /\ device'[d].active
                  \/ /\ seen[p] \in DeviceRow /\ device[d] # NoRow
                     /\ IF seen[p].owner = call[p].user THEN device'[d].owner = device[d].owner
                        ELSE device'[d].owner = call[p].user
                     /\ IF seen[p].active THEN device'[d].active = device[d].active
                        ELSE device'[d].active
  <1> DEFINE d == call[p].device
             new == Registration(p)
             both == Merged(seen[p], device[d], new)
  <1>1. pc[p] = "commit" /\ call[p].op = "register"
    BY DEF CommitRegister, At
  <1>2. d \in Device /\ call[p].user \in User /\ call[p].platform \in Platform
    BY <1>1, Fields DEF Inv
  <1>3. device \in [Device -> DeviceRow \cup {NoRow}]
    BY DEF Inv, Typed
  <1>4. /\ new \in DeviceRow /\ new.owner = call[p].user /\ new.active = TRUE
        /\ new.platform = call[p].platform
    BY <1>2 DEF Registration, DeviceRow
  <1>5. new # NoRow
    BY <1>4, HoldingsAssumption
  <1>6. CASE seen[p] = NoRow
    <2>1. <<"device", d>> \in held[p]
      BY <1>1, <1>6 DEF Inv, Knows, KnowsDevice
    <2>2. device' = [device EXCEPT ![d] = new]
      BY <1>6, <2>1 DEF CommitRegister
    <2> HIDE DEF new
    <2> QED
      BY <1>1, <1>2, <1>3, <1>4, <1>5, <1>6, <2>1, <2>2
  <1>7. CASE seen[p] # NoRow
    <2>1. seen[p] \in DeviceRow /\ device[d] # NoRow
      BY <1>1, <1>7 DEF Inv, Knows, KnowsDevice
    <2>2. device[d] \in DeviceRow
      BY <1>2, <1>3, <2>1
    <2>3. CASE held[p] = {}
      <3>1. seen[p] = new /\ device' = device
        BY <1>1, <2>3 DEF Inv, Knows, KnowsDevice, CommitRegister
      <3> HIDE DEF new
      <3> QED
        BY <1>1, <1>2, <1>3, <1>4, <2>1, <3>1
    <2>4. CASE held[p] # {}
      <3>1. device' = [device EXCEPT ![d] = both]
        BY <1>7, <2>4 DEF CommitRegister
      <3>2. /\ both.owner = IF new.owner = seen[p].owner THEN device[d].owner ELSE new.owner
            /\ both.active = IF new.active = seen[p].active THEN device[d].active ELSE new.active
            /\ both.platform = IF new.platform = seen[p].platform THEN device[d].platform ELSE new.platform
        BY DEF Merged
      <3>3. both \in DeviceRow
        <4>1. /\ device[d].owner \in User /\ device[d].platform \in Platform /\ device[d].active \in BOOLEAN
              /\ new.owner \in User /\ new.platform \in Platform /\ new.active \in BOOLEAN
          BY <1>4, <2>2 DEF DeviceRow
        <4> QED
          BY <4>1 DEF Merged, DeviceRow
      <3>4. both # NoRow
        BY <3>3, HoldingsAssumption
      <3>5. seen[p].active \in BOOLEAN
        BY <2>1 DEF DeviceRow
      <3> HIDE DEF both, new
      <3>6. device'[d] = both
        BY <1>2, <1>3, <3>1
      <3> QED
        BY <1>1, <1>2, <1>3, <1>4, <2>1, <3>1, <3>2, <3>3, <3>4, <3>5, <3>6
    <2> QED
      BY <2>3, <2>4
  <1> QED
    BY <1>6, <1>7

(* The registration commits: whoever inserts holds its entry of the index. *)
LEMMA CommitRegisterStep ==
    ASSUME Inv, NEW p \in Req, CommitRegister(p)
    PROVE  Good(p)
  <1> DEFINE d == call[p].device
  <1>1. account' = account /\ card' = card /\ Commit(p, "DEVICE_TOKEN_REGISTERED", d)
    BY DEF CommitRegister
  <1>2. account \in [AccountId -> AccountRow \cup {NoRow}] /\ card \in [Card -> CardRow \cup {NoRow}]
    BY DEF Inv, Typed
  <1>3. p \in Card
    BY DEF Card
  <1>4. /\ pc[p] = "commit" /\ d \in Device
        /\ device' \in [Device -> DeviceRow \cup {NoRow}]
        /\ device'[d] # NoRow
        /\ \A x \in Device \ {d} : device'[x] = device[x]
        /\ <<"device", d>> \in held[p] \/ device[d] # NoRow
    BY RegisterRows
  <1>5. card'[p] = NoRow
    BY <1>1, <1>4 DEF Inv, Sent
  <1>6. \A q \in Req \ {p} : <<"device", d>> \notin held[q] \/ device[d] # NoRow
    BY <1>4 DEF Inv, Apart
  <1>7. /\ \A x \in Device : device[x] # NoRow => device'[x] # NoRow
        /\ \A q \in Req \ {p}, x \in Device :
              <<"device", x>> \in held[q] /\ device[x] = NoRow => device'[x] = NoRow
    BY <1>4, <1>6
  <1> HIDE DEF d
  <1> QED
    BY <1>1, <1>2, <1>3, <1>4, <1>5, <1>7, SameAccounts, CommitIsGood

(* A removal deactivates its device, unless it looked inactive before. *)
LEMMA RemoveRows ==
    ASSUME Inv, NEW p \in Req, CommitRemove(p)
    PROVE  LET d == call[p].device
           IN  /\ pc[p] = "commit" /\ call[p].op = "remove" /\ d \in Device
               /\ seen[p] \in DeviceRow /\ seen[p].owner = call[p].user /\ device[d] # NoRow
               /\ device' \in [Device -> DeviceRow \cup {NoRow}]
               /\ device'[d] # NoRow /\ device'[d].owner = device[d].owner
               /\ \A x \in Device \ {d} : device'[x] = device[x]
               /\ (~seen[p].active /\ device' = device) \/ ~device'[d].active
  <1> DEFINE d == call[p].device
             row == [owner |-> device[d].owner, platform |-> device[d].platform, active |-> FALSE]
  <1>1. pc[p] = "commit" /\ call[p].op = "remove"
    BY DEF CommitRemove, At
  <1>2. d \in Device /\ seen[p] \in DeviceRow /\ seen[p].owner = call[p].user /\ device[d] # NoRow
    BY <1>1, Fields DEF Inv, Knows, KnowsDevice
  <1>3. device \in [Device -> DeviceRow \cup {NoRow}]
    BY DEF Inv, Typed
  <1>4. row \in DeviceRow /\ row.owner = device[d].owner /\ ~row.active
    BY <1>2, <1>3 DEF DeviceRow
  <1>5. row # NoRow
    BY <1>4, HoldingsAssumption
  <1>6. CASE held[p] = {}
    <2>1. device' = device /\ ~seen[p].active
      BY <1>1, <1>6 DEF CommitRemove, Inv, Knows, KnowsDevice
    <2> QED
      BY <1>1, <1>2, <1>3, <2>1
  <1>7. CASE held[p] # {}
    <2>1. device' = [device EXCEPT ![d] = row]
      BY <1>7 DEF CommitRemove
    <2> HIDE DEF row
    <2> QED
      BY <1>1, <1>2, <1>3, <1>4, <1>5, <2>1
  <1> QED
    BY <1>6, <1>7

(* The removal commits: the row stays. *)
LEMMA CommitRemoveStep ==
    ASSUME Inv, NEW p \in Req, CommitRemove(p)
    PROVE  Good(p)
  <1> DEFINE d == call[p].device
  <1>1. account' = account /\ card' = card /\ Commit(p, "DEVICE_TOKEN_REMOVED", d)
    BY DEF CommitRemove
  <1>2. account \in [AccountId -> AccountRow \cup {NoRow}] /\ card \in [Card -> CardRow \cup {NoRow}]
    BY DEF Inv, Typed
  <1>3. p \in Card
    BY DEF Card
  <1>4. /\ pc[p] = "commit" /\ d \in Device /\ device[d] # NoRow
        /\ device' \in [Device -> DeviceRow \cup {NoRow}]
        /\ device'[d] # NoRow
        /\ \A x \in Device \ {d} : device'[x] = device[x]
    BY RemoveRows
  <1>5. card'[p] = NoRow
    BY <1>1, <1>4 DEF Inv, Sent
  <1>6. \A x \in Device : device[x] = NoRow <=> device'[x] = NoRow
    BY <1>4
  <1> HIDE DEF d
  <1> QED
    BY <1>1, <1>2, <1>3, <1>4, <1>5, <1>6, SameAccounts, CommitIsGood

(* An operator changes the status of an account, never its number. *)
LEMMA StatusRows ==
    ASSUME Inv, NEW a \in OldAccount, NEW s \in {"active", "frozen", "closed"}, SetStatus(a, s)
    PROVE  /\ account' \in [AccountId -> AccountRow \cup {NoRow}]
           /\ \A x \in AccountId : /\ account[x] = NoRow <=> account'[x] = NoRow
                                   /\ account[x] # NoRow => account'[x].number = account[x].number
  <1> DEFINE row == [owner |-> account[a].owner, number |-> account[a].number, status |-> s]
  <1>1. account[a] # NoRow /\ account' = [account EXCEPT ![a] = row] /\ a \in AccountId
    BY DEF SetStatus, AccountId
  <1>2. account \in [AccountId -> AccountRow \cup {NoRow}]
    BY DEF Inv, Typed
  <1>3. row \in AccountRow /\ row.number = account[a].number
    BY <1>1, <1>2 DEF AccountRow
  <1>4. row # NoRow
    BY <1>3, HoldingsAssumption
  <1> HIDE DEF row
  <1> QED
    BY <1>1, <1>2, <1>3, <1>4

(* An operator disturbs no request. *)
LEMMA StatusStep ==
    ASSUME Inv, NEW a \in OldAccount, NEW s \in {"active", "frozen", "closed"}, SetStatus(a, s)
    PROVE  Inv'
  <1>1. /\ UNCHANGED <<card, device, audit, pc, call, seen, draws, held, since>>
        /\ Active' = ActiveAfter /\ ActiveAfter \subseteq AccountId
    BY DEF SetStatus, Active, ActiveAfter
  <1>2. wasActive' = [q \in Req |-> wasActive[q] \cup ActiveAfter]
    BY <1>1 DEF SetStatus
  <1>3. Typed'
    BY <1>1, <1>2, StatusRows DEF Inv, Typed
  <1>4. RowsStay
    BY <1>1 DEF RowsStay, Inv, Typed
  <1>5. \A n : ~Taken(n) => ~TakenAfter(n)
    BY StatusRows DEF Taken, TakenAfter
  <1>6. \A q \in Req : Stays(q)
    BY <1>1, <1>2, <1>5 DEF Stays
  <1>7. \A q \in Req : Sent(q)' /\ Knows(q)'
    BY <1>4, <1>6, Frame DEF Inv
  <1> QED
    BY <1>1, <1>3, <1>7 DEF Inv, Apart

(* Nothing happens. *)
LEMMA StutterStep == Inv /\ UNCHANGED vars => Inv'
  <1> SUFFICES ASSUME Inv, UNCHANGED vars PROVE Inv'
    OBVIOUS
  <1>1. /\ UNCHANGED <<account, card, device, audit, pc, call, seen, draws, held, since, wasActive>>
        /\ Active' = ActiveAfter /\ ActiveAfter = Active
    BY DEF vars, tables, Active, ActiveAfter
  <1>2. Typed'
    BY <1>1 DEF Inv, Typed
  <1>3. RowsStay
    BY <1>1 DEF RowsStay, Inv, Typed
  <1>4. \A q \in Req : Stays(q)
    BY <1>1, SameAccounts DEF Stays, Inv, Sent
  <1>5. \A q \in Req : Sent(q)' /\ Knows(q)'
    BY <1>3, <1>4, Frame DEF Inv
  <1> QED
    BY <1>1, <1>2, <1>5 DEF Inv, Apart

(* Every step of a request is good. *)
LEMMA RequestStep ==
    ASSUME Inv, NEW p \in Req, Arrive(p) \/ Handle(p) \/ Crash(p)
    PROVE  Good(p)
  <1>1. Crash(p) => pc[p] \notin {"idle", "done"}
    BY DEF Crash
  <1> QED
    BY <1>1, ArriveStep, EndStep, DrawStep, InsertAccountStep, CommitAccountStep, IssueReadStep,
       CommitIssueStep, FreezeReadStep, FreezeWriteStep, CommitFreezeStep, DeviceReadStep,
       RegisterInsertStep, DeviceWriteStep, CommitRegisterStep, CommitRemoveStep DEF Handle

(* Every step keeps the invariant. *)
LEMMA InvStep == Inv /\ [Next]_vars => Inv'
  BY RequestStep, GoodIsEnough, StatusStep, StutterStep DEF Next

(* Requests keep to the invariant, however they interleave. *)
THEOREM Invariance == Spec => []Inv
  <1>1. Init => Inv
    <2> SUFFICES ASSUME Init PROVE Inv
      OBVIOUS
    <2>1. Typed
      BY HoldingsAssumption DEF Init, Typed, AccountId, Card, Stage
    <2>2. ASSUME NEW p \in Req PROVE Sent(p) /\ Knows(p)
      <3>1. card[p] = NoRow
        BY HoldingsAssumption DEF Init, Card
      <3>2. Sent(p)
        BY <3>1 DEF Init, Sent
      <3> QED
        BY <3>2 DEF Init, Knows, KnowsAccounts, KnowsCard, KnowsDevice, At
    <2>3. Apart
      BY DEF Init, Apart
    <2> QED
      BY <2>1, <2>2, <2>3 DEF Inv
  <1> QED
    BY <1>1, InvStep, PTL DEF Spec

(* The tables keep their types, whatever was written to rows that others
   changed after they were read. *)
THEOREM TypeCorrect == Spec => []TypeOK
  <1>1. Inv => TypeOK
    <2> SUFFICES ASSUME Inv PROVE TypeOK
      OBVIOUS
    <2>1. ASSUME NEW p \in Req
          PROVE  /\ call[p] \in Call \cup {NoCall}
                 /\ pc[p] = "update" /\ call[p].op = "freeze" => seen[p] \in CardRow
                 /\ pc[p] = "update" /\ call[p].op = "remove" => seen[p] \in DeviceRow
      BY DEF Inv, Typed, Knows, KnowsCard, KnowsDevice
    <2>2. /\ account \in [AccountId -> AccountRow \cup {NoRow}]
          /\ card \in [Card -> CardRow \cup {NoRow}]
          /\ device \in [Device -> DeviceRow \cup {NoRow}]
          /\ pc \in [Req -> {"idle", "read", "insert", "update", "commit", "done", "crashed"}]
          /\ draws \in [Req -> 0 .. MaxDraws]
      BY DEF Inv, Typed, Stage
    <2> QED
      BY <2>1, <2>2 DEF TypeOK, At
  <1> QED
    BY <1>1, Invariance, PTL

(* A card is issued only for an account that was active during its request,
   for any number of requests and of changes of the status. *)
THEOREM IssuedForActive == Spec => []IssuedWhileActive
  <1>1. Inv => IssuedWhileActive
    BY DEF Inv, Sent, IssuedWhileActive
  <1> QED
    BY <1>1, Invariance, PTL

(* An account keeps its number, and a new one has a number of its own. *)
LEMMA AccountSteps ==
    ASSUME Inv, [Next]_vars
    PROVE  \/ \A a \in AccountId : /\ account[a] = NoRow <=> account'[a] = NoRow
                                   /\ account[a] # NoRow => account'[a].number = account[a].number
           \/ \E p \in Req : /\ ~Taken(account'[p].number)
                             /\ \A a \in AccountId \ {p} : account'[a] = account[a]
  <1>1. ASSUME NEW p \in Req, CommitAccount(p)
        PROVE  /\ ~Taken(account'[p].number)
               /\ \A a \in AccountId \ {p} : account'[a] = account[a]
    BY <1>1, AccountRows
  <1>2. ASSUME NEW p \in Req, Arrive(p) \/ Handle(p) \/ Crash(p), ~CommitAccount(p)
        PROVE  account' = account
    BY <1>2 DEF Arrive, Crash, Handle, Draw, InsertAccount, IssueRead, CommitIssue, FreezeRead,
         FreezeWrite, CommitFreeze, RegisterRead, RegisterInsert, RegisterWrite, CommitRegister,
         RemoveRead, RemoveWrite, CommitRemove, Read, Refuse, Hold, tables
  <1>3. UNCHANGED vars => account' = account
    BY DEF vars, tables
  <1> QED
    BY <1>1, <1>2, <1>3, StatusRows DEF Next

(* No two accounts have one number: the index has the last word, however
   many openings found the same number free. *)
THEOREM NumbersAreUnique == Spec => []NumbersUnique
  <1>1. Init => NumbersUnique
    BY HoldingsAssumption DEF Init, NumbersUnique, AccountId
  <1>2. Inv /\ NumbersUnique /\ [Next]_vars => NumbersUnique'
    <2> SUFFICES ASSUME Inv, NumbersUnique, [Next]_vars PROVE NumbersUnique'
      OBVIOUS
    <2>1. CASE \A a \in AccountId : /\ account[a] = NoRow <=> account'[a] = NoRow
                                    /\ account[a] # NoRow => account'[a].number = account[a].number
      BY <2>1 DEF NumbersUnique
    <2>2. ASSUME NEW p \in Req, ~Taken(account'[p].number),
                 \A a \in AccountId \ {p} : account'[a] = account[a]
          PROVE  NumbersUnique'
      BY <2>2 DEF NumbersUnique, Taken
    <2> QED
      BY <2>1, <2>2, AccountSteps
  <1> QED
    BY <1>1, <1>2, Invariance, PTL DEF Spec

----------------------------------------------------------------------------
(* The audit log as an explanation: whoever changes a row after a request  *)
(* has read it leaves an entry younger than the request.                   *)

EntryOf(p, action, row) == [action |-> action, user |-> call[p].user, row |-> row, req |-> p]

(* An entry after the n-th; an entry of request p. *)
Since(log, n, action, row) ==
    \E j \in DOMAIN log : n < j /\ log[j].action = action /\ log[j].row = row

SinceBy(log, n, action, row, user) ==
    \E j \in DOMAIN log :
        n < j /\ log[j].action = action /\ log[j].row = row /\ log[j].user = user

Entered(log, p, action, row) ==
    \E i \in DOMAIN log : log[i].req = p /\ log[i].action = action /\ log[i].row = row

EnteredBy(log, p, action, row, user) ==
    \E i \in DOMAIN log :
        log[i].req = p /\ log[i].action = action /\ log[i].row = row /\ log[i].user = user

(* A log with one more entry. *)
LEMMA Longer ==
    ASSUME NEW log \in Seq(Entry), NEW e, NEW i \in DOMAIN Append(log, e)
    PROVE  (i \in DOMAIN log /\ Append(log, e)[i] = log[i]) \/ Append(log, e)[i] = e
  OBVIOUS

(* What was entered since the n-th entry still was. *)
LEMMA SinceStays ==
    ASSUME NEW log \in Seq(Entry), NEW e \in Entry, NEW n \in Nat, NEW action, NEW row, NEW user
    PROVE  /\ Since(log, n, action, row) => Since(Append(log, e), n, action, row)
           /\ SinceBy(log, n, action, row, user) => SinceBy(Append(log, e), n, action, row, user)
  <1> DEFINE more == Append(log, e)
  <1>1. \A i \in DOMAIN log : i \in DOMAIN more /\ more[i] = log[i]
    OBVIOUS
  <1> HIDE DEF more
  <1>2. Since(log, n, action, row) => Since(more, n, action, row)
    BY <1>1 DEF Since
  <1>3. SinceBy(log, n, action, row, user) => SinceBy(more, n, action, row, user)
    BY <1>1 DEF SinceBy
  <1> QED
    BY <1>2, <1>3 DEF more

(* The new entry is one of those. *)
LEMMA SinceNow ==
    ASSUME NEW log \in Seq(Entry), NEW e \in Entry, NEW n \in Nat, n <= Len(log)
    PROVE  /\ Since(Append(log, e), n, e.action, e.row)
           /\ SinceBy(Append(log, e), n, e.action, e.row, e.user)
  <1> DEFINE more == Append(log, e)
             last == Len(log) + 1
  <1>1. last \in DOMAIN more /\ more[last] = e /\ n < last
    OBVIOUS
  <1> HIDE DEF more, last
  <1>2. Since(more, n, e.action, e.row)
    BY <1>1 DEF Since
  <1>3. SinceBy(more, n, e.action, e.row, e.user)
    BY <1>1 DEF SinceBy
  <1> QED
    BY <1>2, <1>3 DEF more

(* What a request has entered it had before, or it is the new entry. *)
LEMMA EnteredNow ==
    ASSUME NEW log \in Seq(Entry), NEW e \in Entry, NEW p, NEW action, NEW row, NEW user
    PROVE  /\ Entered(Append(log, e), p, action, row) =>
                Entered(log, p, action, row) \/ (e.req = p /\ e.action = action /\ e.row = row)
           /\ EnteredBy(Append(log, e), p, action, row, user) =>
                \/ EnteredBy(log, p, action, row, user)
                \/ e.req = p /\ e.action = action /\ e.row = row /\ e.user = user
  <1> DEFINE more == Append(log, e)
  <1>1. \A i \in DOMAIN more : (i \in DOMAIN log /\ more[i] = log[i]) \/ more[i] = e
    BY Longer
  <1> HIDE DEF more
  <1>2. Entered(more, p, action, row) =>
          Entered(log, p, action, row) \/ (e.req = p /\ e.action = action /\ e.row = row)
    BY <1>1 DEF Entered
  <1>3. EnteredBy(more, p, action, row, user) =>
          \/ EnteredBy(log, p, action, row, user)
          \/ e.req = p /\ e.action = action /\ e.row = row /\ e.user = user
    BY <1>1 DEF EnteredBy
  <1> QED
    BY <1>2, <1>3 DEF more

FreezeAction(s) == IF s = "frozen" THEN "CARD_FROZEN" ELSE "CARD_UNFROZEN"

Opposite(s) == IF s = "frozen" THEN "CARD_UNFROZEN" ELSE "CARD_FROZEN"

(* Only a commit writes cards, devices and the log. *)
LEMMA Kinds ==
    ASSUME Inv, [Next]_vars
    PROVE  \/ UNCHANGED <<audit, card, device>>
           \/ \E p \in Req :
                /\ pc[p] = "commit" /\ pc'[p] = "done"
                /\ \/ /\ audit' = Append(audit, EntryOf(p, "ACCOUNT_CREATED", p))
                      /\ UNCHANGED <<card, device>>
                   \/ /\ audit' = Append(audit, EntryOf(p, "CARD_CREATED", p))
                      /\ CommitIssue(p) /\ device' = device
                   \/ /\ audit' = Append(audit, EntryOf(p, FreezeAction(Wanted(p)), call[p].card))
                      /\ CommitFreeze(p) /\ device' = device
                   \/ /\ audit' = Append(audit, EntryOf(p, "DEVICE_TOKEN_REGISTERED", call[p].device))
                      /\ CommitRegister(p) /\ card' = card
                   \/ /\ audit' = Append(audit, EntryOf(p, "DEVICE_TOKEN_REMOVED", call[p].device))
                      /\ CommitRemove(p) /\ card' = card
  <1>1. ASSUME NEW p \in Req, NEW action, NEW row, Commit(p, action, row)
        PROVE  audit' = Append(audit, EntryOf(p, action, row)) /\ pc'[p] = "done"
    BY <1>1 DEF Commit, EntryOf, Goto, Inv, Typed
  <1>2. ASSUME NEW p \in Req, CommitAccount(p)
        PROVE  /\ pc[p] = "commit" /\ UNCHANGED <<card, device>>
               /\ Commit(p, "ACCOUNT_CREATED", p)
    BY <1>2 DEF CommitAccount, At
  <1>3. ASSUME NEW p \in Req, CommitIssue(p)
        PROVE  pc[p] = "commit" /\ device' = device /\ Commit(p, "CARD_CREATED", p)
    BY <1>3 DEF CommitIssue, At
  <1>4. ASSUME NEW p \in Req, CommitFreeze(p)
        PROVE  /\ pc[p] = "commit" /\ device' = device
               /\ Commit(p, FreezeAction(Wanted(p)), call[p].card)
    BY <1>4 DEF CommitFreeze, At, FreezeAction, Wanted
  <1>5. ASSUME NEW p \in Req, CommitRegister(p)
        PROVE  /\ pc[p] = "commit" /\ card' = card
               /\ Commit(p, "DEVICE_TOKEN_REGISTERED", call[p].device)
    BY <1>5 DEF CommitRegister, At
  <1>6. ASSUME NEW p \in Req, CommitRemove(p)
        PROVE  /\ pc[p] = "commit" /\ card' = card
               /\ Commit(p, "DEVICE_TOKEN_REMOVED", call[p].device)
    BY <1>6 DEF CommitRemove, At
  <1>7. ASSUME NEW p \in Req, Arrive(p) \/ Handle(p) \/ Crash(p), ~CommitAccount(p),
               ~CommitIssue(p), ~CommitFreeze(p), ~CommitRegister(p), ~CommitRemove(p)
        PROVE  UNCHANGED <<audit, card, device>>
    BY <1>7 DEF Arrive, Crash, Handle, Draw, InsertAccount, IssueRead, FreezeRead, FreezeWrite,
         RegisterRead, RegisterInsert, RegisterWrite, RemoveRead, RemoveWrite,
         Read, Refuse, Hold, tables
  <1>8. ASSUME NEW a \in OldAccount, NEW s \in {"active", "frozen", "closed"}, SetStatus(a, s)
        PROVE  UNCHANGED <<audit, card, device>>
    BY <1>8 DEF SetStatus
  <1>9. UNCHANGED vars => UNCHANGED <<audit, card, device>>
    BY DEF vars, tables
  <1>10. ASSUME NEW p \in Req, Arrive(p) \/ Handle(p) \/ Crash(p)
         PROVE  \/ UNCHANGED <<audit, card, device>>
                \/ CommitAccount(p) \/ CommitIssue(p) \/ CommitFreeze(p)
                \/ CommitRegister(p) \/ CommitRemove(p)
    BY <1>7, <1>10
  <1>11. CASE \E p \in Req : Arrive(p) \/ Handle(p) \/ Crash(p)
    <2>1. PICK p \in Req : Arrive(p) \/ Handle(p) \/ Crash(p)
      BY <1>11
    <2>2. CASE UNCHANGED <<audit, card, device>>
      BY <2>2
    <2>3. CASE CommitAccount(p)
      BY <2>3, <1>1, <1>2
    <2>4. CASE CommitIssue(p)
      BY <2>4, <1>1, <1>3
    <2>5. CASE CommitFreeze(p)
      BY <2>5, <1>1, <1>4
    <2>6. CASE CommitRegister(p)
      BY <2>6, <1>1, <1>5
    <2>7. CASE CommitRemove(p)
      BY <2>7, <1>1, <1>6
    <2> QED
      BY <2>1, <2>2, <2>3, <2>4, <2>5, <2>6, <2>7, <1>10
  <1> QED
    BY <1>8, <1>9, <1>11 DEF Next

(* A request moves, or stays as it is. *)
LEMMA Turn ==
    ASSUME Inv, [Next]_vars, NEW p \in Req
    PROVE  \/ Arrive(p) \/ Handle(p) \/ Crash(p)
           \/ pc'[p] = pc[p] /\ call'[p] = call[p] /\ seen'[p] = seen[p] /\ since'[p] = since[p]
  <1>1. ASSUME NEW q \in Req, q # p, Arrive(q) \/ Handle(q) \/ Crash(q)
        PROVE  pc'[p] = pc[p] /\ call'[p] = call[p] /\ seen'[p] = seen[p] /\ since'[p] = since[p]
    BY <1>1, RequestStep DEF Good, Stays
  <1>2. ASSUME NEW a \in OldAccount, NEW s \in {"active", "frozen", "closed"}, SetStatus(a, s)
        PROVE  pc'[p] = pc[p] /\ call'[p] = call[p] /\ seen'[p] = seen[p] /\ since'[p] = since[p]
    BY <1>2 DEF SetStatus
  <1> QED
    BY <1>1, <1>2 DEF Next, vars

(* A request that has arrived keeps its call and its start; what it goes by
   at its write or its commit it read earlier, or it reads it now. *)
LEMMA Moves ==
    ASSUME Inv, [Next]_vars, NEW p \in Req
    PROVE  /\ pc[p] # "idle" => pc'[p] # "idle" /\ call'[p] = call[p] /\ since'[p] = since[p]
           /\ pc[p] = "done" => pc'[p] = "done"
           /\ pc'[p] \in {"update", "commit"} =>
                /\ pc[p] # "idle" /\ since'[p] = since[p] /\ call'[p] = call[p]
                /\ \/ pc[p] \in {"update", "commit"} /\ seen'[p] = seen[p]
                   \/ pc[p] = "insert" /\ call[p].op \in {"open", "register"} /\ seen'[p] = seen[p]
                   \/ /\ UNCHANGED <<audit, card, device>>
                      /\ call[p].op = "freeze" => seen'[p] = card[call[p].card]
                      /\ call[p].op \in {"register", "remove"} => seen'[p] = device[call[p].device]
  <1> USE DEF Goto
  <1>0. pc \in [Req -> Stage] /\ seen \in [Req -> Number \cup AccountRow \cup CardRow \cup DeviceRow \cup {NoRow}]
        /\ call \in [Req -> Call \cup {NoCall}] /\ since \in [Req -> Nat]
    BY DEF Inv, Typed
  <1>1. CASE pc'[p] = pc[p] /\ call'[p] = call[p] /\ seen'[p] = seen[p] /\ since'[p] = since[p]
    BY <1>1
  <1>2. CASE Arrive(p)
    BY <1>0, <1>2 DEF Arrive
  <1>3. CASE Crash(p)
    BY <1>0, <1>3 DEF Crash
  <1>4. ASSUME NEW code, Refuse(p, code), pc[p] \notin {"idle", "done"}
        PROVE  pc'[p] = "done" /\ call' = call /\ since' = since
    BY <1>0, <1>4 DEF Refuse
  <1>5. ASSUME NEW action, NEW row, Commit(p, action, row)
        PROVE  pc'[p] = "done" /\ call' = call /\ since' = since
    BY <1>0, <1>5 DEF Commit
  <1>6. ASSUME NEW row, Hold(p, row)
        PROVE  pc'[p] = "commit" /\ call' = call /\ since' = since /\ seen' = seen
    BY <1>0, <1>6 DEF Hold
  <1>7. ASSUME NEW row, NEW l, Read(p, row, l)
        PROVE  /\ pc'[p] = l /\ call' = call /\ since' = since /\ seen'[p] = row
               /\ UNCHANGED <<audit, card, device>>
    BY <1>0, <1>7 DEF Read, tables
  <1>8. CASE Draw(p) \/ InsertAccount(p) \/ CommitAccount(p)
    <2>1. CASE Draw(p)
      BY <1>0, <2>1 DEF Draw, At
    <2>2. CASE InsertAccount(p)
      BY <1>4, <1>6, <2>2 DEF InsertAccount, At
    <2>3. CASE CommitAccount(p)
      BY <1>5, <2>3 DEF CommitAccount, At
    <2> QED
      BY <1>8, <2>1, <2>2, <2>3
  <1>9. CASE IssueRead(p) \/ CommitIssue(p)
    BY <1>4, <1>5, <1>7, <1>9 DEF IssueRead, CommitIssue, At
  <1>10. CASE FreezeRead(p)
    BY <1>4, <1>7, <1>10 DEF FreezeRead, At
  <1>11. CASE FreezeWrite(p)
    BY <1>6, <1>7, <1>11 DEF FreezeWrite, At
  <1>12. CASE CommitFreeze(p) \/ CommitRegister(p) \/ CommitRemove(p)
    BY <1>5, <1>12 DEF CommitFreeze, CommitRegister, CommitRemove, At
  <1>13. CASE RegisterRead(p) \/ RemoveRead(p)
    BY <1>4, <1>7, <1>13 DEF RegisterRead, RemoveRead, At
  <1>14. CASE RegisterInsert(p) \/ RegisterWrite(p) \/ RemoveWrite(p)
    BY <1>4, <1>6, <1>7, <1>14 DEF RegisterInsert, RegisterWrite, RemoveWrite, At
  <1> QED
    BY <1>1, <1>2, <1>3, <1>8, <1>9, <1>10, <1>11, <1>12, <1>13, <1>14, Turn DEF Handle

(* Rows stay where they are, whoever takes the step. *)
LEMMA RowsNeverGo ==
    ASSUME Inv, [Next]_vars
    PROVE  RowsStay
  <1>1. ASSUME UNCHANGED <<audit, card, device>> PROVE RowsStay
    BY <1>1 DEF RowsStay, Inv, Typed
  <1>2. ASSUME NEW a \in OldAccount, NEW s \in {"active", "frozen", "closed"}, SetStatus(a, s)
        PROVE  UNCHANGED <<audit, card, device>>
    BY <1>2 DEF SetStatus
  <1>3. UNCHANGED vars => UNCHANGED <<audit, card, device>>
    BY DEF vars, tables
  <1> QED
    BY <1>1, <1>2, <1>3, RequestStep DEF Next, Good

(* Whose entries are in the log: requests that are done, on rows that are
   there. *)
EntryIsPast(log, i, pcs, cards, devices) ==
    /\ pcs[log[i].req] = "done"
    /\ log[i].action \in {"CARD_FROZEN", "CARD_UNFROZEN"} =>
         log[i].row \in Card /\ cards[log[i].row] # NoRow
    /\ log[i].action \in {"DEVICE_TOKEN_REGISTERED", "DEVICE_TOKEN_REMOVED"} =>
         log[i].row \in Device /\ devices[log[i].row] # NoRow

LogInv == \A i \in DOMAIN audit : EntryIsPast(audit, i, pc, card, device)

(* Entries stay true of the past. *)
LEMMA LogStep == Inv /\ LogInv /\ [Next]_vars => LogInv'
  <1> SUFFICES ASSUME Inv, LogInv, [Next]_vars PROVE LogInv'
    OBVIOUS
  <1> SUFFICES ASSUME NEW i \in DOMAIN audit' PROVE EntryIsPast(audit', i, pc', card', device')
    BY DEF LogInv
  <1>1. /\ \A c \in Card : card[c] # NoRow => card'[c] # NoRow
        /\ \A d \in Device : device[d] # NoRow => device'[d] # NoRow
    BY RowsNeverGo DEF RowsStay
  <1>2. audit \in Seq(Entry)
    BY DEF Inv, Typed
  <1>3. ASSUME i \in DOMAIN audit, audit'[i] = audit[i]
        PROVE  EntryIsPast(audit', i, pc', card', device')
    <2>1. EntryIsPast(audit, i, pc, card, device)
      BY <1>3 DEF LogInv
    <2>2. audit[i].req \in Req
      <3>1. audit[i] \in Entry
        BY <1>2, <1>3
      <3> QED
        BY <3>1 DEF Entry
    <2>3. pc'[audit[i].req] = "done"
      <3>1. PICK q \in Req : q = audit[i].req
        BY <2>2
      <3>2. pc'[q] = "done"
        BY <2>1, <3>1, Moves DEF EntryIsPast
      <3> QED
        BY <3>1, <3>2
    <2> QED
      BY <1>1, <1>3, <2>1, <2>3 DEF EntryIsPast
  <1>4. CASE audit' = audit
    BY <1>3, <1>4
  <1>5. ASSUME NEW p \in Req, pc'[p] = "done", NEW action, NEW row,
               audit' = Append(audit, EntryOf(p, action, row)),
               action \in {"CARD_FROZEN", "CARD_UNFROZEN"} => row \in Card /\ card'[row] # NoRow,
               action \in {"DEVICE_TOKEN_REGISTERED", "DEVICE_TOKEN_REMOVED"} =>
                 row \in Device /\ device'[row] # NoRow
        PROVE  EntryIsPast(audit', i, pc', card', device')
    <2> DEFINE e == EntryOf(p, action, row)
    <2>1. e.req = p /\ e.action = action /\ e.row = row
      BY DEF EntryOf
    <2> HIDE DEF e
    <2>2. (i \in DOMAIN audit /\ audit'[i] = audit[i]) \/ audit'[i] = e
      <3>1. audit' = Append(audit, e)
        BY <1>5 DEF e
      <3>2. i \in DOMAIN Append(audit, e)
        BY <3>1
      <3> QED
        BY <1>2, <3>1, <3>2, Longer
    <2>3. CASE audit'[i] = e
      BY <1>5, <2>1, <2>3 DEF EntryIsPast
    <2> QED
      BY <1>3, <2>2, <2>3
  <1>6. ASSUME NEW p \in Req, pc'[p] = "done",
               audit' = Append(audit, EntryOf(p, "CARD_CREATED", p))
                 \/ audit' = Append(audit, EntryOf(p, "ACCOUNT_CREATED", p))
        PROVE  EntryIsPast(audit', i, pc', card', device')
    BY <1>5, <1>6
  <1>7. ASSUME NEW p \in Req, pc'[p] = "done", CommitFreeze(p),
               audit' = Append(audit, EntryOf(p, FreezeAction(Wanted(p)), call[p].card))
        PROVE  EntryIsPast(audit', i, pc', card', device')
    <2>1. call[p].card \in Card /\ card'[call[p].card] # NoRow
      BY <1>7, <1>1, FreezeRows
    <2>2. FreezeAction(Wanted(p)) \in {"CARD_FROZEN", "CARD_UNFROZEN"}
      BY DEF FreezeAction
    <2> QED
      BY <1>5, <1>7, <2>1, <2>2
  <1>8. ASSUME NEW p \in Req, pc'[p] = "done", CommitRegister(p),
               audit' = Append(audit, EntryOf(p, "DEVICE_TOKEN_REGISTERED", call[p].device))
        PROVE  EntryIsPast(audit', i, pc', card', device')
    BY <1>5, <1>8, RegisterRows
  <1>9. ASSUME NEW p \in Req, pc'[p] = "done", CommitRemove(p),
               audit' = Append(audit, EntryOf(p, "DEVICE_TOKEN_REMOVED", call[p].device))
        PROVE  EntryIsPast(audit', i, pc', card', device')
    BY <1>5, <1>9, RemoveRows
  <1> QED
    BY <1>4, <1>6, <1>7, <1>8, <1>9, Kinds

(* A step that enters something, as the invariants below look at it. *)
LEMMA Entering ==
    ASSUME Inv, NEW p \in Req, pc[p] = "commit", NEW action, NEW row,
           audit' = Append(audit, EntryOf(p, action, row)),
           action \in {"ACCOUNT_CREATED", "CARD_CREATED", "CARD_FROZEN", "CARD_UNFROZEN",
                       "DEVICE_TOKEN_REGISTERED", "DEVICE_TOKEN_REMOVED"},
           row \in AccountId \cup Card \cup Device
    PROVE  /\ EntryOf(p, action, row) \in Entry /\ audit \in Seq(Entry)
           /\ EntryOf(p, action, row).action = action /\ EntryOf(p, action, row).row = row
           /\ EntryOf(p, action, row).req = p /\ EntryOf(p, action, row).user = call[p].user
  BY Fields DEF EntryOf, Entry, Inv, Typed

----------------------------------------------------------------------------
(* Cards *)

(* The request will answer for a status it read. *)
Shows(p, c, s) ==
    /\ pc[p] \in {"update", "commit"} /\ call[p].op = "freeze"
    /\ call[p].card = c /\ seen[p].status = s

CardKept(p, c, s) ==
    /\ Shows(p, c, s) \/ Entered(audit, p, FreezeAction(s), c)
    /\ card[c].status # s
    => Since(audit, since[p], Opposite(s), c)

CardInv == \A p \in Req, c \in Card, s \in {"frozen", "active"} : CardKept(p, c, s)

(* Who has entered something, or goes by a row, has arrived before now. *)
LEMMA EnteredPast ==
    ASSUME Inv, LogInv, NEW p \in Req, NEW action, NEW row, Entered(audit, p, action, row)
    PROVE  /\ pc[p] = "done"
           /\ action \in {"CARD_FROZEN", "CARD_UNFROZEN"} => card[row] # NoRow
           /\ action \in {"DEVICE_TOKEN_REGISTERED", "DEVICE_TOKEN_REMOVED"} =>
                row \in Device /\ device[row] # NoRow
  BY DEF LogInv, Entered, EntryIsPast

(* A request that has arrived began no later than now. *)
LEMMA Arrived ==
    ASSUME Inv, NEW p \in Req, pc[p] # "idle"
    PROVE  since[p] \in Nat /\ since[p] <= Len(audit)
  BY DEF Inv, Typed, Sent

(* Whoever changes a card after it was read is in the log since. *)
LEMMA CardStep == Inv /\ LogInv /\ CardInv /\ [Next]_vars => CardInv'
  <1> SUFFICES ASSUME Inv, LogInv, CardInv, [Next]_vars,
                      NEW p \in Req, NEW c \in Card, NEW s \in {"frozen", "active"}
               PROVE  CardKept(p, c, s)'
    BY DEF CardInv
  <1> DEFINE Known == Shows(p, c, s) \/ Entered(audit, p, FreezeAction(s), c)
  <1>1. CardKept(p, c, s)
    BY DEF CardInv
  <1>2. ASSUME Known
        PROVE  /\ card[c] # NoRow /\ since[p] \in Nat /\ since[p] <= Len(audit)
               /\ since'[p] = since[p]
    <2>1. card[c] # NoRow /\ pc[p] # "idle"
      <3>1. CASE Shows(p, c, s)
        BY <3>1 DEF Shows, Inv, Knows, KnowsCard
      <3>2. CASE Entered(audit, p, FreezeAction(s), c)
        <4>1. FreezeAction(s) \in {"CARD_FROZEN", "CARD_UNFROZEN"}
          BY DEF FreezeAction
        <4> QED
          BY <3>2, <4>1, EnteredPast
      <3> QED
        BY <1>2, <3>1, <3>2
    <2> QED
      BY <2>1, Arrived, Moves
  <1>3. ASSUME Shows(p, c, s)', ~Shows(p, c, s) PROVE card'[c].status = s
    <2>1. /\ pc'[p] \in {"update", "commit"} /\ call'[p].op = "freeze"
          /\ call'[p].card = c /\ seen'[p].status = s
      BY <1>3 DEF Shows
    <2>2. call'[p] = call[p]
      BY <2>1, Moves
    <2>3. ~(pc[p] \in {"update", "commit"} /\ seen'[p] = seen[p])
      BY <1>3, <2>1, <2>2 DEF Shows
    <2> QED
      BY <2>1, <2>2, <2>3, Moves
  <1> DEFINE Goal == CardKept(p, c, s)'
  <1>4. ASSUME UNCHANGED <<audit, card, device>> PROVE Goal
    <2>1. CASE Known
      BY <1>1, <1>2, <1>4, <2>1 DEF CardKept
    <2>2. CASE ~Known
      BY <1>3, <1>4, <2>2 DEF CardKept
    <2> QED
      BY <2>1, <2>2
  <1>5. ASSUME NEW q \in Req, pc[q] = "commit", NEW action, NEW row,
               audit' = Append(audit, EntryOf(q, action, row)),
               action \in {"ACCOUNT_CREATED", "CARD_CREATED", "DEVICE_TOKEN_REGISTERED",
                           "DEVICE_TOKEN_REMOVED"},
               row \in AccountId \cup Card \cup Device,
               card[c] # NoRow => card'[c] = card[c]
        PROVE  Goal
    <2> DEFINE e == EntryOf(q, action, row)
    <2>1. /\ e \in Entry /\ audit \in Seq(Entry) /\ e.action = action
      BY <1>5, Entering
    <2>2. e.action # FreezeAction(s)
      BY <1>5, <2>1 DEF FreezeAction
    <2>3. audit' = Append(audit, e)
      BY <1>5
    <2> HIDE DEF e
    <2>4. Entered(audit', p, FreezeAction(s), c) => Entered(audit, p, FreezeAction(s), c)
      BY <2>1, <2>2, <2>3, EnteredNow
    <2>5. CASE Known
      <3>1. card'[c] = card[c] /\ since'[p] = since[p] /\ since[p] \in Nat
        BY <1>2, <1>5, <2>5
      <3>2. Since(audit, since[p], Opposite(s), c) => Since(audit', since'[p], Opposite(s), c)
        BY <2>1, <2>3, <3>1, SinceStays
      <3> QED
        BY <1>1, <2>5, <3>1, <3>2 DEF CardKept
    <2>6. CASE ~Known
      BY <1>3, <2>4, <2>6 DEF CardKept
    <2> QED
      BY <2>5, <2>6
  <1>6. ASSUME NEW q \in Req, pc[q] = "commit", CommitFreeze(q),
               audit' = Append(audit, EntryOf(q, FreezeAction(Wanted(q)), call[q].card))
        PROVE  Goal
    <2> DEFINE k == call[q].card
               w == Wanted(q)
               e == EntryOf(q, FreezeAction(w), k)
    <2>1. FreezeAction(w) \in {"CARD_FROZEN", "CARD_UNFROZEN"}
      BY DEF FreezeAction
    <2>2. /\ k \in Card /\ w \in {"frozen", "active"} /\ call[q].op = "freeze"
          /\ \/ card' = card /\ seen[q].status = w
             \/ card'[k].status = w /\ \A x \in Card \ {k} : card'[x] = card[x]
      BY <1>6, FreezeRows
    <2>3. /\ e \in Entry /\ audit \in Seq(Entry) /\ e.action = FreezeAction(w)
          /\ e.row = k /\ e.req = q
      BY <1>6, <2>1, <2>2, Entering
    <2>4. audit' = Append(audit, e)
      BY <1>6
    <2>5. FreezeAction(w) = FreezeAction(s) <=> w = s
      BY <2>2 DEF FreezeAction
    <2>6. w # s => FreezeAction(w) = Opposite(s)
      BY <2>2 DEF FreezeAction, Opposite
    <2>7. q = p /\ k = c /\ seen[q].status = w /\ w = s => Shows(p, c, s)
      BY <1>6, <2>2 DEF Shows
    <2> HIDE DEF e, k, w
    <2>8. Entered(audit', p, FreezeAction(s), c) =>
            Entered(audit, p, FreezeAction(s), c) \/ (q = p /\ w = s /\ k = c)
      BY <2>3, <2>4, <2>5, EnteredNow
    <2>9. CASE Known /\ card[c].status # s
      <3>1. Since(audit, since[p], Opposite(s), c)
        BY <1>1, <2>9 DEF CardKept
      <3>2. Since(audit', since'[p], Opposite(s), c)
        BY <1>2, <2>3, <2>4, <2>9, <3>1, SinceStays
      <3> QED
        BY <3>2 DEF CardKept
    <2>10. CASE Known /\ card[c].status = s
      <3>1. card'[c].status # s => w # s /\ c = k
        BY <2>2, <2>10
      <3>2. card'[c].status # s => Since(audit', since'[p], Opposite(s), c)
        <4>1. Since(audit', since[p], e.action, e.row)
          BY <1>2, <2>3, <2>4, <2>10, SinceNow
        <4> QED
          BY <1>2, <2>3, <2>6, <2>10, <3>1, <4>1
      <3> QED
        BY <3>2 DEF CardKept
    <2>11. CASE ~Known
      BY <1>3, <2>2, <2>7, <2>8, <2>11 DEF CardKept
    <2> QED
      BY <2>9, <2>10, <2>11
  <1>7. ASSUME NEW q \in Req, pc[q] = "commit", audit' = Append(audit, EntryOf(q, "CARD_CREATED", q)), CommitIssue(q)
        PROVE  Goal
    <2>1. card[q] = NoRow
      BY <1>7 DEF Inv, Sent
    <2>2. card[c] # NoRow => card'[c] = card[c]
      BY <1>7, <2>1, IssueRows
    <2>3. q \in Card
      BY DEF Card
    <2> QED
      BY <1>5, <1>7, <2>2, <2>3
  <1>8. ASSUME NEW q \in Req, pc[q] = "commit", card' = card,
               \/ audit' = Append(audit, EntryOf(q, "ACCOUNT_CREATED", q))
               \/ /\ CommitRegister(q)
                  /\ audit' = Append(audit, EntryOf(q, "DEVICE_TOKEN_REGISTERED", call[q].device))
               \/ /\ CommitRemove(q)
                  /\ audit' = Append(audit, EntryOf(q, "DEVICE_TOKEN_REMOVED", call[q].device))
        PROVE  Goal
    <2>1. q \in Card /\ (CommitRegister(q) \/ CommitRemove(q) => call[q].device \in Device)
      BY RegisterRows, RemoveRows DEF Card
    <2> HIDE DEF Goal
    <2> QED
      BY <1>5, <1>8, <2>1
  <1> HIDE DEF Goal
  <1>9. Goal
    BY <1>4, <1>6, <1>7, <1>8, Kinds
  <1> QED
    BY <1>9 DEF Goal

(* Every entry is some request's, on behalf of a user. *)
LEMMA EntriesHaveRequests ==
    ASSUME Inv, NEW i \in DOMAIN audit
    PROVE  audit[i].req \in Req /\ audit[i].user \in User
  <1>1. audit \in Seq(Entry)
    BY DEF Inv, Typed
  <1>2. audit[i] \in Entry
    BY <1>1
  <1> QED
    BY <1>2 DEF Entry

(* A card's status is explained by the log, however freezes that read before
   each other's commit interleave. *)
THEOREM CardsExplained == Spec => []CardStatusExplained
  <1>1. Init => LogInv /\ CardInv
    BY DEF Init, LogInv, CardInv, CardKept, Shows, Entered
  <1>2. Inv /\ LogInv /\ CardInv => CardStatusExplained
    <2> SUFFICES ASSUME Inv, LogInv, CardInv, NEW c \in Card, NEW i \in DOMAIN audit
                 PROVE  /\ Did(i, "CARD_FROZEN", c) /\ card[c].status # "frozen" =>
                             \E j \in DOMAIN audit : Did(j, "CARD_UNFROZEN", c) /\ NotBefore(j, i)
                        /\ Did(i, "CARD_UNFROZEN", c) /\ card[c].status # "active" =>
                             \E j \in DOMAIN audit : Did(j, "CARD_FROZEN", c) /\ NotBefore(j, i)
      BY DEF CardStatusExplained
    <2>1. PICK p \in Req : audit[i].req = p
      BY EntriesHaveRequests
    <2>2. /\ Did(i, "CARD_FROZEN", c) => Entered(audit, p, FreezeAction("frozen"), c)
          /\ Did(i, "CARD_UNFROZEN", c) => Entered(audit, p, FreezeAction("active"), c)
      BY <2>1 DEF Did, Entered, FreezeAction
    <2>3. CardKept(p, c, "frozen") /\ CardKept(p, c, "active")
      BY DEF CardInv
    <2>4. /\ Did(i, "CARD_FROZEN", c) /\ card[c].status # "frozen" =>
               Since(audit, since[p], "CARD_UNFROZEN", c)
          /\ Did(i, "CARD_UNFROZEN", c) /\ card[c].status # "active" =>
               Since(audit, since[p], "CARD_FROZEN", c)
      BY <2>2, <2>3 DEF CardKept, Opposite
    <2> QED
      BY <2>1, <2>4 DEF Since, NotBefore, Did
  <1> QED
    BY <1>1, <1>2, LogStep, CardStep, Invariance, PTL DEF Spec

----------------------------------------------------------------------------
(* Devices *)

(* A request that will answer for a row of d it read. *)
Goes(p, op, d) ==
    /\ pc[p] \in {"update", "commit"} /\ call[p].op = op /\ call[p].device = d
    /\ seen[p] # NoRow

ActiveKept(p, d) ==
    /\ \/ Goes(p, "register", d) /\ seen[p].active
       \/ Entered(audit, p, "DEVICE_TOKEN_REGISTERED", d)
    /\ ~device[d].active
    => Since(audit, since[p], "DEVICE_TOKEN_REMOVED", d)

OwnerKept(p, d, u) ==
    /\ \/ Goes(p, "register", d) /\ seen[p].owner = u
       \/ EnteredBy(audit, p, "DEVICE_TOKEN_REGISTERED", d, u)
    /\ device[d].owner # u
    => SinceBy(audit, since[p], "DEVICE_TOKEN_REGISTERED", d, device[d].owner)

GoneKept(p, d) ==
    /\ \/ Goes(p, "remove", d) /\ ~seen[p].active
       \/ Entered(audit, p, "DEVICE_TOKEN_REMOVED", d)
    /\ device[d].active
    => Since(audit, since[p], "DEVICE_TOKEN_REGISTERED", d)

DeviceInv ==
    \A p \in Req, d \in Device :
        ActiveKept(p, d) /\ GoneKept(p, d) /\ \A u \in User : OwnerKept(p, d, u)

(* What becomes of the devices and of the log about them. *)
LEMMA DeviceKinds ==
    ASSUME Inv, [Next]_vars
    PROVE  \/ UNCHANGED <<audit, device>>
           \/ \E e \in Entry :
                /\ audit' = Append(audit, e) /\ device' = device
                /\ e.action \notin {"DEVICE_TOKEN_REGISTERED", "DEVICE_TOKEN_REMOVED"}
           \/ \E q \in Req, e \in Entry :
                /\ audit' = Append(audit, e)
                /\ e.req = q /\ e.user = call[q].user /\ e.row = call[q].device
                /\ \/ e.action = "DEVICE_TOKEN_REGISTERED" /\ CommitRegister(q)
                   \/ e.action = "DEVICE_TOKEN_REMOVED" /\ CommitRemove(q)
  <1>1. ASSUME NEW q \in Req, pc[q] = "commit", NEW action, NEW row,
               audit' = Append(audit, EntryOf(q, action, row)), device' = device,
               action \in {"ACCOUNT_CREATED", "CARD_CREATED", "CARD_FROZEN", "CARD_UNFROZEN"},
               row \in AccountId \cup Card \cup Device
        PROVE  \E e \in Entry :
                 /\ audit' = Append(audit, e) /\ device' = device
                 /\ e.action \notin {"DEVICE_TOKEN_REGISTERED", "DEVICE_TOKEN_REMOVED"}
    BY <1>1, Entering
  <1>2. ASSUME NEW q \in Req, pc[q] = "commit",
               NEW action \in {"DEVICE_TOKEN_REGISTERED", "DEVICE_TOKEN_REMOVED"},
               audit' = Append(audit, EntryOf(q, action, call[q].device)),
               call[q].device \in Device
        PROVE  \E e \in Entry :
                 /\ audit' = Append(audit, e) /\ e.action = action
                 /\ e.req = q /\ e.user = call[q].user /\ e.row = call[q].device
    BY <1>2, Entering
  <1>3. \A q \in Req : q \in Card
    BY DEF Card
  <1>4. ASSUME NEW q \in Req, CommitFreeze(q)
        PROVE  /\ call[q].card \in Card
               /\ FreezeAction(Wanted(q)) \in {"CARD_FROZEN", "CARD_UNFROZEN"}
    BY <1>4, FreezeRows DEF FreezeAction
  <1>5. ASSUME NEW q \in Req, CommitRegister(q) \/ CommitRemove(q)
        PROVE  call[q].device \in Device
    BY <1>5, RegisterRows, RemoveRows
  <1>6. CASE UNCHANGED <<audit, card, device>>
    BY <1>6
  <1>7. ASSUME NEW p \in Req, pc[p] = "commit",
               \/ /\ audit' = Append(audit, EntryOf(p, "ACCOUNT_CREATED", p))
                  /\ device' = device
               \/ /\ audit' = Append(audit, EntryOf(p, "CARD_CREATED", p))
                  /\ device' = device
               \/ /\ audit' = Append(audit, EntryOf(p, FreezeAction(Wanted(p)), call[p].card))
                  /\ CommitFreeze(p) /\ device' = device
        PROVE  \E e \in Entry :
                /\ audit' = Append(audit, e) /\ device' = device
                /\ e.action \notin {"DEVICE_TOKEN_REGISTERED", "DEVICE_TOKEN_REMOVED"}
    BY <1>1, <1>3, <1>4, <1>7
  <1>8. ASSUME NEW p \in Req, pc[p] = "commit", CommitRegister(p),
               audit' = Append(audit, EntryOf(p, "DEVICE_TOKEN_REGISTERED", call[p].device))
        PROVE  \E q \in Req, e \in Entry :
                /\ audit' = Append(audit, e)
                /\ e.req = q /\ e.user = call[q].user /\ e.row = call[q].device
                /\ \/ e.action = "DEVICE_TOKEN_REGISTERED" /\ CommitRegister(q)
                   \/ e.action = "DEVICE_TOKEN_REMOVED" /\ CommitRemove(q)
    BY <1>2, <1>5, <1>8
  <1>9. ASSUME NEW p \in Req, pc[p] = "commit", CommitRemove(p),
               audit' = Append(audit, EntryOf(p, "DEVICE_TOKEN_REMOVED", call[p].device))
        PROVE  \E q \in Req, e \in Entry :
                /\ audit' = Append(audit, e)
                /\ e.req = q /\ e.user = call[q].user /\ e.row = call[q].device
                /\ \/ e.action = "DEVICE_TOKEN_REGISTERED" /\ CommitRegister(q)
                   \/ e.action = "DEVICE_TOKEN_REMOVED" /\ CommitRemove(q)
    BY <1>2, <1>5, <1>9
  <1> QED
    BY <1>6, <1>7, <1>8, <1>9, Kinds

(* A request that begins to go by a row has just read it. *)
LEMMA Fresh ==
    ASSUME Inv, [Next]_vars, NEW p \in Req, NEW op \in {"register", "remove"}, NEW d,
           Goes(p, op, d)'
    PROVE  \/ Goes(p, op, d) /\ seen'[p] = seen[p]
           \/ device' = device /\ seen'[p] = device[d] /\ audit' = audit
  <1>1. /\ pc'[p] \in {"update", "commit"} /\ call'[p].op = op /\ call'[p].device = d
        /\ seen'[p] # NoRow
    BY DEF Goes
  <1>2. call'[p] = call[p]
    BY <1>1, Moves
  <1>3. ~(pc[p] = "insert" /\ call[p].op \in {"open", "register"} /\ seen'[p] = seen[p])
    BY <1>1, <1>2 DEF Inv, Knows, KnowsDevice
  <1> QED
    BY <1>1, <1>2, <1>3, Moves DEF Goes

(* A request that goes by a row, or has entered something about it. *)
LEMMA GoesPast ==
    ASSUME Inv, LogInv, [Next]_vars, NEW p \in Req, NEW d \in Device,
           \/ \E op \in {"register", "remove"} : Goes(p, op, d)
           \/ \E action \in {"DEVICE_TOKEN_REGISTERED", "DEVICE_TOKEN_REMOVED"} :
                Entered(audit, p, action, d)
    PROVE  /\ device[d] # NoRow /\ since'[p] = since[p]
           /\ since[p] \in Nat /\ since[p] <= Len(audit)
  <1>1. device[d] # NoRow /\ pc[p] # "idle"
    <2>1. CASE \E op \in {"register", "remove"} : Goes(p, op, d)
      BY <2>1 DEF Goes, Inv, Knows, KnowsDevice
    <2>2. CASE \E action \in {"DEVICE_TOKEN_REGISTERED", "DEVICE_TOKEN_REMOVED"} :
                Entered(audit, p, action, d)
      BY <2>2, EnteredPast
    <2> QED
      BY <2>1, <2>2
  <1> QED
    BY <1>1, Arrived, Moves

(* A registration deactivates nothing, and is overridden by a removal. *)
LEMMA ActiveStep ==
    ASSUME Inv, LogInv, [Next]_vars, NEW p \in Req, NEW d \in Device, ActiveKept(p, d)
    PROVE  ActiveKept(p, d)'
  <1> DEFINE Was == Goes(p, "register", d) /\ seen[p].active
             Did0 == Entered(audit, p, "DEVICE_TOKEN_REGISTERED", d)
             Lost(log, n) == Since(log, n, "DEVICE_TOKEN_REMOVED", d)
             Goal == ActiveKept(p, d)'
  <1>0. Goal <=> (((Goes(p, "register", d)' /\ seen'[p].active)
                    \/ Entered(audit', p, "DEVICE_TOKEN_REGISTERED", d))
                  /\ ~device'[d].active => Lost(audit', since'[p]))
    BY DEF ActiveKept
  <1>1. (Was \/ Did0) /\ ~device[d].active => Lost(audit, since[p])
    BY DEF ActiveKept
  <1>2. Was \/ Did0 => /\ device[d] # NoRow /\ since'[p] = since[p]
                       /\ since[p] \in Nat /\ since[p] <= Len(audit)
    BY GoesPast
  <1>3. Goes(p, "register", d)' /\ seen'[p].active => Was \/ device'[d].active
    BY Fresh
  <1>4. audit \in Seq(Entry)
    BY DEF Inv, Typed
  <1> HIDE DEF Was, Did0, Lost, Goal
  <1>5. ASSUME UNCHANGED <<audit, device>> PROVE Goal
    <2>1. Entered(audit', p, "DEVICE_TOKEN_REGISTERED", d) <=> Did0
      BY <1>5 DEF Did0
    <2> QED
      BY <1>0, <1>1, <1>2, <1>3, <1>5, <2>1
  <1>6. ASSUME NEW e \in Entry, audit' = Append(audit, e),
               Entered(audit', p, "DEVICE_TOKEN_REGISTERED", d) => Did0 \/ Was \/ device'[d].active,
               (Was \/ Did0) /\ device[d].active /\ ~device'[d].active =>
                 e.action = "DEVICE_TOKEN_REMOVED" /\ e.row = d
        PROVE  Goal
    <2>1. CASE Was \/ Did0
      <3>1. Lost(audit, since[p]) => Lost(audit', since'[p])
        BY <1>2, <1>4, <1>6, <2>1, SinceStays DEF Lost
      <3>2. Since(audit', since'[p], e.action, e.row)
        BY <1>2, <1>4, <1>6, <2>1, SinceNow
      <3>3. e.action = "DEVICE_TOKEN_REMOVED" /\ e.row = d => Lost(audit', since'[p])
        BY <3>2 DEF Lost
      <3> QED
        BY <1>0, <1>1, <1>6, <2>1, <3>1, <3>3
    <2>2. CASE ~(Was \/ Did0)
      BY <1>0, <1>3, <1>6, <2>2
    <2> QED
      BY <2>1, <2>2
  <1>7. ASSUME NEW e \in Entry, audit' = Append(audit, e),
               e.action # "DEVICE_TOKEN_REGISTERED" \/ e.row # d \/ e.req # p
        PROVE  Entered(audit', p, "DEVICE_TOKEN_REGISTERED", d) => Did0
    BY <1>4, <1>7, EnteredNow DEF Did0
  <1>8. ASSUME NEW e \in Entry, audit' = Append(audit, e), device' = device,
               e.action \notin {"DEVICE_TOKEN_REGISTERED", "DEVICE_TOKEN_REMOVED"}
        PROVE  Goal
    BY <1>6, <1>7, <1>8
  <1>9. ASSUME NEW q \in Req, NEW e \in Entry, audit' = Append(audit, e), e.req = q,
               e.row = call[q].device, e.action = "DEVICE_TOKEN_REGISTERED", CommitRegister(q)
        PROVE  Goal
    <2> DEFINE k == call[q].device
    <2>1. /\ \A x \in Device \ {k} : device'[x] = device[x]
          /\ \/ device'[k].active
             \/ seen[q] \in DeviceRow /\ seen[q].active /\ device'[k].active = device[k].active
          /\ pc[q] = "commit" /\ call[q].op = "register"
      BY <1>9, RegisterRows
    <2>2. device[d].active => device'[d].active
      BY <2>1
    <2>3. seen[q] \in DeviceRow => seen[q] # NoRow
      BY HoldingsAssumption
    <2>4. Entered(audit', p, "DEVICE_TOKEN_REGISTERED", d) => Did0 \/ Was \/ device'[d].active
      <3>1. CASE q = p /\ k = d
        BY <2>1, <2>3, <3>1 DEF Was, Goes
      <3>2. CASE ~(q = p /\ k = d)
        BY <1>7, <1>9, <3>2
      <3> QED
        BY <3>1, <3>2
    <2> QED
      BY <1>6, <1>9, <2>2, <2>4
  <1>10. ASSUME NEW q \in Req, NEW e \in Entry, audit' = Append(audit, e), e.req = q,
                e.row = call[q].device, e.action = "DEVICE_TOKEN_REMOVED", CommitRemove(q)
         PROVE  Goal
    <2>1. \A x \in Device \ {call[q].device} : device'[x] = device[x]
      BY <1>10, RemoveRows
    <2>2. device[d].active /\ ~device'[d].active => e.row = d
      BY <1>10, <2>1
    <2> QED
      BY <1>6, <1>7, <1>10, <2>2
  <1> QED
    BY <1>5, <1>8, <1>9, <1>10, DeviceKinds DEF Goal

(* A registration hands the device over, and is overridden by one only. *)
LEMMA OwnerStep ==
    ASSUME Inv, LogInv, [Next]_vars, NEW p \in Req, NEW d \in Device, NEW u \in User,
           OwnerKept(p, d, u)
    PROVE  OwnerKept(p, d, u)'
  <1> DEFINE Was == Goes(p, "register", d) /\ seen[p].owner = u
             Did0 == EnteredBy(audit, p, "DEVICE_TOKEN_REGISTERED", d, u)
             Given(log, n, v) == SinceBy(log, n, "DEVICE_TOKEN_REGISTERED", d, v)
             Goal == OwnerKept(p, d, u)'
  <1>0. Goal <=> (((Goes(p, "register", d)' /\ seen'[p].owner = u)
                    \/ EnteredBy(audit', p, "DEVICE_TOKEN_REGISTERED", d, u))
                  /\ device'[d].owner # u => Given(audit', since'[p], device'[d].owner))
    BY DEF OwnerKept
  <1>1. (Was \/ Did0) /\ device[d].owner # u => Given(audit, since[p], device[d].owner)
    BY DEF OwnerKept
  <1>2. Was \/ Did0 => /\ device[d] # NoRow /\ since'[p] = since[p]
                       /\ since[p] \in Nat /\ since[p] <= Len(audit)
    <2>1. Did0 => Entered(audit, p, "DEVICE_TOKEN_REGISTERED", d)
      BY DEF Entered, EnteredBy
    <2> QED
      BY <2>1, GoesPast
  <1>3. Goes(p, "register", d)' /\ seen'[p].owner = u => Was \/ device'[d].owner = u
    BY Fresh
  <1>4. audit \in Seq(Entry)
    BY DEF Inv, Typed
  <1> HIDE DEF Was, Did0, Given, Goal
  <1>5. ASSUME UNCHANGED <<audit, device>> PROVE Goal
    <2>1. EnteredBy(audit', p, "DEVICE_TOKEN_REGISTERED", d, u) <=> Did0
      BY <1>5 DEF Did0
    <2> QED
      BY <1>0, <1>1, <1>2, <1>3, <1>5, <2>1
  <1>6. ASSUME NEW e \in Entry, audit' = Append(audit, e),
               EnteredBy(audit', p, "DEVICE_TOKEN_REGISTERED", d, u) =>
                 Did0 \/ Was \/ device'[d].owner = u,
               \/ device'[d].owner = device[d].owner
               \/ /\ e.action = "DEVICE_TOKEN_REGISTERED" /\ e.row = d
                  /\ e.user = device'[d].owner
        PROVE  Goal
    <2>1. CASE Was \/ Did0
      <3>1. Given(audit, since[p], device[d].owner) => Given(audit', since'[p], device[d].owner)
        BY <1>2, <1>4, <1>6, <2>1, SinceStays DEF Given
      <3>2. SinceBy(audit', since'[p], e.action, e.row, e.user)
        BY <1>2, <1>4, <1>6, <2>1, SinceNow
      <3>3. CASE device'[d].owner = device[d].owner
        BY <1>0, <1>1, <2>1, <3>1, <3>3
      <3>4. CASE /\ e.action = "DEVICE_TOKEN_REGISTERED" /\ e.row = d
                 /\ e.user = device'[d].owner
        <4>1. Given(audit', since'[p], device'[d].owner)
          BY <3>2, <3>4 DEF Given
        <4> QED
          BY <1>0, <4>1
      <3> QED
        BY <1>6, <3>3, <3>4
    <2>2. CASE ~(Was \/ Did0)
      BY <1>0, <1>3, <1>6, <2>2
    <2> QED
      BY <2>1, <2>2
  <1>7. ASSUME NEW e \in Entry, audit' = Append(audit, e),
               e.action # "DEVICE_TOKEN_REGISTERED" \/ e.row # d \/ e.req # p \/ e.user # u
        PROVE  EnteredBy(audit', p, "DEVICE_TOKEN_REGISTERED", d, u) => Did0
    BY <1>4, <1>7, EnteredNow DEF Did0
  <1>8. ASSUME NEW e \in Entry, audit' = Append(audit, e), device' = device,
               e.action \notin {"DEVICE_TOKEN_REGISTERED", "DEVICE_TOKEN_REMOVED"}
        PROVE  Goal
    BY <1>6, <1>7, <1>8
  <1>9. ASSUME NEW q \in Req, NEW e \in Entry, audit' = Append(audit, e), e.req = q,
               e.user = call[q].user, e.row = call[q].device,
               e.action = "DEVICE_TOKEN_REGISTERED", CommitRegister(q)
        PROVE  Goal
    <2> DEFINE k == call[q].device
    <2>1. /\ \A x \in Device \ {k} : device'[x] = device[x]
          /\ \/ device'[k].owner = call[q].user
             \/ /\ seen[q] \in DeviceRow /\ seen[q].owner = call[q].user
                /\ device'[k].owner = device[k].owner
          /\ pc[q] = "commit" /\ call[q].op = "register"
      BY <1>9, RegisterRows
    <2>2. \/ device'[d].owner = device[d].owner
          \/ e.row = d /\ e.user = device'[d].owner
      BY <1>9, <2>1
    <2>3. seen[q] \in DeviceRow => seen[q] # NoRow
      BY HoldingsAssumption
    <2>4. EnteredBy(audit', p, "DEVICE_TOKEN_REGISTERED", d, u) => Did0 \/ Was \/ device'[d].owner = u
      <3>1. CASE q = p /\ k = d /\ call[q].user = u
        BY <2>1, <2>3, <3>1 DEF Was, Goes
      <3>2. CASE ~(q = p /\ k = d /\ call[q].user = u)
        BY <1>7, <1>9, <3>2
      <3> QED
        BY <3>1, <3>2
    <2> QED
      BY <1>6, <1>9, <2>2, <2>4
  <1>10. ASSUME NEW q \in Req, NEW e \in Entry, audit' = Append(audit, e), e.req = q,
                e.row = call[q].device, e.action = "DEVICE_TOKEN_REMOVED", CommitRemove(q)
         PROVE  Goal
    <2>1. device'[d].owner = device[d].owner
      BY <1>10, RemoveRows
    <2> QED
      BY <1>6, <1>7, <1>10, <2>1
  <1> QED
    BY <1>5, <1>8, <1>9, <1>10, DeviceKinds DEF Goal

(* A removal is overridden by a registration only. *)
LEMMA GoneStep ==
    ASSUME Inv, LogInv, [Next]_vars, NEW p \in Req, NEW d \in Device, GoneKept(p, d)
    PROVE  GoneKept(p, d)'
  <1> DEFINE Was == Goes(p, "remove", d) /\ ~seen[p].active
             Did0 == Entered(audit, p, "DEVICE_TOKEN_REMOVED", d)
             Back(log, n) == Since(log, n, "DEVICE_TOKEN_REGISTERED", d)
             Goal == GoneKept(p, d)'
  <1>0. Goal <=> (((Goes(p, "remove", d)' /\ ~seen'[p].active)
                    \/ Entered(audit', p, "DEVICE_TOKEN_REMOVED", d))
                  /\ device'[d].active => Back(audit', since'[p]))
    BY DEF GoneKept
  <1>1. (Was \/ Did0) /\ device[d].active => Back(audit, since[p])
    BY DEF GoneKept
  <1>2. Was \/ Did0 => /\ device[d] # NoRow /\ since'[p] = since[p]
                       /\ since[p] \in Nat /\ since[p] <= Len(audit)
    BY GoesPast
  <1>3. Goes(p, "remove", d)' /\ ~seen'[p].active => Was \/ ~device'[d].active
    BY Fresh
  <1>4. audit \in Seq(Entry)
    BY DEF Inv, Typed
  <1> HIDE DEF Was, Did0, Back, Goal
  <1>5. ASSUME UNCHANGED <<audit, device>> PROVE Goal
    <2>1. Entered(audit', p, "DEVICE_TOKEN_REMOVED", d) <=> Did0
      BY <1>5 DEF Did0
    <2> QED
      BY <1>0, <1>1, <1>2, <1>3, <1>5, <2>1
  <1>6. ASSUME NEW e \in Entry, audit' = Append(audit, e),
               Entered(audit', p, "DEVICE_TOKEN_REMOVED", d) => Did0 \/ Was \/ ~device'[d].active,
               (Was \/ Did0) /\ ~device[d].active /\ device'[d].active =>
                 e.action = "DEVICE_TOKEN_REGISTERED" /\ e.row = d
        PROVE  Goal
    <2>1. CASE Was \/ Did0
      <3>1. Back(audit, since[p]) => Back(audit', since'[p])
        BY <1>2, <1>4, <1>6, <2>1, SinceStays DEF Back
      <3>2. Since(audit', since'[p], e.action, e.row)
        BY <1>2, <1>4, <1>6, <2>1, SinceNow
      <3>3. e.action = "DEVICE_TOKEN_REGISTERED" /\ e.row = d => Back(audit', since'[p])
        BY <3>2 DEF Back
      <3> QED
        BY <1>0, <1>1, <1>6, <2>1, <3>1, <3>3
    <2>2. CASE ~(Was \/ Did0)
      BY <1>0, <1>3, <1>6, <2>2
    <2> QED
      BY <2>1, <2>2
  <1>7. ASSUME NEW e \in Entry, audit' = Append(audit, e),
               e.action # "DEVICE_TOKEN_REMOVED" \/ e.row # d \/ e.req # p
        PROVE  Entered(audit', p, "DEVICE_TOKEN_REMOVED", d) => Did0
    BY <1>4, <1>7, EnteredNow DEF Did0
  <1>8. ASSUME NEW e \in Entry, audit' = Append(audit, e), device' = device,
               e.action \notin {"DEVICE_TOKEN_REGISTERED", "DEVICE_TOKEN_REMOVED"}
        PROVE  Goal
    BY <1>6, <1>7, <1>8
  <1>9. ASSUME NEW q \in Req, NEW e \in Entry, audit' = Append(audit, e), e.req = q,
               e.row = call[q].device, e.action = "DEVICE_TOKEN_REGISTERED", CommitRegister(q)
        PROVE  Goal
    <2>1. \A x \in Device \ {call[q].device} : device'[x] = device[x]
      BY <1>9, RegisterRows
    <2>2. ~device[d].active /\ device'[d].active => e.row = d
      BY <1>9, <2>1
    <2> QED
      BY <1>6, <1>7, <1>9, <2>2
  <1>10. ASSUME NEW q \in Req, NEW e \in Entry, audit' = Append(audit, e), e.req = q,
                e.row = call[q].device, e.action = "DEVICE_TOKEN_REMOVED", CommitRemove(q)
         PROVE  Goal
    <2> DEFINE k == call[q].device
    <2>1. /\ \A x \in Device \ {k} : device'[x] = device[x]
          /\ (~seen[q].active /\ device' = device) \/ ~device'[k].active
          /\ pc[q] = "commit" /\ call[q].op = "remove" /\ seen[q] \in DeviceRow
      BY <1>10, RemoveRows
    <2>2. device'[d].active => device[d].active
      BY <2>1
    <2>3. seen[q] # NoRow
      BY <2>1, HoldingsAssumption
    <2>4. Entered(audit', p, "DEVICE_TOKEN_REMOVED", d) => Did0 \/ Was \/ ~device'[d].active
      <3>1. CASE q = p /\ k = d
        BY <2>1, <2>3, <3>1 DEF Was, Goes
      <3>2. CASE ~(q = p /\ k = d)
        BY <1>7, <1>10, <3>2
      <3> QED
        BY <3>1, <3>2
    <2> QED
      BY <1>6, <1>10, <2>2, <2>4
  <1> QED
    BY <1>5, <1>8, <1>9, <1>10, DeviceKinds DEF Goal

(* Devices are explained after every step. *)
LEMMA DeviceStep == Inv /\ LogInv /\ DeviceInv /\ [Next]_vars => DeviceInv'
  BY ActiveStep, OwnerStep, GoneStep DEF DeviceInv

(* A device token's owner and whether it is active are explained by the log:
   what a registration or a removal left was changed only by another one
   that was not over when it began. *)
THEOREM DevicesExplained == Spec => []DeviceExplained
  <1>1. Init => LogInv /\ DeviceInv
    BY DEF Init, LogInv, DeviceInv, ActiveKept, OwnerKept, GoneKept, Goes, Entered, EnteredBy
  <1>2. Inv /\ LogInv /\ DeviceInv => DeviceExplained
    <2> SUFFICES ASSUME Inv, LogInv, DeviceInv, NEW d \in Device, NEW i \in DOMAIN audit
                 PROVE  /\ Did(i, "DEVICE_TOKEN_REGISTERED", d) /\ ~device[d].active =>
                             \E j \in DOMAIN audit :
                                Did(j, "DEVICE_TOKEN_REMOVED", d) /\ NotBefore(j, i)
                        /\ Did(i, "DEVICE_TOKEN_REGISTERED", d) /\ device[d].owner # audit[i].user =>
                             \E j \in DOMAIN audit : /\ Did(j, "DEVICE_TOKEN_REGISTERED", d)
                                                     /\ audit[j].user = device[d].owner
                                                     /\ NotBefore(j, i)
                        /\ Did(i, "DEVICE_TOKEN_REMOVED", d) /\ device[d].active =>
                             \E j \in DOMAIN audit :
                                Did(j, "DEVICE_TOKEN_REGISTERED", d) /\ NotBefore(j, i)
      BY DEF DeviceExplained
    <2>1. PICK p \in Req, u \in User : audit[i].req = p /\ audit[i].user = u
      BY EntriesHaveRequests
    <2>2. ActiveKept(p, d) /\ GoneKept(p, d) /\ OwnerKept(p, d, u)
      BY DEF DeviceInv
    <2>3. /\ Did(i, "DEVICE_TOKEN_REGISTERED", d) =>
               /\ Entered(audit, p, "DEVICE_TOKEN_REGISTERED", d)
               /\ EnteredBy(audit, p, "DEVICE_TOKEN_REGISTERED", d, u)
          /\ Did(i, "DEVICE_TOKEN_REMOVED", d) => Entered(audit, p, "DEVICE_TOKEN_REMOVED", d)
      BY <2>1 DEF Did, Entered, EnteredBy
    <2>4. Did(i, "DEVICE_TOKEN_REGISTERED", d) /\ ~device[d].active =>
            Since(audit, since[p], "DEVICE_TOKEN_REMOVED", d)
      BY <2>2, <2>3 DEF ActiveKept
    <2>5. Did(i, "DEVICE_TOKEN_REGISTERED", d) /\ device[d].owner # u =>
            SinceBy(audit, since[p], "DEVICE_TOKEN_REGISTERED", d, device[d].owner)
      BY <2>2, <2>3 DEF OwnerKept
    <2>6. Did(i, "DEVICE_TOKEN_REMOVED", d) /\ device[d].active =>
            Since(audit, since[p], "DEVICE_TOKEN_REGISTERED", d)
      BY <2>2, <2>3 DEF GoneKept
    <2> QED
      BY <2>1, <2>4, <2>5, <2>6 DEF Since, SinceBy, NotBefore, Did
  <1> QED
    BY <1>1, <1>2, LogStep, DeviceStep, Invariance, PTL DEF Spec

----------------------------------------------------------------------------
(* Who had a device: whoever the log, or the opening table, gave it to. *)

Had(log, d, u) ==
    \/ OpeningDevice[d] # NoRow /\ OpeningDevice[d].owner = u
    \/ \E j \in DOMAIN log :
         log[j].action = "DEVICE_TOKEN_REGISTERED" /\ log[j].row = d /\ log[j].user = u

OwnersHadIt == \A d \in Device : device[d] # NoRow => Had(audit, d, device[d].owner)

WillRemove(p, d) == Goes(p, "remove", d) => Had(audit, d, call[p].user)

HadInv ==
    /\ OwnersHadIt
    /\ \A p \in Req, d \in Device : WillRemove(p, d)
    /\ RemoversHadIt

(* A longer log gives more. *)
LEMMA HadMore ==
    ASSUME NEW log \in Seq(Entry), NEW e \in Entry, NEW d, NEW u
    PROVE  /\ Had(log, d, u) => Had(Append(log, e), d, u)
           /\ e.action = "DEVICE_TOKEN_REGISTERED" => Had(Append(log, e), e.row, e.user)
  <1> DEFINE more == Append(log, e)
             last == Len(log) + 1
  <1>1. \A i \in DOMAIN log : i \in DOMAIN more /\ more[i] = log[i]
    OBVIOUS
  <1>2. last \in DOMAIN more /\ more[last] = e
    OBVIOUS
  <1> HIDE DEF more, last
  <1>3. Had(log, d, u) => Had(more, d, u)
    BY <1>1 DEF Had
  <1>4. e.action = "DEVICE_TOKEN_REGISTERED" => Had(more, e.row, e.user)
    BY <1>2 DEF Had
  <1> QED
    BY <1>3, <1>4 DEF more

(* A request reads a device of its user, and the user had it since before. *)
LEMMA HadStep == Inv /\ LogInv /\ HadInv /\ [Next]_vars => HadInv'
  <1> SUFFICES ASSUME Inv, LogInv, HadInv, [Next]_vars PROVE HadInv'
    OBVIOUS
  <1>1. audit \in Seq(Entry)
    BY DEF Inv, Typed
  <1>2. \A d, u : Had(audit, d, u) => Had(audit', d, u)
    BY <1>1, HadMore, DeviceKinds
  <1>3. OwnersHadIt'
    <2> SUFFICES ASSUME NEW d \in Device, device'[d] # NoRow
                 PROVE  Had(audit', d, device'[d].owner)
      BY DEF OwnersHadIt
    <2>1. ASSUME device' = device PROVE Had(audit', d, device'[d].owner)
      BY <1>2, <2>1 DEF HadInv, OwnersHadIt
    <2>2. ASSUME NEW q \in Req, NEW e \in Entry, audit' = Append(audit, e),
                 e.user = call[q].user, e.row = call[q].device,
                 e.action = "DEVICE_TOKEN_REGISTERED", CommitRegister(q)
          PROVE  Had(audit', d, device'[d].owner)
      <3> DEFINE k == call[q].device
      <3>1. /\ \A x \in Device \ {k} : device'[x] = device[x]
            /\ \/ device'[k].owner = call[q].user
               \/ device[k] # NoRow /\ device'[k].owner = device[k].owner
        BY <2>2, RegisterRows
      <3>2. Had(audit', k, call[q].user)
        BY <1>1, <2>2, HadMore
      <3>3. CASE device[d] # NoRow /\ device'[d].owner = device[d].owner
        BY <1>2, <3>3 DEF HadInv, OwnersHadIt
      <3>4. CASE d = k /\ device'[d].owner = call[q].user
        BY <3>2, <3>4
      <3> QED
        BY <3>1, <3>3, <3>4
    <2>3. ASSUME NEW q \in Req, CommitRemove(q) PROVE Had(audit', d, device'[d].owner)
      <3>1. device[d] # NoRow /\ device'[d].owner = device[d].owner
        BY <2>3, RemoveRows
      <3> QED
        BY <1>2, <3>1 DEF HadInv, OwnersHadIt
    <2> QED
      BY <2>1, <2>2, <2>3, DeviceKinds
  <1>4. ASSUME NEW p \in Req, NEW d \in Device PROVE WillRemove(p, d)'
    <2> SUFFICES ASSUME Goes(p, "remove", d)' PROVE Had(audit', d, call'[p].user)
      BY DEF WillRemove
    <2>1. call'[p] = call[p] /\ call[p].op = "remove" /\ pc'[p] \in {"update", "commit"}
      BY Moves DEF Goes
    <2>2. CASE Goes(p, "remove", d)
      BY <1>2, <2>1, <2>2 DEF HadInv, WillRemove
    <2>3. CASE device' = device /\ seen'[p] = device[d] /\ audit' = audit
      <3>1. /\ call'[p].device = d /\ device[d] # NoRow
        BY <2>3 DEF Goes
      <3>2. seen'[p].owner = call'[p].user
        BY InvStep, <2>1 DEF Inv, Knows, KnowsDevice
      <3> QED
        BY <2>3, <3>1, <3>2 DEF HadInv, OwnersHadIt
    <2> QED
      BY <2>2, <2>3, Fresh
  <1>5. RemoversHadIt'
    <2> DEFINE Right(log, i) ==
                  LET d == log[i].row
                  IN  \/ OpeningDevice[d] # NoRow /\ OpeningDevice[d].owner = log[i].user
                      \/ \E j \in 1 .. i - 1 :
                           /\ log[j].action = "DEVICE_TOKEN_REGISTERED" /\ log[j].row = d
                           /\ log[j].user = log[i].user
    <2>1. \A i \in DOMAIN audit : audit[i].action = "DEVICE_TOKEN_REMOVED" => Right(audit, i)
      BY DEF HadInv, RemoversHadIt, Did
    <2> SUFFICES ASSUME NEW i \in DOMAIN audit', audit'[i].action = "DEVICE_TOKEN_REMOVED"
                 PROVE  Right(audit', i)
      BY DEF RemoversHadIt, Did
    <2>2. ASSUME UNCHANGED audit PROVE Right(audit', i)
      BY <2>1, <2>2
    <2>3. ASSUME NEW e \in Entry, audit' = Append(audit, e), i \in DOMAIN audit
          PROVE  Right(audit', i)
      <3>1. \A j \in 1 .. i : audit'[j] = audit[j]
        BY <1>1, <2>3
      <3>2. i \in 1 .. i /\ \A j \in 1 .. i - 1 : j \in 1 .. i
        BY <1>1, <2>3
      <3>3. audit'[i] = audit[i]
        BY <3>1, <3>2
      <3>4. Right(audit, i)
        BY <2>1, <2>3, <3>3
      <3> QED
        BY <3>1, <3>2, <3>3, <3>4
    <2>4. ASSUME NEW e \in Entry, audit' = Append(audit, e), i \notin DOMAIN audit
          PROVE  audit'[i] = e /\ i = Len(audit) + 1
      BY <1>1, <2>4
    <2>5. ASSUME NEW q \in Req, NEW e \in Entry, audit' = Append(audit, e), i \notin DOMAIN audit,
                 e.user = call[q].user, e.row = call[q].device, CommitRemove(q)
          PROVE  Right(audit', i)
      <3> DEFINE d == call[q].device
                 u == call[q].user
      <3>1. Had(audit, d, u)
        <4>1. pc[q] = "commit" /\ call[q].op = "remove" /\ d \in Device /\ seen[q] \in DeviceRow
          BY <2>5, RemoveRows
        <4>2. Goes(q, "remove", d)
          BY <4>1, HoldingsAssumption DEF Goes
        <4> QED
          BY <4>1, <4>2 DEF HadInv, WillRemove
      <3>2. audit'[i] = e /\ i = Len(audit) + 1
        BY <2>4, <2>5
      <3>3. /\ DOMAIN audit = 1 .. i - 1
            /\ \A j \in 1 .. i - 1 : audit'[j] = audit[j]
        BY <1>1, <2>5, <3>2
      <3>4. e.row = d /\ e.user = u
        BY <2>5
      <3> HIDE DEF d, u
      <3> QED
        BY <3>1, <3>2, <3>3, <3>4 DEF Had
    <2>6. ASSUME NEW e \in Entry, audit' = Append(audit, e), e.action # "DEVICE_TOKEN_REMOVED"
          PROVE  i \in DOMAIN audit
      BY <2>4, <2>6
    <2> HIDE DEF Right
    <2> QED
      BY <2>2, <2>3, <2>5, <2>6, DeviceKinds
  <1> QED
    BY <1>3, <1>4, <1>5 DEF HadInv

(* Nobody removes a device that was never theirs, although the row is not
   locked between the check and the update. *)
THEOREM RemovalsAreOwners == Spec => []RemoversHadIt
  <1>1. Init => LogInv /\ HadInv
    BY DEF Init, LogInv, HadInv, OwnersHadIt, Had, WillRemove, Goes, RemoversHadIt
  <1>2. HadInv => RemoversHadIt
    BY DEF HadInv
  <1> QED
    BY <1>1, <1>2, LogStep, HadStep, Invariance, PTL DEF Spec
----------------------------------------------------------------------------
(* Every handler comes to its end. *)

(* The steps a request has at most before it, its crash aside: an opening
   may have to draw again and again, and gives up after MaxDraws. *)
StepsLeft == [idle |-> MaxDraws + 4, insert |-> 2, update |-> 2, commit |-> 1,
              done |-> 0, crashed |-> 0]

toGo == [p \in Req |-> IF pc[p] = "read" THEN 3 + (MaxDraws - draws[p]) ELSE StepsLeft[pc[p]]]

(* No step takes a request back, its own take it on, and there are no more
   than MaxDraws + 4 to go. *)
Advance == \A p \in Req : /\ toGo[p] \in 0 .. MaxDraws + 4
                          /\ toGo'[p] <= toGo[p]
                          /\ Handle(p) => toGo'[p] < toGo[p]

LEMMA ToGoType ==
    ASSUME Inv, NEW p \in Req
    PROVE  toGo[p] \in 0 .. MaxDraws + 4
  <1>1. pc[p] \in Stage /\ draws[p] \in 0 .. MaxDraws /\ MaxDraws \in Nat
    BY HoldingsAssumption DEF Inv, Typed
  <1> QED BY <1>1 DEF toGo, Stage, StepsLeft

(* A handler's step goes on, to a later stage or to its next draw. *)
LEMMA HandleAdvances ==
    ASSUME Inv, NEW p \in Req, Handle(p)
    PROVE  toGo'[p] < toGo[p]
  <1>0. /\ pc \in [Req -> Stage] /\ draws \in [Req -> 0 .. MaxDraws] /\ MaxDraws \in Nat
        /\ draws[p] \in 0 .. MaxDraws
    BY HoldingsAssumption DEF Inv, Typed
  <1>1. CASE Draw(p)
    <2>1. pc[p] = "read" /\ draws[p] < MaxDraws
      BY <1>1 DEF Draw, At, Inv, Knows, KnowsAccounts
    <2>2. draws'[p] = draws[p] + 1 /\ pc'[p] \in {"read", "insert", "done"}
      BY <1>0, <1>1, <2>1 DEF Draw, Goto, At
    <2> QED BY <1>0, <2>1, <2>2 DEF toGo, StepsLeft
  <1>2. ASSUME NEW l, Goto(p, l), l \in {"insert", "update", "commit", "done"}, pc[p] = "read"
        PROVE  toGo'[p] < toGo[p]
    <2>1. pc'[p] = l
      BY <1>0, <1>2 DEF Goto
    <2> QED BY <1>0, <1>2, <2>1 DEF toGo, StepsLeft
  <1>3. ASSUME NEW l, Goto(p, l), l \in {"commit", "done"}, pc[p] \in {"insert", "update"}
        PROVE  toGo'[p] < toGo[p]
    BY <1>0, <1>3 DEF Goto, toGo, StepsLeft
  <1>4. ASSUME Goto(p, "done"), pc[p] = "commit"
        PROVE  toGo'[p] < toGo[p]
    BY <1>0, <1>4 DEF Goto, toGo, StepsLeft
  <1>5. CASE IssueRead(p) \/ FreezeRead(p) \/ RegisterRead(p) \/ RemoveRead(p)
    BY <1>2, <1>5 DEF IssueRead, FreezeRead, RegisterRead, RemoveRead, Read, Refuse, At
  <1>6. CASE InsertAccount(p) \/ RegisterInsert(p)
    BY <1>3, <1>6 DEF InsertAccount, RegisterInsert, Hold, Refuse, At
  <1>7. CASE FreezeWrite(p) \/ RegisterWrite(p) \/ RemoveWrite(p)
    BY <1>3, <1>7 DEF FreezeWrite, RegisterWrite, RemoveWrite, Hold, Read, At
  <1>8. CASE CommitAccount(p) \/ CommitIssue(p) \/ CommitFreeze(p)
    BY <1>4, <1>8 DEF CommitAccount, CommitIssue, CommitFreeze, Commit, At
  <1>9. CASE CommitRegister(p) \/ CommitRemove(p)
    BY <1>4, <1>9 DEF CommitRegister, CommitRemove, Commit, At
  <1> QED
    BY <1>1, <1>5, <1>6, <1>7, <1>8, <1>9 DEF Handle

LEMMA StepAdvances ==
    ASSUME Inv, [Next]_vars
    PROVE  Advance
  <1> SUFFICES ASSUME NEW q \in Req
               PROVE  toGo'[q] <= toGo[q] /\ (Handle(q) => toGo'[q] < toGo[q])
    BY ToGoType DEF Advance
  <1>0. toGo[q] \in Int
    BY ToGoType, HoldingsAssumption
  <1>1. CASE Handle(q)
    <2>1. Inv'
      BY InvStep
    <2>2. toGo'[q] \in Int
      <3>1. Inv' => pc'[q] \in Stage /\ draws'[q] \in 0 .. MaxDraws
        BY DEF Inv, Typed
      <3> QED BY <2>1, <3>1, HoldingsAssumption DEF toGo, Stage, StepsLeft
    <2> QED BY <1>0, <1>1, <2>2, HandleAdvances
  <1>2. ASSUME pc'[q] = pc[q], draws'[q] = draws[q], ~Handle(q)
        PROVE  toGo'[q] <= toGo[q] /\ (Handle(q) => toGo'[q] < toGo[q])
    BY <1>0, <1>2 DEF toGo
  <1>3. ASSUME NEW p \in Req \ {q}, Arrive(p) \/ Handle(p) \/ Crash(p), ~Handle(q)
        PROVE  toGo'[q] <= toGo[q] /\ (Handle(q) => toGo'[q] < toGo[q])
    BY <1>2, <1>3, RequestStep DEF Good, Stays
  <1>4. CASE (Arrive(q) \/ Crash(q)) /\ ~Handle(q)
    <2>1. /\ pc \in [Req -> Stage] /\ draws' = draws /\ MaxDraws \in Nat
          /\ pc[q] = "idle" => draws[q] = 0
      BY <1>4, HoldingsAssumption DEF Inv, Typed, Sent, Arrive, Crash
    <2>2. \/ pc[q] = "idle" /\ pc'[q] = "read"
          \/ pc'[q] = "crashed"
      BY <1>4, <2>1 DEF Arrive, Crash, Goto
    <2>3. toGo[q] >= 0
      BY ToGoType, HoldingsAssumption
    <2> QED BY <1>0, <1>4, <2>1, <2>2, <2>3 DEF toGo, StepsLeft
  <1>5. CASE /\ \/ UNCHANGED vars
                \/ \E a \in OldAccount, s \in {"active", "frozen", "closed"} : SetStatus(a, s)
             /\ ~Handle(q)
    BY <1>2, <1>5 DEF vars, SetStatus
  <1> QED BY <1>1, <1>3, <1>4, <1>5 DEF Next

(* Every request has at most MaxDraws + 4 steps before it, and each of its
   own takes one away: opening an account gives up drawing numbers however
   many are taken, and no handler has another loop. *)
THEOREM HandlersAdvance == Spec => [][Advance]_vars
  <1>1. Inv /\ [Next]_vars => [Advance]_vars
    BY StepAdvances
  <1> QED BY <1>1, Invariance, PTL DEF Spec
====
