---- MODULE MCHoldings ----
(***************************************************************************)
(* A small instance of Holdings: alice has an account with a card and a    *)
(* phone, bob has neither; account numbers are so few that they collide.   *)
(***************************************************************************)
EXTENDS Holdings, TLC

CONSTANTS p1, p2, p3, alice, bob, acc, debit, phone, tablet, n1, n2

Symmetry == Permutations({p1, p2, p3})

MCOpeningAccount == acc :> [owner |-> alice, number |-> n1, status |-> "active"]
MCOpeningCard == debit :> [account |-> acc, status |-> "active"]
MCOpeningDevice ==
    phone :> [owner |-> alice, platform |-> "ios", active |-> TRUE] @@ tablet :> NoRow

Openings == {[op |-> "open", user |-> bob]}
Issues == {[op |-> "issue", user |-> u, account |-> acc] : u \in {alice, bob}}
          \cup {[op |-> "issue", user |-> bob, account |-> p] : p \in Req}
Freezes == {[op |-> "freeze", user |-> alice, card |-> debit, frozen |-> f] : f \in BOOLEAN}
           \cup {[op |-> "freeze", user |-> bob, card |-> c, frozen |-> TRUE] : c \in {debit} \cup Req}
Registers == {[op |-> "register", user |-> alice, device |-> phone, platform |-> "ios"],
              [op |-> "register", user |-> bob, device |-> phone, platform |-> "android"],
              [op |-> "register", user |-> bob, device |-> tablet, platform |-> "ios"]}
Removals == {[op |-> "remove", user |-> u, device |-> phone] : u \in {alice, bob}}
            \cup {[op |-> "remove", user |-> bob, device |-> tablet]}

AllCalls == Openings \cup Issues \cup Freezes \cup Registers \cup Removals

Changes == {<<acc, "frozen">>, <<acc, "active">>}

OnePhone ==
    {[op |-> "register", user |-> alice, device |-> phone, platform |-> "ios"],
     [op |-> "remove", user |-> alice, device |-> phone]}
====
