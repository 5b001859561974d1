---- MODULE MCTransfers ----
(***************************************************************************)
(* Small instances of Transfers: the accounts, and the sets of bodies that *)
(* make its requests race, repeat, collide and fail.                       *)
(***************************************************************************)
EXTENDS Transfers, TLC

CONSTANTS p1, p2, p3, alice, bob

Symmetry == Permutations(Req)

MCUser == {alice, bob}
MCOwner == [a \in Accounts |-> IF a = 1 THEN alice ELSE bob]
MCCurrency == [a \in Accounts |-> IF a = 4 THEN "USD" ELSE "MXN"]
MCOpening == [a \in Accounts |-> [balance |-> 30, status |-> "active"]]

(* "long" has 63 characters: it fits the column, "long_in" does not. *)
MCBaseLength == "k" :> 3 @@ "m" :> 3 @@ "long" :> 63

Tx(u, f, t, m, k, n) ==
    [op |-> "transfer", user |-> u, from |-> f, to |-> t, amount |-> m,
     currency |-> "MXN", key |-> [base |-> k, ins |-> n]]
Dep(u, a, m, l) ==
    [op |-> "deposit", user |-> u, account |-> a, amount |-> m, long |-> l]

NoDeposits == {}
NoTransfers == {}
NoChange == {}

(* Opposite directions between accounts that can pay one transfer each, two
   requests for the same transfer, and the "_in" form of its key as a key; a
   deposit just below half a cent with more decimals than its sum keeps, one
   to an account that is unknown and one to another's. *)
RaceTransfers == {Tx(alice, 1, 2, 20, "k", 0), Tx(bob, 2, 1, 20, "m", 0),
                  Tx(alice, 1, 2, 20, "k", 1)}
RaceDeposits == {Dep(alice, 1, 14, TRUE), Dep(alice, 2, 10, FALSE),
                 Dep(alice, 3, 10, FALSE)}
RaceStatus == {<<2, "frozen">>, <<2, "active">>}

(* One key for transfers that share no account, the "_in" form of a key as a
   key, and every way a single request is refused: unknown accounts, one
   account twice, another's account or currency, too much for either side. *)
KeyTransfers == {Tx(alice, 1, 2, 10, "k", 0), Tx(bob, 5, 6, 10, "k", 0),
                 Tx(bob, 5, 6, 10, "k", 1), Tx(bob, 6, 5, 10, "long", 0),
                 Tx(alice, 3, 1, 10, "m", 0), Tx(alice, 1, 3, 10, "m", 0),
                 Tx(alice, 1, 1, 10, "m", 0), Tx(bob, 1, 2, 10, "m", 0),
                 Tx(alice, 1, 4, 10, "m", 0), Tx(bob, 2, 1, 40, "m", 0)}

None == {}
OneTransfer == {Tx(alice, 1, 2, 10, "k", 0)}
ReusedKey == {Tx(alice, 1, 2, 10, "k", 0), Tx(bob, 2, 1, 20, "k", 0)}
LongKey == {Tx(alice, 1, 2, 10, "long", 0)}
OneDeposit == {Dep(bob, 2, 10, FALSE)}
====
