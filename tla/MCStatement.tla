---- MODULE MCStatement ----
(***************************************************************************)
(* The transfers of the run `keys', with a deposit just below half a cent  *)
(* that fills the account a client lists.                                  *)
(***************************************************************************)
EXTENDS Statement, MCTransfers

StatementDeposits == {Dep(bob, 6, 14, FALSE)}
====
