------------------------------ MODULE PointBook ------------------------------
(***************************************************************************)
(* What the point system promises: one balance per user and one append-    *)
(* only statement per user, moved together and atomically.  Every line of  *)
(* the statement starts from the balance the previous line left, and the   *)
(* balance never goes below zero or above what the column can hold.        *)
(* Accounts.tla is the code's way of keeping this book with sessions, row  *)
(* locks and the ORM's identity map.                                       *)
(***************************************************************************)
EXTENDS Integers, Sequences

CONSTANTS
  Users,        \* the account holders
  Lines,        \* records that may stand in a statement: at least the
                \* fields user, change, before and after
  MaxBalance    \* the largest value of the INT column points_balance

VARIABLES
  balance,      \* balance[u]: the points u has
  ledger        \* ledger[u]: the statement of u

Init ==
  /\ balance = [u \in Users |-> 0]
  /\ ledger = [u \in Users |-> << >>]

(* One change of points is one atomic step of the book. *)
Post(u, line) ==
  /\ line.user = u
  /\ line.before = balance[u]
  /\ line.after = line.before + line.change
  /\ line.after \in 0..MaxBalance
  /\ balance' = [balance EXCEPT ![u] = line.after]
  /\ ledger' = [ledger EXCEPT ![u] = Append(ledger[u], line)]

Next == \E u \in Users, line \in Lines : Post(u, line)

Spec == Init /\ [][Next]_<<balance, ledger>>
=============================================================================
