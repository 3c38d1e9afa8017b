------------------------------ MODULE Accounts ------------------------------
(***************************************************************************)
(* Point accounts: the balance column of users, the point_transactions     *)
(* ledger, and apply_points, the only function that changes either.  It    *)
(* runs inside a request's SQLAlchemy session, between the load of the     *)
(* authenticated user (dependencies.py) and the handler's commit:          *)
(*                                                                         *)
(*   OpenSession    get_current_user puts the caller's row, as it is now,  *)
(*                  in the session's identity map;                         *)
(*   ApplyPoints    SELECT ... FOR UPDATE takes the row lock.  The ORM     *)
(*                  does not overwrite an instance that the session        *)
(*                  already holds, so the balance the code computes with   *)
(*                  is the copy of OpenSession, not the locked row;        *)
(*   CommitPoints   UPDATE users and INSERT point_transactions, together,  *)
(*                  and the lock is released;                              *)
(*   EndSession     get_db closes the session: rollback, lock released.    *)
(*                                                                         *)
(* The handlers that call apply_points are modules that EXTEND this one.   *)
(***************************************************************************)
EXTENDS Integers, Sequences

CONSTANTS
  Users,        \* rows of the table users
  Requests,     \* HTTP requests that can be in progress at one time
  Caller,       \* Caller[r]: the user authenticated in request r
  Targets,      \* Targets[r]: the users whose points r may change
  Subjects,     \* what an entry is about: related_type and related_id
  Changes,      \* the amounts handlers pass to apply_points
  MaxBalance,   \* the largest value the INT column points_balance holds
  MaxEntries,   \* bound: entries kept in the ledger of one user
  NoRequest,    \* holder of a row lock nobody holds
  NoEntry       \* draft of a session that has not called apply_points

Unseen == -1

NothingSeen == [u \in Users |-> Unseen]

(* A point_transactions row as the session builds it.  reread records      *)
(* whether the session loaded the balance with the row lock (TRUE) or had  *)
(* a copy already (FALSE).                                                 *)
Entry == [user : Users, change : Changes, before : 0..MaxBalance, after : Nat,
          about : Subjects, reread : BOOLEAN]

(* A committed row: the new balance fits its column as well. *)
Line == [user : Users, change : Changes, before : 0..MaxBalance,
         after : 0..MaxBalance, about : Subjects, reread : BOOLEAN]

ASSUME CallerAssumption ==
  /\ Caller \in [Requests -> Users]
  /\ Targets \in [Requests -> SUBSET Users]
ASSUME AmountAssumption ==
  /\ Changes \subseteq Int
  /\ MaxBalance \in Nat
  /\ MaxEntries \in Nat
ASSUME NullAssumption ==
  /\ NoRequest \notin Requests
  /\ NoEntry \notin Entry

VARIABLES
  balance,      \* balance[u]: users.points_balance, committed
  ledger,       \* ledger[u]: committed entries of u, in commit order
  rowLock,      \* rowLock[u]: the request that holds the lock of row u
  seen,         \* seen[r][u]: the balance in r's copy of u, or Unseen
  draft         \* draft[r]: the entry r has added and not committed

accountVars == <<balance, ledger, rowLock, seen, draft>>

AccountsInit ==
  /\ balance = [u \in Users |-> 0]
  /\ ledger = [u \in Users |-> << >>]
  /\ rowLock = [u \in Users |-> NoRequest]
  /\ seen = [r \in Requests |-> NothingSeen]
  /\ draft = [r \in Requests |-> NoEntry]

-----------------------------------------------------------------------------

IsOpen(r) == seen[r][Caller[r]] # Unseen

(* A plain SELECT reads the last committed balance.  The mutant is what an *)
(* isolation level that shows uncommitted writes would read.               *)
UncommittedBalance(u) ==
  IF rowLock[u] = NoRequest \/ draft[rowLock[u]] = NoEntry
  THEN balance[u]
  ELSE draft[rowLock[u]].after
ReadBalance(u) == balance[u]

(* get_current_user, login_user: the caller's row enters the session. *)
OpenSession(r) ==
  /\ ~IsOpen(r)
  /\ seen' = [seen EXCEPT ![r] =
                [NothingSeen EXCEPT ![Caller[r]] = ReadBalance(Caller[r])]]
  /\ UNCHANGED <<balance, ledger, rowLock, draft>>

(* FOR UPDATE waits until no other transaction holds the row. *)
RowFreeIgnored(u) == u \in Users
RowFree(u) == rowLock[u] = NoRequest

(* What user.points_balance is after the SELECT ... FOR UPDATE. *)
LockedRead(r, u) == IF seen[r][u] = Unseen THEN balance[u] ELSE seen[r][u]

(* r has the lock of row u within reach and has not called apply_points. *)
MayApply(r, u) ==
  /\ IsOpen(r)
  /\ draft[r] = NoEntry
  /\ u \in Targets[r]
  /\ RowFree(u)

(* apply_points up to its return: the new balance and the ledger row live  *)
(* in the session only (autoflush is off), the row lock is held.           *)
ApplyPoints(r, u, change, about) ==
  LET before == LockedRead(r, u)
  IN  /\ MayApply(r, u)
      /\ before + change >= 0
      /\ Len(ledger[u]) < MaxEntries
      /\ rowLock' = [rowLock EXCEPT ![u] = r]
      /\ draft' = [draft EXCEPT ![r] =
                     [user |-> u, change |-> change, before |-> before,
                      after |-> before + change, about |-> about,
                      reread |-> seen[r][u] = Unseen]]
      /\ UNCHANGED <<balance, ledger, seen>>

(* The session goes: locks are released, the identity map is dropped.      *)
CloseSession(r) ==
  /\ rowLock' = [u \in Users |-> IF rowLock[u] = r THEN NoRequest ELSE rowLock[u]]
  /\ seen' = [seen EXCEPT ![r] = NothingSeen]
  /\ draft' = [draft EXCEPT ![r] = NoEntry]

(* apply_points raises INSUFFICIENT_POINTS and the session is rolled back. *)
RefusePoints(r, u, change) ==
  /\ MayApply(r, u)
  /\ LockedRead(r, u) + change < 0
  /\ CloseSession(r)
  /\ UNCHANGED <<balance, ledger>>

(* The ORM compares the new balance with the loaded one and leaves the     *)
(* column out of the UPDATE when the change is zero.                       *)
WrittenAlways(entry) == entry.after
Written(entry) == IF entry.change = 0 THEN balance[entry.user] ELSE entry.after

(* MySQL refuses a value the INT columns cannot hold. *)
FitsAnything(entry) == entry.after >= 0
FitsColumn(entry) == entry.after <= MaxBalance

(* db.commit(): UPDATE and INSERT in one transaction.  A balance that does *)
(* not fit the column fails the UPDATE, and only EndSession is left.       *)
CommitPoints(r) ==
  /\ draft[r] # NoEntry
  /\ FitsColumn(draft[r])
  /\ LET u == draft[r].user
     IN  /\ balance' = [balance EXCEPT ![u] = Written(draft[r])]
         /\ ledger' = [ledger EXCEPT ![u] = Append(ledger[u], draft[r])]
  /\ CloseSession(r)

(* The request fails, is refused elsewhere, or its process dies.           *)
EndSession(r) ==
  /\ IsOpen(r)
  /\ CloseSession(r)
  /\ UNCHANGED <<balance, ledger>>

AccountsStep(r) ==
  \/ OpenSession(r)
  \/ \E u \in Users, change \in Changes, about \in Subjects :
       ApplyPoints(r, u, change, about)
  \/ \E u \in Users, change \in Changes : RefusePoints(r, u, change)
  \/ CommitPoints(r)
  \/ EndSession(r)

AccountsNext == \E r \in Requests : AccountsStep(r)

AccountsSpec == AccountsInit /\ [][AccountsNext]_accountVars

-----------------------------------------------------------------------------
(* Properties *)

(* Every variable has its type; in particular the committed balance stays  *)
(* within the column, whatever the sessions computed.                      *)
AccountsTypeOK ==
  /\ balance \in [Users -> 0..MaxBalance]
  /\ ledger \in [Users -> Seq(Line)]
  /\ rowLock \in [Users -> Requests \cup {NoRequest}]
  /\ seen \in [Requests -> [Users -> 0..MaxBalance \cup {Unseen}]]
  /\ draft \in [Requests -> Entry \cup {NoEntry}]

(* v is the balance that the first n entries of the ledger s left behind:  *)
(* what the last of them with a change other than zero says, 0 if none.    *)
Settled(s, n, v) ==
  \/ v = 0 /\ \A i \in 1..n : s[i].change = 0
  \/ \E i \in 1..n : /\ s[i].change # 0
                      /\ s[i].after = v
                      /\ \A j \in i+1..n : s[j].change = 0

(* The balance a user is shown is the one the newest effective line of the *)
(* ledger shows, although sessions with different copies of the row write  *)
(* both: line 24 and lines 25-36 of points.py commit together.             *)
BalanceIsLastEntry ==
  \A u \in Users : Settled(ledger[u], Len(ledger[u]), balance[u])

(* An entry whose session got the balance with the row lock continues the  *)
(* ledger without a gap: between FOR UPDATE and commit nobody else wrote.  *)
LockedReadsContinue ==
  \A u \in Users : \A i \in 1..Len(ledger[u]) :
    ledger[u][i].reread => Settled(ledger[u], i-1, ledger[u][i].before)

(* However stale its copy, an entry starts from a balance that had been    *)
(* committed for that user at some time before: never from another user's  *)
(* points nor from a write that was rolled back.                           *)
StartsFromCommittedBalance ==
  \A u \in Users : \A i \in 1..Len(ledger[u]) :
    \E k \in 0..i-1 : Settled(ledger[u], k, ledger[u][i].before)

(* What the README promises of balance updates (row locks keep them        *)
(* consistent): every entry starts where the one before it ended.          *)
LedgerChained ==
  \A u \in Users : \A i \in 1..Len(ledger[u]) :
    ledger[u][i].before = IF i = 1 THEN 0 ELSE ledger[u][i-1].after

(* Users whose points only other users' requests change (administrators).  *)
Remote == {u \in Users : \A r \in Requests : u \in Targets[r] => Caller[r] # u}

(* Their accounts keep the promised book, whatever goes on in others:      *)
(* every commit is one atomic posting that starts from the current balance,*)
(* because no session has their row before it locks it.                    *)
Book == INSTANCE PointBook
          WITH Lines <- Line, Users <- Remote,
               balance <- [u \in Remote |-> balance[u]],
               ledger <- [u \in Remote |-> ledger[u]]
BookKept == Book!Spec
=============================================================================
