--------------------------- MODULE AccountsProofs ---------------------------
(***************************************************************************)
(* Theorems about Accounts, for every set of users, requests and amounts.  *)
(* The chain: types; lock discipline (a draft holds its row, one session   *)
(* at a time); where the balance in a session or a draft came from; and    *)
(* from these what the committed ledger looks like.                        *)
(***************************************************************************)
EXTENDS Accounts, TLAPS

(* A committed row is a row a session built. *)
LEMMA LineIsEntry == Line \subseteq Entry
BY AmountAssumption DEF Line, Entry

-----------------------------------------------------------------------------
(* Type correctness *)

(* Initially every variable has its type. *)
LEMMA InitTypes == AccountsInit => AccountsTypeOK
BY AmountAssumption, CallerAssumption, NullAssumption
DEF AccountsInit, AccountsTypeOK, NothingSeen, Unseen

(* Every step of a request keeps the types; the column check of            *)
(* CommitPoints is what keeps balances and lines within MaxBalance.        *)
LEMMA StepTypes ==
  ASSUME AccountsTypeOK, [AccountsNext]_accountVars
  PROVE  AccountsTypeOK'
<1> USE AmountAssumption, CallerAssumption, NullAssumption DEF AccountsTypeOK
<1>1. ASSUME NEW r \in Requests, CloseSession(r)
      PROVE  /\ rowLock' \in [Users -> Requests \cup {NoRequest}]
             /\ seen' \in [Requests -> [Users -> 0..MaxBalance \cup {Unseen}]]
             /\ draft' \in [Requests -> Entry \cup {NoEntry}]
  BY <1>1 DEF CloseSession, NothingSeen, Unseen
<1>2. ASSUME NEW r \in Requests, OpenSession(r)
      PROVE  AccountsTypeOK'
  <2>1. balance[Caller[r]] \in 0..MaxBalance
    OBVIOUS
  <2>2. [NothingSeen EXCEPT ![Caller[r]] = balance[Caller[r]]]
          \in [Users -> 0..MaxBalance \cup {Unseen}]
    BY <2>1 DEF NothingSeen
  <2> QED
    BY <1>2, <2>2 DEF OpenSession, ReadBalance
<1>3. ASSUME NEW r \in Requests, NEW u \in Users, NEW change \in Changes,
             NEW about \in Subjects, ApplyPoints(r, u, change, about)
      PROVE  AccountsTypeOK'
  <2> DEFINE before == LockedRead(r, u)
             entry == [user |-> u, change |-> change, before |-> before,
                       after |-> before + change, about |-> about,
                       reread |-> seen[r][u] = Unseen]
  <2>1. before \in 0..MaxBalance
    BY DEF LockedRead
  <2>2. before + change \in Nat
    BY <1>3, <2>1 DEF ApplyPoints
  <2>3. entry \in Entry
    BY <2>1, <2>2 DEF Entry
  <2>4. draft' = [draft EXCEPT ![r] = entry]
    BY <1>3 DEF ApplyPoints
  <2> QED
    BY <1>3, <2>3, <2>4 DEF ApplyPoints
<1>4. ASSUME NEW r \in Requests, NEW u \in Users, NEW change \in Changes,
             RefusePoints(r, u, change)
      PROVE  AccountsTypeOK'
  BY <1>4, <1>1 DEF RefusePoints
<1>5. ASSUME NEW r \in Requests, CommitPoints(r)
      PROVE  AccountsTypeOK'
  <2> DEFINE entry == draft[r]
             u == draft[r].user
  <2>1. entry \in Entry /\ entry.after <= MaxBalance
    BY <1>5 DEF CommitPoints, FitsColumn
  <2>2. u \in Users /\ entry.after \in 0..MaxBalance
    BY <2>1 DEF Entry
  <2>3. Written(entry) \in 0..MaxBalance
    BY <2>2 DEF Written
  <2>4. entry \in Line
    BY <1>5, <2>1, <2>2
    DEF Entry, Line
  <2>5. Append(ledger[u], entry) \in Seq(Line)
    BY <2>2, <2>4
  <2> QED
    BY <1>5, <1>1, <2>2, <2>3, <2>5 DEF CommitPoints
<1>6. ASSUME NEW r \in Requests, EndSession(r)
      PROVE  AccountsTypeOK'
  BY <1>6, <1>1 DEF EndSession
<1>7. CASE UNCHANGED accountVars
  BY <1>7 DEF accountVars
<1> QED
  BY <1>2, <1>3, <1>4, <1>5, <1>6, <1>7 DEF AccountsNext, AccountsStep

(* The committed balance always fits its column and is never negative, and *)
(* every variable keeps its type, whatever requests do to each other.      *)
THEOREM AccountsTypeCorrect == AccountsSpec => []AccountsTypeOK
<1>1. AccountsInit => AccountsTypeOK
  BY InitTypes
<1>2. AccountsTypeOK /\ [AccountsNext]_accountVars => AccountsTypeOK'
  BY StepTypes
<1> QED
  BY <1>1, <1>2, PTL DEF AccountsSpec

-----------------------------------------------------------------------------
(* What the ledger says of balances *)

(* Appending an entry leaves what earlier prefixes settle as it was. *)
LEMMA SettledKept ==
  ASSUME NEW s \in Seq(Line), NEW e \in Line, NEW n \in 0..Len(s), NEW v,
         Settled(s, n, v)
  PROVE  Settled(Append(s, e), n, v)
<1>1. \A i \in 1..n : Append(s, e)[i] = s[i]
  OBVIOUS
<1> QED
  BY <1>1 DEF Settled

(* The appended entry settles its own balance, unless its change is zero:  *)
(* then what was settled before it still is.                               *)
LEMMA SettledExtended ==
  ASSUME NEW s \in Seq(Line), NEW e \in Line, NEW v,
         IF e.change = 0 THEN Settled(s, Len(s), v) ELSE v = e.after
  PROVE  Settled(Append(s, e), Len(s) + 1, v)
<1> DEFINE t == Append(s, e)
           n == Len(s)
<1>1. n \in Nat /\ t[n+1] = e /\ \A i \in 1..n : t[i] = s[i]
  OBVIOUS
<1>2. CASE e.change # 0
  BY <1>1, <1>2 DEF Settled
<1>3. CASE e.change = 0 /\ v = 0 /\ \A i \in 1..n : s[i].change = 0
  <2>1. \A i \in 1..n+1 : t[i].change = 0
    BY <1>1, <1>3
  <2> QED
    BY <1>3, <2>1 DEF Settled
<1>4. ASSUME e.change = 0, NEW i \in 1..n, s[i].change # 0, s[i].after = v,
             \A j \in i+1..n : s[j].change = 0
      PROVE  Settled(t, n+1, v)
  <2>1. t[i].change # 0 /\ t[i].after = v /\ i \in 1..n+1
    BY <1>1, <1>4
  <2>2. \A j \in i+1..n+1 : t[j].change = 0
    BY <1>1, <1>4
  <2> QED
    BY <2>1, <2>2 DEF Settled
<1> QED
  BY <1>2, <1>3, <1>4 DEF Settled

-----------------------------------------------------------------------------
(* The inductive invariant *)

(* v was, at some time, the committed balance of u. *)
PastBalance(u, v) == \E k \in 0..Len(ledger[u]) : Settled(ledger[u], k, v)

(* A session that has called apply_points holds the row it is about. *)
LockInv ==
  \A r \in Requests : draft[r] # NoEntry => rowLock[draft[r].user] = r

(* A draft adds up, starts from a balance that was committed, and from the *)
(* current one if it was read with the lock.                               *)
DraftInv ==
  \A r \in Requests : draft[r] # NoEntry =>
    /\ draft[r].after = draft[r].before + draft[r].change
    /\ draft[r].reread => draft[r].before = balance[draft[r].user]
    /\ PastBalance(draft[r].user, draft[r].before)

(* Copies in identity maps were committed balances when they were loaded. *)
SeenInv ==
  \A r \in Requests, u \in Users :
    seen[r][u] # Unseen => PastBalance(u, seen[r][u])

LedgerInv == BalanceIsLastEntry /\ LockedReadsContinue /\ StartsFromCommittedBalance

AccountsInv == AccountsTypeOK /\ LockInv /\ DraftInv /\ SeenInv /\ LedgerInv

(* Nothing is open, drafted or posted when the database is empty. *)
LEMMA InitInv == AccountsInit => AccountsInv
<1> SUFFICES ASSUME AccountsInit PROVE AccountsInv
  OBVIOUS
<1>1. AccountsTypeOK
  BY InitTypes
<1>2. LockInv /\ DraftInv /\ SeenInv
  BY CallerAssumption DEF AccountsInit, NothingSeen, LockInv, DraftInv, SeenInv
<1>3. LedgerInv
  BY DEF AccountsInit, LedgerInv, BalanceIsLastEntry, LockedReadsContinue,
         StartsFromCommittedBalance, Settled
<1> QED
  BY <1>1, <1>2, <1>3 DEF AccountsInv

(* The committed balance is always a past balance. *)
LEMMA CurrentIsPast ==
  ASSUME AccountsInv, NEW u \in Users
  PROVE  PastBalance(u, balance[u])
<1>1. Len(ledger[u]) \in 0..Len(ledger[u])
  BY DEF AccountsInv, AccountsTypeOK
<1> QED
  BY <1>1 DEF AccountsInv, LedgerInv, BalanceIsLastEntry, PastBalance

(* Closing a session, with nothing written, keeps the invariant. *)
LEMMA CloseKeepsInv ==
  ASSUME AccountsInv, AccountsTypeOK', NEW r \in Requests, CloseSession(r),
         UNCHANGED <<balance, ledger>>
  PROVE  AccountsInv'
<1> USE DEF AccountsInv
<1>1. \A q \in Requests : draft'[q] # NoEntry => q # r /\ draft'[q] = draft[q]
  BY DEF CloseSession, AccountsTypeOK
<1>2. LockInv'
  <2> SUFFICES ASSUME NEW q \in Requests, draft'[q] # NoEntry
               PROVE  rowLock'[draft'[q].user] = q
    BY DEF LockInv
  <2>1. draft'[q] \in Entry /\ draft'[q].user \in Users
    BY DEF AccountsTypeOK, Entry
  <2> QED
    BY <1>1, <2>1 DEF CloseSession, LockInv
<1>3. DraftInv'
  BY <1>1 DEF DraftInv, PastBalance
<1>4. SeenInv'
  <2>1. \A q \in Requests, u \in Users : seen'[q][u] # Unseen => seen'[q][u] = seen[q][u]
    BY DEF CloseSession, AccountsTypeOK, NothingSeen
  <2> QED
    BY <2>1 DEF SeenInv, PastBalance
<1>5. LedgerInv'
  BY DEF LedgerInv, BalanceIsLastEntry, LockedReadsContinue, StartsFromCommittedBalance
<1> QED
  BY <1>2, <1>3, <1>4, <1>5

(* A load of the caller's row copies the current balance. *)
LEMMA OpenKeepsInv ==
  ASSUME AccountsInv, AccountsTypeOK', NEW r \in Requests, OpenSession(r)
  PROVE  AccountsInv'
<1> USE DEF AccountsInv
<1>1. LockInv' /\ DraftInv' /\ LedgerInv'
  BY DEF OpenSession, LockInv, DraftInv, PastBalance, LedgerInv,
         BalanceIsLastEntry, LockedReadsContinue, StartsFromCommittedBalance
<1>2. SeenInv'
  <2>1. ASSUME NEW q \in Requests, NEW u \in Users, seen'[q][u] # Unseen
        PROVE  seen'[q][u] = seen[q][u] \/ seen'[q][u] = balance[u]
    <3>1. CASE q = r
      BY <2>1, <3>1, CallerAssumption
      DEF OpenSession, ReadBalance, NothingSeen, AccountsTypeOK
    <3>2. CASE q # r
      BY <3>2 DEF OpenSession, AccountsTypeOK
    <3> QED
      BY <3>1, <3>2
  <2> QED
    BY <2>1, CurrentIsPast DEF SeenInv, OpenSession, PastBalance
<1> QED
  BY <1>1, <1>2

(* apply_points takes a free row; its draft starts from the session's copy *)
(* or from the locked row.                                                 *)
LEMMA ApplyKeepsInv ==
  ASSUME AccountsInv, AccountsTypeOK', NEW r \in Requests, NEW u \in Users,
         NEW change \in Changes, NEW about \in Subjects,
         ApplyPoints(r, u, change, about)
  PROVE  AccountsInv'
<1> USE DEF AccountsInv
<1> DEFINE before == LockedRead(r, u)
<1>1. /\ rowLock[u] = NoRequest
      /\ rowLock' = [rowLock EXCEPT ![u] = r]
      /\ UNCHANGED <<balance, ledger, seen>>
  BY DEF ApplyPoints, MayApply, RowFree
<1>2. /\ draft' \in [Requests -> Entry \cup {NoEntry}]
      /\ \A q \in Requests : q # r => draft'[q] = draft[q]
      /\ draft'[r].user = u /\ draft'[r].change = change
      /\ draft'[r].before = before /\ draft'[r].after = before + change
      /\ draft'[r].reread = (seen[r][u] = Unseen)
  BY DEF ApplyPoints, AccountsTypeOK
<1>3. LockInv'
  <2> SUFFICES ASSUME NEW q \in Requests, draft'[q] # NoEntry
               PROVE  rowLock'[draft'[q].user] = q
    BY DEF LockInv
  <2>1. CASE q = r
    BY <1>1, <1>2, <2>1 DEF AccountsTypeOK
  <2>2. CASE q # r
    <3>1. draft[q] # NoEntry /\ draft[q] \in Entry /\ rowLock[draft[q].user] = q
      BY <1>2, <2>2 DEF LockInv, AccountsTypeOK
    <3>2. draft[q].user # u
      BY <1>1, <3>1, NullAssumption
    <3> QED
      BY <1>1, <1>2, <2>2, <3>1, <3>2
  <2> QED
    BY <2>1, <2>2
<1>4. PastBalance(u, before)
  <2>1. CASE seen[r][u] = Unseen
    BY <2>1, CurrentIsPast DEF LockedRead
  <2>2. CASE seen[r][u] # Unseen
    BY <2>2 DEF LockedRead, SeenInv
  <2> QED
    BY <2>1, <2>2
<1>5. DraftInv'
  <2> SUFFICES ASSUME NEW q \in Requests, draft'[q] # NoEntry
               PROVE  /\ draft'[q].after = draft'[q].before + draft'[q].change
                      /\ draft'[q].reread => draft'[q].before = balance[draft'[q].user]
                      /\ PastBalance(draft'[q].user, draft'[q].before)
    BY <1>1 DEF DraftInv, PastBalance
  <2>1. CASE q = r
    BY <1>2, <1>4, <2>1 DEF LockedRead
  <2>2. CASE q # r
    BY <1>2, <2>2 DEF DraftInv
  <2> QED
    BY <2>1, <2>2
<1>6. SeenInv' /\ LedgerInv'
  BY <1>1 DEF SeenInv, PastBalance, LedgerInv, BalanceIsLastEntry,
              LockedReadsContinue, StartsFromCommittedBalance
<1> QED
  BY <1>3, <1>5, <1>6

(* A commit appends one line for the row the session holds; other drafts   *)
(* are about other rows.                                                   *)
LEMMA CommitKeepsInv ==
  ASSUME AccountsInv, AccountsTypeOK', NEW r \in Requests, CommitPoints(r)
  PROVE  AccountsInv'
<1> USE DEF AccountsInv
<1> DEFINE e == draft[r]
           u == draft[r].user
           s == ledger[u]
           n == Len(s)
<1>1. /\ e # NoEntry /\ e \in Entry /\ u \in Users /\ rowLock[u] = r
      /\ s \in Seq(Line) /\ n \in Nat
  BY DEF CommitPoints, LockInv, AccountsTypeOK, Entry
<1>2. e \in Line /\ e.change \in Int
  <2>1. e.after <= MaxBalance
    BY DEF CommitPoints, FitsColumn
  <2>2. e.after \in Nat /\ e.change \in Changes
    BY <1>1 DEF Entry
  <2>3. e.after \in 0..MaxBalance
    BY <2>1, <2>2, AmountAssumption
  <2>4. e.change \in Int
    BY <2>2, AmountAssumption
  <2> QED
    BY <1>1, <2>3, <2>4 DEF Entry, Line
<1>3. /\ ledger' = [ledger EXCEPT ![u] = Append(s, e)]
      /\ ledger'[u] = Append(s, e)
      /\ \A w \in Users : w # u => ledger'[w] = ledger[w] /\ balance'[w] = balance[w]
      /\ balance'[u] = IF e.change = 0 THEN balance[u] ELSE e.after
  BY <1>1 DEF CommitPoints, Written, AccountsTypeOK
<1>4. /\ Len(ledger'[u]) = n + 1
      /\ ledger'[u][n+1] = e
      /\ \A i \in 1..n : ledger'[u][i] = s[i]
  BY <1>1, <1>2, <1>3
<1>5. ASSUME NEW w \in Users, NEW k \in 0..Len(ledger[w]), NEW v,
             Settled(ledger[w], k, v)
      PROVE  Settled(ledger'[w], k, v) /\ k \in 0..Len(ledger'[w])
  <2>1. CASE w = u
    BY <1>1, <1>2, <1>3, <1>4, <1>5, <2>1, SettledKept
  <2>2. CASE w # u
    BY <1>3, <1>5, <2>2
  <2> QED
    BY <2>1, <2>2
<1>6. ASSUME NEW w \in Users, NEW v, PastBalance(w, v)
      PROVE  \E k \in 0..Len(ledger'[w]) : Settled(ledger'[w], k, v)
  BY <1>5, <1>6 DEF PastBalance
<1>7. \A q \in Requests : draft'[q] # NoEntry => q # r /\ draft'[q] = draft[q]
  BY DEF CommitPoints, CloseSession, AccountsTypeOK
<1>8. \A q \in Requests : draft'[q] # NoEntry =>
        draft[q] \in Entry /\ draft[q].user \in Users /\ draft[q].user # u
  BY <1>1, <1>7 DEF LockInv, AccountsTypeOK, Entry
<1>9. LockInv'
  BY <1>7, <1>8 DEF CommitPoints, CloseSession, LockInv
<1>10. DraftInv'
  <2> SUFFICES ASSUME NEW q \in Requests, draft'[q] # NoEntry
               PROVE  /\ draft'[q].after = draft'[q].before + draft'[q].change
                      /\ draft'[q].reread => draft'[q].before = balance'[draft'[q].user]
                      /\ \E k \in 0..Len(ledger'[draft'[q].user]) :
                           Settled(ledger'[draft'[q].user], k, draft'[q].before)
    BY DEF DraftInv, PastBalance
  <2>1. draft'[q] = draft[q] /\ draft[q].user \in Users \ {u}
    BY <1>7, <1>8
  <2>2. PastBalance(draft[q].user, draft[q].before)
    BY <2>1 DEF DraftInv
  <2> QED
    BY <1>3, <1>6, <2>1, <2>2 DEF DraftInv
<1>11. SeenInv'
  <2>1. \A q \in Requests, w \in Users : seen'[q][w] # Unseen => seen'[q][w] = seen[q][w]
    BY DEF CommitPoints, CloseSession, AccountsTypeOK, NothingSeen
  <2> SUFFICES ASSUME NEW q \in Requests, NEW w \in Users, seen'[q][w] # Unseen
               PROVE  \E k \in 0..Len(ledger'[w]) : Settled(ledger'[w], k, seen'[q][w])
    BY DEF SeenInv, PastBalance
  <2> QED
    BY <1>6, <2>1 DEF SeenInv
<1>12. BalanceIsLastEntry'
  <2> SUFFICES ASSUME NEW w \in Users
               PROVE  Settled(ledger'[w], Len(ledger'[w]), balance'[w])
    BY DEF BalanceIsLastEntry
  <2>1. CASE w = u
    <3>1. IF e.change = 0 THEN Settled(s, n, balance'[u]) ELSE balance'[u] = e.after
      BY <1>1, <1>3 DEF LedgerInv, BalanceIsLastEntry
    <3>2. Settled(Append(s, e), n+1, balance'[u])
      BY <1>1, <1>2, <3>1, SettledExtended
    <3> QED
      BY <1>3, <1>4, <2>1, <3>2
  <2>2. CASE w # u
    BY <1>3, <2>2 DEF LedgerInv, BalanceIsLastEntry
  <2> QED
    BY <2>1, <2>2
<1>13. LockedReadsContinue' /\ StartsFromCommittedBalance'
  <2> SUFFICES ASSUME NEW w \in Users, NEW i \in 1..Len(ledger'[w])
               PROVE  /\ ledger'[w][i].reread =>
                            Settled(ledger'[w], i-1, ledger'[w][i].before)
                      /\ \E k \in 0..i-1 : Settled(ledger'[w], k, ledger'[w][i].before)
    BY DEF LockedReadsContinue, StartsFromCommittedBalance
  <2>1. CASE w # u
    BY <1>3, <2>1 DEF LedgerInv, LockedReadsContinue, StartsFromCommittedBalance
  <2>2. CASE w = u /\ i # n+1
    <3>1. i \in 1..n /\ ledger'[w][i] = s[i]
      BY <1>1, <1>4, <2>2
    <3>2. i-1 \in 0..n
      BY <1>1, <3>1
    <3>3. s[i].reread => Settled(s, i-1, s[i].before)
      BY <1>1, <3>1 DEF LedgerInv, LockedReadsContinue
    <3>4. PICK k \in 0..i-1 : Settled(s, k, s[i].before)
      BY <1>1, <3>1 DEF LedgerInv, StartsFromCommittedBalance
    <3>5. k \in 0..n
      BY <1>1, <3>1, <3>4
    <3> QED
      BY <1>1, <1>5, <2>2, <3>1, <3>2, <3>3, <3>4, <3>5
  <2>3. CASE w = u /\ i = n+1
    <3>1. i-1 = n /\ ledger'[w][i] = e
      BY <1>1, <1>4, <2>3
    <3>2. e.reread => Settled(s, n, e.before)
      BY <1>1 DEF DraftInv, LedgerInv, BalanceIsLastEntry
    <3>3. n \in 0..n
      BY <1>1
    <3>4. PICK k \in 0..n : Settled(s, k, e.before)
      BY <1>1 DEF DraftInv, PastBalance
    <3> QED
      BY <1>1, <1>5, <2>3, <3>1, <3>2, <3>3, <3>4
  <2> QED
    BY <2>1, <2>2, <2>3
<1> QED
  BY <1>9, <1>10, <1>11, <1>12, <1>13 DEF LedgerInv

(* Every step of every request keeps the invariant. *)
LEMMA StepKeepsInv ==
  ASSUME AccountsInv, [AccountsNext]_accountVars
  PROVE  AccountsInv'
<1>1. AccountsTypeOK'
  BY StepTypes DEF AccountsInv
<1>2. CASE UNCHANGED accountVars
  BY <1>1, <1>2 DEF accountVars, AccountsInv, LockInv, DraftInv, SeenInv, PastBalance,
       LedgerInv, BalanceIsLastEntry, LockedReadsContinue, StartsFromCommittedBalance
<1>3. ASSUME NEW r \in Requests, AccountsStep(r)
      PROVE  AccountsInv'
  <2>1. CASE OpenSession(r)
    BY <1>1, <2>1, OpenKeepsInv
  <2>2. ASSUME NEW u \in Users, NEW change \in Changes, NEW about \in Subjects,
               ApplyPoints(r, u, change, about)
        PROVE  AccountsInv'
    BY <1>1, <2>2, ApplyKeepsInv
  <2>3. ASSUME NEW u \in Users, NEW change \in Changes, RefusePoints(r, u, change)
        PROVE  AccountsInv'
    BY <1>1, <2>3, CloseKeepsInv DEF RefusePoints
  <2>4. CASE CommitPoints(r)
    BY <1>1, <2>4, CommitKeepsInv
  <2>5. CASE EndSession(r)
    BY <1>1, <2>5, CloseKeepsInv DEF EndSession
  <2> QED
    BY <1>3, <2>1, <2>2, <2>3, <2>4, <2>5 DEF AccountsStep
<1> QED
  BY <1>2, <1>3 DEF AccountsNext

(* The invariant holds throughout. *)
LEMMA Invariance == AccountsSpec => []AccountsInv
<1>1. AccountsInit => AccountsInv
  BY InitInv
<1>2. AccountsInv /\ [AccountsNext]_accountVars => AccountsInv'
  BY StepKeepsInv
<1> QED
  BY <1>1, <1>2, PTL DEF AccountsSpec

(* What a user is shown as balance is what the newest effective ledger     *)
(* line shows, although the code computes with copies that may be stale.   *)
THEOREM BalanceMatchesLedger == AccountsSpec => []BalanceIsLastEntry
<1>1. AccountsInv => BalanceIsLastEntry
  BY DEF AccountsInv, LedgerInv
<1> QED
  BY <1>1, Invariance, PTL

(* Entries computed from a balance read with FOR UPDATE continue the       *)
(* ledger: for them the row lock does what it is there for.                *)
THEOREM LockedReadsAreChained == AccountsSpec => []LockedReadsContinue
<1>1. AccountsInv => LockedReadsContinue
  BY DEF AccountsInv, LedgerInv
<1> QED
  BY <1>1, Invariance, PTL

(* The damage of a stale copy is bounded: every entry starts from a        *)
(* balance that had been committed for the same user.                      *)
THEOREM EntriesStartFromCommitted == AccountsSpec => []StartsFromCommittedBalance
<1>1. AccountsInv => StartsFromCommittedBalance
  BY DEF AccountsInv, LedgerInv
<1> QED
  BY <1>1, Invariance, PTL

-----------------------------------------------------------------------------
(* Refinement of the book *)

(* Sessions load no row but the caller's, so a draft for a user whose own  *)
(* requests move no points was read locked.                                *)
FreshInv ==
  /\ \A r \in Requests, u \in Users : u # Caller[r] => seen[r][u] = Unseen
  /\ \A r \in Requests : 
       draft[r] # NoEntry /\ draft[r].user \in Remote => draft[r].reread

(* Sessions start empty and load no row but the caller's. *)
LEMMA FreshInvariance == AccountsSpec => []FreshInv
<1>1. AccountsInit => FreshInv
  BY DEF AccountsInit, NothingSeen, FreshInv
<1>2. ASSUME AccountsTypeOK, FreshInv, [AccountsNext]_accountVars
      PROVE  FreshInv'
  <2> USE DEF AccountsTypeOK
  <2>1. ASSUME NEW r \in Requests, CloseSession(r)
        PROVE  FreshInv'
    BY <1>2, <2>1 DEF CloseSession, NothingSeen, FreshInv
  <2>2. ASSUME NEW r \in Requests, OpenSession(r)
        PROVE  FreshInv'
    BY <1>2, <2>2, CallerAssumption DEF OpenSession, NothingSeen, FreshInv
  <2>3. ASSUME NEW r \in Requests, NEW u \in Users, NEW change \in Changes,
               NEW about \in Subjects, ApplyPoints(r, u, change, about)
        PROVE  FreshInv'
    <3>1. u \in Targets[r]
      BY <2>3 DEF ApplyPoints, MayApply
    <3>2. draft'[r].user \in Remote => draft'[r].reread
      <4>1. draft'[r].reread = (seen[r][u] = Unseen) /\ draft'[r].user = u
        BY <1>2, <2>3 DEF ApplyPoints
      <4>2. u \in Remote => seen[r][u] = Unseen
        BY <1>2, <3>1 DEF FreshInv, Remote
      <4> QED
        BY <4>1, <4>2
    <3>3. \A q \in Requests : q # r => draft'[q] = draft[q]
      BY <2>3 DEF ApplyPoints
    <3>4. seen' = seen
      BY <2>3 DEF ApplyPoints
    <3> QED
      BY <1>2, <3>2, <3>3, <3>4 DEF FreshInv
  <2> QED
    BY <1>2, <2>1, <2>2, <2>3
    DEF AccountsNext, AccountsStep, RefusePoints, CommitPoints, EndSession,
        accountVars, FreshInv
<1> QED
  BY <1>1, <1>2, AccountsTypeCorrect, PTL DEF AccountsSpec

(* A commit for such a user starts from the current balance. *)
LEMMA RemoteCommit ==
  ASSUME AccountsInv, FreshInv, NEW r \in Requests, CommitPoints(r),
         draft[r].user \in Remote
  PROVE  /\ draft[r] \in Line
         /\ draft[r].before = balance[draft[r].user]
         /\ draft[r].after = draft[r].before + draft[r].change
         /\ draft[r].after \in 0..MaxBalance
         /\ Written(draft[r]) = draft[r].after
<1> DEFINE e == draft[r]
           u == draft[r].user
<1>1. e # NoEntry /\ e \in Entry /\ u \in Users
  BY DEF CommitPoints, AccountsInv, AccountsTypeOK, Entry
<1>2. /\ e.before = balance[u]
      /\ e.after = e.before + e.change
  BY <1>1 DEF AccountsInv, DraftInv, FreshInv
<1>3. e.after \in 0..MaxBalance
  <2>1. e.after <= MaxBalance
    BY DEF CommitPoints, FitsColumn
  <2> QED
    BY <1>1, <2>1, AmountAssumption DEF Entry
<1>4. e \in Line
  BY <1>1, <1>3 DEF Entry, Line
<1>5. Written(e) = e.after
  <2>1. CASE e.change = 0
    BY <1>1, <1>2, <2>1 DEF Written, Entry
  <2>2. CASE e.change # 0
    BY <2>2 DEF Written
  <2> QED
    BY <2>1, <2>2
<1> QED
  BY <1>2, <1>3, <1>4, <1>5

(* The balances and ledgers the book is about. *)
remoteBalance == [u \in Remote |-> balance[u]]
remoteLedger == [u \in Remote |-> ledger[u]]

(* It is one posting of the book; a commit for another user is none.       *)
LEMMA CommitPosts ==
  ASSUME AccountsInv, FreshInv, NEW r \in Requests, CommitPoints(r)
  PROVE  Book!Next \/ UNCHANGED <<remoteBalance, remoteLedger>>
<1> DEFINE e == draft[r]
           u == draft[r].user
<1>1. /\ balance' = [balance EXCEPT ![u] = Written(e)]
      /\ ledger' = [ledger EXCEPT ![u] = Append(ledger[u], e)]
  BY DEF CommitPoints
<1>2. balance \in [Users -> 0..MaxBalance] /\ ledger \in [Users -> Seq(Line)]
  BY DEF AccountsInv, AccountsTypeOK
<1>3. Remote \subseteq Users
  BY DEF Remote
<1>4. CASE u \notin Remote
  BY <1>1, <1>2, <1>3, <1>4 DEF remoteBalance, remoteLedger
<1>5. CASE u \in Remote
  <2>1. /\ e \in Line /\ e.before = balance[u]
        /\ e.after = e.before + e.change
        /\ e.after \in 0..MaxBalance
        /\ Written(e) = e.after
    BY <1>5, RemoteCommit
  <2>2. remoteBalance' = [remoteBalance EXCEPT ![u] = e.after]
    BY <1>1, <1>2, <1>3, <1>5, <2>1 DEF remoteBalance
  <2>3. remoteLedger' = [remoteLedger EXCEPT ![u] = Append(remoteLedger[u], e)]
    BY <1>1, <1>2, <1>3, <1>5 DEF remoteLedger
  <2>4. remoteBalance[u] = balance[u]
    BY <1>5 DEF remoteBalance
  <2>5. Book!Post(u, e)
    BY <2>1, <2>2, <2>3, <2>4 DEF Book!Post, remoteBalance, remoteLedger
  <2>6. \E line \in Line : Book!Post(u, line)
    BY <2>1, <2>5 DEF Book!Post
  <2> HIDE DEF u
  <2> QED
    BY <1>5, <2>6 DEF Book!Next
<1> QED
  BY <1>4, <1>5

(* The account of a user whose points only others' requests change         *)
(* (administrators) implements the promised book: each commit is one       *)
(* atomic posting, whatever the requests of other users do to theirs.      *)
THEOREM RemoteAccountsImplementBook == AccountsSpec => BookKept
<1>1. AccountsInit => Book!Init
  BY DEF AccountsInit, Book!Init, Remote
<1>2. ASSUME AccountsInv, FreshInv, [AccountsNext]_accountVars
      PROVE  [Book!Next]_<<remoteBalance, remoteLedger>>
  <2>1. UNCHANGED <<balance, ledger>> => UNCHANGED <<remoteBalance, remoteLedger>>
    BY DEF remoteBalance, remoteLedger
  <2> QED
    BY <1>2, <2>1, CommitPosts
    DEF AccountsNext, AccountsStep, OpenSession, ApplyPoints, RefusePoints,
        EndSession, accountVars
<1>3. AccountsSpec => []AccountsInv /\ []FreshInv
  BY Invariance, FreshInvariance
<1> QED
  BY <1>1, <1>2, <1>3, PTL
  DEF AccountsSpec, BookKept, Book!Spec, remoteBalance, remoteLedger

-----------------------------------------------------------------------------
(* What a commit posts, for the modules about handlers *)

(* Where the ledger of u has lines about s. *)
PostedAbout(u, s) == {i \in 1..Len(ledger[u]) : ledger[u][i].about = s}

(* A commit adds one line, about the subject of the draft, at the end of   *)
(* the ledger of its user, and nothing else anywhere.                      *)
LEMMA CommitPosted ==
  ASSUME AccountsTypeOK, NEW r \in Requests, CommitPoints(r), NEW u \in Users, NEW s
  PROVE  IF u = draft[r].user
         THEN LET n == Len(ledger[u]) + 1
              IN  /\ Len(ledger'[u]) = n /\ n \in Nat
                  /\ n \notin PostedAbout(u, s)
                  /\ PostedAbout(u, s)' = PostedAbout(u, s)
                       \cup (IF draft[r].about = s THEN {n} ELSE {})
         ELSE ledger'[u] = ledger[u] /\ PostedAbout(u, s)' = PostedAbout(u, s)
<1> DEFINE e == draft[r]
           l == ledger[u]
<1>1. e \in Entry /\ e.after <= MaxBalance
  BY DEF CommitPoints, FitsColumn, AccountsTypeOK
<1>2. ledger' = [ledger EXCEPT ![e.user] = Append(ledger[e.user], e)]
  BY DEF CommitPoints
<1>3. CASE u # e.user
  <2>1. ledger'[u] = ledger[u]
    BY <1>2, <1>3 DEF AccountsTypeOK
  <2> QED
    BY <1>3, <2>1 DEF PostedAbout
<1>4. CASE u = e.user
  <2>1. e \in Line
    BY <1>1, AmountAssumption DEF Entry, Line
  <2>2. l \in Seq(Line) /\ ledger'[u] = Append(l, e)
    BY <1>2, <1>4 DEF AccountsTypeOK
  <2> DEFINE n == Len(l) + 1
  <2>3. /\ Len(l) \in Nat /\ Len(ledger'[u]) = n
        /\ ledger'[u][n] = e
        /\ \A i \in 1..Len(l) : ledger'[u][i] = l[i]
    <3> HIDE DEF e, l
    <3> QED
      BY <2>1, <2>2
  <2>4. PostedAbout(u, s) = {i \in 1..Len(l) : l[i].about = s}
    BY DEF PostedAbout
  <2>5. PostedAbout(u, s)' = {i \in 1..n : ledger'[u][i].about = s}
    BY <2>3 DEF PostedAbout
  <2>6. n \notin 1..Len(l) /\ \A i : i \in 1..n <=> i \in 1..Len(l) \/ i = n
    <3> HIDE DEF l
    <3> QED
      BY <2>3
  <2>7. n \notin PostedAbout(u, s)
    BY <2>4, <2>6
  <2>8. \A i : i \in PostedAbout(u, s)' <=>
                 i \in PostedAbout(u, s) \/ (i = n /\ e.about = s)
    BY <2>3, <2>4, <2>5, <2>6
  <2>9. PostedAbout(u, s)' = PostedAbout(u, s) \cup (IF e.about = s THEN {n} ELSE {})
    BY <2>8
  <2>10. n \in Nat
    BY <2>3
  <2> QED
    BY <1>4, <2>3, <2>7, <2>9, <2>10
<1> QED
  BY <1>3, <1>4

-----------------------------------------------------------------------------
(* What a row lock is for *)

(* A row is locked by a session that has drafted an entry for it. *)
LocksHaveDrafts ==
  \A u \in Users : rowLock[u] # NoRequest =>
    draft[rowLock[u]] # NoEntry /\ draft[rowLock[u]].user = u

(* The lock comes with the draft and goes with it. *)
LEMMA StepKeepsLocksDrafted ==
  ASSUME AccountsTypeOK, LocksHaveDrafts, [AccountsNext]_accountVars
  PROVE  LocksHaveDrafts'
<1>1. ASSUME NEW r \in Requests, CloseSession(r)
      PROVE  LocksHaveDrafts'
  <2> SUFFICES ASSUME NEW u \in Users, rowLock'[u] # NoRequest
               PROVE  draft'[rowLock'[u]] # NoEntry /\ draft'[rowLock'[u]].user = u
    BY DEF LocksHaveDrafts
  <2>1. rowLock'[u] = rowLock[u] /\ rowLock[u] # r /\ rowLock[u] \in Requests
    BY <1>1 DEF CloseSession, AccountsTypeOK
  <2> QED
    BY <1>1, <2>1 DEF CloseSession, AccountsTypeOK, LocksHaveDrafts
<1>2. ASSUME NEW r \in Requests, NEW u \in Users, NEW change \in Changes,
             NEW about \in Subjects, ApplyPoints(r, u, change, about)
      PROVE  LocksHaveDrafts'
  <2>1. draft[r] = NoEntry /\ rowLock' = [rowLock EXCEPT ![u] = r]
    BY <1>2 DEF ApplyPoints, MayApply
  <2>2. /\ \A q \in Requests \ {r} : draft'[q] = draft[q]
        /\ draft'[r].user = u
    BY <1>2 DEF ApplyPoints, AccountsTypeOK
  <2>3. AccountsTypeOK' /\ draft'[r] # NoEntry
    <3>1. AccountsNext
      BY <1>2 DEF AccountsNext, AccountsStep
    <3>2. AccountsTypeOK'
      BY <3>1, StepTypes
    <3>3. PICK e \in Entry : draft' = [draft EXCEPT ![r] = e]
      <4> DEFINE before == LockedRead(r, u)
                 e == [user |-> u, change |-> change, before |-> before,
                       after |-> before + change, about |-> about,
                       reread |-> seen[r][u] = Unseen]
      <4>1. before \in 0..MaxBalance
        BY DEF LockedRead, AccountsTypeOK
      <4>2. before + change \in Nat
        BY <1>2, <4>1, AmountAssumption DEF ApplyPoints
      <4>3. e \in Entry
        BY <4>1, <4>2, AmountAssumption DEF Entry
      <4> QED
        BY <1>2, <4>3 DEF ApplyPoints
    <3> QED
      BY <3>2, <3>3, NullAssumption DEF AccountsTypeOK
  <2>4. ASSUME NEW v \in Users, rowLock'[v] # NoRequest
        PROVE  draft'[rowLock'[v]] # NoEntry /\ draft'[rowLock'[v]].user = v
    <3>1. CASE v = u
      BY <2>1, <2>2, <2>3, <3>1 DEF AccountsTypeOK
    <3>2. CASE v # u
      <4>1. rowLock'[v] = rowLock[v] /\ rowLock[v] \in Requests
        BY <2>1, <2>4, <3>2 DEF AccountsTypeOK
      <4>2. draft[rowLock[v]] # NoEntry /\ draft[rowLock[v]].user = v
        BY <2>4, <4>1 DEF LocksHaveDrafts
      <4>3. rowLock[v] # r
        BY <2>1, <4>2
      <4> QED
        BY <2>2, <4>1, <4>2, <4>3
    <3> QED
      BY <3>1, <3>2
  <2> QED
    BY <2>4 DEF LocksHaveDrafts
<1>3. ASSUME UNCHANGED <<rowLock, draft>>
      PROVE  LocksHaveDrafts'
  BY <1>3 DEF LocksHaveDrafts
<1> QED
  BY <1>1, <1>2, <1>3
  DEF AccountsNext, AccountsStep, OpenSession, RefusePoints, CommitPoints, EndSession,
      accountVars

(* A session that holds a user's row has called apply_points for it and    *)
(* has to wait for no other row (points.py:21).                            *)
LEMMA LocksAreDrafted == AccountsSpec => []LocksHaveDrafts
<1>1. AccountsInit => LocksHaveDrafts
  BY DEF AccountsInit, LocksHaveDrafts
<1> QED
  BY <1>1, StepKeepsLocksDrafted, AccountsTypeCorrect, PTL DEF AccountsSpec
=============================================================================
