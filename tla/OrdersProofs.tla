---------------------------- MODULE OrdersProofs ----------------------------
(***************************************************************************)
(* Theorems about Orders, for every set of users, orders and requests, and *)
(* for requests of owners and administrators in any number: it implements  *)
(* Accounts, points move for an order exactly when it becomes PAID, and    *)
(* only approvals of orders of administrators can deadlock.                *)
(***************************************************************************)
EXTENDS Orders, AccountsProofs

(* What a session has drafted is the grant of the order that it holds. *)
DraftsAreGrants ==
  \A r \in Requests :
    draft[r] # NoEntry =>
      /\ HoldsOrder(r) /\ task[r].to = "PAID"
      /\ draft[r].about = task[r].order
      /\ draft[r].user = OrderUser[task[r].order]

(* The checks made when an order was locked are still true while it is. *)
HeldStaysAccepted ==
  \A r \in Requests :
    HoldsOrder(r) =>
      Found(r, task[r].order) /\ Accepts(r, task[r].order, task[r].to)

(* An audit line of an approval is inserted after its grant is drafted. *)
AuditsFollowGrants ==
  \A r \in audited : task[r].to = "PAID" => draft[r] # NoEntry

(* The inductive invariant, but for the types. *)
GrantInv ==
  /\ DraftsAreGrants /\ HeldStaysAccepted /\ AuditsFollowGrants
  /\ UnpaidGrantsNothing /\ PaidIsGranted /\ GrantedOnce

-----------------------------------------------------------------------------
(* Type correctness *)

(* Who holds an order has a task about it, in the initial states. *)
LEMMA OrdersInitTypes == OrdersInit => OrdersTypeOK
BY DEF OrdersInit, OrdersTypeOK, OrderStatuses

(* A request with no task holds no order. *)
LEMMA NoTaskNoLock ==
  ASSUME OrdersTypeOK, NEW r \in Requests, ~HasTask(r)
  PROVE  \A o \in OrderIds : orderLock[o] # r
BY NullAssumption DEF OrdersTypeOK

(* A request that finishes leaves nothing that is said to be its own. *)
LEMMA FinishKeepsLocks ==
  ASSUME OrdersTypeOK, NEW r \in Requests, FinishTask(r),
         status' \in [OrderIds -> OrderStatuses]
  PROVE  OrdersTypeOK'
<1> USE OrderAssumption, NullAssumption
<1>1. /\ task' = [task EXCEPT ![r] = NoTask] /\ audited' = audited \ {r}
      /\ orderLock' = [o \in OrderIds |->
                         IF orderLock[o] = r THEN NoRequest ELSE orderLock[o]]
  BY DEF FinishTask
<1>2. ASSUME NEW q \in AdminRequests \ {r}, HoldsOrder(q)
      PROVE  HoldsOrder(q)'
  <2>1. task[q] \in Task
    BY <1>2 DEF HoldsOrder, HasTask, OrdersTypeOK
  <2>2. task[q].order \in OrderIds
    BY <2>1 DEF Task
  <2> QED
    BY <1>1, <1>2, <2>2 DEF HoldsOrder, HasTask, OrdersTypeOK
<1>3. audited' \subseteq {q \in AdminRequests : HoldsOrder(q)'}
  BY <1>1, <1>2 DEF OrdersTypeOK
<1> QED
  BY <1>1, <1>3 DEF OrdersTypeOK, HasTask, HoldsOrder

(* Every step keeps the types and the links of the locks with the tasks. *)
LEMMA OrdersStepTypes ==
  ASSUME OrdersTypeOK, [OrdersNext]_vars
  PROVE  OrdersTypeOK'
<1> USE OrderAssumption, NullAssumption
<1>1. ASSUME NEW r \in Requests, FinishTask(r),
             status' \in [OrderIds -> OrderStatuses]
      PROVE  OrdersTypeOK'
  BY <1>1, FinishKeepsLocks
<1>2. ASSUME NEW r \in Requests, NEW o \in OrderIds, CreateOrder(r, o)
      PROVE  OrdersTypeOK'
  BY <1>2 DEF CreateOrder, OrdersTypeOK, OrderStatuses, HasTask, HoldsOrder
<1>3. ASSUME NEW r \in Requests, NEW o \in OrderIds, NEW to \in FinalStatuses,
             Begin(r, o, to)
      PROVE  OrdersTypeOK'
  <2>1. /\ ~HasTask(r) /\ UNCHANGED <<status, orderLock, audited>>
        /\ task' = [task EXCEPT ![r] = [order |-> o, to |-> to]]
    BY <1>3 DEF Begin
  <2>2. \A p \in OrderIds : orderLock[p] # r
    BY <2>1, NoTaskNoLock
  <2>3. [order |-> o, to |-> to] \in Task
    BY DEF Task
  <2>4. \A q \in Requests \ {r} : task'[q] = task[q]
    BY <2>1 DEF OrdersTypeOK
  <2>5. \A q \in Requests : HoldsOrder(q) => HoldsOrder(q)'
    BY <2>1, <2>4 DEF HoldsOrder, HasTask
  <2>6. task' \in [Requests -> Task \cup {NoTask}]
    BY <2>1, <2>3 DEF OrdersTypeOK
  <2>7. \A p \in OrderIds : orderLock'[p] # NoRequest =>
          HasTask(orderLock[p])' /\ task'[orderLock'[p]].order = p
    BY <2>1, <2>2, <2>4 DEF OrdersTypeOK, HasTask
  <2>8. audited' \subseteq {q \in AdminRequests : HoldsOrder(q)'}
    BY <2>1, <2>5 DEF OrdersTypeOK
  <2> QED
    BY <2>1, <2>6, <2>7, <2>8 DEF OrdersTypeOK, HasTask, HoldsOrder
<1>4. ASSUME NEW r \in Requests, LockOrder(r)
      PROVE  OrdersTypeOK'
  <2>1. task[r] \in Task
    BY <1>4 DEF LockOrder, HasTask, OrdersTypeOK
  <2>2. task[r].order \in OrderIds
    BY <2>1 DEF Task
  <2>3. /\ orderLock[task[r].order] = NoRequest /\ HasTask(r)
        /\ orderLock' = [orderLock EXCEPT ![task[r].order] = r]
        /\ UNCHANGED <<status, task, audited>>
    BY <1>4 DEF LockOrder, OrderFree
  <2>4. ASSUME NEW q \in AdminRequests, HoldsOrder(q)
        PROVE  HoldsOrder(q)'
    BY <2>2, <2>3, <2>4 DEF HoldsOrder, HasTask, OrdersTypeOK
  <2>5. audited' \subseteq {q \in AdminRequests : HoldsOrder(q)'}
    BY <2>3, <2>4 DEF OrdersTypeOK
  <2> QED
    BY <2>2, <2>3, <2>5 DEF OrdersTypeOK, HasTask, HoldsOrder
<1>5. ASSUME NEW r \in Requests, RejectOrder(r) \/ Abandon(r)
      PROVE  OrdersTypeOK'
  BY <1>5, <1>1 DEF RejectOrder, Abandon, OrdersTypeOK
<1>6. ASSUME NEW r \in Requests, GrantPoints(r)
      PROVE  OrdersTypeOK'
  BY <1>6 DEF GrantPoints, orderVars, OrdersTypeOK, HasTask, HoldsOrder
<1>7. ASSUME NEW r \in Requests, InsertAudit(r)
      PROVE  OrdersTypeOK'
  BY <1>7 DEF InsertAudit, Auditing, IsAdmin, OrdersTypeOK, HasTask, HoldsOrder
<1>8. ASSUME NEW r \in Requests, CommitPayment(r)
      PROVE  OrdersTypeOK'
  BY <1>8, <1>1 DEF CommitPayment, OrdersTypeOK, OrderStatuses, FinalStatuses
<1>9. ASSUME NEW r \in Requests, CommitStatus(r)
      PROVE  OrdersTypeOK'
  <2>1. task[r] \in Task
    BY <1>9 DEF CommitStatus, HoldsOrder, HasTask, OrdersTypeOK
  <2>2. task[r].to \in FinalStatuses
    BY <2>1 DEF Task
  <2> QED
    BY <1>9, <1>1, <2>2 DEF CommitStatus, OrdersTypeOK, OrderStatuses
<1>10. CASE UNCHANGED vars
  BY <1>10 DEF vars, orderVars, OrdersTypeOK, HasTask, HoldsOrder
<1> QED
  BY <1>2, <1>3, <1>4, <1>5, <1>6, <1>7, <1>8, <1>9, <1>10
  DEF OrdersNext, OrderStep

(* The task of a request that holds an order is a task. *)
LEMMA HeldTask ==
  ASSUME OrdersTypeOK, NEW r \in Requests, HasTask(r)
  PROVE  task[r].order \in OrderIds /\ task[r].to \in FinalStatuses
<1>1. task[r] \in Task
  BY DEF HasTask, OrdersTypeOK
<1> QED
  BY <1>1 DEF Task

(* An order row is held only by a request that works on it, and orders     *)
(* have one of their statuses, however requests interleave.                *)
THEOREM OrdersTypeCorrect == OrdersSpec => []OrdersTypeOK
<1>1. OrdersInit => OrdersTypeOK
  BY OrdersInitTypes
<1>2. OrdersTypeOK /\ [OrdersNext]_vars => OrdersTypeOK'
  BY OrdersStepTypes
<1> QED
  BY <1>1, <1>2, PTL DEF OrdersSpec

-----------------------------------------------------------------------------
(* Orders implements Accounts *)

(* A step of an order request is a step of its session, or none. *)
LEMMA OrderStepIsAccountsStep ==
  ASSUME OrdersTypeOK, [OrdersNext]_vars
  PROVE  [AccountsNext]_accountVars
<1>1. ASSUME NEW r \in Requests, NEW o \in OrderIds, CreateOrder(r, o)
      PROVE  UNCHANGED accountVars
  BY <1>1 DEF CreateOrder
<1>2. ASSUME NEW r \in Requests, NEW o \in OrderIds, NEW to \in FinalStatuses,
             Begin(r, o, to)
      PROVE  AccountsNext
  BY <1>2 DEF Begin, AccountsNext, AccountsStep
<1>3. ASSUME NEW r \in Requests, LockOrder(r) \/ InsertAudit(r)
      PROVE  UNCHANGED accountVars
  BY <1>3 DEF LockOrder, InsertAudit
<1>4. ASSUME NEW r \in Requests, EndSession(r) \/ CommitPoints(r)
      PROVE  AccountsNext
  BY <1>4 DEF AccountsNext, AccountsStep
<1>5. ASSUME NEW r \in Requests, GrantPoints(r)
      PROVE  AccountsNext
  <2> DEFINE o == task[r].order
  <2>1. o \in OrderIds
    BY <1>5, HeldTask DEF GrantPoints, HoldsOrder
  <2>2. OrderUser[o] \in Users /\ PointsGranted[o] \in Changes /\ o \in Subjects
    BY <2>1, OrderAssumption
  <2>3. ApplyPoints(r, OrderUser[o], PointsGranted[o], o)
    BY <1>5 DEF GrantPoints
  <2> QED
    BY <2>2, <2>3 DEF AccountsNext, AccountsStep
<1>6. CASE UNCHANGED vars
  BY <1>6 DEF vars
<1> QED
  BY <1>1, <1>2, <1>3, <1>4, <1>5, <1>6
  DEF OrdersNext, OrderStep, RejectOrder, CommitPayment, CommitStatus, Abandon

(* Payments and administrators' corrections use points only through        *)
(* apply_points, as Accounts says: what is proved of it holds of them.     *)
THEOREM OrdersImplementAccounts == OrdersSpec => AccountsSpec
<1>1. OrdersInit => AccountsInit
  BY DEF OrdersInit
<1>2. OrdersTypeOK /\ [OrdersNext]_vars => [AccountsNext]_accountVars
  BY OrderStepIsAccountsStep
<1> QED
  BY <1>1, <1>2, OrdersTypeCorrect, PTL DEF OrdersSpec, AccountsSpec

(* The balances that owners of orders see are those of their ledgers.      *)
THEOREM OrdersBalanceMatchesLedger == OrdersSpec => []BalanceIsLastEntry
BY OrdersImplementAccounts, BalanceMatchesLedger, PTL

-----------------------------------------------------------------------------
(* Who holds what after a step *)

(* A request that finishes lets go of its order; the others keep theirs.   *)
LEMMA FinishHolds ==
  ASSUME OrdersTypeOK, NEW r \in Requests, FinishTask(r)
  PROVE  /\ ~HoldsOrder(r)'
         /\ \A q \in Requests \ {r} :
              task'[q] = task[q] /\ (HoldsOrder(q)' <=> HoldsOrder(q))
<1>1. task' = [task EXCEPT ![r] = NoTask] /\ task \in [Requests -> Task \cup {NoTask}]
  BY DEF FinishTask, OrdersTypeOK
<1>2. ~HoldsOrder(r)'
  BY <1>1 DEF HoldsOrder, HasTask
<1>3. ASSUME NEW q \in Requests \ {r}, HoldsOrder(q)'
      PROVE  HoldsOrder(q)
  <2>1. task'[q] = task[q] /\ task[q] # NoTask /\ orderLock'[task[q].order] = q
    BY <1>1, <1>3 DEF HoldsOrder, HasTask
  <2>2. task[q].order \in OrderIds
    BY <2>1, HeldTask DEF HasTask
  <2> QED
    BY <2>1, <2>2, NullAssumption DEF FinishTask, HoldsOrder, HasTask
<1>4. ASSUME NEW q \in Requests \ {r}, HoldsOrder(q)
      PROVE  HoldsOrder(q)'
  <2>1. task'[q] = task[q] /\ task[q] # NoTask /\ orderLock[task[q].order] = q
    BY <1>1, <1>4 DEF HoldsOrder, HasTask
  <2>2. task[q].order \in OrderIds
    BY <2>1, HeldTask DEF HasTask
  <2> QED
    BY <2>1, <2>2 DEF FinishTask, HoldsOrder, HasTask
<1> QED
  BY <1>1, <1>2, <1>3, <1>4

(* An order has one holder. *)
LEMMA OneHolder ==
  ASSUME NEW r, NEW q, HoldsOrder(r), HoldsOrder(q), task[r].order = task[q].order
  PROVE  r = q
BY DEF HoldsOrder

-----------------------------------------------------------------------------
(* What a commit grants *)

(* The grants of every order are as they were if no ledger changed. *)
LEMMA GrantsKept ==
  ASSUME UNCHANGED ledger, NEW o \in OrderIds
  PROVE  GrantedFor(o)' = GrantedFor(o)
BY DEF GrantedFor

(* What Append does to a ledger. *)
LEMMA AppendedLine ==
  ASSUME NEW s \in Seq(Line), NEW e \in Line
  PROVE  /\ Len(Append(s, e)) = Len(s) + 1 /\ Len(s) \in Nat
         /\ Append(s, e)[Len(s) + 1] = e
         /\ \A i \in 1..Len(s) : Append(s, e)[i] = s[i]
OBVIOUS

(* A commit adds one grant, to the order that its request holds. *)
LEMMA GrantsPosted ==
  ASSUME AccountsTypeOK, OrdersTypeOK, DraftsAreGrants,
         NEW r \in Requests, CommitPoints(r), NEW o \in OrderIds, o = task[r].order
  PROVE  LET n == Len(ledger[OrderUser[o]]) + 1
         IN  /\ HoldsOrder(r)
             /\ GrantedFor(o)' = GrantedFor(o) \cup {n} /\ n \notin GrantedFor(o)
             /\ \A p \in OrderIds \ {o} : GrantedFor(p)' = GrantedFor(p)
<1> DEFINE u == OrderUser[o]
           e == draft[r]
           s == ledger[u]
<1>1. e # NoEntry
  BY DEF CommitPoints
<1>2. HoldsOrder(r) /\ e.about = o /\ e.user = u
  BY <1>1 DEF DraftsAreGrants
<1>3. u \in Users
  BY OrderAssumption
<1>4. ledger' = [ledger EXCEPT ![u] = Append(s, e)] /\ ledger \in [Users -> Seq(Line)]
  BY <1>2 DEF CommitPoints, AccountsTypeOK
<1>5. s \in Seq(Line) /\ ledger'[u] = Append(s, e)
  BY <1>3, <1>4
<1>6. /\ Len(ledger'[u]) = Len(s) + 1 /\ Len(s) \in Nat
      /\ ledger'[u][Len(s)+1] = e
      /\ \A i \in 1..Len(s) : ledger'[u][i] = s[i]
  <2>1. e \in Entry /\ e.after <= MaxBalance
    BY <1>1 DEF AccountsTypeOK, CommitPoints, FitsColumn
  <2>2. e \in Line
    <3>1. e.after \in 0..MaxBalance
      BY <2>1, AmountAssumption DEF Entry
    <3> QED
      BY <2>1, <3>1 DEF Entry, Line
  <2> HIDE DEF s, e, u
  <2>3. /\ Len(Append(s, e)) = Len(s) + 1 /\ Len(s) \in Nat
        /\ Append(s, e)[Len(s) + 1] = e
        /\ \A i \in 1..Len(s) : Append(s, e)[i] = s[i]
    BY <1>5, <2>2, AppendedLine
  <2> QED
    BY <1>5, <2>3
<1>7. ASSUME NEW p \in OrderIds, OrderUser[p] = u
      PROVE  \A i : i \in GrantedFor(p)'
                     <=> i \in GrantedFor(p) \/ (i = Len(s) + 1 /\ e.about = p)
  <2>1. GrantedFor(p) = {i \in 1..Len(s) : s[i].about = p}
    BY <1>7 DEF GrantedFor
  <2>2. GrantedFor(p)' = {i \in 1..Len(s)+1 : ledger'[u][i].about = p}
    BY <1>6, <1>7 DEF GrantedFor
  <2>3. \A i : i \in 1..Len(s)+1 <=> i \in 1..Len(s) \/ i = Len(s) + 1
    BY <1>6
  <2> QED
    BY <1>6, <2>1, <2>2, <2>3
<1>8. GrantedFor(o)' = GrantedFor(o) \cup {Len(s) + 1} /\ Len(s) + 1 \notin GrantedFor(o)
  <2>1. Len(s) + 1 \notin GrantedFor(o)
    <3>1. GrantedFor(o) \subseteq 1..Len(s)
      BY DEF GrantedFor
    <3>2. Len(s) \in Nat
      BY <1>6
    <3> HIDE DEF s
    <3>3. Len(s) + 1 \notin 1..Len(s)
      BY <3>2
    <3> QED
      BY <3>1, <3>3
  <2>2. \A i : i \in GrantedFor(o)'
                <=> i \in GrantedFor(o) \/ (i = Len(s) + 1 /\ e.about = o)
    BY <1>7
  <2>3. GrantedFor(o)' = GrantedFor(o) \cup {Len(s) + 1}
    BY <1>2, <2>2
  <2> QED
    BY <2>1, <2>3
<1>9. ASSUME NEW p \in OrderIds \ {o}
      PROVE  GrantedFor(p)' = GrantedFor(p)
  <2>1. OrderUser[p] \in Users
    BY OrderAssumption
  <2>2. CASE OrderUser[p] = u
    <3>1. \A i : i \in GrantedFor(p)' <=> i \in GrantedFor(p)
      BY <1>2, <1>7, <2>2
    <3> QED
      BY <3>1
  <2>3. CASE OrderUser[p] # u
    BY <1>4, <2>1, <2>3 DEF GrantedFor
  <2> QED
    BY <2>2, <2>3
<1> QED
  BY <1>2, <1>3, <1>8, <1>9

-----------------------------------------------------------------------------
(* The inductive invariant *)

(* Nothing is granted, held or drafted in the initial states. *)
LEMMA GrantInitInv == OrdersInit => GrantInv
<1> SUFFICES ASSUME OrdersInit PROVE GrantInv
  OBVIOUS
<1>1. \A r \in Requests : draft[r] = NoEntry /\ ~HoldsOrder(r)
  BY DEF OrdersInit, AccountsInit, HoldsOrder, HasTask
<1>2. \A o \in OrderIds : ledger[OrderUser[o]] = << >> /\ status[o] = "ABSENT"
  BY OrderAssumption DEF OrdersInit, AccountsInit
<1>3. \A o \in OrderIds : GrantedFor(o) = {}
  BY <1>2 DEF GrantedFor
<1> QED
  BY <1>1, <1>2, <1>3
  DEF GrantInv, DraftsAreGrants, HeldStaysAccepted, AuditsFollowGrants,
      UnpaidGrantsNothing, PaidIsGranted, GrantedOnce, OrdersInit

(* Where neither a status nor a ledger changes, the grants stay as they    *)
(* should be.                                                              *)
LEMMA GrantsStand ==
  ASSUME GrantInv, UNCHANGED <<ledger, status>>
  PROVE  (UnpaidGrantsNothing /\ PaidIsGranted /\ GrantedOnce)'
<1>1. \A o \in OrderIds : GrantedFor(o)' = GrantedFor(o)
  BY GrantsKept
<1> QED
  BY <1>1 DEF GrantInv, UnpaidGrantsNothing, PaidIsGranted, GrantedOnce

(* A request that finishes leaves the others with what they hold, if it    *)
(* changed no status of an order they hold.                                *)
LEMMA FinishKeepsHolders ==
  ASSUME OrdersTypeOK, AccountsTypeOK,
         DraftsAreGrants, HeldStaysAccepted, AuditsFollowGrants,
         NEW r \in Requests, FinishTask(r), CloseSession(r),
         \A q \in Requests \ {r} :
           HoldsOrder(q) => status'[task[q].order] = status[task[q].order]
  PROVE  DraftsAreGrants' /\ HeldStaysAccepted' /\ AuditsFollowGrants'
<1>1. /\ ~HoldsOrder(r)'
      /\ \A q \in Requests \ {r} :
           task'[q] = task[q] /\ (HoldsOrder(q)' <=> HoldsOrder(q))
  BY FinishHolds
<1>2. draft'[r] = NoEntry /\ \A q \in Requests \ {r} : draft'[q] = draft[q]
  BY DEF CloseSession, AccountsTypeOK
<1>3. DraftsAreGrants'
  BY <1>1, <1>2 DEF DraftsAreGrants
<1>4. HeldStaysAccepted'
  BY <1>1 DEF HeldStaysAccepted, Found, Accepts
<1>5. AuditsFollowGrants'
  <2>1. audited' = audited \ {r} /\ audited \subseteq Requests
    BY OrderAssumption DEF FinishTask, OrdersTypeOK
  <2> QED
    BY <1>1, <1>2, <2>1 DEF AuditsFollowGrants
<1> QED
  BY <1>3, <1>4, <1>5

(* create_order: nobody can hold an order that is not there yet. *)
LEMMA CreateKeepsGrants ==
  ASSUME OrdersTypeOK, GrantInv,
         NEW r \in Requests, NEW o \in OrderIds, CreateOrder(r, o)
  PROVE  GrantInv'
<1>1. /\ UNCHANGED <<accountVars, orderLock, task, audited>>
      /\ status[o] = "ABSENT" /\ status' = [status EXCEPT ![o] = "PENDING"]
      /\ status \in [OrderIds -> OrderStatuses]
  BY DEF CreateOrder, OrdersTypeOK
<1>2. \A q \in Requests : HoldsOrder(q)' <=> HoldsOrder(q)
  BY <1>1 DEF HoldsOrder, HasTask
<1>3. DraftsAreGrants'
  BY <1>1, <1>2 DEF GrantInv, DraftsAreGrants, accountVars
<1>4. HeldStaysAccepted'
  <2> SUFFICES ASSUME NEW q \in Requests, HoldsOrder(q)
               PROVE  Found(q, task[q].order)' /\ Accepts(q, task[q].order, task[q].to)'
    BY <1>2 DEF HeldStaysAccepted
  <2>1. task[q].order \in OrderIds
    BY HeldTask DEF HoldsOrder
  <2>2. Found(q, task[q].order) /\ Accepts(q, task[q].order, task[q].to)
    BY DEF GrantInv, HeldStaysAccepted
  <2>3. status'[task[q].order] = status[task[q].order] /\ task' = task
    BY <1>1, <2>1, <2>2 DEF Found
  <2> QED
    BY <2>2, <2>3 DEF Found, Accepts
<1>5. \A p \in OrderIds : GrantedFor(p)' = GrantedFor(p)
  BY <1>1, GrantsKept DEF accountVars
<1> QED
  BY <1>1, <1>3, <1>4, <1>5
  DEF GrantInv, AuditsFollowGrants, UnpaidGrantsNothing, PaidIsGranted,
      GrantedOnce, accountVars

(* A new task comes without a lock and without a draft. *)
LEMMA BeginKeepsGrants ==
  ASSUME OrdersTypeOK, GrantInv, NEW r \in Requests, NEW o \in OrderIds,
         NEW to \in FinalStatuses, Begin(r, o, to)
  PROVE  GrantInv'
<1>1. /\ ~HasTask(r) /\ UNCHANGED <<ledger, draft, status, orderLock, audited>>
      /\ \A q \in Requests \ {r} : task'[q] = task[q]
  BY DEF Begin, OpenSession, OrdersTypeOK
<1>2. task'[r] = [order |-> o, to |-> to]
  BY DEF Begin, OrdersTypeOK
<1>3. ~HoldsOrder(r)' /\ draft[r] = NoEntry
  BY <1>1, <1>2, NoTaskNoLock DEF HoldsOrder, HasTask, GrantInv, DraftsAreGrants
<1>4. \A q \in Requests \ {r} : HoldsOrder(q)' <=> HoldsOrder(q)
  BY <1>1 DEF HoldsOrder, HasTask
<1>5. DraftsAreGrants'
  BY <1>1, <1>3, <1>4 DEF GrantInv, DraftsAreGrants
<1>6. HeldStaysAccepted'
  BY <1>1, <1>3, <1>4 DEF GrantInv, HeldStaysAccepted, Found, Accepts
<1>7. AuditsFollowGrants'
  <2>1. audited \subseteq Requests \ {r}
    BY <1>1, OrderAssumption DEF OrdersTypeOK, HoldsOrder
  <2> QED
    BY <1>1, <2>1 DEF GrantInv, AuditsFollowGrants
<1> QED
  BY <1>1, <1>5, <1>6, <1>7, GrantsStand DEF GrantInv

(* The checks hold when the row is locked; others hold other rows. *)
LEMMA LockKeepsGrants ==
  ASSUME OrdersTypeOK, GrantInv, NEW r \in Requests, LockOrder(r)
  PROVE  GrantInv'
<1>1. task[r].order \in OrderIds /\ HasTask(r)
  BY HeldTask DEF LockOrder
<1>2. /\ orderLock[task[r].order] = NoRequest /\ ~HoldsOrder(r)
      /\ Found(r, task[r].order) /\ Accepts(r, task[r].order, task[r].to)
      /\ orderLock' = [orderLock EXCEPT ![task[r].order] = r]
      /\ UNCHANGED <<ledger, draft, status, task, audited>>
  BY DEF LockOrder, OrderFree, accountVars
<1>3. ASSUME NEW q \in Requests \ {r}
      PROVE  HoldsOrder(q)' <=> HoldsOrder(q)
  <2>1. CASE ~HasTask(q)
    BY <1>2, <2>1 DEF HoldsOrder, HasTask
  <2>2. CASE HasTask(q)
    <3>1. task[q].order \in OrderIds
      BY <2>2, HeldTask
    <3> QED
      BY <1>2, <3>1, NullAssumption DEF HoldsOrder, HasTask, OrdersTypeOK
  <2> QED
    BY <2>1, <2>2
<1>4. DraftsAreGrants'
  BY <1>2, <1>3 DEF GrantInv, DraftsAreGrants
<1>5. HeldStaysAccepted'
  BY <1>2, <1>3 DEF GrantInv, HeldStaysAccepted, Found, Accepts
<1>6. AuditsFollowGrants'
  BY <1>2 DEF GrantInv, AuditsFollowGrants
<1> QED
  BY <1>2, <1>4, <1>5, <1>6, GrantsStand DEF GrantInv

(* A request that ends without a commit takes its draft with it. *)
LEMMA EndKeepsGrants ==
  ASSUME OrdersTypeOK, AccountsTypeOK, GrantInv, NEW r \in Requests,
         RejectOrder(r) \/ Abandon(r)
  PROVE  GrantInv'
<1>1. FinishTask(r) /\ CloseSession(r) /\ UNCHANGED <<ledger, status>>
  BY DEF RejectOrder, Abandon, EndSession
<1>2. DraftsAreGrants' /\ HeldStaysAccepted' /\ AuditsFollowGrants'
  BY <1>1, FinishKeepsHolders DEF GrantInv
<1> QED
  BY <1>1, <1>2, GrantsStand DEF GrantInv

(* apply_points drafts the grant of the order that is held. *)
LEMMA GrantKeepsGrants ==
  ASSUME OrdersTypeOK, AccountsTypeOK, GrantInv, NEW r \in Requests, GrantPoints(r)
  PROVE  GrantInv'
<1>1. /\ HoldsOrder(r) /\ task[r].to = "PAID"
      /\ UNCHANGED <<ledger, status, orderLock, task, audited>>
  BY DEF GrantPoints, ApplyPoints, orderVars
<1>2. /\ draft'[r].about = task[r].order
      /\ draft'[r].user = OrderUser[task[r].order]
      /\ \A q \in Requests \ {r} : draft'[q] = draft[q]
  BY DEF GrantPoints, ApplyPoints, AccountsTypeOK
<1>3. \A q \in Requests : HoldsOrder(q)' <=> HoldsOrder(q)
  BY <1>1 DEF HoldsOrder, HasTask
<1>4. DraftsAreGrants'
  BY <1>1, <1>2, <1>3 DEF GrantInv, DraftsAreGrants
<1>5. HeldStaysAccepted'
  BY <1>1, <1>3 DEF GrantInv, HeldStaysAccepted, Found, Accepts
<1>6. AuditsFollowGrants'
  <2>1. draft[r] = NoEntry
    BY DEF GrantPoints, ApplyPoints, MayApply
  <2>2. r \notin audited
    BY <1>1, <2>1 DEF GrantInv, AuditsFollowGrants
  <2>3. audited \subseteq Requests \ {r}
    BY <2>2, OrderAssumption DEF OrdersTypeOK
  <2> QED
    BY <1>1, <1>2, <2>3 DEF GrantInv, AuditsFollowGrants
<1> QED
  BY <1>1, <1>4, <1>5, <1>6, GrantsStand DEF GrantInv

(* An audit line follows the grant, and changes nothing else. *)
LEMMA AuditKeepsGrants ==
  ASSUME OrdersTypeOK, GrantInv, NEW r \in Requests, InsertAudit(r)
  PROVE  GrantInv'
<1>1. /\ UNCHANGED <<ledger, draft, status, orderLock, task>>
      /\ audited' = audited \cup {r}
      /\ task[r].to = "PAID" => draft[r] # NoEntry
  BY DEF InsertAudit, Auditing, accountVars
<1>2. \A q \in Requests : HoldsOrder(q)' <=> HoldsOrder(q)
  BY <1>1 DEF HoldsOrder, HasTask
<1>3. DraftsAreGrants' /\ HeldStaysAccepted'
  BY <1>1, <1>2 DEF GrantInv, DraftsAreGrants, HeldStaysAccepted, Found, Accepts
<1>4. AuditsFollowGrants'
  BY <1>1 DEF GrantInv, AuditsFollowGrants
<1> QED
  BY <1>1, <1>3, <1>4, GrantsStand DEF GrantInv

(* What a payment changes: one order, not PAID before, becomes PAID and    *)
(* has one grant more.                                                     *)
LEMMA PaymentEffect ==
  ASSUME OrdersTypeOK, AccountsTypeOK, GrantInv, NEW r \in Requests,
         CommitPayment(r), NEW o \in OrderIds, o = task[r].order
  PROVE  /\ HoldsOrder(r) /\ Accepts(r, o, "PAID")
         /\ status[o] # "PAID" /\ status'[o] = "PAID"
         /\ \E n : n \notin GrantedFor(o) /\ GrantedFor(o)' = GrantedFor(o) \cup {n}
         /\ \A p \in OrderIds \ {o} :
              status'[p] = status[p] /\ GrantedFor(p)' = GrantedFor(p)
<1>1. /\ HoldsOrder(r) /\ task[r].to = "PAID" /\ CommitPoints(r)
      /\ status' = [status EXCEPT ![o] = "PAID"]
  BY DEF CommitPayment
<1>2. Accepts(r, o, "PAID")
  BY <1>1 DEF GrantInv, HeldStaysAccepted
<1>3. status[o] # "PAID"
  BY <1>2 DEF Accepts
<1>4. LET n == Len(ledger[OrderUser[o]]) + 1
      IN  /\ GrantedFor(o)' = GrantedFor(o) \cup {n} /\ n \notin GrantedFor(o)
          /\ \A p \in OrderIds \ {o} : GrantedFor(p)' = GrantedFor(p)
  BY <1>1, GrantsPosted DEF GrantInv
<1>5. status'[o] = "PAID" /\ \A p \in OrderIds \ {o} : status'[p] = status[p]
  BY <1>1 DEF OrdersTypeOK
<1> QED
  BY <1>1, <1>2, <1>3, <1>4, <1>5

(* A payment keeps the invariant: the order it pays had no grant unless an *)
(* administrator had closed it before.                                     *)
LEMMA PaymentKeepsGrants ==
  ASSUME OrdersTypeOK, AccountsTypeOK, GrantInv, NEW r \in Requests, CommitPayment(r)
  PROVE  GrantInv'
<1>1. PICK o \in OrderIds : o = task[r].order
  BY HeldTask DEF CommitPayment, HoldsOrder
<1>2. /\ HoldsOrder(r) /\ Accepts(r, o, "PAID")
      /\ status'[o] = "PAID"
      /\ \E n : n \notin GrantedFor(o) /\ GrantedFor(o)' = GrantedFor(o) \cup {n}
      /\ \A p \in OrderIds \ {o} :
           status'[p] = status[p] /\ GrantedFor(p)' = GrantedFor(p)
  BY <1>1, PaymentEffect
<1>3. \A q \in Requests \ {r} :
        HoldsOrder(q) => task[q].order \in OrderIds \ {o}
  BY <1>1, <1>2, OneHolder, HeldTask DEF HoldsOrder
<1>4. DraftsAreGrants' /\ HeldStaysAccepted' /\ AuditsFollowGrants'
  BY <1>2, <1>3, FinishKeepsHolders DEF CommitPayment, CommitPoints, GrantInv
<1>5. UnpaidGrantsNothing' /\ PaidIsGranted'
  BY <1>2 DEF GrantInv, UnpaidGrantsNothing, PaidIsGranted
<1>6. GrantedOnce'
  <2> SUFFICES ASSUME AdminRequests = {}
               PROVE  \A p \in OrderIds : \A i, j \in GrantedFor(p)' : i = j
    BY DEF GrantedOnce
  <2>1. status[o] = "PENDING"
    BY <1>2 DEF Accepts, IsAdmin
  <2>2. GrantedFor(o) = {}
    BY <2>1 DEF GrantInv, UnpaidGrantsNothing
  <2> QED
    BY <1>2, <2>2 DEF GrantInv, GrantedOnce
<1> QED
  BY <1>4, <1>5, <1>6 DEF GrantInv

(* What another final status changes: one status, and no grant. *)
LEMMA StatusEffect ==
  ASSUME OrdersTypeOK, NEW r \in Requests, CommitStatus(r),
         NEW o \in OrderIds, o = task[r].order
  PROVE  /\ HoldsOrder(r) /\ UNCHANGED ledger
         /\ status'[o] \in FinalStatuses \ {"PAID"}
         /\ \A p \in OrderIds \ {o} : status'[p] = status[p]
<1>1. HoldsOrder(r) /\ HasTask(r) /\ task[r].to # "PAID" /\ UNCHANGED ledger
  BY DEF CommitStatus, EndSession, HoldsOrder
<1>2. task[r].to \in FinalStatuses \ {"PAID"}
  BY <1>1, HeldTask
<1> QED
  BY <1>1, <1>2 DEF CommitStatus, OrdersTypeOK

(* A change of status keeps the invariant: only an unpaid order must have  *)
(* no grant, only a paid one must have it, and the order is neither.       *)
LEMMA StatusKeepsGrants ==
  ASSUME OrdersTypeOK, AccountsTypeOK, GrantInv, NEW r \in Requests, CommitStatus(r)
  PROVE  GrantInv'
<1>1. PICK o \in OrderIds : o = task[r].order
  BY HeldTask DEF CommitStatus, HoldsOrder
<1>2. /\ HoldsOrder(r) /\ UNCHANGED ledger
      /\ status'[o] \in FinalStatuses \ {"PAID"}
      /\ \A p \in OrderIds \ {o} : status'[p] = status[p]
  BY <1>1, StatusEffect
<1>3. \A p \in OrderIds : GrantedFor(p)' = GrantedFor(p)
  BY <1>2, GrantsKept
<1>4. \A q \in Requests \ {r} :
        HoldsOrder(q) => task[q].order \in OrderIds \ {o}
  BY <1>1, <1>2, OneHolder, HeldTask DEF HoldsOrder
<1>5. DraftsAreGrants' /\ HeldStaysAccepted' /\ AuditsFollowGrants'
  BY <1>2, <1>4, FinishKeepsHolders DEF CommitStatus, EndSession, GrantInv
<1>6. UnpaidGrantsNothing' /\ PaidIsGranted' /\ GrantedOnce'
  BY <1>2, <1>3, OrderAssumption
  DEF GrantInv, UnpaidGrantsNothing, PaidIsGranted, GrantedOnce, FinalStatuses
<1> QED
  BY <1>5, <1>6 DEF GrantInv

(* Every step keeps the invariant. *)
LEMMA StepKeepsGrants ==
  ASSUME OrdersTypeOK, AccountsTypeOK, GrantInv, [OrdersNext]_vars
  PROVE  GrantInv'
<1>1. CASE UNCHANGED vars
  <2>1. UNCHANGED <<ledger, draft, status, orderLock, task, audited>>
    BY <1>1 DEF vars, accountVars, orderVars
  <2>2. \A q \in Requests : HoldsOrder(q)' <=> HoldsOrder(q)
    BY <2>1 DEF HoldsOrder, HasTask
  <2>3. DraftsAreGrants' /\ HeldStaysAccepted' /\ AuditsFollowGrants'
    BY <2>1, <2>2
    DEF GrantInv, DraftsAreGrants, HeldStaysAccepted, AuditsFollowGrants, Found,
        Accepts
  <2> QED
    BY <2>1, <2>3, GrantsStand DEF GrantInv
<1>2. CASE OrdersNext
  BY <1>2, CreateKeepsGrants, BeginKeepsGrants, LockKeepsGrants, EndKeepsGrants,
     GrantKeepsGrants, AuditKeepsGrants, PaymentKeepsGrants, StatusKeepsGrants
  DEF OrdersNext, OrderStep
<1> QED
  BY <1>1, <1>2

(* The types and the invariant hold together in every behaviour. *)
LEMMA OrdersInvariance == OrdersSpec => [](OrdersTypeOK /\ AccountsTypeOK /\ GrantInv)
<1>1. OrdersSpec => []AccountsTypeOK
  BY OrdersImplementAccounts, AccountsTypeCorrect, PTL
<1>2. OrdersInit => GrantInv
  BY GrantInitInv
<1>3. OrdersTypeOK /\ AccountsTypeOK /\ GrantInv /\ [OrdersNext]_vars => GrantInv'
  BY StepKeepsGrants
<1> QED
  BY <1>1, <1>2, <1>3, OrdersTypeCorrect, PTL DEF OrdersSpec

(* An order its owner can still pay has granted nothing, for any number of *)
(* payments and corrections of it under way.                               *)
THEOREM UnpaidOrdersGrantNothing == OrdersSpec => []UnpaidGrantsNothing
<1>1. GrantInv => UnpaidGrantsNothing
  BY DEF GrantInv
<1> QED
  BY <1>1, OrdersInvariance, PTL

(* No order is PAID without its points in the ledger. *)
THEOREM PaidOrdersAreGranted == OrdersSpec => []PaidIsGranted
<1>1. GrantInv => PaidIsGranted
  BY DEF GrantInv
<1> QED
  BY <1>1, OrdersInvariance, PTL

(* Owners alone, however many payments they send, get their points once.   *)
THEOREM OrdersGrantOnce == OrdersSpec => []GrantedOnce
<1>1. GrantInv => GrantedOnce
  BY DEF GrantInv
<1> QED
  BY <1>1, OrdersInvariance, PTL

(* Points are granted for an order in the step that makes it PAID and in   *)
(* no other, whoever makes it.                                             *)
LEMMA StepGrantsFollow ==
  ASSUME OrdersTypeOK, AccountsTypeOK, GrantInv, OrdersNext, NEW o \in OrderIds
  PROVE  (GrantedFor(o)' # GrantedFor(o)) <=> (status[o] # "PAID" /\ status'[o] = "PAID")
<1>1. ASSUME UNCHANGED ledger, status'[o] = "PAID" => status[o] = "PAID"
      PROVE  (GrantedFor(o)' # GrantedFor(o))
               <=> (status[o] # "PAID" /\ status'[o] = "PAID")
  BY <1>1, GrantsKept
<1>2. ASSUME NEW r \in Requests, NEW p \in OrderIds, CreateOrder(r, p)
      PROVE  UNCHANGED ledger /\ (status'[o] = "PAID" => status[o] = "PAID")
  BY <1>2 DEF CreateOrder, accountVars, OrdersTypeOK
<1>3. ASSUME NEW r \in Requests,
             \/ \E p \in OrderIds, to \in FinalStatuses : Begin(r, p, to)
             \/ LockOrder(r) \/ RejectOrder(r) \/ GrantPoints(r) \/ InsertAudit(r)
             \/ Abandon(r)
      PROVE  UNCHANGED <<ledger, status>>
  BY <1>3
  DEF Begin, OpenSession, LockOrder, RejectOrder, GrantPoints, ApplyPoints,
      InsertAudit, Abandon, EndSession, accountVars, orderVars
<1>4. ASSUME NEW r \in Requests, CommitStatus(r)
      PROVE  UNCHANGED ledger /\ (status'[o] = "PAID" => status[o] = "PAID")
  <2>1. PICK p \in OrderIds : p = task[r].order
    BY <1>4, HeldTask DEF CommitStatus, HoldsOrder
  <2> QED
    BY <1>4, <2>1, StatusEffect
<1>5. ASSUME NEW r \in Requests, CommitPayment(r)
      PROVE  (GrantedFor(o)' # GrantedFor(o))
               <=> (status[o] # "PAID" /\ status'[o] = "PAID")
  <2>1. PICK p \in OrderIds : p = task[r].order
    BY <1>5, HeldTask DEF CommitPayment, HoldsOrder
  <2>2. /\ status[p] # "PAID" /\ status'[p] = "PAID"
        /\ \E n : n \notin GrantedFor(p) /\ GrantedFor(p)' = GrantedFor(p) \cup {n}
        /\ \A q \in OrderIds \ {p} :
             status'[q] = status[q] /\ GrantedFor(q)' = GrantedFor(q)
    BY <1>5, <2>1, PaymentEffect
  <2>3. CASE o = p
    BY <2>2, <2>3
  <2>4. CASE o # p
    BY <2>2, <2>4
  <2> QED
    BY <2>3, <2>4
<1> QED
  BY <1>1, <1>2, <1>3, <1>4, <1>5 DEF OrdersNext, OrderStep

(* The same for whole behaviours: a grant and the status PAID are one step. *)
THEOREM GrantsFollowPayments == OrdersSpec => GrantsFollowStatus
<1>1. OrdersTypeOK /\ AccountsTypeOK /\ GrantInv /\ [OrdersNext]_vars
        => [\A o \in OrderIds :
              (GrantedFor(o)' # GrantedFor(o))
                <=> (status[o] # "PAID" /\ status'[o] = "PAID")]_vars
  BY StepGrantsFollow
<1> QED
  BY <1>1, OrdersInvariance, PTL DEF OrdersSpec, GrantsFollowStatus

-----------------------------------------------------------------------------
(* What owners may change *)

(* Only administrators choose a status: the task of an owner is to pay.    *)
OwnersPayOnly ==
  \A r \in Requests \ AdminRequests : HasTask(r) => task[r].to = "PAID"

(* A task is given by Begin, with its status, and then kept or dropped. *)
LEMMA StepKeepsOwnersPaying ==
  ASSUME OrdersTypeOK, OwnersPayOnly, [OrdersNext]_vars
  PROVE  OwnersPayOnly'
<1>1. ASSUME NEW q \in Requests, FinishTask(q)
      PROVE  OwnersPayOnly'
  BY <1>1 DEF FinishTask, OwnersPayOnly, HasTask, OrdersTypeOK
<1>2. ASSUME NEW q \in Requests, NEW o \in OrderIds, NEW to \in FinalStatuses,
             Begin(q, o, to)
      PROVE  OwnersPayOnly'
  <2>1. /\ q \notin AdminRequests => to = "PAID"
        /\ task'[q] = [order |-> o, to |-> to]
        /\ \A r \in Requests \ {q} : task'[r] = task[r]
    BY <1>2 DEF Begin, IsAdmin, OrdersTypeOK
  <2> QED
    BY <2>1 DEF OwnersPayOnly, HasTask
<1>3. ASSUME UNCHANGED task
      PROVE  OwnersPayOnly'
  BY <1>3 DEF OwnersPayOnly, HasTask
<1> QED
  BY <1>1, <1>2, <1>3
  DEF OrdersNext, OrderStep, CreateOrder, LockOrder, RejectOrder, GrantPoints,
      InsertAudit, CommitPayment, CommitStatus, Abandon, orderVars, vars

(* While an owner holds an order, only the owner's own payment changes it, *)
(* and it finds the order PENDING, as the check under the lock found it.   *)
LEMMA StepOwnersPay ==
  ASSUME OrdersTypeOK, AccountsTypeOK, GrantInv, OwnersPayOnly, OrdersNext,
         NEW r \in Requests \ AdminRequests, NEW o \in OrderIds,
         HoldsOrder(r), task[r].order = o, status'[o] # status[o]
  PROVE  status[o] = "PENDING" /\ status'[o] = "PAID"
<1>1. status[o] = "PENDING"
  BY DEF GrantInv, HeldStaysAccepted, Accepts, IsAdmin
<1>2. ASSUME NEW q \in Requests, NEW p \in OrderIds, CreateOrder(q, p)
      PROVE  FALSE
  BY <1>1, <1>2 DEF CreateOrder, OrdersTypeOK
<1>3. ASSUME NEW q \in Requests,
             \/ \E p \in OrderIds, to \in FinalStatuses : Begin(q, p, to)
             \/ LockOrder(q) \/ RejectOrder(q) \/ GrantPoints(q) \/ InsertAudit(q)
             \/ Abandon(q)
      PROVE  FALSE
  BY <1>3
  DEF Begin, LockOrder, RejectOrder, GrantPoints, InsertAudit, Abandon, orderVars
<1>4. ASSUME NEW q \in Requests, CommitPayment(q)
      PROVE  status'[o] = "PAID"
  <2>1. PICK p \in OrderIds : p = task[q].order
    BY <1>4, HeldTask DEF CommitPayment, HoldsOrder
  <2> QED
    BY <1>4, <2>1, PaymentEffect
<1>5. ASSUME NEW q \in Requests, CommitStatus(q)
      PROVE  FALSE
  <2>1. PICK p \in OrderIds : p = task[q].order
    BY <1>5, HeldTask DEF CommitStatus, HoldsOrder
  <2>2. p = o /\ HoldsOrder(q)
    BY <1>5, <2>1, StatusEffect
  <2>3. q = r
    BY <2>1, <2>2, OneHolder
  <2> QED
    BY <1>5, <2>3 DEF CommitStatus, OwnersPayOnly, HoldsOrder
<1> QED
  BY <1>1, <1>2, <1>3, <1>4, <1>5 DEF OrdersNext, OrderStep

(* What an administrator closed stays closed to its owner, also if the     *)
(* owner's payment was under way (commercial.py:95-98).                    *)
THEOREM OwnersPayPending == OrdersSpec => OwnersChangePendingOnly
<1>1. OrdersInit => OwnersPayOnly
  BY DEF OrdersInit, OwnersPayOnly, HasTask
<1>2. OrdersTypeOK /\ OwnersPayOnly /\ [OrdersNext]_vars => OwnersPayOnly'
  BY StepKeepsOwnersPaying
<1>3. OrdersTypeOK /\ AccountsTypeOK /\ GrantInv /\ OwnersPayOnly /\ [OrdersNext]_vars
        => [\A r \in Requests \ AdminRequests, o \in OrderIds :
              (HoldsOrder(r) /\ task[r].order = o /\ status'[o] # status[o])
                => status[o] = "PENDING" /\ status'[o] = "PAID"]_vars
  BY StepOwnersPay
<1> QED
  BY <1>1, <1>2, <1>3, OrdersInvariance, PTL DEF OrdersSpec, OwnersChangePendingOnly

-----------------------------------------------------------------------------
(* Waiting *)

(* Who is waited for holds an order. *)
LEMMA WaitedForHolds ==
  ASSUME OrdersTypeOK, GrantInv, LocksHaveDrafts,
         NEW r \in Requests, NEW q \in WaitsFor(r)
  PROVE  HoldsOrder(q)
<1>1. q \in Requests
  BY DEF WaitsFor
<1>2. CASE HasTask(r) /\ ~HoldsOrder(r) /\ orderLock[task[r].order] = q
  <2>1. task[r].order \in OrderIds
    BY <1>2, HeldTask
  <2> QED
    BY <1>1, <1>2, <2>1, NullAssumption DEF OrdersTypeOK, HoldsOrder
<1>3. ASSUME NEW u \in Users, rowLock[u] = q
      PROVE  HoldsOrder(q)
  BY <1>1, <1>3, NullAssumption DEF LocksHaveDrafts, GrantInv, DraftsAreGrants
<1>4. CASE /\ HoldsOrder(r)
           /\ \/ rowLock[OrderUser[task[r].order]] = q
              \/ q \in Referring(OrderUser[task[r].order])
  <2>1. OrderUser[task[r].order] \in Users
    BY <1>4, HeldTask, OrderAssumption DEF HoldsOrder
  <2> QED
    BY <1>3, <1>4, <2>1 DEF Referring, OrdersTypeOK
<1>5. CASE Auditing(r) /\ rowLock[Caller[r]] = q
  BY <1>3, <1>5, CallerAssumption
<1> QED
  BY <1>2, <1>4, <1>5 DEF WaitsFor

(* Whoever waits for somebody and holds an order waits for a request that  *)
(* has drafted its grant or inserted its audit line.                       *)
LEMMA HoldersWaitForLate ==
  ASSUME OrdersTypeOK, GrantInv, LocksHaveDrafts,
         NEW r \in Requests, HoldsOrder(r), NEW q \in WaitsFor(r)
  PROVE  draft[q] # NoEntry \/ q \in audited
<1>1. q \in Requests /\ OrderUser[task[r].order] \in Users /\ Caller[r] \in Users
  BY HeldTask, OrderAssumption, CallerAssumption DEF WaitsFor, HoldsOrder
<1> QED
  BY <1>1, NullAssumption DEF WaitsFor, Referring, LocksHaveDrafts

(* Payments and corrections of orders, in any number, deadlock only as     *)
(* approvals: all of a circle hold an order, since each is waited for; so  *)
(* each waits for one that has drafted or audited, and is one itself; who  *)
(* has audited waits for nobody; so all are to audit, and the row that     *)
(* each needs, its caller's, belongs to the order another one approves.    *)
THEOREM OrdersDeadlockInApprovals == OrdersSpec => []DeadlocksAreApprovals
<1>1. OrdersTypeOK /\ GrantInv /\ LocksHaveDrafts => DeadlocksAreApprovals
  <2> SUFFICES ASSUME OrdersTypeOK, GrantInv, LocksHaveDrafts,
                      NEW S \in SUBSET Requests, Circle(S), NEW r \in S
               PROVE  /\ IsAdmin(r) /\ task[r].to = "PAID" /\ draft[r] # NoEntry
                      /\ \E q \in S \ {r} : OrderUser[task[q].order] = Caller[r]
    BY DEF DeadlocksAreApprovals
  <2>1. ASSUME NEW q \in S
        PROVE  HoldsOrder(q)
    BY WaitedForHolds DEF Circle
  <2>2. ASSUME NEW q \in S
        PROVE  draft[q] # NoEntry \/ q \in audited
    BY <2>1, HoldersWaitForLate DEF Circle
  <2>3. ASSUME NEW q \in S
        PROVE  draft[q] # NoEntry /\ Auditing(q)
    <3>1. PICK p \in S : p \in WaitsFor(q)
      BY DEF Circle
    <3>2. task[q].to = "PAID" => draft[q] # NoEntry
      BY <2>2 DEF GrantInv, AuditsFollowGrants
    <3>3. Auditing(q)
      BY <2>1, <3>1, <3>2 DEF WaitsFor
    <3>4. q \notin audited
      BY <3>3 DEF Auditing
    <3> QED
      BY <2>2, <3>3, <3>4
  <2>4. PICK q \in S : q \in WaitsFor(r)
    BY DEF Circle
  <2>5. q # r /\ rowLock[Caller[r]] = q
    BY <2>1, <2>3, <2>4 DEF WaitsFor
  <2>6. draft[q].user = Caller[r]
    BY <2>5, CallerAssumption, NullAssumption DEF LocksHaveDrafts
  <2>7. draft[q].user = OrderUser[task[q].order]
    BY <2>3 DEF GrantInv, DraftsAreGrants
  <2>8. IsAdmin(r) /\ task[r].to = "PAID" /\ draft[r] # NoEntry
    BY <2>3 DEF Auditing, GrantInv, DraftsAreGrants
  <2> QED
    BY <2>5, <2>6, <2>7, <2>8
<1>2. OrdersSpec => []LocksHaveDrafts
  BY OrdersImplementAccounts, LocksAreDrafted, PTL
<1> QED
  BY <1>1, <1>2, OrdersInvariance, PTL
=============================================================================
