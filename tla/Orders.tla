------------------------------- MODULE Orders -------------------------------
(***************************************************************************)
(* Point purchases: an order is created PENDING, paid by its owner         *)
(* (mock_pay) or moved to any final status by an administrator             *)
(* (order_status).  Both handlers lock the order row, then, to pay, the    *)
(* owner's row through apply_points, and commit both rows together.  An    *)
(* administrator's commit first inserts an audit line, whose foreign key   *)
(* takes a shared lock on the administrator's own row of users.            *)
(* A request goes through Begin (the session loads the caller), LockOrder  *)
(* or RejectOrder, GrantPoints if it pays, InsertAudit if its caller is an *)
(* administrator, and CommitPayment or CommitStatus; it may be abandoned   *)
(* (error, deadlock victim, lost connection, dead process) after any.      *)
(***************************************************************************)
EXTENDS Accounts, FiniteSets

CONSTANTS
  OrderIds,       \* payment_orders that are ever created
  OrderUser,      \* OrderUser[o]: the owner of o
  PointsGranted,  \* PointsGranted[o]: the points of the package bought
  AdminRequests,  \* requests that came in through get_admin_user
  Closed,         \* CANCELED, FAILED, REFUNDED: alike to both handlers
  NoTask          \* a request that handles no order

FinalStatuses == {"PAID"} \cup Closed
OrderStatuses == FinalStatuses \cup {"ABSENT", "PENDING"}

(* What a request is about: make this order have that status. *)
Task == [order : OrderIds, to : FinalStatuses]

ASSUME OrderAssumption ==
  /\ OrderIds \subseteq Subjects
  /\ OrderUser \in [OrderIds -> Users]
  /\ PointsGranted \in [OrderIds -> Changes]
  /\ AdminRequests \subseteq Requests
  /\ Closed \cap {"ABSENT", "PENDING", "PAID"} = {}
  /\ NoTask \notin Task

VARIABLES
  status,         \* status[o]: payment_orders.status, ABSENT before INSERT
  orderLock,      \* orderLock[o]: the request that holds the row o
  task,           \* task[r]: what r was sent to do
  audited         \* requests that share their caller's row for an audit line

orderVars == <<status, orderLock, task, audited>>
vars == <<accountVars, orderVars>>

OrdersInit ==
  /\ AccountsInit
  /\ status = [o \in OrderIds |-> "ABSENT"]
  /\ orderLock = [o \in OrderIds |-> NoRequest]
  /\ task = [r \in Requests |-> NoTask]
  /\ audited = {}

-----------------------------------------------------------------------------

IsAdmin(r) == r \in AdminRequests
HasTask(r) == task[r] # NoTask
HoldsOrder(r) == HasTask(r) /\ orderLock[task[r].order] = r

(* create_order: one INSERT in one transaction, for the caller, who may be *)
(* an administrator; its foreign key waits for whoever holds the caller's  *)
(* row.                                                                    *)
CreateOrder(r, o) ==
  /\ ~HasTask(r)
  /\ Caller[r] = OrderUser[o]
  /\ status[o] = "ABSENT"
  /\ RowFree(OrderUser[o])
  /\ status' = [status EXCEPT ![o] = "PENDING"]
  /\ UNCHANGED <<accountVars, orderLock, task, audited>>

(* Bound: a payment begins if the owner's ledger has room for its entry    *)
(* and for those of the payments that are under way.                       *)
Paying(u) == {r \in Requests : /\ HasTask(r) /\ task[r].to = "PAID"
                               /\ OrderUser[task[r].order] = u}
RoomForPayment(u) == Len(ledger[u]) + Cardinality(Paying(u)) < MaxEntries

(* mock_pay or order_status is called and its caller authenticated.        *)
(* Bound: r works on the orders of Targets[r].                             *)
Begin(r, o, to) ==
  /\ ~HasTask(r) /\ OrderUser[o] \in Targets[r]
  /\ to = "PAID" => RoomForPayment(OrderUser[o])
  /\ ~IsAdmin(r) => to = "PAID"
  /\ OpenSession(r)
  /\ task' = [task EXCEPT ![r] = [order |-> o, to |-> to]]
  /\ UNCHANGED <<status, orderLock, audited>>

OrderFree(o) == orderLock[o] = NoRequest

(* The WHERE of the SELECT: mock_pay finds the caller's orders only. *)
Found(r, o) ==
  /\ status[o] # "ABSENT"
  /\ IsAdmin(r) \/ OrderUser[o] = Caller[r]

AcceptsUnlessPaid(r, o, to) == to = "PAID" => status[o] # "PAID"
AcceptsAnything(r, o, to) == to \in FinalStatuses
(* mock_pay takes PENDING orders; order_status only refuses PAID on PAID.  *)
Accepts(r, o, to) ==
  IF IsAdmin(r)
  THEN to = "PAID" => status[o] # "PAID"
  ELSE status[o] = "PENDING"

(* SELECT ... FOR UPDATE on the order, and the checks that follow it.      *)
LockOrder(r) ==
  LET o == task[r].order
  IN  /\ HasTask(r) /\ ~HoldsOrder(r)
      /\ OrderFree(o)
      /\ Found(r, o) /\ Accepts(r, o, task[r].to)
      /\ orderLock' = [orderLock EXCEPT ![o] = r]
      /\ UNCHANGED <<accountVars, status, task, audited>>

FinishKeepingLock(r) ==
  /\ orderLock' = orderLock
  /\ task' = [task EXCEPT ![r] = NoTask]
  /\ audited' = audited \ {r}

(* The response is sent: get_db closes the session and every lock goes.    *)
FinishTask(r) ==
  /\ orderLock' = [o \in OrderIds |->
                     IF orderLock[o] = r THEN NoRequest ELSE orderLock[o]]
  /\ task' = [task EXCEPT ![r] = NoTask]
  /\ audited' = audited \ {r}

(* ORDER_NOT_FOUND, ORDER_ALREADY_PAID, ORDER_NOT_PAYABLE. *)
RejectOrder(r) ==
  LET o == task[r].order
  IN  /\ HasTask(r) /\ ~HoldsOrder(r)
      /\ OrderFree(o)
      /\ ~(Found(r, o) /\ Accepts(r, o, task[r].to))
      /\ EndSession(r)
      /\ FinishTask(r)
      /\ UNCHANGED status

GrantPointsAutocommitted(r) ==
  LET o == task[r].order
      u == OrderUser[o]
  IN  /\ HoldsOrder(r) /\ task[r].to = "PAID"
      /\ MayApply(r, u)
      /\ balance' = [balance EXCEPT ![u] = balance[u] + PointsGranted[o]]
      /\ UNCHANGED <<ledger, rowLock, seen, draft, orderVars>>

GrantPointsBeforeLock(r) ==
  LET o == task[r].order
  IN  /\ HasTask(r) /\ task[r].to = "PAID"
      /\ ApplyPoints(r, OrderUser[o], PointsGranted[o], o)
      /\ UNCHANGED orderVars

(* Who keeps row u from being locked for writing with an audit line. *)
Referring(u) == {r \in audited : Caller[r] = u}

(* apply_points for the owner of the order, with the order locked: FOR     *)
(* UPDATE waits for the audit lines that refer to the owner as well.       *)
GrantPoints(r) ==
  LET o == task[r].order
  IN  /\ HoldsOrder(r) /\ task[r].to = "PAID"
      /\ Referring(OrderUser[o]) = {}
      /\ ApplyPoints(r, OrderUser[o], PointsGranted[o], o)
      /\ UNCHANGED orderVars

(* The commit of an administrator has come to its audit line: the UPDATE   *)
(* of a balance that changes goes before it.                               *)
Auditing(r) ==
  /\ IsAdmin(r) /\ HoldsOrder(r) /\ r \notin audited
  /\ task[r].to = "PAID" => draft[r] # NoEntry /\ FitsColumn(draft[r])

(* audit: the line's foreign key shares the administrator's row of users,  *)
(* which FOR UPDATE of another request must not hold.                      *)
InsertAudit(r) ==
  /\ Auditing(r)
  /\ rowLock[Caller[r]] \in {NoRequest, r}
  /\ audited' = audited \cup {r}
  /\ UNCHANGED <<accountVars, status, orderLock, task>>

(* What has to be in the session's transaction when it commits. *)
AuditMade(r) == IsAdmin(r) => r \in audited

CommitPaymentStatusForgotten(r) ==
  /\ HoldsOrder(r) /\ task[r].to = "PAID" /\ AuditMade(r)
  /\ CommitPoints(r)
  /\ FinishTask(r)
  /\ UNCHANGED status

(* The commit of a payment: status, balance and ledger in one transaction. *)
CommitPayment(r) ==
  /\ HoldsOrder(r) /\ task[r].to = "PAID" /\ AuditMade(r)
  /\ CommitPoints(r)
  /\ status' = [status EXCEPT ![task[r].order] = "PAID"]
  /\ FinishTask(r)

CommitStatusAny(r) ==
  /\ HoldsOrder(r) /\ AuditMade(r)
  /\ EndSession(r)
  /\ status' = [status EXCEPT ![task[r].order] = task[r].to]
  /\ FinishTask(r)

(* An administrator's other statuses move no points, whatever was granted. *)
CommitStatus(r) ==
  /\ HoldsOrder(r) /\ task[r].to # "PAID" /\ AuditMade(r)
  /\ EndSession(r)
  /\ status' = [status EXCEPT ![task[r].order] = task[r].to]
  /\ FinishTask(r)

Abandon(r) ==
  /\ HasTask(r)
  /\ EndSession(r)
  /\ FinishTask(r)
  /\ UNCHANGED status

(* The balance does not fit its column: MySQL refuses the UPDATE. *)
FailPayment(r) == draft[r] # NoEntry /\ ~FitsColumn(draft[r]) /\ Abandon(r)

OrderStep(r) ==
  \/ \E o \in OrderIds : CreateOrder(r, o)
  \/ \E o \in OrderIds, to \in FinalStatuses : Begin(r, o, to)
  \/ LockOrder(r)
  \/ RejectOrder(r)
  \/ GrantPoints(r)
  \/ InsertAudit(r)
  \/ CommitPayment(r)
  \/ CommitStatus(r)
  \/ Abandon(r)

OrdersNext == \E r \in Requests : OrderStep(r)

OrdersSpec == OrdersInit /\ [][OrdersNext]_vars

(* Whose locks keep r from its next one: the row of its order, the row of  *)
(* the owner if it pays, the row of its caller for the audit line.         *)
WaitsFor(r) ==
  LET o == task[r].order
      u == OrderUser[o]
  IN  {q \in Requests \ {r} :
         \/ HasTask(r) /\ ~HoldsOrder(r) /\ orderLock[o] = q
         \/ /\ HoldsOrder(r) /\ task[r].to = "PAID" /\ draft[r] = NoEntry
            /\ rowLock[u] = q \/ q \in Referring(u)
         \/ Auditing(r) /\ rowLock[Caller[r]] = q}

(* Requests that wait for each other: each for one of them, and one of     *)
(* them for each.                                                          *)
Circle(S) ==
  /\ S # {}
  /\ \A r \in S : \E p, q \in S : r \in WaitsFor(p) /\ q \in WaitsFor(r)

Waiting == {r \in Requests : WaitsFor(r) # {}}

(* InnoDB rolls back one of a circle. *)
Victim(r) == (\E S \in SUBSET Waiting : r \in S /\ Circle(S)) /\ Abandon(r)

(* InnoDB queues lock requests in order, so a request whose row is free    *)
(* again and again gets it (SF), and of a circle it rolls somebody back;   *)
(* nothing obliges a request to arrive, nor one that runs to be abandoned  *)
(* for another reason.                                                     *)
OrdersFairness ==
  \A r \in Requests :
    /\ SF_vars(LockOrder(r) \/ RejectOrder(r) \/ GrantPoints(r) \/ InsertAudit(r))
    /\ WF_vars(CommitPayment(r) \/ FailPayment(r) \/ CommitStatus(r) \/ Victim(r))

OrdersLiveSpec == OrdersSpec /\ OrdersFairness

-----------------------------------------------------------------------------
(* Properties *)

(* Types, and who holds an order is a request with a task about it, and    *)
(* who has inserted an audit line holds an order.                          *)
OrdersTypeOK ==
  /\ status \in [OrderIds -> OrderStatuses]
  /\ orderLock \in [OrderIds -> Requests \cup {NoRequest}]
  /\ task \in [Requests -> Task \cup {NoTask}]
  /\ \A o \in OrderIds :
       orderLock[o] # NoRequest =>
         HasTask(orderLock[o]) /\ task[orderLock[o]].order = o
  /\ audited \subseteq {r \in AdminRequests : HoldsOrder(r)}

GrantedFor(o) == {i \in 1..Len(ledger[OrderUser[o]]) :
                    ledger[OrderUser[o]][i].about = o}

(* An order its owner could still pay has never granted points, however    *)
(* payments and administrators interleave on it (commercial.py:95-98).     *)
UnpaidGrantsNothing ==
  \A o \in OrderIds : status[o] \in {"ABSENT", "PENDING"} => GrantedFor(o) = {}

(* A paid order has its points in the owner's ledger: the status is never  *)
(* committed without the grant, by mock_pay or by an administrator.        *)
PaidIsGranted ==
  \A o \in OrderIds : status[o] = "PAID" => GrantedFor(o) # {}

(* Without administrators an order grants its points once, although its    *)
(* owner may send any number of payments at the same time.                 *)
GrantedOnce ==
  AdminRequests = {} =>
    \A o \in OrderIds : \A i, j \in GrantedFor(o) : i = j

(* A request of the owner changes only an order that is PENDING when the   *)
(* change commits: what an administrator closed in between stays closed.   *)
OwnersChangePendingOnly ==
  [][\A r \in Requests \ AdminRequests, o \in OrderIds :
       (HoldsOrder(r) /\ task[r].order = o /\ status'[o] # status[o])
         => status[o] = "PENDING" /\ status'[o] = "PAID"]_vars

(* Points move for an order exactly when it becomes PAID: never on PAID    *)
(* twice in a row, never on another status.                                *)
GrantsFollowStatus ==
  [][\A o \in OrderIds :
       (GrantedFor(o)' # GrantedFor(o)) <=> (status[o] # "PAID" /\ status'[o] = "PAID")]_vars

(* Requests that touch orders deadlock only if administrators approve the  *)
(* orders of each other: all of a circle have locked the owner of an order *)
(* and are to insert their audit line, for which each needs its own row,   *)
(* locked by another of them.  A payment of an owner is in no circle, nor  *)
(* is a correction (admin.py:144-155, commercial.py:88-110).               *)
DeadlocksAreApprovals ==
  \A S \in SUBSET Requests :
    Circle(S) =>
      \A r \in S :
        /\ IsAdmin(r) /\ task[r].to = "PAID" /\ draft[r] # NoEntry
        /\ \E q \in S \ {r} : OrderUser[task[q].order] = Caller[r]

(* Every request that is not lost is answered: payments and corrections,   *)
(* because all lock the order before the owner, and approvals that wait    *)
(* for each other, because the database rolls one of them back.            *)
EveryRequestAnswered == \A r \in Requests : HasTask(r) ~> ~HasTask(r)
=============================================================================
