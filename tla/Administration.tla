--------------------------- MODULE Administration ---------------------------
(***************************************************************************)
(* What administrators change (routes/admin.py): a user's status and role, *)
(* a setting, a plan; and the audit line that is committed with each       *)
(* change.  The handlers read the target in the snapshot of the request,   *)
(* without a lock, and assign to the instance; the flush writes the column *)
(* if it differs from what was read.  The line refers to the               *)
(* administrator by a foreign key, so its INSERT locks the administrator's *)
(* own row, shared.  A subscription refers to its user and its plan.       *)
(*                                                                         *)
(* Points, orders and coupons are other modules'; their audit lines lock   *)
(* as these do.                                                            *)
(***************************************************************************)
EXTENDS MasterData

CONSTANTS
  Requests, Users,
  Caller,           \* Caller[r]: the user who sends r
  Status, Role,     \* Status[u], Role[u]: cells of users
  Forms,            \* what payloads assign: functions on cells of one row
  MaxLines          \* bound: lines of the audit log

RowOfForm(f) == CHOOSE w \in Rows : \A c \in DOMAIN f : RowOf[c] = w

ASSUME AdminAssumption ==
  /\ Requests \subseteq Transactions \ Processes
  /\ Users \subseteq Rows \ Masters
  /\ Caller \in [Requests -> Users]
  /\ Status \in [Users -> Cells] /\ Role \in [Users -> Cells]
  /\ \A f \in Forms :
       /\ DOMAIN f # {} /\ DOMAIN f \subseteq Cells
       /\ \A c \in DOMAIN f : RowOf[c] = RowOfForm(f) /\ f[c] # Absent
  /\ MaxLines \in Nat

VARIABLES
  task,             \* task[r]: none, change or subscribe
  form,             \* form[r]: what r is to assign
  read,             \* read[r]: the row it is about, in the snapshot of r
  audit,            \* the lines of the log, in the order of their commits;
                    \* of a setting or a plan they tell which, not the value
  since             \* history: since[r], the lines there were at the snapshot

adminVars == <<task, form, read, audit, since>>
vars == <<masterVars, adminVars>>

NoForm == [c \in {} |-> Absent]

AdminInit ==
  /\ MasterInit
  /\ task = [r \in Requests |-> "none"]
  /\ form = [r \in Requests |-> NoForm]
  /\ read = [r \in Requests |-> NoForm]
  /\ audit = << >>
  /\ since = [r \in Requests |-> 0]

-----------------------------------------------------------------------------

RoomForLine == Len(audit) + Cardinality({r \in Requests : task[r] = "change"}) < MaxLines

(* Authentication and all that comes before the flush, in one snapshot;    *)
(* the flush will execute these statements.                                *)
Begin(r, t, f, statements) ==
  LET w == RowOfForm(f)
  IN  /\ task[r] = "none"
      /\ \E p \in Processes : boot[p] = "serving"
      /\ value[Status[Caller[r]]] = "ACTIVE"
      /\ \A c \in DOMAIN f : value[c] # Absent
      /\ task' = [task EXCEPT ![r] = t]
      /\ form' = [form EXCEPT ![r] = f]
      /\ read' = [read EXCEPT ![r] = [c \in {d \in Cells : RowOf[d] = w} |-> value[c]]]
      /\ since' = [since EXCEPT ![r] = Len(audit)]
      /\ todo' = [todo EXCEPT ![r] = statements]
      /\ UNCHANGED <<bootVars, value, exclusive, shared, audit>>

Different(f) == {c \in DOMAIN f : value[c] # f[c]}

(* user_status, user_role, update_setting, update_plan.  The log has no    *)
(* relationship to the other tables: UPDATE and INSERT in either order.    *)
BeginChange(r, f) ==
  LET line == Refer(Caller[r])
      update == Update(RowOfForm(f))
  IN  /\ value[Role[Caller[r]]] = "ADMIN"
      /\ RoomForLine
      /\ IF Different(f) = {} THEN Begin(r, "change", f, <<line>>)
         ELSE \E s \in {<<update, line>>, <<line, update>>} : Begin(r, "change", f, s)

(* subscribe: the plan is there, and active, in the snapshot.  The row it  *)
(* inserts is read by nobody; the rows it refers to are locked.            *)
BeginSubscribe(r, f) ==
  /\ RowOfForm(f) \in Plans
  /\ \A c \in DOMAIN f : value[c] # "WITHDRAWN"
  /\ Begin(r, "subscribe", f, <<Refer(Caller[r]), Refer(RowOfForm(f))>>)

(* A statement of the flush, once nobody's lock is in its way.             *)
Execute(r) ==
  /\ task[r] # "none" /\ Take(r)
  /\ UNCHANGED <<bootVars, value, adminVars>>

Finish(r) ==
  /\ task' = [task EXCEPT ![r] = "none"]
  /\ form' = [form EXCEPT ![r] = NoForm]
  /\ read' = [read EXCEPT ![r] = NoForm]
  /\ since' = [since EXCEPT ![r] = 0]
  /\ EndTransaction(r)
  /\ UNCHANGED bootVars

UpdatedRow(r, c) ==
  IF c \in DOMAIN form[r] THEN form[r][c]
  ELSE IF c \in DOMAIN read[r] THEN read[r][c] ELSE value[c]
(* The UPDATE sets the columns that differ from the instance, no others.   *)
Updated(r, c) ==
  IF c \in DOMAIN form[r] /\ form[r][c] # read[r][c] THEN form[r][c] ELSE value[c]

CommitChange(r) ==
  /\ task[r] = "change" /\ todo[r] = << >>
  /\ value' = [c \in Cells |-> Updated(r, c)]
  /\ audit' = Append(audit, [to |-> form[r], since |-> since[r]])
  /\ Finish(r)

CommitSubscribe(r) ==
  /\ task[r] = "subscribe" /\ todo[r] = << >>
  /\ Finish(r)
  /\ UNCHANGED <<value, audit>>

(* The connection or the process is lost. *)
Lose(r) ==
  /\ task[r] # "none"
  /\ Finish(r)
  /\ UNCHANGED <<value, audit>>

(* InnoDB rolls a request of a circle back: 500, and nothing is committed. *)
Victim(r) == Deadlocked(r) /\ Lose(r)

AdminStep(r) ==
  \/ \E f \in Forms : BeginChange(r, f) \/ BeginSubscribe(r, f)
  \/ Execute(r) \/ CommitChange(r) \/ CommitSubscribe(r) \/ Lose(r)

AdminNext ==
  \/ \E p \in Processes : SeedStep(p) /\ UNCHANGED adminVars
  \/ \E r \in Requests : AdminStep(r)

AdminSpec == AdminInit /\ [][AdminNext]_vars

(* Threads run on; InnoDB grants a lock in the order of its queue (SF) and *)
(* detects deadlocks.  Nobody has to start, to stop, to ask or to be lost. *)
AdminFairness ==
  /\ \A p \in Processes :
       /\ SF_vars((InsertMaster(p) \/ (Ready(p) /\ FailSeed(p))) /\ UNCHANGED adminVars)
       /\ WF_vars((Look(p) \/ FailSeed(p) \/ CommitSeed(p))
                    /\ UNCHANGED adminVars)
  /\ \A r \in Requests :
       /\ SF_vars(Execute(r))
       /\ WF_vars(CommitChange(r) \/ CommitSubscribe(r) \/ Victim(r))

AdminLiveSpec == AdminSpec /\ AdminFairness

-----------------------------------------------------------------------------
(* Properties *)

AdminTypeOK ==
  /\ MasterTypeOK
  /\ task \in [Requests -> {"none", "change", "subscribe"}]
  /\ \A r \in Requests : form[r] \in Forms \cup {NoForm} /\ since[r] \in 0..MaxLines
  /\ Len(audit) <= MaxLines

LinesAbout(c) == {i \in 1..Len(audit) : c \in DOMAIN audit[i].to}

(* What the audit log is for (README.md:37): a column is as it was made    *)
(* unless a line is about it, and then it is what that line's request set. *)
(* The newest line may be about a request that changed nothing, because it *)
(* read the column before another change committed; then that other's line *)
(* is right.  A process that starts later puts nothing back.               *)
AuditExplainsState ==
  \A c \in Cells :
    IF LinesAbout(c) = {} THEN value[c] \in {Absent, Default[c]}
    ELSE \E i \in LinesAbout(c) :
           /\ audit[i].to[c] = value[c]
           /\ \A j \in LinesAbout(c) : j > i => audit[j].since < i

(* Every request and every start comes to an end, also of administrators   *)
(* who change each other at the same time (each has locked the own row and *)
(* waits for the other's) and of processes that insert in another order.   *)
EveryTransactionEnds ==
  /\ \A r \in Requests : task[r] # "none" ~> task[r] = "none"
  /\ \A p \in Processes :
       boot[p] # "down" ~> boot[p] \in {"down", "serving"}
=============================================================================
