----------------------------- MODULE MasterData -----------------------------
(***************************************************************************)
(* Master data: packages, plans and settings.  Every process seeds them    *)
(* when it starts (seed_master_data, called by main.py's lifespan): it     *)
(* looks what exists, in one snapshot, adds what does not, and commits.    *)
(* Plans have a unique name and settings a key, so of two processes that   *)
(* seed at once one fails, whole; packages have nothing of the kind.       *)
(*                                                                         *)
(*   looking    packages are read; plans and settings follow               *)
(*   flush      it inserts, one table after the other                      *)
(*   serving    committed: lifespan has yielded                            *)
(*                                                                         *)
(* Rows are locked as InnoDB does: exclusively by the transaction that     *)
(* writes them, shared by those whose INSERT refers to them by a foreign   *)
(* key.  The locks are here for the transactions of other modules as well. *)
(***************************************************************************)
EXTENDS Integers, FiniteSets, Sequences

CONSTANTS
  Transactions,     \* database sessions, those of Processes among them
  Processes,
  Plans, Settings,  \* the names and keys of the seed
  Cells,            \* the columns of rows that are ever changed
  Rows, RowOf,      \* RowOf[c]: the row of cell c
  Default,          \* Default[c]: its value in a new row
  Absent,           \* the value of a row that does not exist
  Packages,         \* stands for the three point packages
  Nobody            \* a row that is not locked

Masters == Plans \cup Settings

ASSUME MasterAssumption ==
  /\ Processes \subseteq Transactions /\ Nobody \notin Transactions
  /\ IsFiniteSet(Plans) /\ IsFiniteSet(Settings) /\ Plans # {}
  /\ Plans \cap Settings = {} /\ Packages \notin Rows
  /\ Masters \subseteq Rows /\ Masters \subseteq {RowOf[c] : c \in Cells}
  /\ RowOf \in [Cells -> Rows]
  /\ \A c \in Cells : Default[c] # Absent

VARIABLES
  packages,         \* how often the list of packages is in the table
  value,            \* value[c]: committed
  exclusive,        \* exclusive[w]: who has locked row w to write it
  shared,           \* shared[w]: who refers to row w in an open transaction
  todo,             \* todo[t]: the locks that the flush of t still needs
  boot,             \* boot[p]: down, or where p is
  snapshot,         \* snapshot[p]: what there was at p's first read
  missing           \* missing[p]: what p has not found

lockVars == <<exclusive, shared, todo>>
bootVars == <<packages, boot, snapshot, missing>>
masterVars == <<bootVars, value, lockVars>>

MasterInit ==
  /\ packages = 0
  /\ value = [c \in Cells |-> IF RowOf[c] \in Masters THEN Absent ELSE Default[c]]
  /\ exclusive = [w \in Rows |-> Nobody]
  /\ shared = [w \in Rows |-> {}]
  /\ todo = [t \in Transactions |-> << >>]
  /\ boot = [p \in Processes |-> "down"]
  /\ snapshot = [p \in Processes |-> {}]
  /\ missing = [p \in Processes |-> {}]

-----------------------------------------------------------------------------
(* Locks *)

(* An INSERT waits for writers of its key only: for another INSERT that is *)
(* not committed, or to find the key used.                                 *)
Insert(w) == [row |-> w, mode |-> "insert"]
Update(w) == [row |-> w, mode |-> "update"]
Refer(w) == [row |-> w, mode |-> "refer"]

(* The others whose locks stand in the way of the next statement of t.     *)
WaitsFor(t) ==
  IF todo[t] = << >> THEN {}
  ELSE LET w == Head(todo[t]).row
       IN  ({exclusive[w]} \cup (IF Head(todo[t]).mode = "update" THEN shared[w] ELSE {}))
             \ {t, Nobody}

Ready(t) == todo[t] # << >> /\ WaitsFor(t) = {}

Take(t) ==
  LET lock == Head(todo[t])
  IN  /\ Ready(t)
      /\ todo' = [todo EXCEPT ![t] = Tail(@)]
      /\ IF lock.mode = "refer"
           THEN shared' = [shared EXCEPT ![lock.row] = @ \cup {t}] /\ UNCHANGED exclusive
           ELSE exclusive' = [exclusive EXCEPT ![lock.row] = t] /\ UNCHANGED shared

(* The transaction of t is over: its locks go. *)
EndTransaction(t) ==
  /\ exclusive' = [w \in Rows |-> IF exclusive[w] = t THEN Nobody ELSE exclusive[w]]
  /\ shared' = [w \in Rows |-> shared[w] \ {t}]
  /\ todo' = [todo EXCEPT ![t] = << >>]

Circle(S) == S # {} /\ \A t \in S : WaitsFor(t) \cap S # {}

DeadlockedNever(t) == t \notin Transactions
(* InnoDB finds the shortest circle of waits that t is in. *)
Deadlocked(t) ==
  \E S \in SUBSET Transactions :
    /\ t \in S /\ Circle(S)
    /\ \A u \in S : ~Circle(S \ {u})

-----------------------------------------------------------------------------
(* Start-up *)

Present ==
  (Masters \cap {RowOf[c] : c \in {d \in Cells : value[d] # Absent}})
    \cup (IF packages > 0 THEN {Packages} ELSE {})

(* Lines 10-17: the first read fixes the snapshot. *)
BeginSeed(p) ==
  /\ boot[p] = "down"
  /\ boot' = [boot EXCEPT ![p] = "looking"]
  /\ snapshot' = [snapshot EXCEPT ![p] = Present]
  /\ missing' = [missing EXCEPT ![p] = {Packages} \ Present]
  /\ UNCHANGED <<packages, value, lockVars>>

VisibleCommitted(p) == IF p \in Processes THEN Present ELSE {}
(* REPEATABLE READ. *)
Visible(p) == snapshot[p]

Orders(S) ==
  {s \in [1..Cardinality(S) -> S] : \A x \in S : \E i \in DOMAIN s : s[i] = x}

(* Lines 18-34: all plans if there is none, and each setting for itself.   *)
(* The tables are not related to each other: the unit of work inserts them *)
(* in any order.                                                           *)
Look(p) ==
  LET plans == IF Plans \cap Visible(p) = {} THEN Plans ELSE {}
      new == plans \cup (Settings \ Visible(p))
  IN  /\ boot[p] = "looking"
      /\ boot' = [boot EXCEPT ![p] = "flush"]
      /\ missing' = [missing EXCEPT ![p] = @ \cup new]
      /\ \E s \in Orders(new) :
           todo' = [todo EXCEPT ![p] = [i \in DOMAIN s |-> Insert(s[i])]]
      /\ UNCHANGED <<packages, snapshot, value, exclusive, shared>>

InsertMaster(p) ==
  /\ boot[p] = "flush" /\ todo[p] # << >>
  /\ Head(todo[p]).row \notin Present
  /\ Take(p)
  /\ UNCHANGED <<bootVars, value>>

(* The process ends, and its transaction with it. *)
Down(p) ==
  /\ boot' = [boot EXCEPT ![p] = "down"]
  /\ EndTransaction(p)
  /\ snapshot' = [snapshot EXCEPT ![p] = {}]
  /\ missing' = [missing EXCEPT ![p] = {}]
  /\ UNCHANGED <<packages, value>>

(* IntegrityError or a deadlock: lifespan fails, and so does the start.    *)
FailSeed(p) ==
  /\ boot[p] = "flush"
  /\ \/ Ready(p) /\ Head(todo[p]).row \in Present
     \/ Deadlocked(p)
  /\ Down(p)

(* A setting that is there keeps its value. *)
Seeded(p, c) == IF RowOf[c] \in missing[p] THEN Default[c] ELSE value[c]

CommitSeed(p) ==
  /\ boot[p] = "flush" /\ todo[p] = << >>
  /\ packages' = IF Packages \in missing[p] THEN packages + 1 ELSE packages
  /\ value' = [c \in Cells |-> Seeded(p, c)]
  /\ boot' = [boot EXCEPT ![p] = "serving"]
  /\ snapshot' = [snapshot EXCEPT ![p] = {}]
  /\ missing' = [missing EXCEPT ![p] = {}]
  /\ EndTransaction(p)

(* It dies, or is stopped, before it serves.  One that serves goes on: if  *)
(* it is started again, it is another process that starts.                 *)
Stop(p) ==
  /\ boot[p] \in {"looking", "flush"}
  /\ Down(p)

SeedStep(p) ==
  \/ BeginSeed(p) \/ Look(p) \/ InsertMaster(p)
  \/ FailSeed(p) \/ CommitSeed(p) \/ Stop(p)

-----------------------------------------------------------------------------
(* Properties *)

MasterTypeOK ==
  /\ packages \in Nat
  /\ exclusive \in [Rows -> Transactions \cup {Nobody}]
  /\ shared \in [Rows -> SUBSET Transactions]
  /\ boot \in [Processes -> {"down", "looking", "flush", "serving"}]
  /\ snapshot \in [Processes -> SUBSET (Masters \cup {Packages})]
  /\ missing \in [Processes -> SUBSET (Masters \cup {Packages})]
  /\ \A p \in Processes : boot[p] # "flush" => todo[p] = << >>

(* Whoever starts at the same time or dies on the way, the packages are in *)
(* the table once, although no constraint keeps them from being doubled,   *)
(* and a process that serves finds packages, plans and settings.           *)
SeededOnce ==
  /\ packages <= 1
  /\ (\E p \in Processes : boot[p] = "serving") => Present = Masters \cup {Packages}
=============================================================================
