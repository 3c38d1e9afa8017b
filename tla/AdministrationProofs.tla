------------------------- MODULE AdministrationProofs -------------------------
(***************************************************************************)
(* Theorems about Administration, for any number of processes that start,  *)
(* of plans, settings and requests.  Master data is seeded once: a process *)
(* that found nothing must insert every plan and every setting, and so     *)
(* excludes the others until it commits; whoever is late finds the keys    *)
(* used.  Packages, which have no key, ride on that.  And the audit log    *)
(* explains the state, although requests write what they read long ago.    *)
(***************************************************************************)
EXTENDS Administration, FiniteSetTheorems, TLAPS

Everything == Masters \cup {Packages}
Statement == [row : Rows, mode : {"insert", "update", "refer"}]

(* Locks and statements have their types. *)
LocksOK ==
  /\ exclusive \in [Rows -> Transactions \cup {Nobody}]
  /\ todo \in [Transactions -> Seq(Statement)]

(* What a request is about to assign is there. *)
FormsOK ==
  /\ form \in [Requests -> Forms \cup {NoForm}]
  /\ \A r \in Requests : \A c \in DOMAIN form[r] : value[c] # Absent

(* The seed is in the tables as a whole or not at all. *)
WholeSeed ==
  /\ Present \in {{}, Everything}
  /\ packages \in {0, 1}

(* p inserts everything, or found everything. *)
SeedsAll(p) == boot[p] = "flush" /\ missing[p] = Everything
FoundAll(p) ==
  \/ boot[p] = "looking" /\ snapshot[p] = Everything
  \/ boot[p] = "flush" /\ missing[p] = {}
  \/ boot[p] = "serving"

Needs(p, m) == \E i \in 1..Len(todo[p]) : todo[p][i].row = m

Seeder(p) ==
  /\ boot[p] \in {"down", "looking", "flush", "serving"}
  /\ boot[p] = "looking" =>
       snapshot[p] \in {{}, Everything} /\ missing[p] = {Packages} \ snapshot[p]
  /\ boot[p] = "flush" => missing[p] \in {{}, Everything}
  /\ boot[p] # "flush" => \A m \in Masters : exclusive[m] # p
  /\ FoundAll(p) => Present = Everything
  /\ SeedsAll(p) => \A m \in Masters : exclusive[m] = p \/ Needs(p, m)
  /\ SeedsAll(p) /\ Present # {} => \A m \in Masters : exclusive[m] # p
  /\ \A i \in 1..Len(todo[p]) : todo[p][i].row \in Masters /\ todo[p][i].mode = "insert"

SeedInv ==
  /\ boot \in [Processes -> {"down", "looking", "flush", "serving"}]
  /\ DOMAIN snapshot = Processes /\ DOMAIN missing = Processes
  /\ \A p \in Processes : Seeder(p)

MasterInv == LocksOK /\ FormsOK /\ WholeSeed /\ SeedInv

-----------------------------------------------------------------------------
(* Locks *)

(* A statement takes no lock that another transaction has. *)
LEMMA TakeLocks ==
  ASSUME LocksOK, NEW t \in Transactions, Take(t)
  PROVE  /\ LocksOK'
         /\ todo[t] # << >> /\ todo' = [todo EXCEPT ![t] = Tail(todo[t])]
         /\ \A w \in Rows, q \in Transactions : exclusive[w] = q => exclusive'[w] = q
         /\ \A w \in Rows, q \in Transactions \ {t} :
              exclusive'[w] = q => exclusive[w] = q
         /\ Head(todo[t]).mode = "insert" => exclusive'[Head(todo[t]).row] = t
<1> DEFINE lock == Head(todo[t])
<1>1. /\ todo[t] # << >> /\ todo' = [todo EXCEPT ![t] = Tail(todo[t])]
      /\ exclusive[lock.row] \in {t, Nobody}
      /\ \/ lock.mode = "refer" /\ exclusive' = exclusive
         \/ lock.mode # "refer" /\ exclusive' = [exclusive EXCEPT ![lock.row] = t]
  BY DEF Take, Ready, WaitsFor
<1>2. todo[t] \in Seq(Statement) /\ lock \in Statement /\ Tail(todo[t]) \in Seq(Statement)
  BY <1>1 DEF LocksOK
<1>3. lock.row \in Rows
  BY <1>2 DEF Statement
<1> HIDE DEF lock
<1> QED
  BY <1>1, <1>2, <1>3, MasterAssumption DEF LocksOK, lock

(* The end of a transaction frees its locks and no others. *)
LEMMA EndFrees ==
  ASSUME LocksOK, NEW t \in Transactions, EndTransaction(t)
  PROVE  /\ LocksOK' /\ todo' = [todo EXCEPT ![t] = << >>]
         /\ \A w \in Rows : exclusive'[w] = IF exclusive[w] = t THEN Nobody ELSE exclusive[w]
BY DEF EndTransaction, LocksOK

(* Other processes keep what they hold and need while nothing is seeded.   *)
LEMMA OthersKeep ==
  ASSUME SeedInv, NEW p \in Processes, Seeder(p),
         boot'[p] = boot[p], snapshot'[p] = snapshot[p], missing'[p] = missing[p],
         todo'[p] = todo[p], Present' = Present,
         \A m \in Masters : exclusive'[m] = p <=> exclusive[m] = p
  PROVE  Seeder(p)'
BY DEF Seeder, FoundAll, SeedsAll, Needs
-----------------------------------------------------------------------------
(* Steps of processes *)

(* What there is depends on the tables only. *)
LEMMA PresentStays == ASSUME UNCHANGED <<packages, value>> PROVE Present' = Present
BY DEF Present

(* A process looks: one snapshot of all or nothing. *)
LEMMA BeginKeepsInv ==
  ASSUME MasterInv, NEW p \in Processes, BeginSeed(p), UNCHANGED adminVars
  PROVE  MasterInv'
<1> USE DEF MasterInv
<1>1. /\ UNCHANGED <<packages, value, exclusive, todo, form>> /\ Present' = Present
      /\ boot[p] = "down" /\ boot' = [boot EXCEPT ![p] = "looking"]
      /\ snapshot' = [snapshot EXCEPT ![p] = Present]
      /\ missing' = [missing EXCEPT ![p] = {Packages} \ Present]
  BY PresentStays DEF BeginSeed, lockVars, adminVars
<1>2. ASSUME NEW q \in Processes, q # p
      PROVE  Seeder(q)'
  BY <1>1, <1>2, OthersKeep DEF SeedInv
<1>3. boot'[p] = "looking" /\ snapshot'[p] = Present /\ missing'[p] = {Packages} \ Present
  BY <1>1 DEF SeedInv
<1>4. Seeder(p)'
  BY <1>1, <1>3 DEF SeedInv, Seeder, FoundAll, SeedsAll, WholeSeed
<1> QED
  BY <1>1, <1>2, <1>4 DEF LocksOK, FormsOK, WholeSeed, SeedInv

(* Who found nothing has to insert everything, who found all nothing.      *)
LEMMA LookKeepsInv ==
  ASSUME MasterInv, NEW p \in Processes, Look(p), UNCHANGED adminVars
  PROVE  MasterInv'
<1> USE DEF MasterInv
<1> DEFINE plans == IF Plans \cap Visible(p) = {} THEN Plans ELSE {}
           new == plans \cup (Settings \ Visible(p))
<1>1. /\ UNCHANGED <<packages, value, snapshot, exclusive, form>> /\ Present' = Present
      /\ boot[p] = "looking" /\ boot' = [boot EXCEPT ![p] = "flush"]
      /\ missing' = [missing EXCEPT ![p] = missing[p] \cup new]
  BY PresentStays DEF Look, adminVars
<1>2. PICK s \in Orders(new) : todo' = [todo EXCEPT ![p] = [i \in DOMAIN s |-> Insert(s[i])]]
  BY DEF Look
<1>3. new \subseteq Masters /\ IsFiniteSet(new) /\ Cardinality(new) \in Nat
  <2>1. IsFiniteSet(Masters)
    BY MasterAssumption, FS_Union DEF Masters
  <2>2. new \subseteq Masters
    BY DEF Masters
  <2> QED
    BY <2>1, <2>2, FS_Subset, FS_CardinalityType
<1> DEFINE n == Cardinality(new)
           l == [i \in 1..n |-> Insert(s[i])]
<1>4. s \in [1..n -> new] /\ (\A m \in new : \E i \in 1..n : s[i] = m)
      /\ DOMAIN s = 1..n
  BY <1>2 DEF Orders
<1>5. l \in Seq(Statement) /\ Len(l) = n /\ \A i \in 1..n : l[i] = Insert(s[i])
  <2>1. \A i \in 1..n : Insert(s[i]) \in Statement
    BY <1>3, <1>4, MasterAssumption DEF Insert, Statement
  <2> HIDE DEF n
  <2> QED
    BY <1>3, <2>1 DEF n
<1>6. /\ \A i \in 1..Len(l) : l[i].row \in Masters /\ l[i].mode = "insert"
      /\ \A m \in new : \E i \in 1..Len(l) : l[i].row = m
  BY <1>3, <1>4, <1>5 DEF Insert
<1>7. todo' = [todo EXCEPT ![p] = l]
  BY <1>2, <1>4
<1> HIDE DEF l, n
<1>8. LocksOK' /\ todo'[p] = l
  BY <1>1, <1>5, <1>7, MasterAssumption DEF LocksOK
<1>9. ASSUME NEW q \in Processes, q # p
      PROVE  Seeder(q)'
  BY <1>1, <1>7, <1>9, OthersKeep DEF SeedInv
<1>10. /\ boot'[p] = "flush" /\ \A m \in Masters : exclusive'[m] # p
       /\ missing'[p] = ({Packages} \ snapshot[p]) \cup new
       /\ snapshot[p] \in {{}, Everything}
       /\ snapshot[p] = Everything => Present = Everything
  BY <1>1 DEF SeedInv, Seeder, FoundAll
<1>11. Seeder(p)'
  <2>1. CASE snapshot[p] = {}
    <3>1. new = Masters
      BY <2>1 DEF Masters, Visible
    <3>2. missing'[p] = Everything
      BY <1>10, <2>1, <3>1 DEF Everything
    <3>3. Everything # {}
      BY DEF Everything
    <3> QED
      BY <1>6, <1>8, <1>10, <3>1, <3>2, <3>3 DEF Seeder, FoundAll, SeedsAll, Needs
  <2>2. CASE snapshot[p] = Everything
    <3>1. new = {}
      BY <2>2 DEF Masters, Visible, Everything
    <3>2. missing'[p] = {} /\ Everything # {}
      BY <1>10, <2>2, <3>1 DEF Everything
    <3> QED
      BY <1>1, <1>6, <1>8, <1>10, <2>2, <3>2 DEF Seeder, FoundAll, SeedsAll
  <2> QED
    BY <1>10, <2>1, <2>2
<1>12. FormsOK' /\ WholeSeed'
  BY <1>1 DEF FormsOK, WholeSeed
<1> QED
  BY <1>1, <1>8, <1>9, <1>11, <1>12 DEF SeedInv

(* The next row is inserted, unless it is there.                           *)
LEMMA InsertKeepsInv ==
  ASSUME MasterInv, NEW p \in Processes, InsertMaster(p), UNCHANGED adminVars
  PROVE  MasterInv'
<1> USE DEF MasterInv
<1> DEFINE h == Head(todo[p])
<1>0. p \in Transactions /\ Masters \subseteq Rows
  BY MasterAssumption
<1>1. /\ UNCHANGED <<packages, value, boot, snapshot, missing, form>> /\ Present' = Present
      /\ boot[p] = "flush" /\ h.row \notin Present /\ Take(p)
  BY PresentStays DEF InsertMaster, bootVars, adminVars
<1>2. /\ LocksOK'
      /\ todo[p] # << >> /\ todo' = [todo EXCEPT ![p] = Tail(todo[p])]
      /\ \A m \in Masters, q \in Processes : exclusive[m] = q => exclusive'[m] = q
      /\ \A m \in Masters, q \in Processes \ {p} : exclusive'[m] = q => exclusive[m] = q
      /\ h.mode = "insert" => exclusive'[h.row] = p
  BY <1>0, <1>1, TakeLocks, MasterAssumption
<1>3. /\ todo[p] \in Seq(Statement) /\ todo'[p] = Tail(todo[p]) /\ h = todo[p][1]
      /\ Len(todo[p]) \in Nat /\ 1 \in 1..Len(todo[p])
      /\ Len(todo'[p]) = Len(todo[p]) - 1
      /\ \A i \in 1..Len(todo[p])-1 : todo'[p][i] = todo[p][i+1] /\ i+1 \in 1..Len(todo[p])
  BY <1>0, <1>2 DEF LocksOK
<1>4. ASSUME NEW q \in Processes, q # p
      PROVE  Seeder(q)'
  <2>1. todo'[q] = todo[q]
    BY <1>2, <1>4, MasterAssumption DEF LocksOK
  <2>2. \A m \in Masters : exclusive'[m] = q <=> exclusive[m] = q
    BY <1>2, <1>4
  <2>3. SeedInv /\ Seeder(q)
    BY DEF SeedInv
  <2> QED
    BY <1>1, <2>1, <2>2, <2>3, OthersKeep
<1>5. h.row \in Masters /\ h.mode = "insert"
  BY <1>3 DEF SeedInv, Seeder
<1>6. ASSUME NEW m \in Masters, Needs(p, m)
      PROVE  exclusive'[m] = p \/ Needs(p, m)'
  <2>1. PICK i \in 1..Len(todo[p]) : todo[p][i].row = m
    BY <1>6 DEF Needs
  <2>2. CASE i = 1
    BY <1>2, <1>3, <1>5, <2>1, <2>2
  <2>3. CASE i # 1
    <3>1. i-1 \in 1..Len(todo'[p]) /\ (i-1)+1 = i
      BY <1>3, <2>3
    <3>2. todo'[p][i-1].row = m
      BY <1>3, <2>1, <3>1
    <3> QED
      BY <3>1, <3>2 DEF Needs
  <2> QED
    BY <2>2, <2>3
<1>7. SeedsAll(p) => Present = {}
  BY <1>1, <1>5 DEF WholeSeed, Everything
<1>8. Seeder(p)'
  <2>1. Seeder(p)
    BY DEF SeedInv
  <2>2. \A i \in 1..Len(todo'[p]) : todo'[p][i].row \in Masters /\ todo'[p][i].mode = "insert"
    BY <1>3, <2>1 DEF Seeder
  <2> QED
    BY <1>1, <1>2, <1>6, <1>7, <2>1, <2>2 DEF Seeder, FoundAll, SeedsAll
<1>9. FormsOK' /\ WholeSeed'
  BY <1>1 DEF FormsOK, WholeSeed
<1> QED
  BY <1>1, <1>2, <1>4, <1>8, <1>9 DEF SeedInv

(* A transaction that ends leaves the other processes as they were. *)
LEMMA EndKeepsOthers ==
  ASSUME MasterInv, NEW t \in Transactions, EndTransaction(t), Present' = Present,
         NEW q \in Processes \ {t},
         boot'[q] = boot[q], snapshot'[q] = snapshot[q], missing'[q] = missing[q]
  PROVE  Seeder(q)'
<1>1. /\ todo'[q] = todo[q]
      /\ \A m \in Masters : exclusive'[m] = q <=> exclusive[m] = q
  BY EndFrees, MasterAssumption DEF MasterInv, LocksOK
<1>2. SeedInv /\ Seeder(q)
  BY DEF MasterInv, SeedInv
<1> QED
  BY <1>1, <1>2, OthersKeep

(* A process that ends loses its locks and what it meant to insert.        *)
LEMMA DownKeepsInv ==
  ASSUME MasterInv, NEW p \in Processes, Down(p), UNCHANGED adminVars
  PROVE  MasterInv'
<1> USE DEF MasterInv
<1>1. /\ UNCHANGED <<packages, value, form>> /\ Present' = Present
      /\ boot' = [boot EXCEPT ![p] = "down"] /\ EndTransaction(p)
      /\ snapshot' = [snapshot EXCEPT ![p] = {}] /\ missing' = [missing EXCEPT ![p] = {}]
  BY PresentStays DEF Down, adminVars
<1>2. /\ LocksOK' /\ todo'[p] = << >>
      /\ \A m \in Masters : exclusive'[m] # p
  BY <1>1, EndFrees, MasterAssumption DEF LocksOK
<1>3. ASSUME NEW q \in Processes, q # p
      PROVE  Seeder(q)'
  BY <1>1, <1>3, EndKeepsOthers, MasterAssumption DEF SeedInv
<1>4. boot'[p] = "down"
  BY <1>1 DEF SeedInv
<1>5. Seeder(p)'
  BY <1>2, <1>4 DEF Seeder, FoundAll, SeedsAll
<1> QED
  BY <1>1, <1>2, <1>3, <1>5 DEF FormsOK, WholeSeed, SeedInv

(* The seed is committed: by who holds every key, or found them all used.  *)
LEMMA CommitKeepsInv ==
  ASSUME MasterInv, NEW p \in Processes, CommitSeed(p), UNCHANGED adminVars
  PROVE  MasterInv'
<1> USE DEF MasterInv
<1>0. p \in Transactions /\ Masters \subseteq Rows /\ Everything # {}
  BY MasterAssumption DEF Everything
<1>1. /\ boot[p] = "flush" /\ todo[p] = << >> /\ EndTransaction(p)
      /\ packages' = (IF Packages \in missing[p] THEN packages + 1 ELSE packages)
      /\ value' = [c \in Cells |-> Seeded(p, c)]
      /\ boot' = [boot EXCEPT ![p] = "serving"]
      /\ snapshot' = [snapshot EXCEPT ![p] = {}] /\ missing' = [missing EXCEPT ![p] = {}]
      /\ form' = form
  BY DEF CommitSeed, adminVars
<1>2. /\ LocksOK' /\ todo'[p] = << >>
      /\ \A m \in Masters : exclusive'[m] # p
      /\ \A m \in Masters, q \in Processes \ {p} :
           exclusive'[m] = q <=> exclusive[m] = q
      /\ \A q \in Processes \ {p} : todo'[q] = todo[q]
  <2>1. /\ LocksOK' /\ todo' = [todo EXCEPT ![p] = << >>]
        /\ \A w \in Rows : exclusive'[w] = IF exclusive[w] = p THEN Nobody ELSE exclusive[w]
    BY <1>0, <1>1, EndFrees
  <2>2. todo'[p] = << >> /\ \A q \in Processes \ {p} : todo'[q] = todo[q]
    BY <1>0, <2>1, MasterAssumption DEF LocksOK
  <2>3. ASSUME NEW m \in Masters
        PROVE  exclusive'[m] = IF exclusive[m] = p THEN Nobody ELSE exclusive[m]
    BY <1>0, <2>1
  <2>4. Nobody \notin Processes
    BY MasterAssumption
  <2> QED
    BY <2>1, <2>2, <2>3, <2>4
<1>3. /\ boot'[p] = "serving"
      /\ \A q \in Processes \ {p} : /\ boot'[q] = boot[q] /\ snapshot'[q] = snapshot[q]
                                     /\ missing'[q] = missing[q]
  BY <1>1 DEF SeedInv
<1>4. FormsOK'
  <2>1. \A c \in Cells : value[c] # Absent => value'[c] # Absent
    BY <1>1, MasterAssumption DEF Seeded
  <2>2. \A r \in Requests : DOMAIN form[r] \subseteq Cells
    BY AdminAssumption DEF FormsOK, NoForm
  <2> QED
    BY <1>1, <2>1, <2>2 DEF FormsOK
<1>5. Present' = Everything /\ packages' \in {0, 1}
  <2>1. CASE missing[p] = {}
    <3>1. packages' = packages /\ \A c \in Cells : value'[c] = value[c]
      BY <1>1, <2>1 DEF Seeded
    <3>2. Present' = Present
      BY <3>1 DEF Present
    <3>3. Present = Everything
      BY <1>1, <2>1 DEF SeedInv, Seeder, FoundAll
    <3> QED
      BY <3>1, <3>2, <3>3 DEF WholeSeed
  <2>2. CASE missing[p] = Everything
    <3>1. \A m \in Masters : exclusive[m] = p
      BY <1>1, <2>2 DEF SeedInv, Seeder, SeedsAll, Needs
    <3>2. Present = {}
      BY <1>1, <2>2, <3>1, MasterAssumption DEF SeedInv, Seeder, SeedsAll, Masters
    <3>3. packages = 0 /\ packages' = 1
      BY <1>1, <2>2, <3>2 DEF WholeSeed, Present, Everything
    <3>4. \A c \in Cells : RowOf[c] \in Masters => value'[c] # Absent
      BY <1>1, <2>2, MasterAssumption DEF Seeded, Everything
    <3>5. Present' = Everything
      BY <3>3, <3>4, MasterAssumption DEF Present, Everything
    <3> QED
      BY <3>3, <3>5
  <2> QED
    BY <1>1, <2>1, <2>2 DEF SeedInv, Seeder
<1>6. ASSUME NEW q \in Processes \ {p}
      PROVE  Seeder(q)'
  <2>1. Seeder(q)
    BY DEF SeedInv
  <2>2. ASSUME SeedsAll(q), NEW m \in Masters
        PROVE  exclusive'[m] # q
    <3>1. CASE missing[p] = {}
      <4>1. Present = Everything
        BY <1>1, <3>1 DEF SeedInv, Seeder, FoundAll
      <4> QED
        BY <1>0, <1>2, <2>1, <2>2, <4>1 DEF Seeder
    <3>2. CASE missing[p] = Everything
      <4>1. exclusive[m] = p
        BY <1>1, <3>2 DEF SeedInv, Seeder, SeedsAll, Needs
      <4> QED
        BY <1>2, <4>1
    <3> QED
      BY <1>1, <3>1, <3>2 DEF SeedInv, Seeder
  <2> QED
    BY <1>2, <1>3, <1>5, <2>1, <2>2 DEF Seeder, FoundAll, SeedsAll, Needs
<1>7. Seeder(p)'
  BY <1>2, <1>3, <1>5 DEF Seeder, FoundAll, SeedsAll
<1>8. SeedInv'
  BY <1>1, <1>6, <1>7 DEF SeedInv
<1> QED
  BY <1>2, <1>4, <1>5, <1>8 DEF WholeSeed

-----------------------------------------------------------------------------
(* Steps of requests *)

(* What a request does to locks and tables takes nothing from a process:   *)
(* no lock it has, and nothing that is there.                              *)
LEMMA RequestKeepsSeed ==
  ASSUME MasterInv, UNCHANGED bootVars,
         \A p \in Processes : /\ todo'[p] = todo[p]
                              /\ \A m \in Masters : exclusive'[m] = p <=> exclusive[m] = p,
         Present' = Present
  PROVE  WholeSeed' /\ SeedInv'
<1>1. ASSUME NEW p \in Processes
      PROVE  Seeder(p)'
  <2>1. SeedInv /\ Seeder(p)
    BY DEF MasterInv, SeedInv
  <2> QED
    BY <2>1, OthersKeep DEF bootVars
<1> QED
  BY <1>1 DEF MasterInv, WholeSeed, SeedInv, bootVars

(* A request asks for statements on rows that exist. *)
LEMMA AskKeepsInv ==
  ASSUME MasterInv, NEW r \in Requests, NEW t, NEW f \in Forms,
         NEW statements \in Seq(Statement), Begin(r, t, f, statements)
  PROVE  MasterInv'
<1> USE DEF MasterInv
<1>1. /\ UNCHANGED <<bootVars, value, exclusive>>
      /\ todo' = [todo EXCEPT ![r] = statements]
      /\ form' = [form EXCEPT ![r] = f] /\ \A c \in DOMAIN f : value[c] # Absent
  BY DEF Begin
<1>2. r \in Transactions /\ r \notin Processes
  BY AdminAssumption
<1>3. LocksOK' /\ FormsOK'
  BY <1>1, <1>2 DEF LocksOK, FormsOK
<1>4. Present' = Present
  BY <1>1, PresentStays DEF bootVars
<1>5. \A p \in Processes : todo'[p] = todo[p]
  BY <1>1, <1>2, MasterAssumption DEF LocksOK
<1> QED
  BY <1>1, <1>3, <1>4, <1>5, RequestKeepsSeed

(* It takes only locks that are free. *)
LEMMA ExecuteKeepsInv ==
  ASSUME MasterInv, NEW r \in Requests, Execute(r)
  PROVE  MasterInv'
<1> USE DEF MasterInv
<1>1. UNCHANGED <<bootVars, value, form>> /\ Take(r)
  BY DEF Execute, adminVars
<1>2. r \in Transactions /\ r \notin Processes
  BY AdminAssumption
<1>3. /\ LocksOK'
      /\ \A p \in Processes : todo'[p] = todo[p]
      /\ \A p \in Processes, m \in Masters : exclusive'[m] = p <=> exclusive[m] = p
  <2>1. Processes \subseteq Transactions \ {r} /\ Masters \subseteq Rows
    BY <1>2, MasterAssumption
  <2>2. LocksOK' /\ todo' = [todo EXCEPT ![r] = Tail(todo[r])]
    BY <1>1, <1>2, TakeLocks
  <2>3. ASSUME NEW p \in Processes, NEW m \in Masters
        PROVE  exclusive'[m] = p <=> exclusive[m] = p
    BY <1>1, <1>2, <2>1, TakeLocks
  <2> QED
    BY <2>1, <2>2, <2>3 DEF LocksOK
<1>4. Present' = Present
  BY <1>1, PresentStays DEF bootVars
<1> QED
  BY <1>1, <1>3, <1>4, RequestKeepsSeed DEF FormsOK

(* It ends; what it has changed stays there. *)
LEMMA FinishKeepsInv ==
  ASSUME MasterInv, NEW r \in Requests, Finish(r),
         \A c \in Cells : value'[c] # Absent <=> value[c] # Absent
  PROVE  MasterInv'
<1> USE DEF MasterInv
<1>1. /\ UNCHANGED bootVars /\ EndTransaction(r)
      /\ form' = [form EXCEPT ![r] = NoForm]
  BY DEF Finish
<1>2. r \in Transactions /\ r \notin Processes
  BY AdminAssumption
<1>3. /\ LocksOK'
      /\ \A p \in Processes : todo'[p] = todo[p]
      /\ \A p \in Processes, m \in Masters : exclusive'[m] = p <=> exclusive[m] = p
  BY <1>1, <1>2, EndFrees, MasterAssumption DEF LocksOK
<1>4. Present' = Present
  BY <1>1 DEF Present, bootVars
<1>5. FormsOK'
  <2>1. \A q \in Requests : DOMAIN form[q] \subseteq Cells
    BY AdminAssumption DEF FormsOK, NoForm
  <2> QED
    BY <1>1, <2>1 DEF FormsOK, NoForm
<1> QED
  BY <1>1, <1>3, <1>4, <1>5, RequestKeepsSeed

(* An UPDATE puts nothing into a row that is not there, and nothing out.   *)
LEMMA UpdateKeepsPresence ==
  ASSUME MasterInv, NEW r \in Requests, CommitChange(r), NEW c \in Cells
  PROVE  value'[c] # Absent <=> value[c] # Absent
<1>1. value'[c] = Updated(r, c)
  BY DEF CommitChange
<1>2. form[r] \in Forms \/ form[r] = NoForm
  BY DEF MasterInv, FormsOK
<1>3. c \in DOMAIN form[r] => form[r][c] # Absent /\ value[c] # Absent
  BY <1>2, AdminAssumption DEF MasterInv, FormsOK, NoForm
<1> QED
  BY <1>1, <1>3 DEF Updated

-----------------------------------------------------------------------------

(* Initially the tables of the seed are empty. *)
LEMMA InitInv == AdminInit => MasterInv
<1> SUFFICES ASSUME AdminInit PROVE MasterInv
  OBVIOUS
<1>1. Present = {} /\ packages = 0
  BY DEF AdminInit, MasterInit, Present
<1>2. LocksOK /\ FormsOK
  BY DEF AdminInit, MasterInit, LocksOK, FormsOK, NoForm
<1>3. ASSUME NEW p \in Processes
      PROVE  Seeder(p)
  BY MasterAssumption DEF AdminInit, MasterInit, Seeder, FoundAll, SeedsAll
<1> QED
  BY <1>1, <1>2, <1>3 DEF AdminInit, MasterInit, MasterInv, WholeSeed, SeedInv

(* Every step keeps the invariant. *)
LEMMA StepKeepsInv ==
  ASSUME MasterInv, [AdminNext]_vars
  PROVE  MasterInv'
<1>1. ASSUME NEW p \in Processes, SeedStep(p), UNCHANGED adminVars
      PROVE  MasterInv'
  BY <1>1, BeginKeepsInv, LookKeepsInv, InsertKeepsInv, DownKeepsInv, CommitKeepsInv
  DEF SeedStep, FailSeed, Stop
<1>2. ASSUME NEW r \in Requests, NEW f \in Forms, BeginChange(r, f) \/ BeginSubscribe(r, f)
      PROVE  MasterInv'
  <2>1. RowOfForm(f) \in Rows /\ Caller[r] \in Rows
    <3>1. PICK c \in DOMAIN f : c \in Cells /\ RowOf[c] = RowOfForm(f)
      BY AdminAssumption
    <3> QED
      BY <3>1, AdminAssumption, MasterAssumption
  <2>2. Update(RowOfForm(f)) \in Statement /\ Refer(Caller[r]) \in Statement
        /\ Refer(RowOfForm(f)) \in Statement
    BY <2>1 DEF Update, Refer, Statement
  <2> DEFINE u == Update(RowOfForm(f))
             l == Refer(Caller[r])
             w == Refer(RowOfForm(f))
  <2>3. {<<l>>, <<u, l>>, <<l, u>>, <<l, w>>} \subseteq Seq(Statement)
    <3> HIDE DEF u, l, w
    <3> QED
      BY <2>2 DEF u, l, w
  <2>4. PICK t \in {"change", "subscribe"},
             statements \in {<<l>>, <<u, l>>, <<l, u>>, <<l, w>>} :
          Begin(r, t, f, statements)
    <3>1. CASE BeginChange(r, f)
      BY <3>1 DEF BeginChange
    <3>2. CASE BeginSubscribe(r, f)
      BY <3>2 DEF BeginSubscribe
    <3> QED
      BY <1>2, <3>1, <3>2
  <2> QED
    BY <2>3, <2>4, AskKeepsInv
<1>3. ASSUME NEW r \in Requests, CommitChange(r)
      PROVE  MasterInv'
  BY <1>3, UpdateKeepsPresence, FinishKeepsInv DEF CommitChange
<1>4. ASSUME NEW r \in Requests, CommitSubscribe(r) \/ Lose(r)
      PROVE  MasterInv'
  BY <1>4, FinishKeepsInv DEF CommitSubscribe, Lose
<1>5. CASE UNCHANGED vars
  <2>1. Present' = Present /\ UNCHANGED <<bootVars, value, exclusive, todo, form>>
    BY <1>5, PresentStays DEF vars, masterVars, lockVars, adminVars, bootVars
  <2> QED
    BY <2>1, RequestKeepsSeed DEF MasterInv, LocksOK, FormsOK
<1> QED
  BY <1>1, <1>2, <1>3, <1>4, <1>5, ExecuteKeepsInv DEF AdminNext, AdminStep

(* However many processes start at the same time, fail or die on the way,  *)
(* and whatever administrators change meanwhile, the packages are seeded   *)
(* once and a process that serves finds all master data (bootstrap.py:9).  *)
THEOREM MasterDataSeededOnce == AdminSpec => []SeededOnce
<1>1. MasterInv => SeededOnce
  BY DEF MasterInv, WholeSeed, SeedInv, Seeder, FoundAll, SeededOnce, Everything
<1> QED
  BY <1>1, InitInv, StepKeepsInv, PTL DEF AdminSpec

-----------------------------------------------------------------------------
(* The audit log *)

(* Line i tells the state of column c: no later line is about a request    *)
(* that could know it.                                                     *)
Tells(i, c) ==
  /\ i \in LinesAbout(c) /\ audit[i].to[c] = value[c]
  /\ \A j \in LinesAbout(c) : j > i => audit[j].since < i

Explained(c) ==
  \/ LinesAbout(c) = {} /\ value[c] \in {Absent, Default[c]}
  \/ \E i \in Nat : Tells(i, c)

(* A request assigns to what it has read, or a line that is newer than its *)
(* snapshot tells what has become of it.                                   *)
Known(r, c) == value[c] = read[r][c] \/ \E i \in Nat : i > since[r] /\ Tells(i, c)

AuditLine == [to : Forms \cup {NoForm}, since : Nat]

AuditInv ==
  /\ audit \in Seq(AuditLine)
  /\ since \in [Requests -> Nat] /\ DOMAIN read = Requests
  /\ \A r \in Requests : since[r] <= Len(audit)
  /\ \A c \in Cells : Explained(c)
  /\ \A r \in Requests : \A c \in DOMAIN form[r] : Known(r, c)

(* Payloads and lines assign to cells, and something. *)
LEMMA FormsAssign ==
  ASSUME NEW f \in Forms \cup {NoForm}, NEW c \in DOMAIN f
  PROVE  c \in Cells /\ f \in Forms /\ f[c] # Absent
BY AdminAssumption DEF NoForm

(* Where the log does not grow, a line tells what it told. *)
LEMMA TellsStill ==
  ASSUME audit' = audit, NEW c, value'[c] = value[c]
  PROVE  Explained(c)' = Explained(c) /\ \A i : Tells(i, c)' = Tells(i, c)
BY DEF Explained, Tells, LinesAbout

(* There are no lines about a row that is not there.                       *)
LEMMA AbsentUntold ==
  ASSUME AuditInv, NEW c \in Cells, value[c] = Absent
  PROVE  LinesAbout(c) = {}
<1>1. ASSUME NEW i \in Nat, Tells(i, c)
      PROVE  FALSE
  <2>1. i \in 1..Len(audit) /\ c \in DOMAIN audit[i].to /\ audit[i].to[c] = Absent
    BY <1>1 DEF Tells, LinesAbout
  <2>2. audit[i] \in AuditLine
    BY <2>1 DEF AuditInv
  <2>3. audit[i].to \in Forms \cup {NoForm}
    BY <2>2 DEF AuditLine
  <2> QED
    BY <2>1, <2>3, FormsAssign
<1> QED
  BY <1>1 DEF AuditInv, Explained

(* Nothing is changed but rows that were not there. *)
LEMMA SeedKeepsAudit ==
  ASSUME MasterInv, AuditInv, UNCHANGED adminVars,
         \A c \in Cells : \/ value'[c] = value[c]
                          \/ value[c] = Absent /\ value'[c] = Default[c]
  PROVE  AuditInv'
<1> USE DEF AuditInv
<1>1. UNCHANGED <<audit, since, read, form>>
  BY DEF adminVars
<1>2. ASSUME NEW c \in Cells
      PROVE  Explained(c)'
  <2>1. CASE value'[c] = value[c]
    BY <1>1, <2>1, TellsStill
  <2>2. CASE value[c] = Absent /\ value'[c] = Default[c]
    BY <1>1, <2>2, AbsentUntold DEF Explained, LinesAbout
  <2> QED
    BY <2>1, <2>2
<1>3. ASSUME NEW r \in Requests, NEW c \in DOMAIN form[r]
      PROVE  Known(r, c)'
  <2>1. c \in Cells /\ value[c] # Absent
    BY FormsAssign DEF MasterInv, FormsOK
  <2>2. value'[c] = value[c]
    BY <2>1
  <2> QED
    BY <1>1, <2>2, TellsStill DEF Known
<1> QED
  BY <1>1, <1>2, <1>3

(* A process that commits its seed changes nothing that was there. *)
LEMMA SeedsAbsentOnly ==
  ASSUME MasterInv, NEW p \in Processes, CommitSeed(p), NEW c \in Cells
  PROVE  \/ value'[c] = value[c]
         \/ value[c] = Absent /\ value'[c] = Default[c]
<1> USE DEF MasterInv
<1>1. /\ boot[p] = "flush" /\ todo[p] = << >>
      /\ value'[c] = IF RowOf[c] \in missing[p] THEN Default[c] ELSE value[c]
  BY DEF CommitSeed, Seeded
<1>2. CASE missing[p] = {}
  BY <1>1, <1>2
<1>3. CASE missing[p] = Everything
  <2>1. \A m \in Masters : exclusive[m] = p
    BY <1>1, <1>3 DEF SeedInv, Seeder, SeedsAll, Needs
  <2>2. Present = {}
    BY <1>1, <1>3, <2>1, MasterAssumption DEF SeedInv, Seeder, SeedsAll, Masters
  <2>3. RowOf[c] \in missing[p] => RowOf[c] \in Masters
    BY <1>3, MasterAssumption DEF Everything
  <2> QED
    BY <1>1, <2>2, <2>3 DEF Present
<1> QED
  BY <1>1, <1>2, <1>3 DEF SeedInv, Seeder

(* A request reads, and has no news yet. *)
LEMMA AskKeepsAudit ==
  ASSUME MasterInv, AuditInv, NEW r \in Requests, NEW t, NEW f \in Forms,
         NEW statements, Begin(r, t, f, statements)
  PROVE  AuditInv'
<1> USE DEF AuditInv
<1> DEFINE copy == [c \in {d \in Cells : RowOf[d] = RowOfForm(f)} |-> value[c]]
<1>1. /\ UNCHANGED <<audit, value>>
      /\ form' = [form EXCEPT ![r] = f] /\ read' = [read EXCEPT ![r] = copy]
      /\ since' = [since EXCEPT ![r] = Len(audit)]
  BY DEF Begin
<1>2. Len(audit) \in Nat
  OBVIOUS
<1>3. ASSUME NEW c \in DOMAIN f
      PROVE  copy[c] = value[c]
  BY AdminAssumption
<1> HIDE DEF copy
<1>4. ASSUME NEW q \in Requests, NEW c \in DOMAIN form'[q]
      PROVE  Known(q, c)'
  <2>1. CASE q = r
    <3>1. form'[q] = f /\ read'[q] = copy
      BY <1>1, <2>1 DEF MasterInv, FormsOK
    <3> QED
      BY <1>1, <1>3, <1>4, <3>1 DEF Known
  <2>2. CASE q # r
    <3>1. form'[q] = form[q] /\ read'[q] = read[q] /\ since'[q] = since[q]
      BY <1>1, <2>2 DEF MasterInv, FormsOK
    <3> QED
      BY <1>1, <1>4, <3>1, TellsStill DEF Known
  <2> QED
    BY <2>1, <2>2
<1>5. \A c \in Cells : Explained(c)'
  BY <1>1, TellsStill
<1> QED
  BY <1>1, <1>2, <1>4, <1>5

(* A request that ends has nothing to assign any more. *)
LEMMA FinishKeepsAudit ==
  ASSUME MasterInv, AuditInv, NEW r \in Requests, Finish(r), UNCHANGED <<value, audit>>
  PROVE  AuditInv'
<1> USE DEF AuditInv
<1>1. /\ form' = [form EXCEPT ![r] = NoForm] /\ read' = [read EXCEPT ![r] = NoForm]
      /\ since' = [since EXCEPT ![r] = 0]
  BY DEF Finish
<1>2. ASSUME NEW q \in Requests, NEW c \in DOMAIN form'[q]
      PROVE  Known(q, c)'
  <2>1. q # r /\ form'[q] = form[q] /\ read'[q] = read[q] /\ since'[q] = since[q]
    BY <1>1, <1>2 DEF MasterInv, FormsOK, NoForm
  <2> QED
    BY <1>2, <2>1, TellsStill DEF Known
<1>3. \A c \in Cells : Explained(c)'
  BY TellsStill
<1>4. Len(audit) \in Nat
  OBVIOUS
<1> QED
  BY <1>1, <1>2, <1>3, <1>4

(* The line of a change: about what the change assigns.                    *)
LEMMA LineAdded ==
  ASSUME MasterInv, AuditInv, NEW r \in Requests, CommitChange(r)
  PROVE  LET n == Len(audit)
         IN  /\ n \in Nat /\ audit' \in Seq(AuditLine)
             /\ Len(audit') = n + 1 /\ \A i \in 1..n : audit'[i] = audit[i]
             /\ audit'[n + 1].to = form[r] /\ audit'[n + 1].since = since[r]
             /\ \A c \in DOMAIN form[r] : LinesAbout(c)' = LinesAbout(c) \cup {n + 1}
             /\ \A c : c \notin DOMAIN form[r] => LinesAbout(c)' = LinesAbout(c)
<1> DEFINE line == [to |-> form[r], since |-> since[r]]
           n == Len(audit)
<1>1. line \in AuditLine /\ audit' = Append(audit, line)
  BY DEF AuditLine, MasterInv, FormsOK, AuditInv, CommitChange
<1>2. /\ n \in Nat /\ audit' \in Seq(AuditLine)
      /\ Len(audit') = n + 1 /\ audit'[n + 1] = line
      /\ \A i \in 1..n : audit'[i] = audit[i]
  <2> HIDE DEF line
  <2> QED
    BY <1>1 DEF AuditInv
<1>3. 1..(n + 1) = 1..n \cup {n + 1}
  BY <1>2
<1>4. ASSUME NEW c
      PROVE  LinesAbout(c)' = LinesAbout(c) \cup
                               (IF c \in DOMAIN form[r] THEN {n + 1} ELSE {})
  <2>1. LinesAbout(c)' = {i \in 1..n \cup {n + 1} : c \in DOMAIN audit'[i].to}
    BY <1>2, <1>3 DEF LinesAbout
  <2>2. {i \in 1..n : c \in DOMAIN audit'[i].to} = LinesAbout(c)
    BY <1>2 DEF LinesAbout
  <2> QED
    BY <1>2, <2>1, <2>2
<1>5. audit'[n + 1].to = form[r] /\ audit'[n + 1].since = since[r]
  BY <1>2
<1>6. \A c : c \notin DOMAIN form[r] => LinesAbout(c)' = LinesAbout(c)
  BY <1>4
<1>7. \A c \in DOMAIN form[r] : LinesAbout(c)' = LinesAbout(c) \cup {n + 1}
  BY <1>4
<1> HIDE DEF line
<1> QED
  BY <1>2, <1>5, <1>6, <1>7

(* It tells the state of a column if it is what the column has become.     *)
LEMMA NewLineTells ==
  ASSUME MasterInv, AuditInv, NEW r \in Requests, CommitChange(r),
         NEW c \in DOMAIN form[r], value'[c] = form[r][c],
         NEW n \in Nat, n = Len(audit)
  PROVE  Tells(n + 1, c)'
<1>1. /\ n \in Nat /\ n + 1 \in LinesAbout(c)' /\ audit'[n + 1].to[c] = value'[c]
      /\ LinesAbout(c)' = LinesAbout(c) \cup {n + 1}
  BY LineAdded
<1>2. \A j \in LinesAbout(c)' : ~ j > n + 1
  BY <1>1 DEF LinesAbout
<1> QED
  BY <1>1, <1>2 DEF Tells

(* An older line goes on to tell it if the column stays and the change     *)
(* that added a line about it could not know.                              *)
LEMMA OldLineTells ==
  ASSUME MasterInv, AuditInv, NEW r \in Requests, CommitChange(r),
         NEW c, value'[c] = value[c], NEW i \in Nat, Tells(i, c),
         c \in DOMAIN form[r] => since[r] < i
  PROVE  Tells(i, c)'
<1> DEFINE n == Len(audit)
<1>1. /\ n \in Nat /\ \A j \in 1..n : audit'[j] = audit[j]
      /\ audit'[n + 1].since = since[r]
      /\ LinesAbout(c) \subseteq 1..n
      /\ LinesAbout(c)' = LinesAbout(c) \cup (IF c \in DOMAIN form[r] THEN {n + 1} ELSE {})
  BY LineAdded DEF LinesAbout
<1>2. i \in LinesAbout(c)' /\ audit'[i].to[c] = value'[c]
  BY <1>1 DEF Tells
<1>3. ASSUME NEW j \in LinesAbout(c)', j > i
      PROVE  audit'[j].since < i
  BY <1>1, <1>3 DEF Tells
<1> QED
  BY <1>2, <1>3 DEF Tells

(* A change: its line tells what it has written.  Where it wrote nothing,  *)
(* because what it assigns is what it read, either that is still the state *)
(* or a line that it could not know tells it, and goes on to.              *)
LEMMA ChangeKeepsAudit ==
  ASSUME MasterInv, AuditInv, NEW r \in Requests, CommitChange(r)
  PROVE  AuditInv'
<1> USE DEF AuditInv
<1>0. PICK n \in Nat : n = Len(audit)
  OBVIOUS
<1>1. /\ n \in Nat /\ Len(audit') = n + 1
      /\ audit' \in Seq(AuditLine)
  BY <1>0, LineAdded
<1>2. /\ form' = [form EXCEPT ![r] = NoForm] /\ read' = [read EXCEPT ![r] = NoForm]
      /\ since' = [since EXCEPT ![r] = 0]
      /\ \A c \in Cells : value'[c] = Updated(r, c)
  BY DEF CommitChange, Finish
<1>3. ASSUME NEW c \in Cells, c \notin DOMAIN form[r]
      PROVE  value'[c] = value[c] /\ LinesAbout(c)' = LinesAbout(c)
  BY <1>2, <1>3, LineAdded DEF Updated
<1>4. ASSUME NEW c \in DOMAIN form[r]
      PROVE  \/ value'[c] = form[r][c]
             \/ value'[c] = value[c] /\ \E i \in Nat : i > since[r] /\ Tells(i, c)
  <2>1. c \in Cells
    BY FormsAssign DEF MasterInv, FormsOK
  <2>2. value'[c] = IF form[r][c] # read[r][c] THEN form[r][c] ELSE value[c]
    BY <1>2, <2>1 DEF Updated
  <2> QED
    BY <2>2 DEF Known
<1>5. ASSUME NEW c \in Cells
      PROVE  Explained(c)'
  <2>1. CASE c \notin DOMAIN form[r]
    <3>1. ASSUME NEW i \in Nat, Tells(i, c)
          PROVE  Tells(i, c)'
      BY <1>3, <2>1, <3>1, OldLineTells
    <3> QED
      BY <1>3, <2>1, <3>1 DEF Explained
  <2>2. CASE c \in DOMAIN form[r] /\ value'[c] = form[r][c]
    <3>1. Tells(n + 1, c)' /\ n + 1 \in Nat
      BY <1>0, <1>1, <2>2, NewLineTells
    <3> QED
      BY <3>1 DEF Explained
  <2>3. CASE c \in DOMAIN form[r] /\ value'[c] # form[r][c]
    <3>1. PICK i \in Nat : i > since[r] /\ Tells(i, c)
      BY <1>4, <2>3
    <3>2. Tells(i, c)'
      BY <1>4, <2>3, <3>1, OldLineTells
    <3> QED
      BY <3>2 DEF Explained
  <2> QED
    BY <2>1, <2>2, <2>3
<1>6. ASSUME NEW q \in Requests, NEW c \in DOMAIN form'[q]
      PROVE  Known(q, c)'
  <2>1. q # r /\ form'[q] = form[q] /\ read'[q] = read[q] /\ since'[q] = since[q]
    BY <1>2, <1>6 DEF MasterInv, FormsOK, NoForm
  <2>2. c \in Cells /\ Known(q, c) /\ since[q] \in Nat /\ since[q] <= n
    BY <1>0, <1>6, <2>1, FormsAssign DEF MasterInv, FormsOK
  <2>3. CASE c \in DOMAIN form[r] /\ value'[c] = form[r][c]
    <3>1. Tells(n + 1, c)' /\ n + 1 \in Nat /\ n + 1 > since[q]
      BY <1>0, <1>1, <2>2, <2>3, NewLineTells
    <3> QED
      BY <2>1, <3>1 DEF Known
  <2>4. CASE ~(c \in DOMAIN form[r] /\ value'[c] = form[r][c])
    <3>1. value'[c] = value[c]
      BY <1>3, <1>4, <2>2, <2>4
    <3>2. CASE value[c] = read[q][c]
      BY <2>1, <3>1, <3>2 DEF Known
    <3>3. CASE value[c] # read[q][c]
      <4>1. PICK k \in Nat : k > since[q] /\ Tells(k, c)
        BY <2>2, <3>3 DEF Known
      <4>2. \E i \in Nat : i > since[q] /\ Tells(i, c) /\ (c \in DOMAIN form[r] => since[r] < i)
        <5>1. CASE c \in DOMAIN form[r]
          <6>1. PICK j \in Nat : j > since[r] /\ Tells(j, c)
            BY <1>4, <2>4, <5>1
          <6>2. since[r] \in Nat
            OBVIOUS
          <6>3. CASE j > k
            BY <2>2, <4>1, <6>1, <6>2, <6>3
          <6>4. CASE ~ j > k
            BY <2>2, <4>1, <6>1, <6>2, <6>4
          <6> QED
            BY <6>3, <6>4
        <5>2. CASE c \notin DOMAIN form[r]
          BY <4>1, <5>2
        <5> QED
          BY <5>1, <5>2
      <4>3. PICK i \in Nat : i > since[q] /\ Tells(i, c) /\ (c \in DOMAIN form[r] => since[r] < i)
        BY <4>2
      <4>4. Tells(i, c)'
        BY <3>1, <4>3, OldLineTells
      <4> QED
        BY <2>1, <4>3, <4>4 DEF Known
    <3> QED
      BY <3>2, <3>3
  <2> QED
    BY <2>3, <2>4
<1>7. ASSUME NEW q \in Requests
      PROVE  since'[q] \in Nat /\ since'[q] <= n + 1
  <2>1. since'[q] = 0 \/ since'[q] = since[q]
    BY <1>2
  <2>2. since[q] \in Nat /\ since[q] <= n
    BY <1>0
  <2> QED
    BY <1>1, <2>1, <2>2
<1>8. since' \in [Requests -> Nat] /\ DOMAIN read' = Requests
  BY <1>2
<1> QED
  BY <1>1, <1>5, <1>6, <1>7, <1>8

(* Every step keeps it. *)
LEMMA StepKeepsAudit ==
  ASSUME MasterInv, AuditInv, [AdminNext]_vars
  PROVE  AuditInv'
<1>1. ASSUME NEW p \in Processes, SeedStep(p), UNCHANGED adminVars
      PROVE  AuditInv'
  <2>1. CommitSeed(p) \/ UNCHANGED value
    BY <1>1 DEF SeedStep, BeginSeed, Look, InsertMaster, FailSeed, Stop, Down
  <2> QED
    BY <1>1, <2>1, SeedKeepsAudit, SeedsAbsentOnly
<1>2. ASSUME NEW r \in Requests, NEW f \in Forms, BeginChange(r, f) \/ BeginSubscribe(r, f)
      PROVE  AuditInv'
  <2>1. PICK t, statements : Begin(r, t, f, statements)
    BY <1>2 DEF BeginChange, BeginSubscribe
  <2> QED
    BY <2>1, AskKeepsAudit
<1>3. ASSUME NEW r \in Requests, CommitSubscribe(r) \/ Lose(r)
      PROVE  AuditInv'
  BY <1>3, FinishKeepsAudit DEF CommitSubscribe, Lose
<1>4. ASSUME UNCHANGED vars \/ \E r \in Requests : Execute(r)
      PROVE  AuditInv'
  <2>1. UNCHANGED <<value, adminVars>>
    BY <1>4 DEF vars, masterVars, Execute
  <2> QED
    BY <2>1, SeedKeepsAudit
<1> QED
  BY <1>1, <1>2, <1>3, <1>4, ChangeKeepsAudit DEF AdminNext, AdminStep

(* Nothing is in the log at first, and nothing is to be assigned. *)
LEMMA AuditInitInv == AdminInit => AuditInv
<1> SUFFICES ASSUME AdminInit PROVE AuditInv
  OBVIOUS
<1>1. audit = << >> /\ \A c : LinesAbout(c) = {}
  BY DEF AdminInit, LinesAbout
<1>2. \A r \in Requests : DOMAIN form[r] = {}
  BY DEF AdminInit, NoForm
<1> QED
  BY <1>1, <1>2 DEF AdminInit, MasterInit, AuditInv, Explained

(* However many administrators change the same columns at the same time,   *)
(* from whatever snapshots, and whoever is rolled back, a column is as it  *)
(* was made or as the newest line about it says whose request could know   *)
(* the lines before it (admin.py:31-40, 63-94, 187-201, 233-248).          *)
THEOREM AuditTellsState == AdminSpec => []AuditExplainsState
<1>1. AdminInit => AuditInv
  BY AuditInitInv
<1>2. AuditInv => AuditExplainsState
  BY DEF AuditInv, Explained, Tells, AuditExplainsState
<1> QED
  BY <1>1, <1>2, InitInv, StepKeepsInv, StepKeepsAudit, PTL DEF AdminSpec

-----------------------------------------------------------------------------
(* Types *)

(* Of the shared locks and the processes; only a flush needs locks. *)
SeedTypes ==
  /\ shared \in [Rows -> SUBSET Transactions]
  /\ snapshot \in [Processes -> SUBSET Everything]
  /\ missing \in [Processes -> SUBSET Everything]
  /\ \A p \in Processes : boot[p] # "flush" => todo[p] = << >>

(* Of the requests: each change under way has its line's place in the log. *)
Changing == {r \in Requests : task[r] = "change"}
LogHasRoom ==
  /\ task \in [Requests -> {"none", "change", "subscribe"}]
  /\ IsFiniteSet(Changing) /\ Len(audit) + Cardinality(Changing) <= MaxLines

(* Locks are shared by transactions. *)
LEMMA SharedByTransactions ==
  ASSUME LocksOK, shared \in [Rows -> SUBSET Transactions], NEW t \in Transactions,
         Take(t) \/ EndTransaction(t)
  PROVE  shared' \in [Rows -> SUBSET Transactions]
<1>1. CASE Take(t)
  <2>1. todo[t] # << >> /\ todo[t] \in Seq(Statement)
    BY <1>1 DEF Take, Ready, LocksOK
  <2>2. Head(todo[t]) \in Statement
    BY <2>1
  <2>3. Head(todo[t]).row \in Rows
    BY <2>2 DEF Statement
  <2>4. \/ UNCHANGED shared
        \/ shared' = [shared EXCEPT ![Head(todo[t]).row] = @ \cup {t}]
    BY <1>1 DEF Take
  <2> QED
    BY <2>3, <2>4
<1>2. CASE EndTransaction(t)
  BY <1>2 DEF EndTransaction
<1> QED
  BY <1>1, <1>2

(* A process that looks, inserts, commits or ends. *)
LEMMA SeedKeepsTypes ==
  ASSUME MasterInv, SeedTypes, NEW p \in Processes, SeedStep(p)
  PROVE  SeedTypes'
<1> USE DEF MasterInv, SeedTypes
<1>0. p \in Transactions /\ Present \subseteq Everything
  BY MasterAssumption DEF Present, Everything
<1>1. CASE BeginSeed(p)
  BY <1>0, <1>1 DEF BeginSeed, lockVars, SeedInv, Everything
<1>2. CASE Look(p)
  <2>1. /\ UNCHANGED <<shared, snapshot>> /\ boot' = [boot EXCEPT ![p] = "flush"]
        /\ \A q \in Processes \ {p} : todo'[q] = todo[q]
    BY <1>2, MasterAssumption DEF Look, LocksOK
  <2>2. PICK new \in SUBSET Masters : missing' = [missing EXCEPT ![p] = @ \cup new]
    BY <1>2 DEF Look, Masters
  <2> QED
    BY <2>1, <2>2 DEF SeedInv, Everything
<1>3. CASE InsertMaster(p)
  <2>1. UNCHANGED bootVars /\ Take(p) /\ boot[p] = "flush"
    BY <1>3 DEF InsertMaster
  <2>2. \A q \in Processes \ {p} : todo'[q] = todo[q]
    BY <1>0, <2>1, MasterAssumption DEF Take, LocksOK
  <2> QED
    BY <1>0, <2>1, <2>2, SharedByTransactions DEF bootVars
<1>4. CASE EndTransaction(p) /\ UNCHANGED bootVars
  BY <1>0, <1>4, SharedByTransactions, MasterAssumption DEF EndTransaction, LocksOK, bootVars
<1>5. ASSUME EndTransaction(p), NEW b, boot' = [boot EXCEPT ![p] = b],
             snapshot' = [snapshot EXCEPT ![p] = {}], missing' = [missing EXCEPT ![p] = {}]
      PROVE  SeedTypes'
  <2>1. todo'[p] = << >> /\ \A q \in Processes \ {p} : todo'[q] = todo[q]
    BY <1>0, <1>5, MasterAssumption DEF EndTransaction, LocksOK
  <2>2. \A q \in Processes \ {p} : boot'[q] = boot[q]
    BY <1>5 DEF SeedInv
  <2> QED
    BY <1>0, <1>5, <2>1, <2>2, SharedByTransactions
<1> QED
  BY <1>1, <1>2, <1>3, <1>5 DEF SeedStep, FailSeed, Stop, Down, CommitSeed

(* A request takes locks for itself. *)
LEMMA RequestKeepsSeedTypes ==
  ASSUME MasterInv, SeedTypes, NEW r \in Requests, UNCHANGED bootVars,
         shared' = shared \/ Take(r) \/ EndTransaction(r),
         \A q \in Transactions \ {r} : todo'[q] = todo[q]
  PROVE  SeedTypes'
<1>1. r \in Transactions /\ Processes \subseteq Transactions \ {r}
  BY AdminAssumption, MasterAssumption
<1> QED
  BY <1>1, SharedByTransactions DEF MasterInv, SeedTypes, bootVars

(* A request that ends leaves the log its place, or has filled it. *)
LEMMA FinishKeepsRoom ==
  ASSUME LogHasRoom, NEW r \in Requests, task' = [task EXCEPT ![r] = "none"],
         Len(audit) \in Nat,
         \/ audit' = audit
         \/ task[r] = "change" /\ Len(audit') = Len(audit) + 1
  PROVE  LogHasRoom'
<1>1. Changing' = Changing \ {r} /\ (r \in Changing <=> task[r] = "change")
  BY DEF Changing, LogHasRoom
<1>2. /\ IsFiniteSet(Changing \ {r}) /\ Cardinality(Changing) \in Nat
      /\ Cardinality(Changing \ {r})
           = IF r \in Changing THEN Cardinality(Changing) - 1 ELSE Cardinality(Changing)
  BY FS_RemoveElement, FS_CardinalityType DEF LogHasRoom
<1>3. task' \in [Requests -> {"none", "change", "subscribe"}]
  BY DEF LogHasRoom
<1>4. Len(audit') + Cardinality(Changing \ {r}) <= MaxLines
  BY <1>1, <1>2, AdminAssumption DEF LogHasRoom
<1> QED
  BY <1>1, <1>2, <1>3, <1>4 DEF LogHasRoom

(* A request that begins; a change only if there is room for its line. *)
LEMMA BeginKeepsRoom ==
  ASSUME LogHasRoom, NEW r \in Requests, NEW t \in {"change", "subscribe"},
         task[r] = "none", task' = [task EXCEPT ![r] = t], audit' = audit,
         Len(audit) \in Nat, t = "change" => RoomForLine
  PROVE  LogHasRoom'
<1>1. task' \in [Requests -> {"none", "change", "subscribe"}]
  BY DEF LogHasRoom
<1>2. CASE t = "change"
  <2>1. Changing' = Changing \cup {r} /\ r \notin Changing
    BY <1>2 DEF Changing, LogHasRoom
  <2>2. /\ IsFiniteSet(Changing \cup {r}) /\ Cardinality(Changing) \in Nat
        /\ Cardinality(Changing \cup {r}) = Cardinality(Changing) + 1
    BY <2>1, FS_AddElement, FS_CardinalityType DEF LogHasRoom
  <2>3. Len(audit) + Cardinality(Changing) < MaxLines
    BY <1>2 DEF RoomForLine, Changing
  <2>4. Len(audit) + (Cardinality(Changing) + 1) <= MaxLines
    BY <2>2, <2>3, AdminAssumption
  <2> QED
    BY <1>1, <2>1, <2>2, <2>4 DEF LogHasRoom
<1>3. CASE t = "subscribe"
  <2>1. Changing' = Changing
    BY <1>3 DEF Changing, LogHasRoom
  <2> QED
    BY <1>1, <2>1 DEF LogHasRoom
<1> QED
  BY <1>2, <1>3

(* Every step keeps both. *)
LEMMA StepKeepsTypes ==
  ASSUME MasterInv, AuditInv, SeedTypes, LogHasRoom, [AdminNext]_vars
  PROVE  SeedTypes' /\ LogHasRoom'
<1>0. /\ Len(audit) \in Nat
      /\ \A r \in Requests : r \in Transactions
      /\ DOMAIN todo = Transactions
  BY AdminAssumption DEF AuditInv, MasterInv, LocksOK
<1>1. ASSUME NEW p \in Processes, SeedStep(p), UNCHANGED adminVars
      PROVE  SeedTypes' /\ LogHasRoom'
  BY <1>1, SeedKeepsTypes DEF adminVars, LogHasRoom, Changing
<1>2. ASSUME NEW r \in Requests, NEW f \in Forms, BeginChange(r, f) \/ BeginSubscribe(r, f)
      PROVE  SeedTypes' /\ LogHasRoom'
  <2>0. PICK t \in {"change", "subscribe"} :
          \E statements : Begin(r, t, f, statements) /\ (t = "change" => RoomForLine)
    BY <1>2 DEF BeginChange, BeginSubscribe
  <2>1. PICK statements :
          Begin(r, t, f, statements) /\ (t = "change" => RoomForLine)
    BY <2>0
  <2>2. /\ task[r] = "none" /\ task' = [task EXCEPT ![r] = t]
        /\ todo' = [todo EXCEPT ![r] = statements]
        /\ UNCHANGED <<bootVars, shared, audit>>
    BY <2>1 DEF Begin
  <2>3. SeedTypes'
    BY <1>0, <2>2, RequestKeepsSeedTypes
  <2> QED
    BY <1>0, <2>1, <2>2, <2>3, BeginKeepsRoom
<1>3. ASSUME NEW r \in Requests, Execute(r)
      PROVE  SeedTypes' /\ LogHasRoom'
  <2>1. Take(r) /\ UNCHANGED <<bootVars, task, audit>>
    BY <1>3 DEF Execute, adminVars
  <2>2. \A q \in Transactions \ {r} : todo'[q] = todo[q]
    BY <1>0, <2>1 DEF Take
  <2>3. SeedTypes'
    BY <2>1, <2>2, RequestKeepsSeedTypes
  <2> QED
    BY <2>1, <2>3 DEF LogHasRoom, Changing
<1>4. ASSUME NEW r \in Requests, Finish(r),
             audit' = audit \/ (task[r] = "change" /\ Len(audit') = Len(audit) + 1)
      PROVE  SeedTypes' /\ LogHasRoom'
  <2>1. /\ EndTransaction(r) /\ UNCHANGED bootVars
        /\ task' = [task EXCEPT ![r] = "none"]
    BY <1>4 DEF Finish
  <2>2. \A q \in Transactions \ {r} : todo'[q] = todo[q]
    BY <1>0, <2>1 DEF EndTransaction
  <2>3. SeedTypes'
    BY <2>1, <2>2, RequestKeepsSeedTypes
  <2> QED
    BY <1>0, <1>4, <2>1, <2>3, FinishKeepsRoom
<1>5. ASSUME NEW r \in Requests, CommitChange(r)
      PROVE  SeedTypes' /\ LogHasRoom'
  <2>1. /\ Finish(r) /\ task[r] = "change"
        /\ audit' = Append(audit, [to |-> form[r], since |-> since[r]])
    BY <1>5 DEF CommitChange
  <2>2. Len(audit') = Len(audit) + 1
    BY <2>1 DEF AuditInv
  <2> QED
    BY <1>4, <2>1, <2>2
<1>6. ASSUME NEW r \in Requests, CommitSubscribe(r) \/ Lose(r)
      PROVE  SeedTypes' /\ LogHasRoom'
  BY <1>4, <1>6 DEF CommitSubscribe, Lose
<1>7. CASE UNCHANGED vars
  BY <1>7
  DEF vars, masterVars, adminVars, bootVars, lockVars, SeedTypes, LogHasRoom, Changing
<1> QED
  BY <1>1, <1>2, <1>3, <1>5, <1>6, <1>7 DEF AdminNext, AdminStep

(* Types; only a process in its flush needs locks, and the log has room    *)
(* for the line of every change under way.                                 *)
THEOREM AdminTypeCorrect == AdminSpec => []AdminTypeOK
<1>1. AdminInit => AuditInv
  BY AuditInitInv
<1>2. AdminInit => SeedTypes /\ LogHasRoom
  <2> SUFFICES ASSUME AdminInit PROVE SeedTypes /\ LogHasRoom
    OBVIOUS
  <2>1. SeedTypes
    BY MasterAssumption DEF AdminInit, MasterInit, SeedTypes
  <2>2. Changing = {} /\ Len(audit) = 0
    BY DEF AdminInit, Changing
  <2>3. Cardinality(Changing) = 0 /\ IsFiniteSet(Changing)
    BY <2>2, FS_EmptySet
  <2> QED
    BY <2>1, <2>2, <2>3, AdminAssumption DEF AdminInit, LogHasRoom
<1>3. MasterInv /\ AuditInv /\ SeedTypes /\ LogHasRoom => AdminTypeOK
  <2> SUFFICES ASSUME MasterInv, AuditInv, SeedTypes, LogHasRoom
               PROVE  AdminTypeOK
    OBVIOUS
  <2>1. MasterTypeOK
    BY DEF MasterInv, LocksOK, WholeSeed, SeedInv, SeedTypes, MasterTypeOK, Everything
  <2>2. Len(audit) <= MaxLines
    <3>1. Len(audit) \in Nat /\ Cardinality(Changing) \in Nat
      BY FS_CardinalityType DEF AuditInv, LogHasRoom
    <3> QED
      BY <3>1, AdminAssumption DEF LogHasRoom
  <2>3. ASSUME NEW r \in Requests
        PROVE  form[r] \in Forms \cup {NoForm} /\ since[r] \in 0..MaxLines
    <3>1. since[r] \in Nat /\ since[r] <= Len(audit) /\ Len(audit) \in Nat
      BY DEF AuditInv
    <3>2. since[r] \in 0..MaxLines
      BY <2>2, <3>1, AdminAssumption
    <3> QED
      BY <3>2 DEF MasterInv, FormsOK
  <2> QED
    BY <2>1, <2>2, <2>3 DEF AdminTypeOK, LogHasRoom
<1> QED
  BY <1>1, <1>2, <1>3, InitInv, StepKeepsInv, StepKeepsAudit, StepKeepsTypes, PTL
  DEF AdminSpec
=============================================================================
