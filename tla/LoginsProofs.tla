----------------------------- MODULE LoginsProofs -----------------------------
(***************************************************************************)
(* Theorems about Logins, for any number of users, days and requests:      *)
(* registration and login use points as Accounts says, and the ledger has  *)
(* one registration bonus per account and one daily bonus per rewarded day.*)
(***************************************************************************)
EXTENDS Logins, AccountsProofs

(* apply_points needs an open session. *)
DraftsAreOpen == \A r \in Requests : draft[r] # NoEntry => IsOpen(r)

TypesInv == AccountsTypeOK /\ LoginsTypeOK /\ DraftsAreOpen

(* Who logs in has an account. *)
LoginsHaveAccounts ==
  \A r \in Requests : work[r] \in {"bonus", "retry", "login"} => Caller[r] \in registered

(* What a session has drafted: the welcome of a user who has no account,   *)
(* or the bonus of the day that the login computed.                        *)
DraftsAreBonuses ==
  \A r \in Requests : draft[r] # NoEntry =>
    /\ draft[r].user = Caller[r]
    /\ \/ work[r] = "register" /\ draft[r].about = Joined /\ Caller[r] \notin registered
       \/ work[r] = "bonus" /\ draft[r].about = since[r]

BonusInv == LoginsHaveAccounts /\ DraftsAreBonuses /\ OneBonusPerDay /\ WelcomedOnce

-----------------------------------------------------------------------------
(* Logins implements Accounts *)

(* A step of a login is a step of its session, or none. *)
LEMMA LoginStepIsAccountsStep ==
  ASSUME LoginsTypeOK, [LoginsNext]_vars
  PROVE  [AccountsNext]_accountVars
<1> USE LoginAssumption, CallerAssumption DEF LoginsTypeOK
<1>1. ASSUME NEW r \in Requests,
             OpenSession(r) \/ EndSession(r) \/ CommitPoints(r)
      PROVE  AccountsNext
  BY <1>1 DEF AccountsNext, AccountsStep
<1>2. ASSUME NEW r \in Requests, InsertUser(r) \/ GrantBonus(r)
      PROVE  AccountsNext
  <2>1. Caller[r] \in Users /\ since[r] \in Subjects
    OBVIOUS
  <2>2. \/ ApplyPoints(r, Caller[r], RegistrationBonus, Joined)
        \/ ApplyPoints(r, Caller[r], DailyBonus, since[r])
    BY <1>2 DEF InsertUser, GrantBonus
  <2> QED
    BY <2>1, <2>2 DEF AccountsNext, AccountsStep
<1>3. ASSUME NEW r \in Requests, LoginStep(r)
      PROVE  AccountsNext \/ UNCHANGED accountVars
  BY <1>1, <1>2, <1>3
  DEF LoginStep, BeginRegister, DuplicateUser, CommitRegister, BeginLogin, Begin,
      FinishBonus, LoseRace, RetryLogin, FinishLogin, Abandon
<1>4. ASSUME NEW u \in Users, SetStatus(u)
      PROVE  UNCHANGED accountVars
  BY <1>4 DEF SetStatus
<1>5. CASE Midnight \/ UNCHANGED vars
  BY <1>5 DEF Midnight, vars
<1> QED
  BY <1>3, <1>4, <1>5 DEF LoginsNext

(* A draft goes with its session. *)
LEMMA StepKeepsOpen ==
  ASSUME AccountsTypeOK, DraftsAreOpen, [AccountsNext]_accountVars
  PROVE  DraftsAreOpen'
<1> USE CallerAssumption DEF DraftsAreOpen, IsOpen, AccountsTypeOK
<1>1. ASSUME NEW r \in Requests, CloseSession(r)
      PROVE  DraftsAreOpen'
  BY <1>1 DEF CloseSession
<1>2. ASSUME NEW r \in Requests, OpenSession(r)
      PROVE  DraftsAreOpen'
  <2>1. draft[r] = NoEntry /\ draft' = draft
    BY <1>2 DEF OpenSession
  <2>2. \A q \in Requests \ {r} : seen'[q] = seen[q]
    BY <1>2 DEF OpenSession
  <2> QED
    BY <2>1, <2>2
<1>3. ASSUME NEW r \in Requests, NEW u \in Users, NEW change \in Changes,
             NEW about \in Subjects, ApplyPoints(r, u, change, about)
      PROVE  DraftsAreOpen'
  BY <1>3 DEF ApplyPoints, MayApply
<1>4. CASE UNCHANGED accountVars
  BY <1>4 DEF accountVars
<1> QED
  BY <1>1, <1>2, <1>3, <1>4
  DEF AccountsNext, AccountsStep, RefusePoints, CommitPoints, EndSession

(* Types, and that a draft belongs to a registration or to a login. *)
LEMMA LoginsStepTypes ==
  ASSUME TypesInv, [LoginsNext]_vars
  PROVE  TypesInv'
<1> USE LoginAssumption, CallerAssumption DEF TypesInv, LoginsTypeOK
<1>1. AccountsTypeOK' /\ DraftsAreOpen'
  BY LoginStepIsAccountsStep, StepTypes, StepKeepsOpen
<1>2. ASSUME NEW r \in Requests, CloseSession(r)
      PROVE  /\ draft'[r] = NoEntry
             /\ \A q \in Requests \ {r} : draft'[q] = draft[q]
  BY <1>2 DEF CloseSession, AccountsTypeOK
<1>3. ASSUME NEW r \in Requests, NEW w \in {"register", "bonus", "login"}, Begin(r, w)
      PROVE  LoginsTypeOK'
  BY <1>3 DEF Begin, At, OpenSession
<1>4. ASSUME NEW r \in Requests, InsertUser(r) \/ GrantBonus(r)
      PROVE  LoginsTypeOK'
  <2>1. /\ work[r] \in {"register", "bonus"}
        /\ UNCHANGED loginVars
        /\ \A q \in Requests \ {r} : draft'[q] = draft[q]
    BY <1>4 DEF InsertUser, GrantBonus, At, ApplyPoints, AccountsTypeOK
  <2> QED
    BY <2>1 DEF loginVars
<1>5. ASSUME NEW r \in Requests,
             NEW a \in {"tokens", "lost", "failed"},
             CloseSession(r) \/ (~IsOpen(r) /\ UNCHANGED accountVars),
             work[r] \in {"retry", "login"} \/ CloseSession(r),
             registered' \in SUBSET Users, rewards' \in [Users -> SUBSET Days],
             Answer(r, a)
      PROVE  LoginsTypeOK'
  BY <1>2, <1>5 DEF Answer, accountVars
<1>6. ASSUME NEW r \in Requests, DuplicateUser(r) \/ FinishLogin(r)
      PROVE  LoginsTypeOK'
  BY <1>5, <1>6 DEF DuplicateUser, FinishLogin, EndSession
<1>7. ASSUME NEW r \in Requests, CommitRegister(r) \/ FinishBonus(r)
      PROVE  LoginsTypeOK'
  <2>1. CloseSession(r) /\ Answer(r, "tokens")
    BY <1>7 DEF CommitRegister, FinishBonus, CommitPoints
  <2>2. registered' \in SUBSET Users /\ rewards' \in [Users -> SUBSET Days]
    BY <1>7 DEF CommitRegister, FinishBonus
  <2> QED
    BY <1>5, <2>1, <2>2
<1>8. ASSUME NEW r \in Requests, Abandon(r)
      PROVE  LoginsTypeOK'
  <2>1. CASE IsOpen(r)
    BY <1>5, <1>8, <2>1 DEF Abandon, EndSession
  <2>2. CASE ~IsOpen(r)
    BY <1>8, <2>2 DEF Abandon, Answer, accountVars, DraftsAreOpen
  <2> QED
    BY <2>1, <2>2
<1>9. ASSUME NEW r \in Requests, LoseRace(r) \/ RetryLogin(r)
      PROVE  LoginsTypeOK'
  BY <1>2, <1>9 DEF LoseRace, RetryLogin, EndSession, OpenSession, At
<1>10. ASSUME NEW u \in Users, SetStatus(u)
       PROVE  LoginsTypeOK'
  BY <1>10 DEF SetStatus, accountVars
<1>11. CASE Midnight
  <2>1. today' \in Days
    BY <1>11 DEF Midnight, Days
  <2> QED
    BY <1>1, <1>11, <2>1 DEF Midnight, accountVars
<1>12. CASE UNCHANGED vars
  BY <1>1, <1>12 DEF vars, accountVars, loginVars
<1> QED
  BY <1>1, <1>3, <1>4, <1>6, <1>7, <1>8, <1>9, <1>10, <1>11, <1>12
  DEF LoginsNext, LoginStep, BeginRegister, BeginLogin

(* Types hold in every behaviour. *)
LEMMA LoginsInvariance == LoginsSpec => []TypesInv
<1>1. LoginsInit => TypesInv
  BY InitTypes, LoginAssumption
  DEF LoginsInit, AccountsInit, TypesInv, LoginsTypeOK, DraftsAreOpen, Days
<1>2. TypesInv /\ [LoginsNext]_vars => TypesInv'
  BY LoginsStepTypes
<1> QED
  BY <1>1, <1>2, PTL DEF LoginsSpec

(* Tables and requests keep their types, and nothing is drafted but by a   *)
(* registration or by a login that found no reward (auth.py:69-163).       *)
THEOREM LoginsTypeCorrect == LoginsSpec => []LoginsTypeOK
<1>1. TypesInv => LoginsTypeOK
  BY DEF TypesInv
<1> QED
  BY <1>1, LoginsInvariance, PTL

(* Registration and login use points only through apply_points, as         *)
(* Accounts says: what is proved of it holds of them.                      *)
THEOREM LoginsImplementAccounts == LoginsSpec => AccountsSpec
<1>1. LoginsInit => AccountsInit
  BY DEF LoginsInit
<1>2. LoginsTypeOK /\ [LoginsNext]_vars => [AccountsNext]_accountVars
  BY LoginStepIsAccountsStep
<1> QED
  BY <1>1, <1>2, LoginsTypeCorrect, PTL DEF LoginsSpec, AccountsSpec
-----------------------------------------------------------------------------
(* One welcome, one bonus a day *)

(* A commit adds one line, about what its draft is about, and no line to   *)
(* any other user or about anything else.                                  *)
LEMMA CommitAddsOne ==
  ASSUME AccountsTypeOK, NEW r \in Requests, CommitPoints(r),
         NEW u \in Users, u = draft[r].user, NEW s, s = draft[r].about
  PROVE  /\ Len(ledger[u]) \in Nat /\ Len(ledger'[u]) = Len(ledger[u]) + 1
         /\ EntriesAbout(u, s)' = EntriesAbout(u, s) \cup {Len(ledger[u]) + 1}
<1>1. Len(ledger[u]) \in Nat
  BY DEF AccountsTypeOK
<1>2. /\ Len(ledger'[u]) = Len(ledger[u]) + 1
      /\ PostedAbout(u, s)' = PostedAbout(u, s) \cup {Len(ledger[u]) + 1}
  BY CommitPosted, Zenon
<1> QED
  BY <1>1, <1>2 DEF EntriesAbout, PostedAbout
LEMMA CommitAddsNoOther ==
  ASSUME AccountsTypeOK, NEW r \in Requests, CommitPoints(r),
         NEW u \in Users, NEW s, u # draft[r].user \/ s # draft[r].about
  PROVE  EntriesAbout(u, s)' = EntriesAbout(u, s)
<1>1. PostedAbout(u, s)' = PostedAbout(u, s)
  <2>1. CASE u = draft[r].user
    <3>1. PostedAbout(u, s)' = PostedAbout(u, s) \cup {}
      BY <2>1, CommitPosted, Zenon
    <3> QED
      BY <3>1
  <2>2. CASE u # draft[r].user
    <3>1. ledger'[u] = ledger[u]
      BY <2>2, CommitPosted, SMT
    <3> QED
      BY <3>1 DEF PostedAbout
  <2> QED
    BY <2>1, <2>2
<1> QED
  BY <1>1 DEF EntriesAbout, PostedAbout

(* Where no ledger changes and no day and no user is added, both stand. *)
LEMMA BonusesStand ==
  ASSUME OneBonusPerDay, WelcomedOnce, UNCHANGED <<ledger, registered, rewards>>
  PROVE  OneBonusPerDay' /\ WelcomedOnce'
<1>1. \A u \in Users : \A s : EntriesAbout(u, s)' = EntriesAbout(u, s)
  BY DEF EntriesAbout
<1> QED
  BY <1>1 DEF OneBonusPerDay, WelcomedOnce

(* Two sessions with drafts for one user would both hold its row. *)
LEMMA OneDraftPerUser ==
  ASSUME LockInv, DraftsAreBonuses, NEW q \in Requests, NEW r \in Requests,
         draft[q] # NoEntry, draft[r] # NoEntry, Caller[q] = Caller[r]
  PROVE  q = r
BY DEF LockInv, DraftsAreBonuses

(* A commit drops the draft and touches no other session. *)
LEMMA CommitDropsDraft ==
  ASSUME AccountsTypeOK, NEW r \in Requests, CloseSession(r)
  PROVE  draft'[r] = NoEntry /\ \A q \in Requests \ {r} : draft'[q] = draft[q]
BY DEF CloseSession, AccountsTypeOK

(* An account is registered with the first line of its ledger, under the   *)
(* lock of its row: no other registration of the address has drafted.      *)
LEMMA RegisterKeepsBonuses ==
  ASSUME TypesInv, LockInv, BonusInv, NEW r \in Requests, CommitRegister(r)
  PROVE  BonusInv'
<1> USE CallerAssumption, LoginAssumption DEF TypesInv, BonusInv
<1> DEFINE v == Caller[r]
<1>1. /\ work[r] = "register" /\ draft[r] # NoEntry
      /\ CommitPoints(r) /\ CloseSession(r)
      /\ registered' = registered \cup {v}
      /\ work' = [work EXCEPT ![r] = "none"]
      /\ UNCHANGED <<rewards, since>>
  BY DEF CommitRegister, At, CommitPoints, Answer
<1>2. v \in Users /\ v \notin registered /\ draft[r].user = v /\ draft[r].about = Joined
  BY <1>1 DEF DraftsAreBonuses
<1>3. draft'[r] = NoEntry /\ \A q \in Requests \ {r} : draft'[q] = draft[q]
  BY <1>1, CommitDropsDraft
<1>4. \A q \in Requests \ {r} : work'[q] = work[q]
  BY <1>1
<1>5. LoginsHaveAccounts'
  BY <1>1, <1>4 DEF LoginsHaveAccounts, LoginsTypeOK
<1>6. DraftsAreBonuses'
  <2>1. \A q \in Requests : draft'[q] # NoEntry => q # r /\ Caller[q] # v
    BY <1>1, <1>3, OneDraftPerUser
  <2> QED
    BY <1>1, <1>3, <1>4, <2>1 DEF DraftsAreBonuses
<1>7. ASSUME NEW u \in Users
      PROVE  IF u = v
             THEN /\ ledger'[u] # << >> /\ EntriesAbout(u, Joined)' = {1}
                  /\ \A d \in Days : EntriesAbout(u, d)' = EntriesAbout(u, d)
             ELSE /\ ledger'[u] = ledger[u]
                  /\ \A s : EntriesAbout(u, s)' = EntriesAbout(u, s)
  <2>1. CASE u # v
    <3>1. ledger'[u] = ledger[u]
      BY <1>1, <1>2, <2>1, CommitPosted
    <3> QED
      BY <2>1, <3>1 DEF EntriesAbout
  <2>2. CASE u = v
    <3>1. ledger[u] = << >> /\ EntriesAbout(u, Joined) = {}
      BY <1>2, <2>2 DEF WelcomedOnce
    <3>2. /\ Len(ledger'[u]) = Len(ledger[u]) + 1
          /\ EntriesAbout(u, Joined)' = EntriesAbout(u, Joined) \cup {Len(ledger[u]) + 1}
      BY <1>1, <1>2, <2>2, CommitAddsOne
    <3>3. ASSUME NEW d \in Days
          PROVE  EntriesAbout(u, d)' = EntriesAbout(u, d)
      BY <1>1, <1>2, <2>2, CommitAddsNoOther
    <3>4. EntriesAbout(u, Joined)' = {1}
      BY <3>1, <3>2
    <3>5. ledger'[u] # << >>
      <4>1. Len(ledger'[u]) = 1
        BY <3>1, <3>2
      <4>2. Len(<< >>) # 1
        OBVIOUS
      <4> QED
        BY <4>1, <4>2, Zenon
    <3> QED
      BY <2>2, <3>3, <3>4, <3>5
  <2> QED
    BY <2>1, <2>2
<1>8. OneBonusPerDay'
  <2>1. \A u \in Users, d \in Days : EntriesAbout(u, d)' = EntriesAbout(u, d)
    BY <1>7
  <2> QED
    BY <1>1, <2>1 DEF OneBonusPerDay
<1>9. WelcomedOnce'
  <2> SUFFICES ASSUME NEW u \in Users
               PROVE  /\ (u \in registered)' <=> ledger'[u] # << >>
                      /\ EntriesAbout(u, Joined)' = IF (u \in registered)' THEN {1} ELSE {}
    BY DEF WelcomedOnce
  <2> QED
    BY <1>1, <1>7 DEF WelcomedOnce
<1> QED
  BY <1>5, <1>6, <1>8, <1>9

(* The bonus of a day is posted once: the flush has seen to it that the    *)
(* day had no row in daily_login_rewards.                                  *)
LEMMA BonusKeepsBonuses ==
  ASSUME TypesInv, BonusInv, NEW r \in Requests, FinishBonus(r)
  PROVE  BonusInv'
<1> USE CallerAssumption, LoginAssumption DEF TypesInv, BonusInv
<1> DEFINE v == Caller[r]
<1>0. PICK d : d = since[r]
  OBVIOUS
<1>1. /\ work[r] = "bonus" /\ draft[r] # NoEntry
      /\ CommitPoints(r) /\ CloseSession(r)
      /\ d \notin rewards[v]
      /\ rewards' = [rewards EXCEPT ![v] = @ \cup {d}]
      /\ work' = [work EXCEPT ![r] = "none"]
      /\ UNCHANGED <<registered, since>>
  BY <1>0 DEF FinishBonus, At, CommitPoints, Answer, RewardFree
<1>2. /\ v \in registered /\ v \in Users /\ d \in Days
      /\ draft[r].user = v /\ draft[r].about = d
  BY <1>0, <1>1 DEF DraftsAreBonuses, LoginsHaveAccounts, LoginsTypeOK
<1>3. draft'[r] = NoEntry /\ \A q \in Requests \ {r} : draft'[q] = draft[q]
  BY <1>1, CommitDropsDraft
<1>4. \A q \in Requests \ {r} : work'[q] = work[q]
  BY <1>1
<1>5. LoginsHaveAccounts' /\ DraftsAreBonuses'
  BY <1>1, <1>3, <1>4 DEF LoginsHaveAccounts, DraftsAreBonuses, LoginsTypeOK
<1>6. ASSUME NEW u \in Users, NEW s, u # v \/ s # d
      PROVE  EntriesAbout(u, s)' = EntriesAbout(u, s)
  BY <1>1, <1>2, <1>6, CommitAddsNoOther
<1>7. EntriesAbout(v, d)' = {Len(ledger[v]) + 1}
  <2>1. EntriesAbout(v, d) = {}
    BY <1>1, <1>2 DEF OneBonusPerDay
  <2>2. EntriesAbout(v, d)' = EntriesAbout(v, d) \cup {Len(ledger[v]) + 1}
    BY <1>1, <1>2, CommitAddsOne, Zenon
  <2> QED
    BY <2>1, <2>2
<1>8. OneBonusPerDay'
  <2> SUFFICES ASSUME NEW u \in Users, NEW e \in Days
               PROVE  /\ EntriesAbout(u, e)' # {} <=> (e \in rewards[u])'
                      /\ \A i, j \in EntriesAbout(u, e)' : i = j
    BY DEF OneBonusPerDay
  <2>1. (e \in rewards[u])' <=> e \in rewards[u] \/ (u = v /\ e = d)
    BY <1>1, <1>2 DEF LoginsTypeOK
  <2>2. CASE u = v /\ e = d
    BY <1>7, <2>1, <2>2
  <2>3. CASE u # v \/ e # d
    BY <1>6, <2>1, <2>3 DEF OneBonusPerDay
  <2> QED
    BY <2>2, <2>3
<1>9. WelcomedOnce'
  <2> SUFFICES ASSUME NEW u \in Users
               PROVE  /\ (u \in registered)' <=> ledger'[u] # << >>
                      /\ EntriesAbout(u, Joined)' = IF (u \in registered)' THEN {1} ELSE {}
    BY DEF WelcomedOnce
  <2>1. EntriesAbout(u, Joined)' = EntriesAbout(u, Joined)
    BY <1>2, <1>6
  <2>2. (u \in registered)' <=> ledger'[u] # << >>
    <3>1. CASE u # v
      BY <1>1, <1>2, <3>1, CommitPosted DEF WelcomedOnce
    <3>2. CASE u = v
      <4>1. Len(ledger[u]) \in Nat /\ Len(ledger'[u]) = Len(ledger[u]) + 1
        BY <1>1, <1>2, <3>2, CommitAddsOne
      <4>2. ledger'[u] # << >>
        BY <4>1
      <4> QED
        BY <1>1, <1>2, <3>2, <4>2
    <3> QED
      BY <3>1, <3>2
  <2> QED
    BY <1>1, <2>1, <2>2 DEF WelcomedOnce
<1> QED
  BY <1>5, <1>8, <1>9

(* Every step keeps the invariant. *)
LEMMA StepKeepsBonuses ==
  ASSUME TypesInv, LockInv, BonusInv, [LoginsNext]_vars
  PROVE  BonusInv'
<1> USE CallerAssumption, LoginAssumption DEF TypesInv, BonusInv, LoginsTypeOK
<1>1. ASSUME NEW r \in Requests, NEW w \in {"register", "bonus", "login"}, Begin(r, w),
             w # "register" => Caller[r] \in registered
      PROVE  BonusInv'
  <2>1. /\ draft[r] = NoEntry /\ UNCHANGED <<ledger, draft, registered, rewards>>
        /\ \A q \in Requests \ {r} : work'[q] = work[q] /\ since'[q] = since[q]
        /\ work'[r] = w
    BY <1>1 DEF Begin, At, OpenSession, DraftsAreOpen
  <2>2. LoginsHaveAccounts' /\ DraftsAreBonuses'
    BY <1>1, <2>1 DEF LoginsHaveAccounts, DraftsAreBonuses
  <2> QED
    BY <2>1, <2>2, BonusesStand
<1>2. ASSUME NEW r \in Requests, InsertUser(r) \/ GrantBonus(r)
      PROVE  BonusInv'
  <2>1. /\ UNCHANGED loginVars /\ UNCHANGED ledger
        /\ draft'[r].user = Caller[r]
        /\ \/ work[r] = "register" /\ draft'[r].about = Joined /\ Caller[r] \notin registered
           \/ work[r] = "bonus" /\ draft'[r].about = since[r]
        /\ \A q \in Requests \ {r} : draft'[q] = draft[q]
    BY <1>2 DEF InsertUser, GrantBonus, At, ApplyPoints, AddressFree, AccountsTypeOK
  <2>2. LoginsHaveAccounts' /\ DraftsAreBonuses'
    BY <2>1 DEF LoginsHaveAccounts, DraftsAreBonuses, loginVars
  <2> QED
    BY <2>1, <2>2, BonusesStand DEF loginVars
<1>3. ASSUME NEW r \in Requests,
             CloseSession(r) \/ (draft[r] = NoEntry /\ draft' = draft),
             UNCHANGED <<ledger, registered, rewards, since>>,
             \A q \in Requests \ {r} : work'[q] = work[q],
             work'[r] = "none" \/ work[r] \in {"bonus", "retry"}
      PROVE  BonusInv'
  <2>1. draft'[r] = NoEntry /\ \A q \in Requests \ {r} : draft'[q] = draft[q]
    BY <1>3, CommitDropsDraft
  <2>2. LoginsHaveAccounts' /\ DraftsAreBonuses'
    BY <1>3, <2>1 DEF LoginsHaveAccounts, DraftsAreBonuses
  <2> QED
    BY <1>3, <2>2, BonusesStand
<1>4. ASSUME NEW r \in Requests,
             DuplicateUser(r) \/ LoseRace(r) \/ FinishLogin(r)
      PROVE  BonusInv'
  BY <1>3, <1>4 DEF DuplicateUser, LoseRace, FinishLogin, EndSession, Answer, At
<1>5. ASSUME NEW r \in Requests, RetryLogin(r)
      PROVE  BonusInv'
  BY <1>3, <1>5 DEF RetryLogin, OpenSession, At
<1>6. ASSUME NEW r \in Requests, Abandon(r)
      PROVE  BonusInv'
  <2>1. CloseSession(r) \/ (draft[r] = NoEntry /\ draft' = draft)
    BY <1>6 DEF Abandon, EndSession, DraftsAreOpen, accountVars
  <2>2. UNCHANGED <<ledger, registered, rewards, since>>
    BY <1>6 DEF Abandon, EndSession, accountVars, Answer
  <2> QED
    BY <1>3, <1>6, <2>1, <2>2 DEF Abandon, Answer
<1>7. ASSUME NEW u \in Users, SetStatus(u)
      PROVE  BonusInv'
  BY <1>7, BonusesStand DEF SetStatus, accountVars, LoginsHaveAccounts, DraftsAreBonuses
<1>8. CASE Midnight \/ UNCHANGED vars
  BY <1>8, BonusesStand
  DEF Midnight, vars, loginVars, accountVars, LoginsHaveAccounts, DraftsAreBonuses
<1> QED
  BY <1>1, <1>2, <1>4, <1>5, <1>6, <1>7, <1>8, RegisterKeepsBonuses, BonusKeepsBonuses
  DEF LoginsNext, LoginStep, BeginRegister, BeginLogin

(* The bonuses are right in every behaviour; the locks are those of        *)
(* Accounts, which every behaviour of Logins is a behaviour of.            *)
LEMMA BonusInvariance == LoginsSpec => []BonusInv
<1>1. LoginsInit => BonusInv
  BY CallerAssumption
  DEF LoginsInit, AccountsInit, BonusInv, LoginsHaveAccounts, DraftsAreBonuses,
      OneBonusPerDay, WelcomedOnce, EntriesAbout
<1>2. TypesInv /\ LockInv /\ BonusInv /\ [LoginsNext]_vars => BonusInv'
  BY StepKeepsBonuses
<1>3. AccountsInv => LockInv
  BY DEF AccountsInv
<1> QED
  BY <1>1, <1>2, <1>3, LoginsInvariance, LoginsImplementAccounts, Invariance, PTL
  DEF LoginsSpec

(* One daily bonus in the ledger for each rewarded day, none for another,  *)
(* however many logins found no reward before one of them committed.       *)
THEOREM BonusOncePerDay == LoginsSpec => []OneBonusPerDay
<1>1. BonusInv => OneBonusPerDay
  BY DEF BonusInv
<1> QED
  BY <1>1, BonusInvariance, PTL

(* Exactly the registered have a ledger, it starts with the registration   *)
(* bonus, and no later line is another one.                                *)
THEOREM WelcomeOnce == LoginsSpec => []WelcomedOnce
<1>1. BonusInv => WelcomedOnce
  BY DEF BonusInv
<1> QED
  BY <1>1, BonusInvariance, PTL
=============================================================================
