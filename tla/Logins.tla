------------------------------- MODULE Logins -------------------------------
(***************************************************************************)
(* Registration and login (services/auth.py), as far as they touch points. *)
(* Both look first and write later: register_user looks for the e-mail     *)
(* address, login_user for today's reward.  Between the two other requests *)
(* commit, so what decides is the unique constraint when the rows are      *)
(* flushed.  login_user catches its failure and starts again without the   *)
(* bonus; register_user does not catch it.                                 *)
(*                                                                         *)
(*   register   the address was free: InsertUser, then CommitRegister;     *)
(*   bonus      no reward was found: GrantBonus, then FinishBonus or       *)
(*              LoseRace;                                                  *)
(*   retry      the session was rolled back after IntegrityError;          *)
(*   login      the bonus of the day is gone: FinishLogin.                 *)
(*                                                                         *)
(* A user stands for an e-mail address, registered or not.                 *)
(***************************************************************************)
EXTENDS Accounts

CONSTANTS
  MaxDay,           \* bound: days on which people log in
  Joined,           \* subject of the entry of a registration
  RegistrationBonus,
  DailyBonus

Days == 1..MaxDay

(* The entry of a daily bonus is about its day. *)
ASSUME LoginAssumption ==
  /\ MaxDay \in Nat \ {0}
  /\ Days \subseteq Subjects /\ Joined \in Subjects \ Days
  /\ RegistrationBonus \in Changes \cap Nat /\ DailyBonus \in Changes \cap Nat
  /\ \A r \in Requests : Targets[r] = {Caller[r]}

VARIABLES
  registered,       \* users whose row exists
  active,           \* users an administrator has not disabled
  rewards,          \* rewards[u]: days with a row in daily_login_rewards
  today,            \* the date in Tokyo
  work,             \* work[r]: none, register, bonus, retry or login
  since,            \* since[r]: the date login r computed
  answer            \* answer[r]: none, tokens, lost, or failed (status 500)

loginVars == <<registered, active, rewards, today, work, since, answer>>
vars == <<accountVars, loginVars>>

LoginsInit ==
  /\ AccountsInit
  /\ registered = {}
  /\ active = Users
  /\ rewards = [u \in Users |-> {}]
  /\ today = 1
  /\ work = [r \in Requests |-> "none"]
  /\ since = [r \in Requests |-> 1]
  /\ answer = [r \in Requests |-> "none"]

-----------------------------------------------------------------------------

At(r, w) == work[r] = w

Begin(r, w) ==
  /\ At(r, "none")
  /\ OpenSession(r)
  /\ work' = [work EXCEPT ![r] = w]
  /\ since' = [since EXCEPT ![r] = today]
  /\ answer' = [answer EXCEPT ![r] = "none"]
  /\ UNCHANGED <<registered, active, rewards, today>>

Answer(r, a) ==
  /\ work' = [work EXCEPT ![r] = "none"]
  /\ answer' = [answer EXCEPT ![r] = a]
  /\ UNCHANGED <<active, today, since>>

(* Lines 75-84: no row with that address is committed; the new instance is *)
(* in the session with a balance of 0.                                     *)
BeginRegister(r) ==
  /\ Caller[r] \notin registered
  /\ Begin(r, "register")

AddressFreeIgnored(u) == u \in Users
(* The unique index on users.email, once a pending INSERT is settled. *)
AddressFree(u) == u \notin registered

(* INSERT (it waits for another INSERT of the address) and apply_points.   *)
InsertUser(r) ==
  /\ At(r, "register")
  /\ AddressFree(Caller[r])
  /\ ApplyPoints(r, Caller[r], RegistrationBonus, Joined)
  /\ UNCHANGED loginVars

(* The INSERT breaks the unique constraint: nobody catches IntegrityError. *)
DuplicateUser(r) ==
  /\ At(r, "register") /\ draft[r] = NoEntry
  /\ ~AddressFree(Caller[r])
  /\ EndSession(r)
  /\ Answer(r, "failed")
  /\ UNCHANGED <<registered, rewards>>

CommitRegister(r) ==
  /\ At(r, "register")
  /\ CommitPoints(r)
  /\ registered' = registered \cup {Caller[r]}
  /\ Answer(r, "tokens")
  /\ UNCHANGED rewards

(* Lines 110-123: one snapshot shows the user and whether today's reward   *)
(* exists.                                                                 *)
BeginLogin(r) ==
  LET u == Caller[r]
  IN  /\ u \in registered \cap active
      /\ Begin(r, IF today \in rewards[u] THEN "login" ELSE "bonus")

(* apply_points: the lock of the user row serialises the bonuses. *)
GrantBonus(r) ==
  /\ At(r, "bonus")
  /\ ApplyPoints(r, Caller[r], DailyBonus, since[r])
  /\ UNCHANGED loginVars

RewardFreeIgnored(u, d) == u \in Users /\ d \in Days
(* uq_daily_reward_user_date. *)
RewardFree(u, d) == d \notin rewards[u]

(* The flush succeeds and everything commits: reward, points, token.       *)
FinishBonus(r) ==
  LET u == Caller[r]
  IN  /\ At(r, "bonus")
      /\ RewardFree(u, since[r])
      /\ CommitPoints(r)
      /\ rewards' = [rewards EXCEPT ![u] = @ \cup {since[r]}]
      /\ Answer(r, "tokens")
      /\ UNCHANGED registered

(* IntegrityError in the flush of line 141: rollback. *)
LoseRace(r) ==
  /\ At(r, "bonus") /\ draft[r] # NoEntry
  /\ ~RewardFree(Caller[r], since[r])
  /\ EndSession(r)
  /\ work' = [work EXCEPT ![r] = "retry"]
  /\ UNCHANGED <<registered, active, rewards, today, since, answer>>

RetryLoginForBonus(r) ==
  /\ At(r, "retry")
  /\ OpenSession(r)
  /\ work' = [work EXCEPT ![r] = "bonus"]
  /\ UNCHANGED <<registered, active, rewards, today, since, answer>>

(* Line 152 reads the user again, whatever its status is by now. *)
RetryLogin(r) ==
  /\ At(r, "retry")
  /\ OpenSession(r)
  /\ work' = [work EXCEPT ![r] = "login"]
  /\ UNCHANGED <<registered, active, rewards, today, since, answer>>

(* The token's INSERT, and last_login_at, wait for the lock of the row.    *)
FinishLogin(r) ==
  /\ At(r, "login")
  /\ RowFree(Caller[r])
  /\ EndSession(r)
  /\ Answer(r, "tokens")
  /\ UNCHANGED <<registered, rewards>>

(* Connection, process or lock wait is lost. *)
Abandon(r) ==
  /\ work[r] # "none"
  /\ IF IsOpen(r) THEN EndSession(r) ELSE UNCHANGED accountVars
  /\ Answer(r, "lost")
  /\ UNCHANGED <<registered, rewards>>

(* user_status. *)
SetStatus(u) ==
  /\ u \in registered
  /\ active' = IF u \in active THEN active \ {u} ELSE active \cup {u}
  /\ UNCHANGED <<accountVars, registered, rewards, today, work, since, answer>>

Midnight ==
  /\ today < MaxDay
  /\ today' = today + 1
  /\ UNCHANGED <<accountVars, registered, active, rewards, work, since, answer>>

LoginStep(r) ==
  \/ BeginRegister(r) \/ InsertUser(r) \/ DuplicateUser(r) \/ CommitRegister(r)
  \/ BeginLogin(r) \/ GrantBonus(r) \/ FinishBonus(r)
  \/ LoseRace(r) \/ RetryLogin(r) \/ FinishLogin(r)
  \/ Abandon(r)

LoginsNext ==
  \/ \E r \in Requests : LoginStep(r)
  \/ \E u \in Users : SetStatus(u)
  \/ Midnight

LoginsSpec == LoginsInit /\ [][LoginsNext]_vars

(* Row locks are granted in the order of their queue (SF); the worker      *)
(* thread runs on (WF).  Nobody has to log in, and nothing has to be lost. *)
LoginsFairness ==
  \A r \in Requests :
    /\ SF_vars(InsertUser(r) \/ GrantBonus(r) \/ FinishLogin(r))
    /\ WF_vars(DuplicateUser(r) \/ CommitRegister(r) \/ FinishBonus(r)
                 \/ LoseRace(r) \/ RetryLogin(r))

LoginsLiveSpec == LoginsSpec /\ LoginsFairness

-----------------------------------------------------------------------------
(* Properties *)

(* Types; whoever has drafted an entry is registering or logging in.       *)
LoginsTypeOK ==
  /\ registered \subseteq Users /\ active \subseteq Users
  /\ rewards \in [Users -> SUBSET Days]
  /\ today \in Days
  /\ work \in [Requests -> {"none", "register", "bonus", "retry", "login"}]
  /\ since \in [Requests -> Days]
  /\ answer \in [Requests -> {"none", "tokens", "lost", "failed"}]
  /\ \A r \in Requests : draft[r] # NoEntry => work[r] \in {"register", "bonus"}

EntriesAbout(u, s) == {i \in 1..Len(ledger[u]) : ledger[u][i].about = s}

(* A user's ledger has one daily bonus for each rewarded day and none for  *)
(* another, however many logins of a day found no reward yet, before and   *)
(* after midnight (test_register_and_daily_login_bonus_are_recorded_once). *)
OneBonusPerDay ==
  \A u \in Users, d \in Days :
    /\ EntriesAbout(u, d) # {} <=> d \in rewards[u]
    /\ \A i, j \in EntriesAbout(u, d) : i = j

(* An account starts with its registration bonus and gets it once, also    *)
(* when an address is registered in several requests at a time.            *)
WelcomedOnce ==
  \A u \in Users :
    /\ u \in registered <=> ledger[u] # << >>
    /\ EntriesAbout(u, Joined) = (IF u \in registered THEN {1} ELSE {})

(* A login past the check of the status is answered: the fallback of lines *)
(* 150-163 ends, it does not run into the same constraint again.           *)
EveryLoginAnswered == \A r \in Requests : work[r] # "none" ~> work[r] = "none"
=============================================================================
