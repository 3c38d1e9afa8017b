--------------------------- MODULE RefreshTokens ----------------------------
(***************************************************************************)
(* Refresh tokens and their families (services/auth.py).  A login starts a *)
(* family with one token; a refresh revokes the token it was sent and adds *)
(* one to the family; a refresh with a revoked token is taken for theft    *)
(* and revokes the whole family.  A refresh is several steps, each waiting *)
(* for row locks:                                                          *)
(*                                                                         *)
(*   BeginRefresh   the clock is read, before any lock (line 184);         *)
(*   LockToken      SELECT ... FOR UPDATE on the token (185-187);          *)
(*   RevokeFamily   UPDATE over the family, which waits for every locked   *)
(*                  row of it, then commit (190-193, 166-175);             *)
(*   RefuseRefresh  the token was expired when the request began, or the   *)
(*                  user is disabled; the token is revoked (194-203);      *)
(*   Rotate         the user is active: old token out, new one in, commit. *)
(*                                                                         *)
(* logout and logout-all are one locking UPDATE each.  A family bears the  *)
(* name of its first token.                                                *)
(***************************************************************************)
EXTENDS Naturals, FiniteSets

CONSTANTS
  Users,
  Requests,       \* logins and refreshes in progress at one time
  TokenIds,       \* bound: tokens that are ever issued
  NoToken,        \* replaced_by_id is NULL; a request with no token
  NoRequest,      \* a row nobody has locked
  NoUser,         \* the owner of a token that was not issued
  MayCrash        \* a request may be lost half-way

ASSUME TokenAssumption ==
  /\ NoToken \notin TokenIds /\ NoRequest \notin Requests /\ NoUser \notin Users
  /\ MayCrash \in BOOLEAN

VARIABLES
  owner,          \* owner[t]: refresh_tokens.user_id, NoUser before INSERT
  family,         \* family[t]: refresh_tokens.family_id
  revoked,        \* tokens with a revoked_at
  replacedBy,     \* replacedBy[t]: refresh_tokens.replaced_by_id
  expired,        \* tokens whose expires_at has passed
  active,         \* users with status ACTIVE
  lock,           \* lock[t]: the request that holds the row t
  phase,          \* phase[r]: idle, login, begun, locked or reuse
  token,          \* token[r]: the token r was sent
  who,            \* who[r]: the user of a login
  late,           \* requests that found their token expired at line 184
  closed          \* history: families that reuse or logout-all revoked

tokenVars == <<owner, family, revoked, replacedBy, expired, closed>>
requestVars == <<lock, phase, token, who, late>>
vars == <<tokenVars, active, requestVars>>

TokensInit ==
  /\ owner = [t \in TokenIds |-> NoUser]
  /\ family = [t \in TokenIds |-> NoToken]
  /\ revoked = {} /\ expired = {} /\ closed = {}
  /\ replacedBy = [t \in TokenIds |-> NoToken]
  /\ active = Users
  /\ lock = [t \in TokenIds |-> NoRequest]
  /\ phase = [r \in Requests |-> "idle"]
  /\ token = [r \in Requests |-> NoToken]
  /\ who = [r \in Requests |-> NoUser]
  /\ late = {}

-----------------------------------------------------------------------------

Issued == {t \in TokenIds : owner[t] # NoUser}
Family(f) == {t \in Issued : family[t] = f}
OwnedBy(u) == {t \in TokenIds : owner[t] = u}
Live(t) == t \in Issued \ revoked

FreeIgnored(r, tokens) == r \in Requests
(* A locking statement of r on these rows need not wait. *)
Free(r, tokens) == \A t \in tokens : lock[t] \in {NoRequest, r}

(* Bound: a request that may issue a token has one in reserve. *)
Issuing == {r \in Requests :
              \/ phase[r] = "login"
              \/ phase[r] \in {"begun", "locked"} /\ token[r] \notin revoked}
RoomForToken == Cardinality(Issued) + Cardinality(Issuing) < Cardinality(TokenIds)

(* issue_refresh_token: INSERT a live token into the family f of u.        *)
Issue(t, u, f) ==
  /\ t \in TokenIds \ Issued
  /\ owner' = [owner EXCEPT ![t] = u]
  /\ family' = [family EXCEPT ![t] = f]

FinishKeepingLocks(r) ==
  /\ phase' = [phase EXCEPT ![r] = "idle"]
  /\ token' = [token EXCEPT ![r] = NoToken]
  /\ who' = [who EXCEPT ![r] = NoUser]
  /\ late' = late \ {r}
  /\ UNCHANGED lock

(* The session of r is closed. *)
Finish(r) ==
  /\ lock' = [t \in TokenIds |-> IF lock[t] = r THEN NoRequest ELSE lock[t]]
  /\ phase' = [phase EXCEPT ![r] = "idle"]
  /\ token' = [token EXCEPT ![r] = NoToken]
  /\ who' = [who EXCEPT ![r] = NoUser]
  /\ late' = late \ {r}

-----------------------------------------------------------------------------
(* Login *)

(* login_user up to line 113: the account is active when it is read.       *)
BeginLogin(r, u) ==
  /\ phase[r] = "idle"
  /\ u \in active /\ RoomForToken
  /\ phase' = [phase EXCEPT ![r] = "login"]
  /\ who' = [who EXCEPT ![r] = u]
  /\ UNCHANGED <<tokenVars, active, lock, token, late>>

(* token_response with a new uuid4 as family, and commit. *)
FinishLogin(r, t) ==
  /\ phase[r] = "login"
  /\ Issue(t, who[r], t)
  /\ Finish(r)
  /\ UNCHANGED <<revoked, replacedBy, expired, active, closed>>

-----------------------------------------------------------------------------
(* Refresh *)

BeginRefresh(r, t) ==
  /\ phase[r] = "idle"
  /\ t \in Issued /\ (t \in revoked \/ RoomForToken)
  /\ phase' = [phase EXCEPT ![r] = "begun"]
  /\ token' = [token EXCEPT ![r] = t]
  /\ late' = IF t \in expired THEN late \cup {r} ELSE late
  /\ UNCHANGED <<tokenVars, active, lock, who>>

ReuseUnnoticed(t) == FALSE
(* Line 190, on the row as it is under the lock. *)
Reused(t) == t \in revoked

LockToken(r) ==
  /\ phase[r] = "begun"
  /\ Free(r, {token[r]})
  /\ lock' = [lock EXCEPT ![token[r]] = r]
  /\ phase' = [phase EXCEPT ![r] = IF Reused(token[r]) THEN "reuse" ELSE "locked"]
  /\ UNCHANGED <<tokenVars, active, token, who, late>>

RevokedOwn(tokens) == revoked \cup {t \in tokens : \E r \in Requests : token[r] = t}
RevokedNow(tokens) == revoked \cup tokens

(* revoke_refresh_family and commit: REFRESH_TOKEN_REUSED.                 *)
RevokeFamily(r) ==
  LET f == family[token[r]]
  IN  /\ phase[r] = "reuse"
      /\ Free(r, Family(f))
      /\ revoked' = RevokedNow(Family(f))
      /\ closed' = closed \cup {f}
      /\ Finish(r)
      /\ UNCHANGED <<owner, family, replacedBy, expired, active>>

(* REFRESH_TOKEN_EXPIRED, or ACCOUNT_DISABLED once the user row is locked. *)
RefuseRefresh(r) ==
  /\ phase[r] = "locked"
  /\ r \in late \/ owner[token[r]] \notin active
  /\ revoked' = RevokedNow({token[r]})
  /\ Finish(r)
  /\ UNCHANGED <<owner, family, replacedBy, expired, active, closed>>

RetiredNot(t) == revoked
Retired(t) == revoked \cup {t}

(* The user row is locked and active; lines 205-208 and the commit.        *)
Rotate(r, new) ==
  LET old == token[r]
  IN  /\ phase[r] = "locked" /\ r \notin late
      /\ owner[old] \in active
      /\ Issue(new, owner[old], family[old])
      /\ revoked' = Retired(old)
      /\ replacedBy' = [replacedBy EXCEPT ![old] = new]
      /\ Finish(r)
      /\ UNCHANGED <<expired, active, closed>>

(* Two refreshes with revoked tokens of one family wait for each other in  *)
(* RevokeFamily; InnoDB rolls one of them back, which answers 500.         *)
WaitsFor(r, q) ==
  /\ phase[r] = "reuse" /\ phase[q] = "reuse" /\ r # q
  /\ family[token[r]] = family[token[q]]

DeadlockVictim(r) ==
  /\ \E q \in Requests : WaitsFor(r, q)
  /\ Finish(r)
  /\ UNCHANGED <<tokenVars, active>>

(* The request is lost before its commit: nothing of it remains.           *)
Crash(r) ==
  /\ MayCrash
  /\ phase[r] # "idle"
  /\ Finish(r)
  /\ UNCHANGED <<tokenVars, active>>

-----------------------------------------------------------------------------
(* Logout, administrators, time *)

(* revoke_refresh_token of one's own token (get_current_user: active).     *)
Logout(t) ==
  /\ Live(t) /\ owner[t] \in active
  /\ lock[t] = NoRequest
  /\ revoked' = RevokedNow({t})
  /\ UNCHANGED <<owner, family, replacedBy, expired, closed, active, requestVars>>

SweepFreeIgnored(u) == u \in Users
SweepFree(u) == \A t \in OwnedBy(u) : lock[t] = NoRequest

(* revoke_all_refresh_tokens: one UPDATE over every token of the user.     *)
LogoutAll(u) ==
  /\ u \in active
  /\ SweepFree(u)
  /\ revoked' = RevokedNow(OwnedBy(u))
  /\ closed' = closed \cup {family[t] : t \in OwnedBy(u)}
  /\ UNCHANGED <<owner, family, replacedBy, expired, active, requestVars>>

(* user_status by an administrator: tokens are left as they are.           *)
SetStatus(u) ==
  /\ active' = IF u \in active THEN active \ {u} ELSE active \cup {u}
  /\ UNCHANGED <<tokenVars, requestVars>>

Expire(t) ==
  /\ t \in Issued \ expired
  /\ expired' = expired \cup {t}
  /\ UNCHANGED <<owner, family, revoked, replacedBy, closed, active, requestVars>>

LoginStep(r) ==
  \/ \E u \in Users : BeginLogin(r, u)
  \/ \E t \in TokenIds : FinishLogin(r, t)

RefreshStep(r) ==
  \/ \E t \in TokenIds : BeginRefresh(r, t)
  \/ LockToken(r)
  \/ RevokeFamily(r)
  \/ RefuseRefresh(r)
  \/ \E t \in TokenIds : Rotate(r, t)
  \/ DeadlockVictim(r)

TokensNext ==
  \/ \E r \in Requests : LoginStep(r) \/ RefreshStep(r) \/ Crash(r)
  \/ \E t \in TokenIds : Logout(t) \/ Expire(t)
  \/ \E u \in Users : LogoutAll(u) \/ SetStatus(u)

TokensSpec == TokensInit /\ [][TokensNext]_vars

-----------------------------------------------------------------------------
(* Properties *)

(* Types; a request past LockToken holds its token, and only such requests *)
(* hold one.                                                               *)
TokensTypeOK ==
  /\ owner \in [TokenIds -> Users \cup {NoUser}]
  /\ family \in [TokenIds -> TokenIds \cup {NoToken}]
  /\ revoked \subseteq Issued /\ expired \subseteq Issued /\ closed \subseteq Issued
  /\ replacedBy \in [TokenIds -> TokenIds \cup {NoToken}]
  /\ active \subseteq Users
  /\ lock \in [TokenIds -> Requests \cup {NoRequest}]
  /\ phase \in [Requests -> {"idle", "login", "begun", "locked", "reuse"}]
  /\ token \in [Requests -> TokenIds \cup {NoToken}]
  /\ who \in [Requests -> Users \cup {NoUser}]
  /\ late \subseteq Requests
  /\ \A r \in Requests, t \in TokenIds :
       lock[t] = r <=> (phase[r] \in {"locked", "reuse"} /\ token[r] = t)

(* A family has at most one live token, however many refreshes with its    *)
(* tokens run at a time: a stolen token and its original cannot both work. *)
AtMostOneLive ==
  \A s, t \in TokenIds : (Live(s) /\ Live(t) /\ family[s] = family[t]) => s = t

(* A family that reuse detection or logout-all revoked has no live token   *)
(* ever after: no refresh that was under way brings it back.               *)
ClosedStaysClosed == \A t \in TokenIds : Live(t) => family[t] \notin closed

(* The tokens of a family form one chain of replacements: a live token has *)
(* no successor, a successor is a token of the same family and user, and   *)
(* every token but the first is the successor of exactly one other.        *)
ReplacementChain ==
  /\ \A s \in Issued :
       LET n == replacedBy[s]
       IN  n # NoToken =>
             s \in revoked /\ n \in Family(family[s]) /\ owner[n] = owner[s]
  /\ \A t \in Issued :
       Cardinality({s \in Issued : replacedBy[s] = t}) = IF t = family[t] THEN 0 ELSE 1

(* A family without a live token never gets one again: the chain can only  *)
(* be continued from its live end.                                         *)
FamilyDead(f) == \A t \in Family(f) : ~Live(t)
DeadStaysDead ==
  [][\A f \in Issued : FamilyDead(f) => FamilyDead(f)']_vars

(* Detected reuse is not lost: although two such requests can deadlock and *)
(* one of them is rolled back, the family ends without a live token (the   *)
(* fairness is the one of WebClient).                                      *)
ReuseEndsFamily ==
  \A f \in TokenIds :
    (\E r \in Requests : phase[r] = "reuse" /\ family[token[r]] = f) ~> FamilyDead(f)
=============================================================================
