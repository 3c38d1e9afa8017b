------------------------- MODULE RefreshTokensProofs ------------------------
(***************************************************************************)
(* Theorems about RefreshTokens, for every number of users, tokens and     *)
(* concurrent requests: a family has at most one live token, once it has   *)
(* none it never has one again, and its tokens form one chain.  Then those *)
(* about WebClient, for every number of tabs and calls: it implements      *)
(* RefreshTokens, so that all of this holds of it, and the browser does    *)
(* not lose the live token by itself.                                      *)
(***************************************************************************)
EXTENDS WebClient, FiniteSetTheorems, TLAPS

(* A family bears the name of its first token, and has one owner. *)
FamiliesAreRooted ==
  \A t \in Issued : family[t] \in Issued /\ owner[family[t]] = owner[t]

(* A refresh works on a token that was issued, a login for a user. *)
RequestsAreSound ==
  \A r \in Requests :
    /\ phase[r] \in {"begun", "locked", "reuse"} => token[r] \in Issued
    /\ phase[r] = "login" => who[r] \in Users

(* A token found live under its lock is live until the lock goes: this is  *)
(* what SELECT ... FOR UPDATE is there for.                                *)
LockedIsLive == \A r \in Requests : phase[r] = "locked" => Live(token[r])

(* The inductive invariant. *)
TokensInv ==
  /\ TokensTypeOK /\ FamiliesAreRooted /\ RequestsAreSound
  /\ LockedIsLive /\ AtMostOneLive /\ ClosedStaysClosed

(* The part of TokensTypeOK that is about requests. *)
RequestTypes ==
  /\ lock \in [TokenIds -> Requests \cup {NoRequest}]
  /\ phase \in [Requests -> {"idle", "login", "begun", "locked", "reuse"}]
  /\ token \in [Requests -> TokenIds \cup {NoToken}]
  /\ who \in [Requests -> Users \cup {NoUser}]
  /\ late \subseteq Requests
  /\ \A r \in Requests, t \in TokenIds :
       lock[t] = r <=> (phase[r] \in {"locked", "reuse"} /\ token[r] = t)

(* What an action that issues nothing may do to the tokens: revoke some,   *)
(* and close families all of whose tokens it revokes.                      *)
RevokesOnly ==
  /\ UNCHANGED <<owner, family, replacedBy>>
  /\ active' \subseteq Users /\ expired' \subseteq Issued
  /\ revoked \subseteq revoked' /\ revoked' \subseteq Issued
  /\ closed \subseteq closed' /\ closed' \subseteq Issued
  /\ \A t \in Issued \ revoked' : family[t] \notin closed' \ closed

(* In the initial states nothing is issued. *)
LEMMA TokensInitInv == TokensInit => TokensInv
<1> SUFFICES ASSUME TokensInit PROVE TokensInv
  OBVIOUS
<1>1. Issued = {}
  BY DEF TokensInit, Issued
<1>2. TokensTypeOK
  BY <1>1, TokenAssumption DEF TokensInit, TokensTypeOK
<1> QED
  BY <1>1, <1>2
  DEF TokensInit, TokensInv, FamiliesAreRooted, RequestsAreSound, LockedIsLive,
      AtMostOneLive, ClosedStaysClosed, Live

-----------------------------------------------------------------------------
(* Requests and their locks *)

(* A request that finishes leaves the others and their locks alone. *)
LEMMA FinishKeepsRequests ==
  ASSUME TokensTypeOK, NEW r \in Requests, Finish(r)
  PROVE  /\ RequestTypes'
         /\ phase'[r] = "idle"
         /\ \A q \in Requests \ {r} :
              phase'[q] = phase[q] /\ token'[q] = token[q] /\ who'[q] = who[q]
<1>1. /\ phase'[r] = "idle"
      /\ \A q \in Requests \ {r} :
           phase'[q] = phase[q] /\ token'[q] = token[q] /\ who'[q] = who[q]
  BY DEF Finish, TokensTypeOK
<1>2. \A q \in Requests, t \in TokenIds : lock'[t] = q <=> (q # r /\ lock[t] = q)
  BY TokenAssumption DEF Finish
<1>3. \A q \in Requests, t \in TokenIds :
        lock'[t] = q <=> (phase'[q] \in {"locked", "reuse"} /\ token'[q] = t)
  BY <1>1, <1>2 DEF TokensTypeOK
<1> QED
  BY <1>1, <1>3 DEF Finish, TokensTypeOK, RequestTypes

(* A token that one request has found live under its lock is none of those *)
(* that a statement of another may take.                                   *)
LEMMA LocksExclude ==
  ASSUME TokensTypeOK, RequestsAreSound, NEW r, NEW q \in Requests, r # q,
         phase[q] = "locked", NEW T, Free(r, T)
  PROVE  token[q] \notin T
<1>1. token[q] \in TokenIds
  BY DEF RequestsAreSound, Issued
<1>2. lock[token[q]] = q
  BY <1>1 DEF TokensTypeOK
<1> QED
  BY <1>2, TokenAssumption DEF Free

-----------------------------------------------------------------------------
(* What keeps the invariant *)

(* Revoking keeps it, if no request believes a revoked token to be live.   *)
LEMMA RevokingKeepsInv ==
  ASSUME TokensInv, RevokesOnly, RequestTypes',
         \A r \in Requests :
           /\ phase'[r] \in {"begun", "locked", "reuse"} => token'[r] \in Issued
           /\ phase'[r] = "login" => who'[r] \in Users
           /\ phase'[r] = "locked" => token'[r] \notin revoked'
  PROVE  TokensInv'
<1>1. Issued' = Issued /\ UNCHANGED <<owner, family>>
  BY DEF RevokesOnly, Issued
<1>2. TokensTypeOK'
  BY <1>1 DEF RevokesOnly, RequestTypes, TokensInv, TokensTypeOK
<1>3. FamiliesAreRooted'
  BY <1>1 DEF TokensInv, FamiliesAreRooted
<1>4. RequestsAreSound' /\ LockedIsLive'
  BY <1>1 DEF RequestsAreSound, LockedIsLive, Live
<1>5. AtMostOneLive'
  BY <1>1 DEF TokensInv, AtMostOneLive, RevokesOnly, Live
<1>6. ClosedStaysClosed'
  BY <1>1 DEF TokensInv, ClosedStaysClosed, RevokesOnly, Live
<1> QED
  BY <1>2, <1>3, <1>4, <1>5, <1>6 DEF TokensInv

(* Issuing keeps it, if the family is new, or live until now and its live  *)
(* token is revoked in the same step.                                      *)
LEMMA IssuingKeepsInv ==
  ASSUME TokensInv, NEW r \in Requests, Finish(r), NEW t \in TokenIds, NEW u \in Users,
         NEW f \in TokenIds, Issue(t, u, f),
         replacedBy' \in [TokenIds -> TokenIds \cup {NoToken}],
         UNCHANGED <<expired, active, closed>>,
         \/ f = t /\ revoked' = revoked
         \/ \E old \in Issued : /\ Live(old) /\ family[old] = f /\ owner[old] = u
                                /\ revoked' = revoked \cup {old}
                                /\ phase[r] = "locked" /\ token[r] = old
  PROVE  TokensInv'
<1>1. /\ t \notin Issued /\ Issued' = Issued \cup {t}
      /\ owner'[t] = u /\ family'[t] = f
      /\ \A s \in Issued : owner'[s] = owner[s] /\ family'[s] = family[s]
      /\ owner' \in [TokenIds -> Users \cup {NoUser}]
      /\ family' \in [TokenIds -> TokenIds \cup {NoToken}]
  BY TokenAssumption DEF Issue, Issued, TokensInv, TokensTypeOK
<1>2. revoked' \subseteq Issued /\ revoked \subseteq revoked' /\ closed \subseteq Issued
  BY DEF TokensInv, TokensTypeOK
<1>3. /\ RequestTypes' /\ phase'[r] = "idle"
      /\ \A q \in Requests \ {r} :
           phase'[q] = phase[q] /\ token'[q] = token[q] /\ who'[q] = who[q]
  BY FinishKeepsRequests DEF TokensInv
<1>4. TokensTypeOK'
  BY <1>1, <1>2, <1>3 DEF TokensInv, TokensTypeOK, RequestTypes
<1>5. f = t \/ (f \in Issued /\ owner[f] = u)
  BY DEF TokensInv, FamiliesAreRooted
<1>6. FamiliesAreRooted'
  <2>1. ASSUME NEW s \in Issued
        PROVE  family'[s] \in Issued' /\ owner'[family'[s]] = owner'[s]
    <3>1. family[s] \in Issued /\ owner[family[s]] = owner[s]
      BY DEF TokensInv, FamiliesAreRooted
    <3> QED
      BY <1>1, <3>1
  <2>2. f \in Issued' /\ owner'[f] = u
    BY <1>1, <1>5
  <2> QED
    BY <1>1, <2>1, <2>2 DEF FamiliesAreRooted
<1>7. RequestsAreSound'
  BY <1>1, <1>3 DEF TokensInv, RequestsAreSound
<1>8. LockedIsLive'
  <2> SUFFICES ASSUME NEW q \in Requests \ {r}, phase[q] = "locked"
               PROVE  token[q] \in Issued \ revoked'
    BY <1>1, <1>3 DEF LockedIsLive, Live
  <2>1. token[q] \in Issued \ revoked
    BY DEF TokensInv, LockedIsLive, Live
  <2>2. \A old \in Issued : phase[r] = "locked" /\ token[r] = old => token[q] # old
    BY DEF TokensInv, TokensTypeOK, Issued
  <2> QED
    BY <2>1, <2>2
<1>9. \A s \in Issued : family[s] = f => s \in revoked'
  <2>1. CASE f = t
    BY <1>1, <2>1 DEF TokensInv, FamiliesAreRooted
  <2>2. CASE f # t
    BY <2>2 DEF TokensInv, AtMostOneLive, Live, Issued
  <2> QED
    BY <2>1, <2>2
<1>10. AtMostOneLive'
  <2>1. \A s \in Issued' \ revoked' : s = t \/ (s \in Issued \ revoked /\ family[s] # f)
    BY <1>1, <1>2, <1>9
  <2>2. \A a, b \in Issued' \ revoked' : family'[a] = family'[b] => a = b
    BY <1>1, <2>1 DEF TokensInv, AtMostOneLive, Live, Issued
  <2> QED
    BY <2>2 DEF AtMostOneLive, Live
<1>11. ClosedStaysClosed'
  <2>1. f \notin closed
    BY <1>1, <1>2 DEF TokensInv, ClosedStaysClosed, Issued
  <2> QED
    BY <1>1, <1>2, <2>1 DEF TokensInv, ClosedStaysClosed, Live
<1> QED
  BY <1>4, <1>6, <1>7, <1>8, <1>10, <1>11 DEF TokensInv

(* Actions that do not touch the tokens keep the invariant if requests     *)
(* stay sound.                                                             *)
LEMMA QuietKeepsInv ==
  ASSUME TokensInv, UNCHANGED <<owner, family, revoked, replacedBy, closed>>,
         active' \subseteq Users, expired' \subseteq Issued, RequestTypes',
         \A r \in Requests :
           /\ phase'[r] \in {"begun", "locked", "reuse"} => token'[r] \in Issued
           /\ phase'[r] = "login" => who'[r] \in Users
           /\ phase'[r] = "locked" => token'[r] \notin revoked
  PROVE  TokensInv'
<1>1. RevokesOnly
  BY DEF RevokesOnly, TokensInv, TokensTypeOK
<1> QED
  BY <1>1, RevokingKeepsInv

(* A login or a refresh begins: it locks nothing yet. *)
LEMMA BeginKeepsInv ==
  ASSUME TokensInv, NEW r \in Requests,
         \/ \E u \in Users : BeginLogin(r, u)
         \/ \E t \in TokenIds : BeginRefresh(r, t)
  PROVE  TokensInv'
<1>1. /\ phase[r] = "idle" /\ UNCHANGED <<tokenVars, active, lock>>
      /\ \/ /\ phase' = [phase EXCEPT ![r] = "login"]
            /\ token' = token /\ \E u \in Users : who' = [who EXCEPT ![r] = u]
         \/ /\ phase' = [phase EXCEPT ![r] = "begun"]
            /\ who' = who /\ \E t \in Issued : token' = [token EXCEPT ![r] = t]
      /\ late' \subseteq Requests
  BY DEF BeginLogin, BeginRefresh, TokensInv, TokensTypeOK
<1>2. RequestTypes'
  BY <1>1 DEF TokensInv, TokensTypeOK, RequestTypes, Issued
<1>3. \A q \in Requests :
        /\ phase'[q] \in {"begun", "locked", "reuse"} => token'[q] \in Issued
        /\ phase'[q] = "login" => who'[q] \in Users
        /\ phase'[q] = "locked" => token'[q] \notin revoked
  BY <1>1 DEF TokensInv, TokensTypeOK, RequestsAreSound, LockedIsLive, Live
<1> QED
  BY <1>1, <1>2, <1>3, QuietKeepsInv DEF tokenVars, TokensInv, TokensTypeOK

(* The row is locked first and looked at then. *)
LEMMA LockKeepsInv ==
  ASSUME TokensInv, NEW r \in Requests, LockToken(r)
  PROVE  TokensInv'
<1>1. /\ phase[r] = "begun" /\ lock[token[r]] \in {NoRequest, r}
      /\ lock' = [lock EXCEPT ![token[r]] = r]
      /\ phase' = [phase EXCEPT ![r] = IF token[r] \in revoked THEN "reuse" ELSE "locked"]
      /\ UNCHANGED <<tokenVars, active, token, who, late>>
  BY DEF LockToken, Free, Reused
<1>2. token[r] \in Issued /\ token[r] \in TokenIds
  BY <1>1 DEF TokensInv, RequestsAreSound, Issued
<1>3. \A q \in Requests, t \in TokenIds :
        lock'[t] = q <=> (phase'[q] \in {"locked", "reuse"} /\ token'[q] = t)
  BY <1>1, <1>2, TokenAssumption DEF TokensInv, TokensTypeOK
<1>4. RequestTypes'
  BY <1>1, <1>3 DEF TokensInv, TokensTypeOK, RequestTypes
<1>5. \A q \in Requests :
        /\ phase'[q] \in {"begun", "locked", "reuse"} => token'[q] \in Issued
        /\ phase'[q] = "login" => who'[q] \in Users
        /\ phase'[q] = "locked" => token'[q] \notin revoked
  BY <1>1, <1>2 DEF TokensInv, TokensTypeOK, RequestsAreSound, LockedIsLive, Live
<1> QED
  BY <1>1, <1>4, <1>5, QuietKeepsInv DEF tokenVars, TokensInv, TokensTypeOK

(* A request that is rolled back, or lost. *)
LEMMA LossKeepsInv ==
  ASSUME TokensInv, NEW r \in Requests, DeadlockVictim(r) \/ Crash(r)
  PROVE  TokensInv'
<1>1. Finish(r) /\ UNCHANGED <<tokenVars, active>>
  BY DEF DeadlockVictim, Crash
<1>2. /\ RequestTypes' /\ phase'[r] = "idle"
      /\ \A q \in Requests \ {r} :
           phase'[q] = phase[q] /\ token'[q] = token[q] /\ who'[q] = who[q]
  BY <1>1, FinishKeepsRequests DEF TokensInv
<1>3. \A q \in Requests :
        /\ phase'[q] \in {"begun", "locked", "reuse"} => token'[q] \in Issued
        /\ phase'[q] = "login" => who'[q] \in Users
        /\ phase'[q] = "locked" => token'[q] \notin revoked
  BY <1>2 DEF TokensInv, RequestsAreSound, LockedIsLive, Live
<1> QED
  BY <1>1, <1>2, <1>3, QuietKeepsInv DEF tokenVars, TokensInv, TokensTypeOK

(* A refresh that revokes its family, or its token, takes no token that    *)
(* another refresh has found live: that one has it locked.                 *)
LEMMA RefusalKeepsInv ==
  ASSUME TokensInv, NEW r \in Requests, RevokeFamily(r) \/ RefuseRefresh(r)
  PROVE  TokensInv'
<1>1. /\ token[r] \in Issued /\ token[r] \in TokenIds /\ lock[token[r]] = r
      /\ phase[r] \in {"locked", "reuse"}
  BY DEF RevokeFamily, RefuseRefresh, TokensInv, RequestsAreSound, TokensTypeOK, Issued
<1>2. PICK T \in SUBSET Issued : revoked' = revoked \cup T /\ Free(r, T)
  <2>1. Free(r, {token[r]}) /\ {token[r]} \in SUBSET Issued
    BY <1>1 DEF Free
  <2>2. Family(family[token[r]]) \in SUBSET Issued
    BY DEF Family
  <2> QED
    BY <2>1, <2>2 DEF RevokeFamily, RefuseRefresh, RevokedNow
<1>3. RevokesOnly
  <2>1. family[token[r]] \in Issued
    BY <1>1 DEF TokensInv, FamiliesAreRooted
  <2> QED
    BY <1>2, <2>1
    DEF RevokesOnly, RevokeFamily, RefuseRefresh, RevokedNow, Family, TokensInv, TokensTypeOK
<1>4. /\ RequestTypes' /\ phase'[r] = "idle"
      /\ \A q \in Requests \ {r} :
           phase'[q] = phase[q] /\ token'[q] = token[q] /\ who'[q] = who[q]
  BY FinishKeepsRequests DEF TokensInv, RevokeFamily, RefuseRefresh
<1>5. \A q \in Requests :
        /\ phase'[q] \in {"begun", "locked", "reuse"} => token'[q] \in Issued
        /\ phase'[q] = "login" => who'[q] \in Users
  BY <1>4 DEF TokensInv, RequestsAreSound
<1>6. \A q \in Requests : phase'[q] = "locked" => token'[q] \notin revoked'
  BY <1>2, <1>4, LocksExclude DEF TokensInv, LockedIsLive, Live
<1> QED
  BY <1>3, <1>4, <1>5, <1>6, RevokingKeepsInv

(* logout and logout-all wait for every row they revoke, so no refresh     *)
(* still believes one of them to be live.                                  *)
LEMMA LogoutKeepsInv ==
  ASSUME TokensInv,
         \/ \E t \in TokenIds : Logout(t)
         \/ \E u \in Users : LogoutAll(u)
  PROVE  TokensInv'
<1>1. PICK T \in SUBSET Issued :
        /\ revoked' = revoked \cup T /\ \A t \in T : lock[t] = NoRequest
        /\ closed \subseteq closed' /\ closed' \subseteq Issued
        /\ \A t \in Issued \ T : family[t] \notin closed' \ closed
  <2>1. ASSUME NEW t \in TokenIds, Logout(t)
        PROVE  {t} \in SUBSET Issued /\ closed' = closed /\ revoked' = revoked \cup {t}
               /\ lock[t] = NoRequest
    BY <2>1 DEF Logout, RevokedNow, Live
  <2>2. ASSUME NEW u \in Users, LogoutAll(u)
        PROVE  /\ OwnedBy(u) \in SUBSET Issued /\ revoked' = revoked \cup OwnedBy(u)
               /\ \A t \in OwnedBy(u) : lock[t] = NoRequest
               /\ closed \subseteq closed' /\ closed' \subseteq Issued
               /\ \A t \in Issued \ OwnedBy(u) : family[t] \notin closed' \ closed
    <3>1. OwnedBy(u) \in SUBSET Issued
      BY TokenAssumption DEF OwnedBy, Issued
    <3>2. \A t \in OwnedBy(u) : family[t] \in Issued /\ owner[family[t]] = u
      BY <3>1 DEF TokensInv, FamiliesAreRooted, OwnedBy
    <3>3. \A t \in Issued \ OwnedBy(u) : owner[family[t]] # u
      BY DEF TokensInv, FamiliesAreRooted, OwnedBy, Issued
    <3>4. closed' = closed \cup {family[t] : t \in OwnedBy(u)}
      BY <2>2 DEF LogoutAll
    <3> QED
      BY <2>2, <3>1, <3>2, <3>3, <3>4
      DEF LogoutAll, RevokedNow, SweepFree, TokensInv, TokensTypeOK
  <2>3. closed \subseteq Issued
    BY DEF TokensInv, TokensTypeOK
  <2>4. CASE \E t \in TokenIds : Logout(t)
    BY <2>1, <2>3, <2>4
  <2>5. CASE \E u \in Users : LogoutAll(u)
    BY <2>2, <2>5
  <2> QED
    BY <2>4, <2>5
<1>2. UNCHANGED <<owner, family, replacedBy, expired, active, requestVars>>
  BY DEF Logout, LogoutAll
<1>3. RevokesOnly
  BY <1>1, <1>2 DEF RevokesOnly, TokensInv, TokensTypeOK
<1>4. RequestTypes'
  BY <1>2 DEF requestVars, RequestTypes, TokensInv, TokensTypeOK
<1>5. ASSUME NEW q \in Requests, phase[q] = "locked"
      PROVE  token[q] \notin revoked'
  <2>1. token[q] \in Issued \ revoked
    BY <1>5 DEF TokensInv, LockedIsLive, Live
  <2>2. lock[token[q]] = q
    BY <1>5, <2>1 DEF TokensInv, TokensTypeOK, Issued
  <2> QED
    BY <1>1, <2>1, <2>2, TokenAssumption
<1>6. \A q \in Requests :
        /\ phase'[q] \in {"begun", "locked", "reuse"} => token'[q] \in Issued
        /\ phase'[q] = "login" => who'[q] \in Users
        /\ phase'[q] = "locked" => token'[q] \notin revoked'
  BY <1>2, <1>5 DEF requestVars, TokensInv, RequestsAreSound
<1> QED
  BY <1>3, <1>4, <1>6, RevokingKeepsInv

(* Time and administrators change no token. *)
LEMMA RestKeepsInv ==
  ASSUME TokensInv,
         \/ \E t \in TokenIds : Expire(t)
         \/ \E u \in Users : SetStatus(u)
         \/ UNCHANGED vars
  PROVE  TokensInv'
<1>1. /\ UNCHANGED <<owner, family, revoked, replacedBy, closed, requestVars>>
      /\ active' \subseteq Users /\ expired' \subseteq Issued
  BY DEF Expire, SetStatus, vars, tokenVars, TokensInv, TokensTypeOK
<1>2. RequestTypes'
  BY <1>1 DEF requestVars, RequestTypes, TokensInv, TokensTypeOK
<1>3. \A q \in Requests :
        /\ phase'[q] \in {"begun", "locked", "reuse"} => token'[q] \in Issued
        /\ phase'[q] = "login" => who'[q] \in Users
        /\ phase'[q] = "locked" => token'[q] \notin revoked
  BY <1>1 DEF requestVars, TokensInv, RequestsAreSound, LockedIsLive, Live
<1> QED
  BY <1>1, <1>2, <1>3, QuietKeepsInv

(* A login starts a new family; a refresh carries its own on. *)
LEMMA IssueKeepsInv ==
  ASSUME TokensInv, NEW r \in Requests, NEW t \in TokenIds,
         FinishLogin(r, t) \/ Rotate(r, t)
  PROVE  TokensInv'
<1>1. CASE FinishLogin(r, t)
  <2>1. who[r] \in Users
    BY <1>1 DEF FinishLogin, TokensInv, RequestsAreSound
  <2>2. /\ Issue(t, who[r], t) /\ Finish(r)
        /\ UNCHANGED <<revoked, replacedBy, expired, active, closed>>
    BY <1>1 DEF FinishLogin
  <2> QED
    BY <2>1, <2>2, IssuingKeepsInv DEF TokensInv, TokensTypeOK
<1>2. CASE Rotate(r, t)
  <2> DEFINE old == token[r]
  <2>1. /\ phase[r] = "locked" /\ owner[old] \in active
        /\ Issue(t, owner[old], family[old]) /\ Finish(r)
        /\ revoked' = revoked \cup {old}
        /\ replacedBy' = [replacedBy EXCEPT ![old] = t]
        /\ UNCHANGED <<expired, active, closed>>
    BY <1>2 DEF Rotate, Retired
  <2>2. Live(old) /\ old \in Issued
    BY <2>1 DEF TokensInv, LockedIsLive, Live
  <2>3. family[old] \in TokenIds
    BY <2>2 DEF TokensInv, FamiliesAreRooted, Issued
  <2>4. owner[old] \in Users
    BY <2>1 DEF TokensInv, TokensTypeOK
  <2>5. replacedBy' \in [TokenIds -> TokenIds \cup {NoToken}]
    BY <2>1 DEF TokensInv, TokensTypeOK
  <2> QED
    BY <2>1, <2>2, <2>3, <2>4, <2>5, IssuingKeepsInv
<1> QED
  BY <1>1, <1>2

(* Every step keeps the invariant. *)
LEMMA TokensStepInv ==
  ASSUME TokensInv, [TokensNext]_vars
  PROVE  TokensInv'
BY BeginKeepsInv, LockKeepsInv, LossKeepsInv, RefusalKeepsInv, LogoutKeepsInv,
   RestKeepsInv, IssueKeepsInv
DEF TokensNext, LoginStep, RefreshStep

(* The invariant holds in every behaviour. *)
LEMMA TokensInvariance == TokensSpec => []TokensInv
<1>1. TokensInit => TokensInv
  BY TokensInitInv
<1>2. TokensInv /\ [TokensNext]_vars => TokensInv'
  BY TokensStepInv
<1> QED
  BY <1>1, <1>2, PTL DEF TokensSpec

-----------------------------------------------------------------------------
(* Theorems *)

(* Types, and who holds a row lock is a refresh between its two halves.    *)
THEOREM TokensTypeCorrect == TokensSpec => []TokensTypeOK
<1>1. TokensInv => TokensTypeOK
  BY DEF TokensInv
<1> QED
  BY <1>1, TokensInvariance, PTL

(* However many refreshes with tokens of a family race each other and the  *)
(* logouts, the family has at most one live token.                         *)
THEOREM OneLiveTokenPerFamily == TokensSpec => []AtMostOneLive
<1>1. TokensInv => AtMostOneLive
  BY DEF TokensInv
<1> QED
  BY <1>1, TokensInvariance, PTL

(* What reuse detection or logout-all revoked stays revoked.               *)
THEOREM ClosedFamiliesStayClosed == TokensSpec => []ClosedStaysClosed
<1>1. TokensInv => ClosedStaysClosed
  BY DEF TokensInv
<1> QED
  BY <1>1, TokensInvariance, PTL

(* A step makes a token live only in a new family or in one that is live. *)
LEMMA StepLeavesDead ==
  ASSUME TokensInv, [TokensNext]_vars, NEW f \in Issued, FamilyDead(f)
  PROVE  FamilyDead(f)'
<1>1. ASSUME UNCHANGED <<owner, family>>, revoked \subseteq revoked'
      PROVE  FamilyDead(f)'
  BY <1>1 DEF FamilyDead, Family, Live, Issued
<1>2. ASSUME NEW r \in Requests, NEW t \in TokenIds, FinishLogin(r, t) \/ Rotate(r, t)
      PROVE  FamilyDead(f)'
  <2>1. PICK g : family' = [family EXCEPT ![t] = g] /\ t \notin Issued /\ g # f
    <3>1. CASE FinishLogin(r, t)
      BY <3>1 DEF FinishLogin, Issue
    <3>2. CASE Rotate(r, t)
      <4>1. Live(token[r]) /\ Issue(t, owner[token[r]], family[token[r]])
        BY <3>2 DEF Rotate, TokensInv, LockedIsLive
      <4>2. family[token[r]] # f
        BY <4>1 DEF FamilyDead, Family, Live
      <4> QED
        BY <4>1, <4>2 DEF Issue
    <3> QED
      BY <1>2, <3>1, <3>2
  <2>2. /\ \A s \in TokenIds \ {t} : owner'[s] = owner[s] /\ family'[s] = family[s]
        /\ family'[t] # f /\ revoked \subseteq revoked'
    BY <1>2, <2>1
    DEF FinishLogin, Rotate, Issue, Retired, TokensInv, TokensTypeOK
  <2> QED
    BY <2>2 DEF FamilyDead, Family, Live, Issued
<1> QED
  BY <1>1, <1>2
  DEF TokensNext, LoginStep, RefreshStep, BeginLogin, BeginRefresh, LockToken,
      RevokeFamily, RefuseRefresh, DeadlockVictim, Crash, Logout, LogoutAll,
      SetStatus, Expire, RevokedNow, vars, tokenVars

(* A family without a live token never has one again. *)
THEOREM DeadFamiliesStayDead == TokensSpec => DeadStaysDead
<1>1. TokensInv /\ [TokensNext]_vars
        => [\A f \in Issued : FamilyDead(f) => FamilyDead(f)']_vars
  BY StepLeavesDead
<1> QED
  BY <1>1, TokensInvariance, PTL DEF TokensSpec, DeadStaysDead

-----------------------------------------------------------------------------
(* The chain of replacements *)

(* The newest token of a family: nothing has replaced it. *)
End(t) == t \in Issued /\ replacedBy[t] = NoToken

(* A successor is a token of the same family and owner, and not the first. *)
LinksAreSound ==
  \A s \in TokenIds : replacedBy[s] # NoToken =>
    /\ s \in revoked /\ replacedBy[s] \in Family(family[s])
    /\ owner[replacedBy[s]] = owner[s] /\ replacedBy[s] # family[s]

(* No token has two predecessors, and only the first has none. *)
LinksAreChained ==
  /\ \A s, t \in TokenIds : (replacedBy[s] = replacedBy[t] /\ replacedBy[s] # NoToken) => s = t
  /\ \A t \in Issued : t = family[t] \/ \E s \in Issued : replacedBy[s] = t

(* A family has one end. *)
OneEnd ==
  \A s, t \in TokenIds : (End(s) /\ End(t) /\ family[s] = family[t]) => s = t

ChainInv == LinksAreSound /\ LinksAreChained /\ OneEnd

(* A live token is the end of its family. *)
LEMMA LiveIsEnd ==
  ASSUME LinksAreSound, NEW t \in TokenIds, Live(t)
  PROVE  End(t)
BY DEF LinksAreSound, Live, End, Issued

(* Revoking leaves the chains as they are. *)
LEMMA RevokingKeepsChain ==
  ASSUME ChainInv, UNCHANGED <<owner, family, replacedBy>>, revoked \subseteq revoked'
  PROVE  ChainInv'
<1>1. Issued' = Issued /\ \A f \in TokenIds : Family(f)' = Family(f)
  BY DEF Issued, Family
<1>2. LinksAreSound'
  BY <1>1 DEF ChainInv, LinksAreSound, Family
<1> QED
  BY <1>1, <1>2 DEF ChainInv, LinksAreChained, OneEnd, End

(* A login begins a chain, and a rotation adds to the end of one. *)
LEMMA IssuingKeepsChain ==
  ASSUME TokensInv, ChainInv, NEW r \in Requests, NEW t \in TokenIds,
         FinishLogin(r, t) \/ Rotate(r, t)
  PROVE  ChainInv'
<1> USE DEF ChainInv
<1>1. /\ t \notin Issued /\ replacedBy[t] = NoToken
      /\ \A s \in TokenIds : replacedBy[s] # t
      /\ family \in [TokenIds -> TokenIds \cup {NoToken}]
      /\ owner \in [TokenIds -> Users \cup {NoUser}]
      /\ replacedBy \in [TokenIds -> TokenIds \cup {NoToken}]
      /\ revoked \subseteq Issued
  <2>1. t \notin Issued
    BY DEF FinishLogin, Rotate, Issue
  <2>2. \A s \in TokenIds : replacedBy[s] # NoToken => s \in Issued /\ replacedBy[s] \in Issued
    BY DEF LinksAreSound, Family, TokensInv, TokensTypeOK
  <2> QED
    BY <2>1, <2>2, TokenAssumption DEF TokensInv, TokensTypeOK
<1>2. CASE FinishLogin(r, t)
  <2>1. /\ Issued' = Issued \cup {t} /\ family'[t] = t
        /\ \A s \in Issued : owner'[s] = owner[s] /\ family'[s] = family[s]
        /\ UNCHANGED <<replacedBy, revoked>>
    <3>1. who[r] \in Users
      BY <1>2 DEF FinishLogin, TokensInv, RequestsAreSound
    <3> QED
      BY <1>1, <1>2, <3>1, TokenAssumption DEF FinishLogin, Issue, Issued
  <2>2. \A s \in Issued : family[s] # t
    BY <1>1 DEF TokensInv, FamiliesAreRooted
  <2>3. LinksAreSound'
    BY <1>1, <2>1 DEF LinksAreSound, Family
  <2>4. LinksAreChained'
    BY <1>1, <2>1 DEF LinksAreChained
  <2>5. OneEnd'
    BY <1>1, <2>1, <2>2 DEF OneEnd, End
  <2> QED
    BY <2>3, <2>4, <2>5
<1>3. CASE Rotate(r, t)
  <2> DEFINE old == token[r]
  <2>1. old \in Issued \ revoked /\ old \in TokenIds
    BY <1>3 DEF Rotate, TokensInv, LockedIsLive, Live, Issued
  <2>2. End(old)
    BY <2>1, LiveIsEnd DEF Live
  <2>3. /\ Issued' = Issued \cup {t} /\ family'[t] = family[old] /\ owner'[t] = owner[old]
        /\ \A s \in Issued : owner'[s] = owner[s] /\ family'[s] = family[s]
        /\ replacedBy' = [replacedBy EXCEPT ![old] = t] /\ revoked' = revoked \cup {old}
    <3>1. owner[old] # NoUser
      BY <2>1 DEF Issued
    <3> QED
      BY <1>1, <1>3, <3>1 DEF Rotate, Issue, Issued, Retired
  <2>4. family[old] \in Issued
    BY <2>1 DEF TokensInv, FamiliesAreRooted
  <2> HIDE DEF old
  <2>5. /\ t # old /\ replacedBy'[old] = t /\ t # NoToken
        /\ \A s \in TokenIds \ {old} : replacedBy'[s] = replacedBy[s]
    BY <1>1, <2>1, <2>3, TokenAssumption
  <2>6. LinksAreSound'
    <3>1. ASSUME NEW s \in TokenIds \ {old}, replacedBy[s] # NoToken
          PROVE  /\ s \in revoked /\ s \in Issued /\ replacedBy[s] \in Issued
                 /\ family[replacedBy[s]] = family[s]
                 /\ owner[replacedBy[s]] = owner[s] /\ replacedBy[s] # family[s]
      BY <1>1, <3>1 DEF LinksAreSound, Family
    <3>2. ASSUME NEW s \in TokenIds \ {old}, replacedBy'[s] # NoToken
          PROVE  /\ s \in revoked' /\ replacedBy'[s] \in Issued'
                 /\ family'[replacedBy'[s]] = family'[s]
                 /\ owner'[replacedBy'[s]] = owner'[s] /\ replacedBy'[s] # family'[s]
      BY <2>3, <2>5, <3>1, <3>2
    <3>3. /\ old \in revoked' /\ replacedBy'[old] \in Issued'
          /\ family'[replacedBy'[old]] = family'[old]
          /\ owner'[replacedBy'[old]] = owner'[old] /\ replacedBy'[old] # family'[old]
      BY <1>1, <2>1, <2>3, <2>4, <2>5
    <3> QED
      BY <3>2, <3>3 DEF LinksAreSound, Family
  <2>7. LinksAreChained'
    <3>1. \A s \in TokenIds \ {old} : replacedBy'[s] # t
      BY <1>1, <2>5
    <3>2. \A a, b \in TokenIds : (replacedBy'[a] = replacedBy'[b] /\ replacedBy'[a] # NoToken) => a = b
      BY <2>5, <3>1 DEF LinksAreChained
    <3>3. ASSUME NEW a \in Issued', a # family'[a]
          PROVE  \E s \in Issued' : replacedBy'[s] = a
      <4>1. CASE a = t
        BY <2>1, <2>3, <2>5, <4>1
      <4>2. CASE a # t
        <5>1. a \in Issued /\ a # family[a] /\ a # NoToken
          BY <2>3, <3>3, <4>2, TokenAssumption DEF Issued
        <5>2. PICK s \in Issued : replacedBy[s] = a
          BY <5>1 DEF LinksAreChained
        <5>3. s # old /\ s \in TokenIds
          BY <2>2, <5>1, <5>2 DEF End, Issued
        <5> QED
          BY <2>3, <2>5, <5>2, <5>3
      <4> QED
        BY <4>1, <4>2
    <3> QED
      BY <3>2, <3>3 DEF LinksAreChained
  <2>8. OneEnd'
    <3>1. \A s \in TokenIds : End(s)' => s = t \/ (End(s) /\ s # old)
      BY <2>3, <2>5 DEF End
    <3>2. \A s \in TokenIds : End(s) /\ s # old => family'[s] = family[s] /\ family[s] # family'[t]
      BY <2>1, <2>2, <2>3 DEF OneEnd, End
    <3> QED
      BY <3>1, <3>2 DEF OneEnd
  <2> QED
    BY <2>6, <2>7, <2>8
<1> QED
  BY <1>2, <1>3

(* Every step keeps the chains. *)
LEMMA StepKeepsChain ==
  ASSUME TokensInv, ChainInv, [TokensNext]_vars
  PROVE  ChainInv'
<1>1. CASE \E r \in Requests, t \in TokenIds : FinishLogin(r, t) \/ Rotate(r, t)
  BY <1>1, IssuingKeepsChain
<1>2. CASE ~ \E r \in Requests, t \in TokenIds : FinishLogin(r, t) \/ Rotate(r, t)
  <2>1. UNCHANGED <<owner, family, replacedBy>> /\ revoked \subseteq revoked'
    BY <1>2
    DEF TokensNext, LoginStep, RefreshStep, BeginLogin, BeginRefresh, LockToken,
        RevokeFamily, RefuseRefresh, DeadlockVictim, Crash, Logout, LogoutAll,
        SetStatus, Expire, RevokedNow, vars, tokenVars
  <2> QED
    BY <2>1, RevokingKeepsChain
<1> QED
  BY <1>1, <1>2

(* The chains hold in every behaviour. *)
LEMMA ChainInvariance == TokensSpec => []ChainInv
<1>1. TokensInit => ChainInv
  BY DEF TokensInit, ChainInv, LinksAreSound, LinksAreChained, OneEnd, End, Issued
<1>2. TokensInv /\ ChainInv /\ [TokensNext]_vars => ChainInv'
  BY StepKeepsChain
<1> QED
  BY <1>1, <1>2, TokensInvariance, PTL DEF TokensSpec

(* Rotations never fork a family, lose a token of it, or mix two: every    *)
(* token but the first is the successor of exactly one other.              *)
THEOREM TokensFormChains == TokensSpec => []ReplacementChain
<1>1. ASSUME TokensInv, ChainInv
      PROVE  ReplacementChain
  <2> USE <1>1 DEF ChainInv
  <2>1. ASSUME NEW s \in Issued, replacedBy[s] # NoToken
        PROVE  /\ s \in revoked /\ replacedBy[s] \in Family(family[s])
               /\ owner[replacedBy[s]] = owner[s]
    BY <2>1 DEF LinksAreSound, Issued
  <2>2. ASSUME NEW t \in Issued
        PROVE  Cardinality({s \in Issued : replacedBy[s] = t}) = IF t = family[t] THEN 0 ELSE 1
    <3> DEFINE before == {s \in Issued : replacedBy[s] = t}
    <3>1. t # NoToken
      BY TokenAssumption DEF Issued
    <3>2. CASE t = family[t]
      <4>1. before = {}
        BY <3>1, <3>2 DEF LinksAreSound, Family, Issued
      <4> QED
        BY <3>2, <4>1, FS_EmptySet
    <3>3. CASE t # family[t]
      <4>1. PICK s \in Issued : replacedBy[s] = t
        BY <3>3 DEF LinksAreChained
      <4>2. before = {s}
        BY <3>1, <4>1 DEF LinksAreChained, Issued
      <4> QED
        BY <3>3, <4>2, FS_Singleton
    <3> QED
      BY <3>2, <3>3
  <2> QED
    BY <2>1, <2>2 DEF ReplacementChain
<1> QED
  BY <1>1, TokensInvariance, ChainInvariance, PTL

-----------------------------------------------------------------------------
(* The browser's side *)

(* Every step of WebClient is one of RefreshTokens, or none. *)
LEMMA ClientStepIsTokensStep ==
  ASSUME [ClientNext]_allVars
  PROVE  [TokensNext]_vars
<1>1. CASE \E r \in Requests : CallStep(r)
  <2> PICK r \in Requests : CallStep(r)
    BY <1>1
  <2>1. CASE (\E u \in Users : SignIn(r, u)) \/ Refresh(r)
    BY <2>1 DEF SignIn, Refresh, BeginRefresh, Issued, TokensNext, LoginStep, RefreshStep
  <2>2. CASE (\E t \in TokenIds : SendTokens(r, t)) \/ SendError(r) \/ LockToken(r)
    BY <2>2 DEF SendTokens, SendError, TokensNext, LoginStep, RefreshStep
  <2>3. CASE RefuseUnserved(r) \/ TakeAnswer(r) \/ LoseAnswer(r)
    BY <2>3 DEF RefuseUnserved, TakeAnswer, LoseAnswer, Return
  <2> QED
    BY <2>1, <2>2, <2>3 DEF CallStep, Progress
<1>2. CASE \E b \in Tabs : PageStep(b)
  BY <1>2
  DEF PageStep, Load, BootSucceeds, BootFails, AskLogout, ServeLogout, EndLogout, TokensNext
<1>3. CASE Elsewhere
  BY <1>3 DEF Elsewhere, TokensNext
<1>4. CASE UNCHANGED allVars
  BY <1>4 DEF allVars
<1> QED
  BY <1>1, <1>2, <1>3, <1>4 DEF ClientNext

(* What is true of the server whatever its clients do is true of it with   *)
(* this browser.                                                           *)
THEOREM ClientImplementsTokens == ClientSpec => TokensSpec
<1>1. ClientInit => TokensInit
  BY DEF ClientInit
<1>2. [ClientNext]_allVars => [TokensNext]_vars
  BY ClientStepIsTokensStep
<1> QED
  BY <1>1, <1>2, PTL DEF ClientSpec, TokensSpec

(* Reuse of a token of the family was noticed and not yet answered.        *)
Alarmed(f) == \E q \in Requests : phase[q] = "reuse" /\ family[token[q]] = f

(* The family has come to its end, or will. *)
Over(f) == FamilyDead(f) \/ Alarmed(f)

(* A request was sent tokens; a request has a token in its hand.           *)
Sent(r) == answer[r] # NoAnswer /\ answer[r].token # NoToken
InHand(r) == phase[r] \in {"begun", "locked", "reuse"}

(* An answer with a token has the newest of its family; an error about a   *)
(* token says that its family is over.                                     *)
AnswersAreSound ==
  \A r \in Requests : answer[r] # NoAnswer =>
    /\ phase[r] = "idle"
    /\ answer[r].token # NoToken =>
         End(answer[r].token) /\ family[answer[r].token] = answer[r].of
    /\ \A f \in TokenIds : (answer[r].token = NoToken /\ answer[r].of = f) =>
         f \in Issued /\ Over(f)

(* Nobody has the token of an answer before the answer is taken.           *)
AnswersAreNews ==
  \A r \in Requests : Sent(r) =>
    /\ \A b \in Tabs : memory[b] # answer[r].token
    /\ stored # answer[r].token
    /\ \A q \in Requests : InHand(q) => token[q] # answer[r].token
    /\ \A q \in Requests \ {r} : Sent(q) => answer[q].token # answer[r].token

(* A tab whose token is the newest of the session in localStorage has the  *)
(* token that is there: no tab writes an older one over it.                *)
StoredIsNewest ==
  \A b \in Tabs :
    (End(memory[b]) /\ stored \in Family(family[memory[b]])) => stored = memory[b]

HoldingInv == AnswersAreSound /\ AnswersAreNews /\ StoredIsNewest /\ LiveTokenIsHeld

(* The types of what the browser has, with the server's Issued as it is.   *)
ClientInv == TokensInv /\ ChainInv /\ ClientTypeOK /\ HoldingInv

(* A live token is held, or its family is over or abandoned. *)
Ended == {f \in TokenIds : Over(f)} \cup abandoned
Kept(t) == t \in Held \/ family[t] \in Ended
LiveIsKept == \A t \in TokenIds : Live(t) => Kept(t)
LEMMA HeldMeansKept == TokensInv => (LiveTokenIsHeld <=> LiveIsKept)
<1> HAVE TokensInv
<1>1. \A t \in TokenIds : Live(t) => ~FamilyDead(family[t]) /\ t \in Issued
  BY DEF FamilyDead, Family, Live
<1>2. \A t \in Issued : family[t] \in TokenIds
  BY DEF TokensInv, FamiliesAreRooted, Issued
<1> QED
  BY <1>1, <1>2 DEF LiveTokenIsHeld, LiveIsKept, Kept, Ended, Over, Alarmed
LEMMA HeldMeansKeptNext ==
  ASSUME TokensInv, [ClientNext]_allVars
  PROVE  LiveIsKept' => LiveTokenIsHeld'
<1>1. TokensInv'
  BY ClientStepIsTokensStep, TokensStepInv
<1>2. (TokensInv => (LiveTokenIsHeld <=> LiveIsKept))'
  BY HeldMeansKept, PTL
<1> QED
  BY <1>1, <1>2

(* The families of all tokens that are held or in hand were issued.        *)
LEMMA FamiliesExist ==
  ASSUME TokensInv
  PROVE  /\ \A t \in Issued : family[t] \in Issued /\ family[t] # NoToken /\ t # NoToken
         /\ \A r \in Requests : InHand(r) => token[r] \in Issued
         /\ Issued \subseteq TokenIds
BY TokenAssumption DEF TokensInv, FamiliesAreRooted, RequestsAreSound, InHand, Issued

(* A family that is over stays so: reuse ends with the family revoked, or  *)
(* with another request that noticed it, too.                              *)
LEMMA OverStaysOver ==
  ASSUME TokensInv, [ClientNext]_allVars, NEW f \in Issued, Over(f)
  PROVE  Over(f)'
<1>1. CASE FamilyDead(f)
  BY <1>1, ClientStepIsTokensStep, StepLeavesDead DEF Over
<1>2. ASSUME NEW q \in Requests, phase[q] = "reuse", family[token[q]] = f
      PROVE  Over(f)'
  <2>1. token[q] \in Issued /\ token[q] \in TokenIds
    BY <1>2, FamiliesExist DEF InHand
  <2>2. family'[token[q]] = f
    <3>1. CASE \E r \in Requests, t \in TokenIds : FinishLogin(r, t) \/ Rotate(r, t)
      BY <1>2, <2>1, <3>1 DEF FinishLogin, Rotate, Issue, TokensInv, TokensTypeOK
    <3>2. CASE ~ \E r \in Requests, t \in TokenIds : FinishLogin(r, t) \/ Rotate(r, t)
      <4>1. family' = family
        BY <3>2, ClientStepIsTokensStep
        DEF TokensNext, LoginStep, RefreshStep, BeginLogin, BeginRefresh, LockToken,
            RevokeFamily, RefuseRefresh, DeadlockVictim, Crash, Logout, LogoutAll,
            SetStatus, Expire, vars, tokenVars
      <4> QED
        BY <1>2, <4>1
    <3> QED
      BY <3>1, <3>2
  <2>3. CASE phase'[q] = "reuse" /\ token'[q] = token[q]
    BY <2>2, <2>3 DEF Over, Alarmed
  <2>4. CASE RevokeFamily(q)
    <3>1. revoked' = revoked \cup Family(f) /\ UNCHANGED <<owner, family>>
      BY <1>2, <2>4 DEF RevokeFamily, RevokedNow
    <3>2. FamilyDead(f)'
      BY <3>1 DEF FamilyDead, Family, Live, Issued
    <3> QED
      BY <3>2 DEF Over
  <2>5. CASE DeadlockVictim(q)
    <3>1. PICK p \in Requests : phase[p] = "reuse" /\ p # q /\ family[token[p]] = f
      BY <1>2, <2>5 DEF DeadlockVictim, WaitsFor
    <3>2. phase'[p] = "reuse" /\ token'[p] = token[p] /\ family' = family
      BY <2>5, <3>1 DEF DeadlockVictim, Finish, tokenVars, TokensInv, TokensTypeOK
    <3> QED
      BY <3>1, <3>2 DEF Over, Alarmed
  <2>6. CASE /\ ~RevokeFamily(q) /\ ~DeadlockVictim(q)
             /\ ~(phase'[q] = "reuse" /\ token'[q] = token[q])
    <3>1. ASSUME NEW r \in Requests, Finish(r), r # q
          PROVE  FALSE
      BY <1>2, <2>6, <3>1 DEF Finish, TokensInv, TokensTypeOK
    <3>2. ASSUME NEW r \in Requests, CallStep(r)
          PROVE  FALSE
      <4>1. CASE (\E u \in Users : SignIn(r, u)) \/ Refresh(r)
        BY <1>2, <2>6, <4>1
        DEF SignIn, Refresh, BeginLogin, BeginRefresh, TokensInv, TokensTypeOK
      <4>2. CASE LockToken(r)
        BY <1>2, <2>6, <4>2 DEF LockToken, TokensInv, TokensTypeOK
      <4>3. CASE (\E t \in TokenIds : SendTokens(r, t)) \/ SendError(r)
        BY <1>2, <2>6, <3>1, <4>3
        DEF SendTokens, SendError, FinishLogin, Rotate, RevokeFamily, RefuseRefresh,
            DeadlockVictim
      <4>4. CASE RefuseUnserved(r) \/ TakeAnswer(r) \/ LoseAnswer(r)
        BY <1>2, <2>6, <4>4
        DEF RefuseUnserved, TakeAnswer, LoseAnswer, Return, vars, requestVars
      <4> QED
        BY <3>2, <4>1, <4>2, <4>3, <4>4 DEF CallStep, Progress
    <3>3. ASSUME NEW b \in Tabs, PageStep(b)
          PROVE  FALSE
      BY <1>2, <2>6, <3>3
      DEF PageStep, Load, BootSucceeds, BootFails, AskLogout, ServeLogout, EndLogout,
          Logout, vars, requestVars
    <3>4. ~Elsewhere /\ ~UNCHANGED allVars
      BY <1>2, <2>6 DEF Elsewhere, LogoutAll, SetStatus, allVars, vars, requestVars
    <3> QED
      BY <3>2, <3>3, <3>4 DEF ClientNext
  <2> QED
    BY <2>3, <2>4, <2>5, <2>6
<1> QED
  BY <1>1, <1>2 DEF Over, Alarmed

(* What the steps of the server that issue nothing do to what the browser  *)
(* holds, and those that end with an error about a family that is over.    *)
LEMMA QuietKeepsHolding ==
  ASSUME ClientInv, [ClientNext]_allVars,
         UNCHANGED <<owner, family, replacedBy, memory, stored>>,
         revoked \subseteq revoked', abandoned' = abandoned,
         \A q \in Requests : answer[q] # NoAnswer => phase'[q] = "idle",
         \A q \in Requests : InHand(q)' =>
           \/ InHand(q) /\ token'[q] = token[q]
           \/ \E b \in Tabs : token'[q] = memory[b],
         \/ answer' = answer
         \/ \E r \in Requests, f \in Issued \cup {NoToken} :
              /\ answer[r] = NoAnswer /\ phase'[r] = "idle"
              /\ answer' = [answer EXCEPT ![r] = [of |-> f, token |-> NoToken]]
              /\ f # NoToken => Over(f)'
  PROVE  HoldingInv'
<1> USE DEF ClientInv, HoldingInv
<1>1. /\ Issued' = Issued /\ \A t : End(t)' <=> End(t)
      /\ \A f : Family(f)' = Family(f)
      /\ \A f \in Issued : Over(f) => Over(f)'
  BY OverStaysOver DEF Issued, End, Family
<1>2. answer \in [Requests -> Answers \cup {NoAnswer}]
  BY DEF ClientTypeOK
<1>3. \A q \in Requests :
        \/ answer'[q] = answer[q]
        \/ /\ answer[q] = NoAnswer /\ phase'[q] = "idle" /\ answer'[q].token = NoToken
           /\ \A f \in TokenIds : answer'[q].of = f => f \in Issued /\ Over(f)'
  <2>1. CASE answer' = answer
    BY <2>1
  <2>2. CASE answer' # answer
    <3>1. PICK r \in Requests, f \in Issued \cup {NoToken} :
            /\ answer[r] = NoAnswer /\ phase'[r] = "idle"
            /\ answer' = [answer EXCEPT ![r] = [of |-> f, token |-> NoToken]]
            /\ f # NoToken => Over(f)'
      BY <2>2
    <3>2. \A q \in Requests \ {r} : answer'[q] = answer[q]
      BY <1>2, <3>1
    <3>3. answer'[r].of = f /\ answer'[r].token = NoToken
      BY <1>2, <3>1
    <3>4. f \in TokenIds => f \in Issued /\ Over(f)'
      BY <3>1, TokenAssumption
    <3> QED
      BY <3>1, <3>2, <3>3, <3>4
  <2> QED
    BY <2>1, <2>2
<1>4. AnswersAreSound'
  <2>1. ASSUME NEW q \in Requests, answer'[q] # NoAnswer
        PROVE  /\ phase'[q] = "idle"
               /\ answer'[q].token # NoToken =>
                    End(answer'[q].token) /\ family[answer'[q].token] = answer'[q].of
               /\ \A f \in TokenIds : (answer'[q].token = NoToken /\ answer'[q].of = f) =>
                    f \in Issued /\ Over(f)'
    <3>1. CASE answer'[q] = answer[q]
      BY <1>1, <2>1, <3>1 DEF AnswersAreSound
    <3> QED
      BY <1>3, <3>1
  <2> QED
    BY <1>1, <2>1 DEF AnswersAreSound, End
<1>5. \A q \in Requests : Sent(q)' => Sent(q) /\ answer'[q] = answer[q]
  BY <1>3 DEF Sent
<1>6. AnswersAreNews'
  BY <1>5 DEF AnswersAreNews
<1>7. StoredIsNewest'
  BY <1>1 DEF StoredIsNewest
<1>8. LiveTokenIsHeld'
  <2>1. Held \subseteq Held' \cup {NoToken}
    BY <1>3 DEF Held
  <2>2. \A t \in TokenIds : Live(t)' => t \in Issued /\ Live(t) /\ t # NoToken
    BY <1>1, TokenAssumption DEF Live
  <2>3. \A t \in Issued : family[t] \in Ended => family[t] \in Ended'
    BY <1>1, FamiliesExist DEF Ended
  <2>4. \A t \in TokenIds : Live(t)' => Kept(t)'
    BY <2>1, <2>2, <2>3, HeldMeansKept DEF LiveIsKept, Kept
  <2> QED
    BY <2>4, HeldMeansKeptNext DEF LiveIsKept
<1> QED
  BY <1>4, <1>6, <1>7, <1>8

(* A new token is in nobody's hands, and its answer has the end of its     *)
(* family; if nobody waits for it, its family is abandoned.                *)
LEMMA SendingKeepsHolding ==
  ASSUME ClientInv, [ClientNext]_allVars, NEW r \in Requests, NEW t \in TokenIds,
         NEW f \in TokenIds, Send(r, [of |-> f, token |-> t]),
         \/ FinishLogin(r, t) /\ f = t
         \/ Rotate(r, t) /\ f = family[token[r]]
  PROVE  HoldingInv'
<1> USE DEF ClientInv, HoldingInv
<1>1. /\ answer[r] = NoAnswer /\ t \notin Issued /\ t # NoToken
      /\ Issued \subseteq TokenIds /\ NoToken \notin TokenIds
  <2>1. phase[r] # "idle" /\ t \notin Issued
    BY DEF FinishLogin, Rotate, Issue
  <2> QED
    BY <2>1, FamiliesExist, TokenAssumption DEF AnswersAreSound
<1>2. /\ Issued' = Issued \cup {t} /\ family'[t] = f
      /\ \A s \in Issued : owner'[s] = owner[s] /\ family'[s] = family[s]
      /\ replacedBy'[t] = NoToken
      /\ \A s \in Issued : replacedBy'[s] = replacedBy[s] \/ (s = token[r] /\ phase[r] = "locked")
      /\ \A s \in Issued : replacedBy'[s] = NoToken => replacedBy[s] = NoToken
      /\ revoked \subseteq revoked'
  <2>1. /\ \A s \in TokenIds : replacedBy[s] # NoToken => s \in Issued
        /\ replacedBy \in [TokenIds -> TokenIds \cup {NoToken}]
        /\ family \in [TokenIds -> TokenIds \cup {NoToken}]
        /\ owner \in [TokenIds -> Users \cup {NoUser}]
    BY DEF ChainInv, LinksAreSound, TokensInv, TokensTypeOK
  <2>2. PICK u : u # NoUser /\ Issue(t, u, f)
    <3>1. CASE FinishLogin(r, t)
      BY <3>1, TokenAssumption DEF FinishLogin, Rotate, TokensInv, RequestsAreSound
    <3>2. CASE Rotate(r, t)
      BY <3>2 DEF FinishLogin, Rotate, TokensInv, LockedIsLive, Live, Issued
    <3> QED
      BY <3>1, <3>2
  <2>3. /\ Issued' = Issued \cup {t} /\ family'[t] = f
        /\ \A s \in Issued : owner'[s] = owner[s] /\ family'[s] = family[s]
    BY <1>1, <2>1, <2>2 DEF Issue, Issued
  <2>4. \/ UNCHANGED <<replacedBy, revoked>>
        \/ /\ phase[r] = "locked" /\ token[r] \in Issued
           /\ replacedBy' = [replacedBy EXCEPT ![token[r]] = t]
           /\ revoked' = revoked \cup {token[r]}
    BY DEF FinishLogin, Rotate, Retired, TokensInv, LockedIsLive, Live
  <2>5. replacedBy[t] = NoToken
    BY <1>1, <2>1
  <2> QED
    BY <1>1, <2>1, <2>3, <2>4, <2>5
<1>3. /\ phase'[r] = "idle"
      /\ \A q \in Requests \ {r} : phase'[q] = phase[q] /\ token'[q] = token[q]
  BY FinishKeepsRequests DEF FinishLogin, Rotate, TokensInv
<1>4. /\ \A q \in Requests \ {r} : answer'[q] = answer[q]
      /\ at[r] = "none" => answer'[r] = NoAnswer /\ f \in abandoned'
      /\ at[r] # "none" => answer'[r] = [of |-> f, token |-> t] /\ answer'[r] # NoAnswer
      /\ abandoned \subseteq abandoned' /\ memory' = memory /\ stored' = stored
  <2>1. answer \in [Requests -> Answers \cup {NoAnswer}]
    BY DEF ClientTypeOK
  <2>2. [of |-> f, token |-> t] \in Answers /\ [of |-> f, token |-> t] # NoAnswer
    BY ClientAssumption DEF Answers
  <2>3. Wasted([of |-> f, token |-> t]) = {f}
    BY <1>1, <2>2 DEF Wasted
  <2> QED
    BY <1>1, <2>1, <2>2, <2>3 DEF Send
<1>5. /\ memory \in [Tabs -> Issued \cup {NoToken}] /\ stored \in Issued \cup {NoToken}
      /\ \A q \in Requests : Sent(q) => answer[q].token \in Issued
      /\ \A q \in Requests : InHand(q) => token[q] \in Issued
  BY FamiliesExist DEF ClientTypeOK, AnswersAreSound, Sent, End
<1>6. \A q \in Requests \ {r} : Sent(q)' <=> Sent(q)
  BY <1>4 DEF Sent
<1>7. AnswersAreSound'
  <2>1. ASSUME NEW q \in Requests \ {r}, answer[q] # NoAnswer
        PROVE  /\ phase'[q] = "idle"
               /\ answer[q].token # NoToken =>
                    /\ answer[q].token \in Issued' /\ replacedBy'[answer[q].token] = NoToken
                    /\ family'[answer[q].token] = answer[q].of
               /\ \A g \in TokenIds : (answer[q].token = NoToken /\ answer[q].of = g) =>
                    g \in Issued' /\ Over(g)'
    <3>1. phase'[q] = "idle"
      BY <1>3, <2>1 DEF AnswersAreSound
    <3>2. ASSUME answer[q].token # NoToken
          PROVE  /\ answer[q].token \in Issued' /\ replacedBy'[answer[q].token] = NoToken
                 /\ family'[answer[q].token] = answer[q].of
      <4>1. End(answer[q].token) /\ family[answer[q].token] = answer[q].of /\ Sent(q)
        BY <2>1, <3>2 DEF AnswersAreSound, Sent
      <4>2. ~(token[r] = answer[q].token /\ phase[r] = "locked")
        BY <4>1 DEF AnswersAreNews, InHand
      <4> QED
        BY <1>2, <4>1, <4>2 DEF End
    <3>3. ASSUME NEW g \in TokenIds, answer[q].token = NoToken, answer[q].of = g
          PROVE  g \in Issued' /\ Over(g)'
      <4>1. g \in Issued /\ Over(g)
        BY <2>1, <3>3 DEF AnswersAreSound
      <4> QED
        BY <1>2, <4>1, OverStaysOver
    <3> QED
      BY <3>1, <3>2, <3>3
  <2>2. answer'[r] # NoAnswer =>
          answer'[r].token = t /\ answer'[r].of = f
    BY <1>4
  <2> QED
    BY <1>1, <1>2, <1>3, <1>4, <2>1, <2>2 DEF AnswersAreSound, End
<1>8. AnswersAreNews'
  <2>1. /\ \A b \in Tabs : memory[b] # t
        /\ stored # t
        /\ \A q \in Requests : InHand(q) => token[q] # t
        /\ \A q \in Requests : Sent(q) => answer[q].token # t
    BY <1>1, <1>5
  <2>2. \A q \in Requests : InHand(q)' => InHand(q) /\ token'[q] = token[q]
    BY <1>3 DEF InHand
  <2>3. Sent(r)' => answer'[r].token = t
    BY <1>4 DEF Sent
  <2>4. ASSUME NEW q \in Requests, Sent(q)'
        PROVE  /\ \A b \in Tabs : memory'[b] # answer'[q].token
               /\ stored' # answer'[q].token
               /\ \A p \in Requests : InHand(p)' => token'[p] # answer'[q].token
               /\ \A p \in Requests \ {q} : Sent(p)' => answer'[p].token # answer'[q].token
    <3>1. CASE q = r
      BY <1>4, <1>6, <2>1, <2>2, <2>3, <2>4, <3>1
    <3>2. CASE q # r
      <4>1. Sent(q) /\ answer'[q] = answer[q]
        BY <1>4, <1>6, <2>4, <3>2
      <4>2. \A p \in Requests \ {q} : Sent(p)' => answer'[p].token # answer[q].token
        BY <1>4, <1>6, <2>1, <2>3, <4>1 DEF AnswersAreNews
      <4> QED
        BY <1>4, <2>2, <4>1, <4>2 DEF AnswersAreNews
    <3> QED
      BY <3>1, <3>2
  <2> QED
    BY <2>4 DEF AnswersAreNews
<1>9. StoredIsNewest'
  <2>1. ASSUME NEW b \in Tabs, End(memory[b])', stored' \in Family(family[memory[b]])'
        PROVE  stored' = memory'[b]
    <3>1. memory[b] \in Issued /\ stored \in Issued
      BY <1>1, <1>2, <1>4, <1>5, <2>1 DEF End, Family
    <3>2. End(memory[b]) /\ stored \in Family(family[memory[b]])
      BY <1>2, <1>4, <2>1, <3>1 DEF End, Family
    <3> QED
      BY <1>4, <3>2 DEF StoredIsNewest
  <2> QED
    BY <2>1 DEF StoredIsNewest
<1>10. LiveTokenIsHeld'
  <2>1. ASSUME NEW s \in TokenIds, Live(s)'
        PROVE  Kept(s)'
    <3>1. CASE s = t
      <4>1. at[r] = "none" => s \in Held' \/ family'[s] \in Ended'
        BY <1>2, <1>4, <3>1 DEF Ended
      <4>2. at[r] # "none" => s \in Held'
        BY <1>4, <3>1 DEF Held
      <4> QED
        BY <4>1, <4>2 DEF Kept
    <3>2. CASE s # t
      <4>1. s \in Issued /\ Live(s)
        BY <1>2, <2>1, <3>2 DEF Live
      <4>2. s \in Held => s \in Held'
        BY <1>1, <1>4 DEF Held
      <4>3. family[s] \in Issued /\ family'[s] = family[s]
        BY <1>2, <4>1, FamiliesExist
      <4>4. family[s] \in Ended => family[s] \in Ended'
        <5>1. \A g \in Issued : Over(g) => Over(g)'
          BY OverStaysOver
        <5> QED
          BY <1>4, <4>3, <5>1, FamiliesExist DEF Ended
      <4>5. Kept(s)
        BY <4>1, HeldMeansKept DEF LiveIsKept
      <4> QED
        BY <4>2, <4>3, <4>4, <4>5 DEF Kept
    <3> QED
      BY <3>1, <3>2
  <2> QED
    BY <2>1, HeldMeansKeptNext DEF LiveIsKept
<1> QED
  BY <1>7, <1>8, <1>9, <1>10

(* What the browser does by itself changes no token. *)
LEMMA ServerStands ==
  ASSUME UNCHANGED vars
  PROVE  /\ Issued' = Issued /\ UNCHANGED <<owner, family, replacedBy, phase, token>>
         /\ \A t : (End(t)' <=> End(t)) /\ (Live(t)' <=> Live(t))
         /\ \A f : Family(f)' = Family(f) /\ (Over(f)' <=> Over(f))
         /\ \A q : InHand(q)' <=> InHand(q)
BY DEF vars, tokenVars, requestVars, Issued, End, Live, Family, Over, FamilyDead, Alarmed, InHand

(* Answers may come, go, or stay; what is held of a family that is neither *)
(* over nor abandoned afterwards must still be held.                       *)
LEMMA BrowserKeepsHolding ==
  ASSUME ClientInv, [ClientNext]_allVars, UNCHANGED vars, NEW R \in SUBSET Requests,
         \A q \in Requests : answer'[q] = IF q \in R THEN NoAnswer ELSE answer[q],
         \A b \in Tabs :
           \/ memory'[b] \in {memory[b], stored, NoToken}
           \/ \E r \in R : answer[r] # NoAnswer /\ memory'[b] = answer[r].token,
         \/ stored' \in {stored, NoToken}
         \/ \E r \in R : answer[r] # NoAnswer /\ stored' = answer[r].token,
         StoredIsNewest',
         \A t \in Issued : Live(t) /\ t \in Held => t \in Held' \/ family[t] \in Ended',
         abandoned \subseteq abandoned'
  PROVE  HoldingInv'
<1> USE DEF ClientInv, HoldingInv
<1>1. AnswersAreSound'
  BY ServerStands DEF AnswersAreSound
<1>2. \A q \in Requests : Sent(q)' => Sent(q) /\ q \notin R /\ answer'[q] = answer[q]
  BY DEF Sent
<1>3. ASSUME NEW q \in Requests, Sent(q), q \notin R
      PROVE  /\ \A b \in Tabs : memory'[b] # answer[q].token
             /\ stored' # answer[q].token
  BY <1>3 DEF AnswersAreNews, Sent
<1>4. AnswersAreNews'
  BY <1>2, <1>3, ServerStands DEF AnswersAreNews
<1>5. Ended \subseteq Ended'
  BY ServerStands DEF Ended
<1>6. LiveTokenIsHeld'
  <2>1. ASSUME NEW t \in TokenIds, Live(t)'
        PROVE  Kept(t)'
    <3>1. Live(t) /\ t \in Issued /\ family' = family
      BY <2>1, ServerStands DEF Live
    <3>2. t \in Held \/ family[t] \in Ended
      BY <3>1, HeldMeansKept DEF LiveIsKept, Kept
    <3> QED
      BY <1>5, <3>1, <3>2 DEF Kept
  <2> QED
    BY <2>1, HeldMeansKeptNext DEF LiveIsKept
<1> QED
  BY <1>1, <1>4, <1>6

(* An answer is applied, whatever the tab holds by then: its token is the  *)
(* newest of its family, and an error is about a family that is over.      *)
LEMMA TakingKeepsHolding ==
  ASSUME ClientInv, [ClientNext]_allVars, NEW r \in Requests, TakeAnswer(r)
  PROVE  HoldingInv'
<1> USE DEF ClientInv, HoldingInv
<1> DEFINE b == TabOf[r]
           a == answer[r]
<1>1. /\ a # NoAnswer /\ b \in Tabs /\ UNCHANGED vars
      /\ \A c \in Tabs : memory'[c] = IF c = b THEN a.token ELSE memory[c]
      /\ stored' = a.token
      /\ abandoned' = abandoned \cup (FamiliesOf({memory[b], stored}) \ {a.of})
      /\ \A q \in Requests : answer'[q] = IF q \in {r} THEN NoAnswer ELSE answer[q]
  BY ClientAssumption DEF TakeAnswer, Replace, Return, ClientTypeOK
<1>2. \/ a.token = NoToken
      \/ End(a.token) /\ family[a.token] = a.of
  BY <1>1 DEF AnswersAreSound
<1>3. StoredIsNewest'
  <2>1. ASSUME NEW c \in Tabs, End(memory'[c]), stored' \in Family(family[memory'[c]])
        PROVE  stored' = memory'[c]
    <3>1. stored' \in Issued /\ stored' # NoToken /\ family[stored'] = family[memory'[c]]
      BY <2>1, FamiliesExist DEF Family
    <3>2. End(stored')
      BY <1>1, <1>2, <3>1
    <3> QED
      BY <2>1, <3>1, <3>2, FamiliesExist DEF ChainInv, OneEnd, End
  <2> QED
    BY <1>1, <2>1, ServerStands DEF StoredIsNewest, End, Family
<1>4. ASSUME NEW t \in Issued, Live(t), t \in Held, t \notin Held'
      PROVE  family[t] \in Ended'
  <2>1. t # NoToken /\ family[t] \in TokenIds /\ t \in TokenIds
    BY FamiliesExist
  <2>2. t \in {memory[b], stored} /\ t # a.token
    BY <1>1, <1>4 DEF Held
  <2>3. family[t] \in FamiliesOf({memory[b], stored})
    BY <2>2 DEF FamiliesOf
  <2>4. CASE family[t] # a.of
    BY <1>1, <2>3, <2>4 DEF Ended
  <2>5. CASE family[t] = a.of
    <3>1. End(t)
      BY <1>4, <2>1, LiveIsEnd DEF ChainInv
    <3>2. a.token = NoToken
      BY <1>2, <2>1, <2>2, <2>5, <3>1, FamiliesExist DEF ChainInv, OneEnd, End
    <3>3. Over(family[t])
      BY <1>1, <2>1, <2>5, <3>2 DEF AnswersAreSound
    <3> QED
      BY <1>1, <2>1, <3>3, ServerStands DEF Ended
  <2> QED
    BY <2>4, <2>5
<1>5. {r} \in SUBSET Requests
  OBVIOUS
<1> HIDE DEF a, b
<1>6. \A c \in Tabs :
        \/ memory'[c] \in {memory[c], stored, NoToken}
        \/ \E q \in {r} : answer[q] # NoAnswer /\ memory'[c] = answer[q].token
  BY <1>1 DEF a
<1>7. \E q \in {r} : answer[q] # NoAnswer /\ stored' = answer[q].token
  BY <1>1 DEF a
<1> QED
  BY <1>1, <1>3, <1>4, <1>5, <1>6, <1>7, BrowserKeepsHolding

(* Tokens that are cleared for no word on them are abandoned. *)
LEMMA ClearingKeepsHolding ==
  ASSUME ClientInv, [ClientNext]_allVars, NEW b \in Tabs, UNCHANGED <<vars, answer>>,
         Replace(b, NoToken, NoToken)
  PROVE  HoldingInv'
<1> USE DEF ClientInv, HoldingInv
<1>1. /\ \A c \in Tabs : memory'[c] = IF c = b THEN NoToken ELSE memory[c]
      /\ stored' = NoToken /\ abandoned \subseteq abandoned'
      /\ FamiliesOf({memory[b], stored}) \subseteq abandoned' \cup {NoToken}
  BY DEF Replace, ClientTypeOK
<1>2. StoredIsNewest'
  BY <1>1, ServerStands, FamiliesExist DEF StoredIsNewest, Family
<1>3. ASSUME NEW t \in Issued, t \in Held, t \notin Held'
      PROVE  family[t] \in Ended'
  <2>1. t \in {memory[b], stored} /\ family[t] # NoToken
    BY <1>1, <1>3, FamiliesExist DEF Held
  <2>2. family[t] \in FamiliesOf({memory[b], stored})
    BY <2>1 DEF FamiliesOf
  <2> QED
    BY <1>1, <2>1, <2>2 DEF Ended
<1> DEFINE none == {r \in Requests : FALSE}
<1>4. /\ none \in SUBSET Requests
      /\ \A q \in Requests : answer'[q] = IF q \in none THEN NoAnswer ELSE answer[q]
  OBVIOUS
<1>5. \A c \in Tabs : memory'[c] \in {memory[c], stored, NoToken}
  BY <1>1
<1> HIDE DEF none
<1> QED
  BY <1>1, <1>2, <1>3, <1>4, <1>5, BrowserKeepsHolding

(* A page that is loaded again throws away its calls, and its token unless *)
(* localStorage has the newest of the session.                             *)
LEMMA LoadingKeepsHolding ==
  ASSUME ClientInv, [ClientNext]_allVars, NEW b \in Tabs, Load(b)
  PROVE  HoldingInv'
<1> USE DEF ClientInv, HoldingInv
<1>1. /\ UNCHANGED vars /\ stored' = stored
      /\ \A c \in Tabs : memory'[c] = IF c = b THEN stored ELSE memory[c]
      /\ \A q \in Requests : answer'[q] = IF q \in CallsOf(b) THEN NoAnswer ELSE answer[q]
      /\ abandoned \subseteq abandoned'
      /\ \A q \in CallsOf(b) : Wasted(answer[q]) \subseteq abandoned'
      /\ FamiliesOf({memory[b]}) \ FamiliesOf({stored}) \subseteq abandoned'
  BY DEF Load, ClientTypeOK
<1>2. StoredIsNewest'
  BY <1>1, ServerStands DEF StoredIsNewest
<1>3. ASSUME NEW t \in Issued, Live(t), t \in Held, t \notin Held'
      PROVE  family[t] \in Ended'
  <2>1. t # NoToken /\ family[t] \in TokenIds /\ t \in TokenIds
    BY FamiliesExist
  <2>2. CASE t = memory[b]
    <3>1. family[t] \in FamiliesOf({memory[b]})
      BY <2>2 DEF FamiliesOf
    <3>2. End(t) /\ t # stored
      BY <1>1, <1>3, <2>1, LiveIsEnd DEF ChainInv, Held
    <3>3. stored \in Issued => family[stored] # family[t]
      BY <2>2, <3>2 DEF StoredIsNewest, Family
    <3>4. family[t] \notin FamiliesOf({stored})
      BY <3>3 DEF FamiliesOf
    <3> QED
      BY <1>1, <3>1, <3>4 DEF Ended
  <2>3. CASE \E q \in CallsOf(b) : answer[q] # NoAnswer /\ answer[q].token = t
    <3>1. PICK q \in CallsOf(b) : answer[q] # NoAnswer /\ answer[q].token = t
      BY <2>3
    <3>2. answer[q].of = family[t]
      BY <2>1, <3>1 DEF AnswersAreSound, CallsOf
    <3> QED
      BY <1>1, <2>1, <3>1, <3>2 DEF Wasted, Ended
  <2> QED
    BY <1>1, <1>3, <2>2, <2>3 DEF Held, CallsOf
<1>4. CallsOf(b) \in SUBSET Requests
  BY DEF CallsOf
<1> QED
  BY <1>1, <1>2, <1>3, <1>4, BrowserKeepsHolding

(* Steps of the server alone, and calls that begin or are turned away.     *)
LEMMA ServingKeepsHolding ==
  ASSUME ClientInv, [ClientNext]_allVars,
         \/ \E r \in Requests :
              \/ \E u \in Users : SignIn(r, u)
              \/ Refresh(r) \/ RefuseUnserved(r)
              \/ LockToken(r) /\ UNCHANGED clientVars
         \/ \E b \in Tabs : ServeLogout(b)
         \/ Elsewhere
  PROVE  HoldingInv'
<1> USE DEF ClientInv, HoldingInv
<1>1. \A r \in Requests : at[r] = "none" \/ phase[r] # "idle" => answer[r] = NoAnswer
  BY DEF ClientTypeOK, AnswersAreSound
<1>2. CASE \E r \in Requests : (\E u \in Users : SignIn(r, u)) \/ Refresh(r)
  <2>1. PICK r \in Requests : (\E u \in Users : SignIn(r, u)) \/ Refresh(r)
    BY <1>2
  <2>2. /\ UNCHANGED <<owner, family, replacedBy, revoked, memory, stored, answer, abandoned>>
        /\ answer[r] = NoAnswer
        /\ \A q \in Requests \ {r} : phase'[q] = phase[q] /\ token'[q] = token[q]
        /\ phase'[r] = "login" \/ (phase'[r] = "begun" /\ token'[r] = memory[TabOf[r]])
    BY <1>1, <2>1
    DEF SignIn, Refresh, Call, BeginLogin, BeginRefresh, tokenVars, TokensInv, TokensTypeOK
  <2>3. TabOf[r] \in Tabs
    BY ClientAssumption
  <2>4. \A q \in Requests : answer[q] # NoAnswer => phase'[q] = "idle"
    BY <2>2 DEF AnswersAreSound
  <2>5. \A q \in Requests : InHand(q)' =>
          \/ InHand(q) /\ token'[q] = token[q]
          \/ \E b \in Tabs : token'[q] = memory[b]
    BY <2>2, <2>3 DEF InHand
  <2> QED
    BY <2>2, <2>4, <2>5, QuietKeepsHolding
<1>3. CASE \E r \in Requests : RefuseUnserved(r)
  <2>1. PICK r \in Requests : RefuseUnserved(r)
    BY <1>3
  <2>2. /\ answer[r] = NoAnswer /\ phase'[r] = "idle"
        /\ answer' = [answer EXCEPT ![r] = [of |-> NoToken, token |-> NoToken]]
        /\ UNCHANGED <<vars, memory, stored, abandoned>>
    BY <1>1, <2>1 DEF RefuseUnserved, Unserved, vars, requestVars
  <2>3. \A q \in Requests : answer[q] # NoAnswer => phase'[q] = "idle"
    BY <2>2 DEF AnswersAreSound, vars, requestVars
  <2> QED
    BY <2>2, <2>3, QuietKeepsHolding DEF vars, tokenVars, requestVars, InHand
<1>4. CASE \E r \in Requests : LockToken(r) /\ UNCHANGED clientVars
  <2>1. PICK r \in Requests : LockToken(r) /\ UNCHANGED clientVars
    BY <1>4
  <2>2. /\ UNCHANGED <<owner, family, replacedBy, revoked, memory, stored, answer, abandoned>>
        /\ phase[r] = "begun" /\ token' = token
        /\ \A q \in Requests \ {r} : phase'[q] = phase[q]
    BY <2>1 DEF LockToken, clientVars, tokenVars, TokensInv, TokensTypeOK
  <2>3. \A q \in Requests : answer[q] # NoAnswer => phase'[q] = "idle"
    BY <2>2 DEF AnswersAreSound
  <2>4. \A q \in Requests : InHand(q)' => InHand(q) /\ token'[q] = token[q]
    BY <2>2 DEF InHand
  <2> QED
    BY <2>2, <2>3, <2>4, QuietKeepsHolding
<1>5. CASE (\E b \in Tabs : ServeLogout(b)) \/ Elsewhere
  <2>1. /\ UNCHANGED <<owner, family, replacedBy, phase, token,
                       memory, stored, answer, abandoned>>
        /\ revoked \subseteq revoked'
    BY <1>5
    DEF ServeLogout, Elsewhere, Logout, LogoutAll, SetStatus, RevokedNow,
        tokenVars, requestVars, clientVars
  <2>2. \A q \in Requests : answer[q] # NoAnswer => phase'[q] = "idle"
    BY <2>1 DEF AnswersAreSound
  <2>3. \A q \in Requests : InHand(q)' => InHand(q) /\ token'[q] = token[q]
    BY <2>1 DEF InHand
  <2> QED
    BY <2>1, <2>2, <2>3, QuietKeepsHolding
<1> QED
  BY <1>2, <1>3, <1>4, <1>5

(* A refused refresh says that the family is over: it was revoked whole,   *)
(* its one live token was, or another request will do it.                  *)
LEMMA RefusingKeepsHolding ==
  ASSUME ClientInv, [ClientNext]_allVars, NEW r \in Requests, SendError(r)
  PROVE  HoldingInv'
<1> USE DEF ClientInv, HoldingInv
<1>1. PICK f \in Issued : f = family[token[r]]
  BY FamiliesExist
  DEF SendError, RevokeFamily, RefuseRefresh, DeadlockVictim, WaitsFor, InHand
<1>2. /\ Finish(r) /\ UNCHANGED <<owner, family, replacedBy>> /\ revoked \subseteq revoked'
      /\ Send(r, [of |-> f, token |-> NoToken]) /\ answer[r] = NoAnswer
      /\ token[r] \in Issued
  BY <1>1, FamiliesExist
  DEF SendError, RevokeFamily, RefuseRefresh, DeadlockVictim, WaitsFor, RevokedNow,
      tokenVars, InHand, AnswersAreSound
<1>3. /\ phase'[r] = "idle"
      /\ \A q \in Requests \ {r} : phase'[q] = phase[q] /\ token'[q] = token[q]
  BY <1>2, FinishKeepsRequests DEF TokensInv
<1>4. Over(f)'
  <2>1. CASE RevokeFamily(r)
    <3>1. revoked' = revoked \cup Family(f) /\ Issued' = Issued
      BY <1>1, <1>2, <2>1 DEF RevokeFamily, RevokedNow, Issued
    <3> QED
      BY <1>2, <3>1 DEF Over, FamilyDead, Family, Live
  <2>2. CASE RefuseRefresh(r)
    <3>1. revoked' = revoked \cup {token[r]} /\ Live(token[r]) /\ Issued' = Issued
      BY <1>2, <2>2
      DEF RefuseRefresh, RevokedNow, Issued, TokensInv, LockedIsLive
    <3>2. \A t \in Family(f) : t \in revoked'
      BY <1>1, <1>2, <3>1 DEF Family, Live, Issued, TokensInv, AtMostOneLive
    <3> QED
      BY <1>2, <3>1, <3>2 DEF Over, FamilyDead, Family, Live
  <2>3. CASE DeadlockVictim(r)
    <3>1. Alarmed(f)
      BY <1>1, <2>3 DEF DeadlockVictim, WaitsFor, Alarmed
    <3> QED
      BY <3>1, OverStaysOver DEF Over
  <2> QED
    BY <2>1, <2>2, <2>3 DEF SendError
<1>5. \/ answer' = answer
      \/ answer' = [answer EXCEPT ![r] = [of |-> f, token |-> NoToken]]
  BY <1>2 DEF Send
<1>6. UNCHANGED <<memory, stored, abandoned>>
  BY <1>2 DEF Send, Wasted
<1>7. \A q \in Requests : answer[q] # NoAnswer => phase'[q] = "idle"
  BY <1>2, <1>3 DEF AnswersAreSound
<1>8. \A q \in Requests : InHand(q)' => InHand(q) /\ token'[q] = token[q]
  BY <1>3 DEF InHand
<1> QED
  BY <1>2, <1>3, <1>4, <1>5, <1>6, <1>7, <1>8, QuietKeepsHolding

(* Every step keeps what the browser holds in order. *)
LEMMA StepKeepsHolding ==
  ASSUME ClientInv, [ClientNext]_allVars
  PROVE  HoldingInv'
<1>1. ASSUME NEW r \in Requests, CallStep(r)
      PROVE  HoldingInv'
  <2>1. ASSUME NEW t \in TokenIds, SendTokens(r, t)
        PROVE  HoldingInv'
    <3>1. Rotate(r, t) => family[token[r]] \in TokenIds
      BY FamiliesExist DEF ClientInv, Rotate, InHand
    <3> QED
      BY <2>1, <3>1, SendingKeepsHolding DEF SendTokens
  <2>2. ASSUME LoseAnswer(r)
        PROVE  HoldingInv'
    <3>1. /\ UNCHANGED <<vars, memory, stored>> /\ answer[r] # NoAnswer
          /\ \A q \in Requests : answer'[q] = IF q \in {r} THEN NoAnswer ELSE answer[q]
          /\ abandoned' = abandoned \cup Wasted(answer[r])
      BY <2>2 DEF LoseAnswer, Return, ClientInv, ClientTypeOK
    <3>2. StoredIsNewest'
      BY <3>1, ServerStands DEF ClientInv, HoldingInv, StoredIsNewest
    <3>3. ASSUME NEW t \in Issued, t \in Held, t \notin Held'
          PROVE  family[t] \in Ended'
      <4>1. t = answer[r].token /\ t # NoToken
        BY <3>1, <3>3, FamiliesExist DEF Held, ClientInv
      <4>2. answer[r].of = family[t]
        BY <3>1, <4>1 DEF ClientInv, HoldingInv, AnswersAreSound
      <4> QED
        BY <3>1, <4>1, <4>2 DEF Wasted, Ended
    <3>4. \A b \in Tabs : memory'[b] \in {memory[b], stored, NoToken}
      BY <3>1
    <3>5. {r} \in SUBSET Requests /\ stored' \in {stored, NoToken}
          /\ abandoned \subseteq abandoned'
      BY <3>1
    <3> QED
      BY <3>1, <3>2, <3>3, <3>4, <3>5, BrowserKeepsHolding
  <2> QED
    BY <1>1, <2>1, <2>2, TakingKeepsHolding, RefusingKeepsHolding, ServingKeepsHolding
    DEF CallStep, Progress
<1>2. ASSUME NEW b \in Tabs, PageStep(b)
      PROVE  HoldingInv'
  <2>1. CASE BootFails(b) \/ EndLogout(b)
    BY <2>1, ClearingKeepsHolding DEF BootFails, EndLogout
  <2>2. CASE BootSucceeds(b) \/ AskLogout(b)
    <3>1. UNCHANGED <<vars, memory, stored, answer, abandoned>>
      BY <2>2 DEF BootSucceeds, AskLogout
    <3> QED
      BY <3>1, QuietKeepsHolding
      DEF vars, tokenVars, requestVars, InHand, ClientInv, HoldingInv, AnswersAreSound
  <2> QED
    BY <1>2, <2>1, <2>2, LoadingKeepsHolding, ServingKeepsHolding DEF PageStep
<1>3. CASE UNCHANGED allVars
  <2>1. UNCHANGED <<vars, memory, stored, answer, abandoned>>
    BY <1>3 DEF allVars, clientVars
  <2> QED
    BY <2>1, QuietKeepsHolding
    DEF vars, tokenVars, requestVars, InHand, ClientInv, HoldingInv, AnswersAreSound
<1> QED
  BY <1>1, <1>2, <1>3, ServingKeepsHolding DEF ClientNext

(* Tokens are issued and never taken back. *)
LEMMA IssuedGrows ==
  ASSUME TokensInv, [TokensNext]_vars
  PROVE  Issued \subseteq Issued'
<1>1. CASE \E r \in Requests, t \in TokenIds : FinishLogin(r, t) \/ Rotate(r, t)
  BY <1>1 DEF FinishLogin, Rotate, Issue, Issued, TokensInv, TokensTypeOK
<1>2. CASE ~ \E r \in Requests, t \in TokenIds : FinishLogin(r, t) \/ Rotate(r, t)
  <2>1. owner' = owner
    BY <1>2
    DEF TokensNext, LoginStep, RefreshStep, BeginLogin, BeginRefresh, LockToken,
        RevokeFamily, RefuseRefresh, DeadlockVictim, Crash, Logout, LogoutAll,
        SetStatus, Expire, vars, tokenVars
  <2> QED
    BY <2>1 DEF Issued
<1> QED
  BY <1>1, <1>2

(* Errors and tokens are answers, and only a call that waits gets one.     *)
LEMMA SendKeepsTypes ==
  ASSUME ClientTypeOK, Issued \subseteq Issued', NEW r \in Requests,
         NEW f \in TokenIds \cup {NoToken}, NEW t \in TokenIds \cup {NoToken},
         t # NoToken => f # NoToken, Send(r, [of |-> f, token |-> t])
  PROVE  ClientTypeOK'
<1>1. [of |-> f, token |-> t] \in Answers
  BY DEF Answers
<1>2. Wasted([of |-> f, token |-> t]) \subseteq TokenIds
  BY DEF Wasted
<1> QED
  BY <1>1, <1>2 DEF Send, ClientTypeOK

(* Tabs and localStorage have tokens that were issued. *)
LEMMA ReplaceKeepsTypes ==
  ASSUME TokensInv, ClientTypeOK, UNCHANGED vars, NEW b \in Tabs,
         NEW t \in Issued \cup {NoToken}, NEW f, Replace(b, t, f)
  PROVE  /\ memory' \in [Tabs -> Issued' \cup {NoToken}] /\ stored' \in Issued' \cup {NoToken}
         /\ abandoned' \subseteq TokenIds
<1>1. FamiliesOf({memory[b], stored}) \subseteq TokenIds
  BY FamiliesExist DEF FamiliesOf
<1>2. Issued' = Issued
  BY ServerStands
<1> QED
  BY <1>1, <1>2 DEF Replace, ClientTypeOK

(* Every step keeps the types. *)
LEMMA StepKeepsClientTypes ==
  ASSUME ClientInv, [ClientNext]_allVars
  PROVE  ClientTypeOK'
<1> USE ClientAssumption DEF ClientInv
<1>1. Issued \subseteq Issued'
  BY ClientStepIsTokensStep, IssuedGrows
<1>2. ASSUME UNCHANGED clientVars
      PROVE  ClientTypeOK'
  BY <1>1, <1>2 DEF clientVars, ClientTypeOK
<1>3. ASSUME NEW r \in Requests, CallStep(r)
      PROVE  ClientTypeOK'
  <2>1. ASSUME NEW w \in {"login", "refresh"}, Call(r, w), TabOf[r] \notin booting
        PROVE  ClientTypeOK'
    BY <1>1, <2>1 DEF Call, ClientTypeOK
  <2>2. CASE (\E u \in Users : SignIn(r, u)) \/ Refresh(r)
    BY <2>1, <2>2 DEF SignIn, Refresh
  <2>3. CASE RefuseUnserved(r)
    BY <1>1, <2>3 DEF RefuseUnserved, Unserved, Answers, ClientTypeOK
  <2>4. ASSUME NEW t \in TokenIds, SendTokens(r, t)
        PROVE  ClientTypeOK'
    <3>1. t # NoToken /\ (Rotate(r, t) => family[token[r]] \in TokenIds /\ family[token[r]] # NoToken)
      BY FamiliesExist, TokenAssumption DEF Rotate, InHand
    <3> QED
      BY <1>1, <2>4, <3>1, SendKeepsTypes DEF SendTokens
  <2>5. CASE SendError(r)
    <3>1. family[token[r]] \in TokenIds
      BY <2>5, FamiliesExist
      DEF SendError, RevokeFamily, RefuseRefresh, DeadlockVictim, WaitsFor, InHand
    <3> QED
      BY <1>1, <2>5, <3>1, SendKeepsTypes DEF SendError
  <2>6. ASSUME Return(r)
        PROVE  /\ at' \in [Requests -> {"none", "login", "refresh"}]
               /\ answer' \in [Requests -> Answers \cup {NoAnswer}]
               /\ \A q \in Requests : at[q] = "none" => at'[q] = "none"
               /\ \A q \in Requests : at'[q] = "none" => answer'[q] = NoAnswer
               /\ UNCHANGED <<vars, booting, parting>>
    BY <2>6 DEF Return, ClientTypeOK
  <2>7. CASE TakeAnswer(r)
    <3> DEFINE b == TabOf[r]
    <3>1. /\ answer[r] # NoAnswer /\ b \in Tabs /\ Replace(b, answer[r].token, answer[r].of)
          /\ signedIn' \in {signedIn, signedIn \cup {b}} /\ Return(r)
      BY <2>7 DEF TakeAnswer
    <3>2. answer[r].token \in Issued \cup {NoToken}
      BY <3>1 DEF HoldingInv, AnswersAreSound, End
    <3>3. b \notin booting
      BY <3>1 DEF ClientTypeOK
    <3>4. /\ memory' \in [Tabs -> Issued' \cup {NoToken}] /\ stored' \in Issued' \cup {NoToken}
          /\ abandoned' \subseteq TokenIds
      BY <2>6, <3>1, <3>2, ReplaceKeepsTypes
    <3> HIDE DEF b
    <3>5. signedIn' \subseteq Tabs /\ booting' \subseteq Tabs \ signedIn' /\ signedIn \subseteq signedIn'
      BY <2>6, <3>1, <3>3 DEF ClientTypeOK
    <3> QED
      BY <2>6, <3>1, <3>4, <3>5 DEF ClientTypeOK
  <2>8. CASE LoseAnswer(r)
    <3>1. Wasted(answer[r]) \subseteq TokenIds
      BY FamiliesExist DEF Wasted, HoldingInv, AnswersAreSound, End
    <3> QED
      BY <1>1, <2>6, <2>8, <3>1 DEF LoseAnswer, ClientTypeOK
  <2> QED
    BY <1>2, <1>3, <2>2, <2>3, <2>4, <2>5, <2>7, <2>8 DEF CallStep, Progress
<1>4. ASSUME NEW b \in Tabs, PageStep(b)
      PROVE  ClientTypeOK'
  <2>1. CASE Load(b)
    <3>1. \A q \in Requests : Wasted(answer[q]) \subseteq TokenIds
      BY FamiliesExist DEF Wasted, HoldingInv, AnswersAreSound, End
    <3>2. FamiliesOf({memory[b]}) \subseteq TokenIds
      BY FamiliesExist DEF FamiliesOf
    <3>3. abandoned' \subseteq TokenIds
      <4>1. CallsOf(b) \subseteq Requests /\ abandoned \subseteq TokenIds
        BY DEF CallsOf, ClientTypeOK
      <4> QED
        BY <2>1, <3>1, <3>2, <4>1 DEF Load
    <3> QED
      BY <1>1, <2>1, <3>3 DEF Load, CallsOf, ClientTypeOK
  <2>2. CASE BootFails(b) \/ EndLogout(b)
    <3>1. /\ memory' \in [Tabs -> Issued' \cup {NoToken}] /\ stored' \in Issued' \cup {NoToken}
          /\ abandoned' \subseteq TokenIds
      BY <2>2, ReplaceKeepsTypes DEF BootFails, EndLogout
    <3> QED
      BY <2>2, <3>1 DEF BootFails, EndLogout, ClientTypeOK
  <2>3. CASE BootSucceeds(b) \/ AskLogout(b)
    <3>1. memory[b] \in TokenIds \cup {NoToken}
      BY FamiliesExist DEF ClientTypeOK
    <3>2. CASE BootSucceeds(b)
      BY <1>1, <3>2 DEF BootSucceeds, ClientTypeOK
    <3>3. CASE AskLogout(b)
      BY <1>1, <3>1, <3>3 DEF AskLogout, ClientTypeOK
    <3> QED
      BY <2>3, <3>2, <3>3
  <2> QED
    BY <1>2, <1>4, <2>1, <2>2, <2>3 DEF PageStep, ServeLogout
<1> QED
  BY <1>2, <1>3, <1>4 DEF ClientNext, Elsewhere, allVars

(* The invariant holds in every behaviour of the client. *)
LEMMA ClientInvariance == ClientSpec => []ClientInv
<1>1. ClientInit => ClientTypeOK /\ HoldingInv
  <2> SUFFICES ASSUME ClientInit PROVE ClientTypeOK /\ HoldingInv
    OBVIOUS
  <2>1. Issued = {}
    BY DEF ClientInit, TokensInit, Issued
  <2> QED
    BY <2>1, ClientAssumption
    DEF ClientInit, ClientTypeOK, HoldingInv, AnswersAreSound, AnswersAreNews, Sent,
        StoredIsNewest, End, LiveTokenIsHeld, Live
<1>2. TokensInv /\ ChainInv /\ (ClientTypeOK /\ HoldingInv) /\ [ClientNext]_allVars
        => (ClientTypeOK /\ HoldingInv)'
  BY StepKeepsClientTypes, StepKeepsHolding DEF ClientInv
<1>3. TokensInv /\ ChainInv /\ (ClientTypeOK /\ HoldingInv) => ClientInv
  BY DEF ClientInv
<1> QED
  BY <1>1, <1>2, <1>3, ClientImplementsTokens, TokensInvariance, ChainInvariance, PTL
  DEF ClientSpec

(* Types; a page that loads makes no other call, and a call that returned  *)
(* has no answer.                                                          *)
THEOREM ClientTypeCorrect == ClientSpec => []ClientTypeOK
<1>1. ClientInv => ClientTypeOK
  BY DEF ClientInv
<1> QED
  BY <1>1, ClientInvariance, PTL

(* However many calls of however many tabs refresh at a time, the browser  *)
(* does not lose the live token of a session by itself.                    *)
THEOREM BrowserKeepsLiveToken == ClientSpec => []LiveTokenIsHeld
<1>1. ClientInv => LiveTokenIsHeld
  BY DEF ClientInv, HoldingInv
<1> QED
  BY <1>1, ClientInvariance, PTL
=============================================================================
