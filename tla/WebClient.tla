----------------------------- MODULE WebClient ------------------------------
(***************************************************************************)
(* The browser's side of a session (frontend/src/api.ts, App.tsx) and the  *)
(* server's (RefreshTokens).  Each tab has the refresh token in a variable *)
(* of its own and shares localStorage with the others, which it reads when *)
(* the page is loaded and never again.  A call that is answered 401        *)
(* refreshes with the tab's token by itself: several calls of a tab, and   *)
(* several tabs, do so at the same time with the same token.               *)
(*                                                                         *)
(* Request r of RefreshTokens is the refresh, or the login, of the call r. *)
(* Where a call is: none, login or refresh.  Its answer is on the way from *)
(* the step that ends the request to TakeAnswer or LoseAnswer.  The access *)
(* token may have expired at any time, so any call may be answered 401.    *)
(* It is written and cleared together with the refresh token.              *)
(***************************************************************************)
EXTENDS RefreshTokens

CONSTANTS
  Tabs,
  TabOf,          \* TabOf[r]: the tab that makes the call r
  NoAnswer,       \* nothing is on the way
  Staying         \* a tab in which nobody is logging out

(* What a request answers: tokens of a family, or an error (NoToken) about *)
(* one, or an error from before any handler (of no family).                *)
Answers == [of : TokenIds \cup {NoToken}, token : TokenIds \cup {NoToken}]
Unserved == [of |-> NoToken, token |-> NoToken]

ASSUME ClientAssumption ==
  /\ TabOf \in [Requests -> Tabs]
  /\ NoAnswer \notin Answers
  /\ Staying \notin TokenIds \cup {NoToken}
  /\ TokenIds \subseteq Nat

VARIABLES
  memory,         \* memory[b]: refreshToken in the api module of tab b
  stored,         \* the refresh token in localStorage
  signedIn,       \* tabs that show the workspace
  booting,        \* tabs that wait for /auth/me
  parting,        \* parting[b]: the token that b's logout sent
  at,             \* at[r]: where the call r is
  answer,         \* answer[r]: what is on the way to the call r
  abandoned       \* history: families whose newest token was thrown away

clientVars == <<memory, stored, signedIn, booting, parting, at, answer, abandoned>>
allVars == <<vars, clientVars>>

ClientInit ==
  /\ TokensInit
  /\ memory = [b \in Tabs |-> NoToken]
  /\ stored = NoToken
  /\ signedIn = {} /\ booting = {}
  /\ parting = [b \in Tabs |-> Staying]
  /\ at = [r \in Requests |-> "none"]
  /\ answer = [r \in Requests |-> NoAnswer]
  /\ abandoned = {}

-----------------------------------------------------------------------------
(* Calls *)

Call(r, w) ==
  /\ at[r] = "none"
  /\ at' = [at EXCEPT ![r] = w]
  /\ UNCHANGED <<memory, stored, signedIn, booting, parting, answer, abandoned>>

(* AuthPanel, on the landing page. *)
SignIn(r, u) ==
  /\ TabOf[r] \notin signedIn \cup booting
  /\ \A q \in Requests : at[q] = "login" => TabOf[q] # TabOf[r]
  /\ BeginLogin(r, u)
  /\ Call(r, "login")

(* A call is answered 401: lines 95 and 78 read the token of now.           *)
Refresh(r) ==
  /\ TabOf[r] \notin booting
  /\ memory[TabOf[r]] # NoToken
  /\ BeginRefresh(r, memory[TabOf[r]])
  /\ Call(r, "refresh")

(* The rate limiter answers 429 (main.py:62-68), or get_db has no          *)
(* connection: the token is not looked at, and stays as good as it was.    *)
RefuseUnserved(r) ==
  /\ TabOf[r] \notin booting
  /\ memory[TabOf[r]] # NoToken
  /\ at[r] = "none" /\ phase[r] = "idle"
  /\ at' = [at EXCEPT ![r] = "refresh"]
  /\ answer' = [answer EXCEPT ![r] = Unserved]
  /\ UNCHANGED <<vars, memory, stored, signedIn, booting, parting, abandoned>>

(* The family of tokens that nobody gets. *)
Wasted(a) == IF a = NoAnswer \/ a.token = NoToken THEN {} ELSE {a.of}

(* The request ends; nobody gets the answer if the page was left.          *)
Send(r, a) ==
  /\ answer' = IF at[r] = "none" THEN answer ELSE [answer EXCEPT ![r] = a]
  /\ abandoned' = IF at[r] = "none" THEN abandoned \cup Wasted(a) ELSE abandoned
  /\ UNCHANGED <<memory, stored, signedIn, booting, parting, at>>

(* refresh_tokens.id is AUTO_INCREMENT. *)
NextId(t) == t \in TokenIds \ Issued /\ \A s \in TokenIds \ Issued : t <= s

SendTokens(r, t) ==
  /\ NextId(t)
  /\ \/ FinishLogin(r, t) /\ Send(r, [of |-> t, token |-> t])
     \/ Rotate(r, t) /\ Send(r, [of |-> family[token[r]], token |-> t])

SendErrorButVictims(r) ==
  \/ /\ RevokeFamily(r) \/ RefuseRefresh(r)
     /\ Send(r, [of |-> family[token[r]], token |-> NoToken])
  \/ DeadlockVictim(r) /\ UNCHANGED clientVars
(* 401, 403 and, for the victim of a deadlock, 500. *)
SendError(r) ==
  /\ RevokeFamily(r) \/ RefuseRefresh(r) \/ DeadlockVictim(r)
  /\ Send(r, [of |-> family[token[r]], token |-> NoToken])

Return(r) ==
  /\ at' = [at EXCEPT ![r] = "none"]
  /\ answer' = [answer EXCEPT ![r] = NoAnswer]
  /\ UNCHANGED <<vars, booting, parting>>

FamiliesOf(tokens) == {family[t] : t \in tokens \cap Issued}

ReplaceAccessTokenOnly(b, t, f) ==
  /\ memory' = [memory EXCEPT ![b] = IF t = NoToken THEN t ELSE @]
  /\ stored' = IF t = NoToken THEN t ELSE stored
  /\ abandoned' = abandoned \cup (FamiliesOf({memory[b], stored}) \ {f})
(* setSession and clearTokens: what tab b and localStorage held is gone.   *)
Replace(b, t, f) ==
  /\ memory' = [memory EXCEPT ![b] = t]
  /\ stored' = t
  /\ abandoned' = abandoned \cup (FamiliesOf({memory[b], stored}) \ {f})

(* Lines 80-86: an answer is applied when it comes, whatever the tab holds *)
(* by then; any answer that is not ok clears the tokens, the page stays.   *)
TakeAnswer(r) ==
  LET b == TabOf[r]
  IN  /\ answer[r] # NoAnswer
      /\ Replace(b, answer[r].token, answer[r].of)
      /\ signedIn' = IF at[r] = "login" THEN signedIn \cup {b} ELSE signedIn
      /\ Return(r)

(* fetch rejects: the tokens stay, although the server has rotated them.   *)
LoseAnswer(r) ==
  /\ answer[r] # NoAnswer
  /\ abandoned' = abandoned \cup Wasted(answer[r])
  /\ Return(r)
  /\ UNCHANGED <<memory, stored, signedIn>>

-----------------------------------------------------------------------------
(* Pages *)

CallsOf(b) == {r \in Requests : TabOf[r] = b}

(* A page is opened or loaded again: its calls are gone, the module reads  *)
(* localStorage, and App asks for /auth/me if there is a token.            *)
Load(b) ==
  LET gone == CallsOf(b)
  IN  /\ memory' = [memory EXCEPT ![b] = stored]
      /\ signedIn' = signedIn \ {b}
      /\ booting' = IF stored = NoToken THEN booting \ {b} ELSE booting \cup {b}
      /\ parting' = [parting EXCEPT ![b] = Staying]
      /\ at' = [r \in Requests |-> IF r \in gone THEN "none" ELSE at[r]]
      /\ answer' = [r \in Requests |-> IF r \in gone THEN NoAnswer ELSE answer[r]]
      /\ abandoned' = abandoned
           \cup (UNION {Wasted(answer[r]) : r \in gone})
           \cup (FamiliesOf({memory[b]}) \ FamiliesOf({stored}))
      /\ UNCHANGED <<vars, stored>>

BootSucceeds(b) ==
  /\ b \in booting
  /\ booting' = booting \ {b}
  /\ signedIn' = signedIn \cup {b}
  /\ UNCHANGED <<vars, memory, stored, parting, at, answer, abandoned>>

(* Any failure of /auth/me, which line 95 excludes from refreshing.        *)
BootFails(b) ==
  /\ b \in booting
  /\ booting' = booting \ {b}
  /\ Replace(b, NoToken, NoToken)
  /\ UNCHANGED <<vars, signedIn, parting, at, answer>>

(* logout in App.tsx sends the refresh token, waits for the answer ...     *)
AskLogout(b) ==
  /\ b \in signedIn /\ parting[b] = Staying
  /\ parting' = [parting EXCEPT ![b] = memory[b]]
  /\ UNCHANGED <<vars, memory, stored, signedIn, booting, at, answer, abandoned>>

ServeLogout(b) ==
  /\ parting[b] \in TokenIds
  /\ Logout(parting[b])
  /\ UNCHANGED clientVars

(* ... and clears the tokens, whatever the answer was. *)
EndLogout(b) ==
  /\ parting[b] # Staying
  /\ parting' = [parting EXCEPT ![b] = Staying]
  /\ signedIn' = signedIn \ {b}
  /\ Replace(b, NoToken, NoToken)
  /\ UNCHANGED <<vars, booting, at, answer>>

(* What goes on by itself once a call was sent.  Row locks are granted in  *)
(* the order of their queue and InnoDB finds every deadlock, as in         *)
(* RefreshTokens (SF); an answer arrives or is lost.                       *)
Progress(r) ==
  \/ LockToken(r) /\ UNCHANGED clientVars
  \/ \E t \in TokenIds : SendTokens(r, t)
  \/ SendError(r)
  \/ TakeAnswer(r)
  \/ LoseAnswer(r)

CallStep(r) ==
  \/ \E u \in Users : SignIn(r, u)
  \/ Refresh(r) \/ RefuseUnserved(r)
  \/ Progress(r)

PageStep(b) ==
  \/ Load(b) \/ BootSucceeds(b) \/ BootFails(b)
  \/ AskLogout(b) \/ ServeLogout(b) \/ EndLogout(b)

(* Other devices and administrators.  Bound: no token expires, so that a   *)
(* refresh is refused because the account is disabled.                     *)
Elsewhere ==
  /\ \E u \in Users : LogoutAll(u) \/ SetStatus(u)
  /\ UNCHANGED clientVars

ClientNext ==
  \/ \E r \in Requests : CallStep(r)
  \/ \E b \in Tabs : PageStep(b)
  \/ Elsewhere

ClientSpec == ClientInit /\ [][ClientNext]_allVars

ClientFairness == \A r \in Requests : SF_allVars(Progress(r))

ClientLiveSpec == ClientSpec /\ ClientFairness

-----------------------------------------------------------------------------
(* Properties *)

(* Types; a page that is loading makes no other call, a call that has      *)
(* returned has no answer, and only a workspace logs out.                  *)
ClientTypeOK ==
  /\ memory \in [Tabs -> Issued \cup {NoToken}]
  /\ stored \in Issued \cup {NoToken}
  /\ signedIn \subseteq Tabs /\ booting \subseteq Tabs \ signedIn
  /\ parting \in [Tabs -> TokenIds \cup {NoToken, Staying}]
  /\ at \in [Requests -> {"none", "login", "refresh"}]
  /\ answer \in [Requests -> Answers \cup {NoAnswer}]
  /\ abandoned \subseteq TokenIds
  /\ \A r \in Requests : TabOf[r] \in booting => at[r] = "none"
  /\ \A r \in Requests : at[r] = "none" => answer[r] = NoAnswer
  /\ \A b \in Tabs : parting[b] # Staying => b \in signedIn

Held == {memory[b] : b \in Tabs} \cup {stored}
          \cup {answer[r].token : r \in {q \in Requests : answer[q] # NoAnswer}}

(* However many calls and tabs refresh at a time, the browser does not     *)
(* lose the live token of a session by itself: it holds it, or it is on    *)
(* the way, or reuse was detected and ends the session, or the newest      *)
(* answer was thrown away (lost, page left, logged out, another session),  *)
(* or an error that was no word on the token made the browser clear it.    *)
LiveTokenIsHeld ==
  \A t \in TokenIds :
    Live(t) => \/ t \in Held
               \/ \E r \in Requests : phase[r] = "reuse" /\ family[token[r]] = family[t]
               \/ family[t] \in abandoned

(* Every call of the browser gets an answer or an error, also the victim   *)
(* of a deadlock between two reuse alarms of one session.                  *)
EveryCallReturns == \A r \in Requests : at[r] # "none" ~> at[r] = "none"

(* What the answer of logout asks of the client: a tab that shows the      *)
(* landing page has thrown its tokens away.                                *)
LogoutSticks ==
  \A b \in Tabs : b \notin signedIn \cup booting => memory[b] = NoToken
=============================================================================
