---------------------------- MODULE AnalysisProofs ----------------------------
(***************************************************************************)
(* Theorems about Analysis, for any number of users, requests, analyses    *)
(* and keys, and whatever crashes or fails: an analysis uses points as     *)
(* Accounts says, is charged when it succeeds and at no other time, its    *)
(* key is billed if and only if it was charged, and it fails without a     *)
(* charge unless the database refuses its request something.               *)
(***************************************************************************)
EXTENDS Analysis, AccountsProofs, FiniteSetTheorems

(* A session that has not loaded its caller's row holds nothing.           *)
SessionInv ==
  \A r \in Requests : ~IsOpen(r) =>
    /\ seen[r] = NothingSeen /\ draft[r] = NoEntry
    /\ \A u \in Users : rowLock[u] # r

(* A request works on an analysis from persist_upload on, alone.           *)
Placed ==
  /\ \A r \in Requests : stage[r] # "idle" => r \in AnalyzeRequests
  /\ \A r \in Requests : item[r] # NoAnalysis <=> stage[r] \notin {"idle", "admitted"}
  /\ \A r, q \in Requests : item[r] # NoAnalysis /\ item[r] = item[q] => r = q

(* The rows of an analysis are there from its first commit on.             *)
RowsFollow ==
  /\ \A r \in Requests : stage[r] = "stored" => row[item[r]] = "ABSENT"
  /\ \A r \in Requests :
       stage[r] \notin {"idle", "admitted", "stored"} => row[item[r]] # "ABSENT"
  /\ \A a \in Analyses : upload[a] # "ABSENT" => row[a] # "ABSENT"
  /\ \A a \in Analyses : usage[a] # {} => row[a] \notin {"ABSENT", "PROCESSING"}

(* A request that has not committed the end of its analysis finds the      *)
(* analysis PROCESSING or deleted; of the requests that handle an exception*)
(* only one with database trouble may have committed it.                   *)
InWork(r) ==
  \/ stage[r] \in {"running", "analysed", "charged"}
  \/ r \notin DbTrouble /\ stage[r] \in {"failing", "marking"}
RowsInWork ==
  /\ \A r \in Requests : InWork(r) => row[item[r]] \in {"PROCESSING", "DELETED"}
  /\ \A r \in Requests :
       stage[r] = "reread" => row[item[r]] \in {"SUCCESS", "DELETED"}

(* The file goes before the path. *)
FileGoesFirst ==
  /\ \A r \in Requests : stage[r] = "unlinked" => item[r] \notin disk
  /\ ClearedMeansGone

AnalysisInv ==
  /\ AccountsTypeOK /\ SessionInv
  /\ AnalysisTypeOK /\ Placed /\ RowsFollow /\ FileGoesFirst /\ RowsInWork

-----------------------------------------------------------------------------
(* Analysis implements Accounts *)

(* Only an open session gets anything. *)
LEMMA SessionStep ==
  ASSUME AccountsTypeOK, SessionInv, [AccountsNext]_accountVars
  PROVE  SessionInv'
<1> USE CallerAssumption, NullAssumption DEF AccountsTypeOK, SessionInv, IsOpen
<1>1. ASSUME NEW r \in Requests, CloseSession(r)
      PROVE  SessionInv'
  BY <1>1 DEF CloseSession, NothingSeen
<1>2. ASSUME NEW r \in Requests, OpenSession(r)
      PROVE  SessionInv'
  <2>1. IsOpen(r)'
    <3>1. balance[Caller[r]] # Unseen
      BY DEF Unseen
    <3> QED
      BY <1>2, <3>1 DEF OpenSession, ReadBalance, NothingSeen
  <2>2. \A q \in Requests \ {r} : seen'[q] = seen[q] /\ draft'[q] = draft[q]
    BY <1>2 DEF OpenSession
  <2> QED
    BY <1>2, <2>1, <2>2 DEF OpenSession
<1>3. ASSUME NEW r \in Requests, NEW u \in Users, NEW change \in Changes,
             NEW about \in Subjects, ApplyPoints(r, u, change, about)
      PROVE  SessionInv'
  BY <1>3 DEF ApplyPoints, MayApply
<1>4. CASE UNCHANGED accountVars
  BY <1>4 DEF accountVars
<1> QED
  BY <1>1, <1>2, <1>3, <1>4
  DEF AccountsNext, AccountsStep, RefusePoints, CommitPoints, EndSession

(* A process that dies ends a session that was open and else nothing.      *)
LEMMA CrashIsAccountsStep ==
  ASSUME AccountsTypeOK, SessionInv, NEW r \in Requests, Crash(r)
  PROVE  EndSession(r) \/ UNCHANGED accountVars
<1>1. CloseSession(r) /\ UNCHANGED <<balance, ledger>>
  BY DEF Crash
<1>2. CASE IsOpen(r)
  BY <1>1, <1>2 DEF EndSession
<1>3. CASE ~IsOpen(r)
  <2>1. rowLock' = rowLock
    BY <1>1, <1>3 DEF CloseSession, SessionInv, AccountsTypeOK
  <2>2. seen' = seen /\ draft' = draft
    BY <1>1, <1>3 DEF CloseSession, SessionInv, AccountsTypeOK
  <2> QED
    BY <1>1, <2>1, <2>2 DEF accountVars
<1> QED
  BY <1>2, <1>3

(* Every step of every request is a step of its session, or none. *)
LEMMA AnalysisStepIsAccountsStep ==
  ASSUME AccountsTypeOK, SessionInv, AnalysisTypeOK, Placed, [AnalysisNext]_vars
  PROVE  [AccountsNext]_accountVars
<1>1. ASSUME NEW r \in Requests, OpenSession(r) \/ EndSession(r) \/ CommitPoints(r)
      PROVE  AccountsNext
  BY <1>1 DEF AccountsNext, AccountsStep
<1>2. ASSUME NEW r \in Requests, AnalyzeStep(r)
      PROVE  [AccountsNext]_accountVars
  <2>1. CASE Charge(r)
    <3>1. item[r] \in Subjects /\ Caller[r] \in Users /\ -Cost \in Changes
      BY <2>1, AnalysisAssumption, CallerAssumption
      DEF Charge, At, AnalysisTypeOK, Placed
    <3>2. ApplyPoints(r, Caller[r], -Cost, item[r])
      BY <2>1 DEF Charge
    <3> QED
      BY <3>1, <3>2 DEF AccountsNext, AccountsStep
  <2> QED
    BY <1>1, <1>2, <2>1
    DEF AnalyzeStep, Start, RefuseAdmission, Persist, RefuseFile, CreateRows,
        InsertFails, AnalyzeDone, AnalyzeFails, CommitSuccess, CommitFails,
        Reread, RereadFails, ReadForFailure, MarkFailed, MarkFails, Unlink, Clear, UnlinkOnly, ClearFails
<1>3. ASSUME NEW r \in Requests, Crash(r)
      PROVE  [AccountsNext]_accountVars
  BY <1>1, <1>3, CrashIsAccountsStep
<1>4. ASSUME NEW r \in Requests, OtherStep(r)
      PROVE  AccountsNext
  BY <1>4 DEF OtherStep, AccountsNext, AccountsStep
<1>5. ASSUME NEW a \in Analyses, DeleteHistory(a)
      PROVE  UNCHANGED accountVars
  BY <1>5 DEF DeleteHistory
<1>6. ASSUME NEW k \in ApiKeys, IssueKey(k) \/ RevokeKey(k)
      PROVE  UNCHANGED accountVars
  BY <1>6 DEF IssueKey, RevokeKey
<1>7. CASE UNCHANGED vars
  BY <1>7 DEF vars
<1> QED
  BY <1>2, <1>3, <1>4, <1>5, <1>6, <1>7 DEF AnalysisNext

-----------------------------------------------------------------------------
(* Types and places *)

(* The part of the invariant that the actions of this module disturb. *)
PlaceInv == AnalysisTypeOK /\ Placed /\ RowsFollow /\ FileGoesFirst

(* Nothing is asked of a request that has no analysis. *)
LEMMA LeaveKeepsPlaces ==
  ASSUME PlaceInv, NEW r \in Requests, Leave(r), UNCHANGED <<upload, row, job, usage, key>>,
         disk' \subseteq disk
  PROVE  PlaceInv'
<1> USE AnalysisAssumption DEF PlaceInv, Leave, Move, AnalysisTypeOK
<1>1. AnalysisTypeOK'
  OBVIOUS
<1>2. Placed'
  BY DEF Placed
<1>3. RowsFollow'
  BY DEF Placed, RowsFollow
<1>4. FileGoesFirst'
  BY DEF FileGoesFirst, ClearedMeansGone
<1> QED
  BY <1>1, <1>2, <1>3, <1>4

(* A request that goes on with its analysis, whose tables stay as they are.*)
LEMMA MoveKeepsPlaces ==
  ASSUME PlaceInv, NEW r \in AnalyzeRequests, NEW s,
         stage[r] \notin {"idle", "admitted", "stored"},
         s \in {"analysed", "charged", "failing", "marking", "aborting", "cleanup"},
         Move(r, s), UNCHANGED <<item, disk, upload, row, job, usage, key>>
  PROVE  PlaceInv'
<1> USE AnalysisAssumption DEF PlaceInv, Move, AnalysisTypeOK
<1>1. AnalysisTypeOK'
  OBVIOUS
<1>2. Placed'
  BY DEF Placed
<1>3. RowsFollow'
  BY DEF RowsFollow
<1>4. FileGoesFirst'
  BY DEF FileGoesFirst, ClearedMeansGone
<1> QED
  BY <1>1, <1>2, <1>3, <1>4

(* The end of an analysis: its rows settle together. *)
LEMMA SettleKeepsPlaces ==
  ASSUME PlaceInv, NEW r \in AnalyzeRequests, NEW s \in {"SUCCESS", "FAILED"},
         NEW outcome \in {"BILLED", "FREE"}, stage[r] \in {"charged", "marking"},
         row' = [row EXCEPT ![item[r]] = s], job' = [job EXCEPT ![item[r]] = s],
         Used(r, outcome), NEW t \in {"reread", "cleanup"}, Move(r, t),
         UNCHANGED <<item, disk, upload, key>>
  PROVE  PlaceInv'
<1> USE AnalysisAssumption DEF PlaceInv, Move, AnalysisTypeOK
<1>1. item[r] \in Analyses
  BY DEF Placed
<1>2. AnalysisTypeOK'
  BY <1>1 DEF Used, WithLine
<1>3. Placed'
  BY DEF Placed
<1>4. RowsFollow'
  BY <1>1 DEF RowsFollow, Placed, Used, WithLine
<1>5. FileGoesFirst'
  BY DEF FileGoesFirst, ClearedMeansGone
<1> QED
  BY <1>2, <1>3, <1>4, <1>5

(* Every action keeps types and places. *)
LEMMA StepKeepsPlaces ==
  ASSUME PlaceInv, [AnalysisNext]_vars
  PROVE  PlaceInv'
<1> USE AnalysisAssumption DEF PlaceInv
<1>1. ASSUME NEW r \in Requests, Start(r) \/ RefuseAdmission(r)
      PROVE  PlaceInv'
  <2> USE DEF AnalysisTypeOK, At, Move
  <2>1. CASE Start(r)
    BY <2>1 DEF Start, Placed, RowsFollow, FileGoesFirst, ClearedMeansGone
  <2>2. CASE RefuseAdmission(r)
    <3>1. item[r] = NoAnalysis
      BY <2>2 DEF RefuseAdmission, Placed
    <3>2. /\ usage' \in [Analyses \cup {NoAnalysis} -> SUBSET {"BILLED", "FREE"}]
          /\ \A a \in Analyses : usage'[a] = usage[a]
      BY <2>2, <3>1 DEF RefuseAdmission, Used, WithLine
    <3>3. UNCHANGED <<stage, item, disk, upload, row, job, key>>
      BY <2>2 DEF RefuseAdmission
    <3> QED
      BY <3>2, <3>3 DEF Placed, RowsFollow, FileGoesFirst, ClearedMeansGone
  <2> QED
    BY <1>1, <2>1, <2>2
<1>2. ASSUME NEW r \in Requests, NEW a \in Analyses, Persist(r, a)
      PROVE  PlaceInv'
  <2> USE <1>2 DEF Persist, At, Move, Fresh, AnalysisTypeOK
  <2>1. AnalysisTypeOK'
    OBVIOUS
  <2>2. Placed'
    BY DEF Placed
  <2>3. RowsFollow'
    BY DEF RowsFollow
  <2>4. FileGoesFirst'
    BY DEF FileGoesFirst, ClearedMeansGone, RowsFollow
  <2> QED
    BY <2>1, <2>2, <2>3, <2>4
<1>3. ASSUME NEW r \in Requests, CreateRows(r)
      PROVE  PlaceInv'
  <2> USE <1>3 DEF CreateRows, At, Move, AnalysisTypeOK
  <2>1. item[r] \in Analyses
    BY DEF Placed
  <2>2. AnalysisTypeOK'
    BY <2>1
  <2>3. Placed'
    BY DEF Placed
  <2>4. RowsFollow'
    BY <2>1 DEF Placed, RowsFollow
  <2>5. FileGoesFirst'
    BY <2>1 DEF FileGoesFirst, ClearedMeansGone
  <2> QED
    BY <2>2, <2>3, <2>4, <2>5
<1>4. ASSUME NEW r \in Requests,
             \/ AnalyzeDone(r) \/ AnalyzeFails(r) \/ Charge(r) \/ CommitFails(r)
             \/ Reread(r) \/ RereadFails(r) \/ ReadForFailure(r) \/ MarkFails(r)
      PROVE  PlaceInv'
  <2>1. PICK s \in {"analysed", "charged", "failing", "marking", "aborting", "cleanup"} :
          Move(r, s)
    BY <1>4 DEF AnalyzeDone, AnalyzeFails, Charge, CommitFails, Reread, RereadFails,
                ReadForFailure, MarkFails
  <2>2. /\ r \in AnalyzeRequests /\ stage[r] \notin {"idle", "admitted", "stored"}
        /\ UNCHANGED <<item, disk, upload, row, job, usage, key>>
    BY <1>4 DEF AnalyzeDone, AnalyzeFails, Charge, CommitFails, Reread, RereadFails,
                ReadForFailure, MarkFails, At
  <2> QED
    BY <2>1, <2>2, MoveKeepsPlaces
<1>5. ASSUME NEW r \in Requests, CommitSuccess(r) \/ MarkFailed(r)
      PROVE  PlaceInv'
  BY <1>5, SettleKeepsPlaces DEF CommitSuccess, MarkFailed, At
<1>6. ASSUME NEW r \in Requests, Unlink(r)
      PROVE  PlaceInv'
  <2> USE <1>6 DEF Unlink, At, Move, AnalysisTypeOK
  <2>1. AnalysisTypeOK' /\ Placed'
    BY DEF Placed
  <2>2. RowsFollow' /\ FileGoesFirst'
    BY DEF RowsFollow, FileGoesFirst, ClearedMeansGone
  <2> QED
    BY <2>1, <2>2
<1>7. ASSUME NEW r \in Requests, Clear(r)
      PROVE  PlaceInv'
  <2> USE <1>7 DEF Clear, At, Leave, Move, AnalysisTypeOK
  <2>1. item[r] \in Analyses
    BY DEF Placed
  <2>2. AnalysisTypeOK'
    BY <2>1
  <2>3. Placed'
    BY DEF Placed
  <2>4. RowsFollow' /\ FileGoesFirst'
    BY <2>1 DEF Placed, RowsFollow, FileGoesFirst, ClearedMeansGone
  <2> QED
    BY <2>2, <2>3, <2>4
<1>8. ASSUME NEW r \in Requests,
             \/ RefuseFile(r) \/ InsertFails(r) \/ UnlinkOnly(r) \/ ClearFails(r)
             \/ Crash(r)
      PROVE  PlaceInv'
  BY <1>8, LeaveKeepsPlaces DEF RefuseFile, InsertFails, UnlinkOnly, ClearFails, Crash
<1>9. ASSUME NEW a \in Analyses, DeleteHistory(a)
      PROVE  PlaceInv'
  <2> USE <1>9 DEF DeleteHistory, AnalysisTypeOK
  <2>1. AnalysisTypeOK' /\ Placed'
    BY DEF Placed
  <2>2. RowsFollow' /\ FileGoesFirst'
    BY DEF Placed, RowsFollow, FileGoesFirst, ClearedMeansGone
  <2> QED
    BY <2>1, <2>2
<1>10. ASSUME NEW k \in ApiKeys, IssueKey(k) \/ RevokeKey(k)
       PROVE  PlaceInv'
  BY <1>10 DEF IssueKey, RevokeKey, AnalysisTypeOK, Placed, RowsFollow, FileGoesFirst,
               ClearedMeansGone
<1>11. CASE UNCHANGED analysisVars
  BY <1>11 DEF analysisVars, AnalysisTypeOK, Placed, RowsFollow, FileGoesFirst,
               ClearedMeansGone
<1> QED
  BY <1>1, <1>2, <1>3, <1>4, <1>5, <1>6, <1>7, <1>8, <1>9, <1>10, <1>11
  DEF AnalysisNext, AnalyzeStep, OtherStep, vars

(* A request's step is a step of an analyze request, and leaves the stages *)
(* and the analyses of the others.                                         *)
LEMMA OthersStay ==
  ASSUME AnalysisTypeOK, Placed, NEW r \in Requests, AnalyzeStep(r) \/ Crash(r)
  PROVE  /\ \A q \in Requests \ {r} : stage'[q] = stage[q] /\ item'[q] = item[q]
         /\ r \in AnalyzeRequests
BY DEF Crash, AnalyzeStep, Start, RefuseAdmission, Persist, RefuseFile, CreateRows,
       InsertFails, AnalyzeDone, AnalyzeFails, Charge, CommitSuccess, CommitFails,
       Reread, RereadFails, ReadForFailure, MarkFailed, MarkFails, Unlink, Clear,
       UnlinkOnly, ClearFails, Leave, Move, At, AnalysisTypeOK, Placed

(* It changes the status of no analysis but its own. *)
LEMMA OthersKeepRows ==
  ASSUME AnalysisTypeOK, Placed, NEW r \in Requests, AnalyzeStep(r) \/ Crash(r),
         NEW a \in Analyses, a # item[r]
  PROVE  row'[a] = row[a]
BY DEF Crash, AnalyzeStep, Start, RefuseAdmission, Persist, RefuseFile, CreateRows,
       InsertFails, AnalyzeDone, AnalyzeFails, Charge, CommitSuccess, CommitFails,
       Reread, RereadFails, ReadForFailure, MarkFailed, MarkFails, Unlink, Clear,
       UnlinkOnly, ClearFails, AnalysisTypeOK

(* A request in work finds its own analysis PROCESSING or deleted, since   *)
(* nobody else ends it.                                                    *)
LEMMA StepKeepsWork ==
  ASSUME PlaceInv, RowsInWork, [AnalysisNext]_vars
  PROVE  RowsInWork'
<1> USE AnalysisAssumption DEF PlaceInv
<1>1. \A r \in Requests : InWork(r) \/ stage[r] = "reread" => item[r] \in Analyses
  BY DEF Placed, InWork, AnalysisTypeOK
<1>2. ASSUME NEW r \in Requests, AnalyzeStep(r) \/ Crash(r)
      PROVE  RowsInWork'
  <2>1. \A q \in Requests \ {r} : stage'[q] = stage[q] /\ item'[q] = item[q]
    BY <1>2, OthersStay
  <2>2. ASSUME NEW q \in Requests \ {r}, item[q] \in Analyses
        PROVE  row'[item[q]] = row[item[q]]
    <3>1. item[q] # item[r]
      BY <2>2 DEF Placed
    <3> QED
      BY <1>2, <2>2, <3>1, OthersKeepRows
  <2>3. ASSUME NEW q \in Requests \ {r}
        PROVE  /\ InWork(q)' => row'[item'[q]] \in {"PROCESSING", "DELETED"}
               /\ stage'[q] = "reread" => row'[item'[q]] \in {"SUCCESS", "DELETED"}
    BY <1>1, <2>1, <2>2 DEF RowsInWork, InWork
  <2>4. /\ InWork(r)' => row'[item'[r]] \in {"PROCESSING", "DELETED"}
        /\ stage'[r] = "reread" => row'[item'[r]] \in {"SUCCESS", "DELETED"}
    <3> USE DEF AnalysisTypeOK, At, Move, InWork
    <3>1. CASE CreateRows(r)
      <4>1. item[r] \in Analyses
        BY <3>1 DEF CreateRows, Placed
      <4> QED
        BY <3>1, <4>1 DEF CreateRows
    <3>2. CASE CommitSuccess(r)
      <4>1. item[r] \in Analyses
        BY <3>2 DEF CommitSuccess, Placed
      <4> QED
        BY <3>2, <4>1 DEF CommitSuccess
    <3>3. CASE MarkFailed(r)
      BY <3>3 DEF MarkFailed
    <3>4. CASE \/ AnalyzeDone(r) \/ AnalyzeFails(r) \/ Charge(r) \/ CommitFails(r)
               \/ RereadFails(r) \/ ReadForFailure(r)
      <4>1. UNCHANGED <<item, row>>
        BY <3>4 DEF AnalyzeDone, AnalyzeFails, Charge, CommitFails, RereadFails,
                    ReadForFailure
      <4>2. CASE InWork(r)
        <5>1. stage'[r] # "reread"
          BY <3>4 DEF AnalyzeDone, AnalyzeFails, Charge, CommitFails, RereadFails,
                      ReadForFailure
        <5> QED
          BY <4>1, <4>2, <5>1 DEF RowsInWork
      <4>3. CASE ~InWork(r)
        <5>1. stage'[r] # "reread" /\ (InWork(r)' => RereadFails(r) /\ r \notin DbTrouble)
          BY <3>4, <4>3 DEF AnalyzeDone, AnalyzeFails, Charge, CommitFails, RereadFails,
                            ReadForFailure
        <5>2. RereadFails(r) /\ r \notin DbTrouble => row[item[r]] = "DELETED"
          BY DEF RereadFails, StillThere
        <5> QED
          BY <4>1, <5>1, <5>2
      <4> QED
        BY <4>2, <4>3
    <3>5. CASE \/ Start(r) \/ RefuseAdmission(r) \/ (\E a \in Analyses : Persist(r, a))
               \/ RefuseFile(r) \/ InsertFails(r) \/ Reread(r) \/ MarkFails(r)
               \/ Unlink(r) \/ Clear(r) \/ UnlinkOnly(r) \/ ClearFails(r) \/ Crash(r)
      BY <3>5 DEF Start, RefuseAdmission, Persist, RefuseFile, InsertFails, Reread,
                  MarkFails, Unlink, Clear, UnlinkOnly, ClearFails, Crash, Leave
    <3> QED
      BY <1>2, <3>1, <3>2, <3>3, <3>4, <3>5 DEF AnalyzeStep
  <2> QED
    BY <2>3, <2>4 DEF RowsInWork
<1>3. ASSUME NEW a \in Analyses, DeleteHistory(a)
      PROVE  RowsInWork'
  <2>1. UNCHANGED <<stage, item>> /\ row' = [row EXCEPT ![a] = "DELETED"]
    BY <1>3 DEF DeleteHistory
  <2>2. \A b \in Analyses : row'[b] \in {row[b], "DELETED"}
    BY <2>1 DEF AnalysisTypeOK
  <2> QED
    BY <1>1, <2>1, <2>2 DEF RowsInWork, InWork
<1>4. CASE UNCHANGED <<stage, item, row>>
  BY <1>4 DEF RowsInWork, InWork
<1> QED
  BY <1>2, <1>3, <1>4
  DEF AnalysisNext, OtherStep, IssueKey, RevokeKey, vars, analysisVars

(* Types and places hold in every behaviour. *)
LEMMA AnalysisInvariance == AnalysisSpec => []AnalysisInv
<1>1. AnalysisInit => AnalysisInv
  <2> SUFFICES ASSUME AnalysisInit PROVE AnalysisInv
    OBVIOUS
  <2>1. AccountsTypeOK
    BY InitTypes DEF AnalysisInit
  <2>2. SessionInv
    BY NullAssumption DEF AnalysisInit, AccountsInit, SessionInv
  <2>3. PlaceInv
    BY AnalysisAssumption
    DEF AnalysisInit, KeysInit, PlaceInv, AnalysisTypeOK, Placed, RowsFollow,
        FileGoesFirst, ClearedMeansGone
  <2>4. RowsInWork
    BY DEF AnalysisInit, RowsInWork, InWork
  <2> QED
    BY <2>1, <2>2, <2>3, <2>4 DEF AnalysisInv, PlaceInv
<1>2. AnalysisInv /\ [AnalysisNext]_vars => AnalysisInv'
  BY AnalysisStepIsAccountsStep, StepTypes, SessionStep, StepKeepsPlaces, StepKeepsWork
  DEF AnalysisInv, PlaceInv
<1> QED
  BY <1>1, <1>2, PTL DEF AnalysisSpec

(* Tables, files and requests keep their types, and an analysis and its    *)
(* job always have the same status (songs.py:76-147, 198-203).             *)
THEOREM AnalysisTypeCorrect == AnalysisSpec => []AnalysisTypeOK
<1>1. AnalysisInv => AnalysisTypeOK
  BY DEF AnalysisInv
<1> QED
  BY <1>1, AnalysisInvariance, PTL

(* An upload row loses its path only after the file is gone, whatever dies *)
(* or fails in between (the finally block, songs.py:148-154).              *)
THEOREM ClearedFilesAreGone == AnalysisSpec => []ClearedMeansGone
<1>1. AnalysisInv => ClearedMeansGone
  BY DEF AnalysisInv, FileGoesFirst
<1> QED
  BY <1>1, AnalysisInvariance, PTL

(* An analysis uses points only through apply_points, as Accounts says,    *)
(* also when its process dies: what is proved of Accounts holds of it.     *)
THEOREM AnalysisImplementsAccounts == AnalysisSpec => AccountsSpec
<1>1. AnalysisInit => AccountsInit
  BY DEF AnalysisInit
<1>2. AnalysisInv /\ [AnalysisNext]_vars => [AccountsNext]_accountVars
  BY AnalysisStepIsAccountsStep DEF AnalysisInv
<1> QED
  BY <1>1, <1>2, AnalysisInvariance, PTL DEF AnalysisSpec, AccountsSpec

-----------------------------------------------------------------------------
(* What is charged *)

(* The bound MaxEntries holds, for a draft takes the last place of its row *)
(* and the row lock keeps others out.                                      *)
RoomInv ==
  /\ \A u \in Users : Len(ledger[u]) <= MaxEntries
  /\ \A r \in Requests : draft[r] # NoEntry => Len(ledger[draft[r].user]) < MaxEntries

LEMMA RoomStep ==
  ASSUME AccountsInv, RoomInv, [AccountsNext]_accountVars
  PROVE  RoomInv'
<1> USE AmountAssumption DEF AccountsInv
<1>1. ASSUME NEW r \in Requests, CloseSession(r), UNCHANGED ledger
      PROVE  RoomInv'
  BY <1>1 DEF CloseSession, RoomInv, AccountsTypeOK
<1>2. ASSUME NEW r \in Requests, NEW u \in Users, NEW change \in Changes,
             NEW about \in Subjects, ApplyPoints(r, u, change, about)
      PROVE  RoomInv'
  <2>1. draft'[r].user = u /\ \A q \in Requests \ {r} : draft'[q] = draft[q]
    BY <1>2 DEF ApplyPoints, AccountsTypeOK
  <2>2. Len(ledger[u]) < MaxEntries /\ UNCHANGED ledger
    BY <1>2 DEF ApplyPoints
  <2> QED
    BY <2>1, <2>2 DEF RoomInv
<1>3. ASSUME NEW r \in Requests, CommitPoints(r)
      PROVE  RoomInv'
  <2>1. /\ draft[r] # NoEntry /\ Len(ledger[draft[r].user]) < MaxEntries
        /\ draft[r].user \in Users
    BY <1>3 DEF CommitPoints, RoomInv, AccountsTypeOK, Entry
  <2>2. ASSUME NEW u \in Users
        PROVE  IF u = draft[r].user THEN Len(ledger'[u]) = Len(ledger[u]) + 1
                                    ELSE ledger'[u] = ledger[u]
    BY <1>3, CommitPosted
  <2>3. \A u \in Users : Len(ledger'[u]) <= MaxEntries
    <3> SUFFICES ASSUME NEW u \in Users PROVE Len(ledger'[u]) <= MaxEntries
      OBVIOUS
    <3>1. Len(ledger[u]) \in Nat /\ Len(ledger[u]) <= MaxEntries
      BY DEF RoomInv, AccountsTypeOK
    <3> QED
      BY <2>1, <2>2, <3>1
  <2>4. ASSUME NEW q \in Requests, draft'[q] # NoEntry
        PROVE  Len(ledger'[draft'[q].user]) < MaxEntries
    <3>1. q # r /\ draft'[q] = draft[q] /\ draft[q].user \in Users
      BY <1>3, <2>4 DEF CommitPoints, CloseSession, AccountsTypeOK, Entry
    <3>2. draft[q].user # draft[r].user
      BY <2>1, <2>4, <3>1 DEF LockInv
    <3> QED
      BY <2>2, <2>4, <3>1, <3>2 DEF RoomInv
  <2> QED
    BY <2>3, <2>4 DEF RoomInv
<1>4. CASE UNCHANGED <<ledger, draft>>
  BY <1>4 DEF RoomInv
<1> QED
  BY <1>1, <1>2, <1>3, <1>4
  DEF AccountsNext, AccountsStep, OpenSession, RefusePoints, EndSession, accountVars

(* The charge of an analysis is in the session of its request until the    *)
(* commit of SUCCESS; other requests draft lines about other things.       *)
DraftsAreCharges ==
  \A r \in Requests : draft[r] # NoEntry =>
    IF r \in AnalyzeRequests
    THEN stage[r] = "charged" /\ draft[r].about = item[r]
    ELSE draft[r].about \notin Analyses

Uncharged(a) == \A u \in Users : PostedAbout(u, a) = {}
ChargedOnce(a) ==
  \E v \in Users :
    /\ \E n \in Nat : PostedAbout(v, a) = {n}
    /\ \A u \in Users \ {v} : PostedAbout(u, a) = {}

ChargesPosted ==
  \A a \in Analyses :
    /\ row[a] \in {"ABSENT", "PROCESSING"} => Uncharged(a)
    /\ row[a] = "SUCCESS" => ChargedOnce(a)

ChargeInv == DraftsAreCharges /\ ChargesPosted

(* A commit of others leaves every analysis as it is. *)
LEMMA OtherCommitPosts ==
  ASSUME AccountsTypeOK, DraftsAreCharges, NEW r \in Requests \ AnalyzeRequests,
         CommitPoints(r), NEW a \in Analyses
  PROVE  \A u \in Users : PostedAbout(u, a)' = PostedAbout(u, a)
<1> SUFFICES ASSUME NEW u \in Users
             PROVE  PostedAbout(u, a)' = PostedAbout(u, a)
  OBVIOUS
<1>1. draft[r].about # a
  BY DEF DraftsAreCharges, CommitPoints
<1>2. CASE u = draft[r].user
  <2>1. PostedAbout(u, a)' = PostedAbout(u, a) \cup {}
    BY <1>1, <1>2, CommitPosted
  <2> QED
    BY <2>1
<1>3. CASE u # draft[r].user
  BY <1>3, CommitPosted
<1> QED
  BY <1>2, <1>3

(* The commit of SUCCESS posts one line about its analysis, no other.      *)
LEMMA SuccessPosts ==
  ASSUME AccountsTypeOK, DraftsAreCharges, AnalysisTypeOK,
         NEW r \in AnalyzeRequests, CommitSuccess(r), NEW a \in Analyses
  PROVE  IF a = item[r]
         THEN Uncharged(a) => ChargedOnce(a)'
         ELSE \A u \in Users : PostedAbout(u, a)' = PostedAbout(u, a)
<1>1. CommitPoints(r) /\ draft[r] # NoEntry /\ r \in Requests
  BY AnalysisAssumption DEF CommitSuccess, CommitPoints
<1>2. draft[r].about = item[r] /\ draft[r].user \in Users
  BY <1>1 DEF DraftsAreCharges, AccountsTypeOK, Entry
<1>3. ASSUME NEW u \in Users, u # draft[r].user
      PROVE  PostedAbout(u, a)' = PostedAbout(u, a)
  BY <1>1, <1>3, CommitPosted
<1>4. PICK v \in Users : v = draft[r].user
  BY <1>2
<1>5. CASE a = item[r]
  <2>1. PICK n \in Nat : PostedAbout(v, a)' = PostedAbout(v, a) \cup {n}
    BY <1>1, <1>2, <1>4, <1>5, CommitPosted
  <2>2. ASSUME Uncharged(a)
        PROVE  ChargedOnce(a)'
    <3>1. PostedAbout(v, a)' = {n}
      BY <2>1, <2>2 DEF Uncharged
    <3>2. \A u \in Users \ {v} : PostedAbout(u, a)' = {}
      BY <1>3, <1>4, <2>2 DEF Uncharged
    <3> QED
      BY <3>1, <3>2 DEF ChargedOnce
  <2> QED
    BY <1>5, <2>2
<1>6. CASE a # item[r]
  <2>1. PostedAbout(v, a)' = PostedAbout(v, a) \cup {}
    BY <1>1, <1>2, <1>4, <1>6, CommitPosted
  <2> QED
    BY <1>3, <1>4, <1>6, <2>1
<1> QED
  BY <1>5, <1>6

(* A draft is the charge of the analysis its request works on. *)
LEMMA StepKeepsDrafts ==
  ASSUME AnalysisInv, DraftsAreCharges, [AnalysisNext]_vars
  PROVE  DraftsAreCharges'
<1> USE AnalysisAssumption DEF AnalysisInv
<1>1. ASSUME NEW r \in Requests,
             \A q \in Requests \ {r} :
               draft'[q] = draft[q] /\ stage'[q] = stage[q] /\ item'[q] = item[q],
             draft'[r] = NoEntry
      PROVE  DraftsAreCharges'
  BY <1>1 DEF DraftsAreCharges
<1>2. ASSUME NEW r \in Requests, AnalyzeStep(r) \/ Crash(r)
      PROVE  /\ \A q \in Requests \ {r} : stage'[q] = stage[q] /\ item'[q] = item[q]
             /\ r \in AnalyzeRequests
  BY <1>2, OthersStay
<1>3. ASSUME NEW r \in Requests, AnalyzeStep(r) \/ Crash(r), ~Charge(r)
      PROVE  CloseSession(r) \/ (draft' = draft /\ stage[r] # "charged")
  BY <1>3 DEF Crash, AnalyzeStep, Start, RefuseAdmission, Persist, RefuseFile, CreateRows,
              InsertFails, AnalyzeDone, AnalyzeFails, CommitSuccess, CommitFails,
              Reread, RereadFails, ReadForFailure, MarkFailed, MarkFails, Unlink, Clear,
              UnlinkOnly, ClearFails, At, OpenSession, EndSession, CommitPoints, accountVars
<1>4. ASSUME NEW r \in Requests, CloseSession(r)
      PROVE  draft'[r] = NoEntry /\ \A q \in Requests \ {r} : draft'[q] = draft[q]
  BY <1>4 DEF CloseSession, AccountsTypeOK
<1>5. ASSUME NEW r \in Requests, AnalyzeStep(r) \/ Crash(r), ~Charge(r)
      PROVE  DraftsAreCharges'
  <2>1. CASE CloseSession(r)
    BY <1>1, <1>2, <1>4, <1>5, <2>1
  <2>2. CASE draft' = draft /\ stage[r] # "charged"
    <3>1. draft'[r] = NoEntry
      BY <1>2, <1>5, <2>2 DEF DraftsAreCharges
    <3> QED
      BY <1>1, <1>2, <1>5, <2>2, <3>1
  <2> QED
    BY <1>3, <1>5, <2>1, <2>2
<1>6. ASSUME NEW r \in Requests, Charge(r)
      PROVE  DraftsAreCharges'
  <2>1. /\ draft'[r].about = item[r] /\ item' = item
        /\ \A q \in Requests \ {r} : draft'[q] = draft[q] /\ stage'[q] = stage[q]
    BY <1>6 DEF Charge, ApplyPoints, Move, AccountsTypeOK
  <2>2. stage'[r] = "charged" /\ r \in AnalyzeRequests
    BY <1>6 DEF Charge, Move, At, AnalysisTypeOK
  <2> QED
    BY <2>1, <2>2 DEF DraftsAreCharges
<1>7. ASSUME NEW r \in Requests, OtherStep(r)
      PROVE  DraftsAreCharges'
  <2>1. r \notin AnalyzeRequests /\ UNCHANGED <<stage, item>>
    BY <1>7 DEF OtherStep, analysisVars
  <2>2. ASSUME NEW u \in Users, NEW change \in Changes,
               NEW about \in Subjects \ Analyses, ApplyPoints(r, u, change, about)
        PROVE  DraftsAreCharges'
    <3>1. /\ draft'[r].about = about
          /\ \A q \in Requests \ {r} : draft'[q] = draft[q]
      BY <2>2 DEF ApplyPoints, AccountsTypeOK
    <3> QED
      BY <2>1, <3>1 DEF DraftsAreCharges
  <2>3. CASE CloseSession(r)
    BY <1>1, <1>4, <2>1, <2>3
  <2>4. CASE draft' = draft
    BY <2>1, <2>4 DEF DraftsAreCharges
  <2> QED
    BY <1>7, <2>2, <2>3, <2>4
    DEF OtherStep, OpenSession, RefusePoints, CommitPoints, EndSession
<1>8. CASE UNCHANGED <<draft, stage, item>>
  BY <1>8 DEF DraftsAreCharges
<1> QED
  BY <1>5, <1>6, <1>7, <1>8
  DEF AnalysisNext, DeleteHistory, IssueKey, RevokeKey, vars, accountVars, analysisVars

(* What a step does to the statuses and the charges of all analyses. *)
LEMMA StepPosts ==
  ASSUME AnalysisInv, DraftsAreCharges, [AnalysisNext]_vars
  PROVE  \/ \E r \in AnalyzeRequests : CommitSuccess(r)
         \/ /\ \A a \in Analyses, u \in Users : PostedAbout(u, a)' = PostedAbout(u, a)
            /\ \A a \in Analyses : \/ row'[a] = row[a] \/ row'[a] = "DELETED"
                                   \/ row[a] = "ABSENT" /\ row'[a] = "PROCESSING"
                                   \/ row[a] # "DELETED" /\ row'[a] = "FAILED"
<1> USE AnalysisAssumption DEF AnalysisInv, AnalysisTypeOK
<1>1. UNCHANGED ledger => \A a \in Analyses, u \in Users : PostedAbout(u, a)' = PostedAbout(u, a)
  BY DEF PostedAbout
<1>2. ASSUME NEW r \in Requests, AnalyzeStep(r) \/ Crash(r), ~CommitSuccess(r)
      PROVE  UNCHANGED ledger
  BY <1>2 DEF Crash, AnalyzeStep, Start, RefuseAdmission, Persist, RefuseFile, CreateRows,
              InsertFails, AnalyzeDone, AnalyzeFails, Charge, CommitFails, Reread,
              RereadFails, ReadForFailure, MarkFailed, MarkFails, Unlink, Clear,
              UnlinkOnly, ClearFails, OpenSession, EndSession, ApplyPoints, accountVars
<1>3. ASSUME NEW r \in Requests, AnalyzeStep(r) \/ Crash(r), ~CommitSuccess(r),
             ~CreateRows(r), ~MarkFailed(r)
      PROVE  UNCHANGED row
  BY <1>3 DEF Crash, AnalyzeStep, Start, RefuseAdmission, Persist, RefuseFile,
              InsertFails, AnalyzeDone, AnalyzeFails, Charge, CommitFails, Reread,
              RereadFails, ReadForFailure, MarkFails, Unlink, Clear, UnlinkOnly, ClearFails
<1>4. ASSUME NEW r \in Requests, CreateRows(r) \/ MarkFailed(r), NEW a \in Analyses
      PROVE  \/ row'[a] = row[a]
             \/ row[a] = "ABSENT" /\ row'[a] = "PROCESSING"
             \/ row[a] # "DELETED" /\ row'[a] = "FAILED"
  BY <1>4 DEF CreateRows, MarkFailed, At, StillThere, RowsFollow
<1>5. ASSUME NEW r \in Requests, OtherStep(r)
      PROVE  /\ UNCHANGED row
             /\ UNCHANGED ledger \/ (CommitPoints(r) /\ r \notin AnalyzeRequests)
  BY <1>5 DEF OtherStep, analysisVars, OpenSession, ApplyPoints, RefusePoints, EndSession
<1>6. ASSUME NEW d \in Analyses, DeleteHistory(d)
      PROVE  /\ UNCHANGED ledger
             /\ \A a \in Analyses : row'[a] = row[a] \/ row'[a] = "DELETED"
  BY <1>6 DEF DeleteHistory, accountVars
<1>7. ASSUME NEW k \in ApiKeys, IssueKey(k) \/ RevokeKey(k)
      PROVE  UNCHANGED <<ledger, row>>
  BY <1>7 DEF IssueKey, RevokeKey, accountVars
<1>8. CASE UNCHANGED vars
  BY <1>1, <1>8 DEF vars, accountVars, analysisVars
<1>9. ASSUME NEW r \in Requests, CommitSuccess(r)
      PROVE  r \in AnalyzeRequests
  BY <1>9 DEF CommitSuccess, At
<1> QED
  BY <1>1, <1>2, <1>3, <1>4, <1>5, <1>6, <1>7, <1>8, <1>9, OtherCommitPosts
  DEF AnalysisNext

(* The statuses after the commit of SUCCESS. *)
LEMMA SuccessSettles ==
  ASSUME AnalysisInv, NEW r \in AnalyzeRequests, CommitSuccess(r)
  PROVE  /\ item[r] \in Analyses /\ row[item[r]] = "PROCESSING"
         /\ row' = [row EXCEPT ![item[r]] = "SUCCESS"]
         /\ Used(r, "BILLED")
BY AnalysisAssumption
DEF CommitSuccess, At, StillThere, AnalysisInv, Placed, AnalysisTypeOK, RowsInWork, InWork

LEMMA StepKeepsCharges ==
  ASSUME AnalysisInv, ChargeInv, [AnalysisNext]_vars
  PROVE  ChargesPosted'
<1> USE DEF ChargeInv
<1>1. ASSUME NEW r \in AnalyzeRequests, CommitSuccess(r)
      PROVE  ChargesPosted'
  <2> SUFFICES ASSUME NEW a \in Analyses
               PROVE  /\ row'[a] \in {"ABSENT", "PROCESSING"} => Uncharged(a)'
                      /\ row'[a] = "SUCCESS" => ChargedOnce(a)'
    BY DEF ChargesPosted
  <2>1. /\ row[item[r]] = "PROCESSING" /\ item[r] \in Analyses
        /\ row' = [row EXCEPT ![item[r]] = "SUCCESS"]
    BY <1>1, SuccessSettles
  <2>2. row \in [Analyses -> {"ABSENT", "PROCESSING", "SUCCESS", "FAILED", "DELETED"}]
    BY DEF AnalysisInv, AnalysisTypeOK
  <2>3. CASE a = item[r]
    BY <1>1, <2>1, <2>2, <2>3, SuccessPosts DEF ChargesPosted, AnalysisInv
  <2>4. CASE a # item[r]
    <3>1. \A u \in Users : PostedAbout(u, a)' = PostedAbout(u, a)
      BY <1>1, <2>4, SuccessPosts DEF AnalysisInv
    <3>2. (Uncharged(a)' <=> Uncharged(a)) /\ (ChargedOnce(a)' <=> ChargedOnce(a))
      BY <3>1 DEF Uncharged, ChargedOnce
    <3> QED
      BY <2>1, <2>2, <2>4, <3>2 DEF ChargesPosted
  <2> QED
    BY <2>3, <2>4
<1>2. ASSUME \A a \in Analyses, u \in Users : PostedAbout(u, a)' = PostedAbout(u, a),
             \A a \in Analyses : \/ row'[a] = row[a] \/ row'[a] = "DELETED"
                                 \/ row[a] = "ABSENT" /\ row'[a] = "PROCESSING"
                                 \/ row[a] # "DELETED" /\ row'[a] = "FAILED"
      PROVE  ChargesPosted'
  <2>1. \A a \in Analyses : /\ Uncharged(a)' <=> Uncharged(a)
                            /\ ChargedOnce(a)' <=> ChargedOnce(a)
    BY <1>2 DEF Uncharged, ChargedOnce
  <2> QED
    BY <1>2, <2>1 DEF ChargesPosted
<1> QED
  BY <1>1, <1>2, StepPosts

(* ChargesFor in terms of the places of each user. *)
ChargesCounted ==
  \A a \in Analyses :
    /\ ChargesFor(a) = {at \in Users \X (1..MaxEntries) : at[2] \in PostedAbout(at[1], a)}
    /\ Uncharged(a) <=> ChargesFor(a) = {}
    /\ ChargedOnce(a) => \E at : ChargesFor(a) = {at}

LEMMA CountedWithinBound ==
  ASSUME AccountsTypeOK, RoomInv
  PROVE  ChargesCounted
<1> SUFFICES ASSUME NEW a \in Analyses
             PROVE  /\ ChargesFor(a) = {at \in Users \X (1..MaxEntries) :
                                          at[2] \in PostedAbout(at[1], a)}
                    /\ Uncharged(a) <=> ChargesFor(a) = {}
                    /\ ChargedOnce(a) => \E at : ChargesFor(a) = {at}
  BY DEF ChargesCounted
<1>1. ChargesFor(a) = {at \in Users \X (1..MaxEntries) : at[2] \in PostedAbout(at[1], a)}
  BY AmountAssumption DEF ChargesFor, PostedAbout, AccountsTypeOK
<1>2. Uncharged(a) <=> ChargesFor(a) = {}
  <2>1. ASSUME NEW u \in Users, NEW n, n \in PostedAbout(u, a)
        PROVE  <<u, n>> \in ChargesFor(a)
    <3>1. n \in 1..Len(ledger[u])
      BY <2>1 DEF PostedAbout
    <3>2. n \in 1..MaxEntries
      BY <3>1, AmountAssumption DEF RoomInv, AccountsTypeOK
    <3> QED
      BY <1>1, <2>1, <3>2
  <2>2. ChargesFor(a) = {} => Uncharged(a)
    BY <2>1, Zenon DEF Uncharged
  <2> QED
    BY <1>1, <2>2 DEF Uncharged
<1>3. ASSUME ChargedOnce(a)
      PROVE  \E at : ChargesFor(a) = {at}
  <2>1. PICK v \in Users, n \in Nat :
          PostedAbout(v, a) = {n} /\ \A u \in Users \ {v} : PostedAbout(u, a) = {}
    BY <1>3 DEF ChargedOnce
  <2>2. n \in 1..Len(ledger[v])
    BY <2>1 DEF PostedAbout
  <2>3. n \in 1..MaxEntries
    BY <2>2, AmountAssumption DEF RoomInv, AccountsTypeOK
  <2>4. \A at \in Users \X (1..MaxEntries) :
          at[2] \in PostedAbout(at[1], a) <=> at = <<v, n>>
    BY <2>1
  <2>5. ChargesFor(a) = {<<v, n>>}
    BY <1>1, <2>3, <2>4
  <2> QED
    BY <2>5
<1> QED
  BY <1>1, <1>2, <1>3

(* Everything above, in every behaviour. *)
LEMMA ChargeInvariance ==
  AnalysisSpec => [](AnalysisInv /\ ChargeInv /\ ChargesCounted)
<1>1. AnalysisInit => ChargeInv /\ RoomInv
  BY AnalysisAssumption, CallerAssumption, AmountAssumption
  DEF AnalysisInit, AccountsInit, ChargeInv, DraftsAreCharges, ChargesPosted,
      Uncharged, PostedAbout, RoomInv
<1>2. AnalysisInv /\ ChargeInv /\ [AnalysisNext]_vars => ChargeInv'
  BY StepKeepsDrafts, StepKeepsCharges DEF ChargeInv
<1>3. AccountsInit => RoomInv
  BY AmountAssumption DEF AccountsInit, RoomInv
<1>4. AccountsInv /\ RoomInv /\ [AccountsNext]_accountVars => RoomInv'
  BY RoomStep
<1>5. AccountsSpec => []RoomInv
  BY <1>3, <1>4, Invariance, PTL DEF AccountsSpec
<1>6. AnalysisInv /\ RoomInv => ChargesCounted
  BY CountedWithinBound DEF AnalysisInv
<1> QED
  BY <1>1, <1>2, <1>5, <1>6, AnalysisInvariance, AnalysisImplementsAccounts, PTL
  DEF AnalysisSpec

(* An analysis whose places in the ledgers stay keeps its charges. *)
LEMMA SamePlaces ==
  ASSUME ChargesCounted, ChargesCounted', NEW a \in Analyses,
         \A u \in Users : PostedAbout(u, a)' = PostedAbout(u, a)
  PROVE  ChargesFor(a)' = ChargesFor(a)
<1>1. /\ ChargesFor(a) = {at \in Users \X (1..MaxEntries) : at[2] \in PostedAbout(at[1], a)}
      /\ ChargesFor(a)' = {at \in Users \X (1..MaxEntries) : at[2] \in PostedAbout(at[1], a)'}
  BY DEF ChargesCounted, PostedAbout
<1>2. \A at \in Users \X (1..MaxEntries) : PostedAbout(at[1], a)' = PostedAbout(at[1], a)
  BY DEF PostedAbout
<1> QED
  BY <1>1, <1>2

(* An analysis gets its one ledger line in the step that makes it SUCCESS, *)
(* and no step before or after it changes that, whatever fails in between, *)
(* dies or is deleted (songs.py:101-147, 198-203).                         *)
THEOREM ChargedBySuccess == AnalysisSpec => ChargedWhenItSucceeds
<1>1. ASSUME AnalysisInv, ChargeInv, ChargeInv', ChargesCounted, ChargesCounted',
             [AnalysisNext]_vars
      PROVE  [\A a \in Analyses :
                IF row[a] # "SUCCESS" /\ row'[a] = "SUCCESS"
                THEN ChargesFor(a) = {} /\ Cardinality(ChargesFor(a)') = 1
                ELSE ChargesFor(a)' = ChargesFor(a)]_vars
  <2> SUFFICES ASSUME NEW a \in Analyses
               PROVE  IF row[a] # "SUCCESS" /\ row'[a] = "SUCCESS"
                      THEN ChargesFor(a) = {} /\ Cardinality(ChargesFor(a)') = 1
                      ELSE ChargesFor(a)' = ChargesFor(a)
    OBVIOUS
  <2>1. CASE /\ \A u \in Users : PostedAbout(u, a)' = PostedAbout(u, a)
             /\ ~(row[a] # "SUCCESS" /\ row'[a] = "SUCCESS")
    BY <1>1, <2>1, SamePlaces
  <2>2. ASSUME NEW r \in AnalyzeRequests, CommitSuccess(r), a = item[r]
        PROVE  /\ row[a] # "SUCCESS" /\ row'[a] = "SUCCESS"
               /\ ChargesFor(a) = {} /\ Cardinality(ChargesFor(a)') = 1
    <3>1. row[a] = "PROCESSING" /\ row'[a] = "SUCCESS"
      BY <1>1, <2>2, SuccessSettles DEF AnalysisInv, AnalysisTypeOK
    <3>2. ChargesFor(a) = {}
      BY <1>1, <3>1 DEF ChargeInv, ChargesPosted, ChargesCounted
    <3>3. \E at : ChargesFor(a)' = {at}
      BY <1>1, <3>1 DEF ChargeInv, ChargesPosted, ChargesCounted
    <3> QED
      BY <3>1, <3>2, <3>3, FS_Singleton
  <2>3. ASSUME NEW r \in AnalyzeRequests, CommitSuccess(r), a # item[r]
        PROVE  /\ \A u \in Users : PostedAbout(u, a)' = PostedAbout(u, a)
               /\ row'[a] = row[a]
    <3>1. row' = [row EXCEPT ![item[r]] = "SUCCESS"]
      BY <1>1, <2>3, SuccessSettles
    <3> QED
      BY <1>1, <2>3, <3>1, SuccessPosts DEF AnalysisInv, AnalysisTypeOK, ChargeInv
  <2> QED
    BY <1>1, <2>1, <2>2, <2>3, StepPosts DEF ChargeInv
<1> QED
  BY <1>1, ChargeInvariance, PTL DEF AnalysisSpec, ChargedWhenItSucceeds

(* A deleted analysis stays deleted and is never charged afterwards, not   *)
(* even by a request that had already drafted its charge: the flush finds  *)
(* no row to update (songs.py:198-203 against 103-121).                    *)
THEOREM DeletedIsFree == AnalysisSpec => DeletedStaysFree
<1>1. ASSUME AnalysisInv, ChargeInv, ChargesCounted, ChargesCounted', [AnalysisNext]_vars
      PROVE  [\A a \in Analyses : row[a] = "DELETED" =>
                row'[a] = "DELETED" /\ ChargesFor(a)' = ChargesFor(a)]_vars
  <2> SUFFICES ASSUME NEW a \in Analyses, row[a] = "DELETED"
               PROVE  row'[a] = "DELETED" /\ ChargesFor(a)' = ChargesFor(a)
    OBVIOUS
  <2>1. ASSUME NEW r \in AnalyzeRequests, CommitSuccess(r)
        PROVE  row'[a] = "DELETED" /\ \A u \in Users : PostedAbout(u, a)' = PostedAbout(u, a)
    <3>1. a # item[r] /\ row' = [row EXCEPT ![item[r]] = "SUCCESS"]
      BY <2>1, <1>1, SuccessSettles
    <3> QED
      BY <1>1, <2>1, <3>1, SuccessPosts DEF AnalysisInv, AnalysisTypeOK, ChargeInv
  <2>2. row'[a] = "DELETED" /\ \A u \in Users : PostedAbout(u, a)' = PostedAbout(u, a)
    BY <1>1, <2>1, StepPosts DEF ChargeInv
  <2> QED
    BY <1>1, <2>2, SamePlaces
<1> QED
  BY <1>1, ChargeInvariance, PTL DEF AnalysisSpec, DeletedStaysFree

-----------------------------------------------------------------------------
(* What is said of it *)

(* Only the commits that settle an analysis change its status to a settled *)
(* one or write a usage line of it.                                        *)
LEMMA UsageStep ==
  ASSUME AnalysisInv, [AnalysisNext]_vars, NEW a \in Analyses
  PROVE  \/ \E r \in AnalyzeRequests :
              item[r] = a /\ (CommitSuccess(r) \/ MarkFailed(r))
         \/ /\ usage'[a] = usage[a]
            /\ row'[a] \in {row[a], "PROCESSING", "DELETED"}
            /\ \A r \in Requests : item'[r] = a => item[r] = a \/ row'[a] = "ABSENT"
<1> USE AnalysisAssumption DEF AnalysisInv, AnalysisTypeOK
<1> DEFINE Same == /\ usage'[a] = usage[a]
                   /\ row'[a] \in {row[a], "PROCESSING", "DELETED"}
           Own(q) == item'[q] = a => item[q] = a \/ row'[a] = "ABSENT"
<1>1. ASSUME NEW r \in Requests, AnalyzeStep(r) \/ Crash(r)
      PROVE  r \in AnalyzeRequests /\ \A q \in Requests \ {r} : Own(q)
  BY <1>1, OthersStay
<1>2. ASSUME NEW r \in Requests, CommitSuccess(r) \/ MarkFailed(r), item[r] # a
      PROVE  Same /\ \A q \in Requests : Own(q)
  BY <1>2 DEF CommitSuccess, MarkFailed, Used, WithLine
<1>3. ASSUME NEW r \in Requests, RefuseAdmission(r)
      PROVE  Same /\ \A q \in Requests : Own(q)
  <2>1. item[r] = NoAnalysis
    BY <1>3 DEF RefuseAdmission, At, Placed
  <2> QED
    BY <1>3, <2>1 DEF RefuseAdmission, Used, WithLine
<1>4. ASSUME NEW r \in Requests, NEW b \in Analyses, Persist(r, b)
      PROVE  Same /\ Own(r)
  BY <1>4 DEF Persist, Fresh
<1>5. ASSUME NEW r \in Requests, CreateRows(r)
      PROVE  Same /\ Own(r)
  BY <1>5 DEF CreateRows
<1>6. ASSUME NEW r \in Requests, Start(r) \/ AnalyzeDone(r) \/ AnalyzeFails(r) \/ Charge(r)
             \/ CommitFails(r) \/ Reread(r) \/ RereadFails(r) \/ ReadForFailure(r)
             \/ MarkFails(r) \/ Unlink(r)
      PROVE  Same /\ Own(r)
  BY <1>6 DEF Start, AnalyzeDone, AnalyzeFails, Charge, CommitFails, Reread, RereadFails,
              ReadForFailure, MarkFails, Unlink
<1>7. ASSUME NEW r \in Requests, RefuseFile(r) \/ InsertFails(r) \/ Clear(r)
             \/ UnlinkOnly(r) \/ ClearFails(r) \/ Crash(r)
      PROVE  Same /\ Own(r)
  BY <1>7 DEF RefuseFile, InsertFails, Clear, UnlinkOnly, ClearFails, Crash, Leave
<1>8. ASSUME NEW r \in Requests, OtherStep(r)
      PROVE  Same /\ \A q \in Requests : Own(q)
  BY <1>8 DEF OtherStep, analysisVars
<1>9. ASSUME NEW d \in Analyses, DeleteHistory(d)
      PROVE  Same /\ \A q \in Requests : Own(q)
  BY <1>9 DEF DeleteHistory
<1>10. ASSUME NEW k \in ApiKeys, IssueKey(k) \/ RevokeKey(k)
       PROVE  Same /\ \A q \in Requests : Own(q)
  BY <1>10 DEF IssueKey, RevokeKey
<1>11. CASE UNCHANGED vars
  BY <1>11 DEF vars, analysisVars
<1>12. ASSUME NEW r \in Requests, AnalyzeStep(r) \/ Crash(r)
       PROVE  \/ item[r] = a /\ (CommitSuccess(r) \/ MarkFailed(r))
              \/ Same /\ \A q \in Requests : Own(q)
  <2> HIDE DEF Same, Own
  <2>1. CASE CommitSuccess(r) \/ MarkFailed(r)
    BY <1>2, <2>1
  <2>2. CASE RefuseAdmission(r)
    BY <1>3, <2>2
  <2>3. CASE ~(CommitSuccess(r) \/ MarkFailed(r) \/ RefuseAdmission(r))
    <3>1. Same /\ Own(r)
      BY <1>4, <1>5, <1>6, <1>7, <1>12, <2>3 DEF AnalyzeStep
    <3> QED
      BY <1>1, <1>12, <3>1
  <2> QED
    BY <2>1, <2>2, <2>3
<1> QED
  BY <1>1, <1>8, <1>9, <1>10, <1>11, <1>12 DEF AnalysisNext

(* A request whose database refuses it nothing marks its analysis FAILED   *)
(* only when it is still PROCESSING, thus not charged (songs.py:124-147).  *)
THEOREM FailedIsFree == AnalysisSpec => FailureIsFree
<1>1. ASSUME AnalysisInv, ChargeInv, ChargesCounted, ChargesCounted', [AnalysisNext]_vars
      PROVE  [\A r \in AnalyzeRequests \ DbTrouble, a \in Analyses :
                item[r] = a /\ row[a] # "FAILED" /\ row'[a] = "FAILED"
                  => ChargesFor(a)' = {}]_vars
  <2> SUFFICES ASSUME NEW r \in AnalyzeRequests \ DbTrouble, NEW a \in Analyses,
                      item[r] = a, row[a] # "FAILED", row'[a] = "FAILED"
               PROVE  ChargesFor(a)' = {}
    OBVIOUS
  <2>1. PICK q \in AnalyzeRequests : item[q] = a /\ (CommitSuccess(q) \/ MarkFailed(q))
    BY <1>1, UsageStep
  <2>2. q = r
    BY <1>1, <2>1, AnalysisAssumption DEF AnalysisInv, Placed
  <2>3. ~CommitSuccess(q)
    BY <1>1, <2>1, SuccessSettles DEF AnalysisInv, AnalysisTypeOK
  <2>4. row[a] = "PROCESSING"
    <3>1. InWork(r) /\ row[a] # "DELETED"
      BY <2>1, <2>2, <2>3 DEF MarkFailed, At, StillThere, InWork
    <3> QED
      BY <1>1, <3>1, AnalysisAssumption DEF AnalysisInv, RowsInWork
  <2>5. ChargesFor(a) = {}
    BY <1>1, <2>4 DEF ChargeInv, ChargesPosted, ChargesCounted
  <2>6. \A u \in Users : PostedAbout(u, a)' = PostedAbout(u, a)
    <3>1. ASSUME NEW p \in AnalyzeRequests, CommitSuccess(p)
          PROVE  FALSE
      <4>1. /\ item[p] \in Analyses /\ row[item[p]] = "PROCESSING"
            /\ row' = [row EXCEPT ![item[p]] = "SUCCESS"]
        BY <1>1, <3>1, SuccessSettles
      <4> QED
        BY <1>1, <4>1 DEF AnalysisInv, AnalysisTypeOK
    <3> QED
      BY <1>1, <3>1, StepPosts DEF ChargeInv
  <2>7. ChargesFor(a)' = ChargesFor(a)
    BY <1>1, <2>6, SamePlaces
  <2> QED
    BY <2>5, <2>7
<1> QED
  BY <1>1, ChargeInvariance, PTL DEF AnalysisSpec, FailureIsFree

(* A line is billed for a charge only; a request with a key that has       *)
(* settled its analysis has left a line.                                   *)
UsageInv ==
  /\ \A a \in Analyses :
       usage[a] # {} => ("BILLED" \in usage[a] <=> ~Uncharged(a))
  /\ \A r \in ApiRequests, a \in Analyses :
       item[r] = a /\ row[a] \in {"SUCCESS", "FAILED"} => usage[a] # {}

(* What the two commits that settle an analysis leave in its usage log. *)
LEMMA SettledLines ==
  ASSUME AnalysisInv, NEW r \in AnalyzeRequests, NEW a \in Analyses, item[r] = a,
         CommitSuccess(r) \/ MarkFailed(r)
  PROVE  /\ usage[a] \subseteq usage'[a]
         /\ r \notin ApiRequests => usage'[a] = usage[a]
         /\ r \in ApiRequests /\ CommitSuccess(r) => usage'[a] = usage[a] \cup {"BILLED"}
         /\ r \in ApiRequests /\ MarkFailed(r) => usage'[a] = usage[a] \cup {"FREE"}
BY DEF CommitSuccess, MarkFailed, Used, WithLine, AnalysisInv, AnalysisTypeOK

(* The lines of an analysis match its charges after every step. *)
LEMMA StepKeepsUsage ==
  ASSUME AnalysisInv, ChargeInv, ChargeInv', UsageInv, [AnalysisNext]_vars
  PROVE  UsageInv'
<1> USE AnalysisAssumption
<1>1. ASSUME NEW a \in Analyses, \A u \in Users : PostedAbout(u, a)' = PostedAbout(u, a)
      PROVE  Uncharged(a)' <=> Uncharged(a)
  BY <1>1 DEF Uncharged
<1>2. ASSUME NEW r \in AnalyzeRequests, CommitSuccess(r), NEW a \in Analyses, item[r] = a
      PROVE  usage'[a] # {} => ("BILLED" \in usage'[a] <=> ~Uncharged(a)')
  <2>1. row[a] = "PROCESSING" /\ row'[a] = "SUCCESS"
    BY <1>2, SuccessSettles DEF AnalysisInv, AnalysisTypeOK
  <2>2. usage[a] = {}
    BY <2>1 DEF AnalysisInv, RowsFollow
  <2>3. ChargedOnce(a)'
    BY <2>1 DEF ChargeInv, ChargesPosted
  <2>4. ~Uncharged(a)'
    BY <2>3 DEF ChargedOnce, Uncharged
  <2> QED
    BY <1>2, <2>2, <2>4, SettledLines
<1>3. ASSUME NEW r \in AnalyzeRequests, MarkFailed(r), NEW a \in Analyses, item[r] = a,
             Uncharged(a)' <=> Uncharged(a)
      PROVE  usage'[a] # {} => ("BILLED" \in usage'[a] <=> ~Uncharged(a)')
  <2>1. CASE r \notin ApiRequests
    BY <1>3, <2>1, SettledLines DEF UsageInv
  <2>2. CASE r \in ApiRequests
    <3>1. "BILLED" \in usage'[a] <=> "BILLED" \in usage[a]
      BY <1>3, <2>2, SettledLines
    <3>2. CASE usage[a] # {}
      BY <1>3, <3>1, <3>2 DEF UsageInv
    <3>3. CASE usage[a] = {}
      <4>1. row[a] \notin {"SUCCESS", "FAILED", "DELETED"}
        BY <1>3, <2>2, <3>3 DEF UsageInv, MarkFailed, StillThere
      <4>2. Uncharged(a)
        BY <4>1 DEF AnalysisInv, AnalysisTypeOK, ChargeInv, ChargesPosted
      <4> QED
        BY <1>3, <3>1, <3>3, <4>2
    <3> QED
      BY <3>2, <3>3
  <2> QED
    BY <2>1, <2>2
<1>4. ASSUME NEW r \in AnalyzeRequests, CommitSuccess(r), NEW a \in Analyses, item[r] # a
      PROVE  Uncharged(a)' <=> Uncharged(a)
  BY <1>1, <1>4, SuccessPosts DEF AnalysisInv, ChargeInv
<1>5. ASSUME NEW a \in Analyses, ~(\E r \in AnalyzeRequests : CommitSuccess(r) /\ item[r] = a)
      PROVE  Uncharged(a)' <=> Uncharged(a)
  BY <1>1, <1>4, <1>5, StepPosts DEF ChargeInv
<1>6. ASSUME NEW a \in Analyses
      PROVE  usage'[a] # {} => ("BILLED" \in usage'[a] <=> ~Uncharged(a)')
  <2>1. CASE \E r \in AnalyzeRequests : item[r] = a /\ CommitSuccess(r)
    BY <1>2, <2>1
  <2>2. CASE /\ ~(\E r \in AnalyzeRequests : item[r] = a /\ CommitSuccess(r))
             /\ \E r \in AnalyzeRequests : item[r] = a /\ MarkFailed(r)
    BY <1>3, <1>5, <2>2
  <2>3. CASE ~(\E r \in AnalyzeRequests : item[r] = a /\ (CommitSuccess(r) \/ MarkFailed(r)))
    <3>1. usage'[a] = usage[a]
      BY <2>3, UsageStep
    <3> QED
      BY <1>5, <2>3, <3>1 DEF UsageInv
  <2> QED
    BY <2>1, <2>2, <2>3
<1>7. ASSUME NEW r \in ApiRequests, NEW a \in Analyses, item'[r] = a,
             row'[a] \in {"SUCCESS", "FAILED"}
      PROVE  usage'[a] # {}
  <2>1. CASE \E q \in AnalyzeRequests : item[q] = a /\ (CommitSuccess(q) \/ MarkFailed(q))
    <3>1. PICK q \in AnalyzeRequests : item[q] = a /\ (CommitSuccess(q) \/ MarkFailed(q))
      BY <2>1
    <3>2. item' = item
      BY <3>1 DEF CommitSuccess, MarkFailed
    <3>3. q = r
      BY <1>7, <3>1, <3>2 DEF AnalysisInv, Placed
    <3> QED
      BY <1>7, <3>1, <3>3, SettledLines
  <2>2. CASE /\ usage'[a] = usage[a]
             /\ row'[a] \in {row[a], "PROCESSING", "DELETED"}
             /\ \A q \in Requests : item'[q] = a => item[q] = a \/ row'[a] = "ABSENT"
    BY <1>7, <2>2 DEF UsageInv
  <2> QED
    BY <2>1, <2>2, UsageStep
<1> QED
  BY <1>6, <1>7 DEF UsageInv

(* An API key is billed in its usage log if and only if its owner was      *)
(* charged, every settled analysis ordered with a key has a line, also if  *)
(* the key was revoked while it ran, and no line goes away, although one   *)
(* that bills nothing may follow (songs.py:48-59, 120, 134-145).           *)
THEOREM UsageTellsCharges == AnalysisSpec => UsageMatchesLedger
<1>1. ASSUME AnalysisInv, UsageInv', ChargesCounted', [AnalysisNext]_vars
      PROVE  [\A a \in Analyses :
                /\ usage[a] \subseteq usage'[a]
                /\ usage'[a] # {} => ("BILLED" \in usage'[a] <=> ChargesFor(a)' # {})
                /\ \A r \in ApiRequests :
                     item[r] = a /\ row[a] = "PROCESSING" /\ row'[a] \in {"SUCCESS", "FAILED"}
                       => usage'[a] # {}]_vars
  <2> SUFFICES ASSUME NEW a \in Analyses
               PROVE  /\ usage[a] \subseteq usage'[a]
                      /\ usage'[a] # {} => ("BILLED" \in usage'[a] <=> ChargesFor(a)' # {})
                      /\ \A r \in ApiRequests :
                           item[r] = a /\ row[a] = "PROCESSING"
                             /\ row'[a] \in {"SUCCESS", "FAILED"}
                               => usage'[a] # {}
    OBVIOUS
  <2>1. usage[a] \subseteq usage'[a]
    BY <1>1, UsageStep, SettledLines
  <2>2. usage'[a] # {} => ("BILLED" \in usage'[a] <=> ChargesFor(a)' # {})
    BY <1>1 DEF UsageInv, ChargesCounted
  <2>3. ASSUME NEW r \in ApiRequests, item[r] = a, row[a] = "PROCESSING",
               row'[a] \in {"SUCCESS", "FAILED"}
        PROVE  usage'[a] # {}
    <3>1. PICK q \in AnalyzeRequests : item[q] = a /\ (CommitSuccess(q) \/ MarkFailed(q))
      BY <1>1, <2>3, UsageStep
    <3>2. q = r
      BY <1>1, <2>3, <3>1, AnalysisAssumption DEF AnalysisInv, Placed
    <3> QED
      BY <1>1, <2>3, <3>1, <3>2, SettledLines
  <2> QED
    BY <2>1, <2>2, <2>3
<1>2. AnalysisInit => UsageInv
  BY AnalysisAssumption DEF AnalysisInit, KeysInit, UsageInv
<1>3. AnalysisInv /\ ChargeInv /\ ChargeInv' /\ UsageInv /\ [AnalysisNext]_vars => UsageInv'
  BY StepKeepsUsage
<1> QED
  BY <1>1, <1>2, <1>3, ChargeInvariance, PTL DEF AnalysisSpec, UsageMatchesLedger
=============================================================================
