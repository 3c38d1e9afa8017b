------------------------------ MODULE Analysis ------------------------------
(***************************************************************************)
(* POST /songs/analyze and DELETE /songs/history/{id}.  A request is       *)
(* admitted on the balance its session loaded, stores the file, commits    *)
(* the rows of the upload, the analysis and its job (PROCESSING), analyses *)
(* for seconds without a transaction, charges through apply_points and     *)
(* commits SUCCESS and reads the row again for its answer; any exception   *)
(* after the first commit, in that last read too, leads to FAILED.         *)
(* The finally block removes the file and clears the upload row.  Stages:  *)
(*                                                                         *)
(*   idle, admitted, stored, running, analysed, charged, reread, cleanup,  *)
(*   unlinked; after an exception: failing, marking, cleanup; or aborting  *)
(*                                                                         *)
(* Sessions keep their objects over commits (expire_on_commit=False), so   *)
(* the balance that admitted the request is the one apply_points uses.     *)
(* A request comes with a bearer token or an API key; its owner issues and *)
(* revokes the key at any time.                                            *)
(***************************************************************************)
EXTENDS Accounts, FiniteSets

CONSTANTS
  Analyses,         \* analyses that are ever started; names file and rows too
  NoAnalysis,
  Cost,             \* analysis_points_cost
  AnalyzeRequests,  \* requests to analyze; the others move points otherwise
  ApiRequests,      \* those of them that came with an X-API-Key header
  ApiKeys,
  KeyOf,            \* KeyOf[r]: the key in that header, one of the caller's
  DbTrouble,        \* requests whose flushes and commits the database may refuse
  Crashing          \* requests whose process may die

ASSUME AnalysisAssumption ==
  /\ Analyses \subseteq Subjects
  /\ NoAnalysis \notin Analyses
  /\ Cost \in Nat \ {0} /\ -Cost \in Changes
  /\ AnalyzeRequests \subseteq Requests /\ ApiRequests \subseteq AnalyzeRequests
  /\ KeyOf \in [ApiRequests -> ApiKeys]
  /\ \A r, q \in ApiRequests : KeyOf[r] = KeyOf[q] => Caller[r] = Caller[q]
  /\ \A r \in AnalyzeRequests : Targets[r] = {Caller[r]}
  /\ DbTrouble \subseteq AnalyzeRequests /\ Crashing \subseteq AnalyzeRequests

VARIABLES
  stage,            \* stage[r]: how far r is in analyze
  item,             \* item[r]: the analysis r works on
  disk,             \* the files in audio_upload_dir
  upload,           \* uploaded_files: ABSENT, STORED, or CLEARED (no path)
  row,              \* song_analyses.status; DELETED after delete_history
  job,              \* analysis_jobs.status
  usage,            \* api_usage_logs of an analysis: its lines, BILLED or FREE;
                    \* of NoAnalysis: of requests refused on admission
  key               \* api_keys.status: ABSENT, ACTIVE or REVOKED

analysisVars == <<stage, item, disk, upload, row, job, usage, key>>
vars == <<accountVars, analysisVars>>

KeysInit ==
  /\ usage = [a \in Analyses \cup {NoAnalysis} |-> {}]
  /\ key = [k \in ApiKeys |-> "ABSENT"]

AnalysisInit ==
  /\ AccountsInit
  /\ stage = [r \in Requests |-> "idle"]
  /\ item = [r \in Requests |-> NoAnalysis]
  /\ disk = {}
  /\ upload = [a \in Analyses |-> "ABSENT"]
  /\ row = [a \in Analyses |-> "ABSENT"]
  /\ job = [a \in Analyses |-> "ABSENT"]
  /\ KeysInit

-----------------------------------------------------------------------------

At(r, s) == r \in AnalyzeRequests /\ stage[r] = s

Move(r, s) == stage' = [stage EXCEPT ![r] = s]

Leave(r) ==
  /\ Move(r, "idle")
  /\ item' = [item EXCEPT ![r] = NoAnalysis]

(* get_api_or_current_user: an API request needs an active key. *)
Authentic(r) == r \in ApiRequests => key[KeyOf[r]] = "ACTIVE"

WithLine(r, outcome) == [usage EXCEPT ![item[r]] = @ \cup {outcome}]

UsedByActiveKey(r, outcome) ==
  usage' = IF r \in ApiRequests /\ key[KeyOf[r]] = "ACTIVE"
           THEN WithLine(r, outcome) ELSE usage
(* record_api_usage: a line of the request's key, whatever its status.     *)
Used(r, outcome) ==
  usage' = IF r \in ApiRequests THEN WithLine(r, outcome) ELSE usage

(* Authentication, and the balance check on the row it loaded (line 71).   *)
Start(r) ==
  /\ At(r, "idle") /\ Authentic(r)
  /\ OpenSession(r)
  /\ balance[Caller[r]] >= Cost
  /\ Move(r, "admitted")
  /\ UNCHANGED <<item, disk, upload, row, job, usage, key>>

(* Too few points (lines 71-74): the usage line is committed all the same. *)
RefuseAdmission(r) ==
  /\ At(r, "idle") /\ Authentic(r)
  /\ balance[Caller[r]] < Cost
  /\ Used(r, "FREE")
  /\ UNCHANGED <<accountVars, stage, item, disk, upload, row, job, key>>

(* A name from uuid4: never used before. *)
Fresh(a) == a \notin disk /\ row[a] = "ABSENT" /\ \A r \in Requests : item[r] # a

(* persist_upload; when it refuses the file it removes what it wrote.      *)
Persist(r, a) ==
  /\ At(r, "admitted")
  /\ Fresh(a)
  /\ disk' = disk \cup {a}
  /\ item' = [item EXCEPT ![r] = a]
  /\ Move(r, "stored")
  /\ UNCHANGED <<accountVars, upload, row, job, usage, key>>

RefuseFile(r) ==
  /\ At(r, "admitted")
  /\ EndSession(r) /\ Leave(r)
  /\ UNCHANGED <<disk, upload, row, job, usage, key>>

(* A charge that commits by itself. *)
ChargeNow(r) ==
  LET u == Caller[r]
      entry == [user |-> u, change |-> -Cost, before |-> balance[u],
                after |-> balance[u] - Cost, about |-> item[r], reread |-> FALSE]
  IN  /\ MayApply(r, u) /\ entry.after >= 0
      /\ balance' = [balance EXCEPT ![u] = entry.after]
      /\ ledger' = [ledger EXCEPT ![u] = Append(ledger[u], entry)]
      /\ UNCHANGED <<rowLock, seen, draft>>

CreateRowsCharging(r) ==
  LET a == item[r]
  IN  /\ At(r, "stored")
      /\ upload' = [upload EXCEPT ![a] = "STORED"]
      /\ row' = [row EXCEPT ![a] = "PROCESSING"]
      /\ job' = [job EXCEPT ![a] = "PROCESSING"]
      /\ ChargeNow(r)
      /\ Move(r, "running")
      /\ UNCHANGED <<item, disk, usage, key>>

(* Three INSERTs and the first commit (lines 76-99). *)
CreateRows(r) ==
  LET a == item[r]
  IN  /\ At(r, "stored")
      /\ upload' = [upload EXCEPT ![a] = "STORED"]
      /\ row' = [row EXCEPT ![a] = "PROCESSING"]
      /\ job' = [job EXCEPT ![a] = "PROCESSING"]
      /\ Move(r, "running")
      /\ UNCHANGED <<accountVars, item, disk, usage, key>>

(* The try block starts below the commit: nobody removes the file.         *)
InsertFails(r) ==
  /\ r \in DbTrouble
  /\ At(r, "stored")
  /\ EndSession(r) /\ Leave(r)
  /\ UNCHANGED <<disk, upload, row, job, usage, key>>

(* analyze_audio returns; the analysis object is the session's own.        *)
AnalyzeDone(r) ==
  /\ At(r, "running")
  /\ Move(r, "analysed")
  /\ UNCHANGED <<accountVars, item, disk, upload, row, job, usage, key>>

(* analyze_audio raises, or the wait for the row lock does; rollback.      *)
AnalyzeFails(r) ==
  /\ At(r, "running") \/ (r \in DbTrouble /\ At(r, "analysed"))
  /\ EndSession(r)
  /\ Move(r, "failing")
  /\ UNCHANGED <<item, disk, upload, row, job, usage, key>>

ChargeCommitting(r) ==
  /\ At(r, "analysed")
  /\ ChargeNow(r)
  /\ Move(r, "charged")
  /\ UNCHANGED <<item, disk, upload, row, job, usage, key>>

(* The result is there; apply_points with the balance of the session.      *)
Charge(r) ==
  /\ At(r, "analysed")
  /\ ApplyPoints(r, Caller[r], -Cost, item[r])
  /\ Move(r, "charged")
  /\ UNCHANGED <<item, disk, upload, row, job, usage, key>>

StillThereIgnored(a) == a \in Analyses
(* must_get_job reads the job, and a flush expects to update one row.      *)
StillThere(a) == row[a] # "DELETED"

(* The second commit: result, charge, job and usage in one transaction.    *)
CommitSuccess(r) ==
  LET a == item[r]
  IN  /\ At(r, "charged")
      /\ StillThere(a)
      /\ CommitPoints(r)
      /\ row' = [row EXCEPT ![a] = "SUCCESS"]
      /\ job' = [job EXCEPT ![a] = "SUCCESS"]
      /\ Used(r, "BILLED")
      /\ Move(r, "reread")
      /\ UNCHANGED <<item, disk, upload, key>>

(* The user deleted the analysis meanwhile, or the database fails.         *)
CommitFails(r) ==
  /\ At(r, "charged")
  /\ r \in DbTrouble \/ ~StillThere(item[r])
  /\ EndSession(r)
  /\ Move(r, "failing")
  /\ UNCHANGED <<item, disk, upload, row, job, usage, key>>

(* db.refresh reads the committed row over a connection of its own.        *)
Reread(r) ==
  /\ At(r, "reread")
  /\ StillThere(item[r])
  /\ Move(r, "cleanup")
  /\ UNCHANGED <<accountVars, item, disk, upload, row, job, usage, key>>

(* No connection, or the row was deleted: the except blocks take over,     *)
(* although SUCCESS and the charge are committed.                          *)
RereadFails(r) ==
  /\ At(r, "reread")
  /\ r \in DbTrouble \/ ~StillThere(item[r])
  /\ Move(r, "failing")
  /\ UNCHANGED <<accountVars, item, disk, upload, row, job, usage, key>>

ReadForFailureGivingUp(r) ==
  /\ At(r, "failing")
  /\ Move(r, "cleanup")
  /\ UNCHANGED <<accountVars, item, disk, upload, row, job, usage, key>>

(* The except blocks read analysis and job again.  When these are gone, or *)
(* no connection is free, that raises, and only the finally block is left. *)
ReadForFailure(r) ==
  /\ At(r, "failing")
  /\ \/ StillThere(item[r]) /\ Move(r, "marking")
     \/ (r \in DbTrouble \/ ~StillThere(item[r])) /\ Move(r, "cleanup")
  /\ UNCHANGED <<accountVars, item, disk, upload, row, job, usage, key>>

(* FAILED, of a SUCCESS too, with a usage line that bills nothing.         *)
MarkFailed(r) ==
  LET a == item[r]
  IN  /\ At(r, "marking")
      /\ StillThere(a)
      /\ row' = [row EXCEPT ![a] = "FAILED"]
      /\ job' = [job EXCEPT ![a] = "FAILED"]
      /\ Used(r, "FREE")
      /\ Move(r, "cleanup")
      /\ UNCHANGED <<accountVars, item, disk, upload, key>>

(* The second read loses its connection or the flush of FAILED fails: the  *)
(* session refuses all work until it is rolled back, which the finally     *)
(* block does not do.                                                      *)
MarkFails(r) ==
  /\ \/ r \in DbTrouble /\ (At(r, "failing") \/ At(r, "marking"))
     \/ At(r, "marking") /\ ~StillThere(item[r])
  /\ Move(r, "aborting")
  /\ UNCHANGED <<accountVars, item, disk, upload, row, job, usage, key>>

UnlinkAfterClear(r) ==
  /\ At(r, "cleanup")
  /\ upload' = [upload EXCEPT ![item[r]] = "CLEARED"]
  /\ Move(r, "aborting")
  /\ UNCHANGED <<accountVars, item, disk, row, job, usage, key>>

(* finally: first the file (line 149), then the upload row (150-154).      *)
Unlink(r) ==
  /\ At(r, "cleanup")
  /\ disk' = disk \ {item[r]}
  /\ Move(r, "unlinked")
  /\ UNCHANGED <<accountVars, item, upload, row, job, usage, key>>

Clear(r) ==
  /\ At(r, "unlinked")
  /\ upload' = [upload EXCEPT ![item[r]] = "CLEARED"]
  /\ Leave(r)
  /\ UNCHANGED <<accountVars, disk, row, job, usage, key>>

(* The second half fails, after MarkFails or by itself. *)
UnlinkOnly(r) ==
  /\ At(r, "aborting")
  /\ disk' = disk \ {item[r]}
  /\ Leave(r)
  /\ UNCHANGED <<accountVars, upload, row, job, usage, key>>

ClearFails(r) ==
  /\ r \in DbTrouble
  /\ At(r, "unlinked")
  /\ Leave(r)
  /\ UNCHANGED <<accountVars, disk, upload, row, job, usage, key>>

(* The process dies: sessions and locks go, nothing resumes the analysis.  *)
Crash(r) ==
  /\ r \in Crashing /\ stage[r] # "idle"
  /\ CloseSession(r) /\ Leave(r)
  /\ UNCHANGED <<balance, ledger, disk, upload, row, job, usage, key>>

DeleteHistoryOnly(a) ==
  /\ row[a] \in {"PROCESSING", "SUCCESS", "FAILED"}
  /\ row' = [row EXCEPT ![a] = "DELETED"]
  /\ UNCHANGED <<accountVars, stage, item, disk, upload, job, usage, key>>

(* delete_history by the owner: job and analysis, whatever their status.   *)
DeleteHistory(a) ==
  /\ row[a] \in {"PROCESSING", "SUCCESS", "FAILED"}
  /\ row' = [row EXCEPT ![a] = "DELETED"]
  /\ job' = [job EXCEPT ![a] = "DELETED"]
  /\ UNCHANGED <<accountVars, stage, item, disk, upload, usage, key>>

(* issue_api_key and revoke_api_key by the owner. *)
IssueKey(k) ==
  /\ key[k] = "ABSENT"
  /\ key' = [key EXCEPT ![k] = "ACTIVE"]
  /\ UNCHANGED <<accountVars, stage, item, disk, upload, row, job, usage>>

RevokeKey(k) ==
  /\ key[k] # "ABSENT"
  /\ key' = [key EXCEPT ![k] = "REVOKED"]
  /\ UNCHANGED <<accountVars, stage, item, disk, upload, row, job, usage>>

(* Bound: other requests leave room in the ledger for every analysis. *)
RoomForOthers(u) == Len(ledger[u]) + Cardinality(Analyses) < MaxEntries

(* Other requests move points of the same users: bonuses, orders, coupons. *)
OtherStep(r) ==
  /\ r \notin AnalyzeRequests
  /\ \/ OpenSession(r)
     \/ \E u \in Users, change \in Changes, about \in Subjects \ Analyses :
          RoomForOthers(u) /\ ApplyPoints(r, u, change, about)
     \/ \E u \in Users, change \in Changes : RefusePoints(r, u, change)
     \/ CommitPoints(r)
     \/ EndSession(r)
  /\ UNCHANGED analysisVars

AnalyzeStep(r) ==
  \/ Start(r) \/ RefuseAdmission(r)
  \/ (\E a \in Analyses : Persist(r, a)) \/ RefuseFile(r)
  \/ CreateRows(r) \/ InsertFails(r)
  \/ AnalyzeDone(r) \/ AnalyzeFails(r) \/ Charge(r)
  \/ CommitSuccess(r) \/ CommitFails(r) \/ Reread(r) \/ RereadFails(r)
  \/ ReadForFailure(r) \/ MarkFailed(r) \/ MarkFails(r)
  \/ Unlink(r) \/ Clear(r) \/ UnlinkOnly(r) \/ ClearFails(r)

AnalysisNext ==
  \/ \E r \in Requests : AnalyzeStep(r) \/ Crash(r) \/ OtherStep(r)
  \/ \E a \in Analyses : DeleteHistory(a)
  \/ \E k \in ApiKeys : IssueKey(k) \/ RevokeKey(k)

AnalysisSpec == AnalysisInit /\ [][AnalysisNext]_vars

(* The worker thread executes an admitted request to the end (WF), InnoDB  *)
(* grants the row lock in the order of the queue (SF), and the other       *)
(* requests finish.  Nothing obliges a request to arrive.                  *)
AnalysisFairness ==
  /\ \A r \in AnalyzeRequests :
       WF_vars(AnalyzeStep(r) /\ stage[r] # "idle") /\ SF_vars(Charge(r))
  /\ \A q \in Requests \ AnalyzeRequests : WF_vars(OtherStep(q) /\ IsOpen(q))

AnalysisLiveSpec == AnalysisSpec /\ AnalysisFairness

-----------------------------------------------------------------------------
(* Properties *)

(* Types; analysis and job always agree, for they commit together.         *)
AnalysisTypeOK ==
  /\ stage \in [Requests -> {"idle", "admitted", "stored", "running", "analysed",
                              "charged", "reread", "failing", "marking",
                              "aborting", "cleanup", "unlinked"}]
  /\ item \in [Requests -> Analyses \cup {NoAnalysis}]
  /\ disk \subseteq Analyses
  /\ upload \in [Analyses -> {"ABSENT", "STORED", "CLEARED"}]
  /\ row \in [Analyses -> {"ABSENT", "PROCESSING", "SUCCESS", "FAILED", "DELETED"}]
  /\ usage \in [Analyses \cup {NoAnalysis} -> SUBSET {"BILLED", "FREE"}]
  /\ key \in [ApiKeys -> {"ABSENT", "ACTIVE", "REVOKED"}]
  /\ job = row

(* The ledger lines about an analysis, of all users. *)
ChargesFor(a) ==
  {at \in Users \X (1..MaxEntries) :
     at[2] <= Len(ledger[at[1]]) /\ ledger[at[1]][at[2]].about = a}

(* An analysis is charged in the step that makes it a SUCCESS, once, and   *)
(* in no other, whatever fails, dies or is deleted before and after that   *)
(* commit (lines 101-147).                                                 *)
ChargedWhenItSucceeds ==
  [][\A a \in Analyses :
       IF row[a] # "SUCCESS" /\ row'[a] = "SUCCESS"
       THEN ChargesFor(a) = {} /\ Cardinality(ChargesFor(a)') = 1
       ELSE ChargesFor(a)' = ChargesFor(a)]_vars

(* The README's promise that only a success costs points: an analysis that *)
(* becomes FAILED has not been charged, if the database refused its        *)
(* request nothing.  For a request whose re-read fails after the commit    *)
(* (line 122) it is not so: RereadFails leads from SUCCESS to FAILED.      *)
FailureIsFree ==
  [][\A r \in AnalyzeRequests \ DbTrouble, a \in Analyses :
       item[r] = a /\ row[a] # "FAILED" /\ row'[a] = "FAILED"
         => ChargesFor(a)' = {}]_vars

(* A deleted analysis stays deleted and is not charged any more, also when *)
(* its request is past the analysis and about to commit SUCCESS.           *)
DeletedStaysFree ==
  [][\A a \in Analyses : row[a] = "DELETED" =>
       row'[a] = "DELETED" /\ ChargesFor(a)' = ChargesFor(a)]_vars

(* An API key is billed in its usage log if and only if its owner was      *)
(* charged: when an analysis ordered with a key settles it has a usage     *)
(* line, also when the key was revoked while the analysis ran, and among   *)
(* its lines is one BILLED if and only if a ledger line was written.  No   *)
(* line goes away; an analysis FAILED after its SUCCESS has two.           *)
UsageMatchesLedger ==
  [][\A a \in Analyses :
       /\ usage[a] \subseteq usage'[a]
       /\ usage'[a] # {} => ("BILLED" \in usage'[a] <=> ChargesFor(a)' # {})
       /\ \A r \in ApiRequests :
            item[r] = a /\ row[a] = "PROCESSING" /\ row'[a] \in {"SUCCESS", "FAILED"}
              => usage'[a] # {}]_vars

(* An upload row without a path has no file: the path is dropped after the *)
(* file, and a crash between the two leaves the row, not the file.         *)
ClearedMeansGone ==
  \A a \in Analyses : upload[a] = "CLEARED" => a \notin disk

(* A request that meets no crash and no database failure leaves no         *)
(* analysis PROCESSING and no file on disk, whatever becomes of others and *)
(* also when its analysis raises or is deleted while it runs.              *)
Untroubled == AnalyzeRequests \ (DbTrouble \cup Crashing)
Finished(a) == row[a] # "PROCESSING" /\ a \notin disk
EveryAnalysisSettles ==
  \A r \in Untroubled, a \in Analyses : item[r] = a /\ a \in disk ~> Finished(a)
=============================================================================
