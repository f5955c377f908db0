---------------------------- MODULE SolrBackup ----------------------------
(***************************************************************************)
(* The SolrBackup controller (solrbackup_controller.go, backup_util.go):   *)
(* a reconcile looks at the schedule, starts one asynchronous BACKUP per   *)
(* collection in Solr, asks for the results of those it started before,    *)
(* and writes what it learned to the status of the resource.               *)
(*                                                                         *)
(* The requests of one collection have the same id in every backup of a    *)
(* schedule.  Solr is external: it refuses an id that it still knows.      *)
(***************************************************************************)
EXTENDS Naturals, Sequences, FiniteSets, FiniteSetsExt

CONSTANTS
  Collections,      \* numbers: the order in which they are backed up
  Repositories,     \* names of backup repositories
  NoName,           \* no repository is named, no repository is found
  Unset,            \* Successful is not known yet
  BackupSpecs,      \* the resources a user may write
  InitialPresent,   \* the collections that may be in Solr to begin with
  MaxSaved,         \* of the recurrence: the finished backups in the history
  MaxDisturbances   \* bound: edits, faults and changes in the cluster

ASSUME BackupAssumption ==
  /\ Collections \subseteq Nat /\ IsFiniteSet(Collections)
  /\ InitialPresent \subseteq SUBSET Collections
  /\ NoName \notin Repositories
  /\ Unset \notin BOOLEAN
  /\ MaxSaved \in Nat \ {0}
  /\ MaxDisturbances \in Nat
  /\ BackupSpecs \subseteq [collections : SUBSET Collections,
                            repository : Repositories \cup {NoName},
                            recurrence : {"none", "disabled", "bad cron", "enabled"}]

VARIABLES
  spec, status,     \* the SolrBackup resource
  job, wake,        \* the reconcile that runs, and whether one is to run
  due,              \* the time that the schedule has after StartTime is past
  cloud,            \* the SolrCloud: its repositories, those its pods have
  present, task,    \* Solr: the collections, the state of the request for each
  saved,            \* history: the backups that Solr has completed
  hindered,         \* history: what has gone wrong, "lost" or "refused"
  named,            \* history: the collections named ever since the backup began
  disturbances      \* how many there may still be

vars == <<spec, status, job, wake, due, cloud, present, task, saved, hindered, named,
          disturbances>>

-----------------------------------------------------------------------------
(* The status.  A collection has no entry, an entry without a request, one *)
(* with a request in progress, or a result.  "round" tells the backups of  *)
(* a schedule apart; the code has no such number.                          *)

Results == {"succeeded", "failed"}
CollectionStates == {"none", "listed", "in progress"} \cup Results

Fresh(round) ==
  [started |-> FALSE, collections |-> [c \in Collections |-> "none"],
   finished |-> FALSE, successful |-> Unset, round |-> round]

Statuses ==
  [current : [started : BOOLEAN, collections : [Collections -> CollectionStates],
              finished : BOOLEAN, successful : BOOLEAN \cup {Unset}, round : {0, 1}],
   scheduled : BOOLEAN,                     \* NextScheduledTime is set
   history : Seq(BOOLEAN \cup {Unset})]

IsEnabled(recurrence) == recurrence \notin {"none", "disabled"}

\* Mutant: the collections that were started are what counts as all of them.
UpdateStatusOfCollectionBackupsMutant(current) ==
  [current EXCEPT !.finished = \E c \in Collections : current.collections[c] \in Results,
                  !.successful = IF \E c \in Collections : current.collections[c] = "succeeded"
                                   THEN TRUE ELSE @]

\* Finished once every entry has a result; what Successful says is kept.
UpdateStatusOfCollectionBackups(current) ==
  LET entries == {c \in Collections : current.collections[c] # "none"}
      finished == entries # {} /\ \A c \in entries : current.collections[c] \in Results
      successful == \A c \in entries : current.collections[c] = "succeeded"
  IN  [current EXCEPT !.finished = finished,
                      !.successful = IF finished /\ @ = Unset THEN successful ELSE @]

GetBackupRepositoryByName(repositories, name) ==
  IF name = NoName /\ Cardinality(repositories) = 1 THEN CHOOSE r \in repositories : TRUE
  ELSE IF name \in repositories THEN name
  ELSE NoName

RepositoryFor(s) == GetBackupRepositoryByName(cloud.repositories, s.repository)

\* The repositories of the SolrCloud, and those that all of its pods have.
Clouds == {[exists |-> FALSE, repositories |-> {}, available |-> {}]}
            \cup [exists : {TRUE}, repositories : SUBSET Repositories,
                  available : SUBSET Repositories]

-----------------------------------------------------------------------------
(* Reconcile: what the schedule asks for.                                  *)

Idle == [pc |-> "idle"]

Disturb == disturbances > 0 /\ disturbances' = disturbances - 1

\* Mutant: the history is not cut.
CheckScheduleMutant(s) ==
  IF s.current.finished /\ s.scheduled /\ IsEnabled(spec.recurrence) /\ due
    THEN [current |-> Fresh(1 - s.current.round), scheduled |-> FALSE,
          history |-> <<s.current.successful>> \o s.history]
    ELSE s

\* A finished backup whose next time has come goes to the front of the history,
\* and a new one begins.
CheckSchedule(s) ==
  IF ~s.current.finished \/ ~s.scheduled THEN s
  ELSE IF ~IsEnabled(spec.recurrence) THEN [s EXCEPT !.scheduled = FALSE]
  ELSE IF ~due THEN s
  ELSE LET history == <<s.current.successful>> \o s.history
       IN  [current |-> Fresh(1 - s.current.round),
            scheduled |-> FALSE,
            history |-> SubSeq(history, 1, Min({MaxSaved, Len(history)}))]

\* Requests and backups of a round whose number is used again are of old.
Forget(round) ==
  /\ task' = [c \in Collections |->
                IF task[c].round = round THEN [task[c] EXCEPT !.round = 2] ELSE task[c]]
  /\ saved' = {b \in saved : b[1] # round}

\* The resource is read once: what a reconcile does is for this specification.
Reconcile ==
  /\ job = Idle
  /\ wake = "now"
  /\ wake' = "no"
  /\ LET s == CheckSchedule(status)
     IN  /\ job' = [pc |-> IF s.current.finished THEN "patch" ELSE "cloud",
                    spec |-> spec, status |-> s, todo |-> {}, error |-> FALSE]
         /\ IF s.current.round = status.current.round
              THEN UNCHANGED <<task, saved>>
              ELSE Forget(s.current.round)
  /\ UNCHANGED <<spec, status, due, cloud, present, hindered, named, disturbances>>

-----------------------------------------------------------------------------
(* reconcileSolrCloudBackup.                                               *)

Fail == job' = [job EXCEPT !.pc = "patch", !.error = TRUE]

\* The loop over the collections ends with the first error.
Loop(current, todo, error) ==
  IF todo = {} \/ error
    THEN job' = [job EXCEPT !.pc = "patch", !.todo = {}, !.error = error,
                            !.status.current = UpdateStatusOfCollectionBackups(current)]
    ELSE job' = [job EXCEPT !.pc = "collections", !.todo = todo,
                            !.status.current = current]

\* The collections a backup is of.
Covered(s) == IF s.collections = {} THEN present ELSE s.collections

\* The SolrCloud is read, the repository found and, before the first request,
\* looked for in the status of the SolrCloud; then the collections are listed.
PrepareBackup ==
  /\ job.pc = "cloud"
  /\ IF \/ ~cloud.exists
        \/ RepositoryFor(job.spec) = NoName
        \/ ~job.status.current.started /\ RepositoryFor(job.spec) \notin cloud.available
       THEN Fail
       ELSE Loop([job.status.current EXCEPT !.started = TRUE], Covered(job.spec), FALSE)
  /\ UNCHANGED <<spec, status, wake, due, cloud, present, task, saved, hindered, named,
                 disturbances>>

\* The SolrCloud or the credentials cannot be read, or the directory cannot be
\* made in the pod.
PrepareFails ==
  /\ job.pc = "cloud"
  /\ Disturb
  /\ Fail
  /\ UNCHANGED <<spec, status, wake, due, cloud, present, task, saved, hindered, named>>

\* The backup has started, and the collections cannot be listed.
ListFails ==
  /\ job.pc = "cloud"
  /\ cloud.exists /\ RepositoryFor(job.spec) # NoName
  /\ job.status.current.started \/ RepositoryFor(job.spec) \in cloud.available
  /\ job.spec.collections = {}
  /\ Disturb
  /\ Loop([job.status.current EXCEPT !.started = TRUE], {}, TRUE)
  /\ UNCHANGED <<spec, status, wake, due, cloud, present, task, saved, hindered, named>>

-----------------------------------------------------------------------------
(* reconcileSolrCollectionBackup, for the next collection.                 *)

Next1 == Min(job.todo)
State(c) == job.status.current.collections[c]

Record(c, state, error) ==
  Loop([job.status.current EXCEPT !.collections[c] = state], job.todo \ {c}, error)

Skip ==
  /\ job.pc = "collections"
  /\ State(Next1) \in Results
  /\ Loop(job.status.current, job.todo \ {Next1}, FALSE)
  /\ UNCHANGED <<spec, status, wake, due, cloud, present, task, saved, hindered, named,
                 disturbances>>

Starting(c) == job.pc = "collections" /\ c = Next1 /\ State(c) \in {"none", "listed"}
Checking(c) == job.pc = "collections" /\ c = Next1 /\ State(c) = "in progress"

NoRequest == [state |-> "notfound", round |-> 2]
Accepts(c) == c \in present /\ task[c].state = "notfound"
Submit(c) == task' = [task EXCEPT ![c] = [state |-> "running",
                                          round |-> job.status.current.round]]

\* The start ends with an error: there is no entry for the collection.
Refused(c) == Record(c, State(c), TRUE) /\ hindered' = hindered \cup {"refused"}

\* Mutant: an error of Solr is taken for a request that runs.
StartBackupMutant(c) ==
  /\ Starting(c)
  /\ IF Accepts(c) THEN Submit(c) ELSE UNCHANGED task
  /\ Record(c, "in progress", FALSE)
  /\ UNCHANGED <<spec, status, wake, due, cloud, present, saved, hindered, named, disturbances>>

\* StartBackupForCollection: without an entry in the status when Solr refuses.
StartBackup(c) ==
  /\ Starting(c)
  /\ IF Accepts(c)
       THEN Submit(c) /\ Record(c, "in progress", FALSE) /\ UNCHANGED hindered
       ELSE UNCHANGED task /\ Refused(c)
  /\ UNCHANGED <<spec, status, wake, due, cloud, present, saved, named, disturbances>>

\* Solr cannot be reached, or answers with another status than zero.
StartFails(c) ==
  /\ Starting(c)
  /\ Disturb
  /\ \/ Refused(c)
     \/ Record(c, "listed", FALSE) /\ UNCHANGED hindered
  /\ UNCHANGED <<spec, status, wake, due, cloud, present, task, saved, named>>

\* Solr takes the request, and its answer is lost.
StartAnswerLost(c) ==
  /\ Starting(c)
  /\ Disturb
  /\ Accepts(c)
  /\ Submit(c)
  /\ Record(c, State(c), TRUE)
  /\ hindered' = hindered \cup {"lost"}
  /\ UNCHANGED <<spec, status, wake, due, cloud, present, saved, named>>

\* CheckBackupForCollection and, with a result, DeleteAsyncInfoForBackup.  Solr
\* not knowing the request is no result.
CheckBackup(c) ==
  /\ Checking(c)
  /\ LET state == task[c].state
     IN  IF state \in {"completed", "failed"}
           THEN /\ task' = [task EXCEPT ![c] = NoRequest]
                /\ Record(c, IF state = "completed" THEN "succeeded" ELSE "failed", FALSE)
           ELSE /\ UNCHANGED task
                /\ Record(c, "in progress", FALSE)
  /\ UNCHANGED <<spec, status, wake, due, cloud, present, saved, hindered, named, disturbances>>

CheckFails(c) ==
  /\ Checking(c)
  /\ Disturb
  /\ Record(c, "in progress", TRUE)
  /\ UNCHANGED <<spec, status, wake, due, cloud, present, task, saved, hindered, named>>

\* The result is recorded, and Solr keeps it too.
DeleteFails(c) ==
  /\ Checking(c)
  /\ Disturb
  /\ task[c].state \in {"completed", "failed"}
  /\ Record(c, IF task[c].state = "completed" THEN "succeeded" ELSE "failed", TRUE)
  /\ hindered' = hindered \cup {"lost"}
  /\ UNCHANGED <<spec, status, wake, due, cloud, present, task, saved, named>>

-----------------------------------------------------------------------------
(* The end of Reconcile.                                                   *)

\* ScheduleNextBackup, unless the schedule cannot be parsed.
Scheduled(s) == s.current.finished /\ job.spec.recurrence = "enabled"

\* Mutant: a schedule that was switched off stays off.
PatchedStatusMutant ==
  [job.status EXCEPT !.scheduled = @ \/ (Scheduled(job.status) /\ ~status.current.finished)]

PatchedStatus == [job.status EXCEPT !.scheduled = @ \/ Scheduled(job.status)]

Continues(s) ==
  \/ wake = "now" \/ s # status
  \/ job.error \/ ~s.current.finished
  \/ s.scheduled /\ due

\* Mutant: a backup in progress sets no timer.
WokenMutant(s) ==
  IF wake = "now" \/ s # status \/ job.error \/ (s.scheduled /\ due) THEN "now"
  ELSE IF s.scheduled THEN "timer" ELSE "no"

\* A changed status wakes the controller, as do the timers of a backup that is
\* not finished (10 and 5 seconds) and of the schedule.
Woken(s) ==
  IF Continues(s) THEN "now" ELSE IF s.scheduled THEN "timer" ELSE "no"

\* The status is written.  What was saved for an earlier backup no longer
\* matters.
PatchStatus ==
  /\ job.pc = "patch"
  /\ status' = PatchedStatus
  /\ due' = (due /\ job.status.current.round = status.current.round
                 /\ job.status.current.started = status.current.started)
  /\ wake' = Woken(PatchedStatus)
  /\ job' = Idle
  /\ named' = IF job.status.current.round = status.current.round
                THEN named ELSE job.spec.collections \cap spec.collections
  /\ saved' = {b \in saved : b[1] = job.status.current.round}
  /\ UNCHANGED <<spec, cloud, present, task, hindered, disturbances>>

\* The operator stops, or the patch fails: what the reconcile did is not in the
\* status, and it is done again.
ReconcileLost ==
  /\ job # Idle
  /\ Disturb
  /\ job' = Idle
  /\ wake' = "now"
  /\ hindered' = hindered \cup (IF job.status.current.collections # status.current.collections
                               THEN {"lost"} ELSE {})
  /\ UNCHANGED <<spec, status, due, cloud, present, task, saved, named>>

-----------------------------------------------------------------------------
(* The user, the clock, the SolrCloud and Solr.                            *)

EditBackup ==
  /\ Disturb
  /\ \E s \in BackupSpecs : s # spec /\ spec' = s
  /\ named' = named \cap spec'.collections
  /\ wake' = "now"
  /\ UNCHANGED <<status, job, due, cloud, present, task, saved, hindered>>

TimePasses ==
  /\ status.current.started /\ ~due
  /\ due' = TRUE
  /\ wake' = IF wake = "timer" THEN "now" ELSE wake
  /\ UNCHANGED <<spec, status, job, cloud, present, task, saved, hindered, named, disturbances>>

\* indexAndWatchForSolrClouds: only an edit of a SolrCloud that is ready wakes its
\* backups; a change of its status does not.
CloudChanges ==
  /\ Disturb
  /\ \E c \in Clouds : c # cloud /\ cloud' = c
  /\ LET edited == cloud'.exists # cloud.exists \/ cloud'.repositories # cloud.repositories
         ready == IF spec.repository = NoName
                    THEN cloud'.repositories # {} /\ cloud'.repositories \subseteq cloud'.available
                    ELSE spec.repository \in cloud'.available
     IN  wake' = IF edited /\ ready THEN "now" ELSE wake
  /\ UNCHANGED <<spec, status, job, due, present, task, saved, hindered, named>>

CreateCollection ==
  /\ Disturb
  /\ \E c \in Collections \ present : present' = present \cup {c}
  /\ UNCHANGED <<spec, status, job, wake, due, cloud, task, saved, hindered, named>>

\* The request of a collection that is no longer listed is never asked for again.
DeleteCollection ==
  /\ Disturb
  /\ \E c \in present : present' = present \ {c}
  /\ UNCHANGED <<spec, status, job, wake, due, cloud, task, saved, hindered, named>>

SolrEnds(c) ==
  /\ task[c].state = "running"
  /\ \/ /\ task' = [task EXCEPT ![c].state = "completed"]
        /\ saved' = saved \cup {<<task[c].round, c>>}
     \/ /\ task' = [task EXCEPT ![c].state = "failed"]
        /\ UNCHANGED saved
  /\ UNCHANGED <<spec, status, job, wake, due, cloud, present, hindered, named, disturbances>>

-----------------------------------------------------------------------------
Init ==
  /\ spec \in BackupSpecs
  /\ status = [current |-> Fresh(0), scheduled |-> FALSE, history |-> <<>>]
  /\ job = Idle
  /\ wake = "now"
  /\ due = FALSE
  /\ cloud = [exists |-> TRUE, repositories |-> Repositories, available |-> Repositories]
  /\ present \in InitialPresent
  /\ task = [c \in Collections |-> NoRequest]
  /\ saved = {}
  /\ hindered = {}
  /\ named = spec.collections
  /\ disturbances = MaxDisturbances

Next ==
  \/ Reconcile \/ PrepareBackup \/ PrepareFails \/ ListFails \/ Skip
  \/ \E c \in Collections :
       \/ StartBackup(c) \/ StartFails(c) \/ StartAnswerLost(c)
       \/ CheckBackup(c) \/ CheckFails(c) \/ DeleteFails(c)
       \/ SolrEnds(c)
  \/ PatchStatus \/ ReconcileLost
  \/ EditBackup \/ TimePasses \/ CloudChanges \/ CreateCollection \/ DeleteCollection

Spec == Init /\ [][Next]_vars

\* The work queue runs every reconcile that is asked for, one step after the
\* other, the clock goes on and Solr ends one of the requests it runs.
Fairness ==
  /\ WF_vars(\/ Reconcile \/ PrepareBackup \/ Skip \/ PatchStatus
             \/ \E c \in Collections : StartBackup(c) \/ CheckBackup(c))
  /\ WF_vars(TimePasses)
  /\ WF_vars(\E c \in Collections : SolrEnds(c))

FairSpec == Spec /\ Fairness

-----------------------------------------------------------------------------
(* Properties.                                                             *)

\* The resource, the reconcile and Solr's requests have their types.
TypeOK ==
  /\ spec \in BackupSpecs
  /\ status \in Statuses /\ Len(status.history) <= MaxSaved
  /\ job.pc \in {"idle", "cloud", "collections", "patch"}
  /\ job # Idle => /\ job.status \in Statuses
                   /\ job.spec \in BackupSpecs
                   /\ job.todo \subseteq Collections /\ job.error \in BOOLEAN
                   /\ (job.pc = "collections") = (job.todo # {})
  /\ wake \in {"no", "now", "timer"}
  /\ due \in BOOLEAN /\ hindered \subseteq {"lost", "refused"}
  /\ cloud \in Clouds /\ present \subseteq Collections
  /\ task \in [Collections -> [state : {"notfound", "running", "completed", "failed"},
                               round : 0..2]]
  /\ saved \subseteq (0..2) \X Collections
  /\ named \subseteq Collections /\ disturbances \in Nat

\* What the status calls a successful backup of a collection is one that Solr
\* completed for this very backup, not a result left over from an earlier one
\* with the same request id (AsyncIdForCollectionBackup).
SuccessIsOfThisBackup ==
  \A c \in Collections :
    status.current.collections[c] = "succeeded" => <<status.current.round, c>> \in saved

\* A backup that is reported as successful holds every collection the resource
\* has named ever since it began, whatever edits there were, as long as Solr takes
\* every request and no answer or patch is lost.
SuccessfulUnlessHindered ==
  status.current.successful = TRUE /\ hindered = {} =>
    \A c \in named : <<status.current.round, c>> \in saved

\* The same whatever happens: UpdateStatusOfCollectionBackups checks "if all
\* collection backups have been completed".
SuccessfulIsComplete ==
  status.current.successful = TRUE =>
    \A c \in spec.collections : <<status.current.round, c>> \in saved

\* The SolrCloud has the repository and collections, all that are named among
\* them (Solr refuses the backup of another, and the loop ends there), and no
\* entry of the status is left of a collection that is not backed up any more.
Usable ==
  /\ cloud.exists
  /\ RepositoryFor(spec) # NoName /\ RepositoryFor(spec) \in cloud.available
  /\ present # {} /\ spec.collections \subseteq present
  /\ \A c \in Collections :
       status.current.collections[c] # "none" => c \in Covered(spec)

\* When the SolrCloud is usable from some time on, a backup that has started
\* finishes, whatever Solr refused before and whichever collections came and
\* went, unless an answer or a patch was lost.
BackupFinishes ==
  <>[]Usable =>
    (status.current.started ~> (status.current.finished \/ "lost" \in hindered))

\* Under a schedule that is enabled, backups are taken again and again.
BackupRecurs ==
  <>[](Usable /\ spec.recurrence = "enabled" /\ "lost" \notin hindered) =>
    []<>(~status.current.finished) /\ []<>status.current.finished

=============================================================================
