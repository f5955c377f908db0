------------------------- MODULE SolrBackup_proofs -------------------------
(***************************************************************************)
(* Theorems about the SolrBackup controller: its state has its types, what *)
(* its status calls a success is one of this backup, and a backup that is  *)
(* reported as successful is complete unless it was hindered.              *)
(***************************************************************************)
EXTENDS SolrBackup, TLAPS, SequenceTheorems, WellFoundedInduction

Currents ==
  [started : BOOLEAN, collections : [Collections -> CollectionStates],
   finished : BOOLEAN, successful : BOOLEAN \cup {Unset}, round : {0, 1}]

Jobs ==
  {Idle} \cup [pc : {"cloud", "collections", "patch"}, spec : BackupSpecs, status : Statuses,
               todo : SUBSET Collections, error : BOOLEAN]

Tasks ==
  [Collections -> [state : {"notfound", "running", "completed", "failed"}, round : 0..2]]

\* The type invariant with the shape of the reconcile and the length of the history
\* that it is about to write.
TypeInv ==
  /\ TypeOK
  /\ job \in Jobs
  /\ job # Idle => Len(job.status.history) <= MaxSaved

\* What holds of the backup s, written or about to be written, with Solr's requests t
\* and what Solr has saved, b: each success is saved, what Solr completed for the
\* round is too, a request in progress is of the round or Solr does not know it,
\* and a finished backup has results and waits for nothing.
Sound(s, t, b) ==
  /\ \A c \in Collections :
       /\ s.collections[c] = "succeeded" => <<s.round, c>> \in b
       /\ t[c].state = "completed" /\ t[c].round = s.round => <<s.round, c>> \in b
       /\ s.collections[c] = "in progress" => t[c].state = "notfound" \/ t[c].round = s.round
       /\ s.finished => s.collections[c] \in {"none"} \cup Results
  /\ s.finished => \E c \in Collections : s.collections[c] \in Results
  /\ s.successful # Unset => s.finished

\* In the first reconcile of a round no result is asked for.
First(s, todo) ==
  \A c \in Collections :
    /\ s.collections[c] \notin Results
    /\ c \in todo => s.collections[c] # "in progress"

SoundInv ==
  /\ Sound(status.current, task, saved)
  /\ job # Idle =>
       /\ Sound(job.status.current, task, saved)
       /\ job.pc # "patch" => ~job.status.current.finished
       /\ job.status.current.round # status.current.round =>
            /\ status.current.finished
            /\ First(job.status.current, IF job.pc = "cloud" THEN Collections ELSE job.todo)

Covers(s, n) == s.successful = TRUE => \A c \in n : s.collections[c] = "succeeded"

\* No collection of n is passed over: it is still to be done or has an entry.
Passed(s, todo, n) == \A c \in n : c \in todo \/ s.collections[c] # "none"

\* While nothing hinders it, a reconcile passes over no collection that is named.
CompleteInv ==
  /\ named \subseteq spec.collections
  /\ job # Idle => named \subseteq job.spec.collections
  /\ hindered = {} =>
       /\ Covers(status.current, named)
       /\ job # Idle =>
            /\ job.status.current.round = status.current.round =>
                 Covers(job.status.current, named)
            /\ job.pc = "collections" => Passed(job.status.current, job.todo, named)

IInv == TypeInv /\ SoundInv /\ CompleteInv

-----------------------------------------------------------------------------
(* The operators.                                                          *)

\* A non-empty set of numbers has a least one: the next collection of the loop is
\* one that is to be done.
LEMMA MinIsMember ==
  ASSUME NEW S, S \subseteq Nat, S # {}
  PROVE  Min(S) \in S
<1>1. PICK x \in S : \A y \in S : ~(<<y, x>> \in OpToRel(<, Nat))
  BY Zenon, NatLessThanWellFounded, WFMin
<1>2. \A y \in S : x =< y
  <2>1. SUFFICES ASSUME NEW y \in S, ~(x =< y) PROVE FALSE
    OBVIOUS
  <2>2. x \in Nat /\ y \in Nat /\ y < x
    BY <2>1
  <2>3. <<y, x>> \in OpToRel(<, Nat)
    BY <2>2 DEF OpToRel
  <2> QED
    BY Zenon, <1>1, <2>1, <2>3
<1> QED
  BY Zenon, <1>2 DEF Min

LEMMA MinOfTwo ==
  ASSUME NEW a \in Nat, NEW b \in Nat
  PROVE  Min({a, b}) \in {a, b} /\ Min({a, b}) <= a /\ Min({a, b}) <= b
<1>1. \E x \in {a, b} : \A y \in {a, b} : x =< y
  <2>1. CASE a <= b
    BY <2>1
  <2>2. CASE ~(a <= b)
    BY <2>2
  <2> QED
    BY <2>1, <2>2
<1>2. Min({a, b}) \in {a, b} /\ \A y \in {a, b} : Min({a, b}) =< y
  BY <1>1 DEF Min
<1> QED
  BY <1>2

LEMMA StatusesAreOfCurrents ==
  Statuses = [current : Currents, scheduled : BOOLEAN, history : Seq(BOOLEAN \cup {Unset})]
BY DEF Statuses, Currents

\* The history that CheckSchedule writes has the type and the length it should.
LEMMA HistoryIsCut ==
  ASSUME NEW h \in Seq(BOOLEAN \cup {Unset}), NEW x \in BOOLEAN \cup {Unset}
  PROVE  LET g == <<x>> \o h
             r == SubSeq(g, 1, Min({MaxSaved, Len(g)}))
         IN  r \in Seq(BOOLEAN \cup {Unset}) /\ Len(r) <= MaxSaved
<1> DEFINE T == BOOLEAN \cup {Unset}
           g == <<x>> \o h
           n == Min({MaxSaved, Len(g)})
<1>1. g \in Seq(T) /\ Len(g) \in Nat
  OBVIOUS
<1>2. n \in Nat /\ n <= MaxSaved /\ n <= Len(g)
  BY Zenon, <1>1, MinOfTwo, BackupAssumption
<1> HIDE DEF T, g, n
<1>3. \A i \in 1..n : g[i] \in T
  BY <1>1, <1>2
<1>4. SubSeq(g, 1, n) \in Seq(T) /\ Len(SubSeq(g, 1, n)) = IF 1 <= n THEN n - 1 + 1 ELSE 0
  BY <1>2, <1>3, SubSeqProperties
<1> DEFINE l == Len(SubSeq(g, 1, n))
<1>5. l = IF 1 <= n THEN n - 1 + 1 ELSE 0
  BY <1>4
<1> HIDE DEF l
<1>6. l <= MaxSaved
  <2>1. MaxSaved \in Nat
    BY Zenon, BackupAssumption
  <2>2. CASE 1 <= n
    <3>1. l = n
      BY <1>2, <1>5, <2>2
    <3> QED
      BY <1>2, <3>1
  <2>3. CASE ~(1 <= n)
    <3>1. l = 0
      BY <1>5, <2>3
    <3> QED
      BY <2>1, <3>1
  <2> QED
    BY <2>2, <2>3
<1> QED
  BY Zenon, <1>4, <1>6 DEF g, n, l, T

\* UpdateStatusOfCollectionBackups changes what is finished and what is successful.
LEMMA UpdateFacts ==
  ASSUME NEW s \in Currents
  PROVE  LET u == UpdateStatusOfCollectionBackups(s)
         IN  /\ u \in Currents
             /\ u.collections = s.collections /\ u.round = s.round
             /\ u.finished => /\ \A c \in Collections : s.collections[c] \in {"none"} \cup Results
                              /\ \E c \in Collections : s.collections[c] \in Results
             /\ u.successful = s.successful \/ u.finished
             /\ u.successful = TRUE /\ s.successful = Unset =>
                  \A c \in Collections : s.collections[c] \in {"none", "succeeded"}
<1> DEFINE entries == {c \in Collections : s.collections[c] # "none"}
           finished == entries # {} /\ \A c \in entries : s.collections[c] \in Results
           successful == \A c \in entries : s.collections[c] = "succeeded"
           v == IF finished /\ s.successful = Unset THEN successful ELSE s.successful
           u == [s EXCEPT !.finished = finished, !.successful = v]
<1>1. UpdateStatusOfCollectionBackups(s) = u
  BY DEF UpdateStatusOfCollectionBackups, Currents
<1>2. finished \in BOOLEAN /\ successful \in BOOLEAN
  OBVIOUS
<1>3. v \in BOOLEAN \cup {Unset}
  BY <1>2 DEF Currents
<1>4. s.collections \in [Collections -> CollectionStates]
  BY DEF Currents
<1>5. finished => /\ \A c \in Collections : s.collections[c] \in {"none"} \cup Results
                  /\ \E c \in Collections : s.collections[c] \in Results
  OBVIOUS
<1>6. v = TRUE /\ s.successful = Unset =>
        \A c \in Collections : s.collections[c] \in {"none", "succeeded"}
  BY Zenon, BackupAssumption
<1>7. v = s.successful \/ finished
  OBVIOUS
<1> HIDE DEF finished, v
<1>8. /\ u \in Currents
      /\ u.collections = s.collections /\ u.round = s.round
      /\ u.finished = finished /\ u.successful = v
  BY Zenon, <1>2, <1>3, <1>4 DEF Currents
<1> HIDE DEF u
<1> QED
  BY <1>1, <1>5, <1>6, <1>7, <1>8

\* What a pass through the loop leaves: it goes on with the next collection, or
\* what is finished is computed.
LEMMA LoopFacts ==
  ASSUME job \in Jobs, job # Idle,
         NEW s \in Currents, NEW todo \in SUBSET Collections, NEW error \in BOOLEAN,
         Loop(s, todo, error)
  PROVE  /\ job' \in Jobs /\ job' # Idle /\ job'.spec = job.spec
         /\ job'.status \in Statuses /\ job'.status.history = job.status.history
         /\ job'.todo \in SUBSET Collections /\ job'.error \in BOOLEAN
         /\ \/ /\ job'.pc = "patch" /\ job'.todo = {} /\ (todo = {} \/ error)
               /\ job'.status.current = UpdateStatusOfCollectionBackups(s)
            \/ /\ job'.pc = "collections" /\ job'.todo = todo /\ todo # {} /\ ~error
               /\ job'.status.current = s
<1> DEFINE u == UpdateStatusOfCollectionBackups(s)
<1>1. u \in Currents
  BY Zenon, UpdateFacts
<1> HIDE DEF u
<1>2. job \in [pc : {"cloud", "collections", "patch"}, spec : BackupSpecs, status : Statuses,
               todo : SUBSET Collections, error : BOOLEAN]
  BY DEF Jobs
<1>3. job.status \in [current : Currents, scheduled : BOOLEAN,
                      history : Seq(BOOLEAN \cup {Unset})]
  BY <1>2, StatusesAreOfCurrents
<1>4. \A x \in Currents :
        /\ [job.status EXCEPT !.current = x] \in Statuses
        /\ [job.status EXCEPT !.current = x].current = x
        /\ [job.status EXCEPT !.current = x].history = job.status.history
  BY <1>3, StatusesAreOfCurrents
<1>5. CASE todo = {} \/ error
  <2>1. job' = [job EXCEPT !.pc = "patch", !.todo = {}, !.error = error,
                           !.status = [job.status EXCEPT !.current = u]]
    BY <1>2, <1>5 DEF Loop, u
  <2>2. /\ job' \in [pc : {"cloud", "collections", "patch"}, spec : BackupSpecs, status : Statuses,
                     todo : SUBSET Collections, error : BOOLEAN]
        /\ job'.pc = "patch" /\ job'.todo = {} /\ job'.spec = job.spec
        /\ job'.status = [job.status EXCEPT !.current = u]
    BY Zenon, <1>1, <1>2, <1>4, <2>1
  <2> QED
    BY <1>1, <1>4, <1>5, <2>2 DEF Jobs, Idle, u
<1>6. CASE ~(todo = {} \/ error)
  <2>1. job' = [job EXCEPT !.pc = "collections", !.todo = todo,
                           !.status = [job.status EXCEPT !.current = s]]
    BY <1>2, <1>6 DEF Loop
  <2>2. /\ job' \in [pc : {"cloud", "collections", "patch"}, spec : BackupSpecs, status : Statuses,
                     todo : SUBSET Collections, error : BOOLEAN]
        /\ job'.pc = "collections" /\ job'.todo = todo /\ job'.spec = job.spec
        /\ job'.status = [job.status EXCEPT !.current = s]
    BY Zenon, <1>2, <1>4, <2>1
  <2> QED
    BY <1>4, <1>6, <2>2 DEF Jobs, Idle
<1> QED
  BY <1>5, <1>6

LEMMA DisturbFacts ==
  ASSUME disturbances \in Nat, UNCHANGED disturbances \/ Disturb
  PROVE  disturbances' \in Nat
BY DEF Disturb

LEMMA JobFacts ==
  ASSUME TypeInv, job # Idle
  PROVE  /\ job \in [pc : {"cloud", "collections", "patch"}, spec : BackupSpecs, status : Statuses,
                     todo : SUBSET Collections, error : BOOLEAN]
         /\ job.status \in [current : Currents, scheduled : BOOLEAN,
                            history : Seq(BOOLEAN \cup {Unset})]
         /\ job.status.current \in Currents
         /\ status.current \in Currents
BY StatusesAreOfCurrents DEF TypeInv, TypeOK, Jobs

-----------------------------------------------------------------------------
(* The steps.                                                              *)

\* Computing what is finished keeps a backup sound.
LEMMA UpdateIsSound ==
  ASSUME NEW s \in Currents, NEW t, NEW b, Sound(s, t, b), s.successful = Unset
  PROVE  Sound(UpdateStatusOfCollectionBackups(s), t, b)
<1> DEFINE u == UpdateStatusOfCollectionBackups(s)
<1>1. /\ u.collections = s.collections /\ u.round = s.round
      /\ u.finished => /\ \A c \in Collections : s.collections[c] \in {"none"} \cup Results
                       /\ \E c \in Collections : s.collections[c] \in Results
      /\ u.successful = s.successful \/ u.finished
  BY Zenon, UpdateFacts
<1> HIDE DEF u
<1> QED
  BY Zenon, <1>1 DEF Sound, u

\* What a pass through the loop leaves alone, and the types of what it changes.
LoopFrame ==
  /\ UNCHANGED <<spec, status, wake, due, cloud, present, named>>
  /\ disturbances' \in Nat /\ task' \in Tasks /\ saved' \subseteq (0..2) \X Collections
  /\ hindered \subseteq hindered' /\ hindered' \subseteq {"lost", "refused"}

\* What is to be shown of the backup s with which a pass ends: it is sound, asks for
\* no result in a first reconcile, and passes over nothing unless it is hindered.
LoopGoal(s, todo, error) ==
  /\ s.round = job.status.current.round /\ s.finished = FALSE /\ s.successful = Unset
  /\ Sound(status.current, task', saved') /\ Sound(s, task', saved')
  /\ s.round # status.current.round => First(s, todo)
  /\ hindered' = {} => Passed(s, todo, named)
  /\ hindered' = {} /\ error =>
       named = {} \/ \E c \in Collections : s.collections[c] \in {"listed", "in progress"}

\* A pass through the loop that ends with the backup s.
LEMMA LoopStep ==
  ASSUME IInv, job.pc \in {"cloud", "collections"},
         NEW s \in Currents, NEW todo \in SUBSET Collections, NEW error \in BOOLEAN,
         Loop(s, todo, error), LoopFrame, LoopGoal(s, todo, error)
  PROVE  IInv'
<1> DEFINE u == UpdateStatusOfCollectionBackups(s)
<1>1. job \in Jobs /\ job # Idle
  <2>1. job \in Jobs
    BY DEF IInv, TypeInv
  <2>2. Idle.pc = "idle"
    BY DEF Idle
  <2> QED
    BY <2>1, <2>2
<1>2. /\ job' \in Jobs /\ job' # Idle /\ job'.spec = job.spec
      /\ job'.status \in Statuses /\ job'.status.history = job.status.history
      /\ job'.todo \in SUBSET Collections /\ job'.error \in BOOLEAN
      /\ \/ /\ job'.pc = "patch" /\ job'.todo = {} /\ (todo = {} \/ error)
            /\ job'.status.current = u
         \/ /\ job'.pc = "collections" /\ job'.todo = todo /\ todo # {} /\ ~error
            /\ job'.status.current = s
  BY <1>1, LoopFacts
<1>3. /\ u \in Currents
      /\ u.collections = s.collections /\ u.round = s.round
      /\ u.finished => /\ \A c \in Collections : s.collections[c] \in {"none"} \cup Results
                       /\ \E c \in Collections : s.collections[c] \in Results
      /\ u.successful = Unset \/ u.finished
      /\ u.successful = TRUE =>
           \A c \in Collections : s.collections[c] \in {"none", "succeeded"}
  BY Zenon, UpdateFacts DEF LoopGoal
<1>4. Sound(u, task', saved')
  BY Zenon, UpdateIsSound DEF LoopGoal
<1> HIDE DEF u
<1>5. TypeInv'
  BY <1>1, <1>2 DEF IInv, TypeInv, TypeOK, Tasks, LoopFrame
<1>6. SoundInv'
  <2>1. Sound(status.current, task, saved)'
    BY Zenon DEF LoopFrame, LoopGoal
  <2>2. Sound(job.status.current, task, saved)'
    BY Zenon, <1>2, <1>4 DEF LoopGoal
  <2>3. (job.pc # "patch" => ~job.status.current.finished)'
    BY Zenon, <1>2 DEF LoopGoal
  <2>4. ASSUME (job.status.current.round # status.current.round)'
        PROVE  /\ status.current.finished'
               /\ First(job.status.current,
                        IF job.pc = "cloud" THEN Collections ELSE job.todo)'
    <3>1. s.round # status.current.round
      BY <1>2, <1>3, <2>4 DEF LoopFrame
    <3>2. First(s, todo)
      BY Zenon, <3>1 DEF LoopGoal
    <3>3. status.current.finished
      BY Zenon, <1>1, <3>1 DEF IInv, SoundInv, LoopGoal
    <3>4. First(u, {})
      BY Zenon, <1>3, <3>2 DEF First
    <3> QED
      BY Zenon, <1>2, <3>2, <3>3, <3>4 DEF LoopFrame
  <2> QED
    BY <2>1, <2>2, <2>3, <2>4 DEF SoundInv
<1>7. CompleteInv'
  <2>1. (named \subseteq spec.collections /\ named \subseteq job.spec.collections)'
    BY <1>1, <1>2 DEF IInv, CompleteInv, LoopFrame
  <2>2. SUFFICES ASSUME hindered' = {}
                 PROVE  /\ Covers(status.current, named)'
                        /\ Covers(job.status.current, named)'
                        /\ (job.pc = "collections")' =>
                              Passed(job.status.current, job.todo, named)'
    BY <2>1 DEF CompleteInv
  <2>3. Covers(status.current, named)'
    BY <2>2 DEF IInv, CompleteInv, LoopFrame
  <2>4. Passed(s, todo, named)
    BY Zenon, <2>2 DEF LoopGoal
  <2>5. named \subseteq Collections
    BY DEF IInv, TypeInv, TypeOK
  <2>6. Covers(s, named)
    BY Zenon, BackupAssumption DEF Covers, LoopGoal
  <2>7. ASSUME todo = {} \/ error PROVE Covers(u, named)
    <3>1. SUFFICES ASSUME u.successful = TRUE, NEW c \in named
                   PROVE  u.collections[c] = "succeeded"
      BY Zenon DEF Covers
    <3>2. u.finished
      BY Zenon, <1>3, <3>1, BackupAssumption
    <3>3. CASE error
      <4>1. named = {} \/ \E d \in Collections : s.collections[d] \in {"listed", "in progress"}
        BY Zenon, <2>2, <3>3 DEF LoopGoal
      <4> QED
        BY Zenon, <1>3, <3>1, <3>2, <4>1 DEF Results
    <3>4. CASE todo = {}
      <4>1. c \in Collections /\ s.collections[c] # "none"
        BY <2>4, <2>5, <3>1, <3>4 DEF Passed
      <4> QED
        BY <1>3, <3>1, <4>1
    <3> QED
      BY <2>7, <3>3, <3>4
  <2> QED
    BY <1>2, <2>3, <2>4, <2>6, <2>7 DEF LoopFrame
<1> QED
  BY <1>5, <1>6, <1>7 DEF IInv

\* A reconcile that is still at work has a backup that is not finished.
LEMMA AtWork ==
  ASSUME IInv, job.pc \in {"cloud", "collections"}
  PROVE  /\ job # Idle
         /\ job.status.current \in Currents /\ job.todo \in SUBSET Collections
         /\ job.status.current.finished = FALSE /\ job.status.current.successful = Unset
         /\ Sound(job.status.current, task, saved)
         /\ Sound(status.current, task, saved)
         /\ disturbances \in Nat /\ task \in Tasks /\ saved \subseteq (0..2) \X Collections
         /\ hindered \subseteq {"lost", "refused"} /\ named \subseteq Collections
         /\ job.status.current.round # status.current.round =>
              /\ status.current.finished
              /\ First(job.status.current, IF job.pc = "cloud" THEN Collections ELSE job.todo)
         /\ job.pc = "collections" /\ hindered = {} =>
              Passed(job.status.current, job.todo, named)
         /\ job.pc = "collections" => job.todo # {}
<1>1. job # Idle
  BY DEF Idle
<1>2. job.status.current \in Currents /\ job.todo \in SUBSET Collections
  BY <1>1, JobFacts DEF IInv
<1>3. /\ Sound(job.status.current, task, saved) /\ Sound(status.current, task, saved)
      /\ ~job.status.current.finished
      /\ job.status.current.round # status.current.round =>
           /\ status.current.finished
           /\ First(job.status.current, IF job.pc = "cloud" THEN Collections ELSE job.todo)
  BY <1>1 DEF IInv, SoundInv
<1>4. job.status.current.finished = FALSE /\ job.status.current.successful = Unset
  BY Zenon, <1>2, <1>3 DEF Sound, Currents
<1>5. /\ disturbances \in Nat /\ task \in Tasks /\ saved \subseteq (0..2) \X Collections
      /\ hindered \subseteq {"lost", "refused"} /\ named \subseteq Collections
      /\ job.pc = "collections" => job.todo # {}
  BY <1>1 DEF IInv, TypeInv, TypeOK, Tasks
<1>6. job.pc = "collections" /\ hindered = {} => Passed(job.status.current, job.todo, named)
  BY <1>1 DEF IInv, CompleteInv
<1> QED
  BY <1>1, <1>2, <1>3, <1>4, <1>5, <1>6

\* An early return, with an error, before the loop.
LEMMA FailStep ==
  ASSUME IInv, job.pc = "cloud", Fail, disturbances' \in Nat,
         UNCHANGED <<spec, status, wake, due, cloud, present, task, saved, hindered, named>>
  PROVE  IInv'
<1>1. job # Idle
  BY DEF Idle
<1>2. job \in [pc : {"cloud", "collections", "patch"}, spec : BackupSpecs, status : Statuses,
               todo : SUBSET Collections, error : BOOLEAN]
  BY <1>1, JobFacts DEF IInv
<1>3. /\ job' \in [pc : {"cloud", "collections", "patch"}, spec : BackupSpecs, status : Statuses,
                   todo : SUBSET Collections, error : BOOLEAN]
      /\ job'.pc = "patch" /\ job'.status = job.status /\ job'.todo = job.todo
      /\ job'.spec = job.spec
  BY Zenon, <1>2 DEF Fail
<1>4. job' # Idle /\ job' \in Jobs
  BY <1>3 DEF Idle, Jobs
<1>5. TypeInv'
  BY <1>1, <1>3, <1>4 DEF IInv, TypeInv, TypeOK
<1>6. SoundInv'
  BY Zenon, <1>1, <1>2, <1>3, <1>4 DEF IInv, SoundInv, First
<1>7. CompleteInv'
  BY <1>1, <1>3, <1>4 DEF IInv, CompleteInv
<1> QED
  BY <1>5, <1>6, <1>7 DEF IInv

\* The backup has started: nothing else of it changes.
LEMMA StartedFacts ==
  ASSUME NEW k \in Currents
  PROVE  LET s == [k EXCEPT !.started = TRUE]
         IN  /\ s \in Currents /\ s.collections = k.collections /\ s.round = k.round
             /\ s.finished = k.finished /\ s.successful = k.successful
BY Zenon DEF Currents

LEMMA PrepareBackupStep ==
  ASSUME IInv, PrepareBackup
  PROVE  IInv'
<1> DEFINE k == job.status.current
           s == [k EXCEPT !.started = TRUE]
           todo == Covered(job.spec)
<1>1. job.pc = "cloud" /\ (Fail \/ Loop(s, todo, FALSE))
  BY Zenon DEF PrepareBackup
<1>2. UNCHANGED <<spec, status, wake, due, cloud, present, task, saved, hindered, named,
                  disturbances>>
  BY DEF PrepareBackup
<1>3. CASE job.pc = "cloud" /\ Fail
  BY <1>2, <1>3, AtWork, FailStep
<1>4. CASE job.pc = "cloud" /\ Loop(s, todo, FALSE)
  <2>1. /\ k \in Currents /\ k.finished = FALSE /\ k.successful = Unset
        /\ Sound(k, task, saved) /\ Sound(status.current, task, saved)
        /\ disturbances \in Nat /\ task \in Tasks /\ saved \subseteq (0..2) \X Collections
        /\ hindered \subseteq {"lost", "refused"} /\ named \subseteq Collections
        /\ k.round # status.current.round => First(k, Collections)
    BY Zenon, <1>4, AtWork
  <2>2. /\ s \in Currents /\ s.collections = k.collections /\ s.round = k.round
        /\ s.finished = k.finished /\ s.successful = k.successful
    BY <2>1, StartedFacts
  <2>3. todo \in SUBSET Collections /\ named \subseteq job.spec.collections
    <3>1. job # Idle
      BY <1>4 DEF Idle
    <3>2. job.spec \in BackupSpecs
      BY <3>1, JobFacts DEF IInv
    <3> QED
      BY Zenon, <3>1, <3>2, BackupAssumption DEF IInv, TypeInv, TypeOK, CompleteInv, Covered
  <2>4. named \subseteq todo
    BY <2>3 DEF Covered
  <2> HIDE DEF k, s, todo
  <2>5. Sound(s, task', saved') /\ Sound(status.current, task', saved')
    BY Zenon, <1>2, <2>1, <2>2 DEF Sound
  <2>6. ASSUME s.round # status.current.round PROVE First(s, todo)
    BY Zenon, <2>1, <2>2, <2>6 DEF First
  <2>7. Passed(s, todo, named)
    BY <2>4 DEF Passed
  <2> QED
    BY Zenon, <1>2, <1>4, <2>1, <2>2, <2>3, <2>5, <2>6, <2>7, LoopStep DEF k, LoopFrame, LoopGoal
<1> QED
  BY Zenon, <1>1, <1>3, <1>4

LEMMA PrepareFailsStep ==
  ASSUME IInv, PrepareFails
  PROVE  IInv'
<1>1. job.pc = "cloud" /\ Fail /\ Disturb
  BY DEF PrepareFails
<1>2. disturbances' \in Nat
  BY <1>1, AtWork, DisturbFacts
<1> QED
  BY <1>1, <1>2, FailStep DEF PrepareFails

LEMMA ListFailsStep ==
  ASSUME IInv, ListFails
  PROVE  IInv'
<1> DEFINE k == job.status.current
           s == [k EXCEPT !.started = TRUE]
<1>1. /\ job.pc = "cloud" /\ Loop(s, {}, TRUE) /\ job.spec.collections = {}
      /\ disturbances > 0 /\ disturbances' = disturbances - 1
      /\ UNCHANGED <<spec, status, wake, due, cloud, present, task, saved, hindered, named>>
  BY Zenon DEF ListFails, Disturb
<1>2. /\ k \in Currents /\ k.finished = FALSE /\ k.successful = Unset
      /\ Sound(k, task, saved) /\ Sound(status.current, task, saved)
      /\ disturbances \in Nat /\ task \in Tasks /\ saved \subseteq (0..2) \X Collections
      /\ hindered \subseteq {"lost", "refused"}
      /\ k.round # status.current.round => First(k, Collections)
  BY Zenon, <1>1, AtWork
<1>3. /\ s \in Currents /\ s.collections = k.collections /\ s.round = k.round
      /\ s.finished = k.finished /\ s.successful = k.successful
  BY <1>2, StartedFacts
<1>4. named = {} /\ disturbances' \in Nat
  BY <1>1, <1>2 DEF IInv, CompleteInv, Idle
<1> HIDE DEF k, s
<1>5. Sound(s, task', saved') /\ Sound(status.current, task', saved')
  BY Zenon, <1>1, <1>2, <1>3 DEF Sound
<1>6. ASSUME s.round # status.current.round PROVE First(s, {})
  BY Zenon, <1>2, <1>3, <1>6 DEF First
<1>7. Passed(s, {}, named)
  BY <1>4 DEF Passed
<1> QED
  BY Zenon, <1>1, <1>2, <1>3, <1>4, <1>5, <1>6, <1>7, LoopStep DEF k, LoopFrame, LoopGoal

LEMMA SkipStep ==
  ASSUME IInv, Skip
  PROVE  IInv'
<1> DEFINE k == job.status.current
           todo == job.todo \ {Next1}
<1>1. /\ job.pc = "collections" /\ k.collections[Next1] \in Results /\ Loop(k, todo, FALSE)
      /\ UNCHANGED <<spec, status, wake, due, cloud, present, task, saved, hindered, named,
                     disturbances>>
  BY Zenon DEF Skip, State
<1>2. /\ k \in Currents /\ k.finished = FALSE /\ k.successful = Unset
      /\ Sound(k, task, saved) /\ Sound(status.current, task, saved)
      /\ disturbances \in Nat /\ task \in Tasks /\ saved \subseteq (0..2) \X Collections
      /\ hindered \subseteq {"lost", "refused"} /\ job.todo \in SUBSET Collections
      /\ k.round # status.current.round => First(k, job.todo)
      /\ hindered = {} => Passed(k, job.todo, named)
  BY Zenon, <1>1, AtWork
<1>3. k.round # status.current.round => First(k, todo)
  BY Zenon, <1>2 DEF First
<1>4. hindered = {} => Passed(k, todo, named)
  BY <1>1, <1>2 DEF Passed, Results
<1>5. todo \in SUBSET Collections
  BY <1>2
<1> HIDE DEF k, todo
<1> QED
  BY Zenon, <1>1, <1>2, <1>3, <1>4, <1>5, LoopStep DEF k, LoopFrame, LoopGoal

-----------------------------------------------------------------------------
(* The steps that record an entry for the next collection.                 *)

\* The request of the collection c is as it was, is gone or was made for the
\* round r.
Renewed(c, r) ==
  \/ task'[c] = task[c]
  \/ task'[c].state = "notfound"
  \/ task'[c].state = "running" /\ task'[c].round = r

\* What is to be shown of the entry that is recorded for c: a success is saved, a
\* request in progress is of this round, a result had been waited for, and there is
\* an entry unless the reconcile is hindered.
EntryGoal(c, entry, error) ==
  LET r == job.status.current.round
  IN  /\ Renewed(c, r) /\ \A d \in Collections \ {c} : task'[d] = task[d]
      /\ saved' = saved
      /\ entry = "succeeded" => <<r, c>> \in saved
      /\ entry = "in progress" => task'[c].state = "notfound" \/ task'[c].round = r
      /\ entry \in Results => job.status.current.collections[c] \in Results \cup {"in progress"}
      /\ hindered' = {} => entry # "none"
      /\ hindered' = {} /\ error => entry \in {"listed", "in progress"}

LEMMA RecordStep ==
  ASSUME IInv, job.pc = "collections",
         NEW c \in Collections, c = Next1,
         NEW entry \in CollectionStates, NEW error \in BOOLEAN, Record(c, entry, error),
         LoopFrame, EntryGoal(c, entry, error)
  PROVE  IInv'
<1> DEFINE k == job.status.current
           s == [k EXCEPT !.collections[c] = entry]
           todo == job.todo \ {c}
<1>1. /\ k \in Currents /\ k.finished = FALSE /\ k.successful = Unset
      /\ Sound(k, task, saved) /\ Sound(status.current, task, saved)
      /\ job.todo \in SUBSET Collections /\ job.todo # {} /\ named \subseteq Collections
      /\ k.round # status.current.round => status.current.finished /\ First(k, job.todo)
      /\ hindered = {} => Passed(k, job.todo, named)
  BY Zenon, AtWork
<1>2. c \in job.todo
  <2>1. job.todo \subseteq Nat
    BY Zenon, <1>1, BackupAssumption
  <2> QED
    BY <1>1, <2>1, MinIsMember DEF Next1
<1>3. Loop(s, todo, error)
  BY DEF Record
<1>4. /\ s \in Currents /\ s.round = k.round
      /\ s.finished = k.finished /\ s.successful = k.successful
      /\ s.collections = [k.collections EXCEPT ![c] = entry]
      /\ k.collections \in [Collections -> CollectionStates]
  BY <1>1 DEF Currents
<1>5. todo \in SUBSET Collections
  BY <1>1
<1>6. /\ Renewed(c, k.round) /\ \A d \in Collections \ {c} : task'[d] = task[d]
      /\ saved' = saved
      /\ entry = "succeeded" => <<k.round, c>> \in saved
      /\ entry = "in progress" => task'[c].state = "notfound" \/ task'[c].round = k.round
      /\ entry \in Results => k.collections[c] \in Results \cup {"in progress"}
      /\ hindered' = {} => entry # "none"
      /\ hindered' = {} /\ error => entry \in {"listed", "in progress"}
  BY Zenon DEF EntryGoal
<1>7. s.round = job.status.current.round /\ s.finished = FALSE /\ s.successful = Unset
  BY <1>1, <1>4
<1> HIDE DEF k, s, todo
<1>8. /\ s.collections[c] = entry
      /\ \A d \in Collections : d # c => s.collections[d] = k.collections[d]
  BY <1>4
<1>9. ASSUME NEW d \in Collections
      PROVE  /\ s.collections[d] = "succeeded" => <<s.round, d>> \in saved
             /\ task'[d].state = "completed" /\ task'[d].round = s.round
                  => <<s.round, d>> \in saved
             /\ s.collections[d] = "in progress"
                  => task'[d].state = "notfound" \/ task'[d].round = s.round
  <2>1. /\ k.collections[d] = "succeeded" => <<k.round, d>> \in saved
        /\ task[d].state = "completed" /\ task[d].round = k.round => <<k.round, d>> \in saved
        /\ k.collections[d] = "in progress"
             => task[d].state = "notfound" \/ task[d].round = k.round
    BY Zenon, <1>1 DEF Sound
  <2>2. CASE d # c
    BY Zenon, <1>4, <1>6, <1>8, <2>1, <2>2
  <2>3. CASE d = c
    BY Zenon, <1>4, <1>6, <1>8, <2>1, <2>3 DEF Renewed
  <2> QED
    BY Zenon, <2>2, <2>3
<1>10. Sound(s, task', saved')
  BY Zenon, <1>6, <1>7, <1>9 DEF Sound
<1>11. ASSUME NEW d \in Collections
       PROVE  /\ task'[d].state = "completed" /\ task'[d].round = status.current.round
                   => <<status.current.round, d>> \in saved
              /\ status.current.collections[d] = "in progress"
                   => task'[d].state = "notfound" \/ task'[d].round = status.current.round
  <2> DEFINE w == status.current
  <2>1. /\ task[d].state = "completed" /\ task[d].round = w.round => <<w.round, d>> \in saved
        /\ w.collections[d] = "in progress"
             => task[d].state = "notfound" \/ task[d].round = w.round
        /\ k.round # w.round => w.collections[d] # "in progress"
    BY Zenon, <1>1 DEF Sound, Results
  <2> HIDE DEF w
  <2>2. CASE d # c
    BY Zenon, <1>6, <2>1, <2>2 DEF w
  <2>3. CASE d = c
    BY Zenon, <1>6, <2>1, <2>3 DEF Renewed, w
  <2> QED
    BY Zenon, <2>2, <2>3
<1>12. Sound(status.current, task', saved')
  BY Zenon, <1>1, <1>6, <1>11 DEF Sound
<1>13. ASSUME s.round # status.current.round PROVE First(s, todo)
  <2>1. First(k, job.todo) /\ entry \notin Results
    BY Zenon, <1>1, <1>2, <1>4, <1>6, <1>13 DEF First
  <2> QED
    BY Zenon, <1>8, <2>1 DEF First, todo
<1>14. ASSUME hindered' = {} PROVE Passed(s, todo, named)
  BY Zenon, <1>1, <1>6, <1>8, <1>14 DEF Passed, todo, LoopFrame
<1>15. ASSUME hindered' = {} /\ error
       PROVE  \E d \in Collections : s.collections[d] \in {"listed", "in progress"}
  BY Zenon, <1>6, <1>8, <1>15
<1>16. LoopGoal(s, todo, error)
  BY Zenon, <1>7, <1>10, <1>12, <1>13, <1>14, <1>15 DEF LoopGoal
<1> QED
  BY <1>3, <1>4, <1>5, <1>16, LoopStep

\* What the steps for the next collection have in common.
LEMMA NextCollection ==
  ASSUME IInv, NEW c \in Collections, Starting(c) \/ Checking(c)
  PROVE  /\ job.pc = "collections" /\ c = Next1 /\ State(c) \in CollectionStates
         /\ State(c) = job.status.current.collections[c]
         /\ job.status.current.round \in {0, 1}
         /\ disturbances \in Nat /\ task \in Tasks /\ hindered \subseteq {"lost", "refused"}
<1>1. job.pc = "collections" /\ c = Next1
  BY Zenon DEF Starting, Checking
<1>2. job.status.current \in Currents
  BY <1>1, AtWork
<1> QED
  BY Zenon, <1>1, <1>2, AtWork DEF State, Currents

LEMMA SubmitFacts ==
  ASSUME NEW c \in Collections, task \in Tasks, job.status.current.round \in {0, 1}, Submit(c)
  PROVE  /\ task' \in Tasks /\ \A d \in Collections \ {c} : task'[d] = task[d]
         /\ task'[c].state = "running" /\ task'[c].round = job.status.current.round
BY DEF Submit, Tasks

LEMMA StartSteps ==
  ASSUME IInv, NEW c \in Collections, StartBackup(c) \/ StartFails(c) \/ StartAnswerLost(c)
  PROVE  IInv'
<1>1. /\ Starting(c)
      /\ UNCHANGED <<spec, status, wake, due, cloud, present, saved, named>>
  BY Zenon DEF StartBackup, StartFails, StartAnswerLost
<1>2. /\ job.pc = "collections" /\ c = Next1 /\ State(c) \in CollectionStates
      /\ job.status.current.round \in {0, 1}
      /\ disturbances \in Nat /\ task \in Tasks /\ hindered \subseteq {"lost", "refused"}
  BY <1>1, NextCollection
<1>3. State(c) \in {"none", "listed"} /\ saved \subseteq (0..2) \X Collections
  BY <1>1 DEF Starting, IInv, TypeInv, TypeOK
<1>4. disturbances' \in Nat
  <2>1. UNCHANGED disturbances \/ Disturb
    BY Zenon DEF StartBackup, StartFails, StartAnswerLost
  <2> QED
    BY <1>2, <2>1, DisturbFacts
<1>5. \/ Submit(c) /\ Record(c, "in progress", FALSE) /\ UNCHANGED hindered
      \/ UNCHANGED task /\ Record(c, "listed", FALSE) /\ UNCHANGED hindered
      \/ /\ UNCHANGED task \/ Submit(c)
         /\ Record(c, State(c), TRUE)
         /\ hindered' = hindered \cup {"refused"} \/ hindered' = hindered \cup {"lost"}
  BY Zenon DEF StartBackup, StartFails, StartAnswerLost, Refused
<1>6. /\ task' \in Tasks /\ \A d \in Collections \ {c} : task'[d] = task[d]
      /\ Submit(c) => /\ task'[c].state = "running"
                      /\ task'[c].round = job.status.current.round
      /\ Renewed(c, job.status.current.round)
  <2>1. CASE Submit(c)
    BY <1>2, <2>1, SubmitFacts DEF Renewed
  <2>2. CASE ~Submit(c) /\ UNCHANGED task
    BY <1>2, <2>2 DEF Renewed
  <2> QED
    BY Zenon, <1>5, <2>1, <2>2
<1>7. /\ hindered \subseteq hindered' /\ hindered' \subseteq {"lost", "refused"}
      /\ saved' \subseteq (0..2) \X Collections
  BY Zenon, <1>1, <1>2, <1>3, <1>5
<1>8. LoopFrame
  BY <1>1, <1>4, <1>6, <1>7 DEF LoopFrame
<1>9. /\ "in progress" \in CollectionStates /\ "listed" \in CollectionStates
      /\ "in progress" \notin Results /\ "listed" \notin Results /\ "none" \notin Results
      /\ "succeeded" \in Results
  BY DEF CollectionStates, Results
<1>10. CASE Submit(c) /\ Record(c, "in progress", FALSE) /\ UNCHANGED hindered
  <2>1. EntryGoal(c, "in progress", FALSE)
    BY Zenon, <1>1, <1>6, <1>9, <1>10 DEF EntryGoal
  <2> QED
    BY Zenon, <1>2, <1>8, <1>9, <1>10, <2>1, RecordStep
<1>11. CASE UNCHANGED task /\ Record(c, "listed", FALSE) /\ UNCHANGED hindered
  <2>1. EntryGoal(c, "listed", FALSE)
    BY Zenon, <1>1, <1>6, <1>9, <1>11 DEF EntryGoal
  <2> QED
    BY Zenon, <1>2, <1>8, <1>9, <1>11, <2>1, RecordStep
<1>12. CASE /\ Record(c, State(c), TRUE)
            /\ hindered' = hindered \cup {"refused"} \/ hindered' = hindered \cup {"lost"}
  <2>1. hindered' # {}
    BY <1>12
  <2>2. EntryGoal(c, State(c), TRUE)
    BY Zenon, <1>1, <1>3, <1>6, <1>9, <2>1 DEF EntryGoal
  <2> QED
    BY Zenon, <1>2, <1>8, <1>12, <2>2, RecordStep
<1> QED
  BY Zenon, <1>5, <1>10, <1>11, <1>12

LEMMA CheckSteps ==
  ASSUME IInv, NEW c \in Collections, CheckBackup(c) \/ CheckFails(c) \/ DeleteFails(c)
  PROVE  IInv'
<1> DEFINE k == job.status.current
           result == IF task[c].state = "completed" THEN "succeeded" ELSE "failed"
<1>1. /\ Checking(c)
      /\ UNCHANGED <<spec, status, wake, due, cloud, present, saved, named>>
  BY Zenon DEF CheckBackup, CheckFails, DeleteFails
<1>2. /\ job.pc = "collections" /\ c = Next1 /\ k.collections[c] = "in progress"
      /\ disturbances \in Nat /\ task \in Tasks /\ hindered \subseteq {"lost", "refused"}
  BY Zenon, <1>1, NextCollection DEF Checking
<1>3. /\ task[c].state = "notfound" \/ task[c].round = k.round
      /\ task[c].state = "completed" /\ task[c].round = k.round => <<k.round, c>> \in saved
      /\ saved \subseteq (0..2) \X Collections
  BY Zenon, <1>2, AtWork DEF Sound
<1>4. disturbances' \in Nat
  <2>1. UNCHANGED disturbances \/ Disturb
    BY Zenon DEF CheckBackup, CheckFails, DeleteFails
  <2> QED
    BY Zenon, <1>2, <2>1, DisturbFacts
<1>5. \/ /\ task' = [task EXCEPT ![c] = NoRequest] /\ UNCHANGED hindered
         /\ task[c].state \in {"completed", "failed"} /\ Record(c, result, FALSE)
      \/ /\ UNCHANGED <<task, hindered>>
         /\ Record(c, "in progress", FALSE) \/ Record(c, "in progress", TRUE)
      \/ /\ UNCHANGED task /\ hindered' = hindered \cup {"lost"}
         /\ task[c].state \in {"completed", "failed"} /\ Record(c, result, TRUE)
  BY Zenon DEF CheckBackup, CheckFails, DeleteFails
<1>6. ASSUME task[c].state \in {"completed", "failed"}
      PROVE  /\ result \in Results /\ result \in CollectionStates
             /\ result # "none" /\ result # "in progress"
             /\ result = "succeeded" => <<k.round, c>> \in saved
  BY <1>3, <1>6 DEF Results, CollectionStates
<1> HIDE DEF result
<1>7. /\ task' \in Tasks /\ \A d \in Collections \ {c} : task'[d] = task[d]
      /\ task'[c] = task[c] \/ task'[c].state = "notfound"
  <2>1. /\ NoRequest.state = "notfound"
        /\ NoRequest \in [state : {"notfound", "running", "completed", "failed"}, round : 0..2]
    BY DEF NoRequest
  <2>2. task' = task \/ task' = [task EXCEPT ![c] = NoRequest]
    BY Zenon, <1>5
  <2> QED
    BY Zenon, <1>2, <2>1, <2>2 DEF Tasks
<1>8. /\ hindered \subseteq hindered' /\ hindered' \subseteq {"lost", "refused"}
      /\ saved' \subseteq (0..2) \X Collections
  BY Zenon, <1>1, <1>2, <1>3, <1>5
<1>9. LoopFrame
  BY Zenon, <1>1, <1>4, <1>7, <1>8 DEF LoopFrame
<1>10. /\ "in progress" \in CollectionStates /\ "in progress" \notin Results
       /\ Renewed(c, k.round)
  BY <1>7 DEF CollectionStates, Results, Renewed
<1>11. ASSUME NEW error \in BOOLEAN, Record(c, "in progress", error)
       PROVE  IInv'
  <2>1. EntryGoal(c, "in progress", error)
    BY Zenon, <1>1, <1>3, <1>7, <1>10 DEF EntryGoal
  <2> QED
    BY Zenon, <1>2, <1>9, <1>10, <1>11, <2>1, RecordStep
<1>12. ASSUME NEW error \in BOOLEAN, Record(c, result, error),
              task[c].state \in {"completed", "failed"},
              error => hindered' # {}
       PROVE  IInv'
  <2>1. EntryGoal(c, result, error)
    BY Zenon, <1>1, <1>2, <1>6, <1>7, <1>10, <1>12 DEF EntryGoal
  <2> QED
    BY Zenon, <1>2, <1>6, <1>9, <1>12, <2>1, RecordStep
<1> QED
  BY Zenon, <1>5, <1>11, <1>12

-----------------------------------------------------------------------------
(* The beginning and the end of a reconcile, Solr and the others.          *)

\* A reconcile goes on with the backup of the status, or begins the next one after
\* a finished one.
LEMMA CheckScheduleFacts ==
  ASSUME status \in Statuses, Len(status.history) <= MaxSaved
  PROVE  LET s == CheckSchedule(status)
         IN  /\ s \in Statuses /\ Len(s.history) <= MaxSaved
             /\ \/ s.current = status.current
                \/ status.current.finished /\ s.current = Fresh(1 - status.current.round)
<1> DEFINE s == CheckSchedule(status)
           h == <<status.current.successful>> \o status.history
           r == SubSeq(h, 1, Min({MaxSaved, Len(h)}))
           f == Fresh(1 - status.current.round)
<1>1. /\ status \in [current : Currents, scheduled : BOOLEAN,
                     history : Seq(BOOLEAN \cup {Unset})]
      /\ status.current \in Currents
  BY StatusesAreOfCurrents
<1>2. r \in Seq(BOOLEAN \cup {Unset}) /\ Len(r) <= MaxSaved
  BY Zenon, <1>1, HistoryIsCut DEF Currents
<1>3. f \in Currents
  <2>1. 1 - status.current.round \in {0, 1}
    BY <1>1 DEF Currents
  <2> QED
    BY Zenon, <2>1 DEF Fresh, Currents, CollectionStates
<1> HIDE DEF r, f
<1>4. CASE s = status
  BY <1>4
<1>5. CASE s = [status EXCEPT !.scheduled = FALSE]
  <2>1. s \in Statuses /\ s.history = status.history /\ s.current = status.current
    BY Zenon, <1>1, <1>5, StatusesAreOfCurrents
  <2> QED
    BY <2>1
<1>6. CASE /\ status.current.finished
           /\ s = [current |-> f, scheduled |-> FALSE, history |-> r]
  <2>1. s \in Statuses /\ s.history = r /\ s.current = f
    BY <1>2, <1>3, <1>6, StatusesAreOfCurrents
  <2> QED
    BY <1>2, <1>6, <2>1 DEF f
<1>7. \/ s = status
      \/ s = [status EXCEPT !.scheduled = FALSE]
      \/ /\ status.current.finished
         /\ s = [current |-> f, scheduled |-> FALSE, history |-> r]
  BY DEF CheckSchedule, f, r
<1> QED
  BY <1>4, <1>5, <1>6, <1>7

LEMMA ReconcileStep ==
  ASSUME IInv, Reconcile
  PROVE  IInv'
<1> DEFINE s == CheckSchedule(status)
           k == status.current
<1>1. /\ status \in Statuses /\ Len(status.history) <= MaxSaved /\ k \in Currents
      /\ task \in Tasks /\ saved \subseteq (0..2) \X Collections
      /\ Sound(k, task, saved)
  BY StatusesAreOfCurrents DEF IInv, TypeInv, TypeOK, SoundInv, Tasks
<1>2. /\ s \in Statuses /\ Len(s.history) <= MaxSaved
      /\ s.current = k \/ (k.finished /\ s.current = Fresh(1 - k.round))
  BY <1>1, CheckScheduleFacts
<1>3. /\ job' = [pc |-> IF s.current.finished THEN "patch" ELSE "cloud",
                 spec |-> spec, status |-> s, todo |-> {}, error |-> FALSE]
      /\ wake' = "no"
      /\ IF s.current.round = k.round THEN UNCHANGED <<task, saved>> ELSE Forget(s.current.round)
      /\ UNCHANGED <<spec, status, due, cloud, present, hindered, named, disturbances>>
  BY Zenon DEF Reconcile
<1> HIDE DEF s
<1>4. /\ job' \in Jobs /\ job' # Idle /\ job'.status = s /\ job'.todo = {}
      /\ job'.pc = (IF s.current.finished THEN "patch" ELSE "cloud")
      /\ job'.error = FALSE /\ job'.spec = spec
  <2>1. spec \in BackupSpecs
    BY DEF IInv, TypeInv, TypeOK
  <2> QED
    BY <1>2, <1>3, <2>1 DEF Jobs, Idle
<1>5. CASE s.current = k
  <2>1. UNCHANGED <<task, saved>>
    BY <1>3, <1>5
  <2>2. TypeInv'
    BY <1>2, <1>3, <1>4, <2>1 DEF IInv, TypeInv, TypeOK
  <2>3. SoundInv'
    BY Zenon, <1>1, <1>3, <1>4, <1>5, <2>1 DEF SoundInv
  <2>4. CompleteInv'
    BY Zenon, <1>3, <1>4, <1>5 DEF IInv, CompleteInv
  <2> QED
    BY <2>2, <2>3, <2>4 DEF IInv
<1>6. CASE k.finished /\ s.current = Fresh(1 - k.round)
  <2> DEFINE n == 1 - k.round
  <2>1. /\ k.round \in {0, 1} /\ n \in {0, 1} /\ n # k.round
        /\ s.current.round = n /\ s.current.finished = FALSE /\ s.current.successful = Unset
        /\ \A c \in Collections : s.current.collections[c] = "none"
    BY <1>1, <1>6 DEF Fresh, Currents
  <2>2. Forget(n)
    BY Zenon, <1>3, <2>1
  <2> HIDE DEF n
  <2>3. /\ task' \in Tasks
        /\ \A c \in Collections : /\ task'[c].state = task[c].state /\ task'[c].round # n
                                  /\ task'[c].round = task[c].round \/ task'[c].round = 2
        /\ saved' = {b \in saved : b[1] # n}
    <3>1. task' = [c \in Collections |->
                     IF task[c].round = n THEN [task[c] EXCEPT !.round = 2] ELSE task[c]]
      BY <2>2 DEF Forget
    <3>2. SUFFICES ASSUME NEW c \in Collections
                   PROVE  /\ task'[c] \in [state : {"notfound", "running", "completed", "failed"},
                                           round : 0..2]
                          /\ task'[c].state = task[c].state /\ task'[c].round # n
                          /\ task'[c].round = task[c].round \/ task'[c].round = 2
      BY <2>2, <3>1 DEF Forget, Tasks
    <3>3. task[c] \in [state : {"notfound", "running", "completed", "failed"}, round : 0..2]
      BY <1>1 DEF Tasks
    <3> QED
      BY <2>1, <3>1, <3>3
  <2>4. Sound(k, task', saved')
    <3>1. SUFFICES ASSUME NEW c \in Collections
                   PROVE  /\ k.collections[c] = "succeeded" => <<k.round, c>> \in saved'
                          /\ task'[c].state = "completed" /\ task'[c].round = k.round
                                => <<k.round, c>> \in saved'
                          /\ k.collections[c] # "in progress"
      BY Zenon, <1>1 DEF Sound
    <3>2. /\ k.collections[c] = "succeeded" => <<k.round, c>> \in saved
          /\ task[c].state = "completed" /\ task[c].round = k.round => <<k.round, c>> \in saved
          /\ k.collections[c] \in {"none"} \cup Results
      BY Zenon, <1>1, <1>6 DEF Sound
    <3>3. <<k.round, c>> \in saved => <<k.round, c>> \in saved'
      BY <2>1, <2>3
    <3>4. k.collections[c] # "in progress"
      BY Zenon, <3>2 DEF Results
    <3>5. task'[c].state = "completed" /\ task'[c].round = k.round
            => task[c].state = "completed" /\ task[c].round = k.round
      BY <2>1, <2>3
    <3> QED
      BY Zenon, <3>2, <3>3, <3>4, <3>5
  <2>5. Sound(s.current, task', saved')
    BY Zenon, <2>1, <2>3 DEF Sound
  <2>6. TypeInv'
    <3>1. task' \in Tasks /\ saved' \subseteq (0..2) \X Collections
      BY <1>1, <2>3
    <3>2. TypeOK'
      BY Zenon, <1>2, <1>3, <1>4, <3>1 DEF IInv, TypeInv, TypeOK, Tasks
    <3> QED
      BY <1>2, <1>4, <3>2 DEF TypeInv
  <2>7. SoundInv'
    <3>1. First(s.current, Collections)
      BY Zenon, <2>1 DEF First, Results
    <3> QED
      BY Zenon, <1>3, <1>4, <1>6, <2>1, <2>4, <2>5, <3>1 DEF SoundInv
  <2>8. CompleteInv'
    BY Zenon, <1>3, <1>4, <2>1 DEF IInv, CompleteInv
  <2> QED
    BY <2>6, <2>7, <2>8 DEF IInv
<1> QED
  BY <1>2, <1>5, <1>6

LEMMA PatchStatusStep ==
  ASSUME IInv, PatchStatus
  PROVE  IInv'
<1> DEFINE k == job.status.current
<1>1. job.pc = "patch" /\ job # Idle
  BY DEF PatchStatus, Idle
<1>2. /\ job.status \in [current : Currents, scheduled : BOOLEAN,
                         history : Seq(BOOLEAN \cup {Unset})]
      /\ k \in Currents /\ Len(job.status.history) <= MaxSaved
      /\ Sound(k, task, saved)
      /\ k.round # status.current.round => First(k, job.todo)
  BY <1>1, JobFacts DEF IInv, TypeInv, SoundInv
<1>3. /\ status' = PatchedStatus /\ job' = Idle
      /\ due' \in BOOLEAN /\ wake' \in {"no", "now", "timer"}
      /\ named' = IF k.round = status.current.round THEN named ELSE job.spec.collections \cap spec.collections
      /\ saved' = {b \in saved : b[1] = k.round}
      /\ UNCHANGED <<spec, cloud, present, task, hindered, disturbances>>
  BY DEF PatchStatus, Woken
<1>4. /\ status' \in Statuses /\ status'.current = k
      /\ status'.history = job.status.history
  BY Zenon, <1>2, <1>3, StatusesAreOfCurrents DEF PatchedStatus, Scheduled
<1>5. Sound(k, task', saved')
  <2>1. \A c \in Collections : <<k.round, c>> \in saved => <<k.round, c>> \in saved'
    BY <1>3
  <2> QED
    BY Zenon, <1>2, <1>3, <2>1 DEF Sound
<1>6. job' \in Jobs /\ job'.pc = "idle"
  BY <1>3 DEF Jobs, Idle
<1>7. TypeInv'
  <2>1. named' \subseteq Collections
    BY Zenon, <1>3, BackupAssumption DEF IInv, TypeInv, TypeOK
  <2>2. TypeOK'
    BY Zenon, <1>2, <1>3, <1>4, <1>6, <2>1 DEF IInv, TypeInv, TypeOK
  <2> QED
    BY <1>3, <1>6, <2>2 DEF TypeInv
<1>8. SoundInv'
  BY Zenon, <1>3, <1>4, <1>5 DEF SoundInv
<1>9. CompleteInv'
  <2>1. (named \subseteq spec.collections)'
    BY <1>3 DEF IInv, CompleteInv
  <2>2. ASSUME hindered' = {} PROVE Covers(k, named')
    <3>1. CASE k.round = status.current.round
      BY <1>1, <1>3, <2>2, <3>1 DEF IInv, CompleteInv
    <3>2. CASE k.round # status.current.round
      BY Zenon, <1>2, <3>2, BackupAssumption DEF Covers, Sound, First
    <3> QED
      BY <3>1, <3>2
  <2> QED
    BY <1>3, <1>4, <2>1, <2>2 DEF CompleteInv
<1> QED
  BY <1>7, <1>8, <1>9 DEF IInv

LEMMA ReconcileLostStep ==
  ASSUME IInv, ReconcileLost
  PROVE  IInv'
<1>1. /\ job' = Idle /\ wake' = "now" /\ Disturb
      /\ hindered \subseteq hindered' /\ hindered' \subseteq hindered \cup {"lost"}
      /\ UNCHANGED <<spec, status, due, cloud, present, task, saved, named>>
  BY DEF ReconcileLost
<1>2. job' \in Jobs /\ job'.pc = "idle"
  BY <1>1 DEF Jobs, Idle
<1>3. disturbances' \in Nat
  BY <1>1, DisturbFacts DEF IInv, TypeInv, TypeOK
<1>4. TypeInv'
  BY <1>1, <1>2, <1>3 DEF IInv, TypeInv, TypeOK
<1>5. SoundInv'
  BY <1>1 DEF IInv, SoundInv
<1>6. CompleteInv'
  BY <1>1 DEF IInv, CompleteInv
<1> QED
  BY <1>4, <1>5, <1>6 DEF IInv

\* Solr saves what it completes.
LEMMA SolrEndsStep ==
  ASSUME IInv, NEW c \in Collections, SolrEnds(c)
  PROVE  IInv'
<1>1. /\ task \in Tasks /\ saved \subseteq (0..2) \X Collections
      /\ task[c].round \in 0..2 /\ task[c].state = "running"
  BY DEF IInv, TypeInv, TypeOK, Tasks, SolrEnds
<1>2. /\ UNCHANGED <<spec, status, job, wake, due, cloud, present, hindered, named, disturbances>>
      /\ \/ /\ task' = [task EXCEPT ![c].state = "completed"]
            /\ saved' = saved \cup {<<task[c].round, c>>}
         \/ /\ task' = [task EXCEPT ![c].state = "failed"] /\ saved' = saved
  BY DEF SolrEnds
<1>3. /\ task' \in Tasks
      /\ \A d \in Collections : d # c => task'[d] = task[d]
      /\ task'[c].round = task[c].round /\ task'[c].state \in {"completed", "failed"}
  BY <1>1, <1>2 DEF Tasks
<1>4. /\ saved' \subseteq (0..2) \X Collections /\ saved \subseteq saved'
      /\ task'[c].state = "completed" => <<task[c].round, c>> \in saved'
  BY <1>1, <1>2 DEF Tasks
<1>5. ASSUME NEW s, Sound(s, task, saved) PROVE Sound(s, task', saved')
  <2>1. SUFFICES ASSUME NEW d \in Collections
                 PROVE  /\ s.collections[d] = "succeeded" => <<s.round, d>> \in saved'
                        /\ task'[d].state = "completed" /\ task'[d].round = s.round
                             => <<s.round, d>> \in saved'
                        /\ s.collections[d] = "in progress"
                             => task'[d].state = "notfound" \/ task'[d].round = s.round
    BY Zenon, <1>5 DEF Sound
  <2>2. CASE d # c
    BY Zenon, <1>3, <1>4, <1>5, <2>2 DEF Sound
  <2>3. CASE d = c
    BY Zenon, <1>1, <1>3, <1>4, <1>5, <2>3 DEF Sound
  <2> QED
    BY Zenon, <2>2, <2>3
<1>6. TypeInv'
  <2>1. TypeOK'
    BY <1>2, <1>3, <1>4 DEF IInv, TypeInv, TypeOK, Tasks
  <2> QED
    BY <1>2, <2>1 DEF IInv, TypeInv
<1>7. SoundInv'
  BY <1>2, <1>5 DEF IInv, SoundInv
<1>8. CompleteInv'
  BY <1>2 DEF IInv, CompleteInv
<1> QED
  BY <1>6, <1>7, <1>8 DEF IInv

\* The user, the clock, the SolrCloud and what is in Solr: the status, the reconcile
\* and Solr's requests are left alone, and no collection is named anew.
LEMMA OtherSteps ==
  ASSUME IInv,
         EditBackup \/ TimePasses \/ CloudChanges \/ CreateCollection \/ DeleteCollection
  PROVE  IInv'
<1>1. UNCHANGED <<status, job, task, saved>>
  BY DEF EditBackup, TimePasses, CloudChanges, CreateCollection, DeleteCollection
<1>2. /\ hindered \subseteq hindered' /\ hindered' \subseteq hindered \cup {"lost"}
      /\ wake' \in {"now", wake} /\ due' \in {TRUE, due}
      /\ UNCHANGED disturbances \/ Disturb
  BY Zenon DEF EditBackup, TimePasses, CloudChanges, CreateCollection, DeleteCollection
<1>3. spec' \in BackupSpecs /\ cloud' \in Clouds /\ present' \subseteq Collections
  BY Zenon DEF IInv, TypeInv, TypeOK, EditBackup, TimePasses, CloudChanges, CreateCollection,
         DeleteCollection
<1>4. named' \subseteq named /\ named' \subseteq spec'.collections
  BY Zenon DEF IInv, CompleteInv, EditBackup, TimePasses, CloudChanges, CreateCollection,
         DeleteCollection
<1>5. disturbances' \in Nat
  BY <1>2, DisturbFacts DEF IInv, TypeInv, TypeOK
<1>6. TypeInv'
  <2>1. TypeOK'
    BY Zenon, <1>1, <1>2, <1>3, <1>4, <1>5 DEF IInv, TypeInv, TypeOK
  <2> QED
    BY <1>1, <2>1 DEF IInv, TypeInv
<1>7. SoundInv'
  BY Zenon, <1>1 DEF IInv, SoundInv
<1>8. CompleteInv'
  BY <1>1, <1>2, <1>4 DEF IInv, CompleteInv, Covers, Passed
<1> QED
  BY <1>6, <1>7, <1>8 DEF IInv

-----------------------------------------------------------------------------
(* The theorems.                                                           *)

LEMMA Initially == ASSUME Init PROVE IInv
<1>1. Fresh(0) \in Currents
  BY DEF Fresh, Currents, CollectionStates
<1>2. /\ status \in Statuses /\ status.current = Fresh(0) /\ status.history = <<>>
      /\ Len(status.history) = 0
  BY <1>1, StatusesAreOfCurrents DEF Init
<1>3. job \in Jobs /\ job = Idle /\ job.pc = "idle"
  BY DEF Init, Jobs, Idle
<1>4. task \in Tasks /\ \A c \in Collections : task[c].state = "notfound"
  BY DEF Init, Tasks, NoRequest
<1>5. spec \in BackupSpecs /\ spec.collections \subseteq Collections
  BY Zenon, BackupAssumption DEF Init
<1>6. cloud \in Clouds
  BY Zenon DEF Init, Clouds
<1>7. TypeInv
  <2>1. present \subseteq Collections /\ MaxSaved \in Nat /\ disturbances \in Nat
    BY Zenon, BackupAssumption DEF Init
  <2>2. Len(status.history) <= MaxSaved
    BY <1>2, <2>1
  <2>3. /\ wake \in {"no", "now", "timer"} /\ due \in BOOLEAN
        /\ hindered \subseteq {"lost", "refused"} /\ saved \subseteq (0..2) \X Collections
        /\ named \subseteq Collections
    BY Zenon, <1>5 DEF Init
  <2>4. TypeOK
    BY <1>2, <1>3, <1>4, <1>5, <1>6, <2>1, <2>2, <2>3 DEF TypeOK, Tasks
  <2> QED
    BY <1>3, <2>4 DEF TypeInv
<1>8. SoundInv
  <2>1. /\ status.current.finished = FALSE /\ status.current.successful = Unset
        /\ \A c \in Collections : status.current.collections[c] = "none"
    BY <1>2 DEF Fresh
  <2>2. Sound(status.current, task, saved)
    BY Zenon, <1>4, <2>1 DEF Sound
  <2> QED
    BY <1>3, <2>2 DEF SoundInv
<1>9. CompleteInv
  BY Zenon, <1>2, <1>3, BackupAssumption DEF Init, CompleteInv, Covers, Fresh
<1> QED
  BY <1>7, <1>8, <1>9 DEF IInv

LEMMA Inductive == ASSUME IInv, [Next]_vars PROVE IInv'
<1>1. CASE Reconcile
  BY <1>1, ReconcileStep
<1>2. CASE PrepareBackup
  BY <1>2, PrepareBackupStep
<1>3. CASE PrepareFails
  BY <1>3, PrepareFailsStep
<1>4. CASE ListFails
  BY <1>4, ListFailsStep
<1>5. CASE Skip
  BY <1>5, SkipStep
<1>6. ASSUME NEW c \in Collections, StartBackup(c) \/ StartFails(c) \/ StartAnswerLost(c)
      PROVE  IInv'
  BY <1>6, StartSteps
<1>7. ASSUME NEW c \in Collections, CheckBackup(c) \/ CheckFails(c) \/ DeleteFails(c)
      PROVE  IInv'
  BY <1>7, CheckSteps
<1>8. ASSUME NEW c \in Collections, SolrEnds(c) PROVE IInv'
  BY <1>8, SolrEndsStep
<1>9. CASE PatchStatus
  BY <1>9, PatchStatusStep
<1>10. CASE ReconcileLost
  BY <1>10, ReconcileLostStep
<1>11. CASE EditBackup \/ TimePasses \/ CloudChanges \/ CreateCollection \/ DeleteCollection
  BY <1>11, OtherSteps
<1>12. CASE UNCHANGED vars
  BY Zenon, <1>12 DEF vars, IInv, TypeInv, TypeOK, SoundInv, CompleteInv
<1> QED
  BY <1>1, <1>2, <1>3, <1>4, <1>5, <1>6, <1>7, <1>8, <1>9, <1>10, <1>11, <1>12 DEF Next

LEMMA Invariance == Spec => []IInv
BY Initially, Inductive, PTL DEF Spec

\* The resource, the reconcile and Solr's requests have their types: in particular
\* the history never outgrows MaxSaved.
THEOREM TypeCorrectness == Spec => []TypeOK
<1>1. IInv => TypeOK
  BY DEF IInv, TypeInv
<1> QED
  BY <1>1, Invariance, PTL

\* For any number of collections, faults and edits, a collection is reported as saved
\* only if Solr completed a request that was made for this very backup, although the
\* requests of all backups of a collection have the same id.
THEOREM ResultsAreOfThisBackup == Spec => []SuccessIsOfThisBackup
<1>1. IInv => SuccessIsOfThisBackup
  BY Zenon DEF IInv, SoundInv, Sound, SuccessIsOfThisBackup
<1> QED
  BY <1>1, Invariance, PTL

\* For any number of collections, faults and edits, a backup is reported as successful
\* only if it holds all that the resource has named since it began, unless an answer
\* or a patch was lost or Solr refused a request.
THEOREM SuccessfulBackupsAreComplete == Spec => []SuccessfulUnlessHindered
<1>1. IInv => SuccessfulUnlessHindered
  <2>1. SUFFICES ASSUME IInv, status.current.successful = TRUE, hindered = {},
                        NEW c \in named
                 PROVE  <<status.current.round, c>> \in saved
    BY Zenon DEF SuccessfulUnlessHindered
  <2>2. c \in Collections
    BY <2>1 DEF IInv, TypeInv, TypeOK
  <2>3. status.current.collections[c] = "succeeded"
    BY <2>1 DEF IInv, CompleteInv, Covers
  <2> QED
    BY Zenon, <2>1, <2>2, <2>3 DEF IInv, SoundInv, Sound
<1> QED
  BY <1>1, Invariance, PTL
=============================================================================
