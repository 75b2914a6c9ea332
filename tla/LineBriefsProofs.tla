-------------------------- MODULE LineBriefsProofs --------------------------
(***************************************************************************)
(* Proofs about LineBriefs for all rows, fingerprints, clients, jobs and   *)
(* bounds: types, and that a BOM has at most one job, which takes what     *)
(* waits for it.                                                           *)
(***************************************************************************)
EXTENDS LineBriefs, TLAPS

Pcs  == {"idle", "enrich", "persist", "briefs", "reload", "kick"}
WPcs == {"idle", "read", "ask", "finish"}

\* A job asks about flagged lines only, and only once it has read the briefs.
JobShape(j) ==
  /\ wpc[j] \in {"idle", "read"} => todo[j] = {}
  /\ \A r \in todo[j] : work[j][r] \in Flagged

Typed == TypeOK /\ \A j \in Jobs : JobShape(j)

LEMMA NoneIsEmpty == NoLines \in Lines /\ NoBriefs \in Briefs
  BY DEF NoLines, NoBriefs, Lines, Briefs

LEMMA InitTyped == Init => Typed
<1> SUFFICES ASSUME Init PROVE Typed
  OBVIOUS
<1>1. /\ bom \in {"absent", "there", "gone"}
      /\ lines \in Lines /\ version \in 0..MaxEdits /\ briefs \in Briefs
      /\ news \in 0..MaxNews /\ faults \in 0..MaxFaults
  BY NoneIsEmpty, BoundsAssumption DEF Init
<1>2. running \in BOOLEAN /\ pending \in Lines \cup {None}
  BY DEF Init
<1>3. /\ pc \in [Tasks -> Pcs] /\ held \in [Tasks -> Lines]
      /\ read \in [Tasks -> 0..MaxEdits]
  BY NoneIsEmpty, BoundsAssumption DEF Init, Pcs
<1>4. changed \in [Tasks -> BOOLEAN]
  BY DEF Init
<1>5. /\ wpc \in [Jobs -> WPcs] /\ work \in [Jobs -> Lines] /\ old \in [Jobs -> Briefs]
      /\ next \in [Jobs -> Briefs] /\ todo \in [Jobs -> SUBSET Rows]
  BY NoneIsEmpty DEF Init, WPcs
<1>6. \A j \in Jobs : JobShape(j)
  BY DEF Init, JobShape
<1> QED BY <1>1, <1>2, <1>3, <1>4, <1>5, <1>6 DEF Typed, TypeOK, Pcs, WPcs

\* A request that goes on keeps the types of what it holds.
LEMMA GoTyped ==
  ASSUME Typed, NEW t \in Tasks, NEW from, NEW to \in Pcs, NEW ls \in Lines,
         Go(t, from, to, ls)
  PROVE  /\ pc' \in [Tasks -> Pcs] /\ held' \in [Tasks -> Lines]
         /\ read' \in [Tasks -> 0..MaxEdits] /\ changed' \in [Tasks -> BOOLEAN]
<1>1. pc' \in [Tasks -> Pcs]
  BY DEF Go, Goto, Typed, TypeOK, Pcs
<1>2. held' \in [Tasks -> Lines]
  BY NoneIsEmpty DEF Go, Typed, TypeOK
<1>3. read' \in [Tasks -> 0..MaxEdits]
  <2>1. 0 \in 0..MaxEdits
    BY BoundsAssumption
  <2> QED BY <2>1 DEF Go, Typed, TypeOK
<1>4. changed' \in [Tasks -> BOOLEAN]
  <2>1. read' \in [Tasks -> 0..MaxEdits]
    BY <1>3
  <2>2. changed' = changed \/ changed' = [changed EXCEPT ![t] = FALSE]
    BY DEF Go
  <2> QED BY <2>2 DEF Typed, TypeOK
<1> QED BY <1>1, <1>2, <1>3, <1>4

\* One line of a BOM is another one, or none.
LEMMA OtherLine ==
  ASSUME NEW ls \in Lines, NEW r \in Rows, NEW p \in Prints \cup {None}
  PROVE  [ls EXCEPT ![r] = p] \in Lines
  BY DEF Lines

LEMMA EditsTyped ==
  ASSUME Typed, NEW t \in Tasks, Upload(t) \/ PutBom(t) \/ EditLine(t) \/ DeleteBom(t)
  PROVE  Typed'
<1> USE DEF Pcs
<1>1. CASE Upload(t)
  <2>1. PICK ls \in Lines : lines' = ls /\ Go(t, "idle", "kick", ls)
    BY <1>1 DEF Upload
  <2>2. /\ pc' \in [Tasks -> Pcs] /\ held' \in [Tasks -> Lines]
        /\ read' \in [Tasks -> 0..MaxEdits] /\ changed' \in [Tasks -> BOOLEAN]
    BY <2>1, GoTyped
  <2> QED BY <1>1, <2>1, <2>2 DEF Upload, Typed, TypeOK, JobShape, table, job
<1>2. CASE PutBom(t)
  <2>1. PICK ls \in Lines : lines' = ls /\ Go(t, "idle", "kick", ls)
    BY <1>2 DEF PutBom
  <2>2. /\ pc' \in [Tasks -> Pcs] /\ held' \in [Tasks -> Lines]
        /\ read' \in [Tasks -> 0..MaxEdits] /\ changed' \in [Tasks -> BOOLEAN]
    BY <2>1, GoTyped
  <2>3. version' \in 0..MaxEdits
    BY <1>2, BoundsAssumption DEF PutBom, Typed, TypeOK
  <2> QED BY <1>2, <2>1, <2>2, <2>3 DEF PutBom, Typed, TypeOK, JobShape, table, job
<1>3. CASE EditLine(t)
  <2>1. lines' \in Lines
    <3>1. PICK r \in Rows, p \in Prints \cup {None} : lines' = [lines EXCEPT ![r] = p]
      BY <1>3 DEF EditLine
    <3>2. lines \in Lines
      BY DEF Typed, TypeOK
    <3> QED BY <3>1, <3>2, OtherLine
  <2>2. /\ pc' \in [Tasks -> Pcs] /\ held' \in [Tasks -> Lines]
        /\ read' \in [Tasks -> 0..MaxEdits] /\ changed' \in [Tasks -> BOOLEAN]
    BY <1>3, GoTyped, NoneIsEmpty DEF EditLine
  <2>3. version' \in 0..MaxEdits
    BY <1>3, BoundsAssumption DEF EditLine, Typed, TypeOK
  <2> QED BY <1>3, <2>1, <2>2, <2>3 DEF EditLine, Typed, TypeOK, JobShape, table, job
<1>4. CASE DeleteBom(t)
  BY <1>4, NoneIsEmpty DEF DeleteBom, Typed, TypeOK, JobShape, table, job, locals
<1> QED BY <1>1, <1>2, <1>3, <1>4

LEMMA GetTyped == ASSUME Typed, NEW t \in Tasks, Get(t) PROVE Typed'
  BY DEF Get, Goto, Typed, TypeOK, JobShape, store, table, job

LEMMA EnrichTyped == ASSUME Typed, NEW t \in Tasks, Enrich(t) PROVE Typed'
<1> USE DEF Pcs
<1>1. held[t] \in Lines
  BY DEF Typed, TypeOK
<1>2. /\ pc' \in [Tasks -> Pcs] /\ held' \in [Tasks -> Lines]
      /\ read' \in [Tasks -> 0..MaxEdits] /\ changed' \in [Tasks -> BOOLEAN]
  BY <1>1, GoTyped, OtherLine DEF Enrich
<1>3. news' \in 0..MaxNews
  BY BoundsAssumption DEF Enrich, Typed, TypeOK
<1>4. UNCHANGED <<store, table, job, faults>>
  BY DEF Enrich
<1> QED BY <1>2, <1>3, <1>4 DEF Typed, TypeOK, JobShape, store, table, job

LEMMA PersistTyped == ASSUME Typed, NEW t \in Tasks, Persist(t) PROVE Typed'
<1>1. pc' \in [Tasks -> Pcs]
  BY DEF Persist, Goto, Typed, TypeOK, Pcs
<1>2. lines' \in Lines
  BY DEF Persist, Typed, TypeOK
<1>3. changed' \in [Tasks -> BOOLEAN]
  <2>1. changed' = changed \/ changed' = [changed EXCEPT ![t] = TRUE]
    BY DEF Persist
  <2> QED BY <2>1 DEF Typed, TypeOK
<1> QED BY <1>1, <1>2, <1>3 DEF Persist, Typed, TypeOK, JobShape, table, job, Pcs

LEMMA ReadBriefsTyped == ASSUME Typed, NEW t \in Tasks, ReadBriefs(t) PROVE Typed'
<1> USE DEF Pcs
<1>1. held[t] \in Lines
  BY DEF Typed, TypeOK
<1>2. PICK to \in {"kick", "idle"} : Go(t, "briefs", to, held[t])
  BY DEF ReadBriefs
<1>3. /\ pc' \in [Tasks -> Pcs] /\ held' \in [Tasks -> Lines]
      /\ read' \in [Tasks -> 0..MaxEdits] /\ changed' \in [Tasks -> BOOLEAN]
  BY <1>1, <1>2, GoTyped
<1>4. faults' \in 0..MaxFaults
  BY BoundsAssumption DEF ReadBriefs, Typed, TypeOK
<1>5. UNCHANGED <<store, table, job, news>>
  BY DEF ReadBriefs
<1> QED BY <1>3, <1>4, <1>5 DEF Typed, TypeOK, JobShape, store, table, job

LEMMA ReloadTyped == ASSUME Typed, NEW t \in Tasks, Reload(t) PROVE Typed'
<1> USE DEF Pcs
<1>1. PICK to \in {"kick", "idle"} : Go(t, "reload", to, lines)
  BY DEF Reload
<1>2. lines \in Lines
  BY DEF Typed, TypeOK
<1>3. /\ pc' \in [Tasks -> Pcs] /\ held' \in [Tasks -> Lines]
      /\ read' \in [Tasks -> 0..MaxEdits] /\ changed' \in [Tasks -> BOOLEAN]
  BY <1>1, <1>2, GoTyped
<1> QED BY <1>3 DEF Reload, Typed, TypeOK, JobShape, store, table, job

LEMMA DailyRefreshTyped == ASSUME Typed, DailyRefresh PROVE Typed'
<1>1. lines' \in Lines
  <2>1. PICK r \in Rows, p \in Prints : lines' = [lines EXCEPT ![r] = p]
    BY DEF DailyRefresh
  <2>2. lines \in Lines
    BY DEF Typed, TypeOK
  <2> QED BY <2>1, <2>2, OtherLine
<1>2. news' \in 0..MaxNews
  BY BoundsAssumption DEF DailyRefresh, Typed, TypeOK
<1> QED BY <1>1, <1>2 DEF DailyRefresh, Typed, TypeOK, JobShape, table, locals, job

LEMMA KickTyped == ASSUME Typed, NEW t \in Tasks, Kick(t) PROVE Typed'
<1>1. /\ pc' \in [Tasks -> Pcs] /\ held' \in [Tasks -> Lines]
      /\ read' \in [Tasks -> 0..MaxEdits] /\ changed' \in [Tasks -> BOOLEAN]
  BY GoTyped, NoneIsEmpty DEF Kick, Pcs
<1>2. UNCHANGED <<store, old, next, todo, news, faults>>
  BY DEF Kick
<1>3. held[t] \in Lines
  BY DEF Typed, TypeOK
<1>4. CASE running /\ pending' = held[t] /\ UNCHANGED <<running, wpc, work>>
  BY <1>1, <1>2, <1>3, <1>4 DEF Typed, TypeOK, JobShape, store, Pcs
<1>5. CASE ~running /\ running' = Begins /\ UNCHANGED pending
  <2>1. PICK j \in Jobs : /\ wpc[j] = "idle" /\ wpc' = [wpc EXCEPT ![j] = "read"]
                          /\ work' = [work EXCEPT ![j] = held[t]]
    BY <1>4, <1>5 DEF Kick
  <2>2. wpc' \in [Jobs -> WPcs] /\ work' \in [Jobs -> Lines]
    BY <1>3, <2>1 DEF Typed, TypeOK, WPcs
  <2>3. running' \in BOOLEAN
    BY <1>5 DEF Begins
  <2>4. ASSUME NEW i \in Jobs PROVE JobShape(i)'
    BY <1>2, <2>1, <2>4 DEF Typed, TypeOK, JobShape
  <2> QED BY <1>1, <1>2, <1>5, <2>2, <2>3, <2>4 DEF Typed, TypeOK, store, Pcs, WPcs
<1> QED BY <1>4, <1>5 DEF Kick

LEMMA ReadTyped == ASSUME Typed, NEW j \in Jobs, Read(j) PROVE Typed'
<1> DEFINE rs == Outdated(work[j], briefs)
           kept == [r \in Rows |-> IF work[j][r] \in Flagged /\ r \notin rs
                                   THEN briefs[r] ELSE None]
<1>1. kept \in Briefs /\ rs \in SUBSET Rows /\ \A r \in rs : work[j][r] \in Flagged
  BY DEF Typed, TypeOK, Outdated, Briefs
<1>2. /\ wpc' = [wpc EXCEPT ![j] = "ask"] /\ old' = [old EXCEPT ![j] = briefs]
      /\ next' = [next EXCEPT ![j] = kept] /\ todo' = [todo EXCEPT ![j] = rs]
      /\ UNCHANGED <<store, table, pc, locals, work, news, faults>>
  BY DEF Read
<1> HIDE DEF rs, kept
<1>3. /\ wpc' \in [Jobs -> WPcs] /\ old' \in [Jobs -> Briefs]
      /\ next' \in [Jobs -> Briefs] /\ todo' \in [Jobs -> SUBSET Rows]
  BY <1>1, <1>2 DEF Typed, TypeOK, WPcs
<1>4. ASSUME NEW i \in Jobs PROVE JobShape(i)'
  BY <1>1, <1>2, <1>4 DEF Typed, TypeOK, JobShape
<1> QED BY <1>2, <1>3, <1>4 DEF Typed, TypeOK, store, table, locals, WPcs

\* A flagged line gets a brief about itself, keeps an old one or has none.
LEMMA AskedTyped ==
  ASSUME Typed, NEW j \in Jobs, Answers(j) \/ Balks(j) PROVE Typed'
<1>0. PICK r \in Rows : \E brief \in {work[j][r], old[j][r], None} : Asked(j, r, brief)
  BY DEF Answers, Balks
<1>1. PICK brief \in {work[j][r], old[j][r], None} : Asked(j, r, brief)
  BY <1>0
<1>2. brief \in Flagged \cup {None}
  BY <1>1 DEF Asked, Typed, TypeOK, JobShape, Briefs
<1>3. [next[j] EXCEPT ![r] = brief] \in Briefs
  BY <1>2 DEF Typed, TypeOK, Briefs
<1>4. next' \in [Jobs -> Briefs] /\ todo' \in [Jobs -> SUBSET Rows]
  BY <1>1, <1>3 DEF Asked, Typed, TypeOK
<1>5. ASSUME NEW i \in Jobs PROVE JobShape(i)'
  BY <1>1, <1>5 DEF Asked, Typed, TypeOK, JobShape
<1> QED BY <1>1, <1>4, <1>5 DEF Asked, Typed, TypeOK, store, table, locals

LEMMA PutTyped == ASSUME Typed, NEW j \in Jobs, Put(j) PROVE Typed'
<1>1. briefs' \in Briefs /\ wpc' \in [Jobs -> WPcs]
  BY DEF Put, Typed, TypeOK, WPcs
<1>2. ASSUME NEW i \in Jobs PROVE JobShape(i)'
  BY <1>2 DEF Put, Typed, TypeOK, JobShape
<1> QED BY <1>1, <1>2 DEF Put, Typed, TypeOK, table, locals, WPcs

LEMMA FinishTyped == ASSUME Typed, NEW j \in Jobs, Finish(j) PROVE Typed'
<1>1. /\ old' \in [Jobs -> Briefs] /\ next' \in [Jobs -> Briefs]
      /\ todo' \in [Jobs -> SUBSET Rows] /\ todo'[j] = {}
      /\ \A i \in Jobs \ {j} : todo'[i] = todo[i]
  BY NoneIsEmpty DEF Finish, Typed, TypeOK
<1>2. /\ work' \in [Jobs -> Lines] /\ wpc' \in [Jobs -> WPcs]
      /\ \A i \in Jobs \ {j} : work'[i] = work[i] /\ wpc'[i] = wpc[i]
  BY NoneIsEmpty DEF Finish, Takes, Typed, TypeOK, WPcs
<1>3. running' \in BOOLEAN /\ pending' \in Lines \cup {None}
  BY DEF Finish, Typed, TypeOK
<1>4. ASSUME NEW i \in Jobs PROVE JobShape(i)'
  <2>1. CASE i = j
    BY <1>1, <2>1 DEF JobShape
  <2>2. CASE i # j
    BY <1>1, <1>2, <1>4, <2>2 DEF Typed, JobShape
  <2> QED BY <2>1, <2>2
<1> QED BY <1>1, <1>2, <1>3, <1>4 DEF Finish, Typed, TypeOK, store, locals, WPcs

LEMMA FailTyped == ASSUME Typed, NEW j \in Jobs, Fail(j) PROVE Typed'
<1>1. wpc' \in [Jobs -> WPcs] /\ faults' \in 0..MaxFaults
  BY BoundsAssumption DEF Fail, Typed, TypeOK, WPcs
<1>2. ASSUME NEW i \in Jobs PROVE JobShape(i)'
  BY <1>2 DEF Fail, Typed, TypeOK, JobShape
<1> QED BY <1>1, <1>2 DEF Fail, Typed, TypeOK, store, table, locals, WPcs

LEMMA CrashTyped == ASSUME Typed, Crash PROVE Typed'
<1>1. 0 \in 0..MaxEdits /\ faults' \in 0..MaxFaults
  BY BoundsAssumption DEF Crash, Typed, TypeOK
<1> QED BY <1>1, NoneIsEmpty DEF Crash, Typed, TypeOK, JobShape, store

LEMMA StutterTyped == ASSUME Typed, UNCHANGED vars PROVE Typed'
  BY DEF vars, Typed, TypeOK, JobShape

LEMMA NextTyped == ASSUME Typed, [Next]_vars PROVE Typed'
<1>1. ASSUME NEW t \in Editors, Upload(t) \/ PutBom(t) \/ EditLine(t) \/ DeleteBom(t)
      PROVE  Typed'
  BY <1>1, EditsTyped DEF Tasks
<1>2. ASSUME NEW t \in Readers, Get(t) PROVE Typed'
  BY <1>2, GetTyped DEF Tasks
<1>3. ASSUME NEW t \in Tasks, Step(t) PROVE Typed'
  BY <1>3, EnrichTyped, PersistTyped, ReadBriefsTyped, ReloadTyped, KickTyped DEF Step
<1>4. ASSUME NEW j \in Jobs, JobStep(j) \/ Fail(j) PROVE Typed'
  BY <1>4, ReadTyped, AskedTyped, PutTyped, FinishTyped, FailTyped DEF JobStep
<1> QED
  BY <1>1, <1>2, <1>3, <1>4, DailyRefreshTyped, CrashTyped, StutterTyped DEF Next

\* Every variable keeps its type: what reaches line-briefs.json is a brief of
\* a flagged line, whichever lines the job was handed.
THEOREM TypeCorrect == Spec => []TypeOK
<1>1. Typed => TypeOK
  BY DEF Typed
<1> QED BY InitTyped, NextTyped, <1>1, PTL DEF Spec

----------------------------------------------------------------------------

\* Steps that start and end no job leave the table as it is.
LEMMA SameJobs ==
  ASSUME OneJobTakesAll, UNCHANGED table,
         \A j \in Jobs : wpc'[j] = "idle" <=> wpc[j] = "idle"
  PROVE  OneJobTakesAll'
  BY DEF OneJobTakesAll, table

LEMMA InitOneJob == Init => OneJobTakesAll
  BY DEF Init, OneJobTakesAll

LEMMA RequestsOneJob ==
  ASSUME OneJobTakesAll, NEW t,
         \/ Upload(t) \/ PutBom(t) \/ EditLine(t) \/ DeleteBom(t) \/ Get(t)
         \/ Enrich(t) \/ Persist(t) \/ ReadBriefs(t) \/ Reload(t) \/ DailyRefresh
  PROVE  OneJobTakesAll'
<1>1. UNCHANGED <<table, job>>
  BY DEF Upload, PutBom, EditLine, DeleteBom, Get, Enrich, Persist, ReadBriefs, Reload,
         DailyRefresh
<1> QED BY <1>1, SameJobs DEF job

LEMMA KickOneJob ==
  ASSUME Typed, OneJobTakesAll, NEW t, Kick(t) PROVE OneJobTakesAll'
<1>1. CASE running
  <2>1. UNCHANGED <<running, wpc>>
    BY <1>1 DEF Kick
  <2> QED BY <1>1, <2>1 DEF OneJobTakesAll
<1>2. CASE ~running
  <2>1. PICK j \in Jobs : wpc[j] = "idle" /\ wpc' = [wpc EXCEPT ![j] = "read"]
    BY <1>2 DEF Kick
  <2>2. running' /\ pending' = pending
    BY <1>2 DEF Kick, Begins
  <2>3. wpc'[j] = "read" /\ \A i \in Jobs \ {j} : wpc'[i] = "idle"
    BY <1>2, <2>1 DEF OneJobTakesAll, Typed, TypeOK
  <2> QED BY <2>2, <2>3 DEF OneJobTakesAll
<1> QED BY <1>1, <1>2

LEMMA JobOneJob ==
  ASSUME Typed, OneJobTakesAll, NEW j \in Jobs,
         Read(j) \/ Answers(j) \/ Balks(j) \/ Put(j) \/ Fail(j)
  PROVE  OneJobTakesAll'
<1>1. UNCHANGED table
  BY DEF Read, Answers, Balks, Asked, Put, Fail, table, store
<1>2. PICK q \in {"ask", "finish", wpc[j]} : wpc[j] # "idle" /\ wpc' = [wpc EXCEPT ![j] = q]
  <2>1. CASE Read(j)
    BY <2>1 DEF Read
  <2>2. CASE Answers(j) \/ Balks(j)
    <3>1. wpc[j] = "ask" /\ wpc' = wpc
      BY <2>2 DEF Answers, Balks, Asked
    <3>2. wpc' = [wpc EXCEPT ![j] = wpc[j]]
      BY <3>1 DEF Typed, TypeOK
    <3> QED BY <3>1, <3>2
  <2>3. CASE Put(j) \/ Fail(j)
    BY <2>3 DEF Put, Fail
  <2> QED BY <2>1, <2>2, <2>3
<1>3. \A i \in Jobs : wpc'[i] = "idle" <=> wpc[i] = "idle"
  BY <1>2 DEF Typed, TypeOK
<1> QED BY <1>1, <1>3, SameJobs

LEMMA FinishOneJob ==
  ASSUME Typed, OneJobTakesAll, NEW j \in Jobs, Finish(j) PROVE OneJobTakesAll'
<1>1. wpc[j] # "idle" /\ running /\ \A i \in Jobs \ {j} : wpc[i] = "idle"
  BY DEF Finish, OneJobTakesAll
<1>2. CASE Takes
  <2>1. wpc' = [wpc EXCEPT ![j] = "read"] /\ running' = running /\ pending' = None
    BY <1>2 DEF Finish
  <2>2. wpc'[j] = "read" /\ \A i \in Jobs \ {j} : wpc'[i] = "idle"
    BY <1>1, <2>1 DEF Typed, TypeOK
  <2> QED BY <1>1, <2>1, <2>2 DEF OneJobTakesAll
<1>3. CASE ~Takes
  <2>1. wpc' = [wpc EXCEPT ![j] = "idle"] /\ running' = FALSE /\ pending' = pending
    BY <1>3 DEF Finish
  <2>2. \A i \in Jobs : wpc'[i] = "idle"
    BY <1>1, <2>1 DEF Typed, TypeOK
  <2>3. pending = None
    BY <1>3 DEF Takes
  <2> QED BY <2>1, <2>2, <2>3 DEF OneJobTakesAll
<1> QED BY <1>2, <1>3

LEMMA CrashOneJob == Crash => OneJobTakesAll'
  BY DEF Crash, OneJobTakesAll

LEMMA NextOneJob == ASSUME Typed, OneJobTakesAll, [Next]_vars PROVE OneJobTakesAll'
<1>1. ASSUME NEW j \in Jobs, JobStep(j) \/ Fail(j) PROVE OneJobTakesAll'
  BY <1>1, JobOneJob, FinishOneJob DEF JobStep
<1>2. ASSUME NEW t \in Tasks, Step(t) PROVE OneJobTakesAll'
  BY <1>2, RequestsOneJob, KickOneJob DEF Step
<1>3. CASE UNCHANGED vars
  BY <1>3, SameJobs DEF vars, table
<1> QED BY <1>1, <1>2, <1>3, RequestsOneJob, CrashOneJob DEF Next

\* A BOM never has two jobs and never a waiting list of lines that no job will
\* take, for any number of clients, page views, failures and restarts.
THEOREM OneJobAtATime == Spec => []OneJobTakesAll
<1>1. Typed /\ OneJobTakesAll /\ [Next]_vars => (Typed /\ OneJobTakesAll)'
  BY NextTyped, NextOneJob
<1> QED BY InitTyped, InitOneJob, <1>1, PTL DEF Spec

=============================================================================
