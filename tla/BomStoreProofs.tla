--------------------------- MODULE BomStoreProofs ---------------------------
(***************************************************************************)
(* Proofs about BomStore for all values of its constants: every variable   *)
(* keeps its type, the lock is held exactly by the task that is inside a   *)
(* mutation, and (for one gateway process) no committed edit is lost, no   *)
(* version is given out twice, the store implements BomLedger and the list *)
(* agrees with the details; and what refreshes, deletions and writes of    *)
(* the index may take away.                                                *)
(***************************************************************************)
EXTENDS BomStore, TLAPS

Writers == Edits \cup {"create"}
Readers == Refreshes \cup {"put"}

\* What the locals of a task are worth at each point of its program.
JobShape(t) ==
  LET j == job[t] IN
  /\ pc[t] # "idle" => j.op \in Ops /\ j.bom \in Boms
  /\ pc[t] = "getAnalyze" => j.op \in Readers
  /\ pc[t] = "thinking" => j.op = "put"
  /\ pc[t] \in {"loadMeta", "loadAnalyze"} => j.op \in Edits
  /\ pc[t] \in {"putAnalyze", "putMeta"} => j.op \in Writers
  /\ pc[t] \in {"casRead", "casClaim", "casAnalyze"} => j.op \in Refreshes
  /\ pc[t] = "deletePrefix" => j.op = "delete"
  /\ pc[t] \in {"thinking", "waitLock", "loadMeta", "loadAnalyze", "casRead",
                "casClaim", "casAnalyze"} /\ j.op \in Readers => j.content \in Content
  /\ (pc[t] = "waitLock" /\ j.op = "create") \/ pc[t] \in {"putAnalyze", "putMeta"} =>
       j.content \in Content /\ j.summary \in Summary /\ j.edit \in Ids
  /\ pc[t] \in {"loadAnalyze", "casAnalyze"} => j.summary \in Summary
  /\ pc[t] = "casClaim" => j.etag \in Summary
  /\ pc[t] \in {"readIndex", "writeIndex"} /\ j.op # "delete" => j.summary \in Summary
  /\ pc[t] = "writeIndex" => j.listing \in Listing

Shape == \A t \in Tasks : JobShape(t)
Typed == TypeOK /\ Shape

LEMMA InitTyped == Init => Typed
  BY BomsAssumption, TasksAssumption, ModeAssumption, NoneIsNoObject
  DEF Init, Typed, TypeOK, Shape, JobShape, Pcs, Locked, Job, NoJob, Request, Listing

\* A task that returns, fails or is dropped leaves well-typed locals behind.
LEMMA LeaveTyped ==
  ASSUME Typed, NEW ts \in SUBSET Tasks, Leave(ts)
  PROVE  /\ pc' \in [Tasks -> Pcs] /\ job' \in [Tasks -> Job]
         /\ lock' \in [Instances -> Tasks \cup {None}]
         /\ Shape'
<1>1. NoJob \in Job
  BY DEF NoJob, Request, Job
<1>2. pc' \in [Tasks -> Pcs] /\ job' \in [Tasks -> Job]
  BY <1>1 DEF Typed, TypeOK, Leave, Pcs
<1>3. lock' \in [Instances -> Tasks \cup {None}]
  BY DEF Typed, TypeOK, Leave, Released
<1>4. ASSUME NEW u \in Tasks PROVE JobShape(u)'
  <2>1. CASE u \in ts
    <3>1. pc'[u] = "idle"
      BY <2>1 DEF Leave
    <3> QED BY <3>1 DEF JobShape
  <2>2. CASE u \notin ts
    <3>1. pc'[u] = pc[u] /\ job'[u] = job[u]
      BY <2>2 DEF Leave
    <3> QED BY <3>1 DEF JobShape, Typed, Shape
  <2> QED BY <2>1, <2>2
<1> QED BY <1>2, <1>3, <1>4 DEF Shape


\* A task that moves on with new locals disturbs no other task.
LEMMA GotoTyped ==
  ASSUME Typed, NEW t \in Tasks, NEW p, NEW q \in Pcs, Goto(t, p, q),
         NEW j \in Job, job' = [job EXCEPT ![t] = j],
         pc'[t] = q /\ job'[t] = j => JobShape(t)'
  PROVE  /\ pc' \in [Tasks -> Pcs] /\ job' \in [Tasks -> Job]
         /\ Shape'
<1>1. pc' \in [Tasks -> Pcs] /\ pc'[t] = q
  BY DEF Typed, TypeOK, Goto
<1>2. job' \in [Tasks -> Job] /\ job'[t] = j
  BY DEF Typed, TypeOK
<1>3. ASSUME NEW u \in Tasks, u # t PROVE JobShape(u)'
  <2>1. pc'[u] = pc[u] /\ job'[u] = job[u]
    BY <1>3 DEF Typed, TypeOK, Goto
  <2> QED BY <2>1 DEF JobShape, Typed, Shape
<1> QED BY <1>1, <1>2, <1>3 DEF Shape

LEMMA ArriveTyped ==
  ASSUME Typed, NEW t \in Tasks, Arrive(t)
  PROVE  Typed'
<1> USE BomsAssumption, TasksAssumption, ModeAssumption, NoneIsNoObject
<1>1. ASSUME NEW b \in Boms, Create(t, b) PROVE Typed'
  <2>1. nextId \in Ids
    BY <1>1 DEF Typed, TypeOK, Create, Ids
  <2>2. PICK r \in Risks : job' = [job EXCEPT ![t] = Request("create", b, 0, nextId,
                 [edits |-> {nextId}, risk |-> r],
                 [version |-> 1, born |-> nextId, risk |-> r])]
    BY <1>1 DEF Create
  <2> DEFINE c == [edits |-> {nextId}, risk |-> r]
             s == [version |-> 1, born |-> nextId, risk |-> r]
             j == Request("create", b, 0, nextId, c, s)
  <2>3. c \in Content /\ s \in Summary
    BY <2>1 DEF Content, Summary
  <2> HIDE DEF c, s
  <2>4. j \in Job /\ j.op = "create" /\ j.bom = b /\ j.edit = nextId
            /\ j.content = c /\ j.summary = s
    BY <2>1, <2>3 DEF Request, Job, Ops
  <2>5. Goto(t, "idle", "waitLock") /\ "waitLock" \in Pcs /\ job' = [job EXCEPT ![t] = j]
    BY <1>1, <2>2 DEF Create, Pcs, c, s
  <2> HIDE DEF j
  <2>6. pc'[t] = "waitLock" /\ job'[t] = j => JobShape(t)'
    BY <2>1, <2>3, <2>4 DEF JobShape, Ops, Readers, Refreshes
  <2>7. pc' \in [Tasks -> Pcs] /\ job' \in [Tasks -> Job] /\ Shape'
    BY <2>4, <2>5, <2>6, GotoTyped
  <2> QED BY <1>1, <2>7 DEF Typed, TypeOK, Create, store, history
<1>2. ASSUME NEW b \in Boms, Delete(t, b) PROVE Typed'
  <2> DEFINE j == Request("delete", b, 0, 0, None, None)
  <2>1. j \in Job /\ j.op = "delete" /\ j.bom = b
    BY DEF Request, Job, Ops
  <2>2. Goto(t, "idle", "waitLock") /\ "waitLock" \in Pcs /\ job' = [job EXCEPT ![t] = j]
    BY <1>2 DEF Delete, Pcs
  <2> HIDE DEF j
  <2>3. pc'[t] = "waitLock" /\ job'[t] = j => JobShape(t)'
    BY <2>1 DEF JobShape, Ops, Readers, Refreshes
  <2>4. pc' \in [Tasks -> Pcs] /\ job' \in [Tasks -> Job] /\ Shape'
    BY <2>1, <2>2, <2>3, GotoTyped
  <2> QED BY <1>2, <2>4 DEF Typed, TypeOK, Delete, store, history
<1>3. ASSUME NEW b \in Boms, NEW v \in Ids, Edit(t, b, v) PROVE Typed'
  <2> DEFINE j == Request("edit", b, v, 0, None, None)
  <2>1. j \in Job /\ j.op = "edit" /\ j.bom = b
    BY DEF Request, Job, Ops, Edits, Ids
  <2>2. Goto(t, "idle", "waitLock") /\ "waitLock" \in Pcs /\ job' = [job EXCEPT ![t] = j]
    BY <1>3 DEF Edit, Pcs
  <2> HIDE DEF j
  <2>3. pc'[t] = "waitLock" /\ job'[t] = j => JobShape(t)'
    BY <2>1 DEF JobShape, Ops, Edits, Readers, Refreshes
  <2>4. pc' \in [Tasks -> Pcs] /\ job' \in [Tasks -> Job] /\ Shape'
    BY <2>1, <2>2, <2>3, GotoTyped
  <2> QED BY <1>3, <2>4 DEF Typed, TypeOK, Edit, store, history
<1>4. ASSUME NEW o \in Readers, NEW b \in Boms, GetMeta(t, o, b) PROVE Typed'
  <2> DEFINE j == Request(o, b, metadata[b].version, 0, None, None)
  <2>1. metadata[b].version \in Nat
    BY <1>4 DEF GetMeta, Typed, TypeOK, Listing, Summary
  <2>2. j \in Job /\ j.op = o /\ j.bom = b
    BY <2>1 DEF Request, Job, Ops, Edits, Readers, Refreshes
  <2>3. Goto(t, "idle", "getAnalyze") /\ "getAnalyze" \in Pcs /\ job' = [job EXCEPT ![t] = j]
    BY <1>4 DEF GetMeta, Pcs
  <2> HIDE DEF j
  <2>4. pc'[t] = "getAnalyze" /\ job'[t] = j => JobShape(t)'
    BY <2>2 DEF JobShape, Ops, Edits, Readers, Refreshes
  <2>5. pc' \in [Tasks -> Pcs] /\ job' \in [Tasks -> Job] /\ Shape'
    BY <2>2, <2>3, <2>4, GotoTyped
  <2> QED BY <1>4, <2>5 DEF Typed, TypeOK, GetMeta, store, history
<1> QED BY <1>1, <1>2, <1>3, <1>4 DEF Arrive, Readers, Refreshes


\* What Return and the two other ways to leave keep typed.
LEMMA ReturnTyped ==
  ASSUME Typed, NEW t \in Tasks, Return(t)
  PROVE  Typed'
<1>1. {t} \in SUBSET Tasks
  OBVIOUS
<1>2. /\ pc' \in [Tasks -> Pcs] /\ job' \in [Tasks -> Job]
      /\ lock' \in [Instances -> Tasks \cup {None}] /\ Shape'
  BY <1>1, LeaveTyped DEF Return
<1> QED BY <1>2 DEF Typed, TypeOK, Return, store, history

\* A task that moves on without touching its locals.
LEMMA MoveTyped ==
  ASSUME Typed, NEW t \in Tasks, NEW p, NEW q \in Pcs, Goto(t, p, q), job' = job,
         pc'[t] = q /\ job'[t] = job[t] => JobShape(t)'
  PROVE  pc' \in [Tasks -> Pcs] /\ Shape'
<1>1. job[t] \in Job /\ job' = [job EXCEPT ![t] = job[t]]
  BY DEF Typed, TypeOK
<1> QED BY <1>1, GotoTyped

LEMMA ReadTyped ==
  ASSUME Typed, NEW t \in Tasks,
         GetAnalyze(t) \/ GetLeaves(t) \/ SendPut(t) \/ Acquire(t)
  PROVE  Typed'
<1> USE BomsAssumption, TasksAssumption, ModeAssumption, NoneIsNoObject
<1>0. JobShape(t) /\ job[t] \in Job
  BY DEF Typed, Shape, TypeOK
<1>1. ASSUME GetAnalyze(t) PROVE Typed'
  <2> DEFINE b == job[t].bom
             q == IF job[t].op = "put" THEN "thinking" ELSE "waitLock"
  <2>1. PICK r \in Risks : job' = [job EXCEPT ![t].content = [analyze[b] EXCEPT !.risk = r]]
    BY <1>1 DEF GetAnalyze
  <2> DEFINE c == [analyze[b] EXCEPT !.risk = r]
             j == [job[t] EXCEPT !.content = c]
  <2>2. b \in Boms /\ job[t].op \in Readers
    BY <1>0, <1>1 DEF GetAnalyze, JobShape
  <2>3. c \in Content
    BY <1>1, <2>2 DEF GetAnalyze, Typed, TypeOK, Content
  <2> HIDE DEF c
  <2>4. j \in Job /\ j.op = job[t].op /\ j.bom = b /\ j.content = c
    BY <1>0, <2>3 DEF Job
  <2>5. Goto(t, "getAnalyze", q) /\ q \in Pcs /\ job' = [job EXCEPT ![t] = j]
    BY <1>1, <2>1, <1>0 DEF GetAnalyze, Pcs, c
  <2> HIDE DEF j
  <2>6. pc'[t] = q /\ job'[t] = j => JobShape(t)'
    BY <2>2, <2>3, <2>4 DEF JobShape, Readers, Refreshes, Ops, Edits
  <2>7. pc' \in [Tasks -> Pcs] /\ job' \in [Tasks -> Job] /\ Shape'
    BY <2>4, <2>5, <2>6, GotoTyped
  <2> QED BY <1>1, <2>7 DEF GetAnalyze, Typed, TypeOK, store, history
<1>2. ASSUME GetLeaves(t) PROVE Typed'
  BY <1>2, ReturnTyped DEF GetLeaves
<1>3. ASSUME SendPut(t) PROVE Typed'
  <2>1. Goto(t, "thinking", "waitLock") /\ "waitLock" \in Pcs /\ job' = job
    BY <1>3 DEF SendPut, Pcs
  <2>2. pc'[t] = "waitLock" /\ job'[t] = job[t] => JobShape(t)'
    BY <1>0, <2>1 DEF JobShape, Goto
  <2>3. pc' \in [Tasks -> Pcs] /\ Shape'
    BY <2>1, <2>2, MoveTyped
  <2> QED BY <1>3, <2>3 DEF SendPut, Typed, TypeOK, store, history
<1>4. ASSUME Acquire(t) PROVE Typed'
  <2> DEFINE q == FirstLocked(job[t].op)
  <2>1. Goto(t, "waitLock", q) /\ job' = job /\ pc[t] = "waitLock"
    BY <1>4 DEF Acquire, Goto
  <2>2. job[t].op \in Ops
    BY <1>0, <2>1 DEF JobShape
  <2>3. q \in Pcs
    BY <2>2 DEF FirstLocked, Pcs, Locked, Ops, Edits, Refreshes
  <2>4. pc'[t] = q /\ job'[t] = job[t] => JobShape(t)'
    BY <1>0, <2>1, <2>2 DEF JobShape, FirstLocked, Ops, Edits, Refreshes, Readers, Writers
  <2> HIDE DEF q
  <2>5. pc' \in [Tasks -> Pcs] /\ Shape'
    BY <2>1, <2>3, <2>4, MoveTyped
  <2> QED BY <1>4, <2>1, <2>5 DEF Acquire, Typed, TypeOK, store, history
<1> QED BY <1>1, <1>2, <1>3, <1>4


LEMMA MutateTyped ==
  ASSUME Typed, NEW t \in Tasks,
         LoadMeta(t) \/ LoadAnalyze(t) \/ PutAnalyze(t) \/ PutMeta(t)
  PROVE  Typed'
<1> USE BomsAssumption, TasksAssumption, ModeAssumption, NoneIsNoObject
<1>0. JobShape(t) /\ job[t] \in Job
  BY DEF Typed, Shape, TypeOK
<1> DEFINE b == job[t].bom
<1>1. ASSUME LoadMeta(t), metadata[b] # None, Goto(t, "loadMeta", "loadAnalyze"),
             job' = [job EXCEPT ![t].summary = metadata[b]],
             UNCHANGED <<store, lock, history, faults>>
      PROVE Typed'
  <2> DEFINE j == [job[t] EXCEPT !.summary = metadata[b]]
  <2>1. b \in Boms /\ job[t].op \in Edits /\ (job[t].op \in Readers => job[t].content \in Content)
    BY <1>0, <1>1 DEF JobShape, Goto
  <2>2. metadata[b] \in Summary
    BY <1>1, <2>1 DEF Typed, TypeOK, Listing
  <2>3. j \in Job /\ j.op = job[t].op /\ j.bom = b /\ j.content = job[t].content
            /\ j.summary = metadata[b]
    BY <1>0, <2>2 DEF Job
  <2>4. "loadAnalyze" \in Pcs /\ job' = [job EXCEPT ![t] = j]
    BY <1>0, <1>1 DEF Pcs, Locked
  <2> HIDE DEF j
  <2>5. pc'[t] = "loadAnalyze" /\ job'[t] = j => JobShape(t)'
    BY <2>1, <2>2, <2>3 DEF JobShape, Edits, Refreshes, Ops
  <2>6. pc' \in [Tasks -> Pcs] /\ job' \in [Tasks -> Job] /\ Shape'
    BY <1>1, <2>3, <2>4, <2>5, GotoTyped
  <2> QED BY <1>1, <2>6 DEF Typed, TypeOK, store, history
<1>2. ASSUME LoadAnalyze(t), analyze[b] # None, nextId <= MaxIds,
             Goto(t, "loadAnalyze", "putAnalyze"), NEW r \in Risks,
             job' = [job EXCEPT ![t] = Request(job[t].op, job[t].bom, job[t].expected,
                       nextId, [edits |-> EditedLines(t, analyze[b]), risk |-> r],
                       BumpSummary(job[t].summary, r))],
             nextId' = nextId + 1,
             UNCHANGED <<store, lock, used, commits, faults>>
      PROVE Typed'
  <2> DEFINE c == [edits |-> EditedLines(t, analyze[b]), risk |-> r]
             s == BumpSummary(job[t].summary, r)
             j == Request(job[t].op, b, job[t].expected, nextId, c, s)
  <2>1. b \in Boms /\ job[t].op \in Edits /\ job[t].summary \in Summary
          /\ (job[t].op = "put" => job[t].content \in Content)
    BY <1>0, <1>2 DEF JobShape, Goto, Readers
  <2>2. nextId \in Ids /\ analyze[b] \in Content
    BY <1>2, <2>1 DEF Typed, TypeOK, Ids
  <2>3. EditedLines(t, analyze[b]) \in SUBSET Ids
    BY <2>1, <2>2 DEF EditedLines, Content
  <2>4. c \in Content
    BY <2>3 DEF Content
  <2>5. s \in Summary
    BY <2>1 DEF BumpSummary, Summary
  <2> HIDE DEF c, s
  <2>6. j \in Job /\ j.op = job[t].op /\ j.bom = b /\ j.edit = nextId
            /\ j.content = c /\ j.summary = s
    BY <1>0, <2>2, <2>4, <2>5 DEF Request, Job
  <2>7. "putAnalyze" \in Pcs /\ job' = [job EXCEPT ![t] = j]
    BY <1>2 DEF Pcs, Locked, c, s
  <2> HIDE DEF j
  <2>8. pc'[t] = "putAnalyze" /\ job'[t] = j => JobShape(t)'
    BY <2>1, <2>2, <2>4, <2>5, <2>6 DEF JobShape, Edits, Ops, Writers
  <2>9. pc' \in [Tasks -> Pcs] /\ job' \in [Tasks -> Job] /\ Shape'
    BY <1>2, <2>6, <2>7, <2>8, GotoTyped
  <2>10. nextId' \in 1..(MaxIds + 1)
    BY <1>2 DEF Typed, TypeOK
  <2> QED BY <1>2, <2>9, <2>10 DEF Typed, TypeOK, store
<1>3. ASSUME PutAnalyze(t) PROVE Typed'
  <2>1. Goto(t, "putAnalyze", "putMeta") /\ "putMeta" \in Pcs /\ job' = job
    BY <1>3 DEF PutAnalyze, Pcs, Locked
  <2>2. pc[t] = "putAnalyze" /\ b \in Boms /\ job[t].content \in Content
    BY <1>0, <2>1 DEF JobShape, Goto
  <2>3. pc'[t] = "putMeta" /\ job'[t] = job[t] => JobShape(t)'
    BY <1>0, <2>2 DEF JobShape
  <2>4. pc' \in [Tasks -> Pcs] /\ Shape'
    BY <2>1, <2>3, MoveTyped
  <2>5. analyze' \in [Boms -> Content \cup {None}] /\ commits' \in [Boms -> SUBSET Commit]
    BY <1>3, <2>2 DEF PutAnalyze, Typed, TypeOK
  <2> QED BY <1>3, <2>4, <2>5 DEF PutAnalyze, Typed, TypeOK
<1>4. ASSUME PutMeta(t) PROVE Typed'
  <2>1. Goto(t, "putMeta", "readIndex") /\ "readIndex" \in Pcs /\ job' = job
    BY <1>4 DEF PutMeta, Pcs, Locked
  <2>2. pc[t] = "putMeta" /\ b \in Boms /\ job[t].summary \in Summary /\ job[t].edit \in Ids
    BY <1>0, <2>1 DEF JobShape, Goto
  <2>3. pc'[t] = "readIndex" /\ job'[t] = job[t] => JobShape(t)'
    BY <1>0, <2>2 DEF JobShape
  <2>4. pc' \in [Tasks -> Pcs] /\ Shape'
    BY <2>1, <2>3, MoveTyped
  <2>5. [edit |-> job[t].edit, version |-> job[t].summary.version] \in Commit
    BY <2>2 DEF Commit, Summary
  <2>6. metadata' \in Listing /\ commits' \in [Boms -> SUBSET Commit]
    BY <1>4, <2>2, <2>5 DEF PutMeta, Typed, TypeOK, Listing
  <2> QED BY <1>4, <2>4, <2>6 DEF PutMeta, Typed, TypeOK
<1>5. ASSUME LoadMeta(t) PROVE Typed'
  <2>1. CASE Return(t)
    BY <2>1, ReturnTyped
  <2>2. CASE ~Return(t)
    BY <1>1, <1>5, <2>2 DEF LoadMeta
  <2> QED BY <2>1, <2>2
<1>6. ASSUME LoadAnalyze(t) PROVE Typed'
  <2>1. CASE Return(t)
    BY <2>1, ReturnTyped
  <2>2. CASE ~Return(t)
    BY <1>2, <1>6, <2>2 DEF LoadAnalyze
  <2> QED BY <2>1, <2>2
<1> QED BY <1>3, <1>4, <1>5, <1>6


LEMMA RefreshTyped ==
  ASSUME Typed, NEW t \in Tasks, CasRead(t) \/ CasClaim(t) \/ CasAnalyze(t)
  PROVE  Typed'
<1> USE BomsAssumption, TasksAssumption, ModeAssumption, NoneIsNoObject
<1>0. JobShape(t) /\ job[t] \in Job
  BY DEF Typed, Shape, TypeOK
<1> DEFINE b == job[t].bom
<1>1. ASSUME metadata[b] # None, Goto(t, "casRead", "casClaim"),
             job' = [job EXCEPT ![t].etag = metadata[b]],
             UNCHANGED <<store, lock, history, faults>>
      PROVE Typed'
  <2> DEFINE j == [job[t] EXCEPT !.etag = metadata[b]]
  <2>1. b \in Boms /\ job[t].op \in Refreshes /\ job[t].content \in Content
    BY <1>0, <1>1 DEF JobShape, Goto, Readers
  <2>2. metadata[b] \in Summary
    BY <1>1, <2>1 DEF Typed, TypeOK, Listing
  <2>3. j \in Job /\ j.op = job[t].op /\ j.bom = b /\ j.content = job[t].content
            /\ j.etag = metadata[b]
    BY <1>0, <2>2 DEF Job
  <2>4. "casClaim" \in Pcs /\ job' = [job EXCEPT ![t] = j]
    BY <1>0, <1>1 DEF Pcs, Locked
  <2> HIDE DEF j
  <2>5. pc'[t] = "casClaim" /\ job'[t] = j => JobShape(t)'
    BY <2>1, <2>2, <2>3 DEF JobShape, Refreshes, Ops
  <2>6. pc' \in [Tasks -> Pcs] /\ job' \in [Tasks -> Job] /\ Shape'
    BY <1>1, <2>3, <2>4, <2>5, GotoTyped
  <2> QED BY <1>1, <2>6 DEF Typed, TypeOK, store, history
<1> DEFINE s == RefreshedSummary(job[t].etag, job[t].content.risk)
<1>2. ASSUME Goto(t, "casClaim", "casAnalyze"),
             metadata' = [metadata EXCEPT ![b] = s],
             job' = [job EXCEPT ![t].summary = s],
             UNCHANGED <<analyze, index, lock, history, faults>>
      PROVE Typed'
  <2> DEFINE j == [job[t] EXCEPT !.summary = s]
  <2>1. b \in Boms /\ job[t].op \in Refreshes /\ job[t].content \in Content
          /\ job[t].etag \in Summary
    BY <1>0, <1>2 DEF JobShape, Goto, Readers
  <2>2. s \in Summary
    BY <2>1 DEF RefreshedSummary, Summary, Content
  <2> HIDE DEF s
  <2>3. j \in Job /\ j.op = job[t].op /\ j.bom = b /\ j.content = job[t].content
            /\ j.summary = s
    BY <1>0, <2>2 DEF Job
  <2>4. "casAnalyze" \in Pcs /\ job' = [job EXCEPT ![t] = j]
    BY <1>0, <1>2 DEF Pcs, Locked
  <2> HIDE DEF j
  <2>5. pc'[t] = "casAnalyze" /\ job'[t] = j => JobShape(t)'
    BY <2>1, <2>2, <2>3 DEF JobShape, Refreshes, Ops
  <2>6. pc' \in [Tasks -> Pcs] /\ job' \in [Tasks -> Job] /\ Shape'
    BY <1>2, <2>3, <2>4, <2>5, GotoTyped
  <2>7. metadata' \in Listing
    BY <1>2, <2>1, <2>2 DEF Typed, TypeOK, Listing
  <2> QED BY <1>2, <2>6, <2>7 DEF Typed, TypeOK, history
<1>3. ASSUME CasRead(t) PROVE Typed'
  <2>1. CASE Return(t)
    BY <2>1, ReturnTyped
  <2>2. CASE ~Return(t)
    BY <1>1, <1>3, <2>2 DEF CasRead
  <2> QED BY <2>1, <2>2
<1>4. ASSUME CasClaim(t) PROVE Typed'
  <2>1. CASE Return(t)
    BY <2>1, ReturnTyped
  <2>2. CASE ~Return(t)
    BY <1>2, <1>4, <2>2 DEF CasClaim
  <2> QED BY <2>1, <2>2
<1>5. ASSUME CasAnalyze(t) PROVE Typed'
  <2>1. Goto(t, "casAnalyze", "readIndex") /\ "readIndex" \in Pcs /\ job' = job
    BY <1>5 DEF CasAnalyze, Pcs, Locked
  <2>2. pc[t] = "casAnalyze" /\ b \in Boms /\ job[t].content \in Content
          /\ job[t].summary \in Summary
    BY <1>0, <2>1 DEF JobShape, Goto, Readers
  <2>3. pc'[t] = "readIndex" /\ job'[t] = job[t] => JobShape(t)'
    BY <1>0, <2>2 DEF JobShape
  <2>4. pc' \in [Tasks -> Pcs] /\ Shape'
    BY <2>1, <2>3, MoveTyped
  <2>5. analyze' \in [Boms -> Content \cup {None}]
    BY <1>5, <2>2 DEF CasAnalyze, Typed, TypeOK
  <2> QED BY <1>5, <2>4, <2>5 DEF CasAnalyze, Typed, TypeOK, history
<1> QED BY <1>3, <1>4, <1>5

LEMMA IndexTyped ==
  ASSUME Typed, NEW t \in Tasks,
         ReadIndex(t) \/ ReadIndexMisses(t) \/ WriteIndex(t)
           \/ WriteIndexDelete(t) \/ DeletePrefix(t)
  PROVE  Typed'
<1> USE BomsAssumption, TasksAssumption, ModeAssumption, NoneIsNoObject
<1>0. JobShape(t) /\ job[t] \in Job /\ {t} \in SUBSET Tasks
  BY DEF Typed, Shape, TypeOK
<1> DEFINE b == job[t].bom
<1>1. ASSUME NEW seen \in Listing, WithIndex(t, seen)
      PROVE /\ pc' \in [Tasks -> Pcs] /\ job' \in [Tasks -> Job]
            /\ lock' \in [Instances -> Tasks \cup {None}] /\ Shape'
  <2>1. CASE Leave({t})
    BY <1>0, <2>1, LeaveTyped
  <2>2. CASE ~Leave({t})
    <3> DEFINE j == [job[t] EXCEPT !.listing = seen]
    <3>1. Goto(t, "readIndex", "writeIndex") /\ "writeIndex" \in Pcs
            /\ job' = [job EXCEPT ![t] = j] /\ lock' = lock
      BY <1>0, <1>1, <2>2 DEF WithIndex, Pcs, Locked
    <3>2. pc[t] = "readIndex" /\ b \in Boms
      BY <1>0, <3>1 DEF JobShape, Goto
    <3>3. j \in Job /\ j.op = job[t].op /\ j.bom = b /\ j.summary = job[t].summary
            /\ j.listing = seen
      BY <1>0 DEF Job
    <3> HIDE DEF j
    <3>4. pc'[t] = "writeIndex" /\ job'[t] = j => JobShape(t)'
      BY <1>0, <3>2, <3>3 DEF JobShape
    <3>5. pc' \in [Tasks -> Pcs] /\ job' \in [Tasks -> Job] /\ Shape'
      BY <3>1, <3>3, <3>4, GotoTyped
    <3> QED BY <3>1, <3>5 DEF Typed, TypeOK
  <2> QED BY <2>1, <2>2
<1>2. ASSUME ReadIndex(t) PROVE Typed'
  <2>1. index \in Listing
    BY DEF Typed, TypeOK
  <2> QED BY <1>1, <1>2, <2>1 DEF ReadIndex, WithIndex, Typed, TypeOK, store, history
<1>3. ASSUME ReadIndexMisses(t) PROVE Typed'
  <2>1. [x \in Boms |-> None] \in Listing
    BY DEF Listing
  <2>2. faults' \in 0..MaxFaults
    BY <1>3 DEF ReadIndexMisses, Typed, TypeOK
  <2> QED BY <1>1, <1>3, <2>1, <2>2
          DEF ReadIndexMisses, WithIndex, Typed, TypeOK, store, history
<1>4. ASSUME WriteIndex(t) PROVE Typed'
  <2>1. b \in Boms /\ job[t].summary \in Summary /\ job[t].listing \in Listing
    BY <1>0, <1>4 DEF JobShape, WriteIndex
  <2>2. index' \in Listing
    BY <1>4, <2>1 DEF WriteIndex, UpdatedIndex, Listing
  <2> QED BY <1>0, <1>4, <2>2, LeaveTyped DEF WriteIndex, Typed, TypeOK, history
<1>5. ASSUME WriteIndexDelete(t) PROVE Typed'
  <2>1. Goto(t, "writeIndex", "deletePrefix") /\ "deletePrefix" \in Pcs /\ job' = job
    BY <1>5 DEF WriteIndexDelete, Pcs, Locked
  <2>2. b \in Boms /\ job[t].listing \in Listing /\ job[t].op = "delete" /\ "delete" \in Ops
    BY <1>0, <1>5, <2>1 DEF JobShape, Goto, WriteIndexDelete, Ops
  <2>3. pc'[t] = "deletePrefix" /\ job'[t] = job[t] => JobShape(t)'
    BY <1>0, <2>2 DEF JobShape
  <2>4. pc' \in [Tasks -> Pcs] /\ Shape'
    BY <2>1, <2>3, MoveTyped
  <2>5. index' \in Listing
    BY <1>5, <2>2 DEF WriteIndexDelete, Listing
  <2> QED BY <1>5, <2>4, <2>5 DEF WriteIndexDelete, Typed, TypeOK, history
<1>6. ASSUME DeletePrefix(t) PROVE Typed'
  <2>1. metadata' \in Listing /\ analyze' \in [Boms -> Content \cup {None}]
          /\ commits' \in [Boms -> SUBSET Commit]
    BY <1>6 DEF DeletePrefix, Typed, TypeOK, Listing
  <2> QED BY <1>0, <1>6, <2>1, LeaveTyped DEF DeletePrefix, Typed, TypeOK
<1> QED BY <1>2, <1>3, <1>4, <1>5, <1>6


LEMMA FaultTyped ==
  ASSUME Typed, (\E t \in Tasks : Abort(t)) \/ (\E i \in Instances : Crash(i))
  PROVE  Typed'
<1> DEFINE Fault(ts) == /\ Leave(ts) /\ UNCHANGED <<store, history>>
                        /\ faults < MaxFaults /\ faults' = faults + 1
<1>1. PICK ts \in SUBSET Tasks : Fault(ts)
  <2>1. ASSUME NEW t \in Tasks, Abort(t) PROVE Fault({t})
    BY <2>1 DEF Abort
  <2>2. ASSUME NEW i \in Instances, Crash(i) PROVE \E ts \in SUBSET Tasks : Fault(ts)
    <3> DEFINE victims == {t \in Tasks : InstanceOf[t] = i}
    <3>1. victims \in SUBSET Tasks
      OBVIOUS
    <3>2. Fault(victims)
      BY <2>2 DEF Crash
    <3> QED BY <3>1, <3>2
  <2> QED BY <2>1, <2>2
<1>2. faults' \in 0..MaxFaults
  BY <1>1, ModeAssumption DEF Typed, TypeOK
<1> QED BY <1>1, <1>2, LeaveTyped DEF Typed, TypeOK, store, history

LEMMA NextTyped == Typed /\ [Next]_vars => Typed'
<1> SUFFICES ASSUME Typed, [Next]_vars PROVE Typed'
  OBVIOUS
<1>1. CASE UNCHANGED vars
  BY <1>1 DEF Typed, TypeOK, Shape, JobShape, vars
<1>2. ASSUME NEW t \in Tasks, Arrive(t) PROVE Typed'
  BY <1>2, ArriveTyped
<1>3. ASSUME NEW t \in Tasks, SendPut(t) \/ Acquire(t) \/ Step(t) \/ ReadIndexMisses(t)
      PROVE Typed'
  BY <1>3, ReadTyped, MutateTyped, RefreshTyped, IndexTyped DEF Step
<1>4. CASE (\E t \in Tasks : Abort(t)) \/ (\E i \in Instances : Crash(i))
  BY <1>4, FaultTyped
<1> QED BY <1>1, <1>2, <1>3, <1>4 DEF Next

\* Every variable keeps its type, with any number of BOMs, requests and
\* gateway processes and whatever fails.
THEOREM TypeCorrect == Spec => []TypeOK
<1>1. Typed => TypeOK
  BY DEF Typed
<1> QED BY <1>1, InitTyped, NextTyped, PTL DEF Spec


----------------------------------------------------------------------------
(* The lock *)

\* A task is inside a mutation exactly when it holds the lock of its process.
LockInv == \A t \in Tasks : pc[t] \in Locked <=> lock[InstanceOf[t]] = t

LEMMA InitLock == Init => LockInv
  BY BomsAssumption, TasksAssumption DEF Init, LockInv, Locked

LEMMA LeaveLock ==
  ASSUME Typed, LockInv, NEW ts \in SUBSET Tasks, Leave(ts)
  PROVE  LockInv'
<1>1. ASSUME NEW u \in Tasks PROVE (pc[u] \in Locked <=> lock[InstanceOf[u]] = u)'
  <2>1. InstanceOf[u] \in Instances /\ None # u
    BY TasksAssumption, BomsAssumption
  <2>2. lock'[InstanceOf[u]] = IF lock[InstanceOf[u]] \in ts THEN None ELSE lock[InstanceOf[u]]
    BY <2>1 DEF Leave, Released
  <2>3. pc'[u] = IF u \in ts THEN "idle" ELSE pc[u]
    BY DEF Leave
  <2> QED BY <2>1, <2>2, <2>3 DEF LockInv, Locked
<1> QED BY <1>1 DEF LockInv

\* A step that keeps the lock and stays on its side of it.
LEMMA MoveLock ==
  ASSUME Typed, LockInv, NEW t \in Tasks, NEW p, NEW q, Goto(t, p, q), lock' = lock,
         p \in Locked <=> q \in Locked
  PROVE  LockInv'
<1>1. \A u \in Tasks : pc'[u] \in Locked <=> pc[u] \in Locked
  BY DEF Typed, TypeOK, Goto
<1> QED BY <1>1 DEF LockInv

LEMMA NextLock == Typed /\ LockInv /\ [Next]_vars => LockInv'
<1> SUFFICES ASSUME Typed, LockInv, [Next]_vars PROVE LockInv'
  OBVIOUS
<1>1. CASE UNCHANGED vars
  BY <1>1 DEF LockInv, vars
<1>2. ASSUME NEW t \in Tasks, Arrive(t) \/ SendPut(t) PROVE LockInv'
  <2>1. PICK p \in {"idle", "thinking"}, q \in {"waitLock", "getAnalyze"} :
          Goto(t, p, q) /\ lock' = lock
    BY <1>2 DEF Arrive, Create, Delete, Edit, GetMeta, SendPut
  <2>2. p \in Locked <=> q \in Locked
    BY DEF Locked
  <2> QED BY <2>1, <2>2, MoveLock
<1>3. ASSUME NEW t \in Tasks, Acquire(t) PROVE LockInv'
  <2>1. job[t].op \in Ops
    BY <1>3 DEF Acquire, Goto, Typed, Shape, JobShape
  <2>2. FirstLocked(job[t].op) \in Locked /\ pc[t] = "waitLock" /\ "waitLock" \notin Locked
    BY <1>3, <2>1 DEF Acquire, Goto, FirstLocked, Locked, Ops, Edits, Refreshes
  <2>3. ASSUME NEW u \in Tasks PROVE (pc[u] \in Locked <=> lock[InstanceOf[u]] = u)'
    <3>1. InstanceOf[u] \in Instances /\ InstanceOf[t] \in Instances /\ None # u
      BY TasksAssumption, BomsAssumption
    <3>2. CASE u = t
      BY <1>3, <2>2, <3>1, <3>2 DEF Acquire, Goto, Typed, TypeOK
    <3>3. CASE u # t
      <4>1. pc'[u] = pc[u]
        BY <1>3, <3>3 DEF Acquire, Goto, Typed, TypeOK
      <4>2. lock[InstanceOf[t]] = None
        BY <1>3 DEF Acquire
      <4>3. lock' = [lock EXCEPT ![InstanceOf[t]] = t]
        BY <1>3 DEF Acquire
      <4>4. lock'[InstanceOf[u]] = u <=> lock[InstanceOf[u]] = u
        BY <3>1, <3>3, <4>2, <4>3 DEF Typed, TypeOK
      <4> QED BY <4>1, <4>4 DEF LockInv
    <3> QED BY <3>2, <3>3
  <2> QED BY <2>3 DEF LockInv
<1>4. ASSUME NEW t \in Tasks, Leave({t}) PROVE LockInv'
  BY <1>4, LeaveLock
<1>5. ASSUME NEW t \in Tasks, NEW p, NEW q, Goto(t, p, q), lock' = lock,
             p \in Locked <=> q \in Locked
      PROVE LockInv'
  BY <1>5, MoveLock
<1>6. ASSUME NEW t \in Tasks, GetAnalyze(t) \/ GetLeaves(t) PROVE LockInv'
  BY <1>4, <1>5, <1>6 DEF GetAnalyze, GetLeaves, Return, Locked
<1>7. ASSUME NEW t \in Tasks, LoadMeta(t) \/ LoadAnalyze(t) \/ PutAnalyze(t) \/ PutMeta(t)
      PROVE LockInv'
  BY <1>4, <1>5, <1>7 DEF LoadMeta, LoadAnalyze, PutAnalyze, PutMeta, Return, Locked
<1>8. ASSUME NEW t \in Tasks, CasRead(t) \/ CasClaim(t) \/ CasAnalyze(t) PROVE LockInv'
  BY <1>4, <1>5, <1>8 DEF CasRead, CasClaim, CasAnalyze, Return, Locked
<1>9. ASSUME NEW t \in Tasks, ReadIndex(t) \/ ReadIndexMisses(t) \/ WriteIndex(t)
                                \/ WriteIndexDelete(t) \/ DeletePrefix(t)
      PROVE LockInv'
  BY <1>4, <1>5, <1>9 DEF ReadIndex, ReadIndexMisses, WithIndex, WriteIndex,
                          WriteIndexDelete, DeletePrefix, Locked
<1>10. ASSUME NEW t \in Tasks, Abort(t) PROVE LockInv'
  BY <1>4, <1>10 DEF Abort
<1>11. ASSUME NEW i \in Instances, Crash(i) PROVE LockInv'
  <2>1. {t \in Tasks : InstanceOf[t] = i} \in SUBSET Tasks
    OBVIOUS
  <2> QED BY <1>11, <2>1, LeaveLock DEF Crash
<1> QED BY <1>1, <1>2, <1>3, <1>6, <1>7, <1>8, <1>9, <1>10, <1>11 DEF Next, Step

\* Two mutations of one gateway process are never between their steps at the
\* same time, whatever is dropped or dies in between.
MutationsExclude ==
  \A t, u \in Tasks : InstanceOf[t] = InstanceOf[u] /\ pc[t] \in Locked
                         /\ pc[u] \in Locked => t = u

THEOREM MutationsExcluded == Spec => []MutationsExclude
<1>1. LockInv => MutationsExclude
  BY DEF LockInv, MutationsExclude
<1> QED BY <1>1, InitTyped, NextTyped, InitLock, NextLock, PTL DEF Spec

----------------------------------------------------------------------------
(* One gateway process, upload ids used once, no id a prefix of another *)

OneProcess ==
  /\ \A t, u \in Tasks : InstanceOf[t] = InstanceOf[u]
  /\ ~ReuseIds
  /\ \A b \in Boms : Erased(b) = {b}

\* An upload that has not written metadata.json yet.
CreatePending(t) ==
  job[t].op = "create" /\ pc[t] \in {"waitLock", "putAnalyze", "putMeta"}

\* A task that holds a version, and perhaps lines, it read without the lock.
HasView(t) ==
  /\ job[t].op \in Readers
  /\ pc[t] \in {"getAnalyze", "thinking", "waitLock", "loadMeta", "loadAnalyze",
                "casRead", "casClaim", "casAnalyze"}

\* The upload of a BOM is unique and nothing was stored before it.
CreateInv(t) == LET b == job[t].bom IN
  CreatePending(t) =>
    /\ b \in used /\ metadata[b] = None /\ commits[b] = {}
    /\ job[t].summary.version = 1
    /\ job[t].edit \in job[t].content.edits /\ job[t].edit < nextId

\* A view is never ahead of the store, and while its version is the stored
\* one it contains every committed edit.
ViewInv(t) == LET b == job[t].bom IN
  HasView(t) =>
    /\ b \in used
    /\ metadata[b] # None =>
         /\ job[t].expected <= metadata[b].version
         /\ job[t].content # None /\ job[t].expected = metadata[b].version =>
              CommittedEdits(b) \subseteq job[t].content.edits

\* What a writer found under the lock is still there.
WriterInv(t) == LET b == job[t].bom IN
  /\ pc[t] = "loadAnalyze" => metadata[b] # None /\ job[t].summary = metadata[b]
  /\ pc[t] \in {"putAnalyze", "putMeta"} =>
       /\ job[t].edit \in job[t].content.edits /\ job[t].edit < nextId
       /\ job[t].edit \notin CommittedEdits(b)
       /\ CommittedEdits(b) \subseteq job[t].content.edits
       /\ job[t].op \in Edits => metadata[b] # None
                              /\ job[t].summary.version = metadata[b].version + 1
  /\ pc[t] = "putMeta" => analyze[b] = job[t].content
  /\ pc[t] = "casClaim" => metadata[b] # None /\ job[t].etag = metadata[b]
                         /\ metadata[b].version = job[t].expected
  /\ pc[t] = "casAnalyze" => metadata[b] # None
                           /\ metadata[b].version = job[t].expected

TaskInv(t) == CreateInv(t) /\ ViewInv(t) /\ WriterInv(t)

\* Nobody else has a view of, or uploads, a BOM whose upload is pending.
UploadAlone ==
  \A t, u \in Tasks : t # u /\ CreatePending(t) /\ (CreatePending(u) \/ HasView(u)) =>
    job[t].bom # job[u].bom

CommitInv(b) ==
  /\ metadata[b] # None => b \in used
  /\ \A c \in commits[b] : /\ metadata[b] # None
                           /\ c.version <= metadata[b].version
                           /\ c.edit < nextId

StoreInv == \A b \in Boms : CommitInv(b)

SafetyInv ==
  /\ \A t \in Tasks : TaskInv(t)
  /\ UploadAlone /\ StoreInv /\ CommittedEditsKept /\ OneCommitPerVersion


LEMMA InitSafety == Init => SafetyInv
  BY BomsAssumption, TasksAssumption, NoneIsNoObject
  DEF Init, SafetyInv, TaskInv, CreateInv, ViewInv, WriterInv, UploadAlone, StoreInv,
      CommitInv, CommittedEditsKept, OneCommitPerVersion, CommittedEdits,
      CreatePending, HasView, NoJob, Request

LEMMA Alone ==
  ASSUME Typed, LockInv, OneProcess, NEW t \in Tasks, NEW u \in Tasks,
         pc[t] \in Locked, pc[u] \in Locked
  PROVE  t = u
  BY DEF LockInv, OneProcess

Quiet ==
  /\ UNCHANGED <<metadata, analyze, commits>>
  /\ used \subseteq used' /\ nextId <= nextId' /\ nextId' \in Nat

\* What holds of a task that does not take the step, when objects stay.
LEMMA QuietTask ==
  ASSUME Typed, SafetyInv, Quiet, NEW u \in Tasks,
         pc'[u] = pc[u], job'[u] = job[u]
  PROVE  TaskInv(u)'
<1>1. TaskInv(u) /\ JobShape(u)
  BY DEF SafetyInv, Typed, Shape
<1>2. nextId \in Nat
  BY ModeAssumption DEF Typed, TypeOK
<1>3. \A b \in Boms : CommittedEdits(b)' = CommittedEdits(b)
  BY DEF Quiet, CommittedEdits
<1>4. pc[u] # "idle" => job[u].bom \in Boms
  BY <1>1 DEF JobShape
<1>5. CreatePending(u)' <=> CreatePending(u)
  BY DEF CreatePending
<1>6. HasView(u)' <=> HasView(u)
  BY DEF HasView
<1>7. CreateInv(u)'
  <2> SUFFICES ASSUME CreatePending(u)
      PROVE CreateInv(u)'
    BY <1>5 DEF CreateInv
  <2>1. pc[u] # "idle" /\ pc[u] \in {"waitLock", "putAnalyze", "putMeta"}
          /\ job[u].op = "create"
    BY DEF CreatePending
  <2>2. job[u].edit \in Nat
    BY <1>1, <2>1, ModeAssumption DEF JobShape, Ids
  <2> QED BY <1>1, <1>2, <2>1, <2>2 DEF TaskInv, CreateInv, Quiet
<1>8. ViewInv(u)'
  <2>1. HasView(u) => pc[u] # "idle"
    BY DEF HasView
  <2> QED BY <1>1, <1>3, <1>4, <1>6, <2>1 DEF TaskInv, ViewInv, Quiet
<1>9. WriterInv(u)'
  <2>1. pc[u] \in {"putAnalyze", "putMeta"} => job[u].edit \in Nat
    BY <1>1, ModeAssumption DEF JobShape, Ids
  <2> QED BY <1>1, <1>2, <1>3, <1>4, <2>1 DEF TaskInv, WriterInv, Quiet
<1> QED BY <1>7, <1>8, <1>9 DEF TaskInv

LEMMA QuietStore ==
  ASSUME Typed, SafetyInv, Quiet
  PROVE  StoreInv' /\ CommittedEditsKept' /\ OneCommitPerVersion'
<1>1. nextId \in Nat
  BY ModeAssumption DEF Typed, TypeOK
<1>2. \A b \in Boms : \A c \in commits[b] : c.edit \in Nat
  BY ModeAssumption DEF Typed, TypeOK, Commit, Ids
<1>3. ASSUME NEW b \in Boms PROVE CommitInv(b)'
  <2>1. CommitInv(b)
    BY DEF SafetyInv, StoreInv
  <2> QED BY <1>1, <1>2, <2>1 DEF CommitInv, Quiet
<1>4. CommittedEditsKept' /\ OneCommitPerVersion'
  BY DEF SafetyInv, CommittedEditsKept, OneCommitPerVersion, CommittedEdits, Quiet
<1> QED BY <1>3, <1>4 DEF StoreInv

\* Requests that end, in any number, break nothing.
LEMMA LeaveSafe ==
  ASSUME Typed, SafetyInv, Quiet, NEW ts \in SUBSET Tasks, Leave(ts)
  PROVE  SafetyInv'
<1>1. ASSUME NEW u \in Tasks PROVE TaskInv(u)'
  <2>1. CASE u \in ts
    <3>1. pc'[u] = "idle"
      BY <2>1 DEF Leave
    <3> QED BY <3>1 DEF TaskInv, CreateInv, ViewInv, WriterInv, CreatePending, HasView
  <2>2. CASE u \notin ts
    <3>1. pc'[u] = pc[u] /\ job'[u] = job[u]
      BY <2>2 DEF Leave
    <3> QED BY <3>1, QuietTask
  <2> QED BY <2>1, <2>2
<1>2. UploadAlone'
  <2>1. \A u \in Tasks : pc'[u] = "idle" \/ (pc'[u] = pc[u] /\ job'[u] = job[u])
    BY DEF Leave
  <2> QED BY <2>1 DEF SafetyInv, UploadAlone, CreatePending, HasView
<1> QED BY <1>1, <1>2, QuietStore DEF SafetyInv

\* A task that moves on without writing an object.
LEMMA MoveSafe ==
  ASSUME Typed, SafetyInv, Quiet, NEW t \in Tasks,
         \A u \in Tasks \ {t} : pc'[u] = pc[u] /\ job'[u] = job[u],
         TaskInv(t)',
         \A u \in Tasks \ {t} :
           (\/ CreatePending(t)' /\ (CreatePending(u) \/ HasView(u))
            \/ CreatePending(u) /\ (CreatePending(t)' \/ HasView(t)'))
           => job'[t].bom # job[u].bom
  PROVE  SafetyInv'
<1>1. \A u \in Tasks : TaskInv(u)'
  BY QuietTask
<1>2. ASSUME NEW u \in Tasks, NEW v \in Tasks, u # v, CreatePending(u)',
             CreatePending(v)' \/ HasView(v)'
      PROVE job'[u].bom # job'[v].bom
  <2>1. CASE u = t
    <3>1. v \in Tasks \ {t} /\ job'[v] = job[v]
      BY <1>2, <2>1
    <3>2. CreatePending(t)' /\ (CreatePending(v) \/ HasView(v))
      BY <1>2, <2>1, <3>1 DEF CreatePending, HasView
    <3> QED BY <2>1, <3>1, <3>2
  <2>2. CASE v = t
    <3>1. u \in Tasks \ {t} /\ job'[u] = job[u]
      BY <1>2, <2>2
    <3>2. CreatePending(u) /\ (CreatePending(t)' \/ HasView(t)')
      BY <1>2, <2>2, <3>1 DEF CreatePending, HasView
    <3> QED BY <2>2, <3>1, <3>2
  <2>3. CASE u # t /\ v # t
    <3>1. CreatePending(u) /\ (CreatePending(v) \/ HasView(v))
      BY <1>2, <2>3 DEF CreatePending, HasView
    <3>2. job'[u] = job[u] /\ job'[v] = job[v]
      BY <2>3
    <3> QED BY <1>2, <3>1, <3>2 DEF SafetyInv, UploadAlone
  <2> QED BY <2>1, <2>2, <2>3
<1>3. UploadAlone'
  BY <1>2 DEF UploadAlone
<1> QED BY <1>1, <1>3, QuietStore DEF SafetyInv


LEMMA GotoEffect ==
  ASSUME Typed, NEW t \in Tasks, NEW p, NEW q, Goto(t, p, q), NEW j,
         job' = [job EXCEPT ![t] = j]
  PROVE  /\ pc[t] = p /\ pc'[t] = q /\ job'[t] = j
         /\ \A u \in Tasks \ {t} : pc'[u] = pc[u] /\ job'[u] = job[u]
  BY DEF Typed, TypeOK, Goto

LEMMA StayEffect ==
  ASSUME Typed, NEW t \in Tasks, NEW p, NEW q, Goto(t, p, q), job' = job
  PROVE  /\ pc[t] = p /\ pc'[t] = q /\ job'[t] = job[t]
         /\ \A u \in Tasks \ {t} : pc'[u] = pc[u] /\ job'[u] = job[u]
  BY DEF Typed, TypeOK, Goto

LEMMA ReturnSafe ==
  ASSUME Typed, SafetyInv, NEW t \in Tasks, Return(t)
  PROVE  SafetyInv'
<1>1. Quiet
  BY ModeAssumption DEF Return, Quiet, store, history, Typed, TypeOK
<1> QED BY <1>1, LeaveSafe DEF Return

LEMMA ArriveSafe ==
  ASSUME Typed, SafetyInv, OneProcess, NEW t \in Tasks, Arrive(t)
  PROVE  SafetyInv'
<1> USE NoneIsNoObject, ModeAssumption
<1>0. nextId \in Nat
  BY DEF Typed, TypeOK
<1>1. ASSUME NEW b \in Boms, Create(t, b) PROVE SafetyInv'
  <2>1. PICK r \in Risks : job' = [job EXCEPT ![t] = Request("create", b, 0, nextId,
                 [edits |-> {nextId}, risk |-> r],
                 [version |-> 1, born |-> nextId, risk |-> r])]
    BY <1>1 DEF Create
  <2> DEFINE j == Request("create", b, 0, nextId, [edits |-> {nextId}, risk |-> r],
                          [version |-> 1, born |-> nextId, risk |-> r])
  <2>2. /\ j.op = "create" /\ j.bom = b /\ j.edit = nextId
        /\ j.content.edits = {nextId} /\ j.summary.version = 1
    BY DEF Request
  <2>3. Goto(t, "idle", "waitLock") /\ job' = [job EXCEPT ![t] = j]
    BY <1>1, <2>1 DEF Create
  <2> HIDE DEF j
  <2>4. /\ pc'[t] = "waitLock" /\ job'[t] = j
        /\ \A u \in Tasks \ {t} : pc'[u] = pc[u] /\ job'[u] = job[u]
    BY <2>3, GotoEffect
  <2>5. Quiet /\ nextId' = nextId + 1 /\ b \in used'
    BY <1>0, <1>1 DEF Create, Quiet, store
  <2>6. b \notin used
    BY <1>1 DEF Create, OneProcess
  <2>7. metadata[b] = None /\ commits[b] = {}
    BY <2>6 DEF SafetyInv, StoreInv, CommitInv
  <2>8. TaskInv(t)'
    BY <1>0, <2>2, <2>4, <2>5, <2>7
    DEF TaskInv, CreateInv, ViewInv, WriterInv, HasView, Readers, Refreshes, Quiet
  <2>9. \A u \in Tasks : CreatePending(u) \/ HasView(u) => job[u].bom # b
    BY <2>6 DEF SafetyInv, TaskInv, CreateInv, ViewInv
  <2>10. ~HasView(t)'
    BY <2>2, <2>4 DEF HasView, Readers, Refreshes
  <2> QED BY <2>2, <2>4, <2>5, <2>8, <2>9, <2>10, MoveSafe
<1>2. ASSUME NEW b \in Boms, NEW v \in Nat, NEW o \in {"edit", "delete"},
             Goto(t, "idle", "waitLock"),
             job' = [job EXCEPT ![t] = Request(o, b, v, 0, None, None)],
             UNCHANGED <<store, lock, history, faults>>
      PROVE SafetyInv'
  <2> DEFINE j == Request(o, b, v, 0, None, None)
  <2>1. j.op = o
    BY DEF Request
  <2>2. job' = [job EXCEPT ![t] = j]
    BY <1>2
  <2> HIDE DEF j
  <2>3. /\ pc'[t] = "waitLock" /\ job'[t] = j
        /\ \A u \in Tasks \ {t} : pc'[u] = pc[u] /\ job'[u] = job[u]
    BY <1>2, <2>2, GotoEffect
  <2>4. Quiet
    BY <1>0, <1>2 DEF Quiet, store, history
  <2>5. ~HasView(t)' /\ ~CreatePending(t)'
    BY <2>1, <2>3 DEF HasView, CreatePending, Readers, Refreshes
  <2>6. TaskInv(t)'
    BY <2>3, <2>5 DEF TaskInv, CreateInv, ViewInv, WriterInv
  <2> QED BY <2>3, <2>4, <2>5, <2>6, MoveSafe
<1>3. ASSUME NEW o \in Readers, NEW b \in Boms, GetMeta(t, o, b) PROVE SafetyInv'
  <2> DEFINE j == Request(o, b, metadata[b].version, 0, None, None)
  <2>1. j.op = o /\ j.bom = b /\ j.expected = metadata[b].version /\ j.content = None
    BY DEF Request
  <2>2. Goto(t, "idle", "getAnalyze") /\ job' = [job EXCEPT ![t] = j]
    BY <1>3 DEF GetMeta
  <2> HIDE DEF j
  <2>3. /\ pc'[t] = "getAnalyze" /\ job'[t] = j
        /\ \A u \in Tasks \ {t} : pc'[u] = pc[u] /\ job'[u] = job[u]
    BY <2>2, GotoEffect
  <2>4. Quiet /\ metadata[b] # None
    BY <1>0, <1>3 DEF GetMeta, Quiet, store, history
  <2>5. metadata[b].version \in Nat
    BY <2>4 DEF Typed, TypeOK, Listing, Summary
  <2>6. b \in used
    BY <2>4 DEF SafetyInv, StoreInv, CommitInv
  <2>7. ~CreatePending(t)'
    BY <2>3 DEF CreatePending
  <2>8. TaskInv(t)'
    BY <2>1, <2>3, <2>4, <2>5, <2>6, <2>7
    DEF TaskInv, CreateInv, ViewInv, WriterInv, Quiet
  <2>9. \A u \in Tasks : CreatePending(u) => job[u].bom # b
    BY <2>4 DEF SafetyInv, TaskInv, CreateInv
  <2> QED BY <2>1, <2>3, <2>4, <2>7, <2>8, <2>9, MoveSafe
<1>4. ASSUME NEW b \in Boms, Delete(t, b) PROVE SafetyInv'
  BY <1>2, <1>4 DEF Delete
<1>5. ASSUME NEW b \in Boms, NEW v \in Ids, Edit(t, b, v) PROVE SafetyInv'
  <2>1. v \in Nat
    BY DEF Ids
  <2> QED BY <1>2, <1>5, <2>1 DEF Edit
<1> QED BY <1>1, <1>3, <1>4, <1>5 DEF Arrive, Readers, Refreshes


LEMMA ReadSafe ==
  ASSUME Typed, SafetyInv, NEW t \in Tasks,
         GetAnalyze(t) \/ GetLeaves(t) \/ SendPut(t) \/ Acquire(t)
  PROVE  SafetyInv'
<1> USE NoneIsNoObject, ModeAssumption
<1>0. nextId \in Nat /\ TaskInv(t) /\ JobShape(t) /\ job[t] \in Job
  BY DEF Typed, TypeOK, Shape, SafetyInv
<1> DEFINE b == job[t].bom
<1>1. ASSUME GetAnalyze(t) PROVE SafetyInv'
  <2>1. PICK r \in Risks : job' = [job EXCEPT ![t].content = [analyze[b] EXCEPT !.risk = r]]
    BY <1>1 DEF GetAnalyze
  <2> DEFINE q == IF job[t].op = "put" THEN "thinking" ELSE "waitLock"
             c == [analyze[b] EXCEPT !.risk = r]
             j == [job[t] EXCEPT !.content = c]
  <2>2. b \in Boms /\ job[t].op \in Readers /\ pc[t] = "getAnalyze" /\ analyze[b] # None
    BY <1>0, <1>1 DEF GetAnalyze, JobShape, Goto
  <2>3. c.edits = analyze[b].edits
    BY <2>2 DEF Typed, TypeOK, Content
  <2> HIDE DEF c
  <2>4. j.op = job[t].op /\ j.bom = b /\ j.content = c /\ j.expected = job[t].expected
    BY <1>0 DEF Job
  <2>5. Goto(t, "getAnalyze", q) /\ job' = [job EXCEPT ![t] = j]
    BY <1>0, <1>1, <2>1 DEF GetAnalyze, c, Typed, TypeOK
  <2> HIDE DEF j
  <2>6. /\ pc'[t] = q /\ job'[t] = j
        /\ \A u \in Tasks \ {t} : pc'[u] = pc[u] /\ job'[u] = job[u]
    BY <2>5, GotoEffect
  <2>7. Quiet
    BY <1>0, <1>1 DEF GetAnalyze, Quiet, store, history
  <2>8. HasView(t) /\ ~CreatePending(t)'
    BY <2>2, <2>4, <2>6 DEF HasView, CreatePending, Readers, Refreshes
  <2>9. CommittedEdits(b) \subseteq analyze[b].edits
    BY <2>2 DEF SafetyInv, CommittedEditsKept, CommittedEdits
  <2>10. \A x : {e.edit : e \in commits'[x]} = CommittedEdits(x)
    BY <2>7 DEF Quiet, CommittedEdits
  <2>11. ViewInv(t)'
    BY <1>0, <2>3, <2>4, <2>6, <2>7, <2>8, <2>9, <2>10
    DEF TaskInv, ViewInv, Quiet, CommittedEdits
  <2>12. TaskInv(t)'
    BY <2>6, <2>8, <2>11 DEF TaskInv, CreateInv, WriterInv
  <2>13. \A u \in Tasks \ {t} : CreatePending(u) => job[u].bom # b
    BY <2>8 DEF SafetyInv, UploadAlone
  <2> QED BY <2>4, <2>6, <2>7, <2>8, <2>12, <2>13, MoveSafe
<1>2. ASSUME GetLeaves(t) PROVE SafetyInv'
  BY <1>2, ReturnSafe DEF GetLeaves
<1>3. ASSUME NEW p, NEW q, Goto(t, p, q), job' = job, Quiet,
             \/ p = "thinking" /\ q = "waitLock"
             \/ p = "waitLock" /\ q = FirstLocked(job[t].op)
      PROVE SafetyInv'
  <2>1. /\ pc[t] = p /\ pc'[t] = q /\ job'[t] = job[t]
        /\ \A u \in Tasks \ {t} : pc'[u] = pc[u] /\ job'[u] = job[u]
    BY <1>3, StayEffect
  <2>2. job[t].op \in Ops /\ b \in Boms /\ (pc[t] = "thinking" => job[t].op = "put")
    BY <1>0, <1>3, <2>1 DEF JobShape
  <2>3. CreatePending(t)' <=> CreatePending(t)
    BY <1>3, <2>1, <2>2 DEF CreatePending, FirstLocked, Ops, Edits, Refreshes
  <2>4. HasView(t)' => HasView(t)
    BY <1>3, <2>1, <2>2 DEF HasView
  <2>5. CommittedEdits(b)' = CommittedEdits(b)
    BY <1>3 DEF Quiet, CommittedEdits
  <2>6. CreateInv(t)'
    <3>1. CreatePending(t) => job[t].edit \in Nat
      BY <1>0 DEF CreatePending, JobShape, Ids
    <3> QED BY <1>0, <1>3, <2>1, <2>3, <3>1 DEF TaskInv, CreateInv, Quiet
  <2>7. ViewInv(t)'
    BY <1>0, <1>3, <2>1, <2>4, <2>5 DEF TaskInv, ViewInv, Quiet
  <2>8. WriterInv(t)'
    <3>1. CASE job[t].op = "create"
      <4>1. \/ CreatePending(t) /\ pc'[t] = "putAnalyze"
            \/ pc'[t] = "waitLock"
        BY <1>3, <2>1, <2>2, <3>1 DEF CreatePending, FirstLocked, Edits
      <4>2. CreatePending(t) => commits[b] = {} /\ job[t].edit \in job[t].content.edits
                                 /\ CommittedEdits(b) = {}
        BY <1>0 DEF TaskInv, CreateInv, CommittedEdits
      <4>3. CreatePending(t) => job[t].edit < nextId'
        BY <2>1, <2>3, <2>6 DEF CreateInv
      <4> QED BY <2>1, <2>5, <3>1, <4>1, <4>2, <4>3 DEF WriterInv, Edits, CommittedEdits
    <3>2. CASE job[t].op # "create"
      BY <1>3, <2>1, <2>2, <3>2 DEF WriterInv, FirstLocked, Ops, Edits, Refreshes
    <3> QED BY <3>1, <3>2
  <2>9. \A u \in Tasks \ {t} :
           (\/ CreatePending(t) /\ (CreatePending(u) \/ HasView(u))
            \/ CreatePending(u) /\ (CreatePending(t) \/ HasView(t)))
           => job[t].bom # job[u].bom
    BY DEF SafetyInv, UploadAlone
  <2>10. TaskInv(t)'
    BY <2>6, <2>7, <2>8 DEF TaskInv
  <2> QED BY <1>3, <2>1, <2>3, <2>4, <2>9, <2>10, MoveSafe
<1>4. ASSUME SendPut(t) PROVE SafetyInv'
  <2>1. Quiet
    BY <1>0, <1>4 DEF SendPut, Quiet, store, history
  <2> QED BY <1>3, <1>4, <2>1 DEF SendPut
<1>5. ASSUME Acquire(t) PROVE SafetyInv'
  <2>1. Quiet
    BY <1>0, <1>5 DEF Acquire, Quiet, store, history
  <2> QED BY <1>3, <1>5, <2>1 DEF Acquire
<1> QED BY <1>1, <1>2, <1>4, <1>5


\* The two reads of load_mutable, and ensure_version with them.
LEMMA LoadSafe ==
  ASSUME Typed, SafetyInv, NEW t \in Tasks, LoadMeta(t) \/ LoadAnalyze(t)
  PROVE  SafetyInv'
<1> USE NoneIsNoObject, ModeAssumption
<1>0. nextId \in Nat /\ TaskInv(t) /\ JobShape(t) /\ job[t] \in Job
  BY DEF Typed, TypeOK, Shape, SafetyInv
<1> DEFINE b == job[t].bom
<1>1. ASSUME metadata[b] # None, Goto(t, "loadMeta", "loadAnalyze"),
             job' = [job EXCEPT ![t].summary = metadata[b]],
             UNCHANGED <<store, lock, history, faults>>
      PROVE SafetyInv'
  <2> DEFINE j == [job[t] EXCEPT !.summary = metadata[b]]
  <2>1. /\ j.op = job[t].op /\ j.bom = b /\ j.content = job[t].content
        /\ j.expected = job[t].expected /\ j.summary = metadata[b]
    BY <1>0 DEF Job
  <2>2. job' = [job EXCEPT ![t] = j]
    BY <1>0, <1>1
  <2> HIDE DEF j
  <2>3. /\ pc[t] = "loadMeta" /\ pc'[t] = "loadAnalyze" /\ job'[t] = j
        /\ \A u \in Tasks \ {t} : pc'[u] = pc[u] /\ job'[u] = job[u]
    BY <1>1, <2>2, GotoEffect
  <2>4. Quiet
    BY <1>0, <1>1 DEF Quiet, store, history
  <2>5. ~CreatePending(t)' /\ (HasView(t)' => HasView(t))
    BY <2>1, <2>3 DEF CreatePending, HasView
  <2>6. \A x : {e.edit : e \in commits'[x]} = CommittedEdits(x)
    BY <2>4 DEF Quiet, CommittedEdits
  <2>7. ViewInv(t)'
    BY <1>0, <2>1, <2>3, <2>4, <2>5, <2>6 DEF TaskInv, ViewInv, Quiet, CommittedEdits
  <2>8. TaskInv(t)'
    BY <1>1, <2>1, <2>3, <2>4, <2>5, <2>7 DEF TaskInv, CreateInv, WriterInv, Quiet
  <2>9. \A u \in Tasks \ {t} : CreatePending(u) /\ HasView(t) => b # job[u].bom
    BY DEF SafetyInv, UploadAlone
  <2> QED BY <2>1, <2>3, <2>4, <2>5, <2>8, <2>9, MoveSafe
<1>2. ASSUME NEW r \in Risks, analyze[b] # None, EnsureVersion(t),
             Goto(t, "loadAnalyze", "putAnalyze"),
             job' = [job EXCEPT ![t] = Request(job[t].op, job[t].bom, job[t].expected,
                       nextId, [edits |-> EditedLines(t, analyze[b]), risk |-> r],
                       BumpSummary(job[t].summary, r))],
             nextId' = nextId + 1,
             UNCHANGED <<store, lock, used, commits, faults>>
      PROVE SafetyInv'
  <2> DEFINE j == Request(job[t].op, job[t].bom, job[t].expected,
                    nextId, [edits |-> EditedLines(t, analyze[b]), risk |-> r],
                    BumpSummary(job[t].summary, r))
  <2>1. /\ j.op = job[t].op /\ j.bom = b /\ j.edit = nextId
        /\ j.content.edits = EditedLines(t, analyze[b])
        /\ j.summary.version = job[t].summary.version + 1
    BY DEF Request, BumpSummary
  <2>2. job' = [job EXCEPT ![t] = j]
    BY <1>2
  <2> HIDE DEF j
  <2>3. /\ pc[t] = "loadAnalyze" /\ pc'[t] = "putAnalyze" /\ job'[t] = j
        /\ \A u \in Tasks \ {t} : pc'[u] = pc[u] /\ job'[u] = job[u]
    BY <1>2, <2>2, GotoEffect
  <2>4. Quiet
    BY <1>0, <1>2 DEF Quiet, store
  <2>5. b \in Boms /\ job[t].op \in Edits /\ (job[t].op = "put" => job[t].content \in Content)
    BY <1>0, <2>3 DEF JobShape, Readers
  <2>6. metadata[b] # None /\ job[t].summary = metadata[b]
    BY <1>0, <2>3 DEF TaskInv, WriterInv
  <2>7. CommittedEdits(b) \subseteq EditedLines(t, analyze[b])
    <3>1. CASE job[t].op = "put"
      <4>1. HasView(t) /\ job[t].content # None
        BY <2>3, <2>5, <3>1 DEF HasView, Readers
      <4>2. job[t].expected = metadata[b].version
        BY <1>2, <2>6 DEF EnsureVersion
      <4> QED BY <1>0, <2>6, <3>1, <4>1, <4>2 DEF TaskInv, ViewInv, EditedLines
    <3>2. CASE job[t].op # "put"
      BY <2>5, <3>2 DEF SafetyInv, CommittedEditsKept, CommittedEdits, EditedLines
    <3> QED BY <3>1, <3>2
  <2>8. nextId \in EditedLines(t, analyze[b])
    BY DEF EditedLines
  <2>9. nextId \notin CommittedEdits(b)
    BY <1>0, <2>5 DEF SafetyInv, StoreInv, CommitInv, CommittedEdits
  <2>10. ~CreatePending(t)' /\ ~HasView(t)'
    BY <2>1, <2>3, <2>5 DEF CreatePending, HasView, Edits
  <2>11. \A x : {e.edit : e \in commits'[x]} = CommittedEdits(x)
    BY <2>4 DEF Quiet, CommittedEdits
  <2>12. WriterInv(t)'
    BY <1>0, <1>2, <2>1, <2>3, <2>4, <2>6, <2>7, <2>8, <2>9, <2>11
    DEF WriterInv, Quiet, CommittedEdits
  <2>13. TaskInv(t)'
    BY <2>10, <2>12 DEF TaskInv, CreateInv, ViewInv
  <2> QED BY <2>3, <2>4, <2>10, <2>13, MoveSafe
<1>3. ASSUME LoadMeta(t) PROVE SafetyInv'
  <2>1. CASE Return(t)
    BY <2>1, ReturnSafe
  <2>2. CASE ~Return(t)
    BY <1>1, <1>3, <2>2 DEF LoadMeta
  <2> QED BY <2>1, <2>2
<1>4. ASSUME LoadAnalyze(t) PROVE SafetyInv'
  <2>1. CASE Return(t)
    BY <2>1, ReturnSafe
  <2>2. CASE ~Return(t)
    BY <1>2, <1>4, <2>2 DEF LoadAnalyze
  <2> QED BY <2>1, <2>2
<1> QED BY <1>3, <1>4

\* The version check of a refresh, and the index accesses.
LEMMA CheckSafe ==
  ASSUME Typed, SafetyInv, NEW t \in Tasks,
         CasRead(t) \/ ReadIndex(t) \/ ReadIndexMisses(t)
           \/ WriteIndex(t) \/ WriteIndexDelete(t)
  PROVE  SafetyInv'
<1> USE NoneIsNoObject, ModeAssumption
<1>0. nextId \in Nat /\ TaskInv(t) /\ JobShape(t) /\ job[t] \in Job
  BY DEF Typed, TypeOK, Shape, SafetyInv
<1> DEFINE b == job[t].bom
<1>1. ASSUME metadata[b] # None, metadata[b].version = job[t].expected,
             Goto(t, "casRead", "casClaim"),
             job' = [job EXCEPT ![t].etag = metadata[b]],
             UNCHANGED <<store, lock, history, faults>>
      PROVE SafetyInv'
  <2> DEFINE j == [job[t] EXCEPT !.etag = metadata[b]]
  <2>1. /\ j.op = job[t].op /\ j.bom = b /\ j.content = job[t].content
        /\ j.expected = job[t].expected /\ j.etag = metadata[b]
    BY <1>0 DEF Job
  <2>2. job' = [job EXCEPT ![t] = j]
    BY <1>0, <1>1
  <2> HIDE DEF j
  <2>3. /\ pc[t] = "casRead" /\ pc'[t] = "casClaim" /\ job'[t] = j
        /\ \A u \in Tasks \ {t} : pc'[u] = pc[u] /\ job'[u] = job[u]
    BY <1>1, <2>2, GotoEffect
  <2>4. Quiet
    BY <1>0, <1>1 DEF Quiet, store, history
  <2>5. ~CreatePending(t)' /\ (HasView(t)' => HasView(t))
    BY <2>1, <2>3 DEF CreatePending, HasView
  <2>6. \A x : {e.edit : e \in commits'[x]} = CommittedEdits(x)
    BY <2>4 DEF Quiet, CommittedEdits
  <2>7. ViewInv(t)'
    BY <1>0, <2>1, <2>3, <2>4, <2>5, <2>6 DEF TaskInv, ViewInv, Quiet, CommittedEdits
  <2>8. TaskInv(t)'
    BY <1>1, <2>1, <2>3, <2>4, <2>5, <2>7 DEF TaskInv, CreateInv, WriterInv, Quiet
  <2>9. \A u \in Tasks \ {t} : CreatePending(u) /\ HasView(t) => b # job[u].bom
    BY DEF SafetyInv, UploadAlone
  <2> QED BY <2>1, <2>3, <2>4, <2>5, <2>8, <2>9, MoveSafe
<1>2. ASSUME CasRead(t) PROVE SafetyInv'
  <2>1. CASE Return(t)
    BY <2>1, ReturnSafe
  <2>2. CASE ~Return(t)
    BY <1>1, <1>2, <2>2 DEF CasRead
  <2> QED BY <2>1, <2>2
<1>3. ASSUME NEW p, NEW q \in {"writeIndex", "deletePrefix"}, Goto(t, p, q), Quiet,
             NEW j \in Job, job' = [job EXCEPT ![t] = j]
      PROVE SafetyInv'
  <2>1. /\ pc'[t] = q /\ job'[t] = j
        /\ \A u \in Tasks \ {t} : pc'[u] = pc[u] /\ job'[u] = job[u]
    BY <1>3 DEF Goto, Typed, TypeOK
  <2>2. ~CreatePending(t)' /\ ~HasView(t)'
    BY <2>1 DEF CreatePending, HasView
  <2>3. TaskInv(t)'
    BY <2>1, <2>2 DEF TaskInv, CreateInv, ViewInv, WriterInv
  <2> QED BY <1>3, <2>1, <2>2, <2>3, MoveSafe
<1>4. ASSUME NEW seen \in Listing, WithIndex(t, seen) PROVE SafetyInv'
  <2>1. Quiet
    BY <1>0, <1>4 DEF WithIndex, Quiet, store, history
  <2>2. CASE Leave({t})
    BY <2>1, <2>2, LeaveSafe
  <2>3. CASE ~Leave({t})
    <3> DEFINE j == [job[t] EXCEPT !.listing = seen]
    <3>1. j \in Job /\ job' = [job EXCEPT ![t] = j]
      BY <1>0, <1>4, <2>3 DEF WithIndex, Job
    <3> HIDE DEF j
    <3> QED BY <1>3, <1>4, <2>1, <2>3, <3>1 DEF WithIndex
  <2> QED BY <2>2, <2>3
<1>5. index \in Listing /\ [x \in Boms |-> None] \in Listing
  BY DEF Typed, TypeOK, Listing
<1>6. ASSUME WriteIndex(t) PROVE SafetyInv'
  <2>1. Quiet
    BY <1>0, <1>6 DEF WriteIndex, Quiet, history
  <2> QED BY <1>6, <2>1, LeaveSafe DEF WriteIndex
<1>7. ASSUME WriteIndexDelete(t) PROVE SafetyInv'
  <2>1. Quiet
    BY <1>0, <1>7 DEF WriteIndexDelete, Quiet, history
  <2>2. job' = [job EXCEPT ![t] = job[t]]
    BY <1>7 DEF WriteIndexDelete, Typed, TypeOK
  <2> QED BY <1>0, <1>3, <1>7, <2>1, <2>2 DEF WriteIndexDelete
<1> QED BY <1>2, <1>4, <1>5, <1>6, <1>7 DEF ReadIndex, ReadIndexMisses


\* Requests that stay, end, or go from one write to the next keep uploads alone.
LEMMA UploadAloneKept ==
  ASSUME UploadAlone,
         \A u \in Tasks :
           \/ pc'[u] \in {"idle", "readIndex"}
           \/ /\ job'[u].op = job[u].op /\ job'[u].bom = job[u].bom
              /\ \/ pc'[u] = pc[u]
                 \/ pc[u] = "putAnalyze" /\ pc'[u] = "putMeta"
                 \/ pc[u] = "casClaim" /\ pc'[u] = "casAnalyze"
  PROVE  UploadAlone'
<1>1. ASSUME NEW u \in Tasks, NEW v \in Tasks, u # v, CreatePending(u)',
             CreatePending(v)' \/ HasView(v)'
      PROVE job'[u].bom # job'[v].bom
  <2>1. pc'[u] \notin {"idle", "readIndex"} /\ pc'[v] \notin {"idle", "readIndex"}
    BY <1>1 DEF CreatePending, HasView
  <2>2. job'[u].bom = job[u].bom /\ job'[v].bom = job[v].bom
    BY <2>1
  <2>3. CreatePending(u) /\ (CreatePending(v) \/ HasView(v))
    BY <1>1, <2>1 DEF CreatePending, HasView
  <2> QED BY <1>1, <2>2, <2>3 DEF UploadAlone
<1> QED BY <1>1 DEF UploadAlone

LEMMA PutAnalyzeSafe ==
  ASSUME Typed, LockInv, OneProcess, SafetyInv, NEW t \in Tasks,
         PutAnalyze(t) \/ CasAnalyze(t)
  PROVE  SafetyInv'
<1> USE NoneIsNoObject, ModeAssumption
<1>0. TaskInv(t) /\ JobShape(t) /\ job[t] \in Job
  BY DEF Typed, TypeOK, Shape, SafetyInv
<1> DEFINE b == job[t].bom
<1>1. PICK q \in {"putMeta", "readIndex"} :
        /\ Goto(t, pc[t], q)
        /\ \/ pc[t] = "putAnalyze" /\ q = "putMeta"
           \/ pc[t] = "casAnalyze" /\ q = "readIndex"
  BY DEF PutAnalyze, CasAnalyze, Goto
<1>2. /\ pc'[t] = q /\ job' = job /\ metadata' = metadata
      /\ \A u \in Tasks \ {t} : pc'[u] = pc[u]
  BY <1>1 DEF PutAnalyze, CasAnalyze, Goto, Typed, TypeOK
<1>3. b \in Boms /\ job[t].content \in Content
  BY <1>0, <1>1 DEF JobShape, Readers
<1>4. analyze' = [analyze EXCEPT ![b] = job[t].content] /\ used' = used /\ nextId' = nextId
  BY DEF PutAnalyze, CasAnalyze, history
<1>5. commits' = commits
  <2>1. CASE pc[t] = "putAnalyze" /\ job[t].op = "create"
    <3>1. commits[b] = {}
      BY <1>0, <2>1 DEF TaskInv, CreateInv, CreatePending
    <3>2. commits' = [commits EXCEPT ![b] = {}]
      BY <2>1 DEF PutAnalyze, CasAnalyze, Goto
    <3>3. commits \in [Boms -> SUBSET Commit]
      BY DEF Typed, TypeOK
    <3> QED BY <1>3, <3>1, <3>2, <3>3
  <2>2. CASE ~(pc[t] = "putAnalyze" /\ job[t].op = "create")
    BY <2>2 DEF PutAnalyze, CasAnalyze, history, Goto
  <2> QED BY <2>1, <2>2
<1>6. CommittedEdits(b) \subseteq job[t].content.edits
  <2>1. CASE pc[t] = "putAnalyze"
    BY <1>0, <2>1 DEF TaskInv, WriterInv
  <2>2. CASE pc[t] = "casAnalyze"
    <3>1. HasView(t) /\ job[t].content # None
      BY <1>0, <1>3, <2>2 DEF JobShape, HasView, Readers
    <3> QED BY <1>0, <2>2, <3>1 DEF TaskInv, WriterInv, ViewInv
  <2> QED BY <1>1, <2>1, <2>2
<1>7. CommittedEditsKept'
  <2>1. analyze'[b] = job[t].content /\ \A x \in Boms \ {b} : analyze'[x] = analyze[x]
    BY <1>3, <1>4 DEF Typed, TypeOK
  <2> QED BY <1>3, <1>5, <1>6, <2>1 DEF SafetyInv, CommittedEditsKept, CommittedEdits
<1>8. ASSUME NEW u \in Tasks \ {t} PROVE TaskInv(u)'
  <2>1. TaskInv(u) /\ pc[u] \notin Locked
    <3>1. pc[t] \in Locked
      BY <1>1 DEF Locked
    <3> QED BY <3>1, Alone DEF SafetyInv
  <2>2. CreateInv(u)' /\ ViewInv(u)'
    BY <1>2, <1>4, <1>5, <2>1
    DEF TaskInv, CreateInv, ViewInv, CreatePending, HasView, CommittedEdits
  <2>3. WriterInv(u)'
    BY <1>2, <2>1 DEF WriterInv, Locked
  <2> QED BY <2>2, <2>3 DEF TaskInv
<1>9. TaskInv(t)'
  <2>1. CreateInv(t)' /\ ViewInv(t)'
    BY <1>0, <1>1, <1>2, <1>4, <1>5
    DEF TaskInv, CreateInv, ViewInv, CreatePending, HasView, CommittedEdits
  <2>2. WriterInv(t)'
    <3>1. pc[t] = "putAnalyze" => analyze'[b] = job[t].content
      BY <1>3, <1>4 DEF Typed, TypeOK
    <3> QED BY <1>0, <1>1, <1>2, <1>4, <1>5, <3>1 DEF TaskInv, WriterInv, CommittedEdits
  <2> QED BY <2>1, <2>2 DEF TaskInv
<1>10. UploadAlone'
  BY <1>1, <1>2, UploadAloneKept DEF SafetyInv
<1>11. StoreInv' /\ OneCommitPerVersion'
  BY <1>2, <1>4, <1>5 DEF SafetyInv, StoreInv, CommitInv, OneCommitPerVersion
<1> QED BY <1>7, <1>8, <1>9, <1>10, <1>11 DEF SafetyInv


\* An edit or an upload commits: its metadata.json is written.
LEMMA PutMetaSafe ==
  ASSUME Typed, LockInv, OneProcess, SafetyInv, NEW t \in Tasks, PutMeta(t)
  PROVE  SafetyInv'
<1> USE NoneIsNoObject, ModeAssumption
<1>0. TaskInv(t) /\ WriterInv(t) /\ CreateInv(t) /\ JobShape(t) /\ job[t] \in Job
  BY DEF Typed, TypeOK, Shape, SafetyInv, TaskInv
<1> DEFINE b == job[t].bom
           s == job[t].summary
           e == job[t].edit
           c == [edit |-> e, version |-> s.version]
<1>1. /\ pc[t] = "putMeta" /\ pc'[t] = "readIndex" /\ job' = job
      /\ \A u \in Tasks \ {t} : pc'[u] = pc[u]
  BY DEF PutMeta, Goto, Typed, TypeOK
<1>2. b \in Boms /\ job[t].op \in Writers /\ s \in Summary /\ s.version \in Nat
  BY <1>0, <1>1 DEF JobShape, Summary
<1>3. /\ metadata' = [metadata EXCEPT ![b] = s]
      /\ commits' = [commits EXCEPT ![b] = @ \cup {c}]
      /\ UNCHANGED <<analyze, used, nextId>>
  BY DEF PutMeta
<1>4. /\ metadata'[b] = s /\ \A x \in Boms \ {b} : metadata'[x] = metadata[x]
      /\ commits'[b] = commits[b] \cup {c} /\ \A x \in Boms \ {b} : commits'[x] = commits[x]
  BY <1>2, <1>3 DEF Typed, TypeOK, Listing
<1>5. /\ CommittedEdits(b) \subseteq analyze[b].edits /\ e \in analyze[b].edits
      /\ analyze[b] # None /\ e < nextId
  <2>1. job[t].content \in Content
    BY <1>0, <1>1 DEF JobShape
  <2> QED BY <1>0, <1>1, <2>1 DEF WriterInv
<1> HIDE DEF s, e, c
<1>6. c.edit = e /\ c.version = s.version
  BY DEF c
\* An upload finds nothing; an edit the version below its own.
<1>7. \/ CreatePending(t) /\ metadata[b] = None /\ commits[b] = {} /\ b \in used
      \/ ~CreatePending(t) /\ metadata[b] # None /\ s.version = metadata[b].version + 1
  BY <1>0, <1>1, <1>2 DEF WriterInv, CreateInv, CreatePending, Writers, Edits, s
<1>8. metadata[b] # None => metadata[b].version \in Nat
  BY <1>2 DEF Typed, TypeOK, Listing, Summary
<1>9. \A x \in commits[b] : x.version \in Nat /\ x.version < s.version
  <2>1. CommitInv(b)
    BY <1>2 DEF SafetyInv, StoreInv
  <2>2. \A x \in commits[b] : x.version \in Nat
    BY <1>2 DEF Typed, TypeOK, Commit
  <2> QED BY <1>2, <1>7, <1>8, <2>1, <2>2 DEF CommitInv
<1>10. CommittedEditsKept'
  <2>1. \A x \in Boms \ {b} : commits'[x] = commits[x] /\ analyze'[x] = analyze[x]
    BY <1>3, <1>4
  <2>2. {y.edit : y \in commits'[b]} \subseteq analyze'[b].edits /\ analyze'[b] # None
    BY <1>3, <1>4, <1>5, <1>6 DEF CommittedEdits
  <2> QED BY <2>1, <2>2 DEF SafetyInv, CommittedEditsKept, CommittedEdits
<1>11. OneCommitPerVersion'
  <2>1. ASSUME NEW x \in commits'[b], NEW y \in commits'[b], x.version = y.version
        PROVE  x = y
    BY <1>2, <1>4, <1>6, <1>9, <2>1 DEF SafetyInv, OneCommitPerVersion
  <2> QED BY <1>4, <2>1 DEF SafetyInv, OneCommitPerVersion
<1>12. StoreInv'
  <2>1. ASSUME NEW x \in Boms, x # b PROVE CommitInv(x)'
    BY <1>3, <1>4, <2>1 DEF SafetyInv, StoreInv, CommitInv
  <2>2. ASSUME NEW x \in Boms, x = b PROVE CommitInv(x)'
    <3>1. CommitInv(b)
      BY <1>2 DEF SafetyInv, StoreInv
    <3>2. b \in used
      BY <1>7, <3>1 DEF CommitInv
    <3>3. s # None
      BY <1>2
    <3> QED BY <1>2, <1>3, <1>4, <1>5, <1>6, <1>9, <2>2, <3>1, <3>2, <3>3 DEF CommitInv
  <2> QED BY <2>1, <2>2 DEF StoreInv
<1>13. ASSUME NEW u \in Tasks \ {t} PROVE TaskInv(u)'
  <2>1. TaskInv(u) /\ pc[u] \notin Locked /\ JobShape(u) /\ job[u] \in Job
    <3>1. pc[t] \in Locked
      BY <1>1 DEF Locked
    <3> QED BY <3>1, Alone DEF SafetyInv, Typed, TypeOK, Shape
  <2>2. CreateInv(u)'
    <3> SUFFICES ASSUME CreatePending(u) PROVE CreateInv(u)'
      BY <1>1 DEF CreateInv, CreatePending
    <3>1. job[u].bom # b
      BY <1>7, <2>1 DEF SafetyInv, UploadAlone, TaskInv, CreateInv
    <3>2. job[u].bom \in Boms
      BY <2>1 DEF CreatePending, JobShape
    <3> QED BY <1>1, <1>3, <1>4, <2>1, <3>1, <3>2 DEF TaskInv, CreateInv
  <2>3. ViewInv(u)'
    <3> SUFFICES ASSUME HasView(u) PROVE ViewInv(u)'
      BY <1>1 DEF ViewInv, HasView
    <3>1. job[u].bom \in Boms /\ job[u].expected \in Nat
      BY <2>1 DEF HasView, JobShape, Job
    <3>2. CASE job[u].bom # b
      BY <1>1, <1>3, <1>4, <2>1, <3>1, <3>2 DEF TaskInv, ViewInv, CommittedEdits
    <3>3. CASE job[u].bom = b
      <4>1. ~CreatePending(t)
        BY <3>3 DEF SafetyInv, UploadAlone
      <4>2. job[u].expected < s.version /\ b \in used
        BY <1>2, <1>7, <1>8, <2>1, <3>1, <3>3, <4>1 DEF TaskInv, ViewInv
      <4> QED BY <1>1, <1>2, <1>3, <1>4, <3>1, <3>3, <4>2 DEF ViewInv
    <3> QED BY <3>2, <3>3
  <2>4. WriterInv(u)'
    BY <1>1, <2>1 DEF WriterInv, Locked
  <2> QED BY <2>2, <2>3, <2>4 DEF TaskInv
<1>14. TaskInv(t)'
  BY <1>1 DEF TaskInv, CreateInv, ViewInv, WriterInv, CreatePending, HasView
<1>15. UploadAlone'
  BY <1>1, UploadAloneKept DEF SafetyInv
<1> QED BY <1>10, <1>11, <1>12, <1>13, <1>14, <1>15 DEF SafetyInv


\* A refresh claims a BOM: scores change, the version does not.
LEMMA CasClaimSafe ==
  ASSUME Typed, LockInv, OneProcess, SafetyInv, NEW t \in Tasks, CasClaim(t)
  PROVE  SafetyInv'
<1> USE NoneIsNoObject, ModeAssumption
<1>0. TaskInv(t) /\ WriterInv(t) /\ ViewInv(t) /\ JobShape(t) /\ job[t] \in Job
  BY DEF Typed, TypeOK, Shape, SafetyInv, TaskInv
<1> DEFINE b == job[t].bom
           s == RefreshedSummary(job[t].etag, job[t].content.risk)
           j == [job[t] EXCEPT !.summary = s]
<1>1. CASE Return(t)
  BY <1>1, ReturnSafe
<1>2. CASE ~Return(t)
  <2>1. /\ Goto(t, "casClaim", "casAnalyze") /\ metadata' = [metadata EXCEPT ![b] = s]
        /\ job' = [job EXCEPT ![t].summary = s]
        /\ UNCHANGED <<analyze, index, lock, history, faults>>
    BY <1>2 DEF CasClaim
  <2>2. job' = [job EXCEPT ![t] = j]
    BY <1>0, <2>1
  <2>3. j.op = job[t].op /\ j.bom = b /\ j.content = job[t].content
          /\ j.expected = job[t].expected
    BY <1>0 DEF Job
  <2>4. pc[t] = "casClaim"
    BY <2>1 DEF Goto
  <2>5. /\ b \in Boms /\ metadata[b] \in Summary /\ job[t].content \in Content
        /\ job[t].etag = metadata[b] /\ metadata[b].version = job[t].expected
        /\ job[t].op \in Refreshes
    BY <1>0, <2>4 DEF JobShape, WriterInv, Readers
  <2>6. s \in Summary /\ s # None /\ s.version = metadata[b].version
    BY <2>5 DEF RefreshedSummary, Summary, Content
  <2> HIDE DEF j, s
  <2>7. /\ pc'[t] = "casAnalyze" /\ job'[t] = j
        /\ \A u \in Tasks \ {t} : pc'[u] = pc[u] /\ job'[u] = job[u]
    BY <2>1, <2>2, GotoEffect
  <2>8. /\ metadata'[b] = s /\ \A x \in Boms \ {b} : metadata'[x] = metadata[x]
        /\ commits' = commits /\ used' = used /\ nextId' = nextId /\ analyze' = analyze
    BY <2>1, <2>5 DEF Typed, TypeOK, Listing, history
  \* The version of an existing BOM, and whether there is one, stay.
  <2>9. \A x \in Boms : /\ metadata'[x] = None <=> metadata[x] = None
                        /\ metadata[x] # None => metadata'[x].version = metadata[x].version
    BY <2>5, <2>6, <2>8
  <2>10. ASSUME NEW u \in Tasks \ {t} PROVE TaskInv(u)'
    <3>1. TaskInv(u) /\ pc[u] \notin Locked /\ JobShape(u)
      <4>1. pc[t] \in Locked
        BY <2>4 DEF Locked
      <4> QED BY <4>1, Alone DEF SafetyInv, Typed, Shape
    <3>2. pc[u] # "idle" => job[u].bom \in Boms
      BY <3>1 DEF JobShape
    <3>3. pc'[u] = pc[u] /\ job'[u] = job[u]
      BY <2>7
    <3>4. CreateInv(u)'
      BY <2>8, <2>9, <3>1, <3>2, <3>3 DEF TaskInv, CreateInv, CreatePending
    <3>5. ViewInv(u)'
      <4>1. HasView(u)' => HasView(u) /\ job[u].bom \in Boms
        BY <3>2, <3>3 DEF HasView
      <4>2. \A x : {e.edit : e \in commits'[x]} = CommittedEdits(x)
        BY <2>8 DEF CommittedEdits
      <4> QED BY <2>8, <2>9, <3>1, <3>3, <4>1, <4>2 DEF TaskInv, ViewInv, CommittedEdits
    <3>6. WriterInv(u)'
      BY <3>1, <3>3 DEF WriterInv, Locked
    <3> QED BY <3>4, <3>5, <3>6 DEF TaskInv
  <2>11. TaskInv(t)'
    <3>1. HasView(t)
      BY <2>4, <2>5 DEF HasView, Readers
    <3>2. ~CreatePending(t)'
      BY <2>7 DEF CreatePending
    <3>3. \A x : {e.edit : e \in commits'[x]} = CommittedEdits(x)
      BY <2>8 DEF CommittedEdits
    <3>4. ViewInv(t)'
      BY <1>0, <2>3, <2>5, <2>6, <2>7, <2>8, <3>1, <3>3 DEF ViewInv, CommittedEdits
    <3>5. WriterInv(t)'
      BY <2>3, <2>5, <2>6, <2>7, <2>8 DEF WriterInv
    <3> QED BY <3>2, <3>4, <3>5 DEF TaskInv, CreateInv
  <2>12. UploadAlone'
    BY <2>3, <2>4, <2>7, UploadAloneKept DEF SafetyInv
  <2>13. StoreInv'
    <3>1. ASSUME NEW x \in Boms PROVE CommitInv(x)'
      BY <2>8, <2>9 DEF SafetyInv, StoreInv, CommitInv
    <3> QED BY <3>1 DEF StoreInv
  <2>14. CommittedEditsKept' /\ OneCommitPerVersion'
    BY <2>8 DEF SafetyInv, CommittedEditsKept, OneCommitPerVersion, CommittedEdits
  <2> QED BY <2>10, <2>11, <2>12, <2>13, <2>14 DEF SafetyInv
<1> QED BY <1>1, <1>2

LEMMA DeletePrefixSafe ==
  ASSUME Typed, LockInv, OneProcess, SafetyInv, NEW t \in Tasks, DeletePrefix(t)
  PROVE  SafetyInv'
<1> USE NoneIsNoObject
<1> DEFINE b == job[t].bom
<1>1. pc[t] = "deletePrefix" /\ JobShape(t)
  BY DEF DeletePrefix, Typed, Shape
<1>2. b \in Boms /\ Erased(b) = {b}
  BY <1>1 DEF JobShape, OneProcess
<1>3. /\ metadata' = [x \in Boms |-> IF x = b THEN None ELSE metadata[x]]
      /\ analyze' = [x \in Boms |-> IF x = b THEN None ELSE analyze[x]]
      /\ commits' = [x \in Boms |-> IF x = b THEN {} ELSE commits[x]]
      /\ Leave({t}) /\ used' = used /\ nextId' = nextId
  BY <1>2 DEF DeletePrefix
<1>4. pc'[t] = "idle" /\ \A u \in Tasks \ {t} : pc'[u] = pc[u] /\ job'[u] = job[u]
  BY <1>3 DEF Leave
<1>5. ASSUME NEW u \in Tasks \ {t} PROVE TaskInv(u)'
  <2>1. TaskInv(u) /\ pc[u] \notin Locked /\ JobShape(u)
    <3>1. pc[t] \in Locked
      BY <1>1 DEF Locked
    <3> QED BY <3>1, Alone DEF SafetyInv, Typed, Shape
  <2>2. pc[u] # "idle" => job[u].bom \in Boms
    BY <2>1 DEF JobShape
  <2>3. CreateInv(u)'
    BY <1>3, <1>4, <2>1, <2>2 DEF TaskInv, CreateInv, CreatePending
  <2>4. ViewInv(u)'
    BY <1>3, <1>4, <2>1, <2>2 DEF TaskInv, ViewInv, HasView, CommittedEdits
  <2>5. WriterInv(u)'
    BY <1>4, <2>1 DEF WriterInv, Locked
  <2> QED BY <2>3, <2>4, <2>5 DEF TaskInv
<1>6. TaskInv(t)'
  BY <1>4 DEF TaskInv, CreateInv, ViewInv, WriterInv, CreatePending, HasView
<1>7. UploadAlone'
  BY <1>4, UploadAloneKept DEF SafetyInv
<1>8. StoreInv'
  <2>1. ASSUME NEW x \in Boms PROVE CommitInv(x)'
    BY <1>3 DEF SafetyInv, StoreInv, CommitInv
  <2> QED BY <2>1 DEF StoreInv
<1>9. CommittedEditsKept' /\ OneCommitPerVersion'
  BY <1>3 DEF SafetyInv, CommittedEditsKept, OneCommitPerVersion, CommittedEdits
<1> QED BY <1>5, <1>6, <1>7, <1>8, <1>9 DEF SafetyInv


LEMMA NextSafety ==
  ASSUME OneProcess
  PROVE  Typed /\ LockInv /\ SafetyInv /\ [Next]_vars => SafetyInv'
<1> SUFFICES ASSUME Typed, LockInv, SafetyInv, [Next]_vars PROVE SafetyInv'
  OBVIOUS
<1>1. CASE UNCHANGED vars
  <2>1. Quiet /\ Leave({})
    BY <1>1, ModeAssumption DEF vars, Quiet, Leave, Released, Typed, TypeOK
  <2> QED BY <2>1, LeaveSafe
<1>2. ASSUME NEW t \in Tasks, Arrive(t) PROVE SafetyInv'
  BY <1>2, ArriveSafe
<1>3. ASSUME NEW t \in Tasks, SendPut(t) \/ Acquire(t) \/ Step(t) \/ ReadIndexMisses(t)
      PROVE SafetyInv'
  BY <1>3, ReadSafe, LoadSafe, CheckSafe, PutAnalyzeSafe, PutMetaSafe, CasClaimSafe,
     DeletePrefixSafe DEF Step
<1>4. ASSUME NEW ts \in SUBSET Tasks, Leave(ts), UNCHANGED <<store, history>>
      PROVE SafetyInv'
  <2>1. Quiet
    BY <1>4, ModeAssumption DEF Quiet, store, history, Typed, TypeOK
  <2> QED BY <1>4, <2>1, LeaveSafe
<1>5. ASSUME NEW t \in Tasks, Abort(t) PROVE SafetyInv'
  BY <1>4, <1>5 DEF Abort
<1>6. ASSUME NEW i \in Instances, Crash(i) PROVE SafetyInv'
  <2>1. {t \in Tasks : InstanceOf[t] = i} \in SUBSET Tasks
    OBVIOUS
  <2> QED BY <1>4, <1>6, <2>1 DEF Crash
<1> QED BY <1>1, <1>2, <1>3, <1>5, <1>6 DEF Next

\* With one gateway process no committed change is ever lost: whatever reads,
\* refreshes, edits, dropped requests and crashes do, analyze.json contains
\* every upload and edit whose metadata.json was written.
THEOREM CommittedEditsAreKept ==
  ASSUME OneProcess
  PROVE  Spec => []CommittedEditsKept
<1>1. Init => Typed /\ LockInv /\ SafetyInv
  BY InitTyped, InitLock, InitSafety
<1>2. Typed /\ LockInv /\ SafetyInv /\ [Next]_vars => (Typed /\ LockInv /\ SafetyInv)'
  BY NextTyped, NextLock, NextSafety
<1>3. SafetyInv => CommittedEditsKept
  BY DEF SafetyInv
<1> QED BY <1>1, <1>2, <1>3, PTL DEF Spec

\* With one gateway process two edits never commit the same version of a BOM:
\* of the requests that carry one expected_version all but one conflict.
THEOREM VersionsAreUnique ==
  ASSUME OneProcess
  PROVE  Spec => []OneCommitPerVersion
<1>1. Init => Typed /\ LockInv /\ SafetyInv
  BY InitTyped, InitLock, InitSafety
<1>2. Typed /\ LockInv /\ SafetyInv /\ [Next]_vars => (Typed /\ LockInv /\ SafetyInv)'
  BY NextTyped, NextLock, NextSafety
<1>3. SafetyInv => OneCommitPerVersion
  BY DEF SafetyInv
<1> QED BY <1>1, <1>2, <1>3, PTL DEF Spec


----------------------------------------------------------------------------
(* The store implements the ledger *)

\* The value of a BOM in the ledger, in a state that keeps committed edits.
Entry(b) ==
  IF metadata[b] = None THEN None
  ELSE [version |-> metadata[b].version, edits |-> CommittedEdits(b)]

LEMMA LedgerEntries ==
  ASSUME CommittedEditsKept, NEW b \in Boms
  PROVE  (IF metadata[b] = None THEN None
          ELSE [version |-> metadata[b].version,
                edits |-> IF analyze[b] = None THEN {}
                          ELSE analyze[b].edits \cap CommittedEdits(b)]) = Entry(b)
<1>1. CASE commits[b] = {}
  <2>1. CommittedEdits(b) = {}
    BY <1>1 DEF CommittedEdits
  <2> QED BY <2>1 DEF Entry
<1>2. CASE commits[b] # {}
  BY <1>2 DEF CommittedEditsKept, Entry
<1> QED BY <1>1, <1>2

LEMMA SameEntries ==
  ASSUME NEW b \in Boms, commits'[b] = commits[b],
         metadata'[b] = None <=> metadata[b] = None,
         metadata[b] # None => metadata'[b].version = metadata[b].version
  PROVE  Entry(b)' = Entry(b)
  BY DEF Entry, CommittedEdits

\* Every other step than these two leaves every entry alone.
LEMMA QuietEntries ==
  ASSUME Typed, LockInv, SafetyInv, [Next]_vars,
         ~ \E t \in Tasks : PutMeta(t) \/ DeletePrefix(t),
         NEW b \in Boms
  PROVE  Entry(b)' = Entry(b)
<1> USE NoneIsNoObject
<1>1. ASSUME NEW t \in Tasks, CasClaim(t) PROVE Entry(b)' = Entry(b)
  <2>1. CASE Return(t)
    BY <2>1, SameEntries DEF Return, store, history
  <2>2. CASE ~Return(t)
    <3> DEFINE x == job[t].bom
               s == RefreshedSummary(job[t].etag, job[t].content.risk)
    <3>1. pc[t] = "casClaim" /\ metadata' = [metadata EXCEPT ![x] = s] /\ commits' = commits
      BY <1>1, <2>2 DEF CasClaim, history
    <3>2. JobShape(t) /\ WriterInv(t)
      BY DEF Typed, Shape, SafetyInv, TaskInv
    <3>3. x \in Boms /\ metadata[x] # None /\ job[t].etag = metadata[x]
            /\ metadata[x] \in Summary /\ job[t].content \in Content
      BY <3>1, <3>2 DEF JobShape, WriterInv, Readers, Typed, TypeOK, Listing
    <3>4. s \in Summary /\ s.version = metadata[x].version
      BY <3>3 DEF RefreshedSummary, Summary, Content
    <3> HIDE DEF s
    <3>5. metadata'[x] = s /\ \A y \in Boms \ {x} : metadata'[y] = metadata[y]
      BY <3>1, <3>3 DEF Typed, TypeOK, Listing
    <3> QED BY <3>1, <3>3, <3>4, <3>5, SameEntries
  <2> QED BY <2>1, <2>2
<1>2. ASSUME UNCHANGED <<metadata, commits>> PROVE Entry(b)' = Entry(b)
  BY <1>2, SameEntries
<1>3. ASSUME NEW t \in Tasks, PutAnalyze(t) PROVE Entry(b)' = Entry(b)
  <2>1. commits' = commits
    <3>1. CASE job[t].op = "create"
      <4>1. CreatePending(t) /\ CreateInv(t) /\ JobShape(t) /\ pc[t] = "putAnalyze"
        BY <1>3, <3>1 DEF PutAnalyze, Goto, CreatePending, SafetyInv, TaskInv, Typed, Shape
      <4>2. job[t].bom \in Boms /\ commits[job[t].bom] = {}
        BY <4>1 DEF CreateInv, JobShape
      <4>3. commits' = [commits EXCEPT ![job[t].bom] = {}] /\ commits \in [Boms -> SUBSET Commit]
        BY <1>3, <3>1 DEF PutAnalyze, Typed, TypeOK
      <4> QED BY <4>2, <4>3
    <3>2. CASE job[t].op # "create"
      BY <1>3, <3>2 DEF PutAnalyze
    <3> QED BY <3>1, <3>2
  <2> QED BY <1>2, <1>3, <2>1 DEF PutAnalyze
<1>4. CASE UNCHANGED vars
  BY <1>2, <1>4 DEF vars
<1>5. ASSUME NEW t \in Tasks, Arrive(t) \/ SendPut(t) \/ Acquire(t) \/ GetAnalyze(t)
                                \/ GetLeaves(t) \/ LoadMeta(t) \/ LoadAnalyze(t)
      PROVE Entry(b)' = Entry(b)
  BY <1>2, <1>5 DEF Arrive, Create, Delete, Edit, GetMeta, SendPut, Acquire, GetAnalyze,
                    GetLeaves, LoadMeta, LoadAnalyze, Return, store, history
<1>6. ASSUME NEW t \in Tasks, CasRead(t) \/ CasAnalyze(t) \/ ReadIndex(t) \/ ReadIndexMisses(t)
                                \/ WriteIndex(t) \/ WriteIndexDelete(t) \/ Abort(t)
      PROVE Entry(b)' = Entry(b)
  BY <1>2, <1>6 DEF CasRead, CasAnalyze, ReadIndex, ReadIndexMisses, WithIndex, WriteIndex,
                    WriteIndexDelete, Abort, Return, store, history
<1>7. ASSUME NEW i \in Instances, Crash(i) PROVE Entry(b)' = Entry(b)
  BY <1>2, <1>7 DEF Crash, store, history
<1> QED BY <1>1, <1>3, <1>4, <1>5, <1>6, <1>7 DEF Next, Step


UploadOrEdit(L, M) ==
  \E b \in Boms :
    \/ /\ L[b] = None
       /\ \E e \in Ids : M = [L EXCEPT ![b] = [version |-> 1, edits |-> {e}]]
    \/ /\ L[b] # None
       /\ \E e \in Ids \ L[b].edits :
            M = [L EXCEPT ![b] = [version |-> @.version + 1, edits |-> @.edits \cup {e}]]

\* A commit is an upload or an edit of the ledger.
LEMMA CommitStep ==
  ASSUME Typed, SafetyInv, NEW t \in Tasks, PutMeta(t),
         NEW L, L = [x \in Boms |-> Entry(x)], NEW M, M = [x \in Boms |-> Entry(x)']
  PROVE  UploadOrEdit(L, M)
<1> USE NoneIsNoObject, ModeAssumption
<1> DEFINE b == job[t].bom
           s == job[t].summary
           e == job[t].edit
           c == [edit |-> e, version |-> s.version]
<1>1. pc[t] = "putMeta" /\ JobShape(t) /\ WriterInv(t) /\ CreateInv(t)
  BY DEF PutMeta, Goto, Typed, Shape, SafetyInv, TaskInv
<1>2. b \in Boms /\ s \in Summary /\ s # None /\ e \in Ids /\ job[t].op \in Writers
        /\ e \notin CommittedEdits(b)
  BY <1>1 DEF JobShape, WriterInv
<1>3. /\ metadata' = [metadata EXCEPT ![b] = s] /\ metadata \in [Boms -> Summary \cup {None}]
      /\ commits' = [commits EXCEPT ![b] = @ \cup {c}]
      /\ commits \in [Boms -> SUBSET Commit]
  BY DEF PutMeta, Typed, TypeOK, Listing
<1>0. c.edit = e
  OBVIOUS
<1> HIDE DEF c, s, e, b
<1>4. /\ metadata'[b] = s /\ \A x \in Boms \ {b} : metadata'[x] = metadata[x]
      /\ commits'[b] = commits[b] \cup {c}
      /\ \A x \in Boms \ {b} : commits'[x] = commits[x]
  BY <1>2, <1>3
<1>5. \A x \in Boms \ {b} : M[x] = L[x]
  BY <1>4 DEF Entry, CommittedEdits
<1>6. ASSUME NEW x \in Boms, x = b
      PROVE  M[x] = [version |-> s.version, edits |-> CommittedEdits(b) \cup {e}]
  <2>1. {y.edit : y \in commits'[x]} = CommittedEdits(b) \cup {e}
    BY <1>0, <1>4, <1>6 DEF CommittedEdits
  <2> QED BY <1>2, <1>4, <1>6, <2>1 DEF Entry, CommittedEdits
<1>7. M = [L EXCEPT ![b] = [version |-> s.version, edits |-> CommittedEdits(b) \cup {e}]]
  BY <1>2, <1>5, <1>6
<1>8. L[b] = Entry(b)
  BY <1>2
<1>9. CASE job[t].op = "create"
  <2>1. metadata[b] = None /\ commits[b] = {} /\ s.version = 1
    BY <1>1, <1>9 DEF CreateInv, CreatePending, b, s
  <2>2. L[b] = None /\ CommittedEdits(b) \cup {e} = {e}
    BY <1>8, <2>1 DEF Entry, CommittedEdits
  <2>3. M = [L EXCEPT ![b] = [version |-> 1, edits |-> {e}]]
    BY <1>7, <2>1, <2>2
  <2>4. \E x \in Ids : M = [L EXCEPT ![b] = [version |-> 1, edits |-> {x}]]
    BY <1>2, <2>3
  <2> QED BY <1>2, <2>2, <2>4 DEF UploadOrEdit
<1>10. CASE job[t].op \in Edits
  <2>1. metadata[b] # None /\ s.version = metadata[b].version + 1
    BY <1>1, <1>10 DEF WriterInv, b, s
  <2>2. L[b] = [version |-> metadata[b].version, edits |-> CommittedEdits(b)]
    BY <1>8, <2>1 DEF Entry
  <2>3. L[b] # None
    <3>1. metadata[b].version \in Nat
      BY <1>2, <1>3, <2>1 DEF Summary
    <3>2. CommittedEdits(b) \subseteq Ids
      BY <1>2, <1>3 DEF CommittedEdits, Commit
    <3>3. L[b] \in LedgerEntry
      BY <2>2, <3>1, <3>2 DEF LedgerEntry
    <3> QED BY <3>3
  <2>4. L[b].version + 1 = s.version /\ L[b].edits = CommittedEdits(b)
    BY <2>1, <2>2
  <2>5. M = [L EXCEPT ![b] = [version |-> L[b].version + 1, edits |-> L[b].edits \cup {e}]]
    BY <1>7, <2>4
  <2>6. e \in Ids \ L[b].edits
    BY <1>2, <2>4
  <2>7. \E x \in Ids \ L[b].edits :
          M = [L EXCEPT ![b] = [version |-> L[b].version + 1, edits |-> L[b].edits \cup {x}]]
    BY <2>5, <2>6
  <2> QED BY <1>2, <2>3, <2>7 DEF UploadOrEdit
<1> QED BY <1>2, <1>9, <1>10 DEF Writers


\* A deletion is one of the ledger, or finds nothing.
LEMMA DeleteStep ==
  ASSUME Typed, OneProcess, NEW t \in Tasks, DeletePrefix(t),
         NEW L, L = [x \in Boms |-> Entry(x)], NEW M, M = [x \in Boms |-> Entry(x)']
  PROVE  M = L \/ \E b \in Boms : L[b] # None /\ M = [L EXCEPT ![b] = None]
<1> DEFINE b == job[t].bom
<1>1. b \in Boms /\ Erased(b) = {b}
  BY DEF DeletePrefix, Typed, Shape, JobShape, OneProcess
<1>2. /\ metadata' = [x \in Boms |-> IF x = b THEN None ELSE metadata[x]]
      /\ commits' = [x \in Boms |-> IF x = b THEN {} ELSE commits[x]]
  BY <1>1 DEF DeletePrefix
<1> HIDE DEF b
<1>3. \A x \in Boms \ {b} : M[x] = L[x]
  BY <1>2 DEF Entry, CommittedEdits
<1>4. M[b] = None
  <2>1. ASSUME NEW x \in Boms, x = b PROVE M[x] = None
    BY <1>2, <2>1 DEF Entry
  <2> QED BY <1>1, <2>1
<1>5. M = [L EXCEPT ![b] = None]
  BY <1>1, <1>3, <1>4
<1>6. L[b] = None => M = L
  BY <1>1, <1>5
<1> QED BY <1>1, <1>5, <1>6

LEMMA LedgerStep ==
  ASSUME OneProcess, Typed, LockInv, SafetyInv, CommittedEditsKept', [Next]_vars
  PROVE  [Ledger!Next]_ledgerOf
<1> DEFINE L == [x \in Boms |-> Entry(x)]
           M == [x \in Boms |-> Entry(x)']
<1>1. ledgerOf = L
  BY LedgerEntries DEF SafetyInv, ledgerOf
<1>2. ledgerOf' = M
  <2>1. ASSUME NEW b \in Boms
        PROVE  (IF metadata'[b] = None THEN None
                ELSE [version |-> metadata'[b].version,
                      edits |-> IF analyze'[b] = None THEN {}
                                ELSE analyze'[b].edits \cap CommittedEdits(b)']) = Entry(b)'
    <3>1. commits'[b] # {} => /\ analyze'[b] # None
                             /\ {c.edit : c \in commits'[b]} \subseteq analyze'[b].edits
      BY DEF CommittedEditsKept, CommittedEdits
    <3>2. CASE commits'[b] = {}
      <4>1. {c.edit : c \in commits'[b]} = {}
        BY <3>2
      <4> QED BY <4>1 DEF Entry, CommittedEdits
    <3>3. CASE commits'[b] # {}
      BY <3>1, <3>3 DEF Entry, CommittedEdits
    <3> QED BY <3>2, <3>3
  <2> QED BY <2>1 DEF ledgerOf
<1>3. CASE ~ \E t \in Tasks : PutMeta(t) \/ DeletePrefix(t)
  <2>1. \A b \in Boms : Entry(b)' = Entry(b)
    BY <1>3, QuietEntries
  <2> QED BY <1>1, <1>2, <2>1
<1>4. ASSUME NEW t \in Tasks, PutMeta(t) PROVE Ledger!Next
  <2>1. L = [x \in Boms |-> Entry(x)] /\ M = [x \in Boms |-> Entry(x)']
    OBVIOUS
  <2> HIDE DEF L, M
  <2>2. UploadOrEdit(L, M)
    BY <1>4, <2>1, CommitStep
  <2> QED BY <1>1, <1>2, <2>2 DEF UploadOrEdit, Ledger!Next, Ledger!Upload, Ledger!Edit
<1>5. ASSUME NEW t \in Tasks, DeletePrefix(t) PROVE [Ledger!Next]_ledgerOf
  BY <1>1, <1>2, <1>5, DeleteStep DEF Ledger!Next, Ledger!Delete
<1> QED BY <1>3, <1>4, <1>5


LEMMA InitLedger == Init => Ledger!Init
  BY DEF Init, Ledger!Init, ledgerOf

\* With one gateway process the store implements BomLedger: a client that only
\* sees versions and committed edits cannot tell the three objects, the lock,
\* the refreshes and the failures from one atomic versioned value.
THEOREM StoreRefinesLedger ==
  ASSUME OneProcess
  PROVE  Spec => RefinesLedger
<1> DEFINE Inv == Typed /\ LockInv /\ SafetyInv
<1>1. Init => Inv
  BY InitTyped, InitLock, InitSafety
<1>2. Inv /\ [Next]_vars => Inv'
  BY NextTyped, NextLock, NextSafety
<1>3. Inv /\ Inv' /\ [Next]_vars => [Ledger!Next]_ledgerOf
  BY LedgerStep DEF SafetyInv
<1> QED BY <1>1, <1>2, <1>3, InitLedger, PTL DEF Spec, RefinesLedger, Ledger!Spec


----------------------------------------------------------------------------
(* Any number of gateway processes over an object store *)

\* Only the two writes of a refresh take a task from casClaim to casAnalyze,
\* and from there to readIndex.
LEMMA OnlyCasWrites ==
  ASSUME Typed, [Next]_vars, NEW t \in Tasks,
         pc[t] \in {"casClaim", "casAnalyze"}, pc'[t] \notin {pc[t], "idle"}
  PROVE  CasClaim(t) \/ CasAnalyze(t)
<1> USE DEF Goto
<1>1. ASSUME NEW u \in Tasks, NEW p, NEW q, Goto(u, p, q), p \notin {"casClaim", "casAnalyze"} PROVE FALSE
  BY <1>1 DEF Typed, TypeOK
<1>2. ASSUME NEW ts \in SUBSET Tasks, Leave(ts) PROVE FALSE
  BY <1>2 DEF Leave
<1>3. ASSUME NEW u \in Tasks, Arrive(u) \/ SendPut(u) PROVE FALSE
  BY <1>1, <1>3 DEF Arrive, Create, Delete, Edit, GetMeta, SendPut
<1>4. ASSUME NEW u \in Tasks, Acquire(u) \/ GetAnalyze(u) \/ GetLeaves(u) PROVE FALSE
  BY <1>1, <1>2, <1>4 DEF Acquire, GetAnalyze, GetLeaves, Return
<1>5. ASSUME NEW u \in Tasks,
             LoadMeta(u) \/ LoadAnalyze(u) \/ PutAnalyze(u) \/ PutMeta(u) PROVE FALSE
  BY <1>1, <1>2, <1>5 DEF LoadMeta, LoadAnalyze, PutAnalyze, PutMeta, Return
<1>6. ASSUME NEW u \in Tasks, CasRead(u) PROVE FALSE
  BY <1>1, <1>2, <1>6 DEF CasRead, Return
<1>7. ASSUME NEW u \in Tasks, ReadIndex(u) \/ ReadIndexMisses(u) \/ WriteIndex(u)
                                 \/ WriteIndexDelete(u) \/ DeletePrefix(u)
      PROVE FALSE
  BY <1>1, <1>2, <1>7 DEF ReadIndex, ReadIndexMisses, WithIndex, WriteIndex,
                          WriteIndexDelete, DeletePrefix
<1>8. ASSUME NEW u \in Tasks, Abort(u) PROVE FALSE
  BY <1>2, <1>8 DEF Abort
<1>9. ASSUME NEW i \in Instances, Crash(i) PROVE FALSE
  <2>1. {u \in Tasks : InstanceOf[u] = i} \in SUBSET Tasks
    OBVIOUS
  <2> QED BY <1>2, <1>9, <2>1 DEF Crash
<1>10. ASSUME NEW u \in Tasks, CasClaim(u) \/ CasAnalyze(u) PROVE CasClaim(t) \/ CasAnalyze(t)
  <2>1. CASE u = t
    BY <1>10, <2>1
  <2>2. CASE u # t
    <3>1. pc'[t] = pc[t]
      BY <1>10, <2>2 DEF CasClaim, CasAnalyze, Return, Leave, Typed, TypeOK
    <3> QED BY <3>1
  <2> QED BY <2>1, <2>2
<1>11. ~ UNCHANGED vars
  BY DEF vars
<1> QED BY <1>3, <1>4, <1>5, <1>6, <1>7, <1>8, <1>9, <1>10, <1>11 DEF Next, Step

\* The conditional put protects the version and identity of a BOM from every
\* refresh of every gateway process, whatever the other processes write.
THEOREM RefreshesKeepVersions ==
  ASSUME Mode = "S3"
  PROVE  Spec => RefreshKeepsVersion
<1> DEFINE Kept(t) == LET b == job[t].bom IN
             pc[t] = "casClaim" /\ pc'[t] = "casAnalyze" =>
               /\ metadata[b] # None
               /\ metadata'[b].version = metadata[b].version
               /\ metadata'[b].born = metadata[b].born
<1>1. ASSUME Typed, [Next]_vars, NEW t \in Tasks PROVE Kept(t)
  <2> SUFFICES ASSUME pc[t] = "casClaim", pc'[t] = "casAnalyze" PROVE Kept(t)
    OBVIOUS
  <2> DEFINE b == job[t].bom
             s == RefreshedSummary(job[t].etag, job[t].content.risk)
  <2>1. CasClaim(t) /\ JobShape(t)
    BY <1>1, OnlyCasWrites DEF Typed, Shape, CasAnalyze, Goto
  <2>2. b \in Boms /\ job[t].etag \in Summary
    BY <2>1 DEF JobShape
  <2>3. ~Return(t)
    BY DEF Return, Leave
  <2>4. metadata' = [metadata EXCEPT ![b] = s] /\ metadata[b] = job[t].etag
    BY <2>1, <2>3 DEF CasClaim, IfMatch
  <2>5. metadata'[b] = s
    BY <1>1, <2>2, <2>4 DEF Typed, TypeOK, Listing
  <2>6. s.version = job[t].etag.version /\ s.born = job[t].etag.born
    BY <2>2 DEF RefreshedSummary, Summary
  <2> QED BY <2>2, <2>4, <2>5, <2>6, NoneIsNoObject
<1>2. Typed /\ [Next]_vars => [\A t \in Tasks : Kept(t)]_vars
  BY <1>1
<1> QED BY <1>2, InitTyped, NextTyped, PTL DEF Spec, RefreshKeepsVersion

----------------------------------------------------------------------------
(* One gateway process without faults: the list *)

\* A summary, the lines and the list entry of one BOM.
Match(s, c, i) ==
  IF i = None THEN s = None /\ c = None
  ELSE s = i /\ c # None /\ c.risk = i.risk

Agree(b) == Match(metadata[b], analyze[b], index[b])

\* A task that has written one object of its BOM and not yet the last.
Writing(t) ==
  \/ pc[t] \in {"putMeta", "casAnalyze", "deletePrefix"}
  \/ pc[t] \in {"readIndex", "writeIndex"} /\ job[t].op # "delete"

\* What the objects and the locals of a task say half-way.
HalfDone(t) == LET b == job[t].bom  s == job[t].summary IN
  /\ CreatePending(t) \/ pc[t] \in {"putAnalyze", "putMeta", "casAnalyze"} =>
       job[t].content.risk = s.risk
  /\ pc[t] = "casAnalyze" => metadata[b] = s /\ index[b] # None
  /\ pc[t] \in {"readIndex", "writeIndex"} /\ job[t].op # "delete" =>
       /\ metadata[b] = s /\ analyze[b] # None /\ analyze[b].risk = s.risk
       /\ job[t].op \in Refreshes => index[b] # None
  /\ pc[t] = "writeIndex" => job[t].listing = index
  /\ pc[t] = "deletePrefix" => index[b] = None

\* List, detail and scores of a BOM agree unless somebody is half-way with it.
Listed ==
  /\ \A b \in Boms : Agree(b) \/ \E t \in Tasks : Writing(t) /\ job[t].bom = b
  /\ \A t \in Tasks : HalfDone(t)

ListInv == faults = 0 => Listed

LEMMA InitList == Init => ListInv
  BY DEF Init, ListInv, Listed, Agree, Match, HalfDone, CreatePending

LEMMA WritersAreLocked == ASSUME NEW t \in Tasks, Writing(t) PROVE pc[t] \in Locked
  BY DEF Writing, Locked

\* A task without the lock, or one that goes on without a write.
LEMMA QuietList ==
  ASSUME Listed, NEW t \in Tasks, UNCHANGED store,
         \A u \in Tasks \ {t} : pc'[u] = pc[u] /\ job'[u] = job[u],
         Writing(t) => Writing(t)' /\ job'[t].bom = job[t].bom, HalfDone(t)'
  PROVE  Listed'
<1>1. UNCHANGED <<metadata, analyze, index>>
  BY DEF store
<1>2. ASSUME NEW b \in Boms PROVE (Agree(b) \/ \E u \in Tasks : Writing(u) /\ job[u].bom = b)'
  <2>1. CASE Agree(b)
    BY <1>1, <2>1 DEF Agree
  <2>2. ASSUME NEW u \in Tasks, Writing(u), job[u].bom = b PROVE Writing(u)' /\ job'[u].bom = b
    BY <2>2 DEF Writing
  <2> QED BY <2>1, <2>2 DEF Listed
<1>3. ASSUME NEW u \in Tasks \ {t} PROVE HalfDone(u)'
  BY <1>1 DEF Listed, HalfDone, CreatePending
<1> QED BY <1>2, <1>3 DEF Listed

\* The task that has the lock does something to its BOM.
LEMMA LockedList ==
  ASSUME Typed, LockInv, OneProcess, Listed, NEW t \in Tasks, pc[t] \in Locked,
         \A u \in Tasks \ {t} : pc'[u] = pc[u] /\ job'[u] = job[u],
         \A b \in Boms \ {job[t].bom} :
           metadata'[b] = metadata[b] /\ analyze'[b] = analyze[b] /\ index'[b] = index[b],
         HalfDone(t)',
         \/ Match(metadata'[job[t].bom], analyze'[job[t].bom], index'[job[t].bom])
         \/ Writing(t)' /\ job'[t].bom = job[t].bom
  PROVE  Listed'
<1>1. ASSUME NEW b \in Boms PROVE (Agree(b) \/ \E u \in Tasks : Writing(u) /\ job[u].bom = b)'
  <2>1. CASE b = job[t].bom
    BY <2>1 DEF Agree, Writing
  <2>2. CASE b # job[t].bom
    <3>1. ~ \E u \in Tasks : Writing(u) /\ job[u].bom = b
      BY <2>2, Alone, WritersAreLocked
    <3> QED BY <2>2, <3>1 DEF Listed, Agree
  <2> QED BY <2>1, <2>2
<1>2. ASSUME NEW u \in Tasks \ {t} PROVE HalfDone(u)'
  <2>1. pc[u] \notin Locked
    BY Alone
  <2> QED BY <2>1 DEF Listed, HalfDone, CreatePending, Locked
<1> QED BY <1>1, <1>2 DEF Listed

\* A task that ends before it has written anything.
LEMMA ReturnList ==
  ASSUME Typed, Listed, NEW t \in Tasks, Leave({t}), UNCHANGED store, ~Writing(t)
  PROVE  Listed'
<1>1. pc'[t] = "idle" /\ \A u \in Tasks \ {t} : pc'[u] = pc[u] /\ job'[u] = job[u]
  BY DEF Leave
<1>2. HalfDone(t)'
  BY <1>1 DEF HalfDone, CreatePending
<1> QED BY <1>1, <1>2, QuietList

\* The BOM whose task is not half-way agrees.
LEMMA AgreesBefore ==
  ASSUME Typed, LockInv, OneProcess, Listed, NEW t \in Tasks, pc[t] \in Locked, ~Writing(t),
         job[t].bom \in Boms
  PROVE  Agree(job[t].bom)
  BY Alone, WritersAreLocked DEF Listed

\* Steps before the lock is taken.
LEMMA ArriveList ==
  ASSUME Typed, Listed, NEW t \in Tasks,
         Arrive(t) \/ SendPut(t) \/ Acquire(t) \/ GetAnalyze(t) \/ GetLeaves(t)
  PROVE  Listed'
<1>0. JobShape(t) /\ HalfDone(t) /\ job[t] \in Job
  BY DEF Typed, TypeOK, Shape, Listed
<1>1. ASSUME NEW b \in Boms, Create(t, b) PROVE Listed'
  <2>1. PICK r \in Risks : job' = [job EXCEPT ![t] = Request("create", b, 0, nextId,
                 [edits |-> {nextId}, risk |-> r],
                 [version |-> 1, born |-> nextId, risk |-> r])]
    BY <1>1 DEF Create
  <2> DEFINE j == Request("create", b, 0, nextId, [edits |-> {nextId}, risk |-> r],
                          [version |-> 1, born |-> nextId, risk |-> r])
  <2>2. j.content.risk = j.summary.risk
    BY DEF Request
  <2>3. Goto(t, "idle", "waitLock") /\ job' = [job EXCEPT ![t] = j] /\ UNCHANGED store
    BY <1>1, <2>1 DEF Create
  <2> HIDE DEF j
  <2>4. /\ pc[t] = "idle" /\ pc'[t] = "waitLock" /\ job'[t] = j
        /\ \A u \in Tasks \ {t} : pc'[u] = pc[u] /\ job'[u] = job[u]
    BY <2>3, GotoEffect
  <2> QED BY <2>2, <2>3, <2>4, QuietList DEF HalfDone, Writing
<1>2. ASSUME NEW o \in Ops \ {"create"}, NEW j, j.op = o,
             NEW p \in {"idle", "getAnalyze"}, NEW q \in {"waitLock", "getAnalyze", "thinking"},
             Goto(t, p, q), job' = [job EXCEPT ![t] = j], UNCHANGED store
      PROVE Listed'
  <2>1. /\ pc[t] = p /\ pc'[t] = q /\ job'[t] = j
        /\ \A u \in Tasks \ {t} : pc'[u] = pc[u] /\ job'[u] = job[u]
    BY <1>2, GotoEffect
  <2> QED BY <1>2, <2>1, QuietList DEF HalfDone, Writing, CreatePending
<1>3. ASSUME NEW b \in Boms, NEW o \in Ops \ {"create"}, NEW v, NEW q \in {"waitLock", "getAnalyze"},
             Goto(t, "idle", q), job' = [job EXCEPT ![t] = Request(o, b, v, 0, None, None)],
             UNCHANGED store
      PROVE Listed'
  <2> DEFINE j == Request(o, b, v, 0, None, None)
  <2>1. j.op = o
    BY DEF Request
  <2> HIDE DEF j
  <2> QED BY <1>2, <1>3, <2>1 DEF j
<1>4. CASE Arrive(t)
  <2>1. ASSUME NEW b \in Boms, NEW o \in {"daily", "put", "overlay"}, GetMeta(t, o, b) PROVE Listed'
    BY <1>3, <2>1 DEF GetMeta, Ops, Edits, Refreshes
  <2>2. ASSUME NEW b \in Boms, Delete(t, b) \/ \E v \in Ids : Edit(t, b, v) PROVE Listed'
    BY <1>3, <2>2 DEF Delete, Edit, Ops, Edits, Refreshes
  <2> QED BY <1>1, <1>4, <2>1, <2>2 DEF Arrive
<1>5. CASE SendPut(t) \/ Acquire(t)
  <2>1. PICK p, q : /\ Goto(t, p, q) /\ job' = job /\ UNCHANGED store
                    /\ \/ p = "thinking" /\ q = "waitLock"
                       \/ p = "waitLock" /\ q = FirstLocked(job[t].op)
    BY <1>5 DEF SendPut, Acquire
  <2>2. /\ pc[t] = p /\ pc'[t] = q /\ job'[t] = job[t]
        /\ \A u \in Tasks \ {t} : pc'[u] = pc[u] /\ job'[u] = job[u]
    BY <2>1, StayEffect
  <2>3. job[t].op \in Ops /\ (p = "thinking" => job[t].op = "put")
    BY <1>0, <2>1, <2>2 DEF JobShape
  <2>4. ~Writing(t)
    BY <2>1, <2>2 DEF Writing
  <2>5. CASE p = "thinking"
    BY <2>1, <2>2, <2>3, <2>4, <2>5, QuietList DEF HalfDone, CreatePending
  <2>6. CASE p = "waitLock"
    <3>1. \/ job[t].op = "create" /\ q = "putAnalyze"
          \/ job[t].op = "delete" /\ q = "readIndex"
          \/ job[t].op # "create" /\ q \in {"loadMeta", "casRead"}
      BY <2>1, <2>3, <2>6 DEF FirstLocked, Ops, Edits, Refreshes
    <3>2. HalfDone(t)'
      BY <1>0, <2>2, <2>6, <3>1 DEF HalfDone, CreatePending
    <3> QED BY <2>1, <2>2, <2>4, <3>2, QuietList
  <2> QED BY <2>1, <2>5, <2>6
<1>6. CASE GetAnalyze(t)
  <2>1. PICK r \in Risks : job' = [job EXCEPT ![t].content = [analyze[job[t].bom] EXCEPT !.risk = r]]
    BY <1>6 DEF GetAnalyze
  <2> DEFINE j == [job[t] EXCEPT !.content = [analyze[job[t].bom] EXCEPT !.risk = r]]
             q == IF job[t].op = "put" THEN "thinking" ELSE "waitLock"
  <2>2. j.op = job[t].op /\ job' = [job EXCEPT ![t] = j]
    BY <1>0, <2>1 DEF Job, Typed, TypeOK
  <2>3. job[t].op \in Ops \ {"create"} /\ Goto(t, "getAnalyze", q) /\ UNCHANGED store
    BY <1>0, <1>6 DEF GetAnalyze, JobShape, Goto, Readers, Refreshes, Ops, Edits
  <2> HIDE DEF j
  <2> QED BY <1>2, <2>2, <2>3
<1>7. CASE GetLeaves(t)
  BY <1>7, ReturnList DEF GetLeaves, Return, Writing
<1> QED BY <1>4, <1>5, <1>6, <1>7

\* The reads under the lock, and a refresh that claims its BOM.
LEMMA ReadList ==
  ASSUME Typed, LockInv, OneProcess, SafetyInv, Listed, NEW t \in Tasks,
         LoadMeta(t) \/ LoadAnalyze(t) \/ CasRead(t) \/ CasClaim(t) \/ ReadIndex(t)
  PROVE  Listed'
<1> USE NoneIsNoObject
<1> DEFINE k == job[t]
           b == k.bom
<1>0. JobShape(t) /\ HalfDone(t) /\ WriterInv(t) /\ k \in Job
  BY DEF Typed, TypeOK, Shape, Listed, SafetyInv, TaskInv
<1>1. pc[t] \in {"loadMeta", "loadAnalyze", "casRead", "casClaim", "readIndex"}
  BY DEF LoadMeta, LoadAnalyze, CasRead, CasClaim, ReadIndex, WithIndex
<1>2. CASE Leave({t})
  <2>1. UNCHANGED store
    <3>1. pc'[t] = "idle"
      BY <1>2 DEF Leave
    <3>2. ~Goto(t, "casClaim", "casAnalyze")
      BY <3>1 DEF Goto, Typed, TypeOK
    <3> QED BY <3>2 DEF LoadMeta, LoadAnalyze, CasRead, CasClaim, ReadIndex, WithIndex, Return, store
  <2>2. CASE ~Writing(t)
    BY <1>2, <2>1, <2>2, ReturnList
  <2>3. CASE Writing(t)
    <3>1. ReadIndex(t) /\ k.op # "delete"
      BY <1>1, <2>3 DEF Writing, LoadMeta, LoadAnalyze, CasRead, CasClaim, Goto
    <3>2. pc'[t] = "idle" /\ Goto(t, "readIndex", "writeIndex")
      BY <1>2, <3>1 DEF Leave, ReadIndex, WithIndex
    <3> QED BY <3>2 DEF Goto, Typed, TypeOK
  <2> QED BY <2>2, <2>3
<1>3. CASE ~Leave({t}) /\ LoadMeta(t)
  <2> DEFINE j == [k EXCEPT !.summary = metadata[b]]
  <2>1. j.op = k.op /\ j.bom = b /\ job' = [job EXCEPT ![t] = j]
        /\ Goto(t, "loadMeta", "loadAnalyze") /\ UNCHANGED store
    BY <1>0, <1>3 DEF LoadMeta, Return, Job
  <2> HIDE DEF j
  <2>2. /\ pc[t] = "loadMeta" /\ pc'[t] = "loadAnalyze" /\ job'[t] = j
        /\ \A u \in Tasks \ {t} : pc'[u] = pc[u] /\ job'[u] = job[u]
    BY <2>1, GotoEffect
  <2> QED BY <2>1, <2>2, QuietList DEF HalfDone, Writing, CreatePending
<1>4. CASE ~Leave({t}) /\ LoadAnalyze(t)
  <2>1. PICK r \in Risks : job' = [job EXCEPT ![t] = Request(k.op, b, k.expected,
                       nextId, [edits |-> EditedLines(t, analyze[b]), risk |-> r],
                       BumpSummary(k.summary, r))]
    BY <1>4 DEF LoadAnalyze, Return
  <2> DEFINE j == Request(k.op, b, k.expected, nextId,
                    [edits |-> EditedLines(t, analyze[b]), risk |-> r], BumpSummary(k.summary, r))
  <2>2. j.op = k.op /\ j.bom = b /\ j.content.risk = r /\ j.summary.risk = r
    BY DEF Request, BumpSummary
  <2>3. job' = [job EXCEPT ![t] = j] /\ Goto(t, "loadAnalyze", "putAnalyze") /\ UNCHANGED store
    BY <1>4, <2>1 DEF LoadAnalyze, Return
  <2> HIDE DEF j
  <2>4. /\ pc[t] = "loadAnalyze" /\ pc'[t] = "putAnalyze" /\ job'[t] = j
        /\ \A u \in Tasks \ {t} : pc'[u] = pc[u] /\ job'[u] = job[u]
    BY <2>3, GotoEffect
  <2> QED BY <2>2, <2>3, <2>4, QuietList DEF HalfDone, Writing
<1>5. CASE ~Leave({t}) /\ CasRead(t)
  <2> DEFINE j == [k EXCEPT !.etag = metadata[b]]
  <2>1. j.op = k.op /\ j.bom = b /\ job' = [job EXCEPT ![t] = j]
        /\ Goto(t, "casRead", "casClaim") /\ UNCHANGED store
    BY <1>0, <1>5 DEF CasRead, Return, Job
  <2> HIDE DEF j
  <2>2. /\ pc[t] = "casRead" /\ pc'[t] = "casClaim" /\ job'[t] = j
        /\ \A u \in Tasks \ {t} : pc'[u] = pc[u] /\ job'[u] = job[u]
    BY <2>1, GotoEffect
  <2> QED BY <2>1, <2>2, QuietList DEF HalfDone, Writing, CreatePending
<1>6. CASE ~Leave({t}) /\ CasClaim(t)
  <2> DEFINE s == RefreshedSummary(k.etag, k.content.risk)
             j == [k EXCEPT !.summary = s]
  <2>1. /\ j.op = k.op /\ j.bom = b /\ j.content = k.content /\ j.summary = s
        /\ job' = [job EXCEPT ![t] = j] /\ Goto(t, "casClaim", "casAnalyze")
        /\ metadata' = [metadata EXCEPT ![b] = s] /\ UNCHANGED <<analyze, index>>
    BY <1>0, <1>6 DEF CasClaim, Return, Job
  <2>2. pc[t] = "casClaim" /\ b \in Boms /\ k.op \in Refreshes /\ k.etag \in Summary /\ k.content \in Content
    BY <1>0, <1>6 DEF CasClaim, JobShape, Readers
  <2>3. s.risk = k.content.risk
    BY <2>2 DEF RefreshedSummary, Summary
  <2>4. index[b] # None
    <3>1. Agree(b)
      BY <2>2, AgreesBefore DEF Locked, Writing
    <3> QED BY <1>0, <2>2, <3>1 DEF Agree, Match, WriterInv
  <2> HIDE DEF s
  <2> HIDE DEF j
  <2>5. /\ pc'[t] = "casAnalyze" /\ job'[t] = j
        /\ \A u \in Tasks \ {t} : pc'[u] = pc[u] /\ job'[u] = job[u]
    <3>1. Goto(t, "casClaim", "casAnalyze") /\ job' = [job EXCEPT ![t] = j]
      BY <2>1
    <3> QED BY <3>1, GotoEffect
  <2>6. metadata'[b] = s /\ \A x \in Boms \ {b} : metadata'[x] = metadata[x]
    BY <2>1, <2>2 DEF Typed, TypeOK, Listing
  <2>7. HalfDone(t)'
    BY <2>1, <2>2, <2>3, <2>4, <2>5, <2>6 DEF HalfDone, CreatePending
  <2> QED BY <2>1, <2>2, <2>5, <2>6, <2>7, LockedList DEF Locked, Writing
<1>7. CASE ~Leave({t}) /\ ReadIndex(t)
  <2> DEFINE j == [k EXCEPT !.listing = index]
  <2>1. /\ j.op = k.op /\ j.bom = b /\ j.summary = k.summary /\ j.listing = index
        /\ job' = [job EXCEPT ![t] = j]
        /\ Goto(t, "readIndex", "writeIndex") /\ UNCHANGED store
    BY <1>0, <1>7 DEF ReadIndex, WithIndex, Job
  <2> HIDE DEF j
  <2>2. /\ pc[t] = "readIndex" /\ pc'[t] = "writeIndex" /\ job'[t] = j
        /\ \A u \in Tasks \ {t} : pc'[u] = pc[u] /\ job'[u] = job[u]
    BY <2>1, GotoEffect
  <2>3. HalfDone(t)'
    BY <1>0, <2>1, <2>2 DEF HalfDone, CreatePending, store
  <2> QED BY <2>1, <2>2, <2>3, QuietList DEF Writing
<1> QED BY <1>2, <1>3, <1>4, <1>5, <1>6, <1>7

\* The writes of a mutation, one object after the other.
LEMMA WriteList ==
  ASSUME Typed, LockInv, OneProcess, SafetyInv, Listed, NEW t \in Tasks,
         PutAnalyze(t) \/ PutMeta(t) \/ CasAnalyze(t)
  PROVE  Listed'
<1> USE NoneIsNoObject
<1> DEFINE k == job[t]
           b == k.bom
<1>0. JobShape(t) /\ HalfDone(t) /\ WriterInv(t) /\ k \in Job
  BY DEF Typed, TypeOK, Shape, Listed, SafetyInv, TaskInv
<1>1. PICK q \in {"putMeta", "readIndex"} :
        Goto(t, pc[t], q) /\ pc[t] \in {"putAnalyze", "putMeta", "casAnalyze"}
        /\ job' = job /\ (q = "putMeta" <=> pc[t] = "putAnalyze")
  BY DEF PutAnalyze, PutMeta, CasAnalyze, Goto
<1>2. /\ pc'[t] = q /\ job'[t] = k
      /\ \A u \in Tasks \ {t} : pc'[u] = pc[u] /\ job'[u] = job[u]
  BY <1>1, StayEffect
<1>3. b \in Boms /\ k.op \in Ops \ {"delete"} /\ k.content \in Content
  BY <1>0, <1>1 DEF JobShape, Writers, Readers, Refreshes, Edits, Ops
<1>4. /\ index' = index
      /\ metadata' = IF pc[t] = "putMeta" THEN [metadata EXCEPT ![b] = k.summary] ELSE metadata
      /\ analyze' = IF pc[t] = "putMeta" THEN analyze ELSE [analyze EXCEPT ![b] = k.content]
  BY DEF PutAnalyze, PutMeta, CasAnalyze, Goto
<1>5. /\ \A x \in Boms \ {b} : metadata'[x] = metadata[x] /\ analyze'[x] = analyze[x]
      /\ metadata'[b] = IF pc[t] = "putMeta" THEN k.summary ELSE metadata[b]
      /\ analyze'[b] = IF pc[t] = "putMeta" THEN analyze[b] ELSE k.content
  BY <1>3, <1>4 DEF Typed, TypeOK, Listing
<1>6. HalfDone(t)'
  <2>1. CASE pc[t] = "putAnalyze"
    BY <1>0, <1>1, <1>2, <2>1 DEF HalfDone
  <2>2. CASE pc[t] = "putMeta"
    <3>1. k.op \notin Refreshes /\ analyze[b] = k.content /\ k.content.risk = k.summary.risk
      BY <1>0, <2>2 DEF JobShape, HalfDone, WriterInv, Writers, Edits, Refreshes
    <3> QED BY <1>1, <1>2, <1>3, <1>5, <2>2, <3>1 DEF HalfDone, CreatePending
  <2>3. CASE pc[t] = "casAnalyze"
    <3>1. metadata[b] = k.summary /\ index[b] # None /\ k.content.risk = k.summary.risk
      BY <1>0, <2>3 DEF HalfDone
    <3> QED BY <1>1, <1>2, <1>3, <1>4, <1>5, <2>3, <3>1 DEF HalfDone, CreatePending
  <2> QED BY <1>1, <2>1, <2>2, <2>3
<1>7. Writing(t)' /\ job'[t].bom = b
  BY <1>2, <1>3 DEF Writing
<1>8. pc[t] \in Locked
  BY <1>1 DEF Locked
<1> QED BY <1>2, <1>4, <1>5, <1>6, <1>7, <1>8, LockedList

\* The index is written, and the objects of a deleted BOM go.
LEMMA EndList ==
  ASSUME Typed, LockInv, OneProcess, SafetyInv, Listed, NEW t \in Tasks,
         WriteIndex(t) \/ WriteIndexDelete(t) \/ DeletePrefix(t)
  PROVE  Listed'
<1> USE NoneIsNoObject
<1> DEFINE k == job[t]
           b == k.bom
<1>0. JobShape(t) /\ HalfDone(t) /\ k \in Job
  BY DEF Typed, TypeOK, Shape, Listed
<1>1. b \in Boms /\ pc[t] \in {"writeIndex", "deletePrefix"}
  BY <1>0 DEF JobShape, WriteIndex, WriteIndexDelete, DeletePrefix, Goto
<1>2. pc[t] \in Locked
  BY <1>1 DEF Locked
<1>3. ASSUME Leave({t})
      PROVE  HalfDone(t)' /\ \A u \in Tasks \ {t} : pc'[u] = pc[u] /\ job'[u] = job[u]
  BY <1>3 DEF Leave, HalfDone, CreatePending
<1>4. CASE WriteIndex(t)
  <2>1. /\ pc[t] = "writeIndex" /\ k.op # "delete" /\ Leave({t})
        /\ index' = UpdatedIndex(t) /\ UNCHANGED <<metadata, analyze>>
    BY <1>4 DEF WriteIndex
  <2>2. /\ k.listing = index /\ metadata[b] = k.summary
        /\ analyze[b] # None /\ analyze[b].risk = k.summary.risk
        /\ k.op \in Refreshes => index[b] # None
    BY <1>0, <2>1 DEF HalfDone
  <2>3. k.summary \in Summary
    BY <1>0, <2>1 DEF JobShape
  <2>4. index' = [index EXCEPT ![b] = k.summary]
    BY <2>1, <2>2 DEF UpdatedIndex
  <2>5. index'[b] = k.summary /\ \A x \in Boms \ {b} : index'[x] = index[x]
    BY <1>1, <2>4 DEF Typed, TypeOK, Listing
  <2>6. Match(metadata'[b], analyze'[b], index'[b])
    BY <2>1, <2>2, <2>3, <2>5 DEF Match
  <2> QED BY <1>2, <1>3, <2>1, <2>5, <2>6, LockedList
<1>5. CASE WriteIndexDelete(t)
  <2>1. /\ k.op = "delete" /\ Goto(t, "writeIndex", "deletePrefix") /\ job' = job
        /\ index' = [k.listing EXCEPT ![b] = None] /\ UNCHANGED <<metadata, analyze>>
    BY <1>5 DEF WriteIndexDelete
  <2>2. /\ pc[t] = "writeIndex" /\ pc'[t] = "deletePrefix" /\ job'[t] = k
        /\ \A u \in Tasks \ {t} : pc'[u] = pc[u] /\ job'[u] = job[u]
    BY <2>1, StayEffect
  <2>3. k.listing = index
    BY <1>0, <2>2 DEF HalfDone
  <2>4. index'[b] = None /\ \A x \in Boms \ {b} : index'[x] = index[x]
    BY <1>1, <2>1, <2>3 DEF Typed, TypeOK, Listing
  <2>5. HalfDone(t)'
    BY <2>2, <2>4 DEF HalfDone, CreatePending
  <2> QED BY <1>2, <2>1, <2>2, <2>4, <2>5, LockedList DEF Writing
<1>6. CASE DeletePrefix(t)
  <2>1. /\ pc[t] = "deletePrefix" /\ Leave({t}) /\ index' = index
        /\ metadata' = [x \in Boms |-> IF x \in Erased(b) THEN None ELSE metadata[x]]
        /\ analyze' = [x \in Boms |-> IF x \in Erased(b) THEN None ELSE analyze[x]]
    BY <1>6 DEF DeletePrefix
  <2>2. Erased(b) = {b} /\ index[b] = None
    BY <1>0, <1>1, <2>1 DEF OneProcess, HalfDone
  <2>3. /\ metadata'[b] = None /\ analyze'[b] = None
        /\ \A x \in Boms \ {b} : metadata'[x] = metadata[x] /\ analyze'[x] = analyze[x]
    BY <1>1, <2>1, <2>2
  <2>4. Match(metadata'[b], analyze'[b], index'[b])
    BY <2>1, <2>2, <2>3 DEF Match
  <2> QED BY <1>2, <1>3, <2>1, <2>3, <2>4, LockedList
<1> QED BY <1>4, <1>5, <1>6

LEMMA NextList ==
  ASSUME OneProcess
  PROVE  Typed /\ LockInv /\ SafetyInv /\ ListInv /\ [Next]_vars => ListInv'
<1> SUFFICES ASSUME Typed, LockInv, SafetyInv, ListInv, [Next]_vars, faults' = 0 PROVE Listed'
  BY DEF ListInv
<1>0. faults \in Nat /\ faults + 1 # 0
  BY ModeAssumption DEF Typed, TypeOK
<1>1. ~ \E t \in Tasks : ReadIndexMisses(t) \/ Abort(t)
  BY <1>0 DEF ReadIndexMisses, Abort
<1>2. ~ \E i \in Instances : Crash(i)
  BY <1>0 DEF Crash
<1>3. CASE UNCHANGED vars
  BY <1>3 DEF vars, ListInv, Listed, Agree, Writing, HalfDone, CreatePending
<1>4. ASSUME NEW t \in Tasks, Arrive(t) \/ SendPut(t) \/ Acquire(t) \/ GetAnalyze(t) \/ GetLeaves(t)
      PROVE  Listed'
  <2>1. faults = 0
    BY <1>4 DEF Arrive, Create, Delete, Edit, GetMeta, SendPut, Acquire, GetAnalyze, GetLeaves, Return
  <2> QED BY <1>4, <2>1, ArriveList DEF ListInv
<1>5. ASSUME NEW t \in Tasks, LoadMeta(t) \/ LoadAnalyze(t) \/ CasRead(t) \/ CasClaim(t) \/ ReadIndex(t)
      PROVE  Listed'
  <2>1. faults = 0
    BY <1>5 DEF LoadMeta, LoadAnalyze, CasRead, CasClaim, ReadIndex, Return
  <2> QED BY <1>5, <2>1, ReadList DEF ListInv
<1>6. ASSUME NEW t \in Tasks, PutAnalyze(t) \/ PutMeta(t) \/ CasAnalyze(t) PROVE Listed'
  <2>1. faults = 0
    BY <1>6 DEF PutAnalyze, PutMeta, CasAnalyze
  <2> QED BY <1>6, <2>1, WriteList DEF ListInv
<1>7. ASSUME NEW t \in Tasks, WriteIndex(t) \/ WriteIndexDelete(t) \/ DeletePrefix(t) PROVE Listed'
  <2>1. faults = 0
    BY <1>7 DEF WriteIndex, WriteIndexDelete, DeletePrefix
  <2> QED BY <1>7, <2>1, EndList DEF ListInv
<1> QED BY <1>1, <1>2, <1>3, <1>4, <1>5, <1>6, <1>7 DEF Next, Step

\* With one gateway process and no faults the list page, the detail page and
\* the scores agree whenever no mutation is between its writes, and nothing is
\* stored off the list: persist_bom, the conditional refresh and delete_bom
\* each write three objects, and only the lock makes one change of them.
THEOREM ListAndDetailMatch ==
  ASSUME OneProcess
  PROVE  Spec => []ListMatchesDetail
<1> DEFINE Inv == Typed /\ LockInv /\ SafetyInv /\ ListInv
<1>1. Init => Inv
  BY InitTyped, InitLock, InitSafety, InitList
<1>2. Inv /\ [Next]_vars => Inv'
  BY NextTyped, NextLock, NextSafety, NextList
<1>3. Inv => ListMatchesDetail
  <2> SUFFICES ASSUME Inv, faults = 0, ~Busy, NEW b \in Boms PROVE Agree(b)
    BY DEF ListMatchesDetail, Agree, Match
  <2>1. \A t \in Tasks : pc[t] \notin Locked
    BY TasksAssumption, BomsAssumption DEF LockInv, Busy
  <2> QED BY <2>1, WritersAreLocked DEF ListInv, Listed
<1> QED BY <1>1, <1>2, <1>3, PTL DEF Spec

----------------------------------------------------------------------------
(* Steps that take something away *)

\* A refresh changes scores only. With one gateway process the lines it writes
\* back contain every committed edit of the lines they replace, however long
\* ago the refresh has read them.
THEOREM RefreshesKeepEdits ==
  ASSUME OneProcess
  PROVE  Spec => RefreshKeepsEdits
<1> DEFINE Kept(t) == LET b == job[t].bom IN
             pc[t] = "casAnalyze" /\ pc'[t] = "readIndex" /\ analyze[b] # None =>
               analyze[b].edits \cap CommittedEdits(b) \subseteq analyze'[b].edits
           Inv == Typed /\ LockInv /\ SafetyInv
<1>1. ASSUME Inv, [Next]_vars, NEW t \in Tasks PROVE Kept(t)
  <2> SUFFICES ASSUME pc[t] = "casAnalyze", pc'[t] = "readIndex" PROVE Kept(t)
    OBVIOUS
  <2> DEFINE b == job[t].bom
  <2>1. CasAnalyze(t) /\ JobShape(t) /\ TaskInv(t)
    BY <1>1, OnlyCasWrites DEF Typed, Shape, SafetyInv, CasClaim
  <2>2. b \in Boms /\ job[t].op \in Refreshes /\ job[t].content \in Content
    BY <2>1 DEF JobShape, Readers
  <2>3. CommittedEdits(b) \subseteq job[t].content.edits
    <3>1. HasView(t) /\ job[t].content # None
      BY <2>2, NoneIsNoObject DEF HasView, Readers
    <3> QED BY <2>1, <3>1 DEF TaskInv, WriterInv, ViewInv
  <2>4. analyze'[b] = job[t].content
    BY <1>1, <2>1, <2>2 DEF CasAnalyze, Typed, TypeOK
  <2> QED BY <2>3, <2>4
<1>2. Inv /\ [Next]_vars => [\A t \in Tasks : Kept(t)]_vars
  BY <1>1
<1>3. Init => Inv
  BY InitTyped, InitLock, InitSafety
<1>4. Inv /\ [Next]_vars => Inv'
  BY NextTyped, NextLock, NextSafety
<1> QED BY <1>2, <1>3, <1>4, PTL DEF Spec, RefreshKeepsEdits

\* Deleting a BOM takes no object of another BOM away when no id begins with
\* another, or with files, whatever number of processes there are.
THEOREM DeletionsSpareOthers ==
  ASSUME \A b \in Boms : Erased(b) = {b}
  PROVE  Spec => DeleteSparesOthers
<1> DEFINE Gone(b) == metadata[b] # None /\ metadata'[b] = None
<1> USE NoneIsNoObject
<1>1. ASSUME Typed, [Next]_vars, NEW b \in Boms, Gone(b)
      PROVE  \E t \in Tasks : pc[t] = "deletePrefix" /\ job[t].bom = b
  <2>1. metadata' # metadata /\ metadata \in Listing
    BY <1>1 DEF Typed, TypeOK
  <2>2. ~UNCHANGED vars
    BY <2>1 DEF vars
  <2>3. ASSUME NEW t \in Tasks, PutMeta(t) PROVE FALSE
    <3>1. job[t].bom \in Boms /\ job[t].summary \in Summary
      BY <1>1, <2>3 DEF Typed, Shape, JobShape, PutMeta, Goto
    <3> QED BY <1>1, <2>1, <2>3, <3>1 DEF PutMeta, Listing
  <2>4. ASSUME NEW t \in Tasks, CasClaim(t) PROVE FALSE
    <3> DEFINE s == RefreshedSummary(job[t].etag, job[t].content.risk)
    <3>1. job[t].bom \in Boms /\ job[t].etag \in Summary /\ job[t].content \in Content
      BY <1>1, <2>4 DEF Typed, Shape, JobShape, CasClaim, Readers
    <3>2. s \in Summary
      BY <3>1 DEF RefreshedSummary, Summary, Content
    <3>3. metadata' = [metadata EXCEPT ![job[t].bom] = s]
      BY <2>1, <2>4 DEF CasClaim, Return, store
    <3> HIDE DEF s
    <3> QED BY <1>1, <2>1, <3>1, <3>2, <3>3 DEF Listing
  <2>5. ASSUME NEW t \in Tasks, DeletePrefix(t) PROVE pc[t] = "deletePrefix" /\ job[t].bom = b
    <3>1. pc[t] = "deletePrefix" /\ job[t].bom \in Boms
      BY <1>1, <2>5 DEF Typed, Shape, JobShape, DeletePrefix
    <3>2. metadata' = [x \in Boms |-> IF x = job[t].bom THEN None ELSE metadata[x]]
      BY <2>5, <3>1 DEF DeletePrefix
    <3> QED BY <1>1, <3>1, <3>2
  <2>6. ASSUME NEW t \in Tasks, Arrive(t) \/ SendPut(t) \/ Acquire(t) \/ GetAnalyze(t) \/ GetLeaves(t)
        PROVE  FALSE
    BY <2>1, <2>6 DEF Arrive, Create, Delete, Edit, GetMeta, SendPut, Acquire, GetAnalyze, GetLeaves,
                      Return, store
  <2>7. ASSUME NEW t \in Tasks,
               LoadMeta(t) \/ LoadAnalyze(t) \/ PutAnalyze(t) \/ CasRead(t) \/ CasAnalyze(t)
        PROVE  FALSE
    BY <2>1, <2>7 DEF LoadMeta, LoadAnalyze, PutAnalyze, CasRead, CasAnalyze, Return, store
  <2>8. ASSUME NEW t \in Tasks,
               ReadIndex(t) \/ ReadIndexMisses(t) \/ WriteIndex(t) \/ WriteIndexDelete(t) \/ Abort(t)
        PROVE  FALSE
    BY <2>1, <2>8 DEF ReadIndex, ReadIndexMisses, WithIndex, WriteIndex, WriteIndexDelete, Abort, store
  <2>9. ASSUME NEW i \in Instances, Crash(i) PROVE FALSE
    BY <2>1, <2>9 DEF Crash, store
  <2> QED BY <1>1, <2>2, <2>3, <2>4, <2>5, <2>6, <2>7, <2>8, <2>9 DEF Next, Step
<1>2. Typed /\ [Next]_vars =>
        [\A b \in Boms : Gone(b) => \E t \in Tasks : pc[t] = "deletePrefix" /\ job[t].bom = b]_vars
  BY <1>1
<1> QED BY <1>2, InitTyped, NextTyped, PTL DEF Spec, DeleteSparesOthers

\* Every read of index.json finds it: files say when they cannot be read, on
\* S3 a read that fails counts as an absent index.
IndexReadsSucceed == Mode = "Local" \/ MaxFaults = 0

\* Nobody has changed the index since a task that writes it has read it.
FreshInv == \A t \in Tasks : pc[t] = "writeIndex" => job[t].listing = index

LEMMA NextFresh ==
  ASSUME OneProcess, IndexReadsSucceed
  PROVE  Typed /\ LockInv /\ FreshInv /\ [Next]_vars => FreshInv'
<1> SUFFICES ASSUME Typed, LockInv, FreshInv, [Next]_vars, NEW t \in Tasks, pc'[t] = "writeIndex"
             PROVE  job'[t].listing = index'
  BY DEF FreshInv
<1>1. ASSUME NEW u \in Tasks, index' = index, NEW p, NEW q, Goto(u, p, q), q # "writeIndex",
             \A v \in Tasks \ {u} : job'[v] = job[v]
      PROVE  job'[t].listing = index'
  BY <1>1 DEF FreshInv, Goto, Typed, TypeOK
<1>2. ASSUME NEW ts \in SUBSET Tasks, index' = index, Leave(ts) PROVE job'[t].listing = index'
  BY <1>2 DEF FreshInv, Leave
<1>3. CASE UNCHANGED vars
  BY <1>3 DEF FreshInv, vars
<1>4. ASSUME NEW u \in Tasks, Arrive(u) \/ SendPut(u) \/ GetAnalyze(u) \/ GetLeaves(u)
      PROVE  job'[t].listing = index'
  <2>1. index' = index /\ \A v \in Tasks \ {u} : job'[v] = job[v]
    BY <1>4 DEF Arrive, Create, Delete, Edit, GetMeta, SendPut, GetAnalyze, GetLeaves,
                Return, Leave, store, Typed, TypeOK
  <2>2. Leave({u}) \/ \E p, q : Goto(u, p, q) /\ q \in {"waitLock", "getAnalyze", "thinking"}
    BY <1>4 DEF Arrive, Create, Delete, Edit, GetMeta, SendPut, GetAnalyze, GetLeaves, Return
  <2> QED BY <1>1, <1>2, <2>1, <2>2
<1>5. ASSUME NEW u \in Tasks, Acquire(u) PROVE job'[t].listing = index'
  <2>1. job[u].op \in Ops
    BY <1>5 DEF Acquire, Goto, Typed, Shape, JobShape
  <2>2. FirstLocked(job[u].op) # "writeIndex"
    BY <2>1 DEF FirstLocked, Ops, Edits, Refreshes
  <2> QED BY <1>1, <1>5, <2>2 DEF Acquire, store
<1>6. ASSUME NEW u \in Tasks,
             LoadMeta(u) \/ LoadAnalyze(u) \/ PutAnalyze(u) \/ PutMeta(u)
               \/ CasRead(u) \/ CasClaim(u) \/ CasAnalyze(u)
      PROVE  job'[t].listing = index'
  <2>1. index' = index /\ \A v \in Tasks \ {u} : job'[v] = job[v]
    BY <1>6 DEF LoadMeta, LoadAnalyze, PutAnalyze, PutMeta, CasRead, CasClaim, CasAnalyze,
                Return, Leave, store, Typed, TypeOK
  <2>2. Leave({u}) \/ \E p, q : Goto(u, p, q) /\ q # "writeIndex"
    BY <1>6 DEF LoadMeta, LoadAnalyze, PutAnalyze, PutMeta, CasRead, CasClaim, CasAnalyze, Return
  <2> QED BY <1>1, <1>2, <2>1, <2>2
<1>7. ASSUME NEW u \in Tasks, ReadIndex(u) PROVE job'[t].listing = index'
  <2>1. CASE Leave({u})
    BY <1>2, <1>7, <2>1 DEF ReadIndex, WithIndex, store
  <2>2. CASE ~Leave({u})
    <3>1. /\ Goto(u, "readIndex", "writeIndex") /\ index' = index
          /\ job' = [job EXCEPT ![u].listing = index]
      BY <1>7, <2>2 DEF ReadIndex, WithIndex, store
    <3>2. CASE t = u
      BY <3>1, <3>2 DEF Typed, TypeOK, Job
    <3>3. CASE t # u
      BY <3>1, <3>3 DEF FreshInv, Goto, Typed, TypeOK
    <3> QED BY <3>2, <3>3
  <2> QED BY <2>1, <2>2
<1>8. ASSUME NEW u \in Tasks, WriteIndex(u) \/ WriteIndexDelete(u) PROVE job'[t].listing = index'
  <2>1. pc[u] = "writeIndex" /\ pc'[u] # "writeIndex" /\ (t # u => pc'[t] = pc[t])
    BY <1>8 DEF WriteIndex, WriteIndexDelete, Leave, Goto, Typed, TypeOK
  <2>2. t # u /\ pc[t] = "writeIndex"
    BY <2>1
  <2> QED BY <2>1, <2>2, Alone DEF Locked
<1>9. ASSUME NEW u \in Tasks, DeletePrefix(u) \/ Abort(u) PROVE job'[t].listing = index'
  BY <1>2, <1>9 DEF DeletePrefix, Abort, store
<1>10. ASSUME NEW i \in Instances, Crash(i) PROVE job'[t].listing = index'
  <2>1. {u \in Tasks : InstanceOf[u] = i} \in SUBSET Tasks
    OBVIOUS
  <2> QED BY <1>2, <1>10, <2>1 DEF Crash, store
<1>11. ~ \E u \in Tasks : ReadIndexMisses(u)
  BY ModeAssumption DEF ReadIndexMisses, IndexReadsSucceed, Typed, TypeOK
<1> QED BY <1>3, <1>4, <1>5, <1>6, <1>7, <1>8, <1>9, <1>10, <1>11 DEF Next, Step

\* Where no read of the index is taken for an empty one, a listed BOM leaves
\* the list only by its own deletion: every other mutation rewrites the whole
\* index.json and keeps the entries of all the other BOMs.
THEOREM ListedBomsStay ==
  ASSUME OneProcess, IndexReadsSucceed
  PROVE  Spec => StaysListed
<1> DEFINE Inv == Typed /\ LockInv /\ FreshInv
           Gone(b) == index[b] # None /\ index'[b] = None
           Deleted(b) == \E t \in Tasks : pc[t] = "writeIndex" /\ job[t].op = "delete" /\ job[t].bom = b
<1>1. ASSUME Inv, [Next]_vars, NEW b \in Boms, Gone(b) PROVE Deleted(b)
  <2>1. index' # index /\ index \in Listing
    BY <1>1 DEF Typed, TypeOK
  <2>2. ASSUME NEW t \in Tasks, WriteIndex(t) PROVE FALSE
    <3> DEFINE s == job[t].summary
    <3>1. /\ job[t].bom \in Boms /\ s \in Summary
          /\ job[t].listing = index /\ index' = UpdatedIndex(t)
      BY <1>1, <2>2 DEF Typed, Shape, JobShape, FreshInv, WriteIndex
    <3>2. index' = index \/ index' = [index EXCEPT ![job[t].bom] = s]
      BY <3>1 DEF UpdatedIndex
    <3> QED BY <1>1, <2>1, <3>1, <3>2, NoneIsNoObject DEF Listing
  <2>3. ASSUME NEW t \in Tasks, WriteIndexDelete(t) PROVE Deleted(b)
    <3>1. /\ pc[t] = "writeIndex" /\ job[t].op = "delete" /\ job[t].bom \in Boms
          /\ job[t].listing = index /\ index' = [index EXCEPT ![job[t].bom] = None]
      BY <1>1, <2>3 DEF Typed, Shape, JobShape, FreshInv, WriteIndexDelete, Goto
    <3>2. job[t].bom = b
      BY <1>1, <2>1, <3>1 DEF Listing
    <3> QED BY <3>1, <3>2
  <2>4. ASSUME NEW t \in Tasks, Arrive(t) \/ SendPut(t) \/ Acquire(t) \/ GetAnalyze(t) \/ GetLeaves(t)
        PROVE  FALSE
    BY <2>1, <2>4 DEF Arrive, Create, Delete, Edit, GetMeta, SendPut, Acquire, GetAnalyze, GetLeaves,
                      Return, store
  <2>5. ASSUME NEW t \in Tasks,
               LoadMeta(t) \/ LoadAnalyze(t) \/ PutAnalyze(t) \/ PutMeta(t)
                 \/ CasRead(t) \/ CasClaim(t) \/ CasAnalyze(t)
        PROVE  FALSE
    BY <2>1, <2>5 DEF LoadMeta, LoadAnalyze, PutAnalyze, PutMeta, CasRead, CasClaim, CasAnalyze,
                      Return, store
  <2>6. ASSUME NEW t \in Tasks, ReadIndex(t) \/ ReadIndexMisses(t) \/ DeletePrefix(t) \/ Abort(t)
        PROVE  FALSE
    BY <2>1, <2>6 DEF ReadIndex, ReadIndexMisses, WithIndex, DeletePrefix, Abort, store
  <2>7. ASSUME NEW i \in Instances, Crash(i) PROVE FALSE
    BY <2>1, <2>7 DEF Crash, store
  <2>8. ~UNCHANGED vars
    BY <2>1 DEF vars
  <2> QED BY <1>1, <2>2, <2>3, <2>4, <2>5, <2>6, <2>7, <2>8 DEF Next, Step
<1>2. Inv /\ [Next]_vars => [\A b \in Boms : Gone(b) => Deleted(b)]_vars
  BY <1>1
<1>3. Init => Inv
  BY InitTyped, InitLock DEF Init, FreshInv
<1>4. Inv /\ [Next]_vars => Inv'
  BY NextTyped, NextLock, NextFresh
<1> QED BY <1>2, <1>3, <1>4, PTL DEF Spec, StaysListed

============================================================================
