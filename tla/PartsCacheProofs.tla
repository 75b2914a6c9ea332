-------------------------- MODULE PartsCacheProofs --------------------------
(***************************************************************************)
(* Proofs about PartsCache for all values of its constants: types, and the *)
(* two promises of the queue.                                              *)
(***************************************************************************)
EXTENDS PartsCache, TLAPS

\* The points of its program a worker can be at.
Looking == {"idle", "lookup", "storeMatch", "storeMiss"}
Allowed(w) ==
  IF w \in Parts THEN Looking \cup {"get", "cached", "unqueue", "failed"}
  ELSE IF w = Sync THEN Looking
  ELSE Looking \cup {"get", "expire", "check", "enqueue"}

\* A worker that runs has a part; the drain claimed that part with attempts left.
WorkerShape(w) ==
  /\ pc[w] \in Allowed(w)
  /\ pc[w] # "idle" => PartOf(w) \in Parts
  /\ w \in Parts /\ pc[w] # "idle" =>
       claim[w] \in Row /\ claim[w].attempts < MaxAttempts

Shape == \A w \in Workers : WorkerShape(w)
Typed == TypeOK /\ Shape

\* The rows of a part stay rows when one of them is replaced.
LEMMA UpsertRows ==
  ASSUME NEW rows \in SUBSET Row, NEW row \in Row
  PROVE  /\ Upsert(rows, row) \in SUBSET Row
         /\ row \in Upsert(rows, row)
         /\ \A r \in Upsert(rows, row) : r = row \/ r \in rows
  BY DEF Upsert

LEMMA AllowedPcs == \A w \in Workers : Allowed(w) \subseteq Pcs
  BY DEF Allowed, Looking, Pcs

LEMMA InitTyped == Init => Typed
  BY WorkersAssumption, BoundsAssumption, NoneIsNoRow
  DEF Init, Typed, TypeOK, Shape, WorkerShape, Allowed, Looking, Pcs, Job, NoJob

\* One worker goes on: the others keep their place, part and claimed row.
LEMMA WorkerMoves ==
  ASSUME Typed, NEW w \in Workers, pc[w] # "idle", NEW q \in Allowed(w),
         pc' = [pc EXCEPT ![w] = q], Forget \/ UNCHANGED job,
         claim' \in [Parts -> Row \cup {None}],
         \A p \in Parts : p # w \/ q # "idle" => claim'[p] = claim[p]
  PROVE  /\ pc' \in [Workers -> Pcs] /\ job' \in [Requests \cup {Sync} -> Job]
         /\ Shape'
<1>1. pc' \in [Workers -> Pcs]
  BY AllowedPcs DEF Typed, TypeOK
<1>2. job' \in [Requests \cup {Sync} -> Job]
  <2>1. NoJob \in Job
    BY DEF NoJob, Job
  <2>2. CASE UNCHANGED job
    BY <2>2 DEF Typed, TypeOK
  <2>3. CASE Forget
    <3>1. \A t \in Requests \cup {Sync} : (IF pc'[t] = "idle" THEN NoJob ELSE job[t]) \in Job
      BY <2>1 DEF Typed, TypeOK
    <3> QED BY <2>3, <3>1 DEF Forget
  <2> QED BY <2>2, <2>3
<1>3. ASSUME NEW u \in Workers PROVE WorkerShape(u)'
  <2>1. pc'[u] \in Allowed(u) /\ (pc'[u] # "idle" => pc[u] # "idle")
    BY <1>3 DEF Typed, TypeOK, Shape, WorkerShape
  <2>2. pc'[u] # "idle" => PartOf(u) \in Parts
    BY <1>3, <2>1 DEF Typed, Shape, WorkerShape
  <2>3. pc'[u] # "idle" /\ u \notin Parts => job'[u] = job[u]
    BY <1>3 DEF Forget, Workers
  <2>4. u \in Parts /\ pc'[u] # "idle" => claim'[u] = claim[u]
    BY <1>3, <1>1 DEF Typed, TypeOK
  <2>5. u \in Parts /\ pc'[u] # "idle" => claim'[u] \in Row /\ claim'[u].attempts < MaxAttempts
    BY <1>3, <2>1, <2>4 DEF Typed, Shape, WorkerShape
  <2>6. pc'[u] # "idle" => PartOf(u)' \in Parts
    BY <1>3, <2>2, <2>3 DEF PartOf
  <2> QED BY <2>1, <2>5, <2>6 DEF WorkerShape, Allowed
<1> QED BY <1>1, <1>2, <1>3 DEF Shape

LEMMA LookupTyped ==
  ASSUME Typed, NEW w \in Workers, Lookup(w) PROVE Typed'
<1>1. PICK a \in Answers(PartOf(w)) :
        /\ pc' = [pc EXCEPT ![w] = CASE a = "match" -> "storeMatch"
                                      [] a = "miss"  -> "storeMiss"
                                      [] OTHER       -> AfterFailure(w)]
        /\ todo' = IF w = Sync /\ a = "limited" THEN {} ELSE todo
        /\ failures' = IF w \in Parts /\ a \in {"limited", "error"}
                       THEN Failed(w) ELSE failures
  BY DEF Lookup, Goto
<1> DEFINE q == CASE a = "match" -> "storeMatch"
                  [] a = "miss"  -> "storeMiss"
                  [] OTHER       -> AfterFailure(w)
<1>2. AfterFailure(w) \in Allowed(w)
  BY WorkersAssumption DEF AfterFailure, Allowed, Looking, Workers
<1>3. q \in Allowed(w)
  BY <1>2 DEF Allowed, Looking
<1>4. /\ pc[w] = "lookup" /\ Forget
      /\ UNCHANGED <<carried, snapshot, queue, claim, faults, promised>>
  BY DEF Lookup, tables
<1>5. pc' \in [Workers -> Pcs] /\ job' \in [Requests \cup {Sync} -> Job] /\ Shape'
  <2>1. pc[w] # "idle" /\ pc' = [pc EXCEPT ![w] = q] /\ Forget /\ claim' = claim
    BY <1>1, <1>4
  <2>2. claim \in [Parts -> Row \cup {None}]
    BY DEF Typed, TypeOK
  <2> HIDE DEF q
  <2> QED BY <1>3, <2>1, <2>2, WorkerMoves
<1>6. failures' \in [Parts -> 0..MaxAttempts]
  BY <1>1, BoundsAssumption DEF Typed, TypeOK, Failed
<1>7. todo' \in SUBSET Parts
  BY <1>1 DEF Typed, TypeOK
<1> QED BY <1>4, <1>5, <1>6, <1>7 DEF Typed, TypeOK

LEMMA StoreTyped ==
  ASSUME Typed, NEW w \in Workers, Store(w) PROVE Typed'
<1> DEFINE q == IF w \in Parts THEN "unqueue" ELSE "idle"
<1>1. q \in Allowed(w)
  BY DEF Allowed, Looking
<1>2. pc[w] # "idle" /\ pc' = [pc EXCEPT ![w] = q] /\ Forget /\ claim' = claim
  BY DEF Store
<1>3. pc' \in [Workers -> Pcs] /\ job' \in [Requests \cup {Sync} -> Job] /\ Shape'
  <2>1. claim \in [Parts -> Row \cup {None}]
    BY DEF Typed, TypeOK
  <2> HIDE DEF q
  <2> QED BY <1>1, <1>2, <2>1, WorkerMoves
<1>4. snapshot' \in [Parts -> Snapshots \cup {None}]
  BY DEF Typed, TypeOK, Store, Snapshots
<1> QED BY <1>3, <1>4 DEF Typed, TypeOK, Store

\* The steps of a request between its Ask and its answer.
LEMMA RequestTyped ==
  ASSUME Typed, NEW t \in Requests, Get(t) \/ Expire(t) \/ Check(t) \/ Enqueue(t)
  PROVE  Typed'
<1>1. t \in Workers /\ t \notin Parts /\ t # Sync
  BY WorkersAssumption DEF Workers
<1>2. PICK q \in Allowed(t) : pc[t] # "idle" /\ pc' = [pc EXCEPT ![t] = q]
  <2>1. {"idle", "expire", "lookup", "check", "enqueue"} \subseteq Allowed(t)
    BY <1>1 DEF Allowed, Looking
  <2>2. Missed(job[t].live) \in {"lookup", "check"}
    BY DEF Missed
  <2>3. CASE Get(t) BY <2>1, <2>2, <2>3 DEF Get, Goto
  <2>4. CASE Expire(t) BY <2>1, <2>2, <2>4 DEF Expire, Goto
  <2>5. CASE Check(t) BY <2>1, <2>5 DEF Check, Goto
  <2>6. CASE Enqueue(t) BY <2>1, <2>6 DEF Enqueue, Goto
  <2> QED BY <2>3, <2>4, <2>5, <2>6
<1>3. Forget /\ UNCHANGED <<carried, claim, todo, faults, failures>>
  BY DEF Get, Expire, Check, Enqueue, history
<1>4. pc' \in [Workers -> Pcs] /\ job' \in [Requests \cup {Sync} -> Job] /\ Shape'
  <2>1. claim' \in [Parts -> Row \cup {None}] /\ claim' = claim
    BY <1>3 DEF Typed, TypeOK
  <2> QED BY <1>1, <1>2, <1>3, <2>1, WorkerMoves
<1>5. job[t].part \in Parts
  BY <1>1, <1>2 DEF Typed, Shape, WorkerShape, PartOf
<1>6. snapshot' \in [Parts -> Snapshots \cup {None}]
  BY DEF Typed, TypeOK, Get, Expire, Check, Enqueue, tables
<1>7. promised' \in SUBSET Parts
  BY <1>5 DEF Typed, TypeOK, Get, Expire, Check, Enqueue, Pending, history
<1>8. queue' \in [Parts -> SUBSET Row]
  <2>1. CASE Enqueue(t)
    <3>1. PICK s \in Stamps :
            queue' = [queue EXCEPT ![job[t].part] =
                        Upsert(@, [seen |-> s, attempts |-> 0, cooling |-> FALSE])]
      BY <2>1 DEF Enqueue
    <3>2. [seen |-> s, attempts |-> 0, cooling |-> FALSE] \in Row
      BY BoundsAssumption DEF Row
    <3>3. queue \in [Parts -> SUBSET Row]
      BY DEF Typed, TypeOK
    <3>4. Upsert(queue[job[t].part], [seen |-> s, attempts |-> 0, cooling |-> FALSE])
            \in SUBSET Row
      BY <1>5, <3>2, <3>3, UpsertRows
    <3> QED BY <1>5, <3>1, <3>3, <3>4
  <2>2. CASE ~Enqueue(t)
    BY <2>2 DEF Typed, TypeOK, Get, Expire, Check, tables
  <2> QED BY <2>1, <2>2
<1> QED BY <1>3, <1>4, <1>6, <1>7, <1>8 DEF Typed, TypeOK

LEMMA UnqueueTyped ==
  ASSUME Typed, NEW p \in Parts, Unqueue(p) PROVE Typed'
<1>1. p \in Workers /\ "idle" \in Allowed(p)
  BY DEF Workers, Allowed, Looking
<1>2. claim' \in [Parts -> Row \cup {None}] /\ \A r \in Parts : r # p => claim'[r] = claim[r]
  BY DEF Typed, TypeOK, Unqueue
<1>3. pc' \in [Workers -> Pcs] /\ job' \in [Requests \cup {Sync} -> Job] /\ Shape'
  <2>1. pc[p] # "idle" /\ pc' = [pc EXCEPT ![p] = "idle"] /\ UNCHANGED job
    BY DEF Unqueue
  <2> QED BY <1>1, <1>2, <2>1, WorkerMoves
<1>4. queue' \in [Parts -> SUBSET Row] /\ failures' \in [Parts -> 0..MaxAttempts]
  BY BoundsAssumption DEF Typed, TypeOK, Unqueue
<1> QED BY <1>2, <1>3, <1>4 DEF Typed, TypeOK, Unqueue

\* A row the drain claimed has an attempt left to count.
LEMMA AttemptedRow ==
  ASSUME NEW row \in Row, row.attempts < MaxAttempts
  PROVE  /\ Attempted(row) \in Row /\ Attempted(row).attempts = row.attempts + 1
         /\ Attempted(row).seen = row.seen
  BY BoundsAssumption DEF Attempted, Row

LEMMA MarkAttemptedTyped ==
  ASSUME Typed, NEW p \in Parts, MarkAttempted(p) PROVE Typed'
<1>1. p \in Workers /\ "idle" \in Allowed(p)
  BY DEF Workers, Allowed, Looking
<1>2. claim' \in [Parts -> Row \cup {None}] /\ \A r \in Parts : r # p => claim'[r] = claim[r]
  BY DEF Typed, TypeOK, MarkAttempted
<1>3. pc' \in [Workers -> Pcs] /\ job' \in [Requests \cup {Sync} -> Job] /\ Shape'
  <2>1. pc[p] # "idle" /\ pc' = [pc EXCEPT ![p] = "idle"] /\ UNCHANGED job
    BY DEF MarkAttempted, Goto
  <2> QED BY <1>1, <1>2, <2>1, WorkerMoves
<1>4. queue' \in [Parts -> SUBSET Row]
  <2>1. claim[p] \in Row /\ claim[p].attempts < MaxAttempts
    BY <1>1 DEF Typed, Shape, WorkerShape, MarkAttempted, Goto
  <2>2. queue \in [Parts -> SUBSET Row]
    BY DEF Typed, TypeOK
  <2>3. Upsert(queue[p], Attempted(claim[p])) \in SUBSET Row
    BY <2>1, <2>2, AttemptedRow, UpsertRows
  <2> QED BY <2>2, <2>3 DEF MarkAttempted
<1> QED BY <1>2, <1>3, <1>4 DEF Typed, TypeOK, MarkAttempted, history

LEMMA ReadyRows ==
  ASSUME NEW p \in Parts, Claimable(p)
  PROVE  /\ ReadyRow(p) \in queue[p] /\ IsFirst(p, ReadyRow(p))
         /\ ReadyRow(p).attempts < MaxAttempts
<1>1. ReadyRow(p) \in queue[p] /\ Ready(p, ReadyRow(p))
  BY DEF Claimable, ReadyRow
<1> QED BY <1>1 DEF Ready

LEMMA ClaimTyped ==
  ASSUME Typed, Claim PROVE Typed'
<1>1. PICK scanned \in SUBSET Parts :
        /\ pc' = [w \in Workers |-> IF w \in {p \in scanned : Claimable(p)}
                                    THEN "get" ELSE pc[w]]
        /\ claim' = [p \in Parts |-> IF p \in {q \in scanned : Claimable(q)}
                                     THEN ReadyRow(p) ELSE None]
        /\ queue' = [p \in Parts |-> IF p \in {q \in scanned : Poison(q)}
                                     THEN {} ELSE queue[p]]
        /\ failures' = [p \in Parts |-> IF p \in {q \in scanned : Poison(q)}
                                        THEN 0 ELSE failures[p]]
        /\ promised' = promised \ {p \in scanned : Poison(p)}
  BY DEF Claim
<1>2. /\ \A p \in Parts : pc[p] = "idle"
      /\ UNCHANGED <<carried, snapshot, job, todo, faults>>
  BY DEF Claim
<1>3. \A p \in Parts : Claimable(p) =>
        ReadyRow(p) \in Row /\ ReadyRow(p).attempts < MaxAttempts
  BY ReadyRows DEF Typed, TypeOK
<1>4. claim' \in [Parts -> Row \cup {None}]
  BY <1>1, <1>3
<1>5. /\ queue' \in [Parts -> SUBSET Row] /\ promised' \in SUBSET Parts
      /\ failures' \in [Parts -> 0..MaxAttempts]
  BY <1>1, BoundsAssumption DEF Typed, TypeOK
<1>6. pc' \in [Workers -> Pcs]
  BY <1>1 DEF Typed, TypeOK, Pcs
<1>7. ASSUME NEW w \in Workers PROVE WorkerShape(w)'
  <2>1. CASE w \in Parts
    <3>1. pc'[w] \in {"idle", "get"} /\ (pc'[w] # "idle" => Claimable(w) /\ claim'[w] = ReadyRow(w))
      BY <1>1, <1>2, <2>1 DEF Workers
    <3> QED BY <1>3, <2>1, <3>1 DEF WorkerShape, Allowed, Looking, PartOf
  <2>2. CASE w \notin Parts
    <3>1. pc'[w] = pc[w] /\ job'[w] = job[w]
      BY <1>1, <1>2, <2>2
    <3> QED BY <2>2, <3>1 DEF Typed, Shape, WorkerShape, Allowed, PartOf
  <2> QED BY <2>1, <2>2
<1>8. Shape'
  BY <1>7 DEF Shape
<1> QED BY <1>2, <1>4, <1>5, <1>6, <1>8 DEF Typed, TypeOK

\* A batch of drain lookups goes on or is given up: nobody else moves.
LEMMA BatchTyped ==
  ASSUME Typed, GetMany \/ BatchFails PROVE Typed'
<1>1. /\ UNCHANGED <<carried, snapshot, queue, job, todo, promised, failures>>
      /\ faults' \in 0..MaxFaults
  BY BoundsAssumption DEF Typed, TypeOK, GetMany, BatchFails, tables, history
<1>2. pc' \in [Workers -> Pcs]
  BY DEF Typed, TypeOK, GetMany, BatchFails, Pcs
<1>3. claim' \in [Parts -> Row \cup {None}]
  BY DEF Typed, TypeOK, GetMany, BatchFails
<1>4. ASSUME NEW w \in Workers PROVE WorkerShape(w)'
  <2>1. CASE w \in Parts
    <3>1. /\ pc'[w] \in {pc[w], "idle", "cached", "lookup"}
          /\ pc'[w] # "idle" => pc[w] # "idle" /\ claim'[w] = claim[w]
      BY <2>1 DEF GetMany, BatchFails, Workers, Typed, TypeOK
    <3> QED BY <2>1, <3>1 DEF Typed, Shape, WorkerShape, Allowed, Looking, PartOf
  <2>2. CASE w \notin Parts
    <3>1. pc'[w] = pc[w] /\ job'[w] = job[w]
      BY <1>1, <2>2 DEF GetMany, BatchFails
    <3> QED BY <2>2, <3>1 DEF Typed, Shape, WorkerShape, Allowed, PartOf
  <2> QED BY <2>1, <2>2
<1>5. Shape'
  BY <1>4 DEF Shape
<1> QED BY <1>1, <1>2, <1>3, <1>5 DEF Typed, TypeOK

\* A request or the sync takes up a part.
LEMMA TakesPart ==
  ASSUME Typed, NEW t \in Requests \cup {Sync}, NEW p \in Parts, NEW l \in BOOLEAN,
         NEW q \in Allowed(t), pc' = [pc EXCEPT ![t] = q],
         job' = [job EXCEPT ![t] = [part |-> p, live |-> l]], UNCHANGED claim
  PROVE  pc' \in [Workers -> Pcs] /\ job' \in [Requests \cup {Sync} -> Job] /\ Shape'
<1>1. t \in Workers /\ t \notin Parts
  BY WorkersAssumption DEF Workers
<1>2. pc' \in [Workers -> Pcs]
  BY <1>1, AllowedPcs DEF Typed, TypeOK
<1>3. job' \in [Requests \cup {Sync} -> Job]
  <2>1. [part |-> p, live |-> l] \in Job
    BY DEF Job
  <2> QED BY <2>1 DEF Typed, TypeOK
<1>4. ASSUME NEW w \in Workers PROVE WorkerShape(w)'
  <2>1. CASE w = t
    BY <1>1, <2>1 DEF WorkerShape, PartOf, Allowed, Typed, TypeOK
  <2>2. CASE w # t
    <3>1. pc'[w] = pc[w] /\ (w \notin Parts => job'[w] = job[w]) /\ claim' = claim
      BY <2>2 DEF Typed, TypeOK
    <3> QED BY <3>1 DEF Typed, Shape, WorkerShape, Allowed, PartOf
  <2> QED BY <2>1, <2>2
<1> QED BY <1>2, <1>3, <1>4 DEF Shape

LEMMA AskTyped ==
  ASSUME Typed, NEW t \in Requests, NEW p \in Parts, NEW kind \in Kinds, Ask(t, p, kind)
  PROVE  Typed'
<1>1. kind.live \in BOOLEAN
  BY KindsAssumption DEF Kind
<1>2. PICK q \in {"get", "lookup", "check"} : pc' = [pc EXCEPT ![t] = q]
  BY DEF Ask, Goto, Missed
<1>3. q \in Allowed(t)
  BY WorkersAssumption DEF Allowed, Looking
<1>4. pc' \in [Workers -> Pcs] /\ job' \in [Requests \cup {Sync} -> Job] /\ Shape'
  <2>1. job' = [job EXCEPT ![t] = [part |-> p, live |-> kind.live]] /\ UNCHANGED claim
    BY DEF Ask
  <2> QED BY <1>1, <1>2, <1>3, <2>1, TakesPart
<1> QED BY <1>4 DEF Typed, TypeOK, Ask, tables, history

LEMMA SyncTyped ==
  ASSUME Typed, SyncStart \/ SyncNext PROVE Typed'
<1>1. CASE SyncStart
  BY <1>1 DEF Typed, TypeOK, Shape, WorkerShape, Allowed, PartOf, SyncStart, tables, history
<1>2. CASE SyncNext
  <2>1. PICK p \in todo : /\ job' = [job EXCEPT ![Sync] = [part |-> p, live |-> TRUE]]
                          /\ todo' = todo \ {p}
    BY <1>2 DEF SyncNext
  <2>2. p \in Parts /\ todo' \in SUBSET Parts
    BY <2>1 DEF Typed, TypeOK
  <2>3. "lookup" \in Allowed(Sync) /\ pc' = [pc EXCEPT ![Sync] = "lookup"] /\ UNCHANGED claim
    BY <1>2 DEF SyncNext, Goto, Allowed, Looking
  <2>4. pc' \in [Workers -> Pcs] /\ job' \in [Requests \cup {Sync} -> Job] /\ Shape'
    BY <2>1, <2>2, <2>3, TakesPart
  <2> QED BY <1>2, <2>2, <2>4 DEF Typed, TypeOK, SyncNext, tables, history
<1> QED BY <1>1, <1>2

LEMMA FailTyped ==
  ASSUME Typed, NEW w \in Workers, Fail(w) PROVE Typed'
<1>1. pc[w] # "idle" /\ pc' = [pc EXCEPT ![w] = AfterFault(w)] /\ Forget
  BY DEF Fail
<1>2. AfterFault(w) \in Allowed(w)
  <2>1. pc[w] \in Allowed(w)
    BY DEF Typed, Shape, WorkerShape
  <2>2. CASE pc[w] = "expire"
    BY <2>1, <2>2 DEF AfterFault, Missed, Allowed, Looking
  <2>3. CASE pc[w] \in {"storeMatch", "storeMiss"}
    BY <2>3 DEF AfterFault, AfterFailure, Allowed, Looking
  <2>4. CASE pc[w] = "unqueue"
    BY <2>1, <2>4 DEF AfterFault, Allowed, Looking
  <2>5. CASE pc[w] \notin {"expire", "storeMatch", "storeMiss", "unqueue"}
    BY <2>5 DEF AfterFault, Allowed, Looking
  <2> QED BY <2>2, <2>3, <2>4, <2>5
<1>3. /\ claim' \in [Parts -> Row \cup {None}]
      /\ \A p \in Parts : p # w \/ AfterFault(w) # "idle" => claim'[p] = claim[p]
  BY DEF Fail, Typed, TypeOK
<1>4. pc' \in [Workers -> Pcs] /\ job' \in [Requests \cup {Sync} -> Job] /\ Shape'
  BY <1>1, <1>2, <1>3, WorkerMoves
<1>5. failures' \in [Parts -> 0..MaxAttempts] /\ faults' \in 0..MaxFaults
  BY BoundsAssumption DEF Fail, Failed, Typed, TypeOK
<1> QED BY <1>3, <1>4, <1>5 DEF Typed, TypeOK, Fail, tables

LEMMA CrashTyped ==
  ASSUME Typed, Crash PROVE Typed'
<1>1. pc' = [w \in Workers |-> "idle"] /\ claim' = [p \in Parts |-> None] /\ todo' = {}
  BY DEF Crash
<1>2. job' \in [Requests \cup {Sync} -> Job]
  <2>1. NoJob \in Job
    BY DEF NoJob, Job
  <2>2. \A t \in Requests \cup {Sync} : (IF pc'[t] = "idle" THEN NoJob ELSE job[t]) \in Job
    BY <2>1 DEF Typed, TypeOK
  <2> QED BY <2>2 DEF Crash, Forget
<1>3. Shape'
  BY <1>1 DEF Shape, WorkerShape, Allowed, Looking
<1>4. faults' \in 0..MaxFaults
  BY BoundsAssumption DEF Crash, Typed, TypeOK
<1> QED BY <1>1, <1>2, <1>3, <1>4 DEF Typed, TypeOK, Crash, Pcs, tables, history

LEMMA EnvironmentTyped ==
  ASSUME Typed, NEW p \in Parts, Age(p) \/ Cool(p) \/ \E d \in Providers : Stock(p, d)
  PROVE  Typed'
<1>1. UNCHANGED <<pc, job, claim, todo, faults, promised, failures>>
  BY DEF Age, Cool, Stock, history
<1>2. Shape'
  BY <1>1 DEF Typed, Shape, WorkerShape, Allowed, PartOf
<1>3. carried' \in [Parts -> SUBSET Providers]
  BY DEF Age, Cool, Stock, Typed, TypeOK
<1>4. snapshot' \in [Parts -> Snapshots \cup {None}]
  BY DEF Age, Cool, Stock, tables, Typed, TypeOK, Snapshots
<1>5. queue' \in [Parts -> SUBSET Row]
  <2>1. CASE Cool(p)
    <3>1. PICK r \in queue[p] :
            queue' = [queue EXCEPT ![p] = Upsert(queue[p], [r EXCEPT !.cooling = FALSE])]
      BY <2>1 DEF Cool
    <3>2. queue[p] \in SUBSET Row /\ r \in Row
      BY <3>1 DEF Typed, TypeOK
    <3>3. [r EXCEPT !.cooling = FALSE] \in Row
      BY <3>2 DEF Row
    <3>4. Upsert(queue[p], [r EXCEPT !.cooling = FALSE]) \in SUBSET Row
      BY <3>2, <3>3, UpsertRows
    <3> QED BY <3>1, <3>4 DEF Typed, TypeOK
  <2>2. CASE ~Cool(p)
    BY <2>2 DEF Age, Stock, tables, Typed, TypeOK
  <2> QED BY <2>1, <2>2
<1> QED BY <1>1, <1>2, <1>3, <1>4, <1>5 DEF Typed, TypeOK

LEMMA NextTyped ==
  ASSUME Typed, [Next]_vars PROVE Typed'
<1>1. ASSUME NEW w \in Workers, Run(w) PROVE Typed'
  BY <1>1, LookupTyped, StoreTyped, RequestTyped, UnqueueTyped, MarkAttemptedTyped DEF Run
<1>2. CASE UNCHANGED vars
  BY <1>2 DEF vars, Typed, TypeOK, Shape, WorkerShape, Allowed, PartOf
<1> QED
  BY <1>1, <1>2, FailTyped, AskTyped, ClaimTyped, BatchTyped, SyncTyped, CrashTyped,
     EnvironmentTyped
  DEF Next

\* Types, and the shape of every worker: what the other proofs build on.
LEMMA Shaped == Spec => []Typed
<1>1. Init => Typed
  BY InitTyped
<1>2. Typed /\ [Next]_vars => Typed'
  BY NextTyped
<1> QED BY <1>1, <1>2, PTL DEF Spec

\* Every table row, worker and claim has its type in every reachable state;
\* in particular no row ever counts more than MaxAttempts attempts, however
\* requests re-queue a part while the drain works on its old row.
THEOREM TypeCorrect == Spec => []TypeOK
<1>1. Typed => TypeOK
  BY DEF Typed
<1> QED BY <1>1, Shaped, PTL

----------------------------------------------------------------------------
(* A part answered Pending stays queued, as long as no NoMatch gets old.     *)

\* Only a part without a snapshot has a promise to keep, and the drain takes
\* a part off the queue only once a snapshot of it is stored.
KeptPart(p) ==
  /\ p \in promised => snapshot[p] = None /\ queue[p] # {}
  /\ pc[p] \in {"cached", "unqueue"} => snapshot[p] # None
  /\ snapshot[p] # "stale"
Kept == /\ \A p \in Parts : KeptPart(p)
        /\ \A t \in Requests : pc[t] # "expire"

\* Steps that write neither table and promise nothing new.
LEMMA QuietKeeps ==
  ASSUME Typed, Kept, UNCHANGED <<snapshot, queue, promised>>,
         \A p \in Parts : pc'[p] \in {"cached", "unqueue"} =>
                            snapshot[p] # None \/ pc'[p] = pc[p],
         \A t \in Requests : pc'[t] # "expire"
  PROVE  Kept'
  BY DEF Kept, KeptPart

\* Where the program counters of a step that writes no table may go.
LEMMA QuietSteps ==
  ASSUME Typed, Kept,
         \/ \E w \in Workers : Lookup(w) \/ Fail(w)
         \/ \E t \in Requests : Get(t) \/ \E p \in Parts, kind \in Kinds : Ask(t, p, kind)
         \/ GetMany \/ SyncStart \/ SyncNext \/ BatchFails \/ Crash
         \/ \E p \in Parts, d \in Providers : Stock(p, d)
  PROVE  Kept'
<1>0. \A t \in Requests : t \in Workers /\ t \notin Parts /\ t # Sync
  BY WorkersAssumption DEF Workers
<1>1. ASSUME NEW w \in Workers, Lookup(w) PROVE Kept'
  <2>1. /\ UNCHANGED <<snapshot, queue, promised>>
        /\ \E q \in {"storeMatch", "storeMiss", AfterFailure(w)} : pc' = [pc EXCEPT ![w] = q]
    BY <1>1 DEF Lookup, Goto, tables
  <2>2. AfterFailure(w) \in {"failed", "idle", "check"}
    BY DEF AfterFailure
  <2>3. /\ \A p \in Parts : pc'[p] \in {"cached", "unqueue"} => pc'[p] = pc[p]
        /\ \A t \in Requests : pc'[t] # "expire"
    BY <1>0, <2>1, <2>2 DEF Kept, Typed, TypeOK, Workers
  <2> QED BY <2>1, <2>3, QuietKeeps
<1>2. ASSUME NEW w \in Workers, Fail(w) PROVE Kept'
  <2>1. /\ UNCHANGED <<snapshot, queue, promised>>
        /\ pc' = [pc EXCEPT ![w] = AfterFault(w)]
    BY <1>2 DEF Fail, tables
  <2>2. AfterFault(w) \in {"failed", "idle", "check", "lookup"}
    BY DEF AfterFault, AfterFailure, Missed
  <2>3. /\ \A p \in Parts : pc'[p] \in {"cached", "unqueue"} => pc'[p] = pc[p]
        /\ \A t \in Requests : pc'[t] # "expire"
    BY <1>0, <2>1, <2>2 DEF Kept, Typed, TypeOK, Workers
  <2> QED BY <2>1, <2>3, QuietKeeps
<1>3. ASSUME NEW t \in Requests, Get(t) PROVE Kept'
  <2>1. job[t].part \in Parts
    BY <1>0, <1>3 DEF Get, Goto, Typed, Shape, WorkerShape, PartOf
  <2>2. snapshot[job[t].part] # "stale"
    BY <2>1 DEF Kept, KeptPart
  <2>3. /\ UNCHANGED <<snapshot, queue, promised>>
        /\ \E q \in {"idle", "check", "lookup"} : pc' = [pc EXCEPT ![t] = q]
    BY <1>3, <2>2 DEF Get, Goto, Missed, tables, history
  <2>4. /\ \A p \in Parts : pc'[p] = pc[p]
        /\ \A u \in Requests : pc'[u] # "expire"
    BY <1>0, <2>3 DEF Kept, Typed, TypeOK, Workers
  <2> QED BY <2>3, <2>4, QuietKeeps
<1>4. ASSUME NEW t \in Requests, NEW p \in Parts, NEW kind \in Kinds, Ask(t, p, kind)
      PROVE  Kept'
  <2>1. /\ UNCHANGED <<snapshot, queue, promised>>
        /\ \E q \in {"get", "check", "lookup"} : pc' = [pc EXCEPT ![t] = q]
    BY <1>4 DEF Ask, Goto, Missed, tables, history
  <2>2. /\ \A r \in Parts : pc'[r] = pc[r]
        /\ \A u \in Requests : pc'[u] # "expire"
    BY <1>0, <2>1 DEF Kept, Typed, TypeOK, Workers
  <2> QED BY <2>1, <2>2, QuietKeeps
<1>5. CASE GetMany \/ BatchFails
  <2>1. UNCHANGED <<snapshot, queue, promised>>
    BY <1>5 DEF GetMany, BatchFails, tables, history
  <2>2. /\ \A p \in Parts : pc'[p] \in {"cached", "unqueue"} =>
                              snapshot[p] = "match" \/ pc'[p] = pc[p]
        /\ \A t \in Requests : pc'[t] = pc[t]
    BY <1>0, <1>5 DEF GetMany, BatchFails, Workers
  <2>3. "match" # None
    BY NoneIsNoRow DEF Snapshots
  <2> QED BY <2>1, <2>2, <2>3, QuietKeeps DEF Kept
<1>6. CASE SyncStart \/ SyncNext
  <2>1. UNCHANGED <<snapshot, queue, promised>>
    BY <1>6 DEF SyncStart, SyncNext, tables, history
  <2>2. \A w \in Workers : w # Sync => pc'[w] = pc[w]
    BY <1>6 DEF SyncStart, SyncNext, Goto, Typed, TypeOK
  <2>3. \A p \in Parts : p \in Workers /\ p # Sync
    BY WorkersAssumption DEF Workers
  <2> QED BY <1>0, <2>1, <2>2, <2>3, QuietKeeps DEF Kept
<1>7. CASE Crash
  <2>1. /\ UNCHANGED <<snapshot, queue, promised>>
        /\ \A w \in Workers : pc'[w] = "idle"
    BY <1>7 DEF Crash, tables, history
  <2>2. \A p \in Parts : p \in Workers
    BY DEF Workers
  <2> QED BY <1>0, <2>1, <2>2, QuietKeeps
<1>8. ASSUME NEW p \in Parts, NEW d \in Providers, Stock(p, d) PROVE Kept'
  BY <1>8, QuietKeeps DEF Stock, tables, history, Kept
<1> QED BY <1>1, <1>2, <1>3, <1>4, <1>5, <1>6, <1>7, <1>8

LEMMA StoreKeeps ==
  ASSUME Typed, Kept, NEW w \in Workers, Store(w) PROVE Kept'
<1> DEFINE part == PartOf(w)
<1>1. part \in Parts
  BY DEF Store, Typed, Shape, WorkerShape
<1>2. PICK found \in {"match", "miss"} : snapshot' = [snapshot EXCEPT ![part] = found]
  BY DEF Store
<1>3. /\ promised' = promised \ {part} /\ UNCHANGED queue
      /\ pc' = [pc EXCEPT ![w] = IF w \in Parts THEN "unqueue" ELSE "idle"]
  BY DEF Store
<1>4. found # None /\ found # "stale"
  BY <1>2, NoneIsNoRow DEF Snapshots
<1>5. ASSUME NEW p \in Parts PROVE KeptPart(p)'
  <2>1. /\ pc'[p] \in {"cached", "unqueue"} => p = w \/ pc'[p] = pc[p]
        /\ p = w => part = p
    BY <1>3, <1>5 DEF Typed, TypeOK, PartOf
  <2>2. CASE p = part
    BY <1>1, <1>2, <1>3, <1>4, <2>2 DEF KeptPart, Typed, TypeOK
  <2>3. CASE p # part
    BY <1>1, <1>2, <1>3, <1>5, <2>1, <2>3 DEF Kept, KeptPart, Typed, TypeOK
  <2> QED BY <2>2, <2>3
<1>6. \A t \in Requests : pc'[t] # "expire"
  BY <1>3 DEF Kept, Typed, TypeOK, Workers
<1> QED BY <1>5, <1>6 DEF Kept

\* The two steps of a request that answer Pending.
LEMMA PromiseKeeps ==
  ASSUME Typed, Kept, NEW t \in Requests, Check(t) \/ Enqueue(t) PROVE Kept'
<1> DEFINE part == job[t].part
<1>1. t \in Workers /\ t \notin Parts /\ part \in Parts
  BY WorkersAssumption DEF Check, Enqueue, Goto, Workers, Typed, Shape, WorkerShape, PartOf
<1>2. /\ UNCHANGED snapshot
      /\ \A p \in Parts : pc'[p] = pc[p]
      /\ \A u \in Requests : pc'[u] # "expire"
  BY <1>1 DEF Check, Enqueue, Goto, tables, Kept, Typed, TypeOK, Workers
<1>3. ASSUME NEW p \in Parts, p # part
      PROVE  queue'[p] = queue[p] /\ (p \in promised' => p \in promised)
  BY <1>3 DEF Check, Enqueue, Pending, tables, Typed, TypeOK
<1>4. part \in promised' => snapshot[part] = None /\ queue'[part] # {}
  <2>1. CASE Check(t)
    BY <1>1, <2>1 DEF Check, Pending, tables, Kept, KeptPart
  <2>2. CASE Enqueue(t)
    <3>1. PICK s \in Stamps :
            queue' = [queue EXCEPT ![part] =
                        Upsert(@, [seen |-> s, attempts |-> 0, cooling |-> FALSE])]
      BY <2>2 DEF Enqueue
    <3>2. queue'[part] # {}
      BY <1>1, <3>1 DEF Upsert, Typed, TypeOK
    <3> QED BY <1>1, <2>2, <3>2 DEF Enqueue, Pending, Kept, KeptPart
  <2> QED BY <2>1, <2>2
<1>5. ASSUME NEW p \in Parts PROVE KeptPart(p)'
  BY <1>2, <1>3, <1>4, <1>5 DEF Kept, KeptPart
<1> QED BY <1>2, <1>5 DEF Kept

LEMMA ClaimKeeps ==
  ASSUME Typed, Kept, Claim PROVE Kept'
<1>1. PICK scanned \in SUBSET Parts :
        /\ pc' = [w \in Workers |-> IF w \in {p \in scanned : Claimable(p)}
                                    THEN "get" ELSE pc[w]]
        /\ queue' = [p \in Parts |-> IF p \in {q \in scanned : Poison(q)}
                                     THEN {} ELSE queue[p]]
        /\ promised' = promised \ {p \in scanned : Poison(p)}
        /\ UNCHANGED snapshot
  BY DEF Claim
<1>2. ASSUME NEW p \in Parts PROVE KeptPart(p)'
  BY <1>1, <1>2 DEF Kept, KeptPart, Workers
<1>3. \A t \in Requests : pc'[t] # "expire"
  BY <1>1 DEF Kept, Workers
<1> QED BY <1>2, <1>3 DEF Kept

\* The steps of the drain and of time that write a row of the queue.
LEMMA QueueKeeps ==
  ASSUME Typed, Kept, NEW p \in Parts, Unqueue(p) \/ MarkAttempted(p) \/ Cool(p)
  PROVE  Kept'
<1>1. /\ UNCHANGED <<snapshot, promised>>
      /\ \A q \in Parts : q # p => queue'[q] = queue[q] /\ pc'[q] = pc[q]
  <2>1. CASE Unqueue(p) \/ MarkAttempted(p)
    BY <2>1 DEF Unqueue, MarkAttempted, Goto, history, Typed, TypeOK, Workers
  <2>2. CASE Cool(p)
    BY <2>2 DEF Cool, history, Typed, TypeOK
  <2> QED BY <2>1, <2>2
<1>2. /\ pc'[p] \in {"idle", pc[p]}
      /\ \A t \in Requests : pc'[t] = pc[t]
  BY WorkersAssumption DEF Unqueue, MarkAttempted, Cool, Goto, Typed, TypeOK, Workers
<1>3. p \in promised => queue'[p] # {}
  <2>1. CASE Unqueue(p)
    BY <2>1 DEF Unqueue, Kept, KeptPart
  <2>2. CASE MarkAttempted(p)
    BY <2>2 DEF MarkAttempted, Upsert, Typed, TypeOK
  <2>3. CASE Cool(p)
    BY <2>3 DEF Cool, Upsert, Typed, TypeOK
  <2> QED BY <2>1, <2>2, <2>3
<1>4. ASSUME NEW q \in Parts PROVE KeptPart(q)'
  BY <1>1, <1>2, <1>3, <1>4 DEF Kept, KeptPart
<1> QED BY <1>2, <1>4 DEF Kept

LEMMA NextKeeps ==
  ASSUME ~Expires, Typed, Kept, [Next]_vars PROVE Kept'
<1>1. ASSUME NEW w \in Workers, Run(w) PROVE Kept'
  <2>1. \A t \in Requests : ~Expire(t)
    BY DEF Kept, Expire, Goto
  <2> QED BY <1>1, <2>1, QuietSteps, StoreKeeps, PromiseKeeps, QueueKeeps DEF Run
<1>2. \A p \in Parts : ~Age(p)
  BY DEF Age
<1>3. CASE UNCHANGED vars
  BY <1>3 DEF vars, Kept, KeptPart
<1> QED BY <1>1, <1>2, <1>3, QuietSteps, ClaimKeeps, QueueKeeps DEF Next

\* While no NoMatch gets old, a part answered Pending from the cache alone is
\* on the queue until a lookup stores an answer or the drain gives it up,
\* for any number of parts, requests, faults and crashes.  With the deletion
\* of old ones the property fails: run parts_stale_delete.
THEOREM PendingKept ==
  ASSUME ~Expires PROVE Spec => []PendingIsQueued
<1>1. Init => Kept
  BY NoneIsNoRow DEF Init, Kept, KeptPart, Workers, Snapshots
<1>2. Typed /\ Kept /\ [Next]_vars => Kept'
  BY NextKeeps
<1>3. Typed /\ Kept => PendingIsQueued
  BY DEF Typed, TypeOK, Kept, KeptPart, PendingIsQueued
<1> QED BY <1>1, <1>2, <1>3, Shaped, PTL DEF Spec

----------------------------------------------------------------------------
(* The drain gives a part up only after MaxAttempts failed lookups of it.    *)

\* No row counts more attempts than lookups failed since the part was queued;
\* a row is the only one of its part first seen at its second.
CountedPart(p) ==
  /\ \A r \in queue[p] : r.attempts <= failures[p]
  /\ \A r, s \in queue[p] : r.seen = s.seen => r = s
  /\ pc[p] # "idle" => claim[p].attempts <= failures[p]
  /\ pc[p] = "failed" => claim[p].attempts + 1 <= failures[p]
Counted == \A p \in Parts : CountedPart(p)

\* One more failure keeps up with one more attempt, the cap notwithstanding.
LEMMA FailedCounts ==
  ASSUME Typed, NEW p \in Parts
  PROVE  /\ \A q \in Parts : Failed(p)[q] >= failures[q]
         /\ \A n \in Nat : n <= failures[p] /\ n < MaxAttempts => n + 1 <= Failed(p)[p]
  BY BoundsAssumption DEF Failed, Typed, TypeOK

LEMMA UpsertCounts ==
  ASSUME NEW rows \in SUBSET Row, NEW row \in Row, NEW n \in Nat,
         \A r \in rows : r.attempts <= n, row.attempts <= n,
         \A r, s \in rows : r.seen = s.seen => r = s
  PROVE  /\ \A r \in Upsert(rows, row) : r.attempts <= n
         /\ \A r, s \in Upsert(rows, row) : r.seen = s.seen => r = s
  BY DEF Upsert

\* Steps that leave the queue, the claims and the failures alone, and let no
\* part go on except to where a lookup goes.
LEMMA QuietCounts ==
  ASSUME Typed, Counted, UNCHANGED <<queue, failures>>,
         \A p \in Parts : /\ pc'[p] # "idle" => pc[p] # "idle" /\ claim'[p] = claim[p]
                          /\ pc'[p] = "failed" => pc[p] = "failed"
  PROVE  Counted'
  BY DEF Counted, CountedPart

\* A worker gets an answer or an error.
LEMMA WorkerCounts ==
  ASSUME Typed, Counted, NEW w \in Workers, Lookup(w) \/ Store(w) \/ Fail(w) PROVE Counted'
<1>1. PICK q : /\ pc' = [pc EXCEPT ![w] = q] /\ pc[w] # "idle"
               /\ w \in Parts /\ q = "failed" /\ pc[w] # "failed" => failures' = Failed(w)
  <2>1. CASE Lookup(w)
    <3>1. PICK a \in Answers(PartOf(w)) :
            /\ pc' = [pc EXCEPT ![w] = CASE a = "match" -> "storeMatch"
                                          [] a = "miss"  -> "storeMiss"
                                          [] OTHER       -> AfterFailure(w)]
            /\ failures' = IF w \in Parts /\ a \in {"limited", "error"}
                           THEN Failed(w) ELSE failures
      BY <2>1 DEF Lookup, Goto
    <3>2. a \in {"match", "limited", "miss", "error"}
      BY DEF Answers, Fallback
    <3> DEFINE q == CASE a = "match" -> "storeMatch"
                      [] a = "miss"  -> "storeMiss"
                      [] OTHER       -> AfterFailure(w)
    <3>3. a \notin {"limited", "error"} => q \in {"storeMatch", "storeMiss"}
      BY <3>2
    <3>4. w \in Parts /\ q = "failed" => failures' = Failed(w)
      BY <3>1, <3>3
    <3>5. pc' = [pc EXCEPT ![w] = q] /\ pc[w] # "idle"
      BY <2>1, <3>1 DEF Lookup
    <3> HIDE DEF q
    <3> QED BY <3>4, <3>5
  <2>2. CASE Store(w)
    <3> DEFINE q == IF w \in Parts THEN "unqueue" ELSE "idle"
    <3>1. q # "failed" /\ pc' = [pc EXCEPT ![w] = q] /\ pc[w] # "idle"
      BY <2>2 DEF Store
    <3> HIDE DEF q
    <3> QED BY <3>1
  <2>3. CASE Fail(w)
    <3>1. /\ pc' = [pc EXCEPT ![w] = AfterFault(w)] /\ pc[w] # "idle"
          /\ w \in Parts /\ AfterFault(w) = "failed" /\ pc[w] # "failed" => failures' = Failed(w)
      BY <2>3 DEF Fail
    <3> QED BY <3>1
  <2> QED BY <2>1, <2>2, <2>3
<1>2. failures' = failures \/ (w \in Parts /\ failures' = Failed(w))
  BY DEF Lookup, Store, Fail
<1>3. /\ UNCHANGED queue
      /\ \A p \in Parts : pc'[p] # "idle" => claim'[p] = claim[p]
  BY DEF Lookup, Store, Fail, tables, Typed, TypeOK
<1>4. ASSUME NEW p \in Parts PROVE CountedPart(p)'
  <2>1. /\ failures'[p] >= failures[p] /\ failures[p] \in Nat /\ failures'[p] \in Nat
        /\ \A r \in queue[p] : r.attempts \in Nat
    <3>1. /\ failures[p] \in Nat /\ \A u \in Parts : Failed(u)[p] \in Nat
          /\ \A r \in queue[p] : r \in Row
      BY BoundsAssumption DEF Failed, Typed, TypeOK
    <3> QED BY <1>2, <3>1, FailedCounts, BoundsAssumption DEF Row
  <2>2. pc[p] # "idle" => claim[p].attempts \in Nat /\ claim[p].attempts < MaxAttempts
    BY BoundsAssumption DEF Typed, Shape, WorkerShape, Workers, Row
  <2>3. CASE p # w
    <3>1. pc'[p] = pc[p]
      BY <1>1, <2>3 DEF Typed, TypeOK
    <3> QED BY <1>3, <2>1, <2>2, <3>1 DEF Counted, CountedPart
  <2>4. CASE p = w
    <3>1. pc'[p] = q
      BY <1>1, <2>4 DEF Typed, TypeOK
    <3>2. q = "failed" /\ pc[p] # "failed" => claim[p].attempts + 1 <= failures'[p]
      BY <1>1, <2>2, <2>4, FailedCounts DEF Counted, CountedPart
    <3> QED BY <1>1, <1>3, <2>1, <2>2, <2>4, <3>1, <3>2 DEF Counted, CountedPart
  <2> QED BY <2>3, <2>4
<1> QED BY <1>4 DEF Counted

LEMMA OtherStepsCount ==
  ASSUME Typed, Counted,
         \/ \E t \in Requests : \/ Get(t) \/ Expire(t) \/ Check(t)
                              \/ \E p \in Parts, kind \in Kinds : Ask(t, p, kind)
         \/ GetMany \/ SyncStart \/ SyncNext \/ BatchFails \/ Crash
         \/ \E p \in Parts : Age(p) \/ \E d \in Providers : Stock(p, d)
  PROVE  Counted'
<1>0. /\ \A t \in Requests : t \notin Parts
      /\ Sync \notin Parts
      /\ \A p \in Parts : p \in Workers
  BY WorkersAssumption DEF Workers
<1>1. ASSUME NEW t \in Requests,
             \/ Get(t) \/ Expire(t) \/ Check(t)
             \/ \E p \in Parts, kind \in Kinds : Ask(t, p, kind)
      PROVE  Counted'
  <2>1. UNCHANGED <<queue, failures, claim>>
    BY <1>1 DEF Get, Expire, Check, Ask, tables, history
  <2>2. PICK q : pc' = [pc EXCEPT ![t] = q]
    BY <1>1 DEF Get, Expire, Check, Ask, Goto
  <2>3. \A p \in Parts : pc'[p] = pc[p]
    BY <1>0, <2>2 DEF Typed, TypeOK
  <2> QED BY <2>1, <2>3, QuietCounts
<1>2. CASE GetMany \/ BatchFails
  <2>1. UNCHANGED <<queue, failures>>
    BY <1>2 DEF GetMany, BatchFails, tables, history
  <2>2. \A p \in Parts : /\ pc'[p] # "idle" => pc[p] # "idle" /\ claim'[p] = claim[p]
                         /\ pc'[p] = "failed" => pc[p] = "failed"
    BY <1>0, <1>2 DEF GetMany, BatchFails, Typed, TypeOK
  <2> QED BY <2>1, <2>2, QuietCounts
<1>3. CASE SyncStart \/ SyncNext
  <2>1. UNCHANGED <<queue, failures, claim>>
    BY <1>3 DEF SyncStart, SyncNext, tables, history
  <2>2. \A p \in Parts : pc'[p] = pc[p]
    BY <1>0, <1>3 DEF SyncStart, SyncNext, Goto, Typed, TypeOK
  <2> QED BY <2>1, <2>2, QuietCounts
<1>4. CASE Crash
  <2>1. UNCHANGED <<queue, failures>> /\ \A p \in Parts : pc'[p] = "idle"
    BY <1>0, <1>4 DEF Crash, tables, history
  <2> QED BY <2>1, QuietCounts
<1>5. ASSUME NEW p \in Parts, Age(p) \/ \E d \in Providers : Stock(p, d) PROVE Counted'
  <2>1. UNCHANGED <<queue, failures, claim, pc>>
    BY <1>5 DEF Age, Stock, tables, history
  <2> QED BY <2>1, QuietCounts
<1> QED BY <1>1, <1>2, <1>3, <1>4, <1>5

\* A row is written: a new one by a request, an attempt, the end of a backoff.
LEMMA RowCounts ==
  ASSUME Typed, Counted, NEW p \in Parts, NEW row \in Row, row.attempts <= failures[p],
         queue' = [queue EXCEPT ![p] = Upsert(queue[p], row)], UNCHANGED failures,
         \A q \in Parts : pc'[q] # "idle" => pc'[q] = pc[q] /\ claim'[q] = claim[q]
  PROVE  Counted'
<1>1. queue[p] \in SUBSET Row /\ failures[p] \in Nat
  BY BoundsAssumption DEF Typed, TypeOK
<1>2. /\ \A r \in queue'[p] : r.attempts <= failures[p]
      /\ \A r, s \in queue'[p] : r.seen = s.seen => r = s
  <2>1. queue'[p] = Upsert(queue[p], row)
    BY DEF Typed, TypeOK
  <2>2. /\ \A r \in queue[p] : r.attempts <= failures[p]
        /\ \A r, s \in queue[p] : r.seen = s.seen => r = s
    BY DEF Counted, CountedPart
  <2>3. /\ \A r \in Upsert(queue[p], row) : r.attempts <= failures[p]
        /\ \A r, s \in Upsert(queue[p], row) : r.seen = s.seen => r = s
    BY ONLY <1>1, <2>2, UpsertCounts, row \in Row, row.attempts <= failures[p]
  <2> QED BY <2>1, <2>3
<1>3. \A q \in Parts : q # p => queue'[q] = queue[q]
  BY DEF Typed, TypeOK
<1>4. ASSUME NEW q \in Parts PROVE CountedPart(q)'
  BY <1>2, <1>3, <1>4 DEF Counted, CountedPart
<1> QED BY <1>4 DEF Counted

LEMMA EnqueueCounts ==
  ASSUME Typed, Counted, NEW t \in Requests, Enqueue(t) PROVE Counted'
<1>1. t \in Workers /\ t \notin Parts /\ job[t].part \in Parts
  BY WorkersAssumption DEF Enqueue, Goto, Workers, Typed, Shape, WorkerShape, PartOf
<1>2. PICK s \in Stamps :
        queue' = [queue EXCEPT ![job[t].part] =
                    Upsert(@, [seen |-> s, attempts |-> 0, cooling |-> FALSE])]
  BY DEF Enqueue
<1> DEFINE row == [seen |-> s, attempts |-> 0, cooling |-> FALSE]
<1>3. row \in Row /\ row.attempts <= failures[job[t].part]
  BY <1>1, BoundsAssumption DEF Row, Typed, TypeOK
<1>4. queue' = [queue EXCEPT ![job[t].part] = Upsert(queue[job[t].part], row)]
  BY <1>2
<1>5. UNCHANGED failures /\ \A q \in Parts : pc'[q] = pc[q] /\ claim'[q] = claim[q]
  BY <1>1 DEF Enqueue, Goto, Typed, TypeOK
<1> HIDE DEF row
<1> QED BY <1>1, <1>3, <1>4, <1>5, RowCounts

LEMMA MarkAttemptedCounts ==
  ASSUME Typed, Counted, NEW p \in Parts, MarkAttempted(p) PROVE Counted'
<1>1. claim[p] \in Row /\ claim[p].attempts < MaxAttempts /\ pc[p] = "failed"
  BY DEF MarkAttempted, Goto, Workers, Typed, Shape, WorkerShape
<1>2. Attempted(claim[p]) \in Row /\ Attempted(claim[p]).attempts <= failures[p]
  BY <1>1, AttemptedRow DEF Counted, CountedPart
<1>3. /\ queue' = [queue EXCEPT ![p] = Upsert(queue[p], Attempted(claim[p]))]
      /\ UNCHANGED failures
  BY DEF MarkAttempted, history
<1>4. \A q \in Parts : pc'[q] # "idle" => pc'[q] = pc[q] /\ claim'[q] = claim[q]
  <2>1. p \in Workers
    BY DEF Workers
  <2>2. /\ pc'[p] = "idle"
        /\ \A q \in Parts : q # p => pc'[q] = pc[q] /\ claim'[q] = claim[q]
    BY <2>1 DEF MarkAttempted, Goto, Typed, TypeOK
  <2> QED BY <2>2
<1> QED BY <1>2, <1>3, <1>4, RowCounts

LEMMA CoolCounts ==
  ASSUME Typed, Counted, NEW p \in Parts, Cool(p) PROVE Counted'
<1>1. PICK r \in queue[p] :
        queue' = [queue EXCEPT ![p] = Upsert(queue[p], [r EXCEPT !.cooling = FALSE])]
  BY DEF Cool
<1> DEFINE row == [r EXCEPT !.cooling = FALSE]
<1>2. r \in Row
  BY <1>1 DEF Typed, TypeOK
<1>3. row \in Row /\ row.attempts = r.attempts
  BY <1>2 DEF Row
<1>4. row.attempts <= failures[p]
  BY <1>3 DEF Counted, CountedPart
<1>5. queue' = [queue EXCEPT ![p] = Upsert(queue[p], row)]
  BY <1>1
<1>6. UNCHANGED <<failures, pc, claim>>
  BY DEF Cool, history
<1> HIDE DEF row
<1> QED BY <1>3, <1>4, <1>5, <1>6, RowCounts

LEMMA UnqueueCounts ==
  ASSUME Typed, Counted, NEW p \in Parts, Unqueue(p) PROVE Counted'
<1>1. p \in Workers
  BY DEF Workers
<1>2. queue'[p] = {} /\ pc'[p] = "idle"
  BY <1>1 DEF Unqueue, Typed, TypeOK
<1>3. \A q \in Parts : q # p =>
        /\ queue'[q] = queue[q] /\ pc'[q] = pc[q]
        /\ claim'[q] = claim[q] /\ failures'[q] = failures[q]
  BY DEF Unqueue, Typed, TypeOK
<1>4. ASSUME NEW q \in Parts PROVE CountedPart(q)'
  BY <1>2, <1>3, <1>4 DEF Counted, CountedPart
<1> QED BY <1>4 DEF Counted

LEMMA ClaimCounts ==
  ASSUME Typed, Counted, Claim PROVE Counted'
<1>1. PICK scanned \in SUBSET Parts :
        /\ pc' = [w \in Workers |-> IF w \in {p \in scanned : Claimable(p)}
                                    THEN "get" ELSE pc[w]]
        /\ claim' = [p \in Parts |-> IF p \in {q \in scanned : Claimable(q)}
                                     THEN ReadyRow(p) ELSE None]
        /\ queue' = [p \in Parts |-> IF p \in {q \in scanned : Poison(q)}
                                     THEN {} ELSE queue[p]]
        /\ failures' = [p \in Parts |-> IF p \in {q \in scanned : Poison(q)}
                                        THEN 0 ELSE failures[p]]
        /\ \A p \in Parts : pc[p] = "idle"
  BY DEF Claim
<1>2. ASSUME NEW p \in Parts, Claimable(p) PROVE ~Poison(p)
  <2>1. SUFFICES ASSUME NEW r \in queue[p], IsFirst(p, r), r.attempts >= MaxAttempts
                 PROVE  FALSE
    BY DEF Poison
  <2>2. /\ ReadyRow(p) \in queue[p] /\ IsFirst(p, ReadyRow(p))
        /\ ReadyRow(p).attempts < MaxAttempts
    BY <1>2, ReadyRows
  <2>3. r \in Row /\ ReadyRow(p) \in Row
    BY <2>2 DEF Typed, TypeOK
  <2>4. r.seen <= ReadyRow(p).seen /\ ReadyRow(p).seen <= r.seen
    BY <2>1, <2>2 DEF IsFirst
  <2>5. r.seen = ReadyRow(p).seen
    <3>1. r.seen \in Nat /\ ReadyRow(p).seen \in Nat
      BY <2>3, BoundsAssumption DEF Row
    <3> QED BY <2>4, <3>1
  <2>6. r = ReadyRow(p)
    BY <2>2, <2>5 DEF Counted, CountedPart
  <2> QED BY <2>1, <2>2, <2>3, <2>6, BoundsAssumption DEF Row
<1>3. ASSUME NEW p \in Parts PROVE CountedPart(p)'
  <2>1. p \in Workers
    BY DEF Workers
  <2>2. CASE p \in scanned /\ Poison(p)
    <3>1. queue'[p] = {} /\ pc'[p] = "idle"
      BY <1>1, <1>2, <2>1, <2>2
    <3> QED BY <3>1 DEF CountedPart
  <2>3. CASE ~(p \in scanned /\ Poison(p))
    <3>1. /\ queue'[p] = queue[p] /\ failures'[p] = failures[p] /\ pc'[p] # "failed"
          /\ pc'[p] # "idle" => Claimable(p) /\ claim'[p] = ReadyRow(p)
      BY <1>1, <2>1, <2>3
    <3>2. pc'[p] # "idle" => claim'[p].attempts <= failures[p]
      BY <3>1, ReadyRows DEF Counted, CountedPart
    <3> QED BY <3>1, <3>2 DEF Counted, CountedPart
  <2> QED BY <2>2, <2>3
<1> QED BY <1>3 DEF Counted

LEMMA NextCounts ==
  ASSUME Typed, Counted, [Next]_vars PROVE Counted'
<1>1. ASSUME NEW w \in Workers, Run(w) PROVE Counted'
  BY <1>1, WorkerCounts, OtherStepsCount, EnqueueCounts, UnqueueCounts, MarkAttemptedCounts
  DEF Run
<1>2. CASE UNCHANGED vars
  BY <1>2 DEF vars, Counted, CountedPart
<1> QED BY <1>1, <1>2, WorkerCounts, OtherStepsCount, ClaimCounts, CoolCounts DEF Next

\* Writing a row leaves no queue empty.
LEMMA WrittenQueue ==
  ASSUME Typed, NEW p \in Parts, NEW q \in Parts, NEW row,
         queue' = [queue EXCEPT ![q] = Upsert(@, row)], queue'[p] = {}
  PROVE  queue[p] = {}
  BY DEF Typed, TypeOK, Upsert

\* Only Claim takes an idle part off the queue.
LEMMA GivenUpByClaim ==
  ASSUME Typed, NEW p \in Parts, [Next]_vars,
         queue[p] # {}, queue'[p] = {}, pc[p] = "idle"
  PROVE  Claim
<1>1. queue' # queue
  OBVIOUS
<1>2. ASSUME NEW w \in Workers, Run(w) PROVE FALSE
  <2>1. PICK q \in Parts : Unqueue(q) \/ MarkAttempted(q) \/ \E t \in Requests : Enqueue(t)
    BY <1>1, <1>2 DEF Run, Lookup, Store, Get, Expire, Check, tables
  <2>2. CASE Unqueue(q)
    BY <2>2 DEF Unqueue, Typed, TypeOK
  <2>3. CASE MarkAttempted(q)
    BY <2>3, WrittenQueue DEF MarkAttempted
  <2>4. ASSUME NEW t \in Requests, Enqueue(t) PROVE FALSE
    <3>1. job[t].part \in Parts
      BY <2>4, WorkersAssumption DEF Enqueue, Goto, Workers, Typed, Shape, WorkerShape, PartOf
    <3> QED BY <2>4, <3>1, WrittenQueue DEF Enqueue
  <2> QED BY <2>1, <2>2, <2>3, <2>4
<1>3. ASSUME NEW q \in Parts, Cool(q) PROVE FALSE
  BY <1>3, WrittenQueue DEF Cool
<1> QED
  BY <1>1, <1>2, <1>3
  DEF Next, vars, Fail, Ask, GetMany, SyncStart, SyncNext, BatchFails, Crash, Age, Stock, tables

\* The drain gives a part up only after MaxAttempts failed lookups of it
\* since it was queued: no race between requests that queue a part again and
\* the drain that marks its old row, and no crash, makes it give up earlier.
THEOREM GiveUpCounted == Spec => GivenUpAfterMaxAttempts
<1>1. Init => Counted
  BY BoundsAssumption DEF Init, Counted, CountedPart, Workers
<1>2. Typed /\ Counted /\ [Next]_vars => Counted'
  BY NextCounts
<1>3. Typed /\ Counted /\ [Next]_vars =>
        \A p \in Parts : queue[p] # {} /\ queue'[p] = {} /\ pc[p] = "idle" =>
                           failures[p] = MaxAttempts
  <2> SUFFICES ASSUME Typed, Counted, [Next]_vars, NEW p \in Parts,
                      queue[p] # {}, queue'[p] = {}, pc[p] = "idle"
               PROVE  failures[p] = MaxAttempts
    OBVIOUS
  <2>1. Claim
    BY GivenUpByClaim
  <2>2. PICK r \in queue[p] : r.attempts >= MaxAttempts
    BY <2>1 DEF Claim, Poison
  <2>3. r \in Row /\ r.attempts <= failures[p]
    BY <2>2 DEF Typed, TypeOK, Counted, CountedPart
  <2>4. r.attempts \in Nat /\ failures[p] \in 0..MaxAttempts
    BY <2>3, BoundsAssumption DEF Row, Typed, TypeOK
  <2> QED BY <2>2, <2>3, <2>4, BoundsAssumption
<1> QED BY <1>1, <1>2, <1>3, Shaped, PTL DEF Spec, GivenUpAfterMaxAttempts

=============================================================================
