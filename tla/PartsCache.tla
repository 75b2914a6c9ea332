----------------------------- MODULE PartsCache -----------------------------
(***************************************************************************)
(* The enrichment service's parts cache: one current snapshot per part     *)
(* (table prokuro-parts) and the queue of parts still to be looked up      *)
(* (table prokuro-unresolved).  Requests answer from the snapshots and     *)
(* queue what is missing; a drain loop looks queued parts up; a daily sync *)
(* looks up every part that has a snapshot.  None of them holds a lock:    *)
(* one step of this model is one access to a table or one lookup.          *)
(*                                                                         *)
(* A request for many parts is one request per part here: the parts share  *)
(* nothing but an error, which answers the whole request with an error.    *)
(***************************************************************************)
EXTENDS Naturals, FiniteSets

CONSTANTS
  Parts,        (* Part keys.  Part p also names the drain's lookup of p.   *)
  Requests,     (* Concurrent requests to /v1/enrich.                       *)
  Sync,         (* The daily sync loop.                                     *)
  Recurring,    (* The requests that are made again and again.              *)
  Kinds,        (* Kinds of requests; the gateway makes only CacheOnly ones. *)
  Providers,    (* The distributors of the fallback chain.                  *)
  Batch,        (* UNRESOLVED_DRAIN_BATCH.                                  *)
  MaxAttempts,  (* Failed lookups after which a part leaves the queue.      *)
  Stamps,       (* Bound: the seconds at which a row can first be seen.     *)
  Expires,      (* Does NOMATCH_RETRY_AFTER run out while we watch?         *)
  MaxFaults,    (* Bound: failed table accesses and crashes.                *)
  None          (* No snapshot, no claimed row, no part.                    *)

Workers == Requests \cup {Sync} \cup Parts

ASSUME WorkersAssumption ==
  /\ Sync \notin Requests \cup Parts
  /\ Requests \cap Parts = {}
  /\ Recurring \subseteq Requests
  /\ None \notin Parts
\* The query parameters cache_only (not live) and force_refresh.
Kind      == [live: BOOLEAN, force: BOOLEAN]
CacheOnly == [live |-> FALSE, force |-> FALSE]
ASSUME KindsAssumption == Kinds \subseteq Kind
ASSUME BoundsAssumption ==
  /\ Batch \in Nat \ {0} /\ MaxAttempts \in Nat \ {0} /\ MaxFaults \in Nat
  /\ Stamps \subseteq Nat /\ Expires \in BOOLEAN

Snapshots == {"match", "miss", "stale"}   \* "stale": a NoMatch of 5 minutes ago
Row == [seen: Stamps, attempts: 0..MaxAttempts, cooling: BOOLEAN]
ASSUME NoneIsNoRow == None \notin Snapshots \cup Row

VARIABLES
  carried,   (* carried[p]: the distributors that carry p.                  *)
  snapshot,  (* snapshot[p]: the CURRENT row of p, or None.                 *)
  queue,     (* queue[p]: the rows of p in prokuro-unresolved.              *)
  pc,        (* pc[w]: the next access of worker w.                         *)
  job,       (* job[t]: part and live flag of a request or of the sync.     *)
  claim,     (* claim[p]: the row of p the drain works on.                  *)
  todo,      (* The parts the running sync has not reached yet.             *)
  faults,    (* Faults so far.                                              *)
  promised,  (* History: parts answered Pending and not answered since.     *)
  failures   (* History: failed drain lookups since p was queued, capped.   *)

tables  == <<snapshot, queue>>
history == <<promised, failures>>
vars == <<carried, snapshot, queue, pc, job, claim, todo, faults, promised, failures>>

Job == [part: Parts \cup {None}, live: BOOLEAN]
Pcs == {"idle", "get", "expire", "check", "enqueue", "lookup", "storeMatch",
        "storeMiss", "cached", "unqueue", "failed"}

TypeOK ==
  /\ carried \in [Parts -> SUBSET Providers]
  /\ snapshot \in [Parts -> Snapshots \cup {None}]
  /\ queue \in [Parts -> SUBSET Row]
  /\ pc \in [Workers -> Pcs]
  /\ job \in [Requests \cup {Sync} -> Job]
  /\ claim \in [Parts -> Row \cup {None}]
  /\ todo \in SUBSET Parts
  /\ faults \in 0..MaxFaults
  /\ promised \in SUBSET Parts
  /\ failures \in [Parts -> 0..MaxAttempts]

NoJob == [part |-> None, live |-> FALSE]

Init ==
  /\ carried = [p \in Parts |-> {}]
  /\ snapshot = [p \in Parts |-> None]
  /\ queue = [p \in Parts |-> {}]
  /\ pc = [w \in Workers |-> "idle"]
  /\ job = [t \in Requests \cup {Sync} |-> NoJob]
  /\ claim = [p \in Parts |-> None]
  /\ todo = {}
  /\ faults = 0
  /\ promised = {}
  /\ failures = [p \in Parts |-> 0]

PartOf(w) == IF w \in Parts THEN w ELSE job[w].part

Goto(w, from, to) == pc[w] = from /\ pc' = [pc EXCEPT ![w] = to]

\* Whoever is idle has no part at hand.
Forget == job' = [t \in Requests \cup {Sync} |-> IF pc'[t] = "idle" THEN NoJob ELSE job[t]]

\* put_item and update_item replace the row with the same key, or add one.
Upsert(rows, row) == {r \in rows : r.seen # row.seen} \cup {row}

\* One more failed drain lookup of p.
Failed(p) == [failures EXCEPT ![p] = IF @ < MaxAttempts THEN @ + 1 ELSE @]

----------------------------------------------------------------------------
(* FallbackProvider::lookup and process_one, for all three callers *)

\* What a distributor can answer: rate limits and errors at any time.
Reply(p, d) == {"limited", "error", IF d \in carried[p] THEN "match" ELSE "miss"}

\* One match will do; a rate limit outranks a miss, a miss outranks an error.
Fallback(replies) ==
  CASE "match" \in replies   -> "match"
    [] "limited" \in replies /\ "match" \notin replies -> "limited"
    [] "miss" \in replies /\ replies \cap {"match", "limited"} = {} -> "miss"
    [] OTHER                 -> "error"

Answers(p) ==
  {Fallback({o[d] : d \in Providers}) :
     o \in {f \in [Providers -> {"match", "miss", "limited", "error"}] :
              \A d \in Providers : f[d] \in Reply(p, d)}}

\* Mutation: a failed drain lookup counts as resolved.
AfterFailure_Resolved(w) ==
  IF w \in Parts THEN "unqueue" ELSE IF w = Sync THEN "idle" ELSE "check"

\* A drain lookup is counted, a request queues its part, the sync goes on.
AfterFailure(w) ==
  IF w \in Parts THEN "failed" ELSE IF w = Sync THEN "idle" ELSE "check"

\* The drain takes the parts that turned out to be cached off the queue
\* before it looks the others up.
Lookup(w) ==
  /\ pc[w] = "lookup"
  /\ w \in Parts => \A p \in Parts : pc[p] # "cached"
  /\ \E a \in Answers(PartOf(w)) :
       /\ Goto(w, "lookup", CASE a = "match" -> "storeMatch"
                              [] a = "miss"  -> "storeMiss"
                              [] OTHER       -> AfterFailure(w))
       /\ todo' = IF w = Sync /\ a = "limited" THEN {} ELSE todo
       /\ failures' = IF w \in Parts /\ a \in {"limited", "error"}
                      THEN Failed(w) ELSE failures
  /\ Forget
  /\ UNCHANGED <<carried, tables, claim, faults, promised>>

Store(w) ==
  LET p == PartOf(w) IN
  /\ pc[w] \in {"storeMatch", "storeMiss"}
  /\ snapshot' = [snapshot EXCEPT ![p] = IF pc[w] = "storeMatch" THEN "match" ELSE "miss"]
  /\ pc' = [pc EXCEPT ![w] = IF w \in Parts THEN "unqueue" ELSE "idle"]
  /\ promised' = promised \ {p}
  /\ Forget
  /\ UNCHANGED <<carried, queue, claim, todo, faults, failures>>

----------------------------------------------------------------------------
(* enrich_lines *)

\* Where a request goes with a part it has no snapshot of.
Missed(live) == IF live THEN "lookup" ELSE "check"

\* force_refresh skips the snapshots.
Ask(t, p, kind) ==
  /\ Goto(t, "idle", IF kind.force THEN Missed(kind.live) ELSE "get")
  /\ job' = [job EXCEPT ![t] = [part |-> p, live |-> kind.live]]
  /\ UNCHANGED <<carried, tables, claim, todo, faults, history>>

\* Mutation: a NoMatch is an answer however old it is.
Get_Unexpired(t) ==
  /\ Goto(t, "get", IF snapshot[job[t].part] = None THEN Missed(job[t].live) ELSE "idle")
  /\ Forget
  /\ UNCHANGED <<carried, tables, claim, todo, faults, history>>

Get(t) ==
  LET found == snapshot[job[t].part] IN
  /\ Goto(t, "get", CASE found = None    -> Missed(job[t].live)
                      [] found = "stale" -> "expire"
                      [] OTHER           -> "idle")
  /\ Forget
  /\ UNCHANGED <<carried, tables, claim, todo, faults, history>>

\* delete_snapshot, whatever the row holds by now.
Expire(t) ==
  /\ Goto(t, "expire", Missed(job[t].live))
  /\ snapshot' = [snapshot EXCEPT ![job[t].part] = None]
  /\ Forget
  /\ UNCHANGED <<carried, queue, claim, todo, faults, history>>

\* The answer Pending; only cache_only promises that the part is queued, and
\* only a part that has no answer by now needs the promise.
Pending(t) ==
  LET p == job[t].part IN
  promised' = IF job[t].live \/ snapshot[p] # None THEN promised ELSE promised \cup {p}

\* has_unresolved
Check(t) ==
  /\ pc[t] = "check"
  /\ \/ /\ queue[job[t].part] # {}
        /\ Goto(t, "check", "idle") /\ Pending(t)
     \/ /\ queue[job[t].part] = {}
        /\ Goto(t, "check", "enqueue") /\ UNCHANGED promised
  /\ Forget
  /\ UNCHANGED <<carried, tables, claim, todo, faults, failures>>

\* The row is keyed by the second it was first seen.
Enqueue(t) ==
  LET p == job[t].part IN
  /\ Goto(t, "enqueue", "idle")
  /\ \E s \in Stamps :
       /\ \A r \in queue[p] : r.seen <= s
       /\ queue' = [queue EXCEPT ![p] =
                      Upsert(@, [seen |-> s, attempts |-> 0, cooling |-> FALSE])]
  /\ Pending(t) /\ Forget
  /\ UNCHANGED <<carried, snapshot, claim, todo, faults, failures>>

----------------------------------------------------------------------------
(* drain::run_once *)

\* The scan meets the rows of a part in the order they were first seen and
\* looks at the first one only.
IsFirst(p, r) == r \in queue[p] /\ \A s \in queue[p] : r.seen <= s.seen

\* Mutation: the attempts of a row are not looked at.
Ready_Unlimited(p, r) == IsFirst(p, r) /\ ~r.cooling

Ready(p, r) == IsFirst(p, r) /\ r.attempts < MaxAttempts /\ ~r.cooling

Claimable(p) == \E r \in queue[p] : Ready(p, r)
Poison(p)    == \E r \in queue[p] : IsFirst(p, r) /\ r.attempts >= MaxAttempts
ReadyRow(p)  == CHOOSE r \in queue[p] : Ready(p, r)

\* claim_unresolved: the scan stops when the batch is full.
Claim ==
  /\ \A p \in Parts : pc[p] = "idle"
  /\ \E scanned \in SUBSET Parts :
       LET ready   == {p \in scanned : Claimable(p)}
           dropped == {p \in scanned : Poison(p)}
       IN /\ ready \cup dropped # {}
          /\ Cardinality(ready) <= Batch
          /\ Cardinality(ready) = Batch \/ scanned = Parts
          /\ pc' = [w \in Workers |-> IF w \in ready THEN "get" ELSE pc[w]]
          /\ claim' = [p \in Parts |-> IF p \in ready THEN ReadyRow(p) ELSE None]
          /\ queue' = [p \in Parts |-> IF p \in dropped THEN {} ELSE queue[p]]
          /\ failures' = [p \in Parts |-> IF p \in dropped THEN 0 ELSE failures[p]]
          /\ promised' = promised \ dropped
  /\ UNCHANGED <<carried, snapshot, job, todo, faults>>

\* get_many: only a match makes a lookup superfluous.
GetMany ==
  LET batch == {p \in Parts : pc[p] = "get"} IN
  /\ batch # {}
  /\ pc' = [w \in Workers |->
              IF w \notin batch THEN pc[w]
              ELSE IF snapshot[w] = "match" THEN "cached" ELSE "lookup"]
  /\ UNCHANGED <<carried, tables, job, claim, todo, faults, history>>

\* delete_unresolved: all rows of the part.
Unqueue(p) ==
  /\ pc[p] \in {"cached", "unqueue"}
  /\ pc' = [pc EXCEPT ![p] = "idle"]
  /\ queue' = [queue EXCEPT ![p] = {}]
  /\ claim' = [claim EXCEPT ![p] = None]
  /\ failures' = [failures EXCEPT ![p] = 0]
  /\ UNCHANGED <<carried, snapshot, job, todo, faults, promised>>

\* Mutations: the attempt is not counted; it is counted twice.
Attempted_Uncounted(row) == [row EXCEPT !.cooling = TRUE]
Attempted_Twice(row) ==
  [row EXCEPT !.attempts = IF @ + 2 < MaxAttempts THEN @ + 2 ELSE MaxAttempts, !.cooling = TRUE]

Attempted(row) == [seen |-> row.seen, attempts |-> row.attempts + 1, cooling |-> TRUE]

\* mark_attempted, once the whole batch is through.
MarkAttempted(p) ==
  /\ \A q \in Parts : pc[q] \in {"idle", "failed"}
  /\ Goto(p, "failed", "idle")
  /\ queue' = [queue EXCEPT ![p] = Upsert(@, Attempted(claim[p]))]
  /\ claim' = [claim EXCEPT ![p] = None]
  /\ UNCHANGED <<carried, snapshot, job, todo, faults, history>>

----------------------------------------------------------------------------
(* sync::run_once *)

SyncStart ==
  /\ pc[Sync] = "idle" /\ todo = {}
  /\ todo' = {p \in Parts : snapshot[p] # None}
  /\ UNCHANGED <<carried, tables, pc, job, claim, faults, history>>

SyncNext ==
  /\ Goto(Sync, "idle", "lookup")
  /\ \E p \in todo :
       /\ job' = [job EXCEPT ![Sync] = [part |-> p, live |-> TRUE]]
       /\ todo' = todo \ {p}
  /\ UNCHANGED <<carried, tables, claim, faults, history>>

----------------------------------------------------------------------------
(* Time, distributors and faults *)

\* NOMATCH_RETRY_AFTER (five minutes) after it was stored a NoMatch is stale;
\* the drain that stored it has made its next access long before.
Age(p) ==
  /\ Expires /\ snapshot[p] = "miss" /\ pc[p] # "unqueue"
  /\ snapshot' = [snapshot EXCEPT ![p] = "stale"]
  /\ UNCHANGED <<carried, queue, pc, job, claim, todo, faults, history>>

\* The backoff of a row is over.
Cool(p) ==
  /\ \E r \in queue[p] :
       /\ r.cooling
       /\ queue' = [queue EXCEPT ![p] = Upsert(@, [r EXCEPT !.cooling = FALSE])]
  /\ UNCHANGED <<carried, snapshot, pc, job, claim, todo, faults, history>>

\* A distributor starts to carry a part.
Stock(p, d) ==
  /\ d \notin carried[p]
  /\ carried' = [carried EXCEPT ![p] = @ \cup {d}]
  /\ UNCHANGED <<tables, pc, job, claim, todo, faults, history>>

\* A table access of w fails: a failed deletion of a stale snapshot, of the
\* rows of a cached part and a failed mark_attempted are ignored.
AfterFault(w) ==
  CASE pc[w] = "expire" -> Missed(job[w].live)
    [] pc[w] \in {"storeMatch", "storeMiss"} -> AfterFailure(w)
    [] pc[w] = "unqueue" -> "failed"
    [] OTHER -> "idle"

Fail(w) ==
  /\ faults < MaxFaults
  /\ pc[w] \notin {"idle", "lookup"} /\ (pc[w] = "get" => w \in Requests)
  /\ pc' = [pc EXCEPT ![w] = AfterFault(w)]
  /\ claim' = [p \in Parts |-> IF p = w /\ AfterFault(w) = "idle" THEN None ELSE claim[p]]
  /\ failures' = IF w \in Parts /\ pc[w] # "failed" /\ AfterFault(w) = "failed"
                 THEN Failed(w) ELSE failures
  /\ faults' = faults + 1
  /\ Forget
  /\ UNCHANGED <<carried, tables, todo, promised>>

\* get_many of the drain fails: the batch is given up without a mark.
BatchFails ==
  LET batch == {p \in Parts : pc[p] = "get"} IN
  /\ faults < MaxFaults /\ batch # {}
  /\ pc' = [w \in Workers |-> IF w \in batch THEN "idle" ELSE pc[w]]
  /\ claim' = [p \in Parts |-> IF p \in batch THEN None ELSE claim[p]]
  /\ faults' = faults + 1
  /\ UNCHANGED <<carried, tables, job, todo, history>>

\* The process dies and restarts.
Crash ==
  /\ faults < MaxFaults
  /\ \E w \in Workers : pc[w] # "idle"
  /\ pc' = [w \in Workers |-> "idle"]
  /\ claim' = [p \in Parts |-> None]
  /\ todo' = {}
  /\ faults' = faults + 1
  /\ Forget
  /\ UNCHANGED <<carried, tables, history>>

----------------------------------------------------------------------------

Run(w) ==
  \/ Lookup(w) \/ Store(w)
  \/ w \in Requests /\ (Get(w) \/ Expire(w) \/ Check(w) \/ Enqueue(w))
  \/ w \in Parts /\ (Unqueue(w) \/ MarkAttempted(w))

Next ==
  \/ \E w \in Workers : Run(w) \/ Fail(w)
  \/ \E t \in Requests, p \in Parts, kind \in Kinds : Ask(t, p, kind)
  \/ Claim \/ GetMany \/ SyncStart \/ SyncNext \/ BatchFails \/ Crash
  \/ \E p \in Parts : Age(p) \/ Cool(p) \/ \E d \in Providers : Stock(p, d)

Spec == Init /\ [][Next]_vars

\* The loops never end, every call returns, backoffs and ages run out, some
\* client keeps asking for a part, and a distributor that carries a part
\* does not fail every lookup of it.
Finds(w, p) == PartOf(w) = p /\ Lookup(w) /\ pc'[w] = "storeMatch"
Fairness ==
  /\ \A w \in Workers : WF_vars(Run(w))
  /\ WF_vars(Claim) /\ WF_vars(GetMany) /\ WF_vars(SyncNext)
  /\ \A p \in Parts :
       /\ WF_vars(Age(p)) /\ WF_vars(Cool(p))
       /\ \A w \in Workers : SF_vars(Finds(w, p))
       /\ \A t \in Recurring : SF_vars(Ask(t, p, CacheOnly))

FairSpec == Spec /\ Fairness

----------------------------------------------------------------------------
(* Properties *)

\* A part answered Pending from the cache alone is not forgotten: until a
\* lookup stores an answer (or the drain gives the part up) it is queued.
PendingIsQueued == \A p \in promised : queue[p] # {}

\* The drain gives a part up only after MaxAttempts lookups of it failed
\* since it was queued, whatever requests, crashes and faults do meanwhile.
GivenUpAfterMaxAttempts ==
  [][\A p \in Parts :
       queue[p] # {} /\ queue'[p] = {} /\ pc[p] = "idle" =>
         failures[p] = MaxAttempts]_vars

\* No part stays queued for ever: it is found, missed or given up, also when
\* the distributors fail all the time.
QueueDrains == \A p \in Parts : []<>(queue[p] = {})

\* A part that some distributor carries and clients keep asking for is found,
\* through expiring misses, lost races, failed lookups and restarts.
EventuallyFound ==
  \A p \in Parts : carried[p] # {} ~> snapshot[p] = "match"

=============================================================================
