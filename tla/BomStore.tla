------------------------------ MODULE BomStore ------------------------------
(***************************************************************************)
(* The gateway's BOM store: for every BOM of one account the objects       *)
(* metadata.json and analyze.json, and the account's index.json, written   *)
(* one object at a time by concurrent requests.  Mutations hold the        *)
(* mutation_lock of their own gateway process; reads hold no lock.         *)
(*                                                                         *)
(* One step of this model is one access to the object store (one await).   *)
(* Between two of them any other request may run, the request may be       *)
(* dropped or fail, and the process may die.                               *)
(*                                                                         *)
(* The lines of a BOM are abstracted to the set of edits they contain (an  *)
(* upload counts as the first one) and the scores of the lines to one      *)
(* value of Risks, which the summary repeats.                              *)
(***************************************************************************)
EXTENDS Naturals, FiniteSets

CONSTANTS
  Boms,         (* BOM ids (the upload ids) of the account.                 *)
  Extends,      (* Extends[b]: the other ids whose text begins with b.      *)
  Tasks,        (* Concurrent requests: each is one tokio task.             *)
  Refreshers,   (* The tasks that run the daily refresh loop.               *)
  Instances,    (* Gateway processes.                                       *)
  InstanceOf,   (* InstanceOf[t]: the process that serves task t.           *)
  Mode,         (* "Local": files; "S3": object store with ETags.           *)
  Risks,        (* Scores an analysis can have.                             *)
  ReuseIds,     (* May an upload id be created a second time?               *)
  MaxIds,       (* Bound: uploads and edits together.                       *)
  MaxFaults,    (* Bound: failed accesses, dropped requests and crashes.    *)
  None          (* No object, no entry, no lock owner, no BOM.              *)

ASSUME BomsAssumption ==
  /\ Boms # {} /\ Tasks # {} /\ Risks # {}
  /\ None \notin Boms \cup Tasks
  /\ Extends \in [Boms -> SUBSET Boms]
ASSUME TasksAssumption ==
  /\ InstanceOf \in [Tasks -> Instances]
  /\ Refreshers \subseteq Tasks
ASSUME ModeAssumption ==
  /\ Mode \in {"Local", "S3"}
  /\ ReuseIds \in BOOLEAN
  /\ MaxIds \in Nat /\ MaxFaults \in Nat

Ids     == 1..MaxIds
Summary == [version: Nat, born: Ids, risk: Risks]
Content == [edits: SUBSET Ids, risk: Risks]
Listing == [Boms -> Summary \cup {None}]
Commit  == [edit: Ids, version: Nat]

LedgerEntry == [version: Nat, edits: SUBSET Ids]   \* see RefinesLedger
ASSUME NoneIsNoObject ==
  None \notin Summary \cup Content \cup Listing \cup LedgerEntry

\* create = POST, edit = PATCH/POST/DELETE of a line, put = PUT of all lines,
\* overlay = GET with read-through refresh, daily = the daily refresh.
Edits     == {"edit", "put"}
Refreshes == {"overlay", "daily"}
Ops       == Edits \cup Refreshes \cup {"create", "delete"}

VARIABLES
  metadata,  (* metadata[b]: the Summary in metadata.json, or None.         *)
  analyze,   (* analyze[b]: the Content in analyze.json, or None.           *)
  index,     (* index.json: the Summary listed for each BOM, or None.       *)
  lock,      (* lock[i]: the task that holds mutation_lock of process i.    *)
  pc,        (* pc[t]: the next store access of task t.                     *)
  job,       (* job[t]: the locals of task t.                               *)
  used,      (* The ids that were ever uploaded.                            *)
  nextId,    (* The next fresh edit.                                        *)
  faults,    (* Faults so far.                                              *)
  commits    (* History: uploads and edits whose metadata.json was written. *)

store   == <<metadata, analyze, index>>
history == <<used, nextId, commits>>
vars    == <<metadata, analyze, index, lock, pc, job, used, nextId, faults, commits>>

\* The locals of a request: its operation and BOM, the version it expects,
\* the edit it makes, the content it read or will write, the summary it will
\* write, the metadata whose ETag it holds and the index it read.
Job == [op: Ops \cup {"none"}, bom: Boms \cup {None}, expected: Nat,
        edit: Ids \cup {0}, content: Content \cup {None},
        summary: Summary \cup {None}, etag: Summary \cup {None},
        listing: Listing \cup {None}]

Request(o, b, v, e, c, s) ==
  [op |-> o, bom |-> b, expected |-> v, edit |-> e,
   content |-> c, summary |-> s, etag |-> None, listing |-> None]
NoJob == Request("none", None, 0, 0, None, None)

Locked  == {"loadMeta", "loadAnalyze", "putAnalyze", "putMeta", "casRead",
            "casClaim", "casAnalyze", "readIndex", "writeIndex", "deletePrefix"}
Pcs     == {"idle", "getAnalyze", "thinking", "waitLock"} \cup Locked

TypeOK ==
  /\ metadata \in Listing
  /\ analyze \in [Boms -> Content \cup {None}]
  /\ index \in Listing
  /\ lock \in [Instances -> Tasks \cup {None}]
  /\ pc \in [Tasks -> Pcs]
  /\ job \in [Tasks -> Job]
  /\ used \in SUBSET Boms
  /\ nextId \in 1..(MaxIds + 1)
  /\ faults \in 0..MaxFaults
  /\ commits \in [Boms -> SUBSET Commit]

Init ==
  /\ metadata = [b \in Boms |-> None]
  /\ analyze = [b \in Boms |-> None]
  /\ index = [b \in Boms |-> None]
  /\ lock = [i \in Instances |-> None]
  /\ pc = [t \in Tasks |-> "idle"]
  /\ job = [t \in Tasks |-> NoJob]
  /\ used = {}
  /\ nextId = 1
  /\ faults = 0
  /\ commits = [b \in Boms |-> {}]

----------------------------------------------------------------------------
(* Steps of a task *)

Goto(t, from, to) == pc[t] = from /\ pc' = [pc EXCEPT ![t] = to]

\* Mutation: a guard that nobody drops.
Released_Never(ts) == lock

\* The locks once the guards of the tasks in ts are dropped.
Released(ts) == [i \in Instances |-> IF lock[i] \in ts THEN None ELSE lock[i]]

\* The tasks in ts return, fail or are dropped: their guards go with them.
Leave(ts) ==
  /\ pc' = [t \in Tasks |-> IF t \in ts THEN "idle" ELSE pc[t]]
  /\ job' = [t \in Tasks |-> IF t \in ts THEN NoJob ELSE job[t]]
  /\ lock' = Released(ts)

\* The request ends here without another access (an early return).
Return(t) == Leave({t}) /\ UNCHANGED <<store, history, faults>>

----------------------------------------------------------------------------
(* Arrivals *)

\* POST /v1/boms with an analysis whose upload_id is b.
Create(t, b) ==
  /\ nextId <= MaxIds
  /\ ReuseIds \/ b \notin used
  /\ Goto(t, "idle", "waitLock")
  /\ \E r \in Risks :
       job' = [job EXCEPT ![t] = Request("create", b, 0, nextId,
                 [edits |-> {nextId}, risk |-> r],
                 [version |-> 1, born |-> nextId, risk |-> r])]
  /\ used' = used \cup {b}
  /\ nextId' = nextId + 1
  /\ UNCHANGED <<store, lock, commits, faults>>

\* PATCH, POST or DELETE of a line, with the version the client last read.
Edit(t, b, v) ==
  /\ Goto(t, "idle", "waitLock")
  /\ job' = [job EXCEPT ![t] = Request("edit", b, v, 0, None, None)]
  /\ UNCHANGED <<store, lock, history, faults>>

\* DELETE /v1/boms/{b}.
Delete(t, b) ==
  /\ Goto(t, "idle", "waitLock")
  /\ job' = [job EXCEPT ![t] = Request("delete", b, 0, 0, None, None)]
  /\ UNCHANGED <<store, lock, history, faults>>

----------------------------------------------------------------------------
(* get_bom: two reads without the lock, then the overlay of the parts cache *)

\* A GET (which refreshes what it read), a client that reads a BOM in order
\* to PUT it, or the daily refresh reaching a BOM it found in the index, reads
\* metadata.json.  (Without one the answer is 404 and nothing changes.)
GetMeta(t, o, b) ==
  /\ o = "daily" => index[b] # None
  /\ metadata[b] # None
  /\ Goto(t, "idle", "getAnalyze")
  /\ job' = [job EXCEPT ![t] = Request(o, b, metadata[b].version, 0, None, None)]
  /\ UNCHANGED <<store, lock, history, faults>>

\* The daily refresh writes whatever came out, a GET only changed scores.
GetAnalyze(t) ==
  LET b == job[t].bom IN
  /\ pc[t] = "getAnalyze" /\ analyze[b] # None
  /\ Goto(t, "getAnalyze", IF job[t].op = "put" THEN "thinking" ELSE "waitLock")
  /\ \E r \in Risks :
       /\ job[t].op = "put" => r = analyze[b].risk
       /\ job' = [job EXCEPT ![t].content = [analyze[b] EXCEPT !.risk = r]]
  /\ UNCHANGED <<store, lock, history, faults>>

\* A refresh leaves without writing when the enrichment service fails; a GET
\* also when no score changed; everyone when analyze.json is absent.
GetLeaves(t) ==
  /\ pc[t] = "getAnalyze"
  /\ analyze[job[t].bom] = None \/ job[t].op \in Refreshes
  /\ Return(t)

\* The client sends back the lines it read, changed, with their version.
SendPut(t) ==
  /\ Goto(t, "thinking", "waitLock")
  /\ UNCHANGED <<store, lock, job, history, faults>>

----------------------------------------------------------------------------
(* mutation_lock *)

FirstLocked(o) ==
  CASE o = "create"        -> "putAnalyze"
    [] o = "delete"        -> "readIndex"
    [] o \in Edits         -> "loadMeta"
    [] OTHER               -> "casRead"

\* Mutation: the lock is taken without waiting for it.
Acquire_Unlocked(t) ==
  /\ Goto(t, "waitLock", FirstLocked(job[t].op))
  /\ lock' = [lock EXCEPT ![InstanceOf[t]] = t]
  /\ UNCHANGED <<store, job, history, faults>>

Acquire(t) ==
  /\ lock[InstanceOf[t]] = None
  /\ Goto(t, "waitLock", FirstLocked(job[t].op))
  /\ lock' = [lock EXCEPT ![InstanceOf[t]] = t]
  /\ UNCHANGED <<store, job, history, faults>>

----------------------------------------------------------------------------
(* load_mutable, ensure_version, the edit itself and persist_bom *)

LoadMeta(t) ==
  LET b == job[t].bom IN
  /\ pc[t] = "loadMeta"
  /\ \/ metadata[b] = None /\ Return(t)
     \/ /\ metadata[b] # None
        /\ Goto(t, "loadMeta", "loadAnalyze")
        /\ job' = [job EXCEPT ![t].summary = metadata[b]]
        /\ UNCHANGED <<store, lock, history, faults>>

\* Mutation: expected_version is ignored.
EnsureVersion_Skipped(t) == TRUE

EnsureVersion(t) == job[t].summary.version = job[t].expected

\* put_bom replaces the lines by the client's; the others change stored ones.
EditedLines(t, stored) ==
  (IF job[t].op = "put" THEN job[t].content.edits ELSE stored.edits) \cup {nextId}

\* Mutation: an edit forgets to recompute the scores of the summary.
BumpSummary_Unscored(s, r) == [version |-> s.version + 1, born |-> s.born, risk |-> None]

BumpSummary(s, r) == [version |-> s.version + 1, born |-> s.born, risk |-> r]

\* Returns early when analyze.json is absent, on a version conflict and when
\* the line index is out of range (and at the bound of this model).
LoadAnalyze(t) ==
  LET stored == analyze[job[t].bom] IN
  /\ pc[t] = "loadAnalyze"
  /\ \/ (stored = None \/ ~EnsureVersion(t) \/ job[t].op = "edit") /\ Return(t)
     \/ nextId > MaxIds /\ Return(t)
     \/ /\ stored # None /\ EnsureVersion(t) /\ nextId <= MaxIds
        /\ Goto(t, "loadAnalyze", "putAnalyze")
        /\ \E r \in Risks :
             job' = [job EXCEPT ![t] = Request(job[t].op, job[t].bom, job[t].expected,
                       nextId, [edits |-> EditedLines(t, stored), risk |-> r],
                       BumpSummary(job[t].summary, r))]
        /\ nextId' = nextId + 1
        /\ UNCHANGED <<store, lock, used, commits, faults>>

PutAnalyze(t) ==
  LET b == job[t].bom IN
  /\ Goto(t, "putAnalyze", "putMeta")
  /\ analyze' = [analyze EXCEPT ![b] = job[t].content]
  /\ commits' = IF job[t].op = "create" THEN [commits EXCEPT ![b] = {}] ELSE commits
  /\ UNCHANGED <<metadata, index, lock, job, used, nextId, faults>>

PutMeta(t) ==
  LET b == job[t].bom  s == job[t].summary IN
  /\ Goto(t, "putMeta", "readIndex")
  /\ metadata' = [metadata EXCEPT ![b] = s]
  /\ commits' = [commits EXCEPT ![b] =
                   @ \cup {[edit |-> job[t].edit, version |-> s.version]}]
  /\ UNCHANGED <<analyze, index, lock, job, used, nextId, faults>>

----------------------------------------------------------------------------
(* update_analyze_and_summary_cas *)

CasRead(t) ==
  LET stored == metadata[job[t].bom] IN
  /\ pc[t] = "casRead"
  /\ \/ stored = None /\ Return(t)
     \/ stored # None /\ stored.version # job[t].expected /\ Return(t)
     \/ /\ stored # None /\ stored.version = job[t].expected
        /\ Goto(t, "casRead", "casClaim")
        /\ job' = [job EXCEPT ![t].etag = stored]
        /\ UNCHANGED <<store, lock, history, faults>>

\* Mutations: a refresh leaves the old score, or counts as an edit.
RefreshedSummary_Stale(stored, r) == stored
RefreshedSummary_Bumped(stored, r) == [stored EXCEPT !.risk = r, !.version = @ + 1]

\* The summary a refresh writes keeps the version and identity it read.
RefreshedSummary(stored, r) == [stored EXCEPT !.risk = r]

\* Mutation: the put of a refresh is unconditional.
IfMatch_Ignored(t) == TRUE

\* The conditional put of S3 compares ETags, that is, contents; a file is
\* always written.
IfMatch(t) == Mode = "S3" => metadata[job[t].bom] = job[t].etag

CasClaim(t) ==
  LET claimed == RefreshedSummary(job[t].etag, job[t].content.risk) IN
  /\ pc[t] = "casClaim"
  /\ \/ ~IfMatch(t) /\ Return(t)
     \/ /\ IfMatch(t)
        /\ Goto(t, "casClaim", "casAnalyze")
        /\ metadata' = [metadata EXCEPT ![job[t].bom] = claimed]
        /\ job' = [job EXCEPT ![t].summary = claimed]
        /\ UNCHANGED <<analyze, index, lock, history, faults>>

CasAnalyze(t) ==
  /\ Goto(t, "casAnalyze", "readIndex")
  /\ analyze' = [analyze EXCEPT ![job[t].bom] = job[t].content]
  /\ UNCHANGED <<metadata, index, lock, job, history, faults>>

----------------------------------------------------------------------------
(* The account's index, rewritten as a whole, and the end of each mutation *)

WithIndex(t, seen) ==
  /\ pc[t] = "readIndex"
  /\ \/ /\ job[t].op = "delete" /\ seen[job[t].bom] = None
        /\ Leave({t})
     \/ /\ job[t].op = "delete" => seen[job[t].bom] # None
        /\ Goto(t, "readIndex", "writeIndex")
        /\ job' = [job EXCEPT ![t].listing = seen]
        /\ UNCHANGED lock
  /\ UNCHANGED <<store, history>>

ReadIndex(t) == WithIndex(t, index) /\ UNCHANGED faults

\* On S3 a read that fails for any reason counts as an absent object, and an
\* absent index.json as an empty index.
ReadIndexMisses(t) ==
  /\ Mode = "S3" /\ faults < MaxFaults
  /\ WithIndex(t, [b \in Boms |-> None])
  /\ faults' = faults + 1

\* Mutations: the old entry is taken out but not pushed back; a refresh does
\* not reach the index.
UpdatedIndex_Unpushed(t) ==
  LET b == job[t].bom IN
  [job[t].listing EXCEPT ![b] = IF job[t].op \in Refreshes THEN None ELSE job[t].summary]
UpdatedIndex_Detached(t) ==
  LET b == job[t].bom IN
  [job[t].listing EXCEPT ![b] = IF job[t].op \in Refreshes THEN @ ELSE job[t].summary]

\* A refresh only replaces an entry; an edit or upload adds a missing one.
UpdatedIndex(t) ==
  LET b == job[t].bom  seen == job[t].listing IN
  IF job[t].op \in Refreshes /\ seen[b] = None
  THEN seen ELSE [seen EXCEPT ![b] = job[t].summary]

WriteIndex(t) ==
  /\ pc[t] = "writeIndex" /\ job[t].op # "delete"
  /\ index' = UpdatedIndex(t)
  /\ Leave({t})
  /\ UNCHANGED <<metadata, analyze, history, faults>>

\* delete_bom takes the BOM off the index first ...
WriteIndexDelete(t) ==
  /\ job[t].op = "delete"
  /\ Goto(t, "writeIndex", "deletePrefix")
  /\ index' = [job[t].listing EXCEPT ![job[t].bom] = None]
  /\ UNCHANGED <<metadata, analyze, lock, job, history, faults>>

\* ... and then deletes a directory, or on S3 all keys that begin with the id.
Erased(b) == {b} \cup (IF Mode = "S3" THEN Extends[b] ELSE {})

DeletePrefix(t) ==
  LET gone == Erased(job[t].bom) IN
  /\ pc[t] = "deletePrefix"
  /\ metadata' = [b \in Boms |-> IF b \in gone THEN None ELSE metadata[b]]
  /\ analyze' = [b \in Boms |-> IF b \in gone THEN None ELSE analyze[b]]
  /\ commits' = [b \in Boms |-> IF b \in gone THEN {} ELSE commits[b]]
  /\ Leave({t})
  /\ UNCHANGED <<index, used, nextId, faults>>

----------------------------------------------------------------------------
(* Faults *)

\* An access fails, or the client goes away and the handler is dropped: the
\* objects already written stay as they are.
Abort(t) ==
  /\ pc[t] # "idle" /\ faults < MaxFaults
  /\ Leave({t})
  /\ faults' = faults + 1
  /\ UNCHANGED <<store, history>>

\* A gateway process dies with all its requests and restarts.
Crash(i) ==
  LET victims == {t \in Tasks : InstanceOf[t] = i} IN
  /\ faults < MaxFaults
  /\ \E t \in victims : pc[t] # "idle"
  /\ Leave(victims)
  /\ faults' = faults + 1
  /\ UNCHANGED <<store, history>>

----------------------------------------------------------------------------

Arrive(t) ==
  \E b \in Boms :
    IF t \in Refreshers THEN GetMeta(t, "daily", b)
    ELSE \/ Create(t, b)
         \/ Delete(t, b)
         \/ \E v \in Ids : Edit(t, b, v)
         \/ \E o \in {"put", "overlay"} : GetMeta(t, o, b)

Step(t) ==
  \/ GetAnalyze(t) \/ GetLeaves(t)
  \/ LoadMeta(t) \/ LoadAnalyze(t) \/ PutAnalyze(t) \/ PutMeta(t)
  \/ CasRead(t) \/ CasClaim(t) \/ CasAnalyze(t)
  \/ ReadIndex(t) \/ WriteIndex(t) \/ WriteIndexDelete(t) \/ DeletePrefix(t)

Next ==
  \/ \E t \in Tasks : Arrive(t) \/ SendPut(t) \/ Acquire(t) \/ Step(t)
                         \/ ReadIndexMisses(t) \/ Abort(t)
  \/ \E i \in Instances : Crash(i)

Spec == Init /\ [][Next]_vars

\* Tokio polls every spawned task and its Mutex is first come first served;
\* the daily loop never ends, and the enrichment service does not fail it
\* every time.
Fairness ==
  /\ \A t \in Tasks : WF_vars(Step(t)) /\ SF_vars(Acquire(t))
  /\ \A t \in Refreshers :
       SF_vars(GetAnalyze(t)) /\ \A b \in Boms : SF_vars(GetMeta(t, "daily", b))

FairSpec == Spec /\ Fairness

----------------------------------------------------------------------------
(* Properties *)

CommittedEdits(b) == {c.edit : c \in commits[b]}
Busy == \E i \in Instances : lock[i] # None

\* No committed change is lost: an upload or edit that moved the version on
\* (every one answered with success did) is part of the stored lines from
\* then on, although reads, refreshes and edits interleave and fail half-way.
CommittedEditsKept ==
  \A b \in Boms : commits[b] # {} =>
    analyze[b] # None /\ CommittedEdits(b) \subseteq analyze[b].edits

\* Optimistic concurrency: of the edits made against one version of a BOM at
\* most one ever commits (the others get 409 Conflict).
OneCommitPerVersion ==
  \A b \in Boms : \A x, y \in commits[b] : x.version = y.version => x = y

\* A listed BOM leaves the account's list only by its own deletion, whatever
\* else fails.
StaysListed ==
  [][\A b \in Boms : index[b] # None /\ index'[b] = None =>
       \E t \in Tasks : pc[t] = "writeIndex" /\ job[t].op = "delete"
                          /\ job[t].bom = b]_vars

\* Without faults the list page, the detail page and the scores agree
\* whenever no mutation is running, and nothing is stored off the list:
\* flagged_lines may therefore skip the BOMs whose listed score is clear.
ListMatchesDetail ==
  faults = 0 /\ ~Busy => \A b \in Boms :
    IF index[b] = None THEN metadata[b] = None /\ analyze[b] = None
    ELSE /\ metadata[b] = index[b]
         /\ analyze[b] # None /\ analyze[b].risk = index[b].risk

\* A refresh changes scores only: it never takes a committed edit out of
\* analyze.json by writing back lines it read before that edit.
RefreshKeepsEdits ==
  [][\A t \in Tasks : LET b == job[t].bom IN
       pc[t] = "casAnalyze" /\ pc'[t] = "readIndex" /\ analyze[b] # None =>
         analyze[b].edits \cap CommittedEdits(b) \subseteq analyze'[b].edits]_vars

\* A refresh claims a BOM without moving its version or its identity, even
\* when another gateway process edits the BOM between its read and its write.
RefreshKeepsVersion ==
  [][\A t \in Tasks : LET b == job[t].bom IN
       pc[t] = "casClaim" /\ pc'[t] = "casAnalyze" =>
         /\ metadata[b] # None
         /\ metadata'[b].version = metadata[b].version
         /\ metadata'[b].born = metadata[b].born]_vars

\* The id of a BOM is one segment of its object keys, so deleting a BOM takes
\* no object of another BOM away.
DeleteSparesOthers ==
  [][\A b \in Boms : metadata[b] # None /\ metadata'[b] = None =>
       \E t \in Tasks : pc[t] = "deletePrefix" /\ job[t].bom = b]_vars

\* Every request that waits for the lock is answered.
RequestsAnswered ==
  \A t \in Tasks : pc[t] = "waitLock" ~> pc[t] = "idle"

\* After failures between the writes of a mutation, the daily refresh makes
\* list, detail and scores of every listed BOM agree again.
Consistent(b) ==
  index[b] # None =>
    metadata[b] = index[b] /\ analyze[b] # None /\ analyze[b].risk = index[b].risk
DailyRefreshRepairs == \A b \in Boms : []<>Consistent(b)

\* The store promises what BomLedger says: a BOM is one versioned value, and
\* each version has exactly one more edit than the version before it.
ledgerOf ==
  [b \in Boms |->
    IF metadata[b] = None THEN None
    ELSE [version |-> metadata[b].version,
          edits |-> IF analyze[b] = None THEN {}
                    ELSE analyze[b].edits \cap CommittedEdits(b)]]
Ledger == INSTANCE BomLedger WITH ledger <- ledgerOf
RefinesLedger == Ledger!Spec

============================================================================
