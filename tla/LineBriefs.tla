----------------------------- MODULE LineBriefs -----------------------------
(***************************************************************************)
(* The briefs a language model writes about the flagged lines of one BOM,  *)
(* in line-briefs.json next to the BOM.  Uploads, edits and page views     *)
(* kick a job of the process; while one runs the next one waits in a table *)
(* under a process-wide mutex, with the lines handed in last.  The job     *)
(* reads and writes the briefs without the lock of the BOM store.          *)
(*                                                                         *)
(* A line is its fingerprint, everything scored about it; a brief is the   *)
(* fingerprint of the line it was written about.  Jobs of different BOMs   *)
(* share nothing.  The BOM store's operations are one step here: module    *)
(* BomStore is about what is inside them.                                  *)
(***************************************************************************)
EXTENDS Naturals

CONSTANTS
  Rows,        (* Row indices, the keys of the briefs.                       *)
  Prints,      (* Fingerprints of lines.                                     *)
  Flagged,     (* Those whose risk level is red or yellow.                   *)
  Editors,     (* Clients that upload, edit and delete the BOM.              *)
  Readers,     (* Clients that open the BOM's page again and again.          *)
  Jobs,        (* Spawned brief jobs.                                        *)
  MaxEdits,    (* Bound: edits by users.                                     *)
  MaxNews,     (* Bound: changes of stock found by enrichment.               *)
  MaxFaults,   (* Bound: failed reads and writes of the briefs, crashes.     *)
  None         (* No line, no brief, nothing pending.                        *)

ASSUME FlaggedAssumption == Flagged \subseteq Prints /\ None \notin Prints
ASSUME BoundsAssumption == MaxEdits \in Nat /\ MaxNews \in Nat /\ MaxFaults \in Nat

Tasks  == Editors \cup Readers
Lines  == [Rows -> Prints \cup {None}]
Briefs == [Rows -> Flagged \cup {None}]
NoLines  == [r \in Rows |-> None]
NoBriefs == [r \in Rows |-> None]
ASSUME LinesAssumption == None \notin Lines

VARIABLES
  bom,       (* Whether the BOM is not uploaded yet, there or deleted.       *)
  lines,     (* The lines in analyze.json.                                   *)
  version,   (* The BOM's version, less one.                                 *)
  briefs,    (* line-briefs.json.                                            *)
  running,   (* LineBriefJobs: the BOM has a job.                            *)
  pending,   (* LineBriefJobs: the lines of the next job.                    *)
  pc,        (* pc[t]: the next step of request t.                           *)
  held,      (* held[t]: the lines that request t holds.                     *)
  read,      (* read[t]: the version it has read.                            *)
  changed,   (* changed[t]: it has stored what enrichment found.             *)
  wpc,       (* wpc[j]: the next step of job j.                              *)
  work,      (* work[j]: the lines it writes about.                          *)
  old,       (* old[j]: the briefs it has read.                              *)
  next,      (* next[j]: the briefs it is going to write.                    *)
  todo,      (* todo[j]: the rows it still has to ask about.                 *)
  news,      (* Changes of stock so far.                                     *)
  faults     (* Faults so far.                                               *)

store == <<bom, lines, version, briefs>>
table == <<running, pending>>
locals == <<held, read, changed>>
job   == <<wpc, work, old, next, todo>>
vars  == <<bom, lines, version, briefs, running, pending, pc, held, read, changed,
           wpc, work, old, next, todo, news, faults>>

TypeOK ==
  /\ bom \in {"absent", "there", "gone"}
  /\ lines \in Lines /\ version \in 0..MaxEdits /\ briefs \in Briefs
  /\ running \in BOOLEAN /\ pending \in Lines \cup {None}
  /\ pc \in [Tasks -> {"idle", "enrich", "persist", "briefs", "reload", "kick"}]
  /\ held \in [Tasks -> Lines] /\ read \in [Tasks -> 0..MaxEdits]
  /\ changed \in [Tasks -> BOOLEAN]
  /\ wpc \in [Jobs -> {"idle", "read", "ask", "finish"}]
  /\ work \in [Jobs -> Lines] /\ old \in [Jobs -> Briefs] /\ next \in [Jobs -> Briefs]
  /\ todo \in [Jobs -> SUBSET Rows]
  /\ news \in 0..MaxNews /\ faults \in 0..MaxFaults

Init ==
  /\ bom = "absent" /\ lines = NoLines /\ version = 0 /\ briefs = NoBriefs
  /\ running = FALSE /\ pending = None
  /\ pc = [t \in Tasks |-> "idle"] /\ held = [t \in Tasks |-> NoLines]
  /\ read = [t \in Tasks |-> 0] /\ changed = [t \in Tasks |-> FALSE]
  /\ wpc = [j \in Jobs |-> "idle"] /\ work = [j \in Jobs |-> NoLines]
  /\ old = [j \in Jobs |-> NoBriefs] /\ next = [j \in Jobs |-> NoBriefs]
  /\ todo = [j \in Jobs |-> {}]
  /\ news = 0 /\ faults = 0

Goto(t, from, to) == pc[t] = from /\ pc' = [pc EXCEPT ![t] = to]

\* Request t goes on with the lines ls; what it held is gone when it answers.
Go(t, from, to, ls) ==
  /\ Goto(t, from, to)
  /\ held' = [held EXCEPT ![t] = IF to = "idle" THEN NoLines ELSE ls]
  /\ read' = IF to = "idle" THEN [read EXCEPT ![t] = 0] ELSE read
  /\ changed' = IF to = "idle" THEN [changed EXCEPT ![t] = FALSE] ELSE changed

----------------------------------------------------------------------------
(* create_bom, put_bom, patch_line, add_line, delete_line, delete_bom *)

Upload(t) ==
  /\ bom = "absent" /\ bom' = "there"
  /\ \E ls \in Lines : lines' = ls /\ Go(t, "idle", "kick", ls)
  /\ UNCHANGED <<version, briefs, table, job, news, faults>>

\* put_bom kicks with the lines it has written.
PutBom(t) ==
  /\ bom = "there" /\ version < MaxEdits /\ version' = version + 1
  /\ \E ls \in Lines : lines' = ls /\ Go(t, "idle", "kick", ls)
  /\ UNCHANGED <<bom, briefs, table, job, news, faults>>

\* One line is changed, added or deleted; the others keep their row.
EditLine(t) ==
  /\ bom = "there" /\ version < MaxEdits /\ version' = version + 1
  /\ \E r \in Rows, p \in Prints \cup {None} :
       p # lines[r] /\ lines' = [lines EXCEPT ![r] = p]
  /\ Go(t, "idle", "reload", NoLines)
  /\ UNCHANGED <<bom, briefs, table, job, news, faults>>

\* kick_stored_bom
Reload(t) ==
  /\ Go(t, "reload", IF bom = "there" THEN "kick" ELSE "idle", lines)
  /\ UNCHANGED <<store, table, job, news, faults>>

\* All objects under the BOM's prefix, line-briefs.json among them.
DeleteBom(t) ==
  /\ bom = "there" /\ pc[t] = "idle"
  /\ bom' = "gone" /\ lines' = NoLines /\ briefs' = NoBriefs
  /\ UNCHANGED <<version, table, pc, locals, job, news, faults>>

----------------------------------------------------------------------------
(* get_bom *)

Get(t) ==
  /\ bom = "there"
  /\ Goto(t, "idle", "enrich")
  /\ held' = [held EXCEPT ![t] = lines] /\ read' = [read EXCEPT ![t] = version]
  /\ UNCHANGED <<store, table, changed, job, news, faults>>

\* refresh_record_from_cache: the stock of a part may be another one by now.
Enrich(t) ==
  \/ /\ Go(t, "enrich", "briefs", held[t])
     /\ UNCHANGED <<store, table, job, news, faults>>
  \/ /\ news < MaxNews /\ news' = news + 1
     /\ \E r \in Rows, p \in Prints :
          /\ held[t][r] # None /\ p # held[t][r]
          /\ Go(t, "enrich", "persist", [held[t] EXCEPT ![r] = p])
     /\ UNCHANGED <<store, table, job, faults>>

\* persist_overlay_if_changed: nothing is stored over a newer version.
Persist(t) ==
  /\ Goto(t, "persist", "briefs")
  /\ \/ /\ bom = "there" /\ version = read[t]
        /\ lines' = held[t] /\ changed' = [changed EXCEPT ![t] = TRUE]
     \/ /\ ~(bom = "there" /\ version = read[t])
        /\ UNCHANGED <<lines, changed>>
  /\ UNCHANGED <<bom, version, briefs, table, held, read, job, news, faults>>

\* Mutation: any brief will do.
Outdated_Missing(ls, bs) == {r \in Rows : ls[r] \in Flagged /\ bs[r] = None}

\* Mutation: briefs of lines that are not flagged.
Outdated_Green(ls, bs) == {r \in Rows : bs[r] # ls[r]}

\* needs_brief_refresh: the rows whose brief is missing or about another line.
Outdated(ls, bs) == {r \in Rows : ls[r] \in Flagged /\ bs[r] # ls[r]}

\* The answer carries the briefs as they are; unreadable ones count as none.
ReadBriefs(t) ==
  \/ /\ Go(t, "briefs", IF changed[t] \/ Outdated(held[t], briefs) # {} THEN "kick" ELSE "idle",
           held[t])
     /\ UNCHANGED <<store, table, job, news, faults>>
  \/ /\ faults < MaxFaults /\ faults' = faults + 1
     /\ Go(t, "briefs", IF changed[t] \/ Outdated(held[t], NoBriefs) # {} THEN "kick" ELSE "idle",
           held[t])
     /\ UNCHANGED <<store, table, job, news>>

\* run_daily_refresh stores what enrichment found and kicks nothing.
DailyRefresh ==
  /\ bom = "there" /\ news < MaxNews /\ news' = news + 1
  /\ \E r \in Rows, p \in Prints :
       lines[r] # None /\ p # lines[r] /\ lines' = [lines EXCEPT ![r] = p]
  /\ UNCHANGED <<bom, version, briefs, table, pc, locals, job, faults>>

----------------------------------------------------------------------------
(* kick_changed_line_briefs *)

\* Mutation: the job is spawned without an entry in the table.
Begins_Unnoted == FALSE

\* try_begin_line_brief_job marks the BOM.
Begins == TRUE

Kick(t) ==
  /\ Go(t, "kick", "idle", NoLines)
  /\ \/ /\ running /\ pending' = held[t]
        /\ UNCHANGED <<running, wpc, work>>
     \/ /\ ~running /\ running' = Begins
        /\ \E j \in Jobs : /\ wpc[j] = "idle" /\ wpc' = [wpc EXCEPT ![j] = "read"]
                           /\ work' = [work EXCEPT ![j] = held[t]]
        /\ UNCHANGED pending
  /\ UNCHANGED <<store, old, next, todo, news, faults>>

\* get_line_briefs and reconcile_line_briefs: briefs of the lines as they are
\* stay, the other flagged lines are asked about.
Read(j) ==
  /\ wpc[j] = "read"
  /\ LET rs == Outdated(work[j], briefs) IN
     /\ old' = [old EXCEPT ![j] = briefs]
     /\ next' = [next EXCEPT ![j] =
          [r \in Rows |-> IF work[j][r] \in Flagged /\ r \notin rs THEN briefs[r] ELSE None]]
     /\ todo' = [todo EXCEPT ![j] = rs]
  /\ wpc' = [wpc EXCEPT ![j] = "ask"]
  /\ UNCHANGED <<store, table, pc, locals, work, news, faults>>

Asked(j, r, brief) ==
  /\ wpc[j] = "ask" /\ r \in todo[j]
  /\ next' = [next EXCEPT ![j] = [next[j] EXCEPT ![r] = brief]]
  /\ todo' = [todo EXCEPT ![j] = @ \ {r}]
  /\ UNCHANGED <<store, table, pc, locals, wpc, work, old, news, faults>>

\* Bedrock answers, fails, which leaves the brief there was, or answers
\* nothing, which leaves none.
Answers(j) == \E r \in Rows : Asked(j, r, work[j][r])
Balks(j)   == \E r \in Rows : Asked(j, r, old[j][r]) \/ Asked(j, r, None)

\* Nothing is written when nothing has changed.
Put(j) ==
  /\ wpc[j] = "ask" /\ todo[j] = {}
  /\ briefs' = IF next[j] # old[j] THEN next[j] ELSE briefs
  /\ wpc' = [wpc EXCEPT ![j] = "finish"]
  /\ UNCHANGED <<bom, lines, version, table, pc, locals, work, old, next, todo, news, faults>>

\* Mutation: what waits is left in the table.
Takes_Nothing == FALSE

\* finish_line_brief_job looks for waiting lines before it gives up the BOM.
Takes == pending # None

Finish(j) ==
  /\ wpc[j] = "finish"
  /\ old' = [old EXCEPT ![j] = NoBriefs] /\ next' = [next EXCEPT ![j] = NoBriefs]
  /\ todo' = [todo EXCEPT ![j] = {}]
  /\ \/ /\ Takes
        /\ work' = [work EXCEPT ![j] = pending] /\ pending' = None
        /\ wpc' = [wpc EXCEPT ![j] = "read"]
        /\ UNCHANGED running
     \/ /\ ~Takes
        /\ running' = FALSE
        /\ work' = [work EXCEPT ![j] = NoLines]
        /\ wpc' = [wpc EXCEPT ![j] = "idle"]
        /\ UNCHANGED pending
  /\ UNCHANGED <<store, pc, locals, news, faults>>

----------------------------------------------------------------------------
(* Faults *)

\* The briefs cannot be read or written: the job goes on with what waits.
Fail(j) ==
  /\ faults < MaxFaults /\ faults' = faults + 1
  /\ wpc[j] = "read" \/ (wpc[j] = "ask" /\ todo[j] = {} /\ next[j] # old[j])
  /\ wpc' = [wpc EXCEPT ![j] = "finish"]
  /\ UNCHANGED <<store, table, pc, locals, work, old, next, todo, news>>

\* The process restarts: requests, jobs and the table are gone.
Crash ==
  /\ faults < MaxFaults /\ faults' = faults + 1
  /\ running' = FALSE /\ pending' = None
  /\ pc' = [t \in Tasks |-> "idle"] /\ held' = [t \in Tasks |-> NoLines]
  /\ read' = [t \in Tasks |-> 0] /\ changed' = [t \in Tasks |-> FALSE]
  /\ wpc' = [j \in Jobs |-> "idle"] /\ work' = [j \in Jobs |-> NoLines]
  /\ old' = [j \in Jobs |-> NoBriefs] /\ next' = [j \in Jobs |-> NoBriefs]
  /\ todo' = [j \in Jobs |-> {}]
  /\ UNCHANGED <<store, news>>

----------------------------------------------------------------------------

Step(t)  == Enrich(t) \/ Persist(t) \/ ReadBriefs(t) \/ Reload(t) \/ Kick(t)
JobStep(j) == Read(j) \/ Answers(j) \/ Balks(j) \/ Put(j) \/ Finish(j)

Next ==
  \/ \E t \in Editors : Upload(t) \/ PutBom(t) \/ EditLine(t) \/ DeleteBom(t)
  \/ \E t \in Readers : Get(t)
  \/ \E t \in Tasks : Step(t)
  \/ \E j \in Jobs : JobStep(j) \/ Fail(j)
  \/ DailyRefresh \/ Crash

Spec == Init /\ [][Next]_vars

\* Requests and jobs go on; a page is opened again and again; Bedrock does
\* not fail or answer nothing every time.
Fairness ==
  /\ \A t \in Tasks : WF_vars(Step(t))
  /\ \A t \in Readers : SF_vars(Get(t))
  /\ \A j \in Jobs : WF_vars(JobStep(j)) /\ SF_vars(Answers(j))

FairSpec == Spec /\ Fairness

----------------------------------------------------------------------------
(* Properties *)

\* A BOM has at most one job at a time, and what waits in the table is taken:
\* the table says that a job runs exactly when one does.
OneJobTakesAll ==
  /\ running <=> \E j \in Jobs : wpc[j] # "idle"
  /\ \A i, j \in Jobs : wpc[i] # "idle" /\ wpc[j] # "idle" => i = j
  /\ pending # None => running

\* Once lines no longer change every flagged line gets and keeps the brief
\* that was written about it, whatever jobs with older lines did before, as
\* long as the page is opened.
BriefsCatchUp ==
  <>[](bom = "there" => \A r \in Rows : lines[r] \in Flagged => briefs[r] = lines[r])

=============================================================================
