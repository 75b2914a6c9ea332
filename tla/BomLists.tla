------------------------------ MODULE BomLists ------------------------------
(***************************************************************************)
(* Readers of an account's whole list of BOMs while others write: a user   *)
(* who walks through the pages of GET /v1/boms, and GET /v1/boms/flagged,  *)
(* which reads the list and then loads BOM after BOM without a lock.       *)
(*                                                                         *)
(* Writers hold the mutation lock; each writes a BOM's objects and the     *)
(* index in two steps here, and module BomStore is about what is between.  *)
(* A page is one read of the index.  Times are seconds of a wall clock     *)
(* that may be set back; uploads of one second are equal.                  *)
(***************************************************************************)
EXTENDS Naturals, SequencesExt, FiniteSetsExt

CONSTANTS
  Boms,        (* Upload ids, which browsers choose.                         *)
  Seconds,     (* Times.                                                     *)
  Limits,      (* Limits that are asked for.                                 *)
  DefaultLimit, MaxLimit,  (* DEFAULT_LIMIT and MAX_LIMIT.                   *)
  MaxWrites,   (* Bound: writes in all.                                      *)
  MaxReads,    (* Bound: walks and flagged lists in all.                     *)
  None

VARIABLES
  index,       (* index.json: [id, uploaded, risk] in the order of writing.  *)
  stored,      (* stored[b]: of the lines in analyze.json, or None.          *)
  writing,     (* The BOM whose objects are written and its entry not, or None.*)
  creating,    (* It is new, or uploaded again.                              *)
  reader,      (* "idle", "pages", "flagged", or what came of it.            *)
  token,       (* The token of the next page.                                *)
  todo,        (* Summaries the flagged list has still to look at.           *)
  shown,       (* Ids shown so far, in order.                                *)
  writes, reads,
  steady,      (* History: BOMs listed, or flagged, ever since it began, and *)
               (* not uploaded again.                                        *)
  again        (* History: a BOM already shown was uploaded again.           *)

vars == <<index, stored, writing, creating, reader, token, todo, shown, writes, reads, steady, again>>

Assumptions ==
  /\ Seconds \subseteq Nat /\ Limits \subseteq Nat
  /\ DefaultLimit \in Nat \ {0} /\ MaxLimit \in Nat \ {0} /\ None \notin Boms
  /\ MaxWrites \in Nat /\ MaxReads \in Nat

Marks   == {"clear", "flagged"}
Entries == [id : Boms, uploaded : Seconds, risk : Marks]
Ids(s)  == {s[k].id : k \in DOMAIN s}

TypeOK ==
  /\ index \in Seq(Entries) /\ todo \in Seq(Entries) /\ shown \in Seq(Boms)
  /\ stored \in [Boms -> Marks \cup {None}] /\ writing \in Entries \cup {None} /\ creating \in BOOLEAN
  /\ reader \in {"idle", "pages", "walked", "stuck", "flagged", "listed", "failed"}
  /\ token \in Boms \cup {None} /\ steady \subseteq Boms /\ again \in BOOLEAN
  /\ writes \in 0..MaxWrites /\ reads \in 0..MaxReads
  /\ Cardinality(Ids(index)) = Len(index)

Init ==
  /\ index = <<>> /\ stored = [b \in Boms |-> None] /\ writing = None /\ creating = FALSE
  /\ reader = "idle" /\ token = None /\ todo = <<>> /\ shown = <<>>
  /\ writes = 0 /\ reads = 0 /\ steady = {} /\ again = FALSE

----------------------------------------------------------------------------
(* Writers *)

\* Mutation: an upload that is there already is listed twice.
Without_Nothing(id) == index

\* Where a BOM is in the index, which lists each but once.
Place(id)   == CHOOSE k \in DOMAIN index : index[k].id = id
Without(id) == IF id \in Ids(index) THEN RemoveAt(index, Place(id)) ELSE index
Entry(id)   == index[Place(id)]

Write ==
  /\ writing = None /\ writes < MaxWrites /\ writes' = writes + 1
  /\ UNCHANGED <<reader, token, todo, shown, reads>>

\* The lines of b become r; clear ones do not belong on a flagged list.
Store(b, r) ==
  /\ stored' = [stored EXCEPT ![b] = r]
  /\ steady' = IF reader = "flagged" /\ r = "clear" THEN steady \ {b} ELSE steady

\* create_bom writes the objects, also of an upload it already has.
Create ==
  /\ Write
  /\ \E b \in Boms, t \in Seconds, r \in Marks :
       /\ Store(b, r)
       /\ writing' = [id |-> b, uploaded |-> t, risk |-> r] /\ creating' = TRUE
  /\ UNCHANGED <<index, again>>

\* An edit or a refresh keeps uploaded_at.
Edit ==
  /\ Write
  /\ \E b \in Ids(index), r \in Marks :
       /\ Store(b, r)
       /\ writing' = [Entry(b) EXCEPT !.risk = r] /\ creating' = FALSE
  /\ UNCHANGED <<index, again>>

\* create_bom removes an entry of that id and appends the new one; for the
\* pages it is another one.
WriteNew ==
  /\ writing # None /\ creating /\ writing' = None /\ creating' = FALSE
  /\ index' = Append(Without(writing.id), writing)
  /\ steady' = IF reader = "pages" THEN steady \ {writing.id} ELSE steady
  /\ again' = (again \/ writing.id \in ToSet(shown))
  /\ UNCHANGED <<stored, reader, token, todo, shown, writes, reads>>

\* Mutation: an edited BOM goes to the end of the index.
InPlace_AtEnd(e) == Append(Without(e.id), e)

InPlace(e) == [k \in DOMAIN index |-> IF index[k].id = e.id THEN e ELSE index[k]]

\* An edit leaves the entry in its place.
WriteEdited ==
  /\ writing # None /\ ~creating /\ writing' = None
  /\ index' = InPlace(writing)
  /\ UNCHANGED <<stored, creating, reader, token, todo, shown, writes, reads, steady, again>>

\* delete_bom: the entry and then the objects.
Delete ==
  /\ Write
  /\ \E b \in Ids(index) : index' = Without(b) /\ steady' = steady \ {b}
  /\ UNCHANGED <<stored, writing, creating, again>>

\* delete_prefix
Erase ==
  /\ writing = None
  /\ \E b \in Boms \ Ids(index) : stored[b] # None /\ stored' = [stored EXCEPT ![b] = None]
  /\ UNCHANGED <<index, writing, creating, reader, token, todo, shown, writes, reads, steady, again>>

----------------------------------------------------------------------------
(* list_boms and page_by_id *)

\* The latest upload first; equal ones stay as they are.
Listed ==
  LET before(j, k) == \/ index[j].uploaded > index[k].uploaded
                      \/ index[j].uploaded = index[k].uploaded /\ j < k
      place(k) == Cardinality({j \in DOMAIN index : before(j, k)}) + 1
  IN [n \in DOMAIN index |-> index[CHOOSE k \in DOMAIN index : place(k) = n]]

\* with_bounded_limit
Bounded(limit) ==
  IF limit = 0 THEN DefaultLimit ELSE IF limit > MaxLimit THEN MaxLimit ELSE limit

Start(list) ==
  IF token = None THEN 0 ELSE CHOOSE k \in DOMAIN list : list[k].id = token

Begin(kind) ==
  /\ reader \notin {"pages", "flagged"} /\ reads < MaxReads /\ reads' = reads + 1
  /\ reader' = kind /\ token' = None /\ shown' = <<>> /\ again' = FALSE
  /\ UNCHANGED <<index, stored, writing, creating, writes>>

\* The user opens the list, and sees its first page with the next action.
OpenList == Begin("pages") /\ steady' = Ids(index) /\ todo' = <<>>

Page ==
  /\ reader = "pages"
  /\ token # None => token \in Ids(index)
  /\ \E limit \in Limits :
       LET list == Listed
           end  == Min({Start(list) + Bounded(limit), Len(list)})
           page == SubSeq(list, Start(list) + 1, end)
           more == end < Len(list)
       IN /\ shown' = shown \o [k \in DOMAIN page |-> page[k].id]
          /\ token' = IF more THEN page[Len(page)].id ELSE None
          /\ reader' = IF more THEN "pages" ELSE "walked"
  /\ UNCHANGED <<index, stored, writing, creating, todo, writes, reads, steady, again>>

\* PageError::InvalidToken: the BOM that the walk had come to is deleted.
InvalidToken ==
  /\ reader = "pages" /\ token # None /\ token \notin Ids(index)
  /\ reader' = "stuck" /\ token' = None
  /\ UNCHANGED <<index, stored, writing, creating, todo, shown, writes, reads, steady, again>>

----------------------------------------------------------------------------
(* flagged_lines *)

Flagged(b) == stored[b] = "flagged" /\ b \in Ids(index) /\ Entry(b).risk = "flagged"

\* It lists the BOMs ...
OpenFlagged ==
  /\ Begin("flagged") /\ todo' = Listed
  /\ steady' = {b \in Boms : Flagged(b)}

\* at_risk_count > 0
AtRisk(e) == e.risk = "flagged"

\* ... and loads the next that is at risk; its lines are those of today.
Load ==
  /\ reader = "flagged" /\ todo # <<>>
  /\ LET e == Head(todo) IN
     \/ ~AtRisk(e) /\ UNCHANGED <<shown, reader>>
     \/ /\ AtRisk(e) /\ stored[e.id] # None
        /\ shown' = IF stored[e.id] = "flagged" THEN Append(shown, e.id) ELSE shown
        /\ UNCHANGED reader
     \/ AtRisk(e) /\ stored[e.id] = None                    \* StoreError::NotFound
        /\ reader' = "failed" /\ UNCHANGED shown
  /\ todo' = Tail(todo)
  /\ UNCHANGED <<index, stored, writing, creating, token, writes, reads, steady, again>>

AnswerFlagged ==
  /\ reader = "flagged" /\ todo = <<>> /\ reader' = "listed"
  /\ UNCHANGED <<index, stored, writing, creating, token, todo, shown, writes, reads, steady, again>>

----------------------------------------------------------------------------

Next ==
  \/ Create \/ Edit \/ WriteNew \/ WriteEdited \/ Delete \/ Erase
  \/ OpenList \/ Page \/ InvalidToken
  \/ OpenFlagged \/ Load \/ AnswerFlagged

Spec == Init /\ [][Next]_vars

----------------------------------------------------------------------------
(* Properties *)

Shown(b) == Cardinality({k \in DOMAIN shown : shown[k] = b})

\* A user who walks to the last page has seen every BOM that was there all the
\* time, and none twice, whatever was uploaded, edited or deleted between the
\* pages, unless a BOM he had seen was uploaded again and so moved his place.
\* The flagged list has every BOM that was flagged all the time, and none twice.
WalkShowsAll ==
  reader = "listed" \/ (reader = "walked" /\ ~again) =>
    /\ \A b \in steady : Shown(b) >= 1
    /\ \A b \in Boms : Shown(b) <= 1

=============================================================================
