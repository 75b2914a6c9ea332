------------------------------ MODULE Analysis ------------------------------
(***************************************************************************)
(* From an uploaded file to a scored BOM and its later life.  The gateway  *)
(* has the file parsed, asks the enrichment service for what its cache     *)
(* knows of each part, the tariff service for duty and screening, and      *)
(* scores the lines; the browser posts the result back to be stored.       *)
(* Later edits and refreshes change the facts of lines and score them all  *)
(* again; the tariff service is never asked again.  Where a client sends   *)
(* lines, they are stored as they are: any of those it was shown, any      *)
(* number of times, and others with statuses of its own; only the scores   *)
(* are the gateway's.                                                      *)
(*                                                                         *)
(* Requests on a stored BOM are single steps: module BomStore is about     *)
(* what is inside them.  Either service may fail, or be slower than the    *)
(* gateway waits, which is the same.  Module Tariff is what the tariff     *)
(* service answers from the dataset it has in memory at the time.          *)
(***************************************************************************)
EXTENDS Tariff, FiniteSets

CONSTANTS
  Uploads,     (* Parsed files: sequences of [part, maker, description].     *)
  Parts,       (* Part numbers.                                              *)
  Makers,      (* Manufacturers.                                             *)
  Facts,       (* What the cache may hold of a part.                         *)
  Datasets,    (* Datasets the tariff service may have loaded.               *)
  Days,        (* Days on which it may be asked.                             *)
  TopLimit,    (* The length of top_risks: 5.                                *)
  Sent,        (* Lines of a client's own.                                   *)
  MaxLines,    (* Bound: the lines a client sends.                           *)
  MaxChanges   (* Bound: edits and refreshes.                                *)

VARIABLES
  stage,       (* Where the file is: nowhere, parsed, enriched, ...          *)
  lines,       (* The lines of the analysis, scored or not yet.              *)
  summary,     (* What the BOM list shows: bom_summary_fields.               *)
  top,         (* top_risks, as places in lines.                             *)
  changes      (* Edits and refreshes so far.                                *)

vars == <<stage, lines, summary, top, changes>>

\* The fields of a line that count.  History: answered, the part and maker
\* that its statuses were answered for, blind, that nobody was asked, and
\* sent, that the line is of a client's own.
LineOf(row, part, maker, description) ==
  [row |-> row, part |-> part, maker |-> maker, description |-> description,
   avail |-> "", life |-> "", scarce |-> FALSE, slow |-> FALSE,
   category |-> None, origin |-> None, total |-> None, entity |-> None,
   risk |-> "green", answered |-> None, blind |-> TRUE, sent |-> FALSE]

Fields == {"row", "part", "maker", "description", "avail", "life", "scarce", "slow",
           "category", "origin", "total", "entity", "risk", "answered", "blind", "sent"}

Availabilities == {"", "InStock", "OutOfStock", "NoMatch", "Pending", "Error"}
Lifecycles     == {"", "Active", "Nrnd", "Eol", "Discontinued", "Unknown"}
Levels          == {"red", "yellow", "green", "unknown"}
Stages         == {"none", "parsed", "enriched", "answered", "stored"}

Line(l) ==
  /\ DOMAIN l = Fields
  /\ l.avail \in Availabilities /\ l.life \in Lifecycles /\ l.risk \in Levels
  /\ l.part \in Parts \cup {None} /\ l.maker \in Makers \cup {None}
  /\ l.entity \in BOOLEAN \cup {None} /\ l.total \in Nat \cup {None}

Assumptions ==
  /\ \A u \in Uploads :
       /\ DOMAIN u = 1..Len(u) /\ Len(u) \in Nat
       /\ \A k \in DOMAIN u : u[k].part \in Parts \cup {None} /\ u[k].maker \in Makers \cup {None}
  /\ \A f \in Facts : f.avail \in Availabilities /\ f.life \in Lifecycles
  /\ \A l \in Sent : Line(l) /\ l.row \in Nat /\ l.blind = TRUE /\ l.sent = TRUE
  /\ None \notin BOOLEAN /\ TopLimit \in Nat /\ MaxLines \in Nat /\ MaxChanges \in Nat

TypeOK ==
  /\ stage \in Stages /\ changes \in 0..MaxChanges
  /\ \A k \in DOMAIN lines : Line(lines[k])
  /\ DOMAIN summary = {"count", "atRisk", "unknown", "pending", "band", "score"}
  /\ ToSet(top) \subseteq DOMAIN lines

----------------------------------------------------------------------------
(* Scores *)

Pending(l) == l.avail = "Pending"

\* Mutation: what nobody has looked up is not listed either.
Score_UnscoredFirst(l) ==
  IF Pending(l) \/ l.avail = "NoMatch" THEN "unknown"
  ELSE IF l.entity = TRUE \/ l.life \in {"Eol", "Discontinued"} THEN "red" ELSE "green"

\* score_risk; a duty is high from 25 percent on.
Score(l) ==
  IF l.entity = TRUE THEN "red"
  ELSE IF Pending(l) \/ l.avail = "NoMatch" THEN "unknown"
  ELSE IF l.life \in {"Eol", "Discontinued"} \/ (l.total # None /\ l.total >= 25) THEN "red"
  ELSE IF \/ l.avail \in {"Error", "OutOfStock"} \/ l.life = "Nrnd"
          \/ l.slow \/ l.scarce THEN "yellow"
  ELSE "green"

Scored(ls) == [k \in DOMAIN ls |-> [ls[k] EXCEPT !.risk = Score(ls[k])]]

Count(ls, Test(_)) == Cardinality({k \in DOMAIN ls : Test(ls[k])})

\* Mutation: the band of the yellow lines hides the red ones.
Band_Yellow(reds, yellows, unknowns) ==
  IF yellows > 0 THEN "Watch" ELSE IF reds > 0 THEN "Critical"
  ELSE IF unknowns > 0 THEN "Unknown" ELSE "Clear"

\* portfolio_risk_band
Band(reds, yellows, unknowns) ==
  IF reds > 0 THEN "Critical" ELSE IF yellows > 0 THEN "Watch"
  ELSE IF unknowns > 0 THEN "Unknown" ELSE "Clear"

\* overall_risk_score in tenths: of the lines that can be scored, those at
\* risk, out of ten.
OverallScore(atRisk, scorable) ==
  IF scorable = 0 THEN 0 ELSE (200 * atRisk + scorable) \div (2 * scorable)

\* finalize_analyze counts, bom_summary_fields sums up.
Summary(ls) ==
  LET reds == Count(ls, LAMBDA l : l.risk = "red")
      yellows == Count(ls, LAMBDA l : l.risk = "yellow")
      unknowns == Count(ls, LAMBDA l : l.risk = "unknown")
  IN [count |-> Len(ls), atRisk |-> reds + yellows, unknown |-> unknowns,
      pending |-> Count(ls, Pending), band |-> Band(reds, yellows, unknowns),
      score |-> OverallScore(reds + yellows, Len(ls) - unknowns)]

Priority(l) == IF l.risk = "red" THEN 0 ELSE 1

\* select_top_risks: red before yellow, then by row, in a stable sort.
Before(ls, j, k) ==
  \/ Priority(ls[j]) < Priority(ls[k])
  \/ /\ Priority(ls[j]) = Priority(ls[k])
     /\ ls[j].row < ls[k].row \/ (ls[j].row = ls[k].row /\ j < k)

TopRisks(ls) ==
  LET flagged == {k \in DOMAIN ls : ls[k].risk \in {"red", "yellow"}}
      rank(k) == Cardinality({j \in flagged : Before(ls, j, k)}) + 1
      shown == IF Cardinality(flagged) < TopLimit THEN Cardinality(flagged) ELSE TopLimit
  IN [n \in 1..shown |-> CHOOSE k \in flagged : rank(k) = n]

\* finalize_analyze, and the summary that is stored with it.
Finalize(ls) ==
  /\ lines' = Scored(ls) /\ summary' = Summary(lines') /\ top' = TopRisks(lines')

----------------------------------------------------------------------------
(* Enrichment *)

Key(l) == <<l.part, l.maker>>

Missed  == [avail |-> "Pending", life |-> "Unknown", scarce |-> FALSE, slow |-> FALSE,
            category |-> None, origin |-> None]
NoPart  == [Missed EXCEPT !.avail = "NoMatch"]

Found(l, cache) == IF l.part = None THEN NoPart ELSE cache[Key(l)]

\* Mutation: the answers of a line's neighbour.
Answer_Next(ls, cache, k) ==
  LET j == IF k < Len(ls) THEN k + 1 ELSE k
  IN [of |-> Key(ls[j]), is |-> Found(ls[j], cache)]

\* enrich_lines: lines of the same part and maker share an answer, which
\* finds its line by index; a part that is not cached is pending.
Answer(ls, cache, k) == [of |-> Key(ls[k]), is |-> Found(ls[k], cache)]

\* merge and apply_enrichment_results: category and origin stay once known.
Enriched(ls, cache) ==
  [k \in DOMAIN ls |->
     LET of == Answer(ls, cache, k).of
         e  == Answer(ls, cache, k).is IN
     [ls[k] EXCEPT !.avail = e.avail, !.life = e.life, !.scarce = e.scarce, !.slow = e.slow,
                   !.category = Or(@, e.category), !.origin = Or(@, e.origin),
                   !.answered = of, !.blind = FALSE]]

Keys(ls) == {Key(ls[k]) : k \in DOMAIN ls}
Caches(ls) == [Keys(ls) -> Facts \cup {Missed}]

----------------------------------------------------------------------------
(* analyze_upload and create_bom *)

Init ==
  /\ stage = "none" /\ lines = <<>> /\ top = <<>> /\ changes = 0
  /\ summary = [count |-> 0, atRisk |-> 0, unknown |-> 0, pending |-> 0, band |-> "Clear",
                score |-> 0]

\* The parser's answer, unless it has failed or is too unsure of its columns
\* without the user's word.
Parse ==
  /\ stage = "none" /\ stage' = "parsed"
  /\ \E u \in Uploads :
       lines' = [k \in DOMAIN u |-> LineOf(k - 1, u[k].part, u[k].maker, u[k].description)]
  /\ UNCHANGED <<summary, top, changes>>

\* Without enrichment the statuses stay empty and a warning goes with them.
EnrichUpload ==
  /\ stage = "parsed" /\ stage' = "enriched"
  /\ \/ \E cache \in Caches(lines) : Finalize(Enriched(lines, cache))
     \/ Finalize(lines)
  /\ UNCHANGED changes

Input(l) == [description |-> l.description, category |-> l.category,
             origin |-> l.origin, maker |-> l.maker]

\* apply_tariff_overlay, unless the service is not set up or fails.
TariffOverlay ==
  /\ stage = "enriched" /\ stage' = "answered"
  /\ \/ \E d \in Datasets, today \in Days :
          Finalize([k \in DOMAIN lines |->
            LET t == Assess(d, Input(lines[k]), today) IN
            [lines[k] EXCEPT !.total = t.total, !.entity = t.entity]])
     \/ UNCHANGED <<lines, summary, top>>
  /\ UNCHANGED changes

\* Lines a client sends: nothing of them is compared with what it was shown.
Received == \E ls \in SeqOf(ToSet(lines) \cup Sent, MaxLines) : Finalize(ls)

\* read_bom_upload scores again what the browser posts: the analysis as it
\* was answered, or something else.
CreateBom ==
  /\ stage = "answered" /\ stage' = "stored"
  /\ Finalize(lines) \/ Received
  /\ UNCHANGED changes

----------------------------------------------------------------------------
(* The stored BOM *)

Change ==
  /\ stage = "stored" /\ UNCHANGED stage
  /\ changes < MaxChanges /\ changes' = changes + 1

\* Mutation: only a part number makes a line another part.
Identity_MpnOnly(named) == "mpn" \in named

\* identity_changed: either is in the patch, be it what the line had.
Identity(named) == named # {}

\* apply_line_patch: the facts of another part are dropped, but not what the
\* tariff service said.
Patched(l, part, maker, named) ==
  LET m == [l EXCEPT !.part  = IF "mpn" \in named THEN part ELSE @,
                     !.maker = IF "manufacturer" \in named THEN maker ELSE @] IN
  IF ~Identity(named) THEN m
  ELSE [m EXCEPT !.avail = IF m.part = None THEN "NoMatch" ELSE "Pending",
                 !.life = "Unknown", !.scarce = FALSE, !.slow = FALSE,
                 !.category = None, !.origin = None, !.blind = FALSE]

PatchLine ==
  /\ Change
  /\ \E k \in DOMAIN lines, part \in Parts \cup {None}, maker \in Makers,
        named \in SUBSET {"mpn", "manufacturer"} :
       Finalize([lines EXCEPT ![k] = Patched(@, part, maker, named)])

\* new_analyzed_line, after the highest row.
AddLine ==
  /\ Change
  /\ \E part \in Parts \cup {None}, maker \in Makers :
       LET rows == {lines[k].row : k \in DOMAIN lines}
           new  == LineOf(IF rows = {} THEN 0 ELSE Max(rows) + 1, part, maker, <<>>)
       IN Finalize(Append(lines, [new EXCEPT !.avail = IF part = None THEN "NoMatch" ELSE "Pending",
                                             !.life = "Unknown", !.risk = "unknown",
                                             !.blind = FALSE]))

DeleteLine ==
  /\ Change
  /\ \E k \in DOMAIN lines : Finalize(RemoveAt(lines, k))

\* put_bom, replace_lines: unlike a patch it does not look for lines that
\* have become other parts, so their statuses stay.
ReplaceLines == Change /\ Received

\* refresh_record_from_cache, when a page is opened and every day; the
\* failure of it changes nothing.
Refresh ==
  /\ Change /\ lines # <<>>
  /\ \E cache \in Caches(lines) : Finalize(Enriched(lines, cache))

----------------------------------------------------------------------------

Next ==
  \/ Parse \/ EnrichUpload \/ TariffOverlay \/ CreateBom
  \/ PatchLine \/ AddLine \/ DeleteLine \/ ReplaceLines \/ Refresh

Spec == Init /\ [][Next]_vars

----------------------------------------------------------------------------
(* Properties *)

\* What a line says of stock and life cycle was answered for the part and the
\* maker that it has now: not for a neighbour, nor for what it was before a
\* patch.  So no line is green or yellow that was not looked up, save those of
\* an upload that went on without enrichment.  What a client says of a line of
\* its own is believed, but only until the next refresh or patch of the part.
StatusIsOfThePart ==
  stage = "stored" => \A k \in DOMAIN lines :
    LET l == lines[k] IN
    /\ l.avail \in {"InStock", "OutOfStock", "Error"} \/ l.life \in Lifecycles \ {"", "Unknown"} =>
         l.answered = Key(l) \/ (l.sent /\ l.blind)
    /\ l.risk \in {"green", "yellow"} => l.answered = Key(l) \/ l.blind

\* A line that says its maker is on the Entity List is scored red, and what the
\* tariff service found of a row stays red whatever is looked up, patched or
\* not yet known: only a client that sends a line of its own for the row takes
\* the match away, not a copy of another line, nor a new line.
ListedStaysRed ==
  [][/\ stage' = "stored" =>
           \A j \in DOMAIN lines' : lines'[j].entity = TRUE => lines'[j].risk = "red"
     /\ \A k \in DOMAIN lines, j \in DOMAIN lines' :
          /\ lines[k].row = lines'[j].row /\ lines[k].entity = TRUE
          /\ ~lines[k].sent /\ ~lines'[j].sent
          => lines'[j].risk = "red"]_vars

\* The BOM list and the page agree: the summary says of the lines what they
\* are, the band is that of the worst, the score never exceeds ten and is ten
\* when all that could be scored is at risk, and no flagged line that is left
\* out of top_risks is worse than one in it.
SummaryAgrees ==
  LET at(risks) == {k \in DOMAIN lines : lines[k].risk \in risks}
      worst == IF at({"red"}) # {} THEN "Critical" ELSE IF at({"yellow"}) # {} THEN "Watch"
               ELSE IF at({"unknown"}) # {} THEN "Unknown" ELSE "Clear"
  IN stage = "stored" =>
       /\ summary.count = Len(lines)
       /\ summary.atRisk = Cardinality(at({"red", "yellow"}))
       /\ summary.band = worst
       /\ summary.score \in 0..100 /\ (summary.score > 0 => summary.band \in {"Critical", "Watch"})
       /\ at({"green"}) = {} /\ summary.atRisk > 0 => summary.score = 100
       /\ summary.pending <= summary.unknown + Cardinality(at({"red"}))
       /\ ToSet(top) \subseteq at({"red", "yellow"})
       /\ Len(top) < TopLimit => ToSet(top) = at({"red", "yellow"})
       /\ ToSet(top) \cap at({"yellow"}) # {} => at({"red"}) \subseteq ToSet(top)

=============================================================================
