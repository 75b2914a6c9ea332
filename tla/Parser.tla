------------------------------- MODULE Parser -------------------------------
(***************************************************************************)
(* The parser service and a client of it.  A file is read as grids of      *)
(* cells; the parser picks a sheet, the row that looks like a header, and  *)
(* the field each named column holds, and turns the rows below into lines. *)
(* When it is unsure of its columns it refuses; the client, who is shown   *)
(* what the parser made of them, sends the file again with the columns     *)
(* confirmed or corrected.                                                 *)
(*                                                                         *)
(* A cell is a text without the blanks around it.  What the tables of      *)
(* names and keywords say of a text is given by constants.                 *)
(***************************************************************************)
EXTENDS Naturals, SequencesExt

CONSTANTS
  Files,       (* [kind, fault, sheets], sheets a sequence of grids.         *)
  Synonyms,    (* Texts that are, in lower case, the alias of a field.       *)
  Kind,        (* What the tables of map/columns.rs call a header.           *)
  Weak, Strong,(* Headers that hint at, or name, "qty" and "refdes".         *)
  Exact,       (* The field one of whose aliases a header is, or None.       *)
  Close,       (* The field of the alias it is most like, or None.           *)
  QtyNames,    (* Texts that name a quantity.                                *)
  Numbers,     (* Texts that are numbers.                                    *)
  Costs,       (* Texts with a word of cost in them.                         *)
  Skus,        (* Part numbers that look like a distributor's.               *)
  Split,       (* The parts a text lists, in upper case, where not itself.   *)
  Corrections, (* Fields a client may give to a column.                      *)
  SheetRows, HeaderRows, RowLimit,   (* 5, 15 and 2000.                       *)
  MaxUploads,  (* Bound: requests of the client after the first.              *)
  Blank, None

IsList(s) == s \in Seq(Range(s))

\* Rows are lists of texts, and a text that is split has a first part.
Assumptions ==
  /\ \A f \in Files : IsList(f.sheets) /\ \A grid \in Range(f.sheets) :
       IsList(grid) /\ \A row \in Range(grid) : IsList(row) /\ None \notin Range(row)
  /\ \A t \in DOMAIN Split : IsList(Split[t]) /\ Split[t] # <<>>
  /\ None \notin Files /\ RowLimit \in Nat /\ MaxUploads \in Nat

VARIABLES
  file,        (* The client's file, None before it uploads it.              *)
  override,    (* The mapping it sent with it last, or None.                 *)
  answer,      (* The last answer, None before the first.                    *)
  proposed,    (* History: the answer to the file alone.                     *)
  uploads      (* Requests after the first.                                  *)

vars == <<file, override, answer, proposed, uploads>>

Upto(n, s) == DOMAIN s \cap 1..n
Cell(row, c) == IF c \in DOMAIN row THEN row[c] ELSE Blank

----------------------------------------------------------------------------
(* detect: the sheet and the header row *)

\* matches_any, synonym_hits
Hits(row) == {c \in DOMAIN row : row[c] \in Synonyms}

\* score_grid
SheetScore(grid) == Cardinality(UNION {{r} \X Hits(grid[r]) : r \in Upto(SheetRows, grid)})

\* has_numeric_qty_column: below a name of a quantity, half of what is there
\* are numbers.
HasNumericQty(grid) ==
  \E r \in Upto(SheetRows, grid) : \E c \in DOMAIN grid[r] :
    LET below == {i \in Upto(r + SheetRows, grid) : i > r /\ Cell(grid[i], c) # Blank}
    IN /\ grid[r][c] \in QtyNames /\ below # {}
       /\ 2 * Cardinality({i \in below : grid[i][c] \in Numbers}) >= Cardinality(below)

\* select_sheet
SelectSheet(sheets) ==
  LET best == {s \in DOMAIN sheets :
                 \A t \in DOMAIN sheets : SheetScore(sheets[t]) <= SheetScore(sheets[s])}
      numeric == {s \in best : HasNumericQty(sheets[s])}
  IN Min(IF numeric # {} THEN numeric ELSE best)

\* find_header_row: of the first rows with two cells or more the first with the
\* most names of fields; 0 if none has any.
HeaderRow(grid) ==
  LET hits(r) == Cardinality(Hits(grid[r]))
      rows == {r \in Upto(HeaderRows, grid) :
                 /\ Cardinality({c \in DOMAIN grid[r] : grid[r][c] # Blank}) > 1
                 /\ hits(r) > 0}
      best == {r \in rows : \A i \in rows : hits(i) <= hits(r)}
  IN IF best = {} THEN 0 ELSE Min(best)

----------------------------------------------------------------------------
(* map: the columns *)

\* detect_column_offset
Offset(header) == SelectInSeq(header, LAMBDA h : h # Blank) - 1

\* A weak name counts only where no strong one is.
Overruled(h, names) ==
  \E f \in {"refdes", "qty"} :
    h \in Weak[f] /\ names \cap Strong[f] # {}

\* The field a header is mapped to: exact before fuzzy.
FieldOf(h, names) ==
  IF Kind[h] = "supplier" THEN "supplier_sku"
  ELSE IF Kind[h] = "alternate" THEN "alternate_mpn"
  ELSE IF Kind[h] \in {"ambiguous", "distributor"} \/ Overruled(h, names) THEN None
  ELSE IF Exact[h] # None THEN Exact[h] ELSE Close[h]

\* map_columns
MapColumns(header) ==
  LET names == ToSet(header) \ {Blank}
  IN [h \in {n \in names : FieldOf(n, names) # None} |-> FieldOf(h, names)]

\* The weights of CANONICAL in twentieths.
Weight == [mpn |-> 8, qty |-> 3, refdes |-> 1, manufacturer |-> 6,
           description |-> 1, footprint |-> 1]

\* confidence_for_mapping
Confidence(mapping) ==
  LET weight(f) == IF f \in Range(mapping) THEN Weight[f] ELSE 0
  IN weight("mpn") + weight("qty") + weight("refdes") + weight("manufacturer")
       + weight("description") + weight("footprint")

----------------------------------------------------------------------------
(* normalize: a row *)

\* The first cell of a field that is not empty, from the left.
Value(f, cells, names, mapping) ==
  LET held(c) == /\ names[c] \in DOMAIN mapping /\ mapping[names[c]] = f
                 /\ Cell(cells, c) # Blank
      columns == {c \in DOMAIN names : held(c)}
  IN IF columns = {} THEN None ELSE cells[Min(columns)]

\* The extras: of each unmapped column's name its last cell, and the fields a
\* line has no place for.
Extras(cells, names, mapping) ==
  LET loose(h) == {c \in DOMAIN names : names[c] = h /\ Cell(cells, c) # Blank}
      unmapped == {h \in ToSet(names) \ (DOMAIN mapping \cup {Blank}) : loose(h) # {}}
  IN {cells[Max(loose(h))] : h \in unmapped}
       \cup {Value(f, cells, names, mapping) : f \in Range(mapping) \ DOMAIN Weight}

PartsOf(text) == IF text \in DOMAIN Split THEN Split[text] ELSE <<text>>

\* normalize_row: a row without part and description is no line, nor is one of
\* costs.
Skipped(cells, names, mapping) ==
  LET value(f) == Value(f, cells, names, mapping)
      texts == {value("description"), value("footprint")} \cup Extras(cells, names, mapping)
  IN /\ value("mpn") = None
     /\ value("description") = None \/ (value("refdes") = None /\ texts \cap Costs # {})

Line(cells, names, mapping, row) ==
  LET value(f) == Value(f, cells, names, mapping)
      parts == IF value("mpn") = None THEN <<None>> ELSE PartsOf(value("mpn"))
  IN [row |-> row, part |-> parts[1], alternates |-> Tail(parts),
      quantity |-> IF value("qty") \in Numbers THEN value("qty") ELSE None,
      text |-> [f \in {"manufacturer", "refdes", "description", "footprint"} |-> value(f)]]

RowWarnings(line) ==
  IF line.part = None THEN {"MissingMpn"}
  ELSE IF line.part \in Skus THEN {"DistSkuSuspect"} ELSE {}

\* What is left of the header is not read: mapped_header, shifted_raw.
MappedHeader(header, offset) == SubSeq(header, offset + 1, Len(header))

\* Mutation: only the header is cut.
ShiftedRaw_Uncut(raw, offset) == raw

ShiftedRaw(raw, offset) == SubSeq(raw, offset + 1, Len(raw))

----------------------------------------------------------------------------
(* pipeline: a file *)

\* Parse errors have no body.
Refusal(status) == [status |-> status, mapping |-> None, confidence |-> 0, lines |-> <<>>,
                    warnings |-> {}, total |-> 0, skipped |-> 0]

\* What is said of the lines that were read of below rows.
Accepted(lines, names, auto, mapping, total, below) ==
  LET warned(code, test) == IF test THEN {code} ELSE {}
  IN [status |-> 200, mapping |-> mapping, confidence |-> Confidence(mapping), lines |-> lines,
      warnings |->
        (UNION {RowWarnings(lines[k]) : k \in DOMAIN lines})
          \cup warned("DistSkuSuspect", \E n \in ToSet(names) \ {Blank} : Kind[n] = "distributor")
          \cup warned("LowMappingConfidence", Confidence(auto) < 12 \/ Confidence(mapping) < 10)
          \cup warned("RowLimitExceeded", below > RowLimit),
      total |-> total, skipped |-> total - Len(lines)]

\* The rows below the header at top, as far as the limit goes: those that are
\* lines, in the order of the file.
Below(grid, top, offset, names, auto, mapping, total) ==
  LET cells(k) == ShiftedRaw(grid[top + k], offset)
      kept == {k \in 1..total : ~Skipped(cells(k), names, mapping)}
      place(k) == Cardinality({j \in kept : j < k}) + 1
      nth(n) == CHOOSE k \in kept : place(k) = n
      lines == [n \in 1..Cardinality(kept) |->
                  Line(cells(nth(n)), names, mapping, top + nth(n))]
  IN Accepted(lines, names, auto, mapping, total, Len(grid) - top)

\* The columns are those the header is mapped to, unless the client gives them.
Mapped(grid, top, offset, auto, given) ==
  Below(grid, top, offset, MappedHeader(grid[top], offset), auto,
        IF given = None THEN auto ELSE given,
        IF Len(grid) - top > RowLimit THEN RowLimit ELSE Len(grid) - top)

Parsed(grid, top, given) ==
  IF top = 0 THEN Refusal(422)
  ELSE Mapped(grid, top, Offset(grid[top]), MapColumns(grid[top]), given)

\* read_csv, read_xlsx and the choice of a grid.
ParseFile(f, given) ==
  IF f.kind = "empty" THEN Refusal(422)
  ELSE IF f.kind = "other" THEN Refusal(400)
  ELSE IF f.fault # None THEN Refusal(IF f.fault = "encoding" THEN 422 ELSE 500)
  ELSE IF f.sheets = <<>> THEN Refusal(422)
  ELSE LET grid == f.sheets[SelectSheet(f.sheets)] IN Parsed(grid, HeaderRow(grid), given)

\* parse_handler: an unsure answer is refused, unless the columns are the
\* client's.  The refusal shows all the same what was made of them.
Judged(p, given) ==
  IF p.status = 200 /\ given = None /\ p.confidence < 6 THEN [p EXCEPT !.status = 422] ELSE p

Handled(f, given) == Judged(ParseFile(f, given), given)

----------------------------------------------------------------------------
(* The client *)

Init ==
  /\ file = None
  /\ override = None /\ answer = None /\ proposed = None /\ uploads = 0

Upload ==
  /\ file = None /\ file' \in Files
  /\ answer' = Handled(file', None) /\ proposed' = answer'
  /\ UNCHANGED <<override, uploads>>

\* The client's word on the columns it was shown: as they are, or with one
\* column given another field or none.
Shown == answer # None /\ answer.mapping # None

Send(given) ==
  /\ uploads < MaxUploads /\ uploads' = uploads + 1
  /\ override' = given /\ answer' = Handled(file, given)
  /\ UNCHANGED <<file, proposed>>

Confirm == Shown /\ Send(answer.mapping)

Correct ==
  /\ Shown
  /\ \E h \in DOMAIN Kind \ {Blank} :
       \/ \E f \in Corrections :
            Send([n \in DOMAIN answer.mapping \cup {h} |-> IF n = h THEN f ELSE answer.mapping[n]])
       \/ h \in DOMAIN answer.mapping
            /\ Send([n \in DOMAIN answer.mapping \ {h} |-> answer.mapping[n]])

Next == Upload \/ Confirm \/ Correct

Spec == Init /\ [][Next]_vars

----------------------------------------------------------------------------
(* Properties *)

TypeOK ==
  /\ file \in Files \cup {None} /\ uploads \in 0..MaxUploads
  /\ answer # None =>
       /\ answer.status \in {200, 400, 422, 500}
       /\ answer.confidence \in 0..20
       /\ answer.total \in 0..RowLimit /\ answer.skipped \in 0..answer.total
       /\ DOMAIN answer.lines = 1..(answer.total - answer.skipped)
       /\ override # None => answer.mapping \in {None, override}

\* The columns of a row with something in them that the mapping calls the
\* part number's.
PartColumns(row, header, mapping) ==
  {c \in DOMAIN row \cap DOMAIN header :
     row[c] # Blank /\ header[c] \in DOMAIN mapping /\ mapping[header[c]] = "mpn"}

\* No part number of a file gets lost or into another line: as far as the
\* limit goes, and beyond it there is a warning, a row with something in a
\* column that the mapping calls the part number's is one line, with the
\* leftmost of those as its part, in the order of the file.  A client that
\* sends back the columns it was shown gets the lines it was shown, and no
\* client that names the columns is refused for being unclear.
NoPartIsLost ==
  answer # None /\ answer.mapping # None =>
    LET grid  == file.sheets[SelectSheet(file.sheets)]
        top   == HeaderRow(grid)
        below == (top + 1)..Len(grid)
        part(r) == PartColumns(grid[r], grid[top], answer.mapping)
        lines == answer.lines
    IN /\ \A r \in below : r <= top + RowLimit /\ part(r) # {} =>
            \E k \in DOMAIN lines :
              /\ \A j \in DOMAIN lines : lines[j].row = r <=> j = k
              /\ <<lines[k].part>> \o lines[k].alternates = PartsOf(grid[r][Min(part(r))])
       /\ \A j, k \in DOMAIN lines : j < k => lines[j].row < lines[k].row
       /\ Cardinality(below) > answer.total => "RowLimitExceeded" \in answer.warnings
       /\ override # None => answer.status = 200
       /\ override # None /\ override = proposed.mapping => lines = proposed.lines

=============================================================================
