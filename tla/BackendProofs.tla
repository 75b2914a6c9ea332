---------------------------- MODULE BackendProofs ----------------------------
(***************************************************************************)
(* Proofs about Parser in the behaviours of Backend, and of the types of   *)
(* all the parts of it.  For any files, headers, words and limits no part  *)
(* of a file is lost between the grid and the lines: what the answer has   *)
(* is read off the grid row by row, and the client that sends a mapping    *)
(* back gets the lines that it was shown.                                  *)
(***************************************************************************)
EXTENDS ServicesProofs

----------------------------------------------------------------------------
(* Files: which sheet is read, and where its header is *)

IsRow(row) == IsList(row) /\ \A c \in DOMAIN row : row[c] # None
IsGrid(grid) == IsList(grid) /\ \A r \in DOMAIN grid : IsRow(grid[r])

\* Lists are what Parser's assumptions call lists.
LEMMA ListsAre ==
  \A s : Parsing!IsList(s) <=> IsList(s)
BY DEF Parsing!IsList, IsList, Parsing!Range

\* What the assumptions say of a file's grids.
LEMMA FileShape ==
  ASSUME NEW f \in Files
  PROVE  IsList(f.sheets) /\ \A s \in DOMAIN f.sheets : IsGrid(f.sheets[s])
<1>1. /\ Parsing!IsList(f.sheets)
      /\ \A grid \in Parsing!Range(f.sheets) :
           /\ Parsing!IsList(grid)
           /\ \A row \in Parsing!Range(grid) : Parsing!IsList(row) /\ None \notin Parsing!Range(row)
  BY ParsingAssumptions DEF Parsing!Assumptions
<1>2. ASSUME NEW s \in DOMAIN f.sheets PROVE IsGrid(f.sheets[s])
  <2>1. f.sheets[s] \in Parsing!Range(f.sheets)
    BY DEF Parsing!Range
  <2>2. PICK grid : grid = f.sheets[s]
    OBVIOUS
  <2>3. ASSUME NEW r \in DOMAIN grid PROVE IsRow(grid[r])
    <3>1. grid[r] \in Parsing!Range(grid)
      BY DEF Parsing!Range
    <3>2. Parsing!IsList(grid[r]) /\ None \notin Parsing!Range(grid[r])
      BY <1>1, <2>1, <2>2, <3>1
    <3> QED BY <3>2, ListsAre DEF IsRow, Parsing!Range
  <2> QED BY <1>1, <2>1, <2>2, <2>3, ListsAre DEF IsGrid
<1> QED BY <1>1, <1>2, ListsAre

\* Parser counts as the library does.
LEMMA CountIs == \A S : Parsing!Cardinality(S) = Cardinality(S)
BY DEF Parsing!Cardinality, Cardinality

\* Min is the least of a set of numbers.
LEMMA FirstOf ==
  ASSUME NEW S, S \subseteq Nat, S # {}
  PROVE  Parsing!Min(S) \in S /\ \A k \in S : Parsing!Min(S) <= k
<1>1. \E m \in S : \A k \in S : m <= k
  BY LeastNatural
<1> QED BY <1>1 DEF Parsing!Min

\* The columns of a row, or some of them.
LEMMA ColumnsAre ==
  ASSUME NEW row, IsList(row), NEW C, C \subseteq DOMAIN row
  PROVE  C \subseteq Nat /\ IsFiniteSet(C) /\ Parsing!Cardinality(C) \in Nat
<1>1. Len(row) \in Nat /\ DOMAIN row = 1..Len(row)
  BY ListIs
<1>2. C \subseteq Nat
  BY <1>1
<1>3. IsFiniteSet(C) /\ Cardinality(C) \in Nat
  BY <1>1, Upto, FS_Subset, FS_CardinalityType
<1> QED BY <1>2, <1>3, CountIs

\* The score of a sheet is a number: only cells of its first rows count.
LEMMA ScoreOfSheet ==
  ASSUME NEW grid, IsGrid(grid)
  PROVE  Parsing!SheetScore(grid) \in Nat
<1>1. PICK rows : rows = Parsing!Upto(SheetRows, grid)
  OBVIOUS
<1>2. rows \subseteq DOMAIN grid
  BY <1>1 DEF Parsing!Upto
<1>3. IsFiniteSet(rows)
  BY <1>2, ColumnsAre DEF IsGrid
<1>4. PICK sets : sets = {{r} \X Parsing!Hits(grid[r]) : r \in rows}
  OBVIOUS
<1>5. IsFiniteSet(sets)
  <2>1. PICK f : f = [r \in rows |-> {r} \X Parsing!Hits(grid[r])]
    OBVIOUS
  <2>2. f \in Surjection(rows, sets)
    BY <1>4, <2>1 DEF Surjection
  <2> QED BY <1>3, <2>2, FS_Surjection
<1>6. ASSUME NEW S \in sets PROVE IsFiniteSet(S)
  <2>1. PICK r \in rows : S = {r} \X Parsing!Hits(grid[r])
    BY <1>4
  <2>2. Parsing!Hits(grid[r]) \subseteq DOMAIN grid[r]
    BY DEF Parsing!Hits
  <2>3. IsFiniteSet(Parsing!Hits(grid[r]))
    BY <1>2, <2>2, ColumnsAre DEF IsGrid, IsRow
  <2>4. IsFiniteSet({r})
    BY FS_Singleton
  <2> QED BY <2>1, <2>3, <2>4, FS_Product
<1>7. IsFiniteSet(UNION sets)
  BY <1>5, <1>6, FS_UNION
<1>8. Cardinality(UNION sets) \in Nat
  BY <1>7, FS_CardinalityType
<1>9. Parsing!SheetScore(grid) = Parsing!Cardinality(UNION sets)
  BY <1>1, <1>4 DEF Parsing!SheetScore
<1> QED BY <1>8, <1>9, CountIs

\* Of sheets there is a best.
LEMMA SheetIs ==
  ASSUME NEW sheets, IsList(sheets), \A s \in DOMAIN sheets : IsGrid(sheets[s]), sheets # <<>>
  PROVE  Parsing!SelectSheet(sheets) \in DOMAIN sheets
<1>1. Len(sheets) \in Nat /\ DOMAIN sheets = 1..Len(sheets)
  BY ListIs
<1>2. DOMAIN sheets # {}
  BY DEF IsList
<1>3. PICK scores : scores = [s \in DOMAIN sheets |-> Parsing!SheetScore(sheets[s])]
  OBVIOUS
<1>4. \A s \in DOMAIN sheets : scores[s] \in Nat /\ scores[s] = Parsing!SheetScore(sheets[s])
  BY <1>3, ScoreOfSheet
<1>5. PICK m \in Nat : \A s \in DOMAIN sheets : scores[s] <= m
  BY <1>1, <1>4, Bounded
<1>6. PICK S : S = {scores[s] : s \in DOMAIN sheets}
  OBVIOUS
<1>7. S \subseteq Nat /\ S # {} /\ \A x \in S : x <= m
  BY <1>2, <1>4, <1>5, <1>6
<1>8. PICK x \in S : \A y \in S : y <= x
  BY <1>7, GreatestNatural
<1>9. PICK best : best = {s \in DOMAIN sheets : \A t \in DOMAIN sheets :
                            Parsing!SheetScore(sheets[t]) <= Parsing!SheetScore(sheets[s])}
  OBVIOUS
<1>10. best # {} /\ best \subseteq DOMAIN sheets
  <2>1. PICK s \in DOMAIN sheets : x = scores[s]
    BY <1>6
  <2>2. \A t \in DOMAIN sheets : scores[t] <= scores[s]
    BY <1>6, <1>8, <2>1
  <2>3. s \in best
    BY <1>4, <1>9, <2>2
  <2> QED BY <1>9, <2>3
<1>11. PICK numeric : numeric = {s \in best : Parsing!HasNumericQty(sheets[s])}
  OBVIOUS
<1>12. Parsing!SelectSheet(sheets) = Parsing!Min(IF numeric # {} THEN numeric ELSE best)
  BY <1>9, <1>11 DEF Parsing!SelectSheet
<1>13. /\ (IF numeric # {} THEN numeric ELSE best) \subseteq DOMAIN sheets
       /\ (IF numeric # {} THEN numeric ELSE best) # {}
  BY <1>10, <1>11
<1>14. (IF numeric # {} THEN numeric ELSE best) \subseteq Nat
  BY <1>1, <1>13
<1> QED BY <1>12, <1>13, <1>14, FirstOf

\* A header has a cell that is not blank.
LEMMA HeaderIs ==
  ASSUME NEW grid, IsGrid(grid), Parsing!HeaderRow(grid) # 0
  PROVE  /\ Parsing!HeaderRow(grid) \in DOMAIN grid
         /\ \E c \in DOMAIN grid[Parsing!HeaderRow(grid)] : grid[Parsing!HeaderRow(grid)][c] # Blank
<1> DEFINE hits(r) == Parsing!Cardinality(Parsing!Hits(grid[r]))
           rows == {r \in Parsing!Upto(HeaderRows, grid) :
                      /\ Parsing!Cardinality({c \in DOMAIN grid[r] : grid[r][c] # Blank}) > 1
                      /\ hits(r) > 0}
           best == {r \in rows : \A i \in rows : hits(i) <= hits(r)}
<1>1. Parsing!HeaderRow(grid) = IF best = {} THEN 0 ELSE Parsing!Min(best)
  BY DEF Parsing!HeaderRow
<1>2. best # {} /\ Parsing!HeaderRow(grid) = Parsing!Min(best)
  BY <1>1
<1>3. best \subseteq rows /\ rows \subseteq DOMAIN grid
  BY DEF Parsing!Upto
<1>4. best \subseteq Nat
  <2> HIDE DEF best, rows
  <2> QED BY <1>3, ListIs DEF IsGrid
<1>5. Parsing!Min(best) \in best
  <2> HIDE DEF best
  <2> QED BY <1>2, <1>4, FirstOf
<1>6. PICK r : r = Parsing!HeaderRow(grid)
  OBVIOUS
<1>7. r \in rows /\ r \in DOMAIN grid
  BY <1>2, <1>3, <1>5, <1>6
<1>8. Parsing!Cardinality({c \in DOMAIN grid[r] : grid[r][c] # Blank}) > 1
  BY <1>7
<1>9. {c \in DOMAIN grid[r] : grid[r][c] # Blank} # {}
  <2>1. Parsing!Cardinality({}) = 0
    BY CountIs, FS_EmptySet
  <2> QED BY <1>8, <2>1
<1> QED BY <1>6, <1>7, <1>9

\* What is cut off is blank.
LEMMA OffsetIs ==
  ASSUME NEW row, IsList(row), \E c \in DOMAIN row : row[c] # Blank
  PROVE  Parsing!Offset(row) \in Nat /\ \A c \in DOMAIN row : c <= Parsing!Offset(row) => row[c] = Blank
<1>1. Len(row) \in Nat /\ DOMAIN row = 1..Len(row)
  BY ListIs
<1>2. PICK I : I = {c \in 1..Len(row) : row[c] # Blank}
  OBVIOUS
<1>3. I # {} /\ I \subseteq Nat
  BY <1>1, <1>2
<1>4. Parsing!Min(I) \in I /\ \A k \in I : Parsing!Min(I) <= k
  BY <1>3, FirstOf
<1>5. Parsing!SelectInSeq(row, LAMBDA h : h # Blank) = Parsing!Min(I)
  <2>1. {c \in 1..Parsing!Len(row) : row[c] # Blank} = I
    BY <1>2 
  <2> QED BY <1>3, <2>1 DEF Parsing!SelectInSeq
<1>6. Parsing!Offset(row) = Parsing!Min(I) - 1
  BY <1>5 DEF Parsing!Offset
<1>7. PICK m : m = Parsing!Min(I)
  OBVIOUS
<1>8. m \in 1..Len(row) /\ \A k \in I : m <= k
  BY <1>2, <1>4, <1>7
<1>9. \A c \in DOMAIN row : c <= m - 1 => row[c] = Blank
  BY <1>1, <1>2, <1>8
<1> QED BY <1>6, <1>7, <1>8, <1>9

----------------------------------------------------------------------------
(* Rows: what is read of one *)

\* t is s from column n on.
IsShift(t, s, n) ==
  /\ DOMAIN t \subseteq Nat \ {0}
  /\ \A c \in Nat \ {0} : c \in DOMAIN t <=> c + n \in DOMAIN s
  /\ \A c \in DOMAIN t : t[c] = s[c + n]

\* SubSeq from a column on, also from beyond the end.
LEMMA ShiftIs ==
  ASSUME NEW s, IsList(s), NEW n \in Nat
  PROVE  IsShift(SubSeq(s, n + 1, Len(s)), s, n)
<1>1. Len(s) \in Nat /\ DOMAIN s = 1..Len(s)
  BY ListIs
<1>2. PICK S : s \in Seq(S)
  BY DEF IsList
<1>3. PICK t : t = SubSeq(s, n + 1, Len(s))
  OBVIOUS
<1>4. CASE n <= Len(s)
  <2>1. /\ n + 1 \in Nat \ {0} /\ n + 1 <= Len(s) + 1 /\ Len(s) <= Len(s)
        /\ Len(s) + 1 - (n + 1) = Len(s) - n /\ \A k \in 1..Len(s) - n : n + 1 + k - 1 = k + n
    <3>1. PICK m \in Nat : m = Len(s)
      BY <1>1
    <3>2. n <= m /\ n + 1 \in Nat \ {0} /\ n + 1 <= m + 1 /\ m <= m /\ m + 1 - (n + 1) = m - n
      BY <1>4, <3>1
    <3>3. \A k \in 1..m - n : n + 1 + k - 1 = k + n
      OBVIOUS
    <3> QED BY <3>1, <3>2, <3>3
  <2>2. IsSlice(t, s, n + 1, Len(s), S)
    BY <1>1, <1>2, <1>3, <2>1, SliceIs
  <2>3. DOMAIN t = 1..Len(s) - n /\ \A k \in 1..Len(s) - n : t[k] = s[k + n]
    BY <2>1, <2>2 DEF IsSlice
  <2>4. \A c \in Nat \ {0} : c \in 1..Len(s) - n <=> c + n \in 1..Len(s)
    BY <1>1, <1>4
  <2>5. 1..Len(s) - n \subseteq Nat \ {0}
    BY <1>1
  <2> QED BY <1>1, <1>3, <2>3, <2>4, <2>5 DEF IsShift
<1>5. CASE ~(n <= Len(s))
  <2>1. t = << >>
    BY <1>1, <1>2, <1>3, <1>5
  <2>2. DOMAIN t = {}
    BY <2>1
  <2>3. \A c \in Nat \ {0} : c + n \notin 1..Len(s)
    BY <1>1, <1>5
  <2> QED BY <1>1, <1>3, <2>2, <2>3 DEF IsShift
<1> QED BY <1>4, <1>5

\* The cut of a row and that of its header.
LEMMA ShiftedIs ==
  ASSUME NEW row, IsList(row), NEW n \in Nat
  PROVE  IsShift(Parsing!ShiftedRaw(row, n), row, n) /\ IsShift(Parsing!MappedHeader(row, n), row, n)
BY ShiftIs DEF Parsing!ShiftedRaw, Parsing!MappedHeader

\* The leftmost part number of a row is read, though the columns are counted
\* from the first that has a name.
LEMMA ValueIs ==
  ASSUME NEW row, IsRow(row), NEW header, IsRow(header), NEW mapping, NEW n \in Nat,
         Blank \notin DOMAIN mapping, \A c \in DOMAIN header : c <= n => header[c] = Blank
  PROVE  LET value == Parsing!Value("mpn", Parsing!ShiftedRaw(row, n),
                                   Parsing!MappedHeader(header, n), mapping)
             columns == Parsing!PartColumns(row, header, mapping)
         IN IF columns = {} THEN value = None
            ELSE value = row[Parsing!Min(columns)] /\ value # None
<1>1. PICK cells, names : /\ cells = Parsing!ShiftedRaw(row, n) /\ names = Parsing!MappedHeader(header, n)
  OBVIOUS
<1>2. IsShift(cells, row, n) /\ IsShift(names, header, n)
  BY <1>1, ShiftedIs DEF IsRow
<1>3. PICK C : C = {c \in DOMAIN names : /\ names[c] \in DOMAIN mapping /\ mapping[names[c]] = "mpn"
                                         /\ Parsing!Cell(cells, c) # Blank}
  OBVIOUS
<1>4. Parsing!Value("mpn", cells, names, mapping) = IF C = {} THEN None ELSE cells[Parsing!Min(C)]
  BY <1>3 DEF Parsing!Value
<1>5. PICK G : G = Parsing!PartColumns(row, header, mapping)
  OBVIOUS
<1>6. DOMAIN row \subseteq Nat \ {0} /\ DOMAIN header \subseteq Nat \ {0}
  BY ListIs DEF IsRow
<1>7. ASSUME NEW c \in C PROVE c \in Nat \ {0} /\ c + n \in G /\ cells[c] = row[c + n]
  <2>1. c \in DOMAIN names /\ c \in Nat \ {0} /\ names[c] = header[c + n] /\ c + n \in DOMAIN header
    BY <1>2, <1>3 DEF IsShift
  <2>2. c \in DOMAIN cells /\ cells[c] # Blank
    BY <1>3 DEF Parsing!Cell
  <2>3. cells[c] = row[c + n] /\ c + n \in DOMAIN row
    BY <1>2, <2>1, <2>2 DEF IsShift
  <2> QED BY <1>3, <1>5, <2>1, <2>2, <2>3 DEF Parsing!PartColumns
<1>8. ASSUME NEW c \in G PROVE c - n \in C
  <2>1. /\ c \in DOMAIN row /\ c \in DOMAIN header /\ row[c] # Blank /\ header[c] \in DOMAIN mapping
        /\ mapping[header[c]] = "mpn"
    BY <1>5 DEF Parsing!PartColumns
  <2>2. c \in Nat \ {0} /\ ~(c <= n)
    BY <1>6, <2>1
  <2>3. c - n \in Nat \ {0} /\ (c - n) + n = c
    BY <2>2
  <2>4. c - n \in DOMAIN names /\ names[c - n] = header[c]
    BY <1>2, <2>1, <2>3 DEF IsShift
  <2>5. c - n \in DOMAIN cells /\ cells[c - n] = row[c]
    BY <1>2, <2>1, <2>3 DEF IsShift
  <2>6. Parsing!Cell(cells, c - n) # Blank
    BY <2>1, <2>5 DEF Parsing!Cell
  <2> QED BY <1>3, <2>1, <2>4, <2>6
<1>9. C = {} <=> G = {}
  BY <1>7, <1>8
<1>10. ASSUME G # {} PROVE cells[Parsing!Min(C)] = row[Parsing!Min(G)] /\ row[Parsing!Min(G)] # None
  <2>1. C # {} /\ C \subseteq Nat /\ G \subseteq Nat
    BY <1>5, <1>6, <1>7, <1>9, <1>10 DEF Parsing!PartColumns
  <2>2. PICK i, j : i = Parsing!Min(C) /\ j = Parsing!Min(G)
    OBVIOUS
  <2>3. i \in C /\ (\A k \in C : i <= k) /\ j \in G /\ (\A k \in G : j <= k)
    BY <1>10, <2>1, <2>2, FirstOf
  <2>4. i \in Nat /\ j \in Nat /\ j - n \in C /\ i + n \in G /\ j - n \in Nat
    <3>1. i \in C /\ j \in G
      BY <2>3
    <3>2. i + n \in G
      BY <1>7, <3>1
    <3>3. j - n \in C
      BY <1>8, <3>1
    <3> QED BY <2>1, <3>1, <3>2, <3>3
  <2>5. i <= j - n /\ j <= i + n
    BY <2>3, <2>4
  <2>6. i + n = j
    BY <2>4, <2>5
  <2>7. cells[i] = row[j] /\ j \in DOMAIN row
    BY <1>5, <1>7, <2>3, <2>6 DEF Parsing!PartColumns
  <2> QED BY <2>2, <2>7 DEF IsRow
<1> QED BY <1>1, <1>4, <1>5, <1>9, <1>10

\* Taking the first part off a cell that lists parts loses none.
LEMMA PartsJoin ==
  ASSUME NEW t
  PROVE  <<Parsing!PartsOf(t)[1]>> \o Tail(Parsing!PartsOf(t)) = Parsing!PartsOf(t)
<1>1. PICK s : s = Parsing!PartsOf(t)
  OBVIOUS
<1>2. IsList(s) /\ s # <<>>
  <2>1. CASE t \in DOMAIN Split
    <3>1. Parsing!IsList(Split[t]) /\ Split[t] # <<>>
      BY <2>1, ParsingAssumptions DEF Parsing!Assumptions
    <3> QED BY <1>1, <2>1, <3>1, ListsAre DEF Parsing!PartsOf
  <2>2. CASE t \notin DOMAIN Split
    <3>1. s = <<t>>
      BY <1>1, <2>2 DEF Parsing!PartsOf
    <3>2. s \in Seq({t}) /\ s # <<>> /\ {s[k] : k \in DOMAIN s} = {t}
      BY <3>1
    <3> QED BY <3>2 DEF IsList
  <2> QED BY <2>1, <2>2
<1>3. PICK S : s \in Seq(S)
  BY <1>2 DEF IsList
<1>4. <<s[1]>> \o Tail(s) = s
  BY <1>2, <1>3
<1> QED BY <1>1, <1>4

----------------------------------------------------------------------------
(* Lines: the rows that are kept, in their order *)

NthOf(F, n) == CHOOSE k \in F : Parsing!Cardinality({j \in F : j < k}) + 1 = n

\* F one by one, as n counts.
InOrder(F) ==
  /\ \A n \in 1..Cardinality(F) : NthOf(F, n) \in F
  /\ \A i, j \in 1..Cardinality(F) : i < j => NthOf(F, i) < NthOf(F, j)
  /\ \A k \in F : \E n \in 1..Cardinality(F) : NthOf(F, n) = k

\* A set of numbers has its elements in order, one at each place.
LEMMA InOrderIs ==
  ASSUME NEW m \in Nat, NEW F, F \subseteq 1..m
  PROVE  InOrder(F) /\ IsFiniteSet(F) /\ Cardinality(F) \in 0..m
<1>1. IsFiniteSet(F) /\ Cardinality(F) \in Nat /\ Cardinality(F) <= m
  <2>1. IsFiniteSet(1..m) /\ Cardinality(1..m) = m
    BY Upto
  <2>2. IsFiniteSet(F) /\ Cardinality(F) <= Cardinality(1..m)
    BY <2>1, FS_Subset
  <2> QED BY <2>1, <2>2, FS_CardinalityType
<1>2. PICK R : R = {p \in F \X F : p[1] < p[2]}
  OBVIOUS
<1>3. \A j, k \in F : <<j, k>> \in R <=> j < k
  BY <1>2
<1>4. Orders(R, F)
  <2>1. F \subseteq Nat
    OBVIOUS
  <2> QED BY <1>3, <2>1 DEF Orders
<1>5. ASSUME NEW k \in F PROVE Parsing!Cardinality({j \in F : j < k}) + 1 = Nth(R, F, k)
  <2>1. Former(R, F, k) = {j \in F : j < k}
    BY <1>3 DEF Former
  <2> QED BY <2>1, CountIs DEF Nth
<1>6. ASSUME NEW n \in 1..Cardinality(F) PROVE NthOf(F, n) \in F /\ Nth(R, F, NthOf(F, n)) = n
  <2>1. PICK k \in F : Nth(R, F, k) = n
    <3>1. n \in 1..Cardinality(F) /\ IsFiniteSet(F) /\ Orders(R, F)
      BY <1>1, <1>4
    <3> QED BY ONLY <3>1, NthIsOnto
  <2>2. \E i \in F : Parsing!Cardinality({j \in F : j < i}) + 1 = n
    BY <1>5, <2>1
  <2>3. NthOf(F, n) \in F /\ Parsing!Cardinality({j \in F : j < NthOf(F, n)}) + 1 = n
    BY <2>2 DEF NthOf
  <2> QED BY <1>5, <2>3
<1>7. ASSUME NEW i \in 1..Cardinality(F), NEW j \in 1..Cardinality(F), i < j
      PROVE  NthOf(F, i) < NthOf(F, j)
  <2>1. PICK x, y : x = NthOf(F, i) /\ y = NthOf(F, j)
    OBVIOUS
  <2>2. x \in F /\ y \in F /\ Nth(R, F, x) = i /\ Nth(R, F, y) = j
    BY <1>6, <2>1
  <2>3. <<x, y>> \in R
    BY <1>1, <1>4, <1>7, <2>2, NthIs
  <2> QED BY <1>3, <2>1, <2>2, <2>3
<1>8. ASSUME NEW k \in F PROVE \E n \in 1..Cardinality(F) : NthOf(F, n) = k
  <2>1. PICK n : n = Nth(R, F, k)
    OBVIOUS
  <2>2. n \in 1..Cardinality(F)
    BY <1>1, <1>4, <2>1, NthIs
  <2>3. PICK i : i = NthOf(F, n)
    OBVIOUS
  <2>4. i \in F /\ Nth(R, F, i) = n
    BY <1>6, <2>2, <2>3
  <2>5. <<i, k>> \notin R /\ <<k, i>> \notin R
    BY <1>1, <1>4, <2>1, <2>2, <2>4, NthIs
  <2>6. i = k
    BY <1>4, <2>4, <2>5 DEF Orders
  <2> QED BY <2>2, <2>3, <2>6
<1> QED BY <1>1, <1>6, <1>7, <1>8 DEF InOrder

RowsRead(grid, top) == IF Len(grid) - top > RowLimit THEN RowLimit ELSE Len(grid) - top

\* A row, and what it is when mapping says what its columns are.
Cells(grid, top, r) == Parsing!ShiftedRaw(grid[r], Parsing!Offset(grid[top]))
Names(grid, top)    == Parsing!MappedHeader(grid[top], Parsing!Offset(grid[top]))
LineOf(grid, top, mapping, r) ==
  Parsing!Line(Cells(grid, top, r), Names(grid, top), mapping, r)

Kept(grid, top, mapping) ==
  {k \in 1..RowsRead(grid, top) : ~Parsing!Skipped(Cells(grid, top, top + k), Names(grid, top), mapping)}

LinesOf(grid, top, mapping) ==
  [n \in 1..Parsing!Cardinality(Kept(grid, top, mapping)) |->
     LineOf(grid, top, mapping, top + NthOf(Kept(grid, top, mapping), n))]

\* A header, in its grid.
Heads(top, grid) ==
  /\ IsGrid(grid) /\ top \in DOMAIN grid /\ top \in Nat \ {0} /\ Len(grid) \in Nat /\ top <= Len(grid)
  /\ DOMAIN grid = 1..Len(grid) /\ RowsRead(grid, top) \in 0..RowLimit
  /\ RowsRead(grid, top) = IF Len(grid) - top > RowLimit THEN RowLimit ELSE Len(grid) - top
  /\ Parsing!Offset(grid[top]) \in Nat
  /\ \A c \in DOMAIN grid[top] : c <= Parsing!Offset(grid[top]) => grid[top][c] = Blank

\* The header that is found is a header, and the rows below it are rows.
LEMMA HeadsGrid ==
  ASSUME NEW grid, IsGrid(grid), NEW top, top = Parsing!HeaderRow(grid), top # 0
  PROVE  Heads(top, grid)
<1>1. Len(grid) \in Nat /\ DOMAIN grid = 1..Len(grid)
  BY ListIs DEF IsGrid
<1>2. top \in DOMAIN grid /\ \E c \in DOMAIN grid[top] : grid[top][c] # Blank
  BY HeaderIs
<1>3. IsList(grid[top])
  BY <1>2 DEF IsGrid, IsRow
<1>4. /\ Parsing!Offset(grid[top]) \in Nat
      /\ \A c \in DOMAIN grid[top] : c <= Parsing!Offset(grid[top]) => grid[top][c] = Blank
  BY <1>2, <1>3, OffsetIs
<1>5. top \in Nat \ {0} /\ top <= Len(grid)
  BY <1>1, <1>2
<1>6. RowsRead(grid, top) \in 0..RowLimit
  BY <1>1, <1>5, ParsingAssumptions DEF RowsRead, Parsing!Assumptions
<1> QED BY <1>1, <1>2, <1>4, <1>5, <1>6 DEF Heads, RowsRead

\* The part of a row, and a line that has it.
HasPart(grid, top, mapping, r) == Parsing!PartColumns(grid[r], grid[top], mapping) # {}
ShowsPart(l, grid, top, mapping, r) ==
  <<l.part>> \o l.alternates
    = Parsing!PartsOf(grid[r][Parsing!Min(Parsing!PartColumns(grid[r], grid[top], mapping))])

\* A row with a part is not skipped, and its line shows that part.
LEMMA LineIs ==
  ASSUME NEW top, NEW grid, Heads(top, grid), NEW mapping, Blank \notin DOMAIN mapping,
         NEW r \in DOMAIN grid
  PROVE  /\ LineOf(grid, top, mapping, r).row = r
         /\ HasPart(grid, top, mapping, r) =>
              /\ ~Parsing!Skipped(Cells(grid, top, r), Names(grid, top), mapping)
              /\ ShowsPart(LineOf(grid, top, mapping, r), grid, top, mapping, r)
<1>1. PICK cells, names : cells = Cells(grid, top, r) /\ names = Names(grid, top)
  OBVIOUS
<1>2. PICK value, parts : /\ value = Parsing!Value("mpn", cells, names, mapping)
                          /\ parts = IF value = None THEN <<None>> ELSE Parsing!PartsOf(value)
  OBVIOUS
<1>3. PICK l : l = LineOf(grid, top, mapping, r)
  OBVIOUS
<1>4. l.row = r /\ l.part = parts[1] /\ l.alternates = Tail(parts)
  BY <1>1, <1>2, <1>3 DEF LineOf, Parsing!Line
<1>5. ASSUME HasPart(grid, top, mapping, r)
      PROVE  ~Parsing!Skipped(cells, names, mapping) /\ ShowsPart(l, grid, top, mapping, r)
  <2>1. IsRow(grid[r]) /\ IsRow(grid[top]) /\ Parsing!Offset(grid[top]) \in Nat
    BY DEF Heads, IsGrid
  <2>2. \A c \in DOMAIN grid[top] : c <= Parsing!Offset(grid[top]) => grid[top][c] = Blank
    BY DEF Heads
  <2>3. /\ value = grid[r][Parsing!Min(Parsing!PartColumns(grid[r], grid[top], mapping))]
        /\ value # None
    BY <1>1, <1>2, <1>5, <2>1, <2>2, ValueIs DEF Cells, Names, HasPart
  <2>4. ~Parsing!Skipped(cells, names, mapping)
    BY <1>2, <2>3 DEF Parsing!Skipped
  <2>5. <<l.part>> \o l.alternates = Parsing!PartsOf(value)
    BY <1>2, <1>4, <2>3, PartsJoin
  <2> QED BY <2>3, <2>4, <2>5 DEF ShowsPart
<1> QED BY <1>1, <1>3, <1>4, <1>5

\* The lines of a grid: in its order, and each row with a part is one of them.
LinesAreOf(ls, grid, top, mapping) ==
  /\ Len(ls) \in 0..RowsRead(grid, top) /\ DOMAIN ls = 1..Len(ls)
  /\ \A j, k \in DOMAIN ls : j < k => ls[j].row < ls[k].row
  /\ \A r \in (top + 1)..Len(grid) :
       r <= top + RowLimit /\ HasPart(grid, top, mapping, r) =>
         \E k \in DOMAIN ls :
           (\A j \in DOMAIN ls : ls[j].row = r <=> j = k) /\ ShowsPart(ls[k], grid, top, mapping, r)

\* The lines that Below makes are all the rows kept, in order.
LEMMA LinesAre ==
  ASSUME NEW top, NEW grid, Heads(top, grid), NEW mapping, Blank \notin DOMAIN mapping
  PROVE  LinesAreOf(LinesOf(grid, top, mapping), grid, top, mapping)
<1>1. PICK F, ls : F = Kept(grid, top, mapping) /\ ls = LinesOf(grid, top, mapping)
  OBVIOUS
<1>2. PICK m \in Nat : m = RowsRead(grid, top)
  BY DEF Heads
<1>3. F \subseteq 1..m
  BY <1>1, <1>2 DEF Kept
<1>4. InOrder(F) /\ IsFiniteSet(F) /\ Cardinality(F) \in 0..m
  BY <1>3, InOrderIs
<1>5. ls = [n \in 1..Cardinality(F) |-> LineOf(grid, top, mapping, top + NthOf(F, n))]
  BY <1>1, CountIs DEF LinesOf
<1>6. DOMAIN ls = 1..Cardinality(F) /\ Len(ls) = Cardinality(F)
  <2>1. ls = [n \in 1..Cardinality(F) |-> ls[n]] /\ DOMAIN ls = 1..Cardinality(F)
    BY <1>5
  <2>2. ls \in [1..Cardinality(F) -> {ls[n] : n \in 1..Cardinality(F)}]
    BY <2>1
  <2>3. ls \in Seq({ls[n] : n \in 1..Cardinality(F)})
    BY <1>4, <2>2
  <2> QED BY <1>4, <2>1, <2>3
<1>7. top \in Nat /\ Len(grid) \in Nat /\ DOMAIN grid = 1..Len(grid) /\ top + m <= Len(grid)
  BY <1>2 DEF Heads
<1>8. \A k \in F : k \in Nat /\ top + k \in DOMAIN grid
  BY <1>3, <1>7
<1>9. ASSUME NEW n \in DOMAIN ls
      PROVE  /\ NthOf(F, n) \in F /\ ls[n].row = top + NthOf(F, n)
             /\ ls[n] = LineOf(grid, top, mapping, top + NthOf(F, n))
  <2>1. NthOf(F, n) \in F
    BY <1>4, <1>6 DEF InOrder
  <2>2. ls[n] = LineOf(grid, top, mapping, top + NthOf(F, n))
    BY <1>5, <1>6
  <2>3. PICK r \in DOMAIN grid : r = top + NthOf(F, n)
    BY <1>8, <2>1
  <2>4. LineOf(grid, top, mapping, r).row = r
    BY LineIs
  <2> QED BY <2>1, <2>2, <2>3, <2>4
<1>10. ASSUME NEW j \in DOMAIN ls, NEW k \in DOMAIN ls, j < k PROVE ls[j].row < ls[k].row
  <2>1. NthOf(F, j) < NthOf(F, k)
    BY <1>4, <1>6, <1>10 DEF InOrder
  <2>2. NthOf(F, j) \in Nat /\ NthOf(F, k) \in Nat
    BY <1>8, <1>9
  <2>3. top + NthOf(F, j) < top + NthOf(F, k)
    BY <1>7, <2>1, <2>2
  <2> QED BY <1>9, <2>3
<1>11. ASSUME NEW r \in (top + 1)..Len(grid), r <= top + RowLimit,
              HasPart(grid, top, mapping, r)
       PROVE  \E k \in DOMAIN ls :
                (\A j \in DOMAIN ls : ls[j].row = r <=> j = k) /\ ShowsPart(ls[k], grid, top, mapping, r)
  <2>1. r \in DOMAIN grid /\ r - top \in Nat /\ r - top \in 1..m /\ top + (r - top) = r
    BY <1>2, <1>7, <1>11, ParsingAssumptions DEF Heads, Parsing!Assumptions
  <2>2. ~Parsing!Skipped(Cells(grid, top, r), Names(grid, top), mapping)
    BY <1>11, <2>1, LineIs
  <2>3. r - top \in F
    BY <1>1, <1>2, <2>1, <2>2 DEF Kept
  <2>4. PICK k \in DOMAIN ls : NthOf(F, k) = r - top
    BY <1>4, <1>6, <2>3 DEF InOrder
  <2>5. ls[k].row = r /\ ls[k] = LineOf(grid, top, mapping, r)
    BY <1>9, <2>1, <2>4
  <2>6. ASSUME NEW i \in DOMAIN ls, ls[i].row = r PROVE i = k
    <3>1. i \in Nat /\ k \in Nat /\ r \in Nat
      BY <1>4, <1>6, <2>1, <1>7
    <3>2. ~(i < k) /\ ~(k < i)
      BY <1>10, <2>5, <2>6, <3>1
    <3> QED BY <3>1, <3>2
  <2>7. ShowsPart(ls[k], grid, top, mapping, r)
    BY <1>11, <2>1, <2>5, LineIs
  <2> QED BY <2>5, <2>6, <2>7
<1>12. Len(ls) \in 0..RowsRead(grid, top) /\ DOMAIN ls = 1..Len(ls)
  BY <1>2, <1>4, <1>6
<1> QED BY <1>1, <1>10, <1>11, <1>12 DEF LinesAreOf

----------------------------------------------------------------------------
(* Answers *)

GridOf(f) == f.sheets[Parsing!SelectSheet(f.sheets)]
TopOf(f)  == Parsing!HeaderRow(GridOf(f))
AutoOf(f) == Parsing!MapColumns(GridOf(f)[TopOf(f)])

\* Files with a header.
Readable(f) ==
  /\ f.kind \notin {"empty", "other"} /\ f.fault = None /\ f.sheets # <<>> /\ TopOf(f) # 0

\* The header of a file that can be read.
LEMMA ReadableHeads ==
  ASSUME NEW f \in Files, Readable(f)
  PROVE  Heads(TopOf(f), GridOf(f))
<1>1. IsList(f.sheets) /\ \A s \in DOMAIN f.sheets : IsGrid(f.sheets[s])
  BY FileShape
<1>2. Parsing!SelectSheet(f.sheets) \in DOMAIN f.sheets
  BY <1>1, SheetIs DEF Readable
<1>3. IsGrid(GridOf(f))
  BY <1>1, <1>2 DEF GridOf
<1> QED BY <1>3, HeadsGrid DEF Readable, TopOf

\* All weights together are twenty.
LEMMA ConfidenceIs ==
  ASSUME NEW mapping
  PROVE  Parsing!Confidence(mapping) \in 0..20
<1> DEFINE weight(f) == IF f \in Parsing!Range(mapping) THEN Parsing!Weight[f] ELSE 0
<1>1. /\ weight("mpn") \in 0..8 /\ weight("qty") \in 0..3 /\ weight("refdes") \in 0..1
      /\ weight("manufacturer") \in 0..6 /\ weight("description") \in 0..1
      /\ weight("footprint") \in 0..1
  BY DEF Parsing!Weight
<1>2. Parsing!Confidence(mapping)
        = weight("mpn") + weight("qty") + weight("refdes") + weight("manufacturer")
            + weight("description") + weight("footprint")
  BY DEF Parsing!Confidence
<1> HIDE DEF weight
<1> QED BY <1>1, <1>2

\* An answer with lines: p is what is said of f, its columns being mapping's.
Answers(p, f, mapping) ==
  /\ p.status \in {200, 422} /\ p.mapping = mapping /\ p.confidence \in 0..20
  /\ p.lines = LinesOf(GridOf(f), TopOf(f), mapping)
  /\ p.total = RowsRead(GridOf(f), TopOf(f)) /\ p.skipped = p.total - Len(p.lines)
  /\ Len(GridOf(f)) - TopOf(f) > RowLimit => "RowLimitExceeded" \in p.warnings

Refuses(p) ==
  /\ p.status \in {400, 422, 500} /\ p.mapping = None /\ p.confidence = 0 /\ p.lines = <<>>
  /\ p.total = 0 /\ p.skipped = 0

\* The handler may refuse an answer, but leaves the lines.
LEMMA JudgedIs ==
  ASSUME NEW p, NEW given,
         p = [status |-> p.status, mapping |-> p.mapping, confidence |-> p.confidence,
              lines |-> p.lines, warnings |-> p.warnings, total |-> p.total, skipped |-> p.skipped]
  PROVE  /\ Parsing!Judged(p, given).status \in {p.status, 422}
         /\ p.status # 200 \/ given # None => Parsing!Judged(p, given).status = p.status
         /\ Parsing!Judged(p, given).mapping = p.mapping
         /\ Parsing!Judged(p, given).confidence = p.confidence
         /\ Parsing!Judged(p, given).lines = p.lines
         /\ Parsing!Judged(p, given).warnings = p.warnings
         /\ Parsing!Judged(p, given).total = p.total
         /\ Parsing!Judged(p, given).skipped = p.skipped
<1>1. PICK q : q = Parsing!Judged(p, given)
  OBVIOUS
<1>2. CASE p.status = 200 /\ given = None /\ p.confidence < 6
  <2>1. q = [p EXCEPT !.status = 422]
    BY <1>1, <1>2 DEF Parsing!Judged
  <2> QED BY <1>1, <1>2, <2>1
<1>3. CASE ~(p.status = 200 /\ given = None /\ p.confidence < 6)
  BY <1>3 DEF Parsing!Judged
<1> QED BY <1>2, <1>3

\* A refusal has no lines and names no columns.
LEMMA RefusalIs ==
  ASSUME NEW status \in {400, 422, 500}, NEW given
  PROVE  Refuses(Parsing!Judged(Parsing!Refusal(status), given))
<1>1. PICK p : p = Parsing!Refusal(status)
  OBVIOUS
<1>2. /\ p.status = status /\ p.mapping = None /\ p.confidence = 0 /\ p.lines = <<>>
      /\ p.total = 0 /\ p.skipped = 0
  BY <1>1 DEF Parsing!Refusal
<1>3. p = [status |-> p.status, mapping |-> p.mapping, confidence |-> p.confidence,
           lines |-> p.lines, warnings |-> p.warnings, total |-> p.total, skipped |-> p.skipped]
  BY <1>1 DEF Parsing!Refusal
<1>4. p.status # 200
  BY <1>2
<1> QED BY <1>1, <1>2, <1>3, <1>4, JudgedIs DEF Refuses

\* What is read of a grid, in the parser's words.
LEMMA BelowIs ==
  ASSUME NEW grid, NEW top, NEW auto, NEW mapping
  PROVE  Parsing!Below(grid, top, Parsing!Offset(grid[top]),
                       Parsing!MappedHeader(grid[top], Parsing!Offset(grid[top])),
                       auto, mapping, RowsRead(grid, top))
           = Parsing!Accepted(LinesOf(grid, top, mapping), Names(grid, top), auto, mapping,
                              RowsRead(grid, top), Len(grid) - top)
BY DEF Parsing!Below, LinesOf, Kept, NthOf, LineOf, Cells, Names

\* What is said of the lines of a grid.
LEMMA AcceptedIs ==
  ASSUME NEW ls, NEW names, NEW auto, NEW mapping, NEW total, NEW below
  PROVE  LET p == Parsing!Accepted(ls, names, auto, mapping, total, below)
         IN /\ p = [status |-> p.status, mapping |-> p.mapping, confidence |-> p.confidence,
                    lines |-> p.lines, warnings |-> p.warnings, total |-> p.total, skipped |-> p.skipped]
            /\ p.status = 200 /\ p.mapping = mapping /\ p.confidence \in 0..20 /\ p.lines = ls
            /\ p.total = total /\ p.skipped = total - Len(ls)
            /\ below > RowLimit => "RowLimitExceeded" \in p.warnings
<1>1. PICK p : p = Parsing!Accepted(ls, names, auto, mapping, total, below)
  OBVIOUS
<1>2. /\ p = [status |-> p.status, mapping |-> p.mapping, confidence |-> p.confidence,
              lines |-> p.lines, warnings |-> p.warnings, total |-> p.total, skipped |-> p.skipped]
      /\ p.status = 200 /\ p.mapping = mapping /\ p.confidence = Parsing!Confidence(mapping)
      /\ p.lines = ls /\ p.total = total /\ p.skipped = total - Len(ls)
  BY <1>1 DEF Parsing!Accepted
<1>3. ASSUME below > RowLimit PROVE "RowLimitExceeded" \in p.warnings
  BY <1>1, <1>3 DEF Parsing!Accepted
<1> QED BY <1>1, <1>2, <1>3, ConfidenceIs

\* The handler's answer: the lines of the file, or a refusal.
LEMMA HandledIs ==
  ASSUME NEW f, NEW given
  PROVE  LET p == Parsing!Handled(f, given)
         IN /\ Readable(f) => Answers(p, f, IF given = None THEN AutoOf(f) ELSE given)
            /\ Readable(f) /\ given # None => p.status = 200
            /\ ~Readable(f) => Refuses(p)
<1>1. PICK p : p = Parsing!Handled(f, given)
  OBVIOUS
<1>2. p = Parsing!Judged(Parsing!ParseFile(f, given), given)
  BY <1>1 DEF Parsing!Handled
<1>3. ASSUME ~Readable(f) PROVE Refuses(p)
  <2>1. \E status \in {400, 422, 500} : Parsing!ParseFile(f, given) = Parsing!Refusal(status)
    BY <1>3 DEF Readable, TopOf, GridOf, Parsing!ParseFile, Parsing!Parsed
  <2>2. PICK status \in {400, 422, 500} : Parsing!ParseFile(f, given) = Parsing!Refusal(status)
    BY <2>1
  <2> QED BY <1>2, <2>2, RefusalIs
<1>4. ASSUME Readable(f)
      PROVE  /\ Answers(p, f, IF given = None THEN AutoOf(f) ELSE given)
             /\ given # None => p.status = 200
  <2>1. PICK grid, top, auto : grid = GridOf(f) /\ top = TopOf(f) /\ auto = AutoOf(f)
    OBVIOUS
  <2>2. Parsing!ParseFile(f, given) = Parsing!Parsed(grid, top, given) /\ top # 0
    BY <1>4, <2>1 DEF Readable, TopOf, GridOf, Parsing!ParseFile
  <2>3. PICK mapping : mapping = IF given = None THEN auto ELSE given
    OBVIOUS
  <2>4. PICK q : q = Parsing!Accepted(LinesOf(grid, top, mapping), Names(grid, top), auto, mapping,
                                      RowsRead(grid, top), Len(grid) - top)
    OBVIOUS
  <2>5. Parsing!Parsed(grid, top, given) = q
    <3>1. auto = Parsing!MapColumns(grid[top])
      BY <2>1 DEF AutoOf
    <3>2. Parsing!Parsed(grid, top, given)
            = Parsing!Mapped(grid, top, Parsing!Offset(grid[top]), auto, given)
      BY <2>2, <3>1 DEF Parsing!Parsed
    <3>3. @ = Parsing!Below(grid, top, Parsing!Offset(grid[top]),
                            Parsing!MappedHeader(grid[top], Parsing!Offset(grid[top])),
                            auto, mapping, RowsRead(grid, top))
      BY <2>3 DEF Parsing!Mapped, RowsRead
    <3> QED BY <2>4, <3>2, <3>3, BelowIs
  <2>6. /\ q = [status |-> q.status, mapping |-> q.mapping, confidence |-> q.confidence,
                lines |-> q.lines, warnings |-> q.warnings, total |-> q.total, skipped |-> q.skipped]
        /\ q.status = 200 /\ q.mapping = mapping /\ q.confidence \in 0..20
        /\ q.lines = LinesOf(grid, top, mapping)
        /\ q.total = RowsRead(grid, top) /\ q.skipped = q.total - Len(q.lines)
        /\ Len(grid) - top > RowLimit => "RowLimitExceeded" \in q.warnings
    BY <2>4, AcceptedIs
  <2>7. p = Parsing!Judged(q, given)
    BY <1>2, <2>2, <2>5
  <2>8. /\ p.status \in {200, 422} /\ p.mapping = q.mapping /\ p.confidence = q.confidence
        /\ p.lines = q.lines /\ p.warnings = q.warnings /\ p.total = q.total /\ p.skipped = q.skipped
        /\ given # None => p.status = 200
    BY <2>6, <2>7, JudgedIs
  <2> QED BY <2>1, <2>3, <2>6, <2>8 DEF Answers
<1> QED BY <1>1, <1>3, <1>4

----------------------------------------------------------------------------
(* The client *)

\* The last answer is to the file with the columns it was sent with, and no
\* column without a name has been given a field.
ParserInv ==
  /\ paFile \in Files \cup {None} /\ paUploads \in 0..MaxUploads
  /\ paFile = None => paAnswer = None /\ paOverride = None
  /\ paAnswer # None =>
       /\ paFile \in Files
       /\ paAnswer = Parsing!Handled(paFile, paOverride)
       /\ paProposed = Parsing!Handled(paFile, None)
  /\ paOverride # None => Blank \notin DOMAIN paOverride

\* The columns that are read are the parser's or the client's.
LEMMA ReadAs ==
  ASSUME ParserInv, paAnswer # None, paAnswer.mapping # None
  PROVE  /\ Readable(paFile) /\ paFile \in Files
         /\ paAnswer.mapping = IF paOverride = None THEN AutoOf(paFile) ELSE paOverride
         /\ Answers(paAnswer, paFile, paAnswer.mapping)
         /\ Blank \notin DOMAIN paAnswer.mapping
<1>1. paFile \in Files /\ paAnswer = Parsing!Handled(paFile, paOverride)
  BY DEF ParserInv
<1>2. Readable(paFile)
  BY <1>1, HandledIs DEF Refuses
<1>3. Answers(paAnswer, paFile, IF paOverride = None THEN AutoOf(paFile) ELSE paOverride)
  BY <1>1, <1>2, HandledIs
<1>4. paAnswer.mapping = IF paOverride = None THEN AutoOf(paFile) ELSE paOverride
  BY <1>3 DEF Answers
<1>5. Blank \notin DOMAIN AutoOf(paFile)
  BY DEF AutoOf, Parsing!MapColumns
<1>6. Blank \notin DOMAIN paAnswer.mapping
  BY <1>4, <1>5 DEF ParserInv
<1> QED BY <1>1, <1>2, <1>3, <1>4, <1>6

\* Before the first upload there is nothing to say.
LEMMA InitParser == Parsing!Init => ParserInv
BY ParsingAssumptions DEF Parsing!Init, ParserInv, Parsing!Assumptions

\* A client's mapping that names no blank header keeps the invariant.
LEMMA SendKeeps ==
  ASSUME ParserInv, Parsing!Shown, NEW given, Blank \notin DOMAIN given, Parsing!Send(given)
  PROVE  ParserInv'
<1>1. /\ paUploads < MaxUploads /\ paUploads' = paUploads + 1 /\ paOverride' = given
      /\ paAnswer' = Parsing!Handled(paFile, given) /\ paFile' = paFile /\ paProposed' = paProposed
  BY DEF Parsing!Send
<1>2. paAnswer # None /\ paFile \in Files /\ paProposed = Parsing!Handled(paFile, None)
  BY DEF ParserInv, Parsing!Shown
<1>3. None \notin Files /\ MaxUploads \in Nat
  BY ParsingAssumptions DEF Parsing!Assumptions
<1>4. paUploads' \in 0..MaxUploads
  BY <1>1, <1>3 DEF ParserInv
<1> QED BY <1>1, <1>2, <1>3, <1>4 DEF ParserInv

\* Every step of the client and the parser keeps it.
LEMMA NextOfParser == ParserInv /\ [Parsing!Next]_(Parsing!vars) => ParserInv'
<1> SUFFICES ASSUME ParserInv, [Parsing!Next]_(Parsing!vars) PROVE ParserInv'
  OBVIOUS
<1>1. CASE Parsing!Upload
  <2>1. /\ paFile = None /\ paFile' \in Files /\ paAnswer' = Parsing!Handled(paFile', None)
        /\ paProposed' = paAnswer' /\ paOverride' = paOverride /\ paUploads' = paUploads
    BY <1>1 DEF Parsing!Upload
  <2>2. paOverride' = None
    BY <2>1 DEF ParserInv
  <2>3. None \notin Files
    BY ParsingAssumptions DEF Parsing!Assumptions
  <2> QED BY <2>1, <2>2, <2>3 DEF ParserInv
<1>2. CASE Parsing!Confirm
  <2>1. Parsing!Shown /\ Parsing!Send(paAnswer.mapping)
    BY <1>2 DEF Parsing!Confirm
  <2>2. Blank \notin DOMAIN paAnswer.mapping
    BY <2>1, ReadAs DEF Parsing!Shown
  <2> QED BY <2>1, <2>2, SendKeeps
<1>3. CASE Parsing!Correct
  <2>1. Parsing!Shown
    BY <1>3 DEF Parsing!Correct
  <2>2. Blank \notin DOMAIN paAnswer.mapping
    BY <2>1, ReadAs DEF Parsing!Shown
  <2>3. \E given : Blank \notin DOMAIN given /\ Parsing!Send(given)
    BY <1>3, <2>2 DEF Parsing!Correct
  <2> QED BY <2>1, <2>3, SendKeeps
<1>4. CASE UNCHANGED Parsing!vars
  BY <1>4 DEF Parsing!vars, ParserInv
<1> QED BY <1>1, <1>2, <1>3, <1>4 DEF Parsing!Next

\* NoPartIsLost says this of an answer and its grid.
RowsAreLines(p, mapping, grid, top) ==
  /\ \A r \in (top + 1)..Len(grid) :
       r <= top + RowLimit /\ Parsing!PartColumns(grid[r], grid[top], mapping) # {} =>
         \E k \in DOMAIN p.lines :
           /\ \A j \in DOMAIN p.lines : p.lines[j].row = r <=> j = k
           /\ <<p.lines[k].part>> \o p.lines[k].alternates
                = Parsing!PartsOf(grid[r][Parsing!Min(Parsing!PartColumns(grid[r], grid[top], mapping))])
  /\ \A j, k \in DOMAIN p.lines : j < k => p.lines[j].row < p.lines[k].row
  /\ Parsing!Cardinality((top + 1)..Len(grid)) > p.total => "RowLimitExceeded" \in p.warnings

\* The invariant says what NoPartIsLost says.
LEMMA PartsAreKept == ParserInv => NoPartIsLost
<1> SUFFICES ASSUME ParserInv, paAnswer # None, paAnswer.mapping # None PROVE NoPartIsLost
  BY DEF NoPartIsLost, Parsing!NoPartIsLost
<1>1. PICK f, p : f = paFile /\ p = paAnswer
  OBVIOUS
<1>2. PICK mapping : mapping = p.mapping
  OBVIOUS
<1>3. /\ Readable(f) /\ f \in Files /\ Answers(p, f, mapping) /\ Blank \notin DOMAIN mapping
      /\ mapping = IF paOverride = None THEN AutoOf(f) ELSE paOverride
  BY <1>1, <1>2, ReadAs
<1>4. PICK grid, top : grid = GridOf(f) /\ top = TopOf(f)
  OBVIOUS
<1>5. Heads(top, grid)
  BY <1>3, <1>4, ReadableHeads
<1>6. LinesAreOf(p.lines, grid, top, mapping)
  BY <1>3, <1>4, <1>5, LinesAre DEF Answers
<1>7. Parsing!Cardinality((top + 1)..Len(grid)) > p.total => "RowLimitExceeded" \in p.warnings
  <2>1. top \in Nat /\ Len(grid) \in Nat /\ top <= Len(grid)
    BY <1>5 DEF Heads
  <2>2. Cardinality((top + 1)..Len(grid)) = Len(grid) - top
    <3>1. top + 1 \in Int /\ Len(grid) \in Int
      BY <2>1
    <3>2. Cardinality((top + 1)..Len(grid))
            = IF top + 1 > Len(grid) THEN 0 ELSE Len(grid) - (top + 1) + 1
      BY <3>1, FS_Interval
    <3> QED BY <2>1, <3>2
  <2>3. p.total = IF Len(grid) - top > RowLimit THEN RowLimit ELSE Len(grid) - top
    BY <1>3, <1>4 DEF Answers, RowsRead
  <2>4. Len(grid) - top > RowLimit => "RowLimitExceeded" \in p.warnings
    BY <1>3, <1>4 DEF Answers
  <2> QED BY <2>1, <2>2, <2>3, <2>4, CountIs, ParsingAssumptions DEF Parsing!Assumptions
<1>8. ASSUME paOverride # None
      PROVE  /\ p.status = 200
             /\ paOverride = paProposed.mapping => p.lines = paProposed.lines
  <2>1. p = Parsing!Handled(f, paOverride) /\ paProposed = Parsing!Handled(f, None)
    BY <1>1 DEF ParserInv
  <2>2. p.status = 200
    BY <1>3, <1>8, <2>1, HandledIs
  <2>3. Answers(paProposed, f, AutoOf(f))
    BY <1>3, <2>1, HandledIs
  <2>4. p.lines = LinesOf(grid, top, paOverride) /\ paProposed.lines = LinesOf(grid, top, AutoOf(f))
    BY <1>3, <1>4, <1>8, <2>3 DEF Answers
  <2>5. paProposed.mapping = AutoOf(f)
    BY <2>3 DEF Answers
  <2> QED BY <2>2, <2>4, <2>5
<1>9. RowsAreLines(p, mapping, grid, top)
  BY <1>6, <1>7 DEF LinesAreOf, HasPart, ShowsPart, RowsAreLines
<1>10. RowsAreLines(paAnswer, paAnswer.mapping, paFile.sheets[Parsing!SelectSheet(paFile.sheets)],
                    Parsing!HeaderRow(paFile.sheets[Parsing!SelectSheet(paFile.sheets)]))
  BY <1>1, <1>2, <1>4, <1>9 DEF GridOf, TopOf
<1>11. /\ paOverride # None => paAnswer.status = 200
       /\ paOverride # None /\ paOverride = paProposed.mapping => paAnswer.lines = paProposed.lines
  BY <1>1, <1>8
<1> QED BY <1>10, <1>11 DEF RowsAreLines, NoPartIsLost, Parsing!NoPartIsLost

\* The invariant says what TypeOK says.
LEMMA ParserTypes == ParserInv => Parsing!TypeOK
<1> SUFFICES ASSUME ParserInv PROVE Parsing!TypeOK
  OBVIOUS
<1>1. paFile \in Files \cup {None} /\ paUploads \in 0..MaxUploads
  BY DEF ParserInv
<1>2. ASSUME paAnswer # None
      PROVE  /\ paAnswer.status \in {200, 400, 422, 500} /\ paAnswer.confidence \in 0..20
             /\ paAnswer.total \in 0..RowLimit /\ paAnswer.skipped \in 0..paAnswer.total
             /\ DOMAIN paAnswer.lines = 1..(paAnswer.total - paAnswer.skipped)
             /\ paOverride # None => paAnswer.mapping \in {None, paOverride}
  <2>1. PICK f, p : f = paFile /\ p = paAnswer
    OBVIOUS
  <2>2. f \in Files /\ p = Parsing!Handled(f, paOverride)
    BY <1>2, <2>1 DEF ParserInv
  <2>3. RowLimit \in Nat
    BY ParsingAssumptions DEF Parsing!Assumptions
  <2>4. CASE Readable(f)
    <3>1. PICK mapping : mapping = IF paOverride = None THEN AutoOf(f) ELSE paOverride
      OBVIOUS
    <3>2. Answers(p, f, mapping)
      BY <2>2, <2>4, <3>1, HandledIs
    <3>3. PICK grid, top : grid = GridOf(f) /\ top = TopOf(f)
      OBVIOUS
    <3>4. Heads(top, grid)
      BY <2>2, <2>4, <3>3, ReadableHeads
    <3>5. Blank \notin DOMAIN AutoOf(f)
      BY DEF AutoOf, Parsing!MapColumns
    <3>6. Blank \notin DOMAIN mapping
      BY <3>1, <3>5 DEF ParserInv
    <3>7. LinesAreOf(p.lines, grid, top, mapping)
      BY <3>2, <3>3, <3>4, <3>6, LinesAre DEF Answers
    <3>8. PICK n \in Nat, t \in Nat : n = Len(p.lines) /\ t = p.total /\ n <= t /\ t <= RowLimit
      <4>1. p.total = RowsRead(grid, top)
        BY <3>2, <3>3 DEF Answers
      <4>2. RowsRead(grid, top) \in 0..RowLimit
        BY <3>4 DEF Heads
      <4>3. Len(p.lines) \in 0..RowsRead(grid, top)
        BY <3>7 DEF LinesAreOf
      <4> QED BY <2>3, <4>1, <4>2, <4>3
    <3>9. p.skipped = t - n /\ DOMAIN p.lines = 1..n /\ t - (t - n) = n
      BY <3>2, <3>7, <3>8 DEF Answers, LinesAreOf
    <3>10. p.status \in {200, 422} /\ p.confidence \in 0..20 /\ p.mapping = mapping
      BY <3>2 DEF Answers
    <3> QED BY <2>1, <2>3, <3>1, <3>8, <3>9, <3>10
  <2>5. CASE ~Readable(f)
    <3>1. Refuses(p)
      BY <2>2, <2>5, HandledIs
    <3>2. DOMAIN p.lines = {} /\ 1..(0 - 0) = {}
      BY <3>1 DEF Refuses
    <3> QED BY <2>1, <2>3, <3>1, <3>2 DEF Refuses
  <2> QED BY <2>4, <2>5
<1> QED BY <1>1, <1>2 DEF Parsing!TypeOK

\* A behaviour of Backend is one of Parser.
LEMMA ParsingSpec == SpecAll => Parsing!Spec
<1>1. InitAll => Parsing!Init
  BY DEF InitAll
<1>2. [NextOfOne]_everything => [Parsing!Next]_(Parsing!vars)
  BY DEF NextOfOne, everything, parserVars, Parsing!vars
<1> QED BY <1>1, <1>2, PTL DEF SpecAll, Parsing!Spec

\* NoPartIsLost, of normalize_row and parse_file_with_mapping: for any file and any columns a
\* client names, a row with something in the part number's columns is one line,
\* with the leftmost of those as its part, in the order of the file, or a warning
\* says that the limit was exceeded; the columns that were shown give the lines
\* that were shown.
THEOREM NoPartsAreLost == SpecAll => []NoPartIsLost
<1>1. Parsing!Spec => []ParserInv
  BY InitParser, NextOfParser, PTL DEF Parsing!Spec
<1> QED BY <1>1, ParsingSpec, PartsAreKept, PTL

----------------------------------------------------------------------------
(* The types of the list *)

\* What TypeOK says of the readers and of the bounds.
ReaderTypes ==
  /\ liReader \in {"idle", "pages", "walked", "stuck", "flagged", "listed", "failed"}
  /\ liSteady \subseteq ListIds /\ liWrites \in 0..MaxWrites /\ liReads \in 0..MaxReads

\* Nobody reads yet.
LEMMA InitReaders == Lists!Init => ReaderTypes
BY ListAssumptions DEF Lists!Init, ReaderTypes, Lists!Assumptions

\* Only the opening of a list makes more BOMs steady, some of those listed.
LEMMA NextOfReaders == ListsInv /\ ReaderTypes /\ [Lists!Next]_(Lists!vars) => ReaderTypes'
<1> SUFFICES ASSUME ListsInv, ReaderTypes, [Lists!Next]_(Lists!vars) PROVE ReaderTypes'
  OBVIOUS
<1>1. liReader' \in {"idle", "pages", "walked", "stuck", "flagged", "listed", "failed"}
  <2>1. CASE liReader' = liReader
    BY <2>1 DEF ReaderTypes
  <2>2. CASE Lists!OpenList \/ Lists!Page \/ Lists!InvalidToken \/ Lists!OpenFlagged \/ Lists!Load
             \/ Lists!AnswerFlagged
    BY <2>2 DEF ReaderTypes, Lists!OpenList, Lists!Page, Lists!InvalidToken, Lists!OpenFlagged,
       Lists!Load, Lists!AnswerFlagged, Lists!Begin
  <2> QED BY <2>1, <2>2 DEF Lists!Next, Lists!vars, Lists!Create, Lists!Edit, Lists!WriteNew,
             Lists!WriteEdited, Lists!Delete, Lists!Erase, Lists!Write
<1>2. liSteady' \subseteq ListIds
  <2>1. CASE liSteady' \subseteq liSteady
    BY <2>1 DEF ReaderTypes
  <2>2. CASE liSteady' = Lists!Ids(liIndex)
    BY <2>2, NoneIsNoId DEF ListsInv, ListTypes
  <2>3. CASE liSteady' = {b \in ListIds : Lists!Flagged(b)}
    BY <2>3
  <2>4. \/ liSteady' \subseteq liSteady \/ liSteady' = Lists!Ids(liIndex)
        \/ liSteady' = {b \in ListIds : Lists!Flagged(b)}
    <3>1. ASSUME Lists!Create \/ Lists!Edit PROVE liSteady' \subseteq liSteady
      BY <3>1 DEF Lists!Create, Lists!Edit, Lists!Store
    <3>2. ASSUME \/ Lists!WriteNew \/ Lists!WriteEdited \/ Lists!Delete \/ Lists!Erase \/ Lists!Page
                 \/ Lists!InvalidToken \/ Lists!Load \/ Lists!AnswerFlagged \/ UNCHANGED Lists!vars
          PROVE  liSteady' \subseteq liSteady
      BY <3>2 DEF Lists!WriteNew, Lists!WriteEdited, Lists!Delete, Lists!Erase, Lists!Page,
         Lists!InvalidToken, Lists!Load, Lists!AnswerFlagged, Lists!vars
    <3>3. ASSUME Lists!OpenList \/ Lists!OpenFlagged
          PROVE  liSteady' = Lists!Ids(liIndex) \/ liSteady' = {b \in ListIds : Lists!Flagged(b)}
      BY <3>3 DEF Lists!OpenList, Lists!OpenFlagged
    <3> QED BY <3>1, <3>2, <3>3 DEF Lists!Next
  <2> QED BY <2>1, <2>2, <2>3, <2>4
<1>3. /\ liWrites' = liWrites \/ (liWrites < MaxWrites /\ liWrites' = liWrites + 1)
      /\ liReads' = liReads \/ (liReads < MaxReads /\ liReads' = liReads + 1)
  <2>1. CASE Lists!Create \/ Lists!Edit \/ Lists!Delete
    BY <2>1 DEF Lists!Create, Lists!Edit, Lists!Delete, Lists!Write
  <2>2. CASE Lists!OpenList \/ Lists!OpenFlagged
    BY <2>2 DEF Lists!OpenList, Lists!OpenFlagged, Lists!Begin
  <2>3. CASE \/ Lists!WriteNew \/ Lists!WriteEdited \/ Lists!Erase \/ Lists!Page
             \/ Lists!InvalidToken \/ Lists!Load \/ Lists!AnswerFlagged \/ UNCHANGED Lists!vars
    BY <2>3 DEF Lists!WriteNew, Lists!WriteEdited, Lists!Erase, Lists!Page,
       Lists!InvalidToken, Lists!Load, Lists!AnswerFlagged, Lists!vars
  <2> QED BY <2>1, <2>2, <2>3 DEF Lists!Next
<1>4. liWrites' \in 0..MaxWrites /\ liReads' \in 0..MaxReads
  BY <1>3, ListAssumptions DEF ReaderTypes, Lists!Assumptions
<1> QED BY <1>1, <1>2, <1>4 DEF ReaderTypes

\* An index that lists each BOM once has as many entries as BOMs.
LEMMA OnceCounts ==
  ASSUME NEW s, Once(s)
  PROVE  Lists!Cardinality(Lists!Ids(s)) = Len(s)
<1> DEFINE f == [k \in 1..Len(s) |-> s[k].id]
<1>1. Len(s) \in Nat /\ DOMAIN s = 1..Len(s)
  BY OnceIs
<1>2. f \in Bijection(1..Len(s), Lists!Ids(s))
  <2>1. f \in [1..Len(s) -> Lists!Ids(s)]
    BY <1>1 DEF Lists!Ids
  <2>2. \A j, k \in 1..Len(s) : f[j] = f[k] => j = k
    BY <1>1 DEF Once
  <2>3. \A b \in Lists!Ids(s) : \E k \in 1..Len(s) : f[k] = b
    BY <1>1 DEF Lists!Ids
  <2> HIDE DEF f
  <2> QED BY <2>1, <2>2, <2>3 DEF Bijection, Injection, Surjection, IsInjective
<1>3. IsFiniteSet(1..Len(s)) /\ Cardinality(1..Len(s)) = Len(s)
  <2>1. ASSUME NEW n \in Nat PROVE IsFiniteSet(1..n) /\ Cardinality(1..n) = n
    BY FS_Interval
  <2> QED BY <1>1, <2>1
<1>4. Cardinality(Lists!Ids(s)) = Cardinality(1..Len(s))
  <2>1. ExistsBijection(1..Len(s), Lists!Ids(s))
    BY <1>2 DEF ExistsBijection
  <2> QED BY <1>3, <2>1, FS_Bijection
<1>5. Lists!Cardinality(Lists!Ids(s)) = Cardinality(Lists!Ids(s))
  <2>1. \A S : Lists!Cardinality(S) = Cardinality(S)
    BY DEF Lists!Cardinality, Cardinality
  <2> QED BY <2>1
<1> QED BY <1>3, <1>4, <1>5

\* Both invariants say what TypeOK says.
LEMMA ListTypesHold == ListsInv /\ ReaderTypes => Lists!TypeOK
<1> SUFFICES ASSUME ListsInv, ReaderTypes PROVE Lists!TypeOK
  OBVIOUS
<1>1. Lists!Cardinality(Lists!Ids(liIndex)) = Len(liIndex)
  BY OnceCounts DEF ListsInv, ListTypes
<1>2. liStored \in [ListIds -> Lists!Marks \cup {None}]
  BY DEF ListsInv, ListTypes, Lists!Marks
<1>3. /\ liIndex \in Seq(Lists!Entries) /\ liTodo \in Seq(Lists!Entries) /\ liShown \in Seq(ListIds)
      /\ liWriting \in Lists!Entries \cup {None} /\ liToken \in ListIds \cup {None}
  BY DEF ListsInv, ListTypes, Once
<1>4. liCreating \in BOOLEAN /\ liAgain \in BOOLEAN
  BY DEF ListsInv, ListTypes
<1> QED BY <1>1, <1>2, <1>3, <1>4, Zenon DEF ReaderTypes, Lists!TypeOK

\* TypeOK of BomLists, in the behaviours of Backend.
LEMMA ListsAreTyped == SpecAll => [](Lists!TypeOK)
<1>1. Lists!Init => ListsInv /\ ReaderTypes
  BY InitLists, InitReaders
<1>2. ListsInv /\ ReaderTypes /\ [Lists!Next]_(Lists!vars) => (ListsInv /\ ReaderTypes)'
  BY NextOfLists, NextOfReaders
<1> QED BY <1>1, <1>2, ListTypesHold, ListsSpec, PTL DEF Lists!Spec

----------------------------------------------------------------------------
(* The types of the analysis *)

\* What TypeOK says of a line, but for its fields and its risk.
TypedLine(l) ==
  /\ l.avail \in Scoring!Availabilities /\ l.life \in Scoring!Lifecycles
  /\ l.part \in Parts \cup {None} /\ l.maker \in Makers \cup {None}
  /\ l.entity \in BOOLEAN \cup {None} /\ l.total \in Nat \cup {None}

TypedLines(ls) == \A k \in DOMAIN ls : TypedLine(ls[k])

\* A line is green until it is scored, and what Score says after that.
RiskIsLevel(ls) == \A k \in DOMAIN ls : ls[k].risk \in Scoring!Levels

\* The lines of a list that has only lines of another.
LEMMA OfTheseTyped ==
  ASSUME NEW ls, TypedLines(ls), NEW ms, \A j \in DOMAIN ms : \E i \in DOMAIN ls : ms[j] = ls[i]
  PROVE  TypedLines(ms)
BY DEF TypedLines

\* Scores are levels, and change nothing else.
LEMMA ScoredIsTyped ==
  ASSUME NEW ls, Good(ls), TypedLines(ls)
  PROVE  TypedLines(Scoring!Scored(ls)) /\ RiskIsLevel(Scoring!Scored(ls))
<1>1. PICK ms : ms = Scoring!Scored(ls)
  OBVIOUS
<1>2. ms = [k \in DOMAIN ls |-> [ls[k] EXCEPT !.risk = Scoring!Score(ls[k])]]
  BY <1>1 DEF Scoring!Scored
<1>3. ASSUME NEW k \in DOMAIN ls
      PROVE  TypedLine(ms[k]) /\ ms[k].risk \in Scoring!Levels
  <2>1. PICK l, m, r : l = ls[k] /\ m = ms[k] /\ r = Scoring!Score(l)
    OBVIOUS
  <2>2. m = [l EXCEPT !.risk = r]
    BY <1>2, <2>1
  <2>3. DOMAIN l = Scoring!Fields /\ TypedLine(l)
    BY <2>1 DEF Good, GoodLine, TypedLines
  <2>4. "risk" \in DOMAIN l
    BY <2>3, LineFields
  <2>5. /\ m.avail = l.avail /\ m.life = l.life /\ m.part = l.part /\ m.maker = l.maker
        /\ m.entity = l.entity /\ m.total = l.total /\ m.risk = r
    BY <2>2, <2>4
  <2>6. r \in Scoring!Levels
    BY <2>1 DEF Scoring!Score, Scoring!Levels
  <2>7. TypedLine(m)
    BY <2>3, <2>5, Zenon DEF TypedLine
  <2> QED BY <2>1, <2>5, <2>6, <2>7
<1>4. DOMAIN ms = DOMAIN ls
  BY <1>2
<1> QED BY <1>1, <1>3, <1>4 DEF TypedLines, RiskIsLevel

\* What the cache may answer of a line.
LEMMA FoundIs ==
  ASSUME NEW ls, NEW k \in DOMAIN ls, NEW cache \in Scoring!Caches(ls), NEW e,
         e = Scoring!Answer(ls, cache, k).is
  PROVE  e.avail \in Scoring!Availabilities /\ e.life \in Scoring!Lifecycles
<1>1. PICK l : l = ls[k]
  OBVIOUS
<1>2. e = IF l.part = None THEN Scoring!NoPart ELSE cache[Scoring!Key(l)]
  BY <1>1 DEF Scoring!Answer, Scoring!Found
<1>3. Scoring!Key(l) \in Scoring!Keys(ls)
  BY <1>1 DEF Scoring!Keys
<1>4. e \in Facts \cup {Scoring!Missed} \/ e = Scoring!NoPart
  BY <1>2, <1>3 DEF Scoring!Caches
<1>5. Scoring!Missed.avail = "Pending" /\ Scoring!Missed.life = "Unknown"
  BY DEF Scoring!Missed
<1>6. Scoring!NoPart.avail = "NoMatch" /\ Scoring!NoPart.life = "Unknown"
  BY DEF Scoring!NoPart, Scoring!Missed
<1>7. CASE e \in Facts
  BY <1>7, ScoringAssumptions DEF Scoring!Assumptions
<1>8. CASE e = Scoring!Missed
  BY <1>5, <1>8 DEF Scoring!Availabilities, Scoring!Lifecycles
<1>9. CASE e = Scoring!NoPart
  BY <1>6, <1>9 DEF Scoring!Availabilities, Scoring!Lifecycles
<1> QED BY <1>4, <1>7, <1>8, <1>9

\* apply_enrichment_results keeps the types.
LEMMA EnrichedIsTyped ==
  ASSUME NEW ls, Good(ls), TypedLines(ls), NEW cache \in Scoring!Caches(ls)
  PROVE  TypedLines(Scoring!Enriched(ls, cache))
<1>1. PICK ms : ms = Scoring!Enriched(ls, cache)
  OBVIOUS
<1>2. DOMAIN ms = DOMAIN ls
  BY <1>1 DEF Scoring!Enriched
<1>3. ASSUME NEW k \in DOMAIN ls PROVE TypedLine(ms[k])
  <2>1. PICK l, m, e, of : /\ l = ls[k] /\ m = ms[k] /\ e = Scoring!Answer(ls, cache, k).is
                           /\ of = Scoring!Answer(ls, cache, k).of
    OBVIOUS
  <2>2. m = [l EXCEPT !.avail = e.avail, !.life = e.life, !.scarce = e.scarce, !.slow = e.slow,
                      !.category = Scoring!Or(@, e.category), !.origin = Scoring!Or(@, e.origin),
                      !.answered = of, !.blind = FALSE]
    BY <1>1, <2>1 DEF Scoring!Enriched
  <2>3. DOMAIN l = Scoring!Fields /\ TypedLine(l)
    BY <2>1 DEF Good, GoodLine, TypedLines
  <2>4. "avail" \in DOMAIN l /\ "life" \in DOMAIN l
    BY <2>3, LineFields
  <2>5. /\ m.avail = e.avail /\ m.life = e.life /\ m.part = l.part /\ m.maker = l.maker
        /\ m.entity = l.entity /\ m.total = l.total
    BY <2>2, <2>4
  <2>6. e.avail \in Scoring!Availabilities /\ e.life \in Scoring!Lifecycles
    BY <2>1, FoundIs
  <2> QED BY <2>1, <2>3, <2>5, <2>6, Zenon DEF TypedLine
<1> QED BY <1>1, <1>2, <1>3 DEF TypedLines

----------------------------------------------------------------------------
\* assess_one: a total is a rate or nothing, and a maker is listed or is not.
LEMMA AssessedIs ==
  ASSUME NEW d \in Loaded, NEW input, NEW today, NEW t, t = Scoring!Assess(d, input, today)
  PROVE  t.total \in Nat \cup {None} /\ t.entity \in BOOLEAN
<1>1. d \in Datasets
  BY LoadedAssumption
<1>2. PICK c : c = Scoring!Classify(input.description, input.category)
  OBVIOUS
<1>3. PICK duty : duty = IF c.code = None THEN Scoring!NoDuty
                         ELSE Scoring!Duty(d, c.code, input.origin, today)
  OBVIOUS
<1>4. t = [code |-> c.code, confidence |-> c.confidence, total |-> duty.total,
           entity |-> Scoring!Listed(d, input.maker)]
  BY <1>2, <1>3 DEF Scoring!Assess
<1>5. t.entity \in BOOLEAN
  <2>1. t.entity = Scoring!Listed(d, input.maker)
    BY <1>4
  <2> QED BY <2>1 DEF Scoring!Listed
<1>6. duty.total \in Nat \cup {None}
  <2>1. CASE c.code = None
    BY <1>3, <2>1 DEF Scoring!NoDuty
  <2>2. CASE c.code # None
    <3>1. PICK code, origin : code = c.code /\ origin = input.origin
      OBVIOUS
    <3>2. PICK p301, p232 : p301 = "section_301" /\ p232 = "section_232_semiconductor"
      OBVIOUS
    <3>3. PICK f301, f232, a301, a232 :
            /\ f301 = Scoring!AddonsOf(d, code, p301) /\ f232 = Scoring!AddonsOf(d, code, p232)
            /\ a301 = Scoring!FindAddon(d, code, p301) /\ a232 = Scoring!FindAddon(d, code, p232)
      OBVIOUS
    <3>4. PICK base \in Nat \cup {None} : base = Scoring!BaseDuty(d, code, origin)
      BY <1>1, BaseDutyIs
    <3>5. PICK struck : struck = Scoring!Excluded(d, code, today)
      OBVIOUS
    <3>6. Scoring!Rate(a301) \in Nat \cup {None}
      <4>1. Scoring!RateOf(d, f301) \in Nat
            /\ Scoring!Rate(a301) = IF f301 = {} THEN None ELSE Scoring!RateOf(d, f301)
        BY <1>1, <3>3, RateIs
      <4> QED BY <4>1
    <3>7. Scoring!Rate(a232) \in Nat \cup {None}
      <4>1. Scoring!RateOf(d, f232) \in Nat
            /\ Scoring!Rate(a232) = IF f232 = {} THEN None ELSE Scoring!RateOf(d, f232)
        BY <1>1, <3>3, RateIs
      <4> QED BY <4>1
    <3>8. PICK s301 \in Nat \cup {None} : s301 = Scoring!Section301(a301, origin, struck)
      BY <3>6 DEF Scoring!Section301
    <3>9. PICK s232 \in Nat \cup {None} : s232 = Scoring!Rate(a232)
      BY <3>7
    <3>10. PICK has : has = (a301 # None)
      OBVIOUS
    <3>11. duty.total = Scoring!ComputeTotal(base, s301, s232, origin, has, struck)
      BY <1>3, <2>2, <3>1, <3>2, <3>3, <3>4, <3>5, <3>8, <3>9, <3>10 DEF Scoring!Duty
    <3>12. Scoring!ComputeTotal(base, s301, s232, origin, has, struck) \in Nat \cup {None}
      BY SMT DEF Scoring!ComputeTotal
    <3> QED BY <3>11, <3>12
  <2> QED BY <2>1, <2>2
<1>7. t.total = duty.total
  BY <1>4
<1> QED BY <1>5, <1>6, <1>7

\* apply_tariff_overlay keeps the types.
LEMMA OverlaidIsTyped ==
  ASSUME NEW ls, Good(ls), TypedLines(ls), NEW d \in Loaded, NEW today, NEW ms,
         ms = [k \in DOMAIN ls |->
                 LET t == Scoring!Assess(d, Scoring!Input(ls[k]), today) IN
                 [ls[k] EXCEPT !.total = t.total, !.entity = t.entity]]
  PROVE  Good(ms) /\ TypedLines(ms)
<1>1. DOMAIN ms = DOMAIN ls /\ ms = [k \in DOMAIN ls |-> ms[k]]
  OBVIOUS
<1>2. ASSUME NEW k \in DOMAIN ls
      PROVE  GoodLine(ms[k]) /\ ms[k].row = ls[k].row /\ TypedLine(ms[k])
  <2>1. PICK l, m, t : /\ l = ls[k] /\ m = ms[k]
                       /\ t = Scoring!Assess(d, Scoring!Input(ls[k]), today)
    OBVIOUS
  <2>2. m = [l EXCEPT !.total = t.total, !.entity = t.entity]
    BY <2>1
  <2>3. GoodLine(l) /\ TypedLine(l)
    BY <2>1 DEF Good, TypedLines
  <2>4. /\ "row" \in DOMAIN l /\ "part" \in DOMAIN l /\ "maker" \in DOMAIN l /\ "answered" \in DOMAIN l
        /\ "avail" \in DOMAIN l /\ "life" \in DOMAIN l /\ "blind" \in DOMAIN l
        /\ "total" \in DOMAIN l /\ "entity" \in DOMAIN l /\ "sent" \in DOMAIN l
    BY <2>3, LineFields DEF GoodLine
  <2>5. /\ DOMAIN m = DOMAIN l /\ m.row = l.row /\ m.part = l.part /\ m.maker = l.maker
        /\ m.answered = l.answered /\ m.avail = l.avail /\ m.life = l.life /\ m.blind = l.blind
        /\ m.sent = l.sent
        /\ m.total = t.total /\ m.entity = t.entity
    BY ONLY <2>2, <2>4
  <2>6. t.total \in Nat \cup {None} /\ t.entity \in BOOLEAN \cup {None}
    BY <2>1, AssessedIs
  <2>7. TypedLine(m)
    BY <2>3, <2>5, <2>6, Zenon DEF TypedLine
  <2>8. GoodLine(m)
    BY <2>3, <2>5 DEF GoodLine, Lookedup, Scoring!Key
  <2> QED BY <2>1, <2>5, <2>7, <2>8
<1>3. Good(ls) /\ \A k \in DOMAIN ls : GoodLine(ms[k]) /\ ms[k].row = ls[k].row
  BY <1>2
<1>4. Good(ms)
  BY ONLY <1>1, <1>3, OneByOne
<1> QED BY <1>1, <1>2, <1>4 DEF TypedLines

----------------------------------------------------------------------------
\* apply_line_patch: the part and the maker are of those named, or what was.
LEMMA PatchedIsTyped ==
  ASSUME NEW ls, Good(ls), TypedLines(ls), NEW i \in DOMAIN ls,
         NEW part \in Parts \cup {None}, NEW maker \in Makers, NEW named,
         NEW ms, ms = [ls EXCEPT ![i] = Scoring!Patched(@, part, maker, named)]
  PROVE  TypedLines(ms)
<1>1. PICK l, m : l = ls[i] /\ m = Scoring!Patched(l, part, maker, named)
  OBVIOUS
<1>2. DOMAIN ms = DOMAIN ls /\ \A k \in DOMAIN ls : ms[k] = IF k = i THEN m ELSE ls[k]
  BY <1>1
<1>3. GoodLine(l) /\ TypedLine(l)
  BY <1>1 DEF Good, TypedLines
<1>4. /\ "part" \in DOMAIN l /\ "maker" \in DOMAIN l /\ "avail" \in DOMAIN l /\ "life" \in DOMAIN l
      /\ "entity" \in DOMAIN l /\ "total" \in DOMAIN l
  BY <1>3, LineFields DEF GoodLine
<1>5. PICK p, q : /\ p = IF "mpn" \in named THEN part ELSE l.part
                  /\ q = IF "manufacturer" \in named THEN maker ELSE l.maker
  OBVIOUS
<1>6. PICK n : n = [l EXCEPT !.part = p, !.maker = q]
  OBVIOUS
<1>7. /\ DOMAIN n = DOMAIN l /\ n.part = p /\ n.maker = q /\ n.avail = l.avail /\ n.life = l.life
      /\ n.entity = l.entity /\ n.total = l.total
  BY ONLY <1>4, <1>6
<1>8. p \in Parts \cup {None} /\ q \in Makers \cup {None}
  BY <1>3, <1>5 DEF TypedLine
<1>9. TypedLine(n)
  BY <1>3, <1>7, <1>8, Zenon DEF TypedLine
<1>10. TypedLine(m)
  <2>1. n = [l EXCEPT !.part  = IF "mpn" \in named THEN part ELSE @,
                      !.maker = IF "manufacturer" \in named THEN maker ELSE @]
    BY <1>5, <1>6
  <2>2. CASE named = {}
    BY <1>1, <1>9, <2>1, <2>2 DEF Scoring!Patched, Scoring!Identity
  <2>3. CASE named # {}
    <3>1. PICK avail : avail = IF n.part = None THEN "NoMatch" ELSE "Pending"
      OBVIOUS
    <3>2. m = [n EXCEPT !.avail = avail, !.life = "Unknown", !.scarce = FALSE, !.slow = FALSE,
                        !.category = None, !.origin = None, !.blind = FALSE]
      BY <1>1, <2>1, <2>3, <3>1 DEF Scoring!Patched, Scoring!Identity
    <3>3. /\ m.avail = avail /\ m.life = "Unknown" /\ m.part = n.part /\ m.maker = n.maker
          /\ m.entity = n.entity /\ m.total = n.total
      BY ONLY <1>4, <1>7, <3>2
    <3>4. avail \in Scoring!Availabilities /\ "Unknown" \in Scoring!Lifecycles
      BY <3>1 DEF Scoring!Availabilities, Scoring!Lifecycles
    <3> QED BY <1>9, <3>3, <3>4, Zenon DEF TypedLine
  <2> QED BY <2>2, <2>3
<1> QED BY <1>1, <1>2, <1>10 DEF TypedLines

\* Lines that were never looked up, of an upload or added.
LEMMA LineOfIsTyped ==
  ASSUME NEW row, NEW part \in Parts \cup {None}, NEW maker \in Makers \cup {None}, NEW words, NEW l,
         l = Scoring!LineOf(row, part, maker, words)
  PROVE  TypedLine(l) /\ l.risk \in Scoring!Levels
<1>1. /\ l.avail = "" /\ l.life = "" /\ l.part = part /\ l.maker = maker /\ l.entity = None
      /\ l.total = None /\ l.risk = "green"
  BY DEF Scoring!LineOf
<1> QED BY <1>1 DEF TypedLine, Scoring!Availabilities, Scoring!Lifecycles, Scoring!Levels

\* new_analyzed_line
LEMMA AddedIsTyped ==
  ASSUME NEW l, GoodLine(l), TypedLine(l), NEW avail \in {"Pending", "NoMatch"}, NEW m,
         m = [l EXCEPT !.avail = avail, !.life = "Unknown", !.risk = "unknown", !.blind = FALSE]
  PROVE  TypedLine(m)
<1>1. DOMAIN l = Scoring!Fields
  BY DEF GoodLine
<1>2. "avail" \in DOMAIN l /\ "life" \in DOMAIN l
  BY <1>1, LineFields
<1>3. /\ m.avail = avail /\ m.life = "Unknown" /\ m.part = l.part /\ m.maker = l.maker
      /\ m.entity = l.entity /\ m.total = l.total
  BY <1>2
<1>4. avail \in Scoring!Availabilities /\ "Unknown" \in Scoring!Lifecycles
  BY DEF Scoring!Availabilities, Scoring!Lifecycles
<1> QED BY <1>3, <1>4, Zenon DEF TypedLine

\* One line more, or one less.
LEMMA AppendedIsTyped ==
  ASSUME NEW ls, IsList(ls), TypedLines(ls), NEW l, TypedLine(l)
  PROVE  TypedLines(Append(ls, l))
<1>1. PICK n, ms : n = Len(ls) /\ ms = Append(ls, l)
  OBVIOUS
<1>2. n \in Nat /\ DOMAIN ls = 1..n
  BY <1>1, ListIs
<1>3. DOMAIN ms = 1..n + 1 /\ (\A k \in 1..n : ms[k] = ls[k]) /\ ms[n + 1] = l
  BY <1>1, AppendedIs
<1>4. \A k \in 1..n + 1 : k \in 1..n \/ k = n + 1
  BY <1>2
<1>5. \A k \in 1..n + 1 : TypedLine(ms[k])
  BY <1>2, <1>3, <1>4 DEF TypedLines
<1> QED BY <1>1, <1>3, <1>5 DEF TypedLines

\* The lines without one are lines that were there.
LEMMA RemovedIsTyped ==
  ASSUME NEW ls, Good(ls), TypedLines(ls), NEW i \in DOMAIN ls
  PROVE  TypedLines(Scoring!RemoveAt(ls, i)) /\ IsList(Scoring!RemoveAt(ls, i))
<1>1. PICK ms : ms = Scoring!RemoveAt(ls, i)
  OBVIOUS
<1>2. Good(ms) /\ \A k \in DOMAIN ms : \E j \in DOMAIN ls : ms[k] = ls[j]
  BY <1>1, RemovedIsGood
<1>3. TypedLines(ms)
  BY <1>2, OfTheseTyped
<1> QED BY <1>1, <1>2, <1>3 DEF Good

\* Lines that a client sends are of the same kinds.
LEMMA ReceivedIsTyped ==
  ASSUME NEW ls, Good(ls), TypedLines(ls),
         NEW ms \in Scoring!SeqOf(Scoring!ToSet(ls) \cup Sent, MaxLines)
  PROVE  TypedLines(ms)
<1>1. \A k \in DOMAIN ms : ms[k] \in Sent \/ \E j \in DOMAIN ls : ms[k] = ls[j]
  BY ReceivedIs DEF Good
<1>2. \A l \in Sent : TypedLine(l)
  BY ScoringAssumptions, Zenon DEF Scoring!Assumptions, Scoring!Line, TypedLine
<1> QED BY <1>1, <1>2 DEF TypedLines

----------------------------------------------------------------------------
\* The types of what is kept.  Until an upload is enriched nothing is ranked.
ScoringTypes ==
  /\ anStage \in Scoring!Stages /\ anChanges \in 0..MaxChanges
  /\ TypedLines(anLines) /\ RiskIsLevel(anLines)
  /\ DOMAIN anSummary = {"count", "atRisk", "unknown", "pending", "band", "score"}
  /\ anStage \in {"none", "parsed"} => anTop = <<>>

\* There are no lines yet.
LEMMA InitScoringTypes == Scoring!Init => ScoringTypes
<1>1. DOMAIN <<>> = {}
  OBVIOUS
<1>2. 0 \in 0..MaxChanges
  BY ScoringAssumptions DEF Scoring!Assumptions
<1> QED BY <1>1, <1>2 DEF Scoring!Init, ScoringTypes, TypedLines, RiskIsLevel, Scoring!Stages

\* finalize_analyze keeps the types and sums up.
LEMMA FinalizedIsTyped ==
  ASSUME NEW ls, Good(ls), TypedLines(ls), Scoring!Finalize(ls)
  PROVE  /\ TypedLines(anLines') /\ RiskIsLevel(anLines')
         /\ DOMAIN anSummary' = {"count", "atRisk", "unknown", "pending", "band", "score"}
<1>1. anLines' = Scoring!Scored(ls) /\ anSummary' = Scoring!Summary(anLines')
  BY DEF Scoring!Finalize
<1>2. TypedLines(anLines') /\ RiskIsLevel(anLines')
  BY <1>1, ScoredIsTyped
<1>3. \A ms : DOMAIN Scoring!Summary(ms) = {"count", "atRisk", "unknown", "pending", "band", "score"}
  BY DEF Scoring!Summary
<1> QED BY <1>1, <1>2, <1>3

\* A step that scores lines of the right types.
LEMMA ScoredStep ==
  ASSUME NEW ls, Good(ls), TypedLines(ls), Scoring!Finalize(ls), anChanges' \in 0..MaxChanges,
         anStage' \in {"enriched", "answered", "stored"}
  PROVE  ScoringTypes'
<1>1. /\ TypedLines(anLines') /\ RiskIsLevel(anLines')
      /\ DOMAIN anSummary' = {"count", "atRisk", "unknown", "pending", "band", "score"}
  BY FinalizedIsTyped
<1> QED BY <1>1 DEF ScoringTypes, Scoring!Stages

\* Whatever a client sends.
LEMMA ReceivedIsScored ==
  ASSUME AnalysisInv, ScoringTypes, Scoring!Received, anChanges' \in 0..MaxChanges, anStage' = "stored"
  PROVE  ScoringTypes'
<1>1. PICK ls \in Scoring!SeqOf(Scoring!ToSet(anLines) \cup Sent, MaxLines) : Scoring!Finalize(ls)
  BY DEF Scoring!Received
<1>2. Good(ls) /\ TypedLines(ls)
  BY ReceivedIsGood, ReceivedIsTyped DEF AnalysisInv, ScoringTypes
<1> QED BY <1>1, <1>2, ScoredStep

\* The lines of an upload have parts and makers that there are.
LEMMA ParseIsTyped ==
  ASSUME ScoringTypes, Scoring!Parse
  PROVE  ScoringTypes'
<1>1. /\ anStage = "none" /\ anStage' = "parsed"
      /\ UNCHANGED <<anSummary, anTop, anChanges>>
  BY DEF Scoring!Parse
<1>2. PICK u \in Uploads :
        anLines' = [k \in DOMAIN u |-> Scoring!LineOf(k - 1, u[k].part, u[k].maker, u[k].description)]
  BY DEF Scoring!Parse
<1>3. PICK ls : ls = anLines'
  OBVIOUS
<1>4. ASSUME NEW k \in DOMAIN u PROVE TypedLine(ls[k]) /\ ls[k].risk \in Scoring!Levels
  <2>1. u[k].part \in Parts \cup {None} /\ u[k].maker \in Makers \cup {None}
    BY ScoringAssumptions DEF Scoring!Assumptions
  <2>2. PICK row, words : ls[k] = Scoring!LineOf(row, u[k].part, u[k].maker, words)
    BY <1>2, <1>3
  <2> QED BY <2>1, <2>2, LineOfIsTyped
<1>5. DOMAIN ls = DOMAIN u
  BY <1>2, <1>3
<1>6. TypedLines(ls) /\ RiskIsLevel(ls)
  BY <1>4, <1>5 DEF TypedLines, RiskIsLevel
<1> QED BY <1>1, <1>3, <1>6 DEF ScoringTypes, Scoring!Stages

\* Every step of an analysis keeps the types.
LEMMA NextOfScoringTypes ==
  ASSUME AnalysisInv, ScoringTypes, [Scoring!Next]_(Scoring!vars)
  PROVE  ScoringTypes'
<1>a. Good(anLines) /\ Agreeing(anLines) /\ TypedLines(anLines) /\ anChanges \in 0..MaxChanges
  BY DEF AnalysisInv, ScoringTypes
<1>b. ASSUME Scoring!Change PROVE anStage' = "stored" /\ anChanges' \in 0..MaxChanges
  <2>1. anStage' = "stored" /\ anChanges < MaxChanges /\ anChanges' = anChanges + 1
    BY <1>b DEF Scoring!Change
  <2> QED BY <1>a, <2>1, ScoringAssumptions DEF Scoring!Assumptions
<1>1. CASE Scoring!Parse
  BY <1>1, ParseIsTyped
<1>2. CASE Scoring!EnrichUpload
  <2>1. anStage' = "enriched" /\ anChanges' = anChanges
    BY <1>2 DEF Scoring!EnrichUpload
  <2>2. ASSUME NEW cache \in Scoring!Caches(anLines), Scoring!Finalize(Scoring!Enriched(anLines, cache))
        PROVE  ScoringTypes'
    BY <1>a, <2>1, <2>2, EnrichedIsGood, EnrichedIsTyped, ScoredStep
  <2>3. CASE Scoring!Finalize(anLines)
    BY <1>a, <2>1, <2>3, ScoredStep
  <2> QED BY <1>2, <2>2, <2>3 DEF Scoring!EnrichUpload
<1>3. CASE Scoring!TariffOverlay
  <2>1. anStage' = "answered" /\ anChanges' = anChanges
    BY <1>3 DEF Scoring!TariffOverlay
  <2>2. CASE UNCHANGED <<anLines, anSummary, anTop>>
    BY <1>a, <2>1, <2>2 DEF ScoringTypes, TypedLines, RiskIsLevel, Scoring!Stages
  <2>3. ASSUME NEW d \in Loaded, NEW today,
               Scoring!Finalize([k \in DOMAIN anLines |->
                 LET t == Scoring!Assess(d, Scoring!Input(anLines[k]), today) IN
                 [anLines[k] EXCEPT !.total = t.total, !.entity = t.entity]])
        PROVE  ScoringTypes'
    <3>1. PICK ls : ls = [k \in DOMAIN anLines |->
                 LET t == Scoring!Assess(d, Scoring!Input(anLines[k]), today) IN
                 [anLines[k] EXCEPT !.total = t.total, !.entity = t.entity]]
      OBVIOUS
    <3>2. Good(ls) /\ TypedLines(ls)
      BY <1>a, <3>1, OverlaidIsTyped
    <3>3. Scoring!Finalize(ls)
      BY <2>3, <3>1
    <3> QED BY <1>a, <2>1, <3>2, <3>3, ScoredStep
  <2> QED BY <1>3, <2>2, <2>3 DEF Scoring!TariffOverlay
<1>4. CASE Scoring!CreateBom
  <2>1. /\ anStage' = "stored" /\ anChanges' = anChanges
        /\ Scoring!Finalize(anLines) \/ Scoring!Received
    BY <1>4 DEF Scoring!CreateBom
  <2>2. CASE Scoring!Finalize(anLines)
    BY <1>a, <2>1, <2>2, ScoredStep
  <2>3. CASE Scoring!Received
    BY <1>a, <2>1, <2>3, ReceivedIsScored
  <2> QED BY <2>1, <2>2, <2>3
<1>5. CASE Scoring!PatchLine
  <2>1. anStage' = "stored" /\ anChanges' \in 0..MaxChanges
    BY <1>5, <1>b DEF Scoring!PatchLine
  <2>2. PICK k \in DOMAIN anLines, part \in Parts \cup {None}, maker \in Makers,
             named \in SUBSET {"mpn", "manufacturer"} :
          Scoring!Finalize([anLines EXCEPT ![k] = Scoring!Patched(@, part, maker, named)])
    BY <1>5 DEF Scoring!PatchLine
  <2>3. PICK ls : ls = [anLines EXCEPT ![k] = Scoring!Patched(@, part, maker, named)]
    OBVIOUS
  <2>4. Good(ls)
    BY <1>a, <2>3, PatchedIsGood
  <2>5. TypedLines(ls)
    BY <1>a, <2>3, PatchedIsTyped
  <2> QED BY <2>1, <2>2, <2>3, <2>4, <2>5, ScoredStep
<1>6. CASE Scoring!AddLine
  <2>1. anStage' = "stored" /\ anChanges' \in 0..MaxChanges
    BY <1>6, <1>b DEF Scoring!AddLine
  <2>2. PICK row \in Nat, part \in Parts \cup {None}, maker \in Makers, avail \in {"Pending", "NoMatch"} :
          IsAdded(NewLine(row, part, maker, avail), row)
    BY <1>6, <1>a, OneIsAdded
  <2>3. PICK l, m : l = Scoring!LineOf(row, part, maker, <<>>) /\ m = NewLine(row, part, maker, avail)
    OBVIOUS
  <2>4. GoodLine(m) /\ m.row = row
    BY <2>3, NewLineIsGood
  <2>5. Good(Append(anLines, m))
    BY <1>a, <2>2, <2>3, <2>4, AppendedIsGood DEF IsAdded
  <2>6. GoodLine(l) /\ TypedLine(l)
    BY <2>3, LineOfIsGood, LineOfIsTyped
  <2>7. TypedLine(m)
    BY <2>3, <2>6, AddedIsTyped DEF NewLine
  <2>8. TypedLines(Append(anLines, m))
    BY <1>a, <2>7, AppendedIsTyped DEF Good
  <2> QED BY <2>1, <2>2, <2>3, <2>5, <2>8, ScoredStep DEF IsAdded
<1>7. CASE Scoring!DeleteLine
  <2>1. anStage' = "stored" /\ anChanges' \in 0..MaxChanges
    BY <1>7, <1>b DEF Scoring!DeleteLine
  <2>2. PICK k \in DOMAIN anLines : Scoring!Finalize(Scoring!RemoveAt(anLines, k))
    BY <1>7 DEF Scoring!DeleteLine
  <2>3. Good(Scoring!RemoveAt(anLines, k)) /\ TypedLines(Scoring!RemoveAt(anLines, k))
    BY <1>a, RemovedIsGood, RemovedIsTyped
  <2> QED BY <2>1, <2>2, <2>3, ScoredStep
<1>8. CASE Scoring!ReplaceLines
  <2>1. anStage' = "stored" /\ anChanges' \in 0..MaxChanges /\ Scoring!Received
    BY <1>8, <1>b DEF Scoring!ReplaceLines
  <2> QED BY <2>1, ReceivedIsScored
<1>9. CASE Scoring!Refresh
  <2>1. anStage' = "stored" /\ anChanges' \in 0..MaxChanges
    BY <1>9, <1>b DEF Scoring!Refresh
  <2>2. PICK cache \in Scoring!Caches(anLines) : Scoring!Finalize(Scoring!Enriched(anLines, cache))
    BY <1>9 DEF Scoring!Refresh
  <2> QED BY <1>a, <2>1, <2>2, EnrichedIsGood, EnrichedIsTyped, ScoredStep
<1>10. CASE UNCHANGED Scoring!vars
  BY <1>10 DEF Scoring!vars, ScoringTypes, TypedLines, RiskIsLevel
<1> QED BY <1>1, <1>2, <1>3, <1>4, <1>5, <1>6, <1>7, <1>8, <1>9, <1>10 DEF Scoring!Next

\* The places of top_risks are places of lines.
LEMMA ScoringTypesHold == AnalysisInv /\ SummaryInv /\ ScoringTypes => Scoring!TypeOK
<1> SUFFICES ASSUME AnalysisInv, SummaryInv, ScoringTypes PROVE Scoring!TypeOK
  OBVIOUS
<1>1. Scoring!ToSet(anTop) \subseteq DOMAIN anLines
  <2>1. CASE anStage \in {"none", "parsed"}
    <3>1. anTop = <<>> /\ DOMAIN <<>> = {}
      BY <2>1 DEF ScoringTypes
    <3> QED BY <3>1 DEF Scoring!ToSet
  <2>2. CASE anStage \notin {"none", "parsed"}
    <3>1. Places(anTop, anLines)
      BY <2>2, TopIs DEF SummaryInv, AnalysisInv
    <3>2. \A n \in DOMAIN anTop : anTop[n] \in DOMAIN anLines
      BY <3>1 DEF Places, AtRisk, At
    <3> QED BY <3>2 DEF Scoring!ToSet
  <2> QED BY <2>1, <2>2
<1>2. \A k \in DOMAIN anLines :
        DOMAIN anLines[k] = Scoring!Fields /\ TypedLine(anLines[k]) /\ anLines[k].risk \in Scoring!Levels
  BY DEF AnalysisInv, Good, GoodLine, ScoringTypes, TypedLines, RiskIsLevel
<1>3. \A k \in DOMAIN anLines :
        /\ DOMAIN anLines[k] = Scoring!Fields
        /\ anLines[k].avail \in Scoring!Availabilities /\ anLines[k].life \in Scoring!Lifecycles
        /\ anLines[k].risk \in Scoring!Levels /\ anLines[k].part \in Parts \cup {None}
        /\ anLines[k].maker \in Makers \cup {None}
        /\ anLines[k].entity \in BOOLEAN \cup {None} /\ anLines[k].total \in Nat \cup {None}
  BY <1>2, Zenon DEF TypedLine
<1>4. \A k \in DOMAIN anLines : Scoring!Line(anLines[k])
  BY <1>3, Zenon DEF Scoring!Line
<1> QED BY <1>1, <1>4, Zenon DEF ScoringTypes, Scoring!TypeOK

\* TypeOK of Analysis, in the behaviours of Backend.
LEMMA AnalysisIsTyped == SpecAll => [](Scoring!TypeOK)
<1>1. Scoring!Init => AnalysisInv /\ SummaryInv /\ ScoringTypes
  BY InitAnalysis, InitScoringTypes DEF Scoring!Init, SummaryInv
<1>2. /\ AnalysisInv /\ SummaryInv /\ ScoringTypes /\ [Scoring!Next]_(Scoring!vars)
      => (AnalysisInv /\ SummaryInv /\ ScoringTypes)'
  BY NextOfAnalysis, NextSums, NextOfScoringTypes
<1> QED BY <1>1, <1>2, ScoringTypesHold, ScoringSpec, PTL DEF Scoring!Spec

----------------------------------------------------------------------------
\* ServicesTypeOK: in every behaviour the limiter, purchasing, the analysis, the
\* list and the parser hold values of the kinds that their code gives them.
THEOREM ServicesAreTyped == SpecAll => []ServicesTypeOK
<1>1. Parsing!Spec => []ParserInv
  BY InitParser, NextOfParser, PTL DEF Parsing!Spec
<1>2. ParserInv => Parsing!TypeOK
  BY ParserTypes
<1>3. SpecAll => [](Parsing!TypeOK)
  BY <1>1, <1>2, ParsingSpec, PTL
<1> QED BY <1>3, LimiterIsTyped, BuyingIsTyped, AnalysisIsTyped, ListsAreTyped, PTL DEF ServicesTypeOK

=============================================================================
