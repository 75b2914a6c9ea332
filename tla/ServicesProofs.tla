--------------------------- MODULE ServicesProofs ---------------------------
(***************************************************************************)
(* Proofs about Analysis, Tariff and BomLists in the behaviours of         *)
(* Backend, for any uploads, datasets, edits, readers and writers.         *)
(***************************************************************************)
EXTENDS ProvidersProofs

----------------------------------------------------------------------------
(* Lines and lists of lines *)

Lookedup(l) ==
  l.avail \in {"InStock", "OutOfStock", "Error"} \/ l.life \in Scoring!Lifecycles \ {"", "Unknown"}

\* What a line says of stock and life cycle was answered for its part, or is
\* what a client sent; a line that was not answered for is blind, or is
\* pending or without a match.
GoodLine(l) ==
  /\ DOMAIN l = Scoring!Fields /\ l.row \in Nat
  /\ Lookedup(l) => l.answered = Scoring!Key(l) \/ (l.sent /\ l.blind)
  /\ l.answered = Scoring!Key(l) \/ l.blind \/ l.avail \in {"Pending", "NoMatch"}

IsList(ls) == ls \in Seq({ls[k] : k \in DOMAIN ls})

Good(ls) == IsList(ls) /\ \A k \in DOMAIN ls : GoodLine(ls[k])

Distinct(ls) == \A j, k \in DOMAIN ls : ls[j].row = ls[k].row => j = k

Rated(ls) == \A k \in DOMAIN ls : ls[k].risk = Scoring!Score(ls[k])

\* A line of ms that no client made has the answer of the Entity List that
\* such a line of ls with its row has.
Keeps(ls, ms) ==
  \A k \in DOMAIN ls, j \in DOMAIN ms :
    ls[k].row = ms[j].row /\ ~ls[k].sent /\ ~ms[j].sent => ms[j].entity = ls[k].entity

\* So copies of a line agree on it.
Agreeing(ls) == Keeps(ls, ls)

SameRows(ls, ms) ==
  /\ DOMAIN ms = DOMAIN ls
  /\ \A k \in DOMAIN ls :
       ms[k].row = ls[k].row /\ ms[k].entity = ls[k].entity /\ ms[k].sent = ls[k].sent

LEMMA LineFields ==
  ASSUME NEW l, DOMAIN l = Scoring!Fields
  PROVE  /\ "row" \in DOMAIN l /\ "part" \in DOMAIN l /\ "maker" \in DOMAIN l
         /\ "avail" \in DOMAIN l /\ "life" \in DOMAIN l /\ "scarce" \in DOMAIN l
         /\ "slow" \in DOMAIN l /\ "category" \in DOMAIN l /\ "origin" \in DOMAIN l
         /\ "total" \in DOMAIN l /\ "entity" \in DOMAIN l /\ "risk" \in DOMAIN l
         /\ "answered" \in DOMAIN l /\ "blind" \in DOMAIN l /\ "sent" \in DOMAIN l
BY DEF Scoring!Fields

LEMMA ListIs ==
  ASSUME NEW ls, IsList(ls)
  PROVE  Len(ls) \in Nat /\ DOMAIN ls = 1..Len(ls)
BY DEF IsList

LEMMA FunctionIsList ==
  ASSUME NEW n \in Nat, NEW ls, ls = [k \in 1..n |-> ls[k]]
  PROVE  IsList(ls) /\ Len(ls) = n
<1> DEFINE S == {ls[k] : k \in DOMAIN ls}
<1>1. DOMAIN ls = 1..n
  OBVIOUS
<1>2. \A k \in 1..n : ls[k] \in S
  BY <1>1
<1> HIDE DEF S
<1>3. ls \in [1..n -> S]
  BY <1>2
<1>4. ls \in Seq(S) /\ Len(ls) = n
  BY <1>3
<1> QED BY <1>4 DEF IsList, S

\* A list whose lines are changed one by one.
LEMMA OneByOne ==
  ASSUME NEW ls, Good(ls), NEW ms, ms = [k \in DOMAIN ls |-> ms[k]],
         \A k \in DOMAIN ls : GoodLine(ms[k])
  PROVE  Good(ms) /\ DOMAIN ms = DOMAIN ls
<1>1. Len(ls) \in Nat /\ DOMAIN ls = 1..Len(ls)
  BY ListIs DEF Good
<1>2. IsList(ms)
  BY <1>1, FunctionIsList
<1>3. DOMAIN ms = DOMAIN ls
  OBVIOUS
<1> QED BY <1>2, <1>3 DEF Good

LEMMA OneByOneKeeps ==
  ASSUME NEW ls, Agreeing(ls), NEW ms, SameRows(ls, ms)
  PROVE  Keeps(ls, ms) /\ Agreeing(ms)
BY DEF Agreeing, Keeps, SameRows

LEMMA DistinctAgree ==
  ASSUME NEW ls, Distinct(ls)
  PROVE  Agreeing(ls)
BY DEF Distinct, Agreeing, Keeps

\* Scores change nothing else.
LEMMA ScoredIsGood ==
  ASSUME NEW ls, Good(ls)
  PROVE  /\ Good(Scoring!Scored(ls)) /\ Rated(Scoring!Scored(ls))
         /\ SameRows(ls, Scoring!Scored(ls))
         /\ \A ks : Keeps(ks, ls) => Keeps(ks, Scoring!Scored(ls))
<1>1. PICK ms : ms = Scoring!Scored(ls)
  OBVIOUS
<1>2. ms = [k \in DOMAIN ls |-> [ls[k] EXCEPT !.risk = Scoring!Score(ls[k])]]
  BY <1>1 DEF Scoring!Scored
<1>3. DOMAIN ms = DOMAIN ls /\ ms = [k \in DOMAIN ls |-> ms[k]]
  BY <1>2
<1>4. ASSUME NEW k \in DOMAIN ls
      PROVE  /\ DOMAIN ms[k] = DOMAIN ls[k] /\ ms[k].row = ls[k].row /\ ms[k].entity = ls[k].entity
             /\ ms[k].part = ls[k].part /\ ms[k].maker = ls[k].maker /\ ms[k].avail = ls[k].avail
             /\ ms[k].life = ls[k].life /\ ms[k].answered = ls[k].answered
             /\ ms[k].blind = ls[k].blind /\ ms[k].sent = ls[k].sent /\ ms[k].total = ls[k].total
             /\ ms[k].slow = ls[k].slow /\ ms[k].scarce = ls[k].scarce
             /\ ms[k].risk = Scoring!Score(ls[k])
  <2>1. ms[k] = [ls[k] EXCEPT !.risk = Scoring!Score(ls[k])]
    BY <1>2
  <2>2. DOMAIN ls[k] = Scoring!Fields
    BY DEF Good, GoodLine
  <2>3. "risk" \in DOMAIN ls[k]
    BY <2>2, LineFields
  <2> QED BY <2>1, <2>3
<1>5. ASSUME NEW k \in DOMAIN ls PROVE GoodLine(ms[k])
  <2>1. GoodLine(ls[k])
    BY DEF Good
  <2> QED BY <1>4, <2>1 DEF GoodLine, Lookedup, Scoring!Key
<1>6. Good(ms)
  BY <1>3, <1>4, <1>5, OneByOne
<1>7. Rated(ms)
  <2>1. ASSUME NEW k \in DOMAIN ls PROVE Scoring!Score(ms[k]) = Scoring!Score(ls[k])
    <3>1. PICK l, m : l = ls[k] /\ m = ms[k]
      OBVIOUS
    <3>2. /\ m.avail = l.avail /\ m.life = l.life /\ m.total = l.total /\ m.slow = l.slow
          /\ m.scarce = l.scarce /\ m.entity = l.entity
      BY <1>4, <3>1
    <3>3. Scoring!Score(m) = Scoring!Score(l)
      BY <3>2, Zenon DEF Scoring!Score, Scoring!Pending
    <3> QED BY <3>1, <3>3
  <2> QED BY <1>3, <1>4, <2>1 DEF Rated
<1>8. ASSUME NEW ks, Keeps(ks, ls) PROVE Keeps(ks, ms)
  BY <1>3, <1>4, <1>8 DEF Keeps
<1>9. SameRows(ls, ms)
  BY <1>3, <1>4 DEF SameRows
<1> QED BY <1>1, <1>6, <1>7, <1>8, <1>9

LEMMA EnrichedIsGood ==
  ASSUME NEW ls, Good(ls), NEW cache
  PROVE  Good(Scoring!Enriched(ls, cache)) /\ SameRows(ls, Scoring!Enriched(ls, cache))
<1>1. PICK ms : ms = Scoring!Enriched(ls, cache)
  OBVIOUS
<1>2. DOMAIN ms = DOMAIN ls /\ ms = [k \in DOMAIN ls |-> ms[k]]
  BY <1>1 DEF Scoring!Enriched
<1>3. ASSUME NEW k \in DOMAIN ls
      PROVE  /\ GoodLine(ms[k]) /\ ms[k].row = ls[k].row /\ ms[k].entity = ls[k].entity
             /\ ms[k].sent = ls[k].sent
  <2>1. PICK l, m : l = ls[k] /\ m = ms[k]
    OBVIOUS
  <2>2. PICK e : e = Scoring!Answer(ls, cache, k).is
    OBVIOUS
  <2>3. Scoring!Answer(ls, cache, k).of = Scoring!Key(l)
    BY <2>1 DEF Scoring!Answer
  <2>4. m = [l EXCEPT !.avail = e.avail, !.life = e.life, !.scarce = e.scarce, !.slow = e.slow,
                      !.category = Scoring!Or(@, e.category), !.origin = Scoring!Or(@, e.origin),
                      !.answered = Scoring!Key(l), !.blind = FALSE]
    BY <1>1, <2>1, <2>2, <2>3 DEF Scoring!Enriched
  <2>5. DOMAIN l = Scoring!Fields /\ l.row \in Nat
    BY <2>1 DEF Good, GoodLine
  <2>6. /\ "row" \in DOMAIN l /\ "entity" \in DOMAIN l /\ "part" \in DOMAIN l /\ "maker" \in DOMAIN l
        /\ "answered" \in DOMAIN l /\ "sent" \in DOMAIN l
    BY <2>5, LineFields
  <2>7. /\ DOMAIN m = DOMAIN l /\ m.row = l.row /\ m.entity = l.entity /\ m.part = l.part
        /\ m.maker = l.maker /\ m.answered = Scoring!Key(l) /\ m.sent = l.sent
    BY <2>4, <2>6
  <2>8. m.answered = Scoring!Key(m)
    BY <2>7 DEF Scoring!Key
  <2>9. GoodLine(m)
    BY <2>5, <2>7, <2>8 DEF GoodLine
  <2> QED BY <2>1, <2>7, <2>9
<1>4. Good(ms)
  BY <1>2, <1>3, OneByOne
<1>5. SameRows(ls, ms)
  BY <1>2, <1>3 DEF SameRows
<1> QED BY <1>1, <1>4, <1>5

LEMMA PatchedIsGood ==
  ASSUME NEW ls, Good(ls), NEW i \in DOMAIN ls, NEW part, NEW maker, NEW named
  PROVE  LET ms == [ls EXCEPT ![i] = Scoring!Patched(@, part, maker, named)]
         IN Good(ms) /\ SameRows(ls, ms)
<1>1. PICK ms : ms = [ls EXCEPT ![i] = Scoring!Patched(@, part, maker, named)]
  OBVIOUS
<1>2. DOMAIN ms = DOMAIN ls /\ ms = [k \in DOMAIN ls |-> ms[k]]
  <2>1. Len(ls) \in Nat /\ DOMAIN ls = 1..Len(ls) /\ IsList(ls)
    BY ListIs DEF Good
  <2> QED BY <1>1, <2>1 DEF IsList
<1>3. PICK l, m : l = ls[i] /\ m = Scoring!Patched(l, part, maker, named)
  OBVIOUS
<1>4. \A k \in DOMAIN ls : ms[k] = IF k = i THEN m ELSE ls[k]
  BY <1>1, <1>3
<1>5. GoodLine(l)
  BY <1>3 DEF Good
<1>6. /\ "row" \in DOMAIN l /\ "entity" \in DOMAIN l /\ "part" \in DOMAIN l /\ "maker" \in DOMAIN l
      /\ "answered" \in DOMAIN l /\ "avail" \in DOMAIN l /\ "life" \in DOMAIN l /\ "blind" \in DOMAIN l
      /\ "sent" \in DOMAIN l
  BY <1>5, LineFields DEF GoodLine
<1>7. PICK n : n = [l EXCEPT !.part  = IF "mpn" \in named THEN part ELSE @,
                             !.maker = IF "manufacturer" \in named THEN maker ELSE @]
  OBVIOUS
<1>8. /\ DOMAIN n = DOMAIN l /\ n.row = l.row /\ n.entity = l.entity /\ n.answered = l.answered
      /\ n.avail = l.avail /\ n.life = l.life /\ n.blind = l.blind /\ n.sent = l.sent
      /\ ("mpn" \notin named => n.part = l.part) /\ ("manufacturer" \notin named => n.maker = l.maker)
  BY <1>6, <1>7
<1>9. GoodLine(m) /\ m.row = l.row /\ m.entity = l.entity /\ m.sent = l.sent
  <2>1. CASE named = {}
    <3>1. m = n
      BY <1>3, <1>7, <2>1 DEF Scoring!Patched, Scoring!Identity
    <3>2. n.part = l.part /\ n.maker = l.maker
      BY <1>8, <2>1
    <3> QED BY <1>5, <1>8, <3>1, <3>2 DEF GoodLine, Lookedup, Scoring!Key
  <2>2. CASE named # {}
    <3>1. m = [n EXCEPT !.avail = IF n.part = None THEN "NoMatch" ELSE "Pending",
                        !.life = "Unknown", !.scarce = FALSE, !.slow = FALSE,
                        !.category = None, !.origin = None, !.blind = FALSE]
      BY <1>3, <1>7, <2>2 DEF Scoring!Patched, Scoring!Identity
    <3>2. /\ DOMAIN m = DOMAIN l /\ m.row = l.row /\ m.entity = l.entity /\ m.life = "Unknown"
          /\ m.sent = l.sent /\ m.avail \in {"Pending", "NoMatch"}
      BY <1>6, <1>8, <3>1
    <3>3. ~Lookedup(m)
      BY <3>2 DEF Lookedup
    <3> QED BY <1>5, <3>2, <3>3 DEF GoodLine
  <2> QED BY <2>1, <2>2
<1>10. \A k \in DOMAIN ls : /\ GoodLine(ms[k]) /\ ms[k].row = ls[k].row /\ ms[k].entity = ls[k].entity
                             /\ ms[k].sent = ls[k].sent
  BY <1>3, <1>4, <1>9 DEF Good
<1>11. Good(ms)
  BY <1>2, <1>10, OneByOne
<1>12. SameRows(ls, ms)
  BY <1>2, <1>10 DEF SameRows
<1> QED BY <1>1, <1>11, <1>12

\* c is a and then b.
IsJoin(c, a, b, S) ==
  /\ c \in Seq(S) /\ Len(c) = Len(a) + Len(b)
  /\ \A k \in 1..Len(c) : c[k] = IF k <= Len(a) THEN a[k] ELSE b[k - Len(a)]

LEMMA JoinIs ==
  ASSUME NEW S, NEW a \in Seq(S), NEW b \in Seq(S)
  PROVE  IsJoin(a \o b, a, b, S)
BY DEF IsJoin

\* t is what s has from a on up to b.
IsSlice(t, s, a, b, S) ==
  /\ t \in Seq(S) /\ Len(t) = b + 1 - a /\ DOMAIN t = 1..b + 1 - a
  /\ \A k \in 1..b + 1 - a : t[k] = s[a + k - 1]

LEMMA SliceIs ==
  ASSUME NEW S, NEW s \in Seq(S), NEW a \in Nat \ {0}, NEW b \in Nat, a <= b + 1, b <= Len(s)
  PROVE  IsSlice(SubSeq(s, a, b), s, a, b, S)
<1>1. Len(s) \in Nat
  OBVIOUS
<1>2. PICK t : t = SubSeq(s, a, b)
  OBVIOUS
<1>3. t \in Seq(S)
  BY <1>1, <1>2
<1>4. Len(t) = b + 1 - a
  BY <1>1, <1>2
<1>5. DOMAIN t = 1..b + 1 - a
  BY <1>3, <1>4
<1>6. \A k \in 1..b + 1 - a : t[k] = s[a + k - 1]
  BY <1>1, <1>2, <1>4
<1> QED BY <1>2, <1>3, <1>4, <1>5, <1>6 DEF IsSlice

\* Without a line, or with it at the end.
LEMMA RemovedIs ==
  ASSUME NEW ls, IsList(ls), NEW i \in DOMAIN ls
  PROVE  LET ms == Scoring!RemoveAt(ls, i)
         IN /\ IsList(ms) /\ Len(ms) = Len(ls) - 1 /\ DOMAIN ms = 1..Len(ls) - 1
            /\ \A k \in 1..Len(ls) - 1 : ms[k] = IF k < i THEN ls[k] ELSE ls[k + 1]
<1>1. Len(ls) \in Nat /\ DOMAIN ls = 1..Len(ls)
  BY ListIs
<1>2. PICK S : S = {ls[k] : k \in DOMAIN ls}
  OBVIOUS
<1>3. ls \in Seq(S)
  BY <1>2 DEF IsList
<1>4. PICK a, b, ms : a = SubSeq(ls, 1, i - 1) /\ b = SubSeq(ls, i + 1, Len(ls)) /\ ms = a \o b
  OBVIOUS
<1>5. i \in 1..Len(ls) /\ i - 1 \in Nat /\ Len(ls) - i \in Nat
  BY <1>1
<1>6. a \in Seq(S) /\ Len(a) = i - 1 /\ \A k \in 1..i - 1 : a[k] = ls[k]
  <2>1. 1 \in Nat \ {0} /\ i - 1 \in Nat /\ 1 <= i - 1 + 1 /\ i - 1 <= Len(ls)
    BY <1>1, <1>5
  <2>2. IsSlice(a, ls, 1, i - 1, S)
    BY <1>3, <1>4, <2>1, SliceIs
  <2>3. i - 1 + 1 - 1 = i - 1 /\ \A k \in 1..i - 1 : 1 + k - 1 = k
    BY <1>5
  <2> QED BY <2>2, <2>3 DEF IsSlice
<1>7. b \in Seq(S) /\ Len(b) = Len(ls) - i /\ \A k \in 1..Len(ls) - i : b[k] = ls[i + k]
  <2>1. i + 1 \in Nat \ {0} /\ Len(ls) \in Nat /\ i + 1 <= Len(ls) + 1 /\ Len(ls) <= Len(ls)
    BY <1>1, <1>5
  <2>2. IsSlice(b, ls, i + 1, Len(ls), S)
    BY <1>3, <1>4, <2>1, SliceIs
  <2>3. Len(ls) + 1 - (i + 1) = Len(ls) - i /\ \A k \in 1..Len(ls) - i : i + 1 + k - 1 = i + k
    BY <1>1, <1>5
  <2> QED BY <2>2, <2>3 DEF IsSlice
<1>8. /\ ms \in Seq(S) /\ Len(ms) = Len(a) + Len(b)
      /\ \A k \in 1..Len(ms) : ms[k] = IF k <= Len(a) THEN a[k] ELSE b[k - Len(a)]
  <2>1. IsJoin(a \o b, a, b, S)
    BY <1>6, <1>7, JoinIs
  <2> QED BY <1>4, <2>1 DEF IsJoin
<1>9. Len(ms) = Len(ls) - 1 /\ \A k \in 1..Len(ls) - 1 : ms[k] = IF k < i THEN ls[k] ELSE ls[k + 1]
  <2>1. Len(ms) = Len(ls) - 1
    BY <1>1, <1>5, <1>6, <1>7, <1>8
  <2> SUFFICES ASSUME NEW k \in 1..Len(ls) - 1 PROVE ms[k] = IF k < i THEN ls[k] ELSE ls[k + 1]
    BY <2>1
  <2>2. ms[k] = IF k <= i - 1 THEN a[k] ELSE b[k - (i - 1)]
    BY <1>6, <1>8, <2>1
  <2>3. CASE k < i
    BY <1>1, <1>5, <1>6, <2>2, <2>3
  <2>4. CASE ~(k < i)
    <3>1. k - (i - 1) \in 1..Len(ls) - i /\ i + (k - (i - 1)) = k + 1 /\ ~(k <= i - 1)
      BY <1>1, <1>5, <2>4
    <3> QED BY <1>7, <2>2, <2>4, <3>1
  <2> QED BY <2>3, <2>4
<1>10. DOMAIN ms = 1..Len(ls) - 1 /\ Len(ls) - 1 \in Nat
  <2>1. DOMAIN ms = 1..Len(ms)
    BY <1>8
  <2> QED BY <1>1, <1>9, <2>1
<1>11. IsList(ms)
  <2>1. ms = [k \in 1..Len(ls) - 1 |-> ms[k]]
    BY <1>8, <1>10
  <2> QED BY <1>10, <2>1, FunctionIsList
<1> QED BY <1>4, <1>8, <1>9, <1>10, <1>11 DEF Scoring!RemoveAt

\* Lines that were there and lines of a client's own.
LEMMA OfTheseKeeps ==
  ASSUME NEW ls, Agreeing(ls), NEW ms,
         \A j \in DOMAIN ms : ms[j].sent \/ \E i \in DOMAIN ls : ms[j] = ls[i]
  PROVE  Keeps(ls, ms) /\ Agreeing(ms)
<1>1. ASSUME NEW k \in DOMAIN ls, NEW j \in DOMAIN ms, ls[k].row = ms[j].row, ~ls[k].sent, ~ms[j].sent
      PROVE  ms[j].entity = ls[k].entity
  <2>1. PICK i \in DOMAIN ls : ms[j] = ls[i]
    BY <1>1
  <2> QED BY <1>1, <2>1 DEF Agreeing, Keeps
<1>2. ASSUME NEW k \in DOMAIN ms, NEW j \in DOMAIN ms, ms[k].row = ms[j].row, ~ms[k].sent, ~ms[j].sent
      PROVE  ms[j].entity = ms[k].entity
  <2>1. PICK i \in DOMAIN ls : ms[k] = ls[i]
    BY <1>2
  <2> QED BY <1>1, <1>2, <2>1
<1> QED BY <1>1, <1>2 DEF Agreeing, Keeps

LEMMA AppendedIs ==
  ASSUME NEW ls, IsList(ls), NEW l
  PROVE  LET ms == Append(ls, l)
         IN /\ IsList(ms) /\ DOMAIN ms = 1..Len(ls) + 1
            /\ \A k \in 1..Len(ls) : ms[k] = ls[k]
            /\ ms[Len(ls) + 1] = l
<1>1. Len(ls) \in Nat /\ DOMAIN ls = 1..Len(ls)
  BY ListIs
<1>2. PICK S, ms : S = {ls[k] : k \in DOMAIN ls} \cup {l} /\ ms = Append(ls, l)
  OBVIOUS
<1>3. ls \in Seq(S)
  <2>1. {ls[k] : k \in DOMAIN ls} \subseteq S
    BY <1>2
  <2> QED BY <2>1 DEF IsList
<1>4. l \in S
  BY <1>2
<1>5. /\ ms \in Seq(S) /\ Len(ms) = Len(ls) + 1 /\ DOMAIN ms = 1..Len(ls) + 1
      /\ \A k \in 1..Len(ls) : ms[k] = ls[k]
      /\ ms[Len(ls) + 1] = l
  <2> HIDE <1>1
  <2> QED BY <1>2, <1>3, <1>4
<1>6. IsList(ms)
  <2>1. ms = [k \in 1..Len(ls) + 1 |-> ms[k]] /\ Len(ls) + 1 \in Nat
    BY <1>1, <1>5
  <2> QED BY <2>1, FunctionIsList
<1> QED BY <1>2, <1>5, <1>6

LEMMA AppendedIsGood ==
  ASSUME NEW ls, Good(ls), Agreeing(ls), NEW l, GoodLine(l), \A k \in DOMAIN ls : ls[k].row # l.row
  PROVE  Good(Append(ls, l)) /\ Keeps(ls, Append(ls, l)) /\ Agreeing(Append(ls, l))
<1>1. PICK n, ms : n = Len(ls) /\ ms = Append(ls, l)
  OBVIOUS
<1>2. n \in Nat /\ DOMAIN ls = 1..n
  BY <1>1, ListIs DEF Good
<1>3. /\ IsList(ms) /\ DOMAIN ms = 1..n + 1 /\ \A k \in 1..n : ms[k] = ls[k]
      /\ ms[n + 1] = l
  BY <1>1, AppendedIs DEF Good
<1>4. \A k \in 1..n + 1 : k \in 1..n \/ k = n + 1
  BY <1>2
<1>5. \A k \in DOMAIN ms : GoodLine(ms[k])
  BY <1>2, <1>3, <1>4 DEF Good
<1>6. Agreeing(ms)
  BY <1>2, <1>3, <1>4 DEF Agreeing, Keeps
<1>7. Keeps(ls, ms)
  BY <1>2, <1>3, <1>4 DEF Agreeing, Keeps
<1> QED BY <1>1, <1>3, <1>5, <1>6, <1>7 DEF Good

LEMMA RemovedIsGood ==
  ASSUME NEW ls, Good(ls), NEW i \in DOMAIN ls
  PROVE  /\ Good(Scoring!RemoveAt(ls, i))
         /\ \A k \in DOMAIN Scoring!RemoveAt(ls, i) :
              \E j \in DOMAIN ls : Scoring!RemoveAt(ls, i)[k] = ls[j]
<1>1. PICK n, ms : n = Len(ls) /\ ms = Scoring!RemoveAt(ls, i)
  OBVIOUS
<1>2. n \in Nat /\ DOMAIN ls = 1..n /\ i \in 1..n
  BY <1>1, ListIs DEF Good
<1>3. /\ IsList(ms) /\ DOMAIN ms = 1..n - 1
      /\ \A k \in 1..n - 1 : ms[k] = IF k < i THEN ls[k] ELSE ls[k + 1]
  BY <1>1, RemovedIs DEF Good
<1>4. ASSUME NEW k \in 1..n - 1 PROVE \E j \in 1..n : ms[k] = ls[j]
  <2>1. CASE k < i
    BY <1>2, <1>3, <2>1
  <2>2. CASE ~(k < i)
    <3>1. k + 1 \in 1..n
      BY <1>2, <2>2
    <3> QED BY <1>3, <2>2, <3>1
  <2> QED BY <2>1, <2>2
<1>5. \A k \in DOMAIN ms : \E j \in DOMAIN ls : ms[k] = ls[j]
  BY <1>2, <1>3, <1>4
<1>6. Good(ms)
  BY <1>3, <1>5 DEF Good
<1> QED BY <1>1, <1>5, <1>6

\* Lines that a client sends are lines there were, or of its own.
LEMMA ReceivedIs ==
  ASSUME NEW ls, IsList(ls), NEW ms \in Scoring!SeqOf(Scoring!ToSet(ls) \cup Sent, MaxLines)
  PROVE  IsList(ms) /\ \A k \in DOMAIN ms : ms[k] \in Sent \/ \E j \in DOMAIN ls : ms[k] = ls[j]
<1>1. PICK S : S = Scoring!ToSet(ls) \cup Sent
  OBVIOUS
<1>2. PICK m \in 0..MaxLines : ms \in [1..m -> S]
  BY <1>1 DEF Scoring!SeqOf
<1>3. MaxLines \in Nat
  BY ScoringAssumptions DEF Scoring!Assumptions
<1>4. m \in Nat /\ ms = [k \in 1..m |-> ms[k]] /\ DOMAIN ms = 1..m
  BY <1>2, <1>3
<1>5. IsList(ms)
  BY <1>4, FunctionIsList
<1>6. \A k \in DOMAIN ms : ms[k] \in Sent \/ \E j \in DOMAIN ls : ms[k] = ls[j]
  BY <1>1, <1>2, <1>4 DEF Scoring!ToSet
<1> QED BY <1>5, <1>6

LEMMA ReceivedIsGood ==
  ASSUME NEW ls, Good(ls), Agreeing(ls), NEW ms \in Scoring!SeqOf(Scoring!ToSet(ls) \cup Sent, MaxLines)
  PROVE  Good(ms) /\ Keeps(ls, ms) /\ Agreeing(ms)
<1>1. IsList(ms) /\ \A k \in DOMAIN ms : ms[k] \in Sent \/ \E j \in DOMAIN ls : ms[k] = ls[j]
  BY ReceivedIs DEF Good
<1>2. \A l \in Sent : l.sent /\ GoodLine(l)
  BY ScoringAssumptions, Zenon DEF Scoring!Assumptions, Scoring!Line, GoodLine
<1>3. Good(ms)
  BY <1>1, <1>2 DEF Good
<1>4. \A k \in DOMAIN ms : ms[k].sent \/ \E j \in DOMAIN ls : ms[k] = ls[j]
  BY <1>1, <1>2
<1> QED BY <1>3, <1>4, OfTheseKeeps

\* A bounded set of numbers has a greatest.
LEMMA GreatestNatural ==
  ASSUME NEW S, S \subseteq Nat, S # {}, NEW m \in Nat, \A x \in S : x <= m
  PROVE  \E x \in S : \A y \in S : y <= x
<1> DEFINE T == {m - x : x \in S}
<1>1. T \subseteq Nat /\ T # {}
  <2>1. \A x \in S : m - x \in Nat
    OBVIOUS
  <2>2. PICK x \in S : m - x \in T
    OBVIOUS
  <2> QED BY <2>1, <2>2
<1>2. PICK t \in T : \A u \in T : t <= u
  <2> HIDE DEF T
  <2> QED BY <1>1, LeastNatural
<1>3. PICK x \in S : t = m - x
  OBVIOUS
<1>4. \A y \in S : m - x <= m - y
  BY <1>2, <1>3
<1>5. ASSUME NEW y \in S PROVE y <= x
  <2>1. x \in Nat /\ y \in Nat /\ m - x <= m - y
    BY <1>4
  <2> QED BY <2>1
<1> QED BY <1>5

\* The numbers of a finite sequence are bounded.
LEMMA Bounded ==
  ASSUME NEW n \in Nat, NEW f, \A k \in 1..n : f[k] \in Nat
  PROVE  \E m \in Nat : \A k \in 1..n : f[k] <= m
<1> DEFINE Bounds(p, m) == \A k \in 1..p : f[k] <= m
           T == {p \in 0..n : \A m \in Nat : ~Bounds(p, m)}
<1>1. SUFFICES T = {}
  <2>1. n \notin T
    BY <1>1
  <2> QED BY <2>1
<1>2. SUFFICES ASSUME T # {} PROVE FALSE
  OBVIOUS
<1>3. PICK p \in T : \A q \in T : p <= q
  <2>1. T \subseteq Nat
    OBVIOUS
  <2> HIDE DEF T
  <2> QED BY <1>2, <2>1, LeastNatural
<1>4. p \in 0..n /\ \A m \in Nat : ~Bounds(p, m)
  OBVIOUS
<1>5. p # 0
  BY <1>4
<1>6. p - 1 \in 0..n /\ p - 1 \notin T
  <2> HIDE DEF T
  <2> QED BY <1>3, <1>4, <1>5
<1>7. PICK m \in Nat : Bounds(p - 1, m)
  BY <1>6
<1>8. PICK b \in Nat : m <= b /\ f[p] <= b
  <2>1. f[p] \in Nat
    BY <1>4, <1>5
  <2>2. CASE f[p] <= m
    BY <2>1, <2>2
  <2>3. CASE ~(f[p] <= m)
    BY <2>1, <2>3
  <2> QED BY <2>2, <2>3
<1>9. Bounds(p, b)
  <2> SUFFICES ASSUME NEW k \in 1..p PROVE f[k] <= b
    OBVIOUS
  <2>1. CASE k = p
    BY <1>8, <2>1
  <2>2. CASE k # p
    <3>1. k \in 1..p - 1 /\ f[k] \in Nat
      BY <1>4, <1>5, <2>2
    <3> QED BY <1>7, <1>8, <3>1
  <2> QED BY <2>1, <2>2
<1> QED BY <1>4, <1>9

\* The row of an added line is a new one.
LEMMA RowsHaveGreatest ==
  ASSUME NEW ls, Good(ls), ls # <<>>
  PROVE  LET rows == {ls[k].row : k \in DOMAIN ls}
         IN rows # {} /\ Scoring!Max(rows) \in Nat /\ \A r \in rows : r <= Scoring!Max(rows)
<1>1. PICK n : n = Len(ls) /\ n \in Nat /\ DOMAIN ls = 1..n
  BY ListIs DEF Good
<1>2. \A k \in 1..n : ls[k].row \in Nat
  BY <1>1 DEF Good, GoodLine
<1>3. PICK f : f = [k \in 1..n |-> ls[k].row]
  OBVIOUS
<1>4. PICK m \in Nat : \A k \in 1..n : f[k] <= m
  <2>1. \A k \in 1..n : f[k] \in Nat
    BY <1>2, <1>3
  <2> QED BY <1>1, <2>1, Bounded
<1>5. PICK rows : rows = {ls[k].row : k \in DOMAIN ls}
  OBVIOUS
<1>6. rows \subseteq Nat /\ \A r \in rows : r <= m
  BY <1>1, <1>2, <1>3, <1>4, <1>5
<1>7. rows # {}
  <2>1. n # 0
    <3>1. ls \in Seq({ls[k] : k \in DOMAIN ls})
      BY DEF Good, IsList
    <3> QED BY <1>1, <3>1
  <2>2. ls[1].row \in rows
    BY <1>1, <1>5, <2>1
  <2> QED BY <2>2
<1>8. \E x \in rows : \A y \in rows : y <= x
  BY <1>6, <1>7, GreatestNatural
<1>9. Scoring!Max(rows) \in rows /\ \A y \in rows : y <= Scoring!Max(rows)
  BY <1>6, <1>8 DEF Scoring!Max
<1> QED BY <1>5, <1>6, <1>7, <1>9

----------------------------------------------------------------------------
(* The analysis *)

\* Nothing is listed before the tariff service was asked, rows are distinct
\* until a client sends them, and what is kept was scored as it is.
AnalysisInv ==
  /\ Good(anLines) /\ Agreeing(anLines)
  /\ anStage # "stored" => Distinct(anLines)
  /\ anStage = "none" => anLines = <<>>
  /\ anStage \in {"none", "parsed", "enriched"} => \A k \in DOMAIN anLines : anLines[k].entity = None
  /\ anStage \notin {"none", "parsed"} => Rated(anLines)

\* What ListedStaysRed says of a step.
KeepsRed ==
  /\ anStage' = "stored" => \A j \in DOMAIN anLines' : anLines'[j].entity = TRUE => anLines'[j].risk = "red"
  /\ \A k \in DOMAIN anLines, j \in DOMAIN anLines' :
       /\ anLines[k].row = anLines'[j].row /\ anLines[k].entity = TRUE
       /\ ~anLines[k].sent /\ ~anLines'[j].sent
       => anLines'[j].risk = "red"

LEMMA EmptyIsGood == Good(<<>>) /\ Agreeing(<<>>) /\ Distinct(<<>>)
<1>1. DOMAIN <<>> = {} /\ <<>> \in Seq({<<>>[k] : k \in DOMAIN <<>>})
  OBVIOUS
<1> QED BY <1>1 DEF Good, IsList, Agreeing, Keeps, Distinct

LEMMA InitAnalysis == Scoring!Init => AnalysisInv
<1>1. DOMAIN <<>> = {}
  OBVIOUS
<1> QED BY <1>1, EmptyIsGood DEF Scoring!Init, AnalysisInv

\* The lines of a step that scores them all.
LEMMA FinalizedStep ==
  ASSUME NEW ls, Good(ls), Keeps(anLines, ls), Agreeing(ls), Scoring!Finalize(ls)
  PROVE  /\ Good(anLines') /\ Agreeing(anLines') /\ Rated(anLines') /\ SameRows(ls, anLines')
         /\ KeepsRed
<1>1. anLines' = Scoring!Scored(ls)
  BY DEF Scoring!Finalize
<1>2. /\ Good(anLines') /\ Rated(anLines') /\ Keeps(anLines, anLines')
      /\ SameRows(ls, anLines')
  BY <1>1, ScoredIsGood
<1>3. Agreeing(anLines')
  BY <1>2, OneByOneKeeps
<1>4. ASSUME NEW j \in DOMAIN anLines', anLines'[j].entity = TRUE PROVE anLines'[j].risk = "red"
  <2>1. anLines'[j].risk = Scoring!Score(anLines'[j])
    BY <1>2 DEF Rated
  <2> QED BY <1>4, <2>1 DEF Scoring!Score
<1>5. KeepsRed
  BY <1>2, <1>4 DEF KeepsRed, Keeps
<1> QED BY <1>2, <1>3, <1>5

\* A line not looked up yet is good, and one added to a stored BOM.
LEMMA LineOfIsGood ==
  ASSUME NEW row \in Nat, NEW part, NEW maker, NEW words
  PROVE  /\ GoodLine(Scoring!LineOf(row, part, maker, words))
         /\ Scoring!LineOf(row, part, maker, words).row = row
         /\ Scoring!LineOf(row, part, maker, words).entity = None
<1>1. PICK l : l = Scoring!LineOf(row, part, maker, words)
  OBVIOUS
<1>2. DOMAIN l = Scoring!Fields /\ l.row = row /\ l.avail = "" /\ l.life = "" /\ l.blind /\ l.entity = None
  BY <1>1 DEF Scoring!LineOf, Scoring!Fields
<1>3. GoodLine(l)
  BY <1>2 DEF GoodLine, Lookedup
<1> QED BY <1>1, <1>2, <1>3

LEMMA AddedIsGood ==
  ASSUME NEW l, GoodLine(l), NEW avail \in {"Pending", "NoMatch"}, NEW m,
         m = [l EXCEPT !.avail = avail, !.life = "Unknown", !.risk = "unknown", !.blind = FALSE]
  PROVE  GoodLine(m) /\ m.row = l.row
<1>1. DOMAIN l = Scoring!Fields /\ l.row \in Nat
  BY DEF GoodLine
<1>2. "row" \in DOMAIN l /\ "avail" \in DOMAIN l /\ "life" \in DOMAIN l
  BY <1>1, LineFields
<1>3. DOMAIN m = DOMAIN l /\ m.row = l.row /\ m.avail = avail /\ m.life = "Unknown"
  BY <1>2
<1> QED BY <1>1, <1>3 DEF GoodLine, Lookedup

\* None # TRUE: what nobody has asked is no answer of the Entity List.
LEMMA NotListed ==
  ASSUME AnalysisInv, anStage \in {"none", "parsed", "enriched"}, anStage' # "stored"
  PROVE  KeepsRed
BY ScoringAssumptions DEF AnalysisInv, KeepsRed, Scoring!Assumptions

LEMMA ParseStep ==
  ASSUME AnalysisInv, Scoring!Parse
  PROVE  AnalysisInv' /\ KeepsRed
<1>1. anStage = "none" /\ anStage' = "parsed"
  BY DEF Scoring!Parse
<1>2. PICK u \in Uploads :
        anLines' = [k \in DOMAIN u |-> Scoring!LineOf(k - 1, u[k].part, u[k].maker, u[k].description)]
  BY DEF Scoring!Parse
<1>3. Len(u) \in Nat /\ DOMAIN u = 1..Len(u)
  BY ScoringAssumptions DEF Scoring!Assumptions
<1>4. PICK ls : ls = anLines'
  OBVIOUS
<1>5. DOMAIN ls = 1..Len(u)
  BY <1>2, <1>3, <1>4
<1>6. ASSUME NEW k \in 1..Len(u) PROVE GoodLine(ls[k]) /\ ls[k].row = k - 1 /\ ls[k].entity = None
  <2>1. PICK part, maker, words : ls[k] = Scoring!LineOf(k - 1, part, maker, words)
    BY <1>2, <1>3, <1>4
  <2>2. k - 1 \in Nat
    OBVIOUS
  <2> QED BY <2>1, <2>2, LineOfIsGood
<1>7. IsList(ls)
  <2>1. ls = [k \in 1..Len(u) |-> ls[k]]
    BY <1>2, <1>4, <1>5
  <2> QED BY <1>3, <2>1, FunctionIsList
<1>8. \A j, k \in 1..Len(u) : ls[j].row = ls[k].row => j = k
  <2> SUFFICES ASSUME NEW j \in 1..Len(u), NEW k \in 1..Len(u), ls[j].row = ls[k].row PROVE j = k
    OBVIOUS
  <2>1. j - 1 = k - 1
    BY <1>6
  <2> QED BY <1>3, <2>1
<1>9. Good(ls) /\ Distinct(ls)
  BY <1>5, <1>6, <1>7, <1>8 DEF Good, Distinct
<1>10. Agreeing(ls)
  BY <1>9, DistinctAgree
<1> QED BY <1>1, <1>4, <1>5, <1>6, <1>9, <1>10, NotListed DEF AnalysisInv

LEMMA EnrichStep ==
  ASSUME AnalysisInv, Scoring!EnrichUpload
  PROVE  AnalysisInv' /\ KeepsRed
<1>1. anStage = "parsed" /\ anStage' = "enriched"
  BY DEF Scoring!EnrichUpload
<1>2. ASSUME NEW ls, Good(ls), SameRows(anLines, ls), Scoring!Finalize(ls)
      PROVE  AnalysisInv' /\ KeepsRed
  <2>1. Keeps(anLines, ls) /\ Agreeing(ls)
    BY <1>2, OneByOneKeeps DEF AnalysisInv
  <2>2. /\ Good(anLines') /\ Agreeing(anLines') /\ Rated(anLines') /\ SameRows(ls, anLines')
        /\ KeepsRed
    BY <1>2, <2>1, FinalizedStep
  <2>3. \A k \in DOMAIN anLines' : anLines'[k].entity = None
    BY <1>1, <1>2, <2>2 DEF SameRows, AnalysisInv
  <2>4. Distinct(anLines')
    BY <1>1, <1>2, <2>2 DEF SameRows, AnalysisInv, Distinct
  <2> QED BY <1>1, <2>2, <2>3, <2>4 DEF AnalysisInv
<1>3. CASE Scoring!Finalize(anLines)
  <2>1. Good(anLines) /\ SameRows(anLines, anLines)
    BY DEF AnalysisInv, SameRows
  <2> QED BY <1>2, <1>3, <2>1
<1>4. ASSUME NEW cache, Scoring!Finalize(Scoring!Enriched(anLines, cache))
      PROVE  AnalysisInv' /\ KeepsRed
  <2>1. Good(Scoring!Enriched(anLines, cache)) /\ SameRows(anLines, Scoring!Enriched(anLines, cache))
    BY EnrichedIsGood DEF AnalysisInv
  <2> QED BY <1>2, <1>4, <2>1
<1> QED BY <1>3, <1>4 DEF Scoring!EnrichUpload

\* The answers of the tariff service are to lines that had none.
LEMMA OverlayStep ==
  ASSUME AnalysisInv, Scoring!TariffOverlay
  PROVE  AnalysisInv' /\ KeepsRed
<1>1. anStage = "enriched" /\ anStage' = "answered" /\ KeepsRed
  BY NotListed DEF Scoring!TariffOverlay
<1>2. CASE UNCHANGED anLines
  BY <1>1, <1>2 DEF AnalysisInv, Rated
<1>3. ASSUME NEW d, NEW today,
             Scoring!Finalize([k \in DOMAIN anLines |->
               LET t == Scoring!Assess(d, Scoring!Input(anLines[k]), today) IN
               [anLines[k] EXCEPT !.total = t.total, !.entity = t.entity]])
      PROVE  AnalysisInv'
  <2>1. PICK ls : ls = [k \in DOMAIN anLines |->
               LET t == Scoring!Assess(d, Scoring!Input(anLines[k]), today) IN
               [anLines[k] EXCEPT !.total = t.total, !.entity = t.entity]]
    OBVIOUS
  <2>2. DOMAIN ls = DOMAIN anLines /\ ls = [k \in DOMAIN anLines |-> ls[k]]
    BY <2>1
  <2>3. ASSUME NEW k \in DOMAIN anLines PROVE GoodLine(ls[k]) /\ ls[k].row = anLines[k].row
    <3>1. PICK l, m, t : /\ l = anLines[k] /\ m = ls[k]
                         /\ t = Scoring!Assess(d, Scoring!Input(anLines[k]), today)
      OBVIOUS
    <3>2. m = [l EXCEPT !.total = t.total, !.entity = t.entity]
      BY <2>1, <3>1
    <3>3. GoodLine(l)
      BY <3>1 DEF AnalysisInv, Good
    <3>4. /\ "row" \in DOMAIN l /\ "part" \in DOMAIN l /\ "maker" \in DOMAIN l /\ "answered" \in DOMAIN l
          /\ "avail" \in DOMAIN l /\ "life" \in DOMAIN l /\ "blind" \in DOMAIN l /\ "sent" \in DOMAIN l
      BY <3>3, LineFields DEF GoodLine
    <3>5. /\ DOMAIN m = DOMAIN l /\ m.row = l.row /\ m.part = l.part /\ m.maker = l.maker
          /\ m.answered = l.answered /\ m.avail = l.avail /\ m.life = l.life /\ m.blind = l.blind
          /\ m.sent = l.sent
      BY <3>2, <3>4
    <3> QED BY <3>1, <3>3, <3>5 DEF GoodLine, Lookedup, Scoring!Key
  <2>4. Good(ls)
    BY <2>2, <2>3, OneByOne DEF AnalysisInv
  <2>5. Good(anLines') /\ Rated(anLines') /\ SameRows(ls, anLines')
    BY <1>3, <2>1, <2>4, ScoredIsGood DEF Scoring!Finalize
  <2>6. Distinct(anLines')
    BY <1>1, <2>2, <2>3, <2>5 DEF AnalysisInv, Distinct, SameRows
  <2>7. Agreeing(anLines')
    BY <2>6, DistinctAgree
  <2> QED BY <1>1, <2>5, <2>6, <2>7 DEF AnalysisInv
<1>4. AnalysisInv'
  BY <1>2, <1>3 DEF Scoring!TariffOverlay
<1> QED BY <1>1, <1>4

\* Once it is answered an analysis is scored again and again.
LEMMA StoredStep ==
  ASSUME AnalysisInv, NEW ls, Good(ls), Keeps(anLines, ls), Agreeing(ls), Scoring!Finalize(ls),
         anStage' = "stored"
  PROVE  AnalysisInv' /\ KeepsRed
<1>1. Good(anLines') /\ Agreeing(anLines') /\ Rated(anLines') /\ KeepsRed
  BY FinalizedStep
<1> QED BY <1>1 DEF AnalysisInv

\* Whatever a client sends.
LEMMA ReceivedStep ==
  ASSUME AnalysisInv, Scoring!Received, anStage' = "stored"
  PROVE  AnalysisInv' /\ KeepsRed
<1>1. PICK ls \in Scoring!SeqOf(Scoring!ToSet(anLines) \cup Sent, MaxLines) : Scoring!Finalize(ls)
  BY DEF Scoring!Received
<1>2. Good(ls) /\ Keeps(anLines, ls) /\ Agreeing(ls)
  BY ReceivedIsGood DEF AnalysisInv
<1> QED BY <1>1, <1>2, StoredStep

\* new_analyzed_line, of a row that no line has.
NewLine(row, part, maker, avail) ==
  [Scoring!LineOf(row, part, maker, <<>>) EXCEPT
     !.avail = avail, !.life = "Unknown", !.risk = "unknown", !.blind = FALSE]

LEMMA NewLineIsGood ==
  ASSUME NEW row \in Nat, NEW part, NEW maker, NEW avail \in {"Pending", "NoMatch"}, NEW m,
         m = NewLine(row, part, maker, avail)
  PROVE  GoodLine(m) /\ m.row = row
<1>1. PICK l : l = Scoring!LineOf(row, part, maker, <<>>)
  OBVIOUS
<1>2. GoodLine(l) /\ l.row = row
  BY <1>1, LineOfIsGood
<1>3. m = [l EXCEPT !.avail = avail, !.life = "Unknown", !.risk = "unknown", !.blind = FALSE]
  BY <1>1 DEF NewLine
<1> QED BY <1>2, <1>3, AddedIsGood

IsAdded(l, row) ==
  /\ \A k \in DOMAIN anLines : anLines[k].row # row
  /\ Scoring!Finalize(Append(anLines, l))

LEMMA OneIsAdded ==
  ASSUME Good(anLines), Scoring!AddLine
  PROVE  \E row \in Nat, part \in Parts \cup {None}, maker \in Makers, avail \in {"Pending", "NoMatch"} :
           IsAdded(NewLine(row, part, maker, avail), row)
<1>1. PICK rows : rows = {anLines[k].row : k \in DOMAIN anLines}
  OBVIOUS
<1>2. PICK row : row = IF rows = {} THEN 0 ELSE Scoring!Max(rows) + 1
  OBVIOUS
<1>3. PICK part \in Parts \cup {None}, maker \in Makers :
        Scoring!Finalize(Append(anLines, [Scoring!LineOf(row, part, maker, <<>>) EXCEPT
          !.avail = IF part = None THEN "NoMatch" ELSE "Pending",
          !.life = "Unknown", !.risk = "unknown", !.blind = FALSE]))
  BY <1>1, <1>2, Zenon DEF Scoring!AddLine
<1>4. PICK avail \in {"Pending", "NoMatch"} : avail = IF part = None THEN "NoMatch" ELSE "Pending"
  OBVIOUS
<1>5. Scoring!Finalize(Append(anLines, NewLine(row, part, maker, avail)))
  BY <1>3, <1>4 DEF NewLine
<1>6. row \in Nat /\ \A k \in DOMAIN anLines : anLines[k].row # row
  <2>1. CASE anLines = <<>>
    <3>1. rows = {}
      BY <1>1, <2>1
    <3> QED BY <1>1, <1>2, <3>1
  <2>2. CASE anLines # <<>>
    <3>1. rows # {} /\ Scoring!Max(rows) \in Nat /\ \A r \in rows : r <= Scoring!Max(rows)
      BY <1>1, <2>2, RowsHaveGreatest
    <3>2. \A k \in DOMAIN anLines : anLines[k].row \in rows /\ anLines[k].row \in Nat
      BY <1>1 DEF Good, GoodLine
    <3> QED BY <1>2, <3>1, <3>2
  <2> QED BY <2>1, <2>2
<1> QED BY <1>5, <1>6, Zenon DEF IsAdded

LEMMA NextOfAnalysis ==
  ASSUME AnalysisInv, [Scoring!Next]_(Scoring!vars)
  PROVE  AnalysisInv' /\ KeepsRed
<1>1. CASE Scoring!Parse
  BY <1>1, ParseStep
<1>2. CASE Scoring!EnrichUpload
  BY <1>2, EnrichStep
<1>3. CASE Scoring!TariffOverlay
  BY <1>3, OverlayStep
<1>4. Good(anLines) /\ Agreeing(anLines) /\ Keeps(anLines, anLines)
  BY DEF AnalysisInv, Agreeing
<1>5. CASE Scoring!CreateBom
  BY <1>4, <1>5, StoredStep, ReceivedStep DEF Scoring!CreateBom
<1>6. CASE Scoring!PatchLine
  <2>1. anStage' = "stored"
    BY <1>6 DEF Scoring!PatchLine, Scoring!Change
  <2>2. PICK k \in DOMAIN anLines, part \in Parts \cup {None}, maker \in Makers,
             named \in SUBSET {"mpn", "manufacturer"} :
          Scoring!Finalize([anLines EXCEPT ![k] = Scoring!Patched(@, part, maker, named)])
    BY <1>6 DEF Scoring!PatchLine
  <2>3. /\ Good([anLines EXCEPT ![k] = Scoring!Patched(@, part, maker, named)])
        /\ SameRows(anLines, [anLines EXCEPT ![k] = Scoring!Patched(@, part, maker, named)])
    BY <1>4, PatchedIsGood
  <2> QED BY <1>4, <2>1, <2>2, <2>3, OneByOneKeeps, StoredStep
<1>7. CASE Scoring!AddLine
  <2>1. anStage' = "stored"
    BY <1>7 DEF Scoring!AddLine, Scoring!Change
  <2>2. PICK row \in Nat, part \in Parts \cup {None}, maker \in Makers, avail \in {"Pending", "NoMatch"} :
          IsAdded(NewLine(row, part, maker, avail), row)
    BY <1>4, <1>7, OneIsAdded
  <2>3. PICK m : m = NewLine(row, part, maker, avail)
    OBVIOUS
  <2>4. GoodLine(m) /\ m.row = row
    BY <2>3, NewLineIsGood
  <2>5. Good(Append(anLines, m)) /\ Keeps(anLines, Append(anLines, m)) /\ Agreeing(Append(anLines, m))
    BY <1>4, <2>2, <2>3, <2>4, AppendedIsGood DEF IsAdded
  <2> QED BY <2>1, <2>2, <2>3, <2>5, StoredStep DEF IsAdded
<1>8. CASE Scoring!DeleteLine
  <2>1. PICK k \in DOMAIN anLines : Scoring!Finalize(Scoring!RemoveAt(anLines, k)) /\ anStage' = "stored"
    BY <1>8 DEF Scoring!DeleteLine, Scoring!Change
  <2>2. PICK ms : ms = Scoring!RemoveAt(anLines, k)
    OBVIOUS
  <2>3. Good(ms) /\ \A j \in DOMAIN ms : \E i \in DOMAIN anLines : ms[j] = anLines[i]
    BY <1>4, <2>2, RemovedIsGood
  <2>4. Keeps(anLines, ms) /\ Agreeing(ms)
    BY <1>4, <2>3, OfTheseKeeps
  <2> QED BY <2>1, <2>2, <2>3, <2>4, StoredStep
<1>9. CASE Scoring!ReplaceLines
  BY <1>9, ReceivedStep DEF Scoring!ReplaceLines, Scoring!Change
<1>10. CASE Scoring!Refresh
  <2>1. PICK cache \in Scoring!Caches(anLines) :
          Scoring!Finalize(Scoring!Enriched(anLines, cache)) /\ anStage' = "stored"
    BY <1>10 DEF Scoring!Refresh, Scoring!Change
  <2>2. /\ Good(Scoring!Enriched(anLines, cache)) /\ Keeps(anLines, Scoring!Enriched(anLines, cache))
        /\ Agreeing(Scoring!Enriched(anLines, cache))
    BY <1>4, EnrichedIsGood, OneByOneKeeps
  <2> QED BY <2>1, <2>2, StoredStep
<1>11. CASE UNCHANGED Scoring!vars
  <2>1. UNCHANGED <<anStage, anLines>>
    BY <1>11 DEF Scoring!vars
  <2>2. AnalysisInv'
    BY <2>1 DEF AnalysisInv, Rated
  <2>3. KeepsRed
    <3>1. CASE anStage \in {"none", "parsed"}
      BY <2>1, <3>1, NotListed
    <3>2. CASE anStage \notin {"none", "parsed"}
      BY <1>4, <2>1, <3>2 DEF AnalysisInv, KeepsRed, Rated, Keeps, Scoring!Score
    <3> QED BY <3>1, <3>2
  <2> QED BY <2>2, <2>3
<1> QED BY <1>1, <1>2, <1>3, <1>5, <1>6, <1>7, <1>8, <1>9, <1>10, <1>11 DEF Scoring!Next

LEMMA ScoringSpec == SpecAll => Scoring!Spec
<1>1. InitAll => Scoring!Init
  BY DEF InitAll
<1>2. [NextOfOne]_everything => [Scoring!Next]_(Scoring!vars)
  BY DEF NextOfOne, everything, scoringVars, Scoring!vars
<1> QED BY <1>1, <1>2, PTL DEF SpecAll, Scoring!Spec

\* StatusIsOfThePart, of apply_enrichment_results and apply_line_patch: what a
\* stored line says of stock and life cycle was answered for the part it has,
\* or is what a client sent of a line of its own and nothing has replaced yet.
THEOREM StatusesAreOfTheirParts == SpecAll => []StatusIsOfThePart
<1>1. AnalysisInv => StatusIsOfThePart
  <2> SUFFICES ASSUME AnalysisInv, anStage = "stored", NEW k \in DOMAIN anLines, NEW l, l = anLines[k]
               PROVE  /\ l.avail \in {"InStock", "OutOfStock", "Error"}
                           \/ l.life \in Scoring!Lifecycles \ {"", "Unknown"}
                         => l.answered = Scoring!Key(l) \/ (l.sent /\ l.blind)
                      /\ l.risk \in {"green", "yellow"} => l.answered = Scoring!Key(l) \/ l.blind
    BY DEF StatusIsOfThePart, Scoring!StatusIsOfThePart
  <2>1. GoodLine(l) /\ l.risk = Scoring!Score(l)
    BY DEF AnalysisInv, Good, Rated
  <2>2. l.avail \in {"Pending", "NoMatch"} => l.risk \in {"red", "unknown"}
    BY <2>1 DEF Scoring!Score, Scoring!Pending
  <2> QED BY <2>1, <2>2 DEF GoodLine, Lookedup
<1>2. Scoring!Init => AnalysisInv
  BY InitAnalysis
<1>3. AnalysisInv /\ [Scoring!Next]_(Scoring!vars) => AnalysisInv'
  BY NextOfAnalysis
<1> QED BY <1>1, <1>2, <1>3, ScoringSpec, PTL DEF Scoring!Spec

\* ListedStaysRed, of score_risk and finalize_analyze: a line whose maker is on
\* the Entity List stays red in every step, looked up or not, patched, copied or
\* moved, until a client sends a line of its own for the row.
THEOREM ListedLinesStayRed == SpecAll => ListedStaysRed
<1>1. Scoring!Init => AnalysisInv
  BY InitAnalysis
<1>2. AnalysisInv /\ [Scoring!Next]_(Scoring!vars) => AnalysisInv'
  BY NextOfAnalysis
<1>3. AnalysisInv /\ [Scoring!Next]_(Scoring!vars) =>
        [/\ anStage' = "stored" =>
              \A j \in DOMAIN anLines' : anLines'[j].entity = TRUE => anLines'[j].risk = "red"
         /\ \A k \in DOMAIN anLines, j \in DOMAIN anLines' :
              /\ anLines[k].row = anLines'[j].row /\ anLines[k].entity = TRUE
              /\ ~anLines[k].sent /\ ~anLines'[j].sent
              => anLines'[j].risk = "red"]_(Scoring!vars)
  BY NextOfAnalysis DEF KeepsRed
<1> QED BY <1>1, <1>2, <1>3, ScoringSpec, PTL DEF Scoring!Spec, ListedStaysRed, Scoring!ListedStaysRed

----------------------------------------------------------------------------
(* Places in an order *)

LEMMA Upto ==
  ASSUME NEW n \in Nat
  PROVE  IsFiniteSet(1..n) /\ Cardinality(1..n) = n
<1>1. 1 \in Int /\ n \in Int /\ (IF 1 > n THEN 0 ELSE n - 1 + 1) = n
  OBVIOUS
<1> QED BY <1>1, FS_Interval

\* R orders the members of F: of two different ones just one comes first.
Orders(R, F) ==
  /\ \A i, j, k \in F : <<i, j>> \in R /\ <<j, k>> \in R => <<i, k>> \in R
  /\ \A j, k \in F : <<j, k>> \in R => <<k, j>> \notin R
  /\ \A j, k \in F : j # k => <<j, k>> \in R \/ <<k, j>> \in R

Former(R, F, k) == {j \in F : <<j, k>> \in R}
Nth(R, F, k) == Cardinality(Former(R, F, k)) + 1

LEMMA NthIs ==
  ASSUME NEW F, IsFiniteSet(F), NEW R, Orders(R, F), NEW k \in F
  PROVE  /\ Nth(R, F, k) \in 1..Cardinality(F)
         /\ \A j \in F : <<j, k>> \in R <=> Nth(R, F, j) < Nth(R, F, k)
<1>1. Cardinality(F) \in Nat
  BY FS_CardinalityType
<1>2. \A j \in F : /\ Former(R, F, j) \in SUBSET F /\ IsFiniteSet(Former(R, F, j))
                   /\ Cardinality(Former(R, F, j)) \in Nat
  BY FS_Subset, FS_CardinalityType DEF Former
<1>3. Cardinality(Former(R, F, k)) < Cardinality(F)
  <2>1. Former(R, F, k) # F
    BY DEF Former, Orders
  <2>2. Cardinality(Former(R, F, k)) <= Cardinality(F) /\ Cardinality(Former(R, F, k)) # Cardinality(F)
    BY <1>2, <2>1, FS_Subset
  <2> QED BY <1>1, <1>2, <2>2
<1>4. ASSUME NEW i \in F, NEW j \in F, <<i, j>> \in R
      PROVE  Cardinality(Former(R, F, i)) < Cardinality(Former(R, F, j))
  <2>1. Former(R, F, i) \in SUBSET Former(R, F, j)
    BY <1>4 DEF Former, Orders
  <2>2. Former(R, F, i) # Former(R, F, j)
    BY <1>4 DEF Former, Orders
  <2>3. /\ Cardinality(Former(R, F, i)) <= Cardinality(Former(R, F, j))
        /\ Cardinality(Former(R, F, i)) # Cardinality(Former(R, F, j))
    BY <1>2, <2>1, <2>2, FS_Subset
  <2> QED BY <1>2, <2>3
<1>5. ASSUME NEW j \in F, Nth(R, F, j) < Nth(R, F, k) PROVE <<j, k>> \in R
  <2>1. Cardinality(Former(R, F, j)) < Cardinality(Former(R, F, k))
    BY <1>2, <1>5 DEF Nth
  <2>2. j # k /\ <<k, j>> \notin R
    BY <1>2, <1>4, <2>1
  <2> QED BY <2>2 DEF Orders
<1>6. ASSUME NEW j \in F, <<j, k>> \in R PROVE Nth(R, F, j) < Nth(R, F, k)
  BY <1>2, <1>4, <1>6 DEF Nth
<1>7. Nth(R, F, k) \in 1..Cardinality(F)
  BY <1>1, <1>2, <1>3 DEF Nth
<1> QED BY <1>5, <1>6, <1>7

\* Every place is one member's.
LEMMA NthIsOnto ==
  ASSUME NEW F, IsFiniteSet(F), NEW R, Orders(R, F), NEW n \in 1..Cardinality(F)
  PROVE  \E k \in F : Nth(R, F, k) = n /\ \A j \in F : Nth(R, F, j) = n => j = k
<1> DEFINE f == [k \in F |-> Nth(R, F, k)]
           T == 1..Cardinality(F)
<1>1. Cardinality(F) \in Nat /\ IsFiniteSet(T) /\ Cardinality(T) = Cardinality(F)
  BY FS_CardinalityType, Upto
<1>2. f \in [F -> T]
  BY NthIs
<1>3. ASSUME NEW j \in F, NEW k \in F, Nth(R, F, j) = Nth(R, F, k) PROVE j = k
  <2>1. Nth(R, F, j) \in Nat
    BY <1>1, NthIs
  <2>2. <<j, k>> \notin R /\ <<k, j>> \notin R
    BY <1>3, <2>1, NthIs
  <2> QED BY <2>2 DEF Orders
<1>4. f \in Injection(F, T)
  <2>1. \A j, k \in F : f[j] = f[k] => j = k
    BY <1>3
  <2> HIDE DEF f
  <2> QED BY <1>2, <2>1 DEF Injection, IsInjective
<1>5. f \in Surjection(F, T)
  <2> HIDE DEF f, T
  <2> QED BY <1>1, <1>4, FS_Injection
<1>6. \E k \in F : f[k] = n
  <2> HIDE DEF f
  <2> QED BY <1>5 DEF Surjection
<1> QED BY <1>3, <1>6


----------------------------------------------------------------------------
(* What is counted *)

At(ls, risks) == {k \in DOMAIN ls : ls[k].risk \in risks}

LEMMA AtIs ==
  ASSUME NEW ls, Good(ls), NEW risks
  PROVE  IsFiniteSet(At(ls, risks)) /\ Cardinality(At(ls, risks)) \in Nat
<1>1. PICK n \in Nat : n = Len(ls) /\ DOMAIN ls = 1..n
  BY ListIs DEF Good
<1>2. At(ls, risks) \in SUBSET (1..n)
  BY <1>1 DEF At
<1> QED BY <1>2, Upto, FS_Subset, FS_CardinalityType

\* Sets of lines of different risks count apart.
LEMMA AtSplits ==
  ASSUME NEW ls, Good(ls), NEW risks, NEW others, risks \cap others = {}
  PROVE  Cardinality(At(ls, risks \cup others)) = Cardinality(At(ls, risks)) + Cardinality(At(ls, others))
<1>1. At(ls, risks \cup others) = At(ls, risks) \cup At(ls, others)
  BY DEF At
<1>2. At(ls, risks) \cap At(ls, others) = {}
  BY DEF At
<1>3. Cardinality({}) = 0
  BY FS_EmptySet
<1>4. IsFiniteSet(At(ls, risks)) /\ IsFiniteSet(At(ls, others))
      /\ Cardinality(At(ls, risks)) \in Nat /\ Cardinality(At(ls, others)) \in Nat
  BY AtIs
<1>5. Cardinality(At(ls, risks) \cup At(ls, others))
        = Cardinality(At(ls, risks)) + Cardinality(At(ls, others))
            - Cardinality(At(ls, risks) \cap At(ls, others))
  BY <1>4, FS_Union
<1>6. Cardinality(At(ls, risks) \cap At(ls, others)) = 0
  BY <1>2, <1>3
<1>7. PICK x, y : x = Cardinality(At(ls, risks)) /\ y = Cardinality(At(ls, others))
  OBVIOUS
<1>8. Cardinality(At(ls, risks) \cup At(ls, others)) = x + y
  BY <1>4, <1>5, <1>6, <1>7
<1> QED BY <1>1, <1>7, <1>8

\* A score is in tenths, at most ten, and ten only of all that is scored.
LEMMA ScoreIs ==
  ASSUME NEW a \in Nat, NEW b \in Nat
  PROVE  /\ Scoring!OverallScore(a, a + b) \in 0..100
         /\ a = 0 => Scoring!OverallScore(a, a + b) = 0
         /\ a > 0 => Scoring!OverallScore(a, a) = 100
<1>1. ASSUME a + b = 0
      PROVE  Scoring!OverallScore(a, a + b) = 0
  BY <1>1 DEF Scoring!OverallScore
<1>2. ASSUME a + b # 0
      PROVE  Scoring!OverallScore(a, a + b) \in 0..100 /\ (a = 0 => Scoring!OverallScore(a, a + b) = 0)
  <2>1. PICK n \in Nat, x \in Nat, y \in Nat : n = a + b /\ x = 200 * a + n /\ y = 2 * n /\ y > 0 /\ n > 0
    BY <1>2
  <2>2. PICK q : q = x \div y
    OBVIOUS
  <2>3. q \in Nat /\ q * y <= x /\ x < q * y + y
    BY <2>1, <2>2
  <2>4. Scoring!OverallScore(a, a + b) = q
    BY <1>2, <2>1, <2>2 DEF Scoring!OverallScore
  <2>5. q <= 100
    <3>1. SUFFICES ASSUME q >= 101 PROVE FALSE
      BY <2>3
    <3>2. q * y >= 101 * y
      BY <2>1, <2>3, <3>1
    <3> QED BY <2>1, <2>3, <3>2
  <2>6. a = 0 => q = 0
    <3>1. SUFFICES ASSUME a = 0, q >= 1 PROVE FALSE
      BY <2>3
    <3>2. q * y >= y
      BY <2>1, <2>3, <3>1
    <3> QED BY <2>1, <2>3, <3>1, <3>2
  <2> QED BY <2>3, <2>4, <2>5, <2>6
<1>3. ASSUME a > 0 PROVE Scoring!OverallScore(a, a) = 100
  <2>1. PICK x \in Nat, y \in Nat : x = 201 * a /\ y = 2 * a /\ y > 0
    BY <1>3
  <2>2. PICK q : q = x \div y
    OBVIOUS
  <2>3. q \in Nat /\ q * y <= x /\ x < q * y + y
    BY <2>1, <2>2
  <2>4. Scoring!OverallScore(a, a) = q
    BY <1>3, <2>1, <2>2 DEF Scoring!OverallScore
  <2>5. q <= 100
    <3>1. SUFFICES ASSUME q >= 101 PROVE FALSE
      BY <2>3
    <3>2. q * y >= 101 * y
      BY <2>1, <2>3, <3>1
    <3> QED BY <2>1, <2>3, <3>2
  <2>6. q >= 100
    <3>1. SUFFICES ASSUME q <= 99 PROVE FALSE
      BY <2>3
    <3>2. q * y <= 99 * y
      BY <2>1, <2>3, <3>1
    <3> QED BY <2>1, <2>3, <3>2
  <2> QED BY <2>3, <2>4, <2>5, <2>6
<1> QED BY <1>1, <1>2, <1>3

----------------------------------------------------------------------------
(* The summary *)

LEMMA RiskIs ==
  ASSUME NEW l
  PROVE  /\ Scoring!Score(l) \in {"red", "yellow", "green", "unknown"}
         /\ l.avail = "Pending" => Scoring!Score(l) \in {"red", "unknown"}
BY DEF Scoring!Score, Scoring!Pending

\* What the parts of a summary are.
Sums(s, ls) ==
  /\ s.count = Len(ls) /\ s.atRisk = Cardinality(At(ls, {"red", "yellow"}))
  /\ s.unknown = Cardinality(At(ls, {"unknown"}))
  /\ s.pending = Cardinality({k \in DOMAIN ls : ls[k].avail = "Pending"})
  /\ s.band = Scoring!Band(Cardinality(At(ls, {"red"})), Cardinality(At(ls, {"yellow"})),
                           Cardinality(At(ls, {"unknown"})))
  /\ s.score = Scoring!OverallScore(s.atRisk, Len(ls) - s.unknown)

LEMMA SumsAre ==
  ASSUME NEW ls, Good(ls)
  PROVE  Sums(Scoring!Summary(ls), ls)
<1>1. PICK s : s = Scoring!Summary(ls)
  OBVIOUS
<1>2. \A S : Scoring!Cardinality(S) = Cardinality(S)
  BY DEF Scoring!Cardinality, Cardinality
<1>3. \A r : Cardinality({k \in DOMAIN ls : ls[k].risk = r}) = Cardinality(At(ls, {r}))
  <2> SUFFICES ASSUME NEW r PROVE {k \in DOMAIN ls : ls[k].risk = r} = At(ls, {r})
    OBVIOUS
  <2> QED BY DEF At
<1>4. PICK reds, yellows, unknowns, pending :
        /\ reds = Cardinality(At(ls, {"red"})) /\ yellows = Cardinality(At(ls, {"yellow"}))
        /\ unknowns = Cardinality(At(ls, {"unknown"}))
        /\ pending = Cardinality({k \in DOMAIN ls : ls[k].avail = "Pending"})
  OBVIOUS
<1>5. s = [count |-> Len(ls), atRisk |-> reds + yellows, unknown |-> unknowns, pending |-> pending,
           band |-> Scoring!Band(reds, yellows, unknowns),
           score |-> Scoring!OverallScore(reds + yellows, Len(ls) - unknowns)]
  <2>1. Scoring!Cardinality({k \in DOMAIN ls : ls[k].risk = "red"}) = reds
    BY <1>2, <1>3, <1>4
  <2>2. Scoring!Cardinality({k \in DOMAIN ls : ls[k].risk = "yellow"}) = yellows
    BY <1>2, <1>3, <1>4
  <2>3. Scoring!Cardinality({k \in DOMAIN ls : ls[k].risk = "unknown"}) = unknowns
    BY <1>2, <1>3, <1>4
  <2>4. Scoring!Cardinality({k \in DOMAIN ls : ls[k].avail = "Pending"}) = pending
    BY <1>2, <1>4
  <2> QED BY <1>1, <2>1, <2>2, <2>3, <2>4, Zenon DEF Scoring!Summary, Scoring!Count, Scoring!Pending
<1>6. Cardinality(At(ls, {"red", "yellow"})) = reds + yellows
  <2>1. {"red", "yellow"} = {"red"} \cup {"yellow"} /\ {"red"} \cap {"yellow"} = {}
    OBVIOUS
  <2> QED BY <1>4, <2>1, AtSplits
<1>7. Sums(s, ls)
  BY <1>4, <1>5, <1>6 DEF Sums
<1> QED BY <1>1, <1>7

\* What SummaryAgrees says of a summary s and of a ranking.
Worst(ls) ==
  IF At(ls, {"red"}) # {} THEN "Critical" ELSE IF At(ls, {"yellow"}) # {} THEN "Watch"
  ELSE IF At(ls, {"unknown"}) # {} THEN "Unknown" ELSE "Clear"

Agrees(s, ls) ==
  /\ s.count = Len(ls) /\ s.atRisk = Cardinality(At(ls, {"red", "yellow"}))
  /\ s.band = Worst(ls)
  /\ s.score \in 0..100 /\ (s.score > 0 => s.band \in {"Critical", "Watch"})
  /\ At(ls, {"green"}) = {} /\ s.atRisk > 0 => s.score = 100
  /\ s.pending <= s.unknown + Cardinality(At(ls, {"red"}))

LEMMA SummaryIs ==
  ASSUME NEW ls, Good(ls), Rated(ls), NEW s, Sums(s, ls)
  PROVE  Agrees(s, ls)
<1>1. PICK n \in Nat : n = Len(ls) /\ DOMAIN ls = 1..n
  BY ListIs DEF Good
<1>2. PICK reds \in Nat, yellows \in Nat, greens \in Nat, unknowns \in Nat :
        /\ reds = Cardinality(At(ls, {"red"})) /\ yellows = Cardinality(At(ls, {"yellow"}))
        /\ greens = Cardinality(At(ls, {"green"})) /\ unknowns = Cardinality(At(ls, {"unknown"}))
  BY AtIs
<1>a. PICK pending : pending = Cardinality({k \in DOMAIN ls : ls[k].avail = "Pending"})
  OBVIOUS
<1>3. Cardinality(At(ls, {"red", "yellow"})) = reds + yellows
  <2>1. {"red", "yellow"} = {"red"} \cup {"yellow"} /\ {"red"} \cap {"yellow"} = {}
    OBVIOUS
  <2> QED BY <1>2, <2>1, AtSplits
<1>4. n = reds + yellows + greens + unknowns
  <2>1. {"red", "yellow", "green"} = {"red", "yellow"} \cup {"green"} /\ {"red", "yellow"} \cap {"green"} = {}
    OBVIOUS
  <2>2. /\ {"red", "yellow", "green", "unknown"} = {"red", "yellow", "green"} \cup {"unknown"}
        /\ {"red", "yellow", "green"} \cap {"unknown"} = {}
    OBVIOUS
  <2>3. Cardinality(At(ls, {"red", "yellow", "green"})) = reds + yellows + greens
    BY <1>2, <1>3, <2>1, AtSplits
  <2>4. Cardinality(At(ls, {"red", "yellow", "green", "unknown"})) = reds + yellows + greens + unknowns
    <3>1. PICK some, last : some = {"red", "yellow", "green"} /\ last = {"unknown"}
      OBVIOUS
    <3>2. Cardinality(At(ls, some \cup last)) = Cardinality(At(ls, some)) + Cardinality(At(ls, last))
      BY <2>2, <3>1, AtSplits
    <3> QED BY <1>2, <2>2, <2>3, <3>1, <3>2
  <2>5. At(ls, {"red", "yellow", "green", "unknown"}) = 1..n
    BY <1>1, RiskIs DEF At, Rated
  <2> QED BY <1>1, <2>4, <2>5, Upto
<1>5. \A r \in {"red", "yellow", "green", "unknown"} :
        At(ls, {r}) = {} <=> Cardinality(At(ls, {r})) = 0
  <2> SUFFICES ASSUME NEW r PROVE At(ls, {r}) = {} <=> Cardinality(At(ls, {r})) = 0
    OBVIOUS
  <2> QED BY AtIs, FS_EmptySet
<1>6. s.count = n /\ s.atRisk = reds + yellows /\ s.unknown = unknowns /\ s.pending = pending
  BY <1>1, <1>2, <1>a, <1>3 DEF Sums
<1>7. s.band = Scoring!Band(reds, yellows, unknowns)
  BY <1>2 DEF Sums
<1>8. s.score = Scoring!OverallScore(reds + yellows, (reds + yellows) + greens)
  <2>1. n - unknowns = (reds + yellows) + greens
    BY <1>4
  <2> QED BY <1>1, <1>6, <2>1 DEF Sums
<1>9. s.band = Worst(ls)
  BY <1>2, <1>5, <1>7 DEF Worst, Scoring!Band
<1>10. s.score \in 0..100 /\ (s.score > 0 => s.band \in {"Critical", "Watch"})
  <2>1. PICK a \in Nat : a = reds + yellows
    OBVIOUS
  <2>2. s.score = Scoring!OverallScore(a, a + greens)
    BY <1>8, <2>1
  <2>3. s.score \in 0..100 /\ (a = 0 => s.score = 0)
    BY <2>2, ScoreIs
  <2> QED BY <1>2, <1>7, <2>1, <2>3 DEF Scoring!Band
<1>11. At(ls, {"green"}) = {} /\ s.atRisk > 0 => s.score = 100
  <2> SUFFICES ASSUME At(ls, {"green"}) = {}, s.atRisk > 0 PROVE s.score = 100
    OBVIOUS
  <2>1. greens = 0
    BY <1>2, <1>5
  <2>2. PICK a \in Nat : a = reds + yellows /\ a > 0
    BY <1>6
  <2>3. s.score = Scoring!OverallScore(a, a)
    BY <1>8, <2>1, <2>2
  <2> QED BY <2>2, <2>3, ScoreIs
<1>12. s.pending <= s.unknown + Cardinality(At(ls, {"red"}))
  <2>1. {"unknown", "red"} = {"unknown"} \cup {"red"} /\ {"unknown"} \cap {"red"} = {}
    OBVIOUS
  <2>2. Cardinality(At(ls, {"unknown", "red"})) = unknowns + reds /\ IsFiniteSet(At(ls, {"unknown", "red"}))
    BY <1>2, <2>1, AtSplits, AtIs
  <2>3. {k \in DOMAIN ls : ls[k].avail = "Pending"} \in SUBSET At(ls, {"unknown", "red"})
    BY RiskIs DEF At, Rated
  <2>4. pending <= unknowns + reds
    BY <1>2, <1>a, <2>2, <2>3, FS_Subset
  <2> QED BY <1>2, <1>6, <2>4
<1>13. s.atRisk = Cardinality(At(ls, {"red", "yellow"}))
  BY <1>3, <1>6
<1> QED BY <1>1, <1>6, <1>9, <1>10, <1>11, <1>12, <1>13 DEF Agrees

----------------------------------------------------------------------------
(* The ranking *)

AtRisk(ls) == At(ls, {"red", "yellow"})

Ranking(ls) == {p \in AtRisk(ls) \X AtRisk(ls) : Scoring!Before(ls, p[1], p[2])}
RankOf(ls, k) == Nth(Ranking(ls), AtRisk(ls), k)

LEMMA RankingOrders ==
  ASSUME NEW ls, Good(ls)
  PROVE  Orders(Ranking(ls), AtRisk(ls))
<1>1. \A k \in AtRisk(ls) : ls[k].row \in Nat /\ Scoring!Priority(ls[k]) \in {0, 1}
  BY DEF AtRisk, At, Good, GoodLine, Scoring!Priority
<1>2. \A k \in AtRisk(ls) : k \in Nat
  <2>1. Len(ls) \in Nat /\ DOMAIN ls = 1..Len(ls)
    BY ListIs DEF Good
  <2> QED BY <2>1 DEF AtRisk, At
<1>3. \A j, k \in AtRisk(ls) : <<j, k>> \in Ranking(ls) <=> Scoring!Before(ls, j, k)
  BY DEF Ranking
<1>4. \A i, j, k \in AtRisk(ls) : Scoring!Before(ls, i, j) /\ Scoring!Before(ls, j, k) => Scoring!Before(ls, i, k)
  BY <1>1, <1>2 DEF Scoring!Before
<1>5. \A j, k \in AtRisk(ls) : Scoring!Before(ls, j, k) => ~Scoring!Before(ls, k, j)
  BY <1>1, <1>2 DEF Scoring!Before
<1>6. \A j, k \in AtRisk(ls) : j # k => Scoring!Before(ls, j, k) \/ Scoring!Before(ls, k, j)
  BY <1>1, <1>2 DEF Scoring!Before
<1> QED BY <1>3, <1>4, <1>5, <1>6 DEF Orders

\* The n-th of top_risks is the flagged line with that rank.
Places(t, ls) ==
  /\ Len(t) \in Nat /\ DOMAIN t = 1..Len(t)
  /\ Len(t) <= Cardinality(AtRisk(ls)) /\ (Len(t) < TopLimit => Len(t) = Cardinality(AtRisk(ls)))
  /\ \A n \in 1..Len(t) : t[n] \in AtRisk(ls) /\ RankOf(ls, t[n]) = n

LEMMA TopIs ==
  ASSUME NEW ls, Good(ls)
  PROVE  Places(Scoring!TopRisks(ls), ls)
<1>1. PICK t, F, R : t = Scoring!TopRisks(ls) /\ F = AtRisk(ls) /\ R = Ranking(ls)
  OBVIOUS
<1>2. IsFiniteSet(F) /\ Cardinality(F) \in Nat
  BY <1>1, AtIs DEF AtRisk
<1>3. \A S : Scoring!Cardinality(S) = Cardinality(S)
  BY DEF Scoring!Cardinality, Cardinality
<1>4. PICK shown : shown = IF Scoring!Cardinality(F) < TopLimit THEN Scoring!Cardinality(F) ELSE TopLimit
  OBVIOUS
<1>5. shown \in Nat /\ shown <= Cardinality(F) /\ (shown < TopLimit => shown = Cardinality(F))
  BY <1>2, <1>3, <1>4, ScoringAssumptions DEF Scoring!Assumptions
<1>6. t = [n \in 1..shown |->
             CHOOSE k \in F : Scoring!Cardinality({j \in F : Scoring!Before(ls, j, k)}) + 1 = n]
  <2>1. Scoring!TopRisks(ls) =
          [n \in 1..(IF Scoring!Cardinality(AtRisk(ls)) < TopLimit
                     THEN Scoring!Cardinality(AtRisk(ls)) ELSE TopLimit) |->
             CHOOSE k \in AtRisk(ls) :
               Scoring!Cardinality({j \in AtRisk(ls) : Scoring!Before(ls, j, k)}) + 1 = n]
    BY DEF Scoring!TopRisks, AtRisk, At
  <2> QED BY <1>1, <1>4, <2>1
<1>7. \A k \in F : Scoring!Cardinality({j \in F : Scoring!Before(ls, j, k)}) + 1 = RankOf(ls, k)
  <2> SUFFICES ASSUME NEW k \in F PROVE {j \in F : Scoring!Before(ls, j, k)} = Former(R, F, k)
    BY <1>1, <1>3 DEF RankOf, Nth
  <2> QED BY <1>1 DEF Former, Ranking
<1>8. DOMAIN t = 1..shown /\ Len(t) = shown
  <2> HIDE DEF Scoring!TopRisks
  <2>1. t = [n \in 1..shown |-> t[n]] /\ DOMAIN t = 1..shown
    BY <1>6
  <2>2. t \in [1..shown -> {t[n] : n \in 1..shown}]
    BY <2>1
  <2>3. t \in Seq({t[n] : n \in 1..shown})
    BY <1>5, <2>2
  <2> QED BY <1>5, <2>1, <2>3
<1>9. ASSUME NEW n \in 1..shown PROVE t[n] \in F /\ RankOf(ls, t[n]) = n
  <2>1. n \in 1..Cardinality(F)
    BY <1>2, <1>5
  <2>2. PICK k \in F : RankOf(ls, k) = n
    BY <1>1, <1>2, <2>1, NthIsOnto, RankingOrders DEF RankOf
  <2>3. PICK c : c = CHOOSE i \in F : Scoring!Cardinality({j \in F : Scoring!Before(ls, j, i)}) + 1 = n
    OBVIOUS
  <2>4. c \in F /\ Scoring!Cardinality({j \in F : Scoring!Before(ls, j, c)}) + 1 = n
    BY <1>7, <2>2, <2>3
  <2>5. t[n] = c
    BY <1>6, <2>3
  <2> QED BY <1>7, <2>4, <2>5
<1> QED BY <1>1, <1>5, <1>8, <1>9 DEF Places

\* What SummaryAgrees says of top_risks.
Tops(t, ls) ==
  /\ Scoring!ToSet(t) \subseteq At(ls, {"red", "yellow"})
  /\ Len(t) < TopLimit => Scoring!ToSet(t) = At(ls, {"red", "yellow"})
  /\ Scoring!ToSet(t) \cap At(ls, {"yellow"}) # {} => At(ls, {"red"}) \subseteq Scoring!ToSet(t)

LEMMA TopsAreWorst ==
  ASSUME NEW ls, Good(ls), NEW t, Places(t, ls)
  PROVE  Tops(t, ls)
<1>1. PICK F, R, S : F = AtRisk(ls) /\ R = Ranking(ls) /\ S = Scoring!ToSet(t)
  OBVIOUS
<1>2. IsFiniteSet(F) /\ Cardinality(F) \in Nat /\ Orders(R, F)
  BY <1>1, AtIs, RankingOrders DEF AtRisk
<1>3. \A k \in F : /\ RankOf(ls, k) \in 1..Cardinality(F)
                   /\ \A j \in F : <<j, k>> \in R <=> RankOf(ls, j) < RankOf(ls, k)
  BY <1>1, <1>2, NthIs DEF RankOf
<1>4. ASSUME NEW j \in F, NEW k \in F, RankOf(ls, j) = RankOf(ls, k) PROVE j = k
  BY <1>2, <1>3, <1>4 DEF Orders
<1>5. S = {t[n] : n \in 1..Len(t)}
  BY <1>1 DEF Scoring!ToSet, Places
<1>6. \A k \in F : RankOf(ls, k) <= Len(t) => k \in S
  <2> SUFFICES ASSUME NEW k \in F, RankOf(ls, k) <= Len(t) PROVE k \in S
    OBVIOUS
  <2>1. PICK n \in 1..Len(t) : n = RankOf(ls, k)
    BY <1>2, <1>3 DEF Places
  <2>2. t[n] \in F /\ RankOf(ls, t[n]) = n
    BY <1>1, <2>1 DEF Places
  <2>3. t[n] = k
    BY <1>4, <2>1, <2>2
  <2> QED BY <1>5, <2>1, <2>3
<1>7. S \subseteq At(ls, {"red", "yellow"})
  BY <1>1, <1>5 DEF Places, AtRisk
<1>8. Len(t) < TopLimit => S = At(ls, {"red", "yellow"})
  <2> SUFFICES ASSUME Len(t) = Cardinality(F), NEW k \in F PROVE k \in S
    BY <1>1, <1>7 DEF Places, AtRisk
  <2> QED BY <1>2, <1>3, <1>6
<1>9. ASSUME S \cap At(ls, {"yellow"}) # {} PROVE At(ls, {"red"}) \subseteq S
  <2>1. PICK n \in 1..Len(t), k \in At(ls, {"yellow"}) : t[n] = k
    BY <1>5, <1>9
  <2>3. k \in F /\ RankOf(ls, k) = n
    BY <1>1, <2>1 DEF Places
  <2> SUFFICES ASSUME NEW j \in At(ls, {"red"}) PROVE j \in S
    OBVIOUS
  <2>5. j \in F
    BY <1>1 DEF At, AtRisk
  <2>6. <<j, k>> \in R
    <3>1. ls[j].risk = "red" /\ ls[k].risk = "yellow"
      BY DEF At
    <3> QED BY <1>1, <2>3, <2>5, <3>1 DEF Ranking, Scoring!Before, Scoring!Priority
  <2>7. RankOf(ls, j) < n /\ RankOf(ls, j) \in Nat
    BY <1>2, <1>3, <2>3, <2>5, <2>6
  <2>8. RankOf(ls, j) <= Len(t)
    BY <2>7 DEF Places
  <2> QED BY <1>6, <2>5, <2>8
<1> QED BY <1>1, <1>7, <1>8, <1>9 DEF Tops

----------------------------------------------------------------------------
(* The summary of the lines there are *)

\* Whatever scores the lines sums them up as it leaves them.
SummaryInv ==
  anStage \notin {"none", "parsed"} =>
    anSummary = Scoring!Summary(anLines) /\ anTop = Scoring!TopRisks(anLines)

LEMMA FinalizeSums ==
  ASSUME NEW ls, Scoring!Finalize(ls)
  PROVE  SummaryInv'
BY DEF Scoring!Finalize, SummaryInv

LEMMA NextSums ==
  ASSUME SummaryInv, [Scoring!Next]_(Scoring!vars)
  PROVE  SummaryInv'
<1>1. CASE Scoring!Parse
  BY <1>1 DEF Scoring!Parse, SummaryInv
<1>2. CASE Scoring!EnrichUpload
  BY <1>2, FinalizeSums DEF Scoring!EnrichUpload
<1>3. CASE Scoring!TariffOverlay
  <2>1. CASE UNCHANGED <<anLines, anSummary, anTop>>
    BY <1>3, <2>1 DEF Scoring!TariffOverlay, SummaryInv
  <2> QED BY <1>3, <2>1, FinalizeSums DEF Scoring!TariffOverlay
<1>4. CASE Scoring!CreateBom
  BY <1>4, FinalizeSums DEF Scoring!CreateBom, Scoring!Received
<1>5. CASE Scoring!PatchLine
  BY <1>5, FinalizeSums DEF Scoring!PatchLine
<1>6. CASE Scoring!AddLine
  BY <1>6, FinalizeSums DEF Scoring!AddLine
<1>7. CASE Scoring!DeleteLine
  BY <1>7, FinalizeSums DEF Scoring!DeleteLine
<1>8. CASE Scoring!ReplaceLines
  BY <1>8, FinalizeSums DEF Scoring!ReplaceLines, Scoring!Received
<1>9. CASE Scoring!Refresh
  BY <1>9, FinalizeSums DEF Scoring!Refresh
<1>10. CASE UNCHANGED Scoring!vars
  BY <1>10 DEF Scoring!vars, SummaryInv
<1> QED BY <1>1, <1>2, <1>3, <1>4, <1>5, <1>6, <1>7, <1>8, <1>9, <1>10 DEF Scoring!Next

\* SummaryAgrees, of finalize_analyze and bom_summary_fields: for any number of
\* lines and any length of top_risks the counts, the band, the score and the
\* ranking that are stored are those of the lines that are stored with them.
THEOREM SummariesAgree == SpecAll => []SummaryAgrees
<1>1. AnalysisInv /\ SummaryInv => SummaryAgrees
  <2> SUFFICES ASSUME AnalysisInv, SummaryInv, anStage = "stored" PROVE SummaryAgrees
    BY DEF SummaryAgrees, Scoring!SummaryAgrees
  <2>1. Good(anLines) /\ Rated(anLines)
    BY DEF AnalysisInv
  <2>2. Agrees(anSummary, anLines) /\ Tops(anTop, anLines)
    BY <2>1, SumsAre, SummaryIs, TopIs, TopsAreWorst DEF SummaryInv
  <2>3. \A S : Scoring!Cardinality(S) = Cardinality(S)
    BY DEF Scoring!Cardinality, Cardinality
  <2> QED BY <2>2, <2>3 DEF SummaryAgrees, Scoring!SummaryAgrees, Agrees, Tops, Worst, At
<1>2. Scoring!Init => AnalysisInv /\ SummaryInv
  BY InitAnalysis DEF Scoring!Init, SummaryInv
<1>3. AnalysisInv /\ SummaryInv /\ [Scoring!Next]_(Scoring!vars) => (AnalysisInv /\ SummaryInv)'
  BY NextOfAnalysis, NextSums
<1> QED BY <1>1, <1>2, <1>3, ScoringSpec, PTL DEF Scoring!Spec

----------------------------------------------------------------------------
(* Duties *)

LEMMA LeastOf ==
  ASSUME NEW n \in Nat, NEW I, I \subseteq 1..n, I # {}
  PROVE  Scoring!Min(I) \in I /\ \A j \in I : Scoring!Min(I) <= j
<1>1. \E i \in I : \A j \in I : i <= j
  <2>1. I \subseteq Nat
    OBVIOUS
  <2> QED BY <2>1, LeastNatural
<1> QED BY <1>1 DEF Scoring!Min

LEMMA GreatestOf ==
  ASSUME NEW n \in Nat, NEW I, I \subseteq 1..n, I # {}
  PROVE  Scoring!Max(I) \in I
<1>1. \E i \in I : \A j \in I : j <= i
  <2>1. I \subseteq Nat /\ \A i \in I : i <= n
    OBVIOUS
  <2> QED BY <2>1, GreatestNatural
<1> QED BY <1>1 DEF Scoring!Max

LEMMA ElementOf ==
  ASSUME NEW S, NEW s \in Seq(S)
  PROVE  DOMAIN s = 1..Len(s) /\ \A i \in 1..Len(s) : s[i] \in S
OBVIOUS

LEMMA AddonShape ==
  ASSUME NEW d \in Datasets
  PROVE  /\ Len(d.addons) \in Nat /\ DOMAIN d.addons = 1..Len(d.addons)
         /\ \A i \in DOMAIN d.addons : /\ Len(d.addons[i].code) \in Nat /\ d.addons[i].rate \in Nat
                                       /\ d.addons[i] # None
<1>1. /\ d.addons \in Seq([code : Seq(Nat), program : STRING, rate : Nat])
      /\ \A i \in DOMAIN d.addons : d.addons[i] # None
  BY DutyAssumptions DEF Scoring!DatasetAssumptions, Scoring!Coded
<1>2. Len(d.addons) \in Nat /\ DOMAIN d.addons = 1..Len(d.addons)
  BY <1>1
<1>3. ASSUME NEW i \in DOMAIN d.addons PROVE Len(d.addons[i].code) \in Nat /\ d.addons[i].rate \in Nat
  <2>1. d.addons[i] \in [code : Seq(Nat), program : STRING, rate : Nat]
    BY <1>1, ElementOf, Zenon
  <2>2. d.addons[i].code \in Seq(Nat) /\ d.addons[i].rate \in Nat
    BY <2>1
  <2> QED BY <2>2
<1> QED BY <1>1, <1>2, <1>3

LEMMA LongestExists ==
  ASSUME NEW d \in Datasets, NEW is, is \subseteq DOMAIN d.addons, is # {}
  PROVE  Scoring!LongestOf(d, is) # {}
<1>1. PICK n : n = Len(d.addons) /\ n \in Nat /\ DOMAIN d.addons = 1..n
  BY AddonShape
<1>2. PICK f : f = [i \in 1..n |-> Len(d.addons[i].code)]
  OBVIOUS
<1>3. \A i \in 1..n : f[i] \in Nat
  BY <1>1, <1>2, AddonShape
<1>4. PICK m \in Nat : \A i \in 1..n : f[i] <= m
  BY <1>1, <1>3, Bounded
<1>5. PICK S : S = {f[i] : i \in is}
  OBVIOUS
<1>6. S \subseteq Nat /\ S # {} /\ \A x \in S : x <= m
  BY <1>1, <1>3, <1>4, <1>5
<1>7. PICK x \in S : \A y \in S : y <= x
  BY <1>6, GreatestNatural
<1>8. PICK i \in is : x = f[i]
  BY <1>5
<1>9. \A j \in is : f[j] <= f[i]
  BY <1>5, <1>7, <1>8
<1> QED BY <1>1, <1>2, <1>9 DEF Scoring!LongestOf

\* find_section_301_addon and its like: the first of the longest.
LEMMA AddonIs ==
  ASSUME NEW d \in Datasets, NEW code, NEW p, NEW is, is = Scoring!AddonsOf(d, code, p)
  PROVE  /\ is = {} => Scoring!FindAddon(d, code, p) = None
         /\ is # {} => /\ Scoring!Min(Scoring!LongestOf(d, is)) \in is
                       /\ Scoring!FindAddon(d, code, p) = d.addons[Scoring!Min(Scoring!LongestOf(d, is))]
<1>1. PICK n : n = Len(d.addons) /\ n \in Nat /\ DOMAIN d.addons = 1..n
  BY AddonShape
<1>2. PICK I : I = {i \in 1..n :
                      /\ d.addons[i].program = p /\ Scoring!Related(code, d.addons[i].code)
                      /\ \A j \in 1..n :
                           d.addons[j].program = p /\ Scoring!Related(code, d.addons[j].code)
                             => Len(d.addons[j].code) <= Len(d.addons[i].code)}
  OBVIOUS
<1>3. I = Scoring!LongestOf(d, is)
  BY <1>1, <1>2 DEF Scoring!LongestOf, Scoring!AddonsOf
<1>4. Scoring!FindAddon(d, code, p) =
        IF (IF I # {} THEN Scoring!Min(I) ELSE 0) = 0 THEN None
        ELSE d.addons[IF I # {} THEN Scoring!Min(I) ELSE 0]
  BY <1>1, <1>2 DEF Scoring!FindAddon, Scoring!FirstOf, Scoring!SelectInSeq
<1>5. CASE is = {}
  BY <1>3, <1>4, <1>5 DEF Scoring!LongestOf
<1>6. CASE is # {}
  <2>1. is \subseteq DOMAIN d.addons
    BY DEF Scoring!AddonsOf
  <2>2. I # {} /\ I \subseteq 1..n /\ I \subseteq is
    BY <1>2, <1>3, <1>6, <2>1, LongestExists DEF Scoring!LongestOf
  <2>3. Scoring!Min(I) \in I
    BY <1>1, <2>2, LeastOf
  <2>4. Scoring!Min(I) # 0
    BY <1>1, <2>2, <2>3
  <2> QED BY <1>3, <1>4, <1>6, <2>2, <2>3, <2>4
<1> QED BY <1>5, <1>6

LEMMA EntryShape ==
  ASSUME NEW d \in Datasets
  PROVE  /\ Len(d.hts) \in Nat /\ DOMAIN d.hts = 1..Len(d.hts)
         /\ \A i \in DOMAIN d.hts :
              /\ d.hts[i].general \in Nat /\ d.hts[i] # None
              /\ Len(d.hts[i].special) \in Nat
              /\ \A k \in 1..Len(d.hts[i].special) : d.hts[i].special[k].rate \in Nat
<1>1. /\ d.hts \in Seq([code : Seq(Nat), general : Nat,
                        special : Seq([rate : Nat, programs : SUBSET STRING])])
      /\ \A i \in DOMAIN d.hts : d.hts[i] # None
  BY DutyAssumptions DEF Scoring!DatasetAssumptions, Scoring!Coded
<1>2. Len(d.hts) \in Nat /\ DOMAIN d.hts = 1..Len(d.hts)
  BY <1>1
<1>3. ASSUME NEW i \in DOMAIN d.hts
      PROVE  /\ d.hts[i].general \in Nat /\ Len(d.hts[i].special) \in Nat
             /\ \A k \in 1..Len(d.hts[i].special) : d.hts[i].special[k].rate \in Nat
  <2>1. d.hts[i] \in [code : Seq(Nat), general : Nat,
                      special : Seq([rate : Nat, programs : SUBSET STRING])]
    BY <1>1, ElementOf, Zenon
  <2>2. /\ d.hts[i].general \in Nat
        /\ d.hts[i].special \in Seq([rate : Nat, programs : SUBSET STRING])
    BY <2>1
  <2>3. ASSUME NEW k \in 1..Len(d.hts[i].special) PROVE d.hts[i].special[k].rate \in Nat
    <3>1. d.hts[i].special[k] \in [rate : Nat, programs : SUBSET STRING]
      BY <2>2, ElementOf, Zenon
    <3> QED BY <3>1
  <2> QED BY <2>2, <2>3
<1> QED BY <1>1, <1>2, <1>3

\* find_hts_base answers with an entry of the dataset, if at all.
LEMMA ByCodeIs ==
  ASSUME NEW d \in Datasets, NEW key
  PROVE  Scoring!ByCode(d, key) # None => \E i \in DOMAIN d.hts : Scoring!ByCode(d, key) = d.hts[i]
<1>1. PICK n : n = Len(d.hts) /\ n \in Nat /\ DOMAIN d.hts = 1..n
  BY EntryShape
<1>2. PICK I : I = {i \in 1..n : Scoring!Digits(d.hts[i].code) = key}
  OBVIOUS
<1>3. Scoring!ByCode(d, key) =
        IF (IF I # {} THEN Scoring!Max(I) ELSE 0) = 0 THEN None
        ELSE d.hts[IF I # {} THEN Scoring!Max(I) ELSE 0]
  BY <1>1, <1>2 DEF Scoring!ByCode, Scoring!SelectLastInSeq
<1>4. I # {} => Scoring!Max(I) \in 1..n
  <2>1. I \subseteq 1..n
    BY <1>2
  <2> QED BY <1>1, <2>1, GreatestOf
<1> QED BY <1>1, <1>3, <1>4

LEMMA BaseIs ==
  ASSUME NEW d \in Datasets, NEW code
  PROVE  Scoring!FindBase(d, code) # None => \E i \in DOMAIN d.hts : Scoring!FindBase(d, code) = d.hts[i]
<1>1. PICK n : n = Len(d.hts) /\ n \in Nat /\ DOMAIN d.hts = 1..n
  BY EntryShape
<1>2. PICK I : I = {i \in 1..n : Scoring!Begins(code, d.hts[i].code)}
  OBVIOUS
<1>3. I # {} => Scoring!Min(I) \in 1..n
  <2>1. I \subseteq 1..n
    BY <1>2
  <2> QED BY <1>1, <2>1, LeastOf
<1>4. \/ \E c : Scoring!FindBase(d, code) = Scoring!ByCode(d, c)
      \/ Scoring!FindBase(d, code) =
           IF (IF I # {} THEN Scoring!Min(I) ELSE 0) = 0 THEN None
           ELSE d.hts[IF I # {} THEN Scoring!Min(I) ELSE 0]
  BY <1>1, <1>2 DEF Scoring!FindBase, Scoring!FirstOf, Scoring!SelectInSeq
<1> QED BY <1>1, <1>3, <1>4, ByCodeIs

LEMMA BaseDutyIs ==
  ASSUME NEW d \in Datasets, NEW code, NEW origin
  PROVE  Scoring!BaseDuty(d, code, origin) \in Nat \cup {None}
<1>1. PICK entry : entry = Scoring!FindBase(d, code)
  OBVIOUS
<1>2. entry # None => \E i \in DOMAIN d.hts : entry = d.hts[i]
  BY <1>1, BaseIs
<1>3. entry # None => entry.general \in Nat
  BY <1>2, EntryShape
<1>4. ASSUME NEW program PROVE Scoring!FindSpecial(d, code, program) \in Nat \cup {None}
  <2>1. CASE entry = None
    BY <1>1, <2>1 DEF Scoring!FindSpecial
  <2>2. CASE entry # None
    <3>1. PICK i \in DOMAIN d.hts : entry = d.hts[i]
      BY <1>2, <2>2
    <3>2. PICK n, s : s = entry.special /\ n = Len(s) /\ n \in Nat /\ \A k \in 1..n : s[k].rate \in Nat
      BY <3>1, EntryShape
    <3>3. PICK I : I = {k \in 1..n : program \in s[k].programs}
      OBVIOUS
    <3>4. I # {} => Scoring!Min(I) \in 1..n
      <4>1. I \subseteq 1..n
        BY <3>3
      <4> QED BY <3>2, <4>1, LeastOf
    <3>5. PICK x : x = IF (IF I # {} THEN Scoring!Min(I) ELSE 0) = 0 THEN None
                       ELSE s[IF I # {} THEN Scoring!Min(I) ELSE 0]
      OBVIOUS
    <3>6. Scoring!FindSpecial(d, code, program) = IF x = None THEN None ELSE x.rate
      BY <1>1, <2>2, <3>2, <3>3, <3>5 DEF Scoring!FindSpecial, Scoring!FirstOf, Scoring!SelectInSeq
    <3> QED BY <3>2, <3>4, <3>5, <3>6
  <2> QED BY <2>1, <2>2
<1>5. PICK special : /\ special = IF origin \in DOMAIN Programs
                                  THEN Scoring!FindSpecial(d, code, Programs[origin]) ELSE None
                     /\ special \in Nat \cup {None}
  BY <1>4
<1>6. Scoring!BaseDuty(d, code, origin) =
        Scoring!Or(special, IF entry = None THEN None ELSE entry.general)
  BY <1>1, <1>5 DEF Scoring!BaseDuty
<1> QED BY <1>3, <1>5, <1>6 DEF Scoring!Or

LEMMA RateIs ==
  ASSUME NEW d \in Datasets, NEW code, NEW p, NEW is, is = Scoring!AddonsOf(d, code, p), NEW a,
         a = Scoring!FindAddon(d, code, p)
  PROVE  /\ Scoring!RateOf(d, is) \in Nat /\ (is = {} <=> a = None)
         /\ Scoring!Rate(a) = IF is = {} THEN None ELSE Scoring!RateOf(d, is)
<1>1. CASE is = {}
  <2>1. a = None
    BY <1>1, AddonIs
  <2> QED BY <1>1, <2>1 DEF Scoring!RateOf, Scoring!Rate
<1>2. CASE is # {}
  <2>1. Scoring!Min(Scoring!LongestOf(d, is)) \in is /\ a = d.addons[Scoring!Min(Scoring!LongestOf(d, is))]
    BY <1>2, AddonIs
  <2>2. Scoring!Min(Scoring!LongestOf(d, is)) \in DOMAIN d.addons
    BY <2>1 DEF Scoring!AddonsOf
  <2>3. a # None /\ a.rate \in Nat
    BY <2>1, <2>2, AddonShape
  <2> QED BY <1>2, <2>1, <2>3 DEF Scoring!RateOf, Scoring!Rate
<1> QED BY <1>1, <1>2

LEMMA DutyOf ==
  ASSUME NEW d \in Datasets, NEW code, NEW origin, NEW today \in DutyDays
  PROVE  Scoring!DutyIsSoundOn(d, code, origin, today)
<1>1. PICK p301, p232 : p301 = "section_301" /\ p232 = "section_232_semiconductor"
  OBVIOUS
<1>2. PICK f301, f232, a301, a232 :
        /\ f301 = Scoring!AddonsOf(d, code, p301) /\ f232 = Scoring!AddonsOf(d, code, p232)
        /\ a301 = Scoring!FindAddon(d, code, p301) /\ a232 = Scoring!FindAddon(d, code, p232)
  OBVIOUS
<1>3. PICK r301, r232 : r301 = Scoring!RateOf(d, f301) /\ r232 = Scoring!RateOf(d, f232)
  OBVIOUS
<1>4. PICK struck \in BOOLEAN : struck = Scoring!Excluded(d, code, today)
  BY DEF Scoring!Excluded
<1>5. PICK base \in Nat \cup {None} : base = Scoring!BaseDuty(d, code, origin)
  BY BaseDutyIs
<1>6. /\ r301 \in Nat /\ (f301 = {} <=> a301 = None)
      /\ Scoring!Rate(a301) = IF f301 = {} THEN None ELSE r301
  BY <1>2, <1>3, RateIs
<1>7. /\ r232 \in Nat /\ (f232 = {} <=> a232 = None)
      /\ Scoring!Rate(a232) = IF f232 = {} THEN None ELSE r232
  BY <1>2, <1>3, RateIs
<1>8. (f301 = {} => r301 = 0) /\ (f232 = {} => r232 = 0)
  BY <1>3 DEF Scoring!RateOf
<1>9. PICK s301, s232, total :
        /\ s301 = Scoring!Section301(a301, origin, struck) /\ s232 = Scoring!Rate(a232)
        /\ total = Scoring!ComputeTotal(base, s301, s232, origin, a301 # None, struck)
  OBVIOUS
<1>10. PICK duty : duty = Scoring!Duty(d, code, origin, today)
  OBVIOUS
<1>11. duty.base = base /\ duty.total = total
  BY <1>1, <1>2, <1>4, <1>5, <1>9, <1>10 DEF Scoring!Duty
<1>12. PICK has301 \in BOOLEAN, has232 \in BOOLEAN, open \in BOOLEAN :
         /\ has301 = (a301 # None) /\ has232 = (f232 # {})
         /\ open = (origin = None /\ ~struck /\ f301 # {} /\ f232 = {})
  OBVIOUS
<1>13. s301 = IF ~struck /\ origin \in China THEN (IF has301 THEN r301 ELSE None) ELSE None
  BY <1>6, <1>9, <1>12 DEF Scoring!Section301
<1>14. PICK more :
         more = IF struck \/ (origin # None /\ origin \notin China) THEN 0 ELSE r301
  OBVIOUS
<1>15. /\ total = None <=> base = None \/ open
       /\ total # None =>
            /\ base + r232 <= total /\ total <= base + r232 + more
            /\ origin \in China => total = base + r232 + more
  <2>1. None \notin Nat /\ None \notin China
    BY DutyAssumptions DEF Scoring!DatasetAssumptions
  <2>2. s232 = IF has232 THEN r232 ELSE None
    BY <1>7, <1>9, <1>12
  <2>3. total = Scoring!ComputeTotal(base, s301, s232, origin, has301, struck)
    BY <1>9, <1>12
  <2>4. (~has301 => r301 = 0) /\ (~has232 => r232 = 0) /\ r301 \in Nat /\ r232 \in Nat
    BY <1>6, <1>7, <1>8, <1>12
  <2>5. open <=> origin = None /\ ~struck /\ has301 /\ ~has232
    BY <1>6, <1>12, <1>14
  <2>6. CASE base = None
    BY <2>1, <2>3, <2>6 DEF Scoring!ComputeTotal
  <2>7. CASE base \in Nat /\ origin = None
    BY <1>13, <1>14, <2>1, <2>2, <2>3, <2>4, <2>5, <2>7 DEF Scoring!ComputeTotal
  <2>8. CASE base \in Nat /\ origin # None
    BY <1>13, <1>14, <2>1, <2>2, <2>3, <2>4, <2>5, <2>8 DEF Scoring!ComputeTotal
  <2> QED BY <2>6, <2>7, <2>8
<1>16. Scoring!TotalBetween(duty, r232, more, origin \in China, open)
  BY <1>11, <1>15 DEF Scoring!TotalBetween
<1>17. struck = Scoring!Struck(d, code, today)
  BY <1>4 DEF Scoring!Excluded, Scoring!Struck
<1> QED BY <1>1, <1>2, <1>3, <1>10, <1>12, <1>14, <1>16, <1>17 DEF Scoring!DutyIsSoundOn

\* DutyIsSound, of find_addons, assess_one and compute_total: for every
\* dataset, code, origin and day, a total is what is certain and at most what
\* may be added, and the addon whose code is longest as it is written decides.
THEOREM DutiesAreSound == SpecAll => []DutyIsSound
<1>1. DutyIsSound
  BY DutyOf DEF DutyIsSound
<1> QED BY <1>1, PTL

----------------------------------------------------------------------------
(* The list: every upload once, the latest first *)

Once(s) == s \in Seq(Lists!Entries) /\ \A j, k \in DOMAIN s : s[j].id = s[k].id => j = k

Sooner(s, j, k) ==
  s[j].uploaded > s[k].uploaded \/ (s[j].uploaded = s[k].uploaded /\ j < k)

Ahead(s, a, b) == \E j, k \in DOMAIN s : s[j].id = a /\ s[k].id = b /\ Sooner(s, j, k)

LEMMA OnceIs ==
  ASSUME NEW s, Once(s)
  PROVE  /\ Len(s) \in Nat /\ DOMAIN s = 1..Len(s)
         /\ \A k \in DOMAIN s : s[k] \in Lists!Entries
BY DEF Once

LEMMA EntryHas ==
  ASSUME NEW e \in Lists!Entries
  PROVE  /\ e.id \in ListIds /\ e.uploaded \in Nat /\ e.risk \in {"clear", "flagged"}
         /\ DOMAIN e = {"id", "uploaded", "risk"}
BY ListAssumptions DEF Lists!Entries, Lists!Marks, Lists!Assumptions

LEMMA SoonerOrders ==
  ASSUME NEW s, Once(s), NEW j \in DOMAIN s, NEW k \in DOMAIN s, NEW l \in DOMAIN s
  PROVE  /\ ~Sooner(s, j, j)
         /\ Sooner(s, j, k) /\ Sooner(s, k, l) => Sooner(s, j, l)
         /\ j = k \/ Sooner(s, j, k) \/ Sooner(s, k, j)
<1>1. j \in Nat /\ k \in Nat /\ l \in Nat
  BY OnceIs
<1>2. s[j].uploaded \in Nat /\ s[k].uploaded \in Nat /\ s[l].uploaded \in Nat
  BY OnceIs, EntryHas
<1> QED BY <1>1, <1>2 DEF Sooner

LEMMA AheadOrders ==
  ASSUME NEW s, Once(s), NEW a, NEW b, NEW c
  PROVE  /\ ~Ahead(s, a, a)
         /\ Ahead(s, a, b) /\ Ahead(s, b, c) => Ahead(s, a, c)
         /\ Ahead(s, a, b) => ~Ahead(s, b, a)
<1>1. \A x : ~Ahead(s, x, x)
  <2> SUFFICES ASSUME NEW x, Ahead(s, x, x) PROVE FALSE
    OBVIOUS
  <2>1. PICK j \in DOMAIN s : \E k \in DOMAIN s : s[j].id = x /\ s[k].id = x /\ Sooner(s, j, k)
    BY DEF Ahead
  <2>2. Sooner(s, j, j)
    BY <2>1 DEF Once
  <2> QED BY <2>2, SoonerOrders
<1>2. \A x, y, z : Ahead(s, x, y) /\ Ahead(s, y, z) => Ahead(s, x, z)
  <2> SUFFICES ASSUME NEW x, NEW y, NEW z, Ahead(s, x, y), Ahead(s, y, z) PROVE Ahead(s, x, z)
    OBVIOUS
  <2>1. PICK j \in DOMAIN s : \E k \in DOMAIN s : s[j].id = x /\ s[k].id = y /\ Sooner(s, j, k)
    BY DEF Ahead
  <2>2. PICK k \in DOMAIN s : s[j].id = x /\ s[k].id = y /\ Sooner(s, j, k)
    BY <2>1
  <2>3. PICK l \in DOMAIN s : \E m \in DOMAIN s : s[l].id = y /\ s[m].id = z /\ Sooner(s, l, m)
    BY DEF Ahead
  <2>4. PICK m \in DOMAIN s : s[l].id = y /\ s[m].id = z /\ Sooner(s, l, m)
    BY <2>3
  <2>5. l = k
    BY <2>2, <2>4 DEF Once
  <2>6. Sooner(s, j, m)
    BY <2>2, <2>4, <2>5, SoonerOrders
  <2> QED BY <2>2, <2>4, <2>6 DEF Ahead
<1> QED BY <1>1, <1>2

\* Where t has the entries of s of the ids X, with their times, in the order
\* they have in s, these are listed in the same order.
LEMMA OrderIsKept ==
  ASSUME NEW s, NEW t, NEW X, Once(s), Once(t),
         \A j, k \in DOMAIN s : s[j].id \in X /\ s[k].id \in X =>
           \E p, q \in DOMAIN t :
             /\ t[p].id = s[j].id /\ t[p].uploaded = s[j].uploaded
             /\ t[q].id = s[k].id /\ t[q].uploaded = s[k].uploaded
             /\ j < k => p < q,
         NEW a \in X, NEW b \in X, Ahead(s, a, b)
  PROVE  Ahead(t, a, b)
<1>1. PICK j \in DOMAIN s : \E k \in DOMAIN s : s[j].id = a /\ s[k].id = b /\ Sooner(s, j, k)
  BY DEF Ahead
<1>2. PICK k \in DOMAIN s : s[j].id = a /\ s[k].id = b /\ Sooner(s, j, k)
  BY <1>1
<1>3. PICK p \in DOMAIN t : \E q \in DOMAIN t :
             /\ t[p].id = s[j].id /\ t[p].uploaded = s[j].uploaded
             /\ t[q].id = s[k].id /\ t[q].uploaded = s[k].uploaded
             /\ j < k => p < q
  BY <1>2
<1>4. PICK q \in DOMAIN t :
             /\ t[p].id = s[j].id /\ t[p].uploaded = s[j].uploaded
             /\ t[q].id = s[k].id /\ t[q].uploaded = s[k].uploaded
             /\ j < k => p < q
  BY <1>3
<1>5. Sooner(t, p, q)
  BY <1>2, <1>4 DEF Sooner
<1> QED BY <1>2, <1>4, <1>5 DEF Ahead

----------------------------------------------------------------------------
(* What writers do to the order *)

\* t has what s has but for the id.
Less(s, t, id) ==
  /\ Once(t) /\ Lists!Ids(t) = Lists!Ids(s) \ {id}
  /\ \A a, b : a # id /\ b # id /\ Ahead(s, a, b) => Ahead(t, a, b)

LEMMA EntryRemoved ==
  ASSUME NEW s, Once(s), NEW i \in DOMAIN s
  PROVE  Less(s, Lists!RemoveAt(s, i), s[i].id)
<1>1. PICK n, t, id : n = Len(s) /\ t = Lists!RemoveAt(s, i) /\ id = s[i].id
  OBVIOUS
<1>2. n \in Nat /\ DOMAIN s = 1..n /\ i \in 1..n /\ IsList(s)
  BY <1>1, OnceIs DEF Once, IsList
<1>3. /\ IsList(t) /\ DOMAIN t = 1..n - 1
      /\ \A k \in 1..n - 1 : t[k] = IF k < i THEN s[k] ELSE s[k + 1]
  BY <1>1, <1>2, RemovedIs DEF Lists!RemoveAt, Scoring!RemoveAt
<1>4. \A k \in 1..n - 1 : (IF k < i THEN k ELSE k + 1) \in 1..n
  BY <1>2
<1>5. \A k \in DOMAIN t : t[k] \in Lists!Entries
  BY <1>2, <1>3, <1>4, OnceIs
<1>6. t \in Seq(Lists!Entries)
  <2>1. {t[k] : k \in DOMAIN t} \subseteq Lists!Entries
    BY <1>5
  <2> QED BY <1>3, <2>1 DEF IsList
<1>7. ASSUME NEW j \in DOMAIN t, NEW k \in DOMAIN t, t[j].id = t[k].id PROVE j = k
  <2>1. PICK p \in 1..n : t[j] = s[p] /\ p = IF j < i THEN j ELSE j + 1
    BY <1>3, <1>4
  <2>2. PICK q \in 1..n : t[k] = s[q] /\ q = IF k < i THEN k ELSE k + 1
    BY <1>3, <1>4
  <2>3. p = q
    BY <1>2, <1>7, <2>1, <2>2 DEF Once
  <2> QED BY <1>2, <1>3, <2>1, <2>2, <2>3
<1>8. Once(t)
  BY <1>6, <1>7 DEF Once
\* Where an entry of s went.
<1>9. ASSUME NEW j \in 1..n, j # i
      PROVE  \E p \in 1..n - 1 : t[p] = s[j] /\ p = IF j < i THEN j ELSE j - 1
  <2>1. CASE j < i
    BY <1>2, <1>3, <2>1
  <2>2. CASE ~(j < i)
    <3>1. j - 1 \in 1..n - 1 /\ ~(j - 1 < i) /\ (j - 1) + 1 = j
      BY <1>2, <1>9, <2>2
    <3>2. t[j - 1] = s[j]
      BY <1>3, <3>1
    <3> QED BY <2>2, <3>1, <3>2
  <2> QED BY <2>1, <2>2
<1>10. \A j \in 1..n : s[j].id # id => j # i
  BY <1>1
<1>11. Lists!Ids(t) = Lists!Ids(s) \ {id}
  <2>1. ASSUME NEW x \in Lists!Ids(t) PROVE x \in Lists!Ids(s) \ {id}
    <3>1. PICK k \in DOMAIN t : x = t[k].id
      BY DEF Lists!Ids
    <3>2. PICK p \in 1..n : t[k] = s[p] /\ p = IF k < i THEN k ELSE k + 1
      BY <1>3, <1>4
    <3>3. p # i
      BY <1>2, <1>3, <3>2
    <3>4. s[p].id # s[i].id
      BY <1>2, <3>3 DEF Once
    <3> QED BY <1>1, <1>2, <3>1, <3>2, <3>4 DEF Lists!Ids
  <2>2. ASSUME NEW x \in Lists!Ids(s), x # id PROVE x \in Lists!Ids(t)
    <3>1. PICK j \in 1..n : x = s[j].id
      BY <1>2 DEF Lists!Ids
    <3>2. PICK p \in 1..n - 1 : t[p] = s[j]
      BY <1>9, <1>10, <2>2, <3>1
    <3> QED BY <1>3, <3>1, <3>2 DEF Lists!Ids
  <2> QED BY <2>1, <2>2
<1>12. ASSUME NEW a, NEW b, a # id, b # id, Ahead(s, a, b) PROVE Ahead(t, a, b)
  <2> DEFINE X == {x \in Lists!Ids(s) : x # id}
  <2>1. a \in X /\ b \in X
    BY <1>12 DEF Ahead, Lists!Ids
  <2>2. ASSUME NEW j \in DOMAIN s, NEW k \in DOMAIN s, s[j].id \in X, s[k].id \in X
        PROVE  \E p, q \in DOMAIN t :
                 /\ t[p].id = s[j].id /\ t[p].uploaded = s[j].uploaded
                 /\ t[q].id = s[k].id /\ t[q].uploaded = s[k].uploaded
                 /\ j < k => p < q
    <3>1. j \in 1..n /\ k \in 1..n /\ j # i /\ k # i
      BY <1>2, <1>10, <2>2
    <3>2. PICK p \in 1..n - 1 : t[p] = s[j] /\ p = IF j < i THEN j ELSE j - 1
      BY <1>9, <3>1
    <3>3. PICK q \in 1..n - 1 : t[q] = s[k] /\ q = IF k < i THEN k ELSE k - 1
      BY <1>9, <3>1
    <3>4. j < k => p < q
      BY <1>2, <3>1, <3>2, <3>3
    <3> QED BY <1>3, <3>2, <3>3, <3>4
  <2> HIDE DEF X
  <2> QED BY <1>8, <1>12, <2>1, <2>2, OrderIsKept
<1> QED BY <1>1, <1>8, <1>11, <1>12 DEF Less

\* t has what s has, and e.
More(s, t, e) ==
  /\ Once(t) /\ Lists!Ids(t) = Lists!Ids(s) \cup {e.id}
  /\ \A a, b : Ahead(s, a, b) => Ahead(t, a, b)

LEMMA EntryAdded ==
  ASSUME NEW s, Once(s), NEW e \in Lists!Entries, e.id \notin Lists!Ids(s)
  PROVE  More(s, Append(s, e), e)
<1>1. PICK n, t : n = Len(s) /\ t = Append(s, e)
  OBVIOUS
<1>2. n \in Nat /\ DOMAIN s = 1..n /\ s \in Seq(Lists!Entries)
  BY <1>1, OnceIs DEF Once
<1>3. /\ t \in Seq(Lists!Entries) /\ DOMAIN t = 1..n + 1
      /\ \A k \in 1..n : t[k] = s[k]
      /\ t[n + 1] = e
  BY <1>1, <1>2
<1>4. \A k \in 1..n + 1 : k \in 1..n \/ k = n + 1
  BY <1>2
<1>5. \A k \in 1..n : s[k].id # e.id
  BY <1>2 DEF Lists!Ids
<1>6. ASSUME NEW j \in DOMAIN t, NEW k \in DOMAIN t, t[j].id = t[k].id PROVE j = k
  BY <1>2, <1>3, <1>4, <1>5, <1>6 DEF Once
<1>7. Once(t)
  BY <1>3, <1>6 DEF Once
<1>8. Lists!Ids(t) = Lists!Ids(s) \cup {e.id}
  <2>1. \A k \in 1..n : k \in 1..n + 1
    BY <1>2
  <2>2. n + 1 \in 1..n + 1
    BY <1>2
  <2> QED BY <1>2, <1>3, <1>4, <2>1, <2>2 DEF Lists!Ids
<1>9. ASSUME NEW a, NEW b, Ahead(s, a, b) PROVE Ahead(t, a, b)
  <2>1. PICK j \in DOMAIN s : \E k \in DOMAIN s : s[j].id = a /\ s[k].id = b /\ Sooner(s, j, k)
    BY <1>9 DEF Ahead
  <2>2. PICK k \in DOMAIN s : s[j].id = a /\ s[k].id = b /\ Sooner(s, j, k)
    BY <2>1
  <2>3. j \in DOMAIN t /\ k \in DOMAIN t /\ t[j] = s[j] /\ t[k] = s[k]
    BY <1>2, <1>3
  <2>4. Sooner(t, j, k)
    BY <2>2, <2>3 DEF Sooner
  <2> QED BY <2>2, <2>3, <2>4 DEF Ahead
<1> QED BY <1>1, <1>7, <1>8, <1>9 DEF More

\* t has the ids of s in their order.
Same(s, t) ==
  /\ Once(t) /\ Lists!Ids(t) = Lists!Ids(s)
  /\ \A a, b : Ahead(s, a, b) => Ahead(t, a, b)

LEMMA EntryReplaced ==
  ASSUME NEW s, Once(s), NEW e \in Lists!Entries,
         \A k \in DOMAIN s : s[k].id = e.id => s[k].uploaded = e.uploaded
  PROVE  Same(s, [k \in DOMAIN s |-> IF s[k].id = e.id THEN e ELSE s[k]])
<1>1. PICK n, t : n = Len(s) /\ t = [k \in DOMAIN s |-> IF s[k].id = e.id THEN e ELSE s[k]]
  OBVIOUS
<1>2. n \in Nat /\ DOMAIN s = 1..n /\ \A k \in DOMAIN s : s[k] \in Lists!Entries
  BY <1>1, OnceIs
<1>3. DOMAIN t = 1..n /\ \A k \in 1..n : t[k] \in Lists!Entries /\ t[k].id = s[k].id
                                           /\ t[k].uploaded = s[k].uploaded
  BY <1>1, <1>2
<1>4. t \in Seq(Lists!Entries)
  <2>1. t \in [1..n -> Lists!Entries]
    BY <1>1, <1>2, <1>3
  <2> QED BY <1>2, <2>1
<1>5. Once(t)
  BY <1>2, <1>3, <1>4 DEF Once
<1>6. Lists!Ids(t) = Lists!Ids(s)
  BY <1>2, <1>3 DEF Lists!Ids
<1>7. ASSUME NEW a, NEW b, Ahead(s, a, b) PROVE Ahead(t, a, b)
  <2>1. PICK j \in DOMAIN s : \E k \in DOMAIN s : s[j].id = a /\ s[k].id = b /\ Sooner(s, j, k)
    BY <1>7 DEF Ahead
  <2>2. PICK k \in DOMAIN s : s[j].id = a /\ s[k].id = b /\ Sooner(s, j, k)
    BY <2>1
  <2>3. Sooner(t, j, k)
    BY <1>2, <1>3, <2>2 DEF Sooner
  <2> QED BY <1>2, <1>3, <2>2, <2>3 DEF Ahead
<1> QED BY <1>1, <1>5, <1>6, <1>7 DEF Same

\* create_bom and delete_bom take an entry out.
LEMMA WithoutIs ==
  ASSUME Once(liIndex), NEW id
  PROVE  Less(liIndex, Lists!Without(id), id)
<1>1. CASE id \in Lists!Ids(liIndex)
  <2>1. \E k \in DOMAIN liIndex : liIndex[k].id = id
    BY <1>1 DEF Lists!Ids
  <2>2. Lists!Place(id) \in DOMAIN liIndex /\ liIndex[Lists!Place(id)].id = id
    BY <2>1 DEF Lists!Place
  <2>3. Lists!Without(id) = Lists!RemoveAt(liIndex, Lists!Place(id))
    BY <1>1 DEF Lists!Without
  <2> QED BY <2>2, <2>3, EntryRemoved
<1>2. CASE id \notin Lists!Ids(liIndex)
  BY <1>2 DEF Less, Lists!Without
<1> QED BY <1>1, <1>2

----------------------------------------------------------------------------
(* list_boms sorts the index *)

\* t has the entries of s, those listed first before the others.
IsSorted(s, t) ==
  /\ t \in Seq(Lists!Entries) /\ Len(t) = Len(s)
  /\ \A k \in DOMAIN s : \E m \in DOMAIN t : t[m] = s[k]
  /\ \A m \in DOMAIN t : \E k \in DOMAIN s : t[m] = s[k]
  /\ \A l, m \in DOMAIN t : l < m => Ahead(s, t[l].id, t[m].id)

\* The entries before the k-th, and the place of the k-th in the list.
Before(s, k) == {j \in DOMAIN s : Sooner(s, j, k)}
Rank(s, k)   == Lists!Cardinality(Before(s, k)) + 1

\* Sooner orders the entries.
LEMMA RankIsNth ==
  ASSUME NEW s, Once(s)
  PROVE  \E R : /\ Orders(R, DOMAIN s)
                /\ \A i, j \in DOMAIN s : <<i, j>> \in R <=> Sooner(s, i, j)
                /\ \A j \in DOMAIN s : Rank(s, j) = Nth(R, DOMAIN s, j)
<1> DEFINE F == DOMAIN s
           R == {p \in F \X F : Sooner(s, p[1], p[2])}
<1>1. \A i, j \in F : <<i, j>> \in R <=> Sooner(s, i, j)
  OBVIOUS
<1>2. \A i \in F : ~Sooner(s, i, i)
  BY SoonerOrders
<1>3. \A i, j, k \in F : Sooner(s, i, j) /\ Sooner(s, j, k) => Sooner(s, i, k)
  BY SoonerOrders
<1>4. \A i, j \in F : i = j \/ Sooner(s, i, j) \/ Sooner(s, j, i)
  BY SoonerOrders
<1>5. \A j \in F : Rank(s, j) = Nth(R, F, j)
  <2> SUFFICES ASSUME NEW j \in F PROVE Lists!Cardinality(Before(s, j)) = Cardinality(Former(R, F, j))
    BY DEF Rank, Nth
  <2>1. Before(s, j) = Former(R, F, j)
    BY <1>1 DEF Before, Former
  <2> QED BY <2>1 DEF Lists!Cardinality, Cardinality
<1>6. Orders(R, F)
  <2> HIDE DEF R
  <2> QED BY <1>1, <1>2, <1>3, <1>4 DEF Orders
<1> HIDE DEF R
<1> QED BY <1>1, <1>5, <1>6

LEMMA RankIs ==
  ASSUME NEW s, Once(s), NEW k \in DOMAIN s
  PROVE  /\ Rank(s, k) \in DOMAIN s
         /\ \A j \in DOMAIN s : Sooner(s, j, k) => Rank(s, j) < Rank(s, k)
<1>1. PICK R : /\ Orders(R, DOMAIN s)
               /\ \A i, j \in DOMAIN s : <<i, j>> \in R <=> Sooner(s, i, j)
               /\ \A j \in DOMAIN s : Rank(s, j) = Nth(R, DOMAIN s, j)
  BY RankIsNth
<1>2. IsFiniteSet(DOMAIN s) /\ DOMAIN s = 1..Cardinality(DOMAIN s)
  BY OnceIs, Upto
<1>3. /\ Nth(R, DOMAIN s, k) \in 1..Cardinality(DOMAIN s)
      /\ \A j \in DOMAIN s : <<j, k>> \in R <=> Nth(R, DOMAIN s, j) < Nth(R, DOMAIN s, k)
  BY <1>1, <1>2, NthIs
<1> QED BY <1>1, <1>2, <1>3

\* Every place is some entry's.
LEMMA RankIsOnto ==
  ASSUME NEW s, Once(s), NEW m \in DOMAIN s
  PROVE  \E k \in DOMAIN s : Rank(s, k) = m
<1>1. PICK R : Orders(R, DOMAIN s) /\ \A j \in DOMAIN s : Rank(s, j) = Nth(R, DOMAIN s, j)
  BY RankIsNth
<1>2. IsFiniteSet(DOMAIN s) /\ DOMAIN s = 1..Cardinality(DOMAIN s)
  BY OnceIs, Upto
<1>3. \E k \in DOMAIN s : Nth(R, DOMAIN s, k) = m
  BY <1>1, <1>2, NthIsOnto
<1> QED BY <1>1, <1>3

LEMMA ListedIs ==
  ASSUME Once(liIndex)
  PROVE  IsSorted(liIndex, Lists!Listed)
<1>1. PICK s, t : s = liIndex /\ t = Lists!Listed
  OBVIOUS
<1>2. Once(s)
  BY <1>1
<1>3. t = [m \in DOMAIN s |-> s[CHOOSE k \in DOMAIN s : Rank(s, k) = m]]
  <2>1. Lists!Listed = [m \in DOMAIN liIndex |-> liIndex[CHOOSE k \in DOMAIN liIndex : Rank(liIndex, k) = m]]
    BY DEF Lists!Listed, Rank, Before, Sooner
  <2> QED BY <1>1, <2>1
<1>4. PICK n : n = Len(s) /\ n \in Nat /\ DOMAIN s = 1..n
  BY <1>2, OnceIs
<1>5. \A m \in 1..n : \E k \in 1..n : Rank(s, k) = m /\ t[m] = s[k]
  <2> SUFFICES ASSUME NEW m \in 1..n PROVE \E k \in 1..n : Rank(s, k) = m /\ t[m] = s[k]
    OBVIOUS
  <2>1. \E k \in 1..n : Rank(s, k) = m
    BY <1>2, <1>4, RankIsOnto
  <2>2. PICK k : k = CHOOSE j \in DOMAIN s : Rank(s, j) = m
    OBVIOUS
  <2>3. k \in 1..n /\ Rank(s, k) = m
    BY <1>4, <2>1, <2>2
  <2>4. t[m] = s[k]
    BY <1>3, <1>4, <2>2
  <2> QED BY <2>3, <2>4
<1>6. ASSUME NEW j \in 1..n, NEW k \in 1..n, Rank(s, j) < Rank(s, k) PROVE Sooner(s, j, k)
  <2>1. Rank(s, j) \in Nat /\ Rank(s, k) \in Nat
    BY <1>2, <1>4, RankIs
  <2>2. j # k /\ ~Sooner(s, k, j)
    BY <1>2, <1>4, <1>6, <2>1, RankIs
  <2> QED BY <1>2, <1>4, <2>2, SoonerOrders
<1>7. \A k \in 1..n : Rank(s, k) \in 1..n /\ t[Rank(s, k)] = s[k]
  <2> SUFFICES ASSUME NEW k \in 1..n PROVE Rank(s, k) \in 1..n /\ t[Rank(s, k)] = s[k]
    OBVIOUS
  <2>1. Rank(s, k) \in 1..n
    BY <1>2, <1>4, RankIs
  <2>2. PICK j \in 1..n : Rank(s, j) = Rank(s, k) /\ t[Rank(s, k)] = s[j]
    BY <1>5, <2>1
  <2>3. j = k
    BY <1>2, <1>4, <2>1, <2>2, RankIs, SoonerOrders
  <2> QED BY <2>1, <2>2, <2>3
<1>8. DOMAIN t = 1..n
  BY <1>3, <1>4
<1>9. t \in Seq(Lists!Entries) /\ Len(t) = n
  <2>1. \A m \in 1..n : t[m] \in Lists!Entries
    BY <1>2, <1>4, <1>5, OnceIs
  <2>2. t \in [1..n -> Lists!Entries]
    BY <1>3, <1>4, <2>1
  <2> QED BY <1>4, <2>2
<1>10. ASSUME NEW l \in DOMAIN t, NEW m \in DOMAIN t, l < m PROVE Ahead(s, t[l].id, t[m].id)
  <2>1. PICK j \in 1..n : Rank(s, j) = l /\ t[l] = s[j]
    BY <1>5, <1>8
  <2>2. PICK k \in 1..n : Rank(s, k) = m /\ t[m] = s[k]
    BY <1>5, <1>8
  <2>3. Sooner(s, j, k)
    BY <1>6, <1>10, <2>1, <2>2
  <2> QED BY <1>4, <2>1, <2>2, <2>3 DEF Ahead
<1> QED BY <1>1, <1>4, <1>5, <1>7, <1>8, <1>9, <1>10 DEF IsSorted

----------------------------------------------------------------------------
(* What a reader has been shown *)

Among(x, s) == \E k \in DOMAIN s : s[k] = x
NoTwice(s)  == \A j, k \in DOMAIN s : s[j] = s[k] => j = k

\* A walk through the index s has come to token: it has shown just the BOMs up
\* to there, of those that are in s and have been since it began.
OnTheWay(s, token, shown, steady) ==
  /\ token = None => shown = <<>>
  /\ token # None => Among(token, shown)
  /\ token \in Lists!Ids(s) => \A b \in Lists!Ids(s) :
       /\ Among(b, shown) => b = token \/ Ahead(s, b, token)
       /\ b \in steady /\ ~Among(b, shown) => Ahead(s, token, b)

\* The flagged list has the summaries todo still to look at.
Awaited(b, todo) == \E k \in DOMAIN todo : todo[k].id = b /\ todo[k].risk = "flagged"

Looking(stored, todo, shown, steady) ==
  /\ Once(todo) /\ NoTwice(shown)
  /\ \A k \in DOMAIN todo : ~Among(todo[k].id, shown)
  /\ \A b \in steady : stored[b] = "flagged" /\ (Among(b, shown) \/ Awaited(b, todo))

LEMMA JoinHas ==
  ASSUME NEW S, NEW a \in Seq(S), NEW b \in Seq(S), NEW c, c = a \o b
  PROVE  /\ c \in Seq(S)
         /\ \A x : Among(x, c) <=> Among(x, a) \/ Among(x, b)
         /\ NoTwice(a) /\ NoTwice(b) /\ (\A x : ~(Among(x, a) /\ Among(x, b))) => NoTwice(c)
<1>1. /\ c \in Seq(S) /\ Len(c) = Len(a) + Len(b)
      /\ \A k \in 1..Len(c) : c[k] = IF k <= Len(a) THEN a[k] ELSE b[k - Len(a)]
  BY JoinIs DEF IsJoin
<1>2. /\ Len(a) \in Nat /\ Len(b) \in Nat /\ DOMAIN a = 1..Len(a) /\ DOMAIN b = 1..Len(b)
      /\ DOMAIN c = 1..Len(a) + Len(b)
  BY <1>1
<1>3. ASSUME NEW x, Among(x, a) PROVE Among(x, c)
  <2>1. PICK k \in DOMAIN a : a[k] = x
    BY <1>3 DEF Among
  <2>2. k \in DOMAIN c /\ c[k] = x
    BY <1>1, <1>2, <2>1
  <2> QED BY <2>2 DEF Among
<1>4. ASSUME NEW x, Among(x, b) PROVE Among(x, c)
  <2>1. PICK k \in DOMAIN b : b[k] = x
    BY <1>4 DEF Among
  <2>2. Len(a) + k \in DOMAIN c /\ ~(Len(a) + k <= Len(a)) /\ Len(a) + k - Len(a) = k
    BY <1>2, <2>1
  <2>3. c[Len(a) + k] = x
    BY <1>1, <1>2, <2>1, <2>2
  <2> QED BY <2>2, <2>3 DEF Among
<1>5. ASSUME NEW k \in DOMAIN c
      PROVE  \/ k \in DOMAIN a /\ c[k] = a[k]
             \/ k - Len(a) \in DOMAIN b /\ c[k] = b[k - Len(a)] /\ k \notin DOMAIN a
  BY <1>1, <1>2
<1>6. ASSUME NEW x, Among(x, c) PROVE Among(x, a) \/ Among(x, b)
  BY <1>5, <1>6 DEF Among
<1>7. ASSUME NoTwice(a), NoTwice(b), \A x : ~(Among(x, a) /\ Among(x, b)) PROVE NoTwice(c)
  <2> SUFFICES ASSUME NEW j \in DOMAIN c, NEW k \in DOMAIN c, c[j] = c[k] PROVE j = k
    BY DEF NoTwice
  <2>1. CASE j \in DOMAIN a /\ k \in DOMAIN a
    BY <1>5, <1>7, <2>1 DEF NoTwice
  <2>2. CASE j \notin DOMAIN a /\ k \notin DOMAIN a
    <3>1. /\ j - Len(a) \in DOMAIN b /\ c[j] = b[j - Len(a)]
          /\ k - Len(a) \in DOMAIN b /\ c[k] = b[k - Len(a)]
      BY <1>5, <2>2
    <3>2. j - Len(a) = k - Len(a)
      BY <1>7, <3>1 DEF NoTwice
    <3> QED BY <1>2, <3>2
  <2>3. CASE j \in DOMAIN a /\ k \notin DOMAIN a
    <3>1. Among(c[j], a) /\ Among(c[j], b)
      BY <1>5, <2>3 DEF Among
    <3> QED BY <1>7, <3>1
  <2>4. CASE j \notin DOMAIN a /\ k \in DOMAIN a
    <3>1. Among(c[j], a) /\ Among(c[j], b)
      BY <1>5, <2>4 DEF Among
    <3> QED BY <1>7, <3>1
  <2> QED BY <2>1, <2>2, <2>3, <2>4
<1> QED BY <1>1, <1>3, <1>4, <1>6, <1>7

\* A page of the list t: what is after st, up to end.
IsPage(ids, t, st, end) ==
  /\ ids \in Seq(ListIds) /\ DOMAIN ids = 1..end - st
  /\ \A k \in 1..end - st : ids[k] = t[st + k].id

LEMMA FunctionIsSequence ==
  ASSUME NEW n \in Nat, NEW S, NEW f \in [1..n -> S]
  PROVE  f \in Seq(S) /\ DOMAIN f = 1..n
OBVIOUS

LEMMA PageIs ==
  ASSUME NEW t \in Seq(Lists!Entries), NEW st \in Nat, NEW end \in Nat, st <= end, end <= Len(t),
         NEW page, page = SubSeq(t, st + 1, end),
         NEW ids, ids = [k \in DOMAIN page |-> page[k].id]
  PROVE  /\ page \in Seq(Lists!Entries) /\ Len(page) = end - st
         /\ end > st => page[Len(page)] = t[end]
         /\ IsPage(ids, t, st, end)
<1>1. Len(t) \in Nat /\ end - st \in Nat
  OBVIOUS
<1>2. /\ page \in Seq(Lists!Entries) /\ Len(page) = end - st /\ DOMAIN page = 1..end - st
      /\ \A k \in 1..end - st : page[k] = t[st + k]
  <2>1. st + 1 \in Nat \ {0} /\ st + 1 <= end + 1
    OBVIOUS
  <2>2. IsSlice(page, t, st + 1, end, Lists!Entries)
    BY <2>1, SliceIs
  <2>3. end + 1 - (st + 1) = end - st /\ \A k \in 1..end - st : st + 1 + k - 1 = st + k
    OBVIOUS
  <2> QED BY <2>2, <2>3 DEF IsSlice
<1>3. \A k \in 1..end - st : page[k] \in Lists!Entries /\ page[k].id \in ListIds
  BY <1>2, EntryHas
<1>4. ids \in [1..end - st -> ListIds]
  BY <1>2, <1>3
<1>5. ids \in Seq(ListIds) /\ DOMAIN ids = 1..end - st
  BY <1>1, <1>4, FunctionIsSequence
<1>6. \A k \in 1..end - st : ids[k] = t[st + k].id
  BY <1>2
<1>7. end > st => page[Len(page)] = t[end]
  <2> SUFFICES ASSUME end > st PROVE page[Len(page)] = t[end]
    OBVIOUS
  <2>1. end - st \in 1..end - st /\ st + (end - st) = end
    BY <1>1
  <2> QED BY <1>2, <2>1
<1> QED BY <1>2, <1>5, <1>6, <1>7 DEF IsPage

LEMMA PageShows ==
  ASSUME NEW t, NEW st \in Nat, NEW end \in Nat, NEW ids, IsPage(ids, t, st, end), NEW x
  PROVE  Among(x, ids) <=> \E m \in st + 1..end : t[m].id = x
<1>1. ASSUME Among(x, ids) PROVE \E m \in st + 1..end : t[m].id = x
  <2>1. PICK k \in 1..end - st : ids[k] = x
    BY <1>1 DEF Among, IsPage
  <2>2. st + k \in st + 1..end
    OBVIOUS
  <2> QED BY <2>1, <2>2 DEF IsPage
<1>2. ASSUME NEW m \in st + 1..end, t[m].id = x PROVE Among(x, ids)
  <2>1. m - st \in 1..end - st /\ st + (m - st) = m
    OBVIOUS
  <2> QED BY <1>2, <2>1 DEF Among, IsPage
<1> QED BY <1>1, <1>2

\* The next page shows what comes after the token and nothing else.
LEMMA NextPage ==
  ASSUME NEW s, Once(s), NEW t, IsSorted(s, t), NEW token, NEW shown \in Seq(ListIds), NEW steady,
         steady \subseteq Lists!Ids(s), NoTwice(shown), OnTheWay(s, token, shown, steady),
         NEW st \in Nat, NEW end \in Nat, st <= end, end <= Len(t), NEW ids, IsPage(ids, t, st, end),
         \/ st = 0 /\ token = None
         \/ st > 0 /\ token # None /\ t[st].id = token
  PROVE  /\ NoTwice(shown \o ids) /\ shown \o ids \in Seq(ListIds)
         /\ end = Len(t) => \A b \in steady : Among(b, shown \o ids)
         /\ end > st => t[end].id \in ListIds /\ OnTheWay(s, t[end].id, shown \o ids, steady)
<1>1. PICK n : n = Len(t) /\ n \in Nat /\ DOMAIN t = 1..n /\ DOMAIN s = 1..n
  BY OnceIs DEF IsSorted
<1>2. \A m \in 1..n : t[m] \in Lists!Entries /\ t[m].id \in ListIds /\ t[m].id \in Lists!Ids(s)
  <2> SUFFICES ASSUME NEW m \in 1..n
               PROVE  t[m] \in Lists!Entries /\ t[m].id \in ListIds /\ t[m].id \in Lists!Ids(s)
    OBVIOUS
  <2>1. PICK k \in DOMAIN s : t[m] = s[k]
    BY <1>1 DEF IsSorted
  <2> QED BY <2>1, OnceIs, EntryHas DEF Lists!Ids
<1>3. \A b \in Lists!Ids(s) : \E m \in 1..n : t[m].id = b
  <2> SUFFICES ASSUME NEW b \in Lists!Ids(s) PROVE \E m \in 1..n : t[m].id = b
    OBVIOUS
  <2>1. PICK k \in DOMAIN s : s[k].id = b
    BY DEF Lists!Ids
  <2>2. PICK m \in 1..n : t[m] = s[k]
    BY <1>1 DEF IsSorted
  <2> QED BY <2>1, <2>2
<1>4. \A l, m \in 1..n : l < m => Ahead(s, t[l].id, t[m].id)
  BY <1>1 DEF IsSorted
<1>5. PICK c : c = shown \o ids
  OBVIOUS
<1>6. ids \in Seq(ListIds)
  BY DEF IsPage
<1>7. \A x : Among(x, ids) <=> \E m \in st + 1..end : t[m].id = x
  BY PageShows
\* Of what is there, the walk has shown the first st.
<1>8. ASSUME NEW m \in 1..n
      PROVE  /\ Among(t[m].id, shown) => m <= st
             /\ m <= st => Among(t[m].id, shown) \/ t[m].id \notin steady
  <2>1. CASE st = 0 /\ token = None
    <3>1. shown = <<>> /\ ~(m <= st)
      BY <1>1, <2>1 DEF OnTheWay
    <3> QED BY <3>1 DEF Among
  <2>2. CASE st > 0 /\ token # None /\ t[st].id = token
    <3>1. st \in 1..n /\ token \in Lists!Ids(s)
      BY <1>1, <1>2, <2>2
    <3>2. \A b \in Lists!Ids(s) :
            /\ Among(b, shown) => b = token \/ Ahead(s, b, token)
            /\ b \in steady /\ ~Among(b, shown) => Ahead(s, token, b)
      BY <3>1 DEF OnTheWay
    <3>3. st < m => Ahead(s, token, t[m].id)
      BY <1>4, <2>2, <3>1
    <3>4. m < st => Ahead(s, t[m].id, token)
      BY <1>4, <2>2, <3>1
    <3>5. Among(t[m].id, shown) => m <= st
      <4> SUFFICES ASSUME Among(t[m].id, shown), ~(m <= st) PROVE FALSE
        OBVIOUS
      <4>1. Ahead(s, token, t[m].id)
        BY <1>1, <3>1, <3>3
      <4>2. t[m].id = token \/ Ahead(s, t[m].id, token)
        BY <1>2, <3>2
      <4> QED BY <4>1, <4>2, AheadOrders
    <3>6. ASSUME m <= st, t[m].id \in steady, ~Among(t[m].id, shown) PROVE FALSE
      <4>1. Ahead(s, token, t[m].id)
        BY <1>2, <3>2, <3>6
      <4>2. m < st \/ t[m].id = token
        BY <1>1, <2>2, <3>1, <3>6
      <4> QED BY <3>4, <4>1, <4>2, AheadOrders
    <3> QED BY <3>5, <3>6
  <2> QED BY <2>1, <2>2
<1>9. NoTwice(ids)
  <2> SUFFICES ASSUME NEW j \in DOMAIN ids, NEW k \in DOMAIN ids, ids[j] = ids[k], j < k PROVE FALSE
    <3>1. DOMAIN ids \subseteq Nat
      BY <1>6
    <3> QED BY <3>1 DEF NoTwice
  <2>1. st + j \in 1..n /\ st + k \in 1..n /\ st + j < st + k
    <3>1. j \in 1..end - st /\ k \in 1..end - st /\ end <= n
      BY <1>1 DEF IsPage
    <3>2. n \in Nat
      BY <1>1
    <3> QED BY <3>1, <3>2
  <2>2. t[st + j].id = t[st + k].id
    BY DEF IsPage
  <2> QED BY <1>4, <2>1, <2>2, AheadOrders
<1>10. \A x : ~(Among(x, shown) /\ Among(x, ids))
  <2> SUFFICES ASSUME NEW x, Among(x, shown), Among(x, ids) PROVE FALSE
    OBVIOUS
  <2>1. PICK m \in st + 1..end : t[m].id = x
    BY <1>7
  <2>2. m \in 1..n /\ ~(m <= st)
    BY <1>1
  <2> QED BY <1>8, <2>1, <2>2
<1>11. NoTwice(c) /\ c \in Seq(ListIds) /\ \A x : Among(x, c) <=> Among(x, shown) \/ Among(x, ids)
  BY <1>5, <1>6, <1>9, <1>10, JoinHas
<1>12. ASSUME NEW m \in 1..n
       PROVE  /\ Among(t[m].id, c) => m <= end
              /\ m <= end => Among(t[m].id, c) \/ t[m].id \notin steady
  <2>1. ASSUME Among(t[m].id, ids) PROVE m <= end
    <3>1. PICK l \in st + 1..end : t[l].id = t[m].id
      BY <1>7, <2>1
    <3>2. l \in 1..n
      BY <1>1
    <3>3. ~(l < m)
      BY <1>4, <3>1, <3>2, AheadOrders
    <3> QED BY <1>1, <3>2, <3>3
  <2>2. ASSUME m <= end, ~(m <= st) PROVE Among(t[m].id, ids)
    <3>1. m \in st + 1..end
      BY <1>1, <2>2
    <3> QED BY <1>7, <3>1
  <2>3. m <= st => m <= end
    BY <1>1
  <2> QED BY <1>8, <1>11, <2>1, <2>2, <2>3
<1>13. ASSUME end = Len(t), NEW b \in steady PROVE Among(b, c)
  <2>1. PICK m \in 1..n : t[m].id = b
    BY <1>3
  <2>2. m <= end
    BY <1>1, <1>13
  <2> QED BY <1>12, <2>1, <2>2
<1>14. ASSUME end > st PROVE t[end].id \in ListIds /\ OnTheWay(s, t[end].id, c, steady)
  <2>1. end \in 1..n /\ end \in st + 1..end
    BY <1>1, <1>14
  <2>2. PICK last : last = t[end].id /\ last \in ListIds
    BY <1>2, <2>1
  <2>3. Among(last, c)
    BY <1>7, <1>11, <2>1, <2>2
  <2>4. last # None
    BY <2>2, ListAssumptions DEF Lists!Assumptions
  <2>5. ASSUME NEW b \in Lists!Ids(s)
        PROVE  /\ Among(b, c) => b = last \/ Ahead(s, b, last)
               /\ b \in steady /\ ~Among(b, c) => Ahead(s, last, b)
    <3>1. PICK m \in 1..n : t[m].id = b
      BY <1>3
    <3>2. m = end \/ m < end \/ end < m
      BY <1>1, <2>1
    <3>3. m < end => Ahead(s, b, last)
      BY <1>4, <2>1, <2>2, <3>1
    <3>4. end < m => Ahead(s, last, b)
      BY <1>4, <2>1, <2>2, <3>1
    <3>5. Among(b, c) => ~(end < m)
      BY <1>1, <1>12, <3>1
    <3>6. b \in steady /\ ~Among(b, c) => ~(m <= end)
      BY <1>12, <3>1
    <3>7. m = end => b = last
      BY <2>2, <3>1
    <3> QED BY <1>1, <3>2, <3>3, <3>4, <3>5, <3>6, <3>7
  <2> QED BY <2>2, <2>3, <2>4, <2>5 DEF OnTheWay
<1> QED BY <1>5, <1>11, <1>13, <1>14

----------------------------------------------------------------------------
(* The readers *)

ListTypes ==
  /\ Once(liIndex) /\ liStored \in [ListIds -> {"clear", "flagged", None}]
  /\ liWriting \in Lists!Entries \cup {None} /\ liCreating \in BOOLEAN
  /\ liToken \in ListIds \cup {None} /\ liShown \in Seq(ListIds)
  /\ liTodo \in Seq(Lists!Entries) /\ liAgain \in BOOLEAN

\* The entry that is written for an edited BOM has the time of the one there is.
Editing ==
  liWriting # None /\ ~liCreating =>
    \E k \in DOMAIN liIndex : liIndex[k].id = liWriting.id /\ liIndex[k].uploaded = liWriting.uploaded

Reading ==
  /\ liReader \in {"pages", "flagged"} => liSteady \subseteq Lists!Ids(liIndex)
  /\ liReader = "pages" /\ ~liAgain =>
       NoTwice(liShown) /\ OnTheWay(liIndex, liToken, liShown, liSteady)
  /\ liReader = "flagged" => Looking(liStored, liTodo, liShown, liSteady)
  /\ liReader = "listed" \/ (liReader = "walked" /\ ~liAgain) =>
       NoTwice(liShown) /\ \A b \in liSteady : Among(b, liShown)

ListsInv == ListTypes /\ Editing /\ Reading

LEMMA InitLists == Lists!Init => ListsInv
<1> SUFFICES ASSUME Lists!Init PROVE ListsInv
  OBVIOUS
<1>1. liIndex = <<>> /\ Once(liIndex)
  BY DEF Lists!Init, Once
<1>2. liReader = "idle" /\ liWriting = None /\ liToken = None /\ liShown = <<>> /\ liTodo = <<>>
      /\ liCreating = FALSE /\ liAgain = FALSE /\ liStored = [b \in ListIds |-> None]
  BY DEF Lists!Init
<1>3. <<>> \in Seq(ListIds) /\ <<>> \in Seq(Lists!Entries)
  OBVIOUS
<1>4. ListTypes
  BY <1>1, <1>2, <1>3 DEF ListTypes
<1>5. Editing /\ Reading
  BY <1>2 DEF Editing, Reading
<1> QED BY <1>4, <1>5 DEF ListsInv

LEMMA NoneIsNoId ==
  ASSUME NEW s, Once(s)
  PROVE  Lists!Ids(s) \subseteq ListIds /\ None \notin Lists!Ids(s)
BY OnceIs, EntryHas, ListAssumptions DEF Lists!Ids, Lists!Assumptions

\* Steps of writers: a reader's BOMs stay where they were.
LEMMA ReadingGoesOn ==
  ASSUME ListsInv, Once(liIndex'), UNCHANGED <<liReader, liToken, liTodo, liShown>>,
         liSteady' \subseteq liSteady, liAgain => liAgain',
         liReader \in {"pages", "flagged"} => liSteady' \subseteq Lists!Ids(liIndex'),
         liReader = "pages" /\ ~liAgain' =>
           \A a \in Lists!Ids(liIndex') : Among(a, liShown) \/ a \in liSteady' =>
             /\ a \in Lists!Ids(liIndex)
             /\ \A b \in Lists!Ids(liIndex') :
                  (Among(b, liShown) \/ b \in liSteady') /\ Ahead(liIndex, a, b) => Ahead(liIndex', a, b),
         liReader = "flagged" => \A b \in liSteady' : liStored'[b] \in {liStored[b], "flagged"}
  PROVE  Reading'
<1> USE DEF ListsInv
<1>1. ASSUME liReader = "pages", ~liAgain'
      PROVE  NoTwice(liShown) /\ OnTheWay(liIndex', liToken, liShown, liSteady')
  <2>1. ~liAgain
    BY <1>1
  <2>2. NoTwice(liShown) /\ OnTheWay(liIndex, liToken, liShown, liSteady)
    BY <1>1, <2>1 DEF Reading
  <2>3. \A a \in Lists!Ids(liIndex') : Among(a, liShown) \/ a \in liSteady' =>
          /\ a \in Lists!Ids(liIndex)
          /\ \A b \in Lists!Ids(liIndex') :
               (Among(b, liShown) \/ b \in liSteady') /\ Ahead(liIndex, a, b) => Ahead(liIndex', a, b)
    BY <1>1
  <2>4. ASSUME liToken \in Lists!Ids(liIndex') PROVE liToken \in Lists!Ids(liIndex) /\ Among(liToken, liShown)
    <3>1. liToken # None
      BY <2>4, NoneIsNoId
    <3>2. Among(liToken, liShown)
      BY <2>2, <3>1 DEF OnTheWay
    <3> QED BY <2>3, <2>4, <3>2
  <2>5. ASSUME liToken \in Lists!Ids(liIndex'), NEW b \in Lists!Ids(liIndex')
        PROVE  /\ Among(b, liShown) => b = liToken \/ Ahead(liIndex', b, liToken)
               /\ b \in liSteady' /\ ~Among(b, liShown) => Ahead(liIndex', liToken, b)
    <3>1. \A c \in Lists!Ids(liIndex) :
            /\ Among(c, liShown) => c = liToken \/ Ahead(liIndex, c, liToken)
            /\ c \in liSteady /\ ~Among(c, liShown) => Ahead(liIndex, liToken, c)
      BY <2>2, <2>4, <2>5 DEF OnTheWay
    <3>2. Among(b, liShown) \/ b \in liSteady' =>
            /\ b \in Lists!Ids(liIndex)
            /\ Ahead(liIndex, b, liToken) => Ahead(liIndex', b, liToken)
            /\ Ahead(liIndex, liToken, b) => Ahead(liIndex', liToken, b)
      BY <2>3, <2>4, <2>5
    <3> QED BY <3>1, <3>2
  <2> QED BY <2>2, <2>5 DEF OnTheWay
<1>2. ASSUME liReader = "flagged" PROVE Looking(liStored', liTodo, liShown, liSteady')
  <2>1. Looking(liStored, liTodo, liShown, liSteady)
    BY <1>2 DEF Reading
  <2> QED BY <1>2, <2>1 DEF Looking
<1>3. ASSUME liReader = "listed" \/ (liReader = "walked" /\ ~liAgain')
      PROVE  NoTwice(liShown) /\ \A b \in liSteady' : Among(b, liShown)
  BY <1>3 DEF Reading
<1> QED BY <1>1, <1>2, <1>3 DEF Reading


LEMMA StoredStays ==
  ASSUME ListsInv, NEW b \in ListIds, NEW r \in Lists!Marks, Lists!Store(b, r),
         UNCHANGED <<liIndex, liReader, liToken, liTodo, liShown, liAgain>>
  PROVE  /\ liStored' \in [ListIds -> {"clear", "flagged", None}]
         /\ Reading'
<1>1. liStored \in [ListIds -> {"clear", "flagged", None}] /\ Once(liIndex)
  BY DEF ListsInv, ListTypes
<1>2. liStored' = [liStored EXCEPT ![b] = r] /\ r \in {"clear", "flagged"}
  BY DEF Lists!Store, Lists!Marks
<1>3. liSteady' = IF liReader = "flagged" /\ r = "clear" THEN liSteady \ {b} ELSE liSteady
  BY DEF Lists!Store
<1>4. liStored' \in [ListIds -> {"clear", "flagged", None}]
  BY <1>1, <1>2
<1>5. liSteady' \subseteq liSteady /\ Once(liIndex') /\ (liAgain => liAgain')
  BY <1>1, <1>3
<1>6. liReader \in {"pages", "flagged"} => liSteady' \subseteq Lists!Ids(liIndex')
  BY <1>3 DEF ListsInv, Reading
<1>7. ASSUME liReader = "flagged", NEW a \in liSteady' PROVE liStored'[a] \in {liStored[a], "flagged"}
  <2>1. a \in ListIds
    BY <1>1, <1>5, <1>6, <1>7, NoneIsNoId
  <2>2. a = b => r = "flagged"
    BY <1>2, <1>3, <1>7
  <2>3. liStored'[a] = IF a = b THEN r ELSE liStored[a]
    BY <1>1, <1>2, <2>1
  <2> QED BY <2>2, <2>3
<1>8. liIndex' = liIndex
  OBVIOUS
<1>9. Reading'
  BY <1>5, <1>6, <1>7, <1>8, ReadingGoesOn
<1> QED BY <1>4, <1>9

LEMMA CreateStep == ASSUME ListsInv, Lists!Create PROVE ListsInv'
<1>1. PICK b \in ListIds : \E t \in Seconds, r \in Lists!Marks :
        /\ Lists!Store(b, r)
        /\ liWriting' = [id |-> b, uploaded |-> t, risk |-> r] /\ liCreating' = TRUE
  BY DEF Lists!Create
<1>2. PICK t \in Seconds : \E r \in Lists!Marks :
        /\ Lists!Store(b, r)
        /\ liWriting' = [id |-> b, uploaded |-> t, risk |-> r] /\ liCreating' = TRUE
  BY <1>1
<1>3. PICK r \in Lists!Marks :
        /\ Lists!Store(b, r)
        /\ liWriting' = [id |-> b, uploaded |-> t, risk |-> r] /\ liCreating' = TRUE
  BY <1>2
<1>4. UNCHANGED <<liIndex, liReader, liToken, liTodo, liShown, liAgain>>
  BY DEF Lists!Create, Lists!Write
<1>5. liStored' \in [ListIds -> {"clear", "flagged", None}] /\ Reading'
  BY <1>3, <1>4, StoredStays
<1>6. liWriting' \in Lists!Entries
  BY <1>3 DEF Lists!Entries
<1> QED BY <1>3, <1>4, <1>5, <1>6 DEF ListsInv, ListTypes, Editing

LEMMA EntryOf ==
  ASSUME Once(liIndex), NEW b \in Lists!Ids(liIndex)
  PROVE  /\ Lists!Place(b) \in DOMAIN liIndex /\ Lists!Entry(b) = liIndex[Lists!Place(b)]
         /\ Lists!Entry(b).id = b /\ Lists!Entry(b) \in Lists!Entries /\ b \in ListIds
<1>1. \E k \in DOMAIN liIndex : liIndex[k].id = b
  BY DEF Lists!Ids
<1>2. Lists!Place(b) \in DOMAIN liIndex /\ liIndex[Lists!Place(b)].id = b
  BY <1>1 DEF Lists!Place
<1> QED BY <1>2, OnceIs, EntryHas DEF Lists!Entry

LEMMA EditStep == ASSUME ListsInv, Lists!Edit PROVE ListsInv'
<1>1. PICK b \in Lists!Ids(liIndex) : \E r \in Lists!Marks :
        /\ Lists!Store(b, r)
        /\ liWriting' = [Lists!Entry(b) EXCEPT !.risk = r] /\ liCreating' = FALSE
  BY DEF Lists!Edit
<1>2. PICK r \in Lists!Marks :
        /\ Lists!Store(b, r)
        /\ liWriting' = [Lists!Entry(b) EXCEPT !.risk = r] /\ liCreating' = FALSE
  BY <1>1
<1>3. UNCHANGED <<liIndex, liReader, liToken, liTodo, liShown, liAgain>>
  BY DEF Lists!Edit, Lists!Write
<1>4. PICK e, k : /\ e = Lists!Entry(b) /\ k = Lists!Place(b) /\ k \in DOMAIN liIndex /\ e = liIndex[k]
                  /\ e.id = b /\ e \in Lists!Entries /\ b \in ListIds
  BY EntryOf DEF ListsInv, ListTypes
<1>5. liStored' \in [ListIds -> {"clear", "flagged", None}] /\ Reading'
  BY <1>2, <1>3, <1>4, StoredStays
<1>6. liWriting' = [e EXCEPT !.risk = r]
  BY <1>2, <1>4
<1>7. liWriting' \in Lists!Entries /\ liWriting'.id = e.id /\ liWriting'.uploaded = e.uploaded
  BY <1>4, <1>6 DEF Lists!Entries
<1>8. Editing'
  BY <1>3, <1>4, <1>7 DEF Editing
<1> QED BY <1>2, <1>3, <1>5, <1>7, <1>8 DEF ListsInv, ListTypes

LEMMA WriteNewStep == ASSUME ListsInv, Lists!WriteNew PROVE ListsInv'
<1>1. PICK e, s : e = liWriting /\ s = Lists!Without(e.id)
  OBVIOUS
<1>2. e \in Lists!Entries /\ Once(liIndex) /\ e.id \in ListIds
  BY <1>1, EntryHas DEF Lists!WriteNew, ListsInv, ListTypes
<1>3. /\ liIndex' = Append(s, e) /\ liWriting' = None /\ liCreating' = FALSE
      /\ liSteady' = (IF liReader = "pages" THEN liSteady \ {e.id} ELSE liSteady)
      /\ liAgain' = (liAgain \/ e.id \in Lists!ToSet(liShown))
      /\ UNCHANGED <<liStored, liReader, liToken, liTodo, liShown>>
  BY <1>1 DEF Lists!WriteNew
<1>4. Less(liIndex, s, e.id)
  BY <1>1, <1>2, WithoutIs
<1>5. Once(s) /\ e.id \notin Lists!Ids(s)
  BY <1>4 DEF Less
<1>6. More(s, liIndex', e)
  BY <1>2, <1>3, <1>5, EntryAdded
<1>7. Once(liIndex') /\ Lists!Ids(liIndex') = Lists!Ids(liIndex) \cup {e.id}
  BY <1>4, <1>6 DEF Less, More
<1>8. \A a, b : a # e.id /\ b # e.id /\ Ahead(liIndex, a, b) => Ahead(liIndex', a, b)
  BY <1>4, <1>6 DEF Less, More
<1>9. liSteady' \subseteq liSteady /\ (liAgain => liAgain') /\ liAgain' \in BOOLEAN
  BY <1>3
<1>10. liReader \in {"pages", "flagged"} => liSteady' \subseteq Lists!Ids(liIndex')
  BY <1>7, <1>9 DEF ListsInv, Reading
<1>11. ASSUME liReader = "pages", ~liAgain'
       PROVE  \A a \in Lists!Ids(liIndex') : Among(a, liShown) \/ a \in liSteady' =>
                /\ a \in Lists!Ids(liIndex)
                /\ \A b \in Lists!Ids(liIndex') :
                     (Among(b, liShown) \/ b \in liSteady') /\ Ahead(liIndex, a, b) => Ahead(liIndex', a, b)
  <2>1. e.id \notin Lists!ToSet(liShown)
    BY <1>3, <1>11
  <2>2. ~Among(e.id, liShown)
    BY <2>1 DEF Among, Lists!ToSet
  <2>3. e.id \notin liSteady'
    BY <1>3, <1>11
  <2> QED BY <1>7, <1>8, <2>2, <2>3
<1>12. Reading'
  BY <1>3, <1>7, <1>9, <1>10, <1>11, ReadingGoesOn
<1> QED BY <1>3, <1>7, <1>9, <1>12 DEF ListsInv, ListTypes, Editing

LEMMA WriteEditedStep == ASSUME ListsInv, Lists!WriteEdited PROVE ListsInv'
<1>1. PICK e : e = liWriting
  OBVIOUS
<1>2. e # None /\ ~liCreating /\ e \in Lists!Entries /\ Once(liIndex)
  BY <1>1 DEF Lists!WriteEdited, ListsInv, ListTypes
<1>3. PICK k \in DOMAIN liIndex : liIndex[k].id = e.id /\ liIndex[k].uploaded = e.uploaded
  BY <1>1, <1>2 DEF ListsInv, Editing
<1>4. \A j \in DOMAIN liIndex : liIndex[j].id = e.id => liIndex[j].uploaded = e.uploaded
  BY <1>2, <1>3 DEF Once
<1>5. liIndex' = [j \in DOMAIN liIndex |-> IF liIndex[j].id = e.id THEN e ELSE liIndex[j]]
  BY <1>1 DEF Lists!WriteEdited, Lists!InPlace
<1>6. Same(liIndex, liIndex')
  BY <1>2, <1>4, <1>5, EntryReplaced
<1>7. /\ liWriting' = None
      /\ UNCHANGED <<liStored, liCreating, liReader, liToken, liTodo, liShown, liSteady, liAgain>>
  BY DEF Lists!WriteEdited
<1>8. liReader \in {"pages", "flagged"} => liSteady' \subseteq Lists!Ids(liIndex')
  BY <1>6, <1>7 DEF ListsInv, Reading, Same
<1>9. Reading'
  BY <1>6, <1>7, <1>8, ReadingGoesOn DEF Same
<1> QED BY <1>6, <1>7, <1>9 DEF ListsInv, ListTypes, Editing, Same

LEMMA DeleteStep == ASSUME ListsInv, Lists!Delete PROVE ListsInv'
<1>1. PICK b : liIndex' = Lists!Without(b) /\ liSteady' = liSteady \ {b}
  BY DEF Lists!Delete
<1>2. liWriting = None /\ UNCHANGED <<liStored, liWriting, liCreating, liReader, liToken, liTodo, liShown, liAgain>>
  BY DEF Lists!Delete, Lists!Write
<1>3. Less(liIndex, liIndex', b)
  BY <1>1, WithoutIs DEF ListsInv, ListTypes
<1>4. liReader \in {"pages", "flagged"} => liSteady' \subseteq Lists!Ids(liIndex')
  BY <1>1, <1>3 DEF ListsInv, Reading, Less
<1>5. liSteady' \subseteq liSteady
  BY <1>1
<1>6. Reading'
  BY <1>2, <1>3, <1>4, <1>5, ReadingGoesOn DEF Less
<1> QED BY <1>2, <1>3, <1>6 DEF ListsInv, ListTypes, Editing, Less

LEMMA EraseStep == ASSUME ListsInv, Lists!Erase PROVE ListsInv'
<1>1. PICK b \in ListIds \ Lists!Ids(liIndex) : liStored' = [liStored EXCEPT ![b] = None]
  BY DEF Lists!Erase
<1>2. UNCHANGED <<liIndex, liWriting, liCreating, liReader, liToken, liTodo, liShown, liSteady, liAgain>>
  BY DEF Lists!Erase
<1>3. Once(liIndex) /\ liStored \in [ListIds -> {"clear", "flagged", None}]
  BY DEF ListsInv, ListTypes
<1>4. liReader \in {"pages", "flagged"} => liSteady' \subseteq Lists!Ids(liIndex')
  BY <1>2 DEF ListsInv, Reading
<1>5. liReader = "flagged" => \A a \in liSteady' : liStored'[a] \in {liStored[a], "flagged"}
  <2> SUFFICES ASSUME liReader = "flagged", NEW a \in liSteady' PROVE liStored'[a] = liStored[a]
    OBVIOUS
  <2>1. a \in Lists!Ids(liIndex) /\ a \in ListIds
    BY <1>2, <1>3, <1>4, NoneIsNoId
  <2> QED BY <1>1, <1>3, <2>1
<1>6. liIndex' = liIndex /\ liSteady' \subseteq liSteady /\ (liAgain => liAgain') /\ Once(liIndex')
  BY <1>2, <1>3
<1>7. Reading'
  BY <1>2, <1>4, <1>5, <1>6, ReadingGoesOn
<1>8. liStored' \in [ListIds -> {"clear", "flagged", None}]
  BY <1>1, <1>3
<1> QED BY <1>2, <1>7, <1>8 DEF ListsInv, ListTypes, Editing

LEMMA OpenListStep == ASSUME ListsInv, Lists!OpenList PROVE ListsInv'
<1>1. /\ liReader' = "pages" /\ liToken' = None /\ liShown' = <<>> /\ liAgain' = FALSE /\ liTodo' = <<>>
      /\ liSteady' = Lists!Ids(liIndex) /\ UNCHANGED <<liIndex, liStored, liWriting, liCreating>>
  BY DEF Lists!OpenList, Lists!Begin
<1>2. Once(liIndex) /\ None \notin Lists!Ids(liIndex)
  BY NoneIsNoId DEF ListsInv, ListTypes
<1>3. <<>> \in Seq(ListIds) /\ <<>> \in Seq(Lists!Entries) /\ NoTwice(<<>>)
  BY DEF NoTwice
<1>4. OnTheWay(liIndex, None, <<>>, Lists!Ids(liIndex))
  BY <1>2 DEF OnTheWay
<1>5. Reading'
  BY <1>1, <1>3, <1>4 DEF Reading
<1>6. ListTypes'
  BY <1>1, <1>3 DEF ListsInv, ListTypes
<1> QED BY <1>1, <1>5, <1>6 DEF ListsInv, Editing

LEMMA InvalidTokenStep == ASSUME ListsInv, Lists!InvalidToken PROVE ListsInv'
<1>1. /\ liReader' = "stuck" /\ liToken' = None
      /\ UNCHANGED <<liIndex, liStored, liWriting, liCreating, liTodo, liShown, liSteady, liAgain>>
  BY DEF Lists!InvalidToken
<1> QED BY <1>1 DEF ListsInv, ListTypes, Editing, Reading

LEMMA OpenFlaggedStep == ASSUME ListsInv, Lists!OpenFlagged PROVE ListsInv'
<1>1. /\ liReader' = "flagged" /\ liToken' = None /\ liShown' = <<>> /\ liAgain' = FALSE
      /\ liTodo' = Lists!Listed /\ liSteady' = {b \in ListIds : Lists!Flagged(b)}
      /\ UNCHANGED <<liIndex, liStored, liWriting, liCreating>>
  BY DEF Lists!OpenFlagged, Lists!Begin
<1>2. Once(liIndex) /\ IsSorted(liIndex, liTodo')
  BY <1>1, ListedIs DEF ListsInv, ListTypes
<1>3. PICK t : t = liTodo'
  OBVIOUS
<1>4. Once(t)
  <2>1. t \in Seq(Lists!Entries)
    BY <1>2, <1>3 DEF IsSorted
  <2> SUFFICES ASSUME NEW j \in DOMAIN t, NEW k \in DOMAIN t, t[j].id = t[k].id, j < k PROVE FALSE
    <3>1. DOMAIN t \subseteq Nat
      BY <2>1
    <3> QED BY <2>1, <3>1 DEF Once
  <2>2. Ahead(liIndex, t[j].id, t[k].id)
    BY <1>2, <1>3 DEF IsSorted
  <2> QED BY <1>2, <2>2, AheadOrders
<1>5. <<>> \in Seq(ListIds) /\ NoTwice(<<>>) /\ \A x : ~Among(x, <<>>)
  BY DEF NoTwice, Among
<1>6. ASSUME NEW b \in liSteady'
      PROVE  liStored[b] = "flagged" /\ b \in Lists!Ids(liIndex) /\ Awaited(b, t)
  <2>1. liStored[b] = "flagged" /\ b \in Lists!Ids(liIndex) /\ Lists!Entry(b).risk = "flagged"
    BY <1>1 DEF Lists!Flagged
  <2>2. PICK k \in DOMAIN liIndex : Lists!Entry(b) = liIndex[k] /\ liIndex[k].id = b
    BY <1>2, <2>1, EntryOf
  <2>3. PICK m \in DOMAIN t : t[m] = liIndex[k]
    BY <1>2, <1>3 DEF IsSorted
  <2> QED BY <2>1, <2>2, <2>3 DEF Awaited
<1>7. Looking(liStored, t, <<>>, liSteady')
  BY <1>4, <1>5, <1>6 DEF Looking
<1>8. Reading'
  BY <1>1, <1>3, <1>6, <1>7 DEF Reading
<1>9. ListTypes'
  BY <1>1, <1>3, <1>4, <1>5 DEF ListsInv, ListTypes, Once
<1> QED BY <1>1, <1>8, <1>9 DEF ListsInv, Editing

LEMMA StartIs ==
  ASSUME Once(liIndex), NEW t, IsSorted(liIndex, t), liToken = None \/ liToken \in Lists!Ids(liIndex)
  PROVE  /\ Lists!Start(t) \in Nat /\ Lists!Start(t) <= Len(t)
         /\ \/ Lists!Start(t) = 0 /\ liToken = None
            \/ Lists!Start(t) > 0 /\ liToken # None /\ t[Lists!Start(t)].id = liToken
<1>1. Len(t) \in Nat /\ DOMAIN t = 1..Len(t)
  BY DEF IsSorted
<1>2. CASE liToken = None
  BY <1>1, <1>2 DEF Lists!Start
<1>3. CASE liToken # None
  <2>1. PICK k \in DOMAIN liIndex : liIndex[k].id = liToken
    BY <1>3 DEF Lists!Ids
  <2>2. \E m \in DOMAIN t : t[m].id = liToken
    BY <2>1 DEF IsSorted
  <2>3. Lists!Start(t) \in DOMAIN t /\ t[Lists!Start(t)].id = liToken
    BY <1>3, <2>2 DEF Lists!Start
  <2> QED BY <1>1, <1>3, <2>3
<1> QED BY <1>2, <1>3

LEMMA PageStep == ASSUME ListsInv, Lists!Page PROVE ListsInv'
<1>1. PICK limit \in Limits :
        LET list == Lists!Listed
            end  == Lists!Min({Lists!Start(list) + Lists!Bounded(limit), Len(list)})
            page == SubSeq(list, Lists!Start(list) + 1, end)
            more == end < Len(list)
        IN /\ liShown' = liShown \o [k \in DOMAIN page |-> page[k].id]
           /\ liToken' = IF more THEN page[Len(page)].id ELSE None
           /\ liReader' = IF more THEN "pages" ELSE "walked"
  BY DEF Lists!Page
<1>2. PICK t, st, w, end : /\ t = Lists!Listed /\ st = Lists!Start(t) /\ w = Lists!Bounded(limit)
                           /\ end = Lists!Min({st + w, Len(t)})
  OBVIOUS
<1>3. PICK page, ids : page = SubSeq(t, st + 1, end) /\ ids = [k \in DOMAIN page |-> page[k].id]
  OBVIOUS
<1>4. /\ liShown' = liShown \o ids
      /\ liToken' = (IF end < Len(t) THEN page[Len(page)].id ELSE None)
      /\ liReader' = (IF end < Len(t) THEN "pages" ELSE "walked")
  BY <1>1, <1>2, <1>3
<1>5. /\ liReader = "pages" /\ (liToken # None => liToken \in Lists!Ids(liIndex))
      /\ UNCHANGED <<liIndex, liStored, liWriting, liCreating, liTodo, liSteady, liAgain>>
  BY DEF Lists!Page
<1>6. Once(liIndex) /\ liShown \in Seq(ListIds) /\ liSteady \subseteq Lists!Ids(liIndex)
  BY <1>5 DEF ListsInv, ListTypes, Reading
<1>7. IsSorted(liIndex, t) /\ t \in Seq(Lists!Entries) /\ Len(t) \in Nat
  BY <1>2, <1>6, ListedIs DEF IsSorted
<1>8. /\ st \in Nat /\ st <= Len(t)
      /\ \/ st = 0 /\ liToken = None
         \/ st > 0 /\ liToken # None /\ t[st].id = liToken
  BY <1>2, <1>5, <1>6, <1>7, StartIs
<1>9. w \in Nat /\ w > 0
  BY <1>2, ListAssumptions DEF Lists!Bounded, Lists!Assumptions
<1>10. end = IF st + w <= Len(t) THEN st + w ELSE Len(t)
  <2>1. end = CHOOSE x \in {st + w, Len(t)} : \A y \in {st + w, Len(t)} : x <= y
    BY <1>2 DEF Lists!Min
  <2>2. \E x \in {st + w, Len(t)} : \A y \in {st + w, Len(t)} : x <= y
    BY <1>7, <1>8, <1>9
  <2>3. end \in {st + w, Len(t)} /\ \A y \in {st + w, Len(t)} : end <= y
    BY <2>1, <2>2
  <2> QED BY <1>7, <1>8, <1>9, <2>3
<1>11. end \in Nat /\ st <= end /\ end <= Len(t) /\ (end < Len(t) => end > st)
  BY <1>7, <1>8, <1>9, <1>10
<1>12. /\ page \in Seq(Lists!Entries) /\ (end > st => page[Len(page)] = t[end])
       /\ IsPage(ids, t, st, end)
  <2>1. st \in Nat /\ end \in Nat /\ st <= end /\ end <= Len(t) /\ t \in Seq(Lists!Entries)
    BY <1>7, <1>8, <1>11
  <2> QED BY <1>3, <2>1, PageIs
<1>13. liShown' \in Seq(ListIds)
  <2>1. ids \in Seq(ListIds)
    BY <1>12 DEF IsPage
  <2> QED BY <1>4, <1>6, <2>1, JoinHas
<1>14. liToken' \in ListIds \cup {None}
  <2>1. ASSUME end < Len(t) PROVE t[end] \in Lists!Entries
    <3>1. end \in 1..Len(t)
      BY <1>7, <1>8, <1>11, <2>1
    <3> QED BY <1>7, <3>1
  <2> QED BY <1>4, <1>11, <1>12, <2>1, EntryHas
<1>15. ASSUME ~liAgain
       PROVE  /\ NoTwice(liShown')
              /\ end = Len(t) => \A b \in liSteady : Among(b, liShown')
              /\ end < Len(t) => OnTheWay(liIndex, liToken', liShown', liSteady)
  <2>1. NoTwice(liShown) /\ OnTheWay(liIndex, liToken, liShown, liSteady)
    BY <1>5, <1>15 DEF ListsInv, Reading
  <2>2. /\ NoTwice(liShown \o ids)
        /\ end = Len(t) => \A b \in liSteady : Among(b, liShown \o ids)
        /\ end > st => OnTheWay(liIndex, t[end].id, liShown \o ids, liSteady)
    BY <1>6, <1>7, <1>8, <1>11, <1>12, <2>1, NextPage
  <2> QED BY <1>4, <1>11, <1>12, <2>2
<1>16. ~(end < Len(t)) => end = Len(t)
  BY <1>7, <1>11
<1>17. Reading'
  BY <1>4, <1>5, <1>6, <1>15, <1>16 DEF Reading
<1> QED BY <1>5, <1>13, <1>14, <1>17 DEF ListsInv, ListTypes, Editing

LEMMA TailIs ==
  ASSUME NEW S, NEW t \in Seq(S), t # <<>>
  PROVE  /\ Tail(t) \in Seq(S) /\ 1 \in DOMAIN t /\ Head(t) = t[1]
         /\ \A k \in DOMAIN Tail(t) : k + 1 \in DOMAIN t /\ Tail(t)[k] = t[k + 1] /\ k \in Nat
         /\ \A k \in DOMAIN t : k # 1 => k - 1 \in DOMAIN Tail(t) /\ Tail(t)[k - 1] = t[k]
<1>1. Len(t) \in Nat /\ Len(t) # 0 /\ DOMAIN t = 1..Len(t)
  OBVIOUS
<1>2. PICK u : u = Tail(t)
  OBVIOUS
<1>3. u \in Seq(S) /\ Len(u) = Len(t) - 1 /\ DOMAIN u = 1..Len(t) - 1
  BY <1>1, <1>2
<1>4. \A k \in 1..Len(t) - 1 : u[k] = t[k + 1]
  BY <1>1, <1>2, <1>3
<1>5. \A k \in 1..Len(t) : k # 1 => k - 1 \in 1..Len(t) - 1 /\ (k - 1) + 1 = k
  BY <1>1
<1>6. \A k \in 1..Len(t) - 1 : k + 1 \in 1..Len(t)
  BY <1>1
<1>7. \A k \in DOMAIN t : k # 1 => k - 1 \in DOMAIN u /\ u[k - 1] = t[k]
  BY <1>1, <1>3, <1>4, <1>5
<1>8. Head(t) = t[1] /\ 1 \in DOMAIN t
  BY <1>1
<1> QED BY <1>1, <1>2, <1>3, <1>4, <1>6, <1>7, <1>8

LEMMA LoadStep == ASSUME ListsInv, Lists!Load PROVE ListsInv'
<1>1. PICK e, t : e = Head(liTodo) /\ t = Tail(liTodo)
  OBVIOUS
<1>2. /\ liReader = "flagged" /\ liTodo # <<>> /\ liTodo' = t
      /\ UNCHANGED <<liIndex, liStored, liWriting, liCreating, liToken, liSteady, liAgain>>
  BY <1>1 DEF Lists!Load
<1>3. \/ e.risk # "flagged" /\ UNCHANGED <<liShown, liReader>>
      \/ /\ e.risk = "flagged" /\ liStored[e.id] # None
         /\ liShown' = IF liStored[e.id] = "flagged" THEN Append(liShown, e.id) ELSE liShown
         /\ UNCHANGED liReader
      \/ e.risk = "flagged" /\ liStored[e.id] = None /\ liReader' = "failed" /\ UNCHANGED liShown
  BY <1>1 DEF Lists!Load, Lists!AtRisk
<1>4. /\ liTodo \in Seq(Lists!Entries) /\ liShown \in Seq(ListIds)
      /\ Looking(liStored, liTodo, liShown, liSteady) /\ liSteady \subseteq Lists!Ids(liIndex)
  BY <1>2 DEF ListsInv, ListTypes, Reading
<1>5. /\ t \in Seq(Lists!Entries) /\ 1 \in DOMAIN liTodo /\ e = liTodo[1]
      /\ \A k \in DOMAIN t : k + 1 \in DOMAIN liTodo /\ t[k] = liTodo[k + 1] /\ k \in Nat
      /\ \A k \in DOMAIN liTodo : k # 1 => k - 1 \in DOMAIN t /\ t[k - 1] = liTodo[k]
  BY <1>1, <1>2, <1>4, TailIs
<1>6. /\ \A j, k \in DOMAIN liTodo : liTodo[j].id = liTodo[k].id => j = k
      /\ NoTwice(liShown)
      /\ \A k \in DOMAIN liTodo : ~Among(liTodo[k].id, liShown)
      /\ \A b \in liSteady : liStored[b] = "flagged" /\ (Among(b, liShown) \/ Awaited(b, liTodo))
  BY <1>4 DEF Looking, Once
<1>7. e \in Lists!Entries /\ e.id \in ListIds
  BY <1>4, <1>5, EntryHas
<1>8. Once(t)
  <2> SUFFICES ASSUME NEW j \in DOMAIN t, NEW k \in DOMAIN t, t[j].id = t[k].id PROVE j = k
    BY <1>5 DEF Once
  <2>1. j + 1 = k + 1 /\ j \in Nat /\ k \in Nat
    BY <1>5, <1>6
  <2> QED BY <2>1
<1>9. \A k \in DOMAIN t : t[k].id # e.id /\ ~Among(t[k].id, liShown)
  <2> SUFFICES ASSUME NEW k \in DOMAIN t PROVE t[k].id # e.id /\ ~Among(t[k].id, liShown)
    OBVIOUS
  <2>1. k + 1 \in DOMAIN liTodo /\ k + 1 # 1 /\ t[k] = liTodo[k + 1]
    BY <1>5
  <2> QED BY <1>5, <1>6, <2>1
\* A flagged BOM that is not the next one waits on.
<1>10. ASSUME NEW b, Awaited(b, liTodo), ~(b = e.id /\ e.risk = "flagged") PROVE Awaited(b, t)
  <2>1. PICK k \in DOMAIN liTodo : liTodo[k].id = b /\ liTodo[k].risk = "flagged"
    BY <1>10 DEF Awaited
  <2>2. k # 1
    BY <1>5, <1>10, <2>1
  <2> QED BY <1>5, <2>1, <2>2 DEF Awaited
<1>11. CASE e.risk # "flagged" /\ UNCHANGED <<liShown, liReader>>
  <2>1. \A b \in liSteady : liStored[b] = "flagged" /\ (Among(b, liShown) \/ Awaited(b, t))
    BY <1>6, <1>10, <1>11
  <2>2. Looking(liStored, t, liShown, liSteady)
    BY <1>6, <1>8, <1>9, <2>1 DEF Looking
  <2>3. Reading'
    BY <1>2, <1>4, <1>11, <2>2 DEF Reading
  <2> QED BY <1>2, <1>4, <1>5, <1>11, <2>3 DEF ListsInv, ListTypes, Editing
<1>12. CASE /\ e.risk = "flagged" /\ liStored[e.id] # None /\ UNCHANGED liReader
            /\ liStored[e.id] # "flagged" /\ UNCHANGED liShown
  <2>1. \A b \in liSteady : liStored[b] = "flagged" /\ (Among(b, liShown) \/ Awaited(b, t))
    BY <1>6, <1>10, <1>12
  <2>2. Looking(liStored, t, liShown, liSteady)
    BY <1>6, <1>8, <1>9, <2>1 DEF Looking
  <2>3. Reading'
    BY <1>2, <1>4, <1>12, <2>2 DEF Reading
  <2> QED BY <1>2, <1>4, <1>5, <1>12, <2>3 DEF ListsInv, ListTypes, Editing
<1>13. CASE /\ e.risk = "flagged" /\ UNCHANGED liReader
            /\ liStored[e.id] = "flagged" /\ liShown' = Append(liShown, e.id)
  <2>1. PICK c, one : c = Append(liShown, e.id) /\ one = <<e.id>>
    OBVIOUS
  <2>2. one \in Seq(ListIds) /\ NoTwice(one) /\ (\A x : Among(x, one) <=> x = e.id) /\ c = liShown \o one
    <3>1. one \in Seq(ListIds) /\ DOMAIN one = {1} /\ one[1] = e.id
      BY <1>7, <2>1
    <3>2. c = liShown \o one
      BY <1>4, <1>7, <2>1
    <3> QED BY <3>1, <3>2 DEF NoTwice, Among
  <2>3. ~Among(e.id, liShown)
    BY <1>5, <1>6
  <2>4. c \in Seq(ListIds) /\ NoTwice(c) /\ \A x : Among(x, c) <=> Among(x, liShown) \/ x = e.id
    <3>1. liShown \in Seq(ListIds) /\ one \in Seq(ListIds) /\ c = liShown \o one
      BY <1>4, <2>2
    <3>2. c \in Seq(ListIds) /\ \A x : Among(x, c) <=> Among(x, liShown) \/ Among(x, one)
      BY <3>1, JoinHas
    <3>3. \A x : ~(Among(x, liShown) /\ Among(x, one))
      BY <2>2, <2>3
    <3>4. NoTwice(c)
      BY <1>6, <2>2, <3>1, <3>3, JoinHas
    <3> QED BY <2>2, <3>2, <3>4
  <2>5. \A b \in liSteady : liStored[b] = "flagged" /\ (Among(b, c) \/ Awaited(b, t))
    BY <1>6, <1>10, <2>4
  <2>6. Looking(liStored, t, c, liSteady)
    BY <1>8, <1>9, <2>4, <2>5 DEF Looking
  <2>7. Reading'
    BY <1>2, <1>4, <1>13, <2>1, <2>6 DEF Reading
  <2> QED BY <1>2, <1>5, <1>13, <2>1, <2>4, <2>7 DEF ListsInv, ListTypes, Editing
<1>14. CASE e.risk = "flagged" /\ liReader' = "failed" /\ UNCHANGED liShown
  <2>1. Reading'
    BY <1>14 DEF Reading
  <2> QED BY <1>2, <1>5, <1>14, <2>1 DEF ListsInv, ListTypes, Editing
<1> QED BY <1>3, <1>11, <1>12, <1>13, <1>14

LEMMA AnswerFlaggedStep == ASSUME ListsInv, Lists!AnswerFlagged PROVE ListsInv'
<1>1. /\ liReader = "flagged" /\ liTodo = <<>> /\ liReader' = "listed"
      /\ UNCHANGED <<liIndex, liStored, liWriting, liCreating, liToken, liTodo, liShown, liSteady, liAgain>>
  BY DEF Lists!AnswerFlagged
<1>2. Looking(liStored, liTodo, liShown, liSteady)
  BY <1>1 DEF ListsInv, Reading
<1>3. NoTwice(liShown) /\ \A b \in liSteady : Among(b, liShown)
  <2>1. \A b : ~Awaited(b, liTodo)
    BY <1>1 DEF Awaited
  <2> QED BY <1>2, <2>1 DEF Looking
<1>4. Reading'
  BY <1>1, <1>3 DEF Reading
<1> QED BY <1>1, <1>4 DEF ListsInv, ListTypes, Editing

LEMMA NextOfLists == ListsInv /\ [Lists!Next]_(Lists!vars) => ListsInv'
<1> SUFFICES ASSUME ListsInv, [Lists!Next]_(Lists!vars) PROVE ListsInv'
  OBVIOUS
<1>1. CASE UNCHANGED Lists!vars
  BY <1>1 DEF Lists!vars, ListsInv, ListTypes, Editing, Reading
<1>2. CASE Lists!Create \/ Lists!Edit \/ Lists!WriteNew \/ Lists!WriteEdited \/ Lists!Delete \/ Lists!Erase
  BY <1>2, CreateStep, EditStep, WriteNewStep, WriteEditedStep, DeleteStep, EraseStep
<1>3. CASE Lists!OpenList \/ Lists!Page \/ Lists!InvalidToken
  BY <1>3, OpenListStep, PageStep, InvalidTokenStep
<1>4. CASE Lists!OpenFlagged \/ Lists!Load \/ Lists!AnswerFlagged
  BY <1>4, OpenFlaggedStep, LoadStep, AnswerFlaggedStep
<1> QED BY <1>1, <1>2, <1>3, <1>4 DEF Lists!Next

LEMMA WalkIsWhole == ListsInv => WalkShowsAll
<1> SUFFICES ASSUME ListsInv, liReader = "listed" \/ (liReader = "walked" /\ ~liAgain)
             PROVE  /\ \A b \in liSteady : Lists!Shown(b) >= 1
                    /\ \A b \in ListIds : Lists!Shown(b) <= 1
  BY DEF WalkShowsAll, Lists!WalkShowsAll
<1>1. NoTwice(liShown) /\ \A b \in liSteady : Among(b, liShown)
  BY DEF ListsInv, Reading
<1>2. PICK n : n = Len(liShown) /\ n \in Nat /\ DOMAIN liShown = 1..n
  BY DEF ListsInv, ListTypes
<1>3. ASSUME NEW b
      PROVE  Lists!Shown(b) <= 1 /\ (Among(b, liShown) => Lists!Shown(b) >= 1)
  <2>1. PICK S : S = {k \in DOMAIN liShown : liShown[k] = b}
    OBVIOUS
  <2>2. Lists!Shown(b) = Cardinality(S)
    BY <2>1 DEF Lists!Shown, Lists!Cardinality, Cardinality
  <2>3. CASE S = {}
    <3>1. ~Among(b, liShown)
      BY <2>1, <2>3 DEF Among
    <3> QED BY <2>2, <2>3, <3>1, FS_EmptySet
  <2>4. CASE S # {}
    <3>1. PICK k \in S : TRUE
      BY <2>4
    <3>2. S = {k}
      BY <1>1, <2>1, <3>1 DEF NoTwice
    <3> QED BY <2>2, <3>2, FS_Singleton
  <2> QED BY <2>3, <2>4
<1> QED BY <1>1, <1>3

LEMMA ListsSpec == SpecAll => Lists!Spec
<1>1. InitAll => Lists!Init
  BY DEF InitAll
<1>2. [NextOfOne]_everything => [Lists!Next]_(Lists!vars)
  BY DEF NextOfOne, everything, listVars, Lists!vars
<1> QED BY <1>1, <1>2, PTL DEF SpecAll, Lists!Spec

\* WalkShowsAll, of page_by_id and flagged_lines: whatever is uploaded, edited
\* and deleted between the pages of a walk or the loads of the flagged list,
\* in whichever order the index has the BOMs and with any times of theirs, the
\* reader sees each BOM that was there all the while, and sees it once.
THEOREM WalksShowAll == SpecAll => []WalkShowsAll
<1>1. Lists!Spec => []ListsInv
  BY InitLists, NextOfLists, PTL DEF Lists!Spec
<1> QED BY <1>1, ListsSpec, WalkIsWhole, PTL

=============================================================================
