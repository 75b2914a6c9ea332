----------------------------- MODULE MCBackend -----------------------------
(* Constants of the TLC runs of Backend. *)
EXTENDS Backend, MCBomStore

\* The lookups of the limiter are alike.
SameLookups == Permutations(Lookups)

----------------------------------------------------------------------------
(* Purchasing: requests of up to two lines, with price lists in and out of     *)
(* order, without prices and empty, and stock that may be too small.           *)

Break(n, p)    == [from |-> n, price |-> p]
Offer(b, s, n) == [breaks |-> b, stock |-> s, number |-> n]
NoOffer        == Offer(None, None, FALSE)
Plain(offer)   == [own |-> offer, variation |-> NoOffer]

SampleProducts == {
  Plain(Offer(<<Break(1, 2), Break(2, 1)>>, 2, TRUE)),
  Plain(Offer(<<Break(2, 1), Break(1, 2)>>, 2, TRUE)),
  Plain(Offer(<<Break(2, None), Break(1, 2)>>, 1, FALSE)),
  Plain(Offer(<<Break(2, 1)>>, 1, TRUE)),
  Plain(Offer(<<>>, 2, TRUE)),
  [own |-> NoOffer, variation |-> Offer(<<Break(1, 1), Break(1, 2)>>, 2, TRUE)]}

SampleCarts == {<<0>>, <<1>>, <<2>>} \cup {<<q, r>> : q \in {1, 2}, r \in {0, 1, 2}}

----------------------------------------------------------------------------
(* The parser: files with a title above the header, an empty first column, two *)
(* columns of parts, a line of costs, two sheets, unclear columns, and none.    *)

Csv(grid) == [kind |-> "csv", fault |-> None, sheets |-> <<grid>>]
Bare(kind, fault) == [kind |-> kind, fault |-> fault, sheets |-> <<>>]

SampleFiles == {
  Csv(<<<<"Board", "">>, <<"", "Qty", "MPN", "Mfgr Part #", "Value">>,
        <<"", "10", "", "r1,r2", "">>, <<"A", "", "R1">>, <<"", "3", "490-1", "R2">>, <<"", "", "R1">>>>),
  Csv(<<<<"Total", "Qty", "MPN", "Digikey">>, <<"10", "A", "R1", "A">>, <<"10", "3">>>>),
  Csv(<<<<"MPN", "Value", "LCSC", "Note">>, <<"", "A", "total cost">>, <<"R1", "", "total cost">>,
        <<"", "A", "A", "A">>>>),
  Csv(<<<<"Qty", "Value">>, <<"10", "R1">>, <<"", "">>, <<"3", "total cost">>>>),
  Csv(<<<<"A", "10">>>>),
  [kind |-> "xlsx", fault |-> None, sheets |->
     <<<<<<"Qty", "Value">>, <<"A", "A">>>>,
       <<<<"MPN", "">>, <<"Qty", "Alt MPN">>, <<"10", "R1">>>>,
       <<<<"MPN", "Total">>, <<"R1", "A">>, <<"R2", "10">>>>>>],
  Bare("empty", None), Bare("other", None), Bare("csv", "encoding"),
  Bare("xlsx", "broken"), Bare("xlsx", None)}

SampleKind == [h \in {"Board", "Mfgr Part #", "Value", "Note", "A", "10", "MPN",
                         "Qty", "Total"} |-> "plain"]
              @@ ("LCSC" :> "supplier") @@ ("Alt MPN" :> "alternate") @@ ("Digikey" :> "distributor")

SampleExact == [h \in DOMAIN SampleKind |->
                  CASE h = "MPN" -> "mpn" [] h \in {"Qty", "Total"} -> "qty"
                    [] h = "Value" -> "description" [] OTHER -> None]
SampleClose == [h \in DOMAIN SampleKind |-> IF h = "Mfgr Part #" THEN "mpn" ELSE None]

SampleWeak   == [qty |-> {"Total"}, refdes |-> {}]
SampleStrong == [qty |-> {"Qty"}, refdes |-> {}]
SampleSplit  == "r1,r2" :> <<"R1", "R2">>

----------------------------------------------------------------------------
(* Analysis and tariff: three-line uploads with a repeated part, a line without *)
(* one and a maker that one dataset lists; two edits or refreshes.              *)

Acme == <<"acme", "inc">>
Bad  == <<"bad", "co">>

SampleUploads == {
  <<[part |-> "p1", maker |-> Acme, description |-> <<"resistor">>],
    [part |-> "p2", maker |-> Bad, description |-> <<"micro", "controller">>]>>,
  <<[part |-> "p1", maker |-> None, description |-> <<>>],
    [part |-> None, maker |-> None, description |-> <<"resistor">>],
    [part |-> "p1", maker |-> None, description |-> <<>>]>>}

Fact(avail, life) == [avail |-> avail, life |-> life, scarce |-> FALSE, slow |-> FALSE,
                      category |-> None, origin |-> None]
SampleFacts == {Fact("InStock", "Active"), Fact("OutOfStock", "Nrnd"),
          [Fact("InStock", "Eol") EXCEPT !.category = <<"resistor">>, !.origin = "CN"]}

\* A line of a client's own: the second part with the statuses of another, of a
\* listed maker without the match, where there may be a listed line.
SampleSent == {
  [row |-> 1, part |-> "p2", maker |-> Bad, description |-> <<>>,
   avail |-> "InStock", life |-> "Active", scarce |-> FALSE, slow |-> FALSE,
   category |-> None, origin |-> None, total |-> None, entity |-> None,
   risk |-> "green", answered |-> None, blind |-> TRUE, sent |-> TRUE]}

Entry(code, general, special) == [code |-> code, general |-> general, special |-> special]
Addon(code, program, rate) == [code |-> code, program |-> program, rate |-> rate]

\* Addons of a chapter before and after those of a code in it, and codes that
\* are as long as a more specific one, or longer, for the dots in them.
Dot == 10
AddonLists == {
  <<Addon(<<8, Dot, 5>>, "section_301", 25), Addon(<<8, 5, 3>>, "section_301", 50)>>,
  <<Addon(<<8, 5, 3>>, "section_301", 50), Addon(<<8, Dot, 5, Dot, 3>>, "section_301", 10),
    Addon(<<8, 5, 3, 1>>, "section_232_semiconductor", 20)>>,
  <<Addon(<<8, 5>>, "section_301", 25), Addon(<<8, 5, 3>>, "section_301", 50)>>,
  <<Addon(<<8, 5, 3>>, "section_301", 10), Addon(<<8, 5>>, "section_232_semiconductor", 20)>>,
  <<Addon(<<8, 5>>, "section_232_semiconductor", 20), Addon(<<8, 5, 3>>, "section_232_semiconductor", 0)>>,
  <<>>}
ExclusionLists == {
  <<>>, <<[code |-> <<8, 5, 3>>, active |-> TRUE, expires |-> 1]>>,
  <<[code |-> <<8, 5>>, active |-> FALSE, expires |-> None],
    [code |-> <<8, Dot, 5, 4>>, active |-> TRUE, expires |-> None]>>}
CodeLists == {
  <<Entry(<<8, 5>>, 2, <<[rate |-> 0, programs |-> {"KR"}]>>), Entry(<<8, 5, 3>>, 7, <<>>)>>,
  <<Entry(<<8, Dot, 5, 3>>, 9, <<>>), Entry(<<8, 5, 3>>, 4, <<[rate |-> 1, programs |-> {"KR"}]>>)>>,
  <<Entry(<<8, Dot, 5, Dot, 3>>, 3, <<>>), Entry(<<9, 9>>, 1, <<>>)>>}

Dataset(codes, addons, exclusions) ==
  [hts |-> codes, addons |-> addons, exclusions |-> exclusions,
   entities |-> <<[id |-> 1, names |-> <<<<"bad">>>>]>>]
SampleDatasets == {Dataset(c, a, x) : c \in CodeLists, a \in AddonLists, x \in ExclusionLists}
SampleLoaded == {d \in SampleDatasets :
                   /\ Len(d.addons) = 2 /\ d.addons[1].rate = 25
                   /\ d.exclusions = <<>> /\ d.hts[1].general = 9}

SampleRules ==
  <<[terms |-> {<<"micro", "controller">>}, code |-> <<8, 5>>, confidence |-> "high"],
    [terms |-> {<<"resistor">>}, code |-> <<8, 5, 3>>, confidence |-> "high"]>>
SamplePrograms == [origin \in {"KR"} |-> "KR"]
SampleMakers   == {Acme, Bad}
SampleCodes    == {<<8>>, <<8, 5>>, <<8, Dot, 5>>, <<8, 5, 3>>, <<8, Dot, 5, Dot, 3>>, <<8, 5, 3, 1>>, <<9>>}
SampleOrigins  == {None, "CN", "KR", "DE"}

=============================================================================
