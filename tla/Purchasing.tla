----------------------------- MODULE Purchasing -----------------------------
(***************************************************************************)
(* Quotes and orders: a user asks the gateway, the gateway asks the        *)
(* purchasing service for at most 30 seconds, and the service asks Digi-Key*)
(* or Mouser line by line and then orders.  What the distributor has said  *)
(* of a line is known when it is asked; it may be another thing later.     *)
(*                                                                         *)
(* A line is its quantity; 0 stands for every line that is refused without *)
(* a call.  The distributors are outside: they accept an order or refuse   *)
(* it, and what they answer may be lost.  A request that the gateway has   *)
(* given up goes on in the service until the closed connection ends it.    *)
(*                                                                         *)
(* Requests share nothing but cached tokens, so there is one at a time.    *)
(***************************************************************************)
EXTENDS Naturals, Sequences, FiniteSets

CONSTANTS
  Carts,       (* What users ask for: sequences of quantities.               *)
  Products,    (* What a distributor may know of a part.                     *)
  Prices,      (* Unit prices.                                               *)
  MaxRequests, (* Bound: requests.                                           *)
  None         (* No price list, no price, no stock figure, no number.       *)

\* A price list is a sequence of breaks, in any order, some without a price.
\* Digi-Key's products may keep the list, the stock and the part number in
\* their first variation instead.
Breaks  == [from : Nat, price : Prices \cup {None}]
Offers  == [breaks : Seq(Breaks) \cup {None}, stock : Nat \cup {None}, number : BOOLEAN]

VARIABLES
  pc,          (* The next step of the request in the service.               *)
  listening,   (* The gateway still waits for it.                            *)
  order,       (* It is an order.                                            *)
  provider,    (* Who is asked.                                              *)
  cart,        (* The lines asked for.                                       *)
  lines,       (* The results so far: QuoteLineResult, and what was said.    *)
  answer,      (* What the user was told last.                               *)
  subtotal,    (* The sum of the last quote.                                 *)
  requests,    (* Requests so far.                                           *)
  placed,      (* Orders that distributors have accepted.                    *)
  owned,       (* Answers that told of an order, or not to ask again.        *)
  lost         (* Answers about an order that never arrived.                 *)

request == <<order, provider, cart, requests>>
vars    == <<pc, listening, order, provider, cart, lines, answer, subtotal,
             requests, placed, owned, lost>>

Statuses == {"Quoted", "Partial", "Unavailable", "Submitted", "NotConfigured",
             "RequiresDistributorCredit", "RequiresSubscription", "Error"}
Failures == {"timed out", "timed out, do not retry", "upstream failed"}

Results == [quantity : Nat, unit : Prices \cup {None}, error : BOOLEAN,
            part : BOOLEAN, said : Offers \cup {None}]

\* An Option holds nothing or a value: None is none of the values.
Assumptions ==
  /\ Prices \subseteq Nat
  /\ None \notin Nat \cup Breaks \cup Offers /\ None \notin Seq(Breaks)
  /\ None \notin Statuses \cup Failures
  /\ \A p \in Products : p.own \in Offers /\ p.variation \in Offers
  /\ Carts \subseteq Seq(Nat) \ {<<>>} /\ MaxRequests \in Nat

TypeOK ==
  /\ pc \in {"idle", "lookup", "quoted", "cart", "order", "accepted"}
  /\ listening \in BOOLEAN /\ order \in BOOLEAN /\ provider \in {"digikey", "mouser"}
  /\ cart \in Carts \cup {<<>>} /\ lines \in Seq(Results) /\ Len(lines) <= Len(cart)
  /\ answer \in Statuses \cup Failures \cup {None} /\ subtotal \in Nat \cup {None}
  /\ requests \in 0..MaxRequests
  /\ placed \in 0..MaxRequests /\ owned \in 0..MaxRequests /\ lost \in 0..MaxRequests

Init ==
  /\ pc = "idle" /\ listening = FALSE /\ order = FALSE /\ provider = "digikey"
  /\ cart = <<>> /\ lines = <<>> /\ answer = None /\ subtotal = None
  /\ requests = 0 /\ placed = 0 /\ owned = 0 /\ lost = 0

----------------------------------------------------------------------------
(* Prices *)

\* Mutation: the last break that fits, not the one that starts highest.
Better_Last(b, best) == TRUE

Better(b, best) == best = None \/ b.from > best.from

\* The loop of unit_price_for_qty: the best break of the first k.
Best(breaks, q) ==
  LET best[k \in 0..Len(breaks)] ==
        IF k = 0 THEN None
        ELSE LET b == breaks[k] IN
             IF b.price # None /\ b.from <= q /\ Better(b, best[k - 1]) THEN b ELSE best[k - 1]
  IN best[Len(breaks)]

\* When no break fits, the first one's price.
UnitPrice(breaks, q) ==
  IF breaks = None \/ breaks = <<>> THEN None
  ELSE IF Best(breaks, q) # None THEN Best(breaks, q).price ELSE breaks[1].price

OrElse(x, y) == IF x # None THEN x ELSE y

\* Mutation: a line is good when there is a price for it.
InError_PriceOnly(offer, q) == UnitPrice(offer.breaks, q) = None

\* No price, or not enough in stock.
InError(offer, q) ==
  \/ UnitPrice(offer.breaks, q) = None
  \/ offer.stock = None \/ offer.stock < q

LineResult(offer, q) ==
  [quantity |-> q, unit |-> UnitPrice(offer.breaks, q), error |-> InError(offer, q),
   part |-> offer.number, said |-> offer]

\* quote_line of Digi-Key looks into the variation for what is missing.
DigikeyLine(p, q) ==
  LineResult([breaks |-> OrElse(p.own.breaks, p.variation.breaks),
              stock  |-> OrElse(p.own.stock, p.variation.stock),
              number |-> p.own.number \/ p.variation.number], q)

MouserLine(p, q) == LineResult(p.own, q)

\* Refused, not found or failed.
FailedLine(q) == [quantity |-> q, unit |-> None, error |-> TRUE, part |-> FALSE, said |-> None]

----------------------------------------------------------------------------
(* The gateway *)

\* purchase_quote_handler and purchase_orders_handler, once the user may write
\* and is provisioned; the request has at least one line.
Ask ==
  /\ pc = "idle" /\ requests < MaxRequests /\ requests' = requests + 1
  /\ order' \in BOOLEAN /\ provider' \in {"digikey", "mouser"} /\ cart' \in Carts
  /\ lines' = <<>> /\ subtotal' = None /\ answer' = None
  /\ listening' = TRUE /\ pc' = "lookup"
  /\ UNCHANGED <<placed, owned, lost>>

\* reserve_purchasing_action refuses.
Refuse ==
  /\ pc = "idle" /\ requests < MaxRequests /\ requests' = requests + 1
  /\ order' \in BOOLEAN /\ provider' \in {"digikey", "mouser"} /\ cart' \in Carts
  /\ lines' = <<>> /\ subtotal' = None /\ answer' = "RequiresSubscription"
  /\ UNCHANGED <<pc, listening, placed, owned, lost>>

\* The request ends in the service; the gateway passes a on if it still
\* listens: an error is a 502 and does not say whether there is an order.
Tell(a) ==
  /\ pc' = "idle" /\ listening' = FALSE
  /\ answer' = IF listening THEN a ELSE answer

\* Mutation: a timeout is told as for a quote.
Warns_Never == FALSE

\* Only orders are answered with retry_safe: false.
Warns == order

Timeout ==
  /\ listening /\ listening' = FALSE
  /\ answer' = IF Warns THEN "timed out, do not retry" ELSE "timed out"
  /\ owned' = IF Warns THEN owned + 1 ELSE owned
  /\ UNCHANGED <<pc, request, lines, subtotal, placed, lost>>

\* The connection to the service breaks: a 502 for an order that may go on.
Broken ==
  /\ listening /\ listening' = FALSE
  /\ answer' = "upstream failed" /\ lost' = IF order THEN lost + 1 ELSE lost
  /\ UNCHANGED <<pc, request, lines, subtotal, placed, owned>>

\* The service ends a request whose connection is closed.
Drop ==
  /\ pc # "idle" /\ ~listening /\ pc' = "idle"
  /\ UNCHANGED <<listening, request, lines, answer, subtotal, placed, owned, lost>>

----------------------------------------------------------------------------
(* The service: quote *)

\* No keys; for an order also no ordering, or no credit account.
NotSetUp ==
  /\ pc = "lookup" /\ lines = <<>>
  /\ \/ Tell("NotConfigured")
     \/ order /\ Tell("RequiresDistributorCredit")
  /\ UNCHANGED <<request, lines, subtotal, placed, owned, lost>>

Asked(q) ==
  IF q = 0 THEN {FailedLine(q)}
  ELSE {FailedLine(q)} \cup
       IF provider = "digikey" THEN {DigikeyLine(p, q) : p \in Products}
       ELSE {MouserLine(p, q) : p \in Products}

\* access_token and fetch_product, or search_part, for the next line; a token
\* that cannot be had fails the line.
LookUp ==
  /\ pc = "lookup"
  /\ \E r \in Asked(cart[Len(lines) + 1]) : lines' = Append(lines, r)
  /\ pc' = IF Len(lines') = Len(cart) THEN "quoted" ELSE "lookup"
  /\ UNCHANGED <<listening, request, answer, subtotal, placed, owned, lost>>

Good == {k \in 1..Len(lines) : lines[k].unit # None /\ ~lines[k].error}

Status ==
  IF Good = {} THEN "Unavailable"
  ELSE IF Cardinality(Good) = Len(cart) THEN "Quoted" ELSE "Partial"

Extended(k) == IF lines[k].unit = None THEN 0 ELSE lines[k].unit * lines[k].quantity

\* Every priced line counts, in stock or not.
Sum == LET s[k \in 0..Len(lines)] == IF k = 0 THEN 0 ELSE s[k - 1] + Extended(k)
       IN s[Len(lines)]

Quote ==
  /\ pc = "quoted" /\ ~order
  /\ Tell(Status)
  /\ subtotal' = IF Good # {} THEN Sum ELSE None
  /\ UNCHANGED <<request, lines, placed, owned, lost>>

----------------------------------------------------------------------------
(* The service: place_order *)

\* A line is ordered when it has a part number too.
Items == {k \in Good : lines[k].part}

PlaceOrder ==
  /\ pc = "quoted" /\ order
  /\ \/ /\ Items = {} /\ Tell("Unavailable")
     \/ /\ Items # {} /\ UNCHANGED <<listening, answer>>
        /\ pc' = IF provider = "mouser" THEN "cart" ELSE "order"
  /\ UNCHANGED <<request, lines, subtotal, placed, owned, lost>>

\* Mouser wants the items in a cart first.
FillCart ==
  /\ pc = "cart"
  /\ \/ pc' = "order" /\ UNCHANGED <<listening, answer>>
     \/ Tell("Error")
     \/ Tell("upstream failed")
  /\ UNCHANGED <<request, lines, subtotal, placed, owned, lost>>

\* The distributor accepts the order ...
Accept ==
  /\ pc = "order" /\ pc' = "accepted" /\ placed' = placed + 1
  /\ UNCHANGED <<listening, request, lines, answer, subtotal, owned, lost>>

\* ... or refuses it, or is never reached; for Digi-Key also the token may fail.
NotAccepted ==
  /\ pc = "order"
  /\ Tell("Error") \/ Tell("upstream failed")
  /\ UNCHANGED <<request, lines, subtotal, placed, owned, lost>>

\* Any body of a good answer will do.
Submitted ==
  /\ pc = "accepted" /\ Tell("Submitted")
  /\ owned' = IF listening THEN owned + 1 ELSE owned
  /\ UNCHANGED <<request, lines, subtotal, placed, lost>>

\* The connection to the distributor breaks: the order is answered as a 502.
Lost ==
  /\ pc = "accepted" /\ Tell("upstream failed")
  /\ lost' = IF listening THEN lost + 1 ELSE lost
  /\ UNCHANGED <<request, lines, subtotal, placed, owned>>

----------------------------------------------------------------------------

Next ==
  \/ Ask \/ Refuse \/ Timeout \/ Broken \/ Drop
  \/ NotSetUp \/ LookUp \/ Quote
  \/ PlaceOrder \/ FillCart \/ Accept \/ NotAccepted \/ Submitted \/ Lost

Spec == Init /\ [][Next]_vars

----------------------------------------------------------------------------
(* Properties *)

\* Every order a distributor has accepted was owned up to: the user was told
\* that it is submitted, or not to ask again, whether the service or the
\* gateway's patience ended first.  Answers that a broken connection loses on
\* their way to the gateway are the only ones the code does not think of.
NoSilentOrder ==
  placed <= owned + lost + (IF pc = "accepted" /\ listening THEN 1 ELSE 0)

\* What a price list says of q pieces: the price of the highest break up to q,
\* the first of equal ones.
ListPrice(breaks, q) ==
  LET fit == {k \in DOMAIN breaks : breaks[k].price # None /\ breaks[k].from <= q}
      top == {k \in fit : \A j \in fit : breaks[j].from <= breaks[k].from}
  IN IF fit = {} THEN breaks[1].price
     ELSE breaks[CHOOSE k \in top : \A j \in top : k <= j].price

\* A quote holds what it says: a line without an error is in stock in full at
\* the price of its list; "Quoted" is all lines and the sum of exactly what
\* they cost, "Partial" some of them and at least what these cost.
QuoteIsHonest ==
  LET sound(k) == LET r == lines[k] IN
        /\ r.said # None /\ r.said.stock # None /\ r.said.stock >= r.quantity
        /\ r.unit = ListPrice(r.said.breaks, r.quantity)
      ok == {k \in 1..Len(lines) : ~lines[k].error}
      cost(ks) == LET s[k \in 0..Len(lines)] ==
                        IF k = 0 THEN 0 ELSE s[k - 1] +
                          (IF k \in ks THEN lines[k].unit * lines[k].quantity ELSE 0)
                  IN s[Len(lines)]
  IN /\ \A k \in ok : sound(k)
     /\ answer = "Quoted"  => ok = 1..Len(cart) /\ subtotal = cost(ok)
     /\ answer = "Partial" => ok # {} /\ ok # 1..Len(cart) /\ subtotal >= cost(ok)

=============================================================================
