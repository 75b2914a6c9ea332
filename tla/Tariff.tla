------------------------------- MODULE Tariff -------------------------------
(***************************************************************************)
(* What the tariff service says of a line: the code its words are          *)
(* classified under, the duty of that code from the country it comes from, *)
(* and whether its manufacturer is on the Entity List.  It keeps a set of  *)
(* snapshots in memory that it reads anew every day.                       *)
(*                                                                         *)
(* A code is the sequence of its characters as it is written, 8542.31.00   *)
(* or 85423100: a digit is its value, a dot or any other character a       *)
(* number above nine.  A name or a description is the sequence of its      *)
(* words, in lower case and without punctuation.  A dataset holds its      *)
(* snapshots as sequences in the order of the file:                        *)
(*   hts         [code, general, special], special a sequence of           *)
(*               [rate, programs]                                          *)
(*   addons      [code, program, rate]                                     *)
(*   exclusions  [code, active, expires], expires a day or None            *)
(*   entities    [id, names], names a sequence                             *)
(***************************************************************************)
EXTENDS Naturals, SequencesExt

CONSTANTS
  Rules,       (* KEYWORD_RULES: [terms, code, confidence] in order.         *)
  Known,       (* Words that look like electronics.                          *)
  NameSuffixes,(* ENTITY_SUFFIXES: words that end a company's name.          *)
  Programs,    (* The special programs of countries, a function.             *)
  China,       (* The spellings of China.                                    *)
  ShortestCode,(* The digits a prefix of a code must have: 4.                *)
  None

Coded(d) ==
  /\ d.hts \in Seq([code : Seq(Nat), general : Nat,
                    special : Seq([rate : Nat, programs : SUBSET STRING])])
  /\ d.addons \in Seq([code : Seq(Nat), program : STRING, rate : Nat])
  /\ d.exclusions \in Seq([code : Seq(Nat), active : BOOLEAN, expires : Nat \cup {None}])

\* Rates are whole percents here.  None is neither a number nor an entry.
DatasetAssumptions(datasets, days) ==
  /\ \A d \in datasets :
       /\ Coded(d)
       /\ \A i \in DOMAIN d.addons : d.addons[i] # None
       /\ \A i \in DOMAIN d.hts : d.hts[i] # None /\ None \notin ToSet(d.hts[i].special)
  /\ days \subseteq Nat /\ None \notin Nat /\ None \notin China

\* Option::or
Or(x, y) == IF x # None THEN x ELSE y

\* The first element that passes, or None.
FirstOf(s, Test(_)) == LET i == SelectInSeq(s, Test) IN IF i = 0 THEN None ELSE s[i]

----------------------------------------------------------------------------
(* classify.rs *)

\* A phrase matches whole words next to each other.
HasPhrase(words, phrase) == phrase # <<>> /\ phrase \in SubSeqs(words)

\* At least four words, three of them unknown.
LooksForeign(words) ==
  /\ Len(words) >= 4
  /\ Len(SelectSeq(words, LAMBDA w : w \notin Known)) >= 3

\* classify_component: the first rule with a term in the description and the
\* category read as one text.
Classify(description, category) ==
  LET words == description \o (IF category = None THEN <<>> ELSE category)
      rule  == FirstOf(Rules, LAMBDA r : \E t \in r.terms : HasPhrase(words, t))
  IN IF rule = None THEN [code |-> None, confidence |-> "unclassified"]
     ELSE [code |-> rule.code,
           confidence |-> IF description = <<>> \/ LooksForeign(words) THEN "low"
                          ELSE rule.confidence]

----------------------------------------------------------------------------
(* data.rs: look-ups in a dataset d *)

\* normalize_hts_key
Digits(code) == SelectSeq(code, LAMBDA c : c < 10)

Begins(c, e) == IsPrefix(c, e) \/ IsPrefix(e, c)

\* hts_codes_match: by their digits, however they are written.
Related(c, e) == Begins(Digits(c), Digits(e))

\* hts_by_code: the last entry of these digits.
ByCode(d, key) ==
  LET i == SelectLastInSeq(d.hts, LAMBDA e : Digits(e.code) = key)
  IN IF i = 0 THEN None ELSE d.hts[i]

\* find_hts_base: the code itself, the longest prefix of its digits, else
\* the first entry that begins with the code, or it with that, as written.
FindBase(d, code) ==
  LET key  == Digits(code)
      lens == {n \in ShortestCode..Len(key) : ByCode(d, SubSeq(key, 1, n)) # None}
  IN IF ByCode(d, key) # None THEN ByCode(d, key)
     ELSE IF lens # {} THEN ByCode(d, SubSeq(key, 1, Max(lens)))
     ELSE FirstOf(d.hts, LAMBDA e : Begins(code, e.code))

FindSpecial(d, code, program) ==
  LET entry == FindBase(d, code)
      s == IF entry = None THEN None
           ELSE FirstOf(entry.special, LAMBDA x : program \in x.programs)
  IN IF s = None THEN None ELSE s.rate

\* Mutation: the first addon of the file.
FindAddon_First(d, code, program) ==
  FirstOf(d.addons, LAMBDA a : a.program = program /\ Related(code, a.code))

\* find_addons, a stable sort by the length of the code as it is written,
\* dots and all, and the program's first.
FindAddon(d, code, program) ==
  LET fits(a) == a.program = program /\ Related(code, a.code)
      longest(a) == fits(a) /\ \A i \in DOMAIN d.addons :
                      fits(d.addons[i]) => Len(d.addons[i].code) <= Len(a.code)
  IN FirstOf(d.addons, longest)

\* find_exclusion: an exclusion still holds on the day it expires.
Excluded(d, code, today) ==
  \E i \in DOMAIN d.exclusions :
    LET x == d.exclusions[i] IN
    x.active /\ Related(code, x.code) /\ (x.expires = None \/ x.expires >= today)

\* normalize_party_name
PartyKey(name) ==
  LET kept == {n \in 1..Len(name) : name[n] \notin NameSuffixes}
  IN IF kept = {} THEN <<>> ELSE SubSeq(name, 1, Max(kept))

\* find_entity_list_match in the index from_parts builds.
Listed(d, maker) ==
  /\ maker # None /\ PartyKey(maker) # <<>>
  /\ \E i \in DOMAIN d.entities : \E n \in DOMAIN d.entities[i].names :
       PartyKey(d.entities[i].names[n]) = PartyKey(maker)

----------------------------------------------------------------------------
(* tariff.rs *)

\* resolve_base_duty: the special rate of the country's program, if the code
\* has one, else the general rate.
BaseDuty(d, code, origin) ==
  LET entry == FindBase(d, code)
      special == IF origin \in DOMAIN Programs THEN FindSpecial(d, code, Programs[origin]) ELSE None
  IN Or(special, IF entry = None THEN None ELSE entry.general)

Rate(addon) == IF addon = None THEN None ELSE addon.rate

\* section_301_outcome
Section301(addon, origin, excluded) ==
  IF ~excluded /\ origin \in China THEN Rate(addon) ELSE None

\* Mutation: what is not known counts as nothing.
ComputeTotal_Optimistic(base, s301, s232, origin, has301, excluded) ==
  IF base = None THEN None
  ELSE base + (IF s301 = None THEN 0 ELSE s301) + (IF s232 = None THEN 0 ELSE s232)

\* compute_total
ComputeTotal(base, s301, s232, origin, has301, excluded) ==
  IF base = None THEN None
  ELSE IF origin = None /\ has301 /\ ~excluded /\ s301 = None
       THEN (IF s232 = None THEN None ELSE base + s232)
  ELSE base + (IF s301 = None THEN 0 ELSE s301) + (IF s232 = None THEN 0 ELSE s232)

\* The duty of a code from a country, on a day.
Duty(d, code, origin, today) ==
  LET a301 == FindAddon(d, code, "section_301")
      s232 == Rate(FindAddon(d, code, "section_232_semiconductor"))
      excluded == Excluded(d, code, today)
      base == BaseDuty(d, code, origin)
      s301 == Section301(a301, origin, excluded)
  IN [base |-> base, s301 |-> s301,
      total |-> ComputeTotal(base, s301, s232, origin, a301 # None, excluded)]

NoDuty == [base |-> None, s301 |-> None, total |-> None]

\* assess_one, of [description, category, origin, maker]
Assess(d, input, today) ==
  LET c == Classify(input.description, input.category)
      duty == IF c.code = None THEN NoDuty ELSE Duty(d, c.code, input.origin, today)
  IN [code |-> c.code, confidence |-> c.confidence, total |-> duty.total,
      entity |-> Listed(d, input.maker)]

----------------------------------------------------------------------------
(* Properties *)

\* A total lies between the base rate with what else is certain and that with
\* what may be added; there is none when it is open or has no base.
TotalBetween(duty, certain, more, full, open) ==
  /\ duty.total = None <=> duty.base = None \/ open
  /\ duty.total # None =>
       /\ duty.base + certain <= duty.total /\ duty.total <= duty.base + certain + more
       /\ full => duty.total = duty.base + certain + more

\* The addons of a program that are related to a code, those of them whose
\* code is the longest as it is written, and the rate of the first of these.
AddonsOf(d, code, program) ==
  {i \in DOMAIN d.addons : d.addons[i].program = program /\ Related(code, d.addons[i].code)}
LongestOf(d, is) ==
  {i \in is : \A j \in is : Len(d.addons[j].code) <= Len(d.addons[i].code)}
RateOf(d, is) == IF is = {} THEN 0 ELSE d.addons[Min(LongestOf(d, is))].rate

\* An exclusion strikes what Section 301 adds, until its last day.
Struck(d, code, today) ==
  \E i \in DOMAIN d.exclusions :
    /\ d.exclusions[i].active /\ Related(code, d.exclusions[i].code)
    /\ d.exclusions[i].expires = None \/ today <= d.exclusions[i].expires

\* A total is what is certain, the base rate and Section 232, plus at most
\* what Section 301 may add, and that in full when the goods are known to be
\* from China.  There is none when there is no base rate, or when 301 may
\* apply to goods of unknown origin and nothing but 301 is added to the base
\* rate.  Which rates apply is decided by the addon whose code is longest as
\* the dataset writes it, the first of several, and by an exclusion until its
\* last day.  In a dataset that writes all codes in one way that is the most
\* specific code; in one that does not, it need not be.
DutyIsSoundOn(d, code, origin, today) ==
  LET certain == AddonsOf(d, code, "section_232_semiconductor")
      added   == AddonsOf(d, code, "section_301")
      struck  == Struck(d, code, today)
  IN TotalBetween(Duty(d, code, origin, today), RateOf(d, certain),
       IF struck \/ (origin # None /\ origin \notin China) THEN 0 ELSE RateOf(d, added),
       origin \in China,
       origin = None /\ ~struck /\ added # {} /\ certain = {})

=============================================================================
