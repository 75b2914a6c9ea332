--------------------------- MODULE ProvidersProofs ---------------------------
(***************************************************************************)
(* Proofs about the two parts of Backend that call the distributors,       *)
(* RateLimiter and Purchasing.  For any number of lookups, permits, caps   *)
(* and days the caps of a minute and of a day hold; for all carts,         *)
(* products and numbers of requests no order is silent, and a quote holds  *)
(* what it says.  What a loop over a sequence computes, the best break of  *)
(* a price list and the sum of a quote, is proved by induction in the form *)
(* of a least counterexample.                                              *)
(***************************************************************************)
EXTENDS Backend, FiniteSetTheorems, WellFoundedInduction, TLAPS

\* Induction on the natural numbers: a set of them that is not empty has a
\* least element.
LEMMA LeastNatural ==
  ASSUME NEW S, S \subseteq Nat, S # {}
  PROVE  \E m \in S : \A k \in S : m <= k
<1>1. PICK m \in S : \A k \in S : ~(<<k, m>> \in OpToRel(<, Nat))
  BY NatLessThanWellFounded, WFMin
<1>2. \A k \in S : ~(k < m)
  BY <1>1 DEF OpToRel
<1> QED BY <1>2

----------------------------------------------------------------------------
(* The limiter: its caps *)

LookupPcs == {"idle", "permit", "paused", "nap", "key", "day", "loop", "loopNap",
        "limit", "minute", "wait", "call", "putBurst", "daily", "putDaily", "answer"}

\* What is stored is within what has been the highest so far.
Caps ==
  /\ rlPc \in [Lookups -> LookupPcs] /\ rlHeld \in [Lookups -> Nat]
  /\ rlMaxMinute \in PerMinute..rlTopMinute /\ rlTopMinute \in PerMinute..PerMinute + Raise
  /\ rlMaxDay \in PerDay..rlTopDay /\ rlTopDay \in PerDay..PerDay + Raise

\* So is what a lookup has read and goes on with after it has waited.
HeldIs(c) ==
  /\ rlPc[c] = "day" => rlHeld[c] <= rlTopDay
  /\ rlPc[c] = "minute" => rlHeld[c] \in 1..rlTopMinute
  /\ rlPc[c] = "putBurst" => rlHeld[c] \in PerMinute..PerMinute + Raise
  /\ rlPc[c] = "putDaily" => rlHeld[c] \in PerDay..PerDay + Raise

CapsInv == Caps /\ \A c \in Lookups : HeldIs(c)

TopsRise == rlTopMinute <= rlTopMinute' /\ rlTopDay <= rlTopDay'

LEMMA LimiterNumbers ==
  /\ PerMinute \in Nat \ {0} /\ PerDay \in Nat \ {0} /\ Raise \in Nat /\ Minute \in Nat \ {0}
  /\ LongestPause \in Nat \ {0} /\ LastAttempt \in Nat /\ MaxLookups \in Nat /\ LastDay \in Nat
  /\ Permits \in Nat \ {0}
BY LimiterBounds DEF Limiter!Bounds

LEMMA InitCaps == Limiter!Init => CapsInv
BY LimiterNumbers DEF Limiter!Init, CapsInv, Caps, HeldIs, LookupPcs

\* A step of lookup c leaves what others have read.
LEMMA OthersHold ==
  ASSUME CapsInv, NEW c \in Lookups, Caps', TopsRise, HeldIs(c)',
         \A d \in Lookups \ {c} : rlPc'[d] = rlPc[d] /\ rlHeld'[d] = rlHeld[d]
  PROVE  CapsInv'
<1>1. \A d \in Lookups \ {c} : HeldIs(d)'
  BY LimiterNumbers DEF CapsInv, Caps, HeldIs, TopsRise
<1> QED BY <1>1 DEF CapsInv

\* The next step of a lookup that holds nothing.
Empty == LookupPcs \ {"day", "minute", "putBurst", "putDaily"}

LEMMA EmptyKeepsCaps ==
  ASSUME CapsInv, NEW c \in Lookups, UNCHANGED Limiter!caps,
         NEW x \in Empty, rlPc' = [rlPc EXCEPT ![c] = x],
         NEW h \in Nat, rlHeld' = [rlHeld EXCEPT ![c] = h]
  PROVE  CapsInv' /\ TopsRise
<1>1. Caps' /\ TopsRise
  BY LimiterNumbers DEF CapsInv, Caps, TopsRise, Empty, Limiter!caps, Limiter!minuteCap, Limiter!dayCap
<1>2. rlPc'[c] = x
  BY DEF CapsInv, Caps
<1>3. HeldIs(c)'
  BY <1>2 DEF HeldIs, Empty
<1>4. \A d \in Lookups \ {c} : rlPc'[d] = rlPc[d] /\ rlHeld'[d] = rlHeld[d]
  BY DEF CapsInv, Caps
<1> QED BY <1>1, <1>3, <1>4, OthersHold

\* What the steps that neither read nor store a cap have in common.
Blind(c) ==
  \/ Limiter!Lookup(c) \/ Limiter!Acquire(c) \/ Limiter!WakeUp(c) \/ Limiter!Answer(c)
  \/ Limiter!WaitIfPaused(c, "paused", "nap", "key")
  \/ Limiter!WaitIfPaused(c, "loop", "loopNap", "limit")

LEMMA BlindIs ==
  ASSUME NEW c \in Lookups, Caps, Blind(c)
  PROVE  /\ UNCHANGED Limiter!caps /\ rlHeld' = [rlHeld EXCEPT ![c] = rlHeld[c]]
         /\ \E x \in Empty : rlPc' = [rlPc EXCEPT ![c] = x]
<1>1. UNCHANGED Limiter!caps /\ UNCHANGED rlHeld
  BY DEF Blind, Limiter!Lookup, Limiter!Acquire, Limiter!WakeUp, Limiter!WaitIfPaused, Limiter!Answer,
     Limiter!Answered, Limiter!NotFound, Limiter!TooMany, Limiter!locals
<1>2. \E x \in Empty : rlPc' = [rlPc EXCEPT ![c] = x]
  BY DEF Blind, Limiter!Lookup, Limiter!Acquire, Limiter!WakeUp, Limiter!WaitIfPaused, Limiter!Answer,
     Limiter!Answered, Limiter!NotFound, Limiter!TooMany, Limiter!GotoFromCall, Limiter!Goto, Empty,
     LookupPcs
<1> QED BY <1>1, <1>2 DEF Caps

LEMMA ReadsKeepCaps ==
  ASSUME CapsInv, NEW c \in Lookups,
         Limiter!ReadDay(c) \/ Limiter!ReadLimit(c) \/ Limiter!ReadBurst(c) \/ Limiter!ReadDaily(c)
  PROVE  CapsInv' /\ TopsRise
<1>1. UNCHANGED <<rlMaxMinute, rlTopMinute, rlMaxDay, rlTopDay>>
  BY DEF Limiter!ReadDay, Limiter!ReadLimit, Limiter!ReadBurst, Limiter!ReadDaily, Limiter!caps,
     Limiter!minuteCap, Limiter!dayCap
<1>2. PICK x \in LookupPcs, h \in Nat :
        /\ rlPc' = [rlPc EXCEPT ![c] = x] /\ rlHeld' = [rlHeld EXCEPT ![c] = h]
        /\ \/ x = "day" /\ h = rlMaxDay
           \/ x = "minute" /\ h = rlMaxMinute
           \/ x = "putBurst" /\ h \in PerMinute..PerMinute + Raise
           \/ x = "putDaily" /\ h \in PerDay..PerDay + Raise
  <2>0. rlMaxDay \in Nat /\ rlMaxMinute \in Nat
    BY LimiterNumbers DEF CapsInv, Caps
  <2>1. CASE Limiter!ReadDay(c)
    <3>1. /\ rlPc' = [rlPc EXCEPT ![c] = "day"] /\ "day" \in LookupPcs
          /\ rlHeld' = [rlHeld EXCEPT ![c] = rlMaxDay]
      BY <2>1 DEF Limiter!ReadDay, Limiter!Goto, LookupPcs
    <3> QED BY <2>0, <3>1
  <2>2. CASE Limiter!ReadLimit(c)
    <3>1. /\ rlPc' = [rlPc EXCEPT ![c] = "minute"] /\ "minute" \in LookupPcs
          /\ rlHeld' = [rlHeld EXCEPT ![c] = rlMaxMinute]
      BY <2>2 DEF Limiter!ReadLimit, Limiter!Goto, LookupPcs
    <3> QED BY <2>0, <3>1
  <2>3. CASE Limiter!ReadBurst(c)
    <3>1. PICK m \in rlMaxMinute + 1..PerMinute + Raise : rlHeld' = [rlHeld EXCEPT ![c] = m]
      BY <2>3 DEF Limiter!ReadBurst
    <3>2. m \in PerMinute..PerMinute + Raise /\ m \in Nat
      BY <3>1, LimiterNumbers DEF CapsInv, Caps
    <3>3. rlPc' = [rlPc EXCEPT ![c] = "putBurst"] /\ "putBurst" \in LookupPcs
      BY <2>3 DEF Limiter!ReadBurst, Limiter!Goto, LookupPcs
    <3> QED BY <3>1, <3>2, <3>3
  <2>4. CASE Limiter!ReadDaily(c)
    <3>1. PICK m \in rlMaxDay + 1..PerDay + Raise : rlHeld' = [rlHeld EXCEPT ![c] = m]
      BY <2>4 DEF Limiter!ReadDaily
    <3>2. m \in PerDay..PerDay + Raise /\ m \in Nat
      BY <3>1, LimiterNumbers DEF CapsInv, Caps
    <3>3. rlPc' = [rlPc EXCEPT ![c] = "putDaily"] /\ "putDaily" \in LookupPcs
      BY <2>4 DEF Limiter!ReadDaily, Limiter!Goto, LookupPcs
    <3> QED BY <3>1, <3>2, <3>3
  <2> QED BY <2>1, <2>2, <2>3, <2>4
<1>3. Caps' /\ TopsRise
  BY <1>1, <1>2, LimiterNumbers DEF CapsInv, Caps, TopsRise
<1>4. rlPc'[c] = x /\ rlHeld'[c] = h
  BY <1>2 DEF CapsInv, Caps
<1>5. HeldIs(c)'
  BY <1>1, <1>2, <1>4, LimiterNumbers DEF CapsInv, Caps, HeldIs
<1>6. \A d \in Lookups \ {c} : rlPc'[d] = rlPc[d] /\ rlHeld'[d] = rlHeld[d]
  BY <1>2 DEF CapsInv, Caps
<1> QED BY <1>3, <1>5, <1>6, OthersHold

\* A late store may lower a cap, and never below what it was to begin with.
LEMMA StoresKeepCaps ==
  ASSUME CapsInv, NEW c \in Lookups, Limiter!StoreBurst(c) \/ Limiter!StoreDaily(c)
  PROVE  CapsInv' /\ TopsRise
<1>1. PICK x \in Empty : rlPc' = [rlPc EXCEPT ![c] = x]
  BY DEF Limiter!StoreBurst, Limiter!StoreDaily, Limiter!Goto, Empty, LookupPcs
<1>2. rlHeld' = [rlHeld EXCEPT ![c] = 0]
  BY DEF Limiter!StoreBurst, Limiter!StoreDaily
<1>3. rlPc' \in [Lookups -> LookupPcs] /\ rlHeld' \in [Lookups -> Nat] /\ rlPc'[c] = x
  BY <1>1, <1>2 DEF CapsInv, Caps, Empty
<1>4. /\ rlMaxMinute' \in PerMinute..rlTopMinute' /\ rlTopMinute' \in PerMinute..PerMinute + Raise
      /\ rlMaxDay' \in PerDay..rlTopDay' /\ rlTopDay' \in PerDay..PerDay + Raise
      /\ TopsRise
  <2>1. CASE Limiter!StoreBurst(c)
    <3>1. rlHeld[c] \in PerMinute..PerMinute + Raise
      BY <2>1 DEF CapsInv, HeldIs, Limiter!StoreBurst, Limiter!Goto
    <3> QED BY <2>1, <3>1, LimiterNumbers DEF CapsInv, Caps, TopsRise, Limiter!StoreBurst,
               Limiter!Greater, Limiter!dayCap
  <2>2. CASE Limiter!StoreDaily(c)
    <3>1. rlHeld[c] \in PerDay..PerDay + Raise
      BY <2>2 DEF CapsInv, HeldIs, Limiter!StoreDaily, Limiter!Goto
    <3> QED BY <2>2, <3>1, LimiterNumbers DEF CapsInv, Caps, TopsRise, Limiter!StoreDaily,
               Limiter!Greater, Limiter!minuteCap
  <2> QED BY <2>1, <2>2
<1>5. HeldIs(c)'
  BY <1>3 DEF HeldIs, Empty
<1>6. \A d \in Lookups \ {c} : rlPc'[d] = rlPc[d] /\ rlHeld'[d] = rlHeld[d]
  BY <1>1, <1>2 DEF CapsInv, Caps
<1>7. Caps'
  BY <1>3, <1>4 DEF Caps
<1> QED BY <1>4, <1>5, <1>6, <1>7, OthersHold

LEMMA NextKeepsCaps == CapsInv /\ [Limiter!Next]_(Limiter!vars) => CapsInv' /\ TopsRise
<1> SUFFICES ASSUME CapsInv, [Limiter!Next]_(Limiter!vars) PROVE CapsInv' /\ TopsRise
  OBVIOUS
<1>1. ASSUME NEW c \in Lookups, Blind(c) PROVE CapsInv' /\ TopsRise
  <2>1. rlHeld[c] \in Nat /\ Caps
    BY DEF CapsInv, Caps
  <2> QED BY <1>1, <2>1, BlindIs, EmptyKeepsCaps
<1>2. ASSUME NEW c \in Lookups, Limiter!CountDay(c) \/ Limiter!TakeSlot(c) PROVE CapsInv' /\ TopsRise
  <2>1. UNCHANGED Limiter!caps /\ rlHeld' = [rlHeld EXCEPT ![c] = 0]
    BY <1>2 DEF Limiter!CountDay, Limiter!TakeSlot
  <2>2. \E x \in Empty : rlPc' = [rlPc EXCEPT ![c] = x]
    BY <1>2 DEF Limiter!CountDay, Limiter!TakeSlot, Limiter!Goto, Empty, LookupPcs
  <2> QED BY <2>1, <2>2, EmptyKeepsCaps
<1>3. ASSUME NEW c \in Lookups, Limiter!Lookup(c) \/ Limiter!Step(c) PROVE CapsInv' /\ TopsRise
  BY <1>1, <1>2, <1>3, ReadsKeepCaps, StoresKeepCaps DEF Limiter!Step, Limiter!Observe, Blind
<1>4. ASSUME UNCHANGED <<rlPc, rlHeld, rlMaxMinute, rlTopMinute, rlMaxDay, rlTopDay>>
      PROVE  CapsInv' /\ TopsRise
  BY <1>4, LimiterNumbers DEF CapsInv, Caps, HeldIs, TopsRise
<1>5. CASE Limiter!Tick \/ Limiter!Midnight
  BY <1>4, <1>5 DEF Limiter!Tick, Limiter!Midnight, Limiter!locals, Limiter!caps, Limiter!minuteCap,
     Limiter!dayCap
<1>6. CASE UNCHANGED Limiter!vars
  BY <1>4, <1>6 DEF Limiter!vars
<1> QED BY <1>3, <1>5, <1>6 DEF Limiter!Next

----------------------------------------------------------------------------
(* The limiter: the slots of a day *)

\* Lookups that have taken their share of day d and not its slot.
Sharing == {"loop", "loopNap", "limit", "minute", "wait"}
Holding(d) == {c \in Lookups : rlPc[c] \in Sharing /\ rlKey[c] = d}

\* Lookups that read the calendar before today, and of these the ones that have
\* not counted themselves yet.
Late    == {c \in Lookups : rlPc[c] \in Sharing \cup {"day"} /\ rlKey[c] < rlToday}
LateDay == {c \in Lookups : rlPc[c] = "day" /\ rlKey[c] < rlToday}

\* The part of TypeOK that the days rest on.
Shape ==
  /\ rlKey \in [Lookups -> Nat] /\ rlDayKey \in Nat /\ rlDayCount \in Nat /\ rlToday \in Nat
  /\ rlSpent \in Nat /\ rlCarried \in Nat /\ rlBackdated \in Nat

\* What has been counted of today, with as much as was dropped with its count.
CountedToday == IF rlDayKey = rlToday THEN rlDayCount ELSE 0

\* Nobody is ahead of the calendar; today's slots and the shares still to
\* become slots are counted, or were before a count was dropped.
DayInv ==
  /\ rlDayKey <= rlToday /\ \A c \in Lookups : rlKey[c] <= rlToday
  /\ rlDayCount <= rlTopDay
  /\ rlSpent + Cardinality(Holding(rlToday)) <= rlBackdated * rlTopDay + CountedToday

\* Whoever is late has had its permit since before midnight.
LateInv ==
  /\ Cardinality(Limiter!Running) <= Permits
  /\ rlCarried + Cardinality(Late) <= Permits
  /\ rlBackdated + Cardinality(LateDay) <= Permits

DaysInv == Shape /\ DayInv /\ LateInv

LEMMA LookupsFinite == IsFiniteSet(Lookups)
BY LimiterBounds DEF Limiter!Bounds, Limiter!IsFiniteSet, IsFiniteSet

LEMMA HoldingFinite ==
  ASSUME NEW d
  PROVE  IsFiniteSet(Holding(d)) /\ Cardinality(Holding(d)) \in Nat
BY LookupsFinite, FS_Subset, FS_CardinalityType DEF Holding

LEMMA LateFinite ==
  /\ IsFiniteSet(Late) /\ Cardinality(Late) \in Nat
  /\ IsFiniteSet(LateDay) /\ Cardinality(LateDay) \in Nat
  /\ IsFiniteSet(Limiter!Running) /\ Cardinality(Limiter!Running) \in Nat
<1>1. Late \subseteq Lookups /\ LateDay \subseteq Lookups /\ Limiter!Running \subseteq Lookups
  BY DEF Late, LateDay, Limiter!Running
<1> QED BY <1>1, LookupsFinite, FS_Subset, FS_CardinalityType

\* RateLimiter's Cardinality is that of FiniteSets.
LEMMA RunningCount == Limiter!Cardinality(Limiter!Running) = Cardinality(Limiter!Running)
<1>1. \A S : Limiter!Cardinality(S) = Cardinality(S)
  BY DEF Limiter!Cardinality, Cardinality
<1> QED BY <1>1

\* More of a higher cap is no less.
LEMMA TimesRises ==
  ASSUME NEW a \in Nat, NEW b \in Nat, NEW c \in Nat, b <= c
  PROVE  a * b \in Nat /\ a * b <= a * c /\ a * c \in Nat /\ (a + 1) * b = a * b + b
OBVIOUS

LEMMA InitDay == Limiter!Init => DaysInv
<1> SUFFICES ASSUME Limiter!Init PROVE DaysInv
  OBVIOUS
<1>1. Shape
  BY DEF Limiter!Init, Shape
<1>2. Holding(rlToday) = {} /\ Late = {} /\ LateDay = {} /\ Limiter!Running = {}
  BY DEF Limiter!Init, Holding, Late, LateDay, Limiter!Running, Sharing
<1>3. Cardinality({}) = 0
  BY FS_EmptySet
<1>4. DayInv
  <2>1. Cardinality(Holding(rlToday)) = 0
    BY <1>2, <1>3
  <2>2. rlBackdated * rlTopDay = 0 /\ CountedToday = 0 /\ rlSpent = 0
    BY LimiterNumbers DEF Limiter!Init, CountedToday
  <2>3. rlSpent + Cardinality(Holding(rlToday)) <= rlBackdated * rlTopDay + CountedToday
    BY <2>1, <2>2
  <2>4. rlDayKey <= rlToday /\ (\A c \in Lookups : rlKey[c] <= rlToday) /\ rlDayCount <= rlTopDay
    BY LimiterNumbers DEF Limiter!Init
  <2> QED BY <2>3, <2>4 DEF DayInv
<1>5. LateInv
  BY <1>2, <1>3, LimiterNumbers DEF Limiter!Init, LateInv
<1> QED BY <1>1, <1>4, <1>5 DEF DaysInv

\* A step that keeps the days, and neither takes a share nor a slot.
Quiet(c) ==
  /\ UNCHANGED <<rlToday, rlDayKey, rlDayCount, rlSpent, rlCarried, rlBackdated>>
  /\ \E x \in LookupPcs :
       /\ rlPc' = [rlPc EXCEPT ![c] = x]
       /\ x \in Sharing <=> rlPc[c] \in Sharing
       /\ \/ x # "day" /\ rlKey' = rlKey
          \/ x = "day" /\ rlKey' = [rlKey EXCEPT ![c] = rlToday]
       /\ \/ x \in {"idle", "permit"} \/ rlPc[c] \notin {"idle", "permit"}
          \/ Cardinality(Limiter!Running) < Permits

LEMMA BlindIsQuiet ==
  ASSUME CapsInv, NEW c \in Lookups, Blind(c) PROVE Quiet(c)
<1>1. UNCHANGED <<rlToday, rlDayKey, rlDayCount, rlSpent, rlCarried, rlBackdated, rlKey>>
  BY DEF Blind, Limiter!Lookup, Limiter!Acquire, Limiter!WakeUp, Limiter!WaitIfPaused, Limiter!Answer,
     Limiter!Answered, Limiter!NotFound, Limiter!TooMany, Limiter!locals, Limiter!days, Limiter!slots
<1>2. PICK x \in LookupPcs :
        /\ rlPc' = [rlPc EXCEPT ![c] = x] /\ x # "day"
        /\ x \in Sharing <=> rlPc[c] \in Sharing
        /\ \/ x \in {"idle", "permit"} \/ rlPc[c] \notin {"idle", "permit"}
           \/ Limiter!Acquire(c)
  BY DEF Blind, Limiter!Lookup, Limiter!Acquire, Limiter!WakeUp, Limiter!WaitIfPaused, Limiter!Answer,
     Limiter!Answered, Limiter!NotFound, Limiter!TooMany, Limiter!GotoFromCall, Limiter!Goto, LookupPcs,
     Sharing
<1>3. Limiter!Acquire(c) => Cardinality(Limiter!Running) < Permits
  BY RunningCount DEF Limiter!Acquire
<1> QED BY <1>1, <1>2, <1>3 DEF Quiet

LEMMA CapStepIsQuiet ==
  ASSUME CapsInv, NEW c \in Lookups,
         Limiter!ReadDay(c) \/ Limiter!ReadLimit(c) \/ Limiter!Observe(c)
  PROVE  Quiet(c)
<1>1. UNCHANGED <<rlToday, rlDayKey, rlDayCount, rlSpent, rlCarried, rlBackdated>>
  BY DEF Limiter!ReadDay, Limiter!ReadLimit, Limiter!Observe, Limiter!ReadBurst, Limiter!StoreBurst,
     Limiter!ReadDaily, Limiter!StoreDaily, Limiter!days, Limiter!slots
<1>2. PICK x \in LookupPcs :
        /\ rlPc' = [rlPc EXCEPT ![c] = x]
        /\ x \in Sharing <=> rlPc[c] \in Sharing
        /\ \/ x # "day" /\ rlKey' = rlKey
           \/ x = "day" /\ rlKey' = [rlKey EXCEPT ![c] = rlToday]
        /\ rlPc[c] \notin {"idle", "permit"}
  BY DEF Limiter!ReadDay, Limiter!ReadLimit, Limiter!Observe, Limiter!ReadBurst, Limiter!StoreBurst,
     Limiter!ReadDaily, Limiter!StoreDaily, Limiter!Goto, LookupPcs, Sharing
<1> QED BY <1>1, <1>2 DEF Quiet

\* The budget of the day only grows with the cap.
LEMMA BudgetRises ==
  ASSUME Shape, CapsInv, CapsInv', TopsRise
  PROVE  /\ rlBackdated * rlTopDay \in Nat /\ rlBackdated * rlTopDay' \in Nat
         /\ rlBackdated * rlTopDay <= rlBackdated * rlTopDay'
<1>1. rlBackdated \in Nat /\ rlTopDay \in Nat /\ rlTopDay' \in Nat /\ rlTopDay <= rlTopDay'
  BY LimiterNumbers DEF Shape, CapsInv, Caps, TopsRise
<1> QED BY <1>1, TimesRises

LEMMA QuietKeepsDays ==
  ASSUME DaysInv, CapsInv, CapsInv', TopsRise, NEW c \in Lookups, Quiet(c)
  PROVE  DaysInv'
<1>1. PICK x \in LookupPcs :
        /\ rlPc' = [rlPc EXCEPT ![c] = x]
        /\ x \in Sharing <=> rlPc[c] \in Sharing
        /\ \/ x # "day" /\ rlKey' = rlKey
           \/ x = "day" /\ rlKey' = [rlKey EXCEPT ![c] = rlToday]
        /\ \/ x \in {"idle", "permit"} \/ rlPc[c] \notin {"idle", "permit"}
           \/ Cardinality(Limiter!Running) < Permits
  BY DEF Quiet
<1>2. UNCHANGED <<rlToday, rlDayKey, rlDayCount, rlSpent, rlCarried, rlBackdated>>
  BY DEF Quiet
<1>3. /\ rlPc \in [Lookups -> LookupPcs] /\ rlKey \in [Lookups -> Nat] /\ rlToday \in Nat
      /\ \A d \in Lookups : rlKey[d] <= rlToday
  BY DEF CapsInv, Caps, DaysInv, Shape, DayInv
<1>4. rlPc'[c] = x /\ (x # "day" => rlKey' = rlKey) /\ (x = "day" => rlKey'[c] = rlToday)
  BY <1>1, <1>3
<1>5. \A d \in Lookups \ {c} : rlPc'[d] = rlPc[d] /\ rlKey'[d] = rlKey[d]
  BY <1>1, <1>3
<1>6. rlKey' \in [Lookups -> Nat] /\ \A d \in Lookups : rlKey'[d] <= rlToday
  BY <1>1, <1>3
<1>7. Holding(rlToday)' = Holding(rlToday)
  <2>1. c \in Holding(rlToday)' <=> c \in Holding(rlToday)
    BY <1>1, <1>2, <1>4 DEF Holding, Sharing
  <2> QED BY <1>2, <1>5, <2>1 DEF Holding
<1>8. Late' \subseteq Late /\ LateDay' \subseteq LateDay
  <2>1. (c \in Late' => c \in Late) /\ c \notin LateDay'
    BY <1>1, <1>2, <1>3, <1>4, <1>6 DEF Late, LateDay, Sharing
  <2> QED BY <1>2, <1>5, <2>1 DEF Late, LateDay
<1>9. Shape'
  BY <1>2, <1>6 DEF DaysInv, Shape
<1>10. DayInv'
  <2>1. CountedToday' = CountedToday /\ rlTopDay \in Nat /\ rlTopDay' \in Nat /\ rlTopDay <= rlTopDay'
    BY <1>2, LimiterNumbers DEF CountedToday, CapsInv, Caps, TopsRise
  <2>2. /\ rlBackdated * rlTopDay \in Nat /\ rlBackdated * rlTopDay' \in Nat
        /\ rlBackdated * rlTopDay <= rlBackdated * rlTopDay'
    BY BudgetRises DEF DaysInv
  <2>3. rlDayCount' <= rlTopDay'
    BY <1>2, <2>1 DEF DaysInv, Shape, DayInv
  <2>4. CountedToday \in Nat
    BY DEF CountedToday, DaysInv, Shape
  <2>5. PICK p, q : p = rlBackdated * rlTopDay /\ q = rlBackdated * rlTopDay'
    OBVIOUS
  <2>6. rlSpent + Cardinality(Holding(rlToday)) <= p + CountedToday
    BY <2>5 DEF DaysInv, DayInv
  <2>7. p \in Nat /\ p <= q /\ q \in Nat
    BY <2>2, <2>5
  <2>8. rlSpent + Cardinality(Holding(rlToday)) <= q + CountedToday
    BY <2>4, <2>6, <2>7, HoldingFinite DEF DaysInv, Shape
  <2>9. rlSpent' + Cardinality(Holding(rlToday)') <= rlBackdated' * rlTopDay' + CountedToday'
    BY <1>2, <1>7, <2>1, <2>5, <2>8
  <2> QED BY <1>2, <1>6, <2>3, <2>9 DEF DaysInv, DayInv, Holding
<1>11. LateInv'
  <2>1. Cardinality(Late') <= Cardinality(Late) /\ Cardinality(LateDay') <= Cardinality(LateDay)
    BY <1>8, LateFinite, FS_Subset
  <2>2. Cardinality(Late') \in Nat /\ Cardinality(LateDay') \in Nat
    BY <1>8, LateFinite, FS_Subset, FS_CardinalityType
  <2>3. Cardinality(Limiter!Running') <= Permits
    <3>1. Cardinality(Limiter!Running) <= Permits
      BY DEF DaysInv, LateInv
    <3>2. CASE x \in {"idle", "permit"} \/ rlPc[c] \notin {"idle", "permit"}
      <4>1. Limiter!Running' \subseteq Limiter!Running
        BY <1>3, <1>4, <1>5, <3>2 DEF Limiter!Running
      <4>2. Cardinality(Limiter!Running') <= Cardinality(Limiter!Running) /\ Cardinality(Limiter!Running') \in Nat
        BY <4>1, LateFinite, FS_Subset, FS_CardinalityType
      <4> QED BY <3>1, <4>2, LateFinite, LimiterNumbers
    <3>3. CASE Cardinality(Limiter!Running) < Permits
      <4>1. Limiter!Running' \subseteq Limiter!Running \cup {c}
        BY <1>4, <1>5 DEF Limiter!Running
      <4>2. IsFiniteSet(Limiter!Running \cup {c})
            /\ Cardinality(Limiter!Running \cup {c}) <= Cardinality(Limiter!Running) + 1
        <5>1. PICK R : R = Limiter!Running
          OBVIOUS
        <5>2. IsFiniteSet(R) /\ Cardinality(R) \in Nat
          BY <5>1, LateFinite
        <5>3. /\ IsFiniteSet(R \cup {c})
              /\ Cardinality(R \cup {c}) = Cardinality(R) \/ Cardinality(R \cup {c}) = Cardinality(R) + 1
          BY <5>2, FS_AddElement
        <5>4. Cardinality(R \cup {c}) <= Cardinality(R) + 1
          BY <5>2, <5>3
        <5> QED BY <5>1, <5>3, <5>4
      <4>3. /\ Cardinality(Limiter!Running') <= Cardinality(Limiter!Running \cup {c})
            /\ Cardinality(Limiter!Running') \in Nat /\ Cardinality(Limiter!Running \cup {c}) \in Nat
        BY <4>1, <4>2, FS_Subset, FS_CardinalityType
      <4> QED BY <3>3, <4>2, <4>3, LateFinite, LimiterNumbers
    <3> QED BY <1>1, <3>2, <3>3
  <2>4. rlCarried' + Cardinality(Late') <= Permits /\ rlBackdated' + Cardinality(LateDay') <= Permits
    BY <1>2, <2>1, <2>2, LateFinite, LimiterNumbers DEF DaysInv, LateInv, Shape
  <2> QED BY <2>3, <2>4 DEF LateInv
<1> QED BY <1>9, <1>10, <1>11 DEF DaysInv

\* The share that is counted is held from then on; a count that is dropped was
\* no more than the cap.
LEMMA CountDayKeepsToday ==
  ASSUME DaysInv, CapsInv, NEW c \in Lookups, Limiter!CountDay(c) PROVE DayInv'
<1>1. /\ rlPc \in [Lookups -> LookupPcs] /\ rlKey \in [Lookups -> Nat] /\ rlToday \in Nat
      /\ rlDayKey \in Nat /\ rlDayCount \in Nat /\ rlSpent \in Nat /\ rlBackdated \in Nat
      /\ rlTopDay \in Nat /\ rlHeld[c] <= rlTopDay /\ rlHeld[c] \in Nat
      /\ rlDayKey <= rlToday /\ \A d \in Lookups : rlKey[d] <= rlToday
      /\ rlDayCount <= rlTopDay /\ rlPc[c] = "day"
  BY LimiterNumbers DEF CapsInv, Caps, HeldIs, DaysInv, Shape, DayInv, Limiter!CountDay
<1>2. UNCHANGED <<rlToday, rlSpent, rlTopDay>> /\ rlDayKey' = rlKey[c]
  BY DEF Limiter!CountDay, Limiter!caps, Limiter!dayCap, Limiter!slots
<1>3. Limiter!Counted(c) \in Nat /\ Limiter!Counted(c) = IF rlDayKey = rlKey[c] THEN rlDayCount ELSE 0
  BY <1>1 DEF Limiter!Counted
<1>4. \/ /\ rlDayCount' = Limiter!Counted(c) + 1 /\ Limiter!Counted(c) < rlHeld[c]
         /\ rlPc' = [rlPc EXCEPT ![c] = "loop"] /\ rlKey' = rlKey
      \/ /\ rlDayCount' = Limiter!Counted(c)
         /\ rlPc' = [rlPc EXCEPT ![c] = "idle"] /\ rlKey' = [rlKey EXCEPT ![c] = 0]
  BY DEF Limiter!CountDay, Limiter!Goto, Limiter!Share
<1>5. rlDayCount' \in Nat /\ rlDayCount' <= rlTopDay /\ \A d \in Lookups : rlKey'[d] <= rlToday
  BY <1>1, <1>3, <1>4
<1>6. PICK p, n : p = rlBackdated * rlTopDay /\ n = Cardinality(Holding(rlToday))
  OBVIOUS
<1>7. p \in Nat /\ n \in Nat /\ rlSpent + n <= p + CountedToday
  <2>1. p \in Nat
    BY <1>1, <1>6, TimesRises
  <2> QED BY <1>6, <2>1, HoldingFinite DEF DaysInv, DayInv
<1>8. c \notin Holding(rlToday)
  BY <1>1 DEF Holding, Sharing
<1>9. \A d \in Lookups \ {c} : rlPc'[d] = rlPc[d] /\ rlKey'[d] = rlKey[d]
  BY <1>1, <1>4
<1>10. CASE rlKey[c] = rlToday
  <2>1. rlBackdated' = rlBackdated
    BY <1>1, <1>10 DEF Limiter!CountDay
  <2>2. CountedToday' = rlDayCount' /\ CountedToday = Limiter!Counted(c)
    BY <1>2, <1>3, <1>10 DEF CountedToday
  <2>3. CASE /\ rlDayCount' = Limiter!Counted(c) + 1
             /\ rlPc' = [rlPc EXCEPT ![c] = "loop"] /\ rlKey' = rlKey
    <3>1. Holding(rlToday)' = Holding(rlToday) \cup {c}
      BY <1>1, <1>2, <1>10, <2>3 DEF Holding, Sharing
    <3>2. Cardinality(Holding(rlToday)') = n + 1
      BY <1>6, <1>8, <3>1, HoldingFinite, FS_AddElement
    <3>3. rlSpent' + (n + 1) <= p + CountedToday'
      BY <1>1, <1>2, <1>3, <1>7, <2>2, <2>3
    <3>4. rlSpent' + Cardinality(Holding(rlToday)') <= rlBackdated' * rlTopDay' + CountedToday'
      BY <1>2, <1>6, <2>1, <3>2, <3>3
    <3> QED BY <1>1, <1>2, <1>5, <3>4 DEF DayInv, Holding
  <2>4. CASE /\ rlDayCount' = Limiter!Counted(c)
             /\ rlPc' = [rlPc EXCEPT ![c] = "idle"] /\ rlKey' = [rlKey EXCEPT ![c] = 0]
    <3>1. Holding(rlToday)' = Holding(rlToday)
      BY <1>1, <1>2, <2>4 DEF Holding, Sharing
    <3>2. rlSpent' + n <= p + CountedToday'
      BY <1>2, <1>7, <2>2, <2>4
    <3>3. rlSpent' + Cardinality(Holding(rlToday)') <= rlBackdated' * rlTopDay' + CountedToday'
      BY <1>2, <1>6, <2>1, <3>1, <3>2
    <3> QED BY <1>1, <1>2, <1>5, <3>3 DEF DayInv, Holding
  <2> QED BY <1>4, <2>3, <2>4
<1>11. CASE rlKey[c] # rlToday
  <2>1. rlKey[c] < rlToday /\ CountedToday' = 0
    BY <1>1, <1>2, <1>11 DEF CountedToday
  <2>2. Holding(rlToday)' = Holding(rlToday)
    <3>1. c \notin Holding(rlToday)'
      BY <1>1, <1>2, <1>4, <1>11 DEF Holding, Sharing
    <3> QED BY <1>2, <1>8, <1>9, <3>1 DEF Holding
  <2>3. rlSpent + n <= rlBackdated' * rlTopDay
    <3>1. CASE rlDayKey = rlToday
      <4>1. rlBackdated' = rlBackdated + 1 /\ CountedToday = rlDayCount
        BY <2>1, <3>1 DEF Limiter!CountDay, CountedToday
      <4>2. (rlBackdated + 1) * rlTopDay = p + rlTopDay
        BY <1>1, <1>6, TimesRises
      <4>3. rlSpent + n <= p + rlTopDay
        BY <1>1, <1>7, <4>1
      <4> QED BY <4>1, <4>2, <4>3
    <3>2. CASE rlDayKey # rlToday
      <4>1. rlBackdated' = rlBackdated /\ CountedToday = 0
        BY <2>1, <3>2 DEF Limiter!CountDay, CountedToday
      <4>2. rlSpent + n <= p
        BY <1>1, <1>7, <4>1
      <4> QED BY <1>6, <4>1, <4>2
    <3> QED BY <3>1, <3>2
  <2>4. PICK q : q = rlBackdated' * rlTopDay
    OBVIOUS
  <2>5. q \in Nat
    <3>1. PICK b : b = rlBackdated'
      OBVIOUS
    <3>2. b \in Nat
      BY <1>1, <3>1 DEF Limiter!CountDay
    <3>3. b * rlTopDay \in Nat
      BY <1>1, <3>2, TimesRises
    <3> QED BY <2>4, <3>1, <3>3
  <2>6. rlSpent' + n <= q + CountedToday'
    BY <1>1, <1>2, <1>7, <2>1, <2>3, <2>4, <2>5
  <2>7. rlSpent' + Cardinality(Holding(rlToday)') <= rlBackdated' * rlTopDay' + CountedToday'
    BY <1>2, <1>6, <2>2, <2>4, <2>6
  <2> QED BY <1>1, <1>2, <1>5, <2>7 DEF DayInv, Holding
<1> QED BY <1>10, <1>11

\* A lookup of a day before is late with its share as it was without, and drops
\* a count once.
LEMMA CountDayKeepsLate ==
  ASSUME DaysInv, CapsInv, NEW c \in Lookups, Limiter!CountDay(c) PROVE LateInv'
<1>1. /\ rlPc \in [Lookups -> LookupPcs] /\ rlKey \in [Lookups -> Nat] /\ rlToday \in Nat
      /\ rlBackdated \in Nat /\ rlCarried \in Nat /\ rlPc[c] = "day"
  BY DEF CapsInv, Caps, DaysInv, Shape, Limiter!CountDay
<1>2. UNCHANGED <<rlToday, rlCarried>>
  BY DEF Limiter!CountDay, Limiter!slots
<1>3. \/ rlPc' = [rlPc EXCEPT ![c] = "loop"] /\ rlKey' = rlKey
      \/ rlPc' = [rlPc EXCEPT ![c] = "idle"] /\ rlKey' = [rlKey EXCEPT ![c] = 0]
  BY DEF Limiter!CountDay, Limiter!Goto
<1>4. Limiter!Running' \subseteq Limiter!Running /\ Late' \subseteq Late /\ LateDay' = LateDay \ {c}
  BY <1>1, <1>2, <1>3 DEF Limiter!Running, Late, LateDay, Sharing
<1>5. /\ Cardinality(Limiter!Running') <= Cardinality(Limiter!Running)
      /\ Cardinality(Late') <= Cardinality(Late)
      /\ Cardinality(Limiter!Running') \in Nat /\ Cardinality(Late') \in Nat
  BY <1>4, LateFinite, FS_Subset, FS_CardinalityType
<1>6. rlBackdated' + Cardinality(LateDay') <= rlBackdated + Cardinality(LateDay)
  <2>1. CASE rlKey[c] < rlToday
    <3>1. c \in LateDay
      BY <1>1, <2>1 DEF LateDay
    <3>2. Cardinality(LateDay') = Cardinality(LateDay) - 1
      BY <1>4, <3>1, LateFinite, FS_RemoveElement
    <3>3. rlBackdated' = rlBackdated \/ rlBackdated' = rlBackdated + 1
      BY DEF Limiter!CountDay
    <3> QED BY <1>1, <3>2, <3>3, LateFinite
  <2>2. CASE ~(rlKey[c] < rlToday)
    <3>1. rlBackdated' = rlBackdated
      BY <2>2 DEF Limiter!CountDay
    <3>2. LateDay' = LateDay
      BY <1>4, <2>2 DEF LateDay
    <3> QED BY <1>1, <3>1, <3>2, LateFinite
  <2> QED BY <2>1, <2>2
<1>7. rlBackdated' \in Nat
  BY <1>1 DEF Limiter!CountDay
<1>8. Cardinality(LateDay') \in Nat
  BY <1>4, LateFinite, FS_Subset, FS_CardinalityType
<1>9. /\ Cardinality(Limiter!Running) <= Permits /\ rlCarried + Cardinality(Late) <= Permits
      /\ rlBackdated + Cardinality(LateDay) <= Permits
  BY DEF DaysInv, LateInv
<1>10. Cardinality(Limiter!Running') <= Permits
  BY <1>5, <1>9, LateFinite, LimiterNumbers
<1>11. rlCarried' + Cardinality(Late') <= Permits
  BY <1>1, <1>2, <1>5, <1>9, LateFinite, LimiterNumbers
<1>12. rlBackdated' + Cardinality(LateDay') <= Permits
  BY <1>1, <1>6, <1>7, <1>8, <1>9, LateFinite, LimiterNumbers
<1> QED BY <1>10, <1>11, <1>12 DEF LateInv

LEMMA CountDayKeepsDays ==
  ASSUME DaysInv, CapsInv, NEW c \in Lookups, Limiter!CountDay(c) PROVE DaysInv'
<1>1. Shape'
  BY DEF DaysInv, Shape, Limiter!CountDay, Limiter!Counted, Limiter!Share, Limiter!slots
<1> QED BY <1>1, CountDayKeepsToday, CountDayKeepsLate DEF DaysInv

\* A slot is one of today for a share of today, and carried for another.
LEMMA TakeSlotKeepsDays ==
  ASSUME DaysInv, CapsInv, NEW c \in Lookups, Limiter!TakeSlot(c) PROVE DaysInv'
<1>1. /\ rlPc \in [Lookups -> LookupPcs] /\ rlKey \in [Lookups -> Nat] /\ rlToday \in Nat
      /\ rlSpent \in Nat /\ rlCarried \in Nat /\ rlPc[c] = "minute"
      /\ \A d \in Lookups : rlKey[d] <= rlToday
  BY DEF CapsInv, Caps, DaysInv, Shape, DayInv, Limiter!TakeSlot
<1>2. UNCHANGED <<rlToday, rlDayKey, rlDayCount, rlBackdated, rlTopDay>>
  BY DEF Limiter!TakeSlot, Limiter!caps, Limiter!dayCap
<1>3. \/ /\ rlPc' = [rlPc EXCEPT ![c] = "call"] /\ rlKey' = [rlKey EXCEPT ![c] = 0]
         /\ rlSpent' = IF rlKey[c] = rlToday THEN rlSpent + 1 ELSE rlSpent
         /\ rlCarried' = IF rlKey[c] = rlToday THEN rlCarried ELSE rlCarried + 1
      \/ rlPc' = [rlPc EXCEPT ![c] = "wait"] /\ UNCHANGED <<rlKey, rlSpent, rlCarried>>
  BY DEF Limiter!TakeSlot, Limiter!Goto, Limiter!slots
<1>4. Shape'
  BY <1>1, <1>2, <1>3 DEF DaysInv, Shape
<1>5. \A d \in Lookups \ {c} : rlPc'[d] = rlPc[d] /\ rlKey'[d] = rlKey[d]
  BY <1>1, <1>3
<1>6. rlSpent' + Cardinality(Holding(rlToday)') <= rlSpent + Cardinality(Holding(rlToday))
  <2>1. CASE rlPc' = [rlPc EXCEPT ![c] = "call"] /\ rlKey[c] = rlToday /\ rlSpent' = rlSpent + 1
    <3>1. c \in Holding(rlToday) /\ Holding(rlToday)' = Holding(rlToday) \ {c}
      BY <1>1, <1>2, <1>5, <2>1 DEF Holding, Sharing
    <3>2. Cardinality(Holding(rlToday)') = Cardinality(Holding(rlToday)) - 1
      BY <3>1, HoldingFinite, FS_RemoveElement
    <3> QED BY <1>1, <2>1, <3>2, HoldingFinite
  <2>2. CASE rlPc' = [rlPc EXCEPT ![c] = "call"] /\ rlKey[c] # rlToday /\ rlSpent' = rlSpent
    <3>1. Holding(rlToday)' = Holding(rlToday)
      BY <1>1, <1>2, <1>5, <2>2 DEF Holding, Sharing
    <3> QED BY <1>1, <2>2, <3>1, HoldingFinite
  <2>3. CASE rlPc' = [rlPc EXCEPT ![c] = "wait"] /\ UNCHANGED <<rlKey, rlSpent>>
    <3>1. Holding(rlToday)' = Holding(rlToday)
      BY <1>1, <1>2, <1>5, <2>3 DEF Holding, Sharing
    <3> QED BY <1>1, <2>3, <3>1, HoldingFinite
  <2> QED BY <1>3, <2>1, <2>2, <2>3
<1>7. DayInv'
  <2>1. CountedToday' = CountedToday /\ rlBackdated' * rlTopDay' = rlBackdated * rlTopDay
    BY <1>2 DEF CountedToday
  <2>2. PICK b : b = rlBackdated * rlTopDay + CountedToday
    OBVIOUS
  <2>3. b \in Nat
    <3>1. rlBackdated * rlTopDay \in Nat
      BY LimiterNumbers, TimesRises DEF CapsInv, Caps, DaysInv, Shape
    <3> QED BY <2>2, <3>1 DEF CountedToday, DaysInv, Shape
  <2>4. rlSpent + Cardinality(Holding(rlToday)) <= b
    BY <2>2 DEF DaysInv, DayInv
  <2>5. rlSpent' \in Nat /\ Cardinality(Holding(rlToday)') \in Nat
    <3>1. Holding(rlToday)' \subseteq Lookups
      BY DEF Holding
    <3>2. Cardinality(Holding(rlToday)') \in Nat
      BY <3>1, LookupsFinite, FS_Subset, FS_CardinalityType
    <3> QED BY <1>4, <3>2 DEF Shape
  <2>6. rlSpent' + Cardinality(Holding(rlToday)') <= b
    BY <1>1, <1>6, <2>3, <2>4, <2>5, HoldingFinite
  <2>7. rlSpent' + Cardinality(Holding(rlToday)') <= rlBackdated' * rlTopDay' + CountedToday'
    BY <2>1, <2>2, <2>6
  <2>8. \A d \in Lookups : rlKey'[d] <= rlToday
    BY <1>1, <1>3
  <2>9. rlDayKey' <= rlToday' /\ rlDayCount' <= rlTopDay'
    BY <1>2 DEF DaysInv, DayInv
  <2> QED BY <1>2, <2>7, <2>8, <2>9 DEF DayInv, Holding
<1>8. LateInv'
  <2>1. Limiter!Running' = Limiter!Running /\ LateDay' = LateDay
    BY <1>1, <1>2, <1>3 DEF Limiter!Running, LateDay
  <2>2. rlCarried' + Cardinality(Late') <= rlCarried + Cardinality(Late)
    <3>1. CASE rlPc' = [rlPc EXCEPT ![c] = "call"] /\ rlKey[c] = rlToday /\ rlCarried' = rlCarried
      <4>1. Late' = Late
        BY <1>1, <1>2, <1>5, <3>1 DEF Late, Sharing
      <4> QED BY <1>1, <3>1, <4>1, LateFinite
    <3>2. CASE rlPc' = [rlPc EXCEPT ![c] = "call"] /\ rlKey[c] # rlToday /\ rlCarried' = rlCarried + 1
      <4>1. c \in Late /\ Late' = Late \ {c}
        BY <1>1, <1>2, <1>5, <3>2 DEF Late, Sharing
      <4>2. Cardinality(Late') = Cardinality(Late) - 1
        BY <4>1, LateFinite, FS_RemoveElement
      <4> QED BY <1>1, <3>2, <4>2, LateFinite
    <3>3. CASE rlPc' = [rlPc EXCEPT ![c] = "wait"] /\ UNCHANGED <<rlKey, rlCarried>>
      <4>1. Late' = Late
        BY <1>1, <1>2, <1>5, <3>3 DEF Late, Sharing
      <4> QED BY <1>1, <3>3, <4>1, LateFinite
    <3> QED BY <1>3, <3>1, <3>2, <3>3
  <2>3. rlCarried' \in Nat /\ Cardinality(Late') \in Nat
    <3>1. Late' \subseteq Lookups
      BY DEF Late
    <3>2. Cardinality(Late') \in Nat
      BY <3>1, LookupsFinite, FS_Subset, FS_CardinalityType
    <3> QED BY <1>4, <3>2 DEF Shape
  <2>4. rlCarried' + Cardinality(Late') <= Permits
    BY <1>1, <2>2, <2>3, LateFinite, LimiterNumbers DEF DaysInv, LateInv
  <2> QED BY <1>2, <2>1, <2>4 DEF DaysInv, LateInv
<1> QED BY <1>4, <1>7, <1>8 DEF DaysInv

\* Whoever is late after midnight has a permit.
LEMMA MidnightKeepsDays ==
  ASSUME DaysInv, CapsInv, Limiter!Midnight PROVE DaysInv'
<1>1. /\ rlToday' = rlToday + 1 /\ rlSpent' = 0 /\ rlCarried' = 0 /\ rlBackdated' = 0
      /\ UNCHANGED <<rlPc, rlKey, rlDayKey, rlDayCount, rlTopDay>>
  BY DEF Limiter!Midnight, Limiter!locals, Limiter!caps, Limiter!dayCap
<1>2. Shape'
  BY <1>1 DEF DaysInv, Shape
<1>3. \A d \in Lookups : rlKey'[d] <= rlToday' /\ rlKey'[d] # rlToday'
  BY <1>1 DEF DaysInv, Shape, DayInv
<1>4. rlDayKey' <= rlToday' /\ rlDayKey' # rlToday' /\ rlDayCount' <= rlTopDay'
  BY <1>1 DEF DaysInv, Shape, DayInv
<1>5. Cardinality(Holding(rlToday)') = 0
  <2>1. Holding(rlToday)' = {}
    BY <1>3 DEF Holding
  <2> QED BY <2>1, FS_EmptySet
<1>6. DayInv'
  <2>1. rlTopDay' \in Nat
    BY <1>1, LimiterNumbers DEF CapsInv, Caps
  <2>2. rlBackdated' * rlTopDay' = 0 /\ CountedToday' = 0
    BY <1>1, <1>4, <2>1 DEF CountedToday
  <2>3. rlSpent' + Cardinality(Holding(rlToday)') <= rlBackdated' * rlTopDay' + CountedToday'
    BY <1>1, <1>5, <2>2
  <2> QED BY <1>3, <1>4, <2>3 DEF DayInv, Holding
<1>7. LateInv'
  <2>1. Limiter!Running' = Limiter!Running /\ Late' \subseteq Limiter!Running /\ LateDay' \subseteq Limiter!Running
    BY <1>1 DEF Limiter!Running, Late, LateDay, Sharing
  <2>2. /\ Cardinality(Late') <= Cardinality(Limiter!Running) /\ Cardinality(Late') \in Nat
        /\ Cardinality(LateDay') <= Cardinality(Limiter!Running) /\ Cardinality(LateDay') \in Nat
    BY <2>1, LateFinite, FS_Subset, FS_CardinalityType
  <2>3. Cardinality(Limiter!Running) <= Permits
    BY DEF DaysInv, LateInv
  <2> QED BY <1>1, <2>1, <2>2, <2>3, LateFinite, LimiterNumbers DEF LateInv
<1> QED BY <1>2, <1>6, <1>7 DEF DaysInv

LEMMA NextKeepsDays ==
  DaysInv /\ CapsInv /\ [Limiter!Next]_(Limiter!vars) => DaysInv'
<1> SUFFICES ASSUME DaysInv, CapsInv, [Limiter!Next]_(Limiter!vars) PROVE DaysInv'
  OBVIOUS
<1>1. CapsInv' /\ TopsRise
  BY NextKeepsCaps
<1>2. ASSUME NEW c \in Lookups, Blind(c) \/ Limiter!ReadDay(c) \/ Limiter!ReadLimit(c) \/ Limiter!Observe(c)
      PROVE  DaysInv'
  BY <1>1, <1>2, BlindIsQuiet, CapStepIsQuiet, QuietKeepsDays
<1>3. ASSUME NEW c \in Lookups, Limiter!Lookup(c) \/ Limiter!Step(c) PROVE DaysInv'
  BY <1>2, <1>3, CountDayKeepsDays, TakeSlotKeepsDays DEF Limiter!Step, Blind
<1>4. ASSUME UNCHANGED <<rlPc, rlKey, rlToday, rlDayKey, rlDayCount, rlSpent, rlCarried, rlBackdated, rlTopDay>>
      PROVE  DaysInv'
  <2>1. /\ Holding(rlToday)' = Holding(rlToday) /\ Late' = Late /\ LateDay' = LateDay
        /\ Limiter!Running' = Limiter!Running /\ CountedToday' = CountedToday
    BY <1>4 DEF Holding, Late, LateDay, Limiter!Running, CountedToday
  <2>2. Shape' /\ LateInv'
    BY <1>4, <2>1 DEF DaysInv, Shape, LateInv
  <2>3. DayInv'
    BY <1>4, <2>1 DEF DaysInv, DayInv, Holding
  <2> QED BY <2>2, <2>3 DEF DaysInv
<1>5. CASE Limiter!Tick
  BY <1>4, <1>5 DEF Limiter!Tick, Limiter!locals, Limiter!caps, Limiter!dayCap, Limiter!days, Limiter!slots
<1>6. CASE Limiter!Midnight
  BY <1>6, MidnightKeepsDays
<1>7. CASE UNCHANGED Limiter!vars
  BY <1>4, <1>7 DEF Limiter!vars
<1> QED BY <1>3, <1>5, <1>6, <1>7 DEF Limiter!Next

LEMMA DaysAreCapped == DaysInv /\ CapsInv => Limiter!DayCapHolds
<1> SUFFICES ASSUME DaysInv, CapsInv PROVE Limiter!DayCapHolds
  OBVIOUS
<1>1. /\ rlSpent \in Nat /\ rlCarried \in Nat /\ rlBackdated \in Nat /\ rlTopDay \in Nat
      /\ CountedToday \in Nat /\ CountedToday <= rlTopDay
  BY LimiterNumbers DEF DaysInv, Shape, DayInv, CapsInv, Caps, CountedToday
<1>2. PICK p : p = rlBackdated * rlTopDay
  OBVIOUS
<1>3. p \in Nat /\ (rlBackdated + 1) * rlTopDay = p + rlTopDay
  BY <1>1, <1>2, TimesRises
<1>4. rlSpent + Cardinality(Holding(rlToday)) <= p + CountedToday
  BY <1>2 DEF DaysInv, DayInv
<1>5. rlSpent <= p + rlTopDay
  BY <1>1, <1>3, <1>4, HoldingFinite
<1>6. rlSpent <= (1 + rlBackdated) * rlTopDay
  <2>1. 1 + rlBackdated = rlBackdated + 1
    BY <1>1
  <2> QED BY <1>3, <1>5, <2>1
<1>7. rlCarried <= Permits /\ rlBackdated <= Permits
  BY <1>1, LateFinite, LimiterNumbers DEF DaysInv, LateInv
<1> QED BY <1>6, <1>7 DEF Limiter!DayCapHolds

----------------------------------------------------------------------------
(* The window of a minute *)

\* Where the slots begin that are left when those older than age are popped.
IsStart(s, age, k) ==
  /\ k \in 1..Len(s) + 1
  /\ \A j \in 1..k - 1 : s[j] > age
  /\ k <= Len(s) => s[k] <= age

LEMMA FromStart ==
  ASSUME NEW s \in Seq(Nat), NEW age \in Nat, NEW k, IsStart(s, age, k)
  PROVE  Limiter!From(s, age) = SubSeq(s, k, Len(s))
<1> DEFINE fit == {j \in DOMAIN s : s[j] <= age}
           ends == fit \cup {Len(s) + 1}
<1>1. DOMAIN s = 1..Len(s) /\ Len(s) \in Nat /\ \A j \in 1..Len(s) : s[j] \in Nat
  OBVIOUS
<1>2. k \in ends /\ \A j \in fit : k <= j
  BY <1>1 DEF IsStart
<1>3. \A i \in ends : (\A j \in fit : i <= j) => i = k
  <2> SUFFICES ASSUME NEW i \in ends, \A j \in fit : i <= j PROVE i = k
    OBVIOUS
  <2>1. CASE k \in fit
    <3>1. i <= k /\ k <= i
      BY <1>1, <1>2, <2>1
    <3> QED BY <1>1, <2>1, <3>1
  <2>2. CASE k \notin fit
    <3>1. k = Len(s) + 1
      BY <1>2, <2>2
    <3>2. fit = {}
      BY <1>1, <1>2, <3>1
    <3> QED BY <3>1, <3>2
  <2> QED BY <2>1, <2>2
<1>4. (CHOOSE i \in ends : \A j \in fit : i <= j) = k
  <2> HIDE DEF ends, fit
  <2> QED BY <1>2, <1>3
<1> QED BY <1>4 DEF Limiter!From

LEMMA StartExists ==
  ASSUME NEW s \in Seq(Nat), NEW age \in Nat
  PROVE  \E k : IsStart(s, age, k)
<1> DEFINE ends == {j \in 1..Len(s) : s[j] <= age} \cup {Len(s) + 1}
<1>1. ends \subseteq Nat /\ ends # {}
  OBVIOUS
<1>2. PICK k \in ends : \A j \in ends : k <= j
  <2> HIDE DEF ends
  <2> QED BY <1>1, LeastNatural
<1>3. IsStart(s, age, k)
  BY <1>2 DEF IsStart
<1> QED BY <1>3

\* The ages of the window go down; its slots are those sent in the last minute,
\* and they are no more than the highest cap.
WindowInv ==
  /\ rlMinute \in Seq(Nat) /\ rlTopMinute \in Nat
  /\ \A i, j \in 1..Len(rlMinute) : i <= j => rlMinute[j] <= rlMinute[i]
  /\ rlSent = Limiter!Recent /\ Len(rlSent) <= rlTopMinute

LEMMA InitWindow == Limiter!Init => WindowInv
<1> SUFFICES ASSUME Limiter!Init PROVE WindowInv
  OBVIOUS
<1>1. rlMinute = <<>> /\ rlSent = <<>> /\ rlTopMinute = PerMinute /\ Minute \in Nat /\ PerMinute \in Nat
  BY LimiterBounds DEF Limiter!Init, Limiter!Bounds
<1>2. rlMinute \in Seq(Nat) /\ Len(rlMinute) = 0
  BY <1>1
<1>3. IsStart(rlMinute, Minute, 1)
  BY <1>2 DEF IsStart
<1>4. Limiter!Recent = SubSeq(rlMinute, 1, Len(rlMinute))
  BY <1>1, <1>2, <1>3, FromStart DEF Limiter!Recent
<1>5. SubSeq(rlMinute, 1, Len(rlMinute)) = <<>>
  BY <1>1, <1>2
<1> QED BY <1>1, <1>2, <1>4, <1>5 DEF WindowInv

\* Where nothing is popped the window is recent as it is.
LEMMA YoungStays ==
  ASSUME NEW s \in Seq(Nat), NEW age \in Nat, s # <<>> => s[1] <= age
  PROVE  Limiter!From(s, age) = s
<1>1. IsStart(s, age, 1)
  BY DEF IsStart
<1>2. Limiter!From(s, age) = SubSeq(s, 1, Len(s))
  BY <1>1, FromStart
<1> QED BY <1>2

\* t is what s has from its place k on.
IsSuffix(t, s, k) ==
  /\ k \in 1..Len(s) + 1 /\ Len(s) \in Nat
  /\ t \in Seq(Nat) /\ Len(t) = Len(s) + 1 - k
  /\ \A j \in 1..Len(t) : k + j - 1 \in 1..Len(s) /\ t[j] = s[k + j - 1]

LEMMA SuffixIs ==
  ASSUME NEW s \in Seq(Nat), NEW age \in Nat, NEW k, IsStart(s, age, k)
  PROVE  IsSuffix(Limiter!From(s, age), s, k)
<1>0. PICK t : t = Limiter!From(s, age)
  OBVIOUS
<1>1. t = SubSeq(s, k, Len(s))
  BY <1>0, FromStart
<1>2. k \in 1..Len(s) + 1 /\ Len(s) \in Nat
  BY DEF IsStart
<1>3. \A j \in k..Len(s) : s[j] \in Nat
  BY <1>2
<1>4. t \in Seq(Nat)
  BY <1>1, <1>2, <1>3
<1>5. Len(t) = Len(s) + 1 - k
  BY <1>1, <1>2
<1>6. \A j \in 1..Len(t) : k + j - 1 \in 1..Len(s) /\ t[j] = s[k + j - 1]
  BY <1>1, <1>2, <1>5
<1> QED BY <1>0, <1>2, <1>4, <1>5, <1>6 DEF IsSuffix

\* What is left of falling ages falls, from one that is in its time.
Falls(s) == \A i, j \in 1..Len(s) : i <= j => s[j] <= s[i]

LEMMA SuffixFalls ==
  ASSUME NEW s \in Seq(Nat), NEW age \in Nat, Falls(s), NEW t, t = Limiter!From(s, age)
  PROVE  /\ t \in Seq(Nat) /\ Len(t) \in Nat /\ Falls(t) /\ \A j \in 1..Len(t) : t[j] <= age
         /\ Len(t) <= Len(s)
<1>1. PICK k : IsStart(s, age, k)
  BY StartExists
<1>2. /\ k \in 1..Len(s) + 1 /\ Len(s) \in Nat
      /\ t \in Seq(Nat) /\ Len(t) = Len(s) + 1 - k
      /\ \A j \in 1..Len(t) : k + j - 1 \in 1..Len(s) /\ t[j] = s[k + j - 1]
  <2>1. IsSuffix(t, s, k)
    BY <1>1, SuffixIs
  <2> QED BY <2>1 DEF IsSuffix
<1>3. Falls(t)
  <2> SUFFICES ASSUME NEW i \in 1..Len(t), NEW j \in 1..Len(t), i <= j PROVE t[j] <= t[i]
    BY DEF Falls
  <2>1. k + i - 1 <= k + j - 1
    BY <1>2
  <2> QED BY <1>2, <2>1 DEF Falls
<1>4. ASSUME NEW j \in 1..Len(t) PROVE t[j] <= age
  <2>1. k \in 1..Len(s) /\ k + j - 1 \in 1..Len(s) /\ k <= k + j - 1 /\ t[j] = s[k + j - 1]
    BY <1>2
  <2>2. s[k + j - 1] <= s[k]
    BY <2>1 DEF Falls
  <2>3. s[k] <= age
    BY <1>1, <2>1 DEF IsStart
  <2>4. s[k + j - 1] \in Nat /\ s[k] \in Nat
    BY <2>1
  <2> QED BY <2>1, <2>2, <2>3, <2>4
<1> QED BY <1>2, <1>3, <1>4

\* A slot is taken when there are fewer than the cap that was read.
LEMMA TakeSlotKeepsWindow ==
  ASSUME WindowInv, CapsInv, NEW c \in Lookups, Limiter!TakeSlot(c)
  PROVE  WindowInv'
<1>1. /\ Minute \in Nat /\ rlMinute \in Seq(Nat) /\ Falls(rlMinute) /\ rlTopMinute \in Nat
      /\ rlSent = Limiter!From(rlMinute, Minute) /\ Len(rlSent) <= rlTopMinute
      /\ rlTopMinute' = rlTopMinute /\ Limiter!Recent = rlSent
  BY LimiterBounds DEF Limiter!Bounds, WindowInv, Falls, Limiter!Recent, Limiter!TakeSlot,
     Limiter!caps, Limiter!minuteCap
<1>2. /\ rlSent \in Seq(Nat) /\ Len(rlSent) \in Nat /\ Falls(rlSent)
      /\ \A j \in 1..Len(rlSent) : rlSent[j] <= Minute
  BY <1>1, SuffixFalls
<1>3. ASSUME NEW t \in Seq(Nat), Falls(t), Len(t) <= rlTopMinute, t # <<>> => t[1] <= Minute,
             rlMinute' = t, rlSent' = t
      PROVE  WindowInv'
  <2>1. Limiter!From(t, Minute) = t
    BY <1>1, <1>3, YoungStays
  <2> QED BY <1>1, <1>3, <2>1 DEF WindowInv, Falls, Limiter!Recent
<1>0. rlHeld[c] <= rlTopMinute /\ rlHeld[c] \in Nat
  BY DEF CapsInv, Caps, HeldIs, Limiter!TakeSlot
<1>4. CASE /\ Len(Limiter!Recent) < rlHeld[c]
           /\ rlMinute' = Append(Limiter!Recent, 0) /\ rlSent' = Append(rlSent, 0)
  <2>1. PICK t : t = Append(rlSent, 0)
    OBVIOUS
  <2>2. t \in Seq(Nat) /\ Len(t) = Len(rlSent) + 1
    BY <1>2, <2>1
  <2>3. \A j \in 1..Len(t) : t[j] = IF j <= Len(rlSent) THEN rlSent[j] ELSE 0
    BY <1>2, <2>1, <2>2
  <2>4. \A j \in 1..Len(rlSent) : rlSent[j] \in Nat
    BY <1>2
  <2>5. Falls(t)
    <3> SUFFICES ASSUME NEW i \in 1..Len(t), NEW j \in 1..Len(t), i <= j PROVE t[j] <= t[i]
      BY DEF Falls
    <3>1. CASE j <= Len(rlSent)
      <4>1. i \in 1..Len(rlSent) /\ j \in 1..Len(rlSent) /\ t[i] = rlSent[i] /\ t[j] = rlSent[j]
        BY <1>2, <2>2, <2>3, <3>1
      <4> QED BY <1>2, <4>1 DEF Falls
    <3>2. CASE ~(j <= Len(rlSent))
      <4>1. t[j] = 0 /\ t[i] \in Nat
        BY <2>2, <2>3, <3>2
      <4> QED BY <4>1
    <3> QED BY <3>1, <3>2
  <2>6. t[1] <= Minute
    <3>1. t[1] = IF 1 <= Len(rlSent) THEN rlSent[1] ELSE 0
      BY <1>2, <2>2, <2>3
    <3>2. 1 <= Len(rlSent) => rlSent[1] <= Minute
      BY <1>2
    <3> QED BY <1>1, <3>1, <3>2
  <2>7. rlMinute' = t /\ rlSent' = t /\ Len(t) <= rlTopMinute
    BY <1>0, <1>1, <1>2, <1>4, <2>1, <2>2
  <2> QED BY <1>3, <2>2, <2>5, <2>6, <2>7
<1>5. CASE rlMinute' = Limiter!Recent /\ rlSent' = rlSent
  <2>1. rlSent # <<>> => rlSent[1] <= Minute
    BY <1>2
  <2> QED BY <1>1, <1>2, <1>3, <1>5, <2>1
<1> QED BY <1>4, <1>5 DEF Limiter!TakeSlot

\* A unit of time makes every slot older, and what is popped of each is the
\* same: the slots that are a minute old before it.
LEMMA TickKeepsWindow ==
  ASSUME WindowInv, Limiter!Tick
  PROVE  WindowInv'
<1>1. /\ Minute \in Nat \ {0} /\ rlMinute \in Seq(Nat) /\ Falls(rlMinute) /\ rlTopMinute \in Nat
      /\ rlSent = Limiter!From(rlMinute, Minute) /\ Len(rlSent) <= rlTopMinute
      /\ rlTopMinute' = rlTopMinute /\ Minute - 1 \in Nat
  BY LimiterBounds DEF Limiter!Bounds, WindowInv, Falls, Limiter!Recent, Limiter!Tick,
     Limiter!caps, Limiter!minuteCap
<1>2. PICK w, still, now :
        /\ w = [k \in DOMAIN rlMinute |-> Limiter!Older(rlMinute[k])]
        /\ still = Limiter!From(rlSent, Minute - 1)
        /\ now = [k \in DOMAIN still |-> still[k] + 1]
        /\ rlMinute' = w /\ rlSent' = now
  BY DEF Limiter!Tick
<1>3. /\ rlSent \in Seq(Nat) /\ Len(rlSent) \in Nat /\ Falls(rlSent)
      /\ \A j \in 1..Len(rlSent) : rlSent[j] <= Minute
  BY <1>1, SuffixFalls
<1>4. /\ still \in Seq(Nat) /\ Len(still) \in Nat /\ Len(still) <= Len(rlSent)
      /\ \A j \in 1..Len(still) : still[j] <= Minute - 1
  BY <1>1, <1>2, <1>3, SuffixFalls
<1>5. PICK k : IsStart(rlMinute, Minute, k)
  BY <1>1, StartExists
<1>6. PICK m : IsStart(rlMinute, Minute - 1, m)
  BY <1>1, StartExists
<1>7. /\ k \in 1..Len(rlMinute) + 1 /\ Len(rlMinute) \in Nat /\ Len(rlSent) = Len(rlMinute) + 1 - k
      /\ \A j \in 1..Len(rlSent) : k + j - 1 \in 1..Len(rlMinute) /\ rlSent[j] = rlMinute[k + j - 1]
  <2>1. IsSuffix(Limiter!From(rlMinute, Minute), rlMinute, k)
    BY <1>1, <1>5, SuffixIs
  <2> QED BY <1>1, <2>1 DEF IsSuffix
<1>8. m \in 1..Len(rlMinute) + 1 /\ \A j \in 1..Len(rlMinute) : rlMinute[j] \in Nat
  BY <1>1, <1>6 DEF IsStart
<1>9. k <= m
  <2>1. SUFFICES ASSUME m < k PROVE FALSE
    BY <1>7, <1>8
  <2>2. m \in 1..k - 1 /\ m <= Len(rlMinute)
    BY <1>7, <1>8, <2>1
  <2>3. rlMinute[m] > Minute /\ rlMinute[m] <= Minute - 1
    BY <1>5, <1>6, <2>2 DEF IsStart
  <2> QED BY <1>1, <1>8, <2>2, <2>3
<1>10. IsStart(rlSent, Minute - 1, m - k + 1)
  <2>0. PICK h : h = m - k + 1
    OBVIOUS
  <2>1. h \in 1..Len(rlSent) + 1 /\ k + h - 1 = m
    BY <1>7, <1>8, <1>9, <2>0
  <2>2. ASSUME NEW j \in 1..h - 1 PROVE rlSent[j] > Minute - 1
    <3>1. j \in 1..Len(rlSent) /\ k + j - 1 \in 1..m - 1
      BY <1>7, <1>8, <2>1
    <3>2. rlSent[j] = rlMinute[k + j - 1]
      BY <1>7, <3>1
    <3> QED BY <1>6, <3>1, <3>2 DEF IsStart
  <2>3. ASSUME h <= Len(rlSent) PROVE rlSent[h] <= Minute - 1
    <3>1. h \in 1..Len(rlSent) /\ m <= Len(rlMinute)
      BY <1>7, <1>8, <2>1, <2>3
    <3>2. rlSent[h] = rlMinute[m]
      BY <1>7, <2>1, <3>1
    <3> QED BY <1>6, <3>1, <3>2 DEF IsStart
  <2>4. IsStart(rlSent, Minute - 1, h)
    BY <2>1, <2>2, <2>3 DEF IsStart
  <2> QED BY <2>0, <2>4
<1>11. /\ Len(still) = Len(rlMinute) + 1 - m
       /\ \A j \in 1..Len(still) : m + j - 1 \in 1..Len(rlMinute) /\ still[j] = rlMinute[m + j - 1]
  <2>1. /\ Len(still) = Len(rlSent) + 1 - (m - k + 1)
        /\ \A j \in 1..Len(still) : /\ m - k + 1 + j - 1 \in 1..Len(rlSent)
                                    /\ still[j] = rlSent[m - k + 1 + j - 1]
    <3>1. IsSuffix(Limiter!From(rlSent, Minute - 1), rlSent, m - k + 1)
      BY <1>1, <1>3, <1>10, SuffixIs
    <3> QED BY <1>2, <3>1 DEF IsSuffix
  <2>2. Len(still) = Len(rlMinute) + 1 - m
    BY <1>7, <1>8, <2>1
  <2>3. ASSUME NEW j \in 1..Len(still)
        PROVE  m + j - 1 \in 1..Len(rlMinute) /\ still[j] = rlMinute[m + j - 1]
    <3>1. /\ m - k + 1 + j - 1 \in 1..Len(rlSent) /\ still[j] = rlSent[m - k + 1 + j - 1]
          /\ k + (m - k + 1 + j - 1) - 1 = m + j - 1
      BY <1>7, <1>8, <2>1
    <3> QED BY <1>7, <3>1
  <2> QED BY <2>2, <2>3
<1>12. /\ w \in Seq(Nat) /\ Len(w) = Len(rlMinute)
       /\ \A j \in 1..Len(rlMinute) : w[j] = Limiter!Older(rlMinute[j])
  <2>1. DOMAIN rlMinute = 1..Len(rlMinute)
    BY <1>1
  <2>2. \A j \in 1..Len(rlMinute) : Limiter!Older(rlMinute[j]) \in Nat
    BY <1>8 DEF Limiter!Older
  <2> QED BY <1>2, <1>7, <2>1, <2>2
<1>13. Falls(w)
  <2> SUFFICES ASSUME NEW i \in 1..Len(rlMinute), NEW j \in 1..Len(rlMinute), i <= j PROVE w[j] <= w[i]
    BY <1>12 DEF Falls
  <2>1. rlMinute[j] <= rlMinute[i] /\ rlMinute[i] \in Nat /\ rlMinute[j] \in Nat
    BY <1>1, <1>8 DEF Falls
  <2>2. w[j] = Limiter!Older(rlMinute[j]) /\ w[i] = Limiter!Older(rlMinute[i])
    BY <1>12
  <2> QED BY <1>1, <2>1, <2>2 DEF Limiter!Older
<1>14. IsStart(w, Minute, m)
  <2>1. m \in 1..Len(w) + 1
    BY <1>8, <1>12
  <2>2. ASSUME NEW j \in 1..m - 1 PROVE w[j] > Minute
    <3>1. j \in 1..Len(rlMinute) /\ rlMinute[j] > Minute - 1 /\ rlMinute[j] \in Nat
      BY <1>6, <1>7, <1>8 DEF IsStart
    <3>2. w[j] = Limiter!Older(rlMinute[j])
      BY <1>12, <3>1
    <3> QED BY <1>1, <3>1, <3>2 DEF Limiter!Older
  <2>3. ASSUME m <= Len(w) PROVE w[m] <= Minute
    <3>1. m \in 1..Len(rlMinute) /\ rlMinute[m] <= Minute - 1 /\ rlMinute[m] \in Nat
      BY <1>6, <1>8, <1>12, <2>3 DEF IsStart
    <3>2. w[m] = Limiter!Older(rlMinute[m])
      BY <1>12, <3>1
    <3> QED BY <1>1, <3>1, <3>2 DEF Limiter!Older
  <2> QED BY <2>1, <2>2, <2>3 DEF IsStart
<1>15. /\ now \in Seq(Nat) /\ Len(now) = Len(still)
       /\ \A j \in 1..Len(still) : now[j] = still[j] + 1
  <2>1. DOMAIN still = 1..Len(still) /\ \A j \in 1..Len(still) : still[j] + 1 \in Nat
    BY <1>4
  <2>2. now = [j \in 1..Len(still) |-> still[j] + 1]
    BY <1>2, <2>1
  <2>3. now \in [1..Len(still) -> Nat]
    BY <2>1, <2>2
  <2>4. now \in Seq(Nat) /\ Len(now) = Len(still)
    BY <1>4, <2>3
  <2> QED BY <2>2, <2>4
<1>16. Limiter!From(w, Minute) = now
  <2>1. PICK t : t = Limiter!From(w, Minute)
    OBVIOUS
  <2>2. /\ t \in Seq(Nat) /\ Len(t) = Len(w) + 1 - m
        /\ \A j \in 1..Len(t) : m + j - 1 \in 1..Len(w) /\ t[j] = w[m + j - 1]
    <3>1. IsSuffix(Limiter!From(w, Minute), w, m)
      BY <1>1, <1>12, <1>14, SuffixIs
    <3> QED BY <2>1, <3>1 DEF IsSuffix
  <2>3. Len(t) = Len(now)
    BY <1>11, <1>12, <1>15, <2>2
  <2>4. ASSUME NEW j \in 1..Len(t) PROVE t[j] = now[j]
    <3>1. /\ j \in 1..Len(still) /\ m + j - 1 \in 1..Len(rlMinute) /\ t[j] = Limiter!Older(rlMinute[m + j - 1])
          /\ rlMinute[m + j - 1] \in Nat
      BY <1>8, <1>12, <1>15, <2>2, <2>3
    <3>2. still[j] = rlMinute[m + j - 1] /\ still[j] <= Minute - 1 /\ now[j] = still[j] + 1
      BY <1>4, <1>11, <1>15, <3>1
    <3> QED BY <1>1, <3>1, <3>2 DEF Limiter!Older
  <2> QED BY <1>15, <2>1, <2>2, <2>3, <2>4
<1>17. Len(now) <= rlTopMinute
  BY <1>1, <1>3, <1>4, <1>15
<1> QED BY <1>1, <1>2, <1>12, <1>13, <1>16, <1>17 DEF WindowInv, Falls, Limiter!Recent

\* Nothing else touches the window, and its highest cap only rises.
LEMMA RestKeepsWindow ==
  ASSUME WindowInv, UNCHANGED <<rlMinute, rlSent>>, rlTopMinute' \in Nat, rlTopMinute <= rlTopMinute'
  PROVE  WindowInv'
<1>1. Limiter!Recent' = Limiter!Recent
  BY DEF Limiter!Recent
<1>2. Len(rlSent) \in Nat
  <2>1. Minute \in Nat /\ rlMinute \in Seq(Nat) /\ Falls(rlMinute) /\ rlSent = Limiter!From(rlMinute, Minute)
    BY LimiterBounds DEF Limiter!Bounds, WindowInv, Falls, Limiter!Recent
  <2> QED BY <2>1, SuffixFalls
<1> QED BY <1>1, <1>2 DEF WindowInv

LEMMA NextKeepsWindow == WindowInv /\ CapsInv /\ [Limiter!Next]_(Limiter!vars) => WindowInv'
<1> SUFFICES ASSUME WindowInv, CapsInv, [Limiter!Next]_(Limiter!vars) PROVE WindowInv'
  OBVIOUS
<1>1. ASSUME UNCHANGED <<rlMinute, rlSent>> PROVE WindowInv'
  <2>1. rlTopMinute' \in Nat /\ rlTopMinute <= rlTopMinute'
    BY NextKeepsCaps, LimiterNumbers DEF CapsInv, Caps, TopsRise
  <2> QED BY <1>1, <2>1, RestKeepsWindow
<1>2. ASSUME NEW c \in Lookups, Limiter!Lookup(c) PROVE WindowInv'
  BY <1>1, <1>2 DEF Limiter!Lookup, Limiter!window
<1>3. ASSUME NEW c \in Lookups, Limiter!Step(c) PROVE WindowInv'
  <2>1. CASE Limiter!Acquire(c) \/ Limiter!ReadDay(c) \/ Limiter!CountDay(c) \/ Limiter!ReadLimit(c)
             \/ Limiter!WakeUp(c)
    BY <1>1, <2>1 DEF Limiter!Acquire, Limiter!ReadDay, Limiter!CountDay, Limiter!ReadLimit,
       Limiter!WakeUp, Limiter!window
  <2>2. CASE Limiter!TakeSlot(c)
    BY <2>2, TakeSlotKeepsWindow
  <2>3. CASE Limiter!Observe(c)
    BY <1>1, <2>3 DEF Limiter!Observe, Limiter!ReadBurst, Limiter!StoreBurst, Limiter!ReadDaily,
       Limiter!StoreDaily, Limiter!window
  <2>4. CASE Limiter!Answer(c)
    BY <1>1, <2>4 DEF Limiter!Answer, Limiter!Answered, Limiter!NotFound, Limiter!TooMany, Limiter!window
  <2>5. CASE \/ Limiter!WaitIfPaused(c, "paused", "nap", "key")
             \/ Limiter!WaitIfPaused(c, "loop", "loopNap", "limit")
    BY <1>1, <2>5 DEF Limiter!WaitIfPaused, Limiter!window
  <2> QED BY <1>3, <2>1, <2>2, <2>3, <2>4, <2>5 DEF Limiter!Step
<1>4. CASE Limiter!Tick
  BY <1>4, TickKeepsWindow
<1>5. CASE Limiter!Midnight
  BY <1>1, <1>5 DEF Limiter!Midnight, Limiter!window
<1>6. CASE UNCHANGED Limiter!vars
  BY <1>1, <1>6 DEF Limiter!vars
<1> QED BY <1>2, <1>3, <1>4, <1>5, <1>6 DEF Limiter!Next

----------------------------------------------------------------------------

LEMMA LimiterSpec == SpecAll => Limiter!Spec
<1>1. InitAll => Limiter!Init
  BY DEF InitAll
<1>2. [NextOfOne]_everything => [Limiter!Next]_(Limiter!vars)
  BY DEF NextOfOne, everything, limiterVars, Limiter!vars
<1> QED BY <1>1, <1>2, PTL DEF SpecAll, Limiter!Spec

\* CapsHold, of with_permit, take_slot and observe_limits: no minute has more
\* slots than the highest cap there was, and no calendar day more than what
\* DayCapHolds allows for counts that were dropped and lookups that slept over
\* midnight, for any lookups, permits, caps and pauses, and however caps are
\* stored late.
THEOREM CallsAreCapped == SpecAll => []CapsHold
<1>1. WindowInv /\ DaysInv /\ CapsInv => CapsHold
  BY DaysAreCapped DEF CapsHold, Limiter!CapsHold, WindowInv
<1>2. Limiter!Init => WindowInv /\ DaysInv /\ CapsInv
  BY InitWindow, InitDay, InitCaps
<1>3. WindowInv /\ DaysInv /\ CapsInv /\ [Limiter!Next]_(Limiter!vars) => (WindowInv /\ DaysInv /\ CapsInv)'
  BY NextKeepsWindow, NextKeepsDays, NextKeepsCaps
<1> QED BY <1>1, <1>2, <1>3, LimiterSpec, PTL DEF Limiter!Spec

----------------------------------------------------------------------------
(* Purchasing: loops *)

LEMMA UpTo ==
  ASSUME NEW n \in Nat, NEW T, 0 \in T, \A k \in 1..n : k - 1 \in T => k \in T
  PROVE  0..n \subseteq T
<1> DEFINE Left == (0..n) \ T
<1>1. ASSUME Left # {} PROVE FALSE
  <2>1. PICK m \in Left : \A k \in Left : m <= k
    <3>1. Left \subseteq Nat
      OBVIOUS
    <3> HIDE DEF Left
    <3> QED BY <1>1, <3>1, LeastNatural
  <2>2. m \in 1..n /\ m - 1 \in 0..n /\ ~(m <= m - 1)
    BY <2>1
  <2> QED BY <2>1, <2>2
<1> QED BY <1>1

\* f[k] is what a loop has after round k that begins with a and does F.
Runs(f, F, a, n) == f[0] = a /\ \A k \in 1..n : f[k] = F[<<k, f[k - 1]>>]

\* A loop of n rounds over a state in S, where F[k, x] is what round k makes of
\* the state x, has a value after each round.
LEMMA Loop ==
  ASSUME NEW n \in Nat, NEW S, NEW a \in S, NEW F \in [(1..n) \X S -> S]
  PROVE  \E f \in [0..n -> S] : Runs(f, F, a, n)
<1> DEFINE Good == {m \in 0..n : \E f \in [0..m -> S] : Runs(f, F, a, m)}
<1>1. 0 \in Good
  <2>1. [k \in 0..0 |-> a] \in [0..0 -> S] /\ Runs([k \in 0..0 |-> a], F, a, 0)
    BY DEF Runs
  <2> QED BY <2>1
<1>2. ASSUME NEW m \in 1..n, m - 1 \in Good PROVE m \in Good
  <2>1. PICK f \in [0..m - 1 -> S] : Runs(f, F, a, m - 1)
    BY <1>2
  <2> DEFINE g == [k \in 0..m |-> IF k = m THEN F[<<m, f[m - 1]>>] ELSE f[k]]
  <2>2. f[m - 1] \in S /\ F[<<m, f[m - 1]>>] \in S
    BY <2>1
  <2>3. g \in [0..m -> S]
    BY <2>1, <2>2
  <2>4. g[0] = a
    BY <2>1 DEF Runs
  <2>5. ASSUME NEW k \in 1..m PROVE g[k] = F[<<k, g[k - 1]>>]
    <3>1. CASE k = m
      <4>1. m - 1 \in 0..m /\ m - 1 # m /\ m \in 0..m
        OBVIOUS
      <4> QED BY <3>1, <4>1
    <3>2. CASE k # m
      <4>1. k \in 1..m - 1 /\ k - 1 \in 0..m - 1 /\ k - 1 # m
        BY <3>2
      <4> QED BY <2>1, <3>2, <4>1 DEF Runs
    <3> QED BY <3>1, <3>2
  <2>6. Runs(g, F, a, m)
    BY <2>4, <2>5 DEF Runs
  <2> HIDE DEF g
  <2> QED BY <2>3, <2>6
<1>3. n \in Good
  <2> HIDE DEF Good
  <2> QED BY <1>1, <1>2, UpTo
<1> QED BY <1>3

----------------------------------------------------------------------------
(* Prices *)

Fit(breaks, q, n) ==
  {j \in 1..n : breaks[j].price # None /\ breaks[j].from <= q}

\* Break j is what the loop wants: no break that fits starts higher, none that
\* starts as high comes before.
IsBest(breaks, fit, j) ==
  \A i \in fit : /\ breaks[i].from <= breaks[j].from
                 /\ breaks[i].from = breaks[j].from => j <= i

\* The loop of unit_price_for_qty finds the best of the breaks that fit.
LEMMA BestIsBest ==
  ASSUME NEW breaks \in Seq(Buying!Breaks), NEW q \in Nat
  PROVE  LET fit == Fit(breaks, q, Len(breaks)) IN
         \/ Buying!Best(breaks, q) = None /\ fit = {}
         \/ \E j \in fit : Buying!Best(breaks, q) = breaks[j] /\ IsBest(breaks, fit, j)
<1> DEFINE n == Len(breaks)
           S == Buying!Breaks \cup {None}
           Round(k, x) == IF breaks[k].price # None /\ breaks[k].from <= q /\ Buying!Better(breaks[k], x)
                          THEN breaks[k] ELSE x
           F == [p \in (1..n) \X S |-> Round(p[1], p[2])]
           IsLoop(f) == f = [k \in 0..n |-> IF k = 0 THEN None ELSE Round(k, f[k - 1])]
           r == CHOOSE f : IsLoop(f)
<1>1. n \in Nat /\ \A k \in 1..n : breaks[k] \in Buying!Breaks
  OBVIOUS
<1>2. \A k \in 1..n : \A x \in S : Round(k, x) \in S
  BY <1>1
<1>3. F \in [(1..n) \X S -> S] /\ \A k \in 1..n : \A x \in S : F[<<k, x>>] = Round(k, x)
  <2> HIDE DEF Round, S, n
  <2> QED BY <1>2
<1>4. PICK f \in [0..n -> S] : Runs(f, F, None, n)
  <2>1. None \in S
    OBVIOUS
  <2>2. n \in Nat /\ F \in [(1..n) \X S -> S]
    BY <1>1, <1>3
  <2> HIDE DEF F, S, n, Round
  <2> QED BY <2>1, <2>2, Loop
<1>5. IsLoop(f)
  <2>1. ASSUME NEW k \in 1..n PROVE f[k] = Round(k, f[k - 1])
    <3> HIDE DEF F, S, n, Round
    <3>1. f[k - 1] \in S
      BY <1>1, <1>4
    <3> QED BY <1>3, <1>4, <3>1 DEF Runs
  <2> HIDE DEF F, S, Round, n
  <2> QED BY <1>1, <1>4, <2>1 DEF Runs
<1>6. IsLoop(r)
  BY <1>5
<1>7. Buying!Best(breaks, q) = r[n]
  BY DEF Buying!Best
<1>8. r[0] = None /\ \A k \in 1..n : r[k] = Round(k, r[k - 1])
  <2> HIDE DEF r, Round, n
  <2> QED BY <1>1, <1>6
<1> DEFINE Right(k) == LET fit == Fit(breaks, q, k) IN
                       \/ r[k] = None /\ fit = {}
                       \/ \E j \in fit : r[k] = breaks[j] /\ IsBest(breaks, fit, j)
           T == {k \in 0..n : Right(k)}
<1>9. 0 \in T
  <2> HIDE DEF r
  <2> QED BY <1>1, <1>8 DEF Fit
<1>10. ASSUME NEW k \in 1..n, k - 1 \in T PROVE k \in T
  <2> HIDE DEF r, Round, n
  <2> SUFFICES Right(k)
    OBVIOUS
  <2>1. Right(k - 1) /\ r[k] = Round(k, r[k - 1]) /\ breaks[k] \in Buying!Breaks
    BY <1>1, <1>8, <1>10
  <2> DEFINE old == Fit(breaks, q, k - 1)
             new == Fit(breaks, q, k)
  <2>2. new = IF breaks[k].price # None /\ breaks[k].from <= q THEN old \cup {k} ELSE old
    BY <1>1 DEF Fit
  <2>3. old \subseteq 1..k - 1 /\ \A j \in old : breaks[j] \in Buying!Breaks /\ j < k /\ j \in Nat
    BY <1>1 DEF Fit
  <2>4. CASE ~(breaks[k].price # None /\ breaks[k].from <= q)
    BY <2>1, <2>2, <2>4 DEF Round
  <2>5. CASE breaks[k].price # None /\ breaks[k].from <= q
    <3>1. k \in new /\ new = old \cup {k}
      BY <2>2, <2>5
    <3>2. CASE r[k - 1] = None
      <4>1. old = {}
        BY <2>1, <2>3, <3>2, BuyingAssumptions DEF Buying!Assumptions
      <4>2. r[k] = breaks[k] /\ IsBest(breaks, new, k)
        BY <2>1, <2>5, <3>1, <3>2, <4>1 DEF Round, Buying!Better, IsBest, Buying!Breaks
      <4> QED BY <3>1, <4>2
    <3>3. ASSUME r[k - 1] # None PROVE Right(k)
      <4>1. PICK j \in old : r[k - 1] = breaks[j] /\ IsBest(breaks, old, j)
        BY <2>1, <3>3
      <4>2. breaks[j].from \in Nat /\ breaks[k].from \in Nat
             /\ \A i \in old : breaks[i].from \in Nat
        BY <2>1, <2>3 DEF Buying!Breaks
      <4>3. CASE breaks[k].from > breaks[j].from
        <5>1. r[k] = breaks[k]
          BY <2>1, <2>5, <4>1, <4>3 DEF Round, Buying!Better
        <5>2. IsBest(breaks, new, k)
          BY <2>3, <3>1, <4>1, <4>2, <4>3 DEF IsBest
        <5> QED BY <3>1, <5>1, <5>2
      <4>4. CASE ~(breaks[k].from > breaks[j].from)
        <5>1. r[k] = breaks[j]
          BY <2>1, <3>3, <4>1, <4>4 DEF Round, Buying!Better
        <5>2. IsBest(breaks, new, j)
          BY <2>3, <3>1, <4>1, <4>2, <4>4 DEF IsBest
        <5> QED BY <3>1, <5>1, <5>2
      <4> QED BY <4>3, <4>4
    <3> QED BY <3>2, <3>3
  <2> QED BY <2>4, <2>5
<1>11. Right(n)
  <2> HIDE DEF T, n
  <2>1. 0..n \subseteq T
    BY <1>1, <1>9, <1>10, UpTo
  <2>2. n \in 0..n
    BY <1>1
  <2> QED BY <2>1, <2>2 DEF T
<1> QED BY <1>7, <1>11

\* What a line is priced at is what its price list says.
LEMMA UnitIsListPrice ==
  ASSUME NEW breaks \in Seq(Buying!Breaks), NEW q \in Nat, breaks # <<>>
  PROVE  /\ Buying!UnitPrice(breaks, q) = Buying!ListPrice(breaks, q)
         /\ Buying!UnitPrice(breaks, q) \in Prices \cup {None}
<1> DEFINE fit == Fit(breaks, q, Len(breaks))
           top == {k \in fit : \A j \in fit : breaks[j].from <= breaks[k].from}
<1>1. breaks # None /\ None \notin Buying!Breaks
  BY BuyingAssumptions DEF Buying!Assumptions
<1>2. /\ DOMAIN breaks = 1..Len(breaks) /\ 1 \in 1..Len(breaks)
      /\ \A k \in 1..Len(breaks) : breaks[k] \in Buying!Breaks
  OBVIOUS
<1>3. Buying!ListPrice(breaks, q) =
        IF fit = {} THEN breaks[1].price
        ELSE breaks[CHOOSE k \in top : \A j \in top : k <= j].price
  BY <1>2 DEF Buying!ListPrice, Fit
<1>4. CASE Buying!Best(breaks, q) = None /\ fit = {}
  BY <1>1, <1>2, <1>3, <1>4 DEF Buying!UnitPrice, Buying!Breaks
<1>5. ASSUME NEW j \in fit, Buying!Best(breaks, q) = breaks[j], IsBest(breaks, fit, j)
      PROVE  /\ Buying!UnitPrice(breaks, q) = Buying!ListPrice(breaks, q)
             /\ Buying!UnitPrice(breaks, q) \in Prices \cup {None}
  <2>1. fit \subseteq 1..Len(breaks) /\ \A i \in fit : breaks[i].from \in Nat /\ i \in Nat
    BY <1>2 DEF Fit, Buying!Breaks
  <2>2. j \in top /\ \A i \in top : j <= i
    BY <1>5, <2>1 DEF IsBest
  <2>3. \A k \in top : (\A i \in top : k <= i) => k = j
    BY <2>1, <2>2
  <2>4. (CHOOSE k \in top : \A i \in top : k <= i) = j
    <3> HIDE DEF top
    <3> QED BY <2>2, <2>3
  <2>5. Buying!UnitPrice(breaks, q) = breaks[j].price
    BY <1>1, <1>2, <1>5, <2>1 DEF Buying!UnitPrice
  <2> QED BY <1>2, <1>3, <2>1, <2>4, <2>5 DEF Buying!Breaks
<1> QED BY <1>4, <1>5, BestIsBest

----------------------------------------------------------------------------
(* Sums *)

\* A loop that adds e[k] in round k: whatever satisfies its equation has the
\* sums of naturals, and something does.
IsSum(f, e, n) == f = [k \in 0..n |-> IF k = 0 THEN 0 ELSE f[k - 1] + e[k]]

LEMMA SumExists ==
  ASSUME NEW n \in Nat, NEW e \in [1..n -> Nat]
  PROVE  \E f : IsSum(f, e, n)
<1> DEFINE F == [p \in (1..n) \X Nat |-> p[2] + e[p[1]]]
<1>1. F \in [(1..n) \X Nat -> Nat] /\ \A k \in 1..n : \A x \in Nat : F[<<k, x>>] = x + e[k]
  OBVIOUS
<1>2. PICK f \in [0..n -> Nat] : Runs(f, F, 0, n)
  <2> HIDE DEF F
  <2> QED BY <1>1, Loop
<1>3. ASSUME NEW k \in 1..n PROVE f[k] = f[k - 1] + e[k]
  <2> HIDE DEF F
  <2>1. f[k - 1] \in Nat
    BY <1>2
  <2> QED BY <1>1, <1>2, <2>1 DEF Runs
<1>4. f[0] = 0
  BY <1>2 DEF Runs
<1>5. f = [k \in 0..n |-> IF k = 0 THEN 0 ELSE f[k - 1] + e[k]]
  BY <1>3, <1>4
<1>6. IsSum(f, e, n)
  BY <1>5 DEF IsSum
<1> QED BY <1>6

LEMMA SumIsNat ==
  ASSUME NEW n \in Nat, NEW e \in [1..n -> Nat], NEW f, IsSum(f, e, n)
  PROVE  f[0] = 0 /\ \A k \in 1..n : f[k - 1] \in Nat /\ f[k] = f[k - 1] + e[k] /\ f[k] \in Nat
<1>1. f[0] = 0 /\ \A k \in 1..n : f[k] = f[k - 1] + e[k]
  BY DEF IsSum
<1> DEFINE T == {k \in 0..n : f[k] \in Nat}
<1>2. 0 \in T /\ \A k \in 1..n : k - 1 \in T => k \in T
  BY <1>1
<1>3. 0..n \subseteq T
  <2> HIDE DEF T
  <2> QED BY <1>2, UpTo
<1> QED BY <1>1, <1>3

\* Of two sums the one of what is smaller everywhere is smaller.
LEMMA SumsCompare ==
  ASSUME NEW n \in Nat, NEW d \in [1..n -> Nat], NEW e \in [1..n -> Nat],
         \A k \in 1..n : d[k] <= e[k],
         NEW f, NEW g, IsSum(f, d, n), IsSum(g, e, n)
  PROVE  f[n] <= g[n] /\ f[n] \in Nat /\ g[n] \in Nat
<1> DEFINE T == {k \in 0..n : f[k] \in Nat /\ g[k] \in Nat /\ f[k] <= g[k]}
<1>1. 0 \in T
  <2>1. f[0] = 0 /\ g[0] = 0
    BY SumIsNat
  <2> QED BY <2>1
<1>2. ASSUME NEW k \in 1..n, k - 1 \in T PROVE k \in T
  <2>1. f[k] = f[k - 1] + d[k] /\ g[k] = g[k - 1] + e[k]
    BY SumIsNat
  <2> QED BY <1>2, <2>1
<1>3. 0..n \subseteq T
  <2> HIDE DEF T
  <2> QED BY <1>1, <1>2, UpTo
<1> QED BY <1>3

\* What the lines of a quote add up to: those with a price, and those in ks.
Total(ls) ==
  LET s[k \in 0..Len(ls)] ==
        IF k = 0 THEN 0 ELSE s[k - 1] + (IF ls[k].unit = None THEN 0 ELSE ls[k].unit * ls[k].quantity)
  IN s[Len(ls)]
Cost(ls, ks) ==
  LET s[k \in 0..Len(ls)] ==
        IF k = 0 THEN 0 ELSE s[k - 1] + (IF k \in ks THEN ls[k].unit * ls[k].quantity ELSE 0)
  IN s[Len(ls)]

\* The sum of a quote counts at least what any of its priced lines cost, and
\* exactly what all of them do.
LEMMA TotalAndCost ==
  ASSUME NEW ls \in Seq(Buying!Results), NEW ks \in SUBSET (1..Len(ls)),
         \A k \in ks : ls[k].unit # None
  PROVE  /\ Total(ls) \in Nat /\ Cost(ls, ks) <= Total(ls)
         /\ ks = 1..Len(ls) => Cost(ls, ks) = Total(ls)
<1> DEFINE n == Len(ls)
           price(k) == ls[k].unit * ls[k].quantity
           d == [k \in 1..n |-> IF k \in ks THEN price(k) ELSE 0]
           e == [k \in 1..n |-> IF ls[k].unit = None THEN 0 ELSE price(k)]
           f == CHOOSE s : s = [k \in 0..n |-> IF k = 0 THEN 0 ELSE s[k - 1] + (IF k \in ks THEN price(k) ELSE 0)]
           g == CHOOSE s : s = [k \in 0..n |-> IF k = 0 THEN 0 ELSE s[k - 1] + (IF ls[k].unit = None THEN 0 ELSE price(k))]
<1>1. n \in Nat /\ \A k \in 1..n : ls[k].unit # None => price(k) \in Nat
  <2>1. ASSUME NEW k \in 1..n, ls[k].unit # None PROVE ls[k].unit \in Nat /\ ls[k].quantity \in Nat
    <3>1. ls[k] \in Buying!Results
      OBVIOUS
    <3> QED BY <2>1, <3>1, BuyingAssumptions DEF Buying!Assumptions, Buying!Results
  <2>2. \A i, j \in Nat : i * j \in Nat
    OBVIOUS
  <2> QED BY <2>1, <2>2
<1>2. d \in [1..n -> Nat] /\ e \in [1..n -> Nat] /\ \A k \in 1..n : d[k] <= e[k]
  <2>1. \A k \in 1..n : k \in ks => price(k) \in Nat
    BY <1>1
  <2> HIDE DEF price
  <2>2. d \in [1..n -> Nat]
    BY <2>1
  <2>3. e \in [1..n -> Nat]
    BY <1>1
  <2>4. ASSUME NEW k \in 1..n PROVE d[k] <= e[k]
    <3>1. d[k] = IF k \in ks THEN price(k) ELSE 0
      OBVIOUS
    <3>2. e[k] = IF ls[k].unit = None THEN 0 ELSE price(k)
      OBVIOUS
    <3> HIDE DEF d, e
    <3> QED BY <1>1, <2>1, <3>1, <3>2
  <2> HIDE DEF d, e
  <2> QED BY <2>2, <2>3, <2>4
<1>3. IsSum(f, d, n)
  <2>1. PICK h : IsSum(h, d, n)
    <3> HIDE DEF d, n
    <3> QED BY <1>1, <1>2, SumExists, Zenon
  <2>2. h = [k \in 0..n |-> IF k = 0 THEN 0 ELSE h[k - 1] + (IF k \in ks THEN price(k) ELSE 0)]
    <3> HIDE DEF price
    <3> DEFINE x(k) == IF k \in ks THEN price(k) ELSE 0
    <3>1. \A k \in 1..n : d[k] = x(k)
      OBVIOUS
    <3> HIDE DEF d, x
    <3>2. h = [k \in 0..n |-> h[k]] /\ h[0] = 0 /\ \A k \in 1..n : h[k] = h[k - 1] + d[k]
      BY <1>1, <2>1 DEF IsSum
    <3>3. h = [k \in 0..n |-> IF k = 0 THEN 0 ELSE h[k - 1] + x(k)]
      BY <1>1, <3>1, <3>2
    <3> QED BY <3>3 DEF x
  <2>3. f = [k \in 0..n |-> IF k = 0 THEN 0 ELSE f[k - 1] + (IF k \in ks THEN price(k) ELSE 0)]
    BY <2>2
  <2> HIDE DEF f, price
  <2>4. \A k \in 1..n : d[k] = IF k \in ks THEN price(k) ELSE 0
    OBVIOUS
  <2> HIDE DEF d
  <2>5. f = [k \in 0..n |-> f[k]] /\ f[0] = 0 /\ \A k \in 1..n : f[k] = f[k - 1] + d[k]
    BY <1>1, <2>3, <2>4
  <2>6. f = [k \in 0..n |-> IF k = 0 THEN 0 ELSE f[k - 1] + d[k]]
    BY <1>1, <2>5
  <2> QED BY <2>6 DEF IsSum
<1>4. IsSum(g, e, n)
  <2>1. PICK h : IsSum(h, e, n)
    <3> HIDE DEF e, n
    <3> QED BY <1>1, <1>2, SumExists, Zenon
  <2>2. h = [k \in 0..n |-> IF k = 0 THEN 0 ELSE h[k - 1] + (IF ls[k].unit = None THEN 0 ELSE price(k))]
    <3> HIDE DEF price
    <3> DEFINE x(k) == IF ls[k].unit = None THEN 0 ELSE price(k)
    <3>1. \A k \in 1..n : e[k] = x(k)
      OBVIOUS
    <3> HIDE DEF e, x
    <3>2. h = [k \in 0..n |-> h[k]] /\ h[0] = 0 /\ \A k \in 1..n : h[k] = h[k - 1] + e[k]
      BY <1>1, <2>1 DEF IsSum
    <3>3. h = [k \in 0..n |-> IF k = 0 THEN 0 ELSE h[k - 1] + x(k)]
      BY <1>1, <3>1, <3>2
    <3> QED BY <3>3 DEF x
  <2>3. g = [k \in 0..n |-> IF k = 0 THEN 0 ELSE g[k - 1] + (IF ls[k].unit = None THEN 0 ELSE price(k))]
    BY <2>2
  <2> HIDE DEF g, price
  <2>4. \A k \in 1..n : e[k] = IF ls[k].unit = None THEN 0 ELSE price(k)
    OBVIOUS
  <2> HIDE DEF e
  <2>5. g = [k \in 0..n |-> g[k]] /\ g[0] = 0 /\ \A k \in 1..n : g[k] = g[k - 1] + e[k]
    BY <1>1, <2>3, <2>4
  <2>6. g = [k \in 0..n |-> IF k = 0 THEN 0 ELSE g[k - 1] + e[k]]
    BY <1>1, <2>5
  <2> QED BY <2>6 DEF IsSum
<1>5. Cost(ls, ks) = f[n] /\ Total(ls) = g[n]
  BY DEF Cost, Total
<1>6. f[n] <= g[n] /\ f[n] \in Nat /\ g[n] \in Nat
  <2> HIDE DEF f, g, d, e, n
  <2> QED BY <1>1, <1>2, <1>3, <1>4, SumsCompare
<1>7. ASSUME ks = 1..n PROVE g[n] <= f[n]
  <2>1. \A k \in 1..n : e[k] <= d[k]
    <3> HIDE DEF price
    <3> QED BY <1>1, <1>2, <1>7
  <2> HIDE DEF f, g, d, e, n
  <2> QED BY <1>1, <1>2, <1>3, <1>4, <2>1, SumsCompare
<1> HIDE DEF f, g
<1> QED BY <1>5, <1>6, <1>7

----------------------------------------------------------------------------
(* Lines *)

\* What QuoteIsHonest says of a line without an error.
Sound(r) ==
  /\ r.said # None /\ r.said.stock # None /\ r.said.stock >= r.quantity
  /\ r.unit = Buying!ListPrice(r.said.breaks, r.quantity)

Honest(r) == r \in Buying!Results /\ (~r.error => r.unit # None /\ Sound(r))

\* A line without an error has a price, the one of its list, and is in stock.
LEMMA LineIsHonest ==
  ASSUME NEW offer \in Buying!Offers, NEW q \in Nat
  PROVE  Honest(Buying!LineResult(offer, q))
<1> DEFINE r == Buying!LineResult(offer, q)
<1> SUFFICES Honest(r)
  OBVIOUS
<1>1. /\ r.quantity = q /\ r.unit = Buying!UnitPrice(offer.breaks, q) /\ r.said = offer
      /\ r.error = Buying!InError(offer, q) /\ r.part = offer.number
      /\ r = [quantity |-> r.quantity, unit |-> r.unit, error |-> r.error, part |-> r.part, said |-> r.said]
  BY DEF Buying!LineResult
<1>2. None \notin Nat /\ None \notin Buying!Offers /\ None \notin Seq(Buying!Breaks)
  BY BuyingAssumptions DEF Buying!Assumptions
<1>3. /\ offer.breaks \in Seq(Buying!Breaks) \cup {None} /\ offer.stock \in Nat \cup {None}
      /\ offer.number \in BOOLEAN
  BY DEF Buying!Offers
<1>4. CASE offer.breaks = None \/ offer.breaks = <<>>
  <2>1. Buying!UnitPrice(offer.breaks, q) = None
    BY <1>4 DEF Buying!UnitPrice
  <2>2. Buying!InError(offer, q) = TRUE
    BY <2>1 DEF Buying!InError
  <2> HIDE DEF r
  <2>3. r \in Buying!Results
    BY <1>1, <1>3, <2>1, <2>2 DEF Buying!Results
  <2> QED BY <1>1, <2>2, <2>3 DEF Honest
<1>5. CASE offer.breaks # None /\ offer.breaks # <<>>
  <2>1. /\ Buying!UnitPrice(offer.breaks, q) = Buying!ListPrice(offer.breaks, q)
        /\ Buying!UnitPrice(offer.breaks, q) \in Prices \cup {None}
    BY <1>3, <1>5, UnitIsListPrice
  <2>2. Buying!InError(offer, q) \in BOOLEAN
    BY DEF Buying!InError
  <2>3. ASSUME ~Buying!InError(offer, q) PROVE Buying!UnitPrice(offer.breaks, q) # None
                   /\ offer.stock # None /\ offer.stock >= q
    BY <1>2, <1>3, <2>3 DEF Buying!InError
  <2> HIDE DEF r
  <2>4. r \in Buying!Results
    BY <1>1, <1>3, <2>1, <2>2 DEF Buying!Results
  <2> QED BY <1>1, <1>2, <2>1, <2>3, <2>4 DEF Honest, Sound
<1> QED BY <1>4, <1>5

LEMMA AskedAreHonest ==
  ASSUME NEW q \in Nat, NEW r \in Buying!Asked(q)
  PROVE  Honest(r)
<1>1. Honest(Buying!FailedLine(q))
  BY DEF Honest, Buying!FailedLine, Buying!Results
<1>2. ASSUME NEW p \in Products PROVE Honest(Buying!DigikeyLine(p, q)) /\ Honest(Buying!MouserLine(p, q))
  <2>1. p.own \in Buying!Offers /\ p.variation \in Buying!Offers
    BY BuyingAssumptions DEF Buying!Assumptions
  <2>2. [breaks |-> Buying!OrElse(p.own.breaks, p.variation.breaks),
         stock  |-> Buying!OrElse(p.own.stock, p.variation.stock),
         number |-> p.own.number \/ p.variation.number] \in Buying!Offers
    BY <2>1 DEF Buying!Offers, Buying!OrElse
  <2> QED BY <2>1, <2>2, LineIsHonest DEF Buying!DigikeyLine, Buying!MouserLine
<1> QED BY <1>1, <1>2 DEF Buying!Asked

----------------------------------------------------------------------------
(* Quotes *)

Stages == {"idle", "lookup", "quoted", "cart", "order", "accepted"}
Ready  == {"quoted", "cart", "order", "accepted"}
Ok(ls) == {k \in 1..Len(ls) : ~ls[k].error}
Quotes == {"Quoted", "Partial"}

\* Every line that was looked up is honest, and all were before the quote.
QuoteShape ==
  /\ buPc \in Stages /\ buCart \in Carts \cup {<<>>} /\ buLines \in Seq(Buying!Results)
  /\ \A k \in 1..Len(buLines) : Honest(buLines[k])
  /\ buPc = "lookup" => Len(buLines) < Len(buCart)
  /\ buPc \in Ready => Len(buLines) = Len(buCart)

\* A quote is told when the request ends, of the lines as they stay.
QuoteTold ==
  buAnswer \in Quotes =>
    /\ buPc = "idle" /\ Len(buLines) = Len(buCart)
    /\ Ok(buLines) # {} /\ buSubtotal = Total(buLines)
    /\ buAnswer = "Quoted" <=> Ok(buLines) = 1..Len(buLines)

QuoteInv == QuoteShape /\ QuoteTold

LEMMA InitQuote == Buying!Init => QuoteInv
<1>1. "Quoted" # None /\ "Partial" # None
  BY BuyingAssumptions DEF Buying!Assumptions, Buying!Statuses
<1> QED BY <1>1 DEF Buying!Init, QuoteInv, QuoteShape, QuoteTold, Stages, Ready, Quotes

\* A step that neither looks up nor quotes.
LEMMA OthersKeepQuote ==
  ASSUME QuoteInv, UNCHANGED <<buLines, buCart>>,
         buPc' \in {"idle", buPc} \/ (buPc \in Ready /\ buPc' \in Ready),
         buAnswer' \notin Quotes \/ (buAnswer' = buAnswer /\ buPc # "idle")
  PROVE  QuoteInv'
<1>1. QuoteShape'
  BY DEF QuoteInv, QuoteShape, Stages, Ready
<1>2. buAnswer' \notin Quotes
  BY DEF QuoteInv, QuoteTold
<1> QED BY <1>1, <1>2 DEF QuoteInv, QuoteTold

LEMMA NoQuotes ==
  /\ {"timed out", "timed out, do not retry", "upstream failed", "Unavailable", "Submitted",
      "NotConfigured", "RequiresDistributorCredit", "RequiresSubscription", "Error"} \cap Quotes = {}
  /\ None \notin Quotes
BY BuyingAssumptions DEF Buying!Assumptions, Buying!Statuses, Quotes

LEMMA BeginningsKeepQuote ==
  ASSUME QuoteInv, Buying!Ask \/ Buying!Refuse
  PROVE  QuoteInv'
<1>1. buLines' = <<>> /\ buCart' \in Carts /\ buAnswer' \notin Quotes
  BY NoQuotes DEF Buying!Ask, Buying!Refuse
<1>2. Len(buLines') = 0 /\ buLines' \in Seq(Buying!Results) /\ Len(buCart') \in Nat \ {0}
  BY <1>1, BuyingAssumptions DEF Buying!Assumptions
<1>3. buPc' = "lookup" \/ (buPc' = "idle")
  BY DEF Buying!Ask, Buying!Refuse
<1> QED BY <1>1, <1>2, <1>3 DEF QuoteInv, QuoteShape, QuoteTold, Stages, Ready

LEMMA EndingsKeepQuote ==
  ASSUME QuoteInv,
         \/ Buying!Timeout \/ Buying!Broken \/ Buying!Drop \/ Buying!NotSetUp \/ Buying!PlaceOrder
         \/ Buying!FillCart \/ Buying!Accept \/ Buying!NotAccepted \/ Buying!Submitted \/ Buying!Lost
  PROVE  QuoteInv'
<1>1. UNCHANGED <<buLines, buCart>>
  BY DEF Buying!Timeout, Buying!Broken, Buying!Drop, Buying!NotSetUp, Buying!PlaceOrder, Buying!FillCart,
         Buying!Accept, Buying!NotAccepted, Buying!Submitted, Buying!Lost, Buying!request
<1>2. buPc' \in {"idle", buPc} \/ (buPc \in Ready /\ buPc' \in Ready)
  BY DEF Buying!Timeout, Buying!Broken, Buying!Drop, Buying!NotSetUp, Buying!PlaceOrder, Buying!FillCart,
         Buying!Accept, Buying!NotAccepted, Buying!Submitted, Buying!Lost, Buying!Tell, Ready
<1>3. buAnswer' \notin Quotes \/ (buAnswer' = buAnswer /\ buPc # "idle")
  BY NoQuotes DEF Buying!Timeout, Buying!Broken, Buying!Drop, Buying!NotSetUp, Buying!PlaceOrder,
     Buying!FillCart,
         Buying!Accept, Buying!NotAccepted, Buying!Submitted, Buying!Lost, Buying!Tell
<1> QED BY <1>1, <1>2, <1>3, OthersKeepQuote

LEMMA LookUpKeepsQuote ==
  ASSUME QuoteInv, Buying!LookUp
  PROVE  QuoteInv'
<1>1. /\ buPc = "lookup" /\ Len(buLines) < Len(buCart) /\ buLines \in Seq(Buying!Results)
      /\ buCart \in Seq(Nat) /\ buAnswer \notin Quotes /\ Len(buLines) \in Nat
  BY BuyingAssumptions DEF QuoteInv, QuoteShape, QuoteTold, Buying!LookUp, Buying!Assumptions
<1>2. PICK r \in Buying!Asked(buCart[Len(buLines) + 1]) : buLines' = Append(buLines, r)
  BY DEF Buying!LookUp
<1>3. buCart[Len(buLines) + 1] \in Nat
  BY <1>1
<1>4. Honest(r) /\ r \in Buying!Results
  BY <1>3, AskedAreHonest DEF Honest
<1>5. /\ buLines' \in Seq(Buying!Results) /\ Len(buLines') = Len(buLines) + 1
      /\ \A k \in 1..Len(buLines') : buLines'[k] = IF k = Len(buLines) + 1 THEN r ELSE buLines[k]
  BY <1>1, <1>2, <1>4
<1>6. ASSUME NEW k \in 1..Len(buLines') PROVE Honest(buLines'[k])
  <2>1. \A j \in 1..Len(buLines) : Honest(buLines[j])
    BY DEF QuoteInv, QuoteShape
  <2>2. CASE k = Len(buLines) + 1
    BY <1>4, <1>5, <2>2
  <2>3. CASE k # Len(buLines) + 1
    <3>1. k \in 1..Len(buLines) /\ buLines'[k] = buLines[k]
      BY <1>1, <1>5, <2>3
    <3> QED BY <2>1, <3>1
  <2> QED BY <2>2, <2>3
<1>7. /\ buCart' = buCart /\ buAnswer' = buAnswer
      /\ buPc' = IF Len(buLines') = Len(buCart) THEN "quoted" ELSE "lookup"
  BY DEF Buying!LookUp, Buying!request
<1>8. QuoteShape'
  BY <1>1, <1>5, <1>6, <1>7 DEF QuoteInv, QuoteShape, Stages, Ready
<1> QED BY <1>1, <1>7, <1>8 DEF QuoteInv, QuoteTold

\* The status of a quote is what its lines are.
LEMMA QuoteKeepsQuote ==
  ASSUME QuoteInv, Buying!Quote
  PROVE  QuoteInv'
<1>1. /\ buPc = "quoted" /\ buPc' = "idle" /\ UNCHANGED <<buLines, buCart>>
      /\ buAnswer' \in {Buying!Status, buAnswer} /\ buAnswer \notin Quotes
      /\ Len(buLines) = Len(buCart) /\ Len(buLines) \in Nat
  BY DEF QuoteInv, QuoteShape, QuoteTold, Ready, Buying!Quote, Buying!Tell, Buying!request
<1>2. QuoteShape'
  BY <1>1 DEF QuoteInv, QuoteShape, Stages, Ready
<1>3. Buying!Good = Ok(buLines)
  BY DEF Buying!Good, Ok, QuoteInv, QuoteShape, Honest
<1>4. Buying!Sum = Total(buLines)
  BY DEF Buying!Sum, Buying!Extended, Total
<1>5. CASE buAnswer' \notin Quotes
  BY <1>2, <1>5 DEF QuoteInv, QuoteTold
<1>6. CASE buAnswer' \in Quotes
  <2>1. buAnswer' = Buying!Status
    BY <1>1, <1>6
  <2>2. Ok(buLines) # {}
    BY <1>3, <1>6, <2>1, NoQuotes DEF Buying!Status
  <2>3. buSubtotal' = Total(buLines)
    BY <1>3, <1>4, <2>2 DEF Buying!Quote
  <2>4. Cardinality(Ok(buLines)) = Len(buCart) <=> Ok(buLines) = 1..Len(buLines)
    <3>1. IsFiniteSet(1..Len(buLines)) /\ Cardinality(1..Len(buLines)) = Len(buLines)
      <4>1. ASSUME NEW n \in Nat PROVE IsFiniteSet(1..n) /\ Cardinality(1..n) = n
        BY FS_Interval
      <4> QED BY <1>1, <4>1
    <3>2. Ok(buLines) \subseteq 1..Len(buLines)
      BY DEF Ok
    <3> QED BY <1>1, <3>1, <3>2, FS_Subset
  <2>c. Buying!Cardinality(Ok(buLines)) = Cardinality(Ok(buLines))
    BY DEF Buying!Cardinality, Cardinality
  <2>5. buAnswer' = "Quoted" <=> Ok(buLines) = 1..Len(buLines)
    BY <1>3, <2>1, <2>2, <2>4, <2>c DEF Buying!Status
  <2>6. QuoteTold'
    BY <1>1, <2>2, <2>3, <2>5 DEF QuoteTold
  <2> QED BY <1>2, <2>6 DEF QuoteInv
<1> QED BY <1>5, <1>6

LEMMA StutterKeepsQuote == ASSUME QuoteInv, UNCHANGED Buying!vars PROVE QuoteInv'
BY DEF QuoteInv, QuoteShape, QuoteTold, Buying!vars

----------------------------------------------------------------------------
(* Orders *)

\* Only orders get to the distributor's basket.
Counters ==
  /\ buPc \in Stages
  /\ buPlaced \in Nat /\ buOwned \in Nat /\ buLost \in Nat
  /\ buPc \in {"cart", "order", "accepted"} => buOrder

\* An order the gateway has given up on is owned up to before it is placed.
GivenUp == ~buListening /\ buOrder /\ buPc \notin {"idle", "accepted"}

OwnedUp ==
  /\ GivenUp => buPlaced + 1 <= buOwned + buLost
  /\ buPc = "accepted" /\ buListening => buPlaced <= buOwned + buLost + 1
  /\ ~(buPc = "accepted" /\ buListening) => buPlaced <= buOwned + buLost

OwnInv == Counters /\ OwnedUp

LEMMA InitOwned == Buying!Init => OwnInv
  BY DEF Buying!Init, OwnInv, Counters, OwnedUp, GivenUp, Stages

\* A new request begins at rest, with somebody who listens.
LEMMA BeginsOwned ==
  ASSUME OwnInv, Buying!Ask \/ Buying!Refuse PROVE OwnInv'
<1>1. CASE Buying!Ask
  BY <1>1 DEF Buying!Ask, OwnInv, Counters, OwnedUp, GivenUp, Stages
<1>2. CASE Buying!Refuse
  BY <1>2 DEF Buying!Refuse, OwnInv, Counters, OwnedUp, GivenUp, Stages
<1> QED BY <1>1, <1>2

\* The gateway gives up, and the service ends what nobody waits for.
LEMMA GivesUpOwned ==
  ASSUME OwnInv, Buying!Timeout \/ Buying!Broken \/ Buying!Drop PROVE OwnInv'
<1>1. CASE Buying!Timeout
  <2>1. buListening /\ ~buListening' /\ buPc' = buPc /\ (buOrder' <=> buOrder) /\ buPlaced' = buPlaced
    BY <1>1 DEF Buying!Timeout, Buying!Warns, Buying!request
  <2>2. buLost' = buLost /\ (buOrder => buOwned' = buOwned + 1) /\ (~buOrder => buOwned' = buOwned)
    BY <1>1 DEF Buying!Timeout, Buying!Warns, Buying!request
  <2> QED BY <2>1, <2>2 DEF OwnInv, Counters, OwnedUp, GivenUp, Stages
<1>2. CASE Buying!Broken
  <2>1. buListening /\ ~buListening' /\ buPc' = buPc /\ (buOrder' <=> buOrder) /\ buPlaced' = buPlaced
    BY <1>2 DEF Buying!Broken, Buying!request
  <2>2. buOwned' = buOwned /\ (buOrder => buLost' = buLost + 1) /\ (~buOrder => buLost' = buLost)
    BY <1>2 DEF Buying!Broken, Buying!request
  <2> QED BY <2>1, <2>2 DEF OwnInv, Counters, OwnedUp, GivenUp, Stages
<1>3. CASE Buying!Drop
  BY <1>3 DEF Buying!Drop, Buying!request, OwnInv, Counters, OwnedUp, GivenUp, Stages
<1> QED BY <1>1, <1>2, <1>3

\* Answers before an order is placed.
LEMMA QuotesOwned ==
  ASSUME OwnInv, Buying!NotSetUp \/ Buying!LookUp \/ Buying!Quote PROVE OwnInv'
<1>1. CASE Buying!NotSetUp
  BY <1>1 DEF Buying!NotSetUp, Buying!Tell, Buying!request, OwnInv, Counters, OwnedUp, GivenUp, Stages
<1>2. CASE Buying!LookUp
  BY <1>2 DEF Buying!LookUp, Buying!request, OwnInv, Counters, OwnedUp, GivenUp, Stages
<1>3. CASE Buying!Quote
  BY <1>3 DEF Buying!Quote, Buying!Tell, Buying!request, OwnInv, Counters, OwnedUp, GivenUp, Stages
<1> QED BY <1>1, <1>2, <1>3

LEMMA OrdersOwned ==
  ASSUME OwnInv, Buying!PlaceOrder \/ Buying!FillCart \/ Buying!Accept \/ Buying!NotAccepted \/ Buying!Submitted \/ Buying!Lost
  PROVE OwnInv'
<1>1. CASE Buying!PlaceOrder
  BY <1>1 DEF Buying!PlaceOrder, Buying!Tell, Buying!request, OwnInv, Counters, OwnedUp, GivenUp, Stages
<1>2. CASE Buying!FillCart
  BY <1>2 DEF Buying!FillCart, Buying!Tell, Buying!request, OwnInv, Counters, OwnedUp, GivenUp, Stages
<1>3. CASE Buying!Accept
  BY <1>3 DEF Buying!Accept, Buying!request, OwnInv, Counters, OwnedUp, GivenUp, Stages
<1>4. CASE Buying!NotAccepted
  BY <1>4 DEF Buying!NotAccepted, Buying!Tell, Buying!request, OwnInv, Counters, OwnedUp, GivenUp, Stages
<1>5. CASE Buying!Submitted
  BY <1>5 DEF Buying!Submitted, Buying!Tell, Buying!request, OwnInv, Counters, OwnedUp, GivenUp, Stages
<1>6. CASE Buying!Lost
  <2>1. /\ buPc = "accepted" /\ buPc' = "idle" /\ buPlaced' = buPlaced /\ buOwned' = buOwned
        /\ (buListening => buLost' = buLost + 1) /\ (~buListening => buLost' = buLost)
    BY <1>6 DEF Buying!Lost, Buying!Tell
  <2> QED BY <2>1 DEF OwnInv, Counters, OwnedUp, GivenUp, Stages
<1> QED BY <1>1, <1>2, <1>3, <1>4, <1>5, <1>6

LEMMA StutterOwned == ASSUME OwnInv, UNCHANGED Buying!vars PROVE OwnInv'
  BY DEF Buying!vars, OwnInv, Counters, OwnedUp, GivenUp, Stages

LEMMA OwnedIsNoSilence == OwnInv => NoSilentOrder
  BY DEF OwnInv, Counters, OwnedUp, NoSilentOrder, Buying!NoSilentOrder

----------------------------------------------------------------------------

LEMMA NextKeepsBoth ==
  OwnInv /\ QuoteInv /\ [Buying!Next]_(Buying!vars) => (OwnInv /\ QuoteInv)'
<1> SUFFICES ASSUME OwnInv, QuoteInv, [Buying!Next]_(Buying!vars) PROVE OwnInv' /\ QuoteInv'
  OBVIOUS
<1>1. CASE UNCHANGED Buying!vars
  BY <1>1, StutterOwned, StutterKeepsQuote
<1>2. CASE Buying!Next
  <2>1. OwnInv'
    BY <1>2, BeginsOwned, GivesUpOwned, QuotesOwned, OrdersOwned DEF Buying!Next
  <2>2. QuoteInv'
    BY <1>2, BeginningsKeepQuote, EndingsKeepQuote, LookUpKeepsQuote, QuoteKeepsQuote DEF Buying!Next
  <2> QED BY <2>1, <2>2
<1> QED BY <1>1, <1>2

LEMMA QuotesAreHonest == QuoteInv => QuoteIsHonest
<1> SUFFICES ASSUME QuoteInv PROVE QuoteIsHonest
  OBVIOUS
<1>1. /\ buLines \in Seq(Buying!Results) /\ Len(buLines) \in Nat
      /\ \A k \in Ok(buLines) : buLines[k].unit # None /\ Sound(buLines[k])
      /\ Ok(buLines) \in SUBSET (1..Len(buLines))
  BY DEF QuoteInv, QuoteShape, Honest, Ok
<1>2. /\ Cost(buLines, Ok(buLines)) <= Total(buLines)
      /\ Ok(buLines) = 1..Len(buLines) => Cost(buLines, Ok(buLines)) = Total(buLines)
  BY <1>1, TotalAndCost
<1>3. buAnswer = "Quoted" => Ok(buLines) = 1..Len(buCart) /\ buSubtotal = Cost(buLines, Ok(buLines))
  BY <1>2 DEF QuoteInv, QuoteTold, Quotes
<1>4. buAnswer = "Partial" => /\ Ok(buLines) # {} /\ Ok(buLines) # 1..Len(buCart)
                              /\ buSubtotal >= Cost(buLines, Ok(buLines))
  BY <1>2 DEF QuoteInv, QuoteTold, Quotes
<1> QED BY <1>1, <1>3, <1>4 DEF QuoteIsHonest, Buying!QuoteIsHonest, Sound, Ok, Cost

\* The behaviours of Backend are, of purchasing, those of Purchasing.
LEMMA BuyingSpec == SpecAll => Buying!Spec
<1>1. InitAll => Buying!Init
  BY DEF InitAll
<1>2. [NextOfOne]_everything => [Buying!Next]_(Buying!vars)
  BY DEF NextOfOne, everything, buyingVars, Buying!vars
<1> QED BY <1>1, <1>2, PTL DEF SpecAll, Buying!Spec

\* Every order a distributor accepts was owned up to, or its answer was lost on
\* the way to the gateway, however timeouts, errors and closed connections
\* fall between the steps of place_order.
THEOREM NoOrderIsSilent == SpecAll => []NoSilentOrder
BY InitOwned, InitQuote, NextKeepsBoth, OwnedIsNoSilence, BuyingSpec, PTL DEF Buying!Spec

\* A line of a quote without an error is in stock in full at the price that its
\* list has for the quantity, whatever order the breaks are in; a quote that is
\* called complete has every line and the sum of exactly what they cost, a
\* partial one some of them and at least what these cost.
THEOREM EveryQuoteIsHonest == SpecAll => []QuoteIsHonest
BY InitOwned, InitQuote, NextKeepsBoth, QuotesAreHonest, BuyingSpec, PTL DEF Buying!Spec

----------------------------------------------------------------------------
(* The types of the limiter *)

\* What TypeOK says of each lookup, and of the counts they share; the slots of
\* the last minute have their type from WindowInv, the caps and the steps from
\* CapsInv.
LookupTypes ==
  /\ rlSearch \in [Lookups -> BOOLEAN]
  /\ rlKey \in [Lookups -> 0..LastDay] /\ rlAttempt \in [Lookups -> 0..LastAttempt]
  /\ rlSleep \in [Lookups -> Nat]

CountTypes ==
  /\ rlDayKey \in 0..LastDay /\ rlDayCount \in Nat /\ rlPause \in 0..LongestPause
  /\ rlToday \in 0..LastDay /\ rlLookups \in 0..MaxLookups
  /\ rlSpent \in Nat /\ rlCarried \in Nat /\ rlBackdated \in Nat

LimiterTypes == LookupTypes /\ CountTypes /\ rlMinute \in Seq(Limiter!Ages)

LEMMA InitLimiterTypes == Limiter!Init => LimiterTypes
<1> SUFFICES ASSUME Limiter!Init PROVE LimiterTypes
  OBVIOUS
<1>1. LookupTypes
  BY LimiterNumbers DEF Limiter!Init, LookupTypes
<1>2. CountTypes
  BY LimiterNumbers DEF Limiter!Init, CountTypes
<1>3. rlMinute \in Seq(Limiter!Ages)
  BY DEF Limiter!Init
<1> QED BY <1>1, <1>2, <1>3 DEF LimiterTypes

\* The recent slots of the window are some of its slots.
LEMMA RecentAges ==
  ASSUME WindowInv, rlMinute \in Seq(Limiter!Ages)
  PROVE  /\ Limiter!Recent \in Seq(Limiter!Ages) /\ Len(Limiter!Recent) \in Nat
         /\ \A j \in 1..Len(Limiter!Recent) : Limiter!Recent[j] \in Limiter!Ages /\ Limiter!Recent[j] <= Minute
<1>1. Minute \in Nat /\ rlMinute \in Seq(Nat) /\ Falls(rlMinute)
  BY LimiterNumbers DEF WindowInv, Falls
<1>2. PICK t : t = Limiter!Recent
  OBVIOUS
<1>3. /\ t \in Seq(Nat) /\ Len(t) \in Nat /\ \A j \in 1..Len(t) : t[j] <= Minute
  BY <1>1, <1>2, SuffixFalls DEF Limiter!Recent
<1>4. \A j \in 1..Len(t) : t[j] \in Limiter!Ages
  BY <1>1, <1>3 DEF Limiter!Ages
<1>5. t \in Seq(Limiter!Ages)
  BY <1>3, <1>4
<1> QED BY <1>2, <1>3, <1>4, <1>5

\* Going on, waiting, reading the calendar and the caps, and storing these.
LEMMA WaitsKeepTypes ==
  ASSUME LimiterTypes, NEW c \in Lookups,
         \/ Limiter!Lookup(c) \/ Limiter!Acquire(c) \/ Limiter!ReadDay(c) \/ Limiter!WakeUp(c)
         \/ Limiter!ReadLimit(c) \/ Limiter!Observe(c)
         \/ Limiter!WaitIfPaused(c, "paused", "nap", "key")
         \/ Limiter!WaitIfPaused(c, "loop", "loopNap", "limit")
  PROVE  LimiterTypes'
<1>1. /\ UNCHANGED <<rlSearch, rlAttempt, rlMinute, rlDayKey, rlDayCount, rlToday, rlPause, rlSpent,
                     rlCarried, rlBackdated>>
      /\ rlKey' = rlKey \/ rlKey' = [rlKey EXCEPT ![c] = rlToday]
      /\ rlSleep' = rlSleep \/ rlSleep' = [rlSleep EXCEPT ![c] = rlPause]
      /\ rlLookups' = rlLookups \/ (rlLookups < MaxLookups /\ rlLookups' = rlLookups + 1)
  BY DEF Limiter!Lookup, Limiter!Acquire, Limiter!ReadDay, Limiter!WakeUp, Limiter!ReadLimit,
     Limiter!Observe, Limiter!ReadBurst, Limiter!StoreBurst, Limiter!ReadDaily, Limiter!StoreDaily,
     Limiter!WaitIfPaused, Limiter!locals, Limiter!days, Limiter!slots, Limiter!window
<1>2. rlKey' \in [Lookups -> 0..LastDay]
  BY <1>1 DEF LimiterTypes, LookupTypes, CountTypes
<1>3. rlSleep' \in [Lookups -> Nat]
  BY <1>1, LimiterNumbers DEF LimiterTypes, LookupTypes, CountTypes
<1>4. rlLookups' \in 0..MaxLookups
  BY <1>1, LimiterNumbers DEF LimiterTypes, CountTypes
<1> QED BY <1>1, <1>2, <1>3, <1>4 DEF LimiterTypes, LookupTypes, CountTypes

LEMMA CountDayKeepsTypes ==
  ASSUME LimiterTypes, NEW c \in Lookups, Limiter!CountDay(c)
  PROVE  LimiterTypes'
<1>1. LookupTypes'
  <2>1. rlSearch' \in [Lookups -> BOOLEAN]
    BY DEF LimiterTypes, LookupTypes, Limiter!CountDay
  <2>2. rlKey' \in [Lookups -> 0..LastDay]
    BY LimiterNumbers DEF LimiterTypes, LookupTypes, Limiter!CountDay
  <2>3. UNCHANGED <<rlAttempt, rlSleep>>
    BY DEF Limiter!CountDay
  <2> QED BY <2>1, <2>2, <2>3 DEF LimiterTypes, LookupTypes
<1>2. /\ rlDayKey' \in 0..LastDay /\ rlDayCount' \in Nat /\ rlBackdated' \in Nat
      /\ UNCHANGED <<rlPause, rlToday, rlLookups, rlSpent, rlCarried>>
  BY DEF LimiterTypes, LookupTypes, CountTypes, Limiter!CountDay, Limiter!Counted, Limiter!Share,
     Limiter!slots
<1>3. UNCHANGED rlMinute
  BY DEF Limiter!CountDay, Limiter!window
<1> QED BY <1>1, <1>2, <1>3 DEF LimiterTypes, CountTypes

\* A full window's first slot tells how long to sleep.
LEMMA TakeSlotKeepsTypes ==
  ASSUME LimiterTypes, WindowInv, CapsInv, NEW c \in Lookups, Limiter!TakeSlot(c)
  PROVE  LimiterTypes'
<1>1. /\ Limiter!Recent \in Seq(Limiter!Ages) /\ Len(Limiter!Recent) \in Nat
      /\ \A j \in 1..Len(Limiter!Recent) : Limiter!Recent[j] \in Limiter!Ages /\ Limiter!Recent[j] <= Minute
  BY RecentAges DEF LimiterTypes
<1>2. rlMinute' \in Seq(Limiter!Ages)
  <2>1. 0 \in Limiter!Ages
    BY LimiterNumbers DEF Limiter!Ages
  <2> QED BY <1>1, <2>1 DEF Limiter!TakeSlot
<1>3. rlSleep' \in [Lookups -> Nat]
  <2>1. CASE UNCHANGED rlSleep
    BY <2>1 DEF LimiterTypes, LookupTypes
  <2>2. CASE /\ Len(Limiter!Recent) >= rlHeld[c]
             /\ rlSleep' = [rlSleep EXCEPT ![c] = Minute - Head(Limiter!Recent) + 1]
    <3>0. rlHeld[c] \in Nat /\ rlHeld[c] >= 1
      BY LimiterNumbers DEF CapsInv, Caps, HeldIs, Limiter!TakeSlot
    <3>1. Len(Limiter!Recent) >= 1
      BY <1>1, <2>2, <3>0
    <3>2. Head(Limiter!Recent) = Limiter!Recent[1] /\ Limiter!Recent[1] \in Nat /\ Limiter!Recent[1] <= Minute
      BY <1>1, <3>1, LimiterNumbers DEF Limiter!Ages
    <3>3. Minute - Head(Limiter!Recent) + 1 \in Nat
      BY <3>2, LimiterNumbers
    <3> QED BY <2>2, <3>3 DEF LimiterTypes, LookupTypes
  <2> QED BY <2>1, <2>2 DEF Limiter!TakeSlot
<1>4. rlKey' \in [Lookups -> 0..LastDay]
  <2>1. rlKey' = rlKey \/ rlKey' = [rlKey EXCEPT ![c] = 0]
    BY DEF Limiter!TakeSlot
  <2>2. rlKey \in [Lookups -> 0..LastDay] /\ 0 \in 0..LastDay
    BY LimiterNumbers DEF LimiterTypes, LookupTypes
  <2> QED BY ONLY <2>1, <2>2
<1>5. UNCHANGED <<rlSearch, rlAttempt, rlDayKey, rlDayCount, rlPause, rlToday, rlLookups, rlBackdated>>
  BY DEF Limiter!TakeSlot
<1>6. rlSpent' \in Nat /\ rlCarried' \in Nat
  BY DEF LimiterTypes, CountTypes, Limiter!TakeSlot, Limiter!slots
<1> QED BY <1>2, <1>3, <1>4, <1>5, <1>6 DEF LimiterTypes, LookupTypes, CountTypes

LEMMA AnswersKeepTypes ==
  ASSUME LimiterTypes, NEW c \in Lookups, Limiter!Answer(c)
  PROVE  LimiterTypes'
<1>1. rlSearch' \in [Lookups -> BOOLEAN]
  BY DEF LimiterTypes, LookupTypes, Limiter!Answer, Limiter!Answered, Limiter!NotFound, Limiter!TooMany
<1>2. rlAttempt' \in [Lookups -> 0..LastAttempt]
  <2>1. PICK n : /\ n = 0 \/ n = IF rlAttempt[c] < LastAttempt THEN rlAttempt[c] + 1 ELSE rlAttempt[c]
                 /\ rlAttempt' = [rlAttempt EXCEPT ![c] = n]
    BY DEF Limiter!Answer, Limiter!Answered, Limiter!NotFound, Limiter!TooMany
  <2>2. rlAttempt[c] \in 0..LastAttempt
    BY DEF LimiterTypes, LookupTypes
  <2>3. n \in 0..LastAttempt
    BY <2>1, <2>2, LimiterNumbers
  <2> QED BY <2>1, <2>3 DEF LimiterTypes, LookupTypes
<1>3. rlPause' \in 0..LongestPause
  BY LimiterNumbers DEF LimiterTypes, CountTypes, Limiter!Answer, Limiter!Answered, Limiter!NotFound,
     Limiter!TooMany, Limiter!Greater
<1>4. UNCHANGED <<rlKey, rlSleep, rlMinute, rlDayKey, rlDayCount, rlToday, rlLookups, rlSpent,
                  rlCarried, rlBackdated>>
  BY DEF Limiter!Answer, Limiter!Answered, Limiter!NotFound, Limiter!TooMany, Limiter!window,
     Limiter!days, Limiter!slots
<1> QED BY <1>1, <1>2, <1>3, <1>4 DEF LimiterTypes, LookupTypes, CountTypes

LEMMA ClocksKeepTypes ==
  ASSUME LimiterTypes, Limiter!Tick \/ Limiter!Midnight
  PROVE  LimiterTypes'
<1>1. CASE Limiter!Tick
  <2>1. rlSleep' \in [Lookups -> Nat] /\ rlPause' \in 0..LongestPause
    BY <1>1, LimiterNumbers DEF LimiterTypes, LookupTypes, CountTypes, Limiter!Tick, Limiter!Less
  <2>2. rlMinute' \in Seq(Limiter!Ages)
    <3>1. /\ Len(rlMinute) \in Nat /\ DOMAIN rlMinute = 1..Len(rlMinute)
          /\ \A k \in 1..Len(rlMinute) : rlMinute[k] \in Limiter!Ages
      BY DEF LimiterTypes
    <3>2. \A k \in 1..Len(rlMinute) : Limiter!Older(rlMinute[k]) \in Limiter!Ages
      BY <3>1, LimiterNumbers DEF Limiter!Older, Limiter!Ages
    <3>3. rlMinute' = [k \in 1..Len(rlMinute) |-> Limiter!Older(rlMinute[k])]
      BY <1>1, <3>1 DEF Limiter!Tick
    <3> QED BY <3>1, <3>2, <3>3
  <2> QED BY <1>1, <2>1, <2>2 DEF LimiterTypes, LookupTypes, CountTypes, Limiter!Tick,
             Limiter!locals, Limiter!days, Limiter!slots
<1>2. CASE Limiter!Midnight
  <2>1. rlToday' \in 0..LastDay /\ rlSpent' \in Nat /\ rlCarried' \in Nat /\ rlBackdated' \in Nat
    BY <1>2, LimiterNumbers DEF LimiterTypes, CountTypes, Limiter!Midnight
  <2>2. UNCHANGED <<rlSearch, rlKey, rlAttempt, rlSleep, rlMinute, rlDayKey, rlDayCount, rlPause, rlLookups>>
    BY <1>2, Zenon DEF Limiter!Midnight, Limiter!locals, Limiter!window
  <2> QED BY <2>1, <2>2 DEF LimiterTypes, LookupTypes, CountTypes
<1> QED BY <1>1, <1>2

LEMMA NextKeepsTypes ==
  LimiterTypes /\ WindowInv /\ CapsInv /\ [Limiter!Next]_(Limiter!vars) => LimiterTypes'
<1> SUFFICES ASSUME LimiterTypes, WindowInv, CapsInv, [Limiter!Next]_(Limiter!vars) PROVE LimiterTypes'
  OBVIOUS
<1>1. ASSUME NEW c \in Lookups, Limiter!Lookup(c) \/ Limiter!Step(c) PROVE LimiterTypes'
  BY <1>1, WaitsKeepTypes, CountDayKeepsTypes, TakeSlotKeepsTypes, AnswersKeepTypes DEF Limiter!Step
<1>2. CASE Limiter!Tick \/ Limiter!Midnight
  BY <1>2, ClocksKeepTypes
<1>3. CASE UNCHANGED Limiter!vars
  BY <1>3 DEF LimiterTypes, LookupTypes, CountTypes, Limiter!vars
<1> QED BY <1>1, <1>2, <1>3 DEF Limiter!Next

LEMMA LimiterTypesHold == LimiterTypes /\ WindowInv /\ CapsInv => Limiter!TypeOK
<1> SUFFICES ASSUME LimiterTypes, WindowInv, CapsInv PROVE Limiter!TypeOK
  OBVIOUS
<1>1. rlSent \in Seq(Limiter!Ages)
  <2>1. rlSent = Limiter!Recent
    BY DEF WindowInv
  <2> QED BY <2>1, RecentAges DEF LimiterTypes
<1>2. /\ {rlMaxMinute, rlTopMinute} \subseteq PerMinute..PerMinute + Raise
      /\ {rlMaxDay, rlTopDay} \subseteq PerDay..PerDay + Raise
  BY LimiterNumbers DEF CapsInv, Caps
<1> QED BY <1>1, <1>2 DEF LimiterTypes, LookupTypes, CountTypes, CapsInv, Caps, LookupPcs, Limiter!TypeOK

LEMMA LimiterIsTyped == SpecAll => [](Limiter!TypeOK)
<1>1. Limiter!Init => WindowInv /\ CapsInv /\ LimiterTypes
  BY InitWindow, InitCaps, InitLimiterTypes
<1>2. /\ WindowInv /\ CapsInv /\ LimiterTypes /\ [Limiter!Next]_(Limiter!vars)
      => (WindowInv /\ CapsInv /\ LimiterTypes)'
  BY NextKeepsWindow, NextKeepsCaps, NextKeepsTypes
<1> QED BY <1>1, <1>2, LimiterTypesHold, LimiterSpec, PTL DEF Limiter!Spec

----------------------------------------------------------------------------
(* The types of purchasing *)

\* What TypeOK says of the request that QuoteShape does not.
RequestTypes ==
  /\ buListening \in BOOLEAN /\ buOrder \in BOOLEAN /\ buProvider \in {"digikey", "mouser"}
  /\ Len(buLines) <= Len(buCart)
  /\ buAnswer \in Buying!Statuses \cup Buying!Failures \cup {None} /\ buSubtotal \in Nat \cup {None}
  /\ buPc = "idle" => ~buListening

\* Every request is placed once and answered once at most.
Begun(p) == IF p \in {"idle", "accepted"} THEN 0 ELSE 1
Heard(l) == IF l THEN 1 ELSE 0

CountedOnce ==
  /\ buRequests \in 0..MaxRequests
  /\ buPlaced + Begun(buPc) <= buRequests /\ buOwned + buLost + Heard(buListening) <= buRequests

BuyingTypes == RequestTypes /\ CountedOnce

LEMMA InitBuyingTypes == Buying!Init => BuyingTypes
<1> SUFFICES ASSUME Buying!Init PROVE BuyingTypes
  OBVIOUS
<1>1. RequestTypes
  <2>1. buListening = FALSE /\ buOrder = FALSE /\ buProvider = "digikey" /\ buAnswer = None /\ buSubtotal = None
    BY DEF Buying!Init
  <2>2. Len(buLines) <= Len(buCart)
    BY DEF Buying!Init
  <2> QED BY <2>1, <2>2, Zenon DEF RequestTypes
<1>2. Begun(buPc) = 0 /\ Heard(buListening) = 0
  BY DEF Buying!Init, Begun, Heard
<1>3. CountedOnce
  BY <1>2, BuyingAssumptions DEF Buying!Init, CountedOnce, Buying!Assumptions
<1> QED BY <1>1, <1>3 DEF BuyingTypes

LEMMA CountsAreNumbers ==
  ASSUME OwnInv
  PROVE  /\ buPlaced \in Nat /\ buOwned \in Nat /\ buLost \in Nat
         /\ Begun(buPc) \in 0..1 /\ Heard(buListening) \in 0..1 /\ MaxRequests \in Nat
BY BuyingAssumptions DEF OwnInv, Counters, Begun, Heard, Buying!Assumptions

LEMMA AnswersAreTold ==
  {"timed out", "timed out, do not retry", "upstream failed", "Unavailable", "Quoted", "Partial",
   "Submitted", "NotConfigured", "RequiresDistributorCredit", "RequiresSubscription", "Error"}
    \subseteq Buying!Statuses \cup Buying!Failures
BY DEF Buying!Statuses, Buying!Failures

\* A step of the service that keeps the lines; it ends the request, or nobody
\* stops listening.
LEMMA SameRequestTypes ==
  ASSUME OwnInv, QuoteInv, BuyingTypes, UNCHANGED <<buOrder, buProvider, buLines, buCart>>,
         buSubtotal' \in Nat \cup {None},
         buAnswer' \in Buying!Statuses \cup Buying!Failures \cup {None},
         buListening' \in {buListening, FALSE},
         buPc' = "idle" => ~buListening'
  PROVE  RequestTypes'
<1>1. buListening' \in BOOLEAN
  BY DEF BuyingTypes, RequestTypes
<1> QED BY <1>1, Zenon DEF BuyingTypes, RequestTypes

\* What is placed and answered for is counted, for a step that leaves requests.
LEMMA SameCounts ==
  ASSUME OwnInv, BuyingTypes, OwnInv', buRequests' = buRequests,
         buPlaced' + Begun(buPc') <= buPlaced + Begun(buPc),
         buOwned' + buLost' + Heard(buListening') <= buOwned + buLost + Heard(buListening)
  PROVE  CountedOnce'
<1>1. /\ buPlaced \in Nat /\ buOwned \in Nat /\ buLost \in Nat /\ MaxRequests \in Nat
      /\ Begun(buPc) \in 0..1 /\ Heard(buListening) \in 0..1
  BY CountsAreNumbers
<1>2. /\ buPlaced' \in Nat /\ buOwned' \in Nat /\ buLost' \in Nat
      /\ Begun(buPc') \in 0..1 /\ Heard(buListening') \in 0..1
  BY DEF OwnInv, Counters, Begun, Heard
<1>3. /\ buRequests \in 0..MaxRequests
      /\ buPlaced + Begun(buPc) <= buRequests /\ buOwned + buLost + Heard(buListening) <= buRequests
  BY DEF BuyingTypes, CountedOnce
<1>4. /\ buRequests' \in 0..MaxRequests
      /\ buPlaced' + Begun(buPc') <= buRequests' /\ buOwned' + buLost' + Heard(buListening') <= buRequests'
  <2>1. buPlaced' + Begun(buPc') <= buRequests
    <3>1. buPlaced + Begun(buPc) <= buRequests /\ buRequests \in Nat
      BY <1>1, <1>3
    <3> QED BY <1>1, <1>2, <3>1
  <2>2. buOwned' + buLost' + Heard(buListening') <= buRequests
    <3>1. buOwned + buLost + Heard(buListening) <= buRequests /\ buRequests \in Nat
      BY <1>1, <1>3
    <3> QED BY <1>1, <1>2, <3>1
  <2> QED BY <1>3, <2>1, <2>2
<1> QED BY <1>4 DEF CountedOnce

LEMMA BeginningsKeepTypes ==
  ASSUME OwnInv, QuoteInv, BuyingTypes, Buying!Ask \/ Buying!Refuse
  PROVE  BuyingTypes'
<1>1. buLines' = <<>> /\ buCart' \in Carts
  BY DEF Buying!Ask, Buying!Refuse
<1>2. Len(buLines') <= Len(buCart')
  BY <1>1, BuyingAssumptions DEF Buying!Assumptions
<1>3. buPc = "idle" /\ ~buListening
  BY DEF Buying!Ask, Buying!Refuse, BuyingTypes, RequestTypes
<1>4. RequestTypes'
  <2>1. buOrder' \in BOOLEAN /\ buProvider' \in {"digikey", "mouser"} /\ buSubtotal' = None
    BY DEF Buying!Ask, Buying!Refuse
  <2>2. buAnswer' \in Buying!Statuses \cup Buying!Failures \cup {None}
    BY AnswersAreTold DEF Buying!Ask, Buying!Refuse
  <2>3. buListening' \in BOOLEAN /\ (buPc' = "idle" => ~buListening')
    <3>1. CASE Buying!Ask
      BY <3>1 DEF Buying!Ask
    <3>2. CASE Buying!Refuse
      <4>1. buListening' = buListening
        BY <3>2 DEF Buying!Refuse
      <4> QED BY <1>3, <4>1, Zenon DEF BuyingTypes, RequestTypes
    <3> QED BY <3>1, <3>2
  <2> QED BY <1>2, <2>1, <2>2, <2>3, Zenon DEF RequestTypes
<1>5. CountedOnce'
  <2>1. /\ buRequests < MaxRequests /\ buRequests' = buRequests + 1
        /\ UNCHANGED <<buPlaced, buOwned, buLost>>
    BY DEF Buying!Ask, Buying!Refuse
  <2>2. Begun(buPc) = 0 /\ Heard(buListening) = 0 /\ Begun(buPc') \in 0..1 /\ Heard(buListening') \in 0..1
    BY <1>3 DEF Begun, Heard
  <2>3. /\ buPlaced \in Nat /\ buOwned \in Nat /\ buLost \in Nat /\ MaxRequests \in Nat
    BY CountsAreNumbers
  <2>4. /\ buRequests \in 0..MaxRequests
        /\ buPlaced + Begun(buPc) <= buRequests /\ buOwned + buLost + Heard(buListening) <= buRequests
    BY DEF BuyingTypes, CountedOnce
  <2>5. /\ buRequests' \in 0..MaxRequests
        /\ buPlaced' + Begun(buPc') <= buRequests' /\ buOwned' + buLost' + Heard(buListening') <= buRequests'
    <3>1. buRequests' \in 0..MaxRequests /\ buRequests \in Nat
      BY <2>1, <2>3, <2>4
    <3>2. buPlaced' + Begun(buPc') <= buRequests'
      <4>1. buPlaced <= buRequests
        BY <2>2, <2>3, <2>4
      <4> QED BY <2>1, <2>2, <2>3, <3>1, <4>1
    <3>3. buOwned' + buLost' + Heard(buListening') <= buRequests'
      <4>1. buOwned + buLost <= buRequests
        BY <2>2, <2>3, <2>4
      <4> QED BY <2>1, <2>2, <2>3, <3>1, <4>1
    <3> QED BY <3>1, <3>2, <3>3
  <2> QED BY <2>5 DEF CountedOnce
<1> QED BY <1>4, <1>5 DEF BuyingTypes

LEMMA OneLess ==
  ASSUME NEW a \in Nat, NEW b \in Nat, NEW c \in Nat, NEW d \in Nat, c + d <= a + b + 1
  PROVE  c + d + 0 <= a + b + 1
OBVIOUS

\* The gateway gives up.
LEMMA GivingUpKeepsTypes ==
  ASSUME OwnInv, QuoteInv, BuyingTypes, OwnInv', Buying!Timeout \/ Buying!Broken
  PROVE  BuyingTypes'
<1>1. /\ buListening /\ ~buListening' /\ UNCHANGED <<buPc, buOrder, buProvider, buCart, buRequests, buLines, buSubtotal, buPlaced>>
      /\ buAnswer' \in {"timed out", "timed out, do not retry", "upstream failed"}
  BY DEF Buying!Timeout, Buying!Broken, Buying!request
<1>2. RequestTypes'
  <2>1. buListening' \in {buListening, FALSE} /\ buSubtotal' \in Nat \cup {None}
    <3>1. buListening' = FALSE
      BY DEF Buying!Timeout, Buying!Broken
    <3> QED BY <1>1, <3>1 DEF BuyingTypes, RequestTypes
  <2>2. buAnswer' \in Buying!Statuses \cup Buying!Failures \cup {None}
    BY <1>1, AnswersAreTold
  <2> QED BY <1>1, <2>1, <2>2, SameRequestTypes
<1>3. buOwned' + buLost' <= buOwned + buLost + 1
  <2>1. \/ (buOwned' = buOwned \/ buOwned' = buOwned + 1) /\ buLost' = buLost
        \/ buOwned' = buOwned /\ (buLost' = buLost \/ buLost' = buLost + 1)
    BY DEF Buying!Timeout, Buying!Broken
  <2> QED BY <2>1, CountsAreNumbers
<1>4. CountedOnce'
  <2>1. buPlaced' + Begun(buPc') <= buPlaced + Begun(buPc)
    <3>1. buPlaced' = buPlaced /\ Begun(buPc') = Begun(buPc)
      BY <1>1
    <3>2. buPlaced + Begun(buPc) \in Nat
      BY CountsAreNumbers
    <3> QED BY ONLY <3>1, <3>2
  <2>2. buOwned' + buLost' + Heard(buListening') <= buOwned + buLost + Heard(buListening)
    <3>1. Heard(buListening) = 1
      BY <1>1 DEF Heard
    <3>2. Heard(buListening') = 0
      BY <1>1 DEF Heard
    <3>3. buOwned' \in Nat /\ buLost' \in Nat
      BY DEF OwnInv, Counters
    <3>4. buOwned \in Nat /\ buLost \in Nat
      BY CountsAreNumbers
    <3>5. buOwned' + buLost' + 0 <= buOwned + buLost + 1
      BY <1>3, <3>3, <3>4, OneLess
    <3> QED BY ONLY <3>1, <3>2, <3>5, Zenon
  <2> QED BY <1>1, <2>1, <2>2, SameCounts
<1> QED BY <1>2, <1>4 DEF BuyingTypes

\* What the user is told is one of the answers.
LEMMA TellTypes ==
  ASSUME BuyingTypes, NEW a \in Buying!Statuses \cup Buying!Failures, Buying!Tell(a)
  PROVE  /\ buPc' = "idle" /\ buListening' = FALSE
         /\ buAnswer' \in Buying!Statuses \cup Buying!Failures \cup {None}
BY DEF BuyingTypes, RequestTypes, Buying!Tell

LEMMA StatusIsTold == Buying!Status \in Buying!Statuses
BY DEF Buying!Status, Buying!Statuses

\* A step that tells, moves on or ends without a word.
LEMMA EndingsKeepTypes ==
  ASSUME OwnInv, QuoteInv, BuyingTypes, OwnInv',
         \/ Buying!Drop \/ Buying!NotSetUp \/ Buying!Quote \/ Buying!PlaceOrder \/ Buying!FillCart
         \/ Buying!Accept \/ Buying!NotAccepted \/ Buying!Submitted \/ Buying!Lost
  PROVE  BuyingTypes'
<1>1. /\ UNCHANGED <<buOrder, buProvider, buLines, buCart, buRequests>>
  BY DEF Buying!Drop, Buying!NotSetUp, Buying!Quote, Buying!PlaceOrder, Buying!FillCart,
     Buying!Accept, Buying!NotAccepted, Buying!Submitted, Buying!Lost, Buying!request
<1>2. buSubtotal' \in Nat \cup {None}
  <2>1. CASE buSubtotal' = buSubtotal
    BY <2>1 DEF BuyingTypes, RequestTypes
  <2>2. CASE buSubtotal' = Buying!Sum
    <3>1. buLines \in Seq(Buying!Results) /\ {} \in SUBSET (1..Len(buLines))
      BY DEF QuoteInv, QuoteShape
    <3>2. Total(buLines) \in Nat
      BY <3>1, TotalAndCost
    <3>3. Buying!Sum = Total(buLines)
      BY DEF Buying!Sum, Buying!Extended, Total
    <3> QED BY <2>2, <3>2, <3>3
  <2>3. CASE buSubtotal' = None
    BY <2>3
  <2>4. buSubtotal' = buSubtotal \/ buSubtotal' = Buying!Sum \/ buSubtotal' = None
    BY DEF Buying!Drop, Buying!NotSetUp, Buying!Quote, Buying!PlaceOrder, Buying!FillCart,
     Buying!Accept, Buying!NotAccepted, Buying!Submitted, Buying!Lost
  <2> QED BY <2>1, <2>2, <2>3, <2>4
<1>3. \/ \E a \in Buying!Statuses \cup Buying!Failures : Buying!Tell(a)
      \/ UNCHANGED <<buListening, buAnswer>> /\ buPc \in {"quoted", "cart", "order"} /\ buPc' \in {"cart", "order", "accepted"}
      \/ Buying!Drop
  <2>1. ASSUME Buying!NotSetUp \/ Buying!NotAccepted \/ Buying!Submitted \/ Buying!Lost
        PROVE  \E a \in Buying!Statuses \cup Buying!Failures : Buying!Tell(a)
    BY <2>1, AnswersAreTold DEF Buying!NotSetUp, Buying!NotAccepted, Buying!Submitted, Buying!Lost
  <2>2. ASSUME Buying!Quote PROVE \E a \in Buying!Statuses \cup Buying!Failures : Buying!Tell(a)
    BY <2>2, StatusIsTold DEF Buying!Quote
  <2>3. ASSUME Buying!PlaceOrder \/ Buying!FillCart \/ Buying!Accept
        PROVE  \/ \E a \in Buying!Statuses \cup Buying!Failures : Buying!Tell(a)
               \/ UNCHANGED <<buListening, buAnswer>> /\ buPc \in {"quoted", "cart", "order"} /\ buPc' \in {"cart", "order", "accepted"}
    BY <2>3, AnswersAreTold DEF Buying!PlaceOrder, Buying!FillCart, Buying!Accept
  <2> QED BY <2>1, <2>2, <2>3
<1>4. /\ buListening' \in {buListening, FALSE} /\ (buPc' = "idle" => ~buListening')
      /\ buAnswer' \in Buying!Statuses \cup Buying!Failures \cup {None}
  <2>1. ASSUME NEW a \in Buying!Statuses \cup Buying!Failures, Buying!Tell(a)
        PROVE  buListening' = FALSE /\ buAnswer' \in Buying!Statuses \cup Buying!Failures \cup {None}
    BY <2>1, TellTypes
  <2>2. CASE Buying!Drop
    BY <2>2 DEF Buying!Drop, BuyingTypes, RequestTypes
  <2>3. CASE UNCHANGED <<buListening, buAnswer>> /\ buPc' \in {"cart", "order", "accepted"}
    BY <2>3 DEF BuyingTypes, RequestTypes
  <2> QED BY <1>3, <2>1, <2>2, <2>3
<1>5. RequestTypes'
  BY <1>1, <1>2, <1>4, SameRequestTypes
<1>6. buPlaced' + Begun(buPc') <= buPlaced + Begun(buPc)
  <2>1. CASE Buying!Accept
    <3>1. Begun(buPc) = 1 /\ Begun(buPc') = 0 /\ buPlaced' = buPlaced + 1
      BY <2>1 DEF Buying!Accept, Begun
    <3> QED BY <3>1, CountsAreNumbers
  <2>2. CASE ~Buying!Accept
    <3>1. buPlaced' = buPlaced
      BY <2>2 DEF Buying!Drop, Buying!NotSetUp, Buying!Quote, Buying!PlaceOrder, Buying!FillCart,
         Buying!NotAccepted, Buying!Submitted, Buying!Lost
    <3>2. buPc' = "idle" \/ (buPc \in {"quoted", "cart", "order"})
      BY <1>3 DEF Buying!Tell, Buying!Drop
    <3>3. Begun(buPc') <= Begun(buPc)
      BY <3>2 DEF Begun
    <3>4. Begun(buPc) \in 0..1 /\ Begun(buPc') \in 0..1
      BY DEF Begun
    <3> QED BY <3>1, <3>3, <3>4, CountsAreNumbers
  <2> QED BY <2>1, <2>2
<1>7. buOwned' + buLost' + Heard(buListening') <= buOwned + buLost + Heard(buListening)
  <2>1. CASE Buying!Submitted \/ Buying!Lost
    <3>1. /\ buListening' = FALSE
          /\ \/ buLost' = buLost /\ buOwned' = IF buListening THEN buOwned + 1 ELSE buOwned
             \/ buOwned' = buOwned /\ buLost' = IF buListening THEN buLost + 1 ELSE buLost
      BY <2>1 DEF Buying!Submitted, Buying!Lost, Buying!Tell
    <3>2. Heard(buListening') = 0 /\ Heard(buListening) = (IF buListening THEN 1 ELSE 0)
      BY <3>1 DEF Heard
    <3>3. CASE buListening
      BY <3>1, <3>2, <3>3, CountsAreNumbers
    <3>4. CASE ~buListening
      BY <3>1, <3>2, <3>4, CountsAreNumbers
    <3> QED BY <3>3, <3>4
  <2>2. CASE ~(Buying!Submitted \/ Buying!Lost)
    <3>1. buOwned' = buOwned /\ buLost' = buLost
      BY <2>2 DEF Buying!Drop, Buying!NotSetUp, Buying!Quote, Buying!PlaceOrder, Buying!FillCart,
         Buying!Accept, Buying!NotAccepted
    <3>2. Heard(buListening') <= Heard(buListening) /\ Heard(buListening') \in 0..1
      <4>1. buListening' => buListening
        BY <1>4
      <4> QED BY <4>1 DEF Heard
    <3> QED BY <3>1, <3>2, CountsAreNumbers
  <2> QED BY <2>1, <2>2
<1>8. CountedOnce'
  BY <1>1, <1>6, <1>7, SameCounts
<1> QED BY <1>5, <1>8 DEF BuyingTypes

LEMMA LookUpKeepsTypes ==
  ASSUME OwnInv, QuoteInv, BuyingTypes, OwnInv', Buying!LookUp
  PROVE  BuyingTypes'
<1>1. /\ buPc = "lookup" /\ buPc' \in {"quoted", "lookup"}
      /\ UNCHANGED <<buListening, buOrder, buProvider, buCart, buRequests, buAnswer, buSubtotal, buPlaced, buOwned, buLost>>
  BY DEF Buying!LookUp, Buying!request
<1>2. Len(buLines') <= Len(buCart')
  <2>1. buLines \in Seq(Buying!Results) /\ Len(buLines) < Len(buCart) /\ buCart \in Seq(Nat)
    BY <1>1, BuyingAssumptions DEF QuoteInv, QuoteShape, Buying!Assumptions
  <2>2. PICK r : buLines' = Append(buLines, r)
    BY DEF Buying!LookUp
  <2>3. Len(buLines') = Len(buLines) + 1 /\ Len(buLines) \in Nat /\ Len(buCart) \in Nat
    BY <2>1, <2>2
  <2> QED BY <1>1, <2>1, <2>3
<1>3. RequestTypes'
  BY <1>1, <1>2, Zenon DEF BuyingTypes, RequestTypes
<1>4. Begun(buPc') = Begun(buPc) /\ Heard(buListening') = Heard(buListening)
  BY <1>1 DEF Begun, Heard
<1>5. CountedOnce'
  BY <1>1, <1>4 DEF BuyingTypes, CountedOnce
<1> QED BY <1>3, <1>5 DEF BuyingTypes

LEMMA NextKeepsBuyingTypes ==
  OwnInv /\ QuoteInv /\ BuyingTypes /\ OwnInv' /\ [Buying!Next]_(Buying!vars) => BuyingTypes'
<1> SUFFICES ASSUME OwnInv, QuoteInv, BuyingTypes, OwnInv', [Buying!Next]_(Buying!vars) PROVE BuyingTypes'
  OBVIOUS
<1>1. CASE UNCHANGED Buying!vars
  BY <1>1 DEF Buying!vars, BuyingTypes, RequestTypes, CountedOnce, Begun, Heard
<1>2. CASE Buying!Next
  BY <1>2, BeginningsKeepTypes, GivingUpKeepsTypes, EndingsKeepTypes, LookUpKeepsTypes DEF Buying!Next
<1> QED BY <1>1, <1>2

LEMMA BuyingTypesHold == OwnInv /\ QuoteInv /\ BuyingTypes => Buying!TypeOK
<1> SUFFICES ASSUME OwnInv, QuoteInv, BuyingTypes PROVE Buying!TypeOK
  OBVIOUS
<1>1. buPlaced \in 0..MaxRequests /\ buOwned \in 0..MaxRequests /\ buLost \in 0..MaxRequests
  <2>1. Begun(buPc) \in 0..1 /\ Heard(buListening) \in 0..1
    BY DEF Begun, Heard
  <2> QED BY <2>1, BuyingAssumptions DEF BuyingTypes, CountedOnce, OwnInv, Counters, Buying!Assumptions
<1> QED BY <1>1 DEF Buying!TypeOK, BuyingTypes, RequestTypes, CountedOnce, QuoteInv, QuoteShape, Stages

LEMMA BuyingIsTyped == SpecAll => [](Buying!TypeOK)
<1>1. Buying!Init => OwnInv /\ QuoteInv /\ BuyingTypes
  BY InitOwned, InitQuote, InitBuyingTypes
<1>2. OwnInv /\ QuoteInv /\ BuyingTypes /\ [Buying!Next]_(Buying!vars) => (OwnInv /\ QuoteInv /\ BuyingTypes)'
  BY NextKeepsBoth, NextKeepsBuyingTypes
<1> QED BY <1>1, <1>2, BuyingTypesHold, BuyingSpec, PTL DEF Buying!Spec

=============================================================================
