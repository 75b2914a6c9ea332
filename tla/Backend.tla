------------------------------ MODULE Backend ------------------------------
(***************************************************************************)
(* The BOM store and five parts of the backend that share no state with it *)
(* or with each other: the Digi-Key limiter, purchasing, the parser, the   *)
(* analysis of an upload, and the readers of the list.  A behaviour is one *)
(* of the part it begins with; the others stay as they are.  So one TLC    *)
(* run checks several of them, and what it finds of each is what a run of  *)
(* it alone would find.                                                    *)
(***************************************************************************)
EXTENDS BomStore, Sequences

CONSTANTS
  Machines,    (* The parts whose behaviours there are.                      *)
  (* Of the limiter: *)
  Lookups, Permits, PerMinute, PerDay, Raise, Minute, LongestPause,
  LastAttempt, MaxLookups, LastDay,
  (* Of purchasing: *)
  Carts, Products, Prices, MaxRequests,
  (* Of the parser: *)
  Files, Synonyms, Kind, Weak, Strong, Exact, Close, QtyNames, Numbers, Costs,
  Skus, Split, Corrections, SheetRows, HeaderRows, RowLimit, MaxUploads, Blank,
  (* Of the analysis: *)
  Rules, Known, NameSuffixes, Programs, China, ShortestCode, Uploads, Parts,
  Makers, Facts, Loaded, Days, TopLimit, Sent, MaxLines, MaxChanges,
  (* Of the list: *)
  ListIds, Seconds, Limits, DefaultLimit, MaxLimit, MaxWrites, MaxReads,
  (* What duties are looked at for: *)
  Datasets, Codes, Origins, DutyDays

VARIABLES
  machine,
  rlPc, rlSearch, rlKey, rlAttempt, rlSleep, rlMinute, rlDayKey, rlDayCount,
  rlPause, rlMaxMinute, rlMaxDay, rlToday, rlLookups, rlSent, rlSpent, rlBackdated,
  rlHeld, rlTopMinute, rlTopDay, rlCarried,
  buPc, buListening, buOrder, buProvider, buCart, buLines, buAnswer, buSubtotal,
  buRequests, buPlaced, buOwned, buLost,
  anStage, anLines, anSummary, anTop, anChanges,
  liIndex, liStored, liWriting, liCreating, liReader, liToken, liTodo, liShown,
  liWrites, liReads, liSteady, liAgain,
  paFile, paOverride, paAnswer, paProposed, paUploads

----------------------------------------------------------------------------
(* The parts; constants of theirs that are not named have the same name here. *)

Limiter == INSTANCE RateLimiter WITH
  pc <- rlPc, search <- rlSearch, key <- rlKey, attempt <- rlAttempt,
  sleep <- rlSleep, minute <- rlMinute, dayKey <- rlDayKey, dayCount <- rlDayCount,
  pause <- rlPause, maxMinute <- rlMaxMinute, maxDay <- rlMaxDay, today <- rlToday,
  lookups <- rlLookups, sent <- rlSent, spent <- rlSpent, backdated <- rlBackdated,
  held <- rlHeld, topMinute <- rlTopMinute, topDay <- rlTopDay, carried <- rlCarried

Buying == INSTANCE Purchasing WITH
  pc <- buPc, listening <- buListening, order <- buOrder, provider <- buProvider,
  cart <- buCart, lines <- buLines, answer <- buAnswer, subtotal <- buSubtotal,
  requests <- buRequests, placed <- buPlaced, owned <- buOwned, lost <- buLost

Parsing == INSTANCE Parser WITH
  file <- paFile, override <- paOverride, answer <- paAnswer, proposed <- paProposed,
  uploads <- paUploads

Scoring == INSTANCE Analysis WITH
  Datasets <- Loaded,
  stage <- anStage, lines <- anLines, summary <- anSummary, top <- anTop,
  changes <- anChanges

Lists == INSTANCE BomLists WITH
  Boms <- ListIds,
  index <- liIndex, stored <- liStored, writing <- liWriting, creating <- liCreating,
  reader <- liReader, token <- liToken, todo <- liTodo, shown <- liShown,
  writes <- liWrites, reads <- liReads, steady <- liSteady, again <- liAgain

ASSUME LimiterBounds      == Limiter!Bounds
ASSUME BuyingAssumptions  == Buying!Assumptions
ASSUME ScoringAssumptions == Scoring!Assumptions
ASSUME ListAssumptions    == Lists!Assumptions
ASSUME ParsingAssumptions == Parsing!Assumptions
ASSUME DutyAssumptions    == Scoring!DatasetAssumptions(Datasets, DutyDays)
\* What the tariff service has loaded is one of the datasets duties are looked at in.
ASSUME LoadedAssumption   == Loaded \subseteq Datasets

----------------------------------------------------------------------------

limiterVars == <<rlPc, rlSearch, rlKey, rlAttempt, rlSleep, rlMinute, rlDayKey,
                 rlDayCount, rlPause, rlMaxMinute, rlMaxDay, rlToday, rlLookups,
                 rlSent, rlSpent, rlBackdated, rlHeld, rlTopMinute, rlTopDay,
                 rlCarried>>
buyingVars == <<buPc, buListening, buOrder, buProvider, buCart, buLines, buAnswer,
                buSubtotal, buRequests, buPlaced, buOwned, buLost>>
scoringVars == <<anStage, anLines, anSummary, anTop, anChanges>>
listVars == <<liIndex, liStored, liWriting, liCreating, liReader, liToken, liTodo,
              liShown, liWrites, liReads, liSteady, liAgain>>
parserVars == <<paFile, paOverride, paAnswer, paProposed, paUploads>>

InitAll ==
  /\ machine \in Machines
  /\ Init /\ Limiter!Init /\ Buying!Init /\ Scoring!Init /\ Lists!Init
  /\ Parsing!Init

NextOfOne ==
  /\ UNCHANGED machine
  /\ \/ /\ machine = "store" /\ Next
        /\ UNCHANGED <<limiterVars, buyingVars, scoringVars, listVars, parserVars>>
     \/ /\ machine = "limiter" /\ Limiter!Next
        /\ UNCHANGED <<vars, buyingVars, scoringVars, listVars, parserVars>>
     \/ /\ machine = "purchasing" /\ Buying!Next
        /\ UNCHANGED <<vars, limiterVars, scoringVars, listVars, parserVars>>
     \/ /\ machine = "analysis" /\ Scoring!Next
        /\ UNCHANGED <<vars, limiterVars, buyingVars, listVars, parserVars>>
     \/ /\ machine = "lists" /\ Lists!Next
        /\ UNCHANGED <<vars, limiterVars, buyingVars, scoringVars, parserVars>>
     \/ /\ machine = "parser" /\ Parsing!Next
        /\ UNCHANGED <<vars, limiterVars, buyingVars, scoringVars, listVars>>

everything == <<machine, vars, limiterVars, buyingVars, scoringVars, listVars, parserVars>>

SpecAll == InitAll /\ [][NextOfOne]_everything

\* The fairness of BomStore and of RateLimiter, for behaviours of each.
Of(m, A) == machine = m /\ A

FairSpecAll ==
  /\ SpecAll
  /\ \A t \in Tasks : WF_vars(Of("store", Step(t))) /\ SF_vars(Of("store", Acquire(t)))
  /\ \A t \in Refreshers :
       /\ SF_vars(Of("store", GetAnalyze(t)))
       /\ \A b \in Boms : SF_vars(Of("store", GetMeta(t, "daily", b)))
  /\ WF_limiterVars(Of("limiter", Limiter!Tick))
  /\ \A c \in Lookups : /\ WF_limiterVars(Of("limiter", Limiter!Step(c)))
                         /\ SF_limiterVars(Of("limiter", Limiter!Acquire(c)))

----------------------------------------------------------------------------
(* What the runs check of the instances, each stated where it is defined. *)

CapsHold           == Limiter!CapsHold
LookupsAreAnswered == Limiter!LookupsAreAnswered

ServicesTypeOK     == /\ Limiter!TypeOK /\ Buying!TypeOK /\ Scoring!TypeOK /\ Lists!TypeOK
                      /\ Parsing!TypeOK
NoPartIsLost       == Parsing!NoPartIsLost
NoSilentOrder      == Buying!NoSilentOrder
QuoteIsHonest      == Buying!QuoteIsHonest
StatusIsOfThePart  == Scoring!StatusIsOfThePart
ListedStaysRed     == Scoring!ListedStaysRed
SummaryAgrees      == Scoring!SummaryAgrees
WalkShowsAll       == Lists!WalkShowsAll

\* Tariff's DutyIsSoundOn, of every dataset, code, origin and day there is,
\* looked at once, when an analysis begins.
DutyIsSound == machine = "analysis" /\ anStage = "none" =>
  \A d \in Datasets, code \in Codes, origin \in Origins, today \in DutyDays :
    Scoring!DutyIsSoundOn(d, code, origin, today)

=============================================================================
