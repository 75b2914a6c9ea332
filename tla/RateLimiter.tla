----------------------------- MODULE RateLimiter -----------------------------
(***************************************************************************)
(* The limiter in front of Digi-Key: a semaphore, a sliding window of a    *)
(* minute, a counter of the day, and a pause after an answer 429.  Lookups *)
(* of one process share it; each is one call for the part's details and,   *)
(* if there are none, another one for a search.                            *)
(*                                                                         *)
(* Time is kept as ages and as what is left of a sleep, so that it never   *)
(* ends: Tick is one unit of it, the 10 ms that are added to a sleep too.  *)
(* The calendar is another clock.                                          *)
(***************************************************************************)
EXTENDS Naturals, Sequences, FiniteSets

CONSTANTS
  Lookups,     (* Callers of the provider.                                   *)
  Permits,     (* DIGIKEY_MAX_CONCURRENCY.                                   *)
  PerMinute,   (* DIGIKEY_MAX_PER_MINUTE.                                    *)
  PerDay,      (* DIGIKEY_MAX_PER_DAY.                                       *)
  Raise,       (* Bound: by how much Digi-Key's headers raise the caps.      *)
  Minute,      (* The units of time in a minute.                             *)
  LongestPause,(* Bound: the longest Retry-After, in units.                  *)
  LastAttempt, (* The attempt whose 429 is an error: 3 in the code.          *)
  MaxLookups,  (* Bound: lookups in all.                                     *)
  LastDay      (* Bound: days of the calendar, from 0.                       *)

Bounds ==
  /\ Permits \in Nat \ {0} /\ PerMinute \in Nat \ {0} /\ PerDay \in Nat \ {0}
  /\ Raise \in Nat /\ Minute \in Nat \ {0} /\ LongestPause \in Nat \ {0}
  /\ LastAttempt \in Nat /\ MaxLookups \in Nat /\ LastDay \in Nat
  /\ IsFiniteSet(Lookups)

VARIABLES
  pc,          (* pc[c]: the next step of lookup c.                          *)
  search,      (* search[c]: it is at its second call, the search.           *)
  key,         (* key[c]: the day it has read off the calendar.              *)
  held,        (* held[c]: a cap it has read, or is about to store.          *)
  attempt,     (* attempt[c]: the attempt under way.                         *)
  sleep,       (* sleep[c]: what is left of its sleep.                       *)
  minute,      (* The window: ages of the slots, the oldest first.           *)
  dayKey,      (* The day that is counted ...                                *)
  dayCount,    (* ... and its count.                                         *)
  pause,       (* What is left of the pause.                                 *)
  maxMinute, maxDay,  (* The caps as they are now.                           *)
  today,       (* The calendar.                                              *)
  lookups,     (* Lookups so far.                                            *)
  sent,        (* History: ages of the slots of the last minute.             *)
  topMinute, topDay,  (* History: the highest caps so far.                   *)
  spent,       (* History: slots of today that a count of today let through. *)
  carried,     (* History: slots of today that were counted a day before.    *)
  backdated    (* History: how often today's count was dropped for that of   *)
               (* a day before.                                              *)

window == <<minute, sent>>
slots  == <<spent, carried>>
days   == <<dayKey, dayCount, slots, backdated>>
minuteCap == <<maxMinute, topMinute>>
dayCap == <<maxDay, topDay>>
caps   == <<minuteCap, dayCap>>
locals == <<search, key, held, attempt>>
vars   == <<pc, search, key, held, attempt, sleep, minute, dayKey, dayCount, pause,
            maxMinute, maxDay, today, lookups, sent, topMinute, topDay, spent,
            carried, backdated>>

Ages == 0..Minute + 1

TypeOK ==
  /\ pc \in [Lookups -> {"idle", "permit", "paused", "nap", "key", "day",
                         "loop", "loopNap", "limit", "minute", "wait", "call",
                         "putBurst", "daily", "putDaily", "answer"}]
  /\ search \in [Lookups -> BOOLEAN] /\ key \in [Lookups -> 0..LastDay]
  /\ held \in [Lookups -> Nat]
  /\ attempt \in [Lookups -> 0..LastAttempt] /\ sleep \in [Lookups -> Nat]
  /\ minute \in Seq(Ages) /\ sent \in Seq(Ages)
  /\ dayKey \in 0..LastDay /\ dayCount \in Nat /\ pause \in 0..LongestPause
  /\ {maxMinute, topMinute} \subseteq PerMinute..PerMinute + Raise
  /\ {maxDay, topDay} \subseteq PerDay..PerDay + Raise
  /\ today \in 0..LastDay /\ lookups \in 0..MaxLookups
  /\ spent \in Nat /\ carried \in Nat /\ backdated \in Nat

Init ==
  /\ pc = [c \in Lookups |-> "idle"] /\ search = [c \in Lookups |-> FALSE]
  /\ key = [c \in Lookups |-> 0] /\ held = [c \in Lookups |-> 0]
  /\ attempt = [c \in Lookups |-> 0] /\ sleep = [c \in Lookups |-> 0]
  /\ minute = <<>> /\ dayKey = 0 /\ dayCount = 0 /\ pause = 0
  /\ maxMinute = PerMinute /\ topMinute = PerMinute
  /\ maxDay = PerDay /\ topDay = PerDay
  /\ today = 0 /\ lookups = 0
  /\ sent = <<>> /\ spent = 0 /\ carried = 0 /\ backdated = 0

Goto(c, from, to) == pc[c] = from /\ pc' = [pc EXCEPT ![c] = to]

----------------------------------------------------------------------------
(* with_permit *)

\* lookup calls fetch_product.
Lookup(c) ==
  /\ Goto(c, "idle", "permit")
  /\ lookups < MaxLookups /\ lookups' = lookups + 1
  /\ UNCHANGED <<locals, sleep, window, days, pause, caps, today>>

Running == {c \in Lookups : pc[c] \notin {"idle", "permit"}}

Acquire(c) ==
  /\ Goto(c, "permit", "paused")
  /\ Cardinality(Running) < Permits
  /\ UNCHANGED <<locals, sleep, window, days, pause, caps, today, lookups>>

\* wait_if_paused sleeps for what is left of the pause as it is now, once.
WaitIfPaused(c, from, nap, to) ==
  /\ \/ /\ pc[c] = from /\ pause = 0
        /\ Goto(c, from, to) /\ UNCHANGED sleep
     \/ /\ pc[c] = from /\ pause > 0
        /\ Goto(c, from, nap) /\ sleep' = [sleep EXCEPT ![c] = pause]
     \/ /\ pc[c] = nap /\ sleep[c] = 0
        /\ Goto(c, nap, to) /\ UNCHANGED sleep
  /\ UNCHANGED <<locals, window, days, pause, caps, today, lookups>>

----------------------------------------------------------------------------
(* take_slot *)

\* The calendar and the cap are read before the lock of the counter is waited
\* for.
ReadDay(c) ==
  /\ Goto(c, "key", "day")
  /\ key' = [key EXCEPT ![c] = today] /\ held' = [held EXCEPT ![c] = maxDay]
  /\ UNCHANGED <<search, attempt, sleep, window, days, pause, caps, today, lookups>>

Counted(c) == IF dayKey = key[c] THEN dayCount ELSE 0

\* Mutation: the count is looked at, and not taken.
Share_Free(c) == Counted(c)

\* The day's share is taken before the minute's slot.
Share(c) == Counted(c) + 1

CountDay(c) ==
  /\ pc[c] = "day" /\ held' = [held EXCEPT ![c] = 0]
  /\ dayKey' = key[c]
  /\ backdated' = IF key[c] < today /\ dayKey = today THEN backdated + 1 ELSE backdated
  /\ \/ /\ Counted(c) < held[c] /\ dayCount' = Share(c)
        /\ Goto(c, "day", "loop") /\ UNCHANGED <<search, key>>
     \/ /\ Counted(c) >= held[c] /\ dayCount' = Counted(c)
        /\ Goto(c, "day", "idle")               \* ProviderError::RateLimited
        /\ search' = [search EXCEPT ![c] = FALSE] /\ key' = [key EXCEPT ![c] = 0]
  /\ UNCHANGED <<attempt, sleep, window, pause, caps, today, lookups, slots>>

\* So is the cap of a minute read before its lock is waited for.
ReadLimit(c) ==
  /\ Goto(c, "limit", "minute")
  /\ held' = [held EXCEPT ![c] = maxMinute]
  /\ UNCHANGED <<search, key, attempt, sleep, window, days, pause, caps, today, lookups>>

\* The slots from the first on that is no older than age: the older ones are
\* popped from the front.
From(s, age) ==
  LET fit == {k \in DOMAIN s : s[k] <= age}
  IN SubSeq(s, CHOOSE k \in fit \cup {Len(s) + 1} : \A j \in fit : k <= j, Len(s))

\* What stays in the window.
Recent == From(minute, Minute)

TakeSlot(c) ==
  /\ pc[c] = "minute" /\ held' = [held EXCEPT ![c] = 0]
  /\ \/ /\ Len(Recent) < held[c]
        /\ minute' = Append(Recent, 0) /\ sent' = Append(sent, 0)
        /\ spent' = IF key[c] = today THEN spent + 1 ELSE spent
        /\ carried' = IF key[c] = today THEN carried ELSE carried + 1
        /\ Goto(c, "minute", "call") /\ key' = [key EXCEPT ![c] = 0]
        /\ UNCHANGED sleep
     \/ /\ Len(Recent) >= held[c]
        /\ minute' = Recent
        /\ sleep' = [sleep EXCEPT ![c] = Minute - Head(Recent) + 1]
        /\ Goto(c, "minute", "wait")
        /\ UNCHANGED <<sent, slots, key>>
  /\ UNCHANGED <<search, attempt, dayKey, dayCount, backdated, pause, caps, today, lookups>>

WakeUp(c) ==
  /\ Goto(c, "wait", "loop") /\ sleep[c] = 0
  /\ UNCHANGED <<locals, sleep, window, days, pause, caps, today, lookups>>

----------------------------------------------------------------------------
(* fetch_product and keyword_search, in the permit *)

Greater(m, n) == IF m > n THEN m ELSE n

\* observe_limits: a header above a cap raises it.  The cap is read in one step
\* and stored in another, so an answer may store less than one that came
\* between.  A header that raises nothing is as good as none.
ReadBurst(c) ==
  /\ Goto(c, "call", "putBurst")
  /\ \E m \in maxMinute + 1..PerMinute + Raise : held' = [held EXCEPT ![c] = m]
  /\ UNCHANGED <<search, key, attempt, sleep, window, days, pause, caps, today, lookups>>

StoreBurst(c) ==
  /\ Goto(c, "putBurst", "daily") /\ held' = [held EXCEPT ![c] = 0]
  /\ maxMinute' = held[c] /\ topMinute' = Greater(topMinute, held[c])
  /\ UNCHANGED <<search, key, attempt, sleep, window, days, pause, dayCap, today, lookups>>

ReadDaily(c) ==
  /\ Goto(c, "call", "putDaily") \/ Goto(c, "daily", "putDaily")
  /\ \E d \in maxDay + 1..PerDay + Raise : held' = [held EXCEPT ![c] = d]
  /\ UNCHANGED <<search, key, attempt, sleep, window, days, pause, caps, today, lookups>>

StoreDaily(c) ==
  /\ Goto(c, "putDaily", "answer") /\ held' = [held EXCEPT ![c] = 0]
  /\ maxDay' = held[c] /\ topDay' = Greater(topDay, held[c])
  /\ UNCHANGED <<search, key, attempt, sleep, window, days, pause, minuteCap, today, lookups>>

\* The headers are seen to; when there is no answer, or no token, there are none.
GotoFromCall(c, to) == \E from \in {"call", "daily", "answer"} : Goto(c, from, to)

\* A part, an error, or an empty search.
Answered(c) ==
  /\ GotoFromCall(c, "idle")
  /\ search' = [search EXCEPT ![c] = FALSE] /\ attempt' = [attempt EXCEPT ![c] = 0]
  /\ UNCHANGED <<key, held, sleep, window, days, pause, caps, today, lookups>>

\* 404: the lookup goes on with keyword_search and a permit of its own.
NotFound(c) ==
  /\ ~search[c] /\ GotoFromCall(c, "permit")
  /\ search' = [search EXCEPT ![c] = TRUE] /\ attempt' = [attempt EXCEPT ![c] = 0]
  /\ UNCHANGED <<key, held, sleep, window, days, pause, caps, today, lookups>>

\* Mutation: the retry goes on for ever.
Final_Never(c) == FALSE

Final(c) == attempt[c] >= LastAttempt

\* 429: everyone pauses, but the retry does not, nor does it take a slot.
TooMany(c) ==
  /\ \E r \in 1..LongestPause : pause' = Greater(pause, r)
  /\ \/ /\ Final(c) /\ GotoFromCall(c, "idle")
        /\ search' = [search EXCEPT ![c] = FALSE] /\ attempt' = [attempt EXCEPT ![c] = 0]
     \/ /\ ~Final(c) /\ GotoFromCall(c, "call") /\ UNCHANGED search
        /\ attempt' = [attempt EXCEPT ![c] = IF @ < LastAttempt THEN @ + 1 ELSE @]
  /\ UNCHANGED <<key, held, sleep, window, days, caps, today, lookups>>

----------------------------------------------------------------------------
(* The clocks *)

Older(age) == IF age > Minute THEN age ELSE age + 1
Less(n)    == IF n = 0 THEN 0 ELSE n - 1

Tick ==
  /\ minute' = [k \in DOMAIN minute |-> Older(minute[k])]
  /\ LET still == From(sent, Minute - 1)
     IN sent' = [k \in DOMAIN still |-> still[k] + 1]
  /\ sleep' = [c \in Lookups |-> Less(sleep[c])]
  /\ pause' = Less(pause)
  /\ UNCHANGED <<pc, locals, days, caps, today, lookups>>

Midnight ==
  /\ today < LastDay /\ today' = today + 1
  /\ spent' = 0 /\ carried' = 0 /\ backdated' = 0
  /\ UNCHANGED <<pc, locals, sleep, window, dayKey, dayCount, pause, caps, lookups>>

----------------------------------------------------------------------------

Observe(c) == ReadBurst(c) \/ StoreBurst(c) \/ ReadDaily(c) \/ StoreDaily(c)

Answer(c) == Answered(c) \/ NotFound(c) \/ TooMany(c)

Step(c) ==
  \/ Acquire(c) \/ ReadDay(c) \/ CountDay(c) \/ ReadLimit(c) \/ TakeSlot(c) \/ WakeUp(c)
  \/ Observe(c) \/ Answer(c)
  \/ WaitIfPaused(c, "paused", "nap", "key")
  \/ WaitIfPaused(c, "loop", "loopNap", "limit")

Next == (\E c \in Lookups : Lookup(c) \/ Step(c)) \/ Tick \/ Midnight

Spec == Init /\ [][Next]_vars

\* Time goes on, sleepers wake up, Digi-Key answers every call, and the
\* semaphore gives its permits in turn.
Fairness ==
  /\ WF_vars(Tick)
  /\ \A c \in Lookups : WF_vars(Step(c)) /\ SF_vars(Acquire(c))

FairSpec == Spec /\ Fairness

----------------------------------------------------------------------------
(* Properties *)

\* The slots of a calendar day: those that a count of this day let through are
\* within the highest cap there was, once more for every time that a lookup
\* which had read the calendar before midnight dropped the count; and such
\* lookups, and those that slept over midnight, are no more than the permits.
DayCapHolds ==
  /\ spent <= (1 + backdated) * topDay
  /\ carried <= Permits /\ backdated <= Permits

\* No minute has more slots than its highest cap and no day more than
\* DayCapHolds says, however lookups wait, sleep and read caps that others
\* raise, or lower by a late store.
CapsHold == Len(sent) <= topMinute /\ DayCapHolds

\* Every lookup is answered, with an error at worst: none sleeps for ever and
\* no retry keeps its permit, once lookups no longer come.
LookupsAreAnswered == \A c \in Lookups : []<>(pc[c] = "idle")

=============================================================================
