# TLA+ models of prokuroBackend

This directory holds TLA+ specifications of the prokuro backend, TLC
configurations that check them on small instances, and proofs checked by TLAPS
for every value of the constants.  It describes the Rust workspace under
`src/crates/`; where this text and the code disagree, the code counts.

Contents: 1 inventory, 2 modules, 3 the BOM store, 4 the parts cache, 5 the team,
6 billing, 7 line briefs, 8 the limiter, 9 purchasing, 10 tariff and analysis,
11 the readers of the list, 12 the parser, 13 one specification for several parts, 14 runs,
15 proofs, 16 what is not modelled.

## 1. Inventory

The backend is a set of small HTTP services.  The gateway (`prokuroGateway`) is
the only one clients talk to; it calls parser, enrichment, tariff and purchasing
over HTTP, keeps BOMs in S3 (or in a directory) and accounts, teams and billing
in DynamoDB (or in memory).

| Component | State | Operations | Hard behaviour |
|---|---|---|---|
| BOM store (`boms/store.rs`, `boms/handlers.rs`) | per BOM `metadata.json`, `analyze.json`, `line-briefs.json`; per account `index.json`; one in-process `mutation_lock` | upload, list, get, put, patch/add/delete line, delete, flagged page | several object writes per mutation, no transaction; a mutex that only orders one process; optimistic versions; reads without the lock |
| Daily refresh and read-through (`boms/daily_refresh.rs`, `boms/analysis.rs`) | none of its own | rescore a BOM from the parts cache, write it back with compare-and-swap | stale reads, lost races, a process that dies half-way |
| Line briefs (`boms/analysis.rs`, `boms/briefs.rs`) | table of running and pending jobs, `line-briefs.json` | kick, ask the model, write, finish | jobs coalesced per BOM, writes without the lock, briefs attached by row |
| Analyze pipeline and scores (`analyze.rs`, `boms/types.rs`, `boms/flagged.rs`) | none | parse, enrich, tariff, score, count, band | facts matched to lines by index, services that fail, facts that outlive an edit, rounding |
| Parts cache (`prokuroEnrichment`) | table of snapshots (match / no match, age), table of unresolved parts (first seen, attempts, cooling) | enrich request (cache only, live, forced), drain, daily sync | three writers without transactions; negative cache; provider fallback; poison drop |
| Digi-Key rate limiter (`digikey/rate_limit.rs`, `digikey/provider.rs`) | permits, day counter, sliding minute, pause | acquire, pause after 429, retry | concurrent waiters, midnight, caps raised by answers, retries inside a permit |
| Team (`team/store.rs`) | users, members, invites, each as two rows | sign in, list, invite, accept, revoke, remove, change role | check-then-write over several rows |
| Billing (`billing.rs`, `entitlements.rs`) | billing records, claimed Stripe events, plan overrides, e-mail grants | webhook, checkout, status, access check, grants, admin plan | duplicated, reordered and lost events; read-modify-write of whole rows |
| Purchasing (`prokuroPurchasing`) | none | quote, order | unsorted price breaks, time-outs of an order that was placed |
| Pagination (`prokuroTypes/src/pagination.rs`) | none | page after an id | the list changes between pages |
| Tariff (`prokuroTariff`) | snapshots in memory | classify, rate, total, screen | optional rates combine, prefixes of codes in both directions |
| Parser (`prokuroParser`) | none | read a sheet, find the header, map columns, keep rows | columns cut and chosen by position, a client that corrects the mapping |
| Clients and mail (`clients/*`, `team/mail.rs`) | none | HTTP calls | failures only |

How they interact: an upload runs parser, enrichment (cache only) and tariff and
scores the lines; the browser posts the result to the BOM store.  A GET and the daily
refresh read a BOM, ask enrichment for what the cache now knows, rescore, and
write the BOM back if nobody edited it meanwhile.  Enrichment answers from its
snapshot table and enqueues what it does not have; a drain and a daily sync fill
the table through the rate limiter.  Uploads, edits and GETs kick brief jobs.  Team and
billing decide who may do what; they share no state with the BOM store beyond the account id.

What makes each component correct, and what its code does not promise:

* **BOM store**: a committed edit is never lost; of the edits against one version
  at most one commits; list, detail and scores agree; a BOM leaves the list only when it
  is deleted; deleting one BOM leaves the others alone; every request that waits
  for the lock is answered.
* **Daily refresh**: changes scores only, never edits or versions; what a failure
  left inconsistent it repairs.
* **Line briefs**: at most one job per BOM and process, no waiting job is
  forgotten, flagged lines that no longer change get their brief.  (A brief is shown by
  row, so it may be about the line as it was until the job has run.)
* **Analysis**: what a line says was answered for its part and maker; a listed maker
  stays red; counters, band, score and ranking agree with the lines.  (Where a client
  sends lines, POST and PUT believe what they say; only the scores are computed.)
* **Parts cache**: a part a request called pending is in the queue; the queue
  drains; a part is given up only after all its attempts.
* **Rate limiter**: at most the configured slots per minute and day; every lookup
  is answered.  (Retries after a 429 take no slot and do not wait for the pause; a lookup
  that sleeps over midnight, or reads the calendar before it, may add to the new day.)
* **Team**: nobody is in an account in a role nobody gave them; both rows of a
  membership agree unless requests about that user overlapped or failed; a listed
  invite can be used; an accepted one is used up.
* **Billing**: an event is applied at most once and not lost; access follows the
  records; a revocation lasts unless it overlaps with a request of the same email; a record
  names its own customer.  (The order of events is not kept: a late update can revive a
  cancelled subscription.)
* **Purchasing**: no order without a word of it; a quote holds what it says.
* **Tariff**: a total is what is certain plus at most what may be added.
* **List and flagged pages**: a walk shows what was there all the time, once.
* **Parser**: no part number is lost or moved to another line.

`PROJECT.json` lists the hazards, each at its line, with the properties that
cover it or the reason why none does.

## 2. Modules

| Module | Models | Checked by | Proved in |
|---|---|---|---|
| `BomStore` | BOM store, edits, GET and daily refresh, at the grain of one store access | `MCBomStore`, `Backend` | `BomStoreProofs` |
| `BomLedger` | the abstract specification that `BomStore` implements | `bom_safety` | `BomStoreProofs` |
| `PartsCache` | requests, drain and daily sync over the two tables, fallback of providers | `MCPartsCache` | `PartsCacheProofs` |
| `Team` | sign-in and all team endpoints, row by row | `MCTeam` | `TeamProofs` |
| `Billing` | status, check, checkout, webhook, grants, overrides, call by call | `MCBilling` | `BillingProofs` |
| `LineBriefs` | requests that kick, the table of jobs, the jobs | `MCLineBriefs` | `LineBriefsProofs` |
| `RateLimiter` | permits, pause, day, minute, the two calls of a lookup | `Backend` | `ProvidersProofs` |
| `Purchasing` | quotes and orders from the gateway to the distributor | `Backend` | `ProvidersProofs` |
| `Tariff` | classification, duty, screening, as operators | `Backend` | `ServicesProofs` |
| `Analysis` | an upload through the services to a stored BOM, and its later edits | `Backend` | `ServicesProofs` |
| `BomLists` | the list, page by page, and the flagged page, against writers | `Backend` | `ServicesProofs` |
| `Parser` | files to lines, and the client who corrects the columns | `Backend` | `BackendProofs` |
| `Backend` | the store, or one of the five above that share nothing with it, in one specification | `MCBackend` | `BackendProofs`: the types |

`Analysis` extends `Tariff` and calls it as the gateway calls the service.
`BomLedger` is instantiated in `BomStore` under a refinement mapping.  `Backend`
instantiates five modules next to `BomStore` (section 13), and the `MC` modules give the constants
their values.  The proofs about its parts are a chain: `BackendProofs` extends `ServicesProofs`, which extends
`ProvidersProofs`, and the lemmas on sequences, orders and finite sets are stated once in it.  Modules meet at
abstractions of each other: a refresh of `BomStore` sees some score, which `Analysis`
computes; the requests of `LineBriefs`, `Analysis` and `BomLists` are single steps, and
what is inside them is in `BomStore`.

No module that has theorems uses a recursive operator; sums over lines are
functions defined by recursion or folds.

## 3. The BOM store: `BomStore`, `BomLedger`

### State

| Variable | Code |
|---|---|
| `metadata[b]` | `{account}/{bom}/metadata.json`: version, identity, score (`BomSummary`) |
| `analyze[b]` | `{account}/{bom}/analyze.json`: the lines and their score |
| `index` | `{account}/index.json`: the summaries of the list page |
| `lock[i]` | `BomStore::mutation_lock` of gateway process `i` |
| `pc[t]`, `job[t]` | the await at which request `t` stands, and its locals |
| `faults`, `nextId` | bounds |
| `used`, `commits` | history: uploaded ids; edits whose `metadata.json` was written |

The lines are the set of edits they contain, and the upload counts as the first.
This tells apart what the store promises: whether an edit is there.  All scores
and counters of a summary are one value of `Risks`, because the store derives
them from the lines in one place (`bom_summary_fields`).  `born` is the edit that
created the BOM; it stands for name, file name and upload time, which an edit keeps.

### Actions

Every action is one access to the store, the lock or the client: between two of them
any other task runs.

| Action | Code |
|---|---|
| `Create`, `Edit`, `Delete` | the request arrives (handlers), then waits for the lock |
| `GetMeta`, `GetAnalyze`, `GetLeaves`, `SendPut` | `get_bom` in its two reads, the refresh from the parts cache, the PUT a client makes of what it read |
| `Acquire` | `mutation_lock.lock().await` |
| `LoadMeta`, `LoadAnalyze` | `load_mutable`, `ensure_version`, the edit |
| `PutAnalyze`, `PutMeta` | the writes of `create_bom` and `persist_bom`, in their order |
| `CasRead`, `CasClaim`, `CasAnalyze` | `update_analyze_and_summary_cas` |
| `ReadIndex`, `ReadIndexMisses`, `WriteIndex` | the read and the write of `index.json` at the end of a mutation; `ReadIndexMisses` is a failed S3 read, which the code takes for an empty index |
| `WriteIndexDelete`, `DeletePrefix` | `delete_bom` |
| `Abort` | an access fails, or axum drops the handler of a client that left; the guard is released |
| `Crash` | a process dies with all its requests and comes back |

What the model leaves out or merges, and why that is sound:

* The source file an upload writes first is never read by the modelled
  operations.  `line-briefs.json` is written outside the lock and read only for
  display (`LineBriefs`).
* `delete_prefix` lists keys and deletes them in batches of up to 1000; a BOM
  has four, so one batch is one request and one step.
* A local `fs::write` is taken as atomic, and readers of half-written files are
  not modelled.
* The daily refresh lists the BOMs and then reads each; the guard of `GetMeta`
  merges the two.  A deletion between them ends in the 404 case, which changes
  nothing.
* `update_analyze_and_summary` (without compare-and-swap) has no caller outside tests.
* A failed read in the middle of `load_mutable` or of the compare-and-swap ends
  the request like an absent object does (`Return`), or like any failure (`Abort`).

### The abstract specification

`BomLedger` is what a client may rely on: a BOM is one value with a version;
upload gives version 1, an edit the next version with exactly one more edit, and
deletion removes it.  The refinement mapping `ledgerOf` takes the version from
`metadata.json` and the edits from `analyze.json`, restricted to the committed ones.
So an edit takes effect when its `metadata.json` is written, a refresh is a stutter,
and a half-finished mutation is invisible.

## 4. The parts cache: `PartsCache`

### State

| Variable | Code |
|---|---|
| `snapshot[p]` | the `CURRENT` row of part `p` in prokuro-parts: a match, a NoMatch (`miss`), a NoMatch older than `NOMATCH_RETRY_AFTER` (`stale`), or none |
| `queue[p]` | the rows of `p` in prokuro-unresolved, keyed by `first_seen`, with their attempts and whether their backoff runs (`cooling`) |
| `pc[w]` | the next table access or lookup of a request, of the daily sync, or of the drain's lookup of part `w` |
| `job[t]` | the part and mode of a request, the part of the sync |
| `claim[p]` | the `UnresolvedItem` the drain holds of `p` |
| `todo` | the keys the running sync has listed and not looked up |
| `carried[p]` | the distributors that carry `p` (environment) |
| `faults` | bound |
| `promised`, `failures` | history: parts answered Pending from the cache alone and not answered since; failed drain lookups since the part was queued |

### Actions

| Action | Code |
|---|---|
| `Ask`, `Get`, `Expire` | `enrich_lines`: the request arrives, `get_many`, `delete_snapshot` of an old NoMatch |
| `Check`, `Enqueue` | `has_unresolved` and the put of `enqueue_unresolved_many`; they end in the answer Pending |
| `Lookup`, `Store` | `process_one`, for a live request, the sync and the drain: `FallbackProvider::lookup`, `put_snapshot` |
| `Claim`, `GetMany`, `Unqueue`, `MarkAttempted` | `drain::run_once`: `claim_unresolved` with the deletion of poison rows, `get_many`, `delete_unresolved`, `mark_attempted` |
| `SyncStart`, `SyncNext` | `sync::run_once` |
| `Age`, `Cool`, `Stock` | time and distributors |
| `Fail`, `BatchFails`, `Crash` | a DynamoDB call fails, with the error path of its caller; the process dies |

What the model leaves out or merges:

* A request for many parts is one request per part.  The parts share only an
  error of DynamoDB, which answers the whole request with status 500.
* `buffer_unordered` limits how many drain lookups run at a time; the model lets all
  of a batch run, which has every order the limit allows.
* `claim_unresolved` (scan, then deletion of poison rows) and `delete_unresolved`
  (query, then batch deletion) are one step each.  A row that appears between
  the two accesses counts as put before (same key) or after.
* DynamoDB reads count as strongly consistent, and every write of a batch as
  processed.  Malformed rows and part keys do not occur.  A failed deletion of a poison row
  is repeated by the next claim, which drops the row again.
* `Age` does not strike between a drain's put of a snapshot and its next access:
  that takes milliseconds, the age is five minutes.
* One enrichment process: one drain and one sync.  A provider of the chain is
  configured (`from_env` leaves the others out), so no lookup ends in `NotConfigured`.

### Properties

`PendingIsQueued` is the promise of `cache_only`: the part of a Pending answer is
on the queue.  `GivenUpAfterMaxAttempts` counts the failed lookups apart from
the rows, so it fails when a row is lost, marked twice or dropped early.
`QueueDrains` and `EventuallyFound` are what a client that polls relies on.

## 5. The team: `Team`

A membership is two rows of prokuro-members: `memberRow[a][u]` lists the user in an
account, `userRow[u]` is what the user's requests resolve to.  An invite is two
rows as well (`inviteRow`, `tokenRow`).  No operation is a transaction, so every access is
an action, and two requests meet between any two of them.

| Action | Code |
|---|---|
| `Arrive` | a request of any endpoint, with any target, role, invite and name |
| `Resolve`, `SignInMember`, `SignInUser` | `AppState::authenticate` and `resolve_membership`: the row, or a new account; a new name is written to both rows |
| `ReadTeamToInvite`, `PutInvite`, `PutToken` | `create_invite` |
| `GetToken`, `GetInvite`, `FindToken`, `DelInvite`, `DelToken` | `get_invite` and `delete_invite`, for revocation and acceptance, and for an expired invite |
| `GetUser`, `ReadTeamToLeave`, `DelMember`, `DelUser`, `PutMember`, `PutUser` | `accept_invite`, `remove_member`, `patch_member_role` with `delete_member` and `put_member` |
| `Expire`, `TimeToLive` | seven days pass; DynamoDB deletes rows in its own time |
| `Fail` | a write fails, the request is dropped, or the process dies |

`grants` remembers what managers gave whom; `disturbed` are the users about whom two requests
overlapped or one failed; `cut` the invites whose creation failed half-way; `accepted`
the confirmed acceptances.  `RowsAgree` excuses only the disturbed users: what happens to
other members of a team must not disturb a row.  `EveryMemberWasLetIn`,
`ListedInviteIsUsable` and `AcceptedInviteIsGone` excuse no overlap at all.

An account is named after its owner and an email after its user: both are one to one in
the code (`sub` and the verified email).  Times of rows, mails and seats are left out:
`create_invite` looks at no number of seats (the README of the repository says that
pending invites count toward them).  A query of an account's rows is one step.  A query of many
pages, an email that two users have, and the memory mode of development are not modelled.

## 6. Billing: `Billing`

`record[a]` is what the webhook last heard, `override[a]` what an operator decided,
`grant[u]` what an email is entitled to; `claimed` are the events with a row.  Stripe
(`customerOf`, `sessions`, `event`, `acked`) sends an event until it gets a 200, to several
handlers at once if it likes.

| Action | Code |
|---|---|
| `GetRecord`, `GetOverride`, `GetGrant`, `PutOverride` | `status_for`: three reads, each looking at the clock, and the copy of a grant to the account |
| `Decide`, `Allow`, `Refuse` | `get_usage`, after which `status_from_record` looks at the clock again; the answer of `ensure_provisioned` |
| `GetInterest`, `MarkInterest` | `notify_interest_if_needed` |
| `FindAccount`, `PutGrant`, `DelGrant`, `ClearOverride` | granting, revoking, the admin API |
| `GetRecordToPay`, `CreateCustomer`, `PutCustomer`, `OpenSession` | `create_checkout` |
| `Send`, `Deliver` | Stripe |
| `Claim`, `ReadRecord`, `PutRecord`, `Release` | `handle_webhook` |
| `Expire` | the expiry dates of grants and overrides come |
| `FailRequest`, `FailDelivery`, `DropDelivery` | a call fails, with or without its effect; a handler is cut off |

`seen[t]` is what gave access to the user of request `t` at some time since it came, and all the
time.  A source is named with its expiry, so that a row that was replaced by one with
another date is another source.  `hit` are the events that a fault, or a 200 given to a second delivery, kept
from being applied; `unsure` those whose write reported a failure; `overlapped` the
emails whose revocation met a status request or grant of the same email, until another
revocation begins that meets none.  `mix` picks, at
the start, which endpoints meet in a behaviour: the webhook and the grants touch different rows,
so mixes of the two show nothing more.

`SteadySourceGivesAccess` has an exception that the code has: an override that is active when it is read and has
run out after `get_usage` refuses its user although a grant of the email stands, because `status_for` looks for
the grant only behind an override that is not active (`billing.rs:220`).  The next request finds the grant.
`RevokedStaysOff` excuses the emails in `overlapped`: a status request that holds a copy of the grant may write
it to the account after the revocation has cleared it.

Rows that are there at the start are any the code can have written.  All paid plans give the same
access.  The record's subscription id, period and email are only displayed.

## 7. Line briefs: `LineBriefs`

One BOM, its lines as fingerprints, and its briefs as the fingerprint of the line each was
written about.  `running` and `pending` are `LineBriefJobs`; `pc`, `held`, `read`, `changed` the
requests; `wpc`, `work`, `old`, `next`, `todo` the spawned jobs.

| Action | Code |
|---|---|
| `Upload`, `PutBom`, `EditLine`, `DeleteBom`, `Reload` | the handlers that kick, and `kick_stored_bom`, which reads the lines again |
| `Get`, `Enrich`, `Persist`, `ReadBriefs` | `get_bom`: lines, what the cache knows, compare-and-swap, briefs, and a kick if something changed or is outdated |
| `Kick` | `try_begin_line_brief_job`: start a job, or replace what waits |
| `Read`, `Answers`, `Balks`, `Put`, `Finish` | a job: reconcile, one question per line, write when something changed, take what waits |
| `DailyRefresh` | rescores and kicks nothing |
| `Fail`, `Crash` | briefs cannot be read or written; the process restarts and the table is gone |

`BriefsCatchUp` is about flagged lines and needs the page to be opened: neither the daily
refresh nor a restart starts a job.  Lines are handed in by requests that may hold older ones than
those that wait, and the job writes the whole file, so it is not obvious that the last word is the right one.

## 8. The limiter: `RateLimiter`

Time is kept as ages (`minute`, `sent`) and as what is left of a sleep (`sleep`, `pause`);
`Tick` is one unit.  `today` is the calendar, another clock.  A lookup takes a permit, waits for the
pause, reads the calendar, takes its share of the day, and takes a slot of the window or sleeps until
the oldest leaves it; then it calls, and the answer may raise the caps, pause everybody
(`TooMany`), or send the lookup through a permit again for the search (`NotFound`).

| Action | Code |
|---|---|
| `Lookup`, `Acquire`, `WaitIfPaused` | `with_permit`, `wait_if_paused` |
| `ReadDay`, `CountDay` | `take_slot`, the day: calendar and cap are read before the counter is locked |
| `ReadLimit`, `TakeSlot`, `WakeUp` | `take_slot`, the minute: the cap is read before the window is locked |
| `ReadBurst`, `StoreBurst`, `ReadDaily`, `StoreDaily` | `observe_limits`: each cap is loaded, compared and stored |
| `Answered`, `NotFound`, `TooMany` | `fetch_product`, `keyword_search` |
| `Tick`, `Midnight` | the two clocks |

`held[c]` is a cap that lookup `c` has read and goes by, or is about to store.  Two answers may load the same
cap and store one after the other, the smaller value last; so a cap may fall again, and the properties speak of
the highest so far (`topMinute`, `topDay`).

`From(s, age)` is what is left of a window `s` without the slots of that age and older; the code cuts its deque
the same way. `sent`, `spent` and `carried` are histories: they count slots by age and by the day on which they
are taken, whatever the code's own window and counter say.  Two kinds of slot are beyond the cap of a calendar
day, and the code means neither: one of a lookup that was counted yesterday and slept over midnight (`carried`),
and those that a day gets once more when a lookup which had read the calendar before midnight counts after one
of the new day has (`backdated`): the code then begins the old day again, and today's count is lost.
`DayCapHolds` bounds both: a slot of the first kind, and a loss of the second, needs a lookup that has held its
permit since before midnight. A retry after a 429 keeps its permit, does not wait for the pause and takes no
slot; `CapsHold` is about slots.  No lookup is dropped while it waits, because drain and sync run theirs to the
end.

## 9. Purchasing: `Purchasing`

One request at a time: requests share nothing but tokens.  `listening` is the gateway's patience, `pc`
the service's progress; the two end in any order (`Timeout`, `Broken`, `Drop`, `Tell`).  `LookUp` is a line's
quote with price breaks and stock, `Quote` the status and the sum, `PlaceOrder`, `FillCart`, `Accept`,
`NotAccepted`, `Submitted`, `Lost` an order at Digi-Key or Mouser.  `placed`, `owned` and `lost` count
orders that were accepted, answers that told of one or warned against a retry, and answers a broken
connection lost.  A 502 does not say whether there is an order; the code does not think of it
and `NoSilentOrder` counts it as lost.

## 10. Tariff and analysis: `Tariff`, `Analysis`

`Tariff` holds the service's operators over a dataset: `Classify`, the look-ups `FindBase`, `FindSpecial`,
`FindAddon`, `Excluded`, `Listed`, and `Duty` with `ComputeTotal`.  A code is the sequence of its characters as
it is written, because the code looks at it in both ways: most look-ups go by prefixes of the digits (`Digits`,
`Related`), but `find_addons` sorts by the length of the text, dots included, and the last fallback of
`find_hts_base` compares texts (`Begins`).  A name or a description is the sequence of its words.  `RateOf`,
`LongestOf`, `AddonsOf` and `Struck` name what of a dataset applies to a code.  `DutyIsSoundOn` states what a
total means without the code's case distinction, and is checked for every dataset, code, origin and day of the
instance.  The addon that decides is the one whose code is *written* longest.  In a dataset of one notation that
is the most specific one; where `8542.31` stands next to `854231` or `8542310`, it need not be.

`Analysis` is the way of an upload: `Parse`, `EnrichUpload`, `TariffOverlay`, `CreateBom`, each of which may
find its service failed, and then `PatchLine`, `AddLine`, `DeleteLine`, `ReplaceLines` and `Refresh` on the
stored BOM. Every step scores all lines again (`Finalize`: `finalize_analyze` and `bom_summary_fields`).
`answered` is the part and maker a line's statuses were answered for, `blind` that nobody was asked: such a line
counts as green. `Found` and `Answer` say what an answer of the enrichment service does to the line at its
index.  Facts are three combinations of stock, life cycle and origin; a score in tenths is rounded as the code
rounds it.

`CreateBom` and `ReplaceLines` take lines from the client (`Received`): any of those it was shown, in any order,
repeated or left out, and lines of its own (`Sent`) with any part and statuses, with or without the match of the
Entity List; a line as it was shown before a refresh counts as one of these.  `put_bom` compares them with
nothing and scores what they say.  The history `sent` marks a client's own lines, because that is what the code
promises nothing about: `StatusIsOfThePart` believes their statuses until a refresh or a patch of the part
replaces them, and `ListedStaysRed` lets such a line take a match away.  What both still say is that nothing
else does: not a patch, a refresh, a copied or reordered line, nor a line of another row.  `SummaryAgrees`
excuses nothing; rows may repeat, so `top` holds places in `lines` and not rows.

## 11. The readers of the list: `BomLists`

`index` is index.json, `stored` whether a BOM's lines are flagged.  Writers write objects and entry in two steps
(`Create`/`WriteNew`, `Edit`/`WriteEdited`) or entry and objects (`Delete`, `Erase`).  A reader walks the pages
(`OpenList`, `Page`, `InvalidToken`) or takes the flagged list (`OpenFlagged`, `Load`, `AnswerFlagged`).
`steady` are the BOMs that were there, or flagged, ever since; `again` says that a BOM already shown was uploaded
again and so has another place: then a BOM may be missed, and the property does not speak of that walk.

## 12. The parser: `Parser`

A file is a sequence of grids of cells.  `SelectSheet`, `HeaderRow`, `Offset`, `MapColumns`, `Confidence`,
`Skipped`, `Line` and `Parsed` are the functions of the pipeline: `Skipped` says which rows `normalize_row`
drops, `Line` what it makes of the others, and `Below` puts them in the order of the file; `Handled` is the
handler, which refuses (422) what it is unsure of unless the client gave the columns.  The client uploads a file
and then confirms or corrects the mapping it was shown.  The tables of names, what counts as a number, how like
two names are, and how a cell lists several parts are constants; `Assumptions` only asks that grids are made of
rows of texts and that a cell that lists parts lists one at least (`row.rs:93`).

`NoPartIsLost` looks at the grid itself: a row with something in a part-number column is a line with the
leftmost of those (`PartColumns`) as its part, whatever was cut, mapped, skipped or corrected.  The raw headers
of an answer are in lower case while the mapping is keyed by the header as written, so a client that maps the
*raw headers* names no column and gets an answer without lines; the model's client sends back the mapping
instead. The gateway's branch for an unsure answer (`lib.rs:278`) is never reached, because the parser has
refused it with 422 before.

## 13. One specification for several parts: `Backend`

The limiter, purchasing, the analysis with the tariff service, the readers of the list and the parser share no
state with the store at the grain of their modules, nor with each other.  `Backend` puts them next to
`BomStore`: the variable `machine`, chosen at the start, says whose behaviour it is, and all others stay in
their initial state.  The state space is the sum of theirs and not the product, and each property is one of its
module's instance. What fails to hold in one of them fails in the run.  `MCBackend` only adds the values of the
constants: caps, price lists, datasets, uploads, files.  What the parts require of theirs are the `ASSUME`s of
`Backend`; the proofs about the parts rest on these and speak of `SpecAll`, that is of the specification the
runs check.

## 14. Runs

| Run | Instance | Shows |
|---|---|---|
| `bom_safety` | 2 BOMs over S3, 2 clients (each may upload, edit, put, read with refresh, delete), 1 process, 3 uploads and edits, 1 fault | types; no committed edit is lost; one commit per version; list, detail and scores agree when nothing failed and no mutation runs; the store implements `BomLedger` |
| `liveness` | the store with 1 BOM, 1 client, the daily refresh and 1 fault; the limiter with 3 lookups | a BOM leaves the list only by its deletion; every request that waits for the lock is answered, also after a crash of its holder; the daily refresh repairs a BOM that a failure left inconsistent; every lookup is answered |
| `services` | the store with 2 processes over S3, ids re-used and failed reads; limiter, purchasing, analysis, list, parser | a refresh that claims a BOM by its ETag keeps its version and identity; the caps hold over a midnight; no order is silent, quotes are honest; statuses belong to the part, listed makers stay red, summary and lines agree; duties are sound; walks show all; no part is lost |
| `bom_refresh_race` (violated) | 2 processes, no fault | between the claim of `metadata.json` and the write of `analyze.json` the other process commits an edit; the refresh overwrites its lines |
| `bom_read_fails` (violated) | 1 process over S3, one failed read | the next upload writes an index without the other BOM |
| `bom_prefix_delete` (violated) | 1 process over S3, the text of `b2` begins with `b1` | deleting `b1` erases the objects of `b2` |
| `parts_queue` | 1 part, 2 requests of every kind, drain, sync, 3 attempts, 2 seconds at which a row may begin, 2 faults, no NoMatch gets old | types; a part answered Pending stays queued; the drain gives up only after 3 failed lookups |
| `parts_found` | 1 part, a recurring request, drain, sync, 2 distributors, 2 attempts, 2 faults, misses get old | no part is queued for ever; a part that is asked for again and again is found once a distributor carries it |
| `parts_stale_delete` (violated) | 1 part, 2 requests, no fault, misses get old | a request deletes the snapshot that was stored since it read an old NoMatch; its part ends neither cached nor queued |
| `team_safety` | 3 users in any teams, 1 invite, 2 requests of any kind at a time, 1 fault | types; nobody is in a role nobody gave; listed invites are usable, accepted ones gone; undisturbed rows agree |
| `billing` | 2 accounts, users and customers, 1 event in 2 deliveries, 2 requests (3 where only status requests and revocations meet), 1 fault, 1 row at the start | types; access has a source, and a steady source gives it; revocations last; customers are own; events are applied once and not lost |
| `briefs` | 1 row, 3 fingerprints (2 flagged), 1 editor, 1 page opened again and again, 1 edit, 1 change of stock, 1 fault | types; one job takes all; briefs catch up |

Why the bounds are enough.  In the store requests meet pairwise: one is inside a mutation or
holds stale reads while another runs, so two tasks reach every overlap of two
operations; both clients refresh, so refresh against edit, upload and deletion are all
there.  Three uploads and edits give an upload with two edits (two writers of one version) and
two uploads with an edit of one of them (one index, two BOMs).  One fault can
hit every step, and one is enough to leave each half-finished state; what
follows it then runs to the end.  Two scores tell a fresh one from a stale one.
A symmetry set permutes what no action tells apart, and is used
only where no liveness is checked.  The theorems below cover any number of all of these.

For the parts cache one part is enough because parts meet only in a batch of the drain, where
each has its own rows, lookup and mark; the proofs cover any number.  Two requests can each find
the queue empty and add a row of their own, at two different seconds (`Stamps`).  With two faults
a step of the drain and the step that repairs it can both fail.  Two distributors
give every outcome of the fallback, among them the miss of one that hides the
error of the other.

In the team three users are a manager, the user a request is about, and one whose account that user joins or
leaves; the start is any team that two finished requests cannot reach alone.  Two requests meet at every pair of
accesses. In billing two copies of one event are a duplicate at the same time or later, before or after a
failure; each of the two requests can be any of the mix; three let a revocation follow one that was overlapped;
one row at the start, of any kind, is the paying customer, the operator's override or the granted email that the
requests find.  In the briefs two fingerprints that are flagged tell an outdated brief from a current one, and
the third is a line that needs none.

The limiter has fewer slots a minute (1) than lookups, as many permits as lookups (safety) or fewer (liveness),
one slot a day (two in `liveness`) and a midnight.  In `services` caps can rise by two, so that of two stores the smaller may come
last, and a 429 is an error at once; in `liveness` there is a retry.  Purchasing has price lists in order, out
of order, without a price, below the first break, and empty, stock that is too small or unknown, and variations.
The analysis has two uploads of two and three lines, with a repeated part, a line without a part and a listed
maker, and two changes after them, in which a client may send up to two lines, any of them its own: such a line has the
row of the listed maker without the match and the statuses of nobody's answer.  One place in the ranking lets
reds push yellows out.  The tariff datasets have addons of a chapter before and after those of a code in it,
codes with dots and without that tie with or outgrow more specific ones, exclusions that expire today, and codes
that only the last fallback finds.  The list has three ids, two seconds (equal uploads), three writes and one
walk or flagged list, with pages of one and two.  The parser has eleven files: a title above the header, an
empty first column, two columns of parts, weak next to strong names, two sheets, more rows than the limit, and
every refusal; each is sent again twice.

The two-process runs describe a rolling deployment: two gateway tasks share the
bucket while one replaces the other, and `mutation_lock` is local to a process.
The counterexample of `bom_refresh_race` needs no fault, that of
`bom_read_fails` one failed `GetObject`.

No run checks deadlock: every system here stops when its bounds are used up.

### Fairness

`WF(Step(t))`: tokio polls every spawned task and every awaited store call returns
or fails.  `SF(Acquire(t))`: the tokio mutex hands the lock to waiters in
order of arrival, so a waiter cannot be overtaken for ever.  For the tasks in `Refreshers`
also `SF(GetMeta)` and `SF(GetAnalyze)`: the daily loop never ends, visits every
listed BOM, and the enrichment service does not fail it every time.  No
fairness is assumed of clients, faults or crashes.  `DailyRefreshRepairs` says
that a listed BOM is consistent again and again, not for ever, since later
failures may disturb it again; it would not hold without the daily refresh,
because nothing else is obliged to touch the BOM.

In `PartsCache`: `WF(Run(w))`, `WF(Claim)`, `WF(GetMany)`, `WF(SyncNext)`: the loops of drain
and sync never end and every call returns.  `WF(Cool)` and `WF(Age)`: time passes.
`SF(Ask)` for the requests in `Recurring`: the gateway asks for the parts of a BOM at every GET and
every daily refresh.  `SF(Finds)`: a distributor that carries a part does not
fail every lookup of it.  `QueueDrains` does not need the last two: a part whose lookups all fail is
dropped after its attempts.  No fairness is assumed of `SyncStart`, of distributors or of faults.

In `RateLimiter`: `WF(Tick)`: time goes on.  `WF(Step(c))`: sleepers wake up and Digi-Key answers or the HTTP client
gives up.  `SF(Acquire(c))`: the tokio semaphore is first come, first served.  Nothing is assumed of `Lookup`
or of what is answered: with 429 every time a lookup ends after its last attempt.

In `LineBriefs`: `WF(Step(t))` and `WF(JobStep(j))` as for the store; `SF(Get(t))` for the readers: the page is
opened again and again; `SF(Answers(j))`: the language model does not fail or answer nothing every time.

## 15. Proofs

Every theorem holds for every value of its module's constants under the named assumptions of that
module (constants of the right type, `None` outside the sets of values, bounds that are natural numbers),
and so for any number of BOMs, users, events, lookups, requests, processes and faults.
The argument is always the same: a state invariant that says, for each program point, what
the locals of a task are worth there, and the property from it.

### The BOM store: `BomStoreProofs`

Three further hypotheses are stated in the
theorems that need them:

* `OneProcess`: all tasks run in one gateway process, upload ids are used once
  (the gateway generates UUIDs), and no id begins another.  Each part is needed:
  `bom_refresh_race` and `bom_prefix_delete` show what happens without the
  first and the last.
* `Mode = "S3"`: a local file has no ETag to compare.
* `IndexReadsSucceed`: the store is a directory, or nothing fails.  `bom_read_fails` shows one failed read of S3.

| Theorem | Hypothesis | Statement |
|---|---|---|
| `TypeCorrect` | none | `[]TypeOK` |
| `MutationsExcluded` | none | per process at most one task is inside a mutation, and it holds the lock |
| `CommittedEditsAreKept` | `OneProcess` | `[]CommittedEditsKept` |
| `VersionsAreUnique` | `OneProcess` | `[]OneCommitPerVersion` |
| `StoreRefinesLedger` | `OneProcess` | `Spec` implements `BomLedger` |
| `ListAndDetailMatch` | `OneProcess` | `[]ListMatchesDetail` |
| `RefreshesKeepEdits` | `OneProcess` | the action property `RefreshKeepsEdits` |
| `RefreshesKeepVersions` | `Mode = "S3"` | the action property `RefreshKeepsVersion` |
| `DeletionsSpareOthers` | no id begins another | the action property `DeleteSparesOthers` |
| `ListedBomsStay` | `OneProcess`, `IndexReadsSucceed` | the action property `StaysListed` |

The argument.  `TypeOK` is not inductive: whether the summary a task writes is
one depends on where the task stands.  `Shape` adds what the locals are worth at each
program point.  `LockInv` says that the holder of a lock is exactly the
task inside a mutation, which gives exclusion.  The safety invariant `SafetyInv` adds:

* `StoreInv`, `CommitInv`: commits carry versions up to the one in `metadata.json`, and
  the edit numbers in use are below `nextId`;
* `TaskInv`: what a task holds is still true when it uses it.  `WriterInv`: inside a
  mutation the summary read is the one stored, and the lines to be written contain
  what is stored and committed.  `ViewInv`: lines read without the lock contain all
  edits committed up to the version read with them, *as long as that version
  is the stored one*.  This is the heart of the design: it holds because an edit writes
  `analyze.json` before `metadata.json`, and a reader reads them in the other
  order, so its lines are at least as new as its version;
* `UploadAlone`, `CreateInv`: an upload that runs is the only one of its id.

`CommittedEditsKept` and `OneCommitPerVersion` are conjuncts of it.  Each step of a
task is one lemma (`PutAnalyzeSafe`, `CasClaimSafe`, ...); `QuietTask` and
`QuietStore` say once what a step does not disturb in the other tasks.  TLC
checked the invariant on small instances before it was
proved.  The refinement follows from the invariant: `PutMeta` is the ledger's
`Upload` or `Edit`, `DeletePrefix` its `Delete`, and every other step a
stutter.

`ListMatchesDetail` speaks of behaviours without faults.  `ListInv` says how far each mutation has come: which of
the three objects it has written, and that the BOMs it is not about are the same in all of them, so that the last
write of a mutation makes them agree again.  It uses that the others wait for the lock (`LockInv`) and that an upload
is alone on its id.  `RefreshesKeepEdits` follows from `ViewInv`; `ListedBomsStay` needs `FreshInv`: the index that a
task holds between its read and its write of `index.json` is the one stored.

### The parts cache: `PartsCacheProofs`

The theorems of `PartsCacheProofs` hold for every number of parts, requests,
distributors, faults and attempts.

| Theorem | Hypothesis | Statement |
|---|---|---|
| `TypeCorrect` | none | `[]TypeOK` |
| `PendingKept` | `~Expires`: no NoMatch gets old | `[]PendingIsQueued` |
| `GiveUpCounted` | none | the action property `GivenUpAfterMaxAttempts` |

`TypeOK` needs `Shape`: a worker that runs has a part, and the row the
drain holds has an attempt left, so the count it writes back is in range.
`PendingKept` needs that a promised part has no snapshot, and that the drain is about to
take a part off the queue only when a snapshot of it is stored (`KeptPart`).
The deletion of an old NoMatch breaks exactly that, hence the hypothesis and the run
`parts_stale_delete`.  `GiveUpCounted` needs that no row counts more attempts than
lookups failed (`CountedPart`), also for the row the drain holds while requests
add rows, and that two rows of a part differ in `first_seen`, so that a part
is never claimed and dropped at once.

### The team: `TeamProofs`

| Theorem | Hypothesis | Statement |
|---|---|---|
| `TypeCorrect` | none | `[]TypeOK` |
| `MembersWereLetIn` | none | `[]EveryMemberWasLetIn` |
| `ListedInvitesAreUsable` | none | `[]ListedInviteIsUsable` |
| `AcceptedInvitesAreGone` | none | `[]AcceptedInviteIsGone` |
| `MembershipRowsAgree` | none | `[]RowsAgree` |

`JobShape` is what the locals are at each access.  `LetInInv` adds to `EveryMemberWasLetIn` that every invite
(`InviteInv`) and every record that a request holds (`HeldInv`) is one that was granted: a stale record may be
written back, but not one nobody gave. `TokenInv` follows an invite: an id that is not issued has no rows
(`Fresh`); while it is made only its maker writes it (`Made`); one that was cut short stays so (`CutOff`); the
token row goes after the other (`Dropped`, `Usable`), and the confirmed acceptances have seen both go (`Used`).
`RowsInv` gives, for a user who is not disturbed, the value of all rows at every access of the one request about
them (`RowState`), from which the rows agree when there is none.

### Billing: `BillingProofs`

| Theorem | Hypothesis | Statement |
|---|---|---|
| `TypeCorrect` | none | `[]TypeOK` |
| `EventsAppliedOnce` | none | `[]AppliedAtMostOnce` |
| `EventsNotLost` | none | `[]UnappliedIsRetried` |
| `CustomersAreOwn` | none | `[]CustomerIsOwn` |
| `RevocationsHold` | none | `[]RevokedStaysOff` |
| `AccessIsFounded` | none | `[]AccessNeedsASource` |
| `SteadyAccess` | none | `[]SteadySourceGivesAccess` |

`ClaimInv` and `EventInv`: at most one delivery of an event is between its claim and its end, its event is
claimed, and a claimed event is not yet applied only while there is one or it was hit.  `RetryInv`: an event
that is acknowledged was applied or hit. `CustomerInv`: also the records that deliveries and checkouts hold, to
be written whole, name a customer of that account, and so do the events. `RevokeInv`: for an email whose
revocation met no other request of it, the grant is gone before the override is cleared, and from then on no
request holds a copy of the grant that it could still write to the override; `NoteInv` says whose copy a request
holds.  An email leaves `overlapped` when a revocation of it begins alone, and the invariant begins anew.
`AskInv` follows `ensure_provisioned` through its three reads and `get_usage` (`Told`): what was read was a
source of access at the time, and a source that was there all the while was not at any of the reads that found
nothing; the decision compares what it holds with a later clock, and refuses a steady grant only behind an
override that ran out (`Lapsed`).

### Line briefs: `LineBriefsProofs`

`TypeCorrect` and `OneJobAtATime` (`[]OneJobTakesAll`).  The first needs `JobShape`: a job asks only about
flagged lines, so only briefs of these are written.  The second is inductive with the table alone.

### The limiter and purchasing: `ProvidersProofs`

`CallsAreCapped` is `SpecAll => []CapsHold`.  `CapsInv`: a cap that is stored, or that a lookup has read and not
yet used, is at most the highest so far, which only rises.  For the day, `DayInv` counts, next to the slots
given today, the lookups that took a share of today and have no slot yet (`Holding`): together they are at most
the counter while it is today's, and as many more as the highest cap for each time today's count was dropped;
and the counter is at most the highest cap. `LateInv` counts the lookups that read the calendar before midnight
(`Late`, and `LateDay` those that have not counted): with the slots that were carried, and the counts that were
dropped, they are at most the permits, since each of these ends such a lookup's being late and midnight finds at
most as many as hold a permit.  The sets are finite, and every step of a lookup adds or removes at most one
element.  For the minute, `WindowInv`: the ages of the code's window go down, so what `From` keeps of it is a
suffix; the history `sent` is that suffix after every step, whether the code has cut its window or not; and a
slot is only taken when the suffix is shorter than the cap the lookup has read.

`NoOrderIsSilent` is `SpecAll => []NoSilentOrder`.  `OwnedUp` says at which program points an accepted order may
still be without an answer: only between the distributor's word and the service's, and only while the gateway
listens.

`EveryQuoteIsHonest` is `SpecAll => []QuoteIsHonest`: the price of a line is that of the highest break its quantity
reaches, although the code takes the breaks as they come; a sum over the lines is that of the lines that were found,
and every partial sum is at most it.  `QuoteInv` says what the lines looked up so far are worth.

`LimiterIsTyped` and `BuyingIsTyped` are the types of both parts.  In the limiter what is left of the window
after the cut is a suffix of it, and its ages are at most a minute (`WindowInv`), so a lookup that finds it full
sleeps for a natural number of seconds, and a cap only rises as far as an answer of Digi-Key may raise it.  In
purchasing the subtotal of a quote is a natural number, by the recursion it is computed with.

### Tariff, analysis and the readers of the list: `ServicesProofs`

| Theorem | Statement | Rests on |
|---|---|---|
| `StatusesAreOfTheirParts` | `SpecAll => []StatusIsOfThePart` | `AnalysisInv` |
| `ListedLinesStayRed` | `SpecAll => ListedStaysRed` (action property) | `AnalysisInv` |
| `SummariesAgree` | `SpecAll => []SummaryAgrees` | `AnalysisInv`, `SummaryInv` |
| `DutiesAreSound` | `SpecAll => []DutyIsSound` | `DatasetAssumptions` |
| `WalksShowAll` | `SpecAll => []WalkShowsAll` | `ListsInv` |

`AnalysisInv`: what a line says was answered for its part, or the line is blind, pending, without a match or of
a client's own (`Good`); until the BOM is stored no two lines have one row; of the lines that are not of a
client's own, those with one row agree on the match with the Entity List (`Agreeing`); the list was not asked
before the tariff service is; and once they are enriched every line has the score of what it says.  A step keeps
what was found of each row (`Keeps`): a patch and a refresh keep the rows, lines that are taken out or copied
were there before, and a new line has a row of its own.

`SummaryInv` says that whatever scored the lines last summed up these lines; the rest is about lists.  Lines of
different risks are disjoint sets and count apart (`AtSplits`), and the rounded score is bounded by arithmetic
(`ScoreIs`).  Lines of one row are ranked by their places, as a stable sort does, so the ranking is a strict
order (`RankingOrders`).  `TopIs` and `TopsAreWorst` rest on what it is to have a place in an order: a member's
place is one more than the number of those before it, places are different and every place up to the size of the
set is taken (`NthIs`, `NthIsOnto`, by pigeonholes).  The list of BOMs uses the same lemmas.

`DutiesAreSound` is about operators alone: among the rows of a dataset that are related to a code the one
written longest is found whichever order they stand in (a bounded set of lengths has a greatest), and
`ComputeTotal` is taken apart by which rates are there.

`ListsInv` says where a walk stands.  The entries are totally ordered (newest first, then as the index has
them), so every entry has a rank, and in the listed order a page is the next entries after its token
(`RankIsNth`, `NextPage`).  `OnTheWay`: each BOM that was listed all the while was shown if it stands up to the
token and was not if it stands after it.  A new or deleted entry moves the ranks of others but not their order
relative to the token (`Less`, `More`, `Same`), and an edit keeps the time of its entry (`Editing`).  `Looking`
is the same for the flagged list, whose entries are loaded one by one.

Where a definition is recursive (the sum of a quote, the bound of a sequence of numbers), the proofs argue from
the least counterexample: a set of natural numbers that is not empty has a least element, by the
well-foundedness of `<`.

### The parser, and the types of all parts: `BackendProofs`

| Theorem | Statement | Rests on |
|---|---|---|
| `NoPartsAreLost` | `SpecAll => []NoPartIsLost` | `ParserInv`, `ParsingAssumptions` |
| `ServicesAreTyped` | `SpecAll => []ServicesTypeOK` | the invariants of all five parts |

`ParserInv` is short: the answer is what the handler makes of the file and the columns given last, `proposed` is
what it makes of the file alone, and no mapping names an empty header.  The work is in the functions, and goes
from the cell to the file:

* `SheetIs` and `HeaderIs`: the sheet that is read exists, and the header row lies in it and has a cell that is
  not empty, so that `OffsetIs` can say that every cell left of the first name is empty.
* `ShiftIs`, `ValueIs`: the header and the rows below it are cut at the same column, so what the leftmost column
  of a field holds in the cut row is what it holds in the grid.  Only here does it matter that no mapping names
  an empty header: else a column that was cut off could be a part number's.
* `LineIs`: a row with something in a part number's column is not skipped, and its part with its alternates is
  that cell.
* `InOrderIs`, `LinesAre`: the lines are the kept rows in the order of the file, each at its place, by the
  lemmas on places in an order (`NthIs`, `NthIsOnto`) that the ranking of risks rests on too.
* `HandledIs`: an answer is a refusal without a body, or says this of all rows up to the limit, and warns when
  there are more. An answer to columns the client gave is never refused as unsure.

`ServicesAreTyped` puts `LimiterIsTyped`, `BuyingIsTyped`, `AnalysisIsTyped`, `ListsAreTyped` and `ParserTypes`
together.  What is not immediate in it: the cache answers every key of the lines with a fact or a miss
(`FoundIs`); the total of an assessment is a sum of rates that are there, or nothing (`AssessedIs`, from the
lemmas of `DutiesAreSound`); the ranking holds places of lines (`TopIs`), those of lines a client sends included
(`ReceivedIsTyped`, `ReceivedIsScored`); an index has as many entries as it lists BOMs (`OnceCounts`); and the
rows that are neither lines nor skipped are none.  It rests on `LoadedAssumption`, that a dataset the service
has loaded is one of those whose duties are looked at.

### Only model-checked

All liveness properties: `RequestsAnswered`, `DailyRefreshRepairs`, `QueueDrains`, `EventuallyFound`,
`LookupsAreAnswered`, `BriefsCatchUp`.  Reasoning under fairness is beyond the prover.  Every invariant and
every action property that a passing run checks is stated by a theorem.

## 16. Not modelled

* HTTP clients and mail, which keep no state; a failing call is an outcome in its caller's model.
* Text below the words: how bytes become cells (delimiters, encodings, xlsx), how like two column names are, how
  a name is written in ASCII.
* What is only shown: drivers and wording of risks, citations and notes of duties, prompts and briefs,
  subscription ids and periods, names, times, file names, the source file of an upload.
* Checks at the door: identity tokens, the signature of a webhook, the admin secret, sizes of bodies and usage
  counters.
* The memory modes of team and billing, which hold one lock over a whole operation and serve development only.
* In the parts cache: malformed rows and keys, unprocessed batch writes, eventually consistent reads, a second
  enrichment process.
* Reading a tariff dataset from its files and its daily reload: `Tariff` has the dataset as a value, `Analysis`
  takes any of several at each call.
