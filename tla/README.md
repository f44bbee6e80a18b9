# Air Tickets Warden in TLA+

TLA+ models of the Air Tickets Warden: a Go service that keeps flight
"subscriptions" (price watches) in PostgreSQL, serves them over `/api/v1` to a
Telegram Mini App written in React, and runs a small Telegram bot beside it.
At the commit modelled here phases 0 and 1 of `PLAN.md` are implemented: there
is CRUD over subscriptions and settings, no scheduler and no alert engine yet.
The models follow the implementation, never the design documents; where the
two disagree a run shows it (see *Findings*).

Run a model with `tlc -config X.cfg M.tla`, check proofs with
`tlapm SubscriptionsProofs.tla` (and likewise the other `*Proofs` modules and
`SequenceFacts`).  `PROJECT.json` is the machine-readable index:
runs, source lines of every definition, hazards, theorems.

## 1. Inventory

| Component | Source | State | Operations |
|---|---|---|---|
| Domain rules | `internal/domain/*.go` | none | `Validate`, `ValidateFresh`, `ResolveSettings` |
| Request bodies | `internal/api/{subscriptions,optional,date}.go` | none | decoding with absent/null/set keys, `normCode(s)`, `mergePatch` |
| Subscription API | `internal/api/subscriptions.go`, `internal/services/subscriptions/manager.go`, `db/queries/subscriptions.sql` | table `subscriptions`, one goroutine per request | list, get, create, patch, delete |
| Settings API | `internal/api/me.go`, `db/queries/user_settings.sql` | table `user_settings` | GET and PATCH `/me` |
| Settings screen | `web/src/screens/SettingsScreen.tsx`, `web/src/api.ts` | query cache, typed values, requests in flight | fetch, type, save, leave |
| List screen | `web/src/screens/SubscriptionsList.tsx` | query cache with optimistic changes | pause, resume, mute, delete, refetch |
| Form | `web/src/screens/SubscriptionForm.tsx`, `web/src/lib/subscriptionForm.ts` | form values, step, client and server errors | next, back, submit, edit |
| Airport search | `internal/services/airports/airports.go`, `internal/api/airports.go` | immutable after `New` | `Exists`, `Get`, `Search`, `Popular`, GET `/airports` |
| Airport picker | `web/src/components/AirportPicker.tsx` | text, debounced text, focus, timers, cached queries | focus, blur, type, pick, unpick |
| Lifecycle | `cmd/warden/main.go` | the running bot, HTTP and metrics servers, the pool | start, signal, listener failure, ordered shutdown |
| Authentication | `internal/api/auth.go` | none | initData check, whitelist |
| Bot | `internal/bot/bot.go` | none | `/start`, `/help`, whitelist |
| Web server, configuration, telemetry | `internal/{web,config,telemetry}` | none of their own | static files, health, environment |

How they interact:

* The Mini App talks to the API over HTTP only.  A request may be lost, its
  answer may be lost, and answers arrive in any order.  Several devices may
  belong to one user.
* `authMiddleware` puts the chat id of the caller into the context; every
  statement after it is scoped by that id.
* Handlers share nothing but the database.  There is no lock in the process and
  no transaction around a handler: one handler is a sequence of autocommitted
  statements.  PATCH of a subscription is the one that has two, a SELECT and an
  UPDATE; PATCH `/me` is a single upsert.
* The list and the form share one query cache on a device; the list changes it
  before the server has answered.
* `main.run` owns the two listeners, the bot and the pool, and stops them in
  order when a signal comes or a listener fails.

What is hard to test here, and where the properties aim (the full list, line by
line, is `hazards` in `PROJECT.json`):

* a PATCH validates a copy of a row that others may write before it does;
* a DELETE between the two statements of a PATCH;
* answers that are lost after the statement committed, restarts in between;
* rows of other users: a missing ownership condition is invisible to a user
  who only looks at his own rows;
* a subscription that was fresh when it was created and no longer is;
* replies that overtake each other on the client, and what a user has typed
  meanwhile;
* optimistic changes that roll back past each other;
* client and server rules that are written twice, in two languages;
* saves that outlive the form that sent them, watches that change under a form;
* timers nobody clears, and answers for a text that is no longer in the field;
* the order and the shared deadline of shutdown.

What makes each component correct:

* *Subscription backend*: it behaves as a table whose rows are always valid, are
  written whole, by their owner only, and never come back once deleted; answers
  say nothing of other users' rows; a PATCH that is answered 200 has stored what
  it names.
* *Settings*: a save sends what was typed, or puts back what the user saw when he began
  to type; the screen then shows what was saved, to the percent; a late answer never
  takes away what was typed.
* *List*: after the last change settles, screen and server agree.
* *Form*: what the client lets through the server accepts, and what it complains
  about the server would refuse; what was typed is what is stored; a refusal is
  shown on a step the user can reach; one visit files one watch.
* *Airport search*: a full code comes first, typing on only narrows, the browse
  list is the same on every start.
* *Airport picker*: only what may be chosen can be chosen, once; the list shows
  while the field has the focus, tells the truth and catches up with the text.
* *Lifecycle*: requests in flight are answered before the pool closes, as far as
  the deadline allows; shutdown ends.

## 2. Modules

| Module | What it is |
|---|---|
| `AlertSettings` | Bounds, cascade and upsert of the alert parameters a user and a subscription both have |
| `Domain` | A subscription, `Validate`, `ValidateFresh`, POST and PATCH bodies, as operators |
| `SubscriptionStore` | Abstract: the table as the backend promises it, with atomic add, replace and remove |
| `Subscriptions` | Detailed: handlers interleaved at their SQL statements; implements `SubscriptionStore` |
| `SubscriptionsProofs` | TLAPS proofs about `Subscriptions` |
| `SettingsScreen` | The settings screen of one device against GET and PATCH `/me` |
| `SubscriptionsList` | The list screen of one device, with its optimistic changes, against the rows of the server |
| `SubscriptionsListProofs` | TLAPS proofs about `SubscriptionsList` |
| `Lifecycle` | One run of the process: start, signal, failing listener, ordered shutdown |
| `LifecycleProofs` | TLAPS proofs about `Lifecycle` |
| `DomainRules` | What the rules and the bodies of `Domain` promise, over samples that do not move |
| `DomainProofs` | TLAPS proofs about `DomainRules`, and lemmas about bodies and watches for the proofs that build on `Domain` |
| `SettingsScreenProofs` | TLAPS proofs about `SettingsScreen` |
| `AirportSearch` | The airport reference and its ranking, as operators |
| `AirportQueries` | What `AirportSearch` promises, over datasets and queries that do not move |
| `AirportPicker`, `AirportPickerProofs` | The autocomplete of the wizard over `AirportSearch`, and the proofs about it and about `AirportQueries` |
| `FormLogic` | `lib/subscriptionForm.ts`: validation, bodies and error mapping of the wizard, as operators |
| `SubscriptionForm`, `SubscriptionFormProofs` | The wizard over `FormLogic`, against the server's rules of `Domain`, and its proofs |
| `SequenceFacts` | Lemmas for the proofs: parts of sequences, least and greatest numbers, places in an order, loops |
| `MCDomainRules`, `MCAirportQueries`, and `MCRules`, which has both in one run; `MCSubscriptions`, `MCSettingsScreen`, `MCSubscriptionsList`, `MCLifecycle`, `MCSubscriptionForm`, `MCAirportPicker` | Small instances for TLC |

`Domain` extends `AlertSettings`; `SubscriptionStore` and `Subscriptions` extend
`Domain`; `FormLogic` extends `Domain`, and `SubscriptionForm` is composed of the
two: the form writes bodies with the one and the server checks them with the other.
`AirportPicker` is composed with `AirportSearch`, which answers its queries.
`DomainRules` and `AirportQueries` add to the operators of `Domain` and `AirportSearch`
the samples they are checked on, as states that never change, and the properties.
`SettingsScreen` extends `AlertSettings`.  `SubscriptionsList` and `Lifecycle` stand
alone.

### Domain

A subscription is a function on `Fields`, the columns a client can write.  A JSON
body is a function on the keys it contains, so that *absent*, *null* and *set* stay
apart as `Optional[T]` keeps them apart in Go.  `Broken(s, f)` holds when
`Subscription.Validate` reports field `f`; the several errors the code may report
on one field are one.  `FromCreateBody` and `MergePatch` are what POST and PATCH
make of a body, the normalisation of codes included.

Abstractions: strings are members of small sets and the two conversions on them
(`normCode`, `TrimSpace`) are the constant functions `Upper` and `Trim`, any
functions that map the empty string to itself.  Whether a code is well-formed and
known is membership of `Airports` or `Carriers`.  Dates and instants are day
numbers, 0 being Go's zero time.  Ratios are integers, per mille.  Numbers are
unbounded; what does not fit the Go type is a body that does not decode.

### Subscriptions

`subscriptions` is the table, `issued` the ids `gen_random_uuid()` has handed out
(it never repeats one), `today` the server's date, and `handler[r]` the request
that goroutine `r` serves.  `pc` names the SQL statement the handler is about to
run, so each `Run*` action is one statement and the Go code up to the next one or
to the answer:

* `Receive*` decodes the body, screens the id, and for POST validates.  What
  comes before the first statement touches no shared state but the clock.
* `RunList`, `RunGet`, `RunInsert`, `RunDelete` end their handler.
* `RunPatchRead` reads, merges, refuses nulls on required fields and validates;
  `RunPatchWrite` writes every column back from the copy, if the row is still
  there and still owned.
* `lost` is a statement that committed while the handler got an error.
* `StatementFails`, `Restart` and `Midnight` are the environment.

A path carries an id that was handed out, to anyone, or a malformed one.  A uuid
that was never handed out behaves as one that was and is gone; uuids are not
guessed ahead of being issued.  The order of the list and the timestamps
`created_at` and `updated_at` are left out.

### SettingsScreen

One device in full: `data` is the query cache, `fetch` the GET in flight, `edited`
what was typed, `saves` the PATCHes in flight.  Other devices are `ServeOther`: a
PATCH is served that this device does not wait for.  A save of this device that
failed from its point of view and is served after all is the same step.  The
semantics taken from TanStack Query: a mounted query is refetched on mount and on
window focus; one fetch of a key at a time; `setQueryData` does not cancel it, so
an older row can arrive after a newer one; the callbacks given to `useMutation`
run although the component has gone, and then set the state of a screen that is
no longer there (`own`).  Eviction of the cache is not modelled.  `saveError` is
display only and left out.

A percentage is counted in tenths of a percent from the field to the row: 20.5 typed,
0.205 sent and stored are all 205, since dividing by 100 changes the unit and not the
number.  Finer fractions can be typed as well; a tenth shows what any of them does, for
what rounds is `Shown`: the form shows whole percents, `Math.round(x * 100)`, so 20.5 is
shown as 21 once it is saved.  `FallsShort` has the halves that are shown rounded
*down*, because the float falls under the half (0.285 * 100 is 28.499999999999996).
Two spellings of one number are one value.

`seen` is history: what the form showed when the user began to type, in the fields he
has not typed into since.

### SubscriptionsList

One device again: `data` is the cached list, `fetch` the GET in flight, `taps` the
mutations in flight, each with the snapshot (`previous`) its rollback will put
back.  `rows` is the server.  A watch is reduced to one field of two values that
stands for `status` and `muted_until` alike, and to `gone`; the order of the list
and the display state (`actionError`, the armed delete lever) are left out.

* `Tap` is `onMutate`: the fetch in flight is cancelled, the cache is copied and
  then changed.  `cancelQueries` is awaited; what it waits for is local, so the
  three are one step.
* `TapFails` is `onError` and `onSettled`, `TapSucceeds` is `onSettled` alone.
  `Invalidate` starts a fetch when the list is open, dropping one in flight, and
  does nothing now when it is closed.
* `Refetch` is opening the list or coming back to the window, which joins a fetch
  already in flight.  The query has `retry: false`, so a fetch fails at once.
* `ServeTap` is a PATCH or DELETE in one step, because what overlapping PATCHes do
  to each other is the matter of `Subscriptions`.
* `WriteElsewhere` is what another device writes, or a request of this one that is
  served after the browser gave it up.  A watch created elsewhere is one more id,
  which the instance need not follow.

A list cannot show what nobody told it, so the history variable `untold` is true
from a write the screen cannot know of, or an answer that came while it was
closed, until it sees one of its own changes answered; `QuietListIsCurrent` claims
nothing then.  A refetch alone does not end that time: the one a reopened
list joins may be older than the write.

### Lifecycle

`stage` is where `run` stands: starting in its order (database, bot, servers), the
`select` (`serving`), the three waits of the shutdown, the deferred calls
(`closing`), the end.  `Run` is the disjunction of its steps; beside it go the
goroutines it does not wait for: the bot, the two listeners, and the handlers
(`work`), which query the pool.  `Shutdown` of a server closes its listener first
and then waits for its requests or for the one deadline `shutdownCtx`; `store.Close`
waits for the connections in use, with no deadline of its own.  Returning from
`run` at any point runs the deferred calls, `botCancel` before `store.Close`.  The
bot is external code that stops, or does not, once its context is cancelled.
SIGKILL, Docker's ten seconds before it, and the flush of Sentry are left out.

### FormLogic and SubscriptionForm

`FormLogic` has the wizard's pages and inputs, `validate` (the set of inputs it
complains about), `toCreatePayload`, `toPatchPayload`, `fromSubscription`, and the
map from server fields to inputs.  An empty input is `Null`; prices are in minor
units on both sides, so that what the conversion to whole euros loses is visible.
The wording of errors is left out.

`row` is the one watch that is edited or duplicated, `form` the form on the screen
with the page, the errors and the notice, `visit` counts the mountings of the
component, `saves[n]` is the save of visit `n`.  A save belongs to its visit and
outlives it: after Cancel its answer can still come, and then calls `onDone`, which
shows the list whichever form is open by now; that is `SaveSucceeds` with another
visit's form.  `SaveFails` may come at any time, before or after the server has
served the request.

* `FillIn` is any input of the page, with the picker's filters and capacity and the
  toggles that empty a list; `ToggleRoundTrip` proposes a week.
* `NextPage` / `NextRefused` validate the page, `Confirm*` the whole form.  `day`
  is the device's date, which need not be the server's.
* `ServeSave`, `ServeRefusal`, `ServeNothing` are a POST or PATCH in one step; the
  interleaving of handlers is in `Subscriptions`.
* `WriteElsewhere` and `DeleteElsewhere` are other devices.

Left out: the toggles that only unfold a picker, the cached list (see
`SubscriptionsList`), and a create's row, of which only its being filed matters.
`filed` is history: the visits a create of which was served and was not reported
as failed.

### AirportSearch and AirportPicker

A text is a sequence of code points, compared as Go compares strings.  Folding and
upper case are constant functions on characters; folding gives a sequence for each,
which is empty for a combining mark, so that a text that is not blank may fold to
nothing, and finds nothing.  The last step of `fold`, NFC, could join two folded
letters to one (Hangul, vowel signs of some Indic scripts); no text with such letters
is in the model or in the dataset.  `SearchLimit` and `BrowseLimit` are the 8 and the 20
of the code.  `PopularLists` is the set of all
lists `New` may build, since it walks a map and sorts with an unstable sort.  `Tier`
and `Better` are the ranking; `Ranked` is the stable sort, given by each hit's place.

The picker keeps the text (`query`), what the query runs on (`debounced`), the
browser's focus (`inside`) and what the component believes of it (`focused`): a blur
only starts a timer (`blurs` counts those that run, since none is cleared), which
hides the list when it fires.  Timers have no clock and fire at any time.
`fetches[t]` is the query cache for text `t`; answers arrive in any order, or fail.
The five minutes of `staleTime` and the browser's retries are left out.

## 3. Runs

| Run | Configuration | Shows |
|---|---|---|
| `subscriptions` | `MCSubscriptions.cfg` | the safety of the backend and its refinement of the store |
| `lost_update` | `MCSubscriptionsLostUpdate.cfg` | **violated**: concurrent PATCHes undo each other |
| `domain` | `MCRules.cfg` | list rules against the passes of `Validate`; PATCHes compose; POST and PATCH decode alike; the settings cascade honours overrides; exact codes come first, longer queries narrow, the browse list is determined |
| `settings` | `MCSettingsScreen.cfg` | the settings screen under late and lost answers |
| `settings_clobber` | `MCSettingsScreenClobber.cfg` | **violated**: a save sends fields nobody typed into |
| `settings_bounds` | `MCSettingsScreenBounds.cfg` | **violated**: PATCH `/me` stores values out of bounds |
| `list` | `MCSubscriptionsList.cfg` | overlapping optimistic changes leave the server's rows on the screen, and settle |
| `list_rollback` | `MCSubscriptionsListRollback.cfg` | **violated**: a rollback removes a watch that another has restored |
| `lifecycle` | `MCLifecycle.cfg` | ordered shutdown cuts off nothing, and a signal or a dead listener ends the process |
| `lifecycle_listener` | `MCLifecycleListenerFails.cfg` | **violated**: a failing listener closes the pool under requests |
| `form` | `MCSubscriptionForm.cfg` | the wizard in three modes: its validation against the server's both ways, what is stored against what was typed, where refusals are shown and how forms close |
| `picker` | `MCAirportPicker.cfg` | what the picker offers and says while its timers and answers race |

Bounds, and why they are enough to see the interesting cases:

* `subscriptions`: two requests, since every race here is between the two
  statements of one PATCH and one other handler; two users and two ids, so that
  a request can be about a row of the other user while its own exists; two days,
  so that the first watch goes stale.  The two POST bodies and three PATCH bodies
  are chosen so that each patch is fine on a watch and not on top of the other,
  and so that defaults, nulls, spelling and the ceiling rule all matter.  The
  proofs remove these bounds.
* `lost_update`: one user, one id and two PATCHes that touch different keys.
* `domain`: every list of up to three codes over a blank, a misspelled, a known
  and an unknown one, under caps of two and three, so lists at and over a cap, with
  duplicates near and apart, occur; bodies over one required, one list and one
  nullable key and the key with a default, in all their states; settings and overrides
  that are absent, null, zero and set.
* `domain`, the search: datasets of up to four of five airports made to collide (one
  city twice, one code twice, a code that begins a city, accents, words after a hyphen or a
  slash), in every order, under 36 queries, some of them of combining marks only or
  begun by one; answers of at most three hits and browse lists of one, so that both are
  cut.
* `settings`: `MaxSaves` is 1 and bounds the saves in flight, two fields of three
  (one whole, one a ratio); 20, 20.5 and 28.5 percent are typed, a whole number, a half
  that is shown rounded up and one that is shown rounded down; another device writes
  25.5.  With one save in flight a visit that leaves and comes
  back while it is on its way is still covered.
* `list`: two watches, one paused and resumed, one deleted, and `MaxTaps` = 2
  bounds the mutations in flight: the snapshot of one is then taken between the tap
  and the failure of another, on the same watch or a different one.
* `list_rollback`: two deletes.
* `form`: two visits, so that a save can outlive its form and end in the next one;
  two watches (a one-way watch whose ceiling has cents, a round trip that is over and
  whose ceiling rounds to nothing); a device a day ahead or behind; `Errands` lets a
  visit touch three or four inputs, together all of them, chosen so that every rule on
  two inputs can fail; others make the one-way watch a round trip, or delete it.  Caps
  are two, so lists reach them.
* `picker`: three airports, one excluded, two may be chosen, two blur timers; texts
  that match, match nothing, are blank, fold to nothing, and begin one another; answers
  of at most two hits, so that an answer may be cut and all it holds be chosen or
  excluded.
* `lifecycle`, `lifecycle_listener`: two requests to the application and one to
  metrics, so that each server drains while the other is busy and requests of one
  server are at different points.

Deadlock is checked in `domain`, `settings*`, `list*` and `picker`.  It is off where
the system may really stop: a process that has exited (`lifecycle*`), a service nobody
calls (`subscriptions`, `lost_update`), a wizard that is not opened again (`form`).

Fairness is assumed where the code or the platform gives it. `SubscriptionsList` has
weak fairness on `TapEnds` and `FetchEnds`: a `fetch()` the browser has started ends
with a response or an error. `AirportPicker` has it on the end of each fetch and on its
two timers, which browsers fire. `SettingsScreen` and `SubscriptionForm` assume none and
claim nothing that must happen: that a save ends would be the assumption itself, and
nothing in the code bounds one that is paused or hangs. Nothing is assumed of the user
or the server: `CatchesUp` speaks of behaviours in which the user rests and failed
fetches are not started again for ever, `SettlesDown` speaks of behaviours in which the
user stops tapping. `Lifecycle` has it on `Run` (a runnable goroutine runs), on
`Deadline` (time passes) and on the end of each statement (if only because its
connection breaks), but not on handlers or the bot, which may hang: that is what the
deadline is for. `Subscriptions` has safety properties only.

## 4. Findings

* **Lost updates.**  `handlePatchSubscription` reads the row, merges, and
  `UpdateSubscription` writes every column.  "absent key = leave untouched"
  (`internal/api/subscriptions.go:204`) does not hold when two PATCHes overlap:
  pausing a watch on one device can undo muting it on another.
* **Fields nobody touched are sent.**  Typing into one settings field copies all
  three; when the row underneath changes before the save, the copies differ from it
  and go on the wire, against "only changed keys go on the wire"
  (`SettingsScreen.tsx:21`).
* **Settings are not validated.**  `handlePatchMe` stores a `drop_pct` of 0 or a
  negative cooldown that no subscription could carry; the design promises
  "ranges/enums validated before persisting" (`air-tickets-warden.md:969`).
* **Rollbacks restore a whole list.**  Two deletes are pending; the first fails and
  brings its watch back; the second fails too and puts back a snapshot in which that
  watch was already gone, against "restores it on failure"
  (`SubscriptionsList.tsx:46`).  The refetch that follows repairs it.
* **A failing listener skips the ordered shutdown.**  `run` returns the error at once,
  so the deferred `store.Close` runs while requests of both servers are in flight,
  against the "design shutdown order: bot → HTTP → in-flight → pool"
  (`main.go:88`).

Exceptions the properties state.  The form mirrors the server's rules, but for five
demands of its own (`OwnDemand`): both dates, both return dates of a round trip, whole
euros, a ceiling that does not round to nothing, and freshness of edits as well, so a
watch whose last day is over cannot be edited in the form, only on the list.  It lets
one thing through that the server refuses although nobody else interferes
(`NothingInvalidGetsThrough`): an origin that was changed to one of the alternatives.
A refusal is then mapped to the picker of alternatives, which is given no `error` to
show; a price that is no whole euro stays refused, and invisible, under the other
strategy; and so do the return dates of a watch that others made a round trip, or of a
form whose round trip was switched off while its save was pending (`RefusalIsShown`).
A field that gets the focus back within 150 ms of losing it loses its list
(`FocusShowsList`, `hasty`).  The list says "No airport matches" before the results are
in; when the text in the field does not continue the one looked up last, or that one
folds to nothing; and wrongly, when more airports match than the answer holds and those
it holds are all chosen or excluded (`NoMatchesIsTrue`).  That takes as many codes
chosen or excluded as an answer has hits, eight in the code.  A percentage that is not
whole is shown, once saved, half a percent off at most (`SavedShowsAsTyped`).

Not contradicted by a document, and so not stated as properties: edits typed while
a save is pending are dropped when it succeeds; an airport may be both an
alternative origin and a destination; a POST sent again after a lost answer creates
a second watch; a list that is reopened may join a fetch that was served before
what it should show; a quick Pause and Resume may be served in the other order; a
form that was cancelled while saving closes whatever form is open when the answer
comes, what was typed into it included (`ClosesForAReason` holds all the same: a save
was stored); a press on a suggestion that lasts longer than the blur timer is lost.

## 5. Proofs

The theorems hold for any users, ids, requests, bodies, caps, datasets, watches and
bounds that satisfy the named assumptions of their modules:

| Theorem | Property |
|---|---|
| *`SubscriptionsProofs`* | |
| `TypeCorrect` | `TypeOK` |
| `RowsStayValid` | `StoredRowsValid` |
| `ForeignRowsHidden` | `ForeignLooksMissing` |
| `GoneStaysGone` | `GoneIsFinal` |
| `LifecyclePatchesAccepted` | `LifecyclePatchNeverInvalid` |
| `OwnersWrite` | `OnlyOwnerWrites` |
| `PatchesLand` | `NamedKeysLand` |
| `ImplementsTheStore` | `ImplementsStore` |
| `LostUpdatesNeedOverlap` | `AbsentKeysUntouched`, when no two PATCHes of a row overlap |
| `RefusalsAreTheBodys` | (a PATCH is refused for its own keys only) |
| *`SubscriptionsListProofs`* | |
| `QuietListsAreCurrent` | `QuietListIsCurrent` |
| `TypeCorrect` | `TypeOK` |
| `OneAtATimeKeepsWatches` | `VanishesForAReason`, when one change is pending at a time |
| *`SubscriptionFormProofs`* | |
| `FormTypes` | `TypeOK` |
| `EveryRefusalHasAnInput` | `RefusalsMapped` |
| `ValidationIsComplete` | `NothingInvalidGetsThrough` |
| `ComplaintsAreTheServers` | `ComplaintsAreServerRules` |
| `TypedIsStored` | `EditsRoundTrip` |
| `OneVisitOneWatch` | `FiledOnce` |
| `OnlyForAReason` | `ClosesForAReason` |
| `RefusalsAreShown` | `RefusalIsShown` |
| *`SettingsScreenProofs`* | |
| `SettingsTypes` | `TypeOK` |
| `SavedAsTyped` | `SavedShowsAsTyped` |
| `SavesTypedOrSeen` | `SentWasTypedOrSeen` |
| `EditsStay` | `EditsKept` |
| `ValuesComeFromInputs` | (where every value in a row, form or message comes from) |
| `BoundsAreTheInputs` | `StoredInBounds`, when the inputs are in bounds |
| `AloneSendsWhatWasTyped` | `UntouchedKeysUnsent`, when others leave those fields alone |
| *`AirportPickerProofs`* | |
| `PickerTypes` | `TypeOK` |
| `FocusedListsShow` | `FocusShowsList` |
| `NoMatchesTold` | `NoMatchesIsTrue` |
| `ExactCodesFirst` | `ExactCodeFirst` |
| `LongerQueriesNarrow` | `LongerQueryNarrows` |
| `PopularDetermined` | `PopularIsDetermined` |
| *`DomainProofs`* | |
| `ListRulesAreLoops` | `ListRulesMatchLoops` |
| `RepeatedPatches` | `PatchesCompose` |
| `PostsDecodeAsPatches` | `PostDecodesAsPatch` |
| `OverridesTakeEffect` | `OverrideTakesEffect` |
| `MergesCompose` | (any two bodies: the general form of `PatchesCompose`) |
| `PatchBreaksOnlyItsOwn` | (what a patch of a valid watch can be refused for) |
| *`LifecycleProofs`* | |
| `CleanExitsCutNothing` | `CleanExitCutsNothing` |
| `TypeCorrect` | `TypeOK` |
| `CutsHaveACause` | `CutOnlyForACause`: what is left of `PoolClosesLast` |

Every safety property that a passing run checks is stated by one of these theorems.

The properties the code breaks have theorems too, that say how much of each is true and
so that the finding is the whole of it:

* *Lost updates.*  `LostUpdatesNeedOverlap`: the contract of PATCH holds in every
  behaviour in which no two PATCHes of one row are between their SELECT and their UPDATE
  (`NoOverlap`), whatever is listed, deleted, restarted or lost meanwhile.  A copy that
  agrees with the row (`Current`) stops doing so in another handler's UPDATE only
  (`WhatMakesStale`).
* *Fields nobody touched, and bounds.*  `ValuesComeFromInputs` follows values: take any
  sets, one per field, that hold null, what is typed, what other devices send, and what
  the form shows of each of their values (`Closed`); then no row, reply, edit or body leaves
  them.  Two choices of the sets give the two theorems.  With {null} for the fields this
  user does not type into, a save names none of them, unless another device stores
  something there.  With the legal values, what is stored is legal, if what is typed and
  what others send is, *as the form rounds it too*: a stored 0.4 % is shown as 0 and
  99.5 % as 100, which are out of bounds, and a copy of them may be sent.
* *Rollbacks.*  `OneAtATimeKeepsWatches`: when one change is pending at a time, a watch
  leaves the screen only for a reason.  `GoneIsTrue` is its invariant: what a settled
  cache, a reply or a snapshot misses, the server misses, and nothing that came later
  shows it.
* *The listener.*  `CutsHaveACause`: a request in flight when the pool closes was cut off
  by the deadline of the shutdown or by a listener that died.

The settings need the inputs in bounds because the handler checks nothing; a PATCH of a
watch is checked, and there the theorem is about refusals: `PatchBreaksOnlyItsOwn` says
which fields each complaint looks at (`LooksAt`) and that a valid watch with a patch
merged in only draws complaints that look at a key of the patch, and
`RefusalsAreTheBodys` that this is so of every PATCH the service refuses, whatever other
handlers do to the row before it is read.

The assumptions of `Domain` and `Subscriptions` say that sentinels (null, the malformed
id, the undecodable body) are not values, that bodies have the shape the decoders
accept, that the caps are positive, and that blank codes normalise to the blank code.
`DomainRules` assumes that its samples have these shapes; `SubscriptionsProofs` and
`SubscriptionFormProofs` reach its constants through `DomainProofs` and use none of
them. `AirportSearch` assumes that the conversions of characters leave the separators
alone, `IsRow` is what the preparation script keeps, and `AirportQueries` assumes it of
every dataset; the letters of codes (`Capitals`) are their own upper case and nothing
that becomes one of them folds to nothing, and the two limits are positive.
`AirportPicker` assumes that no code is twice in the dataset, as is true of the file the
service is built with, and that finitely many are excluded. Those of
`SubscriptionsList`, `Lifecycle` and `SettingsScreen` only give their constants their
types. `SubscriptionForm` assumes besides that what the form sends is spelled as the
server spells it (`SpellingAssumption`: the picker hands out codes in upper case), that
0, Go's zero date, is never entered, that the pickers allow no more than the server
(`BoundsAssumption`), and that `Null` is neither a form nor a save.

The argument for `Subscriptions`. The properties are not inductive by themselves:
`StoredRowsValid` needs to know that the copy a PATCH is about to write is valid,
`GoneIsFinal` that an id a handler names was handed out, since otherwise an INSERT could
still bring it to life. `IndInv` adds `HandlersSound`, what every handler knows at its
statement. `HandlerInv` is the part of `IndInv` about one handler, and `OtherHandlers`
says that it survives every statement of others, because the table only takes steps of
the kind `Keeps` describes: issued ids stay issued and a row goes or keeps its owner. So
the step lemmas look only at the row and the handler that move, one lemma per statement.
The action properties and the refinement then follow from `IndInv` step by step.

The list needs one strengthening, `Current`: when no change is pending and nothing
was written behind the list's back, a reply still on its way is current too, and so
is a cache nobody looks at.  It needs no types, so both theorems stand alone.  The
lifecycle needs `Achieved`: what each wait of the shutdown has achieved (a listener
shut, a server idle) stays so, since a handler only starts on an open listener; the
property then is the last of these facts.

The form's proofs come in two halves.  The first is about operators and has no state:
what is decoded of what is sent (`SentDecodes`), what a POST and a PATCH of the form
make of a watch, column by column (`CreatedIs`, `MergedIs`), that values without
complaints break no rule of the server (`CheckedIsFine`) and the other way round
(`WrongIsBroken`).  The second is the invariant `IndInv`: the row is a valid watch; the
form holds what its inputs can produce (`Good`), where `Possible` says of each input
what may stand in it so that one lemma covers every way of entering something; each
save was sent without complaints (`Checked`), since a form may be edited, refused and
sent again while the server's answer is under way; and, for `FiledOnce`, once a create
was filed and its save is over, the form of that visit is closed.  The theorems then
apply the first half to the saves of the second.

`RefusalIsShown` needs two more facts: `Refusable`, which columns of a body of the form
the server can refuse at all, and return dates only in an edit of a round trip or of a
watch that had none; and `PendingInv`, that the pending save of the open form has its
mode and the watch it was opened with, whatever others have made of that watch since.

The rules of `Domain` are loops in Go.  What a loop leaves is a recursive function on
the turns, and the facts about it are proved on the turns one by one: `Loop` says that
a run of turns exists, and `PassIs` and `FaultsAre` that a pass over a list has seen
exactly the codes before a place and complained exactly of the unknown and repeated
ones.  The induction theorems of the library take an operator, which no back end here
can instantiate; instead each such fact is proved of the least turn that breaks it
(`LeastNatural`, from the well-foundedness of the naturals, which needs no operator).
`NormCodesTurns` is the same for the normalisation of a list.

The search is a stable sort, and its order is not total on rows: `BetterIsOrder` shows
it to be a strict order of classes of rows that are alike, from the order of texts
(`TextLessTotal` and its companions), and with the places in the file it becomes total
on hits (`HitsInOrder`).  `Places` then says of any such order on a finite set that
counting what goes ahead of each element gives every place to exactly one of them, so
that `Ranked` holds every hit once (`RankedIs`), and `OneListing` that one list keeps
the order, whatever sort produced it: the browse list.  Narrowing rests on
`WordPrefixNarrows` and on trimming keeping prefixes (`TrimPrefix`).  `NoMatchesIsTrue`
puts the two together: what was fetched for a prefix and not cut has all that matches
the text (`AnswersSearch`), and an answer that was cut holds as many codes as it has
hits, more than are chosen or excluded (`AnswersWhenCut`); its invariant is that the
text looked up is trimmed.

The settings screen needs `SavesTyped`: at most one save is the open screen's own, and a
served save carries the row that answered it; then what the reply shows follows from
`UpdateUserSettings` and from what rounding does to a whole number and to any other.
`SentWasTypedOrSeen` needs that what was typed and what was seen agree wherever the user
has not typed, and that there is nothing seen once there is nothing typed. The picker
needs `FocusedWell`: a full picker has no field that could have the focus, and a field
that did not get it hastily has no blur timer running.

Only model-checked: that the code breaks the five violated properties, which takes a
counterexample and not a proof, and all liveness (`SettlesDown`, `SignalEndsIt`,
`NeverHalfUp`, `CatchesUp`): the provers do not do liveness or `ENABLED`. Most liveness
is written as a recurrence (`[]<>`) where one would expect "leads to". It says the same,
and `RecurrencesAreLeadsTo` in `LifecycleProofs` proves it of the two properties whose
trigger, a signal or a dead listener, stays once it is there. There is no `RECURSIVE`
operator anywhere, because they could not reason about one; recursive functions take
their place.

## 6. Status

Everything that keeps state or decides something is modelled: the backend and its
rules, the two other endpoints, the three screens, the picker, the process.  What could
still be added, in order of worth:

1. The list and the form over one query cache, when the form's `invalidateQueries`
   meets an optimistic change of the list.
2. An order on the rows of the list (`created_at`), once something depends on it.
3. The scheduler and the alert engine, when the program has them; `ResolveSettings`
   then gets its caller, and a state machine.

## 7. Not modelled

* Authentication: a stateless check in front of every handler; HMAC and expiry are
  the initdata library's.  Requests enter the models with the chat id it found.
* The bot's commands, static files, health checks, configuration, telemetry, the
  airport preparation script: no state that changes, or pure I/O.
* The delete lever (`TensionDelete.tsx`): a pointer gesture, its geometry and its
  animation.  What it commits is `Tap` of `SubscriptionsList`.  `PriceStepper` keeps no
  state; what it enters is an input of the form.
* `Location` of the airport service: a lookup in the standard time zones.
* Generated query code: the models translate `db/queries`.
* `IsMuted` and `RoundTrip` of the domain: only tests call them so far.
