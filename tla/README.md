# Support bridge: TLA+ models, model-checking runs and proofs

The support bridge connects customers, who write in a web widget, with security
analysts (the SOC), who answer in Roam chat threads. This directory holds TLA+
modules for the parts of it that are hard to test: requests that overlap, a
crash between two statements, webhooks that come twice or never, timers, and
repetitions of what was already done. TLC checks small instances. TLAPS proves
the most important facts for every value of the constants.

Paths below are relative to the repository; `services.py` without a directory
is `src/apps/conversations/services.py`.

## 1. The system

### Components, their state and operations

| component | state | operations |
|---|---|---|
| Conversation lifecycle (`apps/conversations/services.py`, `models.py`) | a `Conversation` row: status, `first_response_at`, `resolved_at`, `closed_at`, `last_message_at` | create, send, resolve, close, reopen; the analyst reply and the idle check write the same row |
| Customer requests (`services.py`, `apps/customer_api/views.py`) | `Message` rows with a delivery mark, `EventLog` rows with a unique `idempotency_key`, Roam's thread | create and send with an `Idempotency-Key`, posting to Roam |
| Analyst reply ingestion (`apps/integrations_roam/webhook_service.py`, `views.py`, `tasks.py`) | `Message` and `EventLog` rows | webhook view, `poll_roam_replies` every ten seconds, `handle_chat_message` |
| Idle check (`apps/conversations/tasks.py`) | the row's times, system messages as memory | escalate, nudge, auto-resolve, auto-close, every minute |
| Resolve link (`apps/actions`) | none of its own; a signed token | confirmation page, resolve |
| Roam client (`client.py`, `adapter.py`, `mock_client.py`) | none | `chat.post`, `chat.history`, three attempts on 429 and 5xx |
| Roam notices (`notifications.py`, `blocks.py`, `theme.py`, `formatters.py`) | none | status notices, Block Kit |
| Server-sent events (`common/sse`, `apps/customer_api/stream_views.py`) | a Redis channel per conversation | publish, stream with heartbeats |
| Widget (`widget/src`) | list of conversations with their status, the view and the conversation selected, the open form, messages of the open thread | SSE, polling every five (thread) and fifteen (list) seconds, navigation, sending, creating, closing, reopening, rating |
| Audit log (`apps/audit`), messages (`apps/messaging`) | append-only rows | insert |
| Routing, queues (`apps/routing`, `apps/queues`) | rules, queues, mappings of queues to Roam groups | first match by priority, default queue, group of a queue; edits by the admin site, seeds |
| Authentication (`common/auth/backends.py`) | two globals of a process: the cached JWKS and when it was fetched; the Firebase app | verify a token, refresh the cache, initialise Firebase |
| Branding (`apps/admin_config`, `integrations_roam/theme.py`) | branding rows, per organisation or the deployment's | resolve the theme in four layers; create, patch, delete |
| Analytics (`apps/analytics`) | none | counts, rates, percentiles |
| Operations API (`apps/ops_api`) | none | reads; one endpoint resolves (`views.py:164-197`) through `resolve_conversation`, the operation the resolve link uses |

### How they interact

A creation or a send is one HTTP request: it looks its key up in the EventLog,
writes rows, publishes an event, posts to Roam, and saves how that went. An
analyst's reply comes back by webhook and by the poller, and both call
`handle_chat_message`. The analyst resolves through a signed link. The idle
check resolves and closes by the clock. Nothing locks a row: all these
processes read it, decide on what they read, and later save named columns
(`save(update_fields=...)`). Only `create_conversation` and
`handle_chat_message` use a transaction. Everything the customer sees live goes
through Redis to an SSE stream, with polling as the second path. A creation
reads the rules, the default queue, the group of the queue and, twice, the two
layers of branding rows, each in a query of its own, while an administrator may
edit any of them; posts, notices and polls look the group up again. Every
request is first let in by a token, checked against keys that the threads of a
process share.

### What is hard, and what makes each part correct

- **Lifecycle.** Stale snapshots: between read and save another request may have
  moved the row, and the save takes it along a transition no guard lists (a
  resolve that read before a close saves "resolved" over "closed"; a send that
  read before a close stores its message all the same). Correct: the stamps agree
  with the status, a first response is recorded once and stays, QUEUED does not
  come back, a save whose snapshot still fits is a step its operation may make and
  an overtaken one writes its own columns and no more, the status says whose turn
  it is, and message and event of an operation go together.
- **Requests.** Repetitions that overlap, crashes before the event row, posts
  whose answer is lost. Correct: one conversation per key, equal answers to
  equal requests, nothing acknowledged is lost, the delivery mark tells the truth.
- **Ingestion.** Two paths, duplicates, echoes of our own posts, crashes after
  the raw event. Correct: every reply at most once, and eventually, even with no
  webhook at all; echoes stay out while their sender or their timestamp tells
  them.
- **Idle check.** Overlapping runs, a fixed `now`, searches for an earlier
  message as the only guard. Correct: no run repeats a notice it could have found,
  silence and rest come to an end.
- **Live thread** (SSE and widget). Events lost between two streams, poll answers
  overtaken by sends, answers for a conversation no longer open, a stream that is
  closed only after the next thread is painted. Correct: no message twice, no
  foreign message but by a late answer or such a stream, and whoever stays ends up
  with exactly the thread's messages.
- **Widget list and forms.** Polls that replace the list against answers that
  patch it, a timer nobody cancels, answers that land after the customer moved
  on. Correct: who is thanked has that rating stored, one rating per
  conversation, no form waits for nothing, and the list settles on the status.
- **Authentication.** A rotated key against a cache with a lifetime, two globals
  that threads write one after the other, fetches that fail. Correct: a key that
  never changed is always known, a new one is found, a withdrawn one is refused
  before long, making the Firebase app turns nobody away who comes later, and
  refusals end.
- **Routing.** Rules, queues and mappings edited between two queries of a
  creation. Correct: all that follows a creation goes to the group where the
  thread is, however many groups are mapped to the queue afterwards.
- **Branding.** A theme read in four queries, a PATCH that saves a row deleted
  meanwhile. Correct: header and colour are of a theme that was in force, an
  organisation's own values win, it has one row at most, and a deleted row comes
  back only through a PATCH that had read it.
- **Analytics.** Pure arithmetic over finished rows.

`PROJECT.json` lists the hazards at the lines where they bite.

## 2. Modules

| module | what it models | code |
|---|---|---|
| `ConversationRow` | statuses, guard sets, and what the save of each operation writes, as pure operators | `models.py`, the guard sets and saves of `services.py`, `webhook_service.py`, `tasks.py` |
| `ConversationContract` | abstract: every operation one step on the current status, and what an overtaken one may write | what the guard sets promise, and the columns the saves name |
| `ConversationLifecycle` | the row under overlapping requests, one action per database statement | `services.py:187-450`, `webhook_service.py:174-300`, `tasks.py:143-246`, `apps/actions/views.py` |
| `CustomerRequests` | create and send under repetition, overlap, crash and Roam's failures | `services.py:57-290`, `apps/customer_api/views.py`, `client.py` |
| `ReplyInbox` | abstract: a written reply is accepted at most once | what ingestion promises |
| `WebhookIngestion` | webhook view, poller and handler, statement by statement | `webhook_service.py`, `apps/integrations_roam/views.py`, `tasks.py` |
| `IdleCheck` | the task's branches with their time windows and guards | `apps/conversations/tasks.py` |
| `LiveThread` | the open thread in the widget: publication, stream, polling, sending, navigation | `common/sse/service.py`, `apps/customer_api/stream_views.py`, `widget/src/api/sse.ts`, `components/conversation-detail.tsx`, `state/store.ts` |
| `WidgetConversations` | the list and the status shown, navigation, the creation, close and reopen of a conversation, the rating form and the server's feedback view | `widget/src/state`, `widget/src/components`, `apps/customer_api/views.py` |
| `Authentication` | the two authenticators, the cache of keys under threads, rotation at Cognito | `common/auth/backends.py` |
| `Tables` | a table with running primary keys as a sequence, deleted rows as `Gone` | |
| `Routing` | the routing tables, their edits and their lookups | `apps/routing`, `apps/queues` |
| `Branding` | the branding table, the admin API's edits, the theme's layers | `apps/admin_config`, `integrations_roam/theme.py` |
| `Configuration` | composes `Routing` and `Branding` with creations that read them query by query, and the posts and polls that follow | `services.py:57-180`, `adapter.py`, `blocks.py`, `tasks.py` |
| `*_proofs` | theorems and proofs about the module of the same name | |
| `MC*` | the module with the symmetry sets and constant values TLC needs; `IdleCheck` needs none | |

`ConversationRow` is shared: `ConversationLifecycle` uses its saves, `IdleCheck`
its statuses and guard sets, `WidgetConversations` its guard sets.
`ConversationLifecycle` instantiates
`ConversationContract`, `WebhookIngestion` instantiates `ReplyInbox`. No module
declares a RECURSIVE operator.

**Correspondence.** A worker's request is a program counter (`step`) and the
snapshot it read (`seen`); one action is one committed statement or one
transaction. An early return is an action (or branch) that ends the request, an
exception one that ends it without its answer. A crash may end a request
between any two statements. Time in `ConversationLifecycle` is the number of the
request, so that equal and different stamps can be told apart; in `IdleCheck` it
is a clock that ticks freely, and 0 is a null. Two variables of
`ConversationLifecycle` are history: `stale` says that the latest save was decided
on a status that had changed by then, `heard` when the first reply was stored. In
`WebhookIngestion` a reply is a model value, its sort (echo, with or without a
sender, foreign thread, blank, without an id or a thread key) a set of the
constants, `Extracted` is what the handler finds in a payload, and `IsBotEcho`
recognises a sender as `_is_bot_echo` does: not without an id, and our own only
when `ROAM_BOT_USER_ID` is set. A poll run looks the mapping of the queue up
before it fetches, and fetches one page. In `CustomerRequests` rows are sequences
in the order of creation, and `posts` counts the copies of a message in Roam. In
`LiveThread` a message is its place in the table, `shown` is the signal `messages`
as a bag (the list is sorted when drawn), and a request to the server is asked,
served and landed in three steps. Navigation changes what is shown; the effect of
`ConversationDetail`, which closes the old stream and its timer and begins the
new ones, is a step of its own (`Effect`), and `live` is the conversation whose
effect ran last. When the component goes away its cleanup runs with it
(`Unmount`). The stream is modelled as the code runs,
not as its docstring says: `asyncio.wait_for` cancels the listener's
`__anext__` after 25 quiet seconds, which finishes the generator, so that a
stream sends one heartbeat and ends, and the client connects again after its
delay (`stream_views.py:99-109`; lines 91-92 speak of heartbeats every interval).
In `Authentication` a step reads or writes the globals of the process once:
storing the keys and stamping them are two steps, and the keys are read again
after the stamp, whoever wrote them last. Cognito publishes and withdraws keys at
any moment. In `WidgetConversations` a request of the widget is asked, served and
landed in three steps; a handler of the server is one step there, except that of
a rating, whose check, search and insert are three. In `Configuration` a
creation's query is one step each; `changed` remembers what was edited since it
read the rules, so that a property can say "as long as nobody edited these", and
`asked` the theme at the first of the two queries that resolve it, and what was
edited before the second. Rules are rows, several of which may have one name; a
`match_json` that is no object (`Malformed`) fails the request of every creation
that gets to it. The settings' colours are merged as they are, empty ones
included (`theme.py:57`), those of the rows without the empty ones. A PATCH reads
its row in one step and saves all columns in another.

Definitions whose names end in `Mutant` are wrong on purpose: each states a slip
the code could contain next to the definition it would replace, and
`PROJECT.json` names the property that notices it. No run uses them as they stand.

## 3. Runs

Passing runs (the type invariants `TypeOK`, and the weaker facts `StoredWasRecorded`
and `LostStaysLost`, were checked on the same instances before they were proved; the
runs are left to what is harder to see):

| run | bounds | what it shows |
|---|---|---|
| LifecycleConcurrent | 3 workers, 5 requests, 1 crash | any overlap: a closed or resolved row has its stamp; a first response exists exactly when recorded, and its time is that of a reply under way when the first was stored; QUEUED is left for good; events never outnumber messages; an end is announced; whose turn it is; every save is a step of `ConversationContract`, that of an overtaken request included |
| IngestionSafety | 2 webhook handlers, 1 poller, a reply and two echoes, one of them without a sender, pages of 2, 2 deliveries, 1 crash, 1 switch of activity or mapping | at most once over both paths (refinement of `ReplyInbox`); message and event inseparable; an echo becomes a reply only unrecognised, and only by a webhook or by a run that looked before its timestamp was saved |
| IngestionLiveness | 1 handler, 2 pollers, pages of 1, a reply without an id, one whose webhooks have no thread key, and one in a foreign thread, 1 switch, 1 crash | a reply to an active conversation with a thread and a mapping arrives although webhooks may never come, while the thread fits on a page |
| RequestsSafety | 2 workers, 2 create keys, 1 send key, 4 requests, 1 crash | one conversation per create key and the same answer each time; acknowledged is stored; delivery marks are true |
| IdleRuns | 2 runs at a time, 4 instants, 1 crash | no run escalates within twice the threshold of, nor nudges again after, a notice written before it began; the first silence is auto-resolved, a rested resolution auto-closed |
| ThreadLive | 2 conversations, 3 messages, 2 openings of a thread, 2 requests under way | no message twice in the list; a foreign message enters only by a late answer, or by the stream of the conversation whose effect is not cleaned up yet; whoever stays with a thread ends up seeing exactly its messages, though every event may be lost |
| WidgetForms | 1 conversation, 2 ratings, 2 requests under way, 1 change of status by others | of overlapping ratings only the first is stored; who is thanked has that rating stored, though forms are remounted and timers run on; no form hangs; a widget kept open ends up with one entry that shows the status |
| AuthenticationThreads | 2 threads, 2 keys, lifetime 2, clock from 1 to 3 | a steady key is never unknown; an undisturbed request finds a rotated key once the clock has passed the lifetime; a withdrawn one expires; where the Firebase app exists, only a request that overlapped its making is turned away; refusals of a current key end |
| ConfigurationChanges | 1 creation, 2 queues, 2 rules (of one name, one of them possibly malformed), 2 mappings, 3 branding rows, 2 edits, 1 PATCH | whatever is edited between two queries: the thread stays reached, header and colour are of a theme that was in force at one of the two queries that resolved it, the organisation's own values win, one row per organisation, also after a PATCH has put a deleted row back |

Runs that end in a violation, each a disagreement between the sources and what
the code does (`findings` quotes the line):

| run | shown |
|---|---|
| RequestsSendTwice | of two overlapping sends with one key both store a message |
| AuthenticationRefresh | `_cognito_jwks_fetched_at = 0` forces no fetch while `time.monotonic()` is below the lifetime of the cache, so a token of a rotated key is refused |
| BrandingEmptyColour | an empty colour in `settings.ROAM_THEME` takes the place of the hard-coded one (`theme.py:57`), though "only non-empty values from each layer are applied" (`theme.py:47`) |

Other things TLC showed on the way, which no run keeps:

- a repeated send is answered with the newest message, not its own
  (`services.py:204`; `test_conversation_service.py:429` checks the id with one
  message only);
- the poller compares timestamps with stored ids, so that it feeds every
  processed reply to the handler again on every run (`tasks.py:70` and `:131` of
  `apps/integrations_roam`); the handler's own check keeps this harmless, which
  is what `ImplementsInbox` shows;
- a conversation that was auto-resolved once never is again, because the notice
  is searched for without a lower bound in time (`apps/conversations/tasks.py:163`);
- the late answer to a close opens the rating form for whichever conversation is
  selected by then, or for none (`conversation-detail.tsx:117`);
- of two overlapping replies the later one overwrites the first response's time
  (`webhook_service.py:245`), a send that read before a close stores its message
  in the closed conversation (`services.py:198`), and two overlapping runs of the
  idle check both write the same notice (`apps/conversations/tasks.py:126`);
- a history longer than a page is fetched from the same end again and again, so
  that the part beyond it arrives by webhook only (`tasks.py:122-126` of
  `apps/integrations_roam`);
- after a switch to another thread an event of the old one may still be appended
  to the new one's list (`conversation-detail.tsx:76`);
- a rule whose `match_json` is no object fails every creation that gets to it,
  although a default queue exists (`routing/services.py:56`, outside the `try`);
- `unique` ignores nulls, so that several default branding rows may exist
  (`apps/admin_config/models.py:24`, against line 15); `Branding` lets them, and
  takes the first, as the code does.

Where the code lets a request be overtaken, a property says what remains true
rather than assuming it away. `FirstResponseKept` bounds the time by `heard`: only
replies under way when the first one was stored may move it. `TurnIsRight`
excuses a row whose latest save was `stale`, `ImplementsContract` gives such a
save the step `Overtaken`, which writes the columns of one operation, never over
a queued row. `EscalationsSpaced` and `NudgedOnce` excuse a run whose `now` is not
after the notice it repeats. `WithdrawnExpires` and `RotatedKeyFound` are about
requests that no other overlaps, `InitialisedOnce` names the overlap as the one
cause of a refusal besides credentials that fail; `RefusalsEnd` has no such
excuse. `ReplyArrives` excuses a thread longer than a page.

**Why the bounds are enough.** Each lifecycle property involves at most a stale
request, the one that overtakes it and the one that brought the row where both
start; five requests with three in flight contain all such triples, and two
more requests that meet what they left. At-most-once needs two deliveries of one
reply by different paths at once, and an echo that is seen before its timestamp
is saved and after; with three messages in the thread a page of two makes the
limit bite, and in the liveness run a page of one is exceeded by two. Sends need
two requests with one key, and one more for the conversation they go to. The idle
check needs two runs that overlap, and instants on both sides of a threshold; four
hold a nudge and the whole wait for the auto-resolution, or a resolution by hand
and its rest, and the fourth is the last one at which a second escalation would
be too early (a look-back of one threshold is noticed there; what lies beyond is
left to the proof). The live thread
needs two conversations for a foreign answer, a second message in one of them
for an event that races a poll and a send, and two openings for a switch;
reconnects and polls are unbounded. The widget's forms need two ratings to tell
the stored one from a second, two requests to overtake each other, and one change
behind the widget's back. The key cache needs a key that goes and one that comes,
two threads for a stamp that covers another's keys, and a clock that runs from
below the lifetime to past it. Configuration needs two rules to have an order,
two mappings to have a first, a default and an own branding row and one more for a
default that is added; two edits may delete and put back, or change both layers
of a theme between its queries, and a PATCH adds a third. Deadlock is not
checked: behaviours end when the bounded requests are used up.

**Fairness.** `WebhookIngestion` assumes weak fairness of the steps of a poll run,
because beat starts `poll_roam_replies` every ten seconds and a Celery worker
carries it through (`src/config/settings/base.py:163-172`), and strong fairness
of a `chat.history` that answers, because a failed one is tried again by the next
run; without it Roam could fail forever. `IdleCheck` assumes weak fairness of a
run's steps, from the same beat schedule. Nothing is assumed of people, webhooks,
the clock, or of anybody sending a request. `LiveThread` assumes strong fairness
of the effect that is due after a paint (the browser does not skip it; in the
model it shares the bounded slots for requests), weak fairness of the five-second
timer while an effect is in force (`conversation-detail.tsx:70`), that no request
stays under way for ever (`fetch` ends with an answer or an error), and strong
fairness of a list request being served and landing: not every poll fails.
Nothing is assumed of streams, publishing or the customer, so
the property rests on the polling alone, as the comment "Polling fallback"
intends. `WidgetConversations` assumes the same of the fifteen-second timer: the
widget is visited again and again in a state where the list is polled, every
request ends, and not every poll fails. `Authentication` assumes that time
passes and that a thread which fetches again and again is answered at times;
nothing of customers, and nothing of the threads' speed. `Configuration` has no
liveness property, and assumes nothing.

## 4. Proofs

All theorems hold for every value of the constants that satisfies the modules'
named assumptions (`LifecycleAssumption`, `IngestionAssumption`,
`RequestsAssumption`, `IdleAssumption`, `ThreadAssumption`, `WidgetAssumption`,
`AuthenticationAssumption`, `RoutingAssumption`, `BrandingAssumption`,
`ConfigurationAssumption`): bounds are naturals, sorts of replies are replies,
handlers are not pollers, a key creates or sends and not both, thresholds and
lifetimes are positive, null values are not values, the hard-coded theme has a
header and a colour, and the tables an administrator starts with keep the
database's foreign and unique keys.

- `ConversationLifecycle_proofs`. `Inv` joins the type invariant, the three
  invariants and `SnapshotsLag`: what a request has in hand, for each of its
  steps. A save writes values from a snapshot, so that `QueuedIsUntouched` is not
  inductive: a snapshot that says "queued" must be known to be from before the
  first reply, and a request that is about to resolve, close or reopen must be
  known to have seen a row that is queued no more, and QUEUED never comes back.
  Shown from it: `TypeCorrect`, `StampsFollow`, `AnswerIsStamped`,
  `QueuedUntouched`.
  `Audited` (`AuditTrail`) compares numbers of rows with numbers of requests at a
  statement. `Workers` may be infinite, and the cardinality of an infinite set is
  no number one can reason with; `CountInv` therefore adds that only finitely many
  workers have a request (`Busy`). `Flow` says that a step moves one request from
  one statement to another, so that each count loses `Here(old)` and gains
  `Here(new)`; what is left of an action is a sum to balance (`Balanced`).
  `EndAnnounced` (`EndIsAnnounced`) rests on `Announced`, its form without counts:
  some request is about to write the notice, the notice exists, or something
  crashed. An overlapped save can set "closed" over "resolved" and back, so the
  step is stated for every way of getting into an ended status (`Announces`).
  `Refinement`: every step is a step of `ConversationContract` or a stutter, with
  any number of workers. It rests on `Admitted`: a request that has yet to save
  was admitted by the status in its snapshot. If the row still has that status,
  the save is a step of the operation (`FreshSave`), else the row has left QUEUED
  and the save is `Overtaken` (`OvertakenSave`). `FirstResponseStays` rests on
  `Heard`: a request that found no first response began before one was stored.
  `TurnRight` rests on `TurnInv`: a conversation whose customer wrote last may wait
  for the customer only while that customer's request is between its message and
  its save, or after a stale save.
- `WebhookIngestion_proofs`. `Inv` joins type invariant, `MessageIffEvent`,
  `HandKnows` (a reply in the hands of a worker beyond the checks passed them, is
  written, its raw event is stored, and an echo among what a run still has to feed
  is one it found unstamped) and `StoredUnderId` (the same of what is stored, and
  that a reply with an id is stored under no other key). Shown: `TypeCorrect`,
  `OneMessagePerKey`, `EchoesAreKeptOut`, `RawIsKept`, and `InboxRefinement`:
  every step is a step of `ReplyInbox` or a stutter.
- `CustomerRequests_proofs`. `DeliveryMarks` and `CreateOnce` speak of the oldest
  message of a conversation, which no step's guard mentions; `Inv` says instead
  that every message is in the conversation of its key (`Home`), that an opening
  message is the oldest where it is, and that a key with an event has a message
  (`MessageRows`). `HandKnows` ties the message a request has in hand to its key
  and its step (a request about to post knows a mark that is still "pending" and
  no more copies than tries), and `Alone` says that no two requests have the same
  message in hand, so that nobody else invalidates this. Shown: `TypeCorrect`,
  `CreatedOnce`, `CreateAnswersAgreed`, `AcknowledgedStays`, `MarksAreTrue`.
- `IdleCheck_proofs`. `Earned` says what a run that is about to write a notice
  has established: the search found nothing, and what is there now and was not
  found was written after the run began. The window of the nudge's search needs
  that whoever is nudged has been silent for less than the auto-resolve threshold.
  Shown, for any number of runs, overlapping or not, and all thresholds:
  `TypeCorrect`, `EscalationsAreSpaced`, `NudgeIsNotRepeated`.
- `LiveThread_proofs`. `Inv` adds to types and `NoDuplicates` that the stream is
  that of the effect in force and carries only its conversation's messages
  (`StreamFollows`), that an answer holds only messages of the conversation it was
  asked for (`AnswersBelong`), and that an open thread has a conversation and an
  effect in force an open thread (`Placed`). It is kept in four parts (server,
  view, stream, requests), because each action touches one or two of them. Shown:
  `TypeCorrect`, `NothingTwice`, and `StrangersOnlyLate`, an action property: a
  message enters the list by an event of the stream in force or by the answer to
  a request (`Entering`), and the stream in force is that of `live`.
- `WidgetConversations_proofs`. Whoever is thanked was answered by some earlier
  step; `Awaited` carries the fact there: at most one request is the form's own,
  it has what the form submitted until it is served, and once it is answered the
  rating is stored. `Placed` says in which view a form with content can be.
  Shown: `TypeCorrect`, `ThankedHasRated`, `NoFormIsStuck`, `FeedbackIsKept`.
- `Authentication_proofs`. `Inv` follows the keys that never change (`Steady`)
  from Cognito through an answer in hand into the cache (`Cached`, `Holds`), and
  says of a request nobody overlaps how old the keys it deals with are
  (`KnowsAge`) and what its forced refresh has brought (`KnowsKey`); a key that
  was withdrawn does not come back (`Calendar`). Shown: `TypeCorrect`,
  `SteadyKeyIsKnown`, `RotatedKeyIsFound`, `WithdrawnKeyExpires`,
  `InitialisationIsOnce`, for any number of threads, keys and instants.
- `Configuration_proofs`. `Inv` joins types with three parts. `GroupIsKept`: the
  group a creation looked up is still the first active mapping's unless mappings
  were edited. `Branded` adds to `OneRowPerOrg` that a PATCH holds a row of its own
  organisation (`EditFits`; without it its INSERT could make a second one) and
  that what has been read of the theme is what the organisation's own row says
  (`OverrideIsRead`). `ThemeIsAsked`: while the second query of a theme is due,
  what the first one read is what the tables still give unless the default was
  edited, and gave the theme of that moment unless the organisation's row was;
  `ThemeWasInForce` follows by cases on which of the two was edited. The parts
  touch different tables, so that each action disturbs few. Shown: `TypeCorrect`,
  `ThreadStays`, `OverrideAlwaysWins`, `ThemeWasInForce`, `OrgHasOneRow`,
  `LostForGood`.

Every safety property of the passing runs is proved, and no theorem is restricted
to workers or runs that do not overlap; what a property excuses is in its
statement (section 3). Only model-checked are the six that speak of fairness
(`ReplyArrives`, `FirstSilenceResolved`, `RestedIsClosed`, `SettlesOnThread`,
`SettlesOnStatus`, `RefusalsEnd`): liveness and ENABLED are out of the prover's
reach.

## 5. Plan

Done, in this order: `ConversationRow`, `ConversationContract`,
`ConversationLifecycle` with proofs; `ReplyInbox`, `WebhookIngestion` with
proofs; `CustomerRequests` with proofs; `IdleCheck` with proofs; `LiveThread` with
proofs; `Authentication` with proofs; `WidgetConversations` with proofs; `Tables`,
`Routing`, `Branding` and `Configuration` with proofs.

Next:

1. `LiveThread` with the status events, composed with `WidgetConversations`.
2. The rates and percentiles of `Analytics` as operators against a definition.

## 6. Not modelled

- Analytics: read-only arithmetic over finished rows; nothing interleaves with it.
- Analyst profiles and SLA policies: rows that no state-changing path reads.
- The operations API: reads, endpoints that answer 501, and one that calls
  `resolve_conversation` (`ops_api/views.py:164-197`), which is the `Resolve` of
  `ConversationLifecycle`. The other endpoints of the admin API: reads and 501.
  The typing indicator: a stub that answers 501.
- What the database alone guarantees is in the models but stated as no property:
  no rule, mapping or conversation leads to a deleted queue (CASCADE, PROTECT, the
  foreign keys). Nor is that a creation goes where the rules say: rules and queues
  come from one query, and the property would repeat `FirstInOrder`.
- Formatting of Roam blocks and notices, admin sites, migrations and settings: no
  state of their own, or generated. The demo seed: random rows for a
  presentation.
- The token of the resolve link, signatures, claims and the API key: checks
  without state. `handle_reaction`: it only logs an event.
- A query of the theme that fails: its layer is skipped without a word
  (`theme.py:66`); `OverrideWins` is about queries that answer.
- Tabs, badge, bubbles, the composer's text, init and destroy of the widget; the
  status events of a stream.
- Rows of users who do not own a conversation: they are turned away before
  anything is written.
