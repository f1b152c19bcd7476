# MetroTrip in TLA+

This directory specifies the parts of MetroTrip whose correctness depends on
what happens *between* steps: requests that overlap, health checks that hang,
an author and many applicants who act on the same rows, answers that reach a
page after it has moved on. The modules are
translated from the code under `backend/`, `frontend/` and `db/`; TLC checks
small instances, and TLAPS proves the most important results for every value
of the constants.

## 1. The system

MetroTrip is a travel planner around the subway. A FastAPI backend serves a
Next.js frontend. MySQL holds the data; an Oracle database holds a periodic
read-only copy that answers reads while MySQL is down.

Facts about the execution environment that every model uses:

- every endpoint is a plain `def`: FastAPI runs it in a thread of its pool, so
  any number of requests overlap;
- each request has its own SQLAlchemy session (`database.py:26-40`,
  `autoflush=False`, `expire_on_commit=False`) and one transaction. InnoDB's
  default isolation is REPEATABLE READ: the reads of a request form one
  snapshot, no read locks anything, and the commit writes the columns that
  differ from what was loaded to whatever the row is by then;
- access tokens are stateless (`contract.py:19-23`): they outlive a logout, a
  password change and the account;
- a page is one thread: a handler, an effect or the continuation of a promise
  runs to its end, and state is only as old as the render it was taken from.
  What interleaves are answers, timers, effects and the user. Every call of a
  page passes the adapter (`legacyApiAdapter.ts`), which runs in the browser
  and rewrites it for the backend;
- `fetch` rejects when the page's own server is not reached; everything else,
  an unreachable backend included (502 of the proxy, `proxy.ts:32`), is an
  answer with a status.

### Components

| Component | State it keeps | Operations | Talks to | What is hard |
|---|---|---|---|---|
| Recruitment board (`services/community.py`) | post (status, capacity, deadline), one participant row per user | create, update, delete, delete by an administrator, apply, cancel, accept, reject, list | users (withdrawal cascades), plans | validation and commit are separate steps of concurrent requests |
| Failover routing (`db_failover.py`) | verdict, time of the last check, two counters, an executor of four threads | `primary_healthy`, `get_db`, `get_read_db` | MySQL pool, every router | threads, timeouts, probes that hang, a shared connection pool |
| MySQL to Oracle sync (`scripts/sync_to_oracle.py`, `scheduler.py`) | Oracle's tables, `sync_state.json` | scheduled job, manual run, verify | MySQL, Oracle, `/health` | copy of a moving source, crash between commit and state file, constraints met in the wrong order |
| Auth (`services/auth.py`) | verification codes with attempt counts, refresh tokens, passwords | send code, verify, register, login, refresh, logout, reset, change password | e-mail, users | rotation of one token by two requests, revocation racing a refresh |
| Users (`services/users.py`) | profile, favorites | update, change password, withdraw, favorites | everything, by cascade | withdrawal while other requests of the user are in flight |
| Travel plans (`services/plans.py`) | plan, ordered items, share link | create, update (items matched to rows), delete, share, unshare, view | transit data | items matched to loaded rows, two editors |
| Reviews (`services/reviews.py`) | review, tags, media, view count | create, update, delete, upload, view | local storage | counters, replaced tags, files against rows |
| Notices (`services/notices.py`) | notices | create, update, delete, list | | little |
| Places and timetables (`services/transit.py`) | places, stations, timetables | read, upsert and delete of places by administrators | plans, favorites | place deleted while referenced |
| Browser session (`frontend/src/lib/session.tsx`) | status, user, refresh timer, stored refresh token | restore, login, refresh, logout, change password, withdraw | adapter, auth | timeouts and answers that arrive after a logout, tabs that share one token |
| Sign-up page (`frontend/app/login/page.tsx`) | mode, step, draft of the sign-up, address for a new password, pending | change of mode, steps and back, ask for a code, confirm it | adapter, auth | answers that arrive after a step back or a change of mode, codes asked for twice, mails without rows |
| Plan editor (`frontend/app/discover/page.tsx`) | the plan shown, dirty, pending, read-only | edit, autosave, times from the schedule, create, open, delete | adapter, plans | edits during a save, times written in by an effect, calls that never answer |
| Route board (`page.tsx`, `SubwayRouteBoard.tsx`) | route, schedule and its status, line maps, cached rows | change of route or minute, calculation | timetables | calculations that end out of order, promises kept after they failed |
| Map page (`page.tsx`) | station, area, categories, words, selected place, the four answers shown | search, select, link from the home page | adapter, places | four effects that ask again and withdraw nothing |
| Timetable calculation (`transitTimetable.ts`, `subwayLineMap.ts`) | none (pure) | next train, change, way on the map, times of a route | | midnight, changes, gaps in the data |
| Legacy adapter and API proxy (`legacyApiAdapter.ts`, `legacyMappers.ts`, `proxy.ts`) | stored token, place cache, plan metadata | a rewrite per endpoint | everything | what a mapping leaves out or makes up |
| Other pages, health endpoint, deployment, schemas, generated types | | | | not modelled, see section 8 |

### What makes each component correct

- Recruitment: never more accepted participants than seats; a full post is
  closed; a decision is final until the applicant acts; rows never outlive
  their post or user.
- Failover: one probe at a time; no flapping; a lasting outage is noticed and
  the service returns to MySQL after it.
- Sync: what Oracle shows is a state MySQL was in, all tables of the same
  moment; deleted rows do not come back; the recorded time is not newer than
  the data.
- Auth: one refresh token is exchanged once; after a logout or a password
  change no earlier token can be exchanged; a code admits a bounded number of
  attempts.
- Plans and reviews: items and tags are replaced as a whole; counters count.
- Browser session: after a logout the page stays logged out; the stored token
  is the one the backend takes; renewals log nobody out.
- Sign-up: a page that asks for the code is complete, and the code it waits for
  is the one the backend compares.
- Plan editor: "자동 저장됨" is true; an edit is never lost; a plan that can be
  saved is saved.
- Route board: the schedule shown is that of the route and minute shown, and
  "loading" ends.
- Map page: every answer shown is for what the page shows; a link is followed.
- Timetable calculation: the trains are caught, stops and legs fit, the times
  are the earliest and the ways the shortest.

## 2. Modules

| Module | Models |
|---|---|
| `Recruitment` | the board for one post: requests split at their read and their commit |
| `SeatBoard` | abstract specification: seats granted to users one at a time |
| `MCRecruitment` | symmetry for TLC |
| `RecruitmentProofs` | types, row consistency, capacity, closing, finality and the refinement of `SeatBoard`, proved |
| `Failover` | the MySQL health check that routes every request |
| `MCFailover` | its instance for TLC |
| `OracleSync` | one run of the copy job after another, against a MySQL that changes |
| `Replica` | abstract specification: a copy that moves from one whole state of its source to a later one |
| `MCOracleSync` | its instance for TLC |
| `DatabaseProofs` | of `Failover` and `OracleSync`: types, one probe at a time, no flapping; the state file, timetables and lines, the refinement of `Replica`, proved |
| `AuthSession` | the refresh tokens of one account, under every request that issues or revokes them |
| `MCAuthSession` | symmetry for TLC |
| `AuthSessionProofs` | types, what a revocation ends, what rotation keeps, proved |
| `BrowserSession` | the session of the browser's tabs, with the backend's tokens as `AuthSession` has them |
| `MCBrowserSession` | symmetry of the tabs for TLC |
| `BrowserSessionProofs` | types, staying logged out, the stored token, renewals, proved |
| `PlanEditor` | one page that edits one plan, the adapter's translation and the backend's checks |
| `MCPlanEditor` | its instance for TLC |
| `PlanEditorProofs` | what the page calls saved is saved; types; which edits can be lost, proved |
| `LineMap` | operators: the map of the lines and the search on it (pure) |
| `RouteSchedule` | the calculation of a route's times, one hop a step; extends `LineMap` |
| `MCRouteSchedule` | networks, timetables and routes for TLC |
| `RouteScheduleProofs` | the route shown can be travelled; trains arrive first, ways are shortest, proved |
| `MapPage` | what `RouteBoard` and `Discover` have in common: the stations, and those the page knows |
| `RouteBoard` | when a schedule is calculated, from what, and whose result is shown |
| `MCRouteBoard` | its routes |
| `Discover` | the map page's search and selection, its four requests and the home page's link |
| `MCDiscover` | what there is to be found |
| `MapPageProofs` | of `RouteBoard` and `Discover`: the schedule that stays fits, what is shown at rest fits; types, proved |
| `SignUp` | the pages for signing up and for a new password, with the codes the backend mails and compares |
| `MCSignUp` | symmetry of the pages for TLC |
| `SignUpProofs` | types and limits; a page that waits for a code can confirm it, proved |

### Recruitment

`stage` and `post` are a row of `board_posts` (whether it exists; status,
capacity and deadline), `row[u]` the participant row of user `u` (`"none"` if
there is none; `responded` says whether `responded_at` is set), `registered`
the users with an account. `req[w]` is what thread `w` carries from its reads
to its commit: the operation, the row it loaded, the post as the session sees
it and the columns that are dirty.

`BeginApply`, `BeginAccept`, ... are the handlers up to `db.commit()`: their
guards are the handlers' checks in the code's order. A request that a check
turns down changes nothing and is not a step. `Commit...` are the flushes,
with the constraints of the schema (`uk_post_participants`, the foreign keys)
in their guards; `CommitFails` is the 500 answer when a row has gone or a key
is violated. Two details of the ORM matter and are modelled. A decision writes
`recruit_status` only if the value changes. A new application resets
`responded_at` only if the row it loaded had one. The calendar advances
(`NextDay`), so a deadline can pass at any point; no commit re-reads it.

`SerialOrganizer` says that the author's client sends its next decision or
update only after the answer to the previous one. Nothing in the backend or in
the page enforces it (the buttons stay enabled while a decision is in flight).
With it the board keeps its promises; without it `WithinCapacity` fails (run
`recruitment_two_decisions`).

### Failover

Time is discrete, in seconds. `caller[c]` is a request thread: away, or
waiting for the probe it submitted, which is queued in front of the executor,
running, or stuck (it met a dead server). A caller within the cache period
returns the current verdict and changes nothing, so it is not a step.
`BeginProbe` is the first locked region of `primary_healthy`, which tests and
claims the period in one step; `ProbeSucceeds`, `ProbeFails` and
`ProbeTimesOut` are the second. `hung` and `backlog` are probes that nobody
waits for any more, in the executor's threads and in its queue. `exhausted`
says that requests hold every connection of the pool of five, which the probe
shares. `PoolFills` needs a healthy verdict: `get_db` and `get_read_db` hand
out MySQL sessions only then. `last` and `streak` are
history variables for the properties.

### OracleSync

`log` is every state MySQL has been in, `oracle` what is committed in Oracle,
`job` the run under way: how far it is, whether it takes the timetables along
(`--include-timetables`), which state its MySQL connection sees, and Oracle as
its transaction sees it. A database is three tables: `line` for the two tables
that are upserted (with the unique `line_name`), `timetable` for
`train_timetables` and the tables a deployment excludes, `row` for all that
are emptied and reloaded. `Valid` are the foreign keys and the unique key,
which every state of MySQL satisfies.

`CheckEmptyStrings` is a connection of its own, so MySQL may change after it.
`DeleteAll` comes before the first query on MySQL, and REPEATABLE READ fixes
the snapshot at that query (`Upsert`), not at the start of the run. `Upsert`
needs `Upsertable`: `_upsert_table` inserts, updates row by row in the order
of the primary key, then deletes, and each statement has to satisfy the
constraints by itself. `StatementFails` is the rollback otherwise. `Fault` is
a lost connection or a restart at any point; between the commit and the end of
`write_sync_state` it leaves the state file old or unreadable. The comparison
of row counts is not a guard: with one job it cannot fail.

One run at a time is an assumption, not a result: `max_instances=1` covers the
scheduler, and the documents ask for one worker; nothing stops an operator
from starting the script by hand beside it.

### AuthSession

`tokens` are the rows of `auth_tokens` of one account. A row's `session` is
the first token of the chain it belongs to; the code stores no such name, it
exists for the properties. `access` and `reauth` stand for the signed tokens
that are stored nowhere and only expire: a logout or a withdrawal leaves them
valid, and a reauthentication token serves any number of requests of its
purpose. `code` says that a code for a new password is pending; after a reset
an older or newer code may still be, so `CommitNewPassword` leaves either.
Passwords and code values are not modelled: whoever sends a request knows
them.

The handlers are split at the read and the commit as in `Recruitment`. `Logout`
reads nothing first, so it is one step. `EndSessions` is the bulk UPDATE with
its commit: it works on the rows as they are by then, not on a snapshot, and
its locks keep rows of the user from being added before it commits. The UPDATE
of `CommitRefresh` is by key and does not ask whether the token is active
still; `IdleSessionsEnd` therefore claims nothing of a session whose exchange
was in flight when it was revoked (see section 5).

`SerialSessions` are the sessions whose browser exchanges a token once at a
time. One page does so (`session.tsx:103`, `refreshInFlight`); two tabs share
the stored token and the server does not enforce it, so `OneTokenPerSession`
is claimed of these sessions only, and the other properties of all.

### BrowserSession

`status`, `user`, `due` (`refreshAfterSeconds`) and `timer` are the provider's
state, per tab; `stored` is the token in localStorage, which the tabs share;
`live` and `issued` are the backend's rows. A call goes through the stages at
which something else may come in between: `sent`, `granted` or `refused` by
the backend, `me` while the adapter fetches the profile, having stored the
token already. `late` marks a refresh the page has given up after eight
seconds (`session.tsx:107`): it goes on and still stores its token.

`Load` is the provider's first effect, `TimerFires` and `BecomesVisible` the
two causes of a renewal, `Login`, and `Use` for a logout, a new password or a
withdrawal. `KeepToken`, `TakeSession`, `RefreshRefused` and `SessionEnds` are
what adapter and page do with an answer. `AnswerFails`, `MeFails`,
`CallThrows` and `TimeOut` are the failures. `Authenticated` shows a detail:
the effect that starts the timer depends on the number of seconds alone, and a
login asks for the same number as a refresh, so it is not started again by a
renewal that yields what was there.

`ended`, `calm` and `last` are history: whether the tab's user ended the
session with nothing on its way, whether calls have so far neither failed nor
overlapped, and whether the stored token should be there.

### PlanEditor

`plan`, `dirty`, `pending` and `readOnly` are the page's `planner...` states,
`schedule` the minute the subway schedule is for, `url` what the address asks
to be opened, `server` the rows of `travel_plans` with their items. A call
carries what it was sent with; `Serve...` is adapter and backend together:
`Written` is the translation (only numeric ids name rows; a place without a
time gets an hour made up from its index, `legacyApiAdapter.ts:422`) and
`Acceptable` what the backend takes. `Answered` are the continuations in
the page, `CallFails` any answer that is not ok, `CallThrows` a `fetch` that
rejects, after which nothing of the handler runs.

`Autosave` and `ApplySchedule` are the two effects that act by themselves.
`ApplySchedule` makes the plan with the schedule's times (`retimed`) and sets a
task; the task, `WriteTimes`, writes it over whatever the plan is by then. A
plan that was deleted or saved meanwhile so comes back, changed, for a task. An
edit clears the task (`Edit`): React runs the effects of the user's events, the
clean-up among them, before the next task, but does not promise it for answers
or the clock, so between those and the effect the task may run. The handlers of
edits see the plan last set. Of the schedule only what tells its times apart is
kept (`Minutes`): it may be dropped and calculated anew at any time. A backend
out of ids for rows (`MaxRows`) refuses the save.
`wanted`, `racing` and `crossed` are history: the items after the user's last
edit of a plan, the plans last edited during a save, and those with two calls
at once. The tags of items exist for `wanted` only: the code compares none.

### LineMap and RouteSchedule

`LineMap` has no variables. `Edges` is what `addEdges` builds from the lists of
the lines, with the edge that closes the loop line; `FindPath` is
`findTopologicalPath`: a breadth-first search that visits the neighbours in
the order of the map. The names of lines go through `Real`, since two lines of
the database may be one line of the map. A loop of the code is a function on
0..n whose value at i is what the loop has after i passes (`visited`, `passes`,
`back`): the prover can reason about it, where it cannot about a RECURSIVE
operator.

`RouteSchedule` makes the loop of `calculateSubwayRouteSchedule` its steps:
each takes one hop, by a train of a shared line, by two trains with a change,
or, when no timetable covers the hop, along the map without times. `Departs`,
`Arrives` and `AfterDeparture` are the arithmetic of minutes, with midnight.
`CanBeTravelled` also covers `Badge`, the colour the board gives a stop.

### RouteBoard

`ids`, `known`, `minute`, `schedule` and `status` are the page's state.
`calcDue` says that the effect that calculates is to run; `EffectRuns` runs the
clean-up first, which clears `active` of the calculation before, and starts
another. A calculation waits for the map, then for the rows of each hop.
The map of the lines is kept twice, as a promise by each of the two files, and
`cache` holds the promised rows of a station. A list that is refused (not ok)
is missing from the map, one that rejects makes it rejected. What a map lacks is
not told apart: a station of the route, or a way for a hop without trains, may be
missing from any (`NoMap`). The rows of a station that fail are dropped from the
cache, so that the next calculation asks again.

### Discover

`Criteria` (station, area, categories, words) is what the page searches for,
`Inputs` what each of the four effects depends on. After every change
`Effects` sets the timers of the effects whose inputs differ; `Send` turns a
timer into a request, `Answer` shows what it was for, and `calls` keeps the
requests of an operation in the order they were asked for, answered in any.
An answer that is not ok is an `Answer` with nothing `given`; a station's
departures and its detail are two requests, and the second `joins` the station to
the page's list or not. `Reject` is a `fetch` that rejects; the
list of places is put together from one request per category, of which some
may fail. The list of stations holds the first hundred (`Listed`): the board and
a link may select one that is not on it, for which there is no way on foot. `address` is the link of the home page, `ApplyAddress` and
`AddressAnswers` its effect, which runs again after every change until station
and category are the link's.

`astray` is history: the operations that show an answer which came after the
answer to a later request. The place's departures are stood for by the station
they were asked for, the query and the radius by `word`, the station nearest
to a place by any known one. What the user does and what fails is bounded by
`events` together.

### SignUp

`mode`, `step`, `draft`, `resetEmail` and `pending` are the state of
`login/page.tsx`, per page; of the draft only which steps have filled it and
the address. `codes` are the rows of `email_verifications` in the order of
their ids, `mail` names the last code mailed for an address and a purpose,
`users` the addresses with an account. The value of a code is its row: a user
types a code from a mail, or 0 for a wrong one.

A request for a code goes through the stages of `request_verification`: the
flush that gives the row its id (`CreateCode`), the mail (`SendMail`), the
commit (`CommitCode`); what fails in between is rolled back, its mail is not. A
comparison is split at its read and its commit (`ReadCode`, `CommitVerdict`):
the attempt written is one more than the one read. The sign-up's last step is
three requests, the comparison, `Register` and the adapter's `LogIn`, any of
which may fail after the one before took effect. `CallFails` is any answer that
is not ok, `CallThrows` a `fetch` that rejects: the request is lost on its way, or
the backend goes on with it unheard (`GoesOn`), as it does with what it has
`Begun`. Two calls that go on unheard and alike are one.

`switched` is history: the mode of the page was changed while a step's request
was under way, whose answer the page will take all the same. `crossed` are the
codes asked for while another for the same address and purpose was not yet
committed. What a login or a new password does to tokens is `AuthSession`'s.

## 3. Runs

| Run | Shows |
|---|---|
| `recruitment_serial` | 3 users, 3 threads, up to 2 seats, author's requests in sequence: `WithinCapacity`, `CountsStayGood`, `FillingCloses`, `DecisionStands`, and the refinement of `SeatBoard` |
| `recruitment_parallel` | 2 users, 3 threads, 2 days, everything in parallel: `TypeOK`; participants' rows agree with the post, the users and their own response time (`RowsConsistent`) |
| `recruitment_two_decisions` | violation: two overlapping acceptances overbook |
| `failover` | two callers, the code's times and thresholds (5 s, 2 s, 2, 2), an executor of 2: `FailoverTypeOK`, `AtMostOneProbe`, `TurnsOnlyAfterStreak`, `OutageDetected`, `Recovers` |
| `oracle_sync` | `TypeOK`, `TimetablesHaveLines`, `NothingRecordedAhead`, the refinement of `Replica`, with a failure anywhere; `CatchesUp`: whatever failed, Oracle reaches a resting MySQL whose state its constraints let it take |
| `auth_sessions` | 3 requests at a time, 4 tokens, sessions 1 and 3 exchange once at a time, session 2 as often as it likes: `TypeOK`, `IdleSessionsEnd`, `NoTokenOutlivesAccount`, `OneTokenPerSession` |
| `browser_session` | 2 tabs, 3 tokens, a call of the user beside refreshes that are given up and go on: `TypeOK`, `StaysLoggedOut`, `StoredTokenFits`, `RenewalsKeepSessions` |
| `plan_editor` | 2 stations, a place, schedules of 2 minutes, an edit, 2 calls, a failure: `TypeOK`; what the page calls saved is saved (`CleanMeansSaved`); only an edit made during a save can be lost (`EditsLostOnlyDuringSave`); `SavedAgainAndAgain` |
| `route_schedule` | 5 stations on 3 lists, days of 6 minutes, 7 routes of 2 and 3 stations: the times shown can be travelled (`CanBeTravelled`), are the earliest if no train overtakes another (`ArrivesFirst`), and ways without times are shortest (`ShortestWay`) |
| `route_board` | 3 stations, 2 minutes, 5 changes, 2 failures: `BoardTypeOK`; the schedule that stays is the one for what is shown (`SettledScheduleFits`); `LoadingEnds` |
| `discover` | 2 stations, one of them listed, an area, 3 places, 2 categories, 2 events; the link names the station that is not: `TypeOK`; what is shown is for what is shown beside it, late answers aside (`AnswersFit`); `LinkIsFollowed` |
| `sign_up` | 2 pages, an address, 2 codes, 2 attempts, 2 changes of mode or steps back, a failure: `TypeOK`; a page that waits for a code has filled the steps before it and waits for the code the backend compares (`ReadyToConfirm`) |

Runs of `Recruitment` and `AuthSession` switch the deadlock check off: a
system whose post is deleted and whose users have all withdrawn really stops.
So do `plan_editor`, `browser_session`, `route_board`, `discover` and `sign_up`, where
the user may stop (and the bounds make him stop), and `route_schedule`, whose
calculation ends.

### Bounds

Three users and two seats are the least with a seat contended while another is
taken, three threads the least with a decision, an update and an application
in flight at once. One post is enough: no operation reads or writes two. Two
days let a deadline pass while a request is in flight; deadlines do not matter
to the properties of the other run, which has one day. In `Failover` two
callers suffice to overlap, since more than one never probe (proved for any
number). The executor is cut from four threads to two and the backlog to one,
so that it does fill. In
`OracleSync` two lines are the least in which a name can move; one reloaded
row is enough for a stale reference or a blank; four states of MySQL put
changes between the check, the snapshot, the reload and the commit. Its bound
on versions ends `Write`, so its deadlock check is off. In `AuthSession`
three requests are two exchanges and what revokes both; four tokens let a
session rotate twice beside another, serial and not.
`MaxTokens` bounds the rows; a request that would add one more stays in flight
or fails.

In `BrowserSession` two tabs are the least that share a token, three tokens
let a tab renew what another has renewed, one late call is the refresh that
answers after a logout and a login. In `PlanEditor` two calls are a save and
what the user starts meanwhile; one edit can fall before, during or after a save or the
task that writes the times (of a second edit the properties ask the same, and
their theorems hold for any number); two minutes let the schedule change times it
has written; three rows are those of a plan with an item added; the index whose made-up hour passes midnight is cut from 13 to
1 so that three items reach it. In `RouteSchedule` a day of six minutes and
legs of up to three put trains on both sides of midnight and beyond the limit;
five stations on three lists, two of them one real line and one with a loop,
make shared lines, changes at stations not chosen, gaps and ways of equal
length. In `RouteBoard` five changes are more than the three calculations that
can be under way at once; two failures let both maps fail or a map and a row. In
`Discover` two events are a change while an answer is on its way, and another
before the first is overtaken; the link needs none, and names a station that is
neither the one the page starts with nor on its list. Two requests of a kind are
the least of which one overtakes the other: a third waits for its timer
(`MaxCalls`). In `SignUp` two pages are the
least that ask for codes for one address, two codes the least of which one is
the latest; two attempts can overlap and be counted once; two turns bring both
pages to the sign-up, or one there and back or away.

### Fairness

`FailoverFairSpec` assumes weak fairness of
time, of the callers' steps (requests keep coming: nothing else triggers a
health check, since the platform's own probes call `/health`, which does not
touch the database), of requests giving their connections back, and of the
executor. `FinishAbandoned` is weakly fair because the operating system breaks
a dead connection in the end, after minutes. MySQL owes nothing: it may fail
and return at will, and the properties assume a lasting state only in their
antecedent. A free executor thread takes the next probe, and a live server
answers one, within a second.

`OracleSync.FairSpec` assumes weak fairness of the scheduled job: the interval
trigger (`scheduler.py:77-85`) starts it again after every end, and a run that
is not cut off goes on. Failures are finitely many, MySQL may change as often
as the bound on versions lets it, and the properties speak of a MySQL that has
come to rest.

`PlanEditor.FairSpec` assumes weak fairness of the two effects, of the task one of
them sets, and of the
backend with its answers: React runs an effect whose inputs changed, and a
request is answered or fails. Failures are finitely many; the user owes
nothing. `BoardSpec` of `RouteBoard` and `Spec` of `Discover` assume the same of effects,
timers and answers. `BrowserSession` states no liveness: that a session is
renewed in time rests on timers the browser may delay as it likes. `SignUp`
states none either: a page that asks for a new password does wait for ever
after a `fetch` that rejects (section 5).

## 4. Proofs

All theorems hold for every value of the constants that satisfies the modules'
named assumptions.

- `TypeCorrect`, `RowsAreConsistent`. The two halves of `RowsConsistent`
  are not inductive: a decision in flight must be for an applicant, and
  nothing can be in flight for a post that was never created. `RequestShape`
  adds this.
- `SerialOrganizerWithinCapacity`, `SerialOrganizerFillingCloses`,
  `SerialOrganizerDecisionStands`, `SerialOrganizerCountsStayGood`,
  `ImplementsSeats`. The strengthening is
  `CountsStayGood`: what the author's one request in flight counted stays good
  until it commits, since every other request can only free seats. It is also
  an invariant of the TLC run.
- `FailoverTypeCorrect` needs `WorkersSuffice`, as a timed-out probe stays in
  its thread. `OneProbeAtATime` needs only `Timeout < Cache`: the invariant
  says that whoever waits has waited exactly since the period was claimed.
  `NoFlapping` adds `StreakInv`: a counter at n means n - 1 whole periods and
  the current one lie behind the run.

- `SyncTypeCorrect`, `NeverRecordsAhead`, `TimetablesKeepTheirLines` and
  `ImplementsFallback` share `CopyInv`. The refinement alone is not inductive:
  `TransactionInv` says that the transaction holds one state's tables as far
  as it got, and that timetables keep their lines through the upsert (its last
  conjunct is where RESTRICT is used); `copied <= job.snap` is why the copy
  never goes back. The log of views is mapped by `ViewsAppend`.

- `AuthTypeCorrect`, `RevocationIsFinal`, `WithdrawalLeavesNoToken` and
  `RotationKeepsChain` share `SessionInv`. `IdleSessionsEnd` is not
  inductive: an exchange in flight must not belong to an ended session
  (`EndedInv`), since its commit asks nothing.
  For the chain the token in flight must be the only one of its session that
  can be exchanged (`ChainInv`), which is where `SerialSessions` is used.

- `BrowserSessionProofs`: `TypeCorrect`, `EndedSessionsStayEnded`,
  `StoredTokenKeepsPace` and `RenewalsEndNothing`. That a tab stays logged out
  needs to know that nothing on its way can authenticate it and that its timer
  is off (`EndedQuiet`). The stored token needs the whole protocol of a call
  (`InStep`): while calls neither fail nor overlap there is at most one, and
  at each of its stages the stored token, the one it brings and the backend's
  are related in one way.

- `PlanEditorProofs`: `SavedMeansSaved`. That a plan shown as saved is what the
  backend holds (`ShownHolds`) is not inductive: a plan that no two calls ever
  crossed has at most one writer (`OneWriter`), an answer on its way to the page
  is what the backend holds (`AnswersHold`), and a plan that arrives is neither
  shown nor written by anybody else (`ArrivesNew`).
  `PlansTyped` is about what happens to items: a station of a plan is a station
  (`GoodItem`), which the translation needs to give each place one
  (`AccessIsStation`); the rows of a stored plan are distinct counts below what
  was added (`StoredItems`); and the room for plans counts the creations that are
  still to be served (`RoomKept`).
  `EditsKept` adds `TagsHold` to both: not the plan shown alone, but every save in
  flight has the items of the last edit unless it raced one (`SavesWanted`); and a
  recruitment's plan, which has the one id that two plans could share, comes once
  and before anything with that id could be saved (`PublicFirst`).
  The plan that waits to be written is typed (`TaskTyped`), was shown before and so
  is none that arrives (`TaskHolds`), and, as an edit clears its task, has the items
  of the last edit (`TaskWanted`).
- `MapPageProofs`, of `RouteBoard`: `SettledSchedulesFit`. Once the effect has run, the one
  calculation that is active is for what is shown (`CurrentFits`), and a
  schedule that does not fit will be replaced by it (`Replaced`); before the
  clock is first read there is neither (`ClockFirst`). `BoardTypesHold`:
  `BoardTypeOK` is inductive, given that the stations of a route form a sequence (`Of`).
- `MapPageProofs`, of `Discover`: `SearchAnswersFit`. If an effect has not been set
  again, the last request of its operation was for what the page shows; once
  that or a later one is answered, and no late answer has come since, so is what
  is shown (`Tracks`). For this a queue of requests has to be in order: what was
  sent before a request that is over is overtaken (`Ordered`), and if the last of
  the queue is, the answer to a later one has come (`Late`). A list that is
  shown holds nothing but what its own criteria find (`ListFits`), whichever of
  its categories were refused. The way on foot needs no queue (`RouteFits`).
  `SearchTypes` is of the same invariant: a timer runs only for an effect that did
  not return early, so no list is asked for without a station.
- `RouteScheduleProofs`: `RouteCanBeTravelled`. The invariant (`ScheduleInv`)
  says of the hops done so far what the property says of the route: the legs
  join its stations and the stops end where they do (`Way`), the times lie
  between the minute asked and `earliest` (`Times`), the trains are caught
  (`Caught`), and chosen stations, turns and badges are where the board needs
  them (`Chosen`, `TurnsShown`, `Badges`). A hop adds to each (`HopKeeps`),
  whether it is a train, two, or a path; for the path the search has to be a
  tree (`Tree`: every place was come to from an earlier one, none twice), so
  that going back along it ends at the start in time (`FoundPath`).
  `WaysAreShortest` needs that the search is breadth first (`Breadth`): the
  places it has come to are in the order of their distance (`NearFirst`), every
  way from a place it has looked at leads to a place (`AllTaken`), and the edge
  by which it came to one leads one way further (`Further`). No station is a
  place twice, so the passes of `Search` are enough (`SearchIsOver`); a path
  climbs one distance at each edge (`PathClimbs`); and what the ways do not
  lead out of holds all that is within reach (`ClosedReach`), for the case
  that no way is found. `TrainsArriveFirst` is a greedy argument: among the
  trains of a line the first to leave is the first to arrive if none overtakes
  another (`NextIsFirst`), and who changes earlier may take every train of who
  changes later (`DirectLater`), so a pair whose first train arrives first
  loses nothing (`ViaIsFirst`).
- `SignUpProofs`: `SignUpTypes` and `ReadyPagesCanConfirm`. A page hears of one call
  at most, for which it is pending (`OneHeard`); unless its mode was changed under a
  call, the steps before the one it is at are filled, and before the one an answer
  will take it to (`StepBacked`); at the last step, a code was mailed to its address
  (`CodeSent`). A code that is not committed is its request's alone, and one that is
  compared has been (`RowsHeld`); one that is open beside a later one is crossed
  (`OpenCrossed`); no code later than the last one mailed has been mailed, unless
  they crossed (`LastMailed`). So the code the backend compares, the latest pending,
  is the one the page waits for. `Room` counts the rows that requests have still to
  add, which keeps the sequence of codes within its bound.

Some of these arguments need that a set of numbers has a least element, where the
models say "the first station" or "the latest row" (`LeastOf`). It comes from the
well-foundedness of strict inclusion on finite sets, so no induction theorem with
an operator parameter is needed. In `RouteScheduleProofs` it also replaces
induction over data: what holds of 0 and from each number to the next is a set of
numbers without a least exception (`IntervalInduction`), and by that a loop of
any length has its function (`LoopRuns`), about which the lemmas of the search
then speak.

Only model-checked:

- liveness (`OutageDetected`, `Recovers`, `CatchesUp`, `SavedAgainAndAgain`,
  `LoadingEnds`, `LinkIsFollowed`), which the prover does not reach, and the
  violation. Every other property of the runs is a theorem.

## 5. What the modelling found

One run expects a violation, a disagreement between the code and its documents
that is quoted in `PROJECT.json` under `findings`: `recruitment_two_decisions`
(two acceptances overbook, `db/README.md:181`). It is not repaired in the
models: they keep the code's behaviour, and so they do for the following, which the
properties of the passing runs make room for by their conditions.

Backend:

- an application that is canceled while it is being accepted ends up accepted
  (`community.py:493`);
- a capacity lowered to the number of accepted participants leaves the post
  `RECRUITING` (`community.py:325`, against `db/README.md:183`);
- four hung probes fill the executor, and the fifth health check times out
  without having been started (`db_failover.py:37`, against
  `docs/DB-FAILOVER.md:197`); requests that hold the whole pool make probes
  fail, and the service leaves a healthy MySQL (`db_failover.py:43`,
  against `docs/DB-FAILOVER.md:58-61`);
- a line name that moves to another id, or a deleted line with timetables in
  Oracle, makes every later sync fail (`sync_to_oracle.py:171`, against
  `docs/DB-FAILOVER.md:85`);
- a refresh in flight during a logout or a new password gives its session a
  new token (`auth.py:307`, against `routers/auth.py:109`).

Browser session:

- a refresh or a login answered after a logout logs the page in again; a
  logout waits for its call and clears nothing if `fetch` rejects, where
  `BACKEND-HANDOFF.md:337-339` has the token removed at once;
- any refresh answer that is not ok, a 503 included, removes the stored
  token (`legacyApiAdapter.ts:161`, against `BACKEND-HANDOFF.md:334`);
- of two tabs that exchange the same token, the one refused removes the other's
  new token; a restore that fails after a login was made clears the login;
  the token stays stored although `/users/me` failed and the page is anonymous.

Plan editor:

- a save's answer replaces the plan: what the user edited meanwhile is lost,
  and counts as saved (`page.tsx:546-548`);
- a `fetch` that rejects leaves `pending` set: the message of
  `page.tsx:96` never shows and autosave stops;
- the plan with the schedule's times is written a task after it was made, over an
  answer that came between: the ids of rows just stored are lost again, or a plan
  just deleted comes back until its save is refused (`page.tsx:531-535`);
- a place without a time at index 14 or later gets an hour of 24 or more, which
  the backend refuses at every save.

Timetables:

- the next train is the one that leaves first, not the one that arrives first,
  although the comment (`transitTimetable.ts:371-374`) speaks of the shortest
  total time, hence the condition `NoneOvertaken`; two stations on one line
  whose timetable is empty are not tried with a change;
- hops without times do not advance the clock, and the first stop shows the
  departure of the first timed leg even if that leaves elsewhere; the badge of
  a route without times need not be the line taken
  (`SubwayRouteBoard.tsx:179` and `186`).

Route board:

- `transitTimetable.ts` keeps a promise that was rejected, and a map from which a
  list is missing stays as it is: until the page is loaded again;
- "loading" lasts for ever if the page knows fewer than two of the route's
  stations; a calculation that ends before the clean-up may leave the times of
  a route that is gone.

Map page:

- nothing withdraws a request: the list of places, the suggestions and the
  departures may be those of what was selected before (`astray`); so the place
  a link names is replaced by the first of the list for the default categories
  if that list arrives last (`page.tsx:362`, against `docs/WORKLOG.md:6`);
- a rejected call for departures leaves the previous station's under the new
  name, and one for places leaves the page "loading"; a category that fails is
  missing without a message;
- a place of the kind `ETC` (`db/seed/seed_05_places.sql:52`) is mapped to a
  category the page asks for under another name: its link is never reached,
  and the effect forces station and category back after each choice
  (`page.tsx:435-444`);
- selecting the selected place again sets the route to none and runs no effect:
  "도보 경로 계산 중…" stays.

Sign-up and codes:

- the mode can be changed while a step's request is under way: its answer moves
  the wizard on with an empty draft (`login/page.tsx:93-94`);
- the two handlers for a new password have no `finally`: a `fetch` that rejects
  leaves the page pending (`login/page.tsx:143`, `155`);
- of two requests for a code that overlap the later mail may carry the older
  row, which is not the one compared; a mail may carry a code whose row was
  never committed (`services/auth.py:83`);
- attempts that overlap are counted once (`repositories/auth.py:108`); the
  latest code used, an older one counts again (`repositories/auth.py:96`);
- the code is used before the account is made: if `register` then refuses, the
  user has to ask for another; if only the login after it fails, the page
  reports an error for an account that exists (`legacyApiAdapter.ts:151-152`).

## 6. Plan

Done, in this order: `Recruitment` with `SeatBoard`, `Failover`, `OracleSync`
with `Replica`, `AuthSession` and their proofs; `BrowserSession` and its
proofs; `PlanEditor`; `LineMap` with `RouteSchedule`; `RouteBoard`;
`Discover`; the proofs of `PlanEditor` and `RouteBoard`; `SignUp` and its proofs; the
proofs of `Discover`; the proofs of `RouteSchedule`, with the recursion of
`LineMap` written as functions.

Left, most important first:

1. a second editor of one plan and the share links (`plans.py:213`), composed
   with `PlanEditor`;
2. `OracleSync` with a second job beside the first, and its composition with
   `Failover`: a request on the fallback that reads twice around a commit;
3. `Recruitment` with `SerialOrganizer` as a set of authors, as
   `SerialSessions` is, so that one run covers both;
4. `Reviews`: tags, media files against rows, view counters.

## 7. Reading the proofs

Each component's proofs are in a module of their own, those of the map page's two
parts in one, and those of the database's two. A lemma per idea comes
first, then the preservation of the inductive invariant with one step per
action, then the theorem. `SeatInv`, `RowInv`, `StreakInv`, `ProbeInv`,
`CopyInv`, `SessionInv`, `EndedQuiet`, `InStep`, `BoardInv` and `IInv` of `MapPageProofs`,
`Inv`, `Typed` and `TagsHold` of `PlanEditorProofs`, `IInv` of `SignUpProofs`,
`ScheduleInv` and, of the search, `Tree` and `Breadth` are the invariants to read.

## 8. Not modelled

- Texts, paging, sorting and formatting of answers; authorisation checks that
  depend on nothing but the token.
- Of the frontend: the pages for reviews, recruitments, notices and the
  account, which show what they load and send forms; favorites and the detail
  of a place; drawing. Of the adapter: what these pages use. Of the session:
  `updateProfile`.
- Deployment, schema files, seed data and generated types: no behaviour of
  their own. The schema's keys appear where a commit meets them.
- `planMetadata` in localStorage, and the title of a plan: the save carries
  them, nothing depends on them.
- Hazards known and left: the view counts, read and written back
  (`community.py:284`, `reviews.py:237`); a verdict that is stale within the
  cache period (`db_failover.py:58`); a manual sync beside a scheduled one
  (`scheduler.py:83`) and fallback reads around a commit
  (`database_oracle.py:44`); a login with the old password
  (`services/auth.py:282`); a file stored before its
  review (`reviews.py:336`); two editors of a plan (`plans.py:213`).
- Components that no module covers are listed in `PROJECT.json` as
  `not_modelled`, with the reason.
