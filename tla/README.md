# Courtside backend: models and proofs

TLA+ models of the Courtside backend (the FastAPI application under
`src/courtside`, its seed script, its Alembic revisions and its deploy
workflow), TLC configurations that check them on small instances, and TLAPS
proofs of what matters most for every instance.

## 1. The system

| Component | State it keeps | Operations | Interacts with |
|---|---|---|---|
| Chat agent loop (`anthropic_client.py`) | conversation, `first`, `emitted_text`, the round's tool results | one model call per round, at most `MAX_TOOL_ROUNDS` with tools and one without; canned text without an API key | the model API (streams), the tool runner (awaits), the trace |
| Chat route, tool runner (`routes/chat.py`, `services/chat_tools.py`) | the SSE stream | authenticate, build the context, stream, run a tool in a worker thread, roll back, apologise, `[DONE]` | the session, shared by the request's dependencies, its tools and threads |
| Turn trace (`observability.py`) | counters, open spans | generation and tool spans, one summary line, export at the end | Langfuse, in a thread |
| Session (`db/session.py`) | one transaction per request | begin on first use, commit, roll back, close | everything that queries |
| Archetype (`routes/archetype.py`, `services/archetype.py`) | one row per player and season | count, look up, compute from the whole team, explain with the model, insert, refresh | the database, the model API |
| Seed script (`scripts/seed.py`) | none | wipe in one transaction, load in the next | the database, under the feet of live requests |
| Migrations (`alembic/versions`) | schema revision | five revisions up and down, each run in one transaction | the code of several releases, loaders |
| Deploy pipeline (`deploy.yml`) | the run, one pending run, the recorded images | gate, record, build, migrate, update two functions, wait, probe, roll back | GitHub's queue, Lambda, ECS, the database |
| Authentication, onboarding, feedback (`auth/`, `routes/auth.py`, `routes/me.py`, `chat_feedback`) | signed tokens the clients hold, a player's row | login, access and feedback tokens, profile, rating | every route, Langfuse |
| Games, seasons (`services/games.py`, `routes/games.py`) | stat lines, read only | lists with pages, the last game, one game | the database |
| Chat tools (`services/chat_tools.py`) | none | list and summarise seasons, find games, one game, split averages | the database, through ids the model passes back |
| Statistics (`services/stats.py`, the rules in `services/archetype.py`) | none | averages, personal bests, ranks, labels, the choice of an archetype | lines, the order the database returns |
| Scraper (`scripts/scrape_stats.py`) | one CSV file | fetch the pages of the matches, take the team's rows, write | the league's site, the seed script |
| Error handlers, origin check, health | none | 503 with `Retry-After` while Aurora resumes, 403, readiness | every route, CloudFront, the pipeline |

Behaviour that is hard to get right and hard to test:

- *Interleaving.* A tool runs in a thread while the event loop may cancel the
  turn; two first requests for an archetype race through a chain of statements
  and a model call; the seed script wipes the database between two statements
  of a request, and waits for its locks as it waits for the script's; Lambda
  updates a function while the pipeline goes on.
- *Failure half way.* After the 200 is sent an error can no longer change the
  status; a failed query aborts the session's transaction; a migration task
  outlives the run that started it; a rollback fails after its first command.
- *Ordering.* The SSE events, the export after `[DONE]`, migrate before update,
  wait before probe.
- *Staleness.* The stored archetype, ids read before a wipe, tokens that
  outlive their player or their holder, pages and tool results of which the
  next is computed after a load, an image that still serves while its successor
  is being probed.
- *Data from outside.* A file written from pages that may be missing, by a
  script that may die, is all there is of a season.
- *Versions.* Two releases of the code over one schema, and rows written by one
  and read by the other.

What makes each component correct is stated as the properties in section 3;
`PROJECT.json` lists the hazards at their lines and the properties that cover
them.

## 2. Modules

| Module | Models | Kind |
|---|---|---|
| `ChatStream` | what the browser may rely on in the event stream of a turn | abstract specification |
| `ChatTurn` | one `POST /api/chat`: loop, route, tool thread, trace, session, client | detailed; refines `ChatStream` |
| `ArchetypeCache` | `GET /api/me/archetype` from several clients, games being loaded, the seed script | detailed |
| `Migrations` | the schema and the stat lines through the revisions, up and down | data and operators |
| `TeamStats` | averages, percentages, season highs, standings, labels, archetypes and receipts over a season's lines | pure operators over growing data |
| `GamePages` | the list of games read page by page, the last game, one game | detailed |
| `ChatTools` | the five tools of the chat model over the lines of `GamePages` | detailed, composition |
| `SeasonImport` | the site's pages, the scraper's file, the seed script's wipe and load | data and operators, three actions |
| `Accounts` | login, tokens, onboarding, feedback and the resuming database, over the database of `SeasonImport` | detailed, composition |
| `Deploy` | the workflow; instantiates `Migrations` as its database | detailed, composition |
| `MC*` | constants, symmetry | for TLC |
| `ChatTurnProofs` | theorems about `ChatTurn`, and that it implements `ChatStream` | proofs |
| `ArchetypeCacheProofs`, `MigrationsProofs`, `AccountsProofs`, `ChatToolsProofs` (with `GamePages`), `TeamStatsProofs` | theorems about the module they are named after | proofs |
| `DeployProofs` | theorems about `Deploy`; instantiates `MigrationsProofs` for what its database does | proofs |
| `Sums` | lemmas about sums over finite sets and functions, for `AccountsProofs`, `ChatToolsProofs` and `TeamStatsProofs` | lemmas |

### ChatTurn

`pc` is where the event-loop task is; steps are cut at the `await`s and
`yield`s, since between two of them the task is not interrupted. `thread` is
the worker of `asyncio.to_thread`, `connected` the client, `flush` the thread
of the export. `txn` is the transaction of the SQLAlchemy session: `none`,
`open`, or `aborted` after a failed statement, when PostgreSQL refuses every
further one until a rollback. The model API is external and may stream any
number of chunks, ask for any number of tools, stop or fail at any point; it
honours `tool_choice: none`. A tool ends in a result, a refusal
(`ToolInputError`, unknown tool, bad arguments) or an exception.

Starlette cancels the generator when the client is gone. `CancelledError` and
`GeneratorExit` are not `Exception`s, so neither the tool runner nor the route
catches them: `Cancel` runs only the `finally` blocks. A thread cannot be
cancelled: it runs on over a session that `get_db` is closing, and closing may
then keep the transaction (`CloseSession`).

An event in `out` carries the round it belongs to. Text is a chunk without
content; the separator is an event kind of its own although it is sent as text.

### ChatStream

The same stream as a contract over `out` alone: feedback first and once, a
separator only between the texts of two rounds, a status after its round's text
and at most one per round, at most one apology, `[DONE]` last and once; the
client may hang up anywhere. `ChatTurn` implements it with `over` mapped to the
positions of `pc` after the last event.

### ArchetypeCache

One action per statement of the handler. A player's lines are their number;
what is computed is abstracted to its *basis*, the number of lines seen of each
teammate, and its author. Ids are valid in the epoch (between two wipes) they
were read in: in a later one every statement finds nothing and an INSERT breaks
a foreign key. The INSERT and the wipe are cut at their row locks. `InsertRow`
waits while another transaction may still store, or has deleted and may still
give back, the row with its key; `CheckParent` is one foreign-key check, in the
order of the columns (team, player, season), and keeps its KEY SHARE lock until
`CommitRow`. The wipe's DELETEs (`SeedDeleteRows`, `SeedDeleteSeasons`,
`SeedDeletePlayer`, `SeedDeleteTeams`) lock in another order, and wait for those
locks as the checks wait for theirs. So a request may hold the team and the
player and wait for the season while the wipe, which has the season, waits for
the player (`SeedWaitsFor`): `Deadlock` is PostgreSQL aborting either side. The
tables between, whose rows no INSERT of an archetype locks, have no step of
their own.

### TeamStats

`lines` grows by a player's line at a time (`LogGame`). Everything else is an
operator over `lines`, translated from the function of the same purpose: `Pct`
from `derived_stats`, `Average` from `season_averages`, `Bests` from
`personal_bests`, the standings from the two places that sort the team, and
`ComputeArchetype` with `Scores`, `Percentiles` and `Receipt` from
`services/archetype.py`, with its table of weights. A line has all counting
stats, drawn from a few box scores. The order in which the database returns
players is a parameter, one for each page since each has a query of its own, and
the properties quantify over all of them, because Python's sort keeps it between
equals. The two copies of `_percentile_for_rank` are two operators
(`RankPercentile`, `GoodnessPercentile`). Averages and percentiles are fractions,
compared by cross-multiplication. Floats of unequal fractions of this size are
ordered alike, and equal counts make equal floats; but true shooting rounds
`0.44 * ft_attempted` before it divides, so that players whose true shooting is
the same fraction may have different floats. `Roundings` is every way this may
order them, and a standing (`Standings`) is the exact one with any of these: the
properties hold for each, and *equal* in them means equal floats. Equal scores of
two archetypes, sums of rounded products, may be chosen between either way
(`ComputeArchetype`). Weights are in tenths.

### GamePages and ChatTools

In `GamePages` an app client asks for its list, page by page until the total is
reached, for its last game, or for one game. A page without a season takes two
statements (`ResolveSeason`, `ReadPage`), and loads, also of older games, and
changes of the current season fall between any two steps. `Results` is every
order the database may return: by date, open within a day and on every page
anew. The frontend, the
loader and whoever closes seasons are external.

`ChatTools` adds a conversation of a player's chat over the same lines: the
model calls a tool, with ids and seasons earlier results gave it, the tool reads
statement by statement (`Step`; each statement sees what is committed, so loads
come in between), and `Return` gives the result to the conversation. `Follow`
is the model's choice of a next call from what it was told. What the tools
return is kept as ids, totals, groups and counts; the wording is left out.

### SeasonImport and Accounts

`Sites` is what the league's site publishes: matches with their tables, of both
teams, with or without a row of totals. A match says which side the team played
on (`side`) and, apart from that, how its title spells the two: the scripts
know the team by a fragment of its name, and a title may misspell it. `Files`
is every file one run of `scrape_stats.py` may leave of it: pages that failed
are missing, and a death while writing cuts the file after or within a row.
Since only the seed script reads the file, and reads it whole, it is chosen
where it is loaded. `SeedWipe` and `SeedLoad` are the two transactions;
`SeedExits` is any failure of the second, including the guard for users without
a player. A player's id is the run that made it and the name, because `uuid4`
never repeats.

In `Accounts` clients are devices, cut at the statements of their requests:
`FindUser`, `FindPlayer` for login; `GetCurrentPlayer` and, for onboarding,
`OnboardCommit` and `OnboardRefresh`. An UPDATE names only columns that differ
from what the session had read (`Changed`), as SQLAlchemy does. `Resuming` is
what any first statement meets while Aurora is paused: it wakes the database
and is answered 503, and `Retry` sends the request again. A device keeps its
access token and the feedback token of its last chat through logins of others,
and takes either for the other by mistake. `calm`, `old` and `alone` in a
client's record are history, written for the properties and read by no step.

### Migrations

A database is the revision, its shape and the lines. The shape keeps what tells
the revisions apart. Index names, constraint names and the tables no revision
changes are left out. `Works(r, shape)` is what the code of release `r` needs,
`r` being the commit that added revision `r`: for 4 and 5 it is read off
`db/models.py`; the earlier releases are not in the repository and are known
from what the revisions do on their behalf. `Load` is a loader of any release
that works at the moment, `get_or_create_game` from release 4 on. Up to release 3
nothing keeps a loader from storing two lines of one player in a game; the unique
key of revision 4 refuses them, when it is created and afterwards. No code in
the repository writes coach notes; lines are loaded with or without one because
two revisions move them. `Shown` is by which columns a release joins a line to its
game.

### Deploy

A run goes through the steps of the workflow; until the first update a failure
just ends it, afterwards it leads to the rollback. `fn` has what a function
serves, what it was last told to serve, and whether the update has settled:
`update-function-code` returns before that and is refused until then. `tasks`
are migration tasks not yet stopped; cancelling a run does not stop its task.
`pending` is the one run GitHub lets wait in the concurrency group. An image is
its release and the functions it is unfit for. An operator may cancel at any
moment, and takes the schema back only between runs and not below the live
code.

## 3. Runs

| Run | Checks | Shows |
|---|---|---|
| `chat_turn` | `TypeOK`, `ConvoWellFormed`, `FreshTransaction`, `Answered`, `TraceHonest`, `TransactionReleased`, `StreamContract`, `TurnEnds` | the conversation stays acceptable to the API, a failed query does not poison the next tool, a turn ends with an answer within its rounds, the summary agrees with what the model was told, the export follows `[DONE]`, transactions are released except in the one case the code cannot avoid, the stream refines the contract, every turn ends |
| `chat_turn_log` | `SummaryAlwaysLogged` (violated) | a client who leaves takes the "always logged" summary with it |
| `archetype_cache` | `TypeOK`, `AnswersAgree`, `BasisSound`, `NoOrphans`, `ConflictHasWinner` | racing requests agree on one archetype, computed from committed lines no older than the request, and no row survives its player |
| `archetype_cache_live` | `EveryoneEnds` | no request and no wipe waits for ever, although they lock the same rows in opposite orders |
| `archetype_cache_fresh` | `GameRegenerates` (violated) | a stored archetype is never regenerated |
| `migrations` | `TypeOK`, `NothingLost`, `OwnLinesShown`, `ShapesFit` | no sequence of upgrades, downgrades and loads by mixed releases loses a line's facts or its note, breaks a constraint, or hides a line from the kind of release that loaded it |
| `team_stats` | `TypeOK`, `StandingsFair`, `ArchetypeJust`, `PctBetweenGames`, `BestsStand` | ties never lose or repeat a place, the order of the database decides between equal floats only, the two computations of a standing agree on the same lines up to the order of equals, who is worse in nothing an archetype counts scores no lower in it, a receipt names what made the score, labels mean what they say up to ten ranked players, a game takes a season high away only by beating it |
| `player_games` | `ChatTypeOK`, `NobodyElses`, `ListHonest`, `SearchHonest`, `SplitsPartition`, `ToolsAgree` | loads between two pages never skip a game that is alone on its day, and without them the pages have as many games of each day as there are, newest first; the chat's tools show one player's games only, find again what they named, cut a search only after sorting, and split, count and mark highs consistently although lines are logged between their statements |
| `accounts` | `TypeOK`, `SeasonHonest`, `OwnPlayer`, `LoginHeals`, `ServerErrorsAreReal`, `OnboardKept` | what is loaded is true of the site's matches, only the last game loaded may lack players, and a seed that fails leaves nothing; an answer is about whom the device last logged in as, whatever it sends; ratings stay with their player; tokens of wiped players lead to the login, and the login works again; a paused database never becomes a 500; onboarding keeps what was sent |
| `deploy` | `TypeOK`, `SuccessServes`, `RolledBackTogether`, `ServesOneBehind`, `RunsEnd` | a green run means both functions serve its image; a rollback that reports success restored both; code one release behind the schema keeps working throughout; runs end |
| `deploy_restore` | `RollbackRestores` (violated) | a rollback started while the first function is still updating is refused and leaves the functions apart |
| `deploy_skip` | `RollbackRecovers` (violated) | two halves of a destructive change pushed in quick succession are deployed as one, and the rollback is not a recovery |

Some of these are conjunctions of parts that are named, stated and commented one
by one in the module:

| Property | Parts |
|---|---|
| `TraceHonest` | `LogTruthful`, `ExportOrdered` |
| `BasisSound` | `RowsGrounded`, `OwnAnswerRecent` |
| `NothingLost` | `NoFactsLost`, `ColumnsHold` |
| `ShapesFit` | `DowngradeRestores`, `OneBehindWorks` |
| `StandingsFair` | `RanksFair`, `StandingsAgree`, `LabelsHonest` |
| `ArchetypeJust` | `ScoresFollowPlay`, `ReceiptExplains`, `OrderBreaksTiesOnly` |
| `ListHonest` | `OneSeasonList`, `NothingSkipped`, `PagesMakeList`, `NewestFirst` |
| `NobodyElses` | `OwnGames`, `ToolsScoped` |
| `ToolsAgree` | `IdsResolve`, `CountsAgree`, `HighsHold` |
| `SeasonHonest` | `SeasonTrue`, `OnlyLastCut`, `AllOrNothing` |
| `OwnPlayer` | `ActsOnHolder`, `FeedbackBinds` |
| `LoginHeals` | `OldTokens401`, `LoginWorks` |

Every property of a passing run has a mutant in `PROJECT.json`: a plausible bug
in one definition that makes that property fail.

### Bounds, and why they are enough

- `MaxToolRounds = 2`, `MaxParallel = 2`, `MaxChunks = 2`: two rounds with tools
  and the one without show a first, a middle and a last round; two tools show
  one failing before and after another; two chunks tell the first text of a
  round from the next. The code's bound is 5 rounds; the proofs cover every one.
- `ArchetypeCache`: two players and two requests race for one row or for two;
  `MinGames = MaxGames = 2` lets a player be below and at the threshold with a
  load in between; one seed run makes two epochs. The liveness run is smaller.
- `TeamStats`: three players give a first, a middle and a last place, with and
  without ties; `MaxLines = 4` gives a player two games beside both teammates'
  one; the box scores are chosen so that every archetype's stats differ and
  every percentage is met with and without attempts, and free throws that make
  true shooting round are among them. Labels depend only on the
  rank and the number of players, so they are checked for every team of up to
  `MaxTeam = 10`, the largest for which they hold: from eleven ranked players on
  the fourth is called "top 3".
- `GamePages`, `ChatTools`: four lines, two of them of one day, pages of one and
  two, two players and two seasons: lists of several pages that gain a line
  before or after the page just read, searches with ties, groups of one and
  two. Date, points and venue go with a line's id; lines are logged in any
  order. The environment rests once an answer is complete.
- `SeasonImport`, `Accounts`: two users on two devices with four requests in
  all: enough for a device that changes hands with a chat in between, for two
  onboardings of one player, and for a token that meets a wipe. Two seeds make
  two epochs, one day lets a token expire. One site has a draw at home and a win
  away, spells a player in two ways and, in a third match, the team wrongly; the
  other has what makes a load fail.
- `Migrations`: two games and two players with two versions of the facts, so
  that lines of one game agree or disagree and games do not mix; of one game one
  player may have two lines.
- `Deploy`: releases 3 to 5, which are the ones that split a table, and two
  pushes, so that one replaces the other in the queue or follows its failure;
  one stat line, enough to block revision 5.

`CHECK_DEADLOCK FALSE` is used where the system may really stop: when all
requests are answered or nobody pushes any more.

### Fairness

`ChatTurn!FairSpec` is weak fairness of the server's steps: the event loop runs
on, and the SDK's and the driver's timeouts turn a call that never answers into
a failure. The client owes nothing. In `ArchetypeCache!FairSpec` each handler
is strongly fair: it waits for locks, which PostgreSQL gives in the order of
their queue, so that it gets one although later runs of the script take it
again and again. The seed script, once it has begun, is weakly fair: it runs
on, or dies. So is `Deadlock`: a cycle of waits is found after
`deadlock_timeout`. Who begins a run of the script, and when, is left open.
`Deploy!FairSpec` is weak fairness of the runner's steps only: neither Lambda
nor ECS is assumed to finish, because every wait of the workflow gives up after
a number of attempts.

## 4. Proofs

TLC checks the instances of section 3; TLAPS proves the following for every
value of the constants that satisfies the assumptions of the modules: every
invariant and every action property of the passing runs, and the refinement. Each
module but `TeamStatsProofs`, whose invariant is its `TypeOK`, has a theorem
`Invariance`: an inductive invariant, `Init => Inv` and
`Inv /\ [Next]_vars => Inv'`, with one lemma per action or per part. The other
theorems follow from it. Every invariant was checked with TLC before it was
proved.

| Module | Theorem | Property of a run |
|---|---|---|
| `ChatTurnProofs` | `TypeCorrect`, `ConvoCorrect`, `TransactionFresh`, `TurnAnswered` | `TypeOK`, `ConvoWellFormed`, `FreshTransaction`, `Answered` |
| | `TraceTruthful`, `SessionReleased`, `StreamImplemented` | `TraceHonest`, `TransactionReleased`, `StreamContract` |
| `ArchetypeCacheProofs` | `TypeCorrect`, `OneAnswer`, `SoundBasis`, `OrphanFree`, `WinnerStored` | `TypeOK`, `AnswersAgree`, `BasisSound`, `NoOrphans`, `ConflictHasWinner` |
| `MigrationsProofs` | `TypeCorrect`, `NothingIsLost`, `LinesStayShown`, `ShapesAlwaysFit` | `TypeOK`, `NothingLost`, `OwnLinesShown`, `ShapesFit` |
| `DeployProofs` | `TypeCorrect`, `SuccessIsServed`, `RollbackIsWhole`, `PreviousReleaseWorks` | `TypeOK`, `SuccessServes`, `RolledBackTogether`, `ServesOneBehind` |
| `AccountsProofs` | `TypeCorrect`, `NobodyActsForOthers`, `LoginAlwaysHeals`, `ServerErrorsAreWipes`, `OnboardingKept`, `SeasonsAreHonest` | `TypeOK`, `OwnPlayer`, `LoginHeals`, `ServerErrorsAreReal`, `OnboardKept`, `SeasonHonest` |
| `ChatToolsProofs` | `TypeCorrect`, `NothingOfOthers`, `ListsAreHonest`, `ToolsConfirm`, `SearchesAreHonest`, `SplitsAddUp` | `ChatTypeOK`, `NobodyElses`, `ListHonest`, `ToolsAgree`, `SearchHonest`, `SplitsPartition` |
| `TeamStatsProofs` | `TypeCorrect`, `SeasonsBetweenGames`, `StandingsAreFair`, `ArchetypesJust`, `HighsBeaten` | `TypeOK`, `PctBetweenGames`, `StandingsFair`, `ArchetypeJust`, `BestsStand` (an action property) |

### The inductive invariants, and why they are needed

- *ChatTurn.* None of the properties is inductive, so `Inv` adds what the code
  relies on between its awaits. `ResultsInv`: the results of a round answer a
  prefix of its ids in order, and a tool is awaited only while one is
  unanswered; `ConvoWellFormed` needs it at `NextRound`, where the prefix is the
  whole. `CallsInv`: how many calls were made by position, which with
  `tool_choice: none` on the last one gives `Answered`. `SessionInv`: the thread
  exists exactly while a tool is awaited, as long as the turn is not cancelled,
  and the transaction is aborted there only if the tool raised.
- *The stream.* `StreamInv` says what the two flags of the loop mean: `first`
  that this call has sent nothing, `emitted` that some call has sent text. With
  it each step sends an event `ChatStream` allows (`PromiseStep`), which is the
  refinement. `CountInv` relates the counters to the sets of ids told to the
  model; the counts add up because ids carry the number of their call
  (`IdsInv`), so that a round's are new. `ThreadInv` and `SpansInv` are about
  what may outlive `[DONE]`.
- *ArchetypeCache.* Everything a handler knows it knows of its own epoch.
  `Work` says what holds between the statements while the ids are alive: lines
  seen are committed, and no fewer than when the request began. Ids never come
  back to life (`EpochsInv`), so what a dead request still holds can neither be
  stored nor be answered. A request whose INSERT has locked its team is alive
  until it commits, because no wipe deletes the team under it, and its row is
  the only one of its key (`LocksInv`). `Replied` ties an answer to the stored
  row.
- *Migrations.* `LineSound` follows one line: where a revision keeps a copy of
  the game's facts it is right, where it has a link the row it leads to is
  right, and one of both is there, in revision 4 the one which the code that
  loaded the line reads. Lemmas say what each revision does to one line; they
  need `FactsAgree` for revision 4 and `AllLinked` for revision 5, which are the
  checks in the two migrations that refuse to run. `LinksUnique`, that two lines
  of one player never point at one game, is `OnePerPlayer` of revision 4 kept by
  its loaders.
- *Deploy.* The database's invariant, unchanged. `ProgressInv`: at each step of
  the run, what the functions have been told so far. `ReleaseInv`: no image that
  is live, recorded, or about to be rolled out needs a later schema than the
  stored one, which survives the migration task of a cancelled run because an
  upgrade only raises the revision.
- *Accounts.* A device's access token is of its holder, its feedback token of
  the player its trace was answered for, who may be another; a request under way
  was sent with one of the tokens the device still has; a player read for it
  exists until the next wipe, because ids carry the number of the seed.
- *GamePages and ChatTools.* The client's offset counts lines, while lines are
  added before it. The invariant speaks of *ranks*: a line that was there from
  the start and was not shown yet has at least `offset` newer lines now
  (`SkipOk`), if it is alone on its day: of a day with several lines the ranks say
  only how many are shown. A load can only raise a rank, and `PlaceIsRank` bounds
  the place of a line by the lines newer and not older than it, in any order the
  database may choose. For the tools the
  invariant says what a call has resolved, and that every line told of is still
  the player's.
- *SeasonImport.* `SeasonInv` says of the database what `SeasonTrue` and
  `OnlyLastCut` say, and that the name in an id is normalized, so that two players
  of one seed differ in it. All of it is established by the load and disturbed
  by nothing else; the work is in the file the load reads, see below.

### Algorithms over data

What totals, percentages, scores and the scraped file are made of is defined by
recursion in the community modules. The induction theorems of the library take
an operator, which the provers cannot instantiate; the same induction over a
*set* needs none. `Sums` proves that every non-empty set of naturals has a least
element (`LeastNatural`), from it that a set with 0 and with every successor is
all of `Nat` (`NatInd`), and the same for subsets of a finite set (`SubsetInd`).
To prove a statement for all `n`, collect the `n` it holds for in a set. A
recursive function of the community modules is a `CHOOSE`: that there is a
function which satisfies its equation is itself proved by that induction
(`SumsExist`, `FlatsExist`).

- *Sums.* Adding an element, scaling, comparing, adding up group by group, and
  `SumMediant`: the fraction made of the sums of numerators and denominators
  lies between two of those it is made of.
- *Percentages and splits.* `PctBetweenGames` and the averages of
  `SplitsPartition` are `SumMediant`; the record of a season is `SumGroups` and a
  count.
- *Standings.* The place of a player is one more than the number of those who
  are before it, in the order the rows came in between equals. Whoever is
  before another has fewer before it, so places differ, and so many different
  numbers between 1 and their number are all of them. All this needs of a
  standing is that *strictly above* is a weak order (`StandingsOrderly`), which
  rounding does not disturb. The two pages read the team in different orders: a
  player's place counts those above, and those of its equals that came first,
  so two places differ by the number of equals at most, and not at all without
  any (`PlaceAmongEquals`); the percentile is then the same of either copy of
  its code. The labels come down to linear arithmetic for each number of
  players up to ten.
- *Archetypes.* A score is a sum of weights times percentiles, and the weights
  of an archetype add up to ten: whoever is better in each of its stats has ten
  weights of a whole place more (`PlacesAhead`), whoever is worse in none and
  comes first in the rows has no lower place in any (`PlayFollowed`), and some
  percentile is no less than a tenth of the score. An archetype has three or
  four stats, so its first five contributions are all of them.
- *The season.* `FlatLaid`: a concatenation has the elements of its parts, and
  in their order. So every row of the file comes from one match, and if a row of
  a later match is in a file that was cut, all rows of the earlier one are
  (`FileLaid`). A row that was cut within has an empty cell and does not load
  (`FileBegins`). Of the last match in the file the cut may leave some rows, so
  nothing is claimed of it (`OnlyLastCut`). The home team of a recorded match is
  the team's own exactly when its name has the fragment and the team played at
  home, since a match whose title has it nowhere has no table the scraper takes.
  That a game belongs to one match is an assumption about the site.

### Assumptions

Besides types and bounds, the named assumptions say that NULL is no value
(`MigrationsAssumption`, `DeployAssumption`, `ArchetypeCacheAssumption`), that
the words for "the current season", "all seasons" and "a season of another team"
are no seasons and that there are finitely many lines (`GamePagesAssumption`,
`ChatToolsAssumption`). TLC evaluates each on the runs of its module.
For the statistics they say that there are finitely many players and that a box
score adds up (no more shots made than taken, points from the shots made), for
the splits that there are finitely many venues. `SeasonImportAssumption` says
what the league's site publishes (`Publishable`): the team plays others, none of
which has the fragment in its name, each at most once a day; it has one table on
the page of a match, and the table's caption has the fragment exactly when the
title of the match has it in the team's name. The title may misspell that name;
with the fragment in the caption and not in the title, `_parse_match` would take
a game at home for one away, and nothing in the repository says whether the site
does that.

Two theorems have a hypothesis of their own, and need it.
`PreviousReleaseWorks` has `First >= 2`: revision 2 renames a column in place, so
while it is applied the code of release 1, if live, breaks. `deploy` runs from
release 3. `StandingsAreFair` has `MaxTeam <= 10`: the lemma `ElevenMislabelled`
computes that the fourth of eleven is called "top 3".

### Only model-checked

- `TurnEnds`, `EveryoneEnds`, `RunsEnd`: liveness, which needs fairness and
  `ENABLED`.
- The `violation` runs, which are counterexamples.

## 5. Where the code and its documents disagree

1. `README.md` and `docs/chat-agent.md`: the summary line is "always logged".
   Not when the client leaves (`chat_turn_log`).
2. `BACKEND.md`: an archetype is regenerated when a game is logged. Nothing
   does (`archetype_cache_fresh`).
3. `README.md`: every migration leaves the previous release working, and a
   column is renamed by adding one. 0002 renames in place; `OneBehindWorks` is
   therefore stated from revision 3 on.
4. `deploy.yml`: the rollback restores the recorded images. Not if it begins
   while an update is in progress (`deploy_restore`).
5. `README.md`: destructive changes are split across two deploys, so that a
   rollback recovers. The queue may merge the two (`deploy_skip`).

Not a run, because the page is a plan and not a description: `BACKEND.md` calls a
receipt's percentile position-adjusted, and nothing reads the position
(`_goodness_percentiles`).

More behaviours the models show, about which the documents are silent, and which
the properties therefore leave out by name:

- Two devices onboarding one player at once may leave a mix of both
  (`OnboardKept` is about an onboarding no other is committed into).
- A seed that fails its guard for users without a player has already committed
  the wipe (`AllOrNothing` says what is left: nothing).
- A file that was cut between two rows of a match is loaded, and its last game
  lacks players (`OnlyLastCut`).
- Two games of one day may swap places between two pages, so that one is shown
  twice and the other not (`NothingSkipped` is about a game alone on its day,
  `PagesMakeList` counts the lines of each day), and a season that ends between
  two pages makes a list of two seasons (`OneSeasonList`).
- Two players of equal true shooting in different numbers of games may be ranked
  one above the other, because their floats differ (`Roundings`).
- Two players of equal averages may stand in another order on the team-ranks page
  than in the receipt, because each page reads the team anew (`StandingsAgree`).

## 6. Not modelled

- Schemas and settings, which declare and do nothing; validation errors, which
  reach no route.
- The evals, an offline harness without state of its own that runs the agent
  loop and the tools over a fixture and grades the text; loop and tools are
  modelled where they are.
- The wording of prompts and tool results, rounding for display, HTML
  selectors, the exporter inside Langfuse, bcrypt and the JWT library.
- Coach notes beyond the two revisions that move them, and notifications:
  nothing in the repository writes either.
- Logout, which does nothing on the server, and the plain list of seasons.

## 7. Plan

Every invariant, action property and refinement that a run checks is a theorem;
liveness stays with TLC. What is left is to follow the code: a new revision is a
clause of `Migrations` and a lemma of `MigrationsProofs`, a new tool an action of
`ChatTools`, and notifications, once something writes them, a module of their own
beside `Accounts`.
