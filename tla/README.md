# Fanwire: a verification development

TLA+ modules for the parts of Fanwire whose correctness rests on order, failure
and bounds, the TLC runs that check them, and the theorems TLAPS proves about
them. Paths below are relative to the repository's root, and `backend/app/` is
left out where it is plain.

Contents: [the system](#the-system) · [the modules](#the-modules) ·
[abstractions](#abstractions) · [the runs](#the-runs) · [bounds](#bounds) ·
[fairness](#fairness) · [what is proved](#what-is-proved) ·
[where the documents and the code part](#where-the-documents-and-the-code-part) ·
[not modelled](#not-modelled) · [running](#running)

## The system

Fanwire is a sports social network, and the repository that builds it. Two
programs in it carry state machines.

**The agent pipeline** (`.ai/`, `.github/workflows/`) writes code under human
supervision. A task is a `state.json` on a branch `agent/<ID>`.

| component | state it keeps | operations | hard because |
|---|---|---|---|
| transition function, `.ai/agentlib/state.py` | one task: state, control, mode, attempt and its limit, failures in a row, manager invocations, escalation reason, history | `advance(event)`, `set_control` | some twenty events over eighteen states; budgets and the recorded reason are written by a dozen branches |
| decision, `.ai/agentlib/orchestrator.py` | none | `next_action(state)` | must ask for nothing `advance` refuses, and always stop |
| command line, `.ai/bin/agentctl.py` | `state.json` on disk | `state init/advance/control`, `hand start/finish` | humans and workflows share it |
| orchestrator, `agent-orchestrator.yml` | its checkout of the branch | apply an input, decide one thing, push, do it | it may die, or lose the push, between any two of these; GitHub keeps one pending run per group and drops the rest |
| worker, `agent-worker.yml` | its checkout | run a model, land its result, hand control back | its result may land after the task has moved on |
| CI, `test-agent.yml` | none | a verdict on the commit it tested | the commit may not be the branch's tip any more |

**The backend** (`backend/app`) is FastAPI over PostgreSQL at READ COMMITTED, with
S3, SQS, EventBridge, GuardDuty, Cognito and four Lambdas around it.

| component | state it keeps | operations | hard because |
|---|---|---|---|
| accounts, `users/` | users, follows | sign in, deactivate, recover, update, follow | a token outlives the identity it names; creation races itself and a removal |
| account removal, `account_deletion.py` | the account's row lock | delete objects, delete rows in one commit, delete the identity | races every other component, fails half-way, and is retried |
| media pipeline, `media/` | a `Media` row, a quarantine object, two public variants, a queue of scan results | presigned upload, scan result, publish or reject | S3 and PostgreSQL share no transaction; SQS delivers at least once; the form may be posted again after the scan |
| notifications, `notifications/`, `eventbus.py` | notification rows, an email preference | publish an event after a commit, handle a batch, clear, list | the event outlives what it names; a batch shares one session |
| posts, `posts/` | posts, likes, reports, attached media | publish, one-click repost and its undo, like, report, delete | each request reads, then commits; only keys and locks stand between two of them |
| feed, `feed/` | none | the feed, the history tabs, a thread, page by page | a page is several statements, each with its own snapshot; plain reposts stand for their originals |
| ingestion, `events/nba_history.py`, `events/load_handler.py`, `scripts/load_nba_history.py` | teams, games, players, box scores | load a dataset of four files | the files are redundant, ambiguous and change; the Lambda takes a lock and the command line does not |
| records and statistics, `events/service.py`, `events/records.py`, `events/record_totals.py` | two tables of totals, rebuilt by each load | some thirty reads and 104 records | the same figure is computed in two or three places, with ties, exact and rounded values, and windows over windows |
| schema, `alembic/`, `migrate.py` | the schema and its revision | upgrade, downgrade | the Lambda takes a lock and a shell does not; statements meet rows |

They interact through the database (a removal and a request meet at row locks
and foreign keys; a load and a page at the totals), through EventBridge and SQS
(a post's commit, then its event) and through S3 (an upload, its scan, its
publication; a dataset, its load).

**The front end** (`frontend/src`) keeps a compose draft with an upload it polls,
and like and repost toggles that show their result before the answer.
`infra/lib` declares the queues, buckets and their limits.

What makes each correct is under [the runs](#the-runs); PROJECT.json lists the
hazards line by line, with the properties that answer them.

## The modules

A definition has the name of the function it models where TLA+ allows it;
PROJECT.json's `map` gives its lines. Where a definition is preceded by a variant
marked *faulty*, that variant is a bug the code could have had: nothing uses it,
and PROJECT.json's `mutants` says which property it breaks.

| module | models | how |
|---|---|---|
| AgentState | `state.py`, `orchestrator.next_action` | pure operators: `Leads` is the transition table, `Advance` the set of its results (empty when it raises), `NextKind` and `DispatchEvent` the decision |
| AgentTask | `agentctl.py` | one `state.json`; one action per command that saves it, any event in any state. `DRAFT` stands for "no file" |
| AgentPipeline | the workflows | one task branch; an orchestrator run in phases (start, push, act, escalate), a worker in phases (model, push, handback), a bag of CI runs, a human, GitHub's concurrency groups |
| Accounts | `users/`, `account_deletion.py` | Cognito's pool and tokens; requests in flight that look (one action) and commit (another); a removal statement by statement |
| MediaPipeline | `media/`, the object half of `account_deletion.py` | one account's uploads; every S3 call and commit of an invocation and of a removal is an action of its own |
| Notifications | `notifications/`, `eventbus.py`, the notification half of a removal | events through EventBridge, queue, a batch on one session, rows and mails |
| Posts | `posts/`, the post half of a removal | requests in flight: their checks are one action, their commit another |
| Feed | `feed/`, the reads of `posts/service.py`, `posts/data_link.py` | a walk of a list, a page a request, a request a sequence of statements; writes may happen before each |
| Stats, Seasons | `events/service.py`, `events/record_totals.py`, the properties of `events/models.py` | a database as a record of sets; each read an operator of it |
| Records | `events/records.py` | `RECORDS` as data, `candidates` per kind of record, the statements over them; `LoadGame` loads any further game and rebuilds the totals |
| NbaData | `events/nba_history.py` | four files as sequences of rows; what is kept, skipped and refused, how minutes and overtimes are read, what is written, what is reported |
| Ingestion | `events/load_handler.py`, the transaction of `nba_history.py`, `scripts/load_nba_history.py` | loads side by side: lock, download, look, write, `DELETE`, `INSERT ... SELECT`, commit |
| Results | what loads promise their readers | the abstract specification that Ingestion implements |
| Schema | `alembic/versions`, `alembic/env.py`, `migrate.py`, the models' tables | a schema as a set of paths, every migration as a list of statements over it, runs with the lock and without |
| AgentProofs | | the theorems about AgentTask and AgentPipeline |
| RecordsInvariant | | what is proved of Records is said with it: the order of a list, the inductive invariant `RecordsInv`, the rows each page is a list of |
| EventProofs | | the theorems about NbaData and Records |
| AccountsProofs, MediaPipelineProofs, NotificationsProofs, PostsProofs, FeedProofs, IngestionProofs | | the theorems about the module of that name |
| MCAgentTask, MCFeed, MCIngestion, MCNbaData, MCNotifications, MCPosts, MCRecords | | constants that are functions, data or negative; the symmetry set |

How they compose. AgentTask and AgentPipeline both extend AgentState: the first
gives the transition function to an arbitrary caller, the second to the
workflows only. Records extends Seasons, which extends Stats: one database, three
layers of reads. Ingestion instantiates Results, with the rows of totals mapped
to what a reader sees of them (`Shown`: without the load that wrote them). The
removal of an account is modelled four times, each with the half of its steps
its neighbours can observe: the row lock on the account is in all four, and what
one commit deletes (follows, media, notifications, posts) is divided between
them. `Stats.game_ids_for_team` and the links of Feed are where the feed and the
events meet.

## Abstractions

- *AgentState.* `history` is its length, capped one past `MaxTransitions`, and
  its last event: nothing else of it is read. Reasons are tags. The guard in
  `agent-orchestrator.yml` on more than 200 entries of history stands behind
  `next_action`'s ceiling of 100 and cannot be reached; it is left out. `Extras`
  are the values given to `--extra-attempts`, of either sign as the parser takes
  them; 0 counts as not given, which means 1 (`agentctl.py:273`). A negative one lowers the
  budget; `lowered` remembers that one has, and the bound `LeastBudget` says how far.
  The workflows give none, so a retry in AgentPipeline adds 1.
- *AgentPipeline.* The human does what `.ai/docs/operations.md` says: the events of
  `HumanEvents`, a change of control, a CI or worker rerun, `HumanBudget` times in
  all. The note a CI verdict leaves on a paused task is "the branch changed, the
  state did not". `codeRuns` leaves out the code agents of a worker that a human
  runs again by hand: no dispatch stands before them, and the human's acts bound
  them. `work` counts commits that carry tests or code, and stands for the tested
  SHA.
- *Accounts.* Names, descriptions and teams are left out; of an update it matters
  only which of picture and preset it sets. `passed` and `wanted` are history.
- *MediaPipeline.* A file is a picture, a picture with malware, or junk; all of
  Pillow is which of the three it is. `torn` is a history variable, and says
  for good that an upload's publication once died after a put: such an upload is
  exempt from then on.
- *Notifications.* The list's three queries are one atomic read. A quote repost
  behaves like a reply. An event that is lost between the commit and EventBridge
  is lost: the code accepts it, and so does the model. What is logged of a mail
  that failed is read from the row again, and raises when a removal has deleted
  it: `send` may then fail its record.
- *Posts.* A post here has one reference and one kind. The API also takes both flags
  with a reference each, a reference without its flag, and a post without text; Feed
  has those. What is
  held to here (a key of rows, the closure under "is referred to", what is plain)
  does not depend on the flag. Which user uploaded a file is not modelled. `stamp`
  orders requests where the code stores a time. `clicked` marks rows made by the
  one-click repost. `Ops` picks the operations of a run. Rate limits and moderation
  are one outcome, a refusal. `Held` and `HeldMedia` are the row locks of a removal:
  a statement whose foreign key names such a row waits.
- *Feed.* A post has the columns of its row: two flags and two references, which
  a request may set one without the other (`Drafts` bounds what is asked for, some of
  it refused by the checks). A request that names the id its own row is about to
  get is left out, as are ids that a rollback burns. A like is stamped when its
  transaction begins (`like_begins`) and inserted later, so likes commit out of the order
  of their stamps; the worlds of the run begin with some under way. A list is a
  set, its order mattering only to where a page ends. A
  session's identity map is modelled: a row fetched by an earlier statement keeps
  its values. What a view reads off without deciding anything is left out. What
  there is when a walk begins is any database that keeps to the tables'
  constraints (`Stored`), with its posts numbered without gaps: of an id only
  its place among the others matters. No account is removed during a walk; its
  removal before one leaves tombstones, which `Stored` allows.
- *Stats, Seasons, Records.* Averages and percentages are pairs, compared exactly,
  rounded where the code rounds. Two figures of the code are less exact: Python
  rounds the nearest binary float (`service.py:268`, `:603`), which at a decimal tie
  may go the other way from `Rounded`, and the record of minutes per game divides a
  `float8` cast to `numeric` (`records.py:1719`), so that equal means of different
  numbers of games may fail to tie. A database state is one: a page that spans two
  is not in these modules. In the dataset of the run every game begins at hour 0;
  that a range of days takes in the last hour of its last day is a matter of the
  proof (`DayIsListed`).
- *NbaData.* A team name, a tip-off time and a comment are model values; a row
  has `bad` for any field that does not parse. Minutes are the digits that are
  written, since 27.04 may be 27:04. Points are counts (`_int` would read -3 too).
- *Ingestion.* A game is its result, its other details and its box score. What
  two loads may see of each other is READ COMMITTED, statement by statement, with
  a unique key and row locks. `alone` and `locked` are history variables: no two
  loads were open at once; every load took the lock, and none lost it.
- *Schema.* A column, key, check or index has a path; rows are of the kinds the
  migrations tell apart (`MaxKinds` of them at once).

## The runs

All twelve check what they list over the whole state space of their instance.
Deadlock checking is off everywhere because every system here may rightly stop: a
finished task, a drained queue, a spent request budget, a finished walk.

| run | instance | question |
|---|---|---|
| agent_task | 3 attempts, 2 managers, ceiling 1, grants of -1, 0, 1 and 2 | does any sequence of commands overspend, or leave a state that contradicts its past? |
| agent_pipeline | 1 attempt of at most 2, 1 manager, ceiling 20, 1 human act, all five faults | can a late, lost or doubled run decide anything, or undo what a human has set? |
| agent_settles | 1 attempt, 1 manager, ceiling 18, 1 human act, no faults | does it stop by itself? |
| accounts | 2 identities, 2 sessions, 2 profiles, 3 requests besides removals, 1 failure | can a removal meet a follow, strand an account, or never happen? |
| media | 1 upload posted up to twice, 3 receives, 2 removals | is every upload decided once, and only a clean one served? |
| notifications | a reply and a repost of alice's by bob, batches of 2, 2 receives, 1 fault | is a notification lost, invented or left behind? |
| posts | 2 users, 1 upload, 2 requests in flight, 3 posts, 4 requests, removals; symmetric | is a one-click repost one, and a removal complete? |
| feed | 3 users, 6 posts of two populations, 3 likes under way, pages of 2, 2 writes | does a walk show every post that stays, once, and none that is hidden? |
| records | 8 games, 3 teams, 3 players, 2 seasons, any subset of them loaded in any order | do two places that compute a figure agree? |
| nba_data | up to 2 game rows of 7, 1 team row of 4, 2 box rows of 5, 2 players of 3 | is what the columns only imply recovered, and is nothing stored ever lost? |
| ingestion | 2 Lambdas and a command line, 4 versions of a dataset, 2 loads, locks that die | are the totals those of the games, and do results only grow? |
| schema | 2 Lambdas and a shell, every revision, 2 kinds of row at once | does every database have the schema of its revision, and reach the newest? |

The properties, and what they mean for the code:

- *agent_task.* `Budgets`: no event sequence, by anyone, with any grants, counts more than
  the hard cap of attempts, or more than the task's budget unless a negative grant
  has lowered it; `RETRY_READY` asks for a dispatch that is refused only after such
  a grant; and the documented ceiling of three failures in a row cannot be reached,
  because the second is the manager's.
  `Story`: an implementation exists only against tests CI saw fail, or a waiver,
  or a manager's retry; a task that stopped says why, and one that moves does
  not; a hand task is never dispatched.
- *agent_pipeline.* `CodeRunsCounted`: the branch has counted every code agent
  ever dispatched, whichever run dies or loses its push (one that a human starts again
  by hand is not counted, by the code or here). `LateRunsDecideNothing`: CI
  is passed only on a verdict for the very work the branch carries, and no late
  worker, verdict or second run reopens an escalated task. `ControlStands`: a PAUSE or
  CANCEL that a human pushes is not written over by a run that had the branch
  checked out, and from then on no budget is spent and the task moves only to the
  human or to its end. `LostIsReported`: if
  nothing is running and the task waits, its last event is a dispatch, which is
  what `agentctl status` reports as stalled.
- *agent_settles.* `Settles`: the pipeline always becomes quiet, and, left alone,
  `COMPLETE` or `ESCALATED`. Two workers a human started can chase each other
  until the transition ceiling stops them; the faulty `HaltsWithoutCeiling` shows
  that nothing else would.
- *accounts.* `RemovalFindsNoFollow`: the row lock of a removal's first statement
  keeps every follow of and by the account out until its row is deleted.
  `NothingIsStranded`: the identity goes last; a profile without one was made by a
  token issued before, after its removal. `WantedRemovalHappens`: an owner who
  keeps asking is removed, wherever attempts fail.
- *media.* `PublishedWasScannedClean`, `DecidedOnce`, `UploadsAreAccountedFor` (a
  decided row and its objects agree; an undecided one is somebody's to decide),
  `RemovalLeavesNothingServed`, `UploadsEnd`. The removal's exception is explicit:
  an invocation that died between a put and its commit, and was never finished,
  leaves objects no row names (`torn`).
- *notifications.* `EventsAreTold`: none is dropped, and an email only stands
  beside a row. `GoneIsNotTold`: neither the list nor the table keeps what names
  an undone post or a removed account. `RedeliveryIsBounded`: at-least-once costs
  at most a row per receive, and a dead letter at least a trouble per receive.
  `EveryEventIsSettled`.
- *posts.* `ClickedOnce`: one user has one one-click repost of an original.
  `OnlyPlainRepostsVanish`: no other post's row goes while its author's account
  stays. `SweepFindsEveryDependant`: when a removal comes to delete, only a row
  newer than its look can need what it drops. `RemovedLeavesNoTrace`: no text,
  upload or mark of the account is left.
- *feed.* `PagesCoverTheList`: a walk that ends has shown every row that was in
  the list all along, whatever was written around its cursor, and no post twice,
  but for one on the likes tab whose like was taken back meanwhile: an older request
  may like it again further down.
  `HiddenIsNotShown`: no answer shows a post hidden since before the request.
  `PlaceholdersAreHonest`: "deleted" only for what its owner deleted, an
  unavailable post only for a hidden author. `CountMatchesThread`: in a thread read with
  nothing written meanwhile, the root counts the replies that are shown. What has
  the root as its parent without being a reply is shown beside them and not counted.
- *records.* `HolderHeadsTheList`: for each of the 104 records, holder, ties, ranks
  and pages are those of the candidates ordered as the record orders them.
  `TotalsAgree`: the tables of totals say what the player's page computes.
  `FiguresAgree`: team seasons, titles, streaks and leaders come out the same from
  games, tables and pages. `PagesAgree`: what may be linked has a preview, and two
  pages that show the same thing show it alike.
- *nba_data.* `ColumnsAreRecovered`: rows written as minutes.seconds are stored as
  those seconds, for a whole team; a line score adds up with one, two or more
  overtimes. `GamesInAnyOrder`, `ReportAccountsForEveryRow` (and a second run
  finds everything present), `StoredResultsStay`.
- *ingestion.* `TotalsAreCurrent`: both tables are those of the stored games, as
  long as every load took the lock and kept it, or no two overlapped.
  `KeepsThePromise`: Ingestion implements Results. `EveryLoadEnds`.
- *schema.* `SchemaMatchesRevision`: a downgrade leaves what the upgrade before its
  own left, and the newest upgrade what the models declare. `UpgradeGoesThrough`:
  only a team or game that has none but the dropped source's id stops the upgrade,
  and no post is lost on the way.

## Bounds

*Agent:* with an attempt and a manager's retry there are a first and a last; the
ceilings 18 and 20 are past the longest run without interference, so that both the
ordinary end and the ceiling happen; a grant of -1 may be given again and again,
down to a budget of none (`LeastBudget`). One human act at every moment meets every
state of every run. *Accounts:* two identities are a follower and a followed; two
sessions race each other or a removal; two profiles let an identity be created
again. *Media:* a form posted twice is what makes an object differ from its scan;
three receives is the deployed limit; a second removal is the retry of the first.
*Notifications:* two events are what a batch needs; two receives distinguish a retry
from the last one. *Posts:* three rows make a chain (an original, a reply or repost,
an answer to it) with one author in the middle; four requests are two that race and
two that made what they race for. *Feed:* six posts hold every kind and every
relation the views tell apart, and a second population has what removals and
deactivations leave; two writes are a deletion and what refills a page, or an unlike
and the older like that commits after it. *Records:* two seasons give a streak to
cut, a traded player, a title and a missing box score; the thresholds are set to
where the dataset has cases on both sides, and `Tens` to 2 so that doubles happen.
*NbaData:* two rows of a game are a duplicate and a contradiction; two box rows make
a team's total ambiguous. *Ingestion:* two loads overlap or follow each other; the
third version is unreadable and the fourth contradicts the first. *Schema:* every
revision is there, and two kinds of row at once are a row and what it refers to.

Constants of the code that are changed for an instance are named in the modules
(`MaxTransitions`, `HardMaxAttempts`, `LIST_CAP`, `HOLDERS_CAP`, the minimum games
and attempts, `FINALS_WINS`, `Limit`). Ten modules do not depend on them or on any
bound for their main properties: [those are proved](#what-is-proved).

## Fairness

- *AgentPipeline.* Each phase of a run, the worker's landing and hand-back, and
  CI's conclusion are weakly fair: GitHub runs what is queued. A step that may
  fail is fair together with its failure. Nothing obliges the human, and no
  fault must happen or must stop happening.
- *Accounts.* A request runs to its end. An owner who wants to be removed signs in
  again and asks again; asking is strongly fair because a sign-in stops being
  recent after five minutes.
- *MediaPipeline.* GuardDuty reports each scan, forms and objects expire, SQS
  invokes the Lambda as long as a message is there, and a removal's steps go on.
  `Dies` and `RemovalFails` stay possible at each step: receives are bounded, so
  repeated crashes end in the dead-letter queue.
- *Notifications.* Polling, each record's steps and the end of a removal are
  weakly fair. The notification's commit is strongly fair, because it waits for
  a row lock that removals may take again and again, and PostgreSQL queues
  waiters.
- *Ingestion.* Each loader's next statement is weakly fair; nothing obliges anyone
  to start a load, to upload a dataset or to die.

Posts, Feed, Records, NbaData, Schema and AgentTask state safety only.

## What is proved

TLAPS checks these for every value of the constants that satisfies the modules'
assumptions (limits are positive, sets of uploads and users finite, a dataset has
one row per game). Each inductive invariant was first checked by TLC on the
instance of the run.

*AgentProofs*, of AgentTask (`LimitsAssumption`; `ExtrasAssumption`, which only says
that grants are integers). `TaskTypeCorrect` comes first. `BudgetsHold` proves
`Budgets` inductive over the typed states: `RetryHasBudget` needs the attempts
bounded by the budget as long as no grant was negative, since a retry adds to a
spent task, and the failures are bounded because each count is tied to the states in
which it can be seen. `StoryHolds` is the same for `Story`, whose last conjunct
`DraftIsFresh` (a task without a file was never dispatched) is there to make it
inductive. The lemma `CommandCases` reduces the commands to "some event is applied",
so that each proof has one case for events.

*AgentProofs*, of AgentPipeline (`LimitsAssumption`; every set of faults, every
`HumanBudget`).
The argument is about copies of `state.json`. Four parts make `IInv` inductive:

- *Sound*: the branch, the orchestrator's copy and the worker's keep the attempts
  within their limits, and a copy that waits for an agent or CI has a dispatch as
  its last event. It must hold of all three, because any may become the branch.
- *Copies*: a copy that may still be pushed was made from the branch as it is. A
  run that is overtaken is marked stale, and its push is refused; without the
  refusal (the mutant `OrchPushUnchecked`) this is what fails. What the copy may
  be is said by `Follows`: past CI only with a verdict on the branch's work, out
  of `ESCALATED` only by a human's event.
- *CodeRunsOwed*: the code agents started, and the one a pushed dispatch is about to
  start, are counted in the branch's attempts.
- `PipelineType`.

From it: `CodeRunsAreCounted` and, with *Sound*, `CodeAgentsAreBounded`, which no run states
(the code agents that ever start on a task are `HardMaxAttempts`, and one for each act of
a human: only a worker run again by hand starts one that is not counted);
`LostRunsAreReported`; and two action properties. `LateRunsAreHarmless` is by the lemma
`BranchMoves`, which lists who can move the branch and from what.
`ControlIsTheHumans` is by *Copies*: a copy that may still be pushed has the branch's
`control` and heeds it (`Heeds`), so pushing it cannot undo what the human set.

*AccountsProofs* (`AccountsAssumption`). `TypeCorrect`, then two invariants proved
together. *Profiles*: one row per identity, and rows of no identity that Cognito
does not have, unless made after its removal. *Removals*: a removal that holds an
account's row holds it alone and the row is there; from its sweep on, every
follow that names the account is one it swept, because an insert that names a
held row waits; and once past the database what profile the identity has was made
after. They give `NoFollowCorrect` and `StrandedCorrect`. Without the lock (the
mutant `NeverHeld`) the third part of *Removals* fails.

*MediaPipelineProofs* (`MediaAssumption`). `TypeCorrect` first. The others rest on
three invariants about what an invocation may rely on between its statements:

- *Locking*: a row is new or decided, never saved in between; an invocation past
  its `SELECT ... FOR UPDATE` holds a new row, at most one does; and a removal
  under way holds every row there is. Without the lock (the mutant `FreeAnyway`)
  `DecidedOnce` fails.
- *Knowing*: a clean tag is on a scanned object without malware, because GuardDuty
  tags the object only while it is the one it scanned; so what an invocation
  publishes is a picture.
- *Serving*: an invocation past a put finds the object there, a published row's
  objects exist until a removal fails half-way, and every public object is
  named by its row, is being published, or is torn.

From *Locking* come `DecisionFinal` and `SomeoneAlwaysDecides`, from *Knowing*
`PublishedCorrect`, from *Locking* and *Serving* `DecidedTidy` and `RemovalComplete`;
`UploadsAccountedFor` joins two of them.

*NotificationsProofs* (`EventAssumption`, `BoundAssumption`; follows, which the run
leaves out, are among the events). `Bookkept` proves types together with two
invariants: `JobOK` (what an invocation has still to do is in its batch, what failed
is not to do any more, and the batch is taken) and `Counting` (a message's receives
bound its rows and mails, strictly as long as its record is still to be handled,
except for the row committed for the record under way). The others each add one
invariant:

- *Vanishing*: rows and posts go together. A notification names accounts that
  are there, and a reply's row is only removed together with its author's
  account. It gives `GoneCorrect`.
- *Mailing* and *Telling*: mails never outnumber rows, and past its commit the
  record under way has a row more than mails; an event that was settled, or that
  its batch is through with and did not fail, has a row unless what it names is
  gone. They give `ToldCorrect`.
- *Effort*: each receive but the current one was followed by a trouble of its own,
  and on an aborted session, after a failure, or when a party vanished under the
  record under way, the current one was too. With `Counting` it gives
  `RedeliveryCorrect`.

The lemma `HandlingShape` says once what the steps of a record do to the
invocation, so that each invariant has one case for all of them.

*PostsProofs* (the assumptions of Posts). `StepCases` reduces every step to a few
shapes: a request begins, a row is inserted, a row changes, a mark is set, a
removal moves. Over them:

- *Ordered*: rows refer backwards, and requests name only rows that were inserted.
- *Clicking*: a clicked repost carries nothing, so whoever looks for a plain
  repost under the pair's advisory lock finds it, and the lock has one owner. It
  contains `ClickedOnce`, which is not inductive alone, and gives
  `ClickedOnceCorrect`.
- *Undoing*: what an undo holds was plain when it looked and stays plain, because
  nothing is ever attached to a row that is there. It gives `VanishCorrect`, an
  action property.
- *Gone*: removed accounts are the ones that are not there, and own nothing. It
  gives `RemovedCorrect`.
- *Sweeping*: of the rows a removal has seen, only those it drops answer those it
  drops. That the closure under "needed by" is one is the lemma `RetainedCloses`,
  for chains of any length. It gives `SweepCorrect`.

*FeedProofs* (`FeedAssumption`, `WorldAssumption`; pages, lists, users and writes of
any number). The assumptions are what the tables' checks and keys give: a flag has
its reference, a reference is to an earlier row, an id is not 0, one like per user
and post, a post without an author is deleted, and an undone plain repost was of a
post that is not one, because `_repost_target` stops nowhere else. `Stored` says so
of the database a walk begins with, and is proved of every later one. What is proved
of a walk is about many requests, each a sequence of statements, with any writes
between any two. The parts of `IInv`:

- *LoadedInv*: what a request holds has been visible since it began, except the
  root of a thread, which is looked up whatever it is.
- *MissingInv*: why a post that is referred to is not among those loaded: by then
  it was deleted, or its author hidden. Each statement turns one reason into the
  next; the deleted ones that a plain repost stands for are where the mutant
  `load_deleted_refs` breaks it.
- *PageInv*: a view that was answered stays true of what is written afterwards.
- *ThreadInv*: with nothing written since its first statement, a thread's page is
  the root and what has it as a parent, and each author has a profile.
- *DueInv*: what stays in the list was shown, is on the page, or is still below the
  cursor. It needs the order of rows to be total and a page to be its top:
  the lemmas from `AboveIsTotal` to `FeedPage`.
- *OnceInv*: what was shown is at or above the cursor, and on the likes tab the
  like that was shown is still there, or its post is among those the viewer has unliked.
  One user has one like of a post, so only those can come back, and with a stamp
  of any age: that likes commit in the order of their stamps is not supposed.

They give `PagesCover`, `HiddenStayHidden`, `PlaceholdersTellTheTruth` and
`ThreadIsCounted`. `HistoryIsQueried` and `FeedIsQueried` show that the queries return
what the lists are said to be (`Listed`), the second by way of the columns of
links, and `LinkIsReadBack` that a link survives its columns.

*EventProofs*, of NbaData (`RowsAssumption` for `ColumnsRecovered` only: points are
counts or blank, which the code does not check beyond the later overtimes, and
minutes are digits; for the rest any dataset, refused ones included). The invariant
is *Keyed*: no two stored games have one id. It is inductive because a read that is
not refused has one row of each game (`RowsAreKeyed`), and a write puts each game it
read where the stored one of that id was (`WrittenGames`).

- `ResultsStay`: a stored game keeps its teams, its score and the box score it has.
- `OrderDecidesNothing`: Games.csv backwards is read as the same games, or refused
  as well. Without the comparison of equal rows (the mutant
  `read_games_first_row`) the first of two would win.
- `ReportAddsUp` counts the places of a season in the file: each holds a row of an id
  that was seen before, or the one row of its id, and that row is skipped for one of
  three reasons or read, and then loaded, updated or there already (`FourParts`,
  `DoneWithEach`). A second run merges every game with itself (`MergedGame`).
- `ColumnsRecovered`: minutes that were written as minutes.seconds are stored as the
  seconds they were (`SecondsAreReadBack`, for each digit), and a line score adds up
  to its quarters and overtimes, however many. It needs what a fold over places
  returns. The section on sums gets that from the recursive function the fold is:
  it exists and is unique on the subsets of a finite set (`SumExists`, `SumUnique`),
  and any place may be taken first (`SumOfAny`), each because a smallest subset for
  which it fails would leave a smaller one (`Smallest`).

*EventProofs*, of Records (`CapsAssumption`, `MinimumsAssumption`, `TeamsAssumption`,
`PlayersAssumption`, `DatasetAssumption`; any dataset, caps and minimums). The
assumptions are the tables' types and keys: numbers are numbers, an id is one row's,
a game is between stored teams, its lines are its own and of its teams, and a share
is of at least one attempt. Two of them are not keys of the database. Teams have
names of their own, or standings of equal records would be in no order. And a team is
in one game at a time: the lists of team games are ordered by date and team alone, so
two games of a team at one instant would be in no order, and which page has which
would be up to the database. `HolderHeads` is proved in
two halves that meet in *Listable*, which says of candidates that they are
finitely many, that every key they are ordered by is a number, and that no two are
level on all keys:

- whatever is listable is headed by its holder (`HeadsList`): the keys, each with
  its direction, order the rows (`OrderOf`), a row's place in the order is its place in
  the list (`Listing`), the rows kept with their ties are the first ones and perhaps
  more (`TopIs`), and among the rows level with the best the holder is the first;
- the candidates of every record are listable (`CandidatesList`). For each of the
  fourteen kinds it says which columns tell two rows apart. A kind that reads a
  table of totals needs that the table has one row for each key (`SeasonsAre`,
  `SidesAre`), which is part of the inductive invariant `RecordsInv` (in
  *RecordsInvariant*; TLC finds it invariant under `MCRecords.cfg`), and that every
  record of that kind asks for columns the table has (`RegistryFits`, over the 104
  definitions, which also have 104 ids).

`RecordsInv` also says what the two tables hold, and six more theorems compare what
different queries read of them and of the games:

- `TotalsAlwaysAgree`, by *SeasonsAddUp*: a row of a player is the sum of the lines of
  its key, and each line that was played is in the lines of some row (`TableAddsUp`).
  A career sum over rows is then one over lines, as the lines are parted by their
  rows (`CountedInParts`, `CareerSays`). It needs the unique key of a game and a
  player (`models.py:167`): two lines of one game would leave the row no newest line to
  take its team from.
- `StreaksAlwaysRun`, by *SidesTell*: a row of a team is that of one of its completed
  games, and each such game has one. The table numbers the games twice, over all and
  over those of one result, and groups by the difference. The difference is the number
  of earlier games that went the other way (`StreakIsRun`), so two games of one result
  have the same exactly when none between them went otherwise. The rows of a run are
  then the first of those up to it, latest first (`StreakSays`). It is one of the
  three parts of `FiguresAgree`.
- `LeadersAlwaysQualify`, the second part. A mean is a fraction, and fractions with
  positive denominators are ordered by cross-multiplication; with the id behind it that
  orders the players who qualify (`LeadingOrders`), so the page is the first of them and
  whoever is not on it is no better than the last who is (`LeadersAre`, `LeadersSay`).
- `FiguresAlwaysAgree`, with the third part. The table has one row for each game a
  team played in a regular season, so it counts the same wins and losses as the
  games do (`SideCounts`), and the same team seasons (`KeysOfSides`). The wins of
  all teams are the games of the season because each has one winner, and the
  statement that finds every season's champion at once finds the one that each
  season's page shows (`ChampionIs`; that Null is nobody's id and the ids of a game
  are teams' are keys of the tables). It supposes what the code does not check and
  any game is: no team plays itself (`TwoTeams`), and a regular season game was
  played and won (`Decided`). Neither can go: `records` counts a game nobody won as
  lost by both, and the table leaves out a game without a score.
- `LinksAlwaysHaveAPreview`, a part of `PagesAgree`: what lets a link pass and what shows
  it are different queries. A line's preview tells its team's score from the opponent's
  by who is at home, and the page it links to shows them side by side; so the theorem
  supposes that no team plays itself (`TwoTeams`), which is true of games and which no
  constraint says. A career's preview and the player's page sum the same lines, and a
  career that may be linked has one that was played.
- `PagesAlwaysAgree`, with the other part (`ReadsCompared`), one lemma for each pair
  of pages. A list asked for whole is its rows in their order (`WholePage`), so a
  team's season is the games listed for it (`SeasonIsListed`), and those listed from
  a day to the same day are the ones that began on it, because a date and an hour
  are a quotient and a remainder (`DayIsListed`). A row of team totals is summed
  from every line of the box score and the page's totals from the lines that were
  played; *SidesBoxed*, a conjunct of `RecordsInv`, says what the row sums, and
  lines of zeros add nothing (`ZerosAddNothing`, `BoxIsTotalled`). That is the
  second hypothesis, `UnplayedAreEmpty`: a player who did not play has zeros
  (`models.py:134`), which no constraint says either, and the loader stores what the
  file has. The standings of a conference and the league's ranks are cut from one
  order, so the best ranked of the conference's division leaders is the team the
  games behind are counted from (`RanksAre`, `RanksLeadStandings`). Recent games
  come by the sum of two ranks and those exist for every stored team
  (`RecentBestFirst`); a player's log starts with the line the latest team is read
  from (`LogIs`), and its played lines are those the list of players asks for
  (`PlayersListed`); the catalog's window is the ends of the list of seasons, and
  every featured id is one of the 104 (`WindowSays`, `FeaturedAreRegistered`).

*IngestionProofs* (`LoadersAssumption`, `DatasetsAssumption`, `BoundAssumption`).
`InvariantCorrect` proves `IInv`: types; *Kept* (stored games have unique ids; what
a load is about to commit agrees with what is stored of the same games; no two
open loads have written the same game, which the unique key and the row locks
see to); *Numbered*; and *Lone* (as long as no two loads overlapped, at most one is
open, both tables are derived from the stored games, and the open load has
deleted and inserted exactly what it is past). From it:

- `PromiseKept`, the refinement: initial states map to initial states, and every
  step to a load, an overlap or a stutter. Results survive with no lock at all;
- `LockKeepsLoadsApart`: until the first load from the command line, or the first lock
  that is lost under its load, the advisory lock keeps every two loads apart
  (`locked => alone`). A second invariant carries it: while `locked` holds, whoever
  is past the lock holds it. Either exception breaks it, as
  [below](#where-the-documents-and-the-code-part);
- `TotalsCorrect`: unlike results, totals need the loads apart; they are current as long as
  the lock, or chance, keeps them so.

Only model-checked: everything temporal beyond `[]` and the refinement (`Settles`,
`WantedRemovalHappens`, `UploadsEnd`, `EveryEventIsSettled`, `EveryLoadEnds`),
because liveness under fairness is out of the prover's reach; and the two invariants
of Schema. What those say has no parameter that matters: the schemas are folds of
some hundred and fifty statements over fixed sets of paths, which TLC evaluates
completely, and a proof would repeat the evaluation one statement at a time. Every
other invariant and action property of the runs is a theorem.

## Where the documents and the code part

Each statement below was checked against the model while it was written, and
found not to hold of the code. No run checks them: the properties above
state what the code keeps instead. The first column is where the code does it.

| code | says | what happens |
|---|---|---|
| `.ai/agentlib/state.py:347` | `:29`, failures are reset "by any real progress" | dispatching the manager resets them |
| `.ai/agentlib/state.py:519` | `:496`, test-first is "an enforced property" | a manager's retry goes past the red baseline |
| `.ai/agentlib/state.py:533` | `.ai/docs/state-machine.md:16`, `READY_FOR_IMPLEMENTATION` dispatches the code agent | after a rescope the attempts may be spent |
| `.ai/agentlib/state.py:524` | `.ai/docs/state-machine.md:21`, `RETRY_READY`: "Distilled, budget remains" | `agentctl.py:989` takes a negative `--extra-attempts`; the retry lowers the budget, and its dispatch is refused and escalates |
| `agent-orchestrator.yml:40` | `.ai/docs/handoff.md:317`, "A `workflow_dispatch` nudge always recovers it." | a CI verdict dropped from the pending slot is not recovered by a nudge, which carries none |
| `agent-orchestrator.yml:429` | `:497`, "the next run simply does this one again" | the input of a run whose push was rejected is gone |
| `.ai/agentlib/state.py:402` | `agent-worker.yml:665`, a result that cannot be applied escalates for the manager | out of its state it is a plain failure |
| `media/pipeline.py:316` | `media/models.py:63`, the key is cleared once the object is deleted | a crash between the two leaves a key and no object; the retries fail and dead-letter |
| `media/lambda_handler.py:134` | `infra/lib/storage-stack.ts:188`, "so this never blocks it" | a form posted again blocks the Lambda until the new scan |
| `media/pipeline.py:123` | `wiki/CodeContext/Modules/0x04-media.md:49`, Scanning is tracked | it is set and overwritten in one transaction |
| `notifications/consumer.py:144` | `0x05-notifications.md:79`, no duplicates by retries | a crash after the commit makes one |
| `notifications/lambda_handler.py:74` | `:22`, a bad record blocks no other | a failed commit leaves the shared session aborted, and every later record of the batch fails |
| `posts/service.py:589` | `:575`, "a repeat keeps the first timestamp" | two deletions that overlap both write the time |
| `posts/facade.py:93` | `:87`, a deleted post takes no reply | one checked before the deletion is committed after it |
| `posts/facade.py:137` | `posts/models.py:54`, an attachment is its post's | a second post takes it over |
| `posts/service.py:605` | `0x03-posts.md:52`, a tombstone bears no marks | a like that commits between a removal's sweep and its commit stays |
| `posts/service.py:389` | `:382`, "so the count matches the thread replies_to shows" | `replies_to` shows whatever has the root as its parent, flag or not; the count asks for the flag |
| `posts/models.py:199` | the likes tab is paged by the time of the like | the time is that of the transaction's start: a like that is taken back, and made again by an older request, shows its post a second time |
| `notifications/consumer.py:146` | `:100`, "any exception from email delivery" is "logged" and "swallowed" | the log reads the row again; if a removal has deleted it the record fails |
| `users/service.py:270` | `0x01-users.md:83`, a picture or a preset | two updates begun before either commits leave both |
| `events/record_totals.py:109` | `events/models.py:282`, "One row per player, season and game type" | no key says so: a load that commits between the `DELETE` and the `INSERT` of another doubles its rows; the command line takes no lock, and a lock's connection may be lost |
| `events/load_handler.py:146` | `:90`, "the database is as it was" | the unlock may raise after the commit; `migrate.py` has the same |
| `alembic/env.py` | `migrate.py:17`, "Only one migration at a time, enforced in Postgres" | a shell takes no lock |
| `events/service.py:672` | a player's page | two statements: a load that commits between them makes a `KeyError` |
| `events/nba_history.py` | `DatasetError`, "duplicate rows that disagree" are refused | of two team rows the last, of two box rows the first is kept, in silence |

Smaller ones: two deactivations that race keep the second time; a follow that
races another, or a removal, is an unhandled integrity error; a game scored 0:0 is
lost by both sides in `_records`; `games_behind` can be negative, since it is
measured from the best percentage; the games of a filter are not ordered by id
within a date; search pages by offset over a rank without a tie-break; that only
a plain repost is ever deleted for good does not count the removal of an account
(`OnlyPlainRepostsVanish` does); a rate limit may be overshot by requests counted
at the same moment, which the code's comments accept.

## Not modelled

PROJECT.json gives every component and its reason. In short:

- *The front end*: one browser tab's state (a draft, an upload's generation counter
  and its polling, optimistic toggles over a library's query cache). The requests
  it sends are inputs the backend's modules take in any order and number.
- *Search*: a text match and its rank are PostgreSQL's, and no property of its
  offset pages holds while rows change.
- *Rendering and HTTP*: validation, caching headers, titles, units and search words
  of records, matching by name.
- *The signing-key cache* (`users/jwks.py`) and the token's form; a token is what
  its verification says of it, recent, old or none.
- *Infrastructure* beyond the limits and policies the models use.
- *The agent library's parsing* of logs, diffs and model answers, whose verdicts are
  inputs of AgentPipeline; reports; documentation checks; other workflows.
- Inside modelled components: wording, formats, sizes, rate limits, the legacy
  mentions' writes, the isolation of the model's sandbox, the review pull request,
  the moment between the uploads of a dataset's four files, and the teams' and
  players' upserts beyond their refusals.

The hazards of PROJECT.json are those a property answers; where the code does go
wrong no property can hold, and the table above says how.

## Running

    tlc -workers 2 -config MCPosts.cfg MCPosts.tla
    tlapm IngestionProofs.tla
