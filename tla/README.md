# A verification project for CTFd

CTFd runs a capture-the-flag competition. Every team hosts the same vulnerable
services. A daemon plants a secret (a *flag*) in every service of every team,
checks later that it is still there, and receives the flags teams have stolen
from each other; web pages show the scores. This directory holds TLA+ models of
the program, the TLC configurations that check them, and proofs for TLAPS.

Paths are relative to `src/` of the repository; `lib/` is `src/lib/`.

## 1. Inventory

### The game

| Component | State | Operations | Modelled by |
|---|---|---|---|
| daemon, flags (`lib/ctfd.js`) | one MongoDB document per flag: `delivered`, `captures`, `checks`; in memory only `latestPlantTime` and what callbacks close over | plant a round, save the flag, record the outcome of a plant command, check, record a check, receive a flag and record a capture | `CTFd`, abstractly `FlagLedger` |
| daemon, rounds (`lib/ctfd.js`, `config.js`) | `plantInterval`, `checkInterval`, `latestPlantTime`, commands that run | `plantFlags_`, `checkFlags_` by timer | `Schedule` |
| flag receiver (`lib/flagreceiver.js`, `lib/userdataparser.js`) | per connection: the parser's `data`, the name of the team | `append`, `_parse`, the handlers of `TEAM` and `FLAG` | `UserDataParser`, `Connection` |
| service commands (`lib/servicecommandexecuter.js`, `lib/timedexecuter.js`) | per check: five commands, their results, a counter | `plantFlag`, `checkFlag`, kill after `max_time` | `CheckFlag` |
| score page (`lib/scoreswebpage.js`) | a cached board, a list of requests that wait, seven accumulators while a board is made | request, read a document, finish, expire | `Scores`, `ScoresPage` |
| daemon, start and stop (`lib/ctfd.js`, `bin/ctfd.js`) | listeners, interval timers, teams | `createDaemon`, `addTeam`, `start`, `restored`, `ready`, `stopFlags` | `Lifecycle` |
| status page, score page in the browser (`lib/statuswebpage.js`, `html/status.js`, `html/scores.js`) | what is shown, requests under way | poll, show an answer | `Pages`; the order of the results it shows: `Schedule` |
| visualisation (`lib/datavizwebpage.js`, `html/viz.js`) | the clock of a replay, its speed, the timeline that is drawn | load, start, demo, faster, slower, repaint | `Replay` |
| flag factory (`lib/flagfactory.js`) | names and flags handed out | `createFlag` | not modelled: flags are distinct by assumption |
| client (`scripts/flag_deliver`) | a file of flags already sent | connect, name the team, send a flag, wait for the reply | the waiting client of `Connection` |
| programs (`bin/`) | | glue | what `bin/ctfd.js` does: `Lifecycle` |

### The services of a team (`services/`)

They are programs of their own, and share nothing with the daemon but the
exit status and the first line of the plant and check commands.

| Service | State | Modelled by |
|---|---|---|
| TicTacToe (`tttd.rb`, `userd.rb`) | players, games, two directories of files, two threads without a lock | `TicTacToe` |
| JabbaChat (`client/`, `component/`, `www/`) | handlers of a chat client that come and go while they are called; a directory in a process of its own, with its pings; the page with its list of people and messages that wait | `JabbaChat`, `Directory`, `JabbaRoom` |
| HighLow (`src/*.c`) | an array of clients with a free list, an epoll loop, a table of users | `HighLow` |
| FileServer, TheQuotinator | a counter of connections per address; a pool of clients | planned |
| DrunkDriver | a kernel hook that queues work | planned last |
| LeetPhorum, MyStatus, Barbershop, WebServer | pages that load, change and load again; their servers keep a session and do one statement per request on a database | `Pages` |
| GraphicusMaximus, SecretService, WhereAmI, ... | one request or one process at a time, or rendering | not modelled; `PROJECT.json` gives the reason for each |

The parts of the game interact as follows. The timers of the daemon call the service commands;
their callbacks emit `plant` and `check`, whose handlers write to the
collection of flags. The receiver turns bytes of a connection into `team` and
`flag` events, whose handlers read the collection and write captures to it. The
web pages only read the collection; the score page and the daemon may be one
process or two. Nobody locks anything: what is shared is the collection, and
every call to it is asynchronous.

What makes this hard: reads of the database whose answer is used after other
requests have written; writes that are sent and not waited for; results of
commands that arrive rounds later; a crash between a command and its record;
timers with different origins; bytes cut anywhere; five callbacks in any order;
a page generated while the data it shows changes; answers to pages that
overtake each other; a command at the prompt that was given twice.

### What makes each part correct

* **Flags.** Documents never vanish and what they record is never taken back
  (`LedgerKept`); captures and checks are dated in the round of their flag
  (`CapturesInRound`, `ChecksInRound`); a captured flag earns nothing by later
  checks (`NoCheckAfterLoss`); replies tell the truth (`AckedIsRecorded`);
  nothing is recorded twice (`CapturedOnce`) or lost
  (`NothingLost`, `DeliverySettles`, `CheckResultArrives`).
* **Rounds.** Every round is checked before the next (`EveryRoundChecked`), and
  a late enough check finds its plant commands decided (`LateCheckFindsSettled`);
  results are pushed in the order of the checks, so that the last one, which the
  status page shows, is the latest (`ChecksInOrder`).
* **Start and stop.** A daemon started once runs nothing that `stopFlags` cannot
  stop, and its visualisation knows the teams that are planted for (`DaemonInHand`).
* **Pages.** A page shows its user's own changes, under the right heading
  (`ShowsOwn`), and one that polls catches up after any loss (`PollersCatchUp`). A
  replay shows every event, whatever its speed was on the way (`ReplayShowsAll`).
* **Receiver.** The daemon hears what the client said (`Understood`), and the
  n-th reply is to the n-th line (`RepliesInOrder`, `EveryLineAnswered`).
* **Checks of a service.** One verdict per check, the right one, blaming the
  right command (`CalledOnce`, `VerdictRight`, `LineOfCulprit`, `VerdictComes`).
* **Scores.** The graphs and the table of a board agree (`CurvesEndAtTable`,
  `GraphsConsistent`), boards come in order and take back nothing but defences
  (`CacheInOrder`, `BoardsGrow`), and everyone gets one (`EveryRequestServed`).
* **TicTacToe.** Who plays has an opponent that is there and plays the same game,
  unless the two threads have torn them apart (`GamesPaired`), by the rules (`RulesKept`); no login is lost between the
  directories (`LoginsUnderWay`) and nobody becomes somebody else (`NamesStay`).
* **JabbaChat.** The handlers fit what is waited for and everybody met is looked up
  (`InformedOfAll`), the list of the page fits the room (`RoomAgrees`), pings are
  told apart (`PingsDistinct`), a service is not blamed without a reason
  (`BlamedWithReason`), and the check ends (`CheckEnds`).
* **HighLow.** No client is in two places (`ClientsAccounted`); the table holds the
  best round and the number of games (`TableRight`).

## 2. Modules

| Module | Stands for | Uses |
|---|---|---|
| `CTFd` | every process that reads or writes a flag's document: the daemon's callbacks, the database's answers, crash and restart | |
| `FlagLedger` | abstract: what the collection promises its readers | |
| `MCCTFd` | symmetry for the four instances of `CTFd` | extends `CTFd` |
| `CTFdProofs` | proofs about the dates and the books of the daemon, and what the collection promises | extends `CTFd` |
| `Schedule`, `ScheduleProofs` | the two timers, the age test, the limit of plant commands | |
| `UserDataParser` | `append` and `_parse` on tokens | |
| `Connection`, `ConnectionProofs` | client, TCP, parser, filter and handlers of one connection | extends `UserDataParser` |
| `CheckFlag`, `CheckFlagProofs` | one call of `checkFlag` with its five callbacks | |
| `Scores` | the seven observers and the board, as operators on a set of documents | |
| `ScoresPage`, `MCScoresPage`, `ScoresPageProofs` | requests, cursor, cache and its timer, over a collection that changes | extends `Scores` |
| `TicTacToe`, `MCTicTacToe`, `TicTacToeProofs` | both daemons, the two threads of one and the files between them | |
| `Lifecycle` | the daemon from `createDaemon` to `stopFlags` | extended by `Parts` |
| `Replay` | the feed of the visualisation and the page that replays it | instantiated by `Parts` |
| `Pages` | six pages that ask a server with `$.ajax`, and what their servers make of it | instantiated by `Parts` |
| `JabbaChat`, `JabbaRoom`, `Directory` | the program, the page and the pings of JabbaChat | instantiated by `Parts` |
| `HighLow` | the service HighLow | instantiated by `Parts` |
| `Parts` | chooses one of these seven parts in the first state | |
| `MCParts` | the instance of `Parts`: connections, users, visitors, flags of the replay | extends `Parts` |
| `HighLowProofs` | proofs about `HighLow` | extends `Parts` |
| `PartsProofs` | proofs about `Pages`, `JabbaRoom`, `Directory`, `Lifecycle`, `Replay` and `JabbaChat` | extends `Parts` |

How the state corresponds to the code:

* **`CTFd`.** `flags` is the collection; `saves`, `outcomes`, `pushes` and `stores`
  are `save`, the `$set` of `delivered`, the `$push` to `checks` and the `$push` to
  `captures` that have been called and not applied. A FLAG request goes through
  `find` (before `findOne` answers), `found` or `missing` (before the callback
  runs, with what it will look at), `update`, `updated`, `replied`. A plant command is
  an element of `planting`, a check command with its 500 ms timer one of `checking`.
  `Start`, `PlantTimer`, `PlantDone`, `CheckTimer`, `Scan`, `CheckDone`, `SubmitFlag`,
  `FindOne`, `Decide` and `Acknowledge` are the daemon's callbacks, each as a whole. The
  database is external: `ApplySave` replaces the document, updates of a document
  that is not there do nothing, as `update` without `upsert`. `planted` and
  `acked` are history: what the commands and the replies have said.
* **`Schedule`.** Times are kept as ages and countdowns, which makes a daemon that
  runs for ever finite. `Lag` is how late a timer of the event loop fires,
  `SpawnTime` how long `plantFlags_` takes to start its commands one after another.
  A check that runs is `pushIn`, what is left until its result is pushed at the latest;
  one at a time is enough, because the property is that there is never a second.
* **`Lifecycle`.** Listeners, `restored` events and pairs of timers are counted.
* **`Replay`.** `anchor` is `replayBeginTime * timeTransform`, which stays an integer
  when the speed changes. A demo is a timeline of one event.
* **`Pages`.** What a server keeps is the number of changes made to it, and an answer
  is the number at the time it was made. `ajax` holds the requests under way; any of them
  may be answered or fail next. A page is its row of handlers; `$.ajax` is shared. A server
  counts from 1, so that 0 (`Unread`) is a page that has shown nothing. Each of the six servers
  has an action of its own (`ServeStatus` to `ServeYellowPages`): those of LeetPhorum and MyStatus
  keep a `session`, log in or refuse and write for those who are logged in; that of the score
  page serves `board` until `Expire`, and after `CursorError` (`serving` is FALSE) nobody. A
  request whose cursor fails on the status page is never ended: in the end its connection is
  closed, which is a `Lose`. `fades` are the buttons of the yellow pages whose callback is still
  to come; until then `monday`, which stands for the form there, is the old one.
* **`JabbaRoom`.** `chatters`, `chatterInfo` and `pendingChats` are the code's; `users` is
  the list in the document. `deaf` names the handlers Strophe has dropped after an exception:
  `OnUser` when somebody leaves before having been looked up, `OnChat` at a message without a
  text (`ChatOfNothing`). A person of `Nameless` has an empty real name: the handler of that
  answer ends with an exception (`LookUpFails`) and the data never come.
* **`Connection`.** A line is a sequence of tokens (a command, a blank, an argument,
  line breaks), and TCP delivers any prefix of what was written.
* **`CheckFlag`.** The shared variables of the closure have their names.
* **`ScoresPage`.** A board is the set of documents that the cursor returned, from which
  `Scores` computes what each observer computes in one pass. `With` and `Sorted` are written
  out, because TLAPS knows nothing of `SelectSeq` and `SortSeq`.
* **`TicTacToe`.** A file is named by its command and its client, as in the code; an
  inotify event is a name in a queue. A name or password that does not make two parts of its
  line is `Unreadable`, which `Userd` deletes and does not answer. The second thread takes four
  steps, between any two of which the main thread may take its own: `LookUp` finds the client,
  `SetName` writes `@user_name`, `SetState` writes `@state`, and `Greet` or `GreetGone` is what
  `set_state` does after looking at `@state` once more. `Cleanup` and `TakeLeave` are the same two
  halves of `set_state` in the main thread. `SendFails` is any send whose rescue marks
  a client. `torn` is history: the clients about which the two threads have disagreed, set where
  `TakeLeave` finds a state that is not the one it has set, and where `GreetGone` takes leave a
  second time. A game is a place in `games`, kept as long as somebody has it. The squares are
  numbered as in a magic square, in which three make a row when their sum is 15.
* **`HighLow`.** One action for each packet handler; `batch` is what is left of the
  array `epoll_wait` has filled.

Order of writing: the flags of the daemon first, with their abstraction and their
proofs; then what feeds them (rounds, connections, checks of a service), what
reads them (scores), and then the services, those with shared state first.

## 3. Runs

Times are with two workers. All passing runs search their whole state space, `tictactoe` as far as
its constraint lets it go on.

| Run | Question | Instance | Distinct states |
|---|---|---|---|
| `race` | a thief, a check that overlaps it, a second round, a crash with a restart; writes in any order or never | two teams, one service, one request, rounds at 0 and 1, check ticks at 2 | 1,076,893 (30 s) |
| `ledger` | does the collection implement `FlagLedger` with database errors, reordered writes and a crash | one round, one check tick, one request | 639,985 (1 min) |
| `settle` | without crash and error: does everything arrive and stay | one round, plant commands may fail | 241,280 (2 min) |
| `captured_twice` | expected to fail: is a capture recorded once | two requests in flight | - |
| `schedule` | intervals with room for two checks, and for a push between them | plant 16, check 6, max_time 3, lag 1 | 565 |
| `schedule_config` | expected to fail: the proportions of `config.js` | 5, 1, 5 | - |
| `connection` | a client that waits for its replies, bytes cut anywhere | three lines | 961 |
| `pipelined` | expected to fail: a client that does not wait | two lines | - |
| `check_flag` | the right verdict in any order of five callbacks | the flag and four modified flags, as in the code | 4,887 |
| `scores` | boards made while flags change, cache, errors of the cursor | two flags, a challenge, four changes, three requests | 317,619 (1 min) |
| `tictactoe` | players that come, log in, play, quit and vanish, and the steps of the second thread | three players, two names, nine squares | 851,289 (1-2 min) |
| `parts` | JabbaChat's program, page and pings; HighLow; the replay; the pages; start and stop | see below | 1,109,752 (1-2 min) |

Why the bounds are enough:

* Nothing in `CTFd` relates two services, two documents or two requests on different
  flags. A hazard needs a thief and an owner (two teams), a flag of a round and one
  of the next (two rounds), a check tick of its own and one crash. The two requests
  a race between thieves needs are in `captured_twice`; what has one request in
  `race` is proved for any number (section 5).
* In `race` plant commands hang: their outcome has no influence on captures and
  checks, and `ledger` and `settle` have it.
* In `schedule` the intervals are small numbers in a relation that matters: the plant
  interval leaves room for two checks of a round, the check interval for a check and
  its push, by one. The proofs are for all intervals.
* Three lines are TEAM and two flags, or two TEAMs and a flag. Every cut is tried.
* Three players of TicTacToe are a pair and one who comes between. Two squares are enough for the
  turn to change; the other seven are for the rules, which two players show: `FewSquaresOrPlayers`
  does not go on from a state that has all three players and a token elsewhere.
* HighLow has one slot less than there are connections and one user on two of them,
  so the array runs out and a slot is given away in the batch that freed it.

* The check of JabbaChat meets two others, one of whom the directory does not know, and
  two moves: one person may come and go while the names are collected. In the room one
  of three people is connected twice, one has no real name, and six presences and messages are enough for
  somebody to come, be asked for, speak, leave and come again.
* The replay has a capture, a check, a team that joined late and a capture by it, and sixteen
  seconds: longer than all events at the lowest speed, and time to start over.
* The pages have three requests under way and three clicks, changes or failures.
* The daemon may be started three times; the alphabet of the pings has two letters, so
  that twenty ids reach four letters.

`CHECK_DEADLOCK FALSE` is set where all bounded activity may come to its end (no
more time, lines, moves or requests). Only `Schedule`, which runs for ever, has
deadlock checked.

### What they show

* Whatever is in flight, a capture and a check are dated in the round of their flag:
  the test of the round and the date of the capture belong to one callback.
* `0: Flag captured` is true unless the database has answered the update with an
  error, and no check that starts later counts for the owner.
* Documents only grow. With a crash or with reordered writes a plant result may be
  lost (which is why `NothingLost` and `DeliverySettles` are checked in `settle`
  only), but nothing that was recorded is taken back.
* All seven observers of a board tell of the same captures, and boards are served in
  the order they were made. After an error of the cursor nobody is served any more:
  `EveryRequestServed` says so with `Stuck`.
* The status page shows the result of the latest check when the check interval is longer
  than a check and its push. With `config.js` it is not (2000 against `max_execution_time`
  and 500 ms), so that there the last to be pushed may be an earlier check.
* A daemon started once is in hand. A second `start()` at the prompt is not refused:
  two counts of the flags each run both handlers of `restored`, and each of those both
  handlers of `ready`, so up to eight pairs of timers run, of which `stopFlags` knows one.
  `stopFlags` before `restored` stops nothing.
* A replay keeps its place when the speed is changed. It is right for the teams of the
  start of the daemon only.
* Pages are right when no two requests of a kind are under way together and no form is used while
  it fades, and the pages that poll in the end in any case, but for a score page that an error of
  its cursor has silenced.
* Games of TicTacToe stay paired but for the players the two threads tear apart. The threads
  write `@user_name` and `@state` without a lock (`tttd.rb:348`, `:184`, `:185`), and awaiting the
  answer to a login does not help. (a) The name is set, somebody plays it, its
  player is found gone, the second thread overwrites `DISCONNECTED` before the main thread looks
  at it: the game is kept and the opponent never told. (b) `DISCONNECTED` is set after
  `AUTHENTICATED` and before the second thread looks: both threads take leave, and the
  opponent loses the next game it has begun meanwhile. `GamesPaired` says that nothing
  else unpairs a game. Logins arrive and names stay for players that await the answer to a
  login before their next line (`Waits`), but for names and passwords that `userd` cannot read,
  which are never answered; the rules are kept in any case.
* The list of JabbaChat's page is right, when no query is under way, for pages that heard all
  presences. Somebody with an empty real name keeps the list from being built at all
  for as long as they are there; then only those who have gone are taken off it rightly.

### Disagreements found

Three runs are expected to fail, each on what a document or a test says:

1. **captured_twice** (`lib/ctfd.js:349`): two requests of one team in flight are both
   told `0: Flag captured`, and count twice.
2. **schedule_config** (`config.js:11`): with `plant_interval` equal to the default
   `max_time` no round is ever old enough to be checked.
3. **pipelined** (`lib/userdataparser.js:35`): two lines in one segment are one event.

Others were met while reading. They need no run, or are the reason for a
precondition:

* `lib/ctfd.js:270` says of a round older than `max_time` "The plant command now has
  either succeeded or failed." The age counts from the beginning of the round and
  the limit of a command from its own start, so a command may still be running;
  `LateCheckFindsSettled` adds the time to start the commands and the lag.
* `GAMEADMIN.asciidoc:55`: a restarted daemon goes on with the flags of the
  database, but results of commands that were running are lost.
* `README.asciidoc:58`: points for a defence are on the board from the delivery on and
  taken back by a capture; `NotTakenBack` allows this loss and no other.
* `html/viz.js:504`, `:507`: without an event, or with one at a team that was added after the
  start of the daemon, the page throws before its buttons have handlers; a capture *by*
  such a team ends the repaints in the middle of the replay (`Replay`).
* `services/JabbaChat/www/js/jabba.js:103`: who leaves before having been looked up makes the
  page deaf for everybody's coming and going; `:127`: a change of status counts as another
  connection, and leaves its sender in the list (`JabbaRoom`).
* `services/JabbaChat/www/js/jabba.js:197`: an empty real name, which the pages to create a user
  do not refuse, is an exception in the handler of the answer; `:224`: an empty message, which
  the form sends, is one in `OnChat`, which hears nothing any more.
* `services/TicTacToe/src/userd.rb:28`: a `=` in a name or password is never answered.
* `services/LeetPhorum/src/index.php:214`: whoever asks to create a user that exists, with the
  right password, is logged in, and the page does not know.
* `services/JabbaChat/component/server.js:145`: every reconnect adds a timer.
* `services/Barbershop/html/script.js:134`: an answer does not say what week it is about, and
  the older of two may be shown last; `:24` leaves out September and October; `:210` sends the
  name of the user as the password.
* `lib/ctfd.js:129`: points of 0 are taken for points not given.
* `bin/status.js` gives the status page no daemon, which the page reads.
* DrunkDriver's `init` destroys its work queue in the case of success.
* `services/TicTacToe/src/tttd.rb:280`: after `quit` a player that has never logged in
  may start a game.
* HighLow loses games of a user who is logged in twice (`client.c:64`).
* FileServer: an `IOException` in the constructor of a client ends the server
  (`FileServer.java:91`).

## 4. Fairness

* **`CTFd` (`LiveSpec`)**: weak fairness of the end of every plant and check command
  (`lib/timedexecuter.js` kills them), of every answer of the database, and of every
  callback of a request: the event loop runs what is ready. There is none for
  clients, timers, the clock or a crash. A database that is down for ever is outside
  of what `settle` is about.
* **`Connection`, `CheckFlag`**: the bytes that are sent arrive, commands end, the
  database answers.
* **`ScoresPage`**: the cursor goes on and the timer of the cache fires. The errors of
  a cursor are not fair and may happen.
* **`JabbaChat`**: the web site, the chat server and the directory answer what they
  have been asked; a directory that has ended does not, hence `lost` in `CheckEnds`.

* **`Pages`**: the timers of the pages fire, that of the cached board does, and the oldest
  request under way is answered by its server and the answer shown, if it is not lost and the
  server still answers (`serving`). Losses and failing cursors are bounded like all clicks: a page
  cut off for ever shows nothing new, and neither does one whose server was silenced, which
  `PollersCatchUp` excepts.

## 5. Proofs

`CTFdProofs`, `ConnectionProofs`, `ScheduleProofs`, `CheckFlagProofs`, `ScoresPageProofs`,
`TicTacToeProofs`, `HighLowProofs` and `PartsProofs` are checked by TLAPS. With them every
safety invariant and action property that a passing run checks is also a theorem. The only
assumptions are the named ones on constants, which TLC evaluates on the instances: the
configuration of the code satisfies the ones about its numbers; those of `TicTacToe`,
`Connection` and `Parts` say that markers are not values of the data (`NoUser` is no user,
`Null` no time, a name no line break), that sets of connections, visitors and times are
finite, that times are natural numbers, that a visitor is a pair, and that an alphabet has
a letter; that of `ScoresPage`, that two flags differ in team, service or time, as those of
a round do. A hypothesis of a theorem that is more than that is in its statement.

* **Daemon.** `TypeCorrect` for all teams, services, connections, requests and bounds.
  `CapturesDated` and `ChecksDated` follow from the inductive invariant `Dates`:
  everything known is of the past, and every capture and check, done or *on its way
  through a callback*, is dated within the round of its flag. The properties speak
  of the documents only, and a step that applies a write would break them without
  the part about the writes.
  `AcksRecorded` and `LossIsFinal` hold when the database answers no call with an error.
  They need `Books`: a save never meets a document (a new round is
  younger than everything known, from `Dates`), an update under way belongs to at
  most one request and names its flag and team, an answered update is stored, and
  what is left to check of an acknowledged flag began before the acknowledgement.
  The theorems cover reordered writes and crashes, and any number of requests.
* **The collection.** `LedgerImplemented`: every step of `CTFd` is a step of `FlagLedger` or
  a stutter, for reordered and failing writes and any number of crashes. The abstract
  actions have guards that the documents alone do not give: an outcome is recorded once
  (`Outcomes`: of a plant command that runs nothing is sent, and one that failed is never
  held), a check has one result (`Ticks`: a time that is being scanned, run, pushed or
  recorded is in one of these places for a flag), and no owner captures (`Thieves`).
  `CapturedOnceUnlessRaced` says when a capture is listed once: unless two
  requests of a team for one flag have both read the document before either wrote
  (`NoRace`), which `captured_twice` shows to be necessary. `Listings` is what it needs: an
  update under way belongs to the one request that waits for it, or was left behind by a
  daemon that died and is of an earlier round than any that a new daemon accepts; and what an
  update will list, or a request has found unlisted, is not listed yet. `CapturedOnceInTurn` is
  the corollary for a daemon that handles one FLAG request at a time.
  `DeliveriesSafe`: `NothingLost` when writes are applied in order and without errors, up
  to the first crash. A write that overtakes the save of its document finds none to update,
  one that fails is not repeated, and a crash forgets the commands that run.
* **Rounds.** `RoundsAreChecked` for all intervals with
  `plant_interval > max_time + check_interval + lag`, and `LateChecksFindSettled`, from
  `ScheduleInv`: a round not looked at was too young at the last check tick, and what a
  command has left of its time is what the round has left, give or take its start.
  `ChecksStayInOrder` for all intervals with `check_interval > max_time + pause + push lag`,
  from its part about `pushIn`: the time since the last check and what is left until its
  push together are no more than a check and its push take.
* **Start and stop.** `DaemonStaysInHand` for any number of calls of `start` and any teams, from
  `LifecycleInv`: the one call of `start` makes one count of the flags, and until that is
  answered no timer runs. (A second call is outside of `DaemonInHand`; see section 3.)
* **Receiver.** `WaitingClientIsUnderstood` and `WaitingClientIsAnsweredInOrder` for any number of
  lines and flags and any cuts of the stream, if the client waits for its replies (`Waits`;
  `pipelined` shows what happens otherwise). `LineInv` says that at any time all is quiet, or one
  line is on its way (`Underway`): what the parser holds and what the wire holds are together
  that line, which has one run of line breaks, at its end. `_parse` waits for an LF, which
  is the line's last character: until it has arrived, a cut between CR and LF included, the
  buffer stays as it is, and then the line is emitted whole, once, and leaves nothing over
  (`Quiet`). `Parsed` is a recursive function on
  the number of rounds of the loop; the lemmas about it compute it for such a text.
* **Score page.** `CacheStaysInOrder` for any requests, boards and errors of the cursor, from
  `CacheInv`: a board under way means `generating`, and there is at most one.
* **Boards**, for any teams, services, collection, ranks and requests.
  `CurvesEndWhereTheTableSays`: a fold over a finite set of documents is a sum over them, by
  the smallest set for which it is not (`SmallestSet`), and does not depend on their order. So a
  row counts events (`RowOf`), what a document adds to the curve is worth what it adds to the row
  (`EarnedIsCounted`), and the curve ends at all of it (`CurveEnd`).
  `GraphsTellTheSame`: the other observers gather the same sums (`Observed`), a table summed by
  rows or by columns is the same (`SumsSwapped`), so that what all teams stole is what all lost
  and what all services lost, and a chart shows every sum as one bar at a place of its own
  (`ChartShows`).
  `NothingTakenBack` from `PageInv`: a document only grows (`Extends`); what a scan must read is no
  older than any board that was served, and what it has read is no older than what it must
  read (`ScanIs`, `BoardIs`); and what is later is worth no less but for defences (`LaterBoard`).
* **Checks of a service.** `CheckVerdictRight`, `CheckCalledOnce` and
  `CheckLineOfCulprit` for any number of modified flags, any exit codes and any order,
  from `CheckInv`, which says what the shared variables hold after any subset of the
  callbacks has run.
* **TicTacToe**, for any number of players and names. `TypeCorrect` is not
  inductive by itself: what a player does to a game is well-formed only if it plays
  in it. `Matches` says so, and relates the turn to the number of
  tokens of each player; with it `RulesAreKept`. `GamesArePaired` holds whether players wait or not, from `Pairs`:
  who is in the list has an opponent that plays the same game and is in the list or just leaving,
  and who is just leaving has one that plays the same game or none any more, unless that opponent
  is `torn`. It needs `Matches` to know that the opponent is somebody else. The other theorems need
  players that wait for the answer to a login (`Waits`). `LoginsArrive` rests on `Files`: a queue
  has one event for each file that is there, and a client has one file or answer under way, the one
  its player awaits. `NamesDoStay` adds `Logins`: who awaits the answer to a login has no name until
  `SetName`, and is `authenticated` before anything else is heard from it.
* **HighLow**, for any number of connections, slots, users and packets. `ClientsFit` from
  `Seats` (a slot is free or the place of one connection) and `Batched` (what is still in the
  batch is an event of a connection that has its slot: the reason why a client freed in
  the middle of a batch cannot be found there again). `TableStaysRight` from `Books`: the
  number of games that a client counts from is the one in the table, for every user that is
  logged in once.
* **Pages**, for any number of requests. `PagesShowOwn` from four parts: `One` (while nothing
  went wrong at most one request of a kind is under way), `Loads` (what is loaded is for the
  week that is shown and not older than the user's change), `Agreed` (page and session of the
  server differ only while a login or logout is under way, an answer that a login has succeeded
  is true, and LeetPhorum's session may be there without its page) and `Shown` (without a load under way
  the page shows what it should); while a form fades nothing is under way and nothing shown.
* **The page of JabbaChat**, for any visitors and stanzas. `RoomListsThoseThere` while the
  page is not deaf, from `Ids` (a number belongs to one person: `FreeNumber`, by counting,
  shows that there is one left for a newcomer), `Connections` (the page counts each
  connection once, but for those of a second presence), `Present` (the chatters are those
  who are there) and `LookedUpAll` (chatters that are not known are asked for or have no name; who
  is listed is a chatter; when nobody is asked for and all have names the list is full, and the
  first message is by somebody who is not there). `FlushedStops` says
  where the loop over the waiting messages ends.
* **Pings.** `PingsToldApart` for any alphabet and any number of timers. `NextIdCounts`: ids are
  ordered by length and then by their highest digit that differs, and `next` adds to
  the numbers up to the present one exactly itself; `HighestPlace` stands for an induction
  over the digits. So the ids issued are all the numbers up to the present one (`Issued`).

* **The check of JabbaChat**, for any people. `NothingSaidUninformed` and
  `NobodyBlamedWithoutReason` from `JabbaInv`: the handlers that are set fit what the program
  waits for (`HandlersFit`); an answer under way is to a query not later than the last one, an
  answer to the last one is about the person it was sent for, and an error only about somebody
  unknown or from a directory that has ended (`Expected`); everybody met is known, has been
  asked for or is yet to be (`Progress`). At most two handlers are set; a stanza calls those it
  matches one after the other (`HandledByTwo`), and those that return true stay.
* **The replay.** `ReplayShowsEveryFrame` if the highest speed times the longest time between two
  repaints (`Gap * MaxSpeed`) is no more than two seconds, the shortest frame; the code asks
  for a repaint as often as the screen is drawn. `Replaying` says that all frames that began before
  some moment are shown, and that the time of the replay has passed that moment by no more than
  the time since the last repaint allows, at any speed; a change of speed moves the
  beginning so that the time stays.

Only model-checked, and why:

* All liveness: fairness and `ENABLED` are out of the prover's reach (`DeliverySettles`, `CheckResultArrives`, `VerdictComes`, `EveryLineAnswered`,
  `EveryRequestServed`, `CheckEnds`, `PollersCatchUp`).

TLAPS cannot use its library's induction theorems here, which take an operator as a parameter.
Where a proof needs an induction it takes the least counterexample: of numbers by `FirstOf`, of
finite sets by `SmallestSet`.

## 6. What the models leave out

* Flags are distinct and not guessed: 64 random hexadecimal digits.
* A cursor of MongoDB returns every document once. Documents that it returns twice
  because they were moved by an update are not modelled.
* Time in `CTFd` is a clock that does not go back; no two rounds have the same time.
* Replies are codes; the wording, logging and formatting are left out.
* Of the pages: layout, colours, plots and positions (in `html/viz.js` the classes before
  `TimeFrame` and `drawLine`), dialogs of jQuery UI beyond their buttons. Templates and the
  other programs of `bin/` are glue.
* `services/WebServer/src/static/js/jquery-1.5.1.js`, two thirds of the repository's
  JavaScript, is a library; the pages use it through `$.ajax`, which `Pages` models.
* Of the servers of LeetPhorum, MyStatus, Barbershop and WebServer a request is one step: the
  session, whether a change is accepted, and how many there have been. What is stored is not.
* The form to add to the yellow pages is only transparent when the page has loaded, and lies
  below the one to search: nothing is sent with it before its button has been chosen.
* A command of a player of TicTacToe is one step of the main thread; the second thread comes
  between commands and between the two halves of `set_state`. Without `Waits`, a second file of a
  client replaces the first as a whole; a file that is read while it is written is left out.
* The file in which `scripts/flag_deliver` notes what it has sent: a flag is noted before it
  is sent, and one whose connection fails is not sent again.
* The random draws of `flagfactory.js`, and the choice of modified characters in
  `lib/servicecommandexecuter.js`.
* Services that handle one request at a time with a database behind them.

`PROJECT.json` maps definitions to lines. A helper whose lines lie within those of the
definition that uses it is not listed again.

## 7. Plan

1. FileServer (the counter per address, `accept` blocked by a header, a file read
   while it is written) and TheQuotinator (pool of clients, authors, restart), as
   further parts of `Parts`; the file of `flag_deliver`.
2. Proofs: the step lemmas that liveness rests on (what a fair action leads to, and what does
   not undo it), as far as they need no `ENABLED`.
