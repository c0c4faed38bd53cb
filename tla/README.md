# A verification project for jshack.me

jshack.me is a browser game: each player works from a terminal on their own simulated
workstation, joins in-game WiFi networks, logs in to other machines and defends their own.
The client is one single-page program; the server is four Vercel functions (`api/*.ts`)
over a Postgres database. What several players see of one another is in six tables, and
**every write of them is a sequence of separate database calls** made by a function that
holds no lock between them. Only the SQL functions are transactions, and they too read
before they lock, wait, and lock several things. That is where the
hard behaviours are, and what this project is about.

Paths below are of the repository; a module's `\*` comments name the function it models and
`PROJECT.json` maps every definition to its lines.

## 1. The system

| Component | State | Operations | Talks to |
|---|---|---|---|
| Sessions (`src/core/sessions`, `api/sessions.ts`) | `sessions`: one row per shell, with its player, machine, parent, network, tier and how it ended | create, end, list, reboot, su, logins (LAN, same-LAN, public, inner gateway, exploit) | reads occupants, leases and the journal; a reboot writes the journal |
| Networks (`src/core/network`, `api/network.ts`) | `home_network_occupants` (who is on which network), `network_lan_leases` (at which address) | join, leave | a join and a leave end sessions; a join reads the player's town |
| Rideit (`src/core/rideit`) | `player_locations` (town, trips taken) | ticket, board | reads the wallet; boarding leaves every network and ends sessions |
| Wallet (`src/core/wallet`, `api/wallet.ts`, SQL) | `wallet_balances`, `wallet_transfers` | mint, transfer, balance, history | none |
| Journal (`src/core/patches`, `api/patches.ts`, SQL) | `patches`: every writer's changes to every machine's files, replayed in `updated_at` order | upsert, remove, list, append a log line | reads sessions (authority); a firmware write reboots |
| emailit, talkit (SQL functions, `scripts/talkitRemove.ts`) | accounts and their mailboxes, threads and comments, four counts of recent requests per player | sign up, log in, read, delete, send, change the password, post, comment, remove | talkit logs in with emailit's accounts |
| Hireme (SQL functions, `src/core/hireme`, `src/core/missions/clientMail.ts`, `scripts/hireme.ts`) | boards and the contracts on them | apply, read a board, accept, drop, mail a key, the operator's accept, drop and post | locks the contractor's mail account; pays into the wallet; decides which networks answer |
| Terminal (`src/ui/state.ts`, `src/adapters`) | the hop stack, the working directories, the journal as last read, the connection in local storage | push, pop, rehydrate, poll for a new boot id | sends most writes without waiting for them |
| Guardian (`src/core/guardian`, `scripts/guardian.ts`) | none | patch, rotate, restore | writes the journal, ends sessions |
| World generation, missions, services, CVE tables | none: functions of a seed | | |
| Shell, filesystem, commands, scripting | one tab's, synchronous | | the terminal |

Every mutating request is signed; its key becomes `player_key` and a request never names
another's. All modelled calls are verified ones: a request that fails its signature, its
shape or its freshness changes nothing.

### What is hard here

* **Interleaving.** Two requests, of one player or of two, run between each other's calls.
  A login reads who is on a network and inserts its row several awaits later; a disconnect
  deletes the occupancy and then sweeps the sessions.
* **Partial failure.** A call answers an error or the function is cut off; what it wrote
  stays. The code orders its calls for this (the leaving before the move, the rows before
  the boot id, the lease before the occupancy).
* **Cascades.** Sessions stand on one another through `parent_session_id`, which has no
  foreign key. Closing one closes the chain above it, one rung per call, while others
  close and open rows of the same chain.
* **Transactions that read before they lock.** `wallet_transfer` locks the rows it finds;
  `now()` is when a transaction began, however long it then waited for its lock; a client
  of Hireme decides on jobs it read in an earlier transaction.
* **Lock orders.** The mail functions take a player's advisory locks and accounts' row locks,
  and `email_passwd` takes them the other way round; the operator's desk enters a job in a unique
  index before it asks for the contractor's row, and an accept after.
* **A terminal that does not wait.** A tab creates and ends rows and pulls trees without
  waiting for the answers, and learns that it was thrown out only by asking.
* **Liveness.** A chain left half broken is to be mended by "the next listing of it"
  (`rebootSequence.ts`).

`PROJECT.json` lists each hazard at its line, with the properties that would catch it, or
why none does yet.

### What makes each component correct

Sessions: a row opens once and closes once, for a reason that is true of it; what a player
cannot reach any more is closed; a reboot tells only after it has evicted. Networks: one
address has one occupant; a box that left its network carries no connection. Rideit: one
fare, one trip. Wallet: coins are conserved; an order lands once; transfers do not wait on
each other forever. Journal: the last write at a path is what everybody reads; no system line
is dropped by another; nobody touches another writer's row; a restored box is clean of the
shells it ended. emailit and talkit: a number names one message or comment for good; the caps
hold however many requests race; whoever changes a password first keeps the account; every
request is answered. Hireme: three slots and one job per handle; a job pays once and its
contractor is told the truth; a network that stood stands for good. Terminal: no line runs in
a shell the player was told they lost, and no shell is closed without a reason.

## 2. The modules

| Module | Models | Reads |
|---|---|---|
| `Sessions` | the sessions table, the occupancies, the boot ids; create, exit, login, su, list, reboot, leave, join, board | `createSession`, `endSession`, `listSessions`, `rebootMachine`, `rebootSequence`, `upstreamLost`, `authElevateSession`, the three `authCreateSession*`, `registerNetwork`, `unregisterOccupant`, `board`, and their database calls in `api/` |
| `SessionLife` | the abstract specification of one table row; `Sessions` implements it | the same writes, stated without the handlers |
| `Travel` | occupancies, leases, towns, trips and fares; join, leave, board, pay | `registerNetwork`, `allocateLanLease`, `unregisterOccupant`, `board`, `fare` |
| `Wallet` | balances, sequence numbers, the transfer log, row locks and open transactions | the three wallet migrations |
| `Ledger` | the abstract specification of a mint and a transfer, one step each; `Wallet` implements it | `wallet_transfer`, `wallet_mint`, stated without statements and locks |
| `Rides` | the abstract specification of a ride: the next trip, paid at its own address; `Travel` implements it | `board`, `fare`, stated without requests |
| `Journal` | one machine's rows, the requests that write them, who stands on the machine, the guardian | `upsertPatch`, `removePatch`, `append_machine_log`, `applyPatches`, `orderPatchesForReplay`, `authorizeMachineAccess`, `guardian.ts`, and the clients' writes |
| `Mail` | accounts, mailboxes, threads, the four counts, every lock and the open transactions | the `email_*` and `talkit_*` migrations, `handleResolveMail`, `talkitRemove.ts` |
| `Contracts` | the missions and boards tables, the account locks, the letters the clients sent, the requests and the operator's orders | the `hireme_*` migrations, `hireme/contracts`, `hireme/apply`, `missions/clientMail`, `scripts/hireme.ts` |
| `JobNetwork` | the abstract specification of which contract networks answer; `Contracts` implements it | `hireme/boards` (`networkByPublicIp`) |
| `Terminal` | one tab: its stack, its trees, the boot ids it read, its line in hand, and the rows and boot ids on the server | `state.ts`, `sessionRehydrate`, `runLine`, `sessionsApi`, `su`, `ssh`, `exit`, `ftpShell`, `bootId` |
| `MCSessions`, `MCTravel`, `MCWallet`, `MCJournal`, `MCMail`, `MCContracts`, `MCTerminal` | constants, inputs and symmetry for TLC | |
| `SessionProofs`, `TravelProofs`, `WalletProofs`, `JournalProofs`, `MailProofs`, `ContractProofs`, `TerminalProofs` | the theorems about the module of that name | |

### How a handler becomes actions

`calls[w]` is one request in flight: `step` names the database call it makes next and the
other fields hold what it carries there. An action is one database call with everything the
handler does up to the next one; guards are its early returns. `Fail(w)` ends a request
before any call: a 500, a time-out, a function cut off. Nothing it wrote is undone, because
nothing in the code undoes it.

* *Login.* `StartLogin` is the vantage check (`resolveCallerVantage`: where the caller's own
  row or own occupancy puts them); `Resolve` is the occupancy read; `Insert` the row. A login
  to a generated host skips `Resolve`: a host is always on its network. The reads between
  them (patches, passwords, doors, firewall) can only refuse, and a refusal is `Fail` or a
  request never begun; what they log is the journal's.
* *Leave.* `DeleteOccupant`, `EndVisitorSessions`, `EndOwnSessionsAway`, then one
  `EndSessionsAbove` per rung. `Answer` is the response.
* *Join.* `StartJoin` (the town check and the lease, which `Travel` models), `DeleteOtherOccupancies`,
  the same sweep where something was deleted, `UpsertOccupant`.
* *Reboot.* `StartReboot` (the authority), `EndMachineSessions`, `WriteBootId`, the cascade.
  A firmware write in `upsertPatch.ts` runs the same sequence under the same authority.
* *List.* `ListSessions`, `FindEndedSessions`, the cascade, `Answer`.

A machine that is a player's workstation *is* that player: the code decides
`isOwnWorkstation` by comparing the id with the key. (`registerNetwork.ts:174` stores the id a join
names without that comparison; the model takes a join to name its caller's own.) Time appears as the order of inserts
(`born`), which is all `created_at` is read for. An ended row drops the columns that are
read only while a row is open. Session ids are minted by clients; a parent may be an id
whose row is not inserted yet, because the client does not wait for its own writes.

`Travel` carries the other half of the same three handlers, where sessions do not matter
and one step stands for the sweep. The two modules are separate because their product
is out of TLC's reach and because they share only the occupancy table, which each models
whole.

`Wallet` has one action per SQL statement. At READ COMMITTED a statement reads what was
committed when it began and waits for a row that is locked; a transaction's own writes are
published in `Debit`, which commits. `locks` also holds the key of a row a transaction is
inserting. `wallet_mint` is one step: it locks one row and holds nothing else.

`Journal` is one machine. `journal` is its `patches` rows, keyed by path and writer; a row that
does not exist has stamp 0. `clock` is `updated_at`: the server stamps every row as it lands
(`clock_timestamp()`), so no two carry one stamp and the tie-break of `orderPatchesForReplay`
is left out. A file's content is the sequence of the stamps its lines were written at, which
tells any two writes apart and two equal contents equal.

* *Reading.* `Shown` replays the rows over the generated tree (`ApplyOne` is `applyOne`, on
  the directories of `Above`). Directories carry no owner and no mode.
* *Writing.* `OpenEditor`, `SaveEditor`, `CheckBase`, `WriteFile` is a save with a `base_hash`,
  one step per database call; `Redirect` is a write that names none. What a client's command
  refuses is left free, because the client looks at a tree as old as its last read; so is the
  permission tier, which only refuses. A save of an open file names what was shown when it
  was opened, however long ago that was.
* *Removing.* `DeleteRow` and `DeleteDescendants` (a LIKE pattern, so `Like` may hold more than
  what is beneath the path), then `Tombstone`, each its own call; a request may die between them.
* *Logging.* `ReadLog` takes the lock on the path and reads, `AppendLog` writes and commits.
* *Guardian.* `SweepSessions`, `EmptyJournal`, `WriteCleanBox` are a restore, `ReadRound` and
  `WriteRound` a round. They act on machines nobody owns (`Owner = None`).

`shells` says who has an open session on the machine, which is what lets a write in; opening
and closing one is the business of `Sessions`. `by` and `removed` and `touched` are history:
whose request wrote a row, and when. `"caught"` is a request let in before the sweep: it is
the one way for an ended shell to write on the clean box, and the hazards list it.

`Mail` has one action per statement that locks or writes, over transactions that begin once
and do one thing. `asked[t]` is what a transaction was asked, `step[t]` its next statement and
`After` the order of a function's statements; `Wants(t)` is the lock that statement takes, `Waits`
that another transaction has it. What a transaction wrote appears when it commits, with its last
step: until then its rows are locked and nobody could tell. The windows of the caps age between
any two looks (`\E kept \in 0..n`), so a count is the rows not yet too old. Advisory locks are
keyed by player, as `hashtextextended` keys them, and two keys are taken never to collide.
`arrivals` is history: every message ever delivered. `Detect` is PostgreSQL's deadlock detector,
`Lost` a statement that fails. Only `email_messages`' UNIQUE is an outcome of its own
(`"collided"`), so that `NoneCollides` can say it never happens.

`Contracts` has one action per statement under the account's lock, and one per call of a door or
of the operator's script. A door (`board`, `accept`, `drop`) reads the board with `CountSlots` and
`PostOffers`, offers more candidates while the board is short (`Door`), acts once, and reads it
again (`Reread`). A mail is `OpenJobs` (the jobs read without the lock, and the client's decision),
`CheckDone`, `Complete`, or `Reply`. `began` is `now()`: `Lock` may wait across a day and then acts
as of the day the transaction began. `letters` keeps every answer of a client, with the mail it
answers, and `minted` how often a job's pay was minted. A ref stands for the one number its handle
was shown under it. The desk's insert is two steps: `DeskInserts` puts the row and its entries in
the unique indexes (`Entries`: who would enter the same number, or a second job of the handle,
waits), and `DeskCommits` waits for the contractor's row, which the foreign key locks FOR KEY SHARE.
An accept that holds that row may wait for the entry, and two boards for each other's candidates:
these are rings, of which PostgreSQL aborts one, and `Fail` is that too. Nothing is claimed of
how Hireme's locks are ordered. The mailbox a letter lands in is `Mail`'s: the two share the lock on an
account's row, which each models whole, and their product is out of TLC's reach.

`Terminal` is one browser tab over an abstract server. `stack` holds the pushed sessions; the
base login is the empty stack. Its lines run one at a time, and `phase` is how far the line in hand
is. Beside it run the creates and ends on their way (`posts`), the trees asked for (`pulls`; an
answer is what the box carried at some moment since it was asked), whatever other requests do to
the rows and the boxes, the player's own too (`EndElsewhere`, `Sweep`, `WriteBootId`: what `Sessions`
models), and the rebuild after a reload, which is of no line's chain and lands wherever a line
waits (`Rebuild`, `Waiting`).

| Code | Model |
|---|---|
| `executeLine` reads the session and, away from home, waits for its tree | `Type`, `LineArrives`: `chain` is the stack as `shellEnv` captures it, under the session read before the wait; `mine` and `view` the boot ids to compare |
| `observeBootId` stamps the first time a session looks, from whatever tree is shown | `Observe` for the stack, `Known` for what the caller holds after it |
| `lostLegs` awaits the listing | phase `asking`; `Heard` is the moment the server reads its rows, or `Unheard` when it does not answer; phase `heard` while the answer travels |
| `runCommandLine` pops what is lost, then compares boot ids | `Judge`, which pops the stack as it stands then |
| `su` at home reads the box again, asks for the password, pushes, logs | `Reads`, `Reread`, `PushSu` or `NoEntry`, `Write` |
| a write, then the tree again (`wrapWithRefetch`) | `Write`, `Refetch`, `Refreshed`; a reboot from a shell ends in `StepOff` |
| `rebindPatchClient`, after every push and pop | `Rebind` over the states of the stack in between |

`kind` and `box` are drawn for every session at the start. `arrived`, `loaded`, `blind`, `evicted`,
`late` and `replaced` are history: the boot id when the row was inserted and when the page was
loaded, the shells stamped from no tree of their box, whether a shell of the line had ended when
its chain was read and the server answers, whether the lowest one lost was a create that had not
landed, and whether a rebuild landed under the line.

## 3. What the runs check

Bounds are constants of the configurations and nothing is capped elsewhere, except where a
guard names its bound (`MaxBoots`, `MaxTrips`, `MaxMoves`, `MaxWrites`, `MaxSessions`, `MaxMishaps`, `Days`).

| Run | Instance | Shows |
|---|---|---|
| `sessions_chains` | 2 players, 1 gateway, 2 ids, 2 requests; login, list, reboot, any cut off | `TypeOK`; `CascadesRunDown`: each call of a cascade leaves it less to walk, rings of parents included, and nobody leaves it more but by inserting a row; `RebootEvictsBeforeItTells`: the boot id changes only after every row that stood there is closed; `RowsKeepTheirPromise`: `Sessions` implements `SessionLife` |
| `sessions_networks` | 2 players, 2 networks, 2 ids, 2 requests; login, su, leave, join, board | `DropsWhatItLeft`: a handler that took a box off its network goes on only when every connection that ran through it at that moment is closed, in and out |
| `sessions_mending` | 1 player, 3 ids, 2 requests, fairness | `BrokenChainsMended`: no open row stands on an ended one forever |
| `travel_races` | 2 players with colliding derived addresses, 2 networks in 2 towns, 2 requests, 1 trip each, 2 draws | `OccupantsAddressed`, `AnswersTheLease`, `EveryTripPaid`, `TypeOK`; `RidesAreAtomic`: `Travel` implements `Rides` |
| `wallet_transfers` | 2 addresses, 2 transactions and mints, 3 movements, a cap of 3 coins | `LedgerAddsUp`, `LockedOrderLandsOnce`, `KnownAddressesNeverDeadlock`, `TypeOK`; `TransfersAreAtomic`: `Wallet` implements `Ledger` |
| `journal_shared` | 2 players, the system and the guardian on a machine nobody owns; a directory, the log in it and a file beside it the directory matches as a pattern; 2 requests, 3 rows written | `LastWriteWins`, `EveryLineLands`, `OnlyItsWriterTouchesARow`, `RestoreLeavesNoOldHand`, `TypeOK` |
| `mail_forum` | every choice of 3 of 23 requests, of 2 players, about one mailbox, two free names and a thread; caps of 1 and a mailbox of 2; fairness | `TypeOK`, `EveryNumberOnce`, `NoneCollides`, `RatesHold`, `CommentsCountUp`, `OnlyPasswdDeadlocks`, `FirstChangeKeeps`, `PlayerMailFits`, `EveryRequestAnswers` |
| `contracts_desk` | every choice of 2 of 16 requests, with a right mail or the operator's drop beside them, over 4 records; 2 contractors, 2 clients, 3 numbers, boards of 2 slots, 1 day passing | `TypeOK`, `SlotsHold`, `OneActiveJob`, `PaidOnceAndTold`, `ClientsTellTrue`, `BoardMailedOnceADay`; `NetworksStand`: `Contracts` implements `JobNetwork` |
| `terminal_hops` | 1 tab, 2 sessions (hops or ftp, at home or on another box), 1 reboot of either box or 1 reload of the tab, every answer late, lost or out of order, the rebuild anywhere a line waits | `TypeOK`; `EvictedNeverRuns`: a line runs only in a shell none of whose legs had ended when the line read its chain, if the server answered; `ClosedForAReason`: a line no rebuild lands under closes a shell only when its row ended or had not landed when the server was asked, its box rebooted since it was let in (the own box: since the page was loaded), or no tree was in hand |

Three runs check a statement of a comment that the code does not keep; each ends in a
counterexample, and `PROJECT.json` quotes the line.

| Run | The comment | The behaviour found |
|---|---|---|
| `sessions_toldclear` | a disconnect that left a visitor must be loud | repeated after a failed sweep, it answers ok |
| `contracts_unpaid` | an abandoned contract pays nothing | the operator's drop closes the job it read earlier by its number alone, after a mail completed it |
| `terminal_hiccup` | a network hiccup never breaks a switch of shells; a marker is read only once its source has landed | a shell is pushed while its own box's journal, asked for at the page's load, is still on its way. Either su's re-read failed, the shell is stamped as on a box that never rebooted, and closed when the journal lands; or it was stamped rightly, and is closed when the journal fails to land |

Further disagreements, each a trace TLC gives when the statement is added to a run as an
invariant or action property of the module named:

* `Sessions`: nobody can log in between the two steps of a disconnect
  (`unregisterOccupant.ts:22`). A login past its occupancy read inserts after the sweep.
* `Travel`: a traveller is never moved while on a network of another town (`board.ts:16`).
  A join past its town check writes its occupancy after the move.
* `Wallet`: one of two transfers signed at one sequence lands (`wallet_transfer.sql:7`). With
  no row yet there is nothing to lock, and both land.
* `Journal`: a stale child row cannot resurrect part of a removed subtree
  (`removePatch.ts:9`). The remover's own `mkdir` replaces the marker that hid another
  writer's row.
* `Mail`: whoever changes a password first keeps the account (`email_passwd.sql:9`). It holds of
  accounts that exist; one signed up between the change's lock and its check was never locked.

* `Terminal`: once stamped, a session is never stamped again (`state.ts:611`). A rebuild replaces the
  stack by shells that have read no boot id, also one under a line that waits. The line's captured
  shell may be lost, or disagree with the tree now shown, and it is the top of the rebuilt stack
  that is closed, though its row is open and its box did not reboot since it was let in.
  `ClosedForAReason` without `~replaced` fails there.
* `Terminal`: a shell is lost when the server ended it (`runLine.ts:132`). A create still on its way
  when the listing is read lands before the pops, and an open shell is dropped; `ClosedForAReason`
  without `late` fails there.
* `Terminal`: a session that disagrees with its box saw the box change under it (`state.ts:611-613`).
  A journal of the own box asked for before a reboot and landing after a su takes the boot id back:
  the next line closes a shell that was stamped with the newer one. That a line closes a shell only
  on a later boot id than it held fails there.

### Why the bounds are enough

Two requests in flight are what it takes for one to act between another's calls, and every
disagreement found needs no more. Two ids give a chain of one rung with its base, or one
session of each player; the third in `sessions_mending` gives a chain two rungs high, which
a single exit breaks in the middle. Two players give an owner and a visitor; the walks and
sweeps treat any further player like the second. Two networks are what a join moves between.
The draws of `travel_races` run out (two draws, one free octet beside the contested one).
Three coins of room and movements of 1 and 2 meet the cap, the empty balance and both
orders of crossing transfers. What these bounds cannot say is said by the theorems.

Three requests are what a ring of locks with a bystander takes, and what a board takes to be
read, acted on and closed at the desk at once. Every cap of `mail_forum` is met by its second
request; every count starts at zero, and the menus are what the properties tell apart (who asks,
which mailbox, which password, which number). The menus' orders are not lost: requests differ in
nothing but what they ask, so one order of each choice stands for all. Boards of two slots are
full with an offer and a job, and three numbers leave one to draw.

Two sessions of a tab give a shell on a shell, of every kind on every box, with its row late, its
leg lost and its box rebooted between any two steps. What a third adds, a chain cut in the middle
with a shell left beneath, is what `Standing` says for any chain. One reload gives one rebuild, which
lands at the prompt or under a line. `MaxMishaps` counts reboots and reloads together: one of either
is 0.8 million states, one of each (`MaxMishaps = 2` allows that and two of one) over 5 million, more
than a run should take. What a rebuild and a reboot do to one another is left to the theorems, which
have no bound.

Three rows are what it takes for a write, a removal and a write over it by three hands, two
queued appends and a third writer, or a restore with two requests around it; `journal_shared`
needs two for each of its mutants to fail. Every property of that run is also proved, for any
number of rows, paths and writers.

Symmetry is declared over players, ids, requests and transactions, which the
specifications treat alike, and never in a run that checks liveness.

Runs set `CHECK_DEADLOCK FALSE`: with its ids spent, or its trips and movements at their
bound, an instance stops; a server that nobody calls does too. Waiting on one another
inside the database is checked by `KnownAddressesNeverDeadlock` and `OnlyPasswdDeadlocks`, not by TLC's deadlock test.

### Fairness

`FairSpec` of `Sessions`. `WF(Continue(w))`: a request in flight makes its next
call; the functions run to an answer unless cut off, and `sessions_mending` leaves `Fail`
out, as a cut-off listing is repeated. `SF(ListSessions(_, p))`: a player who comes back
lists their sessions, for whenever a slot is free again and again one of their listings is
served; the client lists on every page load (`src/ui/state.ts`), and the
claim is about players who return.

`FairSpec` of `Mail`. `WF(Step(t) \/ Detect(t))`: PostgreSQL runs a statement that is not waiting,
and after `deadlock_timeout` looks for the ring a waiting one is in. Nothing is assumed of which
request goes first or gets a lock next. It is enough for `EveryRequestAnswers` because a
transaction runs finitely many statements and holds its locks no longer than that.

## 4. What is proved

`SessionProofs` proves, for every set of players, hosts, networks, ids and requests, from
the named assumptions of `Sessions` (no host is a player, `None` is none of the others, tiers
are Booleans):

* `Typing`: `Spec => []TypeOK`. `TypeOK` is inductive because `Call` records what each step
  needs (a request about to insert has a box and a player; a join has its network) and
  `Row` that an open row has a box.
* `WalksStand`: `Spec => []WalksStandOnEndedRows`, that a cascade stands on ended rows of one
  player only. The invariant is inductive over `TypeOK`: a row once ended stays ended
  (`EndedStays`), keeps its player, and what a step puts in a request's walk it has closed or
  read as ended (`OnwardKeeps`, `WalksStep`).
* `WalksRunDown`: `Spec => CascadesRunDown`. The rank counts the open rows and those still to be
  walked (`LeftToWalk`). A rung that closes rows takes them from the first, one that closes none
  shortens the second, and a row another request inserts adds to the first. The loop of
  `upstreamLost.ts:59` has no bound of its own and ids are whatever clients mint, so that is all
  there is to say: a walk ends unless rows are inserted above it for as long as it walks. The
  ids may be infinitely many; that the rows inserted so far are not is part of `TypeOK`, and
  proved (`InsertedMoves`).
* `KeepsPromise`: `Spec => RowsKeepTheirPromise`, that `Sessions` implements `SessionLife`.
  Every action is a step of `SessionLife` or leaves the rows alone (`LifeStep`); the
  cascade is a `ChainBreaks` because, by `WalksStandOnEndedRows`, the rows it stands on
  have ended and are the same player's. That is why the invariant is needed: without it
  `upstream_lost` could be written on a row whose upstream is alive.
* `Drops`: `Spec => []DropsWhatItLeft`, and `EvictsFirst`: `Spec => RebootEvictsBeforeItTells`.
  Both follow from `Sweeping`: of the rows older than a request (`Old`), those its sweeps have
  passed are closed. It is inductive because no row of that age opens again: a new row is
  numbered past every request's stamp (`InsertedGrows`, `OldRowsStand`), so what logs in
  between two sweeps is never one of those the handler answers for.
* `NoVisitorStays`: `Spec /\ []SeatedUntilInserted /\ SweepsRun => []NoVisitorAfterLeave`. With a
  box on no network and no sweep of it under way, no visitor has a shell there, as
  `unregisterOccupant.ts:22` says, provided a login inserts while its box still stands where it
  was read, and no sweep is cut off. Section 3 refutes the comment without these; the theorem
  says that they are the only two ways.

`TravelProofs` proves, for every set of players, networks, towns, octets and requests, from
the named assumptions of `Travel` (its functions are typed, `None` is none of the values it
stands for the absence of, a fare costs something, an allocation draws at least once):

* `Typing`: `Spec => []TypeOK`, inductive because `Call` ties each step to its operation and
  to the fields its writes read.
* `Addressed`: `Spec => [](OccupantsAddressed /\ AnswersTheLease)`, and `LeaseAnswered`, the
  second half alone. The inductive invariant is
  `Addressing`: no two players hold one octet (`OneHolderEach`, what `Cardinality <= 1` counts),
  none stands on a host's, every occupant holds a lease, and a join past its lease knows the
  address it holds. The last part is what makes the first inductive: `UpsertOccupant` writes
  an occupancy without looking at the leases again, and may, because a lease once bound is
  never rebound (`LeasesStand`).
* `TripsArePaid`: `Spec => []EveryTripPaid`, over `PaidBoardings`: a boarding past its fare
  check read a fare that is still there (`PaidGrows`: nobody spends from a trip's address),
  and the row it writes still names the trip count it read.
* `OneRide`: `Spec => RidesAreAtomic`, that `Travel` implements `Rides`. The only step that is not
  a stutter and not a payment is the boarding's write (`RideStep`), and `PaidBoardings` is what
  makes it a `Ride`: the trip count it read and the fare it saw still hold as it writes.
* `AtHomeInTurn`: `Spec /\ []OneRequestEach => [](NeverAbroad /\ AtMostOneNetwork)`. Where no player
  has two requests in flight, a traveller is on no network of another town (`board.ts:16`) and on
  one at most, whatever other players do and wherever a request dies. TLC finds both broken
  without the condition; what the code keeps is the order of the calls within one request.

`WalletProofs` proves, for every set of addresses, amounts, orders and open transactions, from
the named assumptions of `Wallet`:

* `Typing`: `Spec => []TypeOK`, so no balance goes below zero or past the cap. `TypeOK` is not
  inductive alone: the debit adds to a balance that an earlier statement judged. With
  `CreditsFit` it is, because the credited row stays locked (`LocksStand`) and nobody moves
  the coins of a row another holds (`RowsStand`).
* `LandsOnce`: `Spec => []LockedOrderLandsOnce`, over four invariants: a transaction holds the
  rows its first statement found (`HoldsWhatItSaw`), so a number it read is still its
  sender's when it debits (`ChecksStand`), while every number on record is below its
  sender's (`NumbersUsedUp`). The condition "locked" is needed: two orders that begin before
  their sender's first coins lock no row, and both land (`OneTransferPerSequence`, stated in
  `Wallet`, is false).
* `LedgerAdds`: `Spec => []LedgerAddsUp`. `CoinsMove` says what any step does to the balances and
  the record: nothing, or one row more and its amount moved. `Total` is a recursive function,
  so that its recursion has exactly one solution is proved first (`SumsExist`, `SumsUnique`), by
  an induction on a set of places (`Climbing`), and then that a row more adds its amount
  (`TotalOfAppend`).
* `SequenceCounts`: `Spec => []SequenceCountsTransfersOut`: a number is used by a transfer that
  landed and by nothing else.
* `OneStep`: `Spec => TransfersAreAtomic`, that `Wallet` implements `Ledger`. All statements but the
  last are stutters. The last is the whole transfer judged on the ledger as it then stands,
  because the number and the balances it read are locked rows (`ChecksStand`, `HoldsWhatItSaw`),
  and a row it did not lock was not there.
* `NoDeadlock`: `Spec => []KnownAddressesNeverDeadlock`. Rows are taken lower address first
  (`LocksRise`), and a holder that still locks has that row behind it (`HeldIsSeen`). In a ring of
  transfers that knew both their addresses everyone is still locking, so each waits for a
  lower row than its holder does (`RingClimbs`); the addresses are finitely many
  (`NoEndlessClimb`).
* `SomeoneGoesOn`: `Spec => []SomeTransferGoesOn`. If every open transfer waited, and all knew
  their addresses, they would be such a ring.

`JournalProofs` proves every property of `journal_shared`, for every tree of paths, set of
writers and number of requests, from the named assumptions of `Journal` (the directories above
a path are a strict order, what the world generates is a tree, a LIKE pattern matches at least
what is beneath the path, `None` is none of the values it stands for the absence of):

* `Typing`: `Spec => []TypeOK`, over `Typed`, which adds that a request names the player and the
  path its next call writes, and that no two rows carry one stamp nor any a later one than the
  clock.
* `LastWrite`: `Spec => []LastWriteWins`. `Replay` is a recursive function over the stamps, so
  the proof is an induction over them. The prover cannot instantiate the library's induction
  theorem, which takes an operator; the induction is on a set instead: the stamps at which the
  claim fails, if there are any, have a least (`Least`, from the well-foundedness of `<`), and
  the step before it holds (`Counting`). `ReplayExists` and `ReplayStep` are the recursion equation.
* `LinesAreKept`: `Spec => []EveryLineLands`. Inductive is `Lines`: one request holds the lock, what
  it read ends in the lines landed since anyone else wrote, and so does the system's row, which
  is then the newest of all (`LogHolds`).
* `Restored`: `Spec => []RestoreLeavesNoOldHand`. `Restoring` adds that from the sweep on no
  shell is old and no request in flight has an old hand, so none writes after the wipe.
* `OnlyWriters`: `Spec => OnlyItsWriterTouchesARow`.
* `OldRowsStayHidden`: `Spec => []MarkersHideWhatIsOlder`: as long as a deletion marker stands, a file
  shown at its path or beneath was written after it, and is one writer's row as it stands. It
  follows from `SeenAll`, the induction behind `LastWrite`: a file shown outlives every later row
  that hides it.
* `RemovalsLand`: `Spec => [][RemovalsTakeEffect]_vars`: when a removal answers, nothing is left at
  its path nor beneath, whatever others wrote there between its calls. Excepted is a path its own
  player made a directory of meanwhile: the marker then keeps the row's kind. These two are what
  `removePatch.ts:9-11` may claim; section 3 has the trace of what it may not.

`MailProofs` proves every safety property of `mail_forum`, for every set of handles, players,
passwords, threads and requests, whatever they ask. One inductive invariant (`IInv`) carries
them: a request at a statement after a lock holds that lock (`MailboxHeld`, `OwnHeld`, `RoomKept`,
`ThreadHeld`), the number it read is still the next (`NumbersRun`, `RoomInside`), and the locks a
request holds all rank below the one it asks for unless it changes a password (`HeldBelow`).

* `NumbersAreGivenOnce`, `NothingCollides`, `ThreadsCountUp`: what was read under a lock holds until
  the lock is released.
* `CapsHold`, `MailFits`: a count read under the lock cannot grow before it is acted on.
* `OnlyPasswdsDeadlock`: in a ring without a password change the rank of the lock asked for
  would rise at every step along the ring; a rank is one of three, so there is no such ring.
* `FirstChange`: a settled account is locked from before the check to the change.
* `StatementsRunOut`: `Spec => [][OneGetsNearer]_vars`. Every step is of one request, whose statements
  left (`Left`) become fewer, and leaves the place of every other alone.
* `SomebodyGoesOn`: `Spec => [](NothingKept /\ SomeoneGoesOn)`. A closed request keeps no lock, so
  whoever waits waits for an open one; if all open requests wait they are a ring, it has a
  password change in it, and `Detect` may break it. With `StatementsRunOut` this is the safety
  core of `EveryRequestAnswers`; what is left to TLC is that fairness then makes the step happen.
  (`Waits` is of locks. `Post` also draws a thread's id, which the instance must have left.)

`ContractProofs` proves every property of `contracts_desk`, for every set of handles, numbers,
clients, addresses, days and requests. `MissionsMove` says once what any step does to a row;
`StepAlone` that a step changes only its own request. The inductive invariant adds to the
properties that the slots a request counted under the lock are still all there are
(`SlotsCounted`), that a request holding a job's number read it from that handle (`NumbersInHand`),
that a completed job has its letter and an abandoned or completed one never comes back
(`EndsAreTold`), and that a board's last mail is on record (`BoardsMailed`).

* `SlotsAreNeverPassed` needs the cardinalities: what a step posts is disjoint from what was
  counted, and what it burns was counted out.
* `OneJob` holds although the desk takes no lock: an insert of the desk not yet committed has a
  number without a row and a handle without a job, and nobody enters either before it commits
  (`EntriesStand`).
* `PaidAndTold`, `TrueLetters`, `MailedOnce`.
* `EachJobLivesOnce`: `Spec => [][OneLife]_vars`: a number has one contractor for good, is paid by the
  step that completes it and no other, and moves only along the listed pairs of states; out of
  `"completed"` it moves by the desk's close alone.
* `AbandonedUnpaid`: `Spec /\ []DeskIsNotOvertaken => [](AbandonedPaysNothing /\ PayStands)`. The run
  `contracts_unpaid` refutes `AbandonedPaysNothing`; where no mail completes the job between the
  desk's two statements it holds, for any number of handles and requests.
* `StepsRunOut`: `Spec => [][OneGetsNearer]_vars`, by the rank `Left`: rounds are bounded
  (`RoundsBounded`), a door acts once and then only reads again.
* `Refinement`: `Spec => Net!Spec`: a burned number has no step out of `"burned"`, and the three
  states that stand have steps only to one another.

`TerminalProofs` proves every property of `terminal_hops`, for any boxes and any numbers of
sessions, reboots and reloads. The inductive invariant (`IInv`) ties the tab to the server. `From(s)`
is the least boot id shell `s` may have read: that on the box when its row was inserted, or on the
own box when the page was loaded. A tree asked for by a shell is of the box it stands on and no
older than that (`PullsSeeNoPast`, `HomeTreesSince`), and so therefore is the boot id stamped from it
(`StampSinceArrival`). The line in hand is tied to the stack it will pop: the shell it runs in is the
one in use and holds the boot id the line holds, unless a rebuild landed under it
(`LineStandsInItsShell`).

* `NoneRunsLost`: `Spec => []EvictedNeverRuns`. A leg lost when the line read its chain is still lost
  when the server reads its rows (`LossStays`), because a row that ended does not open again: a
  create is on its way only for a row that has none yet (`RowsToCome`).
* `StampsAreTheBoxes`: `Spec => []StampSinceArrival`, which is `ClosesForAReason`'s core.
* `ClosesForAReason`: `Spec => ClosedForAReason`: a shell's boot id and the view's are both its own
  box's since the shell was let in, so if they differ the box rebooted in between. The exceptions
  are needed: a line or a shell with no tree in hand (`terminal_hiccup` is the counterexample
  without them), a row that had not landed, a rebuild under the line (section 3).

Three theorems have a condition on the schedule: `NoVisitorStays`, `AtHomeInTurn` and
`AbandonedUnpaid`. Each is the true part of a comment that TLC refutes without it, and the
condition names the race; it assumes nothing of the constants and many behaviours meet it.
`StepsRunOut` and `StatementsRunOut` are safety: that no step makes a request's work longer. So is
`WalksRunDown`, where only an insert does. That the steps happen is fairness.

Every safety property of every passing run is proved. Only model-checked are the two liveness
properties, `BrokenChainsMended` and `EveryRequestAnswers`: fairness and `ENABLED` are beyond the
prover. The counterexamples of section 3 are TLC's too: a trace is found, not proved.

## 5. What is not modelled

Credentials, doors, ports, firewalls, bricked machines, log traces: they refuse a login or
record it, and the model lets any login it cannot decide go either way. The exploit, local
exploit and inner-gateway logins insert a row the way the modelled logins do; their own
gates are generated data. Signatures and clocks. World generation, missions' shapes, pages
and rendering: pure functions, which the repository tests over many seeds. Of the journal:
permission tiers, owners and modes, the tie-break of equal stamps, the reboot a firmware write
runs (the sequence is in `Sessions`), and the paths of a guardian's manifest and passwords. Of
the mail and the forum: texts, subjects and pages; `last_activity_at` of a thread, which is when a
commenter's transaction began and may move back; the cascade of an account's removal, which
nothing in the code performs. Of a tab: backdoor sessions (`nc`), hints
between tabs, a second tab, the mail timer, what commands print. Of the listing a reload
reads, its own mending of chains (`Sessions`).

Most of the repository's lines are of these kinds: generators, pools of names and texts, commands
and their output, tests and pages.

## 6. Plan

1. `Sessions`, `SessionLife`, `Travel`, `Rides`, `Wallet`, `Ledger`, `Journal` and their proofs: done.
2. `Mail`, `Contracts`, `JobNetwork` and their proofs: done.
3. `Terminal` for one tab and its proofs: done. A second tab of one player, whose rebuild ends
   what the first still holds, is the next thing to model.
4. Proofs: every safety property is proved, with two more refinements (`Ledger`, `Rides`) and the ranks that
   bound every loop. What is left is the liveness those ranks are the core of, should a prover
   for `ENABLED` be at hand.
