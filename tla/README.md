# claude-peers: a TLA+ verification project

claude-peers connects Claude Code sessions on several machines. Each session
runs an MCP server process that registers with a central broker; sessions send
each other messages by agent name or by session id. This directory holds TLA+
models of the code, TLC configurations that check them on small instances, and
TLAPS proofs that hold for every instance. `PROJECT.json` maps every definition
to the lines it models, lists the runs, the hazards the properties are for, and
what the violated statements show.

## The system

| Component | State | Operations | Hard part |
|---|---|---|---|
| Broker (`broker_core.go`) | SQLite tables `peers`, `messages`, `agent_names_seen`, `known_tokens`, `events`, `kv` | `register`, `heartbeat`, `claimAgent`, `sendMessage`, `pollMessages`, `peekMessages`, `ackMessage`, `unregister`; a sweep goroutine; restart | handlers run concurrently, statement by statement, with no transaction and with SQL errors ignored; sessions are evicted while their clients live on; crashes between statements |
| Tokens (`auth_ucan.go`, `auth_middleware.go`, `/refresh-token`, `mint-root`, `issue-token`) | the tokens minted, root token on disk, each machine's token, known tokens in memory and in the table | mint, delegate, authenticate, refresh, restart | chains of delegation across expiry, pruning, restart and root rotation |
| Rate limiter (`rate_limiter.go`) | a slice of timestamps per address | `allow`, `cleanup` | the clock is read before the mutex is taken |
| MCP server (`fleet_server.go`) | `sessionRef`, session state file, `pushedIDs` | start, heartbeat and rebind, push loop, tool calls, shutdown | three goroutines; a session id that changes under them; requests and responses that get lost; a state file that may not be writable; an interrupt that ends two goroutines of three |
| CLI and wrapper (`main.go`, `run_wrapper.go`, `ttl.go`) | command line, environment, token files | global flags, dispatch, `run`, `issue-token`, `save-token`, refresh | two parsers of one command line; integers that wrap; refreshes of several processes at once |
| Agent name resolution (`fleet_git.go`) | `.claude-peers-agent` files | `resolveAgentName`, `findAgentFile` | where the walk up the directories starts and stops |
| Fleet memory and dream (`fleet_dream.go`) | one text in the broker's memory and in `kv`; `fleet-activity.md` and `MEMORY.md` on every machine | `dream`, `dream-watch`, push, sync, index update | fetch and push apart; a slice shared by two goroutines; files written in place by several processes |
| NATS (`fleet_nats.go`) | external | publish, durable subscription | best effort |
| TLS, configuration, key files, JSON-RPC framing, event log | files and external services | | input and output |

The MCP servers and the CLI call the broker over HTTP with a token, through
`ucanMiddleware` and the rate limiter. The broker never calls a client: a client
learns of messages by polling, and of its own eviction by the answer to a
heartbeat.

What makes the broker correct: a message to a name reaches the session holding
the name, or waits until one does; it is never lost before it is acked (or
expires after 24 hours), however sessions end; two live sessions never own one
name or one message; the sender is told the truth about where the message went.
What makes a client correct: it has one session at a time, comes back after an
eviction, and shows its model everything it was sent. What makes fleet memory
correct: the broker's copy follows the fleet, and the files others edit too are
not damaged. What makes the command line correct: the name, the arguments and the
lifetime that were typed are the ones that take effect.

## Modules

* **BrokerDB** has the tables, column by column, and one operator per SQL
  statement. A refused INSERT or UPDATE (the unique index on names) changes
  nothing and is not noticed, as in the code. `stale` stands for `last_seen`
  before the cutoff. Columns no statement tests are left out.
* **Broker** runs every handler as one step: the design the code is written for.
  `issued`, `running`, `handed`, `reply`, `claimed` and `backfilled` (names nobody
  had held that mail in the table was addressed to when the broker was restarted)
  are the clients' side and histories the properties talk about. A client may crash at any time
  (`ClientCrash`), keep talking after it was evicted, and let its session go
  stale (`GoStale`) though it runs. `Restart` is `newBroker` on the same
  database.
* **AgentMailbox** is the abstract specification of agent mail: one holder per
  name; a letter is queued, bound, out, acked or expired. It has no tables,
  no session rows and no handlers. `Broker` maps its tables onto it.
* **BrokerSteps** runs the same statements one at a time, in handler goroutines
  (`Workers`) and the sweep. A handler's local variables are its frame, which may
  be out of date when the next statement uses it. The broker may crash at any
  point, and any statement may fail with the handler going on, as the code ignores
  its errors (`Fault`): one that writes changes nothing, one that reads returns
  nothing or, of several rows, only some. The sweep then deletes rows it has not
  listed.
* **SessionClock** has what the two modules above leave out: the clock, the
  tickers of heartbeat and sweep, lost and late heartbeats, and the times as the
  text that SQLite compares. `NanoText` is `RFC3339Nano`, which drops trailing
  zeros of the fraction, `SecondText` is `RFC3339`. One client is enough, as the
  comparison looks at one row.
* **TokenChain** has the tokens, each with parent, capabilities and expiry, the
  validator, and the durable table. A token is its number: signatures are taken
  as sound. Every machine has a `token.jwt` (`auth`) and processes that hold what
  they loaded or received (`held`); they refresh concurrently, and a response
  may come late, out of order or never (`ReceiveRefreshed` is a step of its own).
  The table is best effort as in the code: a `Save` may fail, pruning and loading
  at a restart may fail or skip rows, and the root token may be unreadable then.
  `lost` keeps the tokens this has happened to until they are in memory and table
  again.
* **RateLimiter** splits `allow` and `cleanup` into the clock reading and the
  critical section.
* **McpServer** extends `Broker` with one server process: the main goroutine,
  the heartbeat goroutine and the poll goroutine as separate actors, with the
  session id, the state file and the tool call in progress between them. Every
  request may fail before or after the broker has served it, and every access to
  the state file may fail: at startup (the path is then forgotten and the file
  neither updated nor removed, though a rebind still writes it), in a rebind, and in
  the two halves of an update after a claim. `Interrupt` is SIGINT: it ends the
  context, which the heartbeat and the poll goroutine look at between two ticks
  (`Returns`) and the main goroutine never. `outOfStep` records that the file has
  missed a change since the last rebind. `Others` is everybody else.
* **CommandLine** follows a process from its arguments through `parseGlobalFlags`
  and `main`'s switch into `run`, `server` or `issue-token`. `run` becomes claude,
  and claude starts a `server` in the environment it got, so that the session's
  name is resolved in a second process. An argument is a word or an option with
  its value; directories are sequences of components. Each loop of the code
  (`parseGlobalFlags`, `buildRunArgv`, `findAgentFile`, `parseIssueTokenArgs`) is
  an action that stands for one turn, with `at` the argument or `dir` the directory
  the next turn looks at, so that the properties about them are invariants. The
  branches of `buildRunArgv` for `--as` are there as in the code, though none is
  ever taken (see `run_as`). **Durations**, which it
  extends, is `ParseFlexibleDuration`: a text is a sequence of terms, and the
  integers have the width `WordBits`. Both have reference definitions that do not
  scan: positions of a line instead of a loop over it, the exact meaning of a
  duration instead of a rewriting.
* **FleetMemory** has the dreamers between a fetch and a push, the broker's
  memory and its `kv` row, and the events of the NATS stream. A snapshot is the
  version of the fleet it shows, which makes "older" a comparison. The append of
  the callback is split into its read and its write of the shared slice, and the
  length it then tests is read in a third step, after which the ticker may have
  emptied the slice.
* **MemoryFiles** has the two files of a machine, block by block:
  `os.WriteFile` is a truncation and a write at the start of the file, so that
  writes may cross. The code drops every error here: a file may not open, a write
  may stop after some blocks, a read after some lines, and the update goes on.
* **MCxxx** modules add the sets and the symmetry TLC needs.
* **BrokerProofs**, **BrokerStepsProofs**, **SessionClockProofs**,
  **TokenChainProofs**, **RateLimiterProofs**, **FleetMemoryProofs**,
  **MemoryFilesProofs** and **CommandLineProofs** hold the proofs about the module
  they are named after. `BrokerProofs` goes on to the refinement of `AgentMailbox`
  and to `McpServer`, which extends `Broker` and needs its invariants;
  `CommandLineProofs` also has those about `Durations`.

How they fit together: `BrokerDB` is used by `Broker` and `BrokerSteps`,
`McpServer` extends `Broker`, `Broker` refines `AgentMailbox`, `CommandLine`
extends `Durations`. `CommandLine` decides the agent name that `McpServer` takes
as an input and the lifetimes `TokenChain` takes as parameters; `SessionClock`
bounds the `GoStale` of `Broker`, which may happen at any time; `FleetMemory`
leaves the files to `MemoryFiles`.

Operators whose comment begins with "Mutant of" are plausible slips in one
definition (a dropped reset, a missing check). They are used by no
specification: putting one in the place of the definition makes TLC report the
property `PROJECT.json` pairs it with, which shows that the property can fail.

## Runs

`tlc -config X.cfg Module`; everything finishes within a few minutes.

| Run | Config | Checks |
|---|---|---|
| broker | MCBroker.cfg | type, `BoundToHolder`, `QueuedMeansNoHolder`, `HandedIsOwned`, `OneLiveRecipient`, `AckIsFinal`, `StatusTellsHeldNames` |
| broker_mail | MCBrokerMail.cfg | refinement `KeepsMailPromise`, liveness `CrashedHolderReleases` |
| steps | MCBrokerSteps.cfg | type, `NameUnique`, `StrandedOnlyByLateMark`, `LiveMailDroppedOnlyBySweep` |
| clock | MCSessionClock.cfg | type, `DeadAreSwept`, `MailInOrder`, `OnlyTheSilentAreEvicted` |
| tokens | MCTokenChain.cfg | type, `MintedIsAttenuated`, `RootChildrenCanRefresh`, `GrantedIsUsable`, `OnlyTimeRevokes` |
| rate_limiter | MCRateLimiter.cfg | type, `WindowWithinLimit`, `InOrderWithinLimit` |
| mcp_server | MCMcpServer.cfg | type, `OneRowWhileRunning`, `FileTracksSession`, liveness `EvictedRebinds` and `BoundMailIsShown` |
| command_line | MCCommandLine.cfg | type, `ClaudeGetsTheRest`, `NearestFileNames`, `IssuedAsAsked` |
| fleet_memory | MCFleetMemory.cfg | type, `MemoryGoesBackOnlyFor`, liveness `MemoryCatchesUp` |
| memory_files | MCMemoryFiles.cfg | type, `SnapshotIsWhole`, `NotesSurvive` |

Two runs check a statement of the documentation that the code does not keep; TLC
shows a counterexample:

| Run | Statement | What happens |
|---|---|---|
| name_race (MCStepsNameRace.cfg) | names fail fast on collision (`AnsweredNameIsHeld`) | two registrations at once are both answered OK; one has no row |
| run_as (MCRunAs.cfg) | `run` strips `--as` into `CLAUDE_PEERS_AGENT` for the child (`RunNamesTheSession`) | the global parser takes `--as` away first, and the child is not named |

Other properties say exactly how far a promise goes. Their exceptions are what
the code does against its comments:

| Promise | Exception | Property |
|---|---|---|
| unacked messages are surfaced again after a retry window | never, while the session lives: what it polled stays with it | `HandedIsOwned` |
| `queued_offline` means the name was claimed before | the backfill of a restart adds names that were only sent to | `StatusTellsHeldNames` |
| agent messages persist when the holding session dies | a poll that outlives its session takes requeued mail with it; a crash or a busy database skips the requeue; a sweep whose SELECT fails deletes sessions without requeueing | `StrandedOnlyByLateMark` |
| direct messages are dropped if the session is gone | also if the sweep selected the session and then spared it | `LiveMailDroppedOnlyBySweep` |
| a refreshed token is immediately usable | not after `mint-root` beside a running broker | `GrantedIsUsable` |
| a lifetime out of bounds or malformed is refused | days whose hours wrap, fractions of a day | `IssuedAsAsked` |
| a peer is stale after 300 s by default | after 20 s, so that one lost heartbeat of 15 s is enough | `OnlyTheSilentAreEvicted` |
| all messages are delivered in send order (ADR-001, T8) | two of one second, when the fraction of the earlier is a beginning of the later one's, come in the wrong order | `MailInOrder` |
| the name of a dead session is free within the timeout and 1 s (ADR-001, T5) | within the timeout, a sweep period (2 s) and 1 s | `DeadAreSwept` |
| a child cannot outlive its parent, the validator would reject it | the validator does not ask when the parent expires: a child of the root is accepted and refreshed after it | `RootChildrenCanRefresh` |
| persisting known tokens only adds to what memory has | a token that could not be saved or loaded takes its children with it at a restart | `OnlyTimeRevokes` |
| a descendant of the home is inside it | not below a directory whose name begins with two dots: `~/..x` counts as outside | `NearestFileNames` |
| an evicted server re-registers transparently | not after SIGINT: the process goes on without heartbeats | `EvictedRebinds` |

The state file of a server is documented as best effort, so the exceptions of
`FileTracksSession` contradict nothing. "Removed on graceful exit"
(`fleet_server.go:71`) has one of its own: a file that could not be written at
startup and was written by a rebind stays. Nothing promises that a name claimed at
run time outlives an eviction: the rebind asks for the configured name
(`fleet_server.go:452`), and `FileTracksSession` says that the file then has the name
the session got.

### Bounds

Three sessions and two names let two sessions contend for a name while a third
holds the other, and let a name pass from a session to its successor; two
messages let one be acked while another is outstanding. Liveness and refinement
use two sessions and one name: a holder and its successor. Two workers are
enough for every pair of handlers to interleave, with the sweep as a third.
Four tokens make the longest chain that matters: a root, its child, a rotated
root, and a refreshed token; three time units pass the lifetime of a root
(2), the leeway (1) and reach the grace period, and with children that live 1 or, when
refreshed, 2 units a child may outlive its root. One capability is enough: tokens
with and without it are the two sides of every comparison of capabilities. One
failing request or restart (`MaxFaults`) may lose any of the tokens it writes or
loads. In `steps` one fault
(`MaxFaults`) is a crash or a failed statement at any point: every property there
is about one thing going wrong. Its two sessions and one name are a holder and
its successor, and one message suffices as no statement relates two messages;
the view of `MCBrokerSteps` leaves out the columns of deleted rows, which no
statement reads.
In `mcp_server` three sessions, of which other clients may take any, let a server
lose its session twice, meet another holder of its name and fall back, or leave a
ghost behind; one message is enough, as nothing relates two. Failures of requests and
of the state file are not bounded. The view of `MCMcpServer` leaves out what no later
step and no property depends on.
The clock counts in quarters of a second (two binary digits of fraction, so that
one fraction can be a beginning of another), and with a timeout of 5 seconds
against a heartbeat every 3 one lost heartbeat lies between the two sides of the
bound, as with 20 and 15; 12 seconds pass two timeouts and the sweeps after them.
Words of 6 bits wrap at a number of days that can be typed in two digits, and
keep the order of the real constants: minimum below default below maximum below
the word. Command lines around `run` and `server` have up to three words, those of
`issue-token` up to three before its two operands, which puts a flag in the place
of another's value; directories go two levels below a home, and the home may be the
root or unset. In
`fleet_memory` a threshold of two events and a stream of two let the callback's
consolidation cross the ticker's, two versions of the fleet make one of them old
(`MaxFleet`, `MaxStream`), and one one-shot dream is a third writer. Three
updaters, snapshots of up to two blocks (`MaxBlocks`) and two lines of Claude's
(`MaxNotes`) let a short write cross a long one and a line come before, between
and after updates. Four requests against a limit
of two overrun a window twice. Session ids are never reused (`generatePeerID` is
taken to return fresh ids), so the number of sessions bounds registrations, and
`MaxMsgs`, `MaxTokens`, `MaxTime` bound the counters they name.

Deadlock is not checked where the system may stop: a server process that has
exited, a command that is done, the end of the clock's bound, and the violation
runs.

### Fairness

* `FairSpec`: the sweep goroutine loops for ever (`broker_core.go:299`), so
  `CleanStalePeers` is weakly fair; and time passes, so the session of a client
  that sends no heartbeats goes stale. Nothing is assumed of clients.
* `FairServerSpec`: the tickers of `runServer` keep the heartbeat and the poll
  goroutines going until they return (weak fairness of `HeartbeatUnknown`, `PollAndPush`,
  `WriteState`, and of finishing the acks of a `check_messages`); requests do not
  fail for ever (strong fairness of `RebindAnswered` and `RebindEphemeral`, which
  a failing request disables again and again). After SIGINT or the end of input a
  goroutine may return instead of ticking, which disables its actions for good, so
  nothing is assumed of an interrupted server; the liveness properties except it.
* `FairSpec` of `FleetMemory`: the ticker of `cliDreamWatch` fires and its
  goroutine goes on (weak fairness of `Tick` and of the ticker's own steps), and a
  broker that answers again and again answers some fetch and some push of the
  ticker's (strong fairness, as failing requests disable them). Nothing is assumed
  of events, of the callback or of other dreamers, and the watcher may die: then
  `MemoryCatchesUp` promises nothing.

## What is proved

`tlapm M.tla` for each of the eight proof modules, for all values of the
constants satisfying the assumptions. Every safety invariant, every action
property and the refinement that a passing run checks is a theorem.

The assumptions are named, stand in the module that declares the constants, and
TLC evaluates them on the runs of that module:

| Assumption | What it says |
|---|---|
| `SentinelAssumption`, `MaxMsgsAssumption` (`BrokerDB`) | the empty strings are no sessions or names; the bound on messages is a number |
| `CallsAssumption` (`BrokerSteps`) | the requests that arrive are requests; the bound on failures is a number |
| `TimesAssumption` (`TokenChain`) | lifetimes, leeway and grace are numbers, and no child is asked to live longer than a root |
| `HostAssumption` (`TokenChain`) | the broker's machine is one of the machines, and the mark for "no machine" is none |
| `ClockAssumption` (`SessionClock`) | the periods are positive, a heartbeat arrives before the next is due, and the bound on the clock is a second or more |
| `PowersAssumption` (`SessionClock`) | arithmetic: the powers of the base are positive, and each is the base times the one before. The provers know nothing of exponents |
| `MemoryAssumption` (`FleetMemory`) | the watcher's goroutines are not among the other dreamers; bounds are numbers |
| `DurationAssumption` (`Durations`) | the units are positive, and minimum, default, maximum and the largest int are in this order. That `2 ^ (WordBits - 1) - 1` is a number is part of it, as the provers know nothing of exponents |
| `PathAssumption` (`CommandLine`) | directories are sequences of names, a home is one of them or unset, and the parent of a directory is a directory |
| `InputAssumption` (`CommandLine`) | command lines, environments, files and configured durations are made of words and terms, and the words the program itself writes are words. Which lines, directories, files and texts there are is left open, and how many |
| `FilesAssumption` (`MemoryFiles`), and those of `RateLimiter` | bounds are numbers, limit and window positive, the set of requests finite |

None of the invariants is inductive as the run states it. What each proof adds:

**Broker.** `TypeCorrect`; `MailIsBoundToHolder`, `QueueIsDrained`,
`PolledMailIsOwned`, `NoTwoLiveRecipients`; `AckedMailStaysAcked`. The inductive
invariant `IInv` is the conjunction of the invariants with `NameUnique` (two rows
with one name would both claim the mail of the name), `OnlyIssued` (a session that
was never issued has no row and no history, so that `Register` starts clean) and
`FreshIds` (message ids beyond `lastId` are unused). The central step is the end
of a session: `EndSessions` frees names and requeues mail at once, so a message of
the session that ended is in a queue whose name nobody holds, because the session
that held it was the only one. `StatusIsTrue` adds `SeenNames`: a
name in the table of names seen was held by somebody or added by the backfill of a
restart, and a send alone never adds one.
`BrokerImplementsMailbox` shows that `Broker` implements `AgentMailbox`, one lemma
per kind of abstract step; it needs `IInv` for every handler that looks up the
holder of a name, and one more invariant: a row yet to be inserted is addressed to
nobody.

**BrokerSteps.** `StepsTypeCorrect`, `NamesStayUnique`,
`MailStrandedOnlyByLateMark`, `LiveMailIsKept`, for any number of handlers in
flight, crashes and failed statements. What keeps these true is in the frames: a
handler at a statement has an issued session (`FramesOK`), a session that is being
created is nobody's client yet (`NewSessions`), one that unregisters has left
(`EndingLeft`), and a session the sweep selected is either swept or counted as
spared (`SweptOrSpared`). A session whose row went without being selected is cut
off at once if it had mail. The names are safe for one reason only: every statement
that writes `peers` passes the unique index.

**SessionClock.** `TypeCorrect`, `DeadSessionsAreSwept`, `RunningClientsStay`,
`MailIsOrdered`, for every base and number of digits, every timeout and every
period. Comparing texts compares whole seconds first (`CutoffCompares`), which
costs the second in both bounds. `ClockInv` then places `lastSeen` relative to the
next sweep, which spared it a period ago, and relative to the next heartbeat, as
many periods back as were lost. For the mail, two times of one second differ first
in a digit that is larger in the later one (`FirstDifference`, from the least
number of leading digits that show different numbers); the text stops before
that digit only if the rest of the earlier fraction is zeros, and this is the
exception of `MailInOrder`.

**TokenChain.** `TypeCorrect`, `CapabilitiesShrink`,
`RootChildrenStayRefreshable`, `GrantsStayUsable`, `TimeAloneRevokes`. What the
broker answers depends on the parent of a token, so the invariant follows
parents: they exist (`ChainsEnd`), nobody holds a token that does not
(`OnlyMinted`), the roots the broker reads are roots (`RootsAreRoots`), granted
tokens hang under one (`GrantedUnderRoot`), and a known token is in the table or on
record as lost (`SavedOrLost`), which is why a restart forgets only what has expired
or failed to be saved or loaded.

**McpServer.** `ServerUsesBroker`: the composition is a behaviour of `Broker`, so
every theorem about `Broker` holds beside a process that rebinds, loses answers
and shuts down. `ServerTypeCorrect`, `OneRow`, `FileIsCurrent`. The invariant says
that a process that runs has a session of its own (`HasSession`), rebinds only
when that one is gone (`RebindsDead`), claims for the session it has unless the
claim overlaps a rebind (`ClaimsForSession`), and, until the file misses a change
(`outOfStep`), has written or is about to write to it what the broker has
(`WritesSession`). Only a rebind clears `outOfStep`: it replaces the whole file, where
a claim puts a name into what it finds there.

**Rate limiter.** `TypeCorrect`, `SliceIsBounded`, `RateIsLimited`. The inductive
invariant adds `Kept`: an admitted request that was not overtaken is still in the
slice as long as the latest clock reading that pruned the slice lies within a
window of its own. So when a later request is admitted in order, every earlier one
of its window is counted.

**FleetMemory.** `TypeCorrect`, `MemoryGoesBack`. A snapshot on its way that nobody
has overtaken is at least as new as what the broker has stored
(`FreshUnlessOvertaken`), in memory and, unless a write failed, in `kv`
(`SavedIsKept`). That the shared slice never outgrows the threshold
(`RoomForEvents`) is part of the type.

**MemoryFiles.** `TypeCorrect`, `SnapshotsAreWhole`, `NotesAreKept`, for any number
of processes, blocks and lines. While no write has crossed another there is one
writer and the file is empty (`OneWriter`); while MEMORY.md has not changed under
an update and no read or write of it has stopped short, every update between its read and its write holds Claude's lines and
nothing else (`HoldsNotes`), so all of them write the same text, and the file is
that text or empty until the last has written (`HalfWritten`).

**CommandLine.** `TypeCorrect`, `ClaudeArguments`, `NamedByNearestFile`,
`LifetimeAsAsked`, for command lines, environments, trees and duration texts of any
length. The induction is over the turns of the loops, and each loop has its
invariant. `GlobalScan` and `TTLScan` say that no turn begins at a position that
holds the value of an option, though a value may look like an option itself: the
reference definition `IsValue` counts the run of equal options before a position,
and `ValueFollows`, `NoValueFollows` and `ValueEnds` show how it goes on over one
turn. So the turns have kept exactly the positions that are not `--as`
(`Lists`), and have taken the last of the lifetimes so far. `RunScan` adds that no
`--as` is left when `buildRunArgv` looks for one: it drops nothing, and the channel
flag is the user's own exactly if it is so in the line that was typed. `Walk`: every
directory below `dir` was looked at in vain, and `dir` has not passed the home.

**Durations.** `ParsesAsExpected`: for texts with whole days whose hours fit an int,
`ParseFlexibleDuration` answers what the text means or, out of bounds or malformed,
refuses it. A product that fits does not wrap (`WrapFits`), so the rewriting of a
term keeps its meaning (`RewriteKeepsMeaning`), and both sides add up the same
numbers. `LifetimeAsAsked` rests on it.

**Only model-checked.**

* Liveness, which is out of the prover's reach: `CrashedHolderReleases`,
  `EvictedRebinds`, `BoundMailIsShown`, `MemoryCatchesUp`.
* That `SumOf`, a fold, computes a sum: this takes an induction over data. The
  proof about `Durations` does not need it, as the parser and the meaning of a text
  are sums of the same terms; that the parser adds up correctly is the library's
  business (`time.ParseDuration`).
* The two violated statements, of which TLC shows counterexamples.

## What the models leave out

* In `Broker` and `BrokerSteps` a session becomes stale at any time after its last
  heartbeat; when it really does is in `SessionClock`, for one session.
* Two failing statements in one run of `BrokerSteps`, and two failing requests or
  restarts in one of `TokenChain`: bounds of the runs, which the proofs do not have.
* In `McpServer`, requests that the broker serves after their caller has given up: a
  request is served while its caller waits or not at all.
* Message text, summaries, the event log, what the tools print.
* Which capability an endpoint needs; encodings and signatures.
* In `McpServer`, broker restarts (a time of failing requests) and expiry of
  messages; the local-broker start and the challenge.
* In `FleetMemory`, the recent events of a snapshot; redelivery by NATS while the
  callback is still at work; clean-up of idle consumers.
* In `Durations`, signs and spaces, and the units between minute and nanosecond,
  which the library parses.

## Not modelled

* The choice `send_message` makes between a session id and an agent name
  (`fleet_server.go:749`): the models keep the two apart, while the code tells
  them apart by a peer list.
* TLS listener, configuration and key files, JSON-RPC framing: input and output,
  with no decision to get wrong in a model. The event log is read only to be
  printed. `kill-broker` and `reauth-fleet` run other programs.

## Plan

1. (done) `BrokerDB`, `Broker`, `AgentMailbox`; runs `broker`, `broker_mail`;
   proofs of the safety invariants.
2. (done) `BrokerSteps`, with the statements the interleavings and failures break;
   `SessionClock`.
3. (done) `TokenChain` with concurrent refreshes, `RateLimiter` with proofs,
   `McpServer`.
4. (done) `CommandLine` with `Durations`; `FleetMemory`, `MemoryFiles`.
5. (done) Proofs of the safety and action properties of every module, and of the
   refinement of `AgentMailbox`. For `CommandLine` this took its loops as actions
   instead of recursive operators.
6. (open) The choice of `send_message` between names and session ids.
