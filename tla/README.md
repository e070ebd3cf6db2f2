# csquad in TLA+

csquad runs coding agents (Claude Code or Codex sessions) side by side. Each
task has a row in a SQLite table; a small state machine, the *flow*, takes the
row from `running` through checks, fix rounds and a merge to `done`. There is no
server: every `csquad` command, Stop hook and status line refresh is a process
of its own that looks at the tasks, moves what can be moved, and goes away.
What makes the program hard is therefore not any single handler but what
several short-lived processes do to one table, one set of lock files, one git
repository, one session per task and the user's own settings, while the user and
the workers go on too.

This directory models that program in TLA+, checks it with TLC and proves part
of it with TLAPS. `PROJECT.json` lists the components, the runs, which source
lines each definition stands for, the hazards, the finding and the theorems.

## 1. Inventory

| component | state | operations | hard because |
|---|---|---|---|
| flow (`internal/flow`) | none: row + observation -> row + effect | `Next`, `Retry`, `Mover.Apply` | rounds, history of findings, grace periods, holds |
| table (`internal/store`) | the tasks; `updated_at` as version | `Insert`, `Transition` (compare-and-set on phase, updated_at, hold), `SetSession`, `SetHold`, `Delete`, `ClaimNotice` | the session and the hold are written without comparing; numbers are reused after `Delete` |
| passes (`app/advance.go`) | what a process read: row, session state, lock probes | `AdvanceAll`, `Advance --stopped`, `Check`, effects (`start`, `check`, `send`, `land`) | everything read may be old when it is used; a process may die between the row and its effect |
| user commands (`app/finish.go`, `hold.go`, `launch.go`) | same | finish, cancel, discard, hold, release, retry, launch, list | cleanup and row are two steps; readings before the lock |
| locks (`internal/flock`) | one file per task, per check round, one for advance | `Try`, `Wait`, `Held`, `Release` | `Held` takes the lock for a moment; files are unlinked while they are open |
| task files (`engine/claude/launch.go`, `app.removeFiles`, `app.prune`) | `settings/T<n>.json` | `Queue`, `Start`, undo of either, removal | written by one process, read and rewritten by another, in another environment |
| checks (`internal/check`) | a verdict file per round | run a command or a reviewer, parse its verdict | files outlive the check they belong to |
| Claude Code engine (`engine/claude`) | a list of sessions shared through a file, a record of running calls | `Agents`, `share`, `Sweep`, `Send` | a service that hangs, calls that outlive their process |
| Codex engine (`engine/codex`) | a connection to the app-server; the thread on its side | `Start`, `Send`, `Stop`, `Remove`, `States` | requests refused, unanswered, or carried out after their caller gave up |
| notices (`app/notify.go`, `store.ClaimNotice`) | last class notified, when, for which version | observe, move, claim, post | observers of different age; each event once, none lost |
| usage (`engine/claude/usage.go`) | offset, checksum, total, window of messages | read on, start over, save | a message stands on several lines; transcripts are rewritten, readers cut off |
| install (`internal/install`) | settings.json, hooks.json, skills, what csquad remembers | install, update, uninstall | the user edits the same files; commands die half way |
| wait, status line wrapper, ledger, git wrapper, processes, desktop backends | none of the flow | polling, text, git, OS calls | - |

How they meet: a process reads rows (`store.List`), asks the engine for the
sessions' states, probes locks, reads verdict files; `flow.Next` makes a move of
that; `Mover.Apply` stores it with `Transition` and, if the compare-and-set won,
runs the effect, which takes the task lock, reads the row again and acts on the
session or on git. What was observed, and what was moved, goes on to the notices.

## 2. Modules

| module | what it is | rests on |
|---|---|---|
| `Flow` | `flow.Next` and `flow.Retry` as operators, phase by phase. No state. | |
| `TaskFlow` | One row under any observation: the row as the compare-and-set serializes its writes. | `Flow` |
| `Squad` | Processes, locks, sessions, branches, verdict files, messages and users around the table. | `Flow` |
| `SquadRow` | The row of any one task of `Squad` as a row of `TaskFlow`: the refinement; and what it says of the worker. | `Squad`, `TaskFlow` |
| `LockFile` | The file behind a task's lock: names, inodes, unlinking. | |
| `TaskFiles` | The same number with its settings file, from launch to prune. | `LockFile`; implements it |
| `Notices` | The notifications of one task and the processes that observe and move it. | |
| `Agents` | The shared `claude agents` call, its limits and its orphans. | |
| `Threads` | The Codex operations as requests to the app-server. | |
| `Usage` | The incremental reader of a transcript. | |
| `Install` | install, update and uninstall, step by step, and a user who edits. | |
| `MC...` | Instances for TLC (`MCSquad` holds the *plays*). | |
| `SquadInv` | The invariants the theorems of `SquadProofs` rest on, and the conditions some of them need. | `SquadRow` |
| `SquadProofs` | Theorems about `Squad`: invariants over processes, sessions, locks and several rows; the refinement to `TaskFlow`; the worker while its work is checked. | `TaskFlowProofs`, `SquadInv` |
| `...Proofs` | Theorems about `TaskFlow`, `LockFile` and `TaskFiles` (one module), `Notices`, `Agents`, `Threads`, `Usage` and `Install`. | |

The modules compose by what they promise each other:

- `TaskFlow` is the abstract specification of a row; `Squad` implements it.
  `SquadRow` instantiates `TaskFlow` with the row of one task `Me` and states
  `RowFollowsFlow`: whatever the processes do, each change of the row is a step
  of `TaskFlow` from the row as it is at that moment. TLC checks it in `world` and
  `user`, and `SquadProofs` proves it, for any task, so what is proved of
  `TaskFlow` for every number of rounds holds of each row in the table.
- `Squad` takes a task's lock as exclusive. `LockFile` is why it may: it models
  flock on inodes and the unlinking of names. `TaskFiles` extends it with the
  settings file and is shown to implement it (`Spec` as a property of the run
  `files`, and the theorem `FilesImplementLock`).
- `Agents` says how old a list of sessions may be: for a command, read after it
  asked; for a status line, possibly read before, by no more than a call's
  limit. `Squad` lets a pass use a reading as old as it likes, and `Notices`
  lets an observer share a reading older than itself.
- `Squad` and `Notices` take the engines by what they promise (a session
  started, told, stopped or removed, with faults); `Threads` shows for Codex that
  a message arrives at most once and a reported state was true, but for what the
  age test of a turn that has not begun gives away.

### 2.1 TaskFlow and Squad

*Rows.* A row is a record of the columns the flow decides on (`phase`, `step`,
`round`, `max`, the kind of the last verdict, the blocking counts per round,
whether a session is recorded, `hold`, `after`, the kind of check, merge,
in-place). A number without a row has phase `absent`. Titles, prompts, notes,
outcomes and models are left out. In `Squad`, `ver` is `updated_at`: `Transition`
raises it when the phase or the step changes (the code takes the clock, or one
more than before).

*Observations* are the record `flow.Obs`. Times are abstracted to the
comparisons made with them: `settled` and `graced` say that Settle and Grace
have passed in this step, `stopped` that a Stop event is dated after the row
entered it, `replied` that the worker's last answer is.

*Processes.* `proc[p]` is what a process knows: `pc` (the point before its next
statement that others can see), `seen` and `ver` (the row it read and works
from), `live` (what the engine told it), `move` (what it is about to write or
do) and its locks. One action is the code between two such points: a statement
of the database, a lock, a call of the engine or of git, including what follows
it. For instance `land` is `Land` (the lock and the comparison with the row read
again), `Landing` (observe, inspect, rebase, fast-forward), `Clean` (inspect
again, delete worktrees and branches), `Remove` (the session) and `Write` (the
compare-and-set of the result). A pass over all tasks is modelled task by task,
each from a row as old as it likes, which covers the real loop.

*Locks* vanish with their process. A pass that asks `Held` takes the lock for a
moment (`Probed`): another process's `Try` may then fail although nobody works
on the task.

*The world.* `session` is the engine's state of each task's session, `inbox` a
message sent and not yet picked up, `work` the task's branch (`none`, `open`:
unmerged commits, `merged`), `verdicts` the verdict files with the row version
they are for, `spawned` the checks spawned that have not begun, `stops` the Stop
hooks whose process has not begun, `reply` the version at which the worker last
answered, `changed` whether the worker worked since its work was given to a
check. "idle" stands for the engine's "done" too; the flow treats them alike. A
verdict file that cannot be written is not modelled: the verdict is used from
memory then and lost with the process.

*Plays* bound a run: a play says which tasks are launched (each once) and how
often each other thing may happen (`finish`, `cancel`, `discard`, `hold`,
`release`, `retry`; `talk`, `ask`, `break`, `remove` for the session; `merge` by
the user; `late` for a hook that begins in a later version of the row; `fault`
for an error of the engine, git or the OS; `crash` for a killed process). All
passes, checks and effects are unbounded.

### 2.2 LockFile and TaskFiles

One task number. `path` is the file the name `logs/T<n>.lock` stands for,
`opened` and `held` what each process has opened and locked: `flock.Try` is the
opening (which creates the file) and then the lock, and between the two another
process may release, unlink and make the file again. `row.gen` counts the
launches of the number, because a launch whose start fails deletes its row and
the next launch gets the number. Who works under the lock reads the row again
(`Reread`) and leaves when it is over: `startQueued`, `land` and `finish` before
anything else, `cancel` after it has observed the session and stopped it
(`finish.go:447-470`). Two finish without reading again, because the
compare-and-set refuses them a row that moved: `clearIfEmpty` (`finish.go:595-617`)
and the cancel of a task without a session. A discard of a cancelled task locks
and removes files of a task that is over, on purpose (`DiscardOpen`,
`finish.go:517-522`). Who finishes releases and unlinks; a prune lists the files
and later unlinks the names of tasks that are over; a probe (`Held`) locks for a
moment.

`TaskFiles` adds `settings` (whose provider variables it holds, how many Stop
hooks), `task` (who launched it, what its stored arguments name, what its worker
was started with) and `job`, where each process is in `Queue` or `Start`.
`Queue` inserts the row, writes the settings without the hook and stores the
arguments that name them; `Start` reads them back, writes them with the hook,
starts the session, and on failure puts them back (a queued task) or deletes
them; when the settings or the prompt's file cannot be written, what is there
stays (`launch.go:347-381`). csquad forwards more variables (`providerEnv`,
`launch.go:141`) than it takes for the choice of a provider (`providerChoice`,
`launch.go:143`), so there are two kinds, `choice` and `model`, and an environment
has either, both or none of one session: a file that has the first kind gets
nothing from whoever starts the task, any other gets what it does not have
(`Merged`, `Forwarded`).

### 2.3 Notices

`row` holds the phase, its version, whether the task has a check and is to be
merged, and the three columns `ClaimNotice` compares and sets; `obs[o]` is a
process between reading the row, asking the engine, getting the answer (or one
that another's call has in flight) and claiming. Rows that are done or cancelled
are observed by nobody (`store.go:34-35`); failed ones are, their event is
repeated (`notify.go:31-36`), and they may run again. `Move` is any compare-and-set
by another part of csquad, to any phase its task can be in, after which the mover
itself claims the event (`App.moved`) with the time it reads then; a finish or a
cancel by the user claims nothing. Times are only compared: `Tick` renumbers those
in use, and the time of a move differs from all earlier ones (the code takes
milliseconds). `told` counts the phase events sent per version of the row, `lost`
keeps the versions whose event nobody is left to send: the process that claimed it
was killed, or the user finished a task that was to be merged.

### 2.4 Agents

`call[p]` is the child a process started (running, recorded for `Sweep`,
answered, its age and the age of its list), `orphans` those whose process died,
`file` the shared answer. `Tick` is one unit of the constants; it waits for what
the code does without waiting (`Due`). A status line that finds a recorded call
running shares its answer (`ShareAnswer`, `ShareEnds`, `ShareGivesUp`,
`ShareCut`); a command always asks for itself. `Sweep` is part of the action
that runs it.

### 2.5 Threads

`thread` is what the daemon has: whether it is known and loaded, its name, its
newest turn. `proc[p]` is an operation at one of its requests. `Outcome` is what
the daemon does with a request; the engine's code is `Start`, `Send`, `Stop`,
`Remove` and `Look`, each what it asks next for an answer. `Handle` is an
answered request, `Refuse` an error answer, `TimedOut` one without an answer
(the request joins `late` and may be carried out once the daemon recovers, the
connection is broken and every further request on it fails at once), `Dial` the
connection, with the memory of a daemon that did not answer. A turn that has just
begun is listed as interrupted and without a message, and one that was cut off
before it began stays so; `Live` tells them apart by their age (`YoungTurn`,
`state.go:51-54,77-83`). `Age` is the two minutes passing: a turn's `old` says that
they have.

### 2.6 Usage

A transcript is a sequence of lines, each of a message; a sum of usages is how
often it has each line in it, so it says what was counted. The lines of a message
stand close together: fewer than `RecentIDs` other messages have lines between its
first and its last, in a rewritten transcript too. A reader opens the newest transcript,
loads the saved position, starts over when the file is shorter or the bytes
before the position differ, reads line by line, folds old messages into the
total, and saves every `SaveEvery` lines, when it is cut off and at the end. The
session appends and rewrites its transcript; a reader goes on in the file it has
open.

### 2.7 Install

`settings`, `hooks` and `skills` are the user's files, `home` what csquad keeps,
`cmd` the running command at its next step; a command may be killed between two
steps, and in the midst of writing settings.json.bak, the one file written in
place (`install.go:421-422`, `BackupTorn`). A wrapper's command names the binary as
the version writes it: versions in `Earlier` write another one, and an install
that finds such a wrapper gives it the new command (`RewrapLine`,
`install.go:404-411`). Uninstall compares the command with the manifest's
(`RestoreLine`, `install.go:626-635`). `mine` is settings.json as the user would
have it without csquad, edited along with the real one, and serves the properties
only. A settings file is its status line and the rest, which stands for every
other byte; a hash is the text it was made of.

### 2.8 Abstractions that matter to every module

Outside code (git, the sessions, the app-server, `claude agents`, flock, the
user) is modelled by what csquad's use of it relies on, with its errors as
faults, and marked external in `PROJECT.json`. Wording, formatting, logging and
layout are left out.

## 3. Runs and bounds

| run | instance | why it is enough |
|---|---|---|
| `flow_row` | 1 row, 1 other task, counts {0,1}, 4 rounds and 1 granted | the guard reads three counts; four rounds let it fire, be overruled by retry and fire again |
| `world` | 1 task, 2 processes, 1 round, 7 plays | the races are between two processes at one row; each play adds a kind of trouble |
| `user` | 1 task, 2 processes, 2 rounds, 6 plays | a second round is needed for stale events of the first |
| `queue` | 2 tasks, the second after the first, 2 processes, 6 plays | a dependency, its dependent, and two processes that see it |
| `ends` | 2 plays (1 and 2 tasks), 2 processes, one killed anywhere | one process must take over from the other |
| `cancelled` | 1 task, 2 processes, 1 cancel | the finding of section 6 |
| `files` | 2 processes, 2 inodes, 1 withdrawn launch, the variables of 2 sessions, of either kind, and a background environment | two files behind one name need two holders; a withdrawal gives the number to a second launch |
| `notices` | 2 processes, 2 moves (among running, ready, failed, done), 1 turn of the session (working, asking, failed), 1 killed process | two observers of different age, events that are repeated by observations (ready, failed) and one that is not (merged), a failed row that runs again |
| `agents` | 1 command, 1 status line, 1 killed process; ShareWait 1, Timeout 2, OrphanAge 4, DownFor 2 | a caller, a sharer and an orphan; the constants keep the order of the code's limits |
| `threads` | 2 processes, 2 operations, 2 turns, 1 hang, 1 refusal | a start or a look against any other operation, with a late request of one |
| `usage` | 2 readers, 3 messages, 4 lines, a window of 2, 1 rewrite, 1 mishap | a message falls out of the window; readers save over each other |
| `install` | 2 versions, the first of which ships the skill and writes another command, 3 commands, 3 edits, 1 kill | install, update and uninstall with the user between any two |

Counts {0,1} distinguish shrinking, equal and growing histories. Processes are
interchangeable, so the runs of `Squad` and `TaskFiles` that check safety use
symmetry over them; those that check liveness do not. Runs without deadlock
checking are of systems that come to rest when their bounds are used up.

## 4. What the runs show

`flow_row`
- `RoundsBounded`: rounds stay within the maximum; a check runs in round 1 or
  later; a fix is asked for only if a round is left to check it.
- `HistoryAligned`: one blocking count per round judged, through errors,
  repeated checks, retries and work the user did in between.
- `ConvergenceGuard`: without a round granted by the user, no fix is asked of a
  worker whose reviewer findings did not shrink for two rounds in a row.
- `AcceptedPassed`, `MergingEntered`: work with a check is ready or merged only
  after a check that passed, entered from that check, from ready or by retrying
  a stopped merge; work the user took over is checked again.
- `FinishedForGood`: a done or cancelled row never leaves its phase, unless the
  launch it belongs to failed and deletes it.

`world`, `user`
- `RowFollowsFlow`: the refinement of section 2.
- `RemovedIsFinished`: work that was deleted belongs to a finished row, or the
  process that deleted it still holds the lock and is about to write that.
- `DoneIsClean`: a done task has no unmerged work, whoever made it done.
- `MergesMerging`: a branch is fast-forwarded only while its row says merging.
- `AcceptedUnchanged`: a verdict is about the work as it is when it is accepted
  (of the task `Me`, as the next).
- `RecheckAfterFix`: a fix round ends only after the worker took the findings:
  no Stop event or answer of the round before ends it.

`queue`
- `OneSession`: of the processes that see a queued task ready, one starts it.
- `StartsAfterDependencies`: it starts only when all it waits for are done.
- `HeldNotMerged`: a task launched with `--no-merge` is not merged for the tasks
  queued after it until it is released.

`ends`
- `OwnStepsEnd`: what csquad has to do by itself (check, begin a merge, start a
  queued task) comes to an end, with a process killed at any point.

`files`
- `Exclusive`: while a task is not over, two processes never hold its lock,
  though names are unlinked and made again.
- `OverIsLeft`: who locked a file for a live task and read its row again does not
  work on it once it is over, whatever file that was.
- `KeptForRetry`: a queued task without a worker has its settings, with every
  variable its launch forwarded and, if those chose a provider, no others, through
  failed and killed starts.
- `WorkerAsLaunched`: the worker gets a Stop hook and the same variables, whoever
  starts it.
- `Spec`: the refinement to `LockFile`.

`notices`
- `PhaseSentOnce`: an event of the row (ready, needs you, failed, merged) is sent
  at most once for a version, however many processes find it.
- `Settles`: the class recorded ends as the one there is to see; no late or
  shared reading stands for ever.
- `PhaseTold`: an event of the row is sent at last, unless the process that
  claimed it died: ready, needs you and failed because every observation repeats
  them, merged by the process that landed, which alone claims it.

`agents`
- `OnlyOrphansKilled`: a sweep kills no call that a living process waits for.
- `AnswersAreRecent`: a command's list is read after it asked; a shared one is
  older by no more than a call may take, though calls overlap and overwrite each
  other's answer.
- `AsksEnd`: everybody who asks is answered or told that nobody answers.
- `OrphansEnd`: a recorded call of a dead process does not run for ever.

`threads`
- `SentOnce`: a message reaches the thread at most once, though steering may
  fail because the turn ended, or get no answer and be carried out later.
- `LookIsTrue`: the state reported was so at some moment of the look, though the
  thread and its newest turn are read one after the other. It is wrong in two ways
  and no other, both sides of the age test: a turn that takes longer than
  `YoungTurn` to begin reads as stopped, one cut off before it began as working
  until it is that old (`codex_test.go:202-203`).
- `OpsEnd`: every operation ends, also when the daemon never answers again.

`usage`
- `EachCountedOnce`: a reader that returns has counted each message once, by its
  last line, whatever it or others read before, saved late, or lost.
- `CatchesUp`: readers that are always cut off still reach the end of a
  transcript at rest, and it stays read.

`install`
- `LineNeverLost`: while the wrapper stands, the user's line is saved and the
  binary the wrapper names exists; else a line the user kept is in settings.json.
  Two accidents are excepted (`ever.lost`, section 6).
- `EditKept`: the user's last edit of a skill is in the file or beside it, unless a
  command was cut short.
- `GivenBack`: where no command was cut short so far, an uninstall leaves no wrapper
  and nothing of csquad's in skills and hooks, and settings.json as it would be
  without csquad; after an update that changed the wrapper's command in a file the
  user had edited (`ever.recast`) only the line is as it was.
- `UserGroupsKept`: no command adds, removes or reorders the user's groups.

## 5. Fairness

`Squad` assumes that a process that is not killed goes on (weak fairness: the OS
schedules it); that passes over each task keep coming and some of them find
Settle and Grace passed (strong fairness: `csquad wait` and the status line run
them periodically, from any state); that a spawned check begins and an effect's
`Try` is not missed for ever (strong fairness: a probe holds the lock for a
moment, so an attempt that recurs sometimes succeeds); that a worker takes its
messages and ends its turns. Nothing is assumed of the user, of Stop hooks (they
may be lost) or of a killed process. `OwnStepsEnd` leaves out one case on
purpose: a launched task without `--after` whose process dies before it recorded
a session stays `running` without one; `nextWorking` brings back only rows with
dependencies. The user sees and cancels it.

`Notices`: the clock runs and shared calls are served (weak), observers look and
go on (weak: the status line is refreshed), and of an observer's calls some
answer (strong: a service that answers no call tells nobody anything).

`Agents`: time passes and processes run on (weak). Nothing is assumed of the
service.

`Threads`: a process makes its next step when the daemon answers or a limit
expires (weak). The daemon need not recover and turns need not end.

`Usage`: readers go on and keep reading (weak). That a reader is out of time
before it has read one line happens `Mishaps` times: two readers that are always
cut off there would never get on.

`Install`, `TaskFiles` and `TaskFlow` claim no liveness. That provider variables
disappear with their task is a promise of `prune` that is not checked: its
temporal form is too large for the instance that matters.

## 6. Disagreements between code and text

`cancelled` is a run TLC ends with a counterexample; `PROJECT.json` quotes the
lines: `cancel` does not read a row again that it first read without a session,
so a session that starts at that moment goes on working.

Others were met while modelling. They have no run of their own; the plays and
preconditions of the passing runs leave them out, as said here.

*Flow and passes*
- The number of a withdrawn launch is reused by a task that was parsed to wait
  for it and now waits for itself (`launch.go:211` against `launch.go:79`: "only
  existing tasks can be waited for").
- `Hold` refuses a task it reads as merging, then writes without comparing: a
  hold that lands after a pass moved the row to merging is reported and ignored
  (`hold.go:111`, `src/CHANGELOG.md:37-38`). `HeldNotMerged` is about a hold given
  at launch.
- A pass that found the session gone and the lock free can take the row out of
  merging while another process lands it (`flow.go:239-242`,
  `advance.go:556-570`).
- A process killed between storing `fixing` and sending the findings leaves a
  round nobody works on: Grace brings back running, checking and merging rows
  only (`advance.go:244`, `flow.go:63`; `src/README.md:407` says to wait).
- A Stop event is dated when its process begins (`advance.go:388`), not when the
  hook ran; one that begins after the row entered `fixing` ends the new round.
  `late` occurs in `world`, not in `user`, so `RecheckAfterFix` is about hooks
  that begin in time.
- A user who talks to the session while its check runs can have unchecked work
  accepted; `talk` occurs in `world`, not in `user`.
- `cancel --discard` deletes the work first; if its compare-and-set is then lost
  the row stays without its work. The same holds of a process killed between the
  cleanup and the write, and of a cancel that comes to a task whose landing has
  been overtaken: `RemovedIsFinished` is checked without them.
- A queued task is inserted before its arguments are prepared
  (`launch.go:220-234`); a pass may start it first, and a failed preparation then
  deletes the row of a started session (`Withdraw` of `TaskFlow` allows any row
  for it).
- A queued task whose process died between the start and `SetSession` is started
  a second time by a retry; `OneSession` is checked without that combination.

*Locks and task files*
- A prune that read the table between a withdrawn launch and the next launch of
  its number unlinks the lock name of a live task: `Exclusive` is about the first
  task of a number.
- A queued task whose launcher chose no provider, and that is started where one is
  chosen, gets the starter's URL and token beside what was forwarded for it,
  `ANTHROPIC_MODEL` for instance (`engine/claude/launch.go:141-143,208-219` against
  `src/README.md:711`: "the session that created it"). `KeptForRetry` and
  `WorkerAsLaunched` say for such a task that it keeps what was forwarded, and only
  of one that chose a provider that it gets no other's.
- A pass that starts the task between its insert and the storing of its arguments
  races `Queue` (`raced`).
- A start killed after the settings were written leaves the Stop hook in them;
  the retry adds a second one.

*Notices*
- Two observers may both find a question of the worker new and send it
  (`store.go:359-361` compares the class only for phase events); `PhaseSentOnce` is
  about phase events.
- A task that was to be merged and that the user finishes sends no merged event
  (`finish.go:370-378` does not call `moved`); `PhaseTold` leaves it out (`lost`).

*Install*
- `settings.json.bak` is written only when there is none (`install.go:421`). A
  user who replaces the wrapper by a line of their own and installs again has the
  new line saved but not backed up; an uninstall that finds settings.json as
  csquad left it puts the old backup in place, and the newer line is gone, though
  `src/README.md:640-641` says that uninstall restores the original line exactly.
  `LineComesBack` and `GivenBack` are about users who keep their line (`relined`).
- The backup is written with `os.WriteFile` behind a `Stat` (`install.go:421-422`). A
  kill in between the first and the last byte leaves a part of it that no later
  install replaces, and an uninstall that finds settings.json as csquad left it puts
  that part in its place (`install.go:646-647`).
- An install killed after it gave the wrapper a new command (`install.go:404-411`) or
  wrote one of its own, and before the manifest, leaves a manifest with the old
  command. An uninstall then takes the wrapper for a line of the user's, leaves it
  (`install.go:630-635`), and removes the line saved and the binary. Both are
  `ever.lost` in `LineNeverLost`.
- The hash taken when the wrapper gets a new command is of the file with the edits
  the user made since the backup (`install.go:411`), so the next uninstall takes the
  file for unchanged and restores the backup without them (`ever.recast`).
- What a cut uninstall or install leaves behind, a backup above all, is never
  renewed: `GivenBack` is about histories in which no command was cut short.
- When the user added a group behind csquad's first one, removing the text that
  was inserted leaves the comma behind: hooks.json reads `[, ...]` and is no JSON
  any more (`codexhooks.go:14-17` says the edit keeps the user's groups).
  `GivenBack` and `UserGroupsKept` look at the groups.
- A command that died, or failed at hooks.json, after it wrote skills and before
  it wrote the manifest makes the next version take csquad's own text for an edit
  and replace the `.bak`: `EditKept` and `GivenBack` exclude it (`ever.cut`).

*Codex*
- A start that fails archives its thread again (`codex.go:65`), unless the daemon
  hangs at that moment: then the thread is left.
- A turn that takes more than two minutes to begin reads as stopped while it works,
  and one that was cut short before its message was recorded as working until it is
  as old (`state.go:79-83`). `LookIsTrue` allows these two answers and no others.

Some of what an engine may do is coarser in one module than in another:

- `Squad`: a message whose request timed out is not sent; one that is carried out all
  the same, which `Threads` models, is there like a turn somebody else asked for
  (`talk`, in `world`). A start whose request timed out made no session.
- `Agents`: a call ends at its own limit and is remembered as unanswered; one that a
  shorter deadline of its caller ends (`agents.go:135,185,202`) is a call that fails,
  without that memory.
- `Install`: csquad's group is inserted as the whole file or as a group; the insertion
  of a whole `hooks` or `Stop` member (`codexhooks.go:156-170`) is not told apart from
  the second. $CODEX_HOME and the skills directory stay where they are
  (`codex.go:119-123`), and so does $CSQUAD_HOME: another one would find its wrapper
  in place without the line saved (`install.go:399-402`).

## 7. Proofs

All theorems hold for every value of the constants that the named assumptions
allow; each module states its own.

`TaskFlowProofs` proves that `TaskFlow` keeps `Inv`, and from it `RowType`,
`RoundsAreBounded`, `HistoryIsAligned`, `AcceptedHasPassed`, `ProgressIsStarted`
and the action properties `FinishedStays` and `MergingIsChecked`. The assumptions
are that counts are numbers, that there is at least one round (launch refuses
fewer) and that the retry cap is a number. None of the safety properties is
inductive alone. `RoundsBounded` needs that a launched task has a round at all
and that a stopped check has one to resume (`RoundsGranted`); `HistoryAligned`
needs `RoundsBounded` and the types; `AcceptedPassed` and `ProgressHasSession`
need each other's phases and the rule that a resumed step is one the row was
stopped in. `Inv` is their conjunction. The proof has one lemma per phase of
`NextMove`, one step per action of `Next`, and the lemmas about `History` they
rest on. `MergingIsChecked` adds `NextToMerging`: an observation takes a task with
a check into merging only from `ready` or with a verdict that passed.

`FixesConverge` (`ConvergenceGuard`) needs a second invariant, `Guarded`: of a row
that was granted no extra round, every round judged before the current one
shrank. The history ends with the round before the current one or with the
current one, so a verdict leaves the earlier counts alone (`HistoryPrefix`) and
asks for a fix only if its own count is no plateau (`GuardedVerdict`).

The first part proves what `Squad` says of more than one row at a time, for any
tasks, processes and plays. It rests on two predicates about a single process.
`Local` says what a process may assume of what it read and of what it is about to
write, whatever happened since (`SquadTyped`: the types of rows and processes);
`Onward` says how one step takes a process from one point to the next. One lemma
per action classifies it as a step of a process that leaves the table alone
(`Step`), the start of a session (`Starts`), or one of the writes (`Wrote`,
`Inserts`, `Records`, `Holds`, `Deletes`), so each invariant is proved over seven
kinds of step instead of some forty actions:

- `Ordered`, for `DependenciesFirst`: whoever starts a session, or is about to,
  has seen all the task waits for done, and a done row stays done; a row with a
  session, or past its first turn, was started.
- `Single`, for `OneSessionEach`: among the processes at one of the points that
  lead to a start there is one per task, the task has no session yet and no
  longer waits; only the insert and the compare-and-set out of
  `waiting` lead there.
- `Cleared`, for `DoneTasksAreClean`: who is about to write `done` has removed the
  work, and removed work does not come back (`NothingStarts`).
- `Apart`, for `HeldStaysApart`: what merges, in the table, in a reading or in a
  move, is not held.
- `Alone`, for `MergesWhileMerging`: a process that takes a task out of merging
  holds its lock, unless it is a pass (`Guarded`); a lock is one process's; what
  is landed is merging, or has no branch (`Bare`). `Comes` classifies the steps by
  the locks they leave.
- `Accounted`, for `RemovedIsAccounted`: where a branch is gone its row is done or
  cancelled, or a process holds the task's lock and has such a move to write
  (`Closes`). Only `Clean`, under the lock, takes a branch away (`WorkStays`), and
  who is at the end of its cleanup does nothing but write (`ClosingActs`).

The second part of `SquadProofs` proves that the detailed specification implements
the abstract one, `Spec => Row!Spec` (`RowImplementsFlow`), and `RowFollowsFlow`
with it (`RowFollows`): for any tasks, any processes, any play and any number of
rounds, crashes included, passes, checks, landings and commands that write at once
move each row as one process at a time would. `SquadRoundsBounded`,
`SquadHistoryAligned`, `SquadAcceptedPassed`, `SquadMergingChecked`,
`SquadFinishedStays` and `SquadFixesConverge` carry the theorems of
`TaskFlowProofs` over to every row of `Squad`. The invariant is `IInv`:

- the row satisfies `Inv` of `TaskFlowProofs`, and a task that waits, or was
  handed back for waiting, waits for something (`Waits`);
- a recorded session was started (`SessionInv`);
- every process is `Good`: the row it read is a row of the table, of a version
  not later than the row's; if it is of the same version the two differ in
  the session and the hold at most (`Alike`: `SetSession` and `SetHold` leave
  `updated_at` alone); the row it read suits the point the process is at
  (`Placed`: a check runs for a row that was checking, a landing for one that was
  merging, a start for one that was made running after it waited); and the move
  it is about to write is one the flow allows from what it read (`Legal`).

The argument then is the code's own: `Transition` writes only over the phase and
version that were read, so a write that wins was decided on the row as it is but
for a session recorded since, and such a move, with the session and the hold of
the table kept, is a step of the flow from the row as it is (`WinSteps`). The
rest of this part is one lemma per action: that it leaves `Good` processes
(`...Took`) and the row alone (`...Frame`), or writes the table (`...Inv`). The
assumptions are that tasks are positive numbers, counts are numbers, there is a
round, and what a play launches are launches the code accepts (`Launches`).

The third part proves `AcceptedIsUnchanged` and `RechecksAfterFix`: what csquad
concludes from a session, a Stop event, an answer or a verdict is still so when it
writes. Each of these was read at some time, of some version of the row, and is
used at another. The invariant `AtRestInv` is about one task, any:

- `Matches`: what the row's phase says of the worker. Checked, ready, merging or
  handed back for its work: the worker rests, with no message on its way
  (`AtEase`). Failed or handed back as lost: its session is broken, or it rests.
  Fixing, or asked to sort out a merge: the one message is with its sender, in the
  inbox or taken (`OneMessage`), and if anything says that a turn ended in this
  version of the row (`Answered`: an event, an answer, the date a process carries)
  the worker rests again. Before: nobody sent it anything.
- `Dated`: no event, answer or verdict is of a version later than the row's.
- A verdict for the row's own version is about work that did not change.
- `Sure`: what a process knows that read the row as it still is (`Fresh`): a
  session it saw at rest while its task ran rests, one it saw broken is; the move
  it is about to write goes with that (`Suited`); a check that runs, runs on work
  that does not change.

A write that wins was decided by a `Fresh` process, and its move is `Suited`,
which says of checking to merging or ready that the work did not change and of
fixing to checking that the worker rests, so its inbox is empty; and it gives the
row a new version, so everything that was dated is of an older one. `Calms` are
the steps that leave the phase alone and do not wake the worker, `Turns` how a
process comes to its next point in one; what is left are the write, the insert,
the message sent (`SendsRest`), taken (`PicksUpRest`) and answered
(`TurnEndsRest`). `NextDeals` says of `flow.Next`, phase by phase, that what it
decides suits what was seen.

The theorems of the first and the third part have hypotheses, in the form `Spec /\
[]H => ...`, because what they leave out the code does not guard against: the
histories section 6 describes. All others, crashes and stale readings included,
are covered.

| hypothesis | what it leaves out |
|---|---|
| `NoneWithdrawn` | a launch that fails to start and deletes its row, whose number is then given to another task |
| `NoneRequeued` | a retry that sends a queued task back to wait, after a start that died before it recorded its session |
| `HeldBefore` | a hold written while the row merges or is being landed |
| `NoneGivenUp` | a pass that takes the row out of merging, its session gone or failed, while another process lands its branch |
| `SeenThrough` (of a step) | a process killed, or overtaken in the table, between a cleanup and the write that the task is over |
| `Undisturbed` | a user who talks to the worker's session; a Stop hook that begins after the row moved on |

`SquadTyped` and the second part need none, `DependenciesFirst` the first,
`OneSessionEach` and `DoneTasksAreClean` the first two, `HeldStaysApart` the first
and the third, `MergesWhileMerging` the first and the fourth, `RemovedIsAccounted`
the first and `SeenThrough`, the theorems of the third part the first two and
`Undisturbed`. They are conditions some plays break and most do not: in every state
of `user` the first four and `Undisturbed` hold, so there the theorems say
all that the run checks of `DoneIsClean`, `MergesMerging`, `AcceptedUnchanged` and
`RecheckAfterFix`; in `queue` a launch
that fails (`fault`) breaks the first and a retry the second, and those two plays
show by checking, on two tasks, that the properties survive a single one.
`SeenThrough` names two ways to lose an account of removed work; that there is no
third, whatever passes, checks and other commands do meanwhile, is the theorem.

`TaskFilesProofs` first proves `LockIsExclusive` and `OverTasksAreLeft` of
`LockFile`, for any number of processes and files. What the second is about, and
what not, is said at `OverIsLeft`. The invariant is about the name: while the first task of a number is live its file keeps its name, so what
any process has opened is that one file and nobody is about to unlink it
(`Named`); flock gives a file to one (`OneHolder`); before its launch nobody has
the number (`Unborn`).
It then proves that every step of `TaskFiles` is a step of
`LockFile` or leaves the lock alone (`FilesImplementLock`), so the exclusive lock
carries over (`FilesLockIsExclusive`). On it rest `SettingsAreKept`
(`KeptForRetry`) and `WorkersAreAsLaunched` (`WorkerAsLaunched`), whose invariant
`FilesInv` says who may touch the settings: who queues the task is alone with
them in its launch (`Queueing`); who starts it is in its launch, or holds the
exclusive lock and has read settings with the launcher's variables (`Starting`),
and adding a starter's to them takes none away and adds none where a provider was
chosen, so whether it writes them or puts them back they stay as launched
(`AsLaunched`); who prunes them
does so of a task a worker has had (`Pruning`). `Fresh` gives the beginning: before
the first launch of a number nothing was written. Both are, as the properties
are, about the first task of a number that no pass started before its arguments
were stored (section 6).

`NoticesProofs` proves `NoticesType` and `PhaseIsSentOnce` for any observers, those
of failed rows among them, and any number of moves: of each version, what was sent and what a process has
claimed and still owes is at most one, and is none before the row stores it as
sent for. `ClaimsAreKept` is the other half, that a claim keeps no event from
everybody: the version stored as sent for was told, or its claimant still owes it,
or it is in `lost`: its claimant died owing it, or its move is one the code sends
nothing of (`Accounted`).

`AgentsProofs` proves `AgentsType` and `SweepKillsOrphansOnly`: a call
that somebody waits for is younger than `OrphanAge`, because its process waited
at most `ShareWait` to share and `Timeout` for the answer; that `OrphanAge` is
past their sum is the assumption on the constants. `AnswersStayRecent`
(`AnswersAreRecent`) adds `Recent`: a call that runs reads no earlier than its
process asked (`ReadSince`), and what is in the file was read at most one
`Timeout` before it was written (`FileRead`), which a call that overwrites a newer
answer keeps too.

`ThreadsProofs` proves `MessagesArriveOnce`: what a process set out to send is
still before it, or in a request it gave up on, or with the thread. The number of
these never exceeds what it set out to send, because a request without an answer
breaks the connection (`Before` ends) and a request that carried the message ends
the operation. `LooksAreTrue` (`LookIsTrue`) rests on three conjuncts: a thread
that is not loaded does not work (`Resting`), a process in the middle of a look has
noted what the thread does now (`Noted`), and what a look answered fits one of the
kinds noted (`Told`): it works, rests, is `slow` (works on a turn that takes more
than two minutes to begin) or `cut` (its turn ended before anything was recorded). While the look goes on, every step that changes the thread is noted by
the processes that look.

`UsageProofs` proves `EachIsCountedOnce` (`EachCountedOnce`) for any number of
readers, messages, lines and rewrites. Three facts carry it. A rewritten
transcript has lines of the older one in their order (`Descends`), so two that
have the same line before the same place are the same up to it, and a saved
position whose checksum fits is a position of the file that is read. The lines of
a message stand close together (`Close`), so of a message that is `RecentIDs`
others behind no line can follow (`Folded`). And the total has the last line of
each message that is not open, once (`Total`); taking a line keeps this, whichever
of the three things it does (`Take`). `Kept` says so of the state file, for some
file of the history, and `ReadersOK` of what each reader holds. The assumptions
are `UsageAssumption`: positive limits, messages that are numbers, and no more
lines at first than there can be.

`InstallProofs` proves `LineIsNeverLost` for any versions, lines and hooks and any
number of commands, kills and edits, until one of two accidents (`ever.lost`,
section 6): a kill between the first and the last byte of the backup, or an
uninstall that meets a wrapper its manifest does not have. Its invariant
(`LineSafe`) says what each step of a command in progress still owes
(`Installing`, `Uninstalling`: the line is saved before the wrapper is written, the
wrapper goes before what it names) and that what is saved and backed up is the
user's (`KeepsMine`).

`FilesAreSafe` is the invariant behind the other three theorems of `Install`, one
conjunct per kind of file, each kept with the help of those before it: the
manifest and what a command in progress takes from it (`Shape`, which needs no
condition); the skills and
that each holds the user's last edit, in the file or in its `.bak`
(`SkillsTyped`, `EditsSafe`, for `EditsAreKept`); hooks.json with one group of
csquad's at most, and none once an uninstall went through (`HooksSafe`, for
`UsersGroupsStay`); and settings.json, where the wrapper `Covered` the bytes to
give back, or is not there and the file is what the user has (`LinesSafe`, for
`AllIsGivenBack`). The last is for histories in which no command was cut short
(`Whole`), and there neither accident happens: no kill tears the backup, and the
wrapper that stands is the one of the manifest (`Named`), also when an update has
given it a new command. An edit such an update took for csquad's (`ever.recast`) is
excepted, as the property says. hooks.json may have any length: `Kept` copies the user's groups
by a recursive function, whose value is proved by induction over the length,
written as the least element of a set of naturals since the library's induction
rules cannot be instantiated. The assumptions are the shape of what a hooks file
may begin with (`HooksAssumption`: groups of the user's) and that the bounds are
numbers (`BoundsAssumption`).

Only model-checked is liveness (`OwnStepsEnd`, `Settles`, `PhaseTold`, `AsksEnd`,
`OrphansEnd`, `OpsEnd`, `CatchesUp`), which TLAPS does not reach, and what the
hypotheses leave out, where a property survives it (the plays of `queue` above).

## 8. What could come next

- The runs of a check (a command with its limit, a reviewer's answer and one
  retry) as the detail of `Squad`'s check.
- The debounce and the deadlines of `wait` against a reference definition.
- `AcceptedUnchanged` with a user who talks: what csquad would have to compare to
  notice it (section 6), as a change of the code to check before it is written.

## 9. Not modelled

`wait` polls the passes `Squad` models and writes nothing. git is its answers
(the value of `work`, the faults). The desktop notification backends, process
groups and detaching, and notification set-up are operating system calls. The
status line's wrapper and ledger, prompts and wording are text. Schema
migrations, argument validation and forks of a session change no row of a running
flow. The Codex usage and the transcript of messages are whole-file readings.
Concurrent edits of settings.json by Claude Code while a command runs, and a
settings.json that cannot be read, are outside `Install`: a command does not
begin on the second, and the code does nothing about the first. `PROJECT.json`
says for each component what is left out.

## 10. Running it

    tlc -workers 2 -config MCTaskFlow.cfg MCTaskFlow
    tlc -workers 2 -config MCSquad_user.cfg MCSquad
    tlapm TaskFlowProofs.tla

Definitions named `X_Something` before an `X` are mutants: `X` as a plausible bug
would have it. `PROJECT.json` says which property each of them breaks.
