# The remote working ground, specified

TLA+ specifications of `NP_RWG_Server`, three chat-and-shell servers that share
one command language: `np_simple` (one client at a time), `np_single_proc` (one
process, a `select` loop) and `np_multi_proc` (one process per client, shared
memory). The repository's code is the reference; where it departs from what its
assignment (`src/spec/project2-spec.pdf`) or its comments say, a run shows it.

## The system

| Component | State | Operations | Interacts through |
|---|---|---|---|
| `np_single_proc.cc` main | `user_info_arr` (vector), `all_fds`, descriptors, process environment | select, accept, poll and read, end of file, sweep | sockets; calls parser; hands its standard output to each user in turn |
| built-in commands (`parser.cc`, `command.cc`) | fields of `user_info`: `id_num`, `name`, `env_var`, `user_pipe` | `exit who tell yell name setenv printenv`, `broadcast` | the user table; writes to every user's socket |
| `exe_bin`, single process | pipes of the line, `user_pipe`, `pre_pid`/`last_pid` | stages, user pipes, fork, waits | pipes shared with children, `waitpid` |
| number pipes | `pipe_num`, `is_piped`, `is_exe` of `cmds` | `reduce_num_pipes`, `collect_num_pipe_output`, `reduce_num_by_nl` | kept across lines of one user |
| `np_multi_proc.cc` parent | slots in shared memory | accept, take a slot, broadcast, fork | shared memory without locks |
| `npshell.cc` shell (one per client) | its slot, its environment | poll its mailbox and its socket, parser | reads and writes all slots |
| FIFO user pipes (`exe_command`, multi) | files `user_pipe/XtoY` | mkfifo, open, unlink in children | flags in shared memory, set by the shells |
| `np_simple` | none between clients | accept, fork, shell | - |

What is hard: one process hands a single standard output around, so who is
written to, and whether that write fails, decides about everybody; a user that
left stays in the vector until the end of the round; descriptors are reused
while the select set, the vector and the pipe maps remember their numbers;
leaving by `exit` and by losing the connection are two different paths; the
server waits for children whose input or output may need the server. In
`np_multi_proc` processes read and write shared memory without a lock, so every
check (slot, name, pipe flag, mailbox) is separated from its act.

What makes each part correct: ids and chosen names are unique and the id is the
smallest one free; the select set is exactly the live sockets; nobody is
starved; each user hears of exactly the users that come and go; a user pipe
joins two users that are there and is used once; a descriptor is never taken for
another; a user's commands see the variables this user has set and no others'. A command reads
exactly the output it is meant to: of the stage before, of the number pipes due
at its line, or of the user whose pipe it takes, however often descriptor numbers
were reused since; whoever waits for an end of file gets it. In `np_simple` there
is one client at a time, whichever process serves it.

## Modules

| Module | What it is |
|---|---|
| `RwgService` | What any of the servers promises: `Enter` (smallest unused id), `Rename`, `Transfer` (user pipes read and made by one stage), `Leave`. No sockets, rounds or descriptors. |
| `SingleProc` | `np_single_proc`: the select loop, the built-in commands, the user pipes and waits of `exe_bin`. Shown to implement `RwgService`. |
| `MultiProc` | `np_multi_proc`: the parent and one shell per client on the slots of the shared memory, a step for each place where another process may get in between. Shown to implement `RwgService`. |
| `ExeBin` | `exe_bin` of `np_single_proc` and the parser in front of it, line by line of several users: number pipes, temporary pipes, user pipes, redirection; every descriptor of the server and every pipe end its children hold. |
| `Fifo` | User pipes of `np_multi_proc` behind their flags: shells, children, FIFOs as inodes with a name. |
| `SimpleServer` | `np_simple`: the processes that accept, serve and wait, among them those that were forked for a client and outlive it. |
| `MCSingleProc`, `MCMultiProc`, `MCExeBin`, `MCFifo`, `MCSimpleServer` | What clients type in each run. |
| `SingleProcProofs` | Theorems about `np_single_proc`: for any clients types, ids, names, descriptors and the login and logout messages; for clients that take turns user pipes, no write to a connection that is gone, and the refinement of `RwgService`. |
| `MultiProcProofs`, `MultiProcHeardProofs` | The same for `np_multi_proc`: types, slots and refinement; messages. |
| `ExeBinProofs`, `ExeBinKeptProofs` | Theorems about `exe_bin`: the parser's definitions, the types of everything it makes, temporary pipes and words; then who holds which descriptor, the pipes kept between lines, and that no wait of the server is for ever. |
| `FifoProofs`, `SimpleServerProofs`, `RwgServiceProofs` | Theorems about the modules they are named for. |

`SingleProc` and `ExeBin` divide one program: in the first users come, go and
meet, and a command is known by how it ends; in the second the users stay and
their lines are followed into the children. `MultiProc` and `Fifo` divide the
other in the same way, at the flags in shared memory.

### How `SingleProc` corresponds to the code

The vector `user_info_arr` is the set `users` ordered by `arrival`; this is exact,
since the vector only grows by `push_back` and `remove_if` keeps order. Fields of
`user_info` are functions over sessions, and a session is one connection ever
made. Descriptors are numbers because the program compares and reuses them;
`TakeLow` gives the lowest free ones, as the kernel does.

One round of `while (true)` is cut where the program can be told apart by a
client or by another line of the code:

| Action | Code |
|---|---|
| `Select`, `OperatorExit` | `np_single_proc.cc` 33-63 (`Watched` is nfds) |
| `Accept`, `OutOfFds` | 64-79, with the broadcast of the login |
| `PollEof`, `PollError`, `PollLine` | 80-114: one read of one ready user, in vector order |
| `Exit ChangeName Yell Tell SetEnv Show Empty` | `parser.cc` 40-82 and the functions of `command.cc` it calls |
| `Crash` | lines the parser dies of (`Fatal`): blanks, a number `stoi` refuses, a `>` at the end |
| `BeginRun`, `NoPipeLeft`, `StageReadFails`, `StageWriteFails`, `StageRuns`, `EndRun` | `exe_bin`, `command.cc` 154-259: one action per stage |
| `Prompt`, `ShutDown` | `np_single_proc.cc` 115-127 |
| `Sweep` | 131-138 |
| `Connect Send HangUp Abort ResetArrives` | the clients and TCP |

A write (`Write`, `Reached`, `Outcome`) goes to users in vector order. It raises
SIGPIPE on a socket that is shut down or was reset; a pending reset makes it fail
and leaves `cout` bad for good; the first write to a socket whose client closed
succeeds, and the reset comes later. A command is known by whether it
reads its input to the end and whether its output is larger than a pipe:
`HowItEnds` derives from this if the child ends by itself, ends once the server
closes its pipe ends, or never does, and `AfterWait` and `EndRun` what
`waitpid` does then. `pre_pid` is uninitialised before the first fork; a wait on
it is a choice between returning and waiting.

`DupRoom` is a bound: a line is read only while two descriptors are left, the
copies of standard output and error. Without them `dup` fails, the `dup2` that
should restore the server's output fails too, and its own log goes to the last
user's socket; that is not followed.

### How `MultiProc` corresponds to the code

A slot of the shared memory is an index into `id_num`, `name`, `user_pipe` and
`broadcast_msg`; the slot the code counts as i - 1 is `i` here, so a used slot
has its own number as id. `me[s]` is the index a shell was forked with, `pc[s]`
where the process at work for session `s` is. A loop over the slots (`j`) is
taken one slot at a time: other processes change slots while it runs.

| Actions | Code |
|---|---|
| `Accept`, `ScanNext`, `Claim`, `Fork` | the parent, `np_multi_proc.cc` 38-74, with `give_available_id` |
| `Pass`, `FindEnd`, `Post` | `broadcast` in any process: a slot is skipped, or the end of its mailbox is found and the message is copied there, the two halves of `strcat` |
| `PrintMail`, `ClearMail`, `NoMail`, `BrokenPipe`, `ReadLine` | the poll loop, `npshell.cc` 26-62 |
| `Exit`, `CleanNext`, `FreeSlot`, `Reset`, `Forget` | `exit` in `parser.cc`, `clean_user_pipe`, `reset_logout_user` |
| `CheckName`, `CheckNext`, `ChangeName` | `name`: every other slot is looked at, then the name is written |
| `Yell`, `Tell`, `Local`, `Crash` | the other lines; `tell` copies to the start of a mailbox; a line the parser dies of ends this shell and leaves its slot |
| `Run`, `ReadNothing`, `ReadPipe`, `ReadFails`, `WriteNothing`, `WritePipe`, `WriteFails`, `Take`, `EndRun` | `exe_bin`, `init_rd_user_pp`, `init_wr_user_pp`, `close_rd_user_pipe` |
| `Connect`, `Send`, `HangUp` | the clients |

A shell reads 0 for ever from a client that closed: `HangUp` changes nothing but
the socket, and the shell ends only when it prints twice into it (`BrokenPipe`).
Its slot stays in use. The data abstracted is the text of messages (`Mail` keeps
the kind and the sender) and which of a row's entries a pipe takes (a row is a
set; that a free entry holds 0, and 0 is therefore found in it, is kept in
`Flagged`). `WritePipe` checks a row for the pipe and sets its entry in one step
where the code has two loops: nobody else puts entries into this row.

### How `ExeBin` corresponds to the code

A line is a sequence of tokens (`Token`), a word being `cat` (reads its input to
the end) or `ls` (does not). `split_by_pipe` and `parse_user_pipe` are functions
from tokens to `cmds`, with the order in which the code removes tokens. `tab` is
the server's descriptor table: a number stands for an end of a pipe, or for
something else (`Other`: a socket, a file, a terminal), and the program's own
variables (`fd` of a command, `temp`, `user_pipe`) hold numbers, as in the code. So a
number that is closed twice, or read after it was closed, means whatever the
table says then. A child is a record of what it reads, where it writes and
which ends it holds.

| Action | Code (`command.cc`) |
|---|---|
| `Start` | 154-171, with the parser before it and what the caller saved |
| `Collect` | `collect_num_pipe_output`, one number pipe at a time; past the last temporary pipe the server is taken to end (`killed`) |
| `StageFails`, `WaitPre` | 180-199: a user pipe fails, and the wait after it; before the first fork `pre_pid` is not set, and the wait may pass at once or for some child first |
| `StageForks` | 200-243: `fork`, what the child does before `exec` (`close_unused_pipe_in_child`, `exe_command`, `exe_f_red`), and what the parent closes |
| `EndLine`, `Reap` | 245-259: `close_pipe`, `close_temp_pipe`, the wait, `reduce_num_by_nl`, `remove_if` |
| `Finish` | a child reads to the end of its input, writes and ends |

Four variables are history: `lines`, `segs`, `owed` and `made` say which outputs a
command was meant to read, counted as the user counts (a number pipe counts the
commands that end in a number pipe or with the line, from the next one on).
`FedRight` compares this with what the child finds.

### How `Fifo` corresponds to the code

A command line is one stage with a pipe to read, one to write, or both. A FIFO is
an inode, numbered after the job that made it; `name` says which inode, if any, is
in the directory. `open` waits in `rdwait` or `wrwait` until there is somebody on
the other side (`Meets`).

| Action | Code (`command.cc`) |
|---|---|
| `Type` | 58-82: `init_rd_user_pp`, `init_wr_user_pp`; one that fails makes the shell wait for `pre_pid`, which is not set: for a child that is left, or not at all |
| `Fork`, `Clear`, `Reap` | 83-149: `fork`, `close_rd_user_pipe`, the wait for a stage that does not write a user pipe |
| `OpenRead`, `Unlink`, `MkFifo`, `OpenWrite`, `Run` | `exe_command` in the child, 1098-1173 |
| `Exit`, `Login` | `clean_user_pipe`, 642-662; the slot is given to the next client |

### How `SimpleServer` corresponds to the code

A process other than the first is named after the client it was forked for. `kid`
is the child it waits for, `cin_eof` its `cin`, which a fork copies. `Accept` and
`Reap` are the loop of `np_simple.cc` 23-47 and `Prompt`, `Run`, `Leave` and
`EndOfInput` the shell of `npshell.cc` 3-20 with `parser.cc` 12-38. What a process
prints goes to the client it was forked for, also when it has become a server and
prints the address of the next; that may be SIGPIPE (`Deaf`, `Fading`).

Definitions named `X_How` next to a definition `X` are slips: plausible wrong
versions of it, by which each property is shown to depend on the code.

## Runs

| Run | Clients | Shows |
|---|---|---|
| `single_serial` | three sessions, two at a time; one types when the server is idle, every command; all leave with `exit` | refinement of `RwgService`; `NamesUnique`, `HeardRight`, `NoOrphanPipe`, `NoSigPipe` |
| `single_concurrent` | five sessions, two at a time, that talk at once and leave by `exit`, end of file or reset; descriptors up to 7 | `TypeOK`, `IdsUnique`, `HeardRight`, `Selected` |
| `single_live` | four sessions, two at a time, that act at once; user pipes, failing stages and large output; weak fairness | `LineServed`, `OneHolder` |
| `single_select` | clients that yell and leave in any way | **violation** of `SelectSeesAllReady` |
| `multi_serial` | three sessions, two at a time, every kind of line; a client acts when the server is at rest | refinement of `RwgService`; `OneOwner`, `HeardRight`, `TypeOK` |
| `multi_concurrent` | the same acting at once, through user pipes, dying of a line or hanging up, without `exit` and `name` | refinement of `RwgService` |
| `multi_lost` | one stage reads a user pipe and writes one; clients take turns | **violation** of `NothingLost` |
| `lines` | two users, four lines: number pipes, pipelines, `>` and user pipes | `TypeOK`, `FedRight`, `WaitEnds`, `Remembered`, `AsTyped` |
| `lines_stray` | `ls \|1` and then `cat >2` | **violation** of `PipedInto` |
| `fifo` | two users that pipe to each other and themselves, five lines; weak fairness | `TypeOK`, `FlagIsFile`, `FifoRight`, `PromptBack` |
| `fifo_exit` | the same, leaving while a pipe is not read | **violation** of `FifoRight` |
| `simple` | three clients of `np_simple`, leaving in any way; weak fairness | `TypeOK`, `OneClient`, `RootServes`, `Served` |

The assumptions of `single_serial` and `multi_serial` are the assignment's: clients do not execute
commands at the same time, and always leave with `exit` (pages 6 and 9).
In `SingleProc` connecting is never held back; in `MultiProc` it is (`AtRest`),
because a login while the slot is given back is a fault of its own (see "What
the runs found"). The other
passing runs drop them one by one. `multi_concurrent` keeps `exit` out for that reason,
and `name` since nothing but a few memory reads separates the check of a name from
its use: two users can take one name, which no document rules out when they type
at the same time.

The inputs of `lines` keep to lines the code gets right, and the bound `Mixed`
(FALSE) lets a user pipe be used only while no number pipe of the user waits, which
is what `lines_stray` shows. The bounds of `fifo` are `Patient`, a user types once the
children have made the FIFOs their flags announce, and `Tidy`, a user leaves with
no pipe about it, which is what `fifo_exit` shows. "What the runs found" says what
happens without them.

### Bounds and why they are enough

- **Sessions (three, two at a time).** A session never comes
  back, so the third is the one that takes an id, a name or a descriptor that
  another gave up, while one more user watches. Each hazard about reuse needs a
  leaver, a successor and at most one witness. `single_concurrent` has five, since
  it takes four sockets to leave none for a fifth, and `single_live` four.
- **`MaxUsers`** is 2, so that the third session must reuse an id. A user that lost its
  connection keeps its id until the end of the round, so a third that joins in this
  round finds none and gets 0, as the 31st would.
- **`MaxLines` = 2** lines per client: make and use of a pipe, name and leave, set
  and see. Longer sequences are sequences of the same actions on the same state. It is
  1 in `single_concurrent` and `single_live`, which have more sessions instead.
- **`MaxFd`** is the largest descriptor. It is 18 in `single_serial`, where three or four
  command lines are all it takes until `pipe` fails (`NoPipeLeft`), since each leaves
  a copy of standard output behind, and 7 in `single_concurrent`, where 4 to 7 are left
  for sockets and copies: `exit` shuts a socket down and never closes it, so that a
  few departures leave nothing for the fifth client (`OutOfFds`), while end of file
  gives numbers back that are used again. In `single_live` and `single_select` it is no
  limit.
- **`View`** (`single_concurrent`) keeps of `arrival` the order of the users in the table,
  which is all the actions compare, and leaves out what a session that is over has sent.
- **`TempPipes`** is 1 instead of 5: only the number of descriptors a line takes
  depends on it.
- **Input lines** are one set per run, in `MCSingleProc`; every built-in command
  and every shape of pipeline (reads, writes, both, neither, failing first or
  second, small or large output) occurs in some run.

- **`MultiProc`**: two slots and three sessions for the same reasons: one slot
  that is given back and taken again, and another whose shell looks on. Two lines
  per client let a pipe be made and used while the other shell does the same, and
  let a mailbox receive a second message while the first is printed.

- **`ExeBin`**: four lines (`MaxLines`) are what a number pipe `|3` needs to be
  made, to wait through two lines of both users and to be collected; descriptors freed by
  one line are reused by the next and closed by the third. `TempPipes` is 3 instead
  of 5, so that a short line runs out of them. A line starts only if there are
  descriptors and pipe names for it (`Room`); `MaxFd` (50) and `Pipes` (30) are
  enough for all of these lines. The code exits when `pipe` fails, which `SingleProc` models.
- **`Fifo`**: five lines (`MaxJobs`), with departures between them: a pipe made and read, made
  again under the same name while a child of the first is still there, and both
  directions at once. With two users each slot is writer and reader.
- **`SimpleServer`**: three clients: the chain of processes that became servers
  is two long, which its proof shows to be no limit; one command line each.

### Fairness

Weak fairness of `Server`, the disjunction of all steps of the server process:
the system schedules a process that can run. Clients and operator are not fair,
and neither is the arrival of resets. Nothing else is assumed. `LineServed` allows
for the operator to stop the server. The lines of `single_live` are
`cat <2 | cat | cat`, whose middle command has output larger than a pipe, and
`ls | cat >1`: the server waits at the end of a line and behind a stage that failed,
and each wait must end. Where the stage in front of the failing one waits for input,
or the output has no reader, it does not end (`pc = "hung"`, reached by
`single_serial`); a user on a reused descriptor may not be looked at
(`single_select`). These lines, and departures that close a socket, are therefore not
in its inputs; user pipes, whose numbers are above all sockets, are.

`MultiProc` and `ExeBin` are checked for safety only: `Spec` has no fairness. That
waits end is the invariant `WaitEnds` in `ExeBin`: some child can always go on.

`Fifo`: weak fairness of each shell and each child, which are processes; the kernel
wakes an `open` when the other side comes. Users owe nothing. `SimpleServer`: weak
fairness of each process, and of the client that types `exit` in the end: "Clients
always use 'exit' to leave the shell" (page 6). `Served` allows for clients that
hang up nevertheless.

`CHECK_DEADLOCK FALSE`: clients may fall silent, the operator may stop the server
and the server may exit or be killed. A server that hangs in `waitpid` is the
state `pc = "hung"`, which `LineServed` forbids for the lines of `single_live`.

## Proofs

Each theorem below is about every value of the constants that the named
assumptions of its module allow (`BoundsAssumption`, `NamesAssumption`,
`EnvAssumption`, `InputsAssumption`, `ModesAssumption` in `SingleProc`, and their like
elsewhere; TLC evaluates them in every run). A hypothesis on how clients behave is
part of the statement and is named in the tables. The hypotheses are:

| Hypothesis | Means | Why |
|---|---|---|
| `TakeTurns` | clients type when the server is idle, and none leaves without `exit` | pages 6 and 9 of the assignment; what happens otherwise is in "What the runs found" |
| `Serial` (`MultiProc`) | a client acts when every process is at rest | the same; a login counts as an act |
| `Orderly` | `Serial`, none leaves without `exit`, no line the parser dies of | `MessagesAreRight` of the other server needs none of it |
| `EnoughIds`, `EnoughSlots` | no more clients at a time than ids or slots | the assignment: "The maximum number of online users is 30" |
| `NoExit`, `NoRename` | nobody types `exit`, or `name` | the alternative to `Serial`: then clients may act at once |
| `Patient`, `Tidy` | a user types once the FIFOs announced are there, and leaves with no pipe about it | `FifoRight` is false without them (run `fifo_exit`) |
| `LateLines` (`ExeBin`) | of the user pipes of a command all but the first are its last words; the command in front of `>` and the file have none | the parser removes the wrong words otherwise (see "What the runs found") |
| `~Mixed`, `UnmixedLines` (`ExeBin`) | a line with user pipes comes when none of its user's number pipes waits; a line with `>n` has no number pipe | `PipedInto` is false without the first (run `lines_stray`), and without the second for `ls \|1 ls >2` |
| `PromptLines` (`ExeBin`) | no number pipe and no user pipe in a line is behind a command that reads; a line with a number pipe in its middle has no user pipe, and if a command that reads follows at once the number is 1 | `WaitEnds` is false of `cat \|1 cat` and `cat \| cat <5`, where the server waits for a child whose end of file it holds back, and of `ls \|2 cat` and `ls \| cat \|1 cat` once something collects; every line of the run `lines` is so |

### np_single_proc (`SingleProcProofs`)

| Theorem | States | Hypotheses |
|---|---|---|
| `TypeCorrect` | `[]TypeOK` | |
| `IdsAreUnique`, `NamesAreUnique` | `[]IdsUnique`, `[]NamesUnique` | |
| `DescriptorsHaveOneHolder` | `[]OneHolder` | |
| `WatchedAreThere` | `[]Selected` | |
| `MessagesAreRight` | `[]HeardRight` | |
| `PipesHaveReaders` | `[]NoOrphanPipe` | `TakeTurns` |
| `NeverSigPipe` | `[]NoSigPipe` | `TakeTurns` |
| `ServesAsPromised` | `Implements`, the refinement of `RwgService` | `TakeTurns`, `EnoughIds` |

- `TypeOK` is inductive. Its part about `cur` says that a command is served only for a
  user that is in the table: the index with which `parser` and `exe_bin` are called
  stays valid because the sweep happens only between users.
- `IdsUnique` is inductive relative to `TypeOK`: `give_available_id` looks at the ids of
  all users in the table, the ones that left this round included (`NewIdIsUnused`), and
  only `Accept` and `Sweep` touch ids (`WhoTouchesTheTable`). `NamesUnique` is not: a
  new user must come with no name, so `NamesInv` adds that a session outside the
  table has none.
- `FdInv` carries descriptors. `OneHolder` alone breaks in the middle of `exit`: the
  user has left the table's live part, its socket is still open and is written to
  once more. `HolderInv` therefore speaks of the users that are there *and the one
  being served* (`Holders`), and keeps the listening socket and what the line
  opened (`Taken`) apart from both. It needs to know where a round stands
  (`RoundInv`: nobody is marked closed at `select`; who was served or closed is not
  polled again) and that a session that was not accepted holds nothing
  (`OutsideInv`). `WatchInv` says `all_fds` exactly; with the sockets of users being
  open it gives `Selected` at `select`. How far `select` looks is not part of it:
  run `single_select` shows that this is wrong.
- `HeardInv` adds to `FdInv` that every user that is there has heard of exactly those
  that are there and came no earlier (`ToldInv`), at every step and not just at `select`, and that
  `arrival` numbers grow (`OrderInv`). It is conditional on `cout`, which one failed
  write silences.
- `SerialInv`, under `TakeTurns`: every connection of a user is whole (`WholeInv`), one
  line at most is on its way and while it is served nobody else is ready (`TurnInv`),
  and every pipe that is held leads to a user that is there (`PipeInv`), at every
  step. The last breaks without the second: a leaver stays in the table until the
  round is over, and a user served after it can still make a pipe to its id. `NeverSigPipe` follows from the first, since a write to a
  whole connection raises no signal (`WholeSurvives`). It speaks of this signal only: a line
  can still end the server (`Crash`), and so can a full
  descriptor table.
- `ServesAsPromised` adds to it that the connected clients are finitely many and no more
  than there are ids, and that every user has a proper one (`CountInv`), so that
  `Enter` finds an id (a count of the used ids against the users). One lemma per visible
  step shows it to be `Enter`, `Rename`, `Transfer` or `Leave`; all others stutter.

### np_multi_proc (`MultiProcProofs`, `MultiProcHeardProofs`)

| Theorem | States | Hypotheses |
|---|---|---|
| `MultiTypeCorrect` | `[]TypeOK` | |
| `SlotsHaveOneOwner` | `[]OneOwner` | `Serial` or `NoExit`; `EnoughSlots` |
| `MultiServesAsPromised` | `Implements` | `Serial`, or `NoExit` and `NoRename`; `EnoughSlots` |
| `MultiMessagesAreRight` | `[]HeardRight` | `Orderly`, `EnoughSlots` |

- `TypeInv` adds to `TypeOK` what each place in the program has ready (`ShapeOf`): a
  line and a stage where one is looked at, a slot where a loop is inside its
  array. It holds whatever the processes overwrite of each other.
- `OwnerInv`: a slot in use has the id of the one session that owns it, every id belongs
  to an owner, and behind the parent's scan there is no zero (`SlotInv`). Two things
  can break this, an id that becomes zero behind the scan, which `TurnInv` excludes,
  and a scan that finds no zero, which `CountInv` does by counting.
- `ServiceInv` adds what is read in one step and relied on in a later one: the names
  that `name` has already compared (`NameInv`), and the slots that a leaver's clean-up has
  already passed (`PipeInv`). Under `NoExit` and `NoRename` shells and parent interleave
  freely; the refinement holds at every one of their steps.
- `HeardInv` follows a broadcast slot by slot. What a user knows is what it heard
  and what is in its mailbox (`View`); `ViewInv` says who is in it while a login or
  logout message is under way: those the message has reached, and not the others
  (`Reached`). `MailInv` says that login and logout messages meet empty mailboxes, so
  that none is overwritten, `CastInv` what a process that broadcasts will do next,
  and `AliveInv` that nobody dies on the way.

### exe_bin (`ExeBinProofs`, `ExeBinKeptProofs`)

| Theorem | States | Hypotheses |
|---|---|---|
| `TypeCorrect` | `[]TypeOK` | |
| `PoolSuffices` | `[]PoolLimit` | |
| `WordsAreTyped` | `[]AsTyped` | `LateLines` |
| `PlaceAlways` | `[]PlaceInv` | `~Mixed`, `UnmixedLines` |
| `RememberedAlways` | `[]Remembered`, and with it `[]PipedInto` | `~Mixed`, `UnmixedLines` |
| `WaitEndsAlways` | `[]WaitEnds` | `~Mixed`, `UnmixedLines`, `PromptLines` |

- `Inputs` may be any set of lines the shell accepts (`InputAssumption`), of any length. The
  first quarter of `ExeBinProofs` is about the parser: that it returns commands for every line
  (`MadeParts`, `SplitParts`), what removing tokens one by one does step by step
  (`Removals`), and that `LowSeq` and `PairsIn` give distinct descriptors that are free.
- `Typed` is inductive: `TypeInv`, the types with every element of a record and a
  sequence, and `Progress`, which says how far the line is. Commands before `i` are done and
  kept ones are number pipes, so `my[i - 1]` and `temp[temp_id + 1]` exist where the code
  reads them, `pc = "killed"` being the one place where it reads past the end; at `wait` all commands are done, which is
  why `remove_if` keeps number pipes only.
- `PoolLimit` says what the temporary pipes suffice for, lines of fewer segments than there
  are pipes, one less than the code's comment has. It rests on `PoolInv`. The code takes a temporary pipe whenever it collects
  for a stage, and the limit counts segments, so the proof must show that within a
  segment no second one is taken: counters only run down when a number pipe starts
  (`reduce_num_pipes`), which ends the segment (`SegSteps`, `Follows`), and therefore in the
  rest of a segment nothing is due (`NoneDue`). `Taken(b)` then maps the pipes taken
  to the segments from the line's first, `b`, to the current one.
- `WordsAreTyped` is about the parser alone, with a different hypothesis: the tokens
  to remove are found first and removed one by one, each removal moving the later ones, and one
  position past the end takes the last. If all but the first stand at the end, the two slips
  cancel (`LateIsTyped`). With one user pipe, or `<m` and `>n` at the end, as in all
  examples of the assignment, this is so.
- `RememberedAlways` is about descriptor numbers. The code closes by number and keeps the
  numbers it has closed: the pipe of a stage is closed by its reader's fork or at the end of
  the line, a temporary pipe after each stage that read it and again at the end. `PlaceInv`
  follows every number through the line. `Owns(n, f)` says which command, user pipe, temporary
  pipe or saved copy `n` remembers `f`; `Distinct` and `OneEach` say that no number is
  remembered twice and no end of a pipe open twice; `Whole` that as long as the line has a
  `>n` to make, all its pipes are open, so that the new pipe gets no number of theirs, which
  is where the two hypotheses are needed; `Loose` counts what nobody remembers, the `stdout_copy` of each line.
- `FlowInv` adds the data: the output of a command that is kept is in its pipe or its
  writer runs (`Flow`), and no child has a kept user pipe for its input (`NoReader`), so that a
  pipe is emptied by its reader only. A step keeps it if it keeps the pipes and the writers of
  what stays and names the writer of what is new (`FlowServes`, one lemma for all steps but
  the exit of a child).
- Between two lines both say where each number belongs, and counting the owners
  (`NumbersOfCommands`, `NumbersOfPipes`) gives the number of open descriptors.
- `WaitEndsAlways` is about what children hold. A child inherits all the server has open and
  closes what `close_unused_pipe_in_child` names, and a reader sees end of file only when
  nobody has the write end, the server included. Some child can go on because children cannot
  hold each other back in a circle (`NoCircle`: in every set of children there is one whose
  pipe nobody in the set can write), and because the server has the write end of a reader's
  pipe only inside the line, when that reader is a stage already started and the pipe its own
  or the line's first temporary one (`WritersOpen`). At a wait within the line, which is a
  user pipe that failed (`Failing`), no stage before it reads, by `PromptLines`.
- `NoCircle` holds of a new child if it holds no write end of a pipe that some child reads,
  itself included (`NoCircleAdd`). For a stage this follows from where its input comes from
  (`SourceNames`: a user pipe, the last temporary pipe, or the stage before it) and which of
  the server's numbers are write ends of it (`SourceApart`, `ChildHolds`); for the child that
  collects from its being the first of its line that reads (`CollectFirst`,
  `CollectorHolds`). This is the place where `cat |1 cat` breaks it.
- It rests on two more invariants. `LineInv` says what `PromptLines` means while the line runs,
  counters running down as it does, and why a stage reads a temporary pipe or not (`Stops`).
  `OpenInv` says which pipes of the line and which temporary pipes are still open, and
  `Paired` that a write end is never open without the read end next to it, so that an
  input found in the table is a pipe (`ReadsPipe`) and not a closed number.

### FIFO user pipes (`FifoProofs`)

| Theorem | States | Hypotheses |
|---|---|---|
| `FifoTypeCorrect` | `[]TypeOK` | |
| `CommandsReadTheirPipe` | `FifoRight` | `Patient`, `Tidy` |
| `FlagsAreFiles` | `[]FlagIsFile` | `Patient`, `Tidy` |

`FifoRight` is about the moment a command begins to run. `FifoInv` says what is true
before: whose pipe a flag, a name and an inode are at each step of the writer's and
the reader's child. `WriterOf` gives the writer's side (before `mkfifo` there is
no name; while it waits, its FIFO has the name and a flag or a reader), `ReaderOf` the
reader's (the name is still that of the announced command when the child opens it,
and `unlink` takes that one away), `ForkOf` and `ClearOf` the two places where the
shell has changed a flag and not yet forked, or forked and not yet changed it.
`PipeInv` closes the circle: one reader per FIFO, and no name or flag without
somebody it is there for. Without `Patient` a shell forks a reader for a FIFO that is
not made yet (`ForkOf`), and without `Tidy` a writer waits whose flag is gone and whose
reader never comes (`WriterOf`).

### np_simple (`SimpleServerProofs`)

| Theorem | States |
|---|---|
| `SimpleTypeOK` | `[]TypeOK` |
| `OneClientHolds` | `[]OneClient` |
| `RootAlwaysServes` | `[]RootServes` |

- That one process is busy is not inductive: a server dies, a child ends and its
  parent takes over. `IInv` adds that a client that was not let in has no process
  (`Unborn`), that a child that is waited for was started and has one parent
  (`OneChild`), and that no two processes can take a step, where a process whose
  child is over counts too (`OneActive`): it is about to accept again.
- `RootServes` says that a child never returns into the accept loop unless some client left
  without `exit`. A child does so at the end of file of `cin`, and may have inherited
  that from its parent. `EInv` adds that whoever is at end of file has lost its own
  client or has a parent that is (`EofOf`), and that parents can be numbered in the order of
  their age (`Aged`). The oldest process at end of file then has lost its own client.

The chain may have any length: the three clients of the run are no limit.

### The service

`ServiceIsCoherent` (`RwgServiceProofs`): the abstract service never shares an id or a chosen
name and has no pipe with a session that is gone. Through `ServesAsPromised` and
`MultiServesAsPromised` this is what the users of both servers get.

### Only model-checked

- Liveness (`LineServed`, `PromptBack`, `Served`): out of the prover's reach.
- `FedRight` of `ExeBin`: which output each command reads. It is false of some lines (see
  "What the runs found"), and holds of the lines of the run for a reason that needs the
  output of every command to be followed into its reader, beyond what `FlowInv` says of
  the kept ones.

## What the runs found

Shown by a run of the present set:

- A shell prints its mailbox and then clears all of it; what arrived in between is
  never seen (`npshell.cc:37`, run `multi_lost`). One stage that reads and writes user
  pipes posts two messages in a row, so clients that take turns meet this too.
- Descriptor numbers of a collected number pipe are closed twice more, when a user
  pipe may have them: `ls |1` and then `cat >2` loses the output (`command.cc:771`,
  run `lines_stray`).
- Leaving `np_multi_proc` clears the flags of user pipes but not their FIFOs, and the
  writers go on waiting in them: the next pipe between the same ids delivers the
  old output (`command.cc:646`, run `fifo_exit`).
- `select` is bounded by the last user's descriptor, not the largest one; users
  above it wait until that user leaves (`np_single_proc.cc:42`, run `single_select`).

Shown by the same modules with other constants (`MC` modules and cfgs of one input
set each, not kept):

- A user that loses its connection leaves its pipes behind, and the next user with
  its id reads them (`np_single_proc.cc:92`; `exit` does clean them). `NoOrphanPipe`
  fails with `Eof = TRUE` and inputs `>1`, `>2`; page 9 of the assignment wants all
  pipes about a user closed when it disconnects.
- `tell 99999999999 hi`, like `tell abc hi`, makes `stoi` throw, which nothing catches,
  and ends `np_single_proc` for everybody (`parser.cc:71`, `Crash`, in `single_serial`
  too); page 5 wants an error message for a receiver that does not exist.
- Variables of one user reach the commands of others that have not set them
  (`np_single_proc.cc:104`, `Exported`, in `single_serial` too); page 8 wants settings
  of its own for every client.
- The first of the five temporary pipes is never used, and the fifth collecting stage
  of a line reads past them, although the code says "only support 5 number pipe in a
  line" (`command.cc:160`, `:716`). With three, `ls |1 ls |1 ls |1 ls` ends `killed`.
- `exit` gives its slot back before it is done with it; a user that logs in on it
  in between loses its id, name and messages, and the next user is given the same slot
  (`parser.cc:107`). `OneOwner` of `MultiProc` fails with `Inputs = {exit}` and
  `Serial = FALSE`.
- A stage with two failing user pipes reports one error (`command.cc:182`; the
  assignment's page 8 wants both).
- A number pipe due behind a command that waits for input hangs the server: the child
  that collects inherits an end it does not use (`cat |1 cat`). A stage behind a
  number pipe in a line that collected one reads a temporary pipe the parent has
  closed (`cat |5 cat`, `command.cc:234`). `WaitEnds` fails with either line in
  `LineInputs`.
- `cat <2 > a.txt` passes `<2` to `cat` (`parser.cc:206`), and `cat <2 >1 x` loses its `x`
  instead of the second user pipe (`parser.cc:178`). `AsTyped` fails
  with such lines.
- A reader of `np_multi_proc` that is faster than the writer's child finds no FIFO and
  reads what its own client types (`command.cc:1108`). `FifoRight` fails with
  `Patient = FALSE`.

Modelled, and not contradicted by any document, so that no property states the
opposite: one client's reset ends the server (`PollError`) or silences it
(`cout_bad`); output larger than a pipe into a user pipe and failing stages behind
waiting ones hang the server (`pc = "hung"`); a line of blanks (`parser.cc:142`), a
user or number pipe whose number is too large (`:168`, `:173`, `:226`, `:236`) and a `>`
at the end of a line (`:215`) crash it, or only the shell in the other two servers
(`Crash`; what the reads out of bounds do is undefined, and the crash is taken for
it); a stage that reads and then cannot write has announced the read (`StageWriteFails`);
descriptors leak (`BeginRun`, `Exit`) until `OutOfFds` or `NoPipeLeft`. In
`MultiProc`: a shell whose client closed polls for ever and keeps its slot; a login
with no slot left takes the first slot from its user (`Claim`); `tell` overwrites
what waits in a mailbox (`Tell`); two messages to one mailbox overwrite one another
(`Post`); a stage whose writer left follows a pointer that was never set (`Take`). In `Fifo`: a
shell whose user pipe failed may wait for the writer of an earlier line (`Type`). In
`SimpleServer`: once a client hung up, clients that follow are accepted and never
served, since the shell inherits the end of file of `cin`; `Served` therefore ends where
somebody hangs up.

## Not modelled

- Start-up (`check_arg`, `socket`, `bind`, `listen`): straight-line calls that
  exit on failure.
- The wording of messages, `who`'s sorting and layout, the server's own log.
- `src/test`, `src/zip`, `makefile`: experiments, archives, build.
- How TCP splits the input: a read returns one line in all models. In the code two
  lines in one read are glued together (`parser.cc:43`) and half a line is executed;
  what a property could demand depends on what the network delivers at once.
- A client of `np_simple` that resets its connection.
- Failure of `fork`, `dup` and `dup2` for want of processes or descriptors, other
  than in `accept` and `pipe` (`DupRoom` keeps `dup` out of it).
- `!` and `!n` against `|` and `|n` (where stderr goes), unknown commands, output
  larger than a pipe in `ExeBin` (`SingleProc` has it), descriptors that run out
  there.
- Number pipes of `np_simple` and `np_multi_proc`: their `exe_bin` has the code of
  `np_single_proc`'s for them.
- Of `np_multi_proc`: what a shell prints to its own client, and therefore the SIGPIPE
  that printing anything but mail may raise; the lengths of lines and messages against
  the size of a slot's buffers; the parent's own writes to a client that left at once;
  the operator's end of the server, which removes the shared memory, and a restart
  while shells of the last run go on: no document says what these shells may expect.

## Plan

Done: all modules and the theorems above. What is left: `FedRight` of `ExeBin` on top
of `FlowInv` and `HoldInv`.
