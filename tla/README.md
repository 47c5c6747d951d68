# akiso in TLA+

`akiso` is a collection of systems programs in C and assembly: a job-control
shell (`lsh`), a chat server and client (`minitalk`), an encrypting FUSE file
system (`fuse`), and assembly work around a Sweet16 interpreter (`asm`). This
directory holds TLA+ models of the parts where order and interleaving decide
whether the program is right, the TLC configurations that check them, and
theorems about them that TLAPS checks.

Definitions are named after the functions and variables of the source;
`PROJECT.json` maps each one to its lines.

## Inventory

| Component | State | Operations | Hard because | Status |
| --- | --- | --- | --- | --- |
| lsh job control (`main.c`, `execute.c`, `job.c`) | lists `current_job`, `pending_jobs`, `pending_removed_jobs`; `struct job`; the terminal; the children | prompt, `start_job`, `launch_job`, `wait_for_fg_job`, `fg`, `bg`, `exit`, `cleanup`, `handle_chld` | the SIGCHLD handler runs between any two steps and shares all lists and counters; children race with both | modelled, checked, proved |
| lsh list operations (`utility.h`, `job.c`) | next pointers | `remove_job_handle`, `LINKED_LIST_ADD_*` | the handler interrupts them between load and store | modelled, checked, proved |
| lsh launch (`execute.c`) | descriptor tables of parent and children | `create_pipe`, `close_pipe`, `link_pipes`, `do_redirects`, `start_job_internal` | numbers that are closed and given out again; error paths that must close everything | modelled, checked, proved |
| lsh input (`utility.c`, `handle_int`, `launch_job`) | line buffer, `sigint_received`, what the terminal holds | `read_line`, the loop of `start`, the `tcflush` behind a job | a signal between test and `read`; input in parts; a job that reads the same terminal | modelled, checked, proved |
| lsh parser (`parser.c`) | the arguments of `parse_tokens`, the job being built | `parse_tokens`, `parse_redirect`, `parse_process`, `interpret_line` | three levels of escapes, empty parts, limits, what an error path frees | modelled, checked, proved but for reading back what was written |
| minitalk server | `logged_in`, descriptors, `fd_set`s | accept, select, name, partner, forward, menu, `remove_user` | descriptors are reused; a partner may go at any moment; one process serves all | modelled, checked, proved |
| minitalk client | two processes, a socket, an alarm, `errno` | connect, read, write, `read_line` | the two processes end separately; a stale `errno` | modelled, checked, proved |
| fuse contents (`my_read`, `my_write`, `ssl-crypt.c`) | the bytes of a backing file | read, write, truncate | every request is encrypted and padded for itself, at offsets of the plain text | modelled, checked, proved |
| fuse names and descriptors (`realmain.c`, `path_util.c`) | the backing tree, `fi->fh`, the process's descriptors | mkdir, mknod, unlink, rmdir, chmod, open, opendir, release, releasedir, readdir | names must survive encryption and base64; `my_readdir` opens what it never closes | modelled, checked, proved |
| Sweet16 (`sweet16_fix.asm`) | sixteen 16-bit registers, status, carry | the opcodes of its tables | carry and borrow, branches, wrap-around | not modelled: a sequential interpreter for a 6502, apart from the C programs |
| the rest | | | vendored or tutorial code, drafts, exercises, generated listings | not modelled, reasons in `PROJECT.json` |

How they interact: lsh talks to its children by fork, signals, `waitpid`, the
terminal's foreground group, a control pipe that holds the first process of a
pipeline back, and one error pipe for each child. Its main thread and its signal
handler share memory and nothing else. The chat server talks to its clients over
sockets only. libfuse calls the handlers of the file system from several
threads; these share the backing directory and the descriptors. The programs do
not interact with each other, but for the chat client and server.

`PROJECT.json` lists the hazards, each at its line, with the properties that
cover them or the reason why none does.

## Modules

| Module | Contents |
| --- | --- |
| `Processes` | what the kernel does for lsh: process states, groups, `killpg`, SIGCHLD (external to the repository) |
| `JobLifecycle` | abstract jobs, as whoever types sees them: where each is, how far its first program is, what the shell does |
| `JobControl` | EXTENDS `Processes`: the shell, its handler, its children, the properties; INSTANCEs `JobLifecycle` |
| `MCJobControl` | symmetry for TLC |
| `JobControlProofs` | what `Append`, `Cons`, `Tail`, `RemoveAt` do to the elements of a sequence; three inductive invariants of `JobControl`, the refinement of `JobLifecycle` and the theorems |
| `JobList` | the lists of `JobControl` at the level of loads and stores |
| `JobListProofs` | lists as sets with ranks; that only the window can break them |
| `PipelineLaunch` | the descriptors of a launch, in the shell and in its children |
| `MCPipelineLaunch` | the redirects TLC uses |
| `PipelineLaunchProofs` | the tables of the shell and of its children, who execs before whom |
| `LineInput` | the terminal, `read_line`, SIGINT |
| `LineInputProofs` | a line that runs is one line |
| `TokenList` | what `parse_tokens` returns, said without its loop |
| `Tokenizer` | EXTENDS `TokenList`: `parse_tokens`, a turn of its loop at a time |
| `Parser` | EXTENDS `Tokenizer`: `interpret_line`, with every call of `parse_tokens` run inside; the properties |
| `ParserProofs` | where `parse_tokens` stays inside its allocation and where not, `interpret_line` uses it as it may, frees everything once and runs whole lines; `parse_tokens` returns what `TokenList` says |
| `MCParser` | the lines TLC parses; writing a job as a line |
| `Talk` | abstract chat: who is there, who talks to whom, the last message |
| `MinitalkServer` | the server as it is: table, descriptors, select, rounds; INSTANCEs `Talk` |
| `MCMinitalkServer` | symmetry for TLC |
| `CryptFile` | one file: symbolic AES-CBC, `my_read`, `my_write`, truncation, the properties |
| `MCCryptFile` | small data for TLC |
| `CryptFileProofs` | what is read of what was written, for every size of a block |
| `DirTree` | abstract tree of plain names and their listings |
| `CryptTree` | encrypted names, real paths, open files, descriptors; INSTANCEs `DirTree` |
| `MCCryptTree` | names with slashes in their base64, symmetry |
| `CryptTreeProofs` | descriptors; real paths; the refinement of `DirTree` |
| `MinitalkClient` | the client's parent and child, their socket, the alarm |
| `MinitalkProofs` | the inductive invariants of `Talk`, `MinitalkServer` and `MinitalkClient`, the refinement, the theorems |

Definitions called `X_something` are mutants: `X` with a plausible slip, used to
show that a property depends on what the code does there.

### JobControl and the code

The main thread has a program counter `pc`; a step is one system call or one
list operation together with the assignments around it. `cur` is the job in
hand, `nth` the process to fork next, `wait` the locals of `wait_for_fg_job`,
`leaving` tells `exit` from the `longjmp` taken when the terminal is lost. The
handler has `h` and `hat` (its pointer into `current_job`, as a position) and is
split at every `waitpid`, since children change state while it runs. It is on
top of the main thread: no main step happens until it returns, and it does not
start while SIGCHLD is blocked (`ChldBlocked`: `set_signal_mask` in
`launch_job`, `wait_for_fg_job` and `cleanup`).

A job is its index, its pgid the leader's pid. Its record has the fields the
code reads (`fg`, `stopped`, `pipeline_size` as `size`), the length of the
pipeline, and whether its memory is unused, live or freed. The field
`falling_apart` is written and never read, so it is left out; the local of the
same name in `wait_for_fg_job` is `wait.falling`.

A child is `born`, possibly `held` at the control pipe (the leader) or `iced`
(stopped before its exec), then runs, stops (`stopping` until `waitpid` reports
it, `stopped` after), continues, and ends as a `zombie` that somebody reaps.
`grouped` are the processes that `waitpid(-pgid)` and `killpg` reach; a later
child that finds its group gone stays outside (`setpgid` fails, unchecked).

Three ways to a segmentation fault are steps of the model, since they are steps
of the program: `fg 0` without jobs (`ZeroLine`), a job that ends between the
walk and the removal in `get_job_handle` (`Take`), and an unlisted child reaped
while `pending_removed_jobs` is not empty (`ReapAny`). After them the shell is
gone and its children are no longer followed. No property excludes them, and
every property is checked with them present.

`JobLifecycle` is what all this is to come to: a job is new, in hand (being
started, taken from the list, or waited for), listed, done or gone, its first
program has not been forked, is starting, runs or has ended, and the shell is
busy, at the prompt, leaving or over. `JobControl` maps its state to that: a job
whose memory is unused is new; one whose handle the main thread holds is
starting from `start_job_internal` to its end, waited for while `pc` is in
`wait_for_fg_job`, and taken otherwise; then `current_job` means listed,
`pending_removed_jobs` done, and any other place gone (`Phase`). The first
program is the leader (`FirstProgram`). What it leaves out are stutters: the
processes behind the leader, stops and continues, groups, the terminal, the
pipes and their order, the counters, and the handler's way through a list. What
stays is which list operation may happen when: the handler moves a job to "done"
at the prompt or between two steps of a busy shell, but not under a wait and not
before its leader ended; a pipeline that is given up never had its first program
running; nothing comes back from gone; and a crash loses the job in hand and
leaves the others where they are.

### JobList and the code

`JobControl` takes an operation on a list as one step. `JobList` says when it
may. `cell` is memory: the two heads and the `next` of every handle. The main
thread runs `get_job_handle`, `remove_job_handle` and `job_handle_add_last` one
load or store at a time, in the order in which the source has them (which is how
they are built: the makefile asks for no optimisation); `ptr` is an address, as
in the code. The handler runs whole between any two of them. Operations that run
with SIGCHLD blocked are whole too (`Enlist`).

`Window` names the program counters at which a handler that moves a job can
leave the lists broken: between the load and the store that unlink a handle
(`load`, `store`), and while the end of the list is looked for (`add`, `step`,
`put`). `torn` records that it happened. Outside the window the lists survive
any interruption. The window is no larger than needed: without any one of its
five places `Intact` fails. So `JobControl` is exact but for a handler that
strikes inside it, which can lose a job, leave it in both lists, or join the
lists to each other.

### Tokenizer, Parser and the code

`Tokenizer` is the loop of `parse_tokens`, one action for each way through it,
over the bytes of the command. `arguments` are offsets into `buffer`, the block
that follows the pointers in the one allocation. `returned` is `crashed` if a
pointer was stored behind the array. `TokenList` says the same without a loop:
the pieces between the delimiters that no odd number of backslashes escapes.

`Parser` is `interpret_line` with its callees. It calls `parse_tokens` by
`Call`, waits in `split`, `words` or `sides` while the tokenizer's steps run,
and reads the strings off the buffer (`Result`). `heap` counts how often each
object was freed. Strings are sequences of characters, so `trim`, `strtol` and
the levels of escapes are modelled by what they do. A line of nothing reads the
byte before the buffer (`buff[len - 1]`), which may be anything; a builtin may
answer anything. `start_job` ends the model: from there on the job is that of
`PipelineLaunch` and `JobControl`.

### PipelineLaunch and the code

The tables of the shell and of each child map numbers to what is open there: an
end of a pipe, the terminal, or the file of one redirect, each a file of its
own. `pipe` takes the lowest free numbers, `fork` copies table and variables,
`exec` drops what has FD_CLOEXEC. A number in a variable is a record `Fd(number,
of)`; `of`, what it was opened for, is history and tells whether a stale number
has come to mean something else. A read on an error pipe or on the control pipe
returns when the table of no process holds the other end, which the model
derives and does not assume. Every pipe, fork, redirect and exec may fail. After
a failure the shell kills the group; a program that has started may live on, and
so may any later child when the leader was gone before it could join the group
(`Spared`).

`Redirected` is one turn of `do_redirects`: an `open` at the lowest free number,
or the number on the right of `>&`, then `dup2`, then the close of the right
side, whichever it was. `Standing` says without descriptors what the redirects
of a program make of 0, 1 and 2, one after the other from left to right: a file
takes the place of what was there, and a copy gives the left side what the right
side has at that moment and closes the right side. `Plumbing` compares the two.

### LineInput and the code

The terminal is in canonical mode: `queue` has the chunks it hands out, one for
each Enter or ^D, and ^C throws away what was not read. `Read` is one `read(2)`
and the tests behind it; `bytes_read` is never updated in the code, so each read
may take a full buffer. `HandleInt` may come between the test of the canceler
and the read (`pc = "read"`), and then either interrupts the read or is followed
by one that blocks; `missed` records the second case.

A line may be a builtin, which leads back to the prompt, or start a job (`pc =
"job"`). A job in the foreground may read as much of the terminal as it likes
(`JobReads`), a part of a line too, and need not end. When `launch_job` goes on,
after a job in the foreground or at once, it takes the terminal back and throws
away all that was typed and not read, the line being edited too (`JobEnds`:
`tcflush`, `execute.c:404`), with no ^C; if it cannot take the terminal back the
shell leaves (`TerminalLost`). `thrown` counts how often input was thrown away,
in either way, and every character remembers the count at which it was typed.

### MinitalkServer and the code

`pc` is the part of the loop the server is in and `at` its index in the pass
that reads. `fdOf` is what the kernel knows of descriptors: `accept` returns the
lowest free one, `close` frees it. `logged_in` has the code's fields `fd`, `to`
(with `FD_UNASSIGNED` and `FD_AWAITING`), and whether `name` is set. A line is
chosen where it is parsed: any slot may be picked, any line may be ill formed. A
client may send a line in two parts, and hang up at any time. A write to a
client that has hung up may raise SIGPIPE, after which the server is `dead`; so
it is after a failed accept or select. The alarm that is to end `accept` is set
once, before it (`server_main.c:148`): it may come before `accept` is entered
(`AlarmEarly`), and then the server is `unarmed`, in an `accept` that only a
connection ends, with the users who are logged in unread.

`Talk` has no table, descriptors or rounds. The mapping: a connection is present
when a named slot holds its descriptor, and its partner is the holder of the
descriptor in that slot's `to`.

### MinitalkClient and the code

`child` and `parent` are the processes after the fork (which may fail,
unchecked). The specification is `ClientSpec`, so that one module can hold the
proofs of both ends. The child copies `inbox` to the terminal, `Chunk` bytes at
a time; the alarm may interrupt its first read, after which `errno` keeps EINTR,
and an end of file does not change it. The parent reads lines by `read_line`,
which keeps `N - 1` characters of a line. `wire` are the positions of the typed
characters that reached the server. `conn` follows the socket through close,
reset and SIGPIPE; a reset is reported once, to whichever process comes first.

### CryptFile and the code

`backing` is the backing file. A byte of it is the byte of a cipher block, which
is a record: `chain`, the plain text from the start of its request to the end of
the block, and `at`, its place in the block. That is all CBC with a fixed key
and initial vector can depend on, and two requests that begin alike give equal
blocks in the model as in the file. `Noise` is any byte that no request made: a
hole, or uninitialised stack behind what `pread` returned. Decryption gives a
block's plain text when the block is whole and stands behind the one it was
chained to, or first in the request with the initial vector; otherwise its bytes
are `Unknown`, and whatever depends on them (does this look like padding?) is a
choice.

`Write` is `my_write`: encrypt with padding, `pwrite` at the plain offset,
answer with what `pwrite` returned. `n` is how much of it `pwrite` took. `Read`
is `my_read`: it decrypts as many bytes as were asked for, however few were
read. `length` and `intact` are not in the code: how long the clients' own
writes have made the file, and which requests nothing has touched since.
`Answered` makes `reply` the answer of one call at a time; the calls themselves
come in any order.

### CryptTree and the code

`backing` has the real paths under `root_dir`, as sequences of characters, each
with its kind and its permissions (`may`: to read, write and search, of the
owner, as whom the file system serves). The base64 of a name's cipher text is a
constant, any injection into strings without a `^`; what `strn_replace` does to
it is spelled out, and so are path resolution at slashes and `NameMax`. `info`
is what libfuse keeps of an open node, `fh` in it the code's own. `fds` are the
descriptors of the process; `listed`, how often `my_readdir` got a directory
open, is not in the code. Every call on a real path needs the permission to
search all directories above it (`Reachable`), opening needs the permission to
read the node itself, and making and removing that to write its directory;
`my_chmod` gives and takes these at any time, also of directories above one that
is open. `Readdir` has the outcome that `opendir` returns NULL, unchecked, after
which the process is gone.

The server is not root, for whom no permission is missing, and nobody else
changes the backing tree.

libfuse is modelled where the code relies on it: it calls release once for every
open, refuses to unlink an open file since there is no rename operation, and
does not call `my_readdir` for a directory removed since it was opened.

## Runs

| Run | Instance | Question |
| --- | --- | --- |
| `job_control` | 2 jobs, pipelines of 1 or 2, SIGCONT from outside | do memory, handles, counters and terminal stay consistent; does every job live as `JobLifecycle` says? |
| `job_launch` | 1 job, pipelines of up to 3, no SIGCONT from outside, fairness | does the handshake of control and error pipes end, does `wait_for_fg_job` end exactly when nothing runs, is every child reaped? |
| `job_list` | 3 handles | where may the handler interrupt the main thread on a list? |
| `pipeline_launch` | up to 4 processes, 5 lists of redirects, fairness | is every descriptor closed by whoever must close it; does every program start with what its line says? |
| `line_input` | 2 lines, 5 characters, ^C while input was thrown away less than 3 times, 2 ^D, a buffer of 3, jobs that read | does what runs come from one line, as typed? |
| `parser` | every line of up to 5 characters out of 9, escapes, longer lines, written jobs | is a line parsed as a whole, or not at all, and into what? |
| `minitalk_server` | 3 connections, 2 slots | do descriptors, partners and writes stay consistent; is it a `Talk`? |
| `minitalk_heard` | 2 connections, an alarm at any moment, fairness | is everyone without a partner heard? |
| `minitalk_client` | 6 characters typed, 3 bytes sent, fairness | is anything lost, do both processes end? |
| `crypt_file` | blocks of 2 bytes, requests of 1 to 3, offsets 0 to 2, short `pwrite`s | what can be read of what was written? |
| `crypt_read` | one request of two blocks, reads of one | does read keep its contract? (it does not) |
| `crypt_tree` | 3 names, 4 paths, 3 sets of permissions, 2 open nodes, 2 descriptors | is the encrypted tree the plain one; are descriptors accounted for? |

What the properties say, lsh:

- `OneOwner`, `NoDangling`: a job's handle is in one place, and no place leads
  to a freed job. On the way through `longjmp`, `cleanup` frees jobs that
  `pending_jobs` still announces (`main.c:274`), so that way is left out.
- `SizeCovers`: `pipeline_size` is never below the number of processes still to
  be reaped, though the handler, its last loop and `wait_for_fg_job` all reap
  and only the first decrements. It may be above: that is how a job can stay in
  the list for ever, and why equality is not claimed.
- `TerminalHome`, `WaitedOwnsTerminal`: the terminal is the shell's at the
  prompt, and the job's while the shell waits for it.
- `AllOrNothing`: the first program runs only after every other process has got
  as far as its exec; it is what the control pipe is for.
- `StoppedIsShown`: a stop that was reported is not forgotten by `bg`.
- `NoStuckWait`, `LeavesQuiet`: counting stops in `wait_for_fg_job`. A wait that
  never ends on stopped processes needs a process that was reaped elsewhere or
  never joined, and the prompt comes back only when nothing runs. Both need that
  no SIGCONT comes from outside: with one, a process that stops twice is counted
  twice.
- `IsLifecycle`: the refinement. Its hard parts are that a job is announced once
  and only after its leader ended, whichever list the handler found it in; that
  none goes to "done" while another is waited for, since then SIGCHLD is blocked
  and the wait reaps for itself; and that what is given up has not run.
- `LaunchEnds`, `NoZombies`: liveness.
- `Intact`, `TakesItsJob`: outside five places the handler cannot break a list,
  and `fg` and `bg` take the job of the user's number or one that is done, never
  another running one.
- `TableRestored`: no `close` hits a number that was given out again, and the
  shell's table is afterwards what it was before; a failed launch costs at most
  two descriptors, which it does (`execute.c:317` does not close
  `first_error_pipe_read`, nor the read end in `prevfd`).
- `Plumbing`: a program starts with what its place in the pipeline and its
  redirects, files and copies read from left to right, make of 0, 1 and 2, and
  with nothing else open. What a copy means is what the code does: after `2>&1`
  the program has no 1 (see below), so in `2>&1 >file` the file takes a 1 that
  is closed, and in `>file 2>&1` the file moves to 2.
- `LeaderLast`, `Returns`: `AllOrNothing` and `LaunchEnds` again, where the end
  of a pipe is derived from who holds it.
- `RunsWholeLine`: what runs is one line, all that was typed of it since input
  was last thrown away, by ^C or at the end of a job, with nothing from before,
  unless the signal came between test and read; and only a line that is too long
  overruns the buffer.
- `EveryLineIsTaken`: every line that was entered is read, by the shell or by a
  job, or thrown away, unless the shell ends or a job in the foreground runs for
  ever.
- `Splits`: `parse_tokens` returns what `TokenList` says. `InBounds`: it never
  overruns its buffer, nor, without `allow_empty`, its array of pointers. With
  it (the splits at `|`, `<` and `>`) one of the two places that store a pointer
  does not look at the limit: a line of 22 pipes writes behind the array
  (`parser.c:44`). `InBounds` permits that; what it excludes is that such a call
  returns tokens.
- `FreedOnce`: no way out of a half built job frees twice or forgets, but for
  the list of pieces, which every line leaks.
- `WholeLine`: what was started are all the pieces of the line.
- `ReadsBack`: a job that is written as a line, with the backslashes it needs,
  is read back as it was; so are the two lines that `main.c:187` quotes.

minitalk:

- `PartnerLoggedIn`: a `to` is never a descriptor that was closed, or reused.
- `OneWritePerRound`: one `select` justifies one write to a socket.
- `AllSelected`: `select(20, ..)` reaches all users, as long as no connection
  was lost: with the table full `accept` still takes a connection and the code
  neither keeps nor closes it. After 16 slots are full, every further client
  pushes later descriptors towards 20.
- `IsTalk`: the refinement.
- `Heard`: a name or a choice of partner that was typed is read, unless the
  server is dead, waits for ever for the rest of somebody's line, or waits for
  ever for a connection because its alarm came too early.
- `AllPrinted`: the child leaves with everything printed.
- `KeepsLines`: between two lines the server has been sent what was typed, in
  order, once, but for what is beyond `N - 1` characters of a line.
- `BothStop`: when the server hangs up the child leaves, unless it has a stale
  EINTR, and the parent leaves with the next line after that.

fuse:

- `WrittenComesBack`: what one request wrote comes back from a read that starts
  there and asks for its cipher text, if nothing touched it in between; asked
  for exactly that much, the padding is stripped and nothing else. This is the
  most the format can promise: two neighbouring requests overwrite each other's
  padding, and the later one wins.
- `ShownSize`: the size shown is never below what was written and at most a
  block above it.
- `ReadNearlyAll`: at most a block of a request is lost.
- `IsTree`: the refinement of `DirTree`.
- `NothingRefused`: no name is refused for what its cipher text looks like, only
  for its length.
- `Accounted`: what is open keeps a descriptor of its own, and the open
  descriptors are those and one more for every listing.
- `DiesOfOpendir`: the process goes down only when descriptors have run out, an
  open directory has lost its permission to read, or a directory above it the
  permission to search.

### Findings

- `crypt_read`, `ReadExact`: "Read should return exactly the number of bytes
  requested except on EOF or error" (`mymain.c:189`, `main.c:314`, the tutorial
  the file system was written from). `my_read` drops the last block of a request
  unless it ends in padding, so a reader that asks for whole blocks of a longer
  write gets one block less each time, and for a single block nothing. In the
  trace two blocks are written in one request, and a read of the first answers
  with no bytes while the end of the file is at the end of the second.

Of the same kind, without a run of their own: "Write should return exactly the
number of bytes requested except on error" (`mymain.c:210`, `main.c:342`), and
`my_write` returns the padded length; and the second of the lines quoted as
examples in `lsh/main.c:188`, `cat aa 2>&1 >file.txt| ...`, starts `cat` with
descriptor 1 closed, since `do_redirects` (`execute.c:83`) closes the right side
of every redirect, also when it is not the file it has just opened.

### Bounds

Two jobs are enough for one in each role (in hand, listed, done, freed, or ended
while the other starts), two processes for a leader and one that is not.
Pipelines of three are used where order among the later processes matters: the
count of stops, and the handshake. `Jobs` also bounds how many command lines
start a pipeline; a job's index stands for its pid, so pids are not reused.
`MaxPipe` bounds the pipeline. `wait.count` and the lists need no bound.
`IsLifecycle` is checked with two jobs, of which one may be in hand or waited
for while the other is listed or done; that it holds of three, and of pipelines
of three, is in the theorem.

Three connections and two slots fill the table, leave and reuse descriptors, and
lose a connection. A connection is opened once, and has one line under way at
most. `NFds` is 6 against descriptors from 4, which is as tight as the code's 20
against 16 slots (`SelectAssumption`).

Three handles are enough for one in the hand of the main thread, one before and
one behind it. A pipeline of four processes has a first, a last and two in the
middle, which find different numbers free; the shell never has more than eleven
descriptors open, and a child one more for a file (`LaunchAssumption`). The
lists of redirects have a file for each of 0, 1 and 2, a copy before and behind
a file of the number it closes, a file opened while 1 is closed and so at 1, and
two files for one number.

Lines of five characters out of nine have every character class of the parser
next to every other; escapes alone go to six, since three passes over a string
take away three levels of them. `MAX_ARGS` is 5, so the short lines pass it
(`||||` has five pieces); what needs more room (errors behind good redirects,
too many tokens behind a pipe) is in the longer lines by hand, and the written
jobs have up to two processes with two arguments and two redirects. In
`line_input` a line may be shorter than the buffer, fill it, or be longer, and
input thrown away three times (`MaxThrown` bounds ^C) is enough for a ^C that is
missed, one that is not, and the end of a job between them. In `minitalk_client`
`N` is 4, so six characters make a line that is too long and one behind it;
three bytes in chunks of two take two reads.

Blocks of two bytes have all that blocks of sixteen have: a byte that is not the
last, padding of one byte and of a whole block. The data include a request that
ends like padding (`<<2, 2>>`), one of less than a block and one of more; files
of up to six bytes hold three blocks, so a request can lie before, behind,
inside and across another. `crypt_tree` has a name whose base64 has a slash
inside and one with a slash at its end, one too long for `NameMax`, and a name
used at two depths. Two descriptors are enough to run out with nothing open,
with one file open, and by listing alone. The permissions (`Modes`) are all, all
but reading, and reading only, so that a directory can be closed to its own
listing and to what lies below it separately.

`CHECK_DEADLOCK` is on wherever the system runs for ever; a shell that has
exited or crashed and a server or file system that is dead stutter explicitly
(`Gone`, `Dead`). It is off in `job_list`, `line_input`, `parser`,
`pipeline_launch` and `minitalk_client`: there the program crashes, ends or
returns, and what must not stop before that is said by `EveryLineIsTaken`,
`Returns` and `BothStop`, and for the parser by `Splits` and `WholeLine` at its
end.

### Fairness

lsh: weak fairness of the main thread, the leader's way to the control pipe, and
each exec: the kernel schedules what can run. Strong fairness of the handler,
because a pending SIGCHLD is delivered when it is unblocked, though it may be
blocked and unblocked in between. None for the user, the programs, or failures.
In `PipelineLaunch` weak fairness of the shell and of each child as processes,
not of their single steps; in `LineInput` of the shell, not of the user nor of a
job, which need not end. minitalk: weak fairness of the server's loop and, in
the client, of each process as a whole. None for whoever types, for the server
as the client sees it, or for the alarm; nobody needs to end a line or hang up.

## Proofs

Every invariant and action property that a passing run checks is proved for
every value of the constants, but for `ReadsBack`. The assumptions are those
named in the modules and nothing else, except where a theorem states a
hypothesis. What is assumed of constants is either a type, a limit of the code
(`SelectAssumption`: 20 descriptors against 16 slots; `LaunchAssumption`: room
for the eleven descriptors of a launch), or that two things are not the same
(`NulAssumption`: no NUL in a string; `HandlesAssumption`: a list's head is no
handle, NULL is no address; `Base64Assumption`: base64 is injective, never empty
and free of `^`).

Where a proof needs that something is true of all members of a list or of all
characters of a string, it argues by the least counterexample: `NatInduction`
takes an operator and cannot be used, but a set of numbers that is not empty has
a least member, and that is first-order (`LeastNat` in `JobListProofs`). The
recursive functions `Path` and `RealPath` are proved about in this way.

### Job control

`JobControlProofs`, for any set of jobs and any `MaxPipe`:

| Theorem | Statement |
| --- | --- |
| `Invariance` | `Spec => []IInv` |
| `TypeCorrect` | `Spec => []TypeOK` |
| `NoTwoOwners` | `Spec => []OneOwner` |
| `NoUseAfterFree` | `Spec => []NoDangling` |
| `SizeIsEnough` | `Spec => []SizeCovers` |
| `DoneIsLeaderless` | `Spec => []DoneHasNoLeader` |
| `TerminalComesHome` | `Spec => []TerminalHome` |
| `WholePipeline` | `Spec => []AllOrNothing` |
| `WaitInvariance` | `Spec => []WaitInv` |
| `WaitsForTheForeground` | `Spec => []WaitedOwnsTerminal` |
| `StopsAreShown` | `Spec => []StoppedIsShown` |
| `NoWaitForStopped` | `Spec => []NoStuckWait` |
| `QuietWhenLeft` | `~OutsideCont => (Spec => LeavesQuiet)` |
| `ImplementsLifecycle` | `Spec => IsLifecycle` |
| `LifecycleHand` | `LifecycleSpec => []OneInHand`, of the abstract jobs |
| `OneJobAtATime` | `Spec => []OneInHand`, of the jobs of lsh |

None of these is inductive. `TypeOK` needs `SizeCovers` (the decrement in the
handler must find something to decrement), which needs `ForkedOnlyPipeline` and
`LoopConsistent` (no process beyond the pipeline, and the size untouched while
it is launched); `OneOwner` and `NoDangling` need `HandlerConsistent` (the
handler is not on top of a blocked main thread) and `AnnouncedFirst` (what is
freed was announced before); `TerminalHome` needs `LeaderInSight` (a leader on
its way to exec has the main thread in `start_job_internal`); `AllOrNothing`
needs `PassedStarted` and `LeaderKept`. `IInv` is their conjunction. Each part
has a lemma that `IInv` and a step preserve it. To keep these short, frame
lemmas (`ProcStep`, `JobStep`, `CurStep`, `ListStep`) first say once, by going
through all actions, what a step can do to a process, a job, the main thread and
the lists; the later lemmas argue from those.

`WaitInv` adds what the wait rests on: while a job is waited for, and on the way
there, the terminal is its own or its leader has ended (`OwnsTerminal`); what a
reported stop leaves behind in `stopped`, also of the job in hand that is in no
list (`ShownInHand`); no process that was reaped is in a group (`GroupedLive`);
and `wait.count` is at least the number of members that are stopped, and below
`pipeline_size` or zero (`CountCovers`). `QuietWhenLeft` needs `CountExact`,
that the count is no more than the members that have stopped or ended either.
This is false with a SIGCONT from outside, and its hypothesis, that no such
SIGCONT comes, is the one under which TLC checks `LeavesQuiet` too.
`DoneHasNoLeader` is the weakest thing "done" means: a job may be announced as
done with other processes running, because the handler's `waitpid(-1)` files the
job under the pid of its leader alone.

`ImplementsLifecycle` needs a third invariant, `LifeInv`, for what the other two
do not say of leaders: the main thread forks the leader first (`FirstForked`), a
pipeline that is given up has a leader that did not get to run (`GivenUpUnrun`),
a leader that wrote to its error pipe has ended (`ErrsEnded`), a job that was
started has a leader (`LeadersThere`) which is in its group until it is reaped
(`LeadersGrouped`), and `cleanup` has emptied the list when it goes on to
announce (`Emptied`). `LeadersGrouped` is what ends a wait: `waitpid(-pgid)`
finds ECHILD only when the leader was reaped, so only what has ended is
forgotten. That only what has ended is filed as done follows from `LeadersThere`
and `DoneHasNoLeader`. Both hold of leaders and not of the processes behind
them, which may find their group gone; this is why `JobLifecycle` speaks of
first programs only.

The proof sorts the steps before it looks at them. A step that holds the same
handles in the same kind of place, and leaves every leader as far as it was, is
a stutter (`PhasesKept`, `ProgramIs`, `Stutters`), and most steps of the main
thread and of the handler are (`MainStutter`, `HandlerStutter`). For each of the
others a lemma names the abstract action it is (`StartedIs`, `WaitsIs`,
`ForgetsIs`, `ListsIs`, `ForkedIs`, `AbandonedIs`, `PrintRemovedIs`,
`CrashesIs`, `TakesIs`, `LeavesIs`, `HangsUpIs`, `DoneIs`); it says with
`PhaseTo` and `ProgramTo` that one job moved and all others stayed, and then the
mapped functions follow (`MovedMapped`). `MainLives`, `HandlerLives`,
`UserLives` and `ChildLives` put these together. `LifecycleHand` is proved of
the abstract actions, without a look at what they stand for, and `OneJobAtATime`
carries it back through the refinement.

### Lists of jobs

`JobListProofs`, for any finite set of handles:

| Theorem | Statement |
| --- | --- |
| `ListInvariance` | `Spec => []ListInv` |
| `ListsAreIntact` | `Spec => []Intact` |
| `TheirOwnJob` | `Spec => []TakesItsJob` |

`Linked(c, head, S)` says without recursion that the handles `S` are the list at
`head`: `next` leads from the head and from members to members or NULL, never to
one handle from two places, and always to a higher rank. `PathIs` says what the
recursive function `Path` computes, and a pigeonhole argument that a list that
is linked ends within as many steps as there are handles. The lemmas
`LinkedCut`, `LinkedLast` and `LinkedFirst` are the three operations. `ListInv`
is `Intact`, said with `Linked`, together with where the main thread's locals
point (`Placed`): between the load and the store of `remove_job_handle` `tmp` is
still what `ptr` leads to, and `val` what `tmp` leads to, which is exactly what
a handler in the window makes false.

`TakesItsJob` is claimed of torn lists too, where `ListInv` says nothing. Its
invariant `TakeInv` holds a set `D` of handles that were found done, closed
under `next` (`Closed`, `Shelter`): what the main thread meets when it has
strayed from the list it was looking through is in `D` and no running job.

### Launch of a pipeline

`PipelineLaunchProofs`, for pipelines of any length:

| Theorem | Statement |
| --- | --- |
| `LaunchInvariant` | `Spec => []LaunchInv` |
| `LaunchRestoresTable` | `Spec => []TableRestored` |
| `RunningInvariant` | `StandardRedirects => (Spec => []RunningInv)` |
| `LeaderRunsLast` | `StandardRedirects => (Spec => []LeaderLast)` |
| `ProgramsArePlumbed` | `StandardRedirects => (Spec => []Plumbing)` |

`LaunchInv` says of every place in `start_job_internal` which numbers above 2
are open (`ExactNow`: those of `LiveNow`, each with what it was opened for, and
no other), and that no variable names a number that has come to mean something
else (`AllNamed`); before a `pipe` no variable but the live ones keeps a number
at all (`Opening`), since the next `pipe` could give it out. `RunningInv` adds,
for every child at every place between fork and exec, what its table has
(`Process`), and who has got how far (`Order`): a later child has reached its
exec before the shell goes on to the next; who is gone has told the shell, or
the launch has failed; and while the launch is failing, the shell still has the
control pipe's write end or the leader is gone or was never forked.

`StandardRedirects` says that redirects name 0, 1 and 2. Without it the last
three do not hold, in the model as in the code: `do_redirects` on a higher
number can close the child's own end of the control pipe or of its error pipe.
The redirects TLC uses satisfy it, and nothing else is asked of them: any number
of redirects, several of one descriptor, copies of open and of closed
descriptors, in any order. The proof follows `do_redirects` and `Standing` side
by side, redirect by redirect (`Stands`): after each the ends at 0, 1 and 2 are
those `Standing` names, whatever numbers above 2 were used in between.

### Line input

`LineInputProofs`, for any size of buffer and any bounds:

| Theorem | Statement |
| --- | --- |
| `LineInvariant` | `Spec => []LineInv` |
| `LinesRunWhole` | `Spec => []RunsWholeLine` |

`LineInv` says that what the terminal holds is a chain (`Chained`): chunk after
chunk, each begins at the character at which the one before it stopped, or at
the first one of a line. `Started` ties the beginning of the chain to the
buffer: as many characters of this line are in the buffer as are missing from
the chain, and between lines none is. `Filled` says that a newline ends the
filling. Each read, of the shell or of a job, moves the beginning of the chain;
^C and the end of a job empty it.

### Parser

`ParserProofs`, for any alphabet, any `MAX_ARGS`, any lines and builtins, and
for the tokenizer any sequence of calls:

| Theorem | Statement |
| --- | --- |
| `TokenizerInvariant` | `TokenizerSpec => []TokenizerInv` |
| `TokensInBounds` | `TokenizerSpec => []InBounds` |
| `TokenizerTypeCorrect` | `TokenizerSpec => []TokenizerTypeOK` |
| `OffsetOrder` | `TokenizerSpec => []OffsetsGrow` |
| `ParserInvariant` | `Spec => []ParserInv` |
| `ParserCallsTokenizer` | `Spec => TokenizerSpec` |
| `OnlyEmptySegmentsOverrun` | `Spec => [](InBounds /\ (Overrun(arguments) => allow_empty /\ returned # "tokens"))` |
| `EveryObjectFreedOnce` | `Spec => []FreedOnce` |
| `LineIsWhole` | `Spec => []WholeLine` |
| `SplitsAsSaid` | `Spec => []Splits` |

`InBounds` alone is not inductive: that a buffer of `strlen(command) + 1` bytes
suffices needs that a backslash held back has its byte reserved and that the
terminators of tokens replace delimiters, and that no result is too long needs
that whenever the unchecked place has passed the limit a token is still to
begin. `OnlyEmptySegmentsOverrun` says of lines what is left open by that: the
array can be overrun, by a call that keeps empty tokens and by no other, and
never with a result. `ParserCallsTokenizer` carries this over to
`interpret_line`: its steps are calls with a string, a set of delimiters without
a backslash and a flag, or turns of the loop, or nothing to it. `ParserInv` adds
how far each of the nested loops is and which objects are on the heap there
(`HeapKept`): the list of pieces, what the finished processes own, and what the
process in hand has so far. Every error path frees the last two.

`SplitsAsSaid` compares a loop over characters with `Split`, which says of
positions in the whole command whether they are breaks, backslashes to drop or
kept. The first half of the proof is about `Split` alone: what one more
character at the end does to it. `InOrder` of a set with one more number above
the others is one longer (`InOrderAppend`, by ranks); whether a position is
escaped depends on the one before it (`EscapedNext`); so a piece with one more
character has one more character when its escapes are resolved, or loses the
backslash before it (`PartAppend`), a break closes a segment and anything else
makes the last one longer (`SegmentsAppend`), and the tokens follow
(`StrungAppend`). `Cut` says all of this of one command: its closed segments and
the one it is in. `SplitPrefix`: a longer command has no fewer tokens, which is
why the loop may answer NULL in the middle of one. The second half is the
invariant `Follows`. While the loop runs (`Reading`), the part of the command it
has read is cut, the tokens of the closed segments are in the buffer, each at
its offset and with its NUL (`Closed`), and what has been stored of the token in
hand is its segment so far, a backslash held back left out. When the loop has
ended (`Answer`) the buffer holds the tokens of the command, or there were too
many. Each action keeps it (`EndSegmentFollows`, `ReadFollows`,
`TooManyFollows`, `EndFollows`, `CallFollows`). In `Init` no call has been made
and nothing was answered, so the invariant of the parser is `Called`: `Follows`
from the first call on.

### minitalk

`MinitalkProofs`, for any finite set of connections, any number of slots and any
`NFds` of at least `FirstFd + Slots`; and for the client for any size of buffer
and chunk and any bounds:

| Theorem | Statement |
| --- | --- |
| `TalkPartners` | `TalkSpec => []PartnersPresent` |
| `ServerInvariance` | `Spec => []ServerInv` |
| `ServerTypeCorrect` | `Spec => []TypeOK` |
| `PartnersLoggedIn` | `Spec => []PartnerLoggedIn` |
| `WritesAreJustified` | `Spec => []OneWritePerRound` |
| `ImplementsTalk` | `Spec => IsTalk` |
| `ServerPartners` | `Spec => []PartnersPresent`, of the mapped state |
| `EveryUserSelected` | `Spec => []AllSelected` |
| `ClientTypeCorrect` | `ClientSpec => []ClientTypeOK` |
| `NothingMissed` | `ClientSpec => []AllPrinted` |
| `AlarmOnce` | `ClientSpec => AlarmOnlyFirst` |
| `LinesKept` | `ClientSpec => []KeepsLines` |

`PartnerLoggedIn` is inductive together with: free slots are clear, no two users
and no two connections share a descriptor, what the table holds is open, and
what waits to be accepted is not. The refinement reads the mapping off such a
table (`Mapping`) and shows that accept, select, menus and the clients are
stutters, that giving a name is `Login`, picking is `Pick`, forwarding is `Say`
and `remove_user` is `Leave`, or a stutter when the user had no name.
`EveryUserSelected` is a pigeonhole argument: a free slot and nothing lost means
fewer than `Slots` open descriptors, so `accept` returns a low one.

The client needs `ClientInv`: what was sent is in the socket, in the child's
hand or on the terminal; a child that has left saw an end with nothing before
it; and while the alarm is armed nothing was printed. `LinesKept` needs
`LinesInv`: what has reached the server and what is in the buffer are together
in order exactly what is kept of what was typed (`Kept`), and the length of the
buffer is the number of characters of the line or `N - 1` if that is less, since
the length of the buffer is all `read_line` looks at when it drops a character.

### fuse

`CryptFileProofs`, for any block size, any data, offsets and sizes:

| Theorem | Statement |
| --- | --- |
| `PaddingStaysInABlock` | `Spec => []ShownSize` |
| `RoundTrip` | `Spec => []WrittenComesBack` |
| `LosesABlockAtMost` | `Spec => []ReadNearlyAll` |
| `FileTypeCorrect` | `Spec => []TypeOK` |

`ShownSize` needs `SizeInv`, which adds that the bound holds with the length of
the padding of the last write. `RoundTrip` needs `RoundInv`: for each request in
`intact`, the backing file has its cipher text at its offset (`Kept`). Writes
and truncations keep it because what they touch is taken out of `intact`; a read
of it decrypts block by block, each behind its own predecessor (`IsBlock`,
`Chained`), and the last block ends in its padding, which `Unpadded` removes.

`CryptTreeProofs`, for any names and paths, any base64 that meets its
assumption, any `NameMax`, any finite set of open nodes and any limit of
descriptors:

| Theorem | Statement |
| --- | --- |
| `TreeTypeCorrect` | `Spec => []TypeOK` |
| `DescriptorsApart` | `Spec => []HandlesApart` |
| `DescriptorsAccounted` | `Spec => []Accounted` |
| `TreeInvariance` | `Spec => [](FdInv /\ BackingInv /\ TreeInv)` |
| `OnlyOpendirKills` | `Spec => []DiesOfOpendir` |
| `NamesAreNeverRefused` | `Spec => []NothingRefused` |
| `ImplementsTree` | `Spec => IsTree` |

`HandlesApart` and `Counted`, the two parts of `Accounted`, are inductive
together with the types of `info` and `fds` (`FdInv`): a release takes away one
descriptor because what it closes is open and nobody else's. That `listed` is
never more than `MaxFds`, part of `TypeOK`, follows from `Accounted`.

The rest needs that a real path is the path of one name only. `RealPathIs`
unfolds the recursive function, `RealPathComesApart` cuts a real path at its
last slash (no component has one, since `strn_replace` has put `^` for it), and
`RealPathApart` shows by the least counterexample that different paths stay
different. `TreeInv` is then what a directory tree is: everything in the backing
tree is the real path of something, in a directory that is there, and what is
open under its name is there too. `ImplementsTree` maps `Make` to making,
`Remove` to removing, a listing to a listing, and the rest to stutters.

### What is proved and has no run, and what has a run only

The type invariants of all modules that have a theorem `...TypeCorrect` are
proved and have no run (the others are part of the invariant of a run and of the
inductive invariants); so are `DoneHasNoLeader`, `OneInHand`, `PartnersPresent`,
`AlarmOnlyFirst` and `OffsetsGrow`.

Only model-checked:

- `ReadsBack`: writing a job and reading it is a fold over strings on both
  sides, an induction over data.
- All liveness: `LaunchEnds`, `NoZombies`, `Returns`, `EveryLineIsTaken`,
  `Heard`, `BothStop`. Fairness and ENABLED are out of the prover's reach.
- `ReadExact`, which is false.

## What the models leave out

lsh
- `JobControl` takes list operations as single steps; `JobList` shows where the
  program may not.
- Pids are not reused.
- Fatal signals take effect at once, and a child that is stopped before exec can
  be killed but executes nothing.
- Every outcome of the prompt is always possible in `JobControl`.
- Programs do not call `tcsetpgrp` or `setpgid`.
- Redirects to numbers above 2: `3>x` would write over a number of the shell's
  own pipes in the child.
- Wording, `cd`.

minitalk
- What a line says, and its truncation to 255 characters.
- Writes that block because a socket's buffer is full: `OneWritePerRound` states
  what the code does against it.
- `accept` may take any waiting connection, not only the first.
- The client before it is connected.

fuse
- Requests longer than the 8192 bytes of the buffers, paths longer than
  `PATH_MAX`.
- Errors of the disk: `pread` or `pwrite` that fails changes nothing.
- Attributes other than the owner's permissions; `fsync`, `access`, the log.
- A file system that runs as root, and changes of the backing tree from outside:
  then directories may vanish or become unreadable at any time.
- OpenSSL: encryption is symbolic, and cipher texts that no request made are
  `Noise` to it.
- `.` and `..` in listings, and in paths, which the kernel resolves first.

### What the program does that no property forbids

These were met while modelling. The models have them, no text of the repository
says otherwise, and the properties above are stated around them.

- `fg 0` without jobs, a job that ends while `fg` looks for it, and a child
  reaped that no list has end the shell (`JobControl`). Cleanup after `longjmp`
  prints jobs it has freed.
- A line with `MAX_ARGS` tokens or more in a process, or with a blank process,
  is dropped without a message (`SplitPiece`); `trim_end` cuts one trailing
  blank; an empty line reads `buff[-1]`.
- `2>a<b` writes a file called `a<b`: the check for both signs in one token
  cannot fail (`BeginRedirect`). No argument can have a `<` or `>` in it,
  escaped or not.
- Every line leaks its list of pieces.
- The chat client's parent ends at ^D while its child keeps the connection; a
  child with a stale EINTR spins when the server hangs up; a failed fork leaves
  only the parent; a line of 1023 characters or more loses its newline, and the
  server takes the next line for its end.
- The chat server dies of SIGPIPE when it writes to a client that has hung up.
  It hears nobody while it waits for the rest of a line, nor in an `accept`
  whose alarm came before it.
- What is typed while a job runs is lost at its end without a word
  (`execute.c:404`), the part of a line before a job's end with it: the rest
  runs.
- A child that could not join its group survives the kill after a failed launch.

## Plan

1. fuse: the descriptors of `CryptTree` composed with one `CryptFile` for each
   file; attributes (`my_chown`, `my_utime`).
2. `MinitalkClient` composed with the server's end of a connection, in the place
   of the server's environment.
3. `Sweet16`: registers modulo 2^16, the opcodes as an operator, checked against
   arithmetic; branches and carry.
