--------------------------- MODULE PipelineLaunch ---------------------------
(***************************************************************************)
(* The descriptors of start_job_internal, src/lsh/execute.c: the pipes     *)
(* between the processes, the error pipe of each of them and the control   *)
(* pipe that holds the leader back, as numbers in the tables of the shell  *)
(* and of its children.  JobControl takes for granted what this module     *)
(* derives: that a read on one of these pipes ends when it should, and     *)
(* that a program starts with the descriptors its line asks for.           *)
(***************************************************************************)
EXTENDS Integers, Sequences, FiniteSets, SequencesExt

CONSTANTS
  MaxProcesses,   \* the longest pipeline
  MAX_FD,         \* the descriptors are 0..MAX_FD
  RedirectLists   \* the redirects a process may have: sequences of records
                  \* [left_fd, right_fd], right_fd = -1 for a file

ASSUME LaunchAssumption ==
  /\ MaxProcesses \in Nat \ {0}
  /\ MAX_FD \in Nat
  /\ MAX_FD >= 11
  /\ RedirectLists \subseteq Seq([left_fd : 0..MAX_FD, right_fd : -1..MAX_FD])

STDIN_FILENO == 0
STDOUT_FILENO == 1
STDERR_FILENO == 2

VARIABLES
  size,         \* the number of processes in job->pipeline
  redirects,    \* their redirects
  pc,           \* where the shell is in start_job_internal
  k,            \* current_process
  fds,          \* the descriptors of the shell
  control_pipe, error_pipe, pipefds,    \* its pairs of numbers
  prevfd, first_error_pipe_read,        \* and single numbers
  child,        \* the processes forked
  told          \* the processes that wrote to their error pipe

shell == <<pc, k, fds, control_pipe, error_pipe, pipefds, prevfd, first_error_pipe_read>>
vars == <<size, redirects, shell, child, told>>

-----------------------------------------------------------------------------
(* Tables of descriptors.  What is open is an end of a pipe, the terminal    *)
(* or a file; <<>> is a number that is free.                                 *)

Closed == [end |-> <<>>, cloexec |-> FALSE]
Terminal == [end |-> <<"terminal">>, cloexec |-> FALSE]
\* What process n opened for its r-th redirect.
File(n, r) == [end |-> <<"file", n, r>>, cloexec |-> FALSE]

IsOpen(table, fd) == fd \in 0..MAX_FD /\ table[fd] # Closed
Free(table) == {fd \in 0..MAX_FD : table[fd] = Closed}
Lowest(table) == Min(Free(table))
Holds(table, end) == \E fd \in 0..MAX_FD : table[fd].end = end

\* A number in a variable of the program, with what it was opened for: the
\* second part is history and no step looks at it.
Fd(number, end) == [fd |-> number, of |-> end]
NoFd == Fd(-1, <<>>)
NoPipe == [r |-> NoFd, w |-> NoFd]

\* pipe(2), and FD_CLOEXEC on both ends.
PipeEnds(name) == [r |-> name \o <<"r">>, w |-> name \o <<"w">>]
AtExec(end) == [end |-> end, cloexec |-> TRUE]

WithPipe(table, name) ==
  LET r == Lowest(table)
      w == Min(Free(table) \ {r})
  IN  [table |-> [table EXCEPT ![r] = AtExec(PipeEnds(name).r), ![w] = AtExec(PipeEnds(name).w)],
       pair |-> [r |-> Fd(r, PipeEnds(name).r), w |-> Fd(w, PipeEnds(name).w)]]

\* close_pipe(fds, which) on a table: the numbers above 0 are closed.  A
\* number that is not open stays in the variable, one that was becomes -1.
Without(table, number) ==
  IF number.fd > 0 THEN [table EXCEPT ![number.fd] = Closed] ELSE table

WithoutPipe(table, pair, which) ==
  LET one == IF "r" \in which THEN Without(table, pair.r) ELSE table
  IN  IF "w" \in which THEN Without(one, pair.w) ELSE one

ClosedFd(table, number) ==
  IF number.fd > 0 /\ IsOpen(table, number.fd) THEN [number EXCEPT !.fd = -1] ELSE number

ClosedPipe(table, pair, which) ==
  [end \in {"r", "w"} |-> IF end \in which THEN ClosedFd(table, pair[end]) ELSE pair[end]]

\* dup2 and, for a file, open: the copy has no FD_CLOEXEC, and dup2 on the
\* same number changes nothing.
Dup2(table, from, to) ==
  IF from = to THEN table
  ELSE [table EXCEPT ![to] = [table[from] EXCEPT !.cloexec = FALSE]]

\* link_pipes(in_fd, out_fd)
Linked(table, in_fd, out_fd) ==
  LET in == IF in_fd = -2 THEN table ELSE Dup2(table, in_fd, STDIN_FILENO)
  IN  Dup2(in, out_fd, STDOUT_FILENO)

\* Mutant: what was opened for the left side stays open.
Redirected_kept(table, redirect, file) ==
  LET right == IF redirect.right_fd = -1 THEN Lowest(table) ELSE redirect.right_fd
      opened == IF redirect.right_fd = -1 THEN [table EXCEPT ![right] = file] ELSE table
  IN  Dup2(opened, right, redirect.left_fd)

\* One turn of do_redirects: the right side is closed even when it is not
\* the file that was just opened, and even when it is the left side itself.
Redirected(table, redirect, file) ==
  LET right == IF redirect.right_fd = -1 THEN Lowest(table) ELSE redirect.right_fd
      opened == IF redirect.right_fd = -1 THEN [table EXCEPT ![right] = file] ELSE table
  IN  [Dup2(opened, right, redirect.left_fd) EXCEPT ![right] = Closed]

-----------------------------------------------------------------------------
IsLast(n) == n = size

\* Every open copy of the end, in the shell and in the children.
Held(end) == \/ Holds(fds, end)
             \/ \E n \in DOMAIN child : Holds(child[n].fds, end)

NoChild == [pc |-> "none", done |-> 0, fds |-> [fd \in 0..MAX_FD |-> Closed], control |-> NoPipe,
            error |-> NoPipe, pipe |-> NoPipe, prev |-> NoFd]

Init ==
  /\ size \in 1..MaxProcesses
  /\ redirects \in [1..size -> RedirectLists]
  /\ pc = "control"
  /\ k = 1
  /\ fds = [fd \in 0..MAX_FD |-> IF fd <= STDERR_FILENO THEN Terminal ELSE Closed]
  /\ control_pipe = NoPipe
  /\ error_pipe = NoPipe
  /\ pipefds = NoPipe
  /\ prevfd = Fd(-2, <<>>)
  /\ first_error_pipe_read = NoFd
  /\ child = [n \in 1..size |-> NoChild]
  /\ told = {}

Goto(label) == pc' = label

-----------------------------------------------------------------------------
(* The shell *)

\* Any of the pipe calls may fail; the variables then keep their old numbers.
CreateControlPipe ==
  /\ pc = "control"
  /\ \/ LET made == WithPipe(fds, <<"control">>) IN
          /\ fds' = made.table
          /\ control_pipe' = made.pair
          /\ Goto(IF IsLast(k) THEN "error_pipe" ELSE "pipe")
     \/ /\ Goto("not_started")
        /\ UNCHANGED <<fds, control_pipe>>
  /\ UNCHANGED <<size, redirects, k, error_pipe, pipefds, prevfd, first_error_pipe_read, child, told>>

CreatePipe ==
  /\ pc = "pipe"
  /\ \/ LET made == WithPipe(fds, <<"pipe", k>>) IN
          /\ fds' = made.table
          /\ pipefds' = made.pair
          /\ Goto("error_pipe")
     \/ /\ Goto("failed")
        /\ UNCHANGED <<fds, pipefds>>
  /\ UNCHANGED <<size, redirects, k, control_pipe, error_pipe, prevfd, first_error_pipe_read, child, told>>

CreateErrorPipe ==
  /\ pc = "error_pipe"
  /\ \/ LET made == WithPipe(fds, <<"error", k>>) IN
          /\ fds' = made.table
          /\ error_pipe' = made.pair
          /\ Goto("fork")
     \/ /\ Goto("failed")
        /\ UNCHANGED <<fds, error_pipe>>
  /\ UNCHANGED <<size, redirects, k, control_pipe, pipefds, prevfd, first_error_pipe_read, child, told>>

\* The child has copies of the table and of the variables.
Fork ==
  /\ pc = "fork"
  /\ \/ /\ child' = [child EXCEPT ![k] = [pc |-> "forked", done |-> 0, fds |-> fds, control |-> control_pipe,
                                           error |-> error_pipe, pipe |-> pipefds, prev |-> prevfd]]
        /\ Goto("parent")
     \/ /\ Goto("failed")
        /\ UNCHANGED child
  /\ UNCHANGED <<size, redirects, k, fds, control_pipe, error_pipe, pipefds, prevfd,
                 first_error_pipe_read, told>>

\* After the fork the shell gives up what belongs to the child.  prevfd is
\* -1 if it was closed, and then a copy of the read end of the new pipe.
AfterFork ==
  /\ pc = "parent"
  /\ LET closedPrev == Without(fds, prevfd)
         ends == IF IsLast(k) THEN {} ELSE {"w"}
         closedPipe == WithoutPipe(closedPrev, pipefds, ends)
     IN  /\ fds' = WithoutPipe(closedPipe, error_pipe, {"w"})
         /\ pipefds' = ClosedPipe(closedPrev, pipefds, ends)
         /\ error_pipe' = ClosedPipe(closedPipe, error_pipe, {"w"})
         /\ prevfd' = IF ~IsLast(k) THEN pipefds.r
                      ELSE ClosedFd(fds, prevfd)
  /\ IF k = 1
     THEN /\ first_error_pipe_read' = error_pipe.r
          /\ Goto("next")
     ELSE /\ Goto("read_error")
          /\ UNCHANGED first_error_pipe_read
  /\ UNCHANGED <<size, redirects, k, control_pipe, child, told>>

\* read_error on the error pipe of process n: a message, or the end of the
\* file once nobody holds the other end.
Heard(n) == n \in told
Silent(n) == n \notin told /\ ~Held(<<"error", n, "w">>)

ReadError ==
  /\ pc = "read_error"
  /\ \/ /\ Heard(k)
        /\ Goto("failed")
        /\ UNCHANGED <<fds, error_pipe>>
     \/ /\ Silent(k)
        /\ fds' = WithoutPipe(fds, error_pipe, {"r"})
        /\ error_pipe' = ClosedPipe(fds, error_pipe, {"r"})
        /\ Goto("next")
  /\ UNCHANGED <<size, redirects, k, control_pipe, pipefds, prevfd, first_error_pipe_read, child, told>>

NextProcess ==
  /\ pc = "next"
  /\ k < size
  /\ k' = k + 1
  /\ Goto(IF IsLast(k + 1) THEN "error_pipe" ELSE "pipe")
  /\ UNCHANGED <<size, redirects, fds, control_pipe, error_pipe, pipefds, prevfd,
                 first_error_pipe_read, child, told>>

\* All are forked: the end of the control pipe lets the leader go.
Release_half ==
  /\ pc = "next"
  /\ k = size
  /\ LET closedControl == WithoutPipe(fds, control_pipe, {"w"}) IN
       /\ fds' = WithoutPipe(closedControl, pipefds, {"r", "w"})
       /\ control_pipe' = ClosedPipe(fds, control_pipe, {"w"})
       /\ pipefds' = ClosedPipe(closedControl, pipefds, {"r", "w"})
  /\ Goto("read_first")
  /\ UNCHANGED <<size, redirects, k, error_pipe, prevfd, first_error_pipe_read, child, told>>

Release ==
  /\ pc = "next"
  /\ k = size
  /\ LET closedControl == WithoutPipe(fds, control_pipe, {"r", "w"}) IN
       /\ fds' = WithoutPipe(closedControl, pipefds, {"r", "w"})
       /\ control_pipe' = ClosedPipe(fds, control_pipe, {"r", "w"})
       /\ pipefds' = ClosedPipe(closedControl, pipefds, {"r", "w"})
  /\ Goto("read_first")
  /\ UNCHANGED <<size, redirects, k, error_pipe, prevfd, first_error_pipe_read, child, told>>

ReadFirst ==
  /\ pc = "read_first"
  /\ \/ /\ Heard(1)
        /\ Goto("failed")
        /\ UNCHANGED <<fds, error_pipe, first_error_pipe_read>>
     \/ /\ Silent(1)
        /\ LET closedFirst == Without(fds, first_error_pipe_read) IN
             /\ fds' = WithoutPipe(closedFirst, error_pipe, {"r", "w"})
             /\ error_pipe' = ClosedPipe(closedFirst, error_pipe, {"r", "w"})
        /\ first_error_pipe_read' = [first_error_pipe_read EXCEPT !.fd = -1]
        /\ Goto("started")
  /\ UNCHANGED <<size, redirects, k, control_pipe, pipefds, prevfd, child, told>>

\* Who may outlive SIGTERM to the group: a program that ignores it, and a
\* child that no setpgid could put there, since the leader was dead and
\* reaped by then.
Spared == {n \in 1..size : child[n].pc = "exec" \/ (n > 1 /\ child[1].pc = "gone")}

\* error_label: the group is killed and three pairs are closed.
Fail ==
  /\ pc = "failed"
  /\ LET one == WithoutPipe(fds, control_pipe, {"r", "w"})
         two == WithoutPipe(one, pipefds, {"r", "w"})
     IN  fds' = WithoutPipe(two, error_pipe, {"r", "w"})
  /\ \E spared \in SUBSET Spared :
       child' = [n \in DOMAIN child |-> IF n \in spared \/ child[n].pc = "none" THEN child[n]
                                       ELSE [NoChild EXCEPT !.pc = "gone"]]
  /\ Goto("not_started")
  /\ UNCHANGED <<size, redirects, k, control_pipe, error_pipe, pipefds, prevfd,
                 first_error_pipe_read, told>>

-----------------------------------------------------------------------------
(* A child *)

\* write_error and _exit: what is written goes to whatever has the number.
Fails(n) ==
  /\ child' = [child EXCEPT ![n] = [NoChild EXCEPT !.pc = "gone"]]
  /\ told' = told \cup {m \in 1..size : IsOpen(child[n].fds, child[n].error.w.fd) /\
                          child[n].fds[child[n].error.w.fd].end = <<"error", m, "w">>}
  /\ UNCHANGED <<size, redirects, shell>>

Becomes(n, label, table) ==
  /\ child' = [child EXCEPT ![n].pc = label, ![n].fds = table]
  /\ UNCHANGED <<size, redirects, shell, told>>

\* link_pipes
OutFd(n) == IF IsLast(n) THEN STDOUT_FILENO ELSE child[n].pipe.w.fd

Link(n) ==
  /\ child[n].pc = "forked"
  /\ Becomes(n, "linked", Linked(child[n].fds, child[n].prev.fd, OutFd(n)))

\* do_redirects, one redirect after the other.  A file may not open, and
\* does not when the table is full; a descriptor that is not open cannot be
\* copied.
Redirect(n) ==
  /\ child[n].pc = "linked"
  /\ child[n].done < Len(redirects[n])
  /\ LET redirect == redirects[n][child[n].done + 1] IN
       /\ IF redirect.right_fd = -1 THEN Free(child[n].fds) # {}
          ELSE IsOpen(child[n].fds, redirect.right_fd)
       /\ child' = [child EXCEPT ![n].done = @ + 1,
                                ![n].fds = Redirected(@, redirect, File(n, child[n].done + 1))]
  /\ UNCHANGED <<size, redirects, shell, told>>

RedirectFails(n) ==
  /\ child[n].pc = "linked"
  /\ child[n].done < Len(redirects[n])
  /\ LET right == redirects[n][child[n].done + 1].right_fd
     IN  right = -1 \/ ~IsOpen(child[n].fds, right)
  /\ Fails(n)

\* The numbers that are not needed any more.
Plumbed(n) ==
  /\ child[n].pc = "linked"
  /\ child[n].done = Len(redirects[n])
  /\ Becomes(n, "plumbed", WithoutPipe(Without(child[n].fds, child[n].prev), child[n].pipe,
                                       IF IsLast(n) THEN {} ELSE {"w"}))

\* The leader takes the terminal, which may fail, and gives its copy of the
\* writing end of the control pipe up before it reads.
LeaderCloses_keeps ==
  /\ child[1].pc = "plumbed"
  /\ IsOpen(child[1].fds, child[1].control.w.fd)
  /\ Becomes(1, "waiting", child[1].fds)

LeaderCloses ==
  /\ child[1].pc = "plumbed"
  /\ IsOpen(child[1].fds, child[1].control.w.fd)
  /\ Becomes(1, "waiting", WithoutPipe(child[1].fds, child[1].control, {"w"}))

LeaderFails ==
  /\ child[1].pc = "plumbed"
  /\ Fails(1)

\* The read returns when the pipe has no writer left, or at once when its
\* number has come to mean something else.
LeaderReads_early ==
  /\ child[1].pc = "waiting"
  /\ LET read == child[1].control.r.fd IN
       Becomes(1, "ready", [child[1].fds EXCEPT ![read] = Closed])

LeaderReads ==
  /\ child[1].pc = "waiting"
  /\ LET read == child[1].control.r.fd IN
       /\ IsOpen(child[1].fds, read) /\ child[1].fds[read].end = <<"control", "r">>
            => ~Held(<<"control", "w">>)
       /\ Becomes(1, "ready", [child[1].fds EXCEPT ![read] = Closed])

MemberCloses(n) ==
  /\ n > 1
  /\ child[n].pc = "plumbed"
  /\ Becomes(n, "ready", [child[n].fds EXCEPT ![child[n].control.r.fd] = Closed])

Exec(n) ==
  /\ child[n].pc = "ready"
  /\ Becomes(n, "exec", [fd \in 0..MAX_FD |->
                           IF child[n].fds[fd].cloexec THEN Closed ELSE child[n].fds[fd]])

ExecFails(n) ==
  /\ child[n].pc = "ready"
  /\ Fails(n)

-----------------------------------------------------------------------------
Shell ==
  \/ CreateControlPipe \/ CreatePipe \/ CreateErrorPipe \/ Fork \/ AfterFork
  \/ ReadError \/ NextProcess \/ Release \/ ReadFirst \/ Fail

Child(n) ==
  \/ Link(n) \/ Redirect(n) \/ RedirectFails(n) \/ Plumbed(n)
  \/ n = 1 /\ (LeaderCloses \/ LeaderFails \/ LeaderReads)
  \/ MemberCloses(n) \/ Exec(n) \/ ExecFails(n)

Children == \E n \in 1..size : Child(n)

Next == Shell \/ Children

Fairness == WF_vars(Shell) /\ \A n \in 1..MaxProcesses : WF_vars(n <= size /\ Child(n))

Spec == Init /\ [][Next]_vars /\ Fairness

-----------------------------------------------------------------------------
Numbers == {control_pipe.r, control_pipe.w, error_pipe.r, error_pipe.w,
            pipefds.r, pipefds.w, prevfd, first_error_pipe_read}

Returned == pc \in {"started", "not_started"}

TypeOK ==
  /\ pc \in {"control", "pipe", "error_pipe", "fork", "parent", "read_error", "next",
             "read_first", "failed", "started", "not_started"}
  /\ k \in 1..size
  /\ \A number \in Numbers : number.fd \in -2..MAX_FD
  /\ \A fd \in 0..MAX_FD : fds[fd].cloexec \in BOOLEAN
  /\ \A n \in 1..size : child[n].pc \in {"none", "forked", "linked", "plumbed", "waiting", "ready", "exec", "gone"}
  /\ told \subseteq 1..size

Lost == {fds[fd].end : fd \in {f \in 0..MAX_FD : f > STDERR_FILENO /\ fds[f] # Closed}}

\* Several variables keep the number of one descriptor (prevfd and pipefds,
\* first_error_pipe_read and error_pipe), and one is closed before the other.
\* A number left over is never one that was given out again for something
\* else, so no close hits a descriptor that is in use.  When start_job_internal
\* returns, the shell's table is what it was, but for two descriptors that a
\* failure costs at most: the read end of the pipe to the process that was not
\* made, and that of the first error pipe.
TableRestored ==
  /\ TypeOK
  /\ \A number \in Numbers : number.fd > 0 => fds[number.fd].end \in {number.of, <<>>}
  /\ pc = "started" => Lost = {}
  /\ pc = "not_started" => Lost \subseteq {<<"pipe", k - 1, "r">>, <<"error", 1, "r">>}

\* What 0, 1 and 2 of process n are for by its place among count processes.
Given(n, count) ==
  [fd \in STDIN_FILENO..STDERR_FILENO |->
     CASE fd = STDIN_FILENO /\ n > 1      -> <<"pipe", n - 1, "r">>
       [] fd = STDOUT_FILENO /\ n < count -> <<"pipe", n, "w">>
       [] OTHER                          -> <<"terminal">>]

\* What one redirect changes there.  A file takes the place of what was
\* there, and a copy takes it away from where it came from: after 2>&1 there
\* is no 1.  Where nothing is left, and nothing lower is missing, open itself
\* returns the number, and the file goes with it: after 2>&1 >file there is
\* still no 1.
Aimed(before, redirect, file) ==
  LET left == redirect.left_fd
      right == redirect.right_fd
  IN  IF right # -1
      THEN [fd \in DOMAIN before |-> CASE fd = right -> <<>>
                                      [] fd = left /\ fd # right -> before[right]
                                      [] OTHER -> before[fd]]
      ELSE IF before[left] = <<>> /\ \A fd \in 0..left - 1 : before[fd] # <<>>
           THEN before
           ELSE [before EXCEPT ![left] = file]

\* And what all the redirects of its line make of them, one after the other.
Standing(n, count, list) ==
  LET after[r \in 0..Len(list)] ==
        IF r = 0 THEN Given(n, count) ELSE Aimed(after[r - 1], list[r], File(n, r).end)
  IN  after

\* A program starts with what its place in the pipeline and its redirects,
\* read from left to right, make of 0, 1 and 2, and with nothing else: the
\* numbers behind them that do_redirects and the pipes take for a while never
\* get in the way, and there is no end of a pipe through which a reader would
\* wait for it.
Plumbing ==
  \A n \in 1..size : child[n].pc = "exec" =>
    \A fd \in 0..MAX_FD :
      child[n].fds[fd].end = IF fd <= STDERR_FILENO
                             THEN Standing(n, size, redirects[n])[Len(redirects[n])][fd]
                             ELSE <<>>

\* The shell reports a started job only when every program runs, and the
\* leader runs only when all the others do.
LeaderLast ==
  /\ pc = "started" => \A n \in 1..size : child[n].pc = "exec"
  /\ child[1].pc = "exec" => \A n \in 1..size : child[n].pc = "exec"

\* A launch always ends.
Returns == <>Returned

=============================================================================
