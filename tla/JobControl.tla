----------------------------- MODULE JobControl -----------------------------
(***************************************************************************)
(* Job control of the shell src/lsh: the main thread (prompt, start_job,   *)
(* launch_job, fg, bg, cleanup), the SIGCHLD handler that may run between  *)
(* any two of its steps while the signal is not blocked, and the children  *)
(* from fork to exec and beyond.                                           *)
(*                                                                         *)
(* A step of the main thread is one system call or one list operation with *)
(* the assignments around it; the handler is split at every waitpid,       *)
(* because children change state while it runs.  job->falling_apart is     *)
(* written and never read, so it is left out; wait_for_fg_job's local of   *)
(* the same name is wait.falling.                                          *)
(***************************************************************************)
EXTENDS Processes, SequencesExt

CONSTANTS Shell,        \* the shell's own process group; also "no job"
          OutsideCont   \* may a SIGCONT come from outside the shell?

ASSUME ShellAssumption == Shell \notin Jobs
ASSUME OutsideContAssumption == OutsideCont \in BOOLEAN

VARIABLES
    job,                    \* struct job, of every command line
    current_job,            \* the list "jobs" shows, newest first
    pending_jobs,           \* to be announced at the next prompt
    pending_removed_jobs,   \* to be announced as done, then freed
    pc,                     \* where the main thread is
    cur,                    \* the job it is working on, or Shell
    nth,                    \* start_job_internal: the process to fork next
    wait,                   \* wait_for_fg_job: its local variables
    leaving,                \* why the main thread is in cleanup, or "no"
    tty,                    \* the foreground process group of the terminal
    errs,                   \* processes that wrote to their error pipe
    h,                      \* where handle_chld is; "idle": not running
    hat                     \* handle_chld: position of handle in current_job

lists == <<current_job, pending_jobs, pending_removed_jobs>>
handler == <<h, hat>>
vars == <<kernelVars, job, lists, pc, cur, nth, wait, leaving, tty, errs, handler>>

-----------------------------------------------------------------------------
(* Names for where the main thread is.                                     *)
Forking   == {"fork", "read_error", "read_first", "error_label"}
InHand    == {"fg_terminal", "fg_cont", "bg_cont", "bg_current"}
Running   == {"launch_job", "wait", "enlist"}
Looking   == {"fg_take", "bg_take"}
AtPrompt  == {"print_pending", "print_removed", "read_line"}
Leaving   == {"kill", "reap"}
Over      == {"exited", "crashed"}
Labels    == Forking \union InHand \union Running \union Looking \union AtPrompt
             \union Leaving \union Over \union {"bg_pending", "get_terminal"}

NoWait == [count |-> 0, falling |-> FALSE, stopped |-> FALSE]

JobRecords == [mem : {"unused", "live", "freed"}, fg : BOOLEAN,
               stopped : BOOLEAN, pipeline : 0 .. MaxPipe, size : 0 .. MaxPipe]

TypeOK ==
    /\ KernelTypeOK
    /\ job \in [Jobs -> JobRecords]
    /\ current_job \in Seq(Jobs)
    /\ pending_jobs \in Seq(Jobs)
    /\ pending_removed_jobs \in Seq(Jobs)
    /\ pc \in Labels
    /\ cur \in Jobs \union {Shell}
    /\ nth \in 1 .. MaxPipe + 1
    /\ wait \in [count : Nat, falling : BOOLEAN, stopped : BOOLEAN]
    /\ leaving \in {"no", "exit", "hangup"}
    /\ tty \in Jobs \union {Shell}
    /\ errs \in SUBSET Procs
    /\ h \in {"idle", "scan", "all"}
    /\ hat \in Nat \ {0}

Init ==
    /\ KernelInit
    /\ job = [j \in Jobs |-> [mem |-> "unused", fg |-> FALSE, stopped |-> FALSE,
                              pipeline |-> 0, size |-> 0]]
    /\ current_job = <<>>
    /\ pending_jobs = <<>>
    /\ pending_removed_jobs = <<>>
    /\ pc = "print_pending"
    /\ cur = Shell
    /\ nth = 1
    /\ wait = NoWait
    /\ leaving = "no"
    /\ tty = Shell
    /\ errs = {}
    /\ h = "idle"
    /\ hat = 1

-----------------------------------------------------------------------------
(* Mutant: SIGCHLD is blocked in cleanup only.                             *)
ChldBlocked_leaving == leaving # "no"

(* SIGCHLD is blocked while a job is waited for or enlisted, and for good  *)
(* in cleanup.                                                             *)
ChldBlocked == leaving # "no" \/ pc \in {"wait", "enlist"}

Up == pc \notin Over

(* The main thread is at l and the handler is not on top of it.            *)
At(l) == pc = l /\ h = "idle"

IsListed(j) == Contains(current_job, j)

(* Mutant: the handle is returned but not unlinked.                        *)
Without_linked(list, j, rest) == Contains(list, j) /\ rest = list

(* remove_job_handle(&list, pgid): the list without its first handle of j. *)
Without(list, j, rest) ==
    \E i \in 1 .. Len(list) :
        /\ list[i] = j
        /\ \A k \in 1 .. i - 1 : list[k] # j
        /\ rest = RemoveAt(list, i)

(* job_handle_add_first(&current_job, ..), job_handle_add_last(&pending_jobs, ..) *)
AddBoth(j) ==
    /\ current_job' = Cons(j, current_job)
    /\ pending_jobs' = Append(pending_jobs, j)

Crash ==
    /\ pc' = "crashed"
    /\ h' = "idle"

-----------------------------------------------------------------------------
(* The prompt: print_pending_jobs, then a line of input.                   *)

(* Mutant: the jobs that are done are announced, and freed, first.         *)
PrintPending_swapped ==
    /\ At("print_pending")
    /\ IF pending_removed_jobs # <<>>
       THEN /\ pending_removed_jobs' = Tail(pending_removed_jobs)
            /\ job' = [job EXCEPT ![Head(pending_removed_jobs)].mem = "freed"]
            /\ UNCHANGED <<pc, pending_jobs>>
       ELSE /\ IF pending_jobs # <<>>
               THEN pending_jobs' = Tail(pending_jobs) /\ UNCHANGED pc
               ELSE pc' = "print_removed" /\ UNCHANGED pending_jobs
            /\ UNCHANGED <<pending_removed_jobs, job>>
    /\ UNCHANGED <<kernelVars, current_job, cur, nth, wait, leaving, tty, errs, handler>>

PrintPending ==
    /\ At("print_pending")
    /\ IF pending_jobs # <<>>
       THEN pending_jobs' = Tail(pending_jobs) /\ UNCHANGED pc
       ELSE pc' = "print_removed" /\ UNCHANGED pending_jobs
    /\ UNCHANGED <<kernelVars, job, current_job, pending_removed_jobs, cur, nth,
                   wait, leaving, tty, errs, handler>>

PrintRemoved ==
    /\ At("print_removed")
    /\ IF pending_removed_jobs # <<>>
       THEN /\ pending_removed_jobs' = Tail(pending_removed_jobs)
            /\ job' = [job EXCEPT ![Head(pending_removed_jobs)].mem = "freed"]
            /\ UNCHANGED pc
       ELSE /\ pc' = IF leaving = "no" THEN "read_line" ELSE "exited"
            /\ UNCHANGED <<pending_removed_jobs, job>>
    /\ UNCHANGED <<kernelVars, current_job, pending_jobs, cur, nth, wait,
                   leaving, tty, errs, handler>>

(* ^C, an empty or ill-formed line, cd, jobs, or fg and bg of a number     *)
(* that is not in the list.                                                *)
OtherLine ==
    /\ At("read_line")
    /\ pc' = "print_pending"
    /\ UNCHANGED <<kernelVars, job, lists, cur, nth, wait, leaving, tty, errs,
                   handler>>

(* "exit", or end of input.                                                *)
ExitLine ==
    /\ At("read_line")
    /\ pc' = "kill"
    /\ leaving' = "exit"
    /\ UNCHANGED <<kernelVars, job, lists, cur, nth, wait, tty, errs, handler>>

NewJob(bg, n) == [mem |-> "live", fg |-> ~bg, stopped |-> FALSE,
                  pipeline |-> n, size |-> n]

(* A command line that starts the pipeline j of n processes.               *)
StartLine(j, bg, n) ==
    /\ At("read_line")
    /\ job[j].mem = "unused"
    /\ job' = [job EXCEPT ![j] = NewJob(bg, n)]
    /\ cur' = j
    /\ nth' = 1
    /\ pc' = "fork"
    /\ UNCHANGED <<kernelVars, lists, wait, leaving, tty, errs, handler>>

(* "fg k" or "bg k": the walk of get_job_handle along current_job.         *)
FgBgLine(k, take) ==
    /\ At("read_line")
    /\ k \in 1 .. Len(current_job)
    /\ cur' = current_job[k]
    /\ pc' = take
    /\ UNCHANGED <<kernelVars, job, lists, nth, wait, leaving, tty, errs, handler>>

(* "fg 0" with no job: the walk ends at once with i = index = 0 and        *)
(* handle = NULL, and handle->job is read.                                 *)
ZeroLine ==
    /\ At("read_line")
    /\ current_job = <<>>
    /\ Crash
    /\ UNCHANGED <<kernelVars, job, lists, cur, nth, wait, leaving, tty, errs, hat>>

-----------------------------------------------------------------------------
(* start_job_internal: the parent.                                         *)

(* fork, and setpgid by parent and child alike.  A child after the first   *)
(* stays out of the group when no process of it is left: setpgid fails     *)
(* with EPERM, which neither side checks.                                  *)
Fork ==
    LET p == <<cur, nth>> IN
    /\ At("fork")
    /\ nth <= job[cur].pipeline
    /\ proc' = [proc EXCEPT ![p] = "born"]
    /\ grouped' = IF nth = 1 \/ Members(cur) # {} THEN grouped \union {p}
                                                  ELSE grouped
    /\ IF nth = 1 THEN nth' = 2 /\ UNCHANGED pc
                  ELSE pc' = "read_error" /\ UNCHANGED nth
    /\ UNCHANGED <<chld, job, lists, cur, wait, leaving, tty, errs, handler>>

(* pipe or fork failed.                                                    *)
ForkFails ==
    /\ At("fork")
    /\ nth <= job[cur].pipeline
    /\ pc' = "error_label"
    /\ UNCHANGED <<kernelVars, job, lists, cur, nth, wait, leaving, tty, errs, handler>>

(* The end of p's error pipe: p has written to it, executed its program,   *)
(* or died without a word.                                                 *)
ErrorRead(p) == p \in errs \/ proc[p] \notin Starting

ReadError ==
    LET p == <<cur, nth>> IN
    /\ At("read_error")
    /\ ErrorRead(p)
    /\ IF p \in errs THEN pc' = "error_label" /\ UNCHANGED nth
                     ELSE pc' = "fork" /\ nth' = nth + 1
    /\ UNCHANGED <<kernelVars, job, lists, cur, wait, leaving, tty, errs, handler>>

(* The parent closes the control pipe.                                     *)
Release ==
    /\ At("fork")
    /\ nth > job[cur].pipeline
    /\ pc' = "read_first"
    /\ UNCHANGED <<kernelVars, job, lists, cur, nth, wait, leaving, tty, errs, handler>>

ReadFirst ==
    /\ At("read_first")
    /\ ErrorRead(Leader(cur))
    /\ pc' = IF Leader(cur) \in errs THEN "error_label" ELSE "launch_job"
    /\ nth' = 1
    /\ UNCHANGED <<kernelVars, job, lists, cur, wait, leaving, tty, errs, handler>>

(* killpg if the first fork succeeded, close the pipes, launch_job(NULL).  *)
ErrorLabel ==
    /\ At("error_label")
    /\ Signalled(proc, TermCont(cur, proc))
    /\ pc' = "get_terminal"
    /\ cur' = Shell
    /\ nth' = 1
    /\ UNCHANGED <<grouped, job, lists, wait, leaving, tty, errs, handler>>

-----------------------------------------------------------------------------
(* launch_job and wait_for_fg_job.                                         *)

LaunchJob ==
    /\ At("launch_job")
    /\ pc' = IF job[cur].fg THEN "wait" ELSE "enlist"
    /\ wait' = NoWait
    /\ UNCHANGED <<kernelVars, job, lists, cur, nth, leaving, tty, errs, handler>>

(* Mutants: one stop more than processes is waited for; the first stop is  *)
(* taken for all.                                                          *)
WaitCheck_over(w) ==
    IF w.count > job[cur].size
    THEN /\ job' = [job EXCEPT ![cur].fg = FALSE, ![cur].stopped = TRUE]
         /\ AddBoth(cur)
         /\ pc' = "get_terminal"
         /\ cur' = Shell
         /\ wait' = NoWait
    ELSE /\ wait' = w
         /\ UNCHANGED <<job, current_job, pending_jobs, pc, cur>>

WaitCheck_first(w) ==
    IF w.count > 0
    THEN /\ job' = [job EXCEPT ![cur].fg = FALSE, ![cur].stopped = TRUE]
         /\ AddBoth(cur)
         /\ pc' = "get_terminal"
         /\ cur' = Shell
         /\ wait' = NoWait
    ELSE /\ wait' = w
         /\ UNCHANGED <<job, current_job, pending_jobs, pc, cur>>

(* The end of an iteration of wait_for_fg_job with w in its locals.        *)
WaitCheck(w) ==
    IF w.count = job[cur].size
    THEN /\ job' = [job EXCEPT ![cur].fg = FALSE, ![cur].stopped = TRUE]
         /\ AddBoth(cur)
         /\ pc' = "get_terminal"
         /\ cur' = Shell
         /\ wait' = NoWait
    ELSE /\ wait' = w
         /\ UNCHANGED <<job, current_job, pending_jobs, pc, cur>>

WaitExit(p) ==
    LET f == [proc EXCEPT ![p] = "reaped"] IN
    /\ At("wait")
    /\ p \in Members(cur)
    /\ proc[p] = "zombie"
    /\ Signalled(f, IF wait.stopped THEN TermCont(cur, f) ELSE f)
    /\ grouped' = grouped \ {p}
    /\ WaitCheck([wait EXCEPT !.falling = TRUE,
                              !.count = IF wait.stopped THEN 0 ELSE @])
    /\ UNCHANGED <<pending_removed_jobs, nth, leaving, tty, errs, handler>>

WaitStop(p) ==
    LET f == [proc EXCEPT ![p] = "stopped"] IN
    /\ At("wait")
    /\ p \in Members(cur)
    /\ proc[p] = "stopping"
    /\ Signalled(f, IF wait.falling THEN TermCont(cur, f) ELSE f)
    /\ WaitCheck([wait EXCEPT !.stopped = TRUE,
                              !.count = IF wait.falling THEN 0 ELSE @ + 1])
    /\ UNCHANGED <<grouped, pending_removed_jobs, nth, leaving, tty, errs, handler>>

(* waitpid fails with ECHILD.                                              *)
WaitDone ==
    /\ At("wait")
    /\ Members(cur) = {}
    /\ pc' = "get_terminal"
    /\ cur' = Shell
    /\ wait' = NoWait
    /\ UNCHANGED <<kernelVars, job, lists, nth, leaving, tty, errs, handler>>

Enlist ==
    /\ At("enlist")
    /\ AddBoth(cur)
    /\ pc' = "get_terminal"
    /\ cur' = Shell
    /\ UNCHANGED <<kernelVars, job, pending_removed_jobs, nth, wait, leaving, tty,
                   errs, handler>>

(* Mutant: the terminal's modes are restored, its foreground group not.    *)
GetTerminal_modes ==
    /\ At("get_terminal")
    /\ pc' = "print_pending"
    /\ UNCHANGED <<kernelVars, job, lists, cur, nth, wait, leaving, tty, errs, handler>>

GetTerminal ==
    /\ At("get_terminal")
    /\ tty' = Shell
    /\ pc' = "print_pending"
    /\ UNCHANGED <<kernelVars, job, lists, cur, nth, wait, leaving, errs, handler>>

(* tcsetpgrp or tcsetattr failed: longjmp to main, which runs cleanup.     *)
TerminalLost ==
    /\ At("get_terminal")
    /\ leaving' = "hangup"
    /\ pc' = "kill"
    /\ UNCHANGED <<kernelVars, job, lists, cur, nth, wait, tty, errs, handler>>

-----------------------------------------------------------------------------
(* get_job_handle after its walk, do_fg and do_bg.                         *)

(* remove_job_handle; when the handler was faster it returns NULL, which   *)
(* get_job_handle turns into -999 and its callers dereference.             *)
Take ==
    /\ \E l \in Looking : At(l)
    /\ \/ /\ Without(current_job, cur, current_job')
          /\ pc' = IF pc = "fg_take" THEN "fg_terminal" ELSE "bg_cont"
          /\ UNCHANGED h
       \/ /\ ~IsListed(cur)
          /\ Crash
          /\ UNCHANGED current_job
    /\ UNCHANGED <<kernelVars, job, pending_jobs, pending_removed_jobs, cur, nth,
                   wait, leaving, tty, errs, hat>>

FgTerminal ==
    /\ At("fg_terminal")
    /\ Members(cur) # {}
    /\ tty' = cur
    /\ pc' = "fg_cont"
    /\ UNCHANGED <<kernelVars, job, lists, cur, nth, wait, leaving, errs, handler>>

(* tcsetpgrp failed, as it does when the group is gone.                    *)
FgTerminalFails ==
    /\ At("fg_terminal")
    /\ current_job' = Append(current_job, cur)
    /\ pc' = "print_pending"
    /\ cur' = Shell
    /\ UNCHANGED <<kernelVars, job, pending_jobs, pending_removed_jobs, nth, wait,
                   leaving, tty, errs, handler>>

FgCont ==
    /\ At("fg_cont")
    /\ Signalled(proc, Cont(cur, proc))
    /\ job' = [job EXCEPT ![cur].stopped = FALSE, ![cur].fg = TRUE]
    /\ pc' = "launch_job"
    /\ UNCHANGED <<grouped, lists, cur, nth, wait, leaving, tty, errs, handler>>

BgCont ==
    /\ At("bg_cont")
    /\ Signalled(proc, Cont(cur, proc))
    /\ job' = [job EXCEPT ![cur].stopped = FALSE]
    /\ pc' = "bg_current"
    /\ UNCHANGED <<grouped, lists, cur, nth, wait, leaving, tty, errs, handler>>

BgCurrent ==
    /\ At("bg_current")
    /\ current_job' = Append(current_job, cur)
    /\ pc' = "bg_pending"
    /\ UNCHANGED <<kernelVars, job, pending_jobs, pending_removed_jobs, cur, nth,
                   wait, leaving, tty, errs, handler>>

(* Mutant: job->stopped is reset only when the job is in the list again.   *)
BgPending_resets ==
    /\ At("bg_pending")
    /\ pending_jobs' = Append(pending_jobs, cur)
    /\ job' = [job EXCEPT ![cur].stopped = FALSE]
    /\ pc' = "print_pending"
    /\ cur' = Shell
    /\ UNCHANGED <<kernelVars, current_job, pending_removed_jobs, nth, wait,
                   leaving, tty, errs, handler>>

BgPending ==
    /\ At("bg_pending")
    /\ pending_jobs' = Append(pending_jobs, cur)
    /\ pc' = "print_pending"
    /\ cur' = Shell
    /\ UNCHANGED <<kernelVars, job, current_job, pending_removed_jobs, nth, wait,
                   leaving, tty, errs, handler>>

-----------------------------------------------------------------------------
(* cleanup.                                                                *)

(* SIGHUP may kill a member, which is a Die step of its own.               *)
CleanupKill ==
    /\ At("kill")
    /\ IF current_job # <<>>
       THEN LET j == Head(current_job) IN
            /\ Signalled(proc, Cont(j, proc))
            /\ job' = [job EXCEPT ![j].mem = "freed"]
            /\ current_job' = Tail(current_job)
            /\ UNCHANGED pc
       ELSE /\ pc' = "reap"
            /\ UNCHANGED <<proc, chld, job, current_job>>
    /\ UNCHANGED <<grouped, pending_jobs, pending_removed_jobs, cur, nth, wait,
                   leaving, tty, errs, handler>>

CleanupReap(p) ==
    /\ At("reap")
    /\ proc[p] = "zombie"
    /\ Reap(p)
    /\ UNCHANGED <<chld, job, lists, pc, cur, nth, wait, leaving, tty, errs, handler>>

CleanupDone ==
    /\ At("reap")
    /\ \A j \in Jobs : Unreaped(j) = {}
    /\ pc' = "print_pending"
    /\ UNCHANGED <<kernelVars, job, lists, cur, nth, wait, leaving, tty, errs, handler>>

-----------------------------------------------------------------------------
(* handle_chld.                                                            *)

Delivered ==
    /\ Up
    /\ h = "idle"
    /\ chld
    /\ ~ChldBlocked
    /\ h' = "scan"
    /\ hat' = 1
    /\ chld' = FALSE
    /\ UNCHANGED <<proc, grouped, job, lists, pc, cur, nth, wait, leaving, tty, errs>>

Scanned == current_job[hat]

Scanning == h = "scan" /\ hat <= Len(current_job)

ScanExit(p) ==
    LET f == [proc EXCEPT ![p] = "reaped"] IN
    /\ Scanning
    /\ p \in Members(Scanned)
    /\ proc[p] = "zombie"
    /\ Signalled(f, Cont(Scanned, f))
    /\ grouped' = grouped \ {p}
    /\ job' = [job EXCEPT ![Scanned].size = @ - 1]
    /\ UNCHANGED <<lists, pc, cur, nth, wait, leaving, tty, errs, handler>>

(* Mutant: pipeline_size-- for whatever waitpid reports.                   *)
ScanStop_counted(p, obeying) ==
    LET f == [proc EXCEPT ![p] = "stopped"] IN
    /\ Scanning
    /\ p \in Members(Scanned)
    /\ proc[p] = "stopping"
    /\ obeying \subseteq {q \in Members(Scanned) : proc[q] = "run"}
    /\ Signalled(f, [q \in Procs |-> IF q \in obeying THEN "stopping" ELSE f[q]])
    /\ job' = [job EXCEPT ![Scanned].stopped = TRUE, ![Scanned].size = @ - 1]
    /\ UNCHANGED <<grouped, lists, pc, cur, nth, wait, leaving, tty, errs, handler>>

(* The stop signal goes on to the whole group; a program may ignore it.    *)
ScanStop(p, obeying) ==
    LET f == [proc EXCEPT ![p] = "stopped"] IN
    /\ Scanning
    /\ p \in Members(Scanned)
    /\ proc[p] = "stopping"
    /\ obeying \subseteq {q \in Members(Scanned) : proc[q] = "run"}
    /\ Signalled(f, [q \in Procs |-> IF q \in obeying THEN "stopping" ELSE f[q]])
    /\ job' = [job EXCEPT ![Scanned].stopped = TRUE]
    /\ UNCHANGED <<grouped, lists, pc, cur, nth, wait, leaving, tty, errs, handler>>

(* waitpid has nothing more to report: on to the next handle.              *)
ScanNext ==
    /\ Scanning
    /\ \A p \in Members(Scanned) : proc[p] \notin {"zombie", "stopping"}
    /\ IF job[Scanned].size = 0
       THEN /\ Without(current_job, Scanned, current_job')
            /\ pending_removed_jobs' = Append(pending_removed_jobs, Scanned)
            /\ UNCHANGED hat
       ELSE /\ hat' = hat + 1
            /\ UNCHANGED <<current_job, pending_removed_jobs>>
    /\ UNCHANGED <<kernelVars, job, pending_jobs, pc, cur, nth, wait, leaving,
                   tty, errs, h>>

ScanDone ==
    /\ h = "scan"
    /\ hat > Len(current_job)
    /\ h' = "all"
    /\ hat' = 1
    /\ UNCHANGED <<kernelVars, job, lists, pc, cur, nth, wait, leaving, tty, errs>>

(* waitpid(-1, WNOHANG) took the exit of p.  Only the pid of a leader is   *)
(* found in the list; for any other remove_job_handle returns NULL, and    *)
(* adding NULL to a list that is not empty is a segmentation fault.        *)
ReapAny(p) ==
    /\ h = "all"
    /\ proc[p] = "zombie"
    /\ Reap(p)
    /\ \/ /\ p = Leader(p[1])
          /\ Without(current_job, p[1], current_job')
          /\ pending_removed_jobs' = Cons(p[1], pending_removed_jobs)
          /\ UNCHANGED <<pc, h>>
       \/ /\ p # Leader(p[1]) \/ ~IsListed(p[1])
          /\ IF pending_removed_jobs = <<>> THEN UNCHANGED <<pc, h>> ELSE Crash
          /\ UNCHANGED <<current_job, pending_removed_jobs>>
    /\ UNCHANGED <<chld, job, pending_jobs, cur, nth, wait, leaving, tty, errs, hat>>

(* Mutant: "if" for "while" around waitpid(-1).                            *)
HandlerReturns_once ==
    /\ h = "all"
    /\ h' = "idle"
    /\ UNCHANGED <<kernelVars, job, lists, pc, cur, nth, wait, leaving, tty, errs, hat>>

HandlerReturns ==
    /\ h = "all"
    /\ \A p \in Procs : proc[p] # "zombie"
    /\ h' = "idle"
    /\ UNCHANGED <<kernelVars, job, lists, pc, cur, nth, wait, leaving, tty, errs, hat>>

-----------------------------------------------------------------------------
(* The children.                                                           *)

(* Mutants: nothing holds the leader back; the control pipe is closed only *)
(* after the leader's error pipe was read.                                 *)
ControlClosed_absent(j) == TRUE

ControlClosed_late(j) == ~(cur = j /\ pc \in Forking)

(* No writer of the control pipe is left: the parent has closed its end,   *)
(* and the later processes theirs, by exec.                                *)
ControlClosed(j) ==
    /\ ~(cur = j /\ pc \in {"fork", "read_error", "error_label"})
    /\ \A p \in Procs : p[1] = j /\ p # Leader(j) => proc[p] \notin Starting

(* Mutant: the leader does not ask for the terminal.                       *)
LeaderReady_noterm(j) ==
    /\ Up
    /\ proc[Leader(j)] = "born"
    /\ proc' = [proc EXCEPT ![Leader(j)] = "held"]
    /\ UNCHANGED <<grouped, chld, job, lists, pc, cur, nth, wait, leaving, tty, errs, handler>>

(* The leader is in its group, owns the terminal if the job is in the      *)
(* foreground, and starts to read the control pipe.                        *)
LeaderReady(j) ==
    /\ Up
    /\ proc[Leader(j)] = "born"
    /\ proc' = [proc EXCEPT ![Leader(j)] = "held"]
    /\ tty' = IF job[j].fg THEN j ELSE tty
    /\ UNCHANGED <<grouped, chld, job, lists, pc, cur, nth, wait, leaving, errs, handler>>

ReadyToExec(p) ==
    IF p = Leader(p[1]) THEN proc[p] = "held" /\ ControlClosed(p[1])
                        ELSE proc[p] = "born"

Exec(p) ==
    /\ Up
    /\ ReadyToExec(p)
    /\ proc' = [proc EXCEPT ![p] = "run"]
    /\ UNCHANGED <<grouped, chld, job, lists, pc, cur, nth, wait, leaving, tty, errs, handler>>

(* A redirection, tcsetpgrp or execvp failed: write_error, then _exit.     *)
ChildFails(p) ==
    /\ Up
    /\ proc[p] = "born" \/ ReadyToExec(p)
    /\ Signalled(proc, [proc EXCEPT ![p] = "zombie"])
    /\ errs' = errs \union {p}
    /\ UNCHANGED <<grouped, job, lists, pc, cur, nth, wait, leaving, tty, handler>>

(* The program exits, or any signal kills the process.                     *)
Die(p) ==
    /\ Up
    /\ proc[p] \in Starting \union Halted \union {"run"}
    /\ Signalled(proc, [proc EXCEPT ![p] = "zombie"])
    /\ UNCHANGED <<grouped, job, lists, pc, cur, nth, wait, leaving, tty, errs, handler>>

(* ^Z, a read from the background, or kill -STOP.                          *)
Stop(p) ==
    /\ Up
    /\ proc[p] = "run" \/ (p \in grouped /\ proc[p] = IF p = Leader(p[1]) THEN "held"
                                                                          ELSE "born")
    /\ Signalled(proc, [proc EXCEPT ![p] = IF @ = "run" THEN "stopping" ELSE "iced"])
    /\ UNCHANGED <<grouped, job, lists, pc, cur, nth, wait, leaving, tty, errs, handler>>

ContinuedOutside(p) ==
    /\ Up
    /\ OutsideCont
    /\ proc[p] \in Halted \union {"iced"}
    /\ Signalled(proc, [proc EXCEPT ![p] = Resumed(p, @)])
    /\ UNCHANGED <<grouped, job, lists, pc, cur, nth, wait, leaving, tty, errs, handler>>

-----------------------------------------------------------------------------
User ==
    \/ OtherLine
    \/ ExitLine
    \/ ZeroLine
    \/ \E j \in Jobs, bg \in BOOLEAN, n \in 1 .. MaxPipe : StartLine(j, bg, n)
    \/ \E k \in 1 .. Len(current_job), take \in Looking : FgBgLine(k, take)

Main ==
    \/ PrintPending \/ PrintRemoved
    \/ Fork \/ ForkFails \/ ReadError \/ Release \/ ReadFirst \/ ErrorLabel
    \/ LaunchJob \/ WaitDone \/ Enlist \/ GetTerminal \/ TerminalLost
    \/ \E p \in Procs : WaitExit(p) \/ WaitStop(p) \/ CleanupReap(p)
    \/ Take \/ FgTerminal \/ FgTerminalFails \/ FgCont
    \/ BgCont \/ BgCurrent \/ BgPending
    \/ CleanupKill \/ CleanupDone

Handler ==
    \/ Delivered \/ ScanNext \/ ScanDone \/ HandlerReturns
    \/ \E p \in Procs : ScanExit(p) \/ ReapAny(p)
    \/ \E p \in Procs : \E obeying \in SUBSET Members(p[1]) : ScanStop(p, obeying)

Starts ==
    \/ \E j \in Jobs : LeaderReady(j)
    \/ \E p \in Procs : Exec(p)

Children ==
    \E p \in Procs : ChildFails(p) \/ Die(p) \/ Stop(p) \/ ContinuedOutside(p)

(* The shell is gone: nothing left to happen.                              *)
Gone == ~Up /\ UNCHANGED vars

Next == User \/ Main \/ Handler \/ Starts \/ Children \/ Gone

Spec == Init /\ [][Next]_vars

-----------------------------------------------------------------------------
(* Safety.                                                                 *)

(* The jobs a handle is held of: in the list of jobs, in the list of jobs  *)
(* done, or by the main thread between taking a handle out and putting it  *)
(* back.                                                                   *)
HandleHeld == IF pc \in InHand \union Running \union Forking THEN {cur} ELSE {}

(* A job has one handle at most among current_job, pending_removed_jobs    *)
(* and the main thread: whoever finishes it, nobody frees it twice.        *)
OneOwner ==
    /\ IsInjective(current_job)
    /\ IsInjective(pending_removed_jobs)
    /\ ToSet(current_job) \cap ToSet(pending_removed_jobs) = {}
    /\ HandleHeld \cap (ToSet(current_job) \union ToSet(pending_removed_jobs)) = {}

(* No list and no local of the main thread leads to a job that was freed,  *)
(* on every way but longjmp's: there cleanup frees what pending_jobs still *)
(* announces.                                                              *)
NoDangling ==
    /\ \A j \in ToSet(current_job) \union ToSet(pending_removed_jobs) : job[j].mem = "live"
    /\ pc \in InHand \union Running \union Forking \union {"bg_pending"} =>
           job[cur].mem = "live"
    /\ leaving # "hangup" => \A j \in ToSet(pending_jobs) : job[j].mem = "live"

(* pipeline_size never runs below the number of processes still to be      *)
(* reaped, however exits are shared out between the handler and            *)
(* wait_for_fg_job: a job is not called done while it counts on it.        *)
SizeCovers ==
    \A j \in Jobs :
        IsListed(j) \/ (pc \in InHand \union Running /\ cur = j)
        => job[j].size >= Cardinality(Unreaped(j))

(* A job announced as done has lost its leader, although the last waitpid  *)
(* loop of the handler moves it there without looking at its size.         *)
DoneHasNoLeader ==
    \A j \in ToSet(pending_removed_jobs) : proc[Leader(j)] \in {"none", "reaped"}

(* The shell reads a line only as the foreground group of its terminal,    *)
(* and no child still on its way to exec can take the terminal away.       *)
TerminalHome == pc \in AtPrompt /\ leaving = "no" => tty = Shell

(* While the shell waits for a job in the foreground the terminal is that  *)
(* job's, unless its leader died before it asked for it.                   *)
WaitedOwnsTerminal ==
    pc = "wait" => tty = cur \/ proc[Leader(cur)] \in {"zombie", "reaped"}

(* The first program of a pipeline runs only when every other process of   *)
(* it got as far as its exec: a pipeline starts as a whole or not at all.  *)
AllOrNothing ==
    pc # "crashed" =>
        \A p \in Procs :
            /\ proc[Leader(p[1])] \in {"run"} \union Halted
            /\ p # Leader(p[1])
            /\ p[2] <= job[p[1]].pipeline
            => p \notin errs /\ proc[p] \notin {"none"} \union Starting

(* A job in the list with a process whose stop was reported is shown as    *)
(* stopped.                                                                *)
StoppedIsShown ==
    \A p \in grouped : IsListed(p[1]) /\ proc[p] = "stopped" => job[p[1]].stopped

(* wait_for_fg_job blocks for ever on stopped processes only when one of   *)
(* the job was reaped elsewhere or never joined the group.                 *)
NoStuckWait ==
    pc = "wait" /\ Members(cur) # {} /\ (\A p \in Members(cur) : proc[p] = "stopped")
        => Cardinality(Members(cur)) < job[cur].size

(* The shell stops waiting for a job only when no member of it runs.       *)
(* (Without SIGCONT from outside.)                                         *)
LeavesQuiet ==
    [][pc = "wait" /\ pc' # "wait" =>
           \A p \in Procs : p[1] = cur /\ p \in grouped' => proc'[p] \in {"stopped", "zombie"}]_vars

-----------------------------------------------------------------------------
(* Whoever types sees a job in one of a few phases, whichever lists and    *)
(* locals its handle is in.                                                *)
Phase(j) ==
    IF job[j].mem = "unused" THEN "new"
    ELSE IF j \in HandleHeld THEN IF pc \in Forking THEN "starting"
                                  ELSE IF pc = "wait" THEN "waited" ELSE "taken"
    ELSE IF j \in ToSet(current_job) THEN "listed"
    ELSE IF j \in ToSet(pending_removed_jobs) THEN "done" ELSE "gone"

FirstProgram(j) ==
    LET p == Leader(j)
    IN  IF proc[p] = "none" THEN "none"
        ELSE IF proc[p] \in Starting THEN "starting"
        ELSE IF proc[p] \in {"zombie", "reaped"} THEN "ended" ELSE "running"

ShellState ==
    IF ~Up THEN "over"
    ELSE IF leaving # "no" THEN "leaving"
    ELSE IF pc = "read_line" THEN "prompt" ELSE "busy"

L == INSTANCE JobLifecycle WITH shell   <- ShellState,
                                phase   <- [j \in Jobs |-> Phase(j)],
                                program <- [j \in Jobs |-> FirstProgram(j)]

(* Jobs live as JobLifecycle says: the handler, which moves handles from   *)
(* list to list between any two steps of the main thread, never makes a    *)
(* job appear twice, come back, or change while another is waited for.     *)
IsLifecycle == L!LifecycleSpec

-----------------------------------------------------------------------------
(* Liveness.  The main thread and the children on their way to exec are    *)
(* scheduled whenever they can go on, and a SIGCHLD that was blocked is    *)
(* delivered when it is unblocked, hence the strong fairness of the        *)
(* handler; nothing obliges a user to type or a program to end.            *)
Fairness ==
    /\ WF_vars(Main)
    /\ SF_vars(Handler)
    /\ \A j \in Jobs : WF_vars(LeaderReady(j))
    /\ \A p \in Procs : WF_vars(Exec(p))

FairSpec == Spec /\ Fairness

(* start_job_internal comes to an end: the parent, which waits for the     *)
(* error pipes, and the leader, which waits for the control pipe, never    *)
(* wait for each other.  Only a child that was stopped before its exec     *)
(* keeps the shell there.                                                  *)
LaunchEnds ==
    pc \in Forking ~> \/ pc \notin Forking
                     \/ \E p \in Procs : p[1] = cur /\ proc[p] = "iced"

(* Every child that ended is reaped, whichever of the places that call     *)
(* waitpid it falls to: no SIGCHLD that arrives while it is blocked, or    *)
(* while the handler is at work, is lost.  The shell may crash first, or   *)
(* wait for ever for a job in the foreground.                              *)
NoZombies ==
    \A p \in Procs :
        proc[p] = "zombie" ~> proc[p] = "reaped" \/ pc = "crashed" \/ [](pc = "wait")
=============================================================================
