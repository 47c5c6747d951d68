----------------------------- MODULE Processes -----------------------------
(***************************************************************************)
(* The kernel as lsh uses it: processes, process groups, the two signals   *)
(* lsh sends on its own account (SIGTERM, SIGCONT), and the pending        *)
(* SIGCHLD of the shell.  None of this is code of the repository; it is    *)
(* what fork(2), setpgid(2), killpg(3) and waitpid(2) do for src/lsh.      *)
(*                                                                         *)
(* A pipeline of job j is the processes <<j, 1>>, <<j, 2>>, ...; the       *)
(* first is the group leader, so the pgid of the group is j itself.        *)
(***************************************************************************)
EXTENDS Integers, FiniteSets

CONSTANTS Jobs,      \* the command lines that start a pipeline
          MaxPipe    \* bound: the longest pipeline

ASSUME MaxPipeAssumption == MaxPipe \in Nat \ {0}

VARIABLES
    proc,       \* the state of every process
    grouped,    \* the unreaped processes whose setpgid took effect
    chld        \* a SIGCHLD is pending for the shell

kernelVars == <<proc, grouped, chld>>

-----------------------------------------------------------------------------
Procs == Jobs \X (1 .. MaxPipe)

Leader(j) == <<j, 1>>

(* "born": forked, on its way to exec; "held": the leader, reading the     *)
(* control pipe; "iced": stopped before its exec.  "stopping" is a stop    *)
(* that waitpid has not reported yet, "stopped" one that it has.           *)
Starting == {"born", "held", "iced"}
Halted   == {"stopping", "stopped"}
ProcStates == {"none", "run", "zombie", "reaped"} \union Starting \union Halted

KernelTypeOK ==
    /\ proc \in [Procs -> ProcStates]
    /\ grouped \in SUBSET Procs
    /\ chld \in BOOLEAN

KernelInit ==
    /\ proc = [p \in Procs |-> "none"]
    /\ grouped = {}
    /\ chld = FALSE

Unreaped(j) == {p \in Procs : p[1] = j /\ proc[p] \notin {"none", "reaped"}}

(* Whom waitpid(-pgid) and killpg(pgid) reach.                             *)
Members(j) == {p \in grouped : p[1] = j}

-----------------------------------------------------------------------------
(* SIGCONT: a stop that was not reported is not reported any more.         *)
Resumed(p, state) ==
    CASE state \in Halted -> "run"
      [] state = "iced"   -> IF p = Leader(p[1]) THEN "held" ELSE "born"
      [] OTHER            -> state

(* killpg(j, SIGCONT) on the processes f.                                  *)
Cont(j, f) ==
    [p \in Procs |-> IF p \in Members(j) THEN Resumed(p, f[p]) ELSE f[p]]

(* killpg(j, SIGTERM), then killpg(j, SIGCONT).  Before its exec a child   *)
(* has the default disposition and dies of it at once; a program may catch *)
(* SIGTERM, or die of it in a Die step.                                    *)
TermCont(j, f) ==
    [p \in Procs |-> IF p \in Members(j)
                     THEN IF f[p] \in Starting THEN "zombie"
                                               ELSE Resumed(p, f[p])
                     ELSE f[p]]

(* The children go from the states f to g: one that ended, stopped or      *)
(* continued raises SIGCHLD (no SA_NOCLDSTOP).                             *)
Signalled(f, g) ==
    /\ proc' = g
    /\ chld' = (chld \/ f # g)

(* waitpid took the exit status of p.                                      *)
Reap(p) ==
    /\ proc' = [proc EXCEPT ![p] = "reaped"]
    /\ grouped' = grouped \ {p}
=============================================================================
