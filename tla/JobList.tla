------------------------------- MODULE JobList -------------------------------
(***************************************************************************)
(* The lists of job handles at the level of pointers: remove_job_handle of *)
(* src/lsh/job.c and the macros of utility.h, as the main thread runs them *)
(* with SIGCHLD open, load by load and store by store as they are built    *)
(* (without optimisation), and the SIGCHLD handler, which runs from one    *)
(* end to the other between any two of them.  JobControl takes each of     *)
(* these operations as one step; this module says when it may.             *)
(***************************************************************************)
EXTENDS Integers, FiniteSets

CONSTANTS
  Handles,   \* struct job_handle objects, allocated one after the other
  NULL

\* The addresses of struct job_handle*: the two heads, and next of every handle.
current_job == "current_job"
pending_removed_jobs == "pending_removed_jobs"
Addresses == Handles \cup {current_job, pending_removed_jobs}

\* The heads are no handles, and nothing that has an address is NULL.
ASSUME HandlesAssumption ==
  /\ IsFiniteSet(Handles)
  /\ {current_job, pending_removed_jobs} \cap Handles = {}
  /\ NULL \notin Addresses

VARIABLES
  cell,      \* what a struct job_handle* in memory holds: the two heads, and
             \* for every handle its next
  mem,       \* "unused", "live" or "freed"
  pc, op,    \* where the main thread is, and for what
  ptr,       \* the argument ptr or head: the address of a cell
  handle,    \* the local of get_job_handle
  tmp, val,  \* the local of remove_job_handle, and a value between load and store
  done,      \* the handles that the handler has found done: history
  torn       \* the handler has moved a handle inside a Window: history

vars == <<cell, mem, pc, op, ptr, handle, tmp, val, done, torn>>

-----------------------------------------------------------------------------
(* The n-th cell of the list at an address, and the handles in it.         *)
Path(c, head) ==
  LET p[n \in 0..Cardinality(Handles) + 1] ==
        IF n = 0 THEN head ELSE IF p[n - 1] = NULL THEN NULL ELSE c[p[n - 1]]
  IN  p

InList(c, head) == {Path(c, head)[n] : n \in 1..Cardinality(Handles)} \ {NULL}
Ends(c, head) == Path(c, head)[Cardinality(Handles) + 1] = NULL

\* The whole operations, as the handler and the blocked main thread do them.
Removed(c, head, h) ==
  LET before == CHOOSE a \in InList(c, head) \cup {head} : c[a] = h
  IN  [c EXCEPT ![before] = c[h], ![h] = NULL]

AddedLast(c, head, h) ==
  LET end == CHOOSE a \in InList(c, head) \cup {head} : c[a] = NULL
  IN  [c EXCEPT ![end] = h]

AddedFirst(c, head, h) ==
  IF c[head] = NULL THEN [c EXCEPT ![head] = h]
                    ELSE [c EXCEPT ![h] = c[head], ![head] = h]

-----------------------------------------------------------------------------
Init ==
  /\ cell = [a \in Addresses |-> NULL]
  /\ mem = [h \in Handles |-> "unused"]
  /\ pc = "line" /\ op = "prompt"
  /\ ptr = NULL /\ handle = NULL /\ tmp = NULL /\ val = NULL
  /\ done = {} /\ torn = FALSE

Goto(label) == pc' = label
Crash == Goto("crashed") /\ UNCHANGED <<cell, mem, op, ptr, handle, tmp, val, done, torn>>

\* remove_job_handle(list, ..) is called.
Remove(purpose, list) ==
  /\ op' = purpose
  /\ ptr' = list
  /\ Goto("while")

-----------------------------------------------------------------------------
(* The SIGCHLD handler: a job is done. *)

Window == {"load", "store", "add", "step", "put"}

Handler(h) ==
  /\ pc # "crashed"
  /\ Ends(cell, current_job) /\ Ends(cell, pending_removed_jobs)
  /\ h \in InList(cell, current_job)
  /\ done' = done \cup {h}
  /\ LET rest == Removed(cell, current_job, h) IN
       \/ cell' = AddedLast(rest, pending_removed_jobs, h)
       \/ cell' = AddedFirst(rest, pending_removed_jobs, h)
  /\ torn' = (torn \/ pc \in Window)
  /\ UNCHANGED <<mem, pc, op, ptr, handle, tmp, val>>

-----------------------------------------------------------------------------
(* A line. *)

\* A job goes to the background or was stopped: SIGCHLD is blocked.
Enlist(h) ==
  /\ pc = "line"
  /\ mem[h] = "unused"
  /\ mem' = [mem EXCEPT ![h] = "live"]
  /\ cell' = AddedFirst(cell, current_job, h)
  /\ Remove("prompt", pending_removed_jobs)
  /\ UNCHANGED <<handle, tmp, val, done, torn>>

\* fg or bg: get_job_handle walks to the index-th handle.
Look ==
  /\ pc = "line"
  /\ handle' = cell[current_job]
  /\ Goto("look")
  /\ UNCHANGED <<cell, mem, op, ptr, tmp, val, done, torn>>

LookOn ==
  /\ pc = "look"
  /\ handle # NULL
  /\ handle' = cell[handle]
  /\ UNCHANGED <<cell, mem, pc, op, ptr, tmp, val, done, torn>>

NotFound ==
  /\ pc = "look"
  /\ handle = NULL
  /\ Remove("prompt", pending_removed_jobs)
  /\ UNCHANGED <<cell, mem, handle, tmp, val, done, torn>>

Found ==
  /\ pc = "look"
  /\ handle # NULL
  /\ Remove("take", current_job)
  /\ UNCHANGED <<cell, mem, handle, tmp, val, done, torn>>

-----------------------------------------------------------------------------
(* remove_job_handle *)

\* pid <= 0 takes the first handle, otherwise the one of the job looked for.
\* Mutant: the first job is taken for any index.
Matches_first(h) == TRUE
Matches(h) == op = "prompt" \/ h = handle

While ==
  /\ pc = "while"
  /\ cell[ptr] # NULL
  /\ Goto("if")
  /\ UNCHANGED <<cell, mem, op, ptr, handle, tmp, val, done, torn>>

\* NULL: print_pending_jobs is done; get_job_handle returns -999, which do_fg
\* and do_bg dereference.
WhileEnds ==
  /\ pc = "while"
  /\ cell[ptr] = NULL
  /\ IF op = "prompt" THEN Goto("line") /\ UNCHANGED <<cell, mem, op, ptr, handle, tmp, val, done, torn>>
                      ELSE Crash

If ==
  /\ pc = "if"
  /\ IF cell[ptr] = NULL THEN Crash
     ELSE /\ Goto(IF Matches(cell[ptr]) THEN "tmp" ELSE "next")
          /\ UNCHANGED <<cell, mem, op, ptr, handle, tmp, val, done, torn>>

NextHandle ==
  /\ pc = "next"
  /\ IF cell[ptr] = NULL THEN Crash
     ELSE /\ ptr' = cell[ptr]
          /\ Goto("while")
          /\ UNCHANGED <<cell, mem, op, handle, tmp, val, done, torn>>

Tmp ==
  /\ pc = "tmp"
  /\ tmp' = cell[ptr]
  /\ Goto("load")
  /\ UNCHANGED <<cell, mem, op, ptr, handle, val, done, torn>>

Load ==
  /\ pc = "load"
  /\ IF cell[ptr] = NULL THEN Crash
     ELSE /\ val' = cell[cell[ptr]]
          /\ Goto("store")
          /\ UNCHANGED <<cell, mem, op, ptr, handle, tmp, done, torn>>

Store ==
  /\ pc = "store"
  /\ cell' = [cell EXCEPT ![ptr] = val]
  /\ Goto("clear")
  /\ UNCHANGED <<mem, op, ptr, handle, tmp, val, done, torn>>

\* Mutant: tmp->next keeps its value.
Clear_keeps ==
  /\ pc = "clear"
  /\ IF tmp = NULL THEN Crash
     ELSE /\ UNCHANGED cell
          /\ \/ op = "prompt" /\ Goto("free") /\ UNCHANGED ptr
             \/ op = "take" /\ Goto("free") /\ UNCHANGED ptr
             \/ op = "take" /\ Goto("add") /\ ptr' = current_job
          /\ UNCHANGED <<mem, op, handle, tmp, val, done, torn>>

\* What was removed is announced and freed; brought to the foreground and
\* freed; or added again (bg, or fg without the terminal).
Clear ==
  /\ pc = "clear"
  /\ IF tmp = NULL THEN Crash
     ELSE /\ cell' = [cell EXCEPT ![tmp] = NULL]
          /\ \/ op = "prompt" /\ Goto("free") /\ UNCHANGED ptr
             \/ op = "take" /\ Goto("free") /\ UNCHANGED ptr
             \/ op = "take" /\ Goto("add") /\ ptr' = current_job
          /\ UNCHANGED <<mem, op, handle, tmp, val, done, torn>>

Free ==
  /\ pc = "free"
  /\ mem' = [mem EXCEPT ![tmp] = "freed"]
  /\ Remove("prompt", pending_removed_jobs)
  /\ UNCHANGED <<cell, handle, tmp, val, done, torn>>

-----------------------------------------------------------------------------
(* job_handle_add_last(&current_job, tmp) *)

AddWalk ==
  /\ pc = "add"
  /\ cell[ptr] # NULL
  /\ Goto("step")
  /\ UNCHANGED <<cell, mem, op, ptr, handle, tmp, val, done, torn>>

AddStep ==
  /\ pc = "step"
  /\ IF cell[ptr] = NULL THEN Crash
     ELSE /\ ptr' = cell[ptr]
          /\ Goto("add")
          /\ UNCHANGED <<cell, mem, op, handle, tmp, val, done, torn>>

AddEnd ==
  /\ pc = "add"
  /\ cell[ptr] = NULL
  /\ Goto("put")
  /\ UNCHANGED <<cell, mem, op, ptr, handle, tmp, val, done, torn>>

Put ==
  /\ pc = "put"
  /\ cell' = [cell EXCEPT ![ptr] = tmp]
  /\ Remove("prompt", pending_removed_jobs)
  /\ UNCHANGED <<mem, handle, tmp, val, done, torn>>

-----------------------------------------------------------------------------
Main ==
  \/ \E h \in Handles : Enlist(h)
  \/ Look \/ LookOn \/ NotFound \/ Found
  \/ While \/ WhileEnds \/ If \/ NextHandle \/ Tmp \/ Load \/ Store \/ Clear \/ Free
  \/ AddWalk \/ AddStep \/ AddEnd \/ Put

Next == Main \/ \E h \in Handles : Handler(h)

Spec == Init /\ [][Next]_vars

-----------------------------------------------------------------------------
TypeOK ==
  /\ cell \in [Addresses -> Handles \cup {NULL}]
  /\ mem \in [Handles -> {"unused", "live", "freed"}]
  /\ pc \in {"line", "look", "while", "if", "next", "tmp", "load", "store", "clear", "free",
             "add", "step", "put", "crashed"}
  /\ op \in {"prompt", "take"}
  /\ ptr \in Addresses \cup {NULL} /\ {handle, tmp, val} \subseteq Handles \cup {NULL}

Current == InList(cell, current_job)
Done == InList(cell, pending_removed_jobs)
InHand == IF pc \in {"clear", "free", "add", "step", "put"} THEN {tmp} ELSE {}

\* A handler that runs outside the Window leaves the lists whole, however far
\* the main thread has got in a list that the handler shortens or lengthens:
\* every handle is in one list or in the hand of the main thread, both lists
\* end, and only what is done is in the list of the announced and freed.
\* remove_job_handle and job_handle_add_last run with SIGCHLD open (job.c:13).
\* The variables keep their types.
Intact ==
  /\ TypeOK
  /\ ~torn /\ pc # "crashed" =>
       /\ Ends(cell, current_job) /\ Ends(cell, pending_removed_jobs)
       /\ Done \subseteq done
       /\ Current \cap Done = {}
       /\ InHand \cap (Current \cup Done) = {}
       /\ Current \cup Done \cup InHand = {h \in Handles : mem[h] = "live"}

\* fg and bg never take another running job for a running one, whatever the
\* handler did to the lists since the user's index was looked up: what they
\* take is their job, unless theirs or the one they took is done, or they
\* took none and the next step is a segmentation fault (get_job_handle, execute.c:486-488).
TakesItsJob ==
  op = "take" /\ pc = "clear" /\ {handle, tmp} \cap (done \cup {NULL}) = {} => tmp = handle

=============================================================================
