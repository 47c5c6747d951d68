------------------------------ MODULE LineInput ------------------------------
(***************************************************************************)
(* How lsh gets its lines: read_line of src/lsh/utility.c, the SIGINT      *)
(* handler and the loop of start in src/lsh/main.c, and the terminal in    *)
(* canonical mode.  The terminal hands out what was typed in chunks: a     *)
(* chunk ends with a newline (Enter) or without one (^D), and ^D on an     *)
(* empty line is a chunk of nothing, the end of the file.  ^C throws away  *)
(* what was typed and not read, and SIGINT is blocked outside read_line.   *)
(* A job that runs reads the same terminal, and launch_job of              *)
(* src/lsh/execute.c throws away what it left.                             *)
(***************************************************************************)
EXTENDS Integers, Sequences, SequencesExt

CONSTANTS
  BUFF_SIZE,      \* the size of the buffer, the newline counted
  MaxLines,       \* bound: lines ended with Enter
  MaxParts,       \* bound: characters typed
  MaxThrown,      \* bound: ^C is typed only while less was thrown away
  MaxEnds         \* bound: ^D typed

ASSUME LineAssumption == BUFF_SIZE \in Nat \ {0}

VARIABLES
  typing,           \* the line being edited in the terminal
  queue,            \* the chunks that can be read
  typed,            \* for every line its characters: history
  thrown,           \* how often what was typed and not read was thrown away,
                    \* by ^C or at the end of a job: history
  ends,             \* how often ^D was typed: history
  pending,          \* a SIGINT is pending
  masked,           \* SIGINT is blocked
  sigint_received,  \* the flag
  pc,               \* where the shell is
  buffer,           \* what read_line_internal has put in its buffer
  ret,              \* what it returns: "line", "NULL"
  missed            \* since the last line that ran, the handler ran between
                    \* the test of the flag and read: history

user == <<typing, queue, typed, thrown, ends>>
vars == <<user, pending, masked, sigint_received, pc, buffer, ret, missed>>

-----------------------------------------------------------------------------
(* The user.  A character is known by its line and by how often what was   *)
(* typed had been thrown away before it.                                   *)

Line == Len(typed)
Character(newline) == [line |-> Line, after |-> thrown, newline |-> newline]
Typed == FoldLeft(LAMBDA n, m : n + m, 0, typed)

TypeCharacter ==
  /\ Typed < MaxParts
  /\ Line <= MaxLines
  /\ typing' = Append(typing, Character(FALSE))
  /\ typed' = [typed EXCEPT ![Line] = @ + 1]
  /\ UNCHANGED <<queue, thrown, ends, pending, masked, sigint_received, pc, buffer, ret, missed>>

Enter ==
  /\ Line <= MaxLines
  /\ queue' = Append(queue, Append(typing, Character(TRUE)))
  /\ typing' = <<>>
  /\ typed' = Append(typed, 0)
  /\ UNCHANGED <<thrown, ends, pending, masked, sigint_received, pc, buffer, ret, missed>>

End ==
  /\ ends < MaxEnds
  /\ ends' = ends + 1
  /\ queue' = Append(queue, typing)
  /\ typing' = <<>>
  /\ UNCHANGED <<typed, thrown, pending, masked, sigint_received, pc, buffer, ret, missed>>

\* ^C: while a line or its job runs it may be another process group that is
\* interrupted.
\* What is typed next is a new line.
Interrupt ==
  /\ thrown < MaxThrown
  /\ thrown' = thrown + 1
  /\ typing' = <<>>
  /\ queue' = <<>>
  /\ typed' = [typed EXCEPT ![Line] = 0]
  /\ \E shell \in IF pc \in {"run", "job"} THEN BOOLEAN ELSE {TRUE} : pending' = (pending \/ shell)
  /\ UNCHANGED <<ends, masked, sigint_received, pc, buffer, ret, missed>>

-----------------------------------------------------------------------------
(* The shell *)

Init ==
  /\ typing = <<>>
  /\ queue = <<>>
  /\ typed = <<0>>
  /\ thrown = 0
  /\ ends = 0
  /\ pending = FALSE
  /\ masked = TRUE
  /\ sigint_received = FALSE
  /\ pc = "prompt"
  /\ buffer = <<>>
  /\ ret = "NULL"
  /\ missed = FALSE

\* A signal that is pending and not blocked is taken before the next step.
Deliverable == pending /\ ~masked

\* handle_int sets the flag and throws the input away a second time, with
\* what was typed since the ^C.
Flush ==
  /\ pending' = FALSE
  /\ sigint_received' = TRUE
  /\ typing' = <<>>
  /\ queue' = <<>>
  /\ typed' = [typed EXCEPT ![Line] = 0]

\* SIGINT interrupts the read that blocks (no SA_RESTART), not one that is
\* about to begin.
HandleInt ==
  /\ Deliverable
  /\ Flush
  /\ \/ pc = "read" /\ pc' = "test" /\ UNCHANGED missed
     \/ pc = "read" /\ missed' = TRUE /\ UNCHANGED pc
     \/ pc # "read" /\ UNCHANGED <<pc, missed>>
  /\ UNCHANGED <<thrown, ends, masked, buffer, ret>>

PrintPrompt_keeps ==
  /\ pc = "prompt"
  /\ UNCHANGED sigint_received
  /\ pc' = "read_line"
  /\ UNCHANGED <<user, pending, masked, buffer, ret, missed>>

PrintPrompt ==
  /\ pc = "prompt"
  /\ sigint_received' = FALSE
  /\ pc' = "read_line"
  /\ UNCHANGED <<user, pending, masked, buffer, ret, missed>>

\* A SIGINT that is pending is delivered before sigprocmask returns.
Unmask ==
  /\ pc = "read_line"
  /\ masked' = FALSE
  /\ IF pending THEN Flush ELSE UNCHANGED <<pending, sigint_received, typing, queue, typed>>
  /\ buffer' = <<>>
  /\ pc' = "test"
  /\ UNCHANGED <<thrown, ends, ret, missed>>

TestCanceler ==
  /\ pc = "test"
  /\ IF sigint_received THEN pc' = "mask" /\ ret' = "NULL" ELSE pc' = "read" /\ UNCHANGED ret
  /\ UNCHANGED <<user, pending, masked, sigint_received, buffer, missed>>

\* read takes at most BUFF_SIZE characters of a chunk, wherever in the buffer
\* it puts them (bytes_read is never updated); the rest stays.
Chunk == Head(queue)
Taken == IF Len(Chunk) <= BUFF_SIZE THEN Len(Chunk) ELSE BUFF_SIZE
Remaining(n) ==
  IF n = Len(Chunk) THEN Tail(queue) ELSE <<SubSeq(Chunk, n + 1, Len(Chunk))>> \o Tail(queue)

Read ==
  /\ pc = "read"
  /\ queue # <<>>
  /\ buffer' = buffer \o SubSeq(Chunk, 1, Taken)
  /\ queue' = Remaining(Taken)
  /\ CASE Len(buffer') > BUFF_SIZE                -> pc' = "overrun" /\ UNCHANGED ret
       [] buffer' = <<>>                          -> pc' = "mask" /\ ret' = "NULL"
       [] Len(buffer') \in 1..BUFF_SIZE /\ Last(buffer').newline
                                                  -> pc' = "mask" /\ ret' = "line"
       [] OTHER                                   -> pc' = "test" /\ UNCHANGED ret
  /\ UNCHANGED <<typing, typed, thrown, ends, pending, masked, sigint_received, missed>>

Mask ==
  /\ pc = "mask"
  /\ masked' = TRUE
  /\ pc' = IF ret = "line" THEN "run" ELSE IF sigint_received THEN "prompt" ELSE "left"
  /\ UNCHANGED <<user, pending, sigint_received, buffer, ret, missed>>

\* interpret_line: a builtin or a line that is refused goes back to the prompt,
\* exit ends the loop, and every other line, and fg, comes to launch_job.
Run ==
  /\ pc = "run"
  /\ pc' \in {"prompt", "exited", "job"}
  /\ missed' = FALSE
  /\ UNCHANGED <<user, pending, masked, sigint_received, buffer, ret>>

\* The job in the foreground reads the terminal.
JobReads ==
  /\ pc = "job"
  /\ queue # <<>>
  /\ \E n \in 0..Len(Chunk) : queue' = Remaining(n)
  /\ UNCHANGED <<typing, typed, thrown, ends, pending, masked, sigint_received, pc, buffer, ret, missed>>

JobEnds_keeps ==
  /\ pc = "job"
  /\ pc' = "prompt"
  /\ UNCHANGED <<user, pending, masked, sigint_received, buffer, ret, missed>>

\* launch_job takes the terminal back, when the job has ended or stopped, runs
\* in the background or could not start, and throws away what is in it.
JobEnds ==
  /\ pc = "job"
  /\ typing' = <<>>
  /\ queue' = <<>>
  /\ typed' = [typed EXCEPT ![Line] = 0]
  /\ thrown' = thrown + 1
  /\ pc' = "prompt"
  /\ UNCHANGED <<ends, pending, masked, sigint_received, buffer, ret, missed>>

\* It cannot take it back: longjmp to main, and the shell ends.
TerminalLost ==
  /\ pc = "job"
  /\ pc' = "left"
  /\ UNCHANGED <<user, pending, masked, sigint_received, buffer, ret, missed>>

Job == JobReads \/ JobEnds \/ TerminalLost
User == TypeCharacter \/ Enter \/ End \/ Interrupt
Shell == \/ HandleInt
         \/ ~Deliverable /\ (PrintPrompt \/ Unmask \/ TestCanceler \/ Read \/ Mask \/ Run)

\* The shell takes its steps in the end; a job need not end.
Next == User \/ Job \/ Shell

Spec == Init /\ [][Next]_vars /\ WF_vars(Shell)

-----------------------------------------------------------------------------
TypeOK ==
  /\ pending \in BOOLEAN /\ masked \in BOOLEAN /\ sigint_received \in BOOLEAN /\ missed \in BOOLEAN
  /\ pc \in {"prompt", "read_line", "test", "read", "mask", "run", "job", "left", "exited", "overrun"}
  /\ ret \in {"line", "NULL"}
  /\ Len(buffer) <= IF pc = "overrun" THEN 2 * BUFF_SIZE ELSE BUFF_SIZE

\* The buffer holds one line, or its beginning, with nothing thrown away in
\* between.
OneLine ==
  \A i, j \in DOMAIN buffer : buffer[i].line = buffer[j].line /\ buffer[i].after = buffer[j].after

\* What runs is one line, all of what was typed of it since input was last
\* thrown away (by ^C, or by launch_job at the end of a job), and nothing from
\* before: read_line gives up what it has when it sees the flag of ^C, and a
\* line that a job read in part is thrown away with the job's end.  It can fail
\* to see the flag, or see it too late, only after the window before read.
\* Neither do two lines together overrun the buffer, although a line that
\* arrives in parts is read with the full size each time (utility.c:27): it
\* takes a line longer than the buffer.  The variables keep their types.
RunsWholeLine ==
  /\ TypeOK
  /\ pc \in {"run", "overrun"} /\ ~missed => OneLine
  /\ pc = "run" /\ ~missed => Len(buffer) = typed[buffer[1].line] + 1

\* Every line that was entered is read in the end, by the shell or by a job, or
\* thrown away, by ^C or at the end of a job; unless the shell ends, or a job in
\* the foreground runs for ever.
EveryLineIsTaken == \A n \in 1..MaxLines :
  (Line > n) ~> \/ \A c \in DOMAIN queue : \A i \in DOMAIN queue[c] : queue[c][i].line # n
                \/ pc \in {"left", "exited", "overrun"}
                \/ [](pc = "job")

=============================================================================
