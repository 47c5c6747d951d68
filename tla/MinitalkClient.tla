---------------------------- MODULE MinitalkClient ----------------------------
(***************************************************************************)
(* The chat client, src/minitalk/client_main.c, once it is connected: a    *)
(* child that copies what the server sends to the terminal, a parent that  *)
(* sends lines to the server, the socket they share, and an alarm that may *)
(* interrupt the first read of the child.                                  *)
(***************************************************************************)
EXTENDS Integers, Sequences, SequencesExt

CONSTANTS
  N,         \* the size of the buffer of read_line (1024)
  Chunk,     \* how much the child reads at once (10)
  MaxTyped,  \* bound: characters and ends typed
  MaxSent    \* bound: bytes the server sends

ASSUME ClientAssumption == N \in Nat \ {0, 1} /\ Chunk \in Nat \ {0}

VARIABLES
  conn,     \* the socket: "open", "closed" by the server, "reset" with the
            \* error not yet reported, "broken": reads give 0, writes SIGPIPE
  inbox,    \* bytes the child has not read yet
  sent,     \* bytes the server has sent: history
  child, timer, errno, held, printed,  \* the child; held is read, not printed
  parent, typed, buff,                 \* the parent; typed is a history
  wire      \* the positions in typed of what has reached the server: history

childVars == <<child, timer, errno, held, printed>>
parentVars == <<parent, typed, buff, wire>>
clientVars == <<conn, inbox, sent, childVars, parentVars>>

\* fork may fail: its result is only compared with 0.
ClientInit ==
  /\ conn = "open" /\ inbox = 0 /\ sent = 0
  /\ child \in {"starts", "none"}
  /\ timer = "off" /\ errno = "0" /\ held = 0 /\ printed = 0
  /\ parent = "typing" /\ typed = <<>> /\ buff = <<>> /\ wire = <<>>

-----------------------------------------------------------------------------
(* The server and the network *)

ServerSends ==
  /\ conn = "open" /\ sent < MaxSent
  /\ sent' = sent + 1
  /\ inbox' = inbox + 1
  /\ UNCHANGED <<conn, childVars, parentVars>>

\* The server closes the connection or ends; it is reset if the server had
\* something left to read.  What has arrived can still be read.
ServerEnds ==
  /\ conn = "open"
  /\ conn' \in {"closed", "reset"}
  /\ UNCHANGED <<inbox, sent, childVars, parentVars>>

-----------------------------------------------------------------------------
(* The child *)

SetTimer ==
  /\ child = "starts"
  /\ timer' = "armed"
  /\ child' = "read"
  /\ UNCHANGED <<conn, inbox, sent, errno, held, printed, parentVars>>

InRead == child = "read" /\ inbox = 0 /\ conn = "open"

Alarm_ends ==
  /\ timer = "armed"
  /\ timer' = "off"
  /\ \/ InRead /\ errno' = "EINTR" /\ child' = "gone"
     \/ UNCHANGED <<errno, child>>
  /\ UNCHANGED <<conn, inbox, sent, held, printed, parentVars>>

\* A read that blocks is interrupted and tried again; one that has not begun
\* is not.  The handler does nothing.
Alarm ==
  /\ timer = "armed"
  /\ timer' = "off"
  /\ \/ InRead /\ errno' = "EINTR"
     \/ UNCHANGED errno
  /\ UNCHANGED <<conn, inbox, sent, child, held, printed, parentVars>>

Read ==
  /\ child = "read" /\ inbox > 0
  /\ held' = IF inbox < Chunk THEN inbox ELSE Chunk
  /\ inbox' = inbox - held'
  /\ child' = "got"
  /\ UNCHANGED <<conn, sent, timer, errno, printed, parentVars>>

PrintHeld ==
  /\ child = "got"
  /\ timer' = "off"
  /\ printed' = printed + held
  /\ held' = 0
  /\ child' = "read"
  /\ UNCHANGED <<conn, inbox, sent, errno, parentVars>>

ReadEnd_any ==
  /\ child = "read" /\ inbox = 0 /\ conn \in {"closed", "broken"}
  /\ timer' = "off"
  /\ UNCHANGED <<conn, inbox, sent, child, errno, held, printed, parentVars>>

\* The end of the file sets no errno: the loop tests an old one.
ReadEnd ==
  /\ child = "read" /\ inbox = 0 /\ conn \in {"closed", "broken"}
  /\ IF errno = "EINTR" THEN timer' = "off" /\ UNCHANGED child
                        ELSE child' = "gone" /\ UNCHANGED timer
  /\ UNCHANGED <<conn, inbox, sent, errno, held, printed, parentVars>>

ReadReset ==
  /\ child = "read" /\ inbox = 0 /\ conn = "reset"
  /\ conn' = "broken"
  /\ errno' = "ECONNRESET"
  /\ child' = "gone"
  /\ UNCHANGED <<inbox, sent, timer, held, printed, parentVars>>

-----------------------------------------------------------------------------
(* The parent *)

\* One turn of the loop of read_line; what does not fit is dropped, the
\* newline as well.
ReadCharacter(c) ==
  /\ parent = "typing"
  /\ typed' = Append(typed, c)
  /\ buff' = IF Len(buff) < N - 1 THEN Append(buff, Len(typed')) ELSE buff
  /\ parent' = IF c = "newline" THEN "send" ELSE "typing"
  /\ UNCHANGED <<conn, inbox, sent, childVars, wire>>

\* The end of the input, or ^D: a line that was begun is sent as it is.
ReadInputEnd ==
  /\ parent = "typing"
  /\ typed' = Append(typed, "end")
  /\ parent' = IF buff = <<>> THEN "gone" ELSE "send"
  /\ UNCHANGED <<conn, inbox, sent, childVars, buff, wire>>

Press == Len(typed) < MaxTyped /\ (ReadInputEnd \/ \E c \in {"newline", "other"} : ReadCharacter(c))

\* write is not checked: a closed peer answers the first one with a reset,
\* sooner or later, a reset is reported once, and then there is SIGPIPE.
Send ==
  /\ parent = "send"
  /\ \/ /\ conn = "open"
        /\ wire' = wire \o buff
        /\ parent' = "wait" /\ UNCHANGED conn
     \/ /\ conn = "closed"
        /\ conn' \in {"closed", "broken"}
        /\ parent' = "wait" /\ UNCHANGED wire
     \/ /\ conn = "reset"
        /\ conn' = "broken"
        /\ parent' = "wait" /\ UNCHANGED wire
     \/ /\ conn = "broken"
        /\ parent' = "gone" /\ UNCHANGED <<conn, wire>>
  /\ UNCHANGED <<inbox, sent, childVars, typed, buff>>

Wait_keeps ==
  /\ parent = "wait"
  /\ parent' = IF child = "gone" THEN "gone" ELSE "typing"
  /\ UNCHANGED <<conn, inbox, sent, childVars, typed, buff, wire>>

\* waitpid(-1, NULL, WNOHANG): the child is looked for after a line only.
Wait ==
  /\ parent = "wait"
  /\ parent' = IF child = "gone" THEN "gone" ELSE "typing"
  /\ buff' = <<>>
  /\ UNCHANGED <<conn, inbox, sent, childVars, typed, wire>>

-----------------------------------------------------------------------------
Child == SetTimer \/ Read \/ PrintHeld \/ ReadEnd \/ ReadReset
Parent == Send \/ Wait

ClientNext == ServerSends \/ ServerEnds \/ Alarm \/ Child \/ Press \/ Parent

\* The two processes are scheduled; nobody has to type, and the server and the
\* alarm do what they like.
ClientSpec == ClientInit /\ [][ClientNext]_clientVars /\ WF_clientVars(Child) /\ WF_clientVars(Parent)

-----------------------------------------------------------------------------
ClientTypeOK ==
  /\ conn \in {"open", "closed", "reset", "broken"}
  /\ inbox \in Nat /\ sent \in Nat /\ held \in 0..Chunk /\ printed \in Nat
  /\ child \in {"none", "starts", "read", "got", "gone"}
  /\ timer \in {"off", "armed"} /\ errno \in {"0", "EINTR", "ECONNRESET"}
  /\ parent \in {"typing", "send", "wait", "gone"}
  /\ Len(buff) < N

\* The child leaves only when everything the server has sent is on the
\* terminal: neither the alarm nor a reset makes it miss anything.
AllPrinted == child = "gone" => printed = sent

\* What read_line keeps: of every line the first N - 1 characters, where a
\* line ends with a newline or an end of the input.
LineOf(p) == {q \in 1..p : \A r \in q..p - 1 : typed[r] = "other"}
Kept == {p \in DOMAIN typed : typed[p] # "end" /\ Cardinality(LineOf(p)) < N}

\* Between two lines, the server has been sent what was typed, in order and
\* once, but for what is beyond N - 1 characters of a line; the newline of such
\* a line is lost too, and the server takes the next line for a part of it.
KeepsLines ==
  parent = "typing" /\ conn = "open" /\ (typed # <<>> => Last(typed) # "other") =>
    /\ Range(wire) = Kept
    /\ \A i, j \in DOMAIN wire : i < j => wire[i] < wire[j]

\* The alarm interrupts the wait for the first bytes only: afterwards it is
\* turned off, and no old EINTR can come from it.
AlarmOnlyFirst == [][errno # "EINTR" /\ errno' = "EINTR" => printed = 0]_clientVars

\* When the server hangs up, the child leaves, unless an EINTR is left over
\* from the alarm: then its loop never ends.  And once the child has gone, or
\* the connection is broken, the next line a user enters ends the parent.
BothStop ==
  /\ (conn # "open" /\ errno # "EINTR" /\ child # "none") ~> (child = "gone")
  /\ (parent = "send" /\ (child = "gone" \/ conn = "broken")) ~> (parent = "gone")

=============================================================================
