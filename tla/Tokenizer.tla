------------------------------ MODULE Tokenizer ------------------------------
(***************************************************************************)
(* parse_tokens of src/lsh/parser.c.  One malloc holds MAX_ARGS + 1        *)
(* pointers and, behind them, a buffer of strlen(command) + 1 bytes; the   *)
(* loop copies the command into the buffer, cuts it at the delimiters and  *)
(* keeps the place where every token begins.  A step is one turn of the    *)
(* loop, or what follows the loop.                                         *)
(***************************************************************************)
EXTENDS TokenList

CONSTANTS
  Character,    \* the bytes of a command, NUL apart
  MAX_ARGS      \* the tokens a result may not reach

ASSUME CharacterAssumption == Backslash \in Character
ASSUME MaxArgsAssumption == MAX_ARGS \in Nat \ {0}

Nul == "nul"

ASSUME NulAssumption == Nul \notin Character

VARIABLES
  command,      \* the argument command
  delimeters,   \* the argument delimeters
  allow_empty,  \* the argument allow_empty
  current,      \* the index of *command_current_ptr
  escaped,      \* a backslash has been read and not yet written
  add_arg,      \* the next character begins a token
  arguments,    \* for each token the offset in the buffer where it begins
  buffer,       \* the bytes written to the buffer
  returned      \* "running", then "tokens" or, when NULL is returned, "null";
                \* "crashed" after a write behind the pointers

call == <<command, delimeters, allow_empty>>
tokenizerVars == <<call, current, escaped, add_arg, arguments, buffer, returned>>

\* Before the first call there is nothing to return.
TokenizerInit ==
  /\ command = <<>> /\ delimeters = {} /\ allow_empty = FALSE
  /\ current = 1
  /\ escaped = FALSE
  /\ add_arg = TRUE
  /\ arguments = <<>>
  /\ buffer = <<>>
  /\ returned = "null"

\* parse_tokens(string, .., set, empty) is called.
Call(string, set, empty) ==
  /\ returned \in {"tokens", "null"}
  /\ command' = string
  /\ delimeters' = set
  /\ allow_empty' = empty
  /\ current' = 1
  /\ escaped' = FALSE
  /\ add_arg' = TRUE
  /\ arguments' = <<>>
  /\ buffer' = <<>>
  /\ returned' = "running"

More == returned = "running" /\ current <= Len(command)
Here == command[current]
\* The character in hand ends a segment.
AtBreak_always == Here \in delimeters
AtBreak == Here \in delimeters /\ ~escaped

\* The number of tokens that makes the call fail.
Full_late(count) == count > MAX_ARGS
Full(count) == count >= MAX_ARGS

\* More pointers were stored than the array has room for.
Overrun(args) == Len(args) > MAX_ARGS + 1
\* free and NULL; the heap may be damaged by then.
Refused(args) == IF Overrun(args) THEN {"null", "crashed"} ELSE {"null"}

\* The end of a segment.  An empty one counts as a token only with
\* allow_empty, and this is the one place where the number of tokens is not
\* compared with MAX_ARGS.
EndSegment ==
  /\ More
  /\ AtBreak
  /\ arguments' = IF allow_empty /\ add_arg
                  THEN Append(arguments, Len(buffer)) ELSE arguments
  /\ buffer' = IF allow_empty \/ ~add_arg THEN Append(buffer, Nul) ELSE buffer
  /\ add_arg' = TRUE
  /\ current' = current + 1
  /\ UNCHANGED <<call, escaped, returned>>

\* The character in hand begins a token, and this is one token too many.
TooMany ==
  /\ More
  /\ ~AtBreak
  /\ add_arg
  /\ Full(Len(arguments) + 1)
  /\ arguments' = Append(arguments, Len(buffer))
  /\ add_arg' = FALSE
  /\ escaped' = (escaped /\ Here \notin delimeters)
  /\ returned' \in Refused(arguments')
  /\ UNCHANGED <<call, current, buffer>>

\* What a character of a token does to the buffer and to escaped.
Hold ==
  /\ Here = Backslash
  /\ ~escaped
  /\ escaped' = TRUE
  /\ UNCHANGED buffer

Put ==
  /\ Here # Backslash \/ escaped
  /\ buffer' = IF escaped /\ Here \notin delimeters \cup {Backslash}
               THEN buffer \o <<Backslash, Here>> ELSE Append(buffer, Here)
  /\ escaped' = FALSE

Read ==
  /\ More
  /\ ~AtBreak
  /\ add_arg => ~Full(Len(arguments) + 1)
  /\ arguments' = IF add_arg THEN Append(arguments, Len(buffer)) ELSE arguments
  /\ add_arg' = FALSE
  /\ Hold \/ Put
  /\ current' = current + 1
  /\ UNCHANGED <<call, returned>>

\* After the loop: a backslash that escapes nothing is written; a last empty
\* segment is a token with allow_empty.
AtEnd == returned = "running" /\ current > Len(command)

EndEscaped ==
  /\ AtEnd
  /\ escaped
  /\ buffer' = buffer \o <<Backslash, Nul>>
  /\ returned' = "tokens"
  /\ UNCHANGED <<call, current, escaped, add_arg, arguments>>

EndEmpty ==
  /\ AtEnd
  /\ ~escaped /\ add_arg /\ allow_empty
  /\ arguments' = Append(arguments, Len(buffer))
  /\ buffer' = Append(buffer, Nul)
  /\ returned' \in IF Full(Len(arguments'))
                   THEN Refused(arguments') ELSE {"tokens"}
  /\ UNCHANGED <<call, current, escaped, add_arg>>

EndToken ==
  /\ AtEnd
  /\ ~escaped /\ ~(add_arg /\ allow_empty)
  /\ buffer' = Append(buffer, Nul)
  /\ returned' = "tokens"
  /\ UNCHANGED <<call, current, escaped, add_arg, arguments>>

Turn == EndSegment \/ TooMany \/ Read
End == EndEscaped \/ EndEmpty \/ EndToken

\* Any caller, again and again.
TokenizerNext ==
  \/ \E string \in Seq(Character), set \in SUBSET (Character \ {Backslash}), empty \in BOOLEAN :
       Call(string, set, empty)
  \/ Turn \/ End

TokenizerSpec == TokenizerInit /\ [][TokenizerNext]_tokenizerVars

-----------------------------------------------------------------------------
TokenizerTypeOK ==
  /\ command \in Seq(Character)
  /\ delimeters \in SUBSET (Character \ {Backslash})
  /\ allow_empty \in BOOLEAN
  /\ current \in 1..(Len(command) + 1)
  /\ escaped \in BOOLEAN
  /\ add_arg \in BOOLEAN
  /\ arguments \in Seq(Nat)
  /\ buffer \in Seq(Character \cup {Nul})
  /\ returned \in {"running", "tokens", "null", "crashed"}

\* The bytes written never pass the strlen(command) + 1 bytes of the buffer,
\* a backslash that is still held back counted with them: it costs a byte of
\* its own as soon as another character than a delimiter follows it.
BufferFits ==
  /\ Len(buffer) <= Len(command) + 1
  /\ returned = "running" => Len(buffer) + (IF escaped THEN 1 ELSE 0) < current

\* Without allow_empty no pointer is stored outside the array, although one
\* of the two places that store one does not look at MAX_ARGS: tokens[0..],
\* the NULL behind them included, stay below MAX_ARGS + 1.
ArgsFit == ~allow_empty => Len(arguments) <= MAX_ARGS

\* With allow_empty the unchecked place may pass the limit, but then no
\* result is returned: what follows always meets one of the two checks.
NoLongResult == returned = "tokens" => Len(arguments) < MAX_ARGS

\* Whatever parse_tokens is called with, it never overruns its buffer, nor,
\* without allow_empty, its array of pointers, and what it returns has no more
\* tokens than the array has room for.  With allow_empty it may store a pointer
\* behind the array on the way to a refusal.
InBounds == BufferFits /\ ArgsFit /\ NoLongResult

\* Each token begins inside the part of the buffer that was written, behind
\* the token before it.
OffsetsGrow ==
  /\ \A k \in 1..Len(arguments) : arguments[k] <= Len(buffer)
  /\ \A k \in 2..Len(arguments) : arguments[k - 1] < arguments[k]
  /\ returned = "tokens" =>
       \A k \in 1..Len(arguments) : arguments[k] < Len(buffer)

=============================================================================
