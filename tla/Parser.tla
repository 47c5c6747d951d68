------------------------------- MODULE Parser -------------------------------
(***************************************************************************)
(* interpret_line of src/lsh/parser.c: a typed line becomes a job of       *)
(* processes with arguments and redirects, or a builtin runs, or the line  *)
(* is refused.  Every call of parse_tokens is one of Tokenizer, and the    *)
(* parser goes on with what it returns; apart from that a step is what     *)
(* happens between two calls, or one turn of the loop over the tokens.     *)
(* A string is a sequence of characters; the heap is followed to the last  *)
(* object, because every error path frees a half built job.                *)
(***************************************************************************)
EXTENDS Tokenizer, SequencesExt

CONSTANTS
  Lines,        \* the lines that are typed
  Builtins      \* the names of builtins[]

Whitespace == {" ", "\t", "\n", "\r"}

ASSUME ParserAssumption ==
  /\ Whitespace \cup {"|", "<", ">"} \subseteq Character
  /\ Lines \subseteq Seq(Character)
  /\ Builtins \subseteq Seq(Character) \ {<<>>}

VARIABLES
  line,         \* the argument line
  pc,           \* where interpret_line is; "split", "words" and "sides" are
                \* the calls of parse_tokens
  bg,           \* the line ended in '&'
  pieces,       \* processes: the line between the pipes
  pipeline,     \* job->pipeline: the processes parsed
  tokens,       \* tokens of the process in hand
  i,            \* the index in tokens, from 1
  redirects,    \* process->redirects of the process in hand
  heap,         \* for every object allocated how often it was freed
  ran,          \* "nothing", or the "builtin" or "job" that was run
  result        \* the parse_result returned; "none" before

parserVars == <<line, pc, bg, pieces, pipeline, tokens, i, redirects, heap, ran, result>>
vars == <<parserVars, tokenizerVars>>

-----------------------------------------------------------------------------
(* utility.c *)

TrimFront(s) ==
  LET kept == {k \in DOMAIN s : s[k] \notin Whitespace}
  IN  IF kept = {} THEN <<>> ELSE SubSeq(s, Min(kept), Len(s))

\* The loop counts upwards: it looks at the last character, and if that was
\* cut, at the NUL behind it.
TrimEnd(s) == IF Len(s) > 1 /\ Last(s) \in Whitespace THEN Front(s) ELSE s

\* What parse_tokens has returned: the strings in its buffer, none for NULL.
Answered == returned \in {"tokens", "null"}

StringAt(offset) ==
  LET nuls == {n \in DOMAIN buffer : n > offset /\ buffer[n] = Nul}
  IN  SubSeq(buffer, offset + 1, Min(nuls) - 1)

Result == IF returned = "tokens" THEN [n \in DOMAIN arguments |-> StringAt(arguments[n])] ELSE <<>>

-----------------------------------------------------------------------------
(* Redirects *)

Digits == <<"0", "1", "2", "3", "4", "5", "6", "7", "8", "9">>

\* strtol with base 10, where it reads all of the string.
IsNumber(s) ==
  LET t == TrimFront(s)
      digits == IF t # <<>> /\ t[1] \in {"+", "-"} THEN Tail(t) ELSE t
  IN  digits # <<>> /\ ToSet(digits) \subseteq ToSet(Digits)

NumberOf(s) ==
  LET t == TrimFront(s)
      digits == SelectSeq(t, LAMBDA c : c \in ToSet(Digits))
      value == FoldLeft(LAMBDA n, c : 10 * n + IndexFirstSubSeq(<<c>>, Digits) - 1, 0, digits)
  IN  IF t[1] = "-" THEN -value ELSE value

\* What check_redirect accepts: a number or nothing on the left, on the right
\* a name, or & and a number.
RedirectOk(left, right) ==
  /\ left # <<>> => IsNumber(left)
  /\ right # <<>>
  /\ right[1] = "&" => Len(right) > 1 /\ IsNumber(Tail(right))

Redirect(left, right, is_out) ==
  [is_out   |-> is_out,
   left_fd  |-> IF left # <<>> THEN NumberOf(left) ELSE IF is_out THEN 1 ELSE 0,
   right    |-> right,
   right_fd |-> IF right[1] = "&" THEN NumberOf(Tail(right)) ELSE -1]

Out(token) == Contains(token, ">")
IsRedirect(token) == Out(token) \/ Contains(token, "<")

\* parse_redirect wants two sides.
SidesOk == Len(Result) = 2 /\ RedirectOk(Result[1], Result[2])

-----------------------------------------------------------------------------
(* The heap *)

\* The objects of process n and its redirects (a redirect and its two
\* strings are one object).
ProcessObjects(n, count) ==
  {<<"process", n>>, <<"tokens", n>>} \cup {<<"redirect", n, r>> : r \in 1..count}

\* What destroy_job(job) reaches.
JobObjects ==
  {<<"job">>} \cup UNION {ProcessObjects(n, Len(pipeline[n].redirects))
                            : n \in DOMAIN pipeline}

\* The heap after some objects were allocated and some freed.
Heap(allocated, freed) ==
  [o \in DOMAIN heap \cup allocated |->
     (IF o \in DOMAIN heap THEN heap[o] ELSE 0) + (IF o \in freed THEN 1 ELSE 0)]

Return(value) == pc' = "returned" /\ result' = value

\* The process in hand is number n of the pipeline.
Number == Len(pipeline) + 1

-----------------------------------------------------------------------------
Init ==
  /\ TokenizerInit
  /\ line \in Lines
  /\ pc = "start"
  /\ bg = FALSE
  /\ pieces = <<>>
  /\ pipeline = <<>>
  /\ tokens = <<>>
  /\ i = 1
  /\ redirects = <<>>
  /\ heap = [o \in {} |-> 0]
  /\ ran = "nothing"
  /\ result = "none"

\* The line is trimmed and the '&' cut off.  On an empty line buff[-1] is
\* read, which may hold anything, and a '&' there would be overwritten.
CutLine ==
  /\ pc = "start"
  /\ LET trimmed == TrimEnd(TrimFront(line)) IN
     \E background \in IF trimmed = <<>> THEN BOOLEAN ELSE {Last(trimmed) = "&"} :
       /\ bg' = background
       /\ Call(IF background /\ trimmed # <<>> THEN Front(trimmed) ELSE trimmed, {"|"}, TRUE)
  /\ pc' = "split"
  /\ UNCHANGED <<line, pieces, pipeline, tokens, i, redirects, heap, ran, result>>

SplitLine ==
  /\ pc = "split"
  /\ Answered
  /\ pieces' = Result
  /\ IF Result = <<>>
     THEN /\ Return(IF bg THEN "PR_SYNTAX_ERROR" ELSE "PR_OK")
          /\ UNCHANGED heap
     ELSE /\ pc' = "piece"
          /\ heap' = Heap({<<"pieces">>, <<"job">>}, {})
          /\ UNCHANGED result
  /\ UNCHANGED <<tokenizerVars, line, bg, pipeline, tokens, i, redirects, ran>>

\* parse_process up to its loop.  Without a token (a blank piece, or too many
\* tokens) the whole line is dropped, and that is no error.
BeginProcess ==
  /\ pc = "piece"
  /\ Number <= Len(pieces)
  /\ Call(pieces[Number], Whitespace, FALSE)
  /\ pc' = "words"
  /\ UNCHANGED <<line, bg, pieces, pipeline, tokens, i, redirects, heap, ran, result>>

SplitPiece ==
  /\ pc = "words"
  /\ Answered
  /\ tokens' = Result
  /\ i' = 1
  /\ redirects' = <<>>
  /\ IF Result = <<>>
     THEN /\ Return("PR_OK")
          /\ heap' = Heap({}, JobObjects)
     ELSE /\ pc' = "tokens"
          /\ heap' = Heap({<<"process", Number>>, <<"tokens", Number>>}, {})
          /\ UNCHANGED result
  /\ UNCHANGED <<tokenizerVars, line, bg, pieces, pipeline, ran>>

Token == tokens[i]
InTokens == pc = "tokens" /\ i <= Len(tokens)

\* An argument, in front of the redirects.
Argument ==
  /\ InTokens
  /\ ~IsRedirect(Token)
  /\ redirects = <<>>
  /\ i' = i + 1
  /\ UNCHANGED <<tokenizerVars, line, pc, bg, pieces, pipeline, tokens, redirects, heap, ran, result>>

\* The check that '<' and '>' are not both there never fails: with a '>' the
\* '<' is not looked for.
BeginRedirect ==
  /\ InTokens
  /\ IsRedirect(Token)
  /\ i > 1
  /\ Call(Token, {IF Out(Token) THEN ">" ELSE "<"}, TRUE)
  /\ pc' = "sides"
  /\ UNCHANGED <<line, bg, pieces, pipeline, tokens, i, redirects, heap, ran, result>>

AddRedirect ==
  /\ pc = "sides"
  /\ Answered
  /\ SidesOk
  /\ redirects' = Append(redirects, Redirect(Result[1], Result[2], Out(Token)))
  /\ heap' = Heap({<<"redirect", Number, Len(redirects')>>}, {})
  /\ i' = i + 1
  /\ pc' = "tokens"
  /\ UNCHANGED <<tokenizerVars, line, bg, pieces, pipeline, tokens, ran, result>>

\* The process is given up and with it the job: a redirect in the place of
\* the command, one that is not accepted, an argument behind a redirect.
BadToken ==
  \/ InTokens /\ IsRedirect(Token) /\ i = 1
  \/ InTokens /\ ~IsRedirect(Token) /\ redirects # <<>>
  \/ pc = "sides" /\ Answered /\ ~SidesOk

\* Mutant: the process that is not in the job yet is not destroyed.
ErrorProcess_leaks ==
  /\ BadToken
  /\ heap' = Heap({}, JobObjects)
  /\ Return("PR_SYNTAX_ERROR")
  /\ UNCHANGED <<tokenizerVars, line, bg, pieces, pipeline, tokens, i, redirects, ran>>

ErrorProcess ==
  /\ BadToken
  /\ heap' = Heap({}, JobObjects \cup ProcessObjects(Number, Len(redirects)))
  /\ Return("PR_SYNTAX_ERROR")
  /\ UNCHANGED <<tokenizerVars, line, bg, pieces, pipeline, tokens, i, redirects, ran>>

\* The process joins the pipeline.  The first redirect put a NULL behind the
\* arguments and is where argc was taken.
EndProcess_argc ==
  /\ pc = "tokens"
  /\ i > Len(tokens)
  /\ pipeline' = Append(pipeline,
       [arguments |-> tokens,
        redirects |-> redirects])
  /\ pc' = "piece"
  /\ UNCHANGED <<tokenizerVars, line, bg, pieces, tokens, i, redirects, heap, ran, result>>

EndProcess ==
  /\ pc = "tokens"
  /\ i > Len(tokens)
  /\ pipeline' = Append(pipeline,
       [arguments |-> SubSeq(tokens, 1, Len(tokens) - Len(redirects)),
        redirects |-> redirects])
  /\ pc' = "piece"
  /\ UNCHANGED <<tokenizerVars, line, bg, pieces, tokens, i, redirects, heap, ran, result>>

IsBuiltin == pipeline[1].arguments[1] \in Builtins
AllParsed_early == pc = "piece" /\ Number >= Len(pieces) /\ pipeline # <<>>
AllParsed == pc = "piece" /\ Number > Len(pieces)

\* A builtin is refused in a pipeline.
BuiltinInPipeline ==
  /\ AllParsed
  /\ IsBuiltin
  /\ Len(pipeline) > 1
  /\ heap' = Heap({}, JobObjects)
  /\ Return("PR_SYNTAX_ERROR")
  /\ UNCHANGED <<tokenizerVars, line, bg, pieces, pipeline, tokens, i, redirects, ran>>

\* It runs in the shell, whatever bg and its redirects say.
RunBuiltin ==
  /\ AllParsed
  /\ IsBuiltin
  /\ Len(pipeline) = 1
  /\ ran' = "builtin"
  /\ heap' = Heap({}, JobObjects)
  /\ \E r \in {"PR_OK", "PR_EXIT", "PR_SYNTAX_ERROR", "PR_ERROR_ERRNO", "PR_OTHER_ERROR"} :
       Return(r)
  /\ UNCHANGED <<tokenizerVars, line, bg, pieces, pipeline, tokens, i, redirects>>

\* start_job(job): from here on the job is that of JobControl.
StartJob ==
  /\ AllParsed
  /\ ~IsBuiltin
  /\ ran' = "job"
  /\ Return("PR_OK")
  /\ UNCHANGED <<tokenizerVars, line, bg, pieces, pipeline, tokens, i, redirects, heap>>

\* A turn of the loop of parse_tokens, or its end.
Tokenize == (Turn \/ End) /\ UNCHANGED parserVars

Next ==
  \/ CutLine \/ SplitLine \/ BeginProcess \/ SplitPiece
  \/ Argument \/ BeginRedirect \/ AddRedirect \/ ErrorProcess \/ EndProcess
  \/ BuiltinInPipeline \/ RunBuiltin \/ StartJob
  \/ Tokenize

Spec == Init /\ [][Next]_vars

-----------------------------------------------------------------------------
Word(w) == w \in Seq(Character) /\ w # <<>>

TypeOK ==
  /\ pc \in {"start", "split", "piece", "words", "tokens", "sides", "returned"}
  /\ bg \in BOOLEAN
  /\ i \in 1..MAX_ARGS
  /\ \A n \in DOMAIN tokens : Word(tokens[n])
  /\ \A n \in DOMAIN pipeline :
       /\ Len(pipeline[n].arguments) \in 1..(MAX_ARGS - 1)
       /\ \A k \in DOMAIN pipeline[n].redirects : Word(pipeline[n].redirects[k].right)
  /\ ran \in {"nothing", "builtin", "job"}
  /\ (result = "none") = (pc # "returned")

Live == {o \in DOMAIN heap : heap[o] = 0}

\* Whatever the parser calls it with, parse_tokens returns the pieces of the
\* string between the delimiters that are not escaped, with the escapes
\* resolved; NULL comes back exactly when there are MAX_ARGS of them or more.
Splits ==
  pc \in {"split", "words", "sides"} =>
    LET expected == Split(command, delimeters, allow_empty)
    IN  /\ returned = "tokens" => Result = expected
        /\ returned # "running" => (returned = "tokens" <=> Len(expected) < MAX_ARGS)

\* Every object is freed once, on each of the ways out of a half built job
\* (parser.c:246, :286, :291, :308): nothing twice, and when the line is done all
\* that is left is a job that was started and the list of the pieces, which
\* no way out frees.
FreedOnce ==
  /\ \A o \in DOMAIN heap : heap[o] <= 1
  /\ pc = "returned" =>
       Live = IF ran = "job" THEN JobObjects \cup {<<"pieces">>}
              ELSE DOMAIN heap \cap {<<"pieces">>}

\* A line runs as a whole or not at all: what was started are all the pieces
\* between the pipes, none of them blank, each with a command of its own and no
\* redirect left among the arguments.  The variables keep their types.
WholeLine ==
  /\ TypeOK
  /\ ran # "nothing" =>
       /\ Len(pipeline) = Len(pieces)
       /\ \A n \in DOMAIN pieces :
            \E k \in DOMAIN pieces[n] : pieces[n][k] \notin Whitespace
       /\ \A n \in DOMAIN pipeline : \A k \in DOMAIN pipeline[n].arguments :
            ~IsRedirect(pipeline[n].arguments[k])

=============================================================================
