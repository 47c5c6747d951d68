------------------------------ MODULE MCParser ------------------------------
(***************************************************************************)
(* The lines the parser is given, in three parts: every line of a few      *)
(* characters; some longer ones; and jobs written as lines with the        *)
(* backslashes they need, which must be read back as they were.  A string  *)
(* passes parse_tokens two times as an argument (pipes, blanks) and three  *)
(* times as the name in a redirect (pipes, blanks, '>' or '<'), and every  *)
(* pass takes a level of backslashes away.                                 *)
(***************************************************************************)
EXTENDS Parser

CONSTANTS
  MaxLen,       \* the longest of the lines that are enumerated
  MaxEscaped    \* the longest line of escapes alone

Chars(text) == [k \in 1..Len(text) |-> SubSeq(text, k, k)]

MCCharacter == {"a", "b", "c", "d", "e", "f", "g", "h", "i", "k", "l", "n", "o", "p", "r",
                "\t", "\n", "\r", "t", "u", "v", "w", "x", "/", ".", "-", " ", "|", "&", ">", "<", "\\",
                "0", "1", "2", "3"}

MCBuiltins == {<<"b">>}

\* Lines with what the short ones have no room for: a bad token after good
\* processes and redirects, too many pieces or tokens, two blanks behind '&'.
Longer == {"a >a|a 2>a <", "a >a <1 a", "a|a >a >&", "a >&1 1>a|a", "a|a|a|a|a", "a|a|a|a|a&", "a|a|a|a|",
           "||||||", "a|||||", "a a a a a|a", "a a a a a", "a|a a a a a", "a a >a <a", "a|b",
           "a 2>a<a", "a >>>>>a", "a a& ", "a a&  ", "  a&"}

Short == BoundedSeq({"a", "b", " ", "|", "&", ">", "<", "\\", "1"}, MaxLen)
           \cup BoundedSeq({"a", "\\", "|", " "}, MaxEscaped)

-----------------------------------------------------------------------------
(* Writing a job as a line *)

Concat(strings) == FoldLeft(LAMBDA s, t : s \o t, <<>>, strings)

\* A string in front of one call of parse_tokens that is to return it whole.
Protected(s, set) ==
  Concat([k \in DOMAIN s |-> IF s[k] \in set \cup {Backslash}
                             THEN <<Backslash, s[k]>> ELSE <<s[k]>>])

Argument2(s) == Protected(Protected(s, Whitespace), {"|"})
Name3(s, is_out) == Argument2(Protected(s, {IF is_out THEN ">" ELSE "<"}))

Written(redirect) ==
  LET sign == IF redirect.is_out THEN <<">">> ELSE <<"<">>
      left == IF redirect.left_fd = (IF redirect.is_out THEN 1 ELSE 0)
              THEN <<>> ELSE Chars(ToString(redirect.left_fd))
  IN  left \o sign \o (IF redirect.right_fd # -1 THEN redirect.right
                       ELSE Name3(redirect.right, redirect.is_out))

WrittenProcess(process) ==
  Concat([k \in DOMAIN process.arguments |-> Argument2(process.arguments[k]) \o <<" ">>])
    \o Concat([k \in DOMAIN process.redirects |-> Written(process.redirects[k]) \o <<" ">>])

\* The tab in front tells these lines from all others.
WrittenJob(processes, background) ==
  <<"\t">> \o Concat([k \in DOMAIN processes |->
            (IF k > 1 THEN <<"|", " ">> ELSE <<>>) \o WrittenProcess(processes[k])])
    \o (IF background THEN <<"&", " ">> ELSE <<>>)

\* An argument with a '<' or '>' and one in last place that ends in '&'
\* cannot be written at all.
Arguments == {Chars("a"), Chars("&b |"), <<Backslash, "|">>}
Names == {Chars("f"), <<Backslash, ">">>, <<" ", Backslash, Backslash>>}

Files ==
  [is_out : {TRUE}, left_fd : {1, 2}, right : Names, right_fd : {-1}]
    \cup [is_out : {FALSE}, left_fd : {0}, right : {n \in Names : ~Contains(n, ">")}, right_fd : {-1}]
    \cup [is_out : {TRUE}, left_fd : {2}, right : {Chars("&1")}, right_fd : {1}]

Processes ==
  [arguments : BoundedSeq(Arguments, 2) \ {<<>>}, redirects : BoundedSeq(Files, 1)]
    \cup [arguments : {<<a>> : a \in Arguments}, redirects : Files \X Files]

Small == {p \in Processes : Len(p.arguments) = 1 /\ Len(p.redirects) < 2}

Jobs == {<<p>> : p \in Processes} \cup Small \X Small

WrittenLines ==
  {WrittenJob(processes, background) : processes \in Jobs, background \in BOOLEAN}

\* The two lines quoted in main.c:187-188 and the jobs they stand for: the
\* arguments, and the descriptors on both sides of each redirect, -1 for a file.
Examples ==
  {[line |-> Chars("find / 2>/dev/null | wc -l & "), bg |-> TRUE,
    arguments |-> <<<<"find", "/">>, <<"wc", "-l">>>>,
    redirects |-> <<<<<<2, -1>>>>, <<>>>>],
   [line |-> Chars("cat aa 2>&1 >file.txt| grep -v wow\\ 123 | xd >/dev/null"), bg |-> FALSE,
    arguments |-> <<<<"cat", "aa">>, <<"grep", "-v", "wow 123">>, <<"xd">>>>,
    redirects |-> <<<<<<2, 1>>, <<1, -1>>>>, <<>>, <<<<1, -1>>>>>>]}

MCLines == Short \cup {Chars(text) : text \in Longer} \cup WrittenLines \cup {e.line : e \in Examples}

-----------------------------------------------------------------------------
\* interpret_line reads every job back from the line that was written for it
\* (writing is one to one, so it is enough that what was read gives the same
\* line), and the two lines in the comment of main.c as the jobs they show.
ReadsBack ==
  pc = "returned" =>
    /\ line # <<>> /\ Head(line) = "\t" => ran = "job" /\ WrittenJob(pipeline, bg) = line
    /\ \A e \in Examples : e.line = line =>
         /\ ran = "job" /\ bg = e.bg
         /\ [n \in DOMAIN pipeline |-> pipeline[n].arguments]
              = [n \in DOMAIN e.arguments |->
                   [k \in DOMAIN e.arguments[n] |-> Chars(e.arguments[n][k])]]
         /\ [n \in DOMAIN pipeline |->
               [k \in DOMAIN pipeline[n].redirects |->
                  <<pipeline[n].redirects[k].left_fd, pipeline[n].redirects[k].right_fd>>]]
              = e.redirects
=============================================================================
