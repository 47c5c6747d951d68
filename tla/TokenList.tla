------------------------------ MODULE TokenList ------------------------------
(***************************************************************************)
(* What parse_tokens of src/lsh/parser.c returns, said without its loop:   *)
(* the pieces of a command between the delimiters that no backslash        *)
(* escapes, each with the escaping backslashes taken out.  A string is a   *)
(* sequence of characters without its terminating NUL.                     *)
(***************************************************************************)
EXTENDS Integers, Sequences, FiniteSets

Backslash == "\\"

\* The backslashes that end right before position i: an odd number escapes i.
Escaped(s, i) ==
  Cardinality({j \in 1..(i - 1) : \A k \in j..(i - 1) : s[k] = Backslash}) % 2 = 1

\* A delimiter that is not escaped separates two segments.
Break(s, delimeters, i) == s[i] \in delimeters /\ ~Escaped(s, i)

\* The numbers of a finite set in order: the n-th is above n - 1 of them.
InOrder(numbers) ==
  [n \in 1..Cardinality(numbers) |->
     CHOOSE x \in numbers : Cardinality({y \in numbers : y < x}) = n - 1]

\* All the segments, the empty ones included.
Segments(s, delimeters) ==
  LET breaks == {k \in DOMAIN s : Break(s, delimeters, k)}
      ends == InOrder({0, Len(s) + 1} \cup breaks)
  IN  [k \in 1..(Len(ends) - 1) |-> SubSeq(s, ends[k] + 1, ends[k + 1] - 1)]

\* An escaping backslash goes when it stands before a backslash or a
\* delimiter, and stays before any other character and at the end.
Unescaped(s, delimeters) ==
  LET gone == {k \in 1..(Len(s) - 1) : /\ s[k] = Backslash
                                       /\ ~Escaped(s, k)
                                       /\ s[k + 1] \in delimeters \cup {Backslash}}
      kept == InOrder(DOMAIN s \ gone)
  IN  [k \in DOMAIN kept |-> s[kept[k]]]

\* The strings of the segments that count; an empty one may not.
Strung(segments, delimeters, allow_empty) ==
  LET kept == InOrder({k \in DOMAIN segments : allow_empty \/ segments[k] # <<>>})
  IN  [k \in DOMAIN kept |-> Unescaped(segments[kept[k]], delimeters)]

\* The strings of parse_tokens(command, .., delimeters, allow_empty).
Split(command, delimeters, allow_empty) ==
  Strung(Segments(command, delimeters), delimeters, allow_empty)

=============================================================================
