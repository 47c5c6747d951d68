----------------------------- MODULE ParserProofs -----------------------------
(***************************************************************************)
(* Proofs about parse_tokens (Tokenizer) and interpret_line (Parser), for   *)
(* every line, every set of builtins and every MAX_ARGS.  parse_tokens is   *)
(* taken first and alone: its bounds, with any caller.  Then what it leaves *)
(* in its buffer, as strings; that the parser is such a caller; and with    *)
(* that ParserInv: what a job that is half built holds, in the pipeline and *)
(* on the heap, at each place of interpret_line.  The second half is Splits: *)
(* how Split (TokenList) grows with each character of a command, and that   *)
(* the turns of the loop of parse_tokens keep up with it (Follows).         *)
(***************************************************************************)
EXTENDS Parser, FiniteSetTheorems, SequenceTheorems, WellFoundedInduction, TLAPS

-----------------------------------------------------------------------------
(* A backslash is only held back inside a token.                           *)
HeldInToken == escaped => ~add_arg

(* Below MAX_ARGS in front of each place where the limit decides.          *)
BelowLimit ==
  /\ returned = "running" /\ (~add_arg \/ ~allow_empty) => Len(arguments) < MAX_ARGS
  /\ ~allow_empty => Len(arguments) <= MAX_ARGS
  /\ returned = "tokens" => Len(arguments) < MAX_ARGS

(* Where tokens begin: a token that still is open may have no byte yet.    *)
Offsets ==
  /\ \A k \in 1..Len(arguments) : arguments[k] <= Len(buffer)
  /\ \A k \in 2..Len(arguments) : arguments[k - 1] < arguments[k]
  /\ returned = "tokens" \/ add_arg =>
       \A k \in 1..Len(arguments) : arguments[k] < Len(buffer)

TokenizerInv == TokenizerTypeOK /\ HeldInToken /\ BufferFits /\ BelowLimit /\ Offsets

(* What a step may store: an offset behind the ones before it.             *)
LEMMA AppendOffset ==
  ASSUME NEW args \in Seq(Nat), NEW n \in Nat,
         \A k \in 1..Len(args) : args[k] < n,
         \A k \in 2..Len(args) : args[k - 1] < args[k]
  PROVE  LET new == Append(args, n)
         IN  /\ new \in Seq(Nat)
             /\ Len(new) = Len(args) + 1
             /\ \A k \in 1..Len(new) : new[k] <= n
             /\ \A k \in 2..Len(new) : new[k - 1] < new[k]
<1> DEFINE new == Append(args, n)
<1>1. new \in Seq(Nat) /\ Len(new) = Len(args) + 1 /\ Len(args) \in Nat
  OBVIOUS
<1>2. /\ new[Len(args) + 1] = n
      /\ \A k \in 1..Len(args) : new[k] = args[k]
  OBVIOUS
<1>3. \A k \in 1..Len(args) : args[k] \in Nat
  OBVIOUS
<1> HIDE DEF new
<1>4. \A k \in 1..Len(new) : new[k] <= n
  BY <1>1, <1>2, <1>3
<1>5. ASSUME NEW k \in 2..Len(new)
      PROVE  new[k - 1] < new[k]
  <2>1. CASE k = Len(args) + 1
    <3>1. new[k] = n /\ k - 1 \in 1..Len(args) /\ new[k - 1] = args[k - 1]
      BY <2>1, <1>1, <1>2
    <3> QED BY <3>1
  <2>2. CASE k \in 2..Len(args)
    <3>1. k \in 1..Len(args) /\ k - 1 \in 1..Len(args)
      BY <2>2, <1>1
    <3>2. new[k] = args[k] /\ new[k - 1] = args[k - 1]
      BY <3>1, <1>2
    <3> QED BY <3>2, <2>2
  <2> QED BY <2>1, <2>2, <1>1
<1> QED BY <1>1, <1>4, <1>5 DEF new

LEMMA InitInv == TokenizerInit => TokenizerInv
<1> SUFFICES ASSUME TokenizerInit PROVE TokenizerInv
  OBVIOUS
<1>1. /\ Len(command) = 0 /\ command \in Seq(Character)
      /\ Len(arguments) = 0 /\ arguments \in Seq(Nat)
      /\ Len(buffer) = 0 /\ buffer \in Seq(Character \cup {Nul})
  BY DEF TokenizerInit
<1>2. TokenizerTypeOK
  <2>1. current \in 1..(Len(command) + 1) /\ delimeters \in SUBSET (Character \ {Backslash})
    BY <1>1 DEF TokenizerInit
  <2>2. /\ allow_empty \in BOOLEAN /\ escaped \in BOOLEAN /\ add_arg \in BOOLEAN
        /\ returned \in {"running", "tokens", "null", "crashed"}
    BY DEF TokenizerInit
  <2> QED BY <1>1, <2>1, <2>2 DEF TokenizerTypeOK
<1>3. HeldInToken /\ BufferFits
  BY <1>1 DEF TokenizerInit, HeldInToken, BufferFits
<1>4. BelowLimit /\ Offsets
  BY <1>1, MaxArgsAssumption DEF TokenizerInit, BelowLimit, Offsets
<1> QED BY <1>2, <1>3, <1>4 DEF TokenizerInv

(* A call may come in any state that is left behind.                       *)
LEMMA CallInv ==
  ASSUME NEW string \in Seq(Character), NEW set \in SUBSET (Character \ {Backslash}),
         NEW empty \in BOOLEAN, Call(string, set, empty)
  PROVE  TokenizerInv'
<1>1. /\ Len(command') \in Nat /\ command' \in Seq(Character)
      /\ Len(arguments') = 0 /\ arguments' \in Seq(Nat)
      /\ Len(buffer') = 0 /\ buffer' \in Seq(Character \cup {Nul})
  BY DEF Call
<1>2. TokenizerTypeOK'
  <2>1. current' \in 1..(Len(command') + 1)
    BY <1>1 DEF Call
  <2> QED BY <1>1, <2>1 DEF Call, TokenizerTypeOK
<1>3. HeldInToken' /\ BufferFits'
  BY <1>1 DEF Call, HeldInToken, BufferFits
<1>4. BelowLimit' /\ Offsets'
  BY <1>1, MaxArgsAssumption DEF Call, BelowLimit, Offsets
<1> QED BY <1>2, <1>3, <1>4 DEF TokenizerInv

LEMMA EndSegmentInv == TokenizerInv /\ EndSegment => TokenizerInv'
<1> SUFFICES ASSUME TokenizerInv, EndSegment PROVE TokenizerInv'
  OBVIOUS
<1> USE DEF TokenizerInv, call, EndSegment, More, AtBreak
<1>1. /\ Len(command) \in Nat /\ Len(buffer) \in Nat /\ Len(arguments) \in Nat
      /\ buffer \in Seq(Character \cup {Nul}) /\ arguments \in Seq(Nat)
      /\ Len(buffer') \in {Len(buffer), Len(buffer) + 1}
      /\ buffer' \in Seq(Character \cup {Nul})
      /\ allow_empty \/ ~add_arg => Len(buffer') = Len(buffer) + 1
  BY DEF TokenizerTypeOK
<1>2. CASE allow_empty /\ add_arg
  <2>1. arguments' = Append(arguments, Len(buffer))
    BY <1>2
  <2>2. /\ arguments' \in Seq(Nat)
        /\ Len(arguments') = Len(arguments) + 1
        /\ \A k \in 1..Len(arguments') : arguments'[k] <= Len(buffer)
        /\ \A k \in 2..Len(arguments') : arguments'[k - 1] < arguments'[k]
    BY <2>1, <1>1, <1>2, AppendOffset DEF Offsets
  <2>3. \A k \in 1..Len(arguments') : arguments'[k] \in Nat
    BY <2>2
  <2>4. TokenizerTypeOK' /\ HeldInToken' /\ BufferFits' /\ BelowLimit'
    BY <2>2, <1>1, <1>2 DEF TokenizerTypeOK, HeldInToken, BufferFits, BelowLimit
  <2>5. Offsets'
    BY <2>2, <2>3, <1>1, <1>2 DEF Offsets
  <2> QED BY <2>4, <2>5
<1>3. CASE ~(allow_empty /\ add_arg)
  <2>1. UNCHANGED arguments /\ \A k \in 1..Len(arguments) : arguments[k] \in Nat
    BY <1>1, <1>3
  <2>2. TokenizerTypeOK' /\ HeldInToken' /\ BufferFits'
    BY <2>1, <1>1, <1>3 DEF TokenizerTypeOK, HeldInToken, BufferFits
  <2>3. BelowLimit'
    BY <2>1, <1>1, <1>3 DEF BelowLimit
  <2>4. Offsets'
    BY <2>1, <1>1, <1>3 DEF Offsets
  <2> QED BY <2>2, <2>3, <2>4
<1> QED BY <1>2, <1>3

LEMMA TooManyInv == TokenizerInv /\ TooMany => TokenizerInv'
<1> SUFFICES ASSUME TokenizerInv, TooMany PROVE TokenizerInv'
  OBVIOUS
<1> USE DEF TokenizerInv, call, TooMany, More
<1>1. /\ Len(command) \in Nat /\ Len(buffer) \in Nat /\ Len(arguments) \in Nat
      /\ arguments \in Seq(Nat)
  BY DEF TokenizerTypeOK
<1>2. /\ arguments' \in Seq(Nat)
      /\ Len(arguments') = Len(arguments) + 1
      /\ \A k \in 1..Len(arguments') : arguments'[k] <= Len(buffer)
      /\ \A k \in 2..Len(arguments') : arguments'[k - 1] < arguments'[k]
  BY <1>1, AppendOffset DEF Offsets
<1>3. returned' \in {"null", "crashed"}
  BY DEF Refused
<1>4. escaped' = FALSE
  BY DEF HeldInToken
<1>5. TokenizerTypeOK' /\ HeldInToken' /\ BufferFits'
  BY <1>1, <1>2, <1>3, <1>4 DEF TokenizerTypeOK, HeldInToken, BufferFits
<1>6. BelowLimit'
  BY <1>1, <1>2, <1>3, MaxArgsAssumption DEF BelowLimit
<1>7. Offsets'
  BY <1>1, <1>2, <1>3 DEF Offsets
<1> QED BY <1>5, <1>6, <1>7

LEMMA ReadInv == TokenizerInv /\ Read => TokenizerInv'
<1> SUFFICES ASSUME TokenizerInv, Read PROVE TokenizerInv'
  OBVIOUS
<1> USE DEF TokenizerInv, call, Read, More
<1>1. /\ Len(command) \in Nat /\ Len(buffer) \in Nat /\ Len(arguments) \in Nat
      /\ arguments \in Seq(Nat) /\ current \in 1..Len(command)
      /\ buffer \in Seq(Character \cup {Nul}) /\ escaped \in BOOLEAN
  BY DEF TokenizerTypeOK
<1>2. Here \in Character
  BY <1>1 DEF TokenizerTypeOK, Here
<1>3. /\ buffer' \in Seq(Character \cup {Nul})
      /\ escaped' \in BOOLEAN
      /\ Len(buffer') \in Nat
      /\ Len(buffer') >= Len(buffer)
      /\ Len(buffer') + (IF escaped' THEN 1 ELSE 0)
           <= Len(buffer) + (IF escaped THEN 1 ELSE 0) + 1
  <2>1. CASE Hold
    BY <2>1, <1>1 DEF Hold
  <2>2. CASE Put
    <3>1. Backslash \in Character
      BY CharacterAssumption
    <3>2. CASE escaped /\ Here \notin delimeters \cup {Backslash}
      <4>1. buffer' = buffer \o <<Backslash, Here>> /\ escaped' = FALSE
        BY <2>2, <3>2 DEF Put
      <4>2. <<Backslash, Here>> \in Seq(Character \cup {Nul})
        BY <3>1, <1>2
      <4>3. /\ buffer' \in Seq(Character \cup {Nul})
            /\ Len(buffer') = Len(buffer) + 2
        BY <4>1, <4>2, <1>1
      <4>4. (IF escaped' THEN 1 ELSE 0) = 0 /\ (IF escaped THEN 1 ELSE 0) = 1
        BY <4>1, <3>2
      <4>5. escaped' \in BOOLEAN
        BY <4>1
      <4> QED BY <4>3, <4>4, <4>5, <1>1
    <3>3. CASE ~(escaped /\ Here \notin delimeters \cup {Backslash})
      <4>1. buffer' = Append(buffer, Here) /\ escaped' = FALSE
        BY <2>2, <3>3 DEF Put
      <4>2. /\ buffer' \in Seq(Character \cup {Nul})
            /\ Len(buffer') = Len(buffer) + 1
        BY <4>1, <1>1, <1>2
      <4>3. (IF escaped' THEN 1 ELSE 0) = 0 /\ (IF escaped THEN 1 ELSE 0) \in {0, 1}
        BY <4>1
      <4>4. escaped' \in BOOLEAN
        BY <4>1
      <4> QED BY <4>2, <4>3, <4>4, <1>1
    <3> QED BY <3>2, <3>3
  <2> QED BY <2>1, <2>2
<1>4. /\ arguments' \in Seq(Nat)
      /\ Len(arguments') \in Nat
      /\ Len(arguments') < MAX_ARGS
      /\ \A k \in 1..Len(arguments') : arguments'[k] <= Len(buffer)
      /\ \A k \in 2..Len(arguments') : arguments'[k - 1] < arguments'[k]
  <2>1. CASE add_arg
    <3>1. arguments' = Append(arguments, Len(buffer)) /\ ~Full(Len(arguments) + 1)
      BY <2>1
    <3>2. /\ arguments' \in Seq(Nat)
          /\ Len(arguments') = Len(arguments) + 1
          /\ \A k \in 1..Len(arguments') : arguments'[k] <= Len(buffer)
          /\ \A k \in 2..Len(arguments') : arguments'[k - 1] < arguments'[k]
      BY <3>1, <2>1, <1>1, AppendOffset DEF Offsets
    <3> QED BY <3>1, <3>2, <1>1, MaxArgsAssumption DEF Full
  <2>2. CASE ~add_arg
    <3>1. arguments' = arguments
      BY <2>2
    <3> QED BY <3>1, <2>2, <1>1 DEF Offsets, BelowLimit
  <2> QED BY <2>1, <2>2 DEF TokenizerTypeOK
<1>5. /\ TokenizerTypeOK' /\ HeldInToken'
  <2>1. current' \in 1..(Len(command') + 1)
    BY <1>1
  <2>2. /\ command' \in Seq(Character) /\ allow_empty' \in BOOLEAN
        /\ add_arg' = FALSE
        /\ returned' \in {"running", "tokens", "null", "crashed"}
    BY DEF TokenizerTypeOK
  <2> QED BY <2>1, <2>2, <1>3, <1>4 DEF TokenizerTypeOK, HeldInToken
<1>6. BufferFits'
  BY <1>1, <1>3 DEF BufferFits
<1>7. BelowLimit'
  BY <1>4, MaxArgsAssumption DEF BelowLimit
<1>8. Offsets'
  <2>1. \A k \in 1..Len(arguments') : arguments'[k] \in Nat
    BY <1>4
  <2> QED BY <1>1, <1>3, <1>4, <2>1 DEF Offsets
<1> QED BY <1>5, <1>6, <1>7, <1>8

LEMMA EndEscapedInv == TokenizerInv /\ EndEscaped => TokenizerInv'
<1> SUFFICES ASSUME TokenizerInv, EndEscaped PROVE TokenizerInv'
  OBVIOUS
<1> USE DEF TokenizerInv, call, EndEscaped, AtEnd
<1>1. /\ Len(command) \in Nat /\ Len(buffer) \in Nat /\ Len(arguments) \in Nat
      /\ \A k \in 1..Len(arguments) : arguments[k] \in Nat
  BY DEF TokenizerTypeOK
<1>2. /\ buffer' \in Seq(Character \cup {Nul})
      /\ Len(buffer') = Len(buffer) + 2
  <2>1. <<Backslash, Nul>> \in Seq(Character \cup {Nul})
    BY CharacterAssumption
  <2> QED BY <2>1 DEF TokenizerTypeOK
<1>3. TokenizerTypeOK' /\ HeldInToken'
  BY <1>2 DEF TokenizerTypeOK, HeldInToken
<1>4. BufferFits'
  BY <1>1, <1>2 DEF BufferFits, TokenizerTypeOK
<1>5. BelowLimit'
  BY DEF BelowLimit, HeldInToken
<1>6. Offsets'
  BY <1>1, <1>2 DEF Offsets
<1> QED BY <1>3, <1>4, <1>5, <1>6

LEMMA EndEmptyInv == TokenizerInv /\ EndEmpty => TokenizerInv'
<1> SUFFICES ASSUME TokenizerInv, EndEmpty PROVE TokenizerInv'
  OBVIOUS
<1> USE DEF TokenizerInv, call, EndEmpty, AtEnd
<1>1. /\ Len(command) \in Nat /\ Len(buffer) \in Nat /\ Len(arguments) \in Nat
      /\ arguments \in Seq(Nat)
      /\ buffer' \in Seq(Character \cup {Nul})
      /\ Len(buffer') = Len(buffer) + 1
  BY DEF TokenizerTypeOK
<1>2. /\ arguments' \in Seq(Nat)
      /\ Len(arguments') = Len(arguments) + 1
      /\ \A k \in 1..Len(arguments') : arguments'[k] <= Len(buffer)
      /\ \A k \in 2..Len(arguments') : arguments'[k - 1] < arguments'[k]
  BY <1>1, AppendOffset DEF Offsets
<1>3. /\ returned' \in {"tokens", "null", "crashed"}
      /\ returned' = "tokens" => Len(arguments') < MAX_ARGS
  BY <1>1, <1>2, MaxArgsAssumption DEF Refused, Full
<1>4. TokenizerTypeOK' /\ HeldInToken'
  BY <1>1, <1>2, <1>3 DEF TokenizerTypeOK, HeldInToken
<1>5. BufferFits'
  BY <1>1, <1>3 DEF BufferFits, TokenizerTypeOK
<1>6. BelowLimit'
  BY <1>3 DEF BelowLimit
<1>7. Offsets'
  <2>1. \A k \in 1..Len(arguments') : arguments'[k] \in Nat
    BY <1>2
  <2> QED BY <1>1, <1>2, <2>1 DEF Offsets
<1> QED BY <1>4, <1>5, <1>6, <1>7

LEMMA EndTokenInv == TokenizerInv /\ EndToken => TokenizerInv'
<1> SUFFICES ASSUME TokenizerInv, EndToken PROVE TokenizerInv'
  OBVIOUS
<1> USE DEF TokenizerInv, call, EndToken, AtEnd
<1>1. /\ Len(command) \in Nat /\ Len(buffer) \in Nat /\ Len(arguments) \in Nat
      /\ \A k \in 1..Len(arguments) : arguments[k] \in Nat
      /\ buffer' \in Seq(Character \cup {Nul})
      /\ Len(buffer') = Len(buffer) + 1
  BY DEF TokenizerTypeOK
<1>2. TokenizerTypeOK' /\ HeldInToken'
  BY <1>1 DEF TokenizerTypeOK, HeldInToken
<1>3. BufferFits'
  BY <1>1 DEF BufferFits, TokenizerTypeOK
<1>4. BelowLimit'
  BY DEF BelowLimit
<1>5. Offsets'
  BY <1>1 DEF Offsets
<1> QED BY <1>2, <1>3, <1>4, <1>5

LEMMA TokenizerNextInv == TokenizerInv /\ TokenizerNext => TokenizerInv'
BY CallInv, EndSegmentInv, TooManyInv, ReadInv, EndEscapedInv, EndEmptyInv, EndTokenInv
   DEF TokenizerNext, Turn, End

(* The invariant, for every command.                                       *)
THEOREM TokenizerInvariant == TokenizerSpec => []TokenizerInv
<1>1. TokenizerInv /\ [TokenizerNext]_tokenizerVars => TokenizerInv'
  <2> SUFFICES ASSUME TokenizerInv, [TokenizerNext]_tokenizerVars PROVE TokenizerInv'
    OBVIOUS
  <2>1. CASE UNCHANGED tokenizerVars
    BY <2>1 DEF tokenizerVars, call, TokenizerInv, TokenizerTypeOK, HeldInToken, BufferFits, BelowLimit, Offsets
  <2> QED BY <2>1, TokenizerNextInv
<1> QED BY InitInv, <1>1, PTL DEF TokenizerSpec

(* Whatever calls parse_tokens, with whatever string, delimiters and flag,  *)
(* it writes no byte behind its buffer, no pointer behind its array where  *)
(* empty tokens are dropped, and returns fewer than MAX_ARGS tokens.       *)
THEOREM TokensInBounds == TokenizerSpec => []InBounds
<1>1. TokenizerInv => InBounds
  BY DEF TokenizerInv, BelowLimit, InBounds, ArgsFit, NoLongResult
<1> QED BY <1>1, TokenizerInvariant, PTL

(* The types are part of it.                                               *)
THEOREM TokenizerTypeCorrect == TokenizerSpec => []TokenizerTypeOK
<1>1. TokenizerInv => TokenizerTypeOK
  BY DEF TokenizerInv
<1> QED BY <1>1, TokenizerInvariant, PTL

(* Tokens lie behind each other, inside what was written.                  *)
THEOREM OffsetOrder == TokenizerSpec => []OffsetsGrow
<1>1. TokenizerInv => OffsetsGrow
  BY DEF TokenizerInv, Offsets, OffsetsGrow
<1> QED BY <1>1, TokenizerInvariant, PTL

-----------------------------------------------------------------------------
(* The strings a call returns.  A token that still is open and has no byte  *)
(* yet begins with a backslash that is held back; without allow_empty no   *)
(* token is empty, and there is one only if the command has a character    *)
(* that is no delimiter.                                                   *)
Begun ==
  returned = "running" /\ ~escaped =>
    \A k \in 1..Len(arguments) : arguments[k] < Len(buffer)

FirstBytes ==
  ~allow_empty =>
    \A k \in 1..Len(arguments) : arguments[k] < Len(buffer) => buffer[arguments[k] + 1] # Nul

Terminated == returned = "tokens" => Len(buffer) > 0 /\ buffer[Len(buffer)] = Nul

NotBlank ==
  ~allow_empty /\ Len(arguments) > 0 => \E k \in DOMAIN command : command[k] \notin delimeters

Strings == Begun /\ FirstBytes /\ Terminated /\ NotBlank

(* The first bytes stay what they are when bytes are added.                *)
LEMMA BytesAdded ==
  ASSUME NEW S, NEW b \in Seq(S), NEW t \in Seq(S), NEW a \in Seq(Nat),
         \A k \in 1..Len(a) : a[k] <= Len(b),
         \A k \in 1..Len(a) : a[k] < Len(b) => b[a[k] + 1] # Nul,
         t[1] # Nul \/ \A k \in 1..Len(a) : a[k] < Len(b)
  PROVE  \A k \in 1..Len(a) : a[k] < Len(b \o t) => (b \o t)[a[k] + 1] # Nul
<1> SUFFICES ASSUME NEW k \in 1..Len(a), a[k] < Len(b \o t)
             PROVE  (b \o t)[a[k] + 1] # Nul
  OBVIOUS
<1>1. a[k] \in Nat /\ Len(b) \in Nat /\ Len(t) \in Nat /\ Len(b \o t) = Len(b) + Len(t)
  OBVIOUS
<1>2. CASE a[k] < Len(b)
  <2>1. (b \o t)[a[k] + 1] = b[a[k] + 1]
    BY <1>1, <1>2
  <2> QED BY <2>1, <1>2
<1>3. CASE a[k] = Len(b)
  <2>1. (b \o t)[a[k] + 1] = t[1]
    BY <1>1, <1>3
  <2> QED BY <2>1, <1>3, <1>1
<1> QED BY <1>1, <1>2, <1>3

LEMMA AppendedIsJoined ==
  ASSUME NEW S, NEW b \in Seq(S), NEW x \in S
  PROVE  Append(b, x) = b \o <<x>> /\ <<x>> \in Seq(S) /\ <<x>>[1] = x
OBVIOUS

LEMMA CallStrings ==
  ASSUME NEW string, NEW set, NEW empty, Call(string, set, empty)
  PROVE  Strings'
<1>1. Len(arguments') = 0 /\ returned' = "running"
  BY DEF Call
<1> QED BY <1>1 DEF Strings, Begun, FirstBytes, Terminated, NotBlank

LEMMA EndSegmentStrings == TokenizerInv /\ Strings /\ EndSegment => Strings'
<1> SUFFICES ASSUME TokenizerInv, Strings, EndSegment PROVE Strings'
  OBVIOUS
<1> USE DEF EndSegment, More, AtBreak, call
<1>1. /\ Len(buffer) \in Nat /\ arguments \in Seq(Nat) /\ Len(arguments) \in Nat
      /\ buffer \in Seq(Character \cup {Nul})
      /\ \A k \in 1..Len(arguments) : arguments[k] \in Nat /\ arguments[k] < Len(buffer)
      /\ returned' = "running"
  BY DEF TokenizerInv, TokenizerTypeOK, Strings, Begun
<1>2. NotBlank' /\ Terminated'
  BY DEF Strings, NotBlank, Terminated
<1>3. CASE allow_empty /\ add_arg
  <2>1. arguments' = Append(arguments, Len(buffer)) /\ Len(buffer') = Len(buffer) + 1
    BY <1>1, <1>3
  <2>2. \A k \in 1..Len(arguments') : arguments'[k] <= Len(buffer) /\ arguments'[k] \in Nat
    BY <2>1, <1>1
  <2>3. Begun' /\ FirstBytes'
    BY <2>1, <2>2, <1>1, <1>3 DEF Begun, FirstBytes
  <2> QED BY <1>2, <2>3 DEF Strings
<1>4. CASE ~(allow_empty /\ add_arg)
  <2>1. arguments' = arguments
    BY <1>4
  <2>2. buffer' \in {buffer, buffer \o <<Nul>>}
    <3>1. Nul \in Character \cup {Nul}
      OBVIOUS
    <3>2. Append(buffer, Nul) = buffer \o <<Nul>>
      BY <3>1, <1>1, AppendedIsJoined
    <3> QED BY <3>2
  <2>3. Len(buffer') \in Nat /\ Len(buffer') >= Len(buffer)
    BY <2>2, <1>1
  <2>4. Begun'
    BY <2>1, <2>3, <1>1 DEF Begun
  <2>5. FirstBytes'
    <3>1. CASE buffer' = buffer
      BY <3>1, <2>1 DEF Strings, FirstBytes
    <3>2. CASE buffer' = buffer \o <<Nul>> /\ ~allow_empty
      <4>1. \A k \in 1..Len(arguments) : arguments[k] <= Len(buffer)
        BY <1>1
      <4>2. \A k \in 1..Len(arguments) : arguments[k] < Len(buffer) => buffer[arguments[k] + 1] # Nul
        BY <3>2 DEF Strings, FirstBytes
      <4>3. <<Nul>> \in Seq(Character \cup {Nul})
        OBVIOUS
      <4>4. \A k \in 1..Len(arguments) : arguments[k] < Len(buffer \o <<Nul>>)
                 => (buffer \o <<Nul>>)[arguments[k] + 1] # Nul
        BY <4>1, <4>2, <4>3, <1>1, BytesAdded
      <4> QED BY <4>4, <3>2, <2>1 DEF FirstBytes
    <3> QED BY <2>2, <3>1, <3>2 DEF FirstBytes
  <2> QED BY <1>2, <2>4, <2>5 DEF Strings
<1> QED BY <1>3, <1>4

LEMMA TooManyStrings == TokenizerInv /\ Strings /\ TooMany => Strings'
<1> SUFFICES ASSUME TokenizerInv, Strings, TooMany PROVE Strings'
  OBVIOUS
<1> USE DEF TooMany, More, AtBreak, call
<1>1. /\ Len(buffer) \in Nat /\ arguments \in Seq(Nat) /\ Len(arguments) \in Nat
      /\ command \in Seq(Character) /\ current \in 1..Len(command)
      /\ returned' \in {"null", "crashed"}
  BY DEF TokenizerInv, TokenizerTypeOK, Refused
<1>2. Here \notin delimeters
  BY DEF TokenizerInv, HeldInToken
<1>3. NotBlank'
  BY <1>1, <1>2 DEF NotBlank, Here
<1>4. Begun' /\ Terminated'
  BY <1>1 DEF Begun, Terminated
<1>5. FirstBytes'
  <2>1. /\ Len(arguments') = Len(arguments) + 1
        /\ arguments'[Len(arguments) + 1] = Len(buffer)
        /\ \A k \in 1..Len(arguments) : arguments'[k] = arguments[k]
    BY <1>1
  <2> QED BY <2>1, <1>1 DEF Strings, FirstBytes
<1> QED BY <1>3, <1>4, <1>5 DEF Strings

LEMMA ReadStrings == TokenizerInv /\ Strings /\ Read => Strings'
<1> SUFFICES ASSUME TokenizerInv, Strings, Read PROVE Strings'
  OBVIOUS
<1> USE DEF Read, More, AtBreak, call
<1>1. /\ Len(buffer) \in Nat /\ arguments \in Seq(Nat) /\ Len(arguments) \in Nat
      /\ command \in Seq(Character) /\ current \in 1..Len(command)
      /\ buffer \in Seq(Character \cup {Nul})
      /\ returned' = "running"
  BY DEF TokenizerInv, TokenizerTypeOK
<1>2. Here \in Character /\ Backslash \in Character
  BY <1>1, CharacterAssumption DEF Here
<1>3. NotBlank'
  <2>1. CASE add_arg
    <3>1. Here \notin delimeters
      BY <2>1 DEF TokenizerInv, HeldInToken
    <3> QED BY <1>1, <3>1 DEF NotBlank, Here
  <2>2. CASE ~add_arg
    BY <2>2 DEF Strings, NotBlank
  <2> QED BY <2>1, <2>2 DEF TokenizerInv, TokenizerTypeOK
<1>4. Terminated'
  BY <1>1 DEF Terminated
<1>5. /\ arguments' \in Seq(Nat)
      /\ \A k \in 1..Len(arguments') : arguments'[k] <= Len(buffer) /\ arguments'[k] \in Nat
      /\ ~allow_empty => \A k \in 1..Len(arguments') :
              arguments'[k] < Len(buffer) => buffer[arguments'[k] + 1] # Nul
  <2>1. CASE add_arg
    <3>1. arguments' = Append(arguments, Len(buffer))
      BY <2>1
    <3>2. /\ Len(arguments') = Len(arguments) + 1 /\ arguments' \in Seq(Nat)
          /\ arguments'[Len(arguments) + 1] = Len(buffer)
          /\ \A k \in 1..Len(arguments) : arguments'[k] = arguments[k]
      BY <3>1, <1>1
    <3>3. \A k \in 1..Len(arguments) : arguments[k] <= Len(buffer) /\ arguments[k] \in Nat
      BY <1>1 DEF TokenizerInv, Offsets
    <3> QED BY <3>2, <3>3, <1>1 DEF Strings, FirstBytes
  <2>2. CASE ~add_arg
    <3>1. arguments' = arguments
      BY <2>2
    <3>3. \A k \in 1..Len(arguments) : arguments[k] <= Len(buffer) /\ arguments[k] \in Nat
      BY <1>1 DEF TokenizerInv, Offsets
    <3> QED BY <3>1, <3>3, <1>1 DEF Strings, FirstBytes
  <2> QED BY <2>1, <2>2 DEF TokenizerInv, TokenizerTypeOK
<1>6. CASE Hold
  <2>1. buffer' = buffer /\ escaped' = TRUE
    BY <1>6 DEF Hold
  <2>2. Begun' /\ FirstBytes'
    BY <2>1, <1>5 DEF Begun, FirstBytes
  <2> QED BY <2>2, <1>3, <1>4 DEF Strings
<1>7. CASE Put
  <2>1. PICK t \in Seq(Character \cup {Nul}) : buffer' = buffer \o t /\ Len(t) > 0 /\ t[1] # Nul
    <3>1. CASE escaped /\ Here \notin delimeters \cup {Backslash}
      <4>1. buffer' = buffer \o <<Backslash, Here>>
        BY <3>1, <1>7 DEF Put
      <4>2. /\ <<Backslash, Here>> \in Seq(Character \cup {Nul})
            /\ Len(<<Backslash, Here>>) > 0 /\ <<Backslash, Here>>[1] # Nul
        BY <1>2, NulAssumption
      <4> QED BY <4>1, <4>2
    <3>2. CASE ~(escaped /\ Here \notin delimeters \cup {Backslash})
      <4>1. buffer' = buffer \o <<Here>> /\ <<Here>> \in Seq(Character \cup {Nul}) /\ <<Here>>[1] = Here
        BY <3>2, <1>7, <1>1, <1>2, AppendedIsJoined DEF Put
      <4>2. Len(<<Here>>) > 0 /\ <<Here>>[1] # Nul
        BY <1>2, NulAssumption
      <4> QED BY <4>1, <4>2
    <3> QED BY <3>1, <3>2
  <2>2. Len(t) \in Nat /\ Len(buffer') = Len(buffer) + Len(t)
    BY <2>1, <1>1
  <2>3. Begun'
    BY <2>1, <2>2, <1>1, <1>5 DEF Begun
  <2>4. FirstBytes'
    <3> SUFFICES ASSUME ~allow_empty
                 PROVE  \A k \in 1..Len(arguments') :
                           arguments'[k] < Len(buffer') => buffer'[arguments'[k] + 1] # Nul
      BY DEF FirstBytes
    <3> QED BY <2>1, <1>1, <1>5, BytesAdded
  <2> QED BY <2>3, <2>4, <1>3, <1>4 DEF Strings
<1> QED BY <1>6, <1>7

LEMMA EndStrings == TokenizerInv /\ Strings /\ End => Strings'
<1> SUFFICES ASSUME TokenizerInv, Strings, End PROVE Strings'
  OBVIOUS
<1> USE DEF AtEnd, call
<1>1. /\ Len(buffer) \in Nat /\ arguments \in Seq(Nat) /\ Len(arguments) \in Nat
      /\ buffer \in Seq(Character \cup {Nul})
      /\ \A k \in 1..Len(arguments) : arguments[k] <= Len(buffer) /\ arguments[k] \in Nat
  BY DEF TokenizerInv, TokenizerTypeOK, Offsets
<1>2. NotBlank' /\ Begun'
  <2>1. returned' # "running"
    BY DEF End, EndEscaped, EndEmpty, EndToken, Refused
  <2> QED BY <2>1 DEF Begun, Strings, NotBlank, End, EndEscaped, EndEmpty, EndToken
<1>3. CASE EndEscaped
  <2>1. /\ buffer' = buffer \o <<Backslash, Nul>>
        /\ <<Backslash, Nul>> \in Seq(Character \cup {Nul})
        /\ <<Backslash, Nul>>[1] # Nul
    BY <1>3, CharacterAssumption, NulAssumption DEF EndEscaped
  <2>2. Terminated'
    BY <2>1, <1>1 DEF Terminated
  <2>3. FirstBytes'
    <3> SUFFICES ASSUME ~allow_empty
                 PROVE  \A k \in 1..Len(arguments) :
                           arguments[k] < Len(buffer') => buffer'[arguments[k] + 1] # Nul
      BY <1>3 DEF FirstBytes, EndEscaped
    <3>1. \A k \in 1..Len(arguments) : arguments[k] < Len(buffer) => buffer[arguments[k] + 1] # Nul
      BY DEF Strings, FirstBytes
    <3> QED BY <2>1, <1>1, <3>1, BytesAdded
  <2> QED BY <2>2, <2>3, <1>2 DEF Strings
<1>4. CASE EndEmpty
  <2>1. Terminated'
    BY <1>4, <1>1 DEF Terminated, EndEmpty
  <2>2. FirstBytes'
    BY <1>4 DEF FirstBytes, EndEmpty
  <2> QED BY <2>1, <2>2, <1>2 DEF Strings
<1>5. CASE EndToken
  <2>1. /\ buffer' = buffer \o <<Nul>>
        /\ <<Nul>> \in Seq(Character \cup {Nul})
    BY <1>5, <1>1, AppendedIsJoined DEF EndToken
  <2>2. Terminated'
    BY <2>1, <1>1 DEF Terminated
  <2>3. FirstBytes'
    <3> SUFFICES ASSUME ~allow_empty
                 PROVE  \A k \in 1..Len(arguments) :
                           arguments[k] < Len(buffer') => buffer'[arguments[k] + 1] # Nul
      BY <1>5 DEF FirstBytes, EndToken
    <3>1. \A k \in 1..Len(arguments) : arguments[k] < Len(buffer) => buffer[arguments[k] + 1] # Nul
      BY DEF Strings, FirstBytes
    <3>2. \A k \in 1..Len(arguments) : arguments[k] < Len(buffer)
      BY <1>5 DEF Strings, Begun, EndToken
    <3> QED BY <2>1, <1>1, <3>1, <3>2, BytesAdded
  <2> QED BY <2>2, <2>3, <1>2 DEF Strings
<1> QED BY <1>3, <1>4, <1>5 DEF End

(* The smallest of some numbers.                                           *)
LEMMA LeastNat ==
  ASSUME NEW S \in SUBSET Nat, S # {}
  PROVE  \E x \in S : \A y \in S : x <= y
<1> DEFINE R == OpToRel(<, Nat)
<1>1. \A x, y \in Nat : x < y => <<x, y>> \in R
  BY DEF OpToRel
<1>2. \E x \in S : \A y \in S : ~ (<<y, x>> \in R)
  BY NatLessThanWellFounded, WFMin
<1> HIDE DEF R
<1>3. ASSUME NEW x \in S, NEW y \in S, ~(<<y, x>> \in R) PROVE x <= y
  <2>1. x \in Nat /\ y \in Nat
    OBVIOUS
  <2> QED BY <2>1, <1>1, <1>3
<1> QED BY <1>2, <1>3

LEMMA MinOfNats ==
  ASSUME NEW S \in SUBSET Nat, S # {}
  PROVE  Min(S) \in S /\ \A n \in S : Min(S) <= n
BY LeastNat DEF Min

Words == Seq(Character) \ {<<>>}

(* A sequence of elements of T.                                            *)
LEMMA Narrowed ==
  ASSUME NEW S, NEW T, NEW s \in Seq(S), \A m \in 1..Len(s) : s[m] \in T
  PROVE  s \in Seq(T)
<1>1. Len(s) \in Nat /\ s = [m \in 1..Len(s) |-> s[m]]
  OBVIOUS
<1> QED BY <1>1

(* Every string of a result ends before the first NUL behind its offset;   *)
(* without allow_empty it has a character.                                 *)
LEMMA StringInBuffer ==
  ASSUME TokenizerInv, Strings, returned = "tokens", NEW n \in 1..Len(arguments)
  PROVE  /\ StringAt(arguments[n]) \in Seq(Character)
         /\ ~allow_empty => StringAt(arguments[n]) # <<>>
<1> DEFINE offset == arguments[n]
           nuls == {m \in DOMAIN buffer : m > offset /\ buffer[m] = Nul}
           end == Min(nuls)
<1>1. /\ Len(buffer) \in Nat /\ DOMAIN buffer = 1..Len(buffer)
      /\ buffer \in Seq(Character \cup {Nul})
      /\ offset \in Nat /\ offset < Len(buffer)
      /\ buffer[Len(buffer)] = Nul
  BY DEF TokenizerInv, TokenizerTypeOK, Offsets, Strings, Terminated
<1>2. end \in nuls /\ \A m \in nuls : end <= m
  <2>1. Len(buffer) \in nuls
    BY <1>1
  <2>2. nuls \in SUBSET Nat
    BY <1>1
  <2> HIDE DEF nuls
  <2> QED BY <2>1, <2>2, MinOfNats
<1> HIDE DEF end
<1>3. end \in Nat /\ end > offset /\ end <= Len(buffer) /\ buffer[end] = Nul
  BY <1>1, <1>2
<1>4. ASSUME NEW m \in (offset + 1)..(end - 1)
      PROVE  buffer[m] \in Character
  <2>1. m \in DOMAIN buffer /\ m > offset /\ m < end /\ m \in Nat
    BY <1>1, <1>3
  <2>2. m \notin nuls
    BY <1>2, <1>3, <2>1
  <2> QED BY <2>1, <2>2, <1>1
<1> HIDE DEF offset
<1>5. StringAt(arguments[n]) = SubSeq(buffer, offset + 1, end - 1)
  BY DEF StringAt, offset, end
<1>6. SubSeq(buffer, offset + 1, end - 1) \in Seq(Character)
  <2>1. \A m \in 1..(end - 1 - offset) : buffer[offset + m] \in Character
    <3> SUFFICES ASSUME NEW m \in 1..(end - 1 - offset) PROVE buffer[offset + m] \in Character
      OBVIOUS
    <3>1. offset + m \in (offset + 1)..(end - 1)
      BY <1>1, <1>3
    <3> QED BY <3>1, <1>4
  <2>2. Len(SubSeq(buffer, offset + 1, end - 1)) = end - 1 - offset /\ end - 1 - offset \in Nat
    BY <1>1, <1>3
  <2>3. \A m \in 1..(end - 1 - offset) : SubSeq(buffer, offset + 1, end - 1)[m] = buffer[offset + m]
    BY <1>1, <1>3
  <2>4. SubSeq(buffer, offset + 1, end - 1) \in Seq(Character \cup {Nul})
    BY <1>1, <1>3
  <2>5. \A m \in 1..Len(SubSeq(buffer, offset + 1, end - 1)) :
             SubSeq(buffer, offset + 1, end - 1)[m] \in Character
    BY <2>1, <2>2, <2>3
  <2> QED BY <2>4, <2>5, Narrowed
<1>7. ASSUME ~allow_empty PROVE SubSeq(buffer, offset + 1, end - 1) # <<>>
  <2>1. buffer[offset + 1] # Nul
    BY <1>1, <1>7 DEF Strings, FirstBytes, offset
  <2>2. end # offset + 1
    BY <2>1, <1>3
  <2>3. Len(SubSeq(buffer, offset + 1, end - 1)) = end - 1 - offset
    BY <1>1, <1>3
  <2> QED BY <2>2, <2>3, <1>1, <1>3
<1> QED BY <1>5, <1>6, <1>7

(* What the parser gets from a call.                                       *)
LEMMA ResultStrings ==
  ASSUME TokenizerInv, Strings
  PROVE  /\ Result \in Seq(Seq(Character)) /\ Len(Result) < MAX_ARGS
         /\ ~allow_empty => Result \in Seq(Words)
         /\ ~allow_empty /\ Result # <<>> => \E k \in DOMAIN command : command[k] \notin delimeters
<1>1. CASE returned = "tokens"
  <2>1. /\ Result = [n \in 1..Len(arguments) |-> StringAt(arguments[n])]
        /\ Len(arguments) \in Nat /\ Len(arguments) < MAX_ARGS
    BY <1>1 DEF Result, TokenizerInv, TokenizerTypeOK, BelowLimit
  <2>2. \A n \in 1..Len(arguments) :
             /\ StringAt(arguments[n]) \in Seq(Character)
             /\ ~allow_empty => StringAt(arguments[n]) \in Words
    BY <1>1, StringInBuffer DEF Words
  <2>3. Result \in Seq(Seq(Character)) /\ Len(Result) = Len(arguments)
    BY <2>1, <2>2
  <2>4. ~allow_empty => Result \in Seq(Words)
    BY <2>1, <2>2
  <2>5. Result # <<>> => Len(arguments) > 0
    BY <2>1
  <2> QED BY <2>1, <2>3, <2>4, <2>5 DEF Strings, NotBlank
<1>2. CASE returned # "tokens"
  <2>1. Result = <<>>
    BY <1>2 DEF Result
  <2> QED BY <2>1, MaxArgsAssumption
<1> QED BY <1>1, <1>2

(* Trimming keeps a string a string.                                       *)
LEMMA Trimmed ==
  ASSUME NEW s \in Seq(Character)
  PROVE  /\ TrimFront(s) \in Seq(Character)
         /\ TrimEnd(s) \in Seq(Character)
         /\ s # <<>> => Front(s) \in Seq(Character)
<1> DEFINE kept == {k \in DOMAIN s : s[k] \notin Whitespace}
<1>1. Len(s) \in Nat /\ DOMAIN s = 1..Len(s)
  OBVIOUS
<1>2. TrimFront(s) \in Seq(Character)
  <2>1. CASE kept = {}
    BY <2>1 DEF TrimFront
  <2>2. CASE kept # {}
    <3>1. kept \in SUBSET Nat
      BY <1>1
    <3>2. Min(kept) \in kept
      <4> HIDE DEF kept
      <4> QED BY <3>1, <2>2, MinOfNats
    <3>3. Min(kept) \in 1..Len(s)
      BY <3>2, <1>1
    <3>4. TrimFront(s) = SubSeq(s, Min(kept), Len(s))
      BY <2>2 DEF TrimFront
    <3> HIDE DEF kept
    <3> QED BY <3>3, <3>4, <1>1
  <2> QED BY <2>1, <2>2
<1>3. s # <<>> => Front(s) \in Seq(Character)
  <2>1. s # <<>> => Len(s) > 0
    BY <1>1
  <2> QED BY <2>1, <1>1 DEF Front
<1>4. TrimEnd(s) \in Seq(Character)
  <2>1. Len(s) > 1 => s # <<>>
    OBVIOUS
  <2> QED BY <2>1, <1>3 DEF TrimEnd
<1> QED BY <1>2, <1>3, <1>4

-----------------------------------------------------------------------------
(* What the parser keeps: strings, and what was parsed of them.            *)
Redirects == {Redirect(left, right, is_out) :
                left \in Seq(Character), right \in Words, is_out \in BOOLEAN}
Parsed == [arguments : Seq(Words), redirects : Seq(Redirects)]

Kept ==
  /\ line \in Seq(Character)
  /\ pieces \in Seq(Seq(Character))
  /\ pipeline \in Seq(Parsed)
  /\ tokens \in Seq(Words)
  /\ Len(tokens) < MAX_ARGS
  /\ redirects \in Seq(Redirects)
  /\ i \in 1..MAX_ARGS
  /\ pc \in {"start", "split", "piece", "words", "tokens", "sides", "returned"}
  /\ bg \in BOOLEAN
  /\ ran \in {"nothing", "builtin", "job"}
  /\ (result = "none") = (pc # "returned")

(* A piece with something in it.                                           *)
Filled(s) == \E k \in DOMAIN s : s[k] \notin Whitespace

(* The process n is what its piece says, and has a command.                *)
Good(n) ==
  /\ Filled(pieces[n])
  /\ Len(pipeline[n].arguments) \in 1..(MAX_ARGS - 1)
  /\ \A j \in DOMAIN pipeline[n].arguments : ~IsRedirect(pipeline[n].arguments[j])

(* Where the parser is in the line.  Once there is a redirect all tokens   *)
(* that follow are redirects, and a command stands in front of them.       *)
Progress ==
  /\ pc \in {"start", "split"} => pipeline = <<>>
  /\ pc \in {"piece", "words", "tokens", "sides"} => Len(pipeline) <= Len(pieces)
  /\ pc \in {"words", "tokens", "sides"} => Number <= Len(pieces)
  /\ pc = "words" => command = pieces[Number] /\ delimeters = Whitespace /\ ~allow_empty
  /\ pc \in {"tokens", "sides"} =>
       /\ Filled(pieces[Number])
       /\ tokens # <<>> /\ i <= Len(tokens) + 1
       /\ Len(redirects) < i
       /\ redirects # <<>> => Len(redirects) < i - 1
       /\ \A j \in 1..(i - 1 - Len(redirects)) : ~IsRedirect(tokens[j])
  /\ pc = "sides" => i > 1 /\ i <= Len(tokens)
  /\ pc # "returned" => ran = "nothing"
  /\ pc = "returned" /\ ran # "nothing" => Len(pipeline) = Len(pieces)
  /\ \A n \in DOMAIN pipeline : n \in DOMAIN pieces /\ Good(n)

(* The heap as long as nothing was freed.                                  *)
Allocated(objects) == heap = [o \in objects |-> 0]

HeapKept ==
  /\ pc \in {"start", "split"} => Allocated({})
  /\ pc \in {"piece", "words"} => Allocated({<<"pieces">>} \cup JobObjects)
  /\ pc \in {"tokens", "sides"} =>
       Allocated({<<"pieces">>} \cup JobObjects \cup ProcessObjects(Number, Len(redirects)))
  /\ pc = "returned" => FreedOnce

ParserInv == TokenizerInv /\ Strings /\ Kept /\ Progress /\ HeapKept

-----------------------------------------------------------------------------
(* Every step of the parser is a call of parse_tokens, a turn of its loop, *)
(* or nothing to it.                                                       *)
LEMMA CallsAllowed ==
  ASSUME NEW string \in Seq(Character), NEW set, NEW empty \in BOOLEAN,
         set = Whitespace \/ set = {"|"} \/ set = {">"} \/ set = {"<"},
         Call(string, set, empty)
  PROVE  TokenizerNext
<1>1. set \in SUBSET (Character \ {Backslash})
  BY ParserAssumption DEF Whitespace, Backslash
<1> QED BY <1>1 DEF TokenizerNext

LEMMA Elements ==
  ASSUME NEW S, NEW s \in Seq(S), NEW n \in 1..Len(s)
  PROVE  s[n] \in S
OBVIOUS

LEMMA CallStep == Kept /\ Progress /\ Next => [TokenizerNext]_tokenizerVars
<1> SUFFICES ASSUME Kept, Progress, Next PROVE [TokenizerNext]_tokenizerVars
  OBVIOUS
<1>1. CASE CutLine
  <2> DEFINE trimmed == TrimEnd(TrimFront(line))
  <2>1. trimmed \in Seq(Character)
    BY Trimmed DEF Kept
  <2>2. trimmed # <<>> => Front(trimmed) \in Seq(Character)
    BY <2>1, Trimmed
  <2>3. \E string \in Seq(Character) : Call(string, {"|"}, TRUE)
    <3>1. PICK background \in BOOLEAN :
            Call(IF background /\ trimmed # <<>> THEN Front(trimmed) ELSE trimmed, {"|"}, TRUE)
      BY <1>1 DEF CutLine
    <3>2. (IF background /\ trimmed # <<>> THEN Front(trimmed) ELSE trimmed) \in Seq(Character)
      <4> HIDE DEF trimmed
      <4> QED BY <2>1, <2>2
    <3> HIDE DEF trimmed
    <3> QED BY <3>1, <3>2
  <2> QED BY <2>3, CallsAllowed
<1>2. CASE BeginProcess
  <2>1. pieces[Number] \in Seq(Character)
    BY <1>2, Elements DEF BeginProcess, Kept, Number
  <2>2. Call(pieces[Number], Whitespace, FALSE)
    BY <1>2 DEF BeginProcess
  <2> QED BY <2>1, <2>2, CallsAllowed
<1>3. CASE BeginRedirect
  <2>1. Token \in Words
    BY <1>3, Elements DEF BeginRedirect, InTokens, Token, Kept
  <2>2. Call(Token, {IF Out(Token) THEN ">" ELSE "<"}, TRUE)
    BY <1>3 DEF BeginRedirect
  <2>3. {IF Out(Token) THEN ">" ELSE "<"} \in {{">"}, {"<"}}
    OBVIOUS
  <2> QED BY <2>1, <2>2, <2>3, CallsAllowed DEF Words
<1>4. CASE Tokenize
  BY <1>4 DEF Tokenize, TokenizerNext
<1>5. CASE \/ SplitLine \/ SplitPiece \/ Argument \/ AddRedirect \/ ErrorProcess \/ EndProcess
           \/ BuiltinInPipeline \/ RunBuiltin \/ StartJob
  BY <1>5 DEF SplitLine, SplitPiece, Argument, AddRedirect, ErrorProcess, EndProcess,
              BuiltinInPipeline, RunBuiltin, StartJob
<1> QED BY <1>1, <1>2, <1>3, <1>4, <1>5 DEF Next

LEMMA TokenizerStep == TokenizerInv /\ Strings /\ [TokenizerNext]_tokenizerVars => TokenizerInv' /\ Strings'
<1> SUFFICES ASSUME TokenizerInv, Strings, [TokenizerNext]_tokenizerVars
             PROVE  TokenizerInv' /\ Strings'
  OBVIOUS
<1>1. CASE UNCHANGED tokenizerVars
  BY <1>1 DEF tokenizerVars, call, TokenizerInv, TokenizerTypeOK, HeldInToken, BufferFits, BelowLimit,
              Offsets, Strings, Begun, FirstBytes, Terminated, NotBlank
<1>2. CASE TokenizerNext
  BY <1>2, TokenizerNextInv, CallStrings, EndSegmentStrings, TooManyStrings, ReadStrings, EndStrings
     DEF TokenizerNext, Turn
<1> QED BY <1>1, <1>2

LEMMA InitParser == Init => Strings /\ Kept /\ Progress /\ HeapKept
<1> SUFFICES ASSUME Init PROVE Strings /\ Kept /\ Progress /\ HeapKept
  OBVIOUS
<1>1. /\ Len(arguments) = 0 /\ returned = "null" /\ Len(tokens) = 0 /\ DOMAIN pipeline = {}
      /\ line \in Seq(Character) /\ pipeline = <<>>
  BY ParserAssumption DEF Init, TokenizerInit
<1>2. Strings
  BY <1>1 DEF Strings, Begun, FirstBytes, Terminated, NotBlank
<1>3. pieces \in Seq(Seq(Character)) /\ tokens \in Seq(Words) /\ redirects \in Seq(Redirects)
      /\ pipeline \in Seq(Parsed)
  BY DEF Init
<1>4. Kept
  <2>1. i \in 1..MAX_ARGS /\ Len(tokens) < MAX_ARGS
    BY <1>1, MaxArgsAssumption DEF Init
  <2>2. pc = "start" /\ bg = FALSE /\ ran = "nothing" /\ result = "none"
    BY DEF Init
  <2> QED BY <1>1, <1>3, <2>1, <2>2 DEF Kept
<1>5. Progress
  BY <1>1 DEF Progress, Init
<1>6. HeapKept
  BY DEF HeapKept, Allocated, Init
<1> QED BY <1>2, <1>4, <1>5, <1>6

-----------------------------------------------------------------------------
(* The line in parts: what is kept of it, action by action.                *)
Lined == Kept /\ Progress

LEMMA LinedFrame ==
  ASSUME Lined, UNCHANGED parserVars, pc = "words" => UNCHANGED call
  PROVE  Lined'
<1>1. UNCHANGED <<line, pc, bg, pieces, pipeline, tokens, i, redirects, heap, ran, result>>
  BY DEF parserVars
<1>2. Kept'
  BY <1>1 DEF Lined, Kept
<1>3. Progress'
  BY <1>1 DEF Lined, Progress, call, Good, Number
<1> QED BY <1>2, <1>3 DEF Lined

LEMMA CutLineLined == Lined /\ CutLine => Lined'
<1> SUFFICES ASSUME Lined, CutLine PROVE Lined'
  OBVIOUS
<1>1. /\ UNCHANGED <<line, pieces, pipeline, tokens, i, redirects, heap, ran, result>>
      /\ pc' = "split" /\ pc = "start" /\ bg' \in BOOLEAN
  BY DEF CutLine, Last
<1>2. Kept'
  BY <1>1 DEF Lined, Kept
<1>3. pipeline = <<>> /\ ran = "nothing" /\ DOMAIN pipeline = {}
  BY <1>1 DEF Lined, Progress
<1>4. Progress'
  BY <1>1, <1>3 DEF Progress
<1> QED BY <1>2, <1>4 DEF Lined

LEMMA SplitLineLined == TokenizerInv /\ Strings /\ Lined /\ SplitLine => Lined'
<1> SUFFICES ASSUME TokenizerInv, Strings, Lined, SplitLine PROVE Lined'
  OBVIOUS
<1>1. /\ UNCHANGED <<tokenizerVars, line, bg, pipeline, tokens, i, redirects, ran>>
      /\ pc = "split" /\ pieces' = Result /\ pc' \in {"piece", "returned"}
      /\ pc' = "piece" => UNCHANGED result
      /\ pc' = "returned" => result' \in {"PR_SYNTAX_ERROR", "PR_OK"}
  BY DEF SplitLine, Return
<1>2. Kept'
  BY <1>1, ResultStrings DEF Lined, Kept
<1>3. pipeline = <<>> /\ ran = "nothing" /\ DOMAIN pipeline = {} /\ Len(pipeline) = 0
  BY <1>1 DEF Lined, Progress
<1>4. Len(pieces') \in Nat
  BY <1>2 DEF Kept
<1>5. Progress'
  BY <1>1, <1>3, <1>4 DEF Progress
<1> QED BY <1>2, <1>5 DEF Lined

LEMMA BeginProcessLined == Lined /\ BeginProcess => Lined'
<1> SUFFICES ASSUME Lined, BeginProcess PROVE Lined'
  OBVIOUS
<1>1. /\ UNCHANGED <<line, bg, pieces, pipeline, tokens, i, redirects, heap, ran, result>>
      /\ pc = "piece" /\ pc' = "words" /\ Number <= Len(pieces)
      /\ command' = pieces[Number] /\ delimeters' = Whitespace /\ allow_empty' = FALSE
  BY DEF BeginProcess, Call
<1>2. Kept'
  BY <1>1 DEF Lined, Kept
<1>3. Progress'
  BY <1>1 DEF Lined, Progress, Good, Number
<1> QED BY <1>2, <1>3 DEF Lined

LEMMA SplitPieceLined == TokenizerInv /\ Strings /\ Lined /\ SplitPiece => Lined'
<1> SUFFICES ASSUME TokenizerInv, Strings, Lined, SplitPiece PROVE Lined'
  OBVIOUS
<1>1. /\ UNCHANGED <<tokenizerVars, line, bg, pieces, pipeline, ran>>
      /\ pc = "words" /\ tokens' = Result /\ i' = 1 /\ redirects' = <<>>
      /\ pc' \in {"tokens", "returned"}
      /\ pc' = "tokens" => UNCHANGED result /\ Result # <<>>
      /\ pc' = "returned" => result' = "PR_OK"
  BY DEF SplitPiece, Return
<1>2. command = pieces[Number] /\ delimeters = Whitespace /\ ~allow_empty
  BY <1>1 DEF Lined, Progress
<1>3. /\ Result \in Seq(Words) /\ Len(Result) < MAX_ARGS
      /\ Result # <<>> => Filled(pieces[Number])
  BY <1>2, ResultStrings DEF Filled
<1>4. Kept'
  <2>1. i' \in 1..MAX_ARGS /\ redirects' \in Seq(Redirects)
    BY <1>1, MaxArgsAssumption
  <2> QED BY <1>1, <1>3, <2>1 DEF Lined, Kept
<1>5. Progress'
  <2>1. Len(tokens') \in Nat /\ Len(redirects') = 0 /\ redirects' = <<>>
    BY <1>1, <1>3
  <2> QED BY <1>1, <1>3, <2>1 DEF Lined, Progress, Good, Number
<1> QED BY <1>4, <1>5 DEF Lined

LEMMA ArgumentLined == Lined /\ Argument => Lined'
<1> SUFFICES ASSUME Lined, Argument PROVE Lined'
  OBVIOUS
<1>1. /\ UNCHANGED <<tokenizerVars, line, pc, bg, pieces, pipeline, tokens, redirects, heap, ran, result>>
      /\ pc = "tokens" /\ i <= Len(tokens) /\ ~IsRedirect(tokens[i])
      /\ redirects = <<>> /\ i' = i + 1
  BY DEF Argument, InTokens, Token
<1>2. i \in Nat /\ MAX_ARGS \in Nat /\ Len(tokens) \in Nat /\ Len(tokens) < MAX_ARGS /\ Len(redirects) = 0
  BY <1>1, MaxArgsAssumption DEF Lined, Kept
<1>3. Kept'
  BY <1>1, <1>2 DEF Lined, Kept
<1>4. \A j \in 1..(i' - 1 - Len(redirects')) : ~IsRedirect(tokens[j])
  <2>1. \A j \in 1..(i - 1) : ~IsRedirect(tokens[j])
    BY <1>1, <1>2 DEF Lined, Progress
  <2> QED BY <1>1, <1>2, <2>1
<1>5. Progress'
  BY <1>1, <1>2, <1>4 DEF Lined, Progress, Good, Number
<1> QED BY <1>3, <1>5 DEF Lined

LEMMA BeginRedirectLined == Lined /\ BeginRedirect => Lined'
<1> SUFFICES ASSUME Lined, BeginRedirect PROVE Lined'
  OBVIOUS
<1>1. /\ UNCHANGED <<line, bg, pieces, pipeline, tokens, i, redirects, heap, ran, result>>
      /\ pc = "tokens" /\ pc' = "sides" /\ i > 1 /\ i <= Len(tokens)
  BY DEF BeginRedirect, InTokens
<1>2. Kept'
  BY <1>1 DEF Lined, Kept
<1>3. Progress'
  BY <1>1 DEF Lined, Progress, Good, Number
<1> QED BY <1>2, <1>3 DEF Lined

LEMMA AddRedirectLined == TokenizerInv /\ Strings /\ Lined /\ AddRedirect => Lined'
<1> SUFFICES ASSUME TokenizerInv, Strings, Lined, AddRedirect PROVE Lined'
  OBVIOUS
<1> DEFINE redirect == Redirect(Result[1], Result[2], Out(Token))
<1>1. /\ UNCHANGED <<tokenizerVars, line, bg, pieces, pipeline, tokens, ran, result>>
      /\ pc = "sides" /\ pc' = "tokens" /\ i' = i + 1
      /\ redirects' = Append(redirects, redirect)
  BY DEF AddRedirect
<1>2. redirect \in Redirects
  <2>1. Len(Result) = 2 /\ Result[2] # <<>>
    BY DEF AddRedirect, SidesOk, RedirectOk
  <2>2. Result[1] \in Seq(Character) /\ Result[2] \in Words
    <3>1. Result \in Seq(Seq(Character)) /\ 1 \in 1..Len(Result) /\ 2 \in 1..Len(Result)
      BY <2>1, ResultStrings
    <3>2. Result[1] \in Seq(Character) /\ Result[2] \in Seq(Character)
      BY <3>1, Elements
    <3> QED BY <2>1, <3>2 DEF Words
  <2>3. Out(Token) \in BOOLEAN
    BY DEF Out, Contains
  <2> QED BY <2>2, <2>3 DEF Redirects
<1> HIDE DEF redirect
<1>3. /\ i \in Nat /\ MAX_ARGS \in Nat /\ Len(tokens) \in Nat /\ Len(tokens) < MAX_ARGS
      /\ Len(redirects) \in Nat /\ redirects \in Seq(Redirects)
      /\ i > 1 /\ i <= Len(tokens) /\ Len(redirects) < i
      /\ redirects # <<>> => Len(redirects) < i - 1
  BY <1>1, MaxArgsAssumption DEF Lined, Kept, Progress
<1>4. redirects' \in Seq(Redirects) /\ Len(redirects') = Len(redirects) + 1
  BY <1>1, <1>2, <1>3
<1>5. Kept'
  BY <1>1, <1>3, <1>4 DEF Lined, Kept
<1>6. Len(redirects') < i' - 1
  <2>1. redirects = <<>> => Len(redirects) = 0
    OBVIOUS
  <2> QED BY <2>1, <1>1, <1>3, <1>4
<1>7. \A j \in 1..(i' - 1 - Len(redirects')) : ~IsRedirect(tokens[j])
  <2>1. \A j \in 1..(i - 1 - Len(redirects)) : ~IsRedirect(tokens[j])
    BY <1>1 DEF Lined, Progress
  <2>2. i' - 1 - Len(redirects') = i - 1 - Len(redirects)
    BY <1>1, <1>3, <1>4
  <2> QED BY <2>1, <2>2
<1>8. Progress'
  BY <1>1, <1>3, <1>4, <1>6, <1>7 DEF Lined, Progress, Good, Number
<1> QED BY <1>5, <1>8 DEF Lined

(* What returns before a job ran leaves the line as it is.                 *)
LEMMA ReturnLined ==
  ASSUME Lined, UNCHANGED <<line, bg, pieces, pipeline, tokens, i, redirects>>,
         pc' = "returned", result' # "none", ran' \in {"nothing", "builtin", "job"},
         ran' # "nothing" => Len(pipeline) = Len(pieces)
  PROVE  Lined'
<1>1. Kept'
  BY DEF Lined, Kept
<1>2. Progress'
  BY DEF Lined, Progress, Good, Number
<1> QED BY <1>1, <1>2 DEF Lined

LEMMA EndProcessLined == Lined /\ EndProcess => Lined'
<1> SUFFICES ASSUME Lined, EndProcess PROVE Lined'
  OBVIOUS
<1> DEFINE arguments1 == SubSeq(tokens, 1, Len(tokens) - Len(redirects))
           process == [arguments |-> arguments1, redirects |-> redirects]
<1>1. /\ UNCHANGED <<tokenizerVars, line, bg, pieces, tokens, i, redirects, heap, ran, result>>
      /\ pc = "tokens" /\ pc' = "piece" /\ i > Len(tokens)
      /\ pipeline' = Append(pipeline, process)
  BY DEF EndProcess
<1>2. /\ i \in Nat /\ MAX_ARGS \in Nat /\ Len(tokens) \in Nat /\ Len(tokens) < MAX_ARGS
      /\ Len(redirects) \in Nat /\ redirects \in Seq(Redirects) /\ tokens \in Seq(Words)
      /\ i = Len(tokens) + 1
      /\ redirects # <<>> => Len(redirects) < i - 1
      /\ Len(pieces) \in Nat /\ Len(pipeline) \in Nat /\ pipeline \in Seq(Parsed)
  BY <1>1, MaxArgsAssumption DEF Lined, Kept, Progress
<1>3. Len(tokens) - Len(redirects) \in 1..(MAX_ARGS - 1)
  <2>1. redirects = <<>> => Len(redirects) = 0 /\ Len(tokens) > 0
    BY <1>1, <1>2 DEF Lined, Progress
  <2> QED BY <2>1, <1>2
<1>4. /\ arguments1 \in Seq(Words) /\ Len(arguments1) = Len(tokens) - Len(redirects)
      /\ \A j \in 1..Len(arguments1) : arguments1[j] = tokens[j]
  BY <1>2, <1>3
<1>5. \A j \in 1..Len(arguments1) : ~IsRedirect(arguments1[j])
  <2>1. \A j \in 1..(i - 1 - Len(redirects)) : ~IsRedirect(tokens[j])
    BY <1>1 DEF Lined, Progress
  <2> QED BY <2>1, <1>2, <1>4
<1>6. process \in Parsed
  BY <1>2, <1>4 DEF Parsed
<1>7. process.arguments = arguments1 /\ DOMAIN arguments1 = 1..Len(arguments1)
  BY <1>4
<1> HIDE DEF process, arguments1
<1>8. /\ pipeline' \in Seq(Parsed) /\ Len(pipeline') = Len(pipeline) + 1
      /\ pipeline'[Len(pipeline) + 1] = process
      /\ \A n \in 1..Len(pipeline) : pipeline'[n] = pipeline[n]
  BY <1>1, <1>2, <1>6
<1>9. Kept'
  BY <1>1, <1>8 DEF Lined, Kept
<1>10. Number <= Len(pieces) /\ Filled(pieces[Number])
  BY <1>1 DEF Lined, Progress
<1>11. ASSUME NEW n \in DOMAIN pipeline'
       PROVE  n \in DOMAIN pieces /\ Good(n)'
  <2>1. n \in 1..(Len(pipeline) + 1)
    BY <1>8
  <2>2. CASE n = Len(pipeline) + 1
    <3>1. n \in DOMAIN pieces /\ Filled(pieces[n])
      BY <1>10, <1>2, <2>2 DEF Number, Lined, Kept
    <3>2. pipeline'[n].arguments = arguments1
      BY <2>2, <1>7, <1>8
    <3> QED BY <1>1, <3>1, <3>2, <1>3, <1>4, <1>5, <1>7 DEF Good
  <2>3. CASE n \in 1..Len(pipeline)
    <3>1. n \in DOMAIN pieces /\ Good(n)
      BY <2>3, <1>2 DEF Lined, Progress
    <3>2. pipeline'[n] = pipeline[n]
      BY <2>3, <1>8
    <3> QED BY <3>1, <3>2, <1>1 DEF Good
  <2> QED BY <2>1, <2>2, <2>3, <1>2
<1>12. Progress'
  <2>1. Len(pipeline') <= Len(pieces)
    BY <1>8, <1>10, <1>2 DEF Number
  <2>2. ran = "nothing"
    BY <1>1 DEF Lined, Progress
  <2> QED BY <1>1, <2>1, <2>2, <1>11 DEF Progress
<1> QED BY <1>9, <1>12 DEF Lined

LEMMA LinedStep == TokenizerInv /\ Strings /\ Lined /\ [Next]_vars => Lined'
<1> SUFFICES ASSUME TokenizerInv, Strings, Lined, [Next]_vars PROVE Lined'
  OBVIOUS
<1>1. CASE Tokenize \/ UNCHANGED vars
  <2>1. UNCHANGED parserVars /\ UNCHANGED call
    BY <1>1 DEF Tokenize, Turn, End, EndSegment, TooMany, Read, EndEscaped, EndEmpty, EndToken, vars,
                tokenizerVars
  <2> QED BY <2>1, LinedFrame
<1>2. CASE ErrorProcess
  BY <1>2, ReturnLined DEF ErrorProcess, Return, Lined, Kept, Progress, BadToken, InTokens
<1>3. CASE BuiltinInPipeline
  BY <1>3, ReturnLined DEF BuiltinInPipeline, Return, Lined, Kept, Progress, AllParsed
<1>4. CASE RunBuiltin \/ StartJob
  <2>1. pc = "piece" /\ Number > Len(pieces)
    BY <1>4 DEF RunBuiltin, StartJob, AllParsed
  <2>2. Len(pipeline) = Len(pieces)
    <3>1. Len(pipeline) \in Nat /\ Len(pieces) \in Nat /\ Len(pipeline) <= Len(pieces)
      BY <2>1 DEF Lined, Kept, Progress
    <3> QED BY <3>1, <2>1 DEF Number
  <2> QED BY <1>4, <2>2, ReturnLined DEF RunBuiltin, StartJob, Return
<1> QED BY <1>1, <1>2, <1>3, <1>4, CutLineLined, SplitLineLined, BeginProcessLined, SplitPieceLined,
           ArgumentLined, BeginRedirectLined, AddRedirectLined, EndProcessLined DEF Next

-----------------------------------------------------------------------------
(* The heap, action by action.                                             *)
LEMMA HeapGrows ==
  ASSUME NEW objects, Allocated(objects), NEW allocated, heap' = Heap(allocated, {}),
         NEW all, all = objects \cup allocated
  PROVE  heap' = [o \in all |-> 0]
<1>1. DOMAIN heap = objects /\ \A o \in objects : heap[o] = 0
  BY DEF Allocated
<1>2. \A o \in all : (IF o \in DOMAIN heap THEN heap[o] ELSE 0) + (IF o \in {} THEN 1 ELSE 0) = 0
  BY <1>1
<1> QED BY <1>1, <1>2 DEF Heap

LEMMA HeapShrinks ==
  ASSUME NEW objects, Allocated(objects), NEW freed, heap' = Heap({}, freed)
  PROVE  /\ DOMAIN heap' = objects
         /\ \A o \in objects : heap'[o] = IF o \in freed THEN 1 ELSE 0
<1>1. DOMAIN heap = objects /\ \A o \in objects : heap[o] = 0
  BY DEF Allocated
<1>2. DOMAIN heap' = objects
  BY <1>1 DEF Heap
<1>3. ASSUME NEW o \in objects PROVE heap'[o] = IF o \in freed THEN 1 ELSE 0
  BY <1>1 DEF Heap
<1> QED BY <1>2, <1>3

LEMMA OneMoreRedirect ==
  ASSUME NEW n, NEW count \in Nat
  PROVE  ProcessObjects(n, count + 1) = ProcessObjects(n, count) \cup {<<"redirect", n, count + 1>>}
<1>1. 1..(count + 1) = (1..count) \cup {count + 1}
  OBVIOUS
<1>2. {<<"redirect", n, r>> : r \in (1..count) \cup {count + 1}}
        = {<<"redirect", n, r>> : r \in 1..count} \cup {<<"redirect", n, count + 1>>}
  OBVIOUS
<1> QED BY <1>1, <1>2 DEF ProcessObjects

LEMMA OneMoreProcess ==
  ASSUME pipeline \in Seq(Parsed), NEW process \in Parsed, pipeline' = Append(pipeline, process)
  PROVE  JobObjects' = JobObjects \cup ProcessObjects(Number, Len(process.redirects))
<1> DEFINE Of(n, p) == ProcessObjects(n, Len(p.redirects))
<1>1. /\ Len(pipeline) \in Nat /\ DOMAIN pipeline = 1..Len(pipeline)
      /\ pipeline' \in Seq(Parsed) /\ Len(pipeline') = Len(pipeline) + 1
      /\ DOMAIN pipeline' = 1..(Len(pipeline) + 1)
      /\ pipeline'[Len(pipeline) + 1] = process
      /\ \A n \in 1..Len(pipeline) : pipeline'[n] = pipeline[n]
  OBVIOUS
<1>2. 1..(Len(pipeline) + 1) = (1..Len(pipeline)) \cup {Len(pipeline) + 1}
  BY <1>1
<1>3. JobObjects = {<<"job">>} \cup UNION {Of(n, pipeline[n]) : n \in DOMAIN pipeline}
  BY DEF JobObjects
<1>4. JobObjects' = {<<"job">>} \cup UNION {Of(n, pipeline'[n]) : n \in DOMAIN pipeline'}
  BY DEF JobObjects, ProcessObjects
<1> HIDE DEF Of
<1>5. {Of(n, pipeline'[n]) : n \in DOMAIN pipeline'}
        = {Of(n, pipeline[n]) : n \in DOMAIN pipeline} \cup {Of(Len(pipeline) + 1, process)}
  <2>1. DOMAIN pipeline' = DOMAIN pipeline \cup {Len(pipeline) + 1}
    BY <1>1, <1>2
  <2>2. \A n \in DOMAIN pipeline : pipeline'[n] = pipeline[n]
    BY <1>1
  <2> QED BY <2>1, <2>2, <1>1
<1>6. UNION ({Of(n, pipeline[n]) : n \in DOMAIN pipeline} \cup {Of(Len(pipeline) + 1, process)})
        = (UNION {Of(n, pipeline[n]) : n \in DOMAIN pipeline}) \cup Of(Len(pipeline) + 1, process)
  OBVIOUS
<1> QED BY <1>3, <1>4, <1>5, <1>6 DEF Of, Number

LEMMA NoPieces == <<"pieces">> \notin JobObjects /\ \A n, count : <<"pieces">> \notin ProcessObjects(n, count)
<1>1. /\ <<"pieces">> # <<"job">>
      /\ \A n, count : <<"pieces">> \notin ProcessObjects(n, count)
  BY DEF ProcessObjects
<1> QED BY <1>1 DEF JobObjects

(* All was freed once but the list of the pieces.                          *)
LEMMA AllFreed ==
  ASSUME NEW objects, Allocated({<<"pieces">>} \cup objects), <<"pieces">> \notin objects,
         heap' = Heap({}, objects), ran' # "job", pc' = "returned"
  PROVE  HeapKept'
<1>2. /\ DOMAIN heap' = {<<"pieces">>} \cup objects
      /\ \A o \in DOMAIN heap' : heap'[o] = IF o \in objects THEN 1 ELSE 0
  BY HeapShrinks
<1>3. Live' = {<<"pieces">>}
  BY <1>2 DEF Live
<1>4. \A o \in DOMAIN heap' : heap'[o] <= 1
  BY <1>2
<1>5. FreedOnce'
  BY <1>2, <1>3, <1>4 DEF FreedOnce
<1> QED BY <1>5 DEF HeapKept

LEMMA HeapStep == Lined /\ Lined' /\ HeapKept /\ [Next]_vars => HeapKept'
<1> SUFFICES ASSUME Lined, Lined', HeapKept, [Next]_vars PROVE HeapKept'
  OBVIOUS
<1>1. CASE Tokenize \/ UNCHANGED vars
  <2>1. UNCHANGED <<pc, pipeline, redirects, heap, ran>>
    BY <1>1 DEF Tokenize, parserVars, vars
  <2> QED BY <2>1 DEF HeapKept, Allocated, JobObjects, ProcessObjects, Number, FreedOnce, Live
<1>2. CASE CutLine
  BY <1>2 DEF CutLine, HeapKept, Allocated
<1>3. CASE SplitLine
  <2>1. /\ pc = "split" /\ pipeline' = <<>> /\ pipeline = <<>> /\ ran' = "nothing"
        /\ Allocated({})
    BY <1>3 DEF SplitLine, HeapKept, Lined, Progress
  <2>2. CASE Result = <<>>
    <3>1. heap' = [o \in {} |-> 0] /\ pc' = "returned"
      BY <2>1, <2>2, <1>3 DEF SplitLine, Return, Allocated
    <3>2. DOMAIN heap' = {}
      BY <3>1
    <3> QED BY <3>1, <3>2, <2>1 DEF HeapKept, FreedOnce, Live
  <2>3. CASE Result # <<>>
    <3>1. heap' = Heap({<<"pieces">>, <<"job">>}, {}) /\ pc' = "piece"
      BY <2>3, <1>3 DEF SplitLine
    <3>2. JobObjects' = {<<"job">>}
      BY <2>1 DEF JobObjects
    <3>3. {<<"pieces">>} \cup JobObjects' = {} \cup {<<"pieces">>, <<"job">>}
      BY <3>2
    <3>4. heap' = [o \in {<<"pieces">>} \cup JobObjects' |-> 0]
      BY <3>1, <3>3, <2>1, HeapGrows
    <3> QED BY <3>1, <3>4 DEF HeapKept, Allocated
  <2> QED BY <2>2, <2>3
<1>4. CASE BeginProcess
  <2>1. pc = "piece" /\ pc' = "words" /\ UNCHANGED <<pipeline, heap>>
    BY <1>4 DEF BeginProcess
  <2> QED BY <2>1 DEF HeapKept, Allocated, JobObjects
<1>5. CASE SplitPiece
  <2>1. /\ pc = "words" /\ UNCHANGED <<pipeline, ran>> /\ redirects' = <<>>
        /\ Allocated({<<"pieces">>} \cup JobObjects)
        /\ ran = "nothing"
    BY <1>5 DEF SplitPiece, HeapKept, Lined, Progress
  <2>2. CASE Result = <<>>
    <3>1. heap' = Heap({}, JobObjects) /\ pc' = "returned"
      BY <2>2, <1>5 DEF SplitPiece, Return
    <3> QED BY <3>1, <2>1, NoPieces, AllFreed
  <2>3. CASE Result # <<>>
    <3>1. /\ heap' = Heap({<<"process", Number>>, <<"tokens", Number>>}, {})
          /\ pc' = "tokens"
      BY <2>3, <1>5 DEF SplitPiece
    <3>2. ProcessObjects(Number, Len(redirects))' = {<<"process", Number>>, <<"tokens", Number>>}
      <4>1. Len(redirects') = 0 /\ 1..0 = {}
        BY <2>1
      <4> QED BY <4>1, <2>1 DEF ProcessObjects, Number
    <3>3. JobObjects' = JobObjects
      BY <2>1 DEF JobObjects
    <3>4. {<<"pieces">>} \cup JobObjects' \cup ProcessObjects(Number, Len(redirects))'
            = ({<<"pieces">>} \cup JobObjects) \cup {<<"process", Number>>, <<"tokens", Number>>}
      BY <3>2, <3>3
    <3>5. heap' = [o \in {<<"pieces">>} \cup JobObjects' \cup ProcessObjects(Number, Len(redirects))' |-> 0]
      BY <3>1, <3>4, <2>1, HeapGrows
    <3> QED BY <3>1, <3>5 DEF HeapKept, Allocated
  <2> QED BY <2>2, <2>3
<1>6. CASE Argument \/ BeginRedirect
  <2>1. /\ pc = "tokens" /\ pc' \in {"tokens", "sides"}
        /\ UNCHANGED <<pipeline, heap, redirects>>
    BY <1>6 DEF Argument, BeginRedirect, InTokens
  <2> QED BY <2>1 DEF HeapKept, Allocated, JobObjects, ProcessObjects, Number
<1>7. CASE AddRedirect
  <2>1. /\ pc = "sides" /\ pc' = "tokens" /\ UNCHANGED pipeline
        /\ heap' = Heap({<<"redirect", Number, Len(redirects')>>}, {})
        /\ Allocated({<<"pieces">>} \cup JobObjects \cup ProcessObjects(Number, Len(redirects)))
    BY <1>7 DEF AddRedirect, HeapKept
  <2>2. Len(redirects') = Len(redirects) + 1 /\ Len(redirects) \in Nat
    BY <1>7 DEF AddRedirect, Lined, Kept
  <2>3. ProcessObjects(Number, Len(redirects))'
          = ProcessObjects(Number, Len(redirects)) \cup {<<"redirect", Number, Len(redirects')>>}
    BY <2>1, <2>2, OneMoreRedirect DEF Number, ProcessObjects
  <2>4. JobObjects' = JobObjects
    BY <2>1 DEF JobObjects
  <2>5. {<<"pieces">>} \cup JobObjects' \cup ProcessObjects(Number, Len(redirects))'
          = ({<<"pieces">>} \cup JobObjects \cup ProcessObjects(Number, Len(redirects)))
                \cup {<<"redirect", Number, Len(redirects')>>}
    BY <2>3, <2>4
  <2>6. heap' = [o \in {<<"pieces">>} \cup JobObjects' \cup ProcessObjects(Number, Len(redirects))' |-> 0]
    BY <2>1, <2>5, HeapGrows
  <2> QED BY <2>1, <2>6 DEF HeapKept, Allocated
<1>8. CASE ErrorProcess
  <2>1. /\ pc \in {"tokens", "sides"} /\ pc' = "returned"
        /\ heap' = Heap({}, JobObjects \cup ProcessObjects(Number, Len(redirects)))
        /\ ran' = ran
    BY <1>8 DEF ErrorProcess, BadToken, InTokens, Return
  <2>2. Allocated({<<"pieces">>} \cup (JobObjects \cup ProcessObjects(Number, Len(redirects))))
    BY <2>1 DEF HeapKept, Allocated
  <2>3. ran = "nothing"
    BY <2>1 DEF Lined, Progress
  <2> QED BY <2>1, <2>2, <2>3, NoPieces, AllFreed
<1>9. CASE EndProcess
  <2> DEFINE process == [arguments |-> SubSeq(tokens, 1, Len(tokens) - Len(redirects)),
                         redirects |-> redirects]
  <2>1. /\ pc = "tokens" /\ pc' = "piece" /\ UNCHANGED heap
        /\ pipeline' = Append(pipeline, process)
        /\ process.redirects = redirects
    BY <1>9 DEF EndProcess
  <2> HIDE DEF process
  <2>2. /\ pipeline \in Seq(Parsed) /\ pipeline' \in Seq(Parsed) /\ Len(pipeline) \in Nat
        /\ DOMAIN pipeline = 1..Len(pipeline)
    BY DEF Lined, Kept
  <2>3. process \in Parsed
    <3>1. Number - 1 \in Nat /\ Number \in 1..Len(pipeline') /\ pipeline'[Number] = process
      BY <2>1, <2>2 DEF Number
    <3> QED BY <3>1, <2>2, Elements
  <2>4. JobObjects' = JobObjects \cup ProcessObjects(Number, Len(redirects))
    BY <2>1, <2>2, <2>3, OneMoreProcess
  <2>5. {<<"pieces">>} \cup JobObjects' = {<<"pieces">>} \cup JobObjects \cup ProcessObjects(Number, Len(redirects))
    BY <2>4
  <2> QED BY <2>1, <2>5 DEF HeapKept, Allocated
<1>10. CASE BuiltinInPipeline \/ RunBuiltin
  <2>1. /\ pc = "piece" /\ pc' = "returned" /\ heap' = Heap({}, JobObjects)
        /\ ran' \in {ran, "builtin"}
    BY <1>10 DEF BuiltinInPipeline, RunBuiltin, AllParsed, Return
  <2>2. Allocated({<<"pieces">>} \cup JobObjects) /\ ran = "nothing"
    BY <2>1 DEF HeapKept, Lined, Progress
  <2> QED BY <2>1, <2>2, NoPieces, AllFreed
<1>11. CASE StartJob
  <2>1. /\ pc = "piece" /\ pc' = "returned" /\ ran' = "job" /\ UNCHANGED <<heap, pipeline>>
    BY <1>11 DEF StartJob, AllParsed, Return
  <2>2. heap' = [o \in {<<"pieces">>} \cup JobObjects |-> 0] /\ JobObjects' = JobObjects
    BY <2>1 DEF HeapKept, Allocated, JobObjects
  <2>3. /\ DOMAIN heap' = {<<"pieces">>} \cup JobObjects
        /\ \A o \in DOMAIN heap' : heap'[o] = 0
    BY <2>2
  <2>4. Live' = JobObjects' \cup {<<"pieces">>} /\ \A o \in DOMAIN heap' : heap'[o] <= 1
    BY <2>2, <2>3 DEF Live
  <2> QED BY <2>1, <2>4 DEF HeapKept, FreedOnce
<1> QED BY <1>1, <1>2, <1>3, <1>4, <1>5, <1>6, <1>7, <1>8, <1>9, <1>10, <1>11 DEF Next

-----------------------------------------------------------------------------
(* The invariant, for every line, every set of builtins and every MAX_ARGS. *)
THEOREM ParserInvariant == Spec => []ParserInv
<1>1. Init => ParserInv
  BY InitInv, InitParser DEF Init, ParserInv
<1>2. ParserInv /\ [Next]_vars => ParserInv'
  <2> SUFFICES ASSUME ParserInv, [Next]_vars PROVE ParserInv'
    OBVIOUS
  <2>1. [TokenizerNext]_tokenizerVars
    BY CallStep DEF ParserInv, vars
  <2>2. TokenizerInv' /\ Strings'
    BY <2>1, TokenizerStep DEF ParserInv
  <2>3. Lined /\ Lined'
    BY LinedStep DEF ParserInv, Lined
  <2>4. HeapKept'
    BY <2>3, HeapStep DEF ParserInv
  <2> QED BY <2>2, <2>3, <2>4 DEF ParserInv, Lined
<1> QED BY <1>1, <1>2, PTL DEF Spec

(* interpret_line uses parse_tokens as its caller may: the parser's steps  *)
(* are steps of Tokenizer.                                                 *)
THEOREM ParserCallsTokenizer == Spec => TokenizerSpec
<1>1. Init => TokenizerInit
  BY DEF Init
<1>2. ParserInv /\ [Next]_vars => [TokenizerNext]_tokenizerVars
  BY CallStep DEF ParserInv, vars
<1> QED BY <1>1, <1>2, ParserInvariant, PTL DEF Spec, TokenizerSpec

(* Of any line, no call writes behind its buffer.  The array of pointers   *)
(* is overrun in one way only: by a call with allow_empty, that is one     *)
(* that splits at '|', '<' or '>', whose empty segments are stored         *)
(* unchecked (parser.c:44); a line of 22 pipes does it.  Such a call never *)
(* returns tokens, so no tokens that the shell goes on to use passed the   *)
(* array.                                                                  *)
THEOREM OnlyEmptySegmentsOverrun ==
  Spec => [](InBounds /\ (Overrun(arguments) => allow_empty /\ returned # "tokens"))
<1>1. TokenizerTypeOK /\ InBounds
        => InBounds /\ (Overrun(arguments) => allow_empty /\ returned # "tokens")
  <2> SUFFICES ASSUME TokenizerTypeOK, InBounds, Overrun(arguments)
               PROVE  allow_empty /\ returned # "tokens"
    OBVIOUS
  <2>1. Len(arguments) \in Nat /\ MAX_ARGS \in Nat /\ allow_empty \in BOOLEAN
    BY MaxArgsAssumption DEF TokenizerTypeOK
  <2> QED BY <2>1 DEF Overrun, InBounds, ArgsFit, NoLongResult
<1> QED BY <1>1, ParserCallsTokenizer, TokensInBounds, TokenizerTypeCorrect, PTL

(* Nothing is freed twice and nothing is lost, whichever way out is taken. *)
THEOREM EveryObjectFreedOnce == Spec => []FreedOnce
<1>1. ParserInv => FreedOnce
  <2> SUFFICES ASSUME ParserInv PROVE FreedOnce
    OBVIOUS
  <2>1. CASE pc = "returned"
    BY <2>1 DEF ParserInv, HeapKept
  <2>2. CASE pc # "returned"
    <3>1. \E objects : Allocated(objects)
      BY <2>2 DEF ParserInv, HeapKept, Kept
    <3>2. \A o \in DOMAIN heap : heap[o] = 0
      BY <3>1 DEF Allocated
    <3> QED BY <2>2, <3>2 DEF FreedOnce
  <2> QED BY <2>1, <2>2
<1> QED BY <1>1, ParserInvariant, PTL

(* A line runs as a whole or not at all, for every line.                   *)
THEOREM LineIsWhole == Spec => []WholeLine
<1>1. ParserInv => WholeLine
  <2> SUFFICES ASSUME ParserInv PROVE WholeLine
    OBVIOUS
  <2>1. /\ pipeline \in Seq(Parsed) /\ tokens \in Seq(Words) /\ pieces \in Seq(Seq(Character))
        /\ DOMAIN pipeline = 1..Len(pipeline) /\ DOMAIN pieces = 1..Len(pieces)
    BY DEF ParserInv, Kept
  <2>2. \A n \in DOMAIN tokens : Word(tokens[n])
    BY <2>1, Elements DEF Word, Words
  <2>3. ASSUME NEW n \in DOMAIN pipeline
        PROVE  /\ Len(pipeline[n].arguments) \in 1..(MAX_ARGS - 1)
               /\ \A k \in DOMAIN pipeline[n].redirects : Word(pipeline[n].redirects[k].right)
    <3>1. pipeline[n] \in Parsed
      BY <2>1, Elements
    <3>2. pipeline[n].redirects \in Seq(Redirects)
      BY <3>1 DEF Parsed
    <3>3. \A r \in Redirects : Word(r.right)
      BY DEF Redirects, Redirect, Words, Word
    <3>4. \A k \in DOMAIN pipeline[n].redirects : pipeline[n].redirects[k] \in Redirects
      BY <3>2
    <3> QED BY <3>3, <3>4 DEF ParserInv, Progress, Good
  <2>4. TypeOK
    BY <2>2, <2>3 DEF TypeOK, ParserInv, Kept
  <2>5. ASSUME ran # "nothing"
        PROVE  /\ Len(pipeline) = Len(pieces)
               /\ \A n \in DOMAIN pieces : \E k \in DOMAIN pieces[n] : pieces[n][k] \notin Whitespace
               /\ \A n \in DOMAIN pipeline : \A k \in DOMAIN pipeline[n].arguments :
                    ~IsRedirect(pipeline[n].arguments[k])
    <3>1. Len(pipeline) = Len(pieces)
      BY <2>5 DEF ParserInv, Progress
    <3>2. \A n \in DOMAIN pipeline : Good(n)
      BY DEF ParserInv, Progress
    <3> QED BY <3>1, <3>2, <2>1 DEF Good, Filled
  <2> QED BY <2>4, <2>5 DEF WholeLine
<1> QED BY <1>1, ParserInvariant, PTL

-----------------------------------------------------------------------------
(* What Split is made of.  First the numbers of a set in order: one more    *)
(* that is above all of them comes last.                                   *)
Below(S, x) == {y \in S : y < x}

UpTo(b, S) == \A x \in S : x \in 0..b

LEMMA BelowFinite ==
  ASSUME NEW b \in Nat, NEW S, UpTo(b, S), NEW x
  PROVE  /\ IsFiniteSet(Below(S, x)) /\ Cardinality(Below(S, x)) \in Nat
         /\ IsFiniteSet(S) /\ Cardinality(S) \in Nat
<1>1. Below(S, x) \in SUBSET S
  BY DEF Below, UpTo
<1>2. IsFiniteSet(S)
  <2>1. IsFiniteSet(0..b) /\ S \in SUBSET (0..b)
    BY FS_Interval DEF UpTo
  <2> QED BY <2>1, FS_Subset
<1> QED BY <1>1, <1>2, FS_Subset, FS_CardinalityType

(* Two of a set are not above equally many.                                *)
LEMMA RankUnique ==
  ASSUME NEW b \in Nat, NEW S, UpTo(b, S), NEW x \in S, NEW z \in S,
         Cardinality(Below(S, x)) = Cardinality(Below(S, z))
  PROVE  x = z
<1>1. ASSUME NEW a \in S, NEW c \in S, a < c,
             Cardinality(Below(S, a)) = Cardinality(Below(S, c))
      PROVE  FALSE
  <2>1. Below(S, a) \in SUBSET Below(S, c) /\ a \in Below(S, c) /\ a \notin Below(S, a)
    BY <1>1 DEF Below, UpTo
  <2>2. IsFiniteSet(Below(S, c))
    BY BelowFinite
  <2>3. Below(S, a) = Below(S, c)
    BY <1>1, <2>1, <2>2, FS_Subset
  <2> QED BY <2>1, <2>3
<1>2. x \in Int /\ z \in Int
  BY DEF UpTo
<1> QED BY <1>1, <1>2

(* There is one of each rank.                                              *)
LEMMA RanksTaken ==
  ASSUME NEW b \in Nat, NEW S, UpTo(b, S), NEW k \in 1..Cardinality(S)
  PROVE  \E x \in S : Cardinality(Below(S, x)) = k - 1
<1> DEFINE Enough == {n \in Nat : Cardinality(Below(S, n)) >= k}
<1>1. b + 1 \in Nat /\ S = Below(S, b + 1)
  BY DEF Below, UpTo
<1>2. Enough # {}
  BY <1>1, BelowFinite
<1>3. PICK n \in Enough : \A m \in Enough : n <= m
  <2>1. Enough \in SUBSET Nat
    OBVIOUS
  <2> HIDE DEF Enough
  <2> QED BY <1>2, <2>1, LeastNat
<1>4. n # 0
  <2>1. Below(S, 0) = {}
    BY DEF Below, UpTo
  <2> QED BY <2>1, FS_EmptySet
<1>5. n - 1 \in Nat /\ n \in Nat /\ Cardinality(Below(S, n - 1)) < k
      /\ Cardinality(Below(S, n - 1)) \in Nat /\ Cardinality(Below(S, n)) >= k
  BY <1>3, <1>4, BelowFinite
<1>6. CASE n - 1 \in S
  <2>1. Below(S, n) = Below(S, n - 1) \cup {n - 1} /\ n - 1 \notin Below(S, n - 1)
    BY <1>5, <1>6 DEF Below, UpTo
  <2>2. Cardinality(Below(S, n)) = Cardinality(Below(S, n - 1)) + 1
    BY <2>1, BelowFinite, FS_AddElement
  <2> QED BY <1>5, <1>6, <2>2
<1>7. CASE n - 1 \notin S
  <2>1. Below(S, n) = Below(S, n - 1)
    BY <1>5, <1>7 DEF Below, UpTo
  <2> QED BY <1>5, <2>1
<1> QED BY <1>6, <1>7

LEMMA InOrderIs ==
  ASSUME NEW b \in Nat, NEW S, UpTo(b, S)
  PROVE  /\ InOrder(S) \in Seq(Nat) /\ Len(InOrder(S)) = Cardinality(S)
         /\ \A k \in 1..Cardinality(S) : InOrder(S)[k] \in S
                /\ Cardinality(Below(S, InOrder(S)[k])) = k - 1
<1>1. Cardinality(S) \in Nat
  BY BelowFinite
<1>2. ASSUME NEW k \in 1..Cardinality(S)
      PROVE  /\ InOrder(S)[k] \in S
             /\ Cardinality(Below(S, InOrder(S)[k])) = k - 1
  <2>1. \E x \in S : Cardinality({y \in S : y < x}) = k - 1
    BY RanksTaken DEF Below, UpTo
  <2>2. InOrder(S)[k] = CHOOSE x \in S : Cardinality({y \in S : y < x}) = k - 1
    BY DEF InOrder
  <2> QED BY <2>1, <2>2 DEF Below, UpTo
<1> DEFINE Rank(k) == CHOOSE x \in S : Cardinality({y \in S : y < x}) = k - 1
           f == InOrder(S)
<1>3. f = [k \in 1..Cardinality(S) |-> Rank(k)]
  BY DEF InOrder
<1> HIDE DEF Rank, f
<1>4. DOMAIN f = 1..Cardinality(S) /\ f = [k \in DOMAIN f |-> f[k]]
  BY <1>3
<1>5. \A k \in DOMAIN f : f[k] \in Nat
  BY <1>2, <1>4 DEF f, UpTo
<1>6. f \in Seq(Nat) /\ Len(f) = Cardinality(S)
  BY <1>1, <1>4, <1>5
<1> QED BY <1>2, <1>6 DEF f

(* Ranks tell the order.                                                   *)
LEMMA InOrderUnique ==
  ASSUME NEW b \in Nat, NEW S, UpTo(b, S), NEW k \in 1..Cardinality(S), NEW x \in S,
         Cardinality(Below(S, x)) = k - 1
  PROVE  InOrder(S)[k] = x
BY InOrderIs, RankUnique

LEMMA InOrderEmpty == InOrder({}) = <<>>
<1>1. Cardinality({}) = 0
  BY FS_EmptySet
<1> QED BY <1>1 DEF InOrder

(* A number above all comes last.                                          *)
LEMMA InOrderAppend ==
  ASSUME NEW n \in Nat, NEW S, \A x \in S : x \in Nat /\ x < n
  PROVE  InOrder(S \cup {n}) = Append(InOrder(S), n)
<1> DEFINE T == S \cup {n}
<1>1. UpTo(n, S) /\ UpTo(n, T) /\ n \notin S
  BY DEF UpTo
<1>2. /\ IsFiniteSet(S) /\ Cardinality(S) \in Nat /\ Cardinality(T) = Cardinality(S) + 1
      /\ Below(T, n) = S /\ \A x \in S : Below(T, x) = Below(S, x)
  <2>1. Below(T, n) = S /\ \A x \in S : Below(T, x) = Below(S, x)
    BY <1>1 DEF Below, UpTo
  <2>2. IsFiniteSet(S) /\ Cardinality(S) \in Nat
    BY <1>1, BelowFinite
  <2> QED BY <1>1, <2>1, <2>2, FS_AddElement
<1>3. n \in T /\ S \subseteq T
  OBVIOUS
<1> HIDE DEF T
<1>4. InOrder(T)[Cardinality(S) + 1] = n
  BY <1>1, <1>2, <1>3, InOrderUnique
<1>5. ASSUME NEW k \in 1..Cardinality(S) PROVE InOrder(T)[k] = InOrder(S)[k]
  <2>1. InOrder(S)[k] \in S /\ Cardinality(Below(S, InOrder(S)[k])) = k - 1
    BY <1>1, InOrderIs
  <2>2. k \in 1..Cardinality(T)
    BY <1>2
  <2> QED BY <1>1, <1>2, <1>3, <2>1, <2>2, InOrderUnique
<1>6. /\ InOrder(S) \in Seq(Nat) /\ Len(InOrder(S)) = Cardinality(S)
      /\ InOrder(T) \in Seq(Nat) /\ Len(InOrder(T)) = Cardinality(S) + 1
  BY <1>1, <1>2, InOrderIs
<1> DEFINE s == InOrder(S)
           t == InOrder(T)
<1>7. /\ s \in Seq(Nat) /\ t \in Seq(Nat) /\ Len(t) = Len(s) + 1
      /\ t[Len(s) + 1] = n /\ \A k \in 1..Len(s) : t[k] = s[k]
  BY <1>4, <1>5, <1>6
<1> HIDE DEF s, t
<1>8. t = Append(s, n)
  BY <1>7
<1> QED BY <1>8 DEF s, t, T

(* What a sequence holds at some places, in order.                         *)
Pick(s, S) == [k \in DOMAIN InOrder(S) |-> s[InOrder(S)[k]]]

(* Every part of a sequence is a sequence of the same things.              *)
LEMMA Places ==
  ASSUME NEW n \in Nat, NEW S, S \subseteq 1..n
  PROVE  /\ UpTo(n, S) /\ \A x \in S : x \in Nat /\ x < n + 1
         /\ InOrder(S) \in Seq(Nat) /\ Len(InOrder(S)) \in Nat
         /\ DOMAIN InOrder(S) = 1..Len(InOrder(S))
         /\ \A k \in DOMAIN InOrder(S) : InOrder(S)[k] \in S
<1>1. UpTo(n, S) /\ \A x \in S : x \in Nat /\ x < n + 1
  BY DEF UpTo
<1> QED BY <1>1, InOrderIs

LEMMA PickIs ==
  ASSUME NEW X, NEW s \in Seq(X), NEW S, S \subseteq DOMAIN s
  PROVE  Pick(s, S) \in Seq(X) /\ Len(Pick(s, S)) = Len(InOrder(S))
<1>1. S \subseteq 1..Len(s) /\ Len(s) \in Nat
  OBVIOUS
<1>2. /\ InOrder(S) \in Seq(Nat) /\ Len(InOrder(S)) \in Nat
      /\ DOMAIN InOrder(S) = 1..Len(InOrder(S))
      /\ \A k \in DOMAIN InOrder(S) : InOrder(S)[k] \in S
  BY <1>1, Places
<1> DEFINE o == InOrder(S)
<1>3. Pick(s, S) = [k \in 1..Len(o) |-> s[o[k]]]
  BY <1>2 DEF Pick
<1>4. \A k \in 1..Len(o) : s[o[k]] \in X
  BY <1>2
<1>5. Len(o) \in Nat
  BY <1>2
<1> HIDE DEF o
<1>6. Pick(s, S) \in Seq(X) /\ Len(Pick(s, S)) = Len(o)
  BY <1>3, <1>4, <1>5
<1> QED BY <1>6 DEF o

LEMMA PickSame ==
  ASSUME NEW n \in Nat, NEW S, S \subseteq 1..n, NEW s, NEW t, \A k \in S : s[k] = t[k]
  PROVE  Pick(s, S) = Pick(t, S)
<1>1. \A k \in DOMAIN InOrder(S) : InOrder(S)[k] \in S
  BY Places
<1> QED BY <1>1 DEF Pick

LEMMA PickAppend ==
  ASSUME NEW X, NEW s \in Seq(X), NEW m \in DOMAIN s, NEW S, S \subseteq 1..(m - 1)
  PROVE  Pick(s, S \cup {m}) = Append(Pick(s, S), s[m])
<1>1. m \in Nat /\ m - 1 \in Nat /\ m \in 1..Len(s) /\ S \subseteq DOMAIN s /\ S \cup {m} \subseteq DOMAIN s
  <2>1. DOMAIN s = 1..Len(s) /\ Len(s) \in Nat
    OBVIOUS
  <2>2. m \in 1..Len(s) /\ m \in Nat /\ m - 1 \in Nat
    BY <2>1
  <2>3. \A x \in S : x \in 1..(m - 1)
    OBVIOUS
  <2>4. \A x \in S : x \in DOMAIN s
    BY <2>1, <2>2, <2>3
  <2> QED BY <2>2, <2>4
<1>2. \A x \in S : x \in Nat /\ x < m
  BY <1>1
<1> DEFINE o == InOrder(S)
           r == InOrder(S \cup {m})
           p == Pick(s, S)
           q == Pick(s, S \cup {m})
<1>3. r = Append(o, m)
  BY <1>1, <1>2, InOrderAppend
<1>4. o \in Seq(Nat) /\ \A k \in 1..Len(o) : o[k] \in S
  BY <1>1, Places
<1>5. /\ p \in Seq(X) /\ Len(p) = Len(o) /\ q \in Seq(X) /\ Len(q) = Len(r)
  BY <1>1, PickIs
<1>6. (\A k \in DOMAIN o : p[k] = s[o[k]]) /\ (\A k \in DOMAIN r : q[k] = s[r[k]])
  BY DEF Pick
<1> HIDE DEF o, r, p, q
<1>7. /\ Len(r) = Len(o) + 1 /\ r[Len(o) + 1] = m /\ \A k \in 1..Len(o) : r[k] = o[k]
      /\ Len(o) \in Nat /\ DOMAIN o = 1..Len(o) /\ DOMAIN r = 1..(Len(o) + 1)
  BY <1>1, <1>3, <1>4
<1>8. /\ Len(q) = Len(p) + 1 /\ q[Len(p) + 1] = s[m] /\ \A k \in 1..Len(p) : q[k] = p[k]
  BY <1>5, <1>6, <1>7
<1>9. q = Append(p, s[m])
  BY <1>5, <1>8
<1> QED BY <1>9 DEF p, q

LEMMA PickNone ==
  ASSUME NEW s
  PROVE  Pick(s, {}) = <<>>
BY InOrderEmpty DEF Pick

-----------------------------------------------------------------------------
(* The backslashes right before pos.                                       *)
Run(s, pos) == {j \in 1..(pos - 1) : \A k \in j..(pos - 1) : s[k] = Backslash}

LEMMA RunFinite ==
  ASSUME NEW s, NEW pos \in Nat
  PROVE  IsFiniteSet(Run(s, pos)) /\ Cardinality(Run(s, pos)) \in Nat
<1>1. UpTo(pos, Run(s, pos))
  BY DEF UpTo, Run
<1> QED BY <1>1, BelowFinite

LEMMA EscapedRun ==
  ASSUME NEW s, NEW pos
  PROVE  Escaped(s, pos) <=> Cardinality(Run(s, pos)) % 2 = 1
BY DEF Escaped, Run

LEMMA EscapedFirst ==
  ASSUME NEW s
  PROVE  ~Escaped(s, 1)
<1>1. Run(s, 1) = {}
  BY DEF Run
<1> QED BY <1>1, EscapedRun, FS_EmptySet

(* A character is escaped by a backslash that is not.                      *)
LEMMA EscapedNext ==
  ASSUME NEW s, NEW pos \in Nat \ {0}
  PROVE  Escaped(s, pos + 1) <=> s[pos] = Backslash /\ ~Escaped(s, pos)
<1>1. CASE s[pos] = Backslash
  <2>1. Run(s, pos + 1) = Run(s, pos) \cup {pos}
    <3>1. ASSUME NEW j \in Run(s, pos + 1) PROVE j \in Run(s, pos) \cup {pos}
      BY DEF Run
    <3>2. ASSUME NEW j \in Run(s, pos) PROVE j \in Run(s, pos + 1)
      <4>1. ASSUME NEW k \in j..pos PROVE s[k] = Backslash
        BY <1>1 DEF Run
      <4> QED BY <4>1 DEF Run
    <3>3. pos \in Run(s, pos + 1)
      BY <1>1 DEF Run
    <3> QED BY <3>1, <3>2, <3>3
  <2>2. pos \notin Run(s, pos)
    BY DEF Run
  <2>3. Cardinality(Run(s, pos + 1)) = Cardinality(Run(s, pos)) + 1 /\ Cardinality(Run(s, pos)) \in Nat
    BY <2>1, <2>2, RunFinite, FS_AddElement
  <2>4. \A n \in Nat : (n + 1) % 2 = 1 <=> ~(n % 2 = 1)
    OBVIOUS
  <2> QED BY <1>1, <2>3, <2>4, EscapedRun
<1>2. CASE s[pos] # Backslash
  <2>1. Run(s, pos + 1) = {}
    BY <1>2 DEF Run
  <2>2. Cardinality(Run(s, pos + 1)) = 0
    BY <2>1, FS_EmptySet
  <2>3. ~(0 % 2 = 1)
    OBVIOUS
  <2> QED BY <1>2, <2>2, <2>3, EscapedRun
<1> QED BY <1>1, <1>2

(* Only what stands before it matters.                                     *)
LEMMA EscapedSame ==
  ASSUME NEW s, NEW t, NEW pos \in Nat, \A k \in 1..(pos - 1) : s[k] = t[k]
  PROVE  Escaped(s, pos) <=> Escaped(t, pos)
<1>1. Run(s, pos) = Run(t, pos)
  BY DEF Run
<1> QED BY <1>1, EscapedRun

-----------------------------------------------------------------------------
(* The backslashes that Unescaped takes out.                               *)
Gone(t, set) == {k \in 1..(Len(t) - 1) : /\ t[k] = Backslash
                                         /\ ~Escaped(t, k)
                                         /\ t[k + 1] \in set \cup {Backslash}}

LEMMA UnescapedIs ==
  ASSUME NEW set, NEW t \in Seq(Character)
  PROVE  /\ Unescaped(t, set) = Pick(t, DOMAIN t \ Gone(t, set))
         /\ Unescaped(t, set) \in Seq(Character)
<1>1. Unescaped(t, set) = Pick(t, DOMAIN t \ Gone(t, set))
  BY DEF Unescaped, Gone, Pick
<1>2. DOMAIN t \ Gone(t, set) \subseteq DOMAIN t
  OBVIOUS
<1> QED BY <1>1, <1>2, PickIs

LEMMA UnescapedNone ==
  ASSUME NEW set
  PROVE  Unescaped(<<>>, set) = <<>>
<1>1. <<>> \in Seq(Character) /\ DOMAIN <<>> \ Gone(<<>>, set) = {}
  OBVIOUS
<1> QED BY <1>1, UnescapedIs, PickNone

(* W is what t becomes, a backslash at its end held back.                  *)
Part(t, set, W) ==
  /\ W \in Seq(Character)
  /\ Unescaped(t, set) = IF Escaped(t, Len(t) + 1) THEN Append(W, Backslash) ELSE W

(* And what that is with one character more.                               *)
PartWith(W, held, set, x) ==
  IF held THEN IF x \in set \cup {Backslash} THEN Append(W, x) ELSE W \o <<Backslash, x>>
  ELSE IF x = Backslash THEN W ELSE Append(W, x)

LEMMA Appended ==
  ASSUME NEW X, NEW t \in Seq(X), NEW x \in X
  PROVE  /\ Append(t, x) \in Seq(X) /\ Len(t) \in Nat /\ Len(Append(t, x)) = Len(t) + 1
         /\ DOMAIN t = 1..Len(t) /\ DOMAIN Append(t, x) = 1..(Len(t) + 1)
         /\ \A k \in 1..Len(t) : Append(t, x)[k] = t[k]
         /\ Append(t, x)[Len(t) + 1] = x
OBVIOUS

LEMMA AppendedSame ==
  ASSUME NEW X
  PROVE  \A t, u \in Seq(X) : \A x, y : Append(t, x) = Append(u, y) => t = u /\ x = y
<1> SUFFICES ASSUME NEW t \in Seq(X), NEW u \in Seq(X), NEW x, NEW y, Append(t, x) = Append(u, y)
             PROVE  t = u /\ x = y
  OBVIOUS
<1>1. Len(t) = Len(u)
  OBVIOUS
<1>2. \A k \in 1..Len(t) : t[k] = u[k]
  BY <1>1
<1> QED BY <1>1, <1>2

LEMMA EscapedAppend ==
  ASSUME NEW t \in Seq(Character), NEW x \in Character
  PROVE  /\ \A pos \in 1..(Len(t) + 1) : Escaped(Append(t, x), pos) <=> Escaped(t, pos)
         /\ Escaped(Append(t, x), Len(Append(t, x)) + 1) <=> x = Backslash /\ ~Escaped(t, Len(t) + 1)
<1> DEFINE q == Append(t, x)
<1>1. /\ Len(t) \in Nat /\ Len(q) = Len(t) + 1 /\ q[Len(t) + 1] = x
      /\ \A k \in 1..Len(t) : q[k] = t[k]
  BY Appended
<1> HIDE DEF q
<1>2. ASSUME NEW pos \in 1..(Len(t) + 1) PROVE Escaped(q, pos) <=> Escaped(t, pos)
  BY <1>1, EscapedSame
<1>3. Escaped(q, Len(q) + 1) <=> x = Backslash /\ ~Escaped(q, Len(q))
  <2>1. Len(q) \in Nat \ {0} /\ q[Len(q)] = x
    BY <1>1
  <2> QED BY <2>1, EscapedNext
<1>4. Escaped(q, Len(q)) <=> Escaped(t, Len(t) + 1)
  BY <1>1, <1>2
<1> QED BY <1>2, <1>3, <1>4 DEF q

LEMMA GoneAppend ==
  ASSUME NEW set, NEW t \in Seq(Character), NEW x \in Character
  PROVE  Gone(Append(t, x), set)
           = Gone(t, set) \cup {k \in {Len(t)} : Escaped(t, k + 1) /\ x \in set \cup {Backslash}}
<1> DEFINE q == Append(t, x)
           n == Len(t)
<1>1. /\ n \in Nat /\ Len(q) = n + 1 /\ q[n + 1] = x
      /\ \A k \in 1..n : q[k] = t[k]
      /\ \A pos \in 1..(n + 1) : Escaped(q, pos) <=> Escaped(t, pos)
  BY Appended, EscapedAppend
<1> HIDE DEF q
<1>2. ASSUME NEW k \in 1..(n - 1) PROVE k \in Gone(q, set) <=> k \in Gone(t, set)
  BY <1>1, <1>2 DEF Gone
<1>3. n \in Gone(q, set) <=> Escaped(t, n + 1) /\ x \in set \cup {Backslash}
  <2>1. CASE n = 0
    BY <1>1, <2>1, EscapedFirst DEF Gone
  <2>2. CASE n # 0
    <3>1. n \in Nat \ {0} /\ n \in 1..(Len(q) - 1) /\ q[n] = t[n]
      BY <1>1, <2>2
    <3>2. Escaped(t, n + 1) <=> t[n] = Backslash /\ ~Escaped(t, n)
      BY <3>1, EscapedNext
    <3> QED BY <1>1, <3>1, <3>2 DEF Gone
  <2> QED BY <2>1, <2>2
<1>4. Gone(t, set) \subseteq 1..(n - 1) /\ Gone(q, set) \subseteq 1..n
  BY <1>1 DEF Gone
<1>5. Gone(q, set) = Gone(t, set) \cup {k \in {n} : Escaped(t, k + 1) /\ x \in set \cup {Backslash}}
  BY <1>1, <1>2, <1>3, <1>4
<1> QED BY <1>5 DEF q

LEMMA PartAppend ==
  ASSUME NEW set, NEW t \in Seq(Character), NEW x \in Character, NEW W, Part(t, set, W)
  PROVE  Part(Append(t, x), set, PartWith(W, Escaped(t, Len(t) + 1), set, x))
<1> DEFINE q == Append(t, x)
           n == Len(t)
           held == Escaped(t, n + 1)
           K == DOMAIN t \ Gone(t, set)
           L == DOMAIN q \ Gone(q, set)
<1>1. /\ q \in Seq(Character) /\ n \in Nat /\ Len(q) = n + 1 /\ q[n + 1] = x
      /\ DOMAIN t = 1..n /\ DOMAIN q = 1..(n + 1)
      /\ \A k \in 1..n : q[k] = t[k]
      /\ Escaped(q, Len(q) + 1) <=> x = Backslash /\ ~held
  BY Appended, EscapedAppend
<1>2. Gone(q, set) = Gone(t, set) \cup {k \in {n} : held /\ x \in set \cup {Backslash}}
  BY GoneAppend
<1>3. Gone(t, set) \subseteq 1..(n - 1)
  BY DEF Gone
<1>4. /\ Unescaped(t, set) = Pick(t, K) /\ Unescaped(q, set) = Pick(q, L)
      /\ Unescaped(t, set) \in Seq(Character)
  BY <1>1, UnescapedIs
<1>5. W \in Seq(Character) /\ Unescaped(t, set) = IF held THEN Append(W, Backslash) ELSE W
  BY DEF Part
<1>6. K \subseteq 1..n
  BY <1>1
<1>7. x \in Character /\ Backslash \in Character /\ n + 1 \in DOMAIN q
  BY <1>1, CharacterAssumption
<1>8. n \in Nat \ {0} => (held <=> t[n] = Backslash /\ ~Escaped(t, n))
  BY EscapedNext
<1>9. n = 0 => ~held
  BY EscapedFirst
<1>10. \A U : Part(q, set, U) <=> /\ U \in Seq(Character)
                                  /\ Unescaped(q, set) = IF x = Backslash /\ ~held THEN Append(U, Backslash) ELSE U
  BY <1>1 DEF Part
<1> HIDE DEF q, n, held, K, L
<1>11. CASE held /\ x \in set \cup {Backslash}
  <2> DEFINE J == K \ {n}
  <2>1. n \in Nat \ {0} /\ n \in DOMAIN t /\ t[n] = Backslash
    BY <1>1, <1>8, <1>9, <1>11
  <2>2. J \subseteq 1..(n - 1) /\ K = J \cup {n} /\ L = J \cup {n + 1}
    BY <2>1, <1>1, <1>2, <1>3, <1>11 DEF K, L
  <2> HIDE DEF J
  <2>3. J \subseteq 1..((n + 1) - 1) /\ J \subseteq DOMAIN t /\ J \subseteq 1..n
    BY <2>2, <1>1
  <2>4. Pick(t, K) = Append(Pick(t, J), Backslash)
    BY <2>1, <2>2, PickAppend
  <2>5. Pick(q, L) = Append(Pick(q, J), x)
    BY <2>2, <2>3, <1>1, <1>7, PickAppend
  <2>6. Pick(q, J) = Pick(t, J)
    BY <2>3, <1>1, PickSame
  <2>7. Pick(t, J) \in Seq(Character)
    BY <2>3, PickIs
  <2>8. W = Pick(t, J)
    <3>1. Append(W, Backslash) = Append(Pick(t, J), Backslash)
      BY <2>4, <1>4, <1>5, <1>11
    <3> QED BY <3>1, <2>7, <1>5, AppendedSame
  <2>9. Unescaped(q, set) = Append(W, x) /\ Append(W, x) \in Seq(Character)
    BY <2>5, <2>6, <2>8, <1>4, <1>5, <1>7
  <2>10. PartWith(W, held, set, x) = Append(W, x)
    BY <1>11 DEF PartWith
  <2> QED BY <2>9, <2>10, <1>10, <1>11 DEF q, n, held
<1>12. CASE ~(held /\ x \in set \cup {Backslash})
  <2>1. L = K \cup {n + 1}
    BY <1>1, <1>2, <1>3, <1>12 DEF K, L
  <2>2. K \subseteq 1..((n + 1) - 1)
    BY <1>1, <1>6
  <2>3. Pick(q, L) = Append(Pick(q, K), x)
    BY <2>1, <2>2, <1>1, <1>7, PickAppend
  <2>4. Pick(q, K) = Pick(t, K)
    BY <1>1, <1>6, PickSame
  <2>5. Unescaped(q, set) = Append(Unescaped(t, set), x)
    BY <2>3, <2>4, <1>4
  <2>6. CASE held
    <3>1. PartWith(W, held, set, x) = W \o <<Backslash, x>>
      BY <2>6, <1>12 DEF PartWith
    <3>2. Unescaped(q, set) = Append(Append(W, Backslash), x)
      BY <2>5, <2>6, <1>5
    <3>3. /\ Append(Append(W, Backslash), x) = W \o <<Backslash, x>>
          /\ W \o <<Backslash, x>> \in Seq(Character)
      BY <1>5, <1>7
    <3> QED BY <2>6, <3>1, <3>2, <3>3, <1>10 DEF q, n, held
  <2>7. CASE ~held /\ x = Backslash
    <3>1. PartWith(W, held, set, x) = W
      BY <2>7 DEF PartWith
    <3>2. Unescaped(q, set) = Append(W, Backslash)
      BY <2>5, <2>7, <1>5
    <3> QED BY <2>7, <3>1, <3>2, <1>5, <1>10 DEF q, n, held
  <2>8. CASE ~held /\ x # Backslash
    <3>1. PartWith(W, held, set, x) = Append(W, x)
      BY <2>8 DEF PartWith
    <3>2. Unescaped(q, set) = Append(W, x) /\ Append(W, x) \in Seq(Character)
      BY <2>5, <2>8, <1>5, <1>7
    <3> QED BY <2>8, <3>1, <3>2, <1>10 DEF q, n, held
  <2> QED BY <2>6, <2>7, <2>8
<1> QED BY <1>11, <1>12

-----------------------------------------------------------------------------
(* Where the segments of s end, its own end left out.                      *)
Ends(s, set) == {0} \cup {k \in DOMAIN s : Break(s, set, k)}

(* The parts of s between the places given.                                *)
Between(s, ends) == [k \in 1..(Len(ends) - 1) |-> SubSeq(s, ends[k] + 1, ends[k + 1] - 1)]

LEMMA SegmentsBetween ==
  ASSUME NEW set, NEW s \in Seq(Character)
  PROVE  Segments(s, set) = Between(s, Append(InOrder(Ends(s, set)), Len(s) + 1))
<1>1. /\ Len(s) + 1 \in Nat
      /\ \A x \in Ends(s, set) : x \in Nat /\ x < Len(s) + 1
  BY DEF Ends
<1>2. InOrder(Ends(s, set) \cup {Len(s) + 1}) = Append(InOrder(Ends(s, set)), Len(s) + 1)
  BY <1>1, InOrderAppend
<1>3. {0, Len(s) + 1} \cup {k \in DOMAIN s : Break(s, set, k)} = Ends(s, set) \cup {Len(s) + 1}
  BY DEF Ends
<1> QED BY <1>2, <1>3 DEF Segments, Between

LEMMA EndsAppend ==
  ASSUME NEW set, NEW s \in Seq(Character), NEW x \in Character
  PROVE  Ends(Append(s, x), set)
           = Ends(s, set) \cup {k \in {Len(s) + 1} : x \in set /\ ~Escaped(s, k)}
<1> DEFINE q == Append(s, x)
           n == Len(s)
<1>1. /\ n \in Nat /\ q[n + 1] = x /\ DOMAIN s = 1..n /\ DOMAIN q = 1..(n + 1)
      /\ \A k \in 1..n : q[k] = s[k]
      /\ \A pos \in 1..(n + 1) : Escaped(q, pos) <=> Escaped(s, pos)
  BY Appended, EscapedAppend
<1> HIDE DEF q, n
<1>2. \A k \in 1..n : Break(q, set, k) <=> Break(s, set, k)
  BY <1>1 DEF Break
<1>3. Break(q, set, n + 1) <=> x \in set /\ ~Escaped(s, n + 1)
  BY <1>1 DEF Break
<1>4. Ends(q, set) = Ends(s, set) \cup {k \in {n + 1} : x \in set /\ ~Escaped(s, k)}
  BY <1>1, <1>2, <1>3 DEF Ends
<1> QED BY <1>4 DEF q, n

(* The places of the ends, each inside the string.                         *)
LEMMA EndsIs ==
  ASSUME NEW set, NEW s \in Seq(Character)
  PROVE  LET e == InOrder(Ends(s, set))
         IN  /\ e \in Seq(0..Len(s)) /\ Len(e) \in Nat \ {0}
<1> DEFINE S == Ends(s, set)
           e == InOrder(S)
<1>1. Len(s) \in Nat /\ UpTo(Len(s), S) /\ 0 \in S
  BY DEF Ends, UpTo
<1> HIDE DEF S
<1>2. /\ e \in Seq(Nat) /\ Len(e) = Cardinality(S)
      /\ \A k \in 1..Cardinality(S) : e[k] \in S
  BY <1>1, InOrderIs
<1>3. \A k \in 1..Len(e) : e[k] \in 0..Len(s)
  BY <1>1, <1>2 DEF UpTo
<1>4. Len(e) # 0
  <2>1. IsFiniteSet(S)
    BY <1>1, BelowFinite
  <2> QED BY <1>1, <1>2, <2>1, FS_EmptySet
<1> HIDE DEF e
<1>5. e \in Seq(0..Len(s)) /\ Len(e) \in Nat \ {0}
  BY <1>2, <1>3, <1>4
<1> QED BY <1>5 DEF e, S

LEMMA PartOf ==
  ASSUME NEW s \in Seq(Character), NEW a \in Nat, NEW b \in 0..Len(s)
  PROVE  SubSeq(s, a + 1, b) \in Seq(Character)
OBVIOUS

(* What makes a sequence the one before it with x behind.                  *)
LEMMA IsAppended ==
  ASSUME NEW X, NEW s \in Seq(X), NEW t \in Seq(X), Len(t) = Len(s) + 1,
         \A k \in 1..Len(s) : t[k] = s[k]
  PROVE  t = Append(s, t[Len(s) + 1])
<1>1. t[Len(s) + 1] \in X
  OBVIOUS
<1> DEFINE u == Append(s, t[Len(s) + 1])
<1>2. /\ u \in Seq(X) /\ Len(u) = Len(s) + 1 /\ u[Len(s) + 1] = t[Len(s) + 1]
      /\ \A k \in 1..Len(s) : u[k] = s[k]
  BY <1>1, Appended
<1> HIDE DEF u
<1>3. \A k \in 1..Len(u) : u[k] = t[k]
  BY <1>2
<1>4. u = t
  BY <1>2, <1>3, SeqEqual
<1> QED BY <1>4 DEF u

(* Parts of two strings that agree on them.                                *)
LEMMA SubSeqSame ==
  ASSUME NEW s, NEW q, NEW l \in Nat, \A k \in 1..l : s[k] \in Character /\ q[k] = s[k],
         NEW a \in Nat, NEW b \in Int, b <= l
  PROVE  SubSeq(q, a + 1, b) = SubSeq(s, a + 1, b)
<1> DEFINE m == a + 1
           u == SubSeq(q, m, b)
           v == SubSeq(s, m, b)
<1>1. m \in Int /\ \A k \in m..b : s[k] \in Character /\ q[k] = s[k]
  OBVIOUS
<1> HIDE DEF m
<1>2. /\ u \in Seq(Character) /\ Len(u) = (IF m <= b THEN b - m + 1 ELSE 0)
      /\ \A k \in 1..(b - m + 1) : u[k] = q[m + k - 1]
  BY <1>1, SubSeqProperties
<1>3. /\ v \in Seq(Character) /\ Len(v) = (IF m <= b THEN b - m + 1 ELSE 0)
      /\ \A k \in 1..(b - m + 1) : v[k] = s[m + k - 1]
  BY <1>1, SubSeqProperties
<1> HIDE DEF u, v
<1>4. \A k \in 1..Len(u) : u[k] = v[k]
  BY <1>1, <1>2, <1>3
<1>5. u = v
  BY <1>2, <1>3, <1>4, SeqEqual
<1> QED BY <1>5 DEF u, v, m

LEMMA SubSeqMore ==
  ASSUME NEW s \in Seq(Character), NEW x \in Character, NEW a \in 0..Len(s)
  PROVE  SubSeq(Append(s, x), a + 1, Len(s) + 1) = Append(SubSeq(s, a + 1, Len(s)), x)
<1> DEFINE q == Append(s, x)
           l == Len(s)
           u == SubSeq(q, a + 1, l + 1)
           v == SubSeq(s, a + 1, l)
<1>1. /\ q \in Seq(Character) /\ Len(q) = l + 1 /\ q[l + 1] = x
      /\ \A k \in 1..l : q[k] = s[k]
      /\ l \in Nat
  BY Appended
<1>2. (\A k \in (a + 1)..(l + 1) : q[k] \in Character) /\ \A k \in (a + 1)..l : s[k] \in Character
  BY <1>1
<1> HIDE DEF q, l
<1>3. /\ u \in Seq(Character) /\ Len(u) = l - a + 1 /\ \A k \in 1..(l - a + 1) : u[k] = q[a + k]
  <2>1. a + 1 \in Int /\ l + 1 \in Int /\ a + 1 <= l + 1
    BY <1>1 DEF l
  <2>2. /\ u \in Seq(Character) /\ Len(u) = (IF a + 1 <= l + 1 THEN (l + 1) - (a + 1) + 1 ELSE 0)
        /\ \A k \in 1..((l + 1) - (a + 1) + 1) : u[k] = q[(a + 1) + k - 1]
    BY <1>2, <2>1, SubSeqProperties
  <2> HIDE DEF u
  <2> QED BY <2>1, <2>2, <1>1
<1>4. /\ v \in Seq(Character) /\ Len(v) = l - a /\ \A k \in 1..(l - a) : v[k] = s[a + k]
  <2>1. a + 1 \in Int /\ l \in Int /\ a <= l
    BY <1>1 DEF l
  <2>2. /\ v \in Seq(Character) /\ Len(v) = (IF a + 1 <= l THEN l - (a + 1) + 1 ELSE 0)
        /\ \A k \in 1..(l - (a + 1) + 1) : v[k] = s[(a + 1) + k - 1]
    BY <1>2, <2>1, SubSeqProperties
  <2> HIDE DEF v
  <2> QED BY <2>1, <2>2, <1>1
<1> HIDE DEF u, v
<1>5. a \in 0..l
  BY DEF l
<1>6. Len(u) = Len(v) + 1 /\ u[Len(v) + 1] = x /\ \A k \in 1..Len(v) : u[k] = v[k]
  <2>1. Len(u) = Len(v) + 1 /\ Len(v) + 1 = l - a + 1 /\ l - a + 1 \in 1..(l - a + 1)
    BY <1>1, <1>3, <1>4, <1>5
  <2>2. u[Len(v) + 1] = q[a + (l - a + 1)] /\ a + (l - a + 1) = l + 1
    BY <2>1, <1>1, <1>3, <1>5
  <2>3. ASSUME NEW k \in 1..Len(v) PROVE u[k] = v[k]
    <3>1. k \in 1..(l - a) /\ k \in 1..(l - a + 1) /\ a + k \in 1..l
      BY <1>1, <1>4, <1>5
    <3> QED BY <3>1, <1>1, <1>3, <1>4
  <2> QED BY <2>1, <2>2, <2>3, <1>1
<1>7. u = Append(v, x)
  <2>1. u = Append(v, u[Len(v) + 1])
    BY <1>3, <1>4, <1>6, IsAppended
  <2> QED BY <2>1, <1>6
<1> QED BY <1>7 DEF u, v, q, l

(* One end more, and one character more in front of it.                    *)
LEMMA BetweenIs ==
  ASSUME NEW s \in Seq(Character), NEW e \in Seq(0..Len(s)), Len(e) > 0
  PROVE  LET B == Between(s, e)
         IN  /\ B \in Seq(Seq(Character)) /\ Len(B) = Len(e) - 1
             /\ Between(s, Append(e, Len(s) + 1)) = Append(B, SubSeq(s, e[Len(e)] + 1, Len(s)))
             /\ SubSeq(s, e[Len(e)] + 1, Len(s)) \in Seq(Character)
<1> DEFINE B == Between(s, e)
           f == Append(e, Len(s) + 1)
           t == SubSeq(s, e[Len(e)] + 1, Len(s))
           C == Between(s, f)
<1>1. /\ Len(s) \in Nat /\ Len(e) \in Nat \ {0}
      /\ \A k \in 1..Len(e) : e[k] \in 0..Len(s) /\ e[k] \in Nat
      /\ \A k \in 1..Len(e) : e[k] - 1 \in -1..Len(s)
  OBVIOUS
<1>2. /\ Len(f) = Len(e) + 1 /\ f[Len(e) + 1] = Len(s) + 1
      /\ \A k \in 1..Len(e) : f[k] = e[k]
  OBVIOUS
<1>3. \A k \in 1..(Len(e) - 1) : SubSeq(s, e[k] + 1, e[k + 1] - 1) \in Seq(Character)
  <2> SUFFICES ASSUME NEW k \in 1..(Len(e) - 1)
               PROVE  SubSeq(s, e[k] + 1, e[k + 1] - 1) \in Seq(Character)
    OBVIOUS
  <2>1. k \in 1..Len(e) /\ k + 1 \in 1..Len(e)
    BY <1>1
  <2>2. e[k] \in Nat /\ e[k + 1] - 1 \in -1..Len(s)
    BY <1>1, <2>1
  <2> HIDE DEF f, B, C, t
  <2> QED BY <2>2
<1>4. B = [k \in 1..(Len(e) - 1) |-> SubSeq(s, e[k] + 1, e[k + 1] - 1)]
  BY DEF Between
<1>5. B \in Seq(Seq(Character)) /\ Len(B) = Len(e) - 1
  BY <1>1, <1>3, <1>4
<1>6. t \in Seq(Character)
  BY <1>1, PartOf
<1>7. C = [k \in 1..Len(e) |-> SubSeq(s, f[k] + 1, f[k + 1] - 1)]
  <2>1. 1..(Len(f) - 1) = 1..Len(e)
    BY <1>1, <1>2
  <2> QED BY <2>1 DEF Between
<1>8. \A k \in 1..(Len(e) - 1) : C[k] = B[k]
  <2> SUFFICES ASSUME NEW k \in 1..(Len(e) - 1) PROVE C[k] = B[k]
    OBVIOUS
  <2>1. k \in 1..Len(e) /\ k + 1 \in 1..Len(e)
    BY <1>1
  <2>2. f[k] = e[k] /\ f[k + 1] = e[k + 1]
    BY <2>1, <1>2
  <2> QED BY <2>1, <2>2, <1>4, <1>7
<1>9. C[Len(e)] = t
  <2>1. f[Len(e)] = e[Len(e)] /\ f[Len(e) + 1] - 1 = Len(s) /\ Len(e) \in 1..Len(e)
    BY <1>1, <1>2
  <2> QED BY <2>1, <1>7
<1>10. \A k \in 1..Len(e) : C[k] \in Seq(Character)
  <2>1. \A k \in 1..(Len(e) - 1) : B[k] \in Seq(Character)
    BY <1>5
  <2>2. \A k \in 1..Len(e) : k \in 1..(Len(e) - 1) \/ k = Len(e)
    BY <1>1
  <2> QED BY <2>1, <2>2, <1>6, <1>8, <1>9
<1> HIDE DEF B, f, t, C
<1>11. C \in Seq(Seq(Character)) /\ Len(C) = Len(e)
  BY <1>1, <1>7, <1>10
<1> DEFINE X == Seq(Character)
<1> HIDE DEF X
<1>12. C = Append(B, t)
  <2>1. B \in Seq(X) /\ C \in Seq(X)
    BY <1>5, <1>11 DEF X
  <2>2. Len(C) = Len(B) + 1 /\ C[Len(B) + 1] = t /\ \A k \in 1..Len(B) : C[k] = B[k]
    BY <1>1, <1>5, <1>8, <1>9, <1>11
  <2>3. C = Append(B, C[Len(B) + 1])
    BY <2>1, <2>2, IsAppended
  <2> QED BY <2>2, <2>3
<1> QED BY <1>5, <1>6, <1>12 DEF B, C, f, t

(* Nothing changes in front of a character that is added.                  *)
LEMMA BetweenSame ==
  ASSUME NEW s \in Seq(Character), NEW x \in Character, NEW e \in Seq(0..(Len(s) + 1))
  PROVE  Between(Append(s, x), e) = Between(s, e)
<1> DEFINE q == Append(s, x)
<1>1. /\ q \in Seq(Character) /\ Len(q) = Len(s) + 1 /\ q[Len(s) + 1] = x
      /\ \A k \in 1..Len(s) : q[k] = s[k]
      /\ Len(s) \in Nat
  BY Appended
<1>2. /\ Len(e) \in Nat
      /\ \A k \in 1..Len(e) : e[k] \in 0..(Len(s) + 1)
  OBVIOUS
<1> HIDE DEF q
<1>3. ASSUME NEW a \in 0..(Len(s) + 1), NEW b \in 0..(Len(s) + 1)
      PROVE  SubSeq(q, a + 1, b - 1) = SubSeq(s, a + 1, b - 1)
  <2>1. /\ \A k \in 1..Len(s) : s[k] \in Character /\ q[k] = s[k]
        /\ b - 1 \in Int /\ b - 1 <= Len(s) /\ a \in Nat
    BY <1>1
  <2> QED BY <2>1, <1>1, SubSeqSame
<1>4. \A k \in 1..(Len(e) - 1) : e[k] \in 0..(Len(s) + 1) /\ e[k + 1] \in 0..(Len(s) + 1)
  BY <1>2
<1>5. \A k \in 1..(Len(e) - 1) : SubSeq(q, e[k] + 1, e[k + 1] - 1) = SubSeq(s, e[k] + 1, e[k + 1] - 1)
  BY <1>3, <1>4
<1>6. Between(q, e) = Between(s, e)
  BY <1>5 DEF Between
<1> QED BY <1>6 DEF q

LEMMA MoreRoom ==
  ASSUME NEW n \in Nat, NEW e \in Seq(0..n)
  PROVE  e \in Seq(0..(n + 1)) /\ Append(e, n + 1) \in Seq(0..(n + 1))
<1>1. \A k \in 1..Len(e) : e[k] \in 0..(n + 1)
  OBVIOUS
<1>2. e = [k \in 1..Len(e) |-> e[k]] /\ Len(e) \in Nat
  OBVIOUS
<1>3. e \in Seq(0..(n + 1))
  BY <1>1, <1>2
<1> QED BY <1>3

(* A string is its segments, and the last of them goes on.                 *)
LEMMA SegmentsSplit ==
  ASSUME NEW set, NEW s \in Seq(Character)
  PROVE  LET e == InOrder(Ends(s, set))
         IN  /\ Between(s, e) \in Seq(Seq(Character))
             /\ SubSeq(s, e[Len(e)] + 1, Len(s)) \in Seq(Character)
             /\ Segments(s, set) = Append(Between(s, e), SubSeq(s, e[Len(e)] + 1, Len(s)))
<1> DEFINE e == InOrder(Ends(s, set))
<1>1. e \in Seq(0..Len(s)) /\ Len(e) > 0
  BY EndsIs
<1>2. Segments(s, set) = Between(s, Append(e, Len(s) + 1))
  BY SegmentsBetween
<1> HIDE DEF e
<1>3. /\ Between(s, e) \in Seq(Seq(Character))
      /\ SubSeq(s, e[Len(e)] + 1, Len(s)) \in Seq(Character)
      /\ Segments(s, set) = Append(Between(s, e), SubSeq(s, e[Len(e)] + 1, Len(s)))
  BY <1>1, <1>2, BetweenIs
<1> QED BY <1>3 DEF e

LEMMA ListAppended ==
  ASSUME NEW F \in Seq(Seq(Character)), NEW t \in Seq(Character)
  PROVE  /\ Append(F, t) \in Seq(Seq(Character))
         /\ Len(Append(F, t)) = Len(F) + 1 /\ Len(F) \in Nat
         /\ Append(F, t)[Len(F) + 1] = t /\ \A k \in 1..Len(F) : Append(F, t)[k] = F[k]
BY AppendProperties

LEMMA ListsSame ==
  ASSUME NEW F \in Seq(Seq(Character)), NEW t \in Seq(Character),
         NEW G \in Seq(Seq(Character)), NEW u \in Seq(Character), Append(F, t) = Append(G, u)
  PROVE  F = G /\ t = u
<1> DEFINE A == Append(F, t)
           C == Append(G, u)
<1>1. A = C
  OBVIOUS
<1>2. /\ Len(A) = Len(F) + 1 /\ A[Len(F) + 1] = t /\ \A k \in 1..Len(F) : A[k] = F[k]
      /\ Len(F) \in Nat
  BY ListAppended
<1>3. /\ Len(C) = Len(G) + 1 /\ C[Len(G) + 1] = u /\ \A k \in 1..Len(G) : C[k] = G[k]
      /\ Len(G) \in Nat
  BY ListAppended
<1> HIDE DEF A, C
<1>4. Len(F) = Len(G) /\ t = u
  BY <1>1, <1>2, <1>3
<1>5. \A k \in 1..Len(F) : F[k] = G[k]
  BY <1>1, <1>2, <1>3, <1>4
<1>6. F = G
  BY <1>4, <1>5, SeqEqual
<1> QED BY <1>4, <1>6

LEMMA SegmentsAppend ==
  ASSUME NEW set, NEW s \in Seq(Character), NEW x \in Character,
         NEW F \in Seq(Seq(Character)), NEW t \in Seq(Character), Segments(s, set) = Append(F, t)
  PROVE  Segments(Append(s, x), set)
           = IF x \in set /\ ~Escaped(s, Len(s) + 1)
             THEN Append(Append(F, t), <<>>) ELSE Append(F, Append(t, x))
<1> DEFINE q == Append(s, x)
           n == Len(s)
           e == InOrder(Ends(s, set))
           f == InOrder(Ends(q, set))
           X == Seq(Character)
           last == SubSeq(s, e[Len(e)] + 1, n)
           cut == x \in set /\ ~Escaped(s, n + 1)
<1>1. q \in Seq(Character) /\ n \in Nat /\ Len(q) = n + 1
  BY Appended
<1>2. e \in Seq(0..n) /\ Len(e) \in Nat \ {0}
  BY EndsIs
<1>3. e \in Seq(0..(n + 1)) /\ Append(e, n + 1) \in Seq(0..(n + 1))
  BY <1>1, <1>2, MoreRoom
<1>4. /\ Between(s, e) \in Seq(X) /\ last \in X
      /\ Segments(s, set) = Append(Between(s, e), last)
  BY SegmentsSplit
<1>5. Segments(s, set) = Between(s, Append(e, n + 1))
  BY SegmentsBetween
<1>6. Between(q, e) = Between(s, e)
  BY <1>3, BetweenSame
<1>7. Between(q, Append(e, n + 1)) = Between(s, Append(e, n + 1))
  <2> DEFINE g == Append(e, n + 1)
  <2>1. g \in Seq(0..(Len(s) + 1))
    BY <1>3
  <2> HIDE DEF g
  <2>2. Between(Append(s, x), g) = Between(s, g)
    BY <2>1, BetweenSame
  <2> QED BY <2>2 DEF g
<1>8. SubSeq(q, e[Len(e)] + 1, n + 1) = Append(last, x)
  <2>1. e[Len(e)] \in 0..n
    BY <1>2
  <2> DEFINE a == e[Len(e)]
  <2> HIDE DEF a
  <2>2. a \in 0..Len(s)
    BY <2>1 DEF a
  <2>3. SubSeq(Append(s, x), a + 1, Len(s) + 1) = Append(SubSeq(s, a + 1, Len(s)), x)
    BY <2>2, SubSeqMore
  <2> QED BY <2>3 DEF a
<1>9. Segments(q, set) = Append(Between(q, f), SubSeq(q, f[Len(f)] + 1, n + 1))
  BY <1>1, SegmentsSplit
<1>10. Ends(q, set) = Ends(s, set) \cup {k \in {n + 1} : cut}
  <2>1. Ends(q, set) = Ends(s, set) \cup {k \in {n + 1} : x \in set /\ ~Escaped(s, k)}
    BY EndsAppend
  <2> QED BY <2>1
<1>11. InOrder(Ends(s, set) \cup {n + 1}) = Append(e, n + 1)
  <2>1. /\ n + 1 \in Nat
        /\ \A y \in Ends(s, set) : y \in Nat /\ y < n + 1
    BY DEF Ends
  <2> QED BY <2>1, InOrderAppend
<1>12. F = Between(s, e) /\ t = last
  <2> DEFINE B == Between(s, e)
  <2>1. B \in Seq(Seq(Character)) /\ last \in Seq(Character) /\ Append(F, t) = Append(B, last)
    BY <1>4
  <2> HIDE DEF last, e, B
  <2>2. F = B /\ t = last
    BY <2>1, ListsSame
  <2> QED BY <2>2 DEF B
<1>13. CASE cut
  <2>1. f = Append(e, n + 1)
    BY <1>10, <1>11, <1>13
  <2> HIDE DEF e, f, q, n
  <2>2. f[Len(f)] = n + 1
    BY <2>1, <1>1, <1>2
  <2>3. Between(q, f) = Append(F, t)
    BY <2>1, <1>4, <1>5, <1>7, <1>12
  <2>4. SubSeq(q, (n + 1) + 1, n + 1) = <<>>
    <3>1. (n + 1) + 1 \in Int /\ n + 1 \in Int /\ n + 1 < (n + 1) + 1
      BY <1>1
    <3> QED BY <3>1, SubSeqEmpty
  <2> QED BY <2>2, <2>3, <2>4, <1>9, <1>13 DEF q, n
<1>14. CASE ~cut
  <2>1. f = e
    BY <1>10, <1>14
  <2> HIDE DEF e, f, last
  <2> QED BY <2>1, <1>6, <1>8, <1>9, <1>12, <1>14
<1> QED BY <1>13, <1>14

LEMMA SegmentsNone ==
  ASSUME NEW set
  PROVE  Segments(<<>>, set) = Append(<<>>, <<>>)
<1> DEFINE e == InOrder(Ends(<<>>, set))
<1>1. <<>> \in Seq(Character) /\ Len(<<>>) = 0
  OBVIOUS
<1>2. Ends(<<>>, set) = {} \cup {0}
  BY DEF Ends
<1>3. e = Append(<<>>, 0)
  <2>1. InOrder({} \cup {0}) = Append(InOrder({}), 0)
    <3>1. 0 \in Nat /\ \A x \in {} : x \in Nat /\ x < 0
      OBVIOUS
    <3> QED BY <3>1, InOrderAppend
  <2> QED BY <2>1, <1>2, InOrderEmpty
<1>4. Len(e) = 1 /\ e[1] = 0
  BY <1>3
<1>5. Segments(<<>>, set) = Append(Between(<<>>, e), SubSeq(<<>>, e[Len(e)] + 1, Len(<<>>)))
  BY <1>1, SegmentsSplit
<1> HIDE DEF e
<1>6. Between(<<>>, e) = <<>>
  <2>1. Len(e) - 1 = 0
    BY <1>4
  <2>2. Between(<<>>, e) = [k \in 1..0 |-> SubSeq(<<>>, e[k] + 1, e[k + 1] - 1)]
    BY <2>1 DEF Between
  <2> QED BY <2>2
<1>7. SubSeq(<<>>, 1, 0) = <<>>
  BY SubSeqEmpty
<1>8. SubSeq(<<>>, e[Len(e)] + 1, Len(<<>>)) = <<>>
  <2>1. e[Len(e)] + 1 = 1 /\ Len(<<>>) = 0
    BY <1>4
  <2> QED BY <2>1, <1>7
<1> QED BY <1>5, <1>6, <1>8

-----------------------------------------------------------------------------
(* The segments that count, and what each of them becomes.                 *)
Counted(segments, empty) == {k \in DOMAIN segments : empty \/ segments[k] # <<>>}
Each(segments, set) == [k \in DOMAIN segments |-> Unescaped(segments[k], set)]

LEMMA EachIs ==
  ASSUME NEW set, NEW F \in Seq(Seq(Character))
  PROVE  /\ Each(F, set) \in Seq(Seq(Character)) /\ Len(Each(F, set)) = Len(F)
         /\ \A k \in 1..Len(F) : Each(F, set)[k] = Unescaped(F[k], set)
<1>1. DOMAIN F = 1..Len(F) /\ Len(F) \in Nat /\ \A k \in 1..Len(F) : F[k] \in Seq(Character)
  OBVIOUS
<1>2. \A t \in Seq(Character) : Unescaped(t, set) \in Seq(Character)
  BY UnescapedIs
<1> DEFINE U(t) == Unescaped(t, set)
           X == Seq(Character)
<1>3. \A k \in 1..Len(F) : U(F[k]) \in X
  BY <1>1, <1>2
<1>4. Each(F, set) = [k \in 1..Len(F) |-> U(F[k])]
  BY <1>1 DEF Each
<1> HIDE DEF U, X
<1>5. /\ Each(F, set) \in Seq(X) /\ Len(Each(F, set)) = Len(F)
      /\ \A k \in 1..Len(F) : Each(F, set)[k] = U(F[k])
  BY <1>1, <1>3, <1>4
<1> QED BY <1>5 DEF U, X

LEMMA StrungIs ==
  ASSUME NEW set, NEW empty, NEW F \in Seq(Seq(Character))
  PROVE  /\ Strung(F, set, empty) = Pick(Each(F, set), Counted(F, empty))
         /\ Strung(F, set, empty) \in Seq(Seq(Character))
<1> DEFINE C == Counted(F, empty)
           E == Each(F, set)
           o == InOrder(C)
<1>1. /\ E \in Seq(Seq(Character)) /\ Len(E) = Len(F) /\ DOMAIN F = 1..Len(F)
      /\ \A k \in 1..Len(F) : E[k] = Unescaped(F[k], set)
  BY EachIs
<1>2. C \subseteq DOMAIN F /\ DOMAIN E = 1..Len(F) /\ Len(F) \in Nat
  BY <1>1 DEF Counted
<1>3. \A k \in DOMAIN o : o[k] \in C
  <2> HIDE DEF C
  <2> QED BY <1>1, <1>2, Places
<1>4. Strung(F, set, empty) = [k \in DOMAIN o |-> Unescaped(F[o[k]], set)]
  BY DEF Strung, Counted
<1>5. Pick(E, C) \in Seq(Seq(Character))
  <2> HIDE DEF C, E
  <2> QED BY <1>1, <1>2, PickIs
<1> HIDE DEF C, E, o
<1>6. \A k \in DOMAIN o : Unescaped(F[o[k]], set) = E[o[k]]
  BY <1>1, <1>2, <1>3
<1>7. Pick(E, C) = [k \in DOMAIN o |-> E[o[k]]]
  BY DEF Pick, o
<1>8. Strung(F, set, empty) = Pick(E, C)
  BY <1>4, <1>6, <1>7
<1> QED BY <1>5, <1>8 DEF E, C

LEMMA StrungAppend ==
  ASSUME NEW set, NEW empty, NEW F \in Seq(Seq(Character)), NEW t \in Seq(Character)
  PROVE  Strung(Append(F, t), set, empty)
           = IF empty \/ t # <<>> THEN Append(Strung(F, set, empty), Unescaped(t, set))
             ELSE Strung(F, set, empty)
<1> DEFINE G == Append(F, t)
           n == Len(F)
           C == Counted(F, empty)
           D == Counted(G, empty)
           E == Each(F, set)
           H == Each(G, set)
           X == Seq(Character)
<1>1. /\ G \in Seq(Seq(Character)) /\ Len(G) = n + 1 /\ n \in Nat
      /\ G[n + 1] = t /\ \A k \in 1..n : G[k] = F[k]
      /\ DOMAIN F = 1..n /\ DOMAIN G = 1..(n + 1)
  <2>1. DOMAIN F = 1..n
    OBVIOUS
  <2>2. /\ G \in Seq(Seq(Character)) /\ Len(G) = n + 1 /\ n \in Nat
        /\ G[n + 1] = t /\ \A k \in 1..n : G[k] = F[k]
    BY ListAppended
  <2> HIDE DEF G
  <2>3. DOMAIN G = 1..(n + 1)
    BY <2>2
  <2> QED BY <2>1, <2>2, <2>3
<1> HIDE DEF G
<1>2. /\ E \in Seq(X) /\ Len(E) = n /\ \A k \in 1..n : E[k] = Unescaped(F[k], set)
  BY EachIs
<1>3. /\ H \in Seq(X) /\ Len(H) = n + 1 /\ \A k \in 1..(n + 1) : H[k] = Unescaped(G[k], set)
  BY <1>1, EachIs
<1>4. C \subseteq 1..n /\ D = C \cup {k \in {n + 1} : empty \/ t # <<>>}
  <2>1. C \subseteq 1..n
    BY <1>1 DEF Counted
  <2>2. \A k \in 1..n : k \in D <=> k \in C
    BY <1>1 DEF Counted
  <2>3. n + 1 \in D <=> empty \/ t # <<>>
    BY <1>1 DEF Counted
  <2>4. D \subseteq 1..(n + 1)
    BY <1>1 DEF Counted
  <2>5. 1..(n + 1) = (1..n) \cup {n + 1} /\ n + 1 \notin 1..n
    BY <1>1
  <2> HIDE DEF n, C, D
  <2> QED BY <2>1, <2>2, <2>3, <2>4, <2>5
<1>5. Strung(F, set, empty) = Pick(E, C) /\ Strung(G, set, empty) = Pick(H, D)
  BY <1>1, StrungIs
<1> HIDE DEF n, C, D, E, H, X
<1>6. (\A k \in C : H[k] = E[k]) /\ H[n + 1] = Unescaped(t, set)
  BY <1>1, <1>2, <1>3, <1>4
<1>7. Pick(H, C) = Pick(E, C)
  BY <1>1, <1>4, <1>6, PickSame
<1>8. Pick(H, C \cup {n + 1}) = Append(Pick(H, C), H[n + 1])
  <2>1. n + 1 \in DOMAIN H /\ C \subseteq 1..((n + 1) - 1)
    BY <1>1, <1>3, <1>4
  <2> QED BY <2>1, <1>3, PickAppend
<1>9. CASE empty \/ t # <<>>
  <2>1. D = C \cup {n + 1}
    BY <1>4, <1>9
  <2> QED BY <2>1, <1>5, <1>6, <1>7, <1>8, <1>9 DEF G
<1>10. CASE ~(empty \/ t # <<>>)
  <2>1. D = C
    BY <1>4, <1>10
  <2> QED BY <2>1, <1>5, <1>7, <1>10 DEF G
<1> QED BY <1>9, <1>10

LEMMA StrungNone ==
  ASSUME NEW set, NEW empty
  PROVE  Strung(<<>>, set, empty) = <<>>
<1> DEFINE F == <<>>
<1>1. F \in Seq(Seq(Character)) /\ Counted(F, empty) = {}
  BY DEF Counted
<1> HIDE DEF F
<1>2. Strung(F, set, empty) = Pick(Each(F, set), {})
  BY <1>1, StrungIs
<1> QED BY <1>2, PickNone DEF F

(* Where parse_tokens is in s: F are the segments behind it, t is the one  *)
(* it is in.                                                               *)
Cut(s, set, F, t) ==
  /\ s \in Seq(Character) /\ F \in Seq(Seq(Character)) /\ t \in Seq(Character)
  /\ Segments(s, set) = Append(F, t)

LEMMA CutNone ==
  ASSUME NEW set
  PROVE  Cut(<<>>, set, <<>>, <<>>)
BY SegmentsNone DEF Cut

LEMMA CutThere ==
  ASSUME NEW set, NEW s \in Seq(Character)
  PROVE  \E F, t : Cut(s, set, F, t)
<1> DEFINE e == InOrder(Ends(s, set))
           F == Between(s, e)
           t == SubSeq(s, e[Len(e)] + 1, Len(s))
<1>1. F \in Seq(Seq(Character)) /\ t \in Seq(Character) /\ Segments(s, set) = Append(F, t)
  BY SegmentsSplit
<1> HIDE DEF F, t
<1> QED BY <1>1 DEF Cut

LEMMA CutAppend ==
  ASSUME NEW set, NEW s, NEW F, NEW t, Cut(s, set, F, t), NEW x \in Character
  PROVE  Segments(Append(s, x), set)
           = IF x \in set /\ ~Escaped(s, Len(s) + 1)
             THEN Append(Append(F, t), <<>>) ELSE Append(F, Append(t, x))
<1>1. /\ s \in Seq(Character) /\ F \in Seq(Seq(Character)) /\ t \in Seq(Character)
      /\ Segments(s, set) = Append(F, t)
  BY DEF Cut
<1> QED BY ONLY <1>1, SegmentsAppend, x \in Character

(* A delimiter that is not escaped ends a segment; the next one is empty.  *)
LEMMA CutAtBreak ==
  ASSUME NEW set, NEW s, NEW F, NEW t, Cut(s, set, F, t),
         NEW x \in Character, x \in set, ~Escaped(s, Len(s) + 1)
  PROVE  Cut(Append(s, x), set, Append(F, t), <<>>)
<1>1. s \in Seq(Character) /\ F \in Seq(Seq(Character)) /\ t \in Seq(Character)
  BY DEF Cut
<1>2. Segments(Append(s, x), set) = Append(Append(F, t), <<>>)
  <2>1. Segments(Append(s, x), set)
          = IF x \in set /\ ~Escaped(s, Len(s) + 1)
            THEN Append(Append(F, t), <<>>) ELSE Append(F, Append(t, x))
    BY CutAppend
  <2> QED BY <2>1
<1>3. Append(F, t) \in Seq(Seq(Character)) /\ Append(s, x) \in Seq(Character) /\ <<>> \in Seq(Character)
  BY <1>1, ListAppended, Appended
<1> QED BY <1>2, <1>3 DEF Cut

LEMMA CutInside ==
  ASSUME NEW set, NEW s, NEW F, NEW t, Cut(s, set, F, t),
         NEW x \in Character, ~(x \in set /\ ~Escaped(s, Len(s) + 1))
  PROVE  Cut(Append(s, x), set, F, Append(t, x))
<1>1. s \in Seq(Character) /\ F \in Seq(Seq(Character)) /\ t \in Seq(Character)
  BY DEF Cut
<1>2. Segments(Append(s, x), set) = Append(F, Append(t, x))
  <2>1. Segments(Append(s, x), set)
          = IF x \in set /\ ~Escaped(s, Len(s) + 1)
            THEN Append(Append(F, t), <<>>) ELSE Append(F, Append(t, x))
    BY CutAppend
  <2> QED BY <2>1
<1>3. Append(t, x) \in Seq(Character) /\ Append(s, x) \in Seq(Character)
  BY <1>1, Appended
<1> QED BY <1>1, <1>2, <1>3 DEF Cut

(* What Split is, there.                                                   *)
LEMMA SplitCut ==
  ASSUME NEW set, NEW empty, NEW s, NEW F, NEW t, Cut(s, set, F, t)
  PROVE  Split(s, set, empty)
           = IF empty \/ t # <<>> THEN Append(Strung(F, set, empty), Unescaped(t, set))
             ELSE Strung(F, set, empty)
BY StrungAppend DEF Split, Cut

LEMMA SplitIs ==
  ASSUME NEW set, NEW empty, NEW s \in Seq(Character)
  PROVE  Split(s, set, empty) \in Seq(Seq(Character)) /\ Len(Split(s, set, empty)) \in Nat
<1>1. Segments(s, set) \in Seq(Seq(Character))
  <2>1. PICK F, t : Cut(s, set, F, t)
    BY CutThere
  <2> QED BY <2>1, ListAppended DEF Cut
<1>2. Split(s, set, empty) \in Seq(Seq(Character))
  BY <1>1, StrungIs DEF Split
<1> QED BY <1>2

(* A longer string has no fewer tokens.                                    *)
LEMMA SplitGrows ==
  ASSUME NEW set, NEW empty, NEW s \in Seq(Character), NEW x \in Character
  PROVE  Len(Split(s, set, empty)) <= Len(Split(Append(s, x), set, empty))
<1> DEFINE Tokens(F) == Strung(F, set, empty)
           q == Append(s, x)
<1>1. PICK F, t : Cut(s, set, F, t)
  BY CutThere
<1>2. F \in Seq(Seq(Character)) /\ t \in Seq(Character) /\ q \in Seq(Character)
  BY <1>1, Appended DEF Cut
<1>3. /\ Tokens(F) \in Seq(Seq(Character)) /\ Len(Tokens(F)) \in Nat
      /\ Unescaped(t, set) \in Seq(Character)
  <2>1. Strung(F, set, empty) \in Seq(Seq(Character))
    BY <1>2, StrungIs
  <2>2. Unescaped(t, set) \in Seq(Character)
    BY <1>2, UnescapedIs
  <2> QED BY <2>1, <2>2
<1>4. Len(Append(Tokens(F), Unescaped(t, set))) = Len(Tokens(F)) + 1
  BY <1>3, ListAppended
<1>5. Split(s, set, empty)
        = IF empty \/ t # <<>> THEN Append(Tokens(F), Unescaped(t, set)) ELSE Tokens(F)
  BY <1>1, SplitCut
<1>6. Len(Split(s, set, empty)) <= Len(Tokens(F)) + 1
  BY <1>3, <1>4, <1>5
<1>7. CASE x \in set /\ ~Escaped(s, Len(s) + 1)
  <2> DEFINE G == Append(F, t)
  <2>1. Cut(q, set, G, <<>>)
    BY <1>1, <1>7, CutAtBreak
  <2>2. G \in Seq(Seq(Character))
    BY <2>1 DEF Cut
  <2>3. Tokens(G) = Split(s, set, empty)
    BY <1>2, <1>5, StrungAppend
  <2> HIDE DEF q, G
  <2>4. Tokens(G) \in Seq(Seq(Character)) /\ Len(Tokens(G)) \in Nat
    BY <2>2, StrungIs
  <2>5. Len(Append(Tokens(G), Unescaped(<<>>, set))) = Len(Tokens(G)) + 1
    BY <2>4, UnescapedIs, ListAppended
  <2>6. Split(q, set, empty)
          = IF empty \/ <<>> # <<>> THEN Append(Tokens(G), Unescaped(<<>>, set)) ELSE Tokens(G)
    BY <2>1, SplitCut
  <2>7. Len(Split(q, set, empty)) >= Len(Tokens(G))
    BY <2>4, <2>5, <2>6
  <2> QED BY <2>3, <2>7 DEF q
<1>8. CASE ~(x \in set /\ ~Escaped(s, Len(s) + 1))
  <2> DEFINE u == Append(t, x)
  <2>1. Cut(q, set, F, u)
    BY <1>1, <1>8, CutInside
  <2>2. u # <<>> /\ u \in Seq(Character)
    BY <1>2
  <2> HIDE DEF q, u
  <2>3. Len(Append(Tokens(F), Unescaped(u, set))) = Len(Tokens(F)) + 1
    BY <1>3, <2>2, UnescapedIs, ListAppended
  <2>4. Split(q, set, empty)
          = IF empty \/ u # <<>> THEN Append(Tokens(F), Unescaped(u, set)) ELSE Tokens(F)
    BY <2>1, SplitCut
  <2>5. Len(Split(q, set, empty)) = Len(Tokens(F)) + 1
    BY <2>2, <2>3, <2>4
  <2> QED BY <1>6, <2>5 DEF q
<1> QED BY <1>7, <1>8

LEMMA PrefixNext ==
  ASSUME NEW s \in Seq(Character), NEW n \in 0..(Len(s) - 1)
  PROVE  /\ SubSeq(s, 1, n) \in Seq(Character) /\ Len(SubSeq(s, 1, n)) = n
         /\ s[n + 1] \in Character
         /\ SubSeq(s, 1, n + 1) = Append(SubSeq(s, 1, n), s[n + 1])
<1> DEFINE u == SubSeq(s, 1, n)
           m == n + 1
           v == SubSeq(s, 1, m)
<1>1. n \in Nat /\ n + 1 \in Nat /\ Len(s) \in Nat /\ \A k \in 1..(n + 1) : s[k] \in Character
  OBVIOUS
<1>2. u \in Seq(Character) /\ Len(u) = n /\ \A k \in 1..n : u[k] = s[k]
  <2>1. /\ u \in Seq(Character) /\ Len(u) = (IF 1 <= n THEN n - 1 + 1 ELSE 0)
        /\ \A k \in 1..(n - 1 + 1) : u[k] = s[1 + k - 1]
    BY <1>1, SubSeqProperties
  <2> HIDE DEF u
  <2> QED BY <1>1, <2>1
<1>3. v \in Seq(Character) /\ Len(v) = n + 1 /\ \A k \in 1..(n + 1) : v[k] = s[k]
  <2>1. m \in Int /\ m = n + 1 /\ \A k \in 1..m : s[k] \in Character
    BY <1>1
  <2> HIDE DEF m
  <2>2. /\ v \in Seq(Character) /\ Len(v) = (IF 1 <= m THEN m - 1 + 1 ELSE 0)
        /\ \A k \in 1..(m - 1 + 1) : v[k] = s[1 + k - 1]
    BY <2>1, SubSeqProperties
  <2> HIDE DEF v
  <2> QED BY <1>1, <2>1, <2>2
<1> HIDE DEF u, v
<1>4. Len(v) = Len(u) + 1 /\ v[Len(u) + 1] = s[n + 1] /\ \A k \in 1..Len(u) : v[k] = u[k]
  BY <1>1, <1>2, <1>3
<1>5. v = Append(u, v[Len(u) + 1])
  BY <1>2, <1>3, <1>4, IsAppended
<1> QED BY <1>1, <1>2, <1>4, <1>5 DEF u, v

LEMMA SplitPrefix ==
  ASSUME NEW set, NEW empty, NEW s \in Seq(Character), NEW n \in 0..Len(s)
  PROVE  Len(Split(SubSeq(s, 1, n), set, empty)) <= Len(Split(s, set, empty))
<1> DEFINE Count(k) == Len(Split(SubSeq(s, 1, k), set, empty))
           l == Len(s)
           Less == {d \in Nat : d <= l /\ ~(Count(l - d) <= Count(l))}
<1>1. SubSeq(s, 1, l) = s
  BY SubSeqFull
<1>2. l \in Nat /\ n \in Nat /\ n <= l
  OBVIOUS
<1>3. \A k \in 0..(l - 1) : Count(k) <= Count(k + 1) /\ Count(k) \in Nat
  <2> SUFFICES ASSUME NEW k \in 0..(l - 1) PROVE Count(k) <= Count(k + 1) /\ Count(k) \in Nat
    OBVIOUS
  <2>1. /\ SubSeq(s, 1, k) \in Seq(Character) /\ s[k + 1] \in Character
        /\ SubSeq(s, 1, k + 1) = Append(SubSeq(s, 1, k), s[k + 1])
    BY PrefixNext
  <2> DEFINE p == SubSeq(s, 1, k)
             x == s[k + 1]
  <2> HIDE DEF p, x
  <2>2. p \in Seq(Character) /\ x \in Character
    BY <2>1 DEF p, x
  <2>3. Len(Split(p, set, empty)) <= Len(Split(Append(p, x), set, empty))
        /\ Len(Split(p, set, empty)) \in Nat
    BY <2>2, SplitGrows, SplitIs
  <2> QED BY <2>1, <2>3 DEF p, x
<1>4. Count(l) \in Nat
  BY <1>1, SplitIs
<1> HIDE DEF Count, l
<1>5. ASSUME Less # {} PROVE FALSE
  <2>1. PICK d \in Less : \A c \in Less : d <= c
    <3>1. Less \in SUBSET Nat
      OBVIOUS
    <3> HIDE DEF Less
    <3> QED BY <3>1, <1>5, LeastNat
  <2>2. d \in Nat /\ d <= l /\ ~(Count(l - d) <= Count(l))
    BY <2>1
  <2>3. d # 0
    BY <2>2, <1>2, <1>4
  <2>4. d - 1 \notin Less /\ d - 1 \in Nat /\ d - 1 <= l
    BY <2>1, <2>2, <2>3, <1>2
  <2>5. Count(l - (d - 1)) <= Count(l)
    BY <2>4
  <2> DEFINE k == l - d
  <2>6. k \in 0..(l - 1) /\ l - (d - 1) = k + 1
    BY <2>2, <2>3, <1>2
  <2> HIDE DEF k, Less
  <2>7. Count(k) <= Count(k + 1) /\ Count(k) \in Nat
    BY <2>6, <1>3
  <2>8. Count(k + 1) <= Count(l) /\ ~(Count(k) <= Count(l))
    BY <2>2, <2>5, <2>6 DEF k
  <2>9. Count(k + 1) \in Nat
    <3>1. k + 1 \in 0..(l - 1) \/ k + 1 = l
      BY <2>6, <1>2
    <3> QED BY <3>1, <1>3, <1>4
  <2> QED BY <2>7, <2>8, <2>9, <1>4
<1>6. l - n \in Nat /\ l - n <= l /\ l - (l - n) = n
  BY <1>2
<1>7. Count(n) <= Count(l)
  BY <1>5, <1>6
<1> QED BY <1>1, <1>7 DEF Count, l

-----------------------------------------------------------------------------
(* The tokens as parse_tokens keeps them: bytes in its buffer.              *)
Bytes == Character \cup {Nul}

(* The buffer holds w from offset a on, with the NUL behind it; or it ends  *)
(* with w, which begins at a.                                              *)
HoldsAt(b, a, w) ==
  /\ a + Len(w) + 1 <= Len(b)
  /\ \A j \in 1..Len(w) : b[a + j] = w[j]
  /\ b[a + Len(w) + 1] = Nul

OpenAt(b, a, w) ==
  /\ a + Len(w) = Len(b)
  /\ \A j \in 1..Len(w) : b[a + j] = w[j]

Stored(b, args, T) ==
  /\ b \in Seq(Bytes) /\ args \in Seq(Nat) /\ T \in Seq(Seq(Character))
  /\ \A k \in 1..Len(T) : HoldsAt(b, args[k], T[k])

(* The tokens T are stored and no other is begun; or W, of one more, is.   *)
Closed(b, args, T) == Len(args) = Len(T) /\ Stored(b, args, T)

Opened(b, args, T, W) ==
  /\ Len(args) = Len(T) + 1 /\ Stored(b, args, T)
  /\ W \in Seq(Character) /\ OpenAt(b, args[Len(T) + 1], W)

LEMMA Joined ==
  ASSUME NEW X, NEW b \in Seq(X), NEW u \in Seq(X)
  PROVE  /\ b \o u \in Seq(X) /\ Len(b) \in Nat /\ Len(u) \in Nat /\ Len(b \o u) = Len(b) + Len(u)
         /\ \A k \in 1..Len(b) : (b \o u)[k] = b[k]
         /\ \A k \in 1..Len(u) : (b \o u)[Len(b) + k] = u[k]
OBVIOUS

LEMMA HoldsMore ==
  ASSUME NEW b \in Seq(Bytes), NEW u \in Seq(Bytes), NEW a \in Nat, NEW w \in Seq(Character),
         HoldsAt(b, a, w)
  PROVE  HoldsAt(b \o u, a, w)
<1> DEFINE c == b \o u
<1>1. /\ Len(b) \in Nat /\ Len(c) >= Len(b) /\ Len(c) \in Nat
      /\ \A k \in 1..Len(b) : c[k] = b[k]
  BY Joined
<1>2. Len(w) \in Nat
  OBVIOUS
<1> HIDE DEF c
<1>3. HoldsAt(c, a, w)
  BY <1>1, <1>2 DEF HoldsAt
<1> QED BY <1>3 DEF c

LEMMA StoredMore ==
  ASSUME NEW b, NEW args, NEW T, Stored(b, args, T), Len(args) >= Len(T), NEW u \in Seq(Bytes)
  PROVE  Stored(b \o u, args, T)
<1>1. /\ b \in Seq(Bytes) /\ args \in Seq(Nat) /\ T \in Seq(Seq(Character))
      /\ \A k \in 1..Len(T) : HoldsAt(b, args[k], T[k])
  BY DEF Stored
<1>2. Len(args) \in Nat /\ Len(T) \in Nat
  BY <1>1
<1>3. \A k \in 1..Len(T) : args[k] \in Nat /\ T[k] \in Seq(Character)
  <2>1. \A k \in 1..Len(T) : T[k] \in Seq(Character)
    BY <1>1
  <2>2. \A k \in 1..Len(args) : args[k] \in Nat
    BY <1>1
  <2>3. \A k \in 1..Len(T) : k \in 1..Len(args)
    BY <1>2
  <2> QED BY <2>1, <2>2, <2>3
<1>4. \A k \in 1..Len(T) : HoldsAt(b \o u, args[k], T[k])
  BY <1>1, <1>3, HoldsMore
<1>5. b \o u \in Seq(Bytes)
  BY <1>1, Joined
<1> QED BY <1>1, <1>4, <1>5 DEF Stored

LEMMA ClosedMore ==
  ASSUME NEW b, NEW args, NEW T, Closed(b, args, T)
  PROVE  Closed(Append(b, Nul), args, T)
<1>1. b \in Seq(Bytes) /\ Nul \in Bytes /\ args \in Seq(Nat) /\ T \in Seq(Seq(Character)) /\ Len(args) = Len(T)
  BY DEF Closed, Stored, Bytes
<1>2. Append(b, Nul) = b \o <<Nul>> /\ <<Nul>> \in Seq(Bytes)
  BY <1>1, AppendedIsJoined
<1>3. Len(args) >= Len(T)
  <2>1. Len(args) \in Nat
    BY <1>1
  <2> QED BY <1>1, <2>1
<1>4. Stored(b \o <<Nul>>, args, T)
  BY <1>2, <1>3, StoredMore DEF Closed
<1> QED BY <1>1, <1>2, <1>4 DEF Closed

(* A token begins,                                                         *)
LEMMA TokenBegins ==
  ASSUME NEW b, NEW args, NEW T, Closed(b, args, T)
  PROVE  Opened(b, Append(args, Len(b)), T, <<>>)
<1> DEFINE new == Append(args, Len(b))
<1>1. b \in Seq(Bytes) /\ args \in Seq(Nat) /\ T \in Seq(Seq(Character)) /\ Len(args) = Len(T)
  BY DEF Closed, Stored
<1>2. Len(b) \in Nat /\ Len(T) \in Nat
  BY <1>1
<1>3. /\ new \in Seq(Nat) /\ Len(new) = Len(T) + 1 /\ new[Len(T) + 1] = Len(b)
      /\ \A k \in 1..Len(T) : new[k] = args[k]
  BY <1>1, <1>2, Appended
<1> HIDE DEF new
<1>4. Stored(b, new, T)
  <2>1. \A k \in 1..Len(T) : HoldsAt(b, args[k], T[k])
    BY DEF Closed, Stored
  <2> QED BY <1>1, <1>3, <2>1 DEF Stored
<1>5. OpenAt(b, Len(b), <<>>)
  BY <1>2 DEF OpenAt
<1>6. Opened(b, new, T, <<>>)
  BY <1>3, <1>4, <1>5 DEF Opened
<1> QED BY <1>6 DEF new

(* goes on,                                                                *)
LEMMA TokenGoesOn ==
  ASSUME NEW b, NEW args, NEW T, NEW W, Opened(b, args, T, W), NEW u \in Seq(Character)
  PROVE  Opened(b \o u, args, T, W \o u)
<1> DEFINE c == b \o u
           V == W \o u
           a == args[Len(T) + 1]
<1>1. /\ b \in Seq(Bytes) /\ args \in Seq(Nat) /\ T \in Seq(Seq(Character)) /\ Len(args) = Len(T) + 1
      /\ W \in Seq(Character) /\ OpenAt(b, a, W)
  BY DEF Opened, Stored
<1>2. Len(T) \in Nat /\ a \in Nat
  <2>1. Len(T) \in Nat
    BY <1>1
  <2>2. Len(T) + 1 \in 1..Len(args)
    BY <1>1, <2>1
  <2> QED BY <1>1, <2>1, <2>2
<1>3. u \in Seq(Bytes)
  BY DEF Bytes
<1>4. Stored(c, args, T)
  <2>1. Len(args) >= Len(T)
    BY <1>1, <1>2
  <2> QED BY <1>3, <2>1, StoredMore DEF Opened
<1>5. /\ Len(c) = Len(b) + Len(u) /\ Len(b) \in Nat /\ Len(u) \in Nat
      /\ \A k \in 1..Len(b) : c[k] = b[k]
      /\ \A k \in 1..Len(u) : c[Len(b) + k] = u[k]
  BY <1>1, <1>3, Joined
<1>6. /\ V \in Seq(Character) /\ Len(V) = Len(W) + Len(u) /\ Len(W) \in Nat
      /\ \A k \in 1..Len(W) : V[k] = W[k]
      /\ \A k \in 1..Len(u) : V[Len(W) + k] = u[k]
  BY <1>1, Joined
<1>7. a + Len(W) = Len(b) /\ \A j \in 1..Len(W) : b[a + j] = W[j]
  BY <1>1 DEF OpenAt
<1> HIDE DEF c, V, a
<1>8. ASSUME NEW j \in 1..Len(V) PROVE c[a + j] = V[j]
  <2>1. CASE j \in 1..Len(W)
    <3>1. a + j \in 1..Len(b)
      BY <2>1, <1>2, <1>5, <1>6, <1>7
    <3> QED BY <2>1, <3>1, <1>5, <1>6, <1>7
  <2>2. CASE j \notin 1..Len(W)
    <3> DEFINE k == j - Len(W)
    <3>2. /\ j \in 1..(Len(W) + Len(u)) /\ j \notin 1..Len(W)
          /\ Len(W) \in Nat /\ Len(u) \in Nat /\ a \in Nat /\ Len(b) = a + Len(W)
      BY <2>2, <1>2, <1>5, <1>6, <1>7
    <3>1. k \in 1..Len(u) /\ j = Len(W) + k /\ a + j = Len(b) + k
      BY ONLY <3>2
    <3> HIDE DEF k
    <3> QED BY <3>1, <1>5, <1>6
  <2> QED BY <2>1, <2>2
<1>9. OpenAt(c, a, V)
  <2>1. /\ Len(W) \in Nat /\ Len(u) \in Nat /\ a \in Nat /\ Len(b) = a + Len(W)
        /\ Len(c) = Len(b) + Len(u) /\ Len(V) = Len(W) + Len(u)
    BY <1>2, <1>5, <1>6, <1>7
  <2>2. a + Len(V) = Len(c)
    BY ONLY <2>1
  <2> QED BY <2>2, <1>8 DEF OpenAt
<1> QED BY <1>1, <1>4, <1>6, <1>9 DEF Opened, c, V, a

(* and ends.                                                               *)
LEMMA TokenEnds ==
  ASSUME NEW b, NEW args, NEW T, NEW W, Opened(b, args, T, W)
  PROVE  Closed(Append(b, Nul), args, Append(T, W))
<1> DEFINE c == Append(b, Nul)
           V == Append(T, W)
           a == args[Len(T) + 1]
<1>1. /\ b \in Seq(Bytes) /\ args \in Seq(Nat) /\ T \in Seq(Seq(Character)) /\ Len(args) = Len(T) + 1
      /\ W \in Seq(Character) /\ OpenAt(b, a, W) /\ Nul \in Bytes
  BY DEF Opened, Stored, Bytes
<1>2. Len(T) \in Nat /\ a \in Nat
  <2>1. Len(T) \in Nat
    BY <1>1
  <2>2. Len(T) + 1 \in 1..Len(args)
    BY <1>1, <2>1
  <2> QED BY <1>1, <2>1, <2>2
<1>3. c = b \o <<Nul>> /\ <<Nul>> \in Seq(Bytes)
  BY <1>1, AppendedIsJoined
<1>4. Stored(b \o <<Nul>>, args, T)
  <2>1. Len(args) >= Len(T)
    BY <1>1, <1>2
  <2> QED BY <1>3, <2>1, StoredMore DEF Opened
<1>5. /\ V \in Seq(Seq(Character)) /\ Len(V) = Len(T) + 1 /\ V[Len(T) + 1] = W
      /\ \A k \in 1..Len(T) : V[k] = T[k]
  BY <1>1, ListAppended
<1>6. /\ Len(c) = Len(b) + 1 /\ Len(b) \in Nat /\ c[Len(b) + 1] = Nul
      /\ \A k \in 1..Len(b) : c[k] = b[k]
  BY <1>1, Appended
<1>7. a + Len(W) = Len(b) /\ (\A j \in 1..Len(W) : b[a + j] = W[j]) /\ Len(W) \in Nat
  BY <1>1 DEF OpenAt
<1> HIDE DEF V, a
<1>8. HoldsAt(c, a, W)
  <2> HIDE DEF c
  <2>1. \A j \in 1..Len(W) : a + j \in 1..Len(b)
    BY <1>2, <1>6, <1>7
  <2> QED BY <1>2, <1>6, <1>7, <2>1 DEF HoldsAt
<1>9. Stored(c, args, T)
  BY <1>3, <1>4
<1> HIDE DEF c
<1>10. \A k \in 1..Len(V) : HoldsAt(c, args[k], V[k])
  <2>1. \A k \in 1..Len(V) : k \in 1..Len(T) \/ k = Len(T) + 1
    BY <1>2, <1>5
  <2>2. \A k \in 1..Len(T) : HoldsAt(c, args[k], V[k])
    BY <1>5, <1>9 DEF Stored
  <2>3. HoldsAt(c, args[Len(T) + 1], V[Len(T) + 1])
    BY <1>5, <1>8 DEF a
  <2> QED BY <2>1, <2>2, <2>3
<1>11. Stored(c, args, V)
  BY <1>5, <1>9, <1>10 DEF Stored
<1> QED BY <1>1, <1>5, <1>11 DEF Closed, c, V

-----------------------------------------------------------------------------
(* What parse_tokens has read of the command.                              *)
Prefix == SubSeq(command, 1, current - 1)

(* While it reads: F are the segments behind it and t the one it is in, of  *)
(* which W stands in the buffer.                                           *)
Place(F, t, W) ==
  /\ Cut(Prefix, delimeters, F, t)
  /\ Part(t, delimeters, W)
  /\ escaped <=> Escaped(Prefix, Len(Prefix) + 1)
  /\ escaped <=> Escaped(t, Len(t) + 1)
  /\ add_arg <=> t = <<>>
  /\ LET done == Strung(F, delimeters, allow_empty)
     IN  IF add_arg THEN Closed(buffer, arguments, done) ELSE Opened(buffer, arguments, done, W)

Reading == returned = "running" => \E F, t, W : Place(F, t, W)

(* What it answers.                                                        *)
Answer ==
  LET expected == Split(command, delimeters, allow_empty)
  IN  /\ returned = "tokens" => Closed(buffer, arguments, expected)
      /\ returned \in {"null", "crashed"} => Len(expected) >= MAX_ARGS

Follows == Reading /\ Answer

LEMMA CallFollows ==
  ASSUME NEW string \in Seq(Character), NEW set, NEW empty, Call(string, set, empty)
  PROVE  Follows'
<1>1. /\ Prefix' = SubSeq(string, 1, 0) /\ delimeters' = set /\ escaped' = FALSE /\ add_arg' = TRUE
      /\ arguments' = <<>> /\ buffer' = <<>> /\ returned' = "running" /\ allow_empty' = empty
  BY DEF Call, Prefix
<1>2. Prefix' = <<>>
  BY <1>1, SubSeqEmpty
<1>3. Cut(<<>>, set, <<>>, <<>>)
  BY CutNone
<1>4. ~Escaped(<<>>, Len(<<>>) + 1)
  BY EscapedFirst
<1>5. Part(<<>>, set, <<>>)
  BY <1>4, UnescapedNone DEF Part
<1>6. Closed(<<>>, <<>>, Strung(<<>>, set, empty))
  <2>1. Strung(<<>>, set, empty) = <<>>
    BY StrungNone
  <2>2. Stored(<<>>, <<>>, <<>>)
    BY DEF Stored
  <2> QED BY <2>1, <2>2 DEF Closed
<1>7. Place(<<>>, <<>>, <<>>)'
  BY <1>1, <1>2, <1>3, <1>4, <1>5, <1>6 DEF Place
<1> QED BY <1>1, <1>7 DEF Follows, Reading, Answer

LEMMA PrefixStep ==
  ASSUME TokenizerInv, More
  PROVE  /\ Prefix \in Seq(Character) /\ Here \in Character
         /\ SubSeq(command, 1, (current + 1) - 1) = Append(Prefix, Here)
<1>1. command \in Seq(Character) /\ current \in 1..Len(command)
  BY DEF TokenizerInv, TokenizerTypeOK, More
<1> DEFINE n == current - 1
<1>2. n \in 0..(Len(command) - 1) /\ n + 1 = current /\ (current + 1) - 1 = n + 1
  BY <1>1
<1> HIDE DEF n
<1>3. /\ SubSeq(command, 1, n) \in Seq(Character) /\ command[n + 1] \in Character
      /\ SubSeq(command, 1, n + 1) = Append(SubSeq(command, 1, n), command[n + 1])
  BY <1>1, <1>2, PrefixNext
<1>4. SubSeq(command, 1, n) = Prefix
  BY DEF n, Prefix
<1> QED BY <1>2, <1>3, <1>4 DEF Here

LEMMA PrefixEnd == TokenizerInv /\ AtEnd => Prefix = command
<1> SUFFICES ASSUME TokenizerInv, AtEnd PROVE Prefix = command
  OBVIOUS
<1>1. command \in Seq(Character) /\ current - 1 = Len(command)
  BY DEF TokenizerInv, TokenizerTypeOK, AtEnd
<1> QED BY <1>1, SubSeqFull DEF Prefix

(* What a token, begun if need be, looks like.                             *)
LEMMA InHand ==
  ASSUME NEW F, NEW t, NEW W, Place(F, t, W), TokenizerInv
  PROVE  /\ LET args == IF add_arg THEN Append(arguments, Len(buffer)) ELSE arguments
            IN  Opened(buffer, args, Strung(F, delimeters, allow_empty), W)
         /\ F \in Seq(Seq(Character)) /\ t \in Seq(Character) /\ W \in Seq(Character)
         /\ Unescaped(t, delimeters) = IF escaped THEN Append(W, Backslash) ELSE W
<1>1. F \in Seq(Seq(Character)) /\ t \in Seq(Character)
  BY DEF Place, Cut
<1>2. Unescaped(t, delimeters) = (IF escaped THEN Append(W, Backslash) ELSE W) /\ W \in Seq(Character)
  <2>1. /\ W \in Seq(Character) /\ (escaped <=> Escaped(t, Len(t) + 1))
        /\ Unescaped(t, delimeters) = IF Escaped(t, Len(t) + 1) THEN Append(W, Backslash) ELSE W
    BY DEF Place, Part
  <2>2. CASE escaped
    BY <2>1, <2>2
  <2>3. CASE ~escaped
    BY <2>1, <2>3
  <2> QED BY <2>1, <2>2, <2>3
<1>3. CASE add_arg
  <2>1. t = <<>> /\ ~escaped
    BY <1>3 DEF Place, TokenizerInv, HeldInToken
  <2>2. W = <<>>
    BY <2>1, <1>2, UnescapedNone
  <2>3. Closed(buffer, arguments, Strung(F, delimeters, allow_empty))
    BY <1>3 DEF Place
  <2>4. Opened(buffer, Append(arguments, Len(buffer)), Strung(F, delimeters, allow_empty), <<>>)
    BY <2>3, TokenBegins
  <2> QED BY <2>2, <2>4, <1>1, <1>2, <1>3
<1>4. CASE ~add_arg
  BY <1>1, <1>2, <1>4 DEF Place
<1> QED BY <1>3, <1>4

LEMMA EndSegmentFollows == TokenizerInv /\ Reading /\ EndSegment => Follows'
<1> SUFFICES ASSUME TokenizerInv, Reading, EndSegment PROVE Follows'
  OBVIOUS
<1>1. More /\ Here \in delimeters /\ ~escaped /\ delimeters \in SUBSET (Character \ {Backslash})
  BY DEF EndSegment, AtBreak, TokenizerInv, TokenizerTypeOK
<1>2. PICK F, t, W : Place(F, t, W)
  BY <1>1 DEF Reading, More
<1>3. PICK p, x, set, empty, done :
        /\ p = Prefix /\ x = Here /\ set = delimeters /\ empty = allow_empty
        /\ done = Strung(F, delimeters, allow_empty)
  OBVIOUS
<1>4. PICK b, args :
        b = buffer /\ args = IF add_arg THEN Append(arguments, Len(buffer)) ELSE arguments
  OBVIOUS
<1>5. p \in Seq(Character) /\ x \in Character /\ Prefix' = Append(p, x)
  BY <1>1, <1>3, PrefixStep DEF EndSegment, Prefix, call
<1>6. /\ Opened(b, args, done, W)
      /\ F \in Seq(Seq(Character)) /\ t \in Seq(Character) /\ W \in Seq(Character)
      /\ Unescaped(t, set) = W
  BY <1>1, <1>2, <1>3, <1>4, InHand
<1>7. Cut(p, set, F, t) /\ ~Escaped(p, Len(p) + 1) /\ (add_arg <=> t = <<>>)
  BY <1>1, <1>2, <1>3 DEF Place
<1>8. Cut(Append(p, x), set, Append(F, t), <<>>)
  BY <1>1, <1>3, <1>5, <1>7, CutAtBreak
<1>9. ~Escaped(Append(p, x), Len(Append(p, x)) + 1) /\ ~Escaped(<<>>, Len(<<>>) + 1)
  BY <1>1, <1>3, <1>5, EscapedAppend, EscapedFirst
<1>10. Part(<<>>, set, <<>>)
  BY <1>9, UnescapedNone DEF Part
<1>11. Strung(Append(F, t), set, empty) = IF empty \/ t # <<>> THEN Append(done, W) ELSE done
  BY <1>3, <1>6, StrungAppend
<1>12. /\ UNCHANGED <<command, delimeters, allow_empty, escaped, returned>>
       /\ add_arg' = TRUE /\ returned = "running"
       /\ arguments' = IF allow_empty /\ add_arg THEN Append(arguments, Len(buffer)) ELSE arguments
       /\ buffer' = IF allow_empty \/ ~add_arg THEN Append(buffer, Nul) ELSE buffer
  BY <1>1 DEF EndSegment, call, More
<1>13. Closed(buffer, arguments, Strung(Append(F, t), set, empty))'
  <2>1. CASE empty \/ t # <<>>
    <3>1. arguments' = args /\ buffer' = Append(b, Nul)
      BY <2>1, <1>3, <1>4, <1>7, <1>12
    <3>2. Closed(Append(b, Nul), args, Append(done, W))
      BY <1>6, TokenEnds
    <3>3. Strung(Append(F, t), set, empty) = Append(done, W)
      BY <2>1, <1>11
    <3> QED BY <3>1, <3>2, <3>3
  <2>2. CASE ~(empty \/ t # <<>>)
    <3>1. arguments' = arguments /\ buffer' = buffer
      BY <2>2, <1>3, <1>7, <1>12
    <3>2. Closed(buffer, arguments, done)
      BY <2>2, <1>2, <1>3, <1>7 DEF Place
    <3>3. Strung(Append(F, t), set, empty) = done
      BY <2>2, <1>11
    <3> QED BY <3>1, <3>2, <3>3 DEF Closed, Stored
  <2> QED BY <2>1, <2>2
<1>14. PICK G : G = Append(F, t)
  OBVIOUS
<1>15. Place(G, <<>>, <<>>)'
  BY <1>1, <1>3, <1>5, <1>8, <1>9, <1>10, <1>12, <1>13, <1>14 DEF Place
<1> QED BY <1>12, <1>15 DEF Follows, Reading, Answer

LEMMA ReadFollows == TokenizerInv /\ Reading /\ Read => Follows'
<1> SUFFICES ASSUME TokenizerInv, Reading, Read PROVE Follows'
  OBVIOUS
<1>1. More /\ ~(Here \in delimeters /\ ~escaped) /\ escaped \in BOOLEAN
  BY DEF Read, AtBreak, TokenizerInv, TokenizerTypeOK
<1>2. PICK F, t, W : Place(F, t, W)
  BY <1>1 DEF Reading, More
<1>3. PICK p, x, set, done, held :
        /\ p = Prefix /\ x = Here /\ set = delimeters
        /\ done = Strung(F, delimeters, allow_empty) /\ held = escaped
  OBVIOUS
<1>4. PICK b, args :
        b = buffer /\ args = IF add_arg THEN Append(arguments, Len(buffer)) ELSE arguments
  OBVIOUS
<1>5. p \in Seq(Character) /\ x \in Character /\ Prefix' = Append(p, x)
  BY <1>1, <1>3, PrefixStep DEF Read, Prefix, call
<1>6. /\ Opened(b, args, done, W)
      /\ F \in Seq(Seq(Character)) /\ t \in Seq(Character) /\ W \in Seq(Character)
  BY <1>2, <1>3, <1>4, InHand
<1>7. /\ Cut(p, set, F, t) /\ Part(t, set, W)
      /\ held <=> Escaped(p, Len(p) + 1)
      /\ held <=> Escaped(t, Len(t) + 1)
  BY <1>2, <1>3 DEF Place
<1>8. PICK u, V : u = Append(t, x) /\ V = PartWith(W, Escaped(t, Len(t) + 1), set, x)
  OBVIOUS
<1>9. Cut(Append(p, x), set, F, u) /\ Part(u, set, V)
  <2>1. ~(x \in set /\ ~Escaped(p, Len(p) + 1))
    BY <1>1, <1>3, <1>7
  <2> QED BY <2>1, <1>5, <1>6, <1>7, <1>8, CutInside, PartAppend
<1>10. /\ Escaped(Append(p, x), Len(Append(p, x)) + 1) <=> x = Backslash /\ ~held
       /\ Escaped(u, Len(u) + 1) <=> x = Backslash /\ ~held
  BY <1>5, <1>6, <1>7, <1>8, EscapedAppend
<1>11. u # <<>>
  BY <1>6, <1>8
<1>12. /\ UNCHANGED <<command, delimeters, allow_empty, returned>>
       /\ add_arg' = FALSE /\ returned = "running" /\ arguments' = args
  BY <1>1, <1>4 DEF Read, call, More
<1>13. (escaped' <=> x = Backslash /\ ~held) /\ Opened(buffer', args, done, V)
  <2>1. CASE Hold
    <3>1. x = Backslash /\ ~held /\ escaped' = TRUE /\ buffer' = b
      BY <2>1, <1>3, <1>4 DEF Hold
    <3>2. V = W
      BY <3>1, <1>7, <1>8 DEF PartWith
    <3> QED BY <3>1, <3>2, <1>6
  <2>2. CASE Put
    <3>1. /\ x # Backslash \/ held
          /\ escaped' = FALSE
          /\ buffer' = IF held /\ x \notin set \cup {Backslash}
                       THEN b \o <<Backslash, x>> ELSE Append(b, x)
      BY <2>2, <1>3, <1>4 DEF Put
    <3>2. Backslash \in Character
      BY CharacterAssumption
    <3>3. CASE held /\ x \notin set \cup {Backslash}
      <4>1. V = W \o <<Backslash, x>> /\ buffer' = b \o <<Backslash, x>>
        BY <3>1, <3>3, <1>7, <1>8 DEF PartWith
      <4>2. <<Backslash, x>> \in Seq(Character)
        BY <3>2, <1>5
      <4>3. Opened(b \o <<Backslash, x>>, args, done, W \o <<Backslash, x>>)
        BY <4>2, <1>6, TokenGoesOn
      <4> QED BY <3>1, <3>3, <4>1, <4>3
    <3>4. CASE ~(held /\ x \notin set \cup {Backslash})
      <4>1. V = Append(W, x) /\ buffer' = Append(b, x)
        BY <3>1, <3>4, <1>7, <1>8 DEF PartWith
      <4>2. b \in Seq(Bytes) /\ x \in Bytes /\ <<x>> \in Seq(Character)
        BY <1>5, <1>6 DEF Opened, Stored, Bytes
      <4>3. Append(W, x) = W \o <<x>> /\ Append(b, x) = b \o <<x>>
        BY <4>2, <1>5, <1>6, AppendedIsJoined
      <4>4. Opened(b \o <<x>>, args, done, W \o <<x>>)
        BY <4>2, <1>6, TokenGoesOn
      <4> QED BY <3>1, <4>1, <4>3, <4>4
    <3> QED BY <3>3, <3>4
  <2> QED BY <2>1, <2>2 DEF Read
<1>14. Place(F, u, V)'
  BY <1>3, <1>5, <1>9, <1>10, <1>11, <1>12, <1>13 DEF Place
<1> QED BY <1>12, <1>14 DEF Follows, Reading, Answer

LEMMA TooManyFollows == TokenizerInv /\ Reading /\ TooMany => Follows'
<1> SUFFICES ASSUME TokenizerInv, Reading, TooMany PROVE Follows'
  OBVIOUS
<1>1. /\ More /\ ~(Here \in delimeters /\ ~escaped) /\ add_arg /\ Full(Len(arguments) + 1)
      /\ UNCHANGED <<command, delimeters, allow_empty>> /\ returned' \in {"null", "crashed"}
  BY DEF TooMany, AtBreak, call, Refused
<1>2. PICK F, t, W : Place(F, t, W)
  BY <1>1 DEF Reading, More
<1>3. PICK p, x, set, empty, done :
        /\ p = Prefix /\ x = Here /\ set = delimeters /\ empty = allow_empty
        /\ done = Strung(F, delimeters, allow_empty)
  OBVIOUS
<1>4. p \in Seq(Character) /\ x \in Character /\ SubSeq(command, 1, current) = Append(p, x)
  <2>1. (current + 1) - 1 = current
    BY DEF TokenizerInv, TokenizerTypeOK
  <2> QED BY <2>1, <1>1, <1>3, PrefixStep
<1>5. /\ Closed(buffer, arguments, done)
      /\ F \in Seq(Seq(Character)) /\ t \in Seq(Character)
      /\ Cut(p, set, F, t) /\ (escaped <=> Escaped(p, Len(p) + 1))
  BY <1>1, <1>2, <1>3 DEF Place, Cut
<1>6. PICK u : u = Append(t, x)
  OBVIOUS
<1>7. Cut(Append(p, x), set, F, u)
  BY <1>1, <1>3, <1>4, <1>5, <1>6, CutInside
<1>8. u # <<>> /\ u \in Seq(Character)
  BY <1>4, <1>5, <1>6
<1>9. Split(Append(p, x), set, empty) = Append(done, Unescaped(u, set))
  <2>1. Split(Append(p, x), set, empty)
          = IF empty \/ u # <<>> THEN Append(Strung(F, set, empty), Unescaped(u, set))
            ELSE Strung(F, set, empty)
    BY <1>7, SplitCut
  <2> QED BY <2>1, <1>3, <1>8
<1>10. Len(Split(Append(p, x), set, empty)) = Len(arguments) + 1
  <2>1. done \in Seq(Seq(Character)) /\ Len(arguments) = Len(done)
    BY <1>5 DEF Closed, Stored
  <2>2. Unescaped(u, set) \in Seq(Character)
    BY <1>8, UnescapedIs
  <2>3. Len(Append(done, Unescaped(u, set))) = Len(done) + 1
    BY <2>1, <2>2, ListAppended
  <2> QED BY <2>1, <2>3, <1>9
<1>11. Len(Split(Append(p, x), set, empty)) <= Len(Split(command, set, empty))
  <2>1. PICK c, n : c = command /\ n = current
    OBVIOUS
  <2>2. c \in Seq(Character) /\ n \in 0..Len(c)
    BY <1>1, <2>1 DEF More, TokenizerInv, TokenizerTypeOK
  <2>3. Len(Split(SubSeq(c, 1, n), set, empty)) <= Len(Split(c, set, empty))
    BY <2>2, SplitPrefix
  <2> QED BY <2>1, <2>3, <1>4
<1>12. Len(arguments) + 1 >= MAX_ARGS
  BY <1>1 DEF Full
<1>13. Len(Split(command, set, empty)) \in Nat /\ Len(arguments) \in Nat /\ MAX_ARGS \in Nat
  <2>1. PICK c : c = command
    OBVIOUS
  <2>2. c \in Seq(Character)
    BY <2>1 DEF TokenizerInv, TokenizerTypeOK
  <2>3. Len(Split(c, set, empty)) \in Nat
    BY <2>2, SplitIs
  <2>4. Len(arguments) \in Nat
    BY DEF TokenizerInv, TokenizerTypeOK
  <2> QED BY <2>1, <2>3, <2>4, MaxArgsAssumption
<1>14. Len(Split(command, set, empty)) >= MAX_ARGS
  BY <1>10, <1>11, <1>12, <1>13
<1>15. Len(Split(command', delimeters', allow_empty')) >= MAX_ARGS
  BY <1>1, <1>3, <1>14
<1> QED BY <1>1, <1>15 DEF Follows, Reading, Answer

LEMMA EndFollows == TokenizerInv /\ Reading /\ End => Follows'
<1> SUFFICES ASSUME TokenizerInv, Reading, End PROVE Follows'
  OBVIOUS
<1>1. AtEnd /\ UNCHANGED <<command, delimeters, allow_empty>> /\ returned' \in {"tokens", "null", "crashed"}
  BY DEF End, EndEscaped, EndEmpty, EndToken, call, Refused
<1>2. PICK F, t, W : Place(F, t, W)
  BY <1>1 DEF Reading, AtEnd
<1>3. PICK p, set, empty, done, held, add :
        /\ p = Prefix /\ set = delimeters /\ empty = allow_empty
        /\ done = Strung(F, delimeters, allow_empty) /\ held = escaped /\ add = add_arg
  OBVIOUS
<1>4. PICK b, args :
        b = buffer /\ args = IF add_arg THEN Append(arguments, Len(buffer)) ELSE arguments
  OBVIOUS
<1>5. p = command
  BY <1>1, <1>3, PrefixEnd
<1>6. /\ Opened(b, args, done, W)
      /\ F \in Seq(Seq(Character)) /\ t \in Seq(Character) /\ W \in Seq(Character)
      /\ Unescaped(t, set) = IF held THEN Append(W, Backslash) ELSE W
  BY <1>2, <1>3, <1>4, InHand
<1>7. Cut(p, set, F, t) /\ (add <=> t = <<>>) /\ (held => ~add)
  BY <1>2, <1>3 DEF Place, TokenizerInv, HeldInToken
<1>8. Split(p, set, empty) = IF empty \/ t # <<>> THEN Append(done, Unescaped(t, set)) ELSE done
  <2>1. Split(p, set, empty)
          = IF empty \/ t # <<>> THEN Append(Strung(F, set, empty), Unescaped(t, set))
            ELSE Strung(F, set, empty)
    BY <1>7, SplitCut
  <2> QED BY <2>1, <1>3
<1>9. returned' # "running" /\ command' = p /\ delimeters' = set /\ allow_empty' = empty
  BY <1>1, <1>3, <1>5
<1>10. b \in Seq(Bytes) /\ Len(args) = Len(done) + 1 /\ done \in Seq(Seq(Character))
  BY <1>6 DEF Opened, Stored
<1>11. CASE EndEscaped
  <2>1. held /\ buffer' = b \o <<Backslash, Nul>> /\ arguments' = args /\ returned' = "tokens"
    BY <1>3, <1>4, <1>7, <1>11 DEF EndEscaped
  <2>2. Split(p, set, empty) = Append(done, Append(W, Backslash))
    BY <2>1, <1>6, <1>7, <1>8
  <2>3. Backslash \in Character /\ <<Backslash>> \in Seq(Character)
    BY CharacterAssumption
  <2>4. Opened(b \o <<Backslash>>, args, done, W \o <<Backslash>>)
    BY <2>3, <1>6, TokenGoesOn
  <2>5. Closed(Append(b \o <<Backslash>>, Nul), args, Append(done, W \o <<Backslash>>))
    BY <2>4, TokenEnds
  <2>6. W \o <<Backslash>> = Append(W, Backslash)
    BY <2>3, <1>6, AppendedIsJoined
  <2>7. Append(b \o <<Backslash>>, Nul) = b \o <<Backslash, Nul>>
    <3>1. Backslash \in Bytes /\ Nul \in Bytes
      BY <2>3 DEF Bytes
    <3> HIDE DEF Bytes
    <3> QED BY <3>1, <1>10
  <2>8. Closed(buffer', arguments', Split(p, set, empty))
    BY <2>1, <2>2, <2>5, <2>6, <2>7
  <2> QED BY <2>1, <2>8, <1>9 DEF Follows, Reading, Answer
<1>12. CASE EndEmpty
  <2>1. /\ ~held /\ add /\ empty /\ buffer' = Append(b, Nul) /\ arguments' = args
        /\ returned' \in IF Full(Len(args)) THEN Refused(args) ELSE {"tokens"}
    BY <1>3, <1>4, <1>12 DEF EndEmpty
  <2>2. Split(p, set, empty) = Append(done, W)
    BY <2>1, <1>6, <1>8
  <2>3. Closed(Append(b, Nul), args, Append(done, W))
    BY <1>6, TokenEnds
  <2>4. Len(Append(done, W)) = Len(args)
    BY <1>6, <1>10, ListAppended
  <2>5. returned' \in {"null", "crashed"} => Len(args) >= MAX_ARGS
    BY <2>1 DEF Full
  <2>6. Closed(buffer', arguments', Split(p, set, empty))
    BY <2>1, <2>2, <2>3
  <2>7. returned' \in {"null", "crashed"} => Len(Split(p, set, empty)) >= MAX_ARGS
    BY <2>2, <2>4, <2>5
  <2> QED BY <2>6, <2>7, <1>9 DEF Follows, Reading, Answer
<1>13. CASE EndToken
  <2>1. ~held /\ ~(add /\ empty) /\ buffer' = Append(b, Nul) /\ arguments' = arguments /\ returned' = "tokens"
    BY <1>3, <1>4, <1>13 DEF EndToken
  <2>2. CASE add
    <3>1. Split(p, set, empty) = done
      BY <2>1, <2>2, <1>7, <1>8
    <3>2. PICK as : as = arguments
      OBVIOUS
    <3>3. Closed(b, as, done)
      BY <2>2, <3>2, <1>2, <1>3, <1>4 DEF Place
    <3>4. Closed(Append(b, Nul), as, done)
      BY <3>3, ClosedMore
    <3> QED BY <2>1, <3>1, <3>2, <3>4, <1>9 DEF Follows, Reading, Answer
  <2>3. CASE ~add
    <3>1. Split(p, set, empty) = Append(done, W)
      BY <2>1, <2>3, <1>6, <1>7, <1>8
    <3>2. Closed(Append(b, Nul), args, Append(done, W))
      BY <1>6, TokenEnds
    <3>3. args = arguments
      BY <2>3, <1>3, <1>4
    <3> QED BY <2>1, <3>1, <3>2, <3>3, <1>9 DEF Follows, Reading, Answer
  <2> QED BY <2>2, <2>3
<1> QED BY <1>11, <1>12, <1>13 DEF End

(* The strings read out of the buffer are the ones that were stored.       *)
LEMMA StringStored ==
  ASSUME NEW a \in Nat, NEW w \in Seq(Character), TokenizerInv, HoldsAt(buffer, a, w)
  PROVE  StringAt(a) = w
<1> DEFINE nuls == {n \in DOMAIN buffer : n > a /\ buffer[n] = Nul}
           e == a + Len(w) + 1
<1>1. /\ buffer \in Seq(Character \cup {Nul}) /\ Len(buffer) \in Nat /\ Len(w) \in Nat
      /\ \A j \in 1..Len(w) : w[j] \in Character
      /\ \A j \in 1..Len(w) : buffer[a + j] = w[j]
      /\ e <= Len(buffer) /\ buffer[e] = Nul
  BY DEF TokenizerInv, TokenizerTypeOK, HoldsAt
<1>2. e \in nuls /\ nuls \in SUBSET Nat
  BY <1>1
<1>3. ASSUME NEW n \in nuls PROVE e <= n
  <2>1. CASE n < e
    <3>1. n - a \in 1..Len(w) /\ a + (n - a) = n
      BY <2>1, <1>1
    <3>2. buffer[n] = w[n - a] /\ w[n - a] \in Character
      BY <3>1, <1>1
    <3> QED BY <3>2, NulAssumption
  <2> QED BY <2>1, <1>1
<1>4. Min(nuls) = e
  <2> HIDE DEF nuls, e
  <2>1. Min(nuls) \in nuls /\ \A y \in nuls : Min(nuls) <= y
    BY <1>2, MinOfNats
  <2>2. Min(nuls) \in Nat /\ e \in Nat
    BY <2>1, <1>2
  <2> QED BY <2>1, <2>2, <1>2, <1>3
<1> DEFINE m == a + 1
           l == a + Len(w)
           s == SubSeq(buffer, m, l)
<1>5. StringAt(a) = s
  <2>1. e - 1 = l
    BY <1>1
  <2> QED BY <2>1, <1>4 DEF StringAt
<1>6. m \in Int /\ l \in Int /\ l - m + 1 = Len(w) /\ (IF m <= l THEN l - m + 1 ELSE 0) = Len(w)
  <2>1. a \in Nat /\ Len(w) \in Nat
    BY <1>1
  <2> QED BY ONLY <2>1
<1>7. \A k \in m..l : buffer[k] \in Character \cup {Nul}
  <2>1. \A k \in 1..Len(buffer) : buffer[k] \in Character \cup {Nul}
    BY <1>1
  <2>2. \A k \in m..l : k \in 1..Len(buffer)
    BY <1>1
  <2> QED BY <2>1, <2>2
<1>8. \A k \in 1..Len(w) : m + k - 1 = a + k
  BY <1>1
<1> HIDE DEF m, l
<1> DEFINE B == Character \cup {Nul}
<1>9. /\ s \in Seq(B) /\ Len(s) = (IF m <= l THEN l - m + 1 ELSE 0)
      /\ \A k \in 1..(l - m + 1) : s[k] = buffer[m + k - 1]
  <2>1. \A k \in m..l : buffer[k] \in B
    BY <1>7
  <2> HIDE DEF B
  <2> QED BY <1>6, <2>1, SubSeqProperties
<1> HIDE DEF s
<1>10. Len(s) = Len(w) /\ \A k \in 1..Len(s) : s[k] = w[k]
  <2>1. Len(s) = Len(w)
    BY <1>6, <1>9
  <2>2. \A k \in 1..Len(w) : s[k] = buffer[a + k]
    BY <1>6, <1>8, <1>9
  <2> QED BY <2>1, <2>2, <1>1
<1>11. w \in Seq(B)
  OBVIOUS
<1> HIDE DEF B
<1>12. s = w
  BY <1>9, <1>10, <1>11, SeqEqual
<1> QED BY <1>5, <1>12

(* From the first call on.                                                 *)
Called == IF pc = "start" THEN returned = "null" ELSE Follows

LEMMA InitCalled == Init => Called
BY DEF Init, TokenizerInit, Called

LEMMA CalledStep == ParserInv /\ Called /\ [Next]_vars => Called'
<1> SUFFICES ASSUME ParserInv, Called, [Next]_vars PROVE Called'
  OBVIOUS
<1>1. pc' = "start" => pc = "start" /\ UNCHANGED tokenizerVars
  <2>1. CASE UNCHANGED vars
    BY <2>1 DEF vars, parserVars
  <2>2. CASE Tokenize
    <3>1. pc' = pc /\ returned = "running"
      BY <2>2 DEF Tokenize, parserVars, Turn, End, EndSegment, TooMany, Read, More,
                  EndEscaped, EndEmpty, EndToken, AtEnd
    <3> QED BY <3>1 DEF Called
  <2>3. CASE Next /\ ~Tokenize
    <3>1. pc' # "start"
      BY <2>3 DEF Next, CutLine, SplitLine, BeginProcess, SplitPiece, Argument, BeginRedirect,
                  AddRedirect, ErrorProcess, EndProcess, BuiltinInPipeline, RunBuiltin, StartJob, Return, InTokens
    <3> QED BY <3>1
  <2> QED BY <2>1, <2>2, <2>3
<1>2. CASE pc' = "start"
  BY <1>1, <1>2 DEF Called, tokenizerVars
<1>3. CASE pc' # "start" /\ TokenizerNext
  <2>1. CASE Turn \/ End
    <3>1. returned = "running"
      BY <2>1 DEF Turn, End, EndSegment, TooMany, Read, More, EndEscaped, EndEmpty, EndToken, AtEnd
    <3>2. TokenizerInv /\ Reading
      BY <3>1 DEF ParserInv, Called, Follows
    <3>3. Follows'
      BY <2>1, <3>2, EndSegmentFollows, TooManyFollows, ReadFollows, EndFollows DEF Turn
    <3> QED BY <3>3, <1>3 DEF Called
  <2>2. CASE ~(Turn \/ End)
    <3>1. PICK string \in Seq(Character), set \in SUBSET (Character \ {Backslash}), empty \in BOOLEAN :
            Call(string, set, empty)
      BY <2>2, <1>3 DEF TokenizerNext
    <3>2. Follows'
      BY <3>1, CallFollows
    <3> QED BY <3>2, <1>3 DEF Called
  <2> QED BY <2>1, <2>2
<1>4. CASE pc' # "start" /\ UNCHANGED tokenizerVars
  <2>1. pc # "start"
    <3>1. ~CutLine
      BY <1>4 DEF CutLine, Call, tokenizerVars, call, Called
    <3> QED BY <3>1, <1>4 DEF Next, Tokenize, parserVars, vars, SplitLine, BeginProcess, SplitPiece, Argument,
                  BeginRedirect, AddRedirect, ErrorProcess, EndProcess, BuiltinInPipeline, RunBuiltin,
                  StartJob, Return, InTokens, BadToken, AllParsed
  <2>2. Follows => Follows'
    BY <1>4 DEF tokenizerVars, call, Follows, Reading, Answer, Place, Prefix
  <2> QED BY <2>1, <2>2, <1>4 DEF Called
<1>5. [TokenizerNext]_tokenizerVars
  BY CallStep DEF ParserInv, vars
<1> QED BY <1>2, <1>3, <1>4, <1>5

(* parse_tokens returns the pieces of its string between the delimiters,   *)
(* with the escapes resolved, and NULL exactly when they are too many: for *)
(* every line, every set of builtins and every MAX_ARGS.                   *)
THEOREM SplitsAsSaid == Spec => []Splits
<1>1. ParserInv /\ Called /\ [Next]_vars => Called'
  BY CalledStep
<1>2. ParserInv /\ Called => Splits
  <2> SUFFICES ASSUME ParserInv, Called, pc \in {"split", "words", "sides"}
               PROVE  Splits
    BY DEF Splits
  <2>1. PICK T : T = Split(command, delimeters, allow_empty)
    OBVIOUS
  <2>2. Follows /\ TokenizerInv
    BY DEF Called, ParserInv
  <2>3. ASSUME returned = "tokens" PROVE Result = T /\ Len(T) < MAX_ARGS
    <3>1. PICK b, args : b = buffer /\ args = arguments
      OBVIOUS
    <3>2. Closed(b, args, T)
      BY <2>1, <2>2, <2>3, <3>1 DEF Follows, Answer
    <3>3. /\ args \in Seq(Nat) /\ T \in Seq(Seq(Character)) /\ Len(args) = Len(T)
          /\ \A k \in 1..Len(T) : HoldsAt(b, args[k], T[k])
      BY <3>2 DEF Closed, Stored
    <3>4. Len(args) < MAX_ARGS
      BY <2>2, <2>3, <3>1 DEF TokenizerInv, BelowLimit
    <3>5. ASSUME NEW k \in 1..Len(T) PROVE StringAt(args[k]) = T[k]
      <4>1. args[k] \in Nat
        BY <3>3
      <4>2. T[k] \in Seq(Character)
        BY <3>3
      <4>3. HoldsAt(buffer, args[k], T[k])
        BY <3>1, <3>3
      <4> QED BY <4>1, <4>2, <4>3, <2>2, StringStored
    <3>6. Result = [n \in 1..Len(T) |-> T[n]]
      <4>1. Result = [n \in DOMAIN args |-> StringAt(args[n])]
        BY <2>3, <3>1 DEF Result
      <4>2. DOMAIN args = 1..Len(T)
        BY <3>3
      <4> QED BY <4>1, <4>2, <3>5
    <3>7. T = [n \in 1..Len(T) |-> T[n]]
      BY <3>3
    <3> QED BY <3>3, <3>4, <3>6, <3>7
  <2>4. ASSUME returned \in {"null", "crashed"} PROVE ~(Len(T) < MAX_ARGS)
    <3>1. Len(T) >= MAX_ARGS
      BY <2>1, <2>2, <2>4 DEF Follows, Answer
    <3>2. Len(T) \in Nat /\ MAX_ARGS \in Nat
      <4>1. PICK c : c = command
        OBVIOUS
      <4>2. c \in Seq(Character)
        BY <4>1, <2>2 DEF TokenizerInv, TokenizerTypeOK
      <4> QED BY <4>1, <4>2, <2>1, SplitIs, MaxArgsAssumption
    <3> QED BY <3>1, <3>2
  <2>5. returned \in {"running", "tokens", "null", "crashed"}
    BY <2>2 DEF TokenizerInv, TokenizerTypeOK
  <2> QED BY <2>1, <2>3, <2>4, <2>5 DEF Splits
<1> QED BY <1>1, <1>2, InitCalled, ParserInvariant, PTL DEF Spec

=============================================================================
