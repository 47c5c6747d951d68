--------------------------- MODULE LineInputProofs ---------------------------
(***************************************************************************)
(* Proofs about LineInput, for every size of the buffer and for every      *)
(* bound.  RunsWholeLine speaks of the buffer when a line is complete and  *)
(* says nothing of what is still in the terminal.  Chained does: what was  *)
(* typed and not read is cut into pieces that follow each other, and       *)
(* Started says where the buffer is in the line that comes next.           *)
(***************************************************************************)
EXTENDS LineInput, SequenceTheorems, TLAPS

Characters == [line : Nat, after : Nat, newline : BOOLEAN]

(* A place in what was typed: a line, and how many of its characters are   *)
(* before it.                                                              *)
Places == [line : Nat, at : Nat]
Place(n, m) == [line |-> n, at |-> m]

Labels == {"prompt", "read_line", "test", "read", "mask", "run", "job", "left", "exited", "overrun"}

Typing ==
  /\ typing \in Seq(Characters)
  /\ queue \in Seq(Seq(Characters))
  /\ buffer \in Seq(Characters)
  /\ typed \in Seq(Nat) /\ Len(typed) >= 1
  /\ thrown \in Nat
  /\ pending \in BOOLEAN /\ masked \in BOOLEAN /\ sigint_received \in BOOLEAN /\ missed \in BOOLEAN
  /\ pc \in Labels
  /\ ret \in {"line", "NULL"}
  /\ Len(buffer) <= IF pc = "overrun" THEN 2 * BUFF_SIZE ELSE BUFF_SIZE
  /\ pc \in {"test", "read"} => ~masked

(* A chunk is a part of one line, typed since input was last thrown away,  *)
(* from place p to place q; only its last character may be the newline,    *)
(* and then the line is as long as it was typed.                           *)
Ends(chunk) == chunk # <<>> /\ chunk[Len(chunk)].newline

Part(chunk, n, now) ==
  \A i \in 1..Len(chunk) : chunk[i].line = n /\ chunk[i].after = now
                             /\ (chunk[i].newline => i = Len(chunk))

Piece(chunk, p, q, lengths, now) ==
  /\ Part(chunk, p.line, now)
  /\ IF Ends(chunk)
     THEN /\ q = Place(p.line + 1, 0)
          /\ p.line \in 1..(Len(lengths) - 1)
          /\ p.at + Len(chunk) = lengths[p.line] + 1
     ELSE q = Place(p.line, p.at + Len(chunk))

(* What the terminal has: chunk after chunk, and the line being edited.    *)
Chain(f, chunks, edited, lengths, now) ==
  /\ f \in [0..Len(chunks) -> Places]
  /\ \A j \in 1..Len(chunks) : Piece(chunks[j], f[j - 1], f[j], lengths, now)
  /\ Part(edited, Len(lengths), now)
  /\ ~Ends(edited)
  /\ f[Len(chunks)].line = Len(lengths)
  /\ f[Len(chunks)].at + Len(edited) = lengths[Len(lengths)]

(* Where the next character that is read stands.                           *)
Reading == pc \in {"test", "read"} /\ ~sigint_received /\ ~pending
Between == \/ pc \in {"prompt", "read_line"} /\ ~missed
           \/ pc \in {"test", "read"} /\ ~missed /\ (sigint_received \/ pending)
           \/ pc = "mask" /\ (ret = "line" \/ ~missed)
           \/ pc = "run"

Started(p) ==
  /\ Reading /\ ~missed => /\ p.at = Len(buffer)
                           /\ \A i \in 1..Len(buffer) : buffer[i].line = p.line /\ buffer[i].after = thrown
  /\ Between => p.at = 0

Chained == \E f : Chain(f, queue, typing, typed, thrown) /\ Started(f[0])

(* What is in the buffer.                                                  *)
Whole ==
  /\ \A i, j \in 1..Len(buffer) : buffer[i].line = buffer[j].line /\ buffer[i].after = buffer[j].after
  /\ pc # "overrun" => /\ buffer # <<>> /\ buffer[1].line \in 1..(Len(typed) - 1)
                       /\ Len(buffer) = typed[buffer[1].line] + 1

Filled ==
  /\ pc \in {"test", "read"} => \A i \in 1..Len(buffer) : ~buffer[i].newline
  /\ pc = "read" /\ ~missed => ~sigint_received
  /\ (pc = "mask" /\ ret = "line") \/ pc \in {"run", "overrun"} => missed \/ Whole

LineInv == Typing /\ Chained /\ Filled

-----------------------------------------------------------------------------
(* Sequences of characters.                                                *)
LEMMA JoinedAre ==
  ASSUME NEW S, NEW s \in Seq(S), NEW t \in Seq(S)
  PROVE  /\ s \o t \in Seq(S) /\ Len(s \o t) = Len(s) + Len(t)
         /\ \A i \in 1..Len(s) : (s \o t)[i] = s[i]
         /\ \A i \in 1..Len(t) : (s \o t)[Len(s) + i] = t[i]
         /\ \A i \in 1..(Len(s) + Len(t)) : i \in 1..Len(s) \/ (i - Len(s) \in 1..Len(t) /\ (s \o t)[i] = t[i - Len(s)])
<1>1. /\ s \o t \in Seq(S) /\ Len(s \o t) = Len(s) + Len(t)
      /\ \A i \in 1..Len(s) + Len(t) : (s \o t)[i] = IF i <= Len(s) THEN s[i] ELSE t[i - Len(s)]
  BY ConcatProperties
<1>2. Len(s) \in Nat /\ Len(t) \in Nat
  BY LenProperties
<1>3. \A i \in 1..Len(s) : (s \o t)[i] = s[i]
  BY <1>1, <1>2
<1>4. \A i \in 1..Len(t) : (s \o t)[Len(s) + i] = t[i]
  <2> SUFFICES ASSUME NEW i \in 1..Len(t) PROVE (s \o t)[Len(s) + i] = t[i]
    OBVIOUS
  <2>1. Len(s) + i \in 1..Len(s) + Len(t) /\ ~(Len(s) + i <= Len(s)) /\ (Len(s) + i) - Len(s) = i
    BY <1>2
  <2> QED BY <2>1, <1>1
<1>5. \A i \in 1..(Len(s) + Len(t)) : i \in 1..Len(s) \/ (i - Len(s) \in 1..Len(t) /\ (s \o t)[i] = t[i - Len(s)])
  BY <1>1, <1>2
<1> QED BY <1>1, <1>3, <1>4, <1>5

(* What is typed next follows what was typed before.                       *)
LEMMA AppendPart ==
  ASSUME NEW s \in Seq(Characters), NEW n \in Nat, NEW now \in Nat, Part(s, n, now), ~Ends(s), NEW b \in BOOLEAN,
         NEW c, c = [line |-> n, after |-> now, newline |-> b]
  PROVE  /\ Append(s, c) \in Seq(Characters) /\ Len(Append(s, c)) = Len(s) + 1
         /\ Part(Append(s, c), n, now) /\ (Ends(Append(s, c)) <=> b)
<1> DEFINE t == Append(s, c)
<1>1. c \in Characters /\ c.line = n /\ c.after = now /\ c.newline = b
  BY DEF Characters
<1>2. /\ t \in Seq(Characters) /\ Len(t) = Len(s) + 1 /\ Len(s) \in Nat
      /\ \A i \in 1..Len(s) : t[i] = s[i]
      /\ t[Len(s) + 1] = c
  BY <1>1, AppendProperties, LenProperties
<1> HIDE DEF t
<1>3. \A i \in 1..Len(s) : ~s[i].newline
  <2> SUFFICES ASSUME NEW i \in 1..Len(s), s[i].newline PROVE FALSE
    OBVIOUS
  <2>1. i = Len(s) /\ s # <<>>
    BY DEF Part
  <2> QED BY <2>1 DEF Ends
<1>4. \A i \in 1..Len(t) : i \in 1..Len(s) \/ i = Len(s) + 1
  BY <1>2
<1>5. Part(t, n, now)
  BY <1>1, <1>2, <1>3, <1>4 DEF Part
<1>6. t # <<>> /\ (Ends(t) <=> b)
  <2>1. Len(t) = Len(s) + 1 /\ t # <<>>
    BY <1>2
  <2> QED BY <2>1, <1>1, <1>2 DEF Ends
<1> QED BY <1>2, <1>5, <1>6 DEF t

(* Nothing is left of what was typed.                                      *)
LEMMA NothingTyped ==
  ASSUME NEW lengths \in Seq(Nat), Len(lengths) >= 1, lengths[Len(lengths)] = 0, NEW now
  PROVE  LET f == [j \in 0..0 |-> Place(Len(lengths), 0)]
         IN  Chain(f, <<>>, <<>>, lengths, now) /\ f[0].at = 0 /\ f[0].line = Len(lengths)
<1> DEFINE f == [j \in 0..0 |-> Place(Len(lengths), 0)]
<1>1. Len(lengths) \in Nat
  BY LenProperties
<1>2. Place(Len(lengths), 0) \in Places /\ Place(Len(lengths), 0).at = 0 /\ Place(Len(lengths), 0).line = Len(lengths)
  BY <1>1 DEF Place, Places
<1>3. f \in [0..0 -> Places] /\ f[0] = Place(Len(lengths), 0)
  BY <1>2
<1> HIDE DEF f
<1>4. Chain(f, <<>>, <<>>, lengths, now)
  BY <1>2, <1>3 DEF Chain, Part, Ends
<1> QED BY <1>2, <1>3, <1>4 DEF f

(* Only the line that is edited, and later ones, differ in length; and a   *)
(* place more.                                                             *)
SameBefore(lengths, longer) ==
  /\ Len(lengths) >= 1 /\ Len(longer) >= Len(lengths)
  /\ \A k \in 1..(Len(lengths) - 1) : longer[k] = lengths[k]

OneMore(g, f, n, q) ==
  /\ g \in [0..(n + 1) -> Places] /\ g[n + 1] = q
  /\ \A j \in 0..n : g[j] = f[j]

(* A character more in the line that is edited.                            *)
LEMMA ChainTyped ==
  ASSUME NEW f, NEW chunks \in Seq(Seq(Characters)), NEW edited, NEW more, NEW lengths \in Seq(Nat), NEW longer \in Seq(Nat),
         NEW now, Chain(f, chunks, edited, lengths, now),
         Len(edited) \in Nat, Len(more) = Len(edited) + 1, Part(more, Len(lengths), now), ~Ends(more),
         Len(lengths) >= 1, Len(longer) = Len(lengths),
         \A k \in 1..(Len(lengths) - 1) : longer[k] = lengths[k],
         longer[Len(lengths)] = lengths[Len(lengths)] + 1
  PROVE  Chain(f, chunks, more, longer, now)
<1>1. Len(lengths) \in Nat /\ Len(chunks) \in Nat /\ lengths[Len(lengths)] \in Nat
  BY LenProperties, ElementOfSeq
<1>2. f \in [0..Len(chunks) -> Places] /\ f[Len(chunks)] \in Places
  BY <1>1 DEF Chain
<1>3. ASSUME NEW j \in 1..Len(chunks) PROVE Piece(chunks[j], f[j - 1], f[j], longer, now)
  <2>1. Piece(chunks[j], f[j - 1], f[j], lengths, now)
    BY DEF Chain
  <2> QED BY <2>1 DEF Piece
<1>4. /\ f[Len(chunks)].line = Len(longer)
      /\ f[Len(chunks)].at \in Nat /\ f[Len(chunks)].at + Len(more) = longer[Len(longer)]
  BY <1>1, <1>2 DEF Chain, Places
<1> QED BY <1>2, <1>3, <1>4 DEF Chain

(* A chunk more that can be read, and nothing in the line that is edited.  *)
Cut(f, g, chunks, chunk, edited, q, lengths, longer, now) ==
  /\ chunks \in Seq(Seq(Characters)) /\ chunk \in Seq(Characters)
  /\ lengths \in Seq(Nat) /\ longer \in Seq(Nat) /\ SameBefore(lengths, longer)
  /\ Chain(f, chunks, edited, lengths, now)
  /\ Piece(chunk, f[Len(chunks)], q, longer, now)
  /\ q \in Places /\ q.line = Len(longer) /\ q.at = longer[Len(longer)]
  /\ OneMore(g, f, Len(chunks), q)

LEMMA ChainCut ==
  ASSUME NEW f, NEW g, NEW chunks, NEW chunk, NEW edited, NEW q, NEW lengths, NEW longer, NEW now,
         Cut(f, g, chunks, chunk, edited, q, lengths, longer, now)
  PROVE  Chain(g, Append(chunks, chunk), <<>>, longer, now) /\ g[0] = f[0]
<1>0. /\ chunks \in Seq(Seq(Characters)) /\ chunk \in Seq(Characters)
      /\ lengths \in Seq(Nat) /\ longer \in Seq(Nat) /\ SameBefore(lengths, longer)
      /\ Chain(f, chunks, edited, lengths, now)
      /\ Piece(chunk, f[Len(chunks)], q, longer, now)
      /\ q \in Places /\ q.line = Len(longer) /\ q.at = longer[Len(longer)]
      /\ OneMore(g, f, Len(chunks), q)
  BY DEF Cut
<1> DEFINE n == Len(chunks)
           all == Append(chunks, chunk)
<1>1. n \in Nat /\ Len(lengths) \in Nat /\ Len(longer) \in Nat
  BY <1>0, LenProperties
<1>2. Len(all) = n + 1 /\ all[n + 1] = chunk /\ \A j \in 1..n : all[j] = chunks[j]
  BY <1>0, AppendProperties
<1> HIDE DEF all
<1>3. f \in [0..n -> Places]
  BY <1>0 DEF Chain
<1>4. g \in [0..(n + 1) -> Places] /\ g[n + 1] = q /\ \A j \in 0..n : g[j] = f[j]
  BY <1>0 DEF OneMore
<1> HIDE DEF n
<1>5. ASSUME NEW j \in 1..(n + 1) PROVE Piece(all[j], g[j - 1], g[j], longer, now)
  <2>1. CASE j = n + 1
    <3>1. j - 1 = n /\ n \in 0..n
      BY <2>1, <1>1
    <3>2. g[j] = q /\ g[j - 1] = f[n] /\ all[j] = chunk
      BY <2>1, <3>1, <1>2, <1>4
    <3> QED BY <3>2, <1>0 DEF n
  <2>2. CASE j # n + 1
    <3>1. j \in 1..n /\ j - 1 \in 0..n /\ j \in 0..n
      BY <2>2, <1>1
    <3>2. g[j] = f[j] /\ g[j - 1] = f[j - 1] /\ all[j] = chunks[j]
      BY <3>1, <1>2, <1>4
    <3>3. Piece(chunks[j], f[j - 1], f[j], lengths, now)
      BY <3>1, <1>0 DEF Chain, n
    <3>4. \A k \in 1..(Len(lengths) - 1) : k \in 1..(Len(longer) - 1) /\ longer[k] = lengths[k]
      <4> DEFINE a == Len(lengths)
                 b == Len(longer)
      <4>1. a \in Nat /\ b \in Nat /\ b >= a /\ \A k \in 1..(a - 1) : longer[k] = lengths[k]
        BY <1>0, <1>1 DEF SameBefore
      <4> HIDE DEF a, b
      <4>2. \A k \in 1..(a - 1) : k \in 1..(b - 1) /\ longer[k] = lengths[k]
        BY <4>1
      <4> QED BY <4>2 DEF a, b
    <3>5. Piece(chunks[j], f[j - 1], f[j], longer, now)
      BY <3>3, <3>4 DEF Piece
    <3> QED BY <3>2, <3>5
  <2> QED BY <2>1, <2>2
<1>6. Part(<<>>, Len(longer), now) /\ ~Ends(<<>>) /\ Len(<<>>) = 0
  BY DEF Part, Ends
<1>7. g[Len(all)] = q /\ q.at + 0 = q.at
  BY <1>0, <1>2, <1>4 DEF Places
<1>8. Chain(g, all, <<>>, longer, now)
  BY <1>0, <1>2, <1>4, <1>5, <1>6, <1>7 DEF Chain
<1>9. g[0] = f[0]
  BY <1>1, <1>4
<1> QED BY <1>8, <1>9 DEF all, n

(* What is behind the first chunk.                                         *)
LEMMA ChainNext ==
  ASSUME NEW f, NEW chunks \in Seq(Seq(Characters)), chunks # <<>>, NEW edited, NEW lengths \in Seq(Nat), NEW now,
         Chain(f, chunks, edited, lengths, now),
         NEW g \in [0..(Len(chunks) - 1) -> Places], \A j \in 0..(Len(chunks) - 1) : g[j] = f[j + 1]
  PROVE  Chain(g, Tail(chunks), edited, lengths, now) /\ g[0] = f[1]
<1> DEFINE n == Len(chunks)
           rest == Tail(chunks)
<1>1. n \in Nat /\ n >= 1
  BY LenProperties, EmptySeq
<1>2. Len(rest) = n - 1 /\ \A j \in 1..(n - 1) : rest[j] = chunks[j + 1]
  BY HeadTailProperties
<1> HIDE DEF rest
<1>3. f \in [0..n -> Places]
  BY DEF Chain
<1>4. g \in [0..(n - 1) -> Places] /\ \A j \in 0..(n - 1) : g[j] = f[j + 1]
  OBVIOUS
<1> HIDE DEF n
<1>5. ASSUME NEW j \in 1..(n - 1) PROVE Piece(rest[j], g[j - 1], g[j], lengths, now)
  <2>1. j + 1 \in 1..n /\ j - 1 \in 0..(n - 1) /\ j \in 0..(n - 1) /\ (j + 1) - 1 = j /\ (j - 1) + 1 = j
    BY <1>1
  <2>2. Piece(chunks[j + 1], f[j], f[j + 1], lengths, now)
    BY <2>1 DEF Chain, n
  <2>3. g[j - 1] = f[j] /\ g[j] = f[j + 1] /\ rest[j] = chunks[j + 1]
    BY <2>1, <1>2, <1>4
  <2> QED BY <2>2, <2>3
<1>6. g[n - 1] = f[n]
  <2>1. n - 1 \in 0..(n - 1) /\ (n - 1) + 1 = n
    BY <1>1
  <2> QED BY <2>1, <1>4
<1>7. /\ Part(edited, Len(lengths), now) /\ ~Ends(edited)
      /\ f[n].line = Len(lengths) /\ f[n].at + Len(edited) = lengths[Len(lengths)]
  BY DEF Chain, n
<1>8. Chain(g, rest, edited, lengths, now)
  BY <1>2, <1>4, <1>5, <1>6, <1>7 DEF Chain
<1>9. g[0] = f[1]
  BY <1>1, <1>4
<1> QED BY <1>8, <1>9 DEF rest, n

(* What is left when the first chunk was read in part.                     *)
LEMMA ChainRest ==
  ASSUME NEW f, NEW chunks \in Seq(Seq(Characters)), chunks # <<>>, NEW edited, NEW lengths \in Seq(Nat), NEW now,
         Chain(f, chunks, edited, lengths, now),
         NEW rest \in Seq(Characters), NEW p \in Places, Piece(rest, p, f[1], lengths, now),
         NEW g \in [0..Len(chunks) -> Places], g[0] = p, \A j \in 1..Len(chunks) : g[j] = f[j]
  PROVE  Chain(g, <<rest>> \o Tail(chunks), edited, lengths, now) /\ g[0] = p
<1> DEFINE n == Len(chunks)
           all == <<rest>> \o Tail(chunks)
<1>1. n \in Nat /\ n >= 1
  BY LenProperties, EmptySeq
<1>2. /\ Tail(chunks) \in Seq(Seq(Characters)) /\ Len(Tail(chunks)) = n - 1
      /\ \A j \in 1..(n - 1) : Tail(chunks)[j] = chunks[j + 1]
  BY HeadTailProperties
<1>3. <<rest>> \in Seq(Seq(Characters)) /\ Len(<<rest>>) = 1 /\ <<rest>>[1] = rest
  OBVIOUS
<1>4. /\ Len(all) = 1 + (n - 1) /\ all[1] = rest
      /\ \A i \in 1..(1 + (n - 1)) : i \in 1..1 \/ (i - 1 \in 1..(n - 1) /\ all[i] = Tail(chunks)[i - 1])
  BY <1>2, <1>3, JoinedAre
<1> HIDE DEF all
<1>5. f \in [0..n -> Places]
  BY DEF Chain
<1>6. g \in [0..n -> Places] /\ g[0] = p /\ \A j \in 1..n : g[j] = f[j]
  OBVIOUS
<1> HIDE DEF n
<1>7. ASSUME NEW j \in 1..n PROVE Piece(all[j], g[j - 1], g[j], lengths, now)
  <2>1. CASE j = 1
    <3>1. all[j] = rest /\ g[j - 1] = p /\ g[j] = f[1]
      BY <2>1, <1>1, <1>4, <1>6
    <3> QED BY <3>1
  <2>2. CASE j # 1
    <3>1. j \in 1..(1 + (n - 1)) /\ j \notin 1..1 /\ j - 1 \in 1..(n - 1) /\ j - 1 \in 1..n /\ (j - 1) + 1 = j
      BY <2>2, <1>1
    <3>2. all[j] = Tail(chunks)[j - 1]
      BY <3>1, <1>4
    <3>3. Tail(chunks)[j - 1] = chunks[j]
      BY <3>1, <1>2
    <3>4. g[j - 1] = f[j - 1] /\ g[j] = f[j]
      BY <3>1, <1>6
    <3>5. Piece(chunks[j], f[j - 1], f[j], lengths, now)
      BY DEF Chain, n
    <3> QED BY <3>2, <3>3, <3>4, <3>5
  <2> QED BY <2>1, <2>2
<1>8. /\ Part(edited, Len(lengths), now) /\ ~Ends(edited)
      /\ f[n].line = Len(lengths) /\ f[n].at + Len(edited) = lengths[Len(lengths)]
  BY DEF Chain, n
<1>9. Len(all) = n /\ g[n] = f[n]
  BY <1>1, <1>4, <1>6
<1>10. Chain(g, all, edited, lengths, now)
  BY <1>6, <1>7, <1>8, <1>9 DEF Chain
<1> QED BY <1>6, <1>10 DEF all, n

-----------------------------------------------------------------------------
(* The initial state.                                                      *)
LEMMA InitLine == Init => LineInv
<1> SUFFICES ASSUME Init PROVE LineInv
  OBVIOUS
<1>1. typed \in Seq(Nat) /\ Len(typed) = 1 /\ typed[Len(typed)] = 0
  BY DEF Init
<1>2. Typing
  <2>1. <<>> \in Seq(Characters) /\ <<>> \in Seq(Seq(Characters)) /\ Len(<<>>) = 0
    OBVIOUS
  <2>2. Len(buffer) <= IF pc = "overrun" THEN 2 * BUFF_SIZE ELSE BUFF_SIZE
    BY <2>1, LineAssumption DEF Init
  <2>3. typing \in Seq(Characters) /\ queue \in Seq(Seq(Characters)) /\ buffer \in Seq(Characters)
    BY <2>1 DEF Init
  <2>4. /\ pending \in BOOLEAN /\ masked \in BOOLEAN /\ sigint_received \in BOOLEAN /\ missed \in BOOLEAN
        /\ thrown \in Nat /\ pc \in Labels /\ ret \in {"line", "NULL"} /\ pc \notin {"test", "read"}
    BY DEF Init, Labels
  <2>5. Len(typed) >= 1
    BY <1>1
  <2> QED BY <1>1, <2>2, <2>3, <2>4, <2>5 DEF Typing
<1>3. Chained
  <2> DEFINE f == [j \in 0..0 |-> Place(Len(typed), 0)]
  <2>1. Chain(f, <<>>, <<>>, typed, thrown) /\ f[0].at = 0
    BY <1>1, NothingTyped
  <2> HIDE DEF f
  <2>2. Started(f[0])
    BY <2>1 DEF Init, Started, Reading, Between
  <2> QED BY <2>1, <2>2 DEF Init, Chained
<1>4. Filled
  BY DEF Init, Filled
<1> QED BY <1>2, <1>3, <1>4 DEF LineInv

(* The user types.                                                         *)
LEMMA TypedLast ==
  ASSUME Typing
  PROVE  /\ Line \in Nat /\ Line >= 1 /\ typed[Line] \in Nat /\ thrown \in Nat
         /\ Character(TRUE) = [line |-> Line, after |-> thrown, newline |-> TRUE]
         /\ Character(FALSE) = [line |-> Line, after |-> thrown, newline |-> FALSE]
  BY LenProperties, ElementOfSeq DEF Typing, Line, Character

LEMMA TypeCharacterKeeps == LineInv /\ TypeCharacter => LineInv'
<1> SUFFICES ASSUME LineInv, TypeCharacter PROVE LineInv'
  OBVIOUS
<1> USE DEF LineInv
<1>1. /\ typing' = Append(typing, Character(FALSE))
      /\ typed' = [typed EXCEPT ![Line] = @ + 1]
      /\ UNCHANGED <<queue, thrown, ends, pending, masked, sigint_received, pc, buffer, ret, missed>>
  BY DEF TypeCharacter
<1>2. Line \in Nat /\ Line >= 1 /\ typed[Line] \in Nat /\ thrown \in Nat
  BY TypedLast
<1>3. /\ typed' \in Seq(Nat) /\ Len(typed') = Line /\ typed'[Line] = typed[Line] + 1
      /\ \A k \in 1..(Line - 1) : typed'[k] = typed[k]
  BY <1>1, <1>2, ExceptSeq DEF Typing, Line
<1>4. PICK f : Chain(f, queue, typing, typed, thrown) /\ Started(f[0])
  BY DEF Chained
<1>5. /\ typing' \in Seq(Characters) /\ Len(typing') = Len(typing) + 1
      /\ Part(typing', Line, thrown) /\ ~Ends(typing')
  <2>1. Part(typing, Line, thrown) /\ ~Ends(typing) /\ typing \in Seq(Characters)
    BY <1>4 DEF Chain, Line, Typing
  <2> QED BY <1>1, <1>2, <2>1, AppendPart, TypedLast
<1>6. Typing'
  BY <1>1, <1>2, <1>3, <1>5 DEF Typing, Line
<1>7. Chain(f, queue, typing', typed', thrown)
  <2>1. Len(typing) \in Nat /\ queue \in Seq(Seq(Characters)) /\ typed \in Seq(Nat)
    BY LenProperties DEF Typing
  <2> QED BY <1>2, <1>3, <1>4, <1>5, <2>1, ChainTyped DEF Line
<1>8. Chained'
  BY <1>1, <1>4, <1>7 DEF Chained, Started, Reading, Between
<1>9. Filled'
  <2>1. Len(typed) = Line
    BY DEF Line
  <2>2. \A k \in 1..(Len(typed) - 1) : k \in 1..(Len(typed') - 1) /\ typed'[k] = typed[k]
    BY <1>2, <1>3, <2>1
  <2>3. Whole => Whole'
    BY <1>1, <2>2 DEF Whole
  <2> QED BY <2>3, <1>1 DEF Filled
<1> QED BY <1>6, <1>8, <1>9

LEMMA EnterKeeps == LineInv /\ Enter => LineInv'
<1> SUFFICES ASSUME LineInv, Enter PROVE LineInv'
  OBVIOUS
<1> USE DEF LineInv
<1> DEFINE chunk == Append(typing, Character(TRUE))
           q == Place(Line + 1, 0)
<1>1. /\ queue' = Append(queue, chunk) /\ typing' = <<>> /\ typed' = Append(typed, 0)
      /\ UNCHANGED <<thrown, ends, pending, masked, sigint_received, pc, buffer, ret, missed>>
  BY DEF Enter
<1>2. Line \in Nat /\ Line >= 1 /\ typed[Line] \in Nat /\ thrown \in Nat
  BY TypedLast
<1>3. /\ typed' \in Seq(Nat) /\ Len(typed') = Line + 1 /\ typed'[Line + 1] = 0
      /\ \A k \in 1..Line : typed'[k] = typed[k]
  <2>1. typed \in Seq(Nat) /\ 0 \in Nat
    BY DEF Typing
  <2> QED BY <1>1, <2>1, AppendProperties DEF Line
<1>4. PICK f : Chain(f, queue, typing, typed, thrown) /\ Started(f[0])
  BY DEF Chained
<1>5. /\ chunk \in Seq(Characters) /\ Len(chunk) = Len(typing) + 1
      /\ Part(chunk, Line, thrown) /\ Ends(chunk)
  <2>1. Part(typing, Line, thrown) /\ ~Ends(typing) /\ typing \in Seq(Characters)
    BY <1>4 DEF Chain, Line, Typing
  <2> QED BY <1>2, <2>1, AppendPart, TypedLast
<1> HIDE DEF chunk
<1>6. Typing'
  <2>1. queue' \in Seq(Seq(Characters)) /\ typing' \in Seq(Characters)
    BY <1>1, <1>5, AppendProperties DEF Typing
  <2>2. typed' \in Seq(Nat) /\ Len(typed') >= 1
    BY <1>2, <1>3
  <2> QED BY <1>1, <2>1, <2>2 DEF Typing
<1>7. q \in Places /\ q.line = Line + 1 /\ q.at = 0
  BY <1>2 DEF q, Place, Places
<1>8. Piece(chunk, f[Len(queue)], q, typed', thrown)
  <2>1. f[Len(queue)] \in Places
    <3>1. Len(queue) \in Nat /\ f \in [0..Len(queue) -> Places]
      BY <1>4, LenProperties DEF Chain, Typing
    <3> QED BY <3>1
  <2>2. f[Len(queue)].line = Line /\ f[Len(queue)].at \in Nat /\ f[Len(queue)].at + Len(typing) = typed[Line]
    BY <2>1, <1>4 DEF Chain, Line, Places
  <2>3. f[Len(queue)].at + Len(chunk) = typed'[Line] + 1
    <3>1. Len(typing) \in Nat /\ Len(chunk) = Len(typing) + 1 /\ typed'[Line] = typed[Line]
      BY <1>2, <1>3, <1>5, LenProperties DEF Typing
    <3>2. f[Len(queue)].at \in Nat /\ f[Len(queue)].at + Len(typing) = typed[Line]
      BY <2>2
    <3> QED BY <3>1, <3>2
  <2>4. Line \in 1..(Len(typed') - 1)
    BY <1>2, <1>3
  <2> QED BY <2>2, <2>3, <2>4, <1>5 DEF Piece, q
<1> HIDE DEF q
<1> DEFINE g == [j \in 0..(Len(queue) + 1) |-> IF j <= Len(queue) THEN f[j] ELSE q]
<1>g. OneMore(g, f, Len(queue), q)
  <2>1. Len(queue) \in Nat /\ f \in [0..Len(queue) -> Places]
    BY <1>4, LenProperties DEF Chain, Typing
  <2> QED BY <2>1, <1>7 DEF OneMore
<1> HIDE DEF g
<1>9. Chain(g, Append(queue, chunk), <<>>, typed', thrown) /\ g[0] = f[0]
  <2>1. SameBefore(typed, typed')
    BY <1>2, <1>3 DEF Line, SameBefore
  <2>2. q.line = Len(typed') /\ q.at = typed'[Len(typed')]
    BY <1>2, <1>3, <1>7 DEF Line
  <2>3. queue \in Seq(Seq(Characters)) /\ typed \in Seq(Nat)
    BY DEF Typing
  <2>4. /\ Chain(f, queue, typing, typed, thrown) /\ OneMore(g, f, Len(queue), q)
        /\ chunk \in Seq(Characters) /\ typed' \in Seq(Nat)
    BY <1>3, <1>4, <1>5, <1>g
  <2>5. Cut(f, g, queue, chunk, typing, q, typed, typed', thrown)
    BY <2>1, <2>2, <2>3, <2>4, <1>7, <1>8 DEF Cut
  <2> QED BY <2>5, ChainCut
<1>10. Chained'
  BY <1>1, <1>4, <1>9 DEF Chained, Started, Reading, Between
<1>11. Filled'
  <2>1. Whole => Whole'
    BY <1>1, <1>2, <1>3 DEF Whole, Line
  <2> QED BY <2>1, <1>1 DEF Filled
<1> QED BY <1>6, <1>10, <1>11

LEMMA EndKeeps == LineInv /\ End => LineInv'
<1> SUFFICES ASSUME LineInv, End PROVE LineInv'
  OBVIOUS
<1> USE DEF LineInv
<1>1. /\ queue' = Append(queue, typing) /\ typing' = <<>>
      /\ UNCHANGED <<typed, thrown, pending, masked, sigint_received, pc, buffer, ret, missed>>
  BY DEF End
<1>2. Line \in Nat /\ Line >= 1 /\ typed[Line] \in Nat /\ thrown \in Nat
  BY TypedLast
<1>3. PICK f : Chain(f, queue, typing, typed, thrown) /\ Started(f[0])
  BY DEF Chained
<1>4. Part(typing, Line, thrown) /\ ~Ends(typing) /\ typing \in Seq(Characters) /\ Len(typing) \in Nat
  BY <1>3, LenProperties DEF Chain, Line, Typing
<1>5. Typing'
  <2>1. queue' \in Seq(Seq(Characters)) /\ typing' \in Seq(Characters)
    BY <1>1, <1>4, AppendProperties DEF Typing
  <2> QED BY <1>1, <2>1 DEF Typing
<1> DEFINE q == Place(Line, typed[Line])
<1>6. q \in Places /\ q.line = Line /\ q.at = typed[Line]
  BY <1>2 DEF q, Place, Places
<1>7. Piece(typing, f[Len(queue)], q, typed, thrown)
  <2>1. f[Len(queue)].line = Line /\ f[Len(queue)].at + Len(typing) = typed[Line]
    BY <1>3 DEF Chain, Line
  <2> QED BY <2>1, <1>4 DEF Piece, q
<1> HIDE DEF q
<1> DEFINE g == [j \in 0..(Len(queue) + 1) |-> IF j <= Len(queue) THEN f[j] ELSE q]
<1>g. OneMore(g, f, Len(queue), q)
  <2>1. Len(queue) \in Nat /\ f \in [0..Len(queue) -> Places]
    BY <1>3, LenProperties DEF Chain, Typing
  <2> QED BY <2>1, <1>6 DEF OneMore
<1> HIDE DEF g
<1>8. Chain(g, Append(queue, typing), <<>>, typed, thrown) /\ g[0] = f[0]
  <2>1. q.line = Len(typed) /\ q.at = typed[Len(typed)]
    BY <1>2, <1>6 DEF Line
  <2>2. queue \in Seq(Seq(Characters)) /\ typed \in Seq(Nat)
    BY LenProperties DEF Typing
  <2>3. SameBefore(typed, typed)
    BY <1>2 DEF SameBefore, Line
  <2>4. Chain(f, queue, typing, typed, thrown) /\ OneMore(g, f, Len(queue), q) /\ typing \in Seq(Characters)
    BY <1>3, <1>4, <1>g
  <2>5. Cut(f, g, queue, typing, typing, q, typed, typed, thrown)
    BY <2>1, <2>2, <2>3, <2>4, <1>6, <1>7 DEF Cut
  <2> QED BY <2>5, ChainCut
<1>9. Chained'
  BY <1>1, <1>3, <1>8 DEF Chained, Started, Reading, Between
<1>10. Filled'
  BY <1>1 DEF Filled, Whole
<1> QED BY <1>5, <1>9, <1>10

(* What was not read is thrown away.                                       *)
LEMMA Emptied ==
  ASSUME Typing, typed' = [typed EXCEPT ![Line] = 0]
  PROVE  /\ typed' \in Seq(Nat) /\ Len(typed') = Len(typed)
         /\ Whole /\ buffer' = buffer /\ (pc' = pc) => Whole'
         /\ \E f : f[0].at = 0 /\ Chain(f, <<>>, <<>>, typed', thrown')
<1>1. Line \in Nat /\ Line >= 1 /\ Line = Len(typed) /\ typed \in Seq(Nat)
  BY TypedLast DEF Typing, Line
<1>2. /\ typed' \in Seq(Nat) /\ Len(typed') = Line /\ typed'[Line] = 0
      /\ \A k \in 1..(Line - 1) : typed'[k] = typed[k]
  BY <1>1, ExceptSeq
<1>3. Whole /\ buffer' = buffer /\ (pc' = pc) => Whole'
  BY <1>1, <1>2 DEF Whole
<1> DEFINE f == [j \in 0..0 |-> Place(Len(typed'), 0)]
<1>4. Chain(f, <<>>, <<>>, typed', thrown') /\ f[0].at = 0
  BY <1>1, <1>2, NothingTyped
<1> HIDE DEF f
<1> QED BY <1>1, <1>2, <1>3, <1>4

LEMMA InterruptKeeps == LineInv /\ Interrupt => LineInv'
<1> SUFFICES ASSUME LineInv, Interrupt PROVE LineInv'
  OBVIOUS
<1> USE DEF LineInv
<1>1. /\ thrown' = thrown + 1 /\ typing' = <<>> /\ queue' = <<>>
      /\ typed' = [typed EXCEPT ![Line] = 0]
      /\ UNCHANGED <<ends, masked, sigint_received, pc, buffer, ret, missed>>
  BY DEF Interrupt
<1>2. pending' \in BOOLEAN /\ (pc \notin {"run", "job"} => pending')
  BY DEF Interrupt, Typing
<1>3. /\ typed' \in Seq(Nat) /\ Len(typed') = Len(typed)
      /\ Whole => Whole'
  BY <1>1, Emptied
<1>4. PICK f : f[0].at = 0 /\ Chain(f, <<>>, <<>>, typed', thrown')
  BY <1>1, Emptied
<1>5. Typing'
  BY <1>1, <1>2, <1>3 DEF Typing
<1>6. Started(f[0])'
  BY <1>1, <1>2, <1>4 DEF Started, Reading, Between
<1>7. Chained'
  BY <1>1, <1>4, <1>6 DEF Chained
<1>8. Filled'
  BY <1>1, <1>3 DEF Filled
<1> QED BY <1>5, <1>7, <1>8

-----------------------------------------------------------------------------
(* The shell.                                                              *)
LEMMA HandleIntKeeps == LineInv /\ HandleInt => LineInv'
<1> SUFFICES ASSUME LineInv, HandleInt PROVE LineInv'
  OBVIOUS
<1> USE DEF LineInv
<1>1. /\ pending' = FALSE /\ sigint_received' = TRUE /\ typing' = <<>> /\ queue' = <<>>
      /\ typed' = [typed EXCEPT ![Line] = 0]
      /\ UNCHANGED <<thrown, ends, masked, buffer, ret>> /\ ~masked
  BY DEF HandleInt, Flush, Deliverable
<1>2. \/ pc = "read" /\ pc' = "test" /\ missed' = missed
      \/ pc = "read" /\ missed' = TRUE /\ pc' = pc
      \/ pc # "read" /\ pc' = pc /\ missed' = missed
  BY DEF HandleInt
<1>3. /\ typed' \in Seq(Nat) /\ Len(typed') = Len(typed)
      /\ Whole /\ pc' = pc => Whole'
  BY <1>1, Emptied
<1>4. PICK f : f[0].at = 0 /\ Chain(f, <<>>, <<>>, typed', thrown')
  BY <1>1, Emptied
<1>5. Typing'
  <2>1. pc' \in Labels /\ missed' \in BOOLEAN /\ (pc' = "overrun" <=> pc = "overrun")
    BY <1>2 DEF Typing, Labels
  <2>2. Len(buffer') <= IF pc' = "overrun" THEN 2 * BUFF_SIZE ELSE BUFF_SIZE
    BY <1>1, <2>1 DEF Typing
  <2>3. <<>> \in Seq(Characters) /\ <<>> \in Seq(Seq(Characters))
    OBVIOUS
  <2> QED BY <1>1, <1>3, <2>1, <2>2, <2>3 DEF Typing
<1>6. Started(f[0])'
  BY <1>1, <1>4 DEF Started, Reading, Between
<1>7. Chained'
  BY <1>1, <1>4, <1>6 DEF Chained
<1>8. Filled'
  BY <1>1, <1>2, <1>3 DEF Filled
<1> QED BY <1>5, <1>7, <1>8

LEMMA PrintPromptKeeps == LineInv /\ PrintPrompt => LineInv'
<1> SUFFICES ASSUME LineInv, PrintPrompt PROVE LineInv'
  OBVIOUS
<1> USE DEF LineInv
<1>1. /\ pc = "prompt" /\ sigint_received' = FALSE /\ pc' = "read_line"
      /\ UNCHANGED <<typing, queue, typed, thrown, ends, pending, masked, buffer, ret, missed>>
  BY DEF PrintPrompt, user
<1>2. PICK f : Chain(f, queue, typing, typed, thrown) /\ Started(f[0])
  BY DEF Chained
<1>3. Typing'
  BY <1>1 DEF Typing, Labels
<1>4. Chained'
  BY <1>1, <1>2 DEF Chained, Started, Reading, Between
<1>5. Filled'
  BY <1>1 DEF Filled
<1> QED BY <1>3, <1>4, <1>5

LEMMA UnmaskKeeps == LineInv /\ Unmask => LineInv'
<1> SUFFICES ASSUME LineInv, Unmask PROVE LineInv'
  OBVIOUS
<1> USE DEF LineInv
<1>1. /\ pc = "read_line" /\ masked' = FALSE /\ buffer' = <<>> /\ pc' = "test"
      /\ UNCHANGED <<thrown, ends, ret, missed>>
  BY DEF Unmask
<1>2. CASE pending
  <2>1. /\ pending' = FALSE /\ sigint_received' = TRUE /\ typing' = <<>> /\ queue' = <<>>
        /\ typed' = [typed EXCEPT ![Line] = 0]
    BY <1>2 DEF Unmask, Flush
  <2>2. typed' \in Seq(Nat) /\ Len(typed') = Len(typed)
    BY <2>1, Emptied
  <2>3. PICK f : f[0].at = 0 /\ Chain(f, <<>>, <<>>, typed', thrown')
    BY <2>1, Emptied
  <2>4. Typing'
    <3>1. <<>> \in Seq(Characters) /\ <<>> \in Seq(Seq(Characters)) /\ Len(<<>>) = 0
      OBVIOUS
    <3>2. buffer' \in Seq(Characters) /\ Len(buffer') <= IF pc' = "overrun" THEN 2 * BUFF_SIZE ELSE BUFF_SIZE
      BY <1>1, <3>1, LineAssumption
    <3> QED BY <1>1, <2>1, <2>2, <3>1, <3>2 DEF Typing, Labels
  <2>5. Started(f[0])'
    BY <2>1, <2>3 DEF Started, Reading, Between
  <2>6. Chained'
    BY <1>1, <2>1, <2>3, <2>5 DEF Chained
  <2>7. Filled'
    BY <1>1 DEF Filled
  <2> QED BY <2>4, <2>6, <2>7
<1>3. CASE ~pending
  <2>1. UNCHANGED <<pending, sigint_received, typing, queue, typed>>
    BY <1>3 DEF Unmask
  <2>2. PICK f : Chain(f, queue, typing, typed, thrown) /\ Started(f[0])
    BY DEF Chained
  <2>3. Typing'
    <3>1. <<>> \in Seq(Characters) /\ Len(<<>>) = 0
      OBVIOUS
    <3>2. buffer' \in Seq(Characters) /\ Len(buffer') <= IF pc' = "overrun" THEN 2 * BUFF_SIZE ELSE BUFF_SIZE
      BY <1>1, <3>1, LineAssumption
    <3> QED BY <1>1, <2>1, <3>2 DEF Typing, Labels
  <2>4. Started(f[0])'
    BY <1>1, <2>1, <2>2 DEF Started, Reading, Between
  <2>5. Chained'
    BY <1>1, <2>1, <2>2, <2>4 DEF Chained
  <2>6. Filled'
    BY <1>1 DEF Filled
  <2> QED BY <2>3, <2>5, <2>6
<1> QED BY <1>2, <1>3

LEMMA TestCancelerKeeps == LineInv /\ ~Deliverable /\ TestCanceler => LineInv'
<1> SUFFICES ASSUME LineInv, ~Deliverable, TestCanceler PROVE LineInv'
  OBVIOUS
<1> USE DEF LineInv
<1>1. /\ pc = "test" /\ UNCHANGED <<typing, queue, typed, thrown, ends, pending, masked, sigint_received, buffer, missed>>
      /\ IF sigint_received THEN pc' = "mask" /\ ret' = "NULL" ELSE pc' = "read" /\ ret' = ret
  BY DEF TestCanceler, user
<1>2. ~pending
  BY <1>1 DEF Deliverable, Typing
<1>3. PICK f : Chain(f, queue, typing, typed, thrown) /\ Started(f[0])
  BY DEF Chained
<1>4. Typing'
  BY <1>1 DEF Typing, Labels
<1>5. Started(f[0])'
  BY <1>1, <1>2, <1>3 DEF Started, Reading, Between
<1>6. Chained'
  BY <1>1, <1>3, <1>5 DEF Chained
<1>7. Filled'
  BY <1>1 DEF Filled
<1> QED BY <1>4, <1>6, <1>7

LEMMA MaskKeeps == LineInv /\ Mask => LineInv'
<1> SUFFICES ASSUME LineInv, Mask PROVE LineInv'
  OBVIOUS
<1> USE DEF LineInv
<1>1. /\ pc = "mask" /\ masked' = TRUE
      /\ pc' = IF ret = "line" THEN "run" ELSE IF sigint_received THEN "prompt" ELSE "left"
      /\ UNCHANGED <<typing, queue, typed, thrown, ends, pending, sigint_received, buffer, ret, missed>>
  BY DEF Mask, user
<1>2. PICK f : Chain(f, queue, typing, typed, thrown) /\ Started(f[0])
  BY DEF Chained
<1>3. Typing'
  BY <1>1 DEF Typing, Labels
<1>4. Started(f[0])'
  BY <1>1, <1>2 DEF Started, Reading, Between
<1>5. Chained'
  BY <1>1, <1>2, <1>4 DEF Chained
<1>6. Filled'
  BY <1>1 DEF Filled, Whole
<1> QED BY <1>3, <1>5, <1>6

LEMMA RunKeeps == LineInv /\ Run => LineInv'
<1> SUFFICES ASSUME LineInv, Run PROVE LineInv'
  OBVIOUS
<1> USE DEF LineInv
<1>1. /\ pc = "run" /\ pc' \in {"prompt", "exited", "job"} /\ missed' = FALSE
      /\ UNCHANGED <<typing, queue, typed, thrown, ends, pending, masked, sigint_received, buffer, ret>>
  BY DEF Run, user
<1>2. PICK f : Chain(f, queue, typing, typed, thrown) /\ Started(f[0])
  BY DEF Chained
<1>3. Typing'
  BY <1>1 DEF Typing, Labels
<1>4. Started(f[0])'
  BY <1>1, <1>2 DEF Started, Reading, Between
<1>5. Chained'
  BY <1>1, <1>2, <1>4 DEF Chained
<1>6. Filled'
  BY <1>1 DEF Filled
<1> QED BY <1>3, <1>5, <1>6

(* What read takes: all of the first chunk, or as much as fits.            *)
LEMMA TakenIs ==
  ASSUME Typing, queue # <<>>
  PROVE  /\ Chunk = queue[1] /\ Chunk \in Seq(Characters) /\ Len(Chunk) \in Nat /\ Len(buffer) \in Nat
         /\ Taken \in 0..Len(Chunk) /\ Taken <= BUFF_SIZE /\ (Taken # Len(Chunk) => Taken = BUFF_SIZE)
         /\ SubSeq(Chunk, 1, Taken) \in Seq(Characters) /\ Len(SubSeq(Chunk, 1, Taken)) = Taken
         /\ \A i \in 1..Taken : SubSeq(Chunk, 1, Taken)[i] = Chunk[i]
<1>1. queue \in Seq(Seq(Characters)) /\ Len(queue) \in Nat /\ Len(queue) >= 1
  BY LenProperties, EmptySeq DEF Typing
<1>2. Chunk = queue[1] /\ Chunk \in Seq(Characters)
  BY <1>1, HeadTailProperties, ElementOfSeq DEF Chunk
<1>3. Len(Chunk) \in Nat /\ Len(buffer) \in Nat
  BY <1>2, LenProperties DEF Typing
<1>4. Taken \in 0..Len(Chunk) /\ Taken <= BUFF_SIZE /\ (Taken # Len(Chunk) => Taken = BUFF_SIZE)
  BY <1>3, LineAssumption DEF Taken
<1> HIDE DEF Taken, Chunk
<1>5. 1 \in Int /\ Taken \in Int /\ \A i \in 1..Taken : Chunk[i] \in Characters
  BY <1>2, <1>3, <1>4, ElementOfSeq
<1>6. /\ SubSeq(Chunk, 1, Taken) \in Seq(Characters)
      /\ Len(SubSeq(Chunk, 1, Taken)) = IF 1 <= Taken THEN Taken - 1 + 1 ELSE 0
      /\ \A i \in 1..(Taken - 1 + 1) : SubSeq(Chunk, 1, Taken)[i] = Chunk[1 + i - 1]
  BY <1>5, SubSeqProperties
<1>7. Len(SubSeq(Chunk, 1, Taken)) = Taken /\ \A i \in 1..Taken : SubSeq(Chunk, 1, Taken)[i] = Chunk[i]
  BY <1>3, <1>4, <1>6
<1> QED BY <1>2, <1>3, <1>4, <1>6, <1>7

LEMMA RestIs ==
  ASSUME Typing, queue # <<>>, NEW n \in 0..Len(Chunk), n # Len(Chunk)
  PROVE  LET rest == SubSeq(Chunk, n + 1, Len(Chunk))
         IN  /\ rest \in Seq(Characters) /\ Len(rest) = Len(Chunk) - n
             /\ \A i \in 1..(Len(Chunk) - n) : rest[i] = Chunk[n + i]
<1>1. Chunk \in Seq(Characters) /\ Len(Chunk) \in Nat /\ n \in 0..Len(Chunk)
  BY TakenIs
<1> HIDE DEF Chunk
<1>2. /\ n + 1 \in Int /\ Len(Chunk) \in Int /\ n + 1 <= Len(Chunk)
      /\ \A i \in (n + 1)..Len(Chunk) : Chunk[i] \in Characters
  BY <1>1, ElementOfSeq
<1> DEFINE rest == SubSeq(Chunk, n + 1, Len(Chunk))
<1>3. /\ rest \in Seq(Characters)
      /\ Len(rest) = IF n + 1 <= Len(Chunk) THEN Len(Chunk) - (n + 1) + 1 ELSE 0
      /\ \A i \in 1..(Len(Chunk) - (n + 1) + 1) : rest[i] = Chunk[(n + 1) + i - 1]
  BY <1>2, SubSeqProperties
<1> HIDE DEF rest
<1>4. Len(rest) = Len(Chunk) - n
  BY <1>1, <1>2, <1>3
<1>5. ASSUME NEW i \in 1..(Len(Chunk) - n) PROVE rest[i] = Chunk[n + i]
  <2>1. i \in 1..(Len(Chunk) - (n + 1) + 1) /\ (n + 1) + i - 1 = n + i
    BY <1>1
  <2> QED BY <2>1, <1>3
<1> QED BY <1>3, <1>4, <1>5 DEF rest

(* Where the next character stands after a read: at the beginning of a     *)
(* line if the end of one was read, otherwise so many characters further.  *)
LineEnds(n) == n = Len(Chunk) /\ Ends(Chunk)

LEMMA ReadMoves ==
  ASSUME Typing, queue # <<>>, NEW f, Chain(f, queue, typing, typed, thrown),
         NEW n \in 0..Len(Chunk), queue' = Remaining(n)
  PROVE  /\ queue' \in Seq(Seq(Characters))
         /\ \E g : /\ Chain(g, queue', typing, typed, thrown)
                   /\ LineEnds(n) => g[0].at = 0
                   /\ ~LineEnds(n) => g[0].line = f[0].line /\ g[0].at = f[0].at + n
<1>1. queue \in Seq(Seq(Characters)) /\ Len(queue) \in Nat /\ Len(queue) >= 1 /\ typed \in Seq(Nat)
  BY LenProperties, EmptySeq DEF Typing
<1>2. /\ Chunk = queue[1] /\ Chunk \in Seq(Characters) /\ Len(Chunk) \in Nat /\ n \in 0..Len(Chunk)
  BY TakenIs
<1>3. f \in [0..Len(queue) -> Places] /\ Piece(Chunk, f[0], f[1], typed, thrown)
  <2>1. 1 \in 1..Len(queue) /\ 1 - 1 = 0
    BY <1>1
  <2>2. f \in [0..Len(queue) -> Places] /\ Piece(queue[1], f[1 - 1], f[1], typed, thrown)
    BY <2>1 DEF Chain
  <2> QED BY <2>1, <2>2, <1>2
<1>4. f[0] \in Places /\ f[1] \in Places /\ f[0].at \in Nat /\ f[0].line \in Nat
  <2>1. 0 \in 0..Len(queue) /\ 1 \in 0..Len(queue)
    BY <1>1
  <2>2. f[0] \in Places /\ f[1] \in Places
    BY <2>1, <1>3
  <2> QED BY <2>2 DEF Places
<1>5. CASE n = Len(Chunk)
  <2>1. queue' = Tail(queue) /\ Tail(queue) \in Seq(Seq(Characters))
    BY <1>1, <1>5, HeadTailProperties DEF Remaining
  <2> DEFINE g == [j \in 0..(Len(queue) - 1) |-> f[j + 1]]
  <2>2. g \in [0..(Len(queue) - 1) -> Places] /\ \A j \in 0..(Len(queue) - 1) : g[j] = f[j + 1]
    BY <1>1, <1>3
  <2> HIDE DEF g
  <2>3. Chain(g, Tail(queue), typing, typed, thrown) /\ g[0] = f[1]
    BY ONLY <1>1, <2>2, queue # <<>>, Chain(f, queue, typing, typed, thrown), ChainNext
  <2>4. LineEnds(n) => g[0].at = 0
    BY <1>3, <2>3 DEF LineEnds, Piece, Place
  <2>5. ~LineEnds(n) => g[0].line = f[0].line /\ g[0].at = f[0].at + n
    BY <1>3, <1>5, <2>3 DEF LineEnds, Piece, Place
  <2> QED BY <2>1, <2>3, <2>4, <2>5
<1>6. CASE n # Len(Chunk)
  <2> DEFINE rest == SubSeq(Chunk, n + 1, Len(Chunk))
             p == Place(f[0].line, f[0].at + n)
             g == [f EXCEPT ![0] = p]
  <2>1. queue' = <<rest>> \o Tail(queue)
    BY <1>6 DEF Remaining
  <2>2. /\ rest \in Seq(Characters) /\ Len(rest) = Len(Chunk) - n
        /\ \A i \in 1..(Len(Chunk) - n) : rest[i] = Chunk[n + i]
    BY <1>6, RestIs
  <2> HIDE DEF rest
  <2>3. p \in Places /\ p.line = f[0].line /\ p.at = f[0].at + n
    BY <1>2, <1>4 DEF Place, Places
  <2> HIDE DEF p
  <2>4. Len(rest) \in Nat /\ Len(rest) >= 1 /\ rest # <<>> /\ Chunk # <<>> /\ rest[Len(rest)] = Chunk[Len(Chunk)]
    <3>1. Len(rest) \in Nat /\ Len(rest) >= 1 /\ Len(Chunk) >= 1
      BY <1>2, <1>6, <2>2
    <3>2. Len(rest) \in 1..(Len(Chunk) - n) /\ n + Len(rest) = Len(Chunk)
      BY <1>2, <2>2, <3>1
    <3>3. rest[Len(rest)] = Chunk[n + Len(rest)]
      BY <2>2, <3>2
    <3>4. rest # <<>> /\ Chunk # <<>>
      BY <3>1
    <3> QED BY <3>1, <3>2, <3>3, <3>4
  <2>5. Part(rest, p.line, thrown)
    <3> SUFFICES ASSUME NEW i \in 1..Len(rest)
                 PROVE  rest[i].line = p.line /\ rest[i].after = thrown /\ (rest[i].newline => i = Len(rest))
      BY DEF Part
    <3>1. i \in 1..(Len(Chunk) - n) /\ n + i \in 1..Len(Chunk)
      BY <1>2, <2>2
    <3>2. rest[i] = Chunk[n + i]
      BY <3>1, <2>2
    <3>3. /\ Chunk[n + i].line = f[0].line /\ Chunk[n + i].after = thrown
          /\ (Chunk[n + i].newline => n + i = Len(Chunk))
      BY <3>1, <1>3 DEF Piece, Part
    <3>4. n + i = Len(Chunk) => i = Len(rest)
      BY <1>2, <2>2
    <3> QED BY <2>3, <3>2, <3>3, <3>4
  <2>6. Ends(rest) <=> Ends(Chunk)
    BY <2>4 DEF Ends
  <2>7. Piece(rest, p, f[1], typed, thrown)
    <3>1. p.at + Len(rest) = f[0].at + Len(Chunk)
      BY <1>2, <1>4, <2>2, <2>3
    <3> QED BY <1>3, <2>3, <2>5, <2>6, <3>1 DEF Piece
  <2>8. g \in [0..Len(queue) -> Places] /\ g[0] = p /\ \A j \in 1..Len(queue) : g[j] = f[j]
    BY <1>1, <1>3, <2>3
  <2> HIDE DEF g
  <2>9. Chain(g, <<rest>> \o Tail(queue), typing, typed, thrown)
    BY ONLY <1>1, <2>2, <2>3, <2>7, <2>8, queue # <<>>, Chain(f, queue, typing, typed, thrown), ChainRest
  <2>10. queue' \in Seq(Seq(Characters))
    <3>1. <<rest>> \in Seq(Seq(Characters)) /\ Tail(queue) \in Seq(Seq(Characters))
      BY <1>1, <2>2, HeadTailProperties
    <3> QED BY <3>1, <2>1, ConcatProperties
  <2> QED BY <1>6, <2>1, <2>3, <2>8, <2>9, <2>10 DEF LineEnds
<1> QED BY <1>5, <1>6

LEMMA ReadKeeps == LineInv /\ ~Deliverable /\ Read => LineInv'
<1> SUFFICES ASSUME LineInv, ~Deliverable, Read PROVE LineInv'
  OBVIOUS
<1> USE DEF LineInv
<1> DEFINE taken == SubSeq(Chunk, 1, Taken)
<1>1. /\ pc = "read" /\ queue # <<>> /\ buffer' = buffer \o taken
      /\ queue' = Remaining(Taken)
      /\ UNCHANGED <<typing, typed, thrown, ends, pending, masked, sigint_received, missed>>
  BY DEF Read
<1>2. ~pending /\ ~masked /\ (~missed => ~sigint_received)
  BY <1>1 DEF Deliverable, Typing, Filled
<1>3. /\ Chunk = queue[1] /\ Chunk \in Seq(Characters) /\ Len(Chunk) \in Nat /\ Len(buffer) \in Nat
      /\ Taken \in 0..Len(Chunk) /\ Taken <= BUFF_SIZE /\ (Taken # Len(Chunk) => Taken = BUFF_SIZE)
      /\ taken \in Seq(Characters) /\ Len(taken) = Taken
      /\ \A i \in 1..Taken : taken[i] = Chunk[i]
  BY <1>1, TakenIs
<1> HIDE DEF taken
<1>4. PICK f : Chain(f, queue, typing, typed, thrown) /\ Started(f[0])
  BY DEF Chained
<1>5. Piece(Chunk, f[0], f[1], typed, thrown) /\ f[0].at \in Nat
  <2>1. Len(queue) \in Nat /\ Len(queue) >= 1
    BY <1>1, LenProperties, EmptySeq DEF Typing
  <2>2. 1 \in 1..Len(queue) /\ 1 - 1 = 0 /\ 0 \in 0..Len(queue)
    BY <2>1
  <2>3. Piece(queue[1], f[1 - 1], f[1], typed, thrown) /\ f \in [0..Len(queue) -> Places]
    BY <2>2, <1>4 DEF Chain
  <2> QED BY <2>2, <2>3, <1>3 DEF Places
<1>6. /\ queue' \in Seq(Seq(Characters))
      /\ \E g : /\ Chain(g, queue', typing, typed, thrown)
                /\ LineEnds(Taken) => g[0].at = 0
                /\ ~LineEnds(Taken) => g[0].line = f[0].line /\ g[0].at = f[0].at + Taken
  BY <1>1, <1>3, <1>4, ReadMoves
<1> HIDE DEF Chunk, Taken
<1>7. ~missed => /\ f[0].at = Len(buffer)
                 /\ \A i \in 1..Len(buffer) : buffer[i].line = f[0].line /\ buffer[i].after = thrown
  BY <1>1, <1>2, <1>4 DEF Started, Reading
<1>8. \A i \in 1..Len(buffer) : ~buffer[i].newline
  BY <1>1 DEF Filled
<1>9. /\ buffer' \in Seq(Characters) /\ Len(buffer') = Len(buffer) + Taken
      /\ \A i \in 1..Len(buffer) : buffer'[i] = buffer[i]
      /\ \A i \in 1..Len(buffer') : i \in 1..Len(buffer) \/ (i - Len(buffer) \in 1..Taken /\ buffer'[i] = Chunk[i - Len(buffer)])
  <2>1. buffer \in Seq(Characters) /\ taken \in Seq(Characters) /\ Len(taken) = Taken /\ buffer' = buffer \o taken
    BY <1>1, <1>3 DEF Typing
  <2>2. /\ buffer' \in Seq(Characters) /\ Len(buffer') = Len(buffer) + Len(taken)
        /\ \A i \in 1..Len(buffer) : buffer'[i] = buffer[i]
        /\ \A i \in 1..(Len(buffer) + Len(taken)) :
              i \in 1..Len(buffer) \/ (i - Len(buffer) \in 1..Len(taken) /\ buffer'[i] = taken[i - Len(buffer)])
    BY ONLY <2>1, JoinedAre
  <2> QED BY <2>1, <2>2, <1>3
<1>10. ASSUME NEW i \in 1..Len(buffer'), buffer'[i].newline PROVE i = Len(buffer') /\ LineEnds(Taken)
  <2>1. i \notin 1..Len(buffer)
    BY <1>8, <1>9, <1>10
  <2>2. i - Len(buffer) \in 1..Taken /\ buffer'[i] = Chunk[i - Len(buffer)]
    BY <1>9, <2>1
  <2>3. i - Len(buffer) \in 1..Len(Chunk) /\ Chunk[i - Len(buffer)].newline
    BY <1>3, <1>10, <2>2
  <2>4. i - Len(buffer) = Len(Chunk)
    BY <1>5, <2>3 DEF Piece, Part
  <2>5. Taken = Len(Chunk) /\ i = Len(buffer) + Taken /\ Len(Chunk) >= 1
    BY <1>3, <2>2, <2>4
  <2>6. Ends(Chunk)
    BY <2>3, <2>4, <2>5 DEF Ends
  <2> QED BY <1>9, <2>5, <2>6 DEF LineEnds
<1>11. ~missed => \A i \in 1..Len(buffer') : buffer'[i].line = f[0].line /\ buffer'[i].after = thrown
  <2> SUFFICES ASSUME ~missed, NEW i \in 1..Len(buffer')
               PROVE  buffer'[i].line = f[0].line /\ buffer'[i].after = thrown
    OBVIOUS
  <2>1. CASE i \in 1..Len(buffer)
    BY <1>7, <1>9, <2>1
  <2>2. CASE i \notin 1..Len(buffer)
    <3>1. i - Len(buffer) \in 1..Len(Chunk) /\ buffer'[i] = Chunk[i - Len(buffer)]
      BY <1>3, <1>9, <2>2
    <3> QED BY <1>5, <3>1 DEF Piece, Part
  <2> QED BY <2>1, <2>2
<1>12. LineEnds(Taken) => /\ f[0].line \in 1..(Len(typed) - 1) /\ f[0].at + Taken = typed[f[0].line] + 1
                   /\ Taken >= 1
  <2>1. Len(Chunk) = 0 => Chunk = <<>>
    BY <1>3, EmptySeq
  <2> QED BY <1>3, <1>5, <2>1 DEF LineEnds, Piece, Ends
<1>13. Len(buffer') <= 2 * BUFF_SIZE /\ BUFF_SIZE >= 1 /\ BUFF_SIZE \in Nat
  BY <1>1, <1>3, <1>9, LineAssumption DEF Typing
<1>14. \/ /\ Len(buffer') > BUFF_SIZE /\ pc' = "overrun" /\ ret' = ret
       \/ /\ Len(buffer') <= BUFF_SIZE /\ buffer' = <<>> /\ pc' = "mask" /\ ret' = "NULL"
       \/ /\ Len(buffer') <= BUFF_SIZE /\ buffer' # <<>> /\ pc' = "mask" /\ ret' = "line" /\ buffer'[Len(buffer')].newline
       \/ /\ Len(buffer') <= BUFF_SIZE /\ buffer' # <<>> /\ pc' = "test" /\ ret' = ret /\ ~buffer'[Len(buffer')].newline
  <2>1. Len(buffer') \in Nat /\ (Len(buffer') = 0 <=> buffer' = <<>>)
    BY <1>9, LenProperties, EmptySeq
  <2> DEFINE long    == Len(buffer') > BUFF_SIZE
             nothing == buffer' = <<>>
             line    == Len(buffer') \in 1..BUFF_SIZE /\ Last(buffer').newline
  <2>6. (CASE long    -> pc' = "overrun" /\ UNCHANGED ret
           [] nothing -> pc' = "mask" /\ ret' = "NULL"
           [] line    -> pc' = "mask" /\ ret' = "line"
           [] OTHER   -> pc' = "test" /\ UNCHANGED ret)
    BY DEF Read
  <2>7. (long => ~nothing /\ ~line) /\ (nothing => ~line)
    BY <2>1, <1>13
  <2>8. /\ line => buffer'[Len(buffer')].newline /\ ~nothing /\ ~long
        /\ ~line /\ ~long /\ ~nothing => ~buffer'[Len(buffer')].newline
        /\ ~long => Len(buffer') <= BUFF_SIZE
    BY <2>1, <2>7, <1>13 DEF Last
  <2> HIDE DEF long, nothing, line
  <2>2. CASE long
    <3>1. pc' = "overrun" /\ UNCHANGED ret
      BY ONLY <2>6, <2>7, <2>2
    <3> QED BY <3>1, <2>2 DEF long
  <2>3. CASE nothing
    <3>1. pc' = "mask" /\ ret' = "NULL"
      BY ONLY <2>6, <2>7, <2>3
    <3> QED BY <3>1, <2>3, <2>7, <2>8 DEF nothing
  <2>4. CASE line
    <3>1. pc' = "mask" /\ ret' = "line"
      BY ONLY <2>6, <2>7, <2>4
    <3> QED BY <3>1, <2>4, <2>8 DEF nothing
  <2>5. CASE ~line /\ ~nothing /\ ~long
    <3>1. pc' = "test" /\ UNCHANGED ret
      BY ONLY <2>6, <2>5
    <3> QED BY <3>1, <2>5, <2>8 DEF nothing
  <2> QED BY <2>2, <2>3, <2>4, <2>5
<1>15. Typing'
  <2>1. pc' \in Labels /\ ret' \in {"line", "NULL"}
    BY <1>14 DEF Labels, Typing
  <2>2. Len(buffer') <= IF pc' = "overrun" THEN 2 * BUFF_SIZE ELSE BUFF_SIZE
    BY <1>13, <1>14
  <2> QED BY <1>1, <1>2, <1>6, <1>9, <2>1, <2>2 DEF Typing
<1>16. Len(buffer') \in Nat /\ (Len(buffer') = 0 <=> buffer' = <<>>)
  BY <1>9, LenProperties, EmptySeq
<1>17. Chained'
  <2>1. PICK g : /\ Chain(g, queue', typing, typed, thrown)
                 /\ LineEnds(Taken) => g[0].at = 0
                 /\ ~LineEnds(Taken) => g[0].line = f[0].line /\ g[0].at = f[0].at + Taken
    BY <1>6
  <2>2. CASE pc' = "overrun"
    BY <1>1, <2>1, <2>2 DEF Chained, Started, Reading, Between
  <2>3. CASE buffer' = <<>> /\ pc' = "mask" /\ ret' = "NULL"
    <3>1. Len(buffer) = 0 /\ Taken = 0
      BY <1>3, <1>9, <1>16, <2>3
    <3>2. ~LineEnds(Taken)
      BY <3>1, <1>12
    <3>3. ~missed => g[0].at = 0
      <4>1. g[0].at = f[0].at + Taken
        BY <2>1, <3>2
      <4> QED BY <1>7, <3>1, <4>1
    <3>4. Started(g[0])'
      BY <1>1, <2>3, <3>3 DEF Started, Reading, Between
    <3> QED BY <1>1, <2>1, <3>4 DEF Chained
  <2>4. CASE buffer' # <<>> /\ pc' = "mask" /\ buffer'[Len(buffer')].newline
    <3>1. LineEnds(Taken)
      <4>1. Len(buffer') \in 1..Len(buffer')
        BY <1>16, <2>4
      <4> QED BY <4>1, <2>4, <1>10
    <3>2. Started(g[0])'
      BY <1>1, <2>1, <2>4, <3>1 DEF Started, Reading, Between
    <3> QED BY <1>1, <2>1, <3>2 DEF Chained
  <2>5. CASE buffer' # <<>> /\ pc' = "test" /\ ~buffer'[Len(buffer')].newline
    <3>1. ~LineEnds(Taken)
      <4> SUFFICES ASSUME LineEnds(Taken) PROVE FALSE
        OBVIOUS
      <4>1. Taken = Len(Chunk) /\ Taken >= 1 /\ Chunk[Taken].newline
        BY <1>12 DEF LineEnds, Ends
      <4>2. /\ Len(buffer') \in 1..Len(buffer') /\ Len(buffer') \notin 1..Len(buffer)
            /\ Len(buffer') - Len(buffer) = Taken
        BY <4>1, <1>3, <1>9, <1>16
      <4> QED BY <4>1, <4>2, <1>9, <2>5
    <3>2. g[0].line = f[0].line /\ g[0].at = f[0].at + Taken
      BY <2>1, <3>1
    <3>3. ~missed => g[0].at = Len(buffer')
      BY <1>3, <1>7, <1>9, <3>2
    <3>4. Started(g[0])'
      BY <1>1, <1>2, <1>11, <2>5, <3>2, <3>3 DEF Started, Reading, Between
    <3> QED BY <1>1, <2>1, <3>4 DEF Chained
  <2> QED BY <1>14, <2>2, <2>3, <2>4, <2>5
<1>18. Filled'
  <2>1. pc' \in {"test", "read"} => \A i \in 1..Len(buffer') : ~buffer'[i].newline
    BY <1>10, <1>14
  <2>2. pc' # "read" /\ pc' # "run"
    BY <1>14
  <2>3. ASSUME ~missed, (pc' = "mask" /\ ret' = "line") \/ pc' = "overrun" PROVE Whole'
    <3>1. \A i, j \in 1..Len(buffer') : buffer'[i].line = buffer'[j].line /\ buffer'[i].after = buffer'[j].after
      BY <1>11, <2>3
    <3>2. ASSUME pc' # "overrun"
          PROVE  /\ buffer' # <<>> /\ buffer'[1].line \in 1..(Len(typed) - 1)
                 /\ Len(buffer') = typed[buffer'[1].line] + 1
      <4>1. buffer' # <<>> /\ buffer'[Len(buffer')].newline
        BY <1>14, <2>3, <3>2
      <4>2. Len(buffer') \in 1..Len(buffer') /\ 1 \in 1..Len(buffer')
        BY <4>1, <1>16
      <4>3. LineEnds(Taken)
        BY <4>1, <4>2, <1>10
      <4>4. buffer'[1].line = f[0].line /\ Len(buffer') = f[0].at + Taken
        BY <4>2, <1>7, <1>9, <1>11, <2>3
      <4> QED BY <4>1, <4>3, <4>4, <1>12
    <3> QED BY <3>1, <3>2, <1>1 DEF Whole
  <2> QED BY <1>1, <2>1, <2>2, <2>3 DEF Filled
<1> QED BY <1>15, <1>17, <1>18

-----------------------------------------------------------------------------
(* A job that runs: where the shell would read next is of no account.      *)
LEMMA JobReadsKeeps == LineInv /\ JobReads => LineInv'
<1> SUFFICES ASSUME LineInv, JobReads PROVE LineInv'
  OBVIOUS
<1> USE DEF LineInv
<1>1. /\ pc = "job" /\ queue # <<>>
      /\ UNCHANGED <<typing, typed, thrown, ends, pending, masked, sigint_received, pc, buffer, ret, missed>>
  BY DEF JobReads
<1>2. PICK n \in 0..Len(Chunk) : queue' = Remaining(n)
  BY DEF JobReads
<1>3. PICK f : Chain(f, queue, typing, typed, thrown)
  BY DEF Chained
<1>4. /\ queue' \in Seq(Seq(Characters))
      /\ \E g : Chain(g, queue', typing, typed, thrown)
  BY <1>1, <1>2, <1>3, ReadMoves
<1>5. PICK g : Chain(g, queue', typing, typed, thrown)
  BY <1>4
<1>6. Typing'
  BY <1>1, <1>4 DEF Typing
<1>7. Started(g[0])'
  BY <1>1 DEF Started, Reading, Between
<1>8. Chained'
  BY <1>1, <1>5, <1>7 DEF Chained
<1>9. Filled'
  BY <1>1 DEF Filled
<1> QED BY <1>6, <1>8, <1>9

LEMMA JobEndsKeeps == LineInv /\ JobEnds => LineInv'
<1> SUFFICES ASSUME LineInv, JobEnds PROVE LineInv'
  OBVIOUS
<1> USE DEF LineInv
<1>1. /\ pc = "job" /\ pc' = "prompt" /\ thrown' = thrown + 1 /\ typing' = <<>> /\ queue' = <<>>
      /\ typed' = [typed EXCEPT ![Line] = 0]
      /\ UNCHANGED <<ends, pending, masked, sigint_received, buffer, ret, missed>>
  BY DEF JobEnds
<1>2. typed' \in Seq(Nat) /\ Len(typed') = Len(typed)
  BY <1>1, Emptied
<1>3. PICK f : f[0].at = 0 /\ Chain(f, <<>>, <<>>, typed', thrown')
  BY <1>1, Emptied
<1>4. Typing'
  BY <1>1, <1>2 DEF Typing, Labels
<1>5. Started(f[0])'
  BY <1>1, <1>3 DEF Started, Reading, Between
<1>6. Chained'
  BY <1>1, <1>3, <1>5 DEF Chained
<1>7. Filled'
  BY <1>1 DEF Filled
<1> QED BY <1>4, <1>6, <1>7

LEMMA TerminalLostKeeps == LineInv /\ TerminalLost => LineInv'
<1> SUFFICES ASSUME LineInv, TerminalLost PROVE LineInv'
  OBVIOUS
<1> USE DEF LineInv
<1>1. /\ pc = "job" /\ pc' = "left"
      /\ UNCHANGED <<typing, queue, typed, thrown, ends, pending, masked, sigint_received, buffer, ret, missed>>
  BY DEF TerminalLost, user
<1>2. PICK f : Chain(f, queue, typing, typed, thrown)
  BY DEF Chained
<1>3. Typing'
  BY <1>1 DEF Typing, Labels
<1>4. Started(f[0])'
  BY <1>1 DEF Started, Reading, Between
<1>5. Chained'
  BY <1>1, <1>2, <1>4 DEF Chained
<1>6. Filled'
  BY <1>1 DEF Filled
<1> QED BY <1>3, <1>5, <1>6

LEMMA NextKeepsLine == LineInv /\ [Next]_vars => LineInv'
<1> SUFFICES ASSUME LineInv, [Next]_vars PROVE LineInv'
  OBVIOUS
<1>1. CASE UNCHANGED vars
  BY <1>1 DEF vars, user, LineInv, Typing, Chained, Started, Reading, Between, Filled, Whole
<1>2. CASE User
  BY <1>2, TypeCharacterKeeps, EnterKeeps, EndKeeps, InterruptKeeps DEF User
<1>3. CASE Shell
  BY <1>3, HandleIntKeeps, PrintPromptKeeps, UnmaskKeeps, TestCancelerKeeps, ReadKeeps, MaskKeeps, RunKeeps DEF Shell
<1>4. CASE Job
  BY <1>4, JobReadsKeeps, JobEndsKeeps, TerminalLostKeeps DEF Job
<1> QED BY <1>1, <1>2, <1>3, <1>4 DEF Next

(* What was typed and not read is one piece of a line after another, and   *)
(* the buffer is at the place where they begin.                            *)
THEOREM LineInvariant == Spec => []LineInv
<1>1. Init => LineInv
  BY InitLine
<1>2. LineInv /\ [Next]_vars => LineInv'
  BY NextKeepsLine
<1> QED BY <1>1, <1>2, PTL DEF Spec

(* The line that runs is one line, all of what was typed of it since input *)
(* was last thrown away, by ^C or by the tcflush at the end of a job, and  *)
(* nothing from before; and two lines never overrun the buffer together:   *)
(* unless SIGINT was handled between the test of the flag and the read.    *)
(* (read_line_internal of utility.c, handle_int of main.c, launch_job of   *)
(* execute.c).                                                             *)
THEOREM LinesRunWhole == Spec => []RunsWholeLine
<1>1. LineInv => RunsWholeLine
  <2> SUFFICES ASSUME LineInv PROVE RunsWholeLine
    OBVIOUS
  <2>1. TypeOK
    BY DEF LineInv, Typing, Labels, TypeOK
  <2>2. DOMAIN buffer = 1..Len(buffer)
    BY LenProperties DEF LineInv, Typing
  <2>3. pc \in {"run", "overrun"} /\ ~missed => Whole
    BY DEF LineInv, Filled
  <2>4. Whole => OneLine
    BY <2>2 DEF Whole, OneLine
  <2>5. pc = "run" /\ Whole => Len(buffer) = typed[buffer[1].line] + 1
    BY DEF Whole
  <2> QED BY <2>1, <2>3, <2>4, <2>5 DEF RunsWholeLine
<1> QED BY <1>1, LineInvariant, PTL

=============================================================================
