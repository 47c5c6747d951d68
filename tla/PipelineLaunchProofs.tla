------------------------ MODULE PipelineLaunchProofs ------------------------
(***************************************************************************)
(* Proofs about PipelineLaunch, for every length of a pipeline and every   *)
(* size of a table.  TableRestored says nothing of which numbers are in    *)
(* use while the launch goes on, and is not inductive: Shelled says, for   *)
(* each place in start_job_internal, exactly which numbers are open and    *)
(* what for.  LeaderLast and Plumbing need what a process still holds of   *)
(* the table it was forked with (Process) and who is forked, told or gone  *)
(* (Order).                                                                *)
(*                                                                         *)
(* In order: the ends and the tables; a number is left for every pipe; the *)
(* shell, step by step; the table restored; the processes; the order in    *)
(* which they run.                                                         *)
(***************************************************************************)
EXTENDS PipelineLaunch, FiniteSetTheorems, WellFoundedInduction, TLAPS

(* The ends of the pipes.                                                  *)
ControlR == <<"control", "r">>
ControlW == <<"control", "w">>
PipeR(n) == <<"pipe", n, "r">>
PipeW(n) == <<"pipe", n, "w">>
ErrorR(n) == <<"error", n, "r">>
ErrorW(n) == <<"error", n, "w">>

EndsOf(n) == {PipeR(n), PipeW(n), ErrorR(n), ErrorW(n)}
FileEnd(n, r) == <<"file", n, r>>
FilesOf(n) == {FileEnd(n, r) : r \in Nat}
FileEnds == UNION {FilesOf(n) : n \in Nat}
ProcessEnds == UNION {EndsOf(n) : n \in Nat}
Ends == {<<>>, <<"terminal">>, ControlR, ControlW} \cup ProcessEnds \cup FileEnds
Entries == [end : Ends, cloexec : BOOLEAN]
Tables == [0..MAX_FD -> Entries]
Fds == [fd : -2..MAX_FD, of : Ends]
Pairs == [r : Fds, w : Fds]

(* The ends of two pipes are never the same.                               *)
LEMMA EndsDiffer ==
  /\ ControlR # ControlW /\ ControlR # <<>> /\ ControlW # <<>>
  /\ \A n : <<>> \notin EndsOf(n) /\ ControlR \notin EndsOf(n) /\ ControlW \notin EndsOf(n)
  /\ \A m, n : m # n => EndsOf(m) \cap EndsOf(n) = {}
  /\ \A n : /\ PipeR(n) # PipeW(n) /\ PipeR(n) # ErrorR(n) /\ PipeR(n) # ErrorW(n)
            /\ PipeW(n) # ErrorR(n) /\ PipeW(n) # ErrorW(n) /\ ErrorR(n) # ErrorW(n)
BY DEF ControlR, ControlW, EndsOf, PipeR, PipeW, ErrorR, ErrorW

(* Every end is among the Ends.                                            *)
LEMMA EndsAre ==
  /\ <<>> \in Ends /\ <<"terminal">> \in Ends /\ ControlR \in Ends /\ ControlW \in Ends
  /\ \A n \in Nat : PipeR(n) \in Ends /\ PipeW(n) \in Ends /\ ErrorR(n) \in Ends /\ ErrorW(n) \in Ends
  /\ \A n, r \in Nat : FileEnd(n, r) \in Ends
<1>1. ASSUME NEW n \in Nat
      PROVE  PipeR(n) \in Ends /\ PipeW(n) \in Ends /\ ErrorR(n) \in Ends /\ ErrorW(n) \in Ends
  <2>1. EndsOf(n) \in {EndsOf(m) : m \in Nat}
    OBVIOUS
  <2>2. EndsOf(n) \subseteq ProcessEnds
    BY <2>1 DEF ProcessEnds
  <2> QED BY <2>2 DEF Ends, EndsOf
<1>2. ASSUME NEW n \in Nat, NEW r \in Nat PROVE FileEnd(n, r) \in Ends
  <2>1. FilesOf(n) \in {FilesOf(m) : m \in Nat} /\ FileEnd(n, r) \in FilesOf(n)
    BY DEF FilesOf
  <2>2. FileEnd(n, r) \in FileEnds
    BY <2>1 DEF FileEnds
  <2> QED BY <2>2 DEF Ends
<1>3. <<>> \in Ends /\ <<"terminal">> \in Ends /\ ControlR \in Ends /\ ControlW \in Ends
  BY DEF Ends
<1> QED BY <1>1, <1>2, <1>3

(* What pipe(2) makes of a name.                                           *)
LEMMA PipeEndsAre ==
  /\ PipeEnds(<<"control">>) = [r |-> ControlR, w |-> ControlW]
  /\ \A n : /\ PipeEnds(<<"pipe", n>>) = [r |-> PipeR(n), w |-> PipeW(n)]
            /\ PipeEnds(<<"error", n>>) = [r |-> ErrorR(n), w |-> ErrorW(n)]
BY DEF PipeEnds, ControlR, ControlW, PipeR, PipeW, ErrorR, ErrorW

(* What a table may hold.                                                  *)
LEMMA EntryTypes ==
  /\ Closed \in Entries /\ Terminal \in Entries
  /\ \A n, r \in Nat : File(n, r) \in Entries
  /\ \A e \in Ends : /\ AtExec(e) \in Entries /\ AtExec(e).end = e /\ AtExec(e).cloexec = TRUE
                     /\ e # <<>> => AtExec(e) # Closed
  /\ Closed.end = <<>> /\ Terminal # Closed
BY EndsAre DEF Entries, Closed, Terminal, File, FileEnd, AtExec

(* A number with what it was opened for.                                   *)
LEMMA FdTypes ==
  ASSUME NEW n \in -2..MAX_FD, NEW e \in Ends
  PROVE  Fd(n, e) \in Fds /\ Fd(n, e).fd = n /\ Fd(n, e).of = e
BY DEF Fd, Fds

(* A pair of them.                                                         *)
LEMMA PairTypes ==
  ASSUME NEW a \in Fds, NEW b \in Fds
  PROVE  [r |-> a, w |-> b] \in Pairs /\ [r |-> a, w |-> b].r = a /\ [r |-> a, w |-> b].w = b
BY DEF Pairs

-----------------------------------------------------------------------------
(* A table of the shell: the terminal in 0, 1 and 2, and behind them       *)
(* exactly the live numbers, each with what it was opened for.             *)
High == 3..MAX_FD

Exact(table, live) ==
  /\ table \in Tables
  /\ table[0] = Terminal /\ table[1] = Terminal /\ table[2] = Terminal
  /\ live \subseteq Fds
  /\ \A x \in live : x.fd \in High /\ table[x.fd] = AtExec(x.of) /\ x.of # <<>>
  /\ \A fd \in High : table[fd] # Closed => \E x \in live : x.fd = fd

(* A number that was not given out again.                                  *)
Named(table, x) == x.fd > 0 => x.fd \in High /\ table[x.fd].end \in {x.of, <<>>}
                                /\ (table[x.fd].end = <<>> => table[x.fd] = Closed)

(* Two numbers opened for the same thing are the same.                     *)
LEMMA SameNumber ==
  ASSUME NEW x \in Fds, NEW y \in Fds, x.fd = y.fd, x.of = y.of
  PROVE  x = y
BY DEF Fds

(* A close takes exactly its number out of the table, and no name of another.*)
LEMMA CloseNumber ==
  ASSUME NEW table, NEW live, Exact(table, live), NEW x \in Fds, Named(table, x)
  PROVE  /\ Exact(Without(table, x), live \ {x})
         /\ \A y \in Fds : Named(table, y) => Named(Without(table, x), y)
<1>1. CASE x.fd > 0
  <2> DEFINE new == [table EXCEPT ![x.fd] = Closed]
  <2>1. Without(table, x) = new
    BY <1>1 DEF Without
  <2>2. x.fd \in High /\ x.fd \in 0..MAX_FD /\ table \in Tables /\ High \subseteq 0..MAX_FD
    BY <1>1 DEF Named, High, Exact
  <2>3. /\ new \in Tables
        /\ new[x.fd] = Closed
        /\ \A fd \in 0..MAX_FD : fd # x.fd => new[fd] = table[fd]
    BY <2>2, EntryTypes DEF Tables
  <2>4. 0 # x.fd /\ 1 # x.fd /\ 2 # x.fd /\ 0 \in 0..MAX_FD /\ 1 \in 0..MAX_FD /\ 2 \in 0..MAX_FD
    BY <2>2, LaunchAssumption DEF High
  <2> HIDE DEF new
  <2>5. \A y \in live \ {x} : y.fd # x.fd
    <3> SUFFICES ASSUME NEW y \in live, y.fd = x.fd PROVE y = x
      OBVIOUS
    <3>1. y \in Fds /\ table[x.fd] = AtExec(y.of) /\ y.of # <<>> /\ y.of \in Ends
      BY DEF Exact, Fds
    <3>2. y.of = x.of
      BY <3>1, <1>1, EntryTypes DEF Named
    <3> QED BY <3>1, <3>2, SameNumber
  <2>6. Exact(new, live \ {x})
    <3>1. \A y \in live \ {x} : y.fd \in High /\ new[y.fd] = AtExec(y.of) /\ y.of # <<>>
      BY <2>2, <2>3, <2>5 DEF Exact
    <3>2. \A fd \in High : new[fd] # Closed => \E y \in live \ {x} : y.fd = fd
      BY <2>2, <2>3 DEF Exact
    <3> QED BY <2>3, <2>4, <3>1, <3>2 DEF Exact
  <2>7. ASSUME NEW y \in Fds, Named(table, y) PROVE Named(new, y)
    BY <2>2, <2>3, <2>7, EntryTypes DEF Named
  <2> QED BY <2>1, <2>6, <2>7
<1>2. CASE ~(x.fd > 0)
  <2>1. Without(table, x) = table
    BY <1>2 DEF Without
  <2>2. x \notin live
    BY <1>2 DEF Exact, High
  <2> QED BY <2>1, <2>2
<1> QED BY <1>1, <1>2

-----------------------------------------------------------------------------
(* There is always a number left for a pipe, or for a file.                *)
LEMMA LeastNat ==
  ASSUME NEW S \in SUBSET Nat, S # {}
  PROVE  \E x \in S : \A y \in S : x <= y
<1> DEFINE R == OpToRel(<, Nat)
<1>1. \A x, y \in Nat : x < y => <<x, y>> \in R
  BY DEF OpToRel
<1>2. \E x \in S : \A y \in S : ~ (<<y, x>> \in R)
  BY NatLessThanWellFounded, WFMin
<1> HIDE DEF R
<1>3. ASSUME NEW x \in S, NEW y \in S, ~(<<y, x>> \in R) PROVE x <= y
  <2>1. x \in Nat /\ y \in Nat
    OBVIOUS
  <2> QED BY <2>1, <1>1, <1>3
<1> QED BY <1>2, <1>3

(* Min of a set of naturals.                                               *)
LEMMA MinIsIn ==
  ASSUME NEW S \in SUBSET Nat, S # {}
  PROVE  Min(S) \in S
BY LeastNat DEF Min

(* And no other is less.                                                   *)
LEMMA MinIsLeast ==
  ASSUME NEW S \in SUBSET Nat, S # {}
  PROVE  \A x \in S : Min(S) <= x
BY LeastNat DEF Min

(* With eight numbers in use one is left: 3..11 are nine.                  *)
LEMMA EnoughFree ==
  ASSUME NEW table, NEW busy, IsFiniteSet(busy), Cardinality(busy) <= 8,
         {fd \in High : table[fd] # Closed} \subseteq busy
  PROVE  \E fd \in High : fd \notin busy /\ table[fd] = Closed
<1>1. IsFiniteSet(3..11) /\ Cardinality(3..11) = 9
  <2>0. PICK lo, hi \in Int : lo = 3 /\ hi = 11
    OBVIOUS
  <2>1. IsFiniteSet(lo..hi) /\ Cardinality(lo..hi) = IF lo > hi THEN 0 ELSE hi - lo + 1
    BY FS_Interval
  <2>2. (IF lo > hi THEN 0 ELSE hi - lo + 1) = 9
    BY <2>0
  <2> QED BY <2>0, <2>1, <2>2, Zenon
<1>2. 3..11 \subseteq High
  BY LaunchAssumption DEF High
<1>3. Cardinality(busy) \in Nat
  BY FS_CardinalityType
<1>4. ~(3..11 \subseteq busy)
  <2> SUFFICES ASSUME 3..11 \subseteq busy PROVE FALSE
    OBVIOUS
  <2>1. Cardinality(3..11) <= Cardinality(busy)
    BY FS_Subset
  <2> QED BY <2>1, <1>1, <1>3
<1> QED BY <1>2, <1>4

(* A set written with eight elements has no more.                          *)
LEMMA EightAtMost ==
  \A a, b, c, d, e, f, g, h :
     /\ IsFiniteSet({a, b, c, d, e, f, g, h})
     /\ Cardinality({a, b, c, d, e, f, g, h}) <= 8
<1>1. ASSUME NEW S, IsFiniteSet(S), NEW n \in Nat, Cardinality(S) <= n, NEW x
      PROVE  IsFiniteSet(S \cup {x}) /\ Cardinality(S \cup {x}) <= n + 1
  <2>1. IsFiniteSet(S \cup {x}) /\ (Cardinality(S \cup {x}) = Cardinality(S) \/ Cardinality(S \cup {x}) = Cardinality(S) + 1)
    BY <1>1, FS_AddElement
  <2>2. Cardinality(S) \in Nat
    BY <1>1, FS_CardinalityType
  <2> QED BY <2>1, <2>2, <1>1
<1> TAKE a, b, c, d, e, f, g, h
<1>2. IsFiniteSet({a}) /\ Cardinality({a}) <= 1
  BY FS_Singleton
<1>3. IsFiniteSet({a, b}) /\ Cardinality({a, b}) <= 2
  <2>1. {a, b} = {a} \cup {b}
    OBVIOUS
  <2>2. IsFiniteSet({a} \cup {b}) /\ Cardinality({a} \cup {b}) <= 1 + 1
    BY <1>1, <1>2
  <2> QED BY <2>1, <2>2
<1>4. IsFiniteSet({a, b, c}) /\ Cardinality({a, b, c}) <= 3
  <2>1. {a, b, c} = {a, b} \cup {c}
    OBVIOUS
  <2>2. IsFiniteSet({a, b} \cup {c}) /\ Cardinality({a, b} \cup {c}) <= 2 + 1
    BY <1>1, <1>3
  <2> QED BY <2>1, <2>2
<1>5. IsFiniteSet({a, b, c, d}) /\ Cardinality({a, b, c, d}) <= 4
  <2>1. {a, b, c, d} = {a, b, c} \cup {d}
    OBVIOUS
  <2>2. IsFiniteSet({a, b, c} \cup {d}) /\ Cardinality({a, b, c} \cup {d}) <= 3 + 1
    BY <1>1, <1>4
  <2> QED BY <2>1, <2>2
<1>6. IsFiniteSet({a, b, c, d, e}) /\ Cardinality({a, b, c, d, e}) <= 5
  <2>1. {a, b, c, d, e} = {a, b, c, d} \cup {e}
    OBVIOUS
  <2>2. IsFiniteSet({a, b, c, d} \cup {e}) /\ Cardinality({a, b, c, d} \cup {e}) <= 4 + 1
    BY <1>1, <1>5
  <2> QED BY <2>1, <2>2
<1>7. IsFiniteSet({a, b, c, d, e, f}) /\ Cardinality({a, b, c, d, e, f}) <= 6
  <2>1. {a, b, c, d, e, f} = {a, b, c, d, e} \cup {f}
    OBVIOUS
  <2>2. IsFiniteSet({a, b, c, d, e} \cup {f}) /\ Cardinality({a, b, c, d, e} \cup {f}) <= 5 + 1
    BY <1>1, <1>6
  <2> QED BY <2>1, <2>2
<1>8. IsFiniteSet({a, b, c, d, e, f, g}) /\ Cardinality({a, b, c, d, e, f, g}) <= 7
  <2>1. {a, b, c, d, e, f, g} = {a, b, c, d, e, f} \cup {g}
    OBVIOUS
  <2>2. IsFiniteSet({a, b, c, d, e, f} \cup {g}) /\ Cardinality({a, b, c, d, e, f} \cup {g}) <= 6 + 1
    BY <1>1, <1>7
  <2> QED BY <2>1, <2>2
<1>9. {a, b, c, d, e, f, g, h} = {a, b, c, d, e, f, g} \cup {h}
  OBVIOUS
<1>10. /\ IsFiniteSet({a, b, c, d, e, f, g} \cup {h})
       /\ Cardinality({a, b, c, d, e, f, g} \cup {h}) <= 7 + 1
  BY <1>1, <1>8
<1> QED BY <1>9, <1>10

(* pipe(2): two free numbers, and the table is exact again.                *)
LEMMA OpenPipe ==
  ASSUME NEW table, NEW live, Exact(table, live), NEW name,
         NEW a, NEW b, NEW c, NEW d, NEW e, NEW f, live \subseteq {a, b, c, d, e, f},
         NEW er \in Ends \ {<<>>}, NEW ew \in Ends \ {<<>>}, PipeEnds(name) = [r |-> er, w |-> ew]
  PROVE  LET made == WithPipe(table, name)
         IN  /\ made.pair \in Pairs /\ made.pair.r.of = er /\ made.pair.w.of = ew
             /\ Exact(made.table, live \cup {made.pair.r, made.pair.w})
<1> DEFINE busy == {a.fd, b.fd, c.fd, d.fd, e.fd, f.fd}
           r == Lowest(table)
           w == Min(Free(table) \ {r})
<1>1. {fd \in High : table[fd] # Closed} \subseteq busy
  <2> SUFFICES ASSUME NEW fd \in High, table[fd] # Closed PROVE fd \in busy
    OBVIOUS
  <2>1. PICK x \in live : x.fd = fd
    BY DEF Exact
  <2> QED BY <2>1
<1>2. High \subseteq 0..MAX_FD /\ 0..MAX_FD \subseteq Nat /\ {0, 1, 2} \cup High = 0..MAX_FD
  BY LaunchAssumption DEF High
<1>3. Free(table) \subseteq High
  <2>1. table[0] # Closed /\ table[1] # Closed /\ table[2] # Closed
    BY EntryTypes DEF Exact
  <2> QED BY <2>1, <1>2 DEF Free
<1>4. r \in Free(table)
  <2> DEFINE all == {a.fd, b.fd, c.fd, d.fd, e.fd, f.fd, f.fd, f.fd}
  <2>1. IsFiniteSet(all) /\ Cardinality(all) <= 8
    BY EightAtMost
  <2>2. IsFiniteSet(busy) /\ Cardinality(busy) <= 8
    <3>1. busy = all
      OBVIOUS
    <3> HIDE DEF busy, all
    <3> QED BY <2>1, <3>1
  <2> HIDE DEF busy
  <2>3. PICK fd \in High : table[fd] = Closed
    BY <2>2, <1>1, EnoughFree
  <2>4. Free(table) # {} /\ Free(table) \in SUBSET Nat
    BY <2>3, <1>2 DEF Free
  <2> QED BY <2>4, MinIsIn DEF Lowest
<1>5. w \in Free(table) \ {r}
  <2> HIDE DEF r
  <2> DEFINE all == {a.fd, b.fd, c.fd, d.fd, e.fd, f.fd, r, r}
  <2>1. IsFiniteSet(all) /\ Cardinality(all) <= 8
    BY EightAtMost
  <2>2. IsFiniteSet(busy \cup {r}) /\ Cardinality(busy \cup {r}) <= 8
    <3>1. busy \cup {r} = all
      OBVIOUS
    <3> HIDE DEF busy, all
    <3> QED BY <2>1, <3>1
  <2> HIDE DEF busy
  <2>3. PICK fd \in High : fd \notin busy \cup {r} /\ table[fd] = Closed
    BY <2>2, <1>1, EnoughFree
  <2>4. Free(table) \ {r} # {} /\ Free(table) \ {r} \in SUBSET Nat
    BY <2>3, <1>2 DEF Free
  <2> QED BY <2>4, MinIsIn
<1> HIDE DEF busy, r, w
<1>6. /\ r \in High /\ w \in High /\ r # w /\ table[r] = Closed /\ table[w] = Closed
      /\ r \in 0..MAX_FD /\ w \in 0..MAX_FD
  BY <1>3, <1>4, <1>5, <1>2 DEF Free
<1> DEFINE new == [table EXCEPT ![r] = AtExec(er), ![w] = AtExec(ew)]
<1>7. WithPipe(table, name) = [table |-> new, pair |-> [r |-> Fd(r, er), w |-> Fd(w, ew)]]
  <2>1. PipeEnds(name).r = er /\ PipeEnds(name).w = ew
    OBVIOUS
  <2> QED BY <2>1 DEF WithPipe, r, w
<1>8. /\ new \in Tables
      /\ new[r] = AtExec(er) /\ new[w] = AtExec(ew)
      /\ \A fd \in 0..MAX_FD : fd # r /\ fd # w => new[fd] = table[fd]
  <2>1. table \in Tables /\ AtExec(er) \in Entries /\ AtExec(ew) \in Entries
    BY EntryTypes DEF Exact
  <2> QED BY <2>1, <1>6 DEF Tables
<1> HIDE DEF new
<1>9. /\ Fd(r, er) \in Fds /\ Fd(r, er).fd = r /\ Fd(r, er).of = er
      /\ Fd(w, ew) \in Fds /\ Fd(w, ew).fd = w /\ Fd(w, ew).of = ew
  <2>1. r \in -2..MAX_FD /\ w \in -2..MAX_FD
    BY <1>6
  <2> QED BY <2>1, FdTypes
<1> DEFINE now == live \cup {Fd(r, er), Fd(w, ew)}
<1>10. \A x \in now : x.fd \in High /\ new[x.fd] = AtExec(x.of) /\ x.of # <<>>
  <2> SUFFICES ASSUME NEW x \in now
               PROVE  x.fd \in High /\ new[x.fd] = AtExec(x.of) /\ x.of # <<>>
    OBVIOUS
  <2>1. CASE x \in live
    <3>1. x.fd \in High /\ table[x.fd] = AtExec(x.of) /\ x.of # <<>> /\ x.of \in Ends
      BY <2>1 DEF Exact, Fds
    <3>2. x.fd # r /\ x.fd # w
      BY <3>1, <1>6, EntryTypes
    <3> QED BY <3>1, <3>2, <1>8, <1>2
  <2>2. CASE x \in {Fd(r, er), Fd(w, ew)}
    BY <2>2, <1>6, <1>8, <1>9
  <2> QED BY <2>1, <2>2
<1>11. \A fd \in High : new[fd] # Closed => \E x \in now : x.fd = fd
  <2> SUFFICES ASSUME NEW fd \in High, new[fd] # Closed PROVE \E x \in now : x.fd = fd
    OBVIOUS
  <2>1. CASE fd \in {r, w}
    BY <2>1, <1>9
  <2>2. CASE fd \notin {r, w}
    <3>1. table[fd] # Closed
      BY <2>2, <1>8, <1>2
    <3> QED BY <3>1 DEF Exact
  <2> QED BY <2>1, <2>2
<1>12. new[0] = Terminal /\ new[1] = Terminal /\ new[2] = Terminal
  <2>1. /\ 0 # r /\ 1 # r /\ 2 # r /\ 0 # w /\ 1 # w /\ 2 # w
        /\ 0 \in 0..MAX_FD /\ 1 \in 0..MAX_FD /\ 2 \in 0..MAX_FD
    BY <1>6, <1>2 DEF High
  <2> QED BY <2>1, <1>8 DEF Exact
<1>13. now \subseteq Fds
  BY <1>9 DEF Exact
<1>14. Exact(new, now)
  BY <1>8, <1>10, <1>11, <1>12, <1>13 DEF Exact
<1>15. [r |-> Fd(r, er), w |-> Fd(w, ew)] \in Pairs
  BY <1>9 DEF Pairs
<1> DEFINE pair == [r |-> Fd(r, er), w |-> Fd(w, ew)]
<1>16. pair.r = Fd(r, er) /\ pair.w = Fd(w, ew)
  OBVIOUS
<1> HIDE DEF pair
<1>17. WithPipe(table, name).table = new /\ WithPipe(table, name).pair = pair
  BY <1>7 DEF pair
<1>18. /\ pair \in Pairs /\ pair.r.of = er /\ pair.w.of = ew
       /\ Exact(new, live \cup {pair.r, pair.w})
  BY <1>9, <1>14, <1>15, <1>16 DEF pair
<1> QED BY <1>17, <1>18

-----------------------------------------------------------------------------
(* The shell in start_job_internal: which numbers are live at each place,  *)
(* and what for.                                                           *)
Labels == {"control", "pipe", "error_pipe", "fork", "parent", "read_error", "next",
           "read_first", "failed", "started", "not_started"}
ChildLabels == {"none", "forked", "linked", "plumbed", "waiting", "ready", "exec", "gone"}
ChildRecords == [pc : ChildLabels, done : Nat, fds : Tables, control : Pairs, error : Pairs,
                 pipe : Pairs, prev : Fds]

Typed ==
  /\ size \in 1..MaxProcesses
  /\ redirects \in [1..size -> RedirectLists]
  /\ pc \in Labels
  /\ k \in 1..size
  /\ control_pipe \in Pairs /\ error_pipe \in Pairs /\ pipefds \in Pairs
  /\ prevfd \in Fds /\ first_error_pipe_read \in Fds
  /\ child \in [1..size -> ChildRecords]
  /\ told \subseteq 1..size

Before == {"pipe", "error_pipe", "fork", "parent"}
Feeding == Before \cup {"read_error", "next"}
KeepsFirst == (k > 1 /\ pc \in Before \cup {"read_error"}) \/ pc \in {"next", "read_first"}

LiveNow ==
  (IF pc \in Feeding THEN {control_pipe.r, control_pipe.w} ELSE {})
    \cup (IF k > 1 /\ pc \in Before THEN {prevfd} ELSE {})
    \cup (IF k < size /\ pc \in {"error_pipe", "fork", "parent"}
          THEN {pipefds.r, pipefds.w} ELSE {})
    \cup (IF k < size /\ pc \in {"read_error", "next"} THEN {pipefds.r} ELSE {})
    \cup (IF pc \in {"fork", "parent"} THEN {error_pipe.r, error_pipe.w} ELSE {})
    \cup (IF pc = "read_error" THEN {error_pipe.r} ELSE {})
    \cup (IF KeepsFirst THEN {first_error_pipe_read} ELSE {})

Labelled ==
  /\ pc \in Feeding => control_pipe.r.of = ControlR /\ control_pipe.w.of = ControlW
  /\ k > 1 /\ pc \in Before => prevfd.of = PipeR(k - 1)
  /\ k < size /\ pc \in {"error_pipe", "fork", "parent"} =>
       pipefds.r.of = PipeR(k) /\ pipefds.w.of = PipeW(k)
  /\ k < size /\ pc \in {"read_error", "next"} =>
       pipefds.r.of = PipeR(k) /\ pipefds.w.of = PipeW(k) /\ prevfd = pipefds.r
  /\ pc \in {"fork", "parent"} => error_pipe.r.of = ErrorR(k) /\ error_pipe.w.of = ErrorW(k)
  /\ pc = "read_error" => error_pipe.r.of = ErrorR(k) /\ error_pipe.w.of = ErrorW(k)
  /\ KeepsFirst => first_error_pipe_read.of = ErrorR(1)
  /\ pipefds.r.of # ErrorR(1) /\ pipefds.w.of # ErrorR(1)

Placed ==
  /\ k = 1 /\ pc \in Before \cup {"control"} => prevfd.fd = -2
  /\ pc = "control" => k = 1
  /\ pc = "pipe" => k < size
  /\ pc = "read_error" => k > 1
  /\ pc \in {"read_first", "started"} => k = size

(* Whenever a pipe is still to come, no variable keeps a number that is    *)
(* free: the next pipe could get it.                                       *)
Opening ==
  pc \in Before \cup {"control"} \/ (k < size /\ pc \in {"read_error", "next"}) =>
    \A x \in Numbers : x.fd <= 0 \/ x \in LiveNow

AllNamed == \A x \in Numbers : Named(fds, x)

Left(x) == x.of \in {PipeR(k - 1), ErrorR(1)}
InPairs == {control_pipe.r, control_pipe.w, pipefds.r, pipefds.w, error_pipe.r, error_pipe.w}

ExactNow ==
  /\ pc \notin {"failed", "not_started"} => Exact(fds, LiveNow)
  /\ pc = "failed" =>
       \E live \in SUBSET Fds : Exact(fds, live) /\ \A x \in live : x \in InPairs \/ Left(x)
  /\ pc = "not_started" =>
       \E live \in SUBSET Fds : Exact(fds, live) /\ \A x \in live : Left(x)

ShellInv == Typed /\ Labelled /\ Placed /\ Opening /\ AllNamed /\ ExactNow

-----------------------------------------------------------------------------
(* Closing, as the variables see it.                                       *)
LEMMA LiveNamed ==
  ASSUME NEW table, NEW live, Exact(table, live), NEW x \in Fds, x \in live \/ x.fd <= 0
  PROVE  Named(table, x)
<1>1. CASE x \in live
  <2>1. x.fd \in High /\ table[x.fd] = AtExec(x.of) /\ x.of # <<>> /\ x.of \in Ends
    BY <1>1 DEF Exact, Fds
  <2> QED BY <2>1, EntryTypes DEF Named
<1>2. CASE x \notin live
  BY <1>2 DEF Named, Fds
<1> QED BY <1>1, <1>2

(* What close_pipe leaves in a variable: the number, or -1 when it was open.*)
LEMMA ClosedNumber ==
  ASSUME NEW table, NEW live, Exact(table, live), NEW x \in Fds
  PROVE  /\ ClosedFd(table, x) \in Fds /\ ClosedFd(table, x).of = x.of
         /\ ClosedFd(table, x).fd \in {x.fd, -1}
         /\ x \in live => ClosedFd(table, x).fd = -1
         /\ ClosedFd(table, x).fd = x.fd => ClosedFd(table, x) = x
<1>1. [x EXCEPT !.fd = -1] \in Fds /\ [x EXCEPT !.fd = -1].of = x.of /\ [x EXCEPT !.fd = -1].fd = -1
  BY LaunchAssumption DEF Fds
<1>2. ClosedFd(table, x) \in {x, [x EXCEPT !.fd = -1]}
  BY DEF ClosedFd
<1>3. ASSUME x \in live PROVE ClosedFd(table, x).fd = -1
  <2>1. /\ x.fd \in High /\ table[x.fd] = AtExec(x.of) /\ x.of # <<>> /\ x.of \in Ends
        /\ High \subseteq 0..MAX_FD
    BY <1>3 DEF Exact, Fds, High
  <2>2. x.fd > 0 /\ IsOpen(table, x.fd)
    BY <2>1, EntryTypes DEF High, IsOpen
  <2> QED BY <2>2, <1>1 DEF ClosedFd
<1>4. x.fd = -1 => [x EXCEPT !.fd = -1] = x
  BY DEF Fds
<1> QED BY <1>1, <1>2, <1>3, <1>4

(* The same for both ends of a pair.                                       *)
LEMMA ClosedPipeParts ==
  ASSUME NEW table, NEW pair \in Pairs, NEW which, NEW live, Exact(table, live)
  PROVE  /\ ClosedPipe(table, pair, which).r = IF "r" \in which THEN ClosedFd(table, pair.r) ELSE pair.r
         /\ ClosedPipe(table, pair, which).w = IF "w" \in which THEN ClosedFd(table, pair.w) ELSE pair.w
         /\ ClosedPipe(table, pair, which) \in Pairs
<1>1. pair.r \in Fds /\ pair.w \in Fds
  BY DEF Pairs
<1>2. /\ ClosedPipe(table, pair, which).r = IF "r" \in which THEN ClosedFd(table, pair.r) ELSE pair.r
      /\ ClosedPipe(table, pair, which).w = IF "w" \in which THEN ClosedFd(table, pair.w) ELSE pair.w
  BY DEF ClosedPipe
<1>3. ClosedPipe(table, pair, which).r \in Fds /\ ClosedPipe(table, pair, which).w \in Fds
  BY <1>1, <1>2, ClosedNumber
<1>4. ClosedPipe(table, pair, which)
        = [r |-> ClosedPipe(table, pair, which).r, w |-> ClosedPipe(table, pair, which).w]
  BY DEF ClosedPipe
<1> QED BY <1>2, <1>3, <1>4 DEF Pairs

(* A variable that was closed still names nothing else.                    *)
LEMMA ClosedNamed ==
  ASSUME NEW table, NEW live, Exact(table, live), NEW x \in Fds, NEW after, Named(after, x)
  PROVE  Named(after, ClosedFd(table, x))
<1>1. ClosedFd(table, x).fd = -1 \/ ClosedFd(table, x) = x
  BY ClosedNumber
<1> QED BY <1>1 DEF Named

(* The numbers the shell keeps.                                            *)
LEMMA NumbersTyped ==
  ASSUME Typed
  PROVE  /\ Numbers \subseteq Fds /\ LiveNow \subseteq Numbers
         /\ control_pipe.r \in Fds /\ control_pipe.w \in Fds
         /\ pipefds.r \in Fds /\ pipefds.w \in Fds
         /\ error_pipe.r \in Fds /\ error_pipe.w \in Fds
<1>1. /\ control_pipe.r \in Fds /\ control_pipe.w \in Fds
      /\ pipefds.r \in Fds /\ pipefds.w \in Fds
      /\ error_pipe.r \in Fds /\ error_pipe.w \in Fds
  BY DEF Typed, Pairs
<1> QED BY <1>1 DEF Typed, Numbers, LiveNow

(* With Opening, names need no proof of their own.                         *)
LEMMA OpeningNamed ==
  ASSUME NEW table, NEW live, NEW numbers \in SUBSET Fds, Exact(table, live),
         \A x \in numbers : x.fd <= 0 \/ x \in live
  PROVE  \A x \in numbers : Named(table, x)
BY LiveNamed

-----------------------------------------------------------------------------
(* The shell's steps.                                                      *)
Shelled == Labelled /\ Placed /\ Opening /\ AllNamed /\ ExactNow

\* Before the launch only 0, 1 and 2 are open, and no variable keeps a number.
LEMMA InitShell == Init => Shelled
<1> SUFFICES ASSUME Init PROVE Shelled
  OBVIOUS
<1> USE DEF Init
<1>1. NoFd.fd = -1 /\ NoFd.of = <<>> /\ Fd(-2, <<>>).fd = -2 /\ NoPipe.r = NoFd /\ NoPipe.w = NoFd
  BY DEF NoFd, Fd, NoPipe
<1>2. \A x \in Numbers : x.fd <= 0
  BY <1>1 DEF Numbers
<1>3. LiveNow = {}
  BY DEF LiveNow, Feeding, Before, KeepsFirst
<1>4. Exact(fds, {})
  <2>1. fds \in Tables
    BY EntryTypes DEF Tables
  <2>2. fds[0] = Terminal /\ fds[1] = Terminal /\ fds[2] = Terminal
    BY LaunchAssumption DEF STDERR_FILENO
  <2>3. \A fd \in High : fds[fd] = Closed
    BY LaunchAssumption DEF STDERR_FILENO, High
  <2> QED BY <2>1, <2>2, <2>3 DEF Exact
<1>5. AllNamed
  BY <1>1, <1>2 DEF AllNamed, Named, Numbers
<1>6. Labelled /\ Placed /\ Opening
  <2>1. pipefds.r.of # ErrorR(1) /\ pipefds.w.of # ErrorR(1)
    BY <1>1, EndsDiffer DEF EndsOf
  <2>2. size \in Nat /\ (1 < size \/ size = 1)
    BY LaunchAssumption
  <2> QED BY <1>1, <1>2, <2>1, <2>2 DEF Labelled, Placed, Opening, Feeding, Before, KeepsFirst
<1> QED BY <1>3, <1>4, <1>5, <1>6 DEF Shelled, ExactNow

(* A failure leaves all as it is.                                          *)
LEMMA FailedShell ==
  ASSUME Typed, Shelled, UNCHANGED <<size, k, fds, control_pipe, error_pipe, pipefds, prevfd,
                                     first_error_pipe_read>>,
         \/ pc \in Before \cup {"read_error", "read_first"} /\ pc' = "failed"
         \/ pc = "control" /\ pc' = "not_started"
  PROVE  Shelled'
<1>1. AllNamed'
  <2>1. Numbers' = Numbers
    BY DEF Numbers
  <2> QED BY <2>1 DEF Shelled, AllNamed, Named
<1>2. Labelled' /\ Placed' /\ Opening'
  BY DEF Shelled, Labelled, Placed, Opening, Feeding, Before, KeepsFirst
<1>3. Exact(fds, LiveNow) /\ LiveNow \in SUBSET Fds
  BY NumbersTyped DEF Shelled, ExactNow, Before
<1>4. CASE pc' = "failed"
  <2>1. \A x \in LiveNow : x \in InPairs \/ Left(x)
    BY <1>4 DEF LiveNow, InPairs, Left, Shelled, Labelled
  <2>2. \A x \in LiveNow : x \in InPairs' \/ Left(x)'
    BY <2>1 DEF InPairs, Left
  <2>3. ExactNow'
    BY <1>3, <1>4, <2>2 DEF ExactNow, Exact
  <2> QED BY <1>1, <1>2, <2>3 DEF Shelled
<1>5. CASE pc' = "not_started"
  <2>1. LiveNow = {}
    BY <1>5 DEF LiveNow, Feeding, Before, KeepsFirst
  <2>2. Exact(fds, {})' /\ {} \in SUBSET Fds
    BY <1>3, <2>1 DEF Exact
  <2>3. ExactNow'
    BY <1>5, <2>2 DEF ExactNow
  <2> QED BY <1>1, <1>2, <2>3 DEF Shelled
<1> QED BY <1>4, <1>5 DEF Before

(* The control pipe is made while no other number is in use.               *)
LEMMA CreateControlPipeShell == Typed /\ Shelled /\ CreateControlPipe /\ Typed' => Shelled'
<1> SUFFICES ASSUME Typed, Shelled, CreateControlPipe, Typed' PROVE Shelled'
  OBVIOUS
<1>1. CASE pc' = "not_started"
  BY <1>1, FailedShell DEF CreateControlPipe, Goto
<1>2. CASE pc' # "not_started"
  <2> DEFINE made == WithPipe(fds, <<"control">>)
  <2>1. /\ pc = "control" /\ fds' = made.table /\ control_pipe' = made.pair
        /\ pc' = IF IsLast(k) THEN "error_pipe" ELSE "pipe"
        /\ UNCHANGED <<size, redirects, k, error_pipe, pipefds, prevfd, first_error_pipe_read>>
    BY <1>2 DEF CreateControlPipe, Goto
  <2> HIDE DEF made
  <2>2. k = 1 /\ size \in Nat /\ size >= 1 /\ prevfd.fd = -2
    BY <2>1, LaunchAssumption DEF Shelled, Placed, Typed
  <2>3. LiveNow = {} /\ Exact(fds, {})
    <3>1. LiveNow = {}
      BY <2>1 DEF LiveNow, Feeding, Before, KeepsFirst
    <3> QED BY <2>1, <3>1 DEF Shelled, ExactNow
  <2>4. /\ made.pair \in Pairs /\ made.pair.r.of = ControlR /\ made.pair.w.of = ControlW
        /\ Exact(made.table, {} \cup {made.pair.r, made.pair.w})
    <3>1. ControlR \in Ends \ {<<>>} /\ ControlW \in Ends \ {<<>>}
      BY EndsAre, EndsDiffer
    <3> QED BY <2>3, <3>1, PipeEndsAre, OpenPipe DEF made
  <2>5. LiveNow' = {control_pipe'.r, control_pipe'.w}
    BY <2>1, <2>2 DEF LiveNow, Feeding, Before, KeepsFirst, IsLast
  <2>6. Exact(fds, LiveNow)' /\ pc' \in {"pipe", "error_pipe"}
    BY <2>1, <2>4, <2>5
  <2>7. \A x \in Numbers' : x.fd <= 0 \/ x \in LiveNow'
    <3>1. \A x \in Numbers : x.fd <= 0
      BY <2>1, <2>3 DEF Shelled, Opening
    <3> QED BY <3>1, <2>1, <2>5 DEF Numbers
  <2>8. AllNamed'
    <3>1. Numbers' \in SUBSET Fds
      BY DEF Typed, Pairs, Numbers
    <3> QED BY <3>1, <2>6, <2>7, OpeningNamed DEF AllNamed
  <2>9. Labelled' /\ Placed' /\ Opening'
    <3>1. k < size <=> ~IsLast(k)
      BY <2>2 DEF IsLast
    <3> QED BY <2>1, <2>2, <2>4, <2>7, <3>1
            DEF Labelled, Placed, Opening, Feeding, Before, KeepsFirst, Shelled
  <2> QED BY <2>6, <2>8, <2>9 DEF Shelled, ExactNow
<1> QED BY <1>1, <1>2

(* The pipe to the next process.                                           *)
LEMMA CreatePipeShell == Typed /\ Shelled /\ CreatePipe /\ Typed' => Shelled'
<1> SUFFICES ASSUME Typed, Shelled, CreatePipe, Typed' PROVE Shelled'
  OBVIOUS
<1>1. CASE pc' = "failed"
  BY <1>1, FailedShell DEF CreatePipe, Goto, Before
<1>2. CASE pc' # "failed"
  <2> DEFINE made == WithPipe(fds, <<"pipe", k>>)
  <2>1. /\ pc = "pipe" /\ fds' = made.table /\ pipefds' = made.pair
        /\ pc' = "error_pipe"
        /\ UNCHANGED <<size, redirects, k, control_pipe, error_pipe, prevfd, first_error_pipe_read>>
    BY <1>2 DEF CreatePipe, Goto
  <2> HIDE DEF made
  <2>2. k < size /\ k \in Nat /\ size \in Nat
    BY <2>1, LaunchAssumption DEF Shelled, Placed, Typed
  <2>3. Exact(fds, LiveNow)
    BY <2>1 DEF Shelled, ExactNow
  <2>4. /\ made.pair \in Pairs /\ made.pair.r.of = PipeR(k) /\ made.pair.w.of = PipeW(k)
        /\ Exact(made.table, LiveNow \cup {made.pair.r, made.pair.w})
    <3>1. PipeR(k) \in Ends \ {<<>>} /\ PipeW(k) \in Ends \ {<<>>}
      BY <2>2, EndsAre, EndsDiffer DEF EndsOf
    <3>2. LiveNow \subseteq {control_pipe.r, control_pipe.w, prevfd, first_error_pipe_read, prevfd, prevfd}
      BY <2>1 DEF LiveNow
    <3>3. PipeEnds(<<"pipe", k>>) = [r |-> PipeR(k), w |-> PipeW(k)]
      BY PipeEndsAre
    <3> QED BY <2>3, <3>1, <3>2, <3>3, OpenPipe DEF made
  <2>5. LiveNow' = LiveNow \cup {pipefds'.r, pipefds'.w}
    BY <2>1, <2>2 DEF LiveNow, Feeding, Before, KeepsFirst
  <2>6. Exact(fds, LiveNow)'
    BY <2>1, <2>4, <2>5
  <2>7. \A x \in Numbers' : x.fd <= 0 \/ x \in LiveNow'
    <3>1. \A x \in Numbers : x.fd <= 0 \/ x \in LiveNow
      BY <2>1 DEF Shelled, Opening, Before
    <3> QED BY <3>1, <2>1, <2>5 DEF Numbers
  <2>8. AllNamed'
    <3>1. Numbers' \in SUBSET Fds
      BY DEF Typed, Pairs, Numbers
    <3> QED BY <3>1, <2>6, <2>7, OpeningNamed DEF AllNamed
  <2>9. Labelled' /\ Placed' /\ Opening'
    <3>1. PipeR(k) # ErrorR(1) /\ PipeW(k) # ErrorR(1)
      BY DEF PipeR, PipeW, ErrorR
    <3> QED BY <2>1, <2>2, <2>4, <2>7, <3>1
            DEF Labelled, Placed, Opening, Feeding, Before, KeepsFirst, Shelled
  <2> QED BY <2>1, <2>6, <2>8, <2>9 DEF Shelled, ExactNow
<1> QED BY <1>1, <1>2

(* The error pipe of the process.                                          *)
LEMMA CreateErrorPipeShell == Typed /\ Shelled /\ CreateErrorPipe /\ Typed' => Shelled'
<1> SUFFICES ASSUME Typed, Shelled, CreateErrorPipe, Typed' PROVE Shelled'
  OBVIOUS
<1>1. CASE pc' = "failed"
  BY <1>1, FailedShell DEF CreateErrorPipe, Goto, Before
<1>2. CASE pc' # "failed"
  <2> DEFINE made == WithPipe(fds, <<"error", k>>)
  <2>1. /\ pc = "error_pipe" /\ fds' = made.table /\ error_pipe' = made.pair
        /\ pc' = "fork"
        /\ UNCHANGED <<size, redirects, k, control_pipe, pipefds, prevfd, first_error_pipe_read>>
    BY <1>2 DEF CreateErrorPipe, Goto
  <2> HIDE DEF made
  <2>2. k \in Nat /\ size \in Nat
    BY <2>1, LaunchAssumption DEF Shelled, Placed, Typed
  <2>3. Exact(fds, LiveNow)
    BY <2>1 DEF Shelled, ExactNow
  <2>4. /\ made.pair \in Pairs /\ made.pair.r.of = ErrorR(k) /\ made.pair.w.of = ErrorW(k)
        /\ Exact(made.table, LiveNow \cup {made.pair.r, made.pair.w})
    <3>1. ErrorR(k) \in Ends \ {<<>>} /\ ErrorW(k) \in Ends \ {<<>>}
      BY <2>2, EndsAre, EndsDiffer DEF EndsOf
    <3>2. LiveNow \subseteq {control_pipe.r, control_pipe.w, prevfd, first_error_pipe_read, pipefds.r, pipefds.w}
      BY <2>1 DEF LiveNow
    <3>3. PipeEnds(<<"error", k>>) = [r |-> ErrorR(k), w |-> ErrorW(k)]
      BY PipeEndsAre
    <3> QED BY <2>3, <3>1, <3>2, <3>3, OpenPipe DEF made
  <2>5. LiveNow' = LiveNow \cup {error_pipe'.r, error_pipe'.w}
    BY <2>1, <2>2 DEF LiveNow, Feeding, Before, KeepsFirst
  <2>6. Exact(fds, LiveNow)'
    BY <2>1, <2>4, <2>5
  <2>7. \A x \in Numbers' : x.fd <= 0 \/ x \in LiveNow'
    <3>1. \A x \in Numbers : x.fd <= 0 \/ x \in LiveNow
      BY <2>1 DEF Shelled, Opening, Before
    <3> QED BY <3>1, <2>1, <2>5 DEF Numbers
  <2>8. AllNamed'
    <3>1. Numbers' \in SUBSET Fds
      BY DEF Typed, Pairs, Numbers
    <3> QED BY <3>1, <2>6, <2>7, OpeningNamed DEF AllNamed
  <2>9. Labelled' /\ Placed' /\ Opening'
    BY <2>1, <2>2, <2>4, <2>7
            DEF Labelled, Placed, Opening, Feeding, Before, KeepsFirst, Shelled
  <2> QED BY <2>1, <2>6, <2>8, <2>9 DEF Shelled, ExactNow
<1> QED BY <1>1, <1>2

(* The fork leaves the shell's table alone.                                *)
LEMMA ForkShell == Typed /\ Shelled /\ Fork => Shelled'
<1> SUFFICES ASSUME Typed, Shelled, Fork PROVE Shelled'
  OBVIOUS
<1>1. CASE pc' = "failed"
  BY <1>1, FailedShell DEF Fork, Goto, Before
<1>2. CASE pc' # "failed"
  <2>1. /\ pc = "fork" /\ pc' = "parent"
        /\ UNCHANGED <<size, redirects, k, fds, control_pipe, error_pipe, pipefds, prevfd,
                       first_error_pipe_read>>
    BY <1>2 DEF Fork, Goto
  <2>2. Numbers' = Numbers /\ LiveNow' = LiveNow
    BY <2>1 DEF Numbers, LiveNow, Feeding, Before, KeepsFirst
  <2>3. Labelled' /\ Placed' /\ Opening'
    BY <2>1, <2>2 DEF Labelled, Placed, Opening, Feeding, Before, KeepsFirst, Shelled
  <2>4. AllNamed' /\ ExactNow'
    BY <2>1, <2>2 DEF AllNamed, Named, ExactNow, Exact, Shelled
  <2> QED BY <2>3, <2>4 DEF Shelled
<1> QED BY <1>1, <1>2

(* The read end of the pipe is now the one before.                         *)
LEMMA NextProcessShell == Typed /\ Shelled /\ NextProcess => Shelled'
<1> SUFFICES ASSUME Typed, Shelled, NextProcess PROVE Shelled'
  OBVIOUS
<1>1. /\ pc = "next" /\ k < size /\ k' = k + 1
      /\ pc' = IF k + 1 = size THEN "error_pipe" ELSE "pipe"
      /\ UNCHANGED <<size, redirects, fds, control_pipe, error_pipe, pipefds, prevfd,
                     first_error_pipe_read>>
  BY DEF NextProcess, Goto, IsLast
<1>2. k \in Nat /\ size \in Nat /\ k >= 1 /\ k' > 1 /\ k' # 1 /\ k' - 1 = k
  BY <1>1, LaunchAssumption DEF Typed
<1>3. prevfd = pipefds.r /\ pipefds.r.of = PipeR(k)
  BY <1>1 DEF Shelled, Labelled
<1>4. Numbers' = Numbers /\ LiveNow' = LiveNow
  <2>1. LiveNow = {control_pipe.r, control_pipe.w, pipefds.r, first_error_pipe_read}
    BY <1>1 DEF LiveNow, Feeding, Before, KeepsFirst
  <2>2. LiveNow' = {control_pipe.r, control_pipe.w, prevfd, first_error_pipe_read}
    BY <1>1, <1>2 DEF LiveNow, Feeding, Before, KeepsFirst
  <2> QED BY <2>1, <2>2, <1>1, <1>3 DEF Numbers
<1>5. Opening'
  BY <1>1, <1>4 DEF Opening, Shelled
<1>6. Labelled' /\ Placed'
  BY <1>1, <1>2, <1>3 DEF Labelled, Placed, Feeding, Before, KeepsFirst, Shelled
<1>7. AllNamed' /\ ExactNow'
  BY <1>1, <1>4 DEF AllNamed, Named, ExactNow, Exact, Shelled
<1> QED BY <1>5, <1>6, <1>7 DEF Shelled

(* A close only takes numbers away.                                        *)
LEMMA StillNamed ==
  ASSUME NEW before, NEW after, NEW old \in SUBSET Fds, NEW new \in SUBSET Fds,
         \A x \in old : Named(before, x),
         \A x \in Fds : Named(before, x) => Named(after, x),
         \A x \in new : x.fd <= 0 \/ x \in old
  PROVE  \A x \in new : Named(after, x)
<1> SUFFICES ASSUME NEW x \in new PROVE Named(after, x)
  OBVIOUS
<1>1. CASE x \in old
  BY <1>1
<1>2. CASE x.fd <= 0
  BY <1>2 DEF Named, Fds
<1> QED BY <1>1, <1>2

(* What a close leaves in a variable.                                      *)
LEMMA KeptOrGone ==
  ASSUME NEW table, NEW live, Exact(table, live), NEW x \in Fds
  PROVE  ClosedFd(table, x).fd <= 0 \/ ClosedFd(table, x) = x
BY ClosedNumber

(* Both ends of a pipe.                                                    *)
LEMMA CloseBoth ==
  ASSUME NEW table, NEW live, Exact(table, live), NEW pair \in Pairs,
         Named(table, pair.r), Named(table, pair.w)
  PROVE  /\ Exact(WithoutPipe(table, pair, {"r", "w"}), live \ {pair.r, pair.w})
         /\ \A y \in Fds : Named(table, y) => Named(WithoutPipe(table, pair, {"r", "w"}), y)
<1> DEFINE one == Without(table, pair.r)
           two == Without(one, pair.w)
<1>1. WithoutPipe(table, pair, {"r", "w"}) = two
  BY DEF WithoutPipe
<1>2. pair.r \in Fds /\ pair.w \in Fds
  BY DEF Pairs
<1>3. Exact(one, live \ {pair.r}) /\ \A y \in Fds : Named(table, y) => Named(one, y)
  BY <1>2, CloseNumber
<1> HIDE DEF one
<1>4. Named(one, pair.w)
  BY <1>2, <1>3
<1>5. Exact(two, (live \ {pair.r}) \ {pair.w}) /\ \A y \in Fds : Named(one, y) => Named(two, y)
  BY <1>2, <1>3, <1>4, CloseNumber
<1>6. (live \ {pair.r}) \ {pair.w} = live \ {pair.r, pair.w}
  OBVIOUS
<1>7. \A y \in Fds : Named(table, y) => Named(two, y)
  BY <1>3, <1>5
<1> HIDE DEF two
<1> QED BY <1>1, <1>5, <1>6, <1>7

(* What belongs to the child is closed, and the read end of the pipe passes*)
(* to prevfd.                                                              *)
LEMMA AfterForkShell == Typed /\ Shelled /\ AfterFork /\ Typed' => Shelled'
<1> SUFFICES ASSUME Typed, Shelled, AfterFork, Typed' PROVE Shelled'
  OBVIOUS
<1> DEFINE ends == IF IsLast(k) THEN {} ELSE {"w"}
           one == Without(fds, prevfd)
           two == WithoutPipe(one, pipefds, ends)
           three == WithoutPipe(two, error_pipe, {"w"})
<1>1. /\ pc = "parent" /\ fds' = three
      /\ pipefds' = ClosedPipe(one, pipefds, ends)
      /\ error_pipe' = ClosedPipe(two, error_pipe, {"w"})
      /\ prevfd' = IF ~IsLast(k) THEN pipefds.r ELSE ClosedFd(fds, prevfd)
      /\ first_error_pipe_read' = IF k = 1 THEN error_pipe.r ELSE first_error_pipe_read
      /\ pc' = IF k = 1 THEN "next" ELSE "read_error"
      /\ UNCHANGED <<size, redirects, k, control_pipe, child, told>>
  BY DEF AfterFork, Goto
<1>2. /\ two = IF k < size THEN Without(one, pipefds.w) ELSE one
      /\ three = Without(two, error_pipe.w)
      /\ k \in Nat /\ size \in Nat /\ k >= 1 /\ k <= size /\ (k < size <=> ~IsLast(k))
  BY LaunchAssumption DEF WithoutPipe, IsLast, Typed
<1> HIDE DEF one, two, three
<1>3. /\ control_pipe.r \in Fds /\ control_pipe.w \in Fds /\ pipefds.r \in Fds /\ pipefds.w \in Fds
      /\ error_pipe.r \in Fds /\ error_pipe.w \in Fds /\ prevfd \in Fds /\ first_error_pipe_read \in Fds
      /\ pipefds \in Pairs /\ error_pipe \in Pairs
  BY NumbersTyped DEF Typed
<1>4. Exact(fds, LiveNow) /\ \A x \in Numbers : Named(fds, x)
  BY <1>1 DEF Shelled, ExactNow, AllNamed
<1> DEFINE live1 == LiveNow \ {prevfd}
           live2 == IF k < size THEN live1 \ {pipefds.w} ELSE live1
           live3 == live2 \ {error_pipe.w}
<1>5. Exact(one, live1) /\ \A x \in Fds : Named(fds, x) => Named(one, x)
  BY <1>3, <1>4, CloseNumber DEF one, Numbers
<1>6. Exact(two, live2) /\ \A x \in Fds : Named(one, x) => Named(two, x)
  BY <1>2, <1>3, <1>4, <1>5, CloseNumber DEF Numbers
<1>7. Exact(three, live3) /\ \A x \in Fds : Named(two, x) => Named(three, x)
  BY <1>2, <1>3, <1>4, <1>5, <1>6, CloseNumber DEF Numbers
<1>8. /\ pipefds'.r = pipefds.r /\ pipefds'.w = IF k < size THEN ClosedFd(one, pipefds.w) ELSE pipefds.w
      /\ error_pipe'.r = error_pipe.r /\ error_pipe'.w = ClosedFd(two, error_pipe.w)
  BY <1>1, <1>2, <1>3, <1>5, <1>6, ClosedPipeParts
<1>9. /\ ClosedFd(one, pipefds.w).of = pipefds.w.of
      /\ ClosedFd(two, error_pipe.w).of = error_pipe.w.of
      /\ pipefds.w \in live1 => ClosedFd(one, pipefds.w).fd = -1
      /\ error_pipe.w \in live2 => ClosedFd(two, error_pipe.w).fd = -1
  BY <1>3, <1>5, <1>6, ClosedNumber
<1>10. /\ control_pipe.r.of = ControlR /\ control_pipe.w.of = ControlW
       /\ k > 1 => prevfd.of = PipeR(k - 1) /\ first_error_pipe_read.of = ErrorR(1)
       /\ k < size => pipefds.r.of = PipeR(k) /\ pipefds.w.of = PipeW(k)
       /\ error_pipe.r.of = ErrorR(k) /\ error_pipe.w.of = ErrorW(k)
       /\ pipefds.r.of # ErrorR(1) /\ pipefds.w.of # ErrorR(1)
       /\ k = 1 => prevfd.fd = -2
  BY <1>1 DEF Shelled, Labelled, Placed, Feeding, Before, KeepsFirst
<1>11. LiveNow = {control_pipe.r, control_pipe.w} \cup (IF k > 1 THEN {prevfd, first_error_pipe_read} ELSE {})
                   \cup (IF k < size THEN {pipefds.r, pipefds.w} ELSE {})
                   \cup {error_pipe.r, error_pipe.w}
  BY <1>1 DEF LiveNow, Feeding, Before, KeepsFirst
<1>12. LiveNow' = {control_pipe.r, control_pipe.w}
                   \cup (IF k > 1 THEN {error_pipe.r, first_error_pipe_read} ELSE {error_pipe.r})
                   \cup (IF k < size THEN {pipefds.r} ELSE {})
  BY <1>1, <1>2, <1>8 DEF LiveNow, Feeding, Before, KeepsFirst
<1>13. /\ ControlR # PipeR(k - 1) /\ ControlW # PipeR(k - 1) /\ ErrorR(k) # PipeR(k - 1) /\ ErrorR(1) # PipeR(k - 1)
       /\ PipeR(k) # PipeR(k - 1) /\ PipeW(k) # PipeR(k - 1) /\ ErrorW(k) # PipeR(k - 1)
       /\ ControlR # PipeW(k) /\ ControlW # PipeW(k) /\ ErrorR(k) # PipeW(k) /\ ErrorR(1) # PipeW(k)
       /\ PipeR(k) # PipeW(k) /\ ErrorW(k) # PipeW(k)
       /\ ControlR # ErrorW(k) /\ ControlW # ErrorW(k) /\ ErrorR(k) # ErrorW(k) /\ ErrorR(1) # ErrorW(k)
       /\ PipeR(k) # ErrorW(k) 
  BY <1>2 DEF ControlR, ControlW, PipeR, PipeW, ErrorR, ErrorW
<1>14. k = 1 => prevfd \notin LiveNow
  BY <1>4, <1>10 DEF Exact, High
<1>15. live3 = LiveNow'
  <2>1. CASE k = 1
    BY <2>1, <1>2, <1>10, <1>11, <1>12, <1>13, <1>14
  <2>2. CASE k > 1
    BY <2>2, <1>2, <1>10, <1>11, <1>12, <1>13
  <2> QED BY <2>1, <2>2, <1>2
<1>16. error_pipe.w \in live2 /\ (k < size => pipefds.w \in live1)
  <2>1. CASE k = 1
    BY <2>1, <1>2, <1>10, <1>11, <1>13, <1>14
  <2>2. CASE k > 1
    BY <2>2, <1>2, <1>10, <1>11, <1>13
  <2> QED BY <2>1, <2>2, <1>2
<1>17. Exact(fds, LiveNow)'
  BY <1>1, <1>7, <1>15
<1>18. Numbers' \in SUBSET Fds
  BY DEF Typed, Pairs, Numbers
<1>19. AllNamed'
  <2>1. \A x \in Fds : Named(fds, x) => Named(fds', x)
    BY <1>1, <1>5, <1>6, <1>7
  <2>2. \A x \in Numbers' : x.fd <= 0 \/ x \in Numbers
    <3>1. ClosedFd(fds, prevfd).fd <= 0 \/ ClosedFd(fds, prevfd) = prevfd
      BY <1>3, <1>4, KeptOrGone
    <3> QED BY <3>1, <1>1, <1>8, <1>9, <1>16 DEF Numbers
  <2>3. Numbers \in SUBSET Fds
    BY NumbersTyped
  <2> QED BY <2>1, <2>2, <2>3, <1>4, <1>18, StillNamed DEF AllNamed
<1>20. Opening'
  BY <1>1, <1>2, <1>8, <1>9, <1>12, <1>16 DEF Opening, Numbers, Before
<1>21. Labelled'
  BY <1>1, <1>2, <1>8, <1>9, <1>10 DEF Labelled, Feeding, Before, KeepsFirst
<1>22. Placed'
  BY <1>1, <1>2 DEF Placed, Before
<1>23. pc' \in {"next", "read_error"}
  BY <1>1
<1> QED BY <1>17, <1>19, <1>20, <1>21, <1>22, <1>23 DEF Shelled, ExactNow

(* The process has started: its error pipe goes.                           *)
LEMMA ReadErrorShell == Typed /\ Shelled /\ ReadError /\ Typed' => Shelled'
<1> SUFFICES ASSUME Typed, Shelled, ReadError, Typed' PROVE Shelled'
  OBVIOUS
<1>1. CASE pc' = "failed"
  BY <1>1, FailedShell DEF ReadError, Goto, Before
<1>2. CASE pc' # "failed"
  <2>1. /\ pc = "read_error" /\ pc' = "next"
        /\ fds' = WithoutPipe(fds, error_pipe, {"r"})
        /\ error_pipe' = ClosedPipe(fds, error_pipe, {"r"})
        /\ UNCHANGED <<size, redirects, k, control_pipe, pipefds, prevfd, first_error_pipe_read>>
    BY <1>2 DEF ReadError, Goto
  <2>2. k > 1 /\ k \in Nat /\ size \in Nat
    BY <2>1, LaunchAssumption DEF Shelled, Placed, Typed
  <2>3. Exact(fds, LiveNow) /\ \A x \in Numbers : Named(fds, x)
    BY <2>1 DEF Shelled, ExactNow, AllNamed
  <2>4. fds' = Without(fds, error_pipe.r)
    BY <2>1 DEF WithoutPipe
  <2>5. error_pipe.r \in Fds /\ error_pipe.r \in Numbers /\ error_pipe \in Pairs
    BY NumbersTyped DEF Numbers, Typed
  <2>6. Exact(fds', LiveNow \ {error_pipe.r}) /\ \A x \in Fds : Named(fds, x) => Named(fds', x)
    BY <2>3, <2>4, <2>5, CloseNumber
  <2>7. error_pipe'.r = ClosedFd(fds, error_pipe.r) /\ error_pipe'.w = error_pipe.w
    BY <2>1, <2>3, <2>5, ClosedPipeParts
  <2>8. /\ control_pipe.r.of = ControlR /\ control_pipe.w.of = ControlW
        /\ first_error_pipe_read.of = ErrorR(1)
        /\ k < size => pipefds.r.of = PipeR(k) /\ pipefds.w.of = PipeW(k) /\ prevfd = pipefds.r
        /\ error_pipe.r.of = ErrorR(k) /\ error_pipe.w.of = ErrorW(k)
        /\ pipefds.r.of # ErrorR(1) /\ pipefds.w.of # ErrorR(1)
    BY <2>1, <2>2 DEF Shelled, Labelled, Feeding, Before, KeepsFirst
  <2>9. LiveNow = {control_pipe.r, control_pipe.w, error_pipe.r, first_error_pipe_read}
                    \cup (IF k < size THEN {pipefds.r} ELSE {})
    BY <2>1, <2>2 DEF LiveNow, Feeding, Before, KeepsFirst
  <2>10. LiveNow' = {control_pipe.r, control_pipe.w, first_error_pipe_read}
                     \cup (IF k < size THEN {pipefds.r} ELSE {})
    BY <2>1, <2>2 DEF LiveNow, Feeding, Before, KeepsFirst
  <2>11. /\ ControlR # ErrorR(k) /\ ControlW # ErrorR(k) /\ ErrorR(1) # ErrorR(k) /\ PipeR(k) # ErrorR(k)
         /\ PipeW(k) # ErrorR(k) /\ ErrorW(k) # ErrorR(k)
    BY <2>2 DEF ControlR, ControlW, PipeR, PipeW, ErrorR, ErrorW
  <2>12. LiveNow' = LiveNow \ {error_pipe.r}
    BY <2>8, <2>9, <2>10, <2>11
  <2>13. error_pipe'.r.fd = -1
    BY <2>3, <2>5, <2>7, <2>9, ClosedNumber
  <2>14. AllNamed'
    <3>1. Numbers' \in SUBSET Fds
      BY DEF Typed, Pairs, Numbers
    <3>2. \A x \in Numbers' : x.fd <= 0 \/ x \in Numbers
      BY <2>1, <2>7, <2>13 DEF Numbers
    <3>3. Numbers \in SUBSET Fds
      BY NumbersTyped
    <3> QED BY <3>1, <3>2, <3>3, <2>3, <2>6, StillNamed DEF AllNamed
  <2>15. Opening'
    <3> SUFFICES ASSUME k < size, NEW x \in Numbers' PROVE x.fd <= 0 \/ x \in LiveNow'
      BY <2>1 DEF Opening, Before
    <3>1. \A y \in Numbers : y.fd <= 0 \/ y \in LiveNow
      BY <2>1 DEF Shelled, Opening
    <3>2. CASE x \in Numbers /\ x # error_pipe.r
      BY <3>1, <3>2, <2>12
    <3>3. CASE x \notin Numbers
      BY <3>3, <2>1, <2>7, <2>13 DEF Numbers
    <3>4. CASE x = error_pipe.r
      <4>1. x # error_pipe.w /\ x # control_pipe.r /\ x # control_pipe.w /\ x # first_error_pipe_read
            /\ x # pipefds.r /\ x # pipefds.w /\ x # prevfd
        BY <3>4, <2>8, <2>11
      <4>2. x = error_pipe'.r
        BY <4>1, <2>1, <2>7 DEF Numbers
      <4> QED BY <4>2, <2>13
    <3> QED BY <3>2, <3>3, <3>4
  <2>16. Labelled' /\ Placed'
    BY <2>1, <2>2, <2>8 DEF Labelled, Placed, Feeding, Before, KeepsFirst
  <2> QED BY <2>1, <2>6, <2>12, <2>14, <2>15, <2>16 DEF Shelled, ExactNow
<1> QED BY <1>1, <1>2

(* The end of the loop: only the first error pipe is left.                 *)
LEMMA ReleaseShell == Typed /\ Shelled /\ Release /\ Typed' => Shelled'
<1> SUFFICES ASSUME Typed, Shelled, Release, Typed' PROVE Shelled'
  OBVIOUS
<1> DEFINE one == WithoutPipe(fds, control_pipe, {"r", "w"})
           two == WithoutPipe(one, pipefds, {"r", "w"})
<1>1. /\ pc = "next" /\ pc' = "read_first" /\ k = size /\ fds' = two
      /\ control_pipe' = ClosedPipe(fds, control_pipe, {"r", "w"})
      /\ pipefds' = ClosedPipe(one, pipefds, {"r", "w"})
      /\ UNCHANGED <<size, redirects, k, error_pipe, prevfd, first_error_pipe_read>>
  BY DEF Release, Goto
<1>2. /\ control_pipe.r \in Fds /\ control_pipe.w \in Fds /\ pipefds.r \in Fds /\ pipefds.w \in Fds
      /\ pipefds \in Pairs /\ control_pipe \in Pairs /\ k \in Nat /\ size \in Nat
  BY NumbersTyped, LaunchAssumption DEF Typed
<1>3. Exact(fds, LiveNow) /\ \A x \in Numbers : Named(fds, x)
  BY <1>1 DEF Shelled, ExactNow, AllNamed
<1>4. /\ first_error_pipe_read.of = ErrorR(1) /\ control_pipe.r.of = ControlR /\ control_pipe.w.of = ControlW
      /\ pipefds.r.of # ErrorR(1) /\ pipefds.w.of # ErrorR(1)
  BY <1>1 DEF Shelled, Labelled, Feeding, KeepsFirst
<1>5. LiveNow = {control_pipe.r, control_pipe.w, first_error_pipe_read} /\ LiveNow' = {first_error_pipe_read}
  BY <1>1, <1>2 DEF LiveNow, Feeding, Before, KeepsFirst
<1>6. /\ Named(fds, control_pipe.r) /\ Named(fds, control_pipe.w)
      /\ Named(fds, pipefds.r) /\ Named(fds, pipefds.w)
  BY <1>3 DEF Numbers
<1> DEFINE live1 == LiveNow \ {control_pipe.r, control_pipe.w}
<1>7. Exact(one, live1) /\ \A x \in Fds : Named(fds, x) => Named(one, x)
  BY <1>2, <1>3, <1>6, CloseBoth
<1> HIDE DEF one
<1>8. Named(one, pipefds.r) /\ Named(one, pipefds.w)
  BY <1>2, <1>6, <1>7
<1> DEFINE live2 == live1 \ {pipefds.r, pipefds.w}
<1>9. Exact(two, live2) /\ \A x \in Fds : Named(one, x) => Named(two, x)
  BY <1>2, <1>7, <1>8, CloseBoth
<1> HIDE DEF two
<1>10. live2 = LiveNow'
  <2>1. ControlR # ErrorR(1) /\ ControlW # ErrorR(1)
    BY DEF ControlR, ControlW, ErrorR
  <2> QED BY <2>1, <1>4, <1>5, <1>7, <1>9
<1>11. Exact(fds', LiveNow')
  BY <1>1, <1>9, <1>10
<1>13. /\ control_pipe'.r = ClosedFd(fds, control_pipe.r) /\ control_pipe'.w = ClosedFd(fds, control_pipe.w)
       /\ pipefds'.r = ClosedFd(one, pipefds.r) /\ pipefds'.w = ClosedFd(one, pipefds.w)
  BY <1>1, <1>2, <1>3, <1>7, ClosedPipeParts
<1>14. pipefds'.r.of = pipefds.r.of /\ pipefds'.w.of = pipefds.w.of
  BY <1>2, <1>7, <1>13, ClosedNumber
<1>15. AllNamed'
  <2>1. Numbers' \in SUBSET Fds
    BY DEF Typed, Pairs, Numbers
  <2>2. /\ control_pipe'.r.fd <= 0 \/ control_pipe'.r = control_pipe.r
        /\ control_pipe'.w.fd <= 0 \/ control_pipe'.w = control_pipe.w
    BY <1>2, <1>3, <1>13, KeptOrGone
  <2>3. /\ pipefds'.r.fd <= 0 \/ pipefds'.r = pipefds.r
        /\ pipefds'.w.fd <= 0 \/ pipefds'.w = pipefds.w
    BY <1>2, <1>7, <1>13, KeptOrGone
  <2>4. \A x \in Numbers' : x.fd <= 0 \/ x \in Numbers
    BY <2>2, <2>3, <1>1 DEF Numbers
  <2>5. Numbers \in SUBSET Fds
    BY NumbersTyped
  <2>6. \A x \in Fds : Named(fds, x) => Named(fds', x)
    BY <1>1, <1>7, <1>9
  <2> QED BY <2>1, <2>4, <2>5, <2>6, <1>3, StillNamed DEF AllNamed
<1>16. Opening' /\ Labelled' /\ Placed'
  BY <1>1, <1>4, <1>14 DEF Opening, Labelled, Placed, Feeding, Before, KeepsFirst
<1> QED BY <1>1, <1>11, <1>15, <1>16 DEF Shelled, ExactNow

(* All have started: nothing is left.                                      *)
LEMMA ReadFirstShell == Typed /\ Shelled /\ ReadFirst /\ Typed' => Shelled'
<1> SUFFICES ASSUME Typed, Shelled, ReadFirst, Typed' PROVE Shelled'
  OBVIOUS
<1>1. CASE pc' = "failed"
  BY <1>1, FailedShell DEF ReadFirst, Goto, Before
<1>2. CASE pc' # "failed"
  <2> DEFINE one == Without(fds, first_error_pipe_read)
             two == WithoutPipe(one, error_pipe, {"r", "w"})
  <2>1. /\ pc = "read_first" /\ pc' = "started" /\ fds' = two
        /\ error_pipe' = ClosedPipe(one, error_pipe, {"r", "w"})
        /\ first_error_pipe_read' = [first_error_pipe_read EXCEPT !.fd = -1]
        /\ UNCHANGED <<size, redirects, k, control_pipe, pipefds, prevfd>>
    BY <1>2 DEF ReadFirst, Goto
  <2>2. /\ error_pipe.r \in Fds /\ error_pipe.w \in Fds /\ first_error_pipe_read \in Fds
        /\ error_pipe \in Pairs
    BY NumbersTyped DEF Typed
  <2>3. Exact(fds, LiveNow) /\ \A x \in Numbers : Named(fds, x)
    BY <2>1 DEF Shelled, ExactNow, AllNamed
  <2>4. LiveNow = {first_error_pipe_read} /\ LiveNow' = {}
    BY <2>1 DEF LiveNow, Feeding, Before, KeepsFirst
  <2>5. Named(fds, first_error_pipe_read) /\ Named(fds, error_pipe.r) /\ Named(fds, error_pipe.w)
    BY <2>3 DEF Numbers
  <2> DEFINE live1 == LiveNow \ {first_error_pipe_read}
  <2>6. Exact(one, live1) /\ \A x \in Fds : Named(fds, x) => Named(one, x)
    BY <2>2, <2>3, <2>5, CloseNumber
  <2> HIDE DEF one
  <2>7. Named(one, error_pipe.r) /\ Named(one, error_pipe.w)
    BY <2>2, <2>5, <2>6
  <2> DEFINE live2 == live1 \ {error_pipe.r, error_pipe.w}
  <2>8. Exact(two, live2) /\ \A x \in Fds : Named(one, x) => Named(two, x)
    BY <2>2, <2>6, <2>7, CloseBoth
  <2> HIDE DEF two
  <2>9. Exact(fds', LiveNow')
    <3>1. live2 = LiveNow'
      BY <2>4, <2>6, <2>8
    <3> QED BY <3>1, <2>1, <2>8
  <2>10. error_pipe'.r = ClosedFd(one, error_pipe.r) /\ error_pipe'.w = ClosedFd(one, error_pipe.w)
    BY <2>1, <2>2, <2>6, ClosedPipeParts
  <2>11. AllNamed'
    <3>1. Numbers' \in SUBSET Fds
      BY DEF Typed, Pairs, Numbers
    <3>2. /\ error_pipe'.r.fd <= 0 \/ error_pipe'.r = error_pipe.r
          /\ error_pipe'.w.fd <= 0 \/ error_pipe'.w = error_pipe.w
      BY <2>2, <2>6, <2>10, KeptOrGone
    <3>3. first_error_pipe_read'.fd <= 0
      BY <2>1, <2>2 DEF Fds
    <3>4. \A x \in Numbers' : x.fd <= 0 \/ x \in Numbers
      BY <3>2, <3>3, <2>1 DEF Numbers
    <3>5. Numbers \in SUBSET Fds
      BY NumbersTyped
    <3>6. \A x \in Fds : Named(fds, x) => Named(fds', x)
      BY <2>1, <2>6, <2>8
    <3> QED BY <3>1, <3>4, <3>5, <3>6, <2>3, StillNamed DEF AllNamed
  <2>12. Opening' /\ Labelled' /\ Placed'
    BY <2>1 DEF Opening, Labelled, Placed, Feeding, Before, KeepsFirst, Shelled
  <2> QED BY <2>1, <2>9, <2>11, <2>12 DEF Shelled, ExactNow
<1> QED BY <1>1, <1>2

(* error_label closes three pairs; what is in none of them is left.        *)
LEMMA FailShell == Typed /\ Shelled /\ Fail => Shelled'
<1> SUFFICES ASSUME Typed, Shelled, Fail PROVE Shelled'
  OBVIOUS
<1> DEFINE one == WithoutPipe(fds, control_pipe, {"r", "w"})
           two == WithoutPipe(one, pipefds, {"r", "w"})
           three == WithoutPipe(two, error_pipe, {"r", "w"})
<1>1. /\ pc = "failed" /\ pc' = "not_started" /\ fds' = three
      /\ UNCHANGED <<size, redirects, k, control_pipe, error_pipe, pipefds, prevfd,
                     first_error_pipe_read>>
  BY DEF Fail, Goto
<1>2. PICK live \in SUBSET Fds : Exact(fds, live) /\ \A x \in live : x \in InPairs \/ Left(x)
  BY <1>1 DEF Shelled, ExactNow
<1>3. /\ control_pipe \in Pairs /\ pipefds \in Pairs /\ error_pipe \in Pairs
      /\ control_pipe.r \in Fds /\ control_pipe.w \in Fds /\ pipefds.r \in Fds /\ pipefds.w \in Fds
      /\ error_pipe.r \in Fds /\ error_pipe.w \in Fds
      /\ \A x \in Numbers : Named(fds, x)
  BY NumbersTyped DEF Shelled, AllNamed, Typed
<1>4. /\ Named(fds, control_pipe.r) /\ Named(fds, control_pipe.w) /\ Named(fds, pipefds.r)
      /\ Named(fds, pipefds.w) /\ Named(fds, error_pipe.r) /\ Named(fds, error_pipe.w)
  BY <1>3 DEF Numbers
<1> DEFINE live1 == live \ {control_pipe.r, control_pipe.w}
<1>5. Exact(one, live1) /\ \A x \in Fds : Named(fds, x) => Named(one, x)
  BY <1>2, <1>3, <1>4, CloseBoth
<1> HIDE DEF one
<1>6. Named(one, pipefds.r) /\ Named(one, pipefds.w)
  BY <1>3, <1>4, <1>5
<1> DEFINE live2 == live1 \ {pipefds.r, pipefds.w}
<1>7. Exact(two, live2) /\ \A x \in Fds : Named(one, x) => Named(two, x)
  BY <1>3, <1>5, <1>6, CloseBoth
<1> HIDE DEF two
<1>8. Named(two, error_pipe.r) /\ Named(two, error_pipe.w)
  BY <1>3, <1>4, <1>5, <1>7
<1> DEFINE live3 == live2 \ {error_pipe.r, error_pipe.w}
<1>9. Exact(three, live3) /\ \A x \in Fds : Named(two, x) => Named(three, x)
  BY <1>3, <1>7, <1>8, CloseBoth
<1> HIDE DEF three
<1>10. live3 \in SUBSET Fds /\ \A x \in live3 : Left(x)
  <2>1. live3 = live \ InPairs
    BY <1>5, <1>7, <1>9 DEF InPairs
  <2> QED BY <2>1, <1>2
<1>13. AllNamed'
  <2>1. \A x \in Fds : Named(fds, x) => Named(fds', x)
    BY <1>1, <1>5, <1>7, <1>9
  <2>2. Numbers' = Numbers /\ Numbers \subseteq Fds
    BY <1>1, NumbersTyped DEF Numbers
  <2> QED BY <2>1, <2>2, <1>3 DEF AllNamed
<1>14. ExactNow'
  <2>1. \A x \in live3 : Left(x)'
    BY <1>1, <1>10 DEF Left
  <2>2. Exact(fds', live3)
    BY <1>1, <1>9
  <2> QED BY <2>1, <2>2, <1>1, <1>10 DEF ExactNow
<1>15. Opening' /\ Labelled' /\ Placed'
  BY <1>1 DEF Opening, Labelled, Placed, Feeding, Before, KeepsFirst, Shelled
<1> QED BY <1>13, <1>14, <1>15 DEF Shelled

-----------------------------------------------------------------------------
(* The processes: their records, and the numbers they were forked with.    *)
Forked(n) ==
  child[n].pc \notin {"none", "gone"} =>
    /\ child[n].prev.fd \in High \cup {-2}
    /\ n < size => child[n].pipe.w.fd \in High

ChildInv == \A n \in 1..size : Forked(n)

(* A step of a process changes its place, its table, its count of redirects.*)
LEMMA RecordOfChild ==
  ASSUME NEW c, c \in ChildRecords, NEW label \in ChildLabels, NEW table \in Tables, NEW d \in Nat
  PROVE  /\ [c EXCEPT !.pc = label, !.fds = table] \in ChildRecords
         /\ [c EXCEPT !.done = d, !.fds = table] \in ChildRecords
BY DEF ChildRecords

(* A process that is not there, or no more.                                *)
LEMMA NoChildIs ==
  /\ NoChild \in ChildRecords /\ NoChild.pc = "none"
  /\ [NoChild EXCEPT !.pc = "gone"] \in ChildRecords /\ [NoChild EXCEPT !.pc = "gone"].pc = "gone"
<1>1. [fd \in 0..MAX_FD |-> Closed] \in Tables
  BY EntryTypes DEF Tables
<1>2. NoFd \in Fds
  <2>1. -1 \in -2..MAX_FD
    BY LaunchAssumption
  <2> QED BY <2>1, EndsAre, FdTypes DEF NoFd
<1>3. NoPipe \in Pairs
  BY <1>2 DEF NoPipe, Pairs
<1> QED BY <1>1, <1>2, <1>3 DEF NoChild, ChildRecords, ChildLabels

(* Closing, copying, redirecting: what is left is a table.                 *)
LEMMA ClosedEntry ==
  ASSUME NEW table \in Tables, NEW fd
  PROVE  [table EXCEPT ![fd] = Closed] \in Tables
BY EntryTypes DEF Tables

(* close_pipe on a table.                                                  *)
LEMMA WithoutTable ==
  ASSUME NEW table \in Tables, NEW x
  PROVE  Without(table, x) \in Tables
BY ClosedEntry DEF Without

(* dup2.                                                                   *)
LEMMA Dup2Table ==
  ASSUME NEW table \in Tables, NEW from \in 0..MAX_FD, NEW to \in 0..MAX_FD
  PROVE  Dup2(table, from, to) \in Tables
<1>1. [table[from] EXCEPT !.cloexec = FALSE] \in Entries
  BY DEF Tables, Entries
<1> QED BY <1>1 DEF Dup2, Tables

(* The lowest number is free.                                              *)
LEMMA LowestFree ==
  ASSUME NEW table, Free(table) # {}
  PROVE  Lowest(table) \in 0..MAX_FD /\ table[Lowest(table)] = Closed
<1>1. Free(table) \in SUBSET Nat
  BY LaunchAssumption DEF Free
<1>2. Lowest(table) \in Free(table)
  BY <1>1, MinIsIn DEF Lowest
<1> QED BY <1>2 DEF Free

(* One turn of do_redirects.                                               *)
LEMMA RedirectedTable ==
  ASSUME NEW table \in Tables, NEW r \in [left_fd : 0..MAX_FD, right_fd : -1..MAX_FD],
         r.right_fd = -1 => Free(table) # {}, NEW file \in Entries
  PROVE  Redirected(table, r, file) \in Tables
<1> DEFINE right == IF r.right_fd = -1 THEN Lowest(table) ELSE r.right_fd
           opened == IF r.right_fd = -1 THEN [table EXCEPT ![right] = file] ELSE table
<1>1. right \in 0..MAX_FD /\ r.left_fd \in 0..MAX_FD
  BY LowestFree, LaunchAssumption
<1> HIDE DEF right
<1>2. opened \in Tables
  BY <1>1, EntryTypes DEF Tables
<1> HIDE DEF opened
<1>3. [Dup2(opened, right, r.left_fd) EXCEPT ![right] = Closed] \in Tables
  BY <1>1, <1>2, Dup2Table, ClosedEntry
<1> QED BY <1>3 DEF Redirected, right, opened

(* link_pipes.                                                             *)
LEMMA LinkedTable ==
  ASSUME NEW table \in Tables, NEW in \in 0..MAX_FD \cup {-2}, NEW out \in 0..MAX_FD
  PROVE  Linked(table, in, out) \in Tables
<1>1. 0 \in 0..MAX_FD /\ 1 \in 0..MAX_FD
  BY LaunchAssumption
<1>2. (IF in = -2 THEN table ELSE Dup2(table, in, 0)) \in Tables
  BY <1>1, Dup2Table
<1> QED BY <1>1, <1>2, Dup2Table DEF Linked, STDIN_FILENO, STDOUT_FILENO

(* The redirects of a process.                                             *)
LEMMA RedirectOf ==
  ASSUME redirects \in [1..size -> RedirectLists], NEW n \in 1..size, NEW d \in Nat, d < Len(redirects[n])
  PROVE  /\ redirects[n][d + 1] \in [left_fd : 0..MAX_FD, right_fd : -1..MAX_FD]
         /\ d + 1 \in DOMAIN redirects[n]
<1> DEFINE Redirects == [left_fd : 0..MAX_FD, right_fd : -1..MAX_FD]
<1>1. RedirectLists \subseteq Seq(Redirects)
  BY LaunchAssumption
<1> HIDE DEF Redirects
<1>2. redirects[n] \in Seq(Redirects)
  BY <1>1
<1>3. redirects[n][d + 1] \in Redirects /\ d + 1 \in DOMAIN redirects[n]
  BY <1>2
<1> QED BY <1>3 DEF Redirects

(* The steps of a process keep its record.                                 *)
LEMMA ChildTyped ==
  ASSUME Typed, ChildInv, NEW n \in 1..size, Child(n)
  PROVE  child' \in [1..size -> ChildRecords] /\ told' \subseteq 1..size /\ ChildInv'
<1>1. UNCHANGED <<size, redirects, pc, k, fds, control_pipe, error_pipe, pipefds, prevfd, first_error_pipe_read>>
  BY DEF Child, Link, Redirect, RedirectFails, Plumbed, LeaderCloses, LeaderFails, LeaderReads,
         MemberCloses, Exec, ExecFails, Fails, Becomes, shell
<1>2. child \in [1..size -> ChildRecords] /\ child[n] \in ChildRecords /\ child[n].fds \in Tables
      /\ child[n].done \in Nat /\ told \subseteq 1..size
  BY DEF Typed, ChildRecords
<1>3. ASSUME Fails(n)
      PROVE  child' \in [1..size -> ChildRecords] /\ told' \subseteq 1..size /\ ChildInv'
  BY <1>1, <1>2, <1>3, NoChildIs DEF Fails, ChildInv, Forked
<1>4. ASSUME NEW label \in ChildLabels \ {"none", "gone"}, NEW table \in Tables, Becomes(n, label, table),
             child[n].pc \notin {"none", "gone"}
      PROVE  child' \in [1..size -> ChildRecords] /\ told' \subseteq 1..size /\ ChildInv'
  <2>1. child' = [child EXCEPT ![n] = [child[n] EXCEPT !.pc = label, !.fds = table]] /\ told' = told
    BY <1>4 DEF Becomes
  <2>2. [child[n] EXCEPT !.pc = label, !.fds = table] \in ChildRecords
    BY <1>2, RecordOfChild
  <2>3. child'[n].prev = child[n].prev /\ child'[n].pipe = child[n].pipe
    BY <1>2, <2>1 DEF ChildRecords
  <2>4. ChildInv'
    BY <1>1, <1>2, <1>4, <2>1, <2>3 DEF ChildInv, Forked
  <2> QED BY <1>2, <2>1, <2>2, <2>4
<1>5. High \subseteq 0..MAX_FD
  BY DEF High
<1>6. CASE Link(n)
  <2>1. child[n].prev.fd \in 0..MAX_FD \cup {-2} /\ OutFd(n) \in 0..MAX_FD
    <3>1. n < size \/ IsLast(n)
      BY LaunchAssumption DEF Typed, IsLast
    <3>2. child[n].prev.fd \in High \cup {-2} /\ (n < size => child[n].pipe.w.fd \in High)
      BY <1>6 DEF Link, ChildInv, Forked
    <3>3. 1 \in 0..MAX_FD
      BY LaunchAssumption
    <3>4. OutFd(n) = 1 \/ (n < size /\ OutFd(n) = child[n].pipe.w.fd)
      BY <3>1 DEF OutFd, STDOUT_FILENO
    <3> QED BY <3>2, <3>3, <3>4, <1>5
  <2>2. Linked(child[n].fds, child[n].prev.fd, OutFd(n)) \in Tables
    BY <1>2, <2>1, LinkedTable
  <2> QED BY <1>4, <1>6, <2>2 DEF Link, ChildLabels
<1>7. CASE Redirect(n)
  <2> DEFINE r == redirects[n][child[n].done + 1]
             file == File(n, child[n].done + 1)
  <2>1. /\ child[n].pc = "linked"
        /\ r.right_fd = -1 => Free(child[n].fds) # {}
        /\ child' = [child EXCEPT ![n].done = @ + 1, ![n].fds = Redirected(@, r, file)]
        /\ told' = told
        /\ child[n].done < Len(redirects[n])
    BY <1>7 DEF Redirect
  <2>2. Redirected(child[n].fds, r, file) \in Tables
    <3>1. r \in [left_fd : 0..MAX_FD, right_fd : -1..MAX_FD]
      BY <1>2, <2>1, RedirectOf DEF Typed
    <3>2. n \in Nat /\ child[n].done + 1 \in Nat
      BY <1>2
    <3>3. file \in Entries
      BY <3>2, EntryTypes
    <3> QED BY <1>2, <2>1, <3>1, <3>3, RedirectedTable
  <2> HIDE DEF r, file
  <2>3. child' = [child EXCEPT ![n] = [child[n] EXCEPT !.done = child[n].done + 1,
                                                       !.fds = Redirected(child[n].fds, r, file)]]
    BY <1>2, <2>1 DEF ChildRecords
  <2>4. [child[n] EXCEPT !.done = child[n].done + 1, !.fds = Redirected(child[n].fds, r, file)] \in ChildRecords
    <3>1. child[n].done + 1 \in Nat /\ "linked" \in ChildLabels
      BY <1>2 DEF ChildLabels
    <3> QED BY <1>2, <2>2, <3>1, RecordOfChild
  <2>5. child'[n].prev = child[n].prev /\ child'[n].pipe = child[n].pipe
    BY <1>2, <2>3 DEF ChildRecords
  <2>6. ChildInv'
    BY <1>1, <1>2, <2>1, <2>3, <2>5 DEF ChildInv, Forked
  <2> QED BY <1>2, <2>1, <2>3, <2>4, <2>6
<1>8. CASE Plumbed(n)
  <2>1. WithoutPipe(Without(child[n].fds, child[n].prev), child[n].pipe,
                    IF IsLast(n) THEN {} ELSE {"w"}) \in Tables
    BY <1>2, WithoutTable DEF WithoutPipe
  <2> QED BY <1>4, <1>8, <2>1 DEF Plumbed, ChildLabels
<1>9. CASE n = 1 /\ LeaderCloses
  <2>1. WithoutPipe(child[n].fds, child[n].control, {"w"}) \in Tables
    BY <1>2, WithoutTable DEF WithoutPipe
  <2> QED BY <1>4, <1>9, <2>1 DEF LeaderCloses, ChildLabels
<1>10. CASE n = 1 /\ LeaderReads
  BY <1>2, <1>4, <1>10, ClosedEntry DEF LeaderReads, ChildLabels
<1>11. CASE MemberCloses(n)
  BY <1>2, <1>4, <1>11, ClosedEntry DEF MemberCloses, ChildLabels
<1>12. CASE Exec(n)
  <2>1. [fd \in 0..MAX_FD |-> IF child[n].fds[fd].cloexec THEN Closed ELSE child[n].fds[fd]] \in Tables
    BY <1>2, EntryTypes DEF Tables
  <2> QED BY <1>4, <1>12, <2>1 DEF Exec, ChildLabels
<1>13. CASE RedirectFails(n) \/ (n = 1 /\ LeaderFails) \/ ExecFails(n)
  BY <1>3, <1>13 DEF RedirectFails, LeaderFails, ExecFails
<1> QED BY <1>6, <1>7, <1>8, <1>9, <1>10, <1>11, <1>12, <1>13 DEF Child

(* Closing keeps the types.                                                *)
LEMMA ClosedPairs ==
  ASSUME NEW table, NEW x \in Fds, NEW pair \in Pairs, NEW which
  PROVE  ClosedFd(table, x) \in Fds /\ ClosedPipe(table, pair, which) \in Pairs
<1>1. \A y \in Fds : ClosedFd(table, y) \in Fds
  BY LaunchAssumption DEF ClosedFd, Fds
<1>2. ClosedPipe(table, pair, which) = [r |-> ClosedPipe(table, pair, which).r, w |-> ClosedPipe(table, pair, which).w]
  BY DEF ClosedPipe
<1>3. ClosedPipe(table, pair, which).r \in Fds /\ ClosedPipe(table, pair, which).w \in Fds
  BY <1>1 DEF ClosedPipe, Pairs
<1> QED BY <1>1, <1>2, <1>3 DEF Pairs

(* Each of the three pipes gets two numbers.                               *)
LEMMA MadePipes ==
  ASSUME Typed, Shelled
  PROVE  /\ pc = "control" => WithPipe(fds, <<"control">>).pair \in Pairs
         /\ pc = "pipe" => WithPipe(fds, <<"pipe", k>>).pair \in Pairs
         /\ pc = "error_pipe" => WithPipe(fds, <<"error", k>>).pair \in Pairs
<1>1. ASSUME pc \in {"control", "pipe", "error_pipe"}, NEW name, NEW r \in Ends \ {<<>>}, NEW w \in Ends \ {<<>>},
             PipeEnds(name) = [r |-> r, w |-> w]
      PROVE  WithPipe(fds, name).pair \in Pairs
  <2>1. LiveNow \subseteq {control_pipe.r, control_pipe.w, prevfd, first_error_pipe_read, pipefds.r, pipefds.w}
    BY <1>1 DEF LiveNow
  <2>2. Exact(fds, LiveNow)
    BY <1>1 DEF Shelled, ExactNow
  <2> DEFINE made == WithPipe(fds, name)
  <2> HIDE DEF made
  <2>3. PipeEnds(name) = [r |-> r, w |-> w] /\ r \in Ends \ {<<>>} /\ w \in Ends \ {<<>>}
    BY <1>1
  <2>4. /\ made.pair \in Pairs /\ made.pair.r.of = r /\ made.pair.w.of = w
        /\ Exact(made.table, LiveNow \cup {made.pair.r, made.pair.w})
    BY <2>1, <2>2, <2>3, OpenPipe DEF made
  <2> QED BY <2>4 DEF made
<1>2. /\ ControlR \in Ends \ {<<>>} /\ ControlW \in Ends \ {<<>>} /\ PipeR(k) \in Ends \ {<<>>}
      /\ PipeW(k) \in Ends \ {<<>>} /\ ErrorR(k) \in Ends \ {<<>>} /\ ErrorW(k) \in Ends \ {<<>>}
  <2>1. k \in Nat
    BY DEF Typed
  <2> QED BY <2>1, EndsAre, EndsDiffer DEF EndsOf
<1> QED BY <1>1, <1>2, PipeEndsAre

(* The steps of the shell keep the types, and give a new process numbers   *)
(* that are open.                                                          *)
LEMMA ShellTyped == Typed /\ Shelled /\ ChildInv /\ Shell => Typed' /\ ChildInv'
<1> SUFFICES ASSUME Typed, Shelled, ChildInv, Shell PROVE Typed' /\ ChildInv'
  OBVIOUS
<1>1. Typed
  OBVIOUS
<1> USE DEF Typed, Goto, Labels
<1>2. CASE CreateControlPipe
  <2>1. control_pipe' \in Pairs
    BY <1>2, MadePipes DEF CreateControlPipe
  <2> QED BY <1>2, <2>1 DEF CreateControlPipe, ChildInv, Forked
<1>3. CASE CreatePipe
  <2>1. pipefds' \in Pairs
    BY <1>3, MadePipes DEF CreatePipe
  <2> QED BY <1>3, <2>1 DEF CreatePipe, ChildInv, Forked
<1>4. CASE CreateErrorPipe
  <2>1. error_pipe' \in Pairs
    BY <1>4, MadePipes DEF CreateErrorPipe
  <2> QED BY <1>4, <2>1 DEF CreateErrorPipe, ChildInv, Forked
<1>5. CASE Fork
  <2> DEFINE new == [pc |-> "forked", done |-> 0, fds |-> fds, control |-> control_pipe,
                     error |-> error_pipe, pipe |-> pipefds, prev |-> prevfd]
  <2>1. pc = "fork" /\ (child' = [child EXCEPT ![k] = new] \/ child' = child)
    BY <1>5 DEF Fork
  <2>2. Exact(fds, LiveNow)
    BY <2>1 DEF Shelled, ExactNow
  <2>3. new \in ChildRecords
    BY <2>2 DEF ChildRecords, ChildLabels, Exact
  <2>4. UNCHANGED <<size, redirects, k, fds, control_pipe, error_pipe, pipefds, prevfd,
                    first_error_pipe_read, told>> /\ pc' \in {"parent", "failed"}
    BY <1>5 DEF Fork
  <2>5. Typed'
    BY <2>1, <2>3, <2>4
  <2>6. prevfd.fd \in High \cup {-2} /\ (k < size => pipefds.w.fd \in High)
    <3>1. k = 1 \/ k > 1
      OBVIOUS
    <3>2. k > 1 => prevfd \in LiveNow
      BY <2>1 DEF LiveNow, Before
    <3>3. k < size => pipefds.w \in LiveNow
      BY <2>1 DEF LiveNow
    <3> QED BY <3>1, <3>2, <3>3, <2>1, <2>2 DEF Shelled, Placed, Before, Exact
  <2>7. new.prev = prevfd /\ new.pipe = pipefds
    OBVIOUS
  <2> HIDE DEF new
  <2>8. ChildInv'
    BY <2>1, <2>4, <2>6, <2>7 DEF ChildInv, Forked
  <2> QED BY <2>5, <2>8
<1>6. CASE AfterFork
  <2>1. pipefds' \in Pairs /\ error_pipe' \in Pairs
    BY <1>6, ClosedPairs DEF AfterFork
  <2>2. prevfd' \in Fds /\ first_error_pipe_read' \in Fds
    <3>1. pipefds.r \in Fds /\ error_pipe.r \in Fds /\ ClosedFd(fds, prevfd) \in Fds
      BY ClosedPairs, NumbersTyped
    <3> QED BY <1>6, <3>1 DEF AfterFork
  <2> QED BY <1>6, <2>1, <2>2 DEF AfterFork, ChildInv, Forked
<1>7. CASE ReadError
  <2>1. error_pipe' \in Pairs
    BY <1>7, ClosedPairs DEF ReadError
  <2> QED BY <1>7, <2>1 DEF ReadError, ChildInv, Forked
<1>8. CASE NextProcess
  <2>1. k' \in 1..size
    BY <1>8, LaunchAssumption DEF NextProcess
  <2> QED BY <1>8, <2>1 DEF NextProcess, ChildInv, Forked
<1>9. CASE Release
  <2>1. control_pipe' \in Pairs /\ pipefds' \in Pairs
    BY <1>9, ClosedPairs DEF Release
  <2> QED BY <1>9, <2>1 DEF Release, ChildInv, Forked
<1>10. CASE ReadFirst
  <2>1. error_pipe' \in Pairs
    <3>1. error_pipe' = error_pipe
            \/ error_pipe' = ClosedPipe(Without(fds, first_error_pipe_read), error_pipe, {"r", "w"})
      BY <1>10 DEF ReadFirst
    <3>2. ClosedPipe(Without(fds, first_error_pipe_read), error_pipe, {"r", "w"}) \in Pairs
      BY ClosedPairs
    <3> QED BY <3>1, <3>2
  <2>2. first_error_pipe_read' \in Fds
    BY <1>10, LaunchAssumption DEF ReadFirst, Fds
  <2> QED BY <1>10, <2>1, <2>2 DEF ReadFirst, ChildInv, Forked
<1>11. CASE Fail
  <2> DEFINE gone == [NoChild EXCEPT !.pc = "gone"]
  <2>1. gone \in ChildRecords /\ gone.pc = "gone" /\ NoChild \in ChildRecords /\ NoChild.pc = "none"
    BY NoChildIs
  <2>2. PICK spared \in SUBSET Spared :
               child' = [n \in 1..size |-> IF n \in spared \/ child[n].pc = "none" THEN child[n] ELSE gone]
    BY <1>11 DEF Fail
  <2> HIDE DEF gone
  <2>3. child' \in [1..size -> ChildRecords] /\ \A n \in 1..size : child'[n] = child[n] \/ child'[n].pc = "gone"
    BY <2>1, <2>2
  <2> QED BY <1>11, <2>3 DEF Fail, ChildInv, Forked
<1> QED BY <1>2, <1>3, <1>4, <1>5, <1>6, <1>7, <1>8, <1>9, <1>10, <1>11 DEF Shell

(* Together: the invariant of the shell, and of what it hands on.          *)
LaunchInv == Typed /\ Shelled /\ ChildInv

(* A process does not touch the shell's variables.                         *)
LEMMA ChildLeavesShell ==
  ASSUME NEW n, Child(n)
  PROVE  UNCHANGED <<size, redirects, pc, k, fds, control_pipe, error_pipe, pipefds, prevfd,
                     first_error_pipe_read>>
BY DEF Child, Link, Redirect, RedirectFails, Plumbed, LeaderCloses, LeaderFails, LeaderReads,
       MemberCloses, Exec, ExecFails, Fails, Becomes, shell

(* Nothing moves, nothing breaks.                                          *)
LEMMA ShellUnchanged ==
  ASSUME Shelled, UNCHANGED <<size, redirects, pc, k, fds, control_pipe, error_pipe, pipefds, prevfd,
                              first_error_pipe_read>>
  PROVE  Shelled'
<1>1. LiveNow' = LiveNow /\ Numbers' = Numbers /\ InPairs' = InPairs
  BY DEF LiveNow, Numbers, InPairs, Feeding, Before, KeepsFirst
<1>2. Labelled' /\ Placed' /\ Opening'
  BY <1>1 DEF Shelled, Labelled, Placed, Opening, Feeding, Before, KeepsFirst
<1>3. AllNamed'
  BY <1>1 DEF Shelled, AllNamed
<1>4. ExactNow'
  <2>1. \A x : Left(x)' <=> Left(x)
    BY DEF Left
  <2> QED BY <2>1, <1>1 DEF Shelled, ExactNow, Left
<1> QED BY <1>2, <1>3, <1>4 DEF Shelled

(* start_job_internal begins with nothing open behind 2.                   *)
LEMMA InitLaunch == Init => LaunchInv
<1> SUFFICES ASSUME Init PROVE LaunchInv
  OBVIOUS
<1>1. Shelled
  BY InitShell
<1>2. NoFd \in Fds /\ Fd(-2, <<>>) \in Fds
  <2>1. -1 \in -2..MAX_FD /\ -2 \in -2..MAX_FD
    BY LaunchAssumption
  <2> QED BY <2>1, EndsAre, FdTypes DEF NoFd
<1>3. NoPipe \in Pairs
  BY <1>2 DEF NoPipe, Pairs
<1>4. Typed
  BY <1>2, <1>3, NoChildIs, LaunchAssumption DEF Init, Typed, Labels
<1>5. ChildInv
  BY NoChildIs DEF Init, ChildInv, Forked
<1> QED BY <1>1, <1>4, <1>5 DEF LaunchInv

(* Every step keeps the invariant.                                         *)
LEMMA NextLaunch == LaunchInv /\ [Next]_vars => LaunchInv'
<1> SUFFICES ASSUME LaunchInv, [Next]_vars PROVE LaunchInv'
  OBVIOUS
<1> USE DEF LaunchInv
<1>1. CASE Shell
  <2>1. Typed' /\ ChildInv'
    BY <1>1, ShellTyped
  <2>2. Shelled'
    BY <1>1, <2>1, CreateControlPipeShell, CreatePipeShell, CreateErrorPipeShell, ForkShell, AfterForkShell,
       ReadErrorShell, NextProcessShell, ReleaseShell, ReadFirstShell, FailShell DEF Shell
  <2> QED BY <2>1, <2>2
<1>2. ASSUME NEW n \in 1..size, Child(n) PROVE LaunchInv'
  <2>1. UNCHANGED <<size, redirects, pc, k, fds, control_pipe, error_pipe, pipefds, prevfd,
                    first_error_pipe_read>>
    BY <1>2, ChildLeavesShell
  <2>2. Shelled'
    BY <2>1, ShellUnchanged
  <2>3. child' \in [1..size -> ChildRecords] /\ told' \subseteq 1..size /\ ChildInv'
    BY <1>2, ChildTyped
  <2>4. Typed'
    BY <2>1, <2>3 DEF Typed
  <2> QED BY <2>2, <2>3, <2>4
<1>3. CASE UNCHANGED vars
  <2>1. Shelled'
    BY <1>3, ShellUnchanged DEF vars, shell
  <2> QED BY <1>3, <2>1 DEF vars, shell, Typed, ChildInv, Forked
<1> QED BY <1>1, <1>2, <1>3 DEF Next, Children

(* At every place in start_job_internal of src/lsh/execute.c the shell's table*)
(* has open exactly the numbers that are needed from there on, and no variable*)
(* keeps the number of something else.                                     *)
THEOREM LaunchInvariant == Spec => []LaunchInv
BY InitLaunch, NextLaunch, PTL DEF Spec

(* The invariant is more than what is promised at the return.              *)
LEMMA InvRestored == LaunchInv => TableRestored
<1> SUFFICES ASSUME LaunchInv PROVE TableRestored
  OBVIOUS
<1> USE DEF LaunchInv
<1>1. Numbers \subseteq Fds
  BY NumbersTyped
<1>2. fds \in Tables
  BY DEF Shelled, ExactNow, Exact
<1>3. TypeOK
  <2>1. \A number \in Numbers : number.fd \in -2..MAX_FD
    BY <1>1 DEF Fds
  <2>2. \A fd \in 0..MAX_FD : fds[fd].cloexec \in BOOLEAN
    BY <1>2 DEF Tables, Entries
  <2>3. \A n \in 1..size : child[n].pc \in ChildLabels
    BY DEF Typed, ChildRecords
  <2> QED BY <2>1, <2>2, <2>3 DEF TypeOK, Typed, Labels, ChildLabels
<1>4. \A number \in Numbers : number.fd > 0 => fds[number.fd].end \in {number.of, <<>>}
  BY DEF Shelled, AllNamed, Named
<1>5. ASSUME NEW live, Exact(fds, live)
      PROVE  \A end \in Lost : \E x \in live : end = x.of
  <2> SUFFICES ASSUME NEW fd \in 0..MAX_FD, fd > 2, fds[fd] # Closed PROVE \E x \in live : fds[fd].end = x.of
    BY DEF Lost, STDERR_FILENO
  <2>1. fd \in High
    BY LaunchAssumption DEF High
  <2>2. PICK x \in live : x.fd = fd
    BY <1>5, <2>1 DEF Exact
  <2>3. fds[fd] = AtExec(x.of) /\ x.of \in Ends
    BY <1>5, <2>2 DEF Exact, Fds
  <2> QED BY <2>2, <2>3, EntryTypes
<1>6. ASSUME pc = "started" PROVE Lost = {}
  <2>1. LiveNow = {}
    BY <1>6 DEF LiveNow, Feeding, Before, KeepsFirst
  <2>2. Exact(fds, LiveNow)
    BY <1>6 DEF Shelled, ExactNow
  <2> QED BY <1>5, <2>1, <2>2
<1>7. ASSUME pc = "not_started" PROVE Lost \subseteq {<<"pipe", k - 1, "r">>, <<"error", 1, "r">>}
  <2>1. PICK live \in SUBSET Fds : Exact(fds, live) /\ \A x \in live : Left(x)
    BY <1>7 DEF Shelled, ExactNow
  <2> QED BY <1>5, <2>1 DEF Left, PipeR, ErrorR
<1> QED BY <1>3, <1>4, <1>6, <1>7 DEF TableRestored

(* When start_job_internal returns, no descriptor is lost but the two that a*)
(* failure costs, and no close ever hits a number that was given out again,*)
(* whatever the length of the pipeline.                                    *)
THEOREM LaunchRestoresTable == Spec => []TableRestored
BY LaunchInvariant, InvRestored, PTL

-----------------------------------------------------------------------------
(* The tables of a process, when its redirects name 0, 1 and 2 only.       *)
StandardRedirects ==
  \A list \in RedirectLists : \A r \in DOMAIN list :
     list[r].left_fd \in 0..2 /\ list[r].right_fd \in -1..2

(* A descriptor exec keeps.                                                *)
AtKept(end) == [end |-> end, cloexec |-> FALSE]

(* Kept by exec, or closed by it.                                          *)
LEMMA Kinds ==
  /\ \A a : AtExec(a).end = a /\ AtExec(a).cloexec = TRUE
  /\ \A a : AtKept(a).end = a /\ AtKept(a).cloexec = FALSE
  /\ Terminal = AtKept(<<"terminal">>)
  /\ \A n, r : File(n, r) = AtKept(FileEnd(n, r)) /\ File(n, r).end = FileEnd(n, r)
  /\ Closed.end = <<>> /\ Closed.cloexec = FALSE
BY DEF AtExec, AtKept, Terminal, File, FileEnd, Closed

(* What is open for nothing is closed.                                     *)
LEMMA KeptClosed == AtKept(<<>>) = Closed
BY DEF AtKept, Closed

(* 0, 1, 2 and the numbers behind them.                                    *)
LEMMA Numbering ==
  /\ High \subseteq 0..MAX_FD /\ 0 \in 0..MAX_FD /\ 1 \in 0..MAX_FD /\ 2 \in 0..MAX_FD
  /\ 0 \notin High /\ 1 \notin High /\ 2 \notin High /\ -2 \notin High /\ -1 \notin High
  /\ \A fd \in 0..MAX_FD : fd \in {0, 1, 2} \/ fd \in High
  /\ \A fd \in High : fd > 0
BY LaunchAssumption DEF High

(* The copy dup2 makes.                                                    *)
LEMMA EntryIs ==
  ASSUME NEW table \in Tables, NEW fd \in 0..MAX_FD
  PROVE  /\ table[fd] \in Entries /\ table[fd].end \in Ends /\ table[fd].cloexec \in BOOLEAN
         /\ [table[fd] EXCEPT !.cloexec = FALSE] = AtKept(table[fd].end)
<1>1. \A e \in Entries : e.end \in Ends /\ e.cloexec \in BOOLEAN /\ [e EXCEPT !.cloexec = FALSE] = AtKept(e.end)
  <2> SUFFICES ASSUME NEW e \in Entries
               PROVE  e.end \in Ends /\ e.cloexec \in BOOLEAN /\ [e EXCEPT !.cloexec = FALSE] = AtKept(e.end)
    OBVIOUS
  <2>1. e.end \in Ends /\ e.cloexec \in BOOLEAN
    BY DEF Entries
  <2> DEFINE new == [e EXCEPT !.cloexec = FALSE]
  <2>2. new \in Entries /\ new.end = e.end /\ new.cloexec = FALSE
    BY DEF Entries
  <2> HIDE DEF new
  <2>3. new = [end |-> new.end, cloexec |-> new.cloexec]
    BY <2>2 DEF Entries
  <2>4. new = AtKept(e.end)
    BY <2>2, <2>3 DEF AtKept
  <2> QED BY <2>1, <2>4 DEF new
<1>2. table[fd] \in Entries
  BY DEF Tables
<1> QED BY <1>1, <1>2

(* What dup2 changes.                                                      *)
LEMMA Dup2Entries ==
  ASSUME NEW table \in Tables, NEW from \in 0..MAX_FD, NEW to \in 0..MAX_FD
  PROVE  /\ \A fd \in 0..MAX_FD : fd # to => Dup2(table, from, to)[fd] = table[fd]
         /\ from # to => Dup2(table, from, to)[to] = AtKept(table[from].end)
         /\ from = to => Dup2(table, from, to) = table
BY EntryIs DEF Dup2, Tables

(* What link_pipes changes.                                                *)
LEMMA LinkedEntries ==
  ASSUME NEW table \in Tables, NEW in \in High \cup {-2}, NEW out \in High \cup {1}
  PROVE  /\ \A fd \in High \cup {2} : Linked(table, in, out)[fd] = table[fd]
         /\ Linked(table, in, out)[0] = IF in = -2 THEN table[0] ELSE AtKept(table[in].end)
         /\ Linked(table, in, out)[1] = IF out = 1 THEN table[1] ELSE AtKept(table[out].end)
<1> DEFINE one == IF in = -2 THEN table ELSE Dup2(table, in, 0)
<1>1. /\ one \in Tables
      /\ \A fd \in 0..MAX_FD : fd # 0 => one[fd] = table[fd]
      /\ one[0] = IF in = -2 THEN table[0] ELSE AtKept(table[in].end)
  <2>1. CASE in = -2
    BY <2>1
  <2>2. CASE in # -2
    <3>1. in \in 0..MAX_FD /\ in # 0 /\ 0 \in 0..MAX_FD
      BY <2>2, Numbering
    <3>2. one = Dup2(table, in, 0)
      BY <2>2
    <3> HIDE DEF one
    <3> QED BY <2>2, <3>1, <3>2, Dup2Entries, Dup2Table
  <2> QED BY <2>1, <2>2
<1>2. Linked(table, in, out) = Dup2(one, out, 1)
  BY DEF Linked, STDIN_FILENO, STDOUT_FILENO
<1> HIDE DEF one
<1>3. out \in 0..MAX_FD /\ out # 0
  BY Numbering
<1>4. /\ \A fd \in 0..MAX_FD : fd # 1 => Dup2(one, out, 1)[fd] = one[fd]
      /\ out # 1 => Dup2(one, out, 1)[1] = AtKept(one[out].end)
      /\ out = 1 => Dup2(one, out, 1) = one
  BY <1>1, <1>3, Numbering, Dup2Entries
<1> QED BY <1>1, <1>2, <1>3, <1>4, Numbering

(* A redirect of 0, 1 or 2 changes no number behind them, and does to the   *)
(* three what Aimed says.                                                  *)
LEMMA RedirectedEntries ==
  ASSUME NEW table \in Tables, NEW r \in [left_fd : 0..2, right_fd : -1..2],
         r.right_fd = -1 => Free(table) # {},
         NEW end, AtKept(end) \in Entries,
         NEW before, DOMAIN before = 0..2, \A fd \in 0..2 : table[fd] = AtKept(before[fd])
  PROVE  /\ \A fd \in High : Redirected(table, r, AtKept(end))[fd] = table[fd]
         /\ DOMAIN Aimed(before, r, end) = 0..2
         /\ \A fd \in 0..2 : Redirected(table, r, AtKept(end))[fd] = AtKept(Aimed(before, r, end)[fd])
<1> DEFINE file == AtKept(end)
           right == IF r.right_fd = -1 THEN Lowest(table) ELSE r.right_fd
           opened == IF r.right_fd = -1 THEN [table EXCEPT ![right] = file] ELSE table
           left == r.left_fd
           copied == Dup2(opened, right, left)
           after == Redirected(table, r, file)
<1>1. /\ right \in 0..MAX_FD /\ left \in 0..MAX_FD /\ left \in 0..2 /\ left \notin High
      /\ r.right_fd = -1 => right = Lowest(table) /\ right \in Free(table) /\ \A fd \in Free(table) : right <= fd
      /\ r.right_fd # -1 => right = r.right_fd /\ right \in 0..2 /\ right \notin High
  <2>1. r.right_fd = -1 => right \in Free(table) /\ \A fd \in Free(table) : right <= fd
    <3>1. Free(table) \in SUBSET Nat
      BY LaunchAssumption DEF Free
    <3> QED BY <3>1, MinIsIn, MinIsLeast DEF Lowest
  <2> QED BY <2>1, Numbering, LaunchAssumption DEF High, Free
<1>2. after = [copied EXCEPT ![right] = Closed]
  BY DEF Redirected
<1> HIDE DEF right, file, after
<1>3. opened \in Tables
  BY <1>1, EntryTypes DEF Tables, file
<1>4. \A fd \in 0..MAX_FD : fd # right => opened[fd] = table[fd]
  BY DEF Tables
<1>5. /\ r.right_fd = -1 => opened[right] = file
      /\ r.right_fd # -1 => opened = table
  BY <1>1 DEF Tables
<1> HIDE DEF opened, left
<1>6. copied \in Tables
  BY <1>1, <1>3, Dup2Table
<1>7. /\ \A fd \in 0..MAX_FD : fd # left => copied[fd] = opened[fd]
      /\ right # left => copied[left] = AtKept(opened[right].end)
  BY <1>1, <1>3, Dup2Entries
<1> HIDE DEF copied
<1>8. /\ after[right] = Closed
      /\ \A fd \in 0..MAX_FD : fd # right => after[fd] = copied[fd]
  BY <1>1, <1>2, <1>6 DEF Tables
<1>9. \A fd \in 0..2 : fd \in 0..MAX_FD /\ (fd \in Free(table) <=> table[fd] = Closed)
  BY LaunchAssumption DEF Free
<1>10. \A fd \in Free(table) : table[fd] = Closed
  BY DEF Free
<1>11. ASSUME NEW fd \in High PROVE after[fd] = table[fd]
  <2>1. fd \in 0..MAX_FD /\ fd # left
    BY <1>1, Numbering
  <2>2. CASE fd = right
    BY <2>2, <1>1, <1>8, <1>10
  <2>3. CASE fd # right
    BY <2>1, <2>3, <1>4, <1>7, <1>8
  <2> QED BY <2>2, <2>3
<1>12. \A x : AtKept(x) = Closed <=> x = <<>>
  BY Kinds, KeptClosed
<1> DEFINE aimed == Aimed(before, r, end)
<1>13. ASSUME r.right_fd # -1
       PROVE  DOMAIN aimed = 0..2 /\ \A fd \in 0..2 : after[fd] = AtKept(aimed[fd])
  <2>1. aimed = [fd \in 0..2 |-> CASE fd = right -> <<>>
                                   [] fd = left /\ fd # right -> before[right]
                                   [] OTHER -> before[fd]]
    BY <1>1, <1>13 DEF Aimed, left
  <2> HIDE DEF aimed
  <2>2. ASSUME NEW fd \in 0..2 PROVE after[fd] = AtKept(aimed[fd])
    <3>1. CASE fd = right
      BY <2>1, <3>1, <1>8, <1>12
    <3>2. CASE fd = left /\ fd # right
      <4>1. aimed[fd] = before[right]
        BY <2>1, <3>2
      <4>2. after[fd] = AtKept(table[right].end)
        BY <3>2, <1>1, <1>5, <1>7, <1>8, <1>13
      <4>3. table[right].end = before[right]
        BY <1>1, <1>13, Kinds
      <4> QED BY <4>1, <4>2, <4>3
    <3>3. CASE fd # left /\ fd # right
      <4>1. aimed[fd] = before[fd]
        BY <2>1, <3>3
      <4>2. after[fd] = table[fd]
        BY <3>3, <1>4, <1>7, <1>8, <1>9
      <4> QED BY <4>1, <4>2
    <3> QED BY <3>1, <3>2, <3>3
  <2> QED BY <2>1, <2>2
<1>14. ASSUME r.right_fd = -1, before[left] = <<>>, \A fd \in 0..left - 1 : before[fd] # <<>>
       PROVE  DOMAIN aimed = 0..2 /\ \A fd \in 0..2 : after[fd] = AtKept(aimed[fd])
  <2>1. aimed = before
    BY <1>14 DEF Aimed, left
  <2> HIDE DEF aimed
  <2>2. right = left
    <3>1. left \in Free(table)
      BY <1>1, <1>9, <1>12, <1>14
    <3>2. right <= left
      BY <1>1, <1>14, <3>1
    <3>3. right \in 0..2 /\ before[right] = <<>>
      BY <1>1, <1>9, <1>12, <1>14, <3>2
    <3>4. right \notin 0..left - 1
      BY <1>14, <3>3
    <3> QED BY <1>1, <3>2, <3>3, <3>4
  <2>3. ASSUME NEW fd \in 0..2 PROVE after[fd] = table[fd]
    <3>1. CASE fd = right
      BY <3>1, <1>1, <1>8, <1>10, <1>14
    <3>2. CASE fd # right
      BY <3>2, <2>2, <1>4, <1>7, <1>8, <1>9
    <3> QED BY <3>1, <3>2
  <2> QED BY <2>1, <2>3
<1>15. ASSUME r.right_fd = -1, ~(before[left] = <<>> /\ \A fd \in 0..left - 1 : before[fd] # <<>>)
       PROVE  DOMAIN aimed = 0..2 /\ \A fd \in 0..2 : after[fd] = AtKept(aimed[fd])
  <2>1. aimed = [before EXCEPT ![left] = end]
    BY <1>15 DEF Aimed, left
  <2> HIDE DEF aimed
  <2>2. DOMAIN aimed = 0..2 /\ aimed[left] = end /\ \A fd \in 0..2 : fd # left => aimed[fd] = before[fd]
    BY <1>1, <2>1
  <2>3. right # left
    <3> SUFFICES ASSUME right = left PROVE FALSE
      OBVIOUS
    <3>1. before[left] = <<>>
      BY <1>1, <1>10, <1>12, <1>15
    <3>2. PICK fd \in 0..left - 1 : before[fd] = <<>>
      BY <1>15, <3>1
    <3>3. fd \in 0..2 /\ fd < left
      BY <1>1, <3>2
    <3>4. fd \in Free(table)
      BY <1>9, <1>12, <3>2, <3>3
    <3> QED BY <1>1, <1>15, <3>3, <3>4
  <2>4. ASSUME NEW fd \in 0..2 PROVE after[fd] = AtKept(aimed[fd])
    <3>1. CASE fd = left
      <4>1. after[fd] = AtKept(file.end)
        BY <1>1, <1>5, <1>7, <1>8, <1>15, <2>3, <3>1
      <4>2. file.end = end
        BY Kinds DEF file
      <4> QED BY <4>1, <4>2, <2>2, <3>1
    <3>2. CASE fd = right
      BY <3>2, <2>2, <2>3, <1>1, <1>8, <1>10, <1>15
    <3>3. CASE fd # left /\ fd # right
      BY <3>3, <2>2, <1>4, <1>7, <1>8, <1>9
    <3> QED BY <3>1, <3>2, <3>3
  <2> QED BY <2>2, <2>4
<1> QED BY <1>11, <1>13, <1>14, <1>15 DEF after, file

(* What a close changes.                                                   *)
LEMMA WithoutEntries ==
  ASSUME NEW table \in Tables, NEW x
  PROVE  /\ Without(table, x) \in Tables
         /\ \A fd \in 0..MAX_FD : fd # x.fd => Without(table, x)[fd] = table[fd]
         /\ \A fd \in 0..MAX_FD : Without(table, x)[fd] \in {table[fd], Closed}
BY WithoutTable DEF Without, Tables

-----------------------------------------------------------------------------
(* What a process still has of what it was forked with.                    *)
Alive == {"forked", "linked", "plumbed", "waiting", "ready"}

Has(c, x, end) == x.fd \in High /\ c.fds[x.fd] = AtExec(end)

Keeps(c, n, count) ==
  /\ Has(c, c.error.w, ErrorW(n))
  /\ \A fd \in High : c.fds[fd] = Closed \/ c.fds[fd].cloexec = TRUE
  /\ n > 1 \/ c.pc \in {"forked", "linked", "plumbed"} => Has(c, c.control.w, ControlW)
  /\ c.pc \in {"forked", "linked", "plumbed", "waiting"} => Has(c, c.control.r, ControlR)
  /\ c.pc \in {"forked", "linked"} =>
       /\ IF n = 1 THEN c.prev.fd = -2 ELSE Has(c, c.prev, PipeR(n - 1))
       /\ n < count => Has(c, c.pipe.w, PipeW(n))
  /\ c.pc = "waiting" => n = 1

(* What holds at 0 and goes from r - 1 to r holds up to d.                  *)
LEMMA UpTo ==
  ASSUME NEW d \in Nat, NEW G, 0 \in G, \A r \in 1..d : r - 1 \in G => r \in G
  PROVE  \A r \in 0..d : r \in G
<1> DEFINE B == {r \in 0..d : r \notin G}
<1> SUFFICES ASSUME B # {} PROVE FALSE
  OBVIOUS
<1>1. B \in SUBSET Nat
  OBVIOUS
<1>2. PICK r \in B : \A y \in B : r <= y
  BY <1>1, LeastNat
<1>3. r \in 1..d
  BY <1>2
<1>4. r - 1 \in 0..d /\ r - 1 \notin B
  BY <1>2, <1>3
<1> QED BY <1>2, <1>3, <1>4

(* The redirects of a list, as far as the d-th.                            *)
Stage(g, n, count, list) ==
  [r \in 0..Len(list) |-> IF r = 0 THEN Given(n, count) ELSE Aimed(g[r - 1], list[r], File(n, r).end)]

Walk(g, n, count, list, d) ==
  /\ g[0] = Given(n, count)
  /\ \A r \in 1..d : g[r] = Aimed(g[r - 1], list[r], File(n, r).end)

(* Each of them can be taken after the other.                              *)
LEMMA WalkExists ==
  ASSUME NEW n, NEW count, NEW list, Len(list) \in Nat
  PROVE  \E g : Walk(g, n, count, list, Len(list))
<1> DEFINE G == {d \in 0..Len(list) : \E g : Walk(g, n, count, list, d)}
<1>1. 0 \in G
  <2>1. Walk([r \in {0} |-> Given(n, count)], n, count, list, 0)
    BY DEF Walk
  <2> QED BY <2>1
<1>2. ASSUME NEW d \in 1..Len(list), d - 1 \in G PROVE d \in G
  <2>1. PICK g : Walk(g, n, count, list, d - 1)
    BY <1>2
  <2> DEFINE last == Aimed(g[d - 1], list[d], File(n, d).end)
             h == [r \in 0..d |-> IF r = d THEN last ELSE g[r]]
  <2>2. last = Aimed(g[d - 1], list[d], File(n, d).end)
    OBVIOUS
  <2> HIDE DEF last
  <2>3. h[d] = last /\ \A r \in 0..d - 1 : h[r] = g[r]
    OBVIOUS
  <2> HIDE DEF h
  <2>4. h[0] = Given(n, count)
    <3>1. 0 \in 0..d - 1
      OBVIOUS
    <3> QED BY <3>1, <2>1, <2>3 DEF Walk
  <2>5. ASSUME NEW r \in 1..d PROVE h[r] = Aimed(h[r - 1], list[r], File(n, r).end)
    <3>1. r - 1 \in 0..d - 1
      OBVIOUS
    <3>2. CASE r = d
      BY <3>1, <3>2, <2>2, <2>3
    <3>3. CASE r # d
      <4>1. r \in 1..d - 1 /\ r \in 0..d - 1
        BY <3>3
      <4>2. g[r] = Aimed(g[r - 1], list[r], File(n, r).end)
        BY <4>1, <2>1 DEF Walk
      <4> QED BY <4>1, <4>2, <3>1, <2>3
    <3> QED BY <3>2, <3>3
  <2>6. Walk(h, n, count, list, d)
    BY <2>4, <2>5 DEF Walk
  <2> QED BY <2>6
<1>3. \A d \in 0..Len(list) : d \in G
  <2> HIDE DEF G
  <2> QED BY <1>1, <1>2, UpTo
<1>4. Len(list) \in G
  BY <1>3
<1> QED BY <1>4

(* What Standing says, one redirect after the other.                       *)
LEMMA StandingIs ==
  ASSUME NEW n, NEW count, NEW list, Len(list) \in Nat
  PROVE  Walk(Standing(n, count, list), n, count, list, Len(list))
<1> DEFINE d == Len(list)
           h == CHOOSE g : g = Stage(g, n, count, list)
<1>1. Standing(n, count, list) = h
  BY DEF Standing, Stage
<1>2. PICK w : Walk(w, n, count, list, d)
  BY WalkExists
<1>3. \E g : g = Stage(g, n, count, list)
  <2> DEFINE v == [r \in 0..d |-> w[r]]
  <2>1. ASSUME NEW r \in 0..d
        PROVE  w[r] = IF r = 0 THEN Given(n, count) ELSE Aimed(v[r - 1], list[r], File(n, r).end)
    <3>1. CASE r = 0
      BY <3>1, <1>2 DEF Walk
    <3>2. CASE r # 0
      <4>1. r \in 1..d /\ r - 1 \in 0..d
        BY <3>2
      <4>2. v[r - 1] = w[r - 1]
        BY <4>1
      <4>3. w[r] = Aimed(w[r - 1], list[r], File(n, r).end)
        BY <4>1, <1>2 DEF Walk
      <4> QED BY <3>2, <4>2, <4>3
    <3> QED BY <3>1, <3>2
  <2>2. v = [r \in 0..d |-> IF r = 0 THEN Given(n, count) ELSE Aimed(v[r - 1], list[r], File(n, r).end)]
    <3>1. v = [r \in 0..d |-> w[r]]
      OBVIOUS
    <3> HIDE DEF v
    <3> QED BY <3>1, <2>1
  <2>3. v = Stage(v, n, count, list)
    <3> HIDE DEF v
    <3> QED BY <2>2 DEF Stage
  <2> QED BY <2>3
<1>4. h = Stage(h, n, count, list)
  BY <1>3
<1> HIDE DEF h
<1>5. h = [r \in 0..d |-> IF r = 0 THEN Given(n, count) ELSE Aimed(h[r - 1], list[r], File(n, r).end)]
  BY <1>4 DEF Stage
<1>6. h[0] = Given(n, count) /\ \A r \in 1..d : h[r] = Aimed(h[r - 1], list[r], File(n, r).end)
  <2>1. 0 \in 0..d /\ \A r \in 1..d : r \in 0..d /\ r # 0
    OBVIOUS
  <2>2. ASSUME NEW r \in 1..d
        PROVE  h[r] = IF r = 0 THEN Given(n, count) ELSE Aimed(h[r - 1], list[r], File(n, r).end)
    BY <1>5, <2>1
  <2>3. h[0] = IF 0 = 0 THEN Given(n, count) ELSE Aimed(h[0 - 1], list[0], File(n, 0).end)
    BY <1>5, <2>1
  <2> QED BY <2>1, <2>2, <2>3
<1> QED BY <1>1, <1>6 DEF Walk

(* What place gives: 0, 1 and 2.                                           *)
LEMMA GivenIs ==
  ASSUME NEW n, NEW count
  PROVE  /\ DOMAIN Given(n, count) = 0..2
         /\ Given(n, count)[0] = IF n > 1 THEN PipeR(n - 1) ELSE <<"terminal">>
         /\ Given(n, count)[1] = IF n < count THEN PipeW(n) ELSE <<"terminal">>
         /\ Given(n, count)[2] = <<"terminal">>
<1>1. 0 \in 0..2 /\ 1 \in 0..2 /\ 2 \in 0..2
  OBVIOUS
<1> QED BY <1>1 DEF Given, STDIN_FILENO, STDOUT_FILENO, STDERR_FILENO, PipeR, PipeW

(* Its standard descriptors, and what has become of the rest.              *)
Stands(c, n, count, list) ==
  /\ c.pc = "forked" => c.done = 0 /\ \A fd \in 0..2 : c.fds[fd] = Terminal
  /\ c.pc = "linked" => c.done \in 0..Len(list)
  /\ c.pc \in {"plumbed", "waiting", "ready", "exec"} => c.done = Len(list)
  /\ c.pc \in {"linked", "plumbed", "waiting", "ready", "exec"} =>
       LET now == Standing(n, count, list)[c.done]
       IN  DOMAIN now = 0..2 /\ \A fd \in 0..2 : c.fds[fd] = AtKept(now[fd])
  /\ c.pc = "exec" => \A fd \in High : c.fds[fd] = Closed

Process(c, n, count, list) ==
  /\ c.pc \in Alive => Keeps(c, n, count)
  /\ Stands(c, n, count, list)

ProcessInv == \A n \in 1..size : Process(child[n], n, size, redirects[n])

SameNumbers(c, d) ==
  d.control = c.control /\ d.error = c.error /\ d.pipe = c.pipe /\ d.prev = c.prev

(* The ends a process is forked with are different.                        *)
LEMMA EndsApart ==
  \A n : /\ ErrorW(n) # ControlW /\ ErrorW(n) # ControlR /\ ControlW # ControlR
         /\ PipeR(n - 1) # ErrorW(n) /\ PipeR(n - 1) # ControlW /\ PipeR(n - 1) # ControlR
         /\ PipeW(n) # ErrorW(n) /\ PipeW(n) # ControlW /\ PipeW(n) # ControlR
BY DEF ErrorW, ControlW, ControlR, PipeR, PipeW

(* link_pipes puts the pipes in 0 and 1.                                   *)
LEMMA LinkProcess ==
  ASSUME NEW c \in ChildRecords, NEW d \in ChildRecords, NEW count \in Nat, NEW n \in 1..count, NEW list,
         Len(list) \in Nat, Process(c, n, count, list), c.pc = "forked", d.pc = "linked", SameNumbers(c, d),
         d.done = c.done,
         d.fds = Linked(c.fds, c.prev.fd, IF n = count THEN 1 ELSE c.pipe.w.fd)
  PROVE  Process(d, n, count, list)
<1> DEFINE out == IF n = count THEN 1 ELSE c.pipe.w.fd
<1>1. Keeps(c, n, count) /\ c.done = 0 /\ (\A fd \in 0..2 : c.fds[fd] = Terminal) /\ c.fds \in Tables
  BY DEF Process, Stands, Alive, ChildRecords
<1>2. c.prev.fd \in High \cup {-2} /\ out \in High \cup {1} /\ (c.prev.fd = -2 <=> n = 1)
  BY <1>1, Numbering DEF Keeps, Has
<1>3. /\ \A fd \in High \cup {2} : d.fds[fd] = c.fds[fd]
      /\ d.fds[0] = IF c.prev.fd = -2 THEN c.fds[0] ELSE AtKept(c.fds[c.prev.fd].end)
      /\ d.fds[1] = IF out = 1 THEN c.fds[1] ELSE AtKept(c.fds[out].end)
  BY <1>1, <1>2, LinkedEntries
<1>4. Keeps(d, n, count)
  BY <1>1, <1>3 DEF Keeps, Has, SameNumbers
<1> DEFINE now == Standing(n, count, list)[d.done]
<1>n. now = Given(n, count)
  BY <1>1, StandingIs DEF Walk
<1> HIDE DEF now
<1>5. ASSUME NEW fd \in 0..2 PROVE d.fds[fd] = AtKept(now[fd])
  <2>2. d.fds[0] = AtKept(now[0])
    <3>1. now[0] = IF n > 1 THEN PipeR(n - 1) ELSE <<"terminal">>
      BY <1>n, GivenIs
    <3>2. CASE n = 1
      BY <1>1, <1>2, <1>3, <3>1, <3>2, Kinds
    <3>3. CASE n # 1
      <4>1. c.fds[c.prev.fd] = AtExec(PipeR(n - 1)) /\ n > 1
        BY <1>1, <3>3 DEF Keeps, Has
      <4>2. c.fds[c.prev.fd].end = PipeR(n - 1)
        BY <4>1, Kinds
      <4> QED BY <1>2, <1>3, <3>1, <3>3, <4>1, <4>2
    <3> QED BY <3>2, <3>3
  <2>3. d.fds[1] = AtKept(now[1])
    <3>1. now[1] = IF n < count THEN PipeW(n) ELSE <<"terminal">>
      BY <1>n, GivenIs
    <3>2. CASE n = count
      BY <1>1, <1>3, <3>1, <3>2, Kinds
    <3>3. CASE n # count
      <4>1. c.fds[out] = AtExec(PipeW(n)) /\ out \in High /\ n < count
        BY <1>1, <3>3 DEF Keeps, Has
      <4>2. c.fds[out].end = PipeW(n) /\ out # 1
        BY <4>1, Kinds, Numbering
      <4> QED BY <1>3, <3>1, <3>3, <4>1, <4>2
    <3> QED BY <3>2, <3>3
  <2>4. d.fds[2] = AtKept(now[2])
    <3>1. now[2] = <<"terminal">>
      BY <1>n, GivenIs
    <3> QED BY <1>1, <1>3, <3>1, Kinds
  <2>5. fd = 0 \/ fd = 1 \/ fd = 2
    OBVIOUS
  <2> QED BY <2>2, <2>3, <2>4, <2>5
<1>6. Stands(d, n, count, list)
  <2>1. d.done \in 0..Len(list) /\ DOMAIN now = 0..2
    BY <1>1, <1>n, GivenIs
  <2> QED BY <1>5, <2>1 DEF Stands, now
<1> QED BY <1>4, <1>6 DEF Process

(* One redirect more.                                                      *)
LEMMA RedirectProcess ==
  ASSUME NEW c \in ChildRecords, NEW d \in ChildRecords, NEW count \in Nat, NEW n \in 1..count, NEW list,
         Len(list) \in Nat,
         Process(c, n, count, list), c.pc = "linked", d.pc = "linked", SameNumbers(c, d),
         c.done < Len(list), d.done = c.done + 1,
         list[c.done + 1] \in [left_fd : 0..2, right_fd : -1..2],
         list[c.done + 1].right_fd = -1 => Free(c.fds) # {},
         d.fds = Redirected(c.fds, list[c.done + 1], File(n, c.done + 1))
  PROVE  Process(d, n, count, list)
<1> DEFINE m == c.done + 1
           r == list[m]
           end == File(n, m).end
           before == Standing(n, count, list)[c.done]
           now == Standing(n, count, list)[m]
<1>1. Keeps(c, n, count) /\ c.done \in Nat /\ c.done \in 0..Len(list) /\ c.fds \in Tables
  BY DEF Process, Stands, Alive, ChildRecords
<1>2. DOMAIN before = 0..2 /\ \A fd \in 0..2 : c.fds[fd] = AtKept(before[fd])
  BY DEF Process, Stands
<1>3. m \in 1..Len(list) /\ m \in Nat /\ m - 1 = c.done /\ n \in Nat
  BY <1>1
<1>4. now = Aimed(before, r, end)
  <2> HIDE DEF m
  <2>1. \A q \in 1..Len(list) : Standing(n, count, list)[q]
                                 = Aimed(Standing(n, count, list)[q - 1], list[q], File(n, q).end)
    BY StandingIs DEF Walk
  <2> QED BY <2>1, <1>3
<1>5. /\ r \in [left_fd : 0..2, right_fd : -1..2]
      /\ r.right_fd = -1 => Free(c.fds) # {}
      /\ d.fds = Redirected(c.fds, r, File(n, m)) /\ d.done = m
  OBVIOUS
<1>6. File(n, m) = AtKept(end) /\ AtKept(end) \in Entries
  <2> HIDE DEF m
  <2> QED BY <1>3, Kinds, EntryTypes
<1> HIDE DEF m, r, end, before, now
<1>7. /\ \A fd \in High : d.fds[fd] = c.fds[fd]
      /\ DOMAIN now = 0..2
      /\ \A fd \in 0..2 : d.fds[fd] = AtKept(now[fd])
  BY <1>1, <1>2, <1>4, <1>5, <1>6, RedirectedEntries
<1>8. Keeps(d, n, count)
  BY <1>1, <1>7 DEF Keeps, Has, SameNumbers
<1>9. Stands(d, n, count, list)
  <2>1. d.done \in 0..Len(list)
    BY <1>1
  <2> QED BY <1>5, <1>7, <2>1 DEF Stands, now
<1> QED BY <1>8, <1>9 DEF Process

(* Closing numbers a process no longer needs.                              *)
LEMMA ShrinkProcess ==
  ASSUME NEW c \in ChildRecords, NEW d \in ChildRecords, NEW count \in Nat, NEW n \in 1..count, NEW list,
         Process(c, n, count, list), c.pc \in {"linked", "plumbed", "waiting"},
         d.pc \in {"plumbed", "waiting", "ready"}, SameNumbers(c, d),
         d.done = c.done, d.done = Len(list),
         \A fd \in 0..MAX_FD : d.fds[fd] \in {c.fds[fd], Closed},
         \A fd \in 0..2 : d.fds[fd] = c.fds[fd],
         d.fds[c.error.w.fd] = c.fds[c.error.w.fd],
         n > 1 \/ d.pc = "plumbed" => /\ d.fds[c.control.w.fd] = c.fds[c.control.w.fd]
                                      /\ c.pc \in {"linked", "plumbed"},
         d.pc \in {"plumbed", "waiting"} => d.fds[c.control.r.fd] = c.fds[c.control.r.fd],
         d.pc = "waiting" => n = 1
  PROVE  Process(d, n, count, list)
<1>1. Keeps(c, n, count) /\ Stands(c, n, count, list)
  BY DEF Process, Alive
<1>2. \A fd \in High : d.fds[fd] = Closed \/ d.fds[fd].cloexec = TRUE
  BY <1>1, Numbering DEF Keeps
<1>3. Keeps(d, n, count)
  BY <1>1, <1>2 DEF Keeps, Has, SameNumbers
<1>4. Stands(d, n, count, list)
  BY <1>1 DEF Stands
<1> QED BY <1>3, <1>4 DEF Process

(* exec closes the rest.                                                   *)
LEMMA ExecProcess ==
  ASSUME NEW c \in ChildRecords, NEW d \in ChildRecords, NEW count \in Nat, NEW n \in 1..count, NEW list,
         Process(c, n, count, list), c.pc = "ready", d.pc = "exec", d.done = c.done,
         d.fds = [fd \in 0..MAX_FD |-> IF c.fds[fd].cloexec THEN Closed ELSE c.fds[fd]]
  PROVE  Process(d, n, count, list)
<1>1. Keeps(c, n, count) /\ Stands(c, n, count, list) /\ c.fds \in Tables
  BY DEF Process, Alive, ChildRecords
<1>2. ASSUME NEW fd \in High PROVE d.fds[fd] = Closed
  <2>1. d.fds[fd] = IF c.fds[fd].cloexec THEN Closed ELSE c.fds[fd]
    BY Numbering
  <2>2. c.fds[fd] = Closed \/ c.fds[fd].cloexec = TRUE
    BY <1>1 DEF Keeps
  <2>3. CASE c.fds[fd] = Closed
    BY <2>1, <2>3
  <2>4. CASE c.fds[fd].cloexec = TRUE
    BY <2>1, <2>4
  <2> QED BY <2>2, <2>3, <2>4
<1> DEFINE now == Standing(n, count, list)[c.done]
<1>d. DOMAIN now = 0..2 /\ \A fd \in 0..2 : c.fds[fd] = AtKept(now[fd])
  BY <1>1 DEF Stands
<1> HIDE DEF now
<1>3. ASSUME NEW fd \in 0..2
      PROVE  d.fds[fd] = AtKept(now[fd])
  <2>1. c.fds[fd] = AtKept(now[fd])
    BY <1>d
  <2>2. c.fds[fd].cloexec = FALSE
    BY <2>1, Kinds
  <2>3. fd \in 0..MAX_FD
    BY LaunchAssumption
  <2>4. d.fds[fd] = c.fds[fd]
    BY <2>2, <2>3
  <2> QED BY <2>1, <2>4
<1>4. Stands(d, n, count, list)
  BY <1>1, <1>2, <1>d, <1>3 DEF Stands, now
<1> QED BY <1>4 DEF Process, Alive

-----------------------------------------------------------------------------
(* Every process, when its redirects name 0, 1 and 2 only.                 *)
LEMMA Becoming ==
  ASSUME NEW c \in ChildRecords, NEW label \in ChildLabels, NEW table \in Tables
  PROVE  LET d == [c EXCEPT !.pc = label, !.fds = table]
         IN  d \in ChildRecords /\ d.pc = label /\ d.fds = table /\ d.done = c.done /\ SameNumbers(c, d)
BY DEF ChildRecords, SameNumbers

(* The other processes stay as they are.                                   *)
LEMMA OthersStay ==
  ASSUME Typed, ProcessInv, NEW n \in 1..size, NEW d, child' = [child EXCEPT ![n] = d],
         UNCHANGED <<size, redirects>>, Process(d, n, size, redirects[n])
  PROVE  ProcessInv'
BY DEF Typed, ProcessInv

(* Nothing is asked of a process that is not there.                        *)
LEMMA GoneProcess ==
  ASSUME NEW c, c.pc \in {"none", "gone"}, NEW n, NEW count, NEW list
  PROVE  Process(c, n, count, list)
BY DEF Process, Stands, Alive

(* The list of redirects of a process.                                     *)
LEMMA ListOf ==
  ASSUME Typed, NEW n \in 1..size
  PROVE  /\ Len(redirects[n]) \in Nat /\ DOMAIN redirects[n] = 1..Len(redirects[n])
         /\ redirects[n] \in RedirectLists
<1> DEFINE Redirects == [left_fd : 0..MAX_FD, right_fd : -1..MAX_FD]
<1>1. redirects[n] \in RedirectLists /\ RedirectLists \subseteq Seq(Redirects)
  BY LaunchAssumption DEF Typed
<1> HIDE DEF Redirects
<1>2. redirects[n] \in Seq(Redirects)
  BY <1>1
<1> QED BY <1>1, <1>2

(* Its redirects name 0, 1 and 2.                                          *)
LEMMA StandardOf ==
  ASSUME StandardRedirects, Typed, NEW n \in 1..size, NEW d \in Nat, d < Len(redirects[n])
  PROVE  redirects[n][d + 1] \in [left_fd : 0..2, right_fd : -1..2]
<1> DEFINE r == redirects[n][d + 1]
<1>1. r \in [left_fd : 0..MAX_FD, right_fd : -1..MAX_FD] /\ d + 1 \in DOMAIN redirects[n]
  BY RedirectOf DEF Typed
<1>2. r.left_fd \in 0..2 /\ r.right_fd \in -1..2
  BY <1>1, ListOf DEF StandardRedirects
<1>3. r = [left_fd |-> r.left_fd, right_fd |-> r.right_fd]
  BY <1>1
<1> HIDE DEF r
<1>4. r \in [left_fd : 0..2, right_fd : -1..2]
  BY <1>2, <1>3
<1> QED BY <1>4 DEF r

(* Every step of a process keeps what it holds.                            *)
LEMMA ChildProcess ==
  ASSUME StandardRedirects, Typed, ProcessInv, NEW n \in 1..size, Child(n)
  PROVE  ProcessInv'
<1> DEFINE c == child[n]
           list == redirects[n]
<1>1. UNCHANGED <<size, redirects>>
  BY ChildLeavesShell
<1>2. /\ child \in [1..size -> ChildRecords] /\ c \in ChildRecords /\ c.fds \in Tables /\ c.done \in Nat
      /\ size \in Nat /\ Process(c, n, size, list) /\ n \in Nat
  BY LaunchAssumption DEF Typed, ChildRecords, ProcessInv
<1>3. Len(list) \in Nat /\ DOMAIN list = 1..Len(list)
  BY ListOf
<1> HIDE DEF c, list
<1>4. ASSUME Fails(n) PROVE ProcessInv'
  <2> DEFINE gone == [NoChild EXCEPT !.pc = "gone"]
  <2>1. child' = [child EXCEPT ![n] = gone]
    BY <1>4 DEF Fails
  <2>2. gone.pc = "gone"
    BY NoChildIs
  <2> HIDE DEF gone
  <2>3. Process(gone, n, size, redirects[n])
    BY <2>2, GoneProcess
  <2> QED BY <1>1, <2>1, <2>3, OthersStay
<1>5. ASSUME NEW label \in ChildLabels, NEW table \in Tables, Becomes(n, label, table),
             \A d \in ChildRecords : d.pc = label /\ d.fds = table /\ d.done = c.done /\ SameNumbers(c, d)
                                       => Process(d, n, size, list)
      PROVE  ProcessInv'
  <2> DEFINE new == [c EXCEPT !.pc = label, !.fds = table]
  <2>1. new \in ChildRecords /\ new.pc = label /\ new.fds = table /\ new.done = c.done /\ SameNumbers(c, new)
    BY <1>2, Becoming
  <2>2. child' = [child EXCEPT ![n] = new]
    BY <1>5 DEF Becomes, c
  <2> HIDE DEF new
  <2>3. Process(new, n, size, list)
    BY <1>5, <2>1
  <2> QED BY <1>1, <2>2, <2>3, OthersStay DEF list
<1>6. ASSUME c.pc \in Alive
      PROVE  /\ Has(c, c.error.w, ErrorW(n))
             /\ n > 1 \/ c.pc \in {"forked", "linked", "plumbed"} => Has(c, c.control.w, ControlW)
             /\ c.pc \in {"forked", "linked", "plumbed", "waiting"} => Has(c, c.control.r, ControlR)
  BY <1>2, <1>6 DEF Process, Keeps
<1>7. \A x, y, a, b : Has(c, x, a) /\ Has(c, y, b) /\ a # b => x.fd # y.fd
  BY Kinds DEF Has
<1>8. CASE Link(n)
  <2> DEFINE table == Linked(c.fds, c.prev.fd, IF n = size THEN 1 ELSE c.pipe.w.fd)
  <2>1. c.pc = "forked" /\ Becomes(n, "linked", table)
    BY <1>8 DEF Link, OutFd, IsLast, STDOUT_FILENO, c
  <2>2. table \in Tables
    <3>1. c.prev.fd \in High \cup {-2}
      BY <1>2, <2>1 DEF Process, Keeps, Alive, Has
    <3>2. n # size => c.pipe.w.fd \in High
      BY <1>2, <2>1 DEF Process, Keeps, Alive, Has
    <3> QED BY <3>1, <3>2, <1>2, Numbering, LinkedTable
  <2>3. "linked" \in ChildLabels
    BY DEF ChildLabels
  <2>4. \A d \in ChildRecords : d.pc = "linked" /\ d.fds = table /\ d.done = c.done /\ SameNumbers(c, d)
                                       => Process(d, n, size, list)
    BY <1>2, <1>3, <2>1, LinkProcess
  <2> HIDE DEF table
  <2> QED BY <1>5, <2>1, <2>2, <2>3, <2>4
<1>9. CASE Redirect(n)
  <2> DEFINE r == list[c.done + 1]
             file == File(n, c.done + 1)
             new == [c EXCEPT !.done = c.done + 1, !.fds = Redirected(c.fds, r, file)]
  <2>1. /\ c.pc = "linked" /\ c.done < Len(list)
        /\ r.right_fd = -1 => Free(c.fds) # {}
    BY <1>9 DEF Redirect, c, list
  <2>2. child' = [child EXCEPT ![n] = new]
    BY <1>2, <1>9 DEF Redirect, c, list, ChildRecords
  <2>3. r \in [left_fd : 0..2, right_fd : -1..2]
    BY <1>2, <2>1, StandardOf DEF list
  <2>4. Redirected(c.fds, r, file) \in Tables
    <3>1. r \in [left_fd : 0..MAX_FD, right_fd : -1..MAX_FD]
      BY <1>2, <2>1, RedirectOf DEF list, Typed
    <3>2. c.done + 1 \in Nat
      BY <1>2
    <3>3. file \in Entries
      BY <1>2, <3>2, EntryTypes
    <3> HIDE DEF r, file
    <3> QED BY <3>1, <3>3, <1>2, <2>1, RedirectedTable
  <2>5. /\ new \in ChildRecords /\ new.pc = "linked" /\ new.done = c.done + 1
        /\ new.fds = Redirected(c.fds, r, file) /\ SameNumbers(c, new)
    <3> HIDE DEF r, file
    <3>1. c.done + 1 \in Nat
      BY <1>2
    <3>2. \A table \in Tables, m \in Nat :
             LET d == [c EXCEPT !.done = m, !.fds = table]
             IN  d \in ChildRecords /\ d.pc = c.pc /\ d.done = m /\ d.fds = table /\ SameNumbers(c, d)
      BY <1>2 DEF ChildRecords, SameNumbers
    <3> QED BY <2>1, <2>4, <3>1, <3>2
  <2> HIDE DEF new
  <2>6. Process(new, n, size, list)
    BY <1>2, <1>3, <2>1, <2>3, <2>5, RedirectProcess
  <2> QED BY <1>1, <2>2, <2>6, OthersStay DEF list
<1>10. CASE Plumbed(n)
  <2> DEFINE one == Without(c.fds, c.prev)
             table == IF n = size THEN one ELSE Without(one, c.pipe.w)
  <2>1. c.pc = "linked" /\ c.done = Len(list) /\ Becomes(n, "plumbed", table)
    BY <1>10 DEF Plumbed, WithoutPipe, IsLast, c, list
  <2>2. Keeps(c, n, size)
    BY <1>2, <2>1 DEF Process, Alive
  <2>3. /\ one \in Tables /\ \A fd \in 0..MAX_FD : fd # c.prev.fd => one[fd] = c.fds[fd]
        /\ \A fd \in 0..MAX_FD : one[fd] \in {c.fds[fd], Closed}
    BY <1>2, WithoutEntries
  <2>4. n = 1 => one = c.fds
    BY <2>1, <2>2 DEF Keeps, Without
  <2> HIDE DEF one
  <2>5. /\ table \in Tables
        /\ \A fd \in 0..MAX_FD : fd # c.prev.fd /\ (n # size => fd # c.pipe.w.fd) => table[fd] = c.fds[fd]
        /\ \A fd \in 0..MAX_FD : table[fd] \in {c.fds[fd], Closed}
    <3>1. CASE n = size
      BY <2>3, <3>1
    <3>2. CASE n # size
      <4>1. table = Without(one, c.pipe.w)
        BY <3>2
      <4> HIDE DEF table
      <4>2. /\ table \in Tables /\ \A fd \in 0..MAX_FD : fd # c.pipe.w.fd => table[fd] = one[fd]
            /\ \A fd \in 0..MAX_FD : table[fd] \in {one[fd], Closed}
        BY <2>3, <4>1, WithoutEntries
      <4> QED BY <2>3, <3>2, <4>2
    <3> QED BY <3>1, <3>2
  <2>6. n # 1 => Has(c, c.prev, PipeR(n - 1))
    BY <2>1, <2>2 DEF Keeps
  <2>7. n # size => Has(c, c.pipe.w, PipeW(n))
    BY <1>2, <2>1, <2>2 DEF Keeps
  <2>8. n = 1 => c.prev.fd = -2
    BY <2>1, <2>2 DEF Keeps
  <2>9. ASSUME NEW x, NEW a \in {ErrorW(n), ControlW, ControlR}, Has(c, x, a)
        PROVE  table[x.fd] = c.fds[x.fd]
    <3>1. x.fd \in 0..MAX_FD /\ x.fd # -2
      BY <2>9, Numbering DEF Has
    <3>2. x.fd # c.prev.fd
      BY <3>1, <2>6, <2>8, <2>9, <1>7, EndsApart
    <3>3. n # size => x.fd # c.pipe.w.fd
      BY <2>7, <2>9, <1>7, EndsApart
    <3> QED BY <3>1, <3>2, <3>3, <2>5
  <2>10. \A fd \in 0..2 : table[fd] = c.fds[fd]
    <3>1. c.prev.fd \in High \cup {-2} /\ (n # size => c.pipe.w.fd \in High)
      BY <2>6, <2>7, <2>8 DEF Has
    <3>2. \A fd \in 0..2 : fd \in 0..MAX_FD /\ fd \notin High /\ fd # -2
      BY LaunchAssumption DEF High
    <3> QED BY <3>1, <3>2, <2>5
  <2>11. /\ table[c.error.w.fd] = c.fds[c.error.w.fd]
         /\ table[c.control.w.fd] = c.fds[c.control.w.fd]
         /\ table[c.control.r.fd] = c.fds[c.control.r.fd]
    BY <2>1, <2>9, <1>6 DEF Alive
  <2> HIDE DEF table
  <2>12. \A d \in ChildRecords : d.pc = "plumbed" /\ d.fds = table /\ d.done = c.done /\ SameNumbers(c, d)
                                       => Process(d, n, size, list)
    BY <1>2, <2>1, <2>5, <2>10, <2>11, ShrinkProcess
  <2>13. "plumbed" \in ChildLabels
    BY DEF ChildLabels
  <2> QED BY <1>5, <2>1, <2>5, <2>12, <2>13
<1>11. ASSUME NEW x, NEW a, Has(c, x, a), a \in {ControlR, ControlW}, NEW table \in Tables,
              \A fd \in 0..MAX_FD : fd # x.fd => table[fd] = c.fds[fd],
              \A fd \in 0..MAX_FD : table[fd] \in {c.fds[fd], Closed},
              c.pc \in {"plumbed", "waiting"}, NEW label \in {"waiting", "ready"}, Becomes(n, label, table),
              \/ n = 1 /\ (label = "waiting" => a = ControlW /\ c.pc = "plumbed")
              \/ n > 1 /\ c.pc = "plumbed" /\ a = ControlR /\ label = "ready"
       PROVE  ProcessInv'
  <2>1. x.fd \in High
    BY <1>11 DEF Has
  <2>2. \A fd \in 0..2 : table[fd] = c.fds[fd]
    <3>1. \A fd \in 0..2 : fd \in 0..MAX_FD /\ fd \notin High
      BY LaunchAssumption DEF High
    <3> QED BY <1>11, <2>1, <3>1
  <2>3. table[c.error.w.fd] = c.fds[c.error.w.fd]
    <3>1. Has(c, c.error.w, ErrorW(n))
      BY <1>6, <1>11 DEF Alive
    <3>2. c.error.w.fd # x.fd
      BY <3>1, <1>7, <1>11, EndsApart
    <3>3. c.error.w.fd \in 0..MAX_FD
      BY <3>1, Numbering DEF Has
    <3> QED BY <3>2, <3>3, <1>11
  <2>4. n > 1 => table[c.control.w.fd] = c.fds[c.control.w.fd]
    <3> SUFFICES ASSUME n > 1 PROVE table[c.control.w.fd] = c.fds[c.control.w.fd]
      OBVIOUS
    <3>1. Has(c, c.control.w, ControlW)
      BY <1>6, <1>11 DEF Alive
    <3>2. c.control.w.fd # x.fd
      BY <3>1, <1>2, <1>7, <1>11, EndsApart
    <3>3. c.control.w.fd \in 0..MAX_FD
      BY <3>1, Numbering DEF Has
    <3> QED BY <3>2, <3>3, <1>11
  <2>5. label = "waiting" => table[c.control.r.fd] = c.fds[c.control.r.fd]
    <3> SUFFICES ASSUME label = "waiting" PROVE table[c.control.r.fd] = c.fds[c.control.r.fd]
      OBVIOUS
    <3>1. Has(c, c.control.r, ControlR)
      BY <1>6, <1>11 DEF Alive
    <3>2. c.control.r.fd # x.fd
      BY <3>1, <1>7, <1>11, EndsApart
    <3>3. c.control.r.fd \in 0..MAX_FD
      BY <3>1, Numbering DEF Has
    <3> QED BY <3>2, <3>3, <1>11
  <2>6. c.done = Len(list)
    BY <1>2, <1>11 DEF Process, Stands
  <2>7. \A d \in ChildRecords : d.pc = label /\ d.fds = table /\ d.done = c.done /\ SameNumbers(c, d)
                                       => Process(d, n, size, list)
    <3> SUFFICES ASSUME NEW d \in ChildRecords, d.pc = label, d.fds = table, d.done = c.done, SameNumbers(c, d)
                 PROVE  Process(d, n, size, list)
      OBVIOUS
    <3>1. c.pc \in {"linked", "plumbed", "waiting"} /\ d.pc \in {"plumbed", "waiting", "ready"}
          /\ d.pc # "plumbed"
      BY <1>11
    <3>2. n > 1 => c.pc \in {"linked", "plumbed"} /\ d.pc # "waiting"
      BY <1>2, <1>11
    <3>3. n = 1 \/ n > 1
      BY <1>2
    <3> QED BY <1>2, <1>11, <2>2, <2>3, <2>4, <2>5, <2>6, <3>1, <3>2, <3>3, ShrinkProcess
  <2>8. label \in ChildLabels
    BY DEF ChildLabels
  <2> QED BY <1>5, <1>11, <2>7, <2>8
<1>12. CASE n = 1 /\ LeaderCloses
  <2> DEFINE table == Without(c.fds, c.control.w)
  <2>1. c.pc = "plumbed" /\ Becomes(n, "waiting", table) /\ n = 1
    BY <1>12 DEF LeaderCloses, WithoutPipe, c
  <2>2. Has(c, c.control.w, ControlW)
    BY <1>6, <2>1 DEF Alive
  <2>3. /\ table \in Tables
        /\ \A fd \in 0..MAX_FD : fd # c.control.w.fd => table[fd] = c.fds[fd]
        /\ \A fd \in 0..MAX_FD : table[fd] \in {c.fds[fd], Closed}
    BY <1>2, WithoutEntries
  <2> HIDE DEF table
  <2> QED BY <1>11, <2>1, <2>2, <2>3
<1>13. ASSUME NEW x
       PROVE  /\ [c.fds EXCEPT ![x] = Closed] \in Tables
              /\ \A fd \in 0..MAX_FD : fd # x => [c.fds EXCEPT ![x] = Closed][fd] = c.fds[fd]
              /\ \A fd \in 0..MAX_FD : [c.fds EXCEPT ![x] = Closed][fd] \in {c.fds[fd], Closed}
  BY <1>2, ClosedEntry DEF Tables
<1>14. CASE n = 1 /\ LeaderReads
  <2> DEFINE table == [c.fds EXCEPT ![c.control.r.fd] = Closed]
  <2>1. c.pc = "waiting" /\ Becomes(n, "ready", table) /\ n = 1
    BY <1>14 DEF LeaderReads, c
  <2>2. Has(c, c.control.r, ControlR)
    BY <1>6, <2>1 DEF Alive
  <2>3. /\ table \in Tables
        /\ \A fd \in 0..MAX_FD : fd # c.control.r.fd => table[fd] = c.fds[fd]
        /\ \A fd \in 0..MAX_FD : table[fd] \in {c.fds[fd], Closed}
    BY <1>13
  <2> HIDE DEF table
  <2> QED BY <1>11, <2>1, <2>2, <2>3
<1>15. CASE MemberCloses(n)
  <2> DEFINE table == [c.fds EXCEPT ![c.control.r.fd] = Closed]
  <2>1. c.pc = "plumbed" /\ Becomes(n, "ready", table) /\ n > 1
    BY <1>15 DEF MemberCloses, c
  <2>2. Has(c, c.control.r, ControlR)
    BY <1>6, <2>1 DEF Alive
  <2>3. /\ table \in Tables
        /\ \A fd \in 0..MAX_FD : fd # c.control.r.fd => table[fd] = c.fds[fd]
        /\ \A fd \in 0..MAX_FD : table[fd] \in {c.fds[fd], Closed}
    BY <1>13
  <2> HIDE DEF table
  <2> QED BY <1>11, <2>1, <2>2, <2>3
<1>16. CASE Exec(n)
  <2> DEFINE table == [fd \in 0..MAX_FD |-> IF c.fds[fd].cloexec THEN Closed ELSE c.fds[fd]]
  <2>1. c.pc = "ready" /\ Becomes(n, "exec", table)
    BY <1>16 DEF Exec, c
  <2>2. table \in Tables
    BY <1>2, EntryTypes DEF Tables
  <2>3. \A d \in ChildRecords : d.pc = "exec" /\ d.fds = table /\ d.done = c.done /\ SameNumbers(c, d)
                                       => Process(d, n, size, list)
    BY <1>2, <2>1, ExecProcess
  <2>4. "exec" \in ChildLabels
    BY DEF ChildLabels
  <2> HIDE DEF table
  <2> QED BY <1>5, <2>1, <2>2, <2>3, <2>4
<1>17. CASE RedirectFails(n) \/ (n = 1 /\ LeaderFails) \/ ExecFails(n)
  BY <1>4, <1>17 DEF RedirectFails, LeaderFails, ExecFails
<1> QED BY <1>8, <1>9, <1>10, <1>12, <1>14, <1>15, <1>16, <1>17 DEF Child

(* A process is forked with the ends that are open for it.                 *)
LEMMA ForkProcess ==
  ASSUME Typed, Shelled, pc = "fork",
         NEW c \in ChildRecords, c.pc = "forked", c.done = 0, c.fds = fds, c.control = control_pipe,
         c.error = error_pipe, c.pipe = pipefds, c.prev = prevfd
  PROVE  Process(c, k, size, redirects[k])
<1>1. Exact(fds, LiveNow)
  BY DEF Shelled, ExactNow
<1>2. \A x \in LiveNow : x.fd \in High /\ fds[x.fd] = AtExec(x.of)
  BY <1>1 DEF Exact
<1>3. k \in Nat /\ size \in Nat /\ k >= 1
  BY LaunchAssumption DEF Typed
<1>4. /\ control_pipe.r.of = ControlR /\ control_pipe.w.of = ControlW
      /\ k > 1 => prevfd.of = PipeR(k - 1)
      /\ k < size => pipefds.w.of = PipeW(k)
      /\ error_pipe.w.of = ErrorW(k)
      /\ k = 1 => prevfd.fd = -2
  BY <1>3 DEF Shelled, Labelled, Placed, Feeding, Before
<1>5. /\ {control_pipe.r, control_pipe.w, error_pipe.w} \subseteq LiveNow
      /\ k > 1 => prevfd \in LiveNow
      /\ k < size => pipefds.w \in LiveNow
  BY DEF LiveNow, Feeding, Before
<1>6. \A fd \in High : c.fds[fd] = Closed \/ c.fds[fd].cloexec = TRUE
  <2> SUFFICES ASSUME NEW fd \in High, fds[fd] # Closed PROVE fds[fd].cloexec = TRUE
    OBVIOUS
  <2>1. PICK x \in LiveNow : x.fd = fd
    BY <1>1 DEF Exact
  <2> QED BY <2>1, <1>2, Kinds
<1>7. Keeps(c, k, size)
  <2>1. Has(c, c.error.w, ErrorW(k)) /\ Has(c, c.control.w, ControlW) /\ Has(c, c.control.r, ControlR)
    BY <1>2, <1>4, <1>5 DEF Has
  <2>2. IF k = 1 THEN c.prev.fd = -2 ELSE Has(c, c.prev, PipeR(k - 1))
    BY <1>2, <1>3, <1>4, <1>5 DEF Has
  <2>3. k < size => Has(c, c.pipe.w, PipeW(k))
    BY <1>2, <1>4, <1>5 DEF Has
  <2> QED BY <2>1, <2>2, <2>3, <1>6 DEF Keeps
<1>8. Stands(c, k, size, redirects[k])
  <2>1. \A fd \in 0..2 : fd = 0 \/ fd = 1 \/ fd = 2
    OBVIOUS
  <2> QED BY <1>1, <2>1 DEF Stands, Exact
<1> QED BY <1>7, <1>8 DEF Process

(* And every step of the shell does.                                       *)
LEMMA ShellProcess ==
  ASSUME Typed, Shelled, ProcessInv, Shell
  PROVE  ProcessInv'
<1>1. UNCHANGED <<size, redirects>>
  BY DEF Shell, CreateControlPipe, CreatePipe, CreateErrorPipe, Fork, AfterFork, ReadError, NextProcess, Release,
         ReadFirst, Fail
<1>2. CASE Fork
  <2> DEFINE new == [pc |-> "forked", done |-> 0, fds |-> fds, control |-> control_pipe,
                     error |-> error_pipe, pipe |-> pipefds, prev |-> prevfd]
  <2>1. pc = "fork" /\ (child' = [child EXCEPT ![k] = new] \/ child' = child)
    BY <1>2 DEF Fork
  <2>2. CASE child' = child
    BY <1>1, <2>2 DEF ProcessInv
  <2>3. CASE child' = [child EXCEPT ![k] = new]
    <3>1. Exact(fds, LiveNow)
      BY <2>1 DEF Shelled, ExactNow
    <3>2. /\ new \in ChildRecords /\ new.pc = "forked" /\ new.done = 0 /\ new.fds = fds
          /\ new.control = control_pipe /\ new.error = error_pipe /\ new.pipe = pipefds /\ new.prev = prevfd
      BY <3>1 DEF ChildRecords, ChildLabels, Exact, Typed
    <3> HIDE DEF new
    <3>3. Process(new, k, size, redirects[k])
      BY <2>1, <3>2, ForkProcess
    <3>4. k \in 1..size
      BY DEF Typed
    <3> QED BY <1>1, <2>3, <3>3, <3>4, OthersStay
  <2> QED BY <2>1, <2>2, <2>3
<1>3. CASE Fail
  <2>1. \A n \in 1..size : child'[n] = child[n] \/ child'[n].pc = "gone"
    BY <1>3, NoChildIs DEF Fail, Typed
  <2> QED BY <1>1, <2>1, GoneProcess DEF ProcessInv
<1>4. CASE ~Fork /\ ~Fail
  <2>1. child' = child
    BY <1>4 DEF Shell, CreateControlPipe, CreatePipe, CreateErrorPipe, AfterFork, ReadError, NextProcess, Release,
                ReadFirst
  <2> QED BY <1>1, <2>1 DEF ProcessInv
<1> QED BY <1>2, <1>3, <1>4

-----------------------------------------------------------------------------
(* Who runs before whom.                                                   *)
Order ==
  /\ \A n \in 1..size : n < k \/ (n = k /\ pc \in {"parent", "read_error", "next", "read_first", "started"})
       => child[n].pc # "none"
  /\ \A n \in 1..size : n > k \/ (n = k /\ pc \in {"control", "pipe", "error_pipe", "fork"})
       => child[n].pc = "none"
  /\ \A n \in 2..size : (n < k \/ (n = k /\ pc \in {"next", "read_first", "started"}))
                          /\ pc \notin {"failed", "not_started"} => child[n].pc = "exec"
  /\ \A n \in 1..size : child[n].pc = "gone" => n \in told \/ pc = "not_started"
  /\ \A n \in told : child[n].pc = "gone"
  /\ child[1].pc \in {"ready", "exec"} => \A n \in 2..size : child[n].pc = "exec"
  /\ pc = "failed" => child[1].pc \in {"none", "gone"}
                       \/ (control_pipe.w.fd \in High /\ fds[control_pipe.w.fd] = AtExec(ControlW))
  /\ pc = "started" => \A n \in 1..size : child[n].pc = "exec"
  /\ pc = "failed" => child[1].pc \notin {"ready", "exec"}
  /\ pc = "not_started" => child[1].pc \in {"none", "gone"}

(* Who still has the end on which the shell, or the leader, waits.         *)
LEMMA HeldBy ==
  ASSUME NEW fd \in High, NEW end, NEW table
  PROVE  table[fd] = AtExec(end) => Holds(table, end)
BY Kinds, Numbering DEF Holds

(* A read of the error pipe that ends with nothing means that the program runs.*)
LEMMA SilentRuns ==
  ASSUME Typed, ProcessInv, Order, NEW n \in 1..size, Silent(n), child[n].pc # "none", pc # "not_started"
  PROVE  child[n].pc = "exec"
<1>1. child[n].pc \notin Alive
  <2> SUFFICES ASSUME child[n].pc \in Alive PROVE FALSE
    OBVIOUS
  <2>1. Has(child[n], child[n].error.w, ErrorW(n))
    BY DEF ProcessInv, Process, Keeps
  <2>2. Holds(child[n].fds, ErrorW(n))
    BY <2>1, HeldBy DEF Has
  <2>3. n \in DOMAIN child
    BY DEF Typed
  <2> QED BY <2>2, <2>3 DEF Silent, Held, ErrorW
<1>2. child[n].pc # "gone"
  BY DEF Silent, Order
<1>3. child[n].pc \in ChildLabels
  BY DEF Typed, ChildRecords
<1> QED BY <1>1, <1>2, <1>3 DEF ChildLabels, Alive

(* When the leader is let go, all the others run.                          *)
LEMMA LeaderLetGo ==
  ASSUME Typed, Shelled, ProcessInv, Order, LeaderReads
  PROVE  pc # "failed" /\ \A n \in 2..size : child[n].pc = "exec"
<1>1. child[1].pc = "waiting" /\ 1 \in 1..size /\ size \in Nat /\ k \in 1..size
  BY LaunchAssumption DEF LeaderReads, Typed
<1>2. Has(child[1], child[1].control.r, ControlR)
  BY <1>1 DEF ProcessInv, Process, Keeps, Alive
<1>3. ~Held(ControlW)
  <2> DEFINE read == child[1].control.r.fd
  <2>1. child[1].fds[read] = AtExec(ControlR) /\ read \in 0..MAX_FD
    BY <1>2, Numbering DEF Has
  <2>2. AtExec(ControlR).end = <<"control", "r">> /\ AtExec(ControlR) # Closed
    BY Kinds, EndsDiffer DEF ControlR
  <2>3. IsOpen(child[1].fds, read) /\ child[1].fds[read].end = <<"control", "r">>
    BY <2>1, <2>2 DEF IsOpen
  <2> QED BY <2>3 DEF LeaderReads, ControlW
<1>4. \A fd \in High : fds[fd] # AtExec(ControlW)
  BY <1>3, HeldBy DEF Held
<1>5. pc # "failed"
  BY <1>1, <1>4 DEF Order
<1>6. pc \notin Feeding
  <2> SUFFICES ASSUME pc \in Feeding PROVE FALSE
    OBVIOUS
  <2>1. control_pipe.w \in LiveNow /\ control_pipe.w.of = ControlW
    BY DEF LiveNow, Shelled, Labelled
  <2>2. Exact(fds, LiveNow)
    BY DEF Shelled, ExactNow, Feeding, Before
  <2> QED BY <2>1, <2>2, <1>4 DEF Exact
<1>7. pc # "control"
  BY <1>1 DEF Order, Shelled, Placed
<1>8. pc # "not_started"
  BY <1>1 DEF Order
<1>9. pc \in {"read_first", "started"}
  BY <1>5, <1>6, <1>7, <1>8 DEF Typed, Labels, Feeding, Before
<1>10. k = size
  BY <1>9 DEF Shelled, Placed
<1>11. \A n \in 2..size : n < k \/ n = k
  BY <1>1, <1>10
<1> QED BY <1>5, <1>9, <1>11 DEF Order

(* A step of a process in short.                                           *)
LEMMA ChildStep ==
  ASSUME Typed, NEW n \in 1..size, Child(n)
  PROVE  /\ child[n].pc \in Alive
         /\ \A m \in 1..size : m # n => child'[m] = child[m]
         /\ \/ Fails(n)
            \/ /\ told' = told
               /\ child'[n].pc \in {"linked", "plumbed", "waiting", "ready", "exec"}
               /\ n = 1 /\ child'[n].pc = "ready" => LeaderReads
               /\ child'[n].pc = "exec" => child[n].pc = "ready"
<1>1. child \in [1..size -> ChildRecords] /\ child[n] \in ChildRecords
  BY DEF Typed
<1>2. ASSUME Fails(n), child[n].pc \in Alive
      PROVE  child[n].pc \in Alive /\ (\A m \in 1..size : m # n => child'[m] = child[m]) /\ Fails(n)
  BY <1>1, <1>2 DEF Fails
<1>3. ASSUME NEW label, NEW table, Becomes(n, label, table)
      PROVE  child'[n].pc = label /\ told' = told /\ \A m \in 1..size : m # n => child'[m] = child[m]
  BY <1>1, <1>3 DEF Becomes, ChildRecords
<1>4. CASE Link(n)
  BY <1>3, <1>4 DEF Link, Alive
<1>5. CASE Redirect(n)
  BY <1>1, <1>5 DEF Redirect, Alive, ChildRecords
<1>6. CASE Plumbed(n)
  BY <1>3, <1>6 DEF Plumbed, Alive
<1>7. CASE n = 1 /\ LeaderCloses
  BY <1>3, <1>7 DEF LeaderCloses, Alive
<1>8. CASE n = 1 /\ LeaderReads
  BY <1>3, <1>8 DEF LeaderReads, Alive
<1>9. CASE MemberCloses(n)
  BY <1>3, <1>9 DEF MemberCloses, Alive
<1>10. CASE Exec(n)
  BY <1>3, <1>10 DEF Exec, Alive
<1>11. CASE RedirectFails(n) \/ (n = 1 /\ LeaderFails) \/ ExecFails(n)
  BY <1>2, <1>11 DEF RedirectFails, LeaderFails, ExecFails, Alive
<1> QED BY <1>4, <1>5, <1>6, <1>7, <1>8, <1>9, <1>10, <1>11 DEF Child

(* A process that fails has written to its own error pipe.                 *)
LEMMA FailsTells ==
  ASSUME Typed, ProcessInv, NEW n \in 1..size, child[n].pc \in Alive, Fails(n)
  PROVE  child'[n].pc = "gone" /\ told' = told \cup {n}
<1>1. child'[n].pc = "gone"
  BY NoChildIs DEF Fails, Typed
<1>2. Has(child[n], child[n].error.w, ErrorW(n))
  BY DEF ProcessInv, Process, Keeps
<1> DEFINE w == child[n].error.w.fd
<1>3. child[n].fds[w].end = ErrorW(n) /\ IsOpen(child[n].fds, w)
  <2>1. child[n].fds[w] = AtExec(ErrorW(n)) /\ w \in 0..MAX_FD
    BY <1>2, Numbering DEF Has
  <2>2. AtExec(ErrorW(n)).end = ErrorW(n) /\ ErrorW(n) # <<>>
    BY Kinds DEF ErrorW
  <2>3. AtExec(ErrorW(n)) # Closed
    BY <2>2, Kinds
  <2> QED BY <2>1, <2>2, <2>3 DEF IsOpen
<1>4. \A m \in 1..size : ErrorW(n) = <<"error", m, "w">> <=> m = n
  BY DEF ErrorW
<1>5. {m \in 1..size : IsOpen(child[n].fds, w) /\ child[n].fds[w].end = <<"error", m, "w">>} = {n}
  BY <1>3, <1>4
<1> QED BY <1>1, <1>5 DEF Fails

(* Every step of a process keeps the order.                                *)
LEMMA ChildOrder ==
  ASSUME Typed, Shelled, ProcessInv, Order, NEW n \in 1..size, Child(n)
  PROVE  Order'
<1>1. UNCHANGED <<size, redirects, pc, k, fds, control_pipe, error_pipe, pipefds, prevfd, first_error_pipe_read>>
  BY ChildLeavesShell
<1>2. child[n].pc \in Alive /\ (\A m \in 1..size : m # n => child'[m] = child[m])
  BY ChildStep
<1>3. child[n].pc \notin {"none", "gone", "exec"} /\ 1 \in 1..size /\ size \in Nat
  BY <1>2, LaunchAssumption DEF Alive, Typed
<1>4. pc # "started" /\ (pc = "not_started" => n # 1)
  BY <1>3 DEF Order
<1>5. n \in 2..size => child[1].pc \notin {"ready", "exec"}
  BY <1>3 DEF Order
<1>6. CASE Fails(n)
  <2>1. child'[n].pc = "gone" /\ told' = told \cup {n}
    BY <1>2, <1>6, FailsTells
  <2>2. child'[1].pc \in {"ready", "exec"} => \A m \in 2..size : child'[m].pc = "exec"
    <3>1. CASE n = 1
      BY <2>1, <3>1
    <3>2. CASE n # 1
      <4>1. n \in 2..size /\ child'[1] = child[1]
        BY <1>2, <1>3, <3>2
      <4> QED BY <4>1, <1>5
    <3> QED BY <3>1, <3>2
  <2>3. \A m \in 2..size : m \in 1..size
    OBVIOUS
  <2>4. /\ \A m \in 1..size : m < k \/ (m = k /\ pc \in {"parent", "read_error", "next", "read_first", "started"})
             => child'[m].pc # "none"
        /\ \A m \in 1..size : m > k \/ (m = k /\ pc \in {"control", "pipe", "error_pipe", "fork"})
             => child'[m].pc = "none"
        /\ \A m \in 2..size : (m < k \/ (m = k /\ pc \in {"next", "read_first", "started"}))
                                /\ pc \notin {"failed", "not_started"} => child'[m].pc = "exec"
    BY <1>2, <1>3, <2>1, <2>3 DEF Order
  <2>5. /\ \A m \in 1..size : child'[m].pc = "gone" => m \in told' \/ pc = "not_started"
        /\ \A m \in told' : child'[m].pc = "gone"
    BY <1>2, <1>4, <2>1 DEF Order, Typed
  <2>6. pc = "failed" => child'[1].pc \in {"none", "gone"}
                       \/ (control_pipe.w.fd \in High /\ fds[control_pipe.w.fd] = AtExec(ControlW))
    BY <1>2, <1>3, <2>1 DEF Order
  <2>7. pc = "failed" => child'[1].pc \notin {"ready", "exec"}
    BY <1>2, <1>3, <2>1 DEF Order
  <2>8. pc = "not_started" => child'[1].pc \in {"none", "gone"}
    BY <1>2, <1>3, <1>4 DEF Order
  <2> QED BY <1>1, <1>4, <2>2, <2>4, <2>5, <2>6, <2>7, <2>8 DEF Order
<1>7. CASE ~Fails(n)
  <2>1. /\ told' = told
        /\ child'[n].pc \in {"linked", "plumbed", "waiting", "ready", "exec"}
        /\ n = 1 /\ child'[n].pc = "ready" => LeaderReads
        /\ child'[n].pc = "exec" => child[n].pc = "ready"
    BY <1>7, ChildStep
  <2>2. child'[1].pc \in {"ready", "exec"} => \A m \in 2..size : child'[m].pc = "exec"
    <3>1. CASE n = 1
      <4>1. child'[1].pc \in {"ready", "exec"} => \A m \in 2..size : child[m].pc = "exec"
        <5>1. LeaderReads => \A m \in 2..size : child[m].pc = "exec"
          BY LeaderLetGo
        <5>2. child[1].pc = "ready" => \A m \in 2..size : child[m].pc = "exec"
          BY DEF Order
        <5> QED BY <5>1, <5>2, <2>1, <3>1
      <4>2. \A m \in 2..size : m \in 1..size /\ m # n
        BY <3>1
      <4> QED BY <4>1, <4>2, <1>2
    <3>2. CASE n # 1
      <4>1. n \in 2..size /\ child'[1] = child[1]
        BY <1>2, <1>3, <3>2
      <4> QED BY <4>1, <1>5
    <3> QED BY <3>1, <3>2
  <2>3. \A m \in 2..size : m \in 1..size
    OBVIOUS
  <2>4. /\ \A m \in 1..size : m < k \/ (m = k /\ pc \in {"parent", "read_error", "next", "read_first", "started"})
             => child'[m].pc # "none"
        /\ \A m \in 1..size : m > k \/ (m = k /\ pc \in {"control", "pipe", "error_pipe", "fork"})
             => child'[m].pc = "none"
        /\ \A m \in 2..size : (m < k \/ (m = k /\ pc \in {"next", "read_first", "started"}))
                                /\ pc \notin {"failed", "not_started"} => child'[m].pc = "exec"
    BY <1>2, <1>3, <2>1, <2>3 DEF Order
  <2>5. /\ \A m \in 1..size : child'[m].pc = "gone" => m \in told \/ pc = "not_started"
        /\ \A m \in told : child'[m].pc = "gone"
    BY <1>2, <1>3, <1>4, <2>1 DEF Order, Typed
  <2>6. pc = "failed" => child'[1].pc \in {"none", "gone"}
                       \/ (control_pipe.w.fd \in High /\ fds[control_pipe.w.fd] = AtExec(ControlW))
    BY <1>2, <1>3, <2>1 DEF Order
  <2>7. pc = "failed" => child'[1].pc \notin {"ready", "exec"}
    <3> SUFFICES ASSUME pc = "failed" PROVE child'[1].pc \notin {"ready", "exec"}
      OBVIOUS
    <3>1. ~LeaderReads
      BY LeaderLetGo
    <3>2. child[1].pc \notin {"ready", "exec"}
      BY DEF Order
    <3>3. CASE n = 1
      BY <2>1, <3>1, <3>2, <3>3
    <3>4. CASE n # 1
      BY <1>2, <1>3, <3>2, <3>4
    <3> QED BY <3>3, <3>4
  <2>8. pc = "not_started" => child'[1].pc \in {"none", "gone"}
    BY <1>2, <1>3, <1>4 DEF Order
  <2> QED BY <1>1, <1>4, <2>1, <2>2, <2>4, <2>5, <2>6, <2>7, <2>8 DEF Order
<1> QED BY <1>6, <1>7

(* And every step of the shell does.                                       *)
LEMMA ShellOrder ==
  ASSUME Typed, Shelled, ProcessInv, Order, Shell
  PROVE  Order'
<1>1. /\ child \in [1..size -> ChildRecords] /\ size \in Nat /\ k \in 1..size /\ 1 \in 1..size /\ k \in Nat
      /\ told \subseteq 1..size
  BY LaunchAssumption DEF Typed
<1>2. /\ pc = "control" => k = 1
      /\ pc = "pipe" => k < size
      /\ pc = "read_error" => k > 1
      /\ pc \in {"read_first", "started"} => k = size
  BY DEF Shelled, Placed
<1>3. pc \in Feeding => control_pipe.w.fd \in High /\ fds[control_pipe.w.fd] = AtExec(ControlW)
  <2> SUFFICES ASSUME pc \in Feeding
               PROVE  control_pipe.w.fd \in High /\ fds[control_pipe.w.fd] = AtExec(ControlW)
    OBVIOUS
  <2>1. control_pipe.w \in LiveNow /\ control_pipe.w.of = ControlW
    BY DEF LiveNow, Shelled, Labelled
  <2>2. Exact(fds, LiveNow)
    BY DEF Shelled, ExactNow, Feeding, Before
  <2> QED BY <2>1, <2>2 DEF Exact
<1>4. CASE CreateControlPipe
  <2>1. pc = "control" /\ pc' \in {"pipe", "error_pipe", "not_started"} /\ UNCHANGED <<size, k, child, told>>
    BY <1>4 DEF CreateControlPipe, Goto
  <2> QED BY <1>1, <1>2, <2>1 DEF Order
<1>5. CASE CreatePipe \/ CreateErrorPipe \/ (Fork /\ pc' = "failed")
  <2>1. /\ pc \in {"pipe", "error_pipe", "fork"} /\ pc' \in {"error_pipe", "fork", "failed"}
        /\ UNCHANGED <<size, k, child, told, control_pipe>>
    BY <1>5 DEF CreatePipe, CreateErrorPipe, Fork, Goto
  <2>2. pc' = "failed" => fds' = fds
    BY <1>5 DEF CreatePipe, CreateErrorPipe, Fork, Goto
  <2>3. child[1].pc \notin {"ready", "exec"}
    <3>1. child[k].pc = "none"
      BY <1>1, <2>1 DEF Order
    <3>2. k = 1 \/ k \in 2..size
      BY <1>1
    <3> QED BY <3>1, <3>2 DEF Order
  <2> QED BY <1>1, <1>2, <1>3, <2>1, <2>2, <2>3 DEF Order, Feeding, Before
<1>6. CASE Fork /\ pc' # "failed"
  <2> DEFINE new == [pc |-> "forked", done |-> 0, fds |-> fds, control |-> control_pipe,
                     error |-> error_pipe, pipe |-> pipefds, prev |-> prevfd]
  <2>1. /\ pc = "fork" /\ pc' = "parent" /\ UNCHANGED <<size, k, told>>
        /\ child' = [child EXCEPT ![k] = new]
    BY <1>6 DEF Fork, Goto
  <2>2. new.pc = "forked"
    OBVIOUS
  <2> HIDE DEF new
  <2>3. child[k].pc = "none"
    BY <1>1, <2>1 DEF Order
  <2>4. child'[k].pc = "forked" /\ \A n \in 1..size : n # k => child'[n] = child[n]
    BY <1>1, <2>1, <2>2
  <2>5. k \notin told
    BY <2>3 DEF Order
  <2>6. child'[1].pc \notin {"ready", "exec"}
    <3>1. CASE k = 1
      BY <2>4, <3>1
    <3>2. CASE k # 1
      <4>1. k \in 2..size /\ child'[1] = child[1]
        BY <1>1, <2>4, <3>2
      <4> QED BY <4>1, <2>3 DEF Order
    <3> QED BY <3>1, <3>2
  <2>7. \A n \in 2..size : n \in 1..size
    OBVIOUS
  <2> QED BY <1>1, <2>1, <2>3, <2>4, <2>5, <2>6, <2>7 DEF Order
<1>7. CASE AfterFork
  <2>1. /\ pc = "parent" /\ pc' = IF k = 1 THEN "next" ELSE "read_error"
        /\ UNCHANGED <<size, k, child, told>>
    BY <1>7 DEF AfterFork, Goto
  <2> QED BY <1>1, <2>1 DEF Order
<1>8. CASE ReadError
  <2>1. pc = "read_error" /\ UNCHANGED <<size, k, child, told, control_pipe>>
    BY <1>8 DEF ReadError
  <2>2. CASE pc' = "failed"
    <3>1. fds' = fds /\ k \in told
      BY <1>8, <2>2 DEF ReadError, Goto, Heard
    <3>2. child[1].pc \notin {"ready", "exec"}
      <4>1. child[k].pc = "gone" /\ k \in 2..size
        BY <1>1, <1>2, <2>1, <3>1 DEF Order
      <4> QED BY <4>1 DEF Order
    <3> QED BY <1>1, <1>3, <2>1, <2>2, <3>1, <3>2 DEF Order, Feeding
  <2>3. CASE pc' # "failed"
    <3>1. pc' = "next" /\ Silent(k)
      BY <1>8, <2>3 DEF ReadError, Goto
    <3>2. child[k].pc = "exec"
      BY <1>1, <2>1, <3>1, SilentRuns DEF Order
    <3> QED BY <1>1, <2>1, <3>1, <3>2 DEF Order
  <2> QED BY <2>2, <2>3
<1>9. CASE NextProcess
  <2>1. pc = "next" /\ k < size /\ k' = k + 1 /\ pc' \in {"error_pipe", "pipe"} /\ UNCHANGED <<size, child, told>>
    BY <1>9 DEF NextProcess, Goto
  <2>2. \A n \in 1..size : (n < k' <=> n < k \/ n = k) /\ (n > k' \/ n = k' => n > k)
    BY <1>1, <2>1
  <2>3. \A n \in 2..size : n \in 1..size
    OBVIOUS
  <2> QED BY <1>1, <2>1, <2>2, <2>3 DEF Order
<1>10. CASE Release
  <2>1. pc = "next" /\ pc' = "read_first" /\ UNCHANGED <<size, k, child, told>>
    BY <1>10 DEF Release, Goto
  <2> QED BY <1>1, <2>1 DEF Order
<1>11. CASE ReadFirst
  <2>1. pc = "read_first" /\ k = size /\ UNCHANGED <<size, k, child, told, control_pipe>>
    BY <1>2, <1>11 DEF ReadFirst
  <2>2. CASE pc' = "failed"
    <3>1. 1 \in told
      BY <1>11, <2>2 DEF ReadFirst, Goto, Heard
    <3>2. child[1].pc = "gone"
      BY <3>1 DEF Order
    <3> QED BY <1>1, <2>1, <2>2, <3>2 DEF Order
  <2>3. CASE pc' # "failed"
    <3>1. pc' = "started" /\ Silent(1)
      BY <1>11, <2>3 DEF ReadFirst, Goto
    <3>2. child[1].pc # "none"
      BY <1>1, <2>1 DEF Order
    <3>3. child[1].pc = "exec"
      BY <1>1, <2>1, <3>1, <3>2, SilentRuns
    <3>4. \A n \in 2..size : child[n].pc = "exec"
      BY <3>3 DEF Order
    <3>5. \A n \in 1..size : child[n].pc = "exec"
      <4>1. \A n \in 1..size : n = 1 \/ n \in 2..size
        BY <1>1
      <4> QED BY <4>1, <3>3, <3>4
    <3>6. \A n \in told : FALSE
      BY <3>5, <1>1 DEF Order
    <3> QED BY <1>1, <2>1, <3>1, <3>5, <3>6 DEF Order
  <2> QED BY <2>2, <2>3
<1>12. CASE Fail
  <2> DEFINE gone == [NoChild EXCEPT !.pc = "gone"]
  <2>1. gone.pc = "gone"
    BY NoChildIs
  <2>2. /\ pc = "failed" /\ pc' = "not_started" /\ UNCHANGED <<size, k, told>>
        /\ \E spared \in SUBSET Spared :
             child' = [n \in 1..size |-> IF n \in spared \/ child[n].pc = "none" THEN child[n] ELSE gone]
    BY <1>1, <1>12 DEF Fail, Goto
  <2>3. PICK spared \in SUBSET Spared :
             child' = [n \in 1..size |-> IF n \in spared \/ child[n].pc = "none" THEN child[n] ELSE gone]
    BY <2>2
  <2> HIDE DEF gone
  <2>4. \A n \in 1..size : \/ child'[n] = child[n]
                           \/ child'[n].pc = "gone" /\ child[n].pc # "none"
    BY <2>1, <2>3
  <2>5. \A n \in told : n \in 1..size /\ child'[n].pc = "gone"
    BY <1>1, <2>4 DEF Order
  <2>6. child'[1].pc \in {"none", "gone"}
    <3>1. child[1].pc # "exec"
      BY <2>2 DEF Order
    <3>2. 1 \notin spared \/ child[1].pc = "gone"
      BY <2>3, <3>1 DEF Spared
    <3> QED BY <1>1, <2>1, <2>3, <3>2
  <2> QED BY <1>1, <2>2, <2>4, <2>5, <2>6 DEF Order
<1> QED BY <1>4, <1>5, <1>6, <1>7, <1>8, <1>9, <1>10, <1>11, <1>12 DEF Shell

-----------------------------------------------------------------------------
RunningInv == LaunchInv /\ ProcessInv /\ Order

(* Nobody is forked.                                                       *)
LEMMA InitRunning == Init => RunningInv
<1> SUFFICES ASSUME Init PROVE RunningInv
  OBVIOUS
<1>1. LaunchInv
  BY InitLaunch
<1>2. \A n \in 1..size : child[n].pc = "none"
  BY NoChildIs DEF Init
<1>3. ProcessInv
  BY <1>2, GoneProcess DEF ProcessInv
<1>4. 1 \in 1..size /\ pc = "control" /\ k = 1 /\ told = {} /\ size \in Nat
  BY LaunchAssumption DEF Init
<1>5. \A n \in 1..size : ~(n < 1)
  OBVIOUS
<1>6. \A n \in 2..size : ~(n < 1)
  OBVIOUS
<1>7. Order
  BY <1>2, <1>4, <1>5, <1>6 DEF Order
<1> QED BY <1>1, <1>3, <1>7 DEF RunningInv

(* Every step keeps the invariant of the processes.                        *)
LEMMA NextRunning == StandardRedirects /\ RunningInv /\ [Next]_vars => RunningInv'
<1> SUFFICES ASSUME StandardRedirects, RunningInv, [Next]_vars PROVE RunningInv'
  OBVIOUS
<1>1. LaunchInv'
  BY NextLaunch DEF RunningInv
<1> USE DEF RunningInv, LaunchInv
<1>2. CASE Shell
  BY <1>1, <1>2, ShellProcess, ShellOrder
<1>3. ASSUME NEW n \in 1..size, Child(n) PROVE RunningInv'
  BY <1>1, <1>3, ChildProcess, ChildOrder
<1>4. CASE UNCHANGED vars
  BY <1>1, <1>4 DEF vars, shell, ProcessInv, Order
<1> QED BY <1>2, <1>3, <1>4 DEF Next, Children

(* What every process of a launch holds, and who runs, was told of or is gone,*)
(* as long as the redirects name 0, 1 and 2: do_redirects on a higher number*)
(* can close an end of the control pipe or of the error pipe.              *)
THEOREM RunningInvariant == StandardRedirects => (Spec => []RunningInv)
<1> SUFFICES ASSUME StandardRedirects PROVE Spec => []RunningInv
  OBVIOUS
<1>1. RunningInv /\ [Next]_vars => RunningInv'
  BY NextRunning
<1> QED BY InitRunning, <1>1, PTL DEF Spec

(* The order says who runs.                                                *)
LEMMA InvLeader == RunningInv => LeaderLast
<1> SUFFICES ASSUME RunningInv PROVE LeaderLast
  OBVIOUS
<1>1. size \in Nat /\ 1 \in 1..size /\ \A n \in 1..size : n = 1 \/ n \in 2..size
  BY LaunchAssumption DEF RunningInv, LaunchInv, Typed
<1> QED BY <1>1 DEF RunningInv, Order, LeaderLast

(* The read on the control pipe in execute_in_child holds the leader back until*)
(* every other program runs, and the shell reports a start only when all do.*)
THEOREM LeaderRunsLast == StandardRedirects => (Spec => []LeaderLast)
BY RunningInvariant, InvLeader, PTL

(* What a process holds at exec is what its program gets.                  *)
LEMMA InvPlumbing == RunningInv => Plumbing
<1> SUFFICES ASSUME RunningInv, NEW n \in 1..size, child[n].pc = "exec", NEW fd \in 0..MAX_FD
             PROVE  child[n].fds[fd].end = IF fd <= STDERR_FILENO
                                           THEN Standing(n, size, redirects[n])[Len(redirects[n])][fd]
                                           ELSE <<>>
  BY DEF Plumbing
<1> DEFINE list == redirects[n]
           c == child[n]
           now == Standing(n, size, list)[Len(list)]
<1>1. Stands(c, n, size, list) /\ c.pc = "exec"
  BY DEF RunningInv, ProcessInv, Process
<1> HIDE DEF c
<1>2. /\ \A f \in High : c.fds[f] = Closed
      /\ \A f \in 0..2 : c.fds[f] = AtKept(now[f])
  BY <1>1 DEF Stands
<1> HIDE DEF now
<1>3. CASE fd <= 2
  <2>1. c.fds[fd] = AtKept(now[fd])
    BY <1>2, <1>3
  <2>2. c.fds[fd].end = now[fd]
    BY <2>1, Kinds
  <2> QED BY <1>3, <2>2 DEF STDERR_FILENO, c, now
<1>4. CASE ~(fd <= 2)
  <2>1. c.fds[fd] = Closed
    BY <1>2, <1>4 DEF High
  <2> QED BY <1>4, <2>1, Kinds DEF STDERR_FILENO, c
<1> QED BY <1>3, <1>4

(* A program starts with what its place in the pipeline and its redirects, *)
(* taken from left to right, make of 0, 1 and 2, and with nothing else     *)
(* open: link_pipes, do_redirects, the closes after them and exec, for     *)
(* every length of a pipeline and every list of redirects of 0, 1 and 2,   *)
(* copies and what they close included.                                    *)
THEOREM ProgramsArePlumbed == StandardRedirects => (Spec => []Plumbing)
BY RunningInvariant, InvPlumbing, PTL
=============================================================================
