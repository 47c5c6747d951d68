-------------------------- MODULE JobControlProofs --------------------------
(***************************************************************************)
(* Proofs about JobControl, for any set of jobs and any length of          *)
(* pipeline.  The invariants of the runs are not inductive: each of them   *)
(* depends on who may touch a job when.  IInv says it: what the main       *)
(* thread has in hand is in no list, the handler is never on top of a      *)
(* main thread that blocks SIGCHLD, and a leader on its way to exec exists *)
(* only under start_job_internal.  WaitInv, the second part, adds what is  *)
(* known of the job in hand: whose the terminal is, whether its flags show *)
(* its stops, and what wait_for_fg_job has counted.                        *)
(* LifeInv, the third, is about leaders; with it every step is a step of   *)
(* JobLifecycle, or none.                                                  *)
(***************************************************************************)
EXTENDS JobControl, SequenceTheorems, FiniteSetTheorems, TLAPS

-----------------------------------------------------------------------------
(* What the list operations of src/lsh/utility.h and job.c do to the set   *)
(* of elements and to its freedom from duplicates.  What follows cites     *)
(* these facts and never looks into a sequence again.                      *)

(* Membership, seen as a set and as a search.                              *)
LEMMA ContainsToSet ==
    ASSUME NEW S, NEW s \in Seq(S), NEW e
    PROVE  /\ Contains(s, e) <=> e \in ToSet(s)
           /\ ToSet(s) \subseteq S
           /\ \A i \in 1 .. Len(s) : s[i] \in ToSet(s)
BY LenProperties DEF Contains, ToSet

(* The empty list.                                                         *)
LEMMA EmptyList ==
    /\ ToSet(<<>>) = {}
    /\ IsInjective(<<>>)
    /\ \A S : <<>> \in Seq(S)
BY DEF ToSet, IsInjective

(* job_handle_add_last.                                                    *)
LEMMA AppendToSet ==
    ASSUME NEW S, NEW s \in Seq(S), NEW e \in S
    PROVE  /\ Append(s, e) \in Seq(S)
           /\ ToSet(Append(s, e)) = ToSet(s) \union {e}
           /\ IsInjective(s) /\ e \notin ToSet(s) => IsInjective(Append(s, e))
<1> DEFINE a == Append(s, e)
<1>1. /\ a \in Seq(S)
      /\ Len(a) = Len(s) + 1
      /\ \A i \in 1 .. Len(s) : a[i] = s[i]
      /\ a[Len(s) + 1] = e
  BY AppendProperties
<1>2. DOMAIN a = 1 .. Len(s) + 1 /\ DOMAIN s = 1 .. Len(s) /\ Len(s) \in Nat
  BY <1>1, LenProperties
<1>3. ToSet(a) = ToSet(s) \union {e}
  <2> HIDE DEF a
  <2>1. \A x : x \in ToSet(a) => x \in ToSet(s) \union {e}
    BY <1>1, <1>2 DEF ToSet
  <2>2. \A x : x \in ToSet(s) \union {e} => x \in ToSet(a)
    <3>1. Len(s) + 1 \in DOMAIN a
      BY <1>2
    <3>2. \A i \in DOMAIN s : i \in DOMAIN a /\ a[i] = s[i]
      BY <1>1, <1>2
    <3> QED BY <1>1, <3>1, <3>2 DEF ToSet
  <2> QED BY <2>1, <2>2
<1>4. IsInjective(s) /\ e \notin ToSet(s) => IsInjective(a)
  <2> HIDE DEF a
  <2> QED BY <1>1, <1>2 DEF ToSet, IsInjective
<1> QED BY <1>1, <1>3, <1>4

(* job_handle_add_first.                                                   *)
LEMMA ConsToSet ==
    ASSUME NEW S, NEW s \in Seq(S), NEW e \in S
    PROVE  /\ Cons(e, s) \in Seq(S)
           /\ ToSet(Cons(e, s)) = ToSet(s) \union {e}
           /\ IsInjective(s) /\ e \notin ToSet(s) => IsInjective(Cons(e, s))
<1> DEFINE c == Cons(e, s)
<1>0. <<e>> \in Seq(S) /\ Len(<<e>>) = 1 /\ <<e>>[1] = e
  OBVIOUS
<1>1. /\ c \in Seq(S)
      /\ Len(c) = Len(s) + 1
      /\ \A i \in 1 .. 1 + Len(s) : c[i] = IF i <= 1 THEN <<e>>[i] ELSE s[i - 1]
  <2>1. /\ <<e>> \o s \in Seq(S)
        /\ Len(<<e>> \o s) = Len(<<e>>) + Len(s)
        /\ \A i \in 1 .. Len(<<e>>) + Len(s) :
             (<<e>> \o s)[i] = IF i <= Len(<<e>>) THEN <<e>>[i] ELSE s[i - Len(<<e>>)]
    BY <1>0, ConcatProperties
  <2> QED BY <1>0, <2>1, LenProperties DEF Cons
<1>2. DOMAIN c = 1 .. Len(s) + 1 /\ DOMAIN s = 1 .. Len(s) /\ Len(s) \in Nat
  BY <1>1, LenProperties
<1> HIDE DEF c
<1>3. c[1] = e /\ (\A i \in DOMAIN s : i + 1 \in DOMAIN c /\ c[i + 1] = s[i])
  BY <1>0, <1>1, <1>2
<1>4. \A i \in DOMAIN c : i = 1 \/ (i - 1 \in DOMAIN s /\ c[i] = s[i - 1])
  BY <1>1, <1>2
<1>5. ToSet(c) = ToSet(s) \union {e}
  <2>1. \A x : x \in ToSet(c) => x \in ToSet(s) \union {e}
    BY <1>3, <1>4 DEF ToSet
  <2>2. \A x : x \in ToSet(s) \union {e} => x \in ToSet(c)
    <3>1. 1 \in DOMAIN c
      BY <1>2
    <3> QED BY <3>1, <1>3 DEF ToSet
  <2> QED BY <2>1, <2>2
<1>6. IsInjective(s) /\ e \notin ToSet(s) => IsInjective(c)
  BY <1>2, <1>3, <1>4 DEF ToSet, IsInjective
<1> QED BY <1>1, <1>5, <1>6 DEF c

(* remove_job_handle(&list, 0): the first element is taken.                *)
LEMMA TailToSet ==
    ASSUME NEW S, NEW s \in Seq(S), s # <<>>
    PROVE  /\ Head(s) \in S
           /\ Head(s) \in ToSet(s)
           /\ Tail(s) \in Seq(S)
           /\ ToSet(Tail(s)) \subseteq ToSet(s)
           /\ IsInjective(s) => /\ IsInjective(Tail(s))
                                /\ Head(s) \notin ToSet(Tail(s))
<1> DEFINE t == Tail(s)
<1>1. /\ Head(s) \in S
      /\ t \in Seq(S)
      /\ Len(t) = Len(s) - 1
      /\ \A i \in 1 .. Len(t) : t[i] = s[i + 1]
  BY HeadTailProperties
<1>2. DOMAIN t = 1 .. Len(s) - 1 /\ DOMAIN s = 1 .. Len(s) /\ Len(s) \in Nat
  BY <1>1, LenProperties
<1>3. Len(s) > 0 /\ Head(s) = s[1]
  BY <1>2, EmptySeq
<1> HIDE DEF t
<1>4. 1 \in DOMAIN s /\ \A i \in DOMAIN t : i + 1 \in DOMAIN s /\ t[i] = s[i + 1] /\ i + 1 # 1
  BY <1>1, <1>2, <1>3
<1>5. Head(s) \in ToSet(s) /\ ToSet(t) \subseteq ToSet(s)
  BY <1>3, <1>4 DEF ToSet
<1>6. IsInjective(s) => IsInjective(t)
  <2> SUFFICES ASSUME IsInjective(s), NEW a \in DOMAIN t, NEW b \in DOMAIN t, t[a] = t[b]
               PROVE  a = b
    BY DEF IsInjective
  <2>1. a + 1 = b + 1
    BY <1>4 DEF IsInjective
  <2> QED BY <2>1, <1>2
<1>7. IsInjective(s) => Head(s) \notin ToSet(t)
  BY <1>3, <1>4 DEF ToSet, IsInjective
<1> QED BY <1>1, <1>5, <1>6, <1>7 DEF t

(* Nothing else is lost by it.                                             *)
LEMMA TailKeeps ==
    ASSUME NEW S, NEW s \in Seq(S), s # <<>>
    PROVE  ToSet(s) = ToSet(Tail(s)) \union {Head(s)}
<1> DEFINE t == Tail(s)
<1>1. /\ t \in Seq(S)
      /\ Len(t) = Len(s) - 1
      /\ \A i \in 1 .. Len(t) : t[i] = s[i + 1]
  BY HeadTailProperties
<1>2. DOMAIN t = 1 .. Len(s) - 1 /\ DOMAIN s = 1 .. Len(s) /\ Len(s) \in Nat
  BY <1>1, LenProperties
<1>3. Len(s) > 0 /\ Head(s) = s[1]
  BY <1>2, EmptySeq
<1> HIDE DEF t
<1>4. \A i \in DOMAIN s : i = 1 \/ (i - 1 \in DOMAIN t /\ t[i - 1] = s[i])
  BY <1>1, <1>2
<1>5. ToSet(s) \subseteq ToSet(t) \union {Head(s)}
  BY <1>3, <1>4 DEF ToSet
<1> QED BY <1>5, TailToSet DEF t

(* remove_job_handle(&list, pgid): one element is taken out of the middle. *)
LEMMA RemoveAtToSet ==
    ASSUME NEW S, NEW s \in Seq(S), NEW i \in 1 .. Len(s)
    PROVE  /\ RemoveAt(s, i) \in Seq(S)
           /\ ToSet(RemoveAt(s, i)) \subseteq ToSet(s)
           /\ IsInjective(s) => /\ IsInjective(RemoveAt(s, i))
                                /\ ToSet(RemoveAt(s, i)) = ToSet(s) \ {s[i]}
<1> DEFINE l == SubSeq(s, 1, i - 1)
           r == SubSeq(s, i + 1, Len(s))
           t == RemoveAt(s, i)
<1>0. Len(s) \in Nat /\ DOMAIN s = 1 .. Len(s) /\ \A k \in 1 .. Len(s) : s[k] \in S
  BY LenProperties
<1>1. l \in Seq(S) /\ Len(l) = i - 1 /\ \A k \in 1 .. i - 1 : l[k] = s[k]
  <2>1. \A k \in 1 .. i - 1 : s[k] \in S
    BY <1>0
  <2> HIDE DEF l
  <2>2. /\ l \in Seq(S)
        /\ Len(l) = IF 1 <= i - 1 THEN i - 1 - 1 + 1 ELSE 0
        /\ \A k \in 1 .. i - 1 - 1 + 1 : l[k] = s[1 + k - 1]
    BY <1>0, <2>1, SubSeqProperties DEF l
  <2> QED BY <2>2
<1>2. r \in Seq(S) /\ Len(r) = Len(s) - i /\ \A k \in 1 .. Len(s) - i : r[k] = s[i + k]
  <2>1. \A k \in i + 1 .. Len(s) : s[k] \in S
    BY <1>0
  <2> HIDE DEF r
  <2>2. /\ r \in Seq(S)
        /\ Len(r) = IF i + 1 <= Len(s) THEN Len(s) - (i + 1) + 1 ELSE 0
        /\ \A k \in 1 .. Len(s) - (i + 1) + 1 : r[k] = s[i + 1 + k - 1]
    BY <1>0, <2>1, SubSeqProperties DEF r
  <2>3. Len(r) = Len(s) - i
    <3>1. i \in Nat /\ i <= Len(s) /\ Len(s) \in Nat
      BY <1>0
    <3>2. CASE i + 1 <= Len(s)
      <4>1. Len(r) = Len(s) - (i + 1) + 1
        BY <2>2, <3>2
      <4> QED BY <3>1, <4>1
    <3>3. CASE ~(i + 1 <= Len(s))
      <4>1. Len(r) = 0
        BY <2>2, <3>3
      <4> QED BY <3>1, <3>3, <4>1
    <3> QED BY <3>2, <3>3
  <2>4. ASSUME NEW k \in 1 .. Len(s) - i PROVE r[k] = s[i + k]
    <3>1. k \in 1 .. Len(s) - (i + 1) + 1 /\ i + 1 + k - 1 = i + k
      BY <1>0
    <3> QED BY <2>2, <3>1
  <2> QED BY <2>2, <2>3, <2>4
<1> HIDE DEF l, r
<1>3. /\ t \in Seq(S)
      /\ Len(t) = Len(l) + Len(r)
      /\ \A k \in 1 .. Len(l) + Len(r) : t[k] = IF k <= Len(l) THEN l[k] ELSE r[k - Len(l)]
  BY <1>1, <1>2, ConcatProperties DEF l, r, RemoveAt
<1> HIDE DEF t
<1>4. DOMAIN t = 1 .. Len(s) - 1
  BY <1>0, <1>1, <1>2, <1>3, LenProperties
<1>5. \A k \in DOMAIN t : t[k] = IF k < i THEN s[k] ELSE s[k + 1]
  <2> SUFFICES ASSUME NEW k \in DOMAIN t PROVE t[k] = IF k < i THEN s[k] ELSE s[k + 1]
    OBVIOUS
  <2>1. k \in 1 .. Len(l) + Len(r) /\ k \in Int /\ i \in Int
    BY <1>0, <1>1, <1>2, <1>4
  <2>2. CASE k < i
    <3>1. k <= Len(l) /\ k \in 1 .. i - 1
      BY <2>1, <2>2, <1>1
    <3> QED BY <2>1, <2>2, <3>1, <1>1, <1>3
  <2>3. CASE k >= i
    <3>1. ~(k <= Len(l)) /\ k - Len(l) \in 1 .. Len(s) - i /\ i + (k - Len(l)) = k + 1
      BY <2>1, <2>3, <1>0, <1>1, <1>4
    <3>2. t[k] = r[k - Len(l)]
      BY <2>1, <3>1, <1>3
    <3>3. r[k - Len(l)] = s[i + (k - Len(l))]
      BY <3>1, <1>2
    <3> QED BY <3>1, <3>2, <3>3, <2>1, <2>3
  <2> QED BY <2>1, <2>2, <2>3
<1>6. ToSet(t) \subseteq ToSet(s)
  <2>1. \A k \in DOMAIN t : k \in DOMAIN s /\ k + 1 \in DOMAIN s
    BY <1>0, <1>4
  <2> QED BY <2>1, <1>5 DEF ToSet
<1>7. ASSUME IsInjective(s) PROVE IsInjective(t) /\ ToSet(t) = ToSet(s) \ {s[i]}
  <2>1. \A a, b \in DOMAIN t : t[a] = t[b] => a = b
    <3> SUFFICES ASSUME NEW a \in DOMAIN t, NEW b \in DOMAIN t, t[a] = t[b]
                 PROVE  a = b
      OBVIOUS
    <3>1. a \in DOMAIN s /\ a + 1 \in DOMAIN s /\ b \in DOMAIN s /\ b + 1 \in DOMAIN s
      BY <1>0, <1>4
    <3>2. (IF a < i THEN a ELSE a + 1) = (IF b < i THEN b ELSE b + 1)
      BY <1>5, <1>7, <3>1 DEF IsInjective
    <3> QED BY <3>2, <1>0, <1>4
  <2>2. s[i] \notin ToSet(t)
    <3> SUFFICES ASSUME NEW k \in DOMAIN t, t[k] = s[i] PROVE FALSE
      BY DEF ToSet
    <3>1. k \in DOMAIN s /\ k + 1 \in DOMAIN s /\ i \in DOMAIN s
      BY <1>0, <1>4
    <3>2. (IF k < i THEN k ELSE k + 1) = i
      BY <1>5, <1>7, <3>1 DEF IsInjective
    <3> QED BY <3>2, <1>0, <1>4
  <2>3. \A k \in DOMAIN s : k # i => s[k] \in ToSet(t)
    <3> SUFFICES ASSUME NEW k \in DOMAIN s, k # i PROVE s[k] \in ToSet(t)
      OBVIOUS
    <3>1. CASE k < i
      <4>1. k \in DOMAIN t /\ t[k] = s[k]
        BY <3>1, <1>0, <1>4, <1>5
      <4> QED BY <4>1 DEF ToSet
    <3>2. CASE k > i
      <4>1. k - 1 \in DOMAIN t /\ t[k - 1] = s[k]
        BY <3>2, <1>0, <1>4, <1>5
      <4> QED BY <4>1 DEF ToSet
    <3> QED BY <3>1, <3>2, <1>0
  <2>4. \A x \in ToSet(s) \ {s[i]} : x \in ToSet(t)
    BY <2>3 DEF ToSet
  <2> QED BY <2>1, <2>2, <2>4, <1>6 DEF IsInjective
<1> QED BY <1>3, <1>6, <1>7 DEF t

-----------------------------------------------------------------------------
(* The parts of the inductive invariant.                                   *)

(* The main thread has a job wherever it uses one, and cleanup is where    *)
(* it is after leaving its loop.                                           *)
MainConsistent ==
    /\ pc \in Forking \union InHand \union Running \union Looking \union {"bg_pending"}
           => cur \in Jobs /\ leaving = "no"
    /\ pc \in Leaving => leaving # "no"
    /\ leaving # "no" => pc \in Leaving \union {"print_pending", "print_removed", "exited"}

(* The handler runs only on top of a main thread that does not block it.   *)
HandlerConsistent ==
    /\ h # "idle" => Up /\ ~ChldBlocked

(* Jobs are freed only when the list of announcements is empty.            *)
AnnouncedFirst ==
    pc \in {"print_removed", "read_line"} \/ leaving = "exit" => pending_jobs = <<>>

(* No process exists before its command line or beyond its end.            *)
ForkedOnlyPipeline ==
    \A p \in Procs : proc[p] # "none" => job[p[1]].mem # "unused"
                                         /\ p[2] <= job[p[1]].pipeline

(* The loop of start_job_internal.                                         *)
LoopConsistent ==
    /\ pc \in Forking => job[cur].size = job[cur].pipeline /\ job[cur].pipeline > 0
    /\ pc = "fork" => nth <= job[cur].pipeline + 1
    /\ pc = "read_error" => /\ nth \in 2 .. job[cur].pipeline
                            /\ proc[<<cur, nth>>] # "none"
    /\ pc = "read_first" => nth > job[cur].pipeline

(* The processes the loop has passed got as far as exec.                   *)
PassedStarted ==
    pc \in {"fork", "read_error", "read_first"} =>
        \A p \in Procs : p[1] = cur /\ 2 <= p[2] /\ p[2] < nth
                         => p \notin errs /\ proc[p] \notin {"none"} \union Starting

(* A leader before its exec is in its group, and under the main thread's   *)
(* eyes unless the shell crashed.                                          *)
LeaderInSight ==
    \A j \in Jobs : proc[Leader(j)] \in Starting =>
        /\ Leader(j) \in grouped
        /\ (pc \in Forking /\ cur = j) \/ pc = "crashed"

(* While the control pipe is open the leader does not run.                 *)
LeaderKept ==
    pc \in {"fork", "read_error"} => proc[Leader(cur)] \notin {"run"} \union Halted

(* The terminal is the shell's from the prompt to the next job it starts   *)
(* or takes to the foreground.                                             *)
TerminalKept ==
    /\ pc \in AtPrompt \union Looking
             \union {"fg_terminal", "bg_cont", "bg_current", "bg_pending"}
    /\ leaving = "no"
    => tty = Shell

IInv ==
    /\ TypeOK
    /\ MainConsistent /\ HandlerConsistent
    /\ OneOwner /\ NoDangling /\ AnnouncedFirst
    /\ ForkedOnlyPipeline /\ LoopConsistent
    /\ SizeCovers /\ DoneHasNoLeader
    /\ PassedStarted /\ LeaderInSight /\ LeaderKept
    /\ TerminalKept /\ AllOrNothing

-----------------------------------------------------------------------------
(* The initial state.                                                      *)
LEMMA InitIInv == Init => IInv
<1> SUFFICES ASSUME Init PROVE IInv
  OBVIOUS
<1>1. TypeOK
  <2>1. KernelTypeOK
    BY DEF Init, KernelInit, KernelTypeOK, ProcStates
  <2>2. job \in [Jobs -> JobRecords]
    BY MaxPipeAssumption DEF Init, JobRecords
  <2>3. /\ pc \in Labels /\ nth \in 1 .. MaxPipe + 1
        /\ wait \in [count : Nat, falling : BOOLEAN, stopped : BOOLEAN]
    BY MaxPipeAssumption DEF Init, Labels, AtPrompt, NoWait
  <2> QED BY <2>1, <2>2, <2>3, EmptyList DEF Init, TypeOK
<1>2. MainConsistent /\ HandlerConsistent /\ AnnouncedFirst
  BY DEF Init, MainConsistent, HandlerConsistent, AnnouncedFirst, Forking, InHand, Running,
         Looking, Leaving
<1>3. OneOwner /\ NoDangling /\ SizeCovers /\ DoneHasNoLeader
  BY EmptyList, ContainsToSet
     DEF Init, OneOwner, NoDangling, SizeCovers, DoneHasNoLeader, HandleHeld, IsListed,
         Contains, Forking, InHand, Running
<1>4. ForkedOnlyPipeline /\ LoopConsistent /\ PassedStarted /\ LeaderKept /\ TerminalKept
  BY DEF Init, KernelInit, ForkedOnlyPipeline, LoopConsistent, PassedStarted, LeaderKept,
         TerminalKept, Forking
<1>5. LeaderInSight /\ AllOrNothing
  BY MaxPipeAssumption
     DEF Init, KernelInit, LeaderInSight, AllOrNothing, Starting, Halted, Procs, Leader
<1> QED BY <1>1, <1>2, <1>3, <1>4, <1>5 DEF IInv

-----------------------------------------------------------------------------
(* What signals do to the states of processes.                             *)
LEMMA ContType ==
    ASSUME NEW f \in [Procs -> ProcStates], NEW j
    PROVE  Cont(j, f) \in [Procs -> ProcStates]
BY DEF Cont, Resumed, ProcStates, Starting

LEMMA TermContType ==
    ASSUME NEW f \in [Procs -> ProcStates], NEW j
    PROVE  TermCont(j, f) \in [Procs -> ProcStates]
BY DEF TermCont, Resumed, ProcStates, Starting

(* Assignments to the fields of a job.                                     *)
LEMMA JobFieldTypes ==
    ASSUME NEW g \in [Jobs -> JobRecords], NEW j \in Jobs
    PROVE  /\ \A m \in {"unused", "live", "freed"} :
                 [g EXCEPT ![j].mem = m] \in [Jobs -> JobRecords]
           /\ \A b \in BOOLEAN : [g EXCEPT ![j].fg = b] \in [Jobs -> JobRecords]
           /\ \A b \in BOOLEAN : [g EXCEPT ![j].stopped = b] \in [Jobs -> JobRecords]
           /\ \A n \in 0 .. MaxPipe : [g EXCEPT ![j].size = n] \in [Jobs -> JobRecords]
<1>1. g[j] \in JobRecords
  OBVIOUS
<1>2. /\ \A m \in {"unused", "live", "freed"} : [g[j] EXCEPT !.mem = m] \in JobRecords
      /\ \A b \in BOOLEAN : [g[j] EXCEPT !.fg = b] \in JobRecords
      /\ \A b \in BOOLEAN : [g[j] EXCEPT !.stopped = b] \in JobRecords
      /\ \A n \in 0 .. MaxPipe : [g[j] EXCEPT !.size = n] \in JobRecords
  BY <1>1 DEF JobRecords
<1>3. \A r \in JobRecords : [g EXCEPT ![j] = r] \in [Jobs -> JobRecords]
  OBVIOUS
<1> QED BY <1>2, <1>3

(* What an assignment to one field leaves alone.                           *)
LEMMA JobFieldFrame ==
    ASSUME NEW g \in [Jobs -> JobRecords], NEW j \in Jobs, NEW v, NEW i \in Jobs
    PROVE  /\ [g EXCEPT ![j].stopped = v][i].mem = g[i].mem
           /\ [g EXCEPT ![j].stopped = v][i].size = g[i].size
           /\ [g EXCEPT ![j].stopped = v][i].pipeline = g[i].pipeline
           /\ [g EXCEPT ![j].fg = v][i].mem = g[i].mem
           /\ [g EXCEPT ![j].fg = v][i].size = g[i].size
           /\ [g EXCEPT ![j].fg = v][i].pipeline = g[i].pipeline
           /\ [g EXCEPT ![j].size = v][i].mem = g[i].mem
           /\ [g EXCEPT ![j].size = v][i].pipeline = g[i].pipeline
           /\ [g EXCEPT ![j].mem = v][i].size = g[i].size
           /\ [g EXCEPT ![j].mem = v][i].pipeline = g[i].pipeline
<1>1. g[i] \in JobRecords /\ g[j] \in JobRecords
  OBVIOUS
<1> QED BY <1>1 DEF JobRecords

LEMMA TwoFieldsFrame ==
    ASSUME NEW g \in [Jobs -> JobRecords], NEW j \in Jobs, NEW b \in BOOLEAN, NEW c \in BOOLEAN,
           NEW i \in Jobs
    PROVE  /\ [g EXCEPT ![j].stopped = b, ![j].fg = c][i].mem = g[i].mem
           /\ [g EXCEPT ![j].stopped = b, ![j].fg = c][i].size = g[i].size
           /\ [g EXCEPT ![j].stopped = b, ![j].fg = c][i].pipeline = g[i].pipeline
           /\ [g EXCEPT ![j].fg = c, ![j].stopped = b][i].mem = g[i].mem
           /\ [g EXCEPT ![j].fg = c, ![j].stopped = b][i].size = g[i].size
           /\ [g EXCEPT ![j].fg = c, ![j].stopped = b][i].pipeline = g[i].pipeline
<1> DEFINE s == [g EXCEPT ![j].stopped = b]
           f == [g EXCEPT ![j].fg = c]
<1>1. s \in [Jobs -> JobRecords] /\ f \in [Jobs -> JobRecords]
  BY JobFieldTypes
<1>2. /\ [s EXCEPT ![j].fg = c] = [g EXCEPT ![j].stopped = b, ![j].fg = c]
      /\ [f EXCEPT ![j].stopped = b] = [g EXCEPT ![j].fg = c, ![j].stopped = b]
  OBVIOUS
<1>3. /\ s[i].mem = g[i].mem /\ s[i].size = g[i].size /\ s[i].pipeline = g[i].pipeline
      /\ f[i].mem = g[i].mem /\ f[i].size = g[i].size /\ f[i].pipeline = g[i].pipeline
  BY JobFieldFrame
<1> HIDE DEF s, f
<1>4. /\ [s EXCEPT ![j].fg = c][i].mem = s[i].mem
      /\ [s EXCEPT ![j].fg = c][i].size = s[i].size
      /\ [s EXCEPT ![j].fg = c][i].pipeline = s[i].pipeline
      /\ [f EXCEPT ![j].stopped = b][i].mem = f[i].mem
      /\ [f EXCEPT ![j].stopped = b][i].size = f[i].size
      /\ [f EXCEPT ![j].stopped = b][i].pipeline = f[i].pipeline
  BY <1>1, JobFieldFrame
<1> QED BY <1>2, <1>3, <1>4

(* Finitely many processes make up a job.                                  *)
LEMMA JobProcsFinite ==
    ASSUME NEW j \in Jobs, NEW S, S \subseteq Procs, \A p \in S : p[1] = j
    PROVE  IsFiniteSet(S) /\ Cardinality(S) \in Nat
<1>1. IsFiniteSet(1 .. MaxPipe)
  BY FS_Interval, MaxPipeAssumption
<1> DEFINE f == [i \in 1 .. MaxPipe |-> <<j, i>>]
           T == {<<j, i>> : i \in 1 .. MaxPipe}
<1>2. IsFiniteSet(T)
  <2>1. f \in Surjection(1 .. MaxPipe, T)
    BY DEF Surjection
  <2> QED BY <1>1, <2>1, FS_Surjection
<1>3. S \subseteq T
  BY DEF Procs
<1> QED BY <1>2, <1>3, FS_Subset, FS_CardinalityType

LEMMA UnreapedFinite ==
    ASSUME NEW j \in Jobs
    PROVE  IsFiniteSet(Unreaped(j)) /\ Cardinality(Unreaped(j)) \in Nat
<1>1. Unreaped(j) \subseteq Procs /\ \A p \in Unreaped(j) : p[1] = j
  BY DEF Unreaped
<1> QED BY <1>1, JobProcsFinite

(* A process waitpid can still report is counted in pipeline_size.         *)
LEMMA ZombieCounted ==
    ASSUME TypeOK, SizeCovers, NEW p \in Procs, proc[p] = "zombie", IsListed(p[1])
    PROVE  job[p[1]].size > 0
<1>1. p[1] \in Jobs /\ p \in Unreaped(p[1])
  BY DEF Procs, Unreaped
<1>2. Cardinality(Unreaped(p[1])) > 0
  BY <1>1, UnreapedFinite, FS_EmptySet
<1>3. job[p[1]].size >= Cardinality(Unreaped(p[1]))
  BY <1>1 DEF SizeCovers
<1> QED BY <1>1, <1>2, <1>3, UnreapedFinite DEF TypeOK, JobRecords

(* The locals of wait_for_fg_job after one iteration.                      *)
LEMMA WaitLocals ==
    ASSUME TypeOK, NEW p, WaitExit(p) \/ WaitStop(p)
    PROVE  \E w \in [count : Nat, falling : BOOLEAN, stopped : BOOLEAN] : WaitCheck(w)
<1>1. wait \in [count : Nat, falling : BOOLEAN, stopped : BOOLEAN]
  BY DEF TypeOK
<1>2. wait.count \in Nat /\ wait.count + 1 \in Nat
  BY <1>1
<1>3. CASE WaitExit(p)
  <2>1. [wait EXCEPT !.falling = TRUE, !.count = IF wait.stopped THEN 0 ELSE @]
          \in [count : Nat, falling : BOOLEAN, stopped : BOOLEAN]
    BY <1>1, <1>2
  <2> QED BY <1>3, <2>1 DEF WaitExit
<1>4. CASE WaitStop(p)
  <2>1. [wait EXCEPT !.stopped = TRUE, !.count = IF wait.falling THEN 0 ELSE @ + 1]
          \in [count : Nat, falling : BOOLEAN, stopped : BOOLEAN]
    BY <1>1, <1>2
  <2> QED BY <1>4, <2>1 DEF WaitStop
<1> QED BY <1>3, <1>4

-----------------------------------------------------------------------------
(* TypeOK.                                                                 *)
LEMMA TypeStep == IInv /\ [Next]_vars => TypeOK'
<1> SUFFICES ASSUME IInv, [Next]_vars PROVE TypeOK'
  OBVIOUS
<1> USE DEF TypeOK, KernelTypeOK
<1>0. TypeOK
  BY DEF IInv
<1>1. CASE UNCHANGED vars \/ Gone
  BY <1>0, <1>1 DEF Gone, vars, kernelVars, lists, handler
<1>2. CASE User
  <2>1. CASE OtherLine \/ ExitLine \/ ZeroLine
    BY <1>0, <2>1
       DEF OtherLine, ExitLine, ZeroLine, Crash, At, Labels, AtPrompt, Leaving, Over,
           kernelVars, lists, handler
  <2>2. ASSUME NEW j \in Jobs, NEW bg \in BOOLEAN, NEW n \in 1 .. MaxPipe, StartLine(j, bg, n)
        PROVE  TypeOK'
    BY <1>0, <2>2, MaxPipeAssumption
       DEF StartLine, NewJob, JobRecords, Labels, Forking, kernelVars, lists, handler
  <2>3. ASSUME NEW k \in 1 .. Len(current_job), NEW take \in Looking, FgBgLine(k, take)
        PROVE  TypeOK'
    BY <1>0, <2>3 DEF FgBgLine, Labels, kernelVars, lists, handler
  <2> QED BY <1>2, <2>1, <2>2, <2>3 DEF User
<1>3. CASE Main
  <2>1. CASE PrintPending
    <3>1. pending_jobs # <<>> => Tail(pending_jobs) \in Seq(Jobs)
      BY <1>0, TailToSet
    <3> QED BY <1>0, <2>1, <3>1
            DEF PrintPending, At, Labels, AtPrompt, kernelVars, handler
  <2>2. CASE PrintRemoved
    <3>1. pending_removed_jobs # <<>> => /\ Head(pending_removed_jobs) \in Jobs
                                         /\ Tail(pending_removed_jobs) \in Seq(Jobs)
      BY <1>0, TailToSet
    <3>2. job' \in [Jobs -> JobRecords]
      <4>1. pending_removed_jobs # <<>> =>
                [job EXCEPT ![Head(pending_removed_jobs)].mem = "freed"] \in [Jobs -> JobRecords]
        BY <1>0, <3>1, JobFieldTypes
      <4> QED BY <1>0, <2>2, <4>1 DEF PrintRemoved
    <3> QED BY <1>0, <2>2, <3>1, <3>2
            DEF PrintRemoved, At, Labels, AtPrompt, Over, kernelVars, handler
  <2>3. CASE Fork
    <3>1. cur \in Jobs /\ nth <= job[cur].pipeline
      BY <2>3 DEF Fork, At, IInv, MainConsistent, Forking
    <3>2. <<cur, nth>> \in Procs
      BY <1>0, <3>1, MaxPipeAssumption DEF JobRecords, Procs
    <3>3. proc' \in [Procs -> ProcStates] /\ grouped' \in SUBSET Procs
      BY <1>0, <2>3, <3>2 DEF Fork, ProcStates, Starting
    <3> QED BY <1>0, <2>3, <3>3, MaxPipeAssumption
            DEF Fork, At, Labels, Forking, lists, handler
  <2>4. CASE ForkFails \/ Release \/ ReadFirst
    BY <1>0, <2>4, MaxPipeAssumption
       DEF ForkFails, Release, ReadFirst, Labels, Forking, Running, kernelVars, lists, handler
  <2>5. CASE ReadError
    <3>1. cur \in Jobs /\ nth \in 2 .. job[cur].pipeline
      BY <2>5 DEF ReadError, At, IInv, MainConsistent, LoopConsistent, Forking
    <3>2. nth + 1 \in 1 .. MaxPipe + 1
      BY <1>0, <3>1, MaxPipeAssumption DEF JobRecords
    <3> QED BY <1>0, <2>5, <3>2
            DEF ReadError, Labels, Forking, kernelVars, lists, handler
  <2>6. CASE ErrorLabel
    <3>1. proc' \in [Procs -> ProcStates] /\ chld' \in BOOLEAN
      BY <1>0, <2>6, TermContType DEF ErrorLabel, Signalled
    <3> QED BY <1>0, <2>6, <3>1, MaxPipeAssumption DEF ErrorLabel, Labels, lists, handler
  <2>7. CASE LaunchJob \/ WaitDone \/ GetTerminal \/ TerminalLost
    <3>1. NoWait \in [count : Nat, falling : BOOLEAN, stopped : BOOLEAN]
      BY DEF NoWait
    <3>2. CASE LaunchJob \/ WaitDone
      BY <1>0, <3>1, <3>2 DEF LaunchJob, WaitDone, Labels, Running, kernelVars, lists, handler
    <3>3. CASE GetTerminal \/ TerminalLost
      BY <1>0, <3>3 DEF GetTerminal, TerminalLost, Labels, AtPrompt, Leaving, kernelVars, lists,
                        handler
    <3> QED BY <2>7, <3>2, <3>3
  <2>8. CASE Enlist
    <3>1. cur \in Jobs
      BY <2>8 DEF Enlist, At, IInv, MainConsistent, Running
    <3> QED BY <1>0, <2>8, <3>1, ConsToSet, AppendToSet
            DEF Enlist, AddBoth, Labels, kernelVars, handler
  <2>9. ASSUME NEW p \in Procs, WaitExit(p) \/ WaitStop(p)
        PROVE  TypeOK'
    <3>1. cur \in Jobs /\ pc \in Labels
      BY <1>0, <2>9 DEF WaitExit, WaitStop, At, IInv, MainConsistent, Running
    <3>2. PICK w \in [count : Nat, falling : BOOLEAN, stopped : BOOLEAN] : WaitCheck(w)
      BY <1>0, <2>9, WaitLocals
    <3>3. /\ job' \in [Jobs -> JobRecords]
          /\ current_job' \in Seq(Jobs) /\ pending_jobs' \in Seq(Jobs)
          /\ pc' \in Labels /\ cur' \in Jobs \union {Shell}
          /\ wait' \in [count : Nat, falling : BOOLEAN, stopped : BOOLEAN]
      <4>1. CASE w.count = job[cur].size
        <5>1. job' \in [Jobs -> JobRecords]
          <6>1. [job EXCEPT ![cur].fg = FALSE] \in [Jobs -> JobRecords]
            BY <1>0, <3>1, JobFieldTypes
          <6> DEFINE g == [job EXCEPT ![cur].fg = FALSE]
          <6>2. [g EXCEPT ![cur].stopped = TRUE] \in [Jobs -> JobRecords]
            BY <3>1, <6>1, JobFieldTypes
          <6> QED BY <3>2, <4>1, <6>2 DEF WaitCheck
        <5>2. Cons(cur, current_job) \in Seq(Jobs) /\ Append(pending_jobs, cur) \in Seq(Jobs)
          BY <1>0, <3>1, ConsToSet, AppendToSet
        <5>3. NoWait \in [count : Nat, falling : BOOLEAN, stopped : BOOLEAN]
          BY DEF NoWait
        <5> QED BY <3>2, <4>1, <5>1, <5>2, <5>3 DEF WaitCheck, AddBoth, Labels
      <4>2. CASE w.count # job[cur].size
        BY <1>0, <3>1, <3>2, <4>2 DEF WaitCheck
      <4> QED BY <4>1, <4>2
    <3>4. proc' \in [Procs -> ProcStates] /\ chld' \in BOOLEAN /\ grouped' \in SUBSET Procs
      <4>1. /\ [proc EXCEPT ![p] = "reaped"] \in [Procs -> ProcStates]
            /\ [proc EXCEPT ![p] = "stopped"] \in [Procs -> ProcStates]
        BY <1>0 DEF ProcStates, Halted
      <4>2. /\ TermCont(cur, [proc EXCEPT ![p] = "reaped"]) \in [Procs -> ProcStates]
            /\ TermCont(cur, [proc EXCEPT ![p] = "stopped"]) \in [Procs -> ProcStates]
        BY <4>1, TermContType
      <4>3. CASE WaitExit(p)
        BY <1>0, <4>1, <4>2, <4>3 DEF WaitExit, Signalled
      <4>4. CASE WaitStop(p)
        BY <1>0, <4>1, <4>2, <4>4 DEF WaitStop, Signalled
      <4> QED BY <2>9, <4>3, <4>4
    <3> QED BY <1>0, <2>9, <3>3, <3>4 DEF WaitExit, WaitStop, handler
  <2>10. ASSUME NEW p \in Procs, CleanupReap(p)
         PROVE  TypeOK'
    <3>1. proc' \in [Procs -> ProcStates]
      BY <1>0, <2>10 DEF CleanupReap, Reap, ProcStates
    <3> QED BY <1>0, <2>10, <3>1 DEF CleanupReap, Reap, lists, handler
  <2>11. CASE Take
    <3>1. current_job' \in Seq(Jobs)
      BY <1>0, <2>11, RemoveAtToSet DEF Take, Without
    <3> QED BY <1>0, <2>11, <3>1
            DEF Take, Crash, Labels, InHand, Over, kernelVars, handler
  <2>12. CASE FgTerminal \/ FgTerminalFails \/ BgCurrent \/ BgPending
    <3>1. cur \in Jobs
      BY <2>12 DEF FgTerminal, FgTerminalFails, BgCurrent, BgPending, At, IInv, MainConsistent,
                   InHand
    <3>2. Append(current_job, cur) \in Seq(Jobs) /\ Append(pending_jobs, cur) \in Seq(Jobs)
      BY <1>0, <3>1, AppendToSet
    <3> QED BY <1>0, <2>12, <3>1, <3>2
            DEF FgTerminal, FgTerminalFails, BgCurrent, BgPending, Labels, InHand, AtPrompt,
                kernelVars, lists, handler
  <2>13. CASE FgCont \/ BgCont
    <3>1. cur \in Jobs
      BY <2>13 DEF FgCont, BgCont, At, IInv, MainConsistent, InHand
    <3>2. job' \in [Jobs -> JobRecords]
      <4>1. [job EXCEPT ![cur].stopped = FALSE] \in [Jobs -> JobRecords]
        BY <1>0, <3>1, JobFieldTypes
      <4> DEFINE g == [job EXCEPT ![cur].stopped = FALSE]
      <4>2. [g EXCEPT ![cur].fg = TRUE] \in [Jobs -> JobRecords]
        BY <3>1, <4>1, JobFieldTypes
      <4> QED BY <2>13, <4>1, <4>2 DEF FgCont, BgCont
    <3>3. proc' \in [Procs -> ProcStates] /\ chld' \in BOOLEAN
      BY <1>0, <2>13, ContType DEF FgCont, BgCont, Signalled
    <3> QED BY <1>0, <2>13, <3>2, <3>3
            DEF FgCont, BgCont, Labels, InHand, Running, lists, handler
  <2>14. CASE CleanupKill
    <3>1. current_job # <<>> => Head(current_job) \in Jobs /\ Tail(current_job) \in Seq(Jobs)
      BY <1>0, TailToSet
    <3>2. job' \in [Jobs -> JobRecords]
      <4>1. current_job # <<>> =>
                [job EXCEPT ![Head(current_job)].mem = "freed"] \in [Jobs -> JobRecords]
        BY <1>0, <3>1, JobFieldTypes
      <4> QED BY <1>0, <2>14, <4>1 DEF CleanupKill
    <3>3. proc' \in [Procs -> ProcStates] /\ chld' \in BOOLEAN
      BY <1>0, <2>14, ContType DEF CleanupKill, Signalled
    <3> QED BY <1>0, <2>14, <3>1, <3>2, <3>3
            DEF CleanupKill, At, Labels, Leaving, handler
  <2>15. CASE CleanupDone
    BY <1>0, <2>15 DEF CleanupDone, Labels, AtPrompt, kernelVars, lists, handler
  <2> QED BY <1>3, <2>1, <2>2, <2>3, <2>4, <2>5, <2>6, <2>7, <2>8, <2>9, <2>10, <2>11, <2>12,
             <2>13, <2>14, <2>15 DEF Main
<1>4. CASE Handler
  <2>1. CASE Delivered \/ ScanDone \/ HandlerReturns
    <3>1. CASE Delivered
      <4>1. /\ h' = "scan" /\ hat' = 1
            /\ UNCHANGED <<proc, grouped, job, lists, pc, cur, nth, wait, leaving, tty, errs>>
        BY <3>1 DEF Delivered
      <4>2. chld' \in BOOLEAN
        BY <3>1, Zenon DEF Delivered
      <4> QED BY <1>0, <4>1, <4>2 DEF lists
    <3>2. CASE ScanDone \/ HandlerReturns
      BY <1>0, <3>2 DEF ScanDone, HandlerReturns, kernelVars, lists
    <3> QED BY <2>1, <3>1, <3>2
  <2>2. CASE ScanNext
    <3>1. Scanning => Scanned \in Jobs
      BY <1>0, ContainsToSet DEF Scanning, Scanned
    <3>2. current_job' \in Seq(Jobs)
      BY <1>0, <2>2, RemoveAtToSet DEF ScanNext, Without
    <3>3. pending_removed_jobs' \in Seq(Jobs) /\ hat' \in Nat \ {0}
      <4>1. Scanned \in Jobs => Append(pending_removed_jobs, Scanned) \in Seq(Jobs)
        BY <1>0, AppendToSet
      <4>2. hat + 1 \in Nat \ {0}
        BY <1>0
      <4> QED BY <1>0, <2>2, <3>1, <4>1, <4>2 DEF ScanNext
    <3> QED BY <1>0, <2>2, <3>2, <3>3 DEF ScanNext, kernelVars
  <2>3. ASSUME NEW p \in Procs, ScanExit(p)
        PROVE  TypeOK'
    <3>1. Scanned \in Jobs /\ Scanned = p[1] /\ IsListed(Scanned)
      BY <1>0, <2>3, ContainsToSet DEF ScanExit, Scanning, Scanned, Members, IsListed, Contains
    <3>2. job' \in [Jobs -> JobRecords]
      <4>1. job[Scanned].size > 0
        BY <2>3, <3>1, ZombieCounted DEF ScanExit, IInv
      <4>2. job[Scanned].size - 1 \in 0 .. MaxPipe
        BY <1>0, <3>1, <4>1, MaxPipeAssumption DEF JobRecords
      <4> QED BY <1>0, <2>3, <3>1, <4>2, JobFieldTypes DEF ScanExit
    <3>3. [proc EXCEPT ![p] = "reaped"] \in [Procs -> ProcStates]
      BY <1>0 DEF ProcStates
    <3>4. proc' \in [Procs -> ProcStates] /\ chld' \in BOOLEAN
      BY <1>0, <2>3, <3>3, ContType DEF ScanExit, Signalled
    <3> QED BY <1>0, <2>3, <3>2, <3>4 DEF ScanExit, lists, handler
  <2>4. ASSUME NEW p \in Procs, NEW obeying \in SUBSET Members(p[1]), ScanStop(p, obeying)
        PROVE  TypeOK'
    <3>1. Scanned \in Jobs
      BY <1>0, <2>4, ContainsToSet DEF ScanStop, Scanning, Scanned
    <3>2. job' \in [Jobs -> JobRecords]
      BY <1>0, <2>4, <3>1, JobFieldTypes DEF ScanStop
    <3>3. [proc EXCEPT ![p] = "stopped"] \in [Procs -> ProcStates]
      BY <1>0 DEF ProcStates, Halted
    <3>4. proc' \in [Procs -> ProcStates] /\ chld' \in BOOLEAN
      BY <1>0, <2>4, <3>3 DEF ScanStop, Signalled, ProcStates, Halted
    <3> QED BY <1>0, <2>4, <3>2, <3>4 DEF ScanStop, lists, handler
  <2>5. ASSUME NEW p \in Procs, ReapAny(p)
        PROVE  TypeOK'
    <3>1. p[1] \in Jobs
      BY DEF Procs
    <3>2. proc' \in [Procs -> ProcStates] /\ grouped' \in SUBSET Procs
      BY <1>0, <2>5 DEF ReapAny, Reap, ProcStates
    <3>3. current_job' \in Seq(Jobs) /\ pending_removed_jobs' \in Seq(Jobs)
      <4>1. Cons(p[1], pending_removed_jobs) \in Seq(Jobs)
        BY <1>0, <3>1, ConsToSet
      <4>2. \A i \in 1 .. Len(current_job) : RemoveAt(current_job, i) \in Seq(Jobs)
        BY <1>0, RemoveAtToSet
      <4> QED BY <1>0, <2>5, <4>1, <4>2 DEF ReapAny, Without
    <3> QED BY <1>0, <2>5, <3>2, <3>3 DEF ReapAny, Crash, Labels, Over
  <2> QED BY <1>4, <2>1, <2>2, <2>3, <2>4, <2>5 DEF Handler
<1>5. CASE Starts
  <2>1. ASSUME NEW j \in Jobs, LeaderReady(j)
        PROVE  TypeOK'
    BY <1>0, <2>1 DEF LeaderReady, ProcStates, Starting, lists, handler
  <2>2. ASSUME NEW p \in Procs, Exec(p)
        PROVE  TypeOK'
    BY <1>0, <2>2 DEF Exec, ProcStates, lists, handler
  <2> QED BY <1>5, <2>1, <2>2 DEF Starts
<1>6. CASE Children
  <2>1. ASSUME NEW p \in Procs, ChildFails(p) \/ Die(p) \/ Stop(p) \/ ContinuedOutside(p)
        PROVE  TypeOK'
    <3>1. Resumed(p, proc[p]) \in ProcStates
      BY <1>0 DEF Resumed, ProcStates, Starting
    <3>2. proc' \in [Procs -> ProcStates] /\ chld' \in BOOLEAN
      BY <1>0, <2>1, <3>1
         DEF ChildFails, Die, Stop, ContinuedOutside, Signalled, ProcStates, Starting, Halted
    <3> QED BY <1>0, <2>1, <3>2
            DEF ChildFails, Die, Stop, ContinuedOutside, lists, handler
  <2> QED BY <1>6, <2>1 DEF Children
<1> QED BY <1>1, <1>2, <1>3, <1>4, <1>5, <1>6 DEF Next
-----------------------------------------------------------------------------
(* What the three kinds of steps leave alone.                              *)
LEMMA ChildrenFrame ==
    ASSUME Starts \/ Children
    PROVE  Up /\ UNCHANGED <<job, lists, pc, cur, nth, wait, leaving, handler>>
BY DEF Starts, Children, LeaderReady, Exec, ChildFails, Die, Stop, ContinuedOutside

LEMMA HandlerFrame ==
    ASSUME TypeOK, HandlerConsistent, Handler
    PROVE  /\ UNCHANGED <<cur, nth, wait, leaving, tty, errs, pending_jobs>>
           /\ Up /\ ~ChldBlocked
           /\ pc' = pc \/ (pc' = "crashed" /\ h' = "idle")
<1>1. CASE Delivered \/ ScanNext \/ ScanDone \/ HandlerReturns
  BY <1>1 DEF Delivered, ScanNext, ScanDone, HandlerReturns, Scanning, HandlerConsistent, lists
<1>2. ASSUME NEW p \in Procs, ScanExit(p) \/ ReapAny(p)
      PROVE  /\ UNCHANGED <<cur, nth, wait, leaving, tty, errs, pending_jobs>>
             /\ Up /\ ~ChldBlocked
             /\ pc' = pc \/ (pc' = "crashed" /\ h' = "idle")
  BY <1>2 DEF ScanExit, ReapAny, Crash, Scanning, HandlerConsistent, lists
<1>3. ASSUME NEW p \in Procs, NEW obeying \in SUBSET Members(p[1]), ScanStop(p, obeying)
      PROVE  /\ UNCHANGED <<cur, nth, wait, leaving, tty, errs, pending_jobs>>
             /\ Up /\ ~ChldBlocked
             /\ pc' = pc \/ (pc' = "crashed" /\ h' = "idle")
  BY <1>3 DEF ScanStop, Scanning, HandlerConsistent, lists
<1> QED BY <1>1, <1>2, <1>3 DEF Handler

LEMMA MainFrame ==
    ASSUME User \/ Main
    PROVE  h = "idle" /\ h' = "idle"
<1>1. CASE User
  BY <1>1 DEF User, OtherLine, ExitLine, ZeroLine, StartLine, FgBgLine, At, Crash, handler
<1>2. CASE Main
  BY <1>2
     DEF Main, PrintPending, PrintRemoved, Fork, ForkFails, ReadError, Release, ReadFirst,
         ErrorLabel, LaunchJob, WaitDone, Enlist, GetTerminal, TerminalLost, WaitExit, WaitStop,
         CleanupReap, Take, FgTerminal, FgTerminalFails, FgCont, BgCont, BgCurrent, BgPending,
         CleanupKill, CleanupDone, At, Crash, handler
<1> QED BY <1>1, <1>2

(* The handler and the main thread.                                        *)
LEMMA ConsistentStep == IInv /\ [Next]_vars => MainConsistent' /\ HandlerConsistent'
<1> SUFFICES ASSUME IInv, [Next]_vars PROVE MainConsistent' /\ HandlerConsistent'
  OBVIOUS
<1>0. TypeOK /\ MainConsistent /\ HandlerConsistent
  BY DEF IInv
<1> USE DEF Forking, InHand, Running, Looking, Leaving
<1>1. CASE UNCHANGED vars \/ Gone
  BY <1>0, <1>1
     DEF Gone, vars, lists, handler, MainConsistent, HandlerConsistent, Up, Over, ChldBlocked
<1>2. CASE User \/ Main
  <2>1. HandlerConsistent'
    BY <1>2, MainFrame DEF HandlerConsistent
  <2>2. ASSUME User PROVE MainConsistent'
    <3>1. ASSUME NEW j \in Jobs, NEW bg \in BOOLEAN, NEW n \in 1 .. MaxPipe,
                 StartLine(j, bg, n)
          PROVE  MainConsistent'
      BY <1>0, <3>1 DEF StartLine, At, MainConsistent
    <3>2. ASSUME NEW k \in 1 .. Len(current_job), NEW take \in {"fg_take", "bg_take"},
                 FgBgLine(k, take)
          PROVE  MainConsistent'
      <4>1. current_job[k] \in Jobs
        BY <1>0 DEF TypeOK
      <4> QED BY <1>0, <3>2, <4>1 DEF FgBgLine, At, MainConsistent
    <3>3. CASE OtherLine \/ ExitLine \/ ZeroLine
      BY <1>0, <3>3 DEF OtherLine, ExitLine, ZeroLine, Crash, At, MainConsistent
    <3> QED BY <2>2, <3>1, <3>2, <3>3 DEF User
  <2>3. ASSUME Main PROVE MainConsistent'
    <3>1. CASE PrintPending \/ PrintRemoved \/ CleanupKill \/ CleanupDone
      BY <1>0, <3>1 DEF PrintPending, PrintRemoved, CleanupKill, CleanupDone, At, MainConsistent
    <3>2. CASE Fork \/ ForkFails \/ ReadError \/ Release \/ ReadFirst \/ ErrorLabel
      BY <1>0, <3>2 DEF Fork, ForkFails, ReadError, Release, ReadFirst, ErrorLabel, At, MainConsistent
    <3>3. CASE LaunchJob \/ WaitDone \/ Enlist \/ GetTerminal \/ TerminalLost
      BY <1>0, <3>3 DEF LaunchJob, WaitDone, Enlist, GetTerminal, TerminalLost, At, MainConsistent
    <3>4. CASE Take \/ FgTerminal \/ FgTerminalFails \/ FgCont
      BY <1>0, <3>4 DEF Take, FgTerminal, FgTerminalFails, FgCont, At, Crash, MainConsistent
    <3>5. CASE BgCont \/ BgCurrent \/ BgPending
      BY <1>0, <3>5 DEF BgCont, BgCurrent, BgPending, At, MainConsistent
    <3>6. ASSUME NEW p \in Procs, WaitExit(p) \/ WaitStop(p) \/ CleanupReap(p)
          PROVE  MainConsistent'
      BY <1>0, <3>6 DEF WaitExit, WaitStop, WaitCheck, CleanupReap, At, MainConsistent
    <3> QED BY <2>3, <3>1, <3>2, <3>3, <3>4, <3>5, <3>6 DEF Main
  <2> QED BY <1>2, <2>1, <2>2, <2>3
<1>3. CASE Handler
  BY <1>0, <1>3, HandlerFrame DEF MainConsistent, HandlerConsistent, ChldBlocked, Up, Over
<1>4. CASE Starts \/ Children
  BY <1>0, <1>4, ChildrenFrame DEF MainConsistent, HandlerConsistent, ChldBlocked, Up, Over, handler
<1> QED BY <1>1, <1>2, <1>3, <1>4 DEF Next
-----------------------------------------------------------------------------
(* Who owns a job, and whether it is still there.                          *)

(* remove_job_handle on a list without duplicates.                         *)
LEMMA WithoutToSet ==
    ASSUME NEW s \in Seq(Jobs), NEW j, NEW t, Without(s, j, t), IsInjective(s)
    PROVE  /\ t \in Seq(Jobs) /\ IsInjective(t)
           /\ j \in ToSet(s) /\ ToSet(t) = ToSet(s) \ {j}
<1>1. PICK i \in 1 .. Len(s) : s[i] = j /\ t = RemoveAt(s, i)
  BY DEF Without
<1> QED BY <1>1, RemoveAtToSet, ContainsToSet

(* Steps that move no handle and free no job.                              *)
LEMMA HandlesKept ==
    ASSUME OneOwner, NoDangling, AnnouncedFirst, TypeOK,
           UNCHANGED lists,
           \A j \in Jobs : job'[j].mem = job[j].mem,
           pc' \in InHand \union Running \union Forking =>
               pc \in InHand \union Running \union Forking /\ cur' = cur,
           pc' = "bg_pending" => pc = "bg_pending" /\ cur' = cur,
           leaving' = "exit" => leaving = "exit" \/ pc = "read_line",
           leaving = "hangup" => leaving' = "hangup",
           pc' \in {"print_removed", "read_line"} => pc \in {"print_removed", "read_line"},
           pc \in InHand \union Running \union Forking \union {"bg_pending"} => cur \in Jobs
    PROVE  OneOwner' /\ NoDangling' /\ AnnouncedFirst'
<1>1. OneOwner'
  BY DEF OneOwner, HandleHeld, lists
<1>2. AnnouncedFirst'
  BY DEF AnnouncedFirst, lists
<1>3. NoDangling'
  <2>1. ToSet(current_job) \subseteq Jobs /\ ToSet(pending_removed_jobs) \subseteq Jobs
        /\ ToSet(pending_jobs) \subseteq Jobs
    BY ContainsToSet DEF TypeOK
  <2> QED BY <2>1 DEF NoDangling, lists
<1> QED BY <1>1, <1>2, <1>3
LEMMA OwnerStep == IInv /\ [Next]_vars => OneOwner' /\ NoDangling' /\ AnnouncedFirst'
<1> SUFFICES ASSUME IInv, [Next]_vars PROVE OneOwner' /\ NoDangling' /\ AnnouncedFirst'
  OBVIOUS
<1> DEFINE C == ToSet(current_job)
           P == ToSet(pending_jobs)
           R == ToSet(pending_removed_jobs)
<1>0. /\ TypeOK /\ MainConsistent /\ HandlerConsistent
      /\ OneOwner /\ NoDangling /\ AnnouncedFirst
  BY DEF IInv
<1>a. /\ current_job \in Seq(Jobs) /\ pending_jobs \in Seq(Jobs)
      /\ pending_removed_jobs \in Seq(Jobs)
      /\ C \subseteq Jobs /\ P \subseteq Jobs /\ R \subseteq Jobs
  BY <1>0, ContainsToSet DEF TypeOK
<1>b. IsInjective(current_job) /\ IsInjective(pending_removed_jobs) /\ C \cap R = {}
  BY <1>0 DEF OneOwner
<1>c. pc \in Forking \union InHand \union Running \union Looking \union {"bg_pending"}
          => cur \in Jobs /\ leaving = "no"
  BY <1>0 DEF MainConsistent
<1> USE DEF Forking, InHand, Running, Looking
<1>1. CASE UNCHANGED vars \/ Gone
  BY <1>0, <1>1, <1>c, HandlesKept DEF Gone, vars, lists
<1>2. CASE User
  <2>1. ASSUME NEW j \in Jobs, NEW bg \in BOOLEAN, NEW n \in 1 .. MaxPipe, StartLine(j, bg, n)
        PROVE  OneOwner' /\ NoDangling' /\ AnnouncedFirst'
    <3>1. /\ UNCHANGED <<lists, leaving>> /\ pc = "read_line" /\ pc' = "fork" /\ cur' = j
          /\ job[j].mem = "unused" /\ job' = [job EXCEPT ![j] = NewJob(bg, n)]
      BY <2>1 DEF StartLine, At
    <3>2. job'[j].mem = "live" /\ \A i \in Jobs : i # j => job'[i] = job[i]
      BY <1>0, <3>1 DEF TypeOK, NewJob
    <3>3. j \notin C /\ j \notin R
      BY <1>0, <3>1 DEF NoDangling
    <3>4. OneOwner'
      BY <1>0, <3>1, <3>3 DEF OneOwner, HandleHeld, lists
    <3>5. NoDangling'
      BY <1>0, <1>a, <3>1, <3>2 DEF NoDangling, lists
    <3> QED BY <1>0, <3>1, <3>4, <3>5 DEF AnnouncedFirst, lists
  <2>2. ASSUME NEW k \in 1 .. Len(current_job), NEW take \in Looking, FgBgLine(k, take)
        PROVE  OneOwner' /\ NoDangling' /\ AnnouncedFirst'
    BY <1>0, <2>2, HandlesKept DEF FgBgLine, At, lists
  <2>3. CASE OtherLine \/ ExitLine \/ ZeroLine
    <3>1. CASE OtherLine
      BY <1>0, <3>1, HandlesKept DEF OtherLine, At, lists
    <3>2. CASE ExitLine
      <4>1. leaving # "hangup"
        BY <1>0, <3>2 DEF ExitLine, At, MainConsistent, Leaving
      <4> QED BY <1>0, <3>2, <4>1, HandlesKept DEF ExitLine, At, lists
    <3>3. CASE ZeroLine
      BY <1>0, <3>3, HandlesKept DEF ZeroLine, Crash, At, lists
    <3> QED BY <2>3, <3>1, <3>2, <3>3
  <2> QED BY <1>2, <2>1, <2>2, <2>3 DEF User
<1>3. CASE Main
  <2>1. CASE PrintPending
    <3>1. pending_jobs # <<>> => ToSet(Tail(pending_jobs)) \subseteq P
      BY <1>a, TailToSet
    <3>2. OneOwner'
      BY <1>0, <2>1 DEF PrintPending, At, OneOwner, HandleHeld
    <3>3. NoDangling'
      BY <1>0, <2>1, <3>1 DEF PrintPending, At, NoDangling
    <3>4. AnnouncedFirst'
      <4>1. CASE pending_jobs # <<>>
        <5>1. leaving # "exit" /\ pc' = "print_pending" /\ leaving' = leaving
          BY <1>0, <2>1, <4>1 DEF PrintPending, At, AnnouncedFirst
        <5> QED BY <5>1 DEF AnnouncedFirst
      <4>2. CASE pending_jobs = <<>>
        BY <2>1, <4>2 DEF PrintPending, AnnouncedFirst
      <4> QED BY <4>1, <4>2
    <3> QED BY <3>2, <3>3, <3>4
  <2>2. CASE PrintRemoved
    <3>1. CASE pending_removed_jobs = <<>>
      BY <1>0, <2>2, <3>1, HandlesKept DEF PrintRemoved, At, lists
    <3>2. CASE pending_removed_jobs # <<>>
      <4> DEFINE j == Head(pending_removed_jobs)
                 T == ToSet(Tail(pending_removed_jobs))
      <4>1. j \in R /\ T \subseteq R /\ j \notin T /\ IsInjective(Tail(pending_removed_jobs))
        BY <1>a, <1>b, <3>2, TailToSet
      <4>2. /\ pc = "print_removed" /\ pc' = pc
            /\ pending_removed_jobs' = Tail(pending_removed_jobs)
            /\ \A i \in Jobs : i # j => job'[i] = job[i]
            /\ UNCHANGED <<current_job, pending_jobs, leaving, cur>>
        BY <1>0, <2>2, <3>2 DEF PrintRemoved, At, TypeOK
      <4>3. pending_jobs = <<>>
        BY <1>0, <4>2 DEF AnnouncedFirst
      <4> HIDE DEF j
      <4>4. OneOwner'
        BY <1>0, <1>b, <4>1, <4>2 DEF OneOwner, HandleHeld
      <4>5. NoDangling'
        BY <1>0, <1>a, <1>b, <4>1, <4>2, <4>3, EmptyList DEF NoDangling
      <4> QED BY <4>2, <4>3, <4>4, <4>5 DEF AnnouncedFirst
    <3> QED BY <3>1, <3>2
  <2>3. CASE Fork \/ ForkFails \/ ReadError \/ Release \/ ReadFirst \/ ErrorLabel
    BY <1>0, <1>c, <2>3, HandlesKept
       DEF Fork, ForkFails, ReadError, Release, ReadFirst, ErrorLabel, At, lists
  <2>4. CASE LaunchJob \/ WaitDone \/ GetTerminal \/ TerminalLost \/ FgTerminal \/ CleanupDone
    BY <1>0, <1>c, <2>4, HandlesKept
       DEF LaunchJob, WaitDone, GetTerminal, TerminalLost, FgTerminal, CleanupDone, At, lists
  <2>5. CASE FgCont \/ BgCont
    <3>1. \A i \in Jobs : job'[i].mem = job[i].mem
      <4>1. cur \in Jobs /\ job \in [Jobs -> JobRecords]
        BY <1>0, <1>c, <2>5 DEF FgCont, BgCont, At, TypeOK
      <4>2. \A i \in Jobs :
                /\ [job EXCEPT ![cur].stopped = FALSE, ![cur].fg = TRUE][i].mem = job[i].mem
                /\ [job EXCEPT ![cur].stopped = FALSE][i].mem = job[i].mem
        BY <4>1, JobFieldFrame, TwoFieldsFrame
      <4> QED BY <2>5, <4>2 DEF FgCont, BgCont
    <3> QED BY <1>0, <1>c, <2>5, <3>1, HandlesKept DEF FgCont, BgCont, At, lists
  <2>6. ASSUME NEW p \in Procs, CleanupReap(p)
        PROVE  OneOwner' /\ NoDangling' /\ AnnouncedFirst'
    BY <1>0, <1>c, <2>6, HandlesKept DEF CleanupReap, At, lists
  <2>7. ASSUME \/ Enlist
               \/ \E p \in Procs, w \in [count : Nat, falling : BOOLEAN, stopped : BOOLEAN] :
                      (WaitExit(p) \/ WaitStop(p)) /\ w.count = job[cur].size /\ WaitCheck(w)
        PROVE  OneOwner' /\ NoDangling' /\ AnnouncedFirst'
    <3>1. /\ cur \in Jobs /\ pc \in Running /\ leaving = "no"
          /\ AddBoth(cur) /\ pc' = "get_terminal"
          /\ UNCHANGED <<pending_removed_jobs, leaving>>
      BY <1>c, <2>7 DEF Enlist, WaitExit, WaitStop, WaitCheck, At
    <3>2. \A i \in Jobs : job'[i].mem = job[i].mem
      <4>1. \/ UNCHANGED job
            \/ job' = [job EXCEPT ![cur].fg = FALSE, ![cur].stopped = TRUE]
        BY <2>7 DEF Enlist, WaitCheck
      <4>2. job \in [Jobs -> JobRecords]
        BY <1>0 DEF TypeOK
      <4>3. \A i \in Jobs :
                [job EXCEPT ![cur].fg = FALSE, ![cur].stopped = TRUE][i].mem = job[i].mem
        BY <3>1, <4>2, TwoFieldsFrame
      <4> QED BY <4>1, <4>3
    <3>3. cur \notin C /\ cur \notin R /\ job[cur].mem = "live"
      BY <1>0, <3>1 DEF OneOwner, HandleHeld, NoDangling
    <3>4. /\ ToSet(current_job') = C \union {cur} /\ IsInjective(current_job')
          /\ ToSet(pending_jobs') = P \union {cur}
      BY <1>a, <1>b, <3>1, <3>3, ConsToSet, AppendToSet DEF AddBoth
    <3>5. OneOwner'
      BY <1>b, <3>1, <3>3, <3>4 DEF OneOwner, HandleHeld
    <3>6. NoDangling'
      BY <1>0, <1>a, <3>1, <3>2, <3>3, <3>4 DEF NoDangling
    <3> QED BY <3>1, <3>5, <3>6 DEF AnnouncedFirst
  <2>8. ASSUME NEW p \in Procs, WaitExit(p) \/ WaitStop(p)
        PROVE  OneOwner' /\ NoDangling' /\ AnnouncedFirst'
    <3>1. PICK w \in [count : Nat, falling : BOOLEAN, stopped : BOOLEAN] : WaitCheck(w)
      BY <1>0, <2>8, WaitLocals
    <3>2. CASE w.count = job[cur].size
      BY <2>7, <2>8, <3>1, <3>2
    <3>3. CASE w.count # job[cur].size
      <4>1. /\ UNCHANGED <<job, lists, pc, cur, leaving>>
        BY <2>8, <3>1, <3>3 DEF WaitCheck, WaitExit, WaitStop, lists
      <4> QED BY <1>0, <1>c, <4>1, HandlesKept
    <3> QED BY <3>2, <3>3
  <2>9. CASE Take
    <3>1. CASE IsListed(cur) /\ Without(current_job, cur, current_job')
      <4>1. /\ ToSet(current_job') = C \ {cur} /\ IsInjective(current_job') /\ cur \in C
        BY <1>a, <1>b, <3>1, WithoutToSet
      <4>2. /\ pc' \in {"fg_terminal", "bg_cont"} /\ cur' = cur /\ cur \in Jobs
            /\ leaving = "no"
            /\ UNCHANGED <<job, pending_jobs, pending_removed_jobs, leaving>>
        BY <1>c, <2>9, <3>1 DEF Take, At
      <4>3. OneOwner'
        BY <1>b, <4>1, <4>2 DEF OneOwner, HandleHeld
      <4>4. NoDangling'
        BY <1>0, <4>1, <4>2 DEF NoDangling
      <4> QED BY <4>2, <4>3, <4>4 DEF AnnouncedFirst
    <3>2. CASE ~IsListed(cur) /\ pc' = "crashed" /\ UNCHANGED current_job
      BY <1>0, <1>c, <2>9, <3>2, HandlesKept DEF Take, At, lists
    <3> QED BY <1>a, <1>b, <2>9, <3>1, <3>2, WithoutToSet, ContainsToSet
            DEF Take, Crash, IsListed
  <2>10. CASE FgTerminalFails \/ BgCurrent
    <3>1. /\ cur \in Jobs /\ pc \in InHand /\ leaving = "no"
          /\ current_job' = Append(current_job, cur)
          /\ pc' = "print_pending" \/ (pc' = "bg_pending" /\ cur' = cur)
          /\ UNCHANGED <<job, pending_jobs, pending_removed_jobs, leaving>>
      BY <1>c, <2>10 DEF FgTerminalFails, BgCurrent, At
    <3>2. cur \notin C /\ cur \notin R /\ job[cur].mem = "live"
      BY <1>0, <3>1 DEF OneOwner, HandleHeld, NoDangling
    <3>3. ToSet(current_job') = C \union {cur} /\ IsInjective(current_job')
      BY <1>a, <1>b, <3>1, <3>2, AppendToSet
    <3>4. OneOwner'
      BY <1>b, <3>1, <3>2, <3>3 DEF OneOwner, HandleHeld
    <3>5. NoDangling'
      BY <1>0, <3>1, <3>2, <3>3 DEF NoDangling
    <3> QED BY <3>1, <3>4, <3>5 DEF AnnouncedFirst
  <2>11. CASE BgPending
    <3>1. /\ cur \in Jobs /\ leaving = "no" /\ pc = "bg_pending" /\ pc' = "print_pending"
          /\ pending_jobs' = Append(pending_jobs, cur)
          /\ UNCHANGED <<job, current_job, pending_removed_jobs, leaving>>
      BY <1>c, <2>11 DEF BgPending, At
    <3>2. ToSet(pending_jobs') = P \union {cur}
      BY <1>a, <3>1, AppendToSet
    <3>3. OneOwner'
      BY <1>b, <3>1 DEF OneOwner, HandleHeld
    <3>4. NoDangling'
      BY <1>0, <3>1, <3>2 DEF NoDangling
    <3> QED BY <3>1, <3>3, <3>4 DEF AnnouncedFirst
  <2>12. CASE CleanupKill
    <3>1. CASE current_job = <<>>
      BY <1>0, <2>12, <3>1, HandlesKept DEF CleanupKill, At, lists
    <3>2. CASE current_job # <<>>
      <4> DEFINE j == Head(current_job)
                 T == ToSet(Tail(current_job))
      <4>1. j \in C /\ T \subseteq C /\ j \notin T /\ IsInjective(Tail(current_job))
        BY <1>a, <1>b, <3>2, TailToSet
      <4>2. /\ pc = "kill" /\ pc' = pc /\ leaving # "no"
            /\ current_job' = Tail(current_job)
            /\ \A i \in Jobs : i # j => job'[i] = job[i]
            /\ UNCHANGED <<pending_removed_jobs, pending_jobs, leaving, cur>>
        BY <1>0, <2>12, <3>2 DEF CleanupKill, At, TypeOK, MainConsistent, Leaving
      <4>3. pending_jobs = <<>> \/ leaving = "hangup"
        BY <1>0, <4>2 DEF AnnouncedFirst, TypeOK
      <4> HIDE DEF j
      <4>4. OneOwner'
        BY <1>0, <1>b, <4>1, <4>2 DEF OneOwner, HandleHeld
      <4>5. NoDangling'
        BY <1>0, <1>a, <1>b, <4>1, <4>2, <4>3, EmptyList DEF NoDangling
      <4> QED BY <1>0, <4>2, <4>4, <4>5 DEF AnnouncedFirst
    <3> QED BY <3>1, <3>2
  <2> QED BY <1>3, <2>1, <2>2, <2>3, <2>4, <2>5, <2>6, <2>7, <2>8, <2>9, <2>10, <2>11, <2>12
          DEF Main
<1>4. CASE Handler
  <2>0. /\ UNCHANGED <<cur, leaving, pending_jobs>>
        /\ pc' = pc \/ pc' = "crashed"
    BY <1>0, <1>4, HandlerFrame
  <2>1. CASE Delivered \/ ScanDone \/ HandlerReturns
    BY <1>0, <1>c, <2>0, <2>1, HandlesKept DEF Delivered, ScanDone, HandlerReturns, lists
  <2>2. ASSUME UNCHANGED lists, \A j \in Jobs : job'[j].mem = job[j].mem
        PROVE  OneOwner' /\ NoDangling' /\ AnnouncedFirst'
    <3>1. \/ pc' = pc
          \/ pc' = "crashed" /\ pc' \notin {"bg_pending", "print_removed", "read_line"}
      BY <2>0
    <3>2. leaving' = leaving /\ cur' = cur
      BY <2>0
    <3> QED BY <1>0, <1>c, <2>2, <3>1, <3>2, HandlesKept
  <2>3. ASSUME NEW p \in Procs, ScanExit(p)
        PROVE  OneOwner' /\ NoDangling' /\ AnnouncedFirst'
    <3>1. \A j \in Jobs : job'[j].mem = job[j].mem
      BY <1>0, <2>3 DEF ScanExit, TypeOK, JobRecords
    <3> QED BY <2>2, <2>3, <3>1 DEF ScanExit
  <2>4. ASSUME NEW p \in Procs, NEW obeying \in SUBSET Members(p[1]), ScanStop(p, obeying)
        PROVE  OneOwner' /\ NoDangling' /\ AnnouncedFirst'
    <3>1. \A j \in Jobs : job'[j].mem = job[j].mem
      BY <1>0, <2>4 DEF ScanStop, TypeOK, JobRecords
    <3> QED BY <2>2, <2>4, <3>1 DEF ScanStop
  <2>5. ASSUME NEW j, IsInjective(pending_removed_jobs'),
               Without(current_job, j, current_job'),
               ToSet(pending_removed_jobs') = R \union {j},
               UNCHANGED job
        PROVE  OneOwner' /\ NoDangling' /\ AnnouncedFirst'
    <3>1. /\ ToSet(current_job') = C \ {j} /\ IsInjective(current_job') /\ j \in C
      BY <1>a, <1>b, <2>5, WithoutToSet
    <3>2. OneOwner'
      BY <1>0, <1>b, <2>0, <2>5, <3>1 DEF OneOwner, HandleHeld
    <3>3. /\ UNCHANGED <<cur, leaving, pending_jobs>>
          /\ pc' = pc \/ pc' = "crashed"
      BY <2>0
    <3>4. NoDangling'
      BY <1>0, <2>5, <3>1, <3>3 DEF NoDangling
    <3>5. AnnouncedFirst'
      BY <1>0, <3>3 DEF AnnouncedFirst
    <3> QED BY <3>2, <3>4, <3>5
  <2>6. CASE ScanNext
    <3>1. CASE job[Scanned].size = 0
      <4>1. /\ Without(current_job, Scanned, current_job')
            /\ pending_removed_jobs' = Append(pending_removed_jobs, Scanned)
            /\ UNCHANGED job
        BY <2>6, <3>1 DEF ScanNext
      <4>2. Scanned \in C
        BY <1>a, <1>b, <4>1, WithoutToSet
      <4>3. /\ ToSet(pending_removed_jobs') = R \union {Scanned}
            /\ IsInjective(pending_removed_jobs')
        BY <1>a, <1>b, <4>1, <4>2, AppendToSet
      <4> QED BY <2>5, <4>1, <4>3
    <3>2. CASE job[Scanned].size # 0
      BY <2>2, <2>6, <3>2 DEF ScanNext, lists
    <3> QED BY <3>1, <3>2
  <2>7. ASSUME NEW p \in Procs, ReapAny(p)
        PROVE  OneOwner' /\ NoDangling' /\ AnnouncedFirst'
    <3>1. CASE /\ Without(current_job, p[1], current_job')
               /\ pending_removed_jobs' = Cons(p[1], pending_removed_jobs)
      <4>1. p[1] \in C
        BY <1>a, <1>b, <3>1, WithoutToSet
      <4>2. /\ ToSet(pending_removed_jobs') = R \union {p[1]}
            /\ IsInjective(pending_removed_jobs')
        BY <1>a, <1>b, <3>1, <4>1, ConsToSet
      <4> QED BY <2>5, <2>7, <3>1, <4>2 DEF ReapAny
    <3>2. CASE UNCHANGED <<current_job, pending_removed_jobs>>
      BY <2>0, <2>2, <2>7, <3>2 DEF ReapAny, lists
    <3> QED BY <2>7, <3>1, <3>2 DEF ReapAny
  <2> QED BY <1>4, <2>1, <2>3, <2>4, <2>6, <2>7 DEF Handler
<1>5. CASE Starts \/ Children
  BY <1>0, <1>c, <1>5, ChildrenFrame, HandlesKept
<1> QED BY <1>1, <1>2, <1>3, <1>4, <1>5 DEF Next

-----------------------------------------------------------------------------
(* What a step does to the states of the processes and to the jobs.        *)
Awake == {"run"} \union Halted

LEMMA ContMoves ==
    ASSUME NEW f \in [Procs -> ProcStates], NEW j, NEW p \in Procs
    PROVE  /\ Cont(j, f)[p] = "none" <=> f[p] = "none"
           /\ Cont(j, f)[p] = "reaped" <=> f[p] = "reaped"
           /\ Cont(j, f)[p] \in Starting <=> f[p] \in Starting
           /\ Cont(j, f)[p] \in Awake <=> f[p] \in Awake
BY DEF Cont, Resumed, ProcStates, Starting, Halted, Awake

LEMMA TermContMoves ==
    ASSUME NEW f \in [Procs -> ProcStates], NEW j, NEW p \in Procs
    PROVE  /\ TermCont(j, f)[p] = "none" <=> f[p] = "none"
           /\ TermCont(j, f)[p] = "reaped" <=> f[p] = "reaped"
           /\ TermCont(j, f)[p] \in Starting <=> f[p] \in Starting /\ p \notin Members(j)
           /\ TermCont(j, f)[p] \in Awake <=> f[p] \in Awake
BY DEF TermCont, Resumed, ProcStates, Starting, Halted, Awake

(* How a process moves on in any step but the fork that creates it.        *)
Onward(p) ==
    /\ proc'[p] = "none" <=> proc[p] = "none"
    /\ proc[p] = "reaped" => proc'[p] = "reaped"
    /\ proc'[p] \in Starting => proc[p] \in Starting
    /\ proc'[p] \in Awake => proc[p] \in Awake \/ Exec(p)
    /\ p \in grouped => p \in grouped' \/ proc'[p] = "reaped"
    /\ p \in errs' => p \in errs \/ proc[p] \in Starting

LEMMA OnwardSignalled ==
    ASSUME TypeOK, NEW f \in [Procs -> ProcStates], NEW j, NEW p \in Procs,
           proc' \in {f, Cont(j, f), TermCont(j, f)},
           \/ f[p] = proc[p]
           \/ f[p] = "reaped" /\ proc[p] = "zombie"
           \/ f[p] = "stopped" /\ proc[p] = "stopping",
           p \in grouped => p \in grouped' \/ f[p] = "reaped",
           errs' = errs
    PROVE  Onward(p)
<1>1. /\ proc'[p] = "none" <=> f[p] = "none"
      /\ proc'[p] = "reaped" <=> f[p] = "reaped"
      /\ proc'[p] \in Starting => f[p] \in Starting
      /\ proc'[p] \in Awake <=> f[p] \in Awake
  BY ContMoves, TermContMoves
<1> QED BY <1>1 DEF Onward, Starting, Halted, Awake

LEMMA OnwardReaped ==
    ASSUME TypeOK, NEW p \in Procs, NEW q \in Procs, NEW j, proc[q] = "zombie",
           LET f == [proc EXCEPT ![q] = "reaped"] IN proc' \in {f, Cont(j, f), TermCont(j, f)},
           grouped' = grouped \ {q}, errs' = errs
    PROVE  Onward(p)
<1> DEFINE f == [proc EXCEPT ![q] = "reaped"]
<1>1. f \in [Procs -> ProcStates] /\ proc \in [Procs -> ProcStates]
  BY DEF TypeOK, KernelTypeOK, ProcStates
<1>2. \/ f[p] = proc[p]
      \/ f[p] = "reaped" /\ proc[p] = "zombie"
  BY <1>1
<1>3. p \in grouped => p \in grouped' \/ f[p] = "reaped"
  BY <1>1
<1>4. proc' \in {f, Cont(j, f), TermCont(j, f)}
  OBVIOUS
<1> HIDE DEF f
<1> QED BY <1>1, <1>2, <1>3, <1>4, OnwardSignalled

LEMMA ProcStep ==
    ASSUME IInv, [Next]_vars, NEW p \in Procs
    PROVE  Fork \/ Onward(p)
<1>0. TypeOK /\ proc \in [Procs -> ProcStates]
  BY DEF IInv, TypeOK, KernelTypeOK
<1>a. ASSUME UNCHANGED <<proc, grouped, errs>> PROVE Onward(p)
  BY <1>a DEF Onward
<1>1. CASE UNCHANGED vars \/ Gone
  BY <1>1, <1>a DEF Gone, vars, kernelVars
<1>2. CASE User
  BY <1>2, <1>a DEF User, OtherLine, ExitLine, ZeroLine, StartLine, FgBgLine, kernelVars
<1>3. CASE Main
  <2>1. CASE \/ PrintPending \/ PrintRemoved \/ ForkFails \/ ReadError \/ Release \/ ReadFirst
             \/ LaunchJob \/ WaitDone \/ Enlist \/ GetTerminal \/ TerminalLost
    BY <2>1, <1>a
       DEF PrintPending, PrintRemoved, ForkFails, ReadError, Release, ReadFirst, LaunchJob,
           WaitDone, Enlist, GetTerminal, TerminalLost, kernelVars
  <2>2. CASE Take \/ FgTerminal \/ FgTerminalFails \/ BgCurrent \/ BgPending \/ CleanupDone
    BY <2>2, <1>a
       DEF Take, FgTerminal, FgTerminalFails, BgCurrent, BgPending, CleanupDone, kernelVars
  <2>3. CASE ErrorLabel
    <3>1. proc' = TermCont(cur, proc) /\ UNCHANGED <<grouped, errs>>
      BY <2>3 DEF ErrorLabel, Signalled
    <3> QED BY <1>0, <3>1, OnwardSignalled
  <2>4. CASE FgCont \/ BgCont
    <3>1. proc' = Cont(cur, proc) /\ UNCHANGED <<grouped, errs>>
      BY <2>4 DEF FgCont, BgCont, Signalled
    <3> QED BY <1>0, <3>1, OnwardSignalled
  <2>5. CASE CleanupKill
    <3>1. /\ proc' = proc \/ proc' = Cont(Head(current_job), proc)
          /\ UNCHANGED <<grouped, errs>>
      BY <2>5 DEF CleanupKill, Signalled
    <3> QED BY <1>0, <3>1, <1>a, OnwardSignalled
  <2>6. ASSUME NEW q \in Procs, WaitExit(q) \/ WaitStop(q) \/ CleanupReap(q)
        PROVE  Onward(p)
    <3> DEFINE f == [proc EXCEPT ![q] = "reaped"]
               g == [proc EXCEPT ![q] = "stopped"]
    <3>1. f \in [Procs -> ProcStates] /\ g \in [Procs -> ProcStates]
      BY <1>0 DEF ProcStates, Halted
    <3>2. CASE WaitExit(q)
      <4>1. /\ proc' = f \/ proc' = TermCont(cur, f)
            /\ proc[q] = "zombie" /\ grouped' = grouped \ {q} /\ errs' = errs
        BY <3>2 DEF WaitExit, Signalled
      <4> QED BY <1>0, <4>1, OnwardReaped
    <3>3. CASE WaitStop(q)
      <4>1. /\ proc' = g \/ proc' = TermCont(cur, g)
            /\ proc[q] = "stopping" /\ grouped' = grouped /\ errs' = errs
        BY <3>3 DEF WaitStop, Signalled
      <4> QED BY <1>0, <3>1, <4>1, OnwardSignalled
    <3>4. CASE CleanupReap(q)
      <4>1. /\ proc' = f
            /\ proc[q] = "zombie" /\ grouped' = grouped \ {q} /\ errs' = errs
        BY <3>4 DEF CleanupReap, Reap
      <4> QED BY <1>0, <4>1, OnwardReaped
    <3> QED BY <2>6, <3>2, <3>3, <3>4
  <2> QED BY <1>3, <2>1, <2>2, <2>3, <2>4, <2>5, <2>6 DEF Main
<1>4. CASE Handler
  <2>1. CASE Delivered \/ ScanNext \/ ScanDone \/ HandlerReturns
    BY <2>1, <1>a DEF Delivered, ScanNext, ScanDone, HandlerReturns, kernelVars
  <2>2. ASSUME NEW q \in Procs, ScanExit(q) \/ ReapAny(q)
        PROVE  Onward(p)
    <3> DEFINE f == [proc EXCEPT ![q] = "reaped"]
    <3>1. f \in [Procs -> ProcStates]
      BY <1>0 DEF ProcStates
    <3>2. CASE ScanExit(q)
      <4>1. /\ proc' = Cont(Scanned, f)
            /\ proc[q] = "zombie" /\ grouped' = grouped \ {q} /\ errs' = errs
        BY <3>2 DEF ScanExit, Signalled
      <4> QED BY <1>0, <4>1, OnwardReaped
    <3>3. CASE ReapAny(q)
      <4>1. /\ proc' = f
            /\ proc[q] = "zombie" /\ grouped' = grouped \ {q} /\ errs' = errs
        BY <3>3 DEF ReapAny, Reap
      <4> QED BY <1>0, <4>1, OnwardReaped
    <3> QED BY <2>2, <3>2, <3>3
  <2>3. ASSUME NEW q \in Procs, NEW obeying \in SUBSET Members(q[1]), ScanStop(q, obeying)
        PROVE  Onward(p)
    BY <1>0, <2>3 DEF ScanStop, Signalled, Onward, Starting, Halted, Awake
  <2> QED BY <1>4, <2>1, <2>2, <2>3 DEF Handler
<1>5. CASE Starts
  <2>1. ASSUME NEW j \in Jobs, LeaderReady(j)
        PROVE  Onward(p)
    BY <1>0, <2>1 DEF LeaderReady, Onward, Starting, Halted, Awake
  <2>2. ASSUME NEW q \in Procs, Exec(q)
        PROVE  Onward(p)
    BY <1>0, <2>2 DEF Exec, ReadyToExec, Onward, Starting, Halted, Awake
  <2> QED BY <1>5, <2>1, <2>2 DEF Starts
<1>6. CASE Children
  <2>1. ASSUME NEW q \in Procs, ChildFails(q) \/ Die(q) \/ Stop(q) \/ ContinuedOutside(q)
        PROVE  Onward(p)
    <3>1. CASE ChildFails(q)
      BY <1>0, <3>1 DEF ChildFails, ReadyToExec, Signalled, Onward, Starting, Halted, Awake
    <3>2. CASE Die(q)
      BY <1>0, <3>2 DEF Die, Signalled, Onward, Starting, Halted, Awake
    <3>3. CASE Stop(q)
      BY <1>0, <3>3 DEF Stop, Signalled, Onward, Starting, Halted, Awake
    <3>4. CASE ContinuedOutside(q)
      BY <1>0, <3>4 DEF ContinuedOutside, Resumed, Signalled, Onward, Starting, Halted, Awake
    <3> QED BY <2>1, <3>1, <3>2, <3>3, <3>4
  <2> QED BY <1>6, <2>1 DEF Children
<1> QED BY <1>1, <1>2, <1>3, <1>4, <1>5, <1>6 DEF Next

(* How a job changes in any step but the command line that creates it.     *)
SameJob(i) ==
    /\ job'[i].pipeline = job[i].pipeline
    /\ job'[i].mem = "unused" <=> job[i].mem = "unused"
    /\ job'[i].size = job[i].size \/ \E p \in Procs : ScanExit(p) /\ p[1] = i

Created(i) == \E bg \in BOOLEAN, n \in 1 .. MaxPipe : StartLine(i, bg, n)

LEMMA JobStep ==
    ASSUME IInv, [Next]_vars, NEW i \in Jobs
    PROVE  Created(i) \/ SameJob(i)
<1>0. TypeOK /\ job \in [Jobs -> JobRecords] /\ NoDangling
  BY DEF IInv, TypeOK
<1>a. ASSUME UNCHANGED job PROVE SameJob(i)
  BY <1>a DEF SameJob
<1>b. ASSUME NEW j \in Jobs, job[j].mem # "unused", job' = [job EXCEPT ![j].mem = "freed"]
      PROVE  SameJob(i)
  <2>1. job'[i].pipeline = job[i].pipeline /\ job'[i].size = job[i].size
    BY <1>0, <1>b, JobFieldFrame
  <2>2. job'[i].mem = job[i].mem \/ (i = j /\ job'[i].mem = "freed")
    BY <1>0, <1>b DEF JobRecords
  <2> QED BY <1>b, <2>1, <2>2 DEF SameJob
<1>1. CASE UNCHANGED vars \/ Gone
  BY <1>1, <1>a DEF Gone, vars
<1>2. CASE User
  <2>1. ASSUME NEW j \in Jobs, NEW bg \in BOOLEAN, NEW n \in 1 .. MaxPipe, StartLine(j, bg, n)
        PROVE  Created(i) \/ SameJob(i)
    <3>1. CASE j = i
      BY <2>1, <3>1 DEF Created
    <3>2. CASE j # i
      BY <1>0, <2>1, <3>2 DEF StartLine, SameJob
    <3> QED BY <3>1, <3>2
  <2>2. CASE \/ OtherLine \/ ExitLine \/ ZeroLine
             \/ \E k \in 1 .. Len(current_job), take \in Looking : FgBgLine(k, take)
    BY <2>2, <1>a DEF OtherLine, ExitLine, ZeroLine, FgBgLine
  <2> QED BY <1>2, <2>1, <2>2 DEF User
<1>3. CASE Main
  <2>1. CASE \/ PrintPending \/ Fork \/ ForkFails \/ ReadError \/ Release \/ ReadFirst
             \/ ErrorLabel \/ LaunchJob \/ WaitDone \/ Enlist \/ GetTerminal \/ TerminalLost
    BY <2>1, <1>a
       DEF PrintPending, Fork, ForkFails, ReadError, Release, ReadFirst, ErrorLabel, LaunchJob,
           WaitDone, Enlist, GetTerminal, TerminalLost
  <2>2. CASE Take \/ FgTerminal \/ FgTerminalFails \/ BgCurrent \/ BgPending \/ CleanupDone
    BY <2>2, <1>a DEF Take, FgTerminal, FgTerminalFails, BgCurrent, BgPending, CleanupDone
  <2>3. CASE PrintRemoved
    <3>1. pending_removed_jobs # <<>> =>
              /\ Head(pending_removed_jobs) \in Jobs
              /\ Head(pending_removed_jobs) \in ToSet(pending_removed_jobs)
      BY <1>0, TailToSet DEF TypeOK
    <3> QED BY <1>0, <2>3, <3>1, <1>a, <1>b DEF PrintRemoved, NoDangling
  <2>4. CASE CleanupKill
    <3>1. current_job # <<>> =>
              /\ Head(current_job) \in Jobs
              /\ Head(current_job) \in ToSet(current_job)
      BY <1>0, TailToSet DEF TypeOK
    <3> QED BY <1>0, <2>4, <3>1, <1>a, <1>b DEF CleanupKill, NoDangling
  <2>5. CASE FgCont \/ BgCont
    <3>1. cur \in Jobs
      BY <2>5 DEF FgCont, BgCont, At, IInv, MainConsistent, InHand
    <3> DEFINE f == [job EXCEPT ![cur].stopped = FALSE, ![cur].fg = TRUE]
               b == [job EXCEPT ![cur].stopped = FALSE]
    <3>2. /\ f[i].pipeline = job[i].pipeline /\ f[i].mem = job[i].mem /\ f[i].size = job[i].size
          /\ b[i].pipeline = job[i].pipeline /\ b[i].mem = job[i].mem /\ b[i].size = job[i].size
      BY <1>0, <3>1, JobFieldFrame, TwoFieldsFrame
    <3>3. job' = f \/ job' = b
      BY <2>5 DEF FgCont, BgCont
    <3> QED BY <3>2, <3>3 DEF SameJob
  <2>6. ASSUME NEW p \in Procs, WaitExit(p) \/ WaitStop(p) \/ CleanupReap(p)
        PROVE  SameJob(i)
    <3> DEFINE f == [job EXCEPT ![cur].fg = FALSE, ![cur].stopped = TRUE]
    <3>1. job' = job \/ (job' = f /\ cur \in Jobs)
      BY <2>6 DEF WaitExit, WaitStop, CleanupReap, WaitCheck, At, IInv, MainConsistent, Running
    <3>2. cur \in Jobs => /\ f[i].pipeline = job[i].pipeline
                          /\ f[i].mem = job[i].mem /\ f[i].size = job[i].size
      BY <1>0, TwoFieldsFrame
    <3> QED BY <3>1, <3>2, <1>a DEF SameJob
  <2> QED BY <1>3, <2>1, <2>2, <2>3, <2>4, <2>5, <2>6 DEF Main
<1>4. CASE Handler
  <2>1. CASE Delivered \/ ScanNext \/ ScanDone \/ HandlerReturns
    BY <2>1, <1>a DEF Delivered, ScanNext, ScanDone, HandlerReturns
  <2>2. ASSUME NEW p \in Procs, ReapAny(p) PROVE SameJob(i)
    BY <2>2, <1>a DEF ReapAny
  <2>3. ASSUME NEW p \in Procs, ScanExit(p) PROVE SameJob(i)
    <3>1. p[1] \in Jobs /\ p[1] = Scanned /\ job' = [job EXCEPT ![p[1]].size = job[p[1]].size - 1]
      BY <2>3 DEF ScanExit, Members, Procs
    <3>2. job'[i].pipeline = job[i].pipeline /\ job'[i].mem = job[i].mem
      BY <1>0, <3>1, JobFieldFrame
    <3>3. i # p[1] => job'[i].size = job[i].size
      BY <1>0, <3>1
    <3> QED BY <2>3, <3>2, <3>3 DEF SameJob
  <2>4. ASSUME NEW p \in Procs, NEW obeying \in SUBSET Members(p[1]), ScanStop(p, obeying)
        PROVE  SameJob(i)
    <3>1. Scanned \in Jobs /\ job' = [job EXCEPT ![Scanned].stopped = TRUE]
      BY <2>4 DEF ScanStop, Members, Procs, IInv, TypeOK, KernelTypeOK
    <3>2. /\ job'[i].pipeline = job[i].pipeline
          /\ job'[i].mem = job[i].mem /\ job'[i].size = job[i].size
      BY <1>0, <3>1, JobFieldFrame
    <3> QED BY <3>2 DEF SameJob
  <2> QED BY <1>4, <2>1, <2>2, <2>3, <2>4 DEF Handler
<1>5. CASE Starts \/ Children
  BY <1>5, <1>a, ChildrenFrame
<1> QED BY <1>1, <1>2, <1>3, <1>4, <1>5 DEF Next

(* What the main thread works on before and after a step.                  *)
LEMMA CurStep ==
    ASSUME IInv, [Next]_vars
    PROVE  /\ pc' \in Forking =>
                  \/ cur' \in Jobs /\ Created(cur')
                  \/ Fork \/ ForkFails \/ ReadError \/ Release \/ ReadFirst
                  \/ (UNCHANGED <<pc, cur, nth>> /\ ~Fork)
           /\ pc' \in InHand \union Running =>
                  /\ cur' = cur
                  /\ \/ pc \in InHand \union Running
                     \/ ReadFirst /\ Leader(cur) \notin errs
                     \/ pc \in Looking /\ Without(current_job, cur, current_job')
<1>0. TypeOK /\ HandlerConsistent
  BY DEF IInv
<1> USE DEF Forking, InHand, Running, Looking
<1>1. CASE UNCHANGED vars \/ Gone
  <2>1. UNCHANGED <<pc, cur, nth>>
    BY <1>1 DEF Gone, vars
  <2>2. ~Fork
    BY <2>1, <1>0 DEF Fork, At, TypeOK
  <2> QED BY <2>1, <2>2
<1>2. CASE User
  <2>1. ASSUME NEW j \in Jobs, NEW bg \in BOOLEAN, NEW n \in 1 .. MaxPipe, StartLine(j, bg, n)
        PROVE  pc' = "fork" /\ cur' \in Jobs /\ Created(cur')
    BY <2>1 DEF StartLine, Created
  <2>2. CASE \/ OtherLine \/ ExitLine \/ ZeroLine
             \/ \E k \in 1 .. Len(current_job), take \in Looking : FgBgLine(k, take)
    BY <2>2 DEF OtherLine, ExitLine, ZeroLine, FgBgLine, Crash
  <2> QED BY <1>2, <2>1, <2>2 DEF User
<1>3. CASE Main
  <2>1. CASE Fork \/ ForkFails \/ ReadError \/ Release
    BY <2>1 DEF Fork, ForkFails, ReadError, Release, At
  <2>2. CASE ReadFirst
    BY <2>2 DEF ReadFirst, At
  <2>3. CASE \/ PrintPending \/ PrintRemoved \/ ErrorLabel \/ WaitDone \/ Enlist
             \/ GetTerminal \/ TerminalLost \/ FgTerminalFails \/ BgCurrent \/ BgPending
             \/ CleanupKill \/ CleanupDone
    BY <2>3
       DEF PrintPending, PrintRemoved, ErrorLabel, WaitDone, Enlist, GetTerminal, TerminalLost,
           FgTerminalFails, BgCurrent, BgPending, CleanupKill, CleanupDone, At
  <2>4. CASE LaunchJob \/ FgTerminal \/ FgCont \/ BgCont
    BY <2>4 DEF LaunchJob, FgTerminal, FgCont, BgCont, At
  <2>5. CASE Take
    BY <2>5 DEF Take, Crash, At
  <2>6. ASSUME NEW p \in Procs, WaitExit(p) \/ WaitStop(p) \/ CleanupReap(p)
        PROVE  /\ pc' \notin Forking
               /\ pc' \in InHand \union Running => cur' = cur /\ pc = "wait"
    BY <2>6 DEF WaitExit, WaitStop, CleanupReap, WaitCheck, At
  <2> QED BY <1>3, <2>1, <2>2, <2>3, <2>4, <2>5, <2>6 DEF Main
<1>4. CASE Handler
  <2>1. UNCHANGED <<cur, nth>> /\ (pc' = pc \/ pc' = "crashed")
    BY <1>0, <1>4, HandlerFrame
  <2>2. pc' = pc => ~Fork
    BY <1>0, <2>1 DEF Fork, At, TypeOK
  <2> QED BY <2>1, <2>2
<1>5. CASE Starts \/ Children
  <2>1. UNCHANGED <<pc, cur, nth>>
    BY <1>5, ChildrenFrame
  <2>2. ~Fork
    BY <2>1, <1>0 DEF Fork, At, TypeOK
  <2> QED BY <2>1, <2>2
<1> QED BY <1>1, <1>2, <1>3, <1>4, <1>5 DEF Next

(* No handle gets into current_job but from the main thread's hands.       *)
Listing ==
    \/ Enlist \/ FgTerminalFails \/ BgCurrent
    \/ \E p \in Procs : (WaitExit(p) \/ WaitStop(p)) /\ pc' # pc

LEMMA ListStep ==
    ASSUME IInv, [Next]_vars
    PROVE  \A j \in ToSet(current_job') :
               \/ j \in ToSet(current_job)
               \/ pc \in InHand \union Running /\ cur = j /\ Listing
<1>0. /\ TypeOK /\ MainConsistent /\ HandlerConsistent
      /\ current_job \in Seq(Jobs) /\ IsInjective(current_job)
  BY DEF IInv, TypeOK, OneOwner
<1> USE DEF Forking, InHand, Running, Looking
<1>a. ASSUME AddBoth(cur) \/ current_job' = Append(current_job, cur),
             pc \in InHand \union Running
      PROVE  \A j \in ToSet(current_job') : j \in ToSet(current_job) \/ cur = j
  <2>1. cur \in Jobs
    BY <1>0, <1>a DEF MainConsistent
  <2>2. /\ ToSet(Cons(cur, current_job)) = ToSet(current_job) \union {cur}
        /\ ToSet(Append(current_job, cur)) = ToSet(current_job) \union {cur}
    BY <1>0, <2>1, ConsToSet, AppendToSet
  <2>3. current_job' = Cons(cur, current_job) \/ current_job' = Append(current_job, cur)
    BY <1>a DEF AddBoth
  <2>4. ToSet(current_job') = ToSet(current_job) \union {cur}
    BY <2>2, <2>3, Zenon
  <2> QED BY <2>4
<1>b. ASSUME NEW i, Without(current_job, i, current_job')
      PROVE  ToSet(current_job') \subseteq ToSet(current_job)
  BY <1>0, <1>b, WithoutToSet
<1>1. CASE UNCHANGED vars \/ Gone
  BY <1>1 DEF Gone, vars, lists
<1>2. CASE User
  BY <1>2 DEF User, OtherLine, ExitLine, ZeroLine, StartLine, FgBgLine, lists
<1>3. CASE Main
  <2>1. CASE \/ PrintPending \/ PrintRemoved \/ Fork \/ ForkFails \/ ReadError \/ Release
             \/ ReadFirst \/ ErrorLabel \/ LaunchJob \/ WaitDone \/ GetTerminal \/ TerminalLost
    BY <2>1
       DEF PrintPending, PrintRemoved, Fork, ForkFails, ReadError, Release, ReadFirst,
           ErrorLabel, LaunchJob, WaitDone, GetTerminal, TerminalLost, lists
  <2>2. CASE FgTerminal \/ FgCont \/ BgCont \/ BgPending \/ CleanupDone
    BY <2>2 DEF FgTerminal, FgCont, BgCont, BgPending, CleanupDone, lists
  <2>3. CASE Enlist \/ FgTerminalFails \/ BgCurrent
    BY <2>3, <1>a DEF Enlist, FgTerminalFails, BgCurrent, At, Listing
  <2>4. CASE Take
    BY <2>4, <1>b DEF Take
  <2>5. CASE CleanupKill
    BY <1>0, <2>5, TailToSet DEF CleanupKill
  <2>6. ASSUME NEW p \in Procs, WaitExit(p) \/ WaitStop(p) \/ CleanupReap(p)
        PROVE  current_job' = current_job \/ (AddBoth(cur) /\ pc \in Running /\ Listing)
    BY <2>6 DEF WaitExit, WaitStop, CleanupReap, WaitCheck, At, lists, Listing
  <2> QED BY <1>3, <1>a, <2>1, <2>2, <2>3, <2>4, <2>5, <2>6 DEF Main
<1>4. CASE Handler
  <2>1. CASE Delivered \/ ScanDone \/ HandlerReturns
    BY <2>1 DEF Delivered, ScanDone, HandlerReturns, lists
  <2>2. CASE ScanNext
    BY <2>2, <1>b DEF ScanNext
  <2>3. ASSUME NEW p \in Procs, ScanExit(p) \/ ReapAny(p)
        PROVE  ToSet(current_job') \subseteq ToSet(current_job)
    BY <2>3, <1>b DEF ScanExit, ReapAny, lists
  <2>4. ASSUME NEW p \in Procs, NEW obeying \in SUBSET Members(p[1]), ScanStop(p, obeying)
        PROVE  UNCHANGED current_job
    BY <2>4 DEF ScanStop, lists
  <2> QED BY <1>4, <2>1, <2>2, <2>3, <2>4 DEF Handler
<1>5. CASE Starts \/ Children
  BY <1>5, ChildrenFrame DEF lists
<1> QED BY <1>1, <1>2, <1>3, <1>4, <1>5 DEF Next

-----------------------------------------------------------------------------
(* start_job_internal.                                                     *)
LEMMA ForkedStep == IInv /\ [Next]_vars => ForkedOnlyPipeline'
<1> SUFFICES ASSUME IInv, [Next]_vars, NEW p \in Procs, proc'[p] # "none"
             PROVE  job'[p[1]].mem # "unused" /\ p[2] <= job'[p[1]].pipeline
  BY DEF ForkedOnlyPipeline
<1>0. TypeOK /\ ForkedOnlyPipeline /\ NoDangling /\ p[1] \in Jobs
  BY DEF IInv, Procs
<1>1. CASE Fork
  <2>1. job' = job /\ nth <= job[cur].pipeline /\ job[cur].mem = "live"
    BY <1>0, <1>1 DEF Fork, At, NoDangling, Forking
  <2>2. p = <<cur, nth>> \/ proc[p] # "none"
    BY <1>0, <1>1 DEF Fork, TypeOK, KernelTypeOK
  <2> QED BY <1>0, <2>1, <2>2 DEF ForkedOnlyPipeline
<1>2. CASE ~Fork
  <2>1. proc[p] # "none"
    BY <1>2, ProcStep DEF Onward
  <2>2. job[p[1]].mem # "unused" /\ p[2] <= job[p[1]].pipeline
    BY <1>0, <2>1 DEF ForkedOnlyPipeline
  <2>3. SameJob(p[1])
    BY <1>0, <2>2, JobStep DEF Created, StartLine
  <2> QED BY <2>2, <2>3 DEF SameJob
<1> QED BY <1>1, <1>2

(* What a new command line starts from.                                    *)
LEMMA CreatedFacts ==
    ASSUME IInv, NEW j \in Jobs, Created(j)
    PROVE  /\ UNCHANGED <<kernelVars, lists, leaving, tty, errs, h>>
           /\ pc = "read_line" /\ pc' = "fork" /\ cur' = j /\ nth' = 1
           /\ job[j].mem = "unused" /\ job'[j].mem = "live"
           /\ job'[j].size = job'[j].pipeline /\ job'[j].pipeline \in 1 .. MaxPipe
           /\ \A i \in Jobs : i # j => job'[i] = job[i]
           /\ \A p \in Procs : p[1] = j => proc[p] = "none"
<1>0. job \in [Jobs -> JobRecords] /\ ForkedOnlyPipeline
  BY DEF IInv, TypeOK
<1>1. PICK bg \in BOOLEAN, n \in 1 .. MaxPipe : StartLine(j, bg, n)
  BY DEF Created
<1>2. /\ job[j].mem = "unused"
      /\ job' = [job EXCEPT ![j] = NewJob(bg, n)]
  BY <1>1 DEF StartLine
<1>3. \A p \in Procs : p[1] = j => proc[p] = "none"
  BY <1>0, <1>2 DEF ForkedOnlyPipeline
<1> QED BY <1>0, <1>1, <1>2, <1>3 DEF StartLine, NewJob, At, handler

(* The job being launched is counted down by nobody.                       *)
LEMMA LaunchedJobKept ==
    ASSUME IInv, [Next]_vars, pc \in Forking
    PROVE  job'[cur].pipeline = job[cur].pipeline /\ job'[cur].size = job[cur].size
<1>0. TypeOK /\ MainConsistent /\ OneOwner /\ cur \in Jobs
  BY DEF IInv, MainConsistent
<1>1. SameJob(cur)
  BY <1>0, JobStep DEF Created, StartLine, At, Forking
<1>2. \A p \in Procs : ~(ScanExit(p) /\ p[1] = cur)
  <2>1. cur \notin ToSet(current_job)
    BY <1>0 DEF OneOwner, HandleHeld
  <2>2. \A p \in Procs : ScanExit(p) => p[1] \in ToSet(current_job)
    BY <1>0, ContainsToSet DEF ScanExit, Scanning, Scanned, Members, TypeOK
  <2> QED BY <2>1, <2>2
<1> QED BY <1>1, <1>2 DEF SameJob

LEMMA LoopStep == IInv /\ [Next]_vars => LoopConsistent'
<1> SUFFICES ASSUME IInv, [Next]_vars PROVE LoopConsistent'
  OBVIOUS
<1>0. TypeOK /\ TypeOK' /\ MainConsistent /\ LoopConsistent
  BY TypeStep DEF IInv
<1>1. CASE pc' \notin Forking
  BY <1>1 DEF LoopConsistent, Forking
<1>2. CASE cur' \in Jobs /\ Created(cur')
  BY <1>2, CreatedFacts DEF LoopConsistent
<1>3. CASE pc' \in Forking /\ pc \in Forking /\ cur' = cur
  <2>1. /\ job'[cur].pipeline = job[cur].pipeline /\ job'[cur].size = job[cur].size
        /\ job[cur].pipeline \in 0 .. MaxPipe /\ nth \in Nat /\ nth > 0 /\ cur \in Jobs
    <3>1. cur \in Jobs /\ pc \in Forking
      BY <1>0, <1>3 DEF MainConsistent
    <3>2. job[cur] \in JobRecords /\ nth \in 1 .. MaxPipe + 1
      BY <1>0, <3>1 DEF TypeOK
    <3> QED BY <3>1, <3>2, LaunchedJobKept, MaxPipeAssumption DEF JobRecords
  <2>2. job'[cur'].size = job'[cur'].pipeline /\ job'[cur'].pipeline > 0
    BY <1>0, <1>3, <2>1 DEF LoopConsistent
  <2>3. CASE Fork
    <3>1. /\ pc = "fork" /\ nth <= job[cur].pipeline
          /\ proc' = [proc EXCEPT ![<<cur, nth>>] = "born"]
          /\ IF nth = 1 THEN nth' = 2 /\ pc' = pc ELSE pc' = "read_error" /\ nth' = nth
      BY <2>3 DEF Fork, At
    <3>2. <<cur, nth>> \in Procs
      BY <2>1, <3>1, MaxPipeAssumption DEF Procs
    <3>3. proc'[<<cur, nth>>] # "none"
      BY <1>0, <3>1, <3>2 DEF TypeOK, KernelTypeOK
    <3> QED BY <1>3, <2>1, <2>2, <3>1, <3>3 DEF LoopConsistent
  <2>4. CASE ForkFails \/ Release
    BY <1>3, <2>1, <2>2, <2>4 DEF LoopConsistent, ForkFails, Release, At
  <2>5. CASE ReadError \/ ReadFirst
    BY <1>0, <1>3, <2>1, <2>2, <2>5 DEF LoopConsistent, ReadError, ReadFirst, At, Forking
  <2>6. CASE UNCHANGED <<pc, cur, nth>> /\ ~Fork
    <3>1. pc = "read_error" => <<cur, nth>> \in Procs
      BY <1>0, <2>1, MaxPipeAssumption DEF LoopConsistent, Procs
    <3>2. pc = "read_error" => proc'[<<cur, nth>>] # "none"
      BY <1>0, <2>6, <3>1, ProcStep DEF LoopConsistent, Onward
    <3> QED BY <1>0, <2>1, <2>2, <2>6, <3>2 DEF LoopConsistent
  <2> QED BY <1>3, <2>3, <2>4, <2>5, <2>6, CurStep, CreatedFacts DEF Forking
<1>4. pc' \in Forking => \/ cur' \in Jobs /\ Created(cur')
                         \/ pc \in Forking /\ cur' = cur
  BY CurStep DEF Forking, Fork, ForkFails, Release, ReadError, ReadFirst, At
<1> QED BY <1>1, <1>2, <1>3, <1>4

-----------------------------------------------------------------------------
(* pipeline_size and the jobs that are done.                               *)

(* What the handler's first loop works on.                                 *)
LEMMA ScanExitFacts ==
    ASSUME TypeOK, NEW p \in Procs, ScanExit(p)
    PROVE  /\ p[1] \in Jobs /\ p[1] \in ToSet(current_job)
           /\ proc[p] = "zombie" /\ proc'[p] = "reaped"
           /\ job' = [job EXCEPT ![p[1]].size = job[p[1]].size - 1]
<1>1. Scanned = p[1] /\ p[1] \in Jobs /\ Scanned \in ToSet(current_job)
  BY ContainsToSet DEF ScanExit, Scanning, Scanned, Members, TypeOK, Procs
<1>2. [proc EXCEPT ![p] = "reaped"] \in [Procs -> ProcStates]
  BY DEF TypeOK, KernelTypeOK, ProcStates
<1>3. proc'[p] = "reaped"
  <2>1. proc' = Cont(Scanned, [proc EXCEPT ![p] = "reaped"])
    BY DEF ScanExit, Signalled
  <2>2. [proc EXCEPT ![p] = "reaped"][p] = "reaped"
    BY DEF TypeOK, KernelTypeOK
  <2> QED BY <1>2, <2>1, <2>2, ContMoves
<1> QED BY <1>1, <1>3 DEF ScanExit

(* The processes to be reaped do not become more after the launch.         *)
LEMMA UnreapedStep ==
    ASSUME IInv, [Next]_vars, NEW j \in Jobs, ~(Fork /\ j = cur)
    PROVE  Unreaped(j)' \subseteq Unreaped(j)
<1>1. CASE ~Fork
  BY <1>1, ProcStep DEF Unreaped, Onward
<1>2. CASE Fork /\ j # cur
  BY <1>2 DEF Fork, Unreaped, IInv, TypeOK, KernelTypeOK
<1> QED BY <1>1, <1>2

(* A job of n processes has at most n to be reaped.                        *)
LEMMA PipelineCovers ==
    ASSUME TypeOK, ForkedOnlyPipeline, NEW j \in Jobs
    PROVE  Cardinality(Unreaped(j)) <= job[j].pipeline
<1> DEFINE n == job[j].pipeline
           T == {<<j, i>> : i \in 1 .. n}
           f == [i \in 1 .. n |-> <<j, i>>]
<1>1. n \in Nat
  BY MaxPipeAssumption DEF TypeOK, JobRecords
<1> HIDE DEF n
<1>2. IsFiniteSet(1 .. n) /\ Cardinality(1 .. n) = n
  <2>1. /\ IsFiniteSet(1 .. n)
        /\ Cardinality(1 .. n) = IF 1 > n THEN 0 ELSE n - 1 + 1
    BY <1>1, FS_Interval
  <2> QED BY <1>1, <2>1
<1>3. f \in Surjection(1 .. n, T)
  BY DEF Surjection
<1>4. IsFiniteSet(T) /\ Cardinality(T) <= n
  BY <1>2, <1>3, FS_Surjection
<1>5. Unreaped(j) \subseteq T
  BY DEF Unreaped, ForkedOnlyPipeline, Procs, n
<1>6. /\ Cardinality(Unreaped(j)) <= Cardinality(T)
      /\ Cardinality(Unreaped(j)) \in Nat /\ Cardinality(T) \in Nat
  BY <1>4, <1>5, FS_Subset, FS_CardinalityType
<1> QED BY <1>1, <1>4, <1>6 DEF n

LEMMA SizeStep == IInv /\ [Next]_vars => SizeCovers'
<1> SUFFICES ASSUME IInv, [Next]_vars, NEW j \in Jobs,
                    IsListed(j)' \/ (pc' \in InHand \union Running /\ cur' = j)
             PROVE  job'[j].size >= Cardinality(Unreaped(j)')
  BY DEF SizeCovers
<1>0. /\ TypeOK /\ MainConsistent /\ LoopConsistent /\ ForkedOnlyPipeline /\ SizeCovers
      /\ OneOwner /\ NoDangling /\ TypeOK'
  BY TypeStep DEF IInv
<1>a. current_job \in Seq(Jobs) /\ current_job' \in Seq(Jobs)
  BY <1>0 DEF TypeOK
<1>b. job[j].size \in Nat
  BY <1>0, MaxPipeAssumption DEF TypeOK, JobRecords
<1>1. \/ IsListed(j)
      \/ pc \in InHand \union Running /\ cur = j
      \/ ReadFirst /\ cur = j
  <2>1. CASE IsListed(j)'
    <3>1. j \in ToSet(current_job')
      BY <1>a, <2>1, ContainsToSet DEF IsListed
    <3> QED BY <1>a, <3>1, ListStep, ContainsToSet DEF IsListed
  <2>2. CASE pc' \in InHand \union Running /\ cur' = j
    <3>1. Without(current_job, j, current_job') => j \in ToSet(current_job)
      BY <1>0, <1>a, WithoutToSet DEF OneOwner
    <3> QED BY <1>a, <2>2, <3>1, CurStep, ContainsToSet DEF IsListed
  <2> QED BY <2>1, <2>2
<1>2. ~(Fork /\ j = cur) /\ ~Created(j)
  <2>1. ~Created(j)
    BY <1>0, <1>1, <1>a, ContainsToSet
       DEF Created, StartLine, At, ReadFirst, IsListed, NoDangling, InHand, Running
  <2>2. ~(Fork /\ j = cur)
    <3>1. pc \in Forking => cur \notin ToSet(current_job)
      BY <1>0 DEF OneOwner, HandleHeld
    <3> QED BY <1>1, <1>a, <3>1, ContainsToSet
            DEF Fork, ReadFirst, At, IsListed, InHand, Running, Forking
  <2> QED BY <2>1, <2>2
<1>3. /\ IsFiniteSet(Unreaped(j)) /\ Unreaped(j)' \subseteq Unreaped(j)
      /\ Cardinality(Unreaped(j)') <= Cardinality(Unreaped(j))
      /\ Cardinality(Unreaped(j)) \in Nat /\ Cardinality(Unreaped(j)') \in Nat
  BY <1>2, UnreapedStep, UnreapedFinite, FS_Subset, FS_CardinalityType
<1>4. job[j].size >= Cardinality(Unreaped(j))
  <2>1. CASE ReadFirst /\ cur = j
    <3>1. job[j].size = job[j].pipeline
      BY <1>0, <2>1 DEF LoopConsistent, ReadFirst, At, Forking
    <3> QED BY <1>0, <3>1, PipelineCovers
  <2> QED BY <1>0, <1>1, <2>1 DEF SizeCovers
<1>5. CASE job'[j].size = job[j].size
  BY <1>b, <1>3, <1>4, <1>5
<1>6. ASSUME NEW p \in Procs, ScanExit(p), p[1] = j
      PROVE  job'[j].size >= Cardinality(Unreaped(j)')
  <2>1. /\ p \in Unreaped(j) /\ p \notin Unreaped(j)'
        /\ job'[j].size = job[j].size - 1
    <3>1. /\ proc[p] = "zombie" /\ proc'[p] = "reaped"
          /\ job' = [job EXCEPT ![j].size = job[j].size - 1]
      BY <1>0, <1>6, ScanExitFacts
    <3>2. job'[j].size = job[j].size - 1
      BY <1>0, <3>1 DEF TypeOK, JobRecords
    <3> QED BY <1>6, <3>1, <3>2 DEF Unreaped
  <2>2. Unreaped(j)' \subseteq Unreaped(j) \ {p}
    BY <1>3, <2>1
  <2>3. /\ IsFiniteSet(Unreaped(j) \ {p})
        /\ Cardinality(Unreaped(j) \ {p}) = Cardinality(Unreaped(j)) - 1
    BY <1>3, <2>1, FS_RemoveElement
  <2>4. Cardinality(Unreaped(j)') <= Cardinality(Unreaped(j)) - 1
    BY <2>2, <2>3, FS_Subset
  <2> QED BY <1>b, <1>3, <1>4, <2>1, <2>4
<1> QED BY <1>2, <1>5, <1>6, JobStep DEF SameJob

(* A job is done when the handler says so.                                 *)
LEMMA RemovedStep ==
    ASSUME IInv, [Next]_vars, NEW j \in ToSet(pending_removed_jobs')
    PROVE  \/ j \in ToSet(pending_removed_jobs)
           \/ /\ ScanNext /\ job[j].size = 0 /\ j \in ToSet(current_job)
           \/ ReapAny(Leader(j)) /\ j \in Jobs
<1>0. /\ TypeOK /\ HandlerConsistent /\ OneOwner
      /\ current_job \in Seq(Jobs) /\ pending_removed_jobs \in Seq(Jobs)
  BY DEF IInv, TypeOK
<1>a. ASSUME UNCHANGED pending_removed_jobs PROVE j \in ToSet(pending_removed_jobs)
  BY <1>a
<1>1. CASE UNCHANGED vars \/ Gone
  BY <1>1, <1>a DEF Gone, vars, lists
<1>2. CASE User
  BY <1>2, <1>a DEF User, OtherLine, ExitLine, ZeroLine, StartLine, FgBgLine, lists
<1>3. CASE Main
  <2>1. CASE \/ PrintPending \/ Fork \/ ForkFails \/ ReadError \/ Release \/ ReadFirst
             \/ ErrorLabel \/ LaunchJob \/ WaitDone \/ Enlist \/ GetTerminal \/ TerminalLost
    BY <2>1, <1>a
       DEF PrintPending, Fork, ForkFails, ReadError, Release, ReadFirst, ErrorLabel, LaunchJob,
           WaitDone, Enlist, GetTerminal, TerminalLost, lists
  <2>2. CASE \/ Take \/ FgTerminal \/ FgTerminalFails \/ FgCont \/ BgCont \/ BgCurrent
             \/ BgPending \/ CleanupKill \/ CleanupDone
    BY <2>2, <1>a
       DEF Take, FgTerminal, FgTerminalFails, FgCont, BgCont, BgCurrent, BgPending,
           CleanupKill, CleanupDone, lists
  <2>3. CASE PrintRemoved
    BY <1>0, <2>3, <1>a, TailToSet DEF PrintRemoved
  <2>4. ASSUME NEW p \in Procs, WaitExit(p) \/ WaitStop(p) \/ CleanupReap(p)
        PROVE  UNCHANGED pending_removed_jobs
    BY <2>4 DEF WaitExit, WaitStop, CleanupReap, lists
  <2> QED BY <1>3, <1>a, <2>1, <2>2, <2>3, <2>4 DEF Main
<1>4. CASE Handler
  <2>1. CASE Delivered \/ ScanDone \/ HandlerReturns
    BY <2>1, <1>a DEF Delivered, ScanDone, HandlerReturns, lists
  <2>2. CASE ScanNext
    <3>1. CASE UNCHANGED pending_removed_jobs
      BY <3>1, <1>a
    <3>2. CASE /\ job[Scanned].size = 0
               /\ Without(current_job, Scanned, current_job')
               /\ pending_removed_jobs' = Append(pending_removed_jobs, Scanned)
      <4>1. Scanned \in ToSet(current_job) /\ Scanned \in Jobs
        BY <1>0, <3>2, WithoutToSet, ContainsToSet DEF OneOwner
      <4>2. ToSet(Append(pending_removed_jobs, Scanned))
                = ToSet(pending_removed_jobs) \union {Scanned}
        BY <1>0, <4>1, AppendToSet
      <4>3. j \in ToSet(pending_removed_jobs) \/ j = Scanned
        BY <3>2, <4>2, Zenon
      <4> QED BY <2>2, <3>2, <4>1, <4>3
    <3> QED BY <2>2, <3>1, <3>2 DEF ScanNext
  <2>3. ASSUME NEW p \in Procs, ReapAny(p)
        PROVE  j \in ToSet(pending_removed_jobs) \/ (ReapAny(Leader(j)) /\ j \in Jobs)
    <3>1. CASE UNCHANGED pending_removed_jobs
      BY <3>1, <1>a
    <3>2. CASE p = Leader(p[1]) /\ pending_removed_jobs' = Cons(p[1], pending_removed_jobs)
      <4>1. p[1] \in Jobs
        BY DEF Procs
      <4>2. ToSet(Cons(p[1], pending_removed_jobs))
                = ToSet(pending_removed_jobs) \union {p[1]}
        BY <1>0, <4>1, ConsToSet
      <4>3. j \in ToSet(pending_removed_jobs) \/ j = p[1]
        BY <3>2, <4>2, Zenon
      <4> QED BY <2>3, <3>2, <4>1, <4>3
    <3> QED BY <2>3, <3>1, <3>2 DEF ReapAny
  <2>4. ASSUME NEW p \in Procs, ScanExit(p) PROVE UNCHANGED pending_removed_jobs
    BY <2>4 DEF ScanExit, lists
  <2>5. ASSUME NEW p \in Procs, NEW obeying \in SUBSET Members(p[1]), ScanStop(p, obeying)
        PROVE  UNCHANGED pending_removed_jobs
    BY <2>5 DEF ScanStop, lists
  <2> QED BY <1>4, <1>a, <2>1, <2>2, <2>3, <2>4, <2>5 DEF Handler
<1>5. CASE Starts \/ Children
  BY <1>5, <1>a, ChildrenFrame DEF lists
<1> QED BY <1>1, <1>2, <1>3, <1>4, <1>5 DEF Next

LEMMA DoneStep == IInv /\ [Next]_vars => DoneHasNoLeader'
<1> SUFFICES ASSUME IInv, [Next]_vars, NEW j \in ToSet(pending_removed_jobs')
             PROVE  proc'[Leader(j)] \in {"none", "reaped"}
  BY DEF DoneHasNoLeader
<1>0. /\ TypeOK /\ TypeOK' /\ OneOwner /\ DoneHasNoLeader /\ SizeCovers /\ HandlerConsistent
  BY TypeStep DEF IInv
<1>1. j \in Jobs /\ Leader(j) \in Procs /\ Leader(j)[1] = j
  BY <1>0, ContainsToSet, MaxPipeAssumption DEF TypeOK, Leader, Procs
<1>2. CASE j \in ToSet(pending_removed_jobs)
  <2>1. proc[Leader(j)] \in {"none", "reaped"}
    BY <1>0, <1>2 DEF DoneHasNoLeader
  <2>2. CASE Fork
    <3>1. cur # j
      BY <1>0, <1>2, <2>2 DEF Fork, At, OneOwner, HandleHeld, Forking
    <3> QED BY <1>0, <1>1, <2>1, <2>2, <3>1 DEF Fork, Leader, TypeOK, KernelTypeOK
  <2>3. CASE ~Fork
    BY <1>1, <2>1, <2>3, ProcStep DEF Onward
  <2> QED BY <2>2, <2>3
<1>3. CASE ScanNext /\ job[j].size = 0 /\ j \in ToSet(current_job)
  <2>1. IsListed(j)
    BY <1>0, <1>3, ContainsToSet DEF IsListed, TypeOK
  <2>2. Cardinality(Unreaped(j)) = 0
    BY <1>0, <1>1, <1>3, <2>1, UnreapedFinite DEF SizeCovers
  <2>3. Unreaped(j) = {}
    BY <1>1, <2>2, UnreapedFinite, FS_EmptySet
  <2> QED BY <1>0, <1>1, <1>3, <2>3 DEF Unreaped, ScanNext, kernelVars
<1>4. CASE ReapAny(Leader(j))
  BY <1>0, <1>1, <1>4 DEF ReapAny, Reap, TypeOK, KernelTypeOK
<1> QED BY <1>2, <1>3, <1>4, RemovedStep
-----------------------------------------------------------------------------
(* Who is on the way to exec, and when.                                    *)
LEMMA PassedStep == IInv /\ [Next]_vars => PassedStarted'
<1> SUFFICES ASSUME IInv, [Next]_vars, pc' \in {"fork", "read_error", "read_first"},
                    NEW p \in Procs, p[1] = cur', 2 <= p[2], p[2] < nth'
             PROVE  p \notin errs' /\ proc'[p] \notin {"none"} \union Starting
  BY DEF PassedStarted
<1>0. TypeOK /\ TypeOK' /\ LoopConsistent /\ PassedStarted /\ MainConsistent
  BY TypeStep DEF IInv
<1>a. p[2] \in Nat
  BY MaxPipeAssumption DEF Procs
<1>1. CASE cur' \in Jobs /\ Created(cur')
  <2>1. nth' = 1
    BY <1>1, CreatedFacts
  <2> QED BY <1>a, <2>1
<1>2. CASE Fork
  <2>1. /\ pc = "fork" /\ cur' = cur /\ errs' = errs /\ (nth = 1 => nth' = 2)
        /\ nth # 1 => nth' = nth
        /\ proc' = [proc EXCEPT ![<<cur, nth>>] = "born"]
    BY <1>2 DEF Fork, At
  <2>2. nth # 1 /\ nth' = nth /\ p # <<cur, nth>>
    BY <1>a, <2>1
  <2> QED BY <1>0, <2>1, <2>2 DEF PassedStarted, TypeOK, KernelTypeOK
<1>3. CASE ForkFails \/ Release \/ ReadFirst
  BY <1>0, <1>3 DEF ForkFails, Release, ReadFirst, At, PassedStarted, kernelVars
<1>4. CASE ReadError
  <2>1. /\ pc = "read_error" /\ UNCHANGED <<proc, errs, cur>>
        /\ <<cur, nth>> \notin errs /\ nth' = nth + 1
        /\ proc[<<cur, nth>>] \notin Starting /\ proc[<<cur, nth>>] # "none"
    BY <1>0, <1>4 DEF ReadError, ErrorRead, At, LoopConsistent, kernelVars
  <2>2. p[2] < nth \/ p = <<cur, nth>>
    BY <1>0, <1>a, <2>1 DEF Procs, TypeOK
  <2> QED BY <1>0, <2>1, <2>2 DEF PassedStarted
<1>5. CASE UNCHANGED <<pc, cur, nth>> /\ ~Fork
  <2>1. p \notin errs /\ proc[p] \notin {"none"} \union Starting
    BY <1>0, <1>5 DEF PassedStarted
  <2> QED BY <1>5, <2>1, ProcStep DEF Onward
<1> QED BY <1>1, <1>2, <1>3, <1>4, <1>5, CurStep DEF Forking

LEMMA MainUp == User \/ Main => Up
<1> USE DEF Up, Over
<1>1. User => Up
  BY DEF User, OtherLine, ExitLine, ZeroLine, StartLine, FgBgLine, At
<1>2. Main => Up
  BY DEF Main, PrintPending, PrintRemoved, Fork, ForkFails, ReadError, Release, ReadFirst,
         ErrorLabel, LaunchJob, WaitDone, Enlist, GetTerminal, TerminalLost, WaitExit, WaitStop,
         CleanupReap, Take, FgTerminal, FgTerminalFails, FgCont, BgCont, BgCurrent, BgPending,
         CleanupKill, CleanupDone, At, Looking
<1> QED BY <1>1, <1>2

(* A shell that crashed does nothing more.                                 *)
LEMMA CrashStays ==
    ASSUME IInv, [Next]_vars, pc = "crashed"
    PROVE  UNCHANGED vars
<1>1. ~Up
  BY DEF Up, Over
<1>2. ~User /\ ~Main /\ ~Handler /\ ~Starts /\ ~Children
  BY <1>1, MainUp, HandlerFrame, ChildrenFrame DEF IInv
<1> QED BY <1>2 DEF Next, Gone

(* How start_job_internal is left.                                         *)
LEMMA ForkingStep ==
    ASSUME IInv, [Next]_vars, pc \in Forking
    PROVE  \/ pc' \in Forking /\ cur' = cur
           \/ ErrorLabel
           \/ ReadFirst /\ Leader(cur) \notin errs
           \/ pc' = "crashed"
<1> USE DEF Forking
<1>0. TypeOK /\ HandlerConsistent
  BY DEF IInv
<1>1. CASE UNCHANGED vars \/ Gone
  BY <1>1 DEF Gone, vars
<1>2. ~User
  BY DEF User, OtherLine, ExitLine, ZeroLine, StartLine, FgBgLine, At
<1>3. CASE Main
  <2>1. CASE Fork \/ ForkFails \/ ReadError \/ Release \/ ReadFirst \/ ErrorLabel
    BY <2>1 DEF Fork, ForkFails, ReadError, Release, ReadFirst, At
  <2>2. ~\/ PrintPending \/ PrintRemoved \/ LaunchJob \/ WaitDone \/ Enlist
         \/ GetTerminal \/ TerminalLost \/ Take \/ FgTerminal \/ FgTerminalFails \/ FgCont
         \/ BgCont \/ BgCurrent \/ BgPending \/ CleanupKill \/ CleanupDone
    BY DEF PrintPending, PrintRemoved, LaunchJob, WaitDone, Enlist, GetTerminal, TerminalLost,
           Take, FgTerminal, FgTerminalFails, FgCont, BgCont, BgCurrent, BgPending,
           CleanupKill, CleanupDone, At, Looking
  <2>3. ~\E p \in Procs : WaitExit(p) \/ WaitStop(p) \/ CleanupReap(p)
    BY DEF WaitExit, WaitStop, CleanupReap, At
  <2> QED BY <1>3, <2>1, <2>2, <2>3 DEF Main
<1>4. CASE Handler
  BY <1>0, <1>4, HandlerFrame
<1>5. CASE Starts \/ Children
  BY <1>5, ChildrenFrame
<1> QED BY <1>1, <1>2, <1>3, <1>4, <1>5 DEF Next

LEMMA SightStep == IInv /\ [Next]_vars => LeaderInSight'
<1> SUFFICES ASSUME IInv, [Next]_vars, NEW j \in Jobs, proc'[Leader(j)] \in Starting
             PROVE  /\ Leader(j) \in grouped'
                    /\ (pc' \in Forking /\ cur' = j) \/ pc' = "crashed"
  BY DEF LeaderInSight
<1>0. /\ TypeOK /\ LeaderInSight /\ MainConsistent /\ HandlerConsistent
      /\ Leader(j) \in Procs /\ Leader(j)[1] = j
  BY MaxPipeAssumption DEF IInv, Leader, Procs
<1>1. CASE Fork
  <2>1. /\ pc = "fork" /\ pc' \in Forking /\ cur' = cur /\ cur \in Jobs
        /\ grouped \subseteq grouped'
        /\ proc' = [proc EXCEPT ![<<cur, nth>>] = "born"]
        /\ nth = 1 => <<cur, nth>> \in grouped'
    BY <1>0, <1>1 DEF Fork, At, Forking, MainConsistent
  <2>2. CASE Leader(j) = <<cur, nth>>
    BY <2>1, <2>2 DEF Leader
  <2>3. CASE Leader(j) # <<cur, nth>>
    <3>1. proc[Leader(j)] \in Starting
      BY <1>0, <2>1, <2>3 DEF TypeOK, KernelTypeOK
    <3> QED BY <1>0, <2>1, <3>1 DEF LeaderInSight
  <2> QED BY <2>2, <2>3
<1>2. CASE ~Fork
  <2>1. proc[Leader(j)] \in Starting /\ (Leader(j) \in grouped => Leader(j) \in grouped')
    BY <1>0, <1>2, ProcStep DEF Onward, Starting
  <2>2. Leader(j) \in grouped /\ ((pc \in Forking /\ cur = j) \/ pc = "crashed")
    BY <1>0, <2>1 DEF LeaderInSight
  <2>3. ~ErrorLabel
    <3>1. SUFFICES ASSUME ErrorLabel PROVE FALSE
      OBVIOUS
    <3>2. proc' = TermCont(cur, proc) /\ cur = j
      BY <2>2, <3>1 DEF ErrorLabel, At, Signalled
    <3>3. Leader(j) \in Members(j)
      BY <1>0, <2>2 DEF Members
    <3> QED BY <1>0, <3>2, <3>3, TermContMoves DEF TypeOK, KernelTypeOK
  <2>4. ~(ReadFirst /\ Leader(cur) \notin errs)
    BY <2>1, <2>2, <1>0 DEF ReadFirst, At, ErrorRead
  <2>5. CASE pc \in Forking /\ cur = j
    BY <2>1, <2>2, <2>3, <2>4, <2>5, ForkingStep
  <2>6. CASE pc = "crashed"
    BY <2>1, <2>2, <2>6, CrashStays DEF vars
  <2> QED BY <2>1, <2>2, <2>5, <2>6
<1> QED BY <1>1, <1>2

LEMMA KeptStep == IInv /\ [Next]_vars => LeaderKept'
<1> SUFFICES ASSUME IInv, [Next]_vars, pc' \in {"fork", "read_error"}
             PROVE  proc'[Leader(cur')] \notin Awake
  BY DEF LeaderKept, Awake
<1>0. TypeOK /\ LeaderKept /\ MainConsistent /\ LoopConsistent
  BY DEF IInv
<1>1. CASE cur' \in Jobs /\ Created(cur')
  <2>1. Leader(cur') \in Procs /\ Leader(cur')[1] = cur'
    BY <1>1, MaxPipeAssumption DEF Leader, Procs
  <2>2. proc'[Leader(cur')] = "none"
    BY <1>1, <2>1, CreatedFacts DEF kernelVars
  <2> QED BY <2>2 DEF Awake, Halted
<1>2. CASE pc \in {"fork", "read_error"} /\ cur' = cur
  <2>1. /\ cur \in Jobs /\ Leader(cur) \in Procs /\ Leader(cur)[1] = cur
        /\ proc[Leader(cur)] \notin Awake
    BY <1>0, <1>2, MaxPipeAssumption
       DEF MainConsistent, Forking, Leader, Procs, LeaderKept, Awake
  <2>2. CASE Fork
    BY <1>0, <1>2, <2>1, <2>2 DEF Fork, TypeOK, KernelTypeOK, Awake, Halted
  <2>3. CASE ~Fork
    <3>1. ~Exec(Leader(cur))
      BY <1>2, <2>1 DEF Exec, ReadyToExec, ControlClosed
    <3> QED BY <1>2, <2>1, <2>3, <3>1, ProcStep DEF Onward
  <2> QED BY <2>2, <2>3
<1> QED BY <1>1, <1>2, CurStep DEF Forking, Fork, ForkFails, ReadError, Release, ReadFirst, At

LEMMA AllStep == IInv /\ [Next]_vars => AllOrNothing'
<1> SUFFICES ASSUME IInv, [Next]_vars, pc' # "crashed", NEW p \in Procs,
                    proc'[Leader(p[1])] \in Awake, p # Leader(p[1]),
                    p[2] <= job'[p[1]].pipeline
             PROVE  p \notin errs' /\ proc'[p] \notin {"none"} \union Starting
  BY DEF AllOrNothing, Awake
<1> DEFINE j == p[1]
           l == Leader(j)
<1>0. /\ TypeOK /\ TypeOK' /\ HandlerConsistent /\ MainConsistent
      /\ LoopConsistent /\ PassedStarted /\ LeaderInSight /\ LeaderKept /\ AllOrNothing
      /\ ForkedOnlyPipeline
  BY TypeStep DEF IInv
<1>a. j \in Jobs /\ l \in Procs /\ l[1] = j /\ p[2] \in 1 .. MaxPipe /\ p = <<j, p[2]>>
  BY MaxPipeAssumption DEF Leader, Procs
<1>b. p[2] >= 2
  BY <1>a, MaxPipeAssumption DEF Leader
<1>c. pc # "crashed"
  BY CrashStays DEF vars
<1>1. CASE proc[l] \in Awake
  <2>1. SameJob(j)
    BY <1>0, <1>1, <1>a, JobStep, CreatedFacts DEF Awake, Halted
  <2>2. p \notin errs /\ proc[p] \notin {"none"} \union Starting
    BY <1>0, <1>1, <1>c, <2>1 DEF AllOrNothing, SameJob, Awake
  <2>3. CASE Fork
    <3>1. j # cur
      BY <1>1, <1>0, <2>3 DEF Fork, At, LeaderKept, Awake
    <3> QED BY <1>0, <1>a, <2>2, <2>3, <3>1 DEF Fork, TypeOK, KernelTypeOK
  <2>4. CASE ~Fork
    BY <2>2, <2>4, ProcStep DEF Onward
  <2> QED BY <2>3, <2>4
<1>2. CASE proc[l] \notin Awake
  <2>1. ~Fork
    BY <1>0, <1>2, <1>a DEF Fork, TypeOK, KernelTypeOK, Awake, Halted
  <2>2. Exec(l)
    BY <1>2, <1>a, <2>1, ProcStep DEF Onward
  <2>3. /\ ControlClosed(j) /\ proc[l] \in Starting
        /\ UNCHANGED <<job, errs>> /\ proc' = [proc EXCEPT ![l] = "run"]
    BY <1>a, <2>2 DEF Exec, ReadyToExec, Starting
  <2>4. pc = "read_first" /\ cur = j
    BY <1>0, <1>a, <1>c, <2>3 DEF LeaderInSight, ControlClosed, Forking
  <2>5. p[2] < nth
    BY <1>0, <1>a, <2>3, <2>4, MaxPipeAssumption DEF LoopConsistent, TypeOK, JobRecords
  <2>6. p \notin errs /\ proc[p] \notin {"none"} \union Starting
    BY <1>0, <1>b, <2>4, <2>5 DEF PassedStarted
  <2> QED BY <1>0, <1>a, <2>3, <2>6 DEF TypeOK, KernelTypeOK
<1> QED BY <1>1, <1>2

(* The terminal.                                                           *)
LEMMA TerminalStep == IInv /\ [Next]_vars => TerminalKept'
<1> SUFFICES ASSUME IInv, [Next]_vars,
                    pc' \in AtPrompt \union Looking
                            \union {"fg_terminal", "bg_cont", "bg_current", "bg_pending"},
                    leaving' = "no"
             PROVE  tty' = Shell
  BY DEF TerminalKept
<1>0. /\ TypeOK /\ TerminalKept /\ MainConsistent /\ HandlerConsistent
      /\ LeaderInSight
  BY DEF IInv
<1>a. pc \in AtPrompt \union Looking \union {"fg_terminal", "bg_cont", "bg_current", "bg_pending"}
      /\ leaving = "no" => tty = Shell
  BY <1>0 DEF TerminalKept
<1> USE DEF AtPrompt, Looking
<1>1. CASE UNCHANGED vars \/ Gone
  BY <1>1, <1>a DEF Gone, vars
<1>2. CASE User
  BY <1>2, <1>a DEF User, OtherLine, ExitLine, ZeroLine, StartLine, FgBgLine, Crash, At
<1>3. CASE Main
  <2>1. CASE GetTerminal
    BY <2>1 DEF GetTerminal
  <2>2. CASE \/ PrintPending \/ PrintRemoved \/ FgTerminalFails \/ BgCont \/ BgCurrent
             \/ BgPending
    BY <2>2, <1>a
       DEF PrintPending, PrintRemoved, FgTerminalFails, BgCont, BgCurrent, BgPending, At
  <2>3. CASE \/ Fork \/ ForkFails \/ ReadError \/ Release \/ ReadFirst \/ ErrorLabel
             \/ LaunchJob \/ WaitDone \/ Enlist \/ TerminalLost
    BY <2>3 DEF Fork, ForkFails, ReadError, Release, ReadFirst, ErrorLabel, LaunchJob,
                WaitDone, Enlist, TerminalLost, At
  <2>4. CASE FgTerminal \/ FgCont \/ CleanupKill \/ CleanupDone
    BY <1>0, <2>4 DEF FgTerminal, FgCont, CleanupKill, CleanupDone, At, MainConsistent, Leaving
  <2>5. CASE Take
    BY <2>5, <1>a DEF Take, Crash, At
  <2>6. ASSUME NEW p \in Procs, WaitExit(p) \/ WaitStop(p) \/ CleanupReap(p)
        PROVE  FALSE
    BY <2>6 DEF WaitExit, WaitStop, WaitCheck, CleanupReap, At
  <2> QED BY <1>3, <2>1, <2>2, <2>3, <2>4, <2>5, <2>6 DEF Main
<1>4. CASE Handler
  BY <1>0, <1>4, <1>a, HandlerFrame
<1>5. CASE Starts
  <2>1. ASSUME NEW j \in Jobs, LeaderReady(j) PROVE tty' = Shell
    <3>1. proc[Leader(j)] \in Starting /\ pc' = pc /\ Up
      BY <2>1 DEF LeaderReady, Starting
    <3>2. FALSE
      BY <1>0, <3>1 DEF LeaderInSight, Forking, Up, Over
    <3> QED BY <3>2
  <2>2. ASSUME NEW p \in Procs, Exec(p) PROVE tty' = Shell
    BY <2>2, <1>a DEF Exec
  <2> QED BY <1>5, <2>1, <2>2 DEF Starts
<1>6. CASE Children
  BY <1>6, <1>a DEF Children, ChildFails, Die, Stop, ContinuedOutside
<1> QED BY <1>1, <1>2, <1>3, <1>4, <1>5, <1>6 DEF Next

-----------------------------------------------------------------------------
(* The inductive invariant.                                                *)
LEMMA StepIInv == IInv /\ [Next]_vars => IInv'
BY TypeStep, ConsistentStep, OwnerStep, ForkedStep, LoopStep, SizeStep, DoneStep,
   PassedStep, SightStep, KeptStep, TerminalStep, AllStep
   DEF IInv

(* The inductive invariant holds: whoever holds a job, what is counted and  *)
(* who has the terminal agree at every step of the shell, of the handler    *)
(* and of the children.                                                     *)
THEOREM Invariance == Spec => []IInv
BY InitIInv, StepIInv, PTL DEF Spec

-----------------------------------------------------------------------------
(* The theorems.                                                           *)

(* Every variable has its type: pipeline_size in particular, an unsigned   *)
(* counter that the handler decrements for every exit it sees, never runs  *)
(* below zero.                                                             *)
THEOREM TypeCorrect == Spec => []TypeOK
<1>1. IInv => TypeOK
  BY DEF IInv
<1> QED BY <1>1, Invariance, PTL

(* No job is in two hands at once.                                         *)
THEOREM NoTwoOwners == Spec => []OneOwner
<1>1. IInv => OneOwner
  BY DEF IInv
<1> QED BY <1>1, Invariance, PTL

(* A job is freed after its last use, longjmp's way out excepted.          *)
THEOREM NoUseAfterFree == Spec => []NoDangling
<1>1. IInv => NoDangling
  BY DEF IInv
<1> QED BY <1>1, Invariance, PTL

(* pipeline_size covers what waitpid still has to report.                  *)
THEOREM SizeIsEnough == Spec => []SizeCovers
<1>1. IInv => SizeCovers
  BY DEF IInv
<1> QED BY <1>1, Invariance, PTL

(* Whatever is announced as done has lost its leader.                      *)
THEOREM DoneIsLeaderless == Spec => []DoneHasNoLeader
<1>1. IInv => DoneHasNoLeader
  BY DEF IInv
<1> QED BY <1>1, Invariance, PTL

(* The shell has its terminal back whenever it prompts.                    *)
THEOREM TerminalComesHome == Spec => []TerminalHome
<1>1. IInv => TerminalHome
  BY DEF IInv, TerminalKept, TerminalHome
<1> QED BY <1>1, Invariance, PTL

(* A pipeline starts as a whole or not at all.                             *)
THEOREM WholePipeline == Spec => []AllOrNothing
<1>1. IInv => AllOrNothing
  BY DEF IInv
<1> QED BY <1>1, Invariance, PTL

-----------------------------------------------------------------------------
(* The job in hand and the one that is waited for: a second invariant,     *)
(* WaitInv, on top of IInv.  It follows the terminal, the flags of the job *)
(* and wait_for_fg_job's count from the moment the job is taken in hand.   *)
Stopped(j) == {p \in Members(j) : proc[p] = "stopped"}

(* The terminal of a job in the foreground, from its leader's tcsetpgrp,   *)
(* or fg's, until the shell takes it back.                                 *)
OwnsTerminal ==
    /\ pc \in Forking /\ job[cur].fg =>
           tty = cur \/ proc[Leader(cur)] \in {"none", "born", "zombie", "reaped"}
    /\ pc \in {"launch_job", "wait"} /\ job[cur].fg =>
           tty = cur \/ proc[Leader(cur)] \in {"zombie", "reaped"}
    /\ pc = "fg_cont" => tty = cur
    /\ pc = "wait" => job[cur].fg
    /\ pc \in Forking /\ nth > 1 => proc[Leader(cur)] # "none"

(* The flags of a job.                                                     *)
LEMMA JobFlags ==
    ASSUME NEW g \in [Jobs -> JobRecords], NEW j \in Jobs, NEW v, NEW i \in Jobs
    PROVE  /\ [g EXCEPT ![j].mem = v][i].fg = g[i].fg
           /\ [g EXCEPT ![j].mem = v][i].stopped = g[i].stopped
           /\ [g EXCEPT ![j].size = v][i].fg = g[i].fg
           /\ [g EXCEPT ![j].size = v][i].stopped = g[i].stopped
           /\ [g EXCEPT ![j].stopped = v][i].fg = g[i].fg
           /\ [g EXCEPT ![j].stopped = v][i].stopped = IF i = j THEN v ELSE g[i].stopped
<1>1. g[i] \in JobRecords /\ g[j] \in JobRecords
  OBVIOUS
<1> QED BY <1>1 DEF JobRecords

LEMMA JobTwoFlags ==
    ASSUME NEW g \in [Jobs -> JobRecords], NEW j \in Jobs, NEW i \in Jobs
    PROVE  /\ [g EXCEPT ![j].stopped = FALSE, ![j].fg = TRUE][i].fg
                  = IF i = j THEN TRUE ELSE g[i].fg
           /\ i # j => [g EXCEPT ![j].stopped = FALSE, ![j].fg = TRUE][i] = g[i]
           /\ [g EXCEPT ![j].fg = FALSE, ![j].stopped = TRUE][i].stopped
                  = IF i = j THEN TRUE ELSE g[i].stopped
           /\ i # j => [g EXCEPT ![j].fg = FALSE, ![j].stopped = TRUE][i] = g[i]
<1> DEFINE s == [g EXCEPT ![j].stopped = FALSE]
           f == [g EXCEPT ![j].fg = FALSE]
<1>1. g[j] \in JobRecords
  OBVIOUS
<1>2. /\ [g[j] EXCEPT !.stopped = FALSE] \in JobRecords
      /\ [g[j] EXCEPT !.fg = FALSE] \in JobRecords
  BY <1>1 DEF JobRecords
<1>3. s \in [Jobs -> JobRecords] /\ f \in [Jobs -> JobRecords]
  BY <1>2
<1>4. s[j] \in JobRecords /\ f[j] \in JobRecords
  BY <1>3
<1>5. /\ [g EXCEPT ![j].stopped = FALSE, ![j].fg = TRUE] = [s EXCEPT ![j].fg = TRUE]
      /\ [g EXCEPT ![j].fg = FALSE, ![j].stopped = TRUE] = [f EXCEPT ![j].stopped = TRUE]
  OBVIOUS
<1>6. i # j => s[i] = g[i] /\ f[i] = g[i]
  BY <1>1
<1> HIDE DEF s, f
<1>7. /\ [s[j] EXCEPT !.fg = TRUE].fg = TRUE
      /\ [f[j] EXCEPT !.stopped = TRUE].stopped = TRUE
  BY <1>4 DEF JobRecords
<1> QED BY <1>3, <1>5, <1>6, <1>7

(* How the flags of a job change.                                          *)
LEMMA FlagStep ==
    ASSUME IInv, [Next]_vars, NEW i \in Jobs
    PROVE  \/ Created(i)
           \/ job'[i].fg = job[i].fg /\ (job[i].stopped => job'[i].stopped)
           \/ /\ cur = i
              /\ \/ FgCont /\ job'[i].fg
                 \/ BgCont /\ job'[i].fg = job[i].fg
                 \/ pc = "wait" /\ pc' = "get_terminal" /\ job'[i].stopped
<1> DEFINE Same == job'[i].fg = job[i].fg /\ (job[i].stopped => job'[i].stopped)
<1>0. TypeOK /\ job \in [Jobs -> JobRecords]
  BY DEF IInv, TypeOK
<1>1. CASE UNCHANGED vars \/ Gone
  BY <1>1 DEF Gone, vars
<1>2. CASE User
  <2>1. ASSUME NEW j \in Jobs, NEW bg \in BOOLEAN, NEW n \in 1 .. MaxPipe, StartLine(j, bg, n)
        PROVE  Created(i) \/ Same
    <3>1. CASE j = i
      BY <2>1, <3>1 DEF Created
    <3>2. CASE j # i
      BY <1>0, <2>1, <3>2 DEF StartLine
    <3> QED BY <3>1, <3>2
  <2>2. CASE \/ OtherLine \/ ExitLine \/ ZeroLine
             \/ \E k \in 1 .. Len(current_job), take \in Looking : FgBgLine(k, take)
    BY <2>2 DEF OtherLine, ExitLine, ZeroLine, FgBgLine
  <2> QED BY <1>2, <2>1, <2>2 DEF User
<1>3. CASE Main
  <2>1. CASE \/ PrintPending \/ Fork \/ ForkFails \/ ReadError \/ Release \/ ReadFirst
             \/ ErrorLabel \/ LaunchJob \/ WaitDone \/ Enlist \/ GetTerminal \/ TerminalLost
    BY <2>1
       DEF PrintPending, Fork, ForkFails, ReadError, Release, ReadFirst, ErrorLabel, LaunchJob,
           WaitDone, Enlist, GetTerminal, TerminalLost
  <2>2. CASE Take \/ FgTerminal \/ FgTerminalFails \/ BgCurrent \/ BgPending \/ CleanupDone
    BY <2>2 DEF Take, FgTerminal, FgTerminalFails, BgCurrent, BgPending, CleanupDone
  <2>3. CASE PrintRemoved \/ CleanupKill
    <3>1. /\ pending_removed_jobs # <<>> => Head(pending_removed_jobs) \in Jobs
          /\ current_job # <<>> => Head(current_job) \in Jobs
      BY <1>0, TailToSet DEF TypeOK
    <3>2. job' = job \/ \E j \in Jobs : job' = [job EXCEPT ![j].mem = "freed"]
      BY <2>3, <3>1 DEF PrintRemoved, CleanupKill
    <3>3. ASSUME NEW j \in Jobs, job' = [job EXCEPT ![j].mem = "freed"] PROVE Same
      BY <1>0, <3>3, JobFlags
    <3> QED BY <3>2, <3>3
  <2>4. CASE FgCont
    <3>1. cur \in Jobs /\ job' = [job EXCEPT ![cur].stopped = FALSE, ![cur].fg = TRUE]
      BY <2>4 DEF FgCont, At, IInv, MainConsistent, InHand
    <3>2. job'[cur].fg /\ (i # cur => job'[i] = job[i])
      BY <1>0, <3>1, JobTwoFlags
    <3> QED BY <2>4, <3>2
  <2>5. CASE BgCont
    <3>1. cur \in Jobs /\ job' = [job EXCEPT ![cur].stopped = FALSE]
      BY <2>5 DEF BgCont, At, IInv, MainConsistent, InHand
    <3> QED BY <1>0, <2>5, <3>1, JobFlags
  <2>6. ASSUME NEW p \in Procs, WaitExit(p) \/ WaitStop(p) \/ CleanupReap(p)
        PROVE  \/ Same
               \/ cur = i /\ pc = "wait" /\ pc' = "get_terminal" /\ job'[i].stopped
    <3>1. \/ job' = job
          \/ /\ job' = [job EXCEPT ![cur].fg = FALSE, ![cur].stopped = TRUE]
             /\ cur \in Jobs /\ pc = "wait" /\ pc' = "get_terminal"
      BY <2>6 DEF WaitExit, WaitStop, CleanupReap, WaitCheck, At, IInv, MainConsistent, Running
    <3>2. CASE job' = [job EXCEPT ![cur].fg = FALSE, ![cur].stopped = TRUE] /\ cur \in Jobs
      <4>1. job'[cur].stopped /\ (i # cur => job'[i] = job[i])
        BY <1>0, <3>2, JobTwoFlags
      <4> QED BY <3>1, <4>1
    <3> QED BY <3>1, <3>2
  <2> QED BY <1>3, <2>1, <2>2, <2>3, <2>4, <2>5, <2>6 DEF Main
<1>4. CASE Handler
  <2>1. CASE Delivered \/ ScanNext \/ ScanDone \/ HandlerReturns
    BY <2>1 DEF Delivered, ScanNext, ScanDone, HandlerReturns
  <2>2. ASSUME NEW p \in Procs, ReapAny(p) PROVE Same
    BY <2>2 DEF ReapAny
  <2>3. ASSUME NEW p \in Procs, ScanExit(p) PROVE Same
    <3>1. p[1] \in Jobs /\ job' = [job EXCEPT ![p[1]].size = job[p[1]].size - 1]
      BY <1>0, <2>3, ScanExitFacts
    <3> QED BY <1>0, <3>1, JobFlags
  <2>4. ASSUME NEW p \in Procs, NEW obeying \in SUBSET Members(p[1]), ScanStop(p, obeying)
        PROVE  Same
    <3>1. Scanned \in Jobs /\ job' = [job EXCEPT ![Scanned].stopped = TRUE]
      BY <2>4 DEF ScanStop, Members, Procs, IInv, TypeOK, KernelTypeOK
    <3> QED BY <1>0, <3>1, JobFlags
  <2> QED BY <1>4, <2>1, <2>2, <2>3, <2>4 DEF Handler
<1>5. CASE Starts \/ Children
  BY <1>5, ChildrenFrame
<1> QED BY <1>1, <1>2, <1>3, <1>4, <1>5 DEF Next

(* Who gives the terminal away.                                            *)
LEMMA TtyStep ==
    ASSUME IInv, [Next]_vars
    PROVE  tty' = tty \/ GetTerminal \/ FgTerminal \/ \E j \in Jobs : LeaderReady(j)
<1>1. CASE UNCHANGED vars \/ Gone
  BY <1>1 DEF Gone, vars
<1>2. CASE User
  BY <1>2 DEF User, OtherLine, ExitLine, ZeroLine, StartLine, FgBgLine
<1>3. CASE Main
  <2>1. CASE \/ PrintPending \/ PrintRemoved \/ Fork \/ ForkFails \/ ReadError \/ Release
             \/ ReadFirst \/ ErrorLabel \/ LaunchJob \/ WaitDone \/ Enlist \/ GetTerminal
             \/ TerminalLost
    BY <2>1
       DEF PrintPending, PrintRemoved, Fork, ForkFails, ReadError, Release, ReadFirst,
           ErrorLabel, LaunchJob, WaitDone, Enlist, TerminalLost
  <2>2. CASE \/ Take \/ FgTerminal \/ FgTerminalFails \/ FgCont \/ BgCont \/ BgCurrent
             \/ BgPending \/ CleanupKill \/ CleanupDone
    BY <2>2 DEF Take, FgTerminalFails, FgCont, BgCont, BgCurrent, BgPending, CleanupKill,
                CleanupDone
  <2>3. ASSUME NEW p \in Procs, WaitExit(p) \/ WaitStop(p) \/ CleanupReap(p)
        PROVE  tty' = tty
    BY <2>3 DEF WaitExit, WaitStop, CleanupReap
  <2> QED BY <1>3, <2>1, <2>2, <2>3 DEF Main
<1>4. CASE Handler
  BY <1>4, HandlerFrame DEF IInv
<1>5. CASE Starts \/ Children
  BY <1>5 DEF Starts, Children, Exec, ChildFails, Die, Stop, ContinuedOutside
<1> QED BY <1>1, <1>2, <1>3, <1>4, <1>5 DEF Next

-----------------------------------------------------------------------------
(* More of what a step does to a process: who takes a leader to the        *)
(* control pipe, who reports a stop, who leaves the group.                 *)
Reported(p) ==
    WaitStop(p) \/ \E obeying \in SUBSET Members(p[1]) : ScanStop(p, obeying)

Farther(p) ==
    /\ p = Leader(p[1]) /\ proc'[p] \in {"held", "iced"} =>
           proc[p] \in {"held", "iced"} \/ LeaderReady(p[1])
    /\ proc'[p] = "stopped" => proc[p] = "stopped" \/ Reported(p)
    /\ p \in grouped' => p \in grouped \/ proc'[p] = "born"
    /\ p \in grouped' /\ proc'[p] = "reaped" => proc[p] = "reaped"

LEMMA FartherSignalled ==
    ASSUME TypeOK, NEW f \in [Procs -> ProcStates], NEW j, NEW p \in Procs,
           proc' \in {f, Cont(j, f), TermCont(j, f)},
           \/ f[p] = proc[p]
           \/ f[p] = "reaped" /\ p \notin grouped'
           \/ f[p] = "stopped" /\ Reported(p),
           grouped' \subseteq grouped
    PROVE  Farther(p)
<1>1. /\ p = Leader(p[1]) /\ proc'[p] \in {"held", "iced"} => f[p] \in {"held", "iced"}
      /\ proc'[p] = "stopped" => f[p] = "stopped"
      /\ proc'[p] = "reaped" => f[p] = "reaped"
  BY DEF Cont, TermCont, Resumed, ProcStates, Starting, Halted
<1> QED BY <1>1 DEF Farther

LEMMA FartherStep ==
    ASSUME IInv, [Next]_vars, NEW p \in Procs
    PROVE  Farther(p)
<1>0. TypeOK /\ proc \in [Procs -> ProcStates]
  BY DEF IInv, TypeOK, KernelTypeOK
<1>a. ASSUME UNCHANGED <<proc, grouped>> PROVE Farther(p)
  BY <1>a DEF Farther
<1>b. ASSUME NEW q \in Procs, NEW j,
             LET f == [proc EXCEPT ![q] = "reaped"] IN proc' \in {f, Cont(j, f), TermCont(j, f)},
             grouped' = grouped \ {q}
      PROVE  Farther(p)
  <2> DEFINE f == [proc EXCEPT ![q] = "reaped"]
  <2>1. /\ f \in [Procs -> ProcStates]
        /\ p # q => f[p] = proc[p]
        /\ p = q => f[p] = "reaped" /\ p \notin grouped'
    <3>1. grouped' = grouped \ {q}
      BY <1>b
    <3> QED BY <1>0, <3>1 DEF ProcStates
  <2>2. proc' \in {f, Cont(j, f), TermCont(j, f)}
    BY <1>b
  <2> HIDE DEF f
  <2> QED BY <1>0, <1>b, <2>1, <2>2, FartherSignalled
<1>1. CASE UNCHANGED vars \/ Gone
  BY <1>1, <1>a DEF Gone, vars, kernelVars
<1>2. CASE User
  BY <1>2, <1>a DEF User, OtherLine, ExitLine, ZeroLine, StartLine, FgBgLine, kernelVars
<1>3. CASE Main
  <2>1. CASE \/ PrintPending \/ PrintRemoved \/ ForkFails \/ ReadError \/ Release \/ ReadFirst
             \/ LaunchJob \/ WaitDone \/ Enlist \/ GetTerminal \/ TerminalLost
    BY <2>1, <1>a
       DEF PrintPending, PrintRemoved, ForkFails, ReadError, Release, ReadFirst, LaunchJob,
           WaitDone, Enlist, GetTerminal, TerminalLost, kernelVars
  <2>2. CASE Take \/ FgTerminal \/ FgTerminalFails \/ BgCurrent \/ BgPending \/ CleanupDone
    BY <2>2, <1>a
       DEF Take, FgTerminal, FgTerminalFails, BgCurrent, BgPending, CleanupDone, kernelVars
  <2>3. CASE Fork
    BY <1>0, <2>3 DEF Fork, Farther
  <2>4. CASE ErrorLabel \/ FgCont \/ BgCont
    <3>1. proc' \in {Cont(cur, proc), TermCont(cur, proc)} /\ UNCHANGED grouped
      BY <2>4 DEF ErrorLabel, FgCont, BgCont, Signalled
    <3> QED BY <1>0, <3>1, FartherSignalled
  <2>5. CASE CleanupKill
    <3>1. proc' \in {proc, Cont(Head(current_job), proc)} /\ UNCHANGED grouped
      BY <2>5 DEF CleanupKill, Signalled
    <3> QED BY <1>0, <3>1, FartherSignalled
  <2>6. ASSUME NEW q \in Procs, WaitExit(q) \/ CleanupReap(q)
        PROVE  Farther(p)
    BY <1>b, <2>6 DEF WaitExit, CleanupReap, Reap, Signalled
  <2>7. ASSUME NEW q \in Procs, WaitStop(q)
        PROVE  Farther(p)
    <3> DEFINE g == [proc EXCEPT ![q] = "stopped"]
    <3>1. /\ g \in [Procs -> ProcStates] /\ proc' \in {g, TermCont(cur, g)}
          /\ UNCHANGED grouped
      BY <1>0, <2>7 DEF WaitStop, Signalled, ProcStates, Halted
    <3>2. g[p] = proc[p] \/ (g[p] = "stopped" /\ Reported(p))
      BY <1>0, <2>7 DEF Reported
    <3> HIDE DEF g
    <3> QED BY <1>0, <3>1, <3>2, FartherSignalled
  <2> QED BY <1>3, <2>1, <2>2, <2>3, <2>4, <2>5, <2>6, <2>7 DEF Main
<1>4. CASE Handler
  <2>1. CASE Delivered \/ ScanNext \/ ScanDone \/ HandlerReturns
    BY <2>1, <1>a DEF Delivered, ScanNext, ScanDone, HandlerReturns, kernelVars
  <2>2. ASSUME NEW q \in Procs, ScanExit(q) \/ ReapAny(q)
        PROVE  Farther(p)
    BY <1>b, <2>2 DEF ScanExit, ReapAny, Reap, Signalled
  <2>3. ASSUME NEW q \in Procs, NEW obeying \in SUBSET Members(q[1]), ScanStop(q, obeying)
        PROVE  Farther(p)
    <3>1. p = q => Reported(p)
      BY <2>3 DEF Reported
    <3>2. /\ proc'[p] \in {proc[p], "stopping"} \/ (p = q /\ proc'[p] = "stopped")
          /\ UNCHANGED grouped
      BY <1>0, <2>3 DEF ScanStop, Signalled
    <3> QED BY <3>1, <3>2 DEF Farther
  <2> QED BY <1>4, <2>1, <2>2, <2>3 DEF Handler
<1>5. CASE Starts
  <2>1. ASSUME NEW j \in Jobs, LeaderReady(j)
        PROVE  Farther(p)
    <3>1. \/ proc'[p] = proc[p]
          \/ p = Leader(j) /\ p[1] = j /\ proc'[p] = "held"
      BY <1>0, <2>1 DEF LeaderReady, Leader
    <3>2. UNCHANGED grouped
      BY <2>1 DEF LeaderReady
    <3> QED BY <2>1, <3>1, <3>2 DEF Farther
  <2>2. ASSUME NEW q \in Procs, Exec(q)
        PROVE  Farther(p)
    BY <1>0, <2>2 DEF Exec, Farther
  <2> QED BY <1>5, <2>1, <2>2 DEF Starts
<1>6. CASE Children
  <2>1. ASSUME NEW q \in Procs, ChildFails(q) \/ Die(q)
        PROVE  Farther(p)
    BY <1>0, <2>1 DEF ChildFails, Die, Signalled, Farther
  <2>2. ASSUME NEW q \in Procs, Stop(q)
        PROVE  Farther(p)
    BY <1>0, <2>2 DEF Stop, Signalled, Farther
  <2>3. ASSUME NEW q \in Procs, ContinuedOutside(q)
        PROVE  Farther(p)
    BY <1>0, <2>3 DEF ContinuedOutside, Resumed, Halted, Signalled, Farther
  <2> QED BY <1>6, <2>1, <2>2, <2>3 DEF Children
<1> QED BY <1>1, <1>2, <1>3, <1>4, <1>5, <1>6 DEF Next

(* How the main thread gets to where it has a job in hand.                 *)
LEMMA HandStep ==
    ASSUME IInv, [Next]_vars, pc' \in InHand \union Running
    PROVE  /\ cur' = cur
           /\ \/ pc' = pc
              \/ pc' = "launch_job" /\ (ReadFirst \/ FgCont)
              \/ pc' \in {"wait", "enlist"} /\ LaunchJob
              \/ pc' = "fg_cont" /\ FgTerminal
              \/ pc' = "bg_current" /\ BgCont
              \/ /\ pc' \in {"fg_terminal", "bg_cont"}
                 /\ Without(current_job, cur, current_job')
                 /\ UNCHANGED <<kernelVars, job>>
<1> USE DEF InHand, Running, Looking
<1>0. TypeOK /\ HandlerConsistent
  BY DEF IInv
<1>1. CASE UNCHANGED vars \/ Gone
  BY <1>1 DEF Gone, vars
<1>2. CASE User
  BY <1>2 DEF User, OtherLine, ExitLine, ZeroLine, StartLine, FgBgLine, Crash
<1>3. CASE Main
  <2>1. CASE \/ PrintPending \/ PrintRemoved \/ Fork \/ ForkFails \/ ReadError \/ Release
             \/ ErrorLabel \/ WaitDone \/ Enlist \/ GetTerminal \/ TerminalLost
             \/ FgTerminalFails \/ BgCurrent \/ BgPending \/ CleanupKill \/ CleanupDone
    BY <2>1
       DEF PrintPending, PrintRemoved, Fork, ForkFails, ReadError, Release, ErrorLabel, WaitDone,
           Enlist, GetTerminal, TerminalLost, FgTerminalFails, BgCurrent, BgPending,
           CleanupKill, CleanupDone, At
  <2>2. CASE LaunchJob \/ FgTerminal \/ FgCont \/ BgCont \/ ReadFirst
    BY <2>2 DEF LaunchJob, FgTerminal, FgCont, BgCont, ReadFirst, At
  <2>3. CASE Take
    BY <2>3 DEF Take, Crash, At
  <2>4. ASSUME NEW p \in Procs, WaitExit(p) \/ WaitStop(p) \/ CleanupReap(p)
        PROVE  cur' = cur /\ pc' = pc
    BY <2>4 DEF WaitExit, WaitStop, CleanupReap, WaitCheck, At
  <2> QED BY <1>3, <2>1, <2>2, <2>3, <2>4 DEF Main
<1>4. CASE Handler
  BY <1>0, <1>4, HandlerFrame
<1>5. CASE Starts \/ Children
  BY <1>5, ChildrenFrame
<1> QED BY <1>1, <1>2, <1>3, <1>4, <1>5 DEF Next

(* What can happen while wait_for_fg_job is in waitpid: SIGCHLD is blocked.*)
LEMMA WaitingStep ==
    ASSUME IInv, [Next]_vars, pc = "wait"
    PROVE  \/ UNCHANGED vars \/ WaitDone \/ Starts \/ Children
           \/ \E p \in Procs : WaitExit(p) \/ WaitStop(p)
<1>1. ~User
  BY DEF User, OtherLine, ExitLine, ZeroLine, StartLine, FgBgLine, At
<1>2. ~Handler
  BY HandlerFrame DEF IInv, ChldBlocked
<1>3. Main => WaitDone \/ \E p \in Procs : WaitExit(p) \/ WaitStop(p)
  BY DEF Main, PrintPending, PrintRemoved, Fork, ForkFails, ReadError, Release, ReadFirst,
         ErrorLabel, LaunchJob, Enlist, GetTerminal, TerminalLost, CleanupReap, Take, Looking,
         FgTerminal, FgTerminalFails, FgCont, BgCont, BgCurrent, BgPending, CleanupKill,
         CleanupDone, At
<1> QED BY <1>1, <1>2, <1>3 DEF Next, Gone

(* WaitedOwnsTerminal.                                                     *)
LEMMA OwnsStep == IInv /\ OwnsTerminal /\ [Next]_vars => OwnsTerminal'
<1> SUFFICES ASSUME IInv, OwnsTerminal, [Next]_vars PROVE OwnsTerminal'
  OBVIOUS
<1>0. /\ TypeOK /\ TypeOK' /\ MainConsistent /\ MainConsistent' /\ HandlerConsistent
      /\ LoopConsistent /\ LeaderInSight /\ LeaderInSight' /\ NoDangling
  BY TypeStep, ConsistentStep, SightStep DEF IInv
<1> DEFINE l == Leader(cur)
<1>a. cur \in Jobs => l \in Procs /\ l[1] = cur /\ l = Leader(l[1])
  BY MaxPipeAssumption DEF Leader, Procs
<1>b. pc \in Forking \union InHand \union Running => cur \in Jobs /\ ~Created(cur)
  BY <1>0 DEF MainConsistent, NoDangling, Created, StartLine
<1>t. tty' = tty \/ pc' \in {"print_pending", "fg_cont"} \/ (tty' = cur /\ LeaderReady(cur))
  <2>1. ASSUME NEW j \in Jobs, LeaderReady(j) PROVE tty' = tty \/ (j = cur /\ tty' = cur)
    BY <1>0, <2>1 DEF LeaderReady, LeaderInSight, Starting, Up, Over
  <2>2. GetTerminal \/ FgTerminal => pc' \in {"print_pending", "fg_cont"}
    BY DEF GetTerminal, FgTerminal
  <2> QED BY <2>1, <2>2, TtyStep
<1>d. ASSUME cur \in Jobs, proc[l] \in {"zombie", "reaped"}, ~Fork
      PROVE  proc'[l] \in {"zombie", "reaped"}
  <2>1. /\ proc'[l] \in ProcStates /\ Onward(l) /\ ~Exec(l)
    BY <1>0, <1>a, <1>d, ProcStep DEF TypeOK, KernelTypeOK, Exec, ReadyToExec
  <2> QED BY <1>d, <2>1 DEF Onward, ProcStates, Starting, Awake, Halted
<1>1. CASE pc' \in Forking /\ pc \in Forking /\ cur' = cur
  <2>1. cur \in Jobs /\ job'[cur].fg = job[cur].fg
    BY <1>b, <1>1, FlagStep DEF FgCont, BgCont, At, Forking
  <2>2. proc[l] # "none" => proc'[l] # "none"
    <3>1. Fork => proc'[l] = proc[l] \/ proc'[l] = "born"
      BY <1>0, <1>a, <2>1 DEF Fork, TypeOK, KernelTypeOK
    <3> QED BY <1>a, <2>1, <3>1, ProcStep DEF Onward
  <2>3. nth' > 1 => proc'[l] # "none"
    <3>1. nth > 1 => proc'[l] # "none"
      BY <1>1, <2>2 DEF OwnsTerminal
    <3>2. nth' > 1 /\ ~(nth > 1) => Fork /\ nth = 1
      BY <1>0, <1>1, CurStep, CreatedFacts
         DEF Fork, ForkFails, ReadError, Release, ReadFirst, At, LoopConsistent, Forking, TypeOK
    <3>3. Fork /\ nth = 1 => proc'[l] = "born"
      BY <1>0, <1>a, <2>1 DEF Fork, TypeOK, KernelTypeOK, Leader
    <3> QED BY <3>1, <3>2, <3>3
  <2>4. ASSUME job[cur].fg
        PROVE  tty' = cur \/ proc'[l] \in {"none", "born", "zombie", "reaped"}
    <3>1. CASE tty = cur
      BY <1>1, <1>t, <3>1 DEF Forking
    <3>2. CASE Fork
      BY <1>0, <1>1, <1>a, <2>1, <2>4, <3>2 DEF Fork, TypeOK, KernelTypeOK, OwnsTerminal
    <3>3. CASE ~Fork /\ proc[l] \in {"none", "born", "zombie", "reaped"}
      <4>1. Onward(l) /\ Farther(l) /\ ~Exec(l) /\ proc'[l] \in ProcStates
        BY <1>0, <1>a, <2>1, <3>3, ProcStep, FartherStep
           DEF Exec, ReadyToExec, TypeOK, KernelTypeOK
      <4>2. LeaderReady(cur) => tty' = cur
        BY <2>4 DEF LeaderReady
      <4> QED BY <1>a, <2>1, <3>3, <4>1, <4>2
              DEF Onward, Farther, ProcStates, Starting, Awake, Halted
    <3> QED BY <1>1, <2>4, <3>1, <3>2, <3>3 DEF OwnsTerminal
  <2> QED BY <1>1, <2>1, <2>3, <2>4 DEF OwnsTerminal, Forking
<1>2. CASE pc' \in Forking /\ cur' \in Jobs /\ Created(cur')
  <2>1. proc'[Leader(cur')] = "none" /\ nth' = 1
    <3>1. Leader(cur') \in Procs /\ Leader(cur')[1] = cur'
      BY <1>2, MaxPipeAssumption DEF Leader, Procs
    <3> QED BY <1>2, <3>1, CreatedFacts DEF kernelVars
  <2> QED BY <1>2, <2>1 DEF OwnsTerminal, Forking
<1>3. CASE pc' \in {"launch_job", "wait", "fg_cont"}
  <2>1. /\ pc' \in InHand \union Running /\ cur' = cur
        /\ \/ pc' = pc
           \/ pc' = "launch_job" /\ (ReadFirst \/ FgCont)
           \/ pc' = "wait" /\ LaunchJob
           \/ pc' = "fg_cont" /\ FgTerminal
    BY <1>3, HandStep DEF InHand, Running
  <2>2. cur \in Jobs /\ ~Fork
    BY <1>0, <1>3, <2>1 DEF MainConsistent, Fork, At, InHand, Running
  <2>3. CASE pc' = pc
    <3>1. ~LeaderReady(cur)
      BY <1>0, <1>3, <2>2, <2>3 DEF LeaderReady, LeaderInSight, Starting, Forking
    <3>2. tty' = tty \/ pc' = "fg_cont"
      BY <1>3, <1>t, <3>1
    <3>3. pc' = "fg_cont" => tty' = tty
      BY <2>3, <3>1, TtyStep, <1>0
         DEF GetTerminal, FgTerminal, At, LeaderReady, LeaderInSight, Starting, Forking
    <3>4. job'[cur].fg = job[cur].fg
      BY <1>b, <1>3, <2>2, <2>3, FlagStep DEF FgCont, BgCont, At, InHand, Running
    <3> QED BY <1>3, <1>d, <2>1, <2>2, <2>3, <3>2, <3>3, <3>4 DEF OwnsTerminal, Forking
  <2>4. CASE ReadFirst
    <3>1. /\ pc = "read_first" /\ UNCHANGED <<proc, job, tty>> /\ pc' = "launch_job"
          /\ proc[l] \notin Starting \/ l \in errs
      BY <1>3, <2>4 DEF ReadFirst, ErrorRead, At, kernelVars
    <3>2. l \notin errs
      BY <2>4, <3>1 DEF ReadFirst
    <3>3. proc[l] # "none"
      <4>1. nth > 1
        BY <1>0, <2>2, <3>1 DEF LoopConsistent, Forking, TypeOK, JobRecords
      <4> QED BY <3>1, <4>1 DEF OwnsTerminal, Forking
    <3>4. job[cur].fg => tty = cur \/ proc[l] \in {"zombie", "reaped"}
      BY <3>1, <3>2, <3>3 DEF OwnsTerminal, Forking, Starting
    <3> QED BY <2>1, <3>1, <3>4 DEF OwnsTerminal, Forking
  <2>5. CASE FgCont
    BY <2>1, <2>5 DEF FgCont, At, OwnsTerminal, Forking
  <2>6. CASE LaunchJob /\ pc' = "wait"
    BY <2>1, <2>6 DEF LaunchJob, At, OwnsTerminal, Forking, kernelVars
  <2>7. CASE FgTerminal
    BY <2>7 DEF FgTerminal, OwnsTerminal, Forking
  <2> QED BY <2>1, <2>3, <2>4, <2>5, <2>6, <2>7
<1>4. CASE pc' \notin Forking \union {"launch_job", "wait", "fg_cont"}
  BY <1>4 DEF OwnsTerminal
<1>5. pc' \in Forking => (pc \in Forking /\ cur' = cur) \/ (cur' \in Jobs /\ Created(cur'))
  BY CurStep DEF Forking, Fork, ForkFails, ReadError, Release, ReadFirst, At
<1> QED BY <1>1, <1>2, <1>3, <1>4, <1>5

(* StoppedIsShown.                                                         *)
Shown(j) == Stopped(j) = {} \/ job[j].stopped

ShownInHand ==
    /\ \A j \in ToSet(current_job) : Shown(j)
    /\ pc \in {"fg_terminal", "fg_cont", "bg_cont"} => Shown(cur)
    /\ pc \in Forking \union {"launch_job", "enlist", "bg_current"} => Stopped(cur) = {}

(* A process that waitpid reported is gone from its group.                 *)
GroupedLive == \A p \in grouped : proc[p] \notin {"none", "reaped"}

LEMMA GroupedStep == IInv /\ GroupedLive /\ [Next]_vars => GroupedLive'
<1> SUFFICES ASSUME IInv, GroupedLive, [Next]_vars, NEW p \in grouped'
             PROVE  proc'[p] \notin {"none", "reaped"}
  BY DEF GroupedLive
<1>0. TypeOK /\ TypeOK' /\ p \in Procs
  BY TypeStep DEF IInv, TypeOK, KernelTypeOK
<1>1. Farther(p)
  BY <1>0, FartherStep
<1>2. CASE p \in grouped
  <2>1. proc[p] \notin {"none", "reaped"}
    BY <1>2 DEF GroupedLive
  <2>2. proc'[p] # "none"
    <3>1. Fork => proc'[p] \in {proc[p], "born"}
      BY <1>0 DEF Fork, TypeOK, KernelTypeOK
    <3> QED BY <1>0, <2>1, <3>1, ProcStep DEF Onward
  <2> QED BY <1>1, <2>1, <2>2 DEF Farther
<1>3. CASE p \notin grouped
  BY <1>1, <1>3 DEF Farther
<1> QED BY <1>2, <1>3

(* A stop is new only when wait_for_fg_job or the handler reports it.      *)
LEMMA StoppedStep ==
    ASSUME IInv, [Next]_vars, NEW j, NEW p \in Stopped(j)'
    PROVE  /\ p \in Procs /\ p[1] = j
           /\ \/ p \in Stopped(j)
              \/ WaitStop(p) /\ cur = j
              \/ /\ \E obeying \in SUBSET Members(p[1]) : ScanStop(p, obeying)
                 /\ job' = [job EXCEPT ![j].stopped = TRUE]
                 /\ j \in ToSet(current_job)
<1>0. TypeOK /\ p \in Procs /\ p[1] = j /\ p \in grouped' /\ proc'[p] = "stopped"
  BY TypeStep DEF IInv, TypeOK, KernelTypeOK, Stopped, Members
<1>1. p \in grouped /\ (proc[p] = "stopped" \/ Reported(p))
  BY <1>0, FartherStep DEF Farther
<1>2. WaitStop(p) => cur = j
  BY <1>0 DEF WaitStop, Members
<1>3. ASSUME NEW obeying, ScanStop(p, obeying)
      PROVE  job' = [job EXCEPT ![j].stopped = TRUE] /\ j \in ToSet(current_job)
  <2>1. Scanned = j
    BY <1>0, <1>3 DEF ScanStop, Members
  <2> QED BY <1>0, <1>3, <2>1, ContainsToSet DEF ScanStop, Scanning, Scanned, TypeOK
<1> QED BY <1>0, <1>1, <1>2, <1>3 DEF Stopped, Members, Reported

LEMMA ShownStep == IInv /\ ShownInHand /\ [Next]_vars => ShownInHand'
<1> SUFFICES ASSUME IInv, ShownInHand, [Next]_vars PROVE ShownInHand'
  OBVIOUS
<1> USE DEF InHand, Running, Forking
<1>0. /\ TypeOK /\ TypeOK' /\ MainConsistent /\ MainConsistent' /\ HandlerConsistent
      /\ OneOwner /\ OneOwner' /\ NoDangling
  BY TypeStep, ConsistentStep, OwnerStep DEF IInv
<1>a. ToSet(current_job) \subseteq Jobs /\ ToSet(current_job') \subseteq Jobs
  BY <1>0, ContainsToSet DEF TypeOK
<1>b. /\ \A j \in ToSet(current_job) : ~Created(j)
      /\ pc \in InHand \union Running \union Forking => cur \in Jobs /\ ~Created(cur)
      /\ pc \in InHand \union Running \union Forking => cur \notin ToSet(current_job)
  BY <1>0 DEF MainConsistent, NoDangling, OneOwner, HandleHeld, Created, StartLine
(* What the handler and the other jobs leave alone.                        *)
<1>c. ASSUME NEW j \in ToSet(current_job) PROVE Shown(j)'
  <2>1. Shown(j) /\ ~(pc \in InHand \union Running /\ cur = j)
    BY <1>b DEF ShownInHand
  <2>2. job'[j].fg = job[j].fg /\ (job[j].stopped => job'[j].stopped)
    BY <1>a, <1>b, <2>1, FlagStep DEF FgCont, BgCont, At
  <2>3. ASSUME NEW p \in Stopped(j)' PROVE job'[j].stopped
    <3>1. CASE p \in Stopped(j)
      BY <2>1, <2>2, <3>1 DEF Shown
    <3>2. CASE job' = [job EXCEPT ![j].stopped = TRUE]
      BY <1>0, <1>a, <3>2, JobFlags DEF TypeOK
    <3>3. ~(WaitStop(p) /\ cur = j)
      BY <2>1 DEF WaitStop, At
    <3> QED BY <3>1, <3>2, <3>3, StoppedStep
  <2> QED BY <2>3 DEF Shown
<1>d. ASSUME pc \in InHand \union Running \union Forking, cur' = cur, pc # "wait"
      PROVE  Stopped(cur)' \subseteq Stopped(cur)
  BY <1>b, <1>d, StoppedStep DEF WaitStop, At
<1>1. ASSUME NEW j \in ToSet(current_job') PROVE Shown(j)'
  <2>1. CASE j \in ToSet(current_job)
    BY <1>c, <2>1
  <2>2. CASE cur = j /\ (Enlist \/ FgTerminalFails \/ BgCurrent)
    <3>1. UNCHANGED <<proc, grouped, job>> /\ pc \in {"enlist", "fg_terminal", "bg_current"}
      BY <2>2 DEF Enlist, FgTerminalFails, BgCurrent, At, kernelVars
    <3>2. Shown(j)
      BY <2>2, <3>1 DEF ShownInHand, Shown
    <3> QED BY <3>1, <3>2 DEF Shown, Stopped, Members
  <2>3. ASSUME cur = j, NEW p \in Procs, WaitExit(p) \/ WaitStop(p), pc' # pc
        PROVE  Shown(j)'
    <3>1. job' = [job EXCEPT ![cur].fg = FALSE, ![cur].stopped = TRUE]
      BY <2>3 DEF WaitExit, WaitStop, WaitCheck
    <3>2. job'[j].stopped
      BY <1>0, <1>a, <2>3, <3>1, JobTwoFlags DEF TypeOK
    <3> QED BY <3>2 DEF Shown
  <2> QED BY <2>1, <2>2, <2>3, ListStep DEF Listing
<1>2. ASSUME pc' \in {"fg_terminal", "fg_cont", "bg_cont"} PROVE Shown(cur)'
  <2>1. CASE pc' = pc
    <3>1. cur' = cur /\ Shown(cur) /\ Stopped(cur)' \subseteq Stopped(cur)
      BY <1>2, <1>d, <2>1, HandStep DEF ShownInHand
    <3>2. job[cur].stopped => job'[cur].stopped
      BY <1>2, <1>b, <2>1, FlagStep DEF FgCont, BgCont, At
    <3> QED BY <3>1, <3>2 DEF Shown
  <2>2. CASE pc' = "fg_cont" /\ FgTerminal
    BY <2>2 DEF FgTerminal, At, ShownInHand, Shown, Stopped, Members, kernelVars
  <2>3. CASE Without(current_job, cur, current_job') /\ UNCHANGED <<kernelVars, job, cur>>
    <3>1. cur \in ToSet(current_job)
      BY <1>0, <2>3, WithoutToSet DEF TypeOK, OneOwner
    <3> QED BY <2>3, <3>1 DEF ShownInHand, Shown, Stopped, Members, kernelVars
  <2> QED BY <1>2, <2>1, <2>2, <2>3, HandStep
<1>3. ASSUME pc' \in Forking PROVE Stopped(cur)' = {}
  <2>1. CASE pc \in Forking /\ cur' = cur
    BY <2>1, <1>d DEF ShownInHand
  <2>2. CASE cur' \in Jobs /\ Created(cur')
    BY <2>2, CreatedFacts, <1>0 DEF Stopped, Members, kernelVars, TypeOK, KernelTypeOK
  <2> QED BY <1>3, <2>1, <2>2, CurStep DEF Fork, ForkFails, ReadError, Release, ReadFirst, At
<1>4. ASSUME pc' \in {"launch_job", "enlist", "bg_current"} PROVE Stopped(cur)' = {}
  <2>1. CASE pc' = pc
    BY <1>4, <1>d, <2>1, HandStep DEF ShownInHand
  <2>2. CASE ReadFirst \/ LaunchJob
    BY <2>2 DEF ReadFirst, LaunchJob, At, ShownInHand, Stopped, Members, kernelVars
  <2>3. CASE FgCont \/ BgCont
    <3>1. proc' = Cont(cur, proc) /\ UNCHANGED <<grouped, cur>>
      BY <2>3 DEF FgCont, BgCont, Signalled
    <3> QED BY <1>0, <3>1 DEF Stopped, Members, Cont, Resumed, Halted, TypeOK, KernelTypeOK
  <2> QED BY <1>4, <2>1, <2>2, <2>3, HandStep
<1> QED BY <1>1, <1>2, <1>3, <1>4 DEF ShownInHand

-----------------------------------------------------------------------------
(* NoStuckWait.                                                            *)

(* Every process that is stopped was counted, and the count never reached  *)
(* pipeline_size; once processes ended and others stopped it stays zero.   *)
CountCovers ==
    pc = "wait" =>
        /\ Cardinality(Stopped(cur)) <= wait.count
        /\ wait.count = 0 \/ wait.count < job[cur].size
        /\ wait.falling \/ ~wait.stopped => wait.count = 0

LEMMA StoppedFinite ==
    ASSUME TypeOK, NEW j \in Jobs
    PROVE  IsFiniteSet(Stopped(j)) /\ Cardinality(Stopped(j)) \in Nat
<1>1. Stopped(j) \subseteq Unreaped(j)
  BY DEF Stopped, Unreaped, Members, TypeOK, KernelTypeOK
<1> QED BY <1>1, UnreapedFinite, FS_Subset, FS_CardinalityType

(* What is waited for does not change but by waitpid.                      *)
LEMMA WaitingFrame ==
    ASSUME IInv, [Next]_vars, pc = "wait", pc' = "wait"
    PROVE  /\ cur' = cur /\ cur \in Jobs /\ job'[cur].size = job[cur].size
           /\ UNCHANGED wait \/ \E p \in Procs : WaitExit(p) \/ WaitStop(p)
<1>1. /\ cur' = cur /\ cur \in Jobs
      /\ UNCHANGED <<wait, job>> \/ \E p \in Procs : WaitExit(p) \/ WaitStop(p)
  BY WaitingStep, HandStep, ChildrenFrame
     DEF vars, WaitDone, IInv, MainConsistent, Running
<1>2. ASSUME NEW p \in Procs, WaitExit(p) \/ WaitStop(p) PROVE job' = job
  BY <1>2 DEF WaitExit, WaitStop, WaitCheck
<1> QED BY <1>1, <1>2

(* A step of waitpid that does not end the wait.                           *)
LEMMA WaitLocalsStep ==
    ASSUME TypeOK, pc' = "wait", NEW p \in Procs
    PROVE  /\ WaitExit(p) =>
                  /\ wait'.falling /\ wait'.stopped = wait.stopped
                  /\ wait'.count = IF wait.stopped THEN 0 ELSE wait.count
           /\ WaitStop(p) =>
                  /\ wait'.stopped /\ wait'.falling = wait.falling
                  /\ wait'.count = IF wait.falling THEN 0 ELSE wait.count + 1
                  /\ wait'.count # job[cur].size
<1>1. /\ wait \in [count : Nat, falling : BOOLEAN, stopped : BOOLEAN]
  BY DEF TypeOK
<1>2. CASE WaitExit(p)
  <2>1. wait' = [wait EXCEPT !.falling = TRUE, !.count = IF wait.stopped THEN 0 ELSE @]
    BY <1>2 DEF WaitExit, WaitCheck
  <2>2. ~WaitStop(p)
    BY <1>2 DEF WaitExit, WaitStop
  <2> QED BY <1>1, <2>1, <2>2
<1>3. CASE WaitStop(p)
  <2> DEFINE w == [wait EXCEPT !.stopped = TRUE, !.count = IF wait.falling THEN 0 ELSE @ + 1]
  <2>1. wait' = w /\ wait'.count # job[cur].size
    BY <1>3 DEF WaitStop, WaitCheck
  <2>2. ~WaitExit(p)
    BY <1>3 DEF WaitExit, WaitStop
  <2> QED BY <1>1, <2>1, <2>2
<1> QED BY <1>2, <1>3

(* Whom waitpid and the signals after it leave stopped.                    *)
LEMMA StoppedByWait ==
    ASSUME TypeOK, NEW p \in Procs, cur' = cur
    PROVE  /\ WaitExit(p) => Stopped(cur)' \subseteq IF wait.stopped THEN {} ELSE Stopped(cur)
           /\ WaitStop(p) =>
                  Stopped(cur)' \subseteq IF wait.falling THEN {} ELSE Stopped(cur) \union {p}
<1>0. proc \in [Procs -> ProcStates] /\ grouped \subseteq Procs
  BY DEF TypeOK, KernelTypeOK
<1>1. ASSUME NEW f \in [Procs -> ProcStates], NEW q \in Members(cur)
      PROVE  TermCont(cur, f)[q] # "stopped"
  BY <1>0 DEF Members, TermCont, Resumed, ProcStates, Starting, Halted
<1>2. CASE WaitExit(p)
  <2> DEFINE f == [proc EXCEPT ![p] = "reaped"]
  <2>1. /\ f \in [Procs -> ProcStates] /\ grouped' \subseteq grouped
        /\ proc' = IF wait.stopped THEN TermCont(cur, f) ELSE f
    BY <1>0, <1>2 DEF WaitExit, Signalled, ProcStates
  <2>2. ~WaitStop(p)
    BY <1>2 DEF WaitExit, WaitStop
  <2>3. \A q \in Procs : f[q] = "stopped" => proc[q] = "stopped"
    BY <1>0
  <2> HIDE DEF f
  <2> QED BY <1>0, <1>1, <2>1, <2>2, <2>3 DEF Stopped, Members
<1>3. CASE WaitStop(p)
  <2> DEFINE f == [proc EXCEPT ![p] = "stopped"]
  <2>1. /\ f \in [Procs -> ProcStates] /\ grouped' = grouped
        /\ proc' = IF wait.falling THEN TermCont(cur, f) ELSE f
    BY <1>0, <1>3 DEF WaitStop, Signalled, ProcStates, Halted
  <2>2. ~WaitExit(p)
    BY <1>3 DEF WaitExit, WaitStop
  <2>3. \A q \in Procs : f[q] = "stopped" => proc[q] = "stopped" \/ q = p
    BY <1>0
  <2> HIDE DEF f
  <2> QED BY <1>0, <1>1, <2>1, <2>2, <2>3 DEF Stopped, Members
<1> QED BY <1>2, <1>3

LEMMA CountStep == IInv /\ ShownInHand /\ CountCovers /\ [Next]_vars => CountCovers'
<1> SUFFICES ASSUME IInv, ShownInHand, CountCovers, [Next]_vars, pc' = "wait"
             PROVE  /\ Cardinality(Stopped(cur)') <= wait'.count
                    /\ wait'.count = 0 \/ wait'.count < job'[cur'].size
                    /\ wait'.falling \/ ~wait'.stopped => wait'.count = 0
  BY DEF CountCovers
<1>0. /\ TypeOK /\ TypeOK' /\ MainConsistent /\ SizeCovers
  BY TypeStep DEF IInv
<1>a. wait.count \in Nat /\ wait.falling \in BOOLEAN /\ wait.stopped \in BOOLEAN
  BY <1>0 DEF TypeOK
<1>1. CASE LaunchJob
  <2>1. Stopped(cur)' = {}
    BY <1>1 DEF LaunchJob, At, ShownInHand, Stopped, Members, kernelVars
  <2>2. wait' = NoWait
    BY <1>1 DEF LaunchJob
  <2> QED BY <2>1, <2>2, FS_EmptySet DEF NoWait
<1>2. CASE pc = "wait"
  <2>1. /\ cur' = cur /\ cur \in Jobs /\ job'[cur].size = job[cur].size
        /\ UNCHANGED wait \/ \E p \in Procs : WaitExit(p) \/ WaitStop(p)
    BY <1>2, WaitingFrame
  <2>a. /\ IsFiniteSet(Stopped(cur)) /\ Cardinality(Stopped(cur)) \in Nat
        /\ Cardinality(Stopped(cur)) <= wait.count
        /\ wait.count = 0 \/ wait.count < job[cur].size
        /\ wait.falling \/ ~wait.stopped => wait.count = 0
        /\ job[cur].size \in Nat
    <3>1. job[cur].size \in Nat
      BY <1>0, <2>1, MaxPipeAssumption DEF TypeOK, JobRecords
    <3> QED BY <1>0, <1>2, <2>1, <3>1, StoppedFinite DEF CountCovers
  <2>2. CASE UNCHANGED wait /\ ~\E p \in Procs : WaitExit(p) \/ WaitStop(p)
    <3>1. Stopped(cur)' \subseteq Stopped(cur)
      <4>1. ~\E p \in Procs : \E obeying : ScanStop(p, obeying)
        BY <1>0, <1>2 DEF ScanStop, Scanning, IInv, HandlerConsistent, ChldBlocked
      <4> QED BY <2>1, <2>2, <4>1, StoppedStep
    <3>2. Cardinality(Stopped(cur)') <= Cardinality(Stopped(cur))
          /\ Cardinality(Stopped(cur)') \in Nat
      BY <2>a, <3>1, FS_Subset, FS_CardinalityType
    <3> QED BY <1>a, <2>1, <2>2, <2>a, <3>2
  <2>3. ASSUME NEW p \in Procs, WaitExit(p)
        PROVE  /\ Cardinality(Stopped(cur)') <= wait'.count
               /\ wait'.count = 0
    <3>1. wait'.count = 0
      BY <1>0, <1>a, <2>3, <2>a, WaitLocalsStep
    <3>2. Cardinality(Stopped(cur)') <= 0
      <4>1. CASE wait.stopped
        <5>1. Stopped(cur)' = {}
          BY <1>0, <2>1, <2>3, <4>1, StoppedByWait
        <5> QED BY <5>1, FS_EmptySet
      <4>2. CASE ~wait.stopped
        <5>1. Stopped(cur)' \subseteq Stopped(cur)
          BY <1>0, <2>1, <2>3, <4>2, StoppedByWait
        <5>2. Cardinality(Stopped(cur)') <= Cardinality(Stopped(cur))
              /\ Cardinality(Stopped(cur)') \in Nat
          BY <2>a, <5>1, FS_Subset, FS_CardinalityType
        <5> QED BY <2>a, <4>2, <5>2
      <4> QED BY <4>1, <4>2
    <3> QED BY <3>1, <3>2
  <2>4. ASSUME NEW p \in Procs, WaitStop(p)
        PROVE  /\ Cardinality(Stopped(cur)') <= wait'.count
               /\ wait'.count = 0 \/ wait'.count < job[cur].size
               /\ wait'.falling \/ ~wait'.stopped => wait'.count = 0
    <3>1. /\ wait'.stopped /\ wait'.falling = wait.falling
          /\ wait'.count = IF wait.falling THEN 0 ELSE wait.count + 1
          /\ wait'.count # job[cur].size
      BY <1>0, <2>4, WaitLocalsStep
    <3>2. CASE wait.falling
      <4>1. Stopped(cur)' = {}
        BY <1>0, <2>1, <2>4, <3>2, StoppedByWait
      <4> QED BY <3>1, <3>2, <4>1, FS_EmptySet
    <3>3. CASE ~wait.falling
      <4>1. Stopped(cur)' \subseteq Stopped(cur) \union {p}
        BY <1>0, <2>1, <2>4, <3>3, StoppedByWait
      <4>2. /\ IsFiniteSet(Stopped(cur) \union {p})
            /\ Cardinality(Stopped(cur) \union {p}) <= Cardinality(Stopped(cur)) + 1
            /\ Cardinality(Stopped(cur) \union {p}) \in Nat
        <5>1. /\ IsFiniteSet(Stopped(cur) \union {p})
              /\ \/ Cardinality(Stopped(cur) \union {p}) = Cardinality(Stopped(cur))
                 \/ Cardinality(Stopped(cur) \union {p}) = Cardinality(Stopped(cur)) + 1
          BY <2>a, FS_AddElement
        <5> QED BY <2>a, <5>1
      <4>3. /\ Cardinality(Stopped(cur)') <= Cardinality(Stopped(cur) \union {p})
            /\ Cardinality(Stopped(cur)') \in Nat
        BY <4>1, <4>2, FS_Subset, FS_CardinalityType
      <4>4. job[cur].size >= 1
        <5>1. p \in Unreaped(cur)
          BY <2>4 DEF WaitStop, Members, Unreaped
        <5>2. Cardinality(Unreaped(cur)) >= 1
          BY <2>1, <5>1, UnreapedFinite, FS_EmptySet
        <5>3. job[cur].size >= Cardinality(Unreaped(cur))
          BY <1>0, <1>2, <2>1 DEF SizeCovers, Running
        <5> QED BY <2>a, <2>1, <5>2, <5>3, UnreapedFinite
      <4> QED BY <1>a, <2>a, <3>1, <3>3, <4>2, <4>3, <4>4
    <3> QED BY <3>2, <3>3
  <2>5. ASSUME NEW p \in Procs, WaitExit(p)
        PROVE  wait'.falling
    BY <1>0, <2>5, WaitLocalsStep
  <2> QED BY <2>1, <2>2, <2>3, <2>4, <2>5
<1> QED BY <1>1, <1>2, HandStep DEF Running, ReadFirst, FgCont, FgTerminal, BgCont

-----------------------------------------------------------------------------
(* LeavesQuiet: without SIGCONT from outside the count is exact enough for *)
(* the last stop to be the last one.                                       *)
Ended(j) == {p \in Members(j) : proc[p] \in {"stopped", "zombie"}}

CountExact == pc = "wait" => wait.count <= Cardinality(Ended(cur))

LEMMA EndedFinite ==
    ASSUME TypeOK, NEW j \in Jobs
    PROVE  IsFiniteSet(Ended(j)) /\ Cardinality(Ended(j)) \in Nat
<1>1. Ended(j) \subseteq Unreaped(j)
  BY DEF Ended, Unreaped, Members, TypeOK, KernelTypeOK
<1> QED BY <1>1, UnreapedFinite, FS_Subset, FS_CardinalityType

(* A process that ended stays so until waitpid or SIGCONT.                 *)
LEMMA EndedKept ==
    ASSUME IInv, ~OutsideCont, Starts \/ Children, NEW p \in Procs,
           proc[p] \in {"stopped", "zombie"}
    PROVE  proc'[p] \in {"stopped", "zombie"} /\ UNCHANGED grouped
<1>0. proc \in [Procs -> ProcStates]
  BY DEF IInv, TypeOK, KernelTypeOK
<1>1. CASE Starts
  <2>1. ASSUME NEW j \in Jobs, LeaderReady(j) PROVE proc'[p] = proc[p] /\ UNCHANGED grouped
    BY <1>0, <2>1 DEF LeaderReady
  <2>2. ASSUME NEW q \in Procs, Exec(q) PROVE proc'[p] = proc[p] /\ UNCHANGED grouped
    BY <1>0, <2>2 DEF Exec, ReadyToExec
  <2> QED BY <1>1, <2>1, <2>2 DEF Starts
<1>2. CASE Children
  <2>1. ASSUME NEW q \in Procs, ChildFails(q) \/ Die(q)
        PROVE  proc'[p] \in {"stopped", "zombie"} /\ UNCHANGED grouped
    BY <1>0, <2>1 DEF ChildFails, Die, Signalled
  <2>2. ASSUME NEW q \in Procs, Stop(q)
        PROVE  proc'[p] \in {"stopped", "zombie"} /\ UNCHANGED grouped
    BY <1>0, <2>2 DEF Stop, Signalled
  <2> QED BY <1>2, <2>1, <2>2 DEF Children, ContinuedOutside
<1> QED BY <1>1, <1>2

LEMMA ExactStep ==
    ASSUME ~OutsideCont
    PROVE  IInv /\ CountCovers /\ CountExact /\ [Next]_vars => CountExact'
<1> SUFFICES ASSUME IInv, CountCovers, CountExact, [Next]_vars, pc' = "wait"
             PROVE  wait'.count <= Cardinality(Ended(cur)')
  BY DEF CountExact
<1>0. /\ TypeOK /\ TypeOK' /\ MainConsistent /\ MainConsistent'
  BY TypeStep, ConsistentStep DEF IInv
<1>a. wait.count \in Nat /\ wait.falling \in BOOLEAN /\ wait.stopped \in BOOLEAN
  BY <1>0 DEF TypeOK
<1>b. cur' \in Jobs /\ IsFiniteSet(Ended(cur)') /\ Cardinality(Ended(cur)') \in Nat
  <2>1. cur' \in Jobs /\ Ended(cur)' \subseteq Procs /\ \A p \in Ended(cur)' : p[1] = cur'
    BY <1>0 DEF MainConsistent, Running, Ended, Members, TypeOK, KernelTypeOK
  <2> QED BY <2>1, JobProcsFinite
<1>1. CASE LaunchJob
  BY <1>1, <1>b DEF LaunchJob, NoWait
<1>2. CASE pc = "wait"
  <2>1. cur' = cur /\ cur \in Jobs
    BY <1>2, WaitingFrame
  <2>2. wait.count <= Cardinality(Ended(cur)) /\ Cardinality(Ended(cur)) \in Nat
        /\ IsFiniteSet(Ended(cur))
    BY <1>0, <1>2, <2>1, EndedFinite DEF CountExact
  <2>3. CASE UNCHANGED vars
    BY <2>2, <2>3 DEF vars, kernelVars, Ended, Members
  <2>4. CASE Starts \/ Children
    <3>1. Ended(cur) \subseteq Ended(cur)'
      <4>1. ASSUME NEW p \in Ended(cur) PROVE p \in Ended(cur)'
        BY <1>0, <2>1, <2>4, EndedKept DEF Ended, Members, TypeOK, KernelTypeOK
      <4> QED BY <4>1
    <3>2. wait' = wait
      BY <2>4, ChildrenFrame
    <3> QED BY <1>a, <1>b, <2>2, <3>1, <3>2, FS_Subset
  <2>5. ASSUME NEW p \in Procs, WaitExit(p) PROVE wait'.count = 0
    BY <1>0, <1>2, <2>5, WaitLocalsStep DEF CountCovers
  <2>6. ASSUME NEW p \in Procs, WaitStop(p)
        PROVE  wait'.count <= Cardinality(Ended(cur)')
    <3>1. wait'.count = IF wait.falling THEN 0 ELSE wait.count + 1
      BY <1>0, <2>6, WaitLocalsStep
    <3>2. CASE wait.falling
      BY <1>b, <3>1, <3>2
    <3>3. CASE ~wait.falling
      <4>1. /\ proc' = [proc EXCEPT ![p] = "stopped"] /\ grouped' = grouped
            /\ p \in Members(cur) /\ proc[p] = "stopping"
        BY <2>6, <3>3 DEF WaitStop, Signalled
      <4>2. Ended(cur) \union {p} \subseteq Ended(cur)' /\ p \notin Ended(cur)
        BY <1>0, <2>1, <4>1 DEF Ended, Members, TypeOK, KernelTypeOK
      <4>3. Cardinality(Ended(cur) \union {p}) = Cardinality(Ended(cur)) + 1
        BY <2>2, <4>2, FS_AddElement
      <4>4. Cardinality(Ended(cur) \union {p}) <= Cardinality(Ended(cur)')
        BY <1>b, <4>2, FS_Subset
      <4> QED BY <1>a, <1>b, <2>2, <3>1, <3>3, <4>3, <4>4
    <3> QED BY <3>2, <3>3
  <2>7. ~WaitDone
    BY DEF WaitDone
  <2> QED BY <1>2, <1>b, <2>3, <2>4, <2>5, <2>6, <2>7, WaitingStep
<1> QED BY <1>1, <1>2, HandStep DEF Running, ReadFirst, FgCont, FgTerminal, BgCont

-----------------------------------------------------------------------------
(* The invariant of the job in hand and of the wait.                       *)
WaitInv ==
    /\ IInv
    /\ OwnsTerminal /\ ShownInHand /\ GroupedLive /\ CountCovers

LEMMA InitWaitInv == Init => WaitInv
<1> SUFFICES ASSUME Init PROVE WaitInv
  OBVIOUS
<1>1. IInv
  BY InitIInv
<1>2. OwnsTerminal /\ GroupedLive /\ CountCovers /\ CountExact
  BY DEF Init, KernelInit, OwnsTerminal, GroupedLive, CountCovers, CountExact, Forking
<1>3. ShownInHand
  BY EmptyList DEF Init, ShownInHand, Forking
<1> QED BY <1>1, <1>2, <1>3 DEF WaitInv

LEMMA StepWaitInv == WaitInv /\ [Next]_vars => WaitInv'
BY StepIInv, OwnsStep, ShownStep, GroupedStep, CountStep DEF WaitInv

(* It holds too: wait_for_fg_job, the handler and the stops of children     *)
(* keep a job in hand in the foreground, shown and counted.                 *)
THEOREM WaitInvariance == Spec => []WaitInv
BY InitWaitInv, StepWaitInv, PTL DEF Spec

(* A group and its size: who is still in it is still to be reaped.         *)
LEMMA MembersCovered ==
    ASSUME TypeOK, GroupedLive, SizeCovers, pc = "wait", cur \in Jobs
    PROVE  /\ IsFiniteSet(Members(cur)) /\ Cardinality(Members(cur)) \in Nat
           /\ job[cur].size \in Nat /\ Cardinality(Members(cur)) <= job[cur].size
<1>1. Members(cur) \subseteq Unreaped(cur)
  BY DEF Members, Unreaped, GroupedLive, TypeOK, KernelTypeOK
<1>2. job[cur].size >= Cardinality(Unreaped(cur))
  BY DEF SizeCovers, Running
<1>3. job[cur].size \in Nat
  BY MaxPipeAssumption DEF TypeOK, JobRecords
<1>4. /\ IsFiniteSet(Members(cur)) /\ Cardinality(Members(cur)) <= Cardinality(Unreaped(cur))
      /\ Cardinality(Members(cur)) \in Nat /\ Cardinality(Unreaped(cur)) \in Nat
  BY <1>1, UnreapedFinite, FS_Subset, FS_CardinalityType
<1> QED BY <1>2, <1>3, <1>4

(* The shell waits only for a job that has the terminal.                   *)
THEOREM WaitsForTheForeground == Spec => []WaitedOwnsTerminal
<1>1. WaitInv => WaitedOwnsTerminal
  BY DEF WaitInv, OwnsTerminal, WaitedOwnsTerminal
<1> QED BY <1>1, WaitInvariance, PTL

(* "jobs" shows a stop of which the shell was told.                        *)
THEOREM StopsAreShown == Spec => []StoppedIsShown
<1>1. WaitInv => StoppedIsShown
  <2> SUFFICES ASSUME WaitInv, NEW p \in grouped, IsListed(p[1]), proc[p] = "stopped"
               PROVE  job[p[1]].stopped
    BY DEF StoppedIsShown
  <2>1. p[1] \in ToSet(current_job)
    BY ContainsToSet DEF WaitInv, IInv, TypeOK, IsListed
  <2>2. p \in Stopped(p[1])
    BY DEF Stopped, Members
  <2> QED BY <2>1, <2>2 DEF WaitInv, ShownInHand, Shown
<1> QED BY <1>1, WaitInvariance, PTL

(* A job whose members all stopped is not waited for any longer, unless    *)
(* pipeline_size counts a process the group does not have.                 *)
THEOREM NoWaitForStopped == Spec => []NoStuckWait
<1>1. WaitInv => NoStuckWait
  <2> SUFFICES ASSUME WaitInv, pc = "wait", Members(cur) # {},
                      \A p \in Members(cur) : proc[p] = "stopped"
               PROVE  Cardinality(Members(cur)) < job[cur].size
    BY DEF NoStuckWait
  <2>1. Stopped(cur) = Members(cur)
    BY DEF Stopped
  <2>2. /\ TypeOK /\ GroupedLive /\ SizeCovers /\ cur \in Jobs /\ CountCovers
    BY DEF WaitInv, IInv, MainConsistent, Running
  <2>3. /\ IsFiniteSet(Members(cur)) /\ Cardinality(Members(cur)) \in Nat
        /\ job[cur].size \in Nat
    BY <2>2, MembersCovered
  <2>4. Cardinality(Members(cur)) > 0
    BY <2>3, FS_EmptySet
  <2>5. wait.count \in Nat /\ Cardinality(Members(cur)) <= wait.count
        /\ (wait.count = 0 \/ wait.count < job[cur].size)
    BY <2>1, <2>2 DEF CountCovers, TypeOK
  <2> QED BY <2>3, <2>4, <2>5
<1> QED BY <1>1, WaitInvariance, PTL

LEMMA QuietStep ==
    ASSUME WaitInv, CountExact, [Next]_vars, pc = "wait", pc' # "wait",
           NEW p \in Procs, p[1] = cur, p \in grouped'
    PROVE  proc'[p] \in {"stopped", "zombie"}
<1>0. /\ TypeOK /\ TypeOK' /\ GroupedLive /\ SizeCovers /\ cur \in Jobs /\ CountCovers /\ CountExact
  BY TypeStep DEF WaitInv, IInv, MainConsistent, Running
<1>a. wait.count \in Nat /\ wait.falling \in BOOLEAN /\ wait.stopped \in BOOLEAN
  BY <1>0 DEF TypeOK
<1>b. /\ IsFiniteSet(Members(cur)) /\ Cardinality(Members(cur)) \in Nat
      /\ job[cur].size \in Nat /\ Cardinality(Members(cur)) <= job[cur].size
  BY <1>0, MembersCovered
<1>1. CASE WaitDone
  BY <1>1 DEF WaitDone, Members, kernelVars
<1>2. ASSUME NEW q \in Members(cur) PROVE job[cur].size > 0
  BY <1>b, FS_EmptySet
<1>3. ASSUME NEW q \in Procs, WaitExit(q) PROVE FALSE
  <2> DEFINE w == [wait EXCEPT !.falling = TRUE, !.count = IF wait.stopped THEN 0 ELSE @]
  <2>1. q \in Members(cur) /\ WaitCheck(w)
    BY <1>3 DEF WaitExit
  <2>2. w.count = 0
    BY <1>0, <1>a DEF CountCovers, TypeOK
  <2> HIDE DEF w
  <2> QED BY <1>2, <2>1, <2>2 DEF WaitCheck
<1>4. ASSUME NEW q \in Procs, WaitStop(q)
      PROVE  proc'[p] \in {"stopped", "zombie"}
  <2> DEFINE w == [wait EXCEPT !.stopped = TRUE, !.count = IF wait.falling THEN 0 ELSE @ + 1]
  <2>1. /\ q \in Members(cur) /\ proc[q] = "stopping" /\ WaitCheck(w) /\ grouped' = grouped
        /\ ~wait.falling => proc' = [proc EXCEPT ![q] = "stopped"]
    BY <1>4 DEF WaitStop, Signalled
  <2>2. w.count = IF wait.falling THEN 0 ELSE wait.count + 1
    BY <1>0 DEF TypeOK
  <2>3. w.count = job[cur].size
    <3> HIDE DEF w
    <3> QED BY <2>1 DEF WaitCheck
  <2> HIDE DEF w
  <2>4. ~wait.falling /\ wait.count + 1 = job[cur].size
    BY <1>2, <1>b, <2>1, <2>2, <2>3
  <2>5. /\ IsFiniteSet(Ended(cur)) /\ Cardinality(Ended(cur)) \in Nat
        /\ wait.count <= Cardinality(Ended(cur))
    BY <1>0, EndedFinite DEF CountExact
  <2>6. /\ q \notin Ended(cur) /\ Ended(cur) \union {q} \subseteq Members(cur)
    BY <2>1 DEF Ended
  <2>7. /\ IsFiniteSet(Ended(cur) \union {q})
        /\ Cardinality(Ended(cur) \union {q}) = Cardinality(Ended(cur)) + 1
    BY <2>5, <2>6, FS_AddElement
  <2>8. Ended(cur) \union {q} = Members(cur)
    <3>1. Cardinality(Ended(cur) \union {q}) <= Cardinality(Members(cur))
      BY <1>b, <2>6, FS_Subset
    <3>2. Cardinality(Ended(cur) \union {q}) = Cardinality(Members(cur))
      BY <1>a, <1>b, <2>4, <2>5, <2>7, <3>1
    <3> QED BY <1>b, <2>6, <3>2, FS_Subset
  <2>9. p \in Members(cur)
    BY <2>1 DEF Members
  <2> QED BY <1>0, <2>1, <2>4, <2>8, <2>9 DEF Ended, TypeOK, KernelTypeOK
<1> QED BY <1>1, <1>3, <1>4, WaitingStep, ChildrenFrame DEF WaitInv, vars

(* Unless somebody else continues its processes, no member of a job runs   *)
(* when the shell stops waiting for it.                                    *)
THEOREM QuietWhenLeft == ~OutsideCont => (Spec => LeavesQuiet)
<1> SUFFICES ASSUME ~OutsideCont PROVE Spec => LeavesQuiet
  OBVIOUS
<1>1. Init => CountExact
  BY DEF Init, CountExact
<1>2. WaitInv /\ CountExact /\ [Next]_vars => CountExact'
  BY ExactStep DEF WaitInv
<1>3. WaitInv /\ CountExact /\ [Next]_vars =>
          [pc = "wait" /\ pc' # "wait" =>
               \A p \in Procs : p[1] = cur /\ p \in grouped' => proc'[p] \in {"stopped", "zombie"}]_vars
  BY QuietStep
<1> QED BY <1>1, <1>2, <1>3, WaitInvariance, PTL DEF Spec, LeavesQuiet

-----------------------------------------------------------------------------
(* JobLifecycle.  What a step does to the phases of the jobs and to their  *)
(* first programs.                                                         *)
SamePhases == \A i \in Jobs : Phase(i)' = Phase(i)
SamePrograms == \A i \in Jobs : FirstProgram(i)' = FirstProgram(i)

PhaseTo(c, to) == Phase(c)' = to /\ \A i \in Jobs : i # c => Phase(i)' = Phase(i)
ProgramTo(c, to) ==
    FirstProgram(c)' = to /\ \A i \in Jobs : i # c => FirstProgram(i)' = FirstProgram(i)

(* The mapping.                                                            *)
Phases == [j \in Jobs |-> Phase(j)]
Programs == [j \in Jobs |-> FirstProgram(j)]

(* What the abstract variables are after a step that leaves every job, or  *)
(* every job but one, as it was.                                           *)
LEMMA SameMapped ==
    /\ SamePhases => Phases' = Phases
    /\ SamePrograms => Programs' = Programs
BY DEF SamePhases, SamePrograms, Phases, Programs

LEMMA MovedMapped ==
    ASSUME NEW c \in Jobs, NEW to
    PROVE  /\ PhaseTo(c, to) => Phases' = [Phases EXCEPT ![c] = to]
           /\ ProgramTo(c, to) => Programs' = [Programs EXCEPT ![c] = to]
BY DEF PhaseTo, ProgramTo, Phases, Programs

LEMMA PhaseMoves ==
    ASSUME NEW c \in Jobs, NEW from, NEW to, Phase(c) \in from, PhaseTo(c, to)
    PROVE  L!Moves(c, from, to)
BY MovedMapped DEF Phases, L!Moves

(* Steps that move no handle.                                              *)
LEMMA PhasesKept ==
    ASSUME UNCHANGED <<current_job, pending_removed_jobs>>,
           \A i \in Jobs : (job'[i].mem = "unused") <=> (job[i].mem = "unused"),
           HandleHeld' = HandleHeld,
           HandleHeld # {} => /\ (pc' \in Forking) <=> (pc \in Forking)
                              /\ (pc' = "wait") <=> (pc = "wait")
    PROVE  SamePhases
BY DEF SamePhases, Phase

(* Steps that neither start nor end a first program.                       *)
LEMMA ProgramIs ==
    ASSUME TypeOK, TypeOK', NEW j \in Jobs,
           proc'[Leader(j)] \in Starting <=> proc[Leader(j)] \in Starting,
           proc'[Leader(j)] \in Awake <=> proc[Leader(j)] \in Awake,
           proc'[Leader(j)] = "none" <=> proc[Leader(j)] = "none"
    PROVE  FirstProgram(j)' = FirstProgram(j)
<1>1. Leader(j) \in Procs
  BY MaxPipeAssumption DEF Leader, Procs
<1>2. proc[Leader(j)] \in ProcStates /\ proc'[Leader(j)] \in ProcStates
  BY <1>1 DEF TypeOK, KernelTypeOK
<1> QED BY <1>2 DEF FirstProgram, ProcStates, Starting, Halted, Awake

(* How far a first program is, by the state of its process.                *)
LEMMA FirstIs ==
    ASSUME TypeOK, NEW j \in Jobs
    PROVE  /\ Leader(j) \in Procs
           /\ FirstProgram(j) = "none" <=> proc[Leader(j)] = "none"
           /\ FirstProgram(j) = "starting" <=> proc[Leader(j)] \in Starting
           /\ FirstProgram(j) = "running" <=> proc[Leader(j)] \in Awake
           /\ FirstProgram(j) = "ended" <=> proc[Leader(j)] \in {"zombie", "reaped"}
           /\ FirstProgram(j) \in {"none", "starting", "running", "ended"}
<1>1. Leader(j) \in Procs
  BY MaxPipeAssumption DEF Leader, Procs
<1>2. proc[Leader(j)] \in ProcStates
  BY <1>1 DEF TypeOK, KernelTypeOK
<1> QED BY <1>1, <1>2 DEF FirstProgram, ProcStates, Starting, Halted, Awake
-----------------------------------------------------------------------------
(* What IInv does not say of leaders.  LifeInv is inductive with IInv.     *)

(* The first fork makes the leader.                                        *)
FirstForked ==
    pc \in {"fork", "read_error", "read_first"} =>
        (nth = 1 <=> proc[Leader(cur)] = "none")

(* A pipeline that is given up has a leader that did not run.              *)
GivenUpUnrun == pc = "error_label" => proc[Leader(cur)] \notin Awake

(* A leader that wrote to its error pipe has ended.                        *)
ErrsEnded == \A j \in Jobs : Leader(j) \in errs => proc[Leader(j)] \in {"zombie", "reaped"}

(* Jobs that were started have a leader, in its group until it is reaped.  *)
LeadersThere ==
    /\ pc \in InHand \union Running => proc[Leader(cur)] # "none"
    /\ \A j \in ToSet(current_job) : proc[Leader(j)] # "none"

LeadersGrouped ==
    \A j \in Jobs : proc[Leader(j)] \notin {"none", "reaped"} => Leader(j) \in grouped

(* Cleanup leaves no job in the list.                                      *)
Emptied == leaving # "no" /\ pc # "kill" => current_job = <<>>

LifeInv ==
    /\ FirstForked /\ GivenUpUnrun /\ ErrsEnded
    /\ LeadersThere /\ LeadersGrouped /\ Emptied

(* LifeInv holds at first, and every step keeps it: one lemma for each of  *)
(* its parts.                                                              *)
LEMMA InitLifeInv == Init => LifeInv
BY EmptyList, MaxPipeAssumption
   DEF Init, KernelInit, LifeInv, FirstForked, GivenUpUnrun, ErrsEnded, LeadersThere,
       LeadersGrouped, Emptied, InHand, Running, Leader, Procs

(* Only a child writes to an error pipe.                                   *)
LEMMA ErrsStep ==
    ASSUME IInv, [Next]_vars
    PROVE  errs' = errs \/ \E p \in Procs : ChildFails(p) /\ errs' = errs \union {p}
<1>1. CASE UNCHANGED vars \/ Gone
  BY <1>1 DEF Gone, vars
<1>2. CASE User
  BY <1>2 DEF User, OtherLine, ExitLine, ZeroLine, StartLine, FgBgLine
<1>3. CASE Main
  BY <1>3
     DEF Main, PrintPending, PrintRemoved, Fork, ForkFails, ReadError, Release, ReadFirst,
         ErrorLabel, LaunchJob, WaitDone, Enlist, GetTerminal, TerminalLost, WaitExit, WaitStop,
         CleanupReap, Take, FgTerminal, FgTerminalFails, FgCont, BgCont, BgCurrent, BgPending,
         CleanupKill, CleanupDone
<1>4. CASE Handler
  BY <1>4, HandlerFrame DEF IInv
<1>5. CASE Starts
  BY <1>5 DEF Starts, LeaderReady, Exec
<1>6. CASE Children
  BY <1>6 DEF Children, ChildFails, Die, Stop, ContinuedOutside
<1> QED BY <1>1, <1>2, <1>3, <1>4, <1>5, <1>6 DEF Next

(* The way into cleanup, and out of its first loop.                        *)
LEMMA LeavingStep ==
    ASSUME IInv, [Next]_vars
    PROVE  /\ leaving' # "no" /\ leaving = "no" => pc' = "kill"
           /\ pc = "kill" /\ pc' # "kill" => current_job = <<>> /\ current_job' = <<>>
<1>1. CASE UNCHANGED vars \/ Gone
  BY <1>1 DEF Gone, vars
<1>2. CASE User
  BY <1>2 DEF User, OtherLine, ExitLine, ZeroLine, StartLine, FgBgLine, At
<1>3. CASE Main
  <2>1. CASE CleanupKill
    BY <2>1 DEF CleanupKill, At
  <2>2. CASE ~CleanupKill
    BY <1>3, <2>2
       DEF Main, PrintPending, PrintRemoved, Fork, ForkFails, ReadError, Release, ReadFirst,
           ErrorLabel, LaunchJob, WaitDone, Enlist, GetTerminal, TerminalLost, WaitExit, WaitStop,
           CleanupReap, Take, FgTerminal, FgTerminalFails, FgCont, BgCont, BgCurrent, BgPending,
           CleanupDone, At, Looking
  <2> QED BY <2>1, <2>2
<1>4. CASE Handler
  <2>1. leaving' = leaving /\ ~ChldBlocked
    BY <1>4, HandlerFrame DEF IInv
  <2>2. pc # "kill"
    BY <2>1 DEF IInv, MainConsistent, Leaving, ChldBlocked
  <2> QED BY <2>1, <2>2
<1>5. CASE Starts \/ Children
  BY <1>5, ChildrenFrame
<1> QED BY <1>1, <1>2, <1>3, <1>4, <1>5 DEF Next

LEMMA LeaderIs ==
    ASSUME NEW j \in Jobs
    PROVE  Leader(j) \in Procs /\ Leader(j)[1] = j /\ \A n : <<j, n>> = Leader(j) <=> n = 1
BY MaxPipeAssumption DEF Leader, Procs

(* What fork does to a leader.                                             *)
LEMMA ForkLeader ==
    ASSUME IInv, Fork, NEW j \in Jobs
    PROVE  /\ pc = "fork" /\ pc' \in {"fork", "read_error"} /\ cur \in Jobs /\ cur' = cur
           /\ errs' = errs
           /\ \/ /\ j = cur /\ nth = 1 /\ nth' = 2
                 /\ proc'[Leader(j)] = "born" /\ Leader(j) \in grouped'
              \/ /\ j # cur \/ (nth # 1 /\ nth' = nth)
                 /\ proc'[Leader(j)] = proc[Leader(j)]
                 /\ Leader(j) \in grouped => Leader(j) \in grouped'
<1>1. cur \in Jobs /\ proc \in [Procs -> ProcStates]
  BY DEF Fork, At, IInv, MainConsistent, Forking, TypeOK, KernelTypeOK
<1>2. PICK p : p = <<cur, nth>>
  OBVIOUS
<1>3. /\ proc' = [proc EXCEPT ![p] = "born"]
      /\ grouped' = IF nth = 1 \/ Members(cur) # {} THEN grouped \union {p} ELSE grouped
      /\ pc = "fork" /\ cur' = cur /\ errs' = errs
      /\ IF nth = 1 THEN nth' = 2 /\ UNCHANGED pc ELSE pc' = "read_error" /\ UNCHANGED nth
  BY <1>2 DEF Fork, At
<1>4. CASE j = cur /\ nth = 1
  <2>1. p = Leader(j)
    BY <1>2, <1>4 DEF Leader
  <2> QED BY <1>1, <1>3, <1>4, <2>1, LeaderIs
<1>5. CASE ~(j = cur /\ nth = 1)
  <2>1. p # Leader(j)
    BY <1>2, <1>5 DEF Leader
  <2> QED BY <1>1, <1>3, <1>5, <2>1, LeaderIs
<1> QED BY <1>4, <1>5

LEMMA FirstForkedStep == IInv /\ LifeInv /\ [Next]_vars => FirstForked'
<1> SUFFICES ASSUME IInv, LifeInv, [Next]_vars, pc' \in {"fork", "read_error", "read_first"}
             PROVE  nth' = 1 <=> proc'[Leader(cur')] = "none"
  BY DEF FirstForked
<1> PICK c : c = cur'
  OBVIOUS
<1>0. FirstForked /\ LoopConsistent /\ MainConsistent /\ TypeOK
  BY DEF LifeInv, IInv
<1> USE DEF Forking
<1>1. CASE c \in Jobs /\ Created(c)
  <2>1. UNCHANGED proc /\ cur' = c /\ nth' = 1
    BY <1>1, CreatedFacts DEF kernelVars
  <2>2. \A p \in Procs : p[1] = c => proc[p] = "none"
    BY <1>1, CreatedFacts
  <2> QED BY <1>1, <2>1, <2>2, LeaderIs
<1>2. CASE Fork
  <2>1. cur \in Jobs /\ cur' = cur /\ pc = "fork"
    BY <1>0, <1>2 DEF Fork, At, MainConsistent
  <2>2. c \in Jobs /\ c = cur
    BY <2>1
  <2>3. \/ nth = 1 /\ nth' = 2 /\ proc'[Leader(c)] = "born"
        \/ nth # 1 /\ nth' = nth /\ proc'[Leader(c)] = proc[Leader(c)]
    BY <1>2, <2>2, ForkLeader
  <2>4. nth = 1 <=> proc[Leader(c)] = "none"
    BY <1>0, <2>1, <2>2 DEF FirstForked
  <2> QED BY <2>3, <2>4
<1>3. CASE ForkFails \/ ReadFirst
  BY <1>3 DEF ForkFails, ReadFirst
<1>4. CASE ReadError \/ Release
  <2>1. UNCHANGED <<proc, cur>> /\ pc \in {"fork", "read_error"}
    BY <1>4 DEF ReadError, Release, At, kernelVars
  <2>2. nth' = 1 <=> nth = 1
    BY <1>0, <1>4 DEF ReadError, Release, At, LoopConsistent, TypeOK
  <2> QED BY <1>0, <2>1, <2>2 DEF FirstForked
<1>5. CASE UNCHANGED <<pc, cur, nth>> /\ ~Fork
  <2>1. cur \in Jobs /\ c = cur
    BY <1>0, <1>5 DEF MainConsistent
  <2>2. Onward(Leader(c))
    BY <1>5, <2>1, LeaderIs, ProcStep
  <2> QED BY <1>0, <1>5, <2>1, <2>2 DEF FirstForked, Onward
<1> QED BY <1>1, <1>2, <1>3, <1>4, <1>5, CurStep

LEMMA GivenUpStep == IInv /\ LifeInv /\ [Next]_vars => GivenUpUnrun'
<1> SUFFICES ASSUME IInv, LifeInv, [Next]_vars, pc' = "error_label"
             PROVE  proc'[Leader(cur')] \notin Awake
  BY DEF GivenUpUnrun
<1> PICK c : c = cur'
  OBVIOUS
<1>0. GivenUpUnrun /\ ErrsEnded /\ LeaderKept /\ MainConsistent
  BY DEF LifeInv, IInv
<1> USE DEF Forking
<1>1. ~Fork /\ ~Release /\ ~(c \in Jobs /\ Created(c))
  BY CreatedFacts DEF Fork, Release, At
<1>2. CASE ForkFails \/ ReadError
  BY <1>0, <1>2 DEF ForkFails, ReadError, At, kernelVars, LeaderKept, Awake
<1>3. CASE ReadFirst
  <2>1. cur \in Jobs /\ cur' = cur /\ Leader(cur) \in errs /\ UNCHANGED proc
    BY <1>0, <1>3 DEF ReadFirst, At, MainConsistent, kernelVars
  <2> QED BY <1>0, <2>1 DEF ErrsEnded, Awake, Halted
<1>4. CASE UNCHANGED <<pc, cur, nth>>
  <2>1. cur \in Jobs /\ c = cur /\ pc = "error_label"
    BY <1>0, <1>4 DEF MainConsistent
  <2>2. Onward(Leader(c))
    BY <1>1, <2>1, LeaderIs, ProcStep
  <2>3. ~Exec(Leader(c))
    BY <2>1, LeaderIs DEF Exec, ReadyToExec, ControlClosed
  <2> QED BY <1>0, <1>4, <2>1, <2>2, <2>3 DEF GivenUpUnrun, Onward
<1> QED BY <1>1, <1>2, <1>3, <1>4, CurStep

LEMMA ErrsEndedStep == IInv /\ LifeInv /\ [Next]_vars => ErrsEnded'
<1> SUFFICES ASSUME IInv, LifeInv, [Next]_vars, NEW j \in Jobs, Leader(j) \in errs'
             PROVE  proc'[Leader(j)] \in {"zombie", "reaped"}
  BY DEF ErrsEnded
<1>0. FirstForked /\ ErrsEnded /\ TypeOK /\ TypeOK' /\ Leader(j) \in Procs
  BY TypeStep, LeaderIs DEF LifeInv, IInv
<1>1. CASE Fork
  <2>1. Leader(j) \in errs /\ proc[Leader(j)] \in {"zombie", "reaped"}
    BY <1>0, <1>1, ForkLeader DEF ErrsEnded
  <2>2. ~(j = cur /\ nth = 1)
    BY <1>0, <1>1, <2>1 DEF FirstForked, Fork, At
  <2> QED BY <1>1, <2>1, <2>2, ForkLeader
<1>2. CASE ~Fork /\ Leader(j) \in errs
  <2>1. Onward(Leader(j)) /\ proc[Leader(j)] \in {"zombie", "reaped"}
    BY <1>0, <1>2, ProcStep DEF ErrsEnded
  <2>2. ~Exec(Leader(j))
    BY <1>0, <2>1 DEF Exec, ReadyToExec
  <2>3. proc'[Leader(j)] \in ProcStates
    BY <1>0 DEF TypeOK, KernelTypeOK
  <2> QED BY <2>1, <2>2, <2>3 DEF Onward, ProcStates, Starting, Halted, Awake
<1>3. CASE Leader(j) \notin errs
  <2>1. ChildFails(Leader(j))
    BY <1>3, ErrsStep
  <2> QED BY <1>0, <2>1 DEF ChildFails, Signalled, TypeOK, KernelTypeOK
<1> QED BY <1>1, <1>2, <1>3

LEMMA LeadersStep == IInv /\ LifeInv /\ [Next]_vars => LeadersThere' /\ LeadersGrouped'
<1> SUFFICES ASSUME IInv, LifeInv, [Next]_vars PROVE LeadersThere' /\ LeadersGrouped'
  OBVIOUS
<1>0. /\ FirstForked /\ LeadersThere /\ LeadersGrouped
      /\ LoopConsistent /\ MainConsistent /\ TypeOK /\ OneOwner
  BY DEF LifeInv, IInv
<1>1. ASSUME NEW j \in Jobs, proc[Leader(j)] # "none" PROVE proc'[Leader(j)] # "none"
  <2>1. CASE Fork
    BY <1>1, <2>1, ForkLeader
  <2>2. CASE Onward(Leader(j))
    BY <1>1, <2>2 DEF Onward
  <2> QED BY <2>1, <2>2, LeaderIs, ProcStep
<1>2. ASSUME pc' \in InHand \union Running PROVE proc'[Leader(cur')] # "none"
  <2>1. PICK c : c = cur /\ c = cur'
    BY <1>2, CurStep
  <2>2. CASE pc \in InHand \union Running
    <3>1. c \in Jobs /\ proc[Leader(c)] # "none"
      BY <1>0, <2>1, <2>2 DEF MainConsistent, LeadersThere
    <3> QED BY <1>1, <2>1, <3>1
  <2>3. CASE ReadFirst
    <3>1. pc = "read_first" /\ c \in Jobs
      BY <1>0, <2>1, <2>3 DEF ReadFirst, At, MainConsistent, Forking
    <3>2. nth # 1
      BY <1>0, <3>1 DEF LoopConsistent, Forking, TypeOK, JobRecords, MainConsistent
    <3>3. proc[Leader(c)] # "none"
      BY <1>0, <2>1, <3>1, <3>2 DEF FirstForked
    <3> QED BY <1>1, <2>1, <3>1, <3>3
  <2>4. CASE Without(current_job, cur, current_job')
    <3>1. c \in ToSet(current_job) /\ c \in Jobs
      BY <1>0, <2>1, <2>4, WithoutToSet, ContainsToSet DEF TypeOK, OneOwner
    <3> QED BY <1>0, <1>1, <2>1, <3>1 DEF LeadersThere
  <2> QED BY <1>2, <2>2, <2>3, <2>4, CurStep
<1>3. ASSUME NEW j \in ToSet(current_job') PROVE proc'[Leader(j)] # "none"
  <2>1. proc[Leader(j)] # "none"
    BY <1>0, ListStep DEF LeadersThere
  <2>2. j \in Jobs
    <3>1. current_job' \in Seq(Jobs)
      BY TypeStep DEF TypeOK
    <3> QED BY <3>1, ContainsToSet
  <2> QED BY <1>1, <2>1, <2>2
<1>4. ASSUME NEW j \in Jobs, proc'[Leader(j)] \notin {"none", "reaped"}
      PROVE  Leader(j) \in grouped'
  <2>1. CASE Fork
    BY <1>0, <1>4, <2>1, ForkLeader DEF LeadersGrouped
  <2>2. CASE Onward(Leader(j))
    BY <1>0, <1>4, <2>2 DEF Onward, LeadersGrouped
  <2> QED BY <2>1, <2>2, LeaderIs, ProcStep
<1> QED BY <1>2, <1>3, <1>4 DEF LeadersThere, LeadersGrouped

LEMMA EmptiedStep == IInv /\ LifeInv /\ [Next]_vars => Emptied'
<1> SUFFICES ASSUME IInv, LifeInv, [Next]_vars, leaving' # "no", pc' # "kill"
             PROVE  current_job' = <<>>
  BY DEF Emptied
<1>1. leaving # "no"
  BY LeavingStep
<1>2. CASE pc = "kill"
  BY <1>2, LeavingStep
<1>3. CASE pc # "kill"
  <2>1. current_job = <<>>
    BY <1>1, <1>3 DEF LifeInv, Emptied
  <2>2. ~(pc \in InHand \union Running)
    BY <1>1 DEF IInv, MainConsistent
  <2>3. ToSet(current_job') = {}
    BY <2>1, <2>2, ListStep, EmptyList
  <2>4. current_job' \in Seq(Jobs)
    BY TypeStep DEF IInv, TypeOK
  <2>5. \A i \in 1 .. Len(current_job') : current_job'[i] \in ToSet(current_job')
    BY <2>4, ContainsToSet
  <2> QED BY <2>3, <2>4, <2>5
<1> QED BY <1>2, <1>3

LEMMA LifeStep == IInv /\ LifeInv /\ [Next]_vars => LifeInv'
BY FirstForkedStep, GivenUpStep, ErrsEndedStep, LeadersStep, EmptiedStep DEF LifeInv

-----------------------------------------------------------------------------
(* The first programs.  Only the fork, the exec and the end of a leader    *)
(* show; that it stops, goes on or is reaped does not.                      *)
SameKind(p) ==
    /\ proc'[p] \in Starting <=> proc[p] \in Starting
    /\ proc'[p] \in Awake <=> proc[p] \in Awake
    /\ proc'[p] = "none" <=> proc[p] = "none"

LEMMA KindSignalled ==
    ASSUME TypeOK, NEW f \in [Procs -> ProcStates], NEW k, NEW p \in Procs,
           \/ proc' \in {f, Cont(k, f)}
           \/ proc' = TermCont(k, f) /\ proc[p] \notin Starting,
           \/ f[p] = proc[p]
           \/ f[p] = "reaped" /\ proc[p] = "zombie"
           \/ f[p] = "stopped" /\ proc[p] = "stopping"
    PROVE  SameKind(p)
<1>1. /\ f[p] \in Starting <=> proc[p] \in Starting
      /\ f[p] \in Awake <=> proc[p] \in Awake
      /\ f[p] = "none" <=> proc[p] = "none"
  BY DEF Starting, Awake, Halted
<1>2. CASE proc' \in {f, Cont(k, f)}
  BY <1>1, <1>2, ContMoves DEF SameKind
<1>3. CASE proc' = TermCont(k, f) /\ proc[p] \notin Starting
  BY <1>1, <1>3, TermContMoves DEF SameKind
<1> QED BY <1>2, <1>3

(* waitpid reports q, and the group k is signalled or not.                 *)
Collected(q, to, k) ==
    /\ \/ to = "reaped" /\ proc[q] = "zombie"
       \/ to = "stopped" /\ proc[q] = "stopping"
    /\ LET f == [proc EXCEPT ![q] = to]
       IN  \/ proc' \in {f, Cont(k, f)}
           \/ proc' = TermCont(k, f) /\ \A j \in Jobs : proc[Leader(j)] \notin Starting

LEMMA KindMoved ==
    ASSUME TypeOK, NEW q \in Procs, NEW to, NEW k, Collected(q, to, k), NEW j \in Jobs
    PROVE  SameKind(Leader(j))
<1> DEFINE f == [proc EXCEPT ![q] = to]
           p == Leader(j)
<1>1. proc \in [Procs -> ProcStates] /\ p \in Procs
  BY LeaderIs DEF TypeOK, KernelTypeOK
<1>2. f \in [Procs -> ProcStates]
  BY <1>1 DEF ProcStates, Halted, Collected
<1>3. \/ f[p] = proc[p]
      \/ f[p] = "reaped" /\ proc[p] = "zombie"
      \/ f[p] = "stopped" /\ proc[p] = "stopping"
  BY <1>1 DEF Collected
<1>4. \/ proc' \in {f, Cont(k, f)}
      \/ proc' = TermCont(k, f) /\ proc[p] \notin Starting
  BY DEF Collected
<1> HIDE DEF f, p
<1> QED BY <1>1, <1>2, <1>3, <1>4, KindSignalled DEF p

(* Of all steps of the shell only fork and error_label show in a program.  *)
LEMMA KindKept ==
    ASSUME IInv, UNCHANGED vars \/ Gone \/ User \/ Main \/ Handler,
           ~Fork, ~ErrorLabel, NEW j \in Jobs
    PROVE  SameKind(Leader(j))
<1> DEFINE l == Leader(j)
<1>0. /\ TypeOK /\ proc \in [Procs -> ProcStates] /\ l \in Procs
      /\ LeaderInSight
  BY LeaderIs DEF IInv, TypeOK, KernelTypeOK
<1>a. ASSUME UNCHANGED proc PROVE SameKind(l)
  BY <1>a DEF SameKind
<1>b. ASSUME NEW k, proc' = Cont(k, proc) PROVE SameKind(l)
  BY <1>0, <1>b, KindSignalled
<1>c. ASSUME NEW p \in Procs, WaitExit(p) \/ WaitStop(p) PROVE SameKind(l)
  <2>1. \A i \in Jobs : proc[Leader(i)] \notin Starting
    BY <1>0, <1>c DEF WaitExit, WaitStop, At, LeaderInSight, Forking
  <2>2. PICK k : k = cur
    OBVIOUS
  <2>3. CASE WaitExit(p)
    <3>1. Collected(p, "reaped", k)
      BY <2>1, <2>2, <2>3 DEF WaitExit, Signalled, Collected
    <3> QED BY <1>0, <3>1, KindMoved
  <2>4. CASE WaitStop(p)
    <3>1. Collected(p, "stopped", k)
      BY <2>1, <2>2, <2>4 DEF WaitStop, Signalled, Collected
    <3> QED BY <1>0, <3>1, KindMoved
  <2> QED BY <1>c, <2>3, <2>4
<1>d. ASSUME NEW p \in Procs, proc[p] = "zombie", proc' = [proc EXCEPT ![p] = "reaped"]
      PROVE  SameKind(l)
  <2>1. Collected(p, "reaped", p)
    BY <1>d DEF Collected
  <2> QED BY <1>0, <2>1, KindMoved
<1>1. CASE UNCHANGED vars \/ Gone
  BY <1>1, <1>a DEF Gone, vars, kernelVars
<1>2. CASE User
  BY <1>2, <1>a DEF User, OtherLine, ExitLine, ZeroLine, StartLine, FgBgLine, kernelVars
<1>3. CASE Main
  <2>1. CASE \/ PrintPending \/ PrintRemoved \/ ForkFails \/ ReadError \/ Release \/ ReadFirst
             \/ LaunchJob \/ WaitDone \/ Enlist \/ GetTerminal \/ TerminalLost
             \/ Take \/ FgTerminal \/ FgTerminalFails \/ BgCurrent \/ BgPending \/ CleanupDone
    BY <2>1, <1>a
       DEF PrintPending, PrintRemoved, ForkFails, ReadError, Release, ReadFirst, LaunchJob,
           WaitDone, Enlist, GetTerminal, TerminalLost, Take, FgTerminal, FgTerminalFails,
           BgCurrent, BgPending, CleanupDone, kernelVars
  <2>2. CASE FgCont \/ BgCont \/ CleanupKill
    BY <2>2, <1>a, <1>b DEF FgCont, BgCont, CleanupKill, Signalled
  <2>3. ASSUME NEW p \in Procs, CleanupReap(p) PROVE SameKind(l)
    BY <2>3, <1>d DEF CleanupReap, Reap
  <2> QED BY <1>3, <1>c, <2>1, <2>2, <2>3 DEF Main
<1>4. CASE Handler
  <2>1. CASE Delivered \/ ScanNext \/ ScanDone \/ HandlerReturns
    BY <2>1, <1>a DEF Delivered, ScanNext, ScanDone, HandlerReturns, kernelVars
  <2>2. ASSUME NEW p \in Procs, ReapAny(p) PROVE SameKind(l)
    BY <2>2, <1>d DEF ReapAny, Reap
  <2>3. ASSUME NEW p \in Procs, ScanExit(p) PROVE SameKind(l)
    <3>1. PICK k : k = Scanned
      OBVIOUS
    <3>2. Collected(p, "reaped", k)
      BY <2>3, <3>1 DEF ScanExit, Signalled, Collected
    <3> QED BY <1>0, <3>2, KindMoved
  <2>4. ASSUME NEW p \in Procs, NEW obeying \in SUBSET Members(p[1]), ScanStop(p, obeying)
        PROVE  SameKind(l)
    <3>1. /\ proc[p] = "stopping"
          /\ obeying \subseteq {q \in Members(Scanned) : proc[q] = "run"}
          /\ proc' = [q \in Procs |-> IF q \in obeying THEN "stopping"
                                      ELSE [proc EXCEPT ![p] = "stopped"][q]]
      BY <2>4 DEF ScanStop, Signalled
    <3> HIDE DEF l
    <3>2. proc'[l] = proc[l] \/ (proc[l] \in Awake /\ proc'[l] \in Halted)
      BY <1>0, <3>1 DEF Awake, Halted
    <3> QED BY <3>2 DEF SameKind, Awake, Halted, Starting
  <2> QED BY <1>4, <2>1, <2>2, <2>3, <2>4 DEF Handler
<1> QED BY <1>1, <1>2, <1>3, <1>4

LEMMA ProgramsKept ==
    ASSUME IInv, UNCHANGED vars \/ Gone \/ User \/ Main \/ Handler, ~Fork, ~ErrorLabel
    PROVE  SamePrograms
<1> SUFFICES ASSUME NEW j \in Jobs PROVE FirstProgram(j)' = FirstProgram(j)
  BY DEF SamePrograms
<1>1. TypeOK /\ TypeOK' /\ SameKind(Leader(j))
  BY TypeStep, KindKept DEF IInv, Next
<1> QED BY <1>1, ProgramIs DEF SameKind

-----------------------------------------------------------------------------
(* The phases.  First the steps after which every job is where it was.     *)
LEMMA MemKept ==
    ASSUME IInv, [Next]_vars, pc # "read_line" \/ pc' # "fork", NEW i \in Jobs
    PROVE  job'[i].mem = "unused" <=> job[i].mem = "unused"
<1>1. ~Created(i)
  BY CreatedFacts
<1> QED BY <1>1, JobStep DEF SameJob

LEMMA Stutters ==
    ASSUME SamePhases, SamePrograms, ShellState' = ShellState
    PROVE  UNCHANGED L!lifecycleVars
BY SameMapped DEF Phases, Programs, L!lifecycleVars

(* The main thread goes on with the same job in hand, or with none.        *)
SameHand ==
    \/ pc \in Forking /\ pc' \in Forking /\ cur' = cur
    \/ pc = "wait" /\ pc' = "wait" /\ cur' = cur
    \/ /\ pc \in (InHand \union Running) \ {"wait"} /\ pc' \in (InHand \union Running) \ {"wait"}
       /\ cur' = cur
    \/ /\ pc \notin Forking \union InHand \union Running
       /\ pc' \notin Forking \union InHand \union Running

LEMMA HandKept ==
    ASSUME IInv, [Next]_vars, SameHand,
           UNCHANGED <<current_job, pending_removed_jobs>>
    PROVE  SamePhases
<1>1. pc # "read_line" \/ pc' # "fork"
  BY DEF SameHand, Forking, InHand, Running
<1>2. \A i \in Jobs : (job'[i].mem = "unused") <=> (job[i].mem = "unused")
  BY <1>1, MemKept
<1>3. /\ HandleHeld' = HandleHeld
      /\ HandleHeld # {} => /\ (pc' \in Forking) <=> (pc \in Forking)
                            /\ (pc' = "wait") <=> (pc = "wait")
  BY DEF SameHand, HandleHeld, Forking, InHand, Running
<1> QED BY <1>2, <1>3, PhasesKept

StartStutters == ReadFirst /\ Leader(cur) \in errs
LaunchStutters == LaunchJob /\ ~job[cur].fg
WaitStutters == \E p \in Procs : (WaitExit(p) \/ WaitStop(p)) /\ pc' = pc
ScanStutters == ScanNext /\ job[Scanned].size # 0
ReapStutters ==
    \E p \in Procs : ReapAny(p) /\ pc' = pc /\ UNCHANGED <<current_job, pending_removed_jobs>>
KillStutters == CleanupKill /\ current_job = <<>>

MainStutters ==
    \/ PrintPending \/ ForkFails \/ ReadError \/ Release \/ StartStutters
    \/ LaunchStutters \/ WaitStutters \/ FgTerminal \/ FgCont \/ BgCont \/ BgPending
    \/ GetTerminal \/ KillStutters \/ CleanupDone
    \/ \E p \in Procs : CleanupReap(p)

(* They keep the job in hand and all lists of handles.                     *)
LEMMA MainStutterFacts ==
    ASSUME IInv, MainStutters
    PROVE  /\ Main /\ ~Fork /\ ~ErrorLabel /\ SameHand
           /\ UNCHANGED <<current_job, pending_removed_jobs>>
           /\ ShellState' = ShellState
<1> USE DEF Forking, InHand, Running, SameHand, ShellState, Up, Over, At, Fork, ErrorLabel
<1>0. MainConsistent
  BY DEF IInv
<1>1. CASE PrintPending
  BY <1>1 DEF Main, PrintPending
<1>2. CASE ForkFails \/ ReadError \/ Release
  BY <1>2 DEF Main, ForkFails, ReadError, Release, lists
<1>3. CASE StartStutters
  BY <1>3 DEF Main, StartStutters, ReadFirst, lists
<1>4. CASE LaunchStutters
  BY <1>4 DEF Main, LaunchStutters, LaunchJob, lists
<1>5. CASE WaitStutters
  <2>1. Main
    BY <1>5 DEF Main, WaitStutters
  <2>2. /\ pc = "wait" /\ pc' = "wait"
        /\ UNCHANGED <<current_job, pending_removed_jobs, leaving, cur>>
    BY <1>5 DEF WaitStutters, WaitExit, WaitStop, WaitCheck
  <2> QED BY <2>1, <2>2
<1>6. CASE FgTerminal \/ FgCont \/ BgCont \/ BgPending
  BY <1>6 DEF Main, FgTerminal, FgCont, BgCont, BgPending, lists
<1>7. CASE GetTerminal
  BY <1>7 DEF Main, GetTerminal, lists
<1>8. CASE KillStutters
  BY <1>0, <1>8 DEF Main, KillStutters, CleanupKill, MainConsistent, Leaving
<1>9. CASE CleanupDone
  BY <1>0, <1>9 DEF Main, CleanupDone, MainConsistent, Leaving, lists
<1>10. ASSUME NEW p \in Procs, CleanupReap(p)
       PROVE  /\ Main /\ ~Fork /\ ~ErrorLabel /\ SameHand
              /\ UNCHANGED <<current_job, pending_removed_jobs>>
              /\ ShellState' = ShellState
  BY <1>0, <1>10 DEF Main, CleanupReap, MainConsistent, Leaving, lists
<1> QED BY <1>1, <1>2, <1>3, <1>4, <1>5, <1>6, <1>7, <1>8, <1>9, <1>10 DEF MainStutters

LEMMA MainStutter ==
    ASSUME IInv, [Next]_vars, MainStutters
    PROVE  UNCHANGED L!lifecycleVars
BY MainStutterFacts, HandKept, ProgramsKept, Stutters

HandlerStutters ==
    \/ Delivered \/ ScanDone \/ HandlerReturns \/ ScanStutters \/ ReapStutters
    \/ \E p \in Procs : ScanExit(p)
    \/ \E p \in Procs : \E obeying \in SUBSET Members(p[1]) : ScanStop(p, obeying)

LEMMA HandlerStutterFacts ==
    ASSUME IInv, HandlerStutters
    PROVE  /\ Handler /\ pc' = pc /\ UNCHANGED <<current_job, pending_removed_jobs>>
<1>1. CASE Delivered \/ ScanDone \/ HandlerReturns
  BY <1>1 DEF Delivered, ScanDone, HandlerReturns, lists, Handler
<1>2. CASE ScanStutters
  BY <1>2 DEF ScanStutters, ScanNext, Handler
<1>3. CASE ReapStutters
  BY <1>3 DEF ReapStutters, Handler
<1>4. ASSUME NEW p \in Procs, ScanExit(p)
      PROVE  Handler /\ pc' = pc /\ UNCHANGED <<current_job, pending_removed_jobs>>
  BY <1>4 DEF ScanExit, lists, Handler
<1>5. ASSUME NEW p \in Procs, NEW obeying \in SUBSET Members(p[1]), ScanStop(p, obeying)
      PROVE  Handler /\ pc' = pc /\ UNCHANGED <<current_job, pending_removed_jobs>>
  BY <1>5 DEF ScanStop, lists, Handler
<1> QED BY <1>1, <1>2, <1>3, <1>4, <1>5 DEF HandlerStutters

(* The handler runs between two steps of a main thread that is not in      *)
(* cleanup and does not wait for a job.                                    *)
LEMMA HandlerApart ==
    ASSUME IInv, Handler
    PROVE  /\ ~Fork /\ ~ErrorLabel /\ cur' = cur /\ leaving' = leaving /\ leaving = "no"
           /\ pc # "wait" /\ pc \notin Over
<1>1. /\ UNCHANGED <<cur, leaving, nth>> /\ Up /\ ~ChldBlocked
      /\ pc' = pc \/ (pc' = "crashed" /\ h' = "idle")
  BY HandlerFrame DEF IInv
<1>2. h # "idle" \/ Delivered
  BY DEF Handler, ScanNext, ScanDone, HandlerReturns, ScanExit, ReapAny, ScanStop, Scanning
<1>3. ~Fork
  <2>1. Fork => nth' # nth \/ pc' # pc
    BY DEF Fork, At, IInv, TypeOK
  <2>2. Fork => h = "idle" /\ pc' # "crashed"
    BY DEF Fork, At
  <2> QED BY <1>1, <2>1, <2>2
<1>4. ~ErrorLabel
  BY <1>1 DEF ErrorLabel, At
<1> QED BY <1>1, <1>3, <1>4 DEF ChldBlocked, Up

LEMMA HandlerStutter ==
    ASSUME IInv, [Next]_vars, HandlerStutters
    PROVE  UNCHANGED L!lifecycleVars
<1>1. /\ Handler /\ pc' = pc /\ UNCHANGED <<current_job, pending_removed_jobs>>
  BY HandlerStutterFacts
<1>2. ~Fork /\ ~ErrorLabel /\ cur' = cur /\ leaving' = leaving
  BY <1>1, HandlerApart
<1>3. SameHand
  BY <1>1, <1>2 DEF SameHand
<1>4. ShellState' = ShellState
  BY <1>1, <1>2 DEF ShellState, Up
<1> QED BY <1>1, <1>2, <1>3, <1>4, HandKept, ProgramsKept, Stutters

-----------------------------------------------------------------------------
(* The steps that show.                                                    *)
(* Every job but c stays where it is.                                      *)
Apart(c) ==
    \A i \in Jobs : i # c =>
        /\ job'[i].mem = "unused" <=> job[i].mem = "unused"
        /\ i \in ToSet(current_job') <=> i \in ToSet(current_job)
        /\ i \in ToSet(pending_removed_jobs') <=> i \in ToSet(pending_removed_jobs)
        /\ i \in HandleHeld' <=> i \in HandleHeld
        /\ i \in HandleHeld => pc' = pc

LEMMA OnlyMoves ==
    ASSUME NEW c, NEW to, Apart(c), Phase(c)' = to
    PROVE  PhaseTo(c, to)
BY DEF Apart, Phase, PhaseTo

(* No job in hand, and none waited for, as JobLifecycle sees it.           *)
LEMMA HandFree ==
    /\ HandleHeld = {} => L!FreeHand
    /\ pc # "wait" => \A i \in Jobs : Phases[i] # "waited"
<1>1. \A i \in Jobs : Phases[i] = Phase(i)
  BY DEF Phases
<1>2. \A i \in Jobs : i \notin HandleHeld => Phase(i) \in {"new", "listed", "done", "gone"}
  BY DEF Phase
<1>3. pc # "wait" => \A i \in Jobs : Phase(i) # "waited"
  BY DEF Phase
<1>4. HandleHeld = {} => \A i \in Jobs : Phases[i] \notin L!InHand
  BY <1>1, <1>2 DEF L!InHand
<1> QED BY <1>1, <1>3, <1>4 DEF L!FreeHand, Phases

(* A job in hand is live and in no list.                                   *)
LEMMA InHandOnly ==
    ASSUME IInv, pc \in InHand \union Running \union Forking
    PROVE  /\ cur \in Jobs /\ HandleHeld = {cur} /\ leaving = "no" /\ Up
           /\ job[cur].mem = "live"
           /\ cur \notin ToSet(current_job) /\ cur \notin ToSet(pending_removed_jobs)
           /\ ShellState = "busy"
<1>1. /\ cur \in Jobs /\ leaving = "no"
  BY DEF IInv, MainConsistent
<1>2. HandleHeld = {cur} /\ Up /\ pc # "read_line"
  BY DEF HandleHeld, Up, Over, InHand, Running, Forking
<1>3. cur \notin ToSet(current_job) \union ToSet(pending_removed_jobs)
  BY <1>2 DEF IInv, OneOwner
<1>4. job[cur].mem = "live"
  BY DEF IInv, NoDangling
<1> QED BY <1>1, <1>2, <1>3, <1>4 DEF ShellState

(* The leader has executed its program: the job is the shell's to wait for *)
(* or to put into the list.                                                *)
LEMMA StartedIs ==
    ASSUME IInv, LifeInv, [Next]_vars, ReadFirst, Leader(cur) \notin errs
    PROVE  \E c \in Jobs : L!Started(c)
<1> PICK c : c = cur
  OBVIOUS
<1> USE DEF Forking, Running, InHand
<1>0. TypeOK /\ LoopConsistent /\ FirstForked
  BY DEF IInv, LifeInv
<1>1. /\ pc = "read_first" /\ pc' = "launch_job" /\ cur' = c
      /\ proc[Leader(c)] \notin Starting
      /\ UNCHANGED <<kernelVars, job, lists, leaving>>
  BY DEF ReadFirst, At, ErrorRead
<1>2. /\ c \in Jobs /\ HandleHeld = {c} /\ leaving = "no" /\ job[c].mem = "live"
      /\ ShellState = "busy"
  BY <1>1, InHandOnly
<1>3. nth # 1
  BY <1>0, <1>1, <1>2 DEF LoopConsistent, TypeOK, JobRecords
<1>4. FirstProgram(c) \in {"running", "ended"}
  BY <1>0, <1>1, <1>2, <1>3, FirstIs DEF FirstForked
<1>5. Phase(c) = "starting"
  BY <1>1, <1>2 DEF Phase
<1>6. HandleHeld' = {c}
  BY <1>1 DEF HandleHeld
<1>7. Phase(c)' = "taken"
  BY <1>1, <1>2, <1>6 DEF Phase
<1>8. Apart(c)
  BY <1>1, <1>2, <1>6 DEF Apart, lists
<1>9. L!Moves(c, {"starting"}, "taken")
  BY <1>2, <1>5, <1>7, <1>8, OnlyMoves, PhaseMoves
<1>10. Programs' = Programs
  <2>1. ~Fork /\ ~ErrorLabel /\ Main
    BY <1>1 DEF Fork, ErrorLabel, At, Main
  <2> QED BY <2>1, ProgramsKept, SameMapped
<1>11. ShellState' = ShellState
  BY <1>1, <1>2 DEF ShellState, Up, Over
<1>12. Programs[c] \in {"running", "ended"}
  BY <1>2, <1>4 DEF Programs
<1> QED BY <1>2, <1>9, <1>10, <1>11, <1>12 DEF L!Started, Programs

(* The main thread moves the job it has in hand.                           *)
LEMMA HandMoves ==
    ASSUME IInv, [Next]_vars, pc \in InHand \union Running \union Forking,
           NEW c, c = cur, NEW from, Phase(c) \in from, NEW to, Phase(c)' = to,
           HandleHeld' \subseteq {c}, c \in HandleHeld' => cur' = c,
           \A i \in Jobs : i # c =>
               /\ i \in ToSet(current_job') <=> i \in ToSet(current_job)
               /\ i \in ToSet(pending_removed_jobs') <=> i \in ToSet(pending_removed_jobs)
    PROVE  L!Moves(c, from, to)
<1>1. pc # "read_line"
  BY DEF InHand, Running, Forking
<1>2. HandleHeld = {c} /\ c \in Jobs
  BY InHandOnly
<1>3. Apart(c)
  BY <1>1, <1>2, MemKept DEF Apart
<1> QED BY <1>2, <1>3, OnlyMoves, PhaseMoves

(* launch_job in the foreground.                                           *)
LEMMA WaitsIs ==
    ASSUME IInv, [Next]_vars, LaunchJob, job[cur].fg
    PROVE  \E c \in Jobs : L!Waits(c)
<1> PICK c : c = cur
  OBVIOUS
<1> USE DEF Forking, Running, InHand
<1>1. pc = "launch_job" /\ pc' = "wait" /\ cur' = c /\ UNCHANGED <<kernelVars, job, lists, leaving>>
  BY DEF LaunchJob, At
<1>2. /\ c \in Jobs /\ HandleHeld = {c} /\ leaving = "no" /\ job[c].mem = "live"
      /\ ShellState = "busy"
  BY <1>1, InHandOnly
<1>3. HandleHeld' = {c}
  BY <1>1 DEF HandleHeld
<1>4. Phase(c) = "taken" /\ Phase(c)' = "waited"
  BY <1>1, <1>2, <1>3 DEF Phase
<1>5. UNCHANGED <<current_job, pending_removed_jobs>>
  BY <1>1 DEF lists
<1>6. L!Moves(c, {"taken"}, "waited")
  BY <1>1, <1>3, <1>4, <1>5, HandMoves
<1>7. Programs' = Programs
  <2>1. ~Fork /\ ~ErrorLabel /\ Main
    BY <1>1 DEF Fork, ErrorLabel, At, Main
  <2> QED BY <2>1, ProgramsKept, SameMapped
<1>8. ShellState' = ShellState
  BY <1>1, <1>2 DEF ShellState, Up, Over
<1> QED BY <1>2, <1>6, <1>7, <1>8 DEF L!Waits, Programs

(* waitpid reports ECHILD: the leader was in the group, and has ended.     *)
LEMMA ForgetsIs ==
    ASSUME IInv, LifeInv, [Next]_vars, WaitDone
    PROVE  \E c \in Jobs : L!Forgets(c)
<1> PICK c : c = cur
  OBVIOUS
<1> USE DEF Forking, Running, InHand
<1>0. TypeOK /\ TypeOK' /\ LeadersThere /\ LeadersGrouped
  BY TypeStep DEF IInv, LifeInv
<1>1. /\ pc = "wait" /\ pc' = "get_terminal" /\ Members(cur) = {}
      /\ UNCHANGED <<kernelVars, job, lists, leaving>>
  BY DEF WaitDone, At
<1>2. /\ c \in Jobs /\ HandleHeld = {c} /\ leaving = "no" /\ job[c].mem = "live"
      /\ c \notin ToSet(current_job) /\ c \notin ToSet(pending_removed_jobs)
      /\ ShellState = "busy"
  BY <1>1, InHandOnly
<1>3. HandleHeld' = {}
  BY <1>1 DEF HandleHeld
<1>4. Phase(c) = "waited" /\ Phase(c)' = "gone"
  BY <1>1, <1>2, <1>3 DEF Phase, lists
<1>5. UNCHANGED <<current_job, pending_removed_jobs>>
  BY <1>1 DEF lists
<1>6. L!Moves(c, {"waited"}, "gone")
  BY <1>1, <1>3, <1>4, <1>5, HandMoves
<1>7. Programs' = Programs
  <2>1. ~Fork /\ ~ErrorLabel /\ Main
    BY <1>1 DEF Fork, ErrorLabel, At, Main
  <2> QED BY <2>1, ProgramsKept, SameMapped
<1>8. ShellState' = ShellState
  BY <1>1, <1>2 DEF ShellState, Up, Over
<1>9. Programs[c] = "ended"
  <2>1. Leader(c) \notin grouped
    BY <1>1, <1>2, LeaderIs DEF Members
  <2>2. proc[Leader(c)] \in {"none", "reaped"} /\ proc[Leader(c)] # "none"
    BY <1>0, <1>1, <1>2, <2>1 DEF LeadersThere, LeadersGrouped
  <2>3. FirstProgram(c) = "ended"
    BY <1>0, <1>2, <2>2, FirstIs
  <2> QED BY <1>2, <2>3 DEF Programs
<1> QED BY <1>2, <1>6, <1>7, <1>8, <1>9 DEF L!Forgets, Programs

(* The ways into the list of jobs.                                         *)
LEMMA ListsIs ==
    ASSUME IInv, [Next]_vars, Listing
    PROVE  \E c \in Jobs : L!Lists(c)
<1> PICK c : c = cur
  OBVIOUS
<1> USE DEF Forking, Running, InHand
<1>0. TypeOK /\ TypeOK'
  BY TypeStep DEF IInv
<1>1. /\ pc \in InHand \union Running /\ pc \notin Forking
      /\ pc' \in {"get_terminal", "print_pending", "bg_pending"}
      /\ UNCHANGED <<pending_removed_jobs, leaving>>
      /\ current_job' \in {Cons(cur, current_job), Append(current_job, cur)}
  <2>1. CASE Enlist \/ FgTerminalFails \/ BgCurrent
    BY <2>1 DEF Enlist, FgTerminalFails, BgCurrent, AddBoth, At
  <2>2. ASSUME NEW p \in Procs, WaitExit(p) \/ WaitStop(p), pc' # pc
        PROVE  /\ pc \in InHand \union Running /\ pc \notin Forking
               /\ pc' \in {"get_terminal", "print_pending", "bg_pending"}
               /\ UNCHANGED <<pending_removed_jobs, leaving>>
               /\ current_job' \in {Cons(cur, current_job), Append(current_job, cur)}
    BY <2>2 DEF WaitExit, WaitStop, WaitCheck, AddBoth, At
  <2> QED BY <2>1, <2>2 DEF Listing
<1>2. /\ c \in Jobs /\ HandleHeld = {c} /\ leaving = "no" /\ job[c].mem = "live"
      /\ ShellState = "busy"
  BY <1>1, InHandOnly
<1>3. ToSet(current_job') = ToSet(current_job) \union {c}
  <2>1. current_job \in Seq(Jobs)
    BY <1>0 DEF TypeOK
  <2>2. /\ ToSet(Cons(c, current_job)) = ToSet(current_job) \union {c}
        /\ ToSet(Append(current_job, c)) = ToSet(current_job) \union {c}
    BY <1>2, <2>1, ConsToSet, AppendToSet
  <2>3. current_job' = Cons(c, current_job) \/ current_job' = Append(current_job, c)
    BY <1>1
  <2> QED BY <2>2, <2>3, Zenon
<1>4. HandleHeld' = {}
  BY <1>1 DEF HandleHeld
<1>5. Phase(c) \in {"taken", "waited"}
  BY <1>1, <1>2 DEF Phase
<1>6. job'[c].mem # "unused"
  <2>1. pc # "read_line"
    BY <1>1
  <2> QED BY <1>2, <2>1, MemKept
<1>7. Phase(c)' = "listed"
  BY <1>3, <1>4, <1>6 DEF Phase
<1>8. L!Moves(c, {"taken", "waited"}, "listed")
  <2>1. \A i \in Jobs : i # c =>
            /\ i \in ToSet(current_job') <=> i \in ToSet(current_job)
            /\ i \in ToSet(pending_removed_jobs') <=> i \in ToSet(pending_removed_jobs)
    BY <1>1, <1>3
  <2> QED BY <1>1, <1>4, <1>5, <1>7, <2>1, HandMoves
<1>9. Programs' = Programs
  <2>1. ~Fork /\ ~ErrorLabel /\ Main
    BY <1>1 DEF Fork, ErrorLabel, At, Main, Listing
  <2> QED BY <2>1, ProgramsKept, SameMapped
<1>10. ShellState' = ShellState
  BY <1>1, <1>2 DEF ShellState, Up, Over
<1> QED BY <1>2, <1>8, <1>9, <1>10 DEF L!Lists, Programs

(* fork: the first one shows.                                              *)
LEMMA ForkedIs ==
    ASSUME IInv, LifeInv, [Next]_vars, Fork
    PROVE  (\E c \in Jobs : L!Forked(c)) \/ UNCHANGED L!lifecycleVars
<1> PICK c : c = cur
  OBVIOUS
<1> USE DEF Forking, Running, InHand
<1>0. TypeOK /\ FirstForked
  BY DEF IInv, LifeInv
<1>1. /\ pc = "fork" /\ pc' \in {"fork", "read_error"} /\ cur' = c
      /\ UNCHANGED <<current_job, pending_removed_jobs, leaving>>
  BY DEF Fork, At, lists
<1>2. /\ c \in Jobs /\ HandleHeld = {c} /\ leaving = "no" /\ job[c].mem = "live"
      /\ ShellState = "busy"
  BY <1>1, InHandOnly
<1>3. SamePhases
  BY <1>1, HandKept DEF SameHand
<1>4. ShellState' = ShellState
  BY <1>1, <1>2 DEF ShellState, Up, Over
<1>5. ASSUME NEW i \in Jobs, i # c \/ nth # 1 PROVE FirstProgram(i)' = FirstProgram(i)
  <2>1. proc'[Leader(i)] = proc[Leader(i)]
    BY <1>5, ForkLeader
  <2> QED BY <2>1 DEF FirstProgram
<1>6. CASE nth # 1
  BY <1>3, <1>4, <1>5, <1>6, Stutters DEF SamePrograms
<1>7. CASE nth = 1
  <2>1. proc[Leader(c)] = "none" /\ proc'[Leader(c)] = "born"
    BY <1>0, <1>1, <1>2, <1>7, ForkLeader DEF FirstForked
  <2>2. FirstProgram(c) = "none" /\ FirstProgram(c)' = "starting"
    BY <2>1 DEF FirstProgram, Starting
  <2>3. ProgramTo(c, "starting")
    BY <1>5, <2>2 DEF ProgramTo
  <2>4. Phase(c) = "starting"
    BY <1>1, <1>2 DEF Phase
  <2>5. Phases' = Phases /\ Programs' = [Programs EXCEPT ![c] = "starting"]
    BY <1>2, <1>3, <2>3, SameMapped, MovedMapped
  <2>6. Phases[c] = "starting" /\ Programs[c] = "none"
    BY <1>2, <2>2, <2>4 DEF Phases, Programs
  <2> QED BY <1>2, <1>4, <2>5, <2>6 DEF L!Forked, Phases, Programs
<1> QED BY <1>6, <1>7

(* error_label: who is killed had not begun to run.                        *)
LEMMA AbandonedIs ==
    ASSUME IInv, LifeInv, [Next]_vars, ErrorLabel
    PROVE  \E c \in Jobs : L!Abandoned(c)
<1> PICK c : c = cur
  OBVIOUS
<1> USE DEF Forking, Running, InHand
<1>0. TypeOK /\ GivenUpUnrun /\ LeaderInSight /\ proc \in [Procs -> ProcStates]
  BY DEF IInv, LifeInv, TypeOK, KernelTypeOK
<1>1. /\ pc = "error_label" /\ pc' = "get_terminal" /\ proc' = TermCont(c, proc)
      /\ UNCHANGED <<job, current_job, pending_removed_jobs, leaving>>
  BY DEF ErrorLabel, At, lists, Signalled
<1>2. /\ c \in Jobs /\ HandleHeld = {c} /\ leaving = "no" /\ job[c].mem = "live"
      /\ c \notin ToSet(current_job) /\ c \notin ToSet(pending_removed_jobs)
      /\ ShellState = "busy"
  BY <1>1, InHandOnly
<1>3. HandleHeld' = {}
  BY <1>1 DEF HandleHeld
<1>4. Phase(c) = "starting" /\ Phase(c)' = "gone"
  BY <1>1, <1>2, <1>3 DEF Phase
<1>5. L!Moves(c, {"starting"}, "gone")
  BY <1>1, <1>3, <1>4, HandMoves
<1>6. ShellState' = ShellState
  BY <1>1, <1>2 DEF ShellState, Up, Over
<1>7. ASSUME NEW i \in Jobs, i # c PROVE FirstProgram(i)' = FirstProgram(i)
  <2>1. Leader(i) \in Procs /\ Leader(i) \notin Members(c)
    BY <1>7, LeaderIs DEF Members
  <2>2. proc'[Leader(i)] = proc[Leader(i)]
    BY <1>1, <2>1 DEF TermCont
  <2> QED BY <2>2 DEF FirstProgram
<1> DEFINE last == IF FirstProgram(c) = "none" THEN "none" ELSE "ended"
<1>8. FirstProgram(c) # "running" /\ FirstProgram(c)' = last
  <2>1. Leader(c) \in Procs /\ Leader(c)[1] = c /\ proc[Leader(c)] \notin Awake
    BY <1>0, <1>1, <1>2, LeaderIs DEF GivenUpUnrun
  <2>2. proc[Leader(c)] \in Starting => Leader(c) \in Members(c)
    BY <1>0, <1>2, <2>1 DEF LeaderInSight, Members
  <2>3. /\ proc'[Leader(c)] = "none" <=> proc[Leader(c)] = "none"
        /\ proc'[Leader(c)] \notin Starting
        /\ proc'[Leader(c)] \notin Awake
    BY <1>0, <1>1, <2>1, <2>2, TermContMoves
  <2>4. proc'[Leader(c)] \in ProcStates
    <3>1. TypeOK'
      BY TypeStep
    <3> QED BY <2>1, <3>1 DEF TypeOK, KernelTypeOK
  <2>5. FirstProgram(c)' = IF proc[Leader(c)] = "none" THEN "none" ELSE "ended"
    BY <2>3, <2>4 DEF FirstProgram, ProcStates, Starting, Halted, Awake
  <2> QED BY <1>0, <1>2, <2>1, <2>5, FirstIs
<1>9. ProgramTo(c, last)
  BY <1>7, <1>8 DEF ProgramTo
<1>10. Programs[c] = FirstProgram(c)
  BY <1>2 DEF Programs
<1>11. Programs' = [Programs EXCEPT ![c] = last]
  BY <1>2, <1>9, MovedMapped
<1>12. /\ Programs[c] # "running"
       /\ Programs' = [Programs EXCEPT ![c] = IF @ = "none" THEN "none" ELSE "ended"]
  BY <1>8, <1>10, <1>11
<1> QED BY <1>2, <1>5, <1>6, <1>12 DEF L!Abandoned, Programs

(* print_removed_jobs, and where it leads.                                 *)
LEMMA PrintRemovedIs ==
    ASSUME IInv, LifeInv, [Next]_vars, PrintRemoved
    PROVE  L!Prompt \/ L!Exits \/ \E c \in Jobs : L!Announces(c)
<1> USE DEF Forking, Running, InHand
<1>0. TypeOK /\ OneOwner /\ NoDangling /\ Emptied /\ pending_removed_jobs \in Seq(Jobs)
  BY DEF IInv, LifeInv, TypeOK
<1>1. pc = "print_removed" /\ UNCHANGED <<current_job, leaving, kernelVars>>
  BY DEF PrintRemoved, At
<1>2. HandleHeld = {} /\ ShellState = IF leaving = "no" THEN "busy" ELSE "leaving"
  BY <1>1 DEF HandleHeld, ShellState, Up, Over
<1>3. Programs' = Programs
  <2>1. ~Fork /\ ~ErrorLabel /\ Main
    BY <1>1 DEF Fork, ErrorLabel, At, Main
  <2> QED BY <2>1, ProgramsKept, SameMapped
<1>4. CASE pending_removed_jobs # <<>>
  <2>1. PICK c : c = Head(pending_removed_jobs)
    OBVIOUS
  <2>2. /\ pc' = pc /\ pending_removed_jobs' = Tail(pending_removed_jobs)
        /\ job' = [job EXCEPT ![c].mem = "freed"]
    BY <1>4, <2>1 DEF PrintRemoved
  <2>3. /\ c \in Jobs /\ c \in ToSet(pending_removed_jobs)
        /\ ToSet(pending_removed_jobs) = ToSet(pending_removed_jobs') \union {c}
        /\ c \notin ToSet(pending_removed_jobs')
    BY <1>0, <1>4, <2>1, <2>2, TailToSet, TailKeeps DEF OneOwner
  <2>4. c \notin ToSet(current_job) /\ job[c].mem = "live"
    BY <1>0, <2>3 DEF OneOwner, NoDangling
  <2>5. HandleHeld' = {}
    BY <1>1, <2>2 DEF HandleHeld
  <2>6. \A i \in Jobs : job'[i].mem = "unused" <=> job[i].mem = "unused"
    BY <1>1, MemKept
  <2>7. Phase(c) = "done" /\ Phase(c)' = "gone"
    BY <1>1, <1>2, <2>3, <2>4, <2>5, <2>6 DEF Phase
  <2>8. Apart(c)
    BY <1>1, <1>2, <2>3, <2>5, <2>6 DEF Apart
  <2>9. L!Moves(c, {"done"}, "gone")
    BY <2>3, <2>7, <2>8, OnlyMoves, PhaseMoves
  <2>10. ShellState' = ShellState
    BY <1>1, <2>2 DEF ShellState, Up
  <2>11. ShellState \in {"busy", "leaving"} /\ L!FreeHand
    BY <1>2, HandFree
  <2> QED BY <1>3, <2>3, <2>9, <2>10, <2>11 DEF L!Announces, Programs
<1>5. CASE pending_removed_jobs = <<>>
  <2>1. /\ pc' = IF leaving = "no" THEN "read_line" ELSE "exited"
        /\ UNCHANGED <<pending_removed_jobs, job>>
    BY <1>5 DEF PrintRemoved
  <2>2. SamePhases
    <3>1. SameHand
      BY <1>1, <2>1 DEF SameHand
    <3> QED BY <1>1, <2>1, <3>1, HandKept
  <2>3. Phases' = Phases
    BY <2>2, SameMapped
  <2>4. \A i \in Jobs : Phases[i] = Phase(i) /\ Phase(i) \in {"new", "listed", "gone"}
    BY <1>2, <1>5, EmptyList DEF Phases, Phase
  <2>5. CASE leaving = "no"
    <3>1. ShellState = "busy" /\ ShellState' = "prompt"
      BY <1>1, <1>2, <2>1, <2>5 DEF ShellState, Up, Over
    <3> QED BY <1>2, <1>3, <2>3, <2>4, <3>1, HandFree DEF L!Prompt, Phases, Programs
  <2>6. CASE leaving # "no"
    <3>1. ShellState = "leaving" /\ ShellState' = "over"
      BY <1>1, <1>2, <2>1, <2>6 DEF ShellState, Up, Over
    <3>2. current_job = <<>>
      BY <1>0, <1>1, <2>6 DEF Emptied
    <3>3. \A i \in Jobs : Phases[i] \in {"new", "gone"}
      BY <2>4, <3>2, <1>2, <1>5, EmptyList DEF Phase
    <3> QED BY <1>3, <2>3, <3>1, <3>3 DEF L!Exits, Phases, Programs
  <2> QED BY <2>5, <2>6
<1> QED BY <1>4, <1>5

(* A segmentation fault: the job in hand, if any, is in no list.           *)
LEMMA CrashesIs ==
    ASSUME IInv, Up, leaving = "no", pc # "wait", pc' = "crashed",
           UNCHANGED <<current_job, pending_removed_jobs, job>>, SamePrograms
    PROVE  L!Crashes
<1> USE DEF Forking, Running, InHand
<1>1. ShellState \in {"busy", "prompt"} /\ ShellState' = "over"
  BY DEF ShellState, Up, Over
<1>2. \A i \in Jobs : Phases[i] # "waited"
  BY HandFree
<1>3. Programs' = Programs
  BY SameMapped
<1>4. HandleHeld' = {}
  BY DEF HandleHeld
<1>5. ASSUME NEW i \in Jobs
      PROVE  Phase(i)' = IF Phase(i) \in L!InHand THEN "gone" ELSE Phase(i)
  <2>1. CASE i \in HandleHeld
    <3>1. i = cur /\ pc \in InHand \union Running \union Forking
      BY <2>1 DEF HandleHeld
    <3>2. /\ job[i].mem = "live"
          /\ i \notin ToSet(current_job) /\ i \notin ToSet(pending_removed_jobs)
      BY <3>1, InHandOnly
    <3>3. Phase(i) \in L!InHand
      BY <2>1, <3>2 DEF Phase, L!InHand
    <3>4. Phase(i)' = "gone"
      BY <1>4, <3>2 DEF Phase
    <3> QED BY <3>3, <3>4
  <2>2. CASE i \notin HandleHeld
    <3>1. Phase(i)' = Phase(i)
      BY <1>4, <2>2 DEF Phase
    <3>2. Phase(i) \notin L!InHand
      BY <2>2 DEF Phase, L!InHand
    <3> QED BY <3>1, <3>2
  <2> QED BY <2>1, <2>2
<1>6. Phases' = [i \in Jobs |-> IF Phases[i] \in L!InHand THEN "gone" ELSE Phases[i]]
  BY <1>5 DEF Phases
<1> QED BY <1>1, <1>2, <1>3, <1>6 DEF L!Crashes, Phases, Programs

(* remove_job_handle finds the handle, or the handler was faster.          *)
LEMMA TakesIs ==
    ASSUME IInv, [Next]_vars, Take
    PROVE  L!Crashes \/ \E c \in Jobs : L!Takes(c)
<1> PICK c : c = cur
  OBVIOUS
<1> USE DEF Forking, Running, InHand
<1>0. TypeOK /\ OneOwner /\ NoDangling /\ current_job \in Seq(Jobs)
  BY DEF IInv, TypeOK
<1>1. /\ pc \in Looking /\ cur' = c
      /\ UNCHANGED <<kernelVars, job, pending_removed_jobs, leaving>>
  BY DEF Take, At
<1>2. c \in Jobs /\ leaving = "no"
  BY <1>1 DEF IInv, MainConsistent
<1>3. HandleHeld = {} /\ Up /\ ShellState = "busy"
  BY <1>1, <1>2 DEF HandleHeld, ShellState, Up, Over, Looking
<1>4. SamePrograms
  <2>1. ~Fork /\ ~ErrorLabel /\ Main
    BY <1>1 DEF Fork, ErrorLabel, At, Main, Looking
  <2> QED BY <2>1, ProgramsKept
<1>5. CASE Crash /\ UNCHANGED current_job
  BY <1>1, <1>2, <1>3, <1>4, <1>5, CrashesIs DEF Crash, Looking
<1>6. CASE /\ Without(current_job, c, current_job')
           /\ pc' = IF pc = "fg_take" THEN "fg_terminal" ELSE "bg_cont"
  <2>1. /\ c \in ToSet(current_job)
        /\ ToSet(current_job') = ToSet(current_job) \ {c}
    BY <1>0, <1>6, WithoutToSet, ContainsToSet DEF OneOwner
  <2>2. HandleHeld' = {c}
    BY <1>1, <1>6 DEF HandleHeld
  <2>3. job[c].mem = "live" /\ c \notin ToSet(pending_removed_jobs)
    BY <1>0, <2>1 DEF NoDangling, OneOwner
  <2>4. Phase(c) = "listed" /\ Phase(c)' = "taken"
    BY <1>1, <1>3, <1>6, <2>1, <2>2, <2>3 DEF Phase
  <2>5. Apart(c)
    BY <1>1, <1>3, <2>1, <2>2 DEF Apart
  <2>6. L!Moves(c, {"listed"}, "taken")
    BY <1>2, <2>4, <2>5, OnlyMoves, PhaseMoves
  <2>7. ShellState' = ShellState
    BY <1>1, <1>2, <1>3, <1>6 DEF ShellState, Up, Over
  <2> QED BY <1>2, <1>3, <1>4, <2>6, <2>7, HandFree, SameMapped DEF L!Takes, Programs
<1> QED BY <1>5, <1>6 DEF Take

(* The ways out: "exit", and a terminal that is lost.                      *)
LEMMA LeavesIs ==
    ASSUME IInv, [Next]_vars, ExitLine \/ TerminalLost
    PROVE  L!Leaves
<1> USE DEF Forking, Running, InHand
<1>1. /\ pc \in {"read_line", "get_terminal"} /\ pc' = "kill" /\ leaving' # "no"
      /\ UNCHANGED <<current_job, pending_removed_jobs>>
  BY DEF ExitLine, TerminalLost, At, lists
<1>2. HandleHeld = {} /\ leaving = "no"
  BY <1>1 DEF HandleHeld, IInv, MainConsistent, Leaving
<1>3. ShellState \in {"busy", "prompt"} /\ ShellState' = "leaving"
  BY <1>1, <1>2 DEF ShellState, Up, Over
<1>4. SamePhases
  BY <1>1, HandKept DEF SameHand
<1>5. SamePrograms
  <2>1. ~Fork /\ ~ErrorLabel /\ (Main \/ User)
    BY <1>1 DEF Fork, ErrorLabel, At, Main, User
  <2> QED BY <2>1, ProgramsKept
<1> QED BY <1>2, <1>3, <1>4, <1>5, HandFree, SameMapped DEF L!Leaves, Phases, Programs

(* cleanup: every job in the list is killed and freed.                     *)
LEMMA HangsUpIs ==
    ASSUME IInv, [Next]_vars, CleanupKill, current_job # <<>>
    PROVE  \E c \in Jobs : L!HangsUp(c)
<1> PICK c : c = Head(current_job)
  OBVIOUS
<1> USE DEF Forking, Running, InHand
<1>0. TypeOK /\ OneOwner /\ NoDangling /\ current_job \in Seq(Jobs)
  BY DEF IInv, TypeOK
<1>1. /\ pc = "kill" /\ pc' = "kill" /\ current_job' = Tail(current_job)
      /\ job' = [job EXCEPT ![c].mem = "freed"]
      /\ UNCHANGED <<pending_removed_jobs, leaving>>
  BY DEF CleanupKill, At
<1>2. /\ HandleHeld = {} /\ HandleHeld' = {} /\ ShellState = "leaving" /\ ShellState' = ShellState
  BY <1>1 DEF HandleHeld, ShellState, Up, Over, IInv, MainConsistent, Leaving
<1>3. /\ c \in Jobs /\ c \in ToSet(current_job)
      /\ ToSet(current_job) = ToSet(current_job') \union {c}
      /\ c \notin ToSet(current_job')
  BY <1>0, <1>1, TailToSet, TailKeeps DEF OneOwner
<1>4. job[c].mem = "live" /\ c \notin ToSet(pending_removed_jobs)
  BY <1>0, <1>3 DEF NoDangling, OneOwner
<1>5. \A i \in Jobs : job'[i].mem = "unused" <=> job[i].mem = "unused"
  BY <1>1, MemKept
<1>6. Phase(c) = "listed" /\ Phase(c)' = "gone"
  BY <1>1, <1>2, <1>3, <1>4, <1>5 DEF Phase
<1>7. Apart(c)
  BY <1>1, <1>2, <1>3, <1>5 DEF Apart
<1>8. L!Moves(c, {"listed"}, "gone")
  BY <1>3, <1>6, <1>7, OnlyMoves, PhaseMoves
<1>9. SamePrograms
  <2>1. ~Fork /\ ~ErrorLabel /\ Main
    BY <1>1 DEF Fork, ErrorLabel, At, Main
  <2> QED BY <2>1, ProgramsKept
<1> QED BY <1>2, <1>3, <1>8, <1>9, SameMapped DEF L!HangsUp, Programs

(* The main thread.                                                        *)
LEMMA MainLives ==
    ASSUME IInv, LifeInv, [Next]_vars, Main
    PROVE  L!LifecycleActions \/ UNCHANGED L!lifecycleVars
<1> USE DEF L!LifecycleActions
<1>1. CASE PrintRemoved
  BY <1>1, PrintRemovedIs
<1>2. CASE Fork
  BY <1>2, ForkedIs
<1>3. CASE ReadFirst
  BY <1>3, StartedIs, MainStutter DEF MainStutters, StartStutters
<1>4. CASE ErrorLabel
  BY <1>4, AbandonedIs
<1>5. CASE LaunchJob
  BY <1>5, WaitsIs, MainStutter DEF MainStutters, LaunchStutters
<1>6. CASE WaitDone
  BY <1>6, ForgetsIs
<1>7. CASE Enlist \/ FgTerminalFails \/ BgCurrent
  BY <1>7, ListsIs DEF Listing
<1>8. ASSUME NEW p \in Procs, WaitExit(p) \/ WaitStop(p)
      PROVE  L!LifecycleActions \/ UNCHANGED L!lifecycleVars
  <2>1. CASE pc' = pc
    <3>1. MainStutters
      BY <1>8, <2>1 DEF MainStutters, WaitStutters
    <3> QED BY <3>1, MainStutter
  <2>2. CASE pc' # pc
    BY <1>8, <2>2, ListsIs DEF Listing
  <2> QED BY <2>1, <2>2
<1>9. CASE Take
  BY <1>9, TakesIs
<1>10. CASE TerminalLost
  BY <1>10, LeavesIs
<1>11. CASE CleanupKill
  BY <1>11, HangsUpIs, MainStutter DEF MainStutters, KillStutters
<1>12. CASE \/ PrintPending \/ ForkFails \/ ReadError \/ Release
            \/ FgTerminal \/ FgCont \/ BgCont \/ BgPending \/ GetTerminal \/ CleanupDone
  BY <1>12, MainStutter DEF MainStutters
<1>13. ASSUME NEW p \in Procs, CleanupReap(p)
       PROVE  L!LifecycleActions \/ UNCHANGED L!lifecycleVars
  <2>1. MainStutters
    BY <1>13 DEF MainStutters
  <2> QED BY <2>1, MainStutter
<1> QED
  BY <1>1, <1>2, <1>3, <1>4, <1>5, <1>6, <1>7, <1>8, <1>9, <1>10, <1>11, <1>12, <1>13 DEF Main

(* The handler moves a handle to the jobs that are done.                   *)
DoneMoves(c) ==
    /\ Without(current_job, c, current_job')
    /\ pending_removed_jobs' \in {Append(pending_removed_jobs, c), Cons(c, pending_removed_jobs)}
    /\ pc' = pc /\ UNCHANGED job

(* Its leader is reaped by then, and no job is waited for.                 *)
LEMMA DoneIs ==
    ASSUME IInv, LifeInv, [Next]_vars, Handler, NEW c \in Jobs, DoneMoves(c)
    PROVE  L!Done(c)
<1>0. /\ TypeOK /\ OneOwner /\ NoDangling /\ LeadersThere
      /\ current_job \in Seq(Jobs) /\ pending_removed_jobs \in Seq(Jobs)
  BY DEF IInv, LifeInv, TypeOK
<1>1. /\ ~Fork /\ ~ErrorLabel /\ cur' = cur /\ leaving' = leaving /\ leaving = "no"
      /\ pc # "wait" /\ pc \notin Over /\ pc' = pc /\ UNCHANGED job
  BY HandlerApart DEF DoneMoves
<1>2. /\ c \in ToSet(current_job)
      /\ ToSet(current_job') = ToSet(current_job) \ {c}
  BY <1>0, WithoutToSet, ContainsToSet DEF OneOwner, DoneMoves
<1>3. ToSet(pending_removed_jobs') = ToSet(pending_removed_jobs) \union {c}
  <2>1. /\ ToSet(Cons(c, pending_removed_jobs)) = ToSet(pending_removed_jobs) \union {c}
        /\ ToSet(Append(pending_removed_jobs, c)) = ToSet(pending_removed_jobs) \union {c}
    BY <1>0, ConsToSet, AppendToSet
  <2>2. \/ pending_removed_jobs' = Cons(c, pending_removed_jobs)
        \/ pending_removed_jobs' = Append(pending_removed_jobs, c)
    BY DEF DoneMoves
  <2> QED BY <2>1, <2>2, Zenon
<1>4. HandleHeld' = HandleHeld /\ c \notin HandleHeld /\ job[c].mem = "live"
  BY <1>0, <1>1, <1>2 DEF HandleHeld, OneOwner, NoDangling
<1>5. Phase(c) = "listed" /\ Phase(c)' = "done"
  BY <1>1, <1>2, <1>3, <1>4 DEF Phase
<1>6. Apart(c)
  BY <1>1, <1>2, <1>3, <1>4 DEF Apart
<1>7. L!Moves(c, {"listed"}, "done")
  BY <1>5, <1>6, OnlyMoves, PhaseMoves
<1>8. SamePrograms
  BY <1>1, ProgramsKept
<1>9. FirstProgram(c) = "ended"
  <2>1. proc[Leader(c)] # "none"
    BY <1>0, <1>2 DEF LeadersThere
  <2>2. proc'[Leader(c)] \in {"none", "reaped"}
    <3>1. c \in ToSet(pending_removed_jobs')
      BY <1>3
    <3> QED BY <3>1, DoneStep DEF DoneHasNoLeader
  <2>3. FirstProgram(c)' \in {"none", "ended"}
    BY <2>2 DEF FirstProgram, Starting
  <2>4. FirstProgram(c) # "none"
    BY <1>0, <2>1, FirstIs
  <2> QED BY <1>8, <2>3, <2>4 DEF SamePrograms
<1>10. ShellState \in {"busy", "prompt"} /\ ShellState' = ShellState
  BY <1>1 DEF ShellState, Up
<1>11. Programs[c] = "ended" /\ \A i \in Jobs : Phases[i] # "waited"
  BY <1>1, <1>9, HandFree DEF Programs
<1> QED BY <1>7, <1>8, <1>10, <1>11, SameMapped DEF L!Done, Programs, Phases

(* The handler: a handle moves, the shell crashes, or nothing shows.       *)
LEMMA HandlerLives ==
    ASSUME IInv, LifeInv, [Next]_vars, Handler
    PROVE  L!LifecycleActions \/ UNCHANGED L!lifecycleVars
<1> USE DEF L!LifecycleActions
<1>0. TypeOK
  BY DEF IInv
<1>1. CASE Delivered \/ ScanDone \/ HandlerReturns
  BY <1>1, HandlerStutter DEF HandlerStutters
<1>2. CASE ScanNext
  <2>1. CASE job[Scanned].size # 0
    BY <1>2, <2>1, HandlerStutter DEF HandlerStutters, ScanStutters
  <2>2. CASE job[Scanned].size = 0
    <3>1. PICK c : c = Scanned
      OBVIOUS
    <3>2. c \in Jobs
      BY <1>0, <1>2, <3>1, ContainsToSet DEF TypeOK, ScanNext, Scanning, Scanned
    <3>3. DoneMoves(c)
      BY <1>2, <2>2, <3>1 DEF DoneMoves, ScanNext
    <3> QED BY <3>2, <3>3, DoneIs
  <2> QED BY <2>1, <2>2
<1>3. ASSUME NEW p \in Procs, ReapAny(p)
      PROVE  L!LifecycleActions \/ UNCHANGED L!lifecycleVars
  <2>1. CASE /\ Without(current_job, p[1], current_job')
             /\ pending_removed_jobs' = Cons(p[1], pending_removed_jobs)
             /\ UNCHANGED <<pc, h>>
    <3>1. p[1] \in Jobs
      BY DEF Procs
    <3>2. DoneMoves(p[1])
      BY <1>3, <2>1 DEF DoneMoves, ReapAny
    <3> QED BY <3>1, <3>2, DoneIs
  <2>2. CASE /\ UNCHANGED <<pc, h>>
             /\ UNCHANGED <<current_job, pending_removed_jobs>>
    <3>1. HandlerStutters
      BY <1>3, <2>2 DEF HandlerStutters, ReapStutters
    <3> QED BY <3>1, HandlerStutter
  <2>3. CASE Crash /\ UNCHANGED <<current_job, pending_removed_jobs>>
    <3>1. SamePrograms
      BY HandlerApart, ProgramsKept
    <3>2. UNCHANGED job /\ pc' = "crashed"
      BY <1>3, <2>3 DEF ReapAny, Crash
    <3>3. leaving = "no" /\ pc # "wait" /\ Up
      BY HandlerApart DEF Up
    <3> QED BY <2>3, <3>1, <3>2, <3>3, CrashesIs
  <2> QED BY <1>3, <2>1, <2>2, <2>3 DEF ReapAny
<1>4. ASSUME NEW p \in Procs, ScanExit(p)
      PROVE  L!LifecycleActions \/ UNCHANGED L!lifecycleVars
  <2>1. HandlerStutters
    BY <1>4 DEF HandlerStutters
  <2> QED BY <2>1, HandlerStutter
<1>5. ASSUME NEW p \in Procs, NEW obeying \in SUBSET Members(p[1]), ScanStop(p, obeying)
      PROVE  L!LifecycleActions \/ UNCHANGED L!lifecycleVars
  <2>1. HandlerStutters
    BY <1>5 DEF HandlerStutters
  <2> QED BY <2>1, HandlerStutter
<1> QED BY <1>1, <1>2, <1>3, <1>4, <1>5 DEF Handler

(* A line of input.                                                        *)
LEMMA UserLives ==
    ASSUME IInv, [Next]_vars, User
    PROVE  L!LifecycleActions \/ UNCHANGED L!lifecycleVars
<1> USE DEF L!LifecycleActions, Forking, InHand, Running
<1>0. /\ pc = "read_line" /\ leaving = "no" /\ HandleHeld = {} /\ ShellState = "prompt"
  <2>1. pc = "read_line"
    BY DEF User, OtherLine, ExitLine, ZeroLine, StartLine, FgBgLine, At
  <2> QED BY <2>1 DEF IInv, MainConsistent, Leaving, HandleHeld, ShellState, Up, Over
<1>1. SamePrograms
  <2>1. ~Fork /\ ~ErrorLabel
    BY <1>0 DEF Fork, ErrorLabel, At
  <2> QED BY <2>1, ProgramsKept
<1>2. ASSUME OtherLine \/ \E k \in 1 .. Len(current_job), take \in Looking : FgBgLine(k, take)
      PROVE  L!Line
  <2>1. /\ pc' \in {"print_pending"} \union Looking
        /\ UNCHANGED <<current_job, pending_removed_jobs, leaving>>
    BY <1>2 DEF OtherLine, FgBgLine, lists
  <2>2. SamePhases
    BY <1>0, <2>1, HandKept DEF SameHand, Looking
  <2>3. ShellState' = "busy"
    BY <1>0, <2>1 DEF ShellState, Up, Over, Looking
  <2> QED BY <1>0, <1>1, <2>2, <2>3, SameMapped DEF L!Line, Phases, Programs
<1>3. CASE ZeroLine
  <2>1. pc' = "crashed" /\ UNCHANGED <<job, current_job, pending_removed_jobs>>
    BY <1>3 DEF ZeroLine, Crash, lists
  <2> QED BY <1>0, <1>1, <2>1, CrashesIs DEF Up, Over
<1>4. ASSUME NEW j \in Jobs, Created(j) PROVE L!Start(j)
  <2>1. /\ UNCHANGED <<current_job, pending_removed_jobs, leaving>>
        /\ pc' = "fork" /\ cur' = j /\ job[j].mem = "unused" /\ job'[j].mem = "live"
        /\ \A i \in Jobs : i # j => job'[i] = job[i]
    BY <1>4, CreatedFacts DEF lists
  <2>2. HandleHeld' = {j}
    BY <2>1 DEF HandleHeld
  <2>3. Phase(j) = "new" /\ Phase(j)' = "starting"
    BY <2>1, <2>2 DEF Phase
  <2>4. Apart(j)
    BY <1>0, <2>1, <2>2 DEF Apart
  <2>5. L!Moves(j, {"new"}, "starting")
    BY <2>3, <2>4, OnlyMoves, PhaseMoves
  <2>6. ShellState' = "busy"
    BY <1>0, <2>1 DEF ShellState, Up, Over
  <2> QED BY <1>0, <1>1, <2>5, <2>6, SameMapped DEF L!Start, Programs
<1> QED BY <1>2, <1>3, <1>4, LeavesIs DEF User, Created

(* The children.  Of a pipeline only the first process shows.              *)
LEMMA ChildLives ==
    ASSUME IInv, [Next]_vars, Starts \/ Children
    PROVE  L!LifecycleActions \/ UNCHANGED L!lifecycleVars
<1> USE DEF L!LifecycleActions
<1>0. /\ TypeOK /\ LeaderInSight /\ proc \in [Procs -> ProcStates]
  BY DEF IInv, TypeOK, KernelTypeOK
<1>1. Up /\ UNCHANGED <<job, lists, pc, cur, leaving>>
  BY ChildrenFrame
<1>2. /\ Phases' = Phases /\ ShellState' = ShellState /\ ShellState # "over"
  <2>1. SamePhases
    BY <1>1 DEF SamePhases, Phase, HandleHeld, lists
  <2> QED BY <1>1, <2>1, SameMapped DEF ShellState, Up
<1>a. ASSUME NEW p \in Procs, NEW s, proc' = [proc EXCEPT ![p] = s],
             NEW i \in Jobs, p # Leader(i)
      PROVE  FirstProgram(i)' = FirstProgram(i)
  <2>1. proc'[Leader(i)] = proc[Leader(i)]
    BY <1>0, <1>a, LeaderIs
  <2> QED BY <2>1 DEF FirstProgram
<1>b. ASSUME SamePrograms PROVE UNCHANGED L!lifecycleVars
  <2>1. Programs' = Programs
    BY <1>b, SameMapped
  <2> QED BY <1>2, <2>1 DEF L!lifecycleVars, Phases, Programs
<1>c. ASSUME NEW p \in Procs, NEW s, proc' = [proc EXCEPT ![p] = s],
             /\ s \in Starting <=> proc[p] \in Starting
             /\ s \in Awake <=> proc[p] \in Awake
             /\ s # "none" /\ proc[p] # "none"
      PROVE  UNCHANGED L!lifecycleVars
  <2>1. ASSUME NEW i \in Jobs PROVE FirstProgram(i)' = FirstProgram(i)
    <3>1. CASE p # Leader(i)
      BY <1>a, <1>c, <3>1
    <3>2. CASE p = Leader(i)
      <4>1. proc'[Leader(i)] = s
        BY <1>0, <1>c, <3>2
      <4>2. TypeOK'
        BY TypeStep
      <4> QED BY <1>0, <1>c, <3>2, <4>1, <4>2, ProgramIs
    <3> QED BY <3>1, <3>2
  <2> QED BY <1>b, <2>1 DEF SamePrograms
<1>d. ASSUME NEW p \in Procs, NEW s, proc' = [proc EXCEPT ![p] = s],
             \A i \in Jobs : p # Leader(i)
      PROVE  UNCHANGED L!lifecycleVars
  BY <1>a, <1>b, <1>d DEF SamePrograms
<1>3. ASSUME NEW j \in Jobs, LeaderReady(j) PROVE UNCHANGED L!lifecycleVars
  <2>1. proc[Leader(j)] = "born" /\ proc' = [proc EXCEPT ![Leader(j)] = "held"]
    BY <1>3 DEF LeaderReady
  <2> QED BY <1>c, <2>1, LeaderIs DEF Starting, Awake, Halted
<1>4. ASSUME NEW p \in Procs, Exec(p)
      PROVE  L!LifecycleActions \/ UNCHANGED L!lifecycleVars
  <2>1. proc' = [proc EXCEPT ![p] = "run"]
    BY <1>4 DEF Exec
  <2>2. ASSUME NEW c \in Jobs, p = Leader(c) PROVE L!Runs(c)
    <3>1. proc[Leader(c)] = "held" /\ proc'[Leader(c)] = "run"
      BY <1>0, <1>4, <2>1, <2>2, LeaderIs DEF Exec, ReadyToExec
    <3>2. FirstProgram(c) = "starting" /\ FirstProgram(c)' = "running"
      BY <3>1 DEF FirstProgram, Starting
    <3>3. pc \in Forking /\ cur = c
      BY <1>0, <1>1, <2>2, <3>1 DEF LeaderInSight, Starting, Up, Over
    <3>4. Phase(c) = "starting"
      BY <3>3, InHandOnly DEF Phase
    <3>5. ProgramTo(c, "running")
      <4>1. \A i \in Jobs : i # c => p # Leader(i)
        BY <2>2, LeaderIs
      <4> QED BY <1>a, <2>1, <3>2, <4>1 DEF ProgramTo
    <3>6. Programs' = [Programs EXCEPT ![c] = "running"]
      BY <3>5, MovedMapped
    <3>7. Phases[c] = "starting" /\ Programs[c] = "starting"
      BY <3>2, <3>4 DEF Phases, Programs
    <3> QED BY <1>2, <3>6, <3>7 DEF L!Runs, Phases, Programs
  <2> QED BY <1>d, <2>1, <2>2
<1>5. ASSUME NEW p \in Procs, ChildFails(p) \/ Die(p)
      PROVE  L!LifecycleActions \/ UNCHANGED L!lifecycleVars
  <2>1. /\ proc' = [proc EXCEPT ![p] = "zombie"]
        /\ proc[p] \in Starting \union Awake
    BY <1>5 DEF ChildFails, Die, ReadyToExec, Signalled, Starting, Awake
  <2>2. ASSUME NEW c \in Jobs, p = Leader(c) PROVE L!Ends(c)
    <3>1. proc'[Leader(c)] = "zombie"
      BY <1>0, <2>1, <2>2, LeaderIs
    <3>2. FirstProgram(c) \in {"starting", "running"} /\ FirstProgram(c)' = "ended"
      BY <1>0, <2>1, <2>2, <3>1, FirstIs DEF FirstProgram, Starting
    <3>3. ProgramTo(c, "ended")
      <4>1. \A i \in Jobs : i # c => p # Leader(i)
        BY <2>2, LeaderIs
      <4> QED BY <1>a, <2>1, <3>2, <4>1 DEF ProgramTo
    <3>4. Programs' = [Programs EXCEPT ![c] = "ended"]
      BY <3>3, MovedMapped
    <3>5. Programs[c] \in {"starting", "running"}
      BY <3>2 DEF Programs
    <3> QED BY <1>2, <3>4, <3>5 DEF L!Ends, Phases, Programs
  <2> QED BY <1>d, <2>1, <2>2
<1>6. ASSUME NEW p \in Procs, Stop(p) PROVE UNCHANGED L!lifecycleVars
  <2>1. PICK s : s = IF proc[p] = "run" THEN "stopping" ELSE "iced"
    OBVIOUS
  <2>2. proc[p] \in Starting \union {"run"} /\ proc' = [proc EXCEPT ![p] = s]
    BY <1>0, <1>6, <2>1 DEF Stop, Signalled, Starting
  <2> QED BY <1>c, <2>1, <2>2 DEF Starting, Awake, Halted
<1>7. ASSUME NEW p \in Procs, ContinuedOutside(p) PROVE UNCHANGED L!lifecycleVars
  <2>1. PICK s : s = Resumed(p, proc[p])
    OBVIOUS
  <2>2. proc[p] \in Halted \union {"iced"} /\ proc' = [proc EXCEPT ![p] = s]
    BY <1>0, <1>7, <2>1 DEF ContinuedOutside, Signalled
  <2> QED BY <1>c, <2>1, <2>2 DEF Resumed, Starting, Awake, Halted
<1> QED BY <1>3, <1>4, <1>5, <1>6, <1>7 DEF Starts, Children

LEMMA InitLives == Init => L!LifecycleInit
<1> SUFFICES ASSUME Init PROVE L!LifecycleInit
  OBVIOUS
<1>1. ShellState = "busy"
  BY DEF Init, ShellState, Up, Over
<1>2. \A j \in Jobs : Phase(j) = "new"
  BY DEF Init, Phase
<1>3. \A j \in Jobs : FirstProgram(j) = "none"
  BY LeaderIs DEF Init, KernelInit, FirstProgram
<1> QED BY <1>1, <1>2, <1>3 DEF L!LifecycleInit

(* Every step is one of JobLifecycle, or shows nothing.                    *)
LEMMA StepLives ==
    IInv /\ LifeInv /\ [Next]_vars => [L!LifecycleNext]_(L!lifecycleVars)
<1> SUFFICES ASSUME IInv, LifeInv, [Next]_vars
             PROVE  L!LifecycleActions \/ UNCHANGED L!lifecycleVars
  BY DEF L!LifecycleNext
<1>1. CASE UNCHANGED vars \/ Gone
  BY <1>1 DEF Gone, vars, kernelVars, lists, L!lifecycleVars, ShellState, Up, Phase,
              HandleHeld, FirstProgram
<1> QED BY <1>1, UserLives, MainLives, HandlerLives, ChildLives DEF Next

(* Whatever the handler does between two steps of the main thread, jobs    *)
(* live as JobLifecycle says.                                              *)
THEOREM ImplementsLifecycle == Spec => IsLifecycle
BY InitIInv, StepIInv, InitLifeInv, LifeStep, InitLives, StepLives, PTL
   DEF Spec, IsLifecycle, L!LifecycleSpec

-----------------------------------------------------------------------------
(* What JobLifecycle promises, job by job.                                 *)
OneJobInHand ==
    /\ Phases \in [Jobs -> L!InHand \union {"new", "listed", "done", "gone"}]
    /\ Programs \in [Jobs -> {"none", "starting", "running", "ended"}]
    /\ \A i, j \in Jobs : Phases[i] \in L!InHand /\ Phases[j] \in L!InHand => i = j
    /\ ShellState # "busy" => \A j \in Jobs : Phases[j] \notin L!InHand
    /\ \A j \in Jobs : Phases[j] = "done" => Programs[j] = "ended"

LEMMA OneJobInHandIs ==
    L!LifecycleTypeOK /\ L!OneInHand
        <=> OneJobInHand /\ ShellState \in {"busy", "prompt", "leaving", "over"}
BY DEF OneJobInHand, L!LifecycleTypeOK, L!OneInHand, L!FreeHand, Phases, Programs

HandMoved(j, from, to) ==
    /\ L!Moves(j, from, to)
    /\ to \in L!InHand \union {"new", "listed", "done", "gone"}
    /\ ShellState' \in {ShellState, "busy"}
    /\ to \in L!InHand => (from \subseteq L!InHand \/ L!FreeHand) /\ ShellState' = "busy"
    /\ Programs' \in [Jobs -> {"none", "starting", "running", "ended"}]
    /\ \A i \in Jobs : Programs'[i] = Programs[i] \/ (i = j /\ to # "done")
    /\ to = "done" => Programs[j] = "ended"

(* A job moves from phase to phase.                                        *)
LEMMA InHandStep ==
    ASSUME OneJobInHand, NEW j \in Jobs, NEW from, NEW to, HandMoved(j, from, to)
    PROVE  OneJobInHand'
<1> USE DEF HandMoved
<1>1. Phases[j] \in from /\ Phases' = [Phases EXCEPT ![j] = to]
  BY DEF L!Moves, Phases
<1>2. L!FreeHand => \A i \in Jobs : Phases[i] \notin L!InHand
  BY DEF L!FreeHand, Phases
<1>3. "done" \notin L!InHand
  BY DEF L!InHand
<1>4. \A i \in Jobs : Phases'[i] = IF i = j THEN to ELSE Phases[i]
  BY <1>1 DEF OneJobInHand
<1>5. ASSUME NEW a \in Jobs, NEW b \in Jobs, Phases'[a] \in L!InHand, Phases'[b] \in L!InHand
      PROVE  a = b
  <2>1. CASE Phases[j] \in L!InHand
    BY <1>4, <1>5, <2>1 DEF OneJobInHand
  <2>2. CASE to \in L!InHand /\ L!FreeHand
    BY <1>2, <1>4, <1>5, <2>2
  <2>3. CASE to \notin L!InHand
    BY <1>4, <1>5, <2>3 DEF OneJobInHand
  <2> QED BY <1>1, <2>1, <2>2, <2>3
<1>6. ASSUME ShellState' # "busy", NEW a \in Jobs PROVE Phases'[a] \notin L!InHand
  BY <1>4, <1>6 DEF OneJobInHand
<1>7. ASSUME NEW a \in Jobs, Phases'[a] = "done" PROVE Programs'[a] = "ended"
  BY <1>4, <1>7 DEF OneJobInHand
<1>8. Phases' \in [Jobs -> L!InHand \union {"new", "listed", "done", "gone"}]
  BY <1>1 DEF OneJobInHand
<1>9. Programs' \in [Jobs -> {"none", "starting", "running", "ended"}]
  OBVIOUS
<1> QED BY <1>5, <1>6, <1>7, <1>8, <1>9 DEF OneJobInHand

(* JobLifecycle keeps its own promise.                                     *)
LEMMA LifecycleStep ==
    L!LifecycleTypeOK /\ L!OneInHand /\ [L!LifecycleNext]_(L!lifecycleVars)
        => (L!LifecycleTypeOK)' /\ (L!OneInHand)'
<1> SUFFICES ASSUME OneJobInHand, ShellState \in {"busy", "prompt", "leaving", "over"},
                    [L!LifecycleNext]_(L!lifecycleVars)
             PROVE  OneJobInHand' /\ ShellState' \in {"busy", "prompt", "leaving", "over"}
  <2>1. (L!LifecycleTypeOK)' /\ (L!OneInHand)'
            <=> OneJobInHand' /\ ShellState' \in {"busy", "prompt", "leaving", "over"}
    BY DEF OneJobInHand, L!LifecycleTypeOK, L!OneInHand, L!FreeHand, Phases, Programs
  <2> QED BY <2>1, OneJobInHandIs
<1>0. L!InHand = {"starting", "taken", "waited"}
  BY DEF L!InHand
<1>1. CASE UNCHANGED L!lifecycleVars
  <2>1. Phases' = Phases /\ Programs' = Programs /\ ShellState' = ShellState
    BY <1>1 DEF L!lifecycleVars, Phases, Programs
  <2> QED BY <2>1 DEF OneJobInHand
<1>2. CASE L!Prompt \/ L!Line \/ L!Leaves \/ L!Exits
  <2>1. /\ Phases' = Phases /\ Programs' = Programs
        /\ ShellState' \in {"busy", "prompt", "leaving", "over"}
        /\ \A j \in Jobs : Phases[j] \notin L!InHand
    BY <1>0, <1>2
       DEF L!Prompt, L!Line, L!Leaves, L!Exits, L!FreeHand, Phases, Programs, OneJobInHand
  <2> QED BY <2>1 DEF OneJobInHand
<1>3. CASE L!Crashes
  <2>1. /\ Phases' = [j \in Jobs |-> IF Phases[j] \in L!InHand THEN "gone" ELSE Phases[j]]
        /\ Programs' = Programs /\ ShellState' = "over"
    BY <1>3 DEF L!Crashes, Phases, Programs
  <2> QED BY <1>0, <2>1 DEF OneJobInHand
<1>4. ASSUME NEW j \in Jobs, L!Start(j) \/ L!Takes(j)
      PROVE  OneJobInHand' /\ ShellState' = "busy"
  <2>1. Programs' = Programs /\ ShellState' = "busy" /\ (ShellState = "prompt" \/ L!FreeHand)
    BY <1>4 DEF L!Start, L!Takes, Programs
  <2>2. L!FreeHand
    BY <2>1 DEF OneJobInHand, L!FreeHand, Phases
  <2>3. HandMoved(j, {"new"}, "starting") \/ HandMoved(j, {"listed"}, "taken")
    BY <1>0, <1>4, <2>1, <2>2 DEF HandMoved, L!Start, L!Takes, OneJobInHand
  <2> QED BY <2>1, <2>3, InHandStep
<1>5. ASSUME NEW j \in Jobs, L!Forked(j) \/ L!Runs(j) \/ L!Ends(j)
      PROVE  OneJobInHand' /\ ShellState' = ShellState
  <2>1. /\ Phases' = Phases /\ ShellState' = ShellState /\ Programs[j] # "ended"
        /\ \E s \in {"starting", "running", "ended"} : Programs' = [Programs EXCEPT ![j] = s]
    BY <1>5 DEF L!Forked, L!Runs, L!Ends, Phases, Programs
  <2> QED BY <2>1 DEF OneJobInHand
<1>6. ASSUME NEW j \in Jobs, L!Started(j) \/ L!Waits(j)
      PROVE  OneJobInHand' /\ ShellState' = ShellState
  <2>1. Programs' = Programs /\ ShellState' = ShellState
    BY <1>6 DEF L!Started, L!Waits, Programs
  <2>2. \/ L!Moves(j, {"starting"}, "taken")
        \/ L!Moves(j, {"taken"}, "waited")
    BY <1>6 DEF L!Started, L!Waits
  <2>3. Phases[j] \in L!InHand
    BY <1>0, <2>2 DEF L!Moves, Phases
  <2>4. ShellState = "busy"
    BY <2>3 DEF OneJobInHand
  <2>5. HandMoved(j, {"starting"}, "taken") \/ HandMoved(j, {"taken"}, "waited")
    BY <1>0, <2>1, <2>2, <2>4 DEF HandMoved, OneJobInHand
  <2> QED BY <2>1, <2>5, InHandStep
<1>7. ASSUME NEW j \in Jobs,
             L!Forgets(j) \/ L!Lists(j) \/ L!Done(j) \/ L!Announces(j) \/ L!HangsUp(j)
      PROVE  OneJobInHand' /\ ShellState' = ShellState
  <2>1. /\ Programs' = Programs /\ ShellState' = ShellState
        /\ L!Done(j) => Programs[j] = "ended"
    BY <1>7 DEF L!Forgets, L!Lists, L!Done, L!Announces, L!HangsUp, Programs
  <2>2. \E from : \E to \in {"listed", "done", "gone"} :
            L!Moves(j, from, to) /\ (to = "done" => L!Done(j))
    BY <1>7 DEF L!Forgets, L!Lists, L!Done, L!Announces, L!HangsUp
  <2>3. \E from : \E to \in {"listed", "done", "gone"} : HandMoved(j, from, to)
    BY <1>0, <2>1, <2>2 DEF HandMoved, OneJobInHand
  <2> QED BY <2>1, <2>3, InHandStep
<1>8. ASSUME NEW j \in Jobs, L!Abandoned(j)
      PROVE  OneJobInHand' /\ ShellState' = ShellState
  <2>1. /\ L!Moves(j, {"starting"}, "gone") /\ ShellState' = ShellState
        /\ \E s \in {"none", "ended"} : Programs' = [Programs EXCEPT ![j] = s]
    BY <1>8 DEF L!Abandoned, Programs
  <2>2. HandMoved(j, {"starting"}, "gone")
    BY <1>0, <2>1 DEF HandMoved, OneJobInHand
  <2> QED BY <2>1, <2>2, InHandStep
<1> QED
  BY <1>1, <1>2, <1>3, <1>4, <1>5, <1>6, <1>7, <1>8
  DEF L!LifecycleNext, L!LifecycleActions

(* In such a life the shell has one job in hand at most, and none when it  *)
(* prompts or leaves, and what it announces as done has ended.             *)
THEOREM LifecycleHand == L!LifecycleSpec => []L!OneInHand
<1>1. L!LifecycleInit => L!LifecycleTypeOK /\ L!OneInHand
  BY DEF L!LifecycleInit, L!LifecycleTypeOK, L!OneInHand, L!FreeHand, L!InHand
<1> QED BY <1>1, LifecycleStep, PTL DEF L!LifecycleSpec

(* So it is in lsh, whichever list the handler moves a handle to.          *)
COROLLARY OneJobAtATime == Spec => []L!OneInHand
BY ImplementsLifecycle, LifecycleHand, PTL DEF IsLifecycle
=============================================================================
