--------------------------- MODULE MinitalkServer ---------------------------
(***************************************************************************)
(* The chat server src/minitalk/server_main.c: its table logged_in, the    *)
(* descriptors the kernel hands out and takes back, and the rounds of its  *)
(* loop: accept, select, one pass that reads, one that shows menus.        *)
(* Clients connect, type and hang up between any two of its steps.         *)
(*                                                                         *)
(* A line is not spelled out: what it says is chosen where the server      *)
(* parses it.  A client has at most one line under way, the bound of       *)
(* "input".                                                                *)
(***************************************************************************)
EXTENDS Integers, FiniteSets

CONSTANTS Conns,     \* the connections clients open, one after another
          Slots,     \* the length of logged_in; 16 in the code
          NFds,      \* the first argument of select; 20 in the code
          NoOne      \* not a connection

ASSUME SlotsAssumption == Slots \in Nat \ {0}
ASSUME NFdsAssumption == NFds \in Nat
ASSUME ConnsAssumption == IsFiniteSet(Conns) /\ NoOne \notin Conns

VARIABLES
    client,      \* the client's end of every connection
    input,       \* what it has typed and the server has not read
    backlog,     \* the connections to be accepted
    fdOf,        \* the server's descriptor of a connection, or 0
    logged_in,   \* the table of users
    pc,          \* where the server is in its loop
    at,          \* the index of its loop over the table
    readable,    \* the fd_sets as select left them
    writable,
    writes,      \* how often a connection was written to in this round
    mail         \* <<c, d>>: the last message was of c, and written to d

kernel == <<client, backlog, fdOf>>
vars == <<client, input, backlog, fdOf, logged_in, pc, at, readable, writable,
          writes, mail>>

-----------------------------------------------------------------------------
FD_UNASSIGNED == 0
FD_AWAITING   == -1

FirstFd == 4        \* after stdin, stdout, stderr and server_fd
Fds     == FirstFd .. FirstFd + Cardinality(Conns) - 1
Users   == 0 .. Slots - 1

(* 20 >= 4 + 16 in the code.                                               *)
ASSUME SelectAssumption == NFds >= FirstFd + Slots

UserRecords == [fd : {0} \union Fds, named : BOOLEAN,
                to : {FD_UNASSIGNED, FD_AWAITING} \union Fds]

NoUser == [fd |-> 0, named |-> FALSE, to |-> FD_UNASSIGNED]

TypeOK ==
    /\ client \in [Conns -> {"none", "up", "down"}]
    /\ input \in [Conns -> {"nothing", "part", "line"}]
    /\ backlog \in SUBSET Conns
    /\ fdOf \in [Conns -> {0} \union Fds]
    /\ logged_in \in [Users -> UserRecords]
    /\ pc \in {"accept", "unarmed", "select", "serve", "menu", "dead"}
    /\ at \in Users
    /\ readable \in SUBSET Fds
    /\ writable \in SUBSET Fds
    /\ writes \in [Conns -> Nat]
    /\ mail \in (Conns \X Conns) \union {<<>>}

Init ==
    /\ client = [c \in Conns |-> "none"]
    /\ input = [c \in Conns |-> "nothing"]
    /\ backlog = {}
    /\ fdOf = [c \in Conns |-> 0]
    /\ logged_in = [i \in Users |-> NoUser]
    /\ pc = "accept"
    /\ at = 0
    /\ readable = {}
    /\ writable = {}
    /\ writes = [c \in Conns |-> 0]
    /\ mail = <<>>

-----------------------------------------------------------------------------
(* Whose descriptor f is.                                                  *)
Holder(f) == IF \E c \in Conns : fdOf[c] = f THEN CHOOSE c \in Conns : fdOf[c] = f
                                             ELSE NoOne

Present == {i \in Users : logged_in[i].fd # 0 /\ logged_in[i].named}

(* write to the connections cs, then on to where.  A write to a client     *)
(* that has hung up may raise SIGPIPE, which nobody catches.               *)
Written(cs, where) ==
    \/ pc' = where
    \/ (\E c \in cs : client[c] = "down") /\ pc' = "dead"

-----------------------------------------------------------------------------
(* The top of the loop.                                                    *)

Lowest(S) == {x \in S : \A y \in S : x <= y}

(* accept returns the lowest free descriptor, which goes to the first free *)
(* slot.  With the table full the connection is neither kept nor closed.   *)
Accept(c) ==
    LET free == {i \in Users : logged_in[i].fd = 0} IN
    /\ pc \in {"accept", "unarmed"}
    /\ c \in backlog
    /\ backlog' = backlog \ {c}
    /\ \E fd \in Lowest(Fds \ {fdOf[d] : d \in Conns}) :
          /\ fdOf' = [fdOf EXCEPT ![c] = fd]
          /\ \/ /\ \E i \in Lowest(free) :
                      logged_in' = [logged_in EXCEPT ![i].fd = fd]
                /\ Written({c}, "select")
             \/ /\ free = {}
                /\ pc' = "select"
                /\ UNCHANGED logged_in
    /\ UNCHANGED <<client, input, at, readable, writable, writes, mail>>

(* SIGALRM after two seconds interrupts accept.                            *)
AcceptTimeout ==
    /\ pc = "accept"
    /\ backlog = {}
    /\ pc' = "select"
    /\ UNCHANGED <<kernel, input, logged_in, at, readable, writable, writes, mail>>

(* SIGALRM comes between setitimer and accept: accept then waits with      *)
(* nothing to interrupt it, for the timer rings once.                      *)
AlarmEarly ==
    /\ pc = "accept"
    /\ pc' = "unarmed"
    /\ UNCHANGED <<kernel, input, logged_in, at, readable, writable, writes, mail>>

(* Mutant: select(max_fd, ..).                                             *)
Selected_max(fd) == \E i \in Users : fd < logged_in[i].fd

(* select looks at the descriptors below its first argument.               *)
Selected(fd) == fd < NFds

HasInput(c) == input[c] # "nothing" \/ client[c] = "down"

(* Mutant: a user whose partner left is not asked for another.             *)
Select_forgets ==
    LET talking == {i \in Present : logged_in[i].to > 0} IN
    /\ pc = "select"
    /\ readable' = {f \in {logged_in[i].fd : i \in Users} \ {0} :
                        Selected(f) /\ HasInput(Holder(f))}
    /\ writable' \in SUBSET {f \in {logged_in[i].to : i \in talking} : Selected(f)}
    /\ pc' = IF readable' \union writable' = {} THEN "accept" ELSE "serve"
    /\ at' = 0
    /\ writes' = [c \in Conns |-> 0]
    /\ UNCHANGED <<kernel, input, logged_in, mail>>

(* The fd_sets are built, users without a partner are marked as awaiting   *)
(* one, and select returns what is ready by then.  A socket is not         *)
(* writable when its buffer is full.                                       *)
Select ==
    LET talking == {i \in Present : logged_in[i].to > 0}
        asked   == {i \in Present : logged_in[i].to = FD_UNASSIGNED}
        wanted  == {logged_in[i].to : i \in talking} \union {logged_in[i].fd : i \in asked}
    IN
    /\ pc = "select"
    /\ logged_in' = [i \in Users |-> IF i \in asked
                                     THEN [logged_in[i] EXCEPT !.to = FD_AWAITING]
                                     ELSE logged_in[i]]
    /\ readable' = {f \in {logged_in[i].fd : i \in Users} \ {0} :
                        Selected(f) /\ HasInput(Holder(f))}
    /\ writable' \in SUBSET {f \in wanted : Selected(f)}
    /\ pc' = IF readable' \union writable' = {} THEN "accept" ELSE "serve"
    /\ at' = 0
    /\ writes' = [c \in Conns |-> 0]
    /\ UNCHANGED <<kernel, input, mail>>

(* accept or select fails: fatal.                                          *)
Fatal ==
    /\ pc \in {"accept", "unarmed", "select"}
    /\ pc' = "dead"
    /\ UNCHANGED <<kernel, input, logged_in, at, readable, writable, writes, mail>>

-----------------------------------------------------------------------------
(* The pass that reads.                                                    *)
User == logged_in[at]
Conn == Holder(User.fd)

(* A user without a name gives one, one that awaits a partner picks one,   *)
(* any other is read when its partner can be written to.                   *)
ToRead ==
    /\ pc = "serve"
    /\ User.fd \in readable
    /\ ~User.named \/ User.to = FD_AWAITING \/ User.to \in writable

Onward ==
    /\ at' = IF at + 1 = Slots THEN 0 ELSE at + 1
    /\ pc' = IF at + 1 = Slots THEN "menu" ELSE "serve"

(* read_line blocks until the line is complete, or its writer is gone.     *)
ReadLine ==
    /\ input[Conn] = "line" \/ (input[Conn] = "part" /\ client[Conn] = "down")
    /\ input' = [input EXCEPT ![Conn] = "nothing"]

(* Mutant: those who talk to the user keep its descriptor.                 *)
RemoveUser_stale ==
    /\ logged_in' = [logged_in EXCEPT ![at] = NoUser]
    /\ fdOf' = [fdOf EXCEPT ![Conn] = 0]

(* remove_user(&logged_in[at]).                                            *)
RemoveUser ==
    /\ logged_in' = [i \in Users |->
                        CASE i = at                     -> NoUser
                          [] i # at /\ logged_in[i].to = User.fd ->
                                 [logged_in[i] EXCEPT !.to = FD_UNASSIGNED]
                          [] OTHER                      -> logged_in[i]]
    /\ fdOf' = [fdOf EXCEPT ![Conn] = 0]

(* End of file, or a connection that was reset.                            *)
Leave ==
    /\ ToRead
    /\ client[Conn] = "down"
    /\ input' = [input EXCEPT ![Conn] = "nothing"]
    /\ RemoveUser
    /\ Onward
    /\ UNCHANGED <<client, backlog, readable, writable, writes, mail>>

ReadName ==
    /\ ToRead
    /\ ~User.named
    /\ ReadLine
    /\ logged_in' = [logged_in EXCEPT ![at].named = TRUE]
    /\ Onward
    /\ UNCHANGED <<kernel, readable, writable, writes, mail>>

(* Mutant: whether the user picked has a name is not checked.              *)
PickPartner_nameless(new_to) ==
    /\ ToRead
    /\ User.named
    /\ User.to = FD_AWAITING
    /\ logged_in[new_to].fd # 0
    /\ ReadLine
    /\ logged_in' = [logged_in EXCEPT ![at].to = logged_in[new_to].fd]
    /\ Onward
    /\ UNCHANGED <<kernel, readable, writable, writes, mail>>

PickPartner(new_to) ==
    /\ ToRead
    /\ User.named
    /\ User.to = FD_AWAITING
    /\ new_to \in Present
    /\ ReadLine
    /\ logged_in' = [logged_in EXCEPT ![at].to = logged_in[new_to].fd]
    /\ Onward
    /\ UNCHANGED <<kernel, readable, writable, writes, mail>>

(* Not a number, or not that of a user: the one who picked it is removed.  *)
PickNobody ==
    /\ ToRead
    /\ User.named
    /\ User.to = FD_AWAITING
    /\ ReadLine
    /\ RemoveUser
    /\ Onward
    /\ UNCHANGED <<client, backlog, readable, writable, writes, mail>>

(* Mutant: FD_CLR is forgotten.                                            *)
Forward_again ==
    LET d == Holder(User.to) IN
    /\ ToRead
    /\ User.named
    /\ User.to > 0
    /\ ReadLine
    /\ \/ /\ mail' = <<Conn, d>>
          /\ writes' = [writes EXCEPT ![d] = @ + 1]
          /\ UNCHANGED writable
          /\ Onward
       \/ /\ client[d] = "down"
          /\ pc' = "dead"
          /\ UNCHANGED <<at, writable, writes, mail>>
    /\ UNCHANGED <<kernel, logged_in, readable>>

(* The line goes to the partner, who is not written to again this round.   *)
Forward ==
    LET d == Holder(User.to) IN
    /\ ToRead
    /\ User.named
    /\ User.to > 0
    /\ ReadLine
    /\ \/ /\ mail' = <<Conn, d>>
          /\ writes' = [writes EXCEPT ![d] = @ + 1]
          /\ writable' = writable \ {User.to}
          /\ Onward
       \/ /\ client[d] = "down"
          /\ pc' = "dead"
          /\ UNCHANGED <<at, writable, writes, mail>>
    /\ UNCHANGED <<kernel, logged_in, readable>>

Skip ==
    /\ pc = "serve"
    /\ ~ToRead
    /\ Onward
    /\ UNCHANGED <<kernel, input, logged_in, readable, writable, writes, mail>>

(* The pass that shows the menu, to those who do not talk to anyone and    *)
(* have somebody to talk to.                                               *)
Menus ==
    LET shown == {i \in Users : /\ logged_in[i].fd \in writable
                                /\ logged_in[i].to = FD_AWAITING
                                /\ Present \ {i} # {}}
        cs    == {Holder(logged_in[i].fd) : i \in shown}
    IN
    /\ pc = "menu"
    /\ Written(cs, "accept")
    /\ readable' = {} /\ writable' = {}
    /\ writes' = [c \in Conns |-> IF c \in cs THEN writes[c] + 1 ELSE writes[c]]
    /\ UNCHANGED <<kernel, input, logged_in, at, mail>>

-----------------------------------------------------------------------------
(* The clients.                                                            *)
Connect(c) ==
    /\ client[c] = "none"
    /\ client' = [client EXCEPT ![c] = "up"]
    /\ backlog' = backlog \union {c}
    /\ UNCHANGED <<input, fdOf, logged_in, pc, at, readable, writable, writes, mail>>

(* A line may reach the server in two parts.                               *)
Type(c) ==
    /\ client[c] = "up"
    /\ input[c] # "line"
    /\ \E more \in {"part", "line"} \ {input[c]} : input' = [input EXCEPT ![c] = more]
    /\ UNCHANGED <<kernel, logged_in, pc, at, readable, writable, writes, mail>>

HangUp(c) ==
    /\ client[c] = "up"
    /\ client' = [client EXCEPT ![c] = "down"]
    /\ UNCHANGED <<input, backlog, fdOf, logged_in, pc, at, readable, writable,
                   writes, mail>>

-----------------------------------------------------------------------------
Server ==
    \/ \E c \in Conns : Accept(c)
    \/ AcceptTimeout \/ Select
    \/ Leave \/ ReadName \/ PickNobody \/ Forward \/ Skip
    \/ \E new_to \in Users : PickPartner(new_to)
    \/ Menus

Clients == \E c \in Conns : Connect(c) \/ Type(c) \/ HangUp(c)

(* The server is gone: nothing left to happen.                             *)
Dead == pc = "dead" /\ UNCHANGED vars

Next == Server \/ AlarmEarly \/ Fatal \/ Clients \/ Dead

Spec == Init /\ [][Next]_vars

(* The server goes on whenever it can; nothing obliges a client to type,   *)
(* to end a line it began, or to hang up.                                  *)
FairSpec == Spec /\ WF_vars(Server)

-----------------------------------------------------------------------------
(* A descriptor in a user's "to" is that of a user who is logged in: it is *)
(* never closed, nor reused for somebody who came later, while it is       *)
(* there.                                                                  *)
PartnerLoggedIn ==
    \A i \in Users : logged_in[i].to > 0 =>
        \E k \in Present : logged_in[k].fd = logged_in[i].to

(* No connection is written to twice on the strength of one select: the    *)
(* second write could block the whole server.                              *)
OneWritePerRound == \A c \in Conns : writes[c] <= 1

(* As long as no connection was dropped on the floor by a full table every *)
(* user is within the reach of select.                                     *)
AllSelected ==
    {fdOf[c] : c \in Conns} \subseteq {0} \union {logged_in[i].fd : i \in Users}
        => \A i \in Users : Selected(logged_in[i].fd)

(* The server is a Talk: who talks to whom in terms of connections, though *)
(* it keeps descriptors that the kernel uses again and again.              *)
ConnsPresent == {Holder(logged_in[i].fd) : i \in Present}

PartnerOf(c) ==
    IF \E i \in Present : logged_in[i].fd = fdOf[c] /\ logged_in[i].to > 0
    THEN Holder((CHOOSE u \in {logged_in[i] : i \in Present} : u.fd = fdOf[c]).to)
    ELSE NoOne

T == INSTANCE Talk WITH present <- ConnsPresent,
                        partner <- [c \in Conns |-> PartnerOf(c)]

IsTalk == T!TalkSpec

(* Waiting for the rest of a line of the user it reads.                    *)
Blocked == ToRead /\ input[Conn] = "part"

(* In accept with the timer spent: only another connection ends it.        *)
Unarmed == pc = "unarmed"

(* Whoever has no partner yet and is within the reach of select is heard:  *)
(* a name or a choice that was typed is read, unless the server is gone,   *)
(* waits for ever for the rest of somebody's line, or waits for ever in an *)
(* accept that its alarm came too early for.                               *)
Heard ==
    \A c \in Conns :
        (input[c] = "line" /\ \E i \in Users : /\ logged_in[i].fd = fdOf[c]
                                              /\ fdOf[c] \in 1 .. NFds - 1
                                              /\ logged_in[i].to <= 0)
        ~> input[c] = "nothing" \/ pc = "dead" \/ []Blocked \/ []Unarmed
=============================================================================
