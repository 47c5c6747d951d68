--------------------------- MODULE MinitalkProofs ---------------------------
(***************************************************************************)
(* Proofs about MinitalkServer, for any number of connections and any      *)
(* length of the table, and about MinitalkClient, for every size of the    *)
(* buffer and of a read.  PartnerLoggedIn is not inductive: it needs that  *)
(* no two users, and no two connections, share a descriptor, and that what *)
(* the table holds is open.                                                *)
(*                                                                         *)
(* In order: the inductive invariant; the writes of a round; the           *)
(* refinement of Talk; the reach of select; the client: what it prints,    *)
(* and what it sends.                                                      *)
(***************************************************************************)
EXTENDS MinitalkServer, MinitalkClient, SequenceTheorems, FiniteSetTheorems, TLAPS

-----------------------------------------------------------------------------
(* A free slot is a cleared one, and who has no name talks to nobody.      *)
CleanSlots ==
    \A i \in Users :
        /\ logged_in[i].fd = 0 => logged_in[i] = NoUser
        /\ ~logged_in[i].named => logged_in[i].to <= 0

(* No two users, and no two connections, have the same descriptor.         *)
UniqueFds ==
    /\ \A i, k \in Users :
           logged_in[i].fd = logged_in[k].fd /\ logged_in[i].fd # 0 => i = k
    /\ \A c, d \in Conns : fdOf[c] = fdOf[d] /\ fdOf[c] # 0 => c = d

(* The descriptors in the table are open, those in the backlog not yet.    *)
OpenFds ==
    /\ \A i \in Users : logged_in[i].fd # 0 => \E c \in Conns : fdOf[c] = logged_in[i].fd
    /\ \A c \in backlog : fdOf[c] = 0 /\ client[c] # "none"
    /\ \A c \in Conns : client[c] = "none" => fdOf[c] = 0

ServerInv ==
    /\ TypeOK
    /\ CleanSlots
    /\ UniqueFds
    /\ OpenFds
    /\ PartnerLoggedIn

-----------------------------------------------------------------------------
(* Descriptors are positive, and the table is not empty.                   *)
LEMMA Positive ==
    /\ \A f \in Fds : f \in Int /\ f > 0
    /\ 0 \in Users
    /\ \A i \in Users : i \in Int
<1>1. Cardinality(Conns) \in Nat
  BY ConnsAssumption, FS_CardinalityType
<1> QED BY <1>1, SlotsAssumption DEF Fds, FirstFd, Users

LEMMA InitServerInv == Init => ServerInv
<1> SUFFICES ASSUME Init PROVE ServerInv
  OBVIOUS
<1>1. TypeOK
  BY Positive DEF Init, TypeOK, NoUser, UserRecords, FD_UNASSIGNED, FD_AWAITING
<1>2. CleanSlots /\ UniqueFds /\ OpenFds /\ PartnerLoggedIn
  BY DEF Init, CleanSlots, UniqueFds, OpenFds, PartnerLoggedIn, NoUser, FD_UNASSIGNED
<1> QED BY <1>1, <1>2 DEF ServerInv

-----------------------------------------------------------------------------
(* What the server may rely on.                                            *)

(* The holder of an open descriptor.                                       *)
LEMMA HolderOpen ==
    ASSUME NEW f, \E c \in Conns : fdOf[c] = f
    PROVE  Holder(f) \in Conns /\ fdOf[Holder(f)] = f
BY DEF Holder

(* The user that is read is connected.                                     *)
LEMMA ReadUser ==
    ASSUME ServerInv, ToRead
    PROVE  /\ at \in Users
           /\ User \in UserRecords
           /\ User.fd \in Fds /\ User.fd # 0
           /\ Conn \in Conns /\ fdOf[Conn] = User.fd
<1>1. /\ at \in Users /\ User \in UserRecords
      /\ User.fd \in Fds
  BY DEF ServerInv, TypeOK, ToRead, User
<1>2. User.fd # 0
  BY <1>1, Positive
<1>3. \E c \in Conns : fdOf[c] = User.fd
  BY <1>1, <1>2 DEF ServerInv, OpenFds, User
<1> QED BY <1>1, <1>2, <1>3, HolderOpen DEF Conn

(* So is a partner.                                                        *)
LEMMA PartnerOpen ==
    ASSUME ServerInv, NEW i \in Users, logged_in[i].to > 0
    PROVE  /\ logged_in[i].to \in Fds
           /\ Holder(logged_in[i].to) \in Conns
           /\ fdOf[Holder(logged_in[i].to)] = logged_in[i].to
<1>1. logged_in[i].to \in Fds
  BY DEF ServerInv, TypeOK, UserRecords, FD_UNASSIGNED, FD_AWAITING
<1>2. PICK k \in Present : logged_in[k].fd = logged_in[i].to
  BY DEF ServerInv, PartnerLoggedIn
<1>3. \E c \in Conns : fdOf[c] = logged_in[i].to
  BY <1>2 DEF ServerInv, OpenFds, Present
<1> QED BY <1>1, <1>3, HolderOpen

-----------------------------------------------------------------------------
(* Types.                                                                  *)
LEMMA OnwardType ==
    ASSUME TypeOK, Onward
    PROVE  at' \in Users /\ pc' \in {"serve", "menu"}
BY SlotsAssumption DEF TypeOK, Onward, Users

LEMMA RemoveUserType ==
    ASSUME ServerInv, ToRead, RemoveUser
    PROVE  logged_in' \in [Users -> UserRecords] /\ fdOf' \in [Conns -> {0} \union Fds]
<1>1. NoUser \in UserRecords
  BY DEF NoUser, UserRecords
<1>2. \A i \in Users : [logged_in[i] EXCEPT !.to = FD_UNASSIGNED] \in UserRecords
  BY DEF ServerInv, TypeOK, UserRecords
<1> QED BY <1>1, <1>2 DEF ServerInv, TypeOK, RemoveUser

LEMMA ReadLineType ==
    ASSUME TypeOK, ReadLine
    PROVE  input' \in [Conns -> {"nothing", "part", "line"}]
BY DEF TypeOK, ReadLine

LEMMA SelectType == ASSUME TypeOK, Select PROVE TypeOK'
<1> DEFINE talking == {i \in Present : logged_in[i].to > 0}
           asked   == {i \in Present : logged_in[i].to = FD_UNASSIGNED}
           wanted  == {logged_in[i].to : i \in talking} \union {logged_in[i].fd : i \in asked}
<1>1. logged_in' = [i \in Users |-> IF i \in asked
                                    THEN [logged_in[i] EXCEPT !.to = FD_AWAITING]
                                    ELSE logged_in[i]]
  BY DEF Select
<1>2. \A i \in Users : [logged_in[i] EXCEPT !.to = FD_AWAITING] \in UserRecords
  BY DEF TypeOK, UserRecords
<1>3. logged_in' \in [Users -> UserRecords]
  BY <1>1, <1>2 DEF TypeOK
<1>4. wanted \subseteq Fds
  <2>1. \A i \in talking : logged_in[i].to \in Fds
    BY DEF TypeOK, UserRecords, FD_UNASSIGNED, FD_AWAITING, Present
  <2>2. \A i \in asked : logged_in[i].fd \in Fds
    BY DEF TypeOK, UserRecords, Present
  <2> QED BY <2>1, <2>2
<1>5. writable' \subseteq Fds
  <2>1. writable' \in SUBSET {f \in wanted : Selected(f)}
    BY DEF Select
  <2> QED BY <2>1, <1>4
<1>6. readable' \subseteq Fds
  <2>1. {logged_in[i].fd : i \in Users} \ {0} \subseteq Fds
    BY DEF TypeOK, UserRecords
  <2> QED BY <2>1 DEF Select
<1>7. /\ pc' \in {"accept", "serve"} /\ at' = 0 /\ writes' = [c \in Conns |-> 0]
      /\ UNCHANGED <<kernel, input, mail>>
  BY DEF Select
<1> QED BY <1>3, <1>5, <1>6, <1>7, Positive DEF TypeOK, kernel

LEMMA TypeStep == ServerInv /\ [Next]_vars => TypeOK'
<1> SUFFICES ASSUME ServerInv, [Next]_vars PROVE TypeOK'
  OBVIOUS
<1>0. TypeOK
  BY DEF ServerInv
<1>1. ASSUME NEW c \in Conns, Accept(c) PROVE TypeOK'
  <2>1. PICK fd \in Lowest(Fds \ {fdOf[d] : d \in Conns}) :
          /\ fdOf' = [fdOf EXCEPT ![c] = fd]
          /\ \/ \E i \in Lowest({k \in Users : logged_in[k].fd = 0}) :
                    logged_in' = [logged_in EXCEPT ![i].fd = fd]
             \/ UNCHANGED logged_in
    BY <1>1 DEF Accept
  <2>2. fd \in Fds
    BY DEF Lowest
  <2>3. \A i \in Users : [logged_in EXCEPT ![i].fd = fd] \in [Users -> UserRecords]
    BY <1>0, <2>2 DEF TypeOK, UserRecords
  <2>4. logged_in' \in [Users -> UserRecords]
    BY <1>0, <2>1, <2>3 DEF TypeOK, Lowest
  <2>5. fdOf' \in [Conns -> {0} \union Fds]
    BY <1>0, <2>1, <2>2 DEF TypeOK
  <2>6. /\ backlog' = backlog \ {c} /\ pc' \in {"select", "dead"}
        /\ UNCHANGED <<client, input, at, readable, writable, writes, mail>>
    BY <1>1 DEF Accept, Written
  <2> QED BY <1>0, <2>4, <2>5, <2>6 DEF TypeOK
<1>2. CASE AcceptTimeout \/ AlarmEarly
  BY <1>0, <1>2 DEF AcceptTimeout, AlarmEarly, TypeOK, kernel
<1>3. CASE Select
  BY <1>0, <1>3, SelectType
<1>4. CASE Leave
  <2>1. input' \in [Conns -> {"nothing", "part", "line"}]
    BY <1>0, <1>4 DEF TypeOK, Leave
  <2>2. /\ ToRead /\ RemoveUser /\ Onward
        /\ UNCHANGED <<client, backlog, readable, writable, writes, mail>>
    BY <1>4 DEF Leave
  <2> QED BY <1>0, <2>1, <2>2, OnwardType, RemoveUserType DEF TypeOK
<1>5. CASE ReadName
  <2>1. /\ ReadLine /\ Onward /\ logged_in' = [logged_in EXCEPT ![at].named = TRUE]
        /\ UNCHANGED <<kernel, readable, writable, writes, mail>>
    BY <1>5 DEF ReadName
  <2>2. logged_in' \in [Users -> UserRecords]
    BY <1>0, <2>1 DEF TypeOK, UserRecords
  <2> QED BY <1>0, <2>1, <2>2, OnwardType, ReadLineType DEF TypeOK, kernel
<1>6. CASE PickNobody
  <2>1. /\ ToRead /\ RemoveUser /\ Onward /\ ReadLine
        /\ UNCHANGED <<client, backlog, readable, writable, writes, mail>>
    BY <1>6 DEF PickNobody
  <2> QED BY <1>0, <2>1, OnwardType, RemoveUserType, ReadLineType DEF TypeOK
<1>7. CASE Forward
  <2> DEFINE d == Holder(User.to)
  <2>1. /\ ToRead /\ User.to > 0 /\ ReadLine
        /\ UNCHANGED <<kernel, logged_in, readable>>
        /\ \/ /\ mail' = <<Conn, d>>
              /\ writes' = [writes EXCEPT ![d] = @ + 1]
              /\ writable' = writable \ {User.to}
              /\ Onward
           \/ pc' = "dead" /\ UNCHANGED <<at, writable, writes, mail>>
    BY <1>7 DEF Forward
  <2>2. at \in Users /\ Conn \in Conns
    BY <2>1, ReadUser
  <2>3. d \in Conns
    BY <2>1, <2>2, PartnerOpen DEF User
  <2>4. writes' \in [Conns -> Nat]
    BY <1>0, <2>1, <2>3 DEF TypeOK
  <2>5. at' \in Users /\ pc' \in {"serve", "menu", "dead"}
    BY <1>0, <2>1, <2>2, OnwardType
  <2>6. writable' \in SUBSET Fds /\ mail' \in (Conns \X Conns) \union {<<>>}
    BY <1>0, <2>1, <2>2, <2>3 DEF TypeOK
  <2> QED BY <1>0, <2>1, <2>4, <2>5, <2>6, ReadLineType DEF TypeOK, kernel
<1>8. CASE Skip
  BY <1>0, <1>8, OnwardType DEF Skip, TypeOK, kernel
<1>9. ASSUME NEW new_to \in Users, PickPartner(new_to) PROVE TypeOK'
  <2>1. /\ ReadLine /\ Onward /\ new_to \in Present
        /\ logged_in' = [logged_in EXCEPT ![at].to = logged_in[new_to].fd]
        /\ UNCHANGED <<kernel, readable, writable, writes, mail>>
    BY <1>9 DEF PickPartner
  <2>2. logged_in[new_to].fd \in Fds
    BY <1>0, <2>1 DEF TypeOK, UserRecords, Present
  <2>3. logged_in' \in [Users -> UserRecords]
    BY <1>0, <2>1, <2>2 DEF TypeOK, UserRecords
  <2> QED BY <1>0, <2>1, <2>3, OnwardType, ReadLineType DEF TypeOK, kernel
<1>10. CASE Menus
  <2>1. PICK cs \in {{Holder(logged_in[i].fd) : i \in
                        {k \in Users : /\ logged_in[k].fd \in writable
                                       /\ logged_in[k].to = FD_AWAITING
                                       /\ Present \ {k} # {}}}} :
          writes' = [c \in Conns |-> IF c \in cs THEN writes[c] + 1 ELSE writes[c]]
    BY <1>10 DEF Menus
  <2>2. writes' \in [Conns -> Nat]
    BY <1>0, <2>1 DEF TypeOK
  <2>3. /\ pc' \in {"accept", "dead"} /\ readable' = {} /\ writable' = {}
        /\ UNCHANGED <<kernel, input, logged_in, at, mail>>
    BY <1>10 DEF Menus, Written
  <2> QED BY <1>0, <2>2, <2>3 DEF TypeOK, kernel
<1>11. CASE Fatal
  BY <1>0, <1>11 DEF Fatal, TypeOK, kernel
<1>12. ASSUME NEW c \in Conns, Connect(c) PROVE TypeOK'
  BY <1>0, <1>12 DEF Connect, TypeOK
<1>13. ASSUME NEW c \in Conns, Type(c) PROVE TypeOK'
  BY <1>0, <1>13 DEF Type, TypeOK, kernel
<1>14. ASSUME NEW c \in Conns, HangUp(c) PROVE TypeOK'
  BY <1>0, <1>14 DEF HangUp, TypeOK
<1>15. CASE UNCHANGED vars
  BY <1>0, <1>15 DEF vars, TypeOK
<1> QED
  BY <1>1, <1>2, <1>3, <1>4, <1>5, <1>6, <1>7, <1>8, <1>9, <1>10, <1>11, <1>12,
     <1>13, <1>14, <1>15 DEF Next, Server, Clients, Dead

-----------------------------------------------------------------------------
(* The table and the descriptors.                                          *)

(* "to" is set, the other fields stay.                                     *)
LEMMA NewPartner ==
    ASSUME NEW u \in UserRecords, NEW t
    PROVE  /\ [u EXCEPT !.to = t].fd = u.fd
           /\ [u EXCEPT !.to = t].named = u.named
           /\ [u EXCEPT !.to = t].to = t
BY DEF UserRecords

TableInv == CleanSlots /\ UniqueFds /\ OpenFds /\ PartnerLoggedIn

(* What Accept does to them: a free descriptor goes to a free slot, or to  *)
(* none.                                                                   *)
LEMMA AcceptFacts ==
    ASSUME ServerInv, NEW c \in Conns, Accept(c)
    PROVE  \E fd \in Fds :
               /\ \A d \in Conns : fdOf[d] # fd
               /\ fdOf' = [fdOf EXCEPT ![c] = fd]
               /\ \/ \E i \in Users : /\ logged_in[i] = NoUser
                                      /\ logged_in' = [logged_in EXCEPT ![i].fd = fd]
                  \/ logged_in' = logged_in
<1>1. PICK fd \in Lowest(Fds \ {fdOf[d] : d \in Conns}) :
        /\ fdOf' = [fdOf EXCEPT ![c] = fd]
        /\ \/ \E i \in Lowest({k \in Users : logged_in[k].fd = 0}) :
                  logged_in' = [logged_in EXCEPT ![i].fd = fd]
           \/ UNCHANGED logged_in
  BY DEF Accept
<1>2. fd \in Fds /\ \A d \in Conns : fdOf[d] # fd
  BY DEF Lowest
<1>3. \A i \in Lowest({k \in Users : logged_in[k].fd = 0}) :
          i \in Users /\ logged_in[i] = NoUser
  BY DEF Lowest, ServerInv, CleanSlots
<1> QED BY <1>1, <1>2, <1>3

LEMMA AcceptTable ==
    ASSUME ServerInv, NEW c \in Conns, Accept(c)
    PROVE  TableInv'
<1>1. PICK fd \in Fds :
        /\ \A d \in Conns : fdOf[d] # fd
        /\ fdOf' = [fdOf EXCEPT ![c] = fd]
        /\ \/ \E i \in Users : /\ logged_in[i] = NoUser
                               /\ logged_in' = [logged_in EXCEPT ![i].fd = fd]
           \/ logged_in' = logged_in
  BY AcceptFacts
<1>2. /\ c \in backlog /\ fdOf[c] = 0 /\ client[c] # "none"
      /\ backlog' = backlog \ {c} /\ client' = client
  BY DEF Accept, ServerInv, OpenFds
<1>3. /\ fd # 0
      /\ fdOf \in [Conns -> {0} \union Fds] /\ logged_in \in [Users -> UserRecords]
      /\ backlog \subseteq Conns
  BY Positive DEF ServerInv, TypeOK
<1>4. \A i \in Users : logged_in[i].fd # fd
  BY <1>1, <1>3 DEF ServerInv, OpenFds
<1>5. \A d \in Conns : fdOf'[d] = IF d = c THEN fd ELSE fdOf[d]
  BY <1>1, <1>3
<1>6. CASE logged_in' = logged_in
  <2>1. CleanSlots' /\ PartnerLoggedIn'
    BY <1>6 DEF ServerInv, CleanSlots, PartnerLoggedIn, Present
  <2>2. UniqueFds'
    BY <1>1, <1>5, <1>6 DEF ServerInv, UniqueFds
  <2>3. OpenFds'
    BY <1>2, <1>3, <1>5, <1>6 DEF ServerInv, OpenFds
  <2> QED BY <2>1, <2>2, <2>3 DEF TableInv
<1>7. ASSUME NEW i \in Users, logged_in[i] = NoUser,
             logged_in' = [logged_in EXCEPT ![i].fd = fd]
      PROVE  TableInv'
  <2>1. \A k \in Users : logged_in'[k] = IF k = i THEN [NoUser EXCEPT !.fd = fd]
                                                  ELSE logged_in[k]
    BY <1>3, <1>7
  <2>2. CleanSlots'
    <3>1. logged_in'[i].fd = fd /\ logged_in'[i].to = 0
      BY <2>1 DEF NoUser, FD_UNASSIGNED
    <3>2. \A k \in Users : k # i => logged_in'[k] = logged_in[k]
      BY <2>1
    <3> QED BY <1>3, <3>1, <3>2 DEF ServerInv, CleanSlots
  <2>3. UniqueFds'
    BY <1>1, <1>4, <1>5, <2>1 DEF ServerInv, UniqueFds, NoUser
  <2>4. OpenFds'
    BY <1>2, <1>3, <1>5, <2>1 DEF ServerInv, OpenFds, NoUser
  <2>5. \A k \in Present : k \in Present' /\ logged_in'[k] = logged_in[k]
    BY <1>7, <2>1 DEF Present, NoUser
  <2>6. PartnerLoggedIn'
    BY <2>1, <2>5 DEF ServerInv, PartnerLoggedIn, NoUser, FD_UNASSIGNED
  <2> QED BY <2>2, <2>3, <2>4, <2>6 DEF TableInv
<1> QED BY <1>1, <1>6, <1>7

(* A user is removed: nobody else has its descriptor, and nobody keeps it  *)
(* as a partner.                                                           *)
LEMMA RemoveUserTable ==
    ASSUME ServerInv, ToRead, RemoveUser, UNCHANGED <<client, backlog>>
    PROVE  TableInv'
<1>1. /\ at \in Users /\ User \in UserRecords
      /\ User.fd \in Fds /\ User.fd # 0
      /\ Conn \in Conns /\ fdOf[Conn] = User.fd
  BY ReadUser
<1>2. /\ fdOf \in [Conns -> {0} \union Fds] /\ logged_in \in [Users -> UserRecords]
      /\ backlog \subseteq Conns
  BY DEF ServerInv, TypeOK
<1>3. \A c \in Conns : fdOf'[c] = IF c = Conn THEN 0 ELSE fdOf[c]
  BY <1>2 DEF RemoveUser
<1>4. \A i \in Users :
        \/ i = at /\ logged_in'[i] = NoUser
        \/ /\ i # at /\ logged_in[i].to = User.fd
           /\ logged_in'[i] = [logged_in[i] EXCEPT !.to = FD_UNASSIGNED]
        \/ i # at /\ logged_in[i].to # User.fd /\ logged_in'[i] = logged_in[i]
  BY DEF RemoveUser
<1>a. \A i \in Users :
        \/ i = at /\ logged_in'[i].fd = 0 /\ logged_in'[i].to = 0
        \/ /\ i # at /\ logged_in[i].to = User.fd
           /\ logged_in'[i].fd = logged_in[i].fd /\ logged_in'[i].to = 0
           /\ logged_in'[i].named = logged_in[i].named
        \/ i # at /\ logged_in[i].to # User.fd /\ logged_in'[i] = logged_in[i]
  <2>1. NoUser.fd = 0 /\ NoUser.to = 0
    BY DEF NoUser, FD_UNASSIGNED
  <2>2. ASSUME NEW i \in Users, i # at, logged_in[i].to = User.fd
        PROVE  /\ logged_in'[i].fd = logged_in[i].fd /\ logged_in'[i].to = 0
               /\ logged_in'[i].named = logged_in[i].named
    <3>1. logged_in[i] \in UserRecords
      BY <1>2
    <3>2. logged_in'[i] = [logged_in[i] EXCEPT !.to = FD_UNASSIGNED]
      BY <1>4, <2>2
    <3> QED BY <3>1, <3>2, NewPartner DEF FD_UNASSIGNED
  <2>3. \A i \in Users : i = at => logged_in'[i] = NoUser
    BY <1>4
  <2>4. \A i \in Users : i # at /\ logged_in[i].to # User.fd => logged_in'[i] = logged_in[i]
    BY <1>4
  <2> QED BY <2>1, <2>2, <2>3, <2>4
<1>5. \A i \in Users : logged_in[i].fd = User.fd => i = at
  BY <1>1 DEF ServerInv, UniqueFds, User
<1>6. CleanSlots'
  <2> SUFFICES ASSUME NEW i \in Users
               PROVE  /\ logged_in'[i].fd = 0 => logged_in'[i] = NoUser
                      /\ ~logged_in'[i].named => logged_in'[i].to <= 0
    BY DEF CleanSlots
  <2>1. /\ logged_in[i].fd = 0 => logged_in[i] = NoUser
        /\ ~logged_in[i].named => logged_in[i].to <= 0
    BY DEF ServerInv, CleanSlots
  <2>2. logged_in[i].fd = 0 => logged_in[i].to # User.fd
    BY <1>1, <2>1 DEF NoUser, FD_UNASSIGNED
  <2>3. logged_in[i].fd = 0 /\ logged_in'[i].fd = 0 => logged_in'[i] = NoUser
    BY <1>4, <2>1, <2>2
  <2>4. logged_in[i].fd # 0 /\ logged_in'[i].fd = 0 => logged_in'[i] = NoUser
    BY <1>4, <1>a
  <2>5. ~logged_in'[i].named => logged_in'[i].to <= 0
    BY <1>a, <2>1
  <2> QED BY <2>3, <2>4, <2>5
<1>7. UniqueFds'
  <2>1. \A i \in Users : logged_in'[i].fd # 0 => logged_in'[i].fd = logged_in[i].fd
    BY <1>a
  <2> QED BY <1>3, <2>1 DEF ServerInv, UniqueFds
<1>8. OpenFds'
  <2>1. ASSUME NEW i \in Users, logged_in'[i].fd # 0
        PROVE  \E c \in Conns : fdOf'[c] = logged_in'[i].fd
    <3>1. i # at /\ logged_in'[i].fd = logged_in[i].fd /\ logged_in[i].fd # 0
      BY <1>a, <2>1
    <3>2. PICK c \in Conns : fdOf[c] = logged_in[i].fd
      BY <3>1 DEF ServerInv, OpenFds
    <3>3. c # Conn
      BY <1>1, <1>5, <3>1, <3>2
    <3> QED BY <1>3, <3>1, <3>2, <3>3
  <2>2. \A c \in backlog' : fdOf'[c] = 0 /\ client'[c] # "none"
    BY <1>2, <1>3 DEF ServerInv, OpenFds
  <2>3. \A c \in Conns : client'[c] = "none" => fdOf'[c] = 0
    BY <1>3 DEF ServerInv, OpenFds
  <2> QED BY <2>1, <2>2, <2>3 DEF OpenFds
<1>9. PartnerLoggedIn'
  <2> SUFFICES ASSUME NEW i \in Users, logged_in'[i].to > 0
               PROVE  \E k \in Present' : logged_in'[k].fd = logged_in'[i].to
    BY DEF PartnerLoggedIn
  <2>1. i # at /\ logged_in[i].to # User.fd /\ logged_in'[i].to = logged_in[i].to
    BY <1>a
  <2>2. PICK k \in Present : logged_in[k].fd = logged_in[i].to
    BY <2>1 DEF ServerInv, PartnerLoggedIn
  <2>3. k # at
    BY <2>1, <2>2 DEF User
  <2>4. k \in Present' /\ logged_in'[k].fd = logged_in[k].fd
    BY <1>a, <2>2, <2>3 DEF Present
  <2> QED BY <2>1, <2>2, <2>4
<1> QED BY <1>6, <1>7, <1>8, <1>9 DEF TableInv

(* Users without a partner become awaiting; nothing else changes.          *)
LEMMA SelectTable == ASSUME ServerInv, Select PROVE TableInv'
<1> DEFINE asked == {i \in Present : logged_in[i].to = FD_UNASSIGNED}
<1>1. /\ logged_in' = [i \in Users |-> IF i \in asked
                                       THEN [logged_in[i] EXCEPT !.to = FD_AWAITING]
                                       ELSE logged_in[i]]
      /\ UNCHANGED kernel
  BY DEF Select
<1>2. \A u \in UserRecords : LET v == [u EXCEPT !.to = FD_AWAITING] IN
                                 v.fd = u.fd /\ v.to = -1 /\ v.named = u.named
  BY NewPartner DEF FD_AWAITING
<1>3. \A i \in Users : logged_in[i] \in UserRecords
  BY DEF ServerInv, TypeOK
<1>4. \A i \in Users :
        \/ /\ i \in asked
           /\ logged_in'[i].fd = logged_in[i].fd /\ logged_in'[i].to = -1
           /\ logged_in'[i].named = logged_in[i].named
        \/ i \notin asked /\ logged_in'[i] = logged_in[i]
  BY <1>1, <1>2, <1>3
<1>5. \A i \in asked : logged_in[i].fd # 0
  BY DEF Present
<1>6. CleanSlots'
  BY <1>4, <1>5 DEF ServerInv, CleanSlots
<1>7. UniqueFds' /\ OpenFds'
  <2>1. \A i \in Users : logged_in'[i].fd = logged_in[i].fd
    BY <1>4
  <2> QED BY <1>1, <2>1 DEF ServerInv, UniqueFds, OpenFds, kernel
<1>8. Present' = Present
  BY <1>4 DEF Present
<1>9. PartnerLoggedIn'
  <2> SUFFICES ASSUME NEW i \in Users, logged_in'[i].to > 0
               PROVE  \E k \in Present' : logged_in'[k].fd = logged_in'[i].to
    BY DEF PartnerLoggedIn
  <2>1. logged_in'[i] = logged_in[i]
    BY <1>4
  <2>2. PICK k \in Present : logged_in[k].fd = logged_in[i].to
    BY <2>1 DEF ServerInv, PartnerLoggedIn
  <2> QED BY <1>4, <1>8, <2>1, <2>2 DEF Present
<1> QED BY <1>6, <1>7, <1>9 DEF TableInv

LEMMA ReadNameTable == ASSUME ServerInv, ReadName PROVE TableInv'
<1>1. /\ ToRead /\ ~User.named
      /\ logged_in' = [logged_in EXCEPT ![at].named = TRUE]
      /\ UNCHANGED kernel
  BY DEF ReadName
<1>2. at \in Users /\ User.fd # 0
  BY <1>1, ReadUser
<1>3. \A i \in Users : logged_in[i] \in UserRecords
  BY DEF ServerInv, TypeOK
<1>4. /\ logged_in'[at].fd = logged_in[at].fd /\ logged_in'[at].to = logged_in[at].to
      /\ logged_in'[at].named
      /\ \A i \in Users : i # at => logged_in'[i] = logged_in[i]
  BY <1>1, <1>2, <1>3 DEF UserRecords, ServerInv, TypeOK
<1>5. CleanSlots'
  BY <1>2, <1>4 DEF ServerInv, CleanSlots, User
<1>6. \A i \in Users : logged_in'[i].fd = logged_in[i].fd /\ logged_in'[i].to = logged_in[i].to
  BY <1>4
<1>7. UniqueFds' /\ OpenFds'
  BY <1>1, <1>6 DEF ServerInv, UniqueFds, OpenFds, kernel
<1>8. Present \subseteq Present'
  BY <1>4, <1>6 DEF Present
<1>9. PartnerLoggedIn'
  BY <1>6, <1>8 DEF ServerInv, PartnerLoggedIn, Present
<1> QED BY <1>5, <1>7, <1>9 DEF TableInv

LEMMA PickPartnerTable ==
    ASSUME ServerInv, NEW new_to \in Users, PickPartner(new_to)
    PROVE  TableInv'
<1>1. /\ ToRead /\ User.named /\ new_to \in Present
      /\ logged_in' = [logged_in EXCEPT ![at].to = logged_in[new_to].fd]
      /\ UNCHANGED kernel
  BY DEF PickPartner
<1>2. at \in Users /\ User.fd # 0
  BY <1>1, ReadUser
<1>3. \A i \in Users : logged_in[i] \in UserRecords
  BY DEF ServerInv, TypeOK
<1>4. /\ logged_in'[at].fd = logged_in[at].fd
      /\ logged_in'[at].named = logged_in[at].named
      /\ logged_in'[at].to = logged_in[new_to].fd
      /\ \A i \in Users : i # at => logged_in'[i] = logged_in[i]
  BY <1>1, <1>2, <1>3 DEF UserRecords, ServerInv, TypeOK
<1>5. CleanSlots'
  BY <1>1, <1>2, <1>4 DEF ServerInv, CleanSlots, User
<1>6. \A i \in Users : logged_in'[i].fd = logged_in[i].fd
  BY <1>4
<1>7. UniqueFds' /\ OpenFds'
  BY <1>1, <1>6 DEF ServerInv, UniqueFds, OpenFds, kernel
<1>8. Present' = Present
  BY <1>4 DEF Present
<1>9. PartnerLoggedIn'
  BY <1>1, <1>4, <1>6, <1>8 DEF ServerInv, PartnerLoggedIn, Present
<1> QED BY <1>5, <1>7, <1>9 DEF TableInv

(* A client that connects or hangs up.                                     *)
LEMMA ClientTable ==
    ASSUME ServerInv, NEW c \in Conns, Connect(c) \/ HangUp(c)
    PROVE  TableInv'
<1>1. /\ UNCHANGED <<fdOf, logged_in>>
      /\ \/ /\ client[c] = "none" /\ client' = [client EXCEPT ![c] = "up"]
            /\ backlog' = backlog \union {c}
         \/ client[c] = "up" /\ client' = [client EXCEPT ![c] = "down"] /\ backlog' = backlog
  BY DEF Connect, HangUp
<1>2. CleanSlots' /\ UniqueFds' /\ PartnerLoggedIn'
  BY <1>1 DEF ServerInv, CleanSlots, UniqueFds, PartnerLoggedIn, Present
<1>3. OpenFds'
  <2>1. \A d \in Conns : /\ d # c => client'[d] = client[d]
                         /\ client'[c] # "none"
    BY <1>1 DEF ServerInv, TypeOK
  <2> QED BY <1>1, <2>1 DEF ServerInv, OpenFds, TypeOK
<1> QED BY <1>2, <1>3 DEF TableInv

LEMMA TableStep == ServerInv /\ [Next]_vars => TableInv'
<1> SUFFICES ASSUME ServerInv, [Next]_vars PROVE TableInv'
  OBVIOUS
<1>1. ASSUME UNCHANGED <<kernel, logged_in>> PROVE TableInv'
  BY <1>1 DEF TableInv, ServerInv, CleanSlots, UniqueFds, OpenFds, PartnerLoggedIn,
              Present, kernel
<1>2. CASE AcceptTimeout \/ AlarmEarly \/ Forward \/ Skip \/ Menus \/ Fatal \/ UNCHANGED vars
  <2>1. UNCHANGED <<kernel, logged_in>>
    BY <1>2 DEF AcceptTimeout, AlarmEarly, Forward, Skip, Menus, Fatal, vars, kernel
  <2> QED BY <1>1, <2>1
<1>3. ASSUME NEW c \in Conns, Type(c) PROVE TableInv'
  BY <1>1, <1>3 DEF Type
<1>4. CASE Leave \/ PickNobody
  BY <1>4, RemoveUserTable DEF Leave, PickNobody
<1> QED
  BY <1>2, <1>3, <1>4, AcceptTable, SelectTable, ReadNameTable, PickPartnerTable,
     ClientTable DEF Next, Server, Clients, Dead

LEMMA StepServerInv == ServerInv /\ [Next]_vars => ServerInv'
BY TypeStep, TableStep DEF ServerInv, TableInv

-----------------------------------------------------------------------------
(* Within a round: who was written to is not writable any more.            *)
RoundInv ==
    /\ OneWritePerRound
    /\ \A c \in Conns : writes[c] # 0 => fdOf[c] \notin writable
    /\ pc \in {"accept", "unarmed", "select"} => writable = {}

LEMMA InitRound == Init => RoundInv
BY DEF Init, RoundInv, OneWritePerRound

LEMMA ForwardRound == ASSUME ServerInv, RoundInv, Forward PROVE RoundInv'
<1> DEFINE d == Holder(User.to)
<1>1. /\ ToRead /\ User.named /\ User.to > 0
      /\ pc = "serve" /\ UNCHANGED fdOf
      /\ \/ /\ writes' = [writes EXCEPT ![d] = @ + 1]
            /\ writable' = writable \ {User.to}
            /\ Onward
         \/ pc' = "dead" /\ UNCHANGED <<writable, writes>>
  BY DEF Forward, ToRead, kernel
<1>2. CASE pc' = "dead" /\ UNCHANGED <<writable, writes>>
  BY <1>1, <1>2 DEF RoundInv, OneWritePerRound
<1>3. CASE /\ writes' = [writes EXCEPT ![d] = @ + 1]
           /\ writable' = writable \ {User.to}
           /\ Onward
  <2>1. User.to \in writable
    BY <1>1 DEF ToRead, FD_AWAITING
  <2>2. at \in Users
    BY <1>1, ReadUser
  <2>3. d \in Conns /\ fdOf[d] = User.to
    BY <1>1, <2>2, PartnerOpen DEF User
  <2>4. writes \in [Conns -> Nat] /\ writes[d] = 0
    BY <2>1, <2>3 DEF ServerInv, TypeOK, RoundInv
  <2>5. \A c \in Conns : writes'[c] = IF c = d THEN 1 ELSE writes[c]
    BY <1>3, <2>3, <2>4
  <2>6. pc' \notin {"accept", "unarmed", "select"}
    BY <1>3 DEF Onward
  <2> QED BY <1>1, <1>3, <2>3, <2>5, <2>6 DEF RoundInv, OneWritePerRound
<1> QED BY <1>1, <1>2, <1>3

LEMMA MenusRound == ASSUME ServerInv, RoundInv, Menus PROVE RoundInv'
<1> DEFINE shown == {i \in Users : /\ logged_in[i].fd \in writable
                                   /\ logged_in[i].to = FD_AWAITING
                                   /\ Present \ {i} # {}}
           cs    == {Holder(logged_in[i].fd) : i \in shown}
<1>1. /\ writes' = [c \in Conns |-> IF c \in cs THEN writes[c] + 1 ELSE writes[c]]
      /\ writable' = {}
  BY DEF Menus
<1>2. \A c \in cs : fdOf[c] \in writable
  <2> SUFFICES ASSUME NEW i \in shown
               PROVE  fdOf[Holder(logged_in[i].fd)] \in writable
    OBVIOUS
  <2>1. logged_in[i].fd # 0
    BY Positive DEF ServerInv, TypeOK
  <2>2. \E c \in Conns : fdOf[c] = logged_in[i].fd
    BY <2>1 DEF ServerInv, OpenFds
  <2> QED BY <2>2, HolderOpen
<1>3. \A c \in Conns : writes'[c] <= 1
  <2> SUFFICES ASSUME NEW c \in Conns PROVE writes'[c] <= 1
    OBVIOUS
  <2>1. writes[c] \in Nat /\ writes[c] <= 1
    BY DEF ServerInv, TypeOK, RoundInv, OneWritePerRound
  <2>2. c \in cs => writes[c] = 0
    BY <1>2 DEF RoundInv
  <2>3. writes'[c] = IF c \in cs THEN writes[c] + 1 ELSE writes[c]
    BY <1>1
  <2> QED BY <2>1, <2>2, <2>3
<1> QED BY <1>1, <1>3 DEF RoundInv, OneWritePerRound

LEMMA RoundStep == ServerInv /\ RoundInv /\ [Next]_vars => RoundInv'
<1> SUFFICES ASSUME ServerInv, RoundInv, [Next]_vars PROVE RoundInv'
  OBVIOUS
<1>1. ASSUME UNCHANGED <<writes, writable, fdOf>>,
             pc' \in {"accept", "unarmed", "select"} => pc \in {"accept", "unarmed", "select"}
      PROVE  RoundInv'
  BY <1>1 DEF RoundInv, OneWritePerRound
<1>2. ASSUME NEW c \in Conns, Accept(c) PROVE RoundInv'
  <2>1. writable' = {} /\ UNCHANGED writes
    BY <1>2 DEF Accept, RoundInv
  <2> QED BY <2>1 DEF RoundInv, OneWritePerRound
<1>3. CASE Select
  <2>1. /\ writes' = [c \in Conns |-> 0]
        /\ pc' = IF readable' \union writable' = {} THEN "accept" ELSE "serve"
    BY <1>3 DEF Select
  <2>2. pc' \in {"accept", "unarmed", "select"} => writable' = {}
    BY <2>1
  <2>3. \A c \in Conns : writes'[c] = 0
    BY <2>1
  <2> QED BY <2>2, <2>3 DEF RoundInv, OneWritePerRound
<1>4. CASE Leave \/ PickNobody
  <2>1. /\ ToRead /\ RemoveUser /\ Onward /\ pc = "serve"
        /\ UNCHANGED <<writable, writes>>
    BY <1>4 DEF Leave, PickNobody, ToRead
  <2>2. writable \subseteq Fds /\ fdOf \in [Conns -> {0} \union Fds]
    BY DEF ServerInv, TypeOK
  <2>3. \A c \in Conns : fdOf'[c] = fdOf[c] \/ fdOf'[c] = 0
    BY <2>1, <2>2 DEF RemoveUser
  <2>4. 0 \notin writable
    BY <2>2, Positive
  <2>5. pc' \notin {"accept", "unarmed", "select"}
    BY <2>1 DEF Onward
  <2> QED BY <2>1, <2>3, <2>4, <2>5 DEF RoundInv, OneWritePerRound
<1>5. ASSUME Onward, UNCHANGED <<writes, writable, fdOf>> PROVE RoundInv'
  BY <1>1, <1>5 DEF Onward
<1>6. CASE ReadName \/ Skip \/ \E new_to \in Users : PickPartner(new_to)
  BY <1>5, <1>6 DEF ReadName, Skip, PickPartner, kernel
<1>7. CASE AcceptTimeout \/ AlarmEarly \/ Fatal \/ UNCHANGED vars
  BY <1>1, <1>7 DEF AcceptTimeout, AlarmEarly, Fatal, vars, kernel
<1>8. CASE Clients
  BY <1>1, <1>8 DEF Clients, Connect, Type, HangUp, kernel
<1> QED
  BY <1>2, <1>3, <1>4, <1>6, <1>7, <1>8, ForwardRound, MenusRound DEF Next, Server, Dead

-----------------------------------------------------------------------------
(* The theorems.                                                           *)
THEOREM ServerInvariance == Spec => []ServerInv
BY InitServerInv, StepServerInv, PTL DEF Spec

(* Every variable keeps its type: the table holds open descriptors or      *)
(* none, and a line is only ever forwarded to a connection.                *)
THEOREM ServerTypeCorrect == Spec => []TypeOK
<1>1. ServerInv => TypeOK
  BY DEF ServerInv
<1> QED BY <1>1, ServerInvariance, PTL

(* However the kernel reuses descriptors, a user's partner is logged in.   *)
THEOREM PartnersLoggedIn == Spec => []PartnerLoggedIn
<1>1. ServerInv => PartnerLoggedIn
  BY DEF ServerInv
<1> QED BY <1>1, ServerInvariance, PTL

(* One select justifies one write to a socket.                             *)
THEOREM WritesAreJustified == Spec => []OneWritePerRound
<1>1. RoundInv => OneWritePerRound
  BY DEF RoundInv
<1> QED BY <1>1, ServerInvariance, InitRound, RoundStep, PTL DEF Spec

-----------------------------------------------------------------------------
(* The server implements Talk.  In ServerInv states every open descriptor  *)
(* has one holder, so the mapping can be read off the table.               *)
MappingInv ==
    /\ \A c \in Conns, f \in Fds : fdOf[c] = f => Holder(f) = c
    /\ ConnsPresent = {c \in Conns : \E i \in Present : logged_in[i].fd = fdOf[c]}
    /\ \A c \in Conns, i \in Present :
           logged_in[i].fd = fdOf[c] =>
               PartnerOf(c) = IF logged_in[i].to > 0 THEN Holder(logged_in[i].to) ELSE NoOne
    /\ \A c \in Conns \ ConnsPresent : PartnerOf(c) = NoOne

LEMMA Mapping == ServerInv => MappingInv
<1> SUFFICES ASSUME ServerInv PROVE MappingInv
  OBVIOUS
<1>1. ASSUME NEW c \in Conns, NEW f \in Fds, fdOf[c] = f PROVE Holder(f) = c
  <2>1. Holder(f) \in Conns /\ fdOf[Holder(f)] = f
    BY <1>1, HolderOpen
  <2> QED BY <1>1, <2>1, Positive DEF ServerInv, UniqueFds
<1>2. \A i \in Present : /\ Holder(logged_in[i].fd) \in Conns
                         /\ fdOf[Holder(logged_in[i].fd)] = logged_in[i].fd
  <2> SUFFICES ASSUME NEW i \in Present
               PROVE  /\ Holder(logged_in[i].fd) \in Conns
                      /\ fdOf[Holder(logged_in[i].fd)] = logged_in[i].fd
    OBVIOUS
  <2>1. \E c \in Conns : fdOf[c] = logged_in[i].fd
    BY DEF Present, ServerInv, OpenFds
  <2> QED BY <2>1, HolderOpen
<1>3. ConnsPresent = {c \in Conns : \E i \in Present : logged_in[i].fd = fdOf[c]}
  <2>1. \A i \in Present, c \in Conns :
            logged_in[i].fd = fdOf[c] => Holder(logged_in[i].fd) = c
    BY <1>1 DEF Present, ServerInv, TypeOK, UserRecords
  <2> QED BY <1>2, <2>1 DEF ConnsPresent
<1>4. ASSUME NEW c \in Conns, NEW i \in Present, logged_in[i].fd = fdOf[c]
      PROVE  PartnerOf(c) = IF logged_in[i].to > 0 THEN Holder(logged_in[i].to) ELSE NoOne
  <2>1. \A k \in Present : logged_in[k].fd = fdOf[c] => k = i
    BY <1>4 DEF Present, ServerInv, UniqueFds
  <2>2. (CHOOSE u \in {logged_in[k] : k \in Present} : u.fd = fdOf[c]) = logged_in[i]
    BY <1>4, <2>1
  <2>3. CASE logged_in[i].to > 0
    BY <1>4, <2>2, <2>3 DEF PartnerOf
  <2>4. CASE ~(logged_in[i].to > 0)
    BY <2>1, <2>4 DEF PartnerOf
  <2> QED BY <2>3, <2>4
<1>5. ASSUME NEW c \in Conns \ ConnsPresent PROVE PartnerOf(c) = NoOne
  BY <1>3 DEF PartnerOf
<1> QED BY <1>1, <1>3, <1>4, <1>5 DEF MappingInv

LEMMA InitTalk == Init => T!TalkInit
<1> SUFFICES ASSUME Init PROVE T!TalkInit
  OBVIOUS
<1>1. Present = {}
  BY DEF Init, Present, NoUser
<1>2. ConnsPresent = {} /\ \A c \in Conns : PartnerOf(c) = NoOne
  BY <1>1 DEF ConnsPresent, PartnerOf
<1> QED BY <1>2 DEF T!TalkInit, Init

(* What the mapping depends on.                                            *)
LEMMA SameTalk ==
    ASSUME UNCHANGED <<fdOf, logged_in, mail>>
    PROVE  UNCHANGED T!talkVars
BY DEF T!talkVars, ConnsPresent, PartnerOf, Present, Holder

LEMMA Mapped == ServerInv /\ [Next]_vars => MappingInv /\ MappingInv'
BY Mapping, StepServerInv, PTL

(* A partner, seen from the table.                                         *)
LEMMA PartnerHolder ==
    ASSUME ServerInv, NEW i \in Users, logged_in[i].to > 0
    PROVE  \E k \in Present : /\ logged_in[k].fd = logged_in[i].to
                              /\ fdOf[Holder(logged_in[i].to)] = logged_in[k].fd
                              /\ Holder(logged_in[i].to) \in Conns
BY PartnerOpen DEF ServerInv, PartnerLoggedIn

(* A step that leaves the pairs of users and connections alone.            *)
LEMMA SamePairs ==
    ASSUME ServerInv, MappingInv, MappingInv',
           Present' = Present,
           \A i \in Present : /\ logged_in'[i].fd = logged_in[i].fd
                              /\ \/ logged_in'[i].to = logged_in[i].to
                                 \/ ~(logged_in'[i].to > 0) /\ ~(logged_in[i].to > 0),
           \A c \in Conns, i \in Present :
               fdOf[c] = logged_in[i].fd <=> fdOf'[c] = logged_in[i].fd,
           mail' = mail
    PROVE  UNCHANGED T!talkVars
<1>1. ConnsPresent' = ConnsPresent
  BY DEF MappingInv
<1>2. ASSUME NEW c \in Conns PROVE PartnerOf(c)' = PartnerOf(c)
  <2>1. CASE c \notin ConnsPresent
    BY <1>1, <2>1 DEF MappingInv
  <2>2. CASE c \in ConnsPresent
    <3>1. PICK i \in Present : logged_in[i].fd = fdOf[c]
      BY <2>2 DEF MappingInv
    <3>2. /\ i \in Present' /\ logged_in'[i].fd = fdOf'[c]
          /\ i \in Users
      BY <3>1 DEF Present
    <3>3. PartnerOf(c) = IF logged_in[i].to > 0 THEN Holder(logged_in[i].to) ELSE NoOne
      BY <3>1 DEF MappingInv
    <3>4. PartnerOf(c)' = IF logged_in'[i].to > 0 THEN Holder(logged_in[i].to)' ELSE NoOne
      BY <3>2 DEF MappingInv
    <3>5. CASE ~(logged_in[i].to > 0)
      <4>1. ~(logged_in'[i].to > 0)
        BY <3>5
      <4> QED BY <3>3, <3>4, <3>5, <4>1
    <3>6. CASE logged_in[i].to > 0
      <4>1. PICK k \in Present, d \in Conns : /\ logged_in[k].fd = logged_in[i].to
                                             /\ fdOf[d] = logged_in[k].fd
                                             /\ d = Holder(logged_in[i].to)
        BY <3>2, <3>6, PartnerHolder
      <4>2. fdOf'[d] = logged_in[i].to /\ fdOf'[d] # 0
        BY <4>1 DEF Present
      <4>3. logged_in'[i].to = logged_in[i].to
        BY <3>6
      <4>4. Holder(logged_in[i].to)' = d
        <5>1. \A f \in Fds, e \in Conns : fdOf'[e] = f => Holder(f)' = e
          BY DEF MappingInv
        <5>2. logged_in'[i].to \in Fds
          BY <3>2, <3>6, <4>3, PartnerOpen
        <5>3. \A e \in Conns : fdOf'[e] = logged_in'[i].to => e = d
          BY <4>2, <4>3, <5>1, <5>2
        <5> QED BY <4>2, <4>3, <5>3 DEF Holder
      <4> QED BY <3>3, <3>4, <3>6, <4>1, <4>3, <4>4
    <3> QED BY <3>5, <3>6
  <2> QED BY <2>1, <2>2
<1> QED BY <1>1, <1>2 DEF T!talkVars

LEMMA AcceptTalk ==
    ASSUME ServerInv, MappingInv, MappingInv', NEW c \in Conns, Accept(c)
    PROVE  UNCHANGED T!talkVars
<1>1. PICK fd \in Fds :
        /\ \A d \in Conns : fdOf[d] # fd
        /\ fdOf' = [fdOf EXCEPT ![c] = fd]
        /\ \/ \E i \in Users : /\ logged_in[i] = NoUser
                               /\ logged_in' = [logged_in EXCEPT ![i].fd = fd]
           \/ logged_in' = logged_in
  BY AcceptFacts
<1>2. fdOf[c] = 0 /\ mail' = mail
  BY DEF Accept, ServerInv, OpenFds
<1>3. \A i \in Present : i \in Users /\ logged_in[i].fd # 0 /\ logged_in[i].named
  BY DEF Present
<1>4. Present' = Present /\ \A i \in Present : logged_in'[i] = logged_in[i]
  <2>1. CASE logged_in' = logged_in
    BY <2>1 DEF Present
  <2>2. ASSUME NEW i \in Users, logged_in[i] = NoUser,
               logged_in' = [logged_in EXCEPT ![i].fd = fd]
        PROVE  Present' = Present /\ \A k \in Present : logged_in'[k] = logged_in[k]
    <3>1. i \notin Present /\ ~logged_in'[i].named
      BY <2>2 DEF Present, NoUser, ServerInv, TypeOK
    <3>2. \A k \in Users : k # i => logged_in'[k] = logged_in[k]
      BY <2>2 DEF ServerInv, TypeOK
    <3> QED BY <3>1, <3>2 DEF Present
  <2> QED BY <1>1, <2>1, <2>2
<1>5. \A d \in Conns, i \in Present : fdOf[d] = logged_in[i].fd <=> fdOf'[d] = logged_in[i].fd
  <2>1. \A i \in Present : logged_in[i].fd # fd
    BY <1>1, <1>3 DEF ServerInv, OpenFds
  <2> QED BY <1>1, <1>2, <1>3, <2>1 DEF ServerInv, TypeOK
<1> QED BY <1>2, <1>4, <1>5, SamePairs

LEMMA SelectTalk ==
    ASSUME ServerInv, MappingInv, MappingInv', Select
    PROVE  UNCHANGED T!talkVars
<1> DEFINE asked == {i \in Present : logged_in[i].to = FD_UNASSIGNED}
<1>1. /\ logged_in' = [i \in Users |-> IF i \in asked
                                       THEN [logged_in[i] EXCEPT !.to = FD_AWAITING]
                                       ELSE logged_in[i]]
      /\ UNCHANGED <<fdOf, mail>>
  BY DEF Select, kernel
<1>2. \A u \in UserRecords : LET v == [u EXCEPT !.to = FD_AWAITING] IN
                                 v.fd = u.fd /\ v.to = -1 /\ v.named = u.named
  BY NewPartner DEF FD_AWAITING
<1>3. \A i \in Users : logged_in[i] \in UserRecords
  BY DEF ServerInv, TypeOK
<1>4. \A i \in Users :
        \/ /\ logged_in'[i].fd = logged_in[i].fd /\ logged_in'[i].named = logged_in[i].named
           /\ logged_in'[i].to = -1 /\ logged_in[i].to = 0
        \/ logged_in'[i] = logged_in[i]
  BY <1>1, <1>2, <1>3 DEF FD_UNASSIGNED
<1>5. Present' = Present
  BY <1>4 DEF Present
<1>6. \A i \in Present : /\ logged_in'[i].fd = logged_in[i].fd
                         /\ \/ logged_in'[i].to = logged_in[i].to
                            \/ ~(logged_in'[i].to > 0) /\ ~(logged_in[i].to > 0)
  BY <1>4 DEF Present
<1> QED BY <1>1, <1>5, <1>6, SamePairs

(* The table after remove_user, in terms of who is there.                  *)
LEMMA RemoveUserFacts ==
    ASSUME ServerInv, ToRead, RemoveUser
    PROVE  /\ \A c \in Conns : fdOf'[c] = IF c = Conn THEN 0 ELSE fdOf[c]
           /\ Present' = Present \ {at}
           /\ \A i \in Present \ {at} :
                 /\ logged_in'[i].fd = logged_in[i].fd
                 /\ logged_in'[i].to = IF logged_in[i].to = User.fd THEN 0
                                                                    ELSE logged_in[i].to
<1>1. fdOf \in [Conns -> {0} \union Fds] /\ logged_in \in [Users -> UserRecords]
  BY DEF ServerInv, TypeOK
<1>2. \A i \in Users :
        \/ i = at /\ logged_in'[i] = NoUser
        \/ /\ i # at /\ logged_in[i].to = User.fd
           /\ logged_in'[i] = [logged_in[i] EXCEPT !.to = FD_UNASSIGNED]
        \/ i # at /\ logged_in[i].to # User.fd /\ logged_in'[i] = logged_in[i]
  BY DEF RemoveUser
<1>3. \A u \in UserRecords : LET v == [u EXCEPT !.to = FD_UNASSIGNED] IN
                                 v.fd = u.fd /\ v.to = 0 /\ v.named = u.named
  BY NewPartner DEF FD_UNASSIGNED
<1>4. \A i \in Users : i # at =>
        /\ logged_in'[i].fd = logged_in[i].fd
        /\ logged_in'[i].named = logged_in[i].named
        /\ logged_in'[i].to = IF logged_in[i].to = User.fd THEN 0 ELSE logged_in[i].to
  <2> SUFFICES ASSUME NEW i \in Users, i # at
               PROVE  /\ logged_in'[i].fd = logged_in[i].fd
                      /\ logged_in'[i].named = logged_in[i].named
                      /\ logged_in'[i].to = IF logged_in[i].to = User.fd
                                            THEN 0 ELSE logged_in[i].to
    OBVIOUS
  <2>1. CASE logged_in[i].to = User.fd
    <3>1. logged_in[i] \in UserRecords
      BY <1>1
    <3>2. logged_in'[i] = [logged_in[i] EXCEPT !.to = FD_UNASSIGNED]
      BY <1>2, <2>1
    <3> QED BY <1>3, <2>1, <3>1, <3>2
  <2>2. CASE logged_in[i].to # User.fd
    BY <1>2, <2>2
  <2> QED BY <2>1, <2>2
<1>5. at \notin Present'
  <2>1. at \in Users /\ NoUser.fd = 0
    BY ReadUser DEF NoUser
  <2>2. logged_in'[at] = NoUser
    BY <1>2, <2>1
  <2> QED BY <2>1, <2>2 DEF Present
<1>6. Present' = Present \ {at}
  BY <1>4, <1>5 DEF Present
<1>7. \A c \in Conns : fdOf'[c] = IF c = Conn THEN 0 ELSE fdOf[c]
  BY <1>1 DEF RemoveUser
<1> QED BY <1>4, <1>6, <1>7 DEF Present

LEMMA RemoveUserTalk ==
    ASSUME ServerInv, MappingInv, MappingInv', ToRead, RemoveUser, mail' = mail
    PROVE  T!Leave(Conn) \/ UNCHANGED T!talkVars
<1>1. /\ at \in Users /\ User.fd \in Fds /\ User.fd # 0
      /\ Conn \in Conns /\ fdOf[Conn] = User.fd
  BY ReadUser
<1>2. /\ \A c \in Conns : fdOf'[c] = IF c = Conn THEN 0 ELSE fdOf[c]
      /\ Present' = Present \ {at}
      /\ \A i \in Present \ {at} :
            /\ logged_in'[i].fd = logged_in[i].fd
            /\ logged_in'[i].to = IF logged_in[i].to = User.fd THEN 0 ELSE logged_in[i].to
  BY RemoveUserFacts
<1>3. \A i \in Users : logged_in[i].fd = User.fd => i = at
  BY <1>1 DEF ServerInv, UniqueFds, User
<1>4. \A c \in Conns : fdOf[c] = User.fd => c = Conn
  BY <1>1 DEF ServerInv, UniqueFds
<1>5. \A i \in Present : i \in Users /\ logged_in[i].fd # 0
  BY DEF Present
<1>6. \A c \in Conns, i \in Present \ {at} :
          fdOf[c] = logged_in[i].fd <=> fdOf'[c] = logged_in[i].fd
  BY <1>1, <1>2, <1>3, <1>5
<1>7. CASE at \notin Present
  <2>1. \A i \in Present : logged_in[i].to # User.fd
    <3> SUFFICES ASSUME NEW i \in Present, logged_in[i].to = User.fd PROVE FALSE
      OBVIOUS
    <3>1. logged_in[i].to > 0
      BY <1>1, Positive
    <3>2. PICK k \in Present : logged_in[k].fd = User.fd
      BY <1>5, <3>1, PartnerHolder
    <3> QED BY <1>3, <1>5, <1>7, <3>2
  <2> QED BY <1>2, <1>6, <1>7, <2>1, SamePairs
<1>8. CASE at \in Present
  <2>1. Conn \in ConnsPresent
    BY <1>1, <1>8 DEF MappingInv, User
  <2>2. ConnsPresent' = ConnsPresent \ {Conn}
    <3>1. ConnsPresent = {c \in Conns : \E i \in Present : logged_in[i].fd = fdOf[c]}
      BY DEF MappingInv
    <3>2. ConnsPresent' = {c \in Conns : \E i \in Present' : logged_in'[i].fd = fdOf'[c]}
      BY DEF MappingInv
    <3>3. \A c \in Conns : c \in ConnsPresent' => c \in ConnsPresent /\ c # Conn
      BY <1>1, <1>2, <1>3, <1>5, <1>6, <3>1, <3>2
    <3>4. \A c \in Conns : c \in ConnsPresent /\ c # Conn => c \in ConnsPresent'
      <4> SUFFICES ASSUME NEW c \in Conns, c \in ConnsPresent, c # Conn
                   PROVE  c \in ConnsPresent'
        OBVIOUS
      <4>1. PICK i \in Present : logged_in[i].fd = fdOf[c]
        BY <3>1
      <4>2. i # at
        BY <1>4, <4>1 DEF User
      <4> QED BY <1>2, <1>6, <3>2, <4>1, <4>2
    <3> QED BY <3>1, <3>2, <3>3, <3>4
  <2>3. ASSUME NEW c \in Conns
        PROVE  PartnerOf(c)' = IF c = Conn \/ PartnerOf(c) = Conn THEN NoOne ELSE PartnerOf(c)
    <3>1. CASE c = Conn \/ c \notin ConnsPresent
      BY <2>2, <3>1 DEF MappingInv
    <3>2. CASE c # Conn /\ c \in ConnsPresent
      <4>1. PICK i \in Present : logged_in[i].fd = fdOf[c]
        BY <3>2 DEF MappingInv
      <4>2. /\ i # at /\ i \in Present' /\ i \in Users
            /\ logged_in'[i].fd = fdOf'[c]
        BY <1>2, <1>4, <1>5, <1>6, <3>2, <4>1 DEF User
      <4>3. /\ PartnerOf(c) = IF logged_in[i].to > 0 THEN Holder(logged_in[i].to) ELSE NoOne
            /\ PartnerOf(c)' = IF logged_in'[i].to > 0 THEN Holder(logged_in[i].to)' ELSE NoOne
        BY <4>1, <4>2 DEF MappingInv
      <4>4. CASE ~(logged_in[i].to > 0)
        <5>1. ~(logged_in'[i].to > 0)
          BY <1>2, <4>2, <4>4
        <5> QED BY <1>1, <3>2, <4>3, <4>4, <5>1, ConnsAssumption
      <4>5. CASE logged_in[i].to > 0
        <5>1. PICK k \in Present, d \in Conns : /\ logged_in[k].fd = logged_in[i].to
                                               /\ fdOf[d] = logged_in[k].fd
                                               /\ d = Holder(logged_in[i].to)
          BY <4>2, <4>5, PartnerHolder
        <5>2. PartnerOf(c) = d
          BY <4>3, <4>5, <5>1
        <5>3. CASE logged_in[i].to = User.fd
          <6>1. d = Conn
            BY <1>4, <5>1, <5>3
          <6>2. ~(logged_in'[i].to > 0)
            BY <1>2, <4>2, <5>3
          <6> QED BY <3>2, <4>3, <5>2, <6>1, <6>2
        <5>4. CASE logged_in[i].to # User.fd
          <6>1. d # Conn
            BY <1>1, <5>1, <5>4
          <6>2. logged_in'[i].to = logged_in[i].to /\ fdOf'[d] = logged_in'[i].to
            BY <1>2, <4>2, <5>1, <5>4, <6>1
          <6>3. logged_in'[i].to \in Fds
            BY <4>2, <4>5, <6>2, PartnerOpen
          <6>4. \A f \in Fds, e \in Conns : fdOf'[e] = f => Holder(f)' = e
            BY DEF MappingInv
          <6>5. \A e \in Conns : fdOf'[e] = logged_in'[i].to => e = d
            BY <6>2, <6>3, <6>4
          <6>6. Holder(logged_in[i].to)' = d
            BY <6>2, <6>5 DEF Holder
          <6> QED BY <3>2, <4>3, <4>5, <5>2, <6>1, <6>2, <6>6
        <5> QED BY <5>3, <5>4
      <4> QED BY <4>4, <4>5
    <3> QED BY <3>1, <3>2
  <2> QED BY <2>1, <2>2, <2>3 DEF T!Leave
<1> QED BY <1>7, <1>8

LEMMA ReadNameTalk ==
    ASSUME ServerInv, MappingInv, MappingInv', ReadName
    PROVE  T!Login(Conn)
<1>1. /\ ToRead /\ ~User.named
      /\ logged_in' = [logged_in EXCEPT ![at].named = TRUE]
      /\ UNCHANGED <<fdOf, mail>>
  BY DEF ReadName, kernel
<1>2. /\ at \in Users /\ User.fd # 0
      /\ Conn \in Conns /\ fdOf[Conn] = User.fd
  BY <1>1, ReadUser
<1>3. \A i \in Users : logged_in[i] \in UserRecords
  BY DEF ServerInv, TypeOK
<1>4. /\ logged_in'[at].named /\ ~(logged_in[at].to > 0)
      /\ \A i \in Users : i # at => logged_in'[i] = logged_in[i]
      /\ \A i \in Users : /\ logged_in'[i].fd = logged_in[i].fd
                          /\ logged_in'[i].to = logged_in[i].to
  <2>1. logged_in[at].to <= 0 /\ logged_in[at].to \in Int
    BY <1>1, <1>2, <1>3, Positive
       DEF ServerInv, CleanSlots, User, UserRecords, FD_UNASSIGNED, FD_AWAITING
  <2> QED BY <1>1, <1>2, <1>3, <2>1 DEF UserRecords, ServerInv, TypeOK
<1>5. Present' = Present \union {at} /\ at \notin Present
  BY <1>1, <1>2, <1>4 DEF Present, User
<1>6. \A c \in Conns, i \in Users : fdOf[c] = logged_in[i].fd /\ fdOf[c] # 0 =>
          (c = Conn <=> i = at)
  BY <1>2 DEF ServerInv, UniqueFds, User
<1>7. /\ ConnsPresent = {c \in Conns : \E i \in Present : logged_in[i].fd = fdOf[c]}
      /\ ConnsPresent' = {c \in Conns : \E i \in Present' : logged_in'[i].fd = fdOf'[c]}
  BY DEF MappingInv
<1>8. Conn \notin ConnsPresent
  BY <1>2, <1>5, <1>6, <1>7 DEF Present
<1>9. ConnsPresent' = ConnsPresent \union {Conn}
  <2>1. Conn \in ConnsPresent'
    BY <1>1, <1>2, <1>4, <1>5, <1>7 DEF User
  <2>2. \A c \in Conns : c \in ConnsPresent => c \in ConnsPresent'
    BY <1>1, <1>4, <1>5, <1>7 DEF Present
  <2>3. \A c \in Conns : c \in ConnsPresent' => c \in ConnsPresent \/ c = Conn
    BY <1>1, <1>2, <1>4, <1>5, <1>6, <1>7 DEF Present, User
  <2> QED BY <1>2, <1>7, <2>1, <2>2, <2>3
<1>10. ASSUME NEW c \in Conns PROVE PartnerOf(c)' = PartnerOf(c)
  <2>1. CASE c \notin ConnsPresent'
    BY <1>9, <2>1 DEF MappingInv
  <2>2. CASE c = Conn
    <3>1. PartnerOf(c)' = NoOne
      BY <1>1, <1>2, <1>4, <1>5, <2>2 DEF MappingInv, User
    <3> QED BY <1>8, <2>2, <3>1 DEF MappingInv
  <2>3. CASE c \in ConnsPresent
    <3>1. PICK i \in Present : logged_in[i].fd = fdOf[c]
      BY <1>7, <2>3
    <3>2. /\ i \in Present' /\ logged_in'[i].fd = fdOf'[c]
          /\ logged_in'[i].to = logged_in[i].to
      BY <1>1, <1>4, <1>5, <3>1 DEF Present
    <3>3. PartnerOf(c) = IF logged_in[i].to > 0 THEN Holder(logged_in[i].to) ELSE NoOne
      BY <3>1 DEF MappingInv
    <3>4. PartnerOf(c)' = IF logged_in'[i].to > 0 THEN Holder(logged_in[i].to)' ELSE NoOne
      BY <3>2 DEF MappingInv
    <3>5. Holder(logged_in[i].to)' = Holder(logged_in[i].to)
      BY <1>1, <3>2 DEF Holder
    <3> QED BY <3>2, <3>3, <3>4, <3>5
  <2> QED BY <1>9, <2>1, <2>2, <2>3
<1> QED BY <1>1, <1>8, <1>9, <1>10 DEF T!Login

LEMMA PickPartnerTalk ==
    ASSUME ServerInv, MappingInv, MappingInv', NEW new_to \in Users, PickPartner(new_to)
    PROVE  T!Pick(Conn, Holder(logged_in[new_to].fd))
<1> DEFINE d == Holder(logged_in[new_to].fd)
<1>1. /\ ToRead /\ User.named /\ User.to = FD_AWAITING /\ new_to \in Present
      /\ logged_in' = [logged_in EXCEPT ![at].to = logged_in[new_to].fd]
      /\ UNCHANGED <<fdOf, mail>>
  BY DEF PickPartner, kernel
<1>2. /\ at \in Users /\ User.fd # 0
      /\ Conn \in Conns /\ fdOf[Conn] = User.fd
  BY <1>1, ReadUser
<1>3. \A i \in Users : logged_in[i] \in UserRecords
  BY DEF ServerInv, TypeOK
<1>4. /\ logged_in'[at].to = logged_in[new_to].fd
      /\ \A i \in Users : i # at => logged_in'[i] = logged_in[i]
      /\ \A i \in Users : /\ logged_in'[i].fd = logged_in[i].fd
                          /\ logged_in'[i].named = logged_in[i].named
  BY <1>1, <1>2, <1>3 DEF UserRecords, ServerInv, TypeOK
<1>5. Present' = Present /\ at \in Present
  BY <1>1, <1>2, <1>4 DEF Present, User
<1>6. /\ ConnsPresent = {c \in Conns : \E i \in Present : logged_in[i].fd = fdOf[c]}
      /\ ConnsPresent' = {c \in Conns : \E i \in Present' : logged_in'[i].fd = fdOf'[c]}
  BY DEF MappingInv
<1>7. ConnsPresent' = ConnsPresent
  BY <1>1, <1>4, <1>5, <1>6 DEF Present
<1>8. Conn \in ConnsPresent /\ d \in ConnsPresent
  BY <1>1, <1>2, <1>5, <1>6 DEF User, ConnsPresent
<1>9. logged_in[new_to].fd > 0
  BY <1>1, <1>3, Positive DEF Present, UserRecords
<1>10. PartnerOf(Conn) = NoOne
  <2>1. ~(logged_in[at].to > 0)
    BY <1>1 DEF User, FD_AWAITING
  <2> QED BY <1>2, <1>5, <2>1 DEF MappingInv, User
<1>11. ASSUME NEW c \in Conns
       PROVE  PartnerOf(c)' = IF c = Conn THEN d ELSE PartnerOf(c)
  <2>1. CASE c \notin ConnsPresent
    BY <1>7, <1>8, <2>1 DEF MappingInv
  <2>2. CASE c \in ConnsPresent
    <3>1. PICK i \in Present : logged_in[i].fd = fdOf[c]
      BY <1>6, <2>2
    <3>2. i \in Users /\ i \in Present' /\ logged_in'[i].fd = fdOf'[c]
      BY <1>1, <1>4, <1>5, <3>1 DEF Present
    <3>3. PartnerOf(c) = IF logged_in[i].to > 0 THEN Holder(logged_in[i].to) ELSE NoOne
      BY <3>1 DEF MappingInv
    <3>4. PartnerOf(c)' = IF logged_in'[i].to > 0 THEN Holder(logged_in[i].to)' ELSE NoOne
      BY <3>2 DEF MappingInv
    <3>5. CASE c = Conn
      <4>1. i = at
        BY <1>2, <3>1, <3>2, <3>5 DEF ServerInv, UniqueFds, User
      <4>2. logged_in'[i].to = logged_in[new_to].fd
        BY <1>4, <4>1
      <4>3. Holder(logged_in[i].to)' = d
        BY <1>1, <4>2 DEF Holder
      <4> QED BY <1>9, <3>4, <3>5, <4>2, <4>3
    <3>6. CASE c # Conn
      <4>1. i # at
        BY <1>2, <3>1, <3>6 DEF ServerInv, UniqueFds, User
      <4>2. logged_in'[i].to = logged_in[i].to
        BY <1>4, <3>2, <4>1
      <4>3. Holder(logged_in[i].to)' = Holder(logged_in[i].to)
        BY <1>1, <4>2 DEF Holder
      <4> QED BY <3>3, <3>4, <3>6, <4>2, <4>3
    <3> QED BY <3>5, <3>6
  <2> QED BY <2>1, <2>2
<1>12. d \in Conns
  BY <1>6, <1>8
<1> QED BY <1>1, <1>7, <1>8, <1>10, <1>11, <1>12, <1>2 DEF T!Pick

LEMMA ForwardTalk ==
    ASSUME ServerInv, MappingInv, Forward
    PROVE  T!Say(Conn) \/ UNCHANGED T!talkVars
<1> DEFINE d == Holder(User.to)
<1>1. /\ ToRead /\ User.named /\ User.to > 0
      /\ mail' = <<Conn, d>> \/ mail' = mail
      /\ UNCHANGED <<fdOf, logged_in>>
  BY DEF Forward, kernel
<1>2. CASE mail' = mail
  BY <1>1, <1>2, SameTalk
<1>3. CASE mail' = <<Conn, d>>
  <2>1. /\ at \in Users /\ User.fd # 0
        /\ Conn \in Conns /\ fdOf[Conn] = User.fd
    BY <1>1, ReadUser
  <2>2. at \in Present
    BY <1>1, <2>1 DEF Present, User
  <2>3. PartnerOf(Conn) = d
    BY <1>1, <2>1, <2>2 DEF MappingInv, User
  <2>4. d \in Conns
    BY <1>1, <2>1, PartnerOpen DEF User
  <2>5. UNCHANGED <<ConnsPresent, [c \in Conns |-> PartnerOf(c)]>>
    BY <1>1 DEF ConnsPresent, PartnerOf, Present, Holder
  <2> QED BY <1>3, <2>1, <2>3, <2>4, <2>5, ConnsAssumption DEF T!Say
<1> QED BY <1>1, <1>2, <1>3

LEMMA TalkStep == ServerInv /\ [Next]_vars => [T!TalkNext]_(T!talkVars)
<1> SUFFICES ASSUME ServerInv, [Next]_vars PROVE T!TalkNext \/ UNCHANGED T!talkVars
  OBVIOUS
<1>0. MappingInv /\ MappingInv'
  BY Mapped
<1>1. CASE Leave \/ PickNobody
  <2>1. ToRead /\ RemoveUser /\ mail' = mail
    BY <1>1 DEF Leave, PickNobody
  <2>2. Conn \in Conns
    BY <2>1, ReadUser
  <2> QED BY <1>0, <2>1, <2>2, RemoveUserTalk DEF T!TalkNext
<1>2. CASE ReadName
  <2>1. Conn \in Conns
    BY <1>2, ReadUser DEF ReadName
  <2> QED BY <1>0, <1>2, <2>1, ReadNameTalk DEF T!TalkNext
<1>3. ASSUME NEW new_to \in Users, PickPartner(new_to) PROVE T!TalkNext
  <2>1. Conn \in Conns
    BY <1>3, ReadUser DEF PickPartner
  <2>2. Holder(logged_in[new_to].fd) \in Conns
    <3>1. logged_in[new_to].fd # 0
      BY <1>3 DEF PickPartner, Present
    <3>2. \E c \in Conns : fdOf[c] = logged_in[new_to].fd
      BY <3>1 DEF ServerInv, OpenFds
    <3> QED BY <3>2, HolderOpen
  <2> QED BY <1>0, <1>3, <2>1, <2>2, PickPartnerTalk DEF T!TalkNext
<1>4. CASE Forward
  <2>1. Conn \in Conns
    BY <1>4, ReadUser DEF Forward
  <2> QED BY <1>0, <1>4, <2>1, ForwardTalk DEF T!TalkNext
<1>5. CASE Clients \/ AcceptTimeout \/ AlarmEarly \/ Skip \/ Menus \/ Fatal \/ UNCHANGED vars
  <2>1. UNCHANGED <<fdOf, logged_in, mail>>
    BY <1>5 DEF Clients, Connect, Type, HangUp, AcceptTimeout, AlarmEarly, Skip, Menus, Fatal,
                vars, kernel
  <2> QED BY <2>1, SameTalk
<1> QED
  BY <1>0, <1>1, <1>2, <1>3, <1>4, <1>5, AcceptTalk, SelectTalk DEF Next, Server, Dead

(* What the server keeps in descriptors is a chat between connections: the *)
(* table, the reuse of descriptors and the rounds do not show.             *)
THEOREM ImplementsTalk == Spec => IsTalk
BY ServerInvariance, InitTalk, TalkStep, PTL DEF Spec, IsTalk, T!TalkSpec

(* A chat of this kind, for any set of connections.                        *)
LEMMA TalkTypes == T!TalkSpec => []T!TalkTypeOK
<1>1. T!TalkInit => T!TalkTypeOK
  BY DEF T!TalkInit, T!TalkTypeOK
<1>2. T!TalkTypeOK /\ [T!TalkNext]_(T!talkVars) => (T!TalkTypeOK)'
  <2> SUFFICES ASSUME T!TalkTypeOK, [T!TalkNext]_(T!talkVars) PROVE (T!TalkTypeOK)'
    OBVIOUS
  <2>1. ASSUME NEW c \in Conns, T!Login(c) PROVE (T!TalkTypeOK)'
    BY <2>1 DEF T!TalkTypeOK, T!Login
  <2>2. ASSUME NEW c \in Conns, T!Say(c) PROVE (T!TalkTypeOK)'
    <3>1. PartnerOf(c) \in Conns
      BY <2>2 DEF T!TalkTypeOK, T!Say
    <3> QED
      BY <2>2, <3>1 DEF T!TalkTypeOK, T!Say
  <2>3. ASSUME NEW c \in Conns, T!Leave(c) PROVE (T!TalkTypeOK)'
    BY <2>3 DEF T!TalkTypeOK, T!Leave
  <2>4. ASSUME NEW c \in Conns, NEW d \in Conns, T!Pick(c, d) PROVE (T!TalkTypeOK)'
    BY <2>4 DEF T!TalkTypeOK, T!Pick
  <2>5. CASE UNCHANGED T!talkVars
    BY <2>5 DEF T!TalkTypeOK, T!talkVars
  <2> QED
    BY <2>1, <2>2, <2>3, <2>4, <2>5 DEF T!TalkNext
<1> QED
  BY <1>1, <1>2, PTL DEF T!TalkSpec

(* In such a chat nobody talks to one that has left, and nobody who has    *)
(* left talks: remove_user of server_main.c resets both directions.        *)
THEOREM TalkPartners == T!TalkSpec => []T!PartnersPresent
<1>1. T!TalkInit => T!PartnersPresent
  BY DEF T!TalkInit, T!PartnersPresent
<1>2. T!TalkTypeOK /\ T!PartnersPresent /\ [T!TalkNext]_(T!talkVars) => (T!PartnersPresent)'
  <2> SUFFICES ASSUME T!TalkTypeOK, T!PartnersPresent, [T!TalkNext]_(T!talkVars),
                      NEW e \in Conns, PartnerOf(e)' # NoOne
               PROVE  {e, PartnerOf(e)'} \subseteq ConnsPresent'
    BY DEF T!PartnersPresent
  <2>1. ASSUME NEW c \in Conns, T!Login(c) PROVE {e, PartnerOf(e)'} \subseteq ConnsPresent'
    BY <2>1 DEF T!PartnersPresent, T!Login
  <2>2. ASSUME NEW c \in Conns, T!Say(c) PROVE {e, PartnerOf(e)'} \subseteq ConnsPresent'
    BY <2>2 DEF T!PartnersPresent, T!Say
  <2>3. ASSUME NEW c \in Conns, T!Leave(c) PROVE {e, PartnerOf(e)'} \subseteq ConnsPresent'
    <3>1. e # c /\ PartnerOf(e) # c /\ PartnerOf(e)' = PartnerOf(e)
      BY <2>3 DEF T!Leave
    <3>2. {e, PartnerOf(e)} \subseteq ConnsPresent
      BY <3>1 DEF T!PartnersPresent
    <3> QED
      BY <2>3, <3>1, <3>2 DEF T!Leave
  <2>4. ASSUME NEW c \in Conns, NEW d \in Conns, T!Pick(c, d)
        PROVE  {e, PartnerOf(e)'} \subseteq ConnsPresent'
    <3>1. {c, d} \subseteq ConnsPresent /\ ConnsPresent' = ConnsPresent
      BY <2>4 DEF T!Pick
    <3>2. PartnerOf(e)' = IF e = c THEN d ELSE PartnerOf(e)
      BY <2>4 DEF T!Pick
    <3>3. PartnerOf(e) # NoOne => {e, PartnerOf(e)} \subseteq ConnsPresent
      BY DEF T!PartnersPresent
    <3> QED BY <3>1, <3>2, <3>3
  <2>5. CASE UNCHANGED T!talkVars
    BY <2>5 DEF T!PartnersPresent, T!talkVars
  <2> QED
    BY <2>1, <2>2, <2>3, <2>4, <2>5 DEF T!TalkNext
<1> QED
  BY <1>1, <1>2, TalkTypes, PTL DEF T!TalkSpec

(* So nobody talks through the server to a connection that has left it,    *)
(* although the descriptor of that connection may be another client's now. *)
COROLLARY ServerPartners == Spec => []T!PartnersPresent
BY ImplementsTalk, TalkPartners, PTL DEF IsTalk

-----------------------------------------------------------------------------
(* select reaches every user.  As long as every open descriptor is in the  *)
(* table, a free slot means that fewer than Slots descriptors are open, so *)
(* the lowest that is free is below FirstFd + Slots.                       *)
NothingLost ==
    {fdOf[c] : c \in Conns} \subseteq {0} \union {logged_in[i].fd : i \in Users}

LowFds == NothingLost => \A i \in Users : logged_in[i].fd < FirstFd + Slots

LEMMA LowestIsLow ==
    ASSUME ServerInv, NothingLost, NEW free \in Users, logged_in[free].fd = 0,
           NEW fd \in Lowest(Fds \ {fdOf[c] : c \in Conns})
    PROVE  fd < FirstFd + Slots
<1> DEFINE Low == FirstFd .. FirstFd + Slots - 1
           Taken == Users \ {free}
           slot == [f \in Low |-> CHOOSE i \in Users : logged_in[i].fd = f]
<1> SUFFICES ASSUME ~(fd < FirstFd + Slots) PROVE FALSE
  OBVIOUS
<1>1. /\ fd \in Fds /\ fd \in Int
      /\ \A f \in Fds : f < fd => f \in {fdOf[c] : c \in Conns}
  <2>1. fd \in Fds /\ \A f \in Fds \ {fdOf[c] : c \in Conns} : fd <= f
    BY DEF Lowest
  <2> QED BY <2>1, Positive
<1>2. \A f \in Low : \E i \in Users : logged_in[i].fd = f
  <2>1. Low \subseteq Fds /\ \A f \in Low : f < fd /\ f # 0
    BY <1>1, SlotsAssumption, ConnsAssumption, FS_CardinalityType DEF Fds, FirstFd
  <2> QED BY <1>1, <2>1 DEF NothingLost
<1>3. slot \in [Low -> Taken]
  <2> SUFFICES ASSUME NEW f \in Low PROVE slot[f] \in Taken
    OBVIOUS
  <2>1. slot[f] \in Users /\ logged_in[slot[f]].fd = f
    BY <1>2
  <2>2. f # 0
    BY SlotsAssumption DEF FirstFd
  <2> QED BY <2>1, <2>2
<1>4. \A f, g \in Low : slot[f] = slot[g] => f = g
  BY <1>2
<1>5. IsFiniteSet(Low) /\ Cardinality(Low) = Slots
  BY SlotsAssumption, FS_Interval DEF FirstFd
<1>6. IsFiniteSet(Taken) /\ Cardinality(Taken) < Cardinality(Low)
  <2>1. IsFiniteSet(Users) /\ Cardinality(Users) = Slots
    <3>1. Slots - 1 \in Int /\ 0 \in Int /\ 0 <= Slots - 1 /\ ((Slots - 1) - 0) + 1 = Slots
      BY SlotsAssumption
    <3>2. IsFiniteSet(0 .. Slots - 1) /\ Cardinality(0 .. Slots - 1) = ((Slots - 1) - 0) + 1
      BY ONLY <3>1, FS_Interval
    <3> QED BY <3>1, <3>2 DEF Users
  <2>2. IsFiniteSet(Taken) /\ Cardinality(Taken) = Slots - 1
    BY <2>1, FS_RemoveElement
  <2> QED BY <1>5, <2>2, SlotsAssumption
<1> HIDE DEF slot, Low, Taken
<1> QED BY <1>3, <1>4, <1>5, <1>6, FS_PigeonHole

LEMMA InitLow == Init => LowFds
BY SlotsAssumption DEF Init, LowFds, NoUser, FirstFd

LEMMA AcceptLow ==
    ASSUME ServerInv, LowFds, NEW c \in Conns, Accept(c), NothingLost'
    PROVE  \A i \in Users : logged_in'[i].fd < FirstFd + Slots
<1>1. PICK fd \in Lowest(Fds \ {fdOf[d] : d \in Conns}) :
        /\ fdOf' = [fdOf EXCEPT ![c] = fd]
        /\ \/ \E i \in Lowest({k \in Users : logged_in[k].fd = 0}) :
                  logged_in' = [logged_in EXCEPT ![i].fd = fd]
           \/ UNCHANGED logged_in
  BY DEF Accept
<1>2. /\ fd \in Fds /\ fd # 0 /\ \A d \in Conns : fdOf[d] # fd
      /\ fdOf \in [Conns -> {0} \union Fds] /\ logged_in \in [Users -> UserRecords]
      /\ fdOf'[c] = fd /\ fdOf[c] = 0
      /\ \A d \in Conns : d # c => fdOf'[d] = fdOf[d]
  BY <1>1, Positive DEF Lowest, ServerInv, TypeOK, OpenFds, Accept
<1>3. \A i \in Users : logged_in[i].fd # fd
  BY <1>2 DEF ServerInv, OpenFds
<1>4. PICK i \in Lowest({k \in Users : logged_in[k].fd = 0}) :
          logged_in' = [logged_in EXCEPT ![i].fd = fd]
  <2>1. \E k \in Users : logged_in'[k].fd = fd
    BY <1>2 DEF NothingLost
  <2> QED BY <1>1, <1>3, <2>1
<1>5. i \in Users /\ logged_in[i].fd = 0
  BY DEF Lowest
<1>6. /\ logged_in'[i].fd = fd
      /\ \A k \in Users : k # i => logged_in'[k] = logged_in[k]
  BY <1>2, <1>4, <1>5 DEF UserRecords
<1>7. NothingLost
  <2> SUFFICES ASSUME NEW d \in Conns
               PROVE  fdOf[d] \in {0} \union {logged_in[k].fd : k \in Users}
    BY DEF NothingLost
  <2>1. CASE d = c
    BY <1>2, <2>1
  <2>2. CASE d # c
    <3>1. fdOf'[d] \in {0} \union {logged_in'[k].fd : k \in Users}
      BY DEF NothingLost
    <3> QED BY <1>2, <1>6, <2>2, <3>1
  <2> QED BY <2>1, <2>2
<1>8. fd < FirstFd + Slots
  BY <1>5, <1>7, LowestIsLow
<1> QED BY <1>6, <1>7, <1>8 DEF LowFds

LEMMA LowStep == ServerInv /\ LowFds /\ [Next]_vars => LowFds'
<1> SUFFICES ASSUME ServerInv, LowFds, [Next]_vars, NothingLost'
             PROVE  \A i \in Users : logged_in'[i].fd < FirstFd + Slots
  BY DEF LowFds
<1>1. ASSUME UNCHANGED fdOf, \A i \in Users : logged_in'[i].fd = logged_in[i].fd
      PROVE  \A i \in Users : logged_in'[i].fd < FirstFd + Slots
  BY <1>1 DEF LowFds, NothingLost
<1>2. \A u \in UserRecords : [u EXCEPT !.to = FD_AWAITING].fd = u.fd
  BY NewPartner
<1>3. logged_in \in [Users -> UserRecords] /\ fdOf \in [Conns -> {0} \union Fds]
  BY DEF ServerInv, TypeOK
<1>4. CASE Select
  <2>1. /\ UNCHANGED fdOf
        /\ \A i \in Users : \/ logged_in'[i] = [logged_in[i] EXCEPT !.to = FD_AWAITING]
                            \/ logged_in'[i] = logged_in[i]
    BY <1>4 DEF Select, kernel
  <2>2. \A i \in Users : logged_in'[i].fd = logged_in[i].fd
    BY <1>2, <1>3, <2>1
  <2> QED BY <1>1, <2>1, <2>2
<1>5. CASE ReadName
  <2>1. UNCHANGED fdOf /\ logged_in' = [logged_in EXCEPT ![at].named = TRUE]
    BY <1>5 DEF ReadName, kernel
  <2>2. \A i \in Users : logged_in'[i].fd = logged_in[i].fd
    BY <1>3, <2>1 DEF UserRecords
  <2> QED BY <1>1, <2>1, <2>2
<1>6. ASSUME NEW new_to \in Users, PickPartner(new_to)
      PROVE  \A i \in Users : logged_in'[i].fd < FirstFd + Slots
  <2>1. UNCHANGED fdOf /\ logged_in' = [logged_in EXCEPT ![at].to = logged_in[new_to].fd]
    BY <1>6 DEF PickPartner, kernel
  <2>2. \A i \in Users : logged_in'[i].fd = logged_in[i].fd
    BY <1>3, <2>1 DEF UserRecords
  <2> QED BY <1>1, <2>1, <2>2
<1>7. CASE Leave \/ PickNobody
  <2>1. ToRead /\ RemoveUser
    BY <1>7 DEF Leave, PickNobody
  <2>2. /\ at \in Users /\ User.fd # 0
        /\ Conn \in Conns /\ fdOf[Conn] = User.fd
    BY <2>1, ReadUser
  <2>3. \A i \in Users : logged_in'[i].fd = IF i = at THEN 0 ELSE logged_in[i].fd
    <3>1. \A i \in Users : \/ i = at /\ logged_in'[i] = NoUser
                           \/ i # at /\ \/ logged_in'[i] = [logged_in[i] EXCEPT !.to = FD_UNASSIGNED]
                                        \/ logged_in'[i] = logged_in[i]
      BY <2>1 DEF RemoveUser
    <3>2. \A u \in UserRecords : [u EXCEPT !.to = FD_UNASSIGNED].fd = u.fd
      BY NewPartner
    <3>3. \A i \in Users : logged_in[i] \in UserRecords
      BY <1>3
    <3>4. NoUser.fd = 0
      BY DEF NoUser
    <3>5. \A i \in Users : i # at => logged_in'[i].fd = logged_in[i].fd
      BY <3>1, <3>2, <3>3
    <3>6. \A i \in Users : i = at => logged_in'[i].fd = 0
      BY <3>1, <3>4
    <3> QED BY <3>5, <3>6
  <2>4. \A c \in Conns : c # Conn => fdOf'[c] = fdOf[c]
    BY <1>3, <2>1 DEF RemoveUser
  <2>5. NothingLost
    <3> SUFFICES ASSUME NEW c \in Conns
                 PROVE  fdOf[c] \in {0} \union {logged_in[k].fd : k \in Users}
      BY DEF NothingLost
    <3>1. CASE c = Conn
      BY <2>2, <3>1 DEF User
    <3>2. CASE c # Conn
      <4>1. fdOf'[c] \in {0} \union {logged_in'[k].fd : k \in Users}
        BY DEF NothingLost
      <4> QED BY <2>3, <2>4, <3>2, <4>1
    <3> QED BY <3>1, <3>2
  <2> QED BY <2>3, <2>5, SlotsAssumption DEF LowFds, FirstFd
<1>8. CASE Clients \/ AcceptTimeout \/ AlarmEarly \/ Forward \/ Skip \/ Menus \/ Fatal \/ UNCHANGED vars
  <2>1. UNCHANGED <<fdOf, logged_in>>
    BY <1>8 DEF Clients, Connect, Type, HangUp, AcceptTimeout, AlarmEarly, Forward, Skip, Menus,
                Fatal, vars, kernel
  <2> QED BY <1>1, <2>1
<1> QED
  BY <1>4, <1>5, <1>6, <1>7, <1>8, AcceptLow DEF Next, Server, Dead

(* 20 descriptors are enough for 16 slots while no connection was lost to  *)
(* a full table.                                                           *)
THEOREM EveryUserSelected == Spec => []AllSelected
<1>1. TypeOK /\ LowFds => AllSelected
  <2> SUFFICES ASSUME TypeOK, LowFds, NothingLost
               PROVE  \A i \in Users : logged_in[i].fd < NFds
    BY DEF AllSelected, NothingLost, Selected
  <2> SUFFICES ASSUME NEW i \in Users PROVE logged_in[i].fd < NFds
    OBVIOUS
  <2>1. logged_in[i].fd \in Int
    BY Positive DEF TypeOK, UserRecords
  <2> QED BY <2>1, SelectAssumption, SlotsAssumption, NFdsAssumption DEF LowFds, FirstFd
<1>2. ServerInv => TypeOK
  BY DEF ServerInv
<1> QED BY <1>1, <1>2, ServerInvariance, InitLow, LowStep, PTL DEF Spec

-----------------------------------------------------------------------------
(* The child and the alarm: what the server has sent is in the socket, in  *)
(* the child's hand or on the terminal; a child that left had seen the end.*)
ChildInv ==
  /\ sent = inbox + held + printed
  /\ child \in {"read", "gone", "starts", "none"} => held = 0
  /\ child = "gone" => conn # "open" /\ inbox = 0
  /\ timer = "armed" \/ child = "starts" => printed = 0

(* The types of the histories, which ClientTypeOK leaves open. *)
ClientInv ==
  /\ ClientTypeOK
  /\ typed \in Seq({"newline", "other", "end"})
  /\ buff \in Seq(Nat)
  /\ ChildInv

LEMMA ClientStarts == ClientInit => ClientInv
  BY ClientAssumption DEF ClientInit, ClientInv, ClientTypeOK, ChildInv

-----------------------------------------------------------------------------
(* The parent's steps keep the child's part and the other way round.       *)

LEMMA ReadCharacterKeeps ==
  ASSUME ClientInv, NEW c \in {"newline", "other"}, ReadCharacter(c)
  PROVE  ClientInv'
<1>1. typed' \in Seq({"newline", "other", "end"}) /\ Len(typed') \in Nat
  BY DEF ReadCharacter, ClientInv
<1>2. buff' \in Seq(Nat) /\ Len(buff') < N
  <2>1. CASE Len(buff) < N - 1
    <3>1. buff' = Append(buff, Len(typed')) /\ Len(buff) \in Nat
      BY <2>1 DEF ReadCharacter, ClientInv
    <3> QED BY <1>1, <2>1, <3>1, ClientAssumption DEF ClientInv
  <2>2. CASE ~(Len(buff) < N - 1)
    BY <2>2 DEF ReadCharacter, ClientInv, ClientTypeOK
  <2> QED BY <2>1, <2>2
<1>3. parent' \in {"typing", "send"} /\ UNCHANGED <<conn, inbox, sent, childVars>>
  BY DEF ReadCharacter
<1> QED BY <1>1, <1>2, <1>3 DEF ClientInv, ClientTypeOK, ChildInv, childVars

LEMMA ReadInputEndKeeps == ASSUME ClientInv, ReadInputEnd PROVE ClientInv'
<1>1. typed' \in Seq({"newline", "other", "end"})
  BY DEF ReadInputEnd, ClientInv
<1>2. parent' \in {"gone", "send"} /\ UNCHANGED <<conn, inbox, sent, childVars, buff>>
  BY DEF ReadInputEnd
<1> QED BY <1>1, <1>2 DEF ClientInv, ClientTypeOK, ChildInv, childVars

LEMMA ParentKeeps == ASSUME ClientInv, Parent PROVE ClientInv'
<1>1. CASE Send
  <2>1. conn' = conn \/ (conn # "open" /\ conn' \in {"closed", "broken"})
    BY <1>1 DEF Send
  <2>2. parent' \in {"wait", "gone"} /\ UNCHANGED <<inbox, sent, childVars, typed, buff>>
    BY <1>1 DEF Send
  <2> QED BY <2>1, <2>2 DEF ClientInv, ClientTypeOK, ChildInv, childVars
<1>2. CASE Wait
  <2>1. /\ parent' \in {"gone", "typing"} /\ buff' = <<>>
        /\ UNCHANGED <<conn, inbox, sent, childVars, typed>>
    BY <1>2 DEF Wait
  <2> QED BY <2>1, ClientAssumption DEF ClientInv, ClientTypeOK, ChildInv, childVars
<1> QED BY <1>1, <1>2 DEF Parent

LEMMA ChildKeeps == ASSUME ClientInv, Child PROVE ClientInv'
<1>1. CASE SetTimer
  BY <1>1 DEF SetTimer, ClientInv, ClientTypeOK, ChildInv, parentVars
<1>2. CASE Read
  BY <1>2, ClientAssumption DEF Read, ClientInv, ClientTypeOK, ChildInv, parentVars
<1>3. CASE PrintHeld
  BY <1>3, ClientAssumption DEF PrintHeld, ClientInv, ClientTypeOK, ChildInv, parentVars
<1>4. CASE ReadEnd
  BY <1>4 DEF ReadEnd, ClientInv, ClientTypeOK, ChildInv, parentVars
<1>5. CASE ReadReset
  BY <1>5 DEF ReadReset, ClientInv, ClientTypeOK, ChildInv, parentVars
<1> QED BY <1>1, <1>2, <1>3, <1>4, <1>5 DEF Child

LEMMA ServerKeeps == ASSUME ClientInv, ServerSends \/ ServerEnds PROVE ClientInv'
  BY DEF ServerSends, ServerEnds, ClientInv, ClientTypeOK, ChildInv, childVars, parentVars

LEMMA AlarmKeeps == ASSUME ClientInv, Alarm PROVE ClientInv'
  BY DEF Alarm, ClientInv, ClientTypeOK, ChildInv, parentVars

LEMMA ClientStep == ASSUME ClientInv, [ClientNext]_clientVars PROVE ClientInv'
<1>1. CASE Press
  BY <1>1, ReadCharacterKeeps, ReadInputEndKeeps DEF Press
<1>2. CASE UNCHANGED clientVars
  BY <1>2 DEF clientVars, childVars, parentVars, ClientInv, ClientTypeOK, ChildInv
<1> QED BY <1>1, <1>2, ParentKeeps, ChildKeeps, ServerKeeps, AlarmKeeps DEF ClientNext

LEMMA ClientInvariance == ClientSpec => []ClientInv
<1>1. ClientInv /\ [ClientNext]_clientVars => ClientInv'
  BY ClientStep
<1> QED BY <1>1, ClientStarts, PTL DEF ClientSpec

-----------------------------------------------------------------------------
(* The variables keep their types, and the line buffer is never full: there *)
(* is room for the terminator that read_line writes.                        *)
THEOREM ClientTypeCorrect == ClientSpec => []ClientTypeOK
<1>1. ClientInv => ClientTypeOK
  BY DEF ClientInv
<1> QED BY <1>1, ClientInvariance, PTL

(* Whatever the alarm, the end of the connection or a reset does, the child *)
(* has printed everything the server sent when it leaves its loop.          *)
THEOREM NothingMissed == ClientSpec => []AllPrinted
<1>1. ClientInv => AllPrinted
  BY DEF ClientInv, ClientTypeOK, ChildInv, AllPrinted
<1> QED BY <1>1, ClientInvariance, PTL

(* The alarm can interrupt no read after the first that brought something:  *)
(* setitimer with zeros in the loop comes before the next read.             *)
THEOREM AlarmOnce == ClientSpec => AlarmOnlyFirst
<1>1. ClientInv /\ [ClientNext]_clientVars => [errno # "EINTR" /\ errno' = "EINTR" => printed = 0]_clientVars
  <2> SUFFICES ASSUME ClientInv, ClientNext, errno # "EINTR", errno' = "EINTR"
               PROVE  printed = 0
    BY DEF clientVars
  <2>1. Alarm
    BY DEF ClientNext, Press, Child, Parent, ServerSends, ServerEnds, SetTimer, Read, PrintHeld,
           ReadEnd, ReadReset, ReadInputEnd, ReadCharacter, Send, Wait, childVars
  <2> QED BY <2>1 DEF Alarm, ClientInv, ChildInv
<1> QED BY <1>1, ClientInvariance, PTL DEF ClientSpec, AlarmOnlyFirst
-----------------------------------------------------------------------------
(* What is sent.  Line is the line being typed; Sent are the positions that *)
(* have reached the server or are going to: the buffer is emptied only when *)
(* the loop looks for the child.                                            *)
Line == {q \in DOMAIN typed : \A r \in q..Len(typed) : typed[r] = "other"}
Sent == IF parent = "wait" THEN wire ELSE wire \o buff
Increasing(s) == \A i, j \in DOMAIN s : i < j => s[i] < s[j]

\* The length of the buffer tells how long the line is, up to N - 1: the one
\* thing read_line looks at when it drops a character.
LinesInv ==
  /\ wire \in Seq(Nat)
  /\ parent \in {"send", "wait"} => typed # <<>> /\ Last(typed) # "other"
  /\ parent = "typing" =>
       Len(buff) = IF Cardinality(Line) < N THEN Cardinality(Line) ELSE N - 1
  /\ conn = "open" /\ parent # "gone" => Increasing(Sent) /\ Range(Sent) = Kept

Keys == {"newline", "other", "end"}

\* A sequence of positions that grows at its end.
LEMMA GrowsAtTheEnd ==
  ASSUME NEW s \in Seq(Nat), NEW n \in Nat, Increasing(s), Range(s) \subseteq 1..n
  PROVE  /\ Increasing(Append(s, n + 1))
         /\ Range(Append(s, n + 1)) = Range(s) \cup {n + 1}
<1> DEFINE t == Append(s, n + 1)
<1>1. /\ t \in Seq(Nat) /\ Len(t) = Len(s) + 1 /\ Len(s) \in Nat
      /\ t[Len(s) + 1] = n + 1 /\ \A i \in 1..Len(s) : t[i] = s[i]
  OBVIOUS
<1>2. DOMAIN t = 1..Len(s) + 1 /\ DOMAIN s = 1..Len(s)
  BY <1>1
<1>3. \A i \in 1..Len(s) : s[i] \in 1..n
  BY <1>2 DEF Range
<1> HIDE DEF t
<1>4. Increasing(t)
  <2> SUFFICES ASSUME NEW i \in 1..Len(s) + 1, NEW j \in 1..Len(s) + 1, i < j
               PROVE  t[i] < t[j]
    BY <1>2 DEF Increasing
  <2>1. i \in 1..Len(s)
    BY <1>1
  <2>2. CASE j = Len(s) + 1
    <3>1. t[j] = n + 1 /\ t[i] = s[i] /\ s[i] \in 1..n
      BY <1>1, <1>3, <2>1, <2>2
    <3> QED BY <3>1
  <2>3. CASE j \in 1..Len(s)
    <3>1. s[i] < s[j]
      BY <1>2, <2>1, <2>3 DEF Increasing
    <3> QED BY <1>1, <2>1, <2>3, <3>1
  <2> QED BY <1>1, <2>2, <2>3
<1>5. Range(t) = Range(s) \cup {n + 1}
  <2>1. Range(t) = {t[i] : i \in 1..Len(s) + 1} /\ Range(s) = {s[i] : i \in 1..Len(s)}
    BY <1>2 DEF Range
  <2>2. 1..Len(s) + 1 = 1..Len(s) \cup {Len(s) + 1}
    BY <1>1
  <2> QED BY <1>1, <2>1, <2>2
<1> QED BY <1>4, <1>5 DEF t

\* One more key: the lines of the earlier positions are what they were, and
\* the new one continues the line that was being typed.
LEMMA OneMoreKey ==
  ASSUME typed \in Seq(Keys), NEW c \in Keys, typed' = Append(typed, c)
  PROVE  /\ Len(typed) \in Nat /\ Len(typed') = Len(typed) + 1
         /\ Last(typed') = c /\ typed' # <<>>
         /\ Line' = IF c = "other" THEN Line \cup {Len(typed) + 1} ELSE {}
         /\ Kept' = IF c # "end" /\ Cardinality(Line \cup {Len(typed) + 1}) < N
                    THEN Kept \cup {Len(typed) + 1} ELSE Kept
         /\ Kept \subseteq 1..Len(typed) /\ Line \subseteq 1..Len(typed)
         /\ IsFiniteSet(Line) /\ Cardinality(Line) \in Nat
         /\ Cardinality(Line \cup {Len(typed) + 1}) = Cardinality(Line) + 1
<1>0. PICK L \in Nat : L = Len(typed)
  OBVIOUS
<1>1. /\ L \in Nat /\ Len(typed') = L + 1 /\ typed' \in Seq(Keys)
      /\ typed'[L + 1] = c /\ \A i \in 1..L : typed'[i] = typed[i]
      /\ DOMAIN typed = 1..L /\ DOMAIN typed' = 1..L + 1
  BY <1>0
<1>2. Last(typed') = c /\ typed' # <<>>
  BY <1>0, <1>1 DEF Last
<1>3. Line' = {q \in 1..L + 1 : \A r \in q..L + 1 : typed'[r] = "other"}
  BY <1>0, <1>1 DEF Line
<1>4. Line = {q \in 1..L : \A r \in q..L : typed[r] = "other"}
  BY <1>0, <1>1 DEF Line
<1>5. Line' = IF c = "other" THEN Line \cup {L + 1} ELSE {}
  <2>1. CASE c = "other"
    <3>1. \A q \in 1..L : (\A r \in q..L + 1 : typed'[r] = "other")
                          <=> (\A r \in q..L : typed[r] = "other")
      <4> SUFFICES ASSUME NEW q \in 1..L
                   PROVE (\A r \in q..L + 1 : typed'[r] = "other")
                          <=> (\A r \in q..L : typed[r] = "other")
        OBVIOUS
      <4>1. q..L + 1 = q..L \cup {L + 1} /\ q..L \subseteq 1..L
        BY <1>1
      <4> QED BY <1>1, <2>1, <4>1
    <3>2. \A r \in (L + 1)..(L + 1) : typed'[r] = "other"
      BY <1>1, <2>1
    <3>3. 1..L + 1 = 1..L \cup {L + 1}
      BY <1>1
    <3> QED BY <1>3, <1>4, <2>1, <3>1, <3>2, <3>3
  <2>2. CASE c # "other"
    <3>1. \A q \in 1..L + 1 : L + 1 \in q..L + 1
      BY <1>1
    <3> QED BY <1>1, <1>3, <2>2, <3>1
  <2> QED BY <2>1, <2>2
<1>6. \A p \in 1..L : LineOf(p)' = LineOf(p)
  <2> SUFFICES ASSUME NEW p \in 1..L PROVE LineOf(p)' = LineOf(p)
    OBVIOUS
  <2>1. \A q \in 1..p : \A r \in q..p - 1 : typed'[r] = typed[r]
    BY <1>1
  <2> QED BY <2>1 DEF LineOf
<1>7. ASSUME NEW n \in Nat, n = L + 1
      PROVE  LineOf(n)' = Line \cup {L + 1}
  <2>1. LineOf(n)' = {q \in 1..n : \A r \in q..n - 1 : typed'[r] = "other"}
    BY DEF LineOf
  <2>2. n - 1 = L /\ 1..n = 1..L \cup {L + 1} /\ (L + 1)..L = {}
    BY <1>1, <1>7
  <2>3. \A q \in 1..L : \A r \in q..L : typed'[r] = typed[r]
    BY <1>1
  <2> QED BY <1>4, <1>7, <2>1, <2>2, <2>3
<1>8. /\ IsFiniteSet(Line) /\ Cardinality(Line) \in Nat /\ L + 1 \notin Line
      /\ Cardinality(Line \cup {L + 1}) = Cardinality(Line) + 1
  <2>1. IsFiniteSet(1..L)
    <3>1. 1 \in Int /\ L \in Int
      BY <1>1
    <3> QED BY <3>1, FS_Interval
  <2>2. Line \subseteq 1..L /\ L + 1 \notin 1..L
    BY <1>1, <1>4
  <2>3. IsFiniteSet(Line)
    BY <2>1, <2>2, FS_Subset
  <2> QED BY <2>2, <2>3, FS_CardinalityType, FS_AddElement
<1>9. Kept = {p \in 1..L : typed[p] # "end" /\ Cardinality(LineOf(p)) < N}
  BY <1>1 DEF Kept
<1>10. Kept' = {p \in 1..L + 1 : typed'[p] # "end" /\ Cardinality(LineOf(p)') < N}
  BY <1>1 DEF Kept
<1>11. Kept' = IF c # "end" /\ Cardinality(Line \cup {L + 1}) < N
               THEN Kept \cup {L + 1} ELSE Kept
  <2>1. 1..L + 1 = 1..L \cup {L + 1}
    BY <1>1
  <2>2. \A p \in 1..L : p \in Kept' <=> p \in Kept
    BY <1>1, <1>6, <1>9, <1>10, <2>1
  <2>3. L + 1 \in Kept' <=> c # "end" /\ Cardinality(Line \cup {L + 1}) < N
    <3>1. PICK n \in Nat : n = L + 1
      BY <1>1
    <3>2. LineOf(n)' = Line \cup {L + 1}
      BY <1>7, <3>1
    <3>3. n \in Kept' <=> typed'[n] # "end" /\ Cardinality(LineOf(n)') < N
      BY <1>10, <2>1, <3>1
    <3> QED BY <1>1, <3>1, <3>2, <3>3
  <2>4. Kept' \subseteq 1..L \cup {L + 1} /\ Kept \subseteq 1..L
    BY <1>9, <1>10, <2>1
  <2>5. CASE c # "end" /\ Cardinality(Line \cup {L + 1}) < N
    <3>1. \A p : p \in Kept' <=> p \in Kept \cup {L + 1}
      BY <2>2, <2>3, <2>4, <2>5
    <3> QED BY <2>5, <3>1
  <2>6. CASE ~(c # "end" /\ Cardinality(Line \cup {L + 1}) < N)
    <3>1. L + 1 \notin Kept
      BY <1>1, <2>4
    <3>2. \A p : p \in Kept' <=> p \in Kept
      BY <2>2, <2>3, <2>4, <2>6, <3>1
    <3> QED BY <2>6, <3>2
  <2> QED BY <2>5, <2>6
<1> QED BY <1>0, <1>1, <1>2, <1>4, <1>5, <1>8, <1>9, <1>11

LEMMA LinesInit == ClientInit => LinesInv
<1> SUFFICES ASSUME ClientInit PROVE LinesInv
  OBVIOUS
<1>1. typed = <<>> /\ buff = <<>> /\ wire = <<>> /\ parent = "typing"
  BY DEF ClientInit
<1>2. DOMAIN typed = {} /\ wire \o buff = <<>> /\ wire \in Seq(Nat)
  BY <1>1
<1>3. Line = {} /\ Kept = {}
  BY <1>2 DEF Line, Kept
<1>4. Cardinality(Line) = 0 /\ Len(buff) = 0
  BY <1>1, <1>3, FS_EmptySet
<1>5. Sent = <<>> /\ DOMAIN Sent = {}
  BY <1>1, <1>2 DEF Sent
<1>6. Increasing(Sent) /\ Range(Sent) = Kept
  BY <1>3, <1>5 DEF Increasing, Range
<1> QED BY <1>1, <1>2, <1>4, <1>6, ClientAssumption DEF LinesInv

\* The buffer is not full exactly when the key is among the first N - 1 of its
\* line, and then both what is sent and what is kept grow by it.
LEMMA ReadCharacterKeepsLines ==
  ASSUME ClientInv, LinesInv, NEW c \in {"newline", "other"}, ReadCharacter(c)
  PROVE  LinesInv'
<1>1. /\ parent = "typing" /\ typed \in Seq(Keys) /\ c \in Keys /\ typed' = Append(typed, c)
      /\ wire' = wire /\ conn' = conn /\ wire \in Seq(Nat) /\ buff \in Seq(Nat)
      /\ parent' = IF c = "newline" THEN "send" ELSE "typing"
      /\ buff' = IF Len(buff) < N - 1 THEN Append(buff, Len(typed')) ELSE buff
  BY DEF ReadCharacter, ClientInv, LinesInv, Keys
<1>2. /\ Len(typed) \in Nat /\ Len(typed') = Len(typed) + 1
      /\ Last(typed') = c /\ typed' # <<>>
      /\ Line' = IF c = "other" THEN Line \cup {Len(typed) + 1} ELSE {}
      /\ Kept' = IF c # "end" /\ Cardinality(Line \cup {Len(typed) + 1}) < N
                 THEN Kept \cup {Len(typed) + 1} ELSE Kept
      /\ Kept \subseteq 1..Len(typed)
      /\ Cardinality(Line) \in Nat
      /\ Cardinality(Line \cup {Len(typed) + 1}) = Cardinality(Line) + 1
  BY <1>1, OneMoreKey
<1>3. Len(buff) = IF Cardinality(Line) < N THEN Cardinality(Line) ELSE N - 1
  BY <1>1 DEF LinesInv
<1>4. Len(buff) < N - 1 <=> Cardinality(Line) + 1 < N
  BY <1>2, <1>3, ClientAssumption
<1>5. Sent = wire \o buff /\ Sent' = wire \o buff'
  BY <1>1 DEF Sent
<1>6. ASSUME conn = "open"
      PROVE  Increasing(Sent') /\ Range(Sent') = Kept'
  <2>1. Increasing(Sent) /\ Range(Sent) = Kept /\ Sent \in Seq(Nat)
    BY <1>1, <1>5, <1>6 DEF LinesInv
  <2>2. CASE Len(buff) < N - 1
    <3>1. Sent' = Append(Sent, Len(typed) + 1)
      <4>1. buff' = buff \o <<Len(typed) + 1>>
        BY <1>1, <1>2, <2>2, AppendIsConcat
      <4>2. <<Len(typed) + 1>> \in Seq(Nat)
        BY <1>2
      <4>3. wire \o (buff \o <<Len(typed) + 1>>) = (wire \o buff) \o <<Len(typed) + 1>>
        BY <1>1, <4>2, ConcatAssociative
      <4>4. Append(Sent, Len(typed) + 1) = Sent \o <<Len(typed) + 1>>
        BY <1>2, <2>1, AppendIsConcat
      <4> QED BY <1>5, <4>1, <4>3, <4>4
    <3>2. /\ Increasing(Append(Sent, Len(typed) + 1))
          /\ Range(Append(Sent, Len(typed) + 1)) = Range(Sent) \cup {Len(typed) + 1}
      BY <1>2, <2>1, GrowsAtTheEnd
    <3>3. Kept' = Kept \cup {Len(typed) + 1}
      BY <1>2, <1>4, <2>2
    <3> QED BY <2>1, <3>1, <3>2, <3>3
  <2>3. CASE ~(Len(buff) < N - 1)
    <3>1. Sent' = Sent
      BY <1>1, <1>5, <2>3
    <3>2. Kept' = Kept
      BY <1>2, <1>4, <2>3
    <3> QED BY <2>1, <3>1, <3>2
  <2> QED BY <2>2, <2>3
<1>7. ASSUME parent' = "typing"
      PROVE  Len(buff') = IF Cardinality(Line') < N THEN Cardinality(Line') ELSE N - 1
  <2>1. c = "other" /\ Cardinality(Line') = Cardinality(Line) + 1
    BY <1>1, <1>2, <1>7
  <2>2. CASE Len(buff) < N - 1
    <3>1. Len(buff') = Len(buff) + 1
      BY <1>1, <2>2
    <3> QED BY <1>2, <1>3, <1>4, <2>1, <2>2, <3>1, ClientAssumption
  <2>3. CASE ~(Len(buff) < N - 1)
    <3>1. Len(buff') = Len(buff)
      BY <1>1, <2>3
    <3> QED BY <1>2, <1>3, <1>4, <2>1, <2>3, <3>1, ClientAssumption
  <2> QED BY <2>2, <2>3
<1>8. parent' \in {"send", "wait"} => typed' # <<>> /\ Last(typed') # "other"
  BY <1>1, <1>2
<1> QED BY <1>1, <1>6, <1>7, <1>8 DEF LinesInv

\* An end of the input is not kept and ends the line.
LEMMA ReadInputEndKeepsLines ==
  ASSUME ClientInv, LinesInv, ReadInputEnd
  PROVE  LinesInv'
<1>1. /\ parent = "typing" /\ typed \in Seq(Keys) /\ "end" \in Keys
      /\ typed' = Append(typed, "end") /\ parent' \in {"gone", "send"}
      /\ wire' = wire /\ conn' = conn /\ buff' = buff
  BY DEF ReadInputEnd, ClientInv, Keys
<1>2. Kept' = Kept /\ Last(typed') = "end" /\ typed' # <<>>
  BY <1>1, OneMoreKey
<1>3. Sent' = Sent
  BY <1>1 DEF Sent
<1> QED BY <1>1, <1>2, <1>3 DEF LinesInv, Increasing

\* What is sent stays sent, and the buffer of a line that was sent whole
\* leaves an empty one behind.
LEMMA SendKeepsLines ==
  ASSUME ClientInv, LinesInv, Send
  PROVE  LinesInv'
<1>1. /\ parent = "send" /\ typed' = typed /\ buff' = buff /\ parent' \in {"wait", "gone"}
      /\ conn' = "open" => conn = "open" /\ wire' = wire \o buff /\ parent' = "wait"
      /\ wire' = wire \/ wire' = wire \o buff
  BY DEF Send
<1>2. wire' \in Seq(Nat)
  <2>1. wire \in Seq(Nat) /\ buff \in Seq(Nat)
    BY DEF LinesInv, ClientInv
  <2>2. wire \o buff \in Seq(Nat)
    BY <2>1, ConcatProperties
  <2> QED BY <1>1, <2>1, <2>2
<1>3. Kept' = Kept
  BY <1>1 DEF Kept, LineOf
<1>4. conn' = "open" => Sent' = Sent
  BY <1>1 DEF Sent
<1> QED BY <1>1, <1>2, <1>3, <1>4 DEF LinesInv, Increasing

LEMMA WaitKeepsLines ==
  ASSUME ClientInv, LinesInv, Wait
  PROVE  LinesInv'
<1>1. /\ parent = "wait" /\ typed' = typed /\ buff' = <<>> /\ parent' \in {"typing", "gone"}
      /\ conn' = conn /\ wire' = wire
  BY DEF Wait
<1>2. Kept' = Kept /\ Line' = Line
  BY <1>1 DEF Kept, LineOf, Line
<1>3. Sent' = Sent
  <2>1. wire \o <<>> = wire
    BY DEF LinesInv
  <2> QED BY <1>1, <2>1 DEF Sent
<1>4. Line = {}
  <2>1. typed # <<>> /\ typed[Len(typed)] # "other" /\ Len(typed) \in Nat
    BY <1>1 DEF LinesInv, Last, ClientInv
  <2>2. \A q \in DOMAIN typed : Len(typed) \in q..Len(typed)
    BY <2>1 DEF ClientInv
  <2> QED BY <2>1, <2>2 DEF Line
<1>5. Cardinality(Line') = 0 /\ Len(buff') = 0
  BY <1>1, <1>2, <1>4, FS_EmptySet
<1> QED BY <1>1, <1>2, <1>3, <1>5, ClientAssumption DEF LinesInv, Increasing

LEMMA LinesStep == ASSUME ClientInv, LinesInv, [ClientNext]_clientVars PROVE LinesInv'
<1>1. CASE Press
  BY <1>1, ReadCharacterKeepsLines, ReadInputEndKeepsLines DEF Press
<1>2. CASE Parent
  BY <1>2, SendKeepsLines, WaitKeepsLines DEF Parent
<1>3. ASSUME ServerSends \/ ServerEnds \/ Alarm \/ Child \/ UNCHANGED clientVars
      PROVE  LinesInv'
  <2>1. UNCHANGED parentVars /\ (conn' = "open" => conn = "open")
    BY <1>3 DEF ServerSends, ServerEnds, Alarm, Child, SetTimer, Read, PrintHeld, ReadEnd,
                ReadReset, clientVars
  <2>2. Kept' = Kept /\ Line' = Line /\ Sent' = Sent
    BY <2>1 DEF Kept, LineOf, Line, Sent, parentVars
  <2> QED BY <2>1, <2>2 DEF LinesInv, Increasing, parentVars
<1> QED BY <1>1, <1>2, <1>3 DEF ClientNext

(* Between two lines the server has been sent what was typed, in order and  *)
(* once, and nothing of a line but what is beyond its first N - 1           *)
(* characters is missing: whatever the child, the alarm and the server do.  *)
THEOREM LinesKept == ClientSpec => []KeepsLines
<1>1. ClientInv /\ LinesInv /\ [ClientNext]_clientVars => LinesInv'
  BY LinesStep
<1>2. ClientInv /\ LinesInv => KeepsLines
  <2> SUFFICES ASSUME ClientInv, LinesInv, parent = "typing", conn = "open",
                      typed # <<>> => Last(typed) # "other"
               PROVE  /\ Range(wire) = Kept
                      /\ \A i, j \in DOMAIN wire : i < j => wire[i] < wire[j]
    BY DEF KeepsLines
  <2>1. Line = {}
    <3>1. CASE typed = <<>>
      BY <3>1 DEF Line
    <3>2. CASE typed # <<>>
      <4>1. typed[Len(typed)] # "other" /\ Len(typed) \in Nat
        BY <3>2 DEF Last, ClientInv
      <4>2. \A q \in DOMAIN typed : Len(typed) \in q..Len(typed)
        BY <4>1 DEF ClientInv
      <4> QED BY <4>1, <4>2 DEF Line
    <3> QED BY <3>1, <3>2
  <2>2. Len(buff) = 0
    BY <2>1, FS_EmptySet, ClientAssumption DEF LinesInv
  <2>3. buff = <<>> /\ wire \in Seq(Nat)
    BY <2>2 DEF ClientInv, LinesInv
  <2>4. Sent = wire
    BY <2>3 DEF Sent
  <2> QED BY <2>4 DEF LinesInv, Increasing
<1> QED BY <1>1, <1>2, ClientInvariance, LinesInit, PTL DEF ClientSpec

=============================================================================
