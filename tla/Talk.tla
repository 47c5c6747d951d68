-------------------------------- MODULE Talk --------------------------------
(***************************************************************************)
(* What src/minitalk/server_main.c promises its clients, in terms of       *)
(* connections: no table, no descriptors, no select.  A client logs in,    *)
(* picks a partner among those logged in, and from then on what it says    *)
(* reaches that partner, until one of the two leaves.                      *)
(***************************************************************************)
EXTENDS Integers

CONSTANTS Conns,     \* the connections
          NoOne      \* not a connection

VARIABLES present,   \* the connections logged in
          partner,   \* whom each of them talks to
          mail       \* <<c, d>>: what c said has reached d, the last of all

talkVars == <<present, partner, mail>>

TalkTypeOK ==
    /\ present \in SUBSET Conns
    /\ partner \in [Conns -> Conns \union {NoOne}]
    /\ mail \in (Conns \X Conns) \union {<<>>}

TalkInit ==
    /\ present = {}
    /\ partner = [c \in Conns |-> NoOne]
    /\ mail = <<>>

Login(c) ==
    /\ c \notin present
    /\ present' = present \union {c}
    /\ UNCHANGED <<partner, mail>>

Pick(c, d) ==
    /\ {c, d} \subseteq present
    /\ partner[c] = NoOne
    /\ partner' = [partner EXCEPT ![c] = d]
    /\ UNCHANGED <<present, mail>>

Say(c) ==
    /\ partner[c] # NoOne
    /\ mail' = <<c, partner[c]>>
    /\ UNCHANGED <<present, partner>>

Leave(c) ==
    /\ c \in present
    /\ present' = present \ {c}
    /\ partner' = [d \in Conns |-> IF d = c \/ partner[d] = c THEN NoOne
                                                               ELSE partner[d]]
    /\ UNCHANGED mail

TalkNext ==
    \E c \in Conns : Login(c) \/ Say(c) \/ Leave(c) \/ \E d \in Conns : Pick(c, d)

TalkSpec == TalkInit /\ [][TalkNext]_talkVars

(* Partners are both there: nobody talks to a connection that has left.    *)
PartnersPresent ==
    \A c \in Conns : partner[c] # NoOne => {c, partner[c]} \subseteq present
=============================================================================
