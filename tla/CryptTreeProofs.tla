--------------------------- MODULE CryptTreeProofs ---------------------------
(***************************************************************************)
(* The encrypting file system: every open node has a descriptor of its own *)
(* and no other is open but those my_readdir left behind; the lower file   *)
(* system holds exactly the images of the tree that is shown, and no name  *)
(* of that tree is ever refused, so that the whole implements DirTree.     *)
(***************************************************************************)
EXTENDS CryptTree, SequenceTheorems, FiniteSetTheorems, WellFoundedInduction, TLAPS

InfoType == [open : BOOLEAN, named : BOOLEAN, path : Paths \union {<<>>},
             kind : {"dir", "file"}, fh : 0 .. MaxFds]

OpenFiles == {f \in Files : info[f].open}

(* The inductive invariant.                                                *)
FdInv ==
    /\ info \in [Files -> InfoType]
    /\ fds \in SUBSET (1 .. MaxFds)
    /\ listed \in Nat
    /\ HandlesApart
    /\ Counted

-----------------------------------------------------------------------------
(* Sets that grow and shrink by one element.                               *)

LEMMA FdsFinite ==
    ASSUME fds \in SUBSET (1 .. MaxFds)
    PROVE  IsFiniteSet(fds) /\ Cardinality(fds) \in 0 .. MaxFds
<1>1. IsFiniteSet(1 .. MaxFds) /\ Cardinality(1 .. MaxFds) = MaxFds
  <2>1. 1 \in Int /\ MaxFds \in Int /\ MaxFds >= 0
    BY FdsAssumption
  <2> QED BY <2>1, FS_Interval
<1>2. IsFiniteSet(fds) /\ Cardinality(fds) <= Cardinality(1 .. MaxFds)
  BY <1>1, FS_Subset
<1>3. Cardinality(fds) \in Nat
  BY <1>2, FS_CardinalityType
<1> QED BY <1>1, <1>2, <1>3, FdsAssumption

LEMMA OpenFinite == IsFiniteSet(OpenFiles) /\ Cardinality(OpenFiles) \in Nat
<1>1. OpenFiles \subseteq Files
  BY DEF OpenFiles
<1>2. IsFiniteSet(OpenFiles)
  BY <1>1, FilesAssumption, FS_Subset
<1> QED BY <1>2, FS_CardinalityType

(* A descriptor more.                                                      *)
LEMMA NewFd ==
    ASSUME FdInv, NEW fd \in NewFds
    PROVE  /\ fd \in 1 .. MaxFds /\ fd \notin fds
           /\ Cardinality(fds \union {fd}) = Cardinality(fds) + 1
<1>1. fd \in 1 .. MaxFds /\ fd \notin fds
  BY DEF NewFds
<1>2. IsFiniteSet(fds)
  BY FdsFinite DEF FdInv
<1>3. Cardinality(fds \union {fd}) = Cardinality(fds) + 1
  BY <1>1, <1>2, FS_AddElement
<1> QED BY <1>1, <1>3

-----------------------------------------------------------------------------
LEMMA InitFd == ASSUME Init PROVE FdInv
<1>1. info \in [Files -> InfoType]
  BY FdsAssumption DEF Init, NoInfo, InfoType
<1>2. OpenFiles = {}
  BY DEF Init, NoInfo, OpenFiles
<1>3. Counted
  <2>1. Cardinality(OpenFiles) = 0 /\ Cardinality(fds) = 0 /\ listed = 0
    BY <1>2, FS_EmptySet DEF Init
  <2> QED BY <2>1 DEF Counted, OpenFiles
<1>4. HandlesApart
  BY DEF Init, NoInfo, HandlesApart
<1> QED BY <1>1, <1>3, <1>4 DEF FdInv, Init

LEMMA OpenedFd ==
    ASSUME FdInv, NEW p \in Paths, NEW kind \in {"dir", "file"}, NEW f \in Files,
           Opened(p, kind, f)
    PROVE  FdInv'
<1>1. PICK fd \in NewFds :
          /\ info' = [info EXCEPT ![f] = [open |-> TRUE, named |-> TRUE, path |-> p,
                                          kind |-> kind, fh |-> fd]]
          /\ fds' = fds \union {fd}
  BY DEF Opened
<1>2. ~info[f].open /\ listed' = listed
  BY DEF Opened
<1>3. /\ fd \in 1 .. MaxFds /\ fd \notin fds
      /\ Cardinality(fds \union {fd}) = Cardinality(fds) + 1
  BY NewFd
<1>4. info' \in [Files -> InfoType]
  <2>1. [open |-> TRUE, named |-> TRUE, path |-> p, kind |-> kind, fh |-> fd] \in InfoType
    BY <1>3, FdsAssumption DEF InfoType
  <2> QED BY <1>1, <2>1 DEF FdInv
<1>5. HandlesApart'
  BY <1>1, <1>3 DEF HandlesApart, FdInv
<1>6. OpenFiles' = OpenFiles \union {f} /\ f \notin OpenFiles
  BY <1>1, <1>2 DEF OpenFiles, FdInv
<1>7. Cardinality(OpenFiles') = Cardinality(OpenFiles) + 1
  BY <1>6, OpenFinite, FS_AddElement
<1>8. Counted'
  <2>1. Cardinality(fds) = Cardinality(OpenFiles) + listed
    BY DEF FdInv, Counted, OpenFiles
  <2>2. Cardinality(fds') = Cardinality(OpenFiles') + listed'
    BY <1>1, <1>2, <1>3, <1>7, <2>1, OpenFinite DEF FdInv
  <2> QED BY <2>2 DEF Counted, OpenFiles
<1> QED BY <1>1, <1>2, <1>3, <1>4, <1>5, <1>8 DEF FdInv

LEMMA ClosedFd ==
    ASSUME FdInv, NEW kind \in {"dir", "file"}, NEW f \in Files, Closed(f, kind)
    PROVE  FdInv'
<1>1. /\ info[f].open
      /\ fds' = fds \ {info[f].fh}
      /\ info' = [info EXCEPT ![f] = NoInfo]
      /\ listed' = listed
  BY DEF Closed
<1>2. info' \in [Files -> InfoType]
  BY <1>1, FdsAssumption DEF FdInv, NoInfo, InfoType
<1>3. HandlesApart'
  BY <1>1 DEF HandlesApart, FdInv, NoInfo
<1>4. OpenFiles' = OpenFiles \ {f} /\ f \in OpenFiles
  BY <1>1 DEF OpenFiles, FdInv, NoInfo
<1>5. Cardinality(OpenFiles') = Cardinality(OpenFiles) - 1
  BY <1>4, OpenFinite, FS_RemoveElement
<1>6. Cardinality(fds') = Cardinality(fds) - 1
  <2>1. info[f].fh \in fds
    BY <1>1 DEF FdInv, HandlesApart
  <2> QED BY <1>1, <2>1, FdsFinite, FS_RemoveElement DEF FdInv
<1>7. Counted'
  <2>1. Cardinality(fds) = Cardinality(OpenFiles) + listed
    BY DEF FdInv, Counted, OpenFiles
  <2>2. Cardinality(fds') = Cardinality(OpenFiles') + listed'
    BY <1>1, <1>5, <1>6, <2>1, OpenFinite DEF FdInv
  <2> QED BY <2>2 DEF Counted, OpenFiles
<1> QED BY <1>1, <1>2, <1>3, <1>7 DEF FdInv

(* A listing: one descriptor more, for nothing that is open.               *)
LEMMA ReaddirFd ==
    ASSUME FdInv, NEW f \in Files, Readdir(f)
    PROVE  FdInv'
<1>1. info' = info
  BY DEF Readdir
<1>2. CASE fds' = fds /\ listed' = listed
  BY <1>1, <1>2 DEF FdInv, HandlesApart, Counted
<1>3. CASE (\E fd \in NewFds : fds' = fds \union {fd}) /\ listed' = listed + 1
  <2>1. PICK fd \in NewFds : fds' = fds \union {fd}
    BY <1>3
  <2>2. /\ fd \in 1 .. MaxFds
        /\ Cardinality(fds') = Cardinality(fds) + 1
    BY <2>1, NewFd
  <2>3. HandlesApart'
    BY <1>1, <2>1 DEF FdInv, HandlesApart
  <2>4. Counted'
    <3>1. Cardinality(fds) = Cardinality(OpenFiles) + listed
      BY DEF FdInv, Counted, OpenFiles
    <3>2. OpenFiles' = OpenFiles
      BY <1>1 DEF OpenFiles
    <3>3. Cardinality(fds') = Cardinality(OpenFiles') + listed'
      BY <1>3, <2>2, <3>1, <3>2, OpenFinite DEF FdInv
    <3> QED BY <3>3 DEF Counted, OpenFiles
  <2> QED BY <1>1, <1>3, <2>1, <2>2, <2>3, <2>4 DEF FdInv
<1>4. \/ fds' = fds /\ listed' = listed
      \/ (\E fd \in NewFds : fds' = fds \union {fd}) /\ listed' = listed + 1
  BY DEF Readdir
<1> QED BY <1>2, <1>3, <1>4

(* A directory that is removed may lose its name, and keeps the rest.      *)
LEMMA RmdirFd ==
    ASSUME FdInv, NEW p \in Paths, Rmdir(p)
    PROVE  FdInv'
<1>1. /\ info' = [f \in Files |-> [info[f] EXCEPT !.named = @ /\ info[f].path # p]]
      /\ fds' = fds /\ listed' = listed
  BY DEF Rmdir
<1>2. ASSUME NEW f \in Files
      PROVE  info'[f] \in InfoType /\ info'[f].open = info[f].open
             /\ info'[f].fh = info[f].fh
  <2>1. info[f] \in InfoType
    BY DEF FdInv
  <2> QED BY <1>1, <2>1 DEF InfoType
<1>3. info' \in [Files -> InfoType]
  BY <1>1, <1>2
<1>4. HandlesApart'
  BY <1>1, <1>2 DEF FdInv, HandlesApart
<1>5. OpenFiles' = OpenFiles
  BY <1>2 DEF OpenFiles
<1>6. Counted'
  BY <1>1, <1>5 DEF FdInv, Counted, OpenFiles
<1> QED BY <1>1, <1>3, <1>4, <1>6 DEF FdInv

LEMMA NextFd == ASSUME FdInv, [Next]_vars PROVE FdInv'
<1>1. ASSUME UNCHANGED <<info, fds, listed>> PROVE FdInv'
  BY <1>1 DEF FdInv, HandlesApart, Counted
<1>2. ASSUME NEW p \in Paths, NEW mode \in Modes,
             Mkdir(p, mode) \/ Mknod(p, mode) \/ Chmod(p, mode)
      PROVE  FdInv'
  BY <1>1, <1>2 DEF Mkdir, Mknod, Make, Chmod
<1>3. ASSUME NEW p \in Paths, Rmdir(p) PROVE FdInv'
  BY <1>3, RmdirFd
<1>4. ASSUME NEW p \in Paths, NEW f \in Files, Open(p, f) \/ Opendir(p, f)
      PROVE  FdInv'
  <2>1. CASE Open(p, f)
    BY <2>1, OpenedFd DEF Open
  <2>2. CASE Opendir(p, f)
    BY <2>2, OpenedFd DEF Opendir
  <2> QED BY <1>4, <2>1, <2>2
<1>5. ASSUME NEW f \in Files, Release(f) \/ Releasedir(f) PROVE FdInv'
  <2>1. CASE Release(f)
    BY <2>1, ClosedFd DEF Release
  <2>2. CASE Releasedir(f)
    BY <2>2, ClosedFd DEF Releasedir
  <2> QED BY <1>5, <2>1, <2>2
<1>6. ASSUME NEW f \in Files, Readdir(f) PROVE FdInv'
  BY <1>6, ReaddirFd
<1>7. CASE Dead \/ UNCHANGED vars
  BY <1>1, <1>7 DEF Dead, vars
<1>8. ASSUME NEW p \in Paths, Unlink(p) PROVE FdInv'
  BY <1>1, <1>8 DEF Unlink
<1> QED BY <1>2, <1>3, <1>4, <1>5, <1>6, <1>7, <1>8 DEF Next

LEMMA FdInvariance == Spec => []FdInv
<1>1. Init => FdInv
  BY InitFd
<1>2. FdInv /\ [Next]_vars => FdInv'
  BY NextFd
<1> QED BY <1>1, <1>2, PTL DEF Spec

-----------------------------------------------------------------------------
(* Every open fuse_file_info holds an open descriptor of its own: neither  *)
(* my_readdir nor a release ever closes one that another handler will use. *)
THEOREM DescriptorsApart == Spec => []HandlesApart
<1>1. FdInv => HandlesApart
  BY DEF FdInv
<1> QED BY <1>1, FdInvariance, PTL

(* The open descriptors are those of what is open and one for every time   *)
(* my_readdir listed a directory, however many files and descriptors there *)
(* are: that and nothing else is what the handlers lose.                   *)
THEOREM DescriptorsAccounted == Spec => []Accounted
<1>1. FdInv => Accounted
  BY DEF FdInv, Accounted
<1> QED BY <1>1, FdInvariance, PTL

-----------------------------------------------------------------------------
(* What FdInv does not say of the types.                                   *)
Node == [kind : {"dir", "file"}, may : SUBSET {"r", "w", "x"}]

BackingInv == \A s \in DOMAIN backing : backing[s] \in Node

ListingInv ==
    /\ listing.of \in Paths \union {<<>>}
    /\ listing.names \subseteq Names \union {"garbage"}
    /\ alive \in BOOLEAN

LEMMA DecryptedName == ASSUME NEW s PROVE Decrypted(s) \in Names \union {"garbage"}
BY DEF Decrypted

LEMMA NextBacking == ASSUME BackingInv, [Next]_vars PROVE BackingInv'
<1>1. ASSUME UNCHANGED backing PROVE BackingInv'
  BY <1>1 DEF BackingInv
<1>2. ASSUME NEW p \in Paths, NEW kind \in {"dir", "file"}, NEW mode \in Modes,
             Make(p, kind, mode)
      PROVE  BackingInv'
  <2>1. backing' = [s \in DOMAIN backing \union {RealPath(p)} |->
                      IF s = RealPath(p) THEN [kind |-> kind, may |-> mode]
                                         ELSE backing[s]]
    BY <1>2 DEF Make
  <2>3. [kind |-> kind, may |-> mode] \in Node
    BY ModesAssumption DEF Node
  <2>2. ASSUME NEW s \in DOMAIN backing' PROVE backing'[s] \in Node
    <3>1. CASE s = RealPath(p)
      BY <2>1, <2>3, <3>1
    <3>2. CASE s # RealPath(p)
      <4>1. s \in DOMAIN backing /\ backing'[s] = backing[s]
        BY <2>1, <2>2, <3>2
      <4> QED BY <4>1 DEF BackingInv
    <3> QED BY <3>1, <3>2
  <2> QED BY <2>2 DEF BackingInv
<1>3. ASSUME NEW s, backing' = Forgotten(s) PROVE BackingInv'
  BY <1>3 DEF BackingInv, Forgotten
<1>4. ASSUME NEW p \in Paths, NEW mode \in Modes, Chmod(p, mode) PROVE BackingInv'
  <2>1. backing' = [backing EXCEPT ![RealPath(p)].may = mode]
    BY <1>4 DEF Chmod
  <2>2. ASSUME NEW s \in DOMAIN backing PROVE backing'[s] \in Node
    <3>1. backing[s] \in Node
      BY DEF BackingInv
    <3>2. backing'[s] = backing[s] \/ backing'[s] = [backing[s] EXCEPT !.may = mode]
      BY <2>1
    <3> QED BY <3>1, <3>2, ModesAssumption DEF Node
  <2> QED BY <2>1, <2>2 DEF BackingInv
<1>5. ASSUME NEW p \in Paths, NEW mode \in Modes, Mkdir(p, mode) \/ Mknod(p, mode)
      PROVE  BackingInv'
  BY <1>2, <1>5 DEF Mkdir, Mknod
<1>6. ASSUME NEW p \in Paths, Unlink(p) \/ Rmdir(p) PROVE BackingInv'
  BY <1>3, <1>6 DEF Unlink, Rmdir
<1>7. ASSUME NEW p \in Paths, NEW f \in Files, Open(p, f) \/ Opendir(p, f)
      PROVE  BackingInv'
  BY <1>1, <1>7 DEF Open, Opendir, Opened
<1>8. ASSUME NEW f \in Files, Release(f) \/ Releasedir(f) \/ Readdir(f)
      PROVE  BackingInv'
  BY <1>1, <1>8 DEF Release, Releasedir, Closed, Readdir
<1>9. CASE Dead \/ UNCHANGED vars
  BY <1>1, <1>9 DEF Dead, vars
<1> QED BY <1>4, <1>5, <1>6, <1>7, <1>8, <1>9 DEF Next

LEMMA NextListing == ASSUME FdInv, ListingInv, [Next]_vars PROVE ListingInv'
<1>1. ASSUME UNCHANGED <<listing, alive>> PROVE ListingInv'
  BY <1>1 DEF ListingInv
<1>2. ASSUME NEW f \in Files, Readdir(f) PROVE ListingInv'
  <2>1. info[f].path \in Paths \union {<<>>}
    BY DEF FdInv, InfoType
  <2>2. alive' \in BOOLEAN
    BY <1>2 DEF Readdir, ListingInv
  <2>3. CASE UNCHANGED listing
    BY <2>2, <2>3 DEF ListingInv
  <2>4. CASE listing' = [of    |-> info[f].path,
                         names |-> {Decrypted(Basename(t)) :
                                        t \in Entries(RealPath(info[f].path))}]
    <3>1. listing'.names \subseteq Names \union {"garbage"}
      BY <2>4, DecryptedName
    <3> QED BY <2>1, <2>2, <2>4, <3>1 DEF ListingInv
  <2> QED BY <1>2, <2>3, <2>4 DEF Readdir
<1>3. ASSUME NEW p \in Paths, NEW mode \in Modes,
             Mkdir(p, mode) \/ Mknod(p, mode) \/ Chmod(p, mode)
      PROVE  ListingInv'
  BY <1>1, <1>3 DEF Mkdir, Mknod, Make, Chmod
<1>7. ASSUME NEW p \in Paths, Unlink(p) \/ Rmdir(p) PROVE ListingInv'
  BY <1>1, <1>7 DEF Unlink, Rmdir
<1>4. ASSUME NEW p \in Paths, NEW f \in Files, Open(p, f) \/ Opendir(p, f)
      PROVE  ListingInv'
  BY <1>1, <1>4 DEF Open, Opendir, Opened
<1>5. ASSUME NEW f \in Files, Release(f) \/ Releasedir(f) PROVE ListingInv'
  BY <1>1, <1>5 DEF Release, Releasedir, Closed
<1>6. CASE Dead \/ UNCHANGED vars
  BY <1>1, <1>6 DEF Dead, vars
<1> QED BY <1>2, <1>3, <1>4, <1>5, <1>6, <1>7 DEF Next

(* Every variable keeps its type.  In particular my_readdir lists no more  *)
(* often than the process may have descriptors.                            *)
THEOREM TreeTypeCorrect == Spec => []TypeOK
<1>1. Init => FdInv /\ BackingInv /\ ListingInv
  <2>1. Init => BackingInv
    BY DEF Init, BackingInv, Node
  <2>2. Init => ListingInv
    BY DEF Init, ListingInv
  <2> QED BY <2>1, <2>2, InitFd
<1>2. FdInv /\ BackingInv /\ ListingInv /\ [Next]_vars
      => (FdInv /\ BackingInv /\ ListingInv)'
  BY NextFd, NextBacking, NextListing
<1>3. FdInv /\ BackingInv /\ ListingInv => TypeOK
  <2> SUFFICES ASSUME FdInv, BackingInv, ListingInv PROVE TypeOK
    OBVIOUS
  <2>1. listed \in 0 .. MaxFds
    <3>1. Cardinality(fds) = Cardinality(OpenFiles) + listed
      BY DEF FdInv, Counted, OpenFiles
    <3>2. Cardinality(fds) \in 0 .. MaxFds
      BY FdsFinite DEF FdInv
    <3> QED BY <3>1, <3>2, OpenFinite, FdsAssumption DEF FdInv
  <2> QED BY <2>1 DEF TypeOK, FdInv, InfoType, BackingInv, Node, ListingInv
<1> QED BY <1>1, <1>2, <1>3, PTL DEF Spec
-----------------------------------------------------------------------------
(* What the names of the backing file system are written with.             *)
Chars == Alphabet \union {"/", "^"}

-----------------------------------------------------------------------------
(* Names.                                                                  *)
LEMMA EncryptedIs ==
    ASSUME NEW n \in Names
    PROVE  /\ Base64[n] \in Seq(Chars) /\ Encrypted(n) \in Seq(Chars)
           /\ Len(Encrypted(n)) = Len(Base64[n]) /\ Len(Base64[n]) \in Nat \ {0}
           /\ \A i \in 1 .. Len(Base64[n]) :
                  /\ Base64[n][i] # "^"
                  /\ Encrypted(n)[i] = IF Base64[n][i] = "/" THEN "^" ELSE Base64[n][i]
                  /\ Encrypted(n)[i] # "/"
<1>0. Base64[n] \in Seq(Alphabet) /\ Base64[n] # <<>>
  BY Base64Assumption
<1>1. /\ Base64[n] \in Seq(Chars) /\ Base64[n] # <<>>
      /\ \A i \in DOMAIN Base64[n] : Base64[n][i] # "^"
  <2>1. Len(Base64[n]) \in Nat /\ DOMAIN Base64[n] = 1 .. Len(Base64[n])
    BY <1>0, LenProperties
  <2>2. \A i \in 1 .. Len(Base64[n]) : Base64[n][i] \in Alphabet
    BY <1>0, ElementOfSeq
  <2>3. \A i \in 1 .. Len(Base64[n]) : Base64[n][i] \in Chars /\ Base64[n][i] # "^"
    BY <2>2, Base64Assumption DEF Chars
  <2>4. Base64[n] = [i \in 1 .. Len(Base64[n]) |-> Base64[n][i]]
    BY <1>0
  <2>5. Base64[n] \in Seq(Chars)
    BY <2>1, <2>3, <2>4
  <2> QED BY <1>0, <2>1, <2>3, <2>5
<1>2. Len(Base64[n]) \in Nat \ {0} /\ DOMAIN Base64[n] = 1 .. Len(Base64[n])
  BY <1>1, EmptySeq, LenProperties
<1>3. Encrypted(n) = [i \in 1 .. Len(Base64[n]) |-> IF Base64[n][i] = "/" THEN "^" ELSE Base64[n][i]]
  BY <1>2 DEF Encrypted, Replaced
<1>4. ASSUME NEW i \in 1 .. Len(Base64[n])
      PROVE  (IF Base64[n][i] = "/" THEN "^" ELSE Base64[n][i]) \in Chars
  <2>1. Base64[n][i] \in Chars
    BY <1>1, ElementOfSeq
  <2> QED BY <2>1 DEF Chars
<1>5. Encrypted(n) \in Seq(Chars) /\ Len(Encrypted(n)) = Len(Base64[n])
  BY <1>2, <1>3, <1>4, IsASeq
<1> QED BY <1>1, <1>2, <1>3, <1>5

(* No two names look alike: a ^ can only have been a slash.                *)
LEMMA EncryptedApart ==
    ASSUME NEW m \in Names, NEW n \in Names, Encrypted(m) = Encrypted(n)
    PROVE  m = n
<1>1. /\ Base64[m] \in Seq(Chars) /\ Base64[n] \in Seq(Chars)
      /\ Len(Base64[m]) = Len(Base64[n])
  BY EncryptedIs
<1>2. ASSUME NEW i \in 1 .. Len(Base64[m]) PROVE Base64[m][i] = Base64[n][i]
  <2>1. /\ Encrypted(m)[i] = IF Base64[m][i] = "/" THEN "^" ELSE Base64[m][i]
        /\ Encrypted(n)[i] = IF Base64[n][i] = "/" THEN "^" ELSE Base64[n][i]
        /\ Base64[m][i] # "^" /\ Base64[n][i] # "^"
    BY <1>1, EncryptedIs
  <2> QED BY <2>1
<1>3. Base64[m] = Base64[n]
  BY <1>1, <1>2, SeqEqual
<1> QED BY <1>3, Base64Assumption

(* What a directory lists is what was called so.                           *)
LEMMA DecryptedIs ==
    ASSUME NEW n \in Names
    PROVE  Decrypted(Encrypted(n)) = n
<1> DEFINE back == Replaced(Encrypted(n), "^", "/")
<1>1. /\ Base64[n] \in Seq(Chars) /\ Encrypted(n) \in Seq(Chars)
      /\ Len(Encrypted(n)) = Len(Base64[n])
  BY EncryptedIs
<1>2. DOMAIN Encrypted(n) = 1 .. Len(Base64[n]) /\ DOMAIN Base64[n] = 1 .. Len(Base64[n])
  BY <1>1, LenProperties
<1>3. \A i \in 1 .. Len(Base64[n]) :
          (IF Encrypted(n)[i] = "^" THEN "/" ELSE Encrypted(n)[i]) = Base64[n][i]
  BY EncryptedIs
<1>4. back = [i \in 1 .. Len(Base64[n]) |-> Base64[n][i]]
  BY <1>2, <1>3 DEF Replaced
<1>5. back = Base64[n]
  BY <1>1, <1>2, <1>4
<1> HIDE DEF back
<1>6. \E m \in Names : Base64[m] = back
  BY <1>5
<1>7. \A m \in Names : Base64[m] = back => m = n
  BY <1>5, Base64Assumption
<1>8. (CHOOSE m \in Names : Base64[m] = back) = n
  BY <1>6, <1>7
<1> QED BY <1>6, <1>8 DEF Decrypted, back

-----------------------------------------------------------------------------
(* Paths: a directory and a name in it.  A string that ends with a slash   *)
(* and characters that are not slashes comes apart there.                  *)
LEMMA JoinedAre ==
    ASSUME NEW s \in Seq(Chars), NEW e \in Seq(Chars)
    PROVE  LET t == s \o <<"/">> \o e
           IN  /\ t \in Seq(Chars) /\ Len(t) = Len(s) + 1 + Len(e)
               /\ \A i \in 1 .. Len(s) : t[i] = s[i]
               /\ t[Len(s) + 1] = "/"
               /\ \A i \in 1 .. Len(e) : t[Len(s) + 1 + i] = e[i]
<1> DEFINE u == s \o <<"/">>
           t == u \o e
<1>1. <<"/">> \in Seq(Chars) /\ Len(<<"/">>) = 1 /\ <<"/">>[1] = "/"
  BY DEF Chars
<1>2. Len(s) \in Nat /\ Len(e) \in Nat
  BY LenProperties
<1>3. /\ u \in Seq(Chars) /\ Len(u) = Len(s) + 1
      /\ \A i \in 1 .. Len(s) + 1 : u[i] = IF i <= Len(s) THEN s[i] ELSE <<"/">>[i - Len(s)]
  BY <1>1, ConcatProperties
<1> HIDE DEF u
<1>4. /\ t \in Seq(Chars) /\ Len(t) = Len(s) + 1 + Len(e)
      /\ \A i \in 1 .. Len(s) + 1 + Len(e) : t[i] = IF i <= Len(s) + 1 THEN u[i] ELSE e[i - (Len(s) + 1)]
  <2>1. /\ t \in Seq(Chars) /\ Len(t) = Len(u) + Len(e)
        /\ \A i \in 1 .. Len(u) + Len(e) : t[i] = IF i <= Len(u) THEN u[i] ELSE e[i - Len(u)]
    BY <1>3, ConcatProperties
  <2> HIDE DEF t
  <2> QED BY <2>1, <1>3
<1> HIDE DEF t
<1>5. \A i \in 1 .. Len(s) : t[i] = s[i]
  BY <1>2, <1>3, <1>4
<1>6. t[Len(s) + 1] = "/"
  <2>1. Len(s) + 1 \in 1 .. Len(s) + 1 /\ Len(s) + 1 \in 1 .. Len(s) + 1 + Len(e) /\ (Len(s) + 1) - Len(s) = 1
    BY <1>2
  <2>2. t[Len(s) + 1] = u[Len(s) + 1]
    BY <2>1, <1>4
  <2>3. u[Len(s) + 1] = <<"/">>[1]
    BY <2>1, <1>2, <1>3
  <2> QED BY <2>2, <2>3
<1>7. ASSUME NEW i \in 1 .. Len(e) PROVE t[Len(s) + 1 + i] = e[i]
  <2>1. /\ Len(s) + 1 + i \in 1 .. Len(s) + 1 + Len(e) /\ ~(Len(s) + 1 + i <= Len(s) + 1)
        /\ (Len(s) + 1 + i) - (Len(s) + 1) = i
    BY <1>2
  <2> QED BY <2>1, <1>4
<1> QED BY <1>4, <1>5, <1>6, <1>7 DEF t, u

LEMMA ComesApart ==
    ASSUME NEW s \in Seq(Chars), NEW e \in Seq(Chars), \A i \in 1 .. Len(e) : e[i] # "/"
    PROVE  LET t == s \o <<"/">> \o e IN Dirname(t) = s /\ Basename(t) = e
<1> DEFINE t == s \o <<"/">> \o e
           n == Len(s)
           k == Len(e)
<1>1. /\ t \in Seq(Chars) /\ Len(t) = n + 1 + k
      /\ \A i \in 1 .. n : t[i] = s[i]
      /\ t[n + 1] = "/"
      /\ \A i \in 1 .. k : t[n + 1 + i] = e[i]
  BY JoinedAre
<1>2. n \in Nat /\ k \in Nat
  BY LenProperties
<1>3. DOMAIN t = 1 .. n + 1 + k
  BY <1>1, LenProperties
<1>4. \A i \in 1 .. k : e[i] # "/"
  OBVIOUS
<1> HIDE DEF t, n, k
<1>5. n + 1 \in DOMAIN t /\ t[n + 1] = "/" /\ \A j \in n + 1 + 1 .. Len(t) : t[j] # "/"
  <2>1. ASSUME NEW j \in n + 1 + 1 .. Len(t) PROVE t[j] # "/"
    <3>1. j - (n + 1) \in 1 .. k /\ n + 1 + (j - (n + 1)) = j
      BY <1>1, <1>2
    <3>2. t[j] = e[j - (n + 1)]
      BY <3>1, <1>1
    <3> QED BY <3>1, <3>2, <1>4
  <2> QED BY <2>1, <1>1, <1>2, <1>3
<1>6. ASSUME NEW i \in DOMAIN t, t[i] = "/", \A j \in i + 1 .. Len(t) : t[j] # "/"
      PROVE  i = n + 1
  <2>1. i \in 1 .. n + 1 + k
    BY <1>3
  <2>2. ~(i < n + 1)
    BY <1>1, <1>2, <1>6, <2>1
  <2>3. ~(i > n + 1)
    BY <1>1, <1>2, <1>5, <1>6, <2>1
  <2> QED BY <1>2, <2>1, <2>2, <2>3
<1>7. LastSlash(t) = n + 1
  BY <1>5, <1>6 DEF LastSlash
<1>8. Dirname(t) = s
  <2>1. Dirname(t) = SubSeq(t, 1, n)
    BY <1>2, <1>7 DEF Dirname
  <2>2. /\ SubSeq(t, 1, n) \in Seq(Chars) /\ Len(SubSeq(t, 1, n)) = n
        /\ \A i \in 1 .. n : SubSeq(t, 1, n)[i] = t[i]
    <3>1. 1 \in Int /\ n \in Int /\ \A i \in 1 .. n : t[i] \in Chars
      BY <1>1, <1>2, ElementOfSeq
    <3>2. /\ SubSeq(t, 1, n) \in Seq(Chars) /\ Len(SubSeq(t, 1, n)) = IF 1 <= n THEN n - 1 + 1 ELSE 0
          /\ \A i \in 1 .. n - 1 + 1 : SubSeq(t, 1, n)[i] = t[1 + i - 1]
      BY <3>1, SubSeqProperties
    <3> QED BY <1>2, <3>2
  <2>3. SubSeq(t, 1, n) = s
    BY <2>2, <1>1, SeqEqual DEF n
  <2> QED BY <2>1, <2>3
<1>9. Basename(t) = e
  <2>1. Basename(t) = SubSeq(t, n + 1 + 1, n + 1 + k)
    BY <1>1, <1>7 DEF Basename
  <2> DEFINE b == SubSeq(t, n + 1 + 1, n + 1 + k)
  <2>2. /\ b \in Seq(Chars) /\ Len(b) = k
        /\ \A i \in 1 .. k : b[i] = e[i]
    <3>1. n + 1 + 1 \in Int /\ n + 1 + k \in Int /\ \A i \in n + 1 + 1 .. n + 1 + k : t[i] \in Chars
      <4>1. \A i \in n + 1 + 1 .. n + 1 + k : i \in 1 .. Len(t)
        BY <1>1, <1>2
      <4> QED BY <4>1, <1>1, <1>2, ElementOfSeq
    <3>2. /\ b \in Seq(Chars)
          /\ Len(b) = IF n + 1 + 1 <= n + 1 + k THEN (n + 1 + k) - (n + 1 + 1) + 1 ELSE 0
          /\ \A i \in 1 .. (n + 1 + k) - (n + 1 + 1) + 1 : b[i] = t[(n + 1 + 1) + i - 1]
      BY <3>1, SubSeqProperties
    <3> HIDE DEF b
    <3>3. Len(b) = k
      BY <1>2, <3>2
    <3>4. ASSUME NEW i \in 1 .. k PROVE b[i] = e[i]
      <4>1. i \in 1 .. (n + 1 + k) - (n + 1 + 1) + 1 /\ (n + 1 + 1) + i - 1 = n + 1 + i
        BY <1>2
      <4>2. b[i] = t[n + 1 + i]
        BY <4>1, <3>2
      <4> QED BY <4>2, <1>1
    <3> QED BY <3>2, <3>3, <3>4
  <2>3. b = e
    <3> HIDE DEF b
    <3> QED BY <2>2, SeqEqual DEF k
  <2> QED BY <2>1, <2>3
<1> QED BY <1>8, <1>9 DEF t

(* It leads through one directory more than what it was joined to.         *)
LEMMA JoinedAbove ==
    ASSUME NEW s \in Seq(Chars), NEW e \in Seq(Chars), \A i \in 1 .. Len(e) : e[i] # "/"
    PROVE  Above(s \o <<"/">> \o e) = Above(s) \union {s}
<1> DEFINE t == s \o <<"/">> \o e
           n == Len(s)
           k == Len(e)
<1>1. /\ t \in Seq(Chars) /\ Len(t) = n + 1 + k
      /\ \A i \in 1 .. n : t[i] = s[i]
      /\ t[n + 1] = "/"
      /\ \A i \in 1 .. k : t[n + 1 + i] = e[i]
  BY JoinedAre
<1>2. n \in Nat /\ k \in Nat
  BY LenProperties
<1>3. DOMAIN t = 1 .. n + 1 + k /\ DOMAIN s = 1 .. n
  BY <1>1, LenProperties
<1>4. \A i \in 1 .. k : e[i] # "/"
  OBVIOUS
<1>s. s \in Seq(Chars) /\ Len(s) = n
  OBVIOUS
<1> HIDE DEF t, n, k
<1>5. {i \in DOMAIN t : t[i] = "/"} = {i \in DOMAIN s : s[i] = "/"} \union {n + 1}
  <2>1. ASSUME NEW i \in DOMAIN t, t[i] = "/", i # n + 1 PROVE i \in DOMAIN s /\ s[i] = "/"
    <3>1. \/ i \in 1 .. n
          \/ i - (n + 1) \in 1 .. k /\ n + 1 + (i - (n + 1)) = i
      BY <1>2, <1>3, <2>1
    <3> QED BY <3>1, <1>1, <1>3, <1>4, <2>1
  <2>2. ASSUME NEW i \in DOMAIN s, s[i] = "/" PROVE i \in DOMAIN t /\ t[i] = "/"
    BY <2>2, <1>1, <1>2, <1>3
  <2>3. n + 1 \in DOMAIN t
    BY <1>2, <1>3
  <2> QED BY <2>1, <2>2, <2>3, <1>1
<1>6. ASSUME NEW i \in 0 .. n PROVE SubSeq(t, 1, i) = SubSeq(s, 1, i)
  <2>0. i \in Nat /\ i <= n
    BY <1>2
  <2>1. \A j \in 1 .. i : t[j] \in Chars /\ s[j] \in Chars
    <3>1. \A j \in 1 .. i : j \in 1 .. Len(t) /\ j \in 1 .. Len(s)
      BY <2>0, <1>1, <1>2, <1>s
    <3> QED BY <3>1, <1>1, <1>s, ElementOfSeq
  <2>2. /\ SubSeq(t, 1, i) \in Seq(Chars) /\ Len(SubSeq(t, 1, i)) = i
        /\ \A j \in 1 .. i : SubSeq(t, 1, i)[j] = t[j]
    <3>1. /\ SubSeq(t, 1, i) \in Seq(Chars)
          /\ Len(SubSeq(t, 1, i)) = IF 1 <= i THEN i - 1 + 1 ELSE 0
          /\ \A j \in 1 .. i - 1 + 1 : SubSeq(t, 1, i)[j] = t[1 + j - 1]
      BY <2>0, <2>1, SubSeqProperties
    <3> QED BY <2>0, <3>1
  <2>3. /\ SubSeq(s, 1, i) \in Seq(Chars) /\ Len(SubSeq(s, 1, i)) = i
        /\ \A j \in 1 .. i : SubSeq(s, 1, i)[j] = s[j]
    <3>1. /\ SubSeq(s, 1, i) \in Seq(Chars)
          /\ Len(SubSeq(s, 1, i)) = IF 1 <= i THEN i - 1 + 1 ELSE 0
          /\ \A j \in 1 .. i - 1 + 1 : SubSeq(s, 1, i)[j] = s[1 + j - 1]
      BY <2>0, <2>1, SubSeqProperties
    <3> QED BY <2>0, <3>1
  <2>4. \A j \in 1 .. i : t[j] = s[j]
    BY <2>0, <1>1, <1>2
  <2>5. \A j \in 1 .. i : SubSeq(t, 1, i)[j] = SubSeq(s, 1, i)[j]
    BY <2>2, <2>3, <2>4
  <2> QED BY <2>2, <2>3, <2>5, SeqEqual
<1>7. SubSeq(s, 1, n) = s
  <2>1. /\ SubSeq(s, 1, n) \in Seq(Chars) /\ Len(SubSeq(s, 1, n)) = n
        /\ \A i \in 1 .. n : SubSeq(s, 1, n)[i] = s[i]
    <3>1. 1 \in Int /\ n \in Int /\ \A i \in 1 .. n : s[i] \in Chars
      BY <1>s, <1>2, ElementOfSeq
    <3>2. /\ SubSeq(s, 1, n) \in Seq(Chars) /\ Len(SubSeq(s, 1, n)) = IF 1 <= n THEN n - 1 + 1 ELSE 0
          /\ \A i \in 1 .. n - 1 + 1 : SubSeq(s, 1, n)[i] = s[1 + i - 1]
      BY <3>1, SubSeqProperties
    <3> QED BY <1>2, <3>2
  <2> QED BY <2>1, <1>s, SeqEqual
<1>8. n + 1 - 1 = n /\ SubSeq(t, 1, n) = s
  <2>1. n \in 0 .. n /\ n + 1 - 1 = n
    BY <1>2
  <2>2. SubSeq(t, 1, n) = SubSeq(s, 1, n)
    BY <2>1, <1>6
  <2> QED BY <2>1, <2>2, <1>7
<1>9. ASSUME NEW i \in DOMAIN s PROVE SubSeq(t, 1, i - 1) = SubSeq(s, 1, i - 1)
  <2> DEFINE m == i - 1
  <2>1. m \in 0 .. n
    BY <1>2, <1>3
  <2> HIDE DEF m
  <2>2. SubSeq(t, 1, m) = SubSeq(s, 1, m)
    BY <2>1, <1>6
  <2> QED BY <2>2 DEF m
<1> DEFINE Slashes == {j \in DOMAIN s : s[j] = "/"}
           Up(i) == SubSeq(t, 1, i - 1)
           last == n + 1
<1>10. Above(t) = {Up(i) : i \in Slashes} \union {Up(last)}
  <2>1. Above(t) = {Up(i) : i \in Slashes \union {last}}
    BY <1>5 DEF Above
  <2> HIDE DEF Slashes, Up, last
  <2>2. {Up(i) : i \in Slashes \union {last}} = {Up(i) : i \in Slashes} \union {Up(last)}
    BY Zenon
  <2> QED BY <2>1, <2>2
<1>11. Above(t) = {SubSeq(s, 1, i - 1) : i \in Slashes} \union {s}
  <2>1. \A i \in Slashes : Up(i) = SubSeq(s, 1, i - 1)
    BY <1>9
  <2>4. last - 1 = n
    BY <1>2
  <2> HIDE DEF last
  <2>2. Up(last) = s
    <3>1. Up(last) = SubSeq(t, 1, last - 1)
      OBVIOUS
    <3> QED BY <3>1, <2>4, <1>8
  <2> HIDE DEF Slashes, Up
  <2>3. {Up(i) : i \in Slashes} = {SubSeq(s, 1, i - 1) : i \in Slashes}
    BY <2>1
  <2> QED BY <1>10, <2>2, <2>3
<1> QED BY <1>11 DEF Above, t

-----------------------------------------------------------------------------
(* The recursion of get_real_path, a component after the other.  Induction *)
(* is used in the form of the least counterexample.                        *)
LEMMA LeastNat ==
    ASSUME NEW S \in SUBSET Nat, S # {}
    PROVE  \E x \in S : \A y \in S : x <= y
<1> DEFINE R == OpToRel(<, Nat)
<1>1. \A x, y \in Nat : x < y => <<x, y>> \in R
  BY DEF OpToRel
<1>2. \E x \in S : \A y \in S : ~ (<<y, x>> \in R)
  BY NatLessThanWellFounded, WFMin
<1> HIDE DEF R
<1>3. ASSUME NEW x \in S, NEW y \in S, ~(<<y, x>> \in R) PROVE x <= y
  <2>1. x \in Nat /\ y \in Nat
    OBVIOUS
  <2> QED BY <2>1, <1>1, <1>3
<1> QED BY <1>2, <1>3

(* What holds at 0 and goes from k - 1 to k holds up to n.                 *)
LEMMA UpTo ==
    ASSUME NEW n \in Nat, NEW G, 0 \in G, \A k \in 1 .. n : k - 1 \in G => k \in G
    PROVE  \A k \in 0 .. n : k \in G
<1> DEFINE B == {k \in 0 .. n : k \notin G}
<1> SUFFICES ASSUME B # {} PROVE FALSE
  OBVIOUS
<1>1. B \in SUBSET Nat
  OBVIOUS
<1>2. PICK k \in B : \A y \in B : k <= y
  BY <1>1, LeastNat
<1>3. k \in 1 .. n
  BY <1>2
<1>4. k - 1 \in 0 .. n /\ k - 1 \notin B
  BY <1>2, <1>3
<1> QED BY <1>2, <1>3, <1>4

Stage(g, p) ==
    [k \in 0 .. Len(p) |-> IF k = 0 THEN <<>> ELSE g[k - 1] \o <<"/">> \o Encrypted(p[k])]

Walk(g, p, n) ==
    /\ \A k \in 0 .. n : g[k] \in Seq(Chars)
    /\ g[0] = <<>>
    /\ \A k \in 1 .. n : g[k] = g[k - 1] \o <<"/">> \o Encrypted(p[k])

LEMMA JoinedType ==
    ASSUME NEW s \in Seq(Chars), NEW n \in Names
    PROVE  s \o <<"/">> \o Encrypted(n) \in Seq(Chars)
BY JoinedAre, EncryptedIs

(* Every path can be walked.                                               *)
LEMMA WalkExists ==
    ASSUME NEW p \in Seq(Names)
    PROVE  \A n \in 0 .. Len(p) : \E g : Walk(g, p, n)
<1> DEFINE G == {n \in 0 .. Len(p) : \E g : Walk(g, p, n)}
<1>1. Len(p) \in Nat
  BY LenProperties
<1>2. 0 \in G
  <2>1. Walk([k \in {0} |-> <<>>], p, 0)
    BY DEF Walk
  <2> QED BY <2>1, <1>1
<1>3. ASSUME NEW k \in 1 .. Len(p), k - 1 \in G PROVE k \in G
  <2>1. PICK g : Walk(g, p, k - 1)
    BY <1>3
  <2> DEFINE last == g[k - 1] \o <<"/">> \o Encrypted(p[k])
             h == [j \in 0 .. k |-> IF j = k THEN last ELSE g[j]]
  <2>2. g[k - 1] \in Seq(Chars) /\ k - 1 \in 0 .. k - 1
    BY <1>1, <2>1 DEF Walk
  <2>3. last \in Seq(Chars)
    <3>1. p[k] \in Names
      BY ElementOfSeq
    <3> QED BY <2>2, <3>1, JoinedType
  <2>d. last = g[k - 1] \o <<"/">> \o Encrypted(p[k])
    OBVIOUS
  <2> HIDE DEF last
  <2>4. h[k] = last /\ \A j \in 0 .. k - 1 : h[j] = g[j]
    BY <1>1
  <2> HIDE DEF h
  <2>5. \A j \in 0 .. k : h[j] \in Seq(Chars)
    <3>1. \A j \in 0 .. k : j = k \/ j \in 0 .. k - 1
      BY <1>1
    <3> QED BY <3>1, <2>1, <2>3, <2>4 DEF Walk
  <2>6. h[0] = <<>>
    <3>1. 0 \in 0 .. k - 1
      BY <1>1
    <3> QED BY <3>1, <2>1, <2>4 DEF Walk
  <2>7. ASSUME NEW j \in 1 .. k PROVE h[j] = h[j - 1] \o <<"/">> \o Encrypted(p[j])
    <3>1. j - 1 \in 0 .. k - 1
      BY <1>1
    <3>2. CASE j = k
      BY <3>1, <3>2, <2>4, <2>d
    <3>3. CASE j # k
      <4>1. j \in 1 .. k - 1 /\ j \in 0 .. k - 1
        BY <3>3, <1>1
      <4>2. g[j] = g[j - 1] \o <<"/">> \o Encrypted(p[j])
        BY <4>1, <2>1 DEF Walk
      <4> QED BY <4>1, <4>2, <3>1, <2>4
    <3> QED BY <3>2, <3>3
  <2>8. Walk(h, p, k)
    BY <2>5, <2>6, <2>7 DEF Walk
  <2> QED BY <2>8, <1>1
<1>4. \A k \in 0 .. Len(p) : k \in G
  <2> HIDE DEF G
  <2> QED BY <1>1, <1>2, <1>3, UpTo
<1> QED BY <1>4

(* What RealPath says, written without recursion.                          *)
LEMMA RealPathIs ==
    ASSUME NEW p \in Seq(Names)
    PROVE  \E g : Walk(g, p, Len(p)) /\ RealPath(p) = g[Len(p)]
<1> DEFINE n == Len(p)
           h == CHOOSE g : g = Stage(g, p)
<1>1. n \in Nat
  BY LenProperties
<1>2. RealPath(p) = h[n]
  BY DEF RealPath, Stage
<1>3. PICK w : Walk(w, p, n)
  <2>1. n \in 0 .. Len(p)
    BY <1>1
  <2> QED BY <2>1, WalkExists
<1>4. \E g : g = Stage(g, p)
  <2> DEFINE v == [k \in 0 .. n |-> w[k]]
  <2>1. ASSUME NEW k \in 0 .. n
        PROVE  w[k] = IF k = 0 THEN <<>> ELSE v[k - 1] \o <<"/">> \o Encrypted(p[k])
    <3>1. CASE k = 0
      BY <3>1, <1>3 DEF Walk
    <3>2. CASE k # 0
      <4>1. k \in 1 .. n /\ k - 1 \in 0 .. n
        BY <3>2, <1>1
      <4>2. v[k - 1] = w[k - 1]
        BY <4>1
      <4>3. w[k] = w[k - 1] \o <<"/">> \o Encrypted(p[k])
        BY <4>1, <1>3 DEF Walk
      <4> QED BY <3>2, <4>2, <4>3
    <3> QED BY <3>1, <3>2
  <2>2. v = [k \in 0 .. n |-> IF k = 0 THEN <<>> ELSE v[k - 1] \o <<"/">> \o Encrypted(p[k])]
    <3>1. v = [k \in 0 .. n |-> w[k]]
      OBVIOUS
    <3> HIDE DEF v
    <3> QED BY <3>1, <2>1
  <2>3. v = Stage(v, p)
    <3> HIDE DEF v
    <3> QED BY <2>2 DEF Stage
  <2> QED BY <2>3
<1>5. h = Stage(h, p)
  BY <1>4
<1> HIDE DEF h
<1>6. h = [k \in 0 .. n |-> IF k = 0 THEN <<>> ELSE h[k - 1] \o <<"/">> \o Encrypted(p[k])]
  BY <1>5 DEF Stage
<1>7. h[0] = <<>> /\ \A k \in 1 .. n : h[k] = h[k - 1] \o <<"/">> \o Encrypted(p[k])
  <2>1. 0 \in 0 .. n /\ \A k \in 1 .. n : k \in 0 .. n /\ k # 0
    BY <1>1
  <2>2. h[0] = IF 0 = 0 THEN <<>> ELSE h[0 - 1] \o <<"/">> \o Encrypted(p[0])
    BY <1>6, <2>1
  <2>3. ASSUME NEW k \in 1 .. n
        PROVE  h[k] = IF k = 0 THEN <<>> ELSE h[k - 1] \o <<"/">> \o Encrypted(p[k])
    BY <1>6, <2>1
  <2> QED BY <2>1, <2>2, <2>3
<1>8. \A k \in 0 .. n : h[k] \in Seq(Chars)
  <2> DEFINE G == {k \in 0 .. n : h[k] \in Seq(Chars)}
  <2>1. 0 \in G
    <3>1. <<>> \in Seq(Chars) /\ 0 \in 0 .. n
      BY <1>1
    <3> QED BY <3>1, <1>7
  <2>2. ASSUME NEW k \in 1 .. n, k - 1 \in G PROVE k \in G
    <3>1. h[k - 1] \in Seq(Chars) /\ k \in 0 .. n
      BY <1>1, <2>2
    <3>2. p[k] \in Names
      BY ElementOfSeq
    <3>3. h[k] \in Seq(Chars)
      BY <3>1, <3>2, <1>7, JoinedType
    <3> QED BY <3>1, <3>3
  <2>3. \A k \in 0 .. n : k \in G
    <3> HIDE DEF G, n
    <3> QED BY <1>1, <2>1, <2>2, UpTo
  <2> QED BY <2>3
<1>9. Walk(h, p, n)
  BY <1>7, <1>8 DEF Walk
<1> QED BY <1>2, <1>9

(* Two walks on the same names end at the same place.                      *)
LEMMA WalkUnique ==
    ASSUME NEW n \in Nat, NEW p, NEW q, NEW g, NEW h, Walk(g, p, n), Walk(h, q, n),
           \A k \in 1 .. n : p[k] = q[k]
    PROVE  g[n] = h[n]
<1> DEFINE G == {k \in 0 .. n : g[k] = h[k]}
<1>1. 0 \in G
  BY DEF Walk
<1>2. ASSUME NEW k \in 1 .. n, k - 1 \in G PROVE k \in G
  <2>1. g[k - 1] = h[k - 1] /\ p[k] = q[k] /\ k \in 0 .. n
    BY <1>2
  <2>2. g[k] = g[k - 1] \o <<"/">> \o Encrypted(p[k]) /\ h[k] = h[k - 1] \o <<"/">> \o Encrypted(q[k])
    BY DEF Walk
  <2> QED BY <2>1, <2>2
<1>3. \A k \in 0 .. n : k \in G
  <2> HIDE DEF G
  <2> QED BY <1>1, <1>2, UpTo
<1> QED BY <1>3

LEMMA ParentIs ==
    ASSUME NEW p \in Seq(Names), p # <<>>
    PROVE  /\ Len(p) \in Nat \ {0} /\ p[Len(p)] \in Names
           /\ Tree!Parent(p) \in Seq(Names) /\ Len(Tree!Parent(p)) = Len(p) - 1
           /\ \A k \in 1 .. Len(p) - 1 : Tree!Parent(p)[k] = p[k]
<1> DEFINE n == Len(p)
           up == SubSeq(p, 1, n - 1)
<1>1. n \in Nat \ {0}
  BY EmptySeq
<1>2. p[n] \in Names
  <2>1. n \in 1 .. Len(p)
    BY <1>1
  <2> QED BY <2>1, ElementOfSeq
<1>3. \A k \in 1 .. n - 1 : p[k] \in Names
  <2>1. \A k \in 1 .. n - 1 : k \in 1 .. Len(p)
    BY <1>1
  <2> QED BY <2>1, ElementOfSeq
<1>4. /\ up \in Seq(Names) /\ Len(up) = IF 1 <= n - 1 THEN (n - 1) - 1 + 1 ELSE 0
      /\ \A k \in 1 .. (n - 1) - 1 + 1 : up[k] = p[1 + k - 1]
  <2>1. 1 \in Int /\ n - 1 \in Int
    BY <1>1
  <2> QED BY <2>1, <1>3, SubSeqProperties
<1>5. Tree!Parent(p) = up
  BY DEF Tree!Parent
<1> HIDE DEF up
<1>6. Len(up) = n - 1 /\ \A k \in 1 .. n - 1 : up[k] = p[k]
  <2> HIDE DEF n
  <2>1. (n - 1) - 1 + 1 = n - 1 /\ (~(1 <= n - 1) => n - 1 = 0) /\ \A k \in 1 .. n - 1 : 1 + k - 1 = k
    BY <1>1
  <2>2. Len(up) = n - 1
    BY <1>4, <2>1
  <2>3. ASSUME NEW k \in 1 .. n - 1 PROVE up[k] = p[k]
    <3>1. up[k] = p[1 + k - 1] /\ 1 + k - 1 = k
      BY <1>4, <2>1
    <3> QED BY <3>1
  <2> QED BY <2>2, <2>3
<1> QED BY <1>1, <1>2, <1>4, <1>5, <1>6

(* The real path of a path is that of its parent, a slash and the last     *)
(* name encrypted.                                                         *)
LEMMA RealPathSteps ==
    ASSUME NEW p \in Seq(Names)
    PROVE  /\ RealPath(p) \in Seq(Chars)
           /\ p = <<>> => RealPath(p) = <<>>
           /\ p # <<>> => RealPath(p) = RealPath(Tree!Parent(p)) \o <<"/">> \o Encrypted(p[Len(p)])
<1>1. PICK g : Walk(g, p, Len(p)) /\ RealPath(p) = g[Len(p)]
  BY RealPathIs
<1>2. Len(p) \in Nat /\ Len(p) \in 0 .. Len(p)
  BY LenProperties
<1>3. RealPath(p) \in Seq(Chars)
  BY <1>1, <1>2 DEF Walk
<1>4. CASE p = <<>>
  <2>1. Len(p) = 0
    BY <1>4
  <2> QED BY <2>1, <1>1, <1>3, <1>4 DEF Walk
<1>5. CASE p # <<>>
  <2> DEFINE up == Tree!Parent(p)
             n == Len(p) - 1
  <2>1. /\ Len(p) \in Nat \ {0} /\ up \in Seq(Names) /\ Len(up) = n
        /\ \A k \in 1 .. n : up[k] = p[k]
    BY <1>5, ParentIs
  <2> HIDE DEF up
  <2>2. PICK h : Walk(h, up, n) /\ RealPath(up) = h[n]
    <3>1. \E h : Walk(h, up, Len(up)) /\ RealPath(up) = h[Len(up)]
      BY <2>1, RealPathIs
    <3> QED BY <3>1, <2>1
  <2>3. n \in Nat
    BY <2>1
  <2>4. Walk(g, p, n)
    <3>1. (\A k \in 0 .. n : k \in 0 .. Len(p)) /\ (\A k \in 1 .. n : k \in 1 .. Len(p))
      BY <2>1
    <3> QED BY <3>1, <1>1 DEF Walk
  <2>5. g[n] = h[n]
    <3> HIDE DEF n
    <3> QED BY <2>1, <2>2, <2>3, <2>4, WalkUnique
  <2>6. g[Len(p)] = g[n] \o <<"/">> \o Encrypted(p[Len(p)])
    <3>1. Len(p) \in 1 .. Len(p)
      BY <2>1
    <3> QED BY <3>1, <1>1 DEF Walk
  <2> QED BY <1>1, <1>3, <1>5, <2>2, <2>5, <2>6 DEF up
<1> QED BY <1>4, <1>5

LEMMA RealPathComesApart ==
    ASSUME NEW p \in Seq(Names), p # <<>>
    PROVE  /\ RealPath(p) # <<>>
           /\ Dirname(RealPath(p)) = RealPath(Tree!Parent(p))
           /\ Basename(RealPath(p)) = Encrypted(p[Len(p)])
<1> DEFINE s == RealPath(Tree!Parent(p))
           e == Encrypted(p[Len(p)])
<1>1. Tree!Parent(p) \in Seq(Names) /\ p[Len(p)] \in Names
  BY ParentIs
<1>2. s \in Seq(Chars) /\ RealPath(p) = s \o <<"/">> \o e
  BY <1>1, RealPathSteps
<1>3. e \in Seq(Chars) /\ \A i \in 1 .. Len(e) : e[i] # "/"
  BY <1>1, EncryptedIs
<1> HIDE DEF s, e
<1>4. Dirname(s \o <<"/">> \o e) = s /\ Basename(s \o <<"/">> \o e) = e
  BY <1>2, <1>3, ComesApart
<1>5. s \o <<"/">> \o e # <<>>
  <2>1. Len(s \o <<"/">> \o e) = Len(s) + 1 + Len(e)
    BY <1>2, <1>3, JoinedAre
  <2>2. Len(s) \in Nat /\ Len(e) \in Nat
    BY <1>2, <1>3, LenProperties
  <2>3. Len(s \o <<"/">> \o e) # 0
    BY <2>1, <2>2
  <2> QED BY <2>3
<1> QED BY <1>2, <1>4, <1>5 DEF s, e

(* The way to a path is the way to its parent, and the parent.             *)
LEMMA AboveUp ==
    ASSUME NEW p \in Seq(Names), p # <<>>
    PROVE  Above(RealPath(p)) = Above(RealPath(Tree!Parent(p))) \union {RealPath(Tree!Parent(p))}
<1> DEFINE s == RealPath(Tree!Parent(p))
           e == Encrypted(p[Len(p)])
<1>1. Tree!Parent(p) \in Seq(Names) /\ p[Len(p)] \in Names
  BY ParentIs
<1>2. s \in Seq(Chars) /\ RealPath(p) = s \o <<"/">> \o e
  BY <1>1, RealPathSteps
<1>3. e \in Seq(Chars) /\ \A i \in 1 .. Len(e) : e[i] # "/"
  BY <1>1, EncryptedIs
<1> HIDE DEF s, e
<1>4. Above(RealPath(p)) = Above(s) \union {s}
  BY <1>2, <1>3, JoinedAbove
<1> QED BY <1>4 DEF s

LEMMA SamePath ==
    ASSUME NEW p \in Seq(Names), NEW q \in Seq(Names), p # <<>>, q # <<>>,
           Tree!Parent(p) = Tree!Parent(q), p[Len(p)] = q[Len(q)]
    PROVE  p = q
<1>1. /\ Len(p) \in Nat \ {0} /\ Len(Tree!Parent(p)) = Len(p) - 1
      /\ \A k \in 1 .. Len(p) - 1 : Tree!Parent(p)[k] = p[k]
  BY ParentIs
<1>2. /\ Len(q) \in Nat \ {0} /\ Len(Tree!Parent(q)) = Len(q) - 1
      /\ \A k \in 1 .. Len(q) - 1 : Tree!Parent(q)[k] = q[k]
  BY ParentIs
<1>3. Len(p) = Len(q)
  BY <1>1, <1>2
<1>4. ASSUME NEW k \in 1 .. Len(p) PROVE p[k] = q[k]
  <2>1. k = Len(p) \/ k \in 1 .. Len(p) - 1
    BY <1>1
  <2> QED BY <2>1, <1>1, <1>2, <1>3
<1> QED BY <1>3, <1>4, SeqEqual

(* No two paths have the same real path.                                   *)
LEMMA RealPathApart ==
    ASSUME NEW p \in Seq(Names), NEW q \in Seq(Names), RealPath(p) = RealPath(q)
    PROVE  p = q
<1> DEFINE Twins == {pq \in Seq(Names) \X Seq(Names) : RealPath(pq[1]) = RealPath(pq[2]) /\ pq[1] # pq[2]}
           B == {Len(pq[1]) : pq \in Twins}
<1> SUFFICES ASSUME p # q PROVE FALSE
  OBVIOUS
<1>1. <<p, q>> \in Twins
  OBVIOUS
<1>2. B \in SUBSET Nat
  <2>1. \A s \in Seq(Names) : Len(s) \in Nat
    BY LenProperties
  <2> QED BY <2>1
<1>3. PICK n \in B : \A m \in B : n <= m
  <2>1. B # {}
    BY <1>1
  <2> HIDE DEF B
  <2> QED BY <1>2, <2>1, LeastNat
<1>4. PICK a \in Seq(Names), b \in Seq(Names) : Len(a) = n /\ RealPath(a) = RealPath(b) /\ a # b
  BY <1>3
<1>5. a # <<>>
  <2> SUFFICES ASSUME a = <<>> PROVE FALSE
    OBVIOUS
  <2>1. RealPath(a) = <<>> /\ b # <<>>
    BY <1>4, RealPathSteps
  <2> QED BY <2>1, <1>4, RealPathComesApart
<1>6. b # <<>>
  <2> SUFFICES ASSUME b = <<>> PROVE FALSE
    OBVIOUS
  <2>1. RealPath(b) = <<>>
    BY RealPathSteps
  <2> QED BY <2>1, <1>4, <1>5, RealPathComesApart
<1> DEFINE up == Tree!Parent(a)
           vp == Tree!Parent(b)
<1>7. /\ RealPath(up) = RealPath(vp)
      /\ Encrypted(a[Len(a)]) = Encrypted(b[Len(b)])
  BY <1>4, <1>5, <1>6, RealPathComesApart
<1>8. /\ up \in Seq(Names) /\ vp \in Seq(Names) /\ Len(up) = Len(a) - 1 /\ Len(a) \in Nat \ {0}
      /\ a[Len(a)] \in Names /\ b[Len(b)] \in Names
  BY <1>5, <1>6, ParentIs
<1>9. a[Len(a)] = b[Len(b)]
  BY <1>7, <1>8, EncryptedApart
<1>10. up # vp
  BY <1>4, <1>5, <1>6, <1>9, SamePath
<1> HIDE DEF up, vp
<1>11. <<up, vp>> \in Twins
  BY <1>7, <1>8, <1>10
<1>12. Len(up) \in B
  <2>1. <<up, vp>>[1] = up
    OBVIOUS
  <2> HIDE DEF Twins
  <2> QED BY <1>11, <2>1
<1> HIDE DEF B
<1> QED BY <1>3, <1>4, <1>8, <1>12


-----------------------------------------------------------------------------
(* The backing tree: everything in it is the real path of a path, in a     *)
(* directory that is there, and what is open under its name is there too.  *)
TreeInv ==
    /\ \A s \in DOMAIN backing : \E p \in Paths : s = RealPath(p)
    /\ <<>> \in DOMAIN backing /\ backing[<<>>].kind = "dir"
    /\ \A s \in DOMAIN backing \ {<<>>} :
           Dirname(s) \in DOMAIN backing /\ backing[Dirname(s)].kind = "dir"
    /\ \A f \in Files : info[f].named =>
           /\ RealPath(info[f].path) \in DOMAIN backing
           /\ backing[RealPath(info[f].path)].kind = info[f].kind
    /\ DiesOfOpendir

(* Whatever is there can only be out of reach for want of a permission:    *)
(* the directories on the way to it are there.                             *)
LEMMA DirsAbove ==
    ASSUME TreeInv, NEW p \in Seq(Names), RealPath(p) \in DOMAIN backing
    PROVE  \A t \in Above(RealPath(p)) : t \in DOMAIN backing /\ backing[t].kind = "dir"
<1> DEFINE Good(s) == \A t \in Above(s) : t \in DOMAIN backing /\ backing[t].kind = "dir"
           Lost == {q \in Seq(Names) : RealPath(q) \in DOMAIN backing /\ ~Good(RealPath(q))}
           B == {Len(q) : q \in Lost}
<1> SUFFICES ASSUME ~Good(RealPath(p)) PROVE FALSE
  OBVIOUS
<1>1. p \in Lost
  OBVIOUS
<1>2. B \in SUBSET Nat
  <2>1. \A s \in Seq(Names) : Len(s) \in Nat
    BY LenProperties
  <2> QED BY <2>1
<1>3. PICK n \in B : \A m \in B : n <= m
  <2>1. B # {}
    BY <1>1
  <2> HIDE DEF B
  <2> QED BY <1>2, <2>1, LeastNat
<1>4. PICK q \in Lost : Len(q) = n
  BY <1>3
<1>5. q \in Seq(Names) /\ RealPath(q) \in DOMAIN backing /\ ~Good(RealPath(q))
  BY <1>4
<1>6. q # <<>>
  <2>1. Above(<<>>) = {}
    BY DEF Above
  <2> QED BY <2>1, <1>5, RealPathSteps
<1> DEFINE up == Tree!Parent(q)
<1>7. /\ up \in Seq(Names) /\ Len(up) = Len(q) - 1 /\ Len(q) \in Nat \ {0}
  BY <1>5, <1>6, ParentIs
<1>8. RealPath(q) # <<>> /\ Dirname(RealPath(q)) = RealPath(up)
  BY <1>5, <1>6, RealPathComesApart
<1>9. RealPath(up) \in DOMAIN backing /\ backing[RealPath(up)].kind = "dir"
  BY <1>5, <1>8 DEF TreeInv
<1>10. Above(RealPath(q)) = Above(RealPath(up)) \union {RealPath(up)}
  BY <1>5, <1>6, AboveUp
<1> HIDE DEF up
<1>11. up \in Lost
  BY <1>5, <1>7, <1>9, <1>10
<1>12. Len(up) \in B
  <2> HIDE DEF Lost
  <2> QED BY <1>11
<1> HIDE DEF B, Lost, Good
<1> QED BY <1>3, <1>4, <1>7, <1>12

(* What can be made is a path below the root, in a directory.              *)
LEMMA CreatableIs ==
    ASSUME NEW p \in Paths, Creatable(RealPath(p))
    PROVE  /\ p # <<>> /\ RealPath(p) # <<>> /\ RealPath(p) \notin DOMAIN backing
           /\ Dirname(RealPath(p)) \in DOMAIN backing
           /\ backing[Dirname(RealPath(p))].kind = "dir"
<1>1. p \in Seq(Names) /\ RealPath(p) # <<>> /\ RealPath(p) \notin DOMAIN backing
  BY PathsAssumption DEF Creatable
<1>2. p # <<>>
  BY <1>1, RealPathSteps
<1>3. Dirname(RealPath(p)) \in Above(RealPath(p))
  BY <1>1, <1>2, RealPathComesApart, AboveUp
<1> QED BY <1>1, <1>2, <1>3 DEF Creatable, Reachable

LEMMA InitTree == ASSUME Init PROVE TreeInv
<1>1. DOMAIN backing = {<<>>} /\ backing[<<>>].kind = "dir" /\ alive
  BY DEF Init
<1>2. \A f \in Files : ~info[f].named
  BY DEF Init, NoInfo
<1>3. <<>> \in Paths /\ <<>> \in Seq(Names)
  BY PathsAssumption
<1>4. RealPath(<<>>) = <<>>
  BY <1>3, RealPathSteps
<1> QED BY <1>1, <1>2, <1>3, <1>4 DEF TreeInv, DiesOfOpendir

(* Steps that leave the tree and the names of what is open alone.          *)
LEMMA SameTree == ASSUME TreeInv, UNCHANGED <<backing, info, alive>>, fds' = fds \/ alive' PROVE TreeInv'
BY DEF TreeInv, DiesOfOpendir, OpenPaths

LEMMA MakeTree ==
    ASSUME TreeInv, NEW p \in Paths, NEW kind \in {"dir", "file"}, NEW mode, Make(p, kind, mode)
    PROVE  TreeInv'
<1> DEFINE s == RealPath(p)
<1>1. /\ s # <<>> /\ s \notin DOMAIN backing /\ Dirname(s) \in DOMAIN backing
      /\ backing[Dirname(s)].kind = "dir" /\ alive' /\ info' = info
      /\ backing' = [t \in DOMAIN backing \union {s} |->
                         IF t = s THEN [kind |-> kind, may |-> mode] ELSE backing[t]]
  BY CreatableIs DEF Make
<1> HIDE DEF s
<1>2. /\ DOMAIN backing' = DOMAIN backing \union {s}
      /\ \A t \in DOMAIN backing : t # s /\ backing'[t] = backing[t]
  BY <1>1
<1>3. \A t \in DOMAIN backing' : \E q \in Paths : t = RealPath(q)
  BY <1>2 DEF TreeInv, s
<1>4. \A t \in DOMAIN backing' \ {<<>>} : Dirname(t) \in DOMAIN backing' /\ backing'[Dirname(t)].kind = "dir"
  BY <1>1, <1>2 DEF TreeInv
<1> QED BY <1>1, <1>2, <1>3, <1>4 DEF TreeInv, DiesOfOpendir

(* A node that goes: a file, or a directory without entries.               *)
LEMMA ForgottenTree ==
    ASSUME TreeInv, NEW s, s \in DOMAIN backing, s # <<>>, backing[s].kind = "file" \/ Entries(s) = {},
           backing' = Forgotten(s), alive', NEW names \in SUBSET Files,
           \A f \in names : info[f].named /\ RealPath(info[f].path) # s,
           \A f \in Files : info'[f].named => f \in names /\ info'[f].path = info[f].path /\ info'[f].kind = info[f].kind
    PROVE  TreeInv'
<1>1. /\ DOMAIN backing' = DOMAIN backing \ {s}
      /\ \A t \in DOMAIN backing \ {s} : backing'[t] = backing[t]
  BY DEF Forgotten
<1>2. \A t \in DOMAIN backing \ {<<>>} : Dirname(t) # s
  BY DEF TreeInv, Entries
<1> QED BY <1>1, <1>2 DEF TreeInv, DiesOfOpendir

LEMMA UnlinkTree == ASSUME FdInv, TreeInv, NEW p \in Paths, Unlink(p) PROVE TreeInv'
<1> DEFINE names == {f \in Files : info[f].named}
<1>1. /\ RealPath(p) \in DOMAIN backing /\ backing[RealPath(p)].kind = "file" /\ alive'
      /\ backing' = Forgotten(RealPath(p)) /\ info' = info /\ p \notin OpenPaths
  BY DEF Unlink, Removable
<1>2. RealPath(p) # <<>>
  BY <1>1 DEF TreeInv
<1>3. ASSUME NEW f \in names PROVE info[f].named /\ RealPath(info[f].path) # RealPath(p)
  <2>1. info[f].path # p
    BY <1>1 DEF OpenPaths
  <2>2. info[f].path \in Seq(Names) /\ p \in Seq(Names)
    BY PathsAssumption DEF FdInv, InfoType
  <2> QED BY <2>1, <2>2, RealPathApart
<1> HIDE DEF names
<1>4. names \in SUBSET Files /\ \A f \in Files : info'[f].named => f \in names
  BY <1>1 DEF names
<1> QED BY <1>1, <1>2, <1>3, <1>4, ForgottenTree

LEMMA RmdirTree == ASSUME FdInv, TreeInv, NEW p \in Paths, Rmdir(p) PROVE TreeInv'
<1> DEFINE names == {f \in Files : info[f].named /\ info[f].path # p}
<1>1. /\ RealPath(p) \in DOMAIN backing /\ Entries(RealPath(p)) = {} /\ alive' /\ RealPath(p) # <<>>
      /\ backing' = Forgotten(RealPath(p))
      /\ info' = [f \in Files |-> [info[f] EXCEPT !.named = @ /\ info[f].path # p]]
  BY DEF Rmdir, Removable
<1>3. ASSUME NEW f \in names PROVE info[f].named /\ RealPath(info[f].path) # RealPath(p)
  <2>1. info[f].path \in Seq(Names) /\ p \in Seq(Names)
    BY PathsAssumption DEF FdInv, InfoType
  <2> QED BY <2>1, RealPathApart
<1>4. ASSUME NEW f \in Files, info'[f].named
      PROVE  f \in names /\ info'[f].path = info[f].path /\ info'[f].kind = info[f].kind
  <2>1. info[f] \in InfoType
    BY DEF FdInv
  <2>2. info'[f] = [info[f] EXCEPT !.named = @ /\ info[f].path # p]
    BY <1>1
  <2>3. /\ info'[f].named = (info[f].named /\ info[f].path # p)
        /\ info'[f].path = info[f].path /\ info'[f].kind = info[f].kind
    BY <2>1, <2>2 DEF InfoType
  <2> QED BY <1>4, <2>3
<1>5. names \in SUBSET Files
  OBVIOUS
<1> HIDE DEF names
<1> QED BY <1>1, <1>3, <1>4, <1>5, ForgottenTree

LEMMA ChmodTree ==
    ASSUME BackingInv, TreeInv, NEW p \in Paths, NEW mode, Chmod(p, mode)
    PROVE  TreeInv'
<1> DEFINE s == RealPath(p)
<1>1. /\ backing' = [backing EXCEPT ![s].may = mode] /\ s \in DOMAIN backing
      /\ alive' /\ info' = info
  BY DEF Chmod
<1>2. backing[s] \in Node
  BY <1>1 DEF BackingInv
<1> HIDE DEF s
<1>3. DOMAIN backing' = DOMAIN backing /\ \A t \in DOMAIN backing : backing'[t].kind = backing[t].kind
  BY <1>1, <1>2 DEF Node
<1> QED BY <1>1, <1>3 DEF TreeInv, DiesOfOpendir

LEMMA OpenedTree ==
    ASSUME FdInv, TreeInv, NEW p \in Paths, NEW kind \in {"dir", "file"}, NEW f \in Files, Opened(p, kind, f)
    PROVE  TreeInv'
<1>1. /\ RealPath(p) \in DOMAIN backing /\ backing[RealPath(p)].kind = kind /\ alive' /\ backing' = backing
      /\ \E fd : info' = [info EXCEPT ![f] = [open |-> TRUE, named |-> TRUE, path |-> p, kind |-> kind, fh |-> fd]]
  BY DEF Opened, Openable
<1>2. info'[f].path = p /\ info'[f].kind = kind /\ \A g \in Files \ {f} : info'[g] = info[g]
  BY <1>1 DEF FdInv
<1> QED BY <1>1, <1>2 DEF TreeInv, DiesOfOpendir

LEMMA ClosedTree ==
    ASSUME FdInv, TreeInv, NEW kind \in {"dir", "file"}, NEW f \in Files, Closed(f, kind)
    PROVE  TreeInv'
<1>1. /\ alive' /\ backing' = backing /\ info' = [info EXCEPT ![f] = NoInfo]
  BY DEF Closed
<1>2. ~info'[f].named /\ \A g \in Files \ {f} : info'[g] = info[g]
  BY <1>1 DEF FdInv, NoInfo
<1> QED BY <1>1, <1>2 DEF TreeInv, DiesOfOpendir

(* The one way to die: opendir gives NULL for what is there and is a       *)
(* directory, for want of a permission or of a descriptor.                 *)
LEMMA ReaddirTree == ASSUME FdInv, TreeInv, NEW f \in Files, Readdir(f) PROVE TreeInv'
<1> DEFINE s == RealPath(info[f].path)
<1>1. alive /\ info[f].named /\ info[f].kind = "dir" /\ backing' = backing /\ info' = info
  BY DEF Readdir
<1>2. CASE alive' = alive
  BY <1>1, <1>2, SameTree
<1>3. CASE ~Openable(s, "dir") /\ fds' = fds
  <2>1. s \in DOMAIN backing /\ backing[s].kind = "dir"
    BY <1>1 DEF TreeInv
  <2>2. Cardinality(fds) \in 0 .. MaxFds
    BY FdsFinite DEF FdInv
  <2>6. info[f].path \in Seq(Names)
    BY PathsAssumption DEF FdInv, InfoType
  <2>7. \A t \in Above(s) : t \in DOMAIN backing /\ backing[t].kind = "dir"
    BY <2>1, <2>6, DirsAbove
  <2>3. \/ "r" \notin backing[s].may
        \/ \E t \in Above(s) : "x" \notin backing[t].may
        \/ Cardinality(fds) = MaxFds
    BY <1>3, <2>1, <2>2, <2>7, FdsAssumption DEF Openable, Reachable
  <2>4. info[f].path \in OpenPaths
    BY <1>1 DEF OpenPaths
  <2>5. DiesOfOpendir'
    BY <1>1, <1>3, <2>3, <2>4 DEF DiesOfOpendir, OpenPaths
  <2> QED BY <1>1, <2>5 DEF TreeInv
<1> QED BY <1>2, <1>3 DEF Readdir

LEMMA NextTree == ASSUME FdInv, BackingInv, TreeInv, [Next]_vars PROVE TreeInv'
<1>1. ASSUME NEW p \in Paths, NEW mode \in Modes, Mkdir(p, mode) \/ Mknod(p, mode) PROVE TreeInv'
  BY <1>1, MakeTree DEF Mkdir, Mknod
<1>2. ASSUME NEW p \in Paths, Unlink(p) PROVE TreeInv'
  BY <1>2, UnlinkTree
<1>3. ASSUME NEW p \in Paths, Rmdir(p) PROVE TreeInv'
  BY <1>3, RmdirTree
<1>4. ASSUME NEW p \in Paths, NEW mode \in Modes, Chmod(p, mode) PROVE TreeInv'
  BY <1>4, ChmodTree
<1>5. ASSUME NEW p \in Paths, NEW f \in Files, Open(p, f) \/ Opendir(p, f) PROVE TreeInv'
  BY <1>5, OpenedTree DEF Open, Opendir
<1>6. ASSUME NEW f \in Files, Release(f) \/ Releasedir(f) PROVE TreeInv'
  BY <1>6, ClosedTree DEF Release, Releasedir
<1>7. ASSUME NEW f \in Files, Readdir(f) PROVE TreeInv'
  BY <1>7, ReaddirTree
<1>8. CASE Dead \/ UNCHANGED vars
  BY <1>8, SameTree DEF Dead, vars
<1> QED BY <1>1, <1>2, <1>3, <1>4, <1>5, <1>6, <1>7, <1>8 DEF Next

(* The tree of real paths is a tree: for any names whose cipher text is    *)
(* base64, any paths and any number of files and descriptors.              *)
THEOREM TreeInvariance == Spec => [](FdInv /\ BackingInv /\ TreeInv)
<1>1. Init => FdInv /\ BackingInv /\ TreeInv
  <2>1. Init => BackingInv
    BY DEF Init, BackingInv, Node
  <2> QED BY <2>1, InitFd, InitTree
<1>2. FdInv /\ BackingInv /\ TreeInv /\ [Next]_vars => (FdInv /\ BackingInv /\ TreeInv)'
  BY NextFd, NextBacking, NextTree
<1> QED BY <1>1, <1>2, PTL DEF Spec

(* The file system crashes (my_readdir uses the NULL opendir gave it) only *)
(* when the descriptors have run out, or the permission to read a          *)
(* directory that is open, or to search one on the way to it, was taken    *)
(* back; a directory removed under its name or a clash of two encrypted    *)
(* names is never the reason.                                              *)
THEOREM OnlyOpendirKills == Spec => []DiesOfOpendir
<1>1. TreeInv => DiesOfOpendir
  BY DEF TreeInv
<1> QED BY <1>1, TreeInvariance, PTL

(* Whatever base64 makes of a name, a slash in it included, a node of that *)
(* name can be made in a directory that can be reached, searched and       *)
(* written, if it is not too long.                                         *)
THEOREM NamesAreNeverRefused == Spec => []NothingRefused
<1>1. NothingRefused
  <2> SUFFICES ASSUME NEW p \in Paths, p # <<>>, RealPath(p) \notin DOMAIN backing,
                      RealPath(Tree!Parent(p)) \in DOMAIN backing,
                      backing[RealPath(Tree!Parent(p))].kind = "dir",
                      Reachable(RealPath(Tree!Parent(p))),
                      {"w", "x"} \subseteq backing[RealPath(Tree!Parent(p))].may,
                      Len(Base64[p[Len(p)]]) <= NameMax
               PROVE  Creatable(RealPath(p))
    BY DEF NothingRefused
  <2>1. p \in Seq(Names)
    BY PathsAssumption
  <2>2. /\ RealPath(p) # <<>>
        /\ Dirname(RealPath(p)) = RealPath(Tree!Parent(p))
        /\ Basename(RealPath(p)) = Encrypted(p[Len(p)])
    BY <2>1, RealPathComesApart
  <2>3. Len(Encrypted(p[Len(p)])) = Len(Base64[p[Len(p)]])
    BY <2>1, ParentIs, EncryptedIs
  <2>4. Above(RealPath(p)) = Above(RealPath(Tree!Parent(p))) \union {RealPath(Tree!Parent(p))}
    BY <2>1, AboveUp
  <2>5. Reachable(RealPath(p))
    BY <2>4 DEF Reachable
  <2> QED BY <2>2, <2>3, <2>5 DEF Creatable
<1> QED BY <1>1, PTL

-----------------------------------------------------------------------------
(* The refinement: what the users see is a DirTree.                        *)
Nodes == [p \in {q \in Paths : RealPath(q) \in DOMAIN backing} |-> backing[RealPath(p)].kind]

LEMMA NodesAre ==
    /\ DOMAIN Nodes = {q \in Paths : RealPath(q) \in DOMAIN backing}
    /\ \A q \in DOMAIN Nodes : q \in Seq(Names) /\ Nodes[q] = backing[RealPath(q)].kind
BY PathsAssumption DEF Nodes

(* A path whose real path is that of a path in use is in use.              *)
LEMMA ParentInUse ==
    ASSUME TreeInv, NEW p \in Paths, p # <<>>, Dirname(RealPath(p)) \in DOMAIN backing
    PROVE  Tree!Parent(p) \in DOMAIN Nodes
<1>1. p \in Seq(Names) /\ Tree!Parent(p) \in Seq(Names) /\ Dirname(RealPath(p)) = RealPath(Tree!Parent(p))
  BY PathsAssumption, ParentIs, RealPathComesApart
<1>2. PICK q \in Paths : RealPath(Tree!Parent(p)) = RealPath(q)
  BY <1>1 DEF TreeInv
<1>3. q \in Seq(Names)
  BY PathsAssumption
<1>4. Tree!Parent(p) = q
  BY <1>1, <1>2, <1>3, RealPathApart
<1> QED BY <1>1, <1>4, NodesAre

LEMMA InitIsTree == ASSUME Init PROVE Tree!Init
<1>1. DOMAIN backing = {<<>>} /\ backing[<<>>].kind = "dir" /\ listing = [of |-> <<>>, names |-> {}]
  BY DEF Init
<1>2. <<>> \in Paths /\ RealPath(<<>>) = <<>>
  BY PathsAssumption, RealPathSteps
<1>3. \A q \in Paths : RealPath(q) = <<>> => q = <<>>
  BY PathsAssumption, RealPathComesApart
<1>4. {q \in Paths : RealPath(q) \in DOMAIN backing} = {<<>>}
  BY <1>1, <1>2, <1>3
<1>5. Nodes = [p \in {<<>>} |-> "dir"]
  BY <1>1, <1>2, <1>4 DEF Nodes
<1> QED BY <1>1, <1>5 DEF Nodes, Tree!Init, Tree!Root

LEMMA MakeIsTree ==
    ASSUME TreeInv, NEW p \in Paths, NEW kind \in {"dir", "file"}, NEW mode, Make(p, kind, mode)
    PROVE  Tree!Make(p, kind)
<1> DEFINE s == RealPath(p)
<1>1. /\ s # <<>> /\ s \notin DOMAIN backing /\ Dirname(s) \in DOMAIN backing
      /\ backing[Dirname(s)].kind = "dir" /\ listing' = listing
      /\ backing' = [t \in DOMAIN backing \union {s} |->
                         IF t = s THEN [kind |-> kind, may |-> mode] ELSE backing[t]]
  BY CreatableIs DEF Make
<1>2. p # <<>> /\ p \notin DOMAIN Nodes /\ p \in Seq(Names)
  <2>1. p \in Seq(Names) /\ (p = <<>> => s = <<>>)
    BY PathsAssumption, RealPathSteps
  <2> QED BY <2>1, <1>1, NodesAre
<1>3. Tree!Parent(p) \in DOMAIN Nodes /\ Nodes[Tree!Parent(p)] = "dir"
  <2>1. Tree!Parent(p) \in DOMAIN Nodes
    BY <1>1, <1>2, ParentInUse
  <2>2. Dirname(s) = RealPath(Tree!Parent(p))
    BY <1>2, RealPathComesApart
  <2> QED BY <2>1, <2>2, <1>1, NodesAre
<1>4. Nodes' = [q \in DOMAIN Nodes \union {p} |-> IF q = p THEN kind ELSE Nodes[q]]
  <2>1. \A q \in Paths : RealPath(q) = s <=> q = p
    BY PathsAssumption, RealPathApart
  <2>2. /\ DOMAIN backing' = DOMAIN backing \union {s}
        /\ \A t \in DOMAIN backing \union {s} : backing'[t].kind = IF t = s THEN kind ELSE backing[t].kind
    BY <1>1
  <2> HIDE DEF s
  <2>3. {q \in Paths : RealPath(q) \in DOMAIN backing'} = DOMAIN Nodes \union {p}
    BY <2>1, <2>2, NodesAre
  <2>4. Nodes' = [q \in DOMAIN Nodes \union {p} |-> backing'[RealPath(q)].kind]
    BY <2>3 DEF Nodes
  <2>5. \A q \in DOMAIN Nodes \union {p} : backing'[RealPath(q)].kind = IF q = p THEN kind ELSE Nodes[q]
    BY <2>1, <2>2, NodesAre
  <2> QED BY <2>4, <2>5
<1> QED BY <1>1, <1>2, <1>3, <1>4 DEF Nodes, Tree!Make, Tree!Root

LEMMA ForgottenIsTree ==
    ASSUME TreeInv, NEW p \in Paths, p # <<>>, RealPath(p) \in DOMAIN backing,
           backing[RealPath(p)].kind = "file" \/ Entries(RealPath(p)) = {},
           backing' = Forgotten(RealPath(p)), listing' = listing
    PROVE  Tree!Remove(p)
<1> DEFINE s == RealPath(p)
<1>1. p \in DOMAIN Nodes
  BY NodesAre
<1>2. Tree!Children(p) = {}
  <2> SUFFICES ASSUME NEW q \in DOMAIN Nodes, q # <<>>, Tree!Parent(q) = p PROVE FALSE
    BY DEF Tree!Children, Tree!Root, Nodes
  <2>1. q \in Paths /\ q \in Seq(Names) /\ RealPath(q) \in DOMAIN backing
    BY NodesAre
  <2>2. RealPath(q) # <<>> /\ Dirname(RealPath(q)) = s
    BY <2>1, RealPathComesApart
  <2>3. backing[s].kind = "dir" /\ RealPath(q) \in Entries(s)
    BY <2>1, <2>2 DEF TreeInv, Entries
  <2> QED BY <2>3
<1>3. Nodes' = [q \in DOMAIN Nodes \ {p} |-> Nodes[q]]
  <2>1. \A q \in Paths : RealPath(q) = s <=> q = p
    BY PathsAssumption, RealPathApart
  <2>2. /\ DOMAIN backing' = DOMAIN backing \ {s}
        /\ \A t \in DOMAIN backing \ {s} : backing'[t] = backing[t]
    BY DEF Forgotten
  <2> HIDE DEF s
  <2>3. {q \in Paths : RealPath(q) \in DOMAIN backing'} = DOMAIN Nodes \ {p}
    BY <2>1, <2>2, NodesAre
  <2>4. Nodes' = [q \in DOMAIN Nodes \ {p} |-> backing'[RealPath(q)].kind]
    BY <2>3 DEF Nodes
  <2>5. \A q \in DOMAIN Nodes \ {p} : backing'[RealPath(q)].kind = Nodes[q]
    BY <2>1, <2>2, NodesAre
  <2> QED BY <2>4, <2>5
<1> QED BY <1>1, <1>2, <1>3 DEF Nodes, Tree!Remove, Tree!Root

(* The listing of a directory shows the names of its children.             *)
LEMMA ReaddirIsTree ==
    ASSUME FdInv, TreeInv, NEW f \in Files, Readdir(f), listing' # listing
    PROVE  Tree!List(info[f].path)
<1> DEFINE p == info[f].path
           s == RealPath(p)
<1>1. /\ info[f].named /\ info[f].kind = "dir" /\ backing' = backing
      /\ Openable(s, "dir")
      /\ listing' = [of |-> p, names |-> {Decrypted(Basename(t)) : t \in Entries(s)}]
  BY DEF Readdir
<1>2. p \in Paths /\ p \in Seq(Names)
  BY PathsAssumption DEF FdInv, InfoType
<1>3. p \in DOMAIN Nodes /\ Nodes[p] = "dir"
  <2>1. s \in DOMAIN backing /\ backing[s].kind = "dir"
    BY <1>1 DEF Openable
  <2> QED BY <1>2, <2>1, NodesAre
<1> DEFINE Below == {q \in DOMAIN Nodes : q # <<>> /\ Tree!Parent(q) = p}
<1>4. ASSUME NEW q \in Below
      PROVE  RealPath(q) \in Entries(s) /\ Decrypted(Basename(RealPath(q))) = q[Len(q)]
  <2>1. q \in Seq(Names) /\ q # <<>> /\ RealPath(q) \in DOMAIN backing
    BY NodesAre
  <2>2. RealPath(q) # <<>> /\ Dirname(RealPath(q)) = s /\ Basename(RealPath(q)) = Encrypted(q[Len(q)])
    BY <2>1, RealPathComesApart
  <2>3. Decrypted(Encrypted(q[Len(q)])) = q[Len(q)]
    BY <2>1, ParentIs, DecryptedIs
  <2> QED BY <2>1, <2>2, <2>3 DEF Entries
<1>5. ASSUME NEW t \in Entries(s) PROVE \E q \in Below : t = RealPath(q)
  <2>1. t \in DOMAIN backing /\ t # <<>> /\ Dirname(t) = s
    BY DEF Entries
  <2>2. PICK q \in Paths : t = RealPath(q)
    BY <2>1 DEF TreeInv
  <2>3. q \in Seq(Names) /\ q # <<>>
    BY <2>1, <2>2, PathsAssumption, RealPathSteps
  <2>4. RealPath(Tree!Parent(q)) = s /\ Tree!Parent(q) \in Seq(Names)
    BY <2>1, <2>2, <2>3, RealPathComesApart, ParentIs
  <2>5. Tree!Parent(q) = p
    BY <1>2, <2>4, RealPathApart
  <2> QED BY <2>1, <2>2, <2>3, <2>5, NodesAre
<1>6. {Decrypted(Basename(t)) : t \in Entries(s)} = {q[Len(q)] : q \in Below}
  <2> HIDE DEF Below, s
  <2> QED BY <1>4, <1>5
<1>7. Tree!Children(p) = Below
  BY DEF Tree!Children, Tree!Root, Nodes
<1>8. Nodes' = Nodes
  BY <1>1 DEF Nodes
<1> HIDE DEF Below
<1>9. listing' = [of |-> p, names |-> {q[Len(q)] : q \in Tree!Children(p)}]
  BY <1>1, <1>6, <1>7
<1> QED BY <1>3, <1>8, <1>9 DEF Tree!List, Nodes

LEMMA TreeStep == ASSUME FdInv, BackingInv, TreeInv, [Next]_vars PROVE [Tree!Next]_(Tree!treeVars)
<1>1. ASSUME UNCHANGED <<backing, listing>> PROVE [Tree!Next]_(Tree!treeVars)
  BY <1>1 DEF Tree!treeVars
<1>2. ASSUME NEW p \in Paths, NEW mode \in Modes, Mkdir(p, mode) \/ Mknod(p, mode) PROVE Tree!Next
  BY <1>2, MakeIsTree DEF Mkdir, Mknod, Tree!Next
<1>3. ASSUME NEW p \in Paths, Unlink(p) PROVE Tree!Next
  <2>1. p # <<>>
    <3>1. RealPath(<<>>) = <<>>
      BY PathsAssumption, RealPathSteps
    <3> QED BY <1>3, <3>1 DEF Unlink, Removable
  <2>2. Tree!Remove(p)
    BY <1>3, <2>1, ForgottenIsTree DEF Unlink, Removable
  <2> QED BY <2>2 DEF Tree!Next
<1>4. ASSUME NEW p \in Paths, Rmdir(p) PROVE Tree!Next
  <2>1. p # <<>>
    <3>1. RealPath(<<>>) = <<>>
      BY PathsAssumption, RealPathSteps
    <3> QED BY <1>4, <3>1 DEF Rmdir, Removable
  <2>2. Tree!Remove(p)
    BY <1>4, <2>1, ForgottenIsTree DEF Rmdir, Removable
  <2> QED BY <2>2 DEF Tree!Next
<1>5. ASSUME NEW p \in Paths, NEW mode \in Modes, Chmod(p, mode) PROVE UNCHANGED Tree!treeVars
  <2> DEFINE s == RealPath(p)
  <2>1. backing' = [backing EXCEPT ![s].may = mode] /\ s \in DOMAIN backing /\ listing' = listing
    BY <1>5 DEF Chmod
  <2>2. backing[s] \in Node
    BY <2>1 DEF BackingInv
  <2> HIDE DEF s
  <2>3. DOMAIN backing' = DOMAIN backing /\ \A t \in DOMAIN backing : backing'[t].kind = backing[t].kind
    BY <2>1, <2>2 DEF Node
  <2>4. Nodes' = Nodes
    BY <2>3 DEF Nodes
  <2> QED BY <2>1, <2>4 DEF Tree!treeVars, Nodes
<1>6. ASSUME NEW p \in Paths, NEW f \in Files, Open(p, f) \/ Opendir(p, f) PROVE [Tree!Next]_(Tree!treeVars)
  BY <1>1, <1>6 DEF Open, Opendir, Opened
<1>7. ASSUME NEW f \in Files, Release(f) \/ Releasedir(f) PROVE [Tree!Next]_(Tree!treeVars)
  BY <1>1, <1>7 DEF Release, Releasedir, Closed
<1>8. ASSUME NEW f \in Files, Readdir(f) PROVE [Tree!Next]_(Tree!treeVars)
  <2>1. CASE listing' = listing
    BY <1>1, <1>8, <2>1 DEF Readdir
  <2>2. CASE listing' # listing
    <3>1. info[f].path \in Paths
      BY PathsAssumption DEF FdInv, InfoType
    <3>2. Tree!List(info[f].path)
      BY <1>8, <2>2, ReaddirIsTree
    <3> QED BY <3>1, <3>2 DEF Tree!Next
  <2> QED BY <2>1, <2>2
<1>9. CASE Dead \/ UNCHANGED vars
  BY <1>1, <1>9 DEF Dead, vars
<1> QED BY <1>2, <1>3, <1>4, <1>5, <1>6, <1>7, <1>8, <1>9 DEF Next

(* Under encrypted names the backing tree is a tree of plain names, and    *)
(* a listing shows the names that were given: get_real_path sends no two   *)
(* paths to one place, and what it makes of a path leads where the path of *)
(* its parent leads.                                                       *)
THEOREM ImplementsTree == Spec => IsTree
<1>1. Init => Tree!Init
  BY InitIsTree
<1>2. FdInv /\ BackingInv /\ TreeInv /\ [Next]_vars => [Tree!Next]_(Tree!treeVars)
  BY TreeStep
<1> QED BY <1>1, <1>2, TreeInvariance, PTL DEF Spec, IsTree, Tree!Spec

=============================================================================
