----------------------------- MODULE CryptTree -----------------------------
(***************************************************************************)
(* Names, directories and descriptors of the encrypting file system:       *)
(* src/fuse/realmain.c, path_util.c and the two base64 functions of        *)
(* ssl-crypt.c.  Every component of a path is encrypted for itself, from   *)
(* the same key and initial vector; a slash in its base64 becomes a ^.     *)
(*                                                                         *)
(* The backing directories are those of root_dir, whose path is left out   *)
(* of the real paths.  A handler is one step: FUSE locks the paths it      *)
(* names, and handlers share nothing else.                                 *)
(***************************************************************************)
EXTENDS Integers, Sequences, FiniteSets

CONSTANTS
    Names,     \* what users call things
    Paths,     \* bound: the paths they use
    Alphabet,  \* the characters of base64
    Base64,    \* the cipher text of a name, in base64
    NameMax,   \* bytes the backing file system allows in a name
    Modes,     \* bound: what a mode leaves the server allowed to do
    Files,     \* bound: the fuse_file_infos
    MaxFds     \* descriptors the process may have

ASSUME PathsAssumption == <<>> \in Paths /\ \A p \in Paths : p \in Seq(Names)
ASSUME Base64Assumption ==
    /\ "^" \notin Alphabet
    /\ Base64 \in [Names -> Seq(Alphabet) \ {<<>>}]
    /\ \A m, n \in Names : Base64[m] = Base64[n] => m = n
ASSUME FdsAssumption == NameMax \in Nat /\ MaxFds \in Nat
ASSUME FilesAssumption == IsFiniteSet(Files)
ASSUME ModesAssumption == Modes \subseteq SUBSET {"r", "w", "x"} /\ {"r", "w", "x"} \in Modes

VARIABLES
    backing,   \* of every real path under root_dir its kind, and what the
               \* server may do with it: read, write, search
    info,      \* fi of every open file or directory: its path, kind and fh
    fds,       \* open descriptors of the process
    listed,    \* how often my_readdir has returned
    listing,   \* what it said last: a path and the names it gave filler
    alive      \* the process has not crashed

vars == <<backing, info, fds, listed, listing, alive>>

-----------------------------------------------------------------------------
(* my_encrypt_base64, my_decrypt_base64 and get_real_path.                 *)

(* strn_replace.                                                           *)
Replaced(s, original, replacement) ==
    [i \in DOMAIN s |-> IF s[i] = original THEN replacement ELSE s[i]]

(* Mutant: the slashes of base64 stay.                                     *)
Encrypted_slashed(n) == Base64[n]

Encrypted(n) == Replaced(Base64[n], "/", "^")

(* Mutant: the ^ stay when a name is read back.                            *)
Decrypted_kept(s) ==
    IF \E n \in Names : Base64[n] = s
    THEN CHOOSE n \in Names : Base64[n] = s
    ELSE "garbage"

Decrypted(s) ==
    LET base64 == Replaced(s, "^", "/") IN
    IF \E n \in Names : Base64[n] = base64
    THEN CHOOSE n \in Names : Base64[n] = base64
    ELSE "garbage"

(* The real path of /p[1]/p[2]/...                                         *)
RealPath(p) ==
    LET upto[k \in 0 .. Len(p)] ==
            IF k = 0 THEN <<>> ELSE upto[k - 1] \o <<"/">> \o Encrypted(p[k])
    IN upto[Len(p)]

-----------------------------------------------------------------------------
(* The backing file system takes a real path apart at its slashes.         *)

LastSlash(s) ==
    CHOOSE i \in DOMAIN s : s[i] = "/" /\ \A k \in i + 1 .. Len(s) : s[k] # "/"

Dirname(s)  == SubSeq(s, 1, LastSlash(s) - 1)
Basename(s) == SubSeq(s, LastSlash(s) + 1, Len(s))

Entries(s) == {t \in DOMAIN backing : t # <<>> /\ Dirname(t) = s}

(* The directories that a real path leads through.                         *)
Above(s) == {SubSeq(s, 1, i - 1) : i \in {k \in DOMAIN s : s[k] = "/"}}

(* Every one of them is there and may be searched.                         *)
Reachable(s) ==
    \A t \in Above(s) : t \in DOMAIN backing /\ backing[t].kind = "dir" /\ "x" \in backing[t].may

(* open, opendir: the node can be reached and read, and a descriptor is    *)
(* left.                                                                   *)
Openable(s, kind) ==
    /\ Reachable(s)
    /\ s \in DOMAIN backing
    /\ backing[s].kind = kind
    /\ "r" \in backing[s].may
    /\ Cardinality(fds) < MaxFds

(* The lowest descriptor that is free.                                     *)
NewFds == {fd \in (1 .. MaxFds) \ fds : \A n \in 1 .. fd - 1 : n \in fds}

Creatable(s) ==
    /\ s # <<>>
    /\ s \notin DOMAIN backing
    /\ Reachable(s)
    /\ "w" \in backing[Dirname(s)].may
    /\ Len(Basename(s)) <= NameMax

Removable(s, kind) ==
    /\ s # <<>>
    /\ s \in DOMAIN backing
    /\ backing[s].kind = kind
    /\ Reachable(s)
    /\ "w" \in backing[Dirname(s)].may

NoInfo == [open |-> FALSE, named |-> FALSE, path |-> <<>>, kind |-> "file", fh |-> 0]

(* The paths of files and directories that are open, unless removed since. *)
OpenPaths == {info[f].path : f \in {g \in Files : info[g].named}}

TypeOK ==
    /\ \A s \in DOMAIN backing : backing[s] \in [kind : {"dir", "file"}, may : SUBSET {"r", "w", "x"}]
    /\ info \in [Files -> [open : BOOLEAN, named : BOOLEAN, path : Paths \union {<<>>},
                           kind : {"dir", "file"}, fh : 0 .. MaxFds]]
    /\ fds \in SUBSET (1 .. MaxFds)
    /\ listed \in 0 .. MaxFds
    /\ listing.of \in Paths \union {<<>>} /\ listing.names \subseteq Names \union {"garbage"}
    /\ alive \in BOOLEAN

-----------------------------------------------------------------------------
Make(p, kind, mode) ==
    /\ alive
    /\ Creatable(RealPath(p))
    /\ backing' = [s \in DOMAIN backing \union {RealPath(p)} |->
                      IF s = RealPath(p) THEN [kind |-> kind, may |-> mode] ELSE backing[s]]
    /\ UNCHANGED <<info, fds, listed, listing, alive>>

(* my_mkdir.                                                               *)
Mkdir(p, mode) == Make(p, "dir", mode)

(* my_mknod, of a file.                                                    *)
Mknod(p, mode) == Make(p, "file", mode)

Forgotten(s) == [t \in DOMAIN backing \ {s} |-> backing[t]]

(* my_unlink.  What is open would have to be renamed first, which libfuse  *)
(* refuses for want of a rename operation.                                 *)
Unlink(p) ==
    /\ alive
    /\ p \notin OpenPaths
    /\ Removable(RealPath(p), "file")
    /\ backing' = Forgotten(RealPath(p))
    /\ UNCHANGED <<info, fds, listed, listing, alive>>

(* my_rmdir; libfuse forgets the name of a directory that is still open.   *)
Rmdir(p) ==
    /\ alive
    /\ Removable(RealPath(p), "dir")
    /\ Entries(RealPath(p)) = {}
    /\ backing' = Forgotten(RealPath(p))
    /\ info' = [f \in Files |-> [info[f] EXCEPT !.named = @ /\ info[f].path # p]]
    /\ UNCHANGED <<fds, listed, listing, alive>>

(* my_chmod.  What is open stays open.                                     *)
Chmod(p, mode) ==
    /\ alive
    /\ RealPath(p) \in DOMAIN backing
    /\ Reachable(RealPath(p))
    /\ backing' = [backing EXCEPT ![RealPath(p)].may = mode]
    /\ UNCHANGED <<info, fds, listed, listing, alive>>

(* The descriptor, or the DIR around it, becomes fi->fh.  Files are opened *)
(* for reading at least.  A call that fails changes nothing libfuse keeps.  *)
Opened(p, kind, f) ==
    /\ alive
    /\ ~info[f].open
    /\ Openable(RealPath(p), kind)
    /\ \E fd \in NewFds :
           /\ info' = [info EXCEPT ![f] = [open |-> TRUE, named |-> TRUE, path |-> p,
                                           kind |-> kind, fh |-> fd]]
           /\ fds' = fds \union {fd}
    /\ UNCHANGED <<backing, listed, listing, alive>>

(* my_open.                                                                *)
Open(p, f) == Opened(p, "file", f)

(* my_opendir.                                                             *)
Opendir(p, f) == Opened(p, "dir", f)

Closed(f, kind) ==
    /\ alive
    /\ info[f].open /\ info[f].kind = kind
    /\ fds' = fds \ {info[f].fh}
    /\ info' = [info EXCEPT ![f] = NoInfo]
    /\ UNCHANGED <<backing, listed, listing, alive>>

(* my_release.                                                             *)
Release(f) == Closed(f, "file")

(* Mutant: the directory is left open.                                     *)
Releasedir_leaks(f) ==
    /\ alive
    /\ info[f].open /\ info[f].kind = "dir"
    /\ info' = [info EXCEPT ![f] = NoInfo]
    /\ UNCHANGED <<backing, fds, listed, listing, alive>>

(* my_releasedir.                                                          *)
Releasedir(f) == Closed(f, "dir")

(* Mutant: the path is taken as it is.                                     *)
Readdir_plain(f) ==
    /\ alive
    /\ info[f].named /\ info[f].kind = "dir" /\ info[f].path # <<>>
    /\ alive' = FALSE
    /\ UNCHANGED <<backing, info, fds, listed, listing>>

(* my_readdir: it opens the directory by its path once more, although fi   *)
(* has it open, and never closes it.  Where opendir returns NULL, readdir  *)
(* is called with it.  filler may run out of memory.                       *)
Readdir(f) ==
    LET s == RealPath(info[f].path) IN
    /\ alive
    /\ info[f].named /\ info[f].kind = "dir"
    /\ \/ /\ Openable(s, "dir")
          /\ \E fd \in NewFds : fds' = fds \union {fd}
          /\ listed' = listed + 1
          /\ \/ listing' = [of    |-> info[f].path,
                            names |-> {Decrypted(Basename(t)) : t \in Entries(s)}]
             \/ UNCHANGED listing
          /\ UNCHANGED alive
       \/ /\ ~Openable(s, "dir")
          /\ alive' = FALSE
          /\ UNCHANGED <<fds, listed, listing>>
    /\ UNCHANGED <<backing, info>>

(* The process is gone.                                                    *)
Dead == ~alive /\ UNCHANGED vars

Init ==
    /\ backing = [s \in {<<>>} |-> [kind |-> "dir", may |-> {"r", "w", "x"}]]
    /\ info = [f \in Files |-> NoInfo]
    /\ fds = {}
    /\ listed = 0
    /\ listing = [of |-> <<>>, names |-> {}]
    /\ alive = TRUE

Next ==
    \/ \E p \in Paths :
           \/ \E mode \in Modes : Mkdir(p, mode) \/ Mknod(p, mode) \/ Chmod(p, mode)
           \/ Unlink(p) \/ Rmdir(p)
           \/ \E f \in Files : Open(p, f) \/ Opendir(p, f)
    \/ \E f \in Files : Release(f) \/ Releasedir(f) \/ Readdir(f)
    \/ Dead

Spec == Init /\ [][Next]_vars

-----------------------------------------------------------------------------
(* Under its encrypted names the backing tree is the tree that was asked   *)
(* for: every operation on a path does to the tree what it does to plain   *)
(* names, or nothing, and a listing shows the names that were given.       *)
Tree == INSTANCE DirTree WITH
            nodes <- [p \in {q \in Paths : RealPath(q) \in DOMAIN backing} |->
                          backing[RealPath(p)].kind]

IsTree == Tree!Spec

(* What a tree of plain names has room for can be made: in a directory     *)
(* that can be reached, searched and written no name is refused for what   *)
(* its cipher text looks like, unless that is too long.                    *)
NothingRefused ==
    \A p \in Paths :
        /\ p # <<>> /\ RealPath(p) \notin DOMAIN backing
        /\ LET up == RealPath(Tree!Parent(p)) IN
               /\ up \in DOMAIN backing /\ backing[up].kind = "dir"
               /\ Reachable(up) /\ {"w", "x"} \subseteq backing[up].may
        /\ Len(Base64[p[Len(p)]]) <= NameMax
        => Creatable(RealPath(p))

(* What is open has a descriptor of its own, and keeps it until its        *)
(* release: no handler closes what another one will use.                   *)
HandlesApart ==
    \A f \in Files : info[f].open =>
        /\ info[f].fh \in fds
        /\ \A g \in Files \ {f} : info[g].open => info[g].fh # info[f].fh

Counted == Cardinality(fds) = Cardinality({f \in Files : info[f].open}) + listed

(* A descriptor stays open for what is open, one for each, and one more    *)
(* for every time a directory was listed: nothing else is lost, and those  *)
(* are.                                                                    *)
Accounted == HandlesApart /\ Counted

(* The file system goes down only when no descriptor is left, or somebody  *)
(* took back the permission to read a directory that is open, or to search *)
(* one that the path to it leads through.                                  *)
DiesOfOpendir ==
    ~alive => \/ Cardinality(fds) = MaxFds
              \/ \E p \in OpenPaths : \/ "r" \notin backing[RealPath(p)].may
                                    \/ \E t \in Above(RealPath(p)) : "x" \notin backing[t].may
=============================================================================
