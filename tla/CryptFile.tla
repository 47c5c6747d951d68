----------------------------- MODULE CryptFile -----------------------------
(***************************************************************************)
(* One file of the encrypting file system, src/fuse/realmain.c with        *)
(* ssl-crypt.c: my_write encrypts each request for itself, from the same   *)
(* key and initial vector and with padding, and puts the cipher text where *)
(* the plain text was meant to go; my_read decrypts a request's worth of   *)
(* the backing file as if one write had made it.                           *)
(*                                                                         *)
(* AES-128-CBC is symbolic.  A cipher block is determined by the plain     *)
(* text from the start of its request to the end of the block, and gives   *)
(* back its plain text only behind the block it was chained to.            *)
(*                                                                         *)
(* A request is one step: the handlers of the threads of fuse_main share   *)
(* nothing but the backing file, which each touches in one system call.    *)
(* A call is answered before the next is considered, which costs no order  *)
(* of calls.                                                               *)
(***************************************************************************)
EXTENDS Integers, Sequences, FiniteSets

CONSTANTS
    Block,        \* bytes in a cipher block, 16 in the code
    Data,         \* what clients write: non-empty sequences of bytes
    Offsets,      \* where they read, write and truncate
    Sizes,        \* how much they ask for
    MaxLength,    \* bound: the longest backing file
    ShortWrites   \* pwrite may take only a part

ASSUME BlockAssumption == Block \in Nat \ {0}
ASSUME DataAssumption == \A d \in Data : d \in Seq(Nat) /\ d # <<>>
ASSUME OffsetsAssumption == Offsets \subseteq Nat
ASSUME SizesAssumption == Sizes \subseteq Nat \ {0}
ASSUME LengthAssumption == MaxLength \in Nat
ASSUME ShortWritesAssumption == ShortWrites \in BOOLEAN

VARIABLES
    backing,   \* the bytes of the file in root_dir
    length,    \* how long the client's own writes made the file
    intact,    \* requests whose cipher text no later call has touched
    reply      \* the last answer of my_read or my_write

vars == <<backing, length, intact, reply>>

-----------------------------------------------------------------------------
Larger(a, b)  == IF a >= b THEN a ELSE b
Smaller(a, b) == IF a <= b THEN a ELSE b

NoReply == [op |-> "none", off |-> 0, size |-> 0, bytes |-> <<>>, ret |-> 0]

(* A byte of a cipher block: the plain text it stands for, and its place.  *)
(* No request made Noise: the zeros of a hole, or what the stack held.     *)
Noise == [chain |-> <<>>, at |-> 0]

(* A plain byte that depends on more than the request's data.              *)
Unknown == -1

-----------------------------------------------------------------------------
(* my_encrypt_binary and my_decrypt_binary.                                *)

(* Mutant: no padding where the data ends with a block.                    *)
PadLength_whole(n) == (Block - (n % Block)) % Block

PadLength(n) == Block - (n % Block)

(* 1 to Block bytes are added, each of them their number.                  *)
Padded(data) == data \o [i \in 1 .. PadLength(Len(data)) |-> PadLength(Len(data))]

Encrypt(data) ==
    [i \in 1 .. Len(Padded(data)) |->
        [chain |-> SubSeq(Padded(data), 1, ((i - 1) \div Block + 1) * Block),
         at    |-> ((i - 1) % Block) + 1]]

(* Block number k of the cipher text d is the whole block of chain c.      *)
IsBlock(d, k, c) ==
    \A i \in 1 .. Block : d[(k - 1) * Block + i] = [chain |-> c, at |-> i]

(* The block before it in the chain is in its place: the initial vector,   *)
(* for the first block of a request.                                       *)
Chained(d, k, c) ==
    IF Len(c) = Block THEN k = 1
                      ELSE k > 1 /\ IsBlock(d, k - 1, SubSeq(c, 1, Len(c) - Block))

ClearByte(d, i) ==
    LET k == (i - 1) \div Block + 1
        c == d[i].chain
    IN IF c # <<>> /\ IsBlock(d, k, c) /\ Chained(d, k, c)
       THEN c[Len(c) - Block + ((i - 1) % Block) + 1]
       ELSE Unknown

(* How many bytes EVP_CipherFinal leaves of a last block: none when the    *)
(* padding is wrong; anything when the block is not known.                 *)
Unpadded(b) ==
    IF \E i \in 1 .. Block : b[i] = Unknown
    THEN 0 .. Block - 1
    ELSE {IF /\ b[Block] \in 1 .. Block
             /\ \A i \in Block - b[Block] + 1 .. Block : b[i] = b[Block]
          THEN Block - b[Block] ELSE 0}

(* BIO_read returns what was decrypted before the last block failed.  An   *)
(* odd end is not a block: it fails, and the whole ones before it stay.    *)
Decrypted(d) ==
    LET whole == (Len(d) \div Block) * Block
        clear == [i \in 1 .. whole |-> ClearByte(d, i)]
    IN IF Len(d) % Block # 0 THEN {clear}
       ELSE {SubSeq(clear, 1, whole - Block + n) :
                 n \in Unpadded(SubSeq(clear, whole - Block + 1, whole))}

-----------------------------------------------------------------------------
(* pwrite, ftruncate and pread on the backing file.                        *)

(* Mutant: the file is always opened with O_APPEND.                        *)
Overlay_appended(f, off, bytes) == f \o bytes

Overlay(f, off, bytes) ==
    [i \in 1 .. Larger(Len(f), off + Len(bytes)) |->
        IF i > off /\ i <= off + Len(bytes) THEN bytes[i - off]
        ELSE IF i <= Len(f) THEN f[i] ELSE Noise]

Resized(f, n) == [i \in 1 .. n |-> IF i <= Len(f) THEN f[i] ELSE Noise]

(* Mutant: what pread returned is decrypted, to the last whole block.      *)
Fetched_clipped(f, off, size) ==
    LET n == IF off >= Len(f) THEN Block ELSE Smaller(size, Len(f) - off) IN
    [i \in 1 .. n |-> IF off + i <= Len(f) THEN f[off + i] ELSE Noise]

(* The buffer after pread: behind the end of the file it is uninitialised. *)
Fetched(f, off, size) ==
    [i \in 1 .. size |-> IF off + i <= Len(f) THEN f[off + i] ELSE Noise]

-----------------------------------------------------------------------------
Untouched(w, off, n) == off + n <= w.off \/ w.off + Len(Padded(w.data)) <= off

TypeOK ==
    /\ \A i \in DOMAIN backing :
           \/ backing[i] = Noise
           \/ /\ backing[i].chain \in Seq(Nat) \ {<<>>}
              /\ Len(backing[i].chain) % Block = 0
              /\ backing[i].at \in 1 .. Block
    /\ Len(backing) <= MaxLength
    /\ length \in Nat
    /\ \A w \in intact : w.off \in Offsets /\ w.data \in Data
    /\ reply.op \in {"none", "read", "write"}

Init ==
    /\ backing = <<>>
    /\ length = 0
    /\ intact = {}
    /\ reply = NoReply

(* my_write; on a full disk pwrite takes n bytes of the cipher text.  It   *)
(* answers with what pwrite returned.                                      *)
Write(data, off, n) ==
    LET cipher == Encrypt(data) IN
    /\ reply = NoReply
    /\ off + Len(cipher) <= MaxLength
    /\ n \in 1 .. Len(cipher)
    /\ n < Len(cipher) => ShortWrites
    /\ backing' = Overlay(backing, off, SubSeq(cipher, 1, n))
    /\ length' = Larger(length, off + Smaller(n, Len(data)))
    /\ intact' = {w \in intact : Untouched(w, off, n)} \union
                 (IF n = Len(cipher) THEN {[off |-> off, data |-> data]} ELSE {})
    /\ reply' = [op |-> "write", off |-> off, size |-> Len(data), bytes |-> <<>>,
                 ret |-> n]

(* my_read: the whole buffer is decrypted, however little pread returned.  *)
Read(off, size) ==
    /\ reply = NoReply
    /\ \E bytes \in Decrypted(Fetched(backing, off, size)) :
           reply' = [op |-> "read", off |-> off, size |-> size, bytes |-> bytes,
                     ret |-> Len(bytes)]
    /\ UNCHANGED <<backing, length, intact>>

(* my_truncate and my_ftruncate: plain sizes go to the backing file.       *)
Truncate(n) ==
    /\ reply = NoReply
    /\ n <= MaxLength
    /\ backing' = Resized(backing, n)
    /\ length' = n
    /\ intact' = {w \in intact : w.off + Len(Padded(w.data)) <= n}
    /\ UNCHANGED reply

(* The client has the answer.                                              *)
Answered ==
    /\ reply # NoReply
    /\ reply' = NoReply
    /\ UNCHANGED <<backing, length, intact>>

Next ==
    \/ \E data \in Data, off \in Offsets :
           \E n \in 1 .. Len(Padded(data)) : Write(data, off, n)
    \/ \E off \in Offsets, size \in Sizes : Read(off, size)
    \/ \E n \in Offsets : Truncate(n)
    \/ Answered

Spec == Init /\ [][Next]_vars

-----------------------------------------------------------------------------
(* What one call of my_write was given comes back from a my_read that      *)
(* starts where it started and asks for all of its cipher text, whatever   *)
(* was written before, after and around it; asked for no more than that,   *)
(* my_read strips the padding and nothing else.                            *)
WrittenComesBack ==
    \A w \in intact :
        reply.op = "read" /\ reply.off = w.off /\ reply.size >= Len(Padded(w.data)) =>
            /\ Len(reply.bytes) >= Len(w.data)
            /\ SubSeq(reply.bytes, 1, Len(w.data)) = w.data
            /\ reply.size = Len(Padded(w.data)) => reply.bytes = w.data

(* The size that my_getattr and my_fgetattr show, which is the backing     *)
(* file's, is never less than what clients wrote and never more than a     *)
(* block ahead of it, although every request adds padding.                 *)
ShownSize ==
    /\ length <= Len(backing)
    /\ Len(backing) <= length + Block

(* my_read answers with what was asked for but for a block at most, before *)
(* the end of the file as behind it: the end is not seen by reading.       *)
ReadNearlyAll ==
    reply.op = "read" => reply.ret <= reply.size /\ reply.ret >= reply.size - Block

(* main.c and mymain.c: "Read should return exactly the number of bytes    *)
(* requested except on EOF or error".  my_read loses the last block of a   *)
(* request when it does not end in padding.                                *)
ReadExact == reply.op = "read" /\ reply.off + reply.size <= length =>
                 reply.ret = reply.size
=============================================================================
