-------------------------- MODULE CryptFileProofs --------------------------
(***************************************************************************)
(* Proofs about CryptFile, for every block length, every set of requests   *)
(* and every bound.                                                        *)
(***************************************************************************)
EXTENDS CryptFile, SequenceTheorems, TLAPS

(* The size a file shows, with what it takes to carry it from step to step.*)
SizeInv ==
    /\ length \in Nat
    /\ Len(backing) \in Nat
    /\ ShownSize

(* Padding adds between one byte and a block.                              *)
LEMMA PadLengthBound ==
    ASSUME NEW n \in Nat
    PROVE  PadLength(n) \in 1 .. Block
<1>1. n % Block \in 0 .. Block - 1
  BY BlockAssumption
<1> QED BY <1>1, BlockAssumption DEF PadLength

LEMMA PaddedLength ==
    ASSUME NEW data \in Data
    PROVE  /\ Padded(data) \in Seq(Nat)
           /\ Len(data) \in Nat \ {0}
           /\ Len(Padded(data)) = Len(data) + PadLength(Len(data))
<1> DEFINE pad == [i \in 1 .. PadLength(Len(data)) |-> PadLength(Len(data))]
<1>1. data \in Seq(Nat) /\ Len(data) \in Nat \ {0}
  BY DataAssumption
<1>2. PadLength(Len(data)) \in 1 .. Block
  BY <1>1, PadLengthBound
<1>3. pad \in Seq(Nat) /\ Len(pad) = PadLength(Len(data))
  BY <1>2, BlockAssumption
<1>4. Padded(data) = data \o pad
  BY DEF Padded
<1> HIDE DEF pad
<1>5. data \o pad \in Seq(Nat) /\ Len(data \o pad) = Len(data) + Len(pad)
  BY <1>1, <1>3, ConcatProperties
<1> QED BY <1>1, <1>3, <1>4, <1>5

(* Cipher text is as long as the padded data.                              *)
LEMMA CipherLength ==
    ASSUME NEW data \in Data
    PROVE  Len(Encrypt(data)) = Len(data) + PadLength(Len(data))
<1>1. Len(Padded(data)) \in Nat
  BY PaddedLength
<1>2. Len(Encrypt(data)) = Len(Padded(data))
  BY <1>1 DEF Encrypt
<1> QED BY <1>2, PaddedLength

(* A prefix of n bytes of a function on 1 .. m has n bytes.                *)
LEMMA PrefixLength ==
    ASSUME NEW s, Len(s) \in Nat, NEW n \in 1 .. Len(s)
    PROVE  Len(SubSeq(s, 1, n)) = n
  OBVIOUS

LEMMA OverlayLength ==
    ASSUME NEW f, NEW bytes, NEW off \in Nat, Len(f) \in Nat, Len(bytes) \in Nat
    PROVE  Len(Overlay(f, off, bytes)) = Larger(Len(f), off + Len(bytes))
<1>1. Larger(Len(f), off + Len(bytes)) \in Nat
  BY DEF Larger
<1> QED BY <1>1 DEF Overlay

LEMMA ResizedLength ==
    ASSUME NEW f, NEW n \in Nat
    PROVE  Len(Resized(f, n)) = n
  BY DEF Resized

-----------------------------------------------------------------------------
LEMMA WriteKeepsSize ==
    ASSUME SizeInv, NEW data \in Data, NEW off \in Offsets,
           NEW n \in 1 .. Len(Padded(data)), Write(data, off, n)
    PROVE  SizeInv'
<1> DEFINE cipher == Encrypt(data)
           part == SubSeq(cipher, 1, n)
           size == Len(data)
<1>1. size \in Nat /\ size # 0 /\ PadLength(size) \in 1 .. Block
  BY PaddedLength, PadLengthBound
<1>2. Len(cipher) = size + PadLength(size)
  BY CipherLength
<1>3. off \in Nat /\ n \in Nat /\ n <= size + Block
  BY <1>1, OffsetsAssumption, PaddedLength, BlockAssumption
<1>4. Len(part) = n
  <2>1. Len(cipher) \in Nat /\ n \in 1 .. Len(cipher)
    BY <1>1, <1>2, PaddedLength, BlockAssumption
  <2> QED BY <2>1, PrefixLength
<1>5. Len(backing') = Larger(Len(backing), off + n)
  <2>1. backing' = Overlay(backing, off, part)
    BY DEF Write
  <2>2. Len(backing) \in Nat
    BY DEF SizeInv
  <2> HIDE DEF part
  <2>3. Len(Overlay(backing, off, part)) = Larger(Len(backing), off + Len(part))
    BY <1>3, <1>4, <2>2, OverlayLength
  <2> QED BY <1>4, <2>1, <2>3
<1>6. length' = Larger(length, off + Smaller(n, size))
  BY DEF Write
<1> QED
  BY <1>1, <1>3, <1>5, <1>6, BlockAssumption DEF SizeInv, ShownSize, Larger, Smaller

LEMMA SizeStep == ASSUME SizeInv, [Next]_vars PROVE SizeInv'
<1>1. ASSUME NEW data \in Data, NEW off \in Offsets,
             NEW n \in 1 .. Len(Padded(data)), Write(data, off, n)
      PROVE  SizeInv'
  BY <1>1, WriteKeepsSize
<1>2. ASSUME NEW off \in Offsets, NEW size \in Sizes, Read(off, size)
      PROVE  SizeInv'
  BY <1>2 DEF Read, SizeInv, ShownSize
<1>3. ASSUME NEW n \in Offsets, Truncate(n)
      PROVE  SizeInv'
  <2>1. n \in Nat /\ Len(backing') = n /\ length' = n
    BY <1>3, OffsetsAssumption, ResizedLength DEF Truncate
  <2> QED BY <2>1, BlockAssumption DEF SizeInv, ShownSize
<1>4. CASE Answered
  BY <1>4 DEF Answered, SizeInv, ShownSize
<1>5. CASE UNCHANGED vars
  BY <1>5 DEF vars, SizeInv, ShownSize
<1> QED BY <1>1, <1>2, <1>3, <1>4, <1>5 DEF Next

(* However requests overlap, fall short or are followed by truncation, the *)
(* shown size is at most one block of padding ahead of the written one.    *)
THEOREM PaddingStaysInABlock == Spec => []ShownSize
<1>1. Init => SizeInv
  BY BlockAssumption DEF Init, SizeInv, ShownSize
<1>2. SizeInv /\ [Next]_vars => SizeInv'
  BY SizeStep
<1>3. SizeInv => ShownSize
  BY DEF SizeInv
<1> QED BY <1>1, <1>2, <1>3, PTL DEF Spec
-----------------------------------------------------------------------------
(* Arithmetic of blocks.                                                   *)

LEMMA Split ==
    ASSUME NEW i \in Nat
    PROVE  /\ i \div Block \in Nat
           /\ i % Block \in 0 .. Block - 1
           /\ i = (i \div Block) * Block + (i % Block)
  BY BlockAssumption

LEMMA SplitUnique ==
    ASSUME NEW q \in Nat, NEW r \in 0 .. Block - 1
    PROVE  (q * Block + r) \div Block = q /\ (q * Block + r) % Block = r
<1>1. (q * Block + r) \div Block = q
  BY BlockAssumption
<1>2. (q * Block + r) % Block = r
  BY BlockAssumption
<1> QED BY <1>1, <1>2

LEMMA Multiples ==
    ASSUME NEW p \in Nat, NEW q \in Nat
    PROVE  /\ p * Block \in Nat
           /\ (p + 1) * Block = p * Block + Block
           /\ p <= q => p * Block <= q * Block
           /\ p < q => p * Block + Block <= q * Block
<1>1. p * Block \in Nat /\ q * Block \in Nat
  BY BlockAssumption
<1>2. (p + 1) * Block = p * Block + Block
  BY BlockAssumption
<1>3. p <= q => p * Block <= q * Block
  BY BlockAssumption
<1>4. p + 1 <= q => (p + 1) * Block <= q * Block
  BY BlockAssumption
<1> QED BY <1>1, <1>2, <1>3, <1>4

(* Byte j of block k.                                                      *)
LEMMA BlockPlace ==
    ASSUME NEW k \in Nat \ {0}, NEW j \in 1 .. Block, NEW m, m = (k - 1) * Block + j
    PROVE  /\ m \in Nat
           /\ (m - 1) \div Block + 1 = k
           /\ ((m - 1) % Block) + 1 = j
           /\ (k - 1) * Block + Block = k * Block
<1>1. k - 1 \in Nat /\ j - 1 \in 0 .. Block - 1
  BY BlockAssumption
<1>2. (k - 1) * Block \in Nat /\ ((k - 1) + 1) * Block = (k - 1) * Block + Block
  BY <1>1, Multiples
<1>3. m \in Nat /\ (k - 1) * Block + (j - 1) = m - 1
  BY <1>1, <1>2, BlockAssumption
<1>4. /\ ((k - 1) * Block + (j - 1)) \div Block = k - 1
      /\ ((k - 1) * Block + (j - 1)) % Block = j - 1
  BY <1>1, SplitUnique
<1>5. (m - 1) \div Block = k - 1 /\ (m - 1) % Block = j - 1
  BY <1>3, <1>4, Zenon
<1>6. (k - 1) + 1 = k
  OBVIOUS
<1>7. (m - 1) \div Block + 1 = k /\ ((m - 1) % Block) + 1 = j
  BY <1>5, BlockAssumption
<1> QED BY <1>2, <1>3, <1>6, <1>7, Zenon

-----------------------------------------------------------------------------
(* What one request encrypts to decrypts to what it was given.             *)

Blocks(data) == Len(data) \div Block + 1

LEMMA WholeBlocks ==
    ASSUME NEW data \in Data
    PROVE  /\ Blocks(data) \in Nat \ {0}
           /\ Len(Padded(data)) = Blocks(data) * Block
<1>1. Len(data) \in Nat
  BY PaddedLength
<1>2. /\ Len(data) \div Block \in Nat
      /\ Len(data) % Block \in 0 .. Block - 1
      /\ Len(data) = (Len(data) \div Block) * Block + (Len(data) % Block)
  BY <1>1, Split
<1>3. (Len(data) \div Block + 1) * Block = (Len(data) \div Block) * Block + Block
  BY <1>2, Multiples
<1>4. (Len(data) \div Block) * Block \in Nat
  BY <1>2, Multiples
<1>5. Len(Padded(data)) = Len(data) + (Block - (Len(data) % Block))
  BY PaddedLength DEF PadLength
<1> QED BY <1>2, <1>3, <1>4, <1>5, BlockAssumption DEF Blocks

LEMMA PaddedNat ==
    ASSUME NEW data \in Data
    PROVE  Len(Padded(data)) \in Nat
  BY WholeBlocks, Multiples

(* The padding is where the data ends.                                     *)
LEMMA PaddedBytes ==
    ASSUME NEW data \in Data
    PROVE  /\ \A i \in 1 .. Len(data) : Padded(data)[i] = data[i]
           /\ \A i \in Len(data) + 1 .. Len(Padded(data)) :
                  Padded(data)[i] = PadLength(Len(data))
<1> DEFINE pad == [i \in 1 .. PadLength(Len(data)) |-> PadLength(Len(data))]
<1>1. data \in Seq(Nat) /\ Len(data) \in Nat
  BY DataAssumption
<1>2. PadLength(Len(data)) \in 1 .. Block
  BY <1>1, PadLengthBound
<1>3. pad \in Seq(Nat) /\ Len(pad) = PadLength(Len(data))
  BY <1>2, BlockAssumption
<1>4. \A i \in 1 .. PadLength(Len(data)) : pad[i] = PadLength(Len(data))
  OBVIOUS
<1>5. Padded(data) = data \o pad
  BY DEF Padded
<1> HIDE DEF pad
<1>6. \A i \in 1 .. Len(data) + Len(pad) :
          (data \o pad)[i] = IF i <= Len(data) THEN data[i] ELSE pad[i - Len(data)]
  BY <1>1, <1>3, ConcatProperties
<1>7. Len(Padded(data)) = Len(data) + PadLength(Len(data))
  BY PaddedLength
<1> QED BY <1>1, <1>2, <1>3, <1>4, <1>5, <1>6, <1>7, BlockAssumption

(* The chain of block k: the padded data up to its end.                    *)
ChainTo(data, k) == SubSeq(Padded(data), 1, k * Block)

LEMMA ChainProperties ==
    ASSUME NEW data \in Data, NEW k \in 1 .. Blocks(data)
    PROVE  /\ k * Block \in 1 .. Len(Padded(data))
           /\ Len(ChainTo(data, k)) = k * Block
           /\ ChainTo(data, k) # <<>>
           /\ \A i \in 1 .. k * Block : ChainTo(data, k)[i] = Padded(data)[i]
           /\ k > 1 => SubSeq(ChainTo(data, k), 1, k * Block - Block) = ChainTo(data, k - 1)
<1>1. Blocks(data) \in Nat \ {0} /\ Len(Padded(data)) = Blocks(data) * Block
  BY WholeBlocks
<1>2. k \in Nat /\ k - 1 \in Nat /\ k <= Blocks(data)
  BY <1>1
<1>3. k * Block \in 1 .. Len(Padded(data))
  <2>1. k * Block <= Blocks(data) * Block /\ k * Block \in Nat
    BY <1>1, <1>2, Multiples
  <2>2. (k - 1) * Block \in Nat /\ ((k - 1) + 1) * Block = (k - 1) * Block + Block
    BY <1>2, Multiples
  <2>3. (k - 1) + 1 = k
    BY <1>2
  <2> QED BY <1>1, <2>1, <2>2, <2>3, BlockAssumption
<1>4. Padded(data) \in Seq(Nat)
  BY PaddedLength
<1>5. /\ Len(ChainTo(data, k)) = k * Block
      /\ \A i \in 1 .. k * Block : ChainTo(data, k)[i] = Padded(data)[i]
  BY <1>3, <1>4 DEF ChainTo
<1>6. ASSUME k > 1
      PROVE  SubSeq(ChainTo(data, k), 1, k * Block - Block) = ChainTo(data, k - 1)
  <2>1. (k - 1) * Block = k * Block - Block
    <3>1. (k - 1) * Block \in Nat /\ ((k - 1) + 1) * Block = (k - 1) * Block + Block
      BY <1>2, Multiples
    <3>2. (k - 1) + 1 = k
      BY <1>2
    <3> QED BY <1>3, <3>1, <3>2, BlockAssumption
  <2>2. k * Block - Block \in 0 .. k * Block
    BY <1>2, <1>3, <2>1, Multiples, BlockAssumption
  <2>3. SubSeq(SubSeq(Padded(data), 1, k * Block), 1, k * Block - Block)
            = SubSeq(Padded(data), 1, k * Block - Block)
    BY <1>3, <1>4, <2>2
  <2> QED BY <2>1, <2>3 DEF ChainTo
<1>7. ChainTo(data, k) # <<>>
  BY <1>3, <1>5
<1> QED BY <1>3, <1>5, <1>6, <1>7

(* d starts with the cipher text of data.                                  *)
StartsWith(d, data) ==
    \A i \in 1 .. Len(Padded(data)) : d[i] = Encrypt(data)[i]

LEMMA CipherByte ==
    ASSUME NEW data \in Data, NEW k \in 1 .. Blocks(data), NEW j \in 1 .. Block
    PROVE  /\ (k - 1) * Block + j \in 1 .. Len(Padded(data))
           /\ Encrypt(data)[(k - 1) * Block + j] = [chain |-> ChainTo(data, k), at |-> j]
<1>0. PICK m : m = (k - 1) * Block + j
  OBVIOUS
<1>1. k \in Nat \ {0}
  BY WholeBlocks
<1>2. /\ m \in Nat
      /\ (m - 1) \div Block + 1 = k
      /\ ((m - 1) % Block) + 1 = j
      /\ (k - 1) * Block + Block = k * Block
  BY <1>0, <1>1, BlockPlace
<1>3. k * Block \in 1 .. Len(Padded(data)) /\ Len(Padded(data)) \in Nat
  BY ChainProperties, WholeBlocks, PaddedLength
<1>4. (k - 1) * Block \in Nat
  BY <1>1, Multiples
<1>5. m \in 1 .. Len(Padded(data))
  BY <1>0, <1>2, <1>3, <1>4, BlockAssumption
<1>6. Encrypt(data)[m] = [chain |-> SubSeq(Padded(data), 1, ((m - 1) \div Block + 1) * Block),
                          at    |-> ((m - 1) % Block) + 1]
  BY <1>5 DEF Encrypt
<1>7. Encrypt(data)[m] = [chain |-> ChainTo(data, k), at |-> j]
  BY <1>2, <1>6 DEF ChainTo
<1> QED BY <1>0, <1>5, <1>7

LEMMA CipherBlock ==
    ASSUME NEW d, NEW data \in Data, StartsWith(d, data), NEW k \in 1 .. Blocks(data)
    PROVE  IsBlock(d, k, ChainTo(data, k)) /\ Chained(d, k, ChainTo(data, k))
<1>1. \A n \in 1 .. Blocks(data) : IsBlock(d, n, ChainTo(data, n))
  <2> SUFFICES ASSUME NEW n \in 1 .. Blocks(data), NEW j \in 1 .. Block
               PROVE  d[(n - 1) * Block + j] = [chain |-> ChainTo(data, n), at |-> j]
    BY DEF IsBlock
  <2> QED BY CipherByte DEF StartsWith
<1>2. k \in Nat \ {0} /\ Blocks(data) \in Nat
  BY WholeBlocks
<1>3. Len(ChainTo(data, k)) = k * Block
  BY ChainProperties
<1>4. CASE k = 1
  <2>1. Len(ChainTo(data, k)) = Block
    BY <1>3, <1>4, BlockAssumption
  <2> QED BY <1>1, <1>2, <1>4, <2>1 DEF Chained
<1>5. CASE k > 1
  <2>1. Block + Block <= k * Block
    <3>1. 1 * Block + Block <= k * Block
      BY <1>2, <1>5, Multiples
    <3> QED BY <3>1, BlockAssumption
  <2>2. k * Block \in Nat
    BY <1>2, Multiples
  <2>3. SubSeq(ChainTo(data, k), 1, k * Block - Block) = ChainTo(data, k - 1)
    BY <1>5, ChainProperties
  <2>4. IsBlock(d, k - 1, ChainTo(data, k - 1))
    BY <1>1, <1>2, <1>5
  <2>5. Len(ChainTo(data, k)) # Block
    BY <1>3, <2>1, <2>2, BlockAssumption
  <2>6. SubSeq(ChainTo(data, k), 1, Len(ChainTo(data, k)) - Block) = ChainTo(data, k - 1)
    BY <1>3, <2>3
  <2> QED BY <1>1, <1>2, <1>5, <2>4, <2>5, <2>6 DEF Chained
<1> QED BY <1>1, <1>2, <1>4, <1>5

(* Every byte of it decrypts to the padded data's.                         *)
LEMMA ClearPlain ==
    ASSUME NEW d, NEW data \in Data, StartsWith(d, data),
           NEW i \in 1 .. Len(Padded(data))
    PROVE  ClearByte(d, i) = Padded(data)[i]
<1> DEFINE k == (i - 1) \div Block + 1
           j == ((i - 1) % Block) + 1
<1>0. i - 1 \in Nat /\ Len(Padded(data)) \in Nat
  BY WholeBlocks, Multiples, PaddedLength, BlockAssumption
<1>1. /\ (i - 1) \div Block \in Nat
      /\ (i - 1) % Block \in 0 .. Block - 1
      /\ i - 1 = ((i - 1) \div Block) * Block + ((i - 1) % Block)
  BY <1>0, Split
<1>2. k - 1 = (i - 1) \div Block /\ k \in Nat \ {0} /\ j \in 1 .. Block
  BY <1>1, BlockAssumption
<1>3. (k - 1) * Block \in Nat /\ i = (k - 1) * Block + j
  <2>1. j = ((i - 1) % Block) + 1
    OBVIOUS
  <2> HIDE DEF k, j
  <2>2. (k - 1) * Block = ((i - 1) \div Block) * Block
    BY <1>2
  <2>3. ((i - 1) \div Block) * Block \in Nat
    BY <1>1, Multiples
  <2> QED BY <1>0, <1>1, <2>1, <2>2, <2>3, BlockAssumption
<1>4. k \in 1 .. Blocks(data)
  <2>1. Blocks(data) \in Nat \ {0} /\ Len(Padded(data)) = Blocks(data) * Block
    BY WholeBlocks
  <2>2. CASE Blocks(data) < k
    <3>1. Blocks(data) <= k - 1 /\ k - 1 \in Nat
      BY <1>2, <2>1, <2>2
    <3>2. Blocks(data) * Block <= (k - 1) * Block
      BY <2>1, <3>1, Multiples
    <3> QED BY <1>0, <1>2, <1>3, <2>1, <3>2, BlockAssumption
  <2> QED BY <1>2, <2>1, <2>2
<1> HIDE DEF k, j
<1>5. d[i] = [chain |-> ChainTo(data, k), at |-> j]
  BY <1>2, <1>3, <1>4, CipherByte DEF StartsWith
<1>6. IsBlock(d, k, ChainTo(data, k)) /\ Chained(d, k, ChainTo(data, k))
  BY <1>4, CipherBlock
<1>7. /\ Len(ChainTo(data, k)) = k * Block
      /\ ChainTo(data, k) # <<>>
      /\ \A n \in 1 .. k * Block : ChainTo(data, k)[n] = Padded(data)[n]
  BY <1>4, ChainProperties
<1>8. k * Block = (k - 1) * Block + Block
  BY <1>2, BlockPlace
<1>9. k * Block - Block + ((i - 1) % Block) + 1 = i /\ i \in 1 .. k * Block
  BY <1>1, <1>2, <1>3, <1>8, BlockAssumption DEF j
<1>10. ClearByte(d, i) = ChainTo(data, k)[k * Block - Block + ((i - 1) % Block) + 1]
  BY <1>5, <1>6, <1>7 DEF ClearByte, k
<1> QED BY <1>7, <1>9, <1>10

(* A read from where the request starts, of its cipher text or more, gives *)
(* its data first; of exactly its cipher text, its data and nothing else.  *)
LEMMA ReadBack ==
    ASSUME NEW data \in Data, NEW d, Len(d) \in Nat,
           Len(d) >= Len(Padded(data)), StartsWith(d, data),
           NEW bytes \in Decrypted(d)
    PROVE  /\ Len(bytes) >= Len(data)
           /\ SubSeq(bytes, 1, Len(data)) = data
           /\ Len(d) = Len(Padded(data)) => bytes = data
<1> DEFINE size  == Len(d)
           n     == Len(data)
           pad   == PadLength(n)
           whole == (size \div Block) * Block
           clear == [i \in 1 .. whole |-> ClearByte(d, i)]
           last  == SubSeq(clear, whole - Block + 1, whole)
<1>1. /\ data \in Seq(Nat) /\ n \in Nat
      /\ Len(Padded(data)) = n + pad
      /\ Padded(data) \in Seq(Nat)
  BY DataAssumption, PaddedLength
<1>2. pad \in 1 .. Block
  BY <1>1, PadLengthBound
<1>3. /\ size \div Block \in Nat
      /\ size % Block \in 0 .. Block - 1
      /\ size = whole + (size % Block)
  BY Split
<1>4. /\ Blocks(data) \in Nat \ {0}
      /\ Len(Padded(data)) = Blocks(data) * Block
  BY WholeBlocks
<1>5. whole \in Nat
  BY <1>3, Multiples
<1>6. whole >= Len(Padded(data))
  <2>1. CASE size \div Block < Blocks(data)
    <3>1. whole + Block <= Blocks(data) * Block
      BY <1>3, <1>4, <2>1, Multiples
    <3> HIDE DEF whole
    <3> QED BY <1>3, <1>4, <1>5, <3>1, BlockAssumption
  <2>2. CASE Blocks(data) <= size \div Block
    BY <1>3, <1>4, <2>2, Multiples
  <2> QED BY <1>3, <1>4, <2>1, <2>2
<1>7. whole = Len(Padded(data)) \/ whole >= Len(Padded(data)) + Block
  <2>1. CASE Blocks(data) < size \div Block
    BY <1>3, <1>4, <2>1, Multiples
  <2>2. CASE Blocks(data) = size \div Block
    BY <1>4, <2>2
  <2>3. CASE size \div Block < Blocks(data)
    <3>1. whole + Block <= Len(Padded(data))
      BY <1>3, <1>4, <2>3, Multiples
    <3> HIDE DEF whole
    <3> QED BY <1>1, <1>2, <1>5, <1>6, <3>1, BlockAssumption
  <2> QED BY <1>3, <1>4, <2>1, <2>2, <2>3
<1>8. /\ Decrypted(d) = IF size % Block # 0 THEN {clear}
                        ELSE {SubSeq(clear, 1, whole - Block + u) : u \in Unpadded(last)}
      /\ Len(clear) = whole
      /\ \A i \in 1 .. whole : clear[i] = ClearByte(d, i)
  BY <1>5 DEF Decrypted
<1> HIDE DEF size, whole, clear, last
<1>9. \A i \in 1 .. n + pad : clear[i] = Padded(data)[i]
  <2>1. \A i \in 1 .. n + pad : i \in 1 .. whole /\ ClearByte(d, i) = Padded(data)[i]
    BY <1>1, <1>2, <1>5, <1>6, ClearPlain, BlockAssumption
  <2> QED BY <1>8, <2>1
<1>10. \A i \in 1 .. n : clear[i] = data[i]
  <2>1. \A i \in 1 .. n : Padded(data)[i] = data[i]
    BY PaddedBytes
  <2> HIDE DEF n, pad
  <2> QED BY <1>1, <1>2, <1>9, <2>1, BlockAssumption
<1>11. \A i \in n + 1 .. n + pad : clear[i] = pad
  BY <1>1, <1>2, <1>9, PaddedBytes, BlockAssumption
<1> HIDE DEF n, pad
<1>12. ASSUME NEW m \in Nat, n <= m, m <= whole, bytes = SubSeq(clear, 1, m)
       PROVE  Len(bytes) = m /\ SubSeq(bytes, 1, n) = data
  <2>1. Len(bytes) = m /\ \A i \in 1 .. m : bytes[i] = clear[i]
    BY <1>5, <1>8, <1>12
  <2> QED BY <1>1, <1>10, <1>12, <2>1 DEF n
<1>13. CASE size % Block # 0
  <2>1. bytes = clear
    BY <1>8, <1>13
  <2>2. Len(bytes) >= n /\ Len(d) # Len(Padded(data))
    <3>1. size # whole
      BY <1>3, <1>5, <1>13
    <3>2. Len(Padded(data)) <= size /\ Len(Padded(data)) <= whole
      BY <1>6 DEF size
    <3>3. size # Len(Padded(data))
      <4>1. (Blocks(data) * Block) % Block = 0
        <5>1. (Blocks(data) * Block + 0) % Block = 0
          BY <1>4, SplitUnique, BlockAssumption
        <5> QED BY <1>4, <5>1, Multiples
      <4> QED BY <1>4, <1>13, <4>1
    <3> QED BY <1>1, <1>2, <1>5, <1>8, <2>1, <3>2, <3>3, BlockAssumption DEF size
  <2>3. SubSeq(bytes, 1, n) = data
    BY <1>1, <1>2, <1>5, <1>6, <1>8, <1>10, <2>1, BlockAssumption DEF n
  <2> QED BY <2>2, <2>3 DEF n
<1>14. CASE size % Block = 0
  <2>1. size = whole
    BY <1>3, <1>5, <1>14
  <2>2. PICK u \in Unpadded(last) : bytes = SubSeq(clear, 1, whole - Block + u)
    BY <1>8, <1>14
  <2>3. CASE whole = Len(Padded(data))
    <3>1. whole = n + pad
      BY <1>1, <2>3
    <3>2. whole - Block + 1 \in 1 .. whole
      BY <1>1, <1>2, <1>4, <2>3, Multiples, BlockAssumption
    <3>3. \A i \in 1 .. Block : last[i] = clear[whole - Block + i]
      BY <1>5, <1>8, <3>2, BlockAssumption DEF last
    <3>4. \A i \in 1 .. Block : last[i] \in Nat
      <4> SUFFICES ASSUME NEW i \in 1 .. Block PROVE last[i] \in Nat
        OBVIOUS
      <4>1. whole - Block + i \in 1 .. n + pad
        BY <1>1, <1>2, <3>1, <3>2, BlockAssumption
      <4>2. Padded(data)[whole - Block + i] \in Nat
        BY <1>1, <4>1
      <4> QED BY <1>9, <3>3, <4>1, <4>2
    <3>5. \A i \in Block - pad + 1 .. Block : last[i] = pad
      <4> SUFFICES ASSUME NEW i \in Block - pad + 1 .. Block PROVE last[i] = pad
        OBVIOUS
      <4>1. i \in 1 .. Block /\ whole - Block + i \in n + 1 .. n + pad
        BY <1>1, <1>2, <3>1, BlockAssumption
      <4> QED BY <1>11, <3>3, <4>1
    <3>6. last[Block] = pad
      BY <1>2, <3>5, BlockAssumption
    <3>7. Unpadded(last) = {Block - pad}
      BY <1>2, <3>4, <3>5, <3>6, BlockAssumption DEF Unpadded, Unknown
    <3>8. bytes = SubSeq(clear, 1, n)
      BY <1>1, <1>2, <2>2, <3>1, <3>7, BlockAssumption
    <3>9. Len(bytes) = n /\ SubSeq(bytes, 1, n) = data
      <4>1. n \in Nat /\ n <= n /\ n <= whole
        BY <1>1, <1>2, <3>1, BlockAssumption
      <4> QED BY <1>12, <3>8, <4>1
    <3>10. bytes = data
      BY <1>1, <1>2, <1>5, <1>8, <1>10, <3>1, <3>8, BlockAssumption DEF n
    <3> QED BY <1>1, <3>9, <3>10 DEF n
  <2>4. CASE whole >= Len(Padded(data)) + Block
    <3>1. u \in 0 .. Block - 1
      BY <2>2, BlockAssumption DEF Unpadded
    <3>2. whole - Block + u \in Nat /\ n <= whole - Block + u /\ whole - Block + u <= whole
      BY <1>1, <1>2, <1>5, <2>4, <3>1, BlockAssumption
    <3>3. Len(bytes) = whole - Block + u /\ SubSeq(bytes, 1, n) = data
      BY <1>12, <2>2, <3>2
    <3>4. Len(d) # Len(Padded(data))
      BY <1>1, <1>2, <1>5, <2>1, <2>4, BlockAssumption DEF size
    <3> QED BY <3>2, <3>3, <3>4 DEF n
  <2> QED BY <1>7, <2>3, <2>4
<1> QED BY <1>13, <1>14

-----------------------------------------------------------------------------
(* The cipher text of an intact request is in the file, from where the     *)
(* request started.                                                        *)
Kept(w) ==
    /\ w.off \in Offsets /\ w.data \in Data
    /\ w.off + Len(Padded(w.data)) <= Len(backing)
    /\ \A i \in 1 .. Len(Padded(w.data)) : backing[w.off + i] = Encrypt(w.data)[i]

RoundInv ==
    /\ SizeInv
    /\ \A w \in intact : Kept(w)
    /\ WrittenComesBack

LEMMA WriteKeepsIntact ==
    ASSUME RoundInv, NEW data \in Data, NEW off \in Offsets,
           NEW n \in 1 .. Len(Padded(data)), Write(data, off, n),
           NEW w \in intact'
    PROVE  Kept(w)'
<1> DEFINE cipher == Encrypt(data)
           part   == SubSeq(cipher, 1, n)
           long   == Larger(Len(backing), off + n)
<1>1. off \in Nat /\ Len(backing) \in Nat /\ n \in Nat \ {0}
  BY OffsetsAssumption, PaddedLength, PadLengthBound DEF RoundInv, SizeInv
<1>2. Len(cipher) = Len(Padded(data)) /\ n \in 1 .. Len(cipher) /\ Len(cipher) \in Nat
  BY CipherLength, PaddedLength, PadLengthBound
<1>3. Len(part) = n /\ \A i \in 1 .. n : part[i] = cipher[i]
  BY <1>2
<1>4. backing' = Overlay(backing, off, part)
  BY DEF Write
<1> HIDE DEF part
<1>5. /\ Len(backing') = long
      /\ \A i \in 1 .. long :
             backing'[i] = IF i > off /\ i <= off + n THEN part[i - off]
                           ELSE IF i <= Len(backing) THEN backing[i] ELSE Noise
  BY <1>1, <1>3, <1>4 DEF Overlay, Larger
<1>0. long \in Nat
  BY <1>1 DEF Larger
<1>6. CASE w \in intact /\ Untouched(w, off, n)
  <2> DEFINE len == Len(Padded(w.data))
  <2>1. Kept(w)
    BY <1>6 DEF RoundInv
  <2>2. w.off \in Nat /\ len \in Nat
    BY <2>1, OffsetsAssumption, PaddedNat DEF Kept
  <2>3. w.off + len <= long
    BY <1>1, <2>1, <2>2 DEF Kept, Larger
  <2>4. off + n <= w.off \/ w.off + len <= off
    BY <1>6 DEF Untouched
  <2>5. ASSUME NEW i \in 1 .. len PROVE backing'[w.off + i] = Encrypt(w.data)[i]
    <3> HIDE DEF len, long
    <3>1. /\ w.off + i \in 1 .. long
          /\ ~(w.off + i > off /\ w.off + i <= off + n)
      BY <1>0, <1>1, <2>2, <2>3, <2>4
    <3>2. w.off + i <= Len(backing) /\ backing[w.off + i] = Encrypt(w.data)[i]
      BY <1>1, <2>1, <2>2 DEF Kept, len
    <3> QED BY <1>5, <3>1, <3>2
  <2> QED BY <1>5, <2>1, <2>3, <2>5 DEF Kept
<1>7. CASE n = Len(cipher) /\ w = [off |-> off, data |-> data]
  <2>1. off + n <= long
    BY <1>1 DEF Larger
  <2>2. ASSUME NEW i \in 1 .. n PROVE backing'[off + i] = cipher[i]
    <3> HIDE DEF cipher, long
    <3>1. off + i \in 1 .. long /\ off + i > off /\ off + i <= off + n /\ off + i - off = i
      BY <1>0, <1>1, <2>1
    <3>2. PICK q \in 1 .. long : q = off + i
      BY <3>1
    <3>3. backing'[q] = part[q - off]
      BY <1>5, <3>1, <3>2
    <3>4. q - off = i
      BY <1>1, <3>2
    <3>5. backing'[q] = part[i]
      BY <3>3, <3>4, Zenon
    <3>6. part[i] = cipher[i]
      BY <1>3
    <3>7. backing'[off + i] = backing'[q]
      BY <3>2, Zenon
    <3> QED BY <3>5, <3>6, <3>7, Zenon
  <2>3. w.off = off /\ w.data = data
    BY <1>7
  <2> QED BY <1>2, <1>5, <1>7, <2>1, <2>2, <2>3 DEF Kept
<1>8. \/ w \in intact /\ Untouched(w, off, n)
      \/ n = Len(cipher) /\ w = [off |-> off, data |-> data]
  BY DEF Write
<1> QED BY <1>6, <1>7, <1>8

LEMMA ReadComesBack ==
    ASSUME RoundInv, NEW off \in Offsets, NEW size \in Sizes, Read(off, size)
    PROVE  WrittenComesBack'
<1>1. PICK bytes \in Decrypted(Fetched(backing, off, size)) :
          reply' = [op |-> "read", off |-> off, size |-> size, bytes |-> bytes,
                    ret |-> Len(bytes)]
  BY DEF Read
<1>2. intact' = intact
  BY DEF Read
<1> SUFFICES ASSUME NEW w \in intact, off = w.off, size >= Len(Padded(w.data))
             PROVE  /\ Len(bytes) >= Len(w.data)
                    /\ SubSeq(bytes, 1, Len(w.data)) = w.data
                    /\ size = Len(Padded(w.data)) => bytes = w.data
  BY <1>1, <1>2 DEF WrittenComesBack
<1> DEFINE d == Fetched(backing, off, size)
<1>3. Kept(w) /\ w.data \in Data
  BY DEF RoundInv, Kept
<1>4. size \in Nat /\ off \in Nat /\ Len(Padded(w.data)) \in Nat
  BY <1>3, SizesAssumption, OffsetsAssumption, PaddedNat
<1>5. Len(d) = size /\ \A i \in 1 .. size :
          d[i] = IF off + i <= Len(backing) THEN backing[off + i] ELSE Noise
  BY <1>4 DEF Fetched
<1> HIDE DEF d
<1>6. StartsWith(d, w.data)
  <2> SUFFICES ASSUME NEW i \in 1 .. Len(Padded(w.data))
               PROVE  d[i] = Encrypt(w.data)[i]
    BY DEF StartsWith
  <2>1. i \in 1 .. size /\ off + i <= Len(backing)
    BY <1>3, <1>4 DEF Kept, RoundInv, SizeInv
  <2> QED BY <1>3, <1>5, <2>1 DEF Kept
<1>7. bytes \in Decrypted(d)
  BY DEF d
<1> QED BY <1>3, <1>4, <1>5, <1>6, <1>7, ReadBack

(* For any block length, whatever is written, read and truncated around    *)
(* it: what one call of my_write was given comes back from my_read.        *)
THEOREM RoundTrip == Spec => []WrittenComesBack
<1>1. Init => RoundInv
  BY BlockAssumption DEF Init, RoundInv, SizeInv, ShownSize, WrittenComesBack, NoReply
<1>2. RoundInv /\ [Next]_vars => RoundInv'
  <2> SUFFICES ASSUME RoundInv, [Next]_vars PROVE RoundInv'
    OBVIOUS
  <2>0. SizeInv'
    BY SizeStep DEF RoundInv
  <2>1. ASSUME NEW data \in Data, NEW off \in Offsets,
               NEW n \in 1 .. Len(Padded(data)), Write(data, off, n)
        PROVE  RoundInv'
    <3>1. \A w \in intact' : Kept(w)'
      BY <2>1, WriteKeepsIntact
    <3>2. WrittenComesBack'
      BY <2>1 DEF Write, WrittenComesBack
    <3> QED BY <2>0, <3>1, <3>2 DEF RoundInv
  <2>2. ASSUME NEW off \in Offsets, NEW size \in Sizes, Read(off, size)
        PROVE  RoundInv'
    <3>1. WrittenComesBack'
      BY <2>2, ReadComesBack
    <3>2. \A w \in intact' : Kept(w)'
      BY <2>2 DEF Read, RoundInv, Kept
    <3> QED BY <2>0, <3>1, <3>2 DEF RoundInv
  <2>3. ASSUME NEW n \in Offsets, Truncate(n)
        PROVE  RoundInv'
    <3>1. n \in Nat
      BY OffsetsAssumption
    <3>2. /\ Len(backing') = n
          /\ \A i \in 1 .. n : backing'[i] = IF i <= Len(backing) THEN backing[i] ELSE Noise
      BY <2>3, <3>1 DEF Truncate, Resized
    <3>3. ASSUME NEW w \in intact' PROVE Kept(w)'
      <4>1. Kept(w) /\ w.off + Len(Padded(w.data)) <= n
        BY <2>3 DEF Truncate, RoundInv
      <4>2. w.off \in Nat /\ Len(Padded(w.data)) \in Nat /\ Len(backing) \in Nat
        BY <4>1, OffsetsAssumption, PaddedNat DEF Kept, RoundInv, SizeInv
      <4>3. \A i \in 1 .. Len(Padded(w.data)) : backing'[w.off + i] = Encrypt(w.data)[i]
        BY <3>1, <3>2, <4>1, <4>2 DEF Kept
      <4> QED BY <3>2, <4>1, <4>3 DEF Kept
    <3>4. WrittenComesBack'
      BY <2>3 DEF Truncate, WrittenComesBack, NoReply
    <3> QED BY <2>0, <3>3, <3>4 DEF RoundInv
  <2>4. CASE Answered
    <3>1. WrittenComesBack'
      BY <2>4 DEF Answered, WrittenComesBack, NoReply
    <3>2. \A w \in intact' : Kept(w)'
      BY <2>4 DEF Answered, RoundInv, Kept
    <3> QED BY <2>0, <3>1, <3>2 DEF RoundInv
  <2>5. CASE UNCHANGED vars
    BY <2>0, <2>5 DEF vars, RoundInv, WrittenComesBack, Kept
  <2> QED BY <2>1, <2>2, <2>3, <2>4, <2>5 DEF Next
<1>3. RoundInv => WrittenComesBack
  BY DEF RoundInv
<1> QED BY <1>1, <1>2, <1>3, PTL DEF Spec

-----------------------------------------------------------------------------
(* How much decryption gives back, whatever it is given.                   *)

LEMMA UnpaddedBound ==
    ASSUME NEW b, NEW n \in Unpadded(b)
    PROVE  n \in 0 .. Block - 1
<1>1. CASE \E i \in 1 .. Block : b[i] = Unknown
  BY <1>1 DEF Unpadded
<1>2. CASE ~\E i \in 1 .. Block : b[i] = Unknown
  <2>1. n = IF /\ b[Block] \in 1 .. Block
               /\ \A i \in Block - b[Block] + 1 .. Block : b[i] = b[Block]
            THEN Block - b[Block] ELSE 0
    BY <1>2 DEF Unpadded
  <2>2. CASE n = 0
    BY <2>2, BlockAssumption
  <2>3. CASE b[Block] \in 1 .. Block /\ n = Block - b[Block]
    BY <2>3, BlockAssumption
  <2> QED BY <2>1, <2>2, <2>3
<1> QED BY <1>1, <1>2

LEMMA DecryptedLength ==
    ASSUME NEW d, Len(d) \in Nat \ {0}, NEW bytes \in Decrypted(d)
    PROVE  Len(bytes) \in Nat /\ Len(bytes) <= Len(d) /\ Len(bytes) >= Len(d) - Block
<1> DEFINE q     == Len(d) \div Block
           whole == q * Block
           clear == [i \in 1 .. whole |-> ClearByte(d, i)]
<1>1. q \in Nat /\ Len(d) % Block \in 0 .. Block - 1 /\ Len(d) = whole + (Len(d) % Block)
  BY Split
<1>2. whole \in Nat
  BY <1>1, Multiples
<1>3. Len(clear) = whole
  BY <1>2
<1>4. CASE Len(d) % Block # 0
  <2>1. bytes = clear
    BY <1>4 DEF Decrypted
  <2> HIDE DEF clear, whole
  <2> QED BY <1>1, <1>2, <1>3, <2>1, BlockAssumption
<1>5. CASE Len(d) % Block = 0
  <2>1. PICK n \in Unpadded(SubSeq(clear, whole - Block + 1, whole)) :
            bytes = SubSeq(clear, 1, whole - Block + n)
    BY <1>5 DEF Decrypted
  <2>2. n \in 0 .. Block - 1
    BY <2>1, UnpaddedBound
  <2>3. whole = Len(d)
    BY <1>1, <1>2, <1>5
  <2>4. q # 0
    BY <2>3, BlockAssumption
  <2>5. whole >= Block
    BY <1>1, <2>4, Multiples, BlockAssumption
  <2> HIDE DEF clear, whole, q
  <2>6. whole - Block + n \in 0 .. whole
    BY <1>2, <2>2, <2>5, BlockAssumption
  <2>7. Len(bytes) = whole - Block + n
    BY <1>2, <1>3, <2>1, <2>6
  <2> QED BY <1>2, <2>2, <2>3, <2>5, <2>7, BlockAssumption
<1> QED BY <1>4, <1>5

(* For any block length, and whatever lies in the backing file, my_read    *)
(* answers with what it was asked for but for one block.                   *)
THEOREM LosesABlockAtMost == Spec => []ReadNearlyAll
<1>1. Init => ReadNearlyAll
  BY DEF Init, ReadNearlyAll, NoReply
<1>2. ReadNearlyAll /\ [Next]_vars => ReadNearlyAll'
  <2> SUFFICES ASSUME ReadNearlyAll, [Next]_vars PROVE ReadNearlyAll'
    OBVIOUS
  <2>1. ASSUME NEW data \in Data, NEW off \in Offsets,
               NEW n \in 1 .. Len(Padded(data)), Write(data, off, n)
        PROVE  ReadNearlyAll'
    BY <2>1 DEF Write, ReadNearlyAll
  <2>2. ASSUME NEW off \in Offsets, NEW size \in Sizes, Read(off, size)
        PROVE  ReadNearlyAll'
    <3>1. PICK bytes \in Decrypted(Fetched(backing, off, size)) :
              reply' = [op |-> "read", off |-> off, size |-> size, bytes |-> bytes,
                        ret |-> Len(bytes)]
      BY <2>2 DEF Read
    <3>2. size \in Nat \ {0}
      BY SizesAssumption
    <3>3. Len(Fetched(backing, off, size)) = size
      BY <3>2 DEF Fetched
    <3>4. Len(bytes) <= size /\ Len(bytes) >= size - Block
      BY <3>2, <3>3, DecryptedLength
    <3> QED BY <3>1, <3>4 DEF ReadNearlyAll
  <2>3. ASSUME NEW n \in Offsets, Truncate(n) PROVE ReadNearlyAll'
    BY <2>3 DEF Truncate, ReadNearlyAll
  <2>4. CASE Answered
    BY <2>4 DEF Answered, ReadNearlyAll, NoReply
  <2>5. CASE UNCHANGED vars
    BY <2>5 DEF vars, ReadNearlyAll
  <2> QED BY <2>1, <2>2, <2>3, <2>4, <2>5 DEF Next
<1> QED BY <1>1, <1>2, PTL DEF Spec

-----------------------------------------------------------------------------
(* Every byte of the backing file is noise or has its place in a block of  *)
(* some request's cipher text.                                             *)

IsByte(b) ==
    \/ b = Noise
    \/ /\ b.chain \in Seq(Nat) \ {<<>>}
       /\ Len(b.chain) % Block = 0
       /\ b.at \in 1 .. Block

FileInv ==
    /\ SizeInv
    /\ DOMAIN backing = 1 .. Len(backing)
    /\ TypeOK

LEMMA CipherIsByte ==
    ASSUME NEW data \in Data, NEW i \in 1 .. Len(Padded(data))
    PROVE  IsByte(Encrypt(data)[i])
<1>1. /\ Blocks(data) \in Nat \ {0} /\ Len(Padded(data)) = Blocks(data) * Block
      /\ Len(Padded(data)) \in Nat
  BY WholeBlocks, PaddedNat
<1>2. PICK q : q = (i - 1) \div Block
  OBVIOUS
<1>3. PICK r : r = (i - 1) % Block
  OBVIOUS
<1>4. q \in Nat /\ r \in 0 .. Block - 1 /\ i - 1 = q * Block + r
  BY <1>1, <1>2, <1>3, Split
<1>5. q + 1 \in 1 .. Blocks(data)
  <2>1. Blocks(data) <= q => Blocks(data) * Block <= q * Block
    BY <1>1, <1>4, Multiples
  <2>2. q * Block \in Nat /\ q * Block < Blocks(data) * Block
    BY <1>1, <1>4, Multiples, BlockAssumption
  <2> QED BY <1>1, <1>4, <2>1, <2>2
<1>6. r + 1 \in 1 .. Block /\ i = ((q + 1) - 1) * Block + (r + 1)
  <2>1. (q + 1) - 1 = q
    BY <1>4
  <2>2. q * Block \in Nat
    BY <1>4, Multiples
  <2>3. i = q * Block + (r + 1)
    BY <1>1, <1>4, <2>2, BlockAssumption
  <2> QED BY <1>4, <2>1, <2>3, BlockAssumption
<1>7. PICK k \in 1 .. Blocks(data) : k = q + 1
  BY <1>5
<1>8. PICK j \in 1 .. Block : j = r + 1
  BY <1>6
<1>9. Encrypt(data)[i] = [chain |-> ChainTo(data, k), at |-> j]
  BY <1>6, <1>7, <1>8, CipherByte
<1>10. ChainTo(data, k) \in Seq(Nat) \ {<<>>} /\ Len(ChainTo(data, k)) = k * Block
  <2>1. Padded(data) \in Seq(Nat) /\ k * Block \in 1 .. Len(Padded(data))
    BY PaddedLength, ChainProperties
  <2> QED BY <2>1, ChainProperties DEF ChainTo
<1>11. (k * Block) % Block = 0
  <2>1. k \in Nat /\ 0 \in 0 .. Block - 1
    BY BlockAssumption
  <2>2. (k * Block + 0) % Block = 0
    BY <2>1, SplitUnique
  <2>3. k * Block + 0 = k * Block
    BY <2>1, Multiples
  <2> QED BY <2>2, <2>3
<1> QED BY <1>9, <1>10, <1>11 DEF IsByte

LEMMA WriteKeepsType ==
    ASSUME FileInv, NEW data \in Data, NEW off \in Offsets,
           NEW n \in 1 .. Len(Padded(data)), Write(data, off, n)
    PROVE  FileInv'
<1> DEFINE cipher == Encrypt(data)
           part   == SubSeq(cipher, 1, n)
           long   == Larger(Len(backing), off + n)
<1>1. off \in Nat /\ Len(backing) \in Nat /\ n \in Nat \ {0}
  BY OffsetsAssumption, PaddedNat DEF FileInv, SizeInv
<1>2. Len(cipher) = Len(Padded(data)) /\ n \in 1 .. Len(cipher) /\ Len(cipher) \in Nat
  BY CipherLength, PaddedLength, PaddedNat
<1>3. Len(part) = n /\ \A i \in 1 .. n : part[i] = cipher[i]
  BY <1>2
<1>4. \A i \in 1 .. n : IsByte(part[i])
  BY <1>2, <1>3, CipherIsByte
<1>5. backing' = Overlay(backing, off, part)
  BY DEF Write
<1> HIDE DEF part
<1>6. long \in Nat
  BY <1>1 DEF Larger
<1>7. /\ DOMAIN backing' = 1 .. long
      /\ Len(backing') = long
      /\ \A i \in 1 .. long :
             backing'[i] = IF i > off /\ i <= off + n THEN part[i - off]
                           ELSE IF i <= Len(backing) THEN backing[i] ELSE Noise
  BY <1>1, <1>3, <1>5, <1>6 DEF Overlay, Larger
<1>8. \A i \in DOMAIN backing' : IsByte(backing'[i])
  <2> SUFFICES ASSUME NEW i \in 1 .. long PROVE IsByte(backing'[i])
    BY <1>7
  <2>0. i \in Nat \ {0}
    BY <1>6
  <2>1. CASE i > off /\ i <= off + n
    <3>1. i - off \in 1 .. n
      BY <1>1, <2>0, <2>1
    <3> QED BY <1>4, <1>7, <2>1, <3>1
  <2>2. CASE ~(i > off /\ i <= off + n) /\ i <= Len(backing)
    <3>1. i \in DOMAIN backing /\ backing'[i] = backing[i]
      BY <1>1, <1>7, <2>0, <2>2 DEF FileInv
    <3> QED BY <3>1 DEF FileInv, TypeOK, IsByte
  <2>3. CASE ~(i > off /\ i <= off + n) /\ ~(i <= Len(backing))
    BY <1>7, <2>3 DEF IsByte
  <2> QED BY <2>1, <2>2, <2>3
<1>9. Len(backing') <= MaxLength
  BY <1>1, <1>2, <1>6, <1>7, LengthAssumption DEF Write, FileInv, TypeOK, Larger
<1>10. \A w \in intact' : w.off \in Offsets /\ w.data \in Data
  BY DEF Write, FileInv, TypeOK
<1>11. SizeInv'
  BY WriteKeepsSize DEF FileInv
<1>12. reply'.op \in {"none", "read", "write"}
  BY DEF Write
<1>13. length' \in Nat
  BY <1>11 DEF SizeInv
<1> HIDE DEF long
<1> QED BY <1>7, <1>8, <1>9, <1>10, <1>11, <1>12, <1>13 DEF FileInv, TypeOK, IsByte

(* Whatever is written, cut and torn, the backing file consists of bytes   *)
(* that my_encrypt_binary made and of holes.                               *)
THEOREM FileTypeCorrect == Spec => []TypeOK
<1>1. Init => FileInv
  BY BlockAssumption, LengthAssumption
  DEF Init, FileInv, SizeInv, ShownSize, TypeOK, NoReply
<1>2. FileInv /\ [Next]_vars => FileInv'
  <2> SUFFICES ASSUME FileInv, [Next]_vars PROVE FileInv'
    OBVIOUS
  <2>0. SizeInv'
    BY SizeStep DEF FileInv
  <2>1. ASSUME NEW data \in Data, NEW off \in Offsets,
               NEW n \in 1 .. Len(Padded(data)), Write(data, off, n)
        PROVE  FileInv'
    BY <2>1, WriteKeepsType
  <2>2. ASSUME NEW off \in Offsets, NEW size \in Sizes, Read(off, size)
        PROVE  FileInv'
    <3>1. reply'.op = "read" /\ UNCHANGED <<backing, length, intact>>
      BY <2>2 DEF Read
    <3> QED BY <2>0, <3>1 DEF FileInv, TypeOK
  <2>3. ASSUME NEW n \in Offsets, Truncate(n) PROVE FileInv'
    <3>1. n \in Nat /\ n <= MaxLength /\ Len(backing) \in Nat
      BY <2>3, OffsetsAssumption DEF Truncate, FileInv, SizeInv
    <3>2. /\ DOMAIN backing' = 1 .. n
          /\ Len(backing') = n
          /\ \A i \in 1 .. n : backing'[i] = IF i <= Len(backing) THEN backing[i] ELSE Noise
      BY <2>3, <3>1 DEF Truncate, Resized
    <3>3. \A i \in DOMAIN backing' : IsByte(backing'[i])
      BY <3>1, <3>2 DEF FileInv, TypeOK, IsByte
    <3>4. /\ length' = n /\ reply' = reply
          /\ \A w \in intact' : w \in intact
      BY <2>3 DEF Truncate
    <3> QED BY <2>0, <3>1, <3>2, <3>3, <3>4 DEF FileInv, TypeOK, IsByte
  <2>4. CASE Answered
    BY <2>0, <2>4 DEF Answered, NoReply, FileInv, TypeOK
  <2>5. CASE UNCHANGED vars
    BY <2>0, <2>5 DEF vars, FileInv, TypeOK
  <2> QED BY <2>1, <2>2, <2>3, <2>4, <2>5 DEF Next
<1>3. FileInv => TypeOK
  BY DEF FileInv
<1> QED BY <1>1, <1>2, <1>3, PTL DEF Spec
=============================================================================
