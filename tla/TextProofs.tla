----------------------------- MODULE TextProofs -----------------------------
(***************************************************************************)
(* Proofs about what turns one text into another: the block ciphers, whose *)
(* texts of any length return for any block size up to 16; RSA in chunks,  *)
(* for keys, paddings and texts of any size; the masking of what is        *)
(* logged, for texts of any length, any rules and any configurations that  *)
(* replace one another meanwhile; the secrets of a configuration, for all  *)
(* texts, keys and environments; and the map that is signed of a request,  *)
(* for bodies of any shape.                                                *)
(***************************************************************************)
EXTENDS Ciphers, RsaChunks, Masking, Secrets, Signing, FiniteSetTheorems,
        SequenceTheorems, WellFoundedInduction, TLAPS

-----------------------------------------------------------------------------
(* Ciphers.                                                                 *)

\* The padding fills the last block up, and is never empty.
LEMMA PaddedIsWhole ==
  ASSUME NEW n \in Nat, NEW b \in 1..16
  PROVE  /\ n % b \in 0..(b - 1)
         /\ (n + (b - (n % b))) % b = 0
BY SMTT(60)

\* Every byte of the padding is its length.
LEMMA PadShape ==
  ASSUME NEW p \in Seq(Byte), NEW b \in 1..16
  PROVE  /\ Pad(p, b) \in Seq(Byte)
         /\ Len(Pad(p, b)) \in Nat \ {0}
         /\ Len(Pad(p, b)) % b = 0
         /\ LET n == Pad(p, b)[Len(Pad(p, b))]
            IN n \in 1..b /\ SubSeq(Pad(p, b), 1, Len(Pad(p, b)) - n) = p
<1> DEFINE n == b - (Len(p) % b)
           pad == [i \in 1..n |-> n]
<1>1. n \in 1..b /\ n \in Byte /\ (Len(p) + n) % b = 0
  <2>1. Len(p) \in Nat
    OBVIOUS
  <2>2. \A m \in Nat : m % b \in 0..(b - 1) /\ (m + (b - (m % b))) % b = 0
    BY PaddedIsWhole
  <2>3. Len(p) % b \in 0..(b - 1) /\ (Len(p) + n) % b = 0
    BY <2>1, <2>2, Zenon
  <2>4. \A x \in 0..(b - 1) : b - x \in 1..b /\ b - x \in Byte
    BY DEF Byte
  <2> QED
    BY <2>3, <2>4, Zenon
<1>2. pad \in Seq(Byte) /\ Len(pad) = n
  BY <1>1
<1>3. Pad(p, b) = p \o pad
  BY DEF Pad
<1> HIDE DEF n, pad
<1>4. p \o pad \in Seq(Byte) /\ Len(p \o pad) = Len(p) + n
  BY <1>1, <1>2
<1>5. (p \o pad)[Len(p) + n] = n
  BY <1>1, <1>2 DEF pad
<1>6. SubSeq(p \o pad, 1, Len(p)) = p
  BY <1>1, <1>2, <1>4
<1> QED
  BY <1>1, <1>3, <1>4, <1>5, <1>6

THEOREM PaddingRoundTrip ==
  ASSUME NEW p \in Seq(Byte), NEW b \in 1..16
  PROVE  Unpad(Pad(p, b), b) = [is |-> "text", text |-> p]
<1> DEFINE q == Pad(p, b)
<1>1. q[Len(q)] \in 1..b /\ SubSeq(q, 1, Len(q) - q[Len(q)]) = p
  BY PadShape
<1>2. ~(q[Len(q)] < 1 \/ q[Len(q)] > b)
  BY <1>1
<1> QED
  BY <1>1, <1>2 DEF Unpad

-----------------------------------------------------------------------------
\* On its way a ciphertext keeps the body that Encrypt made, and a CBC one
\* the length of its IV.
CipherInv ==
  /\ TypeOK
  /\ pc \in {"carry", "decrypt"} =>
       /\ wire.body = Pad(text, kind.block)
       /\ kind.iv => wire.first = kind.block
  /\ RoundTrip

\* The sizes that the assumption gives a kind and its texts.
LEMMA CipherSizes ==
  ASSUME TypeOK
  PROVE  /\ text \in Seq(Byte) /\ kind.block \in 1..16 /\ kind.iv \in BOOLEAN
         /\ reader.kind \in Kinds /\ reader.kind.block \in 1..16
         /\ wire.size \in Nat /\ wire.first \in Byte /\ wire.body \in Seq(Byte)
BY CipherAssumption DEF TypeOK

\* A whole body is taken off its head and unpadded to the text.
LEMMA OpenWhole ==
  ASSUME TypeOK, wire.body = Pad(text, kind.block), Whole,
         Open(HeadSize(kind))
  PROVE  result' = [is |-> "text", text |-> text]
<1>1. text \in Seq(Byte) /\ kind.block \in 1..16 /\ wire.body \in Seq(Byte)
  BY CipherSizes
<1>2. Len(wire.body) \in Nat \ {0}
  BY <1>1, PadShape
<1>3. HeadSize(kind) \in Nat
  BY <1>1, CipherSizes DEF HeadSize
<1>4. wire.size - HeadSize(kind) = Len(wire.body)
  BY <1>2, <1>3 DEF Whole
<1>5. SubSeq(wire.body, 1, Len(wire.body)) = wire.body
  BY <1>1
<1>6. reader = [kind |-> kind, key |-> key] /\ reader.kind = kind
  BY DEF Whole
<1>7. Body(HeadSize(kind)) = {wire.body}
  BY <1>4, <1>5, <1>6 DEF Body
<1>8. wire.body # <<>>
  BY <1>1, <1>2
<1>9. result' = Unpad(wire.body, kind.block)
  BY <1>6, <1>7, <1>8 DEF Open
<1> QED
  BY <1>1, <1>9, PaddingRoundTrip

\* Encrypt lays the ciphertext out.
LEMMA EncryptKeeps ==
  ASSUME CipherInv, Encrypt
  PROVE  CipherInv'
<1> USE DEF CipherInv
<1>1. text \in Seq(Byte) /\ kind.block \in 1..16 /\ kind.iv \in BOOLEAN
  BY CipherSizes
<1>2. CASE key.size # kind.key
  <2>1. pc' = "done" /\ result' = Fails("error") /\ UNCHANGED <<text, kind, key, reader, wire>>
    BY <1>2 DEF Encrypt
  <2>2. TypeOK'
    BY <2>1 DEF TypeOK, Fails
  <2> QED
    BY <1>2, <2>1, <2>2 DEF RoundTrip
<1>3. CASE key.size = kind.key
  <2> DEFINE padded == Pad(text, kind.block)
  <2>1. padded \in Seq(Byte) /\ Len(padded) \in Nat
    BY <1>1, PadShape
  <2> HIDE DEF padded
  <2>2. wire' = [size |-> HeadSize(kind) + Len(padded), first |-> kind.block, body |-> padded]
    BY <1>3 DEF Encrypt, padded
  <2>3. HeadSize(kind) \in Nat /\ kind.block \in Byte
    BY <1>1 DEF HeadSize, Byte
  <2>4. wire' \in [size : Nat, first : Byte, body : Seq(Byte)]
    BY <2>1, <2>2, <2>3
  <2>5. pc' = "carry" /\ UNCHANGED <<text, kind, key, reader, result>>
    BY <1>3 DEF Encrypt
  <2>6. TypeOK'
    BY <2>4, <2>5 DEF TypeOK
  <2>7. wire'.body = Pad(text', kind'.block) /\ wire'.first = kind'.block
    BY <2>2, <2>5 DEF padded
  <2> QED
    BY <2>5, <2>6, <2>7 DEF RoundTrip
<1> QED
  BY <1>2, <1>3

\* Whatever is opened ends in a text or fails.
LEMMA ResultType ==
  ASSUME NEW head, Open(head)
  PROVE  result'.is \in {"none", "error", "panic", "text"}
<1>1. PICK padded \in Body(head) :
        result' = IF padded = <<>> THEN Fails("panic") ELSE Unpad(padded, reader.kind.block)
  BY DEF Open
<1> QED
  BY <1>1 DEF Fails, Unpad

\* A cut leaves the body and the head as they were made.
LEMMA CarryKeeps ==
  ASSUME CipherInv, Carry
  PROVE  CipherInv'
<1> USE DEF CipherInv
<1>1. PICK k \in Kinds, by \in Keys, n \in 0..wire.size, b \in Garbage :
        /\ reader' = [kind |-> k, key |-> by]
        /\ wire' = [wire EXCEPT !.size = n, !.first = IF kind.iv THEN @ ELSE b]
  BY DEF Carry
<1>2. pc = "carry" /\ pc' = "decrypt" /\ UNCHANGED <<text, kind, key, result>>
  BY DEF Carry
<1>3. wire.size \in Nat /\ wire.first \in Byte /\ wire.body \in Seq(Byte) /\ b \in Byte
  BY CipherSizes, CipherAssumption
<1>4. /\ wire' \in [size : Nat, first : Byte, body : Seq(Byte)]
      /\ wire'.body = wire.body
      /\ kind.iv => wire'.first = wire.first
  <2>1. wire \in [size : Nat, first : Byte, body : Seq(Byte)] /\ n \in Nat
    BY <1>3 DEF TypeOK
  <2>2. CASE kind.iv
    BY <1>1, <2>1, <2>2
  <2>3. CASE ~kind.iv
    BY <1>1, <1>3, <2>1, <2>3
  <2> QED
    BY <2>2, <2>3
<1>5. TypeOK'
  BY <1>1, <1>2, <1>4 DEF TypeOK
<1> QED
  BY <1>2, <1>4, <1>5 DEF RoundTrip

\* A whole CBC ciphertext passes every check, any other makes any result.
LEMMA DecryptCBCKeeps ==
  ASSUME CipherInv, DecryptCBC
  PROVE  CipherInv'
<1> USE DEF CipherInv
<1> DEFINE head == 1 + wire.first
<1>1. /\ pc = "decrypt" /\ pc' = "done" /\ reader.kind.iv
      /\ UNCHANGED <<text, kind, key, wire, reader>>
  BY DEF DecryptCBC
<1>2. result' = Fails("error") \/ result' = Fails("panic") \/ Open(head)
  BY DEF DecryptCBC
<1>3. TypeOK'
  <2>1. result'.is \in {"none", "error", "panic", "text"}
    BY <1>2, ResultType DEF Fails
  <2> QED
    BY <1>1, <2>1 DEF TypeOK
<1>4. RoundTrip'
  <2> SUFFICES ASSUME key.size = kind.key, Whole
               PROVE  result' = [is |-> "text", text |-> text]
    BY <1>1 DEF RoundTrip, Whole, HeadSize
  <2>1. reader = [kind |-> kind, key |-> key] /\ reader.kind = kind /\ reader.key = key
    BY DEF Whole
  <2>2. wire.body = Pad(text, kind.block) /\ wire.first = kind.block
    BY <1>1, <2>1
  <2>3. kind.block \in 1..16 /\ text \in Seq(Byte)
    BY CipherSizes
  <2>4. Len(wire.body) % kind.block = 0
    BY <2>2, <2>3, PadShape
  <2> DEFINE n == Len(wire.body)
  <2>0. n \in Nat \ {0}
    BY <2>2, <2>3, PadShape
  <2>5. kind.iv /\ head = HeadSize(kind)
    BY <1>1, <2>1, <2>2 DEF HeadSize
  <2>6. wire.size = 1 + wire.first + Len(wire.body)
    BY <2>5 DEF Whole
  <2>7. wire.first \in 1..16
    BY <2>2, <2>3
  <2>8. /\ wire.size - (1 + wire.first) = Len(wire.body)
        /\ wire.size >= 1 + wire.first /\ wire.size >= 2
    <3> HIDE DEF n, CipherInv
    <3>1. \A f \in 1..16 : /\ (1 + f + n) - (1 + f) = n
                           /\ 1 + f + n >= 1 + f /\ 1 + f + n >= 2
      BY <2>0
    <3> QED
      BY <2>6, <2>7, <3>1 DEF n
  <2>9. (wire.size - (1 + wire.first)) % reader.kind.block = 0
    BY <2>1, <2>4, <2>8
  <2>10. reader.key.size = reader.kind.key /\ wire.first = reader.kind.block
    BY <2>1, <2>2
  <2>11. Open(head)
    <3>1. ~(wire.size < 2) /\ ~(wire.size < head)
      <4>1. wire.size \in Nat
        BY CipherSizes
      <4> HIDE DEF CipherInv, n
      <4> QED
        BY <2>7, <2>8, <4>1
    <3>2. IF wire.first # reader.kind.block \/ (wire.size - head) % reader.kind.block # 0
          THEN result' = Fails("panic")
          ELSE Open(head)
      BY <2>7, <2>10, <3>1, Zenon DEF DecryptCBC
    <3> QED
      BY <2>9, <2>10, <3>2
  <2>12. Open(HeadSize(kind))
    BY <2>5, <2>11
  <2> QED
    BY <2>2, <2>12, OpenWhole
<1> QED
  BY <1>1, <1>3, <1>4

\* The same of ECB, whose ciphertext is all body.
LEMMA DecryptECBKeeps ==
  ASSUME CipherInv, DecryptECB
  PROVE  CipherInv'
<1> USE DEF CipherInv
<1>1. /\ pc = "decrypt" /\ pc' = "done" /\ ~reader.kind.iv
      /\ UNCHANGED <<text, kind, key, wire, reader>>
  BY DEF DecryptECB
<1>2. result' = Fails("error") \/ Open(0)
  BY DEF DecryptECB
<1>3. TypeOK'
  <2>1. result'.is \in {"none", "error", "panic", "text"}
    BY <1>2, ResultType DEF Fails
  <2> QED
    BY <1>1, <2>1 DEF TypeOK
<1>4. RoundTrip'
  <2> SUFFICES ASSUME key.size = kind.key, Whole
               PROVE  result' = [is |-> "text", text |-> text]
    BY <1>1 DEF RoundTrip, Whole, HeadSize
  <2>1. reader.kind = kind /\ reader.key = key
    BY DEF Whole
  <2>2. wire.body = Pad(text, kind.block)
    BY <1>1
  <2>3. kind.block \in 1..16 /\ text \in Seq(Byte)
    BY CipherSizes
  <2>4. Len(wire.body) \in Nat /\ Len(wire.body) % kind.block = 0
    BY <2>2, <2>3, PadShape
  <2>5. 0 = HeadSize(kind) /\ wire.size = Len(wire.body)
    BY <1>1, <2>1, <2>4 DEF HeadSize, Whole
  <2>6. Open(HeadSize(kind))
    BY <2>1, <2>4, <2>5 DEF DecryptECB
  <2> QED
    BY <2>2, <2>6, OpenWhole
<1> QED
  BY <1>1, <1>3, <1>4

THEOREM TextsReturn == Spec => []RoundTrip
<1>1. Init => CipherInv
  BY DEF Init, CipherInv, TypeOK, RoundTrip, None, Fails, Byte
<1>2. CipherInv /\ [Next]_vars => CipherInv'
  <2> SUFFICES ASSUME CipherInv, [Next]_vars
               PROVE  CipherInv'
    OBVIOUS
  <2>1. CASE UNCHANGED vars
    BY <2>1 DEF vars, CipherInv, TypeOK, RoundTrip, Whole, HeadSize
  <2>2. CASE Encrypt
    BY <2>2, EncryptKeeps
  <2>3. CASE Carry
    BY <2>3, CarryKeeps
  <2>4. CASE DecryptCBC
    BY <2>4, DecryptCBCKeeps
  <2>5. CASE DecryptECB
    BY <2>5, DecryptECBKeeps
  <2> QED
    BY <2>1, <2>2, <2>3, <2>4, <2>5 DEF Next
<1>3. CipherInv => RoundTrip
  BY DEF CipherInv
<1> QED
  BY <1>1, <1>2, <1>3, PTL DEF Spec

-----------------------------------------------------------------------------
(* RsaChunks.                                                               *)

WholeKey == bits >= SmallestKey /\ bits % 8 = 0

\* How far the text goes that is in the first blocks of some.
Upto(bs, i) == IF i = 0 THEN 0 ELSE bs[i].upto

(* Under a good key the blocks hold the text without a gap, the decrypting   *)
(* function is always between two of them, and has what they hold.           *)
RoundInv == WholeKey =>
  /\ \A i \in 1..Len(blocks) : blocks[i].from = Upto(blocks, i - 1)
  /\ Upto(blocks, Len(blocks)) = at
  /\ offset = 0 /\ got = Upto(blocks, block)
  /\ phase = "encrypt" => block = 0
  /\ phase # "encrypt" => at = size
  /\ phase = "done" => block = Len(blocks)
  /\ outcome = IF phase = "done" THEN "text" ELSE "none"

-----------------------------------------------------------------------------
(* A good key leaves room for the padding, and its blocks are as long as the *)
(* chunks the decrypting function takes.                                     *)
LEMMA WholeKeys ==
  ASSUME NEW b \in Nat, NEW o \in Nat, 8 * (o + 1) <= SmallestKey, SmallestKey \in Nat
  PROVE  /\ (b + 7) \div 8 \in Nat /\ b \div 8 \in Nat
         /\ b \div 8 <= (b + 7) \div 8
         /\ b >= SmallestKey /\ b % 8 = 0 =>
              (b + 7) \div 8 = b \div 8 /\ (b \div 8) - o > 0
BY SMTT(30)

LEMMA KeySizes ==
  ASSUME RsaTypeOK
  PROVE  /\ bits \in Nat /\ overhead \in Nat /\ size \in Nat
         /\ BlockSize \in Nat /\ DecryptLimit \in Nat /\ EncryptLimit \in Int
         /\ DecryptLimit <= BlockSize
         /\ WholeKey => /\ DecryptLimit = BlockSize /\ EncryptLimit > 0
                    /\ EncryptLimit = BlockSize - overhead
<1>1. /\ bits \in Nat /\ overhead \in Nat /\ size \in Nat /\ SmallestKey \in Nat
      /\ 8 * (overhead + 1) <= SmallestKey
  BY RsaAssumption DEF RsaTypeOK
<1> QED
  BY <1>1, WholeKeys DEF BlockSize, DecryptLimit, EncryptLimit, WholeKey

LEMMA InitInv == RsaInit => RsaTypeOK /\ RoundInv
<1> SUFFICES ASSUME RsaInit PROVE RsaTypeOK /\ RoundInv
  OBVIOUS
<1>1. bits \in Nat /\ size \in Nat
  BY RsaAssumption DEF RsaInit
<1>2. BlockSize \in Nat
  BY <1>1 DEF BlockSize
<1>3. RsaTypeOK
  BY <1>1, <1>2 DEF RsaInit, RsaTypeOK
<1>4. RoundInv
  BY DEF RsaInit, RoundInv, Upto
<1> QED BY <1>3, <1>4

-----------------------------------------------------------------------------
(* One lemma for each step that does more than end a phase.                  *)
LEMMA EncryptInv == RsaTypeOK /\ RoundInv /\ EncryptChunk => RsaTypeOK' /\ RoundInv'
<1> SUFFICES ASSUME RsaTypeOK, RoundInv, EncryptChunk PROVE RsaTypeOK' /\ RoundInv'
  OBVIOUS
<1> DEFINE n == Least(EncryptLimit, size - at)
<1>1. EncryptLimit \in Int /\ size \in Nat /\ at \in 0..size
      /\ EncryptLimit > 0 /\ at < size
  BY KeySizes DEF RsaTypeOK, EncryptChunk
<1>2. n \in Nat /\ at + n \in 0..size /\ n <= EncryptLimit
  BY <1>1 DEF Least
<1> HIDE DEF n
<1>3. BlockSize' = BlockSize
  BY DEF EncryptChunk, keyVars, BlockSize
<1> DEFINE b == [from |-> at, upto |-> at + n]
<1>4. CASE blocks' = Append(blocks, b) /\ at' = at + n /\ UNCHANGED <<phase, outcome>>
  <2>1. b \in [from : Nat, upto : Nat]
    BY <1>1, <1>2
  <2>2. RsaTypeOK'
    BY <1>2, <1>3, <1>4, <2>1 DEF RsaTypeOK, EncryptChunk, keyVars, decVars
  <2>3. Len(blocks') = Len(blocks) + 1 /\ blocks'[Len(blocks) + 1] = b
        /\ \A i \in 1..Len(blocks) : blocks'[i] = blocks[i]
    BY <1>4, <2>1 DEF RsaTypeOK
  <2>4. \A i \in 0..Len(blocks) : Upto(blocks', i) = Upto(blocks, i)
    BY <2>3 DEF Upto, RsaTypeOK
  <2>5. ASSUME WholeKey PROVE RoundInv'
    <3>1. Upto(blocks', Len(blocks)) = at /\ Len(blocks) \in Nat
      BY <2>4, <2>5 DEF RoundInv, RsaTypeOK
    <3>2. \A i \in 1..Len(blocks') : blocks'[i].from = Upto(blocks', i - 1)
      <4>1. SUFFICES ASSUME NEW i \in 1..(Len(blocks) + 1)
                     PROVE blocks'[i].from = Upto(blocks', i - 1)
        BY <2>3
      <4>2. CASE i = Len(blocks) + 1
        BY <2>3, <3>1, <4>2
      <4>3. CASE i # Len(blocks) + 1
        <5>1. i \in 1..Len(blocks) /\ i - 1 \in 0..Len(blocks)
          BY <3>1, <4>1, <4>3
        <5> QED
          BY <2>3, <2>4, <2>5, <5>1 DEF RoundInv
      <4> QED BY <4>2, <4>3
    <3>3. Upto(blocks', Len(blocks')) = at'
      BY <1>4, <2>3, <3>1 DEF Upto
    <3>4. phase = "encrypt" /\ block = 0 /\ got' = Upto(blocks', block')
      BY <2>4, <2>5 DEF RoundInv, EncryptChunk, decVars, RsaTypeOK
    <3> QED
      BY <1>4, <2>5, <3>2, <3>3, <3>4 DEF RoundInv, EncryptChunk, decVars
  <2>6. WholeKey' => WholeKey
    BY DEF WholeKey, EncryptChunk, keyVars
  <2> QED
    BY <2>2, <2>5, <2>6 DEF RoundInv
<1>5. CASE /\ n > BlockSize - overhead \/ bits < SmallestKey
           /\ phase' = "done" /\ outcome' = "error" /\ UNCHANGED encVars
  <2>1. RsaTypeOK'
    BY <1>3, <1>5 DEF RsaTypeOK, EncryptChunk, keyVars, encVars, decVars
  <2>2. ~WholeKey
    BY <1>1, <1>2, <1>5, KeySizes, RsaAssumption DEF WholeKey, RsaTypeOK
  <2> QED
    BY <2>1, <2>2 DEF RoundInv, WholeKey, EncryptChunk, keyVars
<1> QED
  BY <1>4, <1>5 DEF EncryptChunk, n

LEMMA DecryptInv == RsaTypeOK /\ RoundInv /\ DecryptChunk => RsaTypeOK' /\ RoundInv'
<1> SUFFICES ASSUME RsaTypeOK, RoundInv, DecryptChunk PROVE RsaTypeOK' /\ RoundInv'
  OBVIOUS
<1> DEFINE left == BlockSize - offset
           n == IF block + 1 < Len(blocks) THEN DecryptLimit ELSE Least(DecryptLimit, left)
           next == blocks[block + 1]
<1>1. /\ BlockSize \in Nat /\ DecryptLimit \in Nat /\ DecryptLimit <= BlockSize
      /\ offset \in 0..BlockSize /\ block \in Nat /\ Len(blocks) \in Nat
      /\ block < Len(blocks)
  BY KeySizes DEF RsaTypeOK, DecryptChunk
<1>2. left \in Nat /\ n \in Nat /\ n <= DecryptLimit
  BY <1>1 DEF Least
<1>3. BlockSize' = BlockSize
  BY DEF DecryptChunk, keyVars, BlockSize
<1>4. next \in [from : Nat, upto : Nat]
  <2>1. blocks \in Seq([from : Nat, upto : Nat]) /\ block + 1 \in 1..Len(blocks)
    BY <1>1 DEF RsaTypeOK
  <2>2. \A S : \A s \in Seq(S) : \A i \in 1..Len(s) : s[i] \in S
    OBVIOUS
  <2> QED
    BY <2>1, <2>2, Zenon
<1>5. WholeKey => n = BlockSize /\ left = BlockSize /\ next.from = got
  BY <1>1, KeySizes DEF RoundInv, Least
<1>6. IF n < left THEN block' = block /\ offset' = offset + n
                  ELSE block' = block + 1 /\ offset' = n - left
  BY Zenon DEF DecryptChunk
<1>7. \/ /\ offset = 0 /\ n = BlockSize /\ next.from = got
         /\ got' = next.upto
         /\ UNCHANGED <<phase, outcome>>
      \/ /\ offset # 0 \/ n # BlockSize \/ next.from # got
         /\ \/ phase' = "done" /\ outcome' = "error"
            \/ outcome' = "other" /\ UNCHANGED phase
         /\ UNCHANGED got
  BY Zenon DEF DecryptChunk
<1> HIDE DEF n, next
<1>8. block' \in 0..Len(blocks) /\ offset' \in 0..BlockSize
  BY <1>1, <1>2, <1>6
<1>9. got' \in Nat
  BY <1>4, <1>7 DEF RsaTypeOK
<1>10. RsaTypeOK'
  BY <1>3, <1>7, <1>8, <1>9 DEF RsaTypeOK, DecryptChunk, keyVars, encVars
<1>11. ASSUME WholeKey PROVE RoundInv'
  <2>1. offset = 0
    BY <1>11 DEF RoundInv
  <2>2. block' = block + 1 /\ offset' = 0
    BY <1>1, <1>5, <1>6, <1>11
  <2>3. got' = next.upto /\ UNCHANGED <<phase, outcome>>
    BY <1>5, <1>7, <1>11, <2>1
  <2>4. UNCHANGED <<blocks, at, size>> /\ phase = "decrypt"
    BY DEF DecryptChunk, keyVars, encVars
  <2>5. got' = Upto(blocks', block')
    BY <1>1, <2>2, <2>3, <2>4 DEF Upto, next
  <2>6. \A i \in 0..Len(blocks) : Upto(blocks', i) = Upto(blocks, i)
    BY <2>4 DEF Upto
  <2>7. /\ \A i \in 1..Len(blocks') : blocks'[i].from = Upto(blocks', i - 1)
        /\ Upto(blocks', Len(blocks')) = at'
    BY <1>1, <1>11, <2>4, <2>6 DEF RoundInv
  <2> QED
    BY <1>11, <2>2, <2>3, <2>4, <2>5, <2>7 DEF RoundInv
<1>12. WholeKey' => WholeKey
  BY DEF WholeKey, DecryptChunk, keyVars
<1> QED
  BY <1>10, <1>11, <1>12 DEF RoundInv

LEMMA StepInv == RsaTypeOK /\ RoundInv /\ [RsaNext]_rsaVars => RsaTypeOK' /\ RoundInv'
<1> SUFFICES ASSUME RsaTypeOK, RoundInv, [RsaNext]_rsaVars PROVE RsaTypeOK' /\ RoundInv'
  OBVIOUS
<1>1. CASE SplitPanics
  <2>1. ~WholeKey
    BY <1>1, KeySizes DEF SplitPanics
  <2>2. RsaTypeOK'
    BY <1>1 DEF SplitPanics, RsaTypeOK, BlockSize, keyVars, encVars, decVars
  <2> QED
    BY <1>1, <2>1, <2>2 DEF RoundInv, WholeKey, SplitPanics, keyVars
<1>2. CASE Encrypted
  <2>1. RsaTypeOK'
    BY <1>2 DEF Encrypted, RsaTypeOK, BlockSize, keyVars, encVars, decVars
  <2> QED
    BY <1>2, <2>1 DEF RoundInv, WholeKey, Upto, Encrypted, keyVars, encVars, decVars
<1>3. CASE Decrypted
  <2>1. RsaTypeOK'
    BY <1>3 DEF Decrypted, RsaTypeOK, BlockSize, keyVars, encVars, decVars
  <2> QED
    BY <1>3, <2>1 DEF RoundInv, WholeKey, Upto, Decrypted, keyVars, encVars, decVars
<1>4. CASE UNCHANGED rsaVars
  BY <1>4 DEF RsaTypeOK, RoundInv, WholeKey, Upto, BlockSize, rsaVars, keyVars, encVars, decVars
<1> QED
  BY <1>1, <1>2, <1>3, <1>4, EncryptInv, DecryptInv DEF RsaNext

(* A text of any length, encrypted chunk by chunk under any key of whole     *)
(* bytes that GenerateRSAKey makes, in either padding, comes back.           *)
THEOREM ChunksReturn == RsaSpec => []RsaRoundTrip
<1>1. RsaTypeOK /\ RoundInv => RsaRoundTrip
  <2> SUFFICES ASSUME RsaTypeOK, RoundInv, phase = "done", WholeKey PROVE outcome = "text" /\ got = size
    BY DEF RsaRoundTrip, WholeKey
  <2> QED
    BY DEF RoundInv
<1> QED
  BY <1>1, InitInv, StepInv, PTL DEF RsaSpec

-----------------------------------------------------------------------------
(* Counting down from a length.                                             *)

LEMMA NatMin ==
  ASSUME NEW T, T \subseteq Nat, T # {}
  PROVE  \E n \in T : \A m \in T : n <= m
<1> DEFINE R == OpToRel(<, Nat)
<1>1. IsWellFoundedOn(R, Nat)
  BY NatLessThanWellFounded
<1> HIDE DEF R
<1>2. \E x \in T : \A y \in T : ~ (<<y, x>> \in R)
  BY <1>1, WFMin
<1>3. \A x, y \in Nat : ~ (<<y, x>> \in R) => x <= y
  BY DEF R, OpToRel
<1> QED BY <1>2, <1>3

LEMMA SetInduction ==
  ASSUME NEW T, 0 \in T, \A n \in Nat : n \in T => n + 1 \in T
  PROVE  \A n \in Nat : n \in T
<1> SUFFICES ASSUME Nat \ T # {} PROVE FALSE
  OBVIOUS
<1>1. PICK n \in Nat \ T : \A m \in Nat \ T : n <= m
  BY NatMin
<1>2. n # 0
  OBVIOUS
<1>3. n - 1 \in Nat /\ n - 1 < n /\ (n - 1) + 1 = n
  BY <1>2
<1> QED BY <1>1, <1>3

LEMMA NatMax ==
  ASSUME NEW T, NEW N \in Nat, T \subseteq 0..N, T # {}
  PROVE  \E n \in T : \A m \in T : m <= n
<1> DEFINE D == {N - n : n \in T}
<1>1. D \subseteq Nat /\ D # {}
  <2>1. \A n \in 0..N : N - n \in Nat
    OBVIOUS
  <2> QED BY <2>1
<1>2. PICK d \in D : \A e \in D : d <= e
  BY <1>1, NatMin
<1>3. PICK n \in T : d = N - n
  BY <1>2
<1>4. ASSUME NEW m \in T PROVE m <= n
  <2>1. N - n <= N - m
    BY <1>2, <1>3
  <2>2. n \in 0..N /\ m \in 0..N
    OBVIOUS
  <2> QED BY <2>1, <2>2
<1> QED BY <1>4

\* What holds at the end of a text, and at a place if at all after it, holds
\* everywhere.
LEMMA Downward ==
  ASSUME NEW N \in Nat, NEW T,
         \A i \in 1..(N + 1) : (\A j \in 1..(N + 1) : i < j => j \in T) => i \in T
  PROVE  \A i \in 1..(N + 1) : i \in T
<1> DEFINE Bad == {i \in 1..(N + 1) : i \notin T}
<1> SUFFICES ASSUME Bad # {} PROVE FALSE
  OBVIOUS
<1>1. Bad \subseteq 0..(N + 1) /\ N + 1 \in Nat
  OBVIOUS
<1>2. PICK i \in Bad : \A j \in Bad : j <= i
  BY <1>1, NatMax
<1>3. \A j \in 1..(N + 1) : i < j => j \in T
  BY <1>2
<1> QED BY <1>2, <1>3

-----------------------------------------------------------------------------
(* Masking: one mask.                                                       *)

Chars == Seq(Int)
IsMask(m) == m.prefix \in Nat /\ m.suffix \in Nat

\* A text as it was, but for what is masked.
MaskedFrom(t, u) ==
  /\ u \in Chars /\ Len(u) = Len(t)
  /\ \A i \in 1..Len(t) : u[i] \in {t[i], Star}

LEMMA KeptBounds ==
  \A m, n : IsMask(m) /\ n \in Nat =>
    /\ KeptPrefix(m, n) \in 0..n /\ KeptSuffix(m, n) \in 0..n
    /\ KeptPrefix(m, n) + KeptSuffix(m, n) <= n
    /\ KeptPrefix(m, n) <= m.prefix /\ KeptSuffix(m, n) <= m.suffix
  BY DEF KeptPrefix, KeptSuffix, AtMost, IsMask

\* What a mask keeps of a text that was cut or made longer, it keeps of the
\* whole.
LEMMA KeptGrows ==
  \A m, n, k, c :
    IsMask(m) /\ n \in Nat /\ k \in Nat /\ c \in Nat
      /\ c <= n /\ c <= KeptPrefix(m, k) + KeptSuffix(m, k)
    => c <= KeptPrefix(m, n) + KeptSuffix(m, n)
  BY DEF KeptPrefix, KeptSuffix, AtMost, IsMask

LEMMA AppliedShape ==
  \A t \in Chars : \A m : IsMask(m) => MaskedFrom(t, applyMask(t, m))
<1> SUFFICES ASSUME NEW t \in Chars, NEW m, IsMask(m)
             PROVE  MaskedFrom(t, applyMask(t, m))
  OBVIOUS
<1> DEFINE n == Len(t)
           u == [i \in 1..n |-> IF i <= KeptPrefix(m, n) \/ i > n - KeptSuffix(m, n)
                                THEN t[i] ELSE Star]
<1>1. n \in Nat /\ \A i \in 1..n : t[i] \in Int
  BY DEF Chars
<1>2. CASE m.strategy \notin Strategies
  BY <1>1, <1>2 DEF applyMask, MaskedFrom
<1>3. CASE m.strategy \in Strategies
  <2>1. applyMask(t, m) = u
    BY <1>3 DEF applyMask
  <2>2. u \in Seq(Int) /\ Len(u) = n
    <3>1. u \in [1..n -> Int]
      BY <1>1 DEF Star
    <3> HIDE DEF u
    <3> QED BY <1>1, <3>1
  <2>3. \A i \in 1..n : u[i] \in {t[i], Star}
    OBVIOUS
  <2> HIDE DEF u
  <2> QED BY <2>1, <2>2, <2>3 DEF MaskedFrom, Chars
<1> QED BY <1>2, <1>3

\* No more characters are to be seen than the mask keeps.
LEMMA AppliedHides ==
  \A t \in Chars : \A m : IsMask(m) /\ m.strategy \in Strategies =>
    /\ IsFiniteSet(Visible(applyMask(t, m)))
    /\ Cardinality(Visible(applyMask(t, m))) <= KeptPrefix(m, Len(t)) + KeptSuffix(m, Len(t))
<1> SUFFICES ASSUME NEW t \in Chars, NEW m, IsMask(m), m.strategy \in Strategies
             PROVE  /\ IsFiniteSet(Visible(applyMask(t, m)))
                    /\ Cardinality(Visible(applyMask(t, m)))
                         <= KeptPrefix(m, Len(t)) + KeptSuffix(m, Len(t))
  OBVIOUS
<1>0. PICK n \in Nat : n = Len(t)
  BY DEF Chars
<1>1. PICK p, s : p = KeptPrefix(m, n) /\ s = KeptSuffix(m, n)
  OBVIOUS
<1>2. p \in 0..n /\ s \in 0..n /\ p + s <= n
  BY <1>1, KeptBounds
<1>3. applyMask(t, m) = [i \in 1..n |-> IF i <= p \/ i > n - s THEN t[i] ELSE Star]
  BY <1>0, <1>1 DEF applyMask
<1>4. Visible(applyMask(t, m)) \subseteq (1..p) \cup ((n - s + 1)..n)
  BY <1>2, <1>3 DEF Visible, Star
<1>5. IsFiniteSet(1..p) /\ Cardinality(1..p) = p
  BY <1>2, FS_Interval
<1>6. IsFiniteSet((n - s + 1)..n) /\ Cardinality((n - s + 1)..n) = s
  <2>1. n - s + 1 \in Int /\ n \in Int
    BY <1>2
  <2>2. /\ IsFiniteSet((n - s + 1)..n)
        /\ Cardinality((n - s + 1)..n) = IF n - s + 1 > n THEN 0 ELSE n - (n - s + 1) + 1
    BY <2>1, FS_Interval
  <2> QED BY <1>2, <2>2
<1>7. PICK A, B : A = 1..p /\ B = (n - s + 1)..n
  OBVIOUS
<1>8. IsFiniteSet(A \cup B) /\ Cardinality(A \cup B) = p + s - Cardinality(A \cap B)
  BY <1>5, <1>6, <1>7, FS_Union
<1>9. Cardinality(A \cap B) \in Nat
  BY <1>5, <1>7, FS_Subset, FS_CardinalityType
<1>10. Cardinality(A \cup B) <= p + s
  BY <1>2, <1>8, <1>9
<1>11. PICK V : V = Visible(applyMask(t, m))
  OBVIOUS
<1>12. V \in SUBSET (A \cup B)
  BY <1>4, <1>7, <1>11
<1>13. IsFiniteSet(V) /\ Cardinality(V) <= Cardinality(A \cup B)
  BY <1>8, <1>12, FS_Subset
<1>14. Cardinality(V) \in Nat /\ Cardinality(A \cup B) \in Nat
  BY <1>8, <1>13, FS_CardinalityType
<1> QED BY <1>0, <1>1, <1>2, <1>10, <1>11, <1>13, <1>14

\* If it keeps less than there is, it hides the character after its prefix.
LEMMA AppliedStars ==
  \A t \in Chars : \A m :
    IsMask(m) /\ m.strategy \in Strategies /\ m.prefix + m.suffix < Len(t)
    => \E k \in 1..Len(t) : applyMask(t, m)[k] = Star
<1> SUFFICES ASSUME NEW t \in Chars, NEW m, IsMask(m), m.strategy \in Strategies,
                    m.prefix + m.suffix < Len(t)
             PROVE  \E k \in 1..Len(t) : applyMask(t, m)[k] = Star
  OBVIOUS
<1>1. PICK n \in Nat : n = Len(t)
  BY DEF Chars
<1>2. PICK p, s : p = KeptPrefix(m, n) /\ s = KeptSuffix(m, n)
  OBVIOUS
<1>3. p \in 0..n /\ s \in 0..n /\ p <= m.prefix /\ s <= m.suffix
  BY <1>2, KeptBounds
<1>4. p + 1 \in 1..n /\ ~(p + 1 <= p) /\ ~(p + 1 > n - s)
  BY <1>1, <1>3 DEF IsMask
<1>5. applyMask(t, m) = [i \in 1..n |-> IF i <= p \/ i > n - s THEN t[i] ELSE Star]
  BY <1>1, <1>2 DEF applyMask
<1> QED BY <1>1, <1>4, <1>5

-----------------------------------------------------------------------------
(* Masking: the content rules.                                              *)

IsRun(run) ==
  /\ run.min \in Nat \ {0} /\ run.max \in Nat /\ run.min <= run.max
  /\ Other \notin Taken(run)

LEMMA PatternIsRun ==
  ASSUME NEW min \in Nat \ {0}, NEW max \in Nat, min <= max, NEW classes,
         \A k \in DOMAIN classes : Other \notin classes[k]
  PROVE  IsRun(Pattern(min, max, classes))
  BY DEF Pattern, IsRun, Taken, Digits, Other

LEMMA PatternsAreRuns ==
  \A type \in DOMAIN contentPattern : IsRun(contentPattern[type])
<1>1. IsRun(Pattern(11, 11, <<{1}, 3..9>>))
  <2>1. \A k \in DOMAIN <<{1}, 3..9>> : Other \notin <<{1}, 3..9>>[k]
    BY DEF Other
  <2> QED BY <2>1, PatternIsRun
<1>2. IsRun(Pattern(18, 18, [k \in {18} |-> Digits \cup {LetterX}]))
  <2>1. \A k \in {18} : Other \notin Digits \cup {LetterX}
    BY DEF Other, Digits, LetterX
  <2> QED BY <2>1, PatternIsRun
<1>3. IsRun(Pattern(16, 19, <<>>))
  BY PatternIsRun
<1>4. IsRun(Pattern(5, 11, <<1..9>>))
  <2>1. \A k \in DOMAIN <<1..9>> : Other \notin <<1..9>>[k]
    BY DEF Other
  <2> QED BY <2>1, PatternIsRun
<1> QED BY <1>1, <1>2, <1>3, <1>4 DEF contentPattern

Takes(run, t, i) == Class(t[i]) \in Taken(run)
AllTaken(run, t, i, j) == \A k \in i..j : Takes(run, t, k)

LEMMA StarNotTaken == \A run, t, i : IsRun(run) /\ t[i] = Star => ~ Takes(run, t, i)
  BY DEF IsRun, Takes, Class, Star

\* A match is of characters that the pattern takes, as many as it says.
LEMMA MatchFits ==
  ASSUME NEW t \in Chars, NEW run, IsRun(run), NEW i \in 1..Len(t),
         NEW n \in Matches(t, run, i)
  PROVE  n \in Nat /\ n >= run.min /\ n >= 1 /\ i + n - 1 <= Len(t) /\ AllTaken(run, t, i, i + n - 1)
<1>0. PICK N \in Nat : N = Len(t)
  BY DEF Chars
<1>1. /\ run.min \in Nat \ {0} /\ run.max \in Nat
      /\ n \in run.min..AtMost(run.max, N - i + 1)
      /\ \A j \in 1..n : Class(t[i + j - 1]) \in run.at[j]
  BY <1>0 DEF IsRun, Matches
<1>2. n \in Nat /\ n >= run.min /\ n >= 1 /\ n <= run.max /\ n <= N - i + 1
  BY <1>0, <1>1 DEF AtMost
<1>3. ASSUME NEW k \in i..(i + n - 1)
      PROVE  Takes(run, t, k)
  <2>1. PICK j \in 1..n : j = k - i + 1
    BY <1>2
  <2>2. i + j - 1 = k /\ j \in 1..run.max
    BY <1>1, <1>2, <2>1
  <2>3. Class(t[i + j - 1]) \in run.at[j]
    BY <1>1
  <2> QED BY <2>2, <2>3 DEF Takes, Taken
<1> QED BY <1>0, <1>2, <1>3 DEF AllTaken

LEMMA MatchIsLongest ==
  ASSUME NEW t \in Chars, NEW run, IsRun(run), NEW i \in 1..Len(t), Matches(t, run, i) # {}
  PROVE  MatchLength(t, run, i) \in Matches(t, run, i)
<1> DEFINE M == Matches(t, run, i)
<1>0. PICK N \in Nat : N = Len(t)
  BY DEF Chars
<1>1. PICK most \in Nat : \A n \in M : n <= most
  BY <1>0, MatchFits
<1>2. M \subseteq 0..most
  BY <1>1, MatchFits
<1> HIDE DEF M
<1>3. \E n \in M : \A k \in M : k <= n
  <2>1. M # {}
    BY DEF M
  <2> QED BY <1>2, <2>1, NatMax
<1>4. (CHOOSE n \in M : \A k \in M : k <= n) \in M
  BY <1>3
<1> QED BY <1>4 DEF M, MatchLength

RunStep(t, run, m, g, i) ==
  IF i > Len(t) THEN <<>>
  ELSE IF Matches(t, run, i) = {} THEN <<t[i]>> \o g[i + 1]
  ELSE applyMask(SubSeq(t, i, i + MatchLength(t, run, i) - 1), m) \o g[i + MatchLength(t, run, i)]

\* The recursion has a solution: it goes to later places only.
LEMMA ReplaceEquation ==
  ASSUME NEW t \in Chars, NEW run, IsRun(run), NEW m
  PROVE  \E g : /\ ReplaceMatches(t, run, m) = g[1]
                /\ \A i \in 1..(Len(t) + 1) : g[i] = RunStep(t, run, m, g, i)
<1>0. PICK N \in Nat : N = Len(t)
  BY DEF Chars
<1> DEFINE Solves(g) == g = [i \in 1..(Len(t) + 1) |->
             IF i > Len(t) THEN <<>>
             ELSE IF Matches(t, run, i) = {} THEN <<t[i]>> \o g[i + 1]
             ELSE LET n == MatchLength(t, run, i)
                  IN applyMask(SubSeq(t, i, i + n - 1), m) \o g[i + n]]
           Holds(g, a) == \A i \in 1..(N + 1) : a <= i => g[i] = RunStep(t, run, m, g, i)
           T == {a \in 1..(N + 1) : \E g : Holds(g, a)}
<1>1. ASSUME NEW g, NEW h, NEW i \in 1..(N + 1), \A j \in 1..(N + 1) : i < j => g[j] = h[j]
      PROVE  RunStep(t, run, m, g, i) = RunStep(t, run, m, h, i)
  <2>1. CASE i > Len(t)
    BY <2>1 DEF RunStep
  <2>2. CASE ~ (i > Len(t))
    <3>1. i \in 1..Len(t)
      BY <1>0, <2>2
    <3>2. PICK n : n = MatchLength(t, run, i)
      OBVIOUS
    <3>3. Matches(t, run, i) # {} => n \in 1..(N - i + 1)
      BY <1>0, <3>1, <3>2, MatchIsLongest, MatchFits
    <3>4. i + 1 \in 1..(N + 1) /\ i < i + 1 /\ g[i + 1] = h[i + 1]
      BY <1>0, <1>1, <3>1
    <3>5. Matches(t, run, i) # {} => i + n \in 1..(N + 1) /\ i < i + n /\ g[i + n] = h[i + n]
      BY <1>1, <3>3
    <3> QED BY <3>2, <3>4, <3>5 DEF RunStep
  <2> QED BY <2>1, <2>2
<1>2. ASSUME NEW a \in 1..(N + 1), \A b \in 1..(N + 1) : a < b => b \in T
      PROVE  a \in T
  <2>1. \E g : \A i \in 1..(N + 1) : a < i => g[i] = RunStep(t, run, m, g, i)
    <3>1. CASE a = N + 1
      BY <3>1
    <3>2. CASE a # N + 1
      <4>1. a + 1 \in T /\ \A i \in 1..(N + 1) : a < i => a + 1 <= i
        BY <1>2, <3>2
      <4> QED BY <4>1
    <3> QED BY <3>1, <3>2
  <2>2. PICK g : \A i \in 1..(N + 1) : a < i => g[i] = RunStep(t, run, m, g, i)
    BY <2>1
  <2> DEFINE h == [i \in 1..(N + 1) |-> RunStep(t, run, m, g, i)]
  <2>3. \A j \in 1..(N + 1) : a < j => g[j] = h[j]
    BY <2>2
  <2>4. ASSUME NEW i \in 1..(N + 1), a <= i
        PROVE  h[i] = RunStep(t, run, m, h, i)
    <3>1. \A j \in 1..(N + 1) : i < j => g[j] = h[j]
      BY <2>3, <2>4
    <3>2. h[i] = RunStep(t, run, m, g, i)
      OBVIOUS
    <3> HIDE DEF h
    <3> QED BY <1>1, <3>1, <3>2
  <2> HIDE DEF h
  <2> QED BY <2>4
<1>3. 1 \in T
  <2> HIDE DEF T
  <2>1. \A a \in 1..(N + 1) : a \in T
    BY <1>2, Downward
  <2> QED BY <2>1
<1>4. PICK g : \A i \in 1..(N + 1) : g[i] = RunStep(t, run, m, g, i)
  BY <1>3
<1> DEFINE h == [i \in 1..(N + 1) |-> RunStep(t, run, m, g, i)]
<1>5. \A i \in 1..(N + 1) : h[i] = RunStep(t, run, m, h, i)
  <2>1. \A j \in 1..(N + 1) : g[j] = h[j]
    BY <1>4
  <2>2. \A i \in 1..(N + 1) : h[i] = RunStep(t, run, m, g, i)
    OBVIOUS
  <2> HIDE DEF h
  <2> QED BY <1>1, <2>1, <2>2
<1>6. h = [i \in 1..(N + 1) |-> h[i]]
  OBVIOUS
<1> HIDE DEF h
<1>7. Solves(h)
  <2>1. h = [i \in 1..(N + 1) |-> RunStep(t, run, m, h, i)]
    BY <1>5, <1>6
  <2> QED BY <1>0, <2>1 DEF RunStep
<1> DEFINE f == CHOOSE g1 : Solves(g1)
<1>8. ReplaceMatches(t, run, m) = f[1]
  BY DEF ReplaceMatches
<1>9. Solves(f)
  BY <1>7
<1> HIDE DEF f
<1>10. \A i \in 1..(Len(t) + 1) : f[i] = RunStep(t, run, m, f, i)
  BY <1>9 DEF RunStep
<1> QED BY <1>8, <1>10

\* What the rules made of a text from i on.
RestOf(t, i, u) ==
  /\ u \in Chars /\ Len(u) = Len(t) - i + 1
  /\ \A k \in i..Len(t) : u[k - i + 1] \in {t[k], Star}

LEMMA Joins ==
  ASSUME NEW x \in Chars, NEW v \in Chars, NEW N \in Nat, NEW i \in Nat, NEW n \in Nat,
         Len(x) = n, i + n <= N + 1, Len(v) = N - (i + n) + 1
  PROVE  /\ x \o v \in Chars /\ Len(x \o v) = N - i + 1
         /\ \A k \in i..N :
              (x \o v)[k - i + 1] = IF k < i + n THEN x[k - i + 1] ELSE v[k - (i + n) + 1]
<1>1. x \o v \in Chars /\ Len(x \o v) = Len(x) + Len(v)
  BY DEF Chars
<1>2. \A j \in 1..(Len(x) + Len(v)) : (x \o v)[j] = IF j <= Len(x) THEN x[j] ELSE v[j - Len(x)]
  BY DEF Chars
<1>3. ASSUME NEW k \in i..N
      PROVE  (x \o v)[k - i + 1] = IF k < i + n THEN x[k - i + 1] ELSE v[k - (i + n) + 1]
  <2>1. k - i + 1 \in 1..(Len(x) + Len(v)) /\ (k - i + 1) - n = k - (i + n) + 1
    OBVIOUS
  <2>2. k - i + 1 <= n <=> k < i + n
    OBVIOUS
  <2> QED BY <1>2, <2>1, <2>2
<1> QED BY <1>1, <1>3

\* The first thing that is done from i on: a match is masked, or a character
\* goes by.
Matched(t, run, m, i, w, x) ==
  /\ w = MatchLength(t, run, i) /\ w \in Matches(t, run, i)
  /\ x = applyMask(SubSeq(t, i, i + w - 1), m)
Passed(t, run, i, w, x) ==
  w = 1 /\ x = <<t[i]>> /\ Matches(t, run, i) = {}

LEMMA FirstPiece ==
  ASSUME NEW t \in Chars, NEW run, IsRun(run), NEW m, IsMask(m), NEW g, NEW i \in 1..Len(t)
  PROVE  \E w \in Nat, x \in Chars :
           /\ RunStep(t, run, m, g, i) = x \o g[i + w]
           /\ 1 <= w /\ i + w <= Len(t) + 1 /\ Len(x) = w
           /\ \A k \in 1..w : x[k] \in {t[i + k - 1], Star}
           /\ Matched(t, run, m, i, w, x) \/ Passed(t, run, i, w, x)
<1>0. PICK N \in Nat : N = Len(t)
  BY DEF Chars
<1>1. PICK n : n = MatchLength(t, run, i)
  OBVIOUS
<1>2. Matches(t, run, i) # {} => n \in Matches(t, run, i) /\ n \in 1..(N - i + 1)
  BY <1>0, <1>1, MatchIsLongest, MatchFits
<1>3. i \in Nat /\ ~ (i > Len(t)) /\ i + 1 <= N + 1
  BY <1>0
<1>4. CASE Matches(t, run, i) # {}
  <2>1. n \in Nat /\ 1 <= n /\ i + n <= N + 1
    BY <1>2, <1>3, <1>4
  <2>2. PICK s : s = SubSeq(t, i, i + n - 1)
    OBVIOUS
  <2>3. s \in Chars /\ Len(s) = n /\ \A k \in 1..n : s[k] = t[i + k - 1]
    <3>1. i + n - 1 \in 1..N /\ (i + n - 1) - i + 1 = n
      BY <1>3, <2>1
    <3>2. \A k \in 1..n : k + i - 1 = i + k - 1
      BY <1>3, <2>1
    <3>3. i \in 1..Len(t) /\ i + n - 1 \in 1..Len(t)
      BY <1>0, <1>3, <3>1
    <3>4. SubSeq(t, i, i + n - 1) \in Chars /\ Len(SubSeq(t, i, i + n - 1)) = n
      <4>1. PICK e : e = i + n - 1
        OBVIOUS
      <4>2. i \in 1..Len(t) /\ e \in 1..Len(t) /\ i <= e /\ e - i + 1 = n
        BY <1>3, <2>1, <3>1, <3>3, <4>1
      <4>3. SubSeq(t, i, e) \in Seq(Int)
        BY <4>2 DEF Chars
      <4>4. Len(SubSeq(t, i, e)) = e - i + 1
        BY <4>2 DEF Chars
      <4> QED BY <4>1, <4>2, <4>3, <4>4 DEF Chars
    <3>5. s \in Chars /\ Len(s) = n
      BY <2>2, <3>1, <3>4
    <3>6. \A k \in 1..n : s[k] = t[k + i - 1]
      BY <2>2, <3>1, <3>3 DEF Chars
    <3> QED BY <3>2, <3>5, <3>6
  <2>4. PICK x : x = applyMask(s, m)
    OBVIOUS
  <2>5. MaskedFrom(s, x)
    BY <2>3, <2>4, AppliedShape
  <2>6. x \in Chars /\ Len(x) = n /\ \A k \in 1..n : x[k] \in {t[i + k - 1], Star}
    BY <2>3, <2>5 DEF MaskedFrom
  <2>7. RunStep(t, run, m, g, i) = x \o g[i + n]
    BY <1>1, <1>3, <1>4, <2>2, <2>4 DEF RunStep
  <2>8. Matched(t, run, m, i, n, x)
    BY <1>1, <1>2, <1>4, <2>2, <2>4 DEF Matched
  <2> QED BY <1>0, <2>1, <2>6, <2>7, <2>8
<1>5. CASE Matches(t, run, i) = {}
  <2>1. PICK x : x = <<t[i]>>
    OBVIOUS
  <2>2. t[i] \in Int
    BY DEF Chars
  <2>3. x \in Chars /\ Len(x) = 1 /\ x[1] = t[i]
    BY <2>1, <2>2 DEF Chars
  <2>4. PICK w \in Nat : w = 1
    OBVIOUS
  <2>5. \A k \in 1..w : x[k] \in {t[i + k - 1], Star}
    <3>1. i + 1 - 1 = i /\ \A k \in 1..w : k = 1
      BY <1>3, <2>4
    <3> QED BY <2>3, <3>1
  <2>6. RunStep(t, run, m, g, i) = x \o g[i + w]
    BY <1>1, <1>3, <1>5, <2>1, <2>4 DEF RunStep
  <2>7. Passed(t, run, i, w, x)
    BY <1>1, <1>5, <2>1, <2>4 DEF Passed
  <2>8. 1 <= w /\ i + w <= Len(t) + 1 /\ Len(x) = w
    BY <1>0, <1>3, <2>3, <2>4
  <2> QED BY <2>3, <2>5, <2>6, <2>7, <2>8
<1> QED BY <1>4, <1>5

\* Whatever a rule does, the characters keep their places.
LEMMA RestKept ==
  ASSUME NEW t \in Chars, NEW run, IsRun(run), NEW m, IsMask(m),
         NEW g, \A i \in 1..(Len(t) + 1) : g[i] = RunStep(t, run, m, g, i)
  PROVE  \A i \in 1..(Len(t) + 1) : RestOf(t, i, g[i])
<1>0. PICK N \in Nat : N = Len(t)
  BY DEF Chars
<1> DEFINE T == {i \in 1..(N + 1) : RestOf(t, i, g[i])}
<1>1. ASSUME NEW i \in 1..(N + 1), \A j \in 1..(N + 1) : i < j => j \in T
      PROVE  i \in T
  <2>1. CASE i = N + 1
    <3>1. g[i] = <<>>
      <4>1. i \in 1..(Len(t) + 1) /\ i > Len(t)
        BY <1>0, <2>1
      <4>2. g[i] = RunStep(t, run, m, g, i)
        BY <4>1
      <4> QED BY <4>1, <4>2 DEF RunStep
    <3>2. <<>> \in Chars /\ Len(<<>>) = 0
      BY DEF Chars
    <3> QED BY <1>0, <2>1, <3>1, <3>2 DEF RestOf
  <2>2. CASE i # N + 1
    <3>1. i \in 1..Len(t)
      BY <1>0, <2>2
    <3>2. PICK w \in Nat, x \in Chars :
           /\ RunStep(t, run, m, g, i) = x \o g[i + w]
           /\ 1 <= w /\ i + w <= Len(t) + 1 /\ Len(x) = w
           /\ \A k \in 1..w : x[k] \in {t[i + k - 1], Star}
           /\ Matched(t, run, m, i, w, x) \/ Passed(t, run, i, w, x)
      BY <3>1, FirstPiece
    <3>3. i + w \in 1..(N + 1) /\ i < i + w
      BY <1>0, <3>1, <3>2
    <3>4. PICK v : v = g[i + w]
      OBVIOUS
    <3>5. v \in Chars /\ Len(v) = N - (i + w) + 1
          /\ \A k \in (i + w)..N : v[k - (i + w) + 1] \in {t[k], Star}
      BY <1>0, <1>1, <3>3, <3>4 DEF RestOf
    <3>6. /\ x \o v \in Chars /\ Len(x \o v) = N - i + 1
          /\ \A k \in i..N :
               (x \o v)[k - i + 1] = IF k < i + w THEN x[k - i + 1] ELSE v[k - (i + w) + 1]
      <4>1. i \in Nat /\ i + w <= N + 1 /\ Len(x) = w
        BY <1>0, <3>2
      <4> QED BY <3>5, <4>1, Joins
    <3>7. ASSUME NEW k \in i..N PROVE (x \o v)[k - i + 1] \in {t[k], Star}
      <4>1. CASE k < i + w
        <5>1. k - i + 1 \in 1..w /\ i + (k - i + 1) - 1 = k
          BY <3>1, <4>1
        <5> QED BY <3>2, <3>6, <4>1, <5>1
      <4>2. CASE ~ (k < i + w)
        <5>1. k \in (i + w)..N
          BY <3>1, <4>2
        <5> QED BY <3>5, <3>6, <4>2, <5>1
      <4> QED BY <4>1, <4>2
    <3>8. g[i] = x \o v
      BY <1>0, <3>2, <3>4
    <3> QED BY <1>0, <3>6, <3>7, <3>8 DEF RestOf
  <2> QED BY <2>1, <2>2
<1> HIDE DEF T
<1>2. \A i \in 1..(N + 1) : i \in T
  BY <1>1, Downward
<1> QED BY <1>0, <1>2 DEF T

LEMMA ReplacedShape ==
  \A t \in Chars : \A run, m : IsRun(run) /\ IsMask(m) => MaskedFrom(t, ReplaceMatches(t, run, m))
<1> SUFFICES ASSUME NEW t \in Chars, NEW run, IsRun(run), NEW m, IsMask(m)
             PROVE  MaskedFrom(t, ReplaceMatches(t, run, m))
  OBVIOUS
<1>1. PICK g : /\ ReplaceMatches(t, run, m) = g[1]
               /\ \A i \in 1..(Len(t) + 1) : g[i] = RunStep(t, run, m, g, i)
  BY ReplaceEquation
<1>2. 1 \in 1..(Len(t) + 1) /\ Len(t) \in Nat
  BY DEF Chars
<1>3. RestOf(t, 1, g[1])
  BY <1>1, <1>2, RestKept
<1>4. PICK u : u = g[1]
  OBVIOUS
<1>5. \A k \in 1..Len(t) : k - 1 + 1 = k
  BY <1>2
<1> QED BY <1>1, <1>2, <1>3, <1>4, <1>5 DEF RestOf, MaskedFrom

Piece(t, run, m, g, i, w, x) ==
  /\ 1 <= w /\ i + w <= Len(t) + 1
  /\ Matched(t, run, m, i, w, x) \/ Passed(t, run, i, w, x)
  /\ \A k \in i..Len(t) :
       g[i][k - i + 1] = IF k < i + w THEN x[k - i + 1] ELSE g[i + w][k - (i + w) + 1]

LEMMA PieceJoined ==
  ASSUME NEW t \in Chars, NEW run, IsRun(run), NEW m, IsMask(m),
         NEW g, \A i \in 1..(Len(t) + 1) : g[i] = RunStep(t, run, m, g, i),
         NEW i \in 1..Len(t)
  PROVE  \E w \in Nat, x \in Chars : Piece(t, run, m, g, i, w, x)
<1>0. PICK N \in Nat : N = Len(t)
  BY DEF Chars
<1>1. PICK w \in Nat, x \in Chars :
        /\ RunStep(t, run, m, g, i) = x \o g[i + w]
        /\ 1 <= w /\ i + w <= Len(t) + 1 /\ Len(x) = w
        /\ \A k \in 1..w : x[k] \in {t[i + k - 1], Star}
        /\ Matched(t, run, m, i, w, x) \/ Passed(t, run, i, w, x)
  BY FirstPiece
<1>2. i + w \in 1..(Len(t) + 1) /\ i \in 1..(Len(t) + 1) /\ i \in Nat
  BY <1>0, <1>1
<1>3. RestOf(t, i + w, g[i + w])
  BY <1>2, RestKept
<1>4. PICK v : v = g[i + w]
  OBVIOUS
<1>5. v \in Chars /\ Len(v) = N - (i + w) + 1
  BY <1>0, <1>3, <1>4 DEF RestOf
<1>6. \A k \in i..N :
        (x \o v)[k - i + 1] = IF k < i + w THEN x[k - i + 1] ELSE v[k - (i + w) + 1]
  <2>1. i \in Nat /\ i + w <= N + 1 /\ Len(x) = w
    BY <1>0, <1>1
  <2> QED BY <1>5, <2>1, Joins
<1>7. g[i] = x \o v
  BY <1>1, <1>2, <1>4
<1>8. \A k \in i..N :
        g[i][k - i + 1] = IF k < i + w THEN x[k - i + 1] ELSE g[i + w][k - (i + w) + 1]
  <2> SUFFICES ASSUME NEW k \in i..N
               PROVE  g[i][k - i + 1] = IF k < i + w THEN x[k - i + 1]
                                        ELSE g[i + w][k - (i + w) + 1]
    OBVIOUS
  <2>1. (x \o v)[k - i + 1] = IF k < i + w THEN x[k - i + 1] ELSE v[k - (i + w) + 1]
    BY <1>6
  <2> QED BY <1>4, <1>7, <2>1, Zenon
<1> QED BY <1>0, <1>1, <1>8 DEF Piece

\* A rule hides a part of every run that it matches in, if its mask keeps less
\* than it matches: a match that begins before the run does not reach into it,
\* and one that begins in it stays there.
LEMMA RunStarred ==
  ASSUME NEW t \in Chars, NEW run, IsRun(run), NEW m, IsMask(m), m.strategy \in Strategies,
         m.prefix + m.suffix < run.min,
         NEW r \in Runs(t, run), NEW q \in r[1]..r[2], Matches(t, run, q) # {}
  PROVE  \E k \in r[1]..r[2] : ReplaceMatches(t, run, m)[k] = Star
<1>0. PICK N \in Nat : N = Len(t)
  BY DEF Chars
<1>1. PICK a, b : a = r[1] /\ b = r[2]
  OBVIOUS
<1>2. DOMAIN t = 1..N
  BY <1>0 DEF Chars
<1>3. /\ a \in 1..N /\ b \in 1..N /\ a <= b /\ q \in a..b
      /\ a - 1 \in 1..N => ~ Takes(run, t, a - 1)
      /\ b + 1 \in 1..N => ~ Takes(run, t, b + 1)
  BY <1>1, <1>2 DEF Runs, Takes
<1>4. PICK g : /\ ReplaceMatches(t, run, m) = g[1]
               /\ \A i \in 1..(Len(t) + 1) : g[i] = RunStep(t, run, m, g, i)
  BY ReplaceEquation
<1> DEFINE T == {i \in 1..(N + 1) : i <= q => \E k \in a..b : k >= i /\ g[i][k - i + 1] = Star}
<1>5. ASSUME NEW i \in 1..(N + 1), \A j \in 1..(N + 1) : i < j => j \in T
      PROVE  i \in T
  <2> SUFFICES ASSUME i <= q PROVE \E k \in a..b : k >= i /\ g[i][k - i + 1] = Star
    OBVIOUS
  <2>1. i \in 1..Len(t) /\ i \in 1..N
    BY <1>0, <1>3
  <2>2. PICK w \in Nat, x \in Chars : Piece(t, run, m, g, i, w, x)
    <3>1. i \in 1..Len(t)
      BY <2>1
    <3>2. \A j \in 1..(Len(t) + 1) : g[j] = RunStep(t, run, m, g, j)
      BY <1>4
    <3> QED BY <3>1, <3>2, PieceJoined
  <2>21. /\ 1 <= w /\ i + w <= Len(t) + 1
         /\ Matched(t, run, m, i, w, x) \/ Passed(t, run, i, w, x)
         /\ \A k \in i..Len(t) :
              g[i][k - i + 1] = IF k < i + w THEN x[k - i + 1] ELSE g[i + w][k - (i + w) + 1]
    BY <2>2 DEF Piece
  <2>3. CASE i + w <= q
    <3>1. i + w \in 1..(N + 1) /\ i < i + w
      BY <1>0, <2>1, <2>21
    <3>2. PICK k \in a..b : k >= i + w /\ g[i + w][k - (i + w) + 1] = Star
      BY <1>5, <2>3, <3>1
    <3>3. k \in i..Len(t) /\ ~ (k < i + w) /\ k >= i
      BY <1>0, <1>3, <2>1, <2>21, <3>2
    <3> QED BY <2>21, <3>2, <3>3
  <2>4. CASE i + w > q
    <3>1. Matched(t, run, m, i, w, x)
      <4> SUFFICES ASSUME Passed(t, run, i, w, x) PROVE FALSE
        BY <2>21
      <4>1. i = q
        BY <1>3, <2>1, <2>4 DEF Passed
      <4> QED BY <4>1 DEF Passed
    <3>2. /\ w \in Matches(t, run, i) /\ x = applyMask(SubSeq(t, i, i + w - 1), m)
          /\ w >= run.min /\ i + w - 1 <= N /\ AllTaken(run, t, i, i + w - 1)
      BY <1>0, <2>1, <3>1, MatchFits DEF Matched
    <3>3. i >= a
      <4> SUFFICES ASSUME i < a PROVE FALSE
        BY <1>3, <2>1
      <4>1. a - 1 \in i..(i + w - 1) /\ a - 1 \in 1..N
        BY <1>3, <2>1, <2>4
      <4> QED BY <1>3, <3>2, <4>1 DEF AllTaken
    <3>4. i + w - 1 <= b
      <4> SUFFICES ASSUME i + w - 1 > b PROVE FALSE
        BY <1>3, <2>1
      <4>1. b + 1 \in i..(i + w - 1) /\ b + 1 \in 1..N
        BY <1>3, <2>1, <3>2
      <4> QED BY <1>3, <3>2, <4>1 DEF AllTaken
    <3>5. PICK s : s = SubSeq(t, i, i + w - 1)
      OBVIOUS
    <3>6. s \in Chars /\ Len(s) = w
      <4>1. i \in 1..N /\ i + w - 1 \in 1..N /\ (i + w - 1) - i + 1 = w
        BY <2>1, <2>21, <3>2
      <4>2. \A k \in 1..w : i + k - 1 \in 1..N
        BY <2>1, <3>2
      <4> QED BY <1>0, <3>5, <4>1, <4>2 DEF Chars
    <3>7. m.prefix + m.suffix < Len(s)
      <4>1. m.prefix \in Nat /\ m.suffix \in Nat /\ run.min \in Nat
        BY DEF IsMask, IsRun
      <4> QED BY <3>2, <3>6, <4>1
    <3>8. PICK k \in 1..w : x[k] = Star
      BY <3>2, <3>5, <3>6, <3>7, AppliedStars
    <3>9. i + k - 1 \in a..b /\ i + k - 1 \in i..Len(t) /\ i + k - 1 < i + w
          /\ i + k - 1 >= i /\ (i + k - 1) - i + 1 = k
      BY <1>0, <1>3, <2>1, <3>2, <3>3, <3>4
    <3> QED BY <2>21, <3>8, <3>9
  <2>5. i + w <= q \/ i + w > q
    BY <1>3, <2>1
  <2> QED BY <2>3, <2>4, <2>5
<1> HIDE DEF T
<1>6. 1 \in T
  <2>1. \A i \in 1..(N + 1) : i \in T
    BY <1>5, Downward
  <2> QED BY <2>1
<1>7. PICK k \in a..b : g[1][k - 1 + 1] = Star
  BY <1>3, <1>6 DEF T
<1>8. k - 1 + 1 = k
  BY <1>3
<1> QED BY <1>1, <1>4, <1>7, <1>8

-----------------------------------------------------------------------------
\* A character that a pattern takes is part of a run that nothing extends.
LEMMA RunAround ==
  ASSUME NEW t \in Chars, NEW run, NEW i \in 1..Len(t), Takes(run, t, i)
  PROVE  \E r \in Runs(t, run) : i \in r[1]..r[2]
<1>0. PICK N \in Nat : N = Len(t)
  BY DEF Chars
<1>1. DOMAIN t = 1..N
  BY <1>0 DEF Chars
<1> DEFINE L == {a \in 1..N : a <= i /\ AllTaken(run, t, a, i)}
           H == {b \in 1..N : i <= b /\ AllTaken(run, t, i, b)}
<1>2. PICK a \in L : \A x \in L : a <= x
  <2>1. i \in L /\ L \subseteq Nat
    BY <1>0 DEF AllTaken
  <2> HIDE DEF L
  <2> QED BY <2>1, NatMin
<1>3. PICK b \in H : \A x \in H : x <= b
  <2>1. i \in H
    BY <1>0 DEF AllTaken
  <2>2. H \subseteq 0..N
    BY <1>0
  <2> HIDE DEF H
  <2> QED BY <2>1, <2>2, NatMax
<1>4. a \in 1..N /\ b \in 1..N /\ a <= i /\ i <= b /\ a <= b
  BY <1>0
<1>5. \A k \in a..b : Takes(run, t, k)
  <2> SUFFICES ASSUME NEW k \in a..b PROVE Takes(run, t, k)
    OBVIOUS
  <2>1. k \in a..i \/ k \in i..b
    BY <1>0, <1>4
  <2> QED BY <2>1 DEF AllTaken
<1>6. a - 1 \in 1..N => ~ Takes(run, t, a - 1)
  <2> SUFFICES ASSUME a - 1 \in 1..N, Takes(run, t, a - 1) PROVE FALSE
    OBVIOUS
  <2>1. \A k \in (a - 1)..i : k = a - 1 \/ k \in a..i
    BY <1>0, <1>4
  <2>2. AllTaken(run, t, a - 1, i)
    BY <2>1 DEF AllTaken
  <2>3. a - 1 \in L
    BY <1>0, <1>4, <2>2
  <2> QED BY <1>2, <1>4, <2>3
<1>7. b + 1 \in 1..N => ~ Takes(run, t, b + 1)
  <2> SUFFICES ASSUME b + 1 \in 1..N, Takes(run, t, b + 1) PROVE FALSE
    OBVIOUS
  <2>1. \A k \in i..(b + 1) : k = b + 1 \/ k \in i..b
    BY <1>0, <1>4
  <2>2. AllTaken(run, t, i, b + 1)
    BY <2>1 DEF AllTaken
  <2>3. b + 1 \in H
    BY <1>0, <1>4, <2>2
  <2> QED BY <1>3, <1>4, <2>3
<1>8. PICK r : r = <<a, b>>
  OBVIOUS
<1>9. r[1] = a /\ r[2] = b /\ r \in (1..N) \X (1..N)
  BY <1>4, <1>8
<1> HIDE DEF L, H
<1>10. r \in Runs(t, run)
  BY <1>1, <1>4, <1>5, <1>6, <1>7, <1>9 DEF Runs, Takes
<1> QED BY <1>4, <1>9, <1>10

\* A rule that matches nowhere in a text changes nothing.
LEMMA NoRunsKept ==
  ASSUME NEW t \in Chars, NEW run, IsRun(run), NEW m, IsMask(m),
         \A i \in 1..Len(t) : Matches(t, run, i) = {}
  PROVE  ReplaceMatches(t, run, m) = t
<1>0. PICK N \in Nat : N = Len(t)
  BY DEF Chars
<1>1. PICK g : /\ ReplaceMatches(t, run, m) = g[1]
               /\ \A i \in 1..(Len(t) + 1) : g[i] = RunStep(t, run, m, g, i)
  BY ReplaceEquation
<1> DEFINE T == {i \in 1..(N + 1) : \A k \in i..N : g[i][k - i + 1] = t[k]}
<1>2. ASSUME NEW i \in 1..(N + 1), \A j \in 1..(N + 1) : i < j => j \in T
      PROVE  i \in T
  <2>1. CASE i = N + 1
    BY <2>1
  <2>2. CASE i # N + 1
    <3>1. i \in 1..Len(t) /\ i \in 1..N
      BY <1>0, <2>2
    <3>2. PICK w \in Nat, x \in Chars : Piece(t, run, m, g, i, w, x)
      <4>1. i \in 1..Len(t)
        BY <3>1
      <4>2. \A j \in 1..(Len(t) + 1) : g[j] = RunStep(t, run, m, g, j)
        BY <1>1
      <4> QED BY <4>1, <4>2, PieceJoined
    <3>21. /\ 1 <= w /\ i + w <= Len(t) + 1
           /\ Matched(t, run, m, i, w, x) \/ Passed(t, run, i, w, x)
           /\ \A k \in i..Len(t) :
                g[i][k - i + 1] = IF k < i + w THEN x[k - i + 1] ELSE g[i + w][k - (i + w) + 1]
      BY <3>2 DEF Piece
    <3>3. ~ Matched(t, run, m, i, w, x)
      BY <3>1 DEF Matched
    <3>4. w = 1 /\ x = <<t[i]>>
      BY <3>21, <3>3 DEF Passed
    <3>5. i + 1 \in T
      <4>1. i + 1 \in 1..(N + 1) /\ i < i + 1
        BY <3>1
      <4> HIDE DEF T
      <4> QED BY <1>2, <4>1
    <3>6. ASSUME NEW k \in i..N PROVE g[i][k - i + 1] = t[k]
      <4>1. CASE k = i
        <5>1. k \in i..Len(t) /\ k < i + w /\ k - i + 1 = 1
          BY <1>0, <3>1, <3>4, <4>1
        <5>2. g[i][k - i + 1] = x[k - i + 1]
          BY <3>21, <5>1
        <5> QED BY <3>4, <4>1, <5>1, <5>2
      <4>2. CASE k # i
        <5>1. k \in i..Len(t) /\ ~ (k < i + w) /\ k \in (i + 1)..N
          BY <1>0, <3>1, <3>4, <4>2
        <5>2. g[i][k - i + 1] = g[i + w][k - (i + w) + 1]
          BY <3>21, <5>1
        <5> QED BY <3>4, <3>5, <5>1, <5>2
      <4> QED BY <4>1, <4>2
    <3> QED BY <3>6
  <2> QED BY <2>1, <2>2
<1> HIDE DEF T
<1>3. 1 \in T
  <2>1. \A i \in 1..(N + 1) : i \in T
    BY <1>2, Downward
  <2> QED BY <2>1
<1>4. \A k \in 1..N : g[1][k - 1 + 1] = t[k]
  BY <1>3 DEF T
<1>5. MaskedFrom(t, g[1])
  BY <1>1, ReplacedShape
<1>6. PICK u : u = g[1]
  OBVIOUS
<1>7. \A k \in 1..N : u[k] = t[k]
  <2>1. \A k \in 1..N : k - 1 + 1 = k
    OBVIOUS
  <2> QED BY <1>4, <1>6, <2>1
<1>8. u = t
  <2>1. u \in Seq(Int) /\ t \in Seq(Int) /\ Len(u) = N /\ Len(t) = N
    BY <1>0, <1>5, <1>6 DEF MaskedFrom, Chars
  <2> QED BY <1>7, <2>1
<1> QED BY <1>1, <1>6, <1>8

LEMMA MasksOfRules ==
  \A rule : IsMask(rule.mask) => IsMask(getMaskConfig(rule))
<1> SUFFICES ASSUME NEW rule, IsMask(rule.mask) PROVE IsMask(getMaskConfig(rule))
  OBVIOUS
<1>1. \A type \in DOMAIN typePresets : IsMask(typePresets[type])
  BY DEF typePresets, IsMask, Border, Replace
<1>2. IsMask(Replace)
  BY DEF IsMask, Replace
<1> QED BY <1>1, <1>2 DEF getMaskConfig

LEMMA MaskedTwice ==
  \A t \in Chars : \A u, v : MaskedFrom(t, u) /\ MaskedFrom(u, v) => MaskedFrom(t, v)
  BY DEF MaskedFrom, Chars

LEMMA SameMasked == \A t \in Chars : MaskedFrom(t, t)
  BY DEF MaskedFrom

LEMMA RuleShape ==
  \A t \in Chars : \A rule : IsMask(rule.mask) => MaskedFrom(t, ApplyRule(t, rule))
  BY MasksOfRules, PatternsAreRuns, ReplacedShape, SameMasked DEF ApplyRule

\* The texts between the rules.
Between(t, rules, f) ==
  /\ f[0] = t /\ \A n \in 1..Len(rules) : f[n] = ApplyRule(f[n - 1], rules[n])
  /\ DesensitizeText(t, rules) = f[Len(rules)]

LEMMA RulesHaveLength ==
  \A rules : IsRules(rules) =>
    /\ Len(rules) \in Nat /\ DOMAIN rules = 1..Len(rules)
    /\ \A i \in 1..Len(rules) : IsMask(rules[i].mask)
<1> SUFFICES ASSUME NEW rules, IsRules(rules)
             PROVE  /\ Len(rules) \in Nat /\ DOMAIN rules = 1..Len(rules)
                    /\ \A i \in 1..Len(rules) : IsMask(rules[i].mask)
  OBVIOUS
<1>1. PICK S : rules \in Seq(S)
  BY DEF IsRules
<1>2. Len(rules) \in Nat /\ DOMAIN rules = 1..Len(rules)
  BY <1>1
<1> QED BY <1>2 DEF IsRules, IsMask

LEMMA TextEquation ==
  ASSUME NEW t, NEW rules, IsRules(rules)
  PROVE  \E f : Between(t, rules, f)
<1>0. PICK L \in Nat : L = Len(rules)
  BY RulesHaveLength
<1> DEFINE Solves(f) == f = [n \in 0..Len(rules) |->
             IF n = 0 THEN t ELSE ApplyRule(f[n - 1], rules[n])]
           Holds(f, k) == /\ f[0] = t
                          /\ \A n \in 1..k : f[n] = ApplyRule(f[n - 1], rules[n])
           T == {k \in Nat : \E f : Holds(f, k)}
<1>1. 0 \in T
  <2>1. Holds([n \in {0} |-> t], 0)
    OBVIOUS
  <2> QED BY <2>1
<1>2. ASSUME NEW k \in Nat, k \in T PROVE k + 1 \in T
  <2>1. PICK f : Holds(f, k)
    BY <1>2
  <2> DEFINE h == [n \in 0..(k + 1) |-> IF n = k + 1 THEN ApplyRule(f[k], rules[k + 1]) ELSE f[n]]
  <2>2. h[0] = t /\ h[k + 1] = ApplyRule(h[k], rules[k + 1])
    BY <2>1
  <2>3. ASSUME NEW n \in 1..(k + 1) PROVE h[n] = ApplyRule(h[n - 1], rules[n])
    <3>1. CASE n = k + 1
      BY <2>2, <3>1
    <3>2. CASE n # k + 1
      <4>1. n \in 1..k /\ n - 1 \in 0..k /\ h[n] = f[n] /\ h[n - 1] = f[n - 1]
        BY <3>2
      <4> QED BY <2>1, <4>1
    <3> QED BY <3>1, <3>2
  <2> HIDE DEF h
  <2> QED BY <2>2, <2>3
<1>3. L \in T
  <2> HIDE DEF T
  <2> QED BY <1>1, <1>2, SetInduction
<1>4. PICK f : Holds(f, L)
  BY <1>3
<1> DEFINE h == [n \in 0..L |-> f[n]]
<1>5. Solves(h)
  <2>1. \A n \in 0..L : h[n] = IF n = 0 THEN t ELSE ApplyRule(h[n - 1], rules[n])
    <3> SUFFICES ASSUME NEW n \in 0..L
                 PROVE  h[n] = IF n = 0 THEN t ELSE ApplyRule(h[n - 1], rules[n])
      OBVIOUS
    <3>1. CASE n = 0
      BY <1>4, <3>1
    <3>2. CASE n # 0
      <4>1. n \in 1..L /\ n - 1 \in 0..L
        BY <3>2
      <4>2. h[n] = f[n] /\ h[n - 1] = f[n - 1]
        BY <4>1
      <4> QED BY <1>4, <3>2, <4>1, <4>2
    <3> QED BY <3>1, <3>2
  <2>2. h = [n \in 0..L |-> h[n]]
    OBVIOUS
  <2> HIDE DEF h
  <2> QED BY <1>0, <2>1, <2>2
<1> DEFINE c == CHOOSE g : Solves(g)
<1>6. DesensitizeText(t, rules) = c[Len(rules)]
  BY DEF DesensitizeText
<1>7. Solves(c)
  <2> HIDE DEF h
  <2> QED BY <1>5
<1> HIDE DEF c
<1>8. Between(t, rules, c)
  <2>1. \A n \in 0..Len(rules) : c[n] = IF n = 0 THEN t ELSE ApplyRule(c[n - 1], rules[n])
    BY <1>7
  <2>2. 0 \in 0..Len(rules) /\ \A n \in 1..Len(rules) : n \in 0..Len(rules) /\ n # 0
    BY <1>0
  <2> QED BY <1>6, <2>1, <2>2 DEF Between
<1> QED BY <1>8

\* What one rule masked, no later one shows again.
LEMMA BetweenShape ==
  ASSUME NEW t \in Chars, NEW rules, IsRules(rules), NEW f, Between(t, rules, f)
  PROVE  \A n \in 0..Len(rules) :
           /\ MaskedFrom(t, f[n])
           /\ MaskedFrom(f[n], DesensitizeText(t, rules))
<1>0. PICK L \in Nat : L = Len(rules)
  BY RulesHaveLength
<1>1. \A n \in 1..L : IsMask(rules[n].mask) /\ f[n] = ApplyRule(f[n - 1], rules[n])
  BY <1>0, RulesHaveLength DEF Between
<1> DEFINE T == {n \in Nat : n <= L => MaskedFrom(t, f[n])}
<1>2. \A n \in Nat : n \in T
  <2>1. 0 \in T
    BY SameMasked DEF Between
  <2>2. ASSUME NEW n \in Nat, n \in T PROVE n + 1 \in T
    <3> SUFFICES ASSUME n + 1 <= L PROVE MaskedFrom(t, f[n + 1])
      OBVIOUS
    <3>1. n + 1 \in 1..L /\ (n + 1) - 1 = n
      BY <1>0
    <3>2. IsMask(rules[n + 1].mask) /\ f[n + 1] = ApplyRule(f[n], rules[n + 1])
      BY <1>1, <3>1
    <3>3. MaskedFrom(t, f[n])
      BY <2>2, <3>1
    <3>4. MaskedFrom(f[n], f[n + 1])
      BY <3>2, <3>3, RuleShape DEF MaskedFrom
    <3> QED BY <3>3, <3>4, MaskedTwice
  <2> HIDE DEF T
  <2> QED BY <2>1, <2>2, SetInduction
<1>3. ASSUME NEW n \in 0..L PROVE MaskedFrom(t, f[n]) /\ MaskedFrom(f[n], f[L])
  <2> DEFINE U == {k \in Nat : n + k <= L => MaskedFrom(f[n], f[n + k])}
  <2>1. 0 \in U
    <3>1. MaskedFrom(t, f[n])
      BY <1>2
    <3>2. n + 0 = n
      OBVIOUS
    <3> QED BY <3>1, <3>2, SameMasked DEF MaskedFrom
  <2>2. ASSUME NEW k \in Nat, k \in U PROVE k + 1 \in U
    <3> SUFFICES ASSUME n + (k + 1) <= L PROVE MaskedFrom(f[n], f[n + (k + 1)])
      OBVIOUS
    <3>1. PICK i : i = n + (k + 1)
      OBVIOUS
    <3>2. i \in 1..L /\ i - 1 = n + k /\ n + k \in Nat /\ n + k <= L
      BY <1>0, <3>1
    <3>3. IsMask(rules[i].mask) /\ f[i] = ApplyRule(f[n + k], rules[i])
      BY <1>1, <3>2
    <3>4. MaskedFrom(t, f[n]) /\ MaskedFrom(t, f[n + k])
      BY <1>2, <3>2
    <3>5. MaskedFrom(f[n], f[n + k])
      BY <2>2, <3>2
    <3>6. MaskedFrom(f[n + k], f[i])
      BY <3>3, <3>4, RuleShape DEF MaskedFrom
    <3> QED BY <3>1, <3>4, <3>5, <3>6, MaskedTwice DEF MaskedFrom
  <2>3. L - n \in U /\ n + (L - n) = L
    <3> HIDE DEF U
    <3>1. \A k \in Nat : k \in U
      BY <2>1, <2>2, SetInduction
    <3>2. L - n \in Nat /\ n + (L - n) = L
      BY <1>0
    <3> QED BY <3>1, <3>2
  <2> QED BY <1>2, <2>3
<1> QED BY <1>0, <1>3 DEF Between

LEMMA TextShape ==
  \A t \in Chars : \A rules : IsRules(rules) => MaskedFrom(t, DesensitizeText(t, rules))
<1> SUFFICES ASSUME NEW t \in Chars, NEW rules, IsRules(rules)
             PROVE  MaskedFrom(t, DesensitizeText(t, rules))
  OBVIOUS
<1>1. PICK f : Between(t, rules, f)
  BY TextEquation
<1>2. 0 \in 0..Len(rules)
  BY RulesHaveLength
<1>3. MaskedFrom(f[0], DesensitizeText(t, rules))
  BY <1>1, <1>2, BetweenShape
<1> QED BY <1>1, <1>3 DEF Between

\* Characters that are told apart.
IsText(t) == t \in Seq(Nat \ {0}) /\ \A i, j \in DOMAIN t : t[i] = t[j] => i = j

LEMMA TextHides ==
  \A t, rules : IsText(t) /\ IsRules(rules) =>
    \A i \in DOMAIN rules : \A r \in Covered(rules[i], t) :
      Hides(rules[i]) =>
        \E k \in r[1]..r[2] :
          t[k] \notin {DesensitizeText(t, rules)[j] : j \in DOMAIN DesensitizeText(t, rules)}
<1> SUFFICES ASSUME NEW t, NEW rules, IsText(t), IsRules(rules),
                    NEW i \in DOMAIN rules, NEW r \in Covered(rules[i], t), Hides(rules[i])
             PROVE  \E k \in r[1]..r[2] :
                      t[k] \notin {DesensitizeText(t, rules)[j] :
                                     j \in DOMAIN DesensitizeText(t, rules)}
  OBVIOUS
<1>0. t \in Chars /\ DOMAIN t = 1..Len(t) /\ Len(t) \in Nat
  BY DEF IsText, Chars
<1>1. i \in 1..Len(rules) /\ Len(rules) \in Nat /\ IsMask(rules[i].mask)
  BY RulesHaveLength
<1>2. PICK f : Between(t, rules, f)
  BY TextEquation
<1>3. i - 1 \in 0..Len(rules) /\ i \in 0..Len(rules)
  BY <1>1
<1>4. MaskedFrom(t, f[i - 1]) /\ MaskedFrom(f[i], DesensitizeText(t, rules))
  BY <1>0, <1>2, <1>3, BetweenShape
<1>5. PICK s, u, d : s = f[i - 1] /\ u = f[i] /\ d = DesensitizeText(t, rules)
  OBVIOUS
<1>6. MaskedFrom(t, s) /\ MaskedFrom(u, d)
  BY <1>4, <1>5
<1>7. MaskedFrom(t, d)
  BY <1>0, <1>5, TextShape
<1>8. PICK run, m : run = contentPattern[rules[i].type] /\ m = getMaskConfig(rules[i])
  OBVIOUS
<1>20. /\ rules[i].type \in DOMAIN contentPattern /\ r \in Runs(t, run)
       /\ \E q \in r[1]..r[2] : Matches(t, run, q) # {}
  BY <1>8 DEF Covered
<1>21. PICK q \in r[1]..r[2] : Matches(t, run, q) # {}
  BY <1>20
<1>9. IsRun(run) /\ IsMask(m) /\ m.strategy \in Strategies /\ m.prefix + m.suffix < run.min
  BY <1>1, <1>8, <1>20, PatternsAreRuns, MasksOfRules DEF Hides
<1>10. u = ReplaceMatches(s, run, m)
  BY <1>1, <1>2, <1>5, <1>8, <1>20 DEF Between, ApplyRule
<1>11. MaskedFrom(s, u)
  BY <1>6, <1>9, <1>10, ReplacedShape DEF MaskedFrom
<1>12. r[1] \in 1..Len(t) /\ r[2] \in 1..Len(t) /\ r[1] <= r[2]
  BY <1>0, <1>20 DEF Runs
<1>13. \A k \in r[1]..r[2] : k \in 1..Len(t)
  BY <1>0, <1>12
<1>14. \E k \in r[1]..r[2] : u[k] = Star
  <2>1. CASE \E k \in r[1]..r[2] : s[k] = Star
    <3>1. PICK k \in r[1]..r[2] : s[k] = Star
      BY <2>1
    <3>2. u[k] \in {s[k], Star}
      BY <1>6, <1>11, <1>13 DEF MaskedFrom
    <3> QED BY <3>1, <3>2
  <2>2. CASE \A k \in r[1]..r[2] : s[k] # Star
    <3>1. s \in Chars /\ Len(s) = Len(t) /\ DOMAIN s = 1..Len(t)
      BY <1>6 DEF MaskedFrom, Chars
    <3>2. \A k \in r[1]..r[2] : s[k] = t[k]
      BY <1>6, <1>13, <2>2 DEF MaskedFrom
    <3>3. \A k \in 1..Len(t) : ~ Takes(run, t, k) => ~ Takes(run, s, k)
      <4> SUFFICES ASSUME NEW k \in 1..Len(t), ~ Takes(run, t, k) PROVE ~ Takes(run, s, k)
        OBVIOUS
      <4>1. s[k] = t[k] \/ s[k] = Star
        BY <1>6 DEF MaskedFrom
      <4> QED BY <1>9, <4>1, StarNotTaken DEF Takes
    <3>4. /\ \A k \in r[1]..r[2] : Takes(run, t, k)
          /\ r[1] - 1 \in 1..Len(t) => ~ Takes(run, t, r[1] - 1)
          /\ r[2] + 1 \in 1..Len(t) => ~ Takes(run, t, r[2] + 1)
          /\ r \in (1..Len(t)) \X (1..Len(t))
      BY <1>0, <1>20 DEF Runs, Takes
    <3>5. \A k \in r[1]..r[2] : Takes(run, s, k)
      BY <3>2, <3>4 DEF Takes
    <3>6. r \in Runs(s, run)
      BY <1>12, <3>1, <3>3, <3>4, <3>5 DEF Runs, Takes
    <3>7. q \in 1..Len(t)
      BY <1>13
    <3>8. PICK n : n \in Matches(t, run, q)
      BY <1>21
    <3>9. /\ n \in Nat /\ q + n - 1 <= Len(t) /\ AllTaken(run, t, q, q + n - 1)
          /\ n \in run.min..AtMost(run.max, Len(s) - q + 1)
          /\ \A j \in 1..n : Class(t[q + j - 1]) \in run.at[j]
      BY <1>0, <1>9, <3>1, <3>7, <3>8, MatchFits DEF Matches
    <3>10. q + n - 1 <= r[2]
      <4> SUFFICES ASSUME q + n - 1 > r[2] PROVE FALSE
        BY <1>0, <1>12, <3>7, <3>9
      <4>1. r[2] + 1 \in q..(q + n - 1) /\ r[2] + 1 \in 1..Len(t)
        BY <1>0, <1>12, <3>7, <3>9
      <4> QED BY <3>4, <3>9, <4>1 DEF AllTaken
    <3>11. ASSUME NEW j \in 1..n PROVE Class(s[q + j - 1]) \in run.at[j]
      <4>1. q + j - 1 \in r[1]..r[2]
        BY <1>12, <3>7, <3>9, <3>10
      <4> QED BY <3>2, <3>9, <4>1
    <3>12. Matches(s, run, q) # {}
      BY <3>9, <3>11 DEF Matches
    <3> QED BY <1>9, <1>10, <3>1, <3>6, <3>12, RunStarred
  <2> QED BY <2>1, <2>2
<1>15. PICK k \in r[1]..r[2] : u[k] = Star
  BY <1>14
<1>16. Len(u) = Len(t)
  BY <1>6, <1>11 DEF MaskedFrom
<1>17. d[k] = Star
  BY <1>6, <1>13, <1>15, <1>16 DEF MaskedFrom
<1>18. DOMAIN d = 1..Len(t)
  BY <1>7 DEF MaskedFrom, Chars
<1>19. ASSUME NEW j \in DOMAIN d, d[j] = t[k] PROVE FALSE
  <2>1. t[k] \in Nat \ {0}
    BY <1>0, <1>13 DEF IsText
  <2>2. j \in 1..Len(t) /\ d[j] \in {t[j], Star}
    BY <1>7, <1>18 DEF MaskedFrom
  <2>3. t[j] = t[k]
    BY <1>19, <2>1, <2>2 DEF Star
  <2>4. j = k
    BY <1>0, <1>13, <2>2, <2>3 DEF IsText
  <2> QED BY <1>17, <1>19, <2>1, <2>4 DEF Star
<1> QED BY <1>5, <1>19

LEMMA TextKept ==
  \A t \in Chars : \A rules :
    IsRules(rules) /\ (\A i \in DOMAIN rules : Covered(rules[i], t) = {})
      => DesensitizeText(t, rules) = t
<1> SUFFICES ASSUME NEW t \in Chars, NEW rules, IsRules(rules),
                    \A i \in DOMAIN rules : Covered(rules[i], t) = {}
             PROVE  DesensitizeText(t, rules) = t
  OBVIOUS
<1>0. PICK L \in Nat : L = Len(rules) /\ DOMAIN rules = 1..L
  BY RulesHaveLength
<1>1. PICK f : Between(t, rules, f)
  BY TextEquation
<1> DEFINE T == {n \in Nat : n <= L => f[n] = t}
<1>2. 0 \in T
  BY <1>1 DEF Between
<1>3. ASSUME NEW n \in Nat, n \in T PROVE n + 1 \in T
  <2> SUFFICES ASSUME n + 1 <= L PROVE f[n + 1] = t
    OBVIOUS
  <2>1. n + 1 \in 1..L /\ (n + 1) - 1 = n /\ f[n] = t
    BY <1>0, <1>3
  <2>2. f[n + 1] = ApplyRule(t, rules[n + 1]) /\ IsMask(rules[n + 1].mask)
    BY <1>0, <1>1, <2>1, RulesHaveLength DEF Between
  <2>3. PICK rule : rule = rules[n + 1]
    OBVIOUS
  <2>4. Covered(rule, t) = {}
    BY <1>0, <2>1, <2>3
  <2>5. CASE rule.type \notin DOMAIN contentPattern
    BY <2>2, <2>3, <2>5 DEF ApplyRule
  <2>6. CASE rule.type \in DOMAIN contentPattern
    <3>1. PICK run, m : run = contentPattern[rule.type] /\ m = getMaskConfig(rule)
      OBVIOUS
    <3>2. IsRun(run) /\ IsMask(m)
      BY <2>2, <2>3, <2>6, <3>1, PatternsAreRuns, MasksOfRules
    <3>3. ASSUME NEW i \in 1..Len(t), Matches(t, run, i) # {} PROVE FALSE
      <4>1. PICK k : k \in Matches(t, run, i)
        BY <3>3
      <4>2. k >= 1 /\ k \in Nat /\ AllTaken(run, t, i, i + k - 1)
        BY <3>2, <4>1, MatchFits
      <4>3. Takes(run, t, i)
        BY <4>2 DEF AllTaken
      <4>4. PICK r \in Runs(t, run) : i \in r[1]..r[2]
        BY <4>3, RunAround
      <4> QED BY <2>4, <2>6, <3>1, <3>3, <4>4 DEF Covered
    <3>4. ReplaceMatches(t, run, m) = t
      BY <3>2, <3>3, NoRunsKept
    <3> QED BY <2>2, <2>3, <2>6, <3>1, <3>4 DEF ApplyRule
  <2> QED BY <2>5, <2>6
<1> HIDE DEF T
<1>4. L \in T
  BY <1>2, <1>3, SetInduction
<1> QED BY <1>0, <1>1, <1>4 DEF T, Between

-----------------------------------------------------------------------------
(* Masking: the goroutines.                                                 *)

PartValues(p) == {c[p] : c \in Configs}

MaskedParts ==
  /\ DOMAIN currentConfig = Parts /\ DOMAIN seen = Parts
  /\ DOMAIN upd = {"pc", "next", "left"}
  /\ \A p \in Parts :
       /\ upd.next[p] \in PartValues(p) /\ seen[p] \subseteq PartValues(p)
       /\ maskPc # "idle" => currentConfig[p] \in seen[p]
  /\ IsFiniteSet(seen.maxLength) /\ IsFiniteSet(seen.content)

\* What is logged, where.
MaskedKinds ==
  /\ maskPc # "idle" => value \in Values
  /\ maskPc = "idle" => todo = {}
  /\ maskPc \in {"field", "json"} => value.kind \in {"plain", "json"}
  /\ maskPc \in {"parse", "walk", "truncate", "compare"} => value.kind = "json"
  /\ maskPc \in {"query", "pairs", "long", "cut", "mask"} => value.kind = "query"
  /\ maskPc \notin {"long", "cut", "mask", "panicked"} => cur = {}
  /\ maskPc \in {"long", "cut", "mask"} => \E l \in cur : cur = {l} /\ l.parent = "query"

\* What is still to be looked at is as it came.
Intact ==
  /\ \A l \in DOMAIN maskText : maskText[l] \in Seq(Int)
  /\ maskPc \in {"field", "query", "parse"} => maskText = value.leaves
  /\ maskPc = "json" => maskText = value.leaves
  /\ maskPc \in {"walk", "pairs", "long", "cut", "mask"} => todo \cup cur \subseteq DOMAIN maskText
  /\ maskPc \in {"pairs", "long", "cut"} => \A l \in todo \cup cur : maskText[l] = value.leaves[l]
  /\ maskPc \in {"long", "cut", "mask"} =>
       \A l \in todo : maskText[l] = value.leaves[l] /\ l \notin cur

Pending ==
  IF maskPc \in {"walk", "pairs", "long", "cut", "mask"} THEN todo \cup cur
  ELSE IF maskPc \in {"truncate", "compare", "content", "done"}
          \/ (maskPc = "json" /\ value.kind = "plain")
       THEN {} ELSE DOMAIN maskText

HiddenBy(l, n, t, rules) ==
  \E i \in NamingRules(l, rules) :
    LET mask == getMaskConfig(rules[i])
    IN \/ mask.strategy \notin Strategies
       \/ Cardinality(Visible(t)) <= KeptPrefix(mask, n) + KeptSuffix(mask, n)

\* What was looked at is hidden by a mask that was in force, or has no rule
\* in one of the configurations.
LookedAt(l, leaf, t, fields) ==
  \/ \E rules \in fields : ~ NamedBy(l, rules)
  \/ \E rules \in fields : HiddenBy(l, Len(leaf), t, rules)

HiddenInv ==
  \A l \in DOMAIN maskText \ Pending : LookedAt(l, value.leaves[l], maskText[l], seen.fields)

RulesApplied(l, leaf, t, fields, content) ==
  \/ \E rules \in fields : NamedBy(l, rules)
  \/ \E rules \in content : t = DesensitizeText(leaf, rules)

ContentInv ==
  value.kind \in {"message", "plain"} =>
    /\ maskPc = "content" => maskText = value.leaves
    /\ maskPc = "done" =>
         \A l \in DOMAIN maskText :
           RulesApplied(l, value.leaves[l], maskText[l], seen.fields, seen.content)

Untouched(l, leaf, s) ==
  /\ \A rules \in s.fields : ~ NamedBy(l, rules)
  /\ \A rules \in s.content : \A i \in DOMAIN rules : Covered(rules[i], leaf) = {}
  /\ \A n \in s.maxLength : n <= 0 \/ n >= Len(leaf)
  /\ \A n, k \in s.maxLength : n = k

KeptInv ==
  \A l \in DOMAIN maskText :
    maskPc # "idle" /\ Untouched(l, value.leaves[l], seen) => maskText[l] = value.leaves[l]

LengthInv ==
  /\ maskPc \in {"long", "cut", "truncate"} => \E n \in seen.maxLength : n > 0
  /\ maskPc = "cut" => \A l \in cur : \E n \in seen.maxLength : n < Len(value.leaves[l])
  /\ maskPc = "panicked" =>
       \/ \E n \in seen.maxLength : n \in {1, 2}
       \/ \E n, k \in seen.maxLength : n # k

MaskInv ==
  /\ MaskTypeOK /\ MaskedParts /\ MaskedKinds /\ Intact /\ HiddenInv
  /\ ContentInv /\ KeptInv /\ LengthInv

LEMMA TwoElements ==
  \A S, x, y : IsFiniteSet(S) /\ x \in S /\ y \in S /\ x # y => Cardinality(S) > 1
<1> SUFFICES ASSUME NEW S, IsFiniteSet(S), NEW x \in S, NEW y \in S, x # y
             PROVE  Cardinality(S) > 1
  OBVIOUS
<1>1. Cardinality({x}) = 1 /\ Cardinality({x} \cup {y}) = 2
  <2>1. IsFiniteSet({x}) /\ Cardinality({x}) = 1 /\ y \notin {x}
    BY FS_Singleton
  <2>2. Cardinality({x} \cup {y}) = Cardinality({x}) + 1
    BY <2>1, FS_AddElement
  <2> QED BY <2>1, <2>2
<1>2. {x} \cup {y} \subseteq S
  OBVIOUS
<1>3. Cardinality({x} \cup {y}) <= Cardinality(S)
  BY <1>2, FS_Subset
<1>4. Cardinality(S) \in Nat
  BY FS_CardinalityType
<1> QED BY <1>1, <1>3, <1>4

LEMMA VisibleFinite ==
  \A t, n : n \in Nat /\ Visible(t) \subseteq 1..n =>
    IsFiniteSet(Visible(t)) /\ Cardinality(Visible(t)) \in Nat /\ Cardinality(Visible(t)) <= n
<1> SUFFICES ASSUME NEW t, NEW n \in Nat, Visible(t) \subseteq 1..n
             PROVE  /\ IsFiniteSet(Visible(t)) /\ Cardinality(Visible(t)) \in Nat
                    /\ Cardinality(Visible(t)) <= n
  OBVIOUS
<1>1. IsFiniteSet(1..n) /\ Cardinality(1..n) = n
  BY FS_Interval
<1>2. IsFiniteSet(Visible(t)) /\ Cardinality(Visible(t)) <= Cardinality(1..n)
  BY <1>1, FS_Subset
<1>3. Cardinality(Visible(t)) \in Nat
  BY <1>2, FS_CardinalityType
<1> QED BY <1>1, <1>2, <1>3

LEMMA VisibleShrinks ==
  \A t \in Chars : \A u : MaskedFrom(t, u) => Visible(u) \subseteq Visible(t)
<1> SUFFICES ASSUME NEW t \in Chars, NEW u, MaskedFrom(t, u) PROVE Visible(u) \subseteq Visible(t)
  OBVIOUS
<1>1. DOMAIN u = 1..Len(t) /\ DOMAIN t = 1..Len(t)
  BY DEF MaskedFrom, Chars
<1>2. \A i \in 1..Len(t) : u[i] > 0 => u[i] = t[i]
  BY DEF MaskedFrom, Star
<1> QED BY <1>1, <1>2 DEF Visible

LEMMA JoinedShape ==
  ASSUME NEW s \in Chars, NEW d \in Chars
  PROVE  /\ s \o d \in Chars /\ DOMAIN (s \o d) = 1..(Len(s) + Len(d))
         /\ \A i \in 1..(Len(s) + Len(d)) :
              (s \o d)[i] = IF i <= Len(s) THEN s[i] ELSE d[i - Len(s)]
BY DEF Chars

\* A text that was cut.
LEMMA CutShape ==
  \A t \in Chars, k \in Int : k <= Len(t) =>
    LET u == SubSeq(t, 1, k) \o <<Dot, Dot, Dot>>
    IN u \in Chars /\ Visible(u) \subseteq Visible(t)
<1> SUFFICES ASSUME NEW t \in Chars, NEW k \in Int, k <= Len(t)
             PROVE  LET u == SubSeq(t, 1, k) \o <<Dot, Dot, Dot>>
                    IN u \in Chars /\ Visible(u) \subseteq Visible(t)
  OBVIOUS
<1>1. PICK dots : dots = <<Dot, Dot, Dot>>
  OBVIOUS
<1>2. dots \in Seq(Int) /\ Len(dots) = 3 /\ \A i \in 1..3 : dots[i] = Dot
  BY <1>1 DEF Dot
<1>3. PICK s : s = SubSeq(t, 1, k)
  OBVIOUS
<1>4. /\ s \in Seq(Int) /\ Len(s) \in Nat /\ Len(s) <= Len(t)
      /\ \A i \in 1..Len(s) : s[i] = t[i]
  <2>1. CASE k < 1
    <3>1. s = <<>>
      BY <1>3, <2>1 DEF Chars
    <3> QED BY <3>1 DEF Chars
  <2>2. CASE ~ (k < 1)
    BY <1>3, <2>2 DEF Chars
  <2> QED BY <2>1, <2>2
<1>5. PICK u : u = s \o dots
  OBVIOUS
<1>6. /\ u \in Seq(Int) /\ DOMAIN u = 1..(Len(s) + 3)
      /\ \A i \in 1..(Len(s) + 3) : u[i] = IF i <= Len(s) THEN s[i] ELSE dots[i - Len(s)]
  <2>1. s \in Chars /\ dots \in Chars
    BY <1>2, <1>4 DEF Chars
  <2>2. /\ u \in Chars /\ DOMAIN u = 1..(Len(s) + Len(dots))
        /\ \A i \in 1..(Len(s) + Len(dots)) :
             u[i] = IF i <= Len(s) THEN s[i] ELSE dots[i - Len(s)]
    BY <1>5, <2>1, JoinedShape
  <2>3. Len(dots) = 3
    BY <1>2
  <2>4. u \in Seq(Int)
    BY <2>2 DEF Chars
  <2> QED BY <2>2, <2>3, <2>4
<1>7. \A i \in 1..(Len(s) + 3) : u[i] > 0 => i \in 1..Len(s) /\ u[i] = t[i]
  <2> SUFFICES ASSUME NEW i \in 1..(Len(s) + 3), u[i] > 0 PROVE i \in 1..Len(s) /\ u[i] = t[i]
    OBVIOUS
  <2>1. CASE i <= Len(s)
    BY <1>4, <1>6, <2>1
  <2>2. CASE ~ (i <= Len(s))
    <3>1. i - Len(s) \in 1..3
      BY <1>4, <2>2
    <3>2. u[i] = Dot
      BY <1>2, <1>6, <2>2, <3>1
    <3> QED BY <3>2 DEF Dot
  <2> QED BY <2>1, <2>2
<1>8. DOMAIN t = 1..Len(t) /\ Len(t) \in Nat
  BY DEF Chars
<1>9. Visible(u) \subseteq Visible(t)
  BY <1>4, <1>6, <1>7, <1>8 DEF Visible
<1> QED BY <1>1, <1>3, <1>5, <1>6, <1>9 DEF Chars

-----------------------------------------------------------------------------
LEMMA RuleFound ==
  \A l, rules : IsRules(rules) /\ l.parent \in {"field", "object", "query"} =>
    /\ NamedBy(l, rules) <=> RuleFor(l.key, rules) # {}
    /\ NamedBy(l, rules) =>
         \E i \in NamingRules(l, rules) : RuleFor(l.key, rules) = {getMaskConfig(rules[i])}
<1> SUFFICES ASSUME NEW l, NEW rules, IsRules(rules), l.parent \in {"field", "object", "query"}
             PROVE  /\ NamedBy(l, rules) <=> RuleFor(l.key, rules) # {}
                    /\ NamedBy(l, rules) =>
                         \E i \in NamingRules(l, rules) :
                           RuleFor(l.key, rules) = {getMaskConfig(rules[i])}
  OBVIOUS
<1> DEFINE naming == {i \in DOMAIN rules : Lower[l.key] \in rules[i].names}
<1>1. naming = NamingRules(l, rules)
  BY DEF NamingRules
<1>2. RuleFor(l.key, rules) =
        IF naming = {} THEN {}
        ELSE {getMaskConfig(rules[CHOOSE i \in naming : \A j \in naming : i <= j])}
  BY DEF RuleFor
<1>3. naming \subseteq Nat
  BY RulesHaveLength
<1> HIDE DEF naming
<1>4. ASSUME naming # {}
      PROVE  \E i \in naming : RuleFor(l.key, rules) = {getMaskConfig(rules[i])}
  <2>1. PICK i : i = CHOOSE k \in naming : \A j \in naming : k <= j
    OBVIOUS
  <2>2. i \in naming
    BY <1>3, <1>4, <2>1, NatMin
  <2> QED BY <1>2, <1>4, <2>1, <2>2
<1> QED BY <1>1, <1>2, <1>4 DEF NamedBy

LEMMA FieldShape ==
  \A name : \A t \in Chars : \A rules : IsRules(rules) => MaskedFrom(t, MaskByField(name, t, rules))
<1> SUFFICES ASSUME NEW name, NEW t \in Chars, NEW rules, IsRules(rules)
             PROVE  MaskedFrom(t, MaskByField(name, t, rules))
  OBVIOUS
<1>1. CASE RuleFor(name, rules) = {}
  BY <1>1, SameMasked DEF MaskByField
<1>2. CASE RuleFor(name, rules) # {}
  <2> DEFINE naming == {i \in DOMAIN rules : Lower[name] \in rules[i].names}
  <2>1. naming # {} /\ RuleFor(name, rules)
          = {getMaskConfig(rules[CHOOSE i \in naming : \A j \in naming : i <= j])}
    BY <1>2 DEF RuleFor
  <2>2. naming \subseteq Nat /\ naming \subseteq 1..Len(rules)
    BY RulesHaveLength
  <2> HIDE DEF naming
  <2>3. PICK i : i = CHOOSE k \in naming : \A j \in naming : k <= j
    OBVIOUS
  <2>4. i \in 1..Len(rules)
    BY <2>1, <2>2, <2>3, NatMin
  <2>5. IsMask(getMaskConfig(rules[i]))
    BY <2>4, RulesHaveLength, MasksOfRules
  <2>6. MaskByField(name, t, rules) = applyMask(t, getMaskConfig(rules[i]))
    BY <1>2, <2>1, <2>3 DEF MaskByField
  <2> QED BY <2>5, <2>6, AppliedShape
<1> QED BY <1>1, <1>2

\* A value is hidden by the rule that is applied to it, cut or not.
LEMMA FieldHides ==
  \A l : \A n \in Nat, t \in Chars : \A rules :
    /\ IsRules(rules) /\ l.parent \in {"field", "object", "query"} /\ NamedBy(l, rules)
    /\ Visible(t) \subseteq 1..n
    => HiddenBy(l, n, MaskByField(l.key, t, rules), rules)
<1> SUFFICES ASSUME NEW l, NEW n \in Nat, NEW t \in Chars, NEW rules, IsRules(rules),
                    l.parent \in {"field", "object", "query"}, NamedBy(l, rules),
                    Visible(t) \subseteq 1..n
             PROVE  HiddenBy(l, n, MaskByField(l.key, t, rules), rules)
  OBVIOUS
<1>1. PICK i \in NamingRules(l, rules) : RuleFor(l.key, rules) = {getMaskConfig(rules[i])}
  BY RuleFound
<1>2. PICK mask : mask = getMaskConfig(rules[i])
  OBVIOUS
<1>3. IsMask(mask)
  BY <1>2, RulesHaveLength, MasksOfRules DEF NamingRules
<1>4. PICK u : u = applyMask(t, mask)
  OBVIOUS
<1>5. MaskByField(l.key, t, rules) = u
  BY <1>1, <1>2, <1>4 DEF MaskByField
<1>6. ASSUME mask.strategy \in Strategies
      PROVE  Cardinality(Visible(u)) <= KeptPrefix(mask, n) + KeptSuffix(mask, n)
  <2>1. Cardinality(Visible(u)) <= KeptPrefix(mask, Len(t)) + KeptSuffix(mask, Len(t))
    BY <1>3, <1>4, <1>6, AppliedHides
  <2>2. MaskedFrom(t, u)
    BY <1>3, <1>4, AppliedShape
  <2>3. Visible(u) \subseteq 1..n
    BY <2>2, VisibleShrinks
  <2>4. PICK c : c = Cardinality(Visible(u))
    OBVIOUS
  <2>5. c \in Nat /\ c <= n
    BY <2>3, <2>4, VisibleFinite
  <2>6. PICK k \in Nat : k = Len(t)
    BY DEF Chars
  <2>7. c <= KeptPrefix(mask, k) + KeptSuffix(mask, k)
    BY <2>1, <2>4, <2>6
  <2>8. c <= KeptPrefix(mask, n) + KeptSuffix(mask, n)
    BY <1>3, <2>5, <2>7, KeptGrows
  <2> QED BY <2>4, <2>8
<1> QED BY <1>1, <1>2, <1>5, <1>6 DEF HiddenBy

LEMMA HiddenStays ==
  \A l : \A n \in Nat : \A t, u, rules :
    /\ HiddenBy(l, n, t, rules) /\ IsRules(rules)
    /\ Visible(t) \subseteq 1..n /\ Visible(u) \subseteq Visible(t)
    => HiddenBy(l, n, u, rules)
<1> SUFFICES ASSUME NEW l, NEW n \in Nat, NEW t, NEW u, NEW rules, HiddenBy(l, n, t, rules),
                    IsRules(rules), Visible(t) \subseteq 1..n, Visible(u) \subseteq Visible(t)
             PROVE  HiddenBy(l, n, u, rules)
  OBVIOUS
<1>1. PICK i \in NamingRules(l, rules) :
        LET mask == getMaskConfig(rules[i])
        IN \/ mask.strategy \notin Strategies
           \/ Cardinality(Visible(t)) <= KeptPrefix(mask, n) + KeptSuffix(mask, n)
  BY DEF HiddenBy
<1>2. PICK mask : mask = getMaskConfig(rules[i])
  OBVIOUS
<1>3. IsMask(mask)
  BY <1>2, RulesHaveLength, MasksOfRules DEF NamingRules
<1>4. PICK V, W : V = Visible(t) /\ W = Visible(u)
  OBVIOUS
<1>5. IsFiniteSet(V) /\ Cardinality(V) \in Nat /\ W \in SUBSET V
  BY <1>4, VisibleFinite
<1>6. IsFiniteSet(W) /\ Cardinality(W) <= Cardinality(V)
  BY <1>5, FS_Subset
<1>7. Cardinality(W) \in Nat
  BY <1>6, FS_CardinalityType
<1>8. PICK k : k = KeptPrefix(mask, n) + KeptSuffix(mask, n)
  OBVIOUS
<1>9. k \in Nat
  <2>1. KeptPrefix(mask, n) \in Nat /\ KeptSuffix(mask, n) \in Nat
    BY <1>3, KeptBounds
  <2> QED BY <1>8, <2>1
<1>10. mask.strategy \notin Strategies \/ Cardinality(V) <= k
  BY <1>1, <1>2, <1>4, <1>8
<1>11. mask.strategy \notin Strategies \/ Cardinality(W) <= k
  BY <1>5, <1>6, <1>7, <1>9, <1>10
<1> QED BY <1>2, <1>4, <1>8, <1>11 DEF HiddenBy

-----------------------------------------------------------------------------
LEMMA LeafFacts ==
  \A v \in Values \cup {NothingLogged} : \A l \in DOMAIN v.leaves :
    /\ IsText(v.leaves[l]) /\ v.leaves[l] \in Chars /\ Len(v.leaves[l]) \in Nat
    /\ Visible(v.leaves[l]) \subseteq 1..Len(v.leaves[l])
<1> SUFFICES ASSUME NEW v \in Values \cup {NothingLogged}, NEW l \in DOMAIN v.leaves
             PROVE  /\ IsText(v.leaves[l]) /\ v.leaves[l] \in Chars /\ Len(v.leaves[l]) \in Nat
                    /\ Visible(v.leaves[l]) \subseteq 1..Len(v.leaves[l])
  OBVIOUS
<1>1. v # NothingLogged
  BY DEF NothingLogged
<1>2. IsValue(v)
  BY <1>1, MaskingAssumption, Zenon
<1>3. PICK t : t = v.leaves[l]
  OBVIOUS
<1>4. IsText(t)
  BY <1>2, <1>3 DEF IsValue, IsText
<1>5. t \in Chars /\ Len(t) \in Nat /\ DOMAIN t = 1..Len(t)
  BY <1>4 DEF IsText, Chars
<1> QED BY <1>3, <1>4, <1>5 DEF Visible

\* What is logged has leaves that fit.
LEMMA KindFacts ==
  \A v \in Values :
    /\ v.kind \in {"message", "query", "plain", "json"}
    /\ \A l \in DOMAIN v.leaves : l.parent \in Parents[v.kind]
    /\ v.kind = "plain" => \A l, k \in DOMAIN v.leaves : l = k
<1> SUFFICES ASSUME NEW v \in Values
             PROVE  /\ v.kind \in {"message", "query", "plain", "json"}
                    /\ \A l \in DOMAIN v.leaves : l.parent \in Parents[v.kind]
                    /\ v.kind = "plain" => \A l, k \in DOMAIN v.leaves : l = k
  OBVIOUS
<1>1. IsValue(v)
  BY MaskingAssumption, Zenon
<1>2. DOMAIN Parents = {"message", "query", "plain", "json"}
  BY DEF Parents
<1> QED BY <1>1, <1>2 DEF IsValue

LEMMA PartFacts ==
  /\ \A rules \in PartValues("fields") \cup PartValues("content") : IsRules(rules)
  /\ \A n \in PartValues("maxLength") : n \in Int
  /\ \A c \in Configs : DOMAIN c = Parts /\ \A p \in Parts : c[p] \in PartValues(p)
<1>1. \A c \in Configs : DOMAIN c = Parts /\ c.maxLength \in Int
                         /\ IsRules(c.fields) /\ IsRules(c.content)
  BY MaskingAssumption, Zenon
<1> QED BY <1>1 DEF PartValues

LogPcs == {"idle", "field", "json", "parse", "walk", "truncate", "compare", "content",
           "query", "pairs", "long", "cut", "mask", "done", "panicked"}

TextsOK ==
  \A l \in DOMAIN maskText :
    /\ l \in DOMAIN value.leaves /\ maskText[l] \in Chars
    /\ Visible(maskText[l]) \subseteq 1..Len(value.leaves[l])

LogOK ==
  /\ maskPc \in LogPcs /\ value \in Values \cup {NothingLogged}
  /\ todo \subseteq DOMAIN value.leaves /\ cur \subseteq DOMAIN value.leaves

UpdatesOK ==
  /\ \A p \in Parts : currentConfig[p] \in PartValues(p)
  /\ longStrRegexMux \in {"free", "held"} /\ tooLong \in BOOLEAN
  /\ upd.pc \in {"idle", "copy", "compile"} /\ upd.left \subseteq Parts
  /\ updates \in 0..MaxUpdates

LEMMA TypeParts ==
  MaskTypeOK /\ (\A l \in DOMAIN maskText : maskText[l] \in Chars)
    <=> LogOK /\ UpdatesOK /\ TextsOK
BY DEF MaskTypeOK, LogOK, UpdatesOK, TextsOK, PartValues, LogPcs

\* The rest of the invariant, of what the goroutine that logs has done.
LogInv == MaskedKinds /\ Intact /\ HiddenInv /\ ContentInv /\ KeptInv /\ LengthInv

LEMMA MaskParts ==
  MaskInv <=> LogOK /\ UpdatesOK /\ TextsOK /\ MaskedParts /\ LogInv
<1>1. Intact => \A l \in DOMAIN maskText : maskText[l] \in Chars
  BY DEF Intact, Chars
<1> QED BY <1>1, TypeParts DEF MaskInv, LogInv

LEMMA MaskPartsNext ==
  LogOK' /\ UpdatesOK' /\ TextsOK' /\ MaskedParts' /\ LogInv' => MaskInv'
BY DEF MaskTypeOK, LogOK, UpdatesOK, TextsOK, PartValues, LogPcs, MaskInv, LogInv

\* A step of the goroutine leaves to be seen what it finds, or less.
Shrinks ==
  \A l \in DOMAIN maskText' :
    /\ l \in DOMAIN maskText /\ maskText'[l] \in Chars
    /\ Visible(maskText'[l]) \subseteq Visible(maskText[l])

LEMMA LogFrame ==
  ASSUME LogOK, UpdatesOK, TextsOK, MaskedParts, maskPc # "idle",
         UNCHANGED <<currentConfig, updVars, seen, value>>,
         Shrinks, maskPc' \in LogPcs,
         todo' \subseteq DOMAIN value.leaves, cur' \subseteq DOMAIN value.leaves
  PROVE  LogOK' /\ UpdatesOK' /\ TextsOK' /\ MaskedParts'
<1>1. LogOK'
  BY DEF LogOK
<1>2. UpdatesOK'
  BY DEF UpdatesOK, updVars, PartValues
<1>3. TextsOK'
  BY DEF TextsOK, Shrinks
<1>4. MaskedParts'
  BY DEF MaskedParts, updVars, PartValues
<1> QED BY <1>1, <1>2, <1>3, <1>4

LEMMA SameShrinks == TextsOK /\ UNCHANGED maskText => Shrinks
  BY DEF TextsOK, Shrinks

LEMMA RulesInForce ==
  ASSUME UpdatesOK
  PROVE  /\ IsRules(currentConfig.fields) /\ IsRules(currentConfig.content)
         /\ currentConfig.maxLength \in Int
<1>1. \A p \in Parts : currentConfig[p] \in PartValues(p)
  BY DEF UpdatesOK
<1>2. /\ currentConfig["fields"] \in PartValues("fields")
      /\ currentConfig["content"] \in PartValues("content")
      /\ currentConfig["maxLength"] \in PartValues("maxLength")
  BY <1>1 DEF Parts
<1> QED BY <1>2, PartFacts

LEMMA InForce ==
  MaskedParts /\ maskPc # "idle" =>
    /\ currentConfig.fields \in seen.fields /\ currentConfig.content \in seen.content
    /\ currentConfig.maxLength \in seen.maxLength
BY DEF MaskedParts, Parts

LEMMA NoRulesName == \A l : ~ NamedBy(l, <<>>)
  BY DEF NamedBy, NamingRules

\* The steps that only find out where to go on.
LogMoves ==
  LooksLikeJSON \/ ParseJSON \/ Walked \/ Compare \/ StartQuery \/ LongPair \/ PairsDone

LEMMA MovesKinds ==
  ASSUME MaskedKinds, LogMoves
  PROVE  MaskedKinds' /\ maskPc' \in LogPcs
<1>1. CASE LooksLikeJSON
  BY <1>1 DEF LooksLikeJSON, Goto, Logging, MaskedKinds, LogPcs
<1>2. CASE ParseJSON
  BY <1>2 DEF ParseJSON, Goto, Logging, MaskedKinds, LogPcs
<1>3. CASE Walked
  BY <1>3 DEF Walked, Goto, Logging, MaskedKinds, LogPcs
<1>4. CASE Compare
  BY <1>4 DEF Compare, Goto, Logging, MaskedKinds, LogPcs
<1>5. CASE StartQuery
  BY <1>5 DEF StartQuery, Goto, Logging, MaskedKinds, LogPcs
<1>6. CASE LongPair
  BY <1>6 DEF LongPair, Goto, Logging, MaskedKinds, LogPcs
<1>7. CASE PairsDone
  BY <1>7 DEF PairsDone, Goto, Logging, MaskedKinds, LogPcs
<1> QED BY <1>1, <1>2, <1>3, <1>4, <1>5, <1>6, <1>7 DEF LogMoves

LEMMA MovesStill ==
  ASSUME LogOK, TextsOK, LogMoves
  PROVE  /\ UNCHANGED <<currentConfig, updVars, seen, value, maskText, cur>>
         /\ maskPc # "idle" /\ todo' \subseteq DOMAIN value.leaves
<1>1. DOMAIN maskText \subseteq DOMAIN value.leaves /\ todo \subseteq DOMAIN value.leaves
  BY DEF TextsOK, LogOK
<1> QED BY <1>1 DEF LogMoves, LooksLikeJSON, ParseJSON, Walked, Compare, StartQuery, LongPair,
              PairsDone, Goto, Logging

LEMMA MovesIntact ==
  ASSUME MaskedKinds, Intact, LogMoves
  PROVE  Intact'
<1>1. CASE LooksLikeJSON
  BY <1>1 DEF LooksLikeJSON, Goto, Logging, Intact
<1>2. CASE ParseJSON
  BY <1>2 DEF ParseJSON, Goto, Logging, Intact, MaskedKinds
<1>3. CASE Walked
  BY <1>3 DEF Walked, Goto, Logging, Intact
<1>4. CASE Compare
  BY <1>4 DEF Compare, Goto, Logging, Intact
<1>5. CASE StartQuery
  BY <1>5 DEF StartQuery, Goto, Logging, Intact, MaskedKinds
<1>6. CASE LongPair
  BY <1>6 DEF LongPair, Goto, Logging, Intact, MaskedKinds
<1>7. CASE PairsDone
  BY <1>7 DEF PairsDone, Goto, Logging, Intact
<1> QED BY <1>1, <1>2, <1>3, <1>4, <1>5, <1>6, <1>7 DEF LogMoves

\* They pass something as looked at only if the rules in force are none.
LEMMA MovesPending ==
  ASSUME MaskedKinds, LogMoves
  PROVE  \/ DOMAIN maskText' \ Pending' \subseteq DOMAIN maskText \ Pending
         \/ currentConfig.fields = <<>>
<1> USE DEF Pending, MaskedKinds, Goto, Logging
<1>1. CASE LooksLikeJSON
  BY <1>1 DEF LooksLikeJSON
<1>2. CASE ParseJSON
  BY <1>2 DEF ParseJSON
<1>3. CASE Walked
  BY <1>3 DEF Walked
<1>4. CASE Compare
  BY <1>4 DEF Compare
<1>5. CASE StartQuery
  BY <1>5 DEF StartQuery
<1>6. CASE LongPair
  BY <1>6 DEF LongPair
<1>7. CASE PairsDone
  BY <1>7 DEF PairsDone
<1> QED BY <1>1, <1>2, <1>3, <1>4, <1>5, <1>6, <1>7 DEF LogMoves

LEMMA MovesHidden ==
  ASSUME LogOK, TextsOK, MaskedParts, MaskedKinds, HiddenInv, LogMoves
  PROVE  HiddenInv'
<1>1. UNCHANGED <<seen, value, maskText>> /\ maskPc # "idle"
  BY MovesStill
<1>2. ASSUME NEW l \in DOMAIN maskText, l \notin Pending'
      PROVE  LookedAt(l, value.leaves[l], maskText[l], seen.fields)
  <2>1. CASE l \notin Pending
    BY <1>2, <2>1 DEF HiddenInv
  <2>2. CASE currentConfig.fields = <<>>
    <3>1. <<>> \in seen.fields
      BY <1>1, <2>2, InForce
    <3> QED BY <3>1, NoRulesName DEF LookedAt
  <2> QED BY <1>1, <1>2, <2>1, <2>2, MovesPending
<1> QED BY <1>1, <1>2 DEF HiddenInv

LEMMA MovesContent ==
  ASSUME MaskedKinds, Intact, ContentInv, LogMoves
  PROVE  ContentInv'
<1>1. CASE LooksLikeJSON
  BY <1>1 DEF LooksLikeJSON, Goto, Logging, ContentInv, Intact
<1>2. CASE ParseJSON
  BY <1>2 DEF ParseJSON, Goto, Logging, ContentInv, MaskedKinds
<1>3. CASE Walked
  BY <1>3 DEF Walked, Goto, Logging, ContentInv, MaskedKinds
<1>4. CASE Compare
  BY <1>4 DEF Compare, Goto, Logging, ContentInv, MaskedKinds
<1>5. CASE StartQuery
  BY <1>5 DEF StartQuery, Goto, Logging, ContentInv, MaskedKinds
<1>6. CASE LongPair
  BY <1>6 DEF LongPair, Goto, Logging, ContentInv, MaskedKinds
<1>7. CASE PairsDone
  BY <1>7 DEF PairsDone, Goto, Logging, ContentInv, MaskedKinds
<1> QED BY <1>1, <1>2, <1>3, <1>4, <1>5, <1>6, <1>7 DEF LogMoves

LEMMA MovesKept ==
  ASSUME LogOK, TextsOK, KeptInv, LogMoves
  PROVE  KeptInv'
<1>1. UNCHANGED <<seen, value, maskText>> /\ maskPc # "idle"
  BY MovesStill
<1> QED BY <1>1 DEF KeptInv

LEMMA MovesLength ==
  ASSUME LogOK, TextsOK, MaskedParts, MaskedKinds, Intact, LengthInv, LogMoves
  PROVE  LengthInv'
<1>0. UNCHANGED <<seen, value, maskText, cur>> /\ maskPc # "idle"
  BY MovesStill
<1>1. currentConfig.maxLength \in seen.maxLength
  BY <1>0, InForce
<1>2. CASE LooksLikeJSON \/ ParseJSON \/ Compare \/ StartQuery \/ PairsDone
  BY <1>2 DEF LooksLikeJSON, ParseJSON, Compare, StartQuery, PairsDone, Goto, LengthInv
<1>3. CASE Walked
  BY <1>0, <1>1, <1>3 DEF Walked, Goto, LengthInv
<1>4. CASE LongPair
  <2>1. maskPc = "long" /\ maskPc' \in {"cut", "mask"}
    BY <1>4 DEF LongPair, Goto
  <2>2. PICK l \in cur : cur = {l} /\ maskText[l] = value.leaves[l]
    BY <2>1 DEF MaskedKinds, Intact
  <2>3. maskPc' = "cut" => currentConfig.maxLength < Len(value.leaves[l])
    <3>1. maskPc' = "cut" => Len(maskText[l]) > currentConfig.maxLength
      BY <1>4, <2>2 DEF LongPair, Goto
    <3> QED BY <2>2, <3>1
  <2> QED BY <1>0, <1>1, <2>1, <2>2, <2>3 DEF LengthInv
<1> QED BY <1>2, <1>3, <1>4 DEF LogMoves

LEMMA MovesKeep ==
  ASSUME MaskInv, LogMoves
  PROVE  MaskInv'
<1>1. LogOK /\ UpdatesOK /\ TextsOK /\ MaskedParts /\ LogInv
  BY MaskParts
<1>2. /\ UNCHANGED <<currentConfig, updVars, seen, value, maskText, cur>>
      /\ maskPc # "idle" /\ todo' \subseteq DOMAIN value.leaves
  BY <1>1, MovesStill
<1>3. MaskedKinds' /\ maskPc' \in LogPcs
  BY <1>1, MovesKinds DEF LogInv
<1>4. Shrinks
  BY <1>1, <1>2, SameShrinks
<1>5. cur' \subseteq DOMAIN value.leaves
  BY <1>1, <1>2 DEF LogOK
<1>6. LogOK' /\ UpdatesOK' /\ TextsOK' /\ MaskedParts'
  BY <1>1, <1>2, <1>3, <1>4, <1>5, LogFrame
<1>7. Intact' /\ HiddenInv' /\ ContentInv' /\ KeptInv' /\ LengthInv'
  BY <1>1, MovesIntact, MovesHidden, MovesContent, MovesKept, MovesLength DEF LogInv
<1>8. LogInv'
  BY <1>3, <1>7 DEF LogInv
<1> QED BY <1>6, <1>8, MaskPartsNext

LEMMA LogStepKeeps ==
  ASSUME MaskInv, maskPc # "idle", UNCHANGED <<currentConfig, updVars, seen, value>>,
         Shrinks, maskPc' \in LogPcs,
         todo' \subseteq DOMAIN value.leaves, cur' \subseteq DOMAIN value.leaves,
         MaskedKinds', Intact', HiddenInv', ContentInv', KeptInv', LengthInv'
  PROVE  MaskInv'
<1>1. LogOK /\ UpdatesOK /\ TextsOK /\ MaskedParts
  BY MaskParts
<1>2. LogOK' /\ UpdatesOK' /\ TextsOK' /\ MaskedParts'
  BY <1>1, LogFrame
<1>3. LogInv'
  BY DEF LogInv
<1> QED BY <1>2, <1>3, MaskPartsNext

\* What the field rules in force make of a leaf.
LEMMA FieldApplied ==
  ASSUME LogOK, UpdatesOK, TextsOK, MaskedParts, maskPc # "idle"
  PROVE  \A l \in DOMAIN maskText : l.parent \in {"field", "object", "query"} =>
           LET u == MaskByField(l.key, maskText[l], currentConfig.fields)
           IN /\ u \in Chars /\ Visible(u) \subseteq Visible(maskText[l])
              /\ LookedAt(l, value.leaves[l], u, seen.fields)
              /\ ~ NamedBy(l, currentConfig.fields) => u = maskText[l]
<1> SUFFICES ASSUME NEW l \in DOMAIN maskText, l.parent \in {"field", "object", "query"}
             PROVE  LET u == MaskByField(l.key, maskText[l], currentConfig.fields)
                    IN /\ u \in Chars /\ Visible(u) \subseteq Visible(maskText[l])
                       /\ LookedAt(l, value.leaves[l], u, seen.fields)
                       /\ ~ NamedBy(l, currentConfig.fields) => u = maskText[l]
  OBVIOUS
<1>1. PICK rules : rules = currentConfig.fields
  OBVIOUS
<1>2. IsRules(rules) /\ rules \in seen.fields
  BY <1>1, RulesInForce, InForce
<1>3. PICK t, leaf : t = maskText[l] /\ leaf = value.leaves[l]
  OBVIOUS
<1>4. t \in Chars /\ l \in DOMAIN value.leaves /\ Visible(t) \subseteq 1..Len(leaf)
  BY <1>3 DEF TextsOK
<1>5. Len(leaf) \in Nat
  BY <1>3, <1>4, LeafFacts DEF LogOK
<1>6. PICK u : u = MaskByField(l.key, t, rules)
  OBVIOUS
<1>7. MaskedFrom(t, u)
  BY <1>2, <1>4, <1>6, FieldShape
<1>8. u \in Chars /\ Visible(u) \subseteq Visible(t)
  BY <1>4, <1>7, VisibleShrinks DEF MaskedFrom
<1>9. ~ NamedBy(l, rules) => u = t
  BY <1>2, <1>6, RuleFound DEF MaskByField
<1>10. NamedBy(l, rules) => HiddenBy(l, Len(leaf), u, rules)
  BY <1>2, <1>4, <1>5, <1>6, FieldHides
<1>11. LookedAt(l, leaf, u, seen.fields)
  BY <1>2, <1>10 DEF LookedAt
<1> QED BY <1>1, <1>3, <1>6, <1>8, <1>9, <1>11

LEMMA LookedStays ==
  ASSUME MaskedParts
  PROVE  \A l, leaf, t, u :
           /\ LookedAt(l, leaf, t, seen.fields) /\ Len(leaf) \in Nat
           /\ Visible(t) \subseteq 1..Len(leaf) /\ Visible(u) \subseteq Visible(t)
           => LookedAt(l, leaf, u, seen.fields)
<1>1. \A rules \in seen.fields : IsRules(rules)
  BY PartFacts DEF MaskedParts, Parts
<1> QED BY <1>1, HiddenStays DEF LookedAt

LEMMA FindFieldKeeps ==
  ASSUME MaskInv, FindField
  PROVE  MaskInv'
<1>1. LogOK /\ UpdatesOK /\ TextsOK /\ MaskedParts /\ LogInv
  BY MaskParts
<1>2. /\ UNCHANGED <<currentConfig, updVars, seen, value, todo, cur>> /\ maskPc = "field"
      /\ maskText = value.leaves /\ value \in Values /\ value.kind \in {"plain", "json"}
      /\ cur = {} /\ \A l \in DOMAIN maskText : maskText[l] \in Seq(Int)
  BY <1>1 DEF FindField, Goto, Logging, LogInv, MaskedKinds, Intact
<1>3. PICK rules : rules = currentConfig.fields
  OBVIOUS
<1>4. IsRules(rules) /\ rules \in seen.fields
  BY <1>1, <1>2, <1>3, RulesInForce, InForce
<1>5. /\ \A l \in DOMAIN maskText : l.parent \in Parents[value.kind]
      /\ value.kind = "plain" => \A l, k \in DOMAIN maskText : l = k
  BY <1>2, KindFacts
<1>6. maskPc' \in {"done", "json"}
  BY DEF FindField, Goto
<1>7. MaskedKinds'
  BY <1>2, <1>6 DEF MaskedKinds
<1>8. LengthInv'
  BY <1>6 DEF LengthInv
<1>9. CASE \E l \in DOMAIN maskText : l.parent = "field" /\ RuleFor(l.key, rules) # {}
  <2>1. /\ maskPc' = "done"
        /\ maskText' = [l \in DOMAIN maskText |-> MaskByField(l.key, maskText[l], rules)]
    BY <1>3, <1>9 DEF FindField, Goto
  <2>2. value.kind = "plain"
    BY <1>2, <1>5, <1>9 DEF Parents
  <2>3. \A l \in DOMAIN maskText : l.parent = "field" /\ RuleFor(l.key, rules) # {}
    BY <1>5, <1>9, <2>2
  <2>4. \A l \in DOMAIN maskText :
          /\ maskText'[l] \in Chars /\ Visible(maskText'[l]) \subseteq Visible(maskText[l])
          /\ LookedAt(l, value.leaves[l], maskText'[l], seen.fields)
          /\ NamedBy(l, rules)
    <3> SUFFICES ASSUME NEW l \in DOMAIN maskText
                 PROVE  /\ maskText'[l] \in Chars
                        /\ Visible(maskText'[l]) \subseteq Visible(maskText[l])
                        /\ LookedAt(l, value.leaves[l], maskText'[l], seen.fields)
                        /\ NamedBy(l, rules)
      OBVIOUS
    <3>1. NamedBy(l, rules)
      BY <1>4, <2>3, RuleFound
    <3>2. maskText'[l] = MaskByField(l.key, maskText[l], currentConfig.fields)
      BY <1>3, <2>1
    <3>3. maskPc # "idle" /\ l.parent \in {"field", "object", "query"}
      BY <1>2, <2>3
    <3>4. PICK u : u = MaskByField(l.key, maskText[l], currentConfig.fields)
      OBVIOUS
    <3>5. /\ u \in Chars /\ Visible(u) \subseteq Visible(maskText[l])
          /\ LookedAt(l, value.leaves[l], u, seen.fields)
      BY <1>1, <3>3, <3>4, FieldApplied
    <3> QED BY <3>1, <3>2, <3>4, <3>5
  <2>5. DOMAIN maskText' = DOMAIN maskText
    BY <2>1
  <2>6. Shrinks
    BY <2>4, <2>5 DEF Shrinks
  <2>7. Intact'
    BY <2>1, <2>4, <2>5 DEF Intact, Chars
  <2>8. HiddenInv'
    BY <1>2, <2>4, <2>5 DEF HiddenInv
  <2>9. ContentInv'
    BY <1>2, <1>4, <2>1, <2>4, <2>5 DEF ContentInv, RulesApplied
  <2>10. KeptInv'
    BY <1>2, <1>4, <2>4, <2>5 DEF KeptInv, Untouched
  <2>11. maskPc' \in LogPcs /\ todo' \subseteq DOMAIN value.leaves
         /\ cur' \subseteq DOMAIN value.leaves /\ maskPc # "idle"
    BY <1>1, <1>2, <2>1 DEF LogPcs, LogOK
  <2> QED BY <1>2, <1>7, <1>8, <2>6, <2>7, <2>8, <2>9, <2>10, <2>11, LogStepKeeps
<1>10. CASE ~ \E l \in DOMAIN maskText : l.parent = "field" /\ RuleFor(l.key, rules) # {}
  <2>1. maskPc' = "json" /\ maskText' = maskText
    BY <1>3, <1>10 DEF FindField, Goto
  <2>2. Shrinks
    BY <1>1, <2>1, SameShrinks
  <2>3. Intact'
    BY <1>2, <2>1 DEF Intact
  <2>4. HiddenInv'
    <3>1. CASE value.kind = "plain"
      <4>1. \A l \in DOMAIN maskText : l.parent = "field"
        BY <1>5, <3>1 DEF Parents
      <4>2. \A l \in DOMAIN maskText : ~ NamedBy(l, rules)
        BY <1>4, <1>10, <4>1, RuleFound
      <4> QED BY <1>2, <1>4, <2>1, <4>2 DEF HiddenInv, LookedAt
    <3>2. CASE value.kind # "plain"
      BY <1>2, <2>1, <3>2 DEF HiddenInv, Pending
    <3> QED BY <3>1, <3>2
  <2>5. ContentInv'
    BY <2>1 DEF ContentInv
  <2>6. KeptInv'
    BY <1>2, <2>1 DEF KeptInv
  <2>7. maskPc' \in LogPcs /\ todo' \subseteq DOMAIN value.leaves
         /\ cur' \subseteq DOMAIN value.leaves /\ maskPc # "idle"
    BY <1>1, <1>2, <2>1 DEF LogPcs, LogOK
  <2> QED BY <1>2, <1>7, <1>8, <2>2, <2>3, <2>4, <2>5, <2>6, <2>7, LogStepKeeps
<1> QED BY <1>9, <1>10

LEMMA Unnameable ==
  \A l, rules : l.parent \notin {"field", "object", "query"} => ~ NamedBy(l, rules)
BY DEF NamedBy, NamingRules

LEMMA WalkKeeps ==
  ASSUME MaskInv, NEW l \in todo, WalkLeaf(l)
  PROVE  MaskInv'
<1>1. LogOK /\ UpdatesOK /\ TextsOK /\ MaskedParts /\ LogInv
  BY MaskParts
<1>2. /\ UNCHANGED <<currentConfig, updVars, seen, value, maskPc, cur>> /\ maskPc = "walk"
      /\ todo' = todo \ {l} /\ l \in DOMAIN maskText
      /\ value \in Values /\ value.kind = "json" /\ cur = {}
      /\ \A k \in DOMAIN maskText : maskText[k] \in Seq(Int)
  BY <1>1 DEF WalkLeaf, Logging, LogInv, MaskedKinds, Intact
<1>3. l.parent \in {"object", "array"}
  <2>1. l \in DOMAIN value.leaves
    BY <1>1, <1>2 DEF TextsOK
  <2> QED BY <1>2, <2>1, KindFacts DEF Parents
<1>4. PICK u : u = IF l.parent = "object" THEN MaskByField(l.key, maskText[l], currentConfig.fields)
                   ELSE maskText[l]
  OBVIOUS
<1>5. /\ u \in Chars /\ Visible(u) \subseteq Visible(maskText[l])
      /\ LookedAt(l, value.leaves[l], u, seen.fields)
      /\ ~ NamedBy(l, currentConfig.fields) => u = maskText[l]
  <2>1. CASE l.parent = "object"
    BY <1>1, <1>2, <1>4, <2>1, FieldApplied
  <2>2. CASE l.parent = "array"
    <3>1. u = maskText[l]
      BY <1>4, <2>2
    <3>2. currentConfig.fields \in seen.fields /\ ~ NamedBy(l, currentConfig.fields)
      BY <1>1, <1>2, <2>2, InForce, Unnameable
    <3> QED BY <1>2, <3>1, <3>2 DEF LookedAt, Chars
  <2> QED BY <1>3, <2>1, <2>2
<1>6. DOMAIN maskText' = DOMAIN maskText
      /\ \A k \in DOMAIN maskText : maskText'[k] = IF k = l THEN u ELSE maskText[k]
  BY <1>2, <1>4 DEF WalkLeaf, MaskLeaf
<1>7. Shrinks
  BY <1>2, <1>5, <1>6 DEF Shrinks, Chars
<1>8. MaskedKinds'
  BY <1>1, <1>2 DEF LogInv, MaskedKinds
<1>9. Intact'
  BY <1>1, <1>2, <1>5, <1>6 DEF LogInv, Intact, Chars
<1>10. HiddenInv'
  <2>1. \A k \in DOMAIN maskText : k \notin Pending' => k = l \/ k \notin Pending
    BY <1>2 DEF Pending
  <2>2. \A k \in DOMAIN maskText : k \notin Pending =>
          LookedAt(k, value.leaves[k], maskText[k], seen.fields)
    BY <1>1 DEF LogInv, HiddenInv
  <2> QED BY <1>2, <1>5, <1>6, <2>1, <2>2 DEF HiddenInv
<1>11. ContentInv'
  BY <1>2 DEF ContentInv
<1>12. KeptInv'
  <2>1. currentConfig.fields \in seen.fields
    BY <1>1, <1>2, InForce
  <2>2. \A k \in DOMAIN maskText :
          Untouched(k, value.leaves[k], seen) => maskText[k] = value.leaves[k]
    BY <1>1, <1>2 DEF LogInv, KeptInv
  <2> QED BY <1>2, <1>5, <1>6, <2>1, <2>2 DEF KeptInv, Untouched
<1>13. LengthInv'
  BY <1>2 DEF LengthInv
<1>14. maskPc' \in LogPcs /\ todo' \subseteq DOMAIN value.leaves
       /\ cur' \subseteq DOMAIN value.leaves /\ maskPc # "idle"
  BY <1>1, <1>2 DEF LogPcs, LogOK
<1> QED BY <1>2, <1>7, <1>8, <1>9, <1>10, <1>11, <1>12, <1>13, <1>14, LogStepKeeps

LEMMA TruncateKeeps ==
  ASSUME MaskInv, Truncate
  PROVE  MaskInv'
<1>1. LogOK /\ UpdatesOK /\ TextsOK /\ MaskedParts /\ LogInv
  BY MaskParts
<1>2. /\ UNCHANGED <<currentConfig, updVars, seen, value, todo, cur>> /\ maskPc = "truncate"
      /\ value \in Values /\ value.kind = "json" /\ cur = {}
      /\ \A k \in DOMAIN maskText : maskText[k] \in Seq(Int)
      /\ \E n \in seen.maxLength : n > 0
  BY <1>1 DEF Truncate, Goto, Logging, LogInv, MaskedKinds, Intact, LengthInv
<1>3. PICK n : n = currentConfig.maxLength
  OBVIOUS
<1>4. n \in Int /\ n \in seen.maxLength
  BY <1>1, <1>2, <1>3, RulesInForce, InForce
<1>5. PICK long : long = {l \in DOMAIN maskText : l.parent = "object" /\ Len(maskText[l]) > n}
  OBVIOUS
<1>6. maskPc' \in {"panicked", "compare"}
  BY DEF Truncate, Goto
<1>7. MaskedKinds'
  BY <1>2, <1>6 DEF MaskedKinds
<1>8. ContentInv'
  BY <1>2 DEF ContentInv
<1>9. maskPc' \in LogPcs /\ todo' \subseteq DOMAIN value.leaves
      /\ cur' \subseteq DOMAIN value.leaves /\ maskPc # "idle"
  BY <1>1, <1>2, <1>6 DEF LogPcs, LogOK
<1>10. CASE long # {} /\ n < 3
  <2>1. maskPc' = "panicked" /\ maskText' = maskText
    BY <1>3, <1>5, <1>10 DEF Truncate, Goto
  <2>2. Shrinks
    BY <1>1, <2>1, SameShrinks
  <2>3. Intact'
    BY <1>2, <2>1 DEF Intact
  <2>4. HiddenInv'
    BY <2>1 DEF HiddenInv, Pending
  <2>5. KeptInv'
    BY <1>1, <1>2, <2>1 DEF KeptInv, LogInv
  <2>6. LengthInv'
    <3>1. (\E k \in seen.maxLength : k \in {1, 2}) \/ (\E k, j \in seen.maxLength : k # j)
      BY <1>2, <1>4, <1>10
    <3> QED BY <1>2, <2>1, <3>1 DEF LengthInv
  <2> QED BY <1>2, <1>7, <1>8, <1>9, <2>2, <2>3, <2>4, <2>5, <2>6, LogStepKeeps
<1>11. CASE ~ (long # {} /\ n < 3)
  <2>1. /\ maskPc' = "compare"
        /\ maskText' = [l \in DOMAIN maskText |->
                          IF l \in long THEN Truncated(maskText[l], n) ELSE maskText[l]]
    BY <1>3, <1>5, <1>11 DEF Truncate, Goto
  <2>2. DOMAIN maskText' = DOMAIN maskText
    BY <2>1
  <2>3. \A l \in DOMAIN maskText :
          maskText'[l] \in Chars /\ Visible(maskText'[l]) \subseteq Visible(maskText[l])
    <3> SUFFICES ASSUME NEW l \in DOMAIN maskText
                 PROVE  /\ maskText'[l] \in Chars
                        /\ Visible(maskText'[l]) \subseteq Visible(maskText[l])
      OBVIOUS
    <3>1. PICK t : t = maskText[l]
      OBVIOUS
    <3>2. t \in Chars
      BY <1>2, <3>1 DEF Chars
    <3>3. CASE l \in long
      <4>1. n >= 3 /\ Len(t) > n
        BY <1>4, <1>5, <1>11, <3>1, <3>3
      <4>2. Len(t) \in Nat
        BY <3>2 DEF Chars
      <4>3. PICK k \in Int : k = n - 3
        BY <1>4
      <4>4. k <= Len(t)
        BY <1>4, <4>1, <4>2, <4>3
      <4>5. PICK u : u = SubSeq(t, 1, k) \o <<Dot, Dot, Dot>>
        OBVIOUS
      <4>6. u \in Chars /\ Visible(u) \subseteq Visible(t)
        BY <3>2, <4>4, <4>5, CutShape
      <4>7. maskText'[l] = u
        BY <2>1, <3>1, <3>3, <4>1, <4>3, <4>5 DEF Truncated
      <4> QED BY <3>1, <4>6, <4>7
    <3>4. CASE l \notin long
      BY <2>1, <3>1, <3>2, <3>4
    <3> QED BY <3>3, <3>4
  <2>4. Shrinks
    BY <2>2, <2>3 DEF Shrinks
  <2>5. Intact'
    BY <2>1, <2>2, <2>3 DEF Intact, Chars
  <2>6. HiddenInv'
    <3>1. ASSUME NEW l \in DOMAIN maskText
          PROVE  LookedAt(l, value.leaves[l], maskText'[l], seen.fields)
      <4>1. LookedAt(l, value.leaves[l], maskText[l], seen.fields)
        BY <1>1, <1>2 DEF LogInv, HiddenInv, Pending
      <4>2. /\ l \in DOMAIN value.leaves
            /\ Visible(maskText[l]) \subseteq 1..Len(value.leaves[l])
        BY <1>1 DEF TextsOK
      <4>3. Len(value.leaves[l]) \in Nat
        BY <1>1, <4>2, LeafFacts DEF LogOK
      <4>4. PICK u : u = maskText'[l]
        OBVIOUS
      <4>5. Visible(u) \subseteq Visible(maskText[l])
        BY <2>3, <4>4
      <4>6. LookedAt(l, value.leaves[l], u, seen.fields)
        BY <1>1, <4>1, <4>2, <4>3, <4>5, LookedStays
      <4> QED BY <4>4, <4>6
    <3> QED BY <1>2, <2>2, <3>1 DEF HiddenInv
  <2>7. KeptInv'
    <3>1. ASSUME NEW l \in DOMAIN maskText, Untouched(l, value.leaves[l], seen)
          PROVE  maskText'[l] = value.leaves[l]
      <4>1. maskText[l] = value.leaves[l]
        BY <1>1, <1>2, <3>1 DEF LogInv, KeptInv
      <4>2. n > 0
        BY <1>2, <1>4, <3>1 DEF Untouched
      <4>3. n >= Len(value.leaves[l])
        BY <1>4, <3>1, <4>2 DEF Untouched
      <4>4. Len(value.leaves[l]) \in Nat
        BY <1>1, LeafFacts DEF LogOK, TextsOK
      <4>5. l \notin long
        BY <1>4, <1>5, <4>1, <4>3, <4>4
      <4> QED BY <2>1, <4>1, <4>5
    <3> QED BY <1>2, <2>2, <3>1 DEF KeptInv
  <2>8. LengthInv'
    BY <2>1 DEF LengthInv
  <2> QED BY <1>2, <1>7, <1>8, <1>9, <2>4, <2>5, <2>6, <2>7, <2>8, LogStepKeeps
<1> QED BY <1>10, <1>11

LEMMA ContentKeeps ==
  ASSUME MaskInv, Content
  PROVE  MaskInv'
<1>1. LogOK /\ UpdatesOK /\ TextsOK /\ MaskedParts /\ LogInv
  BY MaskParts
<1>2. /\ UNCHANGED <<currentConfig, updVars, seen, value, todo, cur>> /\ maskPc = "content"
      /\ maskPc' = "done" /\ cur = {} /\ value \in Values
      /\ \A k \in DOMAIN maskText : maskText[k] \in Seq(Int)
  BY <1>1 DEF Content, Goto, Logging, LogInv, MaskedKinds, Intact
<1>3. PICK rules : rules = currentConfig.content
  OBVIOUS
<1>4. IsRules(rules) /\ rules \in seen.content
  BY <1>1, <1>2, <1>3, RulesInForce, InForce
<1>5. /\ DOMAIN maskText' = DOMAIN maskText
      /\ \A l \in DOMAIN maskText : maskText'[l] = DesensitizeText(maskText[l], rules)
  BY <1>3 DEF Content
<1>6. \A l \in DOMAIN maskText :
        maskText'[l] \in Chars /\ Visible(maskText'[l]) \subseteq Visible(maskText[l])
  <2> SUFFICES ASSUME NEW l \in DOMAIN maskText
               PROVE  /\ maskText'[l] \in Chars
                      /\ Visible(maskText'[l]) \subseteq Visible(maskText[l])
    OBVIOUS
  <2>1. PICK t : t = maskText[l]
    OBVIOUS
  <2>2. PICK u : u = DesensitizeText(t, rules)
    OBVIOUS
  <2>3. t \in Chars
    BY <1>2, <2>1 DEF Chars
  <2>4. MaskedFrom(t, u)
    BY <1>4, <2>2, <2>3, TextShape
  <2>5. u \in Chars /\ Visible(u) \subseteq Visible(t)
    BY <2>3, <2>4, VisibleShrinks DEF MaskedFrom
  <2>6. maskText'[l] = u
    BY <1>5, <2>1, <2>2
  <2> QED BY <2>1, <2>5, <2>6
<1>7. Shrinks
  BY <1>5, <1>6 DEF Shrinks
<1>8. MaskedKinds'
  BY <1>2 DEF MaskedKinds
<1>9. Intact'
  BY <1>2, <1>5, <1>6 DEF Intact, Chars
<1>10. HiddenInv'
  <2>1. ASSUME NEW l \in DOMAIN maskText
        PROVE  LookedAt(l, value.leaves[l], maskText'[l], seen.fields)
    <3>1. LookedAt(l, value.leaves[l], maskText[l], seen.fields)
      BY <1>1, <1>2 DEF LogInv, HiddenInv, Pending
    <3>2. /\ l \in DOMAIN value.leaves
          /\ Visible(maskText[l]) \subseteq 1..Len(value.leaves[l])
      BY <1>1 DEF TextsOK
    <3>3. Len(value.leaves[l]) \in Nat
      BY <1>1, <3>2, LeafFacts DEF LogOK
    <3>4. PICK u : u = maskText'[l]
      OBVIOUS
    <3>5. Visible(u) \subseteq Visible(maskText[l])
      BY <1>6, <3>4
    <3>6. LookedAt(l, value.leaves[l], u, seen.fields)
      BY <1>1, <3>1, <3>2, <3>3, <3>5, LookedStays
    <3> QED BY <3>4, <3>6
  <2> QED BY <1>2, <1>5, <2>1 DEF HiddenInv
<1>11. ContentInv'
  <2>1. value.kind \in {"message", "plain"} => maskText = value.leaves
    BY <1>1, <1>2 DEF LogInv, ContentInv
  <2> QED BY <1>2, <1>4, <1>5, <2>1 DEF ContentInv, RulesApplied
<1>12. KeptInv'
  <2>1. ASSUME NEW l \in DOMAIN maskText, Untouched(l, value.leaves[l], seen)
        PROVE  maskText'[l] = value.leaves[l]
    <3>1. maskText[l] = value.leaves[l]
      BY <1>1, <1>2, <2>1 DEF LogInv, KeptInv
    <3>2. PICK leaf : leaf = value.leaves[l]
      OBVIOUS
    <3>3. leaf \in Chars
      BY <1>2, <3>1, <3>2 DEF Chars
    <3>4. \A i \in DOMAIN rules : Covered(rules[i], leaf) = {}
      BY <1>4, <2>1, <3>2 DEF Untouched
    <3>5. DesensitizeText(leaf, rules) = leaf
      BY <1>4, <3>3, <3>4, TextKept
    <3> QED BY <1>5, <3>1, <3>2, <3>5
  <2> QED BY <1>2, <1>5, <2>1 DEF KeptInv
<1>13. LengthInv'
  BY <1>2 DEF LengthInv
<1>14. maskPc' \in LogPcs /\ todo' \subseteq DOMAIN value.leaves
       /\ cur' \subseteq DOMAIN value.leaves /\ maskPc # "idle"
  BY <1>1, <1>2 DEF LogPcs, LogOK
<1> QED BY <1>2, <1>7, <1>8, <1>9, <1>10, <1>11, <1>12, <1>13, <1>14, LogStepKeeps

LEMMA NextPairKeeps ==
  ASSUME MaskInv, NEW l \in todo, NextPair(l)
  PROVE  MaskInv'
<1>1. LogOK /\ UpdatesOK /\ TextsOK /\ MaskedParts /\ LogInv
  BY MaskParts
<1>2. /\ UNCHANGED <<currentConfig, updVars, seen, value>> /\ maskPc = "pairs"
      /\ todo' = todo \ {l} /\ todo \subseteq DOMAIN maskText
      /\ value \in Values /\ value.kind = "query" /\ cur = {}
      /\ \A k \in DOMAIN maskText : maskText[k] \in Seq(Int)
      /\ \A k \in todo : maskText[k] = value.leaves[k]
  BY <1>1 DEF NextPair, Logging, LogInv, MaskedKinds, Intact
<1>3. l \in DOMAIN value.leaves /\ l.parent \in {"query", "badPair"}
  <2>1. l \in DOMAIN value.leaves
    BY <1>1, <1>2 DEF TextsOK
  <2> QED BY <1>2, <2>1, KindFacts DEF Parents
<1>4. \A k \in DOMAIN maskText \ todo : LookedAt(k, value.leaves[k], maskText[k], seen.fields)
  BY <1>1, <1>2 DEF LogInv, HiddenInv, Pending
<1>5. \A k \in DOMAIN maskText :
        Untouched(k, value.leaves[k], seen) => maskText[k] = value.leaves[k]
  BY <1>1, <1>2 DEF LogInv, KeptInv
<1>6. ContentInv'
  BY <1>2 DEF ContentInv
<1>7. CASE l.parent = "badPair"
  <2>1. /\ maskPc' = "pairs" /\ cur' = {}
        /\ maskText' = [x \in DOMAIN maskText \ {l} |-> maskText[x]]
    BY <1>2, <1>7 DEF NextPair
  <2>2. Shrinks
    BY <1>2, <2>1 DEF Shrinks, Chars
  <2>3. MaskedKinds'
    BY <1>2, <2>1 DEF MaskedKinds
  <2>4. Intact'
    BY <1>2, <2>1 DEF Intact
  <2>5. HiddenInv'
    BY <1>2, <1>4, <2>1 DEF HiddenInv, Pending
  <2>6. KeptInv'
    BY <1>2, <1>5, <2>1 DEF KeptInv
  <2>7. LengthInv'
    BY <2>1 DEF LengthInv
  <2>8. maskPc' \in LogPcs /\ todo' \subseteq DOMAIN value.leaves
        /\ cur' \subseteq DOMAIN value.leaves /\ maskPc # "idle"
    BY <1>1, <1>2, <2>1 DEF LogPcs, LogOK
  <2> QED BY <1>2, <1>6, <2>2, <2>3, <2>4, <2>5, <2>6, <2>7, <2>8, LogStepKeeps
<1>8. CASE l.parent = "query"
  <2>1. /\ maskPc' = IF currentConfig.maxLength > 0 THEN "long" ELSE "mask"
        /\ cur' = {l} /\ maskText' = maskText
    BY <1>2, <1>8 DEF NextPair
  <2>2. Shrinks
    BY <1>1, <2>1, SameShrinks
  <2>3. MaskedKinds'
    BY <1>2, <1>8, <2>1 DEF MaskedKinds
  <2>4. Intact'
    BY <1>2, <2>1 DEF Intact
  <2>5. HiddenInv'
    BY <1>2, <1>4, <2>1 DEF HiddenInv, Pending
  <2>6. KeptInv'
    BY <1>2, <1>5, <2>1 DEF KeptInv
  <2>7. LengthInv'
    <3>1. currentConfig.maxLength \in seen.maxLength
      BY <1>1, <1>2, InForce
    <3> QED BY <1>2, <2>1, <3>1 DEF LengthInv
  <2>8. maskPc' \in LogPcs /\ todo' \subseteq DOMAIN value.leaves
        /\ cur' \subseteq DOMAIN value.leaves /\ maskPc # "idle"
    BY <1>1, <1>2, <1>3, <2>1 DEF LogPcs, LogOK
  <2> QED BY <1>2, <1>6, <2>2, <2>3, <2>4, <2>5, <2>6, <2>7, <2>8, LogStepKeeps
<1> QED BY <1>3, <1>7, <1>8

LEMMA CutPairKeeps ==
  ASSUME MaskInv, CutPair
  PROVE  MaskInv'
<1>1. LogOK /\ UpdatesOK /\ TextsOK /\ MaskedParts /\ LogInv
  BY MaskParts
<1>2. /\ UNCHANGED <<currentConfig, updVars, seen, value, todo, cur>> /\ maskPc = "cut"
      /\ todo \cup cur \subseteq DOMAIN maskText
      /\ value \in Values /\ value.kind = "query"
      /\ \A k \in DOMAIN maskText : maskText[k] \in Seq(Int)
      /\ \A k \in todo : maskText[k] = value.leaves[k] /\ k \notin cur
      /\ \A k \in cur : maskText[k] = value.leaves[k]
      /\ \E n \in seen.maxLength : n > 0
      /\ \A k \in cur : \E n \in seen.maxLength : n < Len(value.leaves[k])
      /\ \E k \in cur : cur = {k} /\ k.parent = "query"
  BY <1>1 DEF CutPair, Goto, Logging, LogInv, MaskedKinds, Intact, LengthInv
<1>3. PICK n : n = currentConfig.maxLength
  OBVIOUS
<1>4. n \in Int /\ n \in seen.maxLength
  BY <1>1, <1>2, <1>3, RulesInForce, InForce
<1>5. PICK l \in cur :
        \/ /\ n < 3 \/ n - 3 > Len(maskText[l])
           /\ maskPc' = "panicked" /\ UNCHANGED maskText
        \/ /\ n >= 3
           /\ maskPc' = "mask"
           /\ maskText' = [maskText EXCEPT
                ![l] = SubSeq(@, 1, AtMost(n - 3, Len(@))) \o <<Dot, Dot, Dot>>]
  BY <1>3 DEF CutPair, Goto
<1>6. cur = {l} /\ l \in DOMAIN maskText
  BY <1>2
<1>7. PICK leaf : leaf = value.leaves[l]
  OBVIOUS
<1>8. maskText[l] = leaf /\ leaf \in Chars /\ Len(leaf) \in Nat
  BY <1>2, <1>7 DEF Chars
<1>9. PICK n1 \in seen.maxLength : n1 < Len(leaf)
  BY <1>2, <1>7
<1>10. \A k \in DOMAIN maskText \ (todo \cup cur) :
         LookedAt(k, value.leaves[k], maskText[k], seen.fields)
  BY <1>1, <1>2 DEF LogInv, HiddenInv, Pending
<1>11. \A k \in DOMAIN maskText :
         Untouched(k, value.leaves[k], seen) => maskText[k] = value.leaves[k]
  BY <1>1, <1>2 DEF LogInv, KeptInv
<1>12. ContentInv'
  BY <1>2 DEF ContentInv
<1>13. maskPc' \in LogPcs /\ todo' \subseteq DOMAIN value.leaves
       /\ cur' \subseteq DOMAIN value.leaves /\ maskPc # "idle"
  BY <1>1, <1>2, <1>5 DEF LogPcs, LogOK
<1>14. MaskedKinds'
  BY <1>2, <1>5 DEF MaskedKinds
<1>15. \A k \in seen.maxLength : k \in Int
  BY <1>1, PartFacts DEF MaskedParts, Parts
<1>16. CASE /\ n < 3 \/ n - 3 > Len(maskText[l])
            /\ maskPc' = "panicked" /\ UNCHANGED maskText
  <2>1. Shrinks
    BY <1>1, <1>16, SameShrinks
  <2>2. Intact'
    BY <1>2, <1>16 DEF Intact
  <2>3. HiddenInv'
    BY <1>16 DEF HiddenInv, Pending
  <2>4. KeptInv'
    BY <1>2, <1>11, <1>16 DEF KeptInv
  <2>5. LengthInv'
    <3>1. (\E k \in seen.maxLength : k \in {1, 2}) \/ (\E k, j \in seen.maxLength : k # j)
      <4>1. CASE n < 3
        BY <1>2, <1>4, <4>1
      <4>2. CASE n - 3 > Len(leaf)
        <5>1. n # n1
          BY <1>4, <1>8, <1>9, <1>15, <4>2
        <5> QED BY <1>4, <1>9, <5>1
      <4> QED BY <1>8, <1>16, <4>1, <4>2
    <3> QED BY <1>2, <1>16, <3>1 DEF LengthInv
  <2> QED BY <1>2, <1>12, <1>13, <1>14, <2>1, <2>2, <2>3, <2>4, <2>5, LogStepKeeps
<1>17. CASE /\ n >= 3
            /\ maskPc' = "mask"
            /\ maskText' = [maskText EXCEPT
                 ![l] = SubSeq(@, 1, AtMost(n - 3, Len(@))) \o <<Dot, Dot, Dot>>]
  <2>1. PICK k \in Int : k = AtMost(n - 3, Len(leaf)) /\ k <= Len(leaf)
    BY <1>4, <1>8 DEF AtMost
  <2>2. PICK u : u = SubSeq(leaf, 1, k) \o <<Dot, Dot, Dot>>
    OBVIOUS
  <2>3. u \in Chars /\ Visible(u) \subseteq Visible(leaf)
    BY <1>8, <2>1, <2>2, CutShape
  <2>4. DOMAIN maskText' = DOMAIN maskText
        /\ \A x \in DOMAIN maskText : maskText'[x] = IF x = l THEN u ELSE maskText[x]
    BY <1>8, <1>17, <2>1, <2>2
  <2>5. Shrinks
    BY <1>2, <1>8, <2>3, <2>4 DEF Shrinks, Chars
  <2>6. Intact'
    BY <1>2, <1>6, <1>17, <2>3, <2>4 DEF Intact, Chars
  <2>7. HiddenInv'
    BY <1>2, <1>6, <1>10, <1>17, <2>4 DEF HiddenInv, Pending
  <2>8. KeptInv'
    <3>1. ~ Untouched(l, leaf, seen)
      <4> SUFFICES ASSUME Untouched(l, leaf, seen) PROVE FALSE
        OBVIOUS
      <4>1. n1 > 0
        BY <1>2, <1>9 DEF Untouched
      <4>2. n1 >= Len(leaf)
        BY <1>9, <1>15, <4>1 DEF Untouched
      <4> QED BY <1>8, <1>9, <1>15, <4>2
    <3> QED BY <1>2, <1>7, <1>11, <2>4, <3>1 DEF KeptInv
  <2>9. LengthInv'
    BY <1>17 DEF LengthInv
  <2> QED BY <1>2, <1>12, <1>13, <1>14, <2>5, <2>6, <2>7, <2>8, <2>9, LogStepKeeps
<1> QED BY <1>5, <1>16, <1>17

LEMMA MaskPairKeeps ==
  ASSUME MaskInv, MaskPair
  PROVE  MaskInv'
<1>1. LogOK /\ UpdatesOK /\ TextsOK /\ MaskedParts /\ LogInv
  BY MaskParts
<1>2. /\ UNCHANGED <<currentConfig, updVars, seen, value, todo>> /\ maskPc = "mask"
      /\ maskPc' = "pairs" /\ cur' = {}
      /\ todo \cup cur \subseteq DOMAIN maskText
      /\ value \in Values /\ value.kind = "query"
      /\ \A k \in DOMAIN maskText : maskText[k] \in Seq(Int)
      /\ \A k \in todo : maskText[k] = value.leaves[k] /\ k \notin cur
      /\ \E k \in cur : cur = {k} /\ k.parent = "query"
  BY <1>1 DEF MaskPair, Goto, Logging, LogInv, MaskedKinds, Intact
<1>3. PICK l \in cur : maskText' = MaskLeaf(l)
  BY DEF MaskPair
<1>4. cur = {l} /\ l \in DOMAIN maskText /\ l.parent = "query"
  BY <1>2
<1>5. \A k \in DOMAIN maskText \ (todo \cup cur) :
         LookedAt(k, value.leaves[k], maskText[k], seen.fields)
  BY <1>1, <1>2 DEF LogInv, HiddenInv, Pending
<1>6. \A k \in DOMAIN maskText :
         Untouched(k, value.leaves[k], seen) => maskText[k] = value.leaves[k]
  BY <1>1, <1>2 DEF LogInv, KeptInv
<1>7. PICK u : u = MaskByField(l.key, maskText[l], currentConfig.fields)
  OBVIOUS
<1>8. DOMAIN maskText' = DOMAIN maskText
      /\ \A k \in DOMAIN maskText : maskText'[k] = IF k = l THEN u ELSE maskText[k]
  BY <1>3, <1>4, <1>7 DEF MaskLeaf
<1>9. /\ u \in Chars /\ Visible(u) \subseteq Visible(maskText[l])
      /\ LookedAt(l, value.leaves[l], u, seen.fields)
      /\ ~ NamedBy(l, currentConfig.fields) => u = maskText[l]
  <2>1. maskPc # "idle" /\ l.parent \in {"field", "object", "query"}
    BY <1>2, <1>4
  <2> QED BY <1>1, <1>4, <1>7, <2>1, FieldApplied
<1>10. Shrinks
  BY <1>2, <1>8, <1>9 DEF Shrinks, Chars
<1>11. MaskedKinds'
  BY <1>2 DEF MaskedKinds
<1>12. Intact'
  BY <1>2, <1>4, <1>8, <1>9 DEF Intact, Chars
<1>13. HiddenInv'
  BY <1>2, <1>4, <1>5, <1>8, <1>9 DEF HiddenInv, Pending
<1>14. ContentInv'
  BY <1>2 DEF ContentInv
<1>15. KeptInv'
  <2>1. currentConfig.fields \in seen.fields
    BY <1>1, <1>2, InForce
  <2> QED BY <1>2, <1>6, <1>8, <1>9, <2>1 DEF KeptInv, Untouched
<1>16. LengthInv'
  BY <1>2 DEF LengthInv
<1>17. maskPc' \in LogPcs /\ todo' \subseteq DOMAIN value.leaves
       /\ cur' \subseteq DOMAIN value.leaves /\ maskPc # "idle"
  BY <1>1, <1>2 DEF LogPcs, LogOK
<1> QED BY <1>2, <1>10, <1>11, <1>12, <1>13, <1>14, <1>15, <1>16, <1>17, LogStepKeeps

LEMMA WrittenKeeps ==
  ASSUME MaskInv, Written
  PROVE  MaskInv'
<1>1. LogOK /\ UpdatesOK /\ TextsOK /\ MaskedParts /\ LogInv
  BY MaskParts
<1>2. /\ maskPc' = "idle" /\ maskText' = value.leaves /\ todo' = {} /\ cur' = {}
      /\ seen' = [p \in Parts |-> {}] /\ updates' = 0
      /\ UNCHANGED <<currentConfig, longStrRegexMux, upd, tooLong, value>>
  BY DEF Written
<1>3. value \in Values \cup {NothingLogged} /\ MaxUpdates \in Nat
  BY <1>1, MaskingAssumption DEF LogOK
<1>4. \A l \in DOMAIN value.leaves :
        /\ value.leaves[l] \in Chars /\ Visible(value.leaves[l]) \subseteq 1..Len(value.leaves[l])
  BY <1>3, LeafFacts
<1>5. LogOK'
  BY <1>2, <1>3 DEF LogOK, LogPcs
<1>6. UpdatesOK'
  BY <1>1, <1>2, <1>3 DEF UpdatesOK, PartValues
<1>7. TextsOK'
  BY <1>2, <1>4 DEF TextsOK
<1>8. MaskedParts'
  BY <1>1, <1>2, FS_EmptySet DEF MaskedParts, PartValues, Parts
<1>9. MaskedKinds'
  BY <1>2 DEF MaskedKinds
<1>10. Intact'
  BY <1>2, <1>4 DEF Intact, Chars
<1>11. HiddenInv'
  BY <1>2 DEF HiddenInv, Pending
<1>12. ContentInv' /\ KeptInv' /\ LengthInv'
  BY <1>2 DEF ContentInv, KeptInv, LengthInv
<1>13. LogInv'
  BY <1>9, <1>10, <1>11, <1>12 DEF LogInv
<1> QED BY <1>5, <1>6, <1>7, <1>8, <1>13, MaskPartsNext

LEMMA BeginKeeps ==
  ASSUME MaskInv, NEW v \in Values, Begin(v)
  PROVE  MaskInv'
<1>1. LogOK /\ UpdatesOK /\ TextsOK /\ MaskedParts /\ LogInv
  BY MaskParts
<1>2. /\ value' = v /\ maskText' = v.leaves /\ updates' = 0 /\ maskPc = "idle"
      /\ seen' = [p \in Parts |-> {currentConfig[p]}]
      /\ UNCHANGED <<currentConfig, longStrRegexMux, upd, tooLong>>
      /\ todo' = {} /\ cur' = {}
  BY <1>1 DEF Begin, LogInv, MaskedKinds
<1>3. /\ v.kind \in {"message", "query", "plain", "json"}
      /\ \A l \in DOMAIN v.leaves : l.parent \in Parents[v.kind]
  BY KindFacts
<1>4. /\ v.kind = "message" => maskPc' = "content"
      /\ v.kind = "query" => maskPc' = "query"
      /\ v.kind \in {"plain", "json"} => maskPc' = "field"
  BY DEF Begin
<1>5. \A l \in DOMAIN v.leaves :
        v.leaves[l] \in Chars /\ Visible(v.leaves[l]) \subseteq 1..Len(v.leaves[l])
  BY LeafFacts
<1>6. LogOK'
  BY <1>2, <1>3, <1>4 DEF LogOK, LogPcs
<1>7. MaxUpdates \in Nat
  BY MaskingAssumption
<1>8. UpdatesOK'
  BY <1>1, <1>2, <1>7 DEF UpdatesOK, PartValues
<1>9. TextsOK'
  BY <1>2, <1>5 DEF TextsOK
<1>10. MaskedParts'
  <2>1. /\ IsFiniteSet({currentConfig["maxLength"]}) /\ "maxLength" \in Parts
        /\ IsFiniteSet({currentConfig["content"]}) /\ "content" \in Parts
    BY FS_Singleton DEF Parts
  <2>2. \A p \in Parts : currentConfig[p] \in PartValues(p) /\ upd.next[p] \in PartValues(p)
    BY <1>1 DEF UpdatesOK, MaskedParts
  <2>3. \A p \in Parts : seen'[p] = {currentConfig[p]}
    BY <1>2
  <2>4. DOMAIN currentConfig = Parts /\ DOMAIN upd = {"pc", "next", "left"}
    BY <1>1 DEF MaskedParts
  <2> QED BY <1>2, <2>1, <2>2, <2>3, <2>4 DEF MaskedParts, PartValues
<1>11. MaskedKinds'
  BY <1>2, <1>3, <1>4 DEF MaskedKinds
<1>12. Intact'
  BY <1>2, <1>3, <1>4, <1>5 DEF Intact, Chars
<1>13. HiddenInv'
  <2>1. CASE v.kind = "message"
    <3>1. \A l \in DOMAIN v.leaves : ~ NamedBy(l, currentConfig.fields)
      BY <1>3, <2>1, Unnameable DEF Parents
    <3>2. currentConfig.fields \in seen'.fields
      BY <1>2 DEF Parts
    <3> QED BY <1>2, <3>1, <3>2 DEF HiddenInv, LookedAt
  <2>2. CASE v.kind # "message"
    BY <1>2, <1>3, <1>4, <2>2 DEF HiddenInv, Pending
  <2> QED BY <2>1, <2>2
<1>14. ContentInv' /\ KeptInv' /\ LengthInv'
  BY <1>2, <1>3, <1>4 DEF ContentInv, KeptInv, LengthInv
<1>15. LogInv'
  BY <1>11, <1>12, <1>13, <1>14 DEF LogInv
<1> QED BY <1>6, <1>8, <1>9, <1>10, <1>15, MaskPartsNext

\* While the configuration changes, more is in force.
LEMMA SeenGrows ==
  ASSUME MaskInv, UNCHANGED logVars, MaskedParts', UpdatesOK',
         \A p \in Parts : seen[p] \subseteq seen'[p]
  PROVE  MaskInv'
<1>1. LogOK /\ UpdatesOK /\ TextsOK /\ MaskedParts /\ LogInv
  BY MaskParts
<1>2. /\ maskPc' = maskPc /\ value' = value /\ maskText' = maskText
      /\ todo' = todo /\ cur' = cur
  BY DEF logVars
<1>3. /\ seen.fields \subseteq seen'.fields /\ seen.content \subseteq seen'.content
      /\ seen.maxLength \subseteq seen'.maxLength
  BY DEF Parts
<1>4. LogOK' /\ TextsOK'
  BY <1>1, <1>2 DEF LogOK, TextsOK
<1>5. MaskedKinds' /\ Intact'
  BY <1>1, <1>2 DEF LogInv, MaskedKinds, Intact
<1>6. HiddenInv'
  <2>1. \A l, leaf, t : LookedAt(l, leaf, t, seen.fields) => LookedAt(l, leaf, t, seen'.fields)
    BY <1>3 DEF LookedAt
  <2>2. Pending' = Pending
    BY <1>2 DEF Pending
  <2>3. \A l \in DOMAIN maskText \ Pending : LookedAt(l, value.leaves[l], maskText[l], seen.fields)
    BY <1>1 DEF LogInv, HiddenInv
  <2> QED BY <1>2, <2>1, <2>2, <2>3 DEF HiddenInv
<1>7. ContentInv'
  <2>1. \A l, leaf, t : RulesApplied(l, leaf, t, seen.fields, seen.content)
                          => RulesApplied(l, leaf, t, seen'.fields, seen'.content)
    BY <1>3 DEF RulesApplied
  <2>2. ContentInv
    BY <1>1 DEF LogInv
  <2> QED BY <1>2, <2>1, <2>2 DEF ContentInv
<1>8. KeptInv'
  <2>1. \A l, leaf : Untouched(l, leaf, seen') => Untouched(l, leaf, seen)
    BY <1>3 DEF Untouched
  <2>2. KeptInv
    BY <1>1 DEF LogInv
  <2> QED BY <1>2, <2>1, <2>2 DEF KeptInv
<1>9. LengthInv'
  BY <1>1, <1>2, <1>3 DEF LogInv, LengthInv
<1>10. LogInv'
  BY <1>5, <1>6, <1>7, <1>8, <1>9 DEF LogInv
<1> QED BY <1>4, <1>10, MaskPartsNext

LEMMA StartUpdateKeeps ==
  ASSUME MaskInv, NEW c \in Configs, StartUpdate(c)
  PROVE  MaskInv'
<1>1. LogOK /\ UpdatesOK /\ TextsOK /\ MaskedParts /\ LogInv
  BY MaskParts
<1>2. /\ upd' = [pc |-> "copy", next |-> c, left |-> Parts]
      /\ updates < MaxUpdates /\ updates' = IF maskPc = "idle" THEN 0 ELSE updates + 1
      /\ tooLong' = (tooLong \/ c.maxLength > MaxRepeat)
      /\ UNCHANGED <<currentConfig, longStrRegexMux, logVars, seen, maskPc>>
  BY DEF StartUpdate, logVars
<1>3. MaxUpdates \in Nat
  BY MaskingAssumption
<1>4. updates' \in 0..MaxUpdates
  BY <1>1, <1>2, <1>3 DEF UpdatesOK
<1>5. tooLong' \in BOOLEAN
  BY <1>2
<1>6. UpdatesOK'
  BY <1>1, <1>2, <1>4, <1>5 DEF UpdatesOK, PartValues
<1>7. MaskedParts'
  BY <1>1, <1>2, PartFacts DEF MaskedParts, PartValues
<1> QED BY <1>2, <1>6, <1>7, SeenGrows

LEMMA CopyPartKeeps ==
  ASSUME MaskInv, NEW part \in Parts, CopyPart(part)
  PROVE  MaskInv'
<1>1. LogOK /\ UpdatesOK /\ TextsOK /\ MaskedParts /\ LogInv
  BY MaskParts
<1>2. /\ currentConfig' = [currentConfig EXCEPT ![part] = upd.next[part]]
      /\ seen' = IF maskPc = "idle" THEN seen
                 ELSE [seen EXCEPT ![part] = @ \cup {upd.next[part]}]
      /\ upd' = [upd EXCEPT !.left = @ \ {part}]
      /\ UNCHANGED <<longStrRegexMux, updates, tooLong, logVars, maskPc>>
  BY DEF CopyPart, logVars
<1>3. PICK n : n = upd.next[part]
  OBVIOUS
<1>4. n \in PartValues(part) /\ DOMAIN currentConfig = Parts /\ DOMAIN seen = Parts
  BY <1>1, <1>3 DEF MaskedParts
<1>5. /\ DOMAIN currentConfig' = Parts
      /\ \A p \in Parts : currentConfig'[p] = IF p = part THEN n ELSE currentConfig[p]
  BY <1>2, <1>3, <1>4
<1>6. /\ DOMAIN seen' = Parts
      /\ \A p \in Parts : seen'[p] = IF p = part /\ maskPc # "idle" THEN seen[p] \cup {n}
                                       ELSE seen[p]
  BY <1>2, <1>3, <1>4
<1>7. upd'.next = upd.next /\ upd'.pc = upd.pc /\ upd'.left = upd.left \ {part}
  <2>1. DOMAIN upd = {"pc", "next", "left"}
    BY <1>1 DEF MaskedParts
  <2> QED BY <1>2, <2>1
<1>8. UpdatesOK'
  BY <1>1, <1>2, <1>4, <1>5, <1>7 DEF UpdatesOK, PartValues
<1>9. MaskedParts'
  <2>1. IsFiniteSet(seen'.maxLength) /\ IsFiniteSet(seen'.content)
    <3>1. /\ IsFiniteSet(seen.maxLength) /\ IsFiniteSet(seen.maxLength \cup {n})
          /\ IsFiniteSet(seen.content) /\ IsFiniteSet(seen.content \cup {n})
      BY <1>1, FS_AddElement DEF MaskedParts
    <3> QED BY <1>6, <3>1 DEF Parts
  <2>2. \A p \in Parts : /\ upd.next[p] \in PartValues(p) /\ seen[p] \subseteq PartValues(p)
                         /\ maskPc # "idle" => currentConfig[p] \in seen[p]
    BY <1>1 DEF MaskedParts
  <2>3. \A p \in Parts : /\ upd'.next[p] \in PartValues(p) /\ seen'[p] \subseteq PartValues(p)
                         /\ maskPc' # "idle" => currentConfig'[p] \in seen'[p]
    BY <1>2, <1>4, <1>5, <1>6, <1>7, <2>2
  <2>4. DOMAIN upd' = {"pc", "next", "left"}
    BY <1>1, <1>2 DEF MaskedParts
  <2>5. DOMAIN currentConfig' = Parts /\ DOMAIN seen' = Parts
    BY <1>5, <1>6
  <2> QED BY <2>1, <2>3, <2>4, <2>5 DEF MaskedParts, PartValues
<1>10. \A p \in Parts : seen[p] \subseteq seen'[p]
  BY <1>6
<1> QED BY <1>2, <1>8, <1>9, <1>10, SeenGrows

LEMMA UpdateEndKeeps ==
  ASSUME MaskInv, Copied \/ CompileLongStr
  PROVE  MaskInv'
<1>1. LogOK /\ UpdatesOK /\ TextsOK /\ MaskedParts /\ LogInv
  BY MaskParts
<1>2. UNCHANGED <<currentConfig, updates, tooLong, logVars, seen, maskPc>>
  BY DEF Copied, CompileLongStr, logVars
<1>3. longStrRegexMux' \in {"free", "held"}
  BY <1>1 DEF Copied, CompileLongStr, UpdatesOK
<1>4. /\ upd'.next \in {upd.next, currentConfig} /\ upd'.left \subseteq Parts
      /\ upd'.pc \in {"idle", "copy", "compile"} /\ DOMAIN upd' = {"pc", "next", "left"}
  <2>1. /\ DOMAIN upd = {"pc", "next", "left"} /\ upd.left \subseteq Parts
        /\ upd.pc \in {"idle", "copy", "compile"}
    BY <1>1 DEF MaskedParts, UpdatesOK
  <2>2. CASE upd' = [pc |-> "idle", next |-> currentConfig, left |-> {}]
    BY <2>2
  <2>3. CASE upd' = [upd EXCEPT !.pc = "compile"]
    BY <2>1, <2>3
  <2> QED BY <2>2, <2>3 DEF Copied, CompileLongStr, Idle
<1>5. UpdatesOK'
  BY <1>1, <1>2, <1>3, <1>4 DEF UpdatesOK, PartValues
<1>6. MaskedParts'
  <2>1. \A p \in Parts : currentConfig[p] \in PartValues(p)
    BY <1>1 DEF UpdatesOK
  <2> QED BY <1>1, <1>2, <1>4, <2>1 DEF MaskedParts, PartValues
<1> QED BY <1>2, <1>5, <1>6, SeenGrows

LEMMA MaskStarts == MaskInit => MaskInv
<1> SUFFICES ASSUME MaskInit PROVE MaskInv
  OBVIOUS
<1>1. /\ maskPc = "idle" /\ value = NothingLogged /\ maskText = NothingLogged.leaves
      /\ todo = {} /\ cur = {} /\ seen = [p \in Parts |-> {}]
  BY DEF MaskInit
<1>2. /\ currentConfig \in Configs /\ upd = Idle /\ updates = 0 /\ tooLong = FALSE
      /\ longStrRegexMux = "free" /\ MaxUpdates \in Nat
  BY MaskingAssumption DEF MaskInit
<1>3. DOMAIN currentConfig = Parts /\ \A p \in Parts : currentConfig[p] \in PartValues(p)
  BY <1>2, PartFacts
<1>4. LogOK
  BY <1>1 DEF LogOK, LogPcs
<1>5. UpdatesOK
  <2>1. upd.pc = "idle" /\ upd.left = {}
    BY <1>2 DEF Idle
  <2>2. updates \in 0..MaxUpdates /\ longStrRegexMux \in {"free", "held"}
    BY <1>2
  <2>3. upd.left \subseteq Parts /\ upd.pc \in {"idle", "copy", "compile"}
    BY <2>1
  <2>4. tooLong \in BOOLEAN
    BY <1>2, Zenon
  <2> QED BY <1>3, <2>2, <2>3, <2>4 DEF UpdatesOK
<1>6. TextsOK
  BY <1>1 DEF TextsOK, NothingLogged
<1>7. MaskedParts
  BY <1>1, <1>2, <1>3, FS_EmptySet DEF MaskedParts, Idle, Parts
<1>8. LogInv
  BY <1>1 DEF LogInv, MaskedKinds, Intact, HiddenInv, ContentInv, KeptInv, LengthInv, Pending,
              NothingLogged
<1> QED BY <1>4, <1>5, <1>6, <1>7, <1>8, MaskParts

LEMMA MaskSteps == MaskInv /\ [MaskNext]_maskVars => MaskInv'
<1> SUFFICES ASSUME MaskInv, [MaskNext]_maskVars PROVE MaskInv'
  OBVIOUS
<1>1. ASSUME NEW c \in Configs, StartUpdate(c) PROVE MaskInv'
  BY <1>1, StartUpdateKeeps
<1>2. ASSUME NEW v \in Values, Begin(v) PROVE MaskInv'
  BY <1>2, BeginKeeps
<1>3. CASE UpdateStep
  BY <1>3, CopyPartKeeps, UpdateEndKeeps DEF UpdateStep
<1>4. CASE LogStep
  <2>1. CASE LogMoves
    BY <2>1, MovesKeep
  <2>2. CASE FindField
    BY <2>2, FindFieldKeeps
  <2>3. ASSUME NEW l \in todo, WalkLeaf(l) PROVE MaskInv'
    BY <2>3, WalkKeeps
  <2>4. CASE Truncate
    BY <2>4, TruncateKeeps
  <2>5. CASE Content
    BY <2>5, ContentKeeps
  <2>6. ASSUME NEW l \in todo, NextPair(l) PROVE MaskInv'
    BY <2>6, NextPairKeeps
  <2>7. CASE CutPair
    BY <2>7, CutPairKeeps
  <2>8. CASE MaskPair
    BY <2>8, MaskPairKeeps
  <2>9. CASE Written
    BY <2>9, WrittenKeeps
  <2> QED BY <1>4, <2>1, <2>2, <2>3, <2>4, <2>5, <2>6, <2>7, <2>8, <2>9 DEF LogStep, LogMoves
<1>5. CASE UNCHANGED maskVars
  <2>1. UNCHANGED <<logVars, currentConfig, updVars, seen, maskPc, longStrRegexMux, upd,
                    updates, tooLong>>
    BY <1>5 DEF maskVars, updVars, logVars
  <2>2. UpdatesOK /\ MaskedParts
    BY MaskParts
  <2>3. UpdatesOK' /\ MaskedParts'
    BY <2>1, <2>2 DEF UpdatesOK, MaskedParts, PartValues
  <2> QED BY <2>1, <2>3, SeenGrows
<1> QED BY <1>1, <1>2, <1>3, <1>4, <1>5 DEF MaskNext

LEMMA MaskInvariant == MaskSpec => []MaskInv
<1> QED BY MaskStarts, MaskSteps, PTL DEF MaskSpec

-----------------------------------------------------------------------------
(* What the invariant says of a text that was logged.                       *)

LEMMA NamedHidden == MaskInv => NamedAreHidden
<1> SUFFICES ASSUME MaskInv PROVE NamedAreHidden
  OBVIOUS
<1>1. LogOK /\ UpdatesOK /\ TextsOK /\ MaskedParts /\ LogInv
  BY MaskParts
<1>2. MaskTypeOK
  BY DEF MaskInv
<1>3. ASSUME maskPc = "done", NEW l \in DOMAIN maskText,
             \A rules \in seen.fields : NamedBy(l, rules)
      PROVE  \E rules \in seen.fields : HiddenBy(l, Len(value.leaves[l]), maskText[l], rules)
  <2>1. LookedAt(l, value.leaves[l], maskText[l], seen.fields)
    BY <1>1, <1>3 DEF LogInv, HiddenInv, Pending
  <2> QED BY <1>3, <2>1 DEF LookedAt
<1>4. MasksHide
  BY <1>3 DEF MasksHide, HiddenBy
<1> QED BY <1>2, <1>4 DEF NamedAreHidden

LEMMA ContentHidden == MaskInv => RunsAreHidden
<1> SUFFICES ASSUME MaskInv, maskPc = "done", value.kind \in {"message", "plain"},
                    Cardinality(seen.content) = 1,
                    NEW l \in DOMAIN maskText, NEW rules \in seen.content,
                    \A fields \in seen.fields : ~ NamedBy(l, fields),
                    NEW i \in DOMAIN rules, NEW r \in Covered(rules[i], value.leaves[l]),
                    Hides(rules[i])
             PROVE  \E k \in r[1]..r[2] :
                      value.leaves[l][k] \notin {maskText[l][j] : j \in DOMAIN maskText[l]}
  BY DEF RunsAreHidden
<1>1. LogOK /\ UpdatesOK /\ TextsOK /\ MaskedParts /\ LogInv
  BY MaskParts
<1>2. RulesApplied(l, value.leaves[l], maskText[l], seen.fields, seen.content)
  BY <1>1 DEF LogInv, ContentInv
<1>3. PICK applied \in seen.content : maskText[l] = DesensitizeText(value.leaves[l], applied)
  BY <1>2 DEF RulesApplied
<1>4. applied = rules
  <2>1. IsFiniteSet(seen.content)
    BY <1>1 DEF MaskedParts
  <2>2. ~ (Cardinality(seen.content) > 1)
    OBVIOUS
  <2> QED BY <2>1, <2>2, <1>3, TwoElements
<1>5. IsRules(rules)
  BY <1>1, PartFacts DEF MaskedParts, Parts
<1>6. IsText(value.leaves[l])
  BY <1>1, LeafFacts DEF LogOK, TextsOK
<1>7. PICK leaf : leaf = value.leaves[l]
  OBVIOUS
<1>8. \E k \in r[1]..r[2] :
        leaf[k] \notin {DesensitizeText(leaf, rules)[j] : j \in DOMAIN DesensitizeText(leaf, rules)}
  BY <1>5, <1>6, <1>7, TextHides
<1> QED BY <1>3, <1>4, <1>7, <1>8

LEMMA OthersStay == MaskInv => OthersKept
<1> SUFFICES ASSUME MaskInv, maskPc = "done", NEW l \in DOMAIN maskText,
                    \A rules \in seen.fields : ~ NamedBy(l, rules),
                    \A rules \in seen.content :
                      \A i \in DOMAIN rules : Covered(rules[i], value.leaves[l]) = {},
                    \A n \in seen.maxLength : n <= 0 \/ n >= Len(value.leaves[l]),
                    Cardinality(seen.maxLength) = 1
             PROVE  maskText[l] = value.leaves[l]
  BY DEF OthersKept
<1>1. MaskedParts /\ KeptInv
  BY DEF MaskInv
<1>2. \A n, k \in seen.maxLength : n = k
  <2>1. IsFiniteSet(seen.maxLength) /\ ~ (Cardinality(seen.maxLength) > 1)
    BY <1>1 DEF MaskedParts
  <2> QED BY <2>1, TwoElements
<1>3. Untouched(l, value.leaves[l], seen)
  BY <1>2 DEF Untouched
<1> QED BY <1>1, <1>3 DEF KeptInv

LEMMA PanicsOver == MaskInv => PanicsOverLength
<1> SUFFICES ASSUME MaskInv, NEW n \in seen.maxLength, NEW k \in seen.maxLength, n # k
             PROVE  Cardinality(seen.maxLength) > 1
  BY DEF MaskInv, LengthInv, PanicsOverLength
<1>1. IsFiniteSet(seen.maxLength)
  BY DEF MaskInv, MaskedParts
<1> QED BY <1>1, TwoElements

(* A value whose key a field rule names is never logged with more of its    *)
(* characters than one of the masks that were in force keeps: for all       *)
(* configurations, values and key spellings, and however often              *)
(* UpdateSensitiveConfig replaces the configuration meanwhile.              *)
THEOREM NamedStayHidden == MaskSpec => []NamedAreHidden
<1> QED BY MaskInvariant, NamedHidden, PTL

(* A run of digits in which a content rule's pattern matches is never logged *)
(* whole in a message or plain field, whichever rules come before and after *)
(* that one and however they mask; and what no rule concerns, and no        *)
(* pattern matches, is logged as it came                                    *)
(* (DesensitizeText, walkAndMask, walkAndTruncate, DesensitizeQuery).       *)
THEOREM ContentStaysHidden == MaskSpec => []ContentIsHidden
<1>1. MaskInv => ContentIsHidden
  BY ContentHidden, OthersStay DEF ContentIsHidden
<1> QED BY <1>1, MaskInvariant, PTL

(* The goroutine that logs panics only over a MaxLength of 1 or 2, or one   *)
(* that UpdateSensitiveConfig changed between two reads of it.              *)
THEOREM PanicsAreOverLength == MaskSpec => []PanicsOverLength
<1> QED BY MaskInvariant, PanicsOver, PTL

-----------------------------------------------------------------------------
(* Secrets: passes over a text.                                             *)

Flattens(f, g) ==
  /\ FlattenSeq(f) = IF Len(f) = 0 THEN f ELSE g[Len(f)]
  /\ \A i \in 1..Len(f) : g[i] = IF i = 1 THEN f[i] ELSE g[i - 1] \o f[i]

\* The recursion of FlattenSeq has a solution.
LEMMA FlattenEquation ==
  ASSUME NEW f, Len(f) \in Nat
  PROVE  \E g : Flattens(f, g)
<1>0. PICK L \in Nat : L = Len(f)
  OBVIOUS
<1> DEFINE Solves(g) == g = [i \in 1..Len(f) |-> IF i = 1 THEN f[i] ELSE g[i - 1] \o f[i]]
           Holds(g, k) == \A i \in 1..k : g[i] = IF i = 1 THEN f[i] ELSE g[i - 1] \o f[i]
           T == {k \in Nat : \E g : Holds(g, k)}
<1>1. 0 \in T
  OBVIOUS
<1>2. ASSUME NEW k \in Nat, k \in T PROVE k + 1 \in T
  <2>1. PICK g : Holds(g, k)
    BY <1>2
  <2> DEFINE h == [i \in 1..(k + 1) |-> IF i <= k THEN g[i] ELSE IF i = 1 THEN f[i] ELSE g[k] \o f[i]]
  <2>2. ASSUME NEW i \in 1..(k + 1) PROVE h[i] = IF i = 1 THEN f[i] ELSE h[i - 1] \o f[i]
    <3>1. CASE i <= k
      <4>1. i \in 1..k /\ h[i] = g[i]
        BY <3>1
      <4>2. i # 1 => i - 1 \in 1..(k + 1) /\ i - 1 <= k
        OBVIOUS
      <4>3. i # 1 => h[i - 1] = g[i - 1]
        BY <4>2
      <4> QED BY <2>1, <4>1, <4>3
    <3>2. CASE ~ (i <= k)
      <4>1. i = k + 1 /\ h[i] = IF i = 1 THEN f[i] ELSE g[k] \o f[i]
        BY <3>2
      <4>2. i # 1 => i - 1 = k /\ k \in 1..(k + 1) /\ k <= k
        BY <4>1
      <4>3. i # 1 => h[i - 1] = g[k]
        BY <4>2
      <4> QED BY <4>1, <4>3
    <3> QED BY <3>1, <3>2
  <2> HIDE DEF h
  <2> QED BY <2>2
<1>3. L \in T
  <2> HIDE DEF T
  <2> QED BY <1>1, <1>2, SetInduction
<1>4. PICK g : Holds(g, L)
  BY <1>3
<1> DEFINE h == [i \in 1..L |-> g[i]]
<1>5. Solves(h)
  <2>1. ASSUME NEW i \in 1..L PROVE h[i] = IF i = 1 THEN f[i] ELSE h[i - 1] \o f[i]
    <3>1. i # 1 => i - 1 \in 1..L
      OBVIOUS
    <3>2. h[i] = g[i] /\ (i # 1 => h[i - 1] = g[i - 1])
      BY <3>1
    <3> HIDE DEF h
    <3> QED BY <1>4, <3>2
  <2>2. h = [i \in 1..L |-> h[i]]
    OBVIOUS
  <2> HIDE DEF h
  <2> QED BY <1>0, <2>1, <2>2
<1> DEFINE c == CHOOSE g1 : Solves(g1)
<1>6. FlattenSeq(f) = IF Len(f) = 0 THEN f ELSE c[Len(f)]
  BY DEF FlattenSeq
<1>7. Solves(c)
  <2> HIDE DEF h
  <2> QED BY <1>5
<1> HIDE DEF c
<1>8. Flattens(f, c)
  <2>1. \A i \in 1..Len(f) : c[i] = IF i = 1 THEN f[i] ELSE c[i - 1] \o f[i]
    BY <1>7
  <2> QED BY <1>6, <2>1 DEF Flattens
<1> QED BY <1>8

\* What is joined from texts of some parts has no others.
LEMMA FlatIn ==
  ASSUME NEW S, NEW f, Len(f) \in Nat, Len(f) = 0 => f = <<>>,
         \A i \in 1..Len(f) : f[i] \in Seq(S)
  PROVE  FlattenSeq(f) \in Seq(S)
<1>1. PICK g : Flattens(f, g)
  BY FlattenEquation
<1> DEFINE T == {k \in Nat : k \in 1..Len(f) => g[k] \in Seq(S)}
<1>2. 0 \in T
  OBVIOUS
<1>3. ASSUME NEW k \in Nat, k \in T PROVE k + 1 \in T
  <2> SUFFICES ASSUME k + 1 \in 1..Len(f) PROVE g[k + 1] \in Seq(S)
    OBVIOUS
  <2>1. f[k + 1] \in Seq(S)
    OBVIOUS
  <2>2. CASE k = 0
    BY <1>1, <2>1, <2>2 DEF Flattens
  <2>3. CASE k # 0
    <3>1. k \in 1..Len(f) /\ (k + 1) - 1 = k /\ k + 1 # 1
      BY <2>3
    <3>2. g[k] \in Seq(S)
      BY <1>3, <3>1
    <3>3. g[k + 1] = g[k] \o f[k + 1]
      BY <1>1, <3>1 DEF Flattens
    <3>4. g[k] \o f[k + 1] \in Seq(S)
      BY <2>1, <3>2
    <3> QED BY <3>3, <3>4
  <2> QED BY <2>2, <2>3
<1>4. \A k \in Nat : k \in T
  <2> HIDE DEF T
  <2> QED BY <1>2, <1>3, SetInduction
<1>5. CASE Len(f) = 0
  <2>1. FlattenSeq(f) = <<>>
    BY <1>1, <1>5 DEF Flattens
  <2> QED BY <2>1
<1>6. CASE Len(f) # 0
  <2>1. Len(f) \in 1..Len(f) /\ Len(f) \in T
    BY <1>4, <1>6
  <2>2. FlattenSeq(f) = g[Len(f)]
    BY <1>1, <1>6 DEF Flattens
  <2> QED BY <2>1, <2>2
<1> QED BY <1>5, <1>6

\* What is joined from the parts of a text is that text.
LEMMA FlatSame ==
  ASSUME NEW S, NEW t \in Seq(S), NEW f, Len(f) = Len(t), Len(f) = 0 => f = <<>>,
         \A i \in 1..Len(t) : f[i] = <<t[i]>>
  PROVE  FlattenSeq(f) = t
<1>0. Len(t) \in Nat /\ Len(f) \in Nat
  OBVIOUS
<1>1. PICK g : Flattens(f, g)
  BY <1>0, FlattenEquation
<1> DEFINE T == {k \in Nat : k \in 1..Len(f) => g[k] = SubSeq(t, 1, k)}
<1>2. 0 \in T
  OBVIOUS
<1>3. ASSUME NEW k \in Nat, k \in T PROVE k + 1 \in T
  <2> SUFFICES ASSUME k + 1 \in 1..Len(f) PROVE g[k + 1] = SubSeq(t, 1, k + 1)
    OBVIOUS
  <2>1. 1 \in 1..Len(t) /\ k + 1 \in 1..Len(t) /\ (k + 1) - 1 = k
    BY <1>0
  <2>2. SubSeq(t, 1, k + 1) = SubSeq(t, 1, k) \o <<t[k + 1]>>
    BY <2>1, SubSeqRecursiveSecond
  <2>3. CASE k = 0
    <3>1. g[1] = <<t[1]>>
      BY <1>1, <2>1, <2>3 DEF Flattens
    <3>2. SubSeq(t, 1, 0) = <<>> /\ <<>> \o <<t[1]>> = <<t[1]>>
      OBVIOUS
    <3> QED BY <2>2, <2>3, <3>1, <3>2
  <2>4. CASE k # 0
    <3>1. k \in 1..Len(f) /\ k + 1 # 1
      BY <1>0, <2>4
    <3>2. g[k] = SubSeq(t, 1, k)
      BY <1>3, <3>1
    <3>3. g[k + 1] = g[k] \o f[k + 1]
      BY <1>1, <2>1, <3>1 DEF Flattens
    <3> QED BY <2>1, <2>2, <3>2, <3>3
  <2> QED BY <2>3, <2>4
<1>4. \A k \in Nat : k \in T
  <2> HIDE DEF T
  <2> QED BY <1>2, <1>3, SetInduction
<1>5. CASE Len(f) = 0
  <2>1. FlattenSeq(f) = f
    BY <1>1, <1>5 DEF Flattens
  <2>2. t = <<>>
    BY <1>5, EmptySeq
  <2> QED BY <1>5, <2>1, <2>2
<1>6. CASE Len(f) # 0
  <2>1. Len(f) \in 1..Len(f) /\ Len(f) \in T
    BY <1>0, <1>4, <1>6
  <2>2. FlattenSeq(f) = g[Len(f)]
    BY <1>1, <1>6 DEF Flattens
  <2>3. SubSeq(t, 1, Len(t)) = t
    BY SubSeqFull
  <2> QED BY <2>1, <2>2, <2>3
<1> QED BY <1>5, <1>6

LEMMA Associates ==
  \A S : \A x, y, z \in Seq(S) : (x \o y) \o z = x \o (y \o z)
<1> SUFFICES ASSUME NEW S, NEW x \in Seq(S), NEW y \in Seq(S), NEW z \in Seq(S)
             PROVE  (x \o y) \o z = x \o (y \o z)
  OBVIOUS
<1>1. ((x \o y) \o z) \in Seq(S) /\ (x \o (y \o z)) \in Seq(S)
  OBVIOUS
<1>2. Len((x \o y) \o z) = Len(x \o (y \o z))
  OBVIOUS
<1>3. \A i \in 1..Len((x \o y) \o z) : ((x \o y) \o z)[i] = (x \o (y \o z))[i]
  OBVIOUS
<1> QED BY <1>1, <1>2, <1>3, SeqEqual

LEMMA OneMore ==
  \A S : \A a, b \in Seq(S) : \A j \in Nat : j + 1 \in 1..Len(b) =>
    a \o SubSeq(b, 1, j + 1) = (a \o SubSeq(b, 1, j)) \o <<b[j + 1]>>
<1> SUFFICES ASSUME NEW S, NEW a \in Seq(S), NEW b \in Seq(S), NEW j \in Nat, j + 1 \in 1..Len(b)
             PROVE  a \o SubSeq(b, 1, j + 1) = (a \o SubSeq(b, 1, j)) \o <<b[j + 1]>>
  OBVIOUS
<1>1. PICK n : n = j + 1
  OBVIOUS
<1>2. n \in 1..Len(b) /\ 1 \in 1..Len(b) /\ n - 1 = j
  BY <1>1
<1>3. SubSeq(b, 1, n) = SubSeq(b, 1, n - 1) \o <<b[n]>>
  BY <1>2, SubSeqRecursiveSecond
<1>4. PICK y, z : y = SubSeq(b, 1, j) /\ z = <<b[n]>>
  OBVIOUS
<1>5. y \in Seq(S) /\ z \in Seq(S)
  BY <1>2, <1>4
<1>6. a \o (y \o z) = (a \o y) \o z
  BY <1>5, Associates
<1> QED BY <1>1, <1>2, <1>3, <1>4, <1>6

\* One part of a text gives way to others.
Replaces(f, a, s, b) ==
  /\ Len(f) = Len(a) + 1 + Len(b)
  /\ \A i \in 1..Len(a) : f[i] = <<a[i]>>
  /\ f[Len(a) + 1] = s
  /\ \A i \in 1..Len(b) : f[Len(a) + 1 + i] = <<b[i]>>

LEMMA FlatOne ==
  ASSUME NEW S, NEW a \in Seq(S), NEW s \in Seq(S), NEW b \in Seq(S), NEW f,
         Replaces(f, a, s, b)
  PROVE  FlattenSeq(f) = a \o s \o b
<1>0. PICK A \in Nat, B \in Nat : A = Len(a) /\ B = Len(b) /\ Len(f) = A + 1 + B
  <2>1. Len(a) \in Nat /\ Len(b) \in Nat
    OBVIOUS
  <2> QED BY <2>1 DEF Replaces
<1>1. PICK g : Flattens(f, g)
  BY <1>0, FlattenEquation
<1> DEFINE G(k) == IF k <= A THEN SubSeq(a, 1, k) ELSE (a \o s) \o SubSeq(b, 1, k - (A + 1))
           T == {k \in Nat : k \in 1..(A + 1 + B) => g[k] = G(k)}
<1>2. 0 \in T
  OBVIOUS
<1>3. ASSUME NEW k \in Nat, k \in T PROVE k + 1 \in T
  <2> SUFFICES ASSUME k + 1 \in 1..(A + 1 + B) PROVE g[k + 1] = G(k + 1)
    OBVIOUS
  <2>1. /\ k = 0 => g[k + 1] = f[k + 1]
        /\ k # 0 => g[k] = G(k) /\ g[k + 1] = g[k] \o f[k + 1]
    <3>1. k = 0 => g[k + 1] = f[k + 1]
      BY <1>0, <1>1 DEF Flattens
    <3>2. k # 0 => k \in 1..(A + 1 + B) /\ (k + 1) - 1 = k /\ k + 1 # 1
      OBVIOUS
    <3>3. k # 0 => g[k + 1] = g[k] \o f[k + 1]
      BY <1>0, <1>1, <3>2 DEF Flattens
    <3> QED BY <1>3, <3>1, <3>2, <3>3
  <2>2. SubSeq(a, 1, 0) = <<>> /\ SubSeq(a, 1, A) = a /\ SubSeq(b, 1, 0) = <<>>
    BY <1>0, SubSeqFull, SubSeqEmpty
  <2>3. \A q \in Seq(S) : <<>> \o q = q /\ q \o <<>> = q
    BY ConcatEmptySeq
  <2>4. CASE k + 1 <= A
    <3>1. k + 1 \in 1..Len(a) /\ 1 \in 1..Len(a) /\ (k + 1) - 1 = k
      BY <1>0, <2>4
    <3>2. SubSeq(a, 1, k + 1) = SubSeq(a, 1, k) \o <<a[k + 1]>>
      BY <3>1, SubSeqRecursiveSecond
    <3>3. <<a[k + 1]>> \in Seq(S) /\ f[k + 1] = <<a[k + 1]>>
      BY <3>1 DEF Replaces
    <3>4. k # 0 => G(k) = SubSeq(a, 1, k)
      BY <2>4
    <3>5. G(k + 1) = SubSeq(a, 1, k + 1)
      BY <2>4
    <3> HIDE DEF G
    <3>6. CASE k = 0
      <4>1. SubSeq(a, 1, k) = <<>>
        BY <2>2, <3>6
      <4>2. SubSeq(a, 1, k + 1) = <<a[k + 1]>>
        BY <2>3, <3>2, <3>3, <4>1
      <4> QED BY <2>1, <3>3, <3>5, <3>6, <4>2
    <3>7. CASE k # 0
      BY <2>1, <3>2, <3>3, <3>4, <3>5, <3>7
    <3> QED BY <3>6, <3>7
  <2>5. CASE k + 1 = A + 1
    <3>1. k = A /\ f[k + 1] = s /\ (k + 1) - (A + 1) = 0
      BY <1>0, <2>5 DEF Replaces
    <3>2. a \o s \in Seq(S)
      OBVIOUS
    <3>3. G(k + 1) = (a \o s) \o SubSeq(b, 1, 0)
      <4>1. ~ (k + 1 <= A)
        BY <1>0, <3>1
      <4> QED BY <3>1, <4>1
    <3>4. k # 0 => G(k) = a
      BY <2>2, <3>1
    <3> HIDE DEF G
    <3>5. G(k + 1) = a \o s
      BY <2>2, <2>3, <3>2, <3>3
    <3>6. CASE k = 0
      <4>1. a = <<>>
        BY <1>0, <3>1, <3>6, EmptySeq
      <4> QED BY <2>1, <2>3, <3>1, <3>5, <3>6, <4>1
    <3>7. CASE k # 0
      BY <2>1, <3>1, <3>4, <3>5, <3>7
    <3> QED BY <3>6, <3>7
  <2>6. CASE k + 1 > A + 1
    <3>1. PICK j \in Nat : j = k - (A + 1)
      BY <2>6
    <3>2. k # 0 /\ k + 1 = Len(a) + 1 + (j + 1) /\ j + 1 \in 1..Len(b) /\ 1 \in 1..Len(b)
          /\ (k + 1) - (A + 1) = j + 1 /\ ~ (k <= A) /\ ~ (k + 1 <= A) /\ (j + 1) - 1 = j
      BY <1>0, <2>6, <3>1
    <3>3. f[k + 1] = <<b[j + 1]>> /\ <<b[j + 1]>> \in Seq(S)
      BY <3>2 DEF Replaces
    <3>5. G(k) = (a \o s) \o SubSeq(b, 1, j) /\ G(k + 1) = (a \o s) \o SubSeq(b, 1, j + 1)
      BY <3>1, <3>2
    <3>6. a \o s \in Seq(S) /\ SubSeq(b, 1, j) \in Seq(S)
      BY <3>2
    <3>7. PICK p \in Seq(S) : p = a \o s
      BY <3>6
    <3>8. p \o SubSeq(b, 1, j + 1) = (p \o SubSeq(b, 1, j)) \o <<b[j + 1]>>
      BY <3>2, OneMore
    <3> HIDE DEF G
    <3> QED BY <2>1, <3>2, <3>3, <3>5, <3>7, <3>8
  <2> QED BY <1>0, <2>4, <2>5, <2>6
<1>4. \A k \in Nat : k \in T
  <2> HIDE DEF T
  <2> QED BY <1>2, <1>3, SetInduction
<1>5. g[A + 1 + B] = (a \o s) \o SubSeq(b, 1, B)
  <2>1. A + 1 + B \in T /\ A + 1 + B \in 1..(A + 1 + B) /\ ~ (A + 1 + B <= A)
        /\ A + 1 + B - (A + 1) = B
    BY <1>4
  <2> QED BY <2>1
<1>6. FlattenSeq(f) = g[A + 1 + B]
  BY <1>0, <1>1 DEF Flattens
<1>7. SubSeq(b, 1, B) = b
  BY <1>0, SubSeqFull
<1> QED BY <1>5, <1>6, <1>7

ExpandStep(e, t, g, i) ==
  IF i > Len(t) THEN <<>>
  ELSE IF t[i].kind = "var" THEN Setting(e, t[i].name, <<>>) \o g[i + 1]
  ELSE IF t[i].kind = "open" /\ FirstClose(t, i) > 0 /\ Default(t, i, FirstClose(t, i)) # <<>>
       THEN Setting(e, t[i].name, Default(t, i, FirstClose(t, i))) \o g[FirstClose(t, i) + 1]
       ELSE <<t[i]>> \o g[i + 1]

LEMMA CloseIsLater ==
  \A S : \A t \in Seq(S) : \A i \in 1..Len(t) :
    FirstClose(t, i) = 0 \/ FirstClose(t, i) \in (i + 1)..Len(t)
<1> SUFFICES ASSUME NEW S, NEW t \in Seq(S), NEW i \in 1..Len(t)
             PROVE  FirstClose(t, i) = 0 \/ FirstClose(t, i) \in (i + 1)..Len(t)
  OBVIOUS
<1> DEFINE ends == {j \in (i + 1)..Len(t) : t[j].kind \in {"close", "var"}}
<1>1. FirstClose(t, i) = IF ends = {} THEN 0
                         ELSE CHOOSE j \in ends : \A k \in ends : j <= k
  BY DEF FirstClose
<1>2. Len(t) \in Nat /\ ends \subseteq Nat /\ \A j \in ends : j \in (i + 1)..Len(t)
  OBVIOUS
<1> HIDE DEF ends
<1>3. CASE ends = {}
  BY <1>1, <1>2, <1>3
<1>4. CASE ends # {}
  <2>1. \E j \in ends : \A k \in ends : j <= k
    BY <1>2, <1>4, NatMin
  <2>2. (CHOOSE j \in ends : \A k \in ends : j <= k) \in ends
    BY <2>1
  <2> QED BY <1>1, <1>2, <1>4, <2>2
<1> QED BY <1>3, <1>4

\* The recursion has a solution: it goes to later places only.
LEMMA ExpandEquation ==
  ASSUME NEW S, NEW t \in Seq(S), NEW e
  PROVE  \E g : /\ ExpandEnv(e, t) = g[1]
                /\ \A i \in 1..(Len(t) + 1) : g[i] = ExpandStep(e, t, g, i)
<1>0. PICK N \in Nat : N = Len(t)
  OBVIOUS
<1> DEFINE Solves(g) == g = [i \in 1..(Len(t) + 1) |->
             IF i > Len(t) THEN <<>>
             ELSE IF t[i].kind = "var" THEN Setting(e, t[i].name, <<>>) \o g[i + 1]
             ELSE LET j == FirstClose(t, i)
                  IN IF t[i].kind = "open" /\ j > 0 /\ Default(t, i, j) # <<>>
                     THEN Setting(e, t[i].name, Default(t, i, j)) \o g[j + 1]
                     ELSE <<t[i]>> \o g[i + 1]]
           Holds(g, a) == \A i \in 1..(N + 1) : a <= i => g[i] = ExpandStep(e, t, g, i)
           T == {a \in 1..(N + 1) : \E g : Holds(g, a)}
<1>1. ASSUME NEW g, NEW h, NEW i \in 1..(N + 1), \A j \in 1..(N + 1) : i < j => g[j] = h[j]
      PROVE  ExpandStep(e, t, g, i) = ExpandStep(e, t, h, i)
  <2>1. CASE i > Len(t)
    BY <2>1 DEF ExpandStep
  <2>2. CASE ~ (i > Len(t))
    <3>1. i \in 1..Len(t)
      BY <1>0, <2>2
    <3>2. PICK n : n = FirstClose(t, i)
      OBVIOUS
    <3>3. n = 0 \/ n \in (i + 1)..N
      BY <1>0, <3>1, <3>2, CloseIsLater
    <3>4. i + 1 \in 1..(N + 1) /\ i < i + 1 /\ g[i + 1] = h[i + 1]
      BY <1>0, <1>1, <3>1
    <3>5. n > 0 => n + 1 \in 1..(N + 1) /\ i < n + 1
      BY <3>3
    <3>6. n > 0 => g[n + 1] = h[n + 1]
      BY <1>1, <3>5
    <3> QED BY <3>2, <3>4, <3>6 DEF ExpandStep
  <2> QED BY <2>1, <2>2
<1>2. ASSUME NEW a \in 1..(N + 1), \A b \in 1..(N + 1) : a < b => b \in T
      PROVE  a \in T
  <2>1. \E g : \A i \in 1..(N + 1) : a < i => g[i] = ExpandStep(e, t, g, i)
    <3>1. CASE a = N + 1
      BY <3>1
    <3>2. CASE a # N + 1
      <4>1. a + 1 \in T /\ \A i \in 1..(N + 1) : a < i => a + 1 <= i
        BY <1>2, <3>2
      <4> QED BY <4>1
    <3> QED BY <3>1, <3>2
  <2>2. PICK g : \A i \in 1..(N + 1) : a < i => g[i] = ExpandStep(e, t, g, i)
    BY <2>1
  <2> DEFINE h == [i \in 1..(N + 1) |-> ExpandStep(e, t, g, i)]
  <2>3. \A j \in 1..(N + 1) : a < j => g[j] = h[j]
    BY <2>2
  <2>4. ASSUME NEW i \in 1..(N + 1), a <= i
        PROVE  h[i] = ExpandStep(e, t, h, i)
    <3>1. \A j \in 1..(N + 1) : i < j => g[j] = h[j]
      BY <2>3, <2>4
    <3>2. h[i] = ExpandStep(e, t, g, i)
      OBVIOUS
    <3> HIDE DEF h
    <3> QED BY <1>1, <3>1, <3>2
  <2> HIDE DEF h
  <2> QED BY <2>4
<1>3. 1 \in T
  <2> HIDE DEF T
  <2>1. \A a \in 1..(N + 1) : a \in T
    BY <1>2, Downward
  <2> QED BY <2>1
<1>4. PICK g : \A i \in 1..(N + 1) : g[i] = ExpandStep(e, t, g, i)
  BY <1>3
<1> DEFINE h == [i \in 1..(N + 1) |-> ExpandStep(e, t, g, i)]
<1>5. \A i \in 1..(N + 1) : h[i] = ExpandStep(e, t, h, i)
  <2>1. \A j \in 1..(N + 1) : g[j] = h[j]
    BY <1>4
  <2>2. \A i \in 1..(N + 1) : h[i] = ExpandStep(e, t, g, i)
    OBVIOUS
  <2> HIDE DEF h
  <2> QED BY <1>1, <2>1, <2>2
<1>6. h = [i \in 1..(N + 1) |-> h[i]]
  OBVIOUS
<1> HIDE DEF h
<1>7. Solves(h)
  <2>1. h = [i \in 1..(N + 1) |-> ExpandStep(e, t, h, i)]
    BY <1>5, <1>6
  <2> QED BY <1>0, <2>1 DEF ExpandStep
<1> DEFINE f == CHOOSE g1 : Solves(g1)
<1>8. ExpandEnv(e, t) = f[1]
  BY DEF ExpandEnv
<1>9. Solves(f)
  BY <1>7
<1> HIDE DEF f
<1>10. \A i \in 1..(Len(t) + 1) : f[i] = ExpandStep(e, t, f, i)
  BY <1>9 DEF ExpandStep
<1> QED BY <1>8, <1>10

Cut(part) == Part("cut", part.name, <<>>)

LEMMA DefaultIn ==
  ASSUME NEW S, NEW t \in Seq(S), NEW i \in 1..Len(t), NEW n \in (i + 1)..Len(t),
         t[n].kind = "var" => Cut(t[n]) \in S
  PROVE  Default(t, i, n) \in Seq(S)
<1>1. SubSeq(t, i + 1, n - 1) \in Seq(S)
  <2>1. Len(t) \in Nat /\ \A k \in (i + 1)..(n - 1) : k \in 1..Len(t)
    OBVIOUS
  <2> QED BY <2>1
<1>2. \A x, y \in Seq(S) : x \o y \in Seq(S)
  OBVIOUS
<1>3. <<>> \in Seq(S)
  OBVIOUS
<1>4. t[n].kind = "var" => <<Cut(t[n])>> \in Seq(S)
  OBVIOUS
<1>5. CASE t[n].kind = "var"
  <2>1. Default(t, i, n) = SubSeq(t, i + 1, n - 1) \o <<Cut(t[n])>>
    BY <1>5 DEF Default, Cut
  <2> QED BY <1>1, <1>2, <1>4, <1>5, <2>1
<1>6. CASE t[n].kind # "var"
  <2>1. Default(t, i, n) = SubSeq(t, i + 1, n - 1) \o <<>>
    BY <1>6 DEF Default
  <2> QED BY <1>1, <1>2, <1>3, <2>1
<1> QED BY <1>5, <1>6

\* The variables bring parts of their values only, and keep those of their
\* defaults.
LEMMA ExpandIn ==
  ASSUME NEW S, NEW t \in Seq(S), NEW e,
         \A i \in 1..Len(t) : /\ t[i].kind \in {"var", "open"} => e[t[i].name] \in Seq(S)
                              /\ t[i].kind = "var" => Cut(t[i]) \in S
  PROVE  ExpandEnv(e, t) \in Seq(S)
<1>0. PICK N \in Nat : N = Len(t)
  OBVIOUS
<1>1. PICK g : /\ ExpandEnv(e, t) = g[1]
               /\ \A i \in 1..(Len(t) + 1) : g[i] = ExpandStep(e, t, g, i)
  BY ExpandEquation
<1> DEFINE T == {i \in 1..(N + 1) : g[i] \in Seq(S)}
<1>2. ASSUME NEW i \in 1..(N + 1), \A j \in 1..(N + 1) : i < j => j \in T
      PROVE  i \in T
  <2>1. CASE i = N + 1
    <3>1. i \in 1..(Len(t) + 1) /\ i > Len(t)
      BY <1>0, <2>1
    <3>2. g[i] = ExpandStep(e, t, g, i)
      BY <1>1, <3>1
    <3>3. g[i] = <<>>
      BY <3>1, <3>2 DEF ExpandStep
    <3>4. <<>> \in Seq(S)
      OBVIOUS
    <3> QED BY <3>3, <3>4
  <2>2. CASE i # N + 1
    <3>1. i \in 1..Len(t) /\ i + 1 \in 1..(N + 1) /\ i < i + 1
      BY <1>0, <2>2
    <3>2. g[i + 1] \in Seq(S)
      BY <1>2, <3>1
    <3>3. PICK n : n = FirstClose(t, i)
      OBVIOUS
    <3>4. n = 0 \/ n \in (i + 1)..N
      BY <1>0, <3>1, <3>3, CloseIsLater
    <3>5. n > 0 => g[n + 1] \in Seq(S)
      <4>1. n > 0 => n + 1 \in 1..(N + 1) /\ i < n + 1
        BY <3>4
      <4> QED BY <1>2, <4>1
    <3>6. n > 0 => Default(t, i, n) \in Seq(S)
      <4>1. n > 0 => n \in (i + 1)..Len(t) /\ n \in 1..Len(t)
        BY <1>0, <3>1, <3>4
      <4> QED BY <3>1, <4>1, DefaultIn
    <3>7. \A d \in Seq(S) : t[i].kind \in {"var", "open"} => Setting(e, t[i].name, d) \in Seq(S)
      BY <3>1 DEF Setting
    <3>8. <<t[i]>> \in Seq(S) /\ <<>> \in Seq(S)
      BY <3>1
    <3>9. \A x, y \in Seq(S) : x \o y \in Seq(S)
      OBVIOUS
    <3>10. g[i] = ExpandStep(e, t, g, i) /\ ~ (i > Len(t))
      BY <1>0, <1>1, <3>1
    <3>11. CASE t[i].kind = "var"
      <4>1. g[i] = Setting(e, t[i].name, <<>>) \o g[i + 1]
        BY <3>10, <3>11 DEF ExpandStep
      <4>2. Setting(e, t[i].name, <<>>) \in Seq(S)
        BY <3>7, <3>8, <3>11
      <4> QED BY <3>2, <3>9, <4>1, <4>2
    <3>12. CASE t[i].kind = "open" /\ n > 0 /\ Default(t, i, n) # <<>>
      <4>1. g[i] = Setting(e, t[i].name, Default(t, i, n)) \o g[n + 1]
        BY <3>3, <3>10, <3>12 DEF ExpandStep
      <4>2. Setting(e, t[i].name, Default(t, i, n)) \in Seq(S)
        BY <3>6, <3>7, <3>12
      <4> QED BY <3>5, <3>9, <3>12, <4>1, <4>2
    <3>13. CASE t[i].kind # "var" /\ ~ (t[i].kind = "open" /\ n > 0 /\ Default(t, i, n) # <<>>)
      <4>1. g[i] = <<t[i]>> \o g[i + 1]
        BY <3>3, <3>10, <3>13 DEF ExpandStep
      <4> QED BY <3>2, <3>8, <3>9, <4>1
    <3> QED BY <3>11, <3>12, <3>13
  <2> QED BY <2>1, <2>2
<1>3. 1 \in T
  <2> HIDE DEF T
  <2>1. \A i \in 1..(N + 1) : i \in T
    BY <1>2, Downward
  <2> QED BY <2>1
<1> QED BY <1>1, <1>3

-----------------------------------------------------------------------------
(* Secrets: what a pass does to a text.                                     *)

PassOver(t, type, own, chance) ==
  FlattenSeq([i \in 1..Len(t) |-> Unwrapped(t[i], type, own, chance)])

IsSequence(t) == \E S : t \in Seq(S)

\* A part that holds nothing, or a secret without a meaning of its own.
Tame(part, names) ==
  /\ part.kind \in Types => IsSequence(part.inner) /\ Plain(part.inner)
  /\ part.kind \in {"var", "open"} => part.name \in names

HeldIn(t, kinds, names) ==
  \E S : t \in Seq(S) /\ \A part \in S : Tame(part, names) /\ part.kind \notin kinds

Without(t, type) == \A i \in 1..Len(t) : t[i].kind # type

LEMMA PassSame ==
  ASSUME NEW S, NEW t \in Seq(S), NEW type, NEW name, NEW chance,
         Without(t, type)
  PROVE  PassOver(t, type, name, chance) = t
<1> DEFINE f == [i \in 1..Len(t) |-> Unwrapped(t[i], type, name, chance)]
<1>1. \A i \in 1..Len(t) : f[i] = <<t[i]>>
  BY DEF Unwrapped, Without
<1>2. f \in Seq(Seq(S)) /\ Len(f) = Len(t)
  <2>1. \A i \in 1..Len(t) : Unwrapped(t[i], type, name, chance) \in Seq(S)
    BY DEF Unwrapped, Without
  <2> QED BY <2>1
<1>3. FlattenSeq(f) = PassOver(t, type, name, chance)
  BY DEF PassOver
<1> HIDE DEF f
<1>4. Len(f) = 0 => f = <<>>
  BY <1>2, EmptySeq
<1> QED BY <1>1, <1>2, <1>3, <1>4, FlatSame

\* A wrapper of the pass's kind and key, between parts of other kinds.
HasOne(t, a, w, s, b, type, name) ==
  /\ IsSequence(a) /\ IsSequence(s) /\ IsSequence(b)
  /\ Without(a, type) /\ Without(b, type)
  /\ w.kind = type /\ w.name = name /\ w.inner = s
  /\ t = a \o <<w>> \o b

LEMMA PassOne ==
  ASSUME NEW t, NEW a, NEW w, NEW s, NEW b, NEW type, NEW name, NEW chance,
         HasOne(t, a, w, s, b, type, name)
  PROVE  PassOver(t, type, name, chance) = a \o s \o b
<1>0. /\ t = a \o <<w>> \o b
      /\ Without(a, type) /\ Without(b, type)
      /\ w.kind = type /\ w.name = name /\ w.inner = s
  BY DEF HasOne
<1>1. PICK S : a \in Seq(S) /\ s \in Seq(S) /\ b \in Seq(S) /\ w \in S
  <2>1. PICK A, B, C : a \in Seq(A) /\ s \in Seq(B) /\ b \in Seq(C)
    BY DEF HasOne, IsSequence
  <2>2. PICK S : S = A \cup B \cup C \cup {w}
    OBVIOUS
  <2>3. a \in Seq(S) /\ s \in Seq(S) /\ b \in Seq(S) /\ w \in S
    BY <2>1, <2>2
  <2> QED BY <2>3
<1>2. t \in Seq(S) /\ Len(t) = Len(a) + 1 + Len(b) /\ Len(a) \in Nat /\ Len(b) \in Nat
  BY <1>0, <1>1
<1>3. /\ \A i \in 1..Len(a) : t[i] = a[i]
      /\ t[Len(a) + 1] = w
      /\ \A i \in 1..Len(b) : t[Len(a) + 1 + i] = b[i]
  BY <1>0, <1>1
<1> DEFINE f == [i \in 1..Len(t) |-> Unwrapped(t[i], type, name, chance)]
<1>4. \A i \in 1..Len(t) : f[i] = Unwrapped(t[i], type, name, chance)
  OBVIOUS
<1>5. Len(f) = Len(t)
  OBVIOUS
<1>6. FlattenSeq(f) = PassOver(t, type, name, chance)
  BY DEF PassOver
<1> HIDE DEF f
<1>7. Replaces(f, a, s, b)
  <2>1. ASSUME NEW i \in 1..Len(a) PROVE f[i] = <<a[i]>>
    <3>1. i \in 1..Len(t)
      BY <1>2
    <3> QED BY <1>0, <1>3, <1>4, <3>1 DEF Unwrapped, Without
  <2>2. f[Len(a) + 1] = s
    <3>1. Len(a) + 1 \in 1..Len(t)
      BY <1>2
    <3> QED BY <1>0, <1>3, <1>4, <3>1 DEF Unwrapped, Without
  <2>3. ASSUME NEW i \in 1..Len(b) PROVE f[Len(a) + 1 + i] = <<b[i]>>
    <3>1. Len(a) + 1 + i \in 1..Len(t)
      BY <1>2
    <3> QED BY <1>0, <1>3, <1>4, <3>1 DEF Unwrapped, Without
  <2> QED BY <1>2, <1>5, <2>1, <2>2, <2>3 DEF Replaces
<1>8. FlattenSeq(f) = a \o s \o b
  BY <1>1, <1>7, FlatOne
<1> QED BY <1>6, <1>8

\* What a pass takes away is gone, and brings only words.
LEMMA PassHolds ==
  ASSUME NEW t, NEW kinds, NEW names, NEW type \in Types, NEW name, NEW chance,
         HeldIn(t, kinds, names), kinds \subseteq Types
  PROVE  HeldIn(PassOver(t, type, name, chance), kinds \cup {type}, names)
<1>1. PICK S : t \in Seq(S) /\ \A x \in S : Tame(x, names) /\ x.kind \notin kinds
  BY DEF HeldIn
<1> DEFINE B == S \cup {Part("cipher", x.name, x.inner) : x \in S} \cup {Word("?")}
                 \cup UNION {{x.inner[j] : j \in 1..Len(x.inner)} : x \in S}
           G == {x \in B : Tame(x, names) /\ x.kind \notin kinds \cup {type}}
           f == [i \in 1..Len(t) |-> Unwrapped(t[i], type, name, chance)]
<1>2. \A x : x.kind \in {"word", "cipher"} => Tame(x, names) /\ x.kind \notin kinds \cup {type}
  BY DEF Tame, Types
<1>3. ASSUME NEW x \in S PROVE Unwrapped(x, type, name, chance) \in Seq(G)
  <2>1. CASE x.kind # type
    <3>1. x \in G
      BY <1>1, <2>1
    <3>2. Unwrapped(x, type, name, chance) = <<x>>
      BY <2>1 DEF Unwrapped
    <3> HIDE DEF G
    <3> QED BY <3>1, <3>2
  <2>2. CASE x.kind = type /\ x.name = name
    <3>1. PICK Q : x.inner \in Seq(Q)
      BY <1>1, <2>2 DEF Tame, IsSequence
    <3>2. ASSUME NEW j \in 1..Len(x.inner) PROVE x.inner[j] \in G
      <4>1. x.inner[j].kind = "word"
        BY <1>1, <2>2 DEF Tame, Plain
      <4>2. x.inner[j] \in B
        OBVIOUS
      <4> QED BY <1>2, <4>1, <4>2
    <3>3. Unwrapped(x, type, name, chance) = x.inner
      BY <2>2 DEF Unwrapped
    <3> HIDE DEF G
    <3>4. x.inner \in Seq(G)
      <4>1. PICK u : u = x.inner
        OBVIOUS
      <4>2. u \in Seq(Q) /\ \A j \in 1..Len(u) : u[j] \in G
        BY <3>1, <3>2, <4>1
      <4>3. u \in Seq(G)
        BY <4>2
      <4> QED BY <4>1, <4>3
    <3> QED BY <3>3, <3>4
  <2>3. CASE x.kind = type /\ x.name # name
    <3>1. PICK c, d : c = Part("cipher", x.name, x.inner) /\ d = Word("?")
      OBVIOUS
    <3>2. c \in B /\ c.kind = "cipher" /\ d \in B /\ d.kind = "word"
      BY <3>1 DEF Part, Word
    <3>3. c \in G /\ d \in G
      BY <1>2, <3>2
    <3>4. Unwrapped(x, type, name, chance) = <<c>> \/ Unwrapped(x, type, name, chance) = <<d>>
      BY <2>3, <3>1 DEF Unwrapped
    <3> HIDE DEF G
    <3>5. <<c>> \in Seq(G) /\ <<d>> \in Seq(G)
      BY <3>3
    <3> QED BY <3>4, <3>5, Zenon
  <2> QED BY <2>1, <2>2, <2>3
<1>4. \A x \in G : Tame(x, names) /\ x.kind \notin kinds \cup {type}
  OBVIOUS
<1> HIDE DEF G
<1>5. \A i \in 1..Len(t) : f[i] \in Seq(G)
  BY <1>1, <1>3
<1>6. f \in Seq(Seq(G)) /\ Len(f) = Len(t) /\ Len(t) \in Nat
  <2>1. \A i \in 1..Len(t) : Unwrapped(t[i], type, name, chance) \in Seq(G)
    BY <1>1, <1>3
  <2>2. Len(t) \in Nat
    BY <1>1
  <2> QED BY <2>1, <2>2
<1>7. FlattenSeq(f) = PassOver(t, type, name, chance)
  BY DEF PassOver
<1> HIDE DEF f
<1>8. Len(f) = 0 => f = <<>>
  BY <1>6, EmptySeq
<1>9. FlattenSeq(f) \in Seq(G)
  BY <1>5, <1>6, <1>8, FlatIn
<1> QED BY <1>4, <1>7, <1>9 DEF HeldIn

-----------------------------------------------------------------------------
(* Secrets: the invariant.                                                   *)

\* What nothing changes, and where the configuration is.
SecretSettled ==
  /\ ownKeys \in OwnKeys /\ keys \in OwnKeys /\ env \in Settings /\ args \in Commands
  /\ IsSequence(secret)
  /\ secretPc \in {"command", "write", "DES3", "SM4", "expand", "read", "over"}
  /\ secretPc \in {"DES3", "SM4", "expand", "read"} => around \in Contexts

\* What was printed is the secret under a key of its cipher; a key that was
\* made has one size, whatever its labels.
PrintedIsWrapped ==
  /\ secretPc = "command" => printed = {}
  /\ secretPc \in {"write", "DES3", "SM4", "expand", "read"} => ownKeys[CipherOf] # ""
  /\ \A p \in printed : /\ p.text = Wrapped(secret)
                        /\ p.label # "value" => /\ p.label \in args.gen
                                                /\ secret = <<Word(ToString(NewKeySize))>>

\* Each pass leaves the secret's surroundings, and takes its wrapper.
Passing ==
  IF secretPc = "DES3" \/ (secretPc = "SM4" /\ CipherOf = "SM4") THEN Wrapped(secret) ELSE secret
SecretPasses ==
  /\ secretPc = "DES3" => configText = around[1] \o Wrapped(secret) \o around[2]
  /\ keys = ownKeys /\ Plain(secret) /\ Alone =>
       /\ secretPc \in {"SM4", "expand"} => configText = around[1] \o Passing \o around[2]
       /\ secretPc = "read" => configText = ExpandEnv(env, around[1] \o secret \o around[2])

\* The wrappers of the passes that are over are gone.
Cleared == {type \in Types : /\ keys[type] # ""
                             /\ secretPc = "expand" \/ (secretPc = "SM4" /\ type = "DES3")}
WrappersGo ==
  NoneNested =>
    /\ secretPc \in {"DES3", "SM4", "expand"} => HeldIn(configText, Cleared, DOMAIN env)
    /\ secretPc = "read" =>
         \E S : configText \in Seq(S) /\ \A x \in S : x.kind \in Types => keys[x.kind] = ""

SecretInv == SecretSettled /\ PrintedIsWrapped /\ SecretPasses /\ WrappersGo

LEMMA ListIsSequence == \A t : IsList(t) => IsSequence(t)
BY DEF IsList, IsSequence

LEMMA InnerIsKept ==
  \A type, name, inner : /\ Part(type, name, inner).kind = type
                         /\ Part(type, name, inner).name = name
                         /\ Part(type, name, inner).inner = inner
BY DEF Part

LEMMA SecretInvInit == SecretInit => SecretInv
<1> SUFFICES ASSUME SecretInit PROVE SecretInv
  OBVIOUS
<1>1. SecretSettled
  BY SecretsAssumption, ListIsSequence DEF SecretInit, SecretSettled
<1>2. secretPc = "command" /\ printed = {}
  BY DEF SecretInit
<1>3. PrintedIsWrapped /\ SecretPasses /\ WrappersGo
  BY <1>2 DEF PrintedIsWrapped, SecretPasses, WrappersGo
<1> QED BY <1>1, <1>3 DEF SecretInv

\* A surrounding text of the configuration, and what a wrapper holds.
Known(t, names) ==
  /\ IsSequence(t)
  /\ \A j \in 1..Len(t) : /\ IsSequence(t[j].inner)
                          /\ t[j].kind \in {"var", "open"} => t[j].name \in names

LEMMA AroundIsKnown ==
  \A c \in Contexts : \A e \in Settings : Known(c[1], DOMAIN e) /\ Known(c[2], DOMAIN e)
<1>1. ASSUME NEW c \in Contexts, NEW e \in Settings, NEW i \in {1, 2}
      PROVE  Known(c[i], DOMAIN e)
  <2>1. PICK t : t = c[i]
    OBVIOUS
  <2>2. /\ IsList(t)
        /\ \A j \in DOMAIN t :
             /\ IsList(t[j].inner)
             /\ t[j].kind \in {"var", "open"} => t[j].name \in DOMAIN e
    BY <2>1, SecretsAssumption
  <2>3. DOMAIN t = 1..Len(t)
    BY <2>2 DEF IsList
  <2> QED BY <2>1, <2>2, <2>3, ListIsSequence DEF Known
<1> QED BY <1>1

LEMMA OneIsSequence ==
  \A w : IsSequence(<<w>>)
<1> SUFFICES ASSUME NEW w PROVE IsSequence(<<w>>)
  OBVIOUS
<1>1. <<w>> \in Seq({w})
  OBVIOUS
<1> QED BY <1>1 DEF IsSequence

LEMMA SecretInvRun ==
  ASSUME SecretInv, Run
  PROVE  SecretInv'
<1>1. /\ secretPc = "command" /\ printed = {}
      /\ UNCHANGED <<args, ownKeys, keys, env, around, configText>>
  BY DEF Run, SecretInv, PrintedIsWrapped
<1>2. secretPc' \in {"write", "over"} /\ IsSequence(secret')
  BY OneIsSequence DEF Run, SecretInv, SecretSettled
<1>3. SecretSettled'
  BY <1>1, <1>2 DEF SecretSettled, SecretInv
<1>4. SecretPasses' /\ WrappersGo'
  BY <1>2 DEF SecretPasses, WrappersGo
<1>5. PrintedIsWrapped'
  <2>1. CipherOf' = CipherOf /\ NewKeySize' = NewKeySize
    BY <1>1 DEF CipherOf, NewKeySize
  <2>2. CASE secretPc' = "over"
    <3>1. printed' = {}
      BY <1>1, <2>2 DEF Run
    <3> QED BY <2>2, <3>1 DEF PrintedIsWrapped
  <2>3. CASE secretPc' = "write"
    <3>1. /\ Chosen \in {"keys", "value"} /\ ownKeys[CipherOf] # ""
          /\ secret' = IF Chosen = "keys" THEN <<Word(ToString(NewKeySize))>> ELSE secret
          /\ printed' = {[label |-> l, text |-> Wrapped(secret')] :
                           l \in IF Chosen = "keys" THEN args.gen ELSE {"value"}}
      BY <2>3 DEF Run
    <3>3. ASSUME NEW p \in printed'
          PROVE  /\ p.text = Wrapped(secret')
                 /\ p.label # "value" => /\ p.label \in args.gen
                                         /\ secret' = <<Word(ToString(NewKeySize))>>
      <4>1. PICK l \in IF Chosen = "keys" THEN args.gen ELSE {"value"} :
              p = [label |-> l, text |-> Wrapped(secret')]
        BY <3>1
      <4>2. p.label = l /\ p.text = Wrapped(secret')
        BY <4>1
      <4> QED BY <3>1, <4>1, <4>2
    <3>4. Wrapped(secret)' = Wrapped(secret')
      BY <1>1, <2>1 DEF Wrapped
    <3> QED BY <1>1, <2>1, <2>3, <3>1, <3>3, <3>4 DEF PrintedIsWrapped
  <2> QED BY <1>2, <2>2, <2>3
<1> QED BY <1>3, <1>4, <1>5 DEF SecretInv

\* The three parts of a configuration are texts of one set of parts.
PartsOf(a, b, w) == {a[i] : i \in 1..Len(a)} \cup {b[i] : i \in 1..Len(b)} \cup {w}

LEMMA OneSetOfParts ==
  ASSUME NEW a, NEW b, NEW w, IsSequence(a), IsSequence(b)
  PROVE  a \in Seq(PartsOf(a, b, w)) /\ b \in Seq(PartsOf(a, b, w)) /\ w \in PartsOf(a, b, w)
<1>1. PICK A : a \in Seq(A)
  BY DEF IsSequence
<1>2. PICK B : b \in Seq(B)
  BY DEF IsSequence
<1> QED BY <1>1, <1>2 DEF PartsOf

LEMMA SecretInvWrite ==
  ASSUME SecretInv, Write
  PROVE  SecretInv'
<1>1. /\ secretPc = "write" /\ secretPc' = "DES3" /\ around' \in Contexts
      /\ UNCHANGED <<args, secret, ownKeys, keys, env, printed>>
  BY DEF Write
<1>2. CipherOf' = CipherOf /\ NewKeySize' = NewKeySize
  BY <1>1 DEF CipherOf, NewKeySize
<1>3. SecretSettled'
  BY <1>1 DEF SecretSettled, SecretInv
<1>4. Wrapped(secret)' = Wrapped(secret)
  BY <1>1, <1>2 DEF Wrapped
<1>5. PrintedIsWrapped'
  BY <1>1, <1>2, <1>4 DEF PrintedIsWrapped, SecretInv
<1>6. configText' = around'[1] \o Wrapped(secret)' \o around'[2]
  BY <1>1, <1>4 DEF Write, SecretInv, PrintedIsWrapped
<1>7. SecretPasses'
  BY <1>1, <1>6 DEF SecretPasses
<1>8. WrappersGo'
  <2> SUFFICES ASSUME NoneNested' PROVE HeldIn(configText', {}, DOMAIN env')
    <3>1. Cleared' = {}
      BY <1>1 DEF Cleared
    <3> QED BY <1>1, <3>1 DEF WrappersGo
  <2>1. PICK a, b, w : a = around'[1] /\ b = around'[2]
                       /\ w = Part(CipherOf, ownKeys[CipherOf], secret)
    OBVIOUS
  <2>2. Known(a, DOMAIN env) /\ Known(b, DOMAIN env) /\ DOMAIN env' = DOMAIN env
    BY <1>1, <2>1, AroundIsKnown DEF SecretInv, SecretSettled
  <2>3. PICK S : S = PartsOf(a, b, w) /\ a \in Seq(S) /\ b \in Seq(S) /\ w \in S
    <3>1. IsSequence(a) /\ IsSequence(b)
      BY <2>2 DEF Known
    <3> QED BY <3>1, OneSetOfParts
  <2>4. configText' = a \o <<w>> \o b
    BY <1>2, <1>4, <1>6, <2>1 DEF Wrapped
  <2>5. configText' \in Seq(S)
    BY <2>3, <2>4
  <2>6. /\ \A j \in 1..Len(a) : Plain(a[j].inner)
        /\ \A j \in 1..Len(b) : Plain(b[j].inner)
        /\ Plain(secret)
    BY <1>1, <2>1 DEF NoneNested
  <2>7. IsSequence(secret) /\ w.inner = secret /\ w.kind \notin {"var", "open"}
    <3>1. CipherOf \notin {"var", "open"}
      BY DEF CipherOf
    <3> QED BY <2>1, <3>1, InnerIsKept DEF SecretInv, SecretSettled
  <2>8. \A x \in S : Tame(x, DOMAIN env)
    BY <2>2, <2>3, <2>6, <2>7 DEF Known, Tame, PartsOf
  <2> QED BY <2>2, <2>5, <2>8 DEF HeldIn
<1> QED BY <1>3, <1>5, <1>7, <1>8 DEF SecretInv

LEMMA SecretInvDecrypt ==
  ASSUME SecretInv, NEW type \in Types, DecryptEncryptedContent(type)
  PROVE  SecretInv'
<1>1. /\ secretPc = type /\ secretPc' = IF type = "DES3" THEN "SM4" ELSE "expand"
      /\ UNCHANGED <<args, secret, ownKeys, keys, env, printed, around>>
  BY DEF DecryptEncryptedContent
<1>2. secretPc \in {"DES3", "SM4"} /\ secretPc' \in {"SM4", "expand"}
  BY <1>1 DEF Types
<1>3. CipherOf' = CipherOf /\ NewKeySize' = NewKeySize /\ Wrapped(secret)' = Wrapped(secret)
  BY <1>1 DEF CipherOf, NewKeySize, Wrapped
<1>4. /\ keys[type] = "" => configText' = configText
      /\ keys[type] # "" => \E chance : configText' = PassOver(configText, type, keys[type], chance)
  BY DEF DecryptEncryptedContent, PassOver
<1>5. SecretSettled'
  BY <1>1, <1>2 DEF SecretSettled, SecretInv
<1>6. PrintedIsWrapped'
  BY <1>1, <1>2, <1>3 DEF PrintedIsWrapped, SecretInv
<1>7. SecretPasses'
  <2>1. (keys = ownKeys /\ Plain(secret) /\ Alone)' => keys = ownKeys /\ Plain(secret) /\ Alone
    BY <1>1 DEF Plain, Alone
  <2> SUFFICES ASSUME keys = ownKeys, Plain(secret), Alone
               PROVE  configText' = around[1] \o Passing' \o around[2]
    BY <1>1, <1>2, <2>1 DEF SecretPasses
  <2>2. PICK a, b, w : a = around[1] /\ b = around[2]
                       /\ w = Part(CipherOf, ownKeys[CipherOf], secret)
    OBVIOUS
  <2>3. IsSequence(a) /\ IsSequence(b)
    BY <1>2, <2>2, AroundIsKnown DEF SecretInv, SecretSettled, Known
  <2>4. PICK S1 : S1 = PartsOf(a, b, w) /\ a \in Seq(S1) /\ b \in Seq(S1) /\ w \in S1
    BY <2>3, OneSetOfParts
  <2>5. PICK S2 : secret \in Seq(S2)
    BY DEF SecretInv, SecretSettled, IsSequence
  <2>6. PICK S : a \in Seq(S) /\ b \in Seq(S) /\ w \in S /\ secret \in Seq(S)
    <3>1. /\ a \in Seq(S1 \cup S2) /\ b \in Seq(S1 \cup S2) /\ w \in S1 \cup S2
          /\ secret \in Seq(S1 \cup S2)
      BY <2>4, <2>5
    <3> QED BY <3>1
  <2>7. Without(a, type) /\ Without(b, type)
    BY <2>2 DEF Alone, Without
  <2>8. w.kind = CipherOf /\ w.name = ownKeys[CipherOf] /\ w.inner = secret
    BY <2>2, InnerIsKept
  <2>9. CipherOf \in Types /\ Wrapped(secret) = <<w>> /\ type \in {"DES3", "SM4"}
    BY <2>2 DEF CipherOf, Types, Wrapped
  <2>10. configText = a \o Passing \o b
    BY <1>2, <2>2, <2>9 DEF SecretInv, SecretPasses, Passing
  <2>11. CASE type = CipherOf
    <3>1. Passing = <<w>> /\ Passing' = secret
      <4>1. Passing = <<w>>
        BY <1>1, <2>9, <2>11 DEF Passing
      <4>2. Passing' = secret
        BY <1>1, <1>3, <2>9, <2>11 DEF Passing
      <4> QED BY <4>1, <4>2
    <3>2. keys[type] # "" /\ keys[type] = ownKeys[CipherOf]
      BY <1>2, <2>11 DEF SecretInv, PrintedIsWrapped
    <3>3. PICK chance : configText' = PassOver(a \o <<w>> \o b, type, keys[type], chance)
      BY <1>4, <2>10, <3>1, <3>2
    <3>4. PICK name : name = keys[type]
      OBVIOUS
    <3>5. w.kind = type /\ w.name = name
      BY <2>8, <2>11, <3>2, <3>4
    <3>6. PassOver(a \o <<w>> \o b, type, name, chance) = a \o secret \o b
      <4>1. PICK s : s = secret
        OBVIOUS
      <4>2. IsSequence(s) /\ w.inner = s
        BY <2>6, <2>8, <4>1 DEF IsSequence
      <4>3. PICK t : t = a \o <<w>> \o b
        OBVIOUS
      <4>4. HasOne(t, a, w, s, b, type, name)
        BY <2>3, <2>7, <3>5, <4>2, <4>3 DEF HasOne
      <4>5. PassOver(t, type, name, chance) = a \o s \o b
        BY <4>4, PassOne
      <4> QED BY <4>1, <4>3, <4>5
    <3> QED BY <2>2, <3>1, <3>3, <3>4, <3>6
  <2>12. CASE type # CipherOf
    <3>1. Passing' = Passing
      <4>1. CASE type = "DES3"
        <5>1. CipherOf = "SM4" /\ secretPc' = "SM4"
          BY <1>1, <2>9, <2>12, <4>1 DEF Types
        <5>2. Passing = Wrapped(secret)
          BY <1>1, <4>1 DEF Passing
        <5>3. Passing' = Wrapped(secret)'
          BY <1>3, <5>1 DEF Passing
        <5> QED BY <1>3, <5>2, <5>3
      <4>2. CASE type = "SM4"
        <5>1. CipherOf # "SM4" /\ secretPc = "SM4" /\ secretPc' = "expand"
          BY <1>1, <2>12, <4>2
        <5>2. Passing = secret
          BY <5>1 DEF Passing
        <5>3. Passing' = secret'
          BY <5>1 DEF Passing
        <5> QED BY <1>1, <5>2, <5>3
      <4> QED BY <2>9, <4>1, <4>2
    <3>2. PICK m : m = Passing
      OBVIOUS
    <3>3. m \in Seq(S) /\ Without(m, type)
      <4>1. CASE m = <<w>>
        BY <2>6, <2>8, <2>12, <4>1 DEF Without
      <4>2. CASE m = secret
        BY <2>6, <2>9, <4>2 DEF Plain, Without
      <4> QED BY <2>9, <3>2, <4>1, <4>2 DEF Passing
    <3>4. PICK t : t = a \o m \o b
      OBVIOUS
    <3>5. t \in Seq(S)
      BY <2>6, <3>3, <3>4
    <3>6. Without(t, type)
      BY <2>6, <2>7, <3>3, <3>4 DEF Without
    <3>7. t = configText
      BY <2>10, <3>2, <3>4
    <3>8. configText' = t
      <4>1. CASE keys[type] = ""
        BY <1>4, <3>7, <4>1
      <4>2. CASE keys[type] # ""
        <5>1. PICK chance : configText' = PassOver(configText, type, keys[type], chance)
          BY <1>4, <4>2
        <5>2. PICK name : name = keys[type]
          OBVIOUS
        <5>3. PassOver(t, type, name, chance) = t
          BY <3>5, <3>6, PassSame
        <5> QED BY <3>7, <5>1, <5>2, <5>3
      <4> QED BY <4>1, <4>2
    <3> QED BY <1>1, <2>2, <3>1, <3>2, <3>4, <3>8
  <2> QED BY <2>11, <2>12
<1>8. WrappersGo'
  <2>1. NoneNested' => NoneNested
    BY <1>1 DEF NoneNested, Plain
  <2> SUFFICES ASSUME NoneNested PROVE HeldIn(configText', Cleared', DOMAIN env')
    BY <1>2, <2>1 DEF WrappersGo
  <2>2. HeldIn(configText, Cleared, DOMAIN env) /\ env' = env
    BY <1>1, <1>2 DEF SecretInv, WrappersGo
  <2>3. Cleared' = Cleared \cup (IF keys[type] = "" THEN {} ELSE {type}) /\ Cleared \subseteq Types
    BY <1>1, <1>2 DEF Cleared, Types
  <2>4. CASE keys[type] = ""
    BY <1>4, <2>2, <2>3, <2>4
  <2>5. CASE keys[type] # ""
    <3>1. PICK chance : configText' = PassOver(configText, type, keys[type], chance)
      BY <1>4, <2>5
    <3>2. PICK t, kinds, names, name :
            t = configText /\ kinds = Cleared /\ names = DOMAIN env /\ name = keys[type]
      OBVIOUS
    <3>3. HeldIn(t, kinds, names) /\ kinds \subseteq Types
      BY <2>2, <2>3, <3>2
    <3>4. HeldIn(PassOver(t, type, name, chance), kinds \cup {type}, names)
      BY <3>3, PassHolds
    <3>5. Cleared' = kinds \cup {type}
      BY <2>3, <2>5, <3>2
    <3> QED BY <2>2, <3>1, <3>2, <3>4, <3>5
  <2> QED BY <2>4, <2>5
<1> QED BY <1>5, <1>6, <1>7, <1>8 DEF SecretInv

LEMMA SecretInvExpand ==
  ASSUME SecretInv, Expand
  PROVE  SecretInv'
<1>1. /\ secretPc = "expand" /\ secretPc' = "read"
      /\ configText' = ExpandEnv(env, configText)
      /\ UNCHANGED <<args, secret, ownKeys, keys, env, printed, around>>
  BY DEF Expand
<1>2. CipherOf' = CipherOf /\ NewKeySize' = NewKeySize /\ Wrapped(secret)' = Wrapped(secret)
  BY <1>1 DEF CipherOf, NewKeySize, Wrapped
<1>3. SecretSettled'
  BY <1>1 DEF SecretSettled, SecretInv
<1>4. PrintedIsWrapped'
  BY <1>1, <1>2 DEF PrintedIsWrapped, SecretInv
<1>5. SecretPasses'
  <2>1. (keys = ownKeys /\ Plain(secret) /\ Alone)' => keys = ownKeys /\ Plain(secret) /\ Alone
    BY <1>1 DEF Plain, Alone
  <2> SUFFICES ASSUME keys = ownKeys, Plain(secret), Alone
               PROVE  configText' = ExpandEnv(env, around[1] \o secret \o around[2])
    BY <1>1, <2>1 DEF SecretPasses
  <2>3. Passing = secret
    BY <1>1 DEF Passing
  <2>4. configText = around[1] \o Passing \o around[2]
    BY <1>1 DEF SecretInv, SecretPasses
  <2> QED BY <1>1, <2>3, <2>4
<1>6. WrappersGo'
  <2>1. NoneNested' => NoneNested
    BY <1>1 DEF NoneNested, Plain
  <2> SUFFICES ASSUME NoneNested
               PROVE  \E S : configText' \in Seq(S) /\ \A x \in S : x.kind \in Types => keys[x.kind] = ""
    BY <1>1, <2>1 DEF WrappersGo
  <2>2. HeldIn(configText, Cleared, DOMAIN env)
    BY <1>1 DEF SecretInv, WrappersGo
  <2>3. PICK S0 : /\ configText \in Seq(S0)
                  /\ \A x \in S0 : Tame(x, DOMAIN env) /\ x.kind \notin Cleared
    BY <2>2 DEF HeldIn
  <2> DEFINE given == UNION {{env[v][j] : j \in 1..Len(env[v])} : v \in DOMAIN env}
             cuts == {Cut(part) : part \in S0}
  <2>4. PICK S : S = S0 \cup given \cup cuts
    OBVIOUS
  <2>a. \A v \in DOMAIN env : \A j \in 1..Len(env[v]) : env[v][j] \in given
    OBVIOUS
  <2>b. \A x \in given : \E v \in DOMAIN env : \E j \in 1..Len(env[v]) : x = env[v][j]
    OBVIOUS
  <2>c. \A part \in S0 : Cut(part) \in cuts
    OBVIOUS
  <2>d. \A x \in cuts : \E part \in S0 : x = Cut(part)
    OBVIOUS
  <2> HIDE DEF given, cuts
  <2>5. ASSUME NEW v \in DOMAIN env PROVE env[v] \in Seq(S)
    <3>1. PICK u : u = env[v]
      OBVIOUS
    <3>2. IsList(u)
      BY <3>1, SecretsAssumption DEF SecretInv, SecretSettled
    <3>3. PICK Q : u \in Seq(Q)
      BY <3>2 DEF IsList
    <3>4. \A j \in 1..Len(u) : u[j] \in S
      BY <2>4, <2>a, <3>1
    <3>5. u \in Seq(S)
      BY <3>3, <3>4
    <3> QED BY <3>1, <3>5
  <2>6. configText \in Seq(S)
    BY <2>3, <2>4
  <2>7. ASSUME NEW i \in 1..Len(configText), configText[i].kind \in {"var", "open"}
        PROVE  env[configText[i].name] \in Seq(S)
    <3>1. configText[i] \in S0
      BY <2>3
    <3> QED BY <2>3, <2>5, <2>7, <3>1 DEF Tame
  <2>8. ExpandEnv(env, configText) \in Seq(S)
    <3>1. ASSUME NEW i \in 1..Len(configText) PROVE Cut(configText[i]) \in S
      BY <2>3, <2>4, <2>c
    <3> QED BY <2>6, <2>7, <3>1, ExpandIn
  <2>9. ASSUME NEW x \in S, x.kind \in Types PROVE keys[x.kind] = ""
    <3>1. CASE x \in S0
      BY <1>1, <2>3, <2>9, <3>1 DEF Cleared
    <3>2. CASE x \in cuts
      <4>1. PICK part : x = Cut(part)
        BY <2>d, <3>2
      <4>2. x.kind = "cut"
        BY <4>1, InnerIsKept DEF Cut
      <4> QED BY <2>9, <4>2 DEF Types
    <3>3. CASE x \notin S0 /\ x \notin cuts
      <4>1. PICK v \in DOMAIN env : \E j \in 1..Len(env[v]) : x = env[v][j]
        BY <2>4, <2>b, <3>3
      <4>2. x.kind = "word"
        BY <4>1 DEF NoneNested, Plain
      <4> QED BY <2>9, <4>2 DEF Types
    <3> QED BY <3>1, <3>2, <3>3
  <2> QED BY <1>1, <2>8, <2>9
<1> QED BY <1>3, <1>4, <1>5, <1>6 DEF SecretInv

LEMMA SecretInvStutter ==
  ASSUME SecretInv, UNCHANGED secretVars
  PROVE  SecretInv'
<1> USE DEF secretVars
<1>1. SecretSettled'
  BY DEF SecretSettled, SecretInv
<1>2. CipherOf' = CipherOf /\ NewKeySize' = NewKeySize /\ Wrapped(secret)' = Wrapped(secret)
  BY DEF CipherOf, NewKeySize, Wrapped
<1>3. PrintedIsWrapped'
  BY <1>2 DEF PrintedIsWrapped, SecretInv
<1>4. SecretPasses'
  BY <1>2 DEF SecretPasses, SecretInv, Passing, Alone, Plain
<1>5. WrappersGo'
  BY DEF WrappersGo, SecretInv, NoneNested, Plain, Cleared
<1> QED BY <1>1, <1>3, <1>4, <1>5 DEF SecretInv

LEMMA SecretInvStep == SecretInv /\ [SecretNext]_secretVars => SecretInv'
BY SecretInvRun, SecretInvWrite, SecretInvDecrypt, SecretInvExpand, SecretInvStutter
   DEF SecretNext

LEMMA SecretReturnsThen == SecretInv => SecretReturns
BY DEF SecretInv, SecretPasses, SecretReturns

LEMMA NoWrapperThen == SecretInv => NoWrapperLeft
<1> SUFFICES ASSUME SecretInv, secretPc = "read", NoneNested
             PROVE  \A i \in 1..Len(configText) :
                      configText[i].kind \in Types => keys[configText[i].kind] = ""
  BY DEF NoWrapperLeft
<1>1. PICK S : configText \in Seq(S) /\ \A x \in S : x.kind \in Types => keys[x.kind] = ""
  BY DEF SecretInv, WrappersGo
<1>2. configText \in Seq(S)
  BY <1>1
<1>3. \A i \in 1..Len(configText) : configText[i] \in S
  BY <1>2
<1> QED BY <1>1, <1>3

LEMMA KeysFitThen == SecretInv => KeysFit
<1> SUFFICES ASSUME SecretInv, NEW p \in printed, p.label # "value", args.gen = {p.label}
             PROVE  p.text[1].inner = <<Word(ToString(KeySize[p.label]))>>
  BY DEF KeysFit
<1>1. p.text = Wrapped(secret) /\ secret = <<Word(ToString(NewKeySize))>>
  BY DEF SecretInv, PrintedIsWrapped
<1>2. p.text[1].inner = secret
  BY <1>1, InnerIsKept DEF Wrapped
<1>3. p.label \in DOMAIN KeySize
  BY SecretsAssumption DEF SecretInv, SecretSettled
<1>4. NewKeySize = KeySize[p.label]
  BY <1>3 DEF NewKeySize, KeySize
<1> QED BY <1>1, <1>2, <1>4

(* The secret comes back, its wrappers go, and the keys fit (system-service   *)
(* and config: Run, ReadConfig), for all command lines, texts, surroundings   *)
(* and environments.                                                         *)
THEOREM SecretsComeBack == SecretSpec => []SecretComesBack
<1>1. SecretInit => SecretInv
  BY SecretInvInit
<1>2. SecretInv /\ [SecretNext]_secretVars => SecretInv'
  BY SecretInvStep
<1>3. SecretInv => SecretComesBack
  BY SecretReturnsThen, NoWrapperThen, KeysFitThen DEF SecretComesBack
<1> QED BY <1>1, <1>2, <1>3, PTL DEF SecretSpec

-----------------------------------------------------------------------------
(* Signing: the paths of a body.                                            *)

\* The last part of a path.
LastPart(b, n) == IF b[b[n].in].kind = "array" THEN b[n].key ELSE <<".">> \o b[n].key

LEMMA SetsAreBounded ==
  ASSUME NEW D, IsFiniteSet(D), D \subseteq Nat
  PROVE  \E N \in Nat : \A n \in D : n < N
<1> DEFINE T == {k \in Nat : \A S \in SUBSET Nat :
                   IsFiniteSet(S) /\ Cardinality(S) = k => \E N \in Nat : \A n \in S : n < N}
<1>1. 0 \in T
  <2> SUFFICES ASSUME NEW S \in SUBSET Nat, IsFiniteSet(S), Cardinality(S) = 0
               PROVE  \E N \in Nat : \A n \in S : n < N
    OBVIOUS
  <2>1. S = {}
    BY FS_EmptySet
  <2> QED BY <2>1
<1>2. ASSUME NEW k \in Nat, k \in T PROVE k + 1 \in T
  <2> SUFFICES ASSUME NEW S \in SUBSET Nat, IsFiniteSet(S), Cardinality(S) = k + 1
               PROVE  \E N \in Nat : \A n \in S : n < N
    OBVIOUS
  <2>1. PICK x : x \in S
    BY FS_EmptySet
  <2>2. IsFiniteSet(S \ {x}) /\ Cardinality(S \ {x}) = k /\ S \ {x} \in SUBSET Nat
    BY <2>1, FS_RemoveElement
  <2>3. PICK N \in Nat : \A n \in S \ {x} : n < N
    BY <1>2, <2>2
  <2>4. PICK M \in Nat : x < M /\ N <= M
    <3>1. CASE x < N
      BY <3>1
    <3>2. CASE ~ (x < N)
      <4>1. x \in Nat /\ x + 1 \in Nat /\ x < x + 1 /\ N <= x + 1
        BY <2>1, <3>2
      <4> QED BY <4>1
    <3> QED BY <3>1, <3>2
  <2>5. \A n \in S : n < M
    BY <2>3, <2>4
  <2> QED BY <2>5
<1>3. \A k \in Nat : k \in T
  <2> HIDE DEF T
  <2> QED BY <1>1, <1>2, SetInduction
<1>4. Cardinality(D) \in T
  BY <1>3, FS_CardinalityType
<1> QED BY <1>4

\* The recursion has a solution: it goes to earlier nodes only.
LEMMA PathEquation ==
  ASSUME NEW b, IsTree(b)
  PROVE  \A n \in DOMAIN b :
           PathOf(b, n) = IF b[n].in = 0 THEN b[n].key ELSE PathOf(b, b[n].in) \o LastPart(b, n)
<1> DEFINE Step(g, m) == IF b[m].in = 0 THEN b[m].key ELSE g[b[m].in] \o LastPart(b, m)
           Solves(g) == g = [m \in DOMAIN b |->
             IF b[m].in = 0 THEN b[m].key
             ELSE g[b[m].in] \o (IF b[b[m].in].kind = "array" THEN b[m].key
                                 ELSE <<".">> \o b[m].key)]
           T == {k \in Nat : \E g : \A m \in DOMAIN b : m < k => g[m] = Step(g, m)}
<1>0. \A m \in DOMAIN b : m \in Nat /\ (b[m].in # 0 => b[m].in \in DOMAIN b /\ b[m].in < m)
  BY DEF IsTree
<1>1. 0 \in T
  BY <1>0
<1>2. ASSUME NEW k \in Nat, k \in T PROVE k + 1 \in T
  <2>1. PICK g : \A m \in DOMAIN b : m < k => g[m] = Step(g, m)
    BY <1>2
  <2> DEFINE h == [m \in DOMAIN b |-> IF m < k THEN g[m] ELSE Step(g, m)]
  <2>2. \A m \in DOMAIN b : m < k => h[m] = g[m]
    OBVIOUS
  <2>3. \A m \in DOMAIN b : m < k + 1 => h[m] = Step(g, m)
    BY <1>0, <2>1
  <2> HIDE DEF h
  <2>4. ASSUME NEW m \in DOMAIN b, m < k + 1 PROVE h[m] = Step(h, m)
    <3>1. b[m].in # 0 => b[m].in \in DOMAIN b /\ b[m].in < k
      BY <1>0, <2>4
    <3>2. b[m].in # 0 => h[b[m].in] = g[b[m].in]
      BY <2>2, <3>1
    <3> QED BY <2>3, <2>4, <3>2
  <2> QED BY <2>4
<1>3. PICK N \in Nat : \A m \in DOMAIN b : m < N
  BY SetsAreBounded DEF IsTree
<1>4. N \in T
  <2> HIDE DEF T
  <2> QED BY <1>1, <1>2, SetInduction
<1>5. PICK g : \A m \in DOMAIN b : g[m] = Step(g, m)
  BY <1>3, <1>4
<1> DEFINE h == [m \in DOMAIN b |-> Step(g, m)]
<1>6. \A m \in DOMAIN b : h[m] = Step(h, m)
  <2>1. \A m \in DOMAIN b : h[m] = g[m] /\ h[m] = Step(g, m)
    BY <1>5
  <2> HIDE DEF h
  <2> QED BY <1>0, <2>1
<1>7. h = [m \in DOMAIN b |-> h[m]]
  OBVIOUS
<1> HIDE DEF h
<1>8. Solves(h)
  <2>1. h = [m \in DOMAIN b |-> Step(h, m)]
    BY <1>6, <1>7
  <2> QED BY <2>1 DEF LastPart
<1> DEFINE f == CHOOSE g1 : Solves(g1)
<1>9. \A n : PathOf(b, n) = f[n]
  BY DEF PathOf
<1>10. Solves(f)
  BY <1>8
<1> HIDE DEF f
<1>11. \A m \in DOMAIN b : f[m] = Step(f, m)
  BY <1>10 DEF LastPart
<1> QED BY <1>9, <1>11

LEMMA StrongInduction ==
  ASSUME NEW T, \A n \in Nat : (\A m \in Nat : m < n => m \in T) => n \in T
  PROVE  \A n \in Nat : n \in T
<1> SUFFICES ASSUME Nat \ T # {} PROVE FALSE
  OBVIOUS
<1>1. PICK n \in Nat \ T : \A m \in Nat \ T : n <= m
  BY NatMin
<1>2. \A m \in Nat : m < n => m \in T
  BY <1>1
<1> QED BY <1>1, <1>2

LEMMA TreeOrder ==
  ASSUME NEW b, IsTree(b)
  PROVE  \A n \in DOMAIN b : n \in Nat /\ (n # 0 => b[n].in \in DOMAIN b /\ b[n].in < n)
<1> SUFFICES ASSUME NEW n \in DOMAIN b
             PROVE  n \in Nat /\ (n # 0 => b[n].in \in DOMAIN b /\ b[n].in < n)
  OBVIOUS
<1>1. DOMAIN b \subseteq Nat
  BY DEF IsTree
<1>2. n # 0 => b[n].in \in DOMAIN b /\ b[n].in < n
  BY DEF IsTree
<1> QED BY <1>1, <1>2

LEMMA TreeContainers ==
  ASSUME NEW b, IsTree(b)
  PROVE  \A n \in DOMAIN b \ {0} : b[b[n].in].kind \in {"object", "array"}
<1> SUFFICES ASSUME NEW n \in DOMAIN b, n # 0
             PROVE  b[b[n].in].kind \in {"object", "array"}
  OBVIOUS
<1>1. PICK c : c = b[n].in
  OBVIOUS
<1>2. n # 0 => b[c].kind \in {"object", "array"}
  BY <1>1 DEF IsTree
<1> QED BY <1>1, <1>2

\* Under plain keys a path ends with the node's own word, which is none of
\* the separators.
WellPathed(b, S, n) ==
  /\ PathOf(b, n) \in Seq(S) /\ Len(PathOf(b, n)) > 0
  /\ PathOf(b, n)[Len(PathOf(b, n))] = b[n].key[1]
  /\ b[n].key \in Seq(S) /\ Len(b[n].key) = 1 /\ b[n].key[1] # "."

LEMMA PlainPaths ==
  ASSUME NEW b, IsTree(b), PlainKeys(b)
  PROVE  \E S : "." \in S /\ \A n \in DOMAIN b \ {0} : WellPathed(b, S, n)
<1>1. PICK S : S = {"."} \cup UNION {{b[n].key[i] : i \in DOMAIN b[n].key} : n \in DOMAIN b}
  OBVIOUS
<1>2. \A n \in DOMAIN b : n \in Nat /\ (n # 0 => b[n].in \in DOMAIN b /\ b[n].in < n)
  BY TreeOrder
<1>3. ASSUME NEW n \in DOMAIN b \ {0}
      PROVE  b[n].key \in Seq(S) /\ Len(b[n].key) = 1 /\ b[n].key[1] # "."
  <2>1. PICK q : q = b[n].key
    OBVIOUS
  <2>2. q \in Seq({q[i] : i \in DOMAIN q}) /\ Len(q) = 1 /\ q[1] # "."
    BY <2>1 DEF IsTree, PlainKeys
  <2>3. {q[i] : i \in DOMAIN q} \subseteq S
    BY <1>1, <2>1
  <2>4. q \in Seq(S)
    BY <2>2, <2>3
  <2> QED BY <2>1, <2>2, <2>4
<1> DEFINE T == {n \in Nat : n \in DOMAIN b \ {0} => WellPathed(b, S, n)}
<1>4. ASSUME NEW n \in Nat, \A m \in Nat : m < n => m \in T PROVE n \in T
  <2> SUFFICES ASSUME n \in DOMAIN b \ {0} PROVE WellPathed(b, S, n)
    OBVIOUS
  <2>1. PICK q, s, p : q = b[n].key /\ s = LastPart(b, n) /\ p = PathOf(b, n)
    OBVIOUS
  <2>2. q \in Seq(S) /\ Len(q) = 1 /\ q[1] # "."
    BY <1>3, <2>1
  <2>3. CASE b[n].in = 0
    <3>1. p = q
      BY <2>1, <2>3, PathEquation
    <3> QED BY <2>1, <2>2, <3>1 DEF WellPathed
  <2>4. CASE b[n].in # 0
    <3>1. PICK r : r = PathOf(b, b[n].in)
      OBVIOUS
    <3>2. p = r \o s
      BY <2>1, <2>4, <3>1, PathEquation
    <3>3. r \in Seq(S)
      BY <1>2, <1>4, <2>4, <3>1 DEF WellPathed
    <3>4. s \in Seq(S) /\ Len(s) > 0 /\ s[Len(s)] = q[1]
      <4>1. s = q \/ s = <<".">> \o q
        BY <2>1 DEF LastPart
      <4>2. "." \in S
        BY <1>1
      <4> QED BY <2>2, <4>1, <4>2
    <3>5. p \in Seq(S) /\ Len(p) > 0 /\ p[Len(p)] = s[Len(s)]
      BY <3>2, <3>3, <3>4
    <3> QED BY <2>1, <2>2, <3>4, <3>5 DEF WellPathed
  <2> QED BY <2>3, <2>4
<1>5. \A n \in Nat : n \in T
  <2> HIDE DEF T
  <2> QED BY <1>4, StrongInduction
<1>6. \A n \in DOMAIN b \ {0} : WellPathed(b, S, n)
  BY <1>2, <1>5
<1>7. "." \in S
  BY <1>1
<1> QED BY <1>6, <1>7

\* What a path is joined from can be told from the path.
LEMMA SameJoin ==
  \A S : \A p, q \in Seq(S), x, y \in S : p \o <<x>> = q \o <<y>> => p = q /\ x = y
<1> SUFFICES ASSUME NEW S, NEW p \in Seq(S), NEW q \in Seq(S), NEW x \in S, NEW y \in S,
                    p \o <<x>> = q \o <<y>>
             PROVE  p = q /\ x = y
  OBVIOUS
<1>1. Len(p \o <<x>>) = Len(p) + 1 /\ Len(q \o <<y>>) = Len(q) + 1
  OBVIOUS
<1>2. Len(p) = Len(q) /\ Len(p) \in Nat
  BY <1>1
<1>3. (p \o <<x>>)[Len(p) + 1] = x /\ (q \o <<y>>)[Len(p) + 1] = y
  BY <1>2
<1>4. \A i \in 1..Len(p) : (p \o <<x>>)[i] = p[i] /\ (q \o <<y>>)[i] = q[i]
  BY <1>2
<1>5. \A i \in 1..Len(p) : p[i] = q[i]
  BY <1>4
<1> QED BY <1>2, <1>3, <1>5, SeqEqual

\* Under plain keys that differ within an object, no two nodes have one path.
LEMMA OnePath ==
  ASSUME NEW b, IsTree(b), PlainKeys(b), DistinctKeys(b)
  PROVE  \A m, n \in DOMAIN b \ {0} : PathOf(b, m) = PathOf(b, n) => m = n
<1>1. PICK S : "." \in S /\ \A n \in DOMAIN b \ {0} : WellPathed(b, S, n)
  BY PlainPaths
<1>2. \A n \in DOMAIN b : n \in Nat /\ (n # 0 => b[n].in \in DOMAIN b /\ b[n].in < n)
  BY TreeOrder
<1> DEFINE T == {m \in Nat : m \in DOMAIN b \ {0} =>
                   \A n \in DOMAIN b \ {0} : PathOf(b, m) = PathOf(b, n) => m = n}
\* A path is the container's, perhaps with a point, and the word.
<1> DEFINE W(n) == b[n].key[1]
           Q(n) == IF b[b[n].in].kind = "array" THEN PathOf(b, b[n].in)
                   ELSE PathOf(b, b[n].in) \o <<".">>
<1>3. ASSUME NEW n \in DOMAIN b \ {0}
      PROVE  /\ W(n) \in S /\ W(n) # "." /\ b[n].key = <<W(n)>>
             /\ b[n].in = 0 => PathOf(b, n) = <<W(n)>>
             /\ b[n].in # 0 => /\ PathOf(b, n) = Q(n) \o <<W(n)>>
                               /\ Q(n) \in Seq(S) /\ Len(Q(n)) > 0
                               /\ PathOf(b, b[n].in) \in Seq(S)
  <2>1. PICK q, s, p : q = b[n].key /\ s = LastPart(b, n) /\ p = PathOf(b, n)
    OBVIOUS
  <2>2. q \in Seq(S) /\ Len(q) = 1 /\ q[1] # "."
    BY <1>1, <2>1 DEF WellPathed
  <2>3. q = <<q[1]>> /\ q[1] \in S
    <3>1. q[1] \in S /\ 1 \in 1..Len(q)
      BY <2>2
    <3>2. PICK x : x = q[1]
      OBVIOUS
    <3>3. <<x>> \in Seq(S) /\ Len(<<x>>) = Len(q) /\ \A i \in 1..Len(q) : q[i] = <<x>>[i]
      BY <2>2, <3>1, <3>2
    <3>4. q = <<x>>
      BY <2>2, <3>3, SeqEqual
    <3> QED BY <3>1, <3>2, <3>4
  <2>4. b[n].in = 0 => p = q
    BY <2>1, PathEquation
  <2>5. ASSUME b[n].in # 0
        PROVE  p = Q(n) \o <<W(n)>> /\ Q(n) \in Seq(S) /\ Len(Q(n)) > 0 /\ PathOf(b, b[n].in) \in Seq(S)
    <3>1. PICK r : r = PathOf(b, b[n].in)
      OBVIOUS
    <3>2. p = r \o s
      BY <2>1, <2>5, <3>1, PathEquation
    <3>3. r \in Seq(S) /\ Len(r) > 0
      BY <1>1, <1>2, <2>5, <3>1 DEF WellPathed
    <3>4. <<".">> \in Seq(S)
      BY <1>1
    <3>5. CASE b[b[n].in].kind = "array"
      <4>1. s = q /\ Q(n) = r
        BY <2>1, <3>1, <3>5 DEF LastPart
      <4> QED BY <2>1, <2>3, <3>1, <3>2, <3>3, <4>1
    <3>6. CASE b[b[n].in].kind # "array"
      <4>1. s = <<".">> \o q /\ Q(n) = r \o <<".">>
        BY <2>1, <3>1, <3>6 DEF LastPart
      <4>2. PICK d : d = <<".">>
        OBVIOUS
      <4>3. r \o (d \o q) = (r \o d) \o q
        BY <2>2, <3>3, <3>4, <4>2, Associates
      <4>4. r \o d \in Seq(S) /\ Len(r \o d) > 0
        BY <3>3, <3>4, <4>2
      <4> QED BY <2>1, <2>3, <3>1, <3>2, <3>3, <4>1, <4>2, <4>3, <4>4
    <3> QED BY <3>5, <3>6
  <2> QED BY <2>1, <2>2, <2>3, <2>4, <2>5
<1>4. ASSUME NEW m \in Nat, \A k \in Nat : k < m => k \in T PROVE m \in T
  <2> SUFFICES ASSUME m \in DOMAIN b \ {0}, NEW n \in DOMAIN b \ {0}, PathOf(b, m) = PathOf(b, n)
               PROVE  m = n
    OBVIOUS
  <2>1. PICK p, q, x, y : p = Q(m) /\ q = Q(n) /\ x = W(m) /\ y = W(n)
    OBVIOUS
  <2>2. x \in S /\ y \in S /\ b[m].key = <<x>> /\ b[n].key = <<y>>
    BY <1>3, <2>1
  <2>3. b[m].in = b[n].in /\ b[m].key = b[n].key => m = n
    BY DEF DistinctKeys
  <2>4. CASE b[m].in = 0 /\ b[n].in = 0
    <3>1. <<x>> = <<y>>
      BY <1>3, <2>1, <2>4
    <3> QED BY <2>2, <2>3, <2>4, <3>1
  <2>5. CASE b[m].in = 0 /\ b[n].in # 0
    <3>1. <<x>> = q \o <<y>> /\ q \in Seq(S) /\ Len(q) > 0
      BY <1>3, <2>1, <2>5
    <3>2. Len(<<x>>) = 1 /\ Len(q \o <<y>>) = Len(q) + 1
      BY <2>2, <3>1
    <3> QED BY <3>1, <3>2
  <2>6. CASE b[m].in # 0 /\ b[n].in = 0
    <3>1. <<y>> = p \o <<x>> /\ p \in Seq(S) /\ Len(p) > 0
      BY <1>3, <2>1, <2>6
    <3>2. Len(<<y>>) = 1 /\ Len(p \o <<x>>) = Len(p) + 1
      BY <2>2, <3>1
    <3> QED BY <3>1, <3>2
  <2>7. CASE b[m].in # 0 /\ b[n].in # 0
    <3>1. p \o <<x>> = q \o <<y>> /\ p \in Seq(S) /\ q \in Seq(S)
      BY <1>3, <2>1, <2>7
    <3>2. p = q /\ x = y
      BY <2>2, <3>1, SameJoin
    <3>3. PICK c, d : c = b[m].in /\ d = b[n].in
      OBVIOUS
    <3>4. c \in DOMAIN b \ {0} /\ d \in DOMAIN b \ {0} /\ c < m
      BY <1>2, <2>7, <3>3
    <3>5. PICK u, v : u = PathOf(b, c) /\ v = PathOf(b, d)
      OBVIOUS
    <3>6. /\ u \in Seq(S) /\ Len(u) > 0 /\ u[Len(u)] # "."
          /\ v \in Seq(S) /\ Len(v) > 0 /\ v[Len(v)] # "."
      BY <1>1, <3>4, <3>5 DEF WellPathed
    <3>7. /\ p = IF b[c].kind = "array" THEN u ELSE u \o <<".">>
          /\ q = IF b[d].kind = "array" THEN v ELSE v \o <<".">>
      BY <2>1, <3>3, <3>5
    <3>8. \A w, z \in Seq(S) : w = z \o <<".">> => w[Len(w)] = "."
      <4> SUFFICES ASSUME NEW w \in Seq(S), NEW z \in Seq(S), w = z \o <<".">> PROVE w[Len(w)] = "."
        OBVIOUS
      <4>1. Len(w) = Len(z) + 1
        BY <1>1
      <4> QED BY <1>1, <4>1
    <3>9. u = v
      <4> HIDE DEF Q, W
      <4>1. CASE b[c].kind = "array" /\ b[d].kind = "array"
        BY <3>2, <3>7, <4>1
      <4>2. CASE b[c].kind # "array" /\ b[d].kind # "array"
        <5>1. u \o <<".">> = v \o <<".">>
          BY <3>2, <3>7, <4>2
        <5> QED BY <1>1, <3>6, <5>1, SameJoin
      <4>3. CASE b[c].kind = "array" /\ b[d].kind # "array"
        <5>1. u = v \o <<".">>
          BY <3>2, <3>7, <4>3
        <5> QED BY <3>6, <3>8, <5>1
      <4>4. CASE b[c].kind # "array" /\ b[d].kind = "array"
        <5>1. v = u \o <<".">>
          BY <3>2, <3>7, <4>4
        <5> QED BY <3>6, <3>8, <5>1
      <4> QED BY <4>1, <4>2, <4>3, <4>4
    <3>10. c = d
      <4>1. c \in Nat /\ c \in T
        BY <1>2, <1>4, <3>4
      <4> QED BY <3>4, <3>5, <3>9, <4>1
    <3> QED BY <2>2, <2>3, <3>2, <3>3, <3>10
  <2> QED BY <2>4, <2>5, <2>6, <2>7
<1>5. \A n \in Nat : n \in T
  <2> HIDE DEF T
  <2> QED BY <1>4, StrongInduction
<1> QED BY <1>2, <1>5

-----------------------------------------------------------------------------
(* Signing: the invariant.                                                  *)

\* The values of a field can be put in order, and none of them is left out.
LEMMA OrderedExists ==
  ASSUME NEW D \in SUBSET Nat, IsFiniteSet(D)
  PROVE  \E s \in [1..Cardinality(D) -> D] :
           ToSet(s) = D /\ \A i, j \in DOMAIN s : i < j => s[i] < s[j]
<1> DEFINE Ordered(S) == \E s \in [1..Cardinality(S) -> S] :
             ToSet(s) = S /\ \A i, j \in DOMAIN s : i < j => s[i] < s[j]
           T == {k \in Nat : \A S \in SUBSET Nat :
                   IsFiniteSet(S) /\ Cardinality(S) = k => Ordered(S)}
<1>1. 0 \in T
  <2> SUFFICES ASSUME NEW S \in SUBSET Nat, IsFiniteSet(S), Cardinality(S) = 0 PROVE Ordered(S)
    OBVIOUS
  <2>1. S = {} /\ 1..Cardinality(S) = {}
    BY FS_EmptySet
  <2>2. PICK s : s = [i \in 1..Cardinality(S) |-> 0]
    OBVIOUS
  <2>3. s \in [1..Cardinality(S) -> S] /\ DOMAIN s = {} /\ ToSet(s) = S
    BY <2>1, <2>2 DEF ToSet
  <2> QED BY <2>3
<1>2. ASSUME NEW k \in Nat, k \in T PROVE k + 1 \in T
  <2> SUFFICES ASSUME NEW S \in SUBSET Nat, IsFiniteSet(S), Cardinality(S) = k + 1 PROVE Ordered(S)
    OBVIOUS
  <2>1. S # {} /\ S \subseteq Nat
    BY FS_EmptySet
  <2>2. PICK N \in Nat : \A n \in S : n < N
    BY SetsAreBounded
  <2>3. S \subseteq 0..N
    BY <2>1, <2>2
  <2>4. PICK x \in S : \A n \in S : n <= x
    BY <2>1, <2>3, NatMax
  <2>5. PICK R : R = S \ {x}
    OBVIOUS
  <2>6. IsFiniteSet(R) /\ Cardinality(R) = k /\ R \in SUBSET Nat
    <3>1. IsFiniteSet(S \ {x}) /\ Cardinality(S \ {x}) = k /\ S \ {x} \in SUBSET Nat
      BY <2>4, FS_RemoveElement
    <3> QED BY <2>5, <3>1
  <2>7. Ordered(R)
    BY <1>2, <2>6
  <2>8. PICK r \in [1..k -> R] : ToSet(r) = R /\ \A i, j \in DOMAIN r : i < j => r[i] < r[j]
    BY <2>6, <2>7
  <2>9. PICK s : s = [i \in 1..(k + 1) |-> IF i = k + 1 THEN x ELSE r[i]]
    OBVIOUS
  <2>10. s \in [1..(k + 1) -> S] /\ s[k + 1] = x /\ \A i \in 1..k : s[i] = r[i]
    <3>1. \A i \in 1..(k + 1) : i # k + 1 => i \in 1..k
      OBVIOUS
    <3>2. \A i \in 1..k : i \in 1..(k + 1) /\ i # k + 1
      OBVIOUS
    <3>3. \A i \in 1..k : r[i] \in S
      BY <2>5, <2>8
    <3>4. k + 1 \in 1..(k + 1)
      OBVIOUS
    <3> QED BY <2>9, <3>1, <3>2, <3>3, <3>4
  <2>11. ToSet(s) = S
    <3>1. \A n \in R : \E i \in 1..k : r[i] = n
      BY <2>8 DEF ToSet
    <3>2. k + 1 \in DOMAIN s /\ \A i \in 1..k : i \in DOMAIN s
      BY <2>9
    <3>3. \A n \in S : \E i \in DOMAIN s : s[i] = n
      BY <2>5, <2>10, <3>1, <3>2
    <3> QED BY <2>10, <3>3 DEF ToSet
  <2>12. ASSUME NEW i \in DOMAIN s, NEW j \in DOMAIN s, i < j PROVE s[i] < s[j]
    <3>1. i \in 1..k /\ j \in 1..(k + 1)
      BY <2>9, <2>12
    <3>2. s[i] = r[i] /\ r[i] \in R
      BY <2>8, <2>10, <3>1
    <3>3. CASE j = k + 1
      <4>1. r[i] <= x /\ r[i] # x /\ r[i] \in Nat /\ x \in Nat
        BY <2>1, <2>4, <2>5, <3>2
      <4> QED BY <2>10, <3>2, <3>3, <4>1
    <3>4. CASE j # k + 1
      <4>1. j \in 1..k /\ s[j] = r[j]
        BY <2>10, <3>1, <3>4
      <4>2. r[i] < r[j]
        BY <2>8, <2>12, <3>1, <4>1
      <4> QED BY <3>2, <4>1, <4>2
    <3> QED BY <3>3, <3>4
  <2> QED BY <2>10, <2>11, <2>12
<1>3. \A k \in Nat : k \in T
  <2> HIDE DEF T
  <2> QED BY <1>1, <1>2, SetInduction
<1>4. Cardinality(D) \in T
  BY <1>3, FS_CardinalityType
<1> QED BY <1>4

LEMMA JoinedHasAll ==
  ASSUME NEW b, IsTree(b), NEW n \in Children(b, 0)
  PROVE  n \in ToSet(Joined(b, b[n].key))
<1> DEFINE same == {m \in Children(b, 0) : b[m].key = b[n].key}
<1>1. same \in SUBSET Nat /\ IsFiniteSet(same)
  <2>1. same \subseteq DOMAIN b
    BY DEF Children
  <2> QED BY <2>1, FS_Subset DEF IsTree
<1>2. n \in same
  OBVIOUS
<1>3. ToSet(Joined(b, b[n].key)) = same
  <2>1. \E s \in [1..Cardinality(same) -> same] :
          ToSet(s) = same /\ \A i, j \in DOMAIN s : i < j => s[i] < s[j]
    BY <1>1, OrderedExists
  <2> QED BY <2>1 DEF Joined
<1> QED BY <1>2, <1>3

\* A form as JSON is a body again, with the keys of the form, each once.
LEMMA FormIsTree ==
  ASSUME NEW b, IsTree(b), IsForm(b)
  PROVE  /\ IsTree(FormMap(b)) /\ DistinctKeys(FormMap(b))
         /\ FormMap(b)[0] = b[0]
         /\ PlainKeys(b) => PlainKeys(FormMap(b))
         /\ \A n \in Children(b, 0) : \E f \in Children(FormMap(b), 0) :
              /\ b[f].key = b[n].key /\ FormMap(b)[f].key = b[n].key
              /\ FormMap(b)[f].value = Joined(b, b[n].key) /\ f \in Leaves(FormMap(b))
<1> DEFINE First == {n \in Children(b, 0) : ~ \E m \in Children(b, 0) : m < n /\ b[m].key = b[n].key}
<1>1. PICK F : F = First
  OBVIOUS
<1>2. PICK f : f = FormMap(b)
  OBVIOUS
<1>3. f = [n \in F \cup {0} |-> IF n = 0 THEN b[0] ELSE [b[n] EXCEPT !.value = Joined(b, b[n].key)]]
  BY <1>1, <1>2 DEF FormMap
<1>4. F \subseteq DOMAIN b \ {0} /\ \A n \in F : b[n].in = 0 /\ b[n].kind = "value"
  BY <1>1 DEF Children, IsForm
<1>5. ASSUME NEW n \in F
      PROVE  /\ DOMAIN f[n] = {"in", "key", "kind", "value"}
             /\ f[n].in = b[n].in /\ f[n].key = b[n].key /\ f[n].kind = b[n].kind
             /\ f[n].value = Joined(b, b[n].key)
  <2>1. f[n] = [b[n] EXCEPT !.value = Joined(b, b[n].key)]
    BY <1>3, <1>4
  <2>2. DOMAIN b[n] = {"in", "key", "kind", "value"}
    BY <1>4 DEF IsTree
  <2> QED BY <2>1, <2>2
<1>6. DOMAIN f = F \cup {0} /\ f[0] = b[0]
  BY <1>3
<1>7. b[0].in = 0 /\ 0 \in DOMAIN b /\ b[0].kind = "object" /\ DOMAIN b \subseteq Nat /\ IsFiniteSet(DOMAIN b)
  BY DEF IsTree, IsForm
<1>8. IsTree(f)
  <2>1. IsFiniteSet(DOMAIN f) /\ DOMAIN f \subseteq Nat /\ 0 \in DOMAIN f /\ f[0].in = 0
    <3>1. DOMAIN f \subseteq DOMAIN b
      BY <1>4, <1>6, <1>7
    <3>2. IsFiniteSet(DOMAIN f)
      BY <1>7, <3>1, FS_Subset
    <3> QED BY <1>6, <1>7, <3>1, <3>2
  <2>2. ASSUME NEW n \in DOMAIN f
        PROVE  /\ DOMAIN f[n] = {"in", "key", "kind", "value"}
               /\ f[n].kind \in NodeKinds
               /\ f[n].key \in Seq({f[n].key[i] : i \in DOMAIN f[n].key})
               /\ n # 0 => /\ f[n].in \in DOMAIN f /\ f[n].in < n
                           /\ f[f[n].in].kind \in {"object", "array"}
    <3>1. /\ DOMAIN b[n] = {"in", "key", "kind", "value"} /\ b[n].kind \in NodeKinds
          /\ b[n].key \in Seq({b[n].key[i] : i \in DOMAIN b[n].key})
      <4>1. n \in DOMAIN b
        BY <1>4, <1>6, <1>7
      <4>2. b[n].key \in Seq({b[n].key[i] : i \in DOMAIN b[n].key})
        <5>1. PICK q : q = b[n].key
          OBVIOUS
        <5>2. q \in Seq({q[i] : i \in DOMAIN q})
          BY <4>1, <5>1 DEF IsTree
        <5> QED BY <5>1, <5>2
      <4>3. DOMAIN b[n] = {"in", "key", "kind", "value"} /\ b[n].kind \in NodeKinds
        BY <4>1 DEF IsTree
      <4> QED BY <4>2, <4>3
    <3>2. f[n].kind = b[n].kind /\ f[n].key = b[n].key /\ DOMAIN f[n] = DOMAIN b[n]
      BY <1>5, <1>6, <3>1
    <3>3. n # 0 => f[n].in = 0 /\ 0 < n
      BY <1>4, <1>5, <1>6, <1>7
    <3> QED BY <1>6, <1>7, <3>1, <3>2, <3>3
  <2> QED BY <2>1, <2>2 DEF IsTree
<1>9. DistinctKeys(f)
  <2> SUFFICES ASSUME NEW m \in DOMAIN f \ {0}, NEW n \in DOMAIN f \ {0}, f[m].key = f[n].key
               PROVE  m = n
    BY DEF DistinctKeys
  <2>1. m \in First /\ n \in First /\ b[m].key = b[n].key /\ m \in Nat /\ n \in Nat
    BY <1>1, <1>4, <1>5, <1>6, <1>7
  <2>2. ~ (m < n) /\ ~ (n < m)
    BY <2>1
  <2> QED BY <2>1, <2>2
<1>10. PlainKeys(b) => PlainKeys(f)
  BY <1>4, <1>5, <1>6 DEF PlainKeys
<1>11. ASSUME NEW n \in Children(b, 0)
       PROVE  \E e \in Children(f, 0) :
                /\ b[e].key = b[n].key /\ f[e].key = b[n].key
                /\ f[e].value = Joined(b, b[n].key) /\ e \in Leaves(f)
  <2> DEFINE Same == {m \in Children(b, 0) : b[m].key = b[n].key}
  <2>1. Same \subseteq Nat /\ Same # {}
    BY <1>7 DEF Children
  <2>2. PICK e \in Same : \A m \in Same : e <= m
    BY <2>1, NatMin
  <2>3. e \in F
    <3>1. \A m \in Children(b, 0) : m < e => b[m].key # b[e].key
      BY <1>7, <2>2 DEF Children
    <3> QED BY <1>1, <2>2, <3>1
  <2>4. e \in Children(f, 0) /\ e \in Leaves(f)
    BY <1>4, <1>5, <1>6, <2>3 DEF Children, Leaves
  <2> QED BY <1>5, <2>2, <2>3, <2>4
<1> QED BY <1>2, <1>6, <1>8, <1>9, <1>10, <1>11

\* What GetBody made of the request.
BodyIsRead ==
  /\ mediaType = "form" => IsForm(sent)
  /\ mediaType = "json" => DistinctKeys(sent)
  /\ signPc = "begin" => body = NoBody /\ err = "none"
  /\ signPc \in {"begin", "sign"} \/ body = NoBody => signMap = NoEntries
  /\ err # "none" => body = NoBody
  /\ signPc # "begin" /\ mediaType # "other" /\ err = "none" => body # NoBody
  /\ body # NoBody => \/ mediaType = "json" /\ body = sent
                      \/ mediaType = "form" /\ body = FormMap(sent)
  /\ signPc # "done" => unread = "whole" \/ (err = "read" /\ unread = "rest")
  /\ signPc = "done" => handled = "whole" \/ err = "read"

\* The calls that have not returned stand at nodes, each with its path.
Signable == body # NoBody /\ signType = "all" /\ body[0].kind = "object" /\ PlainKeys(body)
PathHere(b, n) == IF n = 0 THEN NoPath ELSE PathOf(b, n)
FramesOf(b, paths, known) ==
  {f \in [path : paths, node : DOMAIN b, left : SUBSET DOMAIN b] :
     f.left \subseteq Children(b, f.node) /\ (known => f.path = PathHere(b, f.node))}
FramesStand ==
  /\ \E paths : frames \in Seq(FramesOf(body, paths, Signable))
  /\ signPc # "walk" => frames = <<>>
  /\ signPc = "walk" => body # NoBody /\ signType = "all" /\ body[0].kind = "object"

\* The nodes that were visited: what is in one of them was too, or is still to
\* come; and what is signed is the leaves among them.
ToCome(fs) == UNION {fs[i].left : i \in 1..Len(fs)}
Visited(V, b, fs, map) ==
  /\ V \subseteq DOMAIN b /\ 0 \in V
  /\ \A k \in DOMAIN b \ {0} : b[k].in \in V => k \in V \cup ToCome(fs)
  /\ DOMAIN map = {PathOf(b, k) : k \in V \cap Leaves(b)}
  /\ \A k \in V \cap Leaves(b) : map[PathOf(b, k)] = b[k].value
WalkIsSigned ==
  /\ Signable /\ signPc \in {"walk", "handle", "done"} => \E V : Visited(V, body, frames, signMap)
  /\ signType = "first" /\ body # NoBody /\ signPc \in {"handle", "done"} =>
       (body[0].kind = "object" => signMap = FirstLevel)

SignInv == SignTypeOK /\ BodyIsRead /\ FramesStand /\ WalkIsSigned

\* A body that was read is a tree, whose keys differ.
LEMMA BodyIsTree ==
  ASSUME SignTypeOK, BodyIsRead, body # NoBody
  PROVE  IsTree(body) /\ DistinctKeys(body) /\ body[0] = sent[0]
         /\ (PlainKeys(sent) => PlainKeys(body))
<1>1. IsTree(sent)
  BY BodiesAssumption DEF SignTypeOK
<1> QED BY <1>1, FormIsTree DEF BodyIsRead

\* Each call of the new body starts from nothing.
LEMMA NoFrames ==
  \A b, paths, known : <<>> \in Seq(FramesOf(b, paths, known))
OBVIOUS

LEMMA SignInvInit == SignInit => SignInv
<1> SUFFICES ASSUME SignInit PROVE SignInv
  OBVIOUS
<1>1. SignTypeOK
  BY DEF SignInit, SignTypeOK
<1>2. BodyIsRead
  BY DEF SignInit, BodyIsRead
<1>3. FramesStand
  BY NoFrames DEF SignInit, FramesStand
<1>4. WalkIsSigned
  BY DEF SignInit, WalkIsSigned
<1> QED BY <1>1, <1>2, <1>3, <1>4 DEF SignInv

LEMMA SignInvBody ==
  ASSUME SignInv, GetBody
  PROVE  SignInv'
<1>1. /\ signPc = "begin" /\ signPc' = "sign" /\ body = NoBody /\ signMap = NoEntries /\ frames = <<>>
      /\ UNCHANGED <<sent, mediaType, signType, frames, signMap, handled>>
  BY DEF GetBody, SignInv, BodyIsRead, FramesStand, requestVars
<1>2. \/ mediaType = "json" /\ unread' = "whole" /\ err' = "none" /\ body' = sent
      \/ mediaType = "form" /\ unread' = "whole" /\ err' = "none" /\ body' = FormMap(sent)
      \/ mediaType = "form" /\ err' = "parse" /\ unread' = unread /\ body' = body
      \/ mediaType # "other" /\ err' = "read" /\ unread' = "rest" /\ body' = body
      \/ mediaType = "other" /\ unread' = unread /\ err' = err /\ body' = body
  BY DEF GetBody, ReadBody
<1>3. SignTypeOK'
  <2>1. unread' \in {"whole", "rest", "nothing"} /\ err' \in {"none", "read", "parse"}
    BY <1>2 DEF SignInv, SignTypeOK
  <2>2. 1..Len(frames') = {}
    BY <1>1
  <2> QED BY <1>1, <2>1, <2>2 DEF SignInv, SignTypeOK
<1>4. BodyIsRead'
  <2>1. IsTree(sent) /\ sent # NoBody
    <3>1. IsTree(sent)
      BY BodiesAssumption DEF SignInv, SignTypeOK
    <3>2. 0 \in DOMAIN sent /\ DOMAIN NoBody = {}
      BY <3>1 DEF IsTree, NoBody
    <3> QED BY <3>1, <3>2
  <2>2. mediaType = "form" => FormMap(sent) # NoBody
    <3>1. mediaType = "form" => 0 \in DOMAIN FormMap(sent)
      BY <2>1, FormIsTree DEF SignInv, BodyIsRead, IsTree
    <3>2. DOMAIN NoBody = {}
      BY DEF NoBody
    <3> QED BY <3>1, <3>2
  <2>3. unread = "whole" /\ err = "none"
    BY <1>1 DEF SignInv, BodyIsRead
  <2>4. err = "none" \/ err \in {"read", "parse"}
    BY DEF SignInv, SignTypeOK
  <2>5. (mediaType = "form" => IsForm(sent)) /\ (mediaType = "json" => DistinctKeys(sent))
    BY DEF SignInv, BodyIsRead
  <2>7. CASE mediaType = "json" /\ unread' = "whole" /\ err' = "none" /\ body' = sent
    BY <1>1, <2>1, <2>5, <2>7 DEF BodyIsRead
  <2>8. CASE mediaType = "form" /\ unread' = "whole" /\ err' = "none" /\ body' = FormMap(sent)
    BY <1>1, <2>2, <2>5, <2>8 DEF BodyIsRead
  <2>9. CASE \/ mediaType = "form" /\ err' = "parse" /\ unread' = unread /\ body' = body
             \/ mediaType # "other" /\ err' = "read" /\ unread' = "rest" /\ body' = body
             \/ mediaType = "other" /\ unread' = unread /\ err' = err /\ body' = body
    <3>1. body' = NoBody /\ (unread' = "whole" \/ (err' = "read" /\ unread' = "rest"))
      <4>1. body' = body /\ (unread' = unread \/ (err' = "read" /\ unread' = "rest"))
        BY <2>9
      <4> QED BY <1>1, <2>3, <4>1
    <3>2. mediaType # "other" => err' # "none"
      BY <2>9
    <3> QED BY <1>1, <2>5, <3>1, <3>2 DEF BodyIsRead
  <2> QED BY <1>2, <2>7, <2>8, <2>9
<1>5. FramesStand'
  BY <1>1, NoFrames DEF FramesStand
<1>6. WalkIsSigned'
  BY <1>1 DEF WalkIsSigned
<1> QED BY <1>3, <1>4, <1>5, <1>6 DEF SignInv

LEMMA SignInvHandle ==
  ASSUME SignInv, Handle
  PROVE  SignInv'
<1>1. /\ signPc = "handle" /\ signPc' = "done" /\ handled' = unread /\ unread' = "nothing"
      /\ UNCHANGED <<sent, mediaType, signType, err, body, frames, signMap>>
  BY DEF Handle, requestVars
<1>2. SignTypeOK'
  BY <1>1 DEF SignInv, SignTypeOK
<1>3. BodyIsRead'
  BY <1>1 DEF SignInv, BodyIsRead
<1>4. Signable' = Signable /\ FirstLevel' = FirstLevel
  BY <1>1 DEF Signable, FirstLevel
<1>5. FramesStand'
  BY <1>1, <1>4 DEF SignInv, FramesStand
<1>6. WalkIsSigned'
  BY <1>1, <1>4 DEF SignInv, WalkIsSigned
<1> QED BY <1>2, <1>3, <1>5, <1>6 DEF SignInv


LEMMA ToComeJoins ==
  \A S : \A t \in Seq(S), c \in S : ToCome(<<c>> \o t) = c.left \cup ToCome(t)
<1> SUFFICES ASSUME NEW S, NEW t \in Seq(S), NEW c \in S
             PROVE  ToCome(<<c>> \o t) = c.left \cup ToCome(t)
  OBVIOUS
<1>1. PICK u : u = <<c>> \o t
  OBVIOUS
<1>2. Len(u) = Len(t) + 1 /\ Len(t) \in Nat /\ u[1] = c
  BY <1>1
<1>3. \A i \in 1..Len(t) : u[i + 1] = t[i] /\ i + 1 \in 1..Len(u)
  BY <1>1, <1>2
<1>4. ASSUME NEW j \in 1..Len(u) PROVE u[j].left \subseteq c.left \cup ToCome(t)
  <2>1. CASE j = 1
    BY <1>2, <2>1
  <2>2. CASE j # 1
    <3>1. j - 1 \in 1..Len(t) /\ (j - 1) + 1 = j
      BY <1>2, <2>2
    <3>2. u[j] = t[j - 1]
      BY <1>3, <3>1
    <3> QED BY <3>1, <3>2 DEF ToCome
  <2> QED BY <2>1, <2>2
<1>5. ASSUME NEW i \in 1..Len(t) PROVE t[i].left \subseteq ToCome(u)
  BY <1>3 DEF ToCome
<1>6. c.left \subseteq ToCome(u)
  <2>1. 1 \in 1..Len(u)
    BY <1>2
  <2> QED BY <1>2, <2>1 DEF ToCome
<1>7. ToCome(u) \subseteq c.left \cup ToCome(t)
  BY <1>4 DEF ToCome
<1>8. ToCome(t) \subseteq ToCome(u)
  BY <1>5 DEF ToCome
<1> QED BY <1>1, <1>6, <1>7, <1>8

\* The latest call, and those below it.
LEMMA ToComeSplits ==
  \A S : \A fs \in Seq(S) : fs # <<>> =>
    Head(fs) \in S /\ Tail(fs) \in Seq(S) /\ ToCome(fs) = Head(fs).left \cup ToCome(Tail(fs))
<1> SUFFICES ASSUME NEW S, NEW fs \in Seq(S), fs # <<>>
             PROVE  Head(fs) \in S /\ Tail(fs) \in Seq(S)
                    /\ ToCome(fs) = Head(fs).left \cup ToCome(Tail(fs))
  OBVIOUS
<1>1. Head(fs) \in S /\ Tail(fs) \in Seq(S)
  OBVIOUS
<1>2. fs = <<Head(fs)>> \o Tail(fs)
  <2>1. PICK h, t : h = Head(fs) /\ t = Tail(fs)
    OBVIOUS
  <2>2. h \in S /\ t \in Seq(S) /\ <<h>> \in Seq(S) /\ Len(fs) > 0 /\ Len(t) = Len(fs) - 1
    BY <1>1, <2>1
  <2>3. PICK u : u = <<h>> \o t
    OBVIOUS
  <2>4. u \in Seq(S) /\ Len(u) = Len(fs)
    BY <2>2, <2>3
  <2>5. \A i \in 1..Len(u) : u[i] = fs[i]
    BY <2>1, <2>2, <2>3, <2>4
  <2> QED BY <2>1, <2>3, <2>4, <2>5, SeqEqual
<1>3. ToCome(<<Head(fs)>> \o Tail(fs)) = Head(fs).left \cup ToCome(Tail(fs))
  BY <1>1, ToComeJoins
<1> QED BY <1>1, <1>2, <1>3

LEMMA FramesAreTyped ==
  \A b, paths, known : \A fs \in Seq(FramesOf(b, paths, known)) :
    \A i \in 1..Len(fs) : fs[i].left \subseteq Children(b, fs[i].node)
<1> SUFFICES ASSUME NEW b, NEW paths, NEW known, NEW fs \in Seq(FramesOf(b, paths, known)),
                    NEW i \in 1..Len(fs)
             PROVE  fs[i].left \subseteq Children(b, fs[i].node)
  OBVIOUS
<1>1. fs[i] \in FramesOf(b, paths, known)
  OBVIOUS
<1> QED BY <1>1 DEF FramesOf

LEMMA SignInvReturn ==
  ASSUME SignInv, Return
  PROVE  SignInv'
<1>1. /\ signPc = "walk" /\ frames # <<>> /\ Head(frames).left = {} /\ frames' = Tail(frames)
      /\ signPc' = (IF Tail(frames) = <<>> THEN "handle" ELSE signPc)
      /\ UNCHANGED <<sent, mediaType, signType, unread, err, body, signMap, handled>>
  BY DEF Return, requestVars
<1>2. body # NoBody /\ signType = "all" /\ body[0].kind = "object"
  BY <1>1 DEF SignInv, FramesStand
<1>3. PICK paths : frames \in Seq(FramesOf(body, paths, Signable))
  BY DEF SignInv, FramesStand
<1>4. frames' \in Seq(FramesOf(body, paths, Signable)) /\ ToCome(frames') = ToCome(frames)
  BY <1>1, <1>3, ToComeSplits
<1>5. Signable' = Signable
  BY <1>1 DEF Signable
<1>6. FramesStand'
  <2>1. frames' \in Seq(FramesOf(body', paths, Signable'))
    BY <1>1, <1>4, <1>5
  <2>2. signPc' # "walk" => frames' = <<>>
    BY <1>1
  <2> QED BY <1>1, <1>2, <2>1, <2>2 DEF FramesStand
<1>7. SignTypeOK'
  <2>1. \A i \in 1..Len(frames') : frames'[i].left \subseteq Children(body', frames'[i].node)
    BY <1>1, <1>4, FramesAreTyped
  <2>2. signPc' \in {"walk", "handle"}
    BY <1>1
  <2> QED BY <1>1, <2>1, <2>2 DEF SignInv, SignTypeOK
<1>8. BodyIsRead'
  <2>1. signPc' \in {"walk", "handle"}
    BY <1>1
  <2> QED BY <1>1, <1>2, <2>1 DEF SignInv, BodyIsRead
<1>9. WalkIsSigned'
  <2>1. ASSUME Signable PROVE \E V : Visited(V, body', frames', signMap')
    <3>1. PICK V : Visited(V, body, frames, signMap)
      BY <1>1, <2>1 DEF SignInv, WalkIsSigned
    <3>2. Visited(V, body, frames', signMap)
      BY <1>4, <3>1 DEF Visited
    <3> QED BY <1>1, <3>2
  <2> QED BY <1>1, <1>2, <1>5, <2>1 DEF WalkIsSigned
<1> QED BY <1>6, <1>7, <1>8, <1>9 DEF SignInv

LEMMA SignInvSign ==
  ASSUME SignInv, GetSignMap
  PROVE  SignInv'
<1>1. /\ signPc = "sign" /\ signMap = NoEntries /\ frames = <<>>
      /\ UNCHANGED <<sent, mediaType, signType, unread, err, body, handled>>
  BY DEF GetSignMap, SignInv, BodyIsRead, FramesStand, requestVars
<1>2. Signable' = Signable /\ FirstLevel' = FirstLevel
  BY <1>1 DEF Signable, FirstLevel
<1>3. CASE /\ body = NoBody \/ (body # NoBody /\ body[0].kind # "object")
           /\ signPc' = "handle" /\ UNCHANGED <<frames, signMap>>
  <2>1. SignTypeOK'
    BY <1>1, <1>3 DEF SignInv, SignTypeOK
  <2>2. BodyIsRead'
    BY <1>1, <1>3 DEF SignInv, BodyIsRead
  <2>3. FramesStand'
    BY <1>1, <1>3, NoFrames DEF FramesStand
  <2>4. WalkIsSigned'
    BY <1>1, <1>3 DEF WalkIsSigned, Signable
  <2> QED BY <2>1, <2>2, <2>3, <2>4 DEF SignInv
<1>4. CASE /\ body # NoBody /\ body[0].kind = "object" /\ signType # "all"
           /\ signPc' = "handle" /\ signMap' = FirstLevel /\ UNCHANGED frames
  <2>1. SignTypeOK'
    BY <1>1, <1>4 DEF SignInv, SignTypeOK
  <2>2. BodyIsRead'
    BY <1>1, <1>4 DEF SignInv, BodyIsRead
  <2>3. FramesStand'
    BY <1>1, <1>4, NoFrames DEF FramesStand
  <2>4. WalkIsSigned'
    BY <1>1, <1>2, <1>4 DEF WalkIsSigned, Signable
  <2> QED BY <2>1, <2>2, <2>3, <2>4 DEF SignInv
<1>5. CASE /\ body # NoBody /\ body[0].kind = "object" /\ signType = "all"
           /\ signPc' = "walk" /\ frames' = <<Call(NoPath, 0)>> /\ UNCHANGED signMap
  <2>1. PICK c : c = [path |-> NoPath, node |-> 0, left |-> Children(body, 0)]
    OBVIOUS
  <2>2. frames' = <<c>>
    BY <1>5, <2>1 DEF Call
  <2>3. 0 \in DOMAIN body
    BY <1>5, BodyIsTree DEF SignInv, IsTree
  <2>4. c \in FramesOf(body, {NoPath}, Signable)
    BY <2>1, <2>3 DEF FramesOf, Children, PathHere
  <2>5. frames' \in Seq(FramesOf(body, {NoPath}, Signable))
    BY <2>2, <2>4
  <2>6. FramesStand'
    <3>1. frames' \in Seq(FramesOf(body', {NoPath}, Signable'))
      BY <1>1, <1>2, <2>5
    <3> QED BY <1>1, <1>5, <3>1 DEF FramesStand
  <2>7. SignTypeOK'
    <3>1. \A i \in 1..Len(frames') : frames'[i].left \subseteq Children(body', frames'[i].node)
      BY <1>1, <2>5, FramesAreTyped
    <3> QED BY <1>1, <1>5, <3>1 DEF SignInv, SignTypeOK
  <2>8. BodyIsRead'
    BY <1>1, <1>5 DEF SignInv, BodyIsRead
  <2>9. Visited({0}, body, frames', signMap')
    <3>1. ToCome(frames') = Children(body, 0)
      <4>1. 1 \in 1..Len(frames') /\ \A i \in 1..Len(frames') : frames'[i].left = Children(body, 0)
        BY <2>1, <2>2
      <4> QED BY <4>1 DEF ToCome
    <3>2. {0} \cap Leaves(body) = {}
      BY DEF Leaves
    <3>3. DOMAIN signMap' = {}
      BY <1>1, <1>5 DEF NoEntries
    <3> QED BY <2>3, <3>1, <3>2, <3>3 DEF Visited, Children
  <2>10. WalkIsSigned'
    <3>1. \E V : Visited(V, body', frames', signMap')
      BY <1>1, <2>9
    <3> QED BY <1>1, <1>5, <3>1 DEF WalkIsSigned
  <2> QED BY <2>6, <2>7, <2>8, <2>10 DEF SignInv
<1> QED BY <1>3, <1>4, <1>5 DEF GetSignMap


\* The path that the walk makes is the node's own.
LEMMA PathIsMade ==
  ASSUME NEW n, NEW path, SignTypeOK, BodyIsRead, Signable, n \in DOMAIN body \ {0},
         path = PathHere(body, body[n].in)
  PROVE  NewPath(path, n) = PathOf(body, n)
<1>1. IsTree(body) /\ PlainKeys(body) /\ body[0].kind = "object"
  BY BodyIsTree DEF Signable
<1>2. PICK S : "." \in S /\ \A m \in DOMAIN body \ {0} : WellPathed(body, S, m)
  BY <1>1, PlainPaths
<1>3. PICK q, d : q = body[n].key /\ d = <<".">>
  OBVIOUS
<1>4. q \in Seq(S) /\ d \in Seq(S)
  BY <1>2, <1>3 DEF WellPathed
<1>5. CASE body[n].in = 0
  <2>1. path = <<>> /\ NewPath(path, n) = <<>> \o q
    BY <1>3, <1>5 DEF PathHere, NoPath, NewPath
  <2>2. PathOf(body, n) = q
    BY <1>1, <1>3, <1>5, PathEquation
  <2> QED BY <1>4, <2>1, <2>2
<1>6. CASE body[n].in # 0
  <2>1. body[n].in \in DOMAIN body \ {0}
    BY <1>1, <1>6, TreeOrder
  <2>2. path = PathOf(body, body[n].in) /\ path \in Seq(S) /\ path # NoPath
    BY <1>2, <1>6, <2>1 DEF PathHere, WellPathed, NoPath
  <2>3. PathOf(body, n) = path \o LastPart(body, n)
    BY <1>1, <1>6, <2>2, PathEquation
  <2>4. CASE body[body[n].in].kind = "array"
    BY <2>3, <2>4 DEF LastPart, NewPath
  <2>5. CASE body[body[n].in].kind # "array"
    <3>1. NewPath(path, n) = (path \o d) \o q \/ NewPath(path, n) = path \o (d \o q)
      BY <1>3, <2>2, <2>5 DEF NewPath
    <3>2. PathOf(body, n) = path \o (d \o q)
      BY <1>3, <2>3, <2>5 DEF LastPart
    <3>3. path \o (d \o q) = (path \o d) \o q
      BY <1>4, <2>2, Associates
    <3> QED BY <3>1, <3>2, <3>3
  <2> QED BY <2>4, <2>5
<1> QED BY <1>5, <1>6

\* A visited leaf is signed under its path, and under no other's.
LEMMA LeafIsSigned ==
  ASSUME NEW b, IsTree(b), PlainKeys(b), DistinctKeys(b), NEW V, NEW fs, NEW gs, NEW map,
         Visited(V, b, fs, map), NEW n \in Leaves(b),
         ToCome(fs) \subseteq ToCome(gs) \cup {n}
  PROVE  Visited(V \cup {n}, b, gs, [p \in DOMAIN map \cup {PathOf(b, n)} |->
                                       IF p = PathOf(b, n) THEN b[n].value ELSE map[p]])
<1>1. PICK path : path = PathOf(b, n)
  OBVIOUS
<1>2. PICK new : new = [p \in DOMAIN map \cup {path} |-> IF p = path THEN b[n].value ELSE map[p]]
  OBVIOUS
<1>3. \A k \in Leaves(b) : k \in DOMAIN b \ {0}
  BY DEF Leaves
<1>4. \A k \in DOMAIN b \ {0} : b[k].in # n
  <2>1. \A k \in DOMAIN b \ {0} : b[b[k].in].kind \in {"object", "array"}
    BY TreeContainers
  <2> QED BY <2>1 DEF Leaves
<1>5. \A k \in DOMAIN b \ {0} : b[k].in \in V \cup {n} => k \in (V \cup {n}) \cup ToCome(gs)
  BY <1>4 DEF Visited
<1>6. DOMAIN new = {PathOf(b, k) : k \in (V \cup {n}) \cap Leaves(b)}
  BY <1>1, <1>2 DEF Visited
<1>7. ASSUME NEW k \in (V \cup {n}) \cap Leaves(b) PROVE new[PathOf(b, k)] = b[k].value
  <2>1. CASE k = n
    BY <1>1, <1>2, <2>1
  <2>2. CASE k # n
    <3>1. PathOf(b, k) # path
      BY <1>1, <1>3, <2>2, OnePath
    <3>2. PathOf(b, k) \in DOMAIN map /\ map[PathOf(b, k)] = b[k].value
      BY <1>7, <2>2 DEF Visited
    <3> QED BY <1>2, <3>1, <3>2
  <2> QED BY <2>1, <2>2
<1>8. V \cup {n} \subseteq DOMAIN b /\ 0 \in V \cup {n}
  BY <1>3 DEF Visited
<1> QED BY <1>1, <1>2, <1>5, <1>6, <1>7, <1>8 DEF Visited

\* A visited container leaves what is in it to come.
LEMMA ContainerIsVisited ==
  ASSUME NEW b, NEW V, NEW fs, NEW gs, NEW map, Visited(V, b, fs, map),
         NEW n \in DOMAIN b \ Leaves(b),
         ToCome(fs) \cup Children(b, n) \subseteq ToCome(gs) \cup {n}
  PROVE  Visited(V \cup {n}, b, gs, map)
<1>1. (V \cup {n}) \cap Leaves(b) = V \cap Leaves(b)
  OBVIOUS
<1>2. ASSUME NEW k \in DOMAIN b \ {0}, b[k].in \in V \cup {n}
      PROVE  k \in (V \cup {n}) \cup ToCome(gs)
  <2>1. CASE b[k].in = n
    BY <2>1 DEF Children
  <2>2. CASE b[k].in \in V
    BY <2>2 DEF Visited
  <2> QED BY <1>2, <2>1, <2>2
<1> QED BY <1>1, <1>2 DEF Visited

LEMMA FramesGrow ==
  \A b, paths, known, more :
    /\ Seq(FramesOf(b, paths, known)) \subseteq Seq(FramesOf(b, paths \cup more, known))
    /\ FramesOf(b, paths, known) \subseteq FramesOf(b, paths \cup more, known)
<1> SUFFICES ASSUME NEW b, NEW paths, NEW known, NEW more
             PROVE  /\ Seq(FramesOf(b, paths, known)) \subseteq Seq(FramesOf(b, paths \cup more, known))
                    /\ FramesOf(b, paths, known) \subseteq FramesOf(b, paths \cup more, known)
  OBVIOUS
<1>1. FramesOf(b, paths, known) \subseteq FramesOf(b, paths \cup more, known)
  BY DEF FramesOf
<1>2. \A A, B : A \subseteq B => Seq(A) \subseteq Seq(B)
  <2> SUFFICES ASSUME NEW A, NEW B, A \subseteq B, NEW s \in Seq(A) PROVE s \in Seq(B)
    OBVIOUS
  <2>1. \A i \in 1..Len(s) : s[i] \in B
    OBVIOUS
  <2> QED BY <2>1
<1> QED BY <1>1, <1>2

LEMMA SignInvWalk ==
  ASSUME SignInv, NEW n \in DOMAIN body, getSignAllMap(n)
  PROVE  SignInv'
<1> DEFINE top == Head(frames)
           path == NewPath(top.path, n)
           less == [top EXCEPT !.left = @ \ {n}]
           down == body[n].kind \in {"object", "array"}
<1>1. /\ signPc = "walk" /\ frames # <<>> /\ n \in top.left
      /\ UNCHANGED <<signPc, sent, mediaType, signType, unread, err, body, handled>>
  BY DEF getSignAllMap, requestVars
<1>2. /\ down => frames' = <<Call(path, n)>> \o (<<less>> \o Tail(frames)) /\ signMap' = signMap
      /\ ~ down => /\ frames' = <<less>> \o Tail(frames)
                   /\ signMap' = [p \in DOMAIN signMap \cup {path} |->
                                    IF p = path THEN body[n].value ELSE signMap[p]]
  BY DEF getSignAllMap
<1>3. body # NoBody /\ signType = "all" /\ body[0].kind = "object"
  BY <1>1 DEF SignInv, FramesStand
<1>4. PICK paths : frames \in Seq(FramesOf(body, paths, Signable))
  BY DEF SignInv, FramesStand
<1>5. PICK F : F = FramesOf(body, paths \cup {path}, Signable)
  OBVIOUS
<1>6. top \in FramesOf(body, paths, Signable) /\ Tail(frames) \in Seq(FramesOf(body, paths, Signable))
      /\ ToCome(frames) = top.left \cup ToCome(Tail(frames))
  BY <1>1, <1>4, ToComeSplits
<1>7. top \in F /\ Tail(frames) \in Seq(F)
  BY <1>5, <1>6, FramesGrow
<1>8. /\ top = [path |-> top.path, node |-> top.node, left |-> top.left]
      /\ top.path \in paths /\ top.node \in DOMAIN body
      /\ top.left \subseteq Children(body, top.node)
      /\ Signable => top.path = PathHere(body, top.node)
  BY <1>6 DEF FramesOf
<1>9. n \in DOMAIN body \ {0} /\ body[n].in = top.node
  BY <1>1, <1>8 DEF Children
<1>10. Signable => path = PathOf(body, n)
  BY <1>8, <1>9, PathIsMade DEF SignInv
<1>11. /\ less = [path |-> top.path, node |-> top.node, left |-> top.left \ {n}]
       /\ less \in F
  <2>1. less = [path |-> top.path, node |-> top.node, left |-> top.left \ {n}]
    BY <1>8
  <2>2. top.left \ {n} \in SUBSET DOMAIN body
    BY <1>8 DEF Children
  <2> HIDE DEF less, top, path
  <2> QED BY <1>5, <1>8, <2>1, <2>2 DEF FramesOf
<1>12. PICK c : c = [path |-> path, node |-> n, left |-> Children(body, n)]
  OBVIOUS
<1>13. c \in F /\ Call(path, n) = c
  <2>1. Call(path, n) = c
    BY <1>12 DEF Call
  <2>2. Signable => c.path = PathHere(body, n)
    BY <1>9, <1>10, <1>12 DEF PathHere
  <2>3. Children(body, n) \in SUBSET DOMAIN body
    BY DEF Children
  <2> HIDE DEF path
  <2> QED BY <1>5, <1>12, <2>1, <2>2, <2>3 DEF FramesOf
<1> HIDE DEF less, top, path, down
<1>14. PICK rest : rest = <<less>> \o Tail(frames)
  OBVIOUS
<1>15. rest \in Seq(F) /\ ToCome(rest) = (top.left \ {n}) \cup ToCome(Tail(frames))
  <2>1. rest \in Seq(F)
    BY <1>7, <1>11, <1>14
  <2>2. ToCome(<<less>> \o Tail(frames)) = less.left \cup ToCome(Tail(frames))
    BY <1>7, <1>11, ToComeJoins
  <2> QED BY <1>11, <1>14, <2>1, <2>2
<1>16. down => frames' = <<c>> \o rest /\ signMap' = signMap
  BY <1>2, <1>13, <1>14
<1>17. ~ down => frames' = rest
  BY <1>2, <1>14
<1>18. down => frames' \in Seq(F) /\ ToCome(frames') = Children(body, n) \cup ToCome(rest)
  <2>1. <<c>> \o rest \in Seq(F)
    BY <1>13, <1>15
  <2>2. ToCome(<<c>> \o rest) = c.left \cup ToCome(rest)
    BY <1>13, <1>15, ToComeJoins
  <2> QED BY <1>12, <1>16, <2>1, <2>2
<1>19. frames' \in Seq(F)
  BY <1>15, <1>17, <1>18
<1>20. Signable' = Signable
  BY <1>1 DEF Signable
<1>21. FramesStand'
  <2>1. frames' \in Seq(FramesOf(body', paths \cup {path}, Signable'))
    BY <1>1, <1>5, <1>19, <1>20
  <2> QED BY <1>1, <1>3, <2>1 DEF FramesStand
<1>22. SignTypeOK'
  <2>1. \A i \in 1..Len(frames') : frames'[i].left \subseteq Children(body', frames'[i].node)
    BY <1>1, <1>5, <1>19, FramesAreTyped
  <2> QED BY <1>1, <2>1 DEF SignInv, SignTypeOK
<1>23. BodyIsRead'
  BY <1>1, <1>3 DEF SignInv, BodyIsRead
<1>24. ASSUME Signable PROVE \E V : Visited(V, body, frames', signMap')
  <2>1. PICK V : Visited(V, body, frames, signMap)
    BY <1>1, <1>24 DEF SignInv, WalkIsSigned
  <2>2. CASE down
    <3>1. n \in DOMAIN body \ Leaves(body)
      BY <2>2 DEF Leaves, down
    <3>2. ToCome(frames) \cup Children(body, n) \subseteq ToCome(frames') \cup {n}
      BY <1>6, <1>15, <1>18, <2>2
    <3>3. Visited(V \cup {n}, body, frames', signMap)
      BY <2>1, <3>1, <3>2, ContainerIsVisited
    <3> QED BY <1>16, <2>2, <3>3
  <2>3. CASE ~ down
    <3>1. n \in Leaves(body)
      BY <1>9, <2>3 DEF Leaves, down
    <3>2. ToCome(frames) \subseteq ToCome(frames') \cup {n}
      BY <1>6, <1>15, <1>17, <2>3
    <3>3. IsTree(body) /\ PlainKeys(body) /\ DistinctKeys(body)
      BY <1>3, <1>24, BodyIsTree DEF SignInv, Signable
    <3>4. signMap' = [p \in DOMAIN signMap \cup {PathOf(body, n)} |->
                        IF p = PathOf(body, n) THEN body[n].value ELSE signMap[p]]
      BY <1>2, <1>10, <1>24, <2>3
    <3>5. Visited(V \cup {n}, body, frames', signMap')
      BY <2>1, <3>1, <3>2, <3>3, <3>4, LeafIsSigned
    <3> QED BY <3>5
  <2> QED BY <2>2, <2>3
<1>25. WalkIsSigned'
  BY <1>1, <1>3, <1>20, <1>24 DEF WalkIsSigned
<1> QED BY <1>21, <1>22, <1>23, <1>25 DEF SignInv


LEMMA SignInvStutter == SignInv /\ UNCHANGED signVars => SignInv'
<1> SUFFICES ASSUME SignInv, UNCHANGED signVars PROVE SignInv'
  OBVIOUS
<1>1. UNCHANGED <<signPc, sent, mediaType, signType, unread, err, body, frames, signMap, handled>>
  BY DEF signVars, requestVars
<1>2. SignTypeOK' /\ BodyIsRead'
  BY <1>1 DEF SignInv, SignTypeOK, BodyIsRead
<1>3. Signable' = Signable /\ FirstLevel' = FirstLevel
  BY <1>1 DEF Signable, FirstLevel
<1>4. FramesStand' /\ WalkIsSigned'
  BY <1>1, <1>3 DEF SignInv, FramesStand, WalkIsSigned
<1> QED BY <1>2, <1>4 DEF SignInv

\* When no call is left, every node was visited.
LEMMA AllAreVisited ==
  ASSUME NEW b, IsTree(b), NEW V, NEW map, Visited(V, b, <<>>, map)
  PROVE  V = DOMAIN b
<1> DEFINE T == {k \in Nat : k \in DOMAIN b => k \in V}
<1>1. ToCome(<<>>) = {}
  BY DEF ToCome
<1>2. ASSUME NEW k \in Nat, \A m \in Nat : m < k => m \in T PROVE k \in T
  <2> SUFFICES ASSUME k \in DOMAIN b PROVE k \in V
    OBVIOUS
  <2>1. CASE k = 0
    BY <2>1 DEF Visited
  <2>2. CASE k # 0
    <3>1. b[k].in \in DOMAIN b /\ b[k].in < k /\ b[k].in \in Nat
      BY <2>2, TreeOrder
    <3>2. b[k].in \in V
      BY <1>2, <3>1
    <3> QED BY <1>1, <2>2, <3>2 DEF Visited
  <2> QED BY <2>1, <2>2
<1>3. \A k \in Nat : k \in T
  <2> HIDE DEF T
  <2> QED BY <1>2, StrongInduction
<1>4. DOMAIN b \subseteq Nat /\ V \subseteq DOMAIN b
  BY DEF IsTree, Visited
<1> QED BY <1>3, <1>4

\* Each leaf is signed under its path, once the walk is over.
LEMMA LeavesAreSigned ==
  ASSUME SignInv, Signable, signPc \in {"handle", "done"}
  PROVE  /\ DOMAIN signMap = {PathOf(body, k) : k \in Leaves(body)}
         /\ \A k \in Leaves(body) : signMap[PathOf(body, k)] = body[k].value
<1>1. PICK V : Visited(V, body, frames, signMap)
  BY DEF SignInv, WalkIsSigned
<1>2. frames = <<>>
  BY DEF SignInv, FramesStand
<1>3. V = DOMAIN body
  BY <1>1, <1>2, AllAreVisited, BodyIsTree DEF SignInv, Signable
<1>4. V \cap Leaves(body) = Leaves(body)
  BY <1>3 DEF Leaves
<1> QED BY <1>1, <1>4 DEF Visited

LEMMA SignInvLeaves == SignInv => LeavesSigned
<1> SUFFICES ASSUME SignInv, signPc \in {"handle", "done"}, signType = "all", body # NoBody,
                    body[0].kind = "object", PlainKeys(body)
             PROVE  Signed = Entries(body)
  BY DEF LeavesSigned
<1>1. /\ DOMAIN signMap = {PathOf(body, k) : k \in Leaves(body)}
      /\ \A k \in Leaves(body) : signMap[PathOf(body, k)] = body[k].value
  BY LeavesAreSigned DEF Signable
<1> QED BY <1>1 DEF Signed, Entries

LEMMA SignInvFields == SignInv => NothingUnsigned
<1> SUFFICES ASSUME SignInv, signPc = "done", mediaType # "other", err = "none",
                    sent[0].kind = "object", PlainKeys(sent),
                    NEW n \in Children(sent, 0) \cap Leaves(sent)
             PROVE  /\ sent[n].key \in DOMAIN signMap
                    /\ ToSet(sent[n].value) \subseteq ToSet(signMap[sent[n].key])
  BY DEF NothingUnsigned
<1>1. body # NoBody
  BY DEF SignInv, BodyIsRead
<1>2. IsTree(body) /\ DistinctKeys(body) /\ body[0] = sent[0] /\ PlainKeys(body)
  BY <1>1, BodyIsTree DEF SignInv
<1>3. sent \in Bodies /\ IsTree(sent)
  BY BodiesAssumption DEF SignInv, SignTypeOK
\* The body has the field, with no less in it.
<1>4. PICK e \in Children(body, 0) : /\ e \in Leaves(body) /\ body[e].key = sent[n].key
                                     /\ ToSet(sent[n].value) \subseteq ToSet(body[e].value)
  <2>1. CASE mediaType = "json" /\ body = sent
    BY <2>1
  <2>2. CASE mediaType = "form" /\ body = FormMap(sent)
    <3>1. IsForm(sent)
      BY <2>2 DEF SignInv, BodyIsRead
    <3>2. PICK e \in Children(body, 0) : /\ body[e].key = sent[n].key /\ e \in Leaves(body)
                                         /\ body[e].value = Joined(sent, sent[n].key)
      BY <1>3, <2>2, <3>1, FormIsTree
    <3>3. sent[n].value = <<n>> /\ ToSet(<<n>>) = {n}
      <4>1. n \in DOMAIN sent /\ sent[n].kind = "value"
        BY <3>1 DEF Leaves, IsForm
      <4> QED BY <1>3, <4>1, BodiesAssumption DEF ToSet
    <3>4. n \in ToSet(Joined(sent, sent[n].key))
      BY <1>3, JoinedHasAll
    <3> QED BY <3>2, <3>3, <3>4
  <2> QED BY <1>1, <2>1, <2>2 DEF SignInv, BodyIsRead
<1>5. CASE signType = "all"
  <2>1. /\ DOMAIN signMap = {PathOf(body, k) : k \in Leaves(body)}
        /\ \A k \in Leaves(body) : signMap[PathOf(body, k)] = body[k].value
    BY <1>1, <1>2, <1>5, LeavesAreSigned DEF Signable
  <2>2. PathOf(body, e) = body[e].key
    <3>1. e \in DOMAIN body /\ body[e].in = 0
      BY DEF Children
    <3> QED BY <1>2, <3>1, PathEquation
  <2> QED BY <1>4, <2>1, <2>2
<1>6. CASE signType = "first"
  <2>1. signMap = FirstLevel
    BY <1>1, <1>2, <1>6 DEF SignInv, WalkIsSigned
  <2>2. PICK k : k = body[e].key
    OBVIOUS
  <2>3. k \in DOMAIN signMap
        /\ signMap[k] = body[CHOOSE m \in Children(body, 0) : body[m].key = k].value
    BY <2>1, <2>2 DEF FirstLevel
  <2>4. PICK f : f = CHOOSE m \in Children(body, 0) : body[m].key = k
    OBVIOUS
  <2>5. f \in Children(body, 0) /\ body[f].key = k
    BY <2>2, <2>4
  <2>6. f = e
    BY <1>2, <2>2, <2>5 DEF DistinctKeys, Children
  <2> QED BY <1>4, <2>2, <2>3, <2>4, <2>6
<1> QED BY <1>5, <1>6 DEF SignInv, SignTypeOK

LEMMA SignInvHandler == SignInv => HandlerGetsSigned
BY DEF SignInv, BodyIsRead, HandlerGetsSigned

(* What is signed of a request is what its handler finds: under plain keys   *)
(* the map is the leaves of the body, each under its own path, in whatever   *)
(* order getSignAllMap went through the objects; no field is left out; and    *)
(* the body reaches the handler whole unless it could not be read.           *)
THEOREM SignedStaysHandled == SignSpec => []SignedIsHandled
<1>1. SignInit => SignInv
  BY SignInvInit
<1>2. SignInv /\ [SignNext]_signVars => SignInv'
  BY SignInvBody, SignInvSign, SignInvWalk, SignInvReturn, SignInvHandle, SignInvStutter
     DEF SignNext
<1>3. SignInv => SignedIsHandled
  BY SignInvLeaves, SignInvFields, SignInvHandler DEF SignInv, SignedIsHandled
<1> QED BY <1>1, <1>2, <1>3, PTL DEF SignSpec

=============================================================================
