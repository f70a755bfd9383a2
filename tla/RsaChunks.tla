------------------------------ MODULE RsaChunks ------------------------------
(***************************************************************************)
(* utils/rsa.go: a text longer than one RSA block is encrypted chunk by     *)
(* chunk, the blocks are put one after the other, and the decrypting        *)
(* function cuts them apart again by the size of its key.                   *)
(*                                                                         *)
(* A chunk is the part of the text it holds, from a byte on up to another.  *)
(***************************************************************************)
EXTENDS Integers, Sequences

CONSTANTS
  Bits,       \* of keys
  Overheads,  \* of the paddings: 11 of PKCS1v15, 66 of OAEP with SHA-256
  SmallestKey, \* 1024, the fewest bits GenerateRSAKey makes
  Sizes       \* of texts, in bytes

ASSUME RsaAssumption ==
  /\ Bits \subseteq Nat /\ Overheads \subseteq Nat /\ Sizes \subseteq Nat
  /\ SmallestKey \in Nat /\ \A o \in Overheads : 8 * (o + 1) <= SmallestKey

VARIABLES
  phase,
  bits, overhead, size,
  at,       \* bytes of the text encrypted
  blocks,   \* the ciphertext: for each block the part of the text in it
  block, offset,
            \* where the decrypting function is: blocks passed, bytes after them
  got,      \* bytes of the text decrypted, in order
  outcome
keyVars == <<bits, overhead, size>>
encVars == <<at, blocks>>
decVars == <<block, offset, got>>
rsaVars == <<phase, keyVars, encVars, decVars, outcome>>

Least(a, b) == IF a < b THEN a ELSE b

\* A block has as many bytes as the modulus, a part of one counted as one.
BlockSize == (bits + 7) \div 8

RsaInit ==
  /\ phase = "encrypt"
  /\ bits \in Bits /\ overhead \in Overheads /\ size \in Sizes
  /\ at = 0 /\ blocks = <<>>
  /\ block = 0 /\ offset = 0 /\ got = 0
  /\ outcome = "none"

\* Mutant: the overhead of the padding is forgotten.
EncryptLimit_Full == bits \div 8

\* partLen of RsaEncrypt and RsaEncryptOAEP, of RsaDecrypt and RsaDecryptOAEP.
EncryptLimit == (bits \div 8) - overhead
DecryptLimit == bits \div 8

(* split: chunks of the limit and one of what is left; a limit that is not   *)
(* positive panics, in the division or in the slice.                         *)

SplitPanics ==
  /\ phase = "encrypt" /\ at = 0 /\ EncryptLimit <= 0
  /\ phase' = "done" /\ outcome' = "panic"
  /\ UNCHANGED <<keyVars, encVars, decVars>>

(* The next chunk becomes a block. The library may refuse a key that is      *)
(* smaller than GenerateRSAKey would make it.                                *)
EncryptChunk ==
  LET n == Least(EncryptLimit, size - at)
  IN /\ phase = "encrypt" /\ EncryptLimit > 0 /\ at < size
     /\ \/ /\ n <= BlockSize - overhead
           /\ blocks' = Append(blocks, [from |-> at, upto |-> at + n])
           /\ at' = at + n
           /\ UNCHANGED <<phase, outcome>>
        \/ /\ n > BlockSize - overhead \/ bits < SmallestKey
           /\ phase' = "done" /\ outcome' = "error"
           /\ UNCHANGED encVars
     /\ UNCHANGED <<keyVars, decVars>>

Encrypted ==
  /\ phase = "encrypt" /\ EncryptLimit > 0 /\ at = size
  /\ phase' = "decrypt"
  /\ UNCHANGED <<keyVars, encVars, decVars, outcome>>

(* The next chunk is a block only when it begins and ends where one does;    *)
(* another one opens to an error, or by chance to what is not in the text.   *)
DecryptChunk ==
  LET left == BlockSize - offset
      n == IF block + 1 < Len(blocks) THEN DecryptLimit ELSE Least(DecryptLimit, left)
      next == blocks[block + 1]
  IN /\ phase = "decrypt" /\ block < Len(blocks)
     /\ IF n < left
        THEN block' = block /\ offset' = offset + n
        ELSE block' = block + 1 /\ offset' = n - left
     /\ \/ /\ offset = 0 /\ n = BlockSize /\ next.from = got
           /\ got' = next.upto
           /\ UNCHANGED <<phase, outcome>>
        \/ /\ offset # 0 \/ n # BlockSize \/ next.from # got
           /\ \/ phase' = "done" /\ outcome' = "error"
              \/ outcome' = "other" /\ UNCHANGED phase
           /\ UNCHANGED got
     /\ UNCHANGED <<keyVars, encVars>>

Decrypted ==
  /\ phase = "decrypt" /\ block = Len(blocks)
  /\ phase' = "done"
  /\ outcome' = IF outcome = "none" THEN "text" ELSE outcome
  /\ UNCHANGED <<keyVars, encVars, decVars>>

RsaNext == SplitPanics \/ EncryptChunk \/ Encrypted \/ DecryptChunk \/ Decrypted

RsaSpec == RsaInit /\ [][RsaNext]_rsaVars

-----------------------------------------------------------------------------
RsaTypeOK ==
  /\ phase \in {"encrypt", "decrypt", "done"}
  /\ bits \in Bits /\ overhead \in Overheads /\ size \in Sizes
  /\ at \in 0..size
  /\ blocks \in Seq([from : Nat, upto : Nat])
  /\ block \in 0..Len(blocks) /\ offset \in 0..BlockSize /\ got \in Nat
  /\ outcome \in {"none", "text", "other", "error", "panic"}

(* What RsaDecrypt makes of RsaEncrypt's result under the other half of the  *)
(* key is the text, all of it and nothing else, whatever its length: for     *)
(* each key of whole bytes that GenerateRSAKey makes.                        *)
RsaRoundTrip ==
  phase = "done" /\ bits >= SmallestKey /\ bits % 8 = 0 => outcome = "text" /\ got = size
=============================================================================
