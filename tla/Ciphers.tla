------------------------------- MODULE Ciphers -------------------------------
(***************************************************************************)
(* The block ciphers of utils/des3.go and utils/sm4.go: padding, the layout *)
(* of a ciphertext (the length of the IV, the IV, the blocks), and what the *)
(* decrypting function makes of a ciphertext that was cut on its way, or is *)
(* that of another cipher or key.                                           *)
(*                                                                         *)
(* A body is the padded text itself, with the cipher and the key it is      *)
(* hidden under; whoever has both reads it, block by block, others read     *)
(* any bytes.                                                               *)
(***************************************************************************)
EXTENDS Integers, Sequences

CONSTANTS
  Kinds,      \* [name, block, key, iv]: sizes of a block and a key, CBC or ECB
  Texts,      \* plaintexts, sequences of bytes
  Keys,       \* keys are told apart by name and size: [name, size]
  Garbage     \* bytes that a body may end with under a wrong key

Byte == 0..255

ASSUME CipherAssumption ==
  /\ \A k \in Kinds : k.block \in 1..16 /\ k.key \in Nat /\ k.iv \in BOOLEAN
  /\ Texts \subseteq Seq(Byte) /\ Garbage \subseteq Byte
  /\ \A key \in Keys : key.size \in Nat

VARIABLES
  pc,
  text,           \* what is encrypted
  kind, key,      \* with what
  wire,           \* the ciphertext: its length, its first byte, its body
  reader,         \* what it is decrypted with: a kind and a key
  result          \* what comes out in the end
vars == <<pc, text, kind, key, wire, reader, result>>

None == [size |-> 0, first |-> 0, body |-> <<>>]
Fails(how) == [is |-> how, text |-> <<>>]

Init ==
  /\ pc = "encrypt"
  /\ text \in Texts /\ kind \in Kinds /\ key \in Keys
  /\ wire = None
  /\ reader = [kind |-> kind, key |-> key]
  /\ result = Fails("none")

-----------------------------------------------------------------------------
\* Mutant: a text of whole blocks gets no padding.
Pad_WhenNeeded(p, block) ==
  LET n == (block - (Len(p) % block)) % block IN p \o [i \in 1..n |-> n]

Pad(p, block) ==
  LET n == block - (Len(p) % block) IN p \o [i \in 1..n |-> n]

Unpad(p, block) ==
  LET n == p[Len(p)]
  IN IF n < 1 \/ n > block THEN Fails("error")
     ELSE [is |-> "text", text |-> SubSeq(p, 1, Len(p) - n)]

\* The bytes before the body.
HeadSize(k) == IF k.iv THEN 1 + k.block ELSE 0

Encrypt ==
  /\ pc = "encrypt"
  /\ IF key.size # kind.key
     THEN pc' = "done" /\ result' = Fails("error") /\ UNCHANGED wire
     ELSE LET padded == Pad(text, kind.block)
          IN /\ wire' = [size |-> HeadSize(kind) + Len(padded), first |-> kind.block, body |-> padded]
             /\ pc' = "carry" /\ UNCHANGED result
  /\ UNCHANGED <<text, kind, key, reader>>

\* The ciphertext comes whole to whoever has its key, or it does not: an
\* ECB ciphertext read by a CBC function has any first byte.
Carry ==
  /\ pc = "carry"
  /\ \E k \in Kinds, by \in Keys, n \in 0..wire.size, b \in Garbage :
       /\ reader' = [kind |-> k, key |-> by]
       /\ wire' = [wire EXCEPT !.size = n, !.first = IF kind.iv THEN @ ELSE b]
  /\ pc' = "decrypt"
  /\ UNCHANGED <<text, kind, key, result>>

\* What is left of the body, for a reader who takes off head bytes.
Body(head) ==
  IF head = HeadSize(kind) /\ reader = [kind |-> kind, key |-> key]
  THEN {SubSeq(wire.body, 1, wire.size - head)}
  ELSE {[i \in 1..(wire.size - head) |-> b] : b \in Garbage}

(* The checks come before the cipher is set up; what they let pass can still *)
(* panic: in NewCBCDecrypter, in CryptBlocks, in the index of the last byte. *)
Open(head) ==
  \E padded \in Body(head) :
    result' = IF padded = <<>> THEN Fails("panic") ELSE Unpad(padded, reader.kind.block)

DecryptCBC ==
  /\ pc = "decrypt" /\ reader.kind.iv
  /\ LET block == reader.kind.block
         head == 1 + wire.first
     IN \/ /\ \/ reader.key.size # reader.kind.key
              \/ wire.size < 2 \/ wire.first \notin 1..16
              \/ wire.size < head
           /\ result' = Fails("error")
        \/ /\ reader.key.size = reader.kind.key
           /\ wire.size >= 2 /\ wire.first \in 1..16 /\ wire.size >= head
           /\ IF wire.first # block \/ (wire.size - head) % block # 0
              THEN result' = Fails("panic")
              ELSE Open(head)
  /\ pc' = "done"
  /\ UNCHANGED <<text, kind, key, wire, reader>>

DecryptECB ==
  /\ pc = "decrypt" /\ ~reader.kind.iv
  /\ IF reader.key.size # reader.kind.key \/ wire.size % reader.kind.block # 0
     THEN result' = Fails("error")
     ELSE Open(0)
  /\ pc' = "done"
  /\ UNCHANGED <<text, kind, key, wire, reader>>

Next == Encrypt \/ Carry \/ DecryptCBC \/ DecryptECB

Spec == Init /\ [][Next]_vars

-----------------------------------------------------------------------------
TypeOK ==
  /\ pc \in {"encrypt", "carry", "decrypt", "done"}
  /\ text \in Texts /\ kind \in Kinds /\ key \in Keys
  /\ wire \in [size : Nat, first : Byte, body : Seq(Byte)]
  /\ reader \in [kind : Kinds, key : Keys]
  /\ result.is \in {"none", "error", "panic", "text"}

Whole == wire.size = HeadSize(kind) + Len(wire.body) /\ reader = [kind |-> kind, key |-> key]

(* Whatever its length, a text comes back as it was when its ciphertext      *)
(* arrives whole at the function that belongs to it.                         *)
RoundTrip ==
  pc = "done" /\ key.size = kind.key /\ Whole =>
    result = [is |-> "text", text |-> text]
=============================================================================
