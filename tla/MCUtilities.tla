----------------------------- MODULE MCUtilities -----------------------------
(***************************************************************************)
(* Small instances, for TLC, of the parts that turn one text into another: *)
(* Ciphers, RsaChunks, Signing, Secrets and Masking.  They have nothing in *)
(* common, so a behaviour is one of one of them, and the others rest.      *)
(***************************************************************************)
EXTENDS Ciphers, RsaChunks, Signing, Secrets, Masking

VARIABLE part  \* "cipher", "rsa", "sign", "secret" or "mask"

-----------------------------------------------------------------------------
(* Ciphers: the sizes of 3DES and SM4, texts around the block sizes.         *)
RealKinds ==
  { [name |-> "DES3", block |-> 8, key |-> 24, iv |-> TRUE],
    [name |-> "DES3ECB", block |-> 8, key |-> 24, iv |-> FALSE],
    [name |-> "SM4", block |-> 16, key |-> 16, iv |-> TRUE] }

RealKeys == { [name |-> "k", size |-> 24], [name |-> "l", size |-> 24],
              [name |-> "k", size |-> 16], [name |-> "l", size |-> 15] }

SomeTexts == { [i \in 1..n |-> b] : n \in 0..9 \union 15..17, b \in {1, 65} }

(* RsaChunks: texts up to several blocks.                                    *)
SomeSizes == 0..380

(* Signing: flat bodies and forms with a field that occurs twice, nested     *)
(* ones with arrays and nulls, and ones whose keys hold a separator or       *)
(* nothing.                                                                  *)
Node(in, name, type, n) ==
  [in |-> in, key |-> name, kind |-> type, value |-> IF type = "null" THEN <<>> ELSE <<n>>]
Sent(type, nodes) ==
  [n \in 0..Len(nodes) |->
     IF n = 0 THEN Node(0, <<>>, type, 0)
     ELSE Node(nodes[n][1], nodes[n][2], nodes[n][3], n)]

A == <<"a">>
B == <<"b">>
C == <<"c">>
First == <<"[0]">>
Second == <<"[1]">>

PlainBodies == {
  Sent("text", <<>>),
  Sent("array", << <<0, First, "value">> >>),
  Sent("object", <<>>),
  Sent("object", << <<0, A, "value">>, <<0, B, "value">>, <<0, A, "value">> >>),
  Sent("object", << <<0, A, "value">>, <<0, B, "null">>, <<0, C, "object">>, <<3, A, "value">> >>),
  Sent("object", << <<0, A, "object">>, <<1, B, "array">>, <<2, First, "value">>,
                    <<2, Second, "object">>, <<4, A, "value">>, <<0, B, "value">> >>),
  Sent("object", << <<0, A, "array">>, <<1, First, "array">>, <<2, First, "null">>,
                    <<2, Second, "value">>, <<1, Second, "value">>, <<0, C, "array">> >>),
  Sent("object", << <<0, A, "object">>, <<0, B, "object">>, <<0, C, "array">>,
                    <<1, A, "value">>, <<1, B, "null">>, <<2, A, "value">>, <<2, B, "object">>,
                    <<7, A, "value">>, <<3, First, "value">> >>) }

Confusing == {
  Sent("object", << <<0, <<"a", ".", "b">>, "value">>, <<0, A, "object">>, <<2, B, "value">> >>),
  Sent("object", << <<0, <<"a", "[0]">>, "value">>, <<0, A, "array">>, <<2, First, "value">> >>),
  Sent("object", << <<0, <<>>, "object">>, <<1, B, "value">>, <<0, B, "value">> >>) }

AllBodies == PlainBodies \cup Confusing

(* Secrets: one variable, secrets with and without a part that has a meaning *)
(* in a configuration, alone and beside other parts.                         *)
Piece(type, name, inner) == [kind |-> type, name |-> name, inner |-> inner]
PlainWord(name) == Piece("word", name, <<>>)
Pass == PlainWord("pass")
Ref == Piece("var", "V", <<>>)
Opening == Piece("open", "V", <<>>)
Closing == Piece("close", "", <<>>)
Old(type) == Piece(type, "k1", <<PlainWord("old")>>)

SomeSecrets == {<<Pass>>, <<Pass, PlainWord("word")>>, <<Pass, Ref>>, <<Old("SM4")>>}
SomeContexts == {
  << <<>>, <<>> >>,
  << <<PlainWord("a"), Ref>>, <<PlainWord("b")>> >>,
  << <<Opening>>, <<Closing, PlainWord("b"), Closing>> >>,
  << <<Opening, Closing, Ref>>, <<Old("SM4"), Old("DES3")>> >>,
  << <<Opening, PlainWord("c")>>, <<Ref, Closing>> >> }
SomeSettings == [{"V"} -> {<<>>, <<PlainWord("set")>>, <<Old("DES3")>>}]

Command(version, regex, antPath, gen, encType, hasValue) ==
  [version |-> version, regex |-> regex, antPath |-> antPath, gen |-> gen,
   encType |-> encType, hasValue |-> hasValue]

Gens == {{}, {"DES3"}, {"SM4"}, {"MIX"}}
SomeCommands ==
  {Command(FALSE, "none", "none", g, e, h) :
     g \in Gens, e \in {"des3", "sm4"}, h \in BOOLEAN}
  \cup {Command(FALSE, "none", "none", {"DES3"}, "", FALSE)}
  \cup {Command(TRUE, "both", "none", {}, "des3", TRUE),
        Command(FALSE, "half", "none", {}, "des3", TRUE),
        Command(FALSE, "none", "both", {"SM4"}, "des3", TRUE)}

-----------------------------------------------------------------------------
(* Masking: rules by name and by content, masks of their own, a MaxLength    *)
(* that is longer than what regexp takes and one that is too short; plain    *)
(* fields, messages, documents and queries.                                  *)
NoMask == [strategy |-> "", prefix |-> 0, suffix |-> 0]
Rule(names, type, mask) == [names |-> names, type |-> type, mask |-> mask]
Names == <<Rule({"mobile"}, "mobile", NoMask), Rule({"note", "pin"}, "password", NoMask)>>
Custom == <<Rule({"mobile", "pin"}, "none", [strategy |-> "suffix", prefix |-> 0, suffix |-> 2])>>
Numbers == <<Rule({}, "qq", NoMask), Rule({}, "bankcard", NoMask), Rule({}, "mobile", NoMask)>>
Cards == <<Rule({}, "name", NoMask),
           Rule({}, "idcard", [strategy |-> "border", prefix |-> 9, suffix |-> 9]),
           Rule({}, "bankcard", NoMask)>>

MCConfigs ==
  {[fields |-> <<>>, content |-> <<>>, maxLength |-> 0],
   [fields |-> Names, content |-> Numbers, maxLength |-> 8],
   [fields |-> Custom, content |-> Cards, maxLength |-> 2000],
   [fields |-> Custom, content |-> <<>>, maxLength |-> 2]}

(* Texts by the classes of their characters: numbers that a pattern takes,   *)
(* and rows of digits that it does not take, or not from their first on.     *)
Text(classes) == [i \in DOMAIN classes |-> 12 * i + classes[i]]
Letter(n) == [i \in 1..n |-> Other]
Zeros(n) == [i \in 1..n |-> 0]
MobileNumber == <<1, 3, 8, 0, 0, 1, 3, 8, 0, 0, 0>>
Landline == <<0, 2, 1, 0, 0, 3, 8, 0, 0, 0, 0>>
CardNumber == Zeros(13) \o <<1, 2, 3>>
IdNumber == <<1, 1, 0, 1, 0, 1, 1, 9, 9, 0, 0, 1, 0, 1, 1, 2, 3, LetterX>>
Leaf(parent, name) == [parent |-> parent, key |-> name]
Logged(shape, leaves) == [kind |-> shape, leaves |-> leaves, compact |-> TRUE]
Field(name, classes) == Logged("plain", [l \in {Leaf("field", name)} |-> Text(classes)])

Document ==
  [l \in {Leaf("object", "Mobile"), Leaf("object", "other"), Leaf("array", "pin")} |->
     Text(IF l.key = "other" THEN Letter(9) ELSE IF l.key = "pin" THEN Zeros(6) ELSE MobileNumber)]

MCValues ==
  {Logged("message", [l \in {Leaf("none", "other")} |->
     Text(IdNumber \o <<Other>> \o MobileNumber \o <<Other>> \o Landline)]),
   Field("Mobile", MobileNumber), Field("other", Letter(2) \o CardNumber),
   Field("other", <<0, 0, 0, 0, 1, 2, 3, 4>>),
   Field("note", <<1, 2, 3, 4, 5>>),
   Logged("json", Document), [Logged("json", Document) EXCEPT !.compact = FALSE],
   Logged("query", [l \in {Leaf("query", "mobile"), Leaf("query", "other"), Leaf("badPair", "pin")} |->
     Text(IF l.key = "other" THEN Letter(4) ELSE MobileNumber)])}

MCLower == [name \in {"mobile", "Mobile", "note", "other", "pin"} |->
              IF name = "Mobile" THEN "mobile" ELSE name]

-----------------------------------------------------------------------------
NoCipher ==
  /\ text = <<>> /\ kind = (CHOOSE k \in Kinds : k.key = 24)
  /\ key = [name |-> "l", size |-> 15] /\ Init
NoChunks == bits = 512 /\ overhead = 11 /\ size = 0 /\ RsaInit
NoSignature == sent = Sent("text", <<>>) /\ mediaType = "other" /\ signType = "all" /\ SignInit
NoSecret ==
  /\ args = Command(TRUE, "both", "none", {}, "des3", TRUE) /\ secret = <<Pass>>
  /\ ownKeys = [type \in Types |-> ""] /\ keys = ownKeys
  /\ env = [v \in {"V"} |-> <<>>] /\ SecretInit
NoMasking == currentConfig = [fields |-> <<>>, content |-> <<>>, maxLength |-> 0] /\ MaskInit

UtilitiesInit ==
  \/ part = "cipher" /\ NoChunks /\ NoSignature /\ NoSecret /\ NoMasking /\ Init
  \/ part = "rsa" /\ NoCipher /\ NoSignature /\ NoSecret /\ NoMasking /\ RsaInit
  \/ part = "sign" /\ NoCipher /\ NoChunks /\ NoSecret /\ NoMasking /\ SignInit
  \/ part = "secret" /\ NoCipher /\ NoChunks /\ NoSignature /\ NoMasking /\ SecretInit
  \/ part = "mask" /\ NoCipher /\ NoChunks /\ NoSignature /\ NoSecret /\ MaskInit

UtilitiesNext ==
  /\ UNCHANGED part
  /\ \/ part = "cipher" /\ Next /\ UNCHANGED <<rsaVars, signVars, secretVars, maskVars>>
     \/ part = "rsa" /\ RsaNext /\ UNCHANGED <<vars, signVars, secretVars, maskVars>>
     \/ part = "sign" /\ SignNext /\ UNCHANGED <<vars, rsaVars, secretVars, maskVars>>
     \/ part = "secret" /\ SecretNext /\ UNCHANGED <<vars, rsaVars, signVars, maskVars>>
     \/ part = "mask" /\ MaskNext /\ UNCHANGED <<vars, rsaVars, signVars, secretVars>>

all == <<part, vars, rsaVars, signVars, secretVars, maskVars>>

(* A goroutine inside UpdateSensitiveConfig runs.                            *)
UtilitiesSpec ==
  /\ UtilitiesInit /\ [][UtilitiesNext]_all
  /\ WF_all(part = "mask" /\ UpdateStep /\ UNCHANGED <<part, vars, rsaVars, signVars, secretVars>>)

=============================================================================
