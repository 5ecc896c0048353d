--------------------------- MODULE StructuredData ---------------------------
(* Hashing of messages and of typed data in the SDK, and verification of     *)
(* what a wallet signed (packages/sdk/src/wallets/signing).  A preimage is a *)
(* sequence of pieces, text or hex digits; a digest is its preimage.  A type *)
(* is [base, list], types map a name to the sequence of its fields, and a    *)
(* field that a message leaves out is undefined.                             *)
EXTENDS Integers, Sequences, FiniteSets, SequencesExt

Text(t) == <<"text", t>>
Word(n) == <<"hex", "word", n>>             \* 64 digits, padded with zeroes
Digest(preimage) == <<"hex", "sha256", preimage>>

IsHex(piece) == piece[1] = "hex"

\* createHash('sha256'), of a text or of bytes.
HashText(pieces) == Digest(<<"text", pieces>>)
HashBytes(pieces) == Digest(<<"bytes", pieces>>)

\* Buffer.from(_, 'hex') reads up to the first character that is no hex digit.
FromHex(pieces) ==
    LET end == SelectInSeq(pieces, LAMBDA p : ~IsHex(p))
    IN  IF end = 0 THEN pieces ELSE SubSeq(pieces, 1, end - 1)

-----------------------------------------------------------------------------
\* hashMessage: the prefix of the chain, the length, the message.
MessagePrefix(chain) ==
    CASE chain = "stacks" -> <<Text("Stacks Signed Message"), Text("length")>>
      [] chain = "bitcoin" -> <<Text("Bitcoin Signed Message"), Text("length")>>
      [] chain = "ethereum" -> <<Text("Ethereum Signed Message"), Text("length")>>
      [] chain = "solana" -> <<>>
      [] chain \in {"sui", "aptos"} -> <<Text("Signed Message"), Text("length")>>
HashMessage(chain, message) ==
    LET first == HashText(Append(MessagePrefix(chain), Text(message)))
    IN  IF chain = "bitcoin" THEN HashBytes(<<first>>) ELSE first

-----------------------------------------------------------------------------
Fields(types, name) == IF name \in DOMAIN types THEN types[name] ELSE <<>>

\* findTypeDependencies: the types in reach of a type, itself included.
TypeDependencies(name, types) ==
    LET uses(t) == {f.type.base : f \in ToSet(Fields(types, t))} \cap DOMAIN types
        within[k \in 0..Cardinality(DOMAIN types)] ==
            IF k = 0 THEN {name}
            ELSE within[k - 1] \cup UNION {uses(t) : t \in within[k - 1]}
    IN  within[Cardinality(DOMAIN types)]

\* encodeType: the type, then the others in the order of their names, which the
\* set of them determines.
EncodeType(name, types) ==
    LET declared(t) == <<t, Fields(types, t)>>
    IN  <<declared(name),
          {declared(t) : t \in TypeDependencies(name, types) \ {name}}>>

HashStructType(types, name) == HashText(<<Text(EncodeType(name, types))>>)

\* hashStructDomain: the name of the type is text, and what follows is hex.
HashStructDomain(domain) ==
    LET words == [f \in DOMAIN domain |->
                     IF f \in {"name", "version"} THEN HashText(<<Text(domain[f])>>)
                                                  ELSE Word(domain[f])]
        field(f) == IF f \in DOMAIN domain THEN words[f] ELSE Word(0)
    IN  HashBytes(FromHex(<<Text("EIP712Domain(...)"), field("name"),
            field("version"), field("chainId"), field("verifyingContract"),
            field("salt")>>))

\* encodeData: a word for every field, in order; a list of items or a nested
\* struct is hashed, numbers, addresses and booleans are padded.
RECURSIVE HashStructContent(_, _, _)
EncodeItem(types, base, value) ==
    IF base \in DOMAIN types THEN HashStructContent(types, base, value)
    ELSE IF base = "string" THEN HashText(<<Text(value)>>)
    ELSE Word(value)
EncodeData(types, name, data) ==
    [i \in DOMAIN Fields(types, name) |->
        LET field == Fields(types, name)[i] IN
        IF field.name \notin DOMAIN data THEN Word(0)
        ELSE LET value == data[field.name] IN
             IF field.type.list
             THEN HashBytes(FromHex([j \in DOMAIN value |->
                      EncodeItem(types, field.type.base, value[j])]))
             ELSE EncodeItem(types, field.type.base, value)]
HashStructContent(types, name, data) ==
    HashBytes(FromHex(<<HashStructType(types, name)>> \o EncodeData(types, name, data)))

\* hashStructuredData: for Ethereum the text of the prefix is read as hex too.
HashStructuredData(domain, types, name, message, chain) ==
    LET prefix == Text(CASE chain = "stacks" -> "Stacks Structured Data"
                         [] chain = "ethereum" -> "x19x01"
                         [] OTHER -> "Structured Data")
        combined == <<prefix, HashStructDomain(domain), HashStructType(types, name),
                      HashStructContent(types, name, message)>>
    IN  IF chain = "ethereum" THEN HashBytes(FromHex(combined)) ELSE HashText(combined)

-----------------------------------------------------------------------------
\* verifySignatureWithHash: a recovery byte after the 64 bytes is cut off, and
\* whatever does not parse is not valid.  A signature is [key, hash, length].
VerifySignatureWithHash(hash, signature, key) ==
    /\ signature.length \in {64, 65}
    /\ signature.key = key /\ signature.hash = hash

VerifyMessageSignature(message, signature, key, chain) ==
    VerifySignatureWithHash(HashMessage(chain, message), signature, key)

VerifyStructuredSignature(domain, types, name, message, signature, key, chain) ==
    VerifySignatureWithHash(
        HashStructuredData(domain, types, name, message, chain), signature, key)
=============================================================================
