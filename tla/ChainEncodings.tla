--------------------------- MODULE ChainEncodings ---------------------------
(* What the chain signers of apps/mpc/src/signing hash, sign and show:       *)
(* RLP and transactions of Ethereum, addresses and signatures of Bitcoin,    *)
(* the DER containers of Ed25519 keys; and the words of a recovery phrase    *)
(* (apps/mpc/src/recovery/mnemonic.ts).  A hash function is external and     *)
(* represented by its argument; where its bytes take part in an encoding     *)
(* they are given as Hash160 and Checksum.                                   *)
EXTENDS ByteStrings

CONSTANTS
  Hash160(_),   \* hash160(): a public key's hash
  Checksum(_),  \* the first bytes of hash256()
  PublicKey(_), \* the Ed25519 public key of a seed
  BitXor(_, _), \* the exclusive or of two numbers
  Refused       \* what a reader makes of bytes it cannot read
-----------------------------------------------------------------------------
(* Ethereum *)

\* Mutant of RlpBytes: a byte that starts a string passes for itself.
RlpBytesLoose(buf) ==
  LET lenHex == Digits(Len(buf), 256)
  IN  CASE Len(buf) = 1 /\ buf[1] <= 128 -> buf
        [] Len(buf) <= 55 /\ ~(Len(buf) = 1 /\ buf[1] <= 128) ->
             <<128 + Len(buf)>> \o buf
        [] OTHER -> <<183 + Len(lenHex)>> \o lenHex \o buf

\* rlpEncodeBytes()
RlpBytes(buf) ==
  LET lenHex == Digits(Len(buf), 256)
  IN  CASE Len(buf) = 1 /\ buf[1] < 128 -> buf
        [] Len(buf) <= 55 /\ ~(Len(buf) = 1 /\ buf[1] < 128) ->
             <<128 + Len(buf)>> \o buf
        [] OTHER -> <<183 + Len(lenHex)>> \o lenHex \o buf

\* rlpEncodeList(): of items that are encoded.
RlpList(items) ==
  LET combined == FlattenSeq(items)
      lenHex == Digits(Len(combined), 256)
  IN  IF Len(combined) <= 55 THEN <<192 + Len(combined)>> \o combined
      ELSE <<247 + Len(lenHex)>> \o lenHex \o combined

\* rlpEncode() of an array of buffers.
RlpEncode(fields) == RlpList([i \in DOMAIN fields |-> RlpBytes(fields[i])])

EncodeUint(n) == Digits(n, 256)

\* legacyTxHash(): what is hashed.  A chainId of 0 is one that is not given.
LegacyTx(tx) ==
  RlpEncode(
    <<EncodeUint(tx.nonce), EncodeUint(tx.gasPrice), EncodeUint(tx.gasLimit),
      tx.to, EncodeUint(tx.value), tx.data>>
    \o IF tx.chainId > 0 THEN <<EncodeUint(tx.chainId), <<>>, <<>>>> ELSE <<>>)

\* The list of accessed addresses and their keys.  It is encoded here, and a
\* second time as a buffer when it becomes a field: what is hashed holds a
\* byte string where the list should be.
AccessList(list) ==
  RlpList([i \in DOMAIN list |->
    RlpEncode(<<list[i].address,
                RlpList([k \in DOMAIN list[i].storageKeys |->
                           RlpBytes(list[i].storageKeys[k])])>>)])

\* eip1559TxHash(): what is hashed.
Eip1559Tx(tx) ==
  <<2>> \o RlpEncode(
    <<EncodeUint(tx.chainId), EncodeUint(tx.nonce),
      EncodeUint(tx.maxPriorityFeePerGas), EncodeUint(tx.maxFeePerGas),
      EncodeUint(tx.gasLimit), tx.to, EncodeUint(tx.value), tx.data,
      AccessList(tx.accessList)>>)

\* The reader of RLP that the encoding is for: the item that starts at i, as
\* [list |-> whether it is one, bytes |-> its content, next |-> what follows].
RlpItem(buf, i) ==
  LET b == buf[i]
      Item(isList, offset, len) ==
        [list |-> isList, bytes |-> Slice(buf, i + offset, len),
         next |-> i + offset + len]
      Long(width) == ValueOf(Slice(buf, i + 1, width), 256)
  IN  CASE b < 128 -> Item(FALSE, 0, 1)
        [] b \in 128..183 -> Item(FALSE, 1, b - 128)
        [] b \in 184..191 -> Item(FALSE, b - 182, Long(b - 183))
        [] b \in 192..247 -> Item(TRUE, 1, b - 192)
        [] b > 247 -> Item(TRUE, b - 246, Long(b - 247))

\* The contents of the items of a list; one that does not fit ends it.
RlpFields(buf) ==
  LET body == RlpItem(buf, 1).bytes
      fields[i \in Nat] ==
        IF \/ i > Len(body)
           \/ RlpItem(body, i).next \notin (i + 1)..(Len(body) + 1)
        THEN <<>>
        ELSE <<RlpItem(body, i).bytes>> \o fields[RlpItem(body, i).next]
  IN  fields[1]

ReadLegacyTx(buf) ==
  LET f == RlpFields(buf)
  IN  [nonce |-> ValueOf(f[1], 256), gasPrice |-> ValueOf(f[2], 256),
       gasLimit |-> ValueOf(f[3], 256), to |-> f[4],
       value |-> ValueOf(f[5], 256), data |-> f[6],
       chainId |-> IF Len(f) = 9 THEN ValueOf(f[7], 256) ELSE 0]

\* The access list is left out: no reader of type-2 transactions accepts it.
ReadEip1559Tx(buf) ==
  LET f == RlpFields(Tail(buf))
  IN  [chainId |-> ValueOf(f[1], 256), nonce |-> ValueOf(f[2], 256),
       maxPriorityFeePerGas |-> ValueOf(f[3], 256),
       maxFeePerGas |-> ValueOf(f[4], 256), gasLimit |-> ValueOf(f[5], 256),
       to |-> f[6], value |-> ValueOf(f[7], 256), data |-> f[8]]
-----------------------------------------------------------------------------
(* Bitcoin *)

Networks == {"mainnet", "testnet"}
P2pkh(network) == IF network = "mainnet" THEN 0 ELSE 111
P2sh(network) == IF network = "mainnet" THEN 5 ELSE 196
\* The characters of 'bc' and 'tb'.
Hrp(network) == IF network = "mainnet" THEN <<98, 99>> ELSE <<116, 98>>

\* base58Encode(): characters are their places in the alphabet.
LeadingZeros(data) ==
  Cardinality({i \in DOMAIN data : \A j \in 1..i : data[j] = 0})

Base58Encode(data) ==
  IF ValueOf(data, 256) = 0 THEN <<0>>
  ELSE Repeated(0, LeadingZeros(data)) \o Digits(ValueOf(data, 256), 58)

Base58CheckEncode(payload) == Base58Encode(payload \o Checksum(payload))

\* The two legacy addresses of deriveBitcoinAddress().
P2PKHAddress(key, network) ==
  Base58CheckEncode(<<P2pkh(network)>> \o Hash160(key))
P2SHP2WPKHAddress(key, network) ==
  Base58CheckEncode(<<P2sh(network)>> \o Hash160(<<0, 20>> \o Hash160(key)))

\* convertBits(): the bits in groups of `to`, the last one filled with zeros.
ConvertBits(data, from, to) ==
  LET n == Len(data) * from
      Bit(k) == (data[((k - 1) \div from) + 1]
                   \div 2 ^ (from - 1 - ((k - 1) % from))) % 2
      group[k \in Int, left \in Nat] ==
        IF left = 0 THEN 0
        ELSE (IF k <= n THEN Bit(k) * 2 ^ (left - 1) ELSE 0)
             + group[k + 1, left - 1]
  IN  [g \in 1..((n + to - 1) \div to) |-> group[(g - 1) * to + 1, to]]

HrpExpand(hrp) ==
  [i \in DOMAIN hrp |-> hrp[i] \div 32] \o <<0>>
    \o [i \in DOMAIN hrp |-> hrp[i] % 32]

Generators == <<996825010, 642813549, 513874426, 1027748829, 705979059>>

Polymod(values) ==
  LET Step(chk, v) ==
        LET b == chk \div 2 ^ 25
            mixed[i \in 0..5] ==
              IF i = 0 THEN BitXor((chk % 2 ^ 25) * 32, v)
              ELSE IF (b \div 2 ^ (i - 1)) % 2 = 1
                   THEN BitXor(mixed[i - 1], Generators[i]) ELSE mixed[i - 1]
        IN  mixed[5]
      chk[i \in 0..Len(values)] ==
        IF i = 0 THEN 1 ELSE Step(chk[i - 1], values[i])
  IN  chk[Len(values)]

\* bech32Encode() takes the constant of bech32m for every network but 'bc'.
Bech32Constant(network) == IF network = "mainnet" THEN 1 ELSE 734539939

\* bech32Encode() for version 0: what follows the separator.
P2WPKHAddress(key, network) ==
  LET data == <<0>> \o ConvertBits(Hash160(key), 8, 5)
      mod == BitXor(Polymod(HrpExpand(Hrp(network)) \o data \o Repeated(0, 6)),
                 Bech32Constant(network))
  IN  data \o [i \in 1..6 |-> (mod \div 2 ^ (5 * (6 - i))) % 32]

\* generateMnemonic(): the bits of the entropy and the first ones of its
\* checksum, in words of 11 bits.
MnemonicWords(entropy) ==
  SubSeq(ConvertBits(entropy \o Checksum(entropy), 8, 11),
         1, (3 * Len(entropy)) \div 4)

\* mnemonicToEntropy(): the first 32 of every 33 bits.
MnemonicToEntropy(words) ==
  SubSeq(ConvertBits(words, 11, 8), 1, (4 * Len(words)) \div 3)

\* validateMnemonic()
ValidateMnemonic(words) ==
  /\ Len(words) \in {12, 24}
  /\ LET checksumLen == Len(words) \div 3
     IN  Last(words) % 2 ^ checksumLen
           = Checksum(MnemonicToEntropy(words))[1] \div 2 ^ (8 - checksumLen)

\* The readers of addresses.
Base58Decode(text) ==
  LET zeros == LeadingZeros(text)
  IN  Repeated(0, zeros) \o Digits(ValueOf(text, 58), 256)

Bech32Valid(network, data) ==
  Polymod(HrpExpand(Hrp(network)) \o data) = Bech32Constant(network)

\* The witness program: the padding is cut off.
Bech32Program(data) ==
  LET bytes == ConvertBits(SubSeq(data, 2, Len(data) - 6), 5, 8)
  IN  SubSeq(bytes, 1, (5 * (Len(data) - 7)) \div 8)
-----------------------------------------------------------------------------
(* DER *)

\* encodeAsn1Length()
Asn1Length(n) ==
  IF n < 128 THEN <<n>> ELSE <<128 + Len(Digits(n, 256))>> \o Digits(n, 256)

Asn1(tag, content) == <<tag>> \o Asn1Length(Len(content)) \o content
Asn1BitString(content) == Asn1(3, content)
Asn1OctetString(content) == Asn1(4, content)
Asn1Sequence(content) == Asn1(48, content)

Ed25519Oid == <<6, 3, 43, 101, 112>>
Ed25519Algorithm == <<48, 5>> \o Ed25519Oid

\* buildSpkiDer() and buildPkcs8Der()
SpkiDer(pubKey) ==
  Asn1Sequence(Ed25519Algorithm \o Asn1BitString(<<0>> \o pubKey))
Pkcs8Der(seed) ==
  Asn1Sequence(<<2, 1, 0>> \o Ed25519Algorithm
                 \o Asn1OctetString(Asn1OctetString(seed)))

\* extractEd25519PublicKey() and extractEd25519PrivateKey(): the last bytes.
ExtractKey(der, len) == From(der, Len(der) - len + 1)

\* signatureToDerHex(): an integer has a leading zero when it looks negative,
\* and lengths are written in one byte.
DerInteger(n) ==
  LET digits == IF n = 0 THEN <<0>> ELSE Digits(n, 256)
      bytes == IF digits[1] >= 128 THEN <<0>> \o digits ELSE digits
  IN  <<2, Len(bytes)>> \o bytes
SignatureToDer(r, s) ==
  LET der == DerInteger(r) \o DerInteger(s) IN <<48, Len(der)>> \o der

\* signBitcoinTransaction(): the type of the sighash follows.
BitcoinSignature(r, s, sighashType) == Append(SignatureToDer(r, s), sighashType)

\* The reader of DER: the content of the element at the start, which must be
\* the whole of der up to `rest` bytes.
DerContent(tag, der, rest) ==
  LET width == IF der[2] < 128 THEN 0 ELSE der[2] - 128
      len == IF width = 0 THEN der[2] ELSE ValueOf(Slice(der, 3, width), 256)
  IN  IF der[1] = tag /\ Len(der) = 2 + width + len + rest
      THEN Slice(der, 3 + width, len) ELSE Refused

\* A positive integer at i, and what follows it.
DerIntegerAt(der, i) ==
  [value |-> ValueOf(Slice(der, i + 2, der[i + 1]), 256),
   positive |-> der[i] = 2 /\ der[i + 2] < 128, next |-> i + 2 + der[i + 1]]

ReadBitcoinSignature(buf) ==
  LET body == DerContent(48, buf, 1)
      r == DerIntegerAt(body, 1)
      s == DerIntegerAt(body, r.next)
  IN  IF r.positive /\ s.positive /\ s.next = Len(body) + 1
      THEN [r |-> r.value, s |-> s.value, sighashType |-> Last(buf)]
      ELSE Refused

ReadPkcs8(der) ==
  LET body == DerContent(48, der, 0)
  IN  DerContent(4, DerContent(4, From(body, 11), 0), 0)
ReadSpki(der) == Tail(DerContent(3, From(DerContent(48, der, 0), 8), 0))

-----------------------------------------------------------------------------
(* Ed25519: a signature stands for its key and its message. *)

\* importEd25519Keypair(): a seed of another length is refused.
ImportEd25519Keypair(seed) ==
  IF Len(seed) # 32 THEN Refused
  ELSE [privateKey |-> seed,
        publicKey |-> ExtractKey(SpkiDer(PublicKey(ReadPkcs8(Pkcs8Der(seed)))), 32)]

\* signEd25519() and signChallenge()
SignEd25519(message, seed) ==
  IF Len(seed) # 32 THEN Refused
  ELSE [key |-> PublicKey(ReadPkcs8(Pkcs8Der(seed))),
        message |-> message]

\* verifyEd25519() and verifyChallenge()
VerifyEd25519(message, signature, pubKey) ==
  /\ Len(pubKey) = 32
  /\ signature = [key |-> ReadSpki(SpkiDer(pubKey)), message |-> message]
=============================================================================
