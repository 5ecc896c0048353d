----------------------------- MODULE MCEncodings -----------------------------
(* The algorithms of a node on small inputs: what is written is read back by *)
(* the reader it is meant for.  A behaviour takes one input and computes its *)
(* output.                                                                   *)
EXTENDS Integers, Sequences, FiniteSets, Bitwise

CONSTANTS None, Refused,
          FieldPrime, CurveOrder, BaseX, BaseY, Keys, Nonces, Hashes,
          ShareBytes, ShareOrder, PrimeBits, Messages, Randoms

VARIABLES in, out
vars == <<in, out>>

\* External hash functions: keys are their seeds.
Hash160(key) == [i \in 1..20 |-> IF i <= key[1] % 4 THEN 0
                                 ELSE (i * 37 + key[Len(key)] * 91) % 256]
\* Base 58 takes 3 bytes at most: those of a prefix, a hash and a checksum.
ShortHash(key) == <<(key[Len(key)] * 91) % 256>>
Checksum(payload) == <<(payload[1] * 7 + payload[Len(payload)] * 31 + 1) % 256>>

BitXor(a, b) == a ^^ b

PublicKey(seed) == [i \in DOMAIN seed |-> (seed[i] * 5 + 3) % 256]

Chain == INSTANCE ChainEncodings
Legacy == INSTANCE ChainEncodings WITH Hash160 <- ShortHash
Wire == INSTANCE WireFormats WITH CurveOrder <- ShareOrder, NoKeys <- None
Curve == INSTANCE CurveSignatures
P == INSTANCE Paillier
Typed == INSTANCE StructuredData

Bytes20 == [i \in 1..20 |-> i + 100]
Long(n) == [i \in 1..n |-> (i * 11) % 256]

LegacyTxs ==
  [kind : {"legacyTx"},
   tx : [nonce : {0, 127, 128, 256}, gasPrice : {1, 65536}, gasLimit : {21000},
         to : {<<>>, Bytes20}, value : {0, 255, 1000000},
         data : {<<>>, <<5>>, <<200>>, Long(55), Long(56), Long(300)},
         chainId : {0, 1, 137}]]

Eip1559Txs ==
  [kind : {"eip1559Tx"},
   tx : [chainId : {1, 137}, nonce : {0, 128}, maxPriorityFeePerGas : {0, 7},
         maxFeePerGas : {256}, gasLimit : {21000}, to : {<<>>, Bytes20},
         value : {0, 255}, data : {<<>>, <<5>>, Long(56)},
         accessList : {<<>>, <<[address |-> Bytes20,
                               storageKeys |-> <<Long(32)>>]>>}]]

Addresses ==
  [kind : {"address"}, key : {<<k, l>> : k \in 0..3, l \in {0, 1, 5}},
   network : Chain!Networks, type : {"p2pkh", "p2sh-p2wpkh", "p2wpkh"}]

Signatures ==
  [kind : {"bitcoinSignature"}, r : {1, 127, 128, 255, 256, 32768, 1000000},
   s : {1, 128, 8388608}, sighashType : {1, 2, 3, 129}]

Seeds == {Long(32), [i \in 1..32 |-> 0], Long(31)}
Keys25519 == [kind : {"ed25519"}, key : Seeds, message : {1, 2}]

Field(name, base, list) == [name |-> name, type |-> [base |-> base, list |-> list]]
TypeSets ==
  {[Mail |-> <<Field("from", "Person", FALSE), Field("to", "Person", TRUE),
               Field("amount", "uint256", FALSE), Field("contents", "string", FALSE)>>,
    Person |-> person] :
      person \in {<<Field("name", "string", FALSE)>>,
                  <<Field("name", "string", FALSE), Field("friend", "Person", FALSE)>>}}
Alice == [name |-> "Alice"]
Mails ==
  {[from |-> Alice, to |-> to, contents |-> "Hello"] :
      to \in {<<>>, <<Alice>>, <<Alice, [name |-> "Bob"]>>}}
  \cup {[from |-> [name |-> "Bob", friend |-> Alice], to |-> <<Alice>>, amount |-> n,
         contents |-> "Hello"] : n \in {0, 1}}
  \cup {[from |-> Alice, to |-> <<Alice>>, amount |-> 0]}
TypedData ==
  [kind : {"typedData"}, types : TypeSets, message : Mails,
   chain : {"stacks", "ethereum", "sui"},
   domain : {[name |-> "Ether Mail", chainId |-> 1], [name |-> "Other", chainId |-> 2]}]
TextChains == {"stacks", "bitcoin", "ethereum", "solana", "sui", "aptos"}
Texts == [kind : {"text"}, chain : TextChains, message : {"a", "b"}]

MnemonicPhrases ==
  [kind : {"mnemonic"},
   entropy : {[i \in 1..n |-> (i * k + 17 * k) % 256] :
                n \in {16, 32}, k \in {0, 1, 37, 129, 255}}]

KeySets == {None, [id |-> 1, pad |-> 1], [id |-> 2, pad |-> 5]}
Envelopes ==
  [kind : {"message"},
   msg : [version : {1}, type : {1, 255}, sessionId : {<<>>, <<65>>, Long(300)},
          sequence : {0, 1, 70000}, from : {1, 2}, to : {0, 3},
          timestamp : {1700000}, payload : {<<123, 125>>, Long(40)}],
   written : KeySets, read : KeySets]

StoredShares ==
  [kind : {"share"},
   data : [version : {1, 2}, partyIndex : 1..3,
           share : {0, 1, 255, 256, ShareOrder - 1, ShareOrder},
           publicKey : {Long(33)}, chainCode : {<<>>, Long(32)}]]

Recoveries ==
  [kind : {"recovery"}, key : Keys, nonce : Nonces, hash : Hashes,
   chainId : {0, 1}]
Spikes ==
  [kind : {"spike"}, key : Keys, coefficient : {1, 9}, nonce : Nonces,
   hash : {1, 17}, i : 1..3, j : 1..3]

Primes == {p \in P!Candidates(PrimeBits) :
             P!IsProbablePrime(p, 2..(p - 4))}
Sums ==
  [kind : {"sum"}, p : Primes, q : Primes, m1 : Messages, m2 : Messages,
   r1 : Randoms, r2 : Randoms]
Numbers == [kind : {"prime"}, n : 7..200, base : 2..20]

Init ==
  /\ out = <<>>
  /\ \/ in \in LegacyTxs \cup Eip1559Txs \cup Addresses \cup Signatures
     \/ in \in Keys25519 \cup MnemonicPhrases \cup Envelopes \cup StoredShares
     \/ in \in TypedData \cup Texts
     \/ in \in Recoveries
     \/ in \in {x \in Spikes : x.i # x.j}
     \/ in \in {x \in Sums : P!PairOk(x.p, x.q)}
     \/ in \in {x \in Numbers : x.base < x.n - 3}
-----------------------------------------------------------------------------
Compute(kind, result) == in.kind = kind /\ out = <<>> /\ out' = <<result>>

\* The address that deriveBitcoinAddress() gives.
AddressOf(key, network, type) ==
  CASE type = "p2pkh" -> Legacy!P2PKHAddress(key, network)
    [] type = "p2sh-p2wpkh" -> Legacy!P2SHP2WPKHAddress(key, network)
    [] type = "p2wpkh" -> Chain!P2WPKHAddress(key, network)

Encrypted(pk) == <<P!Encrypt(pk, in.m1, in.r1), P!Encrypt(pk, in.m2, in.r2)>>

Next ==
  /\ UNCHANGED in
  /\ \/ Compute("legacyTx", Chain!LegacyTx(in.tx))
     \/ Compute("eip1559Tx", Chain!Eip1559Tx(in.tx))
     \/ Compute("address", AddressOf(in.key, in.network, in.type))
     \/ Compute("bitcoinSignature",
                Chain!BitcoinSignature(in.r, in.s, in.sighashType))
     \/ Compute("ed25519", <<Chain!SpkiDer(in.key), Chain!Pkcs8Der(in.key),
                             Chain!SignEd25519(in.message, in.key)>>)
     \/ Compute("typedData", Typed!HashStructuredData(in.domain, in.types, "Mail",
                                                     in.message, in.chain))
     \/ Compute("text", Typed!HashMessage(in.chain, in.message))
     \/ Compute("mnemonic", Chain!MnemonicWords(in.entropy))
     \/ Compute("message", Wire!EncodeMessage(in.msg, in.written))
     \/ Compute("share", Wire!SerializeShare(in.data))
     \/ Compute("recovery", Curve!Sign(in.key, in.nonce, in.hash))
     \/ Compute("spike",
          Curve!SpikeSign(
            Curve!ReconstructKey(
              in.i, Curve!KeyShare(in.key, in.coefficient, in.i),
              in.j, Curve!KeyShare(in.key, in.coefficient, in.j)),
            in.nonce, in.hash))
     \/ Compute("sum", Encrypted(P!PublicKeyOf(in.p * in.q)))
     \/ Compute("prime", P!IsProbablePrime(in.n, {in.base}))

Spec == Init /\ [][Next]_vars
Computed(kind) == in.kind = kind /\ out # <<>>
-----------------------------------------------------------------------------
(* Properties *)

result == out[1]

\* What a wallet returns for a hash, and what a message says: a number that it
\* leaves out is zero, and what its type does not name is not said.
Signed(hash) == [key |-> "key", hash |-> hash, length |-> 65]
Told(types, mail) ==
  LET friendly == Len(types.Person) = 2
      said(p) == IF friendly THEN p ELSE [name |-> p.name]
  IN  [from |-> said(mail.from), to |-> [i \in DOMAIN mail.to |-> said(mail.to[i])],
       amount |-> IF "amount" \in DOMAIN mail THEN mail.amount ELSE 0,
       contents |-> IF "contents" \in DOMAIN mail THEN <<mail.contents>> ELSE <<>>]

ReadBack ==
  CASE in.kind = "legacyTx" -> Chain!ReadLegacyTx(result) = in.tx
    [] in.kind = "eip1559Tx" ->
         Chain!ReadEip1559Tx(result) =
           [f \in DOMAIN in.tx \ {"accessList"} |-> in.tx[f]]
    [] in.kind = "address" ->
         IF in.type = "p2wpkh"
         THEN /\ Chain!Bech32Valid(in.network, result)
              /\ Chain!Bech32Program(result) = Hash160(in.key)
         ELSE LET payload ==
                    IF in.type = "p2pkh"
                    THEN <<Chain!P2pkh(in.network)>> \o ShortHash(in.key)
                    ELSE <<Chain!P2sh(in.network)>>
                           \o ShortHash(<<0, 20>> \o ShortHash(in.key))
              IN  Chain!Base58Decode(result) = payload \o Checksum(payload)
    [] in.kind = "bitcoinSignature" ->
         Chain!ReadBitcoinSignature(result) =
           [r |-> in.r, s |-> in.s, sighashType |-> in.sighashType]
    [] in.kind = "ed25519" ->
         /\ Chain!ReadSpki(result[1]) = in.key /\ Chain!ReadPkcs8(result[2]) = in.key
         /\ Chain!ExtractKey(result[1], Len(in.key)) = in.key
         /\ Chain!ExtractKey(result[2], Len(in.key)) = in.key
         /\ \A seed \in Seeds, message \in {1, 2} :
              LET pair == Chain!ImportEd25519Keypair(seed)
              IN  pair # Refused /\ result[3] # Refused =>
                    (Chain!VerifyEd25519(message, result[3], pair.publicKey)
                       <=> seed = in.key /\ message = in.message)
    [] in.kind = "typedData" ->
         \A other \in [types : TypeSets, message : Mails] :
           Typed!VerifyStructuredSignature(in.domain, other.types, "Mail", other.message,
               Signed(result), "key", in.chain)
             <=> \/ in.chain = "ethereum"
                 \/ /\ other.types = in.types
                    /\ Told(in.types, other.message) = Told(in.types, in.message)
    [] in.kind = "text" ->
         \A chain \in TextChains, message \in {"a", "b"} :
           Typed!VerifyMessageSignature(message, Signed(result), "key", chain)
             <=> /\ message = in.message
                 /\ chain = in.chain \/ {chain, in.chain} = {"sui", "aptos"}
    [] in.kind = "mnemonic" ->
         /\ Chain!ValidateMnemonic(result)
         /\ Chain!MnemonicToEntropy(result) = in.entropy
    [] in.kind = "message" ->
         Wire!DecodeMessage(result, in.read) =
           IF in.written \in {None, in.read} THEN in.msg ELSE Refused
    [] in.kind = "share" ->
         Wire!DeserializeShare(result) =
           IF in.data.version = 1 /\ in.data.share \in 1..(ShareOrder - 1)
           THEN in.data ELSE Refused
    [] OTHER -> TRUE

\* What a signer, the transport or the storage writes is what its reader
\* reads: the fields of a transaction, the hash behind an address, both parts
\* of a signature, a key, a phrase, a message or a share; and what was encrypted for
\* other keys, or is no share of version 1, is refused.
WrittenIsRead == out # <<>> => ReadBack

\* The address recovered from a signature is the signer's, whatever the chain,
\* as long as s was not normalised (with which the recovery identifier does
\* not agree) and the coordinate of the nonce's point was not reduced; and two
\* shares of the proof of concept sign for the key they were made from.
SignerRecovered ==
  /\ Computed("recovery") /\ ~result.normalised /\ result.r # 0 /\ result.s # 0
       /\ Curve!PublicKey[in.nonce][1] < CurveOrder
     => Curve!RecoverEthereumAddress(in.hash, result.r, result.s,
          Curve!EthereumV(result.recoveryId, in.chainId))
          = Curve!Address(Curve!PublicKey[in.key])
  /\ Computed("spike") /\ result.s # 0 /\ result.r < CurveOrder
     => Curve!SpikeVerify(Curve!PublicKey[in.key], in.hash, result)

\* Sums and multiples of encrypted numbers decrypt to the sums and multiples,
\* for every pair of primes the generator accepts; and it accepts every prime.
SumDecrypts ==
  /\ Computed("sum") /\ P!Gcd(in.r1 * in.r2, in.p * in.q) = 1
     => LET sk == P!Keypair(in.p, in.q)
        IN  /\ P!Invertible(sk.lambda % sk.n, sk.n)
            /\ P!ModPow(in.r1, sk.lambda, sk.n) = 1
            /\ P!Decrypt(sk, P!AddCiphertexts(sk, result[1], result[2]))
                 = (in.m1 + in.m2) % sk.n
            /\ P!Decrypt(sk, P!ScalarMul(sk, result[1], in.m2))
                 = (in.m1 * in.m2) % sk.n
  /\ Computed("prime") /\ (\A d \in 2..(in.n - 1) : in.n % d # 0) => result
=============================================================================
